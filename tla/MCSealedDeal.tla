---------------------------- MODULE MCSealedDeal -----------------------------
(* A bag of three tiles, two of them alike, and two secrets.                  *)
EXTENDS SealedDeal

MCBag == <<1, 2, 2>>
MCSecret == [p \in {0, 1} |-> 1234 + 777 * p]
==============================================================================
