----------------------------- MODULE MCLetrasOne -----------------------------
(* Bags for TLC: a few tiles of each kind, few enough that they run out.      *)
EXTENDS LetrasOne

TwoOfEach == [k \in 1..Kinds |-> 2]
FourOfEach == [k \in 1..Kinds |-> 4]
==============================================================================
