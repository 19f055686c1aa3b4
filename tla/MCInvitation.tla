---------------------------- MODULE MCInvitation ----------------------------
(* An initiator with two devices and two calls under way at once on the      *)
(* first; two people open the link, and one of them has not got the rules.   *)
EXTENDS Invitation

CONSTANTS phone, laptop, p1, p2, l1, rival, stranger

MCJobOf == [j \in Job |-> IF j = l1 THEN laptop ELSE phone]
=============================================================================
