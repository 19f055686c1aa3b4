---------------------------- MODULE PendingInvite ----------------------------
(***************************************************************************)
(* One invite at the relay: worker/src/pending-invite.ts.  The object keeps *)
(* a sealed blob, who claimed it, and an alarm for its expiry.  Its id and  *)
(* its cancel token are the relay's own random choice: an id is never used  *)
(* twice, and only the initiator's devices have the token.  Every method is *)
(* a few statements between two awaits that never wait, so one step.        *)
(***************************************************************************)
EXTENDS Naturals, FiniteSets

CONSTANTS
    Person,         \* people who may open the link
    Nobody          \* claimed_by IS NULL

\* A key is not mistaken for a word.
ASSUME PersonAssumption ==
    /\ Nobody \notin Person
    /\ (Person \cup {Nobody}) \cap
         {"unwritten", "deleted", "ok", "not_found", "already_claimed", "expired"} = {}

VARIABLES
    row,            \* the row of table invite: in it, claimed_by; or Unwritten, Deleted
    late,           \* now >= expires_at
    redeemed        \* who was ever answered with the blob

relayVars == <<row, late, redeemed>>

Unwritten == "unwritten"
Deleted == "deleted"

\* The table holds a row.
Stored == row \in Person \cup {Nobody}

RelayTypeOK ==
    /\ row \in Person \cup {Nobody, Unwritten, Deleted}
    /\ late \in BOOLEAN
    /\ redeemed \in SUBSET Person

RelayInit ==
    /\ row = Unwritten
    /\ late = FALSE
    /\ redeemed = {}

\* create: the blob is stored unclaimed, and its expiry scheduled.
Create ==
    /\ row = Unwritten
    /\ row' = Nobody
    /\ UNCHANGED <<late, redeemed>>

\* Seven days pass.
Age ==
    /\ Stored
    /\ late' = TRUE
    /\ UNCHANGED <<row, redeemed>>

\* A slip: that someone has claimed it already goes unnoticed.
ClaimVerdictUnchecked(who) ==
    IF ~Stored THEN "not_found" ELSE IF late THEN "expired" ELSE "ok"

\* claim: what the claimer is answered.
ClaimVerdict(who) ==
    IF ~Stored THEN "not_found"
    ELSE IF late THEN "expired"
    ELSE IF row # Nobody THEN "already_claimed"
    ELSE "ok"

\* claim: the first of the claimers is bound to the invite, and gets the blob.
Claim(who) ==
    IF ClaimVerdict(who) = "ok"
    THEN row' = who /\ redeemed' = redeemed \cup {who} /\ UNCHANGED late
    ELSE UNCHANGED relayVars

\* cancel, with the right token: what the initiator is answered.
CancelVerdict ==
    IF ~Stored THEN "not_found" ELSE IF row # Nobody THEN "already_claimed" ELSE "ok"

\* cancel: the row goes, and with it the alarm.
Cancel ==
    /\ row' = IF CancelVerdict = "ok" THEN Deleted ELSE row
    /\ UNCHANGED <<late, redeemed>>

\* status: a 404 if there is no row, and who claimed it if there is.
StatusVerdict == IF Stored THEN row ELSE "not_found"

\* alarm: the row goes, claimed or not.
Alarm ==
    /\ Stored
    /\ late
    /\ row' = Deleted
    /\ UNCHANGED <<late, redeemed>>

\* The invite of a game that has been joined is gone from the relay.
Lapsed == row = Deleted /\ redeemed # {}
=============================================================================
