--------------------------- MODULE InvitationProofs ---------------------------
(* What holds of an invitation for any number of devices, calls and people.  *)
EXTENDS Invitation, TLAPS

\* What a call under way has in hand fits the place it is at.
WorkOK ==
    \A j \in Job :
        /\ job[j].at \in {"answered", "writing"} =>
              job[j].answer \in Person \cup {"not_found"}
        /\ job[j].at = "writing" => job[j].rec \in Record

\* Whose name is written where a claimer's name goes.
Named(r) == r.claimer \in redeemed \cup {Nobody}

\* The row agrees with who was answered with the blob.
RowOK ==
    /\ row \in Person => redeemed = {row}
    /\ row \in {Nobody, Unwritten} => redeemed = {}
    /\ \A c1, c2 \in redeemed : c1 = c2

\* Whoever is named anywhere was.
NamesOK ==
    /\ \A d \in Device : Named(game[d])
    /\ \A j \in Job : Named(job[j].rec)
    /\ \A j \in Job : job[j].answer \in Person => job[j].answer \in redeemed
    /\ \A d \in Device : \A letter \in inbox[d] : Named(letter.notice)
    /\ \A j \in Job : \A letter \in job[j].mail : Named(letter.notice)
    /\ \A c \in Person : opening[c] = "granted" => c \in redeemed
    /\ \A c \in Person : theirs[c] # "none" => c \in redeemed
-----------------------------------------------------------------------------
TypeInv == InvitationTypeOK /\ WorkOK

\* A notice is one of five kinds of record.
LEMMA NoticeForm ==
    ASSUME NEW r \in Notice
    PROVE  /\ r \in [status : {"none", "pending", "expired", "active"}, claimer : Person \cup {Nobody}]
           /\ r.status = "active" => r.claimer \in Person
           /\ r.status = "pending" => r.claimer = Nobody
           /\ r # NoGame => r \in Record
    BY DEF Notice, Record, NoGame, Pending, Expired, Active, Outlived

LEMMA Kinds ==
    /\ Pending \in Record
    /\ NoGame \in Notice
    /\ \A r \in Record : r \in Notice
    /\ \A c \in Person : Active(c) \in Record
    /\ Idle \in Call
    BY DEF Notice, Record, NoGame, Pending, Expired, Active, Outlived, Call, Idle, Stage, Answer

LEMMA PatchedForm ==
    ASSUME NEW r \in Record
    PROVE  [r EXCEPT !.status = "expired"] \in Record
    BY DEF Record, NoGame, Pending, Expired, Active, Outlived

THEOREM TypeInvInit == Init => TypeInv
<1> SUFFICES ASSUME Init PROVE TypeInv
    OBVIOUS
<1>1. InvitationTypeOK
    <2>1. RelayTypeOK
        BY DEF Init, RelayInit, RelayTypeOK
    <2>2. game \in [Device -> Notice] /\ job \in [Job -> Call]
        BY Kinds DEF Init
    <2>3. inbox \in [Device -> SUBSET Letter] /\ posted \in [Device -> Nat]
        BY DEF Init
    <2>4. QED
        BY <2>1, <2>2, <2>3 DEF Init, InvitationTypeOK
<1>2. \A j \in Job : job[j].at = "idle"
    BY DEF Init, Idle
<1>3. QED
    BY <1>1, <1>2 DEF TypeInv, WorkOK, At

\* A step that leaves one call somewhere else, in order.
LEMMA CallMoves ==
    ASSUME TypeInv, NEW j \in Job, NEW w \in Call,
           w.at \in {"answered", "writing"} => w.answer \in Person \cup {"not_found"},
           w.at = "writing" => w.rec \in Record,
           job' = [job EXCEPT ![j] = w]
    PROVE  job' \in [Job -> Call] /\ WorkOK'
    BY JobAssumption DEF TypeInv, InvitationTypeOK, WorkOK, At

\* So does the end of a turn of a poll's loop.
LEMMA GoesOn ==
    ASSUME TypeInv, NEW j \in Job, NEW left \in SUBSET Letter, GoOn(j, left)
    PROVE  job' \in [Job -> Call] /\ WorkOK'
<1> DEFINE w == IF left = {} THEN Idle ELSE [Idle EXCEPT !.at = "received", !.mail = left]
<1>1. w \in Call /\ w.at \in {"idle", "received"}
    BY Kinds DEF Call, Stage, Answer, Idle, Notice
<1>2. job' = [job EXCEPT ![j] = w]
    BY DEF GoOn
<1>3. QED
    BY <1>1, <1>2, CallMoves

THEOREM TypeInvStep == TypeInv /\ [Next]_invitationVars => TypeInv'
<1> SUFFICES ASSUME TypeInv, [Next]_invitationVars
             PROVE  TypeInv'
    OBVIOUS
<1> USE JobAssumption DEF TypeInv, InvitationTypeOK, RelayTypeOK, At, Go, Mine
<1>1. ASSUME NEW j \in Job, CreateAsk(j)
      PROVE  TypeInv'
    <2> DEFINE w == [job[j] EXCEPT !.at = "creating"]
    <2>1. /\ w \in Call
          /\ w.at \in {"answered", "writing"} => w.answer \in Person \cup {"not_found"}
          /\ w.at = "writing" => w.rec \in Record
        BY <1>1, Kinds DEF CreateAsk, Call, Stage, Answer
    <2>2. job' = [job EXCEPT ![j] = w]
        BY <1>1 DEF CreateAsk
    <2>4. job' \in [Job -> Call] /\ WorkOK'
        BY <2>1, <2>2, CallMoves
    <2>5. QED
        BY <1>1, <2>4, Kinds DEF CreateAsk, Create, relayVars
<1>2. ASSUME NEW j \in Job, CreateStore(j)
      PROVE  TypeInv'
    <2> DEFINE w == [Idle EXCEPT !.at = "posting", !.rec = Pending]
    <2>1. /\ w \in Call
          /\ w.at \in {"answered", "writing"} => w.answer \in Person \cup {"not_found"}
          /\ w.at = "writing" => w.rec \in Record
        BY <1>2, Kinds DEF CreateStore, Call, Stage, Answer, Idle
    <2>2. job' = [job EXCEPT ![j] = w]
        BY <1>2 DEF CreateStore
    <2>4. job' \in [Job -> Call] /\ WorkOK'
        BY <2>1, <2>2, CallMoves
    <2>5. QED
        BY <1>2, <2>4, Kinds DEF CreateStore, relayVars
<1>3. ASSUME NEW j \in Job, RefreshStart(j)
      PROVE  TypeInv'
    <2> DEFINE w == [job[j] EXCEPT !.at = "asking"]
    <2>1. /\ w \in Call
          /\ w.at \in {"answered", "writing"} => w.answer \in Person \cup {"not_found"}
          /\ w.at = "writing" => w.rec \in Record
        BY <1>3, Kinds DEF RefreshStart, Call, Stage, Answer
    <2>2. job' = [job EXCEPT ![j] = w]
        BY <1>3 DEF RefreshStart
    <2>4. job' \in [Job -> Call] /\ WorkOK'
        BY <2>1, <2>2, CallMoves
    <2>5. QED
        BY <1>3, <2>4, Kinds DEF RefreshStart, relayVars
<1>4. ASSUME NEW j \in Job, RefreshAnswer(j)
      PROVE  TypeInv'
    <2> DEFINE w == IF StatusVerdict = Nobody THEN Idle
                ELSE [Idle EXCEPT !.at = "answered", !.answer = StatusVerdict]
    <2>1. /\ w \in Call
          /\ w.at \in {"answered", "writing"} => w.answer \in Person \cup {"not_found"}
          /\ w.at = "writing" => w.rec \in Record
        BY <1>4, Kinds DEF RefreshAnswer, Call, Stage, Answer, StatusVerdict, Stored, Idle
    <2>2. job' = [job EXCEPT ![j] = w]
        BY <1>4 DEF RefreshAnswer
    <2>4. job' \in [Job -> Call] /\ WorkOK'
        BY <2>1, <2>2, CallMoves
    <2>5. QED
        BY <1>4, <2>4, Kinds DEF RefreshAnswer, relayVars
<1>5. ASSUME NEW j \in Job, RefreshRead(j)
      PROVE  TypeInv'
    <2> DEFINE w == IF Mine(j) = NoGame THEN Idle
                ELSE [job[j] EXCEPT !.at = "writing", !.rec = Mine(j)]
    <2>1. /\ w \in Call
          /\ w.at \in {"answered", "writing"} => w.answer \in Person \cup {"not_found"}
          /\ w.at = "writing" => w.rec \in Record
        BY <1>5, Kinds, NoticeForm DEF RefreshRead, Call, Stage, Answer, Idle, WorkOK
    <2>2. job' = [job EXCEPT ![j] = w]
        BY <1>5 DEF RefreshRead
    <2>4. job' \in [Job -> Call] /\ WorkOK'
        BY <2>1, <2>2, CallMoves
    <2>5. QED
        BY <1>5, <2>4, Kinds DEF RefreshRead, relayVars
<1>6. ASSUME NEW j \in Job, RefreshWrite(j)
      PROVE  TypeInv'
    <2> DEFINE w == IF job[j].answer = "not_found" THEN Idle
                    ELSE [job[j] EXCEPT !.at = "posting", !.rec = Patched(j)]
    <2>1. Patched(j) \in Record
        BY <1>6, Kinds, PatchedForm DEF RefreshWrite, Patched, WorkOK
    <2>2. /\ w \in Call
          /\ w.at \notin {"answered", "writing"}
        BY <1>6, <2>1, Kinds DEF Call, Stage, Answer, Idle
    <2>3. job' = [job EXCEPT ![j] = w]
        BY <1>6 DEF RefreshWrite
    <2>4. job' \in [Job -> Call] /\ WorkOK'
        BY <1>6, <2>2, <2>3, CallMoves DEF RefreshWrite
    <2>5. QED
        BY <1>6, <2>1, <2>4, Kinds DEF RefreshWrite, relayVars
<1>7. ASSUME NEW j \in Job, CancelStart(j)
      PROVE  TypeInv'
    <2> DEFINE w == [job[j] EXCEPT !.at = IF Mine(j).claimer = Nobody THEN "withdrawing" ELSE "withdrawn"]
    <2>1. /\ w \in Call
          /\ w.at \in {"answered", "writing"} => w.answer \in Person \cup {"not_found"}
          /\ w.at = "writing" => w.rec \in Record
        BY <1>7, Kinds DEF CancelStart, Call, Stage, Answer
    <2>2. job' = [job EXCEPT ![j] = w]
        BY <1>7 DEF CancelStart
    <2>4. job' \in [Job -> Call] /\ WorkOK'
        BY <2>1, <2>2, CallMoves
    <2>5. QED
        BY <1>7, <2>4, Kinds DEF CancelStart, relayVars
<1>8. ASSUME NEW j \in Job, CancelAnswer(j)
      PROVE  TypeInv'
    <2> DEFINE w == IF CancelVerdict = "already_claimed" THEN Idle
                ELSE [job[j] EXCEPT !.at = "withdrawn"]
    <2>1. /\ w \in Call
          /\ w.at \in {"answered", "writing"} => w.answer \in Person \cup {"not_found"}
          /\ w.at = "writing" => w.rec \in Record
        BY <1>8, Kinds DEF CancelAnswer, Call, Stage, Answer, Idle
    <2>2. job' = [job EXCEPT ![j] = w]
        BY <1>8 DEF CancelAnswer
    <2>4. job' \in [Job -> Call] /\ WorkOK'
        BY <2>1, <2>2, CallMoves
    <2>5. QED
        BY <1>8, <2>4, Kinds DEF CancelAnswer, Cancel, relayVars
<1>9. ASSUME NEW j \in Job, CancelForget(j)
      PROVE  TypeInv'
    <2> DEFINE w == [Idle EXCEPT !.at = "posting"]
    <2>1. /\ w \in Call
          /\ w.at \in {"answered", "writing"} => w.answer \in Person \cup {"not_found"}
          /\ w.at = "writing" => w.rec \in Record
        BY <1>9, Kinds DEF CancelForget, Call, Stage, Answer, Idle
    <2>2. job' = [job EXCEPT ![j] = w]
        BY <1>9 DEF CancelForget
    <2>4. job' \in [Job -> Call] /\ WorkOK'
        BY <2>1, <2>2, CallMoves
    <2>5. QED
        BY <1>9, <2>4, Kinds DEF CancelForget, relayVars
<1>10. ASSUME NEW j \in Job, Post(j)
      PROVE  TypeInv'
    <2>1. inbox' \in [Device -> SUBSET Letter] /\ posted' \in [Device -> Nat]
        BY <1>10 DEF Post, Call, Letter
    <2>2. Idle.at = "idle"
        BY DEF Idle
    <2>3. job' \in [Job -> Call] /\ WorkOK'
        BY <1>10, <2>2, CallMoves, Kinds DEF Post
    <2>4. QED
        BY <1>10, <2>1, <2>3 DEF Post, relayVars
<1>11. ASSUME NEW j \in Job, PollStart(j)
      PROVE  TypeInv'
    <2> DEFINE w == [Idle EXCEPT !.at = "received", !.mail = inbox[JobOf[j]]]
    <2>1. w \in Call /\ w.at = "received"
        BY DEF Call, Stage, Answer, Idle, Notice
    <2>2. job' = [job EXCEPT ![j] = w]
        BY <1>11 DEF PollStart
    <2>3. job' \in [Job -> Call] /\ WorkOK'
        BY <2>1, <2>2, CallMoves
    <2>4. QED
        BY <1>11, <2>3 DEF PollStart, relayVars
<1>12. ASSUME NEW j \in Job, PollApply(j)
      PROVE  TypeInv'
    <2> DEFINE w == [job[j] EXCEPT !.at = "dropping", !.rec = NoGame]
    <2>1. game' \in [Device -> Notice]
        BY <1>12 DEF PollApply, Oldest, Applied, Call, Letter
    <2>2. w \in Call /\ w.at = "dropping"
        BY Kinds DEF Call, Stage
    <2>3. job' = [job EXCEPT ![j] = w]
        BY <1>12 DEF PollApply
    <2>4. job' \in [Job -> Call] /\ WorkOK'
        BY <2>2, <2>3, CallMoves
    <2>5. QED
        BY <1>12, <2>1, <2>4 DEF PollApply, relayVars
<1>13. ASSUME NEW j \in Job, JobStops(j)
      PROVE  TypeInv'
    <2>1. Idle.at = "idle"
        BY DEF Idle
    <2>2. job' \in [Job -> Call] /\ WorkOK'
        BY <1>13, <2>1, CallMoves, Kinds DEF JobStops
    <2>3. QED
        BY <1>13, <2>2 DEF JobStops, relayVars
<1>14. ASSUME NEW j \in Job, PollRead(j)
      PROVE  TypeInv'
    <2> DEFINE w == [job[j] EXCEPT !.at = "applying", !.rec = Mine(j)]
    <2>1. w \in Call /\ w.at = "applying"
        BY DEF Call, Stage
    <2>2. job' = [job EXCEPT ![j] = w]
        BY <1>14 DEF PollRead
    <2>3. job' \in [Job -> Call] /\ WorkOK'
        BY <2>1, <2>2, CallMoves
    <2>4. QED
        BY <1>14, <2>3 DEF PollRead, relayVars
<1>15. ASSUME NEW j \in Job, PollDrop(j)
      PROVE  TypeInv'
    <2>1. job[j].mail \ Oldest(j) \in SUBSET Letter
        BY DEF Call
    <2>2. job' \in [Job -> Call] /\ WorkOK'
        BY <1>15, <2>1, GoesOn DEF PollDrop
    <2>3. QED
        BY <1>15, <2>2 DEF PollDrop, relayVars
<1>16. ASSUME NEW j \in Job, PollKeeps(j)
      PROVE  TypeInv'
    <2>1. job[j].mail \ Oldest(j) \in SUBSET Letter
        BY DEF Call
    <2>2. job' \in [Job -> Call] /\ WorkOK'
        BY <1>16, <2>1, GoesOn DEF PollKeeps
    <2>3. QED
        BY <1>16, <2>2 DEF PollKeeps, relayVars
<1>17. ASSUME NEW j \in Job, PollThrows(j)
      PROVE  TypeInv'
    <2> DEFINE w == [Idle EXCEPT !.at = "dropping", !.mail = Oldest(j)]
    <2>1. w \in Call /\ w.at = "dropping"
        BY DEF Call, Stage, Answer, Idle, Notice, Oldest
    <2>2. job' = [job EXCEPT ![j] = w]
        BY <1>17 DEF PollThrows
    <2>3. job' \in [Job -> Call] /\ WorkOK'
        BY <2>1, <2>2, CallMoves
    <2>4. QED
        BY <1>17, <2>3 DEF PollThrows, relayVars
<1>18. ASSUME NEW c \in Person, JoinClaim(c)
      PROVE  TypeInv'
    BY <1>18 DEF JoinClaim, Claim, ClaimVerdict, Stored, WorkOK, relayVars
<1>19. ASSUME NEW c \in Person, JoinStore(c)
      PROVE  TypeInv'
    BY <1>19 DEF JoinStore, WorkOK, relayVars
<1>20. ASSUME NEW c \in Person, JoinStops(c)
      PROVE  TypeInv'
    BY <1>20 DEF JoinStops, WorkOK, relayVars
<1>21. CASE RelayAge
    BY <1>21 DEF RelayAge, Age, clientVars, WorkOK
<1>22. CASE RelayAlarm
    BY <1>22 DEF RelayAlarm, Alarm, clientVars, WorkOK
<1>23. CASE UNCHANGED invitationVars
    BY <1>23 DEF invitationVars, relayVars, clientVars, WorkOK
<1>24. QED
    BY <1>1, <1>2, <1>3, <1>4, <1>5, <1>6, <1>7, <1>8, <1>9, <1>10, <1>11, <1>12,
       <1>13, <1>14, <1>15, <1>16, <1>17, <1>18, <1>19, <1>20, <1>21, <1>22, <1>23 DEF Next, Progress

\* Every reachable state is well typed, and a call under way has in hand what
\* its place in the code says it has.
THEOREM InvitationTypes == Spec => []InvitationTypeOK
<1>1. TypeInv => InvitationTypeOK
    BY DEF TypeInv
<1>2. QED
    BY <1>1, TypeInvInit, TypeInvStep, PTL DEF Spec
-----------------------------------------------------------------------------
Inv == TypeInv /\ RowOK /\ NamesOK

\* Nobody who was given the blob is forgotten.
LEMMA RedeemedGrows ==
    ASSUME TypeInv, [Next]_invitationVars
    PROVE  redeemed \subseteq redeemed'
    BY DEF Next, Progress, CreateAsk, Create, CreateStore, RefreshStart, RefreshAnswer,
           RefreshRead, RefreshWrite, CancelStart, CancelAnswer, Cancel, CancelForget, Post,
           PollStart, PollRead, PollApply, PollDrop, GoOn,
           JobStops, PollKeeps, PollThrows, JoinClaim, Claim, JoinStore, JoinStops,
           RelayAge, Age, RelayAlarm, Alarm, relayVars, clientVars, invitationVars

\* The row is claimed once, and its claimer is the one who gets the blob.
LEMMA RowStep ==
    ASSUME Inv, [Next]_invitationVars
    PROVE  RowOK'
<1> USE PersonAssumption DEF Inv, TypeInv, InvitationTypeOK, RelayTypeOK, RowOK
<1>1. CASE UNCHANGED relayVars
    BY <1>1 DEF relayVars
<1>2. CASE Create
    BY <1>2 DEF Create, Unwritten
<1>3. ASSUME NEW c \in Person, Claim(c)
      PROVE  RowOK'
    BY <1>3 DEF Claim, ClaimVerdict, Stored, Unwritten, relayVars
<1>4. CASE Cancel
    BY <1>4 DEF Cancel, Deleted, Unwritten
<1>5. CASE Age \/ Alarm
    BY <1>5 DEF Age, Alarm, Deleted, Unwritten
<1>6. QED
    BY <1>1, <1>2, <1>3, <1>4, <1>5
       DEF Next, Progress, CreateAsk, CreateStore, RefreshStart, RefreshAnswer,
           RefreshRead, RefreshWrite, CancelStart, CancelAnswer, CancelForget, Post,
           PollStart, PollRead, PollApply, PollDrop, GoOn,
           JobStops, PollKeeps, PollThrows, JoinClaim, JoinStore, JoinStops,
           RelayAge, RelayAlarm, invitationVars, relayVars, clientVars

\* A claimer named where there was none is the one in the relay's row.
LEMMA NamesStep ==
    ASSUME Inv, [Next]_invitationVars
    PROVE  NamesOK'
<1> USE JobAssumption, PersonAssumption, RedeemedGrows
    DEF Inv, TypeInv, InvitationTypeOK, RelayTypeOK, NamesOK, Named, At, Go, Mine
<1>1. ASSUME NEW j \in Job, CreateAsk(j)
      PROVE  NamesOK'
    BY <1>1 DEF CreateAsk, relayVars, Call
<1>2. ASSUME NEW j \in Job, CreateStore(j)
      PROVE  NamesOK'
    BY <1>2 DEF CreateStore, Pending, NoGame, Idle, relayVars, Call
<1>3. ASSUME NEW j \in Job, RefreshStart(j)
      PROVE  NamesOK'
    BY <1>3 DEF RefreshStart, relayVars, Call
<1>4. ASSUME NEW j \in Job, RefreshAnswer(j)
      PROVE  NamesOK'
    BY <1>4 DEF RefreshAnswer, StatusVerdict, Stored, Idle, NoGame, relayVars, Call, RowOK
<1>5. ASSUME NEW j \in Job, RefreshRead(j)
      PROVE  NamesOK'
    BY <1>5 DEF RefreshRead, Idle, NoGame, relayVars, Call
<1>6. ASSUME NEW j \in Job, RefreshWrite(j)
      PROVE  NamesOK'
    BY <1>6 DEF RefreshWrite, Patched, Active, Idle, NoGame, relayVars, Call, WorkOK
<1>7. ASSUME NEW j \in Job, CancelStart(j)
      PROVE  NamesOK'
    BY <1>7 DEF CancelStart, relayVars, Call
<1>8. ASSUME NEW j \in Job, CancelAnswer(j)
      PROVE  NamesOK'
    BY <1>8 DEF CancelAnswer, Cancel, Idle, NoGame, relayVars, Call
<1>9. ASSUME NEW j \in Job, CancelForget(j)
      PROVE  NamesOK'
    BY <1>9 DEF CancelForget, NoGame, Idle, relayVars, Call
<1>10. ASSUME NEW j \in Job, PollStart(j)
      PROVE  NamesOK'
    BY <1>10 DEF PollStart, Idle, NoGame, relayVars, Call
<1>11. ASSUME NEW j \in Job, JobStops(j)
      PROVE  NamesOK'
    BY <1>11 DEF JobStops, Idle, NoGame, relayVars, Call
<1>12. ASSUME NEW j \in Job, Post(j)
      PROVE  NamesOK'
    <2>1. job[j].rec \in Notice /\ Named(job[j].rec)
        BY DEF Call
    <2>2. \A d \in Device : \A letter \in inbox'[d] : Named(letter.notice)
        BY <1>12, <2>1 DEF Post, Letter
    <2>3. QED
        BY <1>12, <2>2 DEF Post, Idle, NoGame, relayVars
<1>13. ASSUME NEW j \in Job, PollApply(j)
      PROVE  NamesOK'
    <2>1. \A letter \in Oldest(j) : Named(letter.notice)
        BY DEF Oldest
    <2>2. \A d \in Device : Named(game'[d])
        BY <1>13, <2>1 DEF PollApply, Applied, relayVars
    <2>3. QED
        BY <1>13, <2>2 DEF PollApply, NoGame, relayVars, Call
<1>14. ASSUME NEW j \in Job, PollRead(j)
      PROVE  NamesOK'
    BY <1>14 DEF PollRead, relayVars, Call
<1>15. ASSUME NEW j \in Job, PollDrop(j)
      PROVE  NamesOK'
    BY <1>15 DEF PollDrop, GoOn, Idle, NoGame, relayVars, Call
<1>16. ASSUME NEW j \in Job, PollKeeps(j)
      PROVE  NamesOK'
    BY <1>16 DEF PollKeeps, GoOn, Idle, NoGame, relayVars, Call
<1>17. ASSUME NEW j \in Job, PollThrows(j)
      PROVE  NamesOK'
    BY <1>17 DEF PollThrows, Oldest, Idle, NoGame, relayVars, Call
<1>18. ASSUME NEW c \in Person, JoinClaim(c)
      PROVE  NamesOK'
    BY <1>18 DEF JoinClaim, Claim, ClaimVerdict, Stored, relayVars
<1>19. ASSUME NEW c \in Person, JoinStore(c)
      PROVE  NamesOK'
    BY <1>19 DEF JoinStore, relayVars
<1>20. ASSUME NEW c \in Person, JoinStops(c)
      PROVE  NamesOK'
    BY <1>20 DEF JoinStops, relayVars
<1>21. CASE RelayAge
    BY <1>21 DEF RelayAge, Age, clientVars
<1>22. CASE RelayAlarm
    BY <1>22 DEF RelayAlarm, Alarm, clientVars
<1>23. CASE UNCHANGED invitationVars
    BY <1>23 DEF invitationVars, relayVars, clientVars
<1>24. QED
    BY <1>1, <1>2, <1>3, <1>4, <1>5, <1>6, <1>7, <1>8, <1>9, <1>10, <1>11, <1>12,
       <1>13, <1>14, <1>15, <1>16, <1>17, <1>18, <1>19, <1>20, <1>21, <1>22, <1>23 DEF Next, Progress

LEMMA InvInit == Init => Inv
<1> SUFFICES ASSUME Init PROVE RowOK /\ NamesOK
    BY TypeInvInit DEF Inv
<1>1. RowOK
    BY PersonAssumption DEF Init, RelayInit, RowOK, Unwritten
<1>2. NamesOK
    BY PersonAssumption DEF Init, RelayInit, NamesOK, Named, NoGame, Idle
<1>3. QED
    BY <1>1, <1>2

LEMMA InvStep == Inv /\ [Next]_invitationVars => Inv'
    BY TypeInvStep, RowStep, NamesStep DEF Inv

\* A game has one opponent: whoever was given the blob, alone, and it is that
\* person every device and every notice of the initiator names.
THEOREM OneOpponentAlways == Spec => []OneOpponent
<1>1. Inv => OneOpponent
    BY PersonAssumption, NoticeForm
       DEF Inv, TypeInv, InvitationTypeOK, RowOK, NamesOK, Named, OneOpponent, Letter
<1>2. QED
    BY <1>1, InvInit, InvStep, PTL DEF Spec
-----------------------------------------------------------------------------
\* Before there is an invite nothing happens,
NothingYet ==
    row = Unwritten =>
        /\ \A j \in Job : job[j].at = "idle"
        /\ \A d \in Device : game[d] = NoGame /\ inbox[d] = {}

\* and until it is gone nobody has given the game up, or is about to.
NobodyGivesUp ==
    row # Deleted =>
        /\ ~calledOff
        /\ \A d \in Device : game[d].status # "expired"
        /\ \A d \in Device : \A letter \in inbox[d] :
              letter.notice.status \in {"pending", "active"}
        /\ \A j \in Job : \A letter \in job[j].mail :
              letter.notice.status \in {"pending", "active"}
        /\ \A j \in Job :
              /\ job[j].at # "withdrawn"
              /\ job[j].at \in {"answered", "writing"} => job[j].answer # "not_found"
              /\ job[j].rec.status # "expired"
              /\ job[j].at = "posting" => job[j].rec.status # "none"

LEMMA NothingYetStep ==
    ASSUME TypeInv, NothingYet, [Next]_invitationVars
    PROVE  NothingYet'
<1> SUFFICES ASSUME row' = Unwritten
             PROVE  UNCHANGED <<job, game, inbox>> /\ row = Unwritten
    BY DEF NothingYet
<1> USE JobAssumption, PersonAssumption
<1>1. row = Unwritten
    BY DEF TypeInv, InvitationTypeOK, RelayTypeOK, Unwritten, Deleted,
           Next, Progress, CreateAsk, Create, CreateStore, RefreshStart, RefreshAnswer,
           RefreshRead, RefreshWrite, CancelStart, CancelAnswer, Cancel, CancelForget, Post,
           PollStart, PollRead, PollApply, PollDrop, GoOn,
           JobStops, PollKeeps, PollThrows, JoinClaim, Claim, JoinStore, JoinStops,
           RelayAge, Age, RelayAlarm, Alarm, relayVars, clientVars, invitationVars
<1>2. \A j \in Job : ~CreateAsk(j)
    BY DEF CreateAsk, Create, Unwritten
<1>3. \A j \in Job : ~Progress(j) /\ ~JobStops(j) /\ ~PollKeeps(j) /\ ~PollThrows(j)
    BY <1>1 DEF NothingYet, At, Progress, CreateStore, RefreshAnswer, RefreshRead, RefreshWrite,
                CancelAnswer, CancelForget, Post, PollRead, PollApply, PollDrop, JobStops,
                PollKeeps, PollThrows
<1>4. \A j \in Job : ~RefreshStart(j) /\ ~CancelStart(j) /\ ~PollStart(j)
    BY <1>1 DEF NothingYet, Mine, NoGame, RefreshStart, CancelStart, PollStart
<1>5. QED
    BY <1>1, <1>2, <1>3, <1>4
       DEF Next, JoinClaim, JoinStore, JoinStops, RelayAge, RelayAlarm,
           relayVars, clientVars, invitationVars

\* The relay answers "not found" only once the row is deleted, and then for good.
LEMMA NobodyGivesUpStep ==
    ASSUME TypeInv, NothingYet, NobodyGivesUp, [Next]_invitationVars
    PROVE  NobodyGivesUp'
<1> USE JobAssumption, PersonAssumption
    DEF TypeInv, InvitationTypeOK, RelayTypeOK, NothingYet, NobodyGivesUp, At, Go, Mine
<1>0. row = Deleted => row' = Deleted
    BY DEF Next, Progress, CreateAsk, Create, CreateStore, RefreshStart, RefreshAnswer,
           RefreshRead, RefreshWrite, CancelStart, CancelAnswer, Cancel, CancelVerdict,
           CancelForget, Post, PollStart, PollRead, PollApply, PollDrop, GoOn,
           JobStops, PollKeeps, PollThrows, JoinClaim, Claim,
           ClaimVerdict, JoinStore, JoinStops, RelayAge, Age, RelayAlarm, Alarm, Stored,
           Unwritten, Deleted, relayVars, clientVars, invitationVars
<1>1. ASSUME NEW j \in Job, CreateAsk(j)
      PROVE  NobodyGivesUp'
    BY <1>0, <1>1 DEF CreateAsk, Create, relayVars, Call
<1>2. ASSUME NEW j \in Job, CreateStore(j)
      PROVE  NobodyGivesUp'
    BY <1>0, <1>2 DEF CreateStore, Pending, NoGame, Idle, relayVars, Call
<1>3. ASSUME NEW j \in Job, RefreshStart(j)
      PROVE  NobodyGivesUp'
    BY <1>0, <1>3 DEF RefreshStart, relayVars, Call
<1>4. ASSUME NEW j \in Job, RefreshAnswer(j)
      PROVE  NobodyGivesUp'
    BY <1>0, <1>4 DEF RefreshAnswer, StatusVerdict, Stored, Idle, NoGame, relayVars, Call
<1>5. ASSUME NEW j \in Job, RefreshRead(j)
      PROVE  NobodyGivesUp'
    BY <1>0, <1>5 DEF RefreshRead, Idle, NoGame, relayVars, Call
<1>6. ASSUME NEW j \in Job, RefreshWrite(j)
      PROVE  NobodyGivesUp'
    BY <1>0, <1>6 DEF RefreshWrite, Patched, Active, Idle, NoGame, WorkOK, relayVars, Call
<1>7. ASSUME NEW j \in Job, CancelStart(j)
      PROVE  NobodyGivesUp'
    BY <1>0, <1>7, NoticeForm DEF CancelStart, relayVars, Call
<1>8. ASSUME NEW j \in Job, CancelAnswer(j)
      PROVE  NobodyGivesUp'
    BY <1>0, <1>8 DEF CancelAnswer, Cancel, CancelVerdict, Stored, Idle, NoGame, relayVars, Call
<1>9. ASSUME NEW j \in Job, CancelForget(j)
      PROVE  NobodyGivesUp'
    BY <1>0, <1>9 DEF CancelForget, NoGame, relayVars, Call
<1>10. ASSUME NEW j \in Job, PollStart(j)
      PROVE  NobodyGivesUp'
    BY <1>0, <1>10 DEF PollStart, Idle, NoGame, relayVars, Call
<1>11. ASSUME NEW j \in Job, JobStops(j)
      PROVE  NobodyGivesUp'
    BY <1>0, <1>11 DEF JobStops, Idle, NoGame, relayVars, Call
<1>12. ASSUME NEW j \in Job, Post(j)
      PROVE  NobodyGivesUp'
    <2>1. row # Deleted => job[j].rec.status \in {"pending", "active"}
        BY <1>12, NoticeForm DEF Post, Call
    <2>2. row # Deleted => \A d \in Device : \A letter \in inbox'[d] :
            letter.notice.status \in {"pending", "active"}
        BY <1>12, <2>1 DEF Post
    <2>3. QED
        BY <1>12, <2>2 DEF Post, Idle, NoGame, relayVars
<1>13. ASSUME NEW j \in Job, PollApply(j)
      PROVE  NobodyGivesUp'
    <2>1. row # Deleted => \A letter \in Oldest(j) : letter.notice.status \in {"pending", "active"}
        BY DEF Oldest
    <2>2. row # Deleted => \A d \in Device : game'[d].status # "expired"
        BY <1>13, <2>1 DEF PollApply, Applied, NoGame, relayVars
    <2>3. QED
        BY <1>13, <2>2 DEF PollApply, NoGame, relayVars, Call
<1>14. ASSUME NEW j \in Job, PollRead(j)
      PROVE  NobodyGivesUp'
    BY <1>0, <1>14 DEF PollRead, relayVars, Call
<1>15. ASSUME NEW j \in Job, PollDrop(j)
      PROVE  NobodyGivesUp'
    BY <1>0, <1>15 DEF PollDrop, GoOn, Idle, NoGame, relayVars, Call
<1>16. ASSUME NEW j \in Job, PollKeeps(j)
      PROVE  NobodyGivesUp'
    BY <1>0, <1>16 DEF PollKeeps, GoOn, Idle, NoGame, relayVars, Call
<1>17. ASSUME NEW j \in Job, PollThrows(j)
      PROVE  NobodyGivesUp'
    BY <1>0, <1>17 DEF PollThrows, Oldest, Idle, NoGame, relayVars, Call
<1>18. ASSUME NEW c \in Person, JoinClaim(c)
      PROVE  NobodyGivesUp'
    BY <1>0, <1>18 DEF JoinClaim, Claim, ClaimVerdict, Stored, relayVars
<1>19. ASSUME NEW c \in Person, JoinStore(c)
      PROVE  NobodyGivesUp'
    BY <1>0, <1>19 DEF JoinStore, relayVars
<1>20. ASSUME NEW c \in Person, JoinStops(c)
      PROVE  NobodyGivesUp'
    BY <1>0, <1>20 DEF JoinStops, relayVars
<1>21. CASE RelayAge
    BY <1>21 DEF RelayAge, Age, clientVars
<1>22. CASE RelayAlarm
    BY <1>22 DEF RelayAlarm, Alarm, clientVars
<1>23. CASE UNCHANGED invitationVars
    BY <1>23 DEF invitationVars, relayVars, clientVars
<1>24. QED
    BY <1>1, <1>2, <1>3, <1>4, <1>5, <1>6, <1>7, <1>8, <1>9, <1>10, <1>11, <1>12,
       <1>13, <1>14, <1>15, <1>16, <1>17, <1>18, <1>19, <1>20, <1>21, <1>22, <1>23 DEF Next, Progress

\* As long as the relay keeps the invite of a game that was joined, no device of
\* the initiator gives the game up.
THEOREM NoGameGivenUpAlways == Spec => []NoGameGivenUp
<1> DEFINE I == Inv /\ NothingYet /\ NobodyGivesUp
<1>1. Init => I
    <2> SUFFICES ASSUME Init PROVE NothingYet /\ NobodyGivesUp
        BY InvInit
    <2>1. QED
        BY DEF Init, RelayInit, NothingYet, NobodyGivesUp, NoGame, Idle
<1>2. I /\ [Next]_invitationVars => I'
    BY InvStep, NothingYetStep, NobodyGivesUpStep DEF Inv
<1>3. I => NoGameGivenUp
    BY DEF Inv, TypeInv, InvitationTypeOK, RelayTypeOK, RowOK, NobodyGivesUp, NoGameGivenUp,
           Lapsed, Unwritten, Deleted
<1>4. QED
    BY <1>1, <1>2, <1>3, PTL DEF Spec
=============================================================================
