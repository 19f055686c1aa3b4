------------------------------ MODULE Invitation ------------------------------
(***************************************************************************)
(* From an invite to a game: app/src/lib/games.ts on the devices of the     *)
(* person who made the invite and of those who open its link, the notices   *)
(* the initiator's devices leave each other (app/src/lib/devices.ts), and   *)
(* the invite at the relay (PendingInvite).                                 *)
(*                                                                          *)
(* A call of games.ts awaits the network and the database; whatever else    *)
(* the device does runs in between.  A job is one such call under way, and  *)
(* each of its steps runs from one await to the next.  A page that closes,  *)
(* or a request that fails, ends a job wherever it is.                      *)
(***************************************************************************)
EXTENDS PendingInvite

CONSTANTS
    Device,         \* the initiator's devices
    First,          \* the device the invite is made on
    Job,            \* calls that may be under way at once
    JobOf,          \* [Job -> Device]: where a call runs
    Compatible,     \* people whose build has the game's rules
    MaxStops,       \* bound: jobs that end early
    MaxCancels      \* bound: times somebody tries to call the invite off

ASSUME JobAssumption == JobOf \in [Job -> Device]

VARIABLES
    game,           \* [Device -> record]: the games store
    job,            \* [Job -> call]: what is under way
    inbox,          \* [Device -> SUBSET letter]: the device's own mailbox
    posted,         \* [Device -> Nat]: letters left in it so far
    theirs,         \* [Person -> status]: the game on the claimer's device
    opening,        \* [Person -> stage]: joinGame under way
    shared,         \* the link has been handed out
    calledOff,      \* some device has called the invite off and forgotten the game
    stops, cancels

clientVars == <<game, job, inbox, posted, theirs, opening, shared, calledOff, stops, cancels>>
invitationVars == <<relayVars, clientVars>>

\* GameRecord, as far as an invite goes: its status, and the claimer once known.
\* A record has a cancelToken until it has a claimer, and lastActivity is the
\* time of its making until then, the time its claimer was learned from then on.
NoGame  == [status |-> "none", claimer |-> Nobody]
Pending == [status |-> "pending", claimer |-> Nobody]
Expired == [status |-> "expired", claimer |-> Nobody]
Active(who) == [status |-> "active", claimer |-> who]

Outlived(who) == [status |-> "expired", claimer |-> who]

Record == {Pending, Expired} \cup {Active(c) : c \in Person} \cup {Outlived(c) : c \in Person}

\* A notice says that a game is known, as its sender holds it, or (NoGame) gone.
Notice == Record \cup {NoGame}

Stage == {"idle", "creating", "asking", "answered", "writing", "withdrawing",
          "withdrawn", "posting", "received", "applying", "dropping"}

Answer == Person \cup {Nobody, "ok", "not_found", "already_claimed"}

\* The ids of a mailbox's letters, never used again, are in the order they came in.
Letter == [id : Nat, notice : Notice]

Call == [at : Stage, answer : Answer, rec : Notice, mail : SUBSET Letter]

Idle == [at |-> "idle", answer |-> Nobody, rec |-> NoGame, mail |-> {}]

InvitationTypeOK ==
    /\ RelayTypeOK
    /\ game \in [Device -> Notice]
    /\ job \in [Job -> Call]
    /\ inbox \in [Device -> SUBSET Letter]
    /\ posted \in [Device -> Nat]
    /\ theirs \in [Person -> {"none", "active", "incompatible"}]
    /\ opening \in [Person -> {"idle", "granted"}]
    /\ shared \in BOOLEAN
    /\ calledOff \in BOOLEAN

Init ==
    /\ RelayInit
    /\ game = [d \in Device |-> NoGame]
    /\ job = [j \in Job |-> Idle]
    /\ inbox = [d \in Device |-> {}]
    /\ posted = [d \in Device |-> 0]
    /\ theirs = [c \in Person |-> "none"]
    /\ opening = [c \in Person |-> "idle"]
    /\ shared = FALSE
    /\ calledOff = FALSE
    /\ stops = 0
    /\ cancels = 0

Mine(j) == game[JobOf[j]]
At(j, stage) == job[j].at = stage
Go(j, stage) == job' = [job EXCEPT ![j].at = stage]
-----------------------------------------------------------------------------
(* createGame                                                                *)

\* The relay stores the blob and names it.
CreateAsk(j) ==
    /\ JobOf[j] = First
    /\ At(j, "idle")
    /\ Create
    /\ Go(j, "creating")
    /\ UNCHANGED <<game, inbox, posted, theirs, opening, shared, calledOff, stops, cancels>>

\* The game is stored, the link there to share, and the other devices are told.
CreateStore(j) ==
    /\ At(j, "creating")
    /\ game' = [game EXCEPT ![JobOf[j]] = Pending]
    /\ job' = [job EXCEPT ![j] = [Idle EXCEPT !.at = "posting", !.rec = Pending]]
    /\ shared' = TRUE
    /\ UNCHANGED <<relayVars, inbox, posted, theirs, opening, calledOff, stops, cancels>>
-----------------------------------------------------------------------------
(* refreshPendingGame                                                        *)

RefreshStart(j) ==
    /\ At(j, "idle")
    /\ Mine(j).status = "pending"
    /\ Go(j, "asking")
    /\ UNCHANGED <<relayVars, game, inbox, posted, theirs, opening, shared, calledOff, stops, cancels>>

\* A slip: it goes unnoticed that nobody has claimed the invite yet.
RefreshAnswerUnclaimed(j) ==
    /\ At(j, "asking")
    /\ job' = [job EXCEPT ![j] = [Idle EXCEPT !.at = "answered", !.answer = StatusVerdict]]
    /\ UNCHANGED <<relayVars, game, inbox, posted, theirs, opening, shared, calledOff, stops, cancels>>

\* A slip: an invite the relay does not have is waited for.
RefreshAnswerWaits(j) ==
    /\ At(j, "asking")
    /\ job' = [job EXCEPT ![j] =
                 IF StatusVerdict \notin Person THEN Idle
                 ELSE [Idle EXCEPT !.at = "answered", !.answer = StatusVerdict]]
    /\ UNCHANGED <<relayVars, game, inbox, posted, theirs, opening, shared, calledOff, stops, cancels>>

\* The relay answers; of an invite nobody has claimed there is nothing to say.
RefreshAnswer(j) ==
    /\ At(j, "asking")
    /\ job' = [job EXCEPT ![j] =
                 IF StatusVerdict = Nobody THEN Idle
                 ELSE [Idle EXCEPT !.at = "answered", !.answer = StatusVerdict]]
    /\ UNCHANGED <<relayVars, game, inbox, posted, theirs, opening, shared, calledOff, stops, cancels>>

\* updateGame reads the record to patch; there may be none any more.
RefreshRead(j) ==
    /\ At(j, "answered")
    /\ job' = [job EXCEPT ![j] = IF Mine(j) = NoGame THEN Idle
                                 ELSE [@ EXCEPT !.at = "writing", !.rec = Mine(j)]]
    /\ UNCHANGED <<relayVars, game, inbox, posted, theirs, opening, shared, calledOff, stops, cancels>>

\* What a refresh makes of the record updateGame read.
Patched(j) ==
    IF job[j].answer = "not_found" THEN [job[j].rec EXCEPT !.status = "expired"]
    ELSE Active(job[j].answer)

\* updateGame writes it back; only a claim is announced.
RefreshWrite(j) ==
    /\ At(j, "writing")
    /\ game' = [game EXCEPT ![JobOf[j]] = Patched(j)]
    /\ job' = [job EXCEPT ![j] = IF job[j].answer = "not_found" THEN Idle
                                 ELSE [@ EXCEPT !.at = "posting", !.rec = Patched(j)]]
    /\ UNCHANGED <<relayVars, inbox, posted, theirs, opening, shared, calledOff, stops, cancels>>
-----------------------------------------------------------------------------
(* cancelPendingGame                                                         *)

\* Not of a game that has started; without a token the relay is not asked.
CancelStart(j) ==
    /\ cancels < MaxCancels
    /\ At(j, "idle")
    /\ Mine(j).status \in {"pending", "expired"}
    /\ Go(j, IF Mine(j).claimer = Nobody THEN "withdrawing" ELSE "withdrawn")
    /\ cancels' = cancels + 1
    /\ UNCHANGED <<relayVars, game, inbox, posted, theirs, opening, shared, calledOff, stops>>

\* A slip: that somebody has claimed it does not end the call.
CancelAnswerAnyway(j) ==
    /\ At(j, "withdrawing")
    /\ Cancel
    /\ Go(j, "withdrawn")
    /\ UNCHANGED <<game, inbox, posted, theirs, opening, shared, calledOff, stops, cancels>>

\* The relay withdraws the invite, or refuses: that somebody has claimed it ends
\* the call; that it has none is as good as withdrawn.
CancelAnswer(j) ==
    /\ At(j, "withdrawing")
    /\ Cancel
    /\ job' = [job EXCEPT ![j] = IF CancelVerdict = "already_claimed" THEN Idle
                                 ELSE [@ EXCEPT !.at = "withdrawn"]]
    /\ UNCHANGED <<game, inbox, posted, theirs, opening, shared, calledOff, stops, cancels>>

\* deleteGame; the other devices are told that it has gone.
CancelForget(j) ==
    /\ At(j, "withdrawn")
    /\ game' = [game EXCEPT ![JobOf[j]] = NoGame]
    /\ calledOff' = TRUE
    /\ job' = [job EXCEPT ![j] = [Idle EXCEPT !.at = "posting"]]
    /\ UNCHANGED <<relayVars, inbox, posted, theirs, opening, shared, stops, cancels>>
-----------------------------------------------------------------------------
(* announce, pollDevices                                                     *)

\* A copy for each other device; one that cannot be left is not left again.
Post(j) ==
    /\ At(j, "posting")
    /\ \E reached \in SUBSET (Device \ {JobOf[j]}) :
        /\ inbox' = [d \in Device |->
                       IF d \in reached
                       THEN inbox[d] \cup {[id |-> posted[d], notice |-> job[j].rec]}
                       ELSE inbox[d]]
        /\ posted' = [d \in Device |-> IF d \in reached THEN posted[d] + 1 ELSE posted[d]]
    /\ job' = [job EXCEPT ![j] = Idle]
    /\ UNCHANGED <<relayVars, game, theirs, opening, shared, calledOff, stops, cancels>>

\* pollMailboxes: all that waits, which another page's poll may have in hand as well.
PollStart(j) ==
    /\ At(j, "idle")
    /\ inbox[JobOf[j]] # {}
    /\ job' = [job EXCEPT ![j] = [Idle EXCEPT !.at = "received", !.mail = inbox[JobOf[j]]]]
    /\ UNCHANGED <<relayVars, game, inbox, posted, theirs, opening, shared, calledOff, stops, cancels>>

\* apply, up to what it reads.
PollRead(j) ==
    /\ At(j, "received")
    /\ job' = [job EXCEPT ![j].at = "applying", ![j].rec = Mine(j)]
    /\ UNCHANGED <<relayVars, game, inbox, posted, theirs, opening, shared, calledOff, stops, cancels>>

\* The letters in hand that come first: the poll is at the oldest.
Oldest(j) == {letter \in job[j].mail : \A other \in job[j].mail : letter.id <= other.id}

\* applyGame, and apply of a game that has gone: what may be stored.  Of two
\* records the more recent wins, which of two with a claimer is chance; of two as
\* old as the invite, the one that arrives.
Applied(existing, notice) ==
    IF notice = NoGame \/ existing.claimer = Nobody THEN {notice}
    ELSE IF notice.claimer = Nobody THEN {existing}
    ELSE {existing, notice}

\* apply's write.
PollApply(j) ==
    /\ At(j, "applying")
    /\ \E letter \in Oldest(j) : \E rec \in Applied(job[j].rec, letter.notice) :
        game' = [game EXCEPT ![JobOf[j]] = rec]
    /\ job' = [job EXCEPT ![j].at = "dropping", ![j].rec = NoGame]
    /\ UNCHANGED <<relayVars, inbox, posted, theirs, opening, shared, calledOff, stops, cancels>>

\* The loop goes on with the letters left, if there are any.
GoOn(j, left) ==
    job' = [job EXCEPT ![j] = IF left = {} THEN Idle
                              ELSE [Idle EXCEPT !.at = "received", !.mail = left]]

\* deleteMailboxMessage, which may find that the letter has gone already.
PollDrop(j) ==
    /\ At(j, "dropping")
    /\ inbox' = [inbox EXCEPT ![JobOf[j]] = @ \ Oldest(j)]
    /\ GoOn(j, job[j].mail \ Oldest(j))
    /\ UNCHANGED <<relayVars, game, posted, theirs, opening, shared, calledOff, stops, cancels>>
-----------------------------------------------------------------------------
(* joinGame                                                                  *)

\* The claim comes before the blob can be read, so it is spent whatever is in it;
\* and before it nothing is read that could go stale.
JoinClaim(c) ==
    /\ shared
    /\ opening[c] = "idle"
    /\ Claim(c)
    /\ opening' = [opening EXCEPT ![c] = IF ClaimVerdict(c) = "ok" THEN "granted" ELSE "idle"]
    /\ UNCHANGED <<game, job, inbox, posted, theirs, shared, calledOff, stops, cancels>>

JoinStore(c) ==
    /\ opening[c] = "granted"
    /\ opening' = [opening EXCEPT ![c] = "idle"]
    /\ theirs' = [theirs EXCEPT ![c] = IF c \in Compatible THEN "active" ELSE "incompatible"]
    /\ UNCHANGED <<relayVars, game, job, inbox, posted, shared, calledOff, stops, cancels>>
-----------------------------------------------------------------------------
(* Pages close and requests fail.                                            *)

JobStops(j) ==
    /\ stops < MaxStops
    /\ ~At(j, "idle")
    /\ job' = [job EXCEPT ![j] = Idle]
    /\ stops' = stops + 1
    /\ UNCHANGED <<relayVars, game, inbox, posted, theirs, opening, shared, calledOff, cancels>>

\* The relay cannot be told to drop the letter: nobody minds, and it is read again.
PollKeeps(j) ==
    /\ stops < MaxStops
    /\ At(j, "dropping")
    /\ GoOn(j, job[j].mail \ Oldest(j))
    /\ stops' = stops + 1
    /\ UNCHANGED <<relayVars, game, inbox, posted, theirs, opening, shared, calledOff, cancels>>

\* A letter that cannot be applied is dropped all the same, and ends the poll.
PollThrows(j) ==
    /\ stops < MaxStops
    /\ At(j, "received") \/ At(j, "applying")
    /\ job' = [job EXCEPT ![j] = [Idle EXCEPT !.at = "dropping", !.mail = Oldest(j)]]
    /\ stops' = stops + 1
    /\ UNCHANGED <<relayVars, game, inbox, posted, theirs, opening, shared, calledOff, cancels>>

JoinStops(c) ==
    /\ stops < MaxStops
    /\ opening[c] # "idle"
    /\ opening' = [opening EXCEPT ![c] = "idle"]
    /\ stops' = stops + 1
    /\ UNCHANGED <<relayVars, game, job, inbox, posted, theirs, shared, calledOff, cancels>>

\* The relay's clock, and its alarm.
RelayAge   == Age /\ ~late /\ UNCHANGED clientVars
RelayAlarm == Alarm /\ UNCHANGED clientVars
-----------------------------------------------------------------------------
Progress(j) ==
    \/ CreateStore(j)
    \/ RefreshAnswer(j) \/ RefreshRead(j) \/ RefreshWrite(j)
    \/ CancelAnswer(j) \/ CancelForget(j)
    \/ Post(j)
    \/ PollRead(j) \/ PollApply(j) \/ PollDrop(j)

Next ==
    \/ \E j \in Job :
        \/ CreateAsk(j) \/ RefreshStart(j) \/ CancelStart(j) \/ PollStart(j)
        \/ Progress(j)
        \/ JobStops(j) \/ PollKeeps(j) \/ PollThrows(j)
    \/ \E c \in Person : JoinClaim(c) \/ JoinStore(c) \/ JoinStops(c)
    \/ RelayAge
    \/ RelayAlarm

Spec == Init /\ [][Next]_invitationVars

\* A call under way goes on, and the home page and the board of a pending game
\* keep asking the relay about it.  Nobody has to cancel, poll or open the link.
Fairness == \A j \in Job : WF_invitationVars(Progress(j) \/ RefreshStart(j))

FairSpec == Spec /\ Fairness
-----------------------------------------------------------------------------
\* A game has one opponent: whoever was given the blob, alone, and it is that
\* person every device of the initiator plays against, and every notice names.
OneOpponent ==
    /\ \A c1, c2 \in redeemed : c1 = c2
    /\ \A c \in Person : theirs[c] # "none" => c \in redeemed
    /\ \A d \in Device : game[d].status = "active" => game[d].claimer \in redeemed
    /\ \A d \in Device : \A letter \in inbox[d] :
        letter.notice.status = "active" => letter.notice.claimer \in redeemed

\* As long as the relay keeps the invite of a game that was joined, no device of
\* the initiator gives the game up: not as expired, and not by calling it off.
NoGameGivenUp ==
    redeemed # {} =>
        \/ Lapsed
        \/ ~calledOff /\ \A d \in Device : game[d].status # "expired"

\* Nobody waits for ever: once the invite has been claimed, called off or has
\* run out, in the end no device shows it as pending, whichever of them learned
\* of it first and however late an old notice arrives.
Settles ==
    row \notin {Unwritten, Nobody}
        ~> [](\A d \in Device : game[d].status # "pending")
=============================================================================
