-------------------------------- MODULE Sync --------------------------------
(***************************************************************************)
(* Devices playing one game through its room: the sync engine of each       *)
(* (app/src/lib/sync/engine.ts) and what its game session does to the log   *)
(* (app/src/lib/game-session.ts), composed with GameRoom.                   *)
(*                                                                          *)
(* A device handles one message at a time, to the end: every handler of the *)
(* engine is synchronous.  Messages between a device and the room keep      *)
(* their order; a connection that drops loses what the device had not yet   *)
(* received, and any tail of what it had sent.                              *)
(***************************************************************************)
EXTENDS GameRoom, Session

CONSTANTS
    Device,             \* installations with the game open
    PlayerOf,           \* [Device -> Role]; a participant's key stands for the role
    DeviceOf,           \* [Socket -> Device]: whose connection a slot carries
    NoSocket,           \* no connection
    MAX_APPEND_ENTRIES, \* entries in one append message
    Plans,              \* bound: who opens the board, plays and resigns, as in plan
    MaxHangups,         \* bound: connections lost or left while busy
    MaxEvictions        \* bound: times the room is evicted

ASSUME DeviceAssumption ==
    /\ PlayerOf \in [Device -> Role] /\ Role \subseteq Participant
    /\ \A s \in Socket : DeviceOf[s] \in Device
    /\ NoSocket \notin Socket
    /\ MAX_APPEND_ENTRIES \in Nat \ {0}

\* A game begins as both players' sessions can replay it.
ASSUME PlanAssumption == \A p \in Plans : p.start \in Seq(Body) /\ Replays(p.start)

VARIABLES
    dlog,           \* Log: a device's copy of the entries
    relayTipSeq,    \* SyncEngine.relayTipSeq
    status,         \* SyncEngine.statusValue
    sock,           \* SyncEngine.socket
    rolledBack,     \* onRolledBack is under way
    playing,        \* [Device -> Seq(Nat)]: plays that wait for the plugin's worker,
                    \* each with the sequence its move is for
    up,             \* messages on their way from each socket to the room
    signed,         \* entries a device has signed so far
    hangups,
    evictions,
    plan            \* [start : the history all begin with, opens : who connects,
                    \*  resigns : who may resign, writes : entries each may sign,
                    \*  hasty : whose board takes a move while it plays another,
                    \*  stays : whose board stays open once it is]

engineVars == <<dlog, relayTipSeq, status, rolledBack, playing, signed>>
syncVars   == <<roomVars, engineVars, sock, up, hangups, evictions, plan>>

Status == {"idle", "offline", "syncing", "synced", "diverged", "refused"}

ClientMessage ==
         [t : {"hello"}, keyHash : Participant]
    \cup [t : {"append"}, entries : Seq(Entry)]
    \cup [t : {"req"}, fromSeq : Nat]

SyncTypeOK ==
    /\ dlog \in [Device -> Seq(Entry)]
    /\ relayTipSeq \in [Device -> Int]
    /\ status \in [Device -> Status]
    /\ sock \in [Device -> Socket \cup {NoSocket}]
    /\ rolledBack \in [Device -> BOOLEAN]
    /\ playing \in [Device -> Seq(Nat)]
    /\ up \in [Socket -> Seq(ClientMessage)]
    /\ signed \in [Device -> Nat]
    /\ \A d \in Device : sock[d] # NoSocket => sock[d] \in open \ gone

Init ==
    /\ plan \in Plans
    /\ log = LogOf(plan.start)
    /\ lastAuthor = NoOne
    /\ RoomInit
    /\ dlog = [d \in Device |-> LogOf(plan.start)]
    /\ relayTipSeq = [d \in Device |-> -1]
    /\ status = [d \in Device |-> "idle"]
    /\ sock = [d \in Device |-> NoSocket]
    /\ rolledBack = [d \in Device |-> FALSE]
    /\ playing = [d \in Device |-> <<>>]
    /\ up = [s \in Socket |-> <<>>]
    /\ signed = [d \in Device |-> 0]
    /\ hangups = 0
    /\ evictions = 0
-----------------------------------------------------------------------------
(* One device's engine, and the messages it sends while it handles one.      *)

Engine(d) ==
    [log |-> dlog[d], relayTip |-> relayTipSeq[d], status |-> status[d],
     signed |-> signed[d], connected |-> sock[d] # NoSocket, out |-> <<>>]

\* The engine as a handler leaves it; what it sent goes out on its socket.
Become(d, e) ==
    /\ dlog' = [dlog EXCEPT ![d] = e.log]
    /\ relayTipSeq' = [relayTipSeq EXCEPT ![d] = e.relayTip]
    /\ status' = [status EXCEPT ![d] = e.status]
    /\ signed' = [signed EXCEPT ![d] = e.signed]
    /\ up' = IF e.connected THEN [up EXCEPT ![sock[d]] = @ \o e.out] ELSE up

\* send: nothing is sent without a socket.
Send(e, m) == IF e.connected THEN [e EXCEPT !.out = Append(@, m)] ELSE e

\* flush: up to MAX_APPEND_ENTRIES entries from the first unconfirmed one.
Unconfirmed(e) ==
    SubSeq(e.log, e.relayTip + 2,
           IF Len(e.log) < e.relayTip + 1 + MAX_APPEND_ENTRIES
           THEN Len(e.log) ELSE e.relayTip + 1 + MAX_APPEND_ENTRIES)

Flush(e) ==
    IF Unconfirmed(e) = <<>> THEN e
    ELSE Send(e, [t |-> "append", entries |-> Unconfirmed(e)])

\* settle
Settle(e) ==
    [e EXCEPT !.status = IF TipSeq(e.log) <= e.relayTip THEN "synced" ELSE "syncing"]

\* The relay is known to hold everything up to a sequence.
Confirm(e, seq) == [e EXCEPT !.relayTip = IF seq > @ THEN seq ELSE @]

\* appendLocal: sign, chain and send what was sealed for a sequence.
AppendLocal(d, e, kind, seq) ==
    LET body == [dev |-> d, n |-> e.signed, by |-> PlayerOf[d], kind |-> kind, at |-> seq]
    IN  Flush([e EXCEPT !.log = Append(@, Signed(e.log, body)), !.signed = @ + 1])

\* writePrologueEntry: the claimer's join, or the initiator's answer to it.
WritePrologueEntry(d, e) ==
    IF e.log = <<>> /\ PlayerOf[d] = "claimer" THEN AppendLocal(d, e, "join", 0)
    ELSE IF Len(e.log) = 1 /\ PlayerOf[d] = "initiator" THEN AppendLocal(d, e, "setup", 1)
    ELSE e
-----------------------------------------------------------------------------
(* Connecting and hanging up.                                                *)

\* connect, by a resync: a new engine on the same log says hello.  Opening the
\* board (opening) writes the prologue entry at once, before any answer.
Connect(d, s, opening) ==
    /\ d \in plan.opens
    /\ sock[d] = NoSocket
    /\ DeviceOf[s] = d
    /\ Accept(s)
    /\ sock' = [sock EXCEPT ![d] = s]
    /\ LET new == [Engine(d) EXCEPT !.relayTip = -1, !.status = "syncing",
                                    !.connected = TRUE,
                                    !.out = <<[t |-> "hello", keyHash |-> PlayerOf[d]]>>]
           e == IF opening THEN WritePrologueEntry(d, new) ELSE new
       IN  /\ dlog' = [dlog EXCEPT ![d] = e.log]
           /\ relayTipSeq' = [relayTipSeq EXCEPT ![d] = e.relayTip]
           /\ status' = [status EXCEPT ![d] = e.status]
           /\ signed' = [signed EXCEPT ![d] = e.signed]
           /\ up' = [up EXCEPT ![s] = e.out]
    /\ UNCHANGED <<rolledBack, playing, hangups, evictions, plan>>

\* A slip: the engine keeps the socket that closed.
DropKeepsSocket(d) ==
    /\ hangups < MaxHangups
    /\ sock[d] # NoSocket
    /\ Vanish(sock[d])
    /\ status' = [status EXCEPT ![d] = "offline"]
    /\ hangups' = hangups + 1
    /\ UNCHANGED <<dlog, relayTipSeq, rolledBack, playing, signed, sock, up, evictions, plan>>

\* The close event: the connection dropped; the room does not know yet.
Drop(d) ==
    /\ hangups < MaxHangups
    /\ sock[d] # NoSocket
    /\ Vanish(sock[d])
    /\ sock' = [sock EXCEPT ![d] = NoSocket]
    /\ status' = [status EXCEPT
                    ![d] = IF @ \in {"diverged", "refused"} THEN @ ELSE "offline"]
    /\ hangups' = hangups + 1
    /\ UNCHANGED <<dlog, relayTipSeq, rolledBack, playing, signed, up, evictions, plan>>

Quiet(d) ==
    /\ sock[d] # NoSocket
    /\ down[sock[d]] = <<>>
    /\ up[sock[d]] = <<>>
    /\ \A p \in pushing : p.sock # sock[d]

\* disconnect, the first half of a resync.  Nothing is on its way, so the room
\* may as well hear of it at once; a player who leaves earlier is a Drop.
Disconnect(d) ==
    /\ d \notin plan.stays
    /\ Quiet(d)
    /\ Close(sock[d])
    /\ sock' = [sock EXCEPT ![d] = NoSocket]
    /\ status' = [status EXCEPT ![d] = "idle"]
    /\ UNCHANGED <<dlog, relayTipSeq, rolledBack, playing, signed, up, hangups, evictions, plan>>
-----------------------------------------------------------------------------
(* Playing.                                                                  *)

\* The rules count moves and know of no resignation: it is still the turn of whose
\* it was.
ToMove(h) == ExpectedAuthor(IF ResignedBefore(h, Len(h)) THEN Len(h) - 1 ELSE Len(h))

\* A slip: whose turn it is goes unchecked.
PlayOutOfTurn(d) ==
    /\ signed[d] + Len(playing[d]) < plan.writes[d]
    /\ playing[d] = <<>> \/ d \in plan.hasty
    /\ Len(dlog[d]) >= 2
    /\ Replays(TipHash(dlog[d]))
    /\ playing' = [playing EXCEPT ![d] = Append(@, Len(dlog[d]))]
    /\ UNCHANGED <<roomVars, dlog, relayTipSeq, status, rolledBack, signed,
                   sock, up, hangups, evictions, plan>>

\* play, until it waits for the worker: it replays the log, takes the sequence the
\* move will have, and asks the rules.  That a player has resigned does not stop
\* it, nor does a play under way, unless the board has a flag of its own for that.
Play(d) ==
    /\ signed[d] + Len(playing[d]) < plan.writes[d]
    /\ playing[d] = <<>> \/ d \in plan.hasty
    /\ Len(dlog[d]) >= 2
    /\ Replays(TipHash(dlog[d]))
    /\ ToMove(TipHash(dlog[d])) = PlayerOf[d]
    /\ playing' = [playing EXCEPT ![d] = Append(@, Len(dlog[d]))]
    /\ UNCHANGED <<roomVars, dlog, relayTipSeq, status, rolledBack, signed,
                   sock, up, hangups, evictions, plan>>

\* A slip: the sequence is taken only when the move is sealed.
MoveSealedLate(d) ==
    /\ playing[d] # <<>>
    /\ Become(d, AppendLocal(d, Engine(d), "move", Len(dlog[d])))
    /\ playing' = [playing EXCEPT ![d] = Tail(@)]
    /\ UNCHANGED <<roomVars, sock, rolledBack, hangups, evictions, plan>>

\* play, once the rules have answered: whatever the log has become, the move is
\* sealed for the sequence taken and signed at its end.
Move(d) ==
    /\ playing[d] # <<>>
    /\ Become(d, AppendLocal(d, Engine(d), "move", Head(playing[d])))
    /\ playing' = [playing EXCEPT ![d] = Tail(@)]
    /\ UNCHANGED <<roomVars, sock, rolledBack, hangups, evictions, plan>>

\* resign: at any time, whoever's turn it is, and whoever has resigned already.
Resign(d) ==
    /\ d \in plan.resigns
    /\ Len(dlog[d]) >= 2
    /\ signed[d] + Len(playing[d]) < plan.writes[d]
    /\ Become(d, AppendLocal(d, Engine(d), "resign", Len(dlog[d])))
    /\ UNCHANGED <<roomVars, sock, rolledBack, playing, hangups, evictions, plan>>
-----------------------------------------------------------------------------
(* Receiving.                                                                *)

Waiting(d, t) ==
    /\ sock[d] # NoSocket
    /\ down[sock[d]] # <<>>
    /\ Head(down[sock[d]]).t = t

Incoming(d) == Head(down[sock[d]])

\* The device takes the message at the head of its queue and becomes e.
Take(d, e) ==
    /\ Become(d, e)
    /\ Delivered(sock[d])
    /\ UNCHANGED <<sock, playing, hangups, evictions, plan>>

\* A slip: a log is only refused if it is the longer one.
RefusesLongerOnly(d, m) ==
    /\ m.tipSeq < 0
    /\ m.tombstone # GenesisPrevHash
    /\ Len(dlog[d]) > Len(m.tombstone)
    /\ ~CheckExtends(dlog[d], m.tombstone)

\* onState, the relay holds nothing and ours does not restore what it evicted.
\* An empty log is not checked against the tombstone.
RefusesTombstone(d, m) ==
    /\ m.tipSeq < 0
    /\ m.tombstone # GenesisPrevHash
    /\ dlog[d] # <<>>
    /\ ~CheckExtends(dlog[d], m.tombstone)

Told(d) == [Engine(d) EXCEPT !.relayTip = Incoming(d).tipSeq]

OnStateRefused(d) ==
    /\ Waiting(d, "state")
    /\ RefusesTombstone(d, Incoming(d))
    /\ Take(d, [Told(d) EXCEPT !.status = "refused"])
    /\ UNCHANGED rolledBack

\* A slip: what we have is taken for sent.
OnStateAheadUnsent(d) ==
    /\ Waiting(d, "state")
    /\ Incoming(d).tipSeq < TipSeq(dlog[d])
    /\ ~RefusesTombstone(d, Incoming(d))
    /\ Take(d, Settle([Engine(d) EXCEPT !.relayTip = TipSeq(dlog[d])]))
    /\ UNCHANGED rolledBack

\* onState, the relay is behind (or holds nothing): send what it is missing.
OnStateAhead(d) ==
    /\ Waiting(d, "state")
    /\ Incoming(d).tipSeq < 0 \/ Incoming(d).tipSeq < TipSeq(dlog[d])
    /\ ~RefusesTombstone(d, Incoming(d))
    /\ Take(d, Settle(Flush(Told(d))))
    /\ UNCHANGED rolledBack

\* A slip: the missing entries are waited for, and never asked for.
OnStateBehindWaits(d) ==
    /\ Waiting(d, "state")
    /\ Incoming(d).tipSeq > TipSeq(dlog[d])
    /\ Take(d, Told(d))
    /\ UNCHANGED rolledBack

\* onState, the relay is ahead: ask for the rest.
OnStateBehind(d) ==
    /\ Waiting(d, "state")
    /\ Incoming(d).tipSeq > TipSeq(dlog[d])
    /\ Take(d, Send(Told(d), [t |-> "req", fromSeq |-> Len(dlog[d])]))
    /\ UNCHANGED rolledBack

\* onState, the same length: the tips agree, or the two histories differ.
OnStateLevel(d) ==
    /\ Waiting(d, "state")
    /\ Incoming(d).tipSeq >= 0
    /\ Incoming(d).tipSeq = TipSeq(dlog[d])
    /\ Take(d, IF Incoming(d).tipHash = TipHash(dlog[d]) THEN Settle(Told(d))
               ELSE [Told(d) EXCEPT !.status = "diverged"])
    /\ UNCHANGED rolledBack

\* Log::append, entry by entry: how many of them the log takes.
Taken(l, b) ==
    CHOOSE k \in 0 .. Len(b) :
        /\ \A j \in 1 .. k : Continues(l \o SubSeq(b, 1, j - 1), b[j])
        /\ k < Len(b) => ~Continues(l \o SubSeq(b, 1, k), b[k + 1])

\* onEntries, one entry does not verify: what came before it stays.
OnEntriesRefused(d) ==
    /\ Waiting(d, "entries")
    /\ LET b == Beyond(Incoming(d).entries, Len(dlog[d]))
           k == Taken(dlog[d], b)
       IN  /\ k < Len(b)
           /\ Take(d, [Engine(d) EXCEPT !.log = @ \o SubSeq(b, 1, k),
                                        !.status = "refused"])
    /\ UNCHANGED rolledBack

\* onEntries: those we have are skipped unread, the rest appended; then the
\* prologue may be ours to go on with, and the relay may lack something.
OnEntries(d) ==
    /\ Waiting(d, "entries")
    /\ LET b == Beyond(Incoming(d).entries, Len(dlog[d]))
           got == [Engine(d) EXCEPT !.log = @ \o b]
           known == Confirm(got, TipSeq(got.log))
       IN  /\ Taken(dlog[d], b) = Len(b)
           /\ Take(d, Settle(Flush(IF b = <<>> THEN known
                                   ELSE WritePrologueEntry(d, known))))
    /\ UNCHANGED rolledBack

\* onAppended; without a tip the message does not parse, and is dropped.
OnAppended(d) ==
    /\ Waiting(d, "appended")
    /\ Take(d, IF Incoming(d).tipSeq < 0 THEN Engine(d)
               ELSE Settle(Flush(Confirm(Engine(d), Incoming(d).tipSeq))))
    /\ UNCHANGED rolledBack

\* onError, and a refusal it is not: our unconfirmed entries lost a race.
LostRace(d) ==
    Incoming(d).code = "chain_mismatch" /\ TipSeq(dlog[d]) > relayTipSeq[d]

\* A slip: the last confirmed entry goes as well.
RollBackOneTooMany(d) ==
    /\ Waiting(d, "err")
    /\ LostRace(d)
    /\ Take(d, Send([Engine(d) EXCEPT !.log = SubSeq(@, 1, relayTipSeq[d]),
                                      !.status = "syncing"],
                    [t |-> "req", fromSeq |-> relayTipSeq[d]]))
    /\ rolledBack' = [rolledBack EXCEPT ![d] = TRUE]

\* rollBack: they go, and the relay is asked what happened instead.
RollBack(d) ==
    /\ Waiting(d, "err")
    /\ LostRace(d)
    /\ Take(d, Send([Engine(d) EXCEPT !.log = SubSeq(@, 1, relayTipSeq[d] + 1),
                                      !.status = "syncing"],
                    [t |-> "req", fromSeq |-> relayTipSeq[d] + 1]))
    /\ rolledBack' = [rolledBack EXCEPT ![d] = TRUE]

\* onRolledBack, once storage has been rolled back as well: persistAndNotify.
AfterRollBack(d) ==
    /\ rolledBack[d]
    /\ Become(d, WritePrologueEntry(d, Engine(d)))
    /\ rolledBack' = [rolledBack EXCEPT ![d] = FALSE]
    /\ UNCHANGED <<roomVars, sock, playing, hangups, evictions, plan>>

OnError(d) ==
    /\ Waiting(d, "err")
    /\ ~LostRace(d)
    /\ Take(d, [Engine(d) EXCEPT !.status = "refused"])
    /\ UNCHANGED rolledBack

Receive(d) ==
    \/ OnStateRefused(d) \/ OnStateAhead(d) \/ OnStateBehind(d) \/ OnStateLevel(d)
    \/ OnEntriesRefused(d) \/ OnEntries(d)
    \/ OnAppended(d)
    \/ RollBack(d) \/ OnError(d)
-----------------------------------------------------------------------------
(* The room's side: GameRoom's handlers, fed from the devices.               *)

\* webSocketMessage
RoomReceive(s) ==
    /\ up[s] # <<>>
    /\ LET m == Head(up[s])
       IN  \/ m.t = "hello" /\ OnHello(s, m.keyHash)
           \/ m.t = "append" /\ OnAppend(s, m.entries)
           \/ m.t = "req" /\ OnReq(s, m.fromSeq)
    /\ up' = [up EXCEPT ![s] = Tail(@)]
    /\ UNCHANGED <<engineVars, sock, hangups, evictions, plan>>

\* The room learns that a device has gone; what it had not received is lost.
RoomClose(s) ==
    /\ s \in gone
    /\ Close(s)
    /\ up' = [up EXCEPT ![s] = <<>>]
    /\ UNCHANGED <<engineVars, sock, hangups, evictions, plan>>

\* The end of an append's push.
RoomFinish ==
    /\ \E p \in pushing : FinishAppend(p) \/ AbortAppend(p)
    /\ UNCHANGED <<engineVars, sock, up, hangups, evictions, plan>>

\* Retention is due ninety days after the last append: by then nothing is on
\* its way any more, though boards may still be connected.
RoomEvict ==
    /\ evictions < MaxEvictions
    /\ \A s \in Socket : up[s] = <<>> /\ down[s] = <<>>
    /\ pushing = {}
    /\ Evict
    /\ evictions' = evictions + 1
    /\ UNCHANGED <<engineVars, sock, up, hangups, plan>>
-----------------------------------------------------------------------------
Connecting(d) ==
    \E s \in Socket, opening \in BOOLEAN : Connect(d, s, opening)

Next ==
    \/ \E d \in Device :
        \/ Connecting(d) \/ Drop(d) \/ Disconnect(d)
        \/ Play(d) \/ Move(d) \/ Resign(d)
        \/ Receive(d) \/ AfterRollBack(d)
    \/ \E s \in Socket : RoomReceive(s) \/ RoomClose(s)
    \/ RoomFinish
    \/ RoomEvict

Spec == Init /\ [][Next]_syncVars

\* A page that is open connects, handles its messages and, when its player
\* comes back to it, resyncs; the room handles what reaches it, sees closed
\* connections and ends its pushes.  Nobody has to play, or to open the board.
\* (Of a device's three steps one at most is possible at a time, and a socket
\* stops carrying messages once closed, so each group needs one WF only.)
DeviceWorks(d) ==
    (\E s \in Socket : Connect(d, s, FALSE)) \/ Receive(d) \/ Disconnect(d)

RoomWorks(s) == RoomReceive(s) \/ RoomClose(s)

Fairness ==
    /\ \A d \in Device : WF_syncVars(DeviceWorks(d)) /\ WF_syncVars(AfterRollBack(d))
    /\ \A s \in Socket : WF_syncVars(RoomWorks(s))
    /\ WF_syncVars(RoomFinish)

FairSpec == Spec /\ Fairness
-----------------------------------------------------------------------------
\* The room stores this history, or its tombstone vouches for it.
Held(h) == IsPrefixOf(h, TipHash(log)) \/ IsPrefixOf(h, tombstone)

\* No two copies of the game ever fork: whoever is behind only has to catch up.
NoFork ==
    LET copies == {TipHash(dlog[d]) : d \in Device} \cup {TipHash(log), tombstone}
    IN  \A h, g \in copies : Comparable(h, g)

\* When a device shows itself in sync and nothing is under way on its connection,
\* the room holds all it has.
SyncedIsHeld ==
    \A d \in Device :
        Quiet(d) /\ status[d] = "synced" => Held(TipHash(dlog[d]))

\* Every payload of a history stands where it was sealed for.
InPlace(h) == \A i \in DOMAIN h : h[i].at = i - 1

\* Where players have one device each, make one move at a time and do not resign,
\* no device ever holds a log its session refuses to replay (game-session.ts play:
\* "an illegal move never reaches the log").
LogsReplay == \A d \in Device : Linked(dlog[d]) /\ Replays(TipHash(dlog[d]))

\* Where they have several and are hasty, but do not resign, it is a play that was
\* overtaken which spoils a log, and nothing else: what went before the first move
\* sealed for another place replays, prologue, turns and all.
OnlyOvertaken ==
    plan.resigns = {} =>
        \A d \in Device :
            /\ Linked(dlog[d])
            /\ \A i \in DOMAIN dlog[d] : InPlace(dlog[d][i]) => Replays(dlog[d][i])

\* A resignation ends a game (crypto.rs nothing_may_follow_a_resignation).
NothingFollowsAResignation ==
    \A d \in Device : \A i \in DOMAIN dlog[d] : ~ResignedBefore(dlog[d][i], i - 1)

\* A device shows another's entry only once the room holds it: no player ever
\* sees a move that goes back to its maker's rack.
SeenIsHeld ==
    \A d \in Device : \A i \in DOMAIN dlog[d] :
        dlog[d][i][i].dev # d => Held(dlog[d][i])

\* An evicted room is only ever restored from a log that goes on from what was
\* evicted: nobody rolls the game back.
RestoreExtendsTombstone ==
    log # <<>> => IsPrefixOf(tombstone, TipHash(log))

\* With nothing under way anywhere, boards that show themselves in sync agree.
LiveBoardsAgree ==
    pushing = {} =>
        \A d \in Device : Quiet(d) /\ status[d] = "synced" => dlog[d] = log

\* As long as no connection has broken, that is so.
StayersAgree == hangups = 0 => LiveBoardsAgree

\* The relay has accepted an append of the device's and not told it so yet: the
\* confirmation waits for a push, or behind another message.
Unheard(d) ==
    \/ \E p \in pushing : p.sock = sock[d]
    \/ sock[d] # NoSocket /\ \E i \in DOMAIN down[sock[d]] :
                                 down[sock[d]][i].t = "appended"

\* A device never takes back an entry the relay holds, unless what it wrote next
\* was refused before what it wrote first was confirmed (engine.ts rollBack:
\* "Takes back entries the relay never accepted").
HeldIsKept ==
    [][\A d \in Device :
        Len(dlog'[d]) < Len(dlog[d]) /\ ~Unheard(d) =>
            ~Held(TipHash(SubSeq(dlog[d], 1, Len(dlog'[d]) + 1)))]_dlog

\* Entries that lost the race against a device's own sibling are taken back.
DraftsGiveWay ==
    \A d \in Device :
        ~Comparable(TipHash(dlog[d]), TipHash(log))
            ~> Comparable(TipHash(dlog[d]), TipHash(log))

\* The game as the players know it: the longer of what the room holds and what
\* its tombstone says it held.
GameHistory ==
    IF Len(TipHash(log)) >= Len(tombstone) THEN TipHash(log) ELSE tombstone

Game == INSTANCE History WITH history <- GameHistory

\* The devices and the room together keep one game record, as History says.
OneHistory == Game!HistorySpec

\* In the end, every copy becomes the room's, and stays that.
Converges == <>[](\A d \in Device : dlog[d] = log)
=============================================================================
