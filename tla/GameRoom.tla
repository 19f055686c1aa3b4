------------------------------ MODULE GameRoom ------------------------------
(***************************************************************************)
(* One game's room at the relay: worker/src/game-room.ts.  The object keeps *)
(* the shared copy of the log, the tombstone that outlives it and the two   *)
(* schedules (a reminder of an unanswered turn, retention), and talks to    *)
(* the devices over WebSockets.                                             *)
(*                                                                          *)
(* A handler runs to its first await that really waits.  Only the push      *)
(* fetch does (input gates close over storage, and a digest resolves in the *)
(* same turn), so an append is two steps: commit, then reply and fan-out;   *)
(* whatever else happens may happen between them.  Turn claims, presence    *)
(* and push endpoints are modelled in TurnHold.                             *)
(***************************************************************************)
EXTENDS Chain, FiniteSets

CONSTANTS
    Participant,    \* SHA-256 of an identity key: all the room knows of a player
    Socket,         \* connection slots, reused once a connection is gone
    Oversized,      \* entries over MAX_ENTRY_BYTES
    Batch,          \* what a client may put into one append message
    NoOne,          \* no participant
    MaxQueue,       \* bound: messages on their way to one socket
    MaxPushes       \* bound: appends waiting for their push at once

ASSUME NoOneAssumption == NoOne \notin Participant
ASSUME BatchAssumption == \A b \in Batch : b \in Seq(Entry) /\ IsRun(b)

VARIABLES
    log,            \* table log: the entries, in sequence
    tombstone,      \* table tombstone: the evicted tip hash; genesis for no row
    lastAuthor,     \* meta lastAuthor
    reminderAt,     \* meta reminderAt is set
    retentionAt,    \* meta retentionAt is set
    alarm,          \* what the object's one alarm is set for
    nudging,        \* the alarm handler is waiting for its reminder's push
    keyHash,        \* attachment: who a socket said hello as; NoOne before
    open,           \* sockets getWebSockets() lists
    gone,           \* of those, the ones with no device behind them any more
    pushing,        \* appends committed and waiting for their push
    down            \* messages on their way to each socket, in order

logVars      == <<log, tombstone>>
scheduleVars == <<lastAuthor, reminderAt, retentionAt, alarm, nudging>>
socketVars   == <<keyHash, open, gone, down>>
roomVars     == <<logVars, scheduleVars, socketVars, pushing>>

ErrorCode == {"bad_message", "seq_gap", "chain_mismatch", "entry_too_large"}

Message ==
         [t : {"state"}, tipSeq : Int, tipHash : Hash, tombstone : Hash]
    \cup [t : {"entries"}, entries : Seq(Entry)]
    \cup [t : {"appended"}, tipSeq : Int]
    \cup [t : {"err"}, code : ErrorCode]

RoomTypeOK ==
    /\ log \in Seq(Entry)
    /\ tombstone \in Hash
    /\ lastAuthor \in Participant \cup {NoOne}
    /\ reminderAt \in BOOLEAN
    /\ retentionAt \in BOOLEAN
    /\ nudging \in BOOLEAN
    /\ alarm \in {"none", "reminder", "retention"}
    /\ keyHash \in [Socket -> Participant \cup {NoOne}]
    /\ open \in SUBSET Socket
    /\ gone \in SUBSET open
    /\ pushing \in SUBSET [sock : Socket, entries : Seq(Entry)]
    /\ down \in [Socket -> Seq(Message)]

\* Given its log: nobody is connected and nothing is under way.
RoomInit ==
    /\ tombstone = GenesisPrevHash
    /\ retentionAt = (log # <<>>)
    /\ alarm = IF retentionAt THEN "retention" ELSE "none"
    /\ reminderAt = FALSE
    /\ nudging = FALSE
    /\ keyHash = [s \in Socket |-> NoOne]
    /\ open = {}
    /\ gone = {}
    /\ pushing = {}
    /\ down = [s \in Socket |-> <<>>]
-----------------------------------------------------------------------------
(* Checking an append, entry by entry, against the rows already held.       *)

\* What the room would have as its tip when it comes to the batch's k-th entry.
Expected(b, k) ==
    IF k > 1 /\ SeqOf(b[k - 1]) >= Len(log)
    THEN [seq |-> SeqOf(b[k - 1]) + 1, prev |-> HashOf(b[k - 1])]
    ELSE [seq |-> Len(log), prev |-> TipHash(log)]

\* A slip: the next entry need not name the hash of what precedes it.
FitsUnchained(b, k) ==
    LET e == b[k]
    IN  /\ e \notin Oversized
        /\ \/ SeqOf(e) < Len(log) /\ log[SeqOf(e) + 1] = e
           \/ SeqOf(e) = Expected(b, k).seq

\* Re-sending an entry already held is fine if it is the same entry; any other
\* must be the next, and must name the hash of what precedes it.
Fits(b, k) ==
    LET e == b[k]
    IN  /\ e \notin Oversized
        /\ \/ SeqOf(e) < Len(log) /\ log[SeqOf(e) + 1] = e
           \/ SeqOf(e) = Expected(b, k).seq /\ PrevOf(e) = Expected(b, k).prev

Accepts(b) == \A k \in DOMAIN b : Fits(b, k)

\* The code returned for the first entry that does not fit.
Refusal(b) ==
    LET k == CHOOSE k \in DOMAIN b : ~Fits(b, k) /\ \A j \in 1 .. (k - 1) : Fits(b, j)
    IN  IF b[k] \in Oversized THEN "entry_too_large"
        ELSE IF SeqOf(b[k]) > Expected(b, k).seq THEN "seq_gap" ELSE "chain_mismatch"

\* The rows an accepted batch adds: what is left after the entries held already.
Staged(b) == Beyond(b, Len(log))
-----------------------------------------------------------------------------
(* Schedules.  reminderAt and retentionAt are written from the same now, a   *)
(* day and ninety days ahead, so whenever both are set the reminder is the   *)
(* earlier.                                                                  *)

\* rearm: the alarm is set for whichever comes first, or deleted.
Earliest(reminder, retention) ==
    IF reminder THEN "reminder" ELSE IF retention THEN "retention" ELSE "none"

\* A slip: an alarm that is set already is left as it is.
ScheduleUnlessSet(author) ==
    /\ lastAuthor' = author
    /\ reminderAt' = TRUE
    /\ retentionAt' = TRUE
    /\ alarm' = IF alarm = "none" THEN "reminder" ELSE alarm
    /\ UNCHANGED nudging

ScheduleTurnReminder(author) ==
    /\ lastAuthor' = author
    /\ reminderAt' = TRUE
    /\ retentionAt' = TRUE
    /\ alarm' = Earliest(TRUE, TRUE)
    /\ UNCHANGED nudging
-----------------------------------------------------------------------------
(* Handlers.                                                                 *)

\* A send on a connection whose device has gone reaches nobody.
Sent(s, m) == IF s \in gone THEN down ELSE [down EXCEPT ![s] = Append(@, m)]

\* fail
Fail(s, code) == down' = Sent(s, [t |-> "err", code |-> code])

StateMessage ==
    [t |-> "state", tipSeq |-> TipSeq(log), tipHash |-> TipHash(log),
     tombstone |-> tombstone]

\* fetch: the upgrade is accepted.  A slot is free once nothing remains of the
\* connection that used it.
Accept(s) ==
    /\ s \notin open
    /\ \A p \in pushing : p.sock # s
    /\ open' = open \cup {s}
    /\ keyHash' = [keyHash EXCEPT ![s] = NoOne]
    /\ down' = [down EXCEPT ![s] = <<>>]
    /\ UNCHANGED <<logVars, scheduleVars, gone, pushing>>

\* hello: the socket is bound to a participant and told where the log ends.
OnHello(s, who) ==
    /\ s \in open
    /\ keyHash' = [keyHash EXCEPT ![s] = who]
    /\ down' = Sent(s, StateMessage)
    /\ UNCHANGED <<logVars, scheduleVars, open, gone, pushing>>

\* append, from a socket that never said hello.
AppendUnbound(s, b) ==
    /\ s \in open
    /\ keyHash[s] = NoOne
    /\ Fail(s, "bad_message")
    /\ UNCHANGED <<logVars, scheduleVars, keyHash, open, gone, pushing>>

\* A slip: the sender is answered and nobody else hears of it.
FanoutToSender(s, b, m) == Sent(s, m)

\* The sender is answered with m, every other socket handed the batch.
Fanout(s, b, m) ==
    [r \in Socket |->
        IF r \notin open \/ r \in gone THEN down[r]
        ELSE Append(down[r], IF r = s THEN m ELSE [t |-> "entries", entries |-> b])]

\* A slip: a refused batch is handed on all the same.
AppendRefusedAnyway(s, b) ==
    /\ s \in open
    /\ keyHash[s] # NoOne
    /\ ~Accepts(b)
    /\ down' = Fanout(s, b, [t |-> "err", code |-> Refusal(b)])
    /\ UNCHANGED <<logVars, scheduleVars, keyHash, open, gone, pushing>>

\* append, refused: nothing of the batch lands.
AppendRefused(s, b) ==
    /\ s \in open
    /\ keyHash[s] # NoOne
    /\ ~Accepts(b)
    /\ Fail(s, Refusal(b))
    /\ UNCHANGED <<logVars, scheduleVars, keyHash, open, gone, pushing>>

Appended(tipSeq) == [t |-> "appended", tipSeq |-> tipSeq]

\* append, nothing new in it: answered, and fanned out, in the same turn.
AppendKnown(s, b) ==
    /\ s \in open
    /\ keyHash[s] # NoOne
    /\ Accepts(b)
    /\ Staged(b) = <<>>
    /\ down' = Fanout(s, b, Appended(TipSeq(log)))
    /\ UNCHANGED <<logVars, scheduleVars, keyHash, open, gone, pushing>>

\* append, committed: the rows are in, and the opponent is being notified.
AppendCommit(s, b) ==
    /\ s \in open
    /\ keyHash[s] # NoOne
    /\ Accepts(b)
    /\ Staged(b) # <<>>
    /\ log' = log \o Staged(b)
    /\ ScheduleTurnReminder(keyHash[s])
    /\ pushing' = pushing \cup {[sock |-> s, entries |-> b]}
    /\ UNCHANGED <<tombstone, socketVars>>

OnAppend(s, b) ==
    \/ AppendUnbound(s, b)
    \/ AppendRefused(s, b)
    \/ AppendKnown(s, b)
    \/ AppendCommit(s, b)

\* The push is over: the sender learns the tip as it is now, and every other
\* socket gets the batch.
FinishAppend(p) ==
    /\ p \in pushing
    /\ p.sock \in open
    /\ pushing' = pushing \ {p}
    /\ down' = Fanout(p.sock, p.entries, Appended(TipSeq(log)))
    /\ UNCHANGED <<logVars, scheduleVars, keyHash, open, gone>>

\* The push is over and the sender has gone: sending to its socket throws, and
\* the rest of the handler, the fan-out included, never runs.
AbortAppend(p) ==
    /\ p \in pushing
    /\ p.sock \notin open
    /\ pushing' = pushing \ {p}
    /\ UNCHANGED <<logVars, scheduleVars, socketVars>>

\* req: the rows from a sequence on.
OnReq(s, fromSeq) ==
    /\ s \in open
    /\ down' = Sent(s, [t |-> "entries",
                        entries |-> SubSeq(log, fromSeq + 1, Len(log))])
    /\ UNCHANGED <<logVars, scheduleVars, keyHash, open, gone, pushing>>

\* A slip: the reader goes on being listed.
CloseStaysListed(s) ==
    /\ s \in open
    /\ open' = open \ {s}
    /\ down' = [down EXCEPT ![s] = <<>>]
    /\ UNCHANGED <<logVars, scheduleVars, keyHash, gone, pushing>>

\* webSocketClose, webSocketError
Close(s) ==
    /\ s \in open
    /\ open' = open \ {s}
    /\ gone' = gone \ {s}
    /\ down' = [down EXCEPT ![s] = <<>>]
    /\ UNCHANGED <<logVars, scheduleVars, keyHash, pushing>>
-----------------------------------------------------------------------------
(* The alarm.                                                                *)

\* A slip: the log goes and no tombstone is written.
EvictUnmarked ==
    /\ alarm # "none"
    /\ ~nudging
    /\ retentionAt
    /\ log' = <<>>
    /\ reminderAt' = FALSE
    /\ retentionAt' = FALSE
    /\ alarm' = "none"
    /\ UNCHANGED <<tombstone, lastAuthor, nudging, socketVars, pushing>>

\* alarm, retention due: the ciphertext goes, a tombstone of its tip stays.
\* (A late alarm finds retention due even if it was set for the reminder.)
Evict ==
    /\ alarm # "none"
    /\ ~nudging
    /\ retentionAt
    /\ tombstone' = IF log = <<>> THEN tombstone ELSE TipHash(log)
    /\ log' = <<>>
    /\ reminderAt' = FALSE
    /\ retentionAt' = FALSE
    /\ alarm' = "none"
    /\ UNCHANGED <<lastAuthor, nudging, socketVars, pushing>>

\* alarm, reminder due: consumed before it is sent, so it is sent once.
Remind ==
    /\ alarm = "reminder"
    /\ ~nudging
    /\ reminderAt' = FALSE
    /\ alarm' = "none"
    /\ nudging' = TRUE
    /\ UNCHANGED <<logVars, lastAuthor, retentionAt, socketVars, pushing>>

\* A slip: after the reminder nothing is armed again.
FinishRemindUnarmed ==
    /\ nudging
    /\ nudging' = FALSE
    /\ UNCHANGED <<logVars, lastAuthor, reminderAt, retentionAt, alarm, socketVars, pushing>>

\* The reminder's push is over: the alarm is set again for what remains.
FinishRemind ==
    /\ nudging
    /\ nudging' = FALSE
    /\ alarm' = Earliest(reminderAt, retentionAt)
    /\ UNCHANGED <<logVars, lastAuthor, reminderAt, retentionAt, socketVars, pushing>>
-----------------------------------------------------------------------------
(* The room under any clients: every order of the messages they may send.   *)

\* The device behind a socket takes the next message.
Delivered(s) ==
    /\ down[s] # <<>>
    /\ down' = [down EXCEPT ![s] = Tail(@)]
    /\ UNCHANGED <<logVars, scheduleVars, keyHash, open, gone, pushing>>

\* The device behind a socket goes away; the room does not know yet.
Vanish(s) ==
    /\ s \in open \ gone
    /\ gone' = gone \cup {s}
    /\ down' = [down EXCEPT ![s] = <<>>]
    /\ UNCHANGED <<logVars, scheduleVars, keyHash, open, pushing>>

Roomy == \A s \in Socket : Len(down[s]) < MaxQueue

RoomStart ==
    /\ log = <<>>
    /\ lastAuthor = NoOne
    /\ RoomInit

RoomNext ==
    \/ \E s \in Socket : Accept(s) \/ Vanish(s) \/ Close(s) \/ Delivered(s)
    \/ Roomy /\ \E s \in Socket :
        \/ \E who \in Participant : OnHello(s, who)
        \/ Cardinality(pushing) < MaxPushes /\ \E b \in Batch : OnAppend(s, b)
        \/ \E n \in 0 .. Len(log) : OnReq(s, n)
    \/ \E p \in pushing : (Roomy /\ FinishAppend(p)) \/ AbortAppend(p)
    \/ Evict
    \/ Remind
    \/ FinishRemind

RoomSpec == RoomStart /\ [][RoomNext]_roomVars
-----------------------------------------------------------------------------
(* What the room promises.                                                  *)

\* The stored log is always a chain from genesis with no gap, whatever the
\* order in which racing devices' batches are committed and rooms evicted.
LogLinked == Linked(log)

\* A stored entry is never replaced and never dropped one by one: the log is
\* only extended, or evicted whole leaving its own tip as the tombstone.
HistoryKept ==
    [][ \/ log' # <<>> /\ IsPrefixOf(TipHash(log), TipHash(log'))
        \/ log' = <<>> /\ tombstone' = TipHash(log)
      ]_log

\* No room is forgotten: a stored log always has its retention date, and an
\* alarm that will reach it (or a handler that is about to set one).
NoRoomForgotten == log # <<>> => retentionAt /\ (alarm # "none" \/ nudging)

\* The alarm is the earlier of the two dates: no reminder is slept through.
AlarmIsEarliest == ~nudging => alarm = Earliest(reminderAt, retentionAt)
=============================================================================
