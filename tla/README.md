# Formal models of tabla

tabla lets two people play a turn-based game through a relay that can neither
read nor alter it. The game is a signed, hash-chained log; each device keeps a
copy and the relay a shared one. This directory holds TLA+ models of the parts
in which that goes wrong if it goes wrong at all, TLC configurations that check
them on small instances, and theorems about them that TLAPS proves for every
value of the constants. `PROJECT.json` lists the components, the runs, the
mutants (a plausible slip per property, which the run must catch), the source
lines behind each definition, the hazards and the theorems.

## 1. Inventory

| component | state | operations | hard part |
|---|---|---|---|
| Game log (`tabla-core/log.rs`, `framing.ts`) | entries, each naming the hash of the one before | append, verify a chain or a suffix, tombstones | what one party accepts every other must |
| Session (`tabla-core/session.rs`) | none: a key and two roles | seal, open, replay | who may write when; resignations are out of turn |
| Game room (`worker/game-room.ts`, a durable object per game) | log, tombstone, last author, two dates and one alarm, sockets, push endpoints, turn claims | hello, append, req, presence, hold, push, close, alarm | handlers interleave at the push fetch; eviction after 90 days; only the relay's copy decides a race |
| Sync engine (`app/lib/sync/engine.ts`) | the device's log, what the relay is believed to hold, status, socket | connect, appendLocal, receive (state, entries, appended, err, presence, hold) | re-sending, losing a race, catching up, restoring an evicted room |
| Game session (`app/lib/game-session.ts`) | engine, plugin, stored entries, drafts, turn claim | open, connect, resync, play, resign, roll back, hold | `play` awaits a worker between reading the log and writing it; storage trails the log |
| Entry store (`app/lib/db`) | games, entries, deals, metadata | put, update, delete | get-then-put across awaits, several pages |
| Invitations (`worker/pending-invite.ts`, `app/lib/games.ts`) | the invite's row and alarm; the game record on each device | create, claim, cancel, status, expire; join, refresh | a claim races a cancellation, the expiry and another claim |
| Notices and mailboxes (`worker/mailbox.ts`, `app/lib/devices.ts`, `mailbox.ts`) | messages with an expiry and a cap | post, poll, delete; apply a notice | loss, overtaking, merging two records |
| Device linking (`worker/device-link.ts`, `app/lib/link.ts`) | one sealed bundle under a short code | post, collect, cancel, expire | single use against a mistyped code |
| Push (`worker/push.ts`, `app/lib/push.ts`) | subscriptions | subscribe, notify | which device is told what |
| The deal (`tabla-deal`) | keys, shuffled deck, shares, openings; a snapshot of them | build and apply a payload (key, shuffle, deal, reveal), save, load | a payload is checked part by part against one running transcript, and taken whole or not at all; prover and verifier must hash the same things in the same order |
| Letras, the course of a game (`tabla-letras` v1, v2, v3) | a game state folded from the log; in version 1 a different one on each device | apply a move, challenge, end, audit | what a challenge takes back; what happens when the bag runs out; two devices that know different things must agree on what is public |
| Letras, board and words (`board.rs`) | the tiles on the board | legality, words formed, score | edges, cross words, what a line that nobody played spells |
| Dictionary (`tabla-dawg`) | a word graph; its file | insert sorted words, fold equal suffixes, write, look up | a fold that is too eager merges words, one that is too lazy outgrows the child field |
| Tic tac toe | a board of nine | apply a move, end | – |
| Plugin host (`app/lib/plugin`) | a worker, requests under way, installed plugins | call, restart on a timeout, install | a late answer of a worker that was replaced |
| Backup (`app/lib/backup.ts`) | none | export, import | merging with what is there |
| Identity and primitives, routing, pages | – | – | not modelled, see section 7 |

How they interact. A page opens a game session, which loads the log from the
store, starts the plugin and makes a sync engine. The engine says `hello` over a
WebSocket; the room answers `state` (its tip, and its tombstone if it was
evicted); the engine uploads what the room lacks or asks for what it lacks
itself. A local move is appended to the device's log, sent, stored, and handed
by the room to every other socket. If the room refuses it as the loser of a
race, the engine takes it back and the session rolls its storage back. Invites,
links and mailboxes are durable objects of their own, reached by plain requests;
the devices of one person tell each other through mailboxes only they can read.

What makes each component correct, and where the hazards lie, is in the
`hazards` of `PROJECT.json`, at the line where each bites.

## 2. Modules

| module | models | composed of |
|---|---|---|
| `Chain` | entries, hashes, appending and verifying | – |
| `Session` | who may write which entry, when a log replays | extends `Chain` |
| `GameRoom` | the room's log, tombstone, schedules and sockets | extends `Chain` |
| `Sync` | the engines and sessions of several devices with their room | extends `GameRoom`, `Session` |
| `History` | abstract specification of a game: one replayable record that only grows | extends `Session` |
| `PendingInvite` | an invite at the relay | – |
| `Invitation` | the initiator's devices, their notices and the claimers, with the invite | extends `PendingInvite` |
| `Tiles` | the players and the positions of a deck | – |
| `Deal` | dealing from a deck neither player can read | extends `Tiles` |
| `Letras` | the course of a game, versions 2 and 3 of the rules | extends `Tiles` |
| `Table` | a game as the app plays it: moves of `Letras` that carry payloads of `Deal` | extends `Deal`, `Letras` |
| `Group` | the toy group, hashes and transcript, commitments, encryption, the two small proofs | – |
| `ShuffleArgument` | prover and verifier of the shuffle and of the three arguments under it | extends `Group` |
| `SealedDeal` | two devices that build, check, apply, save and load real payloads | extends `ShuffleArgument`; implements `Deal` |
| `DrawStream` | version 1: draws from a seed and a nonce, promises, masks, the audit | – |
| `LetrasOne` | version 1 of the rules, replayed by two devices with their own seeds | extends `DrawStream` |
| `Board` | premium squares, legal placements, the words they make, the score | – |
| `Dictionary` | building, minimising, writing and reading the word graph | – |
| `Words` | a word list compiled and played with, by referee or by challenge | extends `Board`, with `Dictionary` |
| `MC*` | instances for TLC (`Table` needs none: its constants are numbers) | |
| `GameRoomProofs`, `InvitationProofs`, `TableProofs` | theorems | extend the module they are about |
| `SyncProofs` | theorems about the devices and their room together; what any one step does to logs and messages | extends `Sync`, `GameRoomProofs` |
| `OneLineProofs` | one device each: no fork, nothing taken back, one history | extends `SyncProofs` |
| `LetrasOneProofs` | theorems about version 1: the audit, what its verdict says, and how long the two devices agree | extends `LetrasOne` |
| `SyncedProofs` | one device each: what a device shows as in sync is held by the room, and is all the room has | extends `OneLineProofs` |
| `WordsProofs` | theorems about the board: it hangs together, plays are judged by their lines, and no line escapes | extends `Words` |

**Data.** An entry is modelled as the history it ends (the sequence of payloads
from the first to its own): its length gives the sequence number, it is its own
hash, and the history without its last payload is the hash it names as its
predecessor. This is exactly what a collision-free hash gives the code, and a
fork, a gap, a stale batch or a tombstone of another history remain what they
are. Payloads are opaque to the room; to a session they carry a writer, a kind
and the sequence they were sealed for, at which alone they open. A payload sealed
twice is two payloads (the nonce is random).

**Steps of the room.** A durable object runs a handler until an await that
really waits. Storage is behind input gates and a digest resolves within the
turn, so the only such await in the room is the `fetch` of a push. An append is
therefore `AppendCommit` (checks, rows, dates, alarm) and, after the push,
`FinishAppend` (reply and fan-out) or `AbortAppend` (the sender's socket has
closed: the reply throws, and the fan-out is lost). The alarm's reminder is
split in the same way (`Remind`, `FinishRemind`). Every other handler is one
action, with its refusals.

**Steps of a device.** The engine handles a message synchronously, so each
handler is one action; `AfterRollBack` is the session's asynchronous end of a
rollback. `Connect` covers opening the board and coming back to it, with what
the session does right after (writing a prologue entry the log seems to wait
for). A move is two steps, because `play` waits in between: `Play` replays the
log, takes the sequence the move will have and asks the rules; `Move` seals it for
that sequence and signs it at the end of whatever the log is by then. `play` does
not ask whether anyone has resigned, and nothing in it stops a second call while
the first one waits; the board of words has a flag of its own for that, that of
tic tac toe has none (`hasty`). `Resign` waits for nothing and checks nothing: it
is one step, possible at any time, whoever has resigned. Messages keep their order on a connection; `Drop`
loses what the device has not received and any tail of what it had sent, and
the room learns of it later, in `RoomClose`.

**Steps of an invitation.** A call of `games.ts` is a job whose steps run from
one await to the next, so that refreshes, cancellations and polls of one device
interleave, and `updateGame`'s read and write are apart. A job may stop at any
step (the page closes, or a request fails). A poll fetches the whole mailbox and
takes the letters in order; for each it reads the game, writes it, and asks the
mailbox to drop the letter, which are three steps. Two pages may poll one mailbox
at a time. A letter that could not be dropped (the code ignores that) is read
again by the next poll; where applying one fails, the rest of the mailbox is left
to it as well.

**A game at the table.** The rules and the deal are two state machines that
never speak: the rules count positions and believe what a move says of the tiles
in them, the deal checks proofs and knows nothing of turns. `Deal.payload` and
`wrap` in the app put an entry together from both. In `Table` an entry is one
action: `Entry` applies the move to the rules' state and the payload, built from
what the rules said *before* the move, to the deal. The log alternates, so one
state of each stands for both devices; that a device applies what the log says
in time, once, and in order, is a matter of the session and left to
`PlaySession`. A tile is readable by whoever has both players' shares of its
position, so the deal is a record of published shares and the tiles themselves
never appear; what each proof is good for is taken for granted here and shown in
`SealedDeal`. Of a play the rules keep
the positions it spends and, for the challenge of version 2, whether its words
are real; board, letters and points decide nothing here. `move_index` is kept as
the step of the opening and the player to move, which is all the rules ask of
it, so that the states of a game are finitely many. The moves the client makes
by itself are `Key`, `Shuffle`, `DealRack`, `Yield`, `Forfeit`, `OpenRack`; who
is to open the game is left open in `Shuffle`.

**The deal with its cryptography.** `Deal` says what a payload does; `SealedDeal`
says how. A point of the curve is its logarithm modulo a prime `Q`, so that
adding points is adding numbers; nothing in the model uses the logarithm of a
point it did not make, and that discrete logarithms are hard, or that a hash is
random, is not claimed. What is kept is all the algebra: every commitment,
re-randomisation, weighted sum and equation of the shuffle, multi-exponentiation,
product and bilinear arguments and of the two Schnorr proofs, and the order in
which they are written into the transcript. A transcript item and a challenge
are cubed, which for this `Q` (3 does not divide `Q - 1`) loses nothing; the
generators, tile points and scalars from entropy are arithmetic stand-ins for
hashes to the curve. `Applied` folds a payload's parts over a copy of the state
and one transcript, `Built` makes the parts in the same order. `Abstract` keeps
of a device's state what `Deal` has: who has keys and shuffles, what was dealt
to whom, whose shares are out. Besides what the app asks for, a device is handed
the mistakes the repository's own tests make up: a deck with one tile twice
(committed to, or published under an honest commitment; the product computed or
claimed), a share or key other than the one proven, a payload made for another
entry. An equation over numbers modulo `Q` can hold by chance once in `Q`, as it
can in the real group once in 2^252; `Q` and the generators are such that it
never does in the runs.

**Version 1.** There is no shared deck: each device draws from a stream of its
own, SHA-256 of its seed, the nonce of the opponent's entry and an index, so the
two devices replay one log into *two* states, and `view` has both. A hash is
ideal and written out: a commitment is the committed value, a nonce is the
numbers its hashes will give. `Swap` is a device whose rack is not what it drew,
which is what the audit at the end exists for. A play is its tiles, by kind, and
whether its words are real; its score is what the tiles count.

**Board and words.** Squares are numbered in reading order and a line is walked
by adding to the number, so the ends of a row are where a slip would show.
Premiums are an octant and its eight reflections, as in the code. The word graph
is a list of nodes with edges (building), and of units with a letter, two flags
and a child of limited width (the file). `Words` is their composition: a list is
compiled word by word, published, and a game is played with it.

## 3. Runs

| run | question | instance |
|---|---|---|
| `room` | Does the stored log stay one chain that nobody rewrites, and does an alarm always reach it? | two sockets, any batch of consecutive entries over two payloads up to depth 2 (forks, gaps, re-sent rows, an oversized entry), one append waiting at a time, one message under way per socket |
| `drops` | Do copies ever fork, does every log replay, and is what a settled board shows as delivered really there? | one device per player, a move each (the answer needs the first), two interchangeable connection slots each, one lost connection, appends of two entries |
| `siblings` | Is anyone shown a move that is taken back, or made to take back one that counts? What can spoil a log? | five plans: two interchangeable devices of one player answer one turn and the opponent watches; two players write the prologue from an empty log; both may resign or move once, whoever has resigned; one player resigns or moves, twice in all, before the other answers; a board takes a second tap while the first move waits |
| `recovery` | Is the game one record that only grows, and does everybody end up with it? | one lost connection and one eviction in any order with the initiator's move, under fairness |
| `invitation` | Does a game have one opponent, is it given up wrongly, does anyone wait for ever? | two devices (two calls or polls at once on the first), two people with the link, one cancellation, one failure (a call cut short, a letter not dropped or not applied), under fairness |
| `table` | Does what the rules ask for agree with what the deal accepts, to the last tile? Does a game end? | a deck of 6, racks of 2, three turns without a play end the game, versions 2 and 3 |
| `sealed` | Does the deal with all its proofs keep what `Deal` promises, take every honest payload and no faulty one? | a bag of three tiles, two of them alike, `Q` = 46337, up to seven entries with three entropies |
| `draws` | Do two devices that know different tiles agree, and does the audit name who cheated and nobody else? | version 1 with two kinds of tile, two of each, racks of one, hashes of two values, up to ten entries: openings, plays, exchanges, challenges, forfeits and the reveal |
| `words` | Does a compiled list answer for its words and no others, and is a play judged by exactly the lines it makes? | all lists of words up to three letters over two letters; two of them played with on a 3 by 3 board with racks of two and a blank, three plays under a referee, two under challenges |
| `offline_race`, `challenge`, `played_on` | Runs that TLC must refute: a document, a comment or a test says something the code does not do (section 6) | the smallest instance that shows it |

The properties, and what each would catch:

* `LogLinked`, `HistoryKept` (room): the log is a gapless chain, and a stored
  entry is never replaced or dropped except by evicting the whole log under its
  own tip as the tombstone. `NoRoomForgotten`, `AlarmIsEarliest`: between the
  reminder and the re-arming the room has no alarm at all; no interleaving with
  an append leaves it that way.
* `NoFork`: whatever any device and the room hold are prefixes of one history.
  `SyncedIsHeld`: with nothing under way on its connection, a device that shows
  "synced" has nothing the room lacks, even if an upload took several messages.
  `StayersAgree`: as long as no connection was lost, it also lacks nothing.
* `RestoreExtendsTombstone`: an evicted room is restored only from a log that
  goes on from what was evicted. `OneHistory`: under the refinement mapping
  *history = the longer of the room's log and its tombstone*, the whole system
  implements `History`.
* `SeenIsHeld`, `HeldIsKept`: between two devices of one player, only what the
  room holds is shown to others, and only what it does not hold is taken back.
  The second excepts a device whose confirmation has not reached it (`Unheard`),
  because there it is false, see section 6.
* `LogsReplay`: where players have one device each, make one move at a time and do
  not resign, no device ever has a log that a reload would refuse, because its
  chain is broken or its session does not replay it, whatever arrives between a
  play and its signature. None of the three conditions can go: a resignation that
  was signed twice, or before a move, spoils the log (`played_on`), and so do two
  moves made at once, on a board that takes a second tap or on two devices (a
  sibling's move arrives while one's own waits); `siblings` has both.
* `OnlyOvertaken`: with several devices and hasty boards, as long as nobody
  resigns, that is the only thing which spoils a log: up to the first move that was
  signed elsewhere than it was sealed for, every log replays.
* `Converges`: in the end all copies are the room's.
* `OneOpponent`: one invite gives a game to one person, and every device of the
  initiator names that person. `NoGameGivenUp`: no device stores a game as
  expired, or forgets it, while the relay knows that it was joined. `Settles`: no
  device shows it as pending for ever.
* `ThreeInStep`, `ThreeNeverStuck`, `ThreeRackSecrecy`: under version 3, rules
  and deal agree on what has been dealt to whom; no payload is refused, and the
  toss and the closing racks can be opened; a rack is read by its holder alone
  until then. The same without the restriction to version 3 is false, see
  `challenge`.
* `HonestTaken`, `FaultyRefused`: whatever a device builds as the app asks it
  to, both devices take; none of the mistakes above is taken by either, and no
  part of a refused payload stays. `DeckIsTheBag`: under the keys both players
  really hold the deck is a permutation of the bag at all times, and what a
  device reads off its rack is what lies there. `RestoredIsTheSame`: a snapshot
  loads to the state it was made of, also in the middle of the opening.
  `KeepsThePromise`: each device does, step by step, what module `Deal` says and
  `Table` builds on.
* `SameUntilTakenBack`: the two devices of a version 1 game agree on everything
  public and each counts the other's rack rightly, as long as challenges have
  taken back no more than a rack of anybody's tiles (beyond that it is false,
  section 6). `AuditNamesTheCheat`: the audit clears a player if and only if it
  played what it was dealt.
* `ReadsBack`: a published list contains a word exactly if it was put in.
  `SmallestGraph`: no two nodes that are written out accept the same endings.
* `JudgedByItsLines`: a play is judged and scored by the maximal lines it made or
  made longer, each once, against a definition of lines that knows rows and
  columns only. `HangsTogether`: after any plays and challenges the tiles are
  connected and cover the centre. `NothingUnread`: every line on the board is a
  word that was offered, and under a referee is in the list, although only a
  play's own words are ever judged. `NoDirection`: turned over in any of the
  eight ways a play is as legal and scores the same.
* `FullOrOwed`: a player is short of tiles only if the bag is empty.
  `EndsForAReason`: the end is never called for a reason that does not hold.
  `GameEnds`: two players who go on finish.

**Bounds.** `Plans` (who begins where, opens the board, may resign, how many
entries each device writes, on whose board a second tap is taken, and whose board
is not left), `MaxHangups` (connections lost or left while busy), `MaxEvictions`, `MaxQueue` and `MaxPushes` (room run
only; in `Sync` queues are bounded by what devices send), `MaxDepth` (histories
offered to the room), `MaxStops`, `MaxCancels` (invitation), `MaxEntries` (`sealed`,
`draws`), `ENTROPY` (the randomness a payload is made with), `MaxWord`, `Played`,
`TilesOut`, `MaxPlays` (words). The
races need two writers, and a lost answer needs one lost connection; two entries
and one loss let a device be ahead, behind, level and forked, be told about its
own entries late, and re-send. `MAX_APPEND_ENTRIES` is 256 in the code; `drops`
gives it 2 so that an upload needs several messages. `recovery` gives one player
the moves: with an answer too the graph for the liveness check does not fit the
time. So `Converges` and `OneHistory` are checked where nobody loses a race and
the prologue is written; the other runs of `Sync`, which have both, check safety
only, and `OneHistoryOnce` proves the refinement from an empty log on, for two writers
with a device each.

The `table` instance has two tiles more than the two opening racks: a play of
one or two, an exchange (which needs a rack's worth in the bag), a refill that
the bag can only serve in part, and both ends of a game all occur. A mutated
refill or payload is caught within the first few entries.

The `sealed` bag has two tiles alike and one other, so that a shuffle can be wrong
in ways that leave the kinds right; seven entries hold the three of the opening
and deal and open the whole deck. In `draws` the four tiles run out within the
ten entries, and a play can be challenged; a rack of one is enough for a draw to depend on what was forgotten. The game is too short
there for a tile to be put down again after it was challenged off;
`SameUntilTakenBackAlways` covers that. On a 3 by 3 board every
square is on an edge or the centre, and a line of three meets cross words at each
square; `MAX_UNITS` is 7 in `words`, so that some lists outgrow the child field. Among
the tiles laid out is a blank that stands for no letter.

**Fairness.** `recovery`: an open page connects, handles its messages and
resyncs when its player comes back to it, which is what the board's visibility
handler does; a room handles what reaches it, notices closed sockets and ends
its pushes (a `fetch` ends, by an answer or an error). No player has to move,
and none has to open the board. `invitation`: a call under way goes on, and the
home page and the board of a pending game keep asking the relay (the board every
three seconds); nobody has to cancel, poll the mailbox or open the link.
`table`: whoever has a move makes one. That is not owed by the code, but it is
what "two players who go on playing" means, and `GameEnds` says no more.

Deadlock is not checked: every instance is finite and may come to rest (all has
been played, nobody is connected).

## 4. Theorems

`GameRoomProofs`, for any participants, sockets, payloads, batches and bounds,
from `NoOneAssumption` (no key is "nobody") and `BatchAssumption` (a message
carries consecutive entries, which is what a client's slice of its log is and
what the room's own check enforces from the second entry on):

* `TypeCorrect`: `RoomSpec => []RoomTypeOK`.
* `LogLinkedAlways`. `LogLinked` is inductive together with the types. The work
  is in an accepted batch: `StagedFollows` shows that the entries of a batch
  that lie beyond the log continue it one by one, from the per-entry check that
  was made against either the log or the entry before. The arguments over the
  length of a log go by the least counterexample (`LeastElement`).
* `HistoryKeptAlways`: the action property, from the invariant: in a linked log
  every tip extends every earlier tip (`TipExtends`).
* `AlarmAlways`: `NoRoomForgotten` and `AlarmIsEarliest`; inductive as a pair
  with `nudging => alarm state`: the handler that is waiting will re-arm.
  `AlarmIsEarliestAlways` is its second half, on its own.

`InvitationProofs`, for any people, devices, jobs and bounds, from
`PersonAssumption` and `JobAssumption`:

* `InvitationTypes`: the type invariant needs `WorkOK` (which answer a job may
  hold at which stage, and which letters are in its hands).
* `OneOpponentAlways`: from `RowOK` (whoever was given the blob is in the row
  until it is deleted) and `NamesOK` (every claimer named in a record, in a letter,
  also one a poll still has in hand after another dropped it, or in an answer on
  its way was given it).
* `NoGameGivenUpAlways`: until the relay has dropped the row, no answer "there
  is no such invite" exists anywhere (`NothingYet`), hence no expired record and
  no cancellation that has got past the relay (`NobodyGivesUp`).

`TableProofs`, for a deck and a rack of any size, from `TileAssumption` (there
are tiles for both opening racks) and `RulesAssumption`:

* `TableTypes`, under both versions: no entry deals past the end of the deck.
* `InStepThroughout`, `NeverStuckThroughout`, `RackSecrecyThroughout`, under
  version 3. None of the three is inductive. The invariant adds `Opening` (at
  each step of the opening, which keys and shuffles the deal has, and what is
  owed), `Holding` (a position dealt to one player was dealt by the other, who
  published the share; nothing else is published but what is public; a rack not
  yet opened holds nothing public) and `Openings` (racks are opened in turn, once
  each, and only when the game is ending). The argument for an entry has three
  parts: what the payload does to the deal if the deal accepts it (`Effect`, with
  a lemma for each kind of payload that says that it does), what the end of every
  entry does to the rules (`EndedFields`), and that the two together preserve the
  invariant whatever the move took from the author's rack (`HoldingStep`,
  `TurnStep`). Each move then only has to show that it is such a move.

In the same module, for both versions:

* `EndsForAReasonThroughout`: by cases, a game is called ending only at the end of
  an entry that has a reason for it (`Reason`), and no later entry takes the
  reason away.
* `FullOrOwedThroughout`, from the invariant `Books`: a rack holds positions that
  have been dealt (`Drawn`); before the toss there is nothing (`Undealt`); from
  then on a player's tiles and what is owed to it make a full rack, and whoever
  is to move is owed something only if the bag is empty (`Balanced`); and the play
  that may be disputed has left the rack and has not been paid for (`Disputable`).
  The last is for the challenge that takes a play back: its tiles return to the
  rack and the debt is less by as many, and it must not have been paid by then.

`SyncProofs`, for any devices, connections, plans and bounds, from
`DeviceAssumption` (who plays on which device, whose connection a slot carries),
`PlanAssumption` (a game begins with a log that replays) and the hypothesis
`SealsAll` of each theorem: whatever a device has to write can be sealed, that
is, `Body` has it. (It ranges over all counts of entries, so TLC cannot evaluate
it as an assumption; `MCBody` in `MCSync`, which has every count, satisfies it.)

* `SyncTypes`, `OnlyOvertakenAlways`, `RoomLogLinked`. An entry is the history it
  ends, so whether a session accepts the log up to it is settled when it is
  signed. The invariant `Inv` says that every entry anywhere, in a log, in an
  append under way or in a message in either direction, is one that replays, or
  follows a payload out of its place, unless players resign (`Good`); that every log is linked; that what is sent in one append is a run;
  and that a device's connection is one the room has and nobody else's. The work
  is at the three places where a log changes: `SignedGood` (what a player may
  write next makes a good entry; `Writable` is what `Play` and
  `WritePrologueEntry` check first; `GoodPlays` keeps of it what is still true
  when `Move` signs: the sequence a play has taken is one at which it is this
  player's turn, whatever the log has become), `TakenLinked` (of entries handed to it a log
  takes as many as keep it linked) and `CutLinked` (a rollback). For the room the
  lemmas of `GameRoomProofs` about an accepted batch are used again, now with the
  batches that engines really send.

The second part of `SyncProofs`, from the same assumptions, says once, for every
step of `Next`, what the step may do (`LogStep`: a log is lengthened by entries it was
handed, then perhaps by one it signs, or cut back by a rollback; `UpStep`: what a
device sends is a stretch of its log; `RoomStep` and `DownStep`: what becomes of
the room's copy, and what it may say). The invariants below only have to be
checked against these, and not against every action.

* `SeenIsHeldAlways`: `SealsAll /\ Spec => [](evictions <= 1 => SeenIsHeld)`. An
  entry gets from the device that signed it to another only through the room:
  `SeenInv` follows it there. All that leaves the room, in an append that waits
  for its push or in a message on its way down, is held (`HeldEntries`), and a log
  has nothing but what is held and what its own device signed. That what is held
  stays held is `HeldGrows`, and this is where the second eviction comes in: the
  tombstone is one hash, and the second replaces the first.

`OneLineProofs`, for players with one device each (`OneDeviceEach`) who make one
move at a time (`OnePlayAtATime`) and do not resign (`NobodyResigns`). All three are
needed: the runs `offline_race` and `siblings` show what a second device does and a
second tap, and a resignation may cross a move.
Under them moves alternate, so whoever may write the next entry
has every entry written so far, and all there is of the game, anywhere, is a
prefix of one history. The invariant `OneLine` says so of every log, the
tombstone and every message in either direction, together with the reason: a
device has all that its player wrote (`DevicesOn`), and no refusal for a race is
on its way (`Answering`). `WriterHasItAll` and `RefusalOnLine` are its core.

* `LogsReplayAlways`: every log is linked and replays. Whoever has a play waiting
  has all of the line, and it cannot go on before the play is signed; so the move
  finds the place it was sealed for (`DevicesOn`).
* `NoForkAlways`: of any two copies one goes on where the other stops.
* `HeldIsKeptAlways`: the action property, and more, `OnlyAddedTo`: under the
  hypotheses the roll-back never happens (`NobodyRetracts`), so that no step takes
  an entry from a device.
* `OneHistoryOnce`: `OneHistory`, that is, the refinement of `History`, with one
  eviction at most (`MaxEvictions \in {0, 1}`). The initial states are mapped by
  `HistoryStarts`; `HistoryStep` maps every step to a step of `History` or a
  stutter, given that an eviction finds a room that has caught up with its
  tombstone.
* `RestoreExtendsAlways` and `OneHistoryAlways`: the same for any number of
  evictions, as long as one append carries a whole log (`ShortLogs`, of which
  MAX_APPEND_ENTRIES, 256, is the bound). The invariant `CaughtUp` adds that the
  room is empty or no shorter than its tombstone, that every append under way that
  could start an empty room again is as long as the tombstone (`Restoring`), and
  that the `state` messages under way carry this tombstone (`Telling`). Whoever
  has cause to send its log from the start has all that was evicted
  (`WhoBeginsHasItAll`): it signed the last entry, or it compared the tombstone.

`SyncedProofs`, from the hypotheses of `OneLineProofs` and two more: no entry that
a session accepts is over MAX_ENTRY_BYTES (`NothingOversized`; one that was would
be refused for ever, and the game would stop there), and an append has room for
two entries (`SeveralAtOnce`; the code has 256).

* `SyncedIsHeldAlways`: `SyncedIsHeld` until the room is evicted. That
  `relayTipSeq` is right cannot be the invariant, because it need not be: any
  entry that reaches a device makes it take all of its own log for sent
  (`onEntries`). Nor does the status enter into it: that nothing is under way is
  enough. The invariant `Connected` follows each connection through its
  three stages (`Phase`): the greeting is on its way up (`Asks`), the answer to it
  is on its way down (`Learns`), or the device has had the answer (`Knows`). In
  the last, the appends on their way up take the room from what it has to all the
  device has (`Covers`), and whatever the device believes unsent is its own
  (`TheirsUpTo`). What makes it inductive is `OwnRun`: with moves alternating, a
  device has at most two entries in a row to send, the initiator's last of the
  setup and its first move, so one append always carries what is missing. TLC
  checked `Connected` on the instances of `drops` before it was proved. The
  theorem ends at the first eviction, since it is not true beyond: a board that
  stays connected through one goes on counting the evicted entries as confirmed
  (a hazard in `PROJECT.json`).
* `StayersAgreeAlways`: `StayersAgree`, with the other half of that invariant.
  Once the prologue is written a device is no more than one entry behind the room
  (`CloseBehind`), because of two moves in a row each player makes one; and that
  one entry is on its way (`InTouch`): a `req` for it or the greeting is on its way
  up (`Asked`), a fan-out or answer that carries it is on its way down, or a
  `state` that tells of it (`Brought`), or an append by the other device has been
  stored and still waits for its push (`Leaving`). The
  step that makes this more than book-keeping is a fan-out that finds the device
  absent, or with its greeting still unread: then the greeting's answer comes
  later and tells of the entry. That no connection has broken is what excludes the
  lost fan-out of section 6. The hypothesis `Begun` says that a game starts with
  its prologue. From an empty log the property holds on an instance TLC went
  through (both players open the board, nobody resigns), but by an accident the
  invariant does not cover: the claimer may be two entries behind there, and is
  saved by the initiator sending its setup twice.

`LetrasOneProofs`, for any bag, rack, grain of the hash and length of game, from
`OneAssumption`:

* `AuditNamesTheCheatAlways`: `AuditNamesTheCheat`. The audit is a recursive
  function over the events; a recursion is unrolled by asking for the first place
  where two functions that obey it differ (`LeastElement`), which gives what one
  event more does to it (`AuditMore`). The invariant says that, after every entry,
  the audit of a device's own events is in step with what the device itself counts
  (`Tracks`): as long as it has found nothing, it is at the same draw, promise and
  exchange and has the same pool, and it has found nothing and ends with the
  device's rack exactly if the device has not changed it. That the audit needs no more is
  because a changed rack cannot come right again: tiles are taken from both racks
  and added to both, and a promise about the wrong one is found out. A refill that
  a challenge cancels and a play that it takes back leave the audit where it was
  (`TrackTakenBack`). `Control` has what makes the order of entries safe: the play
  that may be challenged is the last event, what is owed is dealt against the
  opponent's entry, and between two reveals only the second can follow. The
  audit of the opponent is the opponent's own, since both devices write the same
  events (`InStep`) until one refuses an entry of the other, and then neither
  signs another.
* `SameUntilTakenBackAlways`: `SameUntilTakenBack`. Most of what is public depends
  only on what is public (`Alike`, stage by stage). Not so the end of the game,
  which a device sees in its own rack or in its count of the other's, so the
  counts have to agree too (`TwoInv`). They do when a device is dealt as many tiles as
  the other counts it as drawing, which it is when its pool covers the bag. The
  pool is short by what the opponent put down twice, no more than a rack by the
  hypothesis; but it also holds, besides the bag, the opponent's rack
  (`Covered`), and while the bag is not empty that rack, at the opponent's own
  turn, is full (`Full`, `DealtInFull`). An exchange refills the bag, so that
  "full or the bag is empty" would fail after it, were it not that the rules ask
  for a rack of tiles in the bag before it: then both racks are full and the
  refill before it leaves them so (`Whole`). What a challenge gives back is what
  is still owed for it (`Refund`), so the account balances. A device accepts what
  the other signs by `ValidAlike`.

`WordsProofs`, for a board of any odd size and any rack, premium squares, alphabet
and list, from `WordsAssumption`. Nothing is assumed of the list: the theorems are
about the board and about what is looked up.

* `HangsTogetherAlways`: `HangsTogether`. The property computes what can be reached
  from the centre; the invariant `JoinInv` says it as a closure (`Joined`: a set
  of tiles with the centre that takes in its neighbours is all of them), and
  `JoinedHangs` that it comes to the same, since every round of the computation
  takes in a square more until there are none. A play keeps it (`PlayJoins`):
  from its first tile to its last all squares are filled, so a closed set that
  touches one takes in all (`LineWalk`, `Spreads`), and it touches one, or covers
  the centre of an empty board. It is not inductive alone, because a challenge
  may take off tiles in the middle: `JoinInv` adds that the board hung together
  without the play that may still be challenged, and only the last one may be.
* `JudgedByItsLinesAlways`: `JudgedByItsLines`. The code walks by adding to the
  square's number and finds the direction of a play from the numbers of its first
  two squares; the property speaks of rows and columns. `RunIs` says that the run
  through a square is the line through it, if there is one, and stops at the
  edge; `LineIsRun` that a line is the run through each of its squares; `MainWay`
  that the direction is found rightly and that the whole play lies on one line
  of filled squares. So the runs found are lines through the play; each such line
  is found, the one along the play from the first square and each across it from
  the tile it crosses; and none twice (`WordsAre`). Sorting the squares and dropping
  the empty runs have lemmas of their own (`InOrderIs`, `KeptIs`).
* `EveryLineJudgedAlways`: at any time every line on the board was offered as a word
  by a play, and under a referee the published list has it. Only the words of a
  play are ever looked up, so this needs that a line that a play does not touch
  was there before it and reads the same (`LineWasThere`), and that a challenge
  goes back to the board of before (`Without`, in `ReadInv`).
* `NothingUnreadAlways`: `WordsFit /\ Spec /\ []ReadsBack => []NothingUnread`. The
  last step, from what the list contains to what was compiled into it, is what
  `ReadsBack` says, which TLC checks. `WordsFit` (a line is no longer than a word
  of the list may be, and the letters are the list's alphabet) is what makes
  every line one of the words that `ReadsBack` speaks of; `MCWords` satisfies it.

Checked by TLC only, and why:

* `HonestTaken`, `FaultyRefused` and `DeckIsTheBag` of `SealedDeal`. In the model
  the group is small and the transcript's hash has few values, so that a forged
  proof is refused on the instance that is checked and not for every choice of
  constants; the code's claim is probabilistic. `RestoredIsTheSame` is about a fold
  over the parts of every payload, which needs induction over data.
* `ReadsBack` and `SmallestGraph` of the dictionary: what the builder's folds over
  words and nodes compute, again by induction over data. `NothingUnreadAlways` has
  the first as a hypothesis.
* `NoDirection`: legality and the lines have no direction by the lemmas above, but
  the score is a fold over the squares of a run, whose order a reflection reverses.
* `DraftsGiveWay`, `Converges`, `Settles` and `GameEnds`: liveness under fairness
  is outside what the proof system does.

## 5. Plan

In this order; each new module has its configuration, run, mutants and map.

1. `PlaySession`: one device between its log, its deal and its board: entries
   that arrive while `syncDeal` or a render waits for the plugin worker (`play` is
   in `Sync`), the queue in front of the deal, snapshots, rollbacks and reloads.
   To be shown: each entry is applied to the deal once and in order, and a payload
   is made from the state its move was validated in.
2. `SessionStore`: storage trailing the log, crashes; the engine a resync leaves.
   The case to start from: `persistAndNotify` reads what is stored and waits; a
   rollback deletes from the store meanwhile, and a longer refill arrives; what is
   then written leaves a gap that the next reload refuses.
3. `TurnHold`: turn claims, presence, and who is pushed to (`game-room.ts`
   onHold, onPresence, attentive endpoints; the session's startHold, takeOver).
4. `DeviceLink`, `Mailbox`, `Devices`: the other durable objects.
5. `PluginHost`, `Backup`, `TicTacToe`.
6. Proofs: the safety of the modules above.

## 6. Where code and documents differ

* `offline_race`: two devices of one player both move offline. The second to
  connect is "diverged" for good; the architecture notes say that the loser's
  engine truncates its entries.
* `challenge`: under version 2 the entry of a challenge deals the refill that the
  challenge, if it succeeds, cancels; and the tiles it returns to the rack have
  been opened already. The next play of such a tile is legal and its payload is
  refused. The architecture notes say that nothing has been handed over by then.
* `played_on`: a resignation does not stop the board. `play` asks the rules whose
  turn it is, and they know of no resignation; `resign` asks nobody. An entry
  signed after a resignation, on either side, makes every replay of the log fail,
  so that the game cannot be opened again. The test
  `nothing_may_follow_a_resignation` says what a session reads, not what it writes.

Others, which no run of their own shows:

* The board of tic tac toe takes a second tap while the first move waits for the
  rules (`Board.svelte:36`; `WordBoard.svelte:263` has a flag). Both moves are
  sealed for one sequence, and the second is signed at the next, where it opens for
  nobody, and the game cannot be opened again. The comment at `play` says that an
  illegal move never reaches the log. A plan of `siblings` has it; the same happens
  when a sibling's move arrives while one's own waits.
* An entry written before the room's first `state` uploads the whole log without
  the tombstone check (`engine.ts:186`; relayTipSeq is still -1), although the
  comment at `engine.ts:250` speaks of "a tombstone we must satisfy before
  re-uploading". A resignation on a device with an older copy so brings that copy
  back to an evicted room. `RestoreExtendsTombstone` is checked where only a device with the whole log
  writes, and proved (`RestoreExtendsAlways`) where moves alternate.
* The alarm of an invite (`pending-invite.ts:153`) deletes a claimed invite like
  any other, so an initiator who looks only after the seven days takes a joined
  game for an expired one (`games.ts:262`); the comment at `games.ts:254` says
  that nobody can have claimed it by then. `NoGameGivenUp` stops at that moment.
* Version 1: a tile that is challenged off, played again and challenged off again
  is forgotten twice by the opponent's pool (`v1/game.rs:353`), which then has
  fewer tiles than the bag: the opponent draws fewer than it is counted as
  drawing, and the two devices disagree about its rack. The module's first lines
  say that the devices reach the same conclusions; `SameUntilTakenBack` says how
  long they do.
* A push delays the confirmation of an append (`game-room.ts:294`), so the refusal
  of the next one can arrive first. The engine then takes back an entry the room
  holds, although `engine.ts:361` speaks of "entries the relay never accepted";
  the `req` that follows brings it back.
* The sender's connection closes while the room waits for the push. The reply
  throws and the fan-out after it never runs; the opponent's open board stays
  "synced" without the move until it next resyncs (this is why `StayersAgree`
  ends with the first lost connection).
* Entries the log has already are skipped, but its tip, own entries included, is
  then taken as confirmed (`engine.ts:335`). A board that watches another one
  restore an evicted game of more than 256 entries shows itself in sync after the
  first append, and sends the rest only if it resyncs.
* An evicted room that is restored with more entries than one append carries, and
  evicted again in between, has a tombstone shorter than the game was, so that a
  log which lacks its end is then accepted. This is why the theorems about more
  evictions than one ask for `ShortLogs`.
* `syncDeal` reads the log before its awaits and the tip after them: an entry
  that arrives in between counts as dealt and has not been.
* `Deal.agrees`, which would check that a move claims the tiles its payload
  opens, is called from nowhere.
* Both halves of the toss are computed before any tile is known, from the
  dictionary and the player only, so who opens is the same in every game with
  that dictionary.
* Version 3 still speaks of exchanged tiles as returned; their positions leave
  the rack and are never dealt again.

## 7. Not modelled, and why

* Hash functions, signatures, sealed boxes and key agreement: primitives, taken as
  ideal. So is the hardness of logarithms under the deal's proofs: `SealedDeal`
  shows that honest payloads pass and that the mistakes it is handed do not, not
  that no false proof exists.
* Encodings (CBOR, points, base64, the header of a dictionary file): a conversion
  and its inverse with tests of their own. Where a width decides something (the
  child field of a dictionary unit) it is in the model.
* Crashes of a page or a room between two awaits, the entry store, turn claims,
  presence and who is pushed to, device linking, mailboxes' limits, the plugin
  host's restarts, backup and migration: state machines worth a model, in the
  plan above and listed with the hazards they leave open.
* Tic tac toe: one pure function whose tests cover every line.
* Request routing and validation in the worker's entry point: stateless.
* Rendering, wording, QR codes, the pages: only what they call, and when.
* What a push contains and whether the browser shows it: I/O of third parties.
