---------------------------- MODULE LedgerIndexer ----------------------------
(***************************************************************************)
(* LedgerIndexerService: one loop that reads the committed chaincode       *)
(* events of the channel and stores them in ledger_events, and             *)
(* rebuildProjections, which runs beside it.  A step is what happens       *)
(* between two awaits, or one database transaction.                        *)
(***************************************************************************)
EXTENDS Integers, Sequences

CONSTANTS
  MaxHeight,        \* bound: blocks of the channel
  MaxEvents,        \* bound: events of a block
  Validity,         \* {TRUE}, or BOOLEAN when some event may be malformed
  MaxFaults,        \* bound: crashes, broken streams, failed transactions
  MaxRebuilds       \* bound: calls of rebuildProjections

ASSUME ValidityAssumption == Validity \subseteq BOOLEAN
ASSUME BoundsAssumption == {MaxHeight, MaxEvents, MaxFaults, MaxRebuilds} \subseteq Nat

VARIABLES
  height, chain,    \* Fabric: the last block, and the events of all blocks
  stored,           \* PostgreSQL: ledger_events, by position in chain
  checkpoint,       \* PostgreSQL: indexer_checkpoint.block_number
  last,             \* state.lastProcessedBlock
  pc,               \* where runEventLoop is
  start,            \* startBlock of the stream
  next,             \* the position in chain the stream has reached
  open,             \* the stream is open; rebuildProjections may close it
  rebuild,          \* where rebuildProjections is, and from which block
  doomed,           \* the rows its DELETE has found
  asked,            \* history: the highest block a replay was asked from
  faults, rebuilds

fabric  == <<height, chain>>
tables  == <<stored, checkpoint>>
loop    == <<last, pc, start, next, open>>
resetting == <<rebuild, doomed, asked, rebuilds>>
vars == <<fabric, tables, loop, resetting, faults>>

Maximum(a, b) == IF a > b THEN a ELSE b

NotRebuilding == [at |-> "idle", from |-> 0]

Init ==
  /\ height = 0 /\ chain = <<>>
  /\ stored = {} /\ checkpoint = 0
  /\ last = 0 /\ pc = "down" /\ start = 0 /\ next = 1 /\ open = FALSE
  /\ rebuild = NotRebuilding /\ doomed = {} /\ asked = 0
  /\ faults = 0 /\ rebuilds = 0

Fault == faults < MaxFaults /\ faults' = faults + 1
NoFault == UNCHANGED faults
-----------------------------------------------------------------------------
\* A block is committed, with the events of its valid transactions.
CommitBlock(valids) ==
  /\ height < MaxHeight
  /\ height' = height + 1
  /\ chain' = chain \o [i \in DOMAIN valids |-> [block |-> height + 1, valid |-> valids[i]]]
  /\ UNCHANGED <<tables, loop, resetting, faults>>
-----------------------------------------------------------------------------
(***************************************************************************)
(* onApplicationBootstrap and runEventLoop.                                *)
(***************************************************************************)
loadCheckpoint ==
  /\ pc = "down"
  /\ last' = checkpoint
  /\ pc' = "opening"
  /\ NoFault
  /\ UNCHANGED <<fabric, tables, start, next, open, resetting>>

\* The stream is asked from the last block on, which is read again.
getChaincodeEvents ==
  /\ pc = "opening"
  /\ start' = Maximum(0, last)
  /\ next' = 1
  /\ pc' = "connecting"
  /\ NoFault
  /\ UNCHANGED <<fabric, tables, last, open, resetting>>

Connected ==
  /\ pc = "connecting"
  /\ open' = TRUE
  /\ pc' = "reading"
  /\ NoFault
  /\ UNCHANGED <<fabric, tables, last, start, next, resetting>>

\* Mutant of Due: the stream resumes after the last block it has seen.
DueAfter(i) == chain[i].block > start

Due(i) == chain[i].block >= start

\* The event that the stream delivers, and the loop reads, next.
Deliverable(e) ==
  /\ e \in DOMAIN chain /\ e >= next
  /\ Due(e)
  /\ \A j \in next..(e - 1) : ~Due(j)

\* Mutant of decodeEvent: an event that does not parse is skipped.
SkipInvalid(e) == IF chain[e].valid THEN "storing" ELSE "reading"

\* An event that does not parse ends the loop for good.
decodeEvent(e) == IF chain[e].valid THEN "storing" ELSE "halted"

ReadEvent(e) ==
  /\ pc = "reading" /\ open
  /\ Deliverable(e)
  /\ next' = e + 1
  /\ pc' = decodeEvent(e)
  /\ open' = (pc' # "halted")
  /\ NoFault
  /\ UNCHANGED <<fabric, tables, last, start, resetting>>

\* The position of the event that processChaincodeEvent is at.
Event == next - 1

Advanced(block) == Maximum(checkpoint, block)

\* Mutant of Inserted: ON CONFLICT takes another row for this one.
InsertedUnlessBlock(i) ==
  IF \E j \in stored : chain[j].block = chain[i].block THEN stored ELSE stored \cup {i}

Inserted(i) == stored \cup {i}

\* INSERT and checkpoint in one transaction; it waits for a DELETE of its row.
\* If its acknowledgement is lost, the loop takes it for an error.
StoreEvent ==
  /\ pc = "storing"
  /\ Event \notin doomed
  /\ stored' = Inserted(Event)
  /\ checkpoint' = Advanced(chain[Event].block)
  /\ \/ NoFault /\ pc' = "stored" /\ UNCHANGED open
     \/ Fault /\ pc' = "opening" /\ open' = FALSE
  /\ UNCHANGED <<fabric, last, start, next, resetting>>

RememberEvent ==
  /\ pc = "stored"
  /\ last' = Maximum(last, chain[Event].block)
  /\ pc' = "reading"
  /\ NoFault
  /\ UNCHANGED <<fabric, tables, start, next, open, resetting>>

\* Mutant of AfterError: an error ends the loop.
GiveUp == "halted"

AfterError == "opening"

\* The peer or the transaction fails, or the peer ends the stream: tried again.
LoopFails ==
  /\ pc \in {"connecting", "reading", "storing"}
  /\ Fault
  /\ open' = FALSE
  /\ pc' = AfterError
  /\ UNCHANGED <<fabric, tables, last, start, next, resetting>>

\* A stream that a replay has closed ends; the loop opens another one.
StreamEnds ==
  /\ pc = "reading" /\ ~open
  /\ pc' = "opening"
  /\ NoFault
  /\ UNCHANGED <<fabric, tables, last, start, next, open, resetting>>

Crash ==
  /\ pc # "down"
  /\ Fault
  /\ pc' = "down" /\ open' = FALSE
  /\ rebuild' = NotRebuilding /\ doomed' = {}
  /\ UNCHANGED <<fabric, tables, last, start, next, asked, rebuilds>>
-----------------------------------------------------------------------------
(***************************************************************************)
(* rebuildProjections(fromBlock), for any block, the checkpoint's or not:  *)
(* a block past the checkpoint raises it.  The COMMIT may succeed and its  *)
(* acknowledgement be lost.                                                *)
(***************************************************************************)
rebuildProjections(from) ==
  /\ pc # "down"
  /\ rebuild = NotRebuilding
  /\ rebuilds < MaxRebuilds /\ rebuilds' = rebuilds + 1
  /\ open' = FALSE
  /\ rebuild' = [at |-> "deleting", from |-> from]
  /\ asked' = Maximum(asked, from)
  /\ NoFault
  /\ UNCHANGED <<fabric, tables, last, pc, start, next, doomed>>

DeleteEvents ==
  /\ rebuild.at = "deleting"
  /\ doomed' = {i \in stored : chain[i].block >= rebuild.from}
  /\ rebuild' = [rebuild EXCEPT !.at = "committing"]
  /\ NoFault
  /\ UNCHANGED <<fabric, tables, loop, asked, rebuilds>>

CommitRebuild ==
  /\ rebuild.at = "committing"
  /\ stored' = stored \ doomed
  /\ checkpoint' = rebuild.from
  /\ doomed' = {}
  /\ \/ NoFault /\ rebuild' = [rebuild EXCEPT !.at = "resetting"]
     \/ Fault /\ rebuild' = NotRebuilding
  /\ UNCHANGED <<fabric, loop, asked, rebuilds>>

ResetMemory ==
  /\ rebuild.at = "resetting"
  /\ last' = rebuild.from
  /\ rebuild' = NotRebuilding
  /\ NoFault
  /\ UNCHANGED <<fabric, tables, pc, start, next, open, doomed, asked, rebuilds>>

RebuildFails ==
  /\ rebuild.at \in {"deleting", "committing"}
  /\ Fault
  /\ rebuild' = NotRebuilding /\ doomed' = {}
  /\ UNCHANGED <<fabric, tables, loop, asked, rebuilds>>
-----------------------------------------------------------------------------
LoopStep ==
  \/ loadCheckpoint \/ getChaincodeEvents \/ Connected
  \/ \E e \in DOMAIN chain : ReadEvent(e)
  \/ StoreEvent \/ RememberEvent

\* The API as it is deployed: no route calls rebuildProjections.
Next ==
  \/ \E n \in 0..MaxEvents : \E valids \in [1..n -> Validity] : CommitBlock(valids)
  \/ LoopStep \/ LoopFails \/ Crash

Spec == Init /\ [][Next]_vars

\* The loop goes on by itself; a stopped process is started again.
FairSpec == Spec /\ WF_vars(LoopStep)

\* Bound: a replay is asked from at most one block past the channel's.
Blocks == 0..(MaxHeight + 1)

Rebuild ==
  \/ \E from \in Blocks : rebuildProjections(from)
  \/ StreamEnds \/ DeleteEvents \/ CommitRebuild \/ ResetMemory \/ RebuildFails

\* The same with replays beside the loop.
ReplaySpec == Init /\ [][Next \/ Rebuild]_vars
-----------------------------------------------------------------------------
(***************************************************************************)
(* Properties.                                                             *)
(***************************************************************************)
TypeOK ==
  /\ height \in 0..MaxHeight
  /\ chain \in Seq([block: 1..height, valid: BOOLEAN])
  /\ stored \subseteq DOMAIN chain
  /\ {checkpoint, last, start, asked} \subseteq Blocks
  /\ pc \in {"down", "opening", "connecting", "reading", "storing", "stored", "halted"}
  /\ next \in 1..(Len(chain) + 1)
  /\ open \in BOOLEAN
  /\ rebuild \in [at: {"idle", "deleting", "committing", "resetting"}, from: Blocks]
  /\ doomed \subseteq stored
  /\ faults \in 0..MaxFaults /\ rebuilds \in 0..MaxRebuilds

AuditBook == INSTANCE AuditIndex WITH indexed <- stored

\* However often the stream breaks and whatever is delivered again, the index
\* is the channel's event sequence up to some point: nothing missing, nothing
\* twice, nothing at or after an event that could not be read.
ImplementsIndex == AuditBook!IndexSpec

\* Everything below the checkpoint is in the index, so resuming from it, here
\* or after a restart, loses nothing but what a replay was asked to leave out.
\* Calls of rebuildProjections while the loop runs break this: a replay deletes
\* rows that the loop does not read again.
CheckpointCovers ==
  \A i \in DOMAIN chain :
    chain[i].block < checkpoint => i \in stored \/ chain[i].block < asked

\* Outages delay events, they do not lose them: whatever breaks, each event is
\* indexed, unless one before it or itself cannot be read.
EveryEventIndexed ==
  \A i \in 1..(MaxHeight * MaxEvents) :
    (i \in DOMAIN chain /\ \A j \in 1..i : chain[j].valid) ~> (i \in stored)
=============================================================================
