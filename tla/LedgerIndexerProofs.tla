------------------------ MODULE LedgerIndexerProofs ------------------------
(***************************************************************************)
(* What the indexer keeps for channels of any length.  With replays from   *)
(* any block: nothing at or after an event that could not be read gets     *)
(* into the index, unless a replay was asked to start past that event.     *)
(* Without them, as the API runs today: the index is a prefix of the       *)
(* channel, and the checkpoint never passes an event that is not in it.    *)
(*                                                                         *)
(* Both rest on Ordered: events come in the order of their blocks, so the  *)
(* events below a block are the ones before its first event.               *)
(***************************************************************************)
EXTENDS LedgerIndexer, FiniteSetTheorems, SequenceTheorems, TLAPS

-----------------------------------------------------------------------------
(***************************************************************************)
(* The channel grows at its end.                                           *)
(***************************************************************************)
Ordered == \A i, j \in DOMAIN chain : i <= j => chain[i].block <= chain[j].block

\* The old events keep their positions; the new ones are of the new block.
Extended ==
  /\ height \in Nat /\ height' = height + 1 /\ height' \in 0..MaxHeight
  /\ chain' \in Seq([block: 1..height', valid: BOOLEAN])
  /\ Len(chain) <= Len(chain')
  /\ \A i \in 1..Len(chain) : chain'[i] = chain[i]
  /\ \A i \in 1..Len(chain') : i > Len(chain) => chain'[i].block = height'

\* A sequence type's elements and domain.
LEMMA ChainType ==
  ASSUME TypeOK
  PROVE  /\ height \in Nat
         /\ Len(chain) \in Nat
         /\ DOMAIN chain = 1..Len(chain)
         /\ \A i \in 1..Len(chain) :
              /\ chain[i] \in [block: 1..height, valid: BOOLEAN]
              /\ chain[i].block \in 1..height
<1> DEFINE T == [block: 1..height, valid: BOOLEAN]
<1>1. height \in Nat
  BY BoundsAssumption DEF TypeOK
<1>2. chain \in Seq(T)
  BY DEF TypeOK
<1> HIDE DEF T
<1>3. /\ Len(chain) \in Nat /\ DOMAIN chain = 1..Len(chain)
      /\ \A i \in 1..Len(chain) : chain[i] \in T
  BY <1>2, ElementOfSeq, LenProperties
<1> QED BY <1>1, <1>3 DEF T

\* Block numbers are natural numbers.
LEMMA BlockTypes ==
  ASSUME TypeOK
  PROVE  /\ Blocks \subseteq Nat /\ 0 \in Blocks
         /\ checkpoint \in Nat /\ last \in Nat /\ start \in Nat /\ asked \in Nat
         /\ rebuild.from \in Blocks
         /\ \A i \in DOMAIN chain : chain[i].block \in Nat
<1>1. Blocks \subseteq Nat /\ 0 \in Blocks
  BY BoundsAssumption DEF Blocks
<1>2. \A i \in DOMAIN chain : chain[i].block \in Nat
  BY ChainType
<1> QED BY <1>1, <1>2 DEF TypeOK

\* CommitBlock appends.
LEMMA CommitExtends ==
  ASSUME TypeOK, NEW n \in 0..MaxEvents, NEW valids \in [1..n -> Validity], CommitBlock(valids)
  PROVE  Extended
<1> DEFINE new == [i \in 1..n |-> [block |-> height + 1, valid |-> valids[i]]]
<1> DEFINE T == [block: 1..(height + 1), valid: BOOLEAN]
<1>1. n \in Nat /\ height \in Nat /\ DOMAIN valids = 1..n /\ MaxHeight \in Nat
  BY BoundsAssumption DEF TypeOK
<1>2. \A i \in 1..n : new[i] \in T /\ new[i].block = height + 1
  BY <1>1, ValidityAssumption
<1>3. new \in Seq(T) /\ Len(new) = n
  <2> HIDE DEF T
  <2>1. new \in [1..n -> T]
    BY <1>2
  <2> HIDE DEF new
  <2>2. new \in Seq(T)
    BY <2>1, <1>1, SeqDef
  <2>3. DOMAIN new = 1..n /\ DOMAIN new = 1..Len(new) /\ Len(new) \in Nat
    BY <2>1, <2>2, LenProperties
  <2> QED BY <2>2, <2>3, <1>1, LenProperties
<1>4. chain \in Seq(T)
  <2>1. [block: 1..height, valid: BOOLEAN] \subseteq T
    BY <1>1
  <2> QED BY <2>1, SeqMonotonic DEF TypeOK
<1>5. chain' = chain \o new /\ height' = height + 1 /\ height < MaxHeight
  BY <1>1 DEF CommitBlock
<1>6. /\ chain' \in Seq(T) /\ Len(chain') = Len(chain) + n /\ Len(chain) \in Nat
      /\ \A i \in 1..(Len(chain) + n) :
           chain'[i] = IF i <= Len(chain) THEN chain[i] ELSE new[i - Len(chain)]
  <2> HIDE DEF T, new
  <2> QED BY <1>3, <1>4, <1>5, ConcatProperties, LenProperties
<1>7. \A i \in 1..Len(chain) : chain'[i] = chain[i]
  <2> HIDE DEF T, new
  <2>1. \A i \in 1..Len(chain) : i \in 1..(Len(chain) + n) /\ i <= Len(chain)
    BY <1>1, <1>6
  <2> QED BY <2>1, <1>6
<1>8. ASSUME NEW i \in 1..Len(chain'), i > Len(chain) PROVE chain'[i].block = height'
  BY <1>1, <1>2, <1>5, <1>6, <1>8
<1> QED BY <1>1, <1>5, <1>6, <1>7, <1>8 DEF Extended, T

\* So the order of the blocks is kept.
LEMMA ExtendedOrder ==
  ASSUME TypeOK, Ordered, Extended
  PROVE  Ordered'
<1>1. DOMAIN chain' = 1..Len(chain') /\ Len(chain') \in Nat
  BY LenProperties DEF Extended
<1>2. /\ DOMAIN chain = 1..Len(chain) /\ Len(chain) \in Nat
      /\ \A i \in 1..Len(chain) : chain[i].block \in 1..height
  BY ChainType
<1>3. ASSUME NEW i \in 1..Len(chain'), NEW j \in 1..Len(chain'), i <= j
      PROVE  chain'[i].block <= chain'[j].block
  <2>1. CASE j <= Len(chain)
    <3>1. i \in 1..Len(chain) /\ j \in 1..Len(chain)
      BY <1>1, <1>2, <1>3, <2>1
    <3> QED BY <3>1, <1>2, <1>3 DEF Extended, Ordered
  <2>2. CASE j > Len(chain) /\ i > Len(chain)
    BY <2>2 DEF Extended
  <2>3. CASE j > Len(chain) /\ i <= Len(chain)
    <3>1. i \in 1..Len(chain)
      BY <1>1, <1>2, <2>3
    <3> QED BY <3>1, <1>2, <2>3 DEF Extended
  <2> QED BY <1>1, <1>2, <2>1, <2>2, <2>3
<1> QED BY <1>1, <1>3 DEF Ordered
-----------------------------------------------------------------------------
(***************************************************************************)
(* What the stream passes over, and what comes before an event.            *)
(***************************************************************************)

\* An event that is read is at or after the stream's place; those between are
\* of blocks below the one the stream was asked from.
LEMMA Passed ==
  ASSUME TypeOK, NEW e \in DOMAIN chain, ReadEvent(e)
  PROVE  /\ e \in 1..Len(chain) /\ next <= e /\ next' = e + 1 /\ pc = "reading"
         /\ \A j \in next..(e - 1) : j \in 1..Len(chain) /\ chain[j].block < start
<1>1. /\ Len(chain) \in Nat /\ DOMAIN chain = 1..Len(chain)
      /\ \A i \in 1..Len(chain) : chain[i].block \in 1..height
      /\ height \in Nat /\ MaxHeight \in Nat
  BY ChainType, BoundsAssumption
<1>2. start \in Nat /\ next \in 1..(Len(chain) + 1)
  BY <1>1 DEF TypeOK, Blocks
<1>3. next <= e /\ next' = e + 1 /\ pc = "reading" /\ \A j \in next..(e - 1) : ~Due(j)
  BY DEF ReadEvent, Deliverable
<1>4. ASSUME NEW j \in next..(e - 1) PROVE j \in 1..Len(chain) /\ chain[j].block < start
  <2>1. j \in 1..Len(chain)
    BY <1>1, <1>2
  <2>2. ~(chain[j].block >= start)
    BY <1>3 DEF Due
  <2> QED BY <1>1, <1>2, <2>1, <2>2
<1> QED BY <1>1, <1>3, <1>4

\* What comes before the block of an event comes before the event.
LEMMA Earlier ==
  ASSUME TypeOK, Ordered, NEW e \in 1..Len(chain), NEW i \in DOMAIN chain,
         chain[i].block < chain[e].block
  PROVE  i \in 1..(e - 1)
<1>1. /\ DOMAIN chain = 1..Len(chain) /\ Len(chain) \in Nat
      /\ chain[i].block \in Nat /\ chain[e].block \in Nat
  BY ChainType
<1> QED BY <1>1 DEF Ordered
-----------------------------------------------------------------------------
(***************************************************************************)
(* The types.  An event that is being stored has been read.                *)
(***************************************************************************)
HasRead == pc \in {"storing", "stored"} => next >= 2

Typed == TypeOK /\ HasRead

\* Before the first block everything is empty.
LEMMA TypedInit == Init => Typed
<1> SUFFICES ASSUME Init PROVE Typed
  OBVIOUS
<1>1. chain \in Seq([block: 1..height, valid: BOOLEAN]) /\ Len(chain) = 0
  BY EmptySeq DEF Init
<1>2. 0 \in 0..MaxHeight /\ 0 \in 0..MaxFaults /\ 0 \in 0..MaxRebuilds /\ 0 \in Blocks
  BY BoundsAssumption DEF Init, Blocks
<1>3. rebuild \in [at: {"idle", "deleting", "committing", "resetting"}, from: Blocks]
  BY <1>2 DEF Init, NotRebuilding
<1>4. next \in 1..(Len(chain) + 1) /\ stored \subseteq DOMAIN chain /\ doomed \subseteq stored
  BY <1>1 DEF Init
<1> QED BY <1>1, <1>2, <1>3, <1>4 DEF Init, Typed, TypeOK, HasRead

\* A new block leaves room for everything that was in range.
LEMMA TypedCommit ==
  ASSUME Typed, Extended, UNCHANGED <<tables, loop, resetting, faults>>
  PROVE  Typed'
<1>1. /\ Len(chain) \in Nat /\ DOMAIN chain = 1..Len(chain)
      /\ Len(chain') \in Nat /\ DOMAIN chain' = 1..Len(chain')
  BY ChainType, LenProperties DEF Extended, Typed
<1> QED BY <1>1 DEF Typed, TypeOK, HasRead, Extended, tables, loop, resetting

\* Neither does any step of the loop leave its types.
LEMMA TypedLoop ==
  ASSUME Typed, LoopStep \/ LoopFails \/ Crash
  PROVE  Typed'
<1> USE DEF Typed
<1>1. /\ height \in Nat /\ Len(chain) \in Nat /\ DOMAIN chain = 1..Len(chain)
      /\ \A i \in 1..Len(chain) : chain[i].block \in 1..height
      /\ MaxFaults \in Nat
  BY ChainType, BoundsAssumption
<1>2. Fault \/ NoFault => faults' \in 0..MaxFaults
  BY <1>1 DEF Fault, NoFault, TypeOK
<1>3. pc \in {"storing", "stored"} => Event \in 1..Len(chain) /\ chain[Event].block \in Blocks
  <2>1. pc \in {"storing", "stored"} => Event \in 1..Len(chain)
    BY <1>1 DEF HasRead, TypeOK, Event
  <2>2. 1..height \subseteq Blocks
    BY <1>1, BoundsAssumption DEF TypeOK, Blocks
  <2> QED BY <1>1, <2>1, <2>2
<1>a. \A a, b \in Blocks : Maximum(a, b) \in Blocks
  BY DEF Maximum
<1>b. 0 \in Blocks
  BY BoundsAssumption DEF Blocks
<1> USE DEF TypeOK, HasRead, fabric, tables, loop, resetting
<1>4. CASE loadCheckpoint
  BY <1>2, <1>4 DEF loadCheckpoint
<1>5. CASE getChaincodeEvents
  BY <1>1, <1>2, <1>5, <1>a, <1>b DEF getChaincodeEvents
<1>6. CASE Connected
  BY <1>2, <1>6 DEF Connected
<1>7. ASSUME NEW e \in DOMAIN chain, ReadEvent(e) PROVE Typed'
  <2>1. next' \in 1..(Len(chain) + 1) /\ next' >= 2
    BY <1>1, <1>7, Passed
  <2> QED BY <1>2, <1>7, <2>1 DEF ReadEvent, decodeEvent
<1>8. CASE StoreEvent
  <2>1. stored' \subseteq DOMAIN chain /\ checkpoint' \in Blocks
    BY <1>1, <1>3, <1>8, <1>a DEF StoreEvent, Inserted, Advanced
  <2>2. doomed \subseteq stored'
    BY <1>8 DEF StoreEvent, Inserted
  <2> QED BY <1>2, <1>8, <2>1, <2>2 DEF StoreEvent
<1>9. CASE RememberEvent
  <2>1. last' \in Blocks
    BY <1>1, <1>3, <1>9, <1>a DEF RememberEvent
  <2> QED BY <1>2, <1>9, <2>1 DEF RememberEvent
<1>10. CASE LoopFails
  BY <1>2, <1>10 DEF LoopFails, AfterError
<1>11. CASE Crash
  <2>1. rebuild' \in [at: {"idle", "deleting", "committing", "resetting"}, from: Blocks]
    BY <1>11, <1>b DEF Crash, NotRebuilding
  <2> QED BY <1>2, <1>11, <2>1 DEF Crash
<1> QED BY <1>4, <1>5, <1>6, <1>7, <1>8, <1>9, <1>10, <1>11 DEF LoopStep

\* Nor does a replay, from whatever block.
LEMMA TypedRebuild ==
  ASSUME Typed, Rebuild
  PROVE  Typed'
<1> USE DEF Typed
<1>1. height \in Nat /\ MaxFaults \in Nat /\ MaxRebuilds \in Nat /\ 0 \in Blocks
  BY ChainType, BoundsAssumption DEF Blocks
<1> USE DEF TypeOK, HasRead, Fault, NoFault, fabric, tables, loop, resetting
<1>2. ASSUME NEW from \in Blocks, rebuildProjections(from) PROVE Typed'
  <2>1. rebuilds' \in 0..MaxRebuilds /\ asked' \in Blocks
    BY <1>1, <1>2 DEF rebuildProjections, Maximum
  <2>2. rebuild' \in [at: {"idle", "deleting", "committing", "resetting"}, from: Blocks]
    BY <1>2 DEF rebuildProjections
  <2> QED BY <1>2, <2>1, <2>2 DEF rebuildProjections
<1>3. CASE DeleteEvents
  BY <1>3 DEF DeleteEvents
<1>4. CASE CommitRebuild
  <2>1. rebuild' \in [at: {"idle", "deleting", "committing", "resetting"}, from: Blocks]
    BY <1>1, <1>4 DEF CommitRebuild, NotRebuilding
  <2>2. faults' \in 0..MaxFaults /\ checkpoint' \in Blocks
    BY <1>1, <1>4 DEF CommitRebuild
  <2> QED BY <1>4, <2>1, <2>2 DEF CommitRebuild
<1>5. CASE ResetMemory
  BY <1>1, <1>5 DEF ResetMemory, NotRebuilding
<1>6. CASE RebuildFails
  BY <1>1, <1>6 DEF RebuildFails, NotRebuilding
<1>7. CASE StreamEnds
  BY <1>7 DEF StreamEnds
<1> QED BY <1>2, <1>3, <1>4, <1>5, <1>6, <1>7 DEF Rebuild

\* Four kinds of steps.
LEMMA Steps ==
  ASSUME Typed, Ordered, [Next \/ Rebuild]_vars
  PROVE  \/ Extended /\ UNCHANGED <<tables, loop, resetting, faults>>
         \/ UNCHANGED fabric /\ (LoopStep \/ LoopFails \/ Crash)
         \/ UNCHANGED fabric /\ Rebuild
         \/ UNCHANGED vars
<1>1. ASSUME NEW n \in 0..MaxEvents, NEW valids \in [1..n -> Validity], CommitBlock(valids)
      PROVE  Extended /\ UNCHANGED <<tables, loop, resetting, faults>>
  BY <1>1, CommitExtends DEF Typed, CommitBlock
<1>2. LoopStep \/ LoopFails \/ Crash => UNCHANGED fabric
  BY DEF LoopStep, LoopFails, Crash, loadCheckpoint, getChaincodeEvents, Connected,
         ReadEvent, StoreEvent, RememberEvent
<1>3. Rebuild => UNCHANGED fabric
  BY DEF Rebuild, rebuildProjections, StreamEnds, DeleteEvents, CommitRebuild, ResetMemory,
         RebuildFails
<1> QED BY <1>1, <1>2, <1>3 DEF Next

\* Types and the order of the channel are inductive together.
LEMMA TypedStep == Typed /\ Ordered /\ [Next \/ Rebuild]_vars => Typed' /\ Ordered'
<1> SUFFICES ASSUME Typed, Ordered, [Next \/ Rebuild]_vars PROVE Typed' /\ Ordered'
  OBVIOUS
<1>1. CASE Extended /\ UNCHANGED <<tables, loop, resetting, faults>>
  BY <1>1, TypedCommit, ExtendedOrder DEF Typed
<1>2. UNCHANGED fabric => Ordered'
  BY DEF Ordered, fabric
<1>3. CASE UNCHANGED vars
  BY <1>2, <1>3 DEF vars, Typed, TypeOK, HasRead, fabric, tables, loop, resetting
<1> QED BY <1>1, <1>2, <1>3, Steps, TypedLoop, TypedRebuild

\* The empty channel is in order.
LEMMA OrderedInit == Init => Ordered
BY DEF Init, Ordered

\* Every variable keeps its type; the stream never runs past the channel.
THEOREM TypeCorrect == ReplaySpec => []TypeOK
<1>1. Typed => TypeOK
  BY DEF Typed
<1> QED BY <1>1, TypedInit, OrderedInit, TypedStep, PTL DEF ReplaySpec
-----------------------------------------------------------------------------
(***************************************************************************)
(* Nothing past an event that could not be read.  A replay may be asked to *)
(* start past such an event; it is the only way around it.  A block is a   *)
(* place to resume from only when each event below it could be read or was *)
(* passed over like this; so was all that the stream has delivered, until  *)
(* the loop halts.                                                         *)
(***************************************************************************)
PassedOver(j) == chain[j].valid \/ chain[j].block < asked

\* An event that could not be read stops the index for good: neither a restart
\* nor a replay ever puts an event in it that comes at or after that one, which
\* would show the auditors a history with a hole, unless the replay was asked
\* to start from a later block.
NothingPastUnreadable ==
  \A i \in stored : \A j \in 1..i : PassedOver(j)

Resumable(block) ==
  /\ block <= height \/ block <= asked
  /\ \A i \in DOMAIN chain : chain[i].block < block => PassedOver(i)

ResumableBlocks == \A b \in {checkpoint, last, start, rebuild.from} : Resumable(b)

DeliveredReadable ==
  pc \in {"connecting", "reading", "storing", "stored"} =>
    \A j \in 1..(next - 1) : PassedOver(j)

Intact == NothingPastUnreadable /\ ResumableBlocks /\ DeliveredReadable

\* A place to resume from stays one, and so does the beginning.
LEMMA StaysResumable ==
  ASSUME Typed, chain' = chain, height' = height, asked' \in Nat, asked <= asked',
         NEW b \in Blocks, Resumable(b)
  PROVE  Resumable(b)'
<1>1. /\ asked \in Nat /\ height \in Nat /\ b \in Nat
      /\ \A i \in DOMAIN chain : chain[i].block \in Nat
  BY ChainType, BlockTypes DEF Typed
<1> QED BY <1>1 DEF Resumable, PassedOver

\* A new block is at or above the blocks that the indexer knows, or below one
\* that a replay was asked from.
LEMMA IntactCommit ==
  ASSUME Typed, Intact, Extended, UNCHANGED <<tables, loop, resetting, faults>>
  PROVE  Intact'
<1>1. /\ Len(chain) \in Nat /\ DOMAIN chain = 1..Len(chain)
      /\ Len(chain') \in Nat /\ DOMAIN chain' = 1..Len(chain')
      /\ height \in Nat /\ height' = height + 1 /\ MaxHeight \in Nat
      /\ TypeOK
  BY ChainType, LenProperties, BoundsAssumption DEF Extended, Typed
<1>2. UNCHANGED <<stored, checkpoint, last, pc, start, next, rebuild, asked>>
  BY DEF tables, loop, resetting
<1>3. asked \in Nat /\ {checkpoint, last, start, rebuild.from} \subseteq Nat
  BY <1>1 DEF TypeOK, Blocks
<1>4. ASSUME NEW j \in 1..Len(chain), PassedOver(j) PROVE PassedOver(j)'
  BY <1>2, <1>4 DEF PassedOver, Extended
<1>5. ASSUME NEW b \in Nat, Resumable(b) PROVE Resumable(b)'
  <2>1. b <= height' \/ b <= asked'
    BY <1>1, <1>2, <1>5 DEF Resumable
  <2>2. ASSUME NEW i \in 1..Len(chain'), chain'[i].block < b PROVE PassedOver(i)'
    <3>1. CASE i \in 1..Len(chain)
      BY <1>1, <1>4, <1>5, <2>2, <3>1 DEF Resumable, Extended
    <3>2. CASE i > Len(chain)
      <4>1. chain'[i].block = height + 1
        BY <1>1, <3>2 DEF Extended
      <4>2. b <= asked
        BY <1>1, <1>5, <2>2, <4>1 DEF Resumable
      <4> QED BY <1>1, <1>2, <1>3, <1>5, <2>2, <4>1, <4>2 DEF PassedOver
    <3> QED BY <1>1, <3>1, <3>2
  <2> QED BY <1>1, <2>1, <2>2 DEF Resumable
<1>6. ResumableBlocks'
  <2>1. \A b \in {checkpoint, last, start, rebuild.from} : Resumable(b)'
    BY <1>3, <1>5 DEF Intact, ResumableBlocks
  <2>2. Resumable(checkpoint)' /\ Resumable(last)' /\ Resumable(start)' /\ Resumable(rebuild.from)'
    BY <1>2, <2>1 DEF Resumable, PassedOver
  <2> QED BY <2>2 DEF ResumableBlocks
<1>7. NothingPastUnreadable'
  <2> SUFFICES ASSUME NEW i \in stored, NEW j \in 1..i PROVE PassedOver(j)'
    BY <1>2 DEF NothingPastUnreadable
  <2>1. i \in 1..Len(chain) /\ j \in 1..Len(chain)
    BY <1>1 DEF TypeOK
  <2> QED BY <1>4, <2>1 DEF Intact, NothingPastUnreadable
<1>8. DeliveredReadable'
  <2>1. \A j \in 1..(next - 1) : j \in 1..Len(chain)
    BY <1>1 DEF TypeOK
  <2> QED BY <1>2, <1>4, <2>1 DEF Intact, DeliveredReadable
<1> QED BY <1>6, <1>7, <1>8 DEF Intact

\* The loop remembers only blocks of events it has stored.
LEMMA IntactLoop ==
  ASSUME Typed, Ordered, Intact, UNCHANGED fabric, LoopStep \/ LoopFails \/ Crash
  PROVE  Intact'
<1>1. /\ Len(chain) \in Nat /\ DOMAIN chain = 1..Len(chain) /\ height \in Nat
      /\ \A i \in 1..Len(chain) : chain[i].block \in 1..height
      /\ TypeOK
  BY ChainType DEF Typed
<1>2. chain' = chain /\ height' = height
  BY DEF fabric
<1>a. asked' = asked
  BY <1>2 DEF LoopStep, LoopFails, Crash, loadCheckpoint, getChaincodeEvents, Connected, ReadEvent,
              StoreEvent, RememberEvent, resetting, PassedOver
<1>b. \A b : Resumable(b)' <=> Resumable(b)
  BY <1>2, <1>a DEF Resumable, PassedOver
<1>3. pc \in {"storing", "stored"} => Event \in 1..Len(chain) /\ next - 1 = Event
  BY <1>1 DEF HasRead, TypeOK, Event, Typed
<1>4. ASSUME pc \in {"storing", "stored"}, NEW b \in Blocks, Resumable(b)
      PROVE  Resumable(Maximum(b, chain[Event].block))
  <2>1. ASSUME NEW i \in DOMAIN chain, chain[i].block < chain[Event].block
        PROVE  PassedOver(i)
    <3>1. i \in 1..(Event - 1)
      BY <1>1, <1>3, <1>4, <2>1, Earlier
    <3>2. i \in 1..(next - 1)
      BY <1>1, <1>3, <1>4, <3>1 DEF TypeOK
    <3> QED BY <1>4, <3>2 DEF Intact, DeliveredReadable
  <2>2. chain[Event].block <= height
    BY <1>1, <1>3, <1>4
  <2> QED BY <1>1, <1>4, <2>1, <2>2 DEF Resumable, Maximum
<1>5. checkpoint \in Blocks /\ last \in Blocks /\ next \in Nat /\ Blocks \subseteq Nat
  BY <1>1 DEF TypeOK, Blocks
<1>c. Resumable(0)
  BY <1>1 DEF Resumable
<1> USE DEF Intact, tables, loop, resetting
<1>6. CASE loadCheckpoint
  BY <1>2, <1>6, <1>a, <1>b DEF loadCheckpoint, NothingPastUnreadable, ResumableBlocks, DeliveredReadable, PassedOver
<1>7. CASE getChaincodeEvents
  <2>1. start' = last /\ \A j \in 1..(next' - 1) : FALSE
    BY <1>5, <1>7 DEF getChaincodeEvents, Maximum
  <2>2. DeliveredReadable'
    BY <2>1 DEF DeliveredReadable
  <2>3. ResumableBlocks'
    BY <1>7, <1>b, <2>1 DEF getChaincodeEvents, ResumableBlocks
  <2> QED BY <1>2, <1>7, <1>a, <2>2, <2>3 DEF getChaincodeEvents, NothingPastUnreadable, PassedOver
<1>8. CASE Connected
  BY <1>2, <1>8, <1>a, <1>b DEF Connected, NothingPastUnreadable, ResumableBlocks, DeliveredReadable, PassedOver
<1>9. ASSUME NEW e \in DOMAIN chain, ReadEvent(e) PROVE Intact'
  <2>1. /\ e \in 1..Len(chain) /\ next <= e /\ next' = e + 1 /\ pc = "reading"
        /\ \A j \in next..(e - 1) : j \in 1..Len(chain) /\ chain[j].block < start
    BY <1>1, <1>9, Passed
  <2>2. pc' \in {"storing", "halted"} /\ (pc' = "storing" => chain[e].valid)
    BY <1>9 DEF ReadEvent, decodeEvent
  <2>3. ASSUME pc' = "storing", NEW j \in 1..e PROVE PassedOver(j)
    <3>1. CASE j \in 1..(next - 1)
      BY <2>1, <3>1 DEF DeliveredReadable
    <3>2. CASE j \in next..(e - 1)
      BY <1>1, <2>1, <3>2 DEF ResumableBlocks, Resumable
    <3>3. CASE j = e
      BY <2>2, <2>3, <3>3 DEF PassedOver
    <3> QED BY <1>5, <2>1, <3>1, <3>2, <3>3
  <2>4. DeliveredReadable'
    <3>1. pc' = "storing" => \A j \in 1..(next' - 1) : PassedOver(j)
      BY <2>1, <2>3
    <3> QED BY <1>2, <1>a, <2>2, <3>1 DEF DeliveredReadable, PassedOver
  <2> QED BY <1>2, <1>9, <1>a, <1>b, <2>4 DEF ReadEvent, NothingPastUnreadable, ResumableBlocks, PassedOver
<1>10. CASE StoreEvent
  <2>1. pc = "storing" /\ pc' \in {"stored", "opening"} /\ UNCHANGED <<last, start, next, rebuild>>
    BY <1>10 DEF StoreEvent
  <2>2. Resumable(checkpoint')
    BY <1>4, <1>5, <1>10, <2>1 DEF StoreEvent, Advanced, ResumableBlocks
  <2>3. \A j \in 1..Event : PassedOver(j)
    BY <1>3, <2>1 DEF DeliveredReadable
  <2>4. NothingPastUnreadable'
    BY <1>2, <1>10, <1>a, <2>3 DEF StoreEvent, Inserted, NothingPastUnreadable, PassedOver
  <2>5. DeliveredReadable'
    BY <1>2, <1>a, <2>1 DEF DeliveredReadable, PassedOver
  <2>6. ResumableBlocks'
    BY <1>b, <2>1, <2>2 DEF ResumableBlocks
  <2> QED BY <2>4, <2>5, <2>6
<1>11. CASE RememberEvent
  <2>1. pc = "stored" /\ pc' = "reading" /\ UNCHANGED <<stored, checkpoint, start, next, rebuild>>
    BY <1>11 DEF RememberEvent
  <2>2. Resumable(last')
    BY <1>4, <1>5, <1>11, <2>1 DEF RememberEvent, ResumableBlocks
  <2>3. ResumableBlocks'
    BY <1>b, <2>1, <2>2 DEF ResumableBlocks
  <2> QED BY <1>2, <1>a, <2>1, <2>3 DEF NothingPastUnreadable, DeliveredReadable, PassedOver
<1>12. CASE LoopFails
  BY <1>2, <1>12, <1>a, <1>b
    DEF LoopFails, AfterError, NothingPastUnreadable, ResumableBlocks, DeliveredReadable, PassedOver
<1>13. CASE Crash
  <2>1. rebuild'.from = 0 /\ UNCHANGED <<stored, checkpoint, last, start, next>> /\ pc' = "down"
    BY <1>13 DEF Crash, NotRebuilding
  <2>2. ResumableBlocks'
    BY <1>b, <1>c, <2>1 DEF ResumableBlocks
  <2> QED BY <1>2, <1>a, <2>1, <2>2 DEF NothingPastUnreadable, DeliveredReadable, PassedOver
<1> QED BY <1>6, <1>7, <1>8, <1>9, <1>10, <1>11, <1>12, <1>13 DEF LoopStep

\* A replay is asked from a block that then counts as asked; it only deletes.
LEMMA IntactRebuild ==
  ASSUME Typed, Intact, UNCHANGED fabric, Rebuild
  PROVE  Intact'
<1>1. /\ \A i \in DOMAIN chain : chain[i].block \in Nat
      /\ height \in Nat /\ asked \in Nat /\ TypeOK /\ Blocks \subseteq Nat /\ 0 \in Blocks
  BY ChainType, BlockTypes DEF Typed
<1>2. chain' = chain /\ height' = height
  BY DEF fabric
<1>3. Resumable(0)
  BY <1>1 DEF Resumable
<1>4. /\ {checkpoint, last, start, rebuild.from} \subseteq Blocks
      /\ \A b \in {checkpoint, last, start, rebuild.from} : Resumable(b)
  BY <1>1 DEF TypeOK, Intact, ResumableBlocks
<1>5. ASSUME NEW from \in Blocks, rebuildProjections(from) PROVE Intact'
  <2>1. /\ UNCHANGED <<stored, checkpoint, last, pc, start, next>>
        /\ rebuild'.from = from /\ asked' \in Nat /\ asked' >= asked /\ asked' >= from
    BY <1>1, <1>5 DEF rebuildProjections, Maximum, tables
  <2>2. \A b \in Blocks : Resumable(b) => Resumable(b)'
    BY <1>2, <2>1, StaysResumable
  <2>3. \A i \in DOMAIN chain : PassedOver(i) => PassedOver(i)'
    BY <1>1, <1>2, <2>1 DEF PassedOver
  <2>4. Resumable(from)'
    BY <1>1, <1>2, <2>1 DEF Resumable, PassedOver
  <2>5. ResumableBlocks'
    <3>1. Resumable(checkpoint)' /\ Resumable(last)' /\ Resumable(start)'
      <4>1. \A b \in {checkpoint, last, start} : Resumable(b)'
        BY <1>4, <2>2
      <4> QED BY <2>1, <4>1 DEF Resumable, PassedOver
    <3>2. Resumable(rebuild.from)'
      BY <2>1, <2>4 DEF Resumable, PassedOver
    <3> QED BY <3>1, <3>2 DEF ResumableBlocks
  <2>6. NothingPastUnreadable'
    <3>1. \A i \in stored : \A j \in 1..i : j \in DOMAIN chain
      <4>1. DOMAIN chain = 1..Len(chain) /\ Len(chain) \in Nat /\ stored \subseteq DOMAIN chain
        BY <1>1, ChainType DEF TypeOK
      <4> QED BY <4>1
    <3> QED BY <2>1, <2>3, <3>1 DEF Intact, NothingPastUnreadable
  <2>7. DeliveredReadable'
    <3>1. \A j \in 1..(next - 1) : j \in DOMAIN chain
      <4>1. DOMAIN chain = 1..Len(chain) /\ Len(chain) \in Nat /\ next \in 1..(Len(chain) + 1)
        BY <1>1, ChainType DEF TypeOK
      <4> QED BY <4>1
    <3> QED BY <2>1, <2>3, <3>1 DEF Intact, DeliveredReadable
  <2> QED BY <2>5, <2>6, <2>7 DEF Intact
<1>6. ASSUME DeleteEvents \/ CommitRebuild \/ ResetMemory \/ RebuildFails PROVE Intact'
  <2>1. asked' = asked /\ UNCHANGED <<pc, start, next>>
    BY <1>6 DEF DeleteEvents, CommitRebuild, ResetMemory, RebuildFails, loop
  <2>2. \A b : Resumable(b)' <=> Resumable(b)
    BY <1>2, <2>1 DEF Resumable, PassedOver
  <2>3. stored' \subseteq stored
    BY <1>6 DEF DeleteEvents, CommitRebuild, ResetMemory, RebuildFails, tables
  <2>4. {checkpoint', last', rebuild'.from} \subseteq {0, checkpoint, last, rebuild.from}
    <3>1. CASE DeleteEvents
      BY <1>1, <3>1 DEF DeleteEvents, tables, loop, TypeOK
    <3>2. CASE CommitRebuild
      BY <1>1, <3>2 DEF CommitRebuild, loop, TypeOK, NotRebuilding
    <3>3. CASE ResetMemory
      BY <1>1, <3>3 DEF ResetMemory, tables, NotRebuilding
    <3>4. CASE RebuildFails
      BY <1>1, <3>4 DEF RebuildFails, tables, loop, NotRebuilding
    <3> QED BY <1>6, <3>1, <3>2, <3>3, <3>4
  <2>5. ResumableBlocks'
    BY <1>3, <1>4, <2>1, <2>2, <2>4 DEF ResumableBlocks
  <2>6. NothingPastUnreadable' /\ DeliveredReadable'
    BY <1>2, <2>1, <2>3 DEF Intact, NothingPastUnreadable, DeliveredReadable, PassedOver
  <2> QED BY <2>5, <2>6 DEF Intact
<1>7. CASE StreamEnds
  <2>1. \A b : Resumable(b)' <=> Resumable(b)
    BY <1>2, <1>7 DEF StreamEnds, resetting, Resumable, PassedOver
  <2> QED BY <1>2, <1>7, <2>1 DEF StreamEnds, tables, resetting, Intact, NothingPastUnreadable,
                                  ResumableBlocks, DeliveredReadable, PassedOver
<1> QED BY <1>5, <1>6, <1>7 DEF Rebuild

\* At the beginning nothing has been delivered.
LEMMA IntactInit == Init => Intact
BY DEF Init, Intact, NothingPastUnreadable, ResumableBlocks, Resumable, DeliveredReadable, NotRebuilding

\* Every step keeps what the index ends with.
LEMMA IntactStep == Typed /\ Ordered /\ Intact /\ [Next \/ Rebuild]_vars => Intact'
<1> SUFFICES ASSUME Typed, Ordered, Intact, [Next \/ Rebuild]_vars PROVE Intact'
  OBVIOUS
<1>1. CASE UNCHANGED vars
  BY <1>1 DEF vars, fabric, tables, loop, resetting, Intact, NothingPastUnreadable,
              ResumableBlocks, Resumable, DeliveredReadable, PassedOver
<1> QED BY <1>1, Steps, IntactCommit, IntactLoop, IntactRebuild

\* An event that could not be read is the end of the index, through restarts,
\* broken streams, lost acknowledgements and any number of replays, but for the
\* replays that are asked to start past it.
THEOREM EndsAtUnreadable == ReplaySpec => []NothingPastUnreadable
<1>1. Intact => NothingPastUnreadable
  BY DEF Intact
<1> QED BY <1>1, TypedInit, OrderedInit, IntactInit, TypedStep, IntactStep, PTL DEF ReplaySpec
-----------------------------------------------------------------------------
(***************************************************************************)
(* Without replays: no gaps.  What the stream has delivered is stored, and *)
(* the place to resume from is never past what is stored.                  *)
(***************************************************************************)
NoReplay == doomed = {} /\ asked = 0 /\ checkpoint <= height

NothingMissing == \A i \in DOMAIN chain : chain[i].block < checkpoint => i \in stored

NoGap == \A i \in stored : \A j \in 1..i : j \in stored

DeliveredStored ==
  /\ pc \in {"connecting", "reading", "stored"} => \A j \in 1..(next - 1) : j \in stored
  /\ pc = "storing" => \A j \in 1..(Event - 1) : j \in stored

RemembersStored ==
  /\ last <= checkpoint /\ start <= checkpoint
  /\ pc = "stored" => chain[Event].block <= checkpoint

Complete == NoReplay /\ NoGap /\ DeliveredStored /\ RemembersStored /\ NothingMissing

\* Three kinds of steps without replays.
LEMMA PlainSteps ==
  ASSUME Typed, Ordered, [Next]_vars
  PROVE  \/ Extended /\ UNCHANGED <<tables, loop, resetting, faults>>
         \/ UNCHANGED fabric /\ (LoopStep \/ LoopFails \/ Crash)
         \/ UNCHANGED vars
<1>1. ASSUME NEW n \in 0..MaxEvents, NEW valids \in [1..n -> Validity], CommitBlock(valids)
      PROVE  Extended /\ UNCHANGED <<tables, loop, resetting, faults>>
  BY <1>1, CommitExtends DEF Typed, CommitBlock
<1>2. LoopStep \/ LoopFails \/ Crash => UNCHANGED fabric
  BY DEF LoopStep, LoopFails, Crash, loadCheckpoint, getChaincodeEvents, Connected,
         ReadEvent, StoreEvent, RememberEvent
<1> QED BY <1>1, <1>2 DEF Next

\* They are among the steps with replays.
LEMMA PlainStep ==
  Typed /\ Ordered /\ Intact /\ [Next]_vars => Typed' /\ Ordered' /\ Intact'
BY TypedStep, IntactStep

\* At the beginning there is nothing to cover.
LEMMA CompleteInit == Init => Complete
BY DEF Init, Complete, NoReplay, NoGap, DeliveredStored, RemembersStored, NothingMissing

\* The events of a new block are not below the checkpoint.
LEMMA CompleteCommit ==
  ASSUME Typed, Complete, Extended, UNCHANGED <<tables, loop, resetting, faults>>
  PROVE  Complete'
<1>1. /\ Len(chain) \in Nat /\ DOMAIN chain = 1..Len(chain)
      /\ Len(chain') \in Nat /\ DOMAIN chain' = 1..Len(chain')
      /\ height \in Nat /\ TypeOK
  BY ChainType, LenProperties DEF Extended, Typed
<1>2. UNCHANGED <<stored, checkpoint, last, start, pc, next, doomed, asked>>
  BY DEF tables, loop, resetting
<1>3. NothingMissing'
  <2> SUFFICES ASSUME NEW i \in 1..Len(chain'), chain'[i].block < checkpoint PROVE i \in stored
    BY <1>1, <1>2 DEF NothingMissing
  <2>1. ASSUME i > Len(chain) PROVE FALSE
    <3>1. checkpoint <= height /\ checkpoint \in Nat
      BY <1>1 DEF TypeOK, Blocks, Complete, NoReplay
    <3>2. chain'[i].block = height + 1
      BY <2>1 DEF Extended
    <3> QED BY <1>1, <3>1, <3>2
  <2>2. i \in 1..Len(chain)
    BY <1>1, <2>1
  <2> QED BY <1>1, <2>2 DEF Complete, NothingMissing, Extended
<1>4. RemembersStored'
  <2>1. pc = "stored" => chain'[Event] = chain[Event] /\ Event' = Event
    <3>1. pc = "stored" => Event \in 1..Len(chain)
      BY <1>1 DEF Typed, HasRead, TypeOK, Event
    <3>2. Event' = Event
      BY <1>2 DEF Event
    <3> QED BY <3>1, <3>2 DEF Extended
  <2> QED BY <1>2, <2>1 DEF Complete, RemembersStored
<1>5. NoReplay'
  BY <1>1, <1>2 DEF Complete, NoReplay, Extended, TypeOK, Blocks
<1> QED BY <1>2, <1>3, <1>4, <1>5 DEF Complete, NoGap, DeliveredStored, Event

\* An event is stored after all that come before it.
LEMMA StoredInOrder ==
  ASSUME Typed, Ordered, Complete, UNCHANGED fabric, StoreEvent
  PROVE  /\ Event \in 1..Len(chain)
         /\ \A j \in 1..(Event - 1) : j \in stored
         /\ stored' = stored \cup {Event}
         /\ Event \notin stored => stored = 1..(Event - 1) /\ stored' = 1..Event
<1>1. Len(chain) \in Nat /\ DOMAIN chain = 1..Len(chain) /\ TypeOK /\ pc = "storing"
  BY ChainType DEF Typed, StoreEvent
<1>2. Event \in 1..Len(chain)
  BY <1>1 DEF Typed, HasRead, TypeOK, Event
<1>3. \A j \in 1..(Event - 1) : j \in stored
  BY <1>1 DEF Complete, DeliveredStored
<1>4. stored' = stored \cup {Event}
  BY DEF StoreEvent, Inserted
<1>5. ASSUME Event \notin stored PROVE stored = 1..(Event - 1) /\ stored' = 1..Event
  <2>1. ASSUME NEW i \in stored PROVE i \in 1..(Event - 1)
    <3>1. i \in 1..Len(chain)
      BY <1>1 DEF TypeOK
    <3>2. ~(Event \in 1..i)
      BY <1>5 DEF Complete, NoGap
    <3> QED BY <1>2, <3>1, <3>2
  <2>2. stored = 1..(Event - 1)
    BY <1>3, <2>1
  <2> QED BY <1>2, <1>4, <2>2
<1> QED BY <1>2, <1>3, <1>4, <1>5

\* The loop resumes at or before the first event it has not stored.
LEMMA CompleteLoop ==
  ASSUME Typed, Ordered, Complete, UNCHANGED fabric, LoopStep \/ LoopFails \/ Crash
  PROVE  Complete'
<1>1. /\ Len(chain) \in Nat /\ DOMAIN chain = 1..Len(chain) /\ height \in Nat
      /\ \A i \in 1..Len(chain) : chain[i].block \in 1..height
      /\ TypeOK
  BY ChainType DEF Typed
<1>2. chain' = chain /\ height' = height
  BY DEF fabric
<1>3. checkpoint \in Nat /\ last \in Nat /\ start \in Nat /\ next \in Nat
  BY <1>1 DEF TypeOK, Blocks
<1> USE DEF Complete, tables, loop, resetting
<1>4. CASE loadCheckpoint
  BY <1>2, <1>3, <1>4 DEF loadCheckpoint, NoReplay, NoGap, DeliveredStored, RemembersStored, NothingMissing
<1>5. CASE getChaincodeEvents
  <2>1. start' = last /\ \A j \in 1..(next' - 1) : FALSE
    BY <1>3, <1>5 DEF getChaincodeEvents, Maximum
  <2> QED BY <1>2, <1>5, <2>1
        DEF getChaincodeEvents, NoReplay, NoGap, DeliveredStored, RemembersStored, NothingMissing
<1>6. CASE Connected
  BY <1>2, <1>6 DEF Connected, NoReplay, NoGap, DeliveredStored, RemembersStored, NothingMissing
<1>7. ASSUME NEW e \in DOMAIN chain, ReadEvent(e) PROVE Complete'
  <2>1. /\ e \in 1..Len(chain) /\ next <= e /\ next' = e + 1 /\ pc = "reading"
        /\ \A j \in next..(e - 1) : j \in 1..Len(chain) /\ chain[j].block < start
    BY <1>1, <1>7, Passed
  <2>2. pc' \in {"storing", "halted"} /\ UNCHANGED <<stored, checkpoint, last, start, doomed, asked>>
    BY <1>7 DEF ReadEvent, decodeEvent
  <2>3. ASSUME NEW j \in 1..(e - 1) PROVE j \in stored
    <3>1. CASE j \in 1..(next - 1)
      BY <2>1, <3>1 DEF DeliveredStored
    <3>2. CASE j \in next..(e - 1)
      BY <1>1, <1>3, <2>1, <3>2 DEF RemembersStored, NothingMissing
    <3> QED BY <1>3, <2>1, <3>1, <3>2
  <2>4. DeliveredStored'
    <3>1. Event' = e
      BY <2>1 DEF Event
    <3> QED BY <2>2, <2>3, <3>1 DEF DeliveredStored
  <2> QED BY <1>2, <2>2, <2>4 DEF NoReplay, NoGap, RemembersStored, NothingMissing
<1>8. CASE StoreEvent
  <2>1. /\ pc = "storing" /\ pc' \in {"stored", "opening"}
        /\ UNCHANGED <<last, start, next, doomed, asked>>
        /\ Event' = Event /\ next - 1 = Event
    BY <1>8 DEF StoreEvent, Event
  <2>2. /\ Event \in 1..Len(chain) /\ stored' = stored \cup {Event}
        /\ \A j \in 1..(Event - 1) : j \in stored
    BY <1>8, StoredInOrder
  <2>3. /\ checkpoint' \in {checkpoint, chain[Event].block}
        /\ checkpoint' >= checkpoint /\ checkpoint' >= chain[Event].block
    BY <1>1, <1>3, <1>8, <2>2 DEF StoreEvent, Advanced, Maximum
  <2>4. NothingMissing'
    <3> SUFFICES ASSUME NEW i \in DOMAIN chain, chain[i].block < checkpoint' PROVE i \in stored'
      BY <1>2 DEF NothingMissing
    <3>1. CASE chain[i].block < checkpoint
      BY <2>2, <3>1 DEF NothingMissing
    <3>2. CASE chain[i].block < chain[Event].block
      BY <1>1, <2>2, <3>2, Earlier
    <3> QED BY <2>3, <3>1, <3>2
  <2>5. \A j \in 1..Event : j \in stored'
    BY <2>2
  <2>6. NoGap'
    BY <2>2, <2>5 DEF NoGap
  <2>7. DeliveredStored'
    BY <2>1, <2>5 DEF DeliveredStored
  <2>8. RemembersStored'
    BY <1>1, <1>2, <1>3, <2>1, <2>2, <2>3 DEF RemembersStored
  <2>9. NoReplay'
    BY <1>1, <1>2, <2>1, <2>2, <2>3 DEF NoReplay
  <2> QED BY <2>4, <2>6, <2>7, <2>8, <2>9
<1>9. CASE RememberEvent
  <2>1. /\ pc = "stored" /\ pc' = "reading"
        /\ UNCHANGED <<stored, checkpoint, start, next, doomed, asked>>
    BY <1>9 DEF RememberEvent
  <2>2. last' <= checkpoint
    BY <1>9, <2>1 DEF RememberEvent, Maximum, RemembersStored
  <2> QED BY <1>2, <2>1, <2>2 DEF NoReplay, NoGap, DeliveredStored, RemembersStored, NothingMissing
<1>10. CASE LoopFails
  BY <1>2, <1>10
    DEF LoopFails, AfterError, NoReplay, NoGap, DeliveredStored, RemembersStored, NothingMissing
<1>11. CASE Crash
  BY <1>2, <1>11 DEF Crash, NoReplay, NoGap, DeliveredStored, RemembersStored, NothingMissing
<1> QED BY <1>4, <1>5, <1>6, <1>7, <1>8, <1>9, <1>10, <1>11 DEF LoopStep

\* Every step but those of a replay keeps the index complete.
LEMMA CompleteStep == Typed /\ Ordered /\ Complete /\ [Next]_vars => Complete'
<1> SUFFICES ASSUME Typed, Ordered, Complete, [Next]_vars PROVE Complete'
  OBVIOUS
<1>1. CASE UNCHANGED vars
  BY <1>1 DEF vars, fabric, tables, loop, resetting, Complete, NoReplay, NoGap,
              DeliveredStored, RemembersStored, NothingMissing, Event
<1> QED BY <1>1, PlainSteps, CompleteCommit, CompleteLoop

\* Without replays nothing below the checkpoint is ever missing from the index.
THEOREM CheckpointSafe == Spec => []CheckpointCovers
<1>1. Complete => CheckpointCovers
  BY DEF Complete, NothingMissing, CheckpointCovers
<1> QED BY <1>1, TypedInit, OrderedInit, IntactInit, CompleteInit, PlainStep, CompleteStep, PTL DEF Spec
-----------------------------------------------------------------------------
(***************************************************************************)
(* The refinement: a new block is Grow, the first storing of an event is   *)
(* Index, and everything else, storing it again included, is a stutter.    *)
(***************************************************************************)

\* The old channel is the beginning of the new one.
LEMMA GrowsAtEnd ==
  ASSUME Typed, Extended, UNCHANGED stored
  PROVE  AuditBook!Grow
<1> DEFINE T == [block: 1..height', valid: BOOLEAN]
<1> DEFINE n == Len(chain)
<1> DEFINE old == SubSeq(chain', 1, n)
<1>1. /\ n \in Nat /\ chain \in Seq(T) /\ chain' \in Seq(T) /\ Len(chain') \in Nat
  <2>1. height \in Nat /\ Len(chain) \in Nat
    BY ChainType DEF Typed
  <2>2. [block: 1..height, valid: BOOLEAN] \subseteq T
    BY <2>1 DEF Extended
  <2> QED BY <2>1, <2>2, SeqMonotonic, LenProperties DEF Extended, Typed, TypeOK
<1>2. n <= Len(chain') /\ \A i \in 1..n : chain'[i] = chain[i]
  BY DEF Extended
<1> HIDE DEF T, n, old
<1>3. \A i \in 1..n : chain'[i] \in T
  BY <1>1, <1>2, ElementOfSeq
<1>4. /\ old \in Seq(T)
      /\ Len(old) = (IF 1 <= n THEN n - 1 + 1 ELSE 0)
      /\ \A i \in 1..(n - 1 + 1) : old[i] = chain'[1 + i - 1]
  BY <1>1, <1>3, SubSeqProperties DEF old
<1>5. Len(old) = n /\ \A i \in 1..n : old[i] = chain[i]
  BY <1>1, <1>2, <1>4
<1>6. old = chain
  BY <1>1, <1>4, <1>5, SeqEqual DEF n
<1> QED BY <1>2, <1>6 DEF AuditBook!Grow, n, old

\* An event of a block is never passed over when no replay was asked for.
LEMMA NothingPassedOver ==
  ASSUME Typed, Complete, NEW i \in 1..Len(chain), PassedOver(i)
  PROVE  chain[i].valid
<1>1. chain[i].block \in 1..height /\ height \in Nat
  BY ChainType DEF Typed
<1> QED BY <1>1 DEF PassedOver, Complete, NoReplay

\* Every step is one of the abstract specification, or none.
LEMMA IndexStep ==
  ASSUME Typed, Ordered, Intact, Complete, [Next]_vars
  PROVE  [AuditBook!Grow \/ AuditBook!Index]_<<chain, stored>>
<1>1. CASE Extended /\ UNCHANGED <<tables, loop, resetting, faults>>
  BY <1>1, GrowsAtEnd DEF tables
<1>2. CASE UNCHANGED fabric /\ StoreEvent
  <2>1. /\ Event \in 1..Len(chain)
        /\ stored' = stored \cup {Event}
        /\ Event \notin stored => stored = 1..(Event - 1) /\ stored' = 1..Event
    BY <1>2, StoredInOrder
  <2>2. chain' = chain /\ DOMAIN chain = 1..Len(chain)
    BY <1>2, ChainType DEF fabric, Typed
  <2>3. chain[Event].valid
    <3>1. next - 1 = Event /\ pc = "storing"
      BY <1>2 DEF Event, StoreEvent
    <3>2. PassedOver(Event)
      BY <2>1, <3>1 DEF Intact, DeliveredReadable
    <3> QED BY <2>1, <3>2, NothingPassedOver
  <2>4. CASE Event \in stored
    BY <2>1, <2>2, <2>4
  <2>5. CASE Event \notin stored
    BY <2>1, <2>2, <2>3, <2>5 DEF AuditBook!Index
  <2> QED BY <2>4, <2>5
<1>3. CASE UNCHANGED fabric /\ (LoopStep \/ LoopFails \/ Crash) /\ ~StoreEvent
  BY <1>3 DEF LoopStep, LoopFails, Crash, loadCheckpoint, getChaincodeEvents, Connected,
              ReadEvent, RememberEvent, fabric, tables
<1>4. CASE UNCHANGED vars
  BY <1>4 DEF vars, fabric, tables
<1> QED BY <1>1, <1>2, <1>3, <1>4, PlainSteps

\* Without replays, the index is the channel's event sequence up to some point,
\* whatever the stream repeats and wherever the process dies.
THEOREM IndexImplemented == Spec => ImplementsIndex
<1>1. Init => AuditBook!IndexInit
  BY DEF Init, AuditBook!IndexInit
<1>2. Typed /\ Ordered /\ Intact /\ Complete /\ [Next]_vars
      => [AuditBook!Grow \/ AuditBook!Index]_<<chain, stored>>
  BY IndexStep
<1> QED BY <1>1, <1>2, TypedInit, OrderedInit, IntactInit, CompleteInit, PlainStep,
           CompleteStep, PTL DEF Spec, ImplementsIndex, AuditBook!IndexSpec

\* What the auditors rely on: the index is the first events of the channel, and
\* what is in it stays in it.
Prefix == \E n \in Nat : stored = 1..n

THEOREM IndexIsPrefix == Spec => []Prefix /\ [][stored \subseteq stored']_<<chain, stored>>
<1>1. AuditBook!IndexInit => Prefix
  <2>1. {} = 1..0
    OBVIOUS
  <2> QED BY <2>1 DEF AuditBook!IndexInit, Prefix
<1>3. Spec => []TypeOK
  <2>1. Typed => TypeOK
    BY DEF Typed
  <2> QED BY <2>1, TypedInit, OrderedInit, IntactInit, PlainStep, PTL DEF Spec
<1>2. TypeOK /\ Prefix /\ [AuditBook!Grow \/ AuditBook!Index]_<<chain, stored>>
        => Prefix' /\ [stored \subseteq stored']_<<chain, stored>>
  <2>1. ASSUME TypeOK, AuditBook!Index PROVE Prefix' /\ stored \subseteq stored'
    <3>1. PICK i \in DOMAIN chain : stored = 1..(i - 1) /\ stored' = 1..i
      BY <2>1 DEF AuditBook!Index
    <3>2. i \in Nat
      BY <2>1, ChainType
    <3> QED BY <3>1, <3>2 DEF Prefix
  <2>2. ASSUME Prefix, AuditBook!Grow PROVE Prefix' /\ stored \subseteq stored'
    BY <2>2 DEF AuditBook!Grow, Prefix
  <2>3. ASSUME Prefix, UNCHANGED <<chain, stored>> PROVE Prefix' /\ stored \subseteq stored'
    BY <2>3 DEF Prefix
  <2> QED BY <2>1, <2>2, <2>3
<1> QED BY <1>1, <1>2, <1>3, IndexImplemented, PTL DEF ImplementsIndex, AuditBook!IndexSpec
-----------------------------------------------------------------------------
(***************************************************************************)
(* Where the loop ends, and what is in the index by then.                  *)
(***************************************************************************)
AtUnreadable ==
  pc = "halted" =>
    /\ Event \in 1..Len(chain) /\ ~chain[Event].valid
    /\ \A j \in 1..(Event - 1) : PassedOver(j)

\* Only reading an event halts the loop, and nothing but a crash moves it on.
LEMMA Halts ==
  ASSUME LoopStep \/ LoopFails \/ Crash \/ Rebuild, pc' = "halted"
  PROVE  \/ \E e \in DOMAIN chain : ReadEvent(e)
         \/ pc = "halted" /\ UNCHANGED next /\ Rebuild
BY DEF LoopStep, LoopFails, AfterError, Crash, loadCheckpoint, getChaincodeEvents, Connected,
       StoreEvent, RememberEvent, StreamEnds, Rebuild, rebuildProjections, DeleteEvents,
       CommitRebuild, ResetMemory, RebuildFails, loop

\* The event that has just been read could not be.
LEMMA ReadUnreadable ==
  ASSUME Typed, Intact, UNCHANGED fabric, NEW e \in DOMAIN chain, ReadEvent(e), pc' = "halted"
  PROVE  AtUnreadable' /\ Event' = e
<1>1. /\ e \in 1..Len(chain) /\ next <= e /\ next' = e + 1 /\ pc = "reading"
      /\ \A j \in next..(e - 1) : j \in 1..Len(chain) /\ chain[j].block < start
      /\ next \in Nat /\ Len(chain) \in Nat
  BY Passed, ChainType DEF Typed, TypeOK
<1>2. ~chain[e].valid /\ chain' = chain /\ asked' = asked
  BY DEF ReadEvent, decodeEvent, fabric, resetting
<1>3. Event' = e
  BY <1>1 DEF Event
<1>4. ASSUME NEW j \in 1..(e - 1) PROVE PassedOver(j)
  <2>1. CASE j \in 1..(next - 1)
    BY <1>1, <2>1 DEF Intact, DeliveredReadable
  <2>2. CASE j \in next..(e - 1)
    BY <1>1, <2>2, ChainType DEF Intact, ResumableBlocks, Resumable, Typed
  <2> QED BY <1>1, <2>1, <2>2
<1> QED BY <1>1, <1>2, <1>3, <1>4 DEF AtUnreadable, PassedOver

LEMMA AtUnreadableStep ==
  Typed /\ Ordered /\ Intact /\ AtUnreadable /\ [Next \/ Rebuild]_vars => AtUnreadable'
<1> SUFFICES ASSUME Typed, Ordered, Intact, AtUnreadable, [Next \/ Rebuild]_vars, pc' = "halted"
             PROVE  AtUnreadable'
  BY DEF AtUnreadable
<1>1. CASE Extended /\ UNCHANGED <<tables, loop, resetting, faults>>
  <2>1. Len(chain) \in Nat /\ Len(chain') \in Nat
    BY <1>1, ChainType, LenProperties DEF Extended, Typed
  <2>2. pc = "halted" /\ Event' = Event
    BY <1>1 DEF loop, Event
  <2>a. asked' = asked
    BY <1>1 DEF resetting
  <2>3. Event \in 1..Len(chain) /\ \A j \in 1..Event : j \in 1..Len(chain) /\ j \in 1..Len(chain')
    BY <1>1, <2>1, <2>2 DEF AtUnreadable, Extended
  <2>4. \A j \in 1..Event : chain'[j] = chain[j]
    BY <1>1, <2>3 DEF Extended
  <2>5. Event \in 1..Event /\ \A j \in 1..(Event - 1) : j \in 1..Event
    BY <2>3
  <2> QED BY <2>2, <2>3, <2>4, <2>5, <2>a DEF AtUnreadable, PassedOver
<1>2. CASE UNCHANGED fabric /\ (LoopStep \/ LoopFails \/ Crash \/ Rebuild)
  <2>1. ASSUME NEW e \in DOMAIN chain, ReadEvent(e) PROVE AtUnreadable'
    BY <1>2, <2>1, ReadUnreadable
  <2>2. CASE pc = "halted" /\ UNCHANGED next /\ Rebuild
    <3>1. asked \in Nat /\ asked' \in Nat /\ asked' >= asked
      BY <2>2, BoundsAssumption
      DEF Typed, TypeOK, Blocks, Rebuild, rebuildProjections, StreamEnds, DeleteEvents, CommitRebuild,
          ResetMemory, RebuildFails, Maximum
    <3>2. /\ \A j \in DOMAIN chain : chain[j].block \in Nat
          /\ DOMAIN chain = 1..Len(chain) /\ Len(chain) \in Nat
      BY ChainType DEF Typed
    <3>3. chain' = chain /\ Event' = Event /\ Event \in 1..Len(chain)
      BY <1>2, <2>2 DEF fabric, Event, AtUnreadable
    <3>4. \A j \in 1..(Event - 1) : j \in DOMAIN chain
      BY <3>2, <3>3
    <3> QED BY <2>2, <3>1, <3>2, <3>3, <3>4 DEF AtUnreadable, PassedOver
  <2> QED BY <1>2, <2>1, <2>2, Halts
<1>3. CASE UNCHANGED vars
  BY <1>3 DEF vars, fabric, loop, resetting, AtUnreadable, Event, PassedOver
<1> QED BY <1>1, <1>2, <1>3, Steps

\* The loop ends nowhere but at an event it could not read, with only readable
\* ones before it, or ones that a replay was asked to pass over: no error of the
\* peer, the stream or the database ends it, and neither does a replay.
THEOREM HaltsAtUnreadable == ReplaySpec => []AtUnreadable
<1>1. Init => AtUnreadable
  BY DEF Init, AtUnreadable
<1> QED BY <1>1, TypedInit, OrderedInit, IntactInit, TypedStep, IntactStep, AtUnreadableStep,
           PTL DEF ReplaySpec

\* What the index holds when the loop has come to the end of the channel, or to
\* its own: all that could be read, and nothing else.
WholeAtEnd ==
  /\ pc = "halted" => stored = 1..(Event - 1)
  /\ pc = "reading" /\ (\A e \in DOMAIN chain : ~Deliverable(e)) => stored = 1..Len(chain)

StoredBefore == pc = "halted" => \A j \in 1..(Event - 1) : j \in stored

LEMMA StoredBeforeStep ==
  Typed /\ Ordered /\ Intact /\ Complete /\ StoredBefore /\ [Next]_vars => StoredBefore'
<1> SUFFICES ASSUME Typed, Ordered, Intact, Complete, StoredBefore, [Next]_vars, pc' = "halted"
             PROVE  StoredBefore'
  BY DEF StoredBefore
<1>1. CASE UNCHANGED <<tables, loop>>
  BY <1>1 DEF tables, loop, StoredBefore, Event
<1>2. CASE UNCHANGED fabric /\ (LoopStep \/ LoopFails \/ Crash)
  <2>1. PICK e \in DOMAIN chain : ReadEvent(e)
    BY <1>2 DEF LoopStep, LoopFails, AfterError, Crash, loadCheckpoint, getChaincodeEvents,
                Connected, StoreEvent, RememberEvent, loop
  <2>2. /\ e \in 1..Len(chain) /\ next <= e /\ next' = e + 1 /\ pc = "reading"
        /\ \A j \in next..(e - 1) : j \in 1..Len(chain) /\ chain[j].block < start
    BY <2>1, Passed DEF Typed
  <2>3. /\ Len(chain) \in Nat /\ DOMAIN chain = 1..Len(chain) /\ next \in Nat
        /\ \A i \in 1..Len(chain) : chain[i].block \in Nat
        /\ start \in Nat /\ checkpoint \in Nat
    <3>1. TypeOK
      BY DEF Typed
    <3>2. Len(chain) \in Nat /\ next \in 1..(Len(chain) + 1)
      BY <3>1, ChainType DEF TypeOK
    <3> QED BY <3>1, <3>2, ChainType, BlockTypes
  <2>4. Event' = e /\ stored' = stored
    BY <2>1, <2>2, <2>3 DEF Event, ReadEvent, tables
  <2>5. ASSUME NEW j \in 1..(e - 1) PROVE j \in stored
    <3>1. CASE j \in 1..(next - 1)
      BY <2>2, <3>1 DEF Complete, DeliveredStored
    <3>2. CASE j \in next..(e - 1)
      <4>1. chain[j].block < start /\ start <= checkpoint /\ j \in 1..Len(chain)
        BY <2>2, <3>2 DEF Complete, RemembersStored
      <4>2. chain[j].block < checkpoint
        BY <2>3, <4>1
      <4> QED BY <2>3, <4>1, <4>2 DEF Complete, NothingMissing
    <3> QED BY <2>2, <2>3, <3>1, <3>2
  <2> QED BY <2>4, <2>5 DEF StoredBefore
<1> QED BY <1>1, <1>2, PlainSteps DEF vars

\* A set of positions that is closed downwards is an interval from one.
LEMMA Initial ==
  ASSUME NEW n \in Nat, NEW S \in SUBSET (1..n),
         \A i \in S : \A j \in 1..i : j \in S
  PROVE  /\ Cardinality(S) \in 0..n
         /\ \A i \in 1..Cardinality(S) : i \in S
         /\ Cardinality(S) + 1 \notin S
<1>1. IsFiniteSet(1..n) /\ Cardinality(1..n) = n
  BY FS_Interval
<1>2. IsFiniteSet(S) /\ Cardinality(S) \in Nat /\ Cardinality(S) <= n
  BY <1>1, FS_Subset, FS_CardinalityType
<1>3. ASSUME NEW i \in 1..Cardinality(S), i \notin S PROVE FALSE
  <2>1. S \subseteq 1..(i - 1)
    BY <1>2, <1>3
  <2>2. IsFiniteSet(1..(i - 1)) /\ Cardinality(1..(i - 1)) = i - 1
    <3> DEFINE k == i - 1
    <3>1. k \in Nat
      BY <1>2
    <3> HIDE DEF k
    <3>2. IsFiniteSet(1..k) /\ Cardinality(1..k) = k
      BY <3>1, FS_Interval
    <3> QED BY <3>2 DEF k
  <2>3. Cardinality(S) <= i - 1
    BY <2>1, <2>2, FS_Subset
  <2> QED BY <2>3, <1>2
<1>4. ASSUME Cardinality(S) + 1 \in S PROVE FALSE
  <2> DEFINE k == Cardinality(S) + 1
  <2>1. k \in Nat /\ 1..k \subseteq S
    BY <1>2, <1>4
  <2> HIDE DEF k
  <2>2. IsFiniteSet(1..k) /\ Cardinality(1..k) = k
    BY <2>1, FS_Interval
  <2>3. k <= Cardinality(S)
    BY <1>2, <2>1, <2>2, FS_Subset
  <2> QED BY <1>2, <2>3 DEF k
<1> QED BY <1>2, <1>3, <1>4

\* When nothing is left to deliver, the rest of the channel is below the place
\* that the stream was asked from: the first event that is not would be next.
LEMMA RestPassed ==
  ASSUME Typed, Ordered, \A e \in DOMAIN chain : ~Deliverable(e)
  PROVE  \A e \in DOMAIN chain : e >= next => chain[e].block < start
<1>1. /\ Len(chain) \in Nat /\ DOMAIN chain = 1..Len(chain) /\ next \in 1..(Len(chain) + 1)
      /\ \A i \in 1..Len(chain) : chain[i].block \in Nat
      /\ start \in Nat
  BY ChainType DEF Typed, TypeOK, Blocks
<1> SUFFICES ASSUME NEW e \in 1..Len(chain), e >= next, Due(e) PROVE FALSE
  BY <1>1 DEF Due
<1> DEFINE S == {j \in 1..Len(chain) : ~Due(j)}
<1> DEFINE k == Cardinality(S)
<1>2. \A i, j \in 1..Len(chain) : i <= j /\ Due(i) => Due(j)
  BY <1>1 DEF Ordered, Due
<1>3. \A i \in S : \A j \in 1..i : j \in S
  BY <1>1, <1>2
<1>4. k \in 0..Len(chain) /\ (\A i \in 1..k : i \in S) /\ k + 1 \notin S
  <2>1. S \in SUBSET (1..Len(chain))
    OBVIOUS
  <2> HIDE DEF S
  <2> QED BY <1>1, <1>3, <2>1, Initial
<1> HIDE DEF k
<1>5. e > k
  BY <1>1, <1>4
<1>6. k + 1 \in 1..Len(chain) /\ Due(k + 1)
  BY <1>1, <1>4, <1>5
<1> DEFINE m == IF next > k THEN next ELSE k + 1
<1>7. m \in 1..Len(chain) /\ m >= next /\ Due(m)
  BY <1>1, <1>2, <1>4, <1>6
<1>8. \A j \in next..(m - 1) : ~Due(j)
  BY <1>1, <1>4
<1>9. Deliverable(m)
  BY <1>1, <1>7, <1>8 DEF Deliverable
<1> QED BY <1>1, <1>7, <1>9

\* Without replays, a loop that waits for the next block has every event of the
\* channel in the index, and one that has halted has every event before the one
\* it could not read, whatever broke on the way.
THEOREM NothingLeftBehind == Spec => []WholeAtEnd
<1>1. Init => StoredBefore
  BY DEF Init, StoredBefore
<1>2. Typed /\ Ordered /\ Intact /\ Complete /\ AtUnreadable /\ StoredBefore => WholeAtEnd
  <2> SUFFICES ASSUME Typed, Ordered, Intact, Complete, AtUnreadable, StoredBefore PROVE WholeAtEnd
    OBVIOUS
  <2>1. /\ Len(chain) \in Nat /\ DOMAIN chain = 1..Len(chain) /\ stored \subseteq 1..Len(chain)
        /\ next \in 1..(Len(chain) + 1) /\ start \in Nat /\ checkpoint \in Nat
        /\ \A i \in 1..Len(chain) : chain[i].block \in Nat
    BY ChainType, BlockTypes DEF Typed, TypeOK
  <2>2. CASE pc = "halted"
    <3>1. ASSUME NEW i \in stored PROVE i \in 1..(Event - 1)
      <4>1. Event \in 1..Len(chain) /\ ~chain[Event].valid
        BY <2>2 DEF AtUnreadable
      <4>2. ~PassedOver(Event)
        BY <4>1, NothingPassedOver
      <4>3. \A j \in 1..i : PassedOver(j)
        BY <3>1 DEF Intact, NothingPastUnreadable
      <4> QED BY <2>1, <3>1, <4>1, <4>2, <4>3
    <3> QED BY <2>2, <3>1 DEF StoredBefore, WholeAtEnd
  <2>3. CASE pc = "reading" /\ \A e \in DOMAIN chain : ~Deliverable(e)
    <3>1. \A j \in 1..(next - 1) : j \in stored
      BY <2>3 DEF Complete, DeliveredStored
    <3>2. \A j \in next..Len(chain) : j \in stored
      <4>1. \A j \in next..Len(chain) : chain[j].block < start
        BY <2>1, <2>3, RestPassed
      <4> QED BY <2>1, <4>1 DEF Complete, RemembersStored, NothingMissing
    <3>3. stored = 1..Len(chain)
      <4>1. \A j \in 1..Len(chain) : j \in 1..(next - 1) \/ j \in next..Len(chain)
        BY <2>1
      <4> QED BY <2>1, <3>1, <3>2, <4>1
    <3> QED BY <2>1, <2>3, <3>3 DEF WholeAtEnd
  <2> QED BY <2>2, <2>3 DEF WholeAtEnd
<1>3. Typed /\ Ordered /\ Intact /\ AtUnreadable /\ [Next]_vars => AtUnreadable'
  BY AtUnreadableStep
<1>4. Init => AtUnreadable
  BY DEF Init, AtUnreadable
<1> QED BY <1>1, <1>2, <1>3, <1>4, TypedInit, OrderedInit, IntactInit, CompleteInit, PlainStep,
           CompleteStep, StoredBeforeStep, PTL DEF Spec
=============================================================================
