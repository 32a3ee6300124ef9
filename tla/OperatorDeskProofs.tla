------------------------- MODULE OperatorDeskProofs -------------------------
(***************************************************************************)
(* The two books under any number of operators, calls and failures.        *)
(*                                                                         *)
(* A write of a call changes a book in one of five ways, and a decision in *)
(* two more; the first lemmas say what each leaves of it.  From these: a   *)
(* book only grows, and its rows keep their owner, place and references,   *)
(* so that what a call refers to is there when it writes, and what an old  *)
(* page offers is still true of places.  The ledger has whatever the       *)
(* tables have and what the calls in "writing" are about to add, because a *)
(* call submits first and no other call has its id, its person or the      *)
(* payout it reverses.  The counters balance because every write was found *)
(* affordable: by the contract in the step itself, by a transaction under  *)
(* row locks that no two calls share and the records of decisions wait     *)
(* for.                                                                    *)
(***************************************************************************)
EXTENDS OperatorDesk, SumProofs

-----------------------------------------------------------------------------
(***************************************************************************)
(* The writes: what each leaves of a book.                                 *)
(***************************************************************************)

Statuses == {"PENDING", "SETTLED", "FAILED", "UNKNOWN", "REVERSED"}

\* A new source.
LEMMA SourceAdded ==
  ASSUME NEW b, IsBook(b), NEW id, NEW in, in.kind = "source", in.user \in Users
  PROVE  /\ IsBook(After(b, id, in))
         /\ After(b, id, in).sources = With(b.sources, id, [owner |-> OrgOf[in.user], allocated |-> 0])
         /\ After(b, id, in).allocations = b.allocations
         /\ After(b, id, in).people = b.people
         /\ After(b, id, in).payouts = b.payouts
<1> DEFINE row == [owner |-> OrgOf[in.user], allocated |-> 0]
<1> DEFINE t == With(b.sources, id, row)
<1>1. After(b, id, in) = [b EXCEPT !.sources = t]
  BY DEF After
<1>2. b = [sources |-> b.sources, allocations |-> b.allocations,
           people |-> b.people, payouts |-> b.payouts]
  BY DEF IsBook
<1>3. After(b, id, in) = [sources |-> t, allocations |-> b.allocations,
                          people |-> b.people, payouts |-> b.payouts]
  BY <1>1, <1>2
<1>4. row \in [owner: Orgs, allocated: Int]
  BY DEF Orgs
<1>5. t \in [DOMAIN t -> [owner: Orgs, allocated: Int]] /\ DOMAIN b.sources \subseteq DOMAIN t
  BY <1>4 DEF With, IsBook
<1> HIDE DEF row, t
<1>6. b.allocations \in [DOMAIN b.allocations ->
        [source: DOMAIN t, owner: Orgs, place: Places, reserved: Int, disbursed: Int]]
  BY <1>5 DEF IsBook
<1>7. IsBook(After(b, id, in))
  BY <1>3, <1>5, <1>6 DEF IsBook
<1> QED BY <1>3, <1>7 DEF t, row

\* A new allocation: its source has less to give.
LEMMA AllocationAdded ==
  ASSUME NEW b, IsBook(b), NEW id, id \notin DOMAIN b.allocations, NEW in,
         in.kind = "allocation", in.user \in Users, in.source \in DOMAIN b.sources, in.place \in Places
  PROVE  /\ IsBook(After(b, id, in))
         /\ DOMAIN After(b, id, in).sources = DOMAIN b.sources
         /\ \A s \in DOMAIN b.sources :
              /\ After(b, id, in).sources[s].owner = b.sources[s].owner
              /\ After(b, id, in).sources[s].allocated =
                   b.sources[s].allocated + (IF s = in.source THEN AllocationAmount ELSE 0)
         /\ After(b, id, in).allocations =
              With(b.allocations, id, [source |-> in.source, owner |-> OrgOf[in.user],
                                       place |-> in.place, reserved |-> 0, disbursed |-> 0])
         /\ After(b, id, in).people = b.people
         /\ After(b, id, in).payouts = b.payouts
<1> DEFINE old == b.sources[in.source]
<1> DEFINE new == [owner |-> old.owner, allocated |-> old.allocated + AllocationAmount]
<1> DEFINE S == [b.sources EXCEPT ![in.source] = new]
<1> DEFINE row == [source |-> in.source, owner |-> OrgOf[in.user],
                   place |-> in.place, reserved |-> 0, disbursed |-> 0]
<1> DEFINE A == With(b.allocations, id, row)
<1>1. /\ b = [sources |-> b.sources, allocations |-> b.allocations,
              people |-> b.people, payouts |-> b.payouts]
      /\ AllocationAmount \in Int
      /\ \A s \in DOMAIN b.sources : b.sources[s] \in [owner: Orgs, allocated: Int]
  BY ServicesAssumption DEF IsBook
<1>2. new = [old EXCEPT !.allocated = @ + AllocationAmount] /\ new \in [owner: Orgs, allocated: Int]
  BY <1>1
<1>3. After(b, id, in) = [b EXCEPT !.sources[in.source].allocated = @ + AllocationAmount,
                                   !.allocations = With(@, id, row)]
  BY DEF After, WithAllocation
<1>4. After(b, id, in) = [sources |-> S, allocations |-> A, people |-> b.people, payouts |-> b.payouts]
  <2> HIDE DEF row
  <2> QED BY <1>1, <1>2, <1>3
<1>5. row \in [source: DOMAIN b.sources, owner: Orgs, place: Places, reserved: Int, disbursed: Int]
  BY DEF Orgs
<1>6. S \in [DOMAIN b.sources -> [owner: Orgs, allocated: Int]] /\ DOMAIN S = DOMAIN b.sources
  BY <1>2 DEF IsBook
<1>7. /\ A \in [DOMAIN A -> [source: DOMAIN b.sources, owner: Orgs, place: Places,
                             reserved: Int, disbursed: Int]]
      /\ DOMAIN b.allocations \subseteq DOMAIN A
  BY <1>5 DEF IsBook, With
<1>8. \A s \in DOMAIN b.sources :
        /\ S[s].owner = b.sources[s].owner
        /\ S[s].allocated = b.sources[s].allocated + (IF s = in.source THEN AllocationAmount ELSE 0)
  BY <1>1
<1> HIDE DEF row, S, A, new, old
<1>9. b.payouts \in [DOMAIN b.payouts ->
        [allocation: DOMAIN A, person: People, batch: Batches \cup {None},
         status: Statuses]]
  BY <1>7 DEF IsBook, Statuses
<1>10. IsBook(After(b, id, in))
  BY <1>4, <1>6, <1>7, <1>9 DEF IsBook, Statuses
<1> QED BY <1>4, <1>6, <1>8, <1>10 DEF A, row

\* A new beneficiary.
LEMMA PersonAdded ==
  ASSUME NEW b, IsBook(b), NEW id, NEW in, in.kind = "beneficiary",
         in.person \in People, in.place \in Places
  PROVE  /\ IsBook(After(b, id, in))
         /\ After(b, id, in).sources = b.sources
         /\ After(b, id, in).allocations = b.allocations
         /\ After(b, id, in).people = With(b.people, in.person, in.place)
         /\ After(b, id, in).payouts = b.payouts
<1> DEFINE t == With(b.people, in.person, in.place)
<1>1. After(b, id, in) = [b EXCEPT !.people = t]
  BY DEF After
<1>2. b = [sources |-> b.sources, allocations |-> b.allocations,
           people |-> b.people, payouts |-> b.payouts]
  BY DEF IsBook
<1>3. After(b, id, in) = [sources |-> b.sources, allocations |-> b.allocations,
                          people |-> t, payouts |-> b.payouts]
  BY <1>1, <1>2
<1>4. t \in [DOMAIN t -> Places] /\ DOMAIN t \subseteq People
  BY DEF With, IsBook
<1> HIDE DEF t
<1>5. IsBook(After(b, id, in))
  BY <1>3, <1>4 DEF IsBook
<1> QED BY <1>3, <1>5 DEF t

\* The fields of a row of an allocation, when its counters change.
AllocationRow(b) ==
  [source: DOMAIN b.sources, owner: Orgs, place: Places, reserved: Int, disbursed: Int]

SameButCounters(f, g) ==
  /\ DOMAIN g = DOMAIN f
  /\ \A a \in DOMAIN f :
       g[a].source = f[a].source /\ g[a].owner = f[a].owner /\ g[a].place = f[a].place

\* A new payout: its allocation has one more unit reserved.
LEMMA PayoutAdded ==
  ASSUME NEW b, IsBook(b), NEW id, NEW in,
         in.kind = "payout", in.allocation \in DOMAIN b.allocations, in.person \in People,
         in.batch \in Batches \cup {None}
  PROVE  /\ IsBook(After(b, id, in))
         /\ After(b, id, in).sources = b.sources
         /\ SameButCounters(b.allocations, After(b, id, in).allocations)
         /\ \A a \in DOMAIN b.allocations :
              /\ After(b, id, in).allocations[a].reserved =
                   b.allocations[a].reserved + (IF a = in.allocation THEN 1 ELSE 0)
              /\ After(b, id, in).allocations[a].disbursed = b.allocations[a].disbursed
         /\ After(b, id, in).people = b.people
         /\ After(b, id, in).payouts =
              With(b.payouts, id, [allocation |-> in.allocation, person |-> in.person,
                                   batch |-> in.batch, status |-> "PENDING"])
<1> DEFINE old == b.allocations[in.allocation]
<1> DEFINE new == [old EXCEPT !.reserved = @ + 1]
<1> DEFINE A == [b.allocations EXCEPT ![in.allocation] = new]
<1> DEFINE row == [allocation |-> in.allocation, person |-> in.person,
                   batch |-> in.batch, status |-> "PENDING"]
<1> DEFINE P == With(b.payouts, id, row)
<1>1. /\ b = [sources |-> b.sources, allocations |-> b.allocations,
              people |-> b.people, payouts |-> b.payouts]
      /\ \A a \in DOMAIN b.allocations : b.allocations[a] \in AllocationRow(b)
  BY DEF IsBook, AllocationRow
<1>2. /\ new \in AllocationRow(b) /\ new.reserved = old.reserved + 1 /\ new.disbursed = old.disbursed
      /\ new.source = old.source /\ new.owner = old.owner /\ new.place = old.place
  BY <1>1 DEF AllocationRow
<1>3. After(b, id, in) = [b EXCEPT !.allocations[in.allocation].reserved = @ + 1,
                                   !.payouts = With(@, id, row)]
  BY DEF After, WithPayout
<1>4. After(b, id, in) = [sources |-> b.sources, allocations |-> A, people |-> b.people, payouts |-> P]
  <2> HIDE DEF row
  <2> QED BY <1>1, <1>3
<1>5. row \in [allocation: DOMAIN b.allocations, person: People, batch: Batches \cup {None},
               status: Statuses]
  BY DEF Statuses
<1> HIDE DEF new, old, row
<1>6. A \in [DOMAIN b.allocations -> AllocationRow(b)] /\ DOMAIN A = DOMAIN b.allocations
  BY <1>2 DEF IsBook, AllocationRow
<1>7. P \in [DOMAIN P -> [allocation: DOMAIN b.allocations, person: People, batch: Batches \cup {None},
                          status: Statuses]]
  BY <1>5 DEF IsBook, With, Statuses
<1>8. \A a \in DOMAIN b.allocations :
        /\ A[a].source = b.allocations[a].source
        /\ A[a].owner = b.allocations[a].owner
        /\ A[a].place = b.allocations[a].place
        /\ A[a].reserved = b.allocations[a].reserved + (IF a = in.allocation THEN 1 ELSE 0)
        /\ A[a].disbursed = b.allocations[a].disbursed
  BY <1>1, <1>2 DEF old, AllocationRow
<1> HIDE DEF A, P
<1>9. IsBook(After(b, id, in))
  BY <1>4, <1>6, <1>7 DEF IsBook, AllocationRow, Statuses
<1> QED BY <1>4, <1>6, <1>8, <1>9 DEF P, row, SameButCounters

\* A payout gets another status, and the counters of its allocation change.
Moved(b, n, p, status, reserved, disbursed) ==
  /\ IsBook(n)
  /\ n.sources = b.sources
  /\ n.people = b.people
  /\ SameButCounters(b.allocations, n.allocations)
  /\ \A a \in DOMAIN b.allocations :
       /\ n.allocations[a].reserved = b.allocations[a].reserved
            + (IF a = b.payouts[p].allocation THEN reserved ELSE 0)
       /\ n.allocations[a].disbursed = b.allocations[a].disbursed
            + (IF a = b.payouts[p].allocation THEN disbursed ELSE 0)
  /\ DOMAIN n.payouts = DOMAIN b.payouts
  /\ \A q \in DOMAIN b.payouts :
       /\ n.payouts[q].allocation = b.payouts[q].allocation
       /\ n.payouts[q].person = b.payouts[q].person
       /\ n.payouts[q].batch = b.payouts[q].batch
       /\ n.payouts[q].status = IF q = p THEN status ELSE b.payouts[q].status

\* What such a write is, for a new row of the allocation.
Put(b, p, status, row) ==
  [sources |-> b.sources,
   allocations |-> [b.allocations EXCEPT ![b.payouts[p].allocation] = row],
   people |-> b.people,
   payouts |-> [b.payouts EXCEPT ![p].status = status]]

Shifted(old, new, dr, dd) ==
  /\ new.source = old.source /\ new.owner = old.owner /\ new.place = old.place
  /\ new.reserved = old.reserved + dr /\ new.disbursed = old.disbursed + dd

\* Such a write moves the payout by as much as the row has shifted.
LEMMA PutMoves ==
  ASSUME NEW b, IsBook(b), NEW p \in DOMAIN b.payouts, NEW status \in Statuses,
         NEW new \in AllocationRow(b), NEW dr \in Int, NEW dd \in Int,
         Shifted(b.allocations[b.payouts[p].allocation], new, dr, dd)
  PROVE  Moved(b, Put(b, p, status, new), p, status, dr, dd)
<1> DEFINE n == Put(b, p, status, new)
<1> DEFINE row == [b.payouts[p] EXCEPT !.status = status]
<1> DEFINE i == b.payouts[p].allocation
<1> DEFINE A == [b.allocations EXCEPT ![i] = new]
<1> DEFINE P == [b.payouts EXCEPT ![p] = row]
<1> DEFINE PayoutRow == [allocation: DOMAIN b.allocations, person: People,
                         batch: Batches \cup {None}, status: Statuses]
<1>1. /\ b.payouts \in [DOMAIN b.payouts -> PayoutRow]
      /\ b.allocations \in [DOMAIN b.allocations -> AllocationRow(b)]
  BY DEF IsBook, Statuses, AllocationRow
<1>2. /\ b.payouts[p] \in PayoutRow /\ i \in DOMAIN b.allocations
      /\ \A a \in DOMAIN b.allocations :
           b.allocations[a].reserved \in Int /\ b.allocations[a].disbursed \in Int
  BY <1>1 DEF AllocationRow
<1>3. /\ row \in PayoutRow /\ row.allocation = i /\ row.status = status
      /\ row.person = b.payouts[p].person /\ row.batch = b.payouts[p].batch
  BY <1>2
<1>4. n = [sources |-> b.sources, allocations |-> A, people |-> b.people, payouts |-> P]
  BY DEF Put
<1>5. P \in [DOMAIN b.payouts -> PayoutRow] /\ DOMAIN P = DOMAIN b.payouts
  BY <1>1, <1>3
<1>6. A \in [DOMAIN b.allocations -> AllocationRow(b)] /\ DOMAIN A = DOMAIN b.allocations
  BY <1>1
<1>7. \A q \in DOMAIN b.payouts :
        /\ P[q].allocation = b.payouts[q].allocation
        /\ P[q].person = b.payouts[q].person /\ P[q].batch = b.payouts[q].batch
        /\ P[q].status = IF q = p THEN status ELSE b.payouts[q].status
  BY <1>1, <1>3
<1>8. \A a \in DOMAIN b.allocations :
        /\ A[a].source = b.allocations[a].source
        /\ A[a].owner = b.allocations[a].owner
        /\ A[a].place = b.allocations[a].place
        /\ A[a].reserved = b.allocations[a].reserved + (IF a = i THEN dr ELSE 0)
        /\ A[a].disbursed = b.allocations[a].disbursed + (IF a = i THEN dd ELSE 0)
  BY <1>1, <1>2 DEF Shifted
<1> HIDE DEF A, P, row, n
<1>9. n.sources = b.sources /\ n.allocations = A /\ n.people = b.people /\ n.payouts = P
  BY <1>4
<1>10. IsBook(n)
  <2>1. n = [sources |-> n.sources, allocations |-> n.allocations,
             people |-> n.people, payouts |-> n.payouts]
    BY <1>4, <1>9
  <2>2. n.payouts \in [DOMAIN n.payouts -> [allocation: DOMAIN n.allocations, person: People,
                         batch: Batches \cup {None}, status: Statuses]]
    BY <1>5, <1>6, <1>9
  <2>3. n.allocations \in [DOMAIN n.allocations -> AllocationRow(n)]
    BY <1>6, <1>9 DEF AllocationRow
  <2> QED BY <1>9, <2>1, <2>2, <2>3 DEF IsBook, AllocationRow, Statuses
<1>11. SameButCounters(b.allocations, n.allocations)
  BY <1>6, <1>8, <1>9 DEF SameButCounters
<1>12. Moved(b, n, p, status, dr, dd)
  BY <1>5, <1>7, <1>8, <1>9, <1>10, <1>11 DEF Moved
<1> QED BY <1>12 DEF n

\* A reversal.
LEMMA ReversedMoves ==
  ASSUME NEW b, IsBook(b), NEW p \in DOMAIN b.payouts
  PROVE  Moved(b, Reversed(b, p), p, "REVERSED", 0, -1)
<1> DEFINE i == b.payouts[p].allocation
<1> DEFINE old == b.allocations[i]
<1> DEFINE new == [old EXCEPT !.disbursed = @ - 1]
<1>1. /\ b = [sources |-> b.sources, allocations |-> b.allocations,
              people |-> b.people, payouts |-> b.payouts]
      /\ i \in DOMAIN b.allocations
      /\ old \in AllocationRow(b)
  BY DEF IsBook, AllocationRow
<1>2. new \in AllocationRow(b)
  BY <1>1 DEF AllocationRow
<1>3. Shifted(old, new, 0, -1)
  BY <1>1 DEF AllocationRow, Shifted
<1>4. Reversed(b, p) = Put(b, p, "REVERSED", new)
  <2> DEFINE P == [b.payouts EXCEPT ![p].status = "REVERSED"]
  <2> DEFINE A == [b.allocations EXCEPT ![i] = new]
  <2>1. Reversed(b, p) = [b EXCEPT !.payouts = P, !.allocations = A]
    BY DEF Reversed
  <2> HIDE DEF P, A
  <2>2. Reversed(b, p) = [sources |-> b.sources, allocations |-> A, people |-> b.people, payouts |-> P]
    BY <1>1, <2>1
  <2> QED BY <2>2 DEF P, A, Put
<1>5. "REVERSED" \in Statuses /\ 0 \in Int /\ -1 \in Int
  BY DEF Statuses
<1> HIDE DEF new
<1> QED BY <1>2, <1>3, <1>4, <1>5, PutMoves

\* What a decision makes of the counters.
LEMMA OutcomeOf ==
  ASSUME NEW status, NEW old, old.disbursed \in Int,
         old = [source |-> old.source, owner |-> old.owner, place |-> old.place,
                reserved |-> old.reserved, disbursed |-> old.disbursed]
  PROVE  Outcome(old, status) =
           [source |-> old.source, owner |-> old.owner, place |-> old.place,
            reserved |-> old.reserved - 1,
            disbursed |-> old.disbursed + (IF status = "SETTLED" THEN 1 ELSE 0)]
<1> DEFINE half == [old EXCEPT !.reserved = @ - 1]
<1>1. half = [source |-> old.source, owner |-> old.owner, place |-> old.place,
              reserved |-> old.reserved - 1, disbursed |-> old.disbursed]
  OBVIOUS
<1> HIDE DEF half
<1>2. half.disbursed = old.disbursed /\ old.disbursed + 0 = old.disbursed
  BY <1>1
<1>3. [half EXCEPT !.disbursed = IF status = "SETTLED" THEN @ + 1 ELSE @]
        = [source |-> old.source, owner |-> old.owner, place |-> old.place,
           reserved |-> old.reserved - 1,
           disbursed |-> old.disbursed + (IF status = "SETTLED" THEN 1 ELSE 0)]
  BY <1>1, <1>2
<1> QED BY <1>3 DEF Outcome, half

\* A decision of the provider.
LEMMA DecidedMoves ==
  ASSUME NEW b, IsBook(b), NEW p \in DOMAIN b.payouts, NEW status \in {"SETTLED", "FAILED"}
  PROVE  Moved(b, Decided(b, p, status), p, status, -1, IF status = "SETTLED" THEN 1 ELSE 0)
<1> DEFINE i == b.payouts[p].allocation
<1> DEFINE old == b.allocations[i]
<1> DEFINE one == IF status = "SETTLED" THEN 1 ELSE 0
<1> DEFINE new == Outcome(old, status)
<1>1. /\ b = [sources |-> b.sources, allocations |-> b.allocations,
              people |-> b.people, payouts |-> b.payouts]
      /\ i \in DOMAIN b.allocations
      /\ old \in AllocationRow(b)
  BY DEF IsBook, AllocationRow
<1>2. one \in Int /\ status \in Statuses /\ -1 \in Int
  BY DEF Statuses
<1>3. new = [source |-> old.source, owner |-> old.owner, place |-> old.place,
             reserved |-> old.reserved - 1, disbursed |-> old.disbursed + one]
  <2>1. old = [source |-> old.source, owner |-> old.owner, place |-> old.place,
               reserved |-> old.reserved, disbursed |-> old.disbursed]
    BY <1>1 DEF AllocationRow
  <2>2. old.disbursed \in Int
    BY <1>1 DEF AllocationRow
  <2> HIDE DEF old
  <2> QED BY <2>1, <2>2, OutcomeOf DEF one
<1>4. Decided(b, p, status) = Put(b, p, status, new)
  <2> DEFINE P == [b.payouts EXCEPT ![p].status = status]
  <2> DEFINE A == [b.allocations EXCEPT ![i] = new]
  <2>1. Decided(b, p, status) = [b EXCEPT !.payouts = P, !.allocations = A]
    BY <1>1 DEF Decided
  <2> HIDE DEF P, A
  <2>2. Decided(b, p, status) =
          [sources |-> b.sources, allocations |-> A, people |-> b.people, payouts |-> P]
    BY <1>1, <2>1
  <2> QED BY <2>2 DEF P, A, Put
<1> HIDE DEF one, new
<1>5. new \in AllocationRow(b) /\ Shifted(old, new, -1, one)
  BY <1>1, <1>2, <1>3 DEF AllocationRow, Shifted
<1>6. Moved(b, Decided(b, p, status), p, status, -1, one)
  BY <1>2, <1>4, <1>5, PutMoves
<1> QED BY <1>6 DEF one

\* An answer the provider does not have: no counter changes.
LEMMA UnknownMoves ==
  ASSUME NEW b, IsBook(b), NEW p \in DOMAIN b.payouts
  PROVE  Moved(b, Unknown(b, p), p, "UNKNOWN", 0, 0)
<1> DEFINE i == b.payouts[p].allocation
<1> DEFINE old == b.allocations[i]
<1>1. /\ b = [sources |-> b.sources, allocations |-> b.allocations,
              people |-> b.people, payouts |-> b.payouts]
      /\ i \in DOMAIN b.allocations
      /\ old \in AllocationRow(b)
      /\ b.allocations = [a \in DOMAIN b.allocations |-> b.allocations[a]]
  BY DEF IsBook, AllocationRow
<1>2. Unknown(b, p) = Put(b, p, "UNKNOWN", old)
  <2> DEFINE P == [b.payouts EXCEPT ![p].status = "UNKNOWN"]
  <2>1. Unknown(b, p) = [b EXCEPT !.payouts = P]
    BY DEF Unknown
  <2> HIDE DEF P
  <2>2. Unknown(b, p) = [sources |-> b.sources, allocations |-> b.allocations,
                         people |-> b.people, payouts |-> P]
    BY <1>1, <2>1
  <2>3. [b.allocations EXCEPT ![i] = old] = b.allocations
    BY <1>1
  <2> QED BY <2>2, <2>3 DEF P, Put
<1>3. Shifted(old, old, 0, 0)
  BY <1>1 DEF AllocationRow, Shifted
<1>4. "UNKNOWN" \in Statuses /\ 0 \in Int
  BY DEF Statuses
<1> HIDE DEF old
<1>5. old \in AllocationRow(b) /\ Shifted(b.allocations[b.payouts[p].allocation], old, 0, 0)
  BY <1>1, <1>3 DEF old
<1> QED BY <1>2, <1>4, <1>5, PutMoves
-----------------------------------------------------------------------------
(***************************************************************************)
(* The kinds of steps, and what a page or a call knows of the tables.      *)
(***************************************************************************)
Stages == {"new", "waiting", "begun", "submitting", "writing", "publishing", "done"}

\* What a call refers to is in the tables, which never lose a row.
ValidFor(b, in) ==
  /\ in.kind \in {"source", "allocation", "beneficiary", "payout", "reversal"}
  /\ in.user \in Users
  /\ in.kind = "allocation" => in.source \in DOMAIN b.sources /\ in.place \in Places
  /\ in.kind = "beneficiary" => in.person \in People /\ in.place \in Places
  /\ in.kind = "payout" =>
       /\ in.allocation \in DOMAIN b.allocations
       /\ in.person \in DOMAIN b.people
       /\ in.batch \in Batches \cup {None}
  /\ in.kind = "reversal" => in.payout \in DOMAIN b.payouts

ValidInput(in) == ValidFor(rows, in)

Control ==
  /\ pc \in [Calls -> Stages]
  /\ DOMAIN input = Calls
  /\ \A c \in Calls : InFlight(c) => ValidInput(input[c])

\* The ids of calls that have not written are not in the tables.
RowsFresh ==
  \A c \in Calls : pc[c] \notin {"publishing", "done"} => c \notin Used(rows)

\* What the page has loaded may be old, but was once so.
OldIn(b, data) ==
  /\ data = [org |-> data.org, got |-> data.got, sources |-> data.sources,
             allocations |-> data.allocations, people |-> data.people]
  /\ DOMAIN data.sources \subseteq DOMAIN b.sources
  /\ \A a \in DOMAIN data.allocations :
       a \in DOMAIN b.allocations /\ data.allocations[a].place = b.allocations[a].place
  /\ \A p \in DOMAIN data.people :
       p \in DOMAIN b.people /\ data.people[p] = b.people[p]

Old(data) == OldIn(rows, data)

Loaded ==
  /\ page \in {"login", "opening", "operator"}
  /\ page = "operator" => Old(context)
  /\ page = "opening" /\ context # None => Old(context)
  /\ page = "login" => context = None
  /\ token \in Users \cup {None}
  /\ sent \in Calls \cup {None}

\* What a step does to the books, the calls, their inputs and the decisions.
Closed(c) == Goto(c, "done") /\ input' = [input EXCEPT ![c] = None]

Asked(c, in) ==
  /\ pc[c] = "new" /\ ValidInput(in)
  /\ \/ Goto(c, "waiting") /\ InTransaction(in) /\ input' = [input EXCEPT ![c] = in]
     \/ Goto(c, "submitting") /\ ~InTransaction(in) /\ input' = [input EXCEPT ![c] = in]
     \/ Closed(c)
  /\ UNCHANGED <<world, rows, recording>>

Began(c) ==
  /\ pc[c] = "waiting" /\ Goto(c, "begun")
  /\ UNCHANGED <<world, rows, input, recording>>

TookLocks(c) ==
  /\ pc[c] = "begun" /\ Goto(c, "submitting")
  /\ RowLocks(input[c]) \cap Locked = {} /\ Refusal(input[c]) = "none"
  /\ UNCHANGED <<world, rows, input, recording>>

Took(c) ==
  /\ pc[c] = "submitting" /\ Accepted(input[c])
  /\ world' = After(world, c, input[c])
  /\ (Goto(c, "writing") /\ UNCHANGED input) \/ Closed(c)
  /\ UNCHANGED <<rows, recording>>

Wrote(c) ==
  /\ pc[c] = "writing" /\ Unique(input[c])
  /\ rows' = After(rows, c, input[c])
  /\ (Goto(c, "publishing") /\ UNCHANGED input) \/ Closed(c)
  /\ UNCHANGED <<world, recording>>

Ended(c) == Closed(c) /\ UNCHANGED <<world, rows, recording>>

Decides(p, s) ==
  /\ Decidable(p)
  /\ Mode = "fabric" => world.payouts[p].status = "PENDING"
  /\ world' = Decided(world, p, s)
  /\ recording' = With(recording, p, s)
  /\ UNCHANGED <<rows, pc, input>>

Records(p) ==
  /\ rows' = Decided(rows, p, recording[p])
  /\ recording' = Without(recording, p)
  /\ UNCHANGED <<world, pc, input>>

Forgets(p) ==
  /\ recording' = Without(recording, p)
  /\ UNCHANGED <<world, rows, pc, input>>

Doubts(p) ==
  /\ p \notin DOMAIN recording /\ rows.payouts[p].status = "PENDING"
  /\ rows' = Unknown(rows, p)
  /\ UNCHANGED <<world, pc, input, recording>>

Settles(p) == Records(p) \/ Forgets(p)

\* Every step of a service is of one of these kinds.
LEMMA ServiceSteps ==
  ASSUME ServicesStep
  PROVE  \/ \E c \in Calls : Began(c) \/ TookLocks(c) \/ Took(c) \/ Wrote(c) \/ Ended(c)
         \/ \E p \in DOMAIN rows.payouts, s \in {"SETTLED", "FAILED"} : Decides(p, s)
         \/ \E p \in DOMAIN rows.payouts : Doubts(p)
         \/ \E p \in DOMAIN recording : Settles(p)
         \/ UNCHANGED <<world, rows, pc, input, recording>>
<1>1. ASSUME NEW c \in Calls, CallStep(c) PROVE Began(c) \/ TookLocks(c) \/ Took(c) \/ Wrote(c) \/ Ended(c)
  <2>1. CASE Begin(c)
    BY <2>1 DEF Begin, Began, Unanswered, NoFault
  <2>2. CASE LockRows(c)
    BY <2>2 DEF LockRows, TookLocks, Ended, Closed, Answer, Unanswered, NoFault
  <2>3. CASE SubmitToLedger(c)
    BY <2>3 DEF SubmitToLedger, Took, Ended, Closed, Answer, Unanswered, NoFault
  <2>4. CASE WriteRows(c)
    BY <2>4 DEF WriteRows, Wrote, Written, Ended, Closed, Answer, Unanswered, NoFault
  <2>5. CASE Publish(c)
    BY <2>5 DEF Publish, Ended, Closed, Answer, NoFault
  <2> QED BY <1>1, <2>1, <2>2, <2>3, <2>4, <2>5 DEF CallStep
<1>2. ASSUME NEW c \in Calls, CallFault(c)
      PROVE  Took(c) \/ Wrote(c) \/ Ended(c) \/ UNCHANGED <<world, rows, pc, input, recording>>
  BY <1>2 DEF CallFault, CommitStatusLost, WriteAnswerLost, Fail, RequestTimesOut, Answer,
              Took, Wrote, Written, Ended, Closed
<1>3. ASSUME NEW p \in DOMAIN rows.payouts, NEW s \in {"SETTLED", "FAILED"}, DecideOnLedger(p, s)
      PROVE  Decides(p, s)
  BY <1>3 DEF DecideOnLedger, Decides, control
<1>4. ASSUME NEW p \in DOMAIN rows.payouts, RecordUnknown(p) PROVE Doubts(p)
  BY <1>4 DEF RecordUnknown, Decidable, Doubts, control
<1>5. ASSUME NEW p \in DOMAIN recording, RecordOutcome(p) \/ RecordingFails(p) PROVE Settles(p)
  BY <1>5 DEF RecordOutcome, RecordingFails, Settles, Records, Forgets, control
<1>6. ASSUME NEW c \in Calls, NEW b \in Batches, NEW u \in Users, ManageBatch(c, b, u) PROVE Ended(c)
  BY <1>6 DEF ManageBatch, Ended, Closed, Answer, NoFault
<1> QED BY <1>1, <1>2, <1>3, <1>4, <1>5, <1>6 DEF ServicesStep

\* What another client asks for refers to rows that are there.
LEMMA InputsValid ==
  ASSUME IsBook(rows), NEW in \in Inputs
  PROVE  ValidInput(in)
BY DEF Inputs, ValidInput, ValidFor

\* And so does what a form of the page offers, once its user is added.
LEMMA FormsValid ==
  ASSUME IsBook(rows), Old(context), token \in Users, NEW form \in Forms(context)
  PROVE  /\ ValidInput(Request(form))
         /\ Eligible(rows, Request(form))
<1> DEFINE in == Request(form)
<1>1. \A x \in DOMAIN form : x # "user" => in[x] = form[x]
  BY DEF Request, With
<1>2. in.user = token
  BY DEF Request, With
<1>3. CASE form \in FundForm
  <2>1. DOMAIN form = {"kind", "type"} /\ form.kind = "source"
    BY <1>3 DEF FundForm
  <2>2. in.kind = "source"
    BY <1>1, <2>1
  <2> HIDE DEF in
  <2> QED BY <1>2, <2>2 DEF ValidInput, ValidFor, Eligible, in
<1>4. CASE form \in AllocationForm(context)
  <2>1. /\ DOMAIN form = {"kind", "source", "place"} /\ form.kind = "allocation"
        /\ form.source \in DOMAIN context.sources /\ form.place \in Places
    BY <1>4 DEF AllocationForm
  <2>2. in.kind = "allocation" /\ in.source \in DOMAIN rows.sources /\ in.place \in Places
    BY <1>1, <2>1 DEF Old, OldIn
  <2> HIDE DEF in
  <2> QED BY <1>2, <2>2 DEF ValidInput, ValidFor, Eligible, in
<1>5. CASE form \in BeneficiaryForm
  <2>1. /\ DOMAIN form = {"kind", "person", "place"} /\ form.kind = "beneficiary"
        /\ form.person \in People /\ form.place \in Places
    BY <1>5 DEF BeneficiaryForm
  <2>2. in.kind = "beneficiary" /\ in.person \in People /\ in.place \in Places
    BY <1>1, <2>1
  <2> HIDE DEF in
  <2> QED BY <1>2, <2>2 DEF ValidInput, ValidFor, Eligible, in
<1>6. CASE form \in PayoutForm(context)
  <2>1. PICK a \in DOMAIN context.allocations :
          form \in [kind: {"payout"}, allocation: {a}, person: eligibleBeneficiaries(context, a),
                    batch: {None}]
    BY <1>6 DEF PayoutForm
  <2>2. /\ DOMAIN form = {"kind", "allocation", "person", "batch"} /\ form.kind = "payout"
        /\ form.allocation = a /\ form.batch = None
        /\ form.person \in eligibleBeneficiaries(context, a)
    BY <2>1
  <2>3. /\ in.kind = "payout" /\ in.allocation = a /\ in.batch = None /\ in.person = form.person
    BY <1>1, <2>2
  <2>4. /\ a \in DOMAIN rows.allocations /\ form.person \in DOMAIN rows.people
        /\ rows.people[form.person] = rows.allocations[a].place
    BY <2>2 DEF Old, OldIn, eligibleBeneficiaries
  <2> HIDE DEF in
  <2> QED BY <1>2, <2>3, <2>4 DEF ValidInput, ValidFor, Eligible, in
<1> QED BY <1>3, <1>4, <1>5, <1>6 DEF Forms
-----------------------------------------------------------------------------
(***************************************************************************)
(* A book only grows: rows keep their owner, place and references.         *)
(***************************************************************************)
Extends(b, n) ==
  /\ IsBook(n)
  /\ \A s \in DOMAIN b.sources :
       s \in DOMAIN n.sources /\ n.sources[s].owner = b.sources[s].owner
  /\ \A a \in DOMAIN b.allocations :
       /\ a \in DOMAIN n.allocations
       /\ n.allocations[a].source = b.allocations[a].source
       /\ n.allocations[a].owner = b.allocations[a].owner
       /\ n.allocations[a].place = b.allocations[a].place
  /\ \A p \in DOMAIN b.people : p \in DOMAIN n.people /\ n.people[p] = b.people[p]
  /\ \A p \in DOMAIN b.payouts :
       p \in DOMAIN n.payouts /\ n.payouts[p].allocation = b.payouts[p].allocation

\* A move of a payout adds and removes nothing.
LEMMA MovedExtends ==
  ASSUME NEW b, NEW n, NEW p, NEW status, NEW dr, NEW dd, Moved(b, n, p, status, dr, dd)
  PROVE  /\ Extends(b, n)
         /\ Used(n) = Used(b) /\ DOMAIN n.people = DOMAIN b.people
         /\ DOMAIN n.sources = DOMAIN b.sources
         /\ DOMAIN n.allocations = DOMAIN b.allocations
         /\ DOMAIN n.payouts = DOMAIN b.payouts
BY DEF Moved, Extends, SameButCounters, Used

\* A write of a call adds at most a row, under its own id.
LEMMA AfterExtends ==
  ASSUME NEW b, IsBook(b), NEW id, id \notin Used(b), NEW in, ValidFor(b, in),
         in.kind = "beneficiary" => in.person \notin DOMAIN b.people
  PROVE  /\ Extends(b, After(b, id, in))
         /\ Used(After(b, id, in)) \subseteq Used(b) \cup {id}
<1> DEFINE n == After(b, id, in)
<1>1. CASE in.kind = "source"
  <2>1. /\ IsBook(n) /\ n.allocations = b.allocations /\ n.people = b.people /\ n.payouts = b.payouts
        /\ n.sources = With(b.sources, id, [owner |-> OrgOf[in.user], allocated |-> 0])
    BY <1>1, SourceAdded DEF ValidFor
  <2> HIDE DEF n
  <2> QED BY <2>1 DEF Extends, With, Used, n
<1>2. CASE in.kind = "allocation"
  <2>1. id \notin DOMAIN b.allocations /\ in.user \in Users /\ in.source \in DOMAIN b.sources
        /\ in.place \in Places
    BY <1>2 DEF ValidFor, Used
  <2>2. /\ IsBook(n) /\ n.people = b.people /\ n.payouts = b.payouts
        /\ DOMAIN n.sources = DOMAIN b.sources
        /\ \A s \in DOMAIN b.sources : n.sources[s].owner = b.sources[s].owner
        /\ n.allocations = With(b.allocations, id, [source |-> in.source, owner |-> OrgOf[in.user],
                                       place |-> in.place, reserved |-> 0, disbursed |-> 0])
    BY <1>2, <2>1, AllocationAdded
  <2> HIDE DEF n
  <2> QED BY <2>1, <2>2 DEF Extends, With, Used, n
<1>3. CASE in.kind = "beneficiary"
  <2>1. /\ IsBook(n) /\ n.sources = b.sources /\ n.allocations = b.allocations /\ n.payouts = b.payouts
        /\ n.people = With(b.people, in.person, in.place)
    BY <1>3, PersonAdded DEF ValidFor
  <2> HIDE DEF n
  <2> QED BY <1>3, <2>1 DEF Extends, With, Used, n
<1>4. CASE in.kind = "payout"
  <2>1. in.allocation \in DOMAIN b.allocations /\ in.person \in People /\ in.batch \in Batches \cup {None}
    BY <1>4 DEF ValidFor, IsBook
  <2>2. /\ IsBook(n) /\ n.sources = b.sources /\ n.people = b.people
        /\ SameButCounters(b.allocations, n.allocations)
        /\ n.payouts = With(b.payouts, id, [allocation |-> in.allocation, person |-> in.person,
                                            batch |-> in.batch, status |-> "PENDING"])
    BY <1>4, <2>1, PayoutAdded
  <2> HIDE DEF n
  <2> QED BY <2>2 DEF Extends, With, Used, SameButCounters, n
<1>5. CASE in.kind = "reversal"
  <2>1. n = Reversed(b, in.payout) /\ in.payout \in DOMAIN b.payouts
    BY <1>5 DEF After, ValidFor
  <2>2. Moved(b, n, in.payout, "REVERSED", 0, -1)
    BY <2>1, ReversedMoves
  <2> HIDE DEF n
  <2> QED BY <2>2, MovedExtends DEF n
<1> QED BY <1>1, <1>2, <1>3, <1>4, <1>5 DEF ValidFor

\* What is valid stays valid.
LEMMA ValidStays ==
  ASSUME NEW b, NEW n, Extends(b, n), NEW in, ValidFor(b, in)
  PROVE  ValidFor(n, in)
BY DEF Extends, ValidFor

-----------------------------------------------------------------------------
(***************************************************************************)
(* The rows and the calls.                                                 *)
(***************************************************************************)
\* What is about to be recorded is the outcome of a row.
Outcomes ==
  /\ DOMAIN recording \subseteq DOMAIN rows.payouts
  /\ \A p \in DOMAIN recording : recording[p] \in {"SETTLED", "FAILED"}

Tidy == IsBook(rows) /\ Control /\ RowsFresh /\ Outcomes

\* What happens to the rows in one step.
RowsStep ==
  \/ UNCHANGED rows
  \/ \E c \in Calls : Wrote(c)
  \/ \E p \in DOMAIN recording : Records(p)
  \/ \E p \in DOMAIN rows.payouts : Doubts(p)

\* What a decision leaves of the rows.
LEMMA RecordsMoves ==
  ASSUME Tidy, NEW p \in DOMAIN recording, Records(p)
  PROVE  /\ recording[p] \in {"SETTLED", "FAILED"} /\ p \in DOMAIN rows.payouts
         /\ Moved(rows, rows', p, recording[p], -1, IF recording[p] = "SETTLED" THEN 1 ELSE 0)
<1>1. IsBook(rows) /\ p \in DOMAIN rows.payouts /\ recording[p] \in {"SETTLED", "FAILED"}
  BY DEF Tidy, Outcomes
<1> QED BY <1>1, DecidedMoves DEF Records

LEMMA DoubtsMoves ==
  ASSUME Tidy, NEW p \in DOMAIN rows.payouts, Doubts(p)
  PROVE  Moved(rows, rows', p, "UNKNOWN", 0, 0)
BY UnknownMoves DEF Tidy, Doubts

\* No write takes anything from the rows.
LEMMA RowsExtend ==
  ASSUME Tidy, RowsStep
  PROVE  Extends(rows, rows')
<1>1. CASE UNCHANGED rows
  BY <1>1 DEF Extends, Tidy
<1>2. ASSUME NEW c \in Calls, Wrote(c) PROVE Extends(rows, rows')
  <2>1. /\ pc[c] = "writing" /\ Unique(input[c]) /\ rows' = After(rows, c, input[c])
    BY <1>2 DEF Wrote
  <2>2. /\ IsBook(rows) /\ c \notin Used(rows) /\ ValidFor(rows, input[c])
        /\ input[c].kind = "beneficiary" => input[c].person \notin DOMAIN rows.people
    BY <2>1 DEF Tidy, RowsFresh, Control, InFlight, Unique, ValidInput
  <2> QED BY <2>1, <2>2, AfterExtends
<1>3. ASSUME NEW p \in DOMAIN recording, Records(p) PROVE Extends(rows, rows')
  BY <1>3, RecordsMoves, MovedExtends
<1>4. ASSUME NEW p \in DOMAIN rows.payouts, Doubts(p) PROVE Extends(rows, rows')
  BY <1>4, DoubtsMoves, MovedExtends
<1> QED BY <1>1, <1>2, <1>3, <1>4 DEF RowsStep

\* A step as the books, the calls, their inputs and the decisions see it.
BookStep ==
  \/ \E c \in Calls :
       \/ Began(c) \/ TookLocks(c) \/ Took(c) \/ Wrote(c) \/ Ended(c)
       \/ \E in : Asked(c, in)
  \/ \E p \in DOMAIN rows.payouts, s \in {"SETTLED", "FAILED"} : Decides(p, s)
  \/ \E p \in DOMAIN rows.payouts : Doubts(p)
  \/ \E p \in DOMAIN recording : Settles(p)
  \/ UNCHANGED <<world, rows, pc, input, recording>>

\* Only writes and decisions change the rows.
LEMMA BookStepRows == BookStep => RowsStep
BY DEF BookStep, RowsStep, Began, TookLocks, Took, Ended, Asked, Decides, Settles, Forgets

\* A step of a decision: no call moves.
DecisionStep ==
  \/ \E p \in DOMAIN rows.payouts, s \in {"SETTLED", "FAILED"} : Decides(p, s)
  \/ \E p \in DOMAIN rows.payouts : Doubts(p)
  \/ \E p \in DOMAIN recording : Settles(p)

LEMMA NoCallMoves == DecisionStep => UNCHANGED <<pc, input>>
BY DEF DecisionStep, Decides, Doubts, Settles, Records, Forgets

\* Whatever is in the tables and on its way keeps its shape.
LEMMA TidyStep ==
  ASSUME Tidy, BookStep
  PROVE  Tidy'
<1>1. Extends(rows, rows')
  BY RowsExtend, BookStepRows
<1>2. IsBook(rows')
  BY <1>1 DEF Extends
<1>3. ASSUME NEW in, ValidInput(in) PROVE ValidInput(in)'
  BY <1>1, <1>3, ValidStays DEF ValidInput
<1>4. ASSUME NEW c \in Calls, Wrote(c) PROVE Used(rows') \subseteq Used(rows) \cup {c}
  <2>1. /\ pc[c] = "writing" /\ Unique(input[c]) /\ rows' = After(rows, c, input[c])
    BY <1>4 DEF Wrote
  <2>2. /\ IsBook(rows) /\ c \notin Used(rows) /\ ValidFor(rows, input[c])
        /\ input[c].kind = "beneficiary" => input[c].person \notin DOMAIN rows.people
    BY <2>1 DEF Tidy, RowsFresh, Control, InFlight, Unique, ValidInput
  <2> QED BY <2>1, <2>2, AfterExtends
<1>5. CASE DecisionStep
  <2>1. ASSUME NEW p \in DOMAIN rows.payouts, NEW s \in {"SETTLED", "FAILED"}, Decides(p, s)
        PROVE  Used(rows') = Used(rows) /\ Outcomes'
    BY <2>1 DEF Decides, Tidy, Outcomes, With
  <2>2. ASSUME NEW p \in DOMAIN rows.payouts, Doubts(p) PROVE Used(rows') = Used(rows) /\ Outcomes'
    <3>1. Used(rows') = Used(rows) /\ DOMAIN rows'.payouts = DOMAIN rows.payouts
      BY <2>2, DoubtsMoves, MovedExtends
    <3> QED BY <2>2, <3>1 DEF Doubts, Tidy, Outcomes
  <2>3. ASSUME NEW p \in DOMAIN recording, Records(p) PROVE Used(rows') = Used(rows) /\ Outcomes'
    <3>1. Used(rows') = Used(rows) /\ DOMAIN rows'.payouts = DOMAIN rows.payouts
      BY <2>3, RecordsMoves, MovedExtends
    <3> QED BY <2>3, <3>1 DEF Records, Tidy, Outcomes, Without
  <2>4. ASSUME NEW p \in DOMAIN recording, Forgets(p) PROVE Used(rows') = Used(rows) /\ Outcomes'
    BY <2>4 DEF Forgets, Tidy, Outcomes, Without
  <2>5. Used(rows') = Used(rows) /\ Outcomes'
    BY <1>5, <2>1, <2>2, <2>3, <2>4 DEF DecisionStep, Settles
  <2>6. UNCHANGED <<pc, input>>
    BY <1>5, NoCallMoves
  <2>7. Control'
    BY <1>3, <2>6 DEF Tidy, Control, InFlight
  <2>8. RowsFresh'
    BY <2>5, <2>6 DEF Tidy, RowsFresh
  <2> QED BY <1>2, <2>5, <2>7, <2>8 DEF Tidy
<1>6. pc' \in [Calls -> Stages] /\ DOMAIN input' = Calls
  <2>1. CASE UNCHANGED <<pc, input>>
    BY <2>1 DEF Tidy, Control
  <2>2. ASSUME NEW c \in Calls, Began(c) \/ TookLocks(c) \/ Took(c) \/ Wrote(c) \/ Ended(c)
        PROVE  pc' \in [Calls -> Stages] /\ DOMAIN input' = Calls
    BY <2>2 DEF Tidy, Control, Stages, Began, TookLocks, Took, Wrote, Ended, Closed, Goto
  <2>3. ASSUME NEW c \in Calls, NEW in, Asked(c, in)
        PROVE  pc' \in [Calls -> Stages] /\ DOMAIN input' = Calls
    BY <2>3 DEF Tidy, Control, Stages, Asked, Closed, Goto
  <2> QED BY <2>1, <2>2, <2>3, NoCallMoves DEF BookStep, DecisionStep
<1>7. ASSUME ~DecisionStep, NEW d \in Calls, InFlight(d)' PROVE ValidInput(input[d])'
  <2>1. CASE InFlight(d) /\ input'[d] = input[d]
    BY <1>3, <2>1 DEF Tidy, Control
  <2>2. ASSUME NEW c \in Calls, Began(c) \/ TookLocks(c) \/ Took(c) \/ Wrote(c)
        PROVE  InFlight(d) /\ input'[d] = input[d]
    BY <1>7, <2>2 DEF Tidy, Control, InFlight, Began, TookLocks, Took, Wrote, Closed, Goto
  <2>3. ASSUME NEW c \in Calls, Ended(c) PROVE InFlight(d) /\ input'[d] = input[d]
    BY <1>7, <2>3 DEF Tidy, Control, InFlight, Ended, Closed, Goto
  <2>5. CASE UNCHANGED <<world, rows, pc, input, recording>>
    BY <1>7, <2>1, <2>5 DEF InFlight
  <2>6. ASSUME NEW c \in Calls, NEW in, Asked(c, in) PROVE ValidInput(input[d])'
    <3>1. CASE d = c
      BY <1>3, <1>7, <2>6, <3>1 DEF Asked, Tidy, Control, InFlight, Closed, Goto
    <3>2. CASE d # c
      BY <1>7, <2>1, <2>6, <3>2 DEF Asked, Tidy, Control, InFlight, Closed, Goto
    <3> QED BY <3>1, <3>2
  <2> QED BY <1>7, <2>1, <2>2, <2>3, <2>5, <2>6 DEF BookStep, DecisionStep
<1>8. ASSUME ~DecisionStep, NEW d \in Calls, pc'[d] \notin {"publishing", "done"} PROVE d \notin Used(rows')
  <2>1. pc[d] \notin {"publishing", "done"} => d \notin Used(rows)
    BY DEF Tidy, RowsFresh
  <2>2. ASSUME NEW c \in Calls, Wrote(c) PROVE d \notin Used(rows')
    <3>1. d # c /\ pc'[d] = pc[d]
      BY <1>8, <2>2 DEF Wrote, Closed, Goto, Tidy, Control
    <3> QED BY <1>4, <1>8, <2>1, <2>2, <3>1
  <2>3. ASSUME NEW c \in Calls, Began(c) \/ TookLocks(c) \/ Took(c) PROVE d \notin Used(rows')
    BY <1>8, <2>1, <2>3 DEF Began, TookLocks, Took, Closed, Goto, Tidy, Control
  <2>4. ASSUME NEW c \in Calls, Ended(c) PROVE d \notin Used(rows')
    BY <1>8, <2>1, <2>4 DEF Ended, Closed, Goto, Tidy, Control
  <2>5. ASSUME NEW c \in Calls, NEW in, Asked(c, in) PROVE d \notin Used(rows')
    BY <1>8, <2>1, <2>5 DEF Asked, Closed, Goto, Tidy, Control
  <2>7. CASE UNCHANGED <<world, rows, pc, input, recording>>
    BY <1>8, <2>1, <2>7
  <2> QED BY <1>8, <2>2, <2>3, <2>4, <2>5, <2>7 DEF BookStep, DecisionStep
<1>9. ASSUME ~DecisionStep PROVE Outcomes'
  <2>1. UNCHANGED recording
    BY <1>9 DEF BookStep, DecisionStep, Began, TookLocks, Took, Wrote, Ended, Asked
  <2> QED BY <1>1, <2>1 DEF Tidy, Outcomes, Extends
<1> QED BY <1>2, <1>5, <1>6, <1>7, <1>8, <1>9 DEF Tidy, Control, RowsFresh

\* In the beginning there are the seeds, and no call.
LEMMA TidyInit == Init => Tidy
<1> SUFFICES ASSUME Init PROVE Tidy
  OBVIOUS
<1>1. rows = Seeds /\ pc = [c \in Calls |-> "new"] /\ input = [c \in Calls |-> None]
  BY DEF Init, ServicesInit
<1>2. IsBook(rows) /\ RowsFresh
  BY <1>1, SeedsAssumption DEF RowsFresh
<1>4. Outcomes
  BY DEF Init, ServicesInit, Outcomes
<1>3. Control
  BY <1>1 DEF Control, InFlight, Stages
<1> QED BY <1>2, <1>3, <1>4 DEF Tidy
-----------------------------------------------------------------------------
(***************************************************************************)
(* The locks, and what a call has checked under them.                     *)
(***************************************************************************)
\* What a book has once it has what a call is about to write.
Has(b, id, in) ==
  /\ in.kind = "source" => id \in DOMAIN b.sources
  /\ in.kind = "allocation" =>
       /\ id \in DOMAIN b.allocations
       /\ b.allocations[id].owner = OrgOf[in.user] /\ b.allocations[id].place = in.place
  /\ in.kind = "beneficiary" =>
       in.person \in DOMAIN b.people /\ b.people[in.person] = in.place
  /\ in.kind = "payout" => id \in DOMAIN b.payouts /\ b.payouts[id].status = "PENDING"
  /\ in.kind = "reversal" => b.payouts[in.payout].status = "REVERSED"

\* How a write of a call changes the statuses of payouts.
LEMMA AfterStatuses ==
  ASSUME NEW b, IsBook(b), NEW id, id \notin Used(b), NEW in, ValidFor(b, in)
  PROVE  /\ Has(After(b, id, in), id, in)
         /\ \A p \in DOMAIN b.payouts :
              After(b, id, in).payouts[p].status =
                IF in.kind = "reversal" /\ p = in.payout THEN "REVERSED" ELSE b.payouts[p].status
<1> DEFINE n == After(b, id, in)
<1>1. CASE in.kind = "source"
  <2>1. /\ n.payouts = b.payouts
        /\ n.sources = With(b.sources, id, [owner |-> OrgOf[in.user], allocated |-> 0])
    BY <1>1, SourceAdded DEF ValidFor
  <2> HIDE DEF n
  <2> QED BY <1>1, <2>1 DEF Has, With, n
<1>2. CASE in.kind = "allocation"
  <2>1. id \notin DOMAIN b.allocations /\ in.user \in Users /\ in.source \in DOMAIN b.sources
        /\ in.place \in Places
    BY <1>2 DEF ValidFor, Used
  <2>2. /\ n.payouts = b.payouts
        /\ n.allocations = With(b.allocations, id, [source |-> in.source, owner |-> OrgOf[in.user],
                                       place |-> in.place, reserved |-> 0, disbursed |-> 0])
    BY <1>2, <2>1, AllocationAdded
  <2> HIDE DEF n
  <2> QED BY <1>2, <2>1, <2>2 DEF Has, With, n
<1>3. CASE in.kind = "beneficiary"
  <2>1. n.payouts = b.payouts /\ n.people = With(b.people, in.person, in.place)
    BY <1>3, PersonAdded DEF ValidFor
  <2> HIDE DEF n
  <2> QED BY <1>3, <2>1 DEF Has, With, n
<1>4. CASE in.kind = "payout"
  <2>1. in.allocation \in DOMAIN b.allocations /\ in.person \in People /\ in.batch \in Batches \cup {None}
    BY <1>4 DEF ValidFor, IsBook
  <2>2. n.payouts = With(b.payouts, id, [allocation |-> in.allocation, person |-> in.person,
                                         batch |-> in.batch, status |-> "PENDING"])
    BY <1>4, <2>1, PayoutAdded
  <2>3. id \notin DOMAIN b.payouts
    BY DEF Used
  <2> HIDE DEF n
  <2> QED BY <1>4, <2>2, <2>3 DEF Has, With, n
<1>5. CASE in.kind = "reversal"
  <2>1. n = Reversed(b, in.payout) /\ in.payout \in DOMAIN b.payouts
    BY <1>5 DEF After, ValidFor
  <2>2. Moved(b, n, in.payout, "REVERSED", 0, -1)
    BY <2>1, ReversedMoves
  <2> HIDE DEF n
  <2> QED BY <1>5, <2>1, <2>2 DEF Moved, Has, n
<1> QED BY <1>1, <1>2, <1>3, <1>4, <1>5 DEF ValidFor

HasLocks(c) == c \in Connected /\ pc[c] # "begun"

\* Calls that hold locks hold different ones, and what a transaction has found
\* affordable under its locks stays so until it writes.
Guarded ==
  /\ \A c, d \in Calls : c # d /\ HasLocks(c) /\ HasLocks(d)
       => RowLocks(input[c]) \cap RowLocks(input[d]) = {}
  /\ \A c \in Calls : pc[c] \in {"submitting", "writing"} /\ InTransaction(input[c]) =>
       /\ Affordable(rows, input[c])
       /\ Reversible(rows, input[c])

\* What is about to be recorded is the outcome of a payout that is open.
Open == {"PENDING", "UNKNOWN"}

Settling == \A p \in DOMAIN recording : rows.payouts[p].status \in Open

\* The calls that hold locks, by where they are.
LEMMA LocksAre ==
  ASSUME NEW c \in Calls
  PROVE  HasLocks(c) <=> /\ pc[c] \notin {"new", "done", "waiting", "begun"}
                         /\ InTransaction(input[c])
BY DEF HasLocks, Connected, InFlight

\* A write leaves alone what a call with other locks has checked.
LEMMA WriteSpares ==
  ASSUME Tidy, NEW c \in Calls, pc[c] = "writing", rows' = After(rows, c, input[c]), Unique(input[c]),
         NEW in, ValidInput(in), InTransaction(in), Affordable(rows, in),
         Reversible(rows, in),
         InTransaction(input[c]) => RowLocks(input[c]) \cap RowLocks(in) = {}
  PROVE  /\ Affordable(rows', in)
         /\ Reversible(rows', in)
<1> DEFINE w == input[c]
<1>1. /\ IsBook(rows) /\ c \notin Used(rows) /\ ValidFor(rows, w) /\ ValidFor(rows, in)
      /\ rows' = After(rows, c, w)
  BY DEF Tidy, RowsFresh, Control, InFlight, ValidInput
<1>2. in.kind \in {"allocation", "payout", "reversal"}
  BY DEF InTransaction
<1>3. c \notin DOMAIN rows.sources /\ c \notin DOMAIN rows.allocations /\ c \notin DOMAIN rows.payouts
  BY <1>1 DEF Used
<1>4. InTransaction(w) => RowLocks(w) \cap RowLocks(in) = {}
  OBVIOUS
<1> HIDE DEF w
<1> USE <1>2
<1>5. CASE w.kind = "source"
  <2>1. /\ rows'.sources = With(rows.sources, c, [owner |-> OrgOf[w.user], allocated |-> 0])
        /\ rows'.allocations = rows.allocations /\ rows'.payouts = rows.payouts
    BY <1>1, <1>5, SourceAdded DEF ValidFor
  <2> QED BY <1>1, <1>3, <2>1 DEF Affordable, Reversible, Promised, With, ValidFor
<1>6. CASE w.kind = "allocation"
  <2>1. w.user \in Users /\ w.source \in DOMAIN rows.sources /\ w.place \in Places
    BY <1>1, <1>6 DEF ValidFor
  <2>2. /\ \A s \in DOMAIN rows.sources : s # w.source =>
             rows'.sources[s].allocated = rows.sources[s].allocated + 0
        /\ rows'.allocations = With(rows.allocations, c,
             [source |-> w.source, owner |-> OrgOf[w.user], place |-> w.place,
              reserved |-> 0, disbursed |-> 0])
        /\ rows'.payouts = rows.payouts
    BY <1>1, <1>3, <1>6, <2>1, AllocationAdded
  <2>3. \A s \in DOMAIN rows.sources : rows.sources[s].allocated \in Int
    BY <1>1 DEF IsBook
  <2>4. in.kind = "allocation" => in.source # w.source
    BY <1>4, <1>6 DEF RowLocks, InTransaction
  <2> QED BY <1>1, <1>3, <2>2, <2>3, <2>4 DEF Affordable, Reversible, Promised, With, ValidFor
<1>7. CASE w.kind = "beneficiary"
  <2>1. /\ rows'.sources = rows.sources /\ rows'.allocations = rows.allocations
        /\ rows'.payouts = rows.payouts
    BY <1>1, <1>7, PersonAdded DEF ValidFor
  <2> QED BY <1>1, <2>1 DEF Affordable, Reversible, Promised, ValidFor
<1>8. CASE w.kind = "payout"
  <2>1. w.allocation \in DOMAIN rows.allocations /\ w.person \in People /\ w.batch \in Batches \cup {None}
    BY <1>1, <1>8 DEF ValidFor, IsBook
  <2>2. /\ rows'.sources = rows.sources
        /\ \A a \in DOMAIN rows.allocations : a # w.allocation =>
             /\ rows'.allocations[a].reserved = rows.allocations[a].reserved + 0
             /\ rows'.allocations[a].disbursed = rows.allocations[a].disbursed
        /\ rows'.payouts = With(rows.payouts, c, [allocation |-> w.allocation, person |-> w.person,
                                                  batch |-> w.batch, status |-> "PENDING"])
    BY <1>1, <1>8, <2>1, PayoutAdded
  <2>3. \A a \in DOMAIN rows.allocations : rows.allocations[a].reserved \in Int
    BY <1>1 DEF IsBook
  <2>4. in.kind = "payout" => in.allocation # w.allocation
    BY <1>4, <1>8 DEF RowLocks, InTransaction
  <2> QED BY <1>1, <1>3, <2>2, <2>3, <2>4 DEF Affordable, Reversible, Promised, With, ValidFor
<1>9. CASE w.kind = "reversal"
  <2>1. rows' = Reversed(rows, w.payout) /\ w.payout \in DOMAIN rows.payouts
    BY <1>1, <1>9 DEF After, ValidFor
  <2>2. Moved(rows, rows', w.payout, "REVERSED", 0, -1)
    BY <1>1, <2>1, ReversedMoves
  <2>3. \A a \in DOMAIN rows.allocations :
          rows.allocations[a].reserved \in Int /\ rows.allocations[a].disbursed \in Int
    BY <1>1 DEF IsBook
  <2>4. /\ in.kind = "payout" => in.allocation # rows.payouts[w.payout].allocation
        /\ in.kind = "reversal" => in.payout # w.payout
    BY <1>4, <1>9 DEF RowLocks, InTransaction, AllocationOf
  <2> QED BY <1>1, <2>2, <2>3, <2>4 DEF Affordable, Reversible, Promised, Moved, ValidFor
<1> QED BY <1>1, <1>5, <1>6, <1>7, <1>8, <1>9 DEF ValidFor

\* So does a decision: it reserves nothing, and is not of a payout that is settled.
LEMMA MoveSpares ==
  ASSUME Tidy, NEW p \in DOMAIN rows.payouts, rows.payouts[p].status \in Open,
         NEW status, NEW dr \in Int, NEW dd \in Int, dr + dd <= 0,
         Moved(rows, rows', p, status, dr, dd),
         NEW in, ValidInput(in), InTransaction(in), Affordable(rows, in), Reversible(rows, in)
  PROVE  Affordable(rows', in) /\ Reversible(rows', in)
<1>1. \A a \in DOMAIN rows.allocations :
        rows.allocations[a].reserved \in Int /\ rows.allocations[a].disbursed \in Int
  BY DEF Tidy, IsBook
<1>2. Affordable(rows', in)
  <2>1. CASE in.kind = "allocation"
    BY <2>1 DEF Affordable, Moved
  <2>2. CASE in.kind = "payout"
    <3>1. /\ rows'.allocations[in.allocation].reserved \in
               {rows.allocations[in.allocation].reserved + dr, rows.allocations[in.allocation].reserved + 0}
          /\ in.allocation \in DOMAIN rows.allocations
      BY <2>2 DEF Moved, ValidInput, ValidFor
    <3>2. Promised(rows'.allocations[in.allocation]) <= Promised(rows.allocations[in.allocation])
      BY <1>1, <2>2 DEF Promised, Moved, ValidInput, ValidFor
    <3>3. /\ Promised(rows'.allocations[in.allocation]) \in Int
          /\ Promised(rows.allocations[in.allocation]) \in Int
      BY <1>1, <3>1 DEF Promised, Moved
    <3>4. Promised(rows.allocations[in.allocation]) + 1 <= AllocationAmount
      BY <2>2 DEF Affordable
    <3> QED BY <2>2, <3>2, <3>3, <3>4, ServicesAssumption DEF Affordable
  <2> QED BY <2>1, <2>2 DEF Affordable
<1>3. Reversible(rows', in)
  BY DEF Reversible, Moved, ValidInput, ValidFor, Open
<1> QED BY <1>2, <1>3

LEMMA DecisionSpares ==
  ASSUME Tidy, Settling,
         \/ \E p \in DOMAIN recording : Records(p)
         \/ \E p \in DOMAIN rows.payouts : Doubts(p),
         NEW in, ValidInput(in), InTransaction(in), Affordable(rows, in), Reversible(rows, in)
  PROVE  Affordable(rows', in) /\ Reversible(rows', in)
<1>1. ASSUME NEW p \in DOMAIN recording, Records(p) PROVE Affordable(rows', in) /\ Reversible(rows', in)
  <2> DEFINE one == IF recording[p] = "SETTLED" THEN 1 ELSE 0
  <2>1. p \in DOMAIN rows.payouts /\ Moved(rows, rows', p, recording[p], -1, one)
    BY <1>1, RecordsMoves
  <2>2. rows.payouts[p].status \in Open /\ -1 \in Int /\ one \in Int /\ -1 + one <= 0
    BY DEF Settling
  <2> HIDE DEF one
  <2> QED BY <2>1, <2>2, MoveSpares
<1>2. ASSUME NEW p \in DOMAIN rows.payouts, Doubts(p) PROVE Affordable(rows', in) /\ Reversible(rows', in)
  <2>1. Moved(rows, rows', p, "UNKNOWN", 0, 0)
    BY <1>2, DoubtsMoves
  <2>2. rows.payouts[p].status \in Open
    BY <1>2 DEF Doubts, Open
  <2> QED BY <2>1, <2>2, MoveSpares
<1> QED BY <1>1, <1>2

\* A call that holds locks after a step held them before, for the same rows, or
\* has just found them free.
LEMMA LocksStep ==
  ASSUME Tidy, BookStep, NEW d \in Calls, HasLocks(d)'
  PROVE  /\ InFlight(d) /\ InTransaction(input[d]) /\ input'[d] = input[d]
         /\ RowLocks(input[d])' = RowLocks(input[d])
         /\ HasLocks(d) \/ TookLocks(d)
<1>1. Extends(rows, rows')
  BY BookStepRows, RowsExtend
<1>2. pc'[d] \notin {"new", "done", "waiting", "begun"} /\ InTransaction(input'[d])
  BY DEF HasLocks, Connected, InFlight
<1>3. ASSUME InFlight(d), input'[d] = input[d], pc[d] \notin {"waiting", "begun"} \/ TookLocks(d)
      PROVE  /\ InFlight(d) /\ InTransaction(input[d]) /\ input'[d] = input[d]
             /\ RowLocks(input[d])' = RowLocks(input[d])
             /\ HasLocks(d) \/ TookLocks(d)
  <2>1. ValidInput(input[d])
    BY <1>3 DEF Tidy, Control
  <2>3. RowLocks(input[d])' = RowLocks(input[d])
    BY <1>2, <1>3, <2>1, <1>1 DEF RowLocks, AllocationOf, ValidInput, ValidFor, Extends, InTransaction
  <2> QED BY <1>2, <1>3, <2>3 DEF HasLocks, Connected, InFlight
<1>4. ASSUME NEW c \in Calls, NEW in, Asked(c, in)
      PROVE  InFlight(d) /\ input'[d] = input[d] /\ (pc[d] \notin {"waiting", "begun"} \/ TookLocks(d))
  <2>1. c # d
    BY <1>2, <1>4 DEF Asked, Closed, Goto, Tidy, Control
  <2> QED BY <1>2, <1>4, <2>1 DEF Asked, Closed, Goto, Tidy, Control, InFlight
<1>5. ASSUME NEW c \in Calls, Began(c) \/ TookLocks(c) \/ Took(c) \/ Wrote(c)
      PROVE  InFlight(d) /\ input'[d] = input[d] /\ (pc[d] \notin {"waiting", "begun"} \/ TookLocks(d))
  BY <1>2, <1>5 DEF Began, TookLocks, Took, Wrote, Closed, Goto, Tidy, Control, InFlight
<1>6. ASSUME NEW c \in Calls, Ended(c)
      PROVE  InFlight(d) /\ input'[d] = input[d] /\ (pc[d] \notin {"waiting", "begun"} \/ TookLocks(d))
  BY <1>2, <1>6 DEF Ended, Closed, Goto, Tidy, Control, InFlight
<1>7. ASSUME UNCHANGED <<pc, input>>
      PROVE  InFlight(d) /\ input'[d] = input[d] /\ (pc[d] \notin {"waiting", "begun"} \/ TookLocks(d))
  BY <1>2, <1>7 DEF InFlight
<1> QED BY <1>3, <1>4, <1>5, <1>6, <1>7, NoCallMoves DEF BookStep, DecisionStep

\* Rows are locked by one call at a time.
LEMMA LocksApart ==
  ASSUME Tidy, Guarded, BookStep, NEW c \in Calls, NEW d \in Calls, c # d, HasLocks(c)', HasLocks(d)'
  PROVE  RowLocks(input[c])' \cap RowLocks(input[d])' = {}
<1>1. /\ RowLocks(input[c])' = RowLocks(input[c]) /\ RowLocks(input[d])' = RowLocks(input[d])
      /\ HasLocks(c) \/ TookLocks(c)
      /\ HasLocks(d) \/ TookLocks(d)
  BY LocksStep
<1>2. ~(TookLocks(c) /\ TookLocks(d))
  BY DEF TookLocks, Goto, Tidy, Control
<1>3. \A e \in Calls : HasLocks(e) => RowLocks(input[e]) \subseteq Locked
  BY DEF HasLocks, Locked
<1>4. CASE HasLocks(c) /\ HasLocks(d)
  BY <1>1, <1>4 DEF Guarded
<1>5. CASE TookLocks(c) /\ HasLocks(d)
  BY <1>1, <1>3, <1>5 DEF TookLocks
<1>6. CASE HasLocks(c) /\ TookLocks(d)
  BY <1>1, <1>3, <1>6 DEF TookLocks
<1> QED BY <1>1, <1>2, <1>4, <1>5, <1>6, LocksStep

\* What was checked under the locks holds as long as they are held.
LEMMA ChecksHold ==
  ASSUME Tidy, Guarded, Settling, BookStep, NEW d \in Calls,
         pc'[d] \in {"submitting", "writing"}, InTransaction(input'[d])
  PROVE  /\ Affordable(rows', input'[d])
         /\ Reversible(rows', input'[d])
<1> DEFINE in == input[d]
<1>1. HasLocks(d)'
  BY LocksAre DEF HasLocks, Connected, InFlight
<1>2. InFlight(d) /\ InTransaction(in) /\ input'[d] = in /\ (HasLocks(d) \/ TookLocks(d))
  BY <1>1, LocksStep
<1>3. ValidInput(in) /\ ValidFor(rows, in)
  BY <1>2 DEF Tidy, Control, ValidInput
<1>4. CASE TookLocks(d)
  <2>1. Refusal(in) = "none" /\ rows' = rows
    BY <1>4 DEF TookLocks
  <2> HIDE DEF in
  <2>2. Affordable(rows, in) /\ Reversible(rows, in)
    BY <2>1 DEF Refusal
  <2> QED BY <1>2, <2>1, <2>2
<1>5. CASE HasLocks(d) /\ pc[d] \in {"submitting", "writing"}
  <2>1. Affordable(rows, in) /\ Reversible(rows, in)
    BY <1>2, <1>5 DEF Guarded
  <2>2. ASSUME NEW c \in Calls, Wrote(c)
        PROVE  /\ Affordable(rows', in)
               /\ Reversible(rows', in)
    <3>1. pc[c] = "writing" /\ rows' = After(rows, c, input[c]) /\ Unique(input[c])
      BY <2>2 DEF Wrote
    <3>2. c # d
      BY <2>2 DEF Wrote, Closed, Goto, Tidy, Control
    <3>3. InTransaction(input[c]) => RowLocks(input[c]) \cap RowLocks(in) = {}
      BY <1>5, <3>1, <3>2, LocksAre DEF Guarded
    <3> QED BY <1>2, <1>3, <2>1, <3>1, <3>3, WriteSpares
  <2>3. ASSUME \/ \E p \in DOMAIN recording : Records(p)
               \/ \E p \in DOMAIN rows.payouts : Doubts(p)
        PROVE  /\ Affordable(rows', in)
               /\ Reversible(rows', in)
    BY <1>2, <1>3, <2>1, <2>3, DecisionSpares
  <2>4. UNCHANGED rows => /\ Affordable(rows', in)
                          /\ Reversible(rows', in)
    BY <2>1
  <2> QED BY <1>2, <2>2, <2>3, <2>4, BookStepRows DEF RowsStep
<1>6. HasLocks(d) => pc[d] \in {"submitting", "writing"}
  <2>1. HasLocks(d) => pc[d] \in {"submitting", "writing", "publishing"}
    BY LocksAre DEF Tidy, Control, Stages
  <2>2. pc[d] # "publishing"
    <3>1. CASE UNCHANGED <<pc, input>>
      BY <3>1
    <3>2. ASSUME NEW c \in Calls, Began(c) \/ TookLocks(c) \/ Took(c) \/ Wrote(c) \/ Ended(c)
          PROVE  pc[d] # "publishing"
      BY <3>2 DEF Tidy, Control, Goto, Closed, Began, TookLocks, Took, Wrote, Ended
    <3>3. ASSUME NEW c \in Calls, NEW in0, Asked(c, in0) PROVE pc[d] # "publishing"
      BY <3>3 DEF Tidy, Control, Goto, Closed, Asked
    <3> QED BY <3>1, <3>2, <3>3, NoCallMoves DEF BookStep, DecisionStep
  <2> QED BY <2>1, <2>2
<1> QED BY <1>2, <1>4, <1>5, <1>6

\* A payout that is open stays so while its outcome is about to be recorded: it is
\* not reversed, and recorded only once.
LEMMA SettlingStep ==
  ASSUME Tidy, Guarded, Settling, BookStep
  PROVE  Settling'
<1>1. ASSUME NEW c \in Calls, Wrote(c) PROVE Settling'
  <2> DEFINE in == input[c]
  <2>1. /\ pc[c] = "writing" /\ rows' = After(rows, c, in) /\ UNCHANGED recording
        /\ IsBook(rows) /\ c \notin Used(rows) /\ ValidFor(rows, in)
    BY <1>1 DEF Wrote, Tidy, RowsFresh, Control, InFlight, ValidInput
  <2>2. in.kind = "reversal" => rows.payouts[in.payout].status = "SETTLED"
    BY <2>1 DEF Guarded, InTransaction, Reversible
  <2>3. \A p \in DOMAIN rows.payouts :
          rows'.payouts[p].status =
            IF in.kind = "reversal" /\ p = in.payout THEN "REVERSED" ELSE rows.payouts[p].status
    BY <2>1, AfterStatuses
  <2> HIDE DEF in
  <2> QED BY <2>1, <2>2, <2>3 DEF Settling, Open, Tidy, Outcomes
<1>2. ASSUME NEW p \in DOMAIN recording, Records(p) PROVE Settling'
  <2>1. \A q \in DOMAIN rows.payouts : q # p => rows'.payouts[q].status = rows.payouts[q].status
    BY <1>2, RecordsMoves DEF Moved
  <2> QED BY <1>2, <2>1 DEF Settling, Records, Without, Tidy, Outcomes
<1>3. ASSUME NEW p \in DOMAIN rows.payouts, Doubts(p) PROVE Settling'
  <2>1. \A q \in DOMAIN rows.payouts : q # p => rows'.payouts[q].status = rows.payouts[q].status
    BY <1>3, DoubtsMoves DEF Moved
  <2> QED BY <1>3, <2>1 DEF Settling, Doubts, Tidy, Outcomes
<1>4. ASSUME NEW p \in DOMAIN rows.payouts, NEW s \in {"SETTLED", "FAILED"}, Decides(p, s) PROVE Settling'
  BY <1>4 DEF Settling, Decides, Decidable, With, Open
<1>5. ASSUME NEW p \in DOMAIN recording, Forgets(p) PROVE Settling'
  BY <1>5 DEF Settling, Forgets, Without
<1>6. UNCHANGED <<rows, recording>> => Settling'
  BY DEF Settling
<1>7. ASSUME NEW c \in Calls, Began(c) \/ TookLocks(c) \/ Took(c) \/ Ended(c) \/ \E in : Asked(c, in)
      PROVE  UNCHANGED <<rows, recording>>
  BY <1>7 DEF Began, TookLocks, Took, Ended, Asked
<1> QED BY <1>1, <1>2, <1>3, <1>4, <1>5, <1>6, <1>7 DEF BookStep, Settles

\* Every step keeps the locks apart and the checks true.
LEMMA GuardedStep == Tidy /\ Guarded /\ Settling /\ BookStep => Guarded' /\ Settling'
BY LocksApart, ChecksHold, SettlingStep DEF Guarded

\* In the beginning no call has locks, and nothing is decided.
LEMMA GuardedInit == Init => Guarded /\ Settling
<1> SUFFICES ASSUME Init PROVE Guarded /\ Settling
  OBVIOUS
<1>1. pc = [c \in Calls |-> "new"] /\ recording = <<>>
  BY DEF Init, ServicesInit
<1> QED BY <1>1 DEF Guarded, HasLocks, Connected, InFlight, Settling

-----------------------------------------------------------------------------
(***************************************************************************)
(* The ledger is ahead of the tables, by what is being written or decided. *)
(***************************************************************************)
Follows ==
  /\ DOMAIN rows.sources \subseteq DOMAIN world.sources
  /\ \A a \in DOMAIN rows.allocations :
       /\ a \in DOMAIN world.allocations
       /\ rows.allocations[a].owner = world.allocations[a].owner
       /\ rows.allocations[a].place = world.allocations[a].place
  /\ \A p \in DOMAIN rows.people :
       p \in DOMAIN world.people /\ rows.people[p] = world.people[p]
  /\ \A p \in DOMAIN rows.payouts :
       /\ p \in DOMAIN world.payouts
       /\ world.payouts[p].status \in LedgerAt(rows.payouts[p].status)

Ahead == \A c \in Calls : pc[c] = "writing" => Has(world, c, input[c])

WorldFresh ==
  \A c \in Calls : pc[c] \notin {"writing", "publishing", "done"} => c \notin Used(world)

\* The ledger has the outcome that is about to be recorded.
Told == \A p \in DOMAIN recording : world.payouts[p].status = recording[p]

Ledger == IsBook(world) /\ WorldFresh /\ Follows /\ Ahead /\ Told

\* What the contract accepts, it can do.
LEMMA TookValid ==
  ASSUME Mode = "fabric", Tidy, Ledger, NEW c \in Calls, Took(c)
  PROVE  /\ c \notin Used(world) /\ ValidFor(world, input[c])
         /\ input[c].kind = "beneficiary" => input[c].person \notin DOMAIN world.people
         /\ input[c].kind = "reversal" =>
              input[c].payout \in DOMAIN rows.payouts /\ world.payouts[input[c].payout].status = "SETTLED"
         /\ Extends(world, world')
         /\ Used(world') \subseteq Used(world) \cup {c}
<1>1. pc[c] = "submitting" /\ Accepted(input[c]) /\ world' = After(world, c, input[c])
  BY DEF Took
<1>2. c \notin Used(world) /\ IsBook(world)
  BY <1>1 DEF Ledger, WorldFresh
<1>3. ValidFor(rows, input[c])
  BY <1>1 DEF Tidy, Control, InFlight, ValidInput
<1>4. ValidFor(world, input[c])
  BY <1>3 DEF ValidFor, Ledger, Follows
<1>5. /\ input[c].kind = "beneficiary" => input[c].person \notin DOMAIN world.people
      /\ input[c].kind = "reversal" =>
           input[c].payout \in DOMAIN rows.payouts /\ world.payouts[input[c].payout].status = "SETTLED"
  BY <1>1, <1>3 DEF Accepted, Reversible, InTransaction, ValidFor
<1> QED BY <1>1, <1>2, <1>4, <1>5, AfterExtends

\* A step of the ledger.
LEMMA LedgerTook ==
  ASSUME Mode = "fabric", Tidy, Guarded, Settling, Ledger, NEW c \in Calls, Took(c)
  PROVE  Ledger'
<1> DEFINE in == input[c]
<1>1. /\ c \notin Used(world) /\ ValidFor(world, in)
      /\ in.kind = "reversal" =>
           in.payout \in DOMAIN rows.payouts /\ world.payouts[in.payout].status = "SETTLED"
      /\ Extends(world, world') /\ Used(world') \subseteq Used(world) \cup {c}
  BY TookValid
<1>2. /\ pc[c] = "submitting" /\ world' = After(world, c, in) /\ UNCHANGED <<rows, recording>>
      /\ pc' \in [Calls -> Stages] /\ pc'[c] \in {"writing", "done"}
      /\ pc'[c] = "writing" => input'[c] = in
      /\ \A d \in Calls : d # c => pc'[d] = pc[d] /\ input'[d] = input[d]
  BY DEF Took, Closed, Goto, Tidy, Control, Stages
<1>0. in.kind = "reversal" => rows.payouts[in.payout].status = "SETTLED"
  BY <1>2 DEF Guarded, InTransaction, Reversible
<1>3. /\ Has(world', c, in)
      /\ \A p \in DOMAIN world.payouts :
           world'.payouts[p].status =
             IF in.kind = "reversal" /\ p = in.payout THEN "REVERSED" ELSE world.payouts[p].status
  BY <1>1, <1>2, AfterStatuses DEF Ledger
<1>4. IsBook(world')
  BY <1>1 DEF Extends
<1> HIDE DEF in
<1>5. WorldFresh'
  <2> SUFFICES ASSUME NEW d \in Calls, pc'[d] \notin {"writing", "publishing", "done"}
               PROVE  d \notin Used(world')
    BY DEF WorldFresh
  <2> QED BY <1>1, <1>2 DEF Ledger, WorldFresh
<1>6. Follows'
  <2>1. \A p \in DOMAIN rows.payouts : p \in DOMAIN world'.payouts
          /\ world'.payouts[p].status \in LedgerAt(rows.payouts[p].status)
    BY <1>0, <1>1, <1>3 DEF Ledger, Follows, Extends, LedgerAt
  <2> QED BY <1>1, <1>2, <2>1 DEF Ledger, Follows, Extends
<1>8. Told'
  BY <1>0, <1>2, <1>3 DEF Ledger, Told, Follows, Tidy, Outcomes, Settling, Open
<1>7. Ahead'
  <2> SUFFICES ASSUME NEW d \in Calls, pc'[d] = "writing" PROVE Has(world', d, input[d])
    BY <1>2 DEF Ahead, in
  <2>1. CASE d = c
    BY <1>3, <2>1 DEF in
  <2>2. CASE d # c
    <3>1. pc[d] = "writing" /\ Has(world, d, input[d])
      BY <1>2, <2>2 DEF Ledger, Ahead
    <3>2. d \notin Used(rows) /\ ValidFor(rows, input[d])
      BY <3>1 DEF Tidy, RowsFresh, Control, InFlight, ValidInput
    <3>3. input[d].kind = "reversal" => input[d].payout \in DOMAIN world.payouts
      BY <3>2 DEF ValidFor, Ledger, Follows
    <3>4. in.kind = "reversal" => in.payout # d
      BY <1>1, <3>2 DEF Used
    <3> QED BY <1>1, <1>3, <3>1, <3>3, <3>4 DEF Has, Extends
  <2> QED BY <2>1, <2>2
<1> QED BY <1>4, <1>5, <1>6, <1>7, <1>8 DEF Ledger

\* A write of a call: the rows catch up.
LEMMA LedgerWrote ==
  ASSUME Tidy, Ledger, NEW c \in Calls, Wrote(c)
  PROVE  Ledger'
<1> DEFINE in == input[c]
<1>1. /\ pc[c] = "writing" /\ Unique(in) /\ rows' = After(rows, c, in)
      /\ UNCHANGED <<world, recording>>
      /\ pc' \in [Calls -> Stages] /\ pc'[c] \in {"publishing", "done"}
      /\ \A d \in Calls : d # c => pc'[d] = pc[d] /\ input'[d] = input[d]
  BY DEF Wrote, Closed, Goto, Tidy, Control, Stages
<1>2. Has(world, c, in) /\ c \notin Used(rows) /\ ValidFor(rows, in) /\ IsBook(rows)
  BY <1>1 DEF Ledger, Ahead, Tidy, RowsFresh, Control, InFlight, ValidInput
<1>3. WorldFresh' /\ Ahead' /\ Told'
  BY <1>1 DEF Ledger, WorldFresh, Ahead, Told, Used
<1>4. Follows'
  <2> DEFINE n == After(rows, c, in)
  <2> HIDE DEF in
  <2>0. n = rows' /\ world' = world
    BY <1>1
  <2>6. "PENDING" \in LedgerAt("PENDING") /\ "REVERSED" \in LedgerAt("REVERSED")
    BY DEF LedgerAt
  <2>1. CASE in.kind = "source"
    <3>1. /\ n.allocations = rows.allocations /\ n.people = rows.people /\ n.payouts = rows.payouts
          /\ n.sources = With(rows.sources, c, [owner |-> OrgOf[in.user], allocated |-> 0])
      BY <1>2, <2>1, SourceAdded DEF ValidFor
    <3> HIDE DEF n
    <3> QED BY <1>2, <2>0, <2>1, <3>1 DEF Follows, Ledger, With, Has
  <2>2. CASE in.kind = "allocation"
    <3>1. c \notin DOMAIN rows.allocations /\ in.user \in Users /\ in.source \in DOMAIN rows.sources
          /\ in.place \in Places
      BY <1>2, <2>2 DEF ValidFor, Used
    <3>2. /\ n.people = rows.people /\ n.payouts = rows.payouts
          /\ DOMAIN n.sources = DOMAIN rows.sources
          /\ n.allocations = With(rows.allocations, c,
               [source |-> in.source, owner |-> OrgOf[in.user], place |-> in.place,
                reserved |-> 0, disbursed |-> 0])
      BY <1>2, <2>2, <3>1, AllocationAdded
    <3> HIDE DEF n
    <3> QED BY <1>2, <2>0, <2>2, <3>1, <3>2 DEF Follows, Ledger, With, Has
  <2>3. CASE in.kind = "beneficiary"
    <3>1. /\ n.sources = rows.sources /\ n.allocations = rows.allocations /\ n.payouts = rows.payouts
          /\ n.people = With(rows.people, in.person, in.place)
      BY <1>2, <2>3, PersonAdded DEF ValidFor
    <3> HIDE DEF n
    <3> QED BY <1>2, <2>0, <2>3, <3>1 DEF Follows, Ledger, With, Has
  <2>4. CASE in.kind = "payout"
    <3>1. in.allocation \in DOMAIN rows.allocations /\ in.person \in People /\ in.batch \in Batches \cup {None}
      BY <1>2, <2>4 DEF ValidFor, IsBook
    <3>2. /\ n.sources = rows.sources /\ n.people = rows.people
          /\ SameButCounters(rows.allocations, n.allocations)
          /\ n.payouts = With(rows.payouts, c, [allocation |-> in.allocation, person |-> in.person,
                                                batch |-> in.batch, status |-> "PENDING"])
      BY <1>2, <2>4, <3>1, PayoutAdded
    <3> HIDE DEF n
    <3> QED BY <1>2, <2>0, <2>4, <2>6, <3>2 DEF Follows, Ledger, With, Has, SameButCounters
  <2>5. CASE in.kind = "reversal"
    <3>1. n = Reversed(rows, in.payout) /\ in.payout \in DOMAIN rows.payouts
      BY <1>2, <2>5 DEF After, ValidFor
    <3>2. Moved(rows, n, in.payout, "REVERSED", 0, -1)
      BY <1>2, <3>1, ReversedMoves
    <3> HIDE DEF n
    <3> QED BY <1>2, <2>0, <2>5, <2>6, <3>2 DEF Follows, Ledger, Has, Moved, SameButCounters
  <2> QED BY <1>2, <2>1, <2>2, <2>3, <2>4, <2>5 DEF ValidFor
<1> QED BY <1>1, <1>3, <1>4 DEF Ledger

\* A decision reaches the ledger first.
LEMMA LedgerDecides ==
  ASSUME Mode = "fabric", Tidy, Ledger,
         NEW p \in DOMAIN rows.payouts, NEW s \in {"SETTLED", "FAILED"}, Decides(p, s)
  PROVE  Ledger'
<1>1. /\ rows.payouts[p].status \in Open /\ UNCHANGED <<pc, input, rows>>
      /\ world.payouts[p].status = "PENDING"
      /\ world' = Decided(world, p, s) /\ recording' = With(recording, p, s)
  BY DEF Decides, Decidable, Open
<1>2. p \in DOMAIN world.payouts
  BY DEF Ledger, Follows
<1>3. Moved(world, world', p, s, -1, IF s = "SETTLED" THEN 1 ELSE 0)
  BY <1>1, <1>2, DecidedMoves DEF Ledger
<1>4. Extends(world, world') /\ Used(world') = Used(world)
  BY <1>3, MovedExtends
<1>5. WorldFresh' /\ IsBook(world')
  BY <1>1, <1>4 DEF WorldFresh, Ledger, Extends
<1>6. Follows'
  <2>1. \A q \in DOMAIN rows.payouts : q \in DOMAIN world'.payouts
          /\ world'.payouts[q].status \in LedgerAt(rows.payouts[q].status)
    BY <1>1, <1>3 DEF Ledger, Follows, Moved, LedgerAt, Open
  <2> QED BY <1>1, <1>3, <2>1 DEF Follows, Ledger, Moved, SameButCounters
<1>7. Ahead'
  <2> SUFFICES ASSUME NEW d \in Calls, pc[d] = "writing" PROVE Has(world', d, input[d])
    BY <1>1 DEF Ahead
  <2>1. Has(world, d, input[d]) /\ d \notin Used(rows) /\ ValidFor(rows, input[d])
    BY DEF Ledger, Ahead, Tidy, RowsFresh, Control, InFlight, ValidInput
  <2>2. p # d
    BY <2>1 DEF Used
  <2>3. input[d].kind = "reversal" => input[d].payout \in DOMAIN world.payouts /\ input[d].payout # p
    BY <1>1, <2>1 DEF ValidFor, Ledger, Follows, Has
  <2> QED BY <1>3, <1>4, <2>1, <2>2, <2>3 DEF Has, Extends, Moved
<1>8. Told'
  BY <1>1, <1>2, <1>3 DEF Told, Ledger, Follows, Moved, With, Tidy, Outcomes
<1> QED BY <1>5, <1>6, <1>7, <1>8 DEF Ledger

\* The table follows, or does not know yet.
LEMMA LedgerRecords ==
  ASSUME Tidy, Ledger,
         \/ \E p \in DOMAIN recording : Settles(p)
         \/ \E p \in DOMAIN rows.payouts : Doubts(p)
  PROVE  Ledger'
<1>1. ASSUME NEW p \in DOMAIN rows.payouts, NEW status, NEW dr, NEW dd,
             Moved(rows, rows', p, status, dr, dd), world.payouts[p].status \in LedgerAt(status),
             UNCHANGED <<world, pc, input>>,
             \A q \in DOMAIN recording' : q \in DOMAIN recording /\ recording'[q] = recording[q]
      PROVE  Ledger'
  <2>1. Follows'
    BY <1>1 DEF Ledger, Follows, Moved, SameButCounters
  <2> QED BY <1>1, <2>1 DEF Ledger, WorldFresh, Ahead, Told
<1>2. ASSUME NEW p \in DOMAIN recording, Records(p) PROVE Ledger'
  <2> DEFINE one == IF recording[p] = "SETTLED" THEN 1 ELSE 0
  <2>1. /\ recording[p] \in {"SETTLED", "FAILED"} /\ p \in DOMAIN rows.payouts
        /\ Moved(rows, rows', p, recording[p], -1, one)
    BY <1>2, RecordsMoves
  <2>2. world.payouts[p].status \in LedgerAt(recording[p])
    BY <2>1 DEF Ledger, Told, LedgerAt
  <2> HIDE DEF one
  <2> QED BY <1>1, <1>2, <2>1, <2>2 DEF Records, Without
<1>3. ASSUME NEW p \in DOMAIN rows.payouts, Doubts(p) PROVE Ledger'
  <2>1. Moved(rows, rows', p, "UNKNOWN", 0, 0)
    BY <1>3, DoubtsMoves
  <2>2. world.payouts[p].status \in LedgerAt("UNKNOWN")
    BY <1>3 DEF Ledger, Follows, Doubts, LedgerAt
  <2> QED BY <1>1, <1>3, <2>1, <2>2 DEF Doubts
<1>4. ASSUME NEW p \in DOMAIN recording, Forgets(p) PROVE Ledger'
  BY <1>4 DEF Forgets, Without, Ledger, Follows, WorldFresh, Ahead, Told
<1> QED BY <1>2, <1>3, <1>4 DEF Settles

\* No other step writes in either book.
LEMMA LedgerStep ==
  ASSUME Mode = "fabric", Tidy, Guarded, Settling, Ledger, BookStep
  PROVE  Ledger'
<1>1. ASSUME UNCHANGED <<world, rows, recording>>,
             \A d \in Calls : pc'[d] = "writing" => pc[d] = "writing" /\ input'[d] = input[d],
             \A d \in Calls : pc[d] \in {"writing", "publishing", "done"}
                                => pc'[d] \in {"writing", "publishing", "done"}
      PROVE  Ledger'
  BY <1>1 DEF Ledger, WorldFresh, Follows, Ahead, Told
<1>2. ASSUME NEW c \in Calls, Began(c) \/ TookLocks(c) \/ Ended(c) \/ \E in : Asked(c, in) PROVE Ledger'
  BY <1>1, <1>2 DEF Began, TookLocks, Ended, Asked, Closed, Goto, Tidy, Control
<1>3. CASE UNCHANGED <<world, rows, pc, input, recording>>
  BY <1>1, <1>3
<1> QED BY <1>2, <1>3, LedgerTook, LedgerWrote, LedgerDecides, LedgerRecords DEF BookStep

\* In the beginning both books are the seeds.
LEMMA LedgerInit == Init => Ledger
<1> SUFFICES ASSUME Init PROVE Ledger
  OBVIOUS
<1>1. world = Seeds /\ rows = Seeds /\ pc = [c \in Calls |-> "new"] /\ recording = <<>>
  BY DEF Init, ServicesInit
<1>2. IsBook(world) /\ WorldFresh /\ Ahead /\ Told
  BY <1>1, SeedsAssumption DEF WorldFresh, Ahead, Told, Used
<1>3. \A p \in DOMAIN Seeds.payouts : Seeds.payouts[p].status \in LedgerAt(Seeds.payouts[p].status)
  <2>1. \A p \in DOMAIN Seeds.payouts : Seeds.payouts[p].status \in Statuses \ {"UNKNOWN"}
    BY SeedsAssumption DEF IsBook, Statuses
  <2>2. /\ "PENDING" \in LedgerAt("PENDING") /\ "SETTLED" \in LedgerAt("SETTLED")
        /\ "FAILED" \in LedgerAt("FAILED") /\ "REVERSED" \in LedgerAt("REVERSED")
    BY DEF LedgerAt
  <2> QED BY <2>1, <2>2 DEF Statuses
<1>4. Follows
  BY <1>1, <1>3 DEF Follows
<1> QED BY <1>2, <1>4 DEF Ledger
-----------------------------------------------------------------------------
(***************************************************************************)
(* The page.                                                               *)
(***************************************************************************)

\* What a query answers is true of the tables.
LEMMA FetchedIsOld ==
  ASSUME Tidy, NEW data, Old(data), NEW name
  PROVE  Old(Fetched(data, name))
<1> DEFINE more == [data EXCEPT !.got = @ \cup {name}]
<1>1. /\ more = [org |-> data.org, got |-> data.got \cup {name}, sources |-> data.sources,
                 allocations |-> data.allocations, people |-> data.people]
  <2> DEFINE g == data.got \cup {name}
  <2>1. more = [data EXCEPT !.got = g]
    OBVIOUS
  <2>2. data = [org |-> data.org, got |-> data.got, sources |-> data.sources,
                allocations |-> data.allocations, people |-> data.people]
    BY DEF Old, OldIn
  <2> HIDE DEF g, more
  <2>3. more = [org |-> data.org, got |-> g, sources |-> data.sources,
                allocations |-> data.allocations, people |-> data.people]
    BY <2>1, <2>2
  <2> QED BY <2>3 DEF g
<1>2. CASE name = "sources"
  <2> DEFINE S == Own(rows.sources, data.org)
  <2>1. Fetched(data, name) = [more EXCEPT !.sources = S]
    BY <1>2 DEF Fetched
  <2>2. DOMAIN S \subseteq DOMAIN rows.sources
    BY DEF Own
  <2> HIDE DEF S, more
  <2>3. Fetched(data, name) = [org |-> data.org, got |-> data.got \cup {name}, sources |-> S,
                               allocations |-> data.allocations, people |-> data.people]
    BY <1>1, <2>1
  <2> QED BY <2>2, <2>3 DEF Old, OldIn
<1>3. CASE name # "sources"
  <2> DEFINE A == Own(rows.allocations, data.org)
  <2>1. Fetched(data, name) = [more EXCEPT !.allocations = A, !.people = rows.people]
    BY <1>3 DEF Fetched
  <2>2. \A a \in DOMAIN A : a \in DOMAIN rows.allocations /\ A[a].place = rows.allocations[a].place
    BY DEF Own
  <2> HIDE DEF A, more
  <2>3. Fetched(data, name) = [org |-> data.org, got |-> data.got \cup {name}, sources |-> data.sources,
                               allocations |-> A, people |-> rows.people]
    BY <1>1, <2>1
  <2> QED BY <2>2, <2>3 DEF Old, OldIn
<1> QED BY <1>2, <1>3

\* A page that has fetched nothing offers nothing.
LEMMA UnfetchedIsOld ==
  ASSUME NEW org
  PROVE  Old(Unfetched(org))
BY DEF Old, OldIn, Unfetched

\* What was once true of the tables stays so, for the little the forms use of it.
LEMMA OldStays ==
  ASSUME Extends(rows, rows'), NEW data, Old(data)
  PROVE  Old(data)'
<1>1. \A t : t \in DOMAIN data.sources => t \in DOMAIN rows'.sources
  BY DEF Old, OldIn, Extends
<1>2. \A a \in DOMAIN data.allocations :
        a \in DOMAIN rows'.allocations /\ data.allocations[a].place = rows'.allocations[a].place
  BY DEF Old, OldIn, Extends
<1>3. \A q \in DOMAIN data.people : q \in DOMAIN rows'.people /\ data.people[q] = rows'.people[q]
  BY DEF Old, OldIn, Extends
<1> QED BY <1>1, <1>2, <1>3 DEF Old, OldIn

\* Every step of the page or of another client is, for the books, a step of a
\* call, a new call that refers to rows that are there, or nothing.
LEMMA NextBookStep ==
  ASSUME Tidy, Loaded, [Next]_vars
  PROVE  BookStep
<1>1. ASSUME UNCHANGED services PROVE BookStep
  BY <1>1 DEF services, control, BookStep
<1>2. ASSUME NEW c \in Calls, NEW in, ValidInput(in), Call(c, in) PROVE BookStep
  <2>1. Asked(c, in)
    BY <1>2 DEF Call, Asked, Closed, Answer, NoFault
  <2> QED BY <2>1 DEF BookStep
<1>3. ASSUME NEW c \in Calls, page = "operator", NEW form \in Forms(context), submit(c, form)
      PROVE  BookStep
  <2>1. Call(c, Request(form)) /\ token \in Users /\ Old(context)
    BY <1>3 DEF submit, Loaded
  <2>2. ValidInput(Request(form))
    BY <2>1, FormsValid DEF Tidy
  <2> QED BY <1>2, <2>1, <2>2
<1>4. ASSUME NEW c \in Calls, NEW in \in Inputs, OtherClient(c, in) PROVE BookStep
  BY <1>2, <1>4, InputsValid DEF OtherClient, Tidy
<1>5. CASE ServicesStep
  BY <1>5, ServiceSteps DEF BookStep
<1>6. ASSUME NEW u \in Users, login(u) PROVE BookStep
  BY <1>1, <1>6 DEF login
<1>7. ASSUME NEW name \in Tables, load(name) \/ loaded(name) PROVE BookStep
  BY <1>1, <1>7 DEF load, loaded
<1>8. CASE loadFails \/ reopen \/ logout \/ answered
  BY <1>1, <1>8 DEF loadFails, reopen, logout, answered
<1>9. CASE UNCHANGED vars
  BY <1>1, <1>9 DEF vars
<1> QED BY <1>3, <1>4, <1>5, <1>6, <1>7, <1>8, <1>9 DEF Next

\* What the page shows was true when it was loaded, and its forms use of it only
\* what stays true.
LEMMA LoadedStep ==
  ASSUME Tidy, Loaded, [Next]_vars
  PROVE  Loaded'
<1>1. Extends(rows, rows')
  BY NextBookStep, BookStepRows, RowsExtend
<1>2. ASSUME NEW data, Old(data) PROVE OldIn(rows', data)
  BY <1>1, <1>2, OldStays DEF Old
<1>3. ASSUME UNCHANGED browser PROVE Loaded'
  BY <1>2, <1>3 DEF browser, Loaded, Old, OldIn
<1>4. ASSUME NEW c \in Calls, page = "operator", NEW form \in Forms(context), submit(c, form)
      PROVE  Loaded'
  BY <1>2, <1>4 DEF submit, Loaded, Old, OldIn
<1>5. ASSUME NEW u \in Users, login(u) PROVE Loaded'
  BY <1>2, <1>5 DEF login, Loaded, Old, OldIn
<1>6. ASSUME NEW name \in Tables, load(name) PROVE Loaded'
  <2>1. /\ page = "opening" /\ UNCHANGED <<rows, page, token, sent>>
        /\ context' = Fetched(Unfetched(OrgOf[token]), name)
    BY <1>6 DEF load, services
  <2>2. Old(context')
    BY <2>1, UnfetchedIsOld, FetchedIsOld
  <2> QED BY <2>1, <2>2 DEF Loaded, Old
<1>7. ASSUME NEW name \in Tables, loaded(name) PROVE Loaded'
  <2>1. /\ page = "opening" /\ context # None /\ UNCHANGED <<rows, token, sent>>
        /\ context' = Fetched(context, name) /\ page' = "operator"
    BY <1>7 DEF loaded, services
  <2>2. Old(context')
    BY <2>1, FetchedIsOld DEF Loaded
  <2> QED BY <2>1, <2>2 DEF Loaded, Old
<1>8. CASE loadFails \/ reopen \/ logout \/ answered
  BY <1>2, <1>8 DEF loadFails, reopen, logout, answered, services, Loaded, Old, OldIn
<1>9. ASSUME NEW c \in Calls, NEW in \in Inputs, OtherClient(c, in) PROVE Loaded'
  BY <1>3, <1>9 DEF OtherClient
<1> QED BY <1>3, <1>4, <1>5, <1>6, <1>7, <1>8, <1>9 DEF Next, vars

\* In the beginning nothing is loaded or sent.
LEMMA LoadedInit == Init => Loaded
BY DEF Init, Loaded

Inv == Tidy /\ Loaded /\ Guarded /\ Settling /\ (Mode = "fabric" => Ledger)

\* The whole invariant, in the beginning.
LEMMA InvInit == Init => Inv
BY TidyInit, LoadedInit, GuardedInit, LedgerInit DEF Inv

\* And after every step.
LEMMA InvStep == Inv /\ [Next]_vars => Inv'
BY NextBookStep, TidyStep, LoadedStep, GuardedStep, LedgerStep DEF Inv

\* "Fabric world state and block history are authoritative" (ARCHITECTURE.md):
\* whatever fails between the two writes of a call, and whatever other calls do
\* meanwhile, the tables have nothing that the ledger does not have, under the
\* same owner, at the same place, and no payout further than the ledger has it; one
\* that is UNKNOWN may be pending there.
THEOREM LedgerFirst == Spec => []RowsFollowLedger
<1>1. Inv => RowsFollowLedger
  BY DEF Inv, Ledger, Follows, RowsFollowLedger
<1> QED BY <1>1, InvInit, InvStep, PTL DEF Spec
-----------------------------------------------------------------------------
(***************************************************************************)
(* What the panel sends.                                                   *)
(***************************************************************************)
Sent ==
  /\ DOMAIN answer = Calls
  /\ \A c \in Calls : pc[c] = "new" => answer[c] # "ineligible"
  /\ sent # None =>
       /\ pc[sent] # "new" /\ answer[sent] # "ineligible"
       /\ InFlight(sent) => Eligible(rows, input[sent])

\* Only the check of a call in flight answers that somebody is not eligible.
LEMMA Answers ==
  ASSUME DOMAIN answer = Calls, [Next]_vars
  PROVE  /\ DOMAIN answer' = Calls
         /\ \A c \in Calls : answer'[c] = "ineligible" =>
              \/ answer[c] = "ineligible"
              \/ pc[c] = "begun" /\ Refusal(input[c]) = "ineligible"
<1> DEFINE Goal ==
      /\ DOMAIN answer' = Calls
      /\ \A c \in Calls : answer'[c] = "ineligible" =>
           \/ answer[c] = "ineligible"
           \/ pc[c] = "begun" /\ Refusal(input[c]) = "ineligible"
<1>1. CASE UNCHANGED answer
  BY <1>1
<1>2. ASSUME NEW c \in Calls, NEW reply, Answer(c, reply),
             reply = "ineligible" => pc[c] = "begun" /\ Refusal(input[c]) = "ineligible"
      PROVE  Goal
  BY <1>2 DEF Answer
<1> HIDE DEF Goal
<1>3. ASSUME NEW c \in Calls, NEW in, Call(c, in) PROVE Goal
  BY <1>1, <1>2, <1>3 DEF Call, Unanswered, Goal
<1>4. ASSUME NEW c \in Calls, CallStep(c) PROVE Goal
  <2>1. CASE LockRows(c)
    BY <1>1, <1>2, <2>1 DEF LockRows, Unanswered, Goal
  <2>2. CASE Begin(c) \/ SubmitToLedger(c) \/ WriteRows(c) \/ Publish(c)
    BY <1>1, <1>2, <2>2 DEF Begin, SubmitToLedger, WriteRows, Publish, Unanswered, Goal
  <2> QED BY <1>4, <2>1, <2>2 DEF CallStep
<1>5. ASSUME NEW c \in Calls, CallFault(c) PROVE Goal
  <2>1. CASE RequestTimesOut(c)
    BY <2>1 DEF RequestTimesOut, Goal
  <2>2. CASE CommitStatusLost(c) \/ WriteAnswerLost(c) \/ Fail(c)
    BY <1>2, <2>2 DEF CommitStatusLost, WriteAnswerLost, Fail
  <2> QED BY <1>5, <2>1, <2>2 DEF CallFault
<1>6. ASSUME NEW p, NEW s, DecideOnLedger(p, s) \/ RecordUnknown(p) \/ RecordOutcome(p) \/ RecordingFails(p)
      PROVE  Goal
  BY <1>1, <1>6 DEF DecideOnLedger, RecordUnknown, RecordOutcome, RecordingFails, control, Goal
<1>7. ASSUME NEW c \in Calls, NEW b, NEW u, ManageBatch(c, b, u) PROVE Goal
  BY <1>2, <1>7 DEF ManageBatch
<1>8. ServicesStep => Goal
  BY <1>4, <1>5, <1>6, <1>7 DEF ServicesStep
<1>9. UNCHANGED services => Goal
  BY <1>1 DEF services, control, Goal
<1>10. Next => Goal
  BY <1>3, <1>8, <1>9 DEF Next, login, loadFails, reopen, logout, answered, load, loaded, submit,
                          OtherClient
<1> QED BY <1>9, <1>10 DEF vars, Goal

\* A call that was asked for is never new again, and keeps its input on its way.
LEMMA CallsGoOn ==
  ASSUME Tidy, BookStep, NEW c \in Calls
  PROVE  /\ pc'[c] = "new" => pc[c] = "new"
         /\ pc[c] # "new" /\ pc'[c] \notin {"new", "done"} => InFlight(c) /\ input'[c] = input[c]
<1>1. ASSUME NEW d \in Calls, NEW in, Asked(d, in)
      PROVE  /\ pc'[c] = "new" => pc[c] = "new"
             /\ pc[c] # "new" /\ pc'[c] \notin {"new", "done"} => InFlight(c) /\ input'[c] = input[c]
  BY <1>1 DEF Asked, Closed, Goto, Tidy, Control, InFlight
<1>2. ASSUME NEW d \in Calls, Began(d) \/ TookLocks(d) \/ Took(d) \/ Wrote(d)
      PROVE  /\ pc'[c] = "new" => pc[c] = "new"
             /\ pc[c] # "new" /\ pc'[c] \notin {"new", "done"} => InFlight(c) /\ input'[c] = input[c]
  BY <1>2 DEF Began, TookLocks, Took, Wrote, Closed, Goto, Tidy, Control, InFlight
<1>3. ASSUME NEW d \in Calls, Ended(d)
      PROVE  /\ pc'[c] = "new" => pc[c] = "new"
             /\ pc[c] # "new" /\ pc'[c] \notin {"new", "done"} => InFlight(c) /\ input'[c] = input[c]
  BY <1>3 DEF Ended, Closed, Goto, Tidy, Control, InFlight
<1>4. ASSUME UNCHANGED <<pc, input>>
      PROVE  /\ pc'[c] = "new" => pc[c] = "new"
             /\ pc[c] # "new" /\ pc'[c] \notin {"new", "done"} => InFlight(c) /\ input'[c] = input[c]
  BY <1>4 DEF InFlight
<1> QED BY <1>1, <1>2, <1>3, <1>4, NoCallMoves DEF BookStep, DecisionStep

\* What the panel waits for was eligible and stays so under the locks.
LEMMA SentStep == Tidy /\ Loaded /\ Sent /\ [Next]_vars => Sent'
<1> SUFFICES ASSUME Tidy, Loaded, Sent, [Next]_vars PROVE Sent'
  OBVIOUS
<1>1. BookStep /\ Extends(rows, rows')
  BY NextBookStep, BookStepRows, RowsExtend
<1>2. /\ DOMAIN answer' = Calls
      /\ \A c \in Calls : answer'[c] = "ineligible" =>
           \/ answer[c] = "ineligible"
           \/ pc[c] = "begun" /\ Refusal(input[c]) = "ineligible"
  BY Answers DEF Sent
<1>3. \A c \in Calls : pc'[c] = "new" => answer'[c] # "ineligible"
  BY <1>1, <1>2, CallsGoOn DEF Sent
<1>4. ASSUME NEW in, ValidInput(in), Eligible(rows, in) PROVE Eligible(rows', in)
  BY <1>1, <1>4 DEF ValidInput, ValidFor, Eligible, Extends
<1> DEFINE Goal(c) == /\ pc'[c] # "new" /\ answer'[c] # "ineligible"
                      /\ pc'[c] # "done" => Eligible(rows', input'[c])
<1>5. sent # None => Goal(sent)
  <2> SUFFICES ASSUME sent # None PROVE Goal(sent)
    OBVIOUS
  <2>1. /\ sent \in Calls /\ pc[sent] # "new" /\ answer[sent] # "ineligible"
        /\ InFlight(sent) => Eligible(rows, input[sent]) /\ ValidInput(input[sent])
    BY DEF Sent, Loaded, Tidy, Control
  <2>2. pc'[sent] # "new" /\ (pc'[sent] # "done" => InFlight(sent) /\ input'[sent] = input[sent])
    BY <1>1, <2>1, CallsGoOn
  <2>3. pc'[sent] # "done" => Eligible(rows', input'[sent])
    BY <1>4, <2>1, <2>2
  <2>4. ~(pc[sent] = "begun" /\ Refusal(input[sent]) = "ineligible")
    BY <2>1 DEF InFlight, Refusal
  <2> QED BY <1>2, <2>1, <2>2, <2>3, <2>4
<1>6. ASSUME NEW c \in Calls, page = "operator", NEW form \in Forms(context), submit(c, form)
      PROVE  Goal(c)
  <2>1. /\ Call(c, Request(form)) /\ token \in Users /\ Old(context)
    BY <1>6 DEF submit, Loaded
  <2>2. Eligible(rows, Request(form))
    BY <2>1, FormsValid DEF Tidy
  <2>3. /\ pc[c] = "new" /\ rows' = rows /\ pc'[c] # "new"
        /\ pc'[c] # "done" => input'[c] = Request(form)
    BY <2>1 DEF Call, Goto, Answer, Tidy, Control
  <2> QED BY <1>2, <2>2, <2>3 DEF Sent
<1>7. sent' = None \/ sent' = sent
      \/ \E c \in Calls : page = "operator" /\ sent' = c /\ \E form \in Forms(context) : submit(c, form)
  BY DEF Next, vars, browser, login, loadFails, reopen, logout, answered, load, loaded, submit,
         OtherClient
<1>8. sent' # None => Goal(sent')
  BY <1>5, <1>6, <1>7
<1> QED BY <1>2, <1>3, <1>8 DEF Sent, InFlight

\* However old its context and whoever's token it sends, the panel never pays a
\* beneficiary of another scheme or district: people and allocations keep their
\* places, so that what a form once matched still matches under the locks.
THEOREM FormsStayEligible == Spec => []PanelOffersEligible
<1>1. Init => Sent
  BY DEF Init, ServicesInit, Sent
<1>2. Sent => PanelOffersEligible
  BY DEF Sent, PanelOffersEligible
<1>3. Inv /\ Sent /\ [Next]_vars => Sent'
  BY SentStep DEF Inv
<1> QED BY <1>1, <1>2, <1>3, InvInit, InvStep, PTL DEF Spec
-----------------------------------------------------------------------------
(***************************************************************************)
(* The batches between the calls.                                          *)
(***************************************************************************)
\* Every batch belongs to the organization of its creator: what makes the
\* separation of creator and approver inductive.
OwnedByCreator ==
  \A b \in Batches : batches[b].status # "none" =>
    batches[b].createdBy \in Users /\ batches[b].owner = OrgOf[batches[b].createdBy]

BatchesSound == Batch!BatchesTypeOK /\ OwnedByCreator /\ ApprovedByAnother

\* The batches of earlier calls are sound.
LEMMA BatchesSoundInit == Init => BatchesSound
BY BatchSeedsAssumption
   DEF Init, ServicesInit, BatchesSound, Batch!BatchesTypeOK, OwnedByCreator, ApprovedByAnother,
       Batch!ApprovedByAnother, Batch!Batch

\* Every operation on a batch keeps them sound: approveBatch compares the caller
\* with the creator, and no operation changes either of them afterwards.
LEMMA BatchesSoundStep == BatchesSound /\ [Batch!BatchesNext]_batches => BatchesSound'
<1> SUFFICES ASSUME BatchesSound, [Batch!BatchesNext]_batches PROVE BatchesSound'
  OBVIOUS
<1> USE DEF BatchesSound, Batch!BatchesTypeOK, OwnedByCreator, ApprovedByAnother,
            Batch!ApprovedByAnother, Batch!Batch
<1>1. ASSUME NEW b \in Batches, NEW u \in Users, Batch!createBatch(b, u) PROVE BatchesSound'
  BY <1>1 DEF Batch!createBatch, Batch!NoBatch
<1>2. ASSUME NEW b \in Batches, NEW u \in Users, Batch!requestBatchApproval(b, u)
      PROVE  BatchesSound'
  BY <1>2 DEF Batch!requestBatchApproval, Batch!Advanced
<1>3. ASSUME NEW b \in Batches, NEW u \in Users, Batch!approveBatch(b, u) PROVE BatchesSound'
  <2>1. /\ batches' = [batches EXCEPT ![b] = Batch!Approved(batches[b], u)]
        /\ batches[b].owner = OrgOf[u] /\ batches[b].createdBy # u
        /\ batches[b].status = "PENDING_APPROVAL"
    BY <1>3 DEF Batch!approveBatch, Batch!MayApprove
  <2> DEFINE new == Batch!Approved(batches[b], u)
  <2>2. /\ new \in Batch!Batch /\ new.status = "APPROVED" /\ new.approvedBy = u
        /\ new.owner = batches[b].owner /\ new.createdBy = batches[b].createdBy
    BY DEF Batch!Approved, Batch!Advanced
  <2> HIDE DEF new
  <2> QED BY <2>1, <2>2 DEF new
<1>4. ASSUME NEW b \in Batches, NEW u \in Users, Batch!submitBatch(b, u) PROVE BatchesSound'
  BY <1>4 DEF Batch!submitBatch, Batch!Advanced
<1>5. CASE UNCHANGED batches
  BY <1>5
<1> QED BY <1>1, <1>2, <1>3, <1>4, <1>5 DEF Batch!BatchesNext, Batch!BatchStep

\* "creator/approver separation" (BACKEND_CONTRACTS.md), of the table by itself: from
\* an empty table on, an approved or submitted batch was approved by another
\* operator of the organization that owns it.
THEOREM ApprovedByASecond == Batch!BatchesSpec => []ApprovedByAnother
<1>1. Batch!BatchesInit => BatchesSound
  BY DEF Batch!BatchesInit, Batch!NoBatch, BatchesSound, Batch!BatchesTypeOK, OwnedByCreator,
         ApprovedByAnother, Batch!ApprovedByAnother, Batch!Batch
<1>2. BatchesSound => ApprovedByAnother
  BY DEF BatchesSound
<1> QED BY <1>1, <1>2, BatchesSoundStep, PTL DEF Batch!BatchesSpec

\* Whatever the operators, the batches and the order of the calls, an approved
\* batch has a second operator of its organization behind it, also when other
\* calls pay in it and whatever they leave half done.
THEOREM ApprovedBetweenCalls == Spec => []ApprovedByAnother
<1>1. [Next]_vars => [Batch!BatchesNext]_batches
  <2>1. ASSUME NEW c \in Calls, NEW b \in Batches, NEW u \in Users, ManageBatch(c, b, u)
        PROVE  Batch!BatchesNext
    BY <2>1 DEF ManageBatch, Batch!BatchesNext
  <2>2. ASSUME NEW c \in Calls, CallStep(c) \/ CallFault(c) PROVE UNCHANGED batches
    BY <2>2 DEF CallStep, CallFault, Begin, LockRows, SubmitToLedger, WriteRows, Publish,
                CommitStatusLost, WriteAnswerLost, Fail, RequestTimesOut
  <2>3. ServicesStep => Batch!BatchesNext \/ UNCHANGED batches
    BY <2>1, <2>2 DEF ServicesStep, DecideOnLedger, RecordUnknown, RecordOutcome, RecordingFails
  <2>4. UNCHANGED services => UNCHANGED batches
    BY DEF services
  <2>5. Next => Batch!BatchesNext \/ UNCHANGED batches
    BY <2>3, <2>4 DEF Next, login, loadFails, reopen, logout, answered, load, loaded, submit,
                      OtherClient, Call
  <2> QED BY <2>4, <2>5 DEF vars
<1>2. BatchesSound => ApprovedByAnother
  BY DEF BatchesSound
<1> QED BY <1>1, <1>2, BatchesSoundInit, BatchesSoundStep, PTL DEF Spec
-----------------------------------------------------------------------------
(***************************************************************************)
(* The counters of a book count its rows.                                  *)
(***************************************************************************)
Given(b, s) == {a \in DOMAIN b.allocations : b.allocations[a].source = s}

Paid(b, a, statuses) ==
  {p \in DOMAIN b.payouts : b.payouts[p].allocation = a /\ b.payouts[p].status \in statuses}

SourceBalanced(b, s) ==
  /\ b.sources[s].allocated = AllocationAmount * Cardinality(Given(b, s))
  /\ b.sources[s].allocated <= SourceAmount

AllocationBalanced(b, a) ==
  /\ b.allocations[a].reserved = Cardinality(Paid(b, a, Open))
  /\ b.allocations[a].disbursed = Cardinality(Paid(b, a, {"SETTLED"}))
  /\ b.allocations[a].reserved + b.allocations[a].disbursed <= AllocationAmount

Balanced(b) ==
  /\ IsFiniteSet(Used(b))
  /\ \A s \in DOMAIN b.sources : SourceBalanced(b, s)
  /\ \A a \in DOMAIN b.allocations : AllocationBalanced(b, a)

\* Balanced is the property the runs check, for a finite book.
LEMMA BalancedIs ==
  ASSUME NEW b, IsFiniteSet(Used(b))
  PROVE  Balanced(b) <=> BalancesMatch(b)
<1> DEFINE Of(a, statuses) ==
      {p \in DOMAIN b.payouts : b.payouts[p].allocation = a /\ b.payouts[p].status \in statuses}
<1>1. \A a, statuses : Of(a, statuses) = Paid(b, a, statuses)
  BY DEF Paid
<1>2. BalancesMatch(b) <=>
        /\ \A s \in DOMAIN b.sources : SourceBalanced(b, s)
        /\ \A a \in DOMAIN b.allocations :
             /\ b.allocations[a].reserved = Cardinality(Of(a, {"PENDING", "UNKNOWN"}))
             /\ b.allocations[a].disbursed = Cardinality(Of(a, {"SETTLED"}))
             /\ b.allocations[a].reserved + b.allocations[a].disbursed <= AllocationAmount
  BY DEF BalancesMatch, SourceBalanced, Given, Promised
<1> HIDE DEF Of
<1> QED BY <1>1, <1>2 DEF Balanced, AllocationBalanced, Open

\* The rows that are counted are finitely many.
LEMMA Countable ==
  ASSUME NEW b, IsFiniteSet(Used(b)), NEW x, NEW statuses
  PROVE  /\ IsFiniteSet(Given(b, x)) /\ Cardinality(Given(b, x)) \in Nat
         /\ IsFiniteSet(Paid(b, x, statuses)) /\ Cardinality(Paid(b, x, statuses)) \in Nat
<1>1. Given(b, x) \subseteq Used(b) /\ Paid(b, x, statuses) \subseteq Used(b)
  BY DEF Given, Paid, Used
<1> QED BY <1>1, FS_Subset, FS_CardinalityType

\* One more.
LEMMA OneMore ==
  ASSUME NEW S, IsFiniteSet(S), NEW x, x \notin S
  PROVE  Cardinality(S \cup {x}) = Cardinality(S) + 1
BY FS_AddElement

\* A new source has given nothing.
LEMMA SourceBalances ==
  ASSUME NEW b, IsBook(b), Balanced(b), NEW id, id \notin Used(b), NEW in, in.kind = "source",
         in.user \in Users, NEW n, n = After(b, id, in), IsFiniteSet(Used(n))
  PROVE  Balanced(n)
<1>1. /\ n.sources = With(b.sources, id, [owner |-> OrgOf[in.user], allocated |-> 0])
      /\ n.allocations = b.allocations /\ n.payouts = b.payouts
  BY SourceAdded
<1>2. (\A s : Given(n, s) = Given(b, s)) /\ (\A a, statuses : Paid(n, a, statuses) = Paid(b, a, statuses))
  BY <1>1 DEF Given, Paid
<1>3. ASSUME NEW a \in DOMAIN n.allocations PROVE AllocationBalanced(n, a)
  BY <1>1, <1>2, <1>3 DEF Balanced, AllocationBalanced
<1>4. ASSUME NEW s \in DOMAIN n.sources PROVE SourceBalanced(n, s)
  <2>1. CASE s = id
    <3>1. Given(n, s) = {}
      <4>1. \A a \in DOMAIN b.allocations : b.allocations[a].source \in DOMAIN b.sources
        BY DEF IsBook
      <4>2. id \notin DOMAIN b.sources
        BY DEF Used
      <4>3. Given(b, id) = {}
        BY <4>1, <4>2 DEF Given
      <4> QED BY <1>2, <2>1, <4>3
    <3>2. n.sources[s].allocated = 0
      BY <1>1, <2>1 DEF With
    <3> QED BY <3>1, <3>2, FS_EmptySet, ServicesAssumption DEF SourceBalanced
  <2>2. CASE s # id
    <3>1. s \in DOMAIN b.sources /\ n.sources[s] = b.sources[s]
      BY <1>1, <1>4, <2>2 DEF With
    <3> QED BY <1>2, <3>1 DEF Balanced, SourceBalanced
  <2> QED BY <2>1, <2>2
<1> QED BY <1>3, <1>4 DEF Balanced

\* A new allocation: its source has given one more, and nothing is paid from it.
LEMMA AllocationBalances ==
  ASSUME NEW b, IsBook(b), Balanced(b), NEW id, id \notin Used(b), NEW in, in.kind = "allocation",
         ValidFor(b, in), Affordable(b, in), NEW n, n = After(b, id, in), IsFiniteSet(Used(n))
  PROVE  Balanced(n)
<1> DEFINE row == [source |-> in.source, owner |-> OrgOf[in.user],
                   place |-> in.place, reserved |-> 0, disbursed |-> 0]
<1>1. id \notin DOMAIN b.allocations /\ in.user \in Users /\ in.source \in DOMAIN b.sources
      /\ in.place \in Places
  BY DEF ValidFor, Used
<1>2. /\ DOMAIN n.sources = DOMAIN b.sources
      /\ \A s \in DOMAIN b.sources :
           n.sources[s].allocated = b.sources[s].allocated + (IF s = in.source THEN AllocationAmount ELSE 0)
      /\ n.allocations = With(b.allocations, id, row)
      /\ n.payouts = b.payouts
  BY <1>1, AllocationAdded
<1>3. /\ DOMAIN n.allocations = DOMAIN b.allocations \cup {id}
      /\ \A a \in DOMAIN b.allocations : n.allocations[a] = b.allocations[a]
      /\ n.allocations[id] = row
  BY <1>1, <1>2 DEF With
<1>4. ASSUME NEW s \in DOMAIN n.sources PROVE SourceBalanced(n, s)
  <2>1. b.sources[s].allocated \in Int /\ AllocationAmount \in Nat /\ SourceBalanced(b, s)
    BY <1>2, <1>4, ServicesAssumption DEF IsBook, Balanced
  <2>2. IsFiniteSet(Given(b, s)) /\ Cardinality(Given(b, s)) \in Nat
    BY Countable DEF Balanced
  <2>3. CASE s = in.source
    <3>1. Given(n, s) = Given(b, s) \cup {id} /\ id \notin Given(b, s)
      BY <1>1, <1>3, <2>3 DEF Given
    <3>2. Cardinality(Given(n, s)) = Cardinality(Given(b, s)) + 1
      BY <2>2, <3>1, OneMore
    <3>3. \A k \in Nat : AllocationAmount * (k + 1) = AllocationAmount * k + AllocationAmount
      BY <2>1
    <3>4. b.sources[s].allocated + AllocationAmount <= SourceAmount
      BY <2>3 DEF Affordable
    <3>5. n.sources[s].allocated = b.sources[s].allocated + AllocationAmount
      BY <1>2, <1>4, <2>3
    <3> QED BY <2>1, <2>2, <3>2, <3>3, <3>4, <3>5 DEF SourceBalanced
  <2>4. CASE s # in.source
    <3>1. Given(n, s) = Given(b, s)
      BY <1>1, <1>3, <2>4 DEF Given
    <3>2. n.sources[s].allocated = b.sources[s].allocated
      BY <1>2, <1>4, <2>1, <2>4
    <3> QED BY <2>1, <3>1, <3>2 DEF SourceBalanced
  <2> QED BY <2>3, <2>4
<1>5. ASSUME NEW a \in DOMAIN n.allocations PROVE AllocationBalanced(n, a)
  <2>1. \A statuses : Paid(n, a, statuses) = Paid(b, a, statuses)
    BY <1>2 DEF Paid
  <2>2. CASE a = id
    <3>1. \A p \in DOMAIN b.payouts : b.payouts[p].allocation \in DOMAIN b.allocations
      BY DEF IsBook
    <3>2. \A statuses : Paid(n, a, statuses) = {}
      BY <1>1, <2>1, <2>2, <3>1 DEF Paid
    <3> QED BY <1>3, <2>2, <3>2, FS_EmptySet, ServicesAssumption DEF AllocationBalanced
  <2>3. CASE a # id
    BY <1>3, <1>5, <2>1, <2>3 DEF Balanced, AllocationBalanced
  <2> QED BY <2>2, <2>3
<1> QED BY <1>4, <1>5 DEF Balanced

\* A new payout is one more that is reserved.
LEMMA PayoutBalances ==
  ASSUME NEW b, IsBook(b), Balanced(b), NEW id, id \notin Used(b), NEW in, in.kind = "payout",
         ValidFor(b, in), Affordable(b, in), NEW n, n = After(b, id, in), IsFiniteSet(Used(n))
  PROVE  Balanced(n)
<1> DEFINE i == in.allocation
<1> DEFINE row == [allocation |-> i, person |-> in.person, batch |-> in.batch, status |-> "PENDING"]
<1>1. i \in DOMAIN b.allocations /\ in.person \in People /\ in.batch \in Batches \cup {None}
      /\ id \notin DOMAIN b.payouts
  BY DEF ValidFor, Used, IsBook
<1>2. /\ n.sources = b.sources
      /\ DOMAIN n.allocations = DOMAIN b.allocations
      /\ \A a \in DOMAIN b.allocations :
           /\ n.allocations[a].source = b.allocations[a].source
           /\ n.allocations[a].reserved = b.allocations[a].reserved + (IF a = i THEN 1 ELSE 0)
           /\ n.allocations[a].disbursed = b.allocations[a].disbursed
      /\ n.payouts = With(b.payouts, id, row)
  BY <1>1, PayoutAdded DEF SameButCounters
<1>3. /\ DOMAIN n.payouts = DOMAIN b.payouts \cup {id}
      /\ \A p \in DOMAIN b.payouts : n.payouts[p] = b.payouts[p]
      /\ n.payouts[id] = row
  BY <1>1, <1>2 DEF With
<1>4. \A s \in DOMAIN n.sources : SourceBalanced(n, s)
  <2>1. \A s : Given(n, s) = Given(b, s)
    BY <1>2 DEF Given
  <2> QED BY <1>2, <2>1 DEF Balanced, SourceBalanced
<1>5. ASSUME NEW a \in DOMAIN n.allocations PROVE AllocationBalanced(n, a)
  <2>1. /\ AllocationBalanced(b, a)
        /\ b.allocations[a].reserved \in Int /\ b.allocations[a].disbursed \in Int
    BY <1>2, <1>5 DEF Balanced, IsBook
  <2>2. Paid(n, a, {"SETTLED"}) = Paid(b, a, {"SETTLED"})
    BY <1>1, <1>3 DEF Paid
  <2>3. CASE a = i
    <3>1. Paid(n, a, Open) = Paid(b, a, Open) \cup {id} /\ id \notin Paid(b, a, Open)
      BY <1>1, <1>3, <2>3 DEF Paid, Open
    <3>2. Cardinality(Paid(n, a, Open)) = Cardinality(Paid(b, a, Open)) + 1
      BY <3>1, Countable, OneMore DEF Balanced
    <3>3. b.allocations[a].reserved + b.allocations[a].disbursed + 1 <= AllocationAmount
      BY <2>3 DEF Affordable, Promised
    <3>4. /\ n.allocations[a].reserved = b.allocations[a].reserved + 1
          /\ n.allocations[a].disbursed = b.allocations[a].disbursed
      BY <1>2, <1>5, <2>3
    <3> QED BY <2>1, <2>2, <3>2, <3>3, <3>4, ServicesAssumption DEF AllocationBalanced
  <2>4. CASE a # i
    <3>1. Paid(n, a, Open) = Paid(b, a, Open)
      BY <1>1, <1>3, <2>4 DEF Paid
    <3>2. /\ n.allocations[a].reserved = b.allocations[a].reserved
          /\ n.allocations[a].disbursed = b.allocations[a].disbursed
      BY <1>2, <1>5, <2>1, <2>4
    <3> QED BY <2>1, <2>2, <3>1, <3>2 DEF AllocationBalanced
  <2> QED BY <2>3, <2>4
<1> QED BY <1>4, <1>5 DEF Balanced

\* A payout that moves is counted where it arrives, and no longer where it was.
LEMMA MoveCounts ==
  ASSUME NEW b, IsBook(b), IsFiniteSet(Used(b)), NEW n, NEW p \in DOMAIN b.payouts,
         NEW to, NEW dr, NEW dd, Moved(b, n, p, to, dr, dd), NEW a, NEW statuses
  PROVE  Cardinality(Paid(n, a, statuses)) = Cardinality(Paid(b, a, statuses))
           + (IF a # b.payouts[p].allocation THEN 0
              ELSE (IF to \in statuses THEN 1 ELSE 0)
                     - (IF b.payouts[p].status \in statuses THEN 1 ELSE 0))
<1> DEFINE from == b.payouts[p].status
<1>1. /\ DOMAIN n.payouts = DOMAIN b.payouts
      /\ \A q \in DOMAIN b.payouts :
           /\ n.payouts[q].allocation = b.payouts[q].allocation
           /\ n.payouts[q].status = IF q = p THEN to ELSE b.payouts[q].status
  BY DEF Moved
<1>2. IsFiniteSet(Paid(b, a, statuses)) /\ Cardinality(Paid(b, a, statuses)) \in Nat
  BY Countable
<1>3. CASE a = b.payouts[p].allocation /\ to \in statuses /\ from \notin statuses
  <2>1. Paid(n, a, statuses) = Paid(b, a, statuses) \cup {p} /\ p \notin Paid(b, a, statuses)
    BY <1>1, <1>3 DEF Paid
  <2> QED BY <1>2, <1>3, <2>1, OneMore
<1>4. CASE a = b.payouts[p].allocation /\ to \notin statuses /\ from \in statuses
  <2>1. Paid(n, a, statuses) = Paid(b, a, statuses) \ {p} /\ p \in Paid(b, a, statuses)
    BY <1>1, <1>4 DEF Paid
  <2>2. Cardinality(Paid(n, a, statuses)) = Cardinality(Paid(b, a, statuses)) - 1
    BY <1>2, <2>1, FS_RemoveElement
  <2> QED BY <1>2, <1>4, <2>2
<1>5. CASE a # b.payouts[p].allocation \/ (to \in statuses <=> from \in statuses)
  <2>1. Paid(n, a, statuses) = Paid(b, a, statuses)
    BY <1>1, <1>5 DEF Paid
  <2> QED BY <1>2, <1>5, <2>1
<1> QED BY <1>3, <1>4, <1>5

\* What a move adds to the number of payouts in some statuses.
Change(from, to, statuses) ==
  (IF to \in statuses THEN 1 ELSE 0) - (IF from \in statuses THEN 1 ELSE 0)

\* So a decision of what is reserved and a reversal of what is paid balance.
LEMMA MovedBalances ==
  ASSUME NEW b, IsBook(b), Balanced(b), NEW n, NEW p \in DOMAIN b.payouts, NEW to,
         NEW dr \in Int, NEW dd \in Int, Moved(b, n, p, to, dr, dd),
         dr = Change(b.payouts[p].status, to, Open),
         dd = Change(b.payouts[p].status, to, {"SETTLED"}),
         dr + dd <= 0
  PROVE  Balanced(n)
<1>1. /\ n.sources = b.sources /\ Used(n) = Used(b)
      /\ DOMAIN n.allocations = DOMAIN b.allocations
      /\ \A a \in DOMAIN b.allocations :
           /\ n.allocations[a].source = b.allocations[a].source
           /\ n.allocations[a].reserved = b.allocations[a].reserved
                + (IF a = b.payouts[p].allocation THEN dr ELSE 0)
           /\ n.allocations[a].disbursed = b.allocations[a].disbursed
                + (IF a = b.payouts[p].allocation THEN dd ELSE 0)
  <2>1. Used(n) = Used(b)
    BY MovedExtends
  <2> QED BY <2>1 DEF Moved, SameButCounters
<1>2. \A s \in DOMAIN n.sources : SourceBalanced(n, s)
  <2>1. \A s : Given(n, s) = Given(b, s)
    BY <1>1 DEF Given
  <2> QED BY <1>1, <2>1 DEF Balanced, SourceBalanced
<1>3. ASSUME NEW a \in DOMAIN n.allocations PROVE AllocationBalanced(n, a)
  <2>1. /\ AllocationBalanced(b, a)
        /\ b.allocations[a].reserved \in Int /\ b.allocations[a].disbursed \in Int
    BY <1>1, <1>3 DEF Balanced, IsBook
  <2> DEFINE here == a = b.payouts[p].allocation
  <2>2. Cardinality(Paid(n, a, Open)) =
          Cardinality(Paid(b, a, Open)) + (IF here THEN dr ELSE 0)
    BY MoveCounts DEF Balanced, Change
  <2>3. Cardinality(Paid(n, a, {"SETTLED"})) =
          Cardinality(Paid(b, a, {"SETTLED"})) + (IF here THEN dd ELSE 0)
    BY MoveCounts DEF Balanced, Change
  <2>4. /\ n.allocations[a].reserved = b.allocations[a].reserved + (IF here THEN dr ELSE 0)
        /\ n.allocations[a].disbursed = b.allocations[a].disbursed + (IF here THEN dd ELSE 0)
    BY <1>1, <1>3
  <2> QED BY <2>1, <2>2, <2>3, <2>4, ServicesAssumption DEF AllocationBalanced
<1> QED BY <1>1, <1>2, <1>3 DEF Balanced

\* A write of a call that was affordable.
LEMMA AfterBalances ==
  ASSUME NEW b, IsBook(b), Balanced(b), NEW id, id \notin Used(b), NEW in, ValidFor(b, in),
         Affordable(b, in), in.kind = "beneficiary" => in.person \notin DOMAIN b.people,
         in.kind = "reversal" => b.payouts[in.payout].status = "SETTLED"
  PROVE  Balanced(After(b, id, in))
<1> DEFINE n == After(b, id, in)
<1>1. Used(n) \subseteq Used(b) \cup {id}
  BY AfterExtends
<1>2. IsFiniteSet(Used(n))
  BY <1>1, FS_Subset, FS_AddElement DEF Balanced
<1>3. CASE in.kind = "source"
  BY <1>2, <1>3, SourceBalances DEF ValidFor
<1>4. CASE in.kind = "allocation"
  BY <1>2, <1>4, AllocationBalances
<1>5. CASE in.kind = "beneficiary"
  <2>1. n.sources = b.sources /\ n.allocations = b.allocations /\ n.payouts = b.payouts
    BY <1>5, PersonAdded DEF ValidFor
  <2> HIDE DEF n
  <2>2. (\A s : Given(n, s) = Given(b, s)) /\ (\A a, statuses : Paid(n, a, statuses) = Paid(b, a, statuses))
    BY <2>1 DEF Given, Paid
  <2>3. Balanced(n)
    BY <1>2, <2>1, <2>2 DEF Balanced, SourceBalanced, AllocationBalanced
  <2> QED BY <2>3 DEF n
<1>6. CASE in.kind = "payout"
  BY <1>2, <1>6, PayoutBalances
<1>7. CASE in.kind = "reversal"
  <2>1. n = Reversed(b, in.payout) /\ in.payout \in DOMAIN b.payouts
        /\ b.payouts[in.payout].status = "SETTLED"
    BY <1>7 DEF After, ValidFor
  <2>2. Moved(b, n, in.payout, "REVERSED", 0, -1)
    BY <2>1, ReversedMoves
  <2>4. /\ 0 = Change("SETTLED", "REVERSED", Open) /\ -1 = Change("SETTLED", "REVERSED", {"SETTLED"})
        /\ 0 \in Int /\ -1 \in Int /\ 0 + (-1) <= 0
    BY DEF Change, Open
  <2> HIDE DEF n
  <2>3. Balanced(n)
    BY <2>1, <2>2, <2>4, MovedBalances
  <2> QED BY <2>3 DEF n
<1> QED BY <1>3, <1>4, <1>5, <1>6, <1>7 DEF ValidFor

\* A decision.
LEMMA DecidedBalances ==
  ASSUME NEW b, IsBook(b), Balanced(b), NEW p \in DOMAIN b.payouts, NEW s \in {"SETTLED", "FAILED"},
         b.payouts[p].status \in Open
  PROVE  Balanced(Decided(b, p, s))
<1> DEFINE dd == IF s = "SETTLED" THEN 1 ELSE 0
<1>1. Moved(b, Decided(b, p, s), p, s, -1, dd)
  BY DecidedMoves
<1>2. dd \in Int /\ -1 \in Int /\ -1 + dd <= 0
      /\ dd = Change(b.payouts[p].status, s, {"SETTLED"})
  BY DEF Change, Open
<1>3. -1 = Change(b.payouts[p].status, s, Open)
  BY DEF Change, Open
<1> HIDE DEF dd
<1> QED BY <1>1, <1>2, <1>3, MovedBalances

\* What the provider does not know stays reserved.
LEMMA UnknownBalances ==
  ASSUME NEW b, IsBook(b), Balanced(b), NEW p \in DOMAIN b.payouts, b.payouts[p].status = "PENDING"
  PROVE  Balanced(Unknown(b, p))
<1>1. Moved(b, Unknown(b, p), p, "UNKNOWN", 0, 0)
  BY UnknownMoves
<1>2. /\ 0 = Change("PENDING", "UNKNOWN", Open) /\ 0 = Change("PENDING", "UNKNOWN", {"SETTLED"})
      /\ 0 \in Int /\ 0 + 0 <= 0
  BY DEF Change, Open
<1> QED BY <1>1, <1>2, MovedBalances
-----------------------------------------------------------------------------
(***************************************************************************)
(* Every write leaves the counters balanced.                               *)
(***************************************************************************)
\* The rows and, on Fabric, the assets balance.
Sums == Balanced(rows) /\ (Mode = "fabric" => Balanced(world))

\* Every write is of a call that was found affordable, or a decision.
LEMMA SumsStep ==
  ASSUME Inv, Sums, BookStep
  PROVE  Sums'
<1>1. Balanced(rows')
  <2>1. ASSUME NEW c \in Calls, Wrote(c) PROVE Balanced(rows')
    <3>1. pc[c] = "writing" /\ rows' = After(rows, c, input[c]) /\ Unique(input[c])
      BY <2>1 DEF Wrote
    <3>2. /\ IsBook(rows) /\ c \notin Used(rows) /\ ValidFor(rows, input[c])
          /\ input[c].kind = "beneficiary" => input[c].person \notin DOMAIN rows.people
      BY <3>1 DEF Inv, Tidy, RowsFresh, Control, InFlight, Unique, ValidInput
    <3>3. /\ Affordable(rows, input[c])
          /\ input[c].kind = "reversal" => rows.payouts[input[c].payout].status = "SETTLED"
      BY <3>1 DEF Inv, Guarded, Affordable, Reversible, InTransaction
    <3> QED BY <3>1, <3>2, <3>3, AfterBalances DEF Sums
  <2>2. ASSUME NEW p \in DOMAIN recording, Records(p) PROVE Balanced(rows')
    <3>1. /\ IsBook(rows) /\ p \in DOMAIN rows.payouts /\ recording[p] \in {"SETTLED", "FAILED"}
          /\ rows.payouts[p].status \in Open
      BY DEF Inv, Tidy, Outcomes, Settling
    <3> QED BY <2>2, <3>1, DecidedBalances DEF Records, Sums
  <2>4. ASSUME NEW p \in DOMAIN rows.payouts, Doubts(p) PROVE Balanced(rows')
    BY <2>4, UnknownBalances DEF Doubts, Inv, Tidy, Sums
  <2>3. UNCHANGED rows => Balanced(rows')
    BY DEF Sums
  <2> QED BY <2>1, <2>2, <2>3, <2>4, BookStepRows DEF RowsStep
<1>2. ASSUME Mode = "fabric" PROVE Balanced(world')
  <2>0. Tidy /\ Ledger /\ Balanced(world)
    BY <1>2 DEF Inv, Sums
  <2>1. ASSUME NEW c \in Calls, Took(c) PROVE Balanced(world')
    <3>1. /\ c \notin Used(world) /\ ValidFor(world, input[c]) /\ IsBook(world)
          /\ input[c].kind = "beneficiary" => input[c].person \notin DOMAIN world.people
          /\ input[c].kind = "reversal" => world.payouts[input[c].payout].status = "SETTLED"
      BY <1>2, <2>0, <2>1, TookValid DEF Ledger
    <3>2. Accepted(input[c]) /\ world' = After(world, c, input[c])
      BY <2>1 DEF Took
    <3>3. Affordable(world, input[c])
      BY <1>2, <3>2 DEF Accepted, Affordable
    <3> QED BY <2>0, <3>1, <3>2, <3>3, AfterBalances
  <2>2. ASSUME NEW p \in DOMAIN rows.payouts, NEW s \in {"SETTLED", "FAILED"}, Decides(p, s)
        PROVE  Balanced(world')
    <3>1. world.payouts[p].status \in Open /\ world' = Decided(world, p, s)
      BY <1>2, <2>2 DEF Decides, Open
    <3>2. p \in DOMAIN world.payouts /\ IsBook(world)
      BY <2>0 DEF Ledger, Follows
    <3> QED BY <2>0, <3>1, <3>2, DecidedBalances
  <2>3. UNCHANGED world => Balanced(world')
    BY <2>0
  <2>4. ASSUME NEW c \in Calls,
               Began(c) \/ TookLocks(c) \/ Wrote(c) \/ Ended(c) \/ \E in : Asked(c, in)
        PROVE  UNCHANGED world
    BY <2>4 DEF Began, TookLocks, Wrote, Ended, Asked
  <2>5. ASSUME \/ \E p \in DOMAIN rows.payouts : Doubts(p)
               \/ \E p \in DOMAIN recording : Settles(p)
        PROVE  UNCHANGED world
    BY <2>5 DEF Doubts, Settles, Records, Forgets
  <2> QED BY <2>1, <2>2, <2>3, <2>4, <2>5 DEF BookStep
<1> QED BY <1>1, <1>2 DEF Sums

\* In the beginning both books are the balanced seeds.
LEMMA SumsInit == Init => Sums
<1>1. Balanced(Seeds)
  BY SeedsAssumption, BalancedIs
<1> QED BY <1>1 DEF Init, ServicesInit, Sums

\* The counters that initiate and the contract trust: in both books, whatever is
\* in flight, half done or not known to the provider, the counters count the rows,
\* an UNKNOWN payout among the reserved ones, and no more is promised than there is.
\* The ledger checks when it writes; the tables have checked under row locks, which
\* no other write passes.
THEOREM BooksBalance == Spec => []BothBalancesMatch
<1>1. Init => Sums
  BY SumsInit
<1>2. Inv /\ Sums /\ [Next]_vars => Sums'
  BY NextBookStep, SumsStep DEF Inv
<1>3. Sums => BothBalancesMatch
  <2>1. \A b : Balanced(b) => BalancesMatch(b)
    BY BalancedIs DEF Balanced
  <2> QED BY <2>1 DEF Sums, BothBalancesMatch
<1> QED BY <1>1, <1>2, <1>3, InvInit, InvStep, PTL DEF Spec
-----------------------------------------------------------------------------
(***************************************************************************)
(* What a fault leaves in the ledger alone.  A call adds one item to it,   *)
(* and until the call has written its row the item is on its way; so is an *)
(* outcome until the table has it.  If a call ends without writing, or a   *)
(* decision without recording, a fault ended it, or the table refused the  *)
(* phone.  An item is told by its kind and its id, so that two things the  *)
(* ledger has are two items.                                               *)
(***************************************************************************)
Item(c, in) ==
  CASE in.kind = "beneficiary" -> <<"beneficiary", in.person>>
    [] in.kind = "reversal" -> <<"status", in.payout>>
    [] OTHER -> <<in.kind, c>>

\* The payouts that are further in the ledger than in the table.
Differ(b, w) ==
  {q \in DOMAIN b.payouts :
     /\ b.payouts[q].status # w.payouts[q].status
     /\ ~(b.payouts[q].status = "UNKNOWN" /\ w.payouts[q].status = "PENDING")}

\* People whose row the table would take.
Unshared(b, w) ==
  {p \in DOMAIN w.people \ DOMAIN b.people : \A q \in DOMAIN b.people : PhoneOf[q] # PhoneOf[p]}

MissingIn(b, w) ==
  ({"source"} \X (DOMAIN w.sources \ DOMAIN b.sources))
  \cup ({"allocation"} \X (DOMAIN w.allocations \ DOMAIN b.allocations))
  \cup ({"beneficiary"} \X Unshared(b, w))
  \cup ({"payout"} \X (DOMAIN w.payouts \ DOMAIN b.payouts))
  \cup ({"status"} \X Differ(b, w))

Missing == MissingIn(rows, world)

Writing == {c \in Calls : pc[c] = "writing"}
Coming == {Item(c, input[c]) : c \in Writing} \cup ({"status"} \X DOMAIN recording)

Lost == Missing \ Coming

\* The people that calls register are new to the table, and of two calls not the same.
Registering ==
  /\ \A c \in Writing : input[c].kind = "beneficiary" => input[c].person \notin DOMAIN rows.people
  /\ \A c, d \in Writing : /\ input[c].kind = "beneficiary" /\ input[d].kind = "beneficiary"
                           /\ input[c].person = input[d].person
                           => c = d

Kinds == {"source", "allocation", "beneficiary", "payout", "reversal"}

\* Which item a call has.
LEMMA ItemOf ==
  ASSUME NEW c, NEW in
  PROVE  /\ in.kind \in {"source", "allocation", "payout"} => Item(c, in) = <<in.kind, c>>
         /\ in.kind = "beneficiary" => Item(c, in) = <<"beneficiary", in.person>>
         /\ in.kind = "reversal" => Item(c, in) = <<"status", in.payout>>
BY DEF Item

\* What a write of a call adds, and to which table.
LEMMA AfterAdds ==
  ASSUME NEW b, IsBook(b), NEW id, id \notin Used(b), NEW in, ValidFor(b, in)
  PROVE  /\ DOMAIN After(b, id, in).sources =
              DOMAIN b.sources \cup (IF in.kind = "source" THEN {id} ELSE {})
         /\ DOMAIN After(b, id, in).allocations =
              DOMAIN b.allocations \cup (IF in.kind = "allocation" THEN {id} ELSE {})
         /\ DOMAIN After(b, id, in).people =
              DOMAIN b.people \cup (IF in.kind = "beneficiary" THEN {in.person} ELSE {})
         /\ DOMAIN After(b, id, in).payouts =
              DOMAIN b.payouts \cup (IF in.kind = "payout" THEN {id} ELSE {})
<1> DEFINE n == After(b, id, in)
<1>1. CASE in.kind = "source"
  <2>1. /\ n.allocations = b.allocations /\ n.people = b.people /\ n.payouts = b.payouts
        /\ n.sources = With(b.sources, id, [owner |-> OrgOf[in.user], allocated |-> 0])
    BY <1>1, SourceAdded DEF ValidFor
  <2> HIDE DEF n
  <2> QED BY <1>1, <2>1 DEF With, n
<1>2. CASE in.kind = "allocation"
  <2>1. id \notin DOMAIN b.allocations /\ in.user \in Users /\ in.source \in DOMAIN b.sources
        /\ in.place \in Places
    BY <1>2 DEF ValidFor, Used
  <2>2. /\ n.people = b.people /\ n.payouts = b.payouts
        /\ DOMAIN n.sources = DOMAIN b.sources
        /\ n.allocations = With(b.allocations, id, [source |-> in.source, owner |-> OrgOf[in.user],
                                       place |-> in.place, reserved |-> 0, disbursed |-> 0])
    BY <1>2, <2>1, AllocationAdded
  <2> HIDE DEF n
  <2> QED BY <1>2, <2>1, <2>2 DEF With, n
<1>3. CASE in.kind = "beneficiary"
  <2>1. /\ n.sources = b.sources /\ n.allocations = b.allocations /\ n.payouts = b.payouts
        /\ n.people = With(b.people, in.person, in.place)
    BY <1>3, PersonAdded DEF ValidFor
  <2> HIDE DEF n
  <2> QED BY <1>3, <2>1 DEF With, n
<1>4. CASE in.kind = "payout"
  <2>1. in.allocation \in DOMAIN b.allocations /\ in.person \in People /\ in.batch \in Batches \cup {None}
    BY <1>4 DEF ValidFor, IsBook
  <2>2. /\ n.sources = b.sources /\ n.people = b.people
        /\ DOMAIN n.allocations = DOMAIN b.allocations
        /\ n.payouts = With(b.payouts, id, [allocation |-> in.allocation, person |-> in.person,
                                            batch |-> in.batch, status |-> "PENDING"])
    BY <1>4, <2>1, PayoutAdded DEF SameButCounters
  <2> HIDE DEF n
  <2> QED BY <1>4, <2>2 DEF With, n
<1>5. CASE in.kind = "reversal"
  <2>1. n = Reversed(b, in.payout) /\ in.payout \in DOMAIN b.payouts
    BY <1>5 DEF After, ValidFor
  <2>2. Moved(b, n, in.payout, "REVERSED", 0, -1)
    BY <2>1, ReversedMoves
  <2> HIDE DEF n
  <2> QED BY <1>5, <2>2 DEF Moved, SameButCounters, n
<1> QED BY <1>1, <1>2, <1>3, <1>4, <1>5 DEF ValidFor

\* The parts of what is missing.
LEMMA MissingParts ==
  ASSUME NEW b, NEW w, NEW n, NEW v, NEW c, NEW in, in.kind \in Kinds,
         DOMAIN v.sources \ DOMAIN n.sources
           \subseteq (DOMAIN w.sources \ DOMAIN b.sources) \cup (IF in.kind = "source" THEN {c} ELSE {}),
         DOMAIN v.allocations \ DOMAIN n.allocations
           \subseteq (DOMAIN w.allocations \ DOMAIN b.allocations)
                       \cup (IF in.kind = "allocation" THEN {c} ELSE {}),
         Unshared(n, v)
           \subseteq Unshared(b, w) \cup (IF in.kind = "beneficiary" THEN {in.person} ELSE {}),
         DOMAIN v.payouts \ DOMAIN n.payouts
           \subseteq (DOMAIN w.payouts \ DOMAIN b.payouts) \cup (IF in.kind = "payout" THEN {c} ELSE {}),
         Differ(n, v) \subseteq Differ(b, w) \cup (IF in.kind = "reversal" THEN {in.payout} ELSE {})
  PROVE  MissingIn(n, v) \subseteq MissingIn(b, w) \cup {Item(c, in)}
<1> SUFFICES ASSUME NEW x \in MissingIn(n, v), x # Item(c, in) PROVE x \in MissingIn(b, w)
  OBVIOUS
<1>1. PICK k, i :
        /\ x = <<k, i>> /\ k \in {"source", "allocation", "beneficiary", "payout", "status"}
        /\ k = "source" => i \in DOMAIN v.sources \ DOMAIN n.sources
        /\ k = "allocation" => i \in DOMAIN v.allocations \ DOMAIN n.allocations
        /\ k = "beneficiary" => i \in Unshared(n, v)
        /\ k = "payout" => i \in DOMAIN v.payouts \ DOMAIN n.payouts
        /\ k = "status" => i \in Differ(n, v)
  BY DEF MissingIn
<1>2. CASE k = "source"
  BY <1>1, <1>2, ItemOf DEF MissingIn
<1>3. CASE k = "allocation"
  BY <1>1, <1>3, ItemOf DEF MissingIn
<1>4. CASE k = "beneficiary"
  BY <1>1, <1>4, ItemOf DEF MissingIn
<1>5. CASE k = "payout"
  BY <1>1, <1>5, ItemOf DEF MissingIn
<1>6. CASE k = "status"
  BY <1>1, <1>6, ItemOf DEF MissingIn
<1> QED BY <1>1, <1>2, <1>3, <1>4, <1>5, <1>6

\* The ledger takes the item of a call, and nothing else.
LEMMA TookMissing ==
  ASSUME Mode = "fabric", Tidy, Ledger, Registering, NEW c \in Calls, Took(c)
  PROVE  Missing' \subseteq Missing \cup {Item(c, input[c])} /\ Registering'
<1> DEFINE in == input[c]
<1>1. /\ c \notin Used(world) /\ ValidFor(world, in)
      /\ in.kind = "beneficiary" => in.person \notin DOMAIN world.people
  BY TookValid
<1>2. /\ pc[c] = "submitting" /\ world' = After(world, c, in) /\ UNCHANGED rows
      /\ pc' \in [Calls -> Stages] /\ pc'[c] \in {"writing", "done"}
      /\ \A d \in Calls : d # c => pc'[d] = pc[d] /\ input'[d] = input[d]
      /\ pc'[c] = "writing" => input' = input
  BY DEF Took, Goto, Closed, Tidy, Control, Stages
<1>3. IsBook(world)
  BY DEF Ledger
<1>4. \A p \in DOMAIN world.payouts :
        world'.payouts[p].status =
          IF in.kind = "reversal" /\ p = in.payout THEN "REVERSED" ELSE world.payouts[p].status
  BY <1>1, <1>2, <1>3, AfterStatuses
<1>5. /\ DOMAIN world'.sources =
              DOMAIN world.sources \cup (IF in.kind = "source" THEN {c} ELSE {})
      /\ DOMAIN world'.allocations =
              DOMAIN world.allocations \cup (IF in.kind = "allocation" THEN {c} ELSE {})
      /\ DOMAIN world'.people =
              DOMAIN world.people \cup (IF in.kind = "beneficiary" THEN {in.person} ELSE {})
      /\ DOMAIN world'.payouts =
              DOMAIN world.payouts \cup (IF in.kind = "payout" THEN {c} ELSE {})
  BY <1>1, <1>2, <1>3, AfterAdds
<1>6. \A q \in DOMAIN rows.payouts : q \in DOMAIN world.payouts
  BY DEF Ledger, Follows
<1> HIDE DEF in
<1>7. Differ(rows, world') \subseteq
        Differ(rows, world) \cup (IF in.kind = "reversal" THEN {in.payout} ELSE {})
  BY <1>4, <1>6 DEF Differ
<1>8. Missing' \subseteq Missing \cup {Item(c, in)}
  <2>1. in.kind \in Kinds
    BY <1>1 DEF ValidFor, Kinds
  <2>2. MissingIn(rows, world') \subseteq MissingIn(rows, world) \cup {Item(c, in)}
    <3>1. Unshared(rows, world') \subseteq
            Unshared(rows, world) \cup (IF in.kind = "beneficiary" THEN {in.person} ELSE {})
      BY <1>5 DEF Unshared
    <3>2. /\ DOMAIN world'.sources \ DOMAIN rows.sources \subseteq
               (DOMAIN world.sources \ DOMAIN rows.sources)
                 \cup (IF in.kind = "source" THEN {c} ELSE {})
          /\ DOMAIN world'.allocations \ DOMAIN rows.allocations \subseteq
               (DOMAIN world.allocations \ DOMAIN rows.allocations)
                 \cup (IF in.kind = "allocation" THEN {c} ELSE {})
          /\ DOMAIN world'.payouts \ DOMAIN rows.payouts \subseteq
               (DOMAIN world.payouts \ DOMAIN rows.payouts)
                 \cup (IF in.kind = "payout" THEN {c} ELSE {})
      BY <1>5
    <3> QED BY <1>7, <2>1, <3>1, <3>2, MissingParts
  <2> QED BY <1>2, <2>2 DEF Missing
<1>9. Registering'
  <2>1. /\ Writing' \subseteq Writing \cup {c} /\ c \notin Writing
        /\ \A d \in Writing' : input'[d] = input[d]
        /\ \A d \in Writing : input[d].kind = "beneficiary" => input[d].person \in DOMAIN world.people
    BY <1>2 DEF Writing, Ledger, Ahead, Has
  <2>2. in.kind = "beneficiary" => in.person \notin DOMAIN rows.people
    BY <1>1 DEF Ledger, Follows
  <2> QED BY <1>1, <1>2, <2>1, <2>2 DEF Registering, in
<1> QED BY <1>8, <1>9 DEF in

\* The tables catch up with the item of a call.
LEMMA WroteMissing ==
  ASSUME Tidy, Ledger, Registering, NEW c \in Calls, Wrote(c)
  PROVE  Missing' \subseteq Missing \ {Item(c, input[c])} /\ Registering'
<1> DEFINE in == input[c]
<1>1. /\ pc[c] = "writing" /\ rows' = After(rows, c, in) /\ UNCHANGED world
      /\ pc' \in [Calls -> Stages] /\ pc'[c] \in {"publishing", "done"}
      /\ \A d \in Calls : d # c => pc'[d] = pc[d] /\ input'[d] = input[d]
  BY DEF Wrote, Goto, Closed, Tidy, Control, Stages
<1>2. Has(world, c, in) /\ c \notin Used(rows) /\ ValidFor(rows, in) /\ IsBook(rows)
  BY <1>1 DEF Ledger, Ahead, Tidy, RowsFresh, Control, InFlight, ValidInput
<1>3. /\ Has(rows', c, in)
      /\ \A p \in DOMAIN rows.payouts :
           rows'.payouts[p].status =
             IF in.kind = "reversal" /\ p = in.payout THEN "REVERSED" ELSE rows.payouts[p].status
  BY <1>1, <1>2, AfterStatuses
<1>4. /\ DOMAIN rows'.sources =
              DOMAIN rows.sources \cup (IF in.kind = "source" THEN {c} ELSE {})
      /\ DOMAIN rows'.allocations =
              DOMAIN rows.allocations \cup (IF in.kind = "allocation" THEN {c} ELSE {})
      /\ DOMAIN rows'.people =
              DOMAIN rows.people \cup (IF in.kind = "beneficiary" THEN {in.person} ELSE {})
      /\ DOMAIN rows'.payouts =
              DOMAIN rows.payouts \cup (IF in.kind = "payout" THEN {c} ELSE {})
  BY <1>1, <1>2, AfterAdds
<1>5. c \in Writing
  BY <1>1 DEF Writing
<1> HIDE DEF in
<1>6. Differ(rows', world) \subseteq Differ(rows, world) \ (IF in.kind = "reversal" THEN {in.payout} ELSE {})
  <2> SUFFICES ASSUME NEW q \in Differ(rows', world)
               PROVE  q \in Differ(rows, world) /\ ~(in.kind = "reversal" /\ q = in.payout)
    OBVIOUS
  <2>1. CASE q \notin DOMAIN rows.payouts
    <3>1. in.kind = "payout" /\ q = c
      BY <1>4, <2>1 DEF Differ
    <3> QED BY <1>2, <1>3, <3>1 DEF Has, Differ
  <2>2. CASE q \in DOMAIN rows.payouts
    BY <1>2, <1>3, <2>2 DEF Has, Differ
  <2> QED BY <2>1, <2>2
<1>7. Missing' \subseteq Missing \ {Item(c, in)}
  <2>1. in.kind \in Kinds
    BY <1>2 DEF ValidFor, Kinds
  <2>2. Unshared(rows', world) \subseteq
          Unshared(rows, world) \ (IF in.kind = "beneficiary" THEN {in.person} ELSE {})
    BY <1>4 DEF Unshared
  <2>3. /\ DOMAIN world.sources \ DOMAIN rows'.sources \subseteq
             (DOMAIN world.sources \ DOMAIN rows.sources)
               \ (IF in.kind = "source" THEN {c} ELSE {})
        /\ DOMAIN world.allocations \ DOMAIN rows'.allocations \subseteq
             (DOMAIN world.allocations \ DOMAIN rows.allocations)
               \ (IF in.kind = "allocation" THEN {c} ELSE {})
        /\ DOMAIN world.payouts \ DOMAIN rows'.payouts \subseteq
             (DOMAIN world.payouts \ DOMAIN rows.payouts)
               \ (IF in.kind = "payout" THEN {c} ELSE {})
    BY <1>4
  <2>4. MissingIn(rows', world) \subseteq MissingIn(rows, world)
    BY <1>6, <2>2, <2>3 DEF MissingIn
  <2>5. Item(c, in) \notin MissingIn(rows', world)
    <3> DEFINE item == Item(c, in)
    <3>1. /\ in.kind \in {"source", "allocation", "payout"} => item = <<in.kind, c>>
          /\ in.kind = "beneficiary" => item = <<"beneficiary", in.person>>
          /\ in.kind = "reversal" => item = <<"status", in.payout>>
      BY ItemOf
    <3> HIDE DEF item
    <3>2. item \notin MissingIn(rows', world)
      BY <1>6, <2>1, <2>2, <2>3, <3>1 DEF MissingIn, Kinds
    <3> QED BY <3>2 DEF item
  <2>6. world' = world
    BY <1>1
  <2> QED BY <2>4, <2>5, <2>6 DEF Missing
<1>8. Registering'
  <2>1. Writing' = Writing \ {c} /\ \A d \in Writing' : input'[d] = input[d]
    BY <1>1 DEF Writing
  <2>2. \A d \in Writing' : input[d].kind = "beneficiary" => input[d].person \notin DOMAIN rows'.people
    BY <1>4, <1>5, <2>1 DEF Registering, in
  <2> QED BY <2>1, <2>2 DEF Registering
<1> QED BY <1>7, <1>8 DEF in

\* A decision adds the new status of its payout, and its record removes it; an answer
\* that is unknown adds nothing.
LEMMA DecisionsMissing ==
  ASSUME Mode = "fabric", Tidy, Ledger, Settling
  PROVE  /\ \A p \in DOMAIN rows.payouts, s \in {"SETTLED", "FAILED"} :
              Decides(p, s) => Missing' \subseteq Missing \cup {<<"status", p>>}
         /\ \A p \in DOMAIN recording : Records(p) => Missing' \subseteq Missing \ {<<"status", p>>}
         /\ \A p \in DOMAIN rows.payouts : Doubts(p) => Missing' \subseteq Missing
<1>1. \A q \in DOMAIN rows.payouts :
        q \in DOMAIN world.payouts /\ world.payouts[q].status \in LedgerAt(rows.payouts[q].status)
  BY DEF Ledger, Follows
<1>2. ASSUME NEW p \in DOMAIN rows.payouts, NEW s \in {"SETTLED", "FAILED"}, Decides(p, s)
      PROVE  Missing' \subseteq Missing \cup {<<"status", p>>}
  <2>1. rows' = rows /\ Moved(world, world', p, s, -1, IF s = "SETTLED" THEN 1 ELSE 0)
    BY <1>1, <1>2, DecidedMoves DEF Decides, Ledger
  <2>2. /\ DOMAIN world'.sources = DOMAIN world.sources
        /\ DOMAIN world'.allocations = DOMAIN world.allocations
        /\ world'.people = world.people /\ DOMAIN world'.payouts = DOMAIN world.payouts
        /\ \A q \in DOMAIN world.payouts \ {p} : world'.payouts[q].status = world.payouts[q].status
    BY <2>1 DEF Moved, SameButCounters
  <2>3. Differ(rows, world') \subseteq Differ(rows, world) \cup {p}
    BY <1>1, <2>2 DEF Differ
  <2> QED BY <2>1, <2>2, <2>3 DEF Missing, MissingIn, Unshared
<1>3. ASSUME NEW p \in DOMAIN rows.payouts, NEW s, NEW dr, NEW dd, Moved(rows, rows', p, s, dr, dd),
             world' = world
      PROVE  /\ DOMAIN rows'.sources = DOMAIN rows.sources
             /\ DOMAIN rows'.allocations = DOMAIN rows.allocations
             /\ rows'.people = rows.people /\ DOMAIN rows'.payouts = DOMAIN rows.payouts
             /\ rows'.payouts[p].status = s
             /\ \A q \in DOMAIN rows.payouts \ {p} : rows'.payouts[q].status = rows.payouts[q].status
  BY <1>3 DEF Moved, SameButCounters
<1>4. ASSUME NEW p \in DOMAIN recording, Records(p)
      PROVE  Missing' \subseteq Missing \ {<<"status", p>>}
  <2>1. /\ p \in DOMAIN rows.payouts /\ world' = world
        /\ Moved(rows, rows', p, recording[p], -1, IF recording[p] = "SETTLED" THEN 1 ELSE 0)
    BY <1>4, RecordsMoves DEF Records
  <2>2. /\ DOMAIN rows'.sources = DOMAIN rows.sources
        /\ DOMAIN rows'.allocations = DOMAIN rows.allocations
        /\ rows'.people = rows.people /\ DOMAIN rows'.payouts = DOMAIN rows.payouts
        /\ rows'.payouts[p].status = recording[p]
        /\ \A q \in DOMAIN rows.payouts \ {p} : rows'.payouts[q].status = rows.payouts[q].status
    BY <1>3, <2>1
  <2>3. world.payouts[p].status = recording[p]
    BY DEF Ledger, Told
  <2>4. Differ(rows', world) \subseteq Differ(rows, world) \ {p}
    BY <2>2, <2>3 DEF Differ
  <2> QED BY <2>1, <2>2, <2>4 DEF Missing, MissingIn, Unshared
<1>5. ASSUME NEW p \in DOMAIN rows.payouts, Doubts(p)
      PROVE  Missing' \subseteq Missing
  <2>1. world' = world /\ Moved(rows, rows', p, "UNKNOWN", 0, 0) /\ rows.payouts[p].status = "PENDING"
    BY <1>5, DoubtsMoves DEF Doubts
  <2>2. /\ DOMAIN rows'.sources = DOMAIN rows.sources
        /\ DOMAIN rows'.allocations = DOMAIN rows.allocations
        /\ rows'.people = rows.people /\ DOMAIN rows'.payouts = DOMAIN rows.payouts
        /\ rows'.payouts[p].status = "UNKNOWN"
        /\ \A q \in DOMAIN rows.payouts \ {p} : rows'.payouts[q].status = rows.payouts[q].status
    BY <1>3, <2>1
  <2>3. Differ(rows', world) \subseteq Differ(rows, world)
    BY <2>1, <2>2 DEF Differ
  <2> QED BY <2>1, <2>2, <2>3 DEF Missing, MissingIn, Unshared
<1> QED BY <1>2, <1>4, <1>5

\* A step without a fault ends no call that has submitted and not written, unless
\* the table refuses its row, and no decision that is not recorded.
Counted ==
  \/ faults' = faults + 1
  \/ /\ faults' = faults
     /\ \A c \in Calls :
          /\ pc[c] = "submitting" /\ pc'[c] = "done" => UNCHANGED world
          /\ pc[c] = "writing" /\ pc'[c] # "writing" => Wrote(c) \/ ~Unique(input[c])
     /\ \A p \in DOMAIN recording \ DOMAIN recording' : Records(p)

LEMMA FaultsCounted == Tidy /\ [Next]_vars => Counted
<1> SUFFICES ASSUME Tidy, [Next]_vars PROVE Counted
  OBVIOUS
<1>0. pc \in [Calls -> Stages]
  BY DEF Tidy, Control
<1>1. ASSUME UNCHANGED services PROVE Counted
  BY <1>1 DEF services, control, Counted
<1>2. ASSUME NEW c \in Calls, NEW in, Call(c, in) PROVE Counted
  BY <1>0, <1>2 DEF Call, NoFault, Counted, Goto, Answer
<1>3. ASSUME NEW c \in Calls, CallStep(c) PROVE Counted
  <2>1. CASE Begin(c)
    BY <1>0, <2>1 DEF Begin, NoFault, Counted, Goto
  <2>2. CASE LockRows(c)
    BY <1>0, <2>2 DEF LockRows, NoFault, Counted, Goto, Answer
  <2>3. CASE SubmitToLedger(c)
    BY <1>0, <2>3 DEF SubmitToLedger, NoFault, Counted, Goto, Answer
  <2>4. CASE WriteRows(c)
    <3>1. \A d \in Calls : pc'[d] # pc[d] => d = c
      BY <1>0, <2>4 DEF WriteRows, Goto, Answer
    <3>2. Wrote(c) \/ ~Unique(input[c])
      BY <2>4 DEF WriteRows, Wrote, Written, Answer, Closed, Unanswered, NoFault
    <3> QED BY <2>4, <3>1, <3>2 DEF WriteRows, NoFault, Counted
  <2>5. CASE Publish(c)
    BY <1>0, <2>5 DEF Publish, NoFault, Counted, Goto, Answer
  <2> QED BY <1>3, <2>1, <2>2, <2>3, <2>4, <2>5 DEF CallStep
<1>4. ASSUME NEW c \in Calls, CallFault(c) PROVE Counted
  BY <1>4 DEF CallFault, CommitStatusLost, WriteAnswerLost, Fail, RequestTimesOut, Fault, Counted
<1>5. ASSUME NEW p \in DOMAIN rows.payouts, NEW s \in {"SETTLED", "FAILED"}, DecideOnLedger(p, s)
      PROVE  Counted
  BY <1>0, <1>5 DEF DecideOnLedger, With, control, Counted
<1>6. ASSUME NEW p \in DOMAIN rows.payouts, RecordUnknown(p) PROVE Counted
  BY <1>0, <1>6 DEF RecordUnknown, control, Counted
<1>7. ASSUME NEW p \in DOMAIN recording, RecordOutcome(p) PROVE Counted
  <2>1. DOMAIN recording \ DOMAIN recording' \subseteq {p}
    BY <1>7 DEF RecordOutcome, Without
  <2>2. Records(p)
    BY <1>7 DEF RecordOutcome, Records, control
  <2> QED BY <1>0, <1>7, <2>1, <2>2 DEF RecordOutcome, control, Counted
<1>8. ASSUME NEW p \in DOMAIN recording, RecordingFails(p) PROVE Counted
  BY <1>8 DEF RecordingFails, Fault, Counted
<1>9. ASSUME NEW c \in Calls, NEW b \in Batches, NEW u \in Users, ManageBatch(c, b, u) PROVE Counted
  BY <1>0, <1>9 DEF ManageBatch, NoFault, Counted, Goto, Answer
<1>10. ServicesStep => Counted
  BY <1>3, <1>4, <1>5, <1>6, <1>7, <1>8, <1>9 DEF ServicesStep
<1>11. Next => Counted
  BY <1>1, <1>2, <1>10 DEF Next, login, loadFails, reopen, logout, answered, load, loaded, submit,
                         OtherClient
<1> QED BY <1>1, <1>11 DEF vars

\* Each fault leaves at most one item.
FaultsLose == faults \in Nat /\ IsFiniteSet(Lost) /\ Cardinality(Lost) <= faults

LEMMA LostStep ==
  ASSUME Mode = "fabric", Tidy, Ledger, Settling, Registering, FaultsLose, BookStep, Counted
  PROVE  Registering' /\ FaultsLose'
<1>1. ASSUME Lost' \subseteq Lost PROVE FaultsLose'
  <2>1. IsFiniteSet(Lost') /\ Cardinality(Lost') <= Cardinality(Lost) /\ Cardinality(Lost') \in Nat
    BY <1>1, FS_Subset, FS_CardinalityType DEF FaultsLose
  <2>2. Cardinality(Lost) \in Nat
    BY FS_CardinalityType DEF FaultsLose
  <2> QED BY <2>1, <2>2 DEF FaultsLose, Counted
<1>2. ASSUME NEW x, Lost' \subseteq Lost \cup {x}, faults' = faults + 1 PROVE FaultsLose'
  <2>1. /\ IsFiniteSet(Lost \cup {x}) /\ Cardinality(Lost \cup {x}) <= Cardinality(Lost) + 1
        /\ Cardinality(Lost) \in Nat
    <3>1. IsFiniteSet(Lost) /\ Cardinality(Lost) \in Nat
      BY FS_CardinalityType DEF FaultsLose
    <3>2. CASE x \in Lost
      <4>1. Lost \cup {x} = Lost
        BY <3>2
      <4>2. \A n \in Nat : n <= n + 1
        OBVIOUS
      <4> QED BY <3>1, <4>1, <4>2
    <3>3. CASE x \notin Lost
      BY <3>1, <3>3, OneMore, FS_AddElement
    <3> QED BY <3>2, <3>3
  <2>2. /\ IsFiniteSet(Lost') /\ Cardinality(Lost') <= Cardinality(Lost \cup {x})
        /\ Cardinality(Lost') \in Nat /\ Cardinality(Lost \cup {x}) \in Nat
    BY <1>2, <2>1, FS_Subset, FS_CardinalityType
  <2> QED BY <1>2, <2>1, <2>2 DEF FaultsLose
<1>3. pc \in [Calls -> Stages] /\ DOMAIN input = Calls
  BY DEF Tidy, Control
<1>4. ASSUME NEW c \in Calls, Took(c) PROVE Registering' /\ FaultsLose'
  <2>1. Missing' \subseteq Missing \cup {Item(c, input[c])} /\ Registering'
    BY <1>4, TookMissing
  <2>2. /\ pc[c] = "submitting" /\ pc'[c] \in {"writing", "done"} /\ UNCHANGED <<rows, recording>>
        /\ \A d \in Calls : d # c => pc'[d] = pc[d] /\ input'[d] = input[d]
        /\ pc'[c] = "writing" => input' = input
    BY <1>3, <1>4 DEF Took, Goto, Closed
  <2>3. Coming \subseteq Coming'
    BY <2>2 DEF Coming, Writing
  <2>4. CASE faults' = faults + 1
    <3>1. Lost' \subseteq Lost \cup {Item(c, input[c])}
      BY <2>1, <2>3 DEF Lost
    <3> QED BY <1>2, <2>1, <2>4, <3>1
  <2>5. CASE pc'[c] = "writing"
    <3>1. Item(c, input[c]) \in Coming'
      BY <2>2, <2>5 DEF Coming, Writing
    <3> QED BY <1>1, <2>1, <2>3, <3>1 DEF Lost
  <2>6. CASE pc'[c] = "done" /\ faults' # faults + 1
    <3>1. world' = world
      BY <2>2, <2>6 DEF Counted
    <3>2. Missing' = Missing
      BY <2>2, <3>1 DEF Missing
    <3> QED BY <1>1, <2>1, <2>3, <3>2 DEF Lost
  <2> QED BY <2>2, <2>4, <2>5, <2>6
<1>5. ASSUME NEW c \in Calls, Wrote(c) PROVE Registering' /\ FaultsLose'
  <2>1. Missing' \subseteq Missing \ {Item(c, input[c])} /\ Registering'
    BY <1>5, WroteMissing
  <2>2. recording' = recording /\ \A d \in Calls : d # c => pc'[d] = pc[d] /\ input'[d] = input[d]
    BY <1>3, <1>5 DEF Wrote, Goto, Closed
  <2>3. Coming \subseteq Coming' \cup {Item(c, input[c])}
    BY <2>2 DEF Coming, Writing
  <2> QED BY <1>1, <2>1, <2>3 DEF Lost
<1>6. ASSUME rows'.people = rows.people, Writing' \subseteq Writing,
             \A d \in Writing' : input'[d] = input[d]
      PROVE  Registering'
  BY <1>6 DEF Registering
<1>7. ASSUME NEW p \in DOMAIN rows.payouts, NEW s \in {"SETTLED", "FAILED"}, Decides(p, s)
      PROVE  Registering' /\ FaultsLose'
  <2>1. Missing' \subseteq Missing \cup {<<"status", p>>}
    BY <1>7, DecisionsMissing
  <2>2. Writing' = Writing /\ input' = input /\ rows' = rows
        /\ DOMAIN recording' = DOMAIN recording \cup {p}
    BY <1>7 DEF Decides, Writing, With
  <2>3. Coming \subseteq Coming' /\ <<"status", p>> \in Coming'
    BY <2>2 DEF Coming
  <2> QED BY <1>1, <1>6, <2>1, <2>2, <2>3 DEF Lost
<1>8. ASSUME NEW p \in DOMAIN recording, Settles(p) PROVE Registering' /\ FaultsLose'
  <2>1. UNCHANGED <<world, pc, input>> /\ DOMAIN recording' = DOMAIN recording \ {p}
        /\ (Records(p) \/ UNCHANGED rows)
    BY <1>8 DEF Settles, Records, Forgets, Without
  <2>2. Writing' = Writing
    BY <2>1 DEF Writing
  <2>3. rows'.people = rows.people
    <3>1. Records(p) => rows'.people = rows.people
      BY RecordsMoves DEF Moved
    <3> QED BY <2>1, <3>1
  <2>4. Registering'
    BY <1>6, <2>1, <2>2, <2>3
  <2>5. Coming \subseteq Coming' \cup {<<"status", p>>}
    BY <2>1, <2>2 DEF Coming
  <2>6. CASE Records(p)
    <3>1. Missing' \subseteq Missing \ {<<"status", p>>}
      BY <2>6, DecisionsMissing
    <3> QED BY <1>1, <2>4, <2>5, <3>1 DEF Lost
  <2>7. CASE UNCHANGED rows /\ ~Records(p)
    <3>1. faults' = faults + 1
      BY <2>1, <2>7 DEF Counted
    <3>2. Missing' = Missing
      BY <2>1, <2>7 DEF Missing
    <3>3. Lost' \subseteq Lost \cup {<<"status", p>>}
      BY <2>5, <3>2 DEF Lost
    <3> QED BY <1>2, <2>4, <3>1, <3>3
  <2> QED BY <2>1, <2>6, <2>7
<1>9. ASSUME NEW p \in DOMAIN rows.payouts, Doubts(p) PROVE Registering' /\ FaultsLose'
  <2>1. Missing' \subseteq Missing
    BY <1>9, DecisionsMissing
  <2>2. Writing' = Writing /\ Coming' = Coming /\ input' = input
    BY <1>9 DEF Doubts, Writing, Coming
  <2>3. rows'.people = rows.people
    BY <1>9, DoubtsMoves DEF Moved
  <2> QED BY <1>1, <1>6, <2>1, <2>2, <2>3 DEF Lost
<1>10. ASSUME UNCHANGED <<world, rows>> PROVE Missing' = Missing
  BY <1>10 DEF Missing
<1>11. ASSUME NEW c \in Calls, Ended(c) PROVE Registering' /\ FaultsLose'
  <2>1. /\ UNCHANGED <<world, rows, recording>> /\ pc'[c] = "done"
        /\ \A d \in Calls : d # c => pc'[d] = pc[d] /\ input'[d] = input[d]
    BY <1>3, <1>11 DEF Ended, Closed, Goto
  <2>2. Writing' = Writing \ {c} /\ \A d \in Writing' : input'[d] = input[d]
    BY <2>1 DEF Writing
  <2>3. Missing' = Missing /\ Registering'
    BY <1>6, <1>10, <2>1, <2>2
  <2>4. Coming \subseteq Coming' \cup {Item(c, input[c])}
    BY <2>1, <2>2 DEF Coming
  <2>5. CASE c \notin Writing
    <3>1. Coming \subseteq Coming'
      BY <2>1, <2>2, <2>5 DEF Coming
    <3> QED BY <1>1, <2>3, <3>1 DEF Lost
  <2>6. CASE faults' = faults + 1
    <3>1. Lost' \subseteq Lost \cup {Item(c, input[c])}
      BY <2>3, <2>4 DEF Lost
    <3> QED BY <1>2, <2>3, <2>6, <3>1
  <2>7. CASE c \in Writing /\ faults' # faults + 1
    <3>1. Wrote(c) \/ ~Unique(input[c])
      BY <2>1, <2>7 DEF Counted, Writing
    <3>2. CASE ~Unique(input[c])
      <4>1. /\ input[c].kind = "beneficiary" /\ input[c].person \notin DOMAIN rows.people
            /\ \E q \in DOMAIN rows.people : PhoneOf[q] = PhoneOf[input[c].person]
        BY <2>7, <3>2 DEF Unique, Registering
      <4>2. Item(c, input[c]) = <<"beneficiary", input[c].person>>
        BY <4>1, ItemOf
      <4>3. Item(c, input[c]) \notin Missing
        BY <4>1, <4>2 DEF Missing, MissingIn, Unshared
      <4>4. Lost' \subseteq Lost
        BY <2>3, <2>4, <4>3 DEF Lost
      <4> QED BY <1>1, <2>3, <4>4
    <3> QED BY <1>5, <3>1, <3>2
  <2> QED BY <2>5, <2>6, <2>7
<1>12. ASSUME NEW c \in Calls, Began(c) \/ TookLocks(c) \/ \E in : Asked(c, in)
      PROVE  Registering' /\ FaultsLose'
  <2>1. /\ UNCHANGED <<world, rows, recording>> /\ c \notin Writing /\ pc'[c] # "writing"
        /\ \A d \in Calls : d # c => pc'[d] = pc[d] /\ input'[d] = input[d]
    BY <1>3, <1>12 DEF Began, TookLocks, Asked, Closed, Goto, Writing
  <2>2. Writing' = Writing /\ \A d \in Writing : input'[d] = input[d]
    BY <2>1 DEF Writing
  <2>3. Missing' = Missing /\ Registering'
    BY <1>6, <1>10, <2>1, <2>2
  <2>4. Coming' = Coming
    BY <2>1, <2>2 DEF Coming
  <2> QED BY <1>1, <2>3, <2>4 DEF Lost
<1>13. CASE UNCHANGED <<world, rows, pc, input, recording>>
  <2>1. Writing' = Writing /\ Coming' = Coming
    BY <1>13 DEF Writing, Coming
  <2>2. Missing' = Missing /\ Registering'
    BY <1>6, <1>10, <1>13, <2>1
  <2> QED BY <1>1, <2>1, <2>2 DEF Lost
<1> QED BY <1>4, <1>5, <1>7, <1>8, <1>9, <1>11, <1>12, <1>13 DEF BookStep

\* Nothing is missing or on its way at first.
LEMMA LostInit == Init => Registering /\ FaultsLose
<1> SUFFICES ASSUME Init PROVE Registering /\ FaultsLose
  OBVIOUS
<1>1. world = rows /\ pc = [c \in Calls |-> "new"] /\ faults = 0
  BY DEF Init, ServicesInit
<1>2. Writing = {} /\ Missing = {}
  BY <1>1 DEF Writing, Missing, MissingIn, Unshared, Differ
<1>3. Lost = {}
  BY <1>2 DEF Lost
<1> QED BY <1>1, <1>2, <1>3, FS_EmptySet DEF Registering, FaultsLose

\* What is unrecorded are the items that are lost or on their way.
LEMMA UnrecordedAreItems ==
  ASSUME Mode = "fabric", Tidy, Sums, FaultsLose
  PROVE  Cardinality(Unrecorded \ SharedPhones)
           <= faults + Cardinality(Writing) + Cardinality(DOMAIN recording)
<1> DEFINE U == Unrecorded \ SharedPhones
           Items == {Item(c, input[c]) : c \in Writing}
           Outcoming == {"status"} \X DOMAIN recording
           T == Lost \cup Coming
           name == [x \in T |-> IF x[1] = "status" THEN <<"status", x[2]>> ELSE x[2]]
           item == [c \in Writing |-> Item(c, input[c])]
           outcome == [p \in DOMAIN recording |-> <<"status", p>>]
           Names == {name[x] : x \in T}
<1>1. /\ IsFiniteSet(Writing) /\ Cardinality(Writing) \in Nat
      /\ IsFiniteSet(DOMAIN recording) /\ Cardinality(DOMAIN recording) \in Nat
  <2>1. Writing \subseteq Calls
    BY DEF Writing
  <2>2. DOMAIN recording \subseteq Used(rows) /\ IsFiniteSet(Used(rows))
    BY DEF Tidy, Outcomes, Used, Sums, Balanced
  <2> QED BY <2>1, <2>2, ServicesAssumption, FS_Subset, FS_CardinalityType
<1>2. /\ IsFiniteSet(Items) /\ Cardinality(Items) <= Cardinality(Writing)
      /\ Cardinality(Items) \in Nat
  <2>1. Items = {item[c] : c \in Writing}
    OBVIOUS
  <2> HIDE DEF item, Items
  <2> QED BY <1>1, <2>1, ImageIsFinite, FS_CardinalityType
<1>3. /\ IsFiniteSet(Outcoming) /\ Cardinality(Outcoming) <= Cardinality(DOMAIN recording)
      /\ Cardinality(Outcoming) \in Nat
  <2>1. Outcoming = {outcome[p] : p \in DOMAIN recording}
    OBVIOUS
  <2> HIDE DEF outcome, Outcoming
  <2> QED BY <1>1, <2>1, ImageIsFinite, FS_CardinalityType
<1>4. Coming = Items \cup Outcoming
  BY DEF Coming
<1> HIDE DEF Items, Outcoming
<1>5. \A X, Y : IsFiniteSet(X) /\ IsFiniteSet(Y) =>
        /\ IsFiniteSet(X \cup Y) /\ Cardinality(X \cup Y) \in Nat
        /\ Cardinality(X) \in Nat /\ Cardinality(Y) \in Nat
        /\ Cardinality(X \cup Y) <= Cardinality(X) + Cardinality(Y)
  <2> SUFFICES ASSUME NEW X, NEW Y, IsFiniteSet(X), IsFiniteSet(Y)
               PROVE  /\ IsFiniteSet(X \cup Y) /\ Cardinality(X \cup Y) \in Nat
                      /\ Cardinality(X) \in Nat /\ Cardinality(Y) \in Nat
                      /\ Cardinality(X \cup Y) <= Cardinality(X) + Cardinality(Y)
    OBVIOUS
  <2>1. IsFiniteSet(X \cap Y) /\ IsFiniteSet(X \cup Y)
    BY FS_Subset, FS_Union
  <2>2. /\ Cardinality(X \cup Y) = Cardinality(X) + Cardinality(Y) - Cardinality(X \cap Y)
        /\ Cardinality(X) \in Nat /\ Cardinality(Y) \in Nat
        /\ Cardinality(X \cap Y) \in Nat /\ Cardinality(X \cup Y) \in Nat
    BY <2>1, FS_Union, FS_CardinalityType
  <2> QED BY <2>1, <2>2
<1>6. /\ IsFiniteSet(T) /\ Cardinality(T) \in Nat
      /\ Cardinality(T) <= Cardinality(Lost) + Cardinality(Items) + Cardinality(Outcoming)
      /\ Cardinality(Lost) \in Nat
  <2>1. /\ IsFiniteSet(Coming) /\ Cardinality(Coming) \in Nat
        /\ Cardinality(Coming) <= Cardinality(Items) + Cardinality(Outcoming)
    BY <1>2, <1>3, <1>4, <1>5
  <2>2. /\ IsFiniteSet(T) /\ Cardinality(T) \in Nat /\ Cardinality(Lost) \in Nat
        /\ Cardinality(T) <= Cardinality(Lost) + Cardinality(Coming)
    BY <1>5, <2>1 DEF FaultsLose
  <2> HIDE DEF T
  <2> QED BY <1>2, <1>3, <2>1, <2>2
<1>7. IsFiniteSet(Names) /\ Cardinality(Names) <= Cardinality(T) /\ Cardinality(Names) \in Nat
  <2> HIDE DEF name, T
  <2> QED BY <1>6, ImageIsFinite, FS_CardinalityType
<1>8. U \subseteq Names
  <2> SUFFICES ASSUME NEW u \in U PROVE u \in Names
    OBVIOUS
  <2>1. Missing \subseteq T
    BY DEF Lost
  <2>2. \E x \in Missing : u = IF x[1] = "status" THEN <<"status", x[2]>> ELSE x[2]
    <3>1. CASE u \in DOMAIN world.sources \ DOMAIN rows.sources
      <4>1. <<"source", u>> \in Missing
        BY <3>1 DEF Missing, MissingIn
      <4> QED BY <4>1
    <3>2. CASE u \in DOMAIN world.allocations \ DOMAIN rows.allocations
      <4>1. <<"allocation", u>> \in Missing
        BY <3>2 DEF Missing, MissingIn
      <4> QED BY <4>1
    <3>3. CASE u \in DOMAIN world.people \ DOMAIN rows.people
      <4>1. u \in Unshared(rows, world)
        BY <3>3 DEF SharedPhones, Unshared
      <4>2. <<"beneficiary", u>> \in Missing
        BY <4>1 DEF Missing, MissingIn
      <4> QED BY <4>2
    <3>4. CASE u \in DOMAIN world.payouts \ DOMAIN rows.payouts
      <4>1. <<"payout", u>> \in Missing
        BY <3>4 DEF Missing, MissingIn
      <4> QED BY <4>1
    <3>5. CASE u \in {<<"status", q>> : q \in Differ(rows, world)}
      <4>1. PICK q \in Differ(rows, world) : u = <<"status", q>>
        BY <3>5
      <4>2. <<"status", q>> \in Missing
        BY DEF Missing, MissingIn
      <4> QED BY <4>1, <4>2
    <3>6. Behind = Differ(rows, world)
      BY DEF Behind, Differ
    <3> QED BY <3>1, <3>2, <3>3, <3>4, <3>5, <3>6 DEF Unrecorded
  <2>3. \A x \in T : name[x] = IF x[1] = "status" THEN <<"status", x[2]>> ELSE x[2]
    OBVIOUS
  <2> HIDE DEF name, T, U
  <2> QED BY <2>1, <2>2, <2>3
<1>9. IsFiniteSet(U) /\ Cardinality(U) <= Cardinality(Names) /\ Cardinality(U) \in Nat
  <2> HIDE DEF Names, U
  <2> QED BY <1>7, <1>8, FS_Subset, FS_CardinalityType
<1> HIDE DEF U, Names, T
<1>10. Cardinality(U) <= faults + Cardinality(Writing) + Cardinality(DOMAIN recording)
  BY <1>1, <1>2, <1>3, <1>6, <1>7, <1>9 DEF FaultsLose
<1> QED BY <1>10 DEF U

\* "Fabric world state and block history are authoritative", and what the tables
\* lack of it is counted: for any number of calls and decisions at once, they part by
\* no more than a fault each, what is being written or recorded, and the phones that
\* people share.
THEOREM BooksOnlyPartByFaults == Spec => []BooksPartByFaults
<1> DEFINE Account == Mode = "fabric" => Registering /\ FaultsLose
<1>1. Init => Account
  BY LostInit
<1>2. Inv /\ Account /\ [Next]_vars => Account'
  BY NextBookStep, FaultsCounted, LostStep DEF Inv
<1>3. Inv /\ Sums /\ Account => BooksPartByFaults
  <2>1. {c \in Calls : pc[c] = "writing"} = Writing
    BY DEF Writing
  <2> QED BY <2>1, UnrecordedAreItems DEF BooksPartByFaults, Inv
<1>4. Inv /\ Sums /\ [Next]_vars => Sums'
  BY NextBookStep, SumsStep DEF Inv
<1> QED BY <1>1, <1>2, <1>3, <1>4, SumsInit, InvInit, InvStep, PTL DEF Spec
-----------------------------------------------------------------------------
(***************************************************************************)
(* The life of a payout in either book.                                    *)
(***************************************************************************)
Ids == Calls \cup DOMAIN Seeds.payouts

WorldLife ==
  INSTANCE PayoutLifecycle WITH Disbursements <- Ids, status <- StatusIn(world), MaxPaise <- 1

\* The lives that the endpoints and the provider give a payout.
Became(b, n, p, from, to) ==
  StatusIn(b)[p] = from /\ StatusIn(n) = [StatusIn(b) EXCEPT ![p] = to]

LifeStep(b, n) ==
  \/ StatusIn(n) = StatusIn(b)
  \/ \E p \in Ids :
       \/ Became(b, n, p, "none", "PENDING") \/ Became(b, n, p, "SETTLED", "REVERSED")
       \/ Became(b, n, p, "PENDING", "UNKNOWN")
       \/ \E from \in Open, to \in {"SETTLED", "FAILED"} : Became(b, n, p, from, to)

\* The statuses are those before, but for one payout.
OneMoved(b, n, p, to) ==
  /\ DOMAIN n.payouts = DOMAIN b.payouts \cup {p} /\ n.payouts[p].status = to
  /\ \A q \in DOMAIN b.payouts \ {p} : n.payouts[q].status = b.payouts[q].status

LEMMA OneStatus ==
  ASSUME NEW b, NEW n, NEW p \in Ids, NEW to, OneMoved(b, n, p, to)
  PROVE  Became(b, n, p, StatusIn(b)[p], to)
BY DEF StatusIn, Ids, OneMoved, Became

LEMMA NoStatus ==
  ASSUME NEW b, NEW n, DOMAIN n.payouts = DOMAIN b.payouts,
         \A q \in DOMAIN b.payouts : n.payouts[q].status = b.payouts[q].status
  PROVE  StatusIn(n) = StatusIn(b)
BY DEF StatusIn

\* A write of a call gives life to a payout, or reverses one.
LEMMA AfterLife ==
  ASSUME NEW b, IsBook(b), NEW c \in Calls, c \notin Used(b), NEW in, ValidFor(b, in),
         in.kind = "reversal" => b.payouts[in.payout].status = "SETTLED",
         DOMAIN b.payouts \subseteq Ids
  PROVE  LifeStep(b, After(b, c, in)) /\ DOMAIN After(b, c, in).payouts \subseteq Ids
<1> DEFINE n == After(b, c, in)
<1>1. c \in Ids /\ c \notin DOMAIN b.payouts
  BY DEF Ids, Used
<1>2. /\ Has(n, c, in)
      /\ \A p \in DOMAIN b.payouts :
           n.payouts[p].status =
             IF in.kind = "reversal" /\ p = in.payout THEN "REVERSED" ELSE b.payouts[p].status
  BY AfterStatuses
<1>3. CASE in.kind \in {"source", "allocation", "beneficiary"}
  <2>1. n.payouts = b.payouts
    <3>1. CASE in.kind = "source"
      <4>1. /\ n.payouts = b.payouts
            /\ n.sources = With(b.sources, c, [owner |-> OrgOf[in.user], allocated |-> 0])
        BY <3>1, SourceAdded DEF ValidFor
      <4> QED BY <4>1
    <3>2. CASE in.kind = "allocation"
      <4>1. c \notin DOMAIN b.allocations /\ in.user \in Users /\ in.source \in DOMAIN b.sources
            /\ in.place \in Places
        BY <3>2 DEF ValidFor, Used
      <4>2. /\ n.payouts = b.payouts
            /\ n.allocations = With(b.allocations, c, [source |-> in.source, owner |-> OrgOf[in.user],
                                       place |-> in.place, reserved |-> 0, disbursed |-> 0])
        BY <3>2, <4>1, AllocationAdded
      <4> QED BY <4>2
    <3>3. CASE in.kind = "beneficiary"
      BY <3>3, PersonAdded DEF ValidFor
    <3> QED BY <1>3, <3>1, <3>2, <3>3
  <2> HIDE DEF n
  <2>2. StatusIn(n) = StatusIn(b)
    BY <2>1, NoStatus
  <2> QED BY <2>1, <2>2 DEF LifeStep, n
<1>4. CASE in.kind = "payout"
  <2>1. in.allocation \in DOMAIN b.allocations /\ in.person \in People /\ in.batch \in Batches \cup {None}
    BY <1>4 DEF ValidFor, IsBook
  <2>2. n.payouts = With(b.payouts, c, [allocation |-> in.allocation, person |-> in.person,
                                        batch |-> in.batch, status |-> "PENDING"])
    BY <1>4, <2>1, PayoutAdded
  <2> HIDE DEF n
  <2>3. DOMAIN n.payouts = DOMAIN b.payouts \cup {c} /\ n.payouts[c].status = "PENDING"
    BY <2>2 DEF With
  <2>4. StatusIn(b)[c] = "none"
    BY <1>1 DEF StatusIn
  <2>5. Became(b, n, c, "none", "PENDING")
    <3>1. \A q \in DOMAIN b.payouts \ {c} : n.payouts[q].status = b.payouts[q].status
      BY <1>2, <1>4
    <3>2. OneMoved(b, n, c, "PENDING")
      BY <2>3, <3>1 DEF OneMoved
    <3>3. Became(b, n, c, StatusIn(b)[c], "PENDING")
      BY <1>1, <3>2, OneStatus
    <3> QED BY <2>4, <3>3
  <2> QED BY <1>1, <2>3, <2>5 DEF LifeStep, n
<1>5. CASE in.kind = "reversal"
  <2> DEFINE p == in.payout
  <2>1. n = Reversed(b, p) /\ p \in DOMAIN b.payouts
    BY <1>5 DEF After, ValidFor
  <2>2. Moved(b, n, p, "REVERSED", 0, -1)
    BY <2>1, ReversedMoves
  <2> HIDE DEF n, p
  <2>3. DOMAIN n.payouts = DOMAIN b.payouts /\ n.payouts[p].status = "REVERSED" /\ p \in Ids
        /\ \A q \in DOMAIN b.payouts \ {p} : n.payouts[q].status = b.payouts[q].status
    BY <2>1, <2>2 DEF Moved
  <2>4. StatusIn(b)[p] = "SETTLED"
    BY <1>5, <2>1, <2>3 DEF StatusIn, Ids, p
  <2>5. Became(b, n, p, "SETTLED", "REVERSED")
    <3>1. OneMoved(b, n, p, "REVERSED")
      BY <2>1, <2>3 DEF OneMoved
    <3>2. Became(b, n, p, StatusIn(b)[p], "REVERSED")
      BY <2>3, <3>1, OneStatus
    <3> QED BY <2>4, <3>2
  <2> QED BY <2>3, <2>5 DEF LifeStep, n
<1> QED BY <1>3, <1>4, <1>5 DEF ValidFor

\* And a move of a decision ends its wait, or prolongs it.
LEMMA MovedLife ==
  ASSUME NEW b, NEW n, NEW p \in DOMAIN b.payouts, NEW s, NEW dr, NEW dd, Moved(b, n, p, s, dr, dd),
         \/ b.payouts[p].status \in Open /\ s \in {"SETTLED", "FAILED"}
         \/ b.payouts[p].status = "PENDING" /\ s = "UNKNOWN",
         DOMAIN b.payouts \subseteq Ids
  PROVE  LifeStep(b, n) /\ DOMAIN n.payouts \subseteq Ids
<1>1. DOMAIN n.payouts = DOMAIN b.payouts /\ n.payouts[p].status = s /\ p \in Ids
      /\ \A q \in DOMAIN b.payouts \ {p} : n.payouts[q].status = b.payouts[q].status
  BY DEF Moved
<1>2. StatusIn(b)[p] = b.payouts[p].status
  BY <1>1 DEF StatusIn, Ids
<1>3. Became(b, n, p, b.payouts[p].status, s)
  <2>1. OneMoved(b, n, p, s)
    BY <1>1 DEF OneMoved
  <2>2. Became(b, n, p, StatusIn(b)[p], s)
    BY <1>1, <2>1, OneStatus
  <2> QED BY <1>2, <2>2
<1> QED BY <1>1, <1>3 DEF LifeStep

\* Every payout is one of a call or of the seeds.
Known ==
  /\ DOMAIN rows.payouts \subseteq Ids
  /\ Mode = "fabric" => DOMAIN world.payouts \subseteq Ids

LEMMA RowsLive ==
  ASSUME Inv, Known, BookStep
  PROVE  LifeStep(rows, rows') /\ DOMAIN rows'.payouts \subseteq Ids
<1>0. Tidy /\ Settling /\ Guarded /\ DOMAIN rows.payouts \subseteq Ids
  BY DEF Inv, Known
<1>1. ASSUME NEW c \in Calls, Wrote(c)
      PROVE  LifeStep(rows, rows') /\ DOMAIN rows'.payouts \subseteq Ids
  <2>1. pc[c] = "writing" /\ rows' = After(rows, c, input[c])
    BY <1>1 DEF Wrote
  <2>2. IsBook(rows) /\ c \notin Used(rows) /\ ValidFor(rows, input[c])
    BY <1>0, <2>1 DEF Tidy, RowsFresh, Control, InFlight, ValidInput
  <2>3. input[c].kind = "reversal" => rows.payouts[input[c].payout].status = "SETTLED"
    BY <1>0, <2>1 DEF Guarded, InTransaction, Reversible
  <2> QED BY <1>0, <2>1, <2>2, <2>3, AfterLife
<1>2. ASSUME NEW p \in DOMAIN recording, Records(p)
      PROVE  LifeStep(rows, rows') /\ DOMAIN rows'.payouts \subseteq Ids
  <2>1. /\ recording[p] \in {"SETTLED", "FAILED"} /\ p \in DOMAIN rows.payouts
        /\ Moved(rows, rows', p, recording[p], -1, IF recording[p] = "SETTLED" THEN 1 ELSE 0)
        /\ rows.payouts[p].status \in Open
    BY <1>0, <1>2, RecordsMoves DEF Settling
  <2> QED BY <1>0, <2>1, MovedLife
<1>3. ASSUME NEW p \in DOMAIN rows.payouts, Doubts(p)
      PROVE  LifeStep(rows, rows') /\ DOMAIN rows'.payouts \subseteq Ids
  <2>1. Moved(rows, rows', p, "UNKNOWN", 0, 0) /\ rows.payouts[p].status = "PENDING"
    BY <1>0, <1>3, DoubtsMoves DEF Doubts
  <2> QED BY <1>0, <2>1, MovedLife
<1>4. UNCHANGED rows => LifeStep(rows, rows') /\ DOMAIN rows'.payouts \subseteq Ids
  BY <1>0 DEF LifeStep
<1> QED BY <1>1, <1>2, <1>3, <1>4, BookStepRows DEF RowsStep

LEMMA WorldLives ==
  ASSUME Mode = "fabric", Inv, Known, BookStep
  PROVE  LifeStep(world, world') /\ DOMAIN world'.payouts \subseteq Ids
<1>1. ASSUME NEW c \in Calls, Took(c)
      PROVE  LifeStep(world, world') /\ DOMAIN world'.payouts \subseteq Ids
  <2>1. /\ c \notin Used(world) /\ ValidFor(world, input[c]) /\ IsBook(world)
        /\ input[c].kind = "reversal" => world.payouts[input[c].payout].status = "SETTLED"
    BY <1>1, TookValid DEF Inv, Ledger
  <2>2. world' = After(world, c, input[c])
    BY <1>1 DEF Took
  <2> QED BY <2>1, <2>2, AfterLife DEF Known
<1>2. ASSUME NEW p \in DOMAIN rows.payouts, NEW s \in {"SETTLED", "FAILED"}, Decides(p, s)
      PROVE  LifeStep(world, world') /\ DOMAIN world'.payouts \subseteq Ids
  <2>1. world.payouts[p].status = "PENDING" /\ world' = Decided(world, p, s)
    BY <1>2 DEF Decides
  <2>2. p \in DOMAIN world.payouts /\ IsBook(world)
    BY DEF Inv, Ledger, Follows
  <2>3. Moved(world, world', p, s, -1, IF s = "SETTLED" THEN 1 ELSE 0)
    BY <2>1, <2>2, DecidedMoves
  <2> QED BY <2>1, <2>2, <2>3, MovedLife DEF Known, Open
<1>3. UNCHANGED world => LifeStep(world, world') /\ DOMAIN world'.payouts \subseteq Ids
  BY DEF LifeStep, Known
<1>4. ASSUME NEW c \in Calls,
             Began(c) \/ TookLocks(c) \/ Wrote(c) \/ Ended(c) \/ \E in : Asked(c, in)
      PROVE  UNCHANGED world
  BY <1>4 DEF Began, TookLocks, Wrote, Ended, Asked
<1>5. ASSUME NEW p, Settles(p) \/ Doubts(p) PROVE UNCHANGED world
  BY <1>5 DEF Settles, Records, Forgets, Doubts
<1> QED BY <1>1, <1>2, <1>3, <1>4, <1>5 DEF BookStep

\* These lives are those of the contract.
LEMMA LifeIsLifecycle ==
  /\ LifeStep(rows, rows') => [RowsLife!LifecycleNext]_(StatusIn(rows))
  /\ LifeStep(world, world') => [WorldLife!LifecycleNext]_(StatusIn(world))
<1>1. /\ {"PENDING", "UNKNOWN", "SETTLED"} \subseteq RowsLife!PayoutStates
      /\ {"SETTLED", "FAILED", "UNKNOWN"} \subseteq RowsLife!payoutTransitions["PENDING"]
      /\ {"SETTLED", "FAILED"} \subseteq RowsLife!payoutTransitions["UNKNOWN"]
      /\ "REVERSED" \in RowsLife!payoutTransitions["SETTLED"]
  BY DEF RowsLife!PayoutStates, RowsLife!payoutTransitions
<1>2. /\ {"PENDING", "UNKNOWN", "SETTLED"} \subseteq WorldLife!PayoutStates
      /\ {"SETTLED", "FAILED", "UNKNOWN"} \subseteq WorldLife!payoutTransitions["PENDING"]
      /\ {"SETTLED", "FAILED"} \subseteq WorldLife!payoutTransitions["UNKNOWN"]
      /\ "REVERSED" \in WorldLife!payoutTransitions["SETTLED"]
  BY DEF WorldLife!PayoutStates, WorldLife!payoutTransitions
<1>3. StatusIn(rows)' = StatusIn(rows') /\ StatusIn(world)' = StatusIn(world')
  BY DEF StatusIn
<1>4. ASSUME NEW p \in Ids,
             \/ Became(rows, rows', p, "none", "PENDING") \/ Became(rows, rows', p, "SETTLED", "REVERSED")
             \/ Became(rows, rows', p, "PENDING", "UNKNOWN")
             \/ \E from \in Open, to \in {"SETTLED", "FAILED"} : Became(rows, rows', p, from, to)
      PROVE  RowsLife!LifecycleNext
  BY <1>1, <1>3, <1>4 DEF Became, Open, Ids, RowsLife!LifecycleNext, RowsLife!Create,
                          RowsLife!Transition
<1>5. ASSUME NEW p \in Ids,
             \/ Became(world, world', p, "none", "PENDING")
             \/ Became(world, world', p, "SETTLED", "REVERSED")
             \/ Became(world, world', p, "PENDING", "UNKNOWN")
             \/ \E from \in Open, to \in {"SETTLED", "FAILED"} : Became(world, world', p, from, to)
      PROVE  WorldLife!LifecycleNext
  BY <1>2, <1>3, <1>5 DEF Became, Open, WorldLife!LifecycleNext, WorldLife!Create,
                          WorldLife!Transition
<1> QED BY <1>3, <1>4, <1>5 DEF LifeStep

\* In the tables, and on Fabric in the ledger, a payout is created once and then only
\* moves along payoutTransitions of the contract, also by way of UNKNOWN and with the
\* ledger decided before the table, whichever operators, calls, workers and
\* reconciliations meet and whatever fails: none is paid, failed or reversed twice.
THEOREM PayoutsLiveOnce ==
  Spec => RowsLiveOnce /\ [][Mode = "fabric" => WorldLife!LifecycleNext]_(StatusIn(world))
<1>1. Init => Known
  BY DEF Init, ServicesInit, Known, Ids
<1>2. Inv /\ Known /\ [Next]_vars =>
        /\ Known' /\ [RowsLife!LifecycleNext]_(StatusIn(rows))
        /\ [Mode = "fabric" => WorldLife!LifecycleNext]_(StatusIn(world))
  <2> SUFFICES ASSUME Inv, Known, [Next]_vars
               PROVE  /\ Known' /\ [RowsLife!LifecycleNext]_(StatusIn(rows))
                      /\ [Mode = "fabric" => WorldLife!LifecycleNext]_(StatusIn(world))
    OBVIOUS
  <2>1. BookStep
    BY NextBookStep DEF Inv
  <2>2. LifeStep(rows, rows') /\ DOMAIN rows'.payouts \subseteq Ids
    BY <2>1, RowsLive
  <2>3. Mode = "fabric" => LifeStep(world, world') /\ DOMAIN world'.payouts \subseteq Ids
    BY <2>1, WorldLives
  <2>4. Known'
    BY <2>2, <2>3 DEF Known, Ids
  <2> QED BY <2>2, <2>3, <2>4, LifeIsLifecycle
<1> QED BY <1>1, <1>2, InvInit, InvStep, PTL DEF Spec, RowsLiveOnce
-----------------------------------------------------------------------------
(***************************************************************************)
(* Who waits for whom.                                                     *)
(***************************************************************************)

\* What a step of a call waits for: a connection, a row, or nothing.
CanGo(c) ==
  \/ pc[c] = "waiting" /\ FreeConnection
  \/ pc[c] = "begun" /\ RowLocks(input[c]) \cap Locked = {}
  \/ pc[c] = "submitting" /\ (NeedsConnection(c) => FreeConnection)
  \/ pc[c] = "writing" /\ (InTransaction(input[c]) \/ FreeConnection)
  \/ pc[c] = "publishing" /\ FreeConnection

\* And what the record of an outcome waits for.
CanRecord(p) == p \in Finalizing \/ (FreeConnection /\ Unlocked(p))

\* Only a transaction begins, and it is over when it has written.
InPlace(place, in) ==
  /\ place \in {"waiting", "begun"} => InTransaction(in)
  /\ place = "publishing" => ~InTransaction(in)

Staged == \A c \in Calls : InPlace(pc[c], input[c])

LEMMA StagedStep == Tidy /\ Staged /\ [Next]_vars => Staged'
<1> SUFFICES ASSUME Tidy, Staged, [Next]_vars PROVE Staged'
  OBVIOUS
<1>0. pc \in [Calls -> Stages] /\ DOMAIN input = Calls
  BY DEF Tidy, Control
<1>1. ASSUME UNCHANGED <<pc, input>> PROVE Staged'
  BY <1>1 DEF Staged
<1>2. ASSUME NEW c \in Calls, pc' = [pc EXCEPT ![c] = pc'[c]],
             \A d \in Calls : d # c => input'[d] = input[d],
             InPlace(pc'[c], input'[c])
      PROVE  Staged'
  BY <1>0, <1>2 DEF Staged
<1>3. ASSUME NEW c \in Calls, NEW reply, Answer(c, reply) PROVE Staged'
  <2>1. Goto(c, "done") /\ \A d \in Calls : d # c => input'[d] = input[d]
    BY <1>0, <1>3 DEF Answer
  <2> QED BY <1>0, <1>2, <2>1 DEF Goto, InPlace
<1>4. ASSUME NEW c \in Calls, NEW in, Call(c, in) PROVE Staged'
  <2>1. CASE MayCall(in)
    <3>1. /\ (Goto(c, "waiting") /\ InTransaction(in)) \/ Goto(c, "submitting")
          /\ input'[c] = in /\ \A d \in Calls : d # c => input'[d] = input[d]
      BY <1>0, <1>4, <2>1 DEF Call
    <3> QED BY <1>0, <1>2, <3>1 DEF Goto, InPlace
  <2>2. CASE ~MayCall(in)
    BY <1>3, <1>4, <2>2 DEF Call
  <2> QED BY <2>1, <2>2
<1>5. ASSUME NEW c \in Calls, NEW place, Goto(c, place), InPlace(place, input[c]), input' = input
      PROVE  Staged'
  <2>1. pc'[c] = place
    BY <1>0, <1>5 DEF Goto
  <2> QED BY <1>2, <1>5, <2>1 DEF Goto
<1>6. ASSUME NEW c \in Calls, CallStep(c) PROVE Staged'
  <2>1. \/ \E reply : Answer(c, reply)
        \/ /\ input' = input
           /\ \E place : Goto(c, place) /\ InPlace(place, input[c])
    BY <1>6 DEF CallStep, Begin, LockRows, SubmitToLedger, WriteRows, Publish, Unanswered,
                Staged, InPlace
  <2> QED BY <1>3, <1>5, <2>1
<1>7. ASSUME NEW c \in Calls, CallFault(c) PROVE Staged'
  <2>1. (\E reply : Answer(c, reply)) \/ UNCHANGED <<pc, input>>
    BY <1>7 DEF CallFault, CommitStatusLost, WriteAnswerLost, Fail, RequestTimesOut
  <2> QED BY <1>1, <1>3, <2>1
<1>8. ASSUME NEW c \in Calls, NEW b \in Batches, NEW u \in Users, ManageBatch(c, b, u)
      PROVE  Staged'
  BY <1>3, <1>8 DEF ManageBatch
<1>9. ASSUME NEW p \in DOMAIN rows.payouts,
             RecordUnknown(p) \/ \E s \in {"SETTLED", "FAILED"} : DecideOnLedger(p, s)
      PROVE  Staged'
  BY <1>1, <1>9 DEF RecordUnknown, DecideOnLedger, control
<1>10. ASSUME NEW p \in DOMAIN recording, RecordOutcome(p) \/ RecordingFails(p)
       PROVE  Staged'
  BY <1>1, <1>10 DEF RecordOutcome, RecordingFails, control
<1>11. ServicesStep => Staged'
  BY <1>6, <1>7, <1>8, <1>9, <1>10 DEF ServicesStep
<1>12. UNCHANGED services => Staged'
  BY <1>1 DEF services, control
<1>13. Next => Staged'
  BY <1>4, <1>11, <1>12 DEF Next, login, loadFails, reopen, logout, answered, load, loaded, submit,
                         OtherClient
<1> QED BY <1>12, <1>13 DEF vars

\* A worker that records an outcome waits for nothing.  A call in a transaction that
\* has its locks waits for nothing; without one no row is locked; and without any
\* transaction a connection is free.
LEMMA SomeoneCanGoOnFabric ==
  ASSUME Mode = "fabric", Tidy, Staged, (\E c \in Calls : InFlight(c)) \/ DOMAIN recording # {}
  PROVE  (\E d \in Calls : CanGo(d)) \/ (\E p \in DOMAIN recording : CanRecord(p))
<1>1. \A d \in Calls : pc[d] \in Stages
  BY DEF Tidy, Control
<1>2. CASE Finalizing # {}
  BY <1>2 DEF Finalizing, CanRecord
<1>3. CASE \E d \in Calls : pc[d] \in {"submitting", "writing"} /\ InTransaction(input[d])
  BY <1>3 DEF CanGo, NeedsConnection
<1>4. CASE /\ Finalizing = {} /\ \E d \in Calls : d \in Connected
           /\ ~\E d \in Calls : pc[d] \in {"submitting", "writing"} /\ InTransaction(input[d])
  <2>1. PICK d \in Calls : d \in Connected
    BY <1>4
  <2>2. \A e \in Connected : pc[e] = "begun"
    BY <1>1, <1>4 DEF Connected, InFlight, Stages, Staged, InPlace
  <2>3. Locked = {}
    BY <1>4, <2>2 DEF Locked
  <2> QED BY <2>1, <2>2, <2>3 DEF CanGo
<1>5. CASE Finalizing = {} /\ ~\E d \in Calls : d \in Connected
  <2>1. Connected = {}
    BY <1>5 DEF Connected
  <2>2. FreeConnection
    BY <1>5, <2>1, FS_EmptySet, ServicesAssumption DEF FreeConnection
  <2>3. Locked = {}
    BY <1>5, <2>1 DEF Locked
  <2>4. CASE DOMAIN recording # {}
    BY <2>2, <2>3, <2>4 DEF CanRecord, Unlocked
  <2>5. ASSUME NEW c \in Calls, InFlight(c) PROVE CanGo(c)
    <3>1. pc[c] # "begun"
      BY <1>5, <2>5 DEF Connected, InFlight, Staged, InPlace
    <3> QED BY <1>1, <2>2, <2>5, <3>1 DEF CanGo, InFlight, Stages
  <2> QED BY <2>4, <2>5
<1> QED BY <1>2, <1>3, <1>4, <1>5

\* With a connection left, only a row keeps a call or a record waiting, and whoever
\* holds it waits for nothing.
LEMMA SomeoneCanGoWithConnection ==
  ASSUME FreeConnection, Tidy, Staged, (\E c \in Calls : InFlight(c)) \/ DOMAIN recording # {}
  PROVE  (\E d \in Calls : CanGo(d)) \/ (\E p \in DOMAIN recording : CanRecord(p))
<1>1. \A d \in Calls : pc[d] \in Stages
  BY DEF Tidy, Control
<1>2. CASE Locked = {}
  <2>1. CASE DOMAIN recording # {}
    BY <1>2, <2>1 DEF CanRecord, Unlocked
  <2>2. ASSUME NEW c \in Calls, InFlight(c) PROVE CanGo(c)
    BY <1>1, <1>2, <2>2 DEF CanGo, InFlight, Stages
  <2> QED BY <2>1, <2>2
<1>3. CASE Finalizing # {}
  BY <1>3 DEF Finalizing, CanRecord
<1>4. CASE Locked # {} /\ Finalizing = {}
  <2>1. PICK d \in Connected : pc[d] # "begun"
    BY <1>4 DEF Locked
  <2>2. d \in Calls /\ pc[d] \in {"submitting", "writing"} /\ InTransaction(input[d])
    BY <1>1, <2>1 DEF Connected, InFlight, Stages, Staged, InPlace
  <2> QED BY <2>2 DEF CanGo
<1> QED BY <1>2, <1>3, <1>4

\* With any number of calls and decisions and one connection or more, they never wait
\* for each other: a transaction keeps the connection it has for every statement, and
\* the ledger, which it waits for under its locks, needs none.  The memory ledger
\* needs one: there they can only wait for each other when the pool is exhausted,
\* never for each other's rows.  (The runs check this of the steps themselves, which
\* a proof cannot speak of: see CanGo and CanRecord.)
THEOREM NobodyWaitsInACircle ==
  Spec => []((Mode = "fabric" \/ FreeConnection)
               /\ ((\E c \in Calls : InFlight(c)) \/ DOMAIN recording # {})
               => (\E d \in Calls : CanGo(d)) \/ (\E p \in DOMAIN recording : CanRecord(p)))
<1>1. Init => Staged
  BY DEF Init, ServicesInit, Staged, InPlace
<1>2. Inv /\ Staged /\ [Next]_vars => Staged'
  BY StagedStep DEF Inv
<1>3. Inv /\ Staged =>
        ((Mode = "fabric" \/ FreeConnection)
           /\ ((\E c \in Calls : InFlight(c)) \/ DOMAIN recording # {})
           => (\E d \in Calls : CanGo(d)) \/ (\E p \in DOMAIN recording : CanRecord(p)))
  BY SomeoneCanGoOnFabric, SomeoneCanGoWithConnection DEF Inv
<1> QED BY <1>1, <1>2, <1>3, InvInit, InvStep, PTL DEF Spec
=============================================================================
