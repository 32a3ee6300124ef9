--------------------------- MODULE MCPayoutWorker ---------------------------
(***************************************************************************)
(* Small instances of PayoutWorker: two API processes, each running one    *)
(* tick and answering one operator at a time.                              *)
(***************************************************************************)
EXTENDS PayoutWorker, TLC

CONSTANTS w1, w2, t1, t2, o1, o2

MCProcessOf == [p \in Procs |-> IF p \in {t1, o1} THEN w1 ELSE w2]

\* The two processes, each with its tick and its operator, are interchangeable,
MCProcesses ==
  {p \in Permutations(Workers \cup Procs) :
     /\ \A w \in Workers : p[w] \in Workers
     /\ \A t \in Ticks : p[t] \in Ticks
     /\ \A q \in Procs : p[ProcessOf[q]] = ProcessOf[p[q]]}

\* and so are the payouts.
MCPayouts == Permutations(Disbursements)
=============================================================================
