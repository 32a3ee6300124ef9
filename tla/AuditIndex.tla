----------------------------- MODULE AuditIndex -----------------------------
(***************************************************************************)
(* What the indexer promises the auditors: the index holds the committed   *)
(* events of the channel in their order, each one once and none skipped,   *)
(* and only ever grows.  LedgerIndexer implements it over a stream that    *)
(* breaks and repeats itself.                                              *)
(***************************************************************************)
EXTENDS Naturals, Sequences

VARIABLES
  chain,        \* the committed chaincode events, oldest first
  indexed       \* the positions in chain of the events the index holds

IndexInit == chain = <<>> /\ indexed = {}

Grow ==
  /\ Len(chain') >= Len(chain)
  /\ SubSeq(chain', 1, Len(chain)) = chain
  /\ UNCHANGED indexed

\* The next event, if it is one the auditors can trust.
Index ==
  /\ \E i \in DOMAIN chain :
       /\ indexed = 1..(i - 1)
       /\ chain[i].valid
       /\ indexed' = 1..i
  /\ UNCHANGED chain

IndexSpec == IndexInit /\ [][Grow \/ Index]_<<chain, indexed>>
=============================================================================
