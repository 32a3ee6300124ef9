--------------------------- MODULE MCLedgerIndexer ---------------------------
(***************************************************************************)
(* Small instances of LedgerIndexer.                                       *)
(***************************************************************************)
EXTENDS LedgerIndexer, TLC

\* Any event may be one the indexer cannot read.
MCAnyEvent == BOOLEAN
=============================================================================
