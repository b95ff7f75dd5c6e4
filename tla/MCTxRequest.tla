----------------------------- MODULE MCTxRequest -----------------------------
(***************************************************************************)
(* Three peers, p2 preferred and p3 exempt from the limits, and two hashes *)
(* of transactions without witness, one the parent of the other.           *)
(***************************************************************************)
EXTENDS TxRequest, TLC

CONSTANTS p1, p2, p3, wtxid, parent

MCTransactions == {[txid |-> h, wtxid |-> h] : h \in TxHashes}
MCRank == [h \in TxHashes |-> p1 :> 1 @@ p2 :> 2 @@ p3 :> 3]
=============================================================================
