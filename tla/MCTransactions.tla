--------------------------- MODULE MCTransactions ---------------------------
(* Instances of Transactions for TLC. *)
EXTENDS Transactions, TLC

CONSTANTS t1, t2, t3, k1, k2

\* Writes without a transaction have one key; scans cover every key.
OneKeyBatches == {{k1}}
FullScan == {Key}
Symmetry == Permutations(Txn)
=============================================================================
