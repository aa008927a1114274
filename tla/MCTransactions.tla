---------------------------- MODULE MCTransactions ----------------------------
(* Instances of Transactions for TLC. *)
EXTENDS Transactions

\* Tunnels, and tables, are told apart by nothing but their records.
Symmetry == Permutations(Ids) \cup Permutations(Tables)
=============================================================================
