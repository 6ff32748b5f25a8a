----------------------------- MODULE MCRunLease -----------------------------
(***************************************************************************)
(* Values of the constants of RunLease for TLC.                            *)
(***************************************************************************)
EXTENDS RunLease, TLC

LeaseSymmetry == Permutations(Worker) \union Permutations(Message)
==============================================================================
