---------------------------- MODULE MCReportStore ----------------------------
(* Values of the constants of ReportStore for TLC. *)
EXTENDS ReportStore, TLC

StoreSymmetry == Permutations(Request) \union Permutations(Row)
                   \union Permutations(Run \ Fetching)
==============================================================================
