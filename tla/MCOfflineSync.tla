--------------------------- MODULE MCOfflineSync ---------------------------
(***************************************************************************)
(* OfflineSync for TLC.                                                    *)
(***************************************************************************)
EXTENDS OfflineSync, TLC

\* The records differ only in what happens to them.
Symmetry == Permutations(Records)
=============================================================================
