---------------------------- MODULE MCSnapshots -----------------------------
(* Snapshots for TLC.                                                      *)
EXTENDS Snapshots, TLC

(* Commits are interchangeable.                                            *)
Symmetry == Permutations(Commits)
=============================================================================
