---------------------------- MODULE MCPublisher -----------------------------
(* Publisher for TLC.                                                      *)
EXTENDS PublisherRefinement, TLC

(* Commits are interchangeable, and so are release identifiers.            *)
Symmetry == Permutations(Commits) \cup Permutations(Releases)
=============================================================================
