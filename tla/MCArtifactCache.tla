-------------------------- MODULE MCArtifactCache --------------------------
(* Small instances of ArtifactCache for TLC.                               *)
EXTENDS ArtifactCache, TLC

\* Goroutines and filesystem instances are interchangeable.
Symmetry == Permutations(Clients) \cup Permutations(Handles)
=============================================================================
