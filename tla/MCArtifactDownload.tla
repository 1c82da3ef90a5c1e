------------------------- MODULE MCArtifactDownload -------------------------
(* Small instances of ArtifactDownload for TLC.                            *)
EXTENDS ArtifactDownload, TLC

CONSTANTS d1, d2

\* Two goroutines that download the same artifact, or one each.
SameArtifact == d1 :> 1 @@ d2 :> 1
TwoArtifacts == d1 :> 1 @@ d2 :> 2

InodeSymmetry == Permutations(Inodes)
=============================================================================
