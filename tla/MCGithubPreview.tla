-------------------------- MODULE MCGithubPreview --------------------------
(* Small instances of GithubPreview for TLC.                               *)
EXTENDS GithubPreview, TLC

CONSTANTS k1, k2   \* keys

\* Two keys that resolve to the same artifacts: a PR and its branch.
Shared == k1 :> {1, 2} @@ k2 :> {1, 2}
\* Two keys with artifacts of their own.
Disjoint == k1 :> {1, 2} @@ k2 :> {3}
\* One key, successive builds.
OneKey == k1 :> {1, 2}
OneArtifact == k1 :> {1}
SharedOne == k1 :> {1} @@ k2 :> {1}

Symmetry == Permutations(Requests)
=============================================================================
