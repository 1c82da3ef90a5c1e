-------------------------- MODULE MCGithubResolve --------------------------
(* A small instance of GithubResolve for TLC.                              *)
EXTENDS GithubResolve, TLC

CONSTANTS s1, s2, f1, main, other, upstream, fork

\* Two commits of main; the second also built on another branch, and twice on
\* main in the same second; a fork builds its main, too.
Created == 1 :> 10 @@ 2 :> 20 @@ 3 :> 20 @@ 4 :> 30 @@ 5 :> 40
SHA == 1 :> s1 @@ 2 :> s2 @@ 3 :> s2 @@ 4 :> s2 @@ 5 :> f1
BranchOf == 1 :> main @@ 2 :> main @@ 3 :> main @@ 4 :> other @@ 5 :> main
RepoOf == [r \in 1 .. 5 |-> IF r = 5 THEN fork ELSE upstream]
=============================================================================
