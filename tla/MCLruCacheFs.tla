---------------------------- MODULE MCLruCacheFs ----------------------------
(* A small instance of LruCacheFs for TLC.                                 *)
EXTENDS LruCacheFs, TLC

CONSTANTS a, b, c, big, dir, empty

\* Two small files or one of 2 bytes fill the cache; one file never fits.
Sizes == a :> 1 @@ b :> 1 @@ c :> 2 @@ empty :> 0 @@ big :> 4 @@ dir :> 0
Symmetry == Permutations(Procs)
=============================================================================
