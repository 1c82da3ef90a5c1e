----------------------------- MODULE ReadCache -----------------------------
(***************************************************************************)
(* What the read cache of an artifact promises: a least-recently-used      *)
(* cache of whole files, bounded in bytes, with no pointers in sight.      *)
(* LruCacheFs implements it with a map and a doubly linked list.           *)
(***************************************************************************)
EXTENDS Integers, SequencesExt

CONSTANTS
  Names,     \* files
  Size,      \* file -> bytes
  MaxBytes   \* read_cache_size

VARIABLE order   \* the cached files, most recently used first

Bytes(S) == MapThenSumSet(LAMBDA n : Size[n], S)

\* The longest prefix of the recency order that leaves room for n.
Kept(n) ==
  LET fits == {k \in 0 .. Len(order) :
                 Bytes(ToSet(SubSeq(order, 1, k))) + Size[n] <= MaxBytes}
  IN  SubSeq(order, 1, CHOOSE k \in fits : \A j \in fits : j <= k)

Hit(n) ==
  \E i \in 1 .. Len(order) :
    /\ order[i] = n
    /\ order' = <<n>> \o RemoveAt(order, i)

Insert(n) ==
  /\ ~Contains(order, n)
  /\ Size[n] <= MaxBytes
  /\ order' = <<n>> \o Kept(n)

Init == order = <<>>
Next == \E n \in Names : Hit(n) \/ Insert(n)
Spec == Init /\ [][Next]_order
=============================================================================
