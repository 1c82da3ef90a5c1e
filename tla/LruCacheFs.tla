----------------------------- MODULE LruCacheFs -----------------------------
(***************************************************************************)
(* The read cache of an artifact (modules/github_preview/lrucache.go): a   *)
(* map of files with a doubly linked list in recency order, under a mutex  *)
(* that is released while a missing file is read from the zip.             *)
(*                                                                         *)
(* The fields the mutex protects are one record, so that a locked helper   *)
(* is an operator from records to records.  A node is named by its file:   *)
(* an evicted node is garbage, and a file read again gets a new one.       *)
(***************************************************************************)
EXTENDS Integers, FiniteSets, Sequences, FiniteSetsExt

CONSTANTS
  Names,      \* paths in the artifact
  Dirs,       \* those that are directories
  Size,       \* path -> bytes
  MaxBytes,   \* read_cache_size
  Procs,      \* goroutines of the file server
  None        \* nil

ASSUME NamesAssumption == IsFiniteSet(Names) /\ Dirs \subseteq Names
ASSUME SizeAssumption == Size \in [Names -> Nat] /\ MaxBytes \in Nat
ASSUME NoneAssumption == None \notin Names

VARIABLES
  lru,    \* the lruCacheFs: entries, curBytes, head, tail and the list pointers
  pc,     \* where a goroutine is in Open
  name    \* its argument

vars == <<lru, pc, name>>

-----------------------------------------------------------------------------
(* The helpers that run with the mutex held.                               *)

Empty == [entries |-> {}, curBytes |-> 0, head |-> None, tail |-> None,
          prev |-> [n \in Names |-> None], next |-> [n \in Names |-> None]]

\* f[n] := v, unless n is nil.
SetAt(f, n, v) == IF n = None THEN f ELSE [f EXCEPT ![n] = v]

\* Put the unlinked node n in front.
PushFront(l, n) ==
  [l EXCEPT !.prev = SetAt([@ EXCEPT ![n] = None], l.head, n),
            !.next = [@ EXCEPT ![n] = l.head],
            !.head = n]

\* Mutation: the tail is not moved back when its node is taken to the front.
TouchKeepsTail(l, n) ==
  IF l.head = n THEN l
  ELSE PushFront(
         [l EXCEPT !.next = SetAt(@, l.prev[n], l.next[n]),
                   !.prev = SetAt(@, l.next[n], l.prev[n])], n)

TouchLocked(l, n) ==
  IF l.head = n THEN l
  ELSE PushFront(
         [l EXCEPT !.next = SetAt(@, l.prev[n], l.next[n]),
                   !.prev = SetAt(@, l.next[n], l.prev[n]),
                   !.tail = IF @ = n THEN l.prev[n] ELSE @], n)

EvictLocked(l, n) ==
  [l EXCEPT !.next = SetAt(@, l.prev[n], l.next[n]),
            !.prev = SetAt(@, l.next[n], l.prev[n]),
            !.head = IF l.prev[n] = None THEN l.next[n] ELSE @,
            !.tail = IF l.next[n] = None THEN l.prev[n] ELSE @,
            !.curBytes = @ - Size[n],
            !.entries = @ \ {n}]

\* Mutation: room is made at the wrong end.
EvictHead(l, n) ==
  IF l.curBytes + Size[n] > MaxBytes /\ l.head # None THEN EvictLocked(l, l.head) ELSE l

\* The loop of addLocked: evict the tail until n fits.  It runs at most once
\* for each cached file.
EvictTail(l, n) ==
  IF l.curBytes + Size[n] > MaxBytes /\ l.tail # None THEN EvictLocked(l, l.tail) ELSE l
MakeRoom(l, n) ==
  LET after[k \in 0 .. Cardinality(Names)] ==
        IF k = 0 THEN l ELSE EvictTail(after[k - 1], n)
  IN  after[Cardinality(Names)]

AddLocked(l, n) ==
  LET m == PushFront(MakeRoom(l, n), n) IN
  [m EXCEPT !.entries = @ \cup {n},
            !.curBytes = @ + Size[n],
            !.tail = IF @ = None THEN n ELSE @]

-----------------------------------------------------------------------------
(* Open.                                                                   *)

\* The lookup: a hit is served from memory.
Lookup(p, n) ==
  /\ pc[p] = "idle"
  /\ IF n \in lru.entries
       THEN lru' = TouchLocked(lru, n) /\ UNCHANGED <<pc, name>>
       ELSE /\ pc' = [pc EXCEPT ![p] = "miss"]
            /\ name' = [name EXCEPT ![p] = n]
            /\ UNCHANGED lru

Idle(p) ==
  /\ pc' = [pc EXCEPT ![p] = "idle"]
  /\ name' = [name EXCEPT ![p] = None]

CacheAnySize(n) == n \notin Dirs   \* Mutation: no limit for a single file.
Cacheable(n) == n \notin Dirs /\ Size[n] <= MaxBytes

\* Without the mutex, from the zip: nothing is cached of a directory, of a file
\* larger than the cache, or when the read fails.
Read(p) ==
  /\ pc[p] = "miss"
  /\ \/ Idle(p)
     \/ /\ Cacheable(name[p])
        /\ pc' = [pc EXCEPT ![p] = "read"]
        /\ UNCHANGED name
  /\ UNCHANGED lru

\* With the mutex again: another goroutine may have cached the file meanwhile.
AddBlindly(l, n) == AddLocked(l, n)   \* Mutation: no second look.
Recheck(l, n) == IF n \in l.entries THEN TouchLocked(l, n) ELSE AddLocked(l, n)

Add(p) ==
  /\ pc[p] = "read"
  /\ lru' = Recheck(lru, name[p])
  /\ Idle(p)

Init ==
  /\ lru = Empty
  /\ pc = [p \in Procs |-> "idle"]
  /\ name = [p \in Procs |-> None]

Next ==
  \E p \in Procs :
    \/ \E n \in Names : Lookup(p, n)
    \/ Read(p)
    \/ Add(p)

Spec == Init /\ [][Next]_vars

-----------------------------------------------------------------------------
(* Properties.                                                             *)

TypeOK ==
  /\ lru \in [entries : SUBSET Names, curBytes : Int,
              head : Names \cup {None}, tail : Names \cup {None},
              prev : [Names -> Names \cup {None}], next : [Names -> Names \cup {None}]]
  /\ pc \in [Procs -> {"idle", "miss", "read"}]
  /\ name \in [Procs -> Names \cup {None}]
  /\ \A p \in Procs : pc[p] = "read" => name[p] \in Names \ Dirs /\ Size[name[p]] <= MaxBytes

Bytes(S) == MapThenSumSet(LAMBDA n : Size[n], S)

\* The cache stays within read_cache_size, and curBytes, which the code only
\* ever adds to and subtracts from, is what the cached files take: a file read
\* by several goroutines at once is counted once.
BytesAccounted ==
  /\ lru.curBytes = Bytes(lru.entries)
  /\ lru.curBytes <= MaxBytes

\* Nothing but the nodes of cached files is on the list, and the pointers of
\* neighbours agree in both directions, so that any unlink leaves a list.
ListConsistent ==
  LET l == lru
      Linked(a, b) == l.next[a] = b /\ l.prev[b] = a
  IN
  /\ l.head = None <=> l.entries = {}
  /\ l.tail = None <=> l.entries = {}
  /\ {l.head, l.tail} \subseteq l.entries \cup {None}
  /\ \A n \in l.entries :
       /\ IF n = l.head THEN l.prev[n] = None
          ELSE l.prev[n] \in l.entries /\ Linked(l.prev[n], n)
       /\ IF n = l.tail THEN l.next[n] = None
          ELSE l.next[n] \in l.entries /\ Linked(n, l.next[n])

\* The list, from head to tail.
Order(l) ==
  LET N == Cardinality(l.entries)
      node[k \in 1 .. N] == IF k = 1 THEN l.head ELSE l.next[node[k - 1]]
  IN  [k \in 1 .. N |-> node[k]]

\* The map and the list implement an LRU cache in which an eviction drops the
\* least recently used files, and no more of them than it must.
RC == INSTANCE ReadCache WITH order <- Order(lru)
ReadCacheSpec == RC!Spec
=============================================================================
