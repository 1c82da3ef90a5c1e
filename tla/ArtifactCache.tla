--------------------------- MODULE ArtifactCache ---------------------------
(***************************************************************************)
(* The LRU cache of artifact filesystems (modules/github_preview/cache.go, *)
(* type ArtifactCache) and the life of the filesystem handles it stores.   *)
(*                                                                         *)
(* A handle stands for one filesystem built by DownloadZipFs: an open file *)
(* on the downloaded zip, together with the cleanup function that closes   *)
(* the file and removes it.  The cache methods run under the mutex and are *)
(* one step each; the cleanup functions they collect run after the unlock, *)
(* in a later step of the same goroutine, so other goroutines get between. *)
(*                                                                         *)
(* The clients are the goroutines that call the cache.  They call it in    *)
(* any order and with any artifact ID: GithubPreview is one such program.  *)
(***************************************************************************)
EXTENDS Integers, FiniteSets

CONSTANTS
  Ids,       \* artifact IDs
  Handles,   \* filesystem instances
  Clients,   \* goroutines using the cache
  MaxSize,   \* max_artifacts
  None       \* "no entry", "no handle"

ASSUME MaxSizeAssumption == MaxSize \in Nat \ {0}
ASSUME NoneAssumption == None \notin Handles
ASSUME IdsAssumption == IsFiniteSet(Ids)

VARIABLES
  entries,   \* artifact ID -> cached handle or None
  older,     \* pairs <<i, j>> of cached IDs: lastAccess of i precedes that of j
  open,      \* handles whose file is open
  held,      \* client -> handle it downloaded and has not cached yet
  todo       \* client -> handles whose cleanup it has yet to run

vars == <<entries, older, open, held, todo>>

-----------------------------------------------------------------------------
(* The operations on the map, as they happen under the mutex.              *)

Cached == {i \in Ids : entries[i] # None}

\* Mutation: a hit is recorded, but the old access still counts.
GetKeepsAge(i) ==
  /\ older' = IF i \in Cached THEN older \cup ((Cached \ {i}) \X {i}) ELSE older
  /\ UNCHANGED entries

\* get: a hit refreshes lastAccess, a miss changes nothing.
Get(i) ==
  /\ older' = IF i \in Cached
                THEN {o \in older : o[1] # i /\ o[2] # i}
                       \cup ((Cached \ {i}) \X {i})
                ELSE older
  /\ UNCHANGED entries

\* Mutation: the eviction loop stops one entry too early.
RoomOffByOne(V) ==
  /\ V \subseteq Cached
  /\ Cardinality(Cached \ V) <= MaxSize
  /\ V # {} => Cardinality(Cached \ V) = MaxSize
  /\ \A v \in V, s \in Cached \ V : <<v, s>> \in older

\* What the loop "for len(entries) >= maxSize { evictOldestLocked() }" evicts:
\* the oldest entries, just enough of them to go below the maximum.
EvictionSet(V) ==
  /\ V \subseteq Cached
  /\ Cardinality(Cached \ V) < MaxSize
  /\ V # {} => Cardinality(Cached \ V) = MaxSize - 1
  /\ \A v \in V, s \in Cached \ V : <<v, s>> \in older

\* Mutation: the evicted entries stay in the map.
PutKeepsVictims(i, h, V) ==
  /\ entries' = [entries EXCEPT ![i] = h]
  /\ older' = {o \in older : i \notin {o[1], o[2]}} \cup ((Cached \ {i}) \X {i})

\* The rest of set: insert or overwrite i.  An overwritten entry is dropped
\* from the map without its cleanup being collected.
Put(i, h, V) ==
  LET kept == (Cached \ V) \ {i} IN
  /\ entries' = [j \in Ids |-> IF j = i THEN h
                               ELSE IF j \in V THEN None ELSE entries[j]]
  /\ older' = {o \in older : o[1] \in kept /\ o[2] \in kept} \cup (kept \X {i})

\* Mutation: evict runs the cleanup but leaves the entry in the map.
DropNothing(i) == UNCHANGED <<entries, older>>

\* The map part of evict.
Drop(i) ==
  /\ entries' = [entries EXCEPT ![i] = None]
  /\ older' = {o \in older : o[1] # i /\ o[2] # i}

\* Mutation: the cleanup of an entry that is not there.
CleanupsUnchecked(V) == {entries[v] : v \in V}

\* Mutation: every element of cleanups is the cleanup of the same entry.
CleanupsOfOne(V) ==
  IF V \cap Cached = {} THEN {} ELSE {entries[CHOOSE v \in V \cap Cached : TRUE]}

\* The cleanups that eviction of the IDs in V collects.
Cleanups(V) == {entries[v] : v \in V \cap Cached}

-----------------------------------------------------------------------------
(* The actions of the clients.                                             *)

CachedHandles == {entries[i] : i \in Cached}
HeldHandles == {held[c] : c \in Clients} \ {None}
Retired == UNION {todo[c] : c \in Clients}

\* DownloadArtifact returns a new filesystem.  A handle nothing refers to any
\* more stands for a new one: the runtime has finalised the old file.
Open(c, h) ==
  /\ held[c] = None
  /\ todo[c] = {}
  /\ h \notin CachedHandles \cup HeldHandles \cup Retired
  /\ held' = [held EXCEPT ![c] = h]
  /\ open' = open \cup {h}
  /\ UNCHANGED <<entries, older, todo>>

\* ArtifactCache.get
Fetch(c, i) ==
  /\ held[c] = None
  /\ todo[c] = {}
  /\ Get(i)
  /\ UNCHANGED <<open, held, todo>>

\* ArtifactCache.set
Store(c, i) ==
  /\ held[c] # None
  /\ \E V \in SUBSET Cached :
       /\ EvictionSet(V)
       /\ Put(i, held[c], V)
       /\ todo' = [todo EXCEPT ![c] = Cleanups(V)]
  /\ held' = [held EXCEPT ![c] = None]
  /\ UNCHANGED open

\* ArtifactCache.evict
Evict(c, i) ==
  /\ held[c] = None
  /\ todo[c] = {}
  /\ i \in Cached
  /\ Drop(i)
  /\ todo' = [todo EXCEPT ![c] = Cleanups({i})]
  /\ UNCHANGED <<open, held>>

\* ArtifactCache.cleanupAll
CleanupAll(c) ==
  /\ held[c] = None
  /\ todo[c] = {}
  /\ entries' = [i \in Ids |-> None]
  /\ older' = {}
  /\ todo' = [todo EXCEPT ![c] = Cleanups(Ids)]
  /\ UNCHANGED <<open, held>>

\* The cleanup functions, run outside the lock.
RunCleanups(c) ==
  /\ todo[c] # {}
  /\ open' = open \ todo[c]
  /\ todo' = [todo EXCEPT ![c] = {}]
  /\ UNCHANGED <<entries, older, held>>

-----------------------------------------------------------------------------
Init ==
  /\ entries = [i \in Ids |-> None]
  /\ older = {}
  /\ open = {}
  /\ held = [c \in Clients |-> None]
  /\ todo = [c \in Clients |-> {}]

Next ==
  \E c \in Clients :
    \/ \E h \in Handles : Open(c, h)
    \/ \E i \in Ids : Fetch(c, i)
    \/ \E i \in Ids : Store(c, i)
    \/ \E i \in Ids : Evict(c, i)
    \/ CleanupAll(c)
    \/ RunCleanups(c)

Spec == Init /\ [][Next]_vars

-----------------------------------------------------------------------------
(* Properties.                                                             *)

TypeOK ==
  /\ entries \in [Ids -> Handles \cup {None}]
  /\ older \subseteq Ids \X Ids
  /\ open \subseteq Handles
  /\ held \in [Clients -> Handles \cup {None}]
  /\ todo \in [Clients -> SUBSET Handles]

\* The cache never holds more than max_artifacts filesystems, however the
\* calls of the clients interleave.
CacheBounded == Cardinality(Cached) <= MaxSize

\* Whatever get hands out is usable: the file behind a cached filesystem is
\* open.  A cleanup that runs late, after the unlock, never closes a handle
\* the cache has.
CachedFsOpen == CachedHandles \subseteq open

\* Cleanup runs at most once for each filesystem: a handle that waits for its
\* cleanup is open, waits with one client only, and nobody else owns it.
\* A second cleanup would remove a file by its path, by then another download.
CleanupOnce ==
  /\ Retired \subseteq open \ (CachedHandles \cup HeldHandles)
  /\ \A c, d \in Clients : c # d => todo[c] \cap todo[d] = {}

\* lastAccess orders the cached artifacts: no two entries are incomparable
\* and none precedes itself, so that evictOldestLocked always has a victim
\* and the loop of set ends.
RecencyIsTotal ==
  /\ \A o \in older : o[1] \in Cached /\ o[2] \in Cached /\ o[1] # o[2]
  /\ \A i, j \in Cached : i # j => (<<i, j>> \in older <=> <<j, i>> \notin older)
  /\ \A i, j, k \in Cached :
       <<i, j>> \in older /\ <<j, k>> \in older => <<i, k>> \in older

\* No call loses an open file, except for set when it overwrites an entry that
\* the eviction loop has left: through evictions, the shutdown and the cleanups
\* after the unlock somebody always has it to close (cache.go:132).
Owned == CachedHandles \cup HeldHandles \cup Retired
LostByOverwriteOnly ==
  [][\A h \in (Owned \cap open') \ Owned' :
       \E c \in Clients, i \in Cached :
         entries[i] = h /\ held[c] # None /\ entries'[i] = held[c]]_vars
=============================================================================
