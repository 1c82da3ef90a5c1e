------------------------ MODULE ArtifactCacheProofs ------------------------
(***************************************************************************)
(* The safety of ArtifactCache for any artifact IDs, any number of         *)
(* goroutines and any max_artifacts.                                       *)
(*                                                                         *)
(* That a cached filesystem is open is not inductive: a late cleanup might *)
(* close a handle that is cached again.  The invariant that carries the    *)
(* proof is ownership.  A handle belongs to one cache entry, or to one     *)
(* goroutine that has just downloaded it, or to one goroutine that is      *)
(* about to clean it up; the owner only ever hands it over; and an owned   *)
(* handle is open.                                                         *)
(***************************************************************************)
EXTENDS ArtifactCache, FiniteSetTheorems, TLAPS

\* An owned handle is open.
OwnedOpen ==
  /\ \A i \in Cached : entries[i] \in open
  /\ \A c \in Clients : held[c] # None => held[c] \in open
  /\ \A c \in Clients : todo[c] \subseteq open

\* No handle has two owners.
OneOwner ==
  /\ \A i, j \in Cached : i # j => entries[i] # entries[j]
  /\ \A c, d \in Clients : c # d /\ held[c] # None => held[c] # held[d]
  /\ \A c, d \in Clients : c # d => todo[c] \cap todo[d] = {}
  /\ \A i \in Cached, c \in Clients : entries[i] # held[c] /\ entries[i] \notin todo[c]
  /\ \A c, d \in Clients : held[c] \notin todo[d]

Inv == TypeOK /\ OwnedOpen /\ OneOwner

-----------------------------------------------------------------------------
(* The cache's operations.                                                 *)

\* What is cached after set: the entries that were kept, and the new one.
LEMMA PutCached ==
  ASSUME TypeOK, NEW i \in Ids, NEW h \in Handles, NEW V \in SUBSET Cached, Put(i, h, V)
  PROVE  /\ entries' \in [Ids -> Handles \cup {None}]
         /\ Cached' = (Cached \ V) \cup {i}
         /\ entries'[i] = h
         /\ \A j \in Cached' : j # i => entries'[j] = entries[j]
BY NoneAssumption DEF TypeOK, Put, Cached

\* What is cached after evict.
LEMMA DropCached ==
  ASSUME TypeOK, NEW i \in Ids, Drop(i)
  PROVE  /\ entries' \in [Ids -> Handles \cup {None}]
         /\ Cached' = Cached \ {i}
         /\ \A j \in Cached' : entries'[j] = entries[j]
BY DEF TypeOK, Drop, Cached

\* The set of cached artifacts is finite.
LEMMA CachedFinite == IsFiniteSet(Cached)
BY IdsAssumption, FS_Subset DEF Cached

-----------------------------------------------------------------------------
(* Types and ownership.                                                    *)

LEMMA InitInv == Init => Inv
BY DEF Init, Inv, TypeOK, OwnedOpen, OneOwner, Cached

\* Every step of every goroutine keeps the invariant.
LEMMA NextInv == Inv /\ [Next]_vars => Inv'
<1> SUFFICES ASSUME Inv, [Next]_vars PROVE Inv'
  OBVIOUS
<1> USE DEF Inv
<1>1. ASSUME NEW c \in Clients, NEW h \in Handles, Open(c, h) PROVE Inv'
  <2> USE <1>1, NoneAssumption DEF Open, CachedHandles, HeldHandles, Retired
  <2>0. Cached' = Cached
    BY DEF Cached
  <2>1. TypeOK'
    BY DEF TypeOK
  <2>2. OwnedOpen'
    BY <2>0 DEF TypeOK, OwnedOpen
  <2>3. OneOwner'
    BY <2>0 DEF TypeOK, OneOwner
  <2> QED BY <2>1, <2>2, <2>3
<1>2. ASSUME NEW c \in Clients, NEW i \in Ids, Fetch(c, i) PROVE Inv'
  <2> USE <1>2 DEF Fetch, Get
  <2>0. Cached' = Cached
    BY DEF Cached
  <2>1. TypeOK'
    BY DEF TypeOK, Cached
  <2>2. OwnedOpen' /\ OneOwner'
    BY <2>0 DEF OwnedOpen, OneOwner
  <2> QED BY <2>1, <2>2
<1>3. ASSUME NEW c \in Clients, NEW i \in Ids, Store(c, i) PROVE Inv'
  <2> PICK V \in SUBSET Cached :
             /\ Put(i, held[c], V)
             /\ todo' = [todo EXCEPT ![c] = Cleanups(V)]
    BY <1>3 DEF Store
  <2> USE <1>3 DEF Store
  <2>0. held[c] \in Handles
    BY DEF TypeOK
  <2>1. /\ entries' \in [Ids -> Handles \cup {None}]
        /\ Cached' = (Cached \ V) \cup {i}
        /\ entries'[i] = held[c]
        /\ \A j \in Cached' : j # i => entries'[j] = entries[j]
    BY <2>0, PutCached
  <2>2. Cleanups(V) = {entries[v] : v \in V}
    BY DEF Cleanups
  <2>3. V \subseteq Ids /\ \A v \in V : entries[v] \in Handles
    BY DEF TypeOK, Cached
  <2>4. TypeOK'
    BY <2>1, <2>2, <2>3 DEF TypeOK, Put, Cached
  <2>5. OwnedOpen'
    BY <2>1, <2>2 DEF TypeOK, OwnedOpen
  <2>6. OneOwner'
    <3>1. \A a, b \in Cached' : a # b => entries'[a] # entries'[b]
      BY <2>1 DEF OneOwner
    <3>2. \A d, e \in Clients : d # e /\ held'[d] # None => held'[d] # held'[e]
      BY DEF OneOwner, TypeOK
    <3>3. \A d, e \in Clients : d # e => todo'[d] \cap todo'[e] = {}
      BY <2>2 DEF OneOwner, TypeOK
    <3>4. \A a \in Cached', d \in Clients : entries'[a] # held'[d]
      BY <2>1, <2>0, NoneAssumption DEF OneOwner, TypeOK, Cached
    <3>5. \A a \in Cached', d \in Clients : entries'[a] \notin todo'[d]
      BY <2>1, <2>2 DEF OneOwner, TypeOK
    <3>6. \A d, e \in Clients : held'[d] \notin todo'[e]
      BY <2>2, <2>3, NoneAssumption DEF OneOwner, TypeOK
    <3> QED BY <3>1, <3>2, <3>3, <3>4, <3>5, <3>6 DEF OneOwner
  <2> QED BY <2>4, <2>5, <2>6
<1>4. ASSUME NEW c \in Clients, NEW i \in Ids, Evict(c, i) PROVE Inv'
  <2> USE <1>4 DEF Evict
  <2>1. /\ entries' \in [Ids -> Handles \cup {None}]
        /\ Cached' = Cached \ {i}
        /\ \A j \in Cached' : entries'[j] = entries[j]
    BY DropCached
  <2>2. Cleanups({i}) = {entries[i]} /\ entries[i] \in Handles
    BY DEF Cleanups, TypeOK, Cached
  <2>3. TypeOK'
    BY <2>1, <2>2 DEF TypeOK, Drop
  <2>4. OwnedOpen'
    BY <2>1, <2>2 DEF TypeOK, OwnedOpen
  <2>5. OneOwner'
    <3>0. todo' = [todo EXCEPT ![c] = {entries[i]}] /\ held' = held /\ i \in Cached
      BY <2>2
    <3>1. \A d \in Clients :
            /\ todo'[d] = IF d = c THEN {entries[i]} ELSE todo[d]
            /\ entries[i] \notin todo[d]
            /\ entries[i] # held[d]
      BY <3>0 DEF OneOwner, TypeOK
    <3>2. ASSUME NEW d \in Clients, NEW e \in Clients, d # e
          PROVE  todo'[d] \cap todo'[e] = {}
      <4>1. todo[d] \cap todo[e] = {}
        BY <3>2 DEF OneOwner
      <4> QED BY <3>1, <3>2, <4>1
    <3>3. \A a \in Cached', d \in Clients : entries'[a] \notin todo'[d]
      BY <2>1, <3>0, <3>1 DEF OneOwner
    <3>6. \A d, e \in Clients : held'[d] \notin todo'[e]
      BY <3>0, <3>1 DEF OneOwner
    <3>4. \A a, b \in Cached' : a # b => entries'[a] # entries'[b]
      BY <2>1 DEF OneOwner
    <3>5. \A a \in Cached', d \in Clients : entries'[a] # held'[d]
      BY <2>1, <3>0 DEF OneOwner
    <3> QED BY <3>0, <3>2, <3>3, <3>4, <3>5, <3>6 DEF OneOwner
  <2> QED BY <2>3, <2>4, <2>5
<1>5. ASSUME NEW c \in Clients, CleanupAll(c) PROVE Inv'
  <2> USE <1>5 DEF CleanupAll
  <2>1. Cached' = {}
    BY DEF Cached
  <2>2. /\ Cleanups(Ids) = {entries[j] : j \in Cached}
        /\ \A j \in Cached : j \in Ids /\ entries[j] \in Handles
    BY DEF Cleanups, TypeOK, Cached
  <2>3. TypeOK'
    BY <2>2 DEF TypeOK
  <2>4. OwnedOpen'
    BY <2>1, <2>2 DEF TypeOK, OwnedOpen
  <2>5. OneOwner'
    BY <2>1, <2>2, NoneAssumption DEF TypeOK, OneOwner
  <2> QED BY <2>3, <2>4, <2>5
<1>6. ASSUME NEW c \in Clients, RunCleanups(c) PROVE Inv'
  <2> USE <1>6 DEF RunCleanups
  <2>0. Cached' = Cached
    BY DEF Cached
  <2>1. TypeOK'
    BY DEF TypeOK
  <2>2. OwnedOpen'
    BY <2>0 DEF TypeOK, OwnedOpen, OneOwner
  <2>3. OneOwner'
    BY <2>0 DEF TypeOK, OneOwner
  <2> QED BY <2>1, <2>2, <2>3
<1>7. CASE UNCHANGED vars
  BY <1>7 DEF vars, TypeOK, OwnedOpen, OneOwner, Cached
<1> QED BY <1>1, <1>2, <1>3, <1>4, <1>5, <1>6, <1>7 DEF Next

\* The types of the cache's state, and ownership, hold in every behaviour.
THEOREM Ownership == Spec => []Inv
BY InitInv, NextInv, PTL DEF Spec

\* Type correctness.
THEOREM TypeCorrect == Spec => []TypeOK
<1>1. Inv => TypeOK
  BY DEF Inv
<1> QED BY <1>1, Ownership, PTL

\* get never returns a filesystem whose file a cleanup has closed, whatever the
\* order in which goroutines leave the mutex and run their cleanups.
THEOREM CachedOpen == Spec => []CachedFsOpen
<1>1. Inv => CachedFsOpen
  BY DEF Inv, OwnedOpen, CachedFsOpen, CachedHandles
<1> QED BY <1>1, Ownership, PTL

\* The cleanup of a filesystem never runs a second time.
THEOREM CleanedOnce == Spec => []CleanupOnce
<1>1. Inv => CleanupOnce
  BY DEF Inv, OwnedOpen, OneOwner, CleanupOnce, CachedHandles, HeldHandles, Retired
<1> QED BY <1>1, Ownership, PTL

-----------------------------------------------------------------------------
(* Lost files.                                                             *)

\* Nobody downloads while it has cleanups to run, so set never forgets any.
OneTask == \A c \in Clients : held[c] # None => todo[c] = {}

LEMMA OneTaskKept == Inv /\ OneTask /\ [Next]_vars => OneTask'
<1> SUFFICES ASSUME Inv, OneTask, [Next]_vars PROVE OneTask'
  OBVIOUS
<1> USE DEF Inv, TypeOK, OneTask
<1>1. ASSUME NEW c \in Clients, NEW h \in Handles, Open(c, h) PROVE OneTask'
  BY <1>1 DEF Open
<1>2. ASSUME NEW c \in Clients, NEW i \in Ids, Fetch(c, i) PROVE OneTask'
  BY <1>2 DEF Fetch
<1>3. ASSUME NEW c \in Clients, NEW i \in Ids, Store(c, i) PROVE OneTask'
  <2> PICK V \in SUBSET Cached : todo' = [todo EXCEPT ![c] = Cleanups(V)]
    BY <1>3 DEF Store
  <2> QED BY <1>3 DEF Store
<1>4. ASSUME NEW c \in Clients, NEW i \in Ids, Evict(c, i) PROVE OneTask'
  BY <1>4 DEF Evict
<1>5. ASSUME NEW c \in Clients, CleanupAll(c) PROVE OneTask'
  BY <1>5 DEF CleanupAll
<1>6. ASSUME NEW c \in Clients, RunCleanups(c) PROVE OneTask'
  BY <1>6 DEF RunCleanups
<1>7. CASE UNCHANGED vars
  BY <1>7 DEF vars
<1> QED BY <1>1, <1>2, <1>3, <1>4, <1>5, <1>6, <1>7 DEF Next

\* What belongs to nobody any more is closed, unless set has overwritten it.
LEMMA NothingElseLost ==
  ASSUME Inv, OneTask, [Next]_vars, NEW h \in Owned \cap open', h \notin Owned'
  PROVE  \E c \in Clients, i \in Cached :
           entries[i] = h /\ held[c] # None /\ entries'[i] = held[c]
<1> USE DEF Inv, TypeOK
<1>0. \/ \E i \in Cached : h = entries[i]
      \/ \E c \in Clients : held[c] # None /\ h = held[c]
      \/ \E c \in Clients : h \in todo[c]
  BY DEF Owned, CachedHandles, HeldHandles, Retired
<1>a. /\ \A i \in Cached' : h # entries'[i]
      /\ \A c \in Clients : held'[c] # None => h # held'[c]
      /\ \A c \in Clients : h \notin todo'[c]
  BY DEF Owned, CachedHandles, HeldHandles, Retired
<1>1. ASSUME NEW c \in Clients, NEW g \in Handles, Open(c, g) PROVE FALSE
  BY <1>0, <1>a, <1>1 DEF Open, Cached
<1>2. ASSUME NEW c \in Clients, NEW i \in Ids, Fetch(c, i) PROVE FALSE
  BY <1>0, <1>a, <1>2 DEF Fetch, Get, Cached
<1>3. ASSUME NEW c \in Clients, NEW i \in Ids, Store(c, i)
      PROVE  i \in Cached /\ entries[i] = h /\ held[c] # None /\ entries'[i] = held[c]
  <2> PICK V \in SUBSET Cached :
             /\ Put(i, held[c], V)
             /\ todo' = [todo EXCEPT ![c] = Cleanups(V)]
    BY <1>3 DEF Store
  <2>1. held[c] \in Handles /\ held[c] # None /\ todo[c] = {}
    BY <1>3 DEF Store, OneTask
  <2>2. /\ Cached' = (Cached \ V) \cup {i}
        /\ entries'[i] = held[c]
        /\ \A j \in Cached' : j # i => entries'[j] = entries[j]
    BY <2>1, PutCached
  <2>3. \A v \in V : entries[v] \in todo'[c]
    BY DEF Cleanups
  <2>4. \A d \in Clients : d # c => todo'[d] = todo[d] /\ held'[d] = held[d]
    BY <1>3 DEF Store
  <2>5. h # held[c]
    BY <1>a, <2>2
  <2>6. \E j \in Cached : h = entries[j]
    BY <1>0, <1>a, <2>1, <2>4, <2>5
  <2>7. PICK j \in Cached : h = entries[j]
    BY <2>6
  <2>8. j \notin V
    BY <1>a, <2>3, <2>7
  <2>9. j = i
    BY <1>a, <2>2, <2>7, <2>8
  <2> QED BY <2>1, <2>2, <2>7, <2>9
<1>4. ASSUME NEW c \in Clients, NEW i \in Ids, Evict(c, i) PROVE FALSE
  <2>1. /\ Cached' = Cached \ {i}
        /\ \A j \in Cached' : entries'[j] = entries[j]
    BY <1>4, DropCached DEF Evict
  <2>2. entries[i] \in todo'[c] /\ todo[c] = {}
    BY <1>4 DEF Evict, Cleanups
  <2>3. \A d \in Clients : held'[d] = held[d] /\ (d # c => todo'[d] = todo[d])
    BY <1>4 DEF Evict
  <2> QED BY <1>0, <1>a, <2>1, <2>2, <2>3
<1>5. ASSUME NEW c \in Clients, CleanupAll(c) PROVE FALSE
  <2>1. \A j \in Cached : entries[j] \in todo'[c]
    BY <1>5 DEF CleanupAll, Cleanups, Cached
  <2>2. \A d \in Clients : held'[d] = held[d] /\ (d # c => todo'[d] = todo[d])
    BY <1>5 DEF CleanupAll
  <2> QED BY <1>0, <1>a, <1>5, <2>1, <2>2 DEF CleanupAll
<1>6. ASSUME NEW c \in Clients, RunCleanups(c) PROVE FALSE
  BY <1>0, <1>a, <1>6 DEF RunCleanups, Cached
<1>7. CASE UNCHANGED vars
  BY <1>0, <1>a, <1>7 DEF vars, Cached
<1> QED BY <1>1, <1>2, <1>3, <1>4, <1>5, <1>6, <1>7 DEF Next

\* Whatever the goroutines do, an open file that nobody will ever close is one
\* that set has overwritten: evictions, however many entries they take, and
\* cleanups after the unlock lose none.
THEOREM OverwriteLoses == Spec => LostByOverwriteOnly
<1>1. Init => OneTask
  BY DEF Init, OneTask
<1>2. Spec => []OneTask
  BY <1>1, OneTaskKept, Ownership, PTL DEF Spec
<1>3. Inv /\ OneTask /\ [Next]_vars =>
        [\A h \in (Owned \cap open') \ Owned' :
           \E c \in Clients, i \in Cached :
             entries[i] = h /\ held[c] # None /\ entries'[i] = held[c]]_vars
  BY NothingElseLost
<1> QED BY <1>2, <1>3, Ownership, PTL DEF Spec, LostByOverwriteOnly

-----------------------------------------------------------------------------
(* The bound.                                                              *)

\* The loop of set makes room for one entry, so that the cache never exceeds
\* max_artifacts; get and evict do not add entries.
THEOREM Bounded == Spec => []CacheBounded
<1>1. Init => CacheBounded
  <2> SUFFICES ASSUME Init PROVE CacheBounded
    OBVIOUS
  <2>1. Cached = {}
    BY DEF Init, Cached
  <2> QED BY <2>1, FS_EmptySet, MaxSizeAssumption DEF CacheBounded
<1>2. TypeOK /\ CacheBounded /\ [Next]_vars => CacheBounded'
  <2> SUFFICES ASSUME TypeOK, CacheBounded, [Next]_vars PROVE CacheBounded'
    OBVIOUS
  <2> DEFINE Shrinks == Cached' \subseteq Cached
  <2>1. CASE Shrinks
    BY <2>1, CachedFinite, FS_Subset, FS_CardinalityType, MaxSizeAssumption
       DEF CacheBounded
  <2>2. ASSUME NEW c \in Clients, NEW i \in Ids, Store(c, i) PROVE CacheBounded'
    <3> PICK V \in SUBSET Cached : EvictionSet(V) /\ Put(i, held[c], V)
      BY <2>2 DEF Store
    <3>1. held[c] \in Handles
      BY <2>2 DEF Store, TypeOK
    <3>2. Cached' = (Cached \ V) \cup {i}
      BY <3>1, PutCached
    <3>3. IsFiniteSet(Cached \ V) /\ Cardinality(Cached \ V) < MaxSize
      BY CachedFinite, FS_Subset DEF EvictionSet
    <3>4. Cardinality(Cached \ V) \in Nat
      BY <3>3, FS_CardinalityType
    <3>5. Cardinality((Cached \ V) \cup {i}) \in
            {Cardinality(Cached \ V), Cardinality(Cached \ V) + 1}
      <4> HIDE DEF Cached
      <4> QED BY <3>3, FS_AddElement
    <3>6. Cardinality(Cached') \in {Cardinality(Cached \ V), Cardinality(Cached \ V) + 1}
      BY <3>2, <3>5
    <3> QED BY <3>3, <3>4, <3>5, <3>6, MaxSizeAssumption DEF CacheBounded
  <2>3. ASSUME NEW c \in Clients, NEW h \in Handles, Open(c, h) PROVE Shrinks
    BY <2>3 DEF Open, Cached
  <2>4. ASSUME NEW c \in Clients, NEW i \in Ids, Fetch(c, i) PROVE Shrinks
    BY <2>4 DEF Fetch, Get, Cached
  <2>5. ASSUME NEW c \in Clients, NEW i \in Ids, Evict(c, i) PROVE Shrinks
    BY <2>5, DropCached DEF Evict
  <2>6. ASSUME NEW c \in Clients, CleanupAll(c) PROVE Shrinks
    BY <2>6 DEF CleanupAll, Cached
  <2>7. ASSUME NEW c \in Clients, RunCleanups(c) PROVE Shrinks
    BY <2>7 DEF RunCleanups, Cached
  <2>8. CASE UNCHANGED vars
    BY <2>1, <2>8 DEF vars, Cached
  <2> QED BY <2>1, <2>2, <2>3, <2>4, <2>5, <2>6, <2>7, <2>8 DEF Next
<1> QED BY <1>1, <1>2, TypeCorrect, PTL DEF Spec

-----------------------------------------------------------------------------
(* The recency order.                                                      *)

\* R orders C strictly and totally.
Orders(R, C) ==
  /\ R \subseteq C \X C
  /\ \A i \in C : <<i, i>> \notin R
  /\ \A i, j \in C : i # j => (<<i, j>> \in R <=> <<j, i>> \notin R)
  /\ \A i, j, k \in C : <<i, j>> \in R /\ <<j, k>> \in R => <<i, k>> \in R

\* The part of R among the elements of K.
Among(R, K) == {o \in R : o[1] \in K /\ o[2] \in K}

\* An order of C restricted to a subset is an order of the subset.
LEMMA OrderRestricted ==
  ASSUME NEW C, NEW R, Orders(R, C), NEW K \in SUBSET C
  PROVE  Orders(Among(R, K), K)
<1> DEFINE P == Among(R, K)
<1>1. \A o \in R : o \in C \X C
  BY DEF Orders
<1>2. P \subseteq K \X K
  BY <1>1 DEF Among
<1>3. \A i, j \in K : <<i, j>> \in P <=> <<i, j>> \in R
  BY DEF Among
<1> QED BY <1>2, <1>3 DEF Orders

\* To make an element the newest keeps the order strict and total.
LEMMA OrderAppended ==
  ASSUME NEW K, NEW R, Orders(R, K), NEW i, i \notin K
  PROVE  Orders(R \cup (K \X {i}), K \cup {i})
<1> DEFINE P == R \cup (K \X {i})
           D == K \cup {i}
<1>1. P \subseteq D \X D
  BY DEF Orders
<1>2. \A a, b \in K : <<a, b>> \in P <=> <<a, b>> \in R
  BY DEF Orders
<1>3. \A a \in K : <<a, i>> \in P /\ <<i, a>> \notin P
  BY DEF Orders
<1>4. <<i, i>> \notin P
  BY DEF Orders
<1>5. \A a \in D : <<a, a>> \notin P
  BY <1>2, <1>4 DEF Orders
<1>6. \A a, b \in D : a # b => (<<a, b>> \in P <=> <<b, a>> \notin P)
  BY <1>2, <1>3 DEF Orders
<1>7. ASSUME NEW a \in D, NEW b \in D, NEW c \in D, <<a, b>> \in P, <<b, c>> \in P
      PROVE  <<a, c>> \in P
  <2>1. CASE c = i
    BY <1>3, <1>4, <1>7, <2>1
  <2>2. CASE c # i
    <3>1. b # i /\ a # i
      BY <1>3, <1>7, <2>2
    <3> QED BY <1>2, <1>7, <2>2, <3>1 DEF Orders
  <2> QED BY <2>1, <2>2
<1> HIDE DEF P, D
<1>8. Orders(P, D)
  BY <1>1, <1>5, <1>6, <1>7 DEF Orders
<1> QED BY <1>8 DEF P, D

\* RecencyIsTotal says that older orders the cached artifacts.
LEMMA RecencyOrders ==
  ASSUME older \in SUBSET (Ids \X Ids)
  PROVE  RecencyIsTotal <=> Orders(older, Cached)
<1>1. \A o \in older : o = <<o[1], o[2]>>
  OBVIOUS
<1>2. ASSUME RecencyIsTotal PROVE Orders(older, Cached)
  <2>1. older \subseteq Cached \X Cached
    BY <1>1, <1>2 DEF RecencyIsTotal
  <2>2. \A i \in Cached : <<i, i>> \notin older
    <3> SUFFICES ASSUME NEW i \in Cached, <<i, i>> \in older PROVE FALSE
      OBVIOUS
    <3>1. <<i, i>>[1] # <<i, i>>[2]
      BY <1>2 DEF RecencyIsTotal
    <3> QED BY <3>1
  <2> QED BY <1>2, <2>1, <2>2 DEF Orders, RecencyIsTotal
<1>3. ASSUME Orders(older, Cached) PROVE RecencyIsTotal
  <2>1. \A o \in older : o[1] \in Cached /\ o[2] \in Cached /\ o[1] # o[2]
    BY <1>1, <1>3 DEF Orders
  <2> QED BY <1>3, <2>1 DEF Orders, RecencyIsTotal
<1> QED BY <1>2, <1>3

\* lastAccess orders the cached artifacts strictly and totally at any time, so
\* that the eviction loop of set always has a victim.
THEOREM Recency == Spec => []RecencyIsTotal
<1> DEFINE Total == Orders(older, Cached)
<1>1. Init => Total
  BY DEF Init, Cached, Orders
<1>2. TypeOK /\ TypeOK' /\ Total /\ [Next]_vars => Total'
  <2> SUFFICES ASSUME TypeOK, TypeOK', Total, [Next]_vars PROVE Total'
    OBVIOUS
  <2>1. ASSUME NEW c \in Clients, NEW i \in Ids, Fetch(c, i) PROVE Total'
    <3>0. Cached' = Cached
      BY <2>1 DEF Fetch, Get, Cached
    <3>1. CASE i \notin Cached
      BY <2>1, <3>0, <3>1 DEF Fetch, Get
    <3>2. CASE i \in Cached
      <4> DEFINE K == Cached \ {i}
      <4>1. {o \in older : o[1] # i /\ o[2] # i} = Among(older, K)
        BY DEF Among, Orders
      <4>2. older' = Among(older, K) \cup (K \X {i})
        BY <2>1, <3>2, <4>1 DEF Fetch, Get
      <4>3. Orders(Among(older, K), K)
        BY OrderRestricted
      <4>4. Orders(older', K \cup {i})
        BY <4>2, <4>3, OrderAppended
      <4>5. K \cup {i} = Cached'
        BY <3>0, <3>2
      <4> QED BY <4>4, <4>5
    <3> QED BY <3>1, <3>2
  <2>2. ASSUME NEW c \in Clients, NEW i \in Ids, Store(c, i) PROVE Total'
    <3> PICK V \in SUBSET Cached : Put(i, held[c], V)
      BY <2>2 DEF Store
    <3> DEFINE K == (Cached \ V) \ {i}
    <3>1. held[c] \in Handles
      BY <2>2 DEF Store, TypeOK
    <3>2. Cached' = (Cached \ V) \cup {i}
      BY <3>1, PutCached
    <3>3. older' = Among(older, K) \cup (K \X {i})
      BY DEF Put, Among
    <3>4. Orders(Among(older, K), K)
      BY OrderRestricted
    <3>5. Orders(older', K \cup {i})
      BY <3>3, <3>4, OrderAppended
    <3>6. K \cup {i} = Cached'
      BY <3>2
    <3> QED BY <3>5, <3>6
  <2>3. ASSUME NEW c \in Clients, NEW i \in Ids, Evict(c, i) PROVE Total'
    <3> DEFINE K == Cached \ {i}
    <3>1. Cached' = K
      BY <2>3, DropCached DEF Evict
    <3>2. older' = Among(older, K)
      BY <2>3 DEF Evict, Drop, Among, Orders
    <3>3. Orders(Among(older, K), K)
      BY OrderRestricted
    <3> QED BY <3>1, <3>2, <3>3
  <2>4. ASSUME NEW c \in Clients, CleanupAll(c) PROVE Total'
    BY <2>4 DEF CleanupAll, Cached, Orders
  <2>5. CASE UNCHANGED <<entries, older>>
    BY <2>5 DEF Cached
  <2> QED BY <2>1, <2>2, <2>3, <2>4, <2>5 DEF Next, Open, RunCleanups, vars
<1>3. TypeOK => (RecencyIsTotal <=> Total)
  BY RecencyOrders DEF TypeOK
<1> QED BY <1>1, <1>2, <1>3, TypeCorrect, PTL DEF Spec
=============================================================================
