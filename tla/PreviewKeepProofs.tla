-------------------------- MODULE PreviewKeepProofs --------------------------
(***************************************************************************)
(* What a handler that never evicts promises, for any keys, artifacts and  *)
(* requests: a known preview is served whatever GitHub does (KeepServing), *)
(* and it is registered (RegisteredIfKnown).                               *)
(*                                                                         *)
(* Neither is inductive.  A request fails in the end because of what was   *)
(* in the caches when it read them: metadata name a cached artifact        *)
(* (MetaCached), and what a goroutine has read of them once stays true     *)
(* (KeepTasks).  Nobody downloads outside a singleflight call (InFlight),  *)
(* where an error would be final.                                          *)
(*                                                                         *)
(* After that, what holds under other restrictions: with no artifact of    *)
(* two keys, with requests that come one after the other, and when the     *)
(* handler is shut down.                                                   *)
(***************************************************************************)
EXTENDS GithubPreviewProofs, FiniteSetTheorems

\* No evict requests, closed PRs, pruner or shutdown; and room for one artifact
\* more than there are: set makes room before it looks whether it overwrites.
NoEviction ==
  /\ Ops \subseteq {"serve", "refresh"}
  /\ PRs = {}
  /\ Cardinality(Ids) < MaxSize

\* The places of evictions and of the shutdown.
GonePCs == EvictPCs \cup {"clean", "check", "age", "agekeys", "drain", "unregister", "purge",
                          "stopped"}

\* What t has read of the caches is still there, if these are the entries E and
\* the metadata M.
Stays(E, M, t) ==
  /\ t.pc \notin GonePCs
  /\ t.pc \in {"fresh", "swr"} => E[t.meta] # None
  /\ t.pc \in {"keep", "errart"} => E[t.seen] # None
  /\ t.pc = "setmeta" => E[t.id] # None
  /\ t.meta # None => t.key \in Keys /\ M[t.key] # None /\ t.op # "refresh"
  /\ t.pc = "lookup" => t.op # "refresh"
  /\ t.pc = "fail" => t.meta = None

KeepTasks == \A p \in Procs : Stays(entries, meta, th[p])
InFlight == \A p \in Requests : Pc(p) \in InCall => flight[Key(p)] = p
MetaCached == \A k \in Keys : meta[k] # None => entries[meta[k].id] # None
Registering(k) == \E p \in Procs : Pc(p) = "register" /\ Key(p) = k
MapKept == \A k \in Keys : meta[k] # None => fsmap[k] # None \/ Registering(k)

Kept == KeepTasks /\ InFlight /\ MetaCached /\ MapKept

\* The caches only grow.
Grow(E, E2, M, M2) ==
  /\ \A i \in Ids : E[i] # None => E2[i] # None
  /\ \A k \in Keys : M[k] # None => M2[k] # None

Grows == Grow(entries, entries', meta, meta')

-----------------------------------------------------------------------------
(* The caches grow.                                                        *)

\* Evictions, the pruner and the shutdown do not run.
LEMMA NothingGone ==
  ASSUME NoEviction, IInv, KeepTasks
  PROVE  /\ \A p \in Procs : ~Evicting(p) /\ ~Clean(p)
         /\ ~Tick /\ ~Pruning /\ ~PrunerExit /\ ~Stop /\ ~Stopping
<1>1. \A p \in Procs : th[p].pc \notin GonePCs
  BY DEF KeepTasks, Stays
<1>2. \A p \in Procs : ~Evicting(p) /\ ~Clean(p)
  BY <1>1 DEF Evicting, EvGet, EvArt, EvClean, EvMeta, EvUnreg, Clean, Pc, GonePCs, EvictPCs
<1>3. ~Tick /\ ~Stop
  BY DEF NoEviction, Tick, Stop
<1>4. ~Pruning
  BY <1>1, Roles
  DEF Pruning, Check, AgeKey, AgeNext, Checked, AgeKeysDone, AgeDone, Pc, GonePCs
<1>5. th[Stopper].pc = "idle"
  BY <1>1, Here, Roles DEF Task, StopperPCs, GonePCs
<1>6. ~PrunerExit /\ ~Stopping
  BY <1>5 DEF PrunerExit, PruneStopClosed, Running, Stopping, Drained, CleanupAll, Purge,
              Unregister, Pc
<1> QED
  BY <1>2, <1>3, <1>4, <1>6

\* What is left of Next.
LEMMA Steps ==
  ASSUME NoEviction, IInv, KeepTasks, [Next]_vars
  PROVE  \/ \E p \in Requests, o \in {"serve", "refresh"}, k \in Keys : Start(p, o, k)
         \/ \E p \in Procs : Resolving(p) /\ ~Clean(p)
         \/ \E k \in Keys : Expire(k)
         \/ UNCHANGED vars
<1>1. ASSUME NEW p \in Requests, NEW o \in {"serve", "refresh", "evict"}, NEW k \in Keys,
             Start(p, o, k)
      PROVE  o \in {"serve", "refresh"}
  BY <1>1 DEF Start, NoEviction
<1> QED
  BY <1>1, NothingGone DEF Next

\* The instance of ArtifactCache counts as we do.
LEMMA SameCount == ASSUME NEW S PROVE AC!Cardinality(S) = Cardinality(S)
BY Zenon DEF Cardinality, AC!Cardinality

\* set evicts nothing where there is room.
LEMMA RoomForAll ==
  ASSUME NoEviction, NEW V \in SUBSET AC!Cached, AC!EvictionSet(V)
  PROVE  V = {}
<1> SUFFICES ASSUME V # {} PROVE FALSE
  OBVIOUS
<1>1. IsFiniteSet(Ids) /\ AC!Cached \subseteq Ids
  BY KeysAssumption DEF AC!Cached
<1>2. PICK v \in Ids : v \in V
  BY <1>1
<1> DEFINE S == AC!Cached \ V
<1>3. S \subseteq Ids \ {v}
  BY <1>1, <1>2
<1>4. IsFiniteSet(Ids \ {v}) /\ Cardinality(Ids \ {v}) = Cardinality(Ids) - 1
  BY <1>1, <1>2, FS_RemoveElement
<1>5. Cardinality(S) <= Cardinality(Ids \ {v})
  BY <1>3, <1>4, FS_Subset
<1>6. Cardinality(S) = MaxSize - 1
  BY SameCount DEF AC!EvictionSet
<1>7. Cardinality(Ids) \in Nat /\ MaxSize \in Nat
  BY <1>1, FS_CardinalityType, SizeAssumption
<1> QED
  BY <1>4, <1>5, <1>6, <1>7 DEF NoEviction

\* What Store does to the cache and to its goroutine.
LEMMA Stored ==
  ASSUME NoEviction, IInv, NEW p \in Procs, Store(p)
  PROVE  /\ th[p].id \in Ids /\ th[p].fs # None /\ th[p].pc = "store"
         /\ entries' = [j \in Ids |-> IF j = th[p].id THEN th[p].fs ELSE entries[j]]
         /\ th' = [th EXCEPT ![p].pc = "setmeta", ![p].todo = AC!Cleanups({})]
<1>1. PICK V \in SUBSET AC!Cached :
        /\ AC!EvictionSet(V) /\ AC!Put(th[p].id, th[p].fs, V)
        /\ th' = [th EXCEPT ![p].pc = IF V = {} THEN "setmeta" ELSE "clean",
                            ![p].todo = AC!Cleanups(V)]
  BY DEF Store
<1>2. V = {}
  BY <1>1, RoomForAll
<1>3. Task(p, th[p]) /\ th[p].pc = "store"
  BY Here DEF Store, Pc
<1>4. th[p].id \in Ids /\ th[p].fs # None
  BY <1>3 DEF Task, Tasks, Prepared, Opt
<1>5. entries' = [j \in Ids |-> IF j = th[p].id THEN th[p].fs ELSE entries[j]]
  BY <1>1, <1>2 DEF AC!Put
<1> QED
  BY <1>1, <1>2, <1>3, <1>4, <1>5

\* What a step may do to the metadata of k.
MetaStep(k) ==
  \/ meta'[k] = None /\ meta[k] = None
  \/ meta'[k] # None /\ meta[k] # None /\ meta'[k].id = meta[k].id
  \/ \E p \in Procs : /\ SetMeta(p)
                      /\ th[p].key = k
                      /\ meta'[k] # None /\ meta'[k].id = th[p].id

\* touch and the passing of time leave what an entry names.
LEMMA Refreshed ==
  ASSUME IInv, NEW k \in Keys, NEW j, NEW b \in BOOLEAN,
         meta' = [meta EXCEPT ![j].fresh = b], meta[j] # None
  PROVE  MetaStep(k)
<1>1. /\ meta[k] # None => meta[k] \in [id : Ids, fresh : BOOLEAN]
      /\ DOMAIN meta = Keys
  BY DEF IInv, Books, Opt
<1>2. CASE j = k
  <2> DEFINE m == [meta[k] EXCEPT !.fresh = b]
  <2>1. m \in [id : Ids, fresh : BOOLEAN] /\ m.id = meta[k].id
    BY <1>1, <1>2
  <2>2. meta'[k] = m
    BY <1>1, <1>2
  <2> HIDE DEF m
  <2> QED
    BY <1>2, <2>1, <2>2, NoneAssumption DEF MetaStep
<1>3. CASE j # k
  <2>1. meta'[k] = meta[k]
    BY <1>1, <1>3
  <2> QED
    BY <2>1 DEF MetaStep
<1> QED
  BY <1>2, <1>3

\* So does every step but that of an eviction, which removes the entry.
LEMMA MetaMoves ==
  ASSUME IInv, NEW k \in Keys,
         \/ UNCHANGED meta
         \/ \E p \in Procs : SetMeta(p) \/ ErrTouch(p)
         \/ \E j \in Keys : Expire(j)
  PROVE  MetaStep(k)
<1>0. /\ meta[k] # None => meta[k] \in [id : Ids, fresh : BOOLEAN]
      /\ DOMAIN meta = Keys /\ meta = [j \in Keys |-> meta[j]]
  BY DEF IInv, Books, Opt
<1>1. CASE UNCHANGED meta
  BY <1>1 DEF MetaStep
<1>2. ASSUME NEW p \in Procs, SetMeta(p)
      PROVE  MetaStep(k)
  <2> DEFINE j == th[p].key
             m == [id |-> th[p].id, fresh |-> TRUE]
  <2>1. meta' = [meta EXCEPT ![j] = m]
    BY <1>2 DEF SetMeta, Key
  <2>2. th[p].id \in Ids
    BY <1>2, Here DEF SetMeta, Pc, Task, Tasks, Prepared, Opt
  <2>3. m \in [id : Ids, fresh : BOOLEAN]
    BY <2>2
  <2>4. m # None /\ m.id = th[p].id
    BY <2>3, NoneAssumption
  <2> HIDE DEF m
  <2>5. CASE j = k
    <3>1. meta'[k] = m
      BY <1>0, <2>1, <2>5
    <3> QED
      BY <1>2, <2>4, <2>5, <3>1 DEF MetaStep
  <2>6. CASE j # k
    <3> HIDE DEF j
    <3>1. meta'[k] = meta[k]
      BY <1>0, <2>1, <2>6
    <3> QED
      BY <3>1 DEF MetaStep
  <2> QED
    BY <2>5, <2>6
<1>3. ASSUME NEW p \in Procs, ErrTouch(p) PROVE MetaStep(k)
  <2> DEFINE j == th[p].key
  <2>1. CASE meta[j] = None
    BY <1>1, <1>3, <2>1 DEF ErrTouch, Key
  <2>2. CASE meta[j] # None
    <3>1. meta' = [meta EXCEPT ![j].fresh = TRUE]
      BY <1>3, <2>2 DEF ErrTouch, Key
    <3> HIDE DEF j
    <3> QED
      BY <2>2, <3>1, Refreshed
  <2> QED
    BY <2>1, <2>2
<1>4. ASSUME NEW j \in Keys, Expire(j) PROVE MetaStep(k)
  BY <1>4, Refreshed DEF Expire
<1> QED
  BY <1>1, <1>2, <1>3, <1>4

LEMMA MetaSteps ==
  ASSUME NoEviction, IInv, KeepTasks, [Next]_vars, NEW k \in Keys
  PROVE  MetaStep(k)
<1>1. ASSUME NEW p \in Procs, Resolving(p), ~Clean(p)
      PROVE  UNCHANGED meta \/ SetMeta(p) \/ ErrTouch(p)
  BY <1>1
  DEF Resolving, Lookup, Fresh, Swr, Trigger, Do, Resolve, Guard, Keep, Have, InstallCached,
      Download, Store, Register, ErrGet, ErrArt, ErrReg, Report, Respond
<1>2. CASE UNCHANGED vars
  BY <1>2, MetaMoves DEF vars
<1> QED
  BY <1>1, <1>2, MetaMoves, Steps DEF Start

\* Only set changes the cache.
LEMMA EntriesStep ==
  ASSUME NoEviction, IInv, KeepTasks, [Next]_vars
  PROVE  UNCHANGED entries \/ \E p \in Procs : Store(p)
<1>1. ASSUME NEW p \in Procs, Resolving(p), ~Clean(p) PROVE UNCHANGED entries \/ Store(p)
  BY <1>1
  DEF Resolving, Lookup, Fresh, Swr, Trigger, Do, Resolve, Guard, Keep, Have, InstallCached,
      Download, SetMeta, Register, ErrGet, ErrArt, ErrTouch, ErrReg, Report, Respond,
      caches, AC!Get
<1>2. UNCHANGED vars => UNCHANGED entries
  BY DEF vars, caches
<1> QED
  BY <1>1, <1>2, Steps DEF Start, Expire, caches

LEMMA EntriesGrow ==
  ASSUME NoEviction, IInv, KeepTasks, [Next]_vars
  PROVE  \A i \in Ids : entries[i] # None => entries'[i] # None
BY EntriesStep, Stored

LEMMA CachesGrow ==
  ASSUME NoEviction, IInv, KeepTasks, [Next]_vars
  PROVE  Grows
BY EntriesGrow, MetaSteps DEF Grows, Grow, MetaStep

-----------------------------------------------------------------------------
(* The goroutines.                                                         *)

\* What a goroutine has read stays as the caches grow.
LEMMA Frame ==
  ASSUME NEW E, NEW E2, NEW M, NEW M2, Grow(E, E2, M, M2),
         NEW t \in Tasks, Prepared(t), Stays(E, M, t)
  PROVE  Stays(E2, M2, t)
BY DEF Grow, Stays, Tasks, Prepared, Opt

OthersStay(p) == \A q \in Procs : q # p => th'[q] = th[q]

\* p goes on.  Others may wake, or begin a background refresh; nobody else who
\* resolves moves.
Going(p) ==
  /\ KeepTasks'
  /\ InFlight'
  /\ \A q \in Procs : q # p =>
       \/ th'[q] = th[q]
       \/ th[q].pc \notin InCall /\ th'[q].pc \in {"serve", "report", "errget", "fail", "resolve"}

\* One goroutine moves, and enters no call.
LEMMA Moves ==
  ASSUME IInv, KeepTasks, InFlight, Grows, NEW p \in Procs, OthersStay(p), UNCHANGED flight,
         Stays(entries', meta', th'[p]),
         th'[p].pc \in InCall => th[p].pc \in InCall /\ th'[p].key = th[p].key
  PROVE  Going(p)
<1>1. ASSUME NEW q \in Procs PROVE Stays(entries', meta', th'[q])
  <2>1. CASE q # p
    <3>1. th[q] \in Tasks /\ Prepared(th[q])
      BY Here DEF Task
    <3>2. Stays(entries, meta, th[q])
      BY DEF KeepTasks
    <3>3. Stays(entries', meta', th[q])
      BY <3>1, <3>2, Frame DEF Grows
    <3> QED
      BY <2>1, <3>3 DEF OthersStay
  <2> QED
    BY <2>1
<1>2. KeepTasks'
  BY <1>1 DEF KeepTasks
<1>3. \A q \in Requests : th'[q].pc \in InCall => flight'[th'[q].key] = q
  BY Roles DEF OthersStay, InFlight, Pc, Key
<1>4. InFlight'
  BY <1>3 DEF InFlight, Pc, Key, InCall
<1> QED
  BY <1>2, <1>4 DEF Going, OthersStay

\* Where Stays says nothing but of the metadata.
QuietPCs == PCs \ (GonePCs \cup {"lookup", "fresh", "swr", "keep", "errart", "setmeta", "fail"})

LEMMA QuietStays ==
  ASSUME NEW E, NEW M, NEW t, t.pc \in QuietPCs,
         t.meta # None => t.key \in Keys /\ M[t.key] # None /\ t.op # "refresh"
  PROVE  Stays(E, M, t)
BY DEF QuietPCs, Stays

\* One goroutine moves to such a place.
LEMMA QuietMove ==
  ASSUME IInv, KeepTasks, InFlight, Grows, NEW p \in Procs, OthersStay(p), UNCHANGED flight,
         th'[p].pc \in QuietPCs,
         \/ th'[p].meta = None
         \/ th'[p].meta = th[p].meta /\ th'[p].key = th[p].key /\ th'[p].op = th[p].op,
         th'[p].pc \in InCall => th[p].pc \in InCall /\ th'[p].key = th[p].key
  PROVE  Going(p)
<1>1. Stays(entries, meta, th[p])
  BY DEF KeepTasks
<1>2. th'[p].meta # None =>
        th'[p].key \in Keys /\ meta'[th'[p].key] # None /\ th'[p].op # "refresh"
  BY <1>1 DEF Stays, Grows, Grow
<1>3. Stays(entries', meta', th'[p])
  BY <1>2, QuietStays
<1> QED
  BY <1>3, Moves

\* What the invariants say of p and the data.
LEMMA KeptFacts ==
  ASSUME IInv, Kept, NEW p \in Procs
  PROVE  /\ th \in [Procs -> Tasks] /\ th[p] \in Tasks /\ Prepared(th[p])
         /\ Stays(entries, meta, th[p])
         /\ KeepTasks /\ InFlight
         /\ \A k \in Keys : meta[k] # None =>
              meta[k].id \in Ids /\ entries[meta[k].id] # None
BY Here DEF Kept, KeepTasks, MetaCached, Task, IInv, Books, Opt

\* resolveAndRegister reads the metadata.
LEMMA LookupKeep ==
  ASSUME IInv, Kept, Grows, NEW p \in Procs, Lookup(p)
  PROVE  Going(p)
<1>1. /\ th \in [Procs -> Tasks] /\ th[p] \in Tasks /\ th[p].pc = "lookup"
      /\ UNCHANGED <<flight, entries, meta>> /\ KeepTasks /\ InFlight
  BY KeptFacts DEF Lookup, Pc, caches
<1>2. th[p].key \in Keys /\ th[p].op # "refresh"
  BY <1>1, RequestOnly DEF KeepTasks, Stays
<1> DEFINE m == meta[th[p].key]
           x == CASE m = None -> "do"
                  [] m # None /\ m.fresh -> "fresh"
                  [] m # None /\ ~m.fresh -> IF SWR THEN "swr" ELSE "do"
           i == IF m = None THEN None ELSE m.id
<1>3. th' = [th EXCEPT ![p].pc = x, ![p].meta = i]
  BY DEF Lookup, Key
<1>4. x \in {"do", "fresh", "swr"} /\ (x \in {"fresh", "swr"} => m # None)
  <2>1. m # None => m.fresh \in BOOLEAN
    BY <1>2 DEF IInv, Books, Opt
  <2> QED
    BY <2>1
<1>5. x \in {"fresh", "swr"} => entries[i] # None
  BY <1>2, <1>4, KeptFacts
<1>6. i # None => meta[th[p].key] # None
  OBVIOUS
<1> HIDE DEF x, i, m
<1>7. /\ th'[p].pc = x /\ th'[p].meta = i /\ th'[p].key = th[p].key /\ th'[p].op = th[p].op
      /\ OthersStay(p)
  BY <1>1, <1>3 DEF Tasks, OthersStay
<1>8. Stays(entries', meta', th'[p])
  BY <1>1, <1>2, <1>4, <1>5, <1>6, <1>7 DEF Stays, GonePCs, EvictPCs
<1>9. th'[p].pc \notin InCall
  BY <1>4, <1>7 DEF InCall
<1> QED
  BY <1>1, <1>7, <1>8, <1>9, Moves

\* Goroutines that answer, or are done.
LEMMA AnswerMove ==
  ASSUME IInv, Kept, Grows, NEW p \in Procs, UNCHANGED flight,
         \/ th' = [th EXCEPT ![p] = Answer(th[p], "serve")]
         \/ th' = [th EXCEPT ![p] = NoTask]
  PROVE  Going(p)
<1>1. th \in [Procs -> Tasks] /\ KeepTasks /\ InFlight
  BY KeptFacts
<1>2. CASE th' = [th EXCEPT ![p] = Answer(th[p], "serve")]
  <2>1. /\ th'[p].pc = "serve" /\ th'[p].meta = th[p].meta /\ th'[p].key = th[p].key
        /\ th'[p].op = th[p].op /\ OthersStay(p)
    BY <1>1, <1>2 DEF Answer, NoTask, OthersStay
  <2> QED
    BY <1>1, <2>1, QuietMove DEF QuietPCs, PCs, InCall, GonePCs, EvictPCs
<1>3. CASE th' = [th EXCEPT ![p] = NoTask]
  <2>1. th'[p].pc = "idle" /\ th'[p].meta = None /\ OthersStay(p)
    BY <1>1, <1>3 DEF NoTask, OthersStay
  <2> QED
    BY <1>1, <2>1, QuietMove DEF QuietPCs, PCs, InCall, GonePCs, EvictPCs
<1> QED
  BY <1>2, <1>3

\* Goroutines that go from one quiet place to another.
LEMMA GotoMove ==
  ASSUME IInv, Kept, Grows, NEW p \in Procs, UNCHANGED flight, NEW x \in QuietPCs, Goto(p, x),
         x \in InCall => th[p].pc \in InCall
  PROVE  Going(p)
<1>1. th \in [Procs -> Tasks] /\ th[p] \in Tasks /\ KeepTasks /\ InFlight
  BY KeptFacts
<1>2. /\ th'[p].pc = x /\ th'[p].meta = th[p].meta /\ th'[p].key = th[p].key
      /\ th'[p].op = th[p].op /\ OthersStay(p)
  BY <1>1 DEF Goto, Tasks, OthersStay
<1> QED
  BY <1>1, <1>2, QuietMove

\* The artifact of fresh metadata is always there; that of stale metadata too.
LEMMA FreshKeep ==
  ASSUME IInv, Kept, Grows, NEW p \in Procs, Fresh(p) \/ Swr(p)
  PROVE  Going(p)
<1>1. /\ Stays(entries, meta, th[p]) /\ th[p] \in Tasks /\ Prepared(th[p])
      /\ th \in [Procs -> Tasks]
  BY KeptFacts
<1>2. th[p].meta \in AC!Cached
  BY <1>1 DEF Fresh, Swr, Pc, Stays, Prepared, Tasks, Opt, AC!Cached
<1>3. CASE Fresh(p)
  <2>1. th' = [th EXCEPT ![p] = Answer(th[p], "serve")]
    BY <1>1, <1>2, <1>3 DEF Fresh
  <2> QED
    BY <1>3, <2>1, AnswerMove DEF Fresh
<1>4. CASE Swr(p)
  <2>1. Goto(p, "trigger")
    BY <1>2, <1>4 DEF Swr
  <2> QED
    BY <1>4, <2>1, GotoMove DEF Swr, QuietPCs, PCs, InCall, GonePCs, EvictPCs
<1> QED
  BY <1>3, <1>4

LEMMA AnswersKeep ==
  ASSUME IInv, Kept, Grows, NEW p \in Procs, ErrReg(p) \/ Report(p) \/ Respond(p)
  PROVE  Going(p)
<1>1. th \in [Procs -> Tasks] /\ th[p] \in Tasks /\ KeepTasks /\ InFlight
  BY KeptFacts
<1>2. CASE ErrReg(p)
  <2>1. th' = [th EXCEPT ![p] = Answer(th[p], "serve")]
    BY <1>1, <1>2 DEF ErrReg
  <2> QED
    BY <1>2, <2>1, AnswerMove DEF ErrReg
<1>3. CASE Report(p)
  <2> DEFINE i == IF meta[Key(p)] = None THEN None ELSE meta[Key(p)].id
  <2>1. PICK x \in {"reported", "conflict"} : th' = [th EXCEPT ![p].pc = x, ![p].seen = i]
    <3>1. PICK expected \in Opt(Ids) :
            th' = [th EXCEPT ![p].pc = IF expected \in {None, i} THEN "reported" ELSE "conflict",
                             ![p].seen = i]
      BY <1>3 DEF Report
    <3> HIDE DEF i
    <3> QED
      BY <3>1
  <2> HIDE DEF i
  <2>2. /\ th'[p].pc = x /\ th'[p].meta = th[p].meta /\ th'[p].key = th[p].key
        /\ th'[p].op = th[p].op /\ OthersStay(p)
    BY <1>1, <2>1 DEF Tasks, OthersStay
  <2>3. x \in QuietPCs /\ x \notin InCall /\ UNCHANGED flight
    BY <1>3 DEF Report, QuietPCs, PCs, InCall, GonePCs, EvictPCs
  <2> QED
    BY <1>1, <2>2, <2>3, QuietMove
<1>4. CASE Respond(p)
  BY <1>4, AnswerMove DEF Respond
<1> QED
  BY <1>2, <1>3, <1>4

\* A request joins the call of its key, or leads it if there is none.
LEMMA DoKeep ==
  ASSUME IInv, Kept, Grows, NEW p \in Procs, Do(p)
  PROVE  Going(p)
<1>1. /\ th \in [Procs -> Tasks] /\ th[p] \in Tasks /\ th[p].pc = "do"
      /\ KeepTasks /\ InFlight /\ Stays(entries, meta, th[p])
  BY KeptFacts DEF Do, Pc
<1>2. p \in Requests /\ th[p].key \in Keys
  BY <1>1, RequestOnly
<1>3. CASE flight[Key(p)] # None
  <2>1. UNCHANGED flight /\ Goto(p, "wait")
    BY <1>3 DEF Do
  <2> QED
    BY <2>1, GotoMove DEF QuietPCs, PCs, InCall, GonePCs, EvictPCs
<1>4. CASE flight[Key(p)] = None
  <2>1. flight' = [flight EXCEPT ![th[p].key] = p] /\ th' = [th EXCEPT ![p].pc = "resolve"]
    BY <1>4 DEF Do, Goto, Key
  <2>2. /\ th'[p].pc = "resolve" /\ th'[p].meta = th[p].meta /\ th'[p].key = th[p].key
        /\ th'[p].op = th[p].op /\ OthersStay(p)
    BY <1>1, <2>1 DEF Tasks, OthersStay
  <2>3. KeepTasks'
    <3>1. ASSUME NEW q \in Procs PROVE Stays(entries', meta', th'[q])
      <4>1. Stays(entries', meta', th[q])
        <5>1. th[q] \in Tasks /\ Prepared(th[q]) /\ Stays(entries, meta, th[q])
          BY KeptFacts
        <5> QED
          BY <5>1, Frame DEF Grows
      <4>2. CASE q # p
        BY <2>2, <4>1, <4>2 DEF OthersStay
      <4>3. CASE q = p
        <5>1. th'[p].pc \in QuietPCs
          BY <2>2 DEF QuietPCs, PCs, GonePCs, EvictPCs
        <5>2. th'[p].meta # None =>
                th'[p].key \in Keys /\ meta'[th'[p].key] # None /\ th'[p].op # "refresh"
          BY <2>2, <4>1, <4>3 DEF Stays
        <5> QED
          BY <4>3, <5>1, <5>2, QuietStays
      <4> QED
        BY <4>2, <4>3
    <3> QED
      BY <3>1 DEF KeepTasks
  <2>4. ASSUME NEW q \in Requests, th'[q].pc \in InCall PROVE flight'[th'[q].key] = q
    <3>1. flight \in [Keys -> Opt(Requests)]
      BY DEF IInv, Threads
    <3>2. CASE q = p
      BY <1>2, <2>1, <2>2, <3>1, <3>2
    <3>3. CASE q # p
      <4>1. th'[q] = th[q] /\ flight[th[q].key] = q
        BY <1>1, <2>2, <2>4, <3>3, Roles DEF OthersStay, InFlight, Pc, Key
      <4>2. th[q].key # th[p].key
        BY <1>4, <4>1, Roles DEF Key
      <4> QED
        BY <2>1, <3>1, <4>1, <4>2
    <3> QED
      BY <3>2, <3>3
  <2>5. InFlight'
    BY <2>4 DEF InFlight, Pc, Key, InCall
  <2> QED
    BY <2>2, <2>3, <2>5 DEF Going, OthersStay
<1> QED
  BY <1>3, <1>4

\* A call of the group or a background refresh ends.  Nobody else returns: the
\* fresh path never gets to a download.
LEMMA ReturnKeep ==
  ASSUME IInv, Kept, Grows, NEW p \in Procs, NEW ok \in BOOLEAN, Return(p, ok),
         th[p].pc \in {"resolve", "download", "register"}
  PROVE  Going(p)
<1>1. th \in [Procs -> Tasks] /\ KeepTasks /\ InFlight
  BY KeptFacts
<1>2. p \in Requests \cup Keys /\ th[p].key \in Keys /\ th[p].pc \in InCall
  BY Resolver DEF InCall
<1>3. CASE p \in Keys
  BY <1>3, AnswerMove DEF Return
<1>4. CASE p \in Requests
  <2>1. flight[th[p].key] = p
    BY <1>1, <1>2, <1>4 DEF InFlight, Pc, Key
  <2>2. /\ flight' = [flight EXCEPT ![th[p].key] = None]
        /\ th' = [q \in Procs |-> IF Wakes(p, q) THEN Awake(th[q], ok) ELSE th[q]]
    BY <1>4, <2>1, Roles DEF Return, EndFlight, Key
  <2>3. \A q \in Procs : ~Wakes(p, q) => th'[q] = th[q]
    BY <2>2
  <2>4. ASSUME NEW q \in Procs, Wakes(p, q)
        PROVE  /\ th'[q].pc \notin InCall
               /\ Stays(entries', meta', th'[q])
               /\ th'[q].pc \in {"serve", "report", "errget", "fail"}
               /\ q # p => th[q].pc = "wait"
    <3>1. th[q].op \in {"serve", "refresh"} /\ (q # p => th[q].pc = "wait")
      <4>1. CASE q = p
        BY <1>4, <4>1, Resolver, Here DEF Task
      <4>2. CASE th[q].pc = "wait"
        BY <4>2, RequestOnly
      <4> QED
        BY <2>4, <4>1, <4>2 DEF Wakes, Pc
    <3>2. PICK x \in {"serve", "report", "errget", "fail"} :
            th'[q] = Answer(th[q], x) /\ (x = "fail" => th[q].op = "refresh")
      <4>1. th'[q] = Awake(th[q], ok)
        BY <2>2, <2>4
      <4>2. CASE ok
        BY <4>1, <4>2 DEF Awake
      <4>3. CASE ~ok /\ th[q].op = "serve"
        BY <4>1, <4>3 DEF Awake
      <4>4. CASE ~ok /\ th[q].op # "serve"
        BY <3>1, <4>1, <4>4 DEF Awake
      <4> QED
        BY <4>2, <4>3, <4>4
    <3>3. /\ th'[q].pc = x /\ th'[q].meta = th[q].meta /\ th'[q].key = th[q].key
          /\ th'[q].op = th[q].op
      BY <3>2 DEF Answer, NoTask
    <3>4. Stays(entries', meta', th[q])
      <4>1. th[q] \in Tasks /\ Prepared(th[q]) /\ Stays(entries, meta, th[q])
        BY KeptFacts
      <4> QED
        BY <4>1, Frame DEF Grows
    <3> QED
      BY <3>1, <3>2, <3>3, <3>4 DEF Stays, InCall, GonePCs, EvictPCs
  <2>5. ASSUME NEW q \in Procs PROVE Stays(entries', meta', th'[q])
    <3>1. th[q] \in Tasks /\ Prepared(th[q]) /\ Stays(entries, meta, th[q])
      BY KeptFacts
    <3>2. Stays(entries', meta', th[q])
      BY <3>1, Frame DEF Grows
    <3> QED
      BY <2>3, <2>4, <3>2
  <2>6. KeepTasks'
    BY <2>5 DEF KeepTasks
  <2>7. ASSUME NEW q \in Requests, th'[q].pc \in InCall PROVE flight'[th'[q].key] = q
    <3>1. th'[q] = th[q] /\ q # p
      BY <2>3, <2>4, <2>7, Roles DEF Wakes
    <3>2. flight[th[q].key] = q
      BY <1>1, <2>7, <3>1 DEF InFlight, Pc, Key
    <3>3. flight \in [Keys -> Opt(Requests)]
      BY DEF IInv, Threads
    <3>4. th[q].key # th[p].key
      BY <2>1, <3>1, <3>2
    <3> QED
      BY <2>2, <3>1, <3>2, <3>3, <3>4
  <2>8. InFlight'
    BY <2>7 DEF InFlight, Pc, Key, InCall
  <2>9. \A q \in Procs : q # p =>
          \/ th'[q] = th[q]
          \/ /\ th[q].pc \notin InCall
             /\ th'[q].pc \in {"serve", "report", "errget", "fail", "resolve"}
    BY <2>3, <2>4 DEF InCall
  <2> QED
    BY <2>6, <2>8, <2>9 DEF Going
<1> QED
  BY <1>2, <1>3, <1>4

\* A background refresh starts where none of its key runs.
LEMMA TriggerKeep ==
  ASSUME IInv, Kept, Grows, NEW p \in Procs, Trigger(p)
  PROVE  Going(p)
<1>1. th \in [Procs -> Tasks] /\ KeepTasks /\ InFlight /\ th[p].pc = "trigger"
  BY KeptFacts DEF Trigger, Pc
<1>2. p \in Requests /\ th[p].key \in Keys
  BY <1>1, RequestOnly
<1> DEFINE k == th[p].key
           t == Answer(th[p], "serve")
           b == [NoTask EXCEPT !.pc = "resolve", !.op = "background", !.key = k]
<1>3. /\ th' = [q \in Procs |-> IF q = p THEN t
                                ELSE IF q = k /\ k \notin refreshing THEN b ELSE th[q]]
      /\ UNCHANGED flight
  BY DEF Trigger, Key
<1>4. t.pc = "serve" /\ t.meta = th[p].meta /\ t.key = th[p].key /\ t.op = th[p].op
  BY DEF Answer, NoTask
<1>5. b.pc = "resolve" /\ b.meta = None
  BY DEF NoTask
<1> HIDE DEF t, b
<1>6. ASSUME NEW q \in Procs PROVE Stays(entries', meta', th'[q])
  <2>1. th[q] \in Tasks /\ Prepared(th[q]) /\ Stays(entries, meta, th[q])
    BY KeptFacts
  <2>2. Stays(entries', meta', th[q])
    BY <2>1, Frame DEF Grows
  <2>3. Stays(entries', meta', b)
    BY <1>5, QuietStays DEF QuietPCs, PCs, GonePCs, EvictPCs
  <2>4. q = p => Stays(entries', meta', t)
    <3>1. t.pc \in QuietPCs
      BY <1>4 DEF QuietPCs, PCs, GonePCs, EvictPCs
    <3> QED
      BY <1>4, <2>2, <3>1, QuietStays DEF Stays
  <2> QED
    BY <1>3, <2>2, <2>3, <2>4
<1>7. ASSUME NEW q \in Requests, th'[q].pc \in InCall PROVE flight'[th'[q].key] = q
  <2>1. q \in Procs /\ q # k
    BY <1>2, Roles
  <2>2. q # p
    BY <1>3, <1>4, <1>7, <2>1 DEF InCall
  <2>3. th'[q] = th[q]
    BY <1>3, <2>1, <2>2
  <2> QED
    BY <1>1, <1>3, <1>7, <2>3 DEF InFlight, Pc, Key
<1>8. ASSUME NEW q \in Procs, q # p
      PROVE  \/ th'[q] = th[q]
             \/ th[q].pc \notin InCall /\ th'[q].pc = "resolve"
  <2>1. q = k => (k \in refreshing <=> th[q].pc \in InCall)
    BY <1>2, <1>8 DEF IInv, Threads, RefreshMarked, Pc, InCall
  <2> QED
    BY <1>3, <1>5, <1>8, <2>1
<1>9. KeepTasks' /\ InFlight'
  BY <1>6, <1>7 DEF KeepTasks, InFlight, Pc, Key, InCall
<1> QED
  BY <1>8, <1>9 DEF Going

\* p goes to a place where it relies on the artifact i of the cache.
LEMMA RelyMove ==
  ASSUME IInv, Kept, Grows, NEW p \in Procs, OthersStay(p), UNCHANGED flight, NEW i,
         entries'[i] # None,
         \/ th'[p].pc \in {"keep", "errart"} /\ th'[p].seen = i
         \/ th'[p].pc = "setmeta" /\ th'[p].id = i,
         th'[p].meta = th[p].meta, th'[p].key = th[p].key, th'[p].op = th[p].op,
         th'[p].pc \in InCall => th[p].pc \in InCall
  PROVE  Going(p)
<1>1. KeepTasks /\ InFlight /\ Stays(entries, meta, th[p])
  BY KeptFacts
<1>2. th'[p].meta # None =>
        th'[p].key \in Keys /\ meta'[th'[p].key] # None /\ th'[p].op # "refresh"
  BY <1>1 DEF Stays, Grows, Grow
<1>3. Stays(entries', meta', th'[p])
  BY <1>2 DEF Stays, GonePCs, EvictPCs
<1> QED
  BY <1>1, <1>3, Moves

LEMMA ResolveKeep ==
  ASSUME NoEviction, IInv, Kept, Grows, NEW p \in Procs, Resolve(p) \/ Guard(p)
  PROVE  Going(p)
<1>1. /\ th \in [Procs -> Tasks] /\ th[p] \in Tasks /\ th[p].key \in Keys
      /\ th[p].pc \in {"resolve", "guard"} /\ KeepTasks /\ InFlight
  BY KeptFacts, Resolver DEF Resolve, Guard, Pc
<1>2. CASE Resolve(p)
  <2>1. CASE Return(p, FALSE)
    BY <1>1, <2>1, ReturnKeep, <1>2 DEF Resolve, Pc
  <2>2. Key(p) \notin PRs
    BY DEF NoEviction
  <2>3. CASE \E i \in ArtifactsOf[Key(p)], v \in {"head", "listing"} :
               /\ th' = [th EXCEPT ![p].pc = "guard", ![p].id = i, ![p].via = v]
               /\ UNCHANGED flight
    <3>1. PICK i \in ArtifactsOf[Key(p)], v \in {"head", "listing"} :
               /\ th' = [th EXCEPT ![p].pc = "guard", ![p].id = i, ![p].via = v]
               /\ UNCHANGED flight
      BY <2>3
    <3>2. /\ th'[p].pc = "guard" /\ th'[p].key = th[p].key /\ th'[p].meta = th[p].meta
          /\ th'[p].op = th[p].op /\ OthersStay(p)
      BY <1>1, <3>1 DEF Tasks, OthersStay
    <3> QED
      BY <1>1, <3>1, <3>2, QuietMove DEF QuietPCs, PCs, InCall, GonePCs, EvictPCs
  <2> QED
    BY <1>2, <2>1, <2>2, <2>3 DEF Resolve
<1>3. CASE Guard(p)
  <2>0. UNCHANGED <<flight, entries>> /\ th[p].pc = "guard"
    BY <1>3 DEF Guard, caches, Pc
  <2>1. CASE Older(p)
    <3> DEFINE i == meta[th[p].key].id
    <3>1. th' = [th EXCEPT ![p].pc = "keep", ![p].seen = i]
      BY <1>3, <2>1, Zenon DEF Guard, Key
    <3>2. entries[i] # None
      BY <1>1, <2>1, KeptFacts DEF Older, Key
    <3> HIDE DEF i
    <3>3. /\ th'[p].pc = "keep" /\ th'[p].seen = i /\ th'[p].key = th[p].key
          /\ th'[p].meta = th[p].meta /\ th'[p].op = th[p].op /\ OthersStay(p)
      BY <1>1, <3>1 DEF Tasks, OthersStay
    <3> QED
      BY <2>0, <3>2, <3>3, RelyMove DEF InCall
  <2>2. CASE ~Older(p)
    <3>1. th' = [th EXCEPT ![p].pc = "have", ![p].seen = None]
      BY <1>3, <2>2, Zenon DEF Guard
    <3>2. /\ th'[p].pc = "have" /\ th'[p].key = th[p].key /\ th'[p].meta = th[p].meta
          /\ th'[p].op = th[p].op /\ OthersStay(p)
      BY <1>1, <3>1 DEF Tasks, OthersStay
    <3> QED
      BY <1>1, <2>0, <3>2, QuietMove DEF QuietPCs, PCs, InCall, GonePCs, EvictPCs
  <2> QED
    BY <2>1, <2>2
<1> QED
  BY <1>2, <1>3

\* What is in the cache is installed from there.
LEMMA InstallKeep ==
  ASSUME IInv, Kept, Grows, NEW p \in Procs, NEW i, NEW else \in {"have", "download"},
         th[p].pc \in {"keep", "have"}, InstallCached(p, i, else)
  PROVE  Going(p)
<1>1. /\ th \in [Procs -> Tasks] /\ th[p] \in Tasks /\ UNCHANGED <<flight, entries>>
      /\ KeepTasks /\ InFlight
  BY KeptFacts DEF InstallCached, AC!Get
<1>2. CASE i \in AC!Cached
  <2>1. th' = [th EXCEPT ![p] =
                 [th[p] EXCEPT !.pc = "setmeta", !.id = i, !.seen = None, !.fs = entries[i]]]
    BY <1>1, <1>2 DEF InstallCached
  <2>2. /\ th'[p].pc = "setmeta" /\ th'[p].id = i /\ th'[p].key = th[p].key
        /\ th'[p].meta = th[p].meta /\ th'[p].op = th[p].op /\ OthersStay(p)
    BY <1>1, <2>1 DEF Tasks, OthersStay
  <2>3. entries'[i] # None
    BY <1>1, <1>2 DEF AC!Cached
  <2> QED
    BY <1>1, <2>2, <2>3, RelyMove DEF InCall
<1>3. CASE i \notin AC!Cached
  <2>1. th' = [th EXCEPT ![p] = [th[p] EXCEPT !.pc = else, !.seen = None]]
    BY <1>1, <1>3 DEF InstallCached
  <2>2. /\ th'[p].pc = else /\ th'[p].key = th[p].key
        /\ th'[p].meta = th[p].meta /\ th'[p].op = th[p].op /\ OthersStay(p)
    BY <1>1, <2>1 DEF Tasks, OthersStay
  <2> QED
    BY <1>1, <2>2, QuietMove DEF QuietPCs, PCs, InCall, GonePCs, EvictPCs
<1> QED
  BY <1>2, <1>3

LEMMA CachedKeep ==
  ASSUME IInv, Kept, Grows, NEW p \in Procs, Keep(p) \/ Have(p)
  PROVE  Going(p)
BY InstallKeep DEF Keep, Have, Pc

LEMMA DownloadKeep ==
  ASSUME NoEviction, IInv, Kept, Grows, NEW p \in Procs, Download(p) \/ Store(p)
  PROVE  Going(p)
<1>1. /\ th \in [Procs -> Tasks] /\ th[p] \in Tasks /\ KeepTasks /\ InFlight
  BY KeptFacts
<1>2. CASE Download(p)
  <2>0. th[p].pc = "download"
    BY <1>2 DEF Download, Pc
  <2>1. CASE Return(p, FALSE)
    BY <2>0, <2>1, ReturnKeep
  <2>2. CASE \E c \in Copies : /\ th' = [th EXCEPT ![p].pc = "store", ![p].fs = <<th[p].id, c>>]
                             /\ UNCHANGED flight
    <3>1. PICK c \in Copies : /\ th' = [th EXCEPT ![p].pc = "store", ![p].fs = <<th[p].id, c>>]
                             /\ UNCHANGED flight
      BY <2>2
    <3>2. /\ th'[p].pc = "store" /\ th'[p].key = th[p].key /\ th'[p].meta = th[p].meta
          /\ th'[p].op = th[p].op /\ OthersStay(p)
      BY <1>1, <3>1 DEF Tasks, OthersStay
    <3> QED
      BY <1>1, <2>0, <3>1, <3>2, QuietMove DEF QuietPCs, PCs, InCall, GonePCs, EvictPCs
  <2> QED
    BY <1>2, <2>1, <2>2 DEF Download
<1>3. CASE Store(p)
  <2>1. /\ th[p].id \in Ids /\ th[p].fs # None /\ th[p].pc = "store"
        /\ entries' = [j \in Ids |-> IF j = th[p].id THEN th[p].fs ELSE entries[j]]
        /\ th' = [th EXCEPT ![p].pc = "setmeta", ![p].todo = AC!Cleanups({})]
        /\ UNCHANGED flight
    BY <1>3, Stored DEF Store
  <2>2. /\ th'[p].pc = "setmeta" /\ th'[p].id = th[p].id /\ th'[p].key = th[p].key
        /\ th'[p].meta = th[p].meta /\ th'[p].op = th[p].op /\ OthersStay(p)
    BY <1>1, <2>1 DEF Tasks, OthersStay
  <2>3. entries'[th[p].id] # None
    BY <2>1
  <2> QED
    BY <2>1, <2>2, <2>3, RelyMove DEF InCall
<1> QED
  BY <1>2, <1>3

LEMMA InstalledKeep ==
  ASSUME IInv, Kept, Grows, NEW p \in Procs, SetMeta(p) \/ Register(p)
  PROVE  Going(p)
<1>1. CASE SetMeta(p)
  BY <1>1, GotoMove DEF SetMeta, Pc, QuietPCs, PCs, InCall, GonePCs, EvictPCs
<1>2. CASE Register(p)
  BY <1>2, ReturnKeep DEF Register, Pc
<1> QED
  BY <1>1, <1>2

\* The way back to the last good artifact leads there.
LEMMA ErrorKeep ==
  ASSUME IInv, Kept, Grows, NEW p \in Procs, ErrGet(p) \/ ErrArt(p) \/ ErrTouch(p)
  PROVE  Going(p)
<1>1. /\ th \in [Procs -> Tasks] /\ th[p] \in Tasks /\ Prepared(th[p])
      /\ KeepTasks /\ InFlight /\ Stays(entries, meta, th[p])
      /\ th[p].pc \in {"errget", "errart", "errtouch"}
  BY KeptFacts DEF ErrGet, ErrArt, ErrTouch, Pc
<1>2. th[p].key \in Keys
  BY <1>1, RequestOnly
<1>3. CASE ErrGet(p)
  <2> DEFINE m == meta[th[p].key]
  <2>0. UNCHANGED <<flight, entries>>
    BY <1>3 DEF ErrGet, caches
  <2>1. CASE m = None
    <3>1. th' = [th EXCEPT ![p].pc = "fail", ![p].seen = None]
      BY <1>3, <2>1 DEF ErrGet, Key
    <3>2. /\ th'[p].pc = "fail" /\ th'[p].meta = th[p].meta /\ OthersStay(p)
      BY <1>1, <3>1 DEF Tasks, OthersStay
    <3>3. th[p].meta = None
      BY <1>1, <2>1 DEF Stays
    <3>4. Stays(entries', meta', th'[p])
      BY <3>2, <3>3 DEF Stays, GonePCs, EvictPCs
    <3> QED
      BY <1>1, <2>0, <3>2, <3>4, Moves DEF InCall
  <2>2. CASE m # None
    <3> DEFINE i == m.id
    <3>1. th' = [th EXCEPT ![p].pc = "errart", ![p].seen = i]
      BY <1>3, <2>2 DEF ErrGet, Key
    <3>2. entries[i] # None
      BY <1>2, <2>2, KeptFacts
    <3> HIDE DEF i, m
    <3>3. /\ th'[p].pc = "errart" /\ th'[p].seen = i /\ th'[p].key = th[p].key
          /\ th'[p].meta = th[p].meta /\ th'[p].op = th[p].op /\ OthersStay(p)
      BY <1>1, <3>1 DEF Tasks, OthersStay
    <3> QED
      BY <2>0, <3>2, <3>3, RelyMove DEF InCall
  <2> QED
    BY <2>1, <2>2
<1>4. CASE ErrArt(p)
  <2>1. th[p].seen \in AC!Cached
    BY <1>1, <1>4 DEF ErrArt, Pc, Stays, Prepared, Tasks, Opt, AC!Cached
  <2>2. /\ th' = [th EXCEPT ![p].pc = "errtouch", ![p].fs = entries[th[p].seen],
                            ![p].seen = None]
        /\ UNCHANGED flight
    BY <1>4, <2>1 DEF ErrArt
  <2>3. /\ th'[p].pc = "errtouch" /\ th'[p].key = th[p].key
        /\ th'[p].meta = th[p].meta /\ th'[p].op = th[p].op /\ OthersStay(p)
    BY <1>1, <2>2 DEF Tasks, OthersStay
  <2> QED
    BY <1>1, <2>2, <2>3, QuietMove DEF QuietPCs, PCs, InCall, GonePCs, EvictPCs
<1>5. CASE ErrTouch(p)
  BY <1>5, GotoMove DEF ErrTouch, QuietPCs, PCs, InCall, GonePCs, EvictPCs
<1> QED
  BY <1>3, <1>4, <1>5

LEMMA StartKeep ==
  ASSUME IInv, Kept, Grows, NEW p \in Requests, NEW o \in {"serve", "refresh"}, NEW k \in Keys,
         Start(p, o, k)
  PROVE  Going(p)
<1>1. th \in [Procs -> Tasks] /\ p \in Procs /\ KeepTasks /\ InFlight
  BY KeptFacts, Roles
<1>2. PICK x \in {"lookup", "do"} :
        /\ th' = [th EXCEPT ![p] = [NoTask EXCEPT !.op = o, !.key = k, !.pc = x]]
        /\ x = "lookup" => o # "refresh"
  <2>1. CASE o = "serve"
    <3>1. th' = [th EXCEPT ![p] = [NoTask EXCEPT !.op = o, !.key = k, !.pc = "lookup"]]
      BY <2>1 DEF Start
    <3> QED
      BY <2>1, <3>1
  <2>2. CASE o = "refresh"
    <3>1. th' = [th EXCEPT ![p] = [NoTask EXCEPT !.op = o, !.key = k, !.pc = "do"]]
      BY <2>2 DEF Start
    <3> QED
      BY <2>2, <3>1
  <2> QED
    BY <2>1, <2>2
<1>3. /\ th'[p].pc = x /\ th'[p].meta = None /\ th'[p].op = o /\ OthersStay(p)
  BY <1>1, <1>2 DEF NoTask, OthersStay
<1>4. Stays(entries', meta', th'[p])
  BY <1>2, <1>3 DEF Stays, GonePCs, EvictPCs
<1>5. UNCHANGED flight /\ th'[p].pc \notin InCall
  BY <1>3 DEF Start, InCall
<1> QED
  BY <1>1, <1>3, <1>4, <1>5, Moves

-----------------------------------------------------------------------------
(* The invariant.                                                          *)

LEMMA ResolvingKeep ==
  ASSUME NoEviction, IInv, Kept, Grows, NEW p \in Procs, Resolving(p)
  PROVE  Going(p)
<1>1. ~Clean(p)
  BY NothingGone DEF Kept
<1> QED
  BY <1>1, LookupKeep, FreshKeep, TriggerKeep, DoKeep, ResolveKeep, CachedKeep, DownloadKeep,
     InstalledKeep, ErrorKeep, AnswersKeep
  DEF Resolving

\* Some goroutine goes on, or none moves.
LEMMA StepsKeep ==
  ASSUME NoEviction, IInv, Kept, [Next]_vars
  PROVE  \/ \E p \in Procs : Going(p) /\ (Resolving(p) \/ th[p].pc = "idle")
         \/ UNCHANGED <<th, flight>> /\ KeepTasks'
<1>1. Grows /\ KeepTasks
  BY CachesGrow DEF Kept
<1>2. ASSUME UNCHANGED <<th, flight>> PROVE KeepTasks'
  <2>1. ASSUME NEW q \in Procs PROVE Stays(entries', meta', th'[q])
    <3>1. th[q] \in Tasks /\ Prepared(th[q]) /\ Stays(entries, meta, th[q])
      BY KeptFacts
    <3> QED
      BY <1>1, <1>2, <3>1, Frame DEF Grows
  <2> QED
    BY <2>1 DEF KeepTasks
<1>3. ASSUME NEW p \in Requests, NEW o \in {"serve", "refresh"}, NEW k \in Keys, Start(p, o, k)
      PROVE  p \in Procs /\ Going(p) /\ th[p].pc = "idle"
  BY <1>1, <1>3, StartKeep, Roles DEF Start, Pc
<1>4. ASSUME NEW p \in Procs, Resolving(p) PROVE Going(p)
  BY <1>1, <1>4, ResolvingKeep
<1>5. CASE \/ \E k \in Keys : Expire(k)
           \/ UNCHANGED vars
  BY <1>2, <1>5 DEF Expire, vars
<1> QED
  BY <1>1, <1>3, <1>4, <1>5, Steps

LEMMA TasksKeep ==
  ASSUME NoEviction, IInv, Kept, [Next]_vars
  PROVE  KeepTasks' /\ InFlight'
<1>1. CASE UNCHANGED <<th, flight>> /\ KeepTasks'
  BY <1>1 DEF Kept, InFlight, Pc, Key, InCall
<1> QED
  BY <1>1, StepsKeep DEF Going

\* Metadata are set only once the artifact is in the cache.
LEMMA MetaKeep ==
  ASSUME NoEviction, IInv, Kept, [Next]_vars
  PROVE  MetaCached'
<1> SUFFICES ASSUME NEW k \in Keys, meta'[k] # None PROVE entries'[meta'[k].id] # None
  BY DEF MetaCached
<1>1. MetaStep(k)
  BY MetaSteps DEF Kept
<1>2. CASE meta[k] # None /\ meta'[k].id = meta[k].id
  BY <1>2, KeptFacts, EntriesGrow, Roles DEF Kept
<1>3. CASE \E p \in Procs : SetMeta(p) /\ th[p].key = k /\ meta'[k].id = th[p].id
  <2>1. PICK p \in Procs : SetMeta(p) /\ meta'[k].id = th[p].id
    BY <1>3
  <2>2. th[p].id \in Ids /\ entries[th[p].id] # None
    BY <2>1, KeptFacts DEF SetMeta, Pc, Stays, Prepared, Tasks, Opt
  <2> QED
    BY <2>1, <2>2, EntriesGrow DEF Kept
<1> QED
  BY <1>1, <1>2, <1>3 DEF MetaStep

\* Nothing is unregistered.
LEMMA MapGrows ==
  ASSUME NoEviction, IInv, Kept, [Next]_vars, NEW k \in Keys
  PROVE  /\ fsmap[k] # None => fsmap'[k] # None
         /\ \A p \in Procs : Register(p) /\ th[p].key = k => fsmap'[k] # None
<1>0. DOMAIN fsmap = Keys
  BY DEF IInv, Books
<1>1. ASSUME NEW p \in Procs, Register(p) \/ ErrReg(p)
      PROVE  /\ fsmap[k] # None => fsmap'[k] # None
             /\ th[p].key = k => fsmap'[k] # None
  <2> DEFINE j == th[p].key
             f == th[p].fs
  <2>1. fsmap' = [fsmap EXCEPT ![j] = f]
    BY <1>1 DEF Register, ErrReg, Key
  <2>2. f # None
    BY <1>1, KeptFacts DEF Register, ErrReg, Pc, Prepared
  <2> HIDE DEF j, f
  <2>3. (fsmap[k] # None => fsmap'[k] # None) /\ (j = k => fsmap'[k] # None)
    BY <1>0, <2>1, <2>2
  <2> QED
    BY <2>3 DEF j
<1>2. ASSUME NEW p \in Procs, Resolving(p), ~Clean(p)
      PROVE  UNCHANGED fsmap \/ Register(p) \/ ErrReg(p)
  BY <1>2
  DEF Resolving, Lookup, Fresh, Swr, Trigger, Do, Resolve, Guard, Keep, Have, InstallCached,
      Download, Store, SetMeta, ErrGet, ErrArt, ErrTouch, Report, Respond
<1>3. UNCHANGED vars => UNCHANGED fsmap
  BY DEF vars
<1>4. UNCHANGED fsmap \/ \E p \in Procs : Register(p) \/ ErrReg(p)
  BY <1>2, <1>3, Steps DEF Start, Expire, Kept
<1> QED
  BY <1>1, <1>4

\* Between setting the metadata and registering nobody takes p's turn.
LEMMA MapKeep ==
  ASSUME NoEviction, IInv, Kept, [Next]_vars
  PROVE  MapKept'
<1> SUFFICES ASSUME NEW k \in Keys, meta'[k] # None, fsmap'[k] = None
             PROVE  \E p \in Procs : th'[p].pc = "register" /\ th'[p].key = k
  BY DEF MapKept, Registering, Pc, Key
<1>1. MetaStep(k)
  BY MetaSteps DEF Kept
<1>2. CASE meta[k] # None
  <2>1. PICK q \in Procs : th[q].pc = "register" /\ th[q].key = k
    BY <1>2, MapGrows DEF Kept, MapKept, Registering, Pc, Key
  <2>2. th'[q] = th[q]
    <3>1. ~Register(q)
      BY <2>1, MapGrows
    <3>2. ~Resolving(q)
      BY <2>1, <3>1
      DEF Resolving, Lookup, Fresh, Swr, Trigger, Do, Resolve, Guard, Keep, Have,
          Download, Store, Clean, SetMeta, ErrGet, ErrArt, ErrTouch, ErrReg, Report, Respond, Pc
    <3> QED
      BY <2>1, <3>2, StepsKeep DEF Going, InCall
  <2> QED
    BY <2>1, <2>2
<1>3. CASE \E p \in Procs : SetMeta(p) /\ th[p].key = k
  <2>1. PICK p \in Procs : SetMeta(p) /\ th[p].key = k
    BY <1>3
  <2>2. th \in [Procs -> Tasks]
    BY KeptFacts
  <2>3. th'[p].pc = "register" /\ th'[p].key = k
    BY <2>1, <2>2 DEF SetMeta, Goto, Tasks
  <2> QED
    BY <2>3
<1> QED
  BY <1>1, <1>2, <1>3 DEF MetaStep

LEMMA InitKept == Init => Kept
<1> SUFFICES ASSUME Init PROVE Kept
  OBVIOUS
<1>1. NoTask.pc = "idle" /\ NoTask.meta = None
  BY DEF NoTask
<1>2. \A p \in Procs : th[p] = NoTask
  BY DEF Init
<1>3. KeepTasks
  BY <1>1, <1>2 DEF KeepTasks, Stays, GonePCs, EvictPCs
<1>4. InFlight
  BY <1>1, <1>2, Roles DEF InFlight, Pc, InCall
<1>5. MetaCached /\ MapKept
  BY DEF Init, MetaCached, MapKept
<1> QED
  BY <1>3, <1>4, <1>5 DEF Kept

LEMMA Keeping ==
  ASSUME NoEviction
  PROVE  Spec => []Kept
<1>1. Init => Kept
  BY InitKept
<1>2. IInv /\ Kept /\ [Next]_vars => Kept'
  BY TasksKeep, MetaKeep, MapKeep DEF Kept
<1> QED
  BY <1>1, <1>2, Invariance, PTL DEF Spec

\* "If resolution fails, the last cached artifact keeps being served" (readme.md): a
\* request that has seen metadata for its key gets no error page, whatever fails, and
\* whatever the other requests and the background refreshes do.
THEOREM KnownStaysServed ==
  ASSUME NoEviction
  PROVE  Spec => []KeepServing
<1>1. Kept => KeepServing
  BY Roles DEF Kept, KeepTasks, Stays, KeepServing, Pc
<1> QED
  BY <1>1, Keeping, PTL

\* Who finds metadata finds the filesystem registered, or a goroutine that is just about
\* to do so: registerFs comes after set, and nobody takes it back.
THEOREM KnownIsRegistered ==
  ASSUME NoEviction
  PROVE  Spec => []RegisteredIfKnown
<1>1. Kept => RegisteredIfKnown
  BY DEF Kept, MapKept, Registering, RegisteredIfKnown
<1> QED
  BY <1>1, Keeping, PTL

-----------------------------------------------------------------------------
(***************************************************************************)
(* A handler without evictions and background refreshes whose keys share   *)
(* no artifacts, for any keys, artifacts and requests: every file it opens *)
(* will be closed (NoFileLeaked), and the fallback listing never takes a   *)
(* key back to an older artifact (NoFallbackRegress).                      *)
(*                                                                         *)
(* Both need that an artifact is worked on by one goroutine at a time      *)
(* (OneAtWork), which the singleflight group gives for a key and the       *)
(* separate artifacts for all of them.  Then what it has looked up still   *)
(* holds when it stores and installs (Lone).                               *)
(***************************************************************************)

Separate ==
  /\ NoEviction
  /\ ~SWR
  /\ \A j, k \in Keys : j # k => ArtifactsOf[j] \cap ArtifactsOf[k] = {}

\* Where something is known of what t has looked up in the entries E and the metadata M.
LonePCs == {"keep", "have", "download", "store", "setmeta"}
Lone(E, M, t) ==
  /\ t.pc \notin {"swr", "trigger"}
  /\ t.pc \in {"download", "store"} => E[t.id] = None
  /\ t.pc = "keep" => M[t.key] # None /\ t.seen = M[t.key].id
  /\ t.pc \in {"have", "download", "store", "setmeta"} /\ t.via = "listing" /\ M[t.key] # None
       => t.id >= M[t.key].id

LoneTasks == \A p \in Procs : Lone(entries, meta, th[p])
NoRefreshes == refreshing = {}

\* Every open file is in the cache or on its way into it.
OpenUsed ==
  \A h \in open : (\E i \in Ids : entries[i] = h)
                    \/ (\E p \in Procs : th[p].pc = "store" /\ th[p].fs = h)

Single == LoneTasks /\ NoRefreshes /\ OpenUsed

-----------------------------------------------------------------------------
(* One goroutine for an artifact.                                          *)

LEMMA OneAtWork ==
  ASSUME Separate, IInv, Owned, InFlight, NoRefreshes, NEW p \in Procs, NEW q \in Procs,
         th[p].pc \in LonePCs, th[q].pc \in LonePCs,
         th[p].key = th[q].key \/ th[p].id = th[q].id
  PROVE  p = q
<1>1. /\ th[p].pc \in InCall /\ th[q].pc \in InCall
      /\ p \in Requests /\ q \in Requests /\ th[p].key \in Keys /\ th[q].key \in Keys
  BY Resolver DEF LonePCs, NoRefreshes, IInv, Threads, RefreshMarked, Pc, InCall
<1>2. th[p].id \in ArtifactsOf[th[p].key] /\ th[q].id \in ArtifactsOf[th[q].key]
  BY <1>1, Roles DEF Owned, OwnTasks, OwnTask, LonePCs
<1>3. th[p].key = th[q].key
  BY <1>1, <1>2 DEF Separate
<1> QED
  BY <1>1, <1>3 DEF InFlight, Pc, Key

\* What the goroutines that do not move have looked up still holds.
LEMMA LoneStays ==
  ASSUME Separate, IInv, Owned, Kept, Single, [Next]_vars, NEW q \in Procs, th'[q] = th[q]
  PROVE  Lone(entries', meta', th'[q])
<1>1. NoEviction /\ KeepTasks /\ InFlight /\ NoRefreshes
  BY DEF Separate, Kept, Single
<1>2. Lone(entries, meta, th[q]) /\ th[q] \in Tasks /\ Prepared(th[q])
  BY KeptFacts DEF Single, LoneTasks
<1>3. CASE th[q].pc \notin LonePCs
  BY <1>2, <1>3 DEF Lone, LonePCs
<1>4. CASE th[q].pc \in LonePCs
  <2>1. th[q].key \in Keys /\ th[q].id \in Ids
    BY <1>2, <1>4, Resolver DEF LonePCs, Prepared, Tasks, Opt
  <2>2. th[q].pc \in {"download", "store"} => entries'[th[q].id] = None
    <3>1. CASE UNCHANGED entries
      BY <1>2, <3>1 DEF Lone
    <3>2. CASE \E p \in Procs : Store(p)
      <4>1. PICK p \in Procs : Store(p)
        BY <3>2
      <4>2. /\ th[p].pc = "store" /\ th' = [th EXCEPT ![p].pc = "setmeta", ![p].todo = AC!Cleanups({})]
            /\ entries' = [j \in Ids |-> IF j = th[p].id THEN th[p].fs ELSE entries[j]]
        BY <1>1, <4>1, Stored
      <4>3. th'[p].pc = "setmeta"
        BY <4>2, KeptFacts DEF Tasks
      <4>4. th[q].id # th[p].id
        BY <1>1, <1>4, <4>2, <4>3, OneAtWork DEF LonePCs
      <4> QED
        BY <1>2, <2>1, <4>2, <4>4 DEF Lone
    <3> QED
      BY <1>1, <3>1, <3>2, EntriesStep
  <2> DEFINE k == th[q].key
  <2>3. \/ meta'[k] = None /\ meta[k] = None
        \/ meta'[k] # None /\ meta[k] # None /\ meta'[k].id = meta[k].id
    <3>1. MetaStep(k)
      BY <1>1, <2>1, MetaSteps
    <3>2. ASSUME NEW p \in Procs, SetMeta(p), th[p].key = k PROVE FALSE
      <4>1. th[p].pc = "setmeta" /\ th' = [th EXCEPT ![p].pc = "register"]
        BY <3>2 DEF SetMeta, Goto, Pc
      <4>2. th'[p].pc = "register"
        BY <4>1, KeptFacts DEF Tasks
      <4>3. p = q
        BY <1>1, <1>4, <3>2, <4>1, OneAtWork DEF LonePCs
      <4> QED
        BY <4>1, <4>2, <4>3
    <3> QED
      BY <3>1, <3>2 DEF MetaStep
  <2> QED
    BY <1>2, <2>2, <2>3 DEF Lone
<1> QED
  BY <1>3, <1>4

-----------------------------------------------------------------------------
(* The goroutine that moves.                                               *)

BenignPCs == PCs \ (LonePCs \cup {"swr", "trigger"})

LEMMA Benign ==
  ASSUME NEW E, NEW M, NEW t, t.pc \in BenignPCs
  PROVE  Lone(E, M, t)
BY DEF BenignPCs, Lone, LonePCs

\* Where p is after it has returned.
LEMMA ReturnedTo ==
  ASSUME IInv, NEW p \in Procs, NEW ok \in BOOLEAN, Return(p, ok)
  PROVE  th'[p].pc \in {"idle", "serve", "report", "errget", "fail"}
<1>1. th \in [Procs -> Tasks]
  BY Here
<1>2. NoTask.pc = "idle" /\ \A t, x : Answer(t, x).pc = x
  BY DEF NoTask, Answer
<1>3. CASE p \in Keys
  BY <1>1, <1>2, <1>3 DEF Return
<1>4. CASE p \notin Keys /\ flight[Key(p)] = p
  <2>1. th'[p] = Awake(th[p], ok)
    BY <1>4 DEF Return, Wakes
  <2>2. CASE ok
    BY <1>2, <2>1, <2>2 DEF Awake
  <2>3. CASE ~ok
    BY <1>2, <2>1, <2>3 DEF Awake
  <2> QED
    BY <2>2, <2>3
<1>5. CASE p \notin Keys /\ flight[Key(p)] # p
  <2>1. th' = [th EXCEPT ![p] = Answer(th[p], IF ok THEN "serve" ELSE "fail")]
    BY <1>1, <1>5 DEF Return
  <2> QED
    BY <1>1, <1>2, <2>1
<1> QED
  BY <1>3, <1>4, <1>5

\* Most steps lead to where nothing is relied on.
LEMMA BenignMove ==
  ASSUME Separate, IInv, Kept, Single, NEW p \in Procs, Resolving(p),
         ~(Guard(p) \/ Keep(p) \/ Have(p) \/ Download(p) \/ Store(p))
  PROVE  th'[p].pc \in BenignPCs
<1>1. /\ th \in [Procs -> Tasks] /\ th[p] \in Tasks /\ Prepared(th[p])
      /\ Stays(entries, meta, th[p]) /\ Lone(entries, meta, th[p])
  BY KeptFacts DEF Single, LoneTasks
<1>2. NoTask.pc = "idle" /\ \A t, x : Answer(t, x).pc = x
  BY DEF NoTask, Answer
<1> DEFINE Good == {"idle", "do", "fresh", "wait", "resolve", "guard", "register", "serve", "fail",
                   "errget", "errart", "errtouch", "errreg", "report", "reported", "conflict"}
<1>17. Good \subseteq BenignPCs
  BY DEF BenignPCs, LonePCs, PCs
<1> SUFFICES th'[p].pc \in Good
  BY <1>17
<1>3. CASE Lookup(p)
  <2>0. th[p].key \in Keys
    BY <1>3, RequestOnly DEF Lookup, Pc
  <2> DEFINE m == meta[th[p].key]
             x == CASE m = None -> "do"
                    [] m # None /\ m.fresh -> "fresh"
                    [] m # None /\ ~m.fresh -> IF SWR THEN "swr" ELSE "do"
             i == IF m = None THEN None ELSE m.id
  <2>1. th' = [th EXCEPT ![p].pc = x, ![p].meta = i]
    BY <1>3 DEF Lookup, Key
  <2>2. x \in {"do", "fresh"}
    <3>1. m # None => m.fresh \in BOOLEAN
      BY <2>0 DEF IInv, Books, Opt
    <3> QED
      BY <3>1 DEF Separate
  <2> HIDE DEF x, i, m
  <2>3. th'[p].pc = x
    BY <1>1, <2>1 DEF Tasks
  <2> QED
    BY <2>2, <2>3
<1>4. CASE Fresh(p)
  <2>1. th[p].meta \in AC!Cached
    BY <1>1, <1>4 DEF Fresh, Pc, Stays, Prepared, Tasks, Opt, AC!Cached
  <2>2. th' = [th EXCEPT ![p] = Answer(th[p], "serve")]
    BY <1>1, <1>4, <2>1 DEF Fresh
  <2> QED
    BY <1>1, <1>2, <2>2
<1>5. ~Swr(p) /\ ~Trigger(p)
  BY <1>1 DEF Swr, Trigger, Lone, Pc
<1>6. CASE Do(p)
  <2>1. CASE flight[Key(p)] = None
    BY <1>1, <1>6, <2>1 DEF Do, Goto, Tasks
  <2>2. CASE flight[Key(p)] # None
    BY <1>1, <1>6, <2>2 DEF Do, Goto, Tasks
  <2> QED
    BY <2>1, <2>2
<1>7. CASE Resolve(p)
  <2>1. CASE Return(p, FALSE)
    BY <2>1, ReturnedTo
  <2>2. CASE \E i \in ArtifactsOf[Key(p)], v \in {"head", "listing"} :
               th' = [th EXCEPT ![p].pc = "guard", ![p].id = i, ![p].via = v]
    BY <1>1, <2>2 DEF Tasks
  <2> QED
    BY <1>7, <2>1, <2>2 DEF Resolve, Separate, NoEviction
<1>8. ~Clean(p)
  BY <1>1 DEF Clean, Pc, Stays, GonePCs
<1>9. CASE SetMeta(p)
  BY <1>1, <1>9 DEF SetMeta, Goto, Tasks
<1>10. CASE Register(p)
  BY <1>10, ReturnedTo DEF Register
<1>11. CASE ErrGet(p)
  <2> DEFINE m == meta[Key(p)]
             x == IF m = None THEN "fail" ELSE "errart"
             i == IF m = None THEN None ELSE m.id
  <2>1. th' = [th EXCEPT ![p].pc = x, ![p].seen = i]
    BY <1>11 DEF ErrGet
  <2>2. x \in {"fail", "errart"}
    OBVIOUS
  <2> HIDE DEF x, i, m
  <2>3. th'[p].pc = x
    BY <1>1, <2>1 DEF Tasks
  <2> QED
    BY <2>2, <2>3
<1>12. CASE ErrArt(p)
  <2> DEFINE x == IF th[p].seen \in AC!Cached THEN "errtouch" ELSE "fail"
  <2>1. th' = [th EXCEPT ![p].pc = x, ![p].fs = entries[th[p].seen], ![p].seen = None]
    BY <1>12 DEF ErrArt
  <2>2. x \in {"fail", "errtouch"}
    OBVIOUS
  <2> HIDE DEF x
  <2>3. th'[p].pc = x
    BY <1>1, <2>1 DEF Tasks
  <2> QED
    BY <2>2, <2>3
<1>13. CASE ErrTouch(p)
  BY <1>1, <1>13 DEF ErrTouch, Goto, Tasks
<1>14. CASE ErrReg(p)
  <2>1. th' = [th EXCEPT ![p] = Answer(th[p], "serve")]
    BY <1>1, <1>14 DEF ErrReg
  <2> QED
    BY <1>1, <1>2, <2>1
<1>15. CASE Report(p)
  <2> DEFINE i == IF meta[Key(p)] = None THEN None ELSE meta[Key(p)].id
  <2>1. PICK x \in {"reported", "conflict"} : th' = [th EXCEPT ![p].pc = x, ![p].seen = i]
    <3>1. PICK expected \in Opt(Ids) :
            th' = [th EXCEPT ![p].pc = IF expected \in {None, i} THEN "reported" ELSE "conflict",
                             ![p].seen = i]
      BY <1>15 DEF Report
    <3> HIDE DEF i
    <3> QED
      BY <3>1
  <2> HIDE DEF i
  <2> QED
    BY <1>1, <2>1 DEF Tasks
<1>16. CASE Respond(p)
  BY <1>1, <1>2, <1>16 DEF Respond
<1> QED
  BY <1>3, <1>4, <1>5, <1>6, <1>7, <1>8, <1>9, <1>10, <1>11, <1>12, <1>13, <1>14, <1>15, <1>16
  DEF Resolving

\* The guard lets by what is newer, or of the head commit.
LEMMA GuardLone ==
  ASSUME IInv, Kept, NEW p \in Procs, Guard(p)
  PROVE  Lone(entries', meta', th'[p])
<1>1. /\ th \in [Procs -> Tasks] /\ th[p] \in Tasks /\ Prepared(th[p]) /\ th[p].pc = "guard"
      /\ UNCHANGED <<entries, meta>>
  BY KeptFacts DEF Guard, Pc, caches
<1>2. th[p].key \in Keys /\ th[p].id \in Int /\ Ids \subseteq Int
  BY <1>1, Resolver, KeysAssumption DEF Prepared, Tasks, Opt
<1>3. CASE Older(p)
  <2> DEFINE i == meta[th[p].key].id
  <2>1. th' = [th EXCEPT ![p].pc = "keep", ![p].seen = i]
    BY <1>3, Zenon DEF Guard, Key
  <2> HIDE DEF i
  <2>2. th'[p].pc = "keep" /\ th'[p].seen = i /\ th'[p].key = th[p].key
    BY <1>1, <2>1 DEF Tasks
  <2> QED
    BY <1>1, <1>3, <2>2 DEF i, Lone, Older, Key
<1>4. CASE ~Older(p)
  <2>1. th' = [th EXCEPT ![p].pc = "have", ![p].seen = None]
    BY <1>4, Zenon DEF Guard
  <2>2. /\ th'[p].pc = "have" /\ th'[p].key = th[p].key /\ th'[p].id = th[p].id
        /\ th'[p].via = th[p].via
    BY <1>1, <2>1 DEF Tasks
  <2>3. meta[th[p].key] # None => meta[th[p].key].id \in Int
    BY <1>2, KeptFacts
  <2> QED
    BY <1>1, <1>2, <1>4, <2>2, <2>3 DEF Lone, Older, Key
<1> QED
  BY <1>3, <1>4

\* What keep installs is what the metadata name; what is not there is downloaded.
LEMMA CachedLone ==
  ASSUME IInv, Kept, Single, NEW p \in Procs, Keep(p) \/ Have(p)
  PROVE  Lone(entries', meta', th'[p])
<1>1. /\ th \in [Procs -> Tasks] /\ th[p] \in Tasks /\ Prepared(th[p])
      /\ Stays(entries, meta, th[p]) /\ Lone(entries, meta, th[p])
      /\ th[p].pc \in {"keep", "have"}
      /\ UNCHANGED <<entries, meta>>
  BY KeptFacts DEF Keep, Have, InstallCached, AC!Get, Pc, Single, LoneTasks
<1>2. /\ th[p].key \in Keys /\ th[p].id \in Ids /\ Ids \subseteq Int
      /\ th[p].pc = "keep" => th[p].seen \in Ids
  BY <1>1, Resolver, KeysAssumption DEF Prepared, Tasks, Opt
<1> DEFINE i == IF th[p].pc = "keep" THEN th[p].seen ELSE th[p].id
<1>3. CASE i \in AC!Cached
  <2>1. th' = [th EXCEPT ![p] =
                 [th[p] EXCEPT !.pc = "setmeta", !.id = i, !.seen = None, !.fs = entries[i]]]
    BY <1>1, <1>3 DEF Keep, Have, InstallCached, Pc
  <2>3. th[p].via = "listing" /\ meta[th[p].key] # None => i >= meta[th[p].key].id
    <3>1. CASE th[p].pc = "keep"
      <4>1. i = th[p].seen /\ i = meta[th[p].key].id /\ i \in Int
        BY <1>1, <1>2, <3>1 DEF Lone
      <4> HIDE DEF i
      <4> QED
        BY <4>1
    <3>2. CASE th[p].pc = "have"
      BY <1>1, <3>2 DEF Lone
    <3> QED
      BY <1>1, <3>1, <3>2
  <2> HIDE DEF i
  <2>2. /\ th'[p].pc = "setmeta" /\ th'[p].id = i /\ th'[p].key = th[p].key
        /\ th'[p].via = th[p].via
    BY <1>1, <2>1 DEF Tasks
  <2> QED
    BY <1>1, <2>2, <2>3 DEF Lone
<1>4. CASE i \notin AC!Cached
  <2>1. th[p].pc = "have" /\ i = th[p].id /\ entries[i] = None
    BY <1>1, <1>2, <1>4 DEF Stays, AC!Cached
  <2>2. th' = [th EXCEPT ![p] = [th[p] EXCEPT !.pc = "download", !.seen = None]]
    BY <1>1, <1>4, <2>1 DEF Keep, Have, InstallCached, Pc
  <2>3. /\ th'[p].pc = "download" /\ th'[p].id = th[p].id /\ th'[p].key = th[p].key
        /\ th'[p].via = th[p].via
    BY <1>1, <2>2 DEF Tasks
  <2> QED
    BY <1>1, <2>1, <2>3 DEF Lone
<1> QED
  BY <1>3, <1>4

LEMMA DownloadLone ==
  ASSUME Separate, IInv, Kept, Single, NEW p \in Procs, Download(p) \/ Store(p)
  PROVE  Lone(entries', meta', th'[p])
<1>1. /\ th \in [Procs -> Tasks] /\ th[p] \in Tasks /\ Lone(entries, meta, th[p])
      /\ UNCHANGED meta /\ NoEviction
  BY KeptFacts DEF Download, Store, Single, LoneTasks, Separate
<1>2. CASE Download(p)
  <2>0. th[p].pc = "download" /\ UNCHANGED entries
    BY <1>2 DEF Download, Pc
  <2>1. CASE Return(p, FALSE)
    <3>1. th'[p].pc \in BenignPCs
      BY <2>1, ReturnedTo DEF BenignPCs, LonePCs, PCs
    <3> QED
      BY <3>1, Benign
  <2>2. CASE \E c \in Copies : th' = [th EXCEPT ![p].pc = "store", ![p].fs = <<th[p].id, c>>]
    <3>1. /\ th'[p].pc = "store" /\ th'[p].id = th[p].id /\ th'[p].key = th[p].key
          /\ th'[p].via = th[p].via
      BY <1>1, <2>2 DEF Tasks
    <3> QED
      BY <1>1, <2>0, <3>1 DEF Lone
  <2> QED
    BY <1>2, <2>1, <2>2 DEF Download
<1>3. CASE Store(p)
  <2>1. th[p].pc = "store" /\ th' = [th EXCEPT ![p].pc = "setmeta", ![p].todo = AC!Cleanups({})]
    BY <1>1, <1>3, Stored
  <2>2. /\ th'[p].pc = "setmeta" /\ th'[p].id = th[p].id /\ th'[p].key = th[p].key
        /\ th'[p].via = th[p].via
    BY <1>1, <2>1 DEF Tasks
  <2> QED
    BY <1>1, <2>1, <2>2 DEF Lone
<1> QED
  BY <1>2, <1>3

LEMMA MoveLone ==
  ASSUME Separate, IInv, Kept, Single, NEW p \in Procs, Resolving(p)
  PROVE  Lone(entries', meta', th'[p])
<1>1. CASE Guard(p) \/ Keep(p) \/ Have(p) \/ Download(p) \/ Store(p)
  BY <1>1, GuardLone, CachedLone, DownloadLone
<1>2. CASE ~(Guard(p) \/ Keep(p) \/ Have(p) \/ Download(p) \/ Store(p))
  BY <1>2, BenignMove, Benign
<1> QED
  BY <1>1, <1>2

-----------------------------------------------------------------------------
(* The invariant.                                                          *)

LEMMA LoneKeep ==
  ASSUME Separate, IInv, Owned, Kept, Single, [Next]_vars
  PROVE  LoneTasks'
<1>1. NoEviction /\ Grows /\ KeepTasks
  BY CachesGrow DEF Separate, Kept
<1>2. ASSUME NEW p \in Procs, Going(p), Lone(entries', meta', th'[p])
      PROVE  LoneTasks'
  <2> SUFFICES ASSUME NEW q \in Procs PROVE Lone(entries', meta', th'[q])
    BY DEF LoneTasks
  <2>1. CASE q = p
    BY <1>2, <2>1
  <2>2. CASE th'[q] = th[q]
    BY <2>2, LoneStays
  <2>3. CASE th'[q].pc \in {"serve", "report", "errget", "fail", "resolve"}
    <3>1. th'[q].pc \in BenignPCs
      BY <2>3 DEF BenignPCs, LonePCs, PCs
    <3> QED
      BY <3>1, Benign
  <2> QED
    BY <1>2, <2>1, <2>2, <2>3 DEF Going
<1>3. ASSUME NEW p \in Procs, Resolving(p) PROVE LoneTasks'
  BY <1>1, <1>2, <1>3, ResolvingKeep, MoveLone
<1>4. ASSUME NEW p \in Requests, NEW o \in {"serve", "refresh"}, NEW k \in Keys, Start(p, o, k)
      PROVE  LoneTasks'
  <2>1. Going(p) /\ p \in Procs
    BY <1>1, <1>4, StartKeep, Roles
  <2>2. th'[p].pc \in {"lookup", "do"}
    <3>1. th \in [Procs -> Tasks]
      BY <2>1, KeptFacts
    <3>2. CASE o = "serve"
      <4>1. th' = [th EXCEPT ![p] = [NoTask EXCEPT !.op = o, !.key = k, !.pc = "lookup"]]
        BY <1>4, <3>2 DEF Start
      <4> QED
        BY <2>1, <3>1, <4>1 DEF NoTask
    <3>3. CASE o = "refresh"
      <4>1. th' = [th EXCEPT ![p] = [NoTask EXCEPT !.op = o, !.key = k, !.pc = "do"]]
        BY <1>4, <3>3 DEF Start
      <4> QED
        BY <2>1, <3>1, <4>1 DEF NoTask
    <3> QED
      BY <3>2, <3>3
  <2>3. th'[p].pc \in BenignPCs
    BY <2>2 DEF BenignPCs, LonePCs, PCs
  <2> QED
    BY <1>2, <2>1, <2>3, Benign
<1>5. CASE UNCHANGED th
  BY <1>5, LoneStays DEF LoneTasks
<1>6. (\E k \in Keys : Expire(k)) \/ UNCHANGED vars => UNCHANGED th
  BY DEF Expire, vars
<1> QED
  BY <1>1, <1>3, <1>4, <1>5, <1>6, Steps

\* Nobody starts a background refresh.
LEMMA RefreshesKeep ==
  ASSUME Separate, IInv, Kept, Single, [Next]_vars
  PROVE  NoRefreshes'
<1>1. NoEviction /\ KeepTasks
  BY DEF Separate, Kept
<1>2. ASSUME NEW p \in Procs, NEW ok \in BOOLEAN, Return(p, ok)
      PROVE  refreshing' \subseteq refreshing
  BY <1>2 DEF Return, EndRefresh
<1>3. ASSUME NEW p \in Procs, Resolving(p), ~Clean(p)
      PROVE  refreshing' \subseteq refreshing
  <2>1. ~Trigger(p)
    BY DEF Single, LoneTasks, Lone, Trigger, Pc
  <2>2. CASE Resolve(p)
    <3>1. Return(p, FALSE) \/ UNCHANGED refreshing
      BY <2>2 DEF Resolve
    <3> QED
      BY <1>2, <3>1
  <2>3. CASE Download(p)
    <3>1. Return(p, FALSE) \/ UNCHANGED refreshing
      BY <2>3 DEF Download
    <3> QED
      BY <1>2, <3>1
  <2>4. CASE Register(p)
    <3>1. Return(p, TRUE)
      BY <2>4 DEF Register
    <3> QED
      BY <1>2, <3>1
  <2>5. CASE ~(Resolve(p) \/ Download(p) \/ Register(p))
    BY <1>3, <2>1, <2>5
    DEF Resolving, Lookup, Fresh, Swr, Do, Guard, Keep, Have, InstallCached, Store, SetMeta,
        ErrGet, ErrArt, ErrTouch, ErrReg, Report, Respond
  <2> QED
    BY <2>2, <2>3, <2>4, <2>5
<1>4. UNCHANGED vars => UNCHANGED refreshing
  BY DEF vars
<1>5. refreshing' \subseteq refreshing
  BY <1>1, <1>3, <1>4, Steps DEF Start, Expire
<1> QED
  BY <1>5 DEF Single, NoRefreshes

\* Files are only opened, by downloads.
LEMMA OpenStep ==
  ASSUME Separate, IInv, Kept, [Next]_vars
  PROVE  \/ UNCHANGED open
         \/ \E p \in Procs, h \in Handles :
              /\ open' = open \cup {h}
              /\ th'[p].pc = "store" /\ th'[p].fs = h
<1>1. NoEviction /\ KeepTasks
  BY DEF Separate, Kept
<1>2. ASSUME NEW p \in Procs, Download(p), ~UNCHANGED open
      PROVE  \E h \in Handles : /\ open' = open \cup {h}
                                /\ th'[p].pc = "store" /\ th'[p].fs = h
  <2> DEFINE h(c) == <<th[p].id, c>>
  <2>1. PICK c \in Copies : /\ th' = [th EXCEPT ![p].pc = "store", ![p].fs = h(c)]
                            /\ open' = open \cup {h(c)}
    BY <1>2 DEF Download
  <2>2. h(c) \in Handles
    BY <1>2, KeptFacts DEF Download, Pc, Prepared, Tasks, Opt, Handles
  <2> HIDE DEF h
  <2>3. th'[p].pc = "store" /\ th'[p].fs = h(c)
    BY <2>1, KeptFacts DEF Tasks
  <2> QED
    BY <2>1, <2>2, <2>3
<1>3. ASSUME NEW p \in Procs, Resolving(p), ~Clean(p) PROVE UNCHANGED open \/ Download(p)
  BY <1>3
  DEF Resolving, Lookup, Fresh, Swr, Trigger, Do, Resolve, Guard, Keep, Have, InstallCached,
      Store, SetMeta, Register, ErrGet, ErrArt, ErrTouch, ErrReg, Report, Respond, caches
<1>4. UNCHANGED vars => UNCHANGED open
  BY DEF vars, caches
<1> QED
  BY <1>1, <1>2, <1>3, <1>4, Steps DEF Start, Expire, caches

LEMMA OpenKeep ==
  ASSUME Separate, IInv, Kept, Single, [Next]_vars
  PROVE  OpenUsed'
<1> SUFFICES ASSUME NEW h \in open'
             PROVE  \/ \E i \in Ids : entries'[i] = h
                    \/ \E p \in Procs : th'[p].pc = "store" /\ th'[p].fs = h
  BY DEF OpenUsed
<1>1. NoEviction /\ KeepTasks
  BY DEF Separate, Kept
<1>2. ASSUME h \in open, NEW i \in Ids, entries[i] = h PROVE entries'[i] = h
  <2>1. h # None
    BY <1>2, NoneAssumption DEF IInv, CacheData
  <2>2. ASSUME NEW p \in Procs, Store(p) PROVE entries'[i] = h
    <3>1. /\ th[p].pc = "store"
          /\ entries' = [j \in Ids |-> IF j = th[p].id THEN th[p].fs ELSE entries[j]]
      BY <1>1, <2>2, Stored
    <3>2. entries[th[p].id] = None
      BY <3>1 DEF Single, LoneTasks, Lone
    <3> QED
      BY <1>2, <2>1, <3>1, <3>2
  <2> QED
    BY <1>1, <1>2, <2>2, EntriesStep
<1>3. ASSUME NEW q \in Procs, th[q].pc = "store", th[q].fs = h
      PROVE  \/ \E i \in Ids : entries'[i] = h
             \/ th'[q] = th[q]
  <2>1. CASE Store(q)
    BY <1>1, <1>3, <2>1, Stored
  <2>2. CASE ~Store(q)
    <3>1. ~Resolving(q)
      BY <1>3, <2>2
      DEF Resolving, Lookup, Fresh, Swr, Trigger, Do, Resolve, Guard, Keep, Have, Download, Clean,
          SetMeta, Register, ErrGet, ErrArt, ErrTouch, ErrReg, Report, Respond, Pc
    <3> QED
      BY <1>1, <1>3, <3>1, StepsKeep DEF Going, InCall
  <2> QED
    BY <2>1, <2>2
<1>4. CASE h \in open
  BY <1>2, <1>3, <1>4 DEF Single, OpenUsed
<1>5. CASE h \notin open
  BY <1>5, OpenStep
<1> QED
  BY <1>4, <1>5

LEMMA Alone ==
  ASSUME Separate
  PROVE  Spec => [](IInv /\ Owned /\ Kept /\ Single)
<1>1. Init => Single
  <2> SUFFICES ASSUME Init PROVE Single
    OBVIOUS
  <2>1. NoTask.pc \in BenignPCs
    BY DEF NoTask, BenignPCs, LonePCs, PCs
  <2>2. LoneTasks
    BY <2>1, Benign DEF Init, LoneTasks
  <2> QED
    BY <2>2 DEF Init, Single, NoRefreshes, OpenUsed
<1>2. IInv /\ Owned /\ Kept /\ Single /\ [Next]_vars => Single'
  BY LoneKeep, RefreshesKeep, OpenKeep DEF Single
<1>3. NoEviction
  BY DEF Separate
<1>4. Spec => []Kept
  BY <1>3, Keeping
<1> QED
  BY <1>1, <1>2, <1>4, Invariance, Owning, PTL DEF Spec

\* The cleanup of DownloadArtifact "must be called when the filesystem is no longer
\* needed" (github.go): set forgets the filesystem it overwrites, so that none may ever
\* be overwritten.  None is: an artifact is downloaded by one goroutine at a time, which
\* has not found it in the cache, and nobody else puts it there before it does.
THEOREM NothingLeaks ==
  ASSUME Separate
  PROVE  Spec => []NoFileLeaked
<1>1. IInv /\ Single => NoFileLeaked
  <2> SUFFICES ASSUME IInv, Single, NEW h \in open
               PROVE  h \in AC!CachedHandles \cup AC!HeldHandles
    BY DEF NoFileLeaked
  <2>1. h # None
    BY NoneAssumption DEF IInv, CacheData
  <2>2. ASSUME NEW i \in Ids, entries[i] = h PROVE h \in AC!CachedHandles
    BY <2>1, <2>2 DEF AC!CachedHandles, AC!Cached
  <2>3. ASSUME NEW p \in Procs, th[p].pc = "store", th[p].fs = h PROVE h \in AC!HeldHandles
    <3>1. Holds[p] = h
      BY <2>3 DEF Holds
    <3> QED
      BY <2>1, <3>1 DEF AC!HeldHandles
  <2> QED
    BY <2>2, <2>3 DEF Single, OpenUsed
<1> QED
  BY <1>1, Alone, PTL

\* What the fallback listing finds "never replaces a cached artifact with an older one"
\* (handler.go): between the guard and the metadata it sets, whole downloads apart, nobody
\* has set the metadata of that key.
THEOREM ListingNeverRegresses ==
  ASSUME Separate
  PROVE  Spec => NoFallbackRegress
<1> DEFINE Regress(p, k) ==
      /\ Pc(p) = "setmeta" /\ Pc(p)' = "register"
      /\ Key(p) = k /\ th[p].via = "listing"
      /\ meta[k] # None
      /\ meta[k].id \in AC!Cached
      => meta'[k].id >= meta[k].id
<1>1. ASSUME IInv, Owned, Kept, Single, [Next]_vars, NEW p \in Procs, NEW k \in Keys
      PROVE  Regress(p, k)
  <2> SUFFICES ASSUME th[p].pc = "setmeta", th[p].key = k, th[p].via = "listing",
                      meta[k] # None
               PROVE  meta'[k].id >= meta[k].id
    BY DEF Pc, Key
  <2>1. NoEviction /\ KeepTasks /\ InFlight /\ NoRefreshes /\ Lone(entries, meta, th[p])
    BY <1>1 DEF Separate, Kept, Single, LoneTasks
  <2>2. meta[k].id \in Int
    BY <1>1, KeptFacts, KeysAssumption
  <2>3. MetaStep(k)
    BY <1>1, <2>1, MetaSteps
  <2>4. CASE meta'[k].id = meta[k].id
    BY <2>2, <2>4
  <2>5. CASE \E q \in Procs : SetMeta(q) /\ th[q].key = k /\ meta'[k].id = th[q].id
    <3>1. PICK q \in Procs : SetMeta(q) /\ th[q].key = k /\ meta'[k].id = th[q].id
      BY <2>5
    <3>2. q = p
      BY <1>1, <2>1, <3>1, OneAtWork DEF SetMeta, Pc, LonePCs
    <3> QED
      BY <2>1, <3>1, <3>2 DEF Lone
  <2> QED
    BY <2>3, <2>4, <2>5 DEF MetaStep
<1>2. IInv /\ Owned /\ Kept /\ Single /\ [Next]_vars
        => [\A p \in Procs, k \in Keys : Regress(p, k)]_vars
  BY <1>1
<1>3. Spec => [][\A p \in Procs, k \in Keys : Regress(p, k)]_vars
  <2> HIDE DEF Regress
  <2> QED
    BY <1>2, Alone, PTL DEF Spec
<1> QED
  BY <1>3 DEF NoFallbackRegress

-----------------------------------------------------------------------------
(***************************************************************************)
(* One request after the other: what a request reads stays true until it   *)
(* answers, except for what it does itself.  Between two requests every    *)
(* key is Settled: the map serves what the metadata name, from the         *)
(* filesystem in the cache if it is still there, and a pause after a       *)
(* failed resolve goes with metadata that count as fresh.  Progress says   *)
(* which of this the request at work has not restored yet, place by place, *)
(* and what its local variables have to do with the caches meanwhile;      *)
(* evictions for its artifact may hit any other key, and leave it Settled. *)
(***************************************************************************)

\* One request at a time, no background refreshes, pruner or shutdown, and keys that share
\* no artifacts; any number of artifacts, room for any number of them.
Sequential ==
  /\ \E r : Requests = {r}
  /\ ~SWR
  /\ Ops \subseteq {"serve", "refresh", "evict"}
  /\ \A j, k \in Keys : j # k => ArtifactsOf[j] \cap ArtifactsOf[k] = {}

\* The metadata M name an artifact for key k, which is among the entries E.
Known(E, M, k) == M[k] # None /\ E[M[k].id] # None

\* The map F serves for k the artifact of its metadata; from the filesystem in the cache, if
\* it is there; and the pause C after a failed resolve is kept.
Named(M, F, k) == IF M[k] = None THEN F[k] = None ELSE F[k] # None /\ F[k][1] = M[k].id
Linked(E, M, F, k) == Known(E, M, k) => F[k] = E[M[k].id]
Paused(E, M, C, k) == k \in C => M[k] # None /\ (E[M[k].id] # None => M[k].fresh)
Settled(E, M, F, C, k) == Named(M, F, k) /\ Linked(E, M, F, k) /\ Paused(E, M, C, k)

\* What of it holds of the key of the request t, and what t has read or installed so far.
Unnamed == {"register", "evunreg"}
Unlinked == {"clean", "setmeta", "register", "evunreg"}
Unpaused == {"clean", "setmeta", "errget", "errart", "errtouch"}

Progress(E, M, F, C, k, t) ==
  /\ t.pc \notin Unnamed => Named(M, F, k)
  /\ t.pc \notin Unlinked => Linked(E, M, F, k)
  /\ t.pc \notin Unpaused => Paused(E, M, C, k)
  /\ k \in C => M[k] # None
  /\ t.pc \in {"serve", "report", "reported"} => Known(E, M, k)
  /\ t.pc \in {"fresh", "errart", "register"} => M[k] # None
  /\ t.pc = "fresh" => t.meta = M[k].id
  /\ t.pc \in {"errart", "reported"} => t.seen = M[k].id
  /\ t.pc \in {"errtouch", "errreg"} => Known(E, M, k) /\ E[M[k].id] = t.fs
  /\ t.pc \in {"clean", "setmeta", "register"} => E[t.id] = t.fs
  /\ t.pc = "register" => M[k].id = t.id
  /\ t.pc = "evunreg" => M[k] = None
  /\ t.pc = "do" /\ t.op = "serve" /\ k \in C => ~Known(E, M, k)

\* The files: of what is cached, of what is about to be, and of what is not any more.
Files(E, O, t) ==
  /\ \A i \in Ids : E[i] # None => E[i] \in O /\ E[i] \notin t.todo
  /\ t.pc = "store" => t.fs \in O /\ t.fs[1] = t.id /\ \A i \in Ids : E[i] # t.fs

OthersRest == \A p \in Procs \ Requests : th[p].pc = "idle"

InTurn(r) ==
  /\ th[r].pc \notin {"swr", "trigger", "wait"}
  /\ Files(entries, open, th[r])
  /\ \A k \in Keys : IF k = th[r].key THEN Progress(entries, meta, fsmap, cooling, k, th[r])
                     ELSE Settled(entries, meta, fsmap, cooling, k)

SeqInv == OthersRest /\ \A r \in Requests : InTurn(r)

-----------------------------------------------------------------------------
\* What the invariants say of the request r.
LEMMA SeqFacts ==
  ASSUME Sequential, IInv, Owned, SeqInv, NEW r \in Requests
  PROVE  /\ th \in [Procs -> Tasks] /\ th[r] \in Tasks /\ Prepared(th[r]) /\ Task(r, th[r])
         /\ OwnTask(th[r])
         /\ r \in Procs /\ Requests = {r}
         /\ th[r].pc # "idle" => th[r].key \in Keys
         /\ InTurn(r) /\ OthersRest
         /\ \A p \in Procs \ {r} : th[p].pc = "idle"
<1>1. Task(r, th[r]) /\ th[r] \in Tasks /\ th \in [Procs -> Tasks] /\ r \in Procs
  BY Here, Roles
<1>2. Requests = {r}
  BY DEF Sequential
<1>3. th[r].pc # "idle" => th[r].key \in Keys
  <2>1. th[r].pc \in RequestPCs /\ th[r].op # "age"
    BY <1>1, Roles DEF Task
  <2>2. th[r].key = None => th[r].pc = "idle"
    BY <1>1, <2>1 DEF Task, Prepared, RequestPCs, InCall
  <2> QED
    BY <1>1, <2>2 DEF Tasks, Opt
<1> QED
  BY <1>1, <1>2, <1>3, Facts DEF Task, SeqInv, OthersRest

\* r goes on; what it leaves behind of its key is in order, and of the other keys nothing has
\* changed but that artifacts may have been evicted.
LEMMA SeqMove ==
  ASSUME Sequential, IInv, Owned, SeqInv, NEW r \in Requests, NEW k \in Keys, k = th[r].key,
         OthersStay(r), th'[r].pc \notin {"swr", "trigger", "wait"},
         Files(entries', open', th'[r]),
         \A j \in Keys \ {k} : /\ meta'[j] = meta[j] /\ fsmap'[j] = fsmap[j]
                               /\ j \in cooling' => j \in cooling
                               /\ \A i \in ArtifactsOf[j] : entries'[i] \in {entries[i], None},
         \/ th'[r].key = k /\ Progress(entries', meta', fsmap', cooling', k, th'[r])
         \/ th'[r].key = None /\ Settled(entries', meta', fsmap', cooling', k)
  PROVE  SeqInv'
<1>1. Requests = {r} /\ InTurn(r) /\ OthersRest
  BY SeqFacts
<1>2. OthersRest'
  BY <1>1 DEF OthersRest, OthersStay
<1>3. ASSUME NEW j \in Keys, j # k PROVE Settled(entries', meta', fsmap', cooling', j)
  <2>1. Settled(entries, meta, fsmap, cooling, j)
    BY <1>1, <1>3 DEF InTurn
  <2>2. meta[j] # None => meta[j].id \in ArtifactsOf[j]
    BY Facts, Roles
  <2>3. meta'[j] = meta[j] /\ fsmap'[j] = fsmap[j] /\ (j \in cooling' => j \in cooling)
        /\ (meta[j] # None => entries'[meta[j].id] \in {entries[meta[j].id], None})
    BY <1>3, <2>2
  <2> QED
    BY <2>1, <2>3 DEF Settled, Named, Linked, Paused, Known
<1>4. \A j \in Keys : IF j = th'[r].key THEN Progress(entries', meta', fsmap', cooling', j, th'[r])
                      ELSE Settled(entries', meta', fsmap', cooling', j)
  BY <1>3, Roles
<1>5. InTurn(r)'
  BY <1>4 DEF InTurn
<1> QED
  BY <1>1, <1>2, <1>5 DEF SeqInv

\* r goes on, and changes nothing of what is cached, known or served.
Untouched == UNCHANGED <<meta, entries, open, fsmap, cooling>>

LEMMA SeqGoes ==
  ASSUME Sequential, IInv, Owned, SeqInv, NEW r \in Requests, th[r].key \in Keys,
         OthersStay(r), Untouched,
         th'[r].pc \notin {"swr", "trigger", "wait", "store"},
         th'[r].todo = {} \/ th'[r].todo = th[r].todo,
         \/ th'[r].key = th[r].key /\ Progress(entries, meta, fsmap, cooling, th[r].key, th'[r])
         \/ th'[r].key = None /\ Settled(entries, meta, fsmap, cooling, th[r].key)
  PROVE  SeqInv'
<1>1. InTurn(r)
  BY SeqFacts
<1>2. Files(entries', open', th'[r])
  BY <1>1 DEF InTurn, Files, Untouched
<1>3. UNCHANGED meta /\ UNCHANGED entries /\ UNCHANGED fsmap /\ UNCHANGED cooling
  BY DEF Untouched
<1> QED
  BY <1>2, <1>3, SeqMove

\* Where an answer may be given.
LEMMA InOrder ==
  ASSUME NEW E, NEW M, NEW F, NEW C, NEW k, NEW t, Settled(E, M, F, C, k),
         \/ t.pc \in {"fail", "conflict", "resolve", "guard", "have", "download", "store", "evget", "evart",
                      "evclean", "evmeta", "errget", "keep", "lookup"}
         \/ t.pc \in {"serve", "report"} /\ Known(E, M, k)
         \/ t.pc = "do" /\ (t.op = "serve" /\ k \in C => ~Known(E, M, k))
  PROVE  Progress(E, M, F, C, k, t)
BY DEF Progress, Settled, Paused, Unnamed, Unlinked, Unpaused

\* What an answer is made of.
LEMMA AnswerIs ==
  ASSUME NEW t, NEW x
  PROVE  /\ Answer(t, x).pc = x /\ Answer(t, x).key = t.key /\ Answer(t, x).op = t.op
         /\ Answer(t, x).todo = {}
         /\ NoTask.pc = "idle" /\ NoTask.key = None /\ NoTask.todo = {}
BY DEF Answer, NoTask

\* An answer is given when the key is in order.
LEMMA SeqAnswer ==
  ASSUME Sequential, IInv, Owned, SeqInv, NEW r \in Requests, th[r].key \in Keys, Untouched,
         Settled(entries, meta, fsmap, cooling, th[r].key),
         \/ \E x \in {"serve", "report"} : th' = [th EXCEPT ![r] = Answer(th[r], x)]
                                            /\ Known(entries, meta, th[r].key)
         \/ \E x \in {"fail", "errget"} : th' = [th EXCEPT ![r] = Answer(th[r], x)]
         \/ th' = [th EXCEPT ![r] = NoTask]
  PROVE  SeqInv'
<1>1. th \in [Procs -> Tasks] /\ r \in Procs
  BY SeqFacts
<1>2. CASE th' = [th EXCEPT ![r] = NoTask]
  <2>1. th'[r].pc = "idle" /\ th'[r].key = None /\ th'[r].todo = {} /\ OthersStay(r)
    BY <1>1, <1>2, AnswerIs DEF OthersStay
  <2> QED
    BY <2>1, SeqGoes
<1>3. ASSUME NEW x \in {"serve", "report", "fail", "errget"},
             th' = [th EXCEPT ![r] = Answer(th[r], x)],
             x \in {"serve", "report"} => Known(entries, meta, th[r].key)
      PROVE  SeqInv'
  <2>1. /\ th'[r].pc = x /\ th'[r].key = th[r].key /\ th'[r].todo = {} /\ OthersStay(r)
    BY <1>1, <1>3, AnswerIs DEF OthersStay
  <2>2. Progress(entries, meta, fsmap, cooling, th[r].key, th'[r])
    BY <1>3, <2>1, InOrder
  <2> QED
    BY <2>1, <2>2, SeqGoes
<1> QED
  BY <1>2, <1>3

\* A request arrives.
LEMMA StartSeq ==
  ASSUME Sequential, IInv, Owned, SeqInv, NEW r \in Requests, NEW o \in {"serve", "refresh", "evict"},
         NEW k \in Keys, Start(r, o, k)
  PROVE  SeqInv'
<1>1. /\ th \in [Procs -> Tasks] /\ r \in Procs /\ th[r].pc = "idle" /\ InTurn(r)
      /\ OthersRest /\ Requests = {r}
  BY SeqFacts DEF Start, Pc
<1>2. PICK x : x = CASE o = "serve" -> "lookup" [] o = "refresh" -> "do" [] o = "evict" -> "evget"
  OBVIOUS
<1>3. x \in {"lookup", "do", "evget"} /\ (x = "do" => o = "refresh")
  BY <1>2
<1>4. th' = [th EXCEPT ![r] = [NoTask EXCEPT !.op = o, !.key = k, !.pc = x]]
  BY <1>2 DEF Start
<1>5. th'[r].pc = x /\ th'[r].key = k /\ th'[r].op = o /\ th'[r].todo = {} /\ OthersStay(r)
  BY <1>1, <1>4 DEF NoTask, OthersStay
<1>6. \A j \in Keys : Settled(entries, meta, fsmap, cooling, j)
  BY <1>1 DEF InTurn, Progress, Settled, Unnamed, Unlinked, Unpaused
<1>7. Progress(entries, meta, fsmap, cooling, k, th'[r])
  BY <1>3, <1>5, <1>6, InOrder
<1>8. /\ UNCHANGED entries /\ UNCHANGED open /\ UNCHANGED meta /\ UNCHANGED fsmap
      /\ UNCHANGED cooling
  BY DEF Start, caches
<1>9. InTurn(r)'
  <2>1. Files(entries, open, th'[r])
    BY <1>1, <1>3, <1>5 DEF InTurn, Files
  <2>2. \A j \in Keys : IF j = th'[r].key THEN Progress(entries, meta, fsmap, cooling, j, th'[r])
                        ELSE Settled(entries, meta, fsmap, cooling, j)
    BY <1>5, <1>6, <1>7
  <2> QED
    BY <1>3, <1>5, <1>8, <2>1, <2>2 DEF InTurn
<1>10. OthersRest'
  BY <1>1, <1>5 DEF OthersRest, OthersStay
<1> QED
  BY <1>1, <1>9, <1>10 DEF SeqInv

\* The metadata decide between the fresh path and a resolve.
LEMMA LookupSeq ==
  ASSUME Sequential, IInv, Owned, SeqInv, NEW r \in Requests, Lookup(r)
  PROVE  SeqInv'
<1>1. /\ th \in [Procs -> Tasks] /\ th[r] \in Tasks /\ r \in Procs /\ th[r].pc = "lookup" /\ InTurn(r)
      /\ th[r].key \in Keys
  BY SeqFacts DEF Lookup, Pc
<1>2. PICK k \in Keys : k = th[r].key
  BY <1>1
<1>3. PICK m : m = meta[k]
  OBVIOUS
<1>4. m # None => m.fresh \in BOOLEAN
  BY <1>3 DEF IInv, Books, Opt
<1>5. PICK x : x = CASE m = None -> "do"
                     [] m # None /\ m.fresh -> "fresh"
                     [] m # None /\ ~m.fresh -> IF SWR THEN "swr" ELSE "do"
  OBVIOUS
<1>6. PICK i : i = IF m = None THEN None ELSE m.id
  OBVIOUS
<1>7. th' = [th EXCEPT ![r].pc = x, ![r].meta = i]
  BY <1>2, <1>3, <1>5, <1>6 DEF Lookup, Key
<1>8. x \in {"do", "fresh"} /\ (x = "fresh" => m # None /\ i = m.id) /\ (x = "do" => m = None \/ ~m.fresh)
  BY <1>4, <1>5, <1>6 DEF Sequential
<1>9. /\ th'[r].pc = x /\ th'[r].meta = i /\ th'[r].key = k /\ th'[r].todo = th[r].todo
      /\ OthersStay(r)
  BY <1>1, <1>2, <1>7 DEF Tasks, OthersStay
<1>10. Settled(entries, meta, fsmap, cooling, k)
  BY <1>1, <1>2 DEF InTurn, Progress, Settled, Unnamed, Unlinked, Unpaused
<1>11. Progress(entries, meta, fsmap, cooling, k, th'[r])
  <2>1. CASE x = "do"
    <3>1. k \in cooling => ~Known(entries, meta, k)
      BY <1>3, <1>8, <1>10, <2>1 DEF Settled, Paused, Known
    <3> QED
      BY <1>9, <1>10, <2>1, <3>1, InOrder
  <2>2. CASE x = "fresh"
    BY <1>3, <1>8, <1>9, <1>10, <2>2 DEF Progress, Settled, Paused, Unnamed, Unlinked, Unpaused
  <2> QED
    BY <1>8, <2>1, <2>2
<1>12. Untouched
  BY DEF Lookup, Untouched, caches
<1> QED
  BY <1>1, <1>2, <1>8, <1>9, <1>11, <1>12, SeqGoes

\* Nobody waits for the call that r leads.
LEMMA SeqReturn ==
  ASSUME Sequential, IInv, Owned, SeqInv, NEW r \in Requests, NEW ok \in BOOLEAN, Return(r, ok),
         th[r].op \in {"serve", "refresh"}
  PROVE  \E x : /\ th' = [th EXCEPT ![r] = Answer(th[r], x)]
                /\ x \in (IF ok THEN {"serve", "report"} ELSE {"errget", "fail"})
                /\ x = "fail" => flight[th[r].key] # r \/ th[r].op = "refresh"
<1>1. /\ th \in [Procs -> Tasks] /\ r \in Procs /\ r \notin Keys
      /\ \A p \in Procs \ {r} : th[p].pc = "idle"
  BY SeqFacts, Roles
<1>2. CASE flight[th[r].key] = r
  <2>1. th' = [q \in Procs |-> IF Wakes(r, q) THEN Awake(th[q], ok) ELSE th[q]]
    BY <1>1, <1>2 DEF Return, Key
  <2>2. \A q \in Procs : Wakes(r, q) <=> q = r
    BY <1>1 DEF Wakes, Pc
  <2>3. th' = [th EXCEPT ![r] = Awake(th[r], ok)]
    BY <1>1, <2>1, <2>2
  <2>4. CASE ok
    <3>1. PICK x \in {"serve", "report"} : Awake(th[r], ok) = Answer(th[r], x)
      BY <2>4 DEF Awake
    <3>2. th' = [th EXCEPT ![r] = Answer(th[r], x)]
      BY <2>3, <3>1
    <3>3. /\ x \in (IF ok THEN {"serve", "report"} ELSE {"errget", "fail"})
          /\ x # "fail"
      BY <2>4
    <3> QED
      BY <3>2, <3>3
  <2>5. CASE ~ok /\ th[r].op = "serve"
    <3>1. PICK x : x = "errget"
      OBVIOUS
    <3>2. Awake(th[r], ok) = Answer(th[r], x)
      BY <2>5, <3>1 DEF Awake
    <3>3. th' = [th EXCEPT ![r] = Answer(th[r], x)]
      BY <2>3, <3>2
    <3>4. /\ x \in (IF ok THEN {"serve", "report"} ELSE {"errget", "fail"})
          /\ x # "fail"
      BY <2>5, <3>1
    <3> QED
      BY <3>3, <3>4
  <2>6. CASE ~ok /\ th[r].op = "refresh"
    <3>1. PICK x : x = "fail"
      OBVIOUS
    <3>2. Awake(th[r], ok) = Answer(th[r], x)
      BY <2>6, <3>1 DEF Awake
    <3>3. th' = [th EXCEPT ![r] = Answer(th[r], x)]
      BY <2>3, <3>2
    <3>4. x \in (IF ok THEN {"serve", "report"} ELSE {"errget", "fail"})
      BY <2>6, <3>1
    <3> QED
      BY <2>6, <3>3, <3>4
  <2> QED
    BY <2>4, <2>5, <2>6
<1>3. CASE flight[th[r].key] # r
  <2>1. PICK x : x = IF ok THEN "serve" ELSE "fail"
    OBVIOUS
  <2>2. th' = [th EXCEPT ![r] = Answer(th[r], x)]
    BY <1>1, <1>3, <2>1 DEF Return, Key
  <2>3. /\ x \in (IF ok THEN {"serve", "report"} ELSE {"errget", "fail"})
        /\ x = "fail" => flight[th[r].key] # r \/ th[r].op = "refresh"
    BY <1>3, <2>1
  <2> QED
    BY <2>2, <2>3
<1> QED
  BY <1>2, <1>3

\* A resolve or a download that fails.
LEMMA SeqFails ==
  ASSUME Sequential, IInv, Owned, SeqInv, NEW r \in Requests, Return(r, FALSE), Cool(r, FALSE),
         th[r].key \in Keys, th[r].op \in {"serve", "refresh"},
         UNCHANGED <<meta, entries, open>>,
         NEW k \in Keys, k = th[r].key, Settled(entries, meta, fsmap', cooling, k),
         \A j \in Keys \ {k} : fsmap'[j] = fsmap[j]
  PROVE  SeqInv'
<1>1. th \in [Procs -> Tasks] /\ r \in Procs /\ InTurn(r) /\ r \notin Keys
  BY SeqFacts, Roles
<1>2. PICK x : /\ th' = [th EXCEPT ![r] = Answer(th[r], x)]
               /\ x \in {"errget", "fail"}
               /\ x = "fail" => flight[th[r].key] # r \/ th[r].op = "refresh"
  BY SeqReturn
<1>3. th'[r].pc = x /\ th'[r].key = k /\ th'[r].todo = {} /\ OthersStay(r)
  BY <1>1, <1>2, AnswerIs DEF OthersStay
<1>4. /\ cooling' \subseteq cooling \cup {k}
      /\ k \in cooling' => meta[k] # None
      /\ x = "fail" => cooling' \subseteq cooling
  BY <1>1, <1>2 DEF Cool, InResolve, Key, Settled, Paused
<1>5. Progress(entries', meta', fsmap', cooling', k, th'[r])
  <2>1. CASE x = "errget"
    BY <1>3, <1>4, <2>1 DEF Progress, Settled, Linked, Unnamed, Unlinked, Unpaused
  <2>2. CASE x = "fail"
    <3>1. Settled(entries, meta, fsmap', cooling', k)
      BY <1>4, <2>2 DEF Settled, Paused
    <3> QED
      BY <1>3, <2>2, <3>1, InOrder
  <2> QED
    BY <1>2, <2>1, <2>2
<1>6. Files(entries', open', th'[r])
  BY <1>1, <1>2, <1>3 DEF InTurn, Files
<1>7. \A j \in Keys \ {k} : /\ meta'[j] = meta[j] /\ fsmap'[j] = fsmap[j]
                            /\ j \in cooling' => j \in cooling
                            /\ \A i \in ArtifactsOf[j] : entries'[i] \in {entries[i], None}
  <2>1. UNCHANGED meta /\ UNCHANGED entries
    OBVIOUS
  <2> QED
    BY <1>4, <2>1
<1>8. th'[r].pc \notin {"swr", "trigger", "wait"}
  BY <1>2, <1>3
<1> QED
  BY <1>3, <1>5, <1>6, <1>7, <1>8, SeqMove

\* Fresh metadata: what is cached is served, the rest downloaded again.
LEMMA FreshSeq ==
  ASSUME Sequential, IInv, Owned, SeqInv, NEW r \in Requests, Fresh(r)
  PROVE  SeqInv'
<1>1. /\ th \in [Procs -> Tasks] /\ th[r] \in Tasks /\ r \in Procs /\ th[r].pc = "fresh" /\ InTurn(r)
      /\ th[r].key \in Keys /\ Prepared(th[r])
  BY SeqFacts DEF Fresh, Pc
<1>2. PICK k \in Keys : k = th[r].key
  BY <1>1
<1>3. Settled(entries, meta, fsmap, cooling, k) /\ meta[k] # None /\ th[r].meta = meta[k].id
  BY <1>1, <1>2 DEF InTurn, Progress, Settled, Unnamed, Unlinked, Unpaused
<1>4. Untouched /\ th[r].meta \in Ids
  BY <1>1 DEF Fresh, Untouched, AC!Get, Prepared, Tasks, Opt
<1>5. CASE th[r].meta \in AC!Cached
  <2>1. th' = [th EXCEPT ![r] = Answer(th[r], "serve")]
    BY <1>1, <1>5 DEF Fresh
  <2>2. Known(entries, meta, k)
    BY <1>3, <1>5 DEF AC!Cached, Known
  <2> QED
    BY <1>1, <1>2, <1>3, <1>4, <2>1, <2>2, SeqAnswer
<1>6. CASE th[r].meta \notin AC!Cached
  <2>1. th' = [th EXCEPT ![r] = [th[r] EXCEPT !.pc = "download", !.id = th[r].meta]]
    BY <1>1, <1>6 DEF Fresh
  <2>2. /\ th'[r].pc = "download" /\ th'[r].key = k /\ th'[r].todo = th[r].todo /\ OthersStay(r)
    BY <1>1, <1>2, <2>1 DEF Tasks, OthersStay
  <2>3. Progress(entries, meta, fsmap, cooling, k, th'[r])
    BY <1>3, <2>2, InOrder
  <2> QED
    BY <1>1, <1>2, <1>4, <2>2, <2>3, SeqGoes
<1> QED
  BY <1>5, <1>6

\* The call is free: nobody else is at work.
LEMMA DoSeq ==
  ASSUME Sequential, IInv, Owned, SeqInv, NEW r \in Requests, Do(r)
  PROVE  SeqInv'
<1>1. /\ th \in [Procs -> Tasks] /\ th[r] \in Tasks /\ r \in Procs /\ th[r].pc = "do" /\ InTurn(r)
      /\ th[r].key \in Keys /\ Requests = {r}
  BY SeqFacts DEF Do, Pc
<1>2. flight[th[r].key] = None
  <2>1. flight[th[r].key] \in Opt(Requests)
    BY <1>1 DEF IInv, Threads
  <2>2. flight[th[r].key] # r
    BY <1>1, Roles DEF IInv, Threads, Flights, Pc, InCall
  <2> QED
    BY <1>1, <2>1, <2>2 DEF Opt
<1>3. th' = [th EXCEPT ![r].pc = "resolve"]
  BY <1>2 DEF Do, Goto, Key
<1>4. /\ th'[r].pc = "resolve" /\ th'[r].key = th[r].key /\ th'[r].todo = th[r].todo
      /\ OthersStay(r)
  BY <1>1, <1>3 DEF Tasks, OthersStay
<1>5. Settled(entries, meta, fsmap, cooling, th[r].key)
  BY <1>1 DEF InTurn, Progress, Settled, Unnamed, Unlinked, Unpaused
<1>6. Progress(entries, meta, fsmap, cooling, th[r].key, th'[r])
  BY <1>4, <1>5, InOrder
<1>7. Untouched
  BY DEF Do, Untouched, caches
<1> QED
  BY <1>1, <1>4, <1>6, <1>7, SeqGoes

\* A resolve fails, finds the PR closed, or finds an artifact.
LEMMA ResolveSeq ==
  ASSUME Sequential, IInv, Owned, SeqInv, NEW r \in Requests, Resolve(r)
  PROVE  SeqInv'
<1>1. /\ th \in [Procs -> Tasks] /\ th[r] \in Tasks /\ r \in Procs /\ th[r].pc = "resolve" /\ InTurn(r)
      /\ th[r].key \in Keys /\ Task(r, th[r])
  BY SeqFacts DEF Resolve, Pc
<1>2. PICK k \in Keys : k = th[r].key
  BY <1>1
<1>3. Settled(entries, meta, fsmap, cooling, k)
  BY <1>1, <1>2 DEF InTurn, Progress, Settled, Unnamed, Unlinked, Unpaused
<1>4. th[r].op \in {"serve", "refresh"}
  BY <1>1, Resolver, Roles DEF Task
<1>5. /\ UNCHANGED meta /\ UNCHANGED entries /\ UNCHANGED open /\ UNCHANGED fsmap
  BY DEF Resolve, caches
<1>6. CASE Return(r, FALSE) /\ Cool(r, FALSE)
  <2> QED
    BY <1>1, <1>2, <1>3, <1>4, <1>5, <1>6, SeqFails
<1>7. CASE /\ UNCHANGED cooling
           /\ \/ Goto(r, "evget")
              \/ \E i \in ArtifactsOf[k], v \in {"head", "listing"} :
                   th' = [th EXCEPT ![r].pc = "guard", ![r].id = i, ![r].via = v]
  <2>1. /\ th'[r].pc \in {"evget", "guard"} /\ th'[r].key = k /\ th'[r].todo = th[r].todo
        /\ OthersStay(r)
    <3>1. CASE Goto(r, "evget")
      BY <1>1, <1>2, <3>1 DEF Goto, Tasks, OthersStay
    <3>2. CASE \E i \in ArtifactsOf[k], v \in {"head", "listing"} :
                 th' = [th EXCEPT ![r].pc = "guard", ![r].id = i, ![r].via = v]
      BY <1>1, <1>2, <3>2 DEF Tasks, OthersStay
    <3> QED
      BY <1>7, <3>1, <3>2
  <2>2. Progress(entries, meta, fsmap, cooling, k, th'[r])
    BY <1>3, <2>1, InOrder
  <2> QED
    BY <1>1, <1>2, <1>5, <1>7, <2>1, <2>2, SeqGoes DEF Untouched
<1> QED
  BY <1>2, <1>6, <1>7 DEF Resolve, Key

\* The guard against a stale listing changes nothing.
LEMMA GuardSeq ==
  ASSUME Sequential, IInv, Owned, SeqInv, NEW r \in Requests, Guard(r)
  PROVE  SeqInv'
<1>1. /\ th \in [Procs -> Tasks] /\ th[r] \in Tasks /\ r \in Procs /\ th[r].pc = "guard" /\ InTurn(r)
      /\ th[r].key \in Keys
  BY SeqFacts DEF Guard, Pc
<1>2. PICK x : x = IF Older(r) THEN "keep" ELSE "have"
  OBVIOUS
<1>3. PICK s : s = IF Older(r) THEN meta[Key(r)].id ELSE None
  OBVIOUS
<1>4. th' = [th EXCEPT ![r].pc = x, ![r].seen = s] /\ x \in {"keep", "have"}
  BY <1>2, <1>3 DEF Guard
<1>5. /\ th'[r].pc = x /\ th'[r].key = th[r].key /\ th'[r].todo = th[r].todo /\ OthersStay(r)
  BY <1>1, <1>4 DEF Tasks, OthersStay
<1>6. Settled(entries, meta, fsmap, cooling, th[r].key)
  BY <1>1 DEF InTurn, Progress, Settled, Unnamed, Unlinked, Unpaused
<1>7. Progress(entries, meta, fsmap, cooling, th[r].key, th'[r])
  BY <1>4, <1>5, <1>6, InOrder
<1>8. Untouched
  BY DEF Guard, Untouched, caches
<1> QED
  BY <1>1, <1>4, <1>5, <1>7, <1>8, SeqGoes

\* What is already cached is on its way into the metadata and the map.
LEMMA InstallSeq ==
  ASSUME Sequential, IInv, Owned, SeqInv, NEW r \in Requests, NEW i,
         NEW else \in {"have", "download"}, th[r].pc \in {"keep", "have"},
         InstallCached(r, i, else)
  PROVE  SeqInv'
<1>1. /\ th \in [Procs -> Tasks] /\ th[r] \in Tasks /\ r \in Procs /\ InTurn(r)
      /\ th[r].key \in Keys
  BY SeqFacts
<1>2. Settled(entries, meta, fsmap, cooling, th[r].key)
  BY <1>1 DEF InTurn, Progress, Settled, Unnamed, Unlinked, Unpaused
<1>3. Untouched
  BY DEF InstallCached, Untouched, AC!Get
<1>4. CASE i \in AC!Cached
  <2>1. th' = [th EXCEPT ![r] =
                 [th[r] EXCEPT !.pc = "setmeta", !.id = i, !.seen = None, !.fs = entries[i]]]
    BY <1>1, <1>4 DEF InstallCached
  <2>2. /\ th'[r].pc = "setmeta" /\ th'[r].id = i /\ th'[r].fs = entries[i]
        /\ th'[r].key = th[r].key /\ th'[r].todo = th[r].todo /\ OthersStay(r)
    BY <1>1, <2>1 DEF Tasks, OthersStay
  <2>3. Progress(entries, meta, fsmap, cooling, th[r].key, th'[r])
    BY <1>2, <2>2 DEF Progress, Settled, Paused, Unnamed, Unlinked, Unpaused
  <2> QED
    BY <1>1, <1>3, <2>2, <2>3, SeqGoes
<1>5. CASE i \notin AC!Cached
  <2>1. th' = [th EXCEPT ![r] = [th[r] EXCEPT !.pc = else, !.seen = None]]
    BY <1>1, <1>5 DEF InstallCached
  <2>2. /\ th'[r].pc = else /\ th'[r].key = th[r].key /\ th'[r].todo = th[r].todo
        /\ OthersStay(r)
    BY <1>1, <2>1 DEF Tasks, OthersStay
  <2>3. Progress(entries, meta, fsmap, cooling, th[r].key, th'[r])
    BY <1>2, <2>2, InOrder
  <2> QED
    BY <1>1, <1>3, <2>2, <2>3, SeqGoes
<1> QED
  BY <1>4, <1>5

\* The two ways to such an installation.
LEMMA CachedSeq ==
  ASSUME Sequential, IInv, Owned, SeqInv, NEW r \in Requests, Keep(r) \/ Have(r)
  PROVE  SeqInv'
BY InstallSeq DEF Keep, Have, Pc

\* A new file joins those of the cache.
LEMMA FilesOpened ==
  ASSUME NEW E, NEW O, NEW h, NEW t, NEW u, Files(E, O, t), t.pc # "store",
         u.pc = "store", u.fs = h, u.id = h[1], u.todo = t.todo,
         \A i \in Ids : E[i] # h
  PROVE  Files(E, O \cup {h}, u)
BY DEF Files

\* A download fails, or opens a file that nothing refers to.
LEMMA DownloadSeq ==
  ASSUME Sequential, IInv, Owned, SeqInv, NEW r \in Requests, Download(r)
  PROVE  SeqInv'
<1>1. /\ th \in [Procs -> Tasks] /\ th[r] \in Tasks /\ r \in Procs /\ th[r].pc = "download" /\ InTurn(r)
      /\ th[r].key \in Keys
  BY SeqFacts DEF Download, Pc
<1>2. PICK k \in Keys : k = th[r].key
  BY <1>1
<1>3. Settled(entries, meta, fsmap, cooling, k)
  BY <1>1, <1>2 DEF InTurn, Progress, Settled, Unnamed, Unlinked, Unpaused
<1>4. /\ UNCHANGED meta /\ UNCHANGED entries /\ UNCHANGED fsmap
  BY DEF Download
<1>5. CASE Return(r, FALSE) /\ Cool(r, FALSE) /\ UNCHANGED open
  <2>1. th[r].op \in {"serve", "refresh"}
    <3>1. /\ th[r].op \in {"serve", "refresh", "background"}
      BY <1>1, Resolver, Roles
    <3>2. th[r].op # "background"
      BY SeqFacts, Roles DEF Task
    <3> QED
      BY <3>1, <3>2
  <2> QED
    BY <1>1, <1>2, <1>3, <1>4, <1>5, <2>1, SeqFails
<1>6. CASE /\ UNCHANGED cooling
           /\ \E c \in Copies :
                LET h == <<th[r].id, c>> IN
                /\ h \notin InUse
                /\ th' = [th EXCEPT ![r].pc = "store", ![r].fs = h]
                /\ open' = open \cup {h}
  <2>1. PICK c \in Copies :
           LET h == <<th[r].id, c>> IN
                /\ h \notin InUse
                /\ th' = [th EXCEPT ![r].pc = "store", ![r].fs = h]
                /\ open' = open \cup {h}
    BY <1>6
  <2>2. PICK h : h = <<th[r].id, c>>
    OBVIOUS
  <2>3. /\ h \notin InUse /\ h[1] = th[r].id
        /\ th' = [th EXCEPT ![r].pc = "store", ![r].fs = h]
        /\ open' = open \cup {h}
    BY <2>1, <2>2
  <2>4. /\ th'[r].pc = "store" /\ th'[r].key = k /\ th'[r].todo = th[r].todo
        /\ th'[r].fs = h /\ th'[r].id = h[1] /\ OthersStay(r)
    BY <1>1, <1>2, <2>3 DEF Tasks, OthersStay
  <2>5. h # None
    <3>1. th[r].id \in Ids
      BY <1>1, SeqFacts DEF Prepared, Tasks, Opt
    <3>2. h \in Handles
      BY <2>2, <3>1 DEF Handles
    <3> QED
      BY <3>2, Roles
  <2>6. \A i \in Ids : entries[i] # h
    BY <2>3, <2>5 DEF InUse, AC!CachedHandles, AC!Cached
  <2>7. Files(entries', open', th'[r])
    BY <1>1, <1>4, <2>3, <2>4, <2>6, FilesOpened DEF InTurn
  <2>8. Progress(entries', meta', fsmap', cooling', k, th'[r])
    BY <1>3, <1>4, <1>6, <2>4, InOrder
  <2> QED
    BY <1>2, <1>4, <1>6, <2>4, <2>7, <2>8, SeqMove
<1> QED
  BY <1>5, <1>6 DEF Download

\* What the cache keeps is not among the files it gives up.
LEMMA FilesStored ==
  ASSUME NEW E \in [Ids -> Opt(Handles)], NEW O, NEW t, NEW u, Files(E, O, t),
         \A i \in Ids : E[i] # None => E[i][1] = i,
         t.pc = "store", t.id \in Ids, t.fs # None, u.pc # "store",
         NEW V \in SUBSET {i \in Ids : E[i] # None}, u.todo = {E[v] : v \in V},
         NEW E2, E2 = [j \in Ids |-> IF j = t.id THEN t.fs ELSE IF j \in V THEN None ELSE E[j]]
  PROVE  Files(E2, O, u)
<1>1. ASSUME NEW i \in Ids, E2[i] # None PROVE E2[i] \in O /\ E2[i] \notin u.todo
  <2>1. CASE i = t.id
    BY <2>1 DEF Files
  <2>2. CASE i # t.id
    <3>1. E2[i] = E[i] /\ i \notin V /\ E[i] # None
      BY <1>1, <2>2
    <3>2. \A v \in V : E[v] # E[i]
      BY <3>1
    <3> QED
      BY <3>1, <3>2 DEF Files
  <2> QED
    BY <2>1, <2>2
<1> QED
  BY <1>1 DEF Files

\* The new artifact is cached; artifacts of any key may be given up for it.
LEMMA StoreSeq ==
  ASSUME Sequential, IInv, Owned, SeqInv, NEW r \in Requests, Store(r)
  PROVE  SeqInv'
<1>1. /\ th \in [Procs -> Tasks] /\ th[r] \in Tasks /\ r \in Procs /\ th[r].pc = "store" /\ InTurn(r)
      /\ th[r].key \in Keys /\ OwnTask(th[r]) /\ Prepared(th[r])
  BY SeqFacts DEF Store, Pc
<1>2. PICK k \in Keys : k = th[r].key
  BY <1>1
<1>3. Settled(entries, meta, fsmap, cooling, k)
  BY <1>1, <1>2 DEF InTurn, Progress, Settled, Unnamed, Unlinked, Unpaused
<1>4. /\ UNCHANGED meta /\ UNCHANGED open /\ UNCHANGED fsmap /\ UNCHANGED cooling
  BY DEF Store
<1>5. /\ th[r].id \in ArtifactsOf[k] /\ th[r].id \in Ids /\ th[r].fs # None
      /\ entries \in [Ids -> Opt(Handles)]
      /\ \A i \in Ids : entries[i] # None => entries[i][1] = i
      /\ \A j \in Keys : ArtifactsOf[j] \subseteq Ids
  BY <1>1, <1>2, Roles, Facts DEF OwnTask, Prepared, IInv, CacheData
<1>6. PICK V \in SUBSET AC!Cached :
        /\ AC!Put(th[r].id, th[r].fs, V)
        /\ th' = [th EXCEPT ![r].pc = IF V = {} THEN "setmeta" ELSE "clean",
                            ![r].todo = AC!Cleanups(V)]
  BY DEF Store
<1>7. PICK x : x = IF V = {} THEN "setmeta" ELSE "clean"
  OBVIOUS
<1>8. PICK w : w = {entries[v] : v \in V}
  OBVIOUS
<1>9. w = AC!Cleanups(V)
  BY <1>8 DEF AC!Cleanups
<1>10. th' = [th EXCEPT ![r].pc = x, ![r].todo = w] /\ x \in {"setmeta", "clean"}
  BY <1>6, <1>7, <1>9
<1>11. /\ th'[r].pc = x /\ th'[r].key = k /\ th'[r].todo = w /\ th'[r].fs = th[r].fs
       /\ th'[r].id = th[r].id /\ OthersStay(r)
  BY <1>1, <1>2, <1>10 DEF Tasks, OthersStay
<1>12. entries' = [j \in Ids |-> IF j = th[r].id THEN th[r].fs
                                 ELSE IF j \in V THEN None ELSE entries[j]]
  BY <1>6 DEF AC!Put
<1>13. V \in SUBSET {i \in Ids : entries[i] # None}
  BY DEF AC!Cached
<1>14. Files(entries', open', th'[r])
  <2>1. Files(entries, open, th[r])
    BY <1>1 DEF InTurn
  <2>2. th'[r].pc # "store" /\ th'[r].todo = {entries[v] : v \in V}
    BY <1>8, <1>10, <1>11
  <2>3. Files(entries', open, th'[r])
    BY <1>1, <1>5, <1>12, <1>13, <2>1, <2>2, FilesStored
  <2> QED
    BY <1>4, <2>3
<1>15. Progress(entries', meta', fsmap', cooling', k, th'[r])
  <2>1. entries'[th'[r].id] = th'[r].fs
    BY <1>5, <1>11, <1>12
  <2> QED
    BY <1>3, <1>4, <1>10, <1>11, <2>1 DEF Progress, Settled, Paused, Unnamed, Unlinked, Unpaused
<1>16. \A j \in Keys \ {k} : \A i \in ArtifactsOf[j] : entries'[i] \in {entries[i], None}
  <2>1. \A j \in Keys \ {k} : th[r].id \notin ArtifactsOf[j]
    BY <1>5 DEF Sequential
  <2> QED
    BY <1>5, <1>12, <2>1
<1>17. th'[r].pc \notin {"swr", "trigger", "wait"}
  BY <1>10, <1>11
<1> QED
  BY <1>2, <1>4, <1>11, <1>14, <1>15, <1>16, <1>17, SeqMove

\* The files given up are closed.
LEMMA FilesClosed ==
  ASSUME NEW E, NEW O, NEW t, NEW u, Files(E, O, t), u.pc # "store", u.todo = {}
  PROVE  Files(E, O \ t.todo, u)
BY DEF Files

LEMMA CleanSeq ==
  ASSUME Sequential, IInv, Owned, SeqInv, NEW r \in Requests, Clean(r)
  PROVE  SeqInv'
<1>1. /\ th \in [Procs -> Tasks] /\ th[r] \in Tasks /\ r \in Procs /\ th[r].pc = "clean" /\ InTurn(r)
      /\ th[r].key \in Keys
  BY SeqFacts DEF Clean, Pc
<1>2. PICK k \in Keys : k = th[r].key
  BY <1>1
<1>3. Progress(entries, meta, fsmap, cooling, k, th[r]) /\ Files(entries, open, th[r])
  BY <1>1, <1>2 DEF InTurn
<1>4. /\ UNCHANGED meta /\ UNCHANGED entries /\ UNCHANGED fsmap /\ UNCHANGED cooling
      /\ open' = open \ th[r].todo /\ th' = [th EXCEPT ![r].pc = "setmeta", ![r].todo = {}]
  BY DEF Clean
<1>5. /\ th'[r].pc = "setmeta" /\ th'[r].key = k /\ th'[r].todo = {} /\ th'[r].fs = th[r].fs
      /\ th'[r].id = th[r].id /\ OthersStay(r)
  BY <1>1, <1>2, <1>4 DEF Tasks, OthersStay
<1>6. Files(entries', open', th'[r])
  BY <1>3, <1>4, <1>5, FilesClosed
<1>7. Progress(entries', meta', fsmap', cooling', k, th'[r])
  BY <1>1, <1>3, <1>4, <1>5 DEF Progress, Unnamed, Unlinked, Unpaused
<1> QED
  BY <1>2, <1>4, <1>5, <1>6, <1>7, SeqMove

\* A step of r that changes the metadata or the map, but no file.
LEMMA SeqSets ==
  ASSUME Sequential, IInv, Owned, SeqInv, NEW r \in Requests, NEW k \in Keys, k = th[r].key,
         OthersStay(r), UNCHANGED entries, UNCHANGED open,
         \A j \in Keys \ {k} : /\ meta'[j] = meta[j] /\ fsmap'[j] = fsmap[j]
                               /\ j \in cooling' => j \in cooling,
         th'[r].pc \notin {"swr", "trigger", "wait", "store"},
         th'[r].todo = {} \/ th'[r].todo = th[r].todo,
         \/ th'[r].key = k /\ Progress(entries, meta', fsmap', cooling', k, th'[r])
         \/ th'[r].key = None /\ Settled(entries, meta', fsmap', cooling', k)
  PROVE  SeqInv'
<1>1. InTurn(r)
  BY SeqFacts
<1>2. Files(entries', open', th'[r])
  BY <1>1 DEF InTurn, Files
<1> QED
  BY <1>2, SeqMove

\* What r has of its key.
LEMMA SeqKey ==
  ASSUME Sequential, IInv, Owned, SeqInv, NEW r \in Requests, th[r].pc # "idle"
  PROVE  /\ th[r].key \in Keys
         /\ Progress(entries, meta, fsmap, cooling, th[r].key, th[r])
         /\ Files(entries, open, th[r])
         /\ th[r] \in Tasks /\ th \in [Procs -> Tasks] /\ r \in Procs
         /\ meta \in [Keys -> Opt([id : Ids, fresh : BOOLEAN])]
         /\ fsmap \in [Keys -> Opt(Handles)]
BY SeqFacts DEF InTurn, IInv, Books

\* From here to registerFs the map is behind the metadata.
LEMMA SetMetaSeq ==
  ASSUME Sequential, IInv, Owned, SeqInv, NEW r \in Requests, SetMeta(r)
  PROVE  SeqInv'
<1>1. th[r].pc = "setmeta"
  BY DEF SetMeta, Pc
<1>2. PICK k \in Keys : k = th[r].key
  BY <1>1, SeqKey
<1>3. Progress(entries, meta, fsmap, cooling, k, th[r])
  BY <1>1, <1>2, SeqKey
<1>4. PICK m : m = [id |-> th[r].id, fresh |-> TRUE]
  OBVIOUS
<1>5. m.id = th[r].id /\ m.fresh /\ m # None
  <2>1. th[r].id \in Ids
    BY <1>1, SeqFacts DEF Prepared, Tasks, Opt
  <2>2. m \in [id : Ids, fresh : BOOLEAN]
    BY <1>4, <2>1
  <2> QED
    BY <1>4, <2>2, NoneAssumption
<1>6. /\ meta' = [meta EXCEPT ![k] = m] /\ th' = [th EXCEPT ![r].pc = "register"]
      /\ UNCHANGED entries /\ UNCHANGED open /\ UNCHANGED fsmap /\ UNCHANGED cooling
  BY <1>2, <1>4 DEF SetMeta, Goto, Key, caches
<1>7. /\ th'[r].pc = "register" /\ th'[r].key = k /\ th'[r].todo = th[r].todo
      /\ th'[r].fs = th[r].fs /\ th'[r].id = th[r].id /\ OthersStay(r)
  BY <1>1, <1>2, <1>6, SeqKey DEF Tasks, OthersStay
<1>8. /\ meta'[k] = m /\ \A j \in Keys \ {k} : meta'[j] = meta[j]
  BY <1>1, <1>6, SeqKey
<1>9. Progress(entries, meta', fsmap', cooling', k, th'[r])
  BY <1>1, <1>3, <1>5, <1>6, <1>7, <1>8 DEF Progress, Paused, Unnamed, Unlinked, Unpaused
<1> QED
  BY <1>2, <1>6, <1>7, <1>8, <1>9, SeqSets

\* After the registration of what the metadata name, the key is in order.
LEMMA Registers ==
  ASSUME NEW E, NEW M, NEW F, NEW C, NEW k, Paused(E, M, C, k), Known(E, M, k),
         F[k] = E[M[k].id], E[M[k].id][1] = M[k].id
  PROVE  Settled(E, M, F, C, k)
BY DEF Settled, Named, Linked, Known

\* registerFs: the key is in order again, and its pause over.
LEMMA RegisterSeq ==
  ASSUME Sequential, IInv, Owned, SeqInv, NEW r \in Requests, Register(r)
  PROVE  SeqInv'
<1>1. th[r].pc = "register"
  BY DEF Register, Pc
<1>2. PICK k \in Keys : k = th[r].key
  BY <1>1, SeqKey
<1>3. Progress(entries, meta, fsmap, cooling, k, th[r])
  BY <1>1, <1>2, SeqKey
<1>4. /\ fsmap' = [fsmap EXCEPT ![k] = th[r].fs] /\ Return(r, TRUE) /\ Cool(r, TRUE)
      /\ UNCHANGED entries /\ UNCHANGED open /\ UNCHANGED meta
  BY <1>2 DEF Register, Key, caches
<1>5. th[r].op \in {"serve", "refresh"}
  <2>1. th[r].op \in {"serve", "refresh", "background"} /\ r \in Procs
    BY <1>1, Resolver, Roles
  <2>2. th[r].op # "background"
    BY SeqFacts, Roles DEF Task
  <2> QED
    BY <2>1, <2>2
<1>6. PICK x \in {"serve", "report"} : th' = [th EXCEPT ![r] = Answer(th[r], x)]
  BY <1>4, <1>5, SeqReturn
<1>7. th'[r].pc = x /\ th'[r].key = k /\ th'[r].todo = {} /\ OthersStay(r)
  BY <1>1, <1>2, <1>6, SeqKey, AnswerIs DEF OthersStay
<1>8. fsmap'[k] = th[r].fs /\ \A j \in Keys \ {k} : fsmap'[j] = fsmap[j]
  BY <1>1, <1>4, SeqKey
<1>9. /\ cooling' \subseteq cooling
  BY <1>4 DEF Cool
<1>10. /\ meta[k] # None /\ meta[k].id = th[r].id /\ entries[th[r].id] = th[r].fs
       /\ Paused(entries, meta, cooling, k)
  BY <1>1, <1>3 DEF Progress, Unpaused
<1>11. /\ Known(entries, meta, k) /\ entries[meta[k].id][1] = meta[k].id
  <2>1. th[r].fs # None /\ th[r].id \in Ids
    BY <1>1, SeqFacts DEF Prepared, Tasks, Opt
  <2>2. \A i \in Ids : entries[i] # None => entries[i][1] = i
    BY SeqFacts, Facts
  <2> QED
    BY <1>10, <2>1, <2>2 DEF Known
<1>12. Settled(entries, meta, fsmap', cooling', k)
  <2>1. Paused(entries, meta, cooling', k)
    BY <1>9, <1>10 DEF Paused
  <2> QED
    BY <1>8, <1>10, <1>11, <2>1, Registers
<1>13. Progress(entries, meta', fsmap', cooling', k, th'[r])
  BY <1>4, <1>6, <1>7, <1>11, <1>12, InOrder
<1> QED
  BY <1>2, <1>4, <1>6, <1>7, <1>8, <1>9, <1>13, SeqSets

\* After a failed resolve: is there a last good artifact, ...
LEMMA ErrGetSeq ==
  ASSUME Sequential, IInv, Owned, SeqInv, NEW r \in Requests, ErrGet(r)
  PROVE  SeqInv'
<1>1. th[r].pc = "errget"
  BY DEF ErrGet, Pc
<1>2. PICK k \in Keys : k = th[r].key
  BY <1>1, SeqKey
<1>3. Progress(entries, meta, fsmap, cooling, k, th[r])
  BY <1>1, <1>2, SeqKey
<1>4. PICK x : x = IF meta[k] = None THEN "fail" ELSE "errart"
  OBVIOUS
<1>5. PICK i : i = IF meta[k] = None THEN None ELSE meta[k].id
  OBVIOUS
<1>6. th' = [th EXCEPT ![r].pc = x, ![r].seen = i] /\ Untouched
  BY <1>2, <1>4, <1>5 DEF ErrGet, Key, Untouched, caches
<1>7. /\ th'[r].pc = x /\ th'[r].seen = i /\ th'[r].key = k /\ th'[r].todo = th[r].todo
      /\ OthersStay(r)
  BY <1>1, <1>2, <1>6, SeqKey DEF Tasks, OthersStay
<1>8. Progress(entries, meta, fsmap, cooling, k, th'[r])
  <2>1. CASE meta[k] = None
    <3>1. x = "fail"
      BY <1>4, <2>1
    <3>2. Settled(entries, meta, fsmap, cooling, k)
      BY <1>1, <1>3, <2>1 DEF Progress, Settled, Paused, Unnamed, Unlinked
    <3> QED
      BY <1>7, <3>1, <3>2, InOrder
  <2>2. CASE meta[k] # None
    <3>1. x = "errart" /\ i = meta[k].id
      BY <1>4, <1>5, <2>2
    <3> QED
      BY <1>1, <1>3, <1>7, <2>2, <3>1 DEF Progress, Unnamed, Unlinked, Unpaused
  <2> QED
    BY <2>1, <2>2
<1>9. x \in {"fail", "errart"}
  BY <1>4
<1> QED
  BY <1>2, <1>6, <1>7, <1>8, <1>9, SeqGoes

\* ... is it still cached, ...
LEMMA ErrArtSeq ==
  ASSUME Sequential, IInv, Owned, SeqInv, NEW r \in Requests, ErrArt(r)
  PROVE  SeqInv'
<1>1. th[r].pc = "errart"
  BY DEF ErrArt, Pc
<1>2. PICK k \in Keys : k = th[r].key
  BY <1>1, SeqKey
<1>3. /\ Progress(entries, meta, fsmap, cooling, k, th[r])
      /\ meta[k] # None /\ th[r].seen = meta[k].id /\ meta[k].id \in Ids
  BY <1>1, <1>2, SeqKey, Facts, Roles DEF Progress
<1>4. PICK x : x = IF th[r].seen \in AC!Cached THEN "errtouch" ELSE "fail"
  OBVIOUS
<1>5. th' = [th EXCEPT ![r].pc = x, ![r].fs = entries[meta[k].id], ![r].seen = None] /\ Untouched
  BY <1>3, <1>4 DEF ErrArt, Untouched, AC!Get
<1>6. /\ th'[r].pc = x /\ th'[r].fs = entries[meta[k].id] /\ th'[r].key = k
      /\ th'[r].todo = th[r].todo /\ OthersStay(r)
  BY <1>1, <1>2, <1>5, SeqKey DEF Tasks, OthersStay
<1>7. Progress(entries, meta, fsmap, cooling, k, th'[r])
  <2>1. CASE entries[meta[k].id] # None
    <3>1. x = "errtouch"
      BY <1>3, <1>4, <2>1 DEF AC!Cached
    <3> QED
      BY <1>1, <1>3, <1>6, <2>1, <3>1 DEF Progress, Known, Unnamed, Unlinked, Unpaused
  <2>2. CASE entries[meta[k].id] = None
    <3>1. x = "fail"
      BY <1>3, <1>4, <2>2 DEF AC!Cached
    <3>2. Settled(entries, meta, fsmap, cooling, k)
      BY <1>1, <1>3, <2>2 DEF Progress, Settled, Paused, Unnamed, Unlinked
    <3> QED
      BY <1>6, <3>1, <3>2, InOrder
  <2> QED
    BY <2>1, <2>2
<1>8. x \in {"errtouch", "fail"}
  BY <1>4
<1> QED
  BY <1>2, <1>5, <1>6, <1>7, <1>8, SeqGoes

\* ... then it counts as fresh for another TTL, ...
LEMMA ErrTouchSeq ==
  ASSUME Sequential, IInv, Owned, SeqInv, NEW r \in Requests, ErrTouch(r)
  PROVE  SeqInv'
<1>1. th[r].pc = "errtouch"
  BY DEF ErrTouch, Pc
<1>2. PICK k \in Keys : k = th[r].key
  BY <1>1, SeqKey
<1>3. /\ Progress(entries, meta, fsmap, cooling, k, th[r])
      /\ meta[k] # None /\ meta[k] \in [id : Ids, fresh : BOOLEAN]
  BY <1>1, <1>2, SeqKey DEF Progress, Known, Opt
<1>4. PICK m : m = [meta[k] EXCEPT !.fresh = TRUE]
  OBVIOUS
<1>5. m.id = meta[k].id /\ m.fresh /\ m # None
  BY <1>3, <1>4, NoneAssumption
<1>6. /\ meta' = [meta EXCEPT ![k] = m] /\ th' = [th EXCEPT ![r].pc = "errreg"]
      /\ UNCHANGED entries /\ UNCHANGED open /\ UNCHANGED fsmap /\ UNCHANGED cooling
  BY <1>2, <1>3, <1>4 DEF ErrTouch, Goto, Key, caches
<1>7. /\ th'[r].pc = "errreg" /\ th'[r].key = k /\ th'[r].todo = th[r].todo
      /\ th'[r].fs = th[r].fs /\ OthersStay(r)
  BY <1>1, <1>2, <1>6, SeqKey DEF Tasks, OthersStay
<1>8. /\ meta'[k] = m /\ \A j \in Keys \ {k} : meta'[j] = meta[j]
  BY <1>1, <1>6, SeqKey
<1>9. Progress(entries, meta', fsmap', cooling', k, th'[r])
  BY <1>1, <1>3, <1>5, <1>6, <1>7, <1>8
     DEF Progress, Named, Linked, Known, Paused, Unnamed, Unlinked, Unpaused
<1> QED
  BY <1>2, <1>6, <1>7, <1>8, <1>9, SeqSets

\* ... and is served.
LEMMA ErrRegSeq ==
  ASSUME Sequential, IInv, Owned, SeqInv, NEW r \in Requests, ErrReg(r)
  PROVE  SeqInv'
<1>1. th[r].pc = "errreg"
  BY DEF ErrReg, Pc
<1>2. PICK k \in Keys : k = th[r].key
  BY <1>1, SeqKey
<1>3. /\ Known(entries, meta, k) /\ entries[meta[k].id] = th[r].fs
      /\ Paused(entries, meta, cooling, k)
  BY <1>1, <1>2, SeqKey DEF Progress, Unpaused
<1>4. /\ fsmap' = [fsmap EXCEPT ![k] = th[r].fs] /\ th' = [th EXCEPT ![r] = Answer(th[r], "serve")]
      /\ UNCHANGED entries /\ UNCHANGED open /\ UNCHANGED meta /\ UNCHANGED cooling
  BY <1>1, <1>2, SeqKey DEF ErrReg, Key, caches
<1>5. /\ th'[r].pc = "serve" /\ th'[r].key = k /\ th'[r].todo = {} /\ OthersStay(r)
  BY <1>1, <1>2, <1>4, SeqKey, AnswerIs DEF OthersStay
<1>6. fsmap'[k] = th[r].fs /\ \A j \in Keys \ {k} : fsmap'[j] = fsmap[j]
  BY <1>1, <1>4, SeqKey
<1>7. entries[meta[k].id][1] = meta[k].id
  BY <1>3, SeqFacts, Facts DEF Known
<1>8. Settled(entries, meta, fsmap', cooling, k)
  BY <1>3, <1>6, <1>7, Registers
<1>9. Progress(entries, meta', fsmap', cooling', k, th'[r])
  BY <1>3, <1>4, <1>5, <1>8, InOrder
<1> QED
  BY <1>2, <1>4, <1>5, <1>6, <1>9, SeqSets

\* The refresh API reads again what has been cached.
LEMMA ReportSeq ==
  ASSUME Sequential, IInv, Owned, SeqInv, NEW r \in Requests, Report(r)
  PROVE  SeqInv'
<1>1. th[r].pc = "report"
  BY DEF Report, Pc
<1>2. PICK k \in Keys : k = th[r].key
  BY <1>1, SeqKey
<1>3. /\ Known(entries, meta, k) /\ Settled(entries, meta, fsmap, cooling, k)
  BY <1>1, <1>2, SeqKey DEF Progress, Settled, Unnamed, Unlinked, Unpaused
<1>4. PICK x \in {"reported", "conflict"} : th' = [th EXCEPT ![r].pc = x, ![r].seen = meta[k].id]
  <2>1. meta[k] # None
    BY <1>3 DEF Known
  <2>2. PICK i : i = IF meta[k] = None THEN None ELSE meta[k].id
    OBVIOUS
  <2>3. PICK e \in Opt(Ids) :
          th' = [th EXCEPT ![r].pc = IF e \in {None, i} THEN "reported" ELSE "conflict",
                           ![r].seen = i]
    BY <1>2, <2>2 DEF Report, Key
  <2>4. PICK x : x = IF e \in {None, i} THEN "reported" ELSE "conflict"
    OBVIOUS
  <2> QED
    BY <2>1, <2>2, <2>3, <2>4
<1>5. /\ th'[r].pc = x /\ th'[r].seen = meta[k].id /\ th'[r].key = k /\ th'[r].todo = th[r].todo
      /\ OthersStay(r)
  BY <1>1, <1>2, <1>4, SeqKey DEF Tasks, OthersStay
<1>6. Progress(entries, meta, fsmap, cooling, k, th'[r])
  BY <1>3, <1>4, <1>5 DEF Progress, Settled, Paused, Unnamed, Unlinked, Unpaused
<1>7. Untouched
  BY DEF Report, Untouched, caches
<1> QED
  BY <1>2, <1>4, <1>5, <1>6, <1>7, SeqGoes

\* The response is written.
LEMMA RespondSeq ==
  ASSUME Sequential, IInv, Owned, SeqInv, NEW r \in Requests, Respond(r)
  PROVE  SeqInv'
<1>1. th[r].pc \in {"serve", "reported", "conflict", "fail"}
  BY DEF Respond, Pc
<1>2. th[r].key \in Keys /\ Settled(entries, meta, fsmap, cooling, th[r].key)
  BY <1>1, SeqKey DEF Progress, Settled, Unnamed, Unlinked, Unpaused
<1>3. Untouched /\ th' = [th EXCEPT ![r] = NoTask]
  BY DEF Respond, Untouched, caches
<1> QED
  BY <1>2, <1>3, SeqAnswer

\* evictKey: from the metadata to the artifact, ...
LEMMA EvGetSeq ==
  ASSUME Sequential, IInv, Owned, SeqInv, NEW r \in Requests, EvGet(r)
  PROVE  SeqInv'
<1>1. th[r].pc = "evget"
  BY DEF EvGet, Pc
<1>2. th[r].key \in Keys /\ Settled(entries, meta, fsmap, cooling, th[r].key)
  BY <1>1, SeqKey DEF Progress, Settled, Unnamed, Unlinked, Unpaused
<1>3. PICK x : x = IF meta[Key(r)] = None THEN "evmeta" ELSE "evart"
  OBVIOUS
<1>4. PICK i : i = IF meta[Key(r)] = None THEN None ELSE meta[Key(r)].id
  OBVIOUS
<1>5. th' = [th EXCEPT ![r].pc = x, ![r].seen = i] /\ x \in {"evmeta", "evart"}
  BY <1>3, <1>4 DEF EvGet
<1>6. /\ th'[r].pc = x /\ th'[r].key = th[r].key /\ th'[r].todo = th[r].todo /\ OthersStay(r)
  BY <1>1, <1>5, SeqKey DEF Tasks, OthersStay
<1>7. Progress(entries, meta, fsmap, cooling, th[r].key, th'[r])
  BY <1>2, <1>5, <1>6, InOrder
<1>8. Untouched
  BY DEF EvGet, Untouched, caches
<1> QED
  BY <1>2, <1>5, <1>6, <1>7, <1>8, SeqGoes

\* What stays in the cache is not the file of the artifact that goes.
LEMMA FilesDropped ==
  ASSUME NEW E \in [Ids -> Opt(Handles)], NEW O, NEW t, NEW u, Files(E, O, t),
         \A i \in Ids : E[i] # None => E[i][1] = i,
         NEW i \in Ids, u.pc # "store", u.todo = {E[v] : v \in {i} \cap {j \in Ids : E[j] # None}}
  PROVE  Files([E EXCEPT ![i] = None], O, u)
<1> DEFINE E2 == [E EXCEPT ![i] = None]
<1>1. ASSUME NEW j \in Ids, E2[j] # None PROVE E2[j] \in O /\ E2[j] \notin u.todo
  <2>1. j # i /\ E2[j] = E[j] /\ E[j] # None
    BY <1>1
  <2>2. E[i] # None => E[i] # E[j]
    BY <2>1
  <2> QED
    BY <2>1, <2>2 DEF Files
<1> QED
  BY <1>1 DEF Files

\* ... which leaves the cache with its file still to close, ...
LEMMA EvArtSeq ==
  ASSUME Sequential, IInv, Owned, SeqInv, NEW r \in Requests, EvArt(r)
  PROVE  SeqInv'
<1>1. th[r].pc = "evart" /\ th[r].op # "age"
  BY SeqFacts, Roles DEF EvArt, Pc, Task
<1>2. PICK k \in Keys : k = th[r].key
  BY <1>1, SeqKey
<1>3. Settled(entries, meta, fsmap, cooling, k) /\ Files(entries, open, th[r])
  BY <1>1, <1>2, SeqKey DEF Progress, Settled, Unnamed, Unlinked, Unpaused
<1>4. PICK i \in Ids : i = th[r].seen
  BY <1>1, SeqFacts DEF Prepared, Tasks, Opt
<1>5. /\ UNCHANGED meta /\ UNCHANGED open /\ UNCHANGED fsmap /\ UNCHANGED cooling
      /\ entries' = [entries EXCEPT ![i] = None]
      /\ entries \in [Ids -> Opt(Handles)]
      /\ \A j \in Ids : entries[j] # None => entries[j][1] = j
      /\ \A j \in Keys : ArtifactsOf[j] \subseteq Ids
  BY <1>4, SeqFacts, Facts DEF EvArt, AC!Drop, IInv, CacheData
<1>6. PICK x : x = IF i \in AC!Cached THEN "evclean" ELSE "evmeta"
  OBVIOUS
<1>7. PICK w : w = {entries[v] : v \in {i} \cap {j \in Ids : entries[j] # None}}
  OBVIOUS
<1>8. w = AC!Cleanups({i})
  BY <1>7 DEF AC!Cleanups, AC!Cached
<1>9. th' = [th EXCEPT ![r].pc = x, ![r].todo = w, ![r].seen = None] /\ x \in {"evclean", "evmeta"}
  BY <1>1, <1>4, <1>6, <1>8 DEF EvArt, AfterArt
<1>10. /\ th'[r].pc = x /\ th'[r].key = k /\ th'[r].todo = w /\ OthersStay(r)
  BY <1>1, <1>2, <1>9, SeqKey DEF Tasks, OthersStay
<1>11. Files(entries', open', th'[r])
  BY <1>3, <1>5, <1>7, <1>9, <1>10, FilesDropped
<1>12. Progress(entries', meta', fsmap', cooling', k, th'[r])
  <2>1. meta[k] # None => entries'[meta[k].id] \in {entries[meta[k].id], None}
    <3>1. meta[k] # None => meta[k].id \in Ids
      BY <1>1, SeqKey, SeqFacts, Facts
    <3> QED
      BY <1>5, <3>1
  <2>2. Settled(entries', meta', fsmap', cooling', k)
    BY <1>3, <1>5, <2>1 DEF Settled, Named, Linked, Paused, Known
  <2> QED
    BY <1>9, <1>10, <2>2, InOrder
<1>13. \A j \in Keys \ {k} : \A a \in ArtifactsOf[j] : entries'[a] \in {entries[a], None}
  BY <1>5
<1>14. th'[r].pc \notin {"swr", "trigger", "wait"}
  BY <1>9, <1>10
<1> QED
  BY <1>2, <1>5, <1>10, <1>11, <1>12, <1>13, <1>14, SeqMove

\* ... to its file, ...
LEMMA EvCleanSeq ==
  ASSUME Sequential, IInv, Owned, SeqInv, NEW r \in Requests, EvClean(r)
  PROVE  SeqInv'
<1>1. th[r].pc = "evclean" /\ th[r].op # "age"
  BY SeqFacts, Roles DEF EvClean, Pc, Task
<1>2. PICK k \in Keys : k = th[r].key
  BY <1>1, SeqKey
<1>3. Settled(entries, meta, fsmap, cooling, k) /\ Files(entries, open, th[r])
  BY <1>1, <1>2, SeqKey DEF Progress, Settled, Unnamed, Unlinked, Unpaused
<1>4. /\ UNCHANGED meta /\ UNCHANGED entries /\ UNCHANGED fsmap /\ UNCHANGED cooling
      /\ open' = open \ th[r].todo /\ th' = [th EXCEPT ![r].pc = "evmeta", ![r].todo = {}]
  BY <1>1 DEF EvClean, AfterArt
<1>5. /\ th'[r].pc = "evmeta" /\ th'[r].key = k /\ th'[r].todo = {} /\ OthersStay(r)
  BY <1>1, <1>2, <1>4, SeqKey DEF Tasks, OthersStay
<1>6. Files(entries', open', th'[r])
  BY <1>3, <1>4, <1>5, FilesClosed
<1>7. Progress(entries', meta', fsmap', cooling', k, th'[r])
  BY <1>3, <1>4, <1>5, InOrder
<1> QED
  BY <1>2, <1>4, <1>5, <1>6, <1>7, SeqMove

\* ... to the metadata: now the map is behind, ...
LEMMA EvMetaSeq ==
  ASSUME Sequential, IInv, Owned, SeqInv, NEW r \in Requests, EvMeta(r)
  PROVE  SeqInv'
<1>1. th[r].pc = "evmeta"
  BY DEF EvMeta, Pc
<1>2. PICK k \in Keys : k = th[r].key
  BY <1>1, SeqKey
<1>3. /\ meta' = [meta EXCEPT ![k] = None] /\ th' = [th EXCEPT ![r].pc = "evunreg"]
      /\ cooling' = cooling \ {k}
      /\ UNCHANGED entries /\ UNCHANGED open /\ UNCHANGED fsmap
  BY <1>2 DEF EvMeta, Goto, Key, caches
<1>4. /\ th'[r].pc = "evunreg" /\ th'[r].key = k /\ th'[r].todo = th[r].todo /\ OthersStay(r)
  BY <1>1, <1>2, <1>3, SeqKey DEF Tasks, OthersStay
<1>5. /\ meta'[k] = None /\ \A j \in Keys \ {k} : meta'[j] = meta[j]
  BY <1>1, <1>3, SeqKey
<1>6. Progress(entries, meta', fsmap', cooling', k, th'[r])
  BY <1>3, <1>4, <1>5 DEF Progress, Paused, Unnamed, Unlinked, Unpaused
<1> QED
  BY <1>2, <1>3, <1>4, <1>5, <1>6, SeqSets

\* ... until unregisterFs.
LEMMA EvUnregSeq ==
  ASSUME Sequential, IInv, Owned, SeqInv, NEW r \in Requests, EvUnreg(r)
  PROVE  SeqInv'
<1>1. th[r].pc = "evunreg" /\ th[r].op \in {"serve", "refresh", "evict"}
  BY SeqFacts, Roles DEF EvUnreg, Pc, Task
<1>2. PICK k \in Keys : k = th[r].key
  BY <1>1, SeqKey
<1>3. meta[k] = None /\ k \notin cooling
  BY <1>1, <1>2, SeqKey DEF Progress
<1>4. /\ fsmap' = [fsmap EXCEPT ![k] = None]
      /\ UNCHANGED entries /\ UNCHANGED open /\ UNCHANGED meta
  BY <1>2 DEF EvUnreg, Unregistered, Key, caches
<1>5. fsmap'[k] = None /\ \A j \in Keys \ {k} : fsmap'[j] = fsmap[j]
  BY <1>1, <1>4, SeqKey
<1>6. Settled(entries, meta, fsmap', cooling, k)
  BY <1>3, <1>5 DEF Settled, Named, Linked, Paused, Known
<1>7. CASE th[r].op \in {"serve", "refresh"}
  <2>1. Return(r, FALSE) /\ Cool(r, FALSE)
    BY <1>7 DEF EvUnreg
  <2> QED
    BY <1>2, <1>4, <1>5, <1>6, <1>7, <2>1, SeqFails
<1>8. CASE th[r].op = "evict"
  <2>1. th' = [th EXCEPT ![r] = NoTask] /\ UNCHANGED cooling
    BY <1>8 DEF EvUnreg
  <2>2. /\ th'[r].pc = "idle" /\ th'[r].key = None /\ th'[r].todo = {} /\ OthersStay(r)
    BY <1>1, <2>1, SeqKey, AnswerIs DEF OthersStay
  <2>3. Settled(entries, meta', fsmap', cooling', k)
    BY <1>4, <1>6, <2>1
  <2> QED
    BY <1>2, <1>4, <1>5, <2>1, <2>2, <2>3, SeqSets
<1> QED
  BY <1>1, <1>7, <1>8

\* The TTL runs out: the pause is over with it.
LEMMA ExpireSeq ==
  ASSUME Sequential, IInv, Owned, SeqInv, NEW k \in Keys, Expire(k)
  PROVE  SeqInv'
<1>1. /\ UNCHANGED entries /\ UNCHANGED open /\ UNCHANGED fsmap /\ UNCHANGED th
      /\ cooling' = cooling \ {k} /\ meta[k] # None
      /\ meta' = [meta EXCEPT ![k].fresh = FALSE]
      /\ meta \in [Keys -> Opt([id : Ids, fresh : BOOLEAN])]
  BY DEF Expire, caches, IInv, Books
<1>2. meta[k] \in [id : Ids, fresh : BOOLEAN]
  BY <1>1 DEF Opt
<1>3. PICK m : m = [meta[k] EXCEPT !.fresh = FALSE]
  OBVIOUS
<1>4. m # None /\ m.id = meta[k].id
  BY <1>2, <1>3, NoneAssumption
<1>5. meta' = [meta EXCEPT ![k] = m]
  BY <1>1, <1>3
<1>6. meta'[k] = m /\ \A j \in Keys \ {k} : meta'[j] = meta[j]
  BY <1>1, <1>5
<1>7. ASSUME NEW j \in Keys, Settled(entries, meta, fsmap, cooling, j)
      PROVE  Settled(entries', meta', fsmap', cooling', j)
  <2>1. CASE j = k
    BY <1>1, <1>4, <1>6, <1>7, <2>1 DEF Settled, Named, Linked, Paused, Known
  <2>2. CASE j # k
    BY <1>1, <1>6, <1>7, <2>2 DEF Settled, Named, Linked, Paused, Known
  <2> QED
    BY <2>1, <2>2
<1>8. ASSUME NEW j \in Keys, NEW t, Progress(entries, meta, fsmap, cooling, j, t)
      PROVE  Progress(entries', meta', fsmap', cooling', j, t)
  <2>1. CASE j = k
    BY <1>1, <1>4, <1>6, <1>8, <2>1 DEF Progress, Named, Linked, Paused, Known
  <2>2. CASE j # k
    BY <1>1, <1>6, <1>8, <2>2 DEF Progress, Named, Linked, Paused, Known
  <2> QED
    BY <2>1, <2>2
<1>9. ASSUME NEW r \in Requests PROVE InTurn(r)'
  <2>1. InTurn(r)
    BY SeqFacts
  <2>2. \A j \in Keys : IF j = th[r].key THEN Progress(entries', meta', fsmap', cooling', j, th[r])
                        ELSE Settled(entries', meta', fsmap', cooling', j)
    BY <1>7, <1>8, <2>1 DEF InTurn
  <2> QED
    BY <1>1, <2>1, <2>2 DEF InTurn, Files
<1>10. OthersRest'
  BY <1>1 DEF SeqInv, OthersRest
<1> QED
  BY <1>9, <1>10 DEF SeqInv

\* The goroutines other than r's have nothing to do.
LEMMA OnlyRequests ==
  ASSUME Sequential, IInv, Owned, SeqInv
  PROVE  /\ \A p \in Procs : Resolving(p) \/ Evicting(p) => p \in Requests
         /\ \A p \in Requests : ~Swr(p) /\ ~Trigger(p)
         /\ ~Tick /\ ~Pruning /\ ~PrunerExit /\ ~Stop /\ ~Stopping
<1>1. PICK r \in Requests : TRUE
  BY DEF Sequential
<1>2. OthersRest /\ InTurn(r) /\ Requests = {r}
  BY SeqFacts
<1>3. ASSUME NEW p \in Procs, p \notin Requests PROVE ~Resolving(p) /\ ~Evicting(p)
  <2>1. th[p].pc = "idle"
    BY <1>2, <1>3 DEF OthersRest
  <2> QED
    BY <2>1 DEF Resolving, Evicting, Lookup, Fresh, Swr, Trigger, Do, Resolve, Guard, Keep, Have,
                Download, Store, Clean, SetMeta, Register, ErrGet, ErrArt, ErrTouch, ErrReg,
                Report, Respond, EvGet, EvArt, EvClean, EvMeta, EvUnreg, Pc
<1>4. \A p \in Requests : ~Swr(p) /\ ~Trigger(p)
  BY <1>2 DEF InTurn, Swr, Trigger, Pc
<1>5. th[Pruner].pc = "idle" /\ th[Stopper].pc = "idle"
  BY <1>2, Roles DEF OthersRest
<1>6. ~Pruning /\ ~Stopping
  BY <1>5 DEF Pruning, Stopping, Check, AgeKey, AgeNext, Checked, AgeKeysDone, AgeDone, Drained,
              CleanupAll, Purge, Unregister, Pc
<1>7. ~Tick /\ ~PrunerExit /\ ~Stop
  BY <1>5 DEF Tick, PrunerExit, PruneStopClosed, Running, Stop, Pc, Sequential
<1> QED
  BY <1>3, <1>4, <1>6, <1>7

\* All steps of a request together, ...
LEMMA ResolvingSeq ==
  ASSUME Sequential, IInv, Owned, SeqInv, NEW r \in Requests, Resolving(r)
  PROVE  SeqInv'
<1>1. ~Swr(r) /\ ~Trigger(r)
  BY OnlyRequests
<1>2. CASE Lookup(r) \/ Fresh(r) \/ Do(r) \/ Resolve(r) \/ Guard(r) \/ Keep(r) \/ Have(r)
  BY <1>2, LookupSeq, FreshSeq, DoSeq, ResolveSeq, GuardSeq, CachedSeq
<1>3. CASE Download(r) \/ Store(r) \/ Clean(r) \/ SetMeta(r) \/ Register(r)
  BY <1>3, DownloadSeq, StoreSeq, CleanSeq, SetMetaSeq, RegisterSeq
<1>4. CASE ErrGet(r) \/ ErrArt(r) \/ ErrTouch(r) \/ ErrReg(r) \/ Report(r) \/ Respond(r)
  BY <1>4, ErrGetSeq, ErrArtSeq, ErrTouchSeq, ErrRegSeq, ReportSeq, RespondSeq
<1> QED
  BY <1>1, <1>2, <1>3, <1>4 DEF Resolving

\* ... those of an eviction, ...
LEMMA EvictingSeq ==
  ASSUME Sequential, IInv, Owned, SeqInv, NEW r \in Requests, Evicting(r)
  PROVE  SeqInv'
BY EvGetSeq, EvArtSeq, EvCleanSeq, EvMetaSeq, EvUnregSeq DEF Evicting

\* ... and every step of the system.
LEMMA SeqStep ==
  ASSUME Sequential, IInv, Owned, SeqInv, [Next]_vars
  PROVE  SeqInv'
<1>1. ASSUME NEW r \in Requests, NEW o \in {"serve", "refresh", "evict"}, NEW k \in Keys,
             Start(r, o, k)
      PROVE  SeqInv'
  BY <1>1, StartSeq
<1>2. ASSUME NEW p \in Procs, Resolving(p) \/ Evicting(p) PROVE SeqInv'
  BY <1>2, OnlyRequests, ResolvingSeq, EvictingSeq
<1>3. ASSUME NEW k \in Keys, Expire(k) PROVE SeqInv'
  BY <1>3, ExpireSeq
<1>4. CASE UNCHANGED vars
  <2>1. /\ UNCHANGED th /\ UNCHANGED entries /\ UNCHANGED open /\ UNCHANGED meta
        /\ UNCHANGED fsmap /\ UNCHANGED cooling
    BY <1>4 DEF vars, caches
  <2> QED
    BY <2>1 DEF SeqInv, OthersRest, InTurn
<1> QED
  BY <1>1, <1>2, <1>3, <1>4, OnlyRequests DEF Next

\* At the start nothing is known, cached or served.
LEMMA SeqInit == Init => SeqInv
<1> SUFFICES ASSUME Init PROVE SeqInv
  OBVIOUS
<1>1. \A p \in Procs : th[p] = NoTask
  BY DEF Init
<1>2. NoTask.pc = "idle" /\ NoTask.key = None /\ NoTask.todo = {}
  BY DEF NoTask
<1>3. OthersRest
  BY <1>1, <1>2 DEF OthersRest
<1>4. ASSUME NEW r \in Requests PROVE InTurn(r)
  <2>1. th[r].pc = "idle" /\ th[r].key = None
    BY <1>1, <1>2, Roles
  <2>2. Files(entries, open, th[r])
    BY <2>1 DEF Init, Files
  <2>3. \A k \in Keys : Settled(entries, meta, fsmap, cooling, k)
    BY DEF Init, Settled, Named, Linked, Paused, Known
  <2> QED
    BY <2>1, <2>2, <2>3, Roles DEF InTurn
<1> QED
  BY <1>3, <1>4 DEF SeqInv

\* The invariant of requests that come one after the other.
LEMMA InSequence ==
  ASSUME Sequential
  PROVE  Spec => [](IInv /\ Owned /\ SeqInv)
<1>1. IInv /\ Owned /\ SeqInv /\ [Next]_vars => SeqInv'
  BY SeqStep
<1> QED
  BY <1>1, SeqInit, Invariance, Owning, PTL DEF Spec

-----------------------------------------------------------------------------
(* What it shows.                                                          *)

\* What a key serves that the metadata know and the cache has.
LEMMA Served ==
  ASSUME Sequential, IInv, Owned, SeqInv, NEW r \in Requests,
         th[r].pc \in {"serve", "reported"}
  PROVE  fsmap[th[r].key] \in open /\ fsmap[th[r].key][1] = meta[th[r].key].id
<1>1. PICK k \in Keys : k = th[r].key
  BY SeqKey
<1>2. Known(entries, meta, k) /\ fsmap[k] = entries[meta[k].id] /\ Named(meta, fsmap, k)
  BY <1>1, SeqKey DEF Progress, Unnamed, Unlinked, Linked
<1>3. meta[k].id \in Ids
  BY <1>2, SeqFacts, Facts DEF Known
<1> QED
  BY <1>1, <1>2, <1>3, SeqKey DEF Known, Named, Files

\* What the file server is pointed at is registered and its file is open: resolves,
\* failures, evictions for room and by the API never leave a key served from a closed file.
THEOREM ServedIsOpen ==
  ASSUME Sequential
  PROVE  Spec => []ServedFsOpen
<1>1. IInv /\ Owned /\ SeqInv => ServedFsOpen
  BY Served DEF ServedFsOpen, Pc, Key
<1> QED
  BY <1>1, InSequence, PTL

\* Between requests the filesystem map serves exactly what the metadata name. Within them
\* it lags behind in registerFs and unregisterFs (handler.go sets the metadata first).
THEOREM MapIsFollowed ==
  ASSUME Sequential
  PROVE  Spec => []MapFollowsMetadata
<1>1. IInv /\ Owned /\ SeqInv => MapFollowsMetadata
  <2> SUFFICES ASSUME IInv, Owned, SeqInv, Quiet, NEW k \in Keys
               PROVE  Named(meta, fsmap, k)
    BY DEF MapFollowsMetadata, Named
  <2>1. PICK r \in Requests : TRUE
    BY DEF Sequential
  <2>2. InTurn(r) /\ th[r].pc = "idle"
    BY SeqFacts DEF Quiet, Pc
  <2> QED
    BY <2>2 DEF InTurn, Progress, Settled, Unnamed
<1> QED
  BY <1>1, InSequence, PTL

\* POST /refresh answers "cached" with the artifact that the key now serves, although it
\* reads the metadata again after the call is over (api.go).
THEOREM RefreshIsHonest ==
  ASSUME Sequential
  PROVE  Spec => []RefreshReportsServed
<1>1. IInv /\ Owned /\ SeqInv => RefreshReportsServed
  <2> SUFFICES ASSUME IInv, Owned, SeqInv, NEW r \in Requests, th[r].pc = "reported"
               PROVE  fsmap[th[r].key] \in open /\ fsmap[th[r].key][1] = th[r].seen
    BY DEF RefreshReportsServed, Pc, Key
  <2>1. th[r].seen = meta[th[r].key].id
    BY SeqKey DEF Progress
  <2> QED
    BY <2>1, Served
<1> QED
  BY <1>1, InSequence, PTL

\* Only the start of a singleflight call brings a request to resolving.
LEMMA ToResolve ==
  ASSUME Sequential, IInv, Owned, SeqInv, NEW r \in Requests, Resolving(r) \/ Evicting(r),
         th[r].pc # "resolve", th'[r].pc = "resolve"
  PROVE  Do(r)
<1> SUFFICES ASSUME ~Do(r) PROVE FALSE
  OBVIOUS
<1>1. /\ th \in [Procs -> Tasks] /\ th[r] \in Tasks /\ r \in Procs
      /\ Task(r, th[r]) /\ th[r].op # "background" /\ th[r].op # "age"
  BY SeqFacts, Roles DEF Task
<1>2. NoTask.pc = "idle" /\ \A t, x : Answer(t, x).pc = x
  BY DEF NoTask, Answer
<1>3. ~Swr(r) /\ ~Trigger(r) /\ ~Resolve(r)
  BY OnlyRequests DEF Resolve, Pc
<1>4. ASSUME NEW ok \in BOOLEAN, Return(r, ok) PROVE FALSE
  BY <1>1, <1>4, ReturnedTo
<1>5. ~Lookup(r)
  <2> SUFFICES ASSUME Lookup(r) PROVE FALSE
    OBVIOUS
  <2>1. PICK m : m = meta[Key(r)]
    OBVIOUS
  <2>2. PICK x : x = CASE m = None -> "do"
                       [] m # None /\ m.fresh -> "fresh"
                       [] m # None /\ ~m.fresh -> IF SWR THEN "swr" ELSE "do"
    OBVIOUS
  <2>3. PICK i : i = IF m = None THEN None ELSE m.id
    OBVIOUS
  <2>4. th' = [th EXCEPT ![r].pc = x, ![r].meta = i]
    BY <2>1, <2>2, <2>3 DEF Lookup
  <2>5. th'[r].pc = x
    BY <1>1, <2>4 DEF Tasks
  <2>6. m # None => m.fresh \in BOOLEAN
    <3>1. Key(r) \in Keys
      BY SeqKey DEF Lookup, Key, Pc
    <3> QED
      BY <2>1, <3>1 DEF IInv, Books, Opt
  <2> QED
    BY <2>2, <2>5, <2>6
<1>6. ~Fresh(r)
  <2>1. CASE th[r].meta \in AC!Cached
    <3>1. Fresh(r) => th' = [th EXCEPT ![r] = Answer(th[r], "serve")]
      BY <1>1, <2>1 DEF Fresh
    <3> QED
      BY <1>1, <1>2, <3>1
  <2>2. CASE th[r].meta \notin AC!Cached
    <3>1. Fresh(r) => th' = [th EXCEPT ![r] = [th[r] EXCEPT !.pc = "download", !.id = th[r].meta]]
      BY <1>1, <2>2 DEF Fresh
    <3> QED
      BY <1>1, <3>1 DEF Tasks
  <2> QED
    BY <2>1, <2>2
<1>7. ~Guard(r)
  <2>1. PICK x : x = IF Older(r) THEN "keep" ELSE "have"
    OBVIOUS
  <2>2. PICK s : s = IF Older(r) THEN meta[Key(r)].id ELSE None
    OBVIOUS
  <2>3. Guard(r) => th' = [th EXCEPT ![r].pc = x, ![r].seen = s]
    BY <2>1, <2>2 DEF Guard
  <2> QED
    BY <1>1, <2>1, <2>3 DEF Tasks
<1>8. ~Keep(r) /\ ~Have(r)
  <2>1. ASSUME NEW i, NEW else \in {"have", "download"}, InstallCached(r, i, else) PROVE FALSE
    <3>1. \/ th' = [th EXCEPT ![r] = [th[r] EXCEPT !.pc = "setmeta", !.id = i, !.seen = None,
                                                   !.fs = entries[i]]]
          \/ th' = [th EXCEPT ![r] = [th[r] EXCEPT !.pc = else, !.seen = None]]
      BY <1>1, <2>1 DEF InstallCached
    <3> QED
      BY <1>1, <2>1, <3>1 DEF Tasks
  <2> QED
    BY <2>1 DEF Keep, Have
<1>9. ~Download(r)
  <2>1. ASSUME NEW h, th' = [th EXCEPT ![r].pc = "store", ![r].fs = h] PROVE FALSE
    BY <1>1, <2>1 DEF Tasks
  <2>2. Download(r) => \/ Return(r, FALSE)
                       \/ \E c \in Copies : th' = [th EXCEPT ![r].pc = "store",
                                                            ![r].fs = <<th[r].id, c>>]
    BY DEF Download
  <2>3. ~Return(r, FALSE)
    BY <1>4
  <2>4. ASSUME NEW c, th' = [th EXCEPT ![r].pc = "store", ![r].fs = <<th[r].id, c>>] PROVE FALSE
    BY <2>1, <2>4
  <2> QED
    BY <2>2, <2>3, <2>4
<1>10. ~Store(r)
  <2> SUFFICES ASSUME Store(r) PROVE FALSE
    OBVIOUS
  <2>1. PICK V \in SUBSET AC!Cached :
          th' = [th EXCEPT ![r].pc = IF V = {} THEN "setmeta" ELSE "clean",
                           ![r].todo = AC!Cleanups(V)]
    BY DEF Store
  <2>2. PICK x : x = IF V = {} THEN "setmeta" ELSE "clean"
    OBVIOUS
  <2>3. th' = [th EXCEPT ![r].pc = x, ![r].todo = AC!Cleanups(V)]
    <3>1. CASE V = {}
      BY <2>1, <2>2, <3>1
    <3>2. CASE V # {}
      BY <2>1, <2>2, <3>2
    <3> QED
      BY <3>1, <3>2
  <2>4. PICK w : w = AC!Cleanups(V)
    OBVIOUS
  <2>5. th' = [th EXCEPT ![r].pc = x, ![r].todo = w]
    BY <2>3, <2>4
  <2>6. th'[r].pc = x
    BY <1>1, <2>5 DEF Tasks
  <2> QED
    BY <2>2, <2>6
<1>11. ~Clean(r) /\ ~SetMeta(r) /\ ~Register(r)
  <2>1. ~Clean(r)
    BY <1>1 DEF Clean, Tasks
  <2>2. ~SetMeta(r)
    BY <1>1 DEF SetMeta, Goto, Tasks
  <2>3. ~Return(r, TRUE)
    BY <1>4
  <2> QED
    BY <2>1, <2>2, <2>3 DEF Register
<1>12. ~ErrGet(r)
  <2>1. PICK x : x = IF meta[Key(r)] = None THEN "fail" ELSE "errart"
    OBVIOUS
  <2>2. PICK i : i = IF meta[Key(r)] = None THEN None ELSE meta[Key(r)].id
    OBVIOUS
  <2>3. ErrGet(r) => th' = [th EXCEPT ![r].pc = x, ![r].seen = i]
    BY <2>1, <2>2 DEF ErrGet
  <2> QED
    BY <1>1, <2>1, <2>3 DEF Tasks
<1>13. ~ErrArt(r)
  <2>1. PICK x : x = IF th[r].seen \in AC!Cached THEN "errtouch" ELSE "fail"
    OBVIOUS
  <2>2. ErrArt(r) => th' = [th EXCEPT ![r].pc = x, ![r].fs = entries[th[r].seen], ![r].seen = None]
    BY <2>1 DEF ErrArt
  <2> QED
    BY <1>1, <2>1, <2>2 DEF Tasks
<1>14. ~ErrTouch(r) /\ ~ErrReg(r) /\ ~Respond(r)
  BY <1>1, <1>2 DEF ErrTouch, ErrReg, Respond, Goto, Tasks
<1>15. ~Report(r)
  <2>1. PICK i : i = IF meta[Key(r)] = None THEN None ELSE meta[Key(r)].id
    OBVIOUS
  <2>2. ASSUME Report(r) PROVE FALSE
    <3>1. PICK e \in Opt(Ids) :
            th' = [th EXCEPT ![r].pc = IF e \in {None, i} THEN "reported" ELSE "conflict",
                             ![r].seen = i]
      BY <2>1, <2>2 DEF Report
    <3>2. PICK x : x = IF e \in {None, i} THEN "reported" ELSE "conflict"
      OBVIOUS
    <3> QED
      BY <1>1, <3>1, <3>2 DEF Tasks
  <2> QED
    BY <2>2
<1>16. ~EvGet(r)
  <2>1. PICK x : x = IF meta[Key(r)] = None THEN "evmeta" ELSE "evart"
    OBVIOUS
  <2>2. PICK i : i = IF meta[Key(r)] = None THEN None ELSE meta[Key(r)].id
    OBVIOUS
  <2>3. EvGet(r) => th' = [th EXCEPT ![r].pc = x, ![r].seen = i]
    BY <2>1, <2>2 DEF EvGet
  <2> QED
    BY <1>1, <2>1, <2>3 DEF Tasks
<1>17. ~EvArt(r)
  <2>1. PICK x : x = IF th[r].seen \in AC!Cached THEN "evclean" ELSE "evmeta"
    OBVIOUS
  <2>2. EvArt(r) => th' = [th EXCEPT ![r].pc = x, ![r].todo = AC!Cleanups({th[r].seen}),
                                     ![r].seen = None]
    BY <1>1, <2>1 DEF EvArt, AfterArt
  <2> QED
    BY <1>1, <2>1, <2>2 DEF Tasks
<1>18. ~EvClean(r) /\ ~EvMeta(r)
  BY <1>1 DEF EvClean, AfterArt, EvMeta, Goto, Tasks
<1>19. ~EvUnreg(r)
  <2>1. EvUnreg(r) => th[r].op \in {"serve", "refresh", "evict"}
    BY <1>1, Roles DEF Task, EvUnreg, Pc
  <2>2. EvUnreg(r) => Return(r, FALSE) \/ th' = [th EXCEPT ![r] = NoTask]
    BY <2>1 DEF EvUnreg
  <2> QED
    BY <1>1, <1>2, <1>4, <2>2
<1> QED
  BY <1>3, <1>5, <1>6, <1>7, <1>8, <1>9, <1>10, <1>11, <1>12, <1>13, <1>14, <1>15, <1>16,
     <1>17, <1>18, <1>19 DEF Resolving, Evicting

\* A step that brings p to resolving.
Retries(p) ==
  Pc(p) # "resolve" /\ Pc(p)' = "resolve" /\ th'[p].op # "refresh"
    => \/ th'[p].key \notin cooling
       \/ meta[th'[p].key].id \notin AC!Cached

\* It does so only when nothing cached is left or the pause is over.
LEMMA RetriesLate ==
  ASSUME Sequential, IInv, Owned, SeqInv, [Next]_vars, NEW p \in Procs
  PROVE  Retries(p)
<1> SUFFICES ASSUME th[p].pc # "resolve", th'[p].pc = "resolve", th'[p].op # "refresh",
                    th'[p].key \in cooling
             PROVE  meta[th'[p].key].id \notin AC!Cached
  BY DEF Retries, Pc
<1>1. PICK r \in Requests : Requests = {r}
  BY DEF Sequential
<1>2. /\ th \in [Procs -> Tasks] /\ r \in Procs /\ Requests = {r}
  BY <1>1, SeqFacts
<1>3. ASSUME NEW o \in {"serve", "refresh", "evict"}, NEW k \in Keys, Start(r, o, k) PROVE FALSE
  <2>1. PICK x : x = CASE o = "serve" -> "lookup" [] o = "refresh" -> "do" [] o = "evict" -> "evget"
    OBVIOUS
  <2>2. th' = [th EXCEPT ![r] = [NoTask EXCEPT !.op = o, !.key = k, !.pc = x]]
    BY <1>3, <2>1 DEF Start
  <2>3. p = r => th'[p].pc = x
    BY <1>2, <2>2 DEF NoTask
  <2>4. p # r => th'[p] = th[p]
    BY <1>2, <2>2
  <2>5. x # "resolve"
    BY <2>1
  <2> QED
    BY <2>3, <2>4, <2>5
<1>4. CASE Resolving(r) \/ Evicting(r)
  <2>1. p = r
    <3>1. SeqInv'
      BY SeqStep
    <3>2. p # r => th'[p].pc = "idle"
      BY <1>2, <3>1 DEF SeqInv, OthersRest
    <3> QED
      BY <3>2
  <2>2. Do(r)
    BY <1>4, <2>1, ToResolve
  <2>3. th' = [th EXCEPT ![r].pc = "resolve"]
    <3>1. flight[Key(r)] = None \/ th' = [th EXCEPT ![r].pc = "wait"]
      BY <2>2 DEF Do, Goto
    <3>2. th' # [th EXCEPT ![r].pc = "wait"]
      <4>1. th' = [th EXCEPT ![r].pc = "wait"] => th'[r].pc = "wait"
        BY <1>2 DEF Tasks
      <4> QED
        BY <2>1, <4>1
    <3> QED
      BY <2>2, <3>1, <3>2 DEF Do, Goto
  <2>4. th'[r].op = th[r].op /\ th'[r].key = th[r].key /\ th[r].pc = "do"
    <3>1. th[r].pc = "do"
      BY <2>2 DEF Do, Pc
    <3>2. th[r] \in Tasks
      BY SeqFacts
    <3> QED
      BY <1>2, <2>3, <3>1, <3>2 DEF Tasks
  <2>5. th[r].op = "serve"
    BY <1>1, <2>1, <2>4, SeqFacts, Roles DEF Task, EvictPCs
  <2>6. th[r].key \in Keys /\ Progress(entries, meta, fsmap, cooling, th[r].key, th[r])
    BY <2>4, SeqKey
  <2>7. ~Known(entries, meta, th[r].key) /\ meta[th[r].key] # None
    BY <2>1, <2>4, <2>5, <2>6 DEF Progress
  <2> QED
    BY <2>1, <2>4, <2>7 DEF Known, AC!Cached
<1>5. ASSUME NEW k \in Keys, Expire(k) PROVE FALSE
  BY <1>5 DEF Expire
<1>6. CASE UNCHANGED vars
  BY <1>6 DEF vars
<1> QED
  BY <1>2, <1>3, <1>4, <1>5, <1>6, OnlyRequests DEF Next

\* "Resolution is retried after the metadata TTL" and not on every request, as long as the
\* last artifact is cached: touch makes its metadata fresh before the failed call answers.
THEOREM RetriedAfterTTL ==
  ASSUME Sequential
  PROVE  Spec => RetryAfterTTL
<1>1. IInv /\ Owned /\ SeqInv /\ [Next]_vars => [\A p \in Procs : Retries(p)]_vars
  BY RetriesLate
<1>2. Spec => [][\A p \in Procs : Retries(p)]_vars
  BY <1>1, InSequence, PTL DEF Spec
<1> QED
  BY <1>2 DEF RetryAfterTTL, Retries

-----------------------------------------------------------------------------
(***************************************************************************)
(* The shutdown.  A handler that evicts nothing before Cleanup leaves      *)
(* nothing behind (StopLeavesNothing), wherever its background refreshes   *)
(* are when Cleanup begins.                                                *)
(*                                                                         *)
(* Cleanup unregisters the keys that have metadata and closes the files of *)
(* the cached artifacts.  So until then a registered key must have         *)
(* metadata, and an open file must be in the cache or on its way into it   *)
(* (Before); and nothing may come after it, which is why it waits for the  *)
(* background refreshes (After).  A file would be lost if two goroutines   *)
(* downloaded the same artifact, as set forgets what it overwrites: Bound  *)
(* says what keeps a request and the background refresh of its key apart.  *)
(***************************************************************************)

\* No evict requests, closed PRs or pruner; room for every artifact; keys that share no
\* artifacts; and, with stale_while_revalidate, one request at a time besides the
\* background refreshes.
Stoppable ==
  /\ Ops \subseteq {"serve", "refresh", "stop"}
  /\ PRs = {}
  /\ Cardinality(Ids) <= MaxSize
  /\ \A j, k \in Keys : j # k => ArtifactsOf[j] \cap ArtifactsOf[k] = {}
  /\ SWR => "refresh" \notin Ops /\ \E r \in Requests : Requests = {r}

\* Where nobody gets without evictions; where a goroutine downloads, or may yet.
EvictedPCs == EvictPCs \cup {"clean", "check", "age", "agekeys"}
WorkPCs == InCall \cup {"do"}

\* What goroutine p, in state t, knows of the entries E, the metadata M and the marks R of
\* the background refreshes.
Bound(E, M, R, p, t) ==
  /\ t.pc \notin EvictedPCs
  /\ t.pc \in {"fresh", "swr"} => E[t.meta] # None
  /\ t.pc \in {"download", "store"} => E[t.id] = None
  /\ t.pc = "setmeta" => E[t.id] # None
  /\ t.pc \in {"swr", "trigger"} => SWR
  /\ t.pc \in {"swr", "trigger", "register", "errart", "errtouch", "errreg"} => M[t.key] # None
  /\ p \in Keys => t.pc = "idle" \/ t.key = p
  /\ p \in Requests /\ t.pc \in WorkPCs => t.key \notin R

BoundTasks == \A p \in Procs : Bound(entries, meta, refreshing, p, th[p])
RefreshKnown == \A k \in refreshing : SWR /\ meta[k] # None

\* While goroutines are at work ...
Before ==
  Pc(Stopper) \in {"idle", "drain"} =>
    MetaCached /\ \A k \in Keys : fsmap[k] # None => meta[k] # None

\* ... and as Cleanup comes after them.
After ==
  /\ Pc(Stopper) # "idle" => \A p \in Requests : Pc(p) = "idle"
  /\ Pc(Stopper) \in {"unregister", "purge", "stopped"} => refreshing = {}
  /\ Pc(Stopper) = "unregister" => \A k \in Keys : fsmap[k] # None => k \in doomed
  /\ Pc(Stopper) \in {"purge", "stopped"} =>
       (\A k \in Keys : fsmap[k] = None) /\ (\A i \in Ids : entries[i] = None)
  /\ Pc(Stopper) = "stopped" => open = {}

\* Every open file is in the cache, on its way into it, or about to be closed by Cleanup.
OpenReached ==
  \A h \in open : \/ \E i \in Ids : entries[i] = h
                  \/ \E p \in Procs : th[p].pc = "store" /\ th[p].fs = h
                  \/ h \in th[Stopper].todo

StopInv == BoundTasks /\ InFlight /\ RefreshKnown /\ Before /\ After /\ OpenReached

-----------------------------------------------------------------------------
(* What is left of Next, and of its effects.                               *)

\* What the invariants say of goroutine p.
LEMMA StopFacts ==
  ASSUME IInv, StopInv, NEW p \in Procs
  PROVE  /\ th \in [Procs -> Tasks] /\ th[p] \in Tasks /\ Task(p, th[p]) /\ Prepared(th[p])
         /\ Bound(entries, meta, refreshing, p, th[p])
         /\ DOMAIN entries = Ids /\ DOMAIN meta = Keys
BY Here DEF StopInv, BoundTasks, Task, IInv, CacheData, Books

\* Nothing is evicted, and the pruner rests.
LEMMA NobodyEvicts ==
  ASSUME Stoppable, IInv, StopInv
  PROVE  /\ \A p \in Procs : ~Evicting(p) /\ ~Clean(p)
         /\ ~Tick /\ ~Pruning
         /\ th[Pruner].pc \in {"idle", "exited"}
<1>1. \A p \in Procs : th[p].pc \notin EvictedPCs
  BY StopFacts DEF Bound
<1>2. \A p \in Procs : ~Evicting(p) /\ ~Clean(p)
  BY <1>1 DEF Evicting, EvGet, EvArt, EvClean, EvMeta, EvUnreg, Clean, Pc, EvictedPCs, EvictPCs
<1>3. ~Tick
  BY DEF Stoppable, Tick
<1>4. ~Pruning
  BY <1>1, Roles
  DEF Pruning, Check, AgeKey, AgeNext, Checked, AgeKeysDone, AgeDone, Pc, EvictedPCs
<1>5. th[Pruner].pc \in {"idle", "exited"}
  BY <1>1, Here, Roles DEF Task, PrunerPCs, EvictedPCs, EvictPCs
<1> QED
  BY <1>2, <1>3, <1>4, <1>5

LEMMA StopSteps ==
  ASSUME Stoppable, IInv, StopInv, [Next]_vars
  PROVE  \/ \E p \in Requests, o \in {"serve", "refresh"}, k \in Keys : Start(p, o, k)
         \/ \E p \in Procs : Resolving(p) /\ ~Clean(p)
         \/ PrunerExit
         \/ Stop \/ Stopping
         \/ \E k \in Keys : Expire(k)
         \/ UNCHANGED vars
<1>1. ASSUME NEW p \in Requests, NEW o \in {"serve", "refresh", "evict"}, NEW k \in Keys,
             Start(p, o, k)
      PROVE  o \in {"serve", "refresh"}
  BY <1>1 DEF Start, Stoppable
<1> QED
  BY <1>1, NobodyEvicts DEF Next

\* Who is at work on a key.
LEMMA AtWork ==
  ASSUME IInv, StopInv, NEW p \in Procs, th[p].pc \in WorkPCs
  PROVE  /\ p \in Requests \/ (p \in Keys /\ p \in refreshing /\ th[p].key = p)
         /\ th[p].key \in Keys
         /\ th[p].pc # "do" /\ p \in Requests => flight[th[p].key] = p
<1>1. Bound(entries, meta, refreshing, p, th[p]) /\ Task(p, th[p]) /\ th[p] \in Tasks
  BY StopFacts
<1>2. CASE th[p].pc = "do"
  BY <1>2, RequestOnly
<1>3. CASE th[p].pc # "do"
  <2>1. th[p].pc \in InCall /\ th[p].pc \notin EvictPCs
    BY <1>1, <1>3 DEF WorkPCs, Bound, EvictedPCs
  <2>2. p \in Requests \cup Keys /\ th[p].key \in Keys
    BY <2>1, Resolver DEF InCall, EvictPCs
  <2>3. p \in Requests => flight[th[p].key] = p
    BY <2>1 DEF StopInv, InFlight, Pc, Key
  <2>4. p \in Keys => p \in refreshing /\ th[p].key = p
    BY <1>1, <2>1 DEF Bound, IInv, Threads, RefreshMarked, Pc, InCall
  <2> QED
    BY <2>2, <2>3, <2>4
<1> QED
  BY <1>2, <1>3

\* One goroutine for an artifact.
LEMMA OneDownload ==
  ASSUME Stoppable, IInv, Owned, StopInv, NEW p \in Procs, NEW q \in Procs,
         th[p].pc \in {"download", "store"}, th[q].pc \in {"download", "store"},
         th[p].id = th[q].id
  PROVE  p = q
<1>1. /\ th[p].pc \in WorkPCs /\ th[q].pc \in WorkPCs
      /\ th[p].pc # "do" /\ th[q].pc # "do"
  BY DEF WorkPCs, InCall
<1>2. th[p].key \in Keys /\ th[q].key \in Keys
  BY <1>1, AtWork
<1>3. th[p].id \in ArtifactsOf[th[p].key] /\ th[q].id \in ArtifactsOf[th[q].key]
  BY <1>2, Roles DEF Owned, OwnTasks, OwnTask
<1>4. th[p].key = th[q].key
  BY <1>2, <1>3 DEF Stoppable
<1>5. ASSUME NEW r \in Procs, r \in Requests, th[r].pc \in WorkPCs
      PROVE  th[r].key \notin refreshing
  BY <1>5, StopFacts DEF Bound
<1> QED
  BY <1>1, <1>4, <1>5, AtWork

\* There is room for an artifact that is not cached.
LEMMA RoomForNew ==
  ASSUME Stoppable, NEW i \in Ids, entries[i] = None, NEW V \in SUBSET AC!Cached,
         AC!EvictionSet(V)
  PROVE  V = {}
<1> SUFFICES ASSUME V # {} PROVE FALSE
  OBVIOUS
<1>1. IsFiniteSet(Ids) /\ AC!Cached \subseteq Ids /\ i \notin AC!Cached
  BY KeysAssumption DEF AC!Cached
<1>2. PICK v \in Ids : v \in V /\ v # i
  BY <1>1
<1> DEFINE S == AC!Cached \ V
           T == Ids \ {i}
<1>3. IsFiniteSet(T) /\ Cardinality(T) = Cardinality(Ids) - 1 /\ v \in T
  BY <1>1, <1>2, FS_RemoveElement
<1>4. S \subseteq T \ {v}
  BY <1>1, <1>2
<1> HIDE DEF T
<1>5. IsFiniteSet(T \ {v}) /\ Cardinality(T \ {v}) = Cardinality(T) - 1
  BY <1>3, FS_RemoveElement
<1>6. Cardinality(S) <= Cardinality(T \ {v})
  BY <1>4, <1>5, FS_Subset
<1>7. Cardinality(S) = MaxSize - 1
  BY SameCount DEF AC!EvictionSet
<1>8. Cardinality(Ids) \in Nat /\ MaxSize \in Nat
  BY <1>1, FS_CardinalityType, SizeAssumption
<1> QED
  BY <1>3, <1>5, <1>6, <1>7, <1>8 DEF Stoppable

\* What Store does to the cache and to its goroutine.
LEMMA StoredNew ==
  ASSUME Stoppable, IInv, StopInv, NEW p \in Procs, Store(p)
  PROVE  /\ th[p].id \in Ids /\ th[p].fs # None /\ th[p].pc = "store"
         /\ entries[th[p].id] = None
         /\ entries' = [j \in Ids |-> IF j = th[p].id THEN th[p].fs ELSE entries[j]]
         /\ th' = [th EXCEPT ![p].pc = "setmeta", ![p].todo = {}]
<1>1. th[p] \in Tasks /\ Prepared(th[p]) /\ th[p].pc = "store" /\ entries[th[p].id] = None
  BY StopFacts DEF Store, Pc, Bound
<1>2. th[p].id \in Ids /\ th[p].fs # None
  BY <1>1 DEF Tasks, Prepared, Opt
<1>3. PICK V \in SUBSET AC!Cached :
        /\ AC!EvictionSet(V) /\ AC!Put(th[p].id, th[p].fs, V)
        /\ th' = [th EXCEPT ![p].pc = IF V = {} THEN "setmeta" ELSE "clean",
                            ![p].todo = AC!Cleanups(V)]
  BY DEF Store
<1>4. V = {}
  BY <1>1, <1>2, <1>3, RoomForNew
<1>5. entries' = [j \in Ids |-> IF j = th[p].id THEN th[p].fs ELSE entries[j]]
  BY <1>3, <1>4 DEF AC!Put
<1>6. PICK W : W = AC!Cleanups(V)
  OBVIOUS
<1>7. W = {}
  BY <1>4, <1>6 DEF AC!Cleanups
<1>8. th' = [th EXCEPT ![p].pc = "setmeta", ![p].todo = {}]
  BY <1>3, <1>4, <1>6, <1>7
<1> QED
  BY <1>1, <1>2, <1>5, <1>8

\* Metadata are never removed, and the cache only grows until Cleanup empties it.
LEMMA MetaStays ==
  ASSUME Stoppable, IInv, StopInv, [Next]_vars, NEW k \in Keys
  PROVE  MetaStep(k)
<1>1. ASSUME NEW p \in Procs, Resolving(p), ~Clean(p)
      PROVE  UNCHANGED meta \/ SetMeta(p) \/ ErrTouch(p)
  BY <1>1
  DEF Resolving, Lookup, Fresh, Swr, Trigger, Do, Resolve, Guard, Keep, Have, InstallCached,
      Download, Store, Register, ErrGet, ErrArt, ErrReg, Report, Respond
<1>2. ASSUME Stop \/ Stopping PROVE UNCHANGED meta
  BY <1>2 DEF Stop, Stopping, Drained, Unregister, CleanupAll, Purge
<1>3. CASE UNCHANGED vars
  BY <1>3, MetaMoves DEF vars
<1> QED
  BY <1>1, <1>2, <1>3, MetaMoves, StopSteps DEF Start, PrunerExit

LEMMA EntriesStay ==
  ASSUME Stoppable, IInv, StopInv, [Next]_vars
  PROVE  UNCHANGED entries \/ CleanupAll \/ \E p \in Procs : Store(p)
<1>1. ASSUME NEW p \in Procs, Resolving(p), ~Clean(p) PROVE UNCHANGED entries \/ Store(p)
  BY <1>1
  DEF Resolving, Lookup, Fresh, Swr, Trigger, Do, Resolve, Guard, Keep, Have, InstallCached,
      Download, SetMeta, Register, ErrGet, ErrArt, ErrTouch, ErrReg, Report, Respond,
      caches, AC!Get
<1>2. ASSUME Stop \/ Stopping PROVE UNCHANGED entries \/ CleanupAll
  BY <1>2 DEF Stop, Stopping, Drained, Unregister, Purge, caches
<1>3. UNCHANGED vars => UNCHANGED entries
  BY DEF vars, caches
<1> QED
  BY <1>1, <1>2, <1>3, StopSteps DEF Start, Expire, PrunerExit, caches

\* Only triggerBackgroundRefresh marks a key.
LEMMA MarksStay ==
  ASSUME Stoppable, IInv, StopInv, [Next]_vars
  PROVE  refreshing' \subseteq refreshing \/ \E p \in Procs : Trigger(p)
<1>1. ASSUME NEW p \in Procs, NEW ok \in BOOLEAN, Return(p, ok)
      PROVE  refreshing' \subseteq refreshing
  BY <1>1 DEF Return, EndRefresh
<1>2. ASSUME NEW p \in Procs, Resolving(p), ~Clean(p)
      PROVE  refreshing' \subseteq refreshing \/ Trigger(p)
  <2>1. CASE Resolve(p) \/ Download(p) \/ Register(p)
    BY <1>1, <2>1 DEF Resolve, Download, Register
  <2>2. CASE ~(Resolve(p) \/ Download(p) \/ Register(p) \/ Trigger(p))
    <3>1. UNCHANGED refreshing
      BY <1>2, <2>2
      DEF Resolving, Lookup, Fresh, Swr, Do, Guard, Keep, Have, InstallCached, Store, SetMeta,
          ErrGet, ErrArt, ErrTouch, ErrReg, Report, Respond
    <3> QED
      BY <3>1
  <2> QED
    BY <2>1, <2>2
<1>3. ASSUME Stop \/ Stopping PROVE UNCHANGED refreshing
  BY <1>3 DEF Stop, Stopping, Drained, Unregister, CleanupAll, Purge
<1>4. UNCHANGED vars => UNCHANGED refreshing
  BY DEF vars
<1>5. UNCHANGED refreshing \/ \E p \in Procs : Resolving(p) /\ ~Clean(p)
  BY <1>3, <1>4, StopSteps DEF Start, Expire, PrunerExit
<1> QED
  BY <1>2, <1>5

\* Cleanup empties the cache when all others rest.
LEMMA CleanupRests ==
  ASSUME IInv, StopInv, th[Stopper].pc \in {"unregister", "purge", "stopped"}
  PROVE  /\ \A p \in Requests \cup Keys : th[p].pc = "idle"
         /\ refreshing = {}
<1>1. refreshing = {} /\ \A p \in Requests : th[p].pc = "idle"
  BY DEF StopInv, After, Pc
<1>2. ASSUME NEW k \in Keys PROVE th[k].pc = "idle"
  <2>1. th[k].pc \notin InCall
    BY <1>1 DEF IInv, Threads, RefreshMarked, Pc, InCall
  <2> QED
    BY <2>1, Here, Roles DEF Task, InCall
<1> QED
  BY <1>1, <1>2

\* What a goroutine that does not move knows stays true.
LEMMA BoundStays ==
  ASSUME Stoppable, IInv, Owned, StopInv, [Next]_vars, NEW q \in Procs, th'[q] = th[q]
  PROVE  Bound(entries', meta', refreshing', q, th'[q])
<1>1. Bound(entries, meta, refreshing, q, th[q]) /\ th[q] \in Tasks /\ Prepared(th[q])
  BY StopFacts
<1>2. th[q].pc \in {"fresh", "swr"} => th[q].meta \in Ids
  BY <1>1 DEF Prepared, Tasks, Opt
<1>3. th[q].pc \in {"download", "store", "setmeta"} => th[q].id \in Ids
  BY <1>1 DEF Prepared, Tasks, Opt
<1>4. \A k \in Keys : meta[k] # None => meta'[k] # None
  BY MetaStays DEF MetaStep
<1>5. th[q].pc \in {"swr", "trigger", "register", "errart", "errtouch", "errreg"}
        => meta'[th[q].key] # None
  <2>1. th[q].pc \in {"swr", "trigger", "register", "errart", "errtouch", "errreg"}
          => th[q].key \in Keys /\ meta[th[q].key] # None
    BY <1>1 DEF Prepared, Tasks, Opt, Bound
  <2> QED
    BY <1>4, <2>1
<1>6. /\ th[q].pc \in {"fresh", "swr"} => entries'[th[q].meta] # None
      /\ th[q].pc \in {"download", "store"} => entries'[th[q].id] = None
      /\ th[q].pc = "setmeta" => entries'[th[q].id] # None
  <2>1. CASE UNCHANGED entries
    BY <1>1, <2>1 DEF Bound
  <2>2. CASE CleanupAll
    <3>1. \A p \in Requests \cup Keys : th[p].pc = "idle"
      BY <2>2, CleanupRests DEF CleanupAll, Pc
    <3>2. th[q].pc \notin {"fresh", "swr", "download", "store", "setmeta"}
      BY <3>1, Here, Roles DEF Task, Procs, PrunerPCs, StopperPCs
    <3> QED
      BY <3>2
  <2>3. ASSUME NEW p \in Procs, Store(p)
        PROVE  /\ th[q].pc \in {"fresh", "swr"} => entries'[th[q].meta] # None
               /\ th[q].pc \in {"download", "store"} => entries'[th[q].id] = None
               /\ th[q].pc = "setmeta" => entries'[th[q].id] # None
    <3>1. /\ th[p].id \in Ids /\ th[p].fs # None /\ th[p].pc = "store"
          /\ entries' = [j \in Ids |-> IF j = th[p].id THEN th[p].fs ELSE entries[j]]
          /\ th' = [th EXCEPT ![p].pc = "setmeta", ![p].todo = {}]
      BY <2>3, StoredNew
    <3>2. th'[p].pc = "setmeta"
      BY <3>1, StopFacts DEF Tasks
    <3>3. th[q].pc \in {"download", "store"} => th[q].id # th[p].id
      BY <3>1, <3>2, OneDownload
    <3> QED
      BY <1>1, <1>2, <1>3, <3>1, <3>3 DEF Bound
  <2> QED
    BY <2>1, <2>2, <2>3, EntriesStay
<1>7. q \in Requests /\ th[q].pc \in WorkPCs => th[q].key \notin refreshing'
  <2> SUFFICES ASSUME q \in Requests, th[q].pc \in WorkPCs PROVE th[q].key \notin refreshing'
    OBVIOUS
  <2>1. CASE refreshing' \subseteq refreshing
    BY <1>1, <2>1 DEF Bound
  <2>2. ASSUME NEW p \in Procs, Trigger(p) PROVE FALSE
    <3>1. th[p].pc = "trigger" /\ p \in Requests
      BY <2>2, RequestOnly DEF Trigger, Pc
    <3>2. SWR
      BY <3>1, StopFacts DEF Bound
    <3>3. p = q
      BY <3>1, <3>2 DEF Stoppable
    <3> QED
      BY <3>1, <3>3 DEF WorkPCs, InCall
  <2> QED
    BY <2>1, <2>2, MarksStay
<1> QED
  BY <1>1, <1>5, <1>6, <1>7 DEF Bound

-----------------------------------------------------------------------------
(* The goroutines.                                                         *)

\* Where Bound asks nothing of a goroutine, but of a background refresh its key.
FreePCs == {"idle", "lookup", "wait", "errget", "fail", "serve", "report", "reported", "conflict",
            "exited", "drain", "unregister", "purge", "stopped"}

LEMMA FreeBound ==
  ASSUME NEW E, NEW M, NEW R, NEW p, NEW t, t.pc \in FreePCs, p \notin Keys \/ t.pc = "idle"
  PROVE  Bound(E, M, R, p, t)
BY DEF FreePCs, Bound, EvictedPCs, WorkPCs, InCall, EvictPCs

\* p goes on.  Requests may wake, and a background refresh may begin; nobody else moves.
Advances(p) ==
  /\ BoundTasks'
  /\ InFlight'
  /\ \A q \in Procs : q # p =>
       \/ th'[q] = th[q]
       \/ th[q].pc = "wait" /\ q \in Requests
       \/ th[q].pc = "idle" /\ q \in Keys

\* Who moves alone has to look after itself.
LEMMA Advance ==
  ASSUME Stoppable, IInv, Owned, StopInv, [Next]_vars, NEW p \in Procs, OthersStay(p),
         UNCHANGED flight, Bound(entries', meta', refreshing', p, th'[p]),
         th'[p].pc \in InCall => th[p].pc \in InCall /\ th'[p].key = th[p].key
  PROVE  Advances(p)
<1>1. ASSUME NEW q \in Procs PROVE Bound(entries', meta', refreshing', q, th'[q])
  BY BoundStays DEF OthersStay
<1>2. BoundTasks'
  BY <1>1 DEF BoundTasks
<1>3. \A q \in Requests : th'[q].pc \in InCall => flight'[th'[q].key] = q
  BY Roles DEF OthersStay, StopInv, InFlight, Pc, Key
<1>4. InFlight'
  BY <1>3 DEF InFlight, Pc, Key, InCall
<1> QED
  BY <1>2, <1>4 DEF Advances, OthersStay

\* Who goes to where nothing is asked.
LEMMA FreeMove ==
  ASSUME Stoppable, IInv, Owned, StopInv, [Next]_vars, NEW p \in Procs, OthersStay(p),
         UNCHANGED flight, th'[p].pc \in FreePCs, p \notin Keys \/ th'[p].pc = "idle"
  PROVE  Advances(p)
<1>1. Bound(entries', meta', refreshing', p, th'[p])
  BY FreeBound
<1>2. th'[p].pc \notin InCall
  BY DEF FreePCs, InCall
<1> QED
  BY <1>1, <1>2, Advance

\* Who goes on with its call.
LEMMA WorkMove ==
  ASSUME Stoppable, IInv, Owned, StopInv, [Next]_vars, NEW p \in Procs, OthersStay(p),
         UNCHANGED <<flight, refreshing>>, th[p].pc \in InCall,
         th'[p].pc \in {"guard", "keep", "have", "download", "store", "setmeta", "register"},
         th'[p].key = th[p].key,
         th'[p].pc \in {"download", "store"} => entries'[th'[p].id] = None,
         th'[p].pc = "setmeta" => entries'[th'[p].id] # None,
         th'[p].pc = "register" => meta'[th'[p].key] # None
  PROVE  Advances(p)
<1>1. Bound(entries, meta, refreshing, p, th[p])
  BY StopFacts
<1>2. th[p].pc \in WorkPCs /\ th[p].pc # "idle"
  BY DEF WorkPCs, InCall
<1>3. Bound(entries', meta', refreshing', p, th'[p])
  BY <1>1, <1>2 DEF Bound, EvictedPCs, EvictPCs
<1> QED
  BY <1>3, Advance

\* A request that goes on outside of calls.
LEMMA RequestMove ==
  ASSUME Stoppable, IInv, Owned, StopInv, [Next]_vars, NEW p \in Requests, OthersStay(p),
         UNCHANGED flight,
         th'[p].pc \in {"do", "fresh", "swr", "trigger", "errart", "errtouch", "errreg"},
         th'[p].pc = "do" => th'[p].key \notin refreshing',
         th'[p].pc \in {"fresh", "swr"} => entries'[th'[p].meta] # None,
         th'[p].pc \in {"swr", "trigger"} => SWR,
         th'[p].pc \in {"swr", "trigger", "errart", "errtouch", "errreg"}
           => meta'[th'[p].key] # None
  PROVE  Advances(p)
<1>1. p \in Procs /\ p \notin Keys
  BY Roles
<1>2. th'[p].pc \notin EvictedPCs /\ (th'[p].pc \in WorkPCs => th'[p].pc = "do")
      /\ th'[p].pc \notin InCall
  BY DEF EvictedPCs, EvictPCs, WorkPCs, InCall
<1>3. Bound(entries', meta', refreshing', p, th'[p])
  BY <1>1, <1>2 DEF Bound
<1> QED
  BY <1>1, <1>2, <1>3, Advance

\* While a request is at work Cleanup has not begun, and the metadata name cached artifacts.
LEMMA AtRequest ==
  ASSUME IInv, StopInv, NEW p \in Requests, th[p].pc # "idle"
  PROVE  /\ th[Stopper].pc = "idle"
         /\ \A k \in Keys : meta[k] # None =>
              meta[k].id \in Ids /\ entries[meta[k].id] # None
BY DEF StopInv, After, Before, MetaCached, Pc, IInv, Books, Opt

\* A call of the group or a background refresh ends.  Nobody returns from the fresh path,
\* which never gets to a download.
LEMMA ReturnAdvances ==
  ASSUME Stoppable, IInv, Owned, StopInv, [Next]_vars, NEW p \in Procs, NEW ok \in BOOLEAN,
         Return(p, ok), th[p].pc \in {"resolve", "download", "register"}
  PROVE  Advances(p)
<1>1. th \in [Procs -> Tasks] /\ InFlight
  BY StopFacts DEF StopInv
<1>2. p \in Requests \cup Keys /\ th[p].key \in Keys /\ th[p].pc \in InCall
  BY Resolver DEF InCall
<1>3. CASE p \in Keys
  <2>1. th' = [th EXCEPT ![p] = NoTask] /\ UNCHANGED flight
    BY <1>3 DEF Return
  <2>2. th'[p].pc = "idle" /\ OthersStay(p)
    BY <1>1, <2>1 DEF NoTask, OthersStay
  <2> QED
    BY <2>1, <2>2, FreeMove DEF FreePCs
<1>4. CASE p \in Requests
  <2>1. flight[th[p].key] = p
    BY <1>1, <1>2, <1>4 DEF InFlight, Pc, Key
  <2>2. /\ flight' = [flight EXCEPT ![th[p].key] = None]
        /\ th' = [q \in Procs |-> IF Wakes(p, q) THEN Awake(th[q], ok) ELSE th[q]]
    BY <1>4, <2>1, Roles DEF Return, EndFlight, Key
  <2>3. \A q \in Procs : ~Wakes(p, q) => th'[q] = th[q]
    BY <2>2
  <2>4. ASSUME NEW q \in Procs, Wakes(p, q)
        PROVE  /\ q \in Requests /\ (q # p => th[q].pc = "wait")
               /\ th'[q].pc \in {"serve", "report", "errget", "fail"}
    <3>1. q \in Requests /\ (q # p => th[q].pc = "wait")
      <4>1. th[q].pc = "wait" => q \in Requests
        BY RequestOnly
      <4> QED
        BY <1>4, <2>4, <4>1 DEF Wakes, Pc
    <3>2. \A x : Answer(th[q], x).pc = x
      BY DEF Answer, NoTask
    <3>3. th'[q] = Awake(th[q], ok)
      BY <2>2, <2>4
    <3>4. CASE ok
      BY <3>1, <3>2, <3>3, <3>4 DEF Awake
    <3>5. CASE ~ok
      BY <3>1, <3>2, <3>3, <3>5 DEF Awake
    <3> QED
      BY <3>4, <3>5
  <2>5. ASSUME NEW q \in Procs PROVE Bound(entries', meta', refreshing', q, th'[q])
    <3>1. CASE Wakes(p, q)
      <4>1. th'[q].pc \in FreePCs /\ q \notin Keys
        BY <2>4, <3>1, Roles DEF FreePCs
      <4> QED
        BY <4>1, FreeBound
    <3>2. CASE ~Wakes(p, q)
      BY <2>3, <3>2, BoundStays
    <3> QED
      BY <3>1, <3>2
  <2>6. BoundTasks'
    BY <2>5 DEF BoundTasks
  <2>7. ASSUME NEW q \in Requests, th'[q].pc \in InCall PROVE flight'[th'[q].key] = q
    <3>1. th'[q] = th[q] /\ q # p
      BY <2>3, <2>4, <2>7, Roles DEF Wakes, InCall
    <3>2. flight[th[q].key] = q
      BY <1>1, <2>7, <3>1 DEF InFlight, Pc, Key
    <3>3. flight \in [Keys -> Opt(Requests)]
      BY DEF IInv, Threads
    <3>4. th[q].key # th[p].key
      BY <2>1, <3>1, <3>2
    <3> QED
      BY <2>2, <3>1, <3>2, <3>3, <3>4
  <2>8. InFlight'
    BY <2>7 DEF InFlight, Pc, Key, InCall
  <2>9. \A q \in Procs : q # p =>
          \/ th'[q] = th[q]
          \/ th[q].pc = "wait" /\ q \in Requests
    BY <2>3, <2>4
  <2> QED
    BY <2>6, <2>8, <2>9 DEF Advances
<1> QED
  BY <1>2, <1>3, <1>4

-----------------------------------------------------------------------------
(* The work on a request.                                                  *)

\* Only triggerBackgroundRefresh begins a refresh that nobody waits for, and only where the
\* metadata are known: who finds none leads or joins a call.
LEMMA LookupAdvances ==
  ASSUME Stoppable, IInv, Owned, StopInv, [Next]_vars, NEW p \in Procs, Lookup(p)
  PROVE  Advances(p)
<1>1. /\ th \in [Procs -> Tasks] /\ th[p] \in Tasks /\ th[p].pc = "lookup"
      /\ UNCHANGED <<flight, meta, refreshing>> /\ UNCHANGED entries
  BY StopFacts DEF Lookup, Pc, caches
<1>2. p \in Requests /\ th[p].key \in Keys
  BY <1>1, RequestOnly
<1>3. \A k \in refreshing : SWR /\ meta[k] # None
  BY DEF StopInv, RefreshKnown
<1> DEFINE m == meta[th[p].key]
<1>4. CASE m = None
  <2>1. th' = [th EXCEPT ![p].pc = "do", ![p].meta = None]
    BY <1>4, <1>1 DEF Lookup, Key
  <2>2. th'[p].pc = "do" /\ th'[p].key = th[p].key /\ OthersStay(p)
    BY <1>1, <2>1 DEF Tasks, OthersStay
  <2>3. th[p].key \notin refreshing'
    BY <1>1, <1>3, <1>4
  <2> QED
    BY <1>1, <1>2, <2>2, <2>3, RequestMove
<1>5. CASE m # None
  <2>1. m \in [id : Ids, fresh : BOOLEAN]
    BY <1>2, <1>5 DEF IInv, Books, Opt
  <2>2. PICK x \in {"fresh", "swr", "do"} :
          /\ th' = [th EXCEPT ![p].pc = x, ![p].meta = m.id]
          /\ x = "swr" => SWR
          /\ x = "do" => ~SWR
    <3>1. CASE m.fresh
      <4>1. th' = [th EXCEPT ![p].pc = "fresh", ![p].meta = m.id]
        BY <1>5, <3>1, Zenon DEF Lookup, Key
      <4> QED
        BY <4>1
    <3>2. CASE ~m.fresh /\ SWR
      <4>1. th' = [th EXCEPT ![p].pc = "swr", ![p].meta = m.id]
        BY <1>5, <3>2 DEF Lookup, Key
      <4> QED
        BY <3>2, <4>1
    <3>3. CASE ~m.fresh /\ ~SWR
      <4>1. th' = [th EXCEPT ![p].pc = "do", ![p].meta = m.id]
        BY <1>5, <3>3 DEF Lookup, Key
      <4> QED
        BY <3>3, <4>1
    <3> QED
      BY <3>1, <3>2, <3>3
  <2>3. entries[m.id] # None
    BY <1>1, <1>2, <1>5, AtRequest
  <2> DEFINE i == m.id
  <2> HIDE DEF i
  <2>4. th' = [th EXCEPT ![p].pc = x, ![p].meta = i]
    BY <2>2 DEF i
  <2>5. th'[p].pc = x /\ th'[p].meta = i /\ th'[p].key = th[p].key /\ OthersStay(p)
    BY <1>1, <2>4 DEF Tasks, OthersStay
  <2>6. entries'[th'[p].meta] # None /\ meta'[th'[p].key] # None
    BY <1>1, <1>5, <2>3, <2>5 DEF i
  <2>7. x = "do" => th'[p].key \notin refreshing'
    BY <1>1, <1>3, <2>2, <2>5
  <2> QED
    BY <1>1, <1>2, <2>2, <2>5, <2>6, <2>7, RequestMove
<1> QED
  BY <1>4, <1>5

\* Answers.
LEMMA AnswerAdvances ==
  ASSUME Stoppable, IInv, Owned, StopInv, [Next]_vars, NEW p \in Procs, UNCHANGED flight,
         \/ p \in Requests /\ th' = [th EXCEPT ![p] = Answer(th[p], "serve")]
         \/ th' = [th EXCEPT ![p] = NoTask]
  PROVE  Advances(p)
<1>1. th \in [Procs -> Tasks]
  BY StopFacts
<1>2. CASE p \in Requests /\ th' = [th EXCEPT ![p] = Answer(th[p], "serve")]
  <2>1. th'[p].pc = "serve" /\ OthersStay(p) /\ p \notin Keys
    BY <1>1, <1>2, Roles DEF Answer, NoTask, OthersStay
  <2> QED
    BY <2>1, FreeMove DEF FreePCs
<1>3. CASE th' = [th EXCEPT ![p] = NoTask]
  <2>1. th'[p].pc = "idle" /\ OthersStay(p)
    BY <1>1, <1>3 DEF NoTask, OthersStay
  <2> QED
    BY <2>1, FreeMove DEF FreePCs
<1> QED
  BY <1>2, <1>3

LEMMA FreshAdvances ==
  ASSUME Stoppable, IInv, Owned, StopInv, [Next]_vars, NEW p \in Procs, Fresh(p) \/ Swr(p)
  PROVE  Advances(p)
<1>1. /\ th \in [Procs -> Tasks] /\ th[p] \in Tasks /\ Prepared(th[p])
      /\ Bound(entries, meta, refreshing, p, th[p])
      /\ th[p].pc \in {"fresh", "swr"}
  BY StopFacts DEF Fresh, Swr, Pc
<1>2. th[p].meta \in AC!Cached
  BY <1>1 DEF Bound, Prepared, Tasks, Opt, AC!Cached
<1>3. p \in Requests /\ th[p].key \in Keys
  BY <1>1, RequestOnly
<1>4. CASE Fresh(p)
  <2>1. th' = [th EXCEPT ![p] = Answer(th[p], "serve")]
    BY <1>1, <1>2, <1>4 DEF Fresh
  <2> QED
    BY <1>3, <1>4, <2>1, AnswerAdvances DEF Fresh
<1>5. CASE Swr(p)
  <2>1. th' = [th EXCEPT ![p].pc = "trigger"] /\ UNCHANGED <<flight, meta>>
    BY <1>2, <1>5 DEF Swr, Goto
  <2>2. th'[p].pc = "trigger" /\ th'[p].key = th[p].key /\ OthersStay(p)
    BY <1>1, <2>1 DEF Tasks, OthersStay
  <2>3. SWR /\ meta'[th'[p].key] # None
    BY <1>1, <1>5, <2>1, <2>2 DEF Bound, Swr, Pc
  <2> QED
    BY <1>3, <2>1, <2>2, <2>3, RequestMove
<1> QED
  BY <1>1, <1>4, <1>5

LEMMA TriggerAdvances ==
  ASSUME Stoppable, IInv, Owned, StopInv, [Next]_vars, NEW p \in Procs, Trigger(p)
  PROVE  Advances(p)
<1>1. th \in [Procs -> Tasks] /\ th[p].pc = "trigger" /\ InFlight
  BY StopFacts DEF Trigger, Pc, StopInv
<1>2. p \in Requests /\ th[p].key \in Keys
  BY <1>1, RequestOnly
<1> DEFINE k == th[p].key
           t == Answer(th[p], "serve")
           b == [NoTask EXCEPT !.pc = "resolve", !.op = "background", !.key = k]
<1>3. /\ th' = [q \in Procs |-> IF q = p THEN t
                                ELSE IF q = k /\ k \notin refreshing THEN b ELSE th[q]]
      /\ UNCHANGED flight
  BY DEF Trigger, Key
<1>4. t.pc = "serve" /\ b.pc = "resolve" /\ b.key = k
  BY DEF Answer, NoTask
<1> HIDE DEF t, b
<1>5. ASSUME NEW q \in Procs PROVE Bound(entries', meta', refreshing', q, th'[q])
  <2>1. CASE q = p
    <3>1. th'[q].pc \in FreePCs /\ q \notin Keys
      BY <1>2, <1>3, <1>4, <2>1, Roles DEF FreePCs
    <3> QED
      BY <3>1, FreeBound
  <2>2. CASE q # p /\ q = k /\ k \notin refreshing
    <3>1. th'[q] = b /\ q \notin Requests
      BY <1>2, <1>3, <2>2, Roles
    <3> QED
      BY <1>4, <2>2, <3>1 DEF Bound, EvictedPCs, EvictPCs
  <2>3. CASE q # p /\ ~(q = k /\ k \notin refreshing)
    BY <1>3, <2>3, BoundStays
  <2> QED
    BY <2>1, <2>2, <2>3
<1>6. ASSUME NEW q \in Requests, th'[q].pc \in InCall PROVE flight'[th'[q].key] = q
  <2>1. q \in Procs /\ q # k
    BY <1>2, Roles
  <2>2. q # p
    BY <1>3, <1>4, <1>6, <2>1 DEF InCall
  <2>3. th'[q] = th[q]
    BY <1>3, <2>1, <2>2
  <2> QED
    BY <1>1, <1>3, <1>6, <2>3 DEF InFlight, Pc, Key
<1>7. ASSUME NEW q \in Procs, q # p
      PROVE  th'[q] = th[q] \/ (th[q].pc = "idle" /\ q \in Keys)
  <2>1. q = k => (k \in refreshing <=> th[q].pc \in InCall)
    BY <1>2, <1>7 DEF IInv, Threads, RefreshMarked, Pc, InCall
  <2>2. q = k => th[q].pc = "idle" \/ th[q].pc \in InCall
    BY <1>2, Here DEF Task
  <2> QED
    BY <1>2, <1>3, <1>7, <2>1, <2>2
<1>8. BoundTasks' /\ InFlight'
  BY <1>5, <1>6 DEF BoundTasks, InFlight, Pc, Key, InCall
<1> QED
  BY <1>7, <1>8 DEF Advances

\* A request joins the call of its key, or leads it if there is none.
LEMMA DoAdvances ==
  ASSUME Stoppable, IInv, Owned, StopInv, [Next]_vars, NEW p \in Procs, Do(p)
  PROVE  Advances(p)
<1>1. /\ th \in [Procs -> Tasks] /\ th[p] \in Tasks /\ th[p].pc = "do" /\ InFlight
      /\ Bound(entries, meta, refreshing, p, th[p]) /\ UNCHANGED refreshing
  BY StopFacts DEF Do, Pc, StopInv
<1>2. p \in Requests /\ th[p].key \in Keys /\ p \notin Keys
  BY <1>1, RequestOnly, Roles
<1>3. CASE flight[Key(p)] # None
  <2>1. UNCHANGED flight /\ th' = [th EXCEPT ![p].pc = "wait"]
    BY <1>3 DEF Do, Goto
  <2>2. th'[p].pc = "wait" /\ OthersStay(p)
    BY <1>1, <2>1 DEF Tasks, OthersStay
  <2> QED
    BY <1>2, <2>1, <2>2, FreeMove DEF FreePCs
<1>4. CASE flight[Key(p)] = None
  <2>1. flight' = [flight EXCEPT ![th[p].key] = p] /\ th' = [th EXCEPT ![p].pc = "resolve"]
    BY <1>4 DEF Do, Goto, Key
  <2>2. th'[p].pc = "resolve" /\ th'[p].key = th[p].key /\ OthersStay(p)
    BY <1>1, <2>1 DEF Tasks, OthersStay
  <2>3. ASSUME NEW q \in Procs PROVE Bound(entries', meta', refreshing', q, th'[q])
    <3>1. CASE q # p
      BY <2>2, <3>1, BoundStays DEF OthersStay
    <3>2. CASE q = p
      <4>1. th[p].key \notin refreshing
        BY <1>1, <1>2 DEF Bound, WorkPCs
      <4> QED
        BY <1>1, <1>2, <2>2, <3>2, <4>1 DEF Bound, EvictedPCs, EvictPCs
    <3> QED
      BY <3>1, <3>2
  <2>4. ASSUME NEW q \in Requests, th'[q].pc \in InCall PROVE flight'[th'[q].key] = q
    <3>1. flight \in [Keys -> Opt(Requests)]
      BY DEF IInv, Threads
    <3>2. CASE q = p
      BY <1>2, <2>1, <2>2, <3>1, <3>2
    <3>3. CASE q # p
      <4>1. th'[q] = th[q] /\ flight[th[q].key] = q
        BY <1>1, <2>2, <2>4, <3>3, Roles DEF OthersStay, InFlight, Pc, Key
      <4>2. th[q].key # th[p].key
        BY <1>4, <4>1, Roles DEF Key
      <4> QED
        BY <2>1, <3>1, <4>1, <4>2
    <3> QED
      BY <3>2, <3>3
  <2>5. BoundTasks' /\ InFlight'
    BY <2>3, <2>4 DEF BoundTasks, InFlight, Pc, Key, InCall
  <2> QED
    BY <2>2, <2>5 DEF Advances, OthersStay
<1> QED
  BY <1>3, <1>4

LEMMA StartAdvances ==
  ASSUME Stoppable, IInv, Owned, StopInv, [Next]_vars,
         NEW p \in Requests, NEW o \in {"serve", "refresh"}, NEW k \in Keys, Start(p, o, k)
  PROVE  Advances(p)
<1>1. th \in [Procs -> Tasks] /\ p \in Procs /\ p \notin Keys /\ UNCHANGED <<flight, refreshing>>
  BY StopFacts, Roles DEF Start
<1>2. CASE o = "serve"
  <2>1. th' = [th EXCEPT ![p] = [NoTask EXCEPT !.op = o, !.key = k, !.pc = "lookup"]]
    BY <1>2 DEF Start
  <2>2. th'[p].pc = "lookup" /\ OthersStay(p)
    BY <1>1, <2>1 DEF NoTask, OthersStay
  <2> QED
    BY <1>1, <2>2, FreeMove DEF FreePCs
<1>3. CASE o = "refresh"
  <2>1. th' = [th EXCEPT ![p] = [NoTask EXCEPT !.op = o, !.key = k, !.pc = "do"]]
    BY <1>3 DEF Start
  <2>2. th'[p].pc = "do" /\ OthersStay(p)
    BY <1>1, <2>1 DEF NoTask, OthersStay
  <2>3. ~SWR
    BY <1>3 DEF Start, Stoppable
  <2>4. th'[p].key \notin refreshing'
    BY <1>1, <2>3 DEF StopInv, RefreshKnown
  <2> QED
    BY <1>1, <2>2, <2>4, RequestMove
<1> QED
  BY <1>2, <1>3

-----------------------------------------------------------------------------
(* The work in a call.                                                     *)

LEMMA ResolveAdvances ==
  ASSUME Stoppable, IInv, Owned, StopInv, [Next]_vars, NEW p \in Procs, Resolve(p) \/ Guard(p)
  PROVE  Advances(p)
<1>1. /\ th \in [Procs -> Tasks] /\ th[p] \in Tasks
      /\ th[p].pc \in {"resolve", "guard"} /\ th[p].pc \in InCall
  BY StopFacts DEF Resolve, Guard, Pc, InCall
<1>2. CASE Resolve(p)
  <2>0. th[p].pc = "resolve"
    BY <1>2 DEF Resolve, Pc
  <2>1. CASE Return(p, FALSE)
    BY <2>0, <2>1, ReturnAdvances
  <2>2. Key(p) \notin PRs
    BY DEF Stoppable
  <2>3. CASE \E i \in ArtifactsOf[Key(p)], v \in {"head", "listing"} :
               /\ th' = [th EXCEPT ![p].pc = "guard", ![p].id = i, ![p].via = v]
               /\ UNCHANGED <<flight, refreshing>>
    <3>1. PICK i \in ArtifactsOf[Key(p)], v \in {"head", "listing"} :
               /\ th' = [th EXCEPT ![p].pc = "guard", ![p].id = i, ![p].via = v]
               /\ UNCHANGED <<flight, refreshing>>
      BY <2>3
    <3>2. th'[p].pc = "guard" /\ th'[p].key = th[p].key /\ OthersStay(p)
      BY <1>1, <3>1 DEF Tasks, OthersStay
    <3> QED
      BY <1>1, <3>1, <3>2, WorkMove
  <2> QED
    BY <1>2, <2>1, <2>2, <2>3 DEF Resolve
<1>3. CASE Guard(p)
  <2> DEFINE i == IF Older(p) THEN meta[Key(p)].id ELSE None
             x == IF Older(p) THEN "keep" ELSE "have"
  <2>1. th' = [th EXCEPT ![p].pc = x, ![p].seen = i] /\ UNCHANGED <<flight, refreshing>>
    BY <1>3 DEF Guard
  <2>2. x \in {"keep", "have"}
    OBVIOUS
  <2> HIDE DEF x, i
  <2>3. th'[p].pc = x /\ th'[p].key = th[p].key /\ OthersStay(p)
    BY <1>1, <2>1 DEF Tasks, OthersStay
  <2> QED
    BY <1>1, <2>1, <2>2, <2>3, WorkMove
<1> QED
  BY <1>2, <1>3

\* What is in the cache is installed from there; only what is not is downloaded.
LEMMA CachedAdvances ==
  ASSUME Stoppable, IInv, Owned, StopInv, [Next]_vars, NEW p \in Procs, Keep(p) \/ Have(p)
  PROVE  Advances(p)
<1>1. /\ th \in [Procs -> Tasks] /\ th[p] \in Tasks /\ Prepared(th[p])
      /\ th[p].pc \in {"keep", "have"} /\ th[p].pc \in InCall
  BY StopFacts DEF Keep, Have, Pc, InCall
<1>2. ASSUME NEW i, NEW else \in {"have", "download"}, InstallCached(p, i, else),
             else = "download" => i = th[p].id
      PROVE  Advances(p)
  <2>1. UNCHANGED <<flight, refreshing>> /\ UNCHANGED entries
    BY <1>2 DEF InstallCached, AC!Get
  <2>2. CASE i \in AC!Cached
    <3>1. th' = [th EXCEPT ![p] =
                   [th[p] EXCEPT !.pc = "setmeta", !.id = i, !.seen = None, !.fs = entries[i]]]
      BY <1>2, <2>2 DEF InstallCached
    <3>2. th'[p].pc = "setmeta" /\ th'[p].id = i /\ th'[p].key = th[p].key /\ OthersStay(p)
      BY <1>1, <3>1 DEF Tasks, OthersStay
    <3>3. entries'[th'[p].id] # None
      BY <2>1, <2>2, <3>2 DEF AC!Cached
    <3> QED
      BY <1>1, <2>1, <3>2, <3>3, WorkMove
  <2>3. CASE i \notin AC!Cached
    <3>1. th' = [th EXCEPT ![p] = [th[p] EXCEPT !.pc = else, !.seen = None]]
      BY <1>2, <2>3 DEF InstallCached
    <3>2. th'[p].pc = else /\ th'[p].id = th[p].id /\ th'[p].key = th[p].key /\ OthersStay(p)
      BY <1>1, <3>1 DEF Tasks, OthersStay
    <3>3. th[p].id \in Ids
      BY <1>1 DEF Prepared, Tasks, Opt
    <3>4. else = "download" => entries'[th'[p].id] = None
      BY <1>2, <2>1, <2>3, <3>2, <3>3 DEF AC!Cached
    <3> QED
      BY <1>1, <1>2, <2>1, <3>2, <3>4, WorkMove
  <2> QED
    BY <2>2, <2>3
<1>3. Keep(p) => Advances(p)
  BY <1>2 DEF Keep
<1>4. Have(p) => Advances(p)
  BY <1>2 DEF Have
<1> QED
  BY <1>3, <1>4

LEMMA DownloadAdvances ==
  ASSUME Stoppable, IInv, Owned, StopInv, [Next]_vars, NEW p \in Procs, Download(p) \/ Store(p)
  PROVE  Advances(p)
<1>1. /\ th \in [Procs -> Tasks] /\ th[p] \in Tasks
      /\ Bound(entries, meta, refreshing, p, th[p])
  BY StopFacts
<1>2. CASE Download(p)
  <2>1. th[p].pc = "download" /\ th[p].pc \in InCall /\ UNCHANGED entries
    BY <1>2 DEF Download, Pc, InCall
  <2>2. CASE Return(p, FALSE)
    BY <2>1, <2>2, ReturnAdvances
  <2>3. CASE \E c \in Copies : /\ th' = [th EXCEPT ![p].pc = "store", ![p].fs = <<th[p].id, c>>]
                             /\ UNCHANGED <<flight, refreshing>>
    <3>1. PICK c \in Copies : /\ th' = [th EXCEPT ![p].pc = "store", ![p].fs = <<th[p].id, c>>]
                             /\ UNCHANGED <<flight, refreshing>>
      BY <2>3
    <3>2. /\ th'[p].pc = "store" /\ th'[p].id = th[p].id /\ th'[p].key = th[p].key
          /\ OthersStay(p)
      BY <1>1, <3>1 DEF Tasks, OthersStay
    <3>3. entries'[th'[p].id] = None
      BY <1>1, <2>1, <3>2 DEF Bound
    <3> QED
      BY <2>1, <3>1, <3>2, <3>3, WorkMove
  <2> QED
    BY <1>2, <2>2, <2>3 DEF Download
<1>3. CASE Store(p)
  <2>1. /\ th[p].id \in Ids /\ th[p].fs # None /\ th[p].pc = "store"
        /\ entries' = [j \in Ids |-> IF j = th[p].id THEN th[p].fs ELSE entries[j]]
        /\ th' = [th EXCEPT ![p].pc = "setmeta", ![p].todo = {}]
    BY <1>3, StoredNew
  <2>2. UNCHANGED <<flight, refreshing>> /\ th[p].pc \in InCall
    BY <1>3, <2>1 DEF Store, InCall
  <2>3. /\ th'[p].pc = "setmeta" /\ th'[p].id = th[p].id /\ th'[p].key = th[p].key
        /\ OthersStay(p)
    BY <1>1, <2>1 DEF Tasks, OthersStay
  <2>4. entries'[th'[p].id] # None
    BY <2>1, <2>3
  <2> QED
    BY <2>2, <2>3, <2>4, WorkMove
<1> QED
  BY <1>2, <1>3

LEMMA InstalledAdvances ==
  ASSUME Stoppable, IInv, Owned, StopInv, [Next]_vars, NEW p \in Procs, SetMeta(p) \/ Register(p)
  PROVE  Advances(p)
<1>1. /\ th \in [Procs -> Tasks] /\ th[p] \in Tasks
      /\ th[p].pc \in {"setmeta", "register"} /\ th[p].pc \in InCall
  BY StopFacts DEF SetMeta, Register, Pc, InCall
<1>2. CASE SetMeta(p)
  <2>1. /\ th' = [th EXCEPT ![p].pc = "register"] /\ UNCHANGED <<flight, refreshing>>
        /\ meta' = [meta EXCEPT ![th[p].key] = [id |-> th[p].id, fresh |-> TRUE]]
    BY <1>2 DEF SetMeta, Goto, Key
  <2>2. th'[p].pc = "register" /\ th'[p].key = th[p].key /\ OthersStay(p)
    BY <1>1, <2>1 DEF Tasks, OthersStay
  <2>3. th[p].key \in Keys /\ th[p].id \in Ids
    <3>1. Prepared(th[p])
      BY StopFacts
    <3> QED
      BY <1>1, <3>1 DEF Prepared, Tasks, Opt
  <2>4. meta'[th'[p].key] # None
    <3>1. meta'[th[p].key] = [id |-> th[p].id, fresh |-> TRUE]
      BY <2>1, <2>3 DEF IInv, Books
    <3>2. [id |-> th[p].id, fresh |-> TRUE] \in [id : Ids, fresh : BOOLEAN]
      BY <2>3
    <3>3. None \notin [id : Ids, fresh : BOOLEAN]
      BY NoneAssumption
    <3> QED
      BY <2>2, <3>1, <3>2, <3>3
  <2> QED
    BY <1>1, <2>1, <2>2, <2>4, WorkMove
<1>3. CASE Register(p)
  BY <1>3, ReturnAdvances DEF Register, Pc
<1> QED
  BY <1>2, <1>3

\* After an error.
LEMMA ErrorAdvances ==
  ASSUME Stoppable, IInv, Owned, StopInv, [Next]_vars, NEW p \in Procs,
         ErrGet(p) \/ ErrArt(p) \/ ErrTouch(p)
  PROVE  Advances(p)
<1>1. /\ th \in [Procs -> Tasks] /\ th[p] \in Tasks
      /\ Bound(entries, meta, refreshing, p, th[p])
      /\ th[p].pc \in {"errget", "errart", "errtouch"}
  BY StopFacts DEF ErrGet, ErrArt, ErrTouch, Pc
<1>2. p \in Requests /\ th[p].key \in Keys /\ p \notin Keys
  BY <1>1, RequestOnly, Roles
<1>3. UNCHANGED flight
  BY DEF ErrGet, ErrArt, ErrTouch
<1>4. meta[th[p].key] # None => meta'[th[p].key] # None
  BY <1>2, MetaStays DEF MetaStep
<1>5. ASSUME NEW x, th'[p].pc = x, th'[p].key = th[p].key, OthersStay(p),
             \/ x = "fail"
             \/ x \in {"errart", "errtouch", "errreg"} /\ meta[th[p].key] # None
      PROVE  Advances(p)
  <2>1. CASE x = "fail"
    BY <1>2, <1>3, <1>5, <2>1, FreeMove DEF FreePCs
  <2>2. CASE x \in {"errart", "errtouch", "errreg"} /\ meta[th[p].key] # None
    BY <1>2, <1>3, <1>4, <1>5, <2>2, RequestMove
  <2> QED
    BY <1>5, <2>1, <2>2
<1>6. CASE ErrGet(p)
  <2> DEFINE m == meta[th[p].key]
             x == IF m = None THEN "fail" ELSE "errart"
             i == IF m = None THEN None ELSE m.id
  <2>1. th' = [th EXCEPT ![p].pc = x, ![p].seen = i]
    BY <1>6 DEF ErrGet, Key
  <2>2. \/ x = "fail"
        \/ x = "errart" /\ meta[th[p].key] # None
    OBVIOUS
  <2> HIDE DEF x, i
  <2>3. th'[p].pc = x /\ th'[p].key = th[p].key /\ OthersStay(p)
    BY <1>1, <2>1 DEF Tasks, OthersStay
  <2> QED
    BY <1>5, <2>2, <2>3
<1>7. CASE ErrArt(p)
  <2> DEFINE x == IF th[p].seen \in AC!Cached THEN "errtouch" ELSE "fail"
             f == entries[th[p].seen]
  <2>1. th' = [th EXCEPT ![p].pc = x, ![p].fs = f, ![p].seen = None]
    BY <1>7 DEF ErrArt
  <2>2. x = "fail" \/ x = "errtouch"
    OBVIOUS
  <2>3. meta[th[p].key] # None
    BY <1>1, <1>7 DEF ErrArt, Pc, Bound
  <2> HIDE DEF x, f
  <2>4. th'[p].pc = x /\ th'[p].key = th[p].key /\ OthersStay(p)
    BY <1>1, <2>1 DEF Tasks, OthersStay
  <2> QED
    BY <1>5, <2>2, <2>3, <2>4
<1>8. CASE ErrTouch(p)
  <2>1. th' = [th EXCEPT ![p].pc = "errreg"]
    BY <1>8 DEF ErrTouch, Goto
  <2>2. meta[th[p].key] # None
    BY <1>1, <1>8 DEF ErrTouch, Pc, Bound
  <2>3. th'[p].pc = "errreg" /\ th'[p].key = th[p].key /\ OthersStay(p)
    BY <1>1, <2>1 DEF Tasks, OthersStay
  <2> QED
    BY <1>5, <2>2, <2>3
<1> QED
  BY <1>6, <1>7, <1>8

LEMMA AnswersAdvance ==
  ASSUME Stoppable, IInv, Owned, StopInv, [Next]_vars, NEW p \in Procs,
         ErrReg(p) \/ Report(p) \/ Respond(p)
  PROVE  Advances(p)
<1>1. th \in [Procs -> Tasks] /\ th[p] \in Tasks
  BY StopFacts
<1>2. CASE ErrReg(p)
  <2>1. th' = [th EXCEPT ![p] = Answer(th[p], "serve")] /\ UNCHANGED flight
    BY <1>1, <1>2 DEF ErrReg
  <2>2. p \in Requests
    BY <1>2, RequestOnly DEF ErrReg, Pc
  <2> QED
    BY <2>1, <2>2, AnswerAdvances
<1>3. CASE Report(p)
  <2> DEFINE i == IF meta[Key(p)] = None THEN None ELSE meta[Key(p)].id
  <2>1. PICK x \in {"reported", "conflict"} : th' = [th EXCEPT ![p].pc = x, ![p].seen = i]
    <3>1. PICK expected \in Opt(Ids) :
            th' = [th EXCEPT ![p].pc = IF expected \in {None, i} THEN "reported" ELSE "conflict",
                             ![p].seen = i]
      BY <1>3 DEF Report
    <3> HIDE DEF i
    <3> QED
      BY <3>1
  <2> HIDE DEF i
  <2>2. th'[p].pc = x /\ OthersStay(p)
    BY <1>1, <2>1 DEF Tasks, OthersStay
  <2>3. p \notin Keys /\ UNCHANGED flight
    BY <1>3, RequestOnly, Roles DEF Report, Pc
  <2> QED
    BY <2>2, <2>3, FreeMove DEF FreePCs
<1>4. CASE Respond(p)
  BY <1>4, AnswerAdvances DEF Respond
<1> QED
  BY <1>2, <1>3, <1>4

LEMMA ResolvingAdvances ==
  ASSUME Stoppable, IInv, Owned, StopInv, [Next]_vars, NEW p \in Procs, Resolving(p), ~Clean(p)
  PROVE  Advances(p)
BY LookupAdvances, FreshAdvances, TriggerAdvances, DoAdvances, ResolveAdvances, CachedAdvances,
   DownloadAdvances, InstalledAdvances, ErrorAdvances, AnswersAdvance
DEF Resolving

\* The pruner leaves, and Cleanup goes through its phases.
LEMMA CleanupAdvances ==
  ASSUME Stoppable, IInv, Owned, StopInv, [Next]_vars, PrunerExit \/ Stop \/ Stopping
  PROVE  (\E p \in {Pruner, Stopper} : Advances(p)) \/ UNCHANGED <<th, flight>>
<1>1. th \in [Procs -> Tasks]
  BY StopFacts, Roles
<1>2. UNCHANGED flight
  BY DEF PrunerExit, Stop, Stopping, Drained, Unregister, CleanupAll, Purge
<1>3. ASSUME NEW p \in {Pruner, Stopper}, NEW x \in FreePCs,
             Goto(p, x) \/ \E T : th' = [th EXCEPT ![p].pc = x, ![p].todo = T]
      PROVE  Advances(p)
  <2>1. p \in Procs /\ p \notin Keys /\ th[p] \in Tasks
    BY <1>1, Roles
  <2>2. th'[p].pc = x /\ OthersStay(p)
    <3>1. CASE Goto(p, x)
      BY <1>1, <2>1, <3>1 DEF Goto, Tasks, OthersStay
    <3>2. CASE \E T : th' = [th EXCEPT ![p].pc = x, ![p].todo = T]
      <4>1. PICK T : th' = [th EXCEPT ![p].pc = x, ![p].todo = T]
        BY <3>2
      <4> QED
        BY <1>1, <2>1, <4>1 DEF Tasks, OthersStay
    <3> QED
      BY <1>3, <3>1, <3>2
  <2> QED
    BY <1>2, <2>1, <2>2, FreeMove
<1>4. PrunerExit => Advances(Pruner)
  BY <1>3 DEF PrunerExit, FreePCs
<1>5. Stop => Advances(Stopper)
  BY <1>3 DEF Stop, FreePCs
<1>6. Drained => Advances(Stopper)
  BY <1>3 DEF Drained, FreePCs
<1>7. ASSUME CleanupAll PROVE Advances(Stopper)
  <2>1. PICK T : T = AC!Cleanups(Ids)
    OBVIOUS
  <2>2. th' = [th EXCEPT ![Stopper].pc = "purge", ![Stopper].todo = T]
    BY <1>7, <2>1 DEF CleanupAll
  <2> QED
    BY <1>3, <2>2 DEF FreePCs
<1>8. Purge => Advances(Stopper)
  BY <1>3 DEF Purge, FreePCs
<1>9. \A k \in Keys : Unregister(k) => UNCHANGED th
  BY DEF Unregister
<1> QED
  BY <1>2, <1>4, <1>5, <1>6, <1>7, <1>8, <1>9 DEF Stopping

\* Some goroutine goes on, or none moves.
LEMMA StepAdvances ==
  ASSUME Stoppable, IInv, Owned, StopInv, [Next]_vars
  PROVE  \/ \E p \in Procs :
              Advances(p) /\ (Resolving(p) \/ p \in {Pruner, Stopper} \/ (p \in Requests /\ Running))
         \/ UNCHANGED <<th, flight>>
<1>1. ASSUME NEW p \in Requests, NEW o \in {"serve", "refresh"}, NEW k \in Keys, Start(p, o, k)
      PROVE  p \in Procs /\ Advances(p) /\ Running
  BY <1>1, StartAdvances, Roles DEF Start
<1>2. (\E k \in Keys : Expire(k)) \/ UNCHANGED vars => UNCHANGED <<th, flight>>
  BY DEF Expire, vars
<1> QED
  BY <1>1, <1>2, ResolvingAdvances, CleanupAdvances, StopSteps, Roles

LEMMA TasksAdvance ==
  ASSUME Stoppable, IInv, Owned, StopInv, [Next]_vars
  PROVE  BoundTasks' /\ InFlight'
<1>1. ASSUME UNCHANGED <<th, flight>> PROVE BoundTasks' /\ InFlight'
  <2>1. BoundTasks'
    BY <1>1, BoundStays DEF BoundTasks
  <2>2. InFlight'
    BY <1>1 DEF StopInv, InFlight, Pc, Key, InCall
  <2> QED
    BY <2>1, <2>2
<1> QED
  BY <1>1, StepAdvances DEF Advances

-----------------------------------------------------------------------------
(* The data, and Cleanup.                                                  *)

\* A background refresh is of a key with metadata.
LEMMA RefreshKnownKeep ==
  ASSUME Stoppable, IInv, Owned, StopInv, [Next]_vars
  PROVE  RefreshKnown'
<1>1. \A k \in refreshing : SWR /\ meta[k] # None /\ k \in Keys
  BY DEF StopInv, RefreshKnown, IInv, Threads
<1>2. \A k \in Keys : meta[k] # None => meta'[k] # None
  BY MetaStays DEF MetaStep
<1>3. CASE refreshing' \subseteq refreshing
  BY <1>1, <1>2, <1>3 DEF RefreshKnown
<1>4. ASSUME NEW p \in Procs, Trigger(p) PROVE RefreshKnown'
  <2>1. refreshing' = refreshing \cup {th[p].key} /\ th[p].pc = "trigger"
    BY <1>4 DEF Trigger, Key, Pc
  <2>2. SWR /\ meta[th[p].key] # None /\ th[p].key \in Keys
    BY <2>1, StopFacts, RequestOnly DEF Bound
  <2> QED
    BY <1>1, <1>2, <2>1, <2>2 DEF RefreshKnown
<1> QED
  BY <1>3, <1>4, MarksStay

\* Who is idle is not at work on a request or in a call.
LEMMA IdleRests ==
  ASSUME NEW p \in Procs, th[p].pc \in {"idle", "exited", "drain", "unregister", "purge", "stopped"}
  PROVE  ~Resolving(p)
BY DEF Resolving, Lookup, Fresh, Swr, Trigger, Do, Resolve, Guard, Keep, Have, Download, Store, Clean,
       SetMeta, Register, ErrGet, ErrArt, ErrTouch, ErrReg, Report, Respond, Pc

\* Where the Stopper is only Cleanup decides.
LEMMA StopperStays ==
  ASSUME Stoppable, IInv, Owned, StopInv, [Next]_vars
  PROVE  \/ th'[Stopper] = th[Stopper]
         \/ Stop \/ Drained \/ CleanupAll \/ Purge
<1>1. Stopper \in Procs /\ Stopper # Pruner /\ Stopper \notin Requests \cup Keys
  BY Roles
<1>2. th[Stopper].pc \in StopperPCs
  BY <1>1, Here DEF Task
<1>3. ASSUME NEW p \in Procs, Resolving(p), ~Clean(p) PROVE th'[Stopper] = th[Stopper]
  <2>1. p # Stopper
    BY <1>1, <1>2, <1>3, IdleRests DEF StopperPCs
  <2>2. Advances(p)
    BY <1>3, ResolvingAdvances
  <2> QED
    BY <1>1, <2>1, <2>2 DEF Advances
<1>4. ASSUME NEW p \in Requests, NEW o \in {"serve", "refresh"}, NEW k \in Keys, Start(p, o, k)
      PROVE  th'[Stopper] = th[Stopper]
  <2>1. Advances(p) /\ p # Stopper
    BY <1>1, <1>4, StartAdvances
  <2> QED
    BY <1>1, <2>1 DEF Advances
<1>5. PrunerExit => th'[Stopper] = th[Stopper]
  BY <1>1, StopFacts DEF PrunerExit, Goto
<1>6. (\E k \in Keys : Unregister(k) \/ Expire(k)) \/ UNCHANGED vars => UNCHANGED th
  BY DEF Unregister, Expire, vars
<1> QED
  BY <1>3, <1>4, <1>5, <1>6, StopSteps DEF Stopping

\* Once Cleanup has begun no request starts; once the background refreshes are over nobody
\* works but Cleanup.
LEMMA CleanupAlone ==
  ASSUME Stoppable, IInv, Owned, StopInv, [Next]_vars,
         th[Stopper].pc \in {"unregister", "purge", "stopped"}
  PROVE  \/ Stopping
         \/ UNCHANGED <<entries, open, fsmap, refreshing, doomed>>
<1>1. \A p \in Requests \cup Keys : th[p].pc = "idle"
  BY CleanupRests
<1>2. \A p \in Procs : ~Resolving(p)
  <2>1. \A p \in Procs : th[p].pc \in {"idle", "exited", "drain", "unregister", "purge", "stopped"}
    BY <1>1, NobodyEvicts DEF Procs
  <2> QED
    BY <2>1, IdleRests
<1>3. ~Running
  BY DEF Running, Pc
<1>4. ~Stop /\ \A p \in Requests, o \in {"serve", "refresh"}, k \in Keys : ~Start(p, o, k)
  BY <1>3 DEF Stop, Start
<1>5. PrunerExit \/ (\E k \in Keys : Expire(k)) \/ UNCHANGED vars
        => UNCHANGED <<entries, open, fsmap, refreshing, doomed>>
  BY DEF PrunerExit, Expire, vars, caches, sweep
<1> QED
  BY <1>2, <1>4, <1>5, StopSteps

\* What is registered has metadata.
LEMMA MapMoves ==
  ASSUME Stoppable, IInv, Owned, StopInv, [Next]_vars, NEW k \in Keys, fsmap'[k] # None
  PROVE  fsmap[k] # None \/ meta[k] # None
<1>1. \A p \in Procs : th[p].pc \in {"register", "errreg"} =>
        th[p].key \in Keys /\ meta[th[p].key] # None
  <2> SUFFICES ASSUME NEW p \in Procs, th[p].pc \in {"register", "errreg"}
               PROVE  th[p].key \in Keys /\ meta[th[p].key] # None
    OBVIOUS
  <2>1. Bound(entries, meta, refreshing, p, th[p]) /\ th[p] \in Tasks /\ Prepared(th[p])
    BY StopFacts
  <2> QED
    BY <2>1 DEF Bound, Prepared, Tasks, Opt
<1>2. fsmap \in [Keys -> Opt(Handles)]
  BY DEF IInv, Books
<1>3. ASSUME NEW p \in Procs, Resolving(p), ~Clean(p)
      PROVE  UNCHANGED fsmap \/ Register(p) \/ ErrReg(p)
  BY <1>3
  DEF Resolving, Lookup, Fresh, Swr, Trigger, Do, Resolve, Guard, Keep, Have, InstallCached,
      Download, Store, SetMeta, ErrGet, ErrArt, ErrTouch, Report, Respond
<1>4. ASSUME NEW p \in Procs, Register(p) \/ ErrReg(p) PROVE fsmap[k] # None \/ meta[k] # None
  <2>1. th[p].pc \in {"register", "errreg"} /\ fsmap' = [fsmap EXCEPT ![th[p].key] = th[p].fs]
    BY <1>4 DEF Register, ErrReg, Pc, Key
  <2> QED
    BY <1>1, <1>2, <2>1
<1>5. ASSUME NEW j \in Keys, Unregister(j) PROVE fsmap[k] # None
  BY <1>2, <1>5 DEF Unregister, Unregistered
<1>6. ASSUME Stop \/ PrunerExit \/ Drained \/ CleanupAll \/ Purge \/ UNCHANGED vars
      PROVE  UNCHANGED fsmap
  BY <1>6 DEF Stop, PrunerExit, Drained, CleanupAll, Purge, vars
<1> QED
  BY <1>3, <1>4, <1>5, <1>6, StopSteps DEF Stopping, Start, Expire

\* What metadata name is cached, as long as nobody empties the cache.
LEMMA MetaCachedKeep ==
  ASSUME Stoppable, IInv, Owned, StopInv, [Next]_vars, MetaCached, ~CleanupAll
  PROVE  MetaCached'
<1> SUFFICES ASSUME NEW k \in Keys, meta'[k] # None PROVE entries'[meta'[k].id] # None
  BY DEF MetaCached
<1>1. ASSUME NEW i \in Ids, entries[i] # None PROVE entries'[i] # None
  <2>1. ASSUME NEW p \in Procs, Store(p) PROVE entries'[i] # None
    <3>1. /\ th[p].fs # None
          /\ entries' = [j \in Ids |-> IF j = th[p].id THEN th[p].fs ELSE entries[j]]
      BY <2>1, StoredNew
    <3> QED
      BY <1>1, <3>1
  <2> QED
    BY <1>1, <2>1, EntriesStay
<1>2. CASE meta[k] # None /\ meta'[k].id = meta[k].id
  <2>1. meta[k].id \in Ids /\ entries[meta[k].id] # None
    BY <1>2 DEF MetaCached, IInv, Books, Opt
  <2> QED
    BY <1>1, <1>2, <2>1
<1>3. ASSUME NEW p \in Procs, SetMeta(p), th[p].key = k, meta'[k].id = th[p].id
      PROVE  entries'[meta'[k].id] # None
  <2>1. th[p].pc = "setmeta" /\ th[p].id \in Ids /\ entries[th[p].id] # None
    <3>1. Bound(entries, meta, refreshing, p, th[p]) /\ th[p] \in Tasks /\ Prepared(th[p])
      BY StopFacts
    <3>2. th[p].pc = "setmeta"
      BY <1>3 DEF SetMeta, Pc
    <3> QED
      BY <3>1, <3>2 DEF Bound, Prepared, Tasks, Opt
  <2> QED
    BY <1>1, <1>3, <2>1
<1> QED
  BY <1>2, <1>3, MetaStays DEF MetaStep

LEMMA BeforeKeep ==
  ASSUME Stoppable, IInv, Owned, StopInv, [Next]_vars
  PROVE  Before'
<1> SUFFICES ASSUME th'[Stopper].pc \in {"idle", "drain"}
             PROVE  /\ MetaCached'
                    /\ \A k \in Keys : fsmap'[k] # None => meta'[k] # None
  BY DEF Before, Pc
<1>1. th \in [Procs -> Tasks] /\ Stopper \in Procs /\ th[Stopper] \in Tasks
  BY StopFacts, Roles
<1>2. ~Drained /\ ~CleanupAll /\ ~Purge
  BY <1>1 DEF Drained, CleanupAll, Purge, Goto, Tasks
<1>3. th[Stopper].pc \in {"idle", "drain"}
  BY <1>2, StopperStays DEF Stop, Running, Pc
<1>4. MetaCached /\ \A k \in Keys : fsmap[k] # None => meta[k] # None
  BY <1>3 DEF StopInv, Before, Pc
<1>5. MetaCached'
  BY <1>2, <1>4, MetaCachedKeep
<1>6. ASSUME NEW k \in Keys, fsmap'[k] # None PROVE meta'[k] # None
  <2>1. meta[k] # None
    BY <1>4, <1>6, MapMoves
  <2> QED
    BY <2>1, MetaStays DEF MetaStep
<1> QED
  BY <1>5, <1>6

\* Requests start only before Cleanup, and all have been answered when it begins.
LEMMA RequestsRest ==
  ASSUME Stoppable, IInv, Owned, StopInv, [Next]_vars, th'[Stopper].pc # "idle",
         NEW r \in Requests
  PROVE  th'[r].pc = "idle"
<1>1. th \in [Procs -> Tasks] /\ r \in Procs /\ r # Stopper /\ r # Pruner /\ r \notin Keys
  BY StopFacts, Roles
<1>2. CASE Stop
  BY <1>1, <1>2 DEF Stop, Goto, Pc
<1>3. CASE ~Stop
  <2>1. th[Stopper].pc # "idle"
    BY <1>3, StopperStays DEF Drained, CleanupAll, Purge, Pc
  <2>2. th[r].pc = "idle" /\ ~Running
    BY <2>1 DEF StopInv, After, Pc, Running
  <2>3. ~Resolving(r)
    BY <1>1, <2>2, IdleRests
  <2>4. ASSUME NEW p \in Procs, Advances(p), p # r PROVE th'[r] = th[r]
    BY <1>1, <2>2, <2>4 DEF Advances
  <2>5. CASE UNCHANGED <<th, flight>>
    BY <2>2, <2>5
  <2>6. ASSUME NEW p \in Procs, Advances(p),
               Resolving(p) \/ p \in {Pruner, Stopper} \/ (p \in Requests /\ Running)
        PROVE  th'[r].pc = "idle"
    BY <1>1, <2>2, <2>3, <2>4, <2>6
  <2> QED
    BY <2>5, <2>6, StepAdvances
<1> QED
  BY <1>2, <1>3

\* Cleanup waits for the background refreshes, unregisters every key, empties the cache and
\* then closes every file.
LEMMA AfterKeep ==
  ASSUME Stoppable, IInv, Owned, StopInv, [Next]_vars
  PROVE  After'
<1> DEFINE pc == th[Stopper].pc
           Ends == {"unregister", "purge", "stopped"}
<1>1. th \in [Procs -> Tasks] /\ Stopper \in Procs /\ th[Stopper] \in Tasks /\ DOMAIN th = Procs
  BY StopFacts, Roles
<1>2. /\ Stop => th'[Stopper].pc = "drain"
      /\ Drained => pc = "drain" /\ th'[Stopper].pc = "unregister"
      /\ CleanupAll => pc = "unregister" /\ th'[Stopper].pc = "purge"
      /\ Purge => pc = "purge" /\ th'[Stopper].pc = "stopped"
  <2>1. Stop => th'[Stopper].pc = "drain"
    BY <1>1 DEF Stop, Goto, Tasks
  <2>2. Drained => pc = "drain" /\ th'[Stopper].pc = "unregister"
    BY <1>1 DEF Drained, Goto, Pc, Tasks
  <2>3. ASSUME CleanupAll PROVE pc = "unregister" /\ th'[Stopper].pc = "purge"
    <3>1. PICK T : T = AC!Cleanups(Ids)
      OBVIOUS
    <3>2. th' = [th EXCEPT ![Stopper].pc = "purge", ![Stopper].todo = T]
      BY <2>3, <3>1 DEF CleanupAll
    <3> QED
      BY <1>1, <2>3, <3>2 DEF CleanupAll, Pc, Tasks
  <2>4. Purge => pc = "purge" /\ th'[Stopper].pc = "stopped"
    BY <1>1 DEF Purge, Pc, Tasks
  <2> QED
    BY <2>1, <2>2, <2>3, <2>4
<1>3. th'[Stopper].pc # "idle" => \A p \in Requests : th'[p].pc = "idle"
  BY RequestsRest
<1>4. th'[Stopper].pc \in Ends => pc \in Ends \/ Drained
  BY <1>2, StopperStays
<1>5. pc \in Ends => \/ Stopping
                     \/ UNCHANGED <<entries, open, fsmap, refreshing, doomed>>
  BY CleanupAlone
<1>6. fsmap \in [Keys -> Opt(Handles)] /\ doomed \subseteq Keys
  BY DEF IInv, Books, Sweep
<1>7. th'[Stopper].pc \in Ends => refreshing' = {}
  <2>1. pc \in Ends => refreshing = {}
    BY DEF StopInv, After, Pc
  <2>2. Stopping => UNCHANGED refreshing
    BY DEF Stopping, Drained, Unregister, CleanupAll, Purge
  <2>3. Drained => refreshing = {} /\ UNCHANGED refreshing
    BY DEF Drained
  <2> QED
    BY <1>4, <1>5, <2>1, <2>2, <2>3
<1>8. ASSUME th'[Stopper].pc = "unregister", NEW k \in Keys, fsmap'[k] # None
      PROVE  k \in doomed'
  <2>1. CASE Drained
    <3>1. fsmap' = fsmap /\ doomed' = {j \in Keys : meta[j] # None}
      BY <2>1 DEF Drained
    <3>2. fsmap[k] # None => meta[k] # None
      BY <1>2, <2>1 DEF StopInv, Before, Pc
    <3> QED
      BY <1>8, <3>1, <3>2
  <2>2. CASE ~Drained
    <3>1. pc = "unregister" /\ ~CleanupAll /\ ~Purge
      BY <1>2, <1>8, <2>2, StopperStays
    <3>2. fsmap[k] # None => k \in doomed
      BY <3>1 DEF StopInv, After, Pc
    <3>3. ASSUME NEW j \in Keys, Unregister(j) PROVE k \in doomed'
      <4>1. doomed' = doomed \ {j} /\ fsmap' = [fsmap EXCEPT ![j] = None]
        BY <3>3 DEF Unregister, Unregistered
      <4> QED
        BY <1>6, <1>8, <3>2, <4>1
    <3>4. UNCHANGED <<fsmap, doomed>> => k \in doomed'
      BY <1>8, <3>2
    <3> QED
      BY <1>5, <2>2, <3>1, <3>3, <3>4 DEF Stopping
  <2> QED
    BY <2>1, <2>2
<1>9. ASSUME th'[Stopper].pc \in {"purge", "stopped"}
      PROVE  /\ \A k \in Keys : fsmap'[k] = None
             /\ \A i \in Ids : entries'[i] = None
  <2>1. CASE CleanupAll
    <3>1. UNCHANGED fsmap /\ doomed = {} /\ entries' = [i \in Ids |-> None]
      BY <2>1 DEF CleanupAll
    <3>2. \A k \in Keys : fsmap[k] # None => k \in doomed
      BY <1>2, <2>1 DEF StopInv, After, Pc
    <3> QED
      BY <3>1, <3>2
  <2>2. CASE ~CleanupAll
    <3>1. pc \in {"purge", "stopped"} /\ ~Drained
      BY <1>2, <1>9, <2>2, StopperStays
    <3>2. (\A k \in Keys : fsmap[k] = None) /\ (\A i \in Ids : entries[i] = None)
      BY <3>1 DEF StopInv, After, Pc
    <3>3. \A k \in Keys : ~Unregister(k)
      BY <3>1 DEF Unregister, Pc
    <3>4. UNCHANGED <<fsmap, entries>>
      BY <1>5, <2>2, <3>1, <3>3 DEF Stopping, Purge
    <3> QED
      BY <3>2, <3>4
  <2> QED
    BY <2>1, <2>2
<1>10. ASSUME th'[Stopper].pc = "stopped" PROVE open' = {}
  <2>1. CASE Purge
    <3>1. open' = open \ th[Stopper].todo
      BY <2>1 DEF Purge
    <3>2. ASSUME NEW h \in open PROVE h \in th[Stopper].todo
      <4>1. h # None
        BY NoneAssumption DEF IInv, CacheData
      <4>2. \A i \in Ids : entries[i] = None
        BY <1>2, <2>1 DEF StopInv, After, Pc
      <4>3. \A p \in Procs : th[p].pc # "store"
        <5>1. \A p \in Requests \cup Keys : th[p].pc = "idle"
          BY <1>2, <2>1, CleanupRests
        <5> QED
          BY <1>2, <2>1, <5>1, NobodyEvicts DEF Procs
      <4> QED
        BY <4>1, <4>2, <4>3 DEF StopInv, OpenReached
    <3> QED
      BY <3>1, <3>2
  <2>2. CASE ~Purge
    <3>1. pc = "stopped" /\ ~Drained /\ ~CleanupAll
      BY <1>2, <1>10, <2>2, StopperStays
    <3>2. open = {}
      BY <3>1 DEF StopInv, After, Pc
    <3>3. \A k \in Keys : ~Unregister(k)
      BY <3>1 DEF Unregister, Pc
    <3> QED
      BY <1>5, <2>2, <3>1, <3>2, <3>3 DEF Stopping
  <2> QED
    BY <2>1, <2>2
<1> QED
  BY <1>3, <1>7, <1>8, <1>9, <1>10 DEF After, Pc

\* A file is opened by its download, and stays where Cleanup finds it.
LEMMA OpenMoves ==
  ASSUME Stoppable, IInv, Owned, StopInv, [Next]_vars, NEW h \in open', h \notin open
  PROVE  \E p \in Procs : th'[p].pc = "store" /\ th'[p].fs = h
<1>1. ASSUME NEW p \in Procs, Download(p)
      PROVE  th'[p].pc = "store" /\ th'[p].fs = h
  <2> DEFINE f(c) == <<th[p].id, c>>
  <2>1. PICK c \in Copies : /\ th' = [th EXCEPT ![p].pc = "store", ![p].fs = f(c)]
                            /\ open' = open \cup {f(c)}
    BY <1>1 DEF Download
  <2> HIDE DEF f
  <2>2. th'[p].pc = "store" /\ th'[p].fs = f(c)
    BY <2>1, StopFacts DEF Tasks
  <2> QED
    BY <2>1, <2>2
<1>2. ASSUME NEW p \in Procs, Resolving(p), ~Clean(p) PROVE UNCHANGED open \/ Download(p)
  BY <1>2
  DEF Resolving, Lookup, Fresh, Swr, Trigger, Do, Resolve, Guard, Keep, Have, InstallCached,
      Store, SetMeta, Register, ErrGet, ErrArt, ErrTouch, ErrReg, Report, Respond, caches
<1>3. PrunerExit \/ Stop \/ Stopping \/ UNCHANGED vars => open' \subseteq open
  BY DEF PrunerExit, Stop, Stopping, Drained, Unregister, CleanupAll, Purge, vars, caches
<1>4. ASSUME NEW p \in Requests, NEW o \in {"serve", "refresh"}, NEW k \in Keys, Start(p, o, k)
      PROVE  UNCHANGED open
  BY <1>4 DEF Start, caches
<1>5. \A k \in Keys : Expire(k) => UNCHANGED open
  BY DEF Expire, caches
<1> QED
  BY <1>1, <1>2, <1>3, <1>4, <1>5, StopSteps

LEMMA OpenReachedKeep ==
  ASSUME Stoppable, IInv, Owned, StopInv, [Next]_vars
  PROVE  OpenReached'
<1> SUFFICES ASSUME NEW h \in open'
             PROVE  \/ \E i \in Ids : entries'[i] = h
                    \/ \E p \in Procs : th'[p].pc = "store" /\ th'[p].fs = h
                    \/ h \in th'[Stopper].todo
  BY DEF OpenReached
<1>1. /\ th \in [Procs -> Tasks] /\ Stopper \in Procs /\ th[Stopper] \in Tasks
      /\ Task(Stopper, th[Stopper])
  BY StopFacts, Roles
<1>2. ASSUME NEW i \in Ids, entries[i] = h, h # None
      PROVE  entries'[i] = h \/ h \in th'[Stopper].todo
  <2>1. ASSUME NEW p \in Procs, Store(p) PROVE entries'[i] = h
    <3>1. /\ entries[th[p].id] = None
          /\ entries' = [j \in Ids |-> IF j = th[p].id THEN th[p].fs ELSE entries[j]]
      BY <2>1, StoredNew
    <3> QED
      BY <1>2, <3>1
  <2>2. ASSUME CleanupAll PROVE h \in th'[Stopper].todo
    <3>1. PICK T : T = AC!Cleanups(Ids)
      OBVIOUS
    <3>2. th' = [th EXCEPT ![Stopper].pc = "purge", ![Stopper].todo = T]
      BY <2>2, <3>1 DEF CleanupAll
    <3>3. th'[Stopper].todo = T
      BY <1>1, <3>2 DEF Tasks
    <3>4. h \in T
      BY <1>2, <3>1 DEF AC!Cleanups, AC!Cached
    <3> QED
      BY <3>3, <3>4
  <2> QED
    BY <1>2, <2>1, <2>2, EntriesStay
<1>3. ASSUME NEW q \in Procs, th[q].pc = "store", th[q].fs = h
      PROVE  \/ \E i \in Ids : entries'[i] = h
             \/ th'[q] = th[q]
  <2>1. CASE Store(q)
    BY <1>3, <2>1, StoredNew
  <2>2. CASE ~Store(q)
    <3>1. ~Resolving(q)
      BY <1>3, <2>2
      DEF Resolving, Lookup, Fresh, Swr, Trigger, Do, Resolve, Guard, Keep, Have, Download, Clean,
          SetMeta, Register, ErrGet, ErrArt, ErrTouch, ErrReg, Report, Respond, Pc
    <3>2. q \notin {Pruner, Stopper}
      BY <1>3, Here, Roles DEF Task, PrunerPCs, StopperPCs
    <3>3. ASSUME NEW p \in Procs, Advances(p), p # q PROVE th'[q] = th[q]
      BY <1>3, <3>3 DEF Advances
    <3>4. ASSUME NEW o \in {"serve", "refresh"}, NEW k \in Keys, Start(q, o, k) PROVE FALSE
      BY <1>3, <3>4 DEF Start, Pc
    <3>5. ASSUME NEW p \in Requests, NEW o \in {"serve", "refresh"}, NEW k \in Keys, Start(p, o, k)
          PROVE  th'[q] = th[q]
      <4>1. p \in Procs /\ Advances(p) /\ p # q
        BY <3>4, <3>5, StartAdvances, Roles
      <4> QED
        BY <3>3, <4>1
    <3>6. ASSUME NEW p \in Procs, Resolving(p), ~Clean(p) PROVE th'[q] = th[q]
      BY <3>1, <3>3, <3>6, ResolvingAdvances
    <3>7. PrunerExit \/ Stop \/ Stopping => th'[q] = th[q]
      BY <3>2, <3>3, CleanupAdvances, Roles
    <3>8. (\E k \in Keys : Expire(k)) \/ UNCHANGED vars => th'[q] = th[q]
      BY DEF Expire, vars
    <3> QED
      BY <3>5, <3>6, <3>7, <3>8, StopSteps
  <2> QED
    BY <2>1, <2>2
<1>4. ASSUME h \in th[Stopper].todo PROVE h \in th'[Stopper].todo
  <2>1. th[Stopper].pc = "purge"
    BY <1>1, <1>4, Roles DEF Task, StopperPCs
  <2>2. ~Purge
    BY <1>4 DEF Purge
  <2>3. ~Stop /\ ~Drained /\ ~CleanupAll
    BY <2>1 DEF Stop, Running, Drained, CleanupAll, Pc
  <2> QED
    BY <1>4, <2>2, <2>3, StopperStays
<1>5. CASE h \in open
  <2>1. h # None
    BY <1>5, NoneAssumption DEF IInv, CacheData
  <2>2. \/ \E i \in Ids : entries[i] = h
        \/ \E p \in Procs : th[p].pc = "store" /\ th[p].fs = h
        \/ h \in th[Stopper].todo
    BY <1>5 DEF StopInv, OpenReached
  <2> QED
    BY <1>2, <1>3, <1>4, <2>1, <2>2
<1>6. CASE h \notin open
  BY <1>6, OpenMoves
<1> QED
  BY <1>5, <1>6

LEMMA InitStop == Init => StopInv
<1> SUFFICES ASSUME Init PROVE StopInv
  OBVIOUS
<1>1. NoTask.pc = "idle" /\ \A p \in Procs : th[p] = NoTask
  BY DEF Init, NoTask
<1>2. BoundTasks
  BY <1>1, FreeBound DEF BoundTasks, FreePCs
<1>3. InFlight
  BY <1>1, Roles DEF InFlight, InCall, Pc
<1>4. Before /\ RefreshKnown
  BY DEF Init, Before, RefreshKnown, MetaCached
<1>5. After
  <2>1. Pc(Stopper) = "idle"
    BY <1>1, Roles DEF Pc
  <2> QED
    BY <2>1 DEF After
<1>6. OpenReached
  BY DEF Init, OpenReached
<1> QED
  BY <1>2, <1>3, <1>4, <1>5, <1>6 DEF StopInv

\* The inductive invariant of a handler that is stopped.
LEMMA StoppingKeep ==
  ASSUME Stoppable
  PROVE  Spec => [](IInv /\ StopInv)
<1>1. IInv /\ Owned /\ StopInv /\ [Next]_vars => StopInv'
  BY TasksAdvance, RefreshKnownKeep, BeforeKeep, AfterKeep, OpenReachedKeep DEF StopInv
<1> QED
  BY <1>1, InitStop, Invariance, Owning, PTL DEF Spec

\* Cleanup (handler.go) is to "unregister all our filesystems from the global map" and to
\* "remove all temp files".  It leaves none, wherever the background refreshes were when it
\* began, because it waits for them before it takes stock of the metadata and the cache.
THEOREM NothingLeft ==
  ASSUME Stoppable
  PROVE  Spec => []StopLeavesNothing
<1>1. StopInv => StopLeavesNothing
  BY DEF StopInv, After, StopLeavesNothing
<1> QED
  BY <1>1, StoppingKeep, PTL
=============================================================================
