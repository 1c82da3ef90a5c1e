------------------------ MODULE GithubPreviewProofs ------------------------
(***************************************************************************)
(* For any keys, artifacts, requests, any max_artifacts and any options,   *)
(* under every interleaving of the requests, the background refreshes, the *)
(* pruner and the shutdown:                                                *)
(*   - the local variables a step uses are set (TypeOK);                   *)
(*   - who waits for a singleflight call waits for one that has a leader   *)
(*     (NoOrphanWaiter);                                                   *)
(*   - a refresh mark is set exactly while its refresh runs                *)
(*     (RefreshMarked);                                                    *)
(*   - the handler uses its artifact cache as ArtifactCache describes      *)
(*     (CacheUsedRight), so that what ArtifactCacheProofs proves of the    *)
(*     cache holds in the handler.                                         *)
(*                                                                         *)
(* None of these is inductive.  A leader may return, so that the waiters   *)
(* wake, only from a place that knows whether it leads a call: the         *)
(* invariant IInv says which kind of goroutine can be where and on whose   *)
(* behalf (Task), that a leader of a flight works on its key for a request *)
(* (Flights), and what the pruner still has to do (Sweep).                 *)
(*                                                                         *)
(* There is one lemma for each action.  Most actions move one goroutine    *)
(* and nothing that others wait for (Local); the ends of calls and the     *)
(* start of a background refresh move several (ReturnStep, TriggerStep).   *)
(***************************************************************************)
EXTENDS GithubPreview, TLAPS

\* Where each kind of goroutine can be.
EvictPCs == {"evget", "evart", "evclean", "evmeta", "evunreg"}
RequestPCs == InCall \cup {"idle", "lookup", "fresh", "swr", "trigger", "do", "wait",
                           "errget", "errart", "errtouch", "errreg", "serve", "report",
                           "reported", "conflict", "fail"}
PrunerPCs == {"idle", "check", "age", "agekeys", "evart", "evclean", "evmeta", "evunreg",
              "exited"}
StopperPCs == {"idle", "drain", "unregister", "purge", "stopped"}

\* t may be the state of goroutine p.
Task(p, t) ==
  /\ t \in Tasks
  /\ Prepared(t)
  /\ p \in Requests => /\ t.pc \in RequestPCs
                       /\ t.op \in {"none", "serve", "refresh", "evict"}
                       /\ t.pc # "idle" => t.op # "none"
  /\ p \in Keys => t.pc = "idle" \/ (t.pc \in InCall /\ t.op = "background")
  /\ p = Pruner => /\ t.pc \in PrunerPCs
                   /\ t.pc \in EvictPCs => t.op \in {"closed", "age"}
  /\ p = Stopper => t.pc \in StopperPCs
  /\ t.op = "age" => p = Pruner
  /\ t.pc = "agekeys" => t.op = "age"
  /\ t.op = "evict" => t.pc \in EvictPCs
  /\ t.key = None /\ t.pc \in {"evart", "evclean"} => t.op = "age"
  /\ t.todo # {} => t.pc \in {"clean", "evclean", "purge"}

\* The singleflight group.
Flights ==
  /\ \A p \in Requests : Pc(p) = "wait" => flight[Key(p)] # None
  /\ \A k \in Keys : flight[k] # None =>
       /\ Key(flight[k]) = k
       /\ Pc(flight[k]) \in InCall
       /\ th[flight[k]].op \in {"serve", "refresh"}

\* The goroutines and what they wait for.
Threads ==
  /\ th \in [Procs -> Tasks]
  /\ \A p \in Procs : Task(p, th[p])
  /\ flight \in [Keys -> Opt(Requests)]
  /\ refreshing \subseteq Keys
  /\ Flights
  /\ RefreshMarked

\* What a key serves.
Books ==
  /\ meta \in [Keys -> Opt([id : Ids, fresh : BOOLEAN])]
  /\ fsmap \in [Keys -> Opt(Handles)]
  /\ cooling \subseteq Keys

\* The artifact cache; lastAccess is only known of what is cached.
CacheData ==
  /\ entries \in [Ids -> Opt(Handles)]
  /\ older \subseteq Ids \X Ids
  /\ open \subseteq Handles
  /\ \A o \in older : entries[o[1]] # None /\ entries[o[2]] # None

\* The work lists of the pruner and of Cleanup.  What the pruner visits has an
\* artifact in its snapshot, and it visits no artifact while keys are left.
Sweep ==
  /\ snap \in [Keys -> Opt(Ids)]
  /\ left \subseteq Keys
  /\ victims \subseteq Ids
  /\ doomed \subseteq Keys
  /\ \A k \in left : snap[k] # None
  /\ Pc(Pruner) = "age" => left = {}

\* The inductive invariant.
IInv == Threads /\ Books /\ CacheData /\ Sweep

\* Goroutine p goes on to t by itself: nobody has to wake, no mark has to
\* change, and neither a flight nor a background refresh begins or ends.
Local(p, t) ==
  /\ th' = [th EXCEPT ![p] = t]
  /\ UNCHANGED <<flight, refreshing>>
  /\ Task(p, t)
  /\ t.pc # "wait"
  /\ th[p].pc \in InCall /\ th[p].op \in {"serve", "refresh", "background"}
       => t.pc \in InCall /\ t.key = th[p].key /\ t.op = th[p].op
  /\ p \in Keys => th[p].pc \in InCall

-----------------------------------------------------------------------------
(* One goroutine moves.                                                    *)

\* The goroutines are what their names say.
LEMMA Roles == /\ Requests \subseteq Procs /\ Keys \subseteq Procs
               /\ Pruner \in Procs /\ Stopper \in Procs
               /\ Requests \cap Keys = {} /\ Pruner # Stopper
               /\ Pruner \notin Requests \cup Keys /\ Stopper \notin Requests \cup Keys
               /\ None \notin Procs /\ None \notin Keys /\ None \notin Ids /\ None \notin Handles
               /\ None \notin Requests
BY ProcsAssumption, NoneAssumption DEF Procs

\* Local steps keep the goroutines in order.
LEMMA LocalStep ==
  ASSUME Threads, NEW p \in Procs, NEW t, Local(p, t)
  PROVE  /\ Threads'
         /\ th'[p] = t
         /\ \A q \in Procs : q # p => th'[q] = th[q]
<1>1. /\ th' \in [Procs -> Tasks]
      /\ th'[p] = t
      /\ \A q \in Procs : q # p => th'[q] = th[q]
  BY DEF Local, Threads, Task
<1>2. \A q \in Procs : Task(q, th'[q])
  BY <1>1 DEF Local, Threads
<1>3. UNCHANGED <<flight, refreshing>>
  BY DEF Local
<1>4. Flights'
  <2>1. ASSUME NEW q \in Requests, th'[q].pc = "wait"
        PROVE  flight'[th'[q].key] # None
    BY <1>1, <1>3, <2>1, Roles DEF Local, Threads, Flights, Pc, Key
  <2>2. ASSUME NEW k \in Keys, flight'[k] # None
        PROVE  /\ th'[flight'[k]].key = k
               /\ th'[flight'[k]].pc \in InCall
               /\ th'[flight'[k]].op \in {"serve", "refresh"}
    <3>1. flight[k] \in Requests /\ flight'[k] = flight[k]
      BY <1>3, <2>2 DEF Threads, Opt
    <3> QED
      BY <1>1, <1>3, <2>2, <3>1, Roles DEF Local, Threads, Flights, Pc, Key
  <2> QED
    BY <2>1, <2>2 DEF Flights, Pc, Key, InCall
<1>5. RefreshMarked'
  <2> SUFFICES ASSUME NEW k \in Keys PROVE k \in refreshing' <=> th'[k].pc \in InCall
    BY DEF RefreshMarked, Pc, InCall
  <2>1. k \in refreshing <=> th[k].pc \in InCall
    BY DEF Threads, RefreshMarked, Pc
  <2>2. CASE k # p
    BY <1>1, <1>3, <2>1, <2>2, Roles
  <2>3. CASE k = p
    <3>1. th[k].pc \in InCall /\ th[k].op = "background"
      BY <2>3 DEF Local, Threads, Task, InCall
    <3> QED
      BY <1>1, <1>3, <2>1, <2>3, <3>1 DEF Local
  <2> QED
    BY <2>2, <2>3
<1>6. flight' \in [Keys -> Opt(Requests)] /\ refreshing' \subseteq Keys
  BY <1>3 DEF Threads
<1>7. (\A q \in Procs : Task(q, th[q]))'
  BY <1>2
  DEF Task, Prepared, RequestPCs, PrunerPCs, StopperPCs, EvictPCs, InCall
<1>8. Threads'
  BY <1>1, <1>4, <1>5, <1>6, <1>7 DEF Threads
<1> QED
  BY <1>1, <1>8

\* ... and the invariant, if the data stay in order.
LEMMA InvStep ==
  ASSUME IInv, NEW p \in Procs, NEW t, Local(p, t), Books', CacheData', UNCHANGED sweep,
         p = Pruner /\ t.pc = "age" => left = {}
  PROVE  IInv'
<1>1. Threads' /\ th'[p] = t /\ (\A q \in Procs : q # p => th'[q] = th[q])
  BY LocalStep DEF IInv
<1>2. Sweep'
  <2>1. th'[Pruner].pc = "age" => left = {}
    BY <1>1, Roles DEF IInv, Sweep, Pc
  <2> QED
    BY <2>1 DEF IInv, Sweep, sweep, Pc
<1> QED
  BY <1>1, <1>2 DEF IInv

\* A step that ArtifactCache allows, or one it does not see.
ACStep == [AC!Next]_AC!vars

\* A step in which nobody has to do with the artifact cache.
LEMMA CacheIdle ==
  ASSUME UNCHANGED caches,
         \A q \in Procs : \/ th'[q] = th[q]
                          \/ th[q].pc # "store" /\ th'[q].pc # "store" /\ th'[q].todo = th[q].todo
  PROVE  ACStep
<1>1. Cleans' = Cleans
  BY DEF Cleans
<1>2. Holds' = Holds
  BY DEF Holds
<1> QED
  BY <1>1, <1>2 DEF ACStep, AC!vars, caches

\* What a goroutine's step means for the clients of ArtifactCache.
LEMMA ClientStep ==
  ASSUME IInv, NEW p \in Procs, NEW t, Local(p, t)
  PROVE  /\ Cleans' = [Cleans EXCEPT ![p] = t.todo]
         /\ Holds' = [Holds EXCEPT ![p] = IF t.pc = "store" THEN t.fs ELSE None]
         /\ Cleans[p] = th[p].todo
         /\ th[p].pc = "store" => Holds[p] = th[p].fs
         /\ th[p].pc # "store" => Holds[p] = None
         /\ th[p].pc # "store" /\ t.pc # "store" => Holds' = Holds
         /\ th[p].todo = t.todo => Cleans' = Cleans
<1>1. th'[p] = t /\ (\A q \in Procs : q # p => th'[q] = th[q])
  BY LocalStep DEF IInv
<1> QED
  BY <1>1 DEF Cleans, Holds

\* A call of the artifact cache.
LEMMA CallStep ==
  ASSUME NEW p \in Procs, NEW i \in Ids,
         \/ AC!Fetch(p, i) \/ AC!Store(p, i) \/ AC!Evict(p, i)
         \/ AC!CleanupAll(p) \/ AC!RunCleanups(p)
  PROVE  ACStep
BY DEF ACStep, AC!Next

\* A step of one goroutine that leaves the artifact cache alone.
LEMMA QuietStep ==
  ASSUME IInv, NEW p \in Procs, NEW t, Local(p, t), Books', UNCHANGED <<caches, sweep>>,
         t.todo = th[p].todo, th[p].pc # "store", t.pc \notin {"store", "age"}
  PROVE  IInv' /\ ACStep
<1>1. th'[p] = t /\ (\A q \in Procs : q # p => th'[q] = th[q])
  BY LocalStep DEF IInv
<1>2. CacheData'
  BY DEF IInv, CacheData, caches
<1>3. ACStep
  BY <1>1, CacheIdle
<1> QED
  BY <1>2, <1>3, InvStep

\* The state of a goroutine is a proper one.
LEMMA Here ==
  ASSUME IInv, NEW p \in Procs
  PROVE  Task(p, th[p]) /\ th[p] \in Tasks /\ th \in [Procs -> Tasks]
BY DEF IInv, Threads

-----------------------------------------------------------------------------
(* Actions that move one goroutine and leave the artifact cache alone.     *)

LEMMA GuardStep ==
  ASSUME IInv, NEW p \in Procs, Guard(p)
  PROVE  IInv' /\ ACStep
<1>1. Task(p, th[p]) /\ th[p] \in Tasks /\ th \in [Procs -> Tasks] /\ th[p].pc = "guard"
  BY Here DEF Guard, Pc
<1>2. PICK x \in {"keep", "have"}, s \in Opt(Ids) :
        /\ th' = [th EXCEPT ![p].pc = x, ![p].seen = s]
        /\ x = "keep" => s # None
  <2>1. CASE Older(p)
    <3>1. th' = [th EXCEPT ![p].pc = "keep", ![p].seen = meta[Key(p)].id]
      BY <2>1, Zenon DEF Guard
    <3>2. meta[Key(p)].id \in Ids
      BY <1>1, <2>1 DEF Older, IInv, Books, Task, Tasks, Prepared, Key, Opt
    <3> QED
      BY <3>1, <3>2, Roles DEF Opt
  <2>2. CASE ~Older(p)
    <3>1. th' = [th EXCEPT ![p].pc = "have", ![p].seen = None]
      BY <2>2, Zenon DEF Guard
    <3> QED
      BY <3>1 DEF Opt
  <2> QED
    BY <2>1, <2>2
<1> DEFINE t == [th[p] EXCEPT !.pc = x, !.seen = s]
<1>3. th' = [th EXCEPT ![p] = t]
  BY <1>1, <1>2
<1>4. t \in Tasks
  BY <1>1, <1>2 DEF Tasks, PCs
<1>5. Task(p, t)
  BY <1>1, <1>2, <1>4
  DEF Task, Prepared, RequestPCs, PrunerPCs, StopperPCs, EvictPCs, InCall, Tasks
<1>6. Local(p, t)
  BY <1>1, <1>2, <1>3, <1>5 DEF Local, Guard, InCall, Task, Tasks
<1>7. t.todo = th[p].todo /\ t.pc \notin {"store", "age"}
  BY <1>1, <1>2 DEF Tasks
<1>8. UNCHANGED <<caches, sweep>> /\ Books'
  BY DEF Guard, IInv, Books
<1> HIDE DEF t
<1> QED
  BY <1>1, <1>6, <1>7, <1>8, QuietStep
\* Which goroutine can be where.
LEMMA RequestOnly ==
  ASSUME IInv, NEW p \in Procs,
         th[p].pc \in {"lookup", "fresh", "swr", "trigger", "do", "wait", "errget", "errart",
                       "errtouch", "errreg", "serve", "report", "reported", "conflict", "fail"}
  PROVE  p \in Requests /\ th[p].key \in Keys /\ th[p].op \in {"serve", "refresh"}
BY Here DEF Task, Prepared, Procs, PrunerPCs, StopperPCs, InCall, EvictPCs, Tasks, Opt

LEMMA LookupStep ==
  ASSUME IInv, NEW p \in Procs, Lookup(p)
  PROVE  IInv' /\ ACStep
<1>1. /\ Task(p, th[p]) /\ th[p] \in Tasks /\ th \in [Procs -> Tasks]
      /\ th[p].pc = "lookup"
  BY Here DEF Lookup, Pc
<1>2. p \in Requests /\ th[p].key \in Keys
  BY <1>1, RequestOnly
<1>3. PICK x \in {"do", "fresh", "swr"}, m \in Opt(Ids) :
        /\ th' = [th EXCEPT ![p].pc = x, ![p].meta = m]
        /\ x \in {"fresh", "swr"} => m # None
  <2>0. meta[th[p].key] \in Opt([id : Ids, fresh : BOOLEAN])
    BY <1>2 DEF IInv, Books
  <2>1. CASE meta[th[p].key] = None
    <3>1. th' = [th EXCEPT ![p].pc = "do", ![p].meta = None]
      BY <2>1 DEF Lookup, Key
    <3> QED
      BY <3>1 DEF Opt
  <2>2. CASE meta[th[p].key] # None /\ meta[th[p].key].fresh
    <3>1. th' = [th EXCEPT ![p].pc = "fresh", ![p].meta = meta[th[p].key].id]
      BY <2>2 DEF Lookup, Key
    <3> QED
      BY <2>0, <2>2, <3>1, Roles DEF Opt
  <2>3. CASE meta[th[p].key] # None /\ ~meta[th[p].key].fresh
    <3>1. th' = [th EXCEPT ![p].pc = IF SWR THEN "swr" ELSE "do", ![p].meta = meta[th[p].key].id]
      BY <2>3 DEF Lookup, Key
    <3>2. CASE SWR
      BY <2>0, <2>3, <3>1, <3>2, Roles DEF Opt
    <3>3. CASE ~SWR
      BY <2>0, <2>3, <3>1, <3>3, Roles DEF Opt
    <3> QED
      BY <3>2, <3>3
  <2> QED
    BY <2>1, <2>2, <2>3
<1> DEFINE t == [th[p] EXCEPT !.pc = x, !.meta = m]
<1>4. th' = [th EXCEPT ![p] = t]
  BY <1>1, <1>3
<1>5. t \in Tasks
  BY <1>1, <1>3 DEF Tasks, PCs
<1>6. Task(p, t)
  BY <1>1, <1>2, <1>3, <1>5, Roles
  DEF Task, Prepared, RequestPCs, PrunerPCs, StopperPCs, EvictPCs, InCall, Tasks
<1>7. Local(p, t)
  BY <1>1, <1>2, <1>3, <1>4, <1>6, Roles DEF Local, Lookup, InCall, Tasks
<1>8. t.todo = th[p].todo /\ t.pc \notin {"store", "age"}
  BY <1>1, <1>3 DEF Tasks
<1>9. UNCHANGED <<caches, sweep>> /\ Books'
  BY DEF Lookup, IInv, Books
<1> HIDE DEF t
<1> QED
  BY <1>1, <1>7, <1>8, <1>9, QuietStep

LEMMA ErrGetStep ==
  ASSUME IInv, NEW p \in Procs, ErrGet(p)
  PROVE  IInv' /\ ACStep
<1>1. /\ Task(p, th[p]) /\ th[p] \in Tasks /\ th \in [Procs -> Tasks]
      /\ th[p].pc = "errget"
  BY Here DEF ErrGet, Pc
<1>2. p \in Requests /\ th[p].key \in Keys
  BY <1>1, RequestOnly
<1>3. PICK x \in {"fail", "errart"}, s \in Opt(Ids) :
        /\ th' = [th EXCEPT ![p].pc = x, ![p].seen = s]
        /\ x = "errart" => s # None
  <2>1. None \in Opt(Ids)
    BY DEF Opt
  <2>2. th[p].key \in Keys /\ meta[th[p].key] \in Opt([id : Ids, fresh : BOOLEAN])
    BY <1>2 DEF IInv, Books
  <2>3. CASE meta[th[p].key] = None
    <3>1. th' = [th EXCEPT ![p].pc = "fail", ![p].seen = None]
      BY <2>3 DEF ErrGet, Key
    <3> QED
      BY <2>1, <3>1
  <2>4. CASE meta[th[p].key] # None
    <3>1. th' = [th EXCEPT ![p].pc = "errart", ![p].seen = meta[th[p].key].id]
      BY <2>4 DEF ErrGet, Key
    <3>2. meta[th[p].key].id \in Ids
      BY <2>2, <2>4 DEF Opt
    <3>3. meta[th[p].key].id \in Opt(Ids) /\ meta[th[p].key].id # None
      BY <3>2, Roles DEF Opt
    <3> QED
      BY <3>1, <3>3
  <2> QED
    BY <2>3, <2>4
<1> DEFINE t == [th[p] EXCEPT !.pc = x, !.seen = s]
<1>4. th' = [th EXCEPT ![p] = t]
  BY <1>1, <1>3
<1>5. t \in Tasks
  BY <1>1, <1>3 DEF Tasks, PCs
<1>6. Task(p, t)
  BY <1>1, <1>2, <1>3, <1>5, Roles
  DEF Task, Prepared, RequestPCs, PrunerPCs, StopperPCs, EvictPCs, InCall, Tasks
<1>7. Local(p, t)
  BY <1>1, <1>2, <1>3, <1>4, <1>6, Roles DEF Local, ErrGet, InCall, Tasks
<1>8. t.todo = th[p].todo /\ t.pc \notin {"store", "age"}
  BY <1>1, <1>3 DEF Tasks
<1>9. UNCHANGED <<caches, sweep>> /\ Books'
  BY DEF ErrGet, IInv, Books
<1> HIDE DEF t
<1> QED
  BY <1>1, <1>7, <1>8, <1>9, QuietStep

LEMMA ReportStep ==
  ASSUME IInv, NEW p \in Procs, Report(p)
  PROVE  IInv' /\ ACStep
<1>1. /\ Task(p, th[p]) /\ th[p] \in Tasks /\ th \in [Procs -> Tasks]
      /\ th[p].pc = "report"
  BY Here DEF Report, Pc
<1>2. p \in Requests /\ th[p].key \in Keys
  BY <1>1, RequestOnly
<1>3. PICK x \in {"reported", "conflict"}, s \in Opt(Ids) :
        th' = [th EXCEPT ![p].pc = x, ![p].seen = s]
  <2> DEFINE i == IF meta[Key(p)] = None THEN None ELSE meta[Key(p)].id
  <2>1. i \in Opt(Ids)
    BY <1>2, Roles DEF Key, Opt, IInv, Books
  <2>2. PICK expected \in Opt(Ids) :
          th' = [th EXCEPT ![p].pc = IF expected \in {None, i} THEN "reported" ELSE "conflict",
                           ![p].seen = i]
    BY DEF Report
  <2> HIDE DEF i
  <2> QED
    BY <2>1, <2>2
<1> DEFINE t == [th[p] EXCEPT !.pc = x, !.seen = s]
<1>4. th' = [th EXCEPT ![p] = t]
  BY <1>1, <1>3
<1>5. t \in Tasks
  BY <1>1, <1>3 DEF Tasks, PCs
<1>6. Task(p, t)
  BY <1>1, <1>2, <1>3, <1>5, Roles
  DEF Task, Prepared, RequestPCs, PrunerPCs, StopperPCs, EvictPCs, InCall, Tasks
<1>7. Local(p, t)
  BY <1>1, <1>2, <1>3, <1>4, <1>6, Roles DEF Local, Report, InCall, Tasks
<1>8. t.todo = th[p].todo /\ t.pc \notin {"store", "age"}
  BY <1>1, <1>3 DEF Tasks
<1>9. UNCHANGED <<caches, sweep>> /\ Books'
  BY DEF Report, IInv, Books
<1> HIDE DEF t
<1> QED
  BY <1>1, <1>7, <1>8, <1>9, QuietStep

LEMMA EvGetStep ==
  ASSUME IInv, NEW p \in Procs, EvGet(p)
  PROVE  IInv' /\ ACStep
<1>1. Task(p, th[p]) /\ th[p] \in Tasks /\ th \in [Procs -> Tasks] /\ th[p].pc = "evget"
  BY Here DEF EvGet, Pc
<1>2. th[p].key \in Keys
  BY <1>1 DEF Task, Prepared, Tasks, Opt
<1>3. PICK x \in {"evmeta", "evart"}, s \in Opt(Ids) :
        /\ th' = [th EXCEPT ![p].pc = x, ![p].seen = s]
        /\ x = "evart" => s # None
  <2>1. None \in Opt(Ids)
    BY DEF Opt
  <2>2. th[p].key \in Keys /\ meta[th[p].key] \in Opt([id : Ids, fresh : BOOLEAN])
    BY <1>2 DEF IInv, Books
  <2>3. CASE meta[th[p].key] = None
    <3>1. th' = [th EXCEPT ![p].pc = "evmeta", ![p].seen = None]
      BY <2>3 DEF EvGet, Key
    <3> QED
      BY <2>1, <3>1
  <2>4. CASE meta[th[p].key] # None
    <3>1. th' = [th EXCEPT ![p].pc = "evart", ![p].seen = meta[th[p].key].id]
      BY <2>4 DEF EvGet, Key
    <3>2. meta[th[p].key].id \in Ids
      BY <2>2, <2>4 DEF Opt
    <3>3. meta[th[p].key].id \in Opt(Ids) /\ meta[th[p].key].id # None
      BY <3>2, Roles DEF Opt
    <3> QED
      BY <3>1, <3>3
  <2> QED
    BY <2>3, <2>4
<1> DEFINE t == [th[p] EXCEPT !.pc = x, !.seen = s]
<1>4. th' = [th EXCEPT ![p] = t]
  BY <1>1, <1>3
<1>5. t \in Tasks
  BY <1>1, <1>3 DEF Tasks, PCs
<1>6. Task(p, t)
  BY <1>1, <1>2, <1>3, <1>5, Roles
  DEF Task, Prepared, RequestPCs, PrunerPCs, StopperPCs, EvictPCs, InCall, Tasks
<1>7. Local(p, t)
  BY <1>1, <1>2, <1>3, <1>4, <1>6, Roles DEF Local, EvGet, InCall, Tasks
<1>8. t.todo = th[p].todo /\ t.pc \notin {"store", "age"}
  BY <1>1, <1>3 DEF Tasks
<1>9. UNCHANGED <<caches, sweep>> /\ Books'
  BY DEF EvGet, IInv, Books
<1> HIDE DEF t
<1> QED
  BY <1>1, <1>7, <1>8, <1>9, QuietStep

LEMMA ErrTouchStep ==
  ASSUME IInv, NEW p \in Procs, ErrTouch(p)
  PROVE  IInv' /\ ACStep
<1>1. /\ Task(p, th[p]) /\ th[p] \in Tasks /\ th \in [Procs -> Tasks]
      /\ th[p].pc = "errtouch"
  BY Here DEF ErrTouch, Pc
<1>2. p \in Requests /\ th[p].key \in Keys
  BY <1>1, RequestOnly
<1> DEFINE t == [th[p] EXCEPT !.pc = "errreg"]
<1>4. th' = [th EXCEPT ![p] = t]
  BY <1>1 DEF ErrTouch, Goto
<1>5. t \in Tasks
  BY <1>1 DEF Tasks, PCs
<1>6. Task(p, t)
  BY <1>1, <1>2, <1>5, Roles
  DEF Task, Prepared, RequestPCs, PrunerPCs, StopperPCs, EvictPCs, InCall, Tasks
<1>7. Local(p, t)
  BY <1>1, <1>2, <1>4, <1>6, Roles DEF Local, ErrTouch, InCall, Tasks
<1>8. t.todo = th[p].todo /\ t.pc \notin {"store", "age"}
  BY <1>1 DEF Tasks
<1>9. UNCHANGED <<caches, sweep>> /\ Books'
  <2>1. CASE meta[th[p].key] = None
    BY <2>1 DEF ErrTouch, IInv, Books, Key
  <2>2. CASE meta[th[p].key] # None
    BY <1>2, <2>2 DEF ErrTouch, IInv, Books, Key, Opt
  <2> QED
    BY <2>1, <2>2
<1> HIDE DEF t
<1> QED
  BY <1>1, <1>7, <1>8, <1>9, QuietStep

LEMMA SetMetaStep ==
  ASSUME IInv, NEW p \in Procs, SetMeta(p)
  PROVE  IInv' /\ ACStep
<1>1. /\ Task(p, th[p]) /\ th[p] \in Tasks /\ th \in [Procs -> Tasks]
      /\ th[p].pc = "setmeta"
  BY Here DEF SetMeta, Pc
<1>2. th[p].key \in Keys /\ th[p].id \in Ids
  BY <1>1 DEF Task, Prepared, Tasks, Opt
<1> DEFINE t == [th[p] EXCEPT !.pc = "register"]
<1>4. th' = [th EXCEPT ![p] = t]
  BY <1>1 DEF SetMeta, Goto
<1>5. t \in Tasks
  BY <1>1 DEF Tasks, PCs
<1>6. Task(p, t)
  BY <1>1, <1>2, <1>5, Roles
  DEF Task, Prepared, RequestPCs, PrunerPCs, StopperPCs, EvictPCs, InCall, Tasks
<1>7. Local(p, t)
  BY <1>1, <1>2, <1>4, <1>6, Roles DEF Local, SetMeta, InCall, Tasks
<1>8. t.todo = th[p].todo /\ t.pc \notin {"store", "age"}
  BY <1>1 DEF Tasks
<1>9. UNCHANGED <<caches, sweep>> /\ Books'
  BY <1>2 DEF SetMeta, IInv, Books, Key, Opt
<1> HIDE DEF t
<1> QED
  BY <1>1, <1>7, <1>8, <1>9, QuietStep

LEMMA EvMetaStep ==
  ASSUME IInv, NEW p \in Procs, EvMeta(p)
  PROVE  IInv' /\ ACStep
<1>1. /\ Task(p, th[p]) /\ th[p] \in Tasks /\ th \in [Procs -> Tasks]
      /\ th[p].pc = "evmeta"
  BY Here DEF EvMeta, Pc
<1>2. th[p].key \in Keys
  BY <1>1 DEF Task, Prepared, Tasks, Opt
<1> DEFINE t == [th[p] EXCEPT !.pc = "evunreg"]
<1>4. th' = [th EXCEPT ![p] = t]
  BY <1>1 DEF EvMeta, Goto
<1>5. t \in Tasks
  BY <1>1 DEF Tasks, PCs
<1>6. Task(p, t)
  BY <1>1, <1>2, <1>5, Roles
  DEF Task, Prepared, RequestPCs, PrunerPCs, StopperPCs, EvictPCs, InCall, Tasks
<1>7. Local(p, t)
  BY <1>1, <1>2, <1>4, <1>6, Roles DEF Local, EvMeta, InCall, Tasks
<1>8. t.todo = th[p].todo /\ t.pc \notin {"store", "age"}
  BY <1>1 DEF Tasks
<1>9. UNCHANGED <<caches, sweep>> /\ Books'
  BY <1>2 DEF EvMeta, IInv, Books, Key, Opt
<1> HIDE DEF t
<1> QED
  BY <1>1, <1>7, <1>8, <1>9, QuietStep

-----------------------------------------------------------------------------
(* Actions that look into the artifact cache, and answers.                 *)

\* artifactCache.get keeps the order of the cached artifacts.
LEMMA GetData ==
  ASSUME CacheData, NEW i \in Ids, AC!Get(i), open' = open
  PROVE  CacheData'
<1>1. CASE i \in AC!Cached
  <2>1. older' = {o \in older : o[1] # i /\ o[2] # i} \cup ((AC!Cached \ {i}) \X {i})
    BY <1>1 DEF AC!Get
  <2>2. entries' = entries
    BY DEF AC!Get
  <2>3. older' \subseteq Ids \X Ids
    BY <2>1 DEF CacheData, AC!Cached
  <2>4. ASSUME NEW o \in older' PROVE entries[o[1]] # None /\ entries[o[2]] # None
    BY <1>1, <2>1 DEF CacheData, AC!Cached
  <2> QED
    BY <2>2, <2>3, <2>4 DEF CacheData
<1>2. CASE i \notin AC!Cached
  BY <1>2 DEF AC!Get, CacheData
<1> QED
  BY <1>1, <1>2

\* One goroutine's step that looks into the artifact cache.
LEMMA FetchStep ==
  ASSUME IInv, NEW p \in Procs, NEW t, Local(p, t), Books', NEW i \in Ids, AC!Get(i),
         UNCHANGED <<open, sweep>>, t.todo = {}, th[p].todo = {},
         th[p].pc # "store", t.pc \notin {"store", "age"}
  PROVE  IInv' /\ ACStep
<1>1. th'[p] = t /\ (\A q \in Procs : q # p => th'[q] = th[q])
  BY LocalStep DEF IInv
<1>2. CacheData'
  BY GetData DEF IInv
<1>3. AC!Fetch(p, i)
  <2>1. Holds' = Holds /\ Holds[p] = None
    BY ClientStep
  <2>2. th[p].todo = t.todo
    OBVIOUS
  <2>3. Cleans' = Cleans /\ Cleans[p] = {}
    BY <2>2, ClientStep
  <2> QED
    BY <2>1, <2>3 DEF AC!Fetch
<1>4. ACStep
  BY <1>3, CallStep
<1> QED
  BY <1>2, <1>4, InvStep

LEMMA SwrStep ==
  ASSUME IInv, NEW p \in Procs, Swr(p)
  PROVE  IInv' /\ ACStep
<1>1. Task(p, th[p]) /\ th[p] \in Tasks /\ th \in [Procs -> Tasks] /\ th[p].pc = "swr"
  BY Here DEF Swr, Pc
<1>2. p \in Requests /\ th[p].key \in Keys /\ th[p].op \in {"serve", "refresh"}
  BY <1>1, RequestOnly
<1>3. PICK x \in {"trigger", "do"} : th' = [th EXCEPT ![p].pc = x]
  <2>1. CASE th[p].meta \in AC!Cached
    BY <2>1 DEF Swr, Goto
  <2>2. CASE th[p].meta \notin AC!Cached
    BY <2>2 DEF Swr, Goto
  <2> QED
    BY <2>1, <2>2
<1> DEFINE t == [th[p] EXCEPT !.pc = x]
<1>4. th' = [th EXCEPT ![p] = t]
  BY <1>1, <1>3
<1>5. t \in Tasks
  BY <1>1, <1>3 DEF Tasks, PCs
<1>6. Task(p, t)
  BY <1>1, <1>2, <1>3, <1>5, Roles
  DEF Task, Prepared, RequestPCs, PrunerPCs, StopperPCs, EvictPCs, InCall, Tasks
<1>7. Local(p, t)
  BY <1>1, <1>2, <1>3, <1>4, <1>6, Roles DEF Local, Swr, InCall, Tasks
<1>8. t.todo = {} /\ th[p].todo = {} /\ t.pc \notin {"store", "age"}
  BY <1>1, <1>3 DEF Tasks, Task
<1>9. UNCHANGED <<open, sweep>> /\ Books' /\ th[p].meta \in Ids /\ AC!Get(th[p].meta)
  BY <1>1 DEF Swr, IInv, Books, Task, Prepared, Tasks, Opt
<1> HIDE DEF t
<1> QED
  BY <1>1, <1>7, <1>8, <1>9, FetchStep

\* An answer is a proper task of a request.
LEMMA AnswerTask ==
  ASSUME IInv, NEW p \in Requests, th[p].op \in {"serve", "refresh"}, th[p].key \in Keys,
         NEW x \in {"serve", "report", "fail", "errget"}
  PROVE  /\ Task(p, Answer(th[p], x))
         /\ Answer(th[p], x).pc = x /\ Answer(th[p], x).todo = {}
         /\ Answer(th[p], x).key = th[p].key /\ Answer(th[p], x).op = th[p].op
<1>1. Task(p, th[p]) /\ th[p] \in Tasks
  BY Here, Roles
<1> DEFINE t == Answer(th[p], x)
<1>2. t.pc = x /\ t.op = th[p].op /\ t.key = th[p].key /\ t.todo = {}
  BY DEF Answer, NoTask
<1>3. t \in Tasks
  <2>1. NoTask \in Tasks
    BY DEF NoTask, Tasks, PCs, Opt
  <2>2. x \in PCs
    BY DEF PCs
  <2>3. th[p].op \in {"serve", "refresh"} /\ th[p].key \in Opt(Keys) /\ th[p].meta \in Opt(Ids)
    BY <1>1 DEF Tasks
  <2> QED
    BY <2>1, <2>2, <2>3 DEF Answer, Tasks
<1>4. Task(p, t)
  BY <1>2, <1>3, Roles
  DEF Task, Prepared, RequestPCs, PrunerPCs, StopperPCs, EvictPCs, InCall
<1> QED
  BY <1>2, <1>4

\* Nobody at work.
LEMMA NoTaskTask ==
  ASSUME NEW p \in Procs
  PROVE  Task(p, NoTask) /\ NoTask.pc = "idle" /\ NoTask.todo = {}
<1>1. NoTask \in Tasks
  BY DEF NoTask, Tasks, PCs, Opt
<1> QED
  BY <1>1, Roles
  DEF Task, NoTask, Prepared, RequestPCs, PrunerPCs, StopperPCs, EvictPCs, InCall

LEMMA FreshStep ==
  ASSUME IInv, NEW p \in Procs, Fresh(p)
  PROVE  IInv' /\ ACStep
<1>1. Task(p, th[p]) /\ th[p] \in Tasks /\ th \in [Procs -> Tasks] /\ th[p].pc = "fresh"
  BY Here DEF Fresh, Pc
<1>2. p \in Requests /\ th[p].key \in Keys /\ th[p].op \in {"serve", "refresh"}
  BY <1>1, RequestOnly
<1>3. /\ UNCHANGED <<open, sweep>> /\ Books' /\ th[p].meta \in Ids
      /\ AC!Get(th[p].meta) /\ th[p].todo = {}
  BY <1>1 DEF Fresh, IInv, Books, Task, Prepared, Tasks, Opt
<1>4. CASE th[p].meta \in AC!Cached
  <2> DEFINE t == Answer(th[p], "serve")
  <2>1. th' = [th EXCEPT ![p] = t]
    BY <1>4 DEF Fresh
  <2>2. Task(p, t) /\ t.pc = "serve" /\ t.todo = {}
    BY <1>2, AnswerTask
  <2> HIDE DEF t
  <2>3. Local(p, t)
    BY <1>1, <1>2, <2>1, <2>2, Roles DEF Local, Fresh, InCall
  <2> QED
    BY <1>1, <1>3, <2>2, <2>3, FetchStep
<1>5. CASE th[p].meta \notin AC!Cached
  <2> DEFINE t == [th[p] EXCEPT !.pc = "download", !.id = th[p].meta]
  <2>1. th' = [th EXCEPT ![p] = t]
    BY <1>5 DEF Fresh
  <2>2. t \in Tasks
    BY <1>1, <1>3 DEF Tasks, PCs, Opt
  <2>3. Task(p, t)
    BY <1>1, <1>2, <1>3, <2>2, Roles
    DEF Task, Prepared, RequestPCs, PrunerPCs, StopperPCs, EvictPCs, InCall, Tasks
  <2>4. Local(p, t)
    BY <1>1, <1>2, <2>1, <2>3, Roles DEF Local, Fresh, InCall, Tasks
  <2>5. t.todo = {} /\ t.pc \notin {"store", "age"}
    BY <1>1, <1>3 DEF Tasks
  <2> HIDE DEF t
  <2> QED
    BY <1>1, <1>3, <2>4, <2>5, FetchStep
<1> QED
  BY <1>4, <1>5

\* Who resolves: a request or a background refresh, with its key set.
LEMMA Resolver ==
  ASSUME IInv, NEW p \in Procs,
         th[p].pc \in {"resolve", "guard", "keep", "have", "download", "store", "clean",
                       "setmeta", "register"}
  PROVE  /\ p \in Requests \cup Keys /\ th[p].key \in Keys
         /\ th[p].op \in {"serve", "refresh", "background"}
BY Here
DEF Task, Prepared, Procs, RequestPCs, PrunerPCs, StopperPCs, InCall, EvictPCs, Tasks,
    Opt

LEMMA InstallStep ==
  ASSUME IInv, NEW p \in Procs, NEW i \in Ids, NEW else \in {"have", "download"},
         th[p].pc \in {"keep", "have"}, InstallCached(p, i, else)
  PROVE  IInv' /\ ACStep
<1>1. Task(p, th[p]) /\ th[p] \in Tasks /\ th \in [Procs -> Tasks]
  BY Here
<1>2. /\ p \in Requests \cup Keys /\ th[p].key \in Keys
      /\ th[p].op \in {"serve", "refresh", "background"}
  BY Resolver
<1>3. /\ UNCHANGED <<open, sweep>> /\ Books' /\ AC!Get(i) /\ th[p].todo = {}
      /\ th[p].id # None
  BY <1>1 DEF InstallCached, IInv, Books, Task, Prepared
<1>4. PICK x \in {"setmeta", "have", "download"}, j \in Ids, f \in Opt(Handles) :
        /\ th' = [th EXCEPT ![p] = [@ EXCEPT !.pc = x, !.id = j, !.seen = None, !.fs = f]]
        /\ x = "setmeta" => f # None
  <2>1. CASE i \in AC!Cached
    <3>1. entries[i] \in Opt(Handles) /\ entries[i] # None
      BY <2>1 DEF AC!Cached, IInv, CacheData
    <3>2. th' = [th EXCEPT ![p] = [@ EXCEPT !.pc = "setmeta", !.id = i, !.seen = None, !.fs = entries[i]]]
      BY <2>1 DEF InstallCached
    <3> QED
      BY <3>1, <3>2
  <2>2. CASE i \notin AC!Cached
    <3>1. th' = [th EXCEPT ![p] = [@ EXCEPT !.pc = else, !.seen = None]]
      BY <2>2 DEF InstallCached
    <3>2. th[p].id \in Ids /\ th[p].fs \in Opt(Handles)
      BY <1>1, <1>3 DEF Tasks, Opt
    <3>3. [th[p] EXCEPT !.pc = else, !.seen = None]
            = [th[p] EXCEPT !.pc = else, !.id = th[p].id, !.seen = None, !.fs = th[p].fs]
      BY <1>1 DEF Tasks
    <3> QED
      BY <3>1, <3>2, <3>3
  <2> QED
    BY <2>1, <2>2
<1> DEFINE t == [th[p] EXCEPT !.pc = x, !.id = j, !.seen = None, !.fs = f]
<1>5. th' = [th EXCEPT ![p] = t]
  BY <1>1, <1>4
<1>6. t \in Tasks
  <2>1. x \in PCs
    BY DEF PCs
  <2>2. j \in Opt(Ids) /\ None \in Opt(Ids)
    BY DEF Opt
  <2> QED
    BY <1>1, <2>1, <2>2 DEF Tasks
<1>7. Task(p, t)
  BY <1>1, <1>2, <1>3, <1>4, <1>6, Roles
  DEF Task, Prepared, RequestPCs, PrunerPCs, StopperPCs, EvictPCs, InCall, Tasks
<1>8. Local(p, t)
  BY <1>1, <1>2, <1>4, <1>5, <1>7, Roles DEF Local, InstallCached, InCall, Tasks
<1>9. t.todo = {} /\ t.pc \notin {"store", "age"}
  BY <1>1, <1>3, <1>4 DEF Tasks
<1> HIDE DEF t
<1> QED
  BY <1>1, <1>3, <1>8, <1>9, FetchStep

LEMMA KeepStep ==
  ASSUME IInv, NEW p \in Procs, Keep(p)
  PROVE  IInv' /\ ACStep
<1>1. th[p].pc = "keep" /\ InstallCached(p, th[p].seen, "have")
  BY DEF Keep, Pc
<1>2. th[p].seen \in Ids
  BY <1>1, Here DEF Task, Tasks, Prepared, Opt
<1> QED
  BY <1>1, <1>2, InstallStep

LEMMA HaveStep ==
  ASSUME IInv, NEW p \in Procs, Have(p)
  PROVE  IInv' /\ ACStep
<1>1. th[p].pc = "have" /\ InstallCached(p, th[p].id, "download")
  BY DEF Have, Pc
<1>2. th[p].id \in Ids
  BY <1>1, Here DEF Task, Tasks, Prepared, Opt
<1> QED
  BY <1>1, <1>2, InstallStep

LEMMA ErrArtStep ==
  ASSUME IInv, NEW p \in Procs, ErrArt(p)
  PROVE  IInv' /\ ACStep
<1>1. /\ Task(p, th[p]) /\ th[p] \in Tasks /\ th \in [Procs -> Tasks]
      /\ th[p].pc = "errart"
  BY Here DEF ErrArt, Pc
<1>2. p \in Requests /\ th[p].key \in Keys /\ th[p].op \in {"serve", "refresh"}
  BY <1>1, RequestOnly
<1>3. /\ UNCHANGED <<open, sweep>> /\ Books' /\ th[p].seen \in Ids /\ AC!Get(th[p].seen)
      /\ th[p].todo = {} /\ entries[th[p].seen] \in Opt(Handles)
  BY <1>1 DEF ErrArt, IInv, Books, CacheData, Task, Prepared, Tasks, Opt
<1>4. PICK x \in {"errtouch", "fail"}, f \in Opt(Handles) :
        /\ th' = [th EXCEPT ![p].pc = x, ![p].fs = f, ![p].seen = None]
        /\ x = "errtouch" => f # None
  <2>1. CASE th[p].seen \in AC!Cached
    BY <1>3, <2>1 DEF ErrArt, AC!Cached
  <2>2. CASE th[p].seen \notin AC!Cached
    BY <1>3, <2>2 DEF ErrArt
  <2> QED
    BY <2>1, <2>2
<1> DEFINE t == [th[p] EXCEPT !.pc = x, !.fs = f, !.seen = None]
<1>5. th' = [th EXCEPT ![p] = t]
  BY <1>1, <1>4
<1>6. t \in Tasks
  BY <1>1, <1>4 DEF Tasks, PCs, Opt
<1>7. Task(p, t)
  BY <1>1, <1>2, <1>3, <1>4, <1>6, Roles
  DEF Task, Prepared, RequestPCs, PrunerPCs, StopperPCs, EvictPCs, InCall, Tasks
<1>8. Local(p, t)
  BY <1>1, <1>2, <1>4, <1>5, <1>7, Roles DEF Local, InCall, Tasks, ErrArt
<1>9. t.todo = {} /\ t.pc \notin {"store", "age"}
  BY <1>1, <1>3, <1>4 DEF Tasks
<1> HIDE DEF t
<1> QED
  BY <1>1, <1>3, <1>8, <1>9, FetchStep

LEMMA ErrRegStep ==
  ASSUME IInv, NEW p \in Procs, ErrReg(p)
  PROVE  IInv' /\ ACStep
<1>1. /\ Task(p, th[p]) /\ th[p] \in Tasks /\ th \in [Procs -> Tasks]
      /\ th[p].pc = "errreg"
  BY Here DEF ErrReg, Pc
<1>2. p \in Requests /\ th[p].key \in Keys /\ th[p].op \in {"serve", "refresh"}
  BY <1>1, RequestOnly
<1> DEFINE t == Answer(th[p], "serve")
<1>3. th' = [th EXCEPT ![p] = t]
  BY DEF ErrReg
<1>4. Task(p, t) /\ t.pc = "serve" /\ t.todo = {}
  BY <1>2, AnswerTask
<1> HIDE DEF t
<1>5. Local(p, t)
  BY <1>1, <1>2, <1>3, <1>4, Roles DEF Local, ErrReg, InCall
<1>6. UNCHANGED <<caches, sweep>> /\ Books' /\ th[p].todo = {}
  BY <1>1, <1>2 DEF ErrReg, IInv, Books, Key, Tasks, Task
<1> QED
  BY <1>1, <1>4, <1>5, <1>6, QuietStep

LEMMA RespondStep ==
  ASSUME IInv, NEW p \in Procs, Respond(p)
  PROVE  IInv' /\ ACStep
<1>1. /\ Task(p, th[p]) /\ th \in [Procs -> Tasks]
      /\ th[p].pc \in {"serve", "reported", "conflict", "fail"}
  BY Here DEF Respond, Pc
<1>2. p \in Requests
  BY <1>1, RequestOnly
<1>3. th' = [th EXCEPT ![p] = NoTask]
  BY DEF Respond
<1>4. Local(p, NoTask)
  BY <1>1, <1>2, <1>3, NoTaskTask, Roles DEF Local, Respond, InCall
<1>5. UNCHANGED <<caches, sweep>> /\ Books' /\ th[p].todo = {}
  BY <1>1 DEF Respond, IInv, Books, Task
<1> QED
  BY <1>1, <1>4, <1>5, NoTaskTask, QuietStep

-----------------------------------------------------------------------------
(* Actions that change the artifact cache.                                 *)

\* artifactCache.set and evict keep the order of the cached artifacts.
LEMMA PutData ==
  ASSUME CacheData, NEW i \in Ids, NEW h \in Handles, NEW V \in SUBSET AC!Cached,
         AC!Put(i, h, V), open' = open
  PROVE  CacheData'
<1>1. /\ entries' = [j \in Ids |-> IF j = i THEN h ELSE IF j \in V THEN None ELSE entries[j]]
      /\ older' = {o \in older : /\ o[1] \in (AC!Cached \ V) \ {i}
                                 /\ o[2] \in (AC!Cached \ V) \ {i}}
                    \cup (((AC!Cached \ V) \ {i}) \X {i})
  BY DEF AC!Put
<1>2. entries' \in [Ids -> Opt(Handles)]
  BY <1>1 DEF CacheData, Opt
<1>3. \A j \in ((AC!Cached \ V) \ {i}) \cup {i} : j \in Ids /\ entries'[j] # None
  BY <1>1, Roles DEF AC!Cached, CacheData
<1>4. older' \subseteq Ids \X Ids
  BY <1>1, <1>3 DEF CacheData
<1>5. ASSUME NEW o \in older' PROVE entries'[o[1]] # None /\ entries'[o[2]] # None
  BY <1>1, <1>3
<1> QED
  BY <1>2, <1>4, <1>5 DEF CacheData

LEMMA DropData ==
  ASSUME CacheData, NEW i \in Ids, AC!Drop(i), open' = open
  PROVE  /\ CacheData'
         /\ i \notin AC!Cached => UNCHANGED <<entries, older>>
<1>1. /\ entries' = [entries EXCEPT ![i] = None]
      /\ older' = {o \in older : o[1] # i /\ o[2] # i}
  BY DEF AC!Drop
<1>2. CacheData'
  <2>1. ASSUME NEW o \in older' PROVE entries'[o[1]] # None /\ entries'[o[2]] # None
    BY <1>1 DEF CacheData
  <2> QED
    BY <1>1, <2>1 DEF CacheData, Opt
<1>3. ASSUME i \notin AC!Cached PROVE UNCHANGED <<entries, older>>
  <2>1. entries[i] = None
    BY <1>3 DEF AC!Cached
  <2>2. entries' = entries
    BY <1>1, <2>1 DEF CacheData
  <2>3. older' = older
    BY <1>1, <2>1 DEF CacheData
  <2> QED
    BY <2>2, <2>3
<1> QED
  BY <1>2, <1>3

LEMMA StoreStep ==
  ASSUME IInv, NEW p \in Procs, Store(p)
  PROVE  IInv' /\ ACStep
<1>1. Task(p, th[p]) /\ th[p] \in Tasks /\ th \in [Procs -> Tasks] /\ th[p].pc = "store"
  BY Here DEF Store, Pc
<1>2. /\ p \in Requests \cup Keys /\ th[p].key \in Keys
      /\ th[p].op \in {"serve", "refresh", "background"}
  BY <1>1, Resolver
<1>3. /\ UNCHANGED <<open, sweep>> /\ Books' /\ th[p].todo = {}
      /\ th[p].id \in Ids /\ th[p].fs \in Handles /\ th[p].fs # None
  BY <1>1, Roles DEF Store, IInv, Books, Task, Prepared, Tasks, Opt
<1>4. PICK V \in SUBSET AC!Cached :
        /\ AC!EvictionSet(V)
        /\ AC!Put(th[p].id, th[p].fs, V)
        /\ th' = [th EXCEPT ![p].pc = IF V = {} THEN "setmeta" ELSE "clean",
                            ![p].todo = AC!Cleanups(V)]
  BY DEF Store
<1>5. AC!Cleanups(V) \subseteq Handles
  BY DEF AC!Cleanups, AC!Cached, IInv, CacheData, Opt
<1>6. PICK x \in {"setmeta", "clean"} :
        /\ th' = [th EXCEPT ![p].pc = x, ![p].todo = AC!Cleanups(V)]
        /\ x = "setmeta" => AC!Cleanups(V) = {}
  <2>1. CASE V = {}
    BY <1>4, <2>1 DEF AC!Cleanups
  <2>2. CASE V # {}
    BY <1>4, <2>2
  <2> QED
    BY <2>1, <2>2
<1> DEFINE t == [th[p] EXCEPT !.pc = x, !.todo = AC!Cleanups(V)]
<1>7. th' = [th EXCEPT ![p] = t]
  BY <1>1, <1>6
<1>8. t \in Tasks
  BY <1>1, <1>5, <1>6 DEF Tasks, PCs
<1>9. Task(p, t)
  BY <1>1, <1>2, <1>3, <1>6, <1>8, Roles
  DEF Task, Prepared, RequestPCs, PrunerPCs, StopperPCs, EvictPCs, InCall, Tasks
<1>10. Local(p, t)
  BY <1>1, <1>2, <1>6, <1>7, <1>9, Roles DEF Local, Store, InCall, Tasks
<1>11. t.todo = AC!Cleanups(V) /\ t.pc \notin {"store", "age"}
  BY <1>1, <1>6 DEF Tasks
<1> HIDE DEF t
<1>12. AC!Store(p, th[p].id)
  BY <1>1, <1>3, <1>4, <1>10, <1>11, ClientStep DEF AC!Store
<1>13. ACStep
  BY <1>3, <1>12, CallStep
<1>14. CacheData'
  BY <1>3, <1>4, PutData DEF IInv
<1> QED
  BY <1>3, <1>10, <1>11, <1>13, <1>14, InvStep

\* The cleanups collected before are run.
LEMMA CleanStep ==
  ASSUME IInv, NEW p \in Procs, NEW t, Local(p, t), Books', UNCHANGED <<entries, older, sweep>>,
         open' = open \ th[p].todo, t.todo = {}, th[p].pc # "store", t.pc \notin {"store", "age"}
  PROVE  IInv' /\ ACStep
<1>1. CacheData'
  BY DEF IInv, CacheData
<1>2. ACStep
  <2>1. CASE th[p].todo = {}
    <3>1. th'[p] = t /\ (\A q \in Procs : q # p => th'[q] = th[q])
      BY LocalStep DEF IInv
    <3>2. UNCHANGED caches
      BY <2>1 DEF caches
    <3> QED
      BY <2>1, <3>1, <3>2, CacheIdle
  <2>2. CASE th[p].todo # {}
    <3>1. AC!RunCleanups(p)
      BY <2>2, ClientStep DEF AC!RunCleanups
    <3> QED
      BY <3>1 DEF ACStep, AC!Next
  <2> QED
    BY <2>1, <2>2
<1> QED
  BY <1>1, <1>2, InvStep

\* The action Clean.
LEMMA CleanupStep ==
  ASSUME IInv, NEW p \in Procs, Clean(p)
  PROVE  IInv' /\ ACStep
<1>1. Task(p, th[p]) /\ th[p] \in Tasks /\ th \in [Procs -> Tasks] /\ th[p].pc = "clean"
  BY Here DEF Clean, Pc
<1>2. /\ p \in Requests \cup Keys /\ th[p].key \in Keys
      /\ th[p].op \in {"serve", "refresh", "background"}
  BY <1>1, Resolver
<1> DEFINE t == [th[p] EXCEPT !.pc = "setmeta", !.todo = {}]
<1>3. th' = [th EXCEPT ![p] = t]
  BY <1>1 DEF Clean
<1>4. t \in Tasks
  BY <1>1 DEF Tasks, PCs
<1>5. Task(p, t)
  BY <1>1, <1>2, <1>4, Roles
  DEF Task, Prepared, RequestPCs, PrunerPCs, StopperPCs, EvictPCs, InCall, Tasks
<1>6. Local(p, t)
  BY <1>1, <1>2, <1>3, <1>5, Roles DEF Local, Clean, InCall, Tasks
<1>7. t.todo = {} /\ t.pc \notin {"store", "age"}
  BY <1>1 DEF Tasks
<1>8. UNCHANGED <<entries, older, sweep>> /\ Books' /\ open' = open \ th[p].todo
  BY DEF Clean, IInv, Books
<1> HIDE DEF t
<1> QED
  BY <1>1, <1>6, <1>7, <1>8, CleanStep

\* Who evicts, and where it goes on.
LEMMA AfterArtPC ==
  ASSUME IInv, NEW p \in Procs, th[p].pc \in {"evart", "evclean"}
  PROVE  \/ AfterArt(p) = "agekeys" /\ th[p].op = "age" /\ p = Pruner
         \/ AfterArt(p) = "evmeta" /\ th[p].op # "age" /\ th[p].key \in Keys
BY Here DEF AfterArt, Task, Tasks, Opt

LEMMA EvCleanStep ==
  ASSUME IInv, NEW p \in Procs, EvClean(p)
  PROVE  IInv' /\ ACStep
<1>1. /\ Task(p, th[p]) /\ th[p] \in Tasks /\ th \in [Procs -> Tasks]
      /\ th[p].pc = "evclean"
  BY Here DEF EvClean, Pc
<1>2. PICK x \in {"agekeys", "evmeta"} :
        /\ AfterArt(p) = x
        /\ x = "agekeys" => th[p].op = "age" /\ p = Pruner
        /\ x = "evmeta" => th[p].op # "age" /\ th[p].key \in Keys
  BY <1>1, AfterArtPC
<1> DEFINE t == [th[p] EXCEPT !.pc = x, !.todo = {}]
<1>3. th' = [th EXCEPT ![p] = t]
  BY <1>1, <1>2 DEF EvClean
<1>4. t \in Tasks
  BY <1>1, <1>2 DEF Tasks, PCs
<1>5. Task(p, t)
  BY <1>1, <1>2, <1>4, Roles
  DEF Task, Prepared, RequestPCs, PrunerPCs, StopperPCs, EvictPCs, InCall, Tasks
<1>6. Local(p, t)
  BY <1>1, <1>2, <1>3, <1>5, Roles DEF Local, EvClean, InCall, Tasks
<1>7. t.todo = {} /\ t.pc \notin {"store", "age"}
  BY <1>1, <1>2 DEF Tasks
<1>8. UNCHANGED <<entries, older, sweep>> /\ Books' /\ open' = open \ th[p].todo
  BY DEF EvClean, IInv, Books
<1> HIDE DEF t
<1> QED
  BY <1>1, <1>6, <1>7, <1>8, CleanStep

LEMMA EvArtStep ==
  ASSUME IInv, NEW p \in Procs, EvArt(p)
  PROVE  IInv' /\ ACStep
<1>1. Task(p, th[p]) /\ th[p] \in Tasks /\ th \in [Procs -> Tasks] /\ th[p].pc = "evart"
  BY Here DEF EvArt, Pc
<1>2. /\ UNCHANGED <<open, sweep>> /\ Books' /\ th[p].seen \in Ids /\ AC!Drop(th[p].seen)
      /\ th[p].todo = {}
  BY <1>1 DEF EvArt, IInv, Books, Task, Prepared, Tasks, Opt
<1>3. CacheData' /\ (th[p].seen \notin AC!Cached => UNCHANGED <<entries, older>>)
  BY <1>2, DropData DEF IInv
<1>4. AC!Cleanups({th[p].seen}) \subseteq Handles
  BY DEF AC!Cleanups, AC!Cached, IInv, CacheData, Opt
<1>5. PICK x \in {"evclean", "agekeys", "evmeta"} :
        /\ th' = [th EXCEPT ![p].pc = x, ![p].todo = AC!Cleanups({th[p].seen}), ![p].seen = None]
        /\ th[p].seen \notin AC!Cached => AC!Cleanups({th[p].seen}) = {}
        /\ x # "evclean" => AC!Cleanups({th[p].seen}) = {}
        /\ x = "agekeys" => th[p].op = "age" /\ p = Pruner
        /\ x = "evmeta" => th[p].op # "age" /\ th[p].key \in Keys
  <2>1. CASE th[p].seen \in AC!Cached
    BY <2>1 DEF EvArt
  <2>2. CASE th[p].seen \notin AC!Cached
    <3>1. AC!Cleanups({th[p].seen}) = {}
      BY <2>2 DEF AC!Cleanups
    <3>2. th' = [th EXCEPT ![p].pc = AfterArt(p), ![p].todo = AC!Cleanups({th[p].seen}), ![p].seen = None]
      BY <2>2 DEF EvArt
    <3> QED
      BY <1>1, <3>1, <3>2, AfterArtPC
  <2> QED
    BY <2>1, <2>2
<1> DEFINE t == [th[p] EXCEPT !.pc = x, !.todo = AC!Cleanups({th[p].seen}), !.seen = None]
<1>6. th' = [th EXCEPT ![p] = t]
  BY <1>1, <1>5
<1>7. t \in Tasks
  BY <1>1, <1>4, <1>5 DEF Tasks, PCs, Opt
<1>8. Task(p, t)
  BY <1>1, <1>5, <1>7, Roles
  DEF Task, Prepared, RequestPCs, PrunerPCs, StopperPCs, EvictPCs, InCall, Tasks
<1>9. Local(p, t)
  BY <1>1, <1>5, <1>6, <1>8, Roles DEF Local, EvArt, InCall, Tasks
<1>10. t.todo = AC!Cleanups({th[p].seen}) /\ t.pc \notin {"store", "age"}
  BY <1>1, <1>5 DEF Tasks
<1> HIDE DEF t
<1>11. ACStep
  <2>1. CASE th[p].seen \in AC!Cached
    <3>1. AC!Evict(p, th[p].seen)
      BY <1>1, <1>2, <1>9, <1>10, <2>1, ClientStep DEF AC!Evict
    <3> QED
      BY <1>2, <3>1, CallStep
  <2>2. CASE th[p].seen \notin AC!Cached
    <3>1. th'[p] = t /\ (\A q \in Procs : q # p => th'[q] = th[q])
      BY <1>9, LocalStep DEF IInv
    <3>2. UNCHANGED caches
      BY <1>2, <1>3, <2>2 DEF caches
    <3> QED
      BY <1>1, <1>2, <1>5, <1>10, <2>2, <3>1, <3>2, CacheIdle
  <2> QED
    BY <2>1, <2>2
<1> QED
  BY <1>2, <1>3, <1>9, <1>10, <1>11, InvStep

-----------------------------------------------------------------------------
(* Actions that end or begin the work of several goroutines.               *)

\* A step of any goroutines that leaves the artifact cache alone.
LEMMA ThreadsStep ==
  ASSUME IInv, Threads', Books', UNCHANGED <<caches, sweep>>, th'[Pruner] = th[Pruner],
         \A q \in Procs : \/ th'[q] = th[q]
                          \/ th[q].pc # "store" /\ th'[q].pc # "store" /\ th'[q].todo = th[q].todo
  PROVE  IInv' /\ ACStep
<1>1. CacheData' /\ Sweep'
  BY DEF IInv, CacheData, caches, Sweep, sweep, Pc
<1> QED
  BY <1>1, CacheIdle DEF IInv

\* The goroutine of a background refresh ends.
LEMMA ReturnRefresh ==
  ASSUME IInv, NEW p \in Keys, NEW ok \in BOOLEAN, Return(p, ok)
  PROVE  /\ Threads'
         /\ th' = [th EXCEPT ![p] = NoTask]
<1>1. /\ th' = [th EXCEPT ![p] = NoTask]
      /\ refreshing' = refreshing \ {p}
      /\ flight' = flight
  BY DEF Return, EndRefresh
<1>2. th \in [Procs -> Tasks] /\ p \in Procs
  BY Roles DEF IInv, Threads
<1>3. th' \in [Procs -> Tasks] /\ \A q \in Procs : Task(q, th'[q])
  BY <1>1, <1>2, NoTaskTask DEF IInv, Threads, Task
<1>4. \A q \in Procs : q # p => th'[q] = th[q]
  BY <1>1, <1>2
<1>5. th'[p].pc = "idle"
  BY <1>1, <1>2, NoTaskTask
<1>6. ASSUME NEW q \in Requests, th'[q].pc = "wait"
      PROVE  flight'[th'[q].key] # None
  BY <1>1, <1>4, <1>6, Roles DEF IInv, Threads, Flights, Pc, Key
<1>7. ASSUME NEW k \in Keys, flight'[k] # None
      PROVE  /\ th'[flight'[k]].key = k /\ th'[flight'[k]].pc \in InCall
             /\ th'[flight'[k]].op \in {"serve", "refresh"}
  <2>1. flight[k] \in Requests
    BY <1>1, <1>7 DEF IInv, Threads, Opt
  <2> QED
    BY <1>1, <1>4, <1>7, <2>1, Roles DEF IInv, Threads, Flights, Pc, Key
<1>8. \A k \in Keys : k \in refreshing' <=> th'[k].pc \in InCall
  BY <1>1, <1>4, <1>5, Roles DEF IInv, Threads, RefreshMarked, Pc, InCall
<1>9. Flights'
  BY <1>6, <1>7 DEF Flights, Pc, Key, InCall
<1>10. RefreshMarked'
  BY <1>8 DEF RefreshMarked, Pc, InCall
<1>11. flight' \in [Keys -> Opt(Requests)] /\ refreshing' \subseteq Keys
  BY <1>1 DEF IInv, Threads
<1> QED
  BY <1>1, <1>3, <1>9, <1>10, <1>11
  DEF Threads, Task, Prepared, RequestPCs, PrunerPCs, StopperPCs, EvictPCs, InCall

\* A woken request is a proper task.
LEMMA AwakeTask ==
  ASSUME IInv, NEW q \in Requests, th[q].op \in {"serve", "refresh"}, th[q].key \in Keys,
         NEW ok \in BOOLEAN
  PROVE  /\ Task(q, Awake(th[q], ok)) /\ Awake(th[q], ok).todo = {}
         /\ Awake(th[q], ok).pc \in {"serve", "report", "fail", "errget"}
<1>1. PICK x \in {"serve", "report", "fail", "errget"} : Awake(th[q], ok) = Answer(th[q], x)
  BY DEF Awake
<1> QED
  BY <1>1, AnswerTask

\* The leader of a call returns and wakes those who wait.
LEMMA ReturnLeader ==
  ASSUME IInv, NEW p \in Requests, NEW ok \in BOOLEAN, Return(p, ok),
         th[p].pc \in InCall, th[p].todo = {}, th[p].pc # "store",
         th[p].op \in {"serve", "refresh"}, th[p].key \in Keys, flight[th[p].key] = p
  PROVE  /\ Threads'
         /\ \A q \in Procs : \/ th'[q] = th[q]
                             \/ th[q].pc # "store" /\ th'[q].pc # "store" /\ th'[q].todo = th[q].todo
         /\ th'[Pruner] = th[Pruner]
<1>1. /\ flight' = [flight EXCEPT ![th[p].key] = None]
      /\ th' = [q \in Procs |-> IF Wakes(p, q) THEN Awake(th[q], ok) ELSE th[q]]
      /\ refreshing' = refreshing
  BY Roles DEF Return, EndFlight, Key
<1>2. ASSUME NEW q \in Procs, Wakes(p, q)
      PROVE  /\ q \in Requests /\ th[q].todo = {} /\ th[q].pc # "store"
             /\ th[q].op \in {"serve", "refresh"} /\ th[q].key \in Keys
             /\ th[q].pc \in InCall => q = p
  <2>1. CASE q = p
    BY <2>1
  <2>2. CASE th[q].pc = "wait"
    BY <2>2, RequestOnly, Here DEF Task, InCall
  <2> QED
    BY <1>2, <2>1, <2>2 DEF Wakes, Pc
<1>3. ASSUME NEW q \in Procs, Wakes(p, q)
      PROVE  /\ th'[q] = Awake(th[q], ok) /\ Task(q, th'[q]) /\ th'[q].todo = {}
             /\ th'[q].pc \in {"serve", "report", "fail", "errget"}
  <2>1. th'[q] = Awake(th[q], ok)
    BY <1>1, <1>3
  <2> QED
    BY <1>2, <1>3, <2>1, AwakeTask
<1>4. \A q \in Procs : ~Wakes(p, q) => th'[q] = th[q]
  BY <1>1
<1>5. \A q \in Procs : Task(q, th'[q])
  BY <1>3, <1>4, Here
<1>6. th' \in [Procs -> Tasks]
  BY <1>1, <1>5 DEF Task
<1>7. ASSUME NEW q \in Requests, th'[q].pc = "wait"
      PROVE  flight'[th'[q].key] # None
  <2>1. ~Wakes(p, q) /\ th'[q] = th[q] /\ q \in Procs
    BY <1>3, <1>4, <1>7, Roles
  <2>2. th[q].key # th[p].key /\ th[q].key \in Keys
    BY <1>7, <2>1, RequestOnly DEF Wakes, Pc, Key
  <2>3. flight[th[q].key] # None
    BY <1>7, <2>1 DEF IInv, Threads, Flights, Pc, Key
  <2> QED
    BY <1>1, <2>1, <2>2, <2>3 DEF IInv, Threads
<1>8. ASSUME NEW k \in Keys, flight'[k] # None
      PROVE  /\ th'[flight'[k]].key = k /\ th'[flight'[k]].pc \in InCall
             /\ th'[flight'[k]].op \in {"serve", "refresh"}
  <2>1. k # th[p].key /\ flight'[k] = flight[k] /\ flight[k] \in Requests
    BY <1>1, <1>8 DEF IInv, Threads, Opt
  <2>2. /\ th[flight[k]].key = k /\ th[flight[k]].pc \in InCall
        /\ th[flight[k]].op \in {"serve", "refresh"}
    BY <1>8, <2>1 DEF IInv, Threads, Flights, Pc, Key
  <2>3. flight[k] \in Procs /\ ~Wakes(p, flight[k])
    BY <2>1, <2>2, <1>2, Roles
  <2> QED
    BY <1>4, <2>1, <2>2, <2>3
<1>9. \A k \in Keys : k \in refreshing' <=> th'[k].pc \in InCall
  BY <1>1, <1>2, <1>4, Roles DEF IInv, Threads, RefreshMarked, Pc, InCall
<1>10. Flights'
  BY <1>7, <1>8 DEF Flights, Pc, Key, InCall
<1>11. RefreshMarked'
  BY <1>9 DEF RefreshMarked, Pc, InCall
<1>12. flight' \in [Keys -> Opt(Requests)] /\ refreshing' \subseteq Keys
  BY <1>1 DEF IInv, Threads, Opt
<1>13. th'[Pruner] = th[Pruner]
  BY <1>2, <1>4, Roles
<1>14. Threads'
  BY <1>5, <1>6, <1>10, <1>11, <1>12
  DEF Threads, Task, Prepared, RequestPCs, PrunerPCs, StopperPCs, EvictPCs, InCall
<1> QED
  BY <1>2, <1>3, <1>4, <1>13, <1>14

\* A request that downloads the artifact of fresh metadata leads no call.
LEMMA ReturnFresh ==
  ASSUME IInv, NEW p \in Requests, NEW ok \in BOOLEAN, Return(p, ok),
         th[p].op \in {"serve", "refresh"}, th[p].key \in Keys, th[p].pc \in InCall,
         flight[th[p].key] # p
  PROVE  /\ Threads'
         /\ th'[p].todo = {} /\ th'[p].pc # "store"
         /\ \A q \in Procs : q # p => th'[q] = th[q]
<1> DEFINE x == IF ok THEN "serve" ELSE "fail"
<1>1. /\ th' = [th EXCEPT ![p] = Answer(th[p], x)]
      /\ UNCHANGED <<flight, refreshing>>
  BY Roles DEF Return, Key
<1>2. /\ Task(p, Answer(th[p], x)) /\ Answer(th[p], x).todo = {}
      /\ Answer(th[p], x).pc \in {"serve", "fail"}
  BY AnswerTask
<1> HIDE DEF x
<1>3. th \in [Procs -> Tasks] /\ p \in Procs
  BY Roles DEF IInv, Threads
<1>4. \A q \in Procs : q # p => th'[q] = th[q]
  BY <1>1, <1>3
<1>5. th'[p] = Answer(th[p], x)
  BY <1>1, <1>3
<1>6. th' \in [Procs -> Tasks] /\ \A q \in Procs : Task(q, th'[q])
  BY <1>1, <1>2, <1>3, <1>4, <1>5, Here DEF Task
<1>7. ASSUME NEW q \in Requests, th'[q].pc = "wait"
      PROVE  flight'[th'[q].key] # None
  BY <1>1, <1>2, <1>4, <1>5, <1>7, Roles DEF IInv, Threads, Flights, Pc, Key
<1>8. ASSUME NEW k \in Keys, flight'[k] # None
      PROVE  /\ th'[flight'[k]].key = k /\ th'[flight'[k]].pc \in InCall
             /\ th'[flight'[k]].op \in {"serve", "refresh"}
  <2>1. flight[k] \in Requests /\ flight'[k] = flight[k]
    BY <1>1, <1>8 DEF IInv, Threads, Opt
  <2>2. /\ th[flight[k]].key = k /\ th[flight[k]].pc \in InCall
        /\ th[flight[k]].op \in {"serve", "refresh"}
    BY <1>8, <2>1 DEF IInv, Threads, Flights, Pc, Key
  <2>3. flight[k] # p
    BY <2>2
  <2> QED
    BY <1>4, <2>1, <2>2, <2>3, Roles
<1>9. \A k \in Keys : k \in refreshing' <=> th'[k].pc \in InCall
  BY <1>1, <1>4, Roles DEF IInv, Threads, RefreshMarked, Pc, InCall
<1>10. Flights'
  BY <1>7, <1>8 DEF Flights, Pc, Key, InCall
<1>11. RefreshMarked'
  BY <1>9 DEF RefreshMarked, Pc, InCall
<1>12. flight' \in [Keys -> Opt(Requests)] /\ refreshing' \subseteq Keys
  BY <1>1 DEF IInv, Threads
<1>13. Threads'
  BY <1>6, <1>10, <1>11, <1>12
  DEF Threads, Task, Prepared, RequestPCs, PrunerPCs, StopperPCs, EvictPCs, InCall
<1> QED
  BY <1>2, <1>4, <1>5, <1>13

\* fullResolve or downloadAndCache returns.
LEMMA ReturnStep ==
  ASSUME IInv, NEW p \in Procs, NEW ok \in BOOLEAN, Return(p, ok), Books', UNCHANGED <<caches, sweep>>,
         th[p].pc \in {"resolve", "download", "register", "evunreg"},
         th[p].op \in {"serve", "refresh", "background"}
  PROVE  IInv' /\ ACStep
<1>1. Task(p, th[p]) /\ th[p].todo = {} /\ th \in [Procs -> Tasks]
  BY Here DEF Task
<1>2. p \in Requests \cup Keys /\ th[p].key \in Keys
  BY <1>1 DEF Task, Prepared, Procs, PrunerPCs, StopperPCs, EvictPCs, Tasks, Opt
<1>3. CASE p \in Keys
  BY <1>1, <1>3, ReturnRefresh, NoTaskTask, ThreadsStep, Roles
<1>4. CASE p \in Requests
  <2>1. th[p].op \in {"serve", "refresh"}
    BY <1>1, <1>4 DEF Task
  <2>2. th[p].pc \in InCall
    BY DEF InCall
  <2>3. CASE flight[th[p].key] = p
    BY <1>1, <1>2, <1>4, <2>1, <2>2, <2>3, ReturnLeader, ThreadsStep
  <2>4. CASE flight[th[p].key] # p
    <3>1. /\ Threads' /\ th'[p].todo = {} /\ th'[p].pc # "store"
          /\ \A q \in Procs : q # p => th'[q] = th[q]
      BY <1>2, <1>4, <2>1, <2>2, <2>4, ReturnFresh
    <3>2. th'[Pruner] = th[Pruner]
      BY <1>4, <3>1, Roles
    <3> QED
      BY <1>1, <3>1, <3>2, ThreadsStep
  <2> QED
    BY <2>3, <2>4
<1> QED
  BY <1>2, <1>3, <1>4

\* The history variable keeps its type.
LEMMA CoolType ==
  ASSUME cooling \subseteq Keys, NEW p, NEW ok \in BOOLEAN, th[p].key \in Keys, Cool(p, ok)
  PROVE  cooling' \subseteq Keys
BY DEF Cool, Key

LEMMA DoStep ==
  ASSUME IInv, NEW p \in Procs, Do(p)
  PROVE  IInv' /\ ACStep
<1>1. /\ Task(p, th[p]) /\ th[p] \in Tasks /\ th \in [Procs -> Tasks]
      /\ th[p].pc = "do" /\ th[p].todo = {}
  BY Here DEF Do, Pc, Task
<1>2. p \in Requests /\ th[p].key \in Keys /\ th[p].op \in {"serve", "refresh"}
  BY <1>1, RequestOnly
<1>3. Books' /\ UNCHANGED <<caches, sweep, refreshing>>
  BY DEF Do, IInv, Books
<1>4. PICK x \in {"resolve", "wait"} :
        /\ th' = [th EXCEPT ![p].pc = x]
        /\ x = "resolve" => flight[th[p].key] = None /\ flight' = [flight EXCEPT ![th[p].key] = p]
        /\ x = "wait" => flight[th[p].key] # None /\ flight' = flight
  <2>1. CASE flight[th[p].key] = None
    BY <2>1 DEF Do, Goto, Key
  <2>2. CASE flight[th[p].key] # None
    BY <2>2 DEF Do, Goto, Key
  <2> QED
    BY <2>1, <2>2
<1> DEFINE t == [th[p] EXCEPT !.pc = x]
<1>5. th' = [th EXCEPT ![p] = t]
  BY <1>1, <1>4
<1>6. t \in Tasks
  BY <1>1, <1>4 DEF Tasks, PCs
<1>7. Task(p, t)
  BY <1>1, <1>2, <1>4, <1>6, Roles
  DEF Task, Prepared, RequestPCs, PrunerPCs, StopperPCs, EvictPCs, InCall, Tasks
<1>8. t.pc = x /\ t.todo = {} /\ t.key = th[p].key /\ t.op = th[p].op
  BY <1>1, <1>4 DEF Tasks
<1> HIDE DEF t
<1>9. th'[p] = t /\ \A q \in Procs : q # p => th'[q] = th[q]
  BY <1>1, <1>5
<1>10. th' \in [Procs -> Tasks] /\ \A q \in Procs : Task(q, th'[q])
  BY <1>1, <1>5, <1>6, <1>7, <1>9, Here
<1>11. flight' \in [Keys -> Opt(Requests)] /\ refreshing' \subseteq Keys
  BY <1>2, <1>3, <1>4 DEF IInv, Threads, Opt
<1>12. ASSUME NEW q \in Requests, th'[q].pc = "wait"
       PROVE  flight'[th'[q].key] # None
  <2>1. CASE q = p
    BY <1>4, <1>8, <1>9, <1>12, <2>1
  <2>2. CASE q # p
    <3>1. th'[q] = th[q] /\ th[q].key \in Keys /\ flight[th[q].key] # None
      BY <1>9, <1>12, <2>2, RequestOnly, Roles DEF IInv, Threads, Flights, Pc, Key
    <3> QED
      BY <1>2, <1>4, <3>1, Roles DEF IInv, Threads
  <2> QED
    BY <2>1, <2>2
<1>13. ASSUME NEW k \in Keys, flight'[k] # None
       PROVE  /\ th'[flight'[k]].key = k /\ th'[flight'[k]].pc \in InCall
              /\ th'[flight'[k]].op \in {"serve", "refresh"}
  <2>1. CASE flight'[k] = p /\ k = th[p].key /\ x = "resolve"
    BY <1>2, <1>8, <1>9, <2>1 DEF InCall
  <2>2. CASE flight'[k] = flight[k]
    <3>1. /\ flight[k] \in Requests /\ th[flight[k]].key = k /\ th[flight[k]].pc \in InCall
          /\ th[flight[k]].op \in {"serve", "refresh"}
      BY <1>13, <2>2 DEF IInv, Threads, Flights, Pc, Key, Opt
    <3>2. flight[k] # p
      BY <1>1, <3>1 DEF InCall
    <3> QED
      BY <1>9, <2>2, <3>1, <3>2, Roles
  <2> QED
    BY <1>2, <1>4, <2>1, <2>2 DEF IInv, Threads
<1>14. Flights'
  BY <1>12, <1>13 DEF Flights, Pc, Key, InCall
<1>15. RefreshMarked'
  <2>1. \A k \in Keys : k \in refreshing' <=> th'[k].pc \in InCall
    BY <1>2, <1>3, <1>9, Roles DEF IInv, Threads, RefreshMarked, Pc, InCall
  <2> QED
    BY <2>1 DEF RefreshMarked, Pc, InCall
<1>16. Threads'
  BY <1>10, <1>11, <1>14, <1>15
  DEF Threads, Task, Prepared, RequestPCs, PrunerPCs, StopperPCs, EvictPCs, InCall
<1> QED
  BY <1>1, <1>2, <1>3, <1>4, <1>8, <1>9, <1>16, ThreadsStep, Roles

\* A new background refresh is a proper task.
LEMMA RefreshTask ==
  ASSUME NEW k \in Keys
  PROVE  LET b == [NoTask EXCEPT !.pc = "resolve", !.op = "background", !.key = k]
         IN  Task(k, b) /\ b.pc = "resolve" /\ b.todo = {}
<1> DEFINE b == [NoTask EXCEPT !.pc = "resolve", !.op = "background", !.key = k]
<1>1. NoTask \in Tasks
  BY DEF NoTask, Tasks, PCs, Opt
<1>2. b \in Tasks
  <2>1. [NoTask EXCEPT !.pc = "resolve"] \in Tasks
    BY <1>1 DEF Tasks, PCs
  <2>2. [[NoTask EXCEPT !.pc = "resolve"] EXCEPT !.op = "background"] \in Tasks
    BY <2>1 DEF Tasks
  <2>3. b = [[[NoTask EXCEPT !.pc = "resolve"] EXCEPT !.op = "background"] EXCEPT !.key = k]
    BY Zenon
  <2> QED
    BY <2>2, <2>3 DEF Tasks, Opt
<1>3. b.pc = "resolve" /\ b.todo = {} /\ b.op = "background" /\ b.key = k
  BY DEF NoTask
<1> HIDE DEF b
<1>4. Task(k, b)
  BY <1>2, <1>3, Roles
  DEF Task, Prepared, RequestPCs, PrunerPCs, StopperPCs, EvictPCs, InCall
<1> QED
  BY <1>3, <1>4 DEF b

LEMMA TriggerStep ==
  ASSUME IInv, NEW p \in Procs, Trigger(p)
  PROVE  IInv' /\ ACStep
<1>1. /\ Task(p, th[p]) /\ th[p] \in Tasks /\ th \in [Procs -> Tasks]
      /\ th[p].pc = "trigger" /\ th[p].todo = {}
  BY Here DEF Trigger, Pc, Task
<1>2. p \in Requests /\ th[p].key \in Keys /\ th[p].op \in {"serve", "refresh"}
  BY <1>1, RequestOnly
<1>3. Books' /\ UNCHANGED <<caches, sweep, flight>>
  BY DEF Trigger, IInv, Books
<1> DEFINE k == th[p].key
           t == Answer(th[p], "serve")
           b == [NoTask EXCEPT !.pc = "resolve", !.op = "background", !.key = k]
<1>4. /\ refreshing' = refreshing \cup {k}
      /\ th' = [q \in Procs |-> IF q = p THEN t
                                ELSE IF q = k /\ k \notin refreshing THEN b ELSE th[q]]
  BY DEF Trigger, Key
<1>5. Task(p, t) /\ t.pc = "serve" /\ t.todo = {}
  BY <1>2, AnswerTask
<1>6. Task(k, b) /\ b.pc = "resolve" /\ b.todo = {}
  BY <1>2, RefreshTask
<1>7. p \in Procs /\ k \in Procs /\ k # p /\ p # Pruner /\ k # Pruner
  BY <1>2, Roles
<1> HIDE DEF t, b
<1>8. /\ th'[p] = t
      /\ k \notin refreshing => th'[k] = b
      /\ k \in refreshing => th'[k] = th[k]
      /\ \A q \in Procs : q # p /\ q # k => th'[q] = th[q]
  BY <1>4, <1>7
<1>9. \A q \in Procs : Task(q, th'[q])
  BY <1>5, <1>6, <1>7, <1>8, Here
<1>10. th' \in [Procs -> Tasks]
  BY <1>4, <1>9 DEF Task
<1>11. flight' \in [Keys -> Opt(Requests)] /\ refreshing' \subseteq Keys
  BY <1>2, <1>3, <1>4 DEF IInv, Threads
<1>12. ASSUME NEW q \in Requests, th'[q].pc = "wait"
       PROVE  flight'[th'[q].key] # None
  BY <1>2, <1>3, <1>5, <1>8, <1>12, Roles DEF IInv, Threads, Flights, Pc, Key
<1>13. ASSUME NEW j \in Keys, flight'[j] # None
       PROVE  /\ th'[flight'[j]].key = j /\ th'[flight'[j]].pc \in InCall
              /\ th'[flight'[j]].op \in {"serve", "refresh"}
  <2>1. /\ flight[j] \in Requests /\ th[flight[j]].key = j /\ th[flight[j]].pc \in InCall
        /\ th[flight[j]].op \in {"serve", "refresh"}
    BY <1>3, <1>13 DEF IInv, Threads, Flights, Pc, Key, Opt
  <2>2. flight[j] # p
    BY <1>1, <2>1 DEF InCall
  <2> QED
    BY <1>2, <1>3, <1>8, <2>1, <2>2, Roles
<1>14. Flights'
  BY <1>12, <1>13 DEF Flights, Pc, Key, InCall
<1>15. th[k].pc \in InCall <=> k \in refreshing
  BY <1>2 DEF IInv, Threads, RefreshMarked, Pc
<1>16. RefreshMarked'
  <2>1. \A j \in Keys : j \in refreshing' <=> th'[j].pc \in InCall
    <3>1. b.pc \in InCall
      BY <1>6 DEF InCall
    <3>2. th'[k].pc \in InCall
      BY <1>8, <1>15, <3>1
    <3>3. ASSUME NEW j \in Keys, j # k PROVE j \in refreshing' <=> th'[j].pc \in InCall
      BY <1>2, <1>4, <1>8, <3>3, Roles DEF IInv, Threads, RefreshMarked, Pc
    <3> QED
      BY <1>4, <3>2, <3>3
  <2> QED
    BY <2>1 DEF RefreshMarked, Pc, InCall
<1>17. Threads'
  BY <1>9, <1>10, <1>11, <1>14, <1>16
  DEF Threads, Task, Prepared, RequestPCs, PrunerPCs, StopperPCs, EvictPCs, InCall
<1>18. k \notin refreshing => th[k].pc = "idle" /\ th[k].todo = {}
  BY <1>2, <1>7, <1>15, Here DEF Task
<1>19. \A q \in Procs : \/ th'[q] = th[q]
                        \/ th[q].pc # "store" /\ th'[q].pc # "store" /\ th'[q].todo = th[q].todo
  BY <1>1, <1>5, <1>6, <1>8, <1>18
<1>20. th'[Pruner] = th[Pruner]
  BY <1>7, <1>8, Roles
<1> QED
  BY <1>3, <1>17, <1>19, <1>20, ThreadsStep

LEMMA ResolveStep ==
  ASSUME IInv, NEW p \in Procs, Resolve(p)
  PROVE  IInv' /\ ACStep
<1>1. /\ Task(p, th[p]) /\ th[p] \in Tasks /\ th \in [Procs -> Tasks]
      /\ th[p].pc = "resolve" /\ th[p].todo = {}
  BY Here DEF Resolve, Pc, Task
<1>2. /\ p \in Requests \cup Keys /\ th[p].key \in Keys
      /\ th[p].op \in {"serve", "refresh", "background"}
  BY <1>1, Resolver
<1>3. meta' = meta /\ fsmap' = fsmap /\ UNCHANGED <<caches, sweep>>
  BY DEF Resolve
<1>4. CASE Return(p, FALSE) /\ Cool(p, FALSE)
  <2>1. Books'
    BY <1>2, <1>3, <1>4, CoolType DEF IInv, Books
  <2> QED
    BY <1>1, <1>2, <1>3, <1>4, <2>1, ReturnStep
<1>5. CASE Goto(p, "evget") /\ UNCHANGED <<flight, refreshing, cooling>>
  <2> DEFINE t == [th[p] EXCEPT !.pc = "evget"]
  <2>1. th' = [th EXCEPT ![p] = t]
    BY <1>1, <1>5 DEF Goto
  <2>2. t \in Tasks
    BY <1>1 DEF Tasks, PCs
  <2>3. Task(p, t)
    BY <1>1, <1>2, <2>2, Roles
    DEF Task, Prepared, RequestPCs, PrunerPCs, StopperPCs, EvictPCs, InCall, Tasks
  <2>4. Local(p, t)
    BY <1>1, <1>2, <1>5, <2>1, <2>3, Roles DEF Local, InCall, Tasks
  <2>5. t.todo = th[p].todo /\ t.pc \notin {"store", "age"}
    BY <1>1 DEF Tasks
  <2>6. Books'
    BY <1>3, <1>5 DEF IInv, Books
  <2> HIDE DEF t
  <2> QED
    BY <1>1, <1>3, <2>4, <2>5, <2>6, QuietStep
<1>6. CASE \E i \in ArtifactsOf[th[p].key], v \in {"head", "listing"} :
             /\ th' = [th EXCEPT ![p].pc = "guard", ![p].id = i, ![p].via = v]
             /\ UNCHANGED <<flight, refreshing, cooling>>
  <2>1. PICK i \in Ids, v \in {"head", "listing"} :
             /\ th' = [th EXCEPT ![p].pc = "guard", ![p].id = i, ![p].via = v]
             /\ UNCHANGED <<flight, refreshing, cooling>>
    BY <1>2, <1>6 DEF Ids
  <2> DEFINE t == [th[p] EXCEPT !.pc = "guard", !.id = i, !.via = v]
  <2>2. th' = [th EXCEPT ![p] = t]
    BY <1>1, <2>1
  <2>3. t \in Tasks
    BY <1>1 DEF Tasks, PCs, Opt
  <2>4. Task(p, t)
    BY <1>1, <1>2, <2>3, Roles
    DEF Task, Prepared, RequestPCs, PrunerPCs, StopperPCs, EvictPCs, InCall, Tasks
  <2>5. Local(p, t)
    BY <1>1, <1>2, <2>1, <2>2, <2>4, Roles DEF Local, InCall, Tasks
  <2>6. t.todo = th[p].todo /\ t.pc \notin {"store", "age"}
    BY <1>1 DEF Tasks
  <2>7. Books'
    BY <1>3, <2>1 DEF IInv, Books
  <2> HIDE DEF t
  <2> QED
    BY <1>1, <1>3, <2>5, <2>6, <2>7, QuietStep
<1> QED
  BY <1>4, <1>5, <1>6 DEF Resolve, Key

LEMMA DownloadStep ==
  ASSUME IInv, NEW p \in Procs, Download(p)
  PROVE  IInv' /\ ACStep
<1>1. /\ Task(p, th[p]) /\ th[p] \in Tasks /\ th \in [Procs -> Tasks]
      /\ th[p].pc = "download" /\ th[p].todo = {}
  BY Here DEF Download, Pc, Task
<1>2. /\ p \in Requests \cup Keys /\ th[p].key \in Keys
      /\ th[p].op \in {"serve", "refresh", "background"}
  BY <1>1, Resolver
<1>3. th[p].id \in Ids
  BY <1>1 DEF Task, Tasks, Prepared, Opt
<1>4. UNCHANGED <<meta, entries, older, fsmap, sweep>>
  BY DEF Download
<1>5. CASE Return(p, FALSE) /\ Cool(p, FALSE) /\ UNCHANGED open
  <2>1. Books'
    BY <1>2, <1>4, <1>5, CoolType DEF IInv, Books
  <2>2. UNCHANGED <<caches, sweep>>
    BY <1>4, <1>5 DEF caches
  <2> QED
    BY <1>1, <1>2, <1>5, <2>1, <2>2, ReturnStep
<1>6. ASSUME NEW c \in Copies, <<th[p].id, c>> \notin InUse,
             th' = [th EXCEPT ![p].pc = "store", ![p].fs = <<th[p].id, c>>],
             open' = open \cup {<<th[p].id, c>>},
             UNCHANGED <<flight, refreshing, cooling>>
      PROVE  IInv' /\ ACStep
  <2> DEFINE h == <<th[p].id, c>>
  <2>1. h \in Handles
    BY <1>3 DEF Handles
  <2>2. /\ h \notin InUse /\ open' = open \cup {h}
        /\ th' = [th EXCEPT ![p].pc = "store", ![p].fs = h]
    BY <1>6
  <2> HIDE DEF h
  <2> DEFINE t == [th[p] EXCEPT !.pc = "store", !.fs = h]
  <2>3. th' = [th EXCEPT ![p] = t]
    BY <1>1, <2>2
  <2>4. t \in Tasks
    BY <1>1, <2>1 DEF Tasks, PCs, Opt
  <2>5. Task(p, t)
    BY <1>1, <1>2, <2>1, <2>4, Roles
    DEF Task, Prepared, RequestPCs, PrunerPCs, StopperPCs, EvictPCs, InCall, Tasks
  <2>6. Local(p, t)
    BY <1>1, <1>2, <1>6, <2>3, <2>5, Roles DEF Local, InCall, Tasks
  <2>7. t.todo = {} /\ t.pc = "store" /\ t.fs = h
    BY <1>1 DEF Tasks
  <2>8. Books'
    BY <1>4, <1>6 DEF IInv, Books
  <2>9. CacheData'
    BY <1>4, <2>1, <2>2 DEF IInv, CacheData
  <2> HIDE DEF t
  <2>10. h \notin AC!CachedHandles \cup AC!HeldHandles \cup AC!Retired
    <3>1. AC!HeldHandles \subseteq {th[q].fs : q \in Procs}
      BY DEF AC!HeldHandles, Holds
    <3> QED
      BY <2>2, <3>1 DEF InUse
  <2>11. Holds' = [Holds EXCEPT ![p] = h] /\ Holds[p] = None
    BY <1>1, <2>6, <2>7, ClientStep
  <2>12. Cleans' = Cleans /\ Cleans[p] = {}
    BY <1>1, <2>6, <2>7, ClientStep
  <2>13. AC!Open(p, h)
    BY <1>4, <2>2, <2>10, <2>11, <2>12 DEF AC!Open
  <2>14. ACStep
    BY <2>1, <2>13 DEF ACStep, AC!Next
  <2> QED
    BY <1>4, <2>6, <2>7, <2>8, <2>9, <2>14, InvStep
<1> QED
  BY <1>5, <1>6 DEF Download

LEMMA RegisterStep ==
  ASSUME IInv, NEW p \in Procs, Register(p)
  PROVE  IInv' /\ ACStep
<1>1. Task(p, th[p]) /\ th[p] \in Tasks /\ th[p].pc = "register"
  BY Here DEF Register, Pc
<1>2. /\ p \in Requests \cup Keys /\ th[p].key \in Keys
      /\ th[p].op \in {"serve", "refresh", "background"}
  BY <1>1, Resolver
<1>3. Return(p, TRUE) /\ UNCHANGED <<caches, sweep>>
  BY DEF Register
<1>4. Books'
  BY <1>1, <1>2, CoolType DEF Register, IInv, Books, Key, Tasks
<1> QED
  BY <1>1, <1>2, <1>3, <1>4, ReturnStep

-----------------------------------------------------------------------------
(* New requests, the end of evictions.                                     *)

LEMMA StartStep ==
  ASSUME IInv, NEW p \in Requests, NEW o \in {"serve", "refresh", "evict"}, NEW k \in Keys, Start(p, o, k)
  PROVE  IInv' /\ ACStep
<1>1. /\ p \in Procs /\ Task(p, th[p]) /\ th \in [Procs -> Tasks]
      /\ th[p].pc = "idle" /\ th[p].todo = {}
  BY Here, Roles DEF Start, Pc, Task
<1>2. PICK x \in {"lookup", "do", "evget"} :
        /\ th' = [th EXCEPT ![p] = [NoTask EXCEPT !.op = o, !.key = k, !.pc = x]]
        /\ x # "evget" => o # "evict"
  <2>1. CASE o = "serve"
    BY <2>1 DEF Start
  <2>2. CASE o = "refresh"
    BY <2>2 DEF Start
  <2>3. CASE o = "evict"
    BY <2>3 DEF Start
  <2> QED
    BY <2>1, <2>2, <2>3
<1> DEFINE t == [NoTask EXCEPT !.op = o, !.key = k, !.pc = x]
<1>3. t.pc = x /\ t.op = o /\ t.key = k /\ t.todo = {}
  BY DEF NoTask
<1>4. t \in Tasks
  <2>1. NoTask \in Tasks
    BY DEF NoTask, Tasks, PCs, Opt
  <2>2. k \in Opt(Keys) /\ x \in PCs
    BY DEF Opt, PCs
  <2> QED
    BY <2>1, <2>2 DEF Tasks
<1>5. th' = [th EXCEPT ![p] = t]
  BY <1>2
<1> HIDE DEF t
<1>6. Task(p, t)
  BY <1>2, <1>3, <1>4, Roles
  DEF Task, Prepared, RequestPCs, PrunerPCs, StopperPCs, EvictPCs, InCall
<1>7. Local(p, t)
  BY <1>1, <1>2, <1>3, <1>5, <1>6, Roles DEF Local, Start, InCall
<1>8. UNCHANGED <<caches, sweep>> /\ Books'
  BY DEF Start, IInv, Books
<1> QED
  BY <1>1, <1>2, <1>3, <1>7, <1>8, QuietStep

LEMMA EvUnregStep ==
  ASSUME IInv, NEW p \in Procs, EvUnreg(p)
  PROVE  IInv' /\ ACStep
<1>1. /\ Task(p, th[p]) /\ th[p] \in Tasks /\ th \in [Procs -> Tasks]
      /\ th[p].pc = "evunreg" /\ th[p].todo = {}
  BY Here DEF EvUnreg, Pc, Task
<1>2. th[p].key \in Keys
  BY <1>1 DEF Task, Prepared, Tasks, Opt
<1>3. UNCHANGED <<caches, sweep>> /\ meta' = meta /\ fsmap' \in [Keys -> Opt(Handles)]
  BY <1>2 DEF EvUnreg, Unregistered, Key, IInv, Books, Opt
<1>4. CASE th[p].op \in {"serve", "refresh", "background"}
  <2>1. Return(p, FALSE) /\ Cool(p, FALSE)
    BY <1>4 DEF EvUnreg
  <2>2. Books'
    BY <1>2, <1>3, <2>1, CoolType DEF IInv, Books
  <2> QED
    BY <1>1, <1>3, <1>4, <2>1, <2>2, ReturnStep
<1>5. CASE th[p].op = "evict"
  <2>1. th' = [th EXCEPT ![p] = NoTask] /\ UNCHANGED <<flight, refreshing, cooling>>
    BY <1>5 DEF EvUnreg
  <2>2. Local(p, NoTask)
    BY <1>1, <1>5, <2>1, NoTaskTask DEF Local, Task, InCall
  <2>3. Books'
    BY <1>3, <2>1 DEF IInv, Books
  <2> QED
    BY <1>1, <1>3, <2>2, <2>3, NoTaskTask, QuietStep
<1>6. CASE th[p].op = "closed"
  <2> DEFINE t == [NoTask EXCEPT !.pc = "check"]
  <2>1. th' = [th EXCEPT ![p] = t] /\ UNCHANGED <<flight, refreshing, cooling>>
    BY <1>6 DEF EvUnreg
  <2>2. p = Pruner
    BY <1>1, <1>6 DEF Task, Procs, RequestPCs, StopperPCs, EvictPCs, InCall
  <2>3. t \in Tasks /\ t.pc = "check" /\ t.op = "none" /\ t.key = None /\ t.todo = {}
    BY DEF NoTask, Tasks, PCs, Opt
  <2> HIDE DEF t
  <2>4. Task(p, t)
    BY <2>2, <2>3, Roles
    DEF Task, Prepared, RequestPCs, PrunerPCs, StopperPCs, EvictPCs, InCall
  <2>5. Local(p, t)
    BY <1>1, <1>6, <2>1, <2>2, <2>3, <2>4, Roles DEF Local
  <2>6. Books'
    BY <1>3, <2>1 DEF IInv, Books
  <2> QED
    BY <1>1, <1>3, <2>3, <2>5, <2>6, QuietStep
<1>7. CASE th[p].op = "age"
  <2> DEFINE t == [th[p] EXCEPT !.pc = "agekeys", !.key = None]
  <2>1. th' = [th EXCEPT ![p].pc = "agekeys", ![p].key = None] /\ UNCHANGED <<flight, refreshing, cooling>>
    BY <1>7 DEF EvUnreg
  <2>2. th' = [th EXCEPT ![p] = t]
    BY <1>1, <2>1
  <2>3. p = Pruner
    BY <1>1, <1>7 DEF Task
  <2>4. t \in Tasks
    BY <1>1 DEF Tasks, PCs, Opt
  <2>5. t.pc = "agekeys" /\ t.todo = {} /\ t.op = "age"
    BY <1>1, <1>7 DEF Tasks
  <2> HIDE DEF t
  <2>6. Task(p, t)
    BY <2>3, <2>4, <2>5, Roles
    DEF Task, Prepared, RequestPCs, PrunerPCs, StopperPCs, EvictPCs, InCall
  <2>7. Local(p, t)
    BY <1>1, <1>7, <2>1, <2>2, <2>3, <2>5, <2>6, Roles DEF Local
  <2>8. Books'
    BY <1>3, <2>1 DEF IInv, Books
  <2> QED
    BY <1>1, <1>3, <2>5, <2>7, <2>8, QuietStep
<1> QED
  <2>1. \/ th[p].op \in {"serve", "refresh", "background"} \/ th[p].op = "evict"
        \/ th[p].op = "closed" \/ th[p].op = "age"
    BY <1>1 DEF Task, Procs, RequestPCs, StopperPCs, PrunerPCs, EvictPCs, InCall
  <2> QED
    BY <2>1, <1>4, <1>5, <1>6, <1>7

-----------------------------------------------------------------------------
(* The pruner.                                                             *)

\* A step of the pruner outside of an eviction.
LEMMA PrunerStep ==
  ASSUME IInv, NEW t, th' = [th EXCEPT ![Pruner] = t], Task(Pruner, t), t.todo = {},
         th[Pruner].pc \in {"idle", "check", "age", "agekeys"}, Sweep',
         UNCHANGED <<meta, caches, fsmap, flight, refreshing, cooling>>
  PROVE  IInv' /\ ACStep
<1>1. Pruner \in Procs /\ th[Pruner].todo = {}
  BY Here, Roles DEF Task
<1>2. Local(Pruner, t)
  BY <1>1, Roles DEF Local, InCall, Task, PrunerPCs
<1>3. Threads' /\ th'[Pruner] = t /\ (\A q \in Procs : q # Pruner => th'[q] = th[q])
  BY <1>1, <1>2, LocalStep DEF IInv
<1>4. Books' /\ CacheData'
  BY DEF IInv, Books, CacheData, caches
<1>5. t.pc # "store"
  BY Roles DEF Task, PrunerPCs
<1>6. ACStep
  BY <1>1, <1>3, <1>5, CacheIdle
<1> QED
  BY <1>3, <1>4, <1>6 DEF IInv

LEMMA TickStep ==
  ASSUME IInv, Tick
  PROVE  IInv' /\ ACStep
<1>1. /\ Pruner \in Procs /\ Task(Pruner, th[Pruner]) /\ th[Pruner] \in Tasks
      /\ th \in [Procs -> Tasks]
  BY Here, Roles
<1>2. /\ th[Pruner].pc = "idle" /\ th[Pruner].todo = {}
      /\ UNCHANGED <<meta, caches, fsmap, flight, refreshing, victims, doomed, cooling>>
      /\ snap' = Snapshot /\ left' = {k \in PRs : meta[k] # None}
  BY <1>1 DEF Tick, Pc, Task
<1> DEFINE t == [th[Pruner] EXCEPT !.pc = "check"]
<1>3. th' = [th EXCEPT ![Pruner] = t]
  BY <1>1 DEF Tick, Goto
<1>4. t \in Tasks
  BY <1>1 DEF Tasks, PCs
<1>5. Task(Pruner, t) /\ t.todo = {} /\ t.pc = "check"
  BY <1>1, <1>2, <1>4, Roles
  DEF Task, Prepared, RequestPCs, PrunerPCs, StopperPCs, EvictPCs, InCall, Tasks
<1> HIDE DEF t
<1>6. Sweep'
  <2>1. \A k \in Keys : meta[k] # None => meta[k].id \in Ids
    BY DEF IInv, Books, Opt
  <2>2. snap' \in [Keys -> Opt(Ids)] /\ left' \subseteq Keys /\ \A k \in left' : snap'[k] # None
    BY <1>2, <2>1, KeysAssumption, Roles DEF Snapshot, Opt
  <2>3. th'[Pruner].pc # "age"
    BY <1>1, <1>3, <1>5
  <2> QED
    BY <1>2, <2>2, <2>3 DEF IInv, Sweep, Pc
<1> QED
  BY <1>2, <1>3, <1>5, <1>6, PrunerStep

LEMMA CheckStep ==
  ASSUME IInv, NEW k \in Keys, Check(k)
  PROVE  IInv' /\ ACStep
<1>1. /\ Pruner \in Procs /\ Task(Pruner, th[Pruner]) /\ th[Pruner] \in Tasks
      /\ th \in [Procs -> Tasks]
  BY Here, Roles
<1>2. /\ th[Pruner].pc = "check" /\ th[Pruner].todo = {}
      /\ UNCHANGED <<meta, caches, fsmap, flight, refreshing, snap, victims, doomed, cooling>>
      /\ left' = left \ {k} /\ snap[k] \in Ids
  BY <1>1 DEF Check, Pc, Task, IInv, Sweep, Opt
<1>3. CASE th' = th
  <2>1. th' = [th EXCEPT ![Pruner] = th[Pruner]]
    BY <1>1, <1>3
  <2>2. Sweep'
    BY <1>2, <1>3 DEF IInv, Sweep, Pc
  <2> QED
    BY <1>1, <1>2, <2>1, <2>2, PrunerStep
<1>4. CASE th' = [th EXCEPT ![Pruner].pc = "evart", ![Pruner].op = "closed",
                            ![Pruner].key = k, ![Pruner].seen = snap[k]]
  <2> DEFINE t == [th[Pruner] EXCEPT !.pc = "evart", !.op = "closed", !.key = k, !.seen = snap[k]]
  <2>1. th' = [th EXCEPT ![Pruner] = t]
    BY <1>1, <1>4
  <2>2. t \in Tasks
    BY <1>1, <1>2 DEF Tasks, PCs, Opt
  <2>3. /\ t.pc = "evart" /\ t.op = "closed" /\ t.key = k /\ t.seen = snap[k]
        /\ t.todo = {}
    BY <1>1, <1>2 DEF Tasks
  <2> HIDE DEF t
  <2>4. Task(Pruner, t)
    BY <1>2, <2>2, <2>3, Roles DEF Task, Prepared, PrunerPCs, EvictPCs
  <2>5. Sweep'
    BY <1>1, <1>2, <2>1, <2>3 DEF IInv, Sweep, Pc
  <2> QED
    BY <1>1, <1>2, <2>1, <2>3, <2>4, <2>5, PrunerStep
<1> QED
  BY <1>3, <1>4 DEF Check

LEMMA EndCycleStep ==
  ASSUME IInv, EndCycle, left = {}, victims' = victims, th[Pruner].pc \in {"check", "age"}
  PROVE  IInv' /\ ACStep
<1>1. Task(Pruner, NoTask) /\ NoTask.todo = {} /\ NoTask.pc = "idle"
  BY NoTaskTask, Roles
<1>2. th' = [th EXCEPT ![Pruner] = NoTask] /\ th \in [Procs -> Tasks]
  BY DEF EndCycle, IInv, Threads
<1>3. Sweep'
  <2>1. th'[Pruner].pc = "idle"
    BY <1>1, <1>2, Roles
  <2> QED
    BY <2>1 DEF EndCycle, IInv, Sweep, NoSnapshot, Opt, Pc
<1>4. UNCHANGED <<meta, caches, fsmap, flight, refreshing, cooling>>
  BY DEF EndCycle
<1> QED
  BY <1>1, <1>2, <1>3, <1>4, PrunerStep

LEMMA CheckedStep ==
  ASSUME IInv, Checked
  PROVE  IInv' /\ ACStep
<1>1. th[Pruner].pc = "check" /\ left = {}
  BY DEF Checked, Pc
<1>2. CASE EndCycle /\ victims' = victims
  BY <1>1, <1>2, EndCycleStep
<1>3. CASE /\ \E S \in SUBSET AC!Cached : Stale(S) /\ victims' = S
           /\ Goto(Pruner, "age")
           /\ UNCHANGED <<meta, caches, fsmap, flight, refreshing, snap, left, doomed, cooling>>
  <2>1. /\ Pruner \in Procs /\ Task(Pruner, th[Pruner]) /\ th[Pruner] \in Tasks
        /\ th \in [Procs -> Tasks]
    BY Here, Roles
  <2> DEFINE t == [th[Pruner] EXCEPT !.pc = "age"]
  <2>2. th' = [th EXCEPT ![Pruner] = t]
    BY <1>3, <2>1 DEF Goto
  <2>3. t \in Tasks
    BY <2>1 DEF Tasks, PCs
  <2>4. Task(Pruner, t) /\ t.todo = {}
    BY <1>1, <2>1, <2>3, Roles
    DEF Task, Prepared, RequestPCs, PrunerPCs, StopperPCs, EvictPCs, InCall, Tasks
  <2> HIDE DEF t
  <2>5. victims' \subseteq Ids
    BY <1>3 DEF AC!Cached
  <2>6. Sweep'
    BY <1>1, <1>3, <2>5 DEF IInv, Sweep
  <2> QED
    BY <1>1, <1>3, <2>2, <2>4, <2>6, PrunerStep
<1> QED
  BY <1>2, <1>3 DEF Checked

LEMMA AgeNextStep ==
  ASSUME IInv, NEW i \in Ids, AgeNext(i)
  PROVE  IInv' /\ ACStep
<1>1. /\ Pruner \in Procs /\ Task(Pruner, th[Pruner]) /\ th[Pruner] \in Tasks
      /\ th \in [Procs -> Tasks]
  BY Here, Roles
<1>2. /\ th[Pruner].pc = "age" /\ th[Pruner].todo = {}
      /\ UNCHANGED <<meta, caches, fsmap, flight, refreshing, snap, doomed, cooling>>
      /\ left' = {k \in Keys : snap[k] = i} /\ victims' = victims \ {i}
      /\ th' = [th EXCEPT ![Pruner].pc = "evart", ![Pruner].op = "age", ![Pruner].seen = i]
  BY <1>1 DEF AgeNext, Pc, Task
<1> DEFINE t == [th[Pruner] EXCEPT !.pc = "evart", !.op = "age", !.seen = i]
<1>3. th' = [th EXCEPT ![Pruner] = t]
  BY <1>1, <1>2
<1>4. t \in Tasks
  <2>1. i \in Opt(Ids)
    BY DEF Opt
  <2> QED
    BY <1>1, <2>1 DEF Tasks, PCs
<1>5. t.pc = "evart" /\ t.op = "age" /\ t.seen = i /\ t.todo = {}
  BY <1>1, <1>2 DEF Tasks
<1> HIDE DEF t
<1>6. Task(Pruner, t)
  BY <1>4, <1>5, Roles DEF Task, Prepared, PrunerPCs, EvictPCs
<1>7. Sweep'
  BY <1>1, <1>2, <1>3, <1>5, Roles DEF IInv, Sweep, Pc
<1> QED
  BY <1>1, <1>2, <1>3, <1>5, <1>6, <1>7, PrunerStep

LEMMA AgeKeyStep ==
  ASSUME IInv, NEW k \in Keys, AgeKey(k)
  PROVE  IInv' /\ ACStep
<1>1. /\ Pruner \in Procs /\ Task(Pruner, th[Pruner]) /\ th[Pruner] \in Tasks
      /\ th \in [Procs -> Tasks]
  BY Here, Roles
<1>2. /\ th[Pruner].pc = "agekeys" /\ th[Pruner].todo = {}
      /\ UNCHANGED <<meta, caches, fsmap, flight, refreshing, snap, victims, doomed, cooling>>
      /\ left' = left \ {k}
      /\ th' = [th EXCEPT ![Pruner].pc = "evmeta", ![Pruner].key = k]
  BY <1>1 DEF AgeKey, Pc, Task
<1> DEFINE t == [th[Pruner] EXCEPT !.pc = "evmeta", !.key = k]
<1>3. th' = [th EXCEPT ![Pruner] = t]
  BY <1>1, <1>2
<1>4. t \in Tasks
  <2>1. "evmeta" \in PCs
    BY DEF PCs
  <2>2. k \in Opt(Keys)
    BY DEF Opt
  <2> QED
    BY <1>1, <2>1, <2>2 DEF Tasks
<1>5. t.pc = "evmeta" /\ t.key = k /\ t.todo = {} /\ t.op = "age"
  BY <1>1, <1>2 DEF Tasks, Task
<1> HIDE DEF t
<1>6. Task(Pruner, t)
  BY <1>1, <1>4, <1>5, Roles DEF Task, Prepared, PrunerPCs, EvictPCs
<1>7. Sweep'
  BY <1>1, <1>2, <1>3, <1>5, Roles DEF IInv, Sweep, Pc
<1> QED
  BY <1>1, <1>2, <1>3, <1>5, <1>6, <1>7, PrunerStep

LEMMA AgeKeysDoneStep ==
  ASSUME IInv, AgeKeysDone
  PROVE  IInv' /\ ACStep
<1>1. /\ Pruner \in Procs /\ Task(Pruner, th[Pruner]) /\ th[Pruner] \in Tasks
      /\ th \in [Procs -> Tasks]
  BY Here, Roles
<1>2. /\ th[Pruner].pc = "agekeys" /\ th[Pruner].todo = {} /\ left = {}
      /\ UNCHANGED <<meta, caches, fsmap, flight, refreshing, sweep, cooling>>
  BY <1>1 DEF AgeKeysDone, Pc, Task
<1> DEFINE t == [th[Pruner] EXCEPT !.pc = "age"]
<1>3. th' = [th EXCEPT ![Pruner] = t]
  BY <1>1 DEF AgeKeysDone, Goto
<1>4. t \in Tasks
  BY <1>1 DEF Tasks, PCs
<1>5. Task(Pruner, t) /\ t.todo = {}
  BY <1>1, <1>2, <1>4, Roles
  DEF Task, Prepared, RequestPCs, PrunerPCs, StopperPCs, EvictPCs, InCall, Tasks
<1> HIDE DEF t
<1>6. Sweep'
  BY <1>2 DEF IInv, Sweep, sweep
<1> QED
  BY <1>1, <1>2, <1>3, <1>5, <1>6, PrunerStep

LEMMA AgeDoneStep ==
  ASSUME IInv, AgeDone
  PROVE  IInv' /\ ACStep
BY EndCycleStep DEF AgeDone, IInv, Sweep, Pc

LEMMA PrunerExitStep ==
  ASSUME IInv, PrunerExit
  PROVE  IInv' /\ ACStep
<1>1. /\ Pruner \in Procs /\ Task(Pruner, th[Pruner]) /\ th[Pruner] \in Tasks
      /\ th \in [Procs -> Tasks]
  BY Here, Roles
<1>2. /\ th[Pruner].pc = "idle" /\ th[Pruner].todo = {}
      /\ UNCHANGED <<meta, caches, fsmap, flight, refreshing, sweep, cooling>>
  BY <1>1 DEF PrunerExit, Pc, Task
<1> DEFINE t == [th[Pruner] EXCEPT !.pc = "exited"]
<1>3. th' = [th EXCEPT ![Pruner] = t]
  BY <1>1 DEF PrunerExit, Goto
<1>4. t \in Tasks
  BY <1>1 DEF Tasks, PCs
<1>5. Task(Pruner, t) /\ t.todo = {} /\ t.pc = "exited"
  BY <1>1, <1>2, <1>4, Roles
  DEF Task, Prepared, RequestPCs, PrunerPCs, StopperPCs, EvictPCs, InCall, Tasks
<1> HIDE DEF t
<1>6. Sweep'
  BY <1>1, <1>2, <1>3, <1>5 DEF IInv, Sweep, sweep, Pc
<1> QED
  BY <1>1, <1>2, <1>3, <1>5, <1>6, PrunerStep

-----------------------------------------------------------------------------
(* The shutdown.                                                           *)

\* A step of Cleanup.
LEMMA StopperStep ==
  ASSUME IInv, NEW t, th' = [th EXCEPT ![Stopper] = t], Task(Stopper, t), CacheData',
         UNCHANGED <<meta, fsmap, flight, refreshing, cooling, snap, left, victims>>,
         doomed' \subseteq Keys
  PROVE  /\ IInv' /\ Local(Stopper, t)
         /\ th'[Stopper] = t /\ (\A q \in Procs : q # Stopper => th'[q] = th[q])
<1>1. Stopper \in Procs /\ Task(Stopper, th[Stopper])
  BY Here, Roles
<1>2. Local(Stopper, t)
  BY <1>1, Roles DEF Local, InCall, Task, StopperPCs
<1>3. Threads' /\ th'[Stopper] = t /\ (\A q \in Procs : q # Stopper => th'[q] = th[q])
  BY <1>1, <1>2, LocalStep DEF IInv
<1>4. Books'
  BY DEF IInv, Books
<1>5. th'[Pruner] = th[Pruner]
  BY <1>3, Roles
<1>6. Sweep'
  BY <1>5 DEF IInv, Sweep, Pc
<1> QED
  BY <1>2, <1>3, <1>4, <1>6 DEF IInv

LEMMA StopStep ==
  ASSUME IInv, Stop \/ Drained
  PROVE  IInv' /\ ACStep
<1>1. /\ Stopper \in Procs /\ Task(Stopper, th[Stopper])
      /\ th[Stopper] \in Tasks /\ th \in [Procs -> Tasks]
  BY Here, Roles
<1>2. PICK x \in {"drain", "unregister"} : th' = [th EXCEPT ![Stopper].pc = x]
  BY DEF Stop, Drained, Goto
<1>3. /\ th[Stopper].pc \in {"idle", "drain"} /\ th[Stopper].todo = {}
      /\ UNCHANGED <<meta, caches, fsmap, flight, refreshing, cooling, snap, left, victims>>
      /\ doomed' \subseteq Keys
  <2>1. CASE Stop
    <3>1. th[Stopper].pc = "idle" /\ th[Stopper].todo = {}
      BY <1>1, <2>1 DEF Stop, Running, Pc, Task
    <3>2. UNCHANGED <<meta, caches, fsmap, flight, refreshing, sweep, cooling>>
      BY <2>1 DEF Stop
    <3> QED
      BY <3>1, <3>2 DEF sweep, IInv, Sweep
  <2>2. CASE Drained
    BY <1>1, <2>2 DEF Drained, Pc, Task
  <2> QED
    BY <2>1, <2>2
<1> DEFINE t == [th[Stopper] EXCEPT !.pc = x]
<1>4. th' = [th EXCEPT ![Stopper] = t]
  BY <1>1, <1>2
<1>5. t \in Tasks
  BY <1>1 DEF Tasks, PCs
<1>6. Task(Stopper, t) /\ t.todo = {} /\ t.pc = x
  BY <1>1, <1>3, <1>5, Roles
  DEF Task, Prepared, RequestPCs, PrunerPCs, StopperPCs, EvictPCs, InCall, Tasks
<1> HIDE DEF t
<1>7. CacheData'
  BY <1>3 DEF IInv, CacheData, caches
<1>8. IInv' /\ th'[Stopper] = t /\ (\A q \in Procs : q # Stopper => th'[q] = th[q])
  BY <1>3, <1>4, <1>6, <1>7, StopperStep
<1>9. ACStep
  BY <1>1, <1>3, <1>6, <1>8, CacheIdle
<1> QED
  BY <1>8, <1>9

LEMMA UnregisterStep ==
  ASSUME IInv, NEW k \in Keys, Unregister(k)
  PROVE  IInv' /\ ACStep
<1>1. UNCHANGED <<meta, caches, flight, refreshing, th, snap, left, victims, cooling>>
  BY DEF Unregister
<1>2. Books' /\ CacheData' /\ Sweep'
  BY <1>1 DEF Unregister, Unregistered, IInv, Books, Opt, CacheData, caches, Sweep, Pc
<1>3. Threads'
  BY <1>1
  DEF IInv, Threads, Flights, RefreshMarked, Task, Prepared, Pc, Key, RequestPCs,
      PrunerPCs, StopperPCs, EvictPCs, InCall
<1> QED
  BY <1>1, <1>2, <1>3, CacheIdle DEF IInv

LEMMA CleanupAllStep ==
  ASSUME IInv, CleanupAll
  PROVE  IInv' /\ ACStep
<1>1. /\ Stopper \in Procs /\ Task(Stopper, th[Stopper])
      /\ th[Stopper] \in Tasks /\ th \in [Procs -> Tasks]
  BY Here, Roles
<1>2. /\ th[Stopper].pc = "unregister" /\ th[Stopper].todo = {}
      /\ UNCHANGED <<meta, open, fsmap, flight, refreshing, sweep, cooling>>
      /\ entries' = [i \in Ids |-> None] /\ older' = {}
      /\ th' = [th EXCEPT ![Stopper].pc = "purge", ![Stopper].todo = AC!Cleanups(Ids)]
  BY <1>1 DEF CleanupAll, Pc, Task
<1>3. AC!Cleanups(Ids) \subseteq Handles
  BY DEF AC!Cleanups, AC!Cached, IInv, CacheData, Opt
<1> DEFINE t == [th[Stopper] EXCEPT !.pc = "purge", !.todo = AC!Cleanups(Ids)]
<1>4. th' = [th EXCEPT ![Stopper] = t]
  BY <1>1, <1>2
<1>5. t \in Tasks
  BY <1>1, <1>3 DEF Tasks, PCs
<1>6. Task(Stopper, t)
  BY <1>1, <1>2, <1>5, Roles
  DEF Task, Prepared, RequestPCs, PrunerPCs, StopperPCs, EvictPCs, InCall, Tasks
<1>7. t.todo = AC!Cleanups(Ids) /\ t.pc = "purge"
  BY <1>1 DEF Tasks
<1> HIDE DEF t
<1>8. CacheData'
  BY <1>2 DEF IInv, CacheData, Opt
<1>9. UNCHANGED <<snap, left, victims>> /\ doomed' \subseteq Keys
  BY <1>2 DEF sweep, IInv, Sweep
<1>10. IInv' /\ Local(Stopper, t)
  BY <1>2, <1>4, <1>6, <1>8, <1>9, StopperStep
<1>11. Holds' = Holds /\ Holds[Stopper] = None
  BY <1>1, <1>2, <1>7, <1>10, ClientStep
<1>12. Cleans' = [Cleans EXCEPT ![Stopper] = AC!Cleanups(Ids)] /\ Cleans[Stopper] = {}
  BY <1>1, <1>2, <1>7, <1>10, ClientStep
<1>13. AC!CleanupAll(Stopper)
  BY <1>2, <1>11, <1>12 DEF AC!CleanupAll
<1>14. ACStep
  BY <1>1, <1>13 DEF ACStep, AC!Next
<1> QED
  BY <1>10, <1>14

LEMMA PurgeStep ==
  ASSUME IInv, Purge
  PROVE  IInv' /\ ACStep
<1>1. /\ Stopper \in Procs /\ Task(Stopper, th[Stopper])
      /\ th[Stopper] \in Tasks /\ th \in [Procs -> Tasks]
  BY Here, Roles
<1>2. /\ th[Stopper].pc = "purge"
      /\ UNCHANGED <<meta, entries, older, fsmap, flight, refreshing, sweep, cooling>>
      /\ open' = open \ th[Stopper].todo
  BY DEF Purge, Pc
<1> DEFINE t == [th[Stopper] EXCEPT !.pc = "stopped", !.todo = {}]
<1>3. th' = [th EXCEPT ![Stopper] = t]
  BY <1>1 DEF Purge
<1>4. t \in Tasks
  BY <1>1 DEF Tasks, PCs
<1>5. Task(Stopper, t)
  BY <1>1, <1>2, <1>4, Roles
  DEF Task, Prepared, RequestPCs, PrunerPCs, StopperPCs, EvictPCs, InCall, Tasks
<1>6. t.todo = {} /\ t.pc = "stopped"
  BY <1>1 DEF Tasks
<1> HIDE DEF t
<1>7. Books' /\ Local(Stopper, t)
  BY <1>1, <1>2, <1>3, <1>5, <1>6, Roles DEF Local, InCall, IInv, Books
<1> QED
  BY <1>1, <1>2, <1>6, <1>7, CleanStep

\* The TTL.
LEMMA ExpireStep ==
  ASSUME IInv, NEW k \in Keys, Expire(k)
  PROVE  IInv' /\ ACStep
<1>1. UNCHANGED <<caches, fsmap, flight, refreshing, th, sweep>>
  BY DEF Expire
<1>2. CacheData' /\ Sweep'
  BY <1>1 DEF IInv, CacheData, caches, Sweep, sweep, Pc
<1>3. Books'
  <2>1. meta[k] \in [id : Ids, fresh : BOOLEAN]
    BY DEF Expire, IInv, Books, Opt
  <2> QED
    BY <2>1 DEF Expire, IInv, Books, Opt
<1>4. Threads'
  BY <1>1
  DEF IInv, Threads, Flights, RefreshMarked, Task, Prepared, Pc, Key, RequestPCs,
      PrunerPCs, StopperPCs, EvictPCs, InCall
<1> QED
  BY <1>1, <1>2, <1>3, <1>4, CacheIdle DEF IInv

-----------------------------------------------------------------------------
(* The theorems.                                                           *)

\* IInv holds at first ...
LEMMA InitInv == Init => IInv /\ AC!Init
<1> SUFFICES ASSUME Init PROVE IInv /\ AC!Init
  OBVIOUS
<1>1. NoTask.pc = "idle" /\ NoTask.todo = {}
  BY DEF NoTask
<1>2. Threads
  BY <1>1, NoTaskTask, Roles
  DEF Init, Threads, Flights, RefreshMarked, Pc, Key, Opt, Task, InCall
<1>3. Books /\ CacheData /\ Sweep
  BY <1>1, Roles DEF Init, Books, CacheData, Sweep, NoSnapshot, Opt, Pc
<1>4. AC!Init
  BY <1>1 DEF Init, AC!Init, Holds, Cleans
<1> QED
  BY <1>2, <1>3, <1>4 DEF IInv

\* ... every step keeps it and is one for ArtifactCache or none ...
LEMMA StepInv == IInv /\ [Next]_vars => IInv' /\ ACStep
<1> SUFFICES ASSUME IInv, [Next]_vars PROVE IInv' /\ ACStep
  OBVIOUS
<1>1. ASSUME NEW p \in Procs, Resolving(p) PROVE IInv' /\ ACStep
  BY <1>1, LookupStep, FreshStep, SwrStep, TriggerStep, DoStep, ResolveStep, GuardStep, KeepStep,
     HaveStep, DownloadStep, StoreStep, CleanupStep, SetMetaStep, RegisterStep, ErrGetStep,
     ErrArtStep, ErrTouchStep, ErrRegStep, ReportStep, RespondStep
  DEF Resolving
<1>2. ASSUME NEW p \in Procs, Evicting(p) PROVE IInv' /\ ACStep
  BY <1>2, EvGetStep, EvArtStep, EvCleanStep, EvMetaStep, EvUnregStep DEF Evicting
<1>3. CASE Pruning
  BY <1>3, CheckStep, AgeKeyStep, AgeNextStep, CheckedStep, AgeKeysDoneStep, AgeDoneStep
  DEF Pruning
<1>4. CASE Stopping
  BY <1>4, StopStep, CleanupAllStep, PurgeStep, UnregisterStep DEF Stopping
<1>5. CASE UNCHANGED vars
  <2>1. UNCHANGED <<meta, caches, fsmap, flight, refreshing, th, sweep, cooling>>
    BY <1>5 DEF vars
  <2>2. CacheData' /\ Sweep' /\ Books'
    BY <2>1 DEF IInv, CacheData, caches, Sweep, sweep, Books, Pc
  <2>3. Threads'
    <3>1. Flights' /\ RefreshMarked'
      BY <2>1 DEF IInv, Threads, Flights, RefreshMarked, Pc, Key, InCall
    <3>2. (\A p \in Procs : Task(p, th[p]))'
      BY <2>1
      DEF IInv, Threads, Task, Prepared, RequestPCs, PrunerPCs, StopperPCs, EvictPCs, InCall
    <3> QED
      BY <2>1, <3>1, <3>2 DEF IInv, Threads
  <2> QED
    BY <2>1, <2>2, <2>3, CacheIdle DEF IInv
<1> QED
  BY <1>1, <1>2, <1>3, <1>4, <1>5, StartStep, TickStep, PrunerExitStep, StopStep, ExpireStep
  DEF Next

\* ... and it implies what is to be shown.
LEMMA InvTypes == IInv => TypeOK /\ NoOrphanWaiter /\ RefreshMarked
BY
DEF IInv, Threads, Books, CacheData, Sweep, TypeOK, Flights, NoOrphanWaiter,
    RefreshMarked, Task, Pc, Key

\* IInv holds in every behaviour.
LEMMA Invariance == Spec => []IInv
<1>1. Init => IInv
  BY InitInv
<1>2. IInv /\ [Next]_vars => IInv'
  BY StepInv
<1> QED
  BY <1>1, <1>2, PTL DEF Spec

\* Every step finds the local variables it uses set: no nil filesystem is
\* registered, no artifact 0 downloaded, whatever the other goroutines do
\* between the lookups of resolveAndRegister, fullResolve and pruneOnce.
THEOREM TypeCorrect == Spec => []TypeOK
<1>1. IInv => TypeOK
  BY InvTypes
<1> QED
  BY <1>1, Invariance, PTL

\* A request that waits in singleflight.Do is never left behind: its call has a
\* leader at work on the same key, on every path out of fullResolve.
THEOREM WaitersLed == Spec => []NoOrphanWaiter
<1>1. IInv => NoOrphanWaiter
  BY InvTypes
<1> QED
  BY <1>1, Invariance, PTL

\* The mark of triggerBackgroundRefresh is set exactly while the refresh runs:
\* none is left over, which would end the refreshes of a key for ever, and
\* none is missing, which would let two run.
THEOREM MarksHonest == Spec => []RefreshMarked
<1>1. IInv => RefreshMarked
  BY InvTypes
<1> QED
  BY <1>1, Invariance, PTL

\* The handler implements the clients of ArtifactCache: what it stores it has
\* just downloaded, what it closes it has just evicted, and it closes it once.
THEOREM UsesCacheRight == Spec => CacheUsedRight
<1>1. Init => AC!Init
  BY InitInv
<1>2. IInv /\ [Next]_vars => [AC!Next]_AC!vars
  BY StepInv DEF ACStep
<1> QED
  BY <1>1, <1>2, Invariance, PTL DEF Spec, CacheUsedRight, AC!Spec

-----------------------------------------------------------------------------
(***************************************************************************)
(* One artifact cache serves all keys, a singleflight call registers on    *)
(* behalf of all who wait for it, and the pruner works from a snapshot:    *)
(* still no key is ever registered with a build of another PR or branch    *)
(* (OwnBuildsOnly), for any keys and artifacts and every interleaving.     *)
(*                                                                         *)
(* The map alone is not inductive.  What a goroutine registers it has in   *)
(* its local variables (OwnTasks), and got there from the metadata         *)
(* (OwnMeta) or from the cache, which holds for an ID a build of that very *)
(* artifact (OwnCache).  IInv says who has which key.                      *)
(***************************************************************************)

\* What t, at work on its key, is about to install or to serve belongs to it.
OwnTask(t) ==
  t.key # None =>
    /\ t.pc \in {"fresh", "swr"} => t.meta \in ArtifactsOf[t.key]
    /\ t.pc \in {"keep", "errart"} => t.seen \in ArtifactsOf[t.key]
    /\ t.pc \in {"guard", "keep", "have", "download", "store", "clean", "setmeta"}
         => t.id \in ArtifactsOf[t.key]
    /\ t.pc \in {"store", "clean", "setmeta", "register", "errtouch", "errreg"}
         => t.fs[1] \in ArtifactsOf[t.key]
    /\ t.pc = "store" => t.fs[1] = t.id

OwnTasks == \A p \in Procs : OwnTask(th[p])
OwnMeta == \A k \in Keys : meta[k] # None => meta[k].id \in ArtifactsOf[k]
OwnCache == \A i \in Ids : entries[i] # None => entries[i][1] = i
Owned == OwnTasks /\ OwnMeta /\ OwnCache /\ OwnBuildsOnly

\* The places where OwnTask says nothing.
PlainPCs == PCs \ {"fresh", "swr", "keep", "errart", "guard", "have", "download", "store",
                   "clean", "setmeta", "register", "errtouch", "errreg"}

\* A goroutine that only moves to such a place.
LEMMA PlainTask ==
  ASSUME NEW t, t.pc \in PlainPCs
  PROVE  OwnTask(t)
BY DEF OwnTask, PlainPCs

\* One goroutine moves.
LEMMA OneTask ==
  ASSUME OwnTasks, NEW p \in Procs, \A q \in Procs : q # p => th'[q] = th[q], OwnTask(th'[p])
  PROVE  OwnTasks'
<1>1. ASSUME NEW q \in Procs PROVE OwnTask(th'[q])
  BY DEF OwnTasks
<1> QED
  BY <1>1 DEF OwnTasks, OwnTask

\* The end of a call moves goroutines to places where they install nothing.
LEMMA ReturnOwn ==
  ASSUME IInv, OwnTasks, NEW p \in Procs, NEW ok \in BOOLEAN, Return(p, ok)
  PROVE  OwnTasks'
<1>1. th \in [Procs -> Tasks]
  BY DEF IInv, Threads
<1>2. NoTask.pc \in PlainPCs
  BY DEF NoTask, PlainPCs, PCs
<1>3. ASSUME NEW t, NEW x \in {"serve", "report", "fail", "errget"}
      PROVE  Answer(t, x).pc \in PlainPCs
  <2>1. Answer(t, x).pc = x
    BY DEF Answer, NoTask
  <2> QED
    BY <2>1 DEF PlainPCs, PCs
<1>4. ASSUME NEW q \in Procs PROVE th'[q] = th[q] \/ th'[q].pc \in PlainPCs
  <2>1. CASE p \in Keys
    <3>1. th' = [th EXCEPT ![p] = NoTask]
      BY <2>1 DEF Return
    <3> QED
      BY <1>1, <1>2, <3>1
  <2>2. CASE p \notin Keys /\ flight[Key(p)] = p
    <3>1. th'[q] = IF Wakes(p, q) THEN Awake(th[q], ok) ELSE th[q]
      BY <2>2 DEF Return
    <3>2. Awake(th[q], ok).pc \in PlainPCs
      <4>1. \E x \in {"serve", "report", "fail", "errget"} : Awake(th[q], ok) = Answer(th[q], x)
        <5>1. CASE ok
          BY <5>1 DEF Awake
        <5>2. CASE ~ok
          BY <5>2 DEF Awake
        <5> QED
          BY <5>1, <5>2
      <4> QED
        BY <1>3, <4>1
    <3> QED
      BY <3>1, <3>2
  <2>3. CASE p \notin Keys /\ flight[Key(p)] # p
    <3>1. \E x \in {"serve", "fail"} : th' = [th EXCEPT ![p] = Answer(th[p], x)]
      <4>1. th' = [th EXCEPT ![p] = Answer(th[p], IF ok THEN "serve" ELSE "fail")]
        BY <1>1, <2>3 DEF Return
      <4> QED
        BY <4>1
    <3> QED
      BY <1>1, <1>3, <3>1
  <2> QED
    BY <2>1, <2>2, <2>3
<1>5. ASSUME NEW q \in Procs PROVE OwnTask(th'[q])
  BY <1>4, PlainTask DEF OwnTasks
<1> QED
  BY <1>5 DEF OwnTasks, OwnTask

-----------------------------------------------------------------------------
(* The goroutines, action by action.                                       *)

\* What the data say of p's key.
LEMMA Facts ==
  ASSUME IInv, Owned, NEW p \in Procs
  PROVE  /\ th \in [Procs -> Tasks] /\ th[p] \in Tasks
         /\ OwnTask(th[p])
         /\ th[p].pc \notin {"idle", "check", "age", "agekeys", "evart", "evclean", "exited",
                             "drain", "unregister", "purge", "stopped"} => th[p].key \in Keys
         /\ \A k \in Keys : meta[k] # None => meta[k].id \in ArtifactsOf[k]
         /\ \A i \in Ids : entries[i] # None => entries[i][1] = i
         /\ \A k \in Keys : ArtifactsOf[k] \subseteq Ids
<1>1. Task(p, th[p]) /\ th[p] \in Tasks /\ th \in [Procs -> Tasks]
  BY Here
<1>2. th[p].pc \notin {"idle", "check", "age", "agekeys", "evart", "evclean", "exited",
                       "drain", "unregister", "purge", "stopped"} => th[p].key \in Keys
  BY <1>1 DEF Task, Prepared, Tasks, Opt
<1> QED
  BY <1>1, <1>2 DEF Owned, OwnTasks, OwnMeta, OwnCache, Ids

LEMMA LookupOwn ==
  ASSUME IInv, Owned, NEW p \in Procs, Lookup(p)
  PROVE  OwnTasks'
<1>1. th[p].key \in Keys /\ th[p].pc = "lookup" /\ th \in [Procs -> Tasks]
  BY Facts DEF Lookup, Pc
<1> DEFINE m == meta[th[p].key]
           x == CASE m = None -> "do"
                  [] m # None /\ m.fresh -> "fresh"
                  [] m # None /\ ~m.fresh -> IF SWR THEN "swr" ELSE "do"
           i == IF m = None THEN None ELSE m.id
<1>2. th' = [th EXCEPT ![p].pc = x, ![p].meta = i]
  BY DEF Lookup, Key
<1>3. x \in {"fresh", "swr"} => i \in ArtifactsOf[th[p].key]
  <2>1. CASE m = None
    BY <2>1
  <2>2. CASE m # None
    BY <1>1, <2>2, Facts
  <2> QED
    BY <2>1, <2>2
<1>4. x \in {"do", "fresh", "swr"}
  <2>1. m # None => m.fresh \in BOOLEAN
    BY <1>1 DEF IInv, Books, Opt
  <2> QED
    BY <2>1
<1> HIDE DEF x, i, m
<1>5. /\ th'[p].pc = x /\ th'[p].meta = i /\ th'[p].key = th[p].key
      /\ \A q \in Procs : q # p => th'[q] = th[q]
  BY <1>1, <1>2 DEF Tasks
<1>6. OwnTask(th'[p])
  BY <1>3, <1>4, <1>5 DEF OwnTask
<1> QED
  BY <1>5, <1>6, OneTask DEF Owned

\* A step of one goroutine that lands where OwnTask says nothing.
LEMMA PlainStep ==
  ASSUME IInv, Owned, NEW p \in Procs,
         \A q \in Procs : q # p => th'[q] = th[q], th'[p].pc \in PlainPCs
  PROVE  OwnTasks'
BY PlainTask, OneTask DEF Owned

\* resolveAndRegister and the answers; the rest of Resolving comes below.
LEMMA RequestOwn ==
  ASSUME IInv, Owned, NEW p \in Procs,
         Fresh(p) \/ Swr(p) \/ Do(p) \/ ErrReg(p) \/ Report(p) \/ Respond(p)
  PROVE  OwnTasks'
<1>1. th \in [Procs -> Tasks] /\ th[p] \in Tasks
  BY Facts
<1>2. NoTask.pc \in PlainPCs /\ \A t : Answer(t, "serve").pc \in PlainPCs
  BY DEF NoTask, Answer, PlainPCs, PCs
<1>3. CASE Fresh(p)
  <2>1. CASE th[p].meta \in AC!Cached
    <3>1. th' = [th EXCEPT ![p] = Answer(th[p], "serve")]
      BY <1>1, <1>3, <2>1 DEF Fresh
    <3> QED
      BY <1>1, <1>2, <3>1, PlainStep
  <2>2. CASE th[p].meta \notin AC!Cached
    <3>1. th' = [th EXCEPT ![p] = [th[p] EXCEPT !.pc = "download", !.id = th[p].meta]]
      BY <1>1, <1>3, <2>2 DEF Fresh
    <3>2. th[p].key \in Keys /\ th[p].pc = "fresh" /\ OwnTask(th[p])
      BY <1>3, Facts DEF Fresh, Pc
    <3>3. /\ th'[p].pc = "download" /\ th'[p].id = th[p].meta /\ th'[p].key = th[p].key
          /\ \A q \in Procs : q # p => th'[q] = th[q]
      BY <1>1, <3>1 DEF Tasks
    <3>4. OwnTask(th'[p])
      BY <3>2, <3>3, Roles DEF OwnTask
    <3> QED
      BY <3>3, <3>4, OneTask DEF Owned
  <2> QED
    BY <2>1, <2>2
<1>4. CASE Swr(p)
  <2>1. \E x \in {"trigger", "do"} : th' = [th EXCEPT ![p].pc = x]
    <3>1. CASE th[p].meta \in AC!Cached
      BY <1>4, <3>1 DEF Swr, Goto
    <3>2. CASE th[p].meta \notin AC!Cached
      BY <1>4, <3>2 DEF Swr, Goto
    <3> QED
      BY <3>1, <3>2
  <2> QED
    BY <1>1, <2>1, PlainStep DEF PlainPCs, PCs, Tasks
<1>5. CASE Do(p)
  <2>1. \E x \in {"resolve", "wait"} : th' = [th EXCEPT ![p].pc = x]
    <3>1. CASE flight[Key(p)] = None
      BY <1>5, <3>1 DEF Do, Goto
    <3>2. CASE flight[Key(p)] # None
      BY <1>5, <3>2 DEF Do, Goto
    <3> QED
      BY <3>1, <3>2
  <2> QED
    BY <1>1, <2>1, PlainStep DEF PlainPCs, PCs, Tasks
<1>6. CASE ErrReg(p)
  <2>1. th' = [th EXCEPT ![p] = Answer(th[p], "serve")]
    BY <1>1, <1>6 DEF ErrReg
  <2> QED
    BY <1>1, <1>2, <2>1, PlainStep
<1>7. CASE Report(p)
  <2> DEFINE i == IF meta[Key(p)] = None THEN None ELSE meta[Key(p)].id
  <2>1. PICK x \in {"reported", "conflict"} : th' = [th EXCEPT ![p].pc = x, ![p].seen = i]
    <3>1. PICK expected \in Opt(Ids) :
            th' = [th EXCEPT ![p].pc = IF expected \in {None, i} THEN "reported" ELSE "conflict",
                             ![p].seen = i]
      BY <1>7 DEF Report
    <3> HIDE DEF i
    <3> QED
      BY <3>1
  <2> HIDE DEF i
  <2> QED
    BY <1>1, <2>1, PlainStep DEF PlainPCs, PCs, Tasks
<1>8. CASE Respond(p)
  BY <1>1, <1>2, <1>8, PlainStep DEF Respond
<1> QED
  BY <1>3, <1>4, <1>5, <1>6, <1>7, <1>8

\* Trigger starts a background refresh, which is to resolve first.
LEMMA TriggerOwn ==
  ASSUME IInv, Owned, NEW p \in Procs, Trigger(p)
  PROVE  OwnTasks'
<1> DEFINE k == Key(p)
           t == [NoTask EXCEPT !.pc = "resolve", !.op = "background", !.key = k]
<1>1. Answer(th[p], "serve").pc \in PlainPCs /\ t.pc \in PlainPCs
  BY DEF NoTask, Answer, PlainPCs, PCs
<1>2. ASSUME NEW q \in Procs PROVE th'[q] \in {th[q], Answer(th[p], "serve"), t}
  BY DEF Trigger
<1> HIDE DEF t
<1>3. ASSUME NEW q \in Procs PROVE OwnTask(th'[q])
  BY <1>1, <1>2, PlainTask DEF Owned, OwnTasks
<1> QED
  BY <1>3 DEF OwnTasks, OwnTask

\* fullResolve as far as the download.
LEMMA ResolveOwn ==
  ASSUME IInv, Owned, NEW p \in Procs, Resolve(p)
  PROVE  OwnTasks'
<1>1. th \in [Procs -> Tasks] /\ th[p] \in Tasks /\ th[p].key \in Keys
  BY Facts DEF Resolve, Pc
<1>2. CASE Return(p, FALSE)
  BY <1>2, ReturnOwn DEF Owned
<1>3. CASE Goto(p, "evget")
  BY <1>1, <1>3, PlainStep DEF Goto, PlainPCs, PCs, Tasks
<1>4. CASE \E i \in ArtifactsOf[Key(p)], v \in {"head", "listing"} :
             th' = [th EXCEPT ![p].pc = "guard", ![p].id = i, ![p].via = v]
  <2>1. PICK i \in ArtifactsOf[Key(p)], v \in {"head", "listing"} :
             th' = [th EXCEPT ![p].pc = "guard", ![p].id = i, ![p].via = v]
    BY <1>4
  <2>2. /\ th'[p].pc = "guard" /\ th'[p].id = i /\ th'[p].key = th[p].key
        /\ \A q \in Procs : q # p => th'[q] = th[q]
    BY <1>1, <2>1 DEF Tasks
  <2>3. OwnTask(th'[p])
    BY <2>2 DEF OwnTask, Key
  <2> QED
    BY <2>2, <2>3, OneTask DEF Owned
<1> QED
  BY <1>2, <1>3, <1>4 DEF Resolve

LEMMA GuardOwn ==
  ASSUME IInv, Owned, NEW p \in Procs, Guard(p)
  PROVE  OwnTasks'
<1>1. /\ th \in [Procs -> Tasks] /\ th[p] \in Tasks /\ th[p].key \in Keys
      /\ th[p].pc = "guard" /\ OwnTask(th[p])
  BY Facts DEF Guard, Pc
<1>2. \E s : \E x \in {"keep", "have"} :
        /\ th' = [th EXCEPT ![p].pc = x, ![p].seen = s]
        /\ x = "keep" => s \in ArtifactsOf[th[p].key]
  <2>1. CASE Older(p)
    <3>1. th' = [th EXCEPT ![p].pc = "keep", ![p].seen = meta[Key(p)].id]
      BY <2>1, Zenon DEF Guard
    <3>2. meta[Key(p)].id \in ArtifactsOf[th[p].key]
      BY <1>1, <2>1, Facts DEF Older, Key
    <3> QED
      BY <3>1, <3>2
  <2>2. CASE ~Older(p)
    <3>1. th' = [th EXCEPT ![p].pc = "have", ![p].seen = None]
      BY <2>2, Zenon DEF Guard
    <3> QED
      BY <3>1
  <2> QED
    BY <2>1, <2>2
<1>3. /\ th'[p].pc \in {"keep", "have"}
      /\ th'[p].pc = "keep" => th'[p].seen \in ArtifactsOf[th[p].key]
      /\ th'[p].key = th[p].key /\ th'[p].id = th[p].id
      /\ \A q \in Procs : q # p => th'[q] = th[q]
  BY <1>1, <1>2 DEF Tasks
<1>4. OwnTask(th'[p])
  BY <1>1, <1>3, Roles DEF OwnTask
<1> QED
  BY <1>3, <1>4, OneTask DEF Owned

\* A build that is already in the cache is installed.
LEMMA InstallOwn ==
  ASSUME IInv, Owned, NEW p \in Procs, NEW i, NEW else \in {"have", "download"},
         th[p].key \in Keys, i \in ArtifactsOf[th[p].key], th[p].id \in ArtifactsOf[th[p].key],
         InstallCached(p, i, else)
  PROVE  OwnTasks'
<1>1. th \in [Procs -> Tasks] /\ th[p] \in Tasks /\ i \in Ids
  BY Facts
<1>2. CASE i \in AC!Cached
  <2>1. th' = [th EXCEPT ![p] =
                 [th[p] EXCEPT !.pc = "setmeta", !.id = i, !.seen = None, !.fs = entries[i]]]
    BY <1>1, <1>2 DEF InstallCached
  <2>2. /\ th'[p].pc = "setmeta" /\ th'[p].id = i /\ th'[p].fs = entries[i]
        /\ th'[p].key = th[p].key /\ \A q \in Procs : q # p => th'[q] = th[q]
    BY <1>1, <2>1 DEF Tasks
  <2>3. entries[i][1] = i
    BY <1>1, <1>2, Facts DEF AC!Cached
  <2>4. OwnTask(th'[p])
    BY <2>2, <2>3 DEF OwnTask
  <2> QED
    BY <2>2, <2>4, OneTask DEF Owned
<1>3. CASE i \notin AC!Cached
  <2>1. th' = [th EXCEPT ![p] = [th[p] EXCEPT !.pc = else, !.seen = None]]
    BY <1>1, <1>3 DEF InstallCached
  <2>2. /\ th'[p].pc = else /\ th'[p].id = th[p].id /\ th'[p].key = th[p].key
        /\ \A q \in Procs : q # p => th'[q] = th[q]
    BY <1>1, <2>1 DEF Tasks
  <2>3. OwnTask(th'[p])
    BY <2>2 DEF OwnTask
  <2> QED
    BY <2>2, <2>3, OneTask DEF Owned
<1> QED
  BY <1>2, <1>3

LEMMA CachedOwn ==
  ASSUME IInv, Owned, NEW p \in Procs, Keep(p) \/ Have(p)
  PROVE  OwnTasks'
<1>1. th[p].key \in Keys /\ OwnTask(th[p]) /\ th[p].pc \in {"keep", "have"}
  BY Facts DEF Keep, Have, Pc
<1>2. CASE Keep(p)
  BY <1>1, <1>2, InstallOwn, Roles DEF Keep, OwnTask, Pc
<1>3. CASE Have(p)
  BY <1>1, <1>3, InstallOwn, Roles DEF Have, OwnTask, Pc
<1> QED
  BY <1>2, <1>3

\* The download and what follows it: the goroutine keeps its artifact.
LEMMA DownloadOwn ==
  ASSUME IInv, Owned, NEW p \in Procs, Download(p)
  PROVE  OwnTasks'
<1>1. /\ th \in [Procs -> Tasks] /\ th[p] \in Tasks /\ th[p].key \in Keys
      /\ th[p].pc = "download" /\ OwnTask(th[p])
  BY Facts DEF Download, Pc
<1>2. CASE Return(p, FALSE)
  BY <1>2, ReturnOwn DEF Owned
<1>3. CASE \E c \in Copies :
             th' = [th EXCEPT ![p].pc = "store", ![p].fs = <<th[p].id, c>>]
  <2>1. PICK c \in Copies : th' = [th EXCEPT ![p].pc = "store", ![p].fs = <<th[p].id, c>>]
    BY <1>3
  <2>2. /\ th'[p].pc = "store" /\ th'[p].id = th[p].id /\ th'[p].fs = <<th[p].id, c>>
        /\ th'[p].key = th[p].key /\ \A q \in Procs : q # p => th'[q] = th[q]
    BY <1>1, <2>1 DEF Tasks
  <2>3. OwnTask(th'[p])
    BY <1>1, <2>2, Roles DEF OwnTask
  <2> QED
    BY <2>2, <2>3, OneTask DEF Owned
<1> QED
  BY <1>2, <1>3 DEF Download

LEMMA StoreOwn ==
  ASSUME IInv, Owned, NEW p \in Procs, Store(p) \/ Clean(p)
  PROVE  OwnTasks'
<1>1. /\ th \in [Procs -> Tasks] /\ th[p] \in Tasks /\ th[p].key \in Keys
      /\ th[p].pc \in {"store", "clean"} /\ OwnTask(th[p])
  BY Facts DEF Store, Clean, Pc
<1>2. \E w : \E x \in {"setmeta", "clean"} : th' = [th EXCEPT ![p].pc = x, ![p].todo = w]
  <2>1. CASE Store(p)
    <3>1. PICK V \in SUBSET AC!Cached :
            th' = [th EXCEPT ![p].pc = IF V = {} THEN "setmeta" ELSE "clean",
                             ![p].todo = AC!Cleanups(V)]
      BY <2>1 DEF Store
    <3>2. CASE V = {}
      BY <3>1, <3>2
    <3>3. CASE V # {}
      BY <3>1, <3>3
    <3> QED
      BY <3>2, <3>3
  <2>2. CASE Clean(p)
    BY <2>2 DEF Clean
  <2> QED
    BY <2>1, <2>2
<1>3. /\ th'[p].pc \in {"setmeta", "clean"} /\ th'[p].id = th[p].id /\ th'[p].fs = th[p].fs
      /\ th'[p].key = th[p].key /\ \A q \in Procs : q # p => th'[q] = th[q]
  BY <1>1, <1>2 DEF Tasks
<1>4. OwnTask(th'[p])
  BY <1>1, <1>3, Roles DEF OwnTask
<1> QED
  BY <1>3, <1>4, OneTask DEF Owned

\* metadataCache.set and registerFs.
LEMMA InstalledOwn ==
  ASSUME IInv, Owned, NEW p \in Procs, SetMeta(p) \/ Register(p)
  PROVE  OwnTasks'
<1>1. /\ th \in [Procs -> Tasks] /\ th[p] \in Tasks /\ th[p].key \in Keys /\ OwnTask(th[p])
  BY Facts DEF SetMeta, Register, Pc
<1>2. CASE SetMeta(p)
  <2>1. /\ th'[p].pc = "register" /\ th'[p].fs = th[p].fs /\ th[p].pc = "setmeta"
        /\ th'[p].key = th[p].key /\ \A q \in Procs : q # p => th'[q] = th[q]
    BY <1>1, <1>2 DEF SetMeta, Goto, Pc, Tasks
  <2>2. OwnTask(th'[p])
    BY <1>1, <2>1, Roles DEF OwnTask
  <2> QED
    BY <2>1, <2>2, OneTask DEF Owned
<1>3. CASE Register(p)
  BY <1>3, ReturnOwn DEF Register, Owned
<1> QED
  BY <1>2, <1>3

\* The way back to the last good artifact.
LEMMA ErrorOwn ==
  ASSUME IInv, Owned, NEW p \in Procs, ErrGet(p) \/ ErrArt(p) \/ ErrTouch(p)
  PROVE  OwnTasks'
<1>1. /\ th \in [Procs -> Tasks] /\ th[p] \in Tasks /\ th[p].key \in Keys /\ OwnTask(th[p])
  BY Facts DEF ErrGet, ErrArt, ErrTouch, Pc
<1>2. CASE ErrGet(p)
  <2> DEFINE m == meta[th[p].key]
  <2>1. CASE m = None
    <3>1. th' = [th EXCEPT ![p].pc = "fail", ![p].seen = None]
      BY <1>2, <2>1 DEF ErrGet, Key
    <3> QED
      BY <1>1, <3>1, PlainStep DEF PlainPCs, PCs, Tasks
  <2>2. CASE m # None
    <3>1. th' = [th EXCEPT ![p].pc = "errart", ![p].seen = m.id]
      BY <1>2, <2>2 DEF ErrGet, Key
    <3>2. /\ th'[p].pc = "errart" /\ th'[p].seen = m.id /\ th'[p].key = th[p].key
          /\ \A q \in Procs : q # p => th'[q] = th[q]
      BY <1>1, <3>1 DEF Tasks
    <3>3. OwnTask(th'[p])
      BY <1>1, <2>2, <3>2, Facts DEF OwnTask
    <3> QED
      BY <3>2, <3>3, OneTask DEF Owned
  <2> QED
    BY <2>1, <2>2
<1>3. CASE ErrArt(p)
  <2> DEFINE i == th[p].seen
  <2>1. th[p].pc = "errart" /\ i \in ArtifactsOf[th[p].key] /\ i \in Ids
    BY <1>1, <1>3, Facts, Roles DEF ErrArt, Pc, OwnTask
  <2>2. CASE i \in AC!Cached
    <3>1. th' = [th EXCEPT ![p].pc = "errtouch", ![p].fs = entries[i], ![p].seen = None]
      BY <1>3, <2>2 DEF ErrArt
    <3>2. /\ th'[p].pc = "errtouch" /\ th'[p].fs = entries[i] /\ th'[p].key = th[p].key
          /\ \A q \in Procs : q # p => th'[q] = th[q]
      BY <1>1, <3>1 DEF Tasks
    <3>3. entries[i][1] = i
      BY <2>1, <2>2, Facts DEF AC!Cached
    <3>4. OwnTask(th'[p])
      BY <2>1, <3>2, <3>3 DEF OwnTask
    <3> QED
      BY <3>2, <3>4, OneTask DEF Owned
  <2>3. CASE i \notin AC!Cached
    <3>1. th' = [th EXCEPT ![p].pc = "fail", ![p].fs = entries[i], ![p].seen = None]
      BY <1>3, <2>3 DEF ErrArt
    <3>2. th'[p].pc = "fail" /\ \A q \in Procs : q # p => th'[q] = th[q]
      BY <1>1, <3>1 DEF Tasks
    <3> QED
      BY <1>1, <3>2, PlainStep DEF PlainPCs, PCs
  <2> QED
    BY <2>2, <2>3
<1>4. CASE ErrTouch(p)
  <2>1. /\ th'[p].pc = "errreg" /\ th'[p].fs = th[p].fs /\ th[p].pc = "errtouch"
        /\ th'[p].key = th[p].key /\ \A q \in Procs : q # p => th'[q] = th[q]
    BY <1>1, <1>4 DEF ErrTouch, Goto, Pc, Tasks
  <2>2. OwnTask(th'[p])
    BY <1>1, <2>1, Roles DEF OwnTask
  <2> QED
    BY <2>1, <2>2, OneTask DEF Owned
<1> QED
  BY <1>2, <1>3, <1>4

\* Evictions, the pruner and the shutdown install nothing.
LEMMA EvictOwn ==
  ASSUME IInv, Owned, NEW p \in Procs, Evicting(p)
  PROVE  OwnTasks'
<1>1. th \in [Procs -> Tasks] /\ th[p] \in Tasks
  BY Facts
<1>2. AfterArt(p) \in {"agekeys", "evmeta"}
  BY DEF AfterArt
<1>3. CASE EvGet(p)
  <2>1. \E s : \E x \in {"evmeta", "evart"} : th' = [th EXCEPT ![p].pc = x, ![p].seen = s]
    <3>1. CASE meta[Key(p)] = None
      BY <1>3, <3>1 DEF EvGet
    <3>2. CASE meta[Key(p)] # None
      BY <1>3, <3>2 DEF EvGet
    <3> QED
      BY <3>1, <3>2
  <2> QED
    BY <1>1, <2>1, PlainStep DEF PlainPCs, PCs, Tasks
<1>4. CASE EvArt(p)
  <2>1. \E w : \E x \in {"evclean", "agekeys", "evmeta"} :
          th' = [th EXCEPT ![p].pc = x, ![p].todo = w, ![p].seen = None]
    <3>1. CASE th[p].seen \in AC!Cached
      BY <1>4, <3>1 DEF EvArt
    <3>2. CASE th[p].seen \notin AC!Cached
      BY <1>2, <1>4, <3>2 DEF EvArt
    <3> QED
      BY <3>1, <3>2
  <2> QED
    BY <1>1, <2>1, PlainStep DEF PlainPCs, PCs, Tasks
<1>5. CASE EvClean(p)
  BY <1>1, <1>2, <1>5, PlainStep DEF EvClean, PlainPCs, PCs, Tasks
<1>6. CASE EvMeta(p)
  BY <1>1, <1>6, PlainStep DEF EvMeta, Goto, PlainPCs, PCs, Tasks
<1>7. CASE EvUnreg(p)
  <2>1. CASE th[p].op \in {"serve", "refresh", "background"}
    BY <1>7, <2>1, ReturnOwn DEF EvUnreg, Owned
  <2>2. CASE th[p].op = "evict"
    BY <1>1, <1>7, <2>2, PlainStep DEF EvUnreg, NoTask, PlainPCs, PCs
  <2>3. CASE th[p].op = "closed"
    BY <1>1, <1>7, <2>3, PlainStep DEF EvUnreg, NoTask, PlainPCs, PCs
  <2>4. CASE th[p].op = "age"
    BY <1>1, <1>7, <2>4, PlainStep DEF EvUnreg, PlainPCs, PCs, Tasks
  <2>5. /\ Task(p, th[p]) /\ th[p].pc = "evunreg"
        /\ th[p].op \in {"none", "serve", "refresh", "evict", "background", "closed", "age"}
    BY <1>1, <1>7, Here DEF EvUnreg, Pc, Tasks
  <2>6. th[p].op # "none"
    BY <2>5 DEF Task, Procs, EvictPCs, PrunerPCs, StopperPCs
  <2> QED
    BY <2>1, <2>2, <2>3, <2>4, <2>5, <2>6
<1> QED
  BY <1>3, <1>4, <1>5, <1>6, <1>7 DEF Evicting

LEMMA PruneOwn ==
  ASSUME IInv, Owned, Tick \/ Pruning \/ PrunerExit
  PROVE  OwnTasks'
<1>1. /\ th \in [Procs -> Tasks] /\ Pruner \in Procs
  BY Roles DEF IInv, Threads
<1>2. NoTask.pc = "idle"
  BY DEF NoTask
<1>3. \/ UNCHANGED th
      \/ /\ \A q \in Procs : q # Pruner => th'[q] = th[q]
         /\ th'[Pruner].pc \in {"idle", "check", "evart", "age", "evmeta", "exited"}
  <2>1. CASE Tick
    BY <1>1, <2>1 DEF Tick, Goto, Tasks
  <2>2. ASSUME NEW k \in Keys, Check(k) PROVE <1>3!:
    BY <1>1, <2>2 DEF Check, Tasks
  <2>3. ASSUME NEW k \in Keys, AgeKey(k) PROVE <1>3!:
    BY <1>1, <2>3 DEF AgeKey, Tasks
  <2>4. ASSUME NEW i \in Ids, AgeNext(i) PROVE <1>3!:
    BY <1>1, <2>4 DEF AgeNext, Tasks
  <2>5. CASE Checked
    BY <1>1, <1>2, <2>5 DEF Checked, EndCycle, Goto, Tasks
  <2>6. CASE AgeKeysDone
    BY <1>1, <2>6 DEF AgeKeysDone, Goto, Tasks
  <2>7. CASE AgeDone
    BY <1>1, <1>2, <2>7 DEF AgeDone, EndCycle
  <2>8. CASE PrunerExit
    BY <1>1, <2>8 DEF PrunerExit, Goto, Tasks
  <2> QED
    BY <2>1, <2>2, <2>3, <2>4, <2>5, <2>6, <2>7, <2>8 DEF Pruning
<1>4. CASE UNCHANGED th
  BY <1>4 DEF Owned, OwnTasks, OwnTask
<1>5. CASE ~UNCHANGED th
  BY <1>1, <1>3, <1>5, PlainStep DEF PlainPCs, PCs
<1> QED
  BY <1>4, <1>5

LEMMA StopOwn ==
  ASSUME IInv, Owned, Stop \/ Stopping
  PROVE  OwnTasks'
<1>1. /\ th \in [Procs -> Tasks] /\ Stopper \in Procs
  BY Roles DEF IInv, Threads
<1>2. CASE UNCHANGED th
  BY <1>2 DEF Owned, OwnTasks, OwnTask
<1>3. CASE Stop \/ Drained \/ CleanupAll \/ Purge
  <2>1. /\ \A q \in Procs : q # Stopper => th'[q] = th[q]
        /\ th'[Stopper].pc \in {"drain", "unregister", "purge", "stopped"}
    BY <1>1, <1>3 DEF Stop, Drained, CleanupAll, Purge, Goto, Tasks
  <2> QED
    BY <1>1, <2>1, PlainStep DEF PlainPCs, PCs
<1> QED
  BY <1>2, <1>3 DEF Stopping, Unregister

LEMMA StartOwn ==
  ASSUME IInv, Owned, NEW p \in Requests, NEW o \in {"serve", "refresh", "evict"},
         NEW k \in Keys, Start(p, o, k)
  PROVE  OwnTasks'
<1>1. th \in [Procs -> Tasks] /\ p \in Procs
  BY Roles DEF IInv, Threads
<1>2. th' = [th EXCEPT ![p] = [NoTask EXCEPT
              !.op = o, !.key = k,
              !.pc = CASE o = "serve" -> "lookup"
                       [] o = "refresh" -> "do"
                       [] o = "evict" -> "evget"]]
  BY DEF Start
<1>3. th'[p].pc \in {"lookup", "do", "evget"} /\ \A q \in Procs : q # p => th'[q] = th[q]
  BY <1>1, <1>2 DEF NoTask
<1> QED
  BY <1>1, <1>3, PlainStep DEF PlainPCs, PCs

-----------------------------------------------------------------------------
(* The metadata, the cache and the map.                                    *)

LEMMA MetaOwn ==
  ASSUME IInv, Owned, [Next]_vars
  PROVE  OwnMeta'
<1>1. CASE UNCHANGED meta
  BY <1>1 DEF Owned, OwnMeta
<1>2. ASSUME NEW p \in Procs, SetMeta(p) PROVE OwnMeta'
  <2>1. th[p].key \in Keys /\ th[p].id \in ArtifactsOf[th[p].key]
    BY <1>2, Facts, Roles DEF SetMeta, Pc, OwnTask
  <2>2. meta' = [meta EXCEPT ![th[p].key] = [id |-> th[p].id, fresh |-> TRUE]]
    BY <1>2 DEF SetMeta, Key
  <2> QED
    BY <2>1, <2>2 DEF Owned, OwnMeta, IInv, Books
<1>3. ASSUME NEW p \in Procs, EvMeta(p) PROVE OwnMeta'
  BY <1>3 DEF EvMeta, Owned, OwnMeta, IInv, Books
<1>4. ASSUME NEW k \in Keys, Expire(k) PROVE OwnMeta'
  <2>1. meta[k] \in [id : Ids, fresh : BOOLEAN]
    BY <1>4 DEF Expire, IInv, Books, Opt
  <2> QED
    BY <1>4, <2>1 DEF Expire, Owned, OwnMeta, IInv, Books
<1>5. ASSUME NEW p \in Procs, ErrTouch(p) PROVE OwnMeta'
  <2>1. CASE meta[Key(p)] = None
    BY <1>1, <1>5, <2>1 DEF ErrTouch
  <2>2. CASE meta[Key(p)] # None
    <3>1. Key(p) \in Keys /\ meta[Key(p)] \in [id : Ids, fresh : BOOLEAN]
      BY <1>5, <2>2, Facts DEF ErrTouch, Pc, Key, IInv, Books, Opt
    <3> DEFINE k == Key(p)
    <3>2. meta' = [meta EXCEPT ![k].fresh = TRUE]
      BY <1>5, <2>2 DEF ErrTouch
    <3>3. k \in Keys /\ meta[k] \in [id : Ids, fresh : BOOLEAN] /\ meta[k] # None
      BY <2>2, <3>1
    <3> HIDE DEF k
    <3>4. meta'[k].id = meta[k].id /\ \A j \in Keys : j # k => meta'[j] = meta[j]
      BY <3>2, <3>3 DEF IInv, Books
    <3> QED
      BY <3>3, <3>4 DEF Owned, OwnMeta
  <2> QED
    BY <2>1, <2>2
<1>6. ASSUME NEW p \in Procs, Resolving(p) PROVE UNCHANGED meta \/ SetMeta(p) \/ ErrTouch(p)
  BY <1>6
  DEF Resolving, Lookup, Fresh, Swr, Trigger, Do, Resolve, Guard, Keep, Have, InstallCached,
      Download, Store, Clean, Register, ErrGet, ErrArt, ErrReg, Report, Respond
<1>7. ASSUME NEW p \in Procs, Evicting(p) PROVE UNCHANGED meta \/ EvMeta(p)
  BY <1>7 DEF Evicting, EvGet, EvArt, EvClean, EvUnreg
<1>8. CASE Tick \/ Pruning \/ PrunerExit
  BY <1>1, <1>8
  DEF Tick, Pruning, PrunerExit, Check, AgeKey, AgeNext, Checked, EndCycle, AgeKeysDone, AgeDone
<1>9. CASE Stop \/ Stopping
  BY <1>1, <1>9 DEF Stop, Stopping, Drained, CleanupAll, Purge, Unregister
<1>10. CASE UNCHANGED vars
  BY <1>1, <1>10 DEF vars
<1> QED
  BY <1>1, <1>2, <1>3, <1>4, <1>5, <1>6, <1>7, <1>8, <1>9, <1>10 DEF Next, Start

LEMMA CacheOwn ==
  ASSUME IInv, Owned, [Next]_vars
  PROVE  OwnCache'
<1>1. CASE UNCHANGED entries
  BY <1>1 DEF Owned, OwnCache
<1>2. ASSUME NEW p \in Procs, Store(p) PROVE OwnCache'
  <2>1. th[p].id \in Ids /\ th[p].fs[1] = th[p].id
    BY <1>2, Facts, Roles DEF Store, Pc, OwnTask
  <2>2. PICK V \in SUBSET AC!Cached : AC!Put(th[p].id, th[p].fs, V)
    BY <1>2 DEF Store
  <2>3. entries' = [j \in Ids |-> IF j = th[p].id THEN th[p].fs
                                  ELSE IF j \in V THEN None ELSE entries[j]]
    BY <2>2 DEF AC!Put
  <2> QED
    BY <2>1, <2>3 DEF Owned, OwnCache
<1>3. ASSUME NEW p \in Procs, EvArt(p) PROVE OwnCache'
  BY <1>3 DEF EvArt, AC!Drop, Owned, OwnCache, IInv, CacheData
<1>4. CASE CleanupAll
  BY <1>4 DEF CleanupAll, OwnCache
<1>5. ASSUME NEW p \in Procs, Resolving(p) PROVE UNCHANGED entries \/ Store(p)
  BY <1>5
  DEF Resolving, Lookup, Fresh, Swr, Trigger, Do, Resolve, Guard, Keep, Have, InstallCached,
      Download, Clean, SetMeta, Register, ErrGet, ErrArt, ErrTouch, ErrReg, Report, Respond,
      caches, AC!Get
<1>6. ASSUME NEW p \in Procs, Evicting(p) PROVE UNCHANGED entries \/ EvArt(p)
  BY <1>6 DEF Evicting, EvGet, EvClean, EvMeta, EvUnreg, caches
<1>7. CASE Tick \/ Pruning \/ PrunerExit
  BY <1>1, <1>7
  DEF Tick, Pruning, PrunerExit, Check, AgeKey, AgeNext, Checked, EndCycle, AgeKeysDone,
      AgeDone, caches
<1>8. CASE Stop \/ Stopping
  BY <1>1, <1>4, <1>8 DEF Stop, Stopping, Drained, Purge, Unregister, caches
<1>9. CASE UNCHANGED vars
  BY <1>1, <1>9 DEF vars, caches
<1> QED
  BY <1>1, <1>2, <1>3, <1>5, <1>6, <1>7, <1>8, <1>9 DEF Next, Start, Expire, caches

LEMMA MapOwn ==
  ASSUME IInv, Owned, [Next]_vars
  PROVE  OwnBuildsOnly'
<1>1. CASE UNCHANGED fsmap
  BY <1>1 DEF Owned, OwnBuildsOnly
<1>2. ASSUME NEW p \in Procs, Register(p) \/ ErrReg(p) PROVE OwnBuildsOnly'
  <2>1. th[p].key \in Keys /\ th[p].fs[1] \in ArtifactsOf[th[p].key]
    BY <1>2, Facts, Roles DEF Register, ErrReg, Pc, OwnTask
  <2>2. fsmap' = [fsmap EXCEPT ![th[p].key] = th[p].fs]
    BY <1>2 DEF Register, ErrReg, Key
  <2> QED
    BY <2>1, <2>2 DEF Owned, OwnBuildsOnly, IInv, Books
<1>3. ASSUME NEW k, fsmap' = Unregistered(k) PROVE OwnBuildsOnly'
  BY <1>3 DEF Unregistered, Owned, OwnBuildsOnly, IInv, Books
<1>4. ASSUME NEW p \in Procs, Resolving(p) PROVE UNCHANGED fsmap \/ Register(p) \/ ErrReg(p)
  BY <1>4
  DEF Resolving, Lookup, Fresh, Swr, Trigger, Do, Resolve, Guard, Keep, Have, InstallCached,
      Download, Store, Clean, SetMeta, ErrGet, ErrArt, ErrTouch, Report, Respond
<1>5. ASSUME NEW p \in Procs, Evicting(p)
      PROVE  UNCHANGED fsmap \/ fsmap' = Unregistered(Key(p))
  BY <1>5 DEF Evicting, EvGet, EvArt, EvClean, EvMeta, EvUnreg
<1>6. CASE Tick \/ Pruning \/ PrunerExit
  BY <1>1, <1>6
  DEF Tick, Pruning, PrunerExit, Check, AgeKey, AgeNext, Checked, EndCycle, AgeKeysDone, AgeDone
<1>7. CASE Stop \/ Stopping
  BY <1>1, <1>3, <1>7 DEF Stop, Stopping, Drained, CleanupAll, Purge, Unregister
<1>8. CASE UNCHANGED vars
  BY <1>1, <1>8 DEF vars
<1> QED
  BY <1>1, <1>2, <1>3, <1>4, <1>5, <1>6, <1>7, <1>8 DEF Next, Start, Expire

-----------------------------------------------------------------------------
(* The theorem.                                                            *)

LEMMA TasksOwn ==
  ASSUME IInv, Owned, [Next]_vars
  PROVE  OwnTasks'
<1>1. CASE UNCHANGED th
  BY <1>1 DEF Owned, OwnTasks, OwnTask
<1>2. ASSUME NEW p \in Procs, Resolving(p) PROVE OwnTasks'
  BY <1>2, LookupOwn, RequestOwn, TriggerOwn, ResolveOwn, GuardOwn, CachedOwn, DownloadOwn,
     StoreOwn, InstalledOwn, ErrorOwn
  DEF Resolving
<1>3. ASSUME NEW p \in Procs, Evicting(p) PROVE OwnTasks'
  BY <1>3, EvictOwn
<1> QED
  BY <1>1, <1>2, <1>3, StartOwn, PruneOwn, StopOwn DEF Next, Expire, vars

LEMMA Owning == Spec => []Owned
<1>1. Init => Owned
  <2> SUFFICES ASSUME Init PROVE Owned
    OBVIOUS
  <2>1. NoTask.key = None
    BY DEF NoTask
  <2>2. OwnTasks
    BY <2>1 DEF Init, OwnTasks, OwnTask
  <2>3. OwnMeta /\ OwnCache /\ OwnBuildsOnly
    BY DEF Init, OwnMeta, OwnCache, OwnBuildsOnly
  <2> QED
    BY <2>2, <2>3 DEF Owned
<1>2. IInv /\ Owned /\ [Next]_vars => Owned'
  BY TasksOwn, MetaOwn, CacheOwn, MapOwn DEF Owned
<1> QED
  BY <1>1, <1>2, Invariance, PTL DEF Spec

\* A preview host never shows the build of another PR or branch: whatever the
\* goroutines have read, evicted or downloaded in between, registerFs is only
\* called for a key with a filesystem of an artifact GitHub resolved it to.
THEOREM PreviewsApart == Spec => []OwnBuildsOnly
<1>1. Owned => OwnBuildsOnly
  BY DEF Owned
<1> QED
  BY <1>1, Owning, PTL
=============================================================================
