--------------------------- MODULE GithubPreview ---------------------------
(***************************************************************************)
(* The github_preview handler (modules/github_preview/handler.go, api.go)  *)
(* with its two caches, the singleflight group, the background refreshes,  *)
(* the pruner and the shutdown.                                            *)
(*                                                                         *)
(* One step is one acquisition of one lock (metadataCache.mu,              *)
(* artifactCache.mu, refreshMu, the singleflight mutex, Caddy's filesystem *)
(* map) or one call of the GitHub API; everything may happen in between.   *)
(* A key stands for "pr:42" or "branch:master".  A handle <<i, c>> is the  *)
(* c-th filesystem built from artifact i, as in ArtifactCache.  GitHub is  *)
(* not trusted: it answers any artifact of the key, or fails.              *)
(***************************************************************************)
EXTENDS Integers, FiniteSets

CONSTANTS
  Keys,         \* preview keys
  PRs,          \* those of the form "pr:N"
  ArtifactsOf,  \* key -> artifact IDs GitHub may resolve it to
  Copies,       \* tells the downloads of one artifact apart
  MaxSize,      \* max_artifacts
  SWR,          \* stale_while_revalidate
  MaxAge,       \* is max_artifact_age set?
  Ops,          \* what happens: serve, refresh, evict, prune, stop
  Requests,     \* goroutines of the HTTP server
  Pruner,       \* the goroutine of runPruner
  Stopper,      \* the goroutine that calls Cleanup
  None

\* The goroutine of key k's background refresh is named k.
Procs == Requests \cup Keys \cup {Pruner, Stopper}
Ids == UNION {ArtifactsOf[k] : k \in Keys}
Handles == Ids \X Copies
Opt(S) == S \cup {None}

ASSUME KeysAssumption == PRs \subseteq Keys /\ Ids \subseteq Int /\ IsFiniteSet(Ids)
ASSUME SizeAssumption == MaxSize \in Nat \ {0}
ASSUME FlagsAssumption == {SWR, MaxAge} \subseteq BOOLEAN
ASSUME CopiesAssumption == Copies \subseteq Nat
ASSUME NoneAssumption ==
  None \notin Keys \cup Ids \cup Handles \cup Procs \cup [id : Ids, fresh : BOOLEAN]
ASSUME ProcsAssumption ==
  /\ Requests \cap Keys = {}
  /\ Pruner # Stopper
  /\ {Pruner, Stopper} \cap (Requests \cup Keys) = {}

VARIABLES
  meta,        \* metadataCache: key -> [id, fresh] or None
  entries,     \* artifactCache: artifact ID -> handle or None
  older,       \* artifactCache: the order of lastAccess
  open,        \* handles whose file is open
  fsmap,       \* Caddy's filesystem map: key -> handle or None
  flight,      \* singleflight group: key -> leader of the running call or None
  refreshing,  \* refreshActive
  th,          \* the goroutines: program counter and local variables
  snap,        \* pruneOnce: artifact IDs in its metadata snapshot
  left,        \* pruneOnce: keys of the snapshot still to visit
  victims,     \* pruneOnce: stale artifacts still to evict
  doomed,      \* Cleanup: keys of its snapshot still to unregister
  cooling      \* history: keys whose re-resolve failed less than a TTL ago

caches == <<entries, older, open>>
sweep == <<snap, left, victims, doomed>>
vars == <<meta, caches, fsmap, flight, refreshing, th, sweep, cooling>>

\* What a goroutine holds of the artifact cache's handles: the one it has
\* downloaded and not cached yet, and those whose cleanup it has yet to run.
Holds == [p \in Procs |-> IF th[p].pc = "store" THEN th[p].fs ELSE None]
Cleans == [p \in Procs |-> th[p].todo]

AC == INSTANCE ArtifactCache WITH
  Clients <- Procs, held <- Holds, todo <- Cleans

-----------------------------------------------------------------------------
(* Goroutines.                                                             *)

\* meta is the entry resolveAndRegister started from, seen the one read later
\* (fullResolve, evictKey, the error path), id the artifact to install, via
\* how it was found, fs its filesystem, todo the cleanups to run.
NoTask == [pc |-> "idle", op |-> "none", key |-> None, meta |-> None,
           seen |-> None, id |-> None, via |-> "none", fs |-> None, todo |-> {}]

Pc(p) == th[p].pc
Key(p) == th[p].key
Goto(p, pc) == th' = [th EXCEPT ![p].pc = pc]
Running == Pc(Stopper) = "idle"

\* An answer ends the work on a request: "serve" hands over to the file
\* server, "fail" writes the error page or the API error.
Answer(t, pc) ==
  [NoTask EXCEPT !.pc = pc, !.op = t.op, !.key = t.key, !.meta = t.meta]

\* handleRefresh writes what the call returned; resolveAndRegister goes on to
\* the file server, or on an error looks for the last good artifact.
Awake(t, ok) ==
  Answer(t, CASE ok /\ t.op = "serve" -> "serve"
              [] ok /\ t.op # "serve" -> "report"
              [] ~ok /\ t.op = "serve" -> "errget"
              [] OTHER -> "fail")

\* Who wakes when p's singleflight call ends.
WakesLeaderOnly(p, q) == q = p   \* Mutation: the waiters sleep on.
Wakes(p, q) == q = p \/ (Pc(q) = "wait" /\ Key(q) = Key(p))

\* The call is taken out of the singleflight group.
KeepFlight(p) == flight   \* Mutation: the finished call stays there.
EndFlight(p) == [flight EXCEPT ![Key(p)] = None]

\* The mark of a background refresh is taken away.
KeepMark(k) == refreshing   \* Mutation: not on this path.
EndRefresh(k) == refreshing \ {k}

\* fullResolve or downloadAndCache returns: the goroutine of a background
\* refresh ends; the leader of a singleflight call (which Forgets the key on an
\* error) wakes with everyone who waits for it; the fresh path just goes on.
Return(p, ok) ==
  IF p \in Keys THEN
    /\ th' = [th EXCEPT ![p] = NoTask]
    /\ refreshing' = EndRefresh(p)
    /\ UNCHANGED flight
  ELSE IF flight[Key(p)] = p THEN
    /\ flight' = EndFlight(p)
    /\ th' = [q \in Procs |-> IF Wakes(p, q) THEN Awake(th[q], ok) ELSE th[q]]
    /\ UNCHANGED refreshing
  ELSE
    /\ th' = [th EXCEPT ![p] = Answer(@, IF ok THEN "serve" ELSE "fail")]
    /\ UNCHANGED <<flight, refreshing>>

\* p is in fullResolve: on behalf of a background refresh or of a flight.
InResolve(p) == p \in Keys \/ flight[Key(p)] = p

\* The bookkeeping of the history variable.  A failed refresh of the API is
\* reported to its caller and leaves the entry as it is.
Cool(p, ok) ==
  cooling' = IF ~InResolve(p) THEN cooling
             ELSE IF ok \/ meta[Key(p)] = None THEN cooling \ {Key(p)}
             ELSE IF th[p].op = "refresh" THEN cooling
             ELSE cooling \cup {Key(p)}

-----------------------------------------------------------------------------
(* A request arrives; ServeHTTP, resolveAndRegister.                       *)

Start(p, o, k) ==
  /\ Running
  /\ Pc(p) = "idle"
  /\ o \in Ops
  /\ th' = [th EXCEPT ![p] = [NoTask EXCEPT
              !.op = o, !.key = k,
              !.pc = CASE o = "serve" -> "lookup"
                       [] o = "refresh" -> "do"
                       [] o = "evict" -> "evget"]]
  /\ UNCHANGED <<meta, caches, fsmap, flight, refreshing, sweep, cooling>>

\* metadataCache.get at the top of resolveAndRegister
Lookup(p) ==
  LET m == meta[Key(p)] IN
  /\ Pc(p) = "lookup"
  /\ th' = [th EXCEPT
              ![p].pc = CASE m = None -> "do"
                          [] m # None /\ m.fresh -> "fresh"
                          [] m # None /\ ~m.fresh -> IF SWR THEN "swr" ELSE "do",
              ![p].meta = IF m = None THEN None ELSE m.id]
  /\ UNCHANGED <<meta, caches, fsmap, flight, refreshing, sweep, cooling>>

\* Mutation: the metadata is trusted without a look at the artifact cache.
FreshTrusted(p) ==
  /\ Pc(p) = "fresh"
  /\ th' = [th EXCEPT ![p] = Answer(@, "serve")]
  /\ UNCHANGED <<meta, caches, fsmap, flight, refreshing, sweep, cooling>>

\* Fresh metadata: serve the cached artifact, or download it again (outside
\* the singleflight group, without its digest).
Fresh(p) ==
  LET i == th[p].meta IN
  /\ Pc(p) = "fresh"
  /\ AC!Get(i)
  /\ th' = [th EXCEPT ![p] = IF i \in AC!Cached THEN Answer(@, "serve")
                             ELSE [@ EXCEPT !.pc = "download", !.id = i]]
  /\ UNCHANGED <<meta, open, fsmap, flight, refreshing, sweep, cooling>>

\* Stale metadata under stale_while_revalidate.
Swr(p) ==
  LET i == th[p].meta IN
  /\ Pc(p) = "swr"
  /\ AC!Get(i)
  /\ Goto(p, IF i \in AC!Cached THEN "trigger" ELSE "do")
  /\ UNCHANGED <<meta, open, fsmap, flight, refreshing, sweep, cooling>>

\* triggerBackgroundRefresh: at most one per key.
Trigger(p) ==
  LET k == Key(p) IN
  /\ Pc(p) = "trigger"
  /\ refreshing' = refreshing \cup {k}
  /\ th' = [q \in Procs |->
              IF q = p THEN Answer(th[p], "serve")
              ELSE IF q = k /\ k \notin refreshing
                THEN [NoTask EXCEPT !.pc = "resolve", !.op = "background", !.key = k]
              ELSE th[q]]
  /\ UNCHANGED <<meta, caches, fsmap, flight, sweep, cooling>>

\* Mutation: no singleflight, every request resolves for itself.
DoAlone(p) ==
  /\ Pc(p) = "do"
  /\ flight' = [flight EXCEPT ![Key(p)] = p]
  /\ Goto(p, "resolve")
  /\ UNCHANGED <<meta, caches, fsmap, refreshing, sweep, cooling>>

\* singleflight.Do: lead the call or wait for its leader.
Do(p) ==
  LET k == Key(p) IN
  /\ Pc(p) = "do"
  /\ IF flight[k] = None
       THEN flight' = [flight EXCEPT ![k] = p] /\ Goto(p, "resolve")
       ELSE UNCHANGED flight /\ Goto(p, "wait")
  /\ UNCHANGED <<meta, caches, fsmap, refreshing, sweep, cooling>>

-----------------------------------------------------------------------------
(* fullResolve and downloadAndCache.                                       *)

\* ResolvePR, ResolveBranch: an artifact of the head commit or one from the
\* fallback listing; or the PR turns out to be closed; or an error.
Resolve(p) ==
  LET k == Key(p) IN
  /\ Pc(p) = "resolve"
  /\ \/ /\ Return(p, FALSE)
        /\ Cool(p, FALSE)
     \/ /\ k \in PRs
        /\ Goto(p, "evget")
        /\ UNCHANGED <<flight, refreshing, cooling>>
     \/ \E i \in ArtifactsOf[k], v \in {"head", "listing"} :
          /\ th' = [th EXCEPT ![p].pc = "guard", ![p].id = i, ![p].via = v]
          /\ UNCHANGED <<flight, refreshing, cooling>>
  /\ UNCHANGED <<meta, caches, fsmap, sweep>>

\* Mutation: no guard.
NeverOlder(p) == FALSE

\* The guard against a stale listing: is the artifact older than the known one?
Older(p) ==
  /\ meta[Key(p)] # None
  /\ th[p].via # "head"
  /\ th[p].id < meta[Key(p)].id

Guard(p) ==
  /\ Pc(p) = "guard"
  /\ th' = [th EXCEPT ![p].pc = IF Older(p) THEN "keep" ELSE "have",
                      ![p].seen = IF Older(p) THEN meta[Key(p)].id ELSE None]
  /\ UNCHANGED <<meta, caches, fsmap, flight, refreshing, sweep, cooling>>

\* Install the cached artifact i, if it is there; else go to the pc given.
InstallCached(p, i, else) ==
  /\ AC!Get(i)
  /\ th' = [th EXCEPT ![p] =
              IF i \in AC!Cached
                THEN [@ EXCEPT !.pc = "setmeta", !.id = i, !.seen = None, !.fs = entries[i]]
                ELSE [@ EXCEPT !.pc = else, !.seen = None]]
  /\ UNCHANGED <<meta, open, fsmap, flight, refreshing, sweep, cooling>>

\* Mutation: a cached artifact is found by its name ("dist"), not by its ID.
HaveByName(p) ==
  /\ Pc(p) = "have"
  /\ \/ \E i \in AC!Cached : InstallCached(p, i, "download")
     \/ AC!Cached = {} /\ InstallCached(p, th[p].id, "download")

Keep(p) == Pc(p) = "keep" /\ InstallCached(p, th[p].seen, "have")
Have(p) == Pc(p) = "have" /\ InstallCached(p, th[p].id, "download")

\* A handle nothing refers to any more stands for a new one.
InUse == AC!CachedHandles \cup AC!Retired \cup {fsmap[k] : k \in Keys}
           \cup {th[p].fs : p \in Procs}

\* DownloadArtifact
Download(p) ==
  /\ Pc(p) = "download"
  /\ \/ /\ Return(p, FALSE)
        /\ Cool(p, FALSE)
        /\ UNCHANGED open
     \/ /\ \E c \in Copies :
             LET h == <<th[p].id, c>> IN
             /\ h \notin InUse
             /\ \A d \in Copies : d < c => <<th[p].id, d>> \in InUse
             /\ th' = [th EXCEPT ![p].pc = "store", ![p].fs = h]
             /\ open' = open \cup {h}
        /\ UNCHANGED <<flight, refreshing, cooling>>
  /\ UNCHANGED <<meta, entries, older, fsmap, sweep>>

\* artifactCache.set, then its cleanups outside the lock.
Store(p) ==
  /\ Pc(p) = "store"
  /\ \E V \in SUBSET AC!Cached :
       /\ AC!EvictionSet(V)
       /\ AC!Put(th[p].id, th[p].fs, V)
       /\ th' = [th EXCEPT ![p].pc = IF V = {} THEN "setmeta" ELSE "clean",
                           ![p].todo = AC!Cleanups(V)]
  /\ UNCHANGED <<meta, open, fsmap, flight, refreshing, sweep, cooling>>

Clean(p) ==
  /\ Pc(p) = "clean"
  /\ open' = open \ th[p].todo
  /\ th' = [th EXCEPT ![p].pc = "setmeta", ![p].todo = {}]
  /\ UNCHANGED <<meta, entries, older, fsmap, flight, refreshing, sweep, cooling>>

\* Mutation: nothing is registered after the metadata is set.
SetMetaOnly(p) ==
  /\ Pc(p) = "setmeta"
  /\ meta' = [meta EXCEPT ![Key(p)] = [id |-> th[p].id, fresh |-> TRUE]]
  /\ Return(p, TRUE)
  /\ UNCHANGED <<caches, fsmap, sweep, cooling>>

\* metadataCache.set
SetMeta(p) ==
  /\ Pc(p) = "setmeta"
  /\ meta' = [meta EXCEPT ![Key(p)] = [id |-> th[p].id, fresh |-> TRUE]]
  /\ Goto(p, "register")
  /\ UNCHANGED <<caches, fsmap, flight, refreshing, sweep, cooling>>

\* registerFs
Register(p) ==
  /\ Pc(p) = "register"
  /\ fsmap' = [fsmap EXCEPT ![Key(p)] = th[p].fs]
  /\ Return(p, TRUE)
  /\ Cool(p, TRUE)
  /\ UNCHANGED <<meta, caches, sweep>>

-----------------------------------------------------------------------------
(* After a failed resolve: serve the last good artifact.                   *)

\* Mutation: an error is final.
ErrGetFails(p) ==
  /\ Pc(p) = "errget"
  /\ Goto(p, "fail")
  /\ UNCHANGED <<meta, caches, fsmap, flight, refreshing, sweep, cooling>>

ErrGet(p) ==
  LET m == meta[Key(p)] IN
  /\ Pc(p) = "errget"
  /\ th' = [th EXCEPT ![p].pc = IF m = None THEN "fail" ELSE "errart",
                      ![p].seen = IF m = None THEN None ELSE m.id]
  /\ UNCHANGED <<meta, caches, fsmap, flight, refreshing, sweep, cooling>>

\* Mutation: the filesystem is used whether it was cached or not.
ErrArtUnchecked(p) ==
  /\ Pc(p) = "errart"
  /\ AC!Get(th[p].seen)
  /\ th' = [th EXCEPT ![p].pc = "errtouch", ![p].fs = entries[th[p].seen], ![p].seen = None]
  /\ UNCHANGED <<meta, open, fsmap, flight, refreshing, sweep, cooling>>

ErrArt(p) ==
  LET i == th[p].seen IN
  /\ Pc(p) = "errart"
  /\ AC!Get(i)
  /\ th' = [th EXCEPT ![p].pc = IF i \in AC!Cached THEN "errtouch" ELSE "fail",
                      ![p].fs = entries[i], ![p].seen = None]
  /\ UNCHANGED <<meta, open, fsmap, flight, refreshing, sweep, cooling>>

\* Mutation: the entry is left stale.
ErrNoTouch(p) ==
  /\ Pc(p) = "errtouch"
  /\ Goto(p, "errreg")
  /\ UNCHANGED <<meta, caches, fsmap, flight, refreshing, sweep, cooling>>

\* metadataCache.touch
ErrTouch(p) ==
  LET k == Key(p) IN
  /\ Pc(p) = "errtouch"
  /\ meta' = IF meta[k] = None THEN meta ELSE [meta EXCEPT ![k].fresh = TRUE]
  /\ Goto(p, "errreg")
  /\ UNCHANGED <<caches, fsmap, flight, refreshing, sweep, cooling>>

ErrReg(p) ==
  /\ Pc(p) = "errreg"
  /\ fsmap' = [fsmap EXCEPT ![Key(p)] = th[p].fs]
  /\ th' = [th EXCEPT ![p] = Answer(@, "serve")]
  /\ UNCHANGED <<meta, caches, flight, refreshing, sweep, cooling>>

\* handleRefresh, after the call: the metadata are read again, for the artifact
\* to report, and compared with the one the client expects, if it names one.
Report(p) ==
  LET m == meta[Key(p)]
      i == IF m = None THEN None ELSE m.id IN
  /\ Pc(p) = "report"
  /\ \E expected \in Opt(Ids) :
       th' = [th EXCEPT ![p].pc = IF expected \in {None, i} THEN "reported" ELSE "conflict",
                        ![p].seen = i]
  /\ UNCHANGED <<meta, caches, fsmap, flight, refreshing, sweep, cooling>>

\* The response is written (by the file server, when pc is "serve").
Respond(p) ==
  /\ Pc(p) \in {"serve", "reported", "conflict", "fail"}
  /\ th' = [th EXCEPT ![p] = NoTask]
  /\ UNCHANGED <<meta, caches, fsmap, flight, refreshing, sweep, cooling>>

-----------------------------------------------------------------------------
(* evictKey: from the API, from fullResolve for a closed PR; the pruner    *)
(* does the same steps with what its snapshot says.                        *)

EvGet(p) ==
  LET m == meta[Key(p)] IN
  /\ Pc(p) = "evget"
  /\ th' = [th EXCEPT ![p].pc = IF m = None THEN "evmeta" ELSE "evart",
                      ![p].seen = IF m = None THEN None ELSE m.id]
  /\ UNCHANGED <<meta, caches, fsmap, flight, refreshing, sweep, cooling>>

\* Where eviction goes on once the artifact is out of the cache.
AfterArt(p) == IF th[p].op = "age" THEN "agekeys" ELSE "evmeta"

EvArt(p) ==
  LET i == th[p].seen IN
  /\ Pc(p) = "evart"
  /\ AC!Drop(i)
  /\ th' = [th EXCEPT ![p].pc = IF i \in AC!Cached THEN "evclean" ELSE AfterArt(p),
                      ![p].todo = AC!Cleanups({i}), ![p].seen = None]
  /\ UNCHANGED <<meta, open, fsmap, flight, refreshing, sweep, cooling>>

\* Mutation: the cleanup of the evicted artifact is not run.
EvCleanForgotten(p) ==
  /\ Pc(p) = "evclean"
  /\ th' = [th EXCEPT ![p].pc = AfterArt(p), ![p].todo = {}]
  /\ UNCHANGED <<meta, caches, fsmap, flight, refreshing, sweep, cooling>>

EvClean(p) ==
  /\ Pc(p) = "evclean"
  /\ open' = open \ th[p].todo
  /\ th' = [th EXCEPT ![p].pc = AfterArt(p), ![p].todo = {}]
  /\ UNCHANGED <<meta, entries, older, fsmap, flight, refreshing, sweep, cooling>>

EvMeta(p) ==
  /\ Pc(p) = "evmeta"
  /\ meta' = [meta EXCEPT ![Key(p)] = None]
  /\ Goto(p, "evunreg")
  /\ cooling' = cooling \ {Key(p)}
  /\ UNCHANGED <<caches, fsmap, flight, refreshing, sweep>>

\* unregisterFs
LeaveRegistered(k) == fsmap   \* Mutation: it is forgotten.
Unregistered(k) == [fsmap EXCEPT ![k] = None]

EvUnreg(p) ==
  /\ Pc(p) = "evunreg"
  /\ fsmap' = Unregistered(Key(p))
  /\ CASE th[p].op \in {"serve", "refresh", "background"} ->
            Return(p, FALSE) /\ Cool(p, FALSE)
       [] th[p].op = "evict" ->
            th' = [th EXCEPT ![p] = NoTask] /\ UNCHANGED <<flight, refreshing, cooling>>
       [] th[p].op = "closed" ->
            th' = [th EXCEPT ![p] = [NoTask EXCEPT !.pc = "check"]]
              /\ UNCHANGED <<flight, refreshing, cooling>>
       [] th[p].op = "age" ->
            th' = [th EXCEPT ![p].pc = "agekeys", ![p].key = None]
              /\ UNCHANGED <<flight, refreshing, cooling>>
  /\ UNCHANGED <<meta, caches, sweep>>

-----------------------------------------------------------------------------
(* runPruner, pruneOnce.                                                   *)

Snapshot == [k \in Keys |-> IF meta[k] = None THEN None ELSE meta[k].id]
NoSnapshot == [k \in Keys |-> None]

\* The ticker fires.  The select may prefer it to a closed pruneStop.
Tick ==
  /\ "prune" \in Ops
  /\ Pc(Pruner) = "idle"
  /\ snap' = Snapshot
  /\ left' = {k \in PRs : meta[k] # None}
  /\ Goto(Pruner, "check")
  /\ UNCHANGED <<meta, caches, fsmap, flight, refreshing, victims, doomed, cooling>>

\* GetPRState of the next key: open (or an error), or closed.
Check(k) ==
  /\ Pc(Pruner) = "check"
  /\ k \in left
  /\ left' = left \ {k}
  /\ \/ UNCHANGED th
     \/ th' = [th EXCEPT ![Pruner].pc = "evart", ![Pruner].op = "closed",
                         ![Pruner].key = k, ![Pruner].seen = snap[k]]
  /\ UNCHANGED <<meta, caches, fsmap, flight, refreshing, snap, victims, doomed, cooling>>

EndCycle ==
  /\ th' = [th EXCEPT ![Pruner] = NoTask]
  /\ snap' = NoSnapshot
  /\ UNCHANGED <<meta, caches, fsmap, flight, refreshing, left, doomed, cooling>>

\* staleEntries: the artifacts not accessed for max_artifact_age, which are the
\* least recently accessed ones.
Stale(S) == \A v \in S, s \in AC!Cached \ S : <<v, s>> \in older

Checked ==
  /\ Pc(Pruner) = "check"
  /\ left = {}
  /\ \/ ~MaxAge /\ EndCycle /\ UNCHANGED victims
     \/ /\ MaxAge
        /\ \E S \in SUBSET AC!Cached : Stale(S) /\ victims' = S
        /\ Goto(Pruner, "age")
        /\ UNCHANGED <<meta, caches, fsmap, flight, refreshing, snap, left, doomed, cooling>>

AgeNext(i) ==
  /\ Pc(Pruner) = "age"
  /\ i \in victims
  /\ victims' = victims \ {i}
  /\ left' = {k \in Keys : snap[k] = i}
  /\ th' = [th EXCEPT ![Pruner].pc = "evart", ![Pruner].op = "age", ![Pruner].seen = i]
  /\ UNCHANGED <<meta, caches, fsmap, flight, refreshing, snap, doomed, cooling>>

\* The next metadata entry that, in the snapshot, points to the artifact.
AgeKey(k) ==
  /\ Pc(Pruner) = "agekeys"
  /\ k \in left
  /\ left' = left \ {k}
  /\ th' = [th EXCEPT ![Pruner].pc = "evmeta", ![Pruner].key = k]
  /\ UNCHANGED <<meta, caches, fsmap, flight, refreshing, snap, victims, doomed, cooling>>

AgeKeysDone ==
  /\ Pc(Pruner) = "agekeys"
  /\ left = {}
  /\ Goto(Pruner, "age")
  /\ UNCHANGED <<meta, caches, fsmap, flight, refreshing, sweep, cooling>>

AgeDone == Pc(Pruner) = "age" /\ victims = {} /\ EndCycle /\ UNCHANGED victims

\* pruneStop is closed.
NeverClosed == FALSE   \* Mutation: Cleanup does not close it.
PruneStopClosed == ~Running

PrunerExit ==
  /\ PruneStopClosed
  /\ Pc(Pruner) = "idle"
  /\ Goto(Pruner, "exited")
  /\ UNCHANGED <<meta, caches, fsmap, flight, refreshing, sweep, cooling>>

-----------------------------------------------------------------------------
(* Cleanup, once the server has drained its requests.                      *)

Stop ==
  /\ "stop" \in Ops
  /\ Running
  /\ \A p \in Requests : Pc(p) = "idle"
  /\ Goto(Stopper, "drain")
  /\ UNCHANGED <<meta, caches, fsmap, flight, refreshing, sweep, cooling>>

\* Mutation: Cleanup does not wait for the background refreshes.
DrainedAtOnce ==
  /\ Pc(Stopper) = "drain"
  /\ doomed' = {k \in Keys : meta[k] # None}
  /\ Goto(Stopper, "unregister")
  /\ UNCHANGED <<meta, caches, fsmap, flight, refreshing, snap, left, victims, cooling>>

\* refreshWg.Wait, then the snapshot of the metadata.
Drained ==
  /\ Pc(Stopper) = "drain"
  /\ refreshing = {}
  /\ doomed' = {k \in Keys : meta[k] # None}
  /\ Goto(Stopper, "unregister")
  /\ UNCHANGED <<meta, caches, fsmap, flight, refreshing, snap, left, victims, cooling>>

Unregister(k) ==
  /\ Pc(Stopper) = "unregister"
  /\ k \in doomed
  /\ doomed' = doomed \ {k}
  /\ fsmap' = Unregistered(k)
  /\ UNCHANGED <<meta, caches, flight, refreshing, th, snap, left, victims, cooling>>

\* artifactCache.cleanupAll
CleanupAll ==
  /\ Pc(Stopper) = "unregister"
  /\ doomed = {}
  /\ entries' = [i \in Ids |-> None]
  /\ older' = {}
  /\ th' = [th EXCEPT ![Stopper].pc = "purge", ![Stopper].todo = AC!Cleanups(Ids)]
  /\ UNCHANGED <<meta, open, fsmap, flight, refreshing, sweep, cooling>>

Purge ==
  /\ Pc(Stopper) = "purge"
  /\ open' = open \ th[Stopper].todo
  /\ th' = [th EXCEPT ![Stopper].pc = "stopped", ![Stopper].todo = {}]
  /\ UNCHANGED <<meta, entries, older, fsmap, flight, refreshing, sweep, cooling>>

-----------------------------------------------------------------------------
\* metadata_ttl passes since the entry was resolved, or since its re-resolve
\* failed.
Expire(k) ==
  /\ meta[k] # None
  /\ meta[k].fresh \/ k \in cooling
  /\ meta' = [meta EXCEPT ![k].fresh = FALSE]
  /\ cooling' = cooling \ {k}
  /\ UNCHANGED <<caches, fsmap, flight, refreshing, th, sweep>>

Init ==
  /\ meta = [k \in Keys |-> None]
  /\ entries = [i \in Ids |-> None]
  /\ older = {}
  /\ open = {}
  /\ fsmap = [k \in Keys |-> None]
  /\ flight = [k \in Keys |-> None]
  /\ refreshing = {}
  /\ th = [p \in Procs |-> NoTask]
  /\ snap = NoSnapshot
  /\ left = {}
  /\ victims = {}
  /\ doomed = {}
  /\ cooling = {}

\* One step of work on a request or of a background refresh.
Resolving(p) ==
  \/ Lookup(p) \/ Fresh(p) \/ Swr(p) \/ Trigger(p) \/ Do(p)
  \/ Resolve(p) \/ Guard(p) \/ Keep(p) \/ Have(p) \/ Download(p)
  \/ Store(p) \/ Clean(p) \/ SetMeta(p) \/ Register(p)
  \/ ErrGet(p) \/ ErrArt(p) \/ ErrTouch(p) \/ ErrReg(p) \/ Report(p) \/ Respond(p)

Evicting(p) == EvGet(p) \/ EvArt(p) \/ EvClean(p) \/ EvMeta(p) \/ EvUnreg(p)

Pruning ==
  \/ \E k \in Keys : Check(k) \/ AgeKey(k)
  \/ \E i \in Ids : AgeNext(i)
  \/ Checked \/ AgeKeysDone \/ AgeDone

Stopping ==
  \/ Drained \/ CleanupAll \/ Purge
  \/ \E k \in Keys : Unregister(k)

Next ==
  \/ \E p \in Requests, o \in {"serve", "refresh", "evict"}, k \in Keys : Start(p, o, k)
  \/ \E p \in Procs : Resolving(p) \/ Evicting(p)
  \/ Tick \/ Pruning \/ PrunerExit
  \/ Stop \/ Stopping
  \/ \E k \in Keys : Expire(k)

\* Every goroutine runs on: locks are held for a few instructions and the
\* calls of the API end by their timeouts.  Requests, ticks, expiry and the
\* shutdown need not happen.  The select of runPruner picks at random, so that
\* a closed pruneStop wins over the ticker at last.
Fairness ==
  /\ \A p \in Procs : WF_vars(Resolving(p) \/ Evicting(p))
  /\ WF_vars(Pruning)
  /\ WF_vars(Stopping)
  /\ SF_vars(PrunerExit)

Spec == Init /\ [][Next]_vars /\ Fairness

-----------------------------------------------------------------------------
(* Properties of every configuration.                                      *)

PCs == {"idle", "lookup", "fresh", "swr", "trigger", "do", "wait", "resolve",
        "guard", "keep", "have", "download", "store", "clean", "setmeta",
        "register", "errget", "errart", "errtouch", "errreg", "serve", "report",
        "reported", "conflict", "fail", "evget", "evart", "evclean", "evmeta", "evunreg", "check", "age",
        "agekeys", "exited", "drain", "unregister", "purge", "stopped"}

Tasks == [pc : PCs,
          op : {"none", "serve", "refresh", "evict", "background", "closed", "age"},
          key : Opt(Keys), meta : Opt(Ids), seen : Opt(Ids), id : Opt(Ids),
          via : {"none", "head", "listing"}, fs : Opt(Handles), todo : SUBSET Handles]

\* A step finds the local variables it uses set: no nil filesystem is
\* registered, no artifact 0 downloaded.
Prepared(t) ==
  /\ t.key = None => t.pc \in {"idle", "check", "age", "agekeys", "evart", "evclean", "exited",
                              "drain", "unregister", "purge", "stopped"}
  /\ t.pc \in {"fresh", "swr", "trigger"} => t.meta # None
  /\ t.pc \in {"guard", "keep", "have", "download", "store", "clean", "setmeta", "register"}
       => t.id # None
  /\ t.pc \in {"keep", "errart", "evart"} => t.seen # None
  /\ t.pc \in {"store", "clean", "setmeta", "register", "errtouch", "errreg"} => t.fs # None

TypeOK ==
  /\ meta \in [Keys -> Opt([id : Ids, fresh : BOOLEAN])]
  /\ entries \in [Ids -> Opt(Handles)]
  /\ older \subseteq Ids \X Ids
  /\ open \subseteq Handles
  /\ fsmap \in [Keys -> Opt(Handles)]
  /\ flight \in [Keys -> Opt(Requests)]
  /\ refreshing \subseteq Keys
  /\ th \in [Procs -> Tasks]
  /\ \A p \in Procs : Prepared(th[p])
  /\ snap \in [Keys -> Opt(Ids)]
  /\ left \subseteq Keys
  /\ victims \subseteq Ids
  /\ doomed \subseteq Keys
  /\ cooling \subseteq Keys

\* What the artifact cache promises to any goroutines that call it
\* (ArtifactCache.tla) holds of the calls this handler makes.
CacheUsedRight == AC!Spec

\* A request that waits for a singleflight call is never left behind: the call
\* has a leader, which is at work on the same key, on every path out of
\* fullResolve (errors, closed PRs, evictions) and across Forget.
InCall == {"resolve", "guard", "keep", "have", "download", "store", "clean",
           "setmeta", "register", "evget", "evart", "evclean", "evmeta", "evunreg"}
NoOrphanWaiter ==
  /\ \A p \in Requests : Pc(p) = "wait" => flight[Key(p)] # None
  /\ \A k \in Keys : flight[k] # None =>
       LET l == flight[k] IN Key(l) = k /\ Pc(l) \in InCall

\* The refreshActive mark of a key is set exactly while its background refresh
\* runs: a mark that stayed would end all refreshes of the key and hang Cleanup.
RefreshMarked ==
  \A k \in Keys : k \in refreshing <=> Pc(k) \in InCall

\* The artifact cache is shared by all keys, and whoever downloads an artifact
\* registers it on behalf of others: still a key is only ever registered with a
\* build of its own PR or branch.
OwnBuildsOnly == \A k \in Keys : fsmap[k] # None => fsmap[k][1] \in ArtifactsOf[k]

\* Every request is answered, the one that waits for another's call included,
\* however that call ends and whatever the pruner evicts meanwhile.
RequestsAnswered == \A p \in Requests : Pc(p) # "idle" ~> Pc(p) = "idle"

\* Cleanup returns: it does not wait forever for background refreshes; and the
\* pruner ends, even from the middle of a cycle.
ShutdownEnds == ~Running ~> Pc(Stopper) = "stopped" /\ Pc(Pruner) = "exited"

-----------------------------------------------------------------------------
(* Properties of configurations without eviction (no evict request, no     *)
(* closed PR, no pruner, room for every artifact) but with any             *)
(* interleaving.                                                           *)

\* "If resolution fails, the last cached artifact keeps being served": once a
\* request has seen metadata for its key it gets no error page.
KeepServing == \A p \in Requests : Pc(p) = "fail" => th[p].meta = None

\* A key with metadata is registered in Caddy's filesystem map, or a goroutine
\* is just about to register it: the fresh path may serve the key by name.
RegisteredIfKnown ==
  Running => \A k \in Keys : meta[k] # None =>
    fsmap[k] # None \/ \E p \in Procs : Pc(p) = "register" /\ Key(p) = k

\* Once Cleanup is over Caddy's filesystem map names no preview any more, and the
\* files of all artifacts are closed and removed: whatever the background
\* refreshes were doing when it began.
StopLeavesNothing ==
  Pc(Stopper) = "stopped" => open = {} /\ \A k \in Keys : fsmap[k] = None

\* The cleanup of every filesystem is still going to run: its artifact is in
\* the cache, on its way into it, or on its way out.  (DownloadArtifact: the
\* cleanup "must be called when the filesystem is no longer needed".)
NoFileLeaked == open \subseteq AC!CachedHandles \cup AC!HeldHandles \cup AC!Retired

-----------------------------------------------------------------------------
(* Properties of requests that come one after the other.                   *)

Quiet == refreshing = {} /\ Pc(Pruner) = "idle" /\ \A p \in Requests : Pc(p) = "idle"

\* What the file server is pointed at is registered ...
ServedKeyRegistered == \A p \in Requests : Pc(p) = "serve" => fsmap[Key(p)] # None

\* ... and its file is open.
ServedFsOpen == \A p \in Requests : Pc(p) = "serve" => fsmap[Key(p)] \in open

\* POST /refresh answers "cached": the artifact it reports, which it reads from
\* the metadata after the call is over, is the one the key now serves.
RefreshReportsServed ==
  \A p \in Requests : Pc(p) = "reported" =>
    fsmap[Key(p)] \in open /\ fsmap[Key(p)][1] = th[p].seen

\* Between requests, the map serves for each key the artifact its metadata
\* names, and nothing for a key without metadata.
MapFollowsMetadata ==
  Quiet => \A k \in Keys : IF meta[k] = None THEN fsmap[k] = None
                           ELSE fsmap[k] # None /\ fsmap[k][1] = meta[k].id

\* Between requests a key with fresh metadata is registered: until the TTL is
\* over requests for it go by the metadata and register nothing.
FreshKeyRegistered ==
  Quiet => \A k \in Keys : meta[k] # None /\ meta[k].fresh => fsmap[k] # None

\* "It never replaces a cached artifact with an older one" found through the
\* fallback listing: neither does the goroutine that found it there, however
\* long ago it has compared the two.
NoFallbackRegress ==
  [][\A p \in Procs, k \in Keys :
       /\ Pc(p) = "setmeta" /\ Pc(p)' = "register"
       /\ Key(p) = k /\ th[p].via = "listing"
       /\ meta[k] # None
       /\ meta[k].id \in AC!Cached
       => meta'[k].id >= meta[k].id]_vars

\* "The last cached artifact keeps being served and resolution is retried after
\* the metadata TTL", not on every request: while there is a cached artifact, no
\* request starts one for a key whose last one failed less than a TTL ago.
RetryAfterTTL ==
  [][\A p \in Procs :
       Pc(p) # "resolve" /\ Pc(p)' = "resolve" /\ th'[p].op # "refresh"
         => \/ th'[p].key \notin cooling
            \/ meta[th'[p].key].id \notin AC!Cached]_vars

\* A filesystem is closed only when no request is being served from it.
ClosedWhenUnneeded ==
  [][\A p \in Requests :
       Pc(p) = "serve" /\ Pc(p)' = "serve" /\ fsmap[Key(p)] \in open
         => fsmap[Key(p)] \in open']_vars

\* The pruner evicts by age only what is still among the least recently used.
AgeEvictsOldest ==
  [][Pc(Pruner) = "evart" /\ th[Pruner].op = "age" /\ entries' # entries =>
       \A j \in AC!Cached \ (victims \cup {th[Pruner].seen}) :
         <<th[Pruner].seen, j>> \in older]_vars
=============================================================================
