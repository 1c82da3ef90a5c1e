--------------------------- MODULE GithubResolve ---------------------------
(***************************************************************************)
(* How the GitHub client finds the artifact of a PR or a branch            *)
(* (modules/github_preview/github.go): first the runs of the head commit,  *)
(* then, as a fallback, the listing of the branch's runs, which GitHub may *)
(* answer with a stale set of runs in any order.  Meanwhile commits are    *)
(* pushed, force-pushed and reverted, builds upload and artifacts expire.  *)
(***************************************************************************)
EXTENDS Integers, SequencesExt

CONSTANTS
  Runs,       \* workflow runs, as the number of their artifact
  CreatedAt,  \* run -> time
  HeadSHA,    \* run -> commit
  HeadBranch, \* run -> branch
  HeadRepo,   \* run -> repository its commit is from: this one or a fork
  Branch,     \* the branch that is resolved
  Repo,       \* and the repository it is in
  None        \* the empty commit, no run

ASSUME RunsAssumption == IsFiniteSet(Runs) /\ Runs \subseteq Int /\ CreatedAt \in [Runs -> Int]
ASSUME NoneAssumption == None \notin Runs \cup {HeadSHA[r] : r \in Runs}
\* A commit that several repositories have counts as of one: its builds are equal.
ASSUME CommitAssumption ==
  \A r, q \in Runs : HeadSHA[r] = HeadSHA[q] => HeadRepo[r] = HeadRepo[q]

VARIABLES
  head,     \* GitHub: the head commit of the branch
  exists,   \* GitHub: runs that were started
  ready,    \* GitHub: runs whose artifact is uploaded and has not expired
  expired,  \* GitHub: runs whose artifact has expired
  pc,       \* where the client is
  target,   \* TargetSHA
  query,    \* how it last listed runs: head_sha or branch
  runs,     \* the runs it has yet to look at
  faulted,  \* history: the head could not be read, or a listing failed
  due,      \* history: runs whose artifact is there since the start; no look at them failed
  listed    \* history: the runs of the last answer

vars == <<head, exists, ready, expired, pc, target, query, runs, faulted, due, listed>>
github == <<head, exists, ready, expired>>

\* The commits the branch may be at.
Commits == {HeadSHA[r] : r \in {q \in Runs : HeadRepo[q] = Repo}}

\* listRuns sorts by CreatedAt, then by ID, newest first.
Newer(r, q) == CreatedAt[r] > CreatedAt[q] \/ (CreatedAt[r] = CreatedAt[q] /\ r > q)
ServerOrder(S) == SetToSortSeq(S, <)   \* Mutation: the answer is not sorted.
Sorted(S) == CHOOSE s \in SetToSeqs(S) : \A j, k \in 1 .. Len(s) : j < k => Newer(s[j], s[k])

AnyBranch(S) == S   \* Mutation: runs of other branches are kept.
runsForBranch(S) == {r \in S : HeadBranch[r] = Branch}

-----------------------------------------------------------------------------
(* GitHub.                                                                 *)

\* A push, a force-push or a revert moves the head and starts the commit's runs.
Push(c) ==
  /\ c # head
  /\ head' = c
  /\ exists' = exists \cup {r \in Runs : HeadSHA[r] = c}
  /\ UNCHANGED <<ready, expired, pc, target, query, runs, faulted, due, listed>>

\* A pull request from a fork has runs here, under its own branch's name.
ForkRun(r) ==
  /\ HeadRepo[r] # Repo
  /\ r \notin exists
  /\ exists' = exists \cup {r}
  /\ UNCHANGED <<head, ready, expired, pc, target, query, runs, faulted, due, listed>>

Upload(r) ==
  /\ r \in exists \ (ready \cup expired)
  /\ ready' = ready \cup {r}
  /\ UNCHANGED <<head, exists, expired, pc, target, query, runs, faulted, due, listed>>

Expire(r) ==
  /\ r \in ready
  /\ ready' = ready \ {r}
  /\ expired' = expired \cup {r}
  /\ due' = due \ {r}
  /\ UNCHANGED <<head, exists, pc, target, query, runs, faulted, listed>>

-----------------------------------------------------------------------------
(* ResolvePR, ResolveBranch and resolveArtifactAt.                         *)

\* The first listing.
ListingFirst(known) == "bybranch"   \* Mutation: the head is not looked up first.
First(known) == IF known THEN "byhead" ELSE "bybranch"

\* getPR, getBranchHeadSHA: a PR that cannot be read is an error, a branch
\* whose head cannot be read goes straight to the listing.
Begin(known) ==
  /\ pc \in {"idle", "found", "failed"}
  /\ target' = IF known THEN head ELSE None
  /\ pc' = First(known)
  /\ query' = "none"
  /\ runs' = <<>>
  /\ faulted' = ~known
  /\ due' = runsForBranch(ready)
  /\ listed' = {}
  /\ UNCHANGED github

Fault(next) ==
  /\ pc' = next
  /\ faulted' = TRUE
  /\ UNCHANGED <<github, target, runs, due, listed>>

\* listRuns(head_sha=...), a consistent lookup.
ByHead ==
  /\ pc = "byhead"
  /\ query' = "head_sha"
  /\ \/ Fault("bybranch")
     \/ /\ listed' = runsForBranch({r \in exists : HeadSHA[r] = target})
        /\ runs' = Sorted(listed')
        /\ pc' = "scan"
        /\ UNCHANGED <<github, target, faulted, due>>

\* listRuns(branch=...), possibly stale.
ByBranch ==
  /\ pc = "bybranch"
  /\ query' = "branch"
  /\ \/ Fault("failed")
     \/ \E S \in SUBSET runsForBranch(exists) :
          /\ listed' = S
          /\ runs' = Sorted(S)
          /\ pc' = "scan"
          /\ UNCHANGED <<github, target, faulted, due>>

\* findArtifact: the first run with an artifact; a failed call skips the run.
Usable(r) == r \in ready

Scan ==
  /\ pc = "scan"
  /\ runs # <<>>
  /\ \/ /\ runs' = Tail(runs)
        /\ due' = due \ {Head(runs)}
        /\ UNCHANGED pc
     \/ /\ ~Usable(Head(runs))
        /\ runs' = Tail(runs)
        /\ UNCHANGED <<pc, due>>
     \/ /\ Usable(Head(runs))
        /\ pc' = "found"
        /\ UNCHANGED <<runs, due>>
  /\ UNCHANGED <<github, target, query, faulted, listed>>

\* No run of the answer had an artifact: the listing of the branch comes next, if it
\* was not the last.
NoneLeft ==
  /\ pc = "scan"
  /\ runs = <<>>
  /\ pc' = IF query = "head_sha" THEN "bybranch" ELSE "failed"
  /\ UNCHANGED <<github, target, query, runs, faulted, due, listed>>

Init ==
  /\ head \in Commits
  /\ exists = {r \in Runs : HeadSHA[r] = head}
  /\ ready = {}
  /\ expired = {}
  /\ pc = "idle"
  /\ target = None
  /\ query = "none"
  /\ runs = <<>>
  /\ faulted = FALSE
  /\ due = {}
  /\ listed = {}

Next ==
  \/ \E c \in Commits : Push(c)
  \/ \E r \in Runs : ForkRun(r) \/ Upload(r) \/ Expire(r)
  \/ \E known \in BOOLEAN : Begin(known)
  \/ ByHead \/ ByBranch \/ Scan \/ NoneLeft

Spec == Init /\ [][Next]_vars

-----------------------------------------------------------------------------
(* Properties.                                                             *)

\* The run whose artifact is returned, and ExactHead of the result.
Result == Head(runs)
ExactHead == target # None /\ HeadSHA[Result] = target

TypeOK ==
  /\ head \in Commits
  /\ ready \subseteq exists /\ expired \subseteq exists /\ exists \subseteq Runs
  /\ pc \in {"idle", "byhead", "bybranch", "scan", "found", "failed"}
  /\ target \in Commits \cup {None}
  /\ query \in {"none", "head_sha", "branch"}
  /\ \A k \in 1 .. Len(runs) : runs[k] \in exists
  /\ pc = "found" => runs # <<>>

\* A build of the head commit that had its artifact when the resolution began
\* is what the resolution finds, and it finds it: no newer or reverted commit,
\* other branch with the same commit, failed look at another run or stale listing
\* gets in its way, unless a listing itself fails.
HeadDue == {r \in due : HeadSHA[r] = target}
HeadServed ==
  ~faulted /\ HeadDue # {} =>
    /\ pc = "found" => ExactHead /\ query = "head_sha"
    /\ pc # "failed"

\* The artifact comes from a build of the branch that was asked for, and from
\* its repository when it was found by its commit (github.go:205).
RightBranch ==
  pc = "found" =>
    /\ HeadBranch[Result] = Branch
    /\ query = "head_sha" => HeadRepo[Result] = Repo

\* A build that has had its artifact all the time and is in the answer is never passed
\* over for an older one, in whatever order GitHub lists the runs, by commit or by
\* branch, whichever others expire, upload or cannot be looked at meanwhile.
NewestServed ==
  pc = "found" => \A r \in due \cap listed : ~Newer(r, Result)

\* It always comes from that repository; but the listing also has the runs of
\* forks that call their branch the same (github.go:213).
RightRepo == pc = "found" => HeadRepo[Result] = Repo

\* The comment of ExactHead: such a run was "found via the reliable head_sha
\* lookup".
ExactByLookup == pc = "found" /\ ExactHead => query = "head_sha"

\* The comment of ResolvePR: it "queries by branch name (not head SHA)".
QueriesByBranch == query # "head_sha"
=============================================================================
