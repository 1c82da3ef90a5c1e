------------------------ MODULE GithubResolveProofs ------------------------
(***************************************************************************)
(* The resolution of an artifact (modules/github_preview/github.go), for   *)
(* any runs, commits, branches, forks and creation times, while GitHub     *)
(* pushes, uploads and expires: a build of the head is found unless a      *)
(* listing fails (HeadServed), what is found is of the branch              *)
(* (RightBranch), and no newer build that was there all the time has been  *)
(* passed over for it (NewestServed).                                      *)
(*                                                                         *)
(* The promises are about the moment the artifact is found.  The invariant *)
(* says what the runs the client has yet to look at are (Listed), in which *)
(* order they are (Descending), and that the builds which have had their   *)
(* artifact since the resolution began are still among them if they were   *)
(* listed at all (DueLeft), as those of the head are (HeadLeft).           *)
(***************************************************************************)
EXTENDS GithubResolve, FiniteSetTheorems, SequenceTheorems, TLAPS

\* s lists the runs of S, each of them once, the newest first.
Lists(s, S) ==
  /\ s \in Seq(S)
  /\ S = {s[k] : k \in 1 .. Len(s)}
  /\ \A j, k \in 1 .. Len(s) : j < k => Newer(s[j], s[k])

\* Times and, among equal times, numbers order the runs.
LEMMA NewerOrders ==
  ASSUME NEW x \in Runs, NEW y \in Runs, NEW z \in Runs
  PROVE  /\ ~Newer(x, x)
         /\ x # y => Newer(x, y) \/ Newer(y, x)
         /\ Newer(x, y) /\ Newer(y, z) => Newer(x, z)
BY RunsAssumption DEF Newer

\* How many runs of S are not older than x.
Rank(S, x) == Cardinality({y \in S : Newer(y, x) \/ y = x})

LEMMA RankGrows ==
  ASSUME NEW S \in SUBSET Runs, NEW x \in S, NEW y \in S, Newer(x, y)
  PROVE  Rank(S, x) < Rank(S, y)
<1> DEFINE A == {z \in S : Newer(z, x) \/ z = x}
           B == {z \in S : Newer(z, y) \/ z = y}
<1>1. IsFiniteSet(S)
  BY RunsAssumption, FS_Subset
<1>2. IsFiniteSet(A) /\ IsFiniteSet(B) /\ Cardinality(A) \in Nat /\ Cardinality(B) \in Nat
  BY <1>1, FS_Subset, FS_CardinalityType
<1>3. A \subseteq B
  BY NewerOrders
<1>4. y \in B /\ y \notin A
  BY NewerOrders
<1>5. Cardinality(A) <= Cardinality(B) /\ Cardinality(A) # Cardinality(B)
  BY <1>2, <1>3, <1>4, FS_Subset
<1> QED
  BY <1>2, <1>5 DEF Rank

\* The ranks are a bijection, and its inverse lists the runs.
LEMMA SortedExists ==
  ASSUME NEW S \in SUBSET Runs
  PROVE  \E s \in SetToSeqs(S) : \A j, k \in 1 .. Len(s) : j < k => Newer(s[j], s[k])
<1>1. IsFiniteSet(S) /\ Cardinality(S) \in Nat
  BY RunsAssumption, FS_Subset, FS_CardinalityType
<1> DEFINE n == Cardinality(S)
           rank == [x \in S |-> Rank(S, x)]
<1>2. ASSUME NEW x \in S PROVE Rank(S, x) \in 1 .. n
  <2> DEFINE A == {y \in S : Newer(y, x) \/ y = x}
  <2>1. IsFiniteSet(A) /\ Cardinality(A) \in Nat /\ Cardinality(A) <= n
    BY <1>1, FS_Subset, FS_CardinalityType
  <2>2. Cardinality(A) # 0
    <3>1. x \in A
      OBVIOUS
    <3> HIDE DEF A
    <3> QED
      BY <2>1, <3>1, FS_EmptySet
  <2> QED
    BY <1>1, <2>1, <2>2 DEF Rank
<1>3. rank \in [S -> 1 .. n]
  BY <1>2
<1>4. ASSUME NEW x \in S, NEW y \in S, rank[x] = rank[y] PROVE x = y
  <2>1. Rank(S, x) \in Int /\ Rank(S, x) = Rank(S, y)
    BY <1>1, <1>2, <1>4
  <2> QED
    BY <2>1, RankGrows, NewerOrders
<1>5. rank \in Injection(S, 1 .. n)
  BY <1>3, <1>4 DEF Injection, IsInjective
<1>6. IsFiniteSet(1 .. n) /\ Cardinality(1 .. n) = n
  <2>1. /\ IsFiniteSet(1 .. n)
        /\ Cardinality(1 .. n) = IF 1 > n THEN 0 ELSE n - 1 + 1
    BY <1>1, FS_Interval
  <2> QED
    BY <1>1, <2>1
<1>7. rank \in Surjection(S, 1 .. n)
  BY <1>5, <1>6, FS_Injection
<1>8. \A k \in 1 .. n : \E x \in S : rank[x] = k
  BY <1>7 DEF Surjection
<1> DEFINE s == [k \in 1 .. n |-> CHOOSE x \in S : rank[x] = k]
<1>9. ASSUME NEW k \in 1 .. n PROVE s[k] \in S /\ rank[s[k]] = k
  BY <1>8
<1>10. s \in [1 .. n -> S]
  BY <1>9
<1>11. ASSUME NEW j \in 1 .. n, NEW k \in 1 .. n, j < k PROVE Newer(s[j], s[k])
  <2>1. s[j] \in S /\ s[k] \in S /\ Rank(S, s[j]) = j /\ Rank(S, s[k]) = k
    BY <1>9
  <2> HIDE DEF s, rank
  <2>2. s[j] # s[k]
    BY <2>1, <1>1, <1>11
  <2>3. CASE Newer(s[k], s[j])
    BY <2>1, <2>3, <1>1, <1>11, RankGrows
  <2> QED
    BY <2>1, <2>2, <2>3, NewerOrders
<1>12. \A j, k \in 1 .. n : j # k => s[j] # s[k]
  BY <1>9
<1> HIDE DEF s
<1>13. s \in SetToSeqs(S)
  BY <1>10, <1>12 DEF SetToSeqs
<1>14. s \in Seq(S) /\ Len(s) = n
  BY <1>1, <1>10, LenProperties
<1> QED
  BY <1>11, <1>13, <1>14

\* listRuns: its answer has all runs and is in order.
LEMMA SortedIs ==
  ASSUME NEW S \in SUBSET Runs
  PROVE  Lists(Sorted(S), S)
<1>1. IsFiniteSet(S) /\ Cardinality(S) \in Nat
  BY RunsAssumption, FS_Subset, FS_CardinalityType
<1> DEFINE n == Cardinality(S)
<1>2. PICK s : s = Sorted(S)
  OBVIOUS
<1>3. s \in SetToSeqs(S) /\ \A j, k \in 1 .. Len(s) : j < k => Newer(s[j], s[k])
  BY <1>2, SortedExists DEF Sorted
<1>4. s \in [1 .. n -> S] /\ \A j, k \in 1 .. n : j # k => s[j] # s[k]
  BY <1>3 DEF SetToSeqs
<1>5. s \in Seq(S) /\ Len(s) = n
  BY <1>1, <1>4, LenProperties
<1>6. s \in Injection(1 .. n, S)
  BY <1>4 DEF Injection, IsInjective
<1>7. Cardinality(1 .. n) = n
  <2>1. Cardinality(1 .. n) = IF 1 > n THEN 0 ELSE n - 1 + 1
    BY <1>1, FS_Interval
  <2> QED
    BY <1>1, <2>1
<1>8. s \in Surjection(1 .. n, S)
  BY <1>1, <1>6, <1>7, FS_Injection
<1>9. S = {s[k] : k \in 1 .. n}
  BY <1>4, <1>8 DEF Surjection
<1> QED
  BY <1>2, <1>3, <1>5, <1>9 DEF Lists

-----------------------------------------------------------------------------
(* The inductive invariant.                                                *)

Types ==
  /\ TypeOK
  /\ runs \in Seq(Runs)
  /\ faulted \in BOOLEAN
  /\ due \subseteq runsForBranch(ready)

\* A resolution that asks by commit knows the commit, and nothing is listed before
\* the answer is there.
Asked ==
  /\ pc = "byhead" => target \in Commits
  /\ query = "head_sha" => target \in Commits
  /\ pc \in {"idle", "byhead", "bybranch", "failed"} => runs = <<>>

\* The runs left are of the branch and, if asked for by commit, of the commit.
Listed ==
  \A k \in 1 .. Len(runs) :
    /\ runs[k] \in runsForBranch(exists)
    /\ query = "head_sha" => HeadSHA[runs[k]] = target

Descending == \A j, k \in 1 .. Len(runs) : j < k => Newer(runs[j], runs[k])

\* Whoever is passed over has no artifact any more, or could not be looked at.
DueLeft ==
  pc \in {"scan", "found"} => due \cap listed \subseteq {runs[k] : k \in 1 .. Len(runs)}

\* While no listing has failed, the builds of the head that are due are still to be
\* listed by commit, or have been.
HeadLeft ==
  ~faulted /\ HeadDue # {} =>
    /\ target \in Commits
    /\ \/ pc = "byhead"
       \/ pc \in {"scan", "found"} /\ query = "head_sha" /\ HeadDue \subseteq listed

ResolveInv == Types /\ Asked /\ Listed /\ Descending /\ DueLeft /\ HeadLeft

LEMMA ResolveInit == Init => ResolveInv
<1> SUFFICES ASSUME Init PROVE ResolveInv
  OBVIOUS
<1>1. runs = <<>> /\ Len(runs) = 0 /\ runs \in Seq(Runs)
  BY DEF Init
<1>2. \A k \in 1 .. Len(runs) : runs[k] \in exists
  BY <1>1
<1>3. Types
  BY <1>1, <1>2 DEF Init, Types, TypeOK
<1>4. Asked /\ Listed /\ Descending /\ DueLeft /\ HeadLeft
  BY <1>1 DEF Init, Asked, Listed, Descending, DueLeft, HeadLeft, HeadDue
<1> QED
  BY <1>3, <1>4 DEF ResolveInv

\* What is left after the first of a list.
LEMMA TailIs ==
  ASSUME NEW s \in Seq(Runs), s # <<>>
  PROVE  /\ Len(s) \in Nat /\ 1 \in 1 .. Len(s) /\ Head(s) = s[1]
         /\ Tail(s) \in Seq(Runs) /\ Len(Tail(s)) = Len(s) - 1
         /\ \A k \in 1 .. Len(s) - 1 : Tail(s)[k] = s[k + 1] /\ k + 1 \in 1 .. Len(s)
BY HeadTailProperties, LenProperties

\* GitHub goes on, whatever the client does.
LEMMA GithubInv ==
  ASSUME ResolveInv,
         \/ \E c \in Commits : Push(c)
         \/ \E r \in Runs : ForkRun(r) \/ Upload(r) \/ Expire(r)
  PROVE  ResolveInv'
<1>1. /\ UNCHANGED <<pc, target, query, runs, faulted, listed>>
      /\ exists \subseteq exists' /\ exists' \subseteq Runs
      /\ due' \subseteq due
  BY DEF ResolveInv, Types, TypeOK, Push, ForkRun, Upload, Expire
<1>2. head' \in Commits
  BY DEF ResolveInv, Types, TypeOK, Push, ForkRun, Upload, Expire
<1>3. ready' \subseteq exists' /\ expired' \subseteq exists' /\ due' \subseteq runsForBranch(ready')
  BY DEF ResolveInv, Types, TypeOK, Push, ForkRun, Upload, Expire, runsForBranch
<1>4. Types'
  BY <1>1, <1>2, <1>3 DEF ResolveInv, Types, TypeOK, Commits, runsForBranch
<1>5. Asked' /\ Descending'
  BY <1>1 DEF ResolveInv, Asked, Descending, Commits, Newer
<1>6. Listed'
  BY <1>1 DEF ResolveInv, Listed, runsForBranch
<1>7. DueLeft'
  BY <1>1 DEF ResolveInv, DueLeft
<1>8. HeadLeft'
  BY <1>1 DEF ResolveInv, HeadLeft, HeadDue, Commits
<1> QED
  BY <1>4, <1>5, <1>6, <1>7, <1>8 DEF ResolveInv

LEMMA BeginInv ==
  ASSUME ResolveInv, NEW known \in BOOLEAN, Begin(known)
  PROVE  ResolveInv'
<1>1. /\ UNCHANGED <<head, exists, ready, expired>>
      /\ target' = IF known THEN head ELSE None
      /\ pc' = IF known THEN "byhead" ELSE "bybranch"
      /\ query' = "none" /\ runs' = <<>> /\ faulted' = ~known
      /\ due' = runsForBranch(ready) /\ listed' = {}
  BY DEF Begin, First, github
<1>2. Types'
  BY <1>1 DEF ResolveInv, Types, TypeOK, Commits, runsForBranch
<1>3. Asked' /\ Listed' /\ Descending'
  BY <1>1 DEF ResolveInv, Types, TypeOK, Asked, Listed, Descending, Commits
<1>4. DueLeft'
  BY <1>1 DEF DueLeft
<1>5. HeadLeft'
  BY <1>1 DEF ResolveInv, Types, TypeOK, HeadLeft, HeadDue, Commits
<1> QED
  BY <1>2, <1>3, <1>4, <1>5 DEF ResolveInv

\* An answer of GitHub with the runs S, sorted.
LEMMA AnswerInv ==
  ASSUME ResolveInv, NEW S \in SUBSET runsForBranch(exists),
         listed' = S, runs' = Sorted(S), pc' = "scan", query' \in {"head_sha", "branch"},
         UNCHANGED <<github, target, faulted, due>>,
         query' = "head_sha" => target \in Commits /\ \A r \in S : HeadSHA[r] = target,
         ~faulted /\ HeadDue # {} => query' = "head_sha" /\ HeadDue \subseteq S
  PROVE  ResolveInv'
<1>1. S \in SUBSET Runs /\ S \subseteq exists
  BY DEF ResolveInv, Types, TypeOK, runsForBranch
<1>2. Lists(runs', S)
  BY <1>1, SortedIs
<1>3. /\ runs' \in Seq(Runs) /\ S = {runs'[k] : k \in 1 .. Len(runs')}
      /\ \A j, k \in 1 .. Len(runs') : j < k => Newer(runs'[j], runs'[k])
  <2>1. runs' \in Seq(S)
    BY <1>2 DEF Lists
  <2>2. Len(runs') \in Nat /\ runs' \in [1 .. Len(runs') -> S]
    BY <2>1, LenProperties
  <2>3. runs' \in Seq(Runs)
    BY <1>1, <2>2, LenProperties
  <2> QED
    BY <1>2, <2>3 DEF Lists
<1>4. Types'
  BY <1>1, <1>3 DEF ResolveInv, Types, TypeOK, github, Commits
<1>5. Asked'
  BY DEF ResolveInv, Asked, Commits
<1>6. Listed'
  BY <1>3 DEF Listed, github, runsForBranch
<1>7. Descending'
  BY <1>3 DEF Descending, Newer
<1>8. DueLeft'
  BY <1>3 DEF DueLeft
<1>9. HeadLeft'
  BY DEF HeadLeft, HeadDue, Commits
<1> QED
  BY <1>4, <1>5, <1>6, <1>7, <1>8, <1>9 DEF ResolveInv

\* A listing that fails.
LEMMA FaultInv ==
  ASSUME ResolveInv, NEW next \in {"bybranch", "failed"}, Fault(next),
         pc \in {"byhead", "bybranch"}, query' \in {"head_sha", "branch"},
         query' = "head_sha" => target \in Commits
  PROVE  ResolveInv'
<1>1. /\ UNCHANGED <<head, exists, ready, expired, target, runs, due, listed>>
      /\ pc' = next /\ faulted' = TRUE /\ runs = <<>>
  BY DEF Fault, github, ResolveInv, Asked
<1>2. Types'
  BY <1>1 DEF ResolveInv, Types, TypeOK, Commits
<1>3. Asked' /\ Listed' /\ Descending' /\ DueLeft' /\ HeadLeft'
  BY <1>1 DEF Asked, Listed, Descending, DueLeft, HeadLeft, Commits
<1> QED
  BY <1>2, <1>3 DEF ResolveInv

LEMMA ByHeadInv ==
  ASSUME ResolveInv, ByHead
  PROVE  ResolveInv'
<1>1. pc = "byhead" /\ query' = "head_sha" /\ target \in Commits
  BY DEF ByHead, ResolveInv, Asked
<1>2. CASE Fault("bybranch")
  BY <1>1, <1>2, FaultInv
<1>3. CASE /\ listed' = runsForBranch({r \in exists : HeadSHA[r] = target})
           /\ runs' = Sorted(listed')
           /\ pc' = "scan"
           /\ UNCHANGED <<github, target, faulted, due>>
  <2> DEFINE S == runsForBranch({r \in exists : HeadSHA[r] = target})
  <2>1. S \in SUBSET runsForBranch(exists) /\ \A r \in S : HeadSHA[r] = target
    BY DEF runsForBranch
  <2>2. HeadDue \subseteq S
    BY DEF ResolveInv, Types, TypeOK, HeadDue, runsForBranch
  <2>3. /\ listed' = S /\ runs' = Sorted(S) /\ pc' = "scan"
        /\ UNCHANGED <<github, target, faulted, due>>
    BY <1>3
  <2> HIDE DEF S
  <2> QED
    BY <1>1, <2>1, <2>2, <2>3, AnswerInv
<1> QED
  BY <1>2, <1>3 DEF ByHead

LEMMA ByBranchInv ==
  ASSUME ResolveInv, ByBranch
  PROVE  ResolveInv'
<1>1. pc = "bybranch" /\ query' = "branch"
  BY DEF ByBranch
<1>2. CASE Fault("failed")
  BY <1>1, <1>2, FaultInv
<1>3. ASSUME NEW S \in SUBSET runsForBranch(exists),
             listed' = S, runs' = Sorted(listed'), pc' = "scan",
             UNCHANGED <<github, target, faulted, due>>
      PROVE  ResolveInv'
  <2>1. ~(~faulted /\ HeadDue # {})
    BY <1>1 DEF ResolveInv, HeadLeft
  <2> QED
    BY <1>1, <1>3, <2>1, AnswerInv
<1> QED
  BY <1>2, <1>3 DEF ByBranch

LEMMA ScanInv ==
  ASSUME ResolveInv, Scan
  PROVE  ResolveInv'
<1>1. /\ pc = "scan" /\ runs \in Seq(Runs) /\ runs # <<>>
      /\ UNCHANGED <<head, exists, ready, expired, target, query, faulted, listed>>
  BY DEF Scan, ResolveInv, Types, github
<1>2. CASE Usable(Head(runs)) /\ pc' = "found" /\ UNCHANGED <<runs, due>>
  <2>1. Types'
    BY <1>1, <1>2 DEF ResolveInv, Types, TypeOK, Commits, runsForBranch
  <2>2. Asked' /\ Listed' /\ Descending'
    BY <1>1, <1>2 DEF ResolveInv, Asked, Listed, Descending, Commits, Newer, runsForBranch
  <2>3. DueLeft' /\ HeadLeft'
    BY <1>1, <1>2 DEF ResolveInv, DueLeft, HeadLeft, HeadDue, Commits
  <2> QED
    BY <2>1, <2>2, <2>3 DEF ResolveInv
<1>3. CASE /\ runs' = Tail(runs) /\ pc' = pc
           /\ due' = due \ {Head(runs)} \/ (due' = due /\ ~Usable(Head(runs)))
  <2>1. /\ Len(runs) \in Nat /\ 1 \in 1 .. Len(runs) /\ Head(runs) = runs[1]
        /\ runs' \in Seq(Runs) /\ Len(runs') = Len(runs) - 1
        /\ \A k \in 1 .. Len(runs) - 1 : runs'[k] = runs[k + 1] /\ k + 1 \in 1 .. Len(runs)
    BY <1>1, <1>3, TailIs
  <2>2. Listed'
    BY <1>1, <2>1 DEF ResolveInv, Listed, runsForBranch
  <2>3. due' \subseteq due /\ Head(runs) \notin due'
    BY <1>3 DEF Usable, ResolveInv, Types, runsForBranch
  <2>4. Types'
    <3>1. due' \subseteq runsForBranch(ready)'
      BY <1>1, <2>3 DEF ResolveInv, Types, runsForBranch
    <3> QED
      BY <1>1, <1>3, <2>1, <2>2, <3>1 DEF ResolveInv, Types, TypeOK, Commits, Listed, runsForBranch
  <2>5. Asked'
    BY <1>1, <1>3 DEF ResolveInv, Asked, Commits
  <2>6. Descending'
    BY <1>1, <2>1 DEF ResolveInv, Descending, Newer
  <2>7. DueLeft'
    <3>1. ASSUME NEW r \in due' \cap listed' PROVE \E k \in 1 .. Len(runs') : r = runs'[k]
      <4>1. PICK k \in 1 .. Len(runs) : r = runs[k]
        BY <1>1, <2>3 DEF ResolveInv, DueLeft
      <4>2. k # 1
        BY <2>1, <2>3, <4>1
      <4>3. k - 1 \in 1 .. Len(runs) - 1 /\ (k - 1) + 1 = k
        BY <2>1, <4>2
      <4> QED
        BY <2>1, <4>1, <4>3
    <3>2. due' \cap listed' \subseteq {runs'[k] : k \in 1 .. Len(runs')}
      BY <3>1
    <3> QED
      BY <3>2 DEF DueLeft
  <2>8. HeadLeft'
    <3>1. HeadDue' \subseteq HeadDue
      BY <1>1, <2>3 DEF HeadDue
    <3> QED
      BY <1>1, <1>3, <3>1 DEF ResolveInv, HeadLeft, Commits
  <2> QED
    BY <2>2, <2>4, <2>5, <2>6, <2>7, <2>8 DEF ResolveInv
<1> QED
  BY <1>2, <1>3 DEF Scan

LEMMA NoneLeftInv ==
  ASSUME ResolveInv, NoneLeft
  PROVE  ResolveInv'
<1>1. /\ pc = "scan" /\ runs = <<>> /\ pc' \in {"bybranch", "failed"}
      /\ UNCHANGED <<head, exists, ready, expired, target, query, runs, faulted, due, listed>>
  BY DEF NoneLeft, github
<1>2. ~(~faulted /\ HeadDue # {})
  <2>1. {runs[k] : k \in 1 .. Len(runs)} = {}
    BY <1>1
  <2>2. HeadDue \subseteq due
    BY DEF HeadDue
  <2> QED
    BY <1>1, <2>1, <2>2 DEF ResolveInv, DueLeft, HeadLeft
<1>3. Types'
  BY <1>1 DEF ResolveInv, Types, TypeOK, Commits, runsForBranch
<1>4. Asked' /\ Listed' /\ Descending'
  BY <1>1 DEF ResolveInv, Asked, Listed, Descending, Commits, Newer, runsForBranch
<1>5. DueLeft' /\ HeadLeft'
  BY <1>1, <1>2 DEF DueLeft, HeadLeft, HeadDue
<1> QED
  BY <1>3, <1>4, <1>5 DEF ResolveInv

LEMMA ResolveNext ==
  ASSUME ResolveInv, [Next]_vars
  PROVE  ResolveInv'
<1>1. CASE UNCHANGED vars
  BY <1>1 DEF vars, ResolveInv, Types, TypeOK, Asked, Listed, Descending, DueLeft, HeadLeft,
              HeadDue, Commits, runsForBranch, Newer
<1> QED
  BY <1>1, GithubInv, BeginInv, ByHeadInv, ByBranchInv, ScanInv, NoneLeftInv DEF Next

LEMMA ResolveAlways == Spec => []ResolveInv
<1>1. ResolveInv /\ [Next]_vars => ResolveInv'
  BY ResolveNext
<1> QED
  BY <1>1, ResolveInit, PTL DEF Spec

-----------------------------------------------------------------------------
\* What GitHub has and where the client is agree: an artifact belongs to a run that
\* was started, and a found artifact to a run the client has listed.
THEOREM ResolveTyped == Spec => []TypeOK
<1>1. ResolveInv => TypeOK
  BY DEF ResolveInv, Types
<1> QED
  BY <1>1, ResolveAlways, PTL

\* Whatever is pushed, reverted and expires meanwhile: a build of the head commit that
\* had its artifact when the resolution began, still has it and could be looked at is
\* found by its commit, unless a listing fails (resolveArtifactAt, findArtifact).
THEOREM HeadBuildServed == Spec => []HeadServed
<1>1. ASSUME ResolveInv PROVE HeadServed
  <2> SUFFICES ASSUME ~faulted, HeadDue # {}
               PROVE  /\ pc = "found" => ExactHead /\ query = "head_sha"
                      /\ pc # "failed"
    BY DEF HeadServed
  <2>1. /\ target \in Commits /\ pc \in {"byhead", "scan", "found"}
        /\ pc = "found" => query = "head_sha"
    BY <1>1 DEF ResolveInv, HeadLeft
  <2>2. target # None
    BY <2>1, NoneAssumption DEF Commits
  <2>3. CASE pc = "found"
    <3>1. runs \in Seq(Runs) /\ runs # <<>>
      BY <1>1, <2>3 DEF ResolveInv, Types, TypeOK
    <3>2. Head(runs) = runs[1] /\ 1 \in 1 .. Len(runs)
      BY <3>1, TailIs
    <3> QED
      BY <1>1, <2>1, <2>2, <2>3, <3>2 DEF ResolveInv, Listed, ExactHead, Result
  <2> QED
    BY <2>1, <2>3
<1> QED
  BY <1>1, ResolveAlways, PTL

\* The artifact is of a build of the branch, and of its repository when it was found
\* by its commit: runsForBranch is applied to every answer (github.go).
THEOREM BranchRight == Spec => []RightBranch
<1>1. ASSUME ResolveInv PROVE RightBranch
  <2> SUFFICES ASSUME pc = "found"
               PROVE  /\ HeadBranch[Result] = Branch
                      /\ query = "head_sha" => HeadRepo[Result] = Repo
    BY DEF RightBranch
  <2>1. runs \in Seq(Runs) /\ runs # <<>>
    BY <1>1 DEF ResolveInv, Types, TypeOK
  <2>2. Result = runs[1] /\ 1 \in 1 .. Len(runs)
    BY <2>1, TailIs DEF Result
  <2>3. /\ Result \in Runs /\ HeadBranch[Result] = Branch
        /\ query = "head_sha" => HeadSHA[Result] = target /\ target \in Commits
    BY <1>1, <2>2 DEF ResolveInv, Types, TypeOK, Asked, Listed, runsForBranch
  <2> QED
    BY <2>3, CommitAssumption DEF Commits
<1> QED
  BY <1>1, ResolveAlways, PTL

\* In whatever order GitHub lists the runs, and whatever else expires, uploads or cannot be
\* looked at: no build that is in the answer and has had its artifact all the time is
\* passed over for an older one (listRuns, findArtifact).
THEOREM NewestFound == Spec => []NewestServed
<1>1. ASSUME ResolveInv PROVE NewestServed
  <2> SUFFICES ASSUME pc = "found", NEW r \in due \cap listed PROVE ~Newer(r, Result)
    BY DEF NewestServed
  <2>1. runs \in Seq(Runs) /\ runs # <<>>
    BY <1>1 DEF ResolveInv, Types, TypeOK
  <2>2. Result = runs[1] /\ 1 \in 1 .. Len(runs) /\ Len(runs) \in Nat
    BY <2>1, TailIs DEF Result
  <2>3. PICK k \in 1 .. Len(runs) : r = runs[k]
    BY <1>1 DEF ResolveInv, DueLeft
  <2>4. r \in Runs /\ Result \in Runs
    BY <1>1, <2>2, <2>3 DEF ResolveInv, Types, TypeOK
  <2>5. CASE k = 1
    BY <2>2, <2>3, <2>4, <2>5, NewerOrders
  <2>6. CASE k # 1
    <3>1. Newer(Result, r)
      BY <1>1, <2>2, <2>3, <2>6 DEF ResolveInv, Descending
    <3> QED
      BY <2>4, <3>1, NewerOrders
  <2> QED
    BY <2>5, <2>6
<1> QED
  BY <1>1, ResolveAlways, PTL
=============================================================================
