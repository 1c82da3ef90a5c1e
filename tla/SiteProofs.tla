----------------------------- MODULE SiteProofs -----------------------------
(***************************************************************************)
(* The promises of a site, for any number of layers, any archives and any  *)
(* clients: what cannot be fetched is refused, what vfs keeps in memory is *)
(* whole, a path is served from the first layer that has it, a listing     *)
(* names what can be opened, and a crawler is told the encoding it gets.   *)
(***************************************************************************)
EXTENDS Site, WellFoundedInduction, TLAPS

\* A client's record has its fields.
Shape(t) == t = [pc |-> t.pc, r |-> t.r, path |-> t.path, failed |-> t.failed,
                 answer |-> t.answer]
Shapes ==
  /\ cl = [c \in Clients |-> cl[c]]
  /\ \A c \in Clients : Shape(cl[c])
  /\ memory = [i \in 1 .. N |-> memory[i]]
  /\ \A i \in 1 .. N : memory[i] = [p \in Paths |-> memory[i][p]]

\* Who began the copy that has the name is still at it.
AtWork(copy, i, p) ==
  /\ copy.by \in Clients
  /\ cl[copy.by].pc = "copy"
  /\ Layer(copy.by) = i
  /\ cl[copy.by].path = p

CopiesOwned ==
  \A i \in 1 .. N, p \in Paths :
    memory[i][p] # None /\ ~memory[i][p].whole => AtWork(memory[i][p], i, p)

NothingYet ==
  phase # "running" => \A i \in 1 .. N, p \in Paths : memory[i][p] = None

MemoryInv == Shapes /\ CopiesOwned /\ NothingYet

-----------------------------------------------------------------------------
\* Whatever the scheme, type and settings, an archive that cannot be fetched to its
\* end is not opened.
LEMMA OpeningFails ==
  ASSUME NEW o, NEW w \in Worlds, w.fetch # "ok"
  PROVE  OpenFilesystem(o, w) = "fails"
<1>1. /\ w.fetch \in {"unreachable", "missing", "breaks"}
      /\ w.body = "dir" => w.fetch # "breaks"
  BY DEF Worlds
<1>2. ASSUME NEW ft, w.fetch = "breaks" PROVE FilesystemFromReader(ft, w) = "fails"
  BY <1>2 DEF FilesystemFromReader
<1>3. OpenHttp(o, w) = "fails" /\ OpenS3(o, w) = "fails" /\ OpenGcs(o, w) = "fails"
  BY <1>1, <1>2 DEF OpenHttp, OpenS3, OpenGcs
<1>4. OpenFile(o, w) = "fails"
  BY <1>1, <1>2 DEF OpenFile
<1> QED
  BY <1>3, <1>4, Zenon DEF OpenFilesystem

\* Loading goes on only while nothing has failed.
LEMMA FaultsNext ==
  ASSUME FaultsReported, [Next]_vars
  PROVE  FaultsReported'
<1>1. ASSUME NEW o \in Overlays, NEW w \in Worlds, LoadVfs(o, w) PROVE FaultsReported'
  <2>1. ~fault /\ fault' = (w.fetch # "ok")
    BY <1>1 DEF LoadVfs, Loading, FaultsReported
  <2>2. CASE w.fetch # "ok"
    BY <1>1, <2>1, <2>2, OpeningFails DEF LoadVfs, FaultsReported
  <2> QED
    BY <2>1, <2>2 DEF FaultsReported
<1>2. ASSUME NEW s \in Sites, Configure(s) PROVE FaultsReported'
  BY <1>2 DEF Configure, FaultsReported
<1>3. CASE LoadLocal \/ \E nested \in {<<>>, <<"localfs">>} : LoadMerge(nested)
  BY <1>3 DEF LoadLocal, LoadMerge, Loading, FaultsReported
<1>4. ASSUME NEW from, NEW given, Run(from, given) PROVE FaultsReported'
  BY <1>4 DEF Run, FaultsReported
<1>5. ASSUME NEW c \in Clients, Answers(c) PROVE UNCHANGED <<phase, fault>>
  BY <1>5, Zenon DEF Answers, Receive, NoService, ServiceReplies, ServiceFails, ServeFile, ServeCopy,
     BeginCopy, CreateCopy, EndCopy, CopyFails, CopyGone, Done, Answered, GoOn, configuration
<1>6. CASE UNCHANGED vars
  BY <1>6 DEF vars, FaultsReported
<1> QED
  BY <1>1, <1>2, <1>3, <1>4, <1>5, <1>6 DEF Next, Loads, FaultsReported

\* An archive that cannot be fetched, or not to its end, is refused with the whole
\* configuration, whatever the layers, roots and settings (Vfs.Provision).
THEOREM FaultsRefused == Spec => []FaultsReported
<1>1. Init => FaultsReported
  BY DEF Init, FaultsReported
<1> QED
  BY <1>1, FaultsNext, PTL DEF Spec

-----------------------------------------------------------------------------
\* One client moves.
OneMoves(c) == site' = site /\ \A d \in Clients \ {c} : cl'[d] = cl[d]

LEMMA LayerStays ==
  ASSUME NEW c, site' = site, cl'[c].path = cl[c].path, cl'[c].failed = cl[c].failed
  PROVE  Layer(c)' = Layer(c)
<1>1. Seen(c)' = Seen(c)
  BY DEF Seen, layers
<1>2. Source(c)' = Source(c)
  BY <1>1 DEF Source
<1> QED
  BY <1>2 DEF Layer

LEMMA OthersAtWork ==
  ASSUME NEW c, OneMoves(c), NEW copy, NEW i, NEW p, AtWork(copy, i, p), copy.by # c
  PROVE  AtWork(copy, i, p)'
BY LayerStays DEF AtWork, OneMoves

\* A client's EXCEPT keeps the shape of its record.
LEMMA ShapeKept ==
  ASSUME Shapes, NEW c \in Clients, NEW t, Shape(t), cl' = [cl EXCEPT ![c] = t]
  PROVE  /\ cl' = [d \in Clients |-> cl'[d]] /\ \A d \in Clients : Shape(cl'[d])
         /\ cl'[c] = t /\ \A d \in Clients \ {c} : cl'[d] = cl[d]
BY DEF Shapes

\* A step of a client that is not copying leaves the memory alone.
LEMMA PlainStep ==
  ASSUME MemoryInv, NEW c \in Clients, NEW t, Shape(t), cl' = [cl EXCEPT ![c] = t],
         cl[c].pc # "copy", UNCHANGED <<phase, site, memory>>
  PROVE  MemoryInv'
<1>1. Shapes' /\ OneMoves(c)
  BY ShapeKept DEF MemoryInv, Shapes, OneMoves
<1>2. ASSUME NEW i \in 1 .. N, NEW p \in Paths, memory[i][p] # None, ~memory[i][p].whole
      PROVE  AtWork(memory[i][p], i, p)'
  <2> DEFINE copy == memory[i][p]
  <2>1. AtWork(copy, i, p)
    BY <1>2 DEF MemoryInv, CopiesOwned
  <2>2. copy.by # c
    BY <2>1 DEF AtWork
  <2>3. memory' = memory
    OBVIOUS
  <2> QED
    BY <1>1, <2>1, <2>2, <2>3, LayerStays DEF OneMoves, AtWork
<1>3. CopiesOwned'
  BY <1>2 DEF CopiesOwned
<1>4. NothingYet'
  BY DEF MemoryInv, NothingYet
<1> QED
  BY <1>1, <1>3, <1>4 DEF MemoryInv

\* A client that begins or ends a copy changes the name in the memory: it is at
\* work on what it leaves there incomplete, or somebody else is.
LEMMA CopyingStep ==
  ASSUME MemoryInv, NEW c \in Clients, NEW t, Shape(t), cl' = [cl EXCEPT ![c] = t],
         NEW new, Keep(c, new), phase = "running", UNCHANGED <<phase, site>>,
         cl[c].pc = "copy" \/ t = [cl[c] EXCEPT !.pc = "copy"],
         \/ new = None
         \/ new.whole
         \/ new.by = c /\ t = [cl[c] EXCEPT !.pc = "copy"]
         \/ new = Copied(c) /\ new.by # c
  PROVE  MemoryInv'
<1> DEFINE l == Layer(c)
           q == cl[c].path
<1>1. OneMoves(c) /\ cl'[c] = t
  BY ShapeKept DEF MemoryInv, OneMoves
<1>2. Shape(cl[c])
  BY DEF MemoryInv, Shapes
<1>3. memory' = [memory EXCEPT ![l][q] = new]
  BY DEF Keep
<1> HIDE DEF l, q
<1>4. ASSUME NEW i \in 1 .. N, NEW p \in Paths
      PROVE  memory'[i][p] = IF i = l /\ p = q THEN new ELSE memory[i][p]
  BY <1>3 DEF MemoryInv, Shapes
<1>5. Shapes'
  <2>1. memory' = [i \in 1 .. N |-> memory'[i]]
    BY <1>3 DEF MemoryInv, Shapes
  <2>2. ASSUME NEW i \in 1 .. N PROVE memory'[i] = [p \in Paths |-> memory'[i][p]]
    <3>1. memory[i] = [p \in Paths |-> memory[i][p]]
      BY DEF MemoryInv, Shapes
    <3>2. memory'[i] = IF i = l THEN [memory[i] EXCEPT ![q] = new] ELSE memory[i]
      BY <1>3 DEF MemoryInv, Shapes
    <3> QED
      BY <3>1, <3>2
  <2>3. cl' = [d \in Clients |-> cl'[d]] /\ \A d \in Clients : Shape(cl'[d])
    BY ShapeKept DEF MemoryInv
  <2> QED
    BY <2>1, <2>2, <2>3 DEF Shapes, Shape
<1>6. ASSUME NEW i \in 1 .. N, NEW p \in Paths, memory'[i][p] # None, ~memory'[i][p].whole
      PROVE  AtWork(memory[i][p], i, p)'
  <2> DEFINE copy == memory'[i][p]
  <2>1. CASE i = l /\ p = q /\ new.by = c /\ t = [cl[c] EXCEPT !.pc = "copy"]
    <3>1. cl'[c].pc = "copy" /\ cl'[c].path = cl[c].path /\ cl'[c].failed = cl[c].failed
      BY <1>1, <1>2, <2>1 DEF Shape
    <3>2. Layer(c)' = l
      BY <1>1, <3>1, LayerStays DEF OneMoves, l
    <3>3. copy = new
      BY <1>4, <2>1
    <3> QED
      BY <2>1, <3>1, <3>2, <3>3 DEF AtWork, q
  <2>2. CASE ~(i = l /\ p = q) \/ (new = Copied(c) /\ new.by # c)
    <3>1. copy = memory[i][p]
      BY <1>4, <2>2 DEF Copied, l, q
    <3>2. AtWork(memory[i][p], i, p)
      BY <1>6, <3>1 DEF MemoryInv, CopiesOwned
    <3>3. memory[i][p].by # c
      <4>1. CASE cl[c].pc = "copy" /\ ~(i = l /\ p = q)
        BY <3>2, <4>1 DEF AtWork, l, q
      <4>2. CASE cl[c].pc # "copy"
        BY <3>2, <4>2 DEF AtWork
      <4>3. CASE i = l /\ p = q
        BY <1>4, <2>2, <3>1, <4>3
      <4> QED
        BY <4>1, <4>2, <4>3
    <3>4. PICK d \in Clients : d = memory[i][p].by /\ d # c
      BY <3>2, <3>3 DEF AtWork
    <3>5. cl'[d] = cl[d] /\ Layer(d)' = Layer(d)
      BY <1>1, <3>4, LayerStays DEF OneMoves
    <3> QED
      BY <3>1, <3>2, <3>4, <3>5 DEF AtWork
  <2>3. CASE i = l /\ p = q /\ (new = None \/ new.whole)
    BY <1>4, <1>6, <2>3
  <2> QED
    BY <2>1, <2>2, <2>3
<1>7. CopiesOwned'
  BY <1>6 DEF CopiesOwned
<1>8. NothingYet'
  BY DEF NothingYet
<1> QED
  BY <1>5, <1>7, <1>8 DEF MemoryInv

-----------------------------------------------------------------------------
LEMMA IdlePC == Shape(Idle) /\ Idle.pc = "idle"
BY Zenon DEF Shape, Idle

\* A client whose record changes in some fields.
LEMMA ShapeStep ==
  ASSUME Shapes, NEW c \in Clients
  PROVE  /\ \A x : Shape([cl[c] EXCEPT !.pc = x])
         /\ \A x, f : Shape([cl[c] EXCEPT !.pc = x, !.failed = f])
         /\ \A x, a : Shape([cl[c] EXCEPT !.pc = x, !.answer = a])
<1> DEFINE u == cl[c]
<1>1. Shape(u)
  BY DEF Shapes
<1> HIDE DEF u
<1>2. ASSUME NEW x, NEW f, NEW a
      PROVE  Shape([pc |-> x, r |-> u.r, path |-> u.path, failed |-> f, answer |-> a])
  BY DEF Shape
<1>3. ASSUME NEW x
      PROVE  [u EXCEPT !.pc = x] =
               [pc |-> x, r |-> u.r, path |-> u.path, failed |-> u.failed, answer |-> u.answer]
  BY <1>1 DEF Shape
<1>4. ASSUME NEW x PROVE Shape([u EXCEPT !.pc = x])
  BY <1>1 DEF Shape
<1>5. ASSUME NEW x, NEW f PROVE Shape([u EXCEPT !.pc = x, !.failed = f])
  <2>1. PICK v : v = [u EXCEPT !.pc = x]
    OBVIOUS
  <2>2. v = [pc |-> x, r |-> u.r, path |-> u.path, failed |-> u.failed, answer |-> u.answer]
    BY <1>3, <2>1
  <2>3. [v EXCEPT !.failed = f] = [pc |-> x, r |-> u.r, path |-> u.path, failed |-> f, answer |-> u.answer]
    BY <2>2
  <2>4. [v EXCEPT !.failed = f] = [u EXCEPT !.pc = x, !.failed = f]
    BY <2>1
  <2>5. PICK w : w = [v EXCEPT !.failed = f]
    OBVIOUS
  <2>6. Shape(w)
    BY <1>2, <2>3, <2>5
  <2> QED
    BY <2>4, <2>5, <2>6
<1>6. ASSUME NEW x, NEW a PROVE Shape([u EXCEPT !.pc = x, !.answer = a])
  <2>1. PICK v : v = [u EXCEPT !.pc = x]
    OBVIOUS
  <2>2. v = [pc |-> x, r |-> u.r, path |-> u.path, failed |-> u.failed, answer |-> u.answer]
    BY <1>3, <2>1
  <2>3. [v EXCEPT !.answer = a] = [pc |-> x, r |-> u.r, path |-> u.path, failed |-> u.failed, answer |-> a]
    BY <2>2
  <2>4. [v EXCEPT !.answer = a] = [u EXCEPT !.pc = x, !.answer = a]
    BY <2>1
  <2>5. PICK w : w = [v EXCEPT !.answer = a]
    OBVIOUS
  <2>6. Shape(w)
    BY <1>2, <2>3, <2>5
  <2> QED
    BY <2>4, <2>5, <2>6
<1> QED
  BY <1>4, <1>5, <1>6, Zenon DEF u

LEMMA ReceiveMemory ==
  ASSUME MemoryInv, NEW c \in Clients, NEW r, NEW path, Receive(c, r, path)
  PROVE  MemoryInv'
<1> DEFINE t == IF ShouldPrerender(r) THEN [Idle EXCEPT !.pc = "ask", !.r = r]
                ELSE [Idle EXCEPT !.pc = "file", !.path = path]
<1>1. Shape(t)
  BY IdlePC DEF Shape
<1>2. cl' = [cl EXCEPT ![c] = t] /\ cl[c].pc = "idle" /\ UNCHANGED <<phase, site, memory>>
  BY DEF Receive, At, configuration
<1> HIDE DEF t
<1> QED
  BY <1>1, <1>2, PlainStep

\* Every answer ends the request of a client that is not copying.
LEMMA AnswerMemory ==
  ASSUME MemoryInv, NEW c \in Clients, NEW a, Answered(c, a), cl[c].pc # "copy",
         UNCHANGED memory
  PROVE  MemoryInv'
<1> DEFINE t == [cl[c] EXCEPT !.pc = "done", !.answer = a]
<1>1. Shape(t)
  BY ShapeStep DEF MemoryInv
<1>2. cl' = [cl EXCEPT ![c] = t] /\ UNCHANGED <<phase, site>>
  BY DEF Answered, configuration
<1> HIDE DEF t
<1> QED
  BY <1>1, <1>2, PlainStep

LEMMA CopyMemory ==
  ASSUME MemoryInv, NEW c \in Clients,
         CreateCopy(c) \/ EndCopy(c) \/ CopyFails(c)
  PROVE  MemoryInv'
<1>0. phase = "running" /\ UNCHANGED <<phase, site>>
  BY DEF CreateCopy, EndCopy, CopyFails, GoOn, At, configuration
<1>1. CASE CreateCopy(c)
  <2> DEFINE t == [cl[c] EXCEPT !.pc = "copy"]
             new == [by |-> c, whole |-> FALSE]
  <2>1. Shape(t) /\ cl' = [cl EXCEPT ![c] = t] /\ Keep(c, new)
    BY <1>1, ShapeStep DEF MemoryInv, CreateCopy
  <2>2. new.by = c
    OBVIOUS
  <2> QED
    BY <1>0, <2>1, <2>2, CopyingStep
<1>2. CASE EndCopy(c)
  <2> DEFINE t == [cl[c] EXCEPT !.pc = "reopen"]
             new == IF Copied(c) # None /\ Copied(c).by = c
                    THEN [by |-> c, whole |-> TRUE] ELSE Copied(c)
  <2>1. Shape(t) /\ cl' = [cl EXCEPT ![c] = t] /\ Keep(c, new) /\ cl[c].pc = "copy"
    BY <1>2, ShapeStep DEF MemoryInv, EndCopy, At
  <2>2. new = None \/ new.whole \/ (new = Copied(c) /\ new.by # c)
    OBVIOUS
  <2> HIDE DEF t, new
  <2> QED
    BY <1>0, <2>1, <2>2, CopyingStep
<1>3. CASE CopyFails(c)
  <2> DEFINE t == [cl[c] EXCEPT !.pc = "file", !.failed = @ \cup {Layer(c)}]
  <2>1. Shape(t) /\ cl' = [cl EXCEPT ![c] = t] /\ Keep(c, None) /\ cl[c].pc = "copy"
    BY <1>3, ShapeStep DEF MemoryInv, CopyFails, GoOn, At
  <2> HIDE DEF t
  <2> QED
    BY <1>0, <2>1, CopyingStep
<1> QED
  BY <1>1, <1>2, <1>3

\* The steps of a client between its request and its copy.
LEMMA WaitMemory ==
  ASSUME MemoryInv, NEW c \in Clients, BeginCopy(c) \/ CopyGone(c) \/ Done(c)
  PROVE  MemoryInv'
<1>0. UNCHANGED <<phase, site, memory>> /\ cl[c].pc # "copy"
  BY DEF BeginCopy, CopyGone, Done, GoOn, At, configuration
<1>1. CASE BeginCopy(c)
  <2> DEFINE t == [cl[c] EXCEPT !.pc = "create"]
  <2>1. Shape(t) /\ cl' = [cl EXCEPT ![c] = t]
    BY <1>1, ShapeStep DEF MemoryInv, BeginCopy
  <2> HIDE DEF t
  <2> QED
    BY <1>0, <2>1, PlainStep
<1>2. CASE CopyGone(c)
  <2> DEFINE t == [cl[c] EXCEPT !.pc = "file", !.failed = @ \cup {Layer(c)}]
  <2>1. Shape(t) /\ cl' = [cl EXCEPT ![c] = t]
    BY <1>2, ShapeStep DEF MemoryInv, CopyGone, GoOn
  <2> HIDE DEF t
  <2> QED
    BY <1>0, <2>1, PlainStep
<1>3. CASE Done(c)
  BY <1>0, <1>3, IdlePC, PlainStep DEF Done
<1> QED
  BY <1>1, <1>2, <1>3

\* While the configuration is loaded there is nothing in memory.
LEMMA LoadsMemory ==
  ASSUME MemoryInv, Loads
  PROVE  MemoryInv'
<1>1. phase # "running" /\ UNCHANGED <<memory, cl>>
  BY DEF Loads, Configure, LoadLocal, LoadMerge, LoadVfs, Run, Loading
<1>2. \A i \in 1 .. N, p \in Paths : memory'[i][p] = None
  BY <1>1 DEF MemoryInv, NothingYet
<1> QED
  BY <1>1, <1>2 DEF MemoryInv, Shapes, Shape, CopiesOwned, NothingYet

LEMMA MemoryNext ==
  ASSUME MemoryInv, [Next]_vars
  PROVE  MemoryInv'
<1>1. ASSUME NEW c \in Clients, Answers(c) PROVE MemoryInv'
  <2>1. ASSUME NEW r \in Visitors, NEW path \in Paths, Receive(c, r, path) PROVE MemoryInv'
    BY <2>1, ReceiveMemory
  <2>2. ASSUME NoService(c) \/ ServiceFails(c) \/ (\E reply \in Replies : ServiceReplies(c, reply))
               \/ ServeFile(c) \/ ServeCopy(c)
        PROVE  MemoryInv'
    <3>1. PICK a : Answered(c, a)
      BY <2>2, Zenon DEF NoService, ServiceFails, ServiceReplies, ServeFile, ServeCopy
    <3>2. cl[c].pc \in {"ask", "file", "reopen"} /\ UNCHANGED memory
      BY <2>2, Zenon DEF NoService, ServiceFails, ServiceReplies, ServeFile, ServeCopy, At
    <3> QED
      BY <3>1, <3>2, AnswerMemory
  <2> QED
    BY <1>1, <2>1, <2>2, CopyMemory, WaitMemory DEF Answers
<1>2. CASE UNCHANGED vars
  <2>1. \A c : Layer(c)' = Layer(c)
    BY <1>2, LayerStays DEF vars
  <2> QED
    BY <1>2, <2>1 DEF vars, MemoryInv, Shapes, Shape, CopiesOwned, AtWork, NothingYet
<1> QED
  BY <1>1, <1>2, LoadsMemory DEF Next

\* What stays in the memory of a vfs layer is whole, however many readers of a file
\* overlap, replace each other's copies and fail (afero's CacheOnReadFs, provider.go:34).
THEOREM MemoryStaysWhole == Spec => []MemoryWhole
<1>1. Init => MemoryInv
  <2> SUFFICES ASSUME Init PROVE MemoryInv
    OBVIOUS
  <2>1. cl = [c \in Clients |-> Idle] /\ memory = [i \in 1 .. N |-> [p \in Paths |-> None]]
    BY DEF Init
  <2> QED
    BY <2>1, IdlePC DEF MemoryInv, Shapes, Shape, CopiesOwned, NothingYet
<1>2. MemoryInv => MemoryWhole
  BY DEF MemoryInv, CopiesOwned, AtWork, MemoryWhole
<1> QED
  BY <1>1, <1>2, MemoryNext, PTL DEF Spec

-----------------------------------------------------------------------------
(* What the recursive definitions of Mergefs compute, for any number of   *)
(* layers.                                                                 *)

\* Induction over the natural numbers, for sets.
Below == {x \in Nat \X Nat : x[1] < x[2]}

LEMMA BelowWellFounded == IsWellFoundedOn(Below, Nat)
BY NatLessThanWellFounded DEF OpToRel, Below

LEMMA Least ==
  ASSUME NEW S \in SUBSET Nat, S # {}
  PROVE  \E x \in S : \A y \in S : x <= y
<1>1. PICK x \in S : \A y \in S : ~(<<y, x>> \in Below)
  BY BelowWellFounded, WFMin
<1>2. \A y \in S : ~(y < x)
  BY <1>1 DEF Below
<1> QED
  BY <1>2

\* Induction over the layers, from the base up.
LEMMA Downwards ==
  ASSUME NEW S \in SUBSET (1 .. N), N \in S,
         \A i \in 1 .. N - 1 : i + 1 \in S => i \in S
  PROVE  S = 1 .. N
<1> DEFINE T == {k \in Nat : k <= N - 1 /\ N - k \notin S}
<1> SUFFICES ASSUME T # {} PROVE FALSE
  <2>1. ASSUME NEW i \in 1 .. N, i \notin S PROVE FALSE
    <3>1. N - i \in T /\ N - (N - i) = i
      BY <2>1, LayersAssumption
    <3> QED
      BY <3>1
  <2> QED
    BY <2>1
<1>1. T \in SUBSET Nat
  OBVIOUS
<1>2. PICK k \in T : \A j \in T : k <= j
  <2> HIDE DEF T
  <2> QED
    BY <1>1, Least
<1>3. k # 0 /\ k \in Nat /\ k <= N - 1 /\ N - k \notin S
  BY <1>2, LayersAssumption
<1>4. k - 1 \notin T /\ k - 1 \in Nat /\ N - (k - 1) = N - k + 1 /\ N - k \in 1 .. N - 1
  BY <1>2, <1>3, LayersAssumption
<1>5. N - k + 1 \in S
  BY <1>3, <1>4, LayersAssumption
<1> QED
  BY <1>3, <1>4, <1>5

\* A function defined from the base up exists.
Trees == [1 .. N -> [Paths -> Kinds]]

\* What Stat of a level makes of the layer's kind k and the level below.
Stats(f, ls, path, from) ==
  f = [i \in from .. N |-> IF i < N /\ Level(ls, i)[path] = "none" THEN f[i + 1]
                           ELSE Level(ls, i)[path]]

LEMMA StatsExist ==
  ASSUME NEW ls, NEW path
  PROVE  \E f : Stats(f, ls, path, 1)
<1> DEFINE S == {i \in 1 .. N : \E f : Stats(f, ls, path, i)}
<1>1. N \in S
  <2>1. Stats([i \in N .. N |-> Level(ls, N)[path]], ls, path, N)
    BY LayersAssumption DEF Stats
  <2> QED
    BY <2>1, LayersAssumption
<1>2. ASSUME NEW i \in 1 .. N - 1, i + 1 \in S PROVE i \in S
  <2>1. PICK f : Stats(f, ls, path, i + 1)
    BY <1>2
  <2>2. PICK g : g = [j \in i .. N |-> IF j = i THEN (IF Level(ls, i)[path] = "none" THEN f[i + 1]
                                                     ELSE Level(ls, i)[path])
                                      ELSE f[j]]
    OBVIOUS
  <2>3. ASSUME NEW j \in i .. N
        PROVE  g[j] = IF j < N /\ Level(ls, j)[path] = "none" THEN g[j + 1] ELSE Level(ls, j)[path]
    <3>1. CASE j = i
      <4>1. i + 1 \in i .. N /\ i + 1 # i /\ i < N
        BY LayersAssumption
      <4>2. g[i + 1] = f[i + 1]
        BY <2>2, <4>1
      <4> QED
        BY <2>2, <3>1, <4>1, <4>2
    <3>2. CASE j # i
      <4>1. j \in i + 1 .. N /\ g[j] = f[j]
        BY <2>2, <3>2, LayersAssumption
      <4>2. j < N => j + 1 \in i .. N /\ j + 1 # i
        BY <3>2, LayersAssumption
      <4>3. j < N => g[j + 1] = f[j + 1]
        BY <2>2, <4>2
      <4> QED
        BY <2>1, <4>1, <4>3 DEF Stats
    <3> QED
      BY <3>1, <3>2
  <2>4. Stats(g, ls, path, i)
    BY <2>2, <2>3 DEF Stats
  <2> QED
    BY <2>4, LayersAssumption
<1>3. S \in SUBSET (1 .. N)
  OBVIOUS
<1> HIDE DEF S
<1>4. S = 1 .. N
  BY <1>1, <1>2, <1>3, Downwards
<1>5. 1 \in S
  BY <1>4, LayersAssumption
<1> QED
  BY <1>5 DEF S

LEMMA StatIs ==
  ASSUME NEW ls, NEW path
  PROVE  \A i \in 1 .. N :
           Stat(ls, path)[i] = IF i < N /\ Level(ls, i)[path] = "none" THEN Stat(ls, path)[i + 1]
                               ELSE Level(ls, i)[path]
<1> DEFINE F == CHOOSE f : Stats(f, ls, path, 1)
<1>1. Stat(ls, path) = F
  BY DEF Stat, Stats
<1>2. Stats(F, ls, path, 1)
  BY StatsExist
<1> HIDE DEF F
<1> QED
  BY <1>1, <1>2 DEF Stats

Opens(f, ls, path, from) == f = [i \in from .. N |-> OpenLevel(ls, path, i, f[i + 1])]

LEMMA BaseLevel ==
  ASSUME NEW ls \in Trees, NEW path \in Paths, NEW a, NEW b
  PROVE  OpenLevel(ls, path, N, a) = OpenLevel(ls, path, N, b)
<1>1. PICK kind \in Kinds : kind = Level(ls, N)[path]
  BY LayersAssumption DEF Trees, Level
<1>2. ~BaseDir(ls, path, N)
  BY LayersAssumption DEF BaseDir
<1>3. CASE kind = "file"
  BY <1>1, <1>3 DEF OpenLevel
<1>4. CASE kind = "dir"
  BY <1>1, <1>2, <1>4 DEF OpenLevel
<1>5. CASE kind \in {"none", "denied"}
  BY <1>1, <1>5 DEF OpenLevel
<1> QED
  BY <1>1, <1>3, <1>4, <1>5 DEF Kinds

LEMMA OpensExist ==
  ASSUME NEW ls \in Trees, NEW path \in Paths
  PROVE  \E f : Opens(f, ls, path, 1)
<1> DEFINE S == {i \in 1 .. N : \E f : Opens(f, ls, path, i)}
<1>1. N \in S
  <2>1. PICK f : f = [i \in N .. N |-> OpenLevel(ls, path, N, Missing)]
    OBVIOUS
  <2>2. ASSUME NEW i \in N .. N PROVE f[i] = OpenLevel(ls, path, i, f[i + 1])
    <3>1. i = N
      BY LayersAssumption
    <3> QED
      BY <2>1, <3>1, BaseLevel
  <2>3. f = [i \in N .. N |-> OpenLevel(ls, path, i, f[i + 1])]
    BY <2>1, <2>2
  <2> QED
    BY <2>3, LayersAssumption DEF Opens
<1>2. ASSUME NEW i \in 1 .. N - 1, i + 1 \in S PROVE i \in S
  <2>1. PICK f : Opens(f, ls, path, i + 1)
    BY <1>2
  <2>2. PICK g : g = [j \in i .. N |-> IF j = i THEN OpenLevel(ls, path, i, f[i + 1]) ELSE f[j]]
    OBVIOUS
  <2>3. ASSUME NEW j \in i .. N PROVE g[j] = OpenLevel(ls, path, j, g[j + 1])
    <3>1. CASE j = i
      <4>1. i + 1 \in i .. N /\ i + 1 # i
        BY LayersAssumption
      <4> QED
        BY <2>2, <3>1, <4>1
    <3>2. CASE j # i /\ j # N
      <4>1. j \in i + 1 .. N /\ j + 1 \in i .. N /\ j + 1 # i
        BY <3>2, LayersAssumption
      <4>2. g[j] = f[j] /\ g[j + 1] = f[j + 1]
        BY <2>2, <3>2, <4>1
      <4> QED
        BY <2>1, <4>1, <4>2 DEF Opens
    <3>3. CASE j # i /\ j = N
      <4>1. j \in i + 1 .. N
        BY <3>3, LayersAssumption
      <4>2. g[j] = OpenLevel(ls, path, N, f[N + 1])
        BY <2>1, <2>2, <3>3, <4>1 DEF Opens
      <4> QED
        BY <3>3, <4>2, BaseLevel
    <3> QED
      BY <3>1, <3>2, <3>3
  <2>4. Opens(g, ls, path, i)
    BY <2>2, <2>3 DEF Opens
  <2> QED
    BY <2>4, LayersAssumption
<1>3. S \in SUBSET (1 .. N)
  OBVIOUS
<1> HIDE DEF S
<1>4. S = 1 .. N
  BY <1>1, <1>2, <1>3, Downwards
<1>5. 1 \in S
  BY <1>4, LayersAssumption
<1> QED
  BY <1>5 DEF S

LEMMA OpenIs ==
  ASSUME NEW ls \in Trees, NEW path \in Paths
  PROVE  \E f : /\ Open(ls, path) = f[1]
                /\ \A i \in 1 .. N : f[i] = OpenLevel(ls, path, i, f[i + 1])
<1> DEFINE F == CHOOSE f : Opens(f, ls, path, 1)
<1>1. Open(ls, path) = F[1]
  BY DEF Open, Opens
<1>2. Opens(F, ls, path, 1)
  BY OpensExist
<1> HIDE DEF F
<1> QED
  BY <1>1, <1>2 DEF Opens

-----------------------------------------------------------------------------
\* From level i down, h is the first that has the path, or none has.
FirstFrom(ls, path, i, h) ==
  /\ h \in i .. N
  /\ ls[h][path] # "none"
  /\ \A j \in i .. h - 1 : ls[j][path] = "none"
NoneFrom(ls, path, i) == \A j \in i .. N : ls[j][path] = "none"

LEMMA FirstHere ==
  ASSUME NEW ls, NEW path, NEW i \in 1 .. N, ls[i][path] # "none"
  PROVE  FirstFrom(ls, path, i, i)
BY LayersAssumption DEF FirstFrom

LEMMA FirstBelow ==
  ASSUME NEW ls, NEW path, NEW i \in 1 .. N - 1, ls[i][path] = "none"
  PROVE  /\ NoneFrom(ls, path, i + 1) => NoneFrom(ls, path, i)
         /\ \A h : FirstFrom(ls, path, i + 1, h) => FirstFrom(ls, path, i, h)
<1>1. ASSUME NoneFrom(ls, path, i + 1), NEW j \in i .. N PROVE ls[j][path] = "none"
  <2>1. j = i \/ j \in i + 1 .. N
    BY LayersAssumption
  <2> QED
    BY <1>1, <2>1 DEF NoneFrom
<1>2. ASSUME NEW h, FirstFrom(ls, path, i + 1, h) PROVE FirstFrom(ls, path, i, h)
  <2>1. h \in i .. N /\ ls[h][path] # "none"
    BY <1>2, LayersAssumption DEF FirstFrom
  <2>2. ASSUME NEW j \in i .. h - 1 PROVE ls[j][path] = "none"
    <3>1. j = i \/ j \in i + 1 .. h - 1
      BY <2>1, LayersAssumption
    <3> QED
      BY <1>2, <3>1 DEF FirstFrom
  <2> QED
    BY <2>1, <2>2 DEF FirstFrom
<1> QED
  BY <1>1, <1>2 DEF NoneFrom

LEMMA LevelKind ==
  ASSUME NEW ls \in Trees, NEW path \in Paths, NEW i \in 1 .. N
  PROVE  ls[i][path] \in Kinds /\ Level(ls, i)[path] = ls[i][path]
BY DEF Trees, Level

\* Stat finds the first layer that has the path.
LEMMA StatFirst ==
  ASSUME NEW ls \in Trees, NEW path \in Paths
  PROVE  \A i \in 1 .. N :
           \/ NoneFrom(ls, path, i) /\ Stat(ls, path)[i] = "none"
           \/ \E h : FirstFrom(ls, path, i, h) /\ Stat(ls, path)[i] = ls[h][path]
<1> DEFINE S == {i \in 1 .. N :
                   \/ NoneFrom(ls, path, i) /\ Stat(ls, path)[i] = "none"
                   \/ \E h : FirstFrom(ls, path, i, h) /\ Stat(ls, path)[i] = ls[h][path]}
<1>1. N \in S
  <2>1. N \in 1 .. N /\ Stat(ls, path)[N] = ls[N][path]
    BY LayersAssumption, StatIs, LevelKind
  <2>2. CASE ls[N][path] = "none"
    <3>1. NoneFrom(ls, path, N)
      BY <2>2, LayersAssumption DEF NoneFrom
    <3> QED
      BY <2>1, <2>2, <3>1
  <2>3. CASE ls[N][path] # "none"
    BY <2>1, <2>3, FirstHere
  <2> QED
    BY <2>2, <2>3
<1>2. ASSUME NEW i \in 1 .. N - 1, i + 1 \in S PROVE i \in S
  <2>1. i \in 1 .. N /\ i < N
    BY LayersAssumption
  <2>2. Stat(ls, path)[i] = IF ls[i][path] = "none" THEN Stat(ls, path)[i + 1] ELSE ls[i][path]
    BY <2>1, StatIs, LevelKind
  <2>3. CASE ls[i][path] = "none"
    BY <1>2, <2>1, <2>2, <2>3, FirstBelow
  <2>4. CASE ls[i][path] # "none"
    BY <2>1, <2>2, <2>4, FirstHere
  <2> QED
    BY <2>3, <2>4
<1>3. S \in SUBSET (1 .. N)
  OBVIOUS
<1> HIDE DEF S
<1>4. S = 1 .. N
  BY <1>1, <1>2, <1>3, Downwards
<1> QED
  BY <1>4 DEF S

\* The cases of a level.
LEMMA LevelIs ==
  ASSUME NEW ls \in Trees, NEW path \in Paths, NEW i \in 1 .. N, NEW below
  PROVE  \/ ls[i][path] = "file" /\ OpenLevel(ls, path, i, below) = Opened("file", {i})
         \/ /\ ls[i][path] = "dir" /\ i < N
            /\ OpenLevel(ls, path, i, below) = Opened("dir", {i} \cup below.from)
         \/ ls[i][path] = "dir" /\ OpenLevel(ls, path, i, below) = Opened("dir", {i})
         \/ /\ ls[i][path] \in {"none", "denied"} /\ i < N
            /\ Stat(ls, path)[i + 1] \in {"file", "dir"}
            /\ OpenLevel(ls, path, i, below) = below
         \/ /\ ls[i][path] \in {"none", "denied"}
            /\ OpenLevel(ls, path, i, below) = Failed
            /\ ls[i][path] = "none" => i < N /\ Stat(ls, path)[i + 1] = "denied"
         \/ /\ ls[i][path] = "none"
            /\ i = N \/ Stat(ls, path)[i + 1] = "none"
            /\ OpenLevel(ls, path, i, below) = Missing
<1> DEFINE k == Level(ls, i)[path]
<1>1. k \in Kinds /\ ls[i][path] = k
  BY LevelKind
<1>2. i < N => Stat(ls, path)[i + 1] \in Kinds
  <2> SUFFICES ASSUME i < N PROVE Stat(ls, path)[i + 1] \in Kinds
    OBVIOUS
  <2>1. i + 1 \in 1 .. N
    BY LayersAssumption
  <2>2. \A h : FirstFrom(ls, path, i + 1, h) => h \in 1 .. N
    BY <2>1, LayersAssumption DEF FirstFrom
  <2>3. CASE Stat(ls, path)[i + 1] = "none"
    BY <2>3 DEF Kinds
  <2> QED
    BY <2>1, <2>2, <2>3, StatFirst, LevelKind
<1>3. CASE k = "file"
  BY <1>1, <1>3 DEF OpenLevel
<1>4. CASE k = "dir"
  BY <1>1, <1>4 DEF OpenLevel, BaseDir
<1>5. CASE k \in {"none", "denied"} /\ i = N
  BY <1>1, <1>5 DEF OpenLevel
<1>6. CASE k \in {"none", "denied"} /\ i # N
  <2>1. i < N
    BY <1>6, LayersAssumption
  <2>2. OpenLevel(ls, path, i, below) =
          CASE Stat(ls, path)[i + 1] \in {"file", "dir"} -> below
            [] Stat(ls, path)[i + 1] = "denied" -> Failed
            [] Stat(ls, path)[i + 1] = "none" -> IF k = "denied" THEN Failed ELSE Missing
    BY <1>6, <2>1 DEF OpenLevel
  <2>3. Stat(ls, path)[i + 1] \in {"none", "file", "dir", "denied"}
    BY <1>2, <2>1 DEF Kinds
  <2> QED
    BY <1>1, <1>6, <2>1, <2>2, <2>3
<1> QED
  BY <1>1, <1>3, <1>4, <1>5, <1>6 DEF Kinds

-----------------------------------------------------------------------------
OpensAs(f, ls, path) == \A i \in 1 .. N : f[i] = OpenLevel(ls, path, i, f[i + 1])

\* Of a path that every layer can tell of, Open finds the first layer that has it.
LEMMA OpenFirst ==
  ASSUME NEW ls \in Trees, NEW path \in Paths, \A i \in 1 .. N : ls[i][path] # "denied"
  PROVE  \/ NoneFrom(ls, path, 1) /\ Open(ls, path).kind = "none"
         \/ \E h : /\ FirstFrom(ls, path, 1, h)
                   /\ Open(ls, path).kind = ls[h][path]
                   /\ h \in Open(ls, path).from
                   /\ ls[h][path] = "file" => Open(ls, path).from = {h}
<1>1. PICK f : Open(ls, path) = f[1] /\ OpensAs(f, ls, path)
  BY OpenIs DEF OpensAs
<1> DEFINE Found(i, h) == /\ FirstFrom(ls, path, i, h)
                          /\ f[i].kind = ls[h][path]
                          /\ h \in f[i].from
                          /\ ls[h][path] = "file" => f[i].from = {h}
           S == {i \in 1 .. N : \/ NoneFrom(ls, path, i) /\ f[i].kind = "none"
                                \/ \E h : Found(i, h)}
<1>2. ASSUME NEW i \in 1 .. N, i < N => i + 1 \in S PROVE i \in S
  <2>1. CASE ls[i][path] = "file" /\ f[i] = Opened("file", {i})
    <3>1. Found(i, i)
      BY <2>1, FirstHere DEF Opened
    <3> QED
      BY <3>1
  <2>2. CASE ls[i][path] = "dir" /\ (f[i] = Opened("dir", {i}) \/ f[i] = Opened("dir", {i} \cup f[i + 1].from))
    <3>1. Found(i, i)
      BY <2>2, FirstHere DEF Opened
    <3> QED
      BY <3>1
  <2>3. CASE /\ ls[i][path] = "none" /\ i < N
             /\ Stat(ls, path)[i + 1] \in {"file", "dir"}
             /\ f[i] = f[i + 1]
    <3>1. i \in 1 .. N - 1 /\ i + 1 \in 1 .. N
      BY <2>3, LayersAssumption
    <3>2. PICK h : FirstFrom(ls, path, i + 1, h)
      BY <2>3, <3>1, StatFirst
    <3>3. ~NoneFrom(ls, path, i + 1)
      BY <3>2 DEF NoneFrom, FirstFrom
    <3>4. PICK g : Found(i + 1, g)
      BY <1>2, <2>3, <3>3
    <3>5. Found(i, g)
      BY <2>3, <3>1, <3>4, FirstBelow
    <3> QED
      BY <3>5
  <2>4. CASE /\ ls[i][path] = "none"
             /\ i = N \/ Stat(ls, path)[i + 1] = "none"
             /\ f[i] = Missing
    <3>1. NoneFrom(ls, path, i)
      <4>1. CASE i = N
        BY <2>4, <4>1, LayersAssumption DEF NoneFrom
      <4>2. CASE i # N
        <5>1. i \in 1 .. N - 1 /\ i + 1 \in 1 .. N
          BY <4>2, LayersAssumption
        <5>2. \A h : FirstFrom(ls, path, i + 1, h) => ls[h][path] # "none"
          BY DEF FirstFrom
        <5>3. NoneFrom(ls, path, i + 1)
          BY <2>4, <4>2, <5>1, <5>2, StatFirst
        <5> QED
          BY <2>4, <5>1, <5>3, FirstBelow
      <4> QED
        BY <4>1, <4>2
    <3> QED
      BY <2>4, <3>1 DEF Missing
  <2>5. ~(i < N /\ Stat(ls, path)[i + 1] = "denied")
    <3> SUFFICES ASSUME i < N, Stat(ls, path)[i + 1] = "denied" PROVE FALSE
      OBVIOUS
    <3>1. i + 1 \in 1 .. N
      BY LayersAssumption
    <3>2. PICK h : FirstFrom(ls, path, i + 1, h) /\ Stat(ls, path)[i + 1] = ls[h][path]
      BY <3>1, StatFirst
    <3>3. h \in 1 .. N
      BY <3>1, <3>2 DEF FirstFrom
    <3> QED
      BY <3>2, <3>3
  <2>6. f[i] = OpenLevel(ls, path, i, f[i + 1])
    BY <1>1 DEF OpensAs
  <2> HIDE DEF S
  <2>7. \/ ls[i][path] = "file" /\ f[i] = Opened("file", {i})
        \/ /\ ls[i][path] = "dir"
           /\ f[i] = Opened("dir", {i}) \/ f[i] = Opened("dir", {i} \cup f[i + 1].from)
        \/ /\ ls[i][path] \in {"none", "denied"} /\ i < N
           /\ Stat(ls, path)[i + 1] \in {"file", "dir"}
           /\ f[i] = f[i + 1]
        \/ /\ ls[i][path] = "none"
           /\ i < N /\ Stat(ls, path)[i + 1] = "denied"
        \/ ls[i][path] = "denied"
        \/ /\ ls[i][path] = "none"
           /\ i = N \/ Stat(ls, path)[i + 1] = "none"
           /\ f[i] = Missing
    <3>1. PICK v, below : below = f[i + 1] /\ v = OpenLevel(ls, path, i, below)
      OBVIOUS
    <3>2. v = f[i]
      BY <2>6, <3>1
    <3>3. \/ ls[i][path] = "file" /\ v = Opened("file", {i})
          \/ ls[i][path] = "dir" /\ (v = Opened("dir", {i}) \/ v = Opened("dir", {i} \cup below.from))
          \/ /\ ls[i][path] \in {"none", "denied"} /\ i < N
             /\ Stat(ls, path)[i + 1] \in {"file", "dir"}
             /\ v = below
          \/ /\ ls[i][path] = "none"
             /\ i < N /\ Stat(ls, path)[i + 1] = "denied"
          \/ ls[i][path] = "denied"
          \/ /\ ls[i][path] = "none"
             /\ i = N \/ Stat(ls, path)[i + 1] = "none"
             /\ v = Missing
      BY <3>1, LevelIs
    <3> QED
      BY <3>1, <3>2, <3>3
  <2> QED
    BY <2>1, <2>2, <2>3, <2>4, <2>5, <2>7
<1>3. S \in SUBSET (1 .. N)
  OBVIOUS
<1> HIDE DEF S
<1>4. N \in S
  BY <1>2, LayersAssumption
<1>5. \A i \in 1 .. N - 1 : i + 1 \in S => i \in S
  BY <1>2, LayersAssumption
<1>6. 1 \in S
  <2>1. S = 1 .. N
    BY <1>3, <1>4, <1>5, Downwards
  <2> QED
    BY <2>1, LayersAssumption
<1> QED
  BY <1>1, <1>6 DEF S

\* A file is opened from one layer, and nothing is opened from elsewhere.
LEMMA OpenFrom ==
  ASSUME NEW ls \in Trees, NEW path \in Paths
  PROVE  /\ Open(ls, path).from \subseteq 1 .. N
         /\ Open(ls, path).kind = "file" => \E h \in 1 .. N : Open(ls, path).from = {h}
<1>1. PICK f : Open(ls, path) = f[1] /\ OpensAs(f, ls, path)
  BY OpenIs DEF OpensAs
<1> DEFINE Good(o) == /\ o.from \subseteq 1 .. N
                      /\ o.kind = "file" => \E h \in 1 .. N : o.from = {h}
           S == {i \in 1 .. N : Good(f[i])}
<1>2. ASSUME NEW i \in 1 .. N, i < N => i + 1 \in S PROVE i \in S
  <2>1. f[i] = OpenLevel(ls, path, i, f[i + 1])
    BY <1>1 DEF OpensAs
  <2>2. \/ f[i] = Opened("file", {i}) \/ f[i] = Opened("dir", {i})
        \/ i < N /\ f[i] = Opened("dir", {i} \cup f[i + 1].from)
        \/ i < N /\ f[i] = f[i + 1]
        \/ f[i] = Failed \/ f[i] = Missing
    BY <2>1, LevelIs
  <2> QED
    BY <1>2, <2>2 DEF Opened, Failed, Missing
<1>3. S \in SUBSET (1 .. N)
  OBVIOUS
<1> HIDE DEF S
<1>4. N \in S
  BY <1>2, LayersAssumption
<1>5. \A i \in 1 .. N - 1 : i + 1 \in S => i \in S
  BY <1>2, LayersAssumption
<1>6. 1 \in S
  <2>1. S = 1 .. N
    BY <1>3, <1>4, <1>5, Downwards
  <2> QED
    BY <2>1, LayersAssumption
<1> QED
  BY <1>1, <1>6 DEF S

\* A directory that unites layer i unites every directory above it.
LEMMA OpenUnites ==
  ASSUME NEW ls \in Trees, NEW path \in Paths, NEW i \in Open(ls, path).from, ls[i][path] = "dir",
         NEW h \in 1 .. i, ls[h][path] = "dir"
  PROVE  h \in Open(ls, path).from
<1>1. PICK f : Open(ls, path) = f[1] /\ OpensAs(f, ls, path)
  BY OpenIs DEF OpensAs
<1>2. i \in 1 .. N /\ h \in 1 .. N
  BY OpenFrom, LayersAssumption
<1> DEFINE S == {k \in 1 .. N : k <= h /\ i \in f[k].from => h \in f[k].from}
<1>3. ASSUME NEW k \in 1 .. N, k < N => k + 1 \in S PROVE k \in S
  <2> SUFFICES ASSUME k <= h, i \in f[k].from PROVE h \in f[k].from
    OBVIOUS
  <2>1. f[k] = OpenLevel(ls, path, k, f[k + 1])
    BY <1>1 DEF OpensAs
  <2>2. CASE ls[k][path] = "file" /\ f[k] = Opened("file", {k})
    BY <2>2 DEF Opened
  <2>3. CASE f[k] = Opened("dir", {k})
    <3>1. i = k
      BY <2>3 DEF Opened
    <3>2. h = k
      BY <1>2, <3>1
    <3> QED
      BY <2>3, <3>2 DEF Opened
  <2>4. CASE k < N /\ f[k] = Opened("dir", {k} \cup f[k + 1].from)
    <3>1. CASE h = k
      BY <2>4, <3>1 DEF Opened
    <3>2. CASE h # k
      <4>1. k + 1 <= h /\ k + 1 \in S
        BY <1>2, <1>3, <2>4, <3>2
      <4>2. i \in f[k + 1].from
        <5>1. i # k
          BY <1>2, <3>2
        <5> QED
          BY <2>4, <5>1 DEF Opened
      <4> QED
        BY <2>4, <4>1, <4>2 DEF Opened
    <3> QED
      BY <3>1, <3>2
  <2>5. CASE ls[k][path] \in {"none", "denied"} /\ k < N /\ f[k] = f[k + 1]
    <3>1. h # k
      BY <2>5
    <3>2. k + 1 <= h /\ k + 1 \in S
      BY <1>2, <1>3, <2>5, <3>1
    <3> QED
      BY <2>5, <3>2
  <2>6. CASE f[k] = Failed \/ f[k] = Missing
    BY <2>6 DEF Failed, Missing
  <2> HIDE DEF S
  <2>7. \/ ls[k][path] = "file" /\ f[k] = Opened("file", {k})
        \/ k < N /\ f[k] = Opened("dir", {k} \cup f[k + 1].from)
        \/ f[k] = Opened("dir", {k})
        \/ ls[k][path] \in {"none", "denied"} /\ k < N /\ f[k] = f[k + 1]
        \/ f[k] = Failed \/ f[k] = Missing
    <3>1. PICK v, below : below = f[k + 1] /\ v = OpenLevel(ls, path, k, below)
      OBVIOUS
    <3>2. v = f[k]
      BY <2>1, <3>1
    <3>3. \/ ls[k][path] = "file" /\ v = Opened("file", {k})
          \/ k < N /\ v = Opened("dir", {k} \cup below.from)
          \/ v = Opened("dir", {k})
          \/ ls[k][path] \in {"none", "denied"} /\ k < N /\ v = below
          \/ v = Failed \/ v = Missing
      BY <3>1, LevelIs
    <3> QED
      BY <3>1, <3>2, <3>3
  <2> QED
    BY <2>2, <2>3, <2>4, <2>5, <2>6, <2>7
<1>4. S \in SUBSET (1 .. N)
  OBVIOUS
<1> HIDE DEF S
<1>5. N \in S
  BY <1>3, LayersAssumption
<1>6. \A k \in 1 .. N - 1 : k + 1 \in S => k \in S
  BY <1>3, LayersAssumption
<1>7. 1 \in S
  <2>1. S = 1 .. N
    BY <1>4, <1>5, <1>6, Downwards
  <2> QED
    BY <2>1, LayersAssumption
<1> QED
  BY <1>1, <1>2, <1>7 DEF S

\* What a listing names, layer by layer: the first layer that has the entry is one of
\* the united directories.
LEMMA ListedFirst ==
  ASSUME NEW ls \in Trees, \A i \in 1 .. N : Consistent(ls[i]), NEW dir \in Paths,
         NEW p \in Listing(ls, dir), \A i \in 1 .. N : ls[i][p] # "denied"
  PROVE  Open(ls, p).kind = ListedKind(ls, dir, p)
<1> DEFINE holders == {i \in Open(ls, dir).from : Level(ls, i)[p] # "none"}
<1>1. p \in Paths /\ p # dir /\ Parent[p] = dir /\ holders # {}
  BY DEF Listing
<1>2. holders \subseteq 1 .. N /\ \A i \in holders : i \in Open(ls, dir).from /\ ls[i][p] # "none"
  BY <1>1, OpenFrom, LevelKind
<1>3. ASSUME NEW i \in 1 .. N, ls[i][p] # "none" PROVE ls[i][dir] = "dir"
  BY <1>1, <1>3, LevelKind DEF Consistent, Kinds
<1>4. ~NoneFrom(ls, p, 1)
  BY <1>1, <1>2 DEF NoneFrom
<1>5. PICK h : FirstFrom(ls, p, 1, h) /\ Open(ls, p).kind = ls[h][p]
  BY <1>1, <1>4, OpenFirst
<1>6. h \in 1 .. N /\ ls[h][p] # "none" /\ \A j \in 1 .. h - 1 : ls[j][p] = "none"
  BY <1>5 DEF FirstFrom
<1>7. \A i \in holders : h <= i
  BY <1>2, <1>6
<1>8. h \in holders
  <2>1. PICK i \in holders : TRUE
    BY <1>1
  <2>2. i \in 1 .. N /\ i \in Open(ls, dir).from /\ ls[i][dir] = "dir" /\ ls[h][dir] = "dir" /\ h \in 1 .. i
    BY <1>2, <1>3, <1>6, <1>7, <2>1
  <2>3. h \in Open(ls, dir).from
    BY <1>1, <2>2, OpenUnites
  <2> QED
    BY <1>1, <1>6, <2>3, LevelKind
<1>9. ListedKind(ls, dir, p) = Level(ls, CHOOSE i \in holders : \A j \in holders : i <= j)[p]
  BY DEF ListedKind
<1> HIDE DEF holders
<1>10. (CHOOSE i \in holders : \A j \in holders : i <= j) = h
  <2>1. PICK m : m = CHOOSE i \in holders : \A j \in holders : i <= j
    OBVIOUS
  <2>2. m \in holders /\ \A j \in holders : m <= j
    BY <1>7, <1>8, <2>1
  <2> QED
    BY <1>2, <1>7, <1>8, <2>1, <2>2
<1> QED
  BY <1>1, <1>5, <1>6, <1>9, <1>10, LevelKind

-----------------------------------------------------------------------------
(* What is served.                                                         *)

\* What runs has been configured.
Configured == phase \in {"load", "running"} => site \in Sites \ {<<>>}

\* An answer of the prerender middleware to the request r, in the encoding it names.
Honest(r, a) ==
  /\ "gzip" \in a.label => r.gzip
  /\ a.came \in AskedFor => a.label = a.coded

\* What a client has been answered is what its path led to; the layers do not change.
AnswerGood(c) ==
  /\ cl[c].pc # "done" => By(c, "nobody")
  /\ By(c, "files") \/ cl[c].pc \in {"file", "create", "copy", "reopen"} => cl[c].path \in Paths
  /\ By(c, "files") =>
       /\ phase = "running"
       /\ cl[c].answer.kind = Source(c).kind
       /\ cl[c].answer.from = Source(c).from
  /\ By(c, "prerender") => Honest(cl[c].r, cl[c].answer)

AnswersInv == Configured /\ \A c \in Clients : AnswerGood(c)

LEMMA LayersAre ==
  ASSUME Configured, phase = "running"
  PROVE  layers \in Trees /\ \A i \in 1 .. N : Consistent(layers[i])
<1>1. site \in Sites \ {<<>>}
  BY DEF Configured
<1>2. \A i \in 1 .. N : site[i].tree \in [Paths -> Kinds] /\ Consistent(site[i].tree)
  BY <1>1, SiteAssumption
<1> QED
  BY <1>2 DEF layers, Trees

LEMMA SeenIs ==
  ASSUME Configured, phase = "running", NEW c
  PROVE  Seen(c) \in Trees /\ (cl[c].failed = {} => Seen(c) = layers)
<1>1. layers \in Trees
  BY LayersAre
<1>2. ASSUME NEW i \in 1 .. N PROVE [layers[i] EXCEPT ![cl[c].path] = "denied"] \in [Paths -> Kinds]
  BY <1>1 DEF Trees, Kinds
<1>3. Seen(c) \in Trees
  BY <1>1, <1>2 DEF Seen, Trees
<1>4. layers = [i \in 1 .. N |-> layers[i]]
  BY DEF layers
<1>5. cl[c].failed = {} => Seen(c) = [i \in 1 .. N |-> layers[i]]
  BY DEF Seen
<1> QED
  BY <1>3, <1>4, <1>5

LEMMA SourceStays ==
  ASSUME NEW c, site' = site, cl'[c].path = cl[c].path, cl'[c].failed = cl[c].failed
  PROVE  Source(c)' = Source(c)
<1>1. Seen(c)' = Seen(c)
  BY DEF Seen, layers
<1> QED
  BY <1>1 DEF Source

LEMMA OtherAnswers ==
  ASSUME NEW c, AnswerGood(c), cl'[c] = cl[c], UNCHANGED <<phase, site>>
  PROVE  AnswerGood(c)'
BY SourceStays DEF AnswerGood, By

\* A client whose step gives it no answer.
LEMMA UnansweredStep ==
  ASSUME Shapes, AnswersInv, NEW c \in Clients, NEW t, cl' = [cl EXCEPT ![c] = t],
         UNCHANGED <<phase, site>>,
         t.answer.by = "nobody",
         t.pc \in {"file", "create", "copy", "reopen"} => t.path \in Paths
  PROVE  AnswersInv'
<1>1. cl'[c] = t /\ \A d \in Clients \ {c} : cl'[d] = cl[d]
  BY DEF Shapes
<1>2. AnswerGood(c)'
  BY <1>1 DEF AnswerGood, By
<1>3. \A d \in Clients \ {c} : AnswerGood(d)'
  BY <1>1, OtherAnswers DEF AnswersInv
<1> QED
  BY <1>2, <1>3 DEF AnswersInv, Configured

LEMMA FieldsAre ==
  ASSUME NEW u, Shape(u), NEW x
  PROVE  /\ [u EXCEPT !.pc = x].pc = x
         /\ [u EXCEPT !.pc = x].path = u.path
         /\ [u EXCEPT !.pc = x].answer = u.answer
         /\ \A f : LET t == [u EXCEPT !.pc = x, !.failed = f]
                   IN  t.pc = x /\ t.path = u.path /\ t.answer = u.answer
         /\ \A a : LET t == [u EXCEPT !.pc = x, !.answer = a]
                   IN  /\ t.pc = x /\ t.path = u.path /\ t.answer = a /\ t.failed = u.failed
                       /\ t.r = u.r
<1>1. PICK v : v = [u EXCEPT !.pc = x]
  OBVIOUS
<1>2. v = [pc |-> x, r |-> u.r, path |-> u.path, failed |-> u.failed, answer |-> u.answer]
  BY <1>1 DEF Shape
<1>3. ASSUME NEW f
      PROVE  [v EXCEPT !.failed = f] =
               [pc |-> x, r |-> u.r, path |-> u.path, failed |-> f, answer |-> u.answer]
  BY <1>2
<1>4. ASSUME NEW a
      PROVE  [v EXCEPT !.answer = a] =
               [pc |-> x, r |-> u.r, path |-> u.path, failed |-> u.failed, answer |-> a]
  BY <1>2
<1>5. \A f : LET t == [v EXCEPT !.failed = f]
             IN  t.pc = x /\ t.path = u.path /\ t.answer = u.answer
  BY <1>3
<1>6. \A a : LET t == [v EXCEPT !.answer = a]
             IN  /\ t.pc = x /\ t.path = u.path /\ t.answer = a /\ t.failed = u.failed
                 /\ t.r = u.r
  BY <1>4
<1>7. \A f : [u EXCEPT !.pc = x, !.failed = f] = [v EXCEPT !.failed = f]
  BY <1>1
<1>8. \A a : [u EXCEPT !.pc = x, !.answer = a] = [v EXCEPT !.answer = a]
  BY <1>1
<1> QED
  BY <1>1, <1>2, <1>5, <1>6, <1>7, <1>8

\* A client's answer is good if what is answered is.
LEMMA AnswerStep ==
  ASSUME Shapes, AnswersInv, NEW c \in Clients, NEW a, Answered(c, a),
         a.by = "files" => /\ phase = "running" /\ cl[c].path \in Paths
                           /\ a.kind = Source(c).kind /\ a.from = Source(c).from,
         a.by = "prerender" => Honest(cl[c].r, a)
  PROVE  AnswersInv'
<1>1. PICK t : t = [cl[c] EXCEPT !.pc = "done", !.answer = a]
  OBVIOUS
<1>2. t.pc = "done" /\ t.path = cl[c].path /\ t.answer = a /\ t.failed = cl[c].failed
      /\ t.r = cl[c].r
  BY <1>1, FieldsAre DEF Shapes
<1>3. cl' = [cl EXCEPT ![c] = t] /\ UNCHANGED <<phase, site>>
  BY <1>1 DEF Answered, configuration
<1>4. cl'[c] = t /\ \A d \in Clients \ {c} : cl'[d] = cl[d]
  BY <1>3 DEF Shapes
<1>5. Source(c)' = Source(c)
  BY <1>2, <1>3, <1>4, SourceStays
<1>6. AnswerGood(c)'
  BY <1>2, <1>3, <1>4, <1>5 DEF AnswerGood, By
<1>7. \A d \in Clients \ {c} : AnswerGood(d)'
  BY <1>3, <1>4, OtherAnswers DEF AnswersInv
<1> QED
  BY <1>3, <1>6, <1>7 DEF AnswersInv, Configured

\* What the service sends is encoded as the answer says, if it is gzip or nothing.
LEMMA EncodedIs ==
  ASSUME NEW r, NEW reply
  PROVE  LET e == Encoded(r, reply)
         IN  /\ "gzip" \in e.label => r.gzip
             /\ reply.encoding \in AskedFor => e.label = e.coded
<1> DEFINE e == reply.encoding
<1>1. CASE r.gzip /\ "gzip" \notin e
  <2>1. Encoded(r, reply) = [label |-> {"gzip"}, coded |-> e \cup {"gzip"}]
    BY <1>1, Zenon DEF Encoded
  <2> QED
    BY <1>1, <2>1 DEF AskedFor
<1>2. CASE ~r.gzip /\ "gzip" \in e
  <2>1. Encoded(r, reply) = [label |-> {}, coded |-> e \ {"gzip"}]
    BY <1>2, Zenon DEF Encoded
  <2> QED
    BY <1>2, <2>1 DEF AskedFor
<1>3. CASE (r.gzip /\ "gzip" \in e) \/ (~r.gzip /\ "gzip" \notin e)
  <2>1. Encoded(r, reply) = [label |-> e, coded |-> e]
    BY <1>3, Zenon DEF Encoded
  <2> QED
    BY <1>3, <2>1
<1> QED
  BY <1>1, <1>2, <1>3

LEMMA IdleIs == Idle.answer.by = "nobody"
BY Zenon DEF Idle, NoAnswer

LEMMA ReceiveAnswers ==
  ASSUME Shapes, AnswersInv, NEW c \in Clients, NEW r, NEW path \in Paths, Receive(c, r, path)
  PROVE  AnswersInv'
<1>1. PICK u : u = Idle
  OBVIOUS
<1>2. Shape(u) /\ u.answer.by = "nobody"
  BY <1>1, IdlePC, IdleIs
<1>3. PICK t : t = IF ShouldPrerender(r) THEN [u EXCEPT !.pc = "ask", !.r = r]
                   ELSE [u EXCEPT !.pc = "file", !.path = path]
  OBVIOUS
<1>4. u = [pc |-> u.pc, r |-> u.r, path |-> u.path, failed |-> u.failed, answer |-> u.answer]
  BY <1>2 DEF Shape
<1>5. t.answer = u.answer /\ (t.pc = "ask" \/ (t.pc = "file" /\ t.path = path))
  <2>1. CASE ShouldPrerender(r)
    BY <1>3, <1>4, <2>1
  <2>2. CASE ~ShouldPrerender(r)
    BY <1>3, <1>4, <2>2
  <2> QED
    BY <2>1, <2>2
<1>6. cl' = [cl EXCEPT ![c] = t] /\ UNCHANGED <<phase, site>>
  BY <1>1, <1>3 DEF Receive, configuration
<1> QED
  BY <1>2, <1>5, <1>6, UnansweredStep

\* What PreRenderHandler and the file server answer.
LEMMA RepliesAre ==
  ASSUME NEW r, NEW reply
  PROVE  \A a \in {PreRenderHandler(r, reply), Nothing(r)} :
           a.by = "prerender" /\ Honest(r, a)
<1>1. PICK e : e = Encoded(r, reply)
  OBVIOUS
<1>2. /\ "gzip" \in e.label => r.gzip
      /\ reply.encoding \in AskedFor => e.label = e.coded
  BY <1>1, EncodedIs
<1>3. PICK a : a = PreRenderHandler(r, reply)
  OBVIOUS
<1>4. a.by = "prerender" /\ a.came = reply.encoding /\ a.label = e.label /\ a.coded = e.coded
  BY <1>1, <1>3 DEF PreRenderHandler
<1>5. PICK b : b = Nothing(r)
  OBVIOUS
<1>6. b.by = "prerender" /\ b.label = {} /\ b.coded = {}
  BY <1>5, Zenon DEF Nothing
<1> QED
  BY <1>2, <1>3, <1>4, <1>5, <1>6 DEF Honest

LEMMA ServiceAnswers ==
  ASSUME Shapes, AnswersInv, NEW c \in Clients,
         NoService(c) \/ ServiceFails(c) \/ \E reply \in Replies : ServiceReplies(c, reply)
  PROVE  AnswersInv'
<1>1. CASE NoService(c)
  <2>1. PICK a : Answered(c, a) /\ a.by = "panic"
    BY <1>1 DEF NoService
  <2> QED
    BY <2>1, AnswerStep
<1>2. CASE ServiceFails(c) \/ \E reply \in Replies : ServiceReplies(c, reply)
  <2>1. PICK a, reply : Answered(c, a) /\ a \in {PreRenderHandler(cl[c].r, reply), Nothing(cl[c].r)}
    BY <1>2, Zenon DEF ServiceFails, ServiceReplies
  <2>2. a.by = "prerender" /\ Honest(cl[c].r, a)
    BY <2>1, RepliesAre
  <2> QED
    BY <2>1, <2>2, AnswerStep
<1> QED
  BY <1>1, <1>2

LEMMA FilesAnswers ==
  ASSUME Shapes, AnswersInv, NEW c \in Clients, ServeFile(c) \/ ServeCopy(c)
  PROVE  AnswersInv'
<1>1. phase = "running" /\ cl[c].pc \in {"file", "reopen"}
  BY DEF ServeFile, ServeCopy, At
<1>2. cl[c].path \in Paths /\ Configured
  BY <1>1 DEF AnswersInv, AnswerGood
<1>3. CASE ServeFile(c)
  <2>1. PICK a : Answered(c, a) /\ a = File(Source(c).kind, Source(c).from, TRUE)
    BY <1>3 DEF ServeFile
  <2>2. a.kind = Source(c).kind /\ a.from = Source(c).from /\ a.by = "files"
    BY <2>1 DEF File
  <2> QED
    BY <1>1, <1>2, <2>1, <2>2, AnswerStep
<1>4. CASE ServeCopy(c)
  <2>1. PICK a : Answered(c, a) /\ a = File("file", {Layer(c)}, Copied(c).whole)
    BY <1>4 DEF ServeCopy
  <2>2. Source(c).kind = "file"
    BY <1>4 DEF ServeCopy, FromVfs
  <2>3. PICK h : Source(c).from = {h}
    <3>1. PICK ls : ls = Seen(c)
      OBVIOUS
    <3>2. ls \in Trees
      BY <1>1, <1>2, <3>1, SeenIs
    <3>3. Source(c) = Open(ls, cl[c].path)
      BY <3>1 DEF Source
    <3>4. PICK o : o = Open(ls, cl[c].path)
      OBVIOUS
    <3>5. o.kind = "file" => \E h \in 1 .. N : o.from = {h}
      BY <1>2, <3>2, <3>4, OpenFrom
    <3>6. PICK s : s = Source(c)
      OBVIOUS
    <3>7. s.kind = "file" /\ s = o
      BY <2>2, <3>3, <3>4, <3>6
    <3>8. \E h : s.from = {h}
      BY <3>5, <3>7
    <3> QED
      BY <3>6, <3>8
  <2>4. Layer(c) = h
    BY <2>3 DEF Layer
  <2>5. a.kind = Source(c).kind /\ a.from = Source(c).from /\ a.by = "files"
    BY <2>1, <2>2, <2>3, <2>4 DEF File
  <2> QED
    BY <1>1, <1>2, <2>1, <2>5, AnswerStep
<1> QED
  BY <1>3, <1>4

LEMMA CopyAnswers ==
  ASSUME Shapes, AnswersInv, NEW c \in Clients,
         BeginCopy(c) \/ CreateCopy(c) \/ EndCopy(c) \/ CopyFails(c) \/ CopyGone(c)
  PROVE  AnswersInv'
<1>1. cl[c].pc \in {"file", "create", "copy", "reopen"} /\ UNCHANGED <<phase, site>>
  BY Zenon DEF BeginCopy, CreateCopy, EndCopy, CopyFails, CopyGone, GoOn, At, configuration
<1>2. cl[c].path \in Paths /\ cl[c].answer.by = "nobody" /\ Shape(cl[c])
  BY <1>1 DEF AnswersInv, AnswerGood, By, Shapes
<1>3. PICK x, t : /\ cl' = [cl EXCEPT ![c] = t]
                  /\ t = [cl[c] EXCEPT !.pc = x] \/ \E f : t = [cl[c] EXCEPT !.pc = x, !.failed = f]
  <2>1. ASSUME NEW x, cl' = [cl EXCEPT ![c].pc = x] PROVE cl' = [cl EXCEPT ![c] = [cl[c] EXCEPT !.pc = x]]
    BY <2>1
  <2>2. CASE BeginCopy(c)
    BY <2>2 DEF BeginCopy
  <2>3. CASE CreateCopy(c)
    BY <2>3 DEF CreateCopy
  <2>4. CASE EndCopy(c)
    BY <2>4 DEF EndCopy
  <2>5. CASE CopyFails(c) \/ CopyGone(c)
    <3>1. GoOn(c)
      BY <2>5 DEF CopyFails, CopyGone
    <3>2. cl' = [cl EXCEPT ![c] = [cl[c] EXCEPT !.pc = "file", !.failed = @ \cup {Layer(c)}]]
      BY <3>1 DEF GoOn
    <3> QED
      BY <3>2
  <2> QED
    BY <2>2, <2>3, <2>4, <2>5
<1>4. t.path = cl[c].path /\ t.answer = cl[c].answer
  <2>1. CASE t = [cl[c] EXCEPT !.pc = x]
    BY <1>2, <2>1, FieldsAre
  <2>2. ASSUME NEW f, t = [cl[c] EXCEPT !.pc = x, !.failed = f]
        PROVE  t.path = cl[c].path /\ t.answer = cl[c].answer
    BY <1>2, <2>2, FieldsAre
  <2> QED
    BY <1>3, <2>1, <2>2
<1> QED
  BY <1>1, <1>2, <1>3, <1>4, UnansweredStep

LEMMA AnswersNext ==
  ASSUME Shapes, AnswersInv, [Next]_vars
  PROVE  AnswersInv'
<1>1. ASSUME NEW c \in Clients, Answers(c) PROVE AnswersInv'
  <2>1. CASE Done(c)
    <3>1. cl' = [cl EXCEPT ![c] = Idle] /\ UNCHANGED <<phase, site>>
      BY <2>1 DEF Done, configuration
    <3> QED
      BY <3>1, IdlePC, IdleIs, UnansweredStep
  <2> QED
    BY <1>1, <2>1, ReceiveAnswers, ServiceAnswers, FilesAnswers, CopyAnswers DEF Answers
<1>2. CASE Loads
  <2>1. phase # "running" /\ UNCHANGED cl
    BY <1>2 DEF Loads, Configure, LoadLocal, LoadMerge, LoadVfs, Run, Loading
  <2>2. Configured'
    BY <1>2 DEF AnswersInv, Configured, Loads, Configure, LoadLocal, LoadMerge, LoadVfs, Run, Loading
  <2>3. \A c \in Clients : AnswerGood(c)'
    BY <2>1 DEF AnswersInv, AnswerGood, By
  <2> QED
    BY <2>2, <2>3 DEF AnswersInv
<1>3. CASE UNCHANGED vars
  <2>1. \A c \in Clients : AnswerGood(c)'
    BY <1>3, OtherAnswers DEF vars, AnswersInv
  <2> QED
    BY <1>3, <2>1 DEF vars, AnswersInv, Configured
<1> QED
  BY <1>1, <1>2, <1>3 DEF Next

LEMMA AnswersAlways == Spec => [](Shapes /\ AnswersInv)
<1>1. Init => MemoryInv /\ AnswersInv
  <2> SUFFICES ASSUME Init PROVE MemoryInv /\ AnswersInv
    OBVIOUS
  <2>1. cl = [c \in Clients |-> Idle] /\ memory = [i \in 1 .. N |-> [p \in Paths |-> None]]
        /\ phase = "config"
    BY DEF Init
  <2>2. MemoryInv
    BY <2>1, IdlePC DEF MemoryInv, Shapes, Shape, CopiesOwned, NothingYet
  <2>3. AnswersInv
    BY <2>1, IdlePC, IdleIs DEF AnswersInv, AnswerGood, Configured, By
  <2> QED
    BY <2>2, <2>3
<1>2. MemoryInv /\ AnswersInv /\ [Next]_vars => (MemoryInv /\ AnswersInv)'
  BY MemoryNext, AnswersNext DEF MemoryInv
<1>3. MemoryInv => Shapes
  BY DEF MemoryInv
<1> QED
  BY <1>1, <1>2, <1>3, PTL DEF Spec

LEMMA FirstIs ==
  ASSUME NEW S, NEW h \in S, \A j \in S : h <= j, S \subseteq Nat
  PROVE  First(S) = h
<1>1. PICK m : m = First(S)
  OBVIOUS
<1>2. m \in S /\ \A j \in S : m <= j
  BY <1>1 DEF First
<1> QED
  BY <1>1, <1>2

\* Whatever the layers, what is served of a path is what the first layer has that has the
\* path, unless a layer cannot tell or its file cannot be copied (mergefs/handler.go:65).
THEOREM FirstLayerIsServed == Spec => []FirstLayerWins
<1>1. ASSUME AnswersInv, NEW c \in Clients, By(c, "files"), Readable(cl[c].path), cl[c].failed = {}
      PROVE  IF Holders(cl[c].path) = {} THEN cl[c].answer.kind = "none"
             ELSE LET i == First(Holders(cl[c].path))
                  IN  /\ cl[c].answer.kind = layers[i][cl[c].path]
                      /\ i \in cl[c].answer.from
                      /\ cl[c].answer.kind = "file" => cl[c].answer.from = {i}
  <2>1. PICK path \in Paths : path = cl[c].path
    BY <1>1 DEF AnswersInv, AnswerGood
  <2>2. PICK o : o = Open(layers, path)
    OBVIOUS
  <2>3. layers \in Trees /\ cl[c].answer.kind = o.kind /\ cl[c].answer.from = o.from
    BY <1>1, <2>1, <2>2, LayersAre, SeenIs DEF AnswersInv, AnswerGood, Source
  <2>4. \A i \in 1 .. N : layers[i][path] # "denied"
    BY <1>1, <2>1 DEF Readable
  <2>5. CASE NoneFrom(layers, path, 1) /\ o.kind = "none"
    <3>1. Holders(path) = {}
      BY <2>5 DEF NoneFrom, Holders
    <3> QED
      BY <2>1, <2>3, <2>5, <3>1
  <2>6. ASSUME NEW h, FirstFrom(layers, path, 1, h), o.kind = layers[h][path], h \in o.from,
               layers[h][path] = "file" => o.from = {h}
        PROVE  /\ Holders(path) # {}
               /\ First(Holders(path)) = h
    <3>1. h \in 1 .. N /\ h \in Holders(path) /\ \A j \in 1 .. h - 1 : layers[j][path] = "none"
      BY <2>6 DEF FirstFrom, Holders
    <3>2. Holders(path) \subseteq Nat /\ \A j \in Holders(path) : h <= j
      BY <3>1 DEF Holders
    <3> HIDE DEF Holders
    <3> QED
      BY <3>1, <3>2, FirstIs
  <2>7. CASE ~(NoneFrom(layers, path, 1) /\ o.kind = "none")
    <3>1. PICK h : /\ FirstFrom(layers, path, 1, h)
                   /\ o.kind = layers[h][path]
                   /\ h \in o.from
                   /\ layers[h][path] = "file" => o.from = {h}
      BY <2>2, <2>3, <2>4, <2>7, OpenFirst
    <3> QED
      BY <2>1, <2>3, <2>6, <3>1
  <2> QED
    BY <2>5, <2>7
<1>2. AnswersInv => FirstLayerWins
  BY <1>1 DEF FirstLayerWins
<1> QED
  BY <1>2, AnswersAlways, PTL

\* Whatever the layers, what the listing of a directory names can be opened and is what the
\* listing says, be the directory united from several layers (mergefs/handler.go:88).
THEOREM ListingsHonest == Spec => []ListedOpens
<1>1. ASSUME AnswersInv, NEW c \in Clients, By(c, "files"), NEW p \in Listing(layers, cl[c].path),
             Readable(p)
      PROVE  Open(layers, p).kind = ListedKind(layers, cl[c].path, p)
  <2>1. cl[c].path \in Paths /\ phase = "running" /\ Configured
    BY <1>1 DEF AnswersInv, AnswerGood
  <2>2. layers \in Trees /\ \A i \in 1 .. N : Consistent(layers[i])
    BY <2>1, LayersAre
  <2>3. \A i \in 1 .. N : layers[i][p] # "denied"
    BY <1>1 DEF Readable
  <2>4. PICK ls : ls = layers
    OBVIOUS
  <2>5. Open(ls, p).kind = ListedKind(ls, cl[c].path, p)
    BY <1>1, <2>1, <2>2, <2>3, <2>4, ListedFirst
  <2> QED
    BY <2>4, <2>5
<1>2. AnswersInv => ListedOpens
  BY <1>1 DEF ListedOpens
<1> QED
  BY <1>2, AnswersAlways, PTL

\* Whatever the service sends, a crawler is told of gzip only if it takes it; and when the
\* service sends gzip or nothing, as it is asked to, in the very encoding of the body
\* (prerender.go:190).
THEOREM EncodingsHonest == Spec => []EncodingHonest
<1>1. AnswersInv => EncodingHonest
  BY DEF AnswersInv, AnswerGood, Honest, EncodingHonest, By
<1> QED
  BY <1>1, AnswersAlways, PTL
=============================================================================
