------------------------------ MODULE Mergefs ------------------------------
(***************************************************************************)
(* The union filesystem of modules/mergefs: layers 1 to N, the first of    *)
(* them on top.  buildAfero stacks copy-on-write filesystems of the afero  *)
(* library, each made of one layer and, as its base, everything below.     *)
(*                                                                         *)
(* A layer gives each path a kind: "none", "file", "dir", or "denied" when *)
(* Stat fails though the path may exist (a directory that may not be       *)
(* read, a disk error).                                                    *)
(***************************************************************************)
EXTENDS Naturals

CONSTANTS
  N,        \* number of layers
  Paths,    \* the paths asked for
  Parent    \* path -> the directory it is in

ASSUME LayersAssumption == N \in Nat \ {0}
ASSUME PathsAssumption == Parent \in [Paths -> Paths]

Kinds == {"none", "file", "dir", "denied"}

\* What is below a directory exists in it; what is below a file does not.
Consistent(layer) == \A p \in Paths : Parent[p] # p =>
  CASE layer[Parent[p]] = "dir" -> TRUE
    [] layer[Parent[p]] = "denied" -> layer[p] = "denied"
    [] OTHER -> layer[p] = "none"

Missing == [kind |-> "none", from |-> {}]
Failed == [kind |-> "denied", from |-> {}]
Opened(kind, from) == [kind |-> kind, from |-> from]

\* buildAfero: the first layer is the outermost overlay, the last the base.
BottomUp(layers, i) == layers[N + 1 - i]   \* Mutation: the other way round.
Level(layers, i) == layers[i]

\* Mutation: the base is taken for its own first layer.
StatOnce(layers, path) == [i \in 1 .. N |-> Level(layers, i)[path]]

\* CopyOnWriteFs.Stat: the base is asked only if the layer has no such path.
Stat(layers, path) ==
  LET stat[i \in 1 .. N] ==
        IF i < N /\ Level(layers, i)[path] = "none"
        THEN stat[i + 1] ELSE Level(layers, i)[path]
  IN  stat

\* The base of level i has a directory there that can be opened.
BaseDir(layers, path, i) == i < N /\ Stat(layers, path)[i + 1] = "dir"

\* CopyOnWriteFs.Open of level i: a file of the layer hides the base, a
\* directory is united with a directory of the base, below; after any error of
\* the layer's Stat the base counts.
OpenLevel(layers, path, i, below) ==
  LET kind == Level(layers, i)[path]
      absent == IF kind = "denied" THEN Failed ELSE Missing
  IN  CASE kind = "file" -> Opened("file", {i})
        [] kind = "dir" /\ BaseDir(layers, path, i) -> Opened("dir", {i} \cup below.from)
        [] kind = "dir" /\ ~BaseDir(layers, path, i) -> Opened("dir", {i})
        [] kind \in {"none", "denied"} /\ i = N -> absent
        [] kind \in {"none", "denied"} /\ i < N ->
             CASE Stat(layers, path)[i + 1] \in {"file", "dir"} -> below
               [] Stat(layers, path)[i + 1] = "denied" -> Failed
               [] Stat(layers, path)[i + 1] = "none" -> absent
Open(layers, path) ==
  LET open[i \in 1 .. N] == OpenLevel(layers, path, i, open[i + 1])
  IN  open[1]

\* UnionFile.Readdir: the entries of the united directories, each once, as
\* the uppermost of them has it.
Listing(layers, dir) ==
  {p \in Paths \ {dir} : Parent[p] = dir /\
     \E i \in Open(layers, dir).from : Level(layers, i)[p] # "none"}
ListedKind(layers, dir, p) ==
  LET holders == {i \in Open(layers, dir).from : Level(layers, i)[p] # "none"}
  IN  Level(layers, CHOOSE i \in holders : \A j \in holders : i <= j)[p]
=============================================================================
