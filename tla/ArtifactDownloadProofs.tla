----------------------- MODULE ArtifactDownloadProofs -----------------------
(***************************************************************************)
(* What a download leaves at its path, for any downloads of any artifacts. *)
(*                                                                         *)
(* While others are at work on a path nothing is known of the file there.  *)
(* But each of them ends by removing the name: whoever finds itself alone  *)
(* with a file that still has the name has made that file itself, and      *)
(* nobody has touched it since (OwnFile).  That paths of different         *)
(* artifacts share no file keeps the others' files apart (Apart).          *)
(***************************************************************************)
EXTENDS ArtifactDownload, TLAPS

Active == {"copy", "hash", "open", "check", "live", "remove"}
Blocks == {"ok", "bad", "hole"}

Types ==
  /\ link \in [Ids -> Inodes \cup {None}]
  /\ file \in [Inodes -> Seq(Blocks)]
  /\ pc \in [Downloads -> {"idle", "create"} \cup Active]
  /\ fd \in [Downloads -> Inodes \cup {None}]
  /\ \A d \in Downloads : fd[d] # None <=> pc[d] \in {"copy", "check", "live"}
  /\ stream \in [Downloads -> {"none", "good", "bad", "long"}]
  /\ off \in [Downloads -> 0 .. MaxSize + 1]
  /\ \A d \in Downloads : pc[d] # "copy" => off[d] = 0
  /\ want \in [Downloads -> BOOLEAN]
  /\ sum \in [Downloads -> BOOLEAN]

Apart ==
  /\ \A i, j \in Ids : link[i] = link[j] /\ link[i] # None => i = j
  /\ \A d \in Downloads, i \in Ids : fd[d] = link[i] /\ link[i] # None => Artifact[d] = i

\* Nobody else is at work on d's path.
Alone(d) ==
  \A e \in Downloads \ {d} : Artifact[e] = Artifact[d] => pc[e] \in {"idle", "create"}

OwnFile(d) ==
  Alone(d) /\ Path(d) # None =>
    /\ pc[d] \in {"copy", "check", "live"} => fd[d] = Path(d)
    /\ pc[d] = "copy" => Len(file[Path(d)]) <= off[d]
    /\ pc[d] \in {"hash", "open", "check", "live"} => Len(file[Path(d)]) <= MaxSize
    /\ pc[d] \in {"open", "check", "live"} /\ sum[d] => file[Path(d)] = Good

OwnFiles == \A d \in Downloads : OwnFile(d)
Checked == \A d \in Downloads : pc[d] = "live" /\ want[d] => sum[d]

Inv == Types /\ Apart /\ OwnFiles /\ Checked /\ NoFileLeft

\* What a step of d leaves of the others.
Mine(d) == \A e \in Downloads \ {d} :
  /\ pc'[e] = pc[e] /\ fd'[e] = fd[e] /\ off'[e] = off[e]
  /\ want'[e] = want[e] /\ sum'[e] = sum[e]
\* Names of other artifacts, and the files they name, stay.
OthersPaths(d) == \A i \in Ids \ {Artifact[d]} :
  link'[i] = link[i] /\ (link[i] # None => file'[link[i]] = file[link[i]])

LEMMA PathIds == ASSUME NEW d \in Downloads PROVE Artifact[d] \in Ids
BY DEF Ids

\* A step of d on its own path keeps what is known of all others: as long as d is
\* at work they are not alone, and when it ends the name is gone.
LEMMA OthersKeep ==
  ASSUME Inv, NEW d \in Downloads, Mine(d), OthersPaths(d),
         pc'[d] \in Active \/ link'[Artifact[d]] = None
           \/ (pc[d] \in {"idle", "create"} /\ link' = link /\ file' = file)
  PROVE  \A e \in Downloads \ {d} : OwnFile(e)'
<1> SUFFICES ASSUME NEW e \in Downloads \ {d}, Alone(e)', Path(e)' # None
    PROVE  OwnFile(e)'
  BY DEF OwnFile
<1>0. OwnFile(e)
  BY DEF Inv, OwnFiles
<1>1. CASE Artifact[e] = Artifact[d]
  <2>1. pc'[d] \notin Active
    BY <1>1 DEF Alone, Active
  <2>2. pc[d] \in {"idle", "create"} /\ link' = link /\ file' = file
    BY <1>1, <2>1 DEF Path
  <2>3. Alone(e)
    BY <2>2 DEF Alone, Mine
  <2> QED
    BY <1>0, <2>2, <2>3 DEF OwnFile, Path, Mine, Good
<1>2. CASE Artifact[e] # Artifact[d]
  <2>1. Alone(e)
    BY <1>2 DEF Alone, Mine
  <2>2. link'[Artifact[e]] = link[Artifact[e]] /\ link[Artifact[e]] # None
        /\ file'[link[Artifact[e]]] = file[link[Artifact[e]]]
    BY <1>2, PathIds DEF OthersPaths, Path
  <2> QED
    BY <1>0, <2>1, <2>2 DEF OwnFile, Path, Mine, Good
<1> QED
  BY <1>1, <1>2

\* Only freed inodes change when descriptors are closed and names removed.
LEMMA Reclaims ==
  ASSUME Types, Reclaim, NEW i \in Ids, link'[i] \in Inodes
  PROVE  file'[link'[i]] = file[link'[i]]
BY DEF Reclaim, Types

LEMMA ReclaimType ==
  ASSUME Types, Reclaim
  PROVE  file' \in [Inodes -> Seq(Blocks)]
<1>1. <<>> \in Seq(Blocks)
  OBVIOUS
<1>2. ASSUME NEW n \in Inodes PROVE file[n] \in Seq(Blocks)
  BY DEF Types
<1> QED
  BY <1>1, <1>2 DEF Reclaim

\* A block makes a file longer by one at most.
LEMMA Written ==
  ASSUME NEW f \in Seq(Blocks), NEW k \in Nat \ {0}, NEW b \in Blocks
  PROVE  /\ WriteAt(f, k, b) \in Seq(Blocks)
         /\ Len(WriteAt(f, k, b)) = IF k > Len(f) THEN k ELSE Len(f)
<1> DEFINE m == IF k > Len(f) THEN k ELSE Len(f)
           g == [j \in 1 .. m |-> IF j = k THEN b ELSE IF j <= Len(f) THEN f[j] ELSE "hole"]
<1>1. m \in Nat
  OBVIOUS
<1>2. \A j \in 1 .. m : g[j] \in Blocks
  BY DEF Blocks
<1>3. g \in [1 .. m -> Blocks]
  BY <1>2
<1>4. g \in Seq(Blocks) /\ Len(g) = m
  BY <1>1, <1>3
<1> QED
  BY <1>4 DEF WriteAt

\* The names left without a file, when a step of d gives up none.
LEMMA NoFileKept ==
  ASSUME Inv, NEW d \in Downloads, Mine(d),
         \A i \in Ids \ {Artifact[d]} : link'[i] = link[i],
         pc'[d] \in Active \/ link'[Artifact[d]] = None
           \/ (pc[d] \in {"idle", "create"} /\ link' = link)
  PROVE  NoFileLeft'
<1> SUFFICES ASSUME NEW i \in Ids,
                    \A e \in Downloads : Artifact[e] = i => pc'[e] \in {"idle", "create"}
             PROVE  link'[i] = None
  BY DEF NoFileLeft
<1>1. CASE i # Artifact[d]
  <2>1. \A e \in Downloads : Artifact[e] = i => pc[e] \in {"idle", "create"}
    BY <1>1 DEF Mine
  <2> QED
    BY <1>1, <2>1 DEF Inv, NoFileLeft
<1>2. CASE i = Artifact[d]
  <2>1. pc'[d] \notin Active
    BY <1>2 DEF Active
  <2>2. CASE link'[Artifact[d]] = None
    BY <1>2, <2>2
  <2>3. CASE pc[d] \in {"idle", "create"} /\ link' = link
    BY <1>2, <2>3 DEF Inv, NoFileLeft, Mine
  <2> QED
    BY <2>1, <2>2, <2>3
<1> QED
  BY <1>1, <1>2

LEMMA StepInv ==
  ASSUME Inv, NEW d \in Downloads, Types', Mine(d), OthersPaths(d), Apart', OwnFile(d)',
         pc'[d] = "live" /\ want'[d] => sum'[d],
         pc'[d] \in Active \/ link'[Artifact[d]] = None
           \/ (pc[d] \in {"idle", "create"} /\ link' = link /\ file' = file)
  PROVE  Inv'
<1>1. OwnFiles'
  BY OthersKeep DEF OwnFiles
<1>2. Checked'
  BY DEF Checked, Mine, Inv
<1>3. NoFileLeft'
  BY NoFileKept DEF OthersPaths
<1> QED
  BY <1>1, <1>2, <1>3 DEF Inv

\* The paths, when no name is given and d opens nothing but the file at its own.
LEMMA ApartKept ==
  ASSUME Inv, NEW d \in Downloads, Mine(d),
         \A i \in Ids : link'[i] = link[i] \/ link'[i] = None,
         fd'[d] \in {fd[d], None, Path(d)}
  PROVE  Apart'
<1>1. \A i, j \in Ids : link'[i] = link'[j] /\ link'[i] # None => i = j
  BY DEF Inv, Apart
<1>2. ASSUME NEW e \in Downloads, NEW i \in Ids, fd'[e] = link'[i], link'[i] # None
      PROVE  Artifact[e] = i
  <2>1. link[i] = link'[i]
    BY <1>2
  <2>2. fd'[e] = fd[e] \/ (e = d /\ fd'[e] = link[Artifact[d]])
    BY <1>2 DEF Mine, Path
  <2> QED
    BY <1>2, <2>1, <2>2, PathIds DEF Inv, Apart
<1> QED
  BY <1>1, <1>2 DEF Apart

\* Files of others, when descriptors are closed and d's name at most is removed.
LEMMA ReclaimOthers ==
  ASSUME Types, NEW d \in Downloads, Reclaim,
         \A i \in Ids \ {Artifact[d]} : link'[i] = link[i]
  PROVE  OthersPaths(d)
<1> SUFFICES ASSUME NEW i \in Ids \ {Artifact[d]}, link[i] # None
             PROVE  file'[link[i]] = file[link[i]]
  BY DEF OthersPaths
<1>1. link'[i] \in Inodes
  BY DEF Types
<1> QED
  BY <1>1, Reclaims

-----------------------------------------------------------------------------
LEMMA RequestStep ==
  ASSUME Inv, NEW d \in Downloads, NEW s \in {"good", "bad", "long"}, NEW w \in BOOLEAN,
         Request(d, s, w)
  PROVE  Inv'
<1>1. Types'
  BY DEF Inv, Types, Request, Active
<1>2. Mine(d) /\ OthersPaths(d)
  BY DEF Mine, OthersPaths, Request, Inv, Types
<1>3. Apart'
  BY DEF Request, Inv, Apart
<1>4. OwnFile(d)' /\ pc'[d] = "create"
  BY DEF OwnFile, Request, Inv, Types
<1> QED
  BY <1>1, <1>2, <1>3, <1>4, StepInv DEF Request

LEMMA RefuseStep ==
  ASSUME Inv, NEW d \in Downloads, Refuse(d)
  PROVE  Inv'
<1>1. Types'
  BY DEF Inv, Types, Refuse, Active
<1>2. Mine(d) /\ OthersPaths(d)
  BY DEF Mine, OthersPaths, Refuse, Inv, Types
<1>3. Apart'
  BY DEF Refuse, Inv, Apart
<1>4. OwnFile(d)' /\ pc'[d] = "idle"
  BY DEF OwnFile, Refuse, Inv, Types
<1> QED
  BY <1>1, <1>2, <1>3, <1>4, StepInv DEF Refuse

LEMMA CreateStep ==
  ASSUME Inv, NEW d \in Downloads, Create(d)
  PROVE  Inv'
<1>0. PICK n \in Inodes :
        /\ IF Path(d) # None THEN n = Path(d)
           ELSE \A e \in Downloads : n # fd[e] /\ n # Path(e)
        /\ link' = [link EXCEPT ![Artifact[d]] = n]
        /\ file' = [file EXCEPT ![n] = <<>>]
        /\ fd' = [fd EXCEPT ![d] = n]
  BY DEF Create
<1>a. Artifact[d] \in Ids /\ n # None
  BY PathIds, NoneAssumption
<1>b. /\ pc[d] = "create" /\ pc' = [pc EXCEPT ![d] = "copy"]
      /\ UNCHANGED <<stream, off, want, sum>>
  BY DEF Create
<1>1. Types'
  BY <1>0, <1>a, <1>b DEF Inv, Types, Active
<1>c. /\ pc'[d] = "copy" /\ link'[Artifact[d]] = n /\ fd'[d] = n /\ file'[n] = <<>>
      /\ \A m \in Inodes \ {n} : file'[m] = file[m]
      /\ \A i \in Ids \ {Artifact[d]} : link'[i] = link[i]
      /\ \A e \in Downloads \ {d} : fd'[e] = fd[e]
  BY <1>0, <1>a, <1>b DEF Inv, Types
<1>2. Mine(d)
  BY <1>0, <1>b DEF Mine, Inv, Types
<1>d. ASSUME NEW i \in Ids \ {Artifact[d]} PROVE link[i] # n
  <2>1. CASE Path(d) # None
    BY <1>0, <1>a, <1>d, <2>1 DEF Inv, Apart, Path
  <2>2. CASE Path(d) = None
    <3>1. PICK e \in Downloads : Artifact[e] = i
      BY DEF Ids
    <3> QED
      BY <1>0, <2>2, <3>1 DEF Path
  <2> QED
    BY <2>1, <2>2
<1>e. ASSUME NEW e \in Downloads, fd[e] = n PROVE Artifact[e] = Artifact[d]
  BY <1>0, <1>a, <1>e DEF Inv, Apart, Path
<1>3. OthersPaths(d)
  BY <1>c, <1>d DEF OthersPaths, Inv, Types
<1>4. Apart'
  <2>1. ASSUME NEW i \in Ids, NEW j \in Ids, link'[i] = link'[j], link'[i] # None
        PROVE  i = j
    BY <1>c, <1>d, <2>1 DEF Inv, Apart
  <2>2. ASSUME NEW e \in Downloads, NEW i \in Ids, fd'[e] = link'[i], link'[i] # None
        PROVE  Artifact[e] = i
    <3>1. CASE i = Artifact[d]
      BY <1>c, <1>e, <2>2, <3>1
    <3>2. CASE i # Artifact[d]
      BY <1>c, <1>d, <2>2, <3>2 DEF Inv, Apart
    <3> QED
      BY <3>1, <3>2
  <2> QED
    BY <2>1, <2>2 DEF Apart
<1>5. OwnFile(d)'
  <2>1. Path(d)' = n
    BY <1>c DEF Path
  <2>2. off'[d] \in Nat
    BY <1>b, LengthAssumption DEF Inv, Types
  <2>3. fd'[d] = Path(d)' /\ Len(file'[Path(d)']) <= off'[d]
    BY <1>c, <2>1, <2>2
  <2> QED
    BY <1>c, <2>3 DEF OwnFile
<1> QED
  BY <1>1, <1>2, <1>3, <1>4, <1>5, <1>c, StepInv DEF Active

LEMMA CopyStep ==
  ASSUME Inv, NEW d \in Downloads, Copy(d)
  PROVE  Inv'
<1> DEFINE n == fd[d]
           k == off[d] + 1
           f == WriteAt(file[n], k, Block(stream[d]))
<1>1. n \in Inodes /\ n # None
  BY NoneAssumption DEF Inv, Types, Copy
<1>2. off[d] \in 0 .. MaxSize + 1 /\ off[d] < BodySize(stream[d])
      /\ BodySize(stream[d]) \in 0 .. MaxSize + 1
  BY LengthAssumption DEF Inv, Types, Copy, BodySize
<1>3. k \in 1 .. MaxSize + 1
  BY <1>2, LengthAssumption
<1>4. Block(stream[d]) \in Blocks /\ file[n] \in Seq(Blocks)
  BY <1>1 DEF Block, Blocks, Inv, Types
<1>5. f \in Seq(Blocks) /\ Len(f) = IF k > Len(file[n]) THEN k ELSE Len(file[n])
  <2>1. k \in Nat \ {0}
    BY <1>3, LengthAssumption
  <2> HIDE DEF k, n
  <2> QED
    BY <1>4, <2>1, Written
<1>6. /\ pc[d] = "copy" /\ file' = [file EXCEPT ![n] = f] /\ off' = [off EXCEPT ![d] = k]
      /\ UNCHANGED <<link, pc, fd, stream, want, sum>>
  BY DEF Copy
<1> HIDE DEF f, k, n
<1>7. Types'
  BY <1>1, <1>3, <1>5, <1>6 DEF Inv, Types
<1>8. Mine(d)
  BY <1>6 DEF Mine, Inv, Types
<1>9. OthersPaths(d)
  <2>1. \A i \in Ids \ {Artifact[d]} : link[i] # n
    BY <1>1 DEF Inv, Apart, n
  <2> QED
    BY <1>6, <2>1 DEF OthersPaths, Inv, Types
<1>10. Apart'
  BY <1>6 DEF Inv, Apart
<1>11. OwnFile(d)'
  <2> SUFFICES ASSUME Alone(d), Path(d) # None
      PROVE  fd[d] = Path(d) /\ Len(file'[Path(d)]) <= off'[d]
    BY <1>6 DEF OwnFile, Alone, Path
  <2>1. Path(d) = n /\ Len(file[n]) <= off[d]
    BY <1>6 DEF OwnFile, Inv, OwnFiles, n
  <2>2. file'[n] = f /\ off'[d] = k
    BY <1>1, <1>6 DEF Inv, Types
  <2>3. Len(file[n]) \in Nat /\ off[d] \in Nat /\ k = off[d] + 1
    BY <1>2, <1>4, LengthAssumption DEF k
  <2>4. Len(f) = k
    BY <1>5, <2>1, <2>3
  <2>5. k <= k
    BY <2>3
  <2> QED
    BY <2>1, <2>2, <2>4, <2>5 DEF n
<1> QED
  BY <1>6, <1>7, <1>8, <1>9, <1>10, <1>11, StepInv DEF Active

LEMMA CopyEndsStep ==
  ASSUME Inv, NEW d \in Downloads, CopyEnds(d)
  PROVE  Inv'
<1>0. /\ pc[d] = "copy" /\ Reclaim
      /\ fd' = [fd EXCEPT ![d] = None] /\ off' = [off EXCEPT ![d] = 0]
      /\ UNCHANGED <<link, stream, want, sum>>
      /\ \/ pc' = [pc EXCEPT ![d] = "remove"]
         \/ off[d] <= MaxSize /\ pc' = [pc EXCEPT ![d] = "hash"]
  <2>1. off[d] \in 0 .. MaxSize + 1
    BY DEF Inv, Types
  <2> QED
    BY <2>1, LengthAssumption DEF CopyEnds, TooLarge
<1>a. Types
  BY DEF Inv
<1>1. Types'
  <2>1. file' \in [Inodes -> Seq(Blocks)]
    BY <1>0, <1>a, ReclaimType
  <2>2. off' \in [Downloads -> 0 .. MaxSize + 1]
    BY <1>0, <1>a, LengthAssumption DEF Types
  <2>3. pc' \in [Downloads -> {"idle", "create"} \cup Active]
    BY <1>0, <1>a DEF Types, Active
  <2>4. \A e \in Downloads : pc'[e] # "copy" => off'[e] = 0
    BY <1>0, <1>a DEF Types
  <2>5. \A e \in Downloads : fd'[e] # None <=> pc'[e] \in {"copy", "check", "live"}
    BY <1>0, <1>a DEF Types
  <2>6. fd' \in [Downloads -> Inodes \cup {None}]
    BY <1>0, <1>a DEF Types
  <2> QED
    BY <1>0, <1>a, <2>1, <2>2, <2>3, <2>4, <2>5, <2>6 DEF Types
<1>2. Mine(d)
  BY <1>0, <1>a DEF Mine, Types
<1>3. OthersPaths(d)
  BY <1>0, <1>a, ReclaimOthers
<1>4. Apart'
  BY <1>0, <1>2, <1>a, ApartKept DEF Types
<1>5. pc'[d] \in {"hash", "remove"}
  BY <1>0, <1>a DEF Types
<1>6. OwnFile(d)'
  <2> SUFFICES ASSUME Alone(d), Path(d) # None, pc'[d] = "hash"
      PROVE  Len(file'[Path(d)]) <= MaxSize
    BY <1>0, <1>2, <1>5 DEF OwnFile, Alone, Path, Mine
  <2>1. off[d] <= MaxSize /\ off[d] \in Nat
    BY <1>0, <1>a, LengthAssumption DEF Types
  <2>2. Len(file[Path(d)]) <= off[d]
    BY <1>0 DEF Inv, OwnFiles, OwnFile
  <2>3. Path(d) \in Inodes /\ link'[Artifact[d]] = Path(d)
    BY <1>0, <1>a, PathIds DEF Types, Path
  <2>4. file'[Path(d)] = file[Path(d)]
    BY <1>0, <1>a, <2>3, PathIds, Reclaims
  <2>5. Len(file[Path(d)]) \in Nat
    BY <1>a, <2>3 DEF Types
  <2> QED
    BY <2>1, <2>2, <2>4, <2>5, LengthAssumption
<1> QED
  BY <1>1, <1>2, <1>3, <1>4, <1>5, <1>6, StepInv DEF Active

LEMMA RemoveStep ==
  ASSUME Inv, NEW d \in Downloads, Remove(d)
  PROVE  Inv'
<1>a. Types /\ Artifact[d] \in Ids
  BY PathIds DEF Inv
<1>1. Types'
  <2>1. file' \in [Inodes -> Seq(Blocks)]
    BY <1>a, ReclaimType DEF Remove
  <2> QED
    BY <1>a, <2>1 DEF Types, Active, Remove
<1>2. Mine(d)
  BY <1>a DEF Mine, Types, Remove
<1>3. link'[Artifact[d]] = None /\ \A i \in Ids \ {Artifact[d]} : link'[i] = link[i]
  BY <1>a DEF Types, Remove
<1>4. OthersPaths(d)
  BY <1>3, <1>a, ReclaimOthers DEF Remove
<1>5. Apart'
  BY <1>2, <1>3, <1>a, ApartKept DEF Remove
<1>6. pc'[d] = "idle"
  BY <1>a DEF Types, Remove
<1>7. OwnFile(d)'
  BY <1>3 DEF OwnFile, Path
<1> QED
  BY <1>1, <1>2, <1>3, <1>4, <1>5, <1>6, <1>7, StepInv

LEMMA HashStep ==
  ASSUME Inv, NEW d \in Downloads, Hash(d)
  PROVE  Inv'
<1>0. /\ pc[d] = "hash" /\ UNCHANGED <<link, file, fd, off, stream, want>>
      /\ Types /\ OwnFile(d)
  BY DEF Hash, Inv, OwnFiles
<1>1. CASE Path(d) = None
  <2>0. pc' = [pc EXCEPT ![d] = "remove"] /\ sum' = sum
    BY <1>1 DEF Hash
  <2>1. Types'
    BY <1>0, <2>0 DEF Types, Active
  <2>2. Mine(d) /\ OthersPaths(d)
    BY <1>0, <2>0 DEF Mine, OthersPaths, Types
  <2>3. Apart'
    BY <1>0 DEF Inv, Apart
  <2>4. OwnFile(d)' /\ pc'[d] = "remove"
    BY <1>0, <1>1, <2>0 DEF OwnFile, Path, Types
  <2> QED
    BY <2>1, <2>2, <2>3, <2>4, StepInv DEF Active
<1>2. CASE Path(d) # None
  <2>0. pc' = [pc EXCEPT ![d] = "open"] /\ sum' = [sum EXCEPT ![d] = file[Path(d)] = Good]
    BY <1>2 DEF Hash, Content
  <2>1. Types'
    BY <1>0, <2>0 DEF Types, Active
  <2>2. Mine(d) /\ OthersPaths(d)
    BY <1>0, <2>0 DEF Mine, OthersPaths, Types
  <2>3. Apart'
    BY <1>0 DEF Inv, Apart
  <2>4. pc'[d] = "open" /\ sum'[d] = (file[Path(d)] = Good)
    BY <1>0, <2>0 DEF Types
  <2>5. OwnFile(d)'
    BY <1>0, <2>2, <2>4 DEF OwnFile, Alone, Path, Mine, Good
  <2> QED
    BY <2>1, <2>2, <2>3, <2>4, <2>5, StepInv DEF Active
<1> QED
  BY <1>1, <1>2

LEMMA OpenZipStep ==
  ASSUME Inv, NEW d \in Downloads, OpenZip(d)
  PROVE  Inv'
<1>0. /\ pc[d] = "open" /\ UNCHANGED <<link, file, off, stream, want, sum>>
      /\ Types /\ OwnFile(d)
  BY DEF OpenZip, Inv, OwnFiles
<1>1. \/ pc' = [pc EXCEPT ![d] = "remove"] /\ fd' = fd
      \/ /\ Path(d) # None /\ pc' = [pc EXCEPT ![d] = "check"]
         /\ fd' = [fd EXCEPT ![d] = Path(d)]
  BY DEF OpenZip, Content, Parses
<1>2. Types'
  <2>1. Path(d) \in Inodes \cup {None}
    BY <1>0, PathIds DEF Types, Path
  <2> QED
    BY <1>0, <1>1, <2>1 DEF Types, Active
<1>3. Mine(d) /\ OthersPaths(d)
  BY <1>0, <1>1 DEF Mine, OthersPaths, Types
<1>4. Apart'
  BY <1>0, <1>1, <1>3, ApartKept DEF Types
<1>5. pc'[d] \in {"check", "remove"} /\ (pc'[d] = "check" => fd'[d] = Path(d))
  BY <1>0, <1>1 DEF Types
<1>6. OwnFile(d)'
  BY <1>0, <1>3, <1>5 DEF OwnFile, Alone, Path, Mine, Good
<1> QED
  BY <1>2, <1>3, <1>4, <1>5, <1>6, StepInv DEF Active

LEMMA CheckStep ==
  ASSUME Inv, NEW d \in Downloads, Check(d)
  PROVE  Inv'
<1>0. /\ pc[d] = "check" /\ Reclaim /\ UNCHANGED <<link, off, stream, want, sum>>
      /\ Types /\ OwnFile(d)
  BY DEF Check, Inv, OwnFiles
<1>1. \/ pc' = [pc EXCEPT ![d] = "live"] /\ fd' = fd /\ (want[d] => sum[d])
      \/ pc' = [pc EXCEPT ![d] = "remove"] /\ fd' = [fd EXCEPT ![d] = None]
  BY DEF Check, Accepted
<1>2. Types'
  <2>1. file' \in [Inodes -> Seq(Blocks)]
    BY <1>0, ReclaimType
  <2> QED
    BY <1>0, <1>1, <2>1 DEF Types, Active
<1>3. Mine(d)
  BY <1>0, <1>1 DEF Mine, Types
<1>4. OthersPaths(d)
  BY <1>0, ReclaimOthers
<1>5. Apart'
  BY <1>0, <1>1, <1>3, ApartKept DEF Types
<1>6. pc'[d] \in {"live", "remove"} /\ (pc'[d] = "live" => fd'[d] = fd[d] /\ (want[d] => sum[d]))
  BY <1>0, <1>1 DEF Types
<1>7. OwnFile(d)'
  <2> SUFFICES ASSUME Alone(d), Path(d) # None, pc'[d] = "live" PROVE OwnFile(d)'
    BY <1>0, <1>3, <1>6 DEF OwnFile, Alone, Path, Mine
  <2>1. Path(d) \in Inodes /\ link'[Artifact[d]] = Path(d)
    BY <1>0, PathIds DEF Types, Path
  <2>2. file'[Path(d)] = file[Path(d)]
    BY <1>0, <2>1, PathIds, Reclaims
  <2> QED
    BY <1>0, <1>6, <2>2 DEF OwnFile, Path, Good
<1> QED
  BY <1>0, <1>2, <1>3, <1>4, <1>5, <1>6, <1>7, StepInv DEF Active

LEMMA CloseStep ==
  ASSUME Inv, NEW d \in Downloads, Close(d)
  PROVE  Inv'
<1>0. /\ pc[d] = "live" /\ Reclaim /\ UNCHANGED <<link, off, stream, want, sum>>
      /\ pc' = [pc EXCEPT ![d] = "remove"] /\ fd' = [fd EXCEPT ![d] = None]
      /\ Types
  BY DEF Close, Inv
<1>1. Types'
  <2>1. file' \in [Inodes -> Seq(Blocks)]
    BY <1>0, ReclaimType
  <2> QED
    BY <1>0, <2>1 DEF Types, Active
<1>2. Mine(d)
  BY <1>0 DEF Mine, Types
<1>3. OthersPaths(d)
  BY <1>0, ReclaimOthers
<1>4. Apart'
  BY <1>0, <1>2, ApartKept DEF Types
<1>5. pc'[d] = "remove"
  BY <1>0 DEF Types
<1>6. OwnFile(d)'
  BY <1>5 DEF OwnFile
<1> QED
  BY <1>1, <1>2, <1>3, <1>4, <1>5, <1>6, StepInv DEF Active

-----------------------------------------------------------------------------
LEMMA InitInv == Init => Inv
<1> SUFFICES ASSUME Init PROVE Inv
  OBVIOUS
<1>1. Types
  <2>1. <<>> \in Seq(Blocks)
    OBVIOUS
  <2> QED
    BY <2>1, LengthAssumption DEF Init, Types, Active
<1>2. \A i \in Ids : link[i] = None
  BY DEF Init
<1>3. Apart /\ NoFileLeft
  BY <1>2 DEF Apart, NoFileLeft
<1>4. OwnFiles /\ Checked
  BY <1>2, PathIds DEF OwnFiles, OwnFile, Path, Checked, Init
<1> QED
  BY <1>1, <1>3, <1>4 DEF Inv

LEMMA NextInv == Inv /\ [Next]_vars => Inv'
<1> SUFFICES ASSUME Inv, [Next]_vars PROVE Inv'
  OBVIOUS
<1>1. CASE Next
  BY <1>1, RequestStep, RefuseStep, CreateStep, CopyStep, CopyEndsStep, RemoveStep,
     HashStep, OpenZipStep, CheckStep, CloseStep DEF Next
<1>2. CASE UNCHANGED vars
  BY <1>2 DEF vars, Inv, Types, Apart, OwnFiles, OwnFile, Alone, Path, Checked, NoFileLeft, Good
<1> QED
  BY <1>1, <1>2

LEMMA Invariance == Spec => []Inv
BY InitInv, NextInv, PTL DEF Spec

\* Verified bytes stay verified: whoever serves a file that still has its path, with
\* nobody else at work there, serves the bytes of the digest, whatever was downloaded,
\* truncated and removed at that path before (DownloadArtifact).
THEOREM VerifiedStays == Spec => []VerifiedIntact
<1>1. Inv => VerifiedIntact
  <2> SUFFICES ASSUME Inv, NEW d \in Downloads, Settled(d), want[d]
      PROVE  file[fd[d]] = Good
    BY DEF VerifiedIntact
  <2>1. fd[d] # None /\ sum[d]
    BY DEF Inv, Types, Checked, Settled
  <2> QED
    BY <2>1 DEF Inv, OwnFiles, OwnFile, Alone, Settled
<1> QED
  BY <1>1, Invariance, PTL

\* max_artifact_size bounds what is served by a filesystem that is alone with its path,
\* although the reader lets one byte more by (downloadToFile) and others may have written
\* to the same path before.
THEOREM SizeLimited == Spec => []LiveBounded
<1>1. Inv => LiveBounded
  <2> SUFFICES ASSUME Inv, NEW d \in Downloads, Settled(d)
      PROVE  Len(file[fd[d]]) <= MaxSize
    BY DEF LiveBounded
  <2>1. fd[d] # None
    BY DEF Inv, Types, Settled
  <2> QED
    BY <2>1 DEF Inv, OwnFiles, OwnFile, Alone, Settled
<1> QED
  BY <1>1, Invariance, PTL

\* Whatever fails, and whoever removes the file of another, a path on which nobody is at
\* work any more is free (the cleanups of DownloadZipFs).
THEOREM PathsFreed == Spec => []NoFileLeft
<1>1. Inv => NoFileLeft
  BY DEF Inv
<1> QED
  BY <1>1, Invariance, PTL
=============================================================================
