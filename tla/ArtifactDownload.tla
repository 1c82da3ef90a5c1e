-------------------------- MODULE ArtifactDownload --------------------------
(***************************************************************************)
(* The file behind an artifact filesystem: DownloadArtifact (github.go)    *)
(* and DownloadZipFs, downloadToFile, hashFile, OpenZipFs (pkg/archive).   *)
(*                                                                         *)
(* The path of the zip is made of the artifact ID alone, so every download *)
(* of an artifact uses the same path.  Files are inodes: os.Create         *)
(* truncates the one that is there, os.Remove unlinks it, and a descriptor *)
(* keeps it.  A file is a sequence of blocks.  One step is one system call *)
(* on the path or the arrival of one block; a whole file is read at once.  *)
(***************************************************************************)
EXTENDS Integers, Sequences

CONSTANTS
  Downloads,   \* goroutines in DownloadArtifact
  Artifact,    \* download -> the artifact ID it fetches
  Inodes,
  Length,      \* blocks of the zip
  MaxSize,     \* max_artifact_size, in blocks
  None

ASSUME LengthAssumption == Length \in Nat \ {0} /\ MaxSize \in Nat /\ Length <= MaxSize
ASSUME NoneAssumption == None \notin Inodes

VARIABLES
  link,     \* artifact ID -> the inode its path names, or None
  file,     \* inode -> blocks
  pc,       \* where a download is
  fd,       \* the inode it has open, or None
  stream,   \* the response body it reads
  off,      \* blocks it has written
  want,     \* was it given a digest to verify?
  sum       \* did the file it hashed have the artifact's digest?

vars == <<link, file, pc, fd, stream, off, want, sum>>

Ids == {Artifact[d] : d \in Downloads}
Path(d) == link[Artifact[d]]
Content(d) == IF Path(d) = None THEN <<>> ELSE file[Path(d)]
Good == [k \in 1 .. Length |-> "ok"]

\* The blocks of an inode that has lost its last name and descriptor are freed.
Reclaim ==
  file' = [n \in Inodes |-> IF n \in {link'[i] : i \in Ids} \cup {fd'[d] : d \in Downloads}
                            THEN file[n] ELSE <<>>]

\* What the server sends: the artifact, something else of its size, or more
\* than max_artifact_size, of which io.LimitReader lets one byte too many by.
BodySize(s) == IF s = "long" THEN MaxSize + 1 ELSE Length
Block(s) == IF s = "good" THEN "ok" ELSE "bad"

-----------------------------------------------------------------------------
Request(d, s, w) ==
  /\ pc[d] = "idle"
  /\ pc' = [pc EXCEPT ![d] = "create"]
  /\ stream' = [stream EXCEPT ![d] = s]
  /\ want' = [want EXCEPT ![d] = w]
  /\ UNCHANGED <<link, file, fd, off, sum>>

\* The request fails, is answered with an error or a body known to be too large,
\* or the file cannot be created: nothing has been touched.
Refuse(d) ==
  /\ pc[d] = "create"
  /\ pc' = [pc EXCEPT ![d] = "idle"]
  /\ stream' = [stream EXCEPT ![d] = "none"]
  /\ want' = [want EXCEPT ![d] = FALSE]
  /\ UNCHANGED <<link, file, fd, off, sum>>

\* os.Create
Create(d) ==
  /\ pc[d] = "create"
  /\ \E n \in Inodes :
       /\ IF Path(d) # None THEN n = Path(d)
          ELSE \A e \in Downloads : n # fd[e] /\ n # Path(e)
       /\ link' = [link EXCEPT ![Artifact[d]] = n]
       /\ file' = [file EXCEPT ![n] = <<>>]
       /\ fd' = [fd EXCEPT ![d] = n]
  /\ pc' = [pc EXCEPT ![d] = "copy"]
  /\ UNCHANGED <<stream, off, want, sum>>

\* The file f with block b at position k; the gap a truncation left is a hole.
WriteAt(f, k, b) ==
  [j \in 1 .. (IF k > Len(f) THEN k ELSE Len(f)) |->
     IF j = k THEN b ELSE IF j <= Len(f) THEN f[j] ELSE "hole"]

\* io.Copy
Copy(d) ==
  /\ pc[d] = "copy"
  /\ off[d] < BodySize(stream[d])
  /\ file' = [file EXCEPT ![fd[d]] = WriteAt(@, off[d] + 1, Block(stream[d]))]
  /\ off' = [off EXCEPT ![d] = @ + 1]
  /\ UNCHANGED <<link, pc, fd, stream, want, sum>>

\* Close at the end of the body, or after an error.
LargerByOne(d) == off[d] > MaxSize + 1   \* Mutation: the limit the reader was given.
TooLarge(d) == off[d] > MaxSize

CopyEnds(d) ==
  /\ pc[d] = "copy"
  /\ fd' = [fd EXCEPT ![d] = None]
  /\ \/ pc' = [pc EXCEPT ![d] = "remove"]
     \/ /\ off[d] = BodySize(stream[d])
        /\ ~TooLarge(d)
        /\ pc' = [pc EXCEPT ![d] = "hash"]
  /\ UNCHANGED <<link, stream, want, sum>>
  /\ off' = [off EXCEPT ![d] = 0]
  /\ Reclaim

\* os.Remove, the end of every failed download and of every cleanup.
Remove(d) ==
  /\ pc[d] = "remove"
  /\ link' = [link EXCEPT ![Artifact[d]] = None]
  /\ pc' = [pc EXCEPT ![d] = "idle"]
  /\ stream' = [stream EXCEPT ![d] = "none"]
  /\ want' = [want EXCEPT ![d] = FALSE]
  /\ sum' = [sum EXCEPT ![d] = FALSE]
  /\ UNCHANGED <<fd, off>>
  /\ Reclaim

\* hashFile
Hash(d) ==
  /\ pc[d] = "hash"
  /\ IF Path(d) = None
       THEN pc' = [pc EXCEPT ![d] = "remove"] /\ UNCHANGED sum
       ELSE /\ sum' = [sum EXCEPT ![d] = Content(d) = Good]
            /\ pc' = [pc EXCEPT ![d] = "open"]
  /\ UNCHANGED <<link, file, fd, stream, off, want>>

\* OpenZipFs: the directory of a zip is at its end.  Other bytes than the
\* artifact's may be a zip, too.
Parses(f) == f # <<>> /\ f[Len(f)] # "hole"

OpenZip(d) ==
  /\ pc[d] = "open"
  /\ \/ /\ Content(d) # Good
        /\ pc' = [pc EXCEPT ![d] = "remove"]
        /\ UNCHANGED fd
     \/ /\ Parses(Content(d))
        /\ fd' = [fd EXCEPT ![d] = Path(d)]
        /\ pc' = [pc EXCEPT ![d] = "check"]
  /\ UNCHANGED <<link, file, stream, off, want, sum>>

\* DownloadArtifact compares the digests, if it was given one.
AcceptedAny(d) == TRUE   \* Mutation: the digest is not compared.
Accepted(d) == want[d] => sum[d]

\* Mutation: no cleanup after a mismatch.
CheckLeaks(d) ==
  /\ pc[d] = "check"
  /\ pc' = [pc EXCEPT ![d] = IF Accepted(d) THEN "live" ELSE "idle"]
  /\ UNCHANGED <<link, file, fd, stream, off, want, sum>>

Check(d) ==
  /\ pc[d] = "check"
  /\ IF Accepted(d)
       THEN pc' = [pc EXCEPT ![d] = "live"] /\ UNCHANGED fd
       ELSE pc' = [pc EXCEPT ![d] = "remove"] /\ fd' = [fd EXCEPT ![d] = None]
  /\ UNCHANGED <<link, stream, off, want, sum>>
  /\ Reclaim

\* The cleanup function of a filesystem that was returned: close, then remove.
Close(d) ==
  /\ pc[d] = "live"
  /\ fd' = [fd EXCEPT ![d] = None]
  /\ pc' = [pc EXCEPT ![d] = "remove"]
  /\ UNCHANGED <<link, stream, off, want, sum>>
  /\ Reclaim

Init ==
  /\ link = [i \in Ids |-> None]
  /\ file = [n \in Inodes |-> <<>>]
  /\ pc = [d \in Downloads |-> "idle"]
  /\ fd = [d \in Downloads |-> None]
  /\ stream = [d \in Downloads |-> "none"]
  /\ off = [d \in Downloads |-> 0]
  /\ want = [d \in Downloads |-> FALSE]
  /\ sum = [d \in Downloads |-> FALSE]

Next ==
  \E d \in Downloads :
    \/ \E s \in {"good", "bad", "long"}, w \in BOOLEAN : Request(d, s, w)
    \/ Refuse(d) \/ Create(d) \/ Copy(d) \/ CopyEnds(d) \/ Remove(d)
    \/ Hash(d) \/ OpenZip(d) \/ Check(d) \/ Close(d)

Spec == Init /\ [][Next]_vars

-----------------------------------------------------------------------------
(* Properties.                                                             *)

TypeOK ==
  /\ link \in [Ids -> Inodes \cup {None}]
  /\ \A n \in Inodes : \A k \in 1 .. Len(file[n]) : file[n][k] \in {"ok", "bad", "hole"}
  /\ pc \in [Downloads -> {"idle", "create", "copy", "hash", "open", "check", "live", "remove"}]
  /\ fd \in [Downloads -> Inodes \cup {None}]
  /\ \A d \in Downloads : fd[d] # None <=> pc[d] \in {"copy", "check", "live"}
  /\ stream \in [Downloads -> {"none", "good", "bad", "long"}]
  /\ off \in [Downloads -> 0 .. MaxSize + 1]
  /\ want \in [Downloads -> BOOLEAN]
  /\ sum \in [Downloads -> BOOLEAN]

\* d serves a file that still has the path, on which nobody else is at work.
Settled(d) ==
  /\ pc[d] = "live"
  /\ Path(d) = fd[d]
  /\ \A e \in Downloads \ {d} : Artifact[e] = Artifact[d] => pc[e] \in {"idle", "create"}

\* Verified bytes stay verified: a filesystem that was checked against the digest
\* has the artifact's bytes, whatever others did to the path before.
VerifiedIntact == \A d \in Downloads : Settled(d) /\ want[d] => file[fd[d]] = Good

\* A filesystem that is alone with its path is no larger than max_artifact_size,
\* whatever went on there before: truncations, failed downloads, longer bodies.
LiveBounded == \A d \in Downloads : Settled(d) => Len(file[fd[d]]) <= MaxSize

\* Verified bytes stay verified also while the artifact is downloaded again.
AlwaysIntact ==
  \A d \in Downloads : pc[d] = "live" /\ want[d] => file[fd[d]] = Good

\* The limit while the artifact is downloaded again: the new download writes into
\* the very file that is served, one block past the limit before it gives up.
AlwaysBounded == \A d \in Downloads : pc[d] = "live" => Len(file[fd[d]]) <= MaxSize

\* When nobody downloads or uses the artifact its path is free, whatever went
\* wrong and whoever removed the other's file: no zip is left on the disk.
NoFileLeft ==
  \A i \in Ids :
    (\A d \in Downloads : Artifact[d] = i => pc[d] \in {"idle", "create"}) => link[i] = None
=============================================================================
