---------------------------- MODULE TwoPreviews ----------------------------
(***************************************************************************)
(* Two github_preview handlers, each for a repository of its own, in one   *)
(* Caddy configuration.  Everything is their own but Caddy's filesystem    *)
(* map: both register under the same names (handler.go:499).               *)
(***************************************************************************)
EXTENDS Integers, FiniteSets

CONSTANTS
  Keys,                     \* the previews both sites have
  ArtifactsA, ArtifactsB,   \* key -> the artifacts of the one, of the other
  RequestsA, RequestsB,     \* their HTTP requests
  Copies, MaxSize, Pruner, Stopper, None

VARIABLES
  fsmap,    \* Caddy's filesystem map
  metaA, entriesA, olderA, openA, flightA, refreshingA, thA,
  snapA, leftA, victimsA, doomedA, coolingA,
  metaB, entriesB, olderB, openB, flightB, refreshingB, thB,
  snapB, leftB, victimsB, doomedB, coolingB

ofA == <<metaA, entriesA, olderA, openA, flightA, refreshingA, thA,
         snapA, leftA, victimsA, doomedA, coolingA>>
ofB == <<metaB, entriesB, olderB, openB, flightB, refreshingB, thB,
         snapB, leftB, victimsB, doomedB, coolingB>>
vars == <<fsmap, ofA, ofB>>

A == INSTANCE GithubPreview WITH
  PRs <- {}, ArtifactsOf <- ArtifactsA, Requests <- RequestsA,
  SWR <- FALSE, MaxAge <- FALSE, Ops <- {"serve"},
  meta <- metaA, entries <- entriesA, older <- olderA, open <- openA,
  flight <- flightA, refreshing <- refreshingA, th <- thA, snap <- snapA,
  left <- leftA, victims <- victimsA, doomed <- doomedA, cooling <- coolingA

B == INSTANCE GithubPreview WITH
  PRs <- {}, ArtifactsOf <- ArtifactsB, Requests <- RequestsB,
  SWR <- FALSE, MaxAge <- FALSE, Ops <- {"serve"},
  meta <- metaB, entries <- entriesB, older <- olderB, open <- openB,
  flight <- flightB, refreshing <- refreshingB, th <- thB, snap <- snapB,
  left <- leftB, victims <- victimsB, doomed <- doomedB, cooling <- coolingB

Init == A!Init /\ B!Init

Next ==
  \/ A!Next /\ UNCHANGED ofB
  \/ B!Next /\ UNCHANGED ofA

Spec == Init /\ [][Next]_vars

\* What is found under the name a handler hands to the file server is an
\* artifact of its own repository, if it is found at all: "fsKeyPrefix is used
\* to namespace our entries in the global FileSystems map" (handler.go:42).
OwnSite ==
  /\ \A p \in RequestsA : A!Pc(p) = "serve" /\ fsmap[A!Key(p)] # None =>
       fsmap[A!Key(p)][1] \in A!Ids
  /\ \A p \in RequestsB : B!Pc(p) = "serve" /\ fsmap[B!Key(p)] # None =>
       fsmap[B!Key(p)][1] \in B!Ids
=============================================================================
