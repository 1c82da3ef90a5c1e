-------------------------------- MODULE Site --------------------------------
(***************************************************************************)
(* A static site of swim: the prerender middleware in front of Caddy's     *)
(* file server, which reads a merged filesystem of local and archive       *)
(* layers (modules/prerender, mergefs, localfs, vfs).                      *)
(*                                                                         *)
(* The configuration is loaded layer by layer; then clients send requests, *)
(* each one at a time.  Nobody writes the layers; what requests share is   *)
(* the memory of each vfs layer, into which the first reader of a file     *)
(* copies it (afero's CacheOnReadFs, provider.go:34).                      *)
(***************************************************************************)
EXTENDS Mergefs, Prerender, Vfs

CONSTANTS
  Sites,      \* what may be configured: sequences of [backend, tree]
  Overlays,   \* the overlays of vfs layers, a subset of AnyOverlay
  Visitors,   \* the requests that come, a subset of Requests
  Clients,
  None        \* nothing in memory

ASSUME SiteAssumption ==
  /\ Overlays \subseteq AnyOverlay
  /\ Visitors \subseteq Requests
  /\ \A site \in Sites : \A i \in DOMAIN site :
       site[i].tree \in [Paths -> Kinds] /\ Consistent(site[i].tree)
  /\ \A site \in Sites \ {<<>>} : DOMAIN site = 1 .. N

VARIABLES
  phase,     \* config, load, running; rejected, broken
  site,      \* the layers
  ready,     \* how many of them are provisioned
  fault,     \* history: an archive could not be read or fetched
  service,   \* is PrerenderURL set?
  memory,    \* layer -> path -> its copy [by, whole], the latest one
  cl         \* client -> [pc, r, path, failed, answer]

vars == <<phase, site, ready, fault, service, memory, cl>>
configuration == <<phase, site, ready, fault, service>>

NoAnswer == [by |-> "nobody"]
Idle == [pc |-> "idle", r |-> [agent |-> ""], path |-> "",
         failed |-> {},   \* layers from which it could not be copied
         answer |-> NoAnswer]
layers == [i \in 1 .. N |-> site[i].tree]

-----------------------------------------------------------------------------
(* Configuration.                                                          *)

\* The filesystem modules of this build: caddy.fs.localfs, caddy.fs.vfs and
\* caddy.fs.merge.  The tree of a merge layer is what it makes of its own layers.
Registered == {"localfs", "vfs", "merge"}

\* Mergefs.UnmarshalCaddyfile refuses a layer of an unknown name, Provision a
\* filesystem without layers.
Configure(s) ==
  /\ phase = "config"
  /\ site' = s
  /\ phase' = IF s = <<>> \/ \E i \in DOMAIN s : s[i].backend \notin Registered
              THEN "rejected" ELSE "load"
  /\ UNCHANGED <<ready, fault, service, memory, cl>>

Loading(backend) == phase = "load" /\ ready < Len(site) /\ site[ready + 1].backend = backend

\* Localfs.Provision does not look at its root.
LoadLocal ==
  /\ Loading("localfs")
  /\ ready' = ready + 1
  /\ UNCHANGED <<phase, site, fault, service, memory, cl>>

\* Mergefs.Provision of a layer that is merged itself, of layers on the disk.
LoadMerge(nested) ==
  /\ Loading("merge")
  /\ IF nested = <<>> THEN phase' = "rejected" /\ UNCHANGED ready
     ELSE ready' = ready + 1 /\ UNCHANGED phase
  /\ UNCHANGED <<site, fault, service, memory, cl>>

\* Vfs.Provision: a failure is one of the whole configuration.
LoadVfs(o, w) ==
  LET opened == OpenFilesystem(o, w) IN
  /\ Loading("vfs")
  /\ fault' = (fault \/ w.fetch # "ok")
  /\ CASE opened \in {"archive", "directory"} -> ready' = ready + 1 /\ UNCHANGED phase
       [] opened = "fails" -> phase' = "rejected" /\ UNCHANGED ready
       [] opened = "broken" -> phase' = "broken" /\ UNCHANGED ready
  /\ UNCHANGED <<site, service, memory, cl>>

\* Prerender.UnmarshalCaddyfile sets the default URL; JSON may leave it out.
ServiceSet(from, given) == given \/ from = "caddyfile"

Run(from, given) ==
  /\ phase = "load"
  /\ ready = Len(site)
  /\ phase' = "running"
  /\ service' = ServiceSet(from, given)
  /\ UNCHANGED <<site, ready, fault, memory, cl>>

-----------------------------------------------------------------------------
(* Requests.                                                               *)

At(c, pc) == phase = "running" /\ cl[c].pc = pc

\* Prerender.ServeHTTP: the rest of the request is kept for who needs it.
Receive(c, r, path) ==
  /\ At(c, "idle")
  /\ cl' = [cl EXCEPT ![c] =
       IF ShouldPrerender(r) THEN [Idle EXCEPT !.pc = "ask", !.r = r]
       ELSE [Idle EXCEPT !.pc = "file", !.path = path]]
  /\ UNCHANGED <<configuration, memory>>

Answered(c, a) ==
  cl' = [cl EXCEPT ![c].pc = "done", ![c].answer = a] /\ UNCHANGED configuration

\* BuildURL dereferences PrerenderURL.
NoService(c) ==
  At(c, "ask") /\ ~service /\ Answered(c, [by |-> "panic"]) /\ UNCHANGED memory

\* A reply that breaks off cannot be told from one that does not: io.Copy
\* returns, and so does the handler.
ServiceReplies(c, reply) ==
  /\ At(c, "ask")
  /\ service
  /\ Answered(c, PreRenderHandler(cl[c].r, reply))
  /\ UNCHANGED memory

\* client.Do fails: the handler returns having written nothing.
ServiceFails(c) ==
  At(c, "ask") /\ service /\ Answered(c, Nothing(cl[c].r)) /\ UNCHANGED memory

\* The file server's answer; whole tells whether a file is all of it.
File(kind, from, whole) == [by |-> "files", kind |-> kind, from |-> from, whole |-> whole]

\* The vfs layer that has the file that c gets, if one has.  A layer from which
\* it cannot be copied is one that cannot tell.
Seen(c) ==
  [i \in 1 .. N |-> IF i \in cl[c].failed
                    THEN [layers[i] EXCEPT ![cl[c].path] = "denied"] ELSE layers[i]]
Source(c) == Open(Seen(c), cl[c].path)
FromVfs(c) == Source(c).kind = "file" /\ \A i \in Source(c).from : site[i].backend = "vfs"
Layer(c) == CHOOSE i \in Source(c).from : TRUE
Copied(c) == memory[Layer(c)][cl[c].path]

\* The file server opens the path in the merged filesystem.
ServeFile(c) ==
  /\ At(c, "file")
  /\ ~FromVfs(c)
  /\ Answered(c, File(Source(c).kind, Source(c).from, TRUE))
  /\ UNCHANGED memory

\* CacheOnReadFs.Open: what is in memory is never compared with the archive.
ServeCopy(c) ==
  /\ At(c, "file") \/ At(c, "reopen")
  /\ FromVfs(c)
  /\ Copied(c) # None
  /\ Answered(c, File("file", {Layer(c)}, Copied(c).whole))
  /\ UNCHANGED memory

\* What is not is copied first.  A copy that another reader has begun is
\* replaced, and written on under no name.
BeginCopy(c) ==
  /\ At(c, "file")
  /\ FromVfs(c)
  /\ Copied(c) = None
  /\ cl' = [cl EXCEPT ![c].pc = "create"]
  /\ UNCHANGED <<configuration, memory>>

Keep(c, copy) == memory' = [memory EXCEPT ![Layer(c)][cl[c].path] = copy]

CreateCopy(c) ==
  /\ At(c, "create")
  /\ Keep(c, [by |-> c, whole |-> FALSE])
  /\ cl' = [cl EXCEPT ![c].pc = "copy"]
  /\ UNCHANGED configuration

EndCopy(c) ==
  /\ At(c, "copy")
  /\ Keep(c, IF Copied(c) # None /\ Copied(c).by = c
             THEN [by |-> c, whole |-> TRUE] ELSE Copied(c))
  /\ cl' = [cl EXCEPT ![c].pc = "reopen"]
  /\ UNCHANGED configuration

GoOn(c) ==
  /\ cl' = [cl EXCEPT ![c].pc = "file", ![c].failed = @ \cup {Layer(c)}]
  /\ UNCHANGED configuration

\* Mutation: what has been copied of the file stays.
CopyStays(c) == At(c, "copy") /\ GoOn(c) /\ UNCHANGED memory

\* The archive cannot be read: the name is removed, whoever's copy it names,
\* and the layers below are asked, as after any error of a layer.
CopyFails(c) == At(c, "copy") /\ Keep(c, None) /\ GoOn(c)

\* The same, because the copy of another reader has failed.
CopyGone(c) == At(c, "reopen") /\ Copied(c) = None /\ GoOn(c) /\ UNCHANGED memory

Done(c) ==
  /\ At(c, "done")
  /\ cl' = [cl EXCEPT ![c] = Idle]
  /\ UNCHANGED <<configuration, memory>>

Init ==
  /\ phase = "config"
  /\ site = <<>>
  /\ ready = 0
  /\ fault = FALSE
  /\ service = FALSE
  /\ memory = [i \in 1 .. N |-> [p \in Paths |-> None]]
  /\ cl = [c \in Clients |-> Idle]

Loads ==
  \/ \E s \in Sites : Configure(s)
  \/ LoadLocal
  \/ \E nested \in {<<>>, <<"localfs">>} : LoadMerge(nested)
  \/ phase = "load" /\ \E o \in Overlays, w \in Worlds : LoadVfs(o, w)
  \/ \E from \in {"caddyfile", "json"}, given \in BOOLEAN : Run(from, given)

Answers(c) ==
  \/ \E r \in Visitors, path \in Paths : Receive(c, r, path)
  \/ NoService(c) \/ ServiceFails(c) \/ \E reply \in Replies : ServiceReplies(c, reply)
  \/ ServeFile(c) \/ ServeCopy(c)
  \/ BeginCopy(c) \/ CreateCopy(c) \/ EndCopy(c) \/ CopyFails(c) \/ CopyGone(c)
  \/ Done(c)

Next == Loads \/ \E c \in Clients : Answers(c)

Spec == Init /\ [][Next]_vars

-----------------------------------------------------------------------------
(* Properties.                                                             *)

Holders(path) == {i \in 1 .. N : layers[i][path] # "none"}
First(S) == CHOOSE i \in S : \A j \in S : i <= j
Readable(path) == \A i \in 1 .. N : layers[i][path] # "denied"
By(c, who) == cl[c].answer.by = who

\* What is served is what the first layer holds that has the path, unless a
\* layer cannot tell or its file cannot be copied (mergefs/handler.go:65).
FirstLayerWins == \A c \in Clients : LET a == cl[c].answer IN
  By(c, "files") /\ Readable(cl[c].path) /\ cl[c].failed = {} =>
    IF Holders(cl[c].path) = {} THEN a.kind = "none"
    ELSE LET i == First(Holders(cl[c].path))
         IN  /\ a.kind = layers[i][cl[c].path]
             /\ i \in a.from
             /\ a.kind = "file" => a.from = {i}

\* What a directory lists can be opened and is what the listing says, be the
\* directory united from several layers (mergefs/handler.go:88).
ListedOpens == \A c \in Clients :
  By(c, "files") /\ cl[c].answer.kind = "dir" =>
    \A p \in Listing(layers, cl[c].path) :
      Readable(p) => Open(layers, p).kind = ListedKind(layers, cl[c].path, p)

\* A crawler is told of gzip only if it takes it, whatever the service sends; and
\* from a service that sends what it was asked for, gzip or nothing, each crawler
\* gets the page in the encoding that its answer names (prerender.go:190).
EncodingHonest == \A c \in Clients : LET a == cl[c].answer IN
  By(c, "prerender") =>
    /\ "gzip" \in a.label => cl[c].r.gzip
    /\ a.came \in AskedFor => a.label = a.coded

\* An archive that cannot be fetched, or not to its end, is refused with the
\* whole configuration: nothing is ever served from a part of it, or from the
\* error page of its server (provider.go:101, archive.go:35).
FaultsReported == fault => phase = "rejected"

\* However readers of a file overlap and fail, what is left of it in memory,
\* where it stays for good, is all of it (provider.go:34).
MemoryWhole ==
  \A i \in 1 .. N, p \in Paths : memory[i][p] # None /\ ~memory[i][p].whole =>
    \E c \in Clients : cl[c].pc = "copy" /\ Layer(c) = i /\ cl[c].path = p

-----------------------------------------------------------------------------
(* What does not hold.                                                     *)

\* What a file of an archive is served with is all of it; but a reader who comes
\* while another one copies it gets the part that is there (provider.go:34).
FilesWhole == \A c \in Clients :
  By(c, "files") /\ cl[c].answer.kind = "file" => cl[c].answer.whole

\* An archive that can be fetched is served or refused; but the type of
\* "site.zip?version=2" is guessed to be tar, and what is wrong with a tar
\* archive nobody is told (provider.go:108, archive.go:52).
NeverBroken == phase # "broken"

\* The root of readme.md:61, "s3://bucket/site.tar.gz", names an object of the
\* bucket; but "bucket" is taken for the endpoint (s3.go:33).
SampleObject ==
  phase = "config" \/
  LET unset == [name \in {"AWS_ENDPOINT_URL", "AWS_BUCKET_NAME"} |-> ""]
  IN  S3Object("bucket", <<"site.tar.gz">>, unset, unset).bucket = "bucket"

\* "directory listings are combined across all layers" (readme.md:51): not
\* across a layer that has a file of that name, though what is below the
\* directory further down can be opened.
ListingComplete == \A c \in Clients :
  By(c, "files") /\ cl[c].answer.kind = "dir" =>
    \A p \in Paths \ {cl[c].path} :
      Parent[p] = cl[c].path /\ Readable(p) /\ Open(layers, p).kind # "none" =>
        p \in Listing(layers, cl[c].path)

\* "with the first layer winning on conflicts" (readme.md:51): a path that the
\* first layer has but cannot read is served from a layer below.
DeniedStaysDenied == \A c \in Clients :
  By(c, "files") /\ layers[1][cl[c].path] = "denied" => cl[c].answer.kind = "denied"

\* A visitor who gets a status of success gets the page; the service failing
\* is answered with an empty page, breaking off with half of it
\* (prerender.go:181, prerender.go:199).
SuccessIsWhole == \A c \in Clients : By(c, "prerender") => cl[c].answer.whole

\* The answer names the encoding of its body whatever the service sends; but what
\* comes in another one is gzipped on top and called gzip alone (prerender.go:193).
LabelComplete == \A c \in Clients :
  By(c, "prerender") => cl[c].answer.label = cl[c].answer.coded

\* The page rendered is the page visited: a visitor over TLS without a proxy
\* in front gets the page of http (prerender.go:150).
RightScheme == \A c \in Clients : LET r == cl[c].r IN
  By(c, "prerender") /\ r.forwarded = "" /\ r.cf = "" =>
    cl[c].answer.page = IF r.tls THEN "https" ELSE "http"

\* The middleware knows its service, whatever it was configured in; only the
\* Caddyfile has a default for it (prerender.go:83, prerender.go:136).
NeverPanics == \A c \in Clients : ~By(c, "panic")
=============================================================================
