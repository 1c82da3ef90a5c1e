-------------------------------- MODULE Vfs --------------------------------
(***************************************************************************)
(* A vfs layer (modules/vfs, pkg/archive): an archive, or a directory,     *)
(* that is opened when the configuration is loaded, and read through       *)
(* copies in memory.                                                       *)
(*                                                                         *)
(* An overlay gives the parts of its root URL that the code looks at; its  *)
(* settings (bucket name, endpoint, credentials) come from headers or, for *)
(* want of one, from the environment.                                      *)
(***************************************************************************)
EXTENDS Sequences

Types == {".zip", ".tar.gz", ".tar"}
AnyOverlay ==
  [scheme : {"", "file", "http", "https", "s3", "gs", "ftp"},
   host : BOOLEAN, path : BOOLEAN,   \* which parts the URL has
   ext : Types \cup {""},            \* what the path ends with
   query : BOOLEAN,                  \* a query follows it
   type : Types \cup {"", ".rar"},
   credentials : {"", "good", "bad"}]

\* What the other side does and has: a directory, an archive, or a page of
\* text.  What is read at once may break off half-way.
Worlds == {w \in [fetch : {"ok", "unreachable", "missing", "breaks"},
                  body : Types \cup {"page", "dir"}] : w.body = "dir" => w.fetch # "breaks"}

\* headerOrEnv.
HeaderOrEnv(headers, env, name) ==
  IF headers[name] # "" THEN headers[name] ELSE env[name]

\* openS3: the host is the endpoint, and the bucket the first segment of the
\* path, unless the settings say otherwise.
S3Object(host, path, headers, env) ==
  LET endpoint == HeaderOrEnv(headers, env, "AWS_ENDPOINT_URL")
      bucket == HeaderOrEnv(headers, env, "AWS_BUCKET_NAME")
      parts == IF bucket # "" THEN [bucket |-> bucket, key |-> path]
               ELSE [bucket |-> Head(path), key |-> Tail(path)]
  IN  [endpoint |-> IF endpoint # "" THEN endpoint ELSE host,
       bucket |-> parts.bucket, key |-> parts.key]

\* FiletypeFromName, of the text of the whole URL.
Filetype(o) ==
  CASE o.type # "" -> o.type
    [] o.type = "" /\ o.ext # "" /\ ~o.query -> o.ext
    [] OTHER -> ".tar"

\* tarfs.New (external) has no error to return: of what is no tar archive it
\* makes nothing that works.
Tar(body) == IF body = ".tar" THEN "archive" ELSE "broken"

\* FilesystemFromReader
FilesystemFromReader(ft, w) ==
  CASE w.fetch = "breaks" \/ ft \notin Types -> "fails"
    [] w.fetch # "breaks" /\ ft = ".zip" -> IF w.body = ".zip" THEN "archive" ELSE "fails"
    [] w.fetch # "breaks" /\ ft = ".tar.gz" -> IF w.body = ".tar.gz" THEN "archive" ELSE "fails"
    [] w.fetch # "breaks" /\ ft = ".tar" -> Tar(w.body)

\* Mutation: the error page of a server is taken for the archive.
StatusIgnored(o, w) ==
  IF w.fetch = "unreachable" THEN "fails" ELSE FilesystemFromReader(Filetype(o), w)

OpenHttp(o, w) ==
  IF w.fetch \in {"unreachable", "missing"} THEN "fails"
  ELSE FilesystemFromReader(Filetype(o), w)

OpenFile(o, w) ==
  CASE ~o.path \/ w.fetch \in {"unreachable", "missing"} -> "fails"
    [] o.path /\ w.fetch \in {"ok", "breaks"} ->
         IF w.body = "dir" THEN "directory" ELSE FilesystemFromReader(Filetype(o), w)

OpenS3(o, w) ==
  IF w.fetch \in {"unreachable", "missing"} \/ ~o.path THEN "fails"
  ELSE FilesystemFromReader(Filetype(o), w)

OpenGcs(o, w) ==
  IF ~o.host \/ ~o.path \/ o.credentials = "bad" \/ w.fetch \in {"unreachable", "missing"}
  THEN "fails" ELSE FilesystemFromReader(Filetype(o), w)

\* OpenFilesystem: "fails", or what the layer is then.
OpenFilesystem(o, w) ==
  CASE o.scheme \in {"", "file"} -> OpenFile(o, w)
    [] o.scheme \in {"http", "https"} -> OpenHttp(o, w)
    [] o.scheme = "s3" -> OpenS3(o, w)
    [] o.scheme = "gs" -> OpenGcs(o, w)
    [] OTHER -> "fails"
=============================================================================
