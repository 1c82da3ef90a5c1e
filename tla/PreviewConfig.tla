--------------------------- MODULE PreviewConfig ---------------------------
(***************************************************************************)
(* A github_preview handler from its configuration to its routing: parsing *)
(* (config.go), Provision and Cleanup, the dispatch of ServeHTTP and of    *)
(* the management API, and the keys both name previews by (handler.go,     *)
(* api.go, debug.go, templates.go).                                        *)
(*                                                                         *)
(* A text is "", "good", "bad" (rejected by whoever reads it), "env" (a    *)
(* placeholder of an environment variable) or, for host_re, "nogroup" (no  *)
(* capture group).  A path is the sequence of its segments: "/a/b" is      *)
(* <<"a", "b">>, "/a/" is <<"a", "">>.  Sizes wrap around as int64 does.   *)
(***************************************************************************)
EXTENDS Integers, Sequences

CONSTANTS
  Limit,        \* integers go from -Limit to Limit - 1 (2^63)
  K,            \* a kilobyte (1024)
  Default,      \* number option -> its default
  ApiDefault,   \* defaultApiPath
  Options,      \* the options that occur
  MaxLines,     \* how many of them a configuration gives
  Numbers,      \* the numbers written in a configuration
  Paths,        \* the values of api_path
  Labels,       \* texts a host name can yield
  Atoi,         \* label -> number, for the labels that strconv.Atoi accepts
  Decimal,      \* number -> the label that writes it in decimal
  NoLabel       \* the host name does not match

Durations == {"metadata_ttl", "prune_interval", "max_artifact_age"}
Sizes == {"max_artifact_size", "read_cache_size"}
NumberOptions == Durations \cup Sizes \cup {"max_artifacts"}
Replaceable == {"repo", "token", "api_key", "api_url", "error_template_file"}
TextOptions == Replaceable \cup
  {"workflow", "artifact_name", "artifact_type", "workdir", "host_re", "error_template"}

ASSUME LimitAssumption == Limit \in Nat /\ K \in Nat \ {0} /\ K * K * K < Limit
ASSUME DefaultAssumption == Default \in [NumberOptions -> 1..Limit - 1]
ASSUME NumbersAssumption == Numbers \subseteq Int
\* The segments of paths.
Segments == {"refresh", "status"} \cup
            UNION {{p[k] : k \in 1 .. Len(p)} : p \in Paths \cup {ApiDefault}}
ASSUME PathsAssumption == Paths \subseteq Seq(Segments) /\ ApiDefault \in Seq(Segments) \ {<<>>}
ASSUME CodecAssumption == DOMAIN Decimal \subseteq -Limit .. Limit - 1 /\
  \A n \in DOMAIN Decimal : Decimal[n] \in DOMAIN Atoi /\ Atoi[Decimal[n]] = n

VARIABLES
  phase,     \* parse, rejected, loaded, running, failed, stopped, panicked
  format,    \* caddyfile or json
  env,       \* what the environment variable holds
  text, num, path, swr,   \* the fields of GithubPreview
  lines,     \* options read so far
  written,   \* history: the sizes the Caddyfile means
  made,      \* what Provision has created: caches, pruner
  did        \* the last request: [op, key, pr]

fields == <<text, num, path, swr>>
vars == <<phase, format, env, fields, lines, written, made, did>>

-----------------------------------------------------------------------------
(* Parsing.  JSON goes straight into the struct, without the checks.       *)

Wrap(x) == ((x + Limit) % (2 * Limit)) - Limit

\* strconvAtoi, of a text that is a number.
AnyInt(n) == n \in -Limit .. Limit - 1   \* Mutation: strconv.Atoi alone.
NonNegative(n) == n \in 0 .. Limit - 1

Units == {"B", "KB", "MB", "GB"}
Multiplier(unit) ==
  CASE unit = "B" -> 1 [] unit = "KB" -> K [] unit = "MB" -> K * K [] OTHER -> K * K * K

Parse(o) ==
  /\ phase = "parse"
  /\ o \in Options
  /\ lines < MaxLines
  /\ lines' = lines + 1
  /\ UNCHANGED <<format, env, made, did>>

TextValues(o) ==
  {"good"} \cup (IF o \in {"repo", "host_re", "error_template", "error_template_file"}
                 THEN {"bad"} ELSE {})
           \cup (IF o = "host_re" THEN {"nogroup"} ELSE {})
           \cup (IF o \in {"repo", "api_key", "error_template_file"}
                 THEN {"env"} ELSE {})

ReadText(o, v) ==
  /\ Parse(o)
  /\ text' = [text EXCEPT ![o] = v]
  /\ UNCHANGED <<phase, num, path, swr, written>>

ReadPath(p) ==
  /\ Parse("api_path")
  /\ path' = p
  /\ UNCHANGED <<phase, text, num, swr, written>>

ReadFlag(b) ==
  /\ Parse("stale_while_revalidate")
  /\ swr' = b
  /\ UNCHANGED <<phase, text, num, path, written>>

\* time.ParseDuration takes negative durations.
ReadDuration(o, n) ==
  /\ Parse(o)
  /\ num' = [num EXCEPT ![o] = n]
  /\ UNCHANGED <<phase, text, path, swr, written>>

ReadCount(n) ==
  /\ Parse("max_artifacts")
  /\ IF format = "json" \/ NonNegative(n)
     THEN num' = [num EXCEPT !["max_artifacts"] = n] /\ UNCHANGED phase
     ELSE phase' = "rejected" /\ UNCHANGED num
  /\ UNCHANGED <<text, path, swr, written>>

ReadSize(o, n, unit) ==
  /\ Parse(o)
  /\ IF format = "json"
     THEN num' = [num EXCEPT ![o] = n] /\ UNCHANGED <<phase, written>>
     ELSE IF NonNegative(n)
     THEN /\ num' = [num EXCEPT ![o] = Wrap(n * Multiplier(unit))]
          /\ written' = [written EXCEPT ![o] = n * Multiplier(unit)]
          /\ UNCHANGED phase
     ELSE phase' = "rejected" /\ UNCHANGED <<num, written>>
  /\ UNCHANGED <<text, path, swr>>

\* A missing argument, an unknown option, a text that is no number.
Malformed ==
  /\ phase = "parse"
  /\ phase' = "rejected"
  /\ UNCHANGED <<format, env, fields, lines, written, made, did>>

EndOfFile ==
  /\ phase = "parse"
  /\ phase' = "loaded"
  /\ UNCHANGED <<format, env, fields, lines, written, made, did>>

-----------------------------------------------------------------------------
(* Provision and Cleanup.                                                  *)

Replaced == [o \in TextOptions |->
               IF o \in Replaceable /\ text[o] = "env" THEN env ELSE text[o]]

MissingRequired == Replaced["repo"] # "good" \/ text["workflow"] = ""

\* newTemplateRenderer: a template file wins over an inline template.
TemplateBad ==
  \/ Replaced["error_template_file"] = "bad"
  \/ Replaced["error_template_file"] = "" /\ text["error_template"] = "bad"

\* The defaults of the text options are good.
TextDefaults == {"artifact_name", "artifact_type", "workdir", "api_url", "host_re"}
TextWithDefaults ==
  [o \in TextOptions |->
     IF o \in TextDefaults /\ Replaced[o] = "" THEN "good" ELSE Replaced[o]]

\* Mutation: a default is forgotten.
DefaultedButCache == NumberOptions \ {"max_artifact_age", "read_cache_size"}

\* Of the numbers only max_artifact_age has no default: 0 switches it off.
Defaulted == NumberOptions \ {"max_artifact_age"}
NumWithDefaults ==
  [o \in NumberOptions |->
     IF o \in Defaulted /\ num[o] = 0 THEN Default[o] ELSE num[o]]

\* Placeholders are replaced and the required fields checked first ...
ProvisionRefuses ==
  /\ phase = "loaded"
  /\ MissingRequired
  /\ phase' = "failed"
  /\ text' = Replaced
  /\ UNCHANGED <<format, env, num, path, swr, lines, written, made, did>>

Provisioned(to, what) ==
  /\ phase = "loaded"
  /\ ~MissingRequired
  /\ phase' = to
  /\ made' = what
  /\ text' = TextWithDefaults
  /\ num' = NumWithDefaults
  /\ path' = IF path = <<>> THEN ApiDefault ELSE path
  /\ UNCHANGED <<format, env, swr, lines, written, did>>

\* ... then the defaults are set, host_re is compiled, the caches are made,
\* the template is read and the pruner started.
BadHostRe == text["host_re"] = "bad" /\ Provisioned("failed", {})
BadTemplate ==
  text["host_re"] # "bad" /\ TemplateBad /\ Provisioned("failed", {"caches"})
Provision ==
  /\ text["host_re"] # "bad"
  /\ ~TemplateBad
  /\ Provisioned("running", {"caches", "pruner"})

\* Caddy cleans up a module it has provisioned, or has failed to provision;
\* Cleanup takes a snapshot of the metadata cache, which may be nil.
Cleanup ==
  /\ phase \in {"running", "failed"}
  /\ phase' = IF "caches" \in made THEN "stopped" ELSE "panicked"
  /\ UNCHANGED <<format, env, fields, lines, written, made, did>>

\* runPruner: time.NewTicker panics unless the interval is positive.
PrunerPanics ==
  /\ phase = "running"
  /\ num["prune_interval"] <= 0
  /\ phase' = "panicked"
  /\ UNCHANGED <<format, env, fields, lines, written, made, did>>

-----------------------------------------------------------------------------
(* Requests.                                                               *)

Key(kind, name) == <<kind, name>>

\* extractKey, from what host_re captures: all digits name a PR.
HostKey(label) ==
  IF label \in DOMAIN Atoi /\ NonNegative(Atoi[label])
  THEN Key("pr", label) ELSE Key("branch", label)
Matches(label) == label # NoLabel /\ text["host_re"] # "nogroup"

\* refreshRequest and evictRequest: valid() and key().
Bodies == [pr : DOMAIN Decimal, branch : Labels \cup {""}]
Valid(body) == body.pr # 0 \/ body.branch # ""
BranchOnly(body) == Key("branch", body.branch)   \* Mutation: the PR is ignored.
ApiKey(body) ==
  IF body.branch # "" THEN Key("branch", body.branch) ELSE Key("pr", Decimal[body.pr])

\* A path under api_path: a string prefix that ends where a segment does.
UnderApi(url) ==
  url = path \/ (Len(path) < Len(url) /\ SubSeq(url, 1, Len(path)) = path)
Subpath(url) == SubSeq(url, Len(path) + 1, Len(url))

AnyKey(given) == text["api_key"] # ""   \* Mutation: the key is not compared.
Authentic(given) == text["api_key"] # "" /\ given = text["api_key"]

\* ServeHTTP and handleAPI: who gets a request for url with method m and the
\* X-Api-Key given.
Route(url, m, given) ==
  CASE ~UnderApi(url) -> "site"
    [] UnderApi(url) /\ ~Authentic(given) -> "unauthorized"
    [] UnderApi(url) /\ Authentic(given) ->
         CASE Subpath(url) = <<"refresh">> /\ m = "POST" -> "refresh"
           [] Subpath(url) = <<"refresh">> /\ m = "DELETE" -> "evict"
           [] Subpath(url) = <<"status">> /\ m = "GET" -> "status"
           [] OTHER -> "notfound"

DebugUrl == <<".well-known", "deployment-debug">>
Urls == {<<"">>, DebugUrl} \cup {<<"index.html">>} \cup
        {p \o s : p \in Paths \cup {ApiDefault},
                  s \in {<<>>, <<"">>, <<"refresh">>, <<"status">>}}
Methods == {"GET", "POST", "DELETE"}
KeysGiven == {"", "good", "bad"}

NoPR == 0
Did(op, key, pr) == did' = [op |-> op, key |-> key, pr |-> pr]
Answering ==
  /\ phase = "running"
  /\ UNCHANGED <<phase, format, env, fields, lines, written, made>>

\* A request of the site: the error page without a key, the debug page, or
\* resolveAndRegister and the file server.
Serve(url, label) ==
  /\ Answering
  /\ Route(url, "GET", "") = "site"
  /\ CASE ~Matches(label) -> Did("nopreview", NoLabel, NoPR)
       [] Matches(label) /\ url = DebugUrl -> Did("debug", HostKey(label), NoPR)
       [] Matches(label) /\ url # DebugUrl -> Did("serve", HostKey(label), NoPR)

\* A request of the management API that names no preview.
Manage(url, m, given) ==
  /\ Answering
  /\ Route(url, m, given) \in {"unauthorized", "status", "notfound"}
  /\ Did(Route(url, m, given), NoLabel, NoPR)

\* handleRefresh and handleEvict, from a body that is JSON.
Named(url, m, given, body) ==
  /\ Answering
  /\ Route(url, m, given) \in {"refresh", "evict"}
  /\ IF Valid(body)
     THEN Did(Route(url, m, given), ApiKey(body),
              IF body.branch = "" THEN body.pr ELSE NoPR)
     ELSE Did("badrequest", NoLabel, NoPR)

NotJSON(url, m, given) ==
  /\ Answering
  /\ Route(url, m, given) \in {"refresh", "evict"}
  /\ Did("badrequest", NoLabel, NoPR)

-----------------------------------------------------------------------------
Init ==
  /\ phase = "parse"
  /\ format \in {"caddyfile", "json"}
  /\ env \in {"", "good", "bad"}
  /\ text = [o \in TextOptions |-> ""]
  /\ num = [o \in NumberOptions |-> 0]
  /\ path = <<>>
  /\ swr = FALSE
  /\ lines = 0
  /\ written = [o \in Sizes |-> 0]
  /\ made = {}
  /\ did = [op |-> "none", key |-> NoLabel, pr |-> NoPR]

Parsing ==
  \/ \E o \in TextOptions : \E v \in TextValues(o) : ReadText(o, v)
  \/ \E p \in Paths : ReadPath(p)
  \/ \E b \in BOOLEAN : ReadFlag(b)
  \/ \E o \in Durations, n \in Numbers : ReadDuration(o, n)
  \/ \E n \in Numbers : ReadCount(n)
  \/ \E o \in Sizes, n \in Numbers, unit \in Units : ReadSize(o, n, unit)
  \/ Malformed
  \/ EndOfFile

Provisioning ==
  ProvisionRefuses \/ BadHostRe \/ BadTemplate \/ Provision \/ PrunerPanics \/ Cleanup

Requesting ==
  /\ phase = "running"
  /\ \/ \E url \in Urls, label \in Labels \cup {NoLabel} : Serve(url, label)
     \/ \E url \in Urls, m \in Methods, given \in KeysGiven :
          \/ Manage(url, m, given)
          \/ NotJSON(url, m, given)
          \/ \E body \in Bodies : Named(url, m, given, body)

Next == Parsing \/ Provisioning \/ Requesting

Spec == Init /\ [][Next]_vars

-----------------------------------------------------------------------------
(* Properties.                                                             *)

\* A handler that a Caddyfile has set up holds at least one artifact, as
\* newArtifactCache needs it: a count that is missing, zero or wrong ends up
\* as the default or as an error (config.go:81, handler.go:175).
LimitsUsable ==
  phase = "running" /\ format = "caddyfile" => num["max_artifacts"] > 0

\* The size limits in force are those the Caddyfile means, the default for
\* none or 0, as long as an int64 can hold them (config.go:196,
\* handler.go:178, handler.go:187).
SizesAsWritten ==
  phase = "running" /\ format = "caddyfile" =>
    \A o \in Sizes : written[o] < Limit =>
      num[o] = IF written[o] = 0 THEN Default[o] ELSE written[o]

\* The management API is there for who has the key, and for nobody else: a request
\* with another key, or any request without an api_key, be it that its environment
\* variable is not set, is turned away whatever its path and method; who has the key
\* finds refresh and evict at api_path followed by "/refresh"; and nothing outside
\* of its first segment is taken for the API (handler.go:270, api.go:22, api.go:214).
ApiGuarded ==
  phase = "running" =>
    /\ \A url \in Urls, m \in Methods, given \in KeysGiven :
         text["api_key"] = "" \/ given # text["api_key"]
           => Route(url, m, given) \in {"site", "unauthorized"}
    /\ text["api_key"] # "" =>
         /\ Route(path \o <<"refresh">>, "POST", text["api_key"]) = "refresh"
         /\ Route(path \o <<"refresh">>, "DELETE", text["api_key"]) = "evict"
    /\ \A url \in Urls : path[1] # url[1] => Route(url, "GET", "") = "site"

\* The key by which the API refreshes or evicts PR n is the key under which
\* the host name with n serves it (api.go:51, handler.go:340).
ApiNamesHost ==
  did.op \in {"refresh", "evict"} /\ did.pr > 0 =>
    did.key = HostKey(Decimal[did.pr])

-----------------------------------------------------------------------------
(* What does not hold.                                                     *)

\* A configuration is refused with an error, never with a panic.  A handler
\* whose Provision fails before the caches exist panics in Cleanup, and a
\* negative prune_interval in the pruner (handler.go:259, handler.go:548).
NeverPanics == phase # "panicked"

\* Any way to write the number of a PR in a host name gives its one key; but
\* pr-042 is another key than pr-42 (handler.go:340).
OneKeyPerPR ==
  did.op = "evict" /\ did.pr # NoPR => \A label \in DOMAIN Atoi :
    Atoi[label] = did.pr => HostKey(label) = did.key

\* The sample configuration of readme.md:98-103, which gives four options and
\* no workflow, sets up a handler; but workflow is required (handler.go:144).
SampleOptions == {"repo", "token", "artifact_name", "workdir"}
SampleProvisions ==
  (\A o \in TextOptions : text[o] = IF o \in SampleOptions THEN "good" ELSE "")
    => phase # "failed"

\* An api_path may be written with a "/" at its end; but then "/api/refresh"
\* is a page of the site and only "/api//refresh" the API (handler.go:270).
TrailingSlashIgnored ==
  phase = "running" /\ text["api_key"] # "" /\ path[Len(path)] = "" =>
    Route([path EXCEPT ![Len(path)] = "refresh"], "POST", text["api_key"]) = "refresh"
=============================================================================
