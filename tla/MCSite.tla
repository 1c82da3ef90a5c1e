------------------------------- MODULE MCSite -------------------------------
(* A small instance of Site for TLC: a directory with one entry, a file     *)
(* beside it, and every way three layers can hold them.                     *)
EXTENDS Site, TLC

PathSet == {"static", "static/app.js"}
ParentOf == "static" :> "static" @@ "static/app.js" :> "static"

Trees == {tree \in [Paths -> Kinds] : Consistent(tree)}
Of(backend, tree) == [backend |-> backend, tree |-> tree]
LocalSites == {[i \in 1 .. N |-> Of("localfs", t[i])] : t \in [1 .. N -> Trees]}

\* Overrides on the disk over an archive, and archives over one another.
Bundle == "static" :> "dir" @@ "static/app.js" :> "file"
Page == "static" :> "file" @@ "static/app.js" :> "none"
Nil == [p \in PathSet |-> "none"]
ArchiveSites ==
  {<<Of("localfs", a), Of("vfs", b), Of(backend, c)>> :
     a \in {Nil, Page}, b \in {Bundle, Nil}, c \in {Bundle, Page}, backend \in {"localfs", "vfs"}}
MergedSites == {<<Of("localfs", Page), Of("merge", b), Of("vfs", Bundle)>> : b \in {Bundle, Nil}}
RefusedSites == {<<>>, <<Of("local", Nil), Of("vfs", Bundle), Of("vfs", Bundle)>>}
AnySite == LocalSites \cup ArchiveSites \cup MergedSites \cup RefusedSites

OverlaySet == {o \in AnyOverlay : o.scheme = "gs" \/ (o.host /\ o.credentials = "")}

\* Visitors who come directly, by TLS; one who comes through a proxy.
Crawler == [agent |-> "crawler", method |-> "GET", asset |-> FALSE, marked |-> FALSE,
            gzip |-> TRUE, tls |-> TRUE, cf |-> "", forwarded |-> ""]
VisitorSet ==
  {Crawler, [Crawler EXCEPT !.gzip = FALSE], [Crawler EXCEPT !.asset = TRUE],
   [Crawler EXCEPT !.agent = ""], [Crawler EXCEPT !.method = "POST"],
   [Crawler EXCEPT !.agent = "browser"], [Crawler EXCEPT !.agent = "browser", !.marked = TRUE],
   [Crawler EXCEPT !.cf = "https", !.forwarded = "https"]}

Symmetry == Permutations(Clients)
=============================================================================
