----------------------------- MODULE Prerender -----------------------------
(***************************************************************************)
(* The prerender middleware (modules/prerender): which requests it sends   *)
(* to the prerender service, what it asks the service for, and how it      *)
(* hands on the answer.                                                    *)
(*                                                                         *)
(* The lists of crawlers and of file types are abstracted to what they say *)
(* of a request: agent is "", "crawler" or "browser", asset tells that the *)
(* path ends like a skipped file type.                                     *)
(***************************************************************************)

Schemes == {"http", "https"}
Requests ==
  [agent : {"", "crawler", "browser"}, method : {"GET", "POST"}, asset : BOOLEAN,
   marked : BOOLEAN,            \* X-Bufferbot or _escaped_fragment_
   gzip : BOOLEAN,              \* Accept-Encoding names gzip
   tls : BOOLEAN,               \* how the visitor reached Caddy
   cf : Schemes \cup {""},      \* CF-Visitor
   forwarded : Schemes \cup {""}]   \* X-Forwarded-Proto, its first value

\* ShouldPrerender; HEAD is treated as GET.
ShouldPrerender(r) ==
  /\ r.agent # ""
  /\ r.method = "GET"
  /\ ~r.asset
  /\ r.marked \/ r.agent = "crawler"

\* BuildURL: the scheme of the page the service is to render.  The URL of a
\* request to a server has no scheme.
Protocol(r) ==
  CASE r.forwarded # "" -> r.forwarded
    [] r.forwarded = "" /\ r.cf # "" -> r.cf
    [] OTHER -> "http"

-----------------------------------------------------------------------------
(* PreRenderHandler.  An encoding is the set of codings that a body went   *)
(* through, gzip and any other one ("br"); gzip, if it is among them, was  *)
(* the last.  A reply of the service has a Content-Encoding, which is      *)
(* true; its body breaks off or not.  The request names gzip itself, so    *)
(* that the transport decodes nothing.                                     *)

Codings == {"gzip", "br"}
Replies == [encoding : SUBSET Codings, breaks : BOOLEAN]

\* What a service may answer that keeps to the Accept-Encoding it is sent.
AskedFor == {{}, {"gzip"}}

\* An answer: the scheme of the page asked for, the encoding it came in, the
\* one that is named to the visitor, the one the body then has, and whether
\* the body is the whole page.
Nothing(r) ==
  [by |-> "prerender", page |-> Protocol(r), came |-> {}, label |-> {}, coded |-> {},
   whole |-> FALSE]

\* Mutation: what is gzipped already is not unpacked for those who need it.
NotUnpacked(r, reply) ==
  IF r.gzip THEN [label |-> {"gzip"}, coded |-> reply.encoding \cup {"gzip"}]
  ELSE [label |-> {}, coded |-> reply.encoding]

\* What does not name gzip is gzipped for who takes it, what does is unpacked
\* for who does not, and everything else handed on as it came.
Encoded(r, reply) ==
  LET e == reply.encoding
  IN  CASE r.gzip /\ "gzip" \notin e -> [label |-> {"gzip"}, coded |-> e \cup {"gzip"}]
        [] ~r.gzip /\ "gzip" \in e -> [label |-> {}, coded |-> e \ {"gzip"}]
        [] OTHER -> [label |-> e, coded |-> e]

\* The copy stops at the first error; the deferred Close of the compressor
\* ends the stream as if that were all, and nobody is told.
PreRenderHandler(r, reply) ==
  LET e == Encoded(r, reply)
  IN  [by |-> "prerender", page |-> Protocol(r), came |-> reply.encoding,
       label |-> e.label, coded |-> e.coded, whole |-> ~reply.breaks]
=============================================================================
