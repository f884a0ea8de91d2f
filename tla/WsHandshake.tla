---------------------------- MODULE WsHandshake ----------------------------
(***************************************************************************)
(* The WebSocket opening handshake between the two clients of the          *)
(* repository (src/websocket/ws_client.c, variant "ext", and the           *)
(* standalone extension src/wsclient, variant "alone"), a client that      *)
(* sends any request ("raw"), and this server (ws_handshake.c,             *)
(* ws_dispatch.c, ws_commit_upgrade) or a foreign one.                     *)
(*                                                                         *)
(* A response is a sequence of tokens: a status line, header lines, the    *)
(* blank line and, behind a 101, frames.  The byte stream between the two  *)
(* is reliable and ordered.                                                *)
(***************************************************************************)
EXTENDS Integers, Sequences, SequencesExt

CONSTANTS
  Variants,     \* client variants of this instance
  Offers,       \* subprotocol lists passed to connect()
  HeaderKinds,  \* kinds of the headers argument
  UrlKinds,     \* kinds of the url argument
  RawRequests,  \* upgrade requests of the raw client
  ForeignLines, \* header lines a foreign server sends, in any order
  HeadLines,    \* how many of them
  HandlerRegistered, \* addWebSocketHandler() was called
  Deflate,      \* ws_permessage_deflate
  Picks,        \* subprotocols the handler may select
  MaxFrames,    \* frames the handler sends
  MaxHead,      \* WS_CLIENT_MAX_RESPONSE_HEADERS, in tokens
  MaxChunk      \* WS_CLIENT_READ_CHUNK, in tokens

VARIABLES
  cl,    \* the client: variant, arguments, place, response bytes, outcome
  c2s,   \* the request on its way to the server
  s2c,   \* tokens on their way to the client
  eof,   \* the server side of the stream is gone
  sv,    \* the server: place, WebSocket and WebSocketUpgrade objects, reply
  out    \* everything the server has written

vars == <<cl, c2s, s2c, eof, sv, out>>

None == "none"
Key == "key"                       \* the client's random key
AcceptOf(k) == <<"sha1", k>>       \* ws_handshake_compute_accept
AloneAccept(k) == <<"sha1", k>>    \* wsclient_compute_accept
Status(n) == [t |-> "status", v |-> n]
Header(h, v) == [t |-> h, v |-> v]
Blank == [t |-> "blank", v |-> None]
Frame(i) == [t |-> "frame", v |-> i]

Idle == [v |-> None, url |-> None, hdrs |-> None, offer |-> <<>>, pc |-> "idle",
         stream |-> FALSE, resp |-> <<>>, sel |-> None, got |-> <<>>]
Init ==
  /\ cl = Idle /\ c2s = <<>> /\ s2c = <<>> /\ eof = FALSE /\ out = <<>>
  /\ sv = [pc |-> "idle", req |-> None, committed |-> FALSE, closed |-> FALSE,
           proto |-> None, reject |-> 0, deflate |-> 0, failed |-> FALSE, keep |-> TRUE, sent |-> 0]

---------------------------------------------------------------------------
(* The clients. *)

\* Any failure before the connection object exists closes the stream.
Fail(c) == [c EXCEPT !.pc = "failed", !.stream = FALSE, !.resp = <<>>, !.sel = None]

\* ws_client_url_parse: scheme, credentials, fragment and CR/LF.
UrlOk(u) == u \in {"ws", "wss"}
\* the same in wsclient_connection_create
AloneUrlOk(u) == u \in {"ws", "wss"}

Connect ==
  /\ cl.pc = "idle"
  /\ \E v \in Variants \ {"raw"}, u \in UrlKinds, h \in HeaderKinds, o \in Offers :
       cl' = IF (v = "ext" /\ UrlOk(u)) \/ (v = "alone" /\ AloneUrlOk(u))
             THEN [Idle EXCEPT !.v = v, !.url = u, !.hdrs = h, !.offer = o, !.pc = "open_stream"]
             ELSE Fail([Idle EXCEPT !.v = v, !.url = u])
  /\ UNCHANGED <<c2s, s2c, eof, sv, out>>

\* ws_client_open_stream and wsclient_open_stream: connected, or not.
Opened(c) == {[c EXCEPT !.pc = "prepare", !.stream = TRUE], Fail(c)}
AloneOpened(c) == {[c EXCEPT !.pc = "prepare", !.stream = TRUE], Fail(c)}

OpenStream ==
  /\ cl.pc = "open_stream"
  /\ cl' \in IF cl.v = "ext" THEN Opened(cl) ELSE AloneOpened(cl)
  /\ UNCHANGED <<c2s, s2c, eof, sv, out>>

\* ws_client_append_header: no reserved name, no control byte; a list of
\* values makes several lines.
HeadersOk(h) == h \notin {"reserved", "crlf", "control"}
\* wsclient_append_headers: no reserved name, no line break, strings only.
AloneHeadersOk(h) == h \notin {"reserved", "crlf", "list"}

ProtocolsOk(o) == \A i \in DOMAIN o : o[i] # "not a token"

\* ws_client_handshake_build_request_ex: <<>> for NULL
Request(c) ==
  [upgrade |-> "websocket", method |-> "GET", connection |-> "upgrade", version |-> "13",
   key |-> Key, minor |-> 1, protocols |-> ToSet(c.offer),
   pmce |-> IF c.hdrs = "extensions" THEN <<[name |-> "permessage-deflate", pins |-> <<>>]>> ELSE <<>>]
BuildRequest(c) == IF HeadersOk(c.hdrs) /\ ProtocolsOk(c.offer) THEN <<Request(c)>> ELSE <<>>
\* wsclient_build_request
AloneBuildRequest(c) == IF AloneHeadersOk(c.hdrs) /\ ProtocolsOk(c.offer) THEN <<Request(c)>> ELSE <<>>

SendRequest ==
  /\ cl.pc = "prepare"
  /\ LET r == IF cl.v = "ext" THEN BuildRequest(cl) ELSE AloneBuildRequest(cl)
     IN \/ r # <<>> /\ c2s' = r /\ cl' = [cl EXCEPT !.pc = "await", !.url = None, !.hdrs = None]
        \/ cl' = Fail(cl) /\ UNCHANGED c2s           \* refused, or the write failed
  /\ eof' = (cl'.pc = "failed")
  /\ UNCHANGED <<s2c, sv, out>>

\* Any upgrade request at all, from somebody else's client.
RawConnect ==
  /\ cl.pc = "idle" /\ "raw" \in Variants
  /\ \E r \in RawRequests : c2s' = <<r>>
  /\ cl' = [Idle EXCEPT !.v = "raw", !.pc = "raw"]
  /\ UNCHANGED <<s2c, eof, sv, out>>

HasHead(resp) == \E i \in DOMAIN resp : resp[i] = Blank
HeaderEnd(resp) == CHOOSE i \in DOMAIN resp : resp[i] = Blank
AloneHeaderEnd(resp) == HeaderEnd(resp)   \* wsclient_header_end

\* One line of ws_client_handshake_validate_response.
ScanLine(key, a, tok) ==
  CASE tok.t = "accept" -> IF a.accept \/ tok.v # AcceptOf(key) THEN [a EXCEPT !.bad = TRUE]
                           ELSE [a EXCEPT !.accept = TRUE]
    [] tok.t = "upgrade" -> [a EXCEPT !.upgrade = (tok.v = "websocket")]
    [] tok.t = "connection" -> [a EXCEPT !.connection = (tok.v = "upgrade")]
    [] OTHER -> a

ValidateResponse(head, key) ==
  /\ head[1] = Status(101)
  /\ LET scan[i \in 1..Len(head)] ==
           IF i = 1 THEN [accept |-> FALSE, upgrade |-> FALSE, connection |-> FALSE, bad |-> FALSE]
           ELSE ScanLine(key, scan[i - 1], head[i])
         a == scan[Len(head)]
     IN a.accept /\ a.upgrade /\ a.connection /\ ~a.bad

\* wsclient_validate_response: the same conditions, in one loop of its own.
AloneValidateResponse(head, key) ==
  LET lines(t) == SelectSeq(head, LAMBDA tok : tok.t = t)
      last(t) == lines(t)[Len(lines(t))].v
  IN /\ head[1] = Status(101)
     /\ lines("accept") = <<Header("accept", AloneAccept(key))>>
     /\ lines("upgrade") # <<>> /\ last("upgrade") = "websocket"
     /\ lines("connection") # <<>> /\ last("connection") = "upgrade"

\* ws_client_response_subprotocol: at most one line, and only what was offered.
SubprotocolLines(head) == SelectSeq(head, LAMBDA tok : tok.t = "protocol")
SubprotocolOk(head, offer) ==
  LET p == SubprotocolLines(head)
  IN Len(p) <= 1 /\ (Len(p) = 1 => p[1].v \in ToSet(offer))

\* Headers complete: validate, make the session and feed it what came behind
\* the blank line.
Established(c) ==
  LET e == HeaderEnd(c.resp)
      head == SubSeq(c.resp, 1, e)
      p == SubprotocolLines(head)
  IN IF ~ValidateResponse(head, Key) \/ ~SubprotocolOk(head, c.offer) THEN Fail(c)
     ELSE [c EXCEPT !.pc = "open", !.resp = head, !.got = SubSeq(c.resp, e + 1, Len(c.resp)),
                    !.sel = IF p # <<>> THEN p[1].v ELSE None]

\* The same in wsclient_connection_create, which does not look at the
\* subprotocol the server chose.
AloneEstablished(c) ==
  LET e == AloneHeaderEnd(c.resp)
      head == SubSeq(c.resp, 1, e)
  IN IF ~AloneValidateResponse(head, Key) THEN Fail(c)
     ELSE [c EXCEPT !.pc = "open", !.resp = head, !.got = SubSeq(c.resp, e + 1, Len(c.resp))]

\* Behind one read of the response loop; the limit is applied to all that was
\* read, before the head is looked for again.
Received(c) ==
  IF Len(c.resp) > MaxHead THEN Fail(c) ELSE IF HasHead(c.resp) THEN Established(c) ELSE c
AloneReceived(c) ==
  IF Len(c.resp) > MaxHead THEN Fail(c) ELSE IF HasHead(c.resp) THEN AloneEstablished(c) ELSE c

\* One php_stream_read of the response loop.
ReadResponse ==
  /\ cl.pc = "await"
  /\ \/ \E n \in 1..MaxChunk :
          /\ n <= Len(s2c)
          /\ s2c' = SubSeq(s2c, n + 1, Len(s2c))
          /\ LET c == [cl EXCEPT !.resp = @ \o SubSeq(s2c, 1, n)]
             IN cl' = IF c.v = "ext" THEN Received(c) ELSE AloneReceived(c)
     \/ s2c = <<>> /\ eof /\ cl' = Fail(cl) /\ UNCHANGED s2c
  /\ UNCHANGED <<c2s, eof, sv, out>>

\* Frames that arrive later, by recv()/receive().
ReadFrames ==
  /\ cl.pc = "open" /\ s2c # <<>>
  /\ cl' = [cl EXCEPT !.got = @ \o s2c] /\ s2c' = <<>>
  /\ UNCHANGED <<c2s, eof, sv, out>>

---------------------------------------------------------------------------
(* The server. *)

\* ws_handshake_validate, in the order of its checks.
HandshakeValidate(r) ==
  IF r.upgrade = None THEN "not_an_upgrade"
  ELSE IF r.method # "GET" THEN "forbidden_method"
  ELSE IF r.upgrade # "websocket" THEN "bad_request"
  ELSE IF r.connection # "upgrade" THEN "bad_request"
  ELSE IF r.version # "13" THEN "upgrade_required"
  ELSE IF r.key # Key THEN "bad_request"
  ELSE IF r.minor < 1 THEN "bad_request"
  ELSE "ok"

RejectStatus(v) == CASE v = "forbidden_method" -> 405
                     [] v = "upgrade_required" -> 426
                     [] OTHER -> 400

\* build_error_response
ErrorResponse(n) == <<Status(n), Header("connection", "close"), Blank>>

\* ws_pmce_negotiate: the first permessage-deflate offer whose pinned windows
\* zlib can produce, at the smallest of them; 0 for none.
Acceptable(o) == o.name = "permessage-deflate" /\ \A i \in DOMAIN o.pins : o.pins[i] \in 9..15
Bits(o) == CHOOSE b \in ToSet(o.pins) \cup {15} : \A c \in ToSet(o.pins) : b <= c
Negotiated(r) ==
  LET good == SelectSeq(r.pmce, Acceptable)
  IN IF ~Deflate \/ good = <<>> THEN 0 ELSE Bits(good[1])

\* ws_handshake_build_101_response
Response101(s) ==
  <<Status(101), Header("upgrade", "websocket"), Header("connection", "upgrade"),
    Header("accept", AcceptOf(s.req.key))>>
  \o (IF s.proto # None THEN <<Header("protocol", s.proto)>> ELSE <<>>)
  \o (IF Negotiated(s.req) > 0 THEN <<Header("extensions", Negotiated(s.req))>> ELSE <<>>)
  \o <<Blank>>

Write(toks) == s2c' = s2c \o toks /\ out' = out \o toks

\* ws_submit_reject_write and its completion: the write goes out (or not, on a
\* broken connection), and the connection is not kept.
SubmitReject(n) == IF eof THEN UNCHANGED <<s2c, out>> ELSE Write(ErrorResponse(n))

\* ws_dispatch_try_upgrade.  A request without Upgrade is the HTTP handler's.
TryUpgrade ==
  /\ sv.pc = "idle" /\ c2s # <<>>
  /\ LET v == HandshakeValidate(Head(c2s))
     IN \/ v = "not_an_upgrade" /\ sv' = [sv EXCEPT !.pc = "http"] /\ UNCHANGED <<s2c, out>>
        \/ /\ v # "not_an_upgrade" /\ ~HandlerRegistered
           /\ SubmitReject(426) /\ sv' = [sv EXCEPT !.pc = "done", !.req = Head(c2s), !.keep = FALSE]
        \/ /\ v \notin {"not_an_upgrade", "ok"} /\ HandlerRegistered
           /\ SubmitReject(RejectStatus(v)) /\ sv' = [sv EXCEPT !.pc = "done", !.req = Head(c2s), !.keep = FALSE]
        \/ /\ v = "ok" /\ HandlerRegistered
           /\ \/ sv' = [sv EXCEPT !.pc = "handler", !.req = Head(c2s)]
              \/ sv' = [sv EXCEPT !.pc = "done", !.req = Head(c2s), !.keep = FALSE]   \* no coroutine
           /\ UNCHANGED <<s2c, out>>
  /\ c2s' = <<>>
  /\ UNCHANGED <<cl, eof>>

\* ws_commit_upgrade.  A send on a broken connection fails, the WebSocket is
\* closed and stays uncommitted.
CommitUpgrade(s) ==
  IF s.committed THEN sv' = s /\ UNCHANGED <<s2c, out>>
  ELSE IF s.reject # 0 THEN sv' = [s EXCEPT !.failed = TRUE] /\ UNCHANGED <<s2c, out>>
  ELSE IF eof THEN sv' = [s EXCEPT !.closed = TRUE, !.failed = TRUE] /\ UNCHANGED <<s2c, out>>
  ELSE /\ Write(Response101(s))
       /\ sv' = [s EXCEPT !.committed = TRUE, !.deflate = Negotiated(s.req)]

\* WebSocketUpgrade::setSubprotocol() and reject(): u->committed, which both
\* test, is never set.
SetSubprotocol ==
  /\ sv.pc = "handler" /\ ~sv.failed
  /\ \E p \in Picks : sv' = [sv EXCEPT !.proto = p]
  /\ UNCHANGED <<cl, c2s, s2c, eof, out>>

Reject ==
  /\ sv.pc = "handler" /\ ~sv.failed
  /\ sv' = [sv EXCEPT !.reject = 403]
  /\ UNCHANGED <<cl, c2s, s2c, eof, out>>

\* $ws->recv() and friends commit first; $ws->send() then writes a frame.
HandlerRecv ==
  /\ sv.pc = "handler" /\ ~sv.failed /\ ~sv.committed
  /\ CommitUpgrade(sv)
  /\ UNCHANGED <<cl, c2s, eof>>

HandlerSend ==
  /\ sv.pc = "handler" /\ ~sv.failed /\ sv.committed /\ ~sv.closed
  /\ sv.sent < MaxFrames
  /\ IF eof THEN UNCHANGED <<s2c, out>> ELSE Write(<<Frame(sv.sent + 1)>>)
  /\ sv' = [sv EXCEPT !.sent = IF eof THEN @ ELSE @ + 1, !.failed = eof]
  /\ UNCHANGED <<cl, c2s, eof>>

HandlerThrow ==
  /\ sv.pc = "handler" /\ ~sv.failed
  /\ sv' = [sv EXCEPT !.failed = TRUE]
  /\ UNCHANGED <<cl, c2s, s2c, eof, out>>

\* Mutant: the reject branch does not look at committed.
DisposeRejectsCommitted ==
  /\ sv.pc = "handler"
  /\ LET status == IF sv.reject # 0 THEN sv.reject ELSE IF sv.failed THEN 500 ELSE 0
     IN IF status # 0
        THEN SubmitReject(status) /\ sv' = [sv EXCEPT !.pc = "done", !.keep = FALSE]
        ELSE CommitUpgrade([sv EXCEPT !.pc = "done", !.keep = FALSE])
  /\ eof' = TRUE
  /\ UNCHANGED <<cl, c2s>>

\* ws_handler_coroutine_dispose: an uncommitted upgrade is answered now, with
\* the reject status, the exception's, or the 101; a committed connection is
\* torn down.
Dispose ==
  /\ sv.pc = "handler"
  /\ LET status == IF sv.reject # 0 THEN sv.reject ELSE IF sv.failed THEN 500 ELSE 0
     IN IF ~sv.committed /\ status # 0
        THEN SubmitReject(status) /\ sv' = [sv EXCEPT !.pc = "done", !.keep = FALSE]
        ELSE CommitUpgrade([sv EXCEPT !.pc = "done", !.keep = FALSE])
  /\ eof' = (eof \/ sv'.committed)
  /\ UNCHANGED <<cl, c2s>>

\* A connection that answered without a handler, or could not, is closed by
\* the read deadline: nothing else looks at keep_alive.
DeadlineTick ==
  /\ sv.pc = "done" /\ ~eof /\ eof' = TRUE
  /\ UNCHANGED <<cl, c2s, s2c, sv, out>>

\* Somebody else's server, answering whatever it likes, then leaving.
ForeignReply ==
  /\ sv.pc = "idle" /\ c2s # <<>>
  /\ \E n \in {101, 200}, h \in [1..HeadLines -> ForeignLines] :
       Write(<<Status(n)>> \o h \o <<Blank, Frame(1)>>)
  /\ sv' = [sv EXCEPT !.pc = "foreign"] /\ c2s' = <<>> /\ eof' = TRUE
  /\ UNCHANGED cl

\* The connection breaks.
Break ==
  /\ ~eof /\ c2s # <<>> /\ eof' = TRUE
  /\ UNCHANGED <<cl, c2s, s2c, sv, out>>

ClientStep == Connect \/ OpenStream \/ SendRequest \/ RawConnect \/ ReadResponse \/ ReadFrames
ServerStep == TryUpgrade \/ DeadlineTick \/ HandlerRecv \/ Dispose \/ ForeignReply
HandlerStep == SetSubprotocol \/ Reject \/ HandlerSend \/ HandlerThrow
Next == ClientStep \/ ServerStep \/ HandlerStep \/ Break

Spec == Init /\ [][Next]_vars

---------------------------------------------------------------------------
AcceptLines(head) == SelectSeq(head, LAMBDA tok : tok.t = "accept")

\* connect() returns only for a server that accepted this very request: one
\* Sec-WebSocket-Accept, computed from this key; and what was sent right behind
\* the head is neither lost nor reordered, however the reads cut the stream.
OpenMeansAgreed ==
  cl.pc = "open" =>
    /\ cl.resp[1] = Status(101) /\ AcceptLines(cl.resp) = <<Header("accept", AcceptOf(Key))>>
    /\ cl.got \o s2c = SelectSeq(out, LAMBDA tok : tok.t = "frame")
    /\ cl.v = "ext" => (cl.sel # None => cl.sel \in ToSet(cl.offer))

\* An upgrade is answered once: one response head, frames behind a 101 only.
OneAnswer ==
  /\ Len(SelectSeq(out, LAMBDA tok : tok.t = "status")) <= 1
  /\ (\E i \in DOMAIN out : out[i].t = "frame") => out[1] = Status(101) \/ sv.pc = "foreign"

\* The answer fits the request: a 101 needs every condition of the upgrade, a
\* 405 a method other than GET, a 426 a version other than 13 (or no handler),
\* and a deflate window one the client offered and pinned no lower.
AnswerTruthful ==
  (out # <<>> /\ sv.pc # "foreign") =>
    LET r == sv.req  n == out[1].v
    IN /\ n = 101 => /\ HandlerRegistered /\ r.method = "GET" /\ r.upgrade = "websocket"
                     /\ r.connection = "upgrade" /\ r.version = "13" /\ r.key = Key /\ r.minor = 1
       /\ n = 405 => r.method # "GET"
       /\ n = 426 => ~HandlerRegistered \/ r.version # "13"
       /\ \A i \in DOMAIN out : out[i].t = "extensions" =>
            \E j \in DOMAIN r.pmce : \A k \in DOMAIN r.pmce[j].pins : out[i].v <= r.pmce[j].pins[k]

\* Together: both sides mean the same upgrade, and it is answered once.
HandshakeSound == OpenMeansAgreed /\ OneAnswer /\ AnswerTruthful
============================================================================
