---------------------------- MODULE HttpResponse ----------------------------
(***************************************************************************)
(* The response object a handler writes to, from dispatch to the bytes an  *)
(* HTTP/1 client reads: HttpResponse's methods (http_response.c,           *)
(* http_sse.c), the compression of buffered and streamed bodies with its   *)
(* negotiation (compression/), the HTTP/1 stream operations and the        *)
(* formatter (http1/), and the part of the handler coroutine's dispose     *)
(* that turns the object into wire bytes (http_connection.c).              *)
(*                                                                         *)
(* A handler makes any calls in any order, catching what they throw; a     *)
(* body is a sequence of pieces, one per call that contributes one.  The   *)
(* encoder may keep the pieces it is given, hand them on, or fail.         *)
(***************************************************************************)
EXTENDS Integers, Sequences, FiniteSets

CONSTANTS
    MaxCalls,     \* calls a handler makes on the response
    MaxFaults,    \* encoder failures and a lost peer, together
    MinSize       \* compression_min_size, in pieces

VARIABLES
    r,            \* the response object with its compression state
    wire,         \* what went to the transport, in order
    pc,           \* "handler", "returned", "threw" or "done"
    calls,        \* calls made so far
    faults,       \* faults so far
    g             \* history: what the client is owed, and excuses

vars == <<r, wire, pc, calls, faults, g>>

Codecs == {"zstd", "gzip", "br"}
NoHdr == [ctype |-> "", clen |-> -1, cenc |-> "", conn |-> ""]
Plain(b) == [coding |-> "identity", bytes |-> b]

\* The length the formatter sees: an encoded body has its own.
Size(b) == Len(b.bytes) + (IF b.coding = "identity" THEN 0 ELSE 1)

-----------------------------------------------------------------------------
(* Accept-Encoding: a header is a sequence of [c, zero] entries.            *)

\* http_accept_encoding_parse: the last entry that names a coding counts.
Outcome(h, c) ==
    LET at == {i \in 1..Len(h) : h[i].c = c}
    IN  IF at = {} THEN "unseen"
        ELSE IF h[CHOOSE i \in at : \A j \in at : j <= i].zero THEN "reject" ELSE "ok"

Acceptable(h, c) ==
    \/ Outcome(h, c) = "ok"
    \/ /\ Outcome(h, c) = "unseen"
       /\ IF c = "identity" THEN Outcome(h, "*") # "reject" ELSE Outcome(h, "*") = "ok"

\* http_accept_encoding_select: zstd, then gzip, then brotli.
Select(h) ==
    IF Acceptable(h, "zstd") THEN "zstd"
    ELSE IF Acceptable(h, "gzip") THEN "gzip"
    ELSE IF Acceptable(h, "br") THEN "br"
    ELSE "identity"

\* What the header means to its sender: a coding with a weight above zero, or
\* one it does not name under a "*" with a weight above zero.
Welcome(h, c) ==
    LET named == {i \in 1..Len(h) : h[i].c = c}
        star == {i \in 1..Len(h) : h[i].c = "*"}
    IN  IF named # {} THEN \E i \in named : ~h[i].zero
        ELSE star # {} /\ \E i \in star : ~h[i].zero

AcceptEntries == [c : {"zstd", "gzip", "br", "identity", "*"}, zero : BOOLEAN]
AcceptHeaders == {<<>>} \cup [1..1 -> AcceptEntries] \cup
                 {h \in [1..2 -> AcceptEntries] : h[1].c # h[2].c}

-----------------------------------------------------------------------------
(* Compression of the response.                                             *)

\* decide(): which coding, if any; size 0 stands for a stream.
Decide(x, size) ==
    IF \/ x.noComp \/ x.isHead \/ x.range
       \/ x.status \in {204, 304}
       \/ x.hdr.cenc # ""
       \/ size > 0 /\ size < MinSize
       \/ x.hdr.ctype # "text"
    THEN "identity"
    ELSE x.chosen

\* mutate_headers_for_codec()
MutateHeaders(x, codec) == [x EXCEPT !.hdr.cenc = codec, !.hdr.clen = -1]

\* http_compression_apply_buffered(): once; the headers change only when the
\* encoded body has taken the place of the plain one.
ApplyBuffered(x, out) ==
    LET codec == Decide(x, Len(x.body.bytes))
        y == [x EXCEPT !.applied = TRUE]
    IN  IF x.applied \/ x.wrapped THEN x
        ELSE IF codec = "identity" \/ x.body.bytes = <<>> \/ out # "ok" THEN y
        ELSE MutateHeaders([y EXCEPT !.body = [coding |-> codec, bytes |-> @.bytes]], codec)

\* http_compression_maybe_install_stream_wrapper()
InstallWrapper(x, out) ==
    LET codec == Decide(x, 0)
    IN  IF x.wrapped \/ codec = "identity" \/ out = "noenc" THEN x
        ELSE [x EXCEPT !.wrapped = TRUE, !.codec = codec]

-----------------------------------------------------------------------------
(* The HTTP/1 formatter and stream operations, over c = [r, w, rc].         *)

\* http_response_format_streaming_headers(): the framing headers go.
StreamHead(x) ==
    [k |-> "head", status |-> x.status, ctype |-> x.hdr.ctype, cenc |-> x.hdr.cenc,
     clen |-> -1, chunked |-> TRUE, conn |-> x.hdr.conn]

\* emit_headers_block(): Content-Length unless the handler set one.
BufferedHead(x) ==
    [k |-> "head", status |-> x.status, ctype |-> x.hdr.ctype, cenc |-> x.hdr.cenc,
     clen |-> IF x.hdr.clen = -1 THEN Size(x.body) ELSE x.hdr.clen,
     chunked |-> FALSE, conn |-> x.hdr.conn]

Data(coding, b, fin) == [k |-> "data", coding |-> coding, bytes |-> b, fin |-> fin]
Zero == [k |-> "zero"]
File(x) == [k |-> "file", conn |-> x.hdr.conn]

\* h1_emit_headers_once(), behind ctx->h1_stream_headers_sent.
EmitHeadOnce(c) ==
    IF c.r.onWire THEN c
    ELSE [c EXCEPT !.r.onWire = TRUE, !.w = Append(@, StreamHead(c.r))]

\* h1_stream_append_chunk(): a dead transport answers STREAM_DEAD, an empty
\* chunk commits the head and adds nothing.
AppendChunk(c, coding, b, fin) ==
    IF ~c.r.alive THEN [c EXCEPT !.rc = "dead"]
    ELSE LET h == EmitHeadOnce(c)
         IN  IF b = <<>> /\ ~fin THEN [h EXCEPT !.rc = "ok"]
             ELSE [h EXCEPT !.rc = "ok", !.w = Append(@, Data(coding, b, fin))]

\* h1_stream_mark_ended()
MarkEnded(c) ==
    IF ~c.r.alive THEN c
    ELSE LET h == EmitHeadOnce(c) IN [h EXCEPT !.w = Append(@, Zero)]

FirstChunk(c) ==
    IF c.r.first THEN c
    ELSE [c EXCEPT !.r = [MutateHeaders(c.r, c.r.codec) EXCEPT !.first = TRUE]]

\* ws_append_chunk(): the encoder keeps the piece, hands on what it has, or
\* fails; with nothing to hand on the stream below is not called.
WsAppendChunk(c, b, out) ==
    LET m == FirstChunk(c)
        has == m.r.held \o b
    IN  IF out = "error" THEN [m EXCEPT !.rc = "dead"]
        ELSE IF out = "keep" \/ has = <<>> THEN [m EXCEPT !.r.held = has, !.rc = "ok"]
        ELSE AppendChunk([m EXCEPT !.r.held = <<>>], m.r.codec, has, FALSE)

\* Mutant: the end of the stream does not drain the encoder.
WsMarkEndedUndrained(c, out) == MarkEnded(FirstChunk(c))

\* ws_mark_ended(): the encoder is finished into the stream, then the stream
\* is ended whether or not that worked.
WsMarkEnded(c, out) ==
    LET m == FirstChunk(c)
    IN  IF out = "error" THEN MarkEnded(m)
        ELSE MarkEnded(AppendChunk([m EXCEPT !.r.held = <<>>], m.r.codec, m.r.held, TRUE))

OpsAppend(c, b, out) ==
    IF c.r.wrapped THEN WsAppendChunk(c, b, out) ELSE AppendChunk(c, "identity", b, FALSE)

OpsMarkEnded(c, out) == IF c.r.wrapped THEN WsMarkEnded(c, out) ELSE MarkEnded(c)

-----------------------------------------------------------------------------
\* http_response_create() and what http_connection_dispatch_request() wires in.
Init ==
    /\ \E h \in AcceptHeaders, head, range, on, ka \in BOOLEAN :
          /\ r = [status |-> 200, hdr |-> NoHdr, body |-> Plain(<<>>),
                  closed |-> FALSE, streaming |-> FALSE, sse |-> FALSE,
                  committed |-> FALSE, headersSent |-> FALSE, file |-> FALSE,
                  isHead |-> head, range |-> range, chosen |-> Select(h),
                  noComp |-> ~on, applied |-> FALSE, wrapped |-> FALSE,
                  first |-> FALSE, codec |-> "identity", held |-> <<>>,
                  onWire |-> FALSE, alive |-> TRUE, keepAlive |-> ka]
          /\ g = [want |-> <<>>, status |-> 0, lost |-> FALSE, encFail |-> FALSE,
                  welcome |-> \A c \in Codecs : Select(h) = c => Welcome(h, c)]
    /\ wire = <<>>
    /\ pc = "handler"
    /\ calls = 0
    /\ faults = 0

Call == pc = "handler" /\ calls < MaxCalls /\ calls' = calls + 1
Piece == <<calls + 1>>

\* response_check_closed(): what may still be modified.
CheckClosed(x) == ~x.closed /\ ~x.streaming /\ ~x.file

\* setStatusCode(), and redirect(), which sets the status and a header.
SetStatusCode ==
    /\ Call
    /\ CheckClosed(r)
    /\ \E s \in {201, 204} : r' = [r EXCEPT !.status = s]
    /\ UNCHANGED <<wire, pc, faults, g>>

\* setHeader() / addHeader(): a second value for Content-Type is no longer a
\* flat string.
SetHeader ==
    /\ Call
    /\ CheckClosed(r)
    /\ \/ \E v \in {"text", "bin", "event"} : r' = [r EXCEPT !.hdr.ctype = v]
       \/ r' = [r EXCEPT !.hdr.clen = 1]
       \/ r' = [r EXCEPT !.hdr.cenc = "own"]
       \/ r.hdr.ctype # "" /\ r' = [r EXCEPT !.hdr.ctype = "two"]
    /\ UNCHANGED <<wire, pc, faults, g>>

ResetHeaders ==
    /\ Call
    /\ CheckClosed(r)
    /\ r' = [r EXCEPT !.hdr = NoHdr]
    /\ UNCHANGED <<wire, pc, faults, g>>

Write ==
    /\ Call
    /\ CheckClosed(r)
    /\ r' = [r EXCEPT !.body = Plain(@.bytes \o Piece)]
    /\ UNCHANGED <<wire, pc, faults, g>>

SetBody ==
    /\ Call
    /\ CheckClosed(r)
    /\ \E b \in {<<>>, Piece} : r' = [r EXCEPT !.body = Plain(b)]
    /\ UNCHANGED <<wire, pc, faults, g>>

\* json(): a Content-Type of its own only when none is set; a failed encode
\* leaves a 500 with a body of its own.
Json ==
    /\ Call
    /\ CheckClosed(r)
    /\ LET x == [r EXCEPT !.hdr.ctype = IF @ = "" THEN "text" ELSE @, !.body = Plain(Piece)]
       IN  r' \in {[x EXCEPT !.status = 200], [x EXCEPT !.status = 500]}
    /\ UNCHANGED <<wire, pc, faults, g>>

\* html()
Html ==
    /\ Call
    /\ CheckClosed(r)
    /\ r' = [r EXCEPT !.hdr.ctype = "text", !.body = Plain(Piece)]
    /\ UNCHANGED <<wire, pc, faults, g>>

SetNoCompression ==
    /\ Call
    /\ r' = [r EXCEPT !.noComp = TRUE]
    /\ UNCHANGED <<wire, pc, faults, g>>

\* What an encoder call may answer; a failure is counted.
Outcomes == {"keep", "flush"} \cup (IF faults < MaxFaults THEN {"error", "noenc"} ELSE {})

\* The answer of append_chunk reaches the handler: an accepted chunk is owed
\* to the client, STREAM_DEAD is thrown and the chunk is lost.
Streamed(c, b, out) ==
    /\ r' = c.r
    /\ wire' = c.w
    /\ faults' = faults + IF out \in {"error", "noenc"} THEN 1 ELSE 0
    /\ g' = [g EXCEPT !.want = IF c.rc = "ok" THEN @ \o b ELSE @,
                      !.lost = @ \/ c.rc = "dead",
                      !.encFail = @ \/ (c.r.wrapped /\ out = "error"),
                      !.status = IF @ = 0 THEN r.status ELSE @]

Commit(x) == [x EXCEPT !.streaming = TRUE, !.committed = TRUE, !.headersSent = TRUE]

\* send(): on HEAD the chunk is dropped; the first call commits and may put
\* the encoder in front of the stream.
Send ==
    /\ Call
    /\ ~r.closed /\ ~r.sse /\ ~r.file
    /\ \/ /\ r.isHead
          /\ UNCHANGED <<r, wire, faults, g>>
       \/ /\ ~r.isHead
          /\ \E b \in {<<>>, Piece}, out \in Outcomes :
                LET x == IF r.streaming THEN r ELSE InstallWrapper(Commit(r), out)
                IN  /\ out = "noenc" => ~r.streaming /\ Decide(Commit(r), 0) # "identity"
                    /\ out \in {"error", "flush"} => x.wrapped
                    /\ Streamed(OpsAppend([r |-> x, w |-> wire, rc |-> "ok"], b, out), b, out)
    /\ UNCHANGED pc

\* writeMessage(): like send(), without its SSE, HEAD and encoder branches.
WriteMessage ==
    /\ Call
    /\ ~r.closed /\ ~r.file
    /\ \E out \in Outcomes \ {"noenc"} :
          LET x == IF r.streaming THEN r ELSE Commit(r)
          IN  /\ out \in {"error", "flush"} => x.wrapped
              /\ Streamed(OpsAppend([r |-> x, w |-> wire, rc |-> "ok"], Piece, out), Piece, out)
    /\ UNCHANGED pc

\* sse_ensure_started() would succeed; sse_content_type_conflicts() refuses
\* another Content-Type.
SseMayStart(x) ==
    \/ x.streaming /\ x.sse
    \/ ~x.streaming /\ ~x.closed /\ ~x.file /\ x.hdr.ctype \in {"", "event"}

SseStarted(x) ==
    IF x.streaming THEN x
    ELSE Commit([x EXCEPT !.hdr.ctype = "event", !.noComp = TRUE, !.sse = TRUE])

\* sseStart(): the mode alone, nothing on the wire.
SseStart ==
    /\ Call
    /\ ~r.streaming
    /\ SseMayStart(r)
    /\ r' = SseStarted(r)
    /\ g' = [g EXCEPT !.status = r.status]
    /\ UNCHANGED <<wire, pc, faults>>

\* sseEvent(), sseComment(), sseRetry(): one record, pushed through the
\* stream operations.
SseEvent ==
    /\ Call
    /\ ~r.closed
    /\ SseMayStart(r)
    /\ Streamed(OpsAppend([r |-> SseStarted(r), w |-> wire, rc |-> "ok"], Piece, "keep"),
                Piece, "keep")
    /\ UNCHANGED pc

\* sendFile(): the request is noted, the response sealed.
SendFile ==
    /\ Call
    /\ ~r.closed /\ ~r.streaming /\ ~r.headersSent /\ ~r.file
    /\ r' = [r EXCEPT !.file = TRUE, !.noComp = TRUE]
    /\ UNCHANGED <<wire, pc, faults, g>>

\* end() on a stream: a last chunk, whose fate is not looked at, then the end.
EndStream ==
    /\ Call
    /\ ~r.closed /\ ~r.file /\ r.streaming
    /\ \E b \in {<<>>, Piece}, out \in Outcomes \ {"noenc"}, fin \in {"ok", "error"} :
          LET c0 == [r |-> r, w |-> wire, rc |-> "ok"]
              c1 == IF b = <<>> THEN c0 ELSE OpsAppend(c0, b, out)
              c2 == OpsMarkEnded(c1, fin)
          IN  /\ out \in {"error", "flush"} => r.wrapped /\ b # <<>>
              /\ fin = "error" => r.wrapped /\ faults < MaxFaults /\ out # "error"
              /\ Streamed([c2 EXCEPT !.r.closed = TRUE, !.rc = c1.rc], b,
                          IF fin = "error" THEN "error" ELSE out)
    /\ UNCHANGED pc

\* end() on a buffered response
EndBuffered ==
    /\ Call
    /\ ~r.closed /\ ~r.file /\ ~r.streaming
    /\ \E b \in {<<>>, Piece} :
          r' = [r EXCEPT !.body = Plain(@.bytes \o b), !.closed = TRUE, !.headersSent = TRUE]
    /\ UNCHANGED <<wire, pc, faults, g>>

\* The handler comes back, or an exception, a cancellation or a bailout ends it.
HandlerEnds ==
    /\ pc = "handler"
    /\ pc' \in {"returned", "threw"}
    /\ UNCHANGED <<r, wire, calls, faults, g>>

\* The peer goes away: every later send on the connection fails.
PeerGone ==
    /\ pc # "done"
    /\ r.alive
    /\ faults < MaxFaults
    /\ faults' = faults + 1
    /\ r' = [r EXCEPT !.alive = FALSE]
    /\ UNCHANGED <<wire, pc, calls, g>>

-----------------------------------------------------------------------------
\* http_response_reset_to_error(), unless the response is committed.
ErrorOf(x) ==
    IF pc = "threw" /\ ~x.committed
    THEN [x EXCEPT !.status = 500, !.body = Plain(<<0>>), !.hdr = NoHdr, !.committed = TRUE]
    ELSE [x EXCEPT !.committed = TRUE]

\* Graceful drain, or a request that opted out of keep-alive:
\* http_response_force_connection_close().
CloseMark(x, drain) ==
    IF drain \/ ~x.keepAlive
    THEN [x EXCEPT !.hdr.conn = "close", !.keepAlive = FALSE]
    ELSE x

Put(x, items) == IF x.alive THEN wire \o items ELSE wire

\* http_response_format() / _format_parts(), for HEAD the head alone.
Formatted(x) ==
    IF x.isHead \/ x.body.bytes = <<>> THEN <<BufferedHead(x)>>
    ELSE <<BufferedHead(x), Data(x.body.coding, x.body.bytes, TRUE)>>

\* http_handler_coroutine_dispose(), a response that streamed: the head and
\* the chunks are out; the terminator follows unless end() sent it.
DisposeStream ==
    /\ pc \in {"returned", "threw"}
    /\ \E drain \in BOOLEAN :
          LET x == CloseMark(ErrorOf(r), drain)
          IN  /\ x.streaming
              /\ r' = x
              /\ wire' = IF x.closed THEN wire ELSE Put(x, <<Zero>>)
    /\ pc' = "done"
    /\ UNCHANGED <<calls, faults, g>>

\* The same, a response handed to sendFile(): the file machine answers, or
\* arming it fails and a synthesised 500 is formatted.
DisposeFile ==
    /\ pc \in {"returned", "threw"}
    /\ r.file
    /\ \E drain \in BOOLEAN :
          LET x == [CloseMark(ErrorOf(r), drain) EXCEPT !.file = FALSE]
              e == [x EXCEPT !.status = 500, !.hdr.ctype = "text", !.body = Plain(<<0>>)]
          IN  \/ /\ r' = x
                 /\ wire' = Put(x, <<File(x)>>)
                 /\ UNCHANGED <<faults, g>>
              \/ /\ faults < MaxFaults
                 /\ faults' = faults + 1
                 /\ r' = ApplyBuffered(e, "ok")
                 /\ wire' = Put(e, Formatted(r'))
                 /\ g' = [g EXCEPT !.want = <<0>>, !.status = 500]
    /\ pc' = "done"
    /\ UNCHANGED calls

\* The same, a buffered response.
DisposeBuffered ==
    /\ pc \in {"returned", "threw"}
    /\ ~r.file /\ ~r.streaming
    /\ \E drain \in BOOLEAN, out \in {"ok"} \cup (IF faults < MaxFaults THEN {"error"} ELSE {}) :
          LET x == CloseMark(ErrorOf(r), drain)
          IN  /\ r' = ApplyBuffered(x, out)
              /\ wire' = Put(x, Formatted(r'))
              /\ faults' = faults + IF out = "error" THEN 1 ELSE 0
              /\ g' = [g EXCEPT !.want = x.body.bytes, !.status = x.status]
    /\ pc' = "done"
    /\ UNCHANGED calls

Next ==
    \/ SetStatusCode \/ SetHeader \/ ResetHeaders \/ Write \/ SetBody \/ Json \/ Html
    \/ SetNoCompression \/ Send \/ WriteMessage \/ SseStart \/ SseEvent \/ SendFile
    \/ EndStream \/ EndBuffered \/ HandlerEnds \/ PeerGone
    \/ DisposeStream \/ DisposeFile \/ DisposeBuffered

Spec == Init /\ [][Next]_vars

-----------------------------------------------------------------------------
Answered == pc = "done" /\ r.alive /\ wire[1].k # "file"
DataItems == SelectSeq(wire, LAMBDA i : i.k = "data")
Zeros == Cardinality({i \in 1..Len(wire) : wire[i].k = "zero"})

\* A stream the handler left without end(), while the encoder still kept
\* bytes or before anything committed the head: dispose's raw terminator goes
\* around both (see TerminatorBehindHead).
LeftOpen == r.streaming /\ ~r.closed /\ (r.wrapped \/ ~r.onWire)

\* Streaming methods other than send() do not look at is_head.
StreamedHead == r.isHead /\ r.streaming

\* Whatever the handler called and in whichever order, an answered request
\* has one head, first; a chunked body ends in one terminator, with nothing
\* behind it and no Content-Length; any other body is as long as its
\* Content-Length says, unless the handler wrote that header itself; a HEAD
\* answer has no body.  (http_handler_coroutine_dispose, h1_stream_ops and
\* the formatter together; the next response on the connection starts where
\* this one is taken to end.)
WellFramed ==
    Answered /\ ~LeftOpen /\ ~StreamedHead =>
        LET h == wire[1]
            n == Len(wire)
        IN  /\ h.k = "head"
            /\ \A i \in 2..n : wire[i].k # "head"
            /\ h.chunked => /\ wire[n].k = "zero" /\ Zeros = 1
                            /\ h.clen = -1
            /\ ~h.chunked => /\ Zeros = 0
                             /\ n <= 2
                             /\ r.isHead => n = 1
                             /\ ~r.isHead /\ r.hdr.clen = -1 =>
                                   h.clen = IF n = 1 THEN 0 ELSE Size(wire[2])

RECURSIVE Joined(_)
Joined(s) == IF s = <<>> THEN <<>> ELSE Head(s).bytes \o Joined(Tail(s))

\* The client of an answered request reads the status that stood when the
\* response was committed and, undoing exactly the coding the head announces,
\* a coding its Accept-Encoding welcomes, the bytes the handler handed over:
\* every accepted chunk of a stream, or the buffered body.  (send(), the
\* compressing stream operations, http_compression_apply_buffered and the
\* exception branch of dispose.)
ClientReadsAnswer ==
    Answered /\ ~LeftOpen /\ ~g.lost /\ ~g.encFail =>
        LET h == wire[1]
            d == DataItems
            coded == h.cenc \in Codecs
        IN  /\ h.status = g.status
            /\ ~r.isHead => Joined(d) = g.want
            /\ coded => g.welcome
            /\ \A i \in 1..Len(d) : d[i].coding = IF coded THEN h.cenc ELSE "identity"
            /\ coded => d # <<>> /\ d[Len(d)].fin

\* Both: the answer is framed as HTTP/1.1 wants it, and says what the handler said.
AnswerSound == WellFramed /\ ClientReadsAnswer
=============================================================================
