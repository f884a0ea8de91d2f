--------------------------- MODULE HttpConnection ---------------------------
(* One accepted HTTP/1 connection, plaintext or TLS, from its first byte to    *)
(* its destroy: the read callback, the parser feed and its pipelining gate,    *)
(* the handler coroutine's dispatch, dispose and finalize, the three plaintext *)
(* writers and the deferred destroy (http_connection.c), the TLS read and      *)
(* write machine (http_connection_tls.c), the file response (http1_sendfile.c) *)
(* and the deadline tick that reaps idle connections (http_server_class.c).    *)
(* Everything runs on one thread: a step ends where the code returns to the    *)
(* event loop or suspends its coroutine.                                       *)
EXTENDS Naturals, SequencesExt, FiniteSetsExt

CONSTANTS
    Transports,     \* subset of {"plain", "tls"}
    Tokens,         \* what the peer may send, see below
    Kinds,          \* responses handlers make: "small", "big", "chunked", "file"
    RingCap,        \* plaintext ring of the TLS producer, in units
    RbufCap,        \* read buffer, in tokens
    ReadTimeout,    \* a read deadline is configured
    KeepaliveTimeout, \* a keep-alive deadline is configured
    MaxReq,         \* bound: requests
    MaxSpawnFail    \* bound: coroutine spawn failures

(* The byte stream, in tokens: "get" and "close" are complete requests (keep-   *)
(* alive, Connection: close); "head" opens a request whose body streams and     *)
(* "end" is its tail; "bad" is what the parser rejects; "hello" the handshake.  *)
Requests == {"get", "close", "head"}
Ids == 1..MaxReq

VARIABLES
    k,          \* the http_connection_t
    h,          \* request -> its handler coroutine or file machine
    q,          \* writes libuv holds, oldest first
    sock,       \* tokens in the socket's receive buffer
    peer,       \* [eof, body, reqs, bad]: what the peer did
    wire        \* units the kernel took, in order

vars == <<k, h, q, sock, peer, wire>>

NoHandler == [at |-> "none", kind |-> "small", left |-> 0, wake |-> FALSE, cont |-> FALSE]
Live(r) == h[r].at \notin {"none", "done"}

\* A step works on x; ok is what becomes of a dispatch ("spawn", "static" for a mount
\* that claims it, "fail" when no coroutine can be made), res what a feed said.
X(ok) == [k |-> k, h |-> h, q |-> q, wire |-> wire, ok |-> ok, res |-> "more"]

\* Units on the wire: a part of response r, by the path it took, or close_notify.
Unit(r, path) == [r |-> r, path |-> path]
CloseNotify == Unit(0, "close_notify")

Submit(x, by, r, units) == [x EXCEPT !.q = Append(@, [by |-> by, r |-> r, units |-> units])]

-----------------------------------------------------------------------------
(* Teardown.                                                                   *)

\* Mutant: an in-flight write no longer defers the destroy.
DestroyUnderWrite(x) ==
    IF x.k.dead THEN x
    ELSE IF x.k.refs > 0 \/ x.k.feeding THEN [x EXCEPT !.k.pend = TRUE]
    ELSE [x EXCEPT !.k.dead = TRUE, !.k.lost = Len(x.k.outq) + Len(x.k.ring)]

\* http_connection_destroy: the gates in the code's order, then the frees.
Destroy(x) ==
    IF x.k.dead THEN x
    ELSE IF \/ x.k.refs > 0
            \/ x.k.cinfl > 0
            \/ x.k.outFlight
            \/ x.k.feeding
    THEN [x EXCEPT !.k.pend = TRUE]
    ELSE [x EXCEPT !.k.dead = TRUE, !.k.lost = Len(x.k.outq) + Len(x.k.ring)]

\* A deferred destroy falls due at the last reference or completion.
DestroyIfPending(x) ==
    IF x.k.pend /\ x.k.refs = 0 THEN Destroy([x EXCEPT !.k.pend = FALSE]) ELSE x

-----------------------------------------------------------------------------
(* Plaintext writers. Only the batched one waits for the write in flight.      *)

\* http_connection_send_strv_owned, send_str_owned and send_raw: straight to libuv.
SendDirect(x, by, r) ==
    IF x.k.broken THEN x ELSE Submit(x, by, r, <<Unit(r, "direct")>>)

\* Mutant: the deferred destroy is not finalised here.
SendBatchedFinishForgets(x) == [x EXCEPT !.k.outFlight = FALSE]

\* http_send_batched_finish
SendBatchedFinish(x) == DestroyIfPending([x EXCEPT !.k.outFlight = FALSE])

\* http_connection_send_zstr_batched; a failed submit runs the completion inline.
SendBatched(x, r) ==
    IF x.k.outFlight THEN [x EXCEPT !.k.outq = Append(@, Unit(r, "queued"))]
    ELSE IF x.k.broken THEN SendBatchedFinish(x)
    ELSE Submit([x EXCEPT !.k.outFlight = TRUE], "batch", r, <<Unit(r, "queued")>>)

\* http_send_batched_completion_cb: the chain goes on with the coalesced tail.
BatchedCompletion(x) ==
    IF x.k.outq = <<>> THEN SendBatchedFinish(x)
    ELSE IF x.k.broken THEN SendBatchedFinish([x EXCEPT !.k.outq = <<>>])
    ELSE Submit([x EXCEPT !.k.outq = <<>>], "batch", 0, x.k.outq)

-----------------------------------------------------------------------------
(* TLS output: plaintext ring -> SSL_write -> ciphertext -> one write in flight. *)

\* tls_signal_space wakes the producer parked in tls_wait_space.
SignalSpace(x) ==
    [x EXCEPT !.h = [r \in Ids |-> [x.h[r] EXCEPT !.wake = @ \/ x.h[r].at = "push"]]]

\* SSL_write of one record off the ring, only while no cipher write is in flight.
EncryptRing(x) ==
    IF x.k.ring = <<>> THEN x
    ELSE IF x.k.shut THEN [x EXCEPT !.k.werr = TRUE]
    ELSE SignalSpace([x EXCEPT !.k.cbuf = Append(@, Head(x.k.ring)), !.k.ring = Tail(@)])

\* Hands everything encrypted to libuv as the one in-flight write.
SubmitCipher(x) ==
    IF x.k.cbuf = <<>> \/ x.k.werr THEN x
    ELSE IF x.k.broken THEN [x EXCEPT !.k.werr = TRUE]
    ELSE Submit([x EXCEPT !.k.cinfl = Len(x.k.cbuf)], "cipher", 0, x.k.cbuf)

\* tls_drain
TlsDrain(x) ==
    IF x.k.werr \/ x.k.cinfl > 0 THEN x
    ELSE SubmitCipher(EncryptRing(x))

\* http_connection_tls_fsm_send_plaintext_atomic: SSL_write past the ring.
SendAtomic(x, r, path) ==
    IF x.k.werr \/ x.k.shut THEN x
    ELSE TlsDrain([x EXCEPT !.k.cbuf = Append(@, Unit(r, path))])

\* tls_graceful_close: close_notify once ring and wire are drained.
CloseDrained(d) ==
    IF d.k.cinfl > 0 \/ d.k.ring # <<>> \/ d.k.shut THEN d
    ELSE TlsDrain([d EXCEPT !.k.shut = TRUE, !.k.cbuf = Append(@, CloseNotify)])

GracefulClose(x) == CloseDrained(TlsDrain(x))

\* tls_finalize_if_closing
FinalizeIfClosing(x) ==
    IF x.k.state # "closing" \/ x.k.cinfl > 0 THEN x ELSE Destroy(x)

\* One turn of tls_push: a unit into the ring and a drain, or park for space.
Pushed(d, r) == IF d.k.werr THEN [d EXCEPT !.h[r].left = 0, !.h[r].cont = FALSE] ELSE d

PushUnit(x, r) ==
    IF x.h[r].left = 0 \/ x.h[r].at = "push" THEN x
    ELSE IF Len(x.k.ring) >= RingCap THEN [x EXCEPT !.h[r].at = "push", !.h[r].wake = FALSE]
    ELSE Pushed(TlsDrain([x EXCEPT !.k.ring = Append(@, Unit(r, "queued")), !.h[r].left = @ - 1]), r)

PushUnits(x, r) == PushUnit(PushUnit(PushUnit(x, r), r), r)

-----------------------------------------------------------------------------
(* Parsing and dispatch.                                                       *)

\* http_connection_on_request_ready: keep-alive is what this request says.
OnRequestReady(c, tok) == [c EXCEPT !.ka = tok # "close", !.state = "processing"]

\* A static mount that claims the request pins it like a handler would.
Claimed(mount) ==
    IF mount THEN [NoHandler EXCEPT !.at = "open", !.kind = "static"]
    ELSE [NoHandler EXCEPT !.at = "ready"]

\* http_connection_dispatch_request
Dispatch(x, tok) ==
    LET r == x.k.next
        mount == x.ok = "static" /\ tok # "head"
        c == OnRequestReady(x.k, tok)
    IN  IF x.ok # "fail"
        THEN [x EXCEPT !.k = [c EXCEPT !.refs = @ + 1, !.cur = r, !.co = ~mount, !.next = r + 1,
                                       !.noreq = FALSE],
                       !.h[r] = Claimed(mount)]
        ELSE Destroy([x EXCEPT !.k = [c EXCEPT !.cur = 0, !.co = FALSE, !.noreq = TRUE, !.fails = @ + 1]])

\* The body reader of the current request wakes at the end of the message.
WakeReader(x) ==
    [x EXCEPT !.h = [r \in Ids |-> IF x.h[r].at = "body" THEN [x.h[r] EXCEPT !.at = "ready"]
                                   ELSE x.h[r]]]

\* llhttp over one token; it pauses at the end of every message.
FeedToken(x) ==
    LET t == Head(x.k.rbuf)
        y == [x EXCEPT !.k.rbuf = Tail(@)]
        Done(z) == [z EXCEPT !.k.parser = "done", !.res = IF z.k.noreq THEN "more" ELSE "complete"]
    IN  CASE x.k.parser = "error" \/ t = "bad" -> [x EXCEPT !.k.parser = "error", !.res = "error"]
          [] t = "head" -> [Dispatch(y, t) EXCEPT !.k.parser = "body", !.res = "more"]
          [] t = "end" -> Done(WakeReader(y))
          [] OTHER -> Done(Dispatch(y, t))

\* http1_feed: in_parser_feed brackets the parse. A streamed head does not pause.
FeedBody(x) == IF x.res = "more" /\ x.k.parser = "body" /\ x.k.rbuf # <<>> THEN FeedToken(x) ELSE x

Feed(x) == [FeedBody(FeedToken([x EXCEPT !.k.feeding = TRUE])) EXCEPT !.k.feeding = FALSE]

\* http_connection_cancel_handler_for_parse_error
CancelHandler(x) ==
    [x EXCEPT !.h[x.k.cur].at = "cancelled", !.k.co = FALSE, !.k.perr = TRUE, !.k.ka = FALSE]

\* http_connection_emit_parse_error; a coroutine awaits the write, the read callback
\* sends past libuv's queue, the TLS machine past the ring.
EmitParseError(x, r) ==
    LET y == [x EXCEPT !.k.ka = FALSE, !.k.perr = TRUE]
    IN  IF y.k.tls THEN SendAtomic(y, 0, "error")
        ELSE IF y.k.broken THEN y
        ELSE IF r = 0 THEN [y EXCEPT !.wire = Append(@, Unit(0, "error"))]
        ELSE [Submit(y, "raw", r, <<Unit(0, "error")>>) EXCEPT !.h[r].at = "emit"]

\* http_connection_handle_read_completion; ret is "more", "owned" or "destroy".
Ret(z, ret) == [x |-> z, ret |-> ret]

Refused(e, r) == Ret(e, IF r # 0 /\ e.h[r].at = "emit" THEN "owned" ELSE "destroy")

FeedOutcome(f, r) ==
    IF f.k.pend /\ f.k.refs = 0 THEN Ret(f, "destroy")
    ELSE IF f.res = "error"
    THEN IF f.k.perr THEN Ret(f, IF f.k.cur = 0 THEN "destroy" ELSE "owned")
         ELSE IF f.k.cur # 0 THEN Ret(IF f.k.co THEN CancelHandler(f) ELSE f, "owned")
         ELSE Refused(EmitParseError(f, r), r)
    ELSE IF f.res = "complete" THEN Ret([f EXCEPT !.k.rif = TRUE], "owned")
    ELSE Ret(f, "more")

HandleRead(x, r) == FeedOutcome(Feed(x), r)

-----------------------------------------------------------------------------
(* The TLS state machine.                                                      *)

\* A rejected feed: close after an earlier error, cancel a live handler, or answer 4xx.
TlsFeedError(f) ==
    IF f.k.perr THEN TlsDrain([f EXCEPT !.k.state = "closing"])
    ELSE IF f.k.cur # 0 /\ f.k.co THEN [CancelHandler(f) EXCEPT !.k.await = TRUE]
    ELSE GracefulClose([EmitParseError(f, 0) EXCEPT !.k.state = "closing"])

\* The decrypt-and-feed half of tls_advance_state, behind the pipelining gate.
TlsFed(f) ==
    CASE f.res = "error" -> TlsFeedError(f)
      [] f.res = "complete" -> [f EXCEPT !.k.await = TRUE]
      [] OTHER -> f

FeedUngated(d) == IF d.k.rbuf = <<>> \/ d.k.await THEN d ELSE TlsFed(Feed(d))

TlsFeed(x) == FeedUngated(TlsDrain(x))

\* tls_handshake_step fails on anything that is not a hello.
Handshake(x) ==
    IF x.k.rbuf = <<>> THEN x
    ELSE IF Head(x.k.rbuf) = "hello"
    THEN TlsFeed([x EXCEPT !.k.state = "reading", !.k.rbuf = Tail(@)])
    ELSE [x EXCEPT !.k.state = "closing"]

\* tls_advance_state
Advance(x) ==
    CASE x.k.werr -> [x EXCEPT !.k.state = "closing"]
      [] ~x.k.werr /\ x.k.state = "handshake" -> Handshake(x)
      [] ~x.k.werr /\ x.k.state = "closing" -> GracefulClose(x)
      [] OTHER -> TlsFeed(x)

\* The one-shot read is armed again unless the connection went or a handler owns it.
Rearm(x) == IF x.k.dead \/ x.k.await THEN x ELSE [x EXCEPT !.k.armed = TRUE]

\* http_connection_tls_resume_after_handler
TlsResume(x) == Rearm(FinalizeIfClosing(Advance([x EXCEPT !.k.await = FALSE])))

\* tls_cipher_completion
CipherCompletion(x) ==
    LET y == [x EXCEPT !.k.cinfl = 0, !.k.cbuf = SubSeq(@, x.k.cinfl + 1, Len(@))]
    IN  IF y.k.pend /\ y.k.refs = 0 THEN DestroyIfPending(y)
        ELSE FinalizeIfClosing(Advance(y))

-----------------------------------------------------------------------------
(* The end of a handler.                                                       *)

\* Mutant: the next read is left to find the pipelined tail.
ServeTailWaitsForRead(x, r, cont) ==
    LET y == [x EXCEPT !.k.rif = FALSE] IN IF cont THEN y ELSE Destroy(y)

\* The plaintext tail of http_request_finalize: pipelined bytes before the close.
TailServed(t, cont) ==
    IF t.ret = "destroy" \/ (t.ret = "more" /\ ~cont) THEN Destroy(t.x) ELSE t.x

ServeTail(x, r, cont) ==
    LET y == [x EXCEPT !.k.rif = FALSE]
    IN  TailServed(IF y.k.rbuf = <<>> THEN Ret(y, "more") ELSE HandleRead(y, r), cont)

\* http_request_finalize
Finalize(x, r, cont) ==
    LET y == [x EXCEPT !.h[r].at = "done", !.k.refs = @ - 1,
                       !.k.state = IF cont THEN "keepalive" ELSE "closing",
                       !.k.deadline = cont /\ KeepaliveTimeout]
    IN  IF y.k.refs = 0 /\ y.k.pend THEN DestroyIfPending(y)
        ELSE IF y.k.tls THEN TlsResume(y)
        ELSE ServeTail(y, r, cont)

\* The dispatch marker goes before the response is formatted.
ClearCurrent(x, r) == IF x.k.cur = r THEN [x EXCEPT !.k.cur = 0, !.k.co = FALSE] ELSE x

\* A pushed response is finished once its last unit is in the ring.
PushDone(x, r) ==
    IF x.h[r].at = "push" THEN x ELSE Finalize(x, r, x.h[r].cont /\ x.k.ka)

\* http_connection_send_raw: submitted, then awaited under the write timer.
SendRaw(x, r) == [SendDirect(x, "raw", r) EXCEPT !.h[r].at = "raw"]

\* h1_stream_append_chunk and mark_ended: the head, then the chunks. A failed send ends
\* the stream, and keep-alive stays what the request said.
StreamChunks(x, r) ==
    IF x.k.broken \/ x.h[r].left = 0 THEN Finalize(x, r, x.k.ka)
    ELSE SendRaw([x EXCEPT !.h[r].left = @ - 1], r)

\* The send half of http_handler_coroutine_dispose; drain is the server's drain verdict.
SendResponse(x, r, kind) ==
    LET y == [x EXCEPT !.k.state = "sending"]
    IN  IF kind = "file"
        THEN [x EXCEPT !.h[r] = [@ EXCEPT !.at = "open", !.kind = "file", !.cont = x.k.ka]]
        ELSE IF y.k.tls
        THEN IF y.k.werr THEN Finalize(y, r, kind = "chunked" /\ y.k.ka)
             ELSE PushDone(PushUnits([y EXCEPT !.h[r].left = IF kind = "small" THEN 1 ELSE 3,
                                              !.h[r].cont = TRUE, !.h[r].at = "run"], r), r)
        ELSE IF kind = "chunked" THEN StreamChunks([y EXCEPT !.h[r].left = 2], r)
        ELSE LET small == kind = "small"
             IN  Finalize(IF small THEN SendBatched(y, r) ELSE SendDirect(y, "direct", r), r,
                          y.k.ka /\ (~y.k.broken \/ (small /\ y.k.outFlight)))

Dispose(x, r, kind, drain) ==
    LET y == ClearCurrent(x, r)
    IN  SendResponse(IF drain THEN [y EXCEPT !.k.ka = FALSE] ELSE y, r, kind)

-----------------------------------------------------------------------------
(* The file machine: sendFile() and static mounts (http1_sendfile.c).          *)

\* on_done: a static request decides keep-alive now, sendFile() did when it was armed.
FileDone(x, r) ==
    LET static == x.h[r].kind = "static"
    IN  Finalize(IF static THEN ClearCurrent(x, r) ELSE x, r, IF static THEN x.k.ka ELSE x.h[r].cont)

\* Peer gone, teardown asked for or a dead session: no more encryption.
TornSession(c) == c.state = "closing" \/ c.pend \/ c.werr

\* h1_send_tls_submit_next_read
FileNext(x, r) ==
    IF x.k.cinfl > 0 THEN [x EXCEPT !.h[r].at = "drain"]
    ELSE IF x.h[r].left = 0 THEN FileDone(x, r)
    ELSE [x EXCEPT !.h[r].at = "read"]

\* h1_stream_send_static_response: head, then the body by sendfile or by encrypted chunks.
FileHead(x, r, body) ==
    LET y == [x EXCEPT !.h[r].left = IF body THEN 1 ELSE 0]
        p == SendDirect(y, "direct", r)
        headOnly == IF y.k.tls THEN y.k.werr \/ y.k.shut ELSE y.k.broken \/ ~body
    IN  IF headOnly THEN FileDone(IF y.k.tls THEN y ELSE p, r)
        ELSE IF y.k.tls THEN FileNext(SendAtomic(y, r, "file"), r)
        ELSE [SendDirect(p, "file", r) EXCEPT !.h[r].at = "file"]

\* h1_send_handle_tls_read_done
FileChunk(x, r, ok) ==
    IF ~ok \/ TornSession(x.k) THEN FileDone(x, r)
    ELSE FileNext(SendAtomic([x EXCEPT !.h[r].left = 0], r, "file"), r)

\* h1_send_tls_drain_done_cb, off every cipher completion.
FileDrained(x) ==
    IF \E r \in Ids : x.h[r].at = "drain"
    THEN LET r == CHOOSE i \in Ids : x.h[i].at = "drain"
         IN  IF TornSession(x.k) THEN FileDone(x, r) ELSE FileNext(x, r)
    ELSE x

-----------------------------------------------------------------------------
(* Steps.                                                                      *)

Become(x) == k' = x.k /\ h' = x.h /\ q' = x.q /\ wire' = x.wire

Outcomes == {"spawn", "static"} \cup (IF k.fails < MaxSpawnFail THEN {"fail"} ELSE {})

\* http_connection_create
NewConnection(t) ==
    [tls |-> t = "tls", state |-> IF t = "tls" THEN "handshake" ELSE "reading",
     refs |-> 0, pend |-> FALSE, dead |-> FALSE, ka |-> TRUE, rif |-> FALSE,
     perr |-> FALSE, eof |-> FALSE, armed |-> TRUE, outFlight |-> FALSE, outq |-> <<>>,
     ring |-> <<>>, cbuf |-> <<>>, cinfl |-> 0, await |-> FALSE, werr |-> FALSE,
     shut |-> FALSE, parser |-> "idle", noreq |-> FALSE, rbuf |-> <<>>, cur |-> 0,
     co |-> FALSE, next |-> 1, feeding |-> FALSE, deadline |-> ReadTimeout,
     broken |-> FALSE, lost |-> 0, ticked |-> FALSE, fails |-> 0]

\* http_connection_spawn
Init ==
    /\ \E t \in Transports : k = NewConnection(t)
    /\ h = [r \in Ids |-> NoHandler]
    /\ q = <<>>
    /\ sock = IF k.tls THEN <<"hello">> ELSE <<>>
    /\ peer = [eof |-> FALSE, body |-> FALSE, reqs |-> 0, bad |-> FALSE]
    /\ wire = <<>>

\* The peer writes: requests one after the other, bodies closed before the next one.
PeerSend(t) ==
    /\ ~k.dead /\ ~peer.eof /\ ~peer.bad
    /\ t \in Requests => peer.reqs < MaxReq
    /\ peer.body <=> t = "end" \/ (t = "bad" /\ peer.body)
    /\ sock' = Append(sock, t)
    /\ peer' = [peer EXCEPT !.body = t = "head", !.bad = t = "bad",
                            !.reqs = IF t \in Requests THEN @ + 1 ELSE @]
    /\ UNCHANGED <<k, h, q, wire>>

\* The peer half-closes, or goes away and every later write fails.
PeerEof(reset) ==
    /\ ~k.dead /\ ~peer.eof
    /\ peer' = [peer EXCEPT !.eof = TRUE]
    /\ k' = [k EXCEPT !.broken = reset]
    /\ UNCHANGED <<h, q, sock, wire>>

Readable == ~k.dead /\ ~k.eof /\ (k.tls => k.armed)

\* http_connection_read_callback_fn on data: buffered only, while a handler is in flight.
OnData(x) == IF x.k.rif THEN x ELSE TailServed(HandleRead(x, 0), TRUE)

ReadPlain(ok) ==
    /\ Readable /\ ~k.tls /\ sock # <<>> /\ Len(k.rbuf) < RbufCap
    /\ LET n == Min({Len(sock), RbufCap - Len(k.rbuf)})
       IN  /\ Become(OnData([X(ok) EXCEPT !.k.rbuf = @ \o SubSeq(sock, 1, n)]))
           /\ sock' = SubSeq(sock, n + 1, Len(sock))
    /\ UNCHANGED peer

\* EOF, an error, or no room left in the buffer: the multishot read ends here.
ReadEnd ==
    /\ Readable /\ ~k.tls
    /\ (peer.eof /\ sock = <<>>) \/ (sock # <<>> /\ Len(k.rbuf) >= RbufCap)
    /\ Become(IF k.rif \/ k.rbuf # <<>>
              THEN [X("spawn") EXCEPT !.k.eof = TRUE, !.k.ka = FALSE]
              ELSE Destroy([X("spawn") EXCEPT !.k.eof = TRUE]))
    /\ UNCHANGED <<sock, peer>>

\* tls_fsm_io_callback_fn
ReadTls(ok) ==
    /\ Readable /\ k.tls /\ sock # <<>>
    /\ Become(Rearm(FinalizeIfClosing(Advance(
                 [X(ok) EXCEPT !.k.armed = FALSE, !.k.rbuf = @ \o sock]))))
    /\ sock' = <<>>
    /\ UNCHANGED peer

ReadTlsEnd ==
    /\ Readable /\ k.tls /\ sock = <<>> /\ peer.eof
    /\ Become(FinalizeIfClosing(Advance([X("spawn") EXCEPT !.k.armed = FALSE, !.k.state = "closing"])))
    /\ UNCHANGED <<sock, peer>>

\* A handler runs: it waits for its streamed body, then answers.
HandlerRun(r, kind, drain, ok) ==
    /\ h[r].at = "ready"
    /\ Become(IF k.cur = r /\ k.parser = "body"
              THEN [X(ok) EXCEPT !.h[r].at = "body"]
              ELSE Dispose(X(ok), r, kind, drain))
    /\ UNCHANGED <<sock, peer>>

\* The cancelled handler answers with the parse error.
HandlerCancelled(r) ==
    /\ h[r].at = "cancelled"
    /\ Become(Dispose(X("spawn"), r, "small", FALSE))
    /\ UNCHANGED <<sock, peer>>

\* A producer parked for ring space resumes once it was signalled.
PushResume(r, ok) ==
    /\ h[r].at = "push" /\ h[r].wake
    /\ LET y == [X(ok) EXCEPT !.h[r].at = "run"]
       IN  Become(PushDone(PushUnits(y, r), r))
    /\ UNCHANGED <<sock, peer>>

\* The file is opened on the next loop tick; body is FALSE for head-only answers.
FileStart(r, body, ok) ==
    /\ h[r].at = "open"
    /\ Become(FileHead(X(ok), r, body))
    /\ UNCHANGED <<sock, peer>>

FileRead(r, ok, good) ==
    /\ h[r].at = "read"
    /\ Become(FileChunk(X(ok), r, good))
    /\ UNCHANGED <<sock, peer>>

\* The awaiting coroutine of a raw write: its private event fires for this request only.
AwaitedWrite(x, r) ==
    IF x.h[r].at = "emit" THEN Destroy([x EXCEPT !.h[r].at = "done"]) ELSE StreamChunks(x, r)

\* A cipher completion that leaves the connection alive also wakes the file machine.
WakeFile(x) == IF x.k.dead THEN x ELSE FileDrained(x)
CipherDone(x) == WakeFile(CipherCompletion(x))

\* libuv completes its oldest write.
WriteDone(ok) ==
    /\ q # <<>>
    /\ LET e == Head(q)
           x == [X(ok) EXCEPT !.q = Tail(@), !.wire = IF k.broken THEN @ ELSE @ \o e.units]
       IN  Become(CASE e.by = "batch" /\ ~k.dead -> BatchedCompletion(x)
                    [] e.by = "cipher" /\ ~k.dead -> CipherDone(x)
                    [] e.by = "raw" -> AwaitedWrite(x, e.r)
                    [] e.by = "file" -> FileDone(x, e.r)
                    [] OTHER -> x)
    /\ UNCHANGED <<sock, peer>>

\* http_write_timer_cb_fn: an awaited write took too long. The handle is closed under it,
\* which fails the write and every later read and write.
SendTimeout ==
    /\ ~k.dead /\ ~k.broken
    /\ \E r \in Ids : h[r].at \in {"raw", "emit"}
    /\ k' = [k EXCEPT !.broken = TRUE]
    /\ peer' = [peer EXCEPT !.eof = TRUE]
    /\ sock' = <<>>
    /\ UNCHANGED <<h, q, wire>>

\* http_server_deadline_tick_fn
DeadlineTick ==
    /\ k.deadline /\ ~k.dead
    /\ Become(Destroy([X("spawn") EXCEPT !.k.ticked = TRUE]))
    /\ UNCHANGED <<sock, peer>>

Runtime ==
    \/ \E ok \in Outcomes : ReadPlain(ok) \/ ReadTls(ok) \/ WriteDone(ok)
    \/ ReadEnd \/ ReadTlsEnd
    \/ \E r \in Ids, ok \in Outcomes :
        \/ \E kind \in Kinds, drain \in BOOLEAN : HandlerRun(r, kind, drain, ok)
        \/ PushResume(r, ok)
        \/ \E body \in BOOLEAN : FileStart(r, body, ok)
        \/ \E good \in BOOLEAN : FileRead(r, ok, good)
    \/ \E r \in Ids : HandlerCancelled(r)

Next ==
    \/ \E t \in Tokens : PeerSend(t)
    \/ \E reset \in BOOLEAN : PeerEof(reset)
    \/ Runtime
    \/ SendTimeout
    \/ DeadlineTick

\* Whether a step of Runtime is enabled: its guards.
Runnable ==
    \/ Readable /\ (sock # <<>> \/ peer.eof)
    \/ q # <<>>
    \/ \E r \in Ids : h[r].at \in {"ready", "cancelled", "open", "read"} \/ (h[r].at = "push" /\ h[r].wake)

\* Weak fairness of Runtime: the loop and the scheduler run what is ready.
RuntimeFairness == []<>~Runnable \/ []<><<Runtime>>_vars

Spec == Init /\ [][Next]_vars /\ RuntimeFairness /\ WF_vars(DeadlineTick)

-----------------------------------------------------------------------------
(* Properties.                                                                 *)

\* Pipelined requests never overlap: at most one handler coroutine or file machine
\* runs on a connection, whichever callback the bytes of the next request reach.
OneHandler == Cardinality({r \in Ids : Live(r)}) <= 1

\* No request waits forever in the buffer: when no handler is left to parse the tail
\* in its dispose, every byte read has been through the parser, or the connection goes.
NoStrandedRequest ==
    (\A r \in Ids : ~Live(r)) /\ ~k.dead /\ ~k.pend /\ k.state # "closing"
        => (k.rbuf = <<>> \/ k.parser = "body")

\* Both: pipelined requests are served one at a time, and all of them.
RequestsServed == OneHandler /\ NoStrandedRequest

\* Responses that went through the batched writer or the TLS ring reach the wire
\* in request order.
QueuedInOrder ==
    \A i, j \in DOMAIN wire :
        i < j /\ wire[i].path = "queued" /\ wire[j].path = "queued" => wire[i].r <= wire[j].r

\* A destroy never frees response bytes a writer accepted: they were written first. A
\* TLS connection that its peer, a deadline or a failed spawn already retired is the
\* exception.
NothingDropped ==
    k.dead /\ ~k.broken /\ ~(k.tls /\ (peer.eof \/ k.ticked \/ k.fails > 0)) => k.lost = 0

\* Both: accepted bytes leave in order, before the connection is freed.
BytesKept == QueuedInOrder /\ NothingDropped

\* A TLS producer parked for ring space is resumed, unless the write side failed.
PusherResumes == \A r \in Ids : []<>(h[r].at # "push" \/ k.werr)

\* Once the peer is gone the connection is freed, unless its handler waits for a body
\* that will not come or for ring space on a failed session.
EofEnds ==
    []<>(peer.eof => k.dead \/ \E r \in Ids : h[r].at = "body" \/ (h[r].at = "push" /\ k.werr))

\* Both: nobody on a connection waits for ever.
ConnectionEnds == PusherResumes /\ EofEnds

=============================================================================
