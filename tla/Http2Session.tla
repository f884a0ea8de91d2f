---------------------------- MODULE Http2Session ----------------------------
(* One HTTP/2 connection, cleartext or TLS: the nghttp2 callbacks that open,   *)
(* fill and close streams (http2_session.c), the stream object's references    *)
(* (http2_stream.c), the request body queue and its flow-control credit        *)
(* (http_body_stream.c), the handler coroutine per stream, its buffered,       *)
(* streamed and file answers, WebSocket over a stream, and the emit passes     *)
(* that move frames to the socket (http2_strategy.c). One thread: a step ends  *)
(* where the code returns to the event loop or suspends its coroutine.         *)
EXTENDS Naturals, FiniteSetsExt, SequencesExt

CONSTANTS
    Streams,        \* client stream ids
    Transports,     \* subset of {"h2c", "tls"}
    Bodies,         \* stream id -> its request bodies: "none", "small", "mid", "big", "ws"
    Answers,        \* stream id -> its answers: "small", "large", "streamed", "file"
    Fates,          \* stream id -> what dispatch makes of it: "spawn", "static", "shed", "fail"
    Drains,         \* whether the server may be draining
    Window,         \* initial send window of a stream, in units
    RingSlots,      \* chunk ring of a streamed answer
    PtCap, CtCap,   \* TLS: plaintext queue and ciphertext ring, in frames
    BodyUnits,      \* bound: request body
    Chunks,         \* chunks of a streamed answer or file
    MaxGrant,       \* bound: WINDOW_UPDATEs per stream
    MaxSpawnFail,   \* bound: coroutine spawn failures
    Ends            \* how a peer ends a body: "data", "trailers"

(* "small" bodies are buffered, "mid" ones too but readBody() may upgrade them, *)
(* "big" ones stream from the start; "ws" is an Extended CONNECT.               *)

VARIABLES
    k,      \* http_connection_t, http2_session_t and the peer's connection state
    st,     \* stream id -> http2_stream_t with its request, handler and answer
    fly     \* frames libuv holds

vars == <<k, st, fly>>

NoStream ==
    [obj |-> "none", refs |-> 0, tbl |-> FALSE, mode |-> "none",
     rx |-> 0, buf |-> 0, queue |-> 0, pre |-> 0, cred |-> 0,
     streaming |-> FALSE, complete |-> FALSE, pend |-> "no",
     at |-> "none", wake |-> FALSE, exc |-> FALSE, coro |-> FALSE, ans |-> "small", left |-> 0,
     sub |-> "none", ring |-> 0, ended |-> FALSE, hdr |-> FALSE, fin |-> FALSE,
     win |-> Window, grants |-> 0, large |-> FALSE, closed |-> "no",
     n |-> 0, rcv |-> 0, ooo |-> FALSE]

X == [k |-> k, st |-> st, fly |-> fly]
Become(x) == k' = x.k /\ st' = x.st /\ fly' = x.fly

\* The handler is through with its stream.
Finish(t) ==
    [t EXCEPT !.at = "done", !.left = 0, !.ans = "small", !.wake = FALSE, !.exc = FALSE, !.coro = FALSE]

\* Where a coroutine is suspended, and where work still holds the stream.
Parked == {"await", "read", "room", "recv"}
Live(t) == t.at \notin {"none", "done"}

\* Frames in production order: stream, index, whether it is DATA.
Frames(s, from, h, d, f) == [i \in 1..h + d + f |-> <<s, from + i - 1, i > h /\ i <= h + d>>]
Ids == SetToSortSeq(Streams, <)

ScheduleEmit(x) == IF x.k.dead THEN x ELSE [x EXCEPT !.k.mt = TRUE]

-----------------------------------------------------------------------------
(* Stream and connection lifetime.                                             *)

\* http2_stream_release: at zero the queues go and the request loses its session pointer.
Release(x, s) ==
    LET t == x.st[s]
    IN  IF t.refs > 1 THEN [x EXCEPT !.st[s].refs = @ - 1]
        ELSE [x EXCEPT !.st[s] = [NoStream EXCEPT !.obj = "freed", !.at = t.at, !.n = t.n,
                                                  !.rcv = t.rcv, !.ooo = t.ooo]]

\* http_connection_destroy with the gates an HTTP/2 connection meets; then
\* http2_strategy_cleanup frees the session and with it the table's references.
DestroyConn(x) ==
    IF x.k.dead THEN x
    ELSE IF x.k.refs > 0 \/ x.k.infl THEN [x EXCEPT !.k.pend = TRUE]
    ELSE LET drop(s) == LET t == x.st[s]
                        IN  IF t.tbl THEN Release([x EXCEPT !.st[s].tbl = FALSE], s).st[s] ELSE t
         IN  [x EXCEPT !.k.dead = TRUE, !.k.pend = FALSE, !.k.mt = FALSE, !.k.dmt = FALSE,
                       !.k.large = 0, !.k.ctl = FALSE, !.k.pt = <<>>, !.st = [s \in Streams |-> drop(s)]]

\* http_connection_destroy_if_idle_deferred
DestroyIfIdleDeferred(x) ==
    IF x.k.refs = 0 /\ x.k.pend /\ ~x.k.dmt THEN [x EXCEPT !.k.dmt = TRUE] ELSE x

DropHandlerRef(x) == DestroyIfIdleDeferred([x EXCEPT !.k.refs = @ - 1])

\* http_server_on_request_dispose saturates at zero.
RequestDispose(x) == [x EXCEPT !.k.active = IF @ > 0 THEN @ - 1 ELSE 0]

\* h2_sendfile_on_done and h2_stream_dispose_tail, or h2_static_on_static_done.
FileDone(x, s) ==
    LET y == [x EXCEPT !.st[s] = Finish(@)]
    IN  IF x.st[s].ans = "file" THEN DropHandlerRef(Release(y, s))
        ELSE Release(DropHandlerRef(RequestDispose(y)), s)

\* cb_on_stream_close: hook, cancel of a live coroutine on an abnormal close, table.
CloseMark(x, s, code) ==
    [x EXCEPT !.st[s].closed = code, !.st[s].large = FALSE,
              !.k.large = IF x.st[s].large THEN @ - 1 ELSE @]

CloseHook(x, s) ==
    CASE x.st[s].at = "file" -> FileDone(x, s)
      [] x.st[s].at = "recv" -> [x EXCEPT !.st[s].wake = TRUE]
      [] OTHER -> x

CancelCoro(x, s, code) ==
    IF x.st[s].coro /\ code = "err"
    THEN [x EXCEPT !.st[s].coro = FALSE, !.st[s].exc = TRUE, !.st[s].wake = TRUE]
    ELSE x

Close(x, s, code) ==
    Release([CancelCoro(CloseHook(CloseMark(x, s, code), s), s, code) EXCEPT !.st[s].tbl = FALSE], s)

-----------------------------------------------------------------------------
(* Output. nghttp2 (external) serialises a stream's HEADERS, as much DATA as its *)
(* window and the data provider give, and its end.                             *)

\* http2_response_data_read, h2_dp_streaming_emit, h2_dp_mark_eof: what is ready now.
Ready(t) ==
    IF t.sub = "none" \/ ~t.tbl \/ t.fin THEN [h |-> 0, d |-> 0, f |-> 0]
    ELSE LET d == Min({t.win, t.ring})
         IN  [h |-> IF t.hdr THEN 0 ELSE 1, d |-> d,
              f |-> IF d = t.ring /\ t.ended THEN 1 ELSE 0]

\* h2_chunk_queue_walk fires write_event when a slot came free: it wakes the producer.
FireWrite(t) == [t EXCEPT !.wake = @ \/ t.at = "room"]

\* Mutant: a freed slot wakes nobody.
WalkSilent(t, d) == [t EXCEPT !.ring = @ - d, !.win = @ - d]

Walk(t, d) ==
    LET u == [t EXCEPT !.ring = @ - d, !.win = @ - d]
    IN  IF d > 0 THEN FireWrite(u) ELSE u

\* Up to budget frames of stream s, in order; out collects them.
Serialise(x, s, h, d, f) ==
    LET n == h + d + f
    IN  [x EXCEPT !.st[s] = [Walk(@, d) EXCEPT !.hdr = @ \/ h = 1, !.fin = @ \/ f = 1, !.n = @ + n],
                  !.budget = @ - n, !.out = @ \o Frames(s, x.st[s].n, h, d, f)]

EndSent(x, s, f) == IF f = 1 /\ x.st[s].pend # "no" THEN Close(x, s, "ok") ELSE x

Emission(x, s, h, d, f) == EndSent(Serialise(x, s, h, d, f), s, f)

WithBudget(x, s, r) ==
    LET h == Min({r.h, x.budget})
        d == Min({r.d, x.budget - h})
    IN  Emission(x, s, h, d, IF d = r.d THEN Min({r.f, x.budget - h - d}) ELSE 0)

SendStream(x, s) == WithBudget(x, s, Ready(x.st[s]))

\* nghttp2_session_send or nghttp2_session_mem_send with room for that many frames.
SessionSend(x, budget) ==
    LET start == [k |-> [x.k EXCEPT !.ctl = FALSE], st |-> x.st, fly |-> x.fly,
                  budget |-> budget, out |-> <<>>]
    IN  FoldLeft(SendStream, start, Ids)

Unbounded == Cardinality(Streams) * (Chunks + BodyUnits + 4)
Plain(y) == [k |-> y.k, st |-> y.st, fly |-> y.fly]

\* Ciphertext ring units: a DATA frame takes two, any other one.
Size(f) == IF f[3] THEN 2 ELSE 1
Used(frames) == Len(frames) + Cardinality({i \in DOMAIN frames : frames[i][3]})

\* tls_drain: encrypts what the ciphertext ring takes and submits it, one write at a time.
TlsDrain(x) ==
    IF x.k.infl \/ x.k.pt = <<>> THEN x
    ELSE LET n == Max({i \in 1..Len(x.k.pt) : i = 1 \/ Used(SubSeq(x.k.pt, 1, i)) <= CtCap})
         IN  [x EXCEPT !.k.infl = TRUE, !.fly = SubSeq(x.k.pt, 1, n),
                       !.k.pt = SubSeq(x.k.pt, n + 1, Len(x.k.pt))]

\* h2_tls_write_chunk: straight into the ciphertext ring unless a tail is parked; then
\* h2_tls_park_plaintext queues the rest behind it.
TlsWriteChunk(x, f) ==
    IF x.k.pt = <<>> /\ Used(x.fly) + Size(f) <= CtCap
    THEN [x EXCEPT !.fly = Append(@, f)] ELSE [x EXCEPT !.k.pt = Append(@, f)]

\* h2_emit_flush_tls_records, then the ciphertext goes out as one write.
SubmitCipher(x) == TlsDrain([x EXCEPT !.k.infl = x.fly # <<>>])

TlsRecords(x, frames) == SubmitCipher(FoldLeft(TlsWriteChunk, x, frames))

\* h2_emit_flush_tls_drain: frames into the plaintext queue while it has room.
QueuePlain(y) == TlsDrain([Plain(y) EXCEPT !.k.pt = @ \o y.out])

FlushTlsDrain(x) == QueuePlain(SessionSend(x, PtCap - Len(x.k.pt)))

\* h2_emit_flush_tls: gather, gated on the cipher write in flight.
Gathered(y) == IF y.out = <<>> THEN Plain(y) ELSE TlsRecords(Plain(y), y.out)

GatherIdle(x) == IF x.k.infl THEN x ELSE Gathered(SessionSend(x, PtCap))

FlushTlsGather(x) == GatherIdle(TlsDrain(x))

\* h2_emit_flush_h2c: one writev of everything nghttp2 has.
Writev(y, ctl) ==
    IF y.out = <<>> /\ ~ctl THEN Plain(y) ELSE [Plain(y) EXCEPT !.k.infl = TRUE, !.fly = y.out]

FlushH2c(x) == Writev(SessionSend(x, Unbounded), x.k.ctl)

\* http2_session_emit
Emit(x) ==
    IF x.k.dead THEN x
    ELSE IF x.k.tls
    THEN IF x.k.large = 0 THEN FlushTlsDrain(x) ELSE FlushTlsGather(x)
    ELSE IF x.k.infl THEN x ELSE FlushH2c(x)

\* What the peer receives, in arrival order.
Arrive(x, frames) ==
    LET one(y, f) == [y EXCEPT ![f[1]].rcv = @ + 1, ![f[1]].ooo = @ \/ f[2] # y[f[1]].rcv]
    IN  [x EXCEPT !.st = FoldLeft(one, x.st, frames)]

\* http2_feed's tail: cleartext drains everything nghttp2 wants to write with raw send()s
\* past any writev in flight (each assumed to fit the socket buffer); TLS leaves it.
RawSend(y) == Arrive(Plain(y), y.out)

FeedTail(x) == IF x.k.tls \/ x.k.dead THEN x ELSE RawSend(SessionSend(x, Unbounded))

-----------------------------------------------------------------------------
(* Answers.                                                                    *)

\* http2_session_submit_response: only while the table still knows the stream.
SubmitResponse(x, s, units) ==
    IF ~x.st[s].tbl THEN x
    ELSE [x EXCEPT !.st[s].sub = "buffered", !.st[s].ring = units, !.st[s].ended = TRUE,
                   !.st[s].large = units > 1, !.k.large = IF units > 1 THEN @ + 1 ELSE @]

\* http2_commit_stream_response; a draining server adds its GOAWAY once.
Commit(x, s, units, drain) ==
    IF ~x.st[s].tbl THEN x
    ELSE LET y == SubmitResponse(x, s, units)
         IN  Emit([y EXCEPT !.k.goaway = @ \/ drain, !.k.ctl = @ \/ (drain /\ ~y.k.goaway)])

\* http2_session_submit_response_streaming: streamed answers count as large.
SubmitStreaming(x, s) ==
    [x EXCEPT !.st[s].sub = "streaming", !.st[s].large = TRUE, !.k.large = @ + 1]

\* h2_stream_mark_ended: nothing is poked once nghttp2 forgot the stream; a first
\* call commits the headers.
MarkEnded(x, s) ==
    LET t == x.st[s]
        y == [x EXCEPT !.st[s].ended = TRUE]
    IN  IF t.ended THEN x
        ELSE IF t.closed # "no" THEN y
        ELSE Emit(IF t.sub = "none" THEN SubmitStreaming(y, s) ELSE y)

\* h2_sendfile_arm: the response's descriptor goes to the file machine, which answers
\* with h2_stream_send_static_response. The request is retired here a second time.
SendFileArm(x, s) ==
    LET y == RequestDispose(x)
    IN  IF ~x.st[s].tbl
        THEN FileDone([y EXCEPT !.st[s].ans = "file"], s)
        ELSE Emit([SubmitStreaming(y, s) EXCEPT !.st[s].at = "file", !.st[s].ans = "file",
                                               !.st[s].left = Chunks])

\* http2_handler_coroutine_dispose
Dispose(x, s, ans, drain) ==
    LET t == x.st[s]
        y == RequestDispose([x EXCEPT !.st[s].coro = FALSE, !.st[s].wake = FALSE])
        units == IF ans = "large" THEN Window + 1 ELSE 1
        z == IF t.sub = "streaming" \/ ans = "streamed" THEN MarkEnded(y, s)
             ELSE Commit(y, s, units, drain)
    IN  IF ans = "file" THEN SendFileArm(y, s)
        ELSE DropHandlerRef(Release([z EXCEPT !.st[s] = Finish(@)], s))

\* h2_stream_append_chunk until the ring is full: h2_stream_wait_for_room parks.
RECURSIVE Append1(_, _, _)
Append1(x, s, drain) ==
    LET t == x.st[s]
        y == IF t.sub = "none" THEN SubmitStreaming(x, s) ELSE x
    IN  IF t.left = 0 \/ (t.sub = "none" /\ ~t.tbl)
        THEN Dispose(x, s, "streamed", drain)
        ELSE IF t.ring >= RingSlots
        THEN [x EXCEPT !.st[s].at = "room", !.st[s].wake = FALSE]
        ELSE Append1(Emit([y EXCEPT !.st[s].ring = @ + 1, !.st[s].left = @ - 1]), s, drain)

\* The handler answers.
Respond(x, s, ans, drain) ==
    IF ans = "streamed"
    THEN Append1([x EXCEPT !.st[s].left = Chunks, !.st[s].ans = ans], s, drain)
    ELSE Dispose(x, s, ans, drain)

-----------------------------------------------------------------------------
(* Request bodies.                                                             *)

\* http2_request_body_upgrade: buffered bytes become the first chunk, already credited.
Upgrade(t) ==
    IF t.mode # "mid" \/ t.streaming \/ t.complete THEN t
    ELSE [t EXCEPT !.queue = t.buf, !.pre = t.buf, !.buf = 0, !.streaming = TRUE]

\* http_body_stream_pop until the queue is empty: credit is what was not credited before.
PopAll(x, s) ==
    LET t == x.st[s]
        skip == Min({t.queue, t.pre})
        y == [x EXCEPT !.st[s].queue = 0, !.st[s].pre = @ - skip, !.st[s].cred = @ + t.queue - skip]
    IN  IF t.queue = skip THEN y ELSE ScheduleEmit([y EXCEPT !.k.ctl = TRUE])

\* awaitBody() and a readBody() loop: the handler answers once the body is in.
PopStreamed(x, s) == IF x.st[s].streaming THEN PopAll(x, s) ELSE x

RespondOrWait(x, s, plan, ans, drain) ==
    IF plan = "skip" \/ x.st[s].complete THEN Respond(x, s, ans, drain)
    ELSE [x EXCEPT !.st[s].wake = FALSE,
                   !.st[s].at = IF plan = "read" /\ x.st[s].streaming THEN "read" ELSE "await"]

Read(x, s, plan, ans, drain) ==
    RespondOrWait(IF plan = "read" THEN PopStreamed([x EXCEPT !.st[s] = Upgrade(@)], s) ELSE x,
                  s, plan, ans, drain)

\* finalize_request_body closes the queue and triggers body_event.
FinalizeRequestBody(t) == [t EXCEPT !.complete = TRUE, !.wake = @ \/ t.at \in {"read", "await"}]

\* cb_on_data_chunk_recv, by mode: WebSocket bytes are consumed at once, streamed ones when
\* popped, buffered ones at once; over a body limit the stream is reset.
DataChunk(x, s, over) ==
    LET t == x.st[s]
        got == [x EXCEPT !.st[s].rx = @ + 1]
    IN  IF t.mode = "ws"
        THEN ScheduleEmit([got EXCEPT !.st[s].cred = @ + 1, !.st[s].wake = @ \/ t.at = "recv",
                                      !.k.ctl = TRUE])
        ELSE IF over THEN Close([got EXCEPT !.k.ctl = TRUE], s, "err")
        ELSE IF t.streaming
        THEN [got EXCEPT !.st[s].queue = @ + 1, !.st[s].wake = @ \/ t.at = "read"]
        ELSE [got EXCEPT !.st[s].buf = @ + 1, !.st[s].cred = @ + 1, !.k.ctl = TRUE]

-----------------------------------------------------------------------------
(* WebSocket over a stream (RFC 8441).                                         *)

\* ws_h2_handler_dispose; unlike the other disposes it leaves a pending destroy alone.
WsDispose(x, s, reject) ==
    LET y == RequestDispose([x EXCEPT !.st[s].coro = FALSE, !.st[s].wake = FALSE])
        z == IF x.st[s].closed # "no" THEN y
             ELSE IF reject /\ x.st[s].sub = "none" THEN Emit(SubmitResponse(y, s, 0))
             ELSE MarkEnded(y, s)
    IN  [Release([z EXCEPT !.st[s] = Finish(@)], s) EXCEPT !.k.refs = @ - 1]

\* http2_ws_accept on the first recv(): a streaming 200, then the buffered bytes replay.
WsAccept(x, s) ==
    IF ~x.st[s].tbl THEN WsDispose(x, s, FALSE)
    ELSE IF x.st[s].rx > 0 THEN WsDispose(Emit(SubmitStreaming(x, s)), s, FALSE)
    ELSE [Emit(SubmitStreaming(x, s)) EXCEPT !.st[s].at = "recv", !.st[s].wake = FALSE]

-----------------------------------------------------------------------------
(* Dispatch.                                                                   *)

\* Mutant: the coroutine takes no reference of its own on the stream.
SpawnUnpinned(x, s) ==
    [x EXCEPT !.st[s].at = "ready", !.st[s].coro = TRUE, !.k.refs = @ + 1, !.k.active = @ + 1]

\* http2_strategy_dispatch and http2_ws_dispatch: the coroutine pins stream and connection.
Spawn(x, s) ==
    [x EXCEPT !.st[s].at = "ready", !.st[s].coro = TRUE, !.st[s].refs = @ + 1,
              !.k.refs = @ + 1, !.k.active = @ + 1]

\* h2_static_on_hard_zero_armed: a static mount claims the request, no coroutine.
ArmStatic(x, s) ==
    [x EXCEPT !.st[s].at = "file", !.st[s].ans = "static", !.st[s].left = Chunks,
              !.st[s].refs = @ + 1, !.k.refs = @ + 1, !.k.active = @ + 1]

\* cb_on_begin_headers, cb_on_frame_recv: a new stream enters the table and is dispatched.
NewStream(x, s, mode, end, how) ==
    LET t == [NoStream EXCEPT !.obj = "live", !.refs = 1, !.tbl = TRUE, !.mode = mode,
                              !.streaming = mode \in {"none", "big"}]
        y == [x EXCEPT !.st[s] = t]
        z == CASE how = "static" -> ArmStatic(y, s)
               [] how = "fail" -> [y EXCEPT !.k.fails = @ + 1]
               [] OTHER -> Spawn(y, s)
    IN  IF end THEN [z EXCEPT !.st[s] = FinalizeRequestBody(@), !.st[s].pend = "data"] ELSE z

-----------------------------------------------------------------------------
(* Steps.                                                                      *)

Init ==
    /\ k \in {[tls |-> t, last |-> 0, mt |-> FALSE, dmt |-> FALSE, infl |-> FALSE, pt |-> <<>>,
               large |-> 0, refs |-> 0, pend |-> FALSE, dead |-> FALSE, active |-> 0,
               goaway |-> FALSE, ctl |-> FALSE, fails |-> 0, pinged |-> FALSE,
               eof |-> FALSE] : t \in {tr = "tls" : tr \in Transports}}
    /\ st = [s \in Streams |-> NoStream]
    /\ fly = <<>>

\* The peer's bytes reach http2_feed while the connection reads.
Feeding == ~k.dead /\ ~k.eof

\* A feed error (stream id reuse, http2_feed's error path): GOAWAY, then teardown.
FeedError(x) == DestroyConn([x EXCEPT !.k.eof = TRUE])

\* HEADERS of a request: cb_on_begin_frame, cb_on_begin_headers, cb_on_frame_recv.
PeerOpen(s, mode, end, how) ==
    /\ Feeding /\ st[s].obj = "none" /\ (mode = "none" => end)
    /\ how = "static" => mode = "none"
    /\ how = "fail" => k.fails < MaxSpawnFail
    /\ LET x == [X EXCEPT !.k.ctl = @ \/ k.last = 0, !.k.last = Max({@, s})]
       IN  Become(CASE s <= k.last -> FeedError(X)
                    [] s > k.last /\ how = "shed" -> FeedTail([x EXCEPT !.k.ctl = TRUE])
                    [] OTHER -> FeedTail(NewStream(x, s, mode, end, how)))

\* A body may be sent within the credit this side granted.
Open(s) == Feeding /\ st[s].tbl /\ st[s].pend = "no"

PeerData(s, over) ==
    /\ Open(s) /\ st[s].rx < BodyUnits /\ st[s].rx - st[s].cred < 1
    /\ Become(FeedTail(DataChunk(X, s, over)))

\* END_STREAM. cb_on_frame_recv finalises the body on DATA, not on trailing HEADERS.
PeerEnd(s, how) ==
    /\ Open(s)
    /\ LET x == [X EXCEPT !.st[s].pend = how,
                          !.st[s] = IF how = "data" /\ ~st[s].complete
                                    THEN FinalizeRequestBody([@ EXCEPT !.pend = how])
                                    ELSE [@ EXCEPT !.pend = how]]
       IN  Become(FeedTail(IF st[s].fin THEN Close(x, s, "ok") ELSE x))

\* RST_STREAM, with an error code or NO_ERROR.
PeerReset(s, code) ==
    /\ Feeding /\ st[s].tbl
    /\ Become(FeedTail(Close(X, s, code)))

\* WINDOW_UPDATE fires write_event: a parked producer, the buffered answer's or the file
\* machine's subscription.
PeerGrant(s) ==
    /\ Feeding /\ st[s].tbl /\ st[s].win = 0 /\ st[s].grants < MaxGrant
    /\ LET t == st[s]
           x == [X EXCEPT !.st[s] = FireWrite([@ EXCEPT !.win = @ + 1, !.grants = @ + 1])]
           y == IF t.sub = "buffered" \/ t.at = "file" THEN ScheduleEmit(x) ELSE x
       IN  Become(FeedTail(y))

\* PING is answered with an ACK this side submits.
PeerPing ==
    /\ Feeding /\ k.last > 0 /\ ~k.pinged
    /\ Become(FeedTail([X EXCEPT !.k.pinged = TRUE, !.k.ctl = TRUE]))

\* End of file, or a reset, from the socket.
PeerEof ==
    /\ Feeding /\ k.last > 0
    /\ Become(DestroyConn([X EXCEPT !.k.eof = TRUE]))

\* http2_handler_coroutine_entry, ws_h2_handler_entry: the first run, unless cancelled.
HandlerRun(s, plan, ans, drain) ==
    /\ st[s].at = "ready"
    /\ Become(CASE st[s].mode = "ws" ->
                      IF st[s].exc \/ plan = "skip" THEN WsDispose(X, s, ans = "small") ELSE WsAccept(X, s)
                [] st[s].mode # "ws" /\ st[s].exc -> Dispose(X, s, "small", drain)
                [] OTHER -> Read(X, s, plan, ans, drain))

\* A suspended handler resumes; a cancelled one unwinds into its dispose.
HandlerResume(s, ans, drain) ==
    /\ st[s].at \in Parked /\ st[s].wake
    /\ Become(CASE st[s].at = "recv" -> WsDispose(X, s, FALSE)
                [] st[s].at # "recv" /\ st[s].exc -> Dispose(X, s, "small", drain)
                [] st[s].at = "room" /\ ~st[s].exc -> Append1(Emit(X), s, drain)
                [] OTHER -> Read(X, s, st[s].at, ans, drain))

\* The file machine reads its next chunk into the ring and kicks the session.
FileRead(s, ok) ==
    /\ st[s].at = "file" /\ ~st[s].ended /\ st[s].ring < RingSlots
    /\ LET t == st[s]
           y == IF t.sub = "none" THEN SubmitStreaming(X, s) ELSE X
           last == ~ok \/ t.left = 1
       IN  Become(Emit([y EXCEPT !.st[s].ring = IF ok THEN @ + 1 ELSE @,
                                 !.st[s].left = IF last THEN 0 ELSE @ - 1,
                                 !.st[s].ended = last]))

\* http_send_batched_finish, tls_cipher_completion: then http2_conn_notify_emit.
WriteDone ==
    /\ k.infl
    /\ LET x == [Arrive(X, fly) EXCEPT !.k.infl = FALSE, !.fly = <<>>]
       IN  Become(IF k.pend /\ k.refs = 0 THEN DestroyConn(x)
                  ELSE Emit(IF k.tls THEN TlsDrain(x) ELSE x))

\* h2_emit_mt_handler
EmitMicrotask == k.mt /\ Become(Emit([X EXCEPT !.k.mt = FALSE]))

\* conn_destroy_microtask_handler re-checks what made it due.
DestroyMicrotask ==
    /\ k.dmt
    /\ LET x == [X EXCEPT !.k.dmt = FALSE]
       IN  Become(IF k.refs = 0 /\ k.pend THEN DestroyConn([x EXCEPT !.k.pend = FALSE]) ELSE x)

Runtime ==
    \/ \E s \in Streams, drain \in Drains : \E ans \in Answers[s] :
        \/ \E plan \in {"skip", "await", "read"} : HandlerRun(s, plan, ans, drain)
        \/ HandlerResume(s, ans, drain)
    \/ \E s \in Streams, ok \in BOOLEAN : FileRead(s, ok)
    \/ WriteDone \/ EmitMicrotask \/ DestroyMicrotask
    \/ \E s \in Streams : PeerGrant(s)

Next ==
    \/ \E s \in Streams :
        \/ \E mode \in Bodies[s], end \in BOOLEAN, how \in Fates[s] : PeerOpen(s, mode, end, how)
        \/ \E over \in BOOLEAN : PeerData(s, over)
        \/ \E how \in Ends : PeerEnd(s, how)
        \/ \E code \in {"err", "ok"} : PeerReset(s, code)
    \/ PeerPing \/ PeerEof
    \/ Runtime

\* Whether a step of Runtime is enabled: its guards.
Runnable ==
    \/ k.infl \/ k.mt \/ k.dmt
    \/ \E s \in Streams :
        \/ st[s].at = "ready" \/ (st[s].at \in Parked /\ st[s].wake)
        \/ st[s].at = "file" /\ ~st[s].ended /\ st[s].ring < RingSlots
        \/ Feeding /\ st[s].tbl /\ st[s].win = 0 /\ st[s].grants < MaxGrant

\* Weak fairness of Runtime: the loop runs what is ready and the peer, which opens a
\* window it exhausted, keeps reading.
Fairness == []<>~Runnable \/ []<><<Runtime>>_vars

Spec == Init /\ [][Next]_vars /\ Fairness

-----------------------------------------------------------------------------
(* Properties.                                                                 *)

\* A handler or file machine never outlives what it uses: its stream object and the
\* connection with its session stay while it runs, whatever the peer closes first.
HandlerPinsStream == \A s \in Streams : Live(st[s]) => st[s].obj = "live" /\ ~k.dead

\* Every body byte is credited to the peer exactly once: what it sent and was not granted
\* back is what sits in the queue unread, also across the buffered-to-stream upgrade.
CreditExact ==
    \A s \in Streams : st[s].obj = "live" /\ st[s].tbl =>
        st[s].rx = st[s].cred + st[s].queue - st[s].pre

\* Over TLS the frames of a stream reach the peer in the order nghttp2 made them, however
\* a pass splits them between the ciphertext ring and the parked tail.
FramesInOrder == k.tls => \A s \in Streams : ~st[s].ooo

\* Together: objects live as long as they are used, credit and order are kept.
H2Sound == HandlerPinsStream /\ CreditExact /\ FramesInOrder

\* A producer parked on a full ring resumes once frames drain or the peer opens its window,
\* and when its stream is reset; a reset with NO_ERROR and a lost peer are the exceptions.
ProducerResumes ==
    \A s \in Streams : []<>(st[s].at # "room" \/ st[s].closed = "ok" \/ k.eof)

\* A complete body releases the handler that waits for it, on either of its events.
BodyEndsWait ==
    \A s \in Streams : []<>~(st[s].at \in {"await", "read"} /\ st[s].complete)

\* An answered stream ends on the wire when the peer keeps granting, whichever transport
\* and emit mode; streamed answers over TLS are the exception.
AnswerCompletes ==
    \A s \in Streams :
        []<>(st[s].at = "done" /\ st[s].tbl =>
                st[s].fin \/ k.eof \/ (k.tls /\ st[s].sub = "streaming"))

\* Together: what waits in a session is released when its cause has gone.
H2Progress == ProducerResumes /\ BodyEndsWait /\ AnswerCompletes

=============================================================================
