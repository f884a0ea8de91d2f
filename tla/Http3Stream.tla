----------------------------- MODULE Http3Stream -----------------------------
(* The request streams of one HTTP/3 connection, on the thread that owns it:  *)
(* the nghttp3/ngtcp2 callbacks, the handler coroutine with its body reads    *)
(* and its sends, the queue of response chunks that the transport reads and   *)
(* acknowledges, the file pump with the memory budget its pumps share, and    *)
(* the references that keep a stream alive.                                   *)
(*                                                                            *)
(* nghttp3 and ngtcp2 are external: they pull response bytes through          *)
(* h3_read_data_cb while the flow-control and congestion windows are open,    *)
(* report acknowledged bytes in order, and keep every byte they pulled until  *)
(* it is acknowledged or the stream closes.  The unit of length is one byte   *)
(* of a packet; a chunk is one or more units.                                 *)
EXTENDS Naturals, Sequences, FiniteSets, FiniteSetsExt, SequencesExt

CONSTANTS
    Streams,      \* request streams of the connection
    Plan,         \* Plan[i]: what the peer sends and the handler does, see below
    StreamWindow, \* bytes of response the peer lets us send before reading
    Cwnd,         \* congestion window: bytes sent and not acknowledged
    RxWindow,     \* bytes of request body the peer may send before credit
    BodyCap,      \* max_body_size
    CreditStep,   \* bytes coalesced before a window update is sent
    HighWater,    \* H3_STATIC_STREAM_HIGH_WATER
    Budget,       \* h3_static_budget_bytes
    MaxFaults     \* resets, read errors, timeouts, connection closes in a run

VARIABLES
    live,    \* the connection struct exists and is not closed
    str,     \* str[i]: the stream slot, its request and its handler
    pool,    \* [inflight, throttled, parked]: the budget shared by file pumps
    faults,  \* faults so far
    stale    \* streams that used a connection after it was freed

vars == <<live, str, pool, faults, stale>>

(* A plan: mode "stream", "upgrade" or "buffer" (the Content-Length policy),  *)
(* body (the lengths the peer may send), reads (does the handler read the body),       *)
(* answer "buffered", "streamed", "file" or "static" (a file served without   *)
(* a handler), lens (the chunks of the answer).                               *)
Idle == [st |-> "none", refs |-> 0, onConn |-> FALSE, user |-> FALSE,
         peerClosed |-> FALSE, rejected |-> FALSE, dispatched |-> FALSE,
         fin |-> FALSE, wrShut |-> FALSE,
         mode |-> "buffer", got |-> 0, buf |-> 0, q |-> <<>>, pre |-> 0,
         popped |-> 0, unc |-> 0, rx |-> RxWindow, eof |-> FALSE,
         berr |-> FALSE, reqConn |-> FALSE,
         co |-> "none", phase |-> "body",
         tail |-> 0, ridx |-> 0, handed |-> 0, head |-> 0,
         written |-> 0, acked |-> 0, wnd |-> StreamWindow, ended |-> FALSE,
         submitted |-> FALSE, eofOut |-> FALSE, blocked |-> FALSE,
         dry |-> FALSE, wev |-> "none",
         pump |-> "none", reading |-> FALSE, queued |-> FALSE, inflight |-> 0]

World == [live |-> live, str |-> str, pool |-> pool, stale |-> stale]

Becomes(w) ==
    /\ live' = w.live
    /\ str' = w.str
    /\ pool' = w.pool
    /\ stale' = w.stale

Init ==
    /\ live = TRUE
    /\ str = [i \in Streams |-> Idle]
    /\ pool = [inflight |-> 0, throttled |-> FALSE, parked |-> <<>>]
    /\ faults = 0
    /\ stale = {}

Lens(i) == Plan[i].lens
Bytes(i, n) == FoldFunctionOnSet(+, 0, Lens(i), 1..n)
Pending(s, i) == Bytes(i, s.tail) - Bytes(i, s.handed)

------------------------------------------------------------------------------
(* Draining the connection.                                                   *)

(* write_event->trigger(): wakes whoever waits, from the event loop.          *)
Trigger(s) == IF s.wev = "none" THEN s ELSE [s EXCEPT !.wev = "set"]

(* h3_read_data_cb: the index moves past a chunk only when the next call      *)
(* finds it fully handed out; the chunk itself is released on ACK.            *)
ReadData(s, i) ==
    IF s.tail > 0
    THEN LET t == [s EXCEPT !.ridx = s.handed] IN
         IF s.handed < s.tail THEN Trigger([t EXCEPT !.handed = @ + 1])
         ELSE IF s.ended THEN [t EXCEPT !.eofOut = TRUE]
         ELSE [t EXCEPT !.dry = TRUE]
    ELSE IF Plan[i].answer = "buffered" /\ s.handed < Len(Lens(i))
         THEN [s EXCEPT !.handed = Len(Lens(i)), !.eofOut = TRUE]
         ELSE [s EXCEPT !.eofOut = TRUE]

Unsent(s, i) == Bytes(i, s.handed) - s.written

Flight(w) == FoldFunctionOnSet(+, 0, [i \in Streams |->
                 IF w.str[i].user THEN w.str[i].written - w.str[i].acked ELSE 0],
                 Streams)

Writable(w, i) ==
    LET s == w.str[i] IN
    /\ s.user
    /\ s.submitted
    /\ ~s.wrShut
    /\ ~s.blocked
    /\ IF Unsent(s, i) > 0 THEN s.wnd = 0 \/ Flight(w) < Cwnd
       ELSE ~s.dry /\ ~s.eofOut

(* One turn of the drain loop for a stream: pull from the reader, write a     *)
(* packet, or block the stream when its window is shut.                       *)
DrainStep(s, i) ==
    IF Unsent(s, i) = 0 THEN ReadData(s, i)
    ELSE IF s.wnd = 0 THEN [s EXCEPT !.blocked = TRUE]
    ELSE [s EXCEPT !.written = @ + 1, !.wnd = @ - 1]

RECURSIVE DrainOut(_)
DrainOut(w) ==
    LET ready == {i \in Streams : Writable(w, i)} IN
    IF ~w.live \/ ready = {} THEN w
    ELSE LET i == Min(ready) IN
         DrainOut([w EXCEPT !.str[i] = DrainStep(@, i)])

(* http3_stream_submit_response: headers and the reader go to nghttp3.        *)
SubmitResponse(s) == [s EXCEPT !.submitted = TRUE]

(* nghttp3_conn_resume_stream: the reader is asked again.                     *)
ResumeStream(s) == [s EXCEPT !.dry = FALSE]

------------------------------------------------------------------------------
(* The file pump and its budget.                                              *)

OverBudget(w) == w.pool.inflight >= Budget

(* h3_static_throttle_park: newest first.                                     *)
ThrottlePark(w, i) ==
    [w EXCEPT !.pool.throttled = TRUE,
              !.pool.parked = IF i \in ToSet(@) THEN @ ELSE <<i>> \o @]

ThrottleUnlink(w, i) == [w EXCEPT !.pool.parked = Remove(@, i)]

(* h3_stream_mark_ended: an answer without a chunk is submitted here.         *)
MarkEnded(w, i) ==
    LET s == w.str[i] IN
    IF ~s.onConn \/ s.ended THEN w
    ELSE IF s.peerClosed \/ ~w.live THEN [w EXCEPT !.str[i].ended = TRUE]
    ELSE DrainOut([w EXCEPT !.str[i] = ResumeStream(SubmitResponse(
                                         [@ EXCEPT !.ended = TRUE]))])

RECURSIVE Release(_, _), TryRead(_, _), KickAll(_, _)

(* h3_static_account_debit: below 80% every parked pump is kicked.            *)
AccountDebit(w, n) ==
    LET v == [w EXCEPT !.pool.inflight = @ - Min({n, @})] IN
    IF v.pool.throttled /\ v.pool.inflight * 5 < Budget * 4
    THEN KickAll([v EXCEPT !.pool.throttled = FALSE], v.pool.parked)
    ELSE v

(* h3_dispose_tail: push the output, drop the reference of the coroutine or   *)
(* of the pump.                                                               *)
DisposeTail(w, i) == Release(DrainOut(w), i)

(* h3_static_finalize, with the on_done of sendFile and of static serving.    *)
Finalize(w, i) ==
    DisposeTail([ThrottleUnlink(w, i) EXCEPT !.str[i].pump = "done",
                                             !.str[i].reading = FALSE], i)

(* h3_static_fail: a live stream is reset and the close retires the pump.     *)
Fail(w, i) ==
    LET s == w.str[i] IN
    IF s.onConn /\ ~s.peerClosed /\ ~s.queued
    THEN [w EXCEPT !.str[i].queued = TRUE, !.str[i].wrShut = TRUE]
    ELSE Finalize(w, i)

TryRead(w, i) ==
    LET s == w.str[i] IN
    IF s.pump # "on" THEN w
    ELSE IF ~s.onConn \/ s.peerClosed THEN Fail(w, i)
    ELSE IF s.reading THEN w
    ELSE IF s.tail = Len(Lens(i)) THEN MarkEnded([w EXCEPT !.str[i].queued = TRUE], i)
    ELSE IF OverBudget(w) THEN ThrottlePark(w, i)
    ELSE IF Pending(s, i) >= HighWater THEN w
    ELSE [w EXCEPT !.str[i].reading = TRUE]

KickAll(w, list) ==
    IF list = <<>> THEN w
    ELSE KickAll(TryRead(ThrottleUnlink(w, Head(list)), Head(list)), Tail(list))

(* http_body_stream_error / _close: a reader parked on the queue resumes.     *)
WakeReader(s) == IF s.co = "read" THEN [s EXCEPT !.co = "run"] ELSE s
BodyClose(s) == WakeReader([s EXCEPT !.eof = TRUE])
BodyError(s) == IF s.eof THEN [s EXCEPT !.berr = TRUE]
                ELSE BodyClose([s EXCEPT !.berr = TRUE])

(* http3_stream_release: on the last reference the slot gives back what it    *)
(* still charges and is freed.  The request is severed from the connection    *)
(* and its body marked broken only here, when no handler of the stream is     *)
(* left to see it.                                                            *)
ReleaseLast(s) ==
    [Idle EXCEPT !.st = "freed", !.dispatched = s.dispatched, !.co = s.co]

Release(w, i) ==
    LET s == [w.str[i] EXCEPT !.refs = @ - 1] IN
    IF s.refs > 0 THEN [w EXCEPT !.str[i] = s]
    ELSE LET v == [w EXCEPT !.str[i] = ReleaseLast(s)] IN
         IF s.inflight > 0 THEN AccountDebit(v, s.inflight) ELSE v

(* h3_stream_append_chunk up to the wait: queue, submit or resume, drain.     *)
AppendChunk(w, i) ==
    LET s == w.str[i]
        n == Lens(i)[s.tail + 1]
        t == [s EXCEPT !.tail = @ + 1,
                       !.inflight = IF s.pump = "on" THEN @ + n ELSE @]
        v == [w EXCEPT !.pool.inflight = IF s.pump = "on" THEN @ + n ELSE @,
                       !.str[i] = IF s.tail = 0 THEN SubmitResponse(t)
                                  ELSE ResumeStream(t)]
    IN DrainOut(v)

(* h3_stream_send_static_response with a body.                                *)
StartPump(w, i) ==
    TryRead([w EXCEPT !.str[i].pump = "on", !.str[i].wev = "idle"], i)

------------------------------------------------------------------------------
(* The request.                                                               *)

(* http3_stream_dispatch: a static file is pumped without a handler, anything *)
(* else gets a coroutine; a coroutine that cannot be made leaves the stream   *)
(* undispatched.                                                              *)
Dispatch(w, i, spawned) ==
    LET v == [w EXCEPT !.str[i].dispatched = TRUE, !.str[i].refs = @ + 1] IN
    IF Plan[i].answer = "static" THEN StartPump(v, i)
    ELSE IF spawned THEN [v EXCEPT !.str[i].co = "ready"]
    ELSE w

(* h3_begin_headers_cb, then h3_end_headers_cb with the Content-Length policy.*)
BeginHeaders(s) == [s EXCEPT !.st = "open", !.refs = 1, !.onConn = TRUE, !.user = TRUE]

EndHeaders(s, i) ==
    [s EXCEPT !.reqConn = TRUE,
              !.mode = IF Plan[i].mode = "stream" THEN "stream" ELSE "buffer"]

Fault == faults < MaxFaults /\ faults' = faults + 1
NoFault == UNCHANGED faults

Headers(i) ==
    /\ live
    /\ str[i].st = "none"
    /\ LET w == [World EXCEPT !.str[i] = EndHeaders(BeginHeaders(@), i)] IN
       \/ NoFault /\ Becomes(Dispatch(w, i, TRUE))
       \/ Fault /\ Plan[i].answer # "static" /\ Becomes(Dispatch(w, i, FALSE))

(* http3_finalize_request_body: closes the queue or completes the body, and   *)
(* wakes awaitBody().                                                         *)
FinalizeRequestBody(s) ==
    LET t == [IF s.mode = "stream" THEN BodyClose(s) ELSE s EXCEPT !.fin = TRUE] IN
    IF t.co = "await" THEN [t EXCEPT !.co = "run"] ELSE t

(* h3_reject_request_stream: both directions are shut; a dispatched handler   *)
(* must not wait for a body that will not come.                               *)
RejectRequestStream(s) ==
    LET t == [s EXCEPT !.rejected = TRUE, !.wrShut = TRUE] IN
    IF s.dispatched /\ ~s.fin THEN FinalizeRequestBody(t) ELSE t

QueuedBytes(s) == FoldSeq(+, 0, s.q)

(* h3_recv_data_cb for one byte.  rx is what the peer may still send: a       *)
(* buffered or refused byte is credited back at once, a queued one when the   *)
(* handler takes it.                                                          *)
RecvByte(s) ==
    LET t == [s EXCEPT !.got = @ + 1] IN
    IF s.rejected THEN t
    ELSE IF s.mode = "stream"
         THEN IF s.popped + QueuedBytes(s) + 1 > BodyCap THEN RejectRequestStream(t)
              ELSE WakeReader([t EXCEPT !.q = Append(@, 1), !.rx = @ - 1])
    ELSE IF s.buf + 1 > BodyCap THEN RejectRequestStream(t)
    ELSE [t EXCEPT !.buf = @ + 1]

RecvData(i) ==
    /\ str[i].user
    /\ str[i].got < Max(Plan[i].body)
    /\ ~str[i].fin \/ str[i].rejected
    /\ str[i].rx > 0
    /\ str' = [str EXCEPT ![i] = RecvByte(@)]
    /\ UNCHANGED <<live, pool, faults, stale>>

(* h3_end_stream_cb: a rejected stream is skipped; an undispatched one is     *)
(* dispatched here.                                                           *)
EndStream(i) ==
    /\ str[i].user
    /\ str[i].got \in Plan[i].body
    /\ ~str[i].fin
    /\ ~str[i].rejected
    /\ NoFault
    /\ LET w == [World EXCEPT !.str[i] = FinalizeRequestBody(@)] IN
       Becomes(IF str[i].dispatched THEN w ELSE Dispatch(w, i, TRUE))

------------------------------------------------------------------------------
(* The handler coroutine.                                                     *)

(* h3_handler_coroutine_dispose: end a streamed answer, hand a file to the    *)
(* pump, or submit the buffered answer; then the tail, unless the pump has    *)
(* taken the reference over.                                                  *)
Dispose(w, i) ==
    LET s == w.str[i]
        v == [w EXCEPT !.str[i].co = "gone"] IN
    IF ~s.onConn \/ ~w.live THEN DisposeTail(v, i)
    ELSE IF s.tail > 0
         THEN DisposeTail([v EXCEPT !.str[i] = ResumeStream([@ EXCEPT !.ended = TRUE])], i)
    ELSE IF Plan[i].answer = "file" /\ s.phase # "end" THEN StartPump(v, i)
    ELSE DisposeTail([v EXCEPT !.str[i] = SubmitResponse(@)], i)

(* h3_handler_coroutine_entry: returns at once when the connection is gone.   *)
Enter(i) ==
    /\ str[i].co = "ready"
    /\ NoFault
    /\ Becomes(IF ~str[i].onConn THEN Dispose(World, i)
               ELSE [World EXCEPT !.str[i].co = "run",
                                  !.str[i].phase = IF Plan[i].reads THEN "body"
                                                   ELSE "answer"])

(* http3_request_body_upgrade: bytes buffered so far become the first chunk,  *)
(* already credited.                                                          *)
BodyUpgrade(s) ==
    [s EXCEPT !.mode = "stream", !.buf = 0,
              !.pre = @ + s.buf, !.q = IF s.buf > 0 THEN Append(@, s.buf) ELSE @]

(* http3_request_body_consume.  The request keeps its own pointer to the      *)
(* connection.                                                                *)
BodyConsume(w, i, n) ==
    LET s == w.str[i]
        u == s.unc + n IN
    IF ~s.reqConn THEN w
    ELSE IF ~w.live THEN [w EXCEPT !.stale = @ \cup {i}]
    ELSE IF u < CreditStep /\ s.q # <<>> THEN [w EXCEPT !.str[i].unc = u]
    ELSE DrainOut([w EXCEPT !.str[i].unc = 0, !.str[i].rx = @ + u])

(* http_body_stream_pop: what was credited while buffered is not credited     *)
(* again.                                                                     *)
BodyPop(w, i) ==
    LET s == w.str[i]
        n == Head(s.q)
        skip == Min({n, s.pre}) IN
    BodyConsume([w EXCEPT !.str[i].q = Tail(@), !.str[i].popped = @ + n,
                          !.str[i].pre = @ - skip], i, n - skip)

(* HttpRequest::readBody(): one turn of its loop.                             *)
ReadBody(i) ==
    LET up == [World EXCEPT !.str[i] =
                   IF @.mode = "buffer" /\ ~@.fin THEN BodyUpgrade(@) ELSE @]
        s == up.str[i] IN
    /\ str[i].co = "run"
    /\ str[i].phase = "body"
    /\ ~(str[i].mode = "buffer" /\ Plan[i].mode = "buffer" /\ ~str[i].fin)
    /\ NoFault
    /\ \/ s.mode = "stream" /\ s.q # <<>> /\ Becomes(BodyPop(up, i))
       \/ s.mode = "stream" /\ s.q = <<>> /\ ~s.eof /\ Becomes([up EXCEPT !.str[i].co = "read"])
       \/ s.mode = "stream" /\ s.q = <<>> /\ s.eof
          /\ Becomes([up EXCEPT !.str[i].phase = IF s.berr THEN "end" ELSE "answer"])
       \/ s.mode = "buffer" /\ Becomes([up EXCEPT !.str[i].phase = "answer"])

(* readBody() or awaitBody() of a small body: wait for the whole of it.       *)
AwaitBody(i) ==
    /\ str[i].co = "run"
    /\ str[i].phase = "body"
    /\ str[i].mode = "buffer"
    /\ Plan[i].mode = "buffer"
    /\ ~str[i].fin
    /\ str' = [str EXCEPT ![i].co = "await"]
    /\ UNCHANGED <<live, pool, faults, stale>>

(* The end of h3_stream_append_chunk: wait while bytes are queued.            *)
SendWait(w, i) ==
    LET s == w.str[i] IN
    IF Pending(s, i) > 0 /\ ~s.peerClosed
    THEN [w EXCEPT !.str[i].co = "send",
                   !.str[i].wev = IF @ = "none" THEN "idle" ELSE @]
    ELSE [w EXCEPT !.str[i].co = "run",
                   !.str[i].phase = IF s.peerClosed THEN "end" ELSE @]

Streaming(i) == Plan[i].answer = "streamed" /\ str[i].tail < Len(Lens(i))

(* HttpResponse::send(): a dead stream throws into the handler.               *)
SendChunk(i) ==
    /\ str[i].co = "run"
    /\ str[i].phase = "answer"
    /\ Streaming(i)
    /\ NoFault
    /\ Becomes(IF ~str[i].onConn \/ str[i].peerClosed
               THEN [World EXCEPT !.str[i].phase = "end"]
               ELSE SendWait(AppendChunk(World, i), i))

(* The wait is over: drain through the connection captured before it.         *)
Resume(i) ==
    /\ str[i].co = "woken"
    /\ NoFault
    /\ Becomes(SendWait(IF live THEN DrainOut(World)
                        ELSE [World EXCEPT !.stale = @ \cup {i}], i))

(* write_timeout_s elapses; it outlasts everything but a dead connection      *)
(* unless the run spends a fault on it.                                       *)
WriteTimeout(i) ==
    /\ str[i].co = "send"
    /\ IF live THEN Fault ELSE NoFault
    /\ str' = [str EXCEPT ![i].co = "run", ![i].phase = "end"]
    /\ UNCHANGED <<live, pool, stale>>

(* The handler returns, or an exception ends it.                              *)
Finish(i) ==
    /\ str[i].co = "run"
    /\ str[i].phase = "end" \/ (str[i].phase = "answer" /\ ~Streaming(i))
    /\ NoFault
    /\ Becomes(Dispose(World, i))

------------------------------------------------------------------------------
(* Events of the transport, the file reads and the event loop.                *)

(* write_event fires: a parked sender is enqueued, a pump decides again.      *)
FireWriteEvent(i) ==
    /\ str[i].wev = "set"
    /\ NoFault
    /\ LET w == [World EXCEPT !.str[i].wev = "idle",
                              !.str[i].co = IF @ = "send" THEN "woken" ELSE @] IN
       Becomes(TryRead(w, i))

(* h3_acked_stream_data_cb: chunks whose last byte is acknowledged go; then   *)
(* acked_stream_data_offset_cb unblocks the stream and wakes its producer,    *)
(* and the tick's flush drains the connection.                                *)
AckedStreamData(w, i, n) ==
    LET s == w.str[i]
        acked == s.acked + n
        h == IF s.tail = 0 THEN s.head
             ELSE Max({s.head} \cup {k \in s.head..s.ridx : Bytes(i, k) <= acked})
        gone == Bytes(i, h) - Bytes(i, s.head)
        t == [s EXCEPT !.acked = acked, !.head = h]
    IN IF s.inflight > 0 /\ gone > 0
       THEN AccountDebit([w EXCEPT !.str[i] = [t EXCEPT !.inflight = @ - Min({gone, @})]], gone)
       ELSE [w EXCEPT !.str[i] = t]

UnblockStream(w, i) == [w EXCEPT !.str[i] = Trigger([@ EXCEPT !.blocked = FALSE])]

Ack(i) ==
    /\ str[i].user
    /\ NoFault
    /\ \E n \in 1..(str[i].written - str[i].acked) :
           Becomes(DrainOut(UnblockStream(AckedStreamData(World, i, n), i)))

(* extend_max_stream_data_cb: the peer has read and grants more.              *)
ExtendMaxStreamData(i) ==
    LET s == str[i]
        grant == StreamWindow - (s.written - s.acked) IN
    /\ s.user
    /\ s.wnd < grant
    /\ NoFault
    /\ Becomes(DrainOut(UnblockStream([World EXCEPT !.str[i].wnd = grant], i)))

(* h3_static_read_dispatch: the read ends with bytes, or fails.               *)
ReadDone(i) ==
    /\ str[i].reading
    /\ NoFault
    /\ LET w == [World EXCEPT !.str[i].reading = FALSE] IN
       Becomes(TryRead(AppendChunk(w, i), i))

ReadFails(i) ==
    /\ str[i].reading
    /\ Fault
    /\ Becomes(Fail([World EXCEPT !.str[i].reading = FALSE], i))

(* h3_stream_mark_peer_closed *)
MarkPeerClosed(s) ==
    LET t == [s EXCEPT !.peerClosed = TRUE] IN
    Trigger(IF t.mode = "stream" /\ ~t.fin THEN BodyError(t) ELSE t)

(* h3_static_stream_closed and h3_static_cancel.                              *)
RetirePump(w, i) == IF w.str[i].pump = "on" THEN Finalize(w, i) ELSE w

(* What the transport knew of a stream goes with it.                          *)
Forget(s) ==
    [s EXCEPT !.user = FALSE, !.head = 0, !.written = 0, !.acked = 0,
              !.wnd = StreamWindow, !.eofOut = FALSE, !.blocked = FALSE, !.dry = FALSE]

(* h3_stream_close_cb: the transport forgets the stream, the pump is retired, *)
(* the transport's reference goes.                                            *)
StreamClose(w, i) ==
    Release(RetirePump([w EXCEPT !.str[i] = MarkPeerClosed(Forget(@))], i), i)

(* Both directions have ended: fin or a reset, in each.                       *)
Over(s, i) ==
    /\ s.fin \/ s.rejected
    /\ s.wrShut \/ (s.eofOut /\ Unsent(s, i) = 0 /\ s.acked = s.written)

Close(i) ==
    /\ str[i].user
    /\ Over(str[i], i)
    /\ NoFault
    /\ Becomes(StreamClose(World, i))

(* The peer resets the stream in both directions.                             *)
PeerReset(i) ==
    /\ str[i].user
    /\ Fault
    /\ Becomes(StreamClose(World, i))

(* Mutant: the pump is not cancelled before the stream is cut off.            *)
FreeStreamKeepsPump(w, i) ==
    Release([w EXCEPT !.str[i] = [Forget(@) EXCEPT !.onConn = FALSE, !.pump = "done"]], i)

(* http3_connection_free: every stream still on the list is cancelled, cut    *)
(* off and released, newest first.                                            *)
FreeStream(w, i) ==
    LET v == RetirePump(w, i) IN
    Release([v EXCEPT !.str[i] = [Forget(@) EXCEPT !.onConn = FALSE]], i)

RECURSIVE FreeStreams(_, _)
FreeStreams(w, set) ==
    IF set = {} THEN w
    ELSE FreeStreams(FreeStream(w, Max(set)), set \ {Max(set)})

ConnectionFree ==
    /\ live
    /\ Fault
    /\ Becomes(FreeStreams([World EXCEPT !.live = FALSE],
                           {i \in Streams : str[i].user}))

Work(i) ==
    \/ Headers(i)
    \/ RecvData(i)
    \/ EndStream(i)
    \/ Enter(i)
    \/ ReadBody(i)
    \/ AwaitBody(i)
    \/ SendChunk(i)
    \/ Resume(i)
    \/ WriteTimeout(i)
    \/ Finish(i)
    \/ FireWriteEvent(i)
    \/ Ack(i)
    \/ ExtendMaxStreamData(i)
    \/ ReadDone(i)
    \/ Close(i)

Adverse(i) == ReadFails(i) \/ PeerReset(i)

Next == (\E i \in Streams : Work(i) \/ Adverse(i)) \/ ConnectionFree

(* Runnable(i) is the guard of Work(i).                                       *)
Runnable(i) ==
    LET s == str[i] IN
    \/ live /\ s.st = "none"
    \/ s.user /\ s.got < Max(Plan[i].body) /\ s.rx > 0 /\ (~s.fin \/ s.rejected)
    \/ s.user /\ s.got \in Plan[i].body /\ ~s.fin /\ ~s.rejected
    \/ s.co \in {"ready", "run", "woken"}
    \/ s.co = "send" /\ ~live
    \/ s.wev = "set"
    \/ s.reading
    \/ s.user /\ (s.acked < s.written \/ s.wnd < StreamWindow - (s.written - s.acked))
    \/ s.user /\ Over(s, i)

Spec == Init /\ [][Next]_vars

------------------------------------------------------------------------------
(* Properties.                                                                *)

(* A chunk is released only once the peer has acknowledged its last byte or   *)
(* the transport has let the stream go: until then a lost packet is sent      *)
(* again from that memory (h3_read_data_cb, h3_acked_stream_data_cb).         *)
HeldBytesAlive ==
    \A i \in Streams : str[i].user =>
        /\ str[i].st = "open"
        /\ Bytes(i, str[i].head) <= str[i].acked

(* A stream slot has one reference for the transport, one for a handler or a  *)
(* pump, and is freed with the last: never under a parked coroutine or a read *)
(* in flight, never left behind (http3_stream_release).                       *)
B(p) == IF p THEN 1 ELSE 0

RefsExact ==
    \A i \in Streams : LET s == str[i] IN
        /\ s.refs = B(s.user) + B(s.co \notin {"none", "gone"}) + B(s.pump = "on")
        /\ s.st = "freed" <=> s.st # "none" /\ s.refs = 0
        /\ s.reading => s.pump = "on"

(* The budget counts exactly the file bytes that are queued and not released, *)
(* whatever mixture of ACKs, resets and connection closes releases them, and  *)
(* a pump parked on it is always still to be woken: the flag is up and enough *)
(* bytes are in flight for a later debit to cross the 80% mark                *)
(* (h3_static_account_debit, h3_static_throttle_park).                        *)
BudgetWakes ==
    /\ pool.inflight = FoldFunctionOnSet(+, 0, [i \in Streams |-> str[i].inflight], Streams)
    /\ pool.parked # <<>> => pool.throttled /\ pool.inflight * 5 >= Budget * 4
    /\ \A i \in ToSet(pool.parked) : str[i].pump = "on" /\ ~str[i].reading

(* Every body byte the peer has sent is credited back once, no earlier than   *)
(* it leaves the buffer or the queue, across the upgrade of a buffered body   *)
(* to a stream (http_body_stream_pop, http3_request_body_consume).            *)
BodyCreditExact ==
    \A i \in Streams : LET s == str[i] IN
        s.onConn /\ live =>
            s.rx + s.unc + QueuedBytes(s) = RxWindow + s.pre

(* When neither the server nor a peer that keeps reading can take a step,     *)
(* every request has been answered to the end and its stream closed, no pump  *)
(* waits for budget or window, no handler waits in send(): no wake-up is lost *)
(* between ACKs, window updates, resets and the throttle.  Some waits for a   *)
(* body do outlive their stream: for a buffered body, or one upgraded only    *)
(* then, when the stream is reset; for any when the connection is freed.      *)
NothingStranded ==
    (\A i \in Streams : ~Runnable(i)) =>
        \A i \in Streams : LET s == str[i] IN
            /\ ~s.user
            /\ s.pump # "on"
            /\ \/ s.co \in {"none", "gone"}
               \/ s.co = "await" /\ s.refs = 1
               \/ s.co = "read" /\ s.refs = 1 /\ (live => Plan[i].mode = "upgrade")

(* Together: what a stream holds, counts and waits for comes out even.        *)
StreamsSound ==
    HeldBytesAlive /\ RefsExact /\ BudgetWakes /\ BodyCreditExact /\ NothingStranded
=============================================================================
