----------------------------- MODULE WsSession -----------------------------
(* One WebSocket over a plaintext HTTP/1 connection: the upgrade commit, the   *)
(* wslay session with its flusher role, keepalive and receive FIFO             *)
(* (ws_session.c), the PHP calls of the handler and of a spawned producer      *)
(* (php_websocket.c), the handler's dispose (ws_dispatch.c), and of the        *)
(* connection what they lean on: the batched writer, the reference count and   *)
(* the deferred destroy (http_connection.c).                                   *)
(* One coroutine runs at a time; a step ends where the code suspends.          *)
EXTENDS Naturals, SequencesExt, FiniteSets

CONSTANTS
    Producers,      \* coroutines the handler spawned, which may outlive it
    High,           \* stream_write_buffer_bytes, in frames
    RecvCap,        \* ws_recv_buffer cap, in messages
    PongTimeout,    \* a pong deadline is configured
    MaxMsgs,        \* bound: send() and trySend() calls
    MaxIn,          \* bound: frames the peer sends
    MaxPings        \* bound: PINGs, of the timer and of the handler

Handler == "h"
Coroutines == {Handler} \cup Producers
Data == "data"
Ready == [at |-> "run", op |-> "none", ok |-> TRUE]
InKinds == {"msg", "ping", "pong", "close", "bad", "badz"}

VARIABLES
    ses,        \* the ws_session_t
    conn,       \* the http_connection_t fields the session depends on
    io,         \* writes submitted to the socket, oldest first: who submitted each
    w,          \* the websocket_object of the handler
    co,         \* coroutine -> where it is suspended, and in which call
    sock,       \* [eof: the read side ended, broken: writes fail]
    rbuf,       \* bytes buffered before the commit
    n           \* counters behind the bounds

vars == <<ses, conn, io, w, co, sock, rbuf, n>>

Fresh == [live |-> FALSE, ctrl |-> <<>>, data |-> <<>>, wdone |-> FALSE, rdone |-> FALSE,
          buf |-> 0, flushing |-> FALSE, werr |-> FALSE, pclosed |-> FALSE, code |-> 0,
          recv |-> <<>>, bytes |-> 0, overflow |-> FALSE, pong |-> FALSE]

\* A suspended step works on [s, c, q, wake]: session, connection, io, events fired.
X == [s |-> ses, c |-> conn, q |-> io, wake |-> {}]

-----------------------------------------------------------------------------
(* wslay (external): control frames first; nothing after a CLOSE.              *)

CtlToSend(s) ==
    LET cl == SelectInSeq(s.ctrl, LAMBDA f : f = "CLOSE")
    IN  IF cl = 0 THEN s.ctrl ELSE SubSeq(s.ctrl, 1, cl)

\* wslay_event_send: serialise everything queued into send_buf (counted in frames).
EventSend(s) ==
    IF s.wdone \/ s.werr THEN s
    ELSE LET out == CtlToSend(s)
             closes == Len(out) > 0 /\ Last(out) = "CLOSE"
         IN  [s EXCEPT !.buf = @ + Len(out) + (IF closes THEN 0 ELSE Len(s.data)),
                       !.ctrl = <<>>, !.data = IF closes THEN @ ELSE <<>>,
                       !.wdone = closes]

CloseQueued(s) == s.wdone \/ \E i \in DOMAIN s.ctrl : s.ctrl[i] = "CLOSE"
QueueCtl(s, k) == IF CloseQueued(s) THEN s ELSE [s EXCEPT !.ctrl = Append(@, k)]
WantWrite(s) == ~s.wdone /\ (s.ctrl # <<>> \/ s.data # <<>>)

-----------------------------------------------------------------------------
(* The connection's batched writer and its destroy.                            *)

OverHighwaterOut(c) == c.outq >= High
SignalDrain(c) == IF c.outq <= High \div 2 THEN {"drain"} ELSE {}

\* http_connection_send_batched: one write in flight, the rest coalesces behind it.
SendBatched(x, frames) ==
    IF x.c.outFlight THEN [x EXCEPT !.c.outq = @ + frames]
    ELSE [x EXCEPT !.c.outFlight = TRUE, !.q = Append(@, "batch")]

\* http_connection_destroy: deferred while a handler, a pin or a write is in the way.
Destroy(x) ==
    IF x.c.dead THEN x
    ELSE IF x.c.refs > 0 \/ x.c.outFlight
    THEN [x EXCEPT !.c.micro = FALSE, !.c.pending = TRUE]
    ELSE [x EXCEPT !.c.micro = FALSE, !.c.dead = TRUE, !.c.pending = FALSE,
                   !.s = [Fresh EXCEPT !.live = FALSE]]

DestroyIfIdleDeferred(x) ==
    IF x.c.refs = 0 /\ x.c.pending /\ ~x.c.micro THEN [x EXCEPT !.c.micro = TRUE] ELSE x

-----------------------------------------------------------------------------
(* The session.                                                                *)

OverHighwater(x) == Len(x.s.data) >= High \/ OverHighwaterOut(x.c)
Sendable(x) == ~OverHighwaterOut(x.c)

\* ws_session_flush_output on the non-suspending sink.
FlushInternal(x) ==
    IF x.s.buf = 0 \/ x.s.werr THEN [x EXCEPT !.s.buf = 0]
    ELSE [SendBatched(x, x.s.buf) EXCEPT !.s.buf = 0]

DriveInternal(x) == FlushInternal([x EXCEPT !.s = EventSend(@)])

\* Event-loop code drives the queue unless a coroutine holds the flusher role.
DriveIfFree(x) == IF x.s.flushing THEN x ELSE DriveInternal(x)

\* Mutant: closing does not wake the coroutine parked in recv().
MarkPeerClosedSilent(x) == [x EXCEPT !.s.pclosed = TRUE]

MarkPeerClosed(x) ==
    IF x.s.pclosed THEN x ELSE [x EXCEPT !.s.pclosed = TRUE, !.wake = @ \cup {"recv"}]

\* One deadline per outstanding PING; the matching PONG disarms it.
ArmPong(s) == [s EXCEPT !.pong = @ \/ PongTimeout]
DisarmPong(s) == [s EXCEPT !.pong = FALSE]

\* on_msg_recv for the frame kinds the peer can send (wslay answers PING and CLOSE).
OnMsgRecv(x, k) ==
    CASE k = "ping" -> [x EXCEPT !.s = QueueCtl(@, "PONG")]
      [] k = "pong" -> [x EXCEPT !.s = DisarmPong(@)]
      [] k = "close" -> MarkPeerClosed([x EXCEPT !.s.code = 1000, !.s.rdone = TRUE,
                                                 !.s.ctrl = QueueCtl(x.s, "CLOSE").ctrl])
      [] k = "bad" -> [x EXCEPT !.s = [QueueCtl(@, "CLOSE") EXCEPT !.rdone = TRUE]]
      [] k = "badz" -> MarkPeerClosed([x EXCEPT !.s = [QueueCtl(@, "CLOSE") EXCEPT
                                                         !.code = 1009, !.rdone = TRUE]])
      [] k = "msg" /\ x.s.bytes + 1 > RecvCap ->
            MarkPeerClosed([x EXCEPT !.s = [QueueCtl(@, "CLOSE") EXCEPT !.overflow = TRUE,
                                              !.code = IF @ = 0 THEN 1013 ELSE @]])
      [] OTHER -> [x EXCEPT !.s.recv = Append(@, n.in), !.s.bytes = @ + 1,
                            !.wake = @ \cup {"recv"}]

\* ws_session_feed; [x, bad]: bad asks the read path to destroy the connection.
FeedReplies(a) == IF WantWrite(a.s) THEN DriveIfFree(a) ELSE a
FeedVerdict(b) ==
    IF ~b.s.pclosed /\ b.s.rdone
    THEN [x |-> MarkPeerClosed([b EXCEPT !.s.code = IF @ = 0 THEN 1002 ELSE @]), bad |-> TRUE]
    ELSE [x |-> b, bad |-> b.s.overflow \/ b.s.code = 1009]
Feed(x, k) == FeedVerdict(FeedReplies(IF x.s.rdone THEN x ELSE OnMsgRecv(x, k)))

RECURSIVE FeedAll(_, _)
FeedAll(x, ks) == IF ks = <<>> THEN x ELSE FeedAll(Feed(x, Head(ks)).x, Tail(ks))

\* ws_session_queue_and_flush with the internal sink (trySend, publish).
QueueAndFlushInternal(x, m) ==
    LET q == [x EXCEPT !.s.data = Append(@, m)]
        pinned == [q EXCEPT !.c.refs = @ + 1]
        driven == DriveInternal(pinned)
        released == [driven EXCEPT !.c.refs = @ - 1, !.wake = @ \cup {"drain"}]
    IN  IF x.s.flushing THEN q ELSE DestroyIfIdleDeferred(released)

\* The producer path up to its suspension in transport->send: [x, sent].
StartFlush(x, c) ==
    LET e == [x EXCEPT !.s = [EventSend(@) EXCEPT !.flushing = TRUE]]
    IN  IF e.s.buf = 0 \/ e.s.werr
        THEN [x |-> [e EXCEPT !.s.buf = 0], parked |-> FALSE]
        ELSE [x |-> [e EXCEPT !.q = Append(@, c)], parked |-> TRUE]

\* What follows drive_send in queue_and_flush.
EndPinnedFlush(x) ==
    DestroyIfIdleDeferred([x EXCEPT !.s.flushing = FALSE, !.c.refs = @ - 1,
                                    !.wake = @ \cup {"drain"}])

-----------------------------------------------------------------------------
Init ==
    /\ ses = Fresh
    /\ \E busy \in BOOLEAN :     \* the previous pipelined response may still be in flight
          /\ conn = [refs |-> 1, pending |-> FALSE, micro |-> FALSE, dead |-> FALSE,
                     outFlight |-> busy, outq |-> 0]
          /\ io = IF busy THEN <<"batch">> ELSE <<>>
    /\ w = [committed |-> FALSE, closed |-> FALSE, session |-> FALSE, reject |-> FALSE]
    /\ co = [c \in Coroutines |-> Ready]
    /\ sock = [eof |-> FALSE, broken |-> FALSE] /\ rbuf = <<>>
    /\ n = [msgs |-> 0, in |-> 0, pings |-> 0]

\* Apply the result of a synchronous stretch and wake who waits on a fired event.
Apply(x, moved) ==
    /\ ses' = x.s /\ conn' = x.c /\ io' = x.q
    /\ co' = [c \in Coroutines |->
                IF "recv" \in x.wake /\ moved[c].at = "recv"
                THEN [moved[c] EXCEPT !.at = "recvwake"]
                ELSE IF "drain" \in x.wake /\ moved[c].at = "drain"
                THEN [moved[c] EXCEPT !.at = "drainwake"]
                ELSE moved[c]]

Running(c) == co[c].at = "run"
Open == w.session /\ ~w.closed

\* The strategy swap: a fresh session, then what the peer pipelined behind the GET.
InstallSession(x) == FeedAll([x EXCEPT !.s = [Fresh EXCEPT !.live = TRUE]], rbuf)

\* ws_commit_upgrade(w, TRUE): the 101 through the batched writer, then the session.
Commit(c) ==
    /\ Running(c) /\ ~w.committed /\ ~w.closed /\ ~w.reject /\ ~conn.dead
    /\ IF sock.broken /\ ~conn.outFlight
       THEN w' = [w EXCEPT !.closed = TRUE] /\ UNCHANGED <<ses, conn, io, co, rbuf>>
       ELSE /\ w' = [w EXCEPT !.committed = TRUE, !.session = TRUE]
            /\ Apply(InstallSession(SendBatched(X, 1)), co)
            /\ rbuf' = <<>>
    /\ UNCHANGED <<sock, n>>

\* WebSocketUpgrade::reject before any I/O.
Reject ==
    /\ Running(Handler) /\ ~w.committed /\ ~w.reject
    /\ w' = [w EXCEPT !.reject = TRUE]
    /\ UNCHANGED <<ses, conn, io, co, sock, rbuf, n>>

\* Mutant: the flush no longer pins the connection.
QueueAndFlushUnpinned(c) ==
    LET q == [X EXCEPT !.s.data = Append(@, Data)]
        f == StartFlush(q, c)
    IN  IF ses.flushing THEN Apply(q, [co EXCEPT ![c] = Ready])
        ELSE IF f.parked
        THEN Apply(f.x, [co EXCEPT ![c] = [at |-> "flush", op |-> "ping", ok |-> TRUE]])
        ELSE Apply([f.x EXCEPT !.s.flushing = FALSE], [co EXCEPT ![c] = Ready])

\* WebSocket::send once past the backpressure gate.
QueueAndFlush(c) ==
    LET q == [X EXCEPT !.s.data = Append(@, Data)]
        pinned == [q EXCEPT !.c.refs = @ + 1]
        f == StartFlush(pinned, c)
    IN  IF ses.flushing THEN Apply(q, [co EXCEPT ![c] = Ready])
        ELSE IF f.parked
        THEN Apply(f.x, [co EXCEPT ![c] = [at |-> "flush", op |-> "send", ok |-> TRUE]])
        ELSE Apply(EndPinnedFlush(f.x), [co EXCEPT ![c] = Ready])

Send(c) ==
    /\ Running(c) /\ w.committed /\ Open /\ n.msgs < MaxMsgs
    /\ n' = [n EXCEPT !.msgs = @ + 1]
    /\ IF OverHighwater(X)
       THEN /\ co' = [co EXCEPT ![c] = [at |-> "drain", op |-> "send", ok |-> TRUE]]
            /\ UNCHANGED <<ses, conn, io>>
       ELSE ~CloseQueued(ses) /\ QueueAndFlush(c)
    /\ UNCHANGED <<w, sock, rbuf>>

\* The waker's timeout: the coroutine resumes as if the event had fired.
DrainTimeout(c) ==
    /\ co[c].at = "drain"
    /\ co' = [co EXCEPT ![c].at = "drainwake"]
    /\ UNCHANGED <<ses, conn, io, w, sock, rbuf, n>>

\* After ws_session_wait_writable: closed, still over the mark (reported as a
\* timeout), or through. A session destroyed meanwhile ends the call.
DrainResume(c) ==
    /\ co[c].at = "drainwake"
    /\ IF ses.live /\ ~ses.werr /\ ~ses.pclosed /\ Open /\ ~OverHighwater(X)
          /\ ~CloseQueued(ses)
       THEN QueueAndFlush(c)
       ELSE co' = [co EXCEPT ![c] = Ready] /\ UNCHANGED <<ses, conn, io>>
    /\ UNCHANGED <<w, sock, rbuf, n>>

\* trySend, or a publish delivering to this session (ws_session_try_send).
TrySend ==
    /\ ses.live /\ ~ses.werr /\ ~ses.pclosed /\ Sendable(X) /\ ~OverHighwater(X)
    /\ ~CloseQueued(ses) /\ n.msgs < MaxMsgs
    /\ n' = [n EXCEPT !.msgs = @ + 1]
    /\ Apply(QueueAndFlushInternal(X, Data), co)
    /\ UNCHANGED <<w, sock, rbuf>>

\* WebSocket::ping() and ::close() drive without a pin: the handler's own
\* reference covers the handler, the only caller modelled.
DriveUnpinned(s, op) ==
    LET f == StartFlush([X EXCEPT !.s = s], Handler)
    IN  IF ses.flushing THEN Apply([X EXCEPT !.s = s], co)
        ELSE IF f.parked
        THEN Apply(f.x, [co EXCEPT ![Handler] = [at |-> "flush", op |-> op, ok |-> TRUE]])
        ELSE Apply([f.x EXCEPT !.s.flushing = FALSE], co)

Ping ==
    /\ Running(Handler) /\ w.committed /\ Open /\ n.pings < MaxPings /\ ~CloseQueued(ses)
    /\ n' = [n EXCEPT !.pings = @ + 1]
    /\ DriveUnpinned(QueueCtl(ses, "PING"), "ping")
    /\ UNCHANGED <<w, sock, rbuf>>

Close ==
    /\ Running(Handler) /\ w.committed /\ Open
    /\ IF CloseQueued(ses) THEN UNCHANGED <<ses, conn, io, co>>
       ELSE DriveUnpinned(QueueCtl(ses, "CLOSE"), "close")
    /\ w' = [w EXCEPT !.closed = TRUE]
    /\ UNCHANGED <<sock, rbuf, n>>

\* A suspended flush resumes with the outcome of its write.
FlushResume(c) ==
    /\ co[c].at = "woken"
    /\ LET after == [X EXCEPT !.s.buf = 0, !.s.werr = @ \/ ~co[c].ok]
           moved == [co EXCEPT ![c] = Ready]
       IN  IF co[c].op = "send" THEN Apply(EndPinnedFlush(after), moved)
           ELSE Apply([after EXCEPT !.s.flushing = FALSE], moved)
    /\ UNCHANGED <<w, sock, rbuf, n>>

\* WebSocket::recv: a message, the end, or park on recv_event.
Recv ==
    /\ Running(Handler) /\ w.committed /\ Open
    /\ IF ses.recv # <<>>
       THEN /\ ses' = [ses EXCEPT !.recv = Tail(@), !.bytes = @ - 1]
            /\ UNCHANGED co
       ELSE /\ ~ses.pclosed
            /\ co' = [co EXCEPT ![Handler] = [at |-> "recv", op |-> "recv", ok |-> TRUE]]
            /\ UNCHANGED ses
    /\ UNCHANGED <<conn, io, w, sock, rbuf, n>>

RecvResume ==
    /\ co[Handler].at = "recvwake"
    /\ co' = [co EXCEPT ![Handler] = Ready]
    /\ ses' = IF ses.recv # <<>> THEN [ses EXCEPT !.recv = Tail(@), !.bytes = @ - 1] ELSE ses
    /\ UNCHANGED <<conn, io, w, sock, rbuf, n>>

-----------------------------------------------------------------------------
(* The event loop.                                                             *)

\* Keepalive: a PING, and one deadline per outstanding PING.
PingTimer ==
    /\ ses.live /\ n.pings < MaxPings /\ ~ses.pclosed /\ ~ses.werr /\ ~CloseQueued(ses)
    /\ n' = [n EXCEPT !.pings = @ + 1]
    /\ LET d == DriveIfFree([X EXCEPT !.s = QueueCtl(@, "PING")])
       IN  Apply([d EXCEPT !.s = ArmPong(@)], co)
    /\ UNCHANGED <<w, sock, rbuf>>

\* The deadline; with a write error already latched it does nothing.
PongTimer ==
    /\ ses.live /\ ses.pong /\ ~ses.pclosed /\ ~ses.werr
    /\ Apply(MarkPeerClosed(DriveIfFree([X EXCEPT !.s = [QueueCtl(@, "CLOSE") EXCEPT
                                                           !.pong = FALSE]])), co)
    /\ UNCHANGED <<w, sock, rbuf, n>>

\* A frame arrives: buffered before the commit, fed to the session after it.
ReadDone(f) == IF f.bad THEN Destroy(f.x) ELSE f.x
Read(k) ==
    /\ ~sock.eof /\ ~sock.broken /\ ~conn.dead /\ n.in < MaxIn /\ (ses.live \/ ~w.committed)
    /\ n' = [n EXCEPT !.in = @ + 1]
    /\ IF ses.live
       THEN /\ Apply(ReadDone(Feed(X, k)), co)
            /\ UNCHANGED rbuf
       ELSE rbuf' = Append(rbuf, k) /\ UNCHANGED <<ses, conn, io, co>>
    /\ UNCHANGED <<w, sock>>

\* EOF or a read error. Before the commit it only drops keep-alive.
ReadEof ==
    /\ ~sock.eof /\ ~conn.dead
    /\ sock' = [sock EXCEPT !.eof = TRUE]
    /\ IF ses.live
       THEN Apply(LET m == MarkPeerClosed(X)
                  IN  IF conn.refs > 0 THEN m ELSE Destroy(m), co)
       ELSE UNCHANGED <<ses, conn, io, co>>
    /\ UNCHANGED <<w, rbuf, n>>

\* The peer resets: from now on writes fail.
SockBreak ==
    /\ ~sock.broken /\ ~conn.dead
    /\ sock' = [sock EXCEPT !.broken = TRUE]
    /\ UNCHANGED <<ses, conn, io, w, co, rbuf, n>>

\* The oldest submitted write completes. A batched one chains the coalesced tail
\* or clears the in-flight flag and runs a deferred destroy.
BatchedDone(x) ==
    IF x.c.outq > 0
    THEN [x EXCEPT !.q = Append(@, "batch"),
                   !.c.outq = 0, !.wake = @ \cup SignalDrain([x.c EXCEPT !.outq = 0])]
    ELSE LET f == [x EXCEPT !.c.outFlight = FALSE]
         IN  IF f.c.pending /\ f.c.refs = 0 THEN Destroy([f EXCEPT !.c.pending = FALSE])
             ELSE [f EXCEPT !.wake = @ \cup SignalDrain(f.c)]

IoComplete ==
    /\ io # <<>>
    /\ LET h == Head(io)
           x == [X EXCEPT !.q = Tail(@)]
           ok == ~sock.broken
       IN  IF h = "batch" THEN Apply(BatchedDone(x), co)
           ELSE IF h = "reject" THEN Apply(x, co)   \* keep_alive is off already
           ELSE Apply(x, [co EXCEPT ![h].at = "woken", ![h].ok = ok])
    /\ UNCHANGED <<w, sock, rbuf, n>>

\* The destroy microtask.
DestroyMicrotask ==
    /\ conn.micro
    /\ LET x == [X EXCEPT !.c.micro = FALSE]
       IN  Apply(IF conn.refs = 0 /\ conn.pending
                 THEN Destroy([x EXCEPT !.c.pending = FALSE]) ELSE x, co)
    /\ UNCHANGED <<w, sock, rbuf, n>>

\* The handler returns or throws; ws_handler_coroutine_dispose.
\* Uncommitted: a reject or a failure answers 4xx, otherwise a bare 101. Committed and failed:
\* CLOSE 1011 if nobody is flushing. Then the reference goes, and the connection
\* with it unless a pin is left.
HandlerExit(failed) ==
    /\ Running(Handler)
    /\ LET rejects == ~w.committed /\ (w.reject \/ failed)
           bare == ~w.committed /\ ~rejects /\ ~(sock.broken /\ ~conn.outFlight)
           a == CASE rejects -> [X EXCEPT !.q = Append(@, "reject")]
                  [] bare -> SendBatched(X, 1)
                  [] w.committed /\ failed /\ ~w.closed /\ ses.live /\ ~ses.pclosed
                     /\ ~ses.werr /\ ~ses.flushing ->
                        DriveInternal([X EXCEPT !.s = QueueCtl(@, "CLOSE")])
                  [] OTHER -> X
           b == [a EXCEPT !.c.refs = @ - 1]
           committed == w.committed \/ bare
           done == [co EXCEPT ![Handler] = [Ready EXCEPT !.at = "done"]]
       IN  /\ w' = [w EXCEPT !.closed = TRUE, !.session = FALSE, !.committed = committed]
           /\ Apply(IF ~committed THEN b
                    ELSE IF b.c.refs = 0 THEN Destroy(b)
                    ELSE [b EXCEPT !.c.pending = TRUE], done)
    /\ UNCHANGED <<sock, rbuf, n>>

Next ==
    \/ \E c \in Coroutines : Commit(c) \/ Send(c) \/ DrainTimeout(c) \/ DrainResume(c)
                             \/ FlushResume(c)
    \/ Reject \/ TrySend \/ Ping \/ Close \/ Recv \/ RecvResume
    \/ PingTimer \/ PongTimer \/ ReadEof \/ SockBreak \/ IoComplete \/ DestroyMicrotask
    \/ \E k \in InKinds : Read(k)
    \/ \E f \in BOOLEAN : HandlerExit(f)

(* What the runtime does by itself: the scheduler resumes woken coroutines,    *)
(* the loop completes writes, runs microtasks and fires timers. It never idles *)
(* while one of these is due; calls of PHP code and the peer are not fair.     *)
RuntimeStep ==
    \/ IoComplete \/ DestroyMicrotask \/ RecvResume \/ PongTimer
    \/ \E c \in Coroutines : FlushResume(c) \/ DrainTimeout(c) \/ DrainResume(c)

Spec == Init /\ [][Next]_vars /\ WF_vars(RuntimeStep)

-----------------------------------------------------------------------------
Flushing(c) == co[c].at \in {"flush", "woken"}

(* A coroutine suspended inside transport->send always finds its session and   *)
(* its flusher role when it resumes, however the handler, the read side and    *)
(* the deferred destroy interleave (the pin in ws_session_queue_and_flush).    *)
FlusherKeepsSession ==
    \A c \in Coroutines : Flushing(c) =>
        /\ ses.live /\ ~conn.dead /\ ses.flushing
        /\ \A d \in Coroutines \ {c} : ~Flushing(d)

(* The receive FIFO never exceeds its cap, its byte count is exact, and it     *)
(* holds the peer's messages in the order they arrived, even when frames       *)
(* buffered before the upgrade are fed by the commit (on_msg_recv, recv_pop).  *)
RecvWithinCap ==
    /\ ses.bytes = Len(ses.recv) /\ ses.bytes <= RecvCap
    /\ \A i, j \in DOMAIN ses.recv : i < j => ses.recv[i] <= ses.recv[j]

(* The session is only destroyed with its connection, and a destroyed          *)
(* connection has no handler, no pin and no write of the batched writer left   *)
(* (the gates of http_connection_destroy).                                     *)
DestroyIsQuiet ==
    conn.dead => ~ses.live /\ conn.refs = 0 /\ ~conn.outFlight /\ io = <<>>

(* Together: neither a suspended coroutine nor a queue is left to a session    *)
(* that is gone, and none outgrows its bound.                                  *)
SessionSound == FlusherKeepsSession /\ RecvWithinCap /\ DestroyIsQuiet

(* A reader parked in recv() is released once the session is marked closed,    *)
(* by the peer, by EOF, by a protocol error, by the FIFO cap or by the pong    *)
(* deadline (ws_session_mark_peer_closed wakes recv_event).                    *)
CloseEndsRecv == []<>(co[Handler].at = "recv" => ses.live /\ ~ses.pclosed)

(* A missed PONG is noticed: an outstanding keepalive PING ends in a PONG, a   *)
(* closed session, or a write error that the read side reports.                *)
KeepaliveEnds == []<>(ses.pong => ses.pclosed \/ ses.werr)

(* Once the handler of a committed WebSocket is gone, its connection is torn   *)
(* down, also when a producer's flush or a batched write deferred the destroy. *)
TornDown == []<>(co[Handler].at = "done" /\ w.committed => conn.dead)

(* Together: what waits on a closing session is released, and it ends.         *)
SessionEnds == CloseEndsRecv /\ KeepaliveEnds /\ TornDown
=============================================================================
