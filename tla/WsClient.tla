----------------------------- MODULE WsClient -----------------------------
(***************************************************************************)
(* A client connection after its handshake, used by one reading and one    *)
(* writing coroutine: WebSocket::recv()/send()/close() over                *)
(* ws_client_connection_t (variant "ext", src/websocket) and receive()/    *)
(* send()/close() of the standalone extension (variant "alone",            *)
(* src/wsclient).                                                          *)
(*                                                                         *)
(* The stream is a PHP stream: reads and writes park the calling coroutine *)
(* only.  A frame reaches the stream in two pieces, so that a write can be *)
(* interrupted inside a frame.                                             *)
(***************************************************************************)
EXTENDS Integers, Sequences, SequencesExt

CONSTANTS
  Variants,   \* subset of {"ext", "alone"}
  MaxSend,    \* messages the writer sends
  MaxPeer,    \* frames the peer sends
  MaxChunk,   \* frames one read returns
  PeerFrames  \* subset of {"msg", "ping", "close", "bad"}

VARIABLES
  s,     \* the connection and its session
  rd,    \* the reading coroutine
  wr,    \* the writing coroutine
  wire,  \* pieces on the stream towards the peer
  net,   \* frames on the stream towards us
  peer   \* the peer: everything it sent, its end, its reset

vars == <<s, rd, wr, wire, net, peer>>

Piece(f, h) == [k |-> f.k, n |-> f.n, h |-> h]
Pieces(fs) == [i \in 1..(2 * Len(fs)) |-> Piece(fs[(i + 1) \div 2], IF i % 2 = 1 THEN 1 ELSE 2)]
MsgOut(i) == [k |-> "msg", n |-> i]
Pong(i) == [k |-> "pong", n |-> i]
Close == [k |-> "close", n |-> 0]

\* ws_session_init_client and websocket_object_create_client
SessionInit(v) ==
  [v |-> v, wclosed |-> FALSE, closed |-> FALSE, peerClosed |-> FALSE, writeError |-> FALSE,
   flushing |-> FALSE, q |-> <<>>, closeQueued |-> FALSE, rq |-> <<>>, wantRead |-> TRUE, sendBuf |-> <<>>]
\* wsclient_session_create and the connection object around it
AloneSessionInit(v) == SessionInit(v)

Init ==
  /\ \E v \in Variants : s = IF v = "ext" THEN SessionInit(v) ELSE AloneSessionInit(v)
  /\ rd = [pc |-> "idle", left |-> <<>>, got |-> <<>>]
  /\ wr = [pc |-> "idle", left |-> <<>>, sent |-> 0]
  /\ wire = <<>> /\ net = <<>>
  /\ peer = [sent |-> <<>>, eof |-> FALSE, broken |-> FALSE]

---------------------------------------------------------------------------
(* wslay, as the two sessions use it *)

\* wslay_event_queue_msg / _queue_close: control frames overtake messages,
\* nothing is accepted behind a CLOSE.
Queue(ss, f) ==
  IF ss.closeQueued THEN ss
  ELSE [ss EXCEPT !.q = IF f.k = "msg" THEN Append(@, f)
                        ELSE SelectSeq(@, LAMBDA g : g.k # "msg") \o <<f>> \o SelectSeq(@, LAMBDA g : g.k = "msg"),
                  !.closeQueued = (f.k = "close")]

\* ws_session_mark_peer_closed
MarkPeerClosed(ss) == [ss EXCEPT !.peerClosed = TRUE]

\* ws_session_on_msg_recv_callback on a client: data to the FIFO, CLOSE ends.
OnMsgRecv(ss, f) ==
  CASE f.k = "msg" -> [ss EXCEPT !.rq = Append(@, f)]
    [] f.k = "close" -> MarkPeerClosed(ss)
    [] OTHER -> ss

\* wsclient_on_message: every message, control frames too
AloneOnMessage(ss, f) == [ss EXCEPT !.rq = Append(@, f)]

\* One frame through wslay_event_recv: a PING queues its PONG, a CLOSE or a
\* protocol error queues a CLOSE and ends reading.
RecvFrame(ss, f) ==
  IF ~ss.wantRead THEN ss
  ELSE LET cb == IF f.k = "bad" THEN ss
                 ELSE IF ss.v = "ext" THEN OnMsgRecv(ss, f) ELSE AloneOnMessage(ss, f)
           re == IF f.k = "ping" THEN Queue(cb, Pong(f.n))
                 ELSE IF f.k \in {"close", "bad"} THEN Queue(cb, Close) ELSE cb
       IN [re EXCEPT !.wantRead = (f.k \notin {"close", "bad"})]

EventRecv(ss, fs) ==
  LET run[i \in 0..Len(fs)] == IF i = 0 THEN ss ELSE RecvFrame(run[i - 1], fs[i])
  IN run[Len(fs)]

---------------------------------------------------------------------------
(* Output *)

\* wslay_event_send stops behind a CLOSE.
Sendable(q) ==
  LET c == {i \in DOMAIN q : q[i].k = "close"}
  IN IF c = {} THEN q ELSE SubSeq(q, 1, CHOOSE i \in c : TRUE)

\* ws_session_drive_send up to its transport write: the queue is serialised
\* into send_buf (nothing, once write_error is set).
Drive(ss) ==
  IF ss.writeError THEN ss
  ELSE [ss EXCEPT !.flushing = TRUE, !.sendBuf = @ \o Pieces(Sendable(ss.q)), !.q = <<>>]

\* ws_client_transport_send refuses at once on a closed connection.
DriveFails(ss) == ss.writeError \/ ss.closed
FailDrive(ss) == [ss EXCEPT !.writeError = TRUE, !.q = <<>>, !.sendBuf = <<>>, !.flushing = FALSE]

\* One php_stream_write of ws_client_transport_send by the flusher; left is
\* its slice of send_buf.
PieceWritten(ss, left) ==
  IF Len(left) > 1 THEN ss
  ELSE [ss EXCEPT !.sendBuf = <<>>, !.flushing = FALSE]
WriteFailed(ss) == [ss EXCEPT !.closed = TRUE, !.writeError = TRUE, !.sendBuf = <<>>, !.flushing = FALSE]

---------------------------------------------------------------------------
(* The writer *)

\* What send() leaves behind: w->closed is set by close() only.
SendDone(w) == [w EXCEPT !.pc = "idle", !.left = <<>>]
Ended(w) == [w EXCEPT !.pc = "ended", !.left = <<>>]

\* ws_do_send and ws_session_queue_and_flush on a client (no server, hence no
\* high-water mark, and no connection to pin).
Send ==
  /\ s.v = "ext" /\ wr.pc = "idle" /\ wr.sent < MaxSend
  /\ LET f == MsgOut(wr.sent + 1)
         w == [wr EXCEPT !.sent = @ + 1]
         ss == Queue(s, f)
     IN IF s.wclosed \/ s.closeQueued THEN wr' = Ended(wr) /\ UNCHANGED s      \* thrown
        ELSE IF s.flushing THEN wr' = w /\ s' = ss
        ELSE IF DriveFails(ss) THEN wr' = Ended(w) /\ s' = FailDrive(ss)
        ELSE s' = Drive(ss) /\ wr' = [w EXCEPT !.pc = "sending", !.left = s'.sendBuf]
  /\ UNCHANGED <<rd, wire, net, peer>>

\* WebSocket::close()
CloseCall ==
  /\ s.v = "ext" /\ wr.pc = "idle"
  /\ LET ss == Queue(s, Close)
     IN IF s.wclosed \/ s.closeQueued \/ s.flushing THEN
          s' = [ss EXCEPT !.wclosed = TRUE] /\ wr' = Ended(wr)
        ELSE IF DriveFails(ss) THEN s' = [FailDrive(ss) EXCEPT !.wclosed = TRUE] /\ wr' = Ended(wr)
        ELSE s' = Drive(ss) /\ wr' = [wr EXCEPT !.pc = "closing", !.left = s'.sendBuf]
  /\ UNCHANGED <<rd, wire, net, peer>>

\* The writer's transport write.
WriterPiece ==
  /\ s.v = "ext" /\ wr.pc \in {"sending", "closing"}
  /\ LET last == Len(wr.left) = 1
         closing(ss) == [ss EXCEPT !.wclosed = @ \/ wr.pc = "closing"]
     IN \/ /\ ~peer.broken
           /\ wire' = Append(wire, Head(wr.left))
           /\ s' = IF last THEN closing(PieceWritten(s, wr.left)) ELSE s
           /\ wr' = IF ~last THEN [wr EXCEPT !.left = Tail(@)]
                    ELSE IF wr.pc = "closing" THEN Ended(wr) ELSE SendDone(wr)
        \/ /\ peer.broken
           /\ s' = closing(WriteFailed(s))
           /\ wr' = IF wr.pc = "closing" THEN Ended(wr) ELSE SendDone(wr)   \* this send() returned OK
           /\ UNCHANGED wire
  /\ UNCHANGED <<rd, net, peer>>

\* wsclient_session_send: queue, then wslay_event_send writes frame by frame,
\* straight to the stream.
AloneSend ==
  /\ s.v = "alone" /\ wr.pc = "idle" /\ wr.sent < MaxSend
  /\ IF s.closed \/ s.closeQueued
     THEN s' = [s EXCEPT !.closed = TRUE] /\ wr' = Ended(wr)                    \* thrown
     ELSE LET ss == Queue(s, MsgOut(wr.sent + 1))
          IN /\ s' = [ss EXCEPT !.q = Tail(@)]
             /\ wr' = [wr EXCEPT !.sent = @ + 1, !.pc = "sending", !.left = Pieces(<<Head(ss.q)>>)]
  /\ UNCHANGED <<rd, wire, net, peer>>

\* wsclient_send_callback, and the next frame of the queue after the last
\* piece of one; a CLOSE is the last frame.
AlonePiece ==
  /\ s.v = "alone" /\ wr.pc \in {"sending", "closing"}
  /\ LET last == Len(wr.left) = 1
         more == last /\ s.q # <<>> /\ wr.left[1].k # "close"
     IN \/ /\ ~peer.broken
           /\ wire' = Append(wire, Head(wr.left))
           /\ s' = IF more THEN [s EXCEPT !.q = Tail(@)]
                   ELSE IF last THEN [s EXCEPT !.closed = @ \/ wr.pc = "closing"] ELSE s
           /\ wr' = IF more THEN [wr EXCEPT !.left = Pieces(<<Head(s.q)>>)]
                    ELSE IF ~last THEN [wr EXCEPT !.left = Tail(@)]
                    ELSE IF wr.pc = "closing" THEN Ended(wr) ELSE SendDone(wr)
        \/ /\ peer.broken
           /\ s' = [s EXCEPT !.closed = TRUE] /\ wr' = Ended(wr) /\ UNCHANGED wire
  /\ UNCHANGED <<rd, net, peer>>

\* close() of the standalone client; it frees the stream, so the caller's
\* reader must not be inside receive().
AloneClose ==
  /\ s.v = "alone" /\ wr.pc = "idle" /\ rd.pc # "reading"
  /\ IF s.closed \/ s.closeQueued
     THEN s' = [s EXCEPT !.closed = TRUE] /\ wr' = Ended(wr)
     ELSE LET ss == Queue(s, Close)
          IN /\ s' = [ss EXCEPT !.q = Tail(@)]
             /\ wr' = [wr EXCEPT !.pc = "closing", !.left = Pieces(<<Head(ss.q)>>)]
  /\ UNCHANGED <<rd, wire, net, peer>>

---------------------------------------------------------------------------
(* The reader *)

\* Mutant: the end is looked at before the FIFO.
RecvLoopEndFirst(ss, r) ==
  IF ss.peerClosed THEN <<ss, [r EXCEPT !.pc = "ended"]>>
  ELSE IF ss.rq # <<>> THEN <<[ss EXCEPT !.rq = Tail(@)], [r EXCEPT !.pc = "idle", !.got = Append(@, Head(ss.rq))]>>
  ELSE IF ss.closed THEN <<ss, [r EXCEPT !.pc = "spin"]>>
  ELSE <<ss, [r EXCEPT !.pc = "reading"]>>

\* ws_do_recv's loop from one suspension to the next: a queued message, the
\* end, or another read.  ws_client_connection_recv refuses to read on a
\* closed connection, and the loop has no other way out.
RecvLoop(ss, r) ==
  IF ss.rq # <<>> THEN <<[ss EXCEPT !.rq = Tail(@)], [r EXCEPT !.pc = "idle", !.got = Append(@, Head(ss.rq))]>>
  ELSE IF ss.peerClosed THEN <<ss, [r EXCEPT !.pc = "ended"]>>
  ELSE IF ss.closed THEN <<ss, [r EXCEPT !.pc = "spin"]>>
  ELSE <<ss, [r EXCEPT !.pc = "reading"]>>

Run(ss, r) == LET x == RecvLoop(ss, r) IN s' = x[1] /\ rd' = x[2]

Recv ==
  /\ s.v = "ext" /\ rd.pc = "idle"
  /\ IF s.wclosed THEN rd' = [rd EXCEPT !.pc = "ended"] /\ UNCHANGED s ELSE Run(s, rd)
  /\ UNCHANGED <<wr, wire, net, peer>>

\* ws_session_feed behind its drive: a protocol error ends the session, and
\* ws_client_connection_recv closes the connection.
FeedTail(ss) ==
  IF ~ss.peerClosed /\ ~ss.wantRead THEN [MarkPeerClosed(ss) EXCEPT !.closed = TRUE] ELSE ss

\* ws_session_feed drives the replies wslay queued, unless somebody flushes.
FeedReplies(ss) == ss.q # <<>> /\ ~ss.flushing

\* php_stream_read returns into ws_client_connection_recv.
ReadDone ==
  /\ s.v = "ext" /\ rd.pc = "reading"
  /\ \/ \E n \in 1..MaxChunk :
          /\ n <= Len(net)
          /\ net' = SubSeq(net, n + 1, Len(net))
          /\ LET ss == EventRecv(s, SubSeq(net, 1, n))
             IN IF ~FeedReplies(ss) THEN Run(FeedTail(ss), rd)
                ELSE IF DriveFails(ss) THEN Run(FeedTail(FailDrive(ss)), rd)
                ELSE s' = Drive(ss) /\ rd' = [rd EXCEPT !.pc = "replying", !.left = s'.sendBuf]
     \/ /\ net = <<>> /\ (peer.eof \/ peer.broken) /\ UNCHANGED net
        /\ Run(MarkPeerClosed([s EXCEPT !.closed = TRUE]), rd)
  /\ UNCHANGED <<wr, wire, peer>>

\* The reader's own transport write, of the replies.
ReaderPiece ==
  /\ s.v = "ext" /\ rd.pc = "replying"
  /\ LET last == Len(rd.left) = 1
         r == [rd EXCEPT !.left = <<>>]
     IN \/ /\ ~peer.broken
           /\ wire' = Append(wire, Head(rd.left))
           /\ IF last THEN Run(FeedTail(PieceWritten(s, rd.left)), r)
              ELSE rd' = [rd EXCEPT !.left = Tail(@)] /\ UNCHANGED s
        \/ peer.broken /\ Run(FeedTail(WriteFailed(s)), r) /\ UNCHANGED wire
  /\ UNCHANGED <<wr, net, peer>>

\* receive(): pop, or read.
AloneReceiveLoop(ss, r) ==
  IF ss.rq # <<>> THEN <<[ss EXCEPT !.rq = Tail(@)], [r EXCEPT !.pc = "idle", !.got = Append(@, Head(ss.rq))]>>
  ELSE <<ss, [r EXCEPT !.pc = "reading"]>>
AloneRun(ss, r) == LET x == AloneReceiveLoop(ss, r) IN s' = x[1] /\ rd' = x[2]

AloneReceive ==
  /\ s.v = "alone" /\ rd.pc = "idle" /\ wr.pc # "closing"
  /\ IF s.closed THEN rd' = [rd EXCEPT !.pc = "ended"] /\ UNCHANGED s ELSE AloneRun(s, rd)
  /\ UNCHANGED <<wr, wire, net, peer>>

\* Mutant: the end of the stream does not end receive().
AloneReadDoneRetries ==
  /\ s.v = "alone" /\ rd.pc = "reading"
  /\ \/ \E n \in 1..MaxChunk :
          n <= Len(net) /\ net' = SubSeq(net, n + 1, Len(net)) /\ AloneRun(EventRecv(s, SubSeq(net, 1, n)), rd)
     \/ net = <<>> /\ (peer.eof \/ peer.broken) /\ UNCHANGED <<s, rd, net>>
  /\ UNCHANGED <<wr, wire, peer>>

\* wsclient_session_feed only receives: replies stay queued for the next send.
AloneReadDone ==
  /\ s.v = "alone" /\ rd.pc = "reading"
  /\ \/ \E n \in 1..MaxChunk :
          n <= Len(net) /\ net' = SubSeq(net, n + 1, Len(net)) /\ AloneRun(EventRecv(s, SubSeq(net, 1, n)), rd)
     \/ /\ net = <<>> /\ (peer.eof \/ peer.broken) /\ UNCHANGED net
        /\ s' = [s EXCEPT !.closed = TRUE] /\ rd' = [rd EXCEPT !.pc = "ended"]
  /\ UNCHANGED <<wr, wire, peer>>

---------------------------------------------------------------------------
(* The peer. *)
PeerSends ==
  /\ Len(peer.sent) < MaxPeer /\ ~peer.eof /\ ~peer.broken
  /\ \E k \in PeerFrames :
       LET f == [k |-> k, n |-> Len(peer.sent) + 1]
       IN net' = Append(net, f) /\ peer' = [peer EXCEPT !.sent = Append(@, f)]
  /\ UNCHANGED <<s, rd, wr, wire>>

PeerEof ==
  /\ ~peer.eof /\ peer' = [peer EXCEPT !.eof = TRUE]
  /\ UNCHANGED <<s, rd, wr, wire, net>>

PeerBreaks ==
  /\ ~peer.broken /\ peer' = [peer EXCEPT !.broken = TRUE] /\ net' = <<>>
  /\ UNCHANGED <<s, rd, wr, wire>>

Writer == Send \/ CloseCall \/ WriterPiece \/ AloneSend \/ AlonePiece \/ AloneClose
Reader == Recv \/ ReadDone \/ ReaderPiece \/ AloneReceive \/ AloneReadDone
Done == rd.pc \in {"ended", "spin"} /\ UNCHANGED vars
\* recv()'s busy loop never gives the thread back.
Next == (rd.pc # "spin" /\ (Writer \/ Reader \/ PeerSends \/ PeerEof \/ PeerBreaks)) \/ Done

\* The reader keeps receiving, and operations on the stream complete.
ReaderRuns == rd.pc # "spin" /\ Reader
WriterRuns == rd.pc # "spin" /\ (WriterPiece \/ AlonePiece)

Spec == Init /\ [][Next]_vars /\ WF_vars(ReaderRuns) /\ WF_vars(WriterRuns)

---------------------------------------------------------------------------
\* Whatever two coroutines do, the peer sees whole frames, each once, and the
\* messages in the order of the send() calls.
WholeFrames ==
  /\ \A i \in DOMAIN wire :
       /\ wire[i].h = (IF i % 2 = 1 THEN 1 ELSE 2)
       /\ wire[i].h = 2 => (wire[i].k = wire[i - 1].k /\ wire[i].n = wire[i - 1].n)
  /\ \A i, j \in DOMAIN wire :
       (i < j /\ wire[i].h = 1 /\ wire[j].h = 1) =>
          /\ wire[i].k = wire[j].k => wire[i].n < wire[j].n
          /\ wire[i].k # "close"

\* Frames the reader is due: those before the peer's CLOSE or error, data only
\* (the standalone client hands out control frames, the CLOSE too).
Due ==
  LET ends == {i \in DOMAIN peer.sent : peer.sent[i].k \in {"close", "bad"}}
      upto == IF ends = {} THEN Len(peer.sent) ELSE CHOOSE i \in ends : \A j \in ends : i <= j
  IN SelectSeq(SubSeq(peer.sent, 1, upto),
               LAMBDA f : f.k = "msg" \/ (s.v = "alone" /\ f.k # "bad"))

\* recv() hands out what the peer sent, in order, and reports the end only
\* behind the last of it, unless this side closed or the connection broke.
EndBehindLast ==
  /\ IsPrefix(rd.got, Due)
  /\ (rd.pc = "ended" /\ ~s.wclosed /\ (s.v = "alone" => wr.pc # "ended") /\ ~peer.broken) => rd.got = Due

\* Both: the streams of the two directions are whole and in order.
StreamsInOrder == WholeFrames /\ EndBehindLast

\* Once the peer is gone the reader comes to its end (unless a write failed
\* first, when recv() spins).
RecvEnds == (peer.eof \/ peer.broken) ~> rd.pc \in {"ended", "spin"}
============================================================================
