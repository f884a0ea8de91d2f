----------------------------- MODULE MCWebSocket -----------------------------
(* The two ends of a WebSocket, one at a time: a behaviour picks the server's   *)
(* session or one of the two clients; the other rests in an initial state.      *)
EXTENDS Naturals, Sequences

VARIABLES
    system,
    eSes, eConn, eIo, eW, eCo, eSock, eRbuf, eN,
    cS, cRd, cWr, cWire, cNet, cPeer

sessionVars == <<eSes, eConn, eIo, eW, eCo, eSock, eRbuf, eN>>
clientVars == <<cS, cRd, cWr, cWire, cNet, cPeer>>

\* The handler and one spawned producer share the session; one frame fills each
\* buffer, so that sends park and the receive cap is met.
Session == INSTANCE WsSession WITH
    Producers <- {"p"}, High <- 1, RecvCap <- 1, PongTimeout <- TRUE, MaxMsgs <- 2,
    MaxIn <- 2, MaxPings <- 1,
    ses <- eSes, conn <- eConn, io <- eIo, w <- eW, co <- eCo, sock <- eSock,
    rbuf <- eRbuf, n <- eN

\* Three frames of the peer, read in pieces of up to two, meet two sends.
Client == INSTANCE WsClient WITH
    Variants <- {"ext", "alone"}, MaxSend <- 2, MaxPeer <- 3, MaxChunk <- 2,
    PeerFrames <- {"msg", "ping", "close", "bad"},
    s <- cS, rd <- cRd, wr <- cWr, wire <- cWire, net <- cNet, peer <- cPeer

MCInit ==
    /\ system \in {"session", "client"}
    /\ Session!Init /\ (system = "session" \/ ~eConn.outFlight)
    /\ Client!Init /\ (system = "client" \/ cS.v = "ext")

MCNext ==
    /\ UNCHANGED system
    /\ \/ system = "session" /\ Session!Next /\ UNCHANGED clientVars
       \/ system = "client" /\ Client!Next /\ UNCHANGED sessionVars

MCSpec ==
    /\ MCInit /\ [][MCNext]_<<system, sessionVars, clientVars>>
    /\ WF_sessionVars(system = "session" /\ Session!RuntimeStep)
    /\ WF_clientVars(system = "client" /\ Client!ReaderRuns)
    /\ WF_clientVars(system = "client" /\ Client!WriterRuns)

-----------------------------------------------------------------------------
\* No coroutine or queue is left to a session that is gone, or outgrows its bound.
SessionSound == Session!SessionSound

\* What waits on a closing session is released, and its connection ends.
SessionEnds == Session!SessionEnds

\* Both directions of a client connection are whole and in order.
StreamsInOrder == Client!StreamsInOrder

\* Once the peer is gone, recv() comes to its end.
RecvEnds == Client!RecvEnds
=============================================================================
