------------------------------ MODULE MCWaits ------------------------------
(* Who waits for a peer, one at a time: a behaviour picks the producer that   *)
(* waits for credit of a response stream, the producers and the stop of a log *)
(* sink, an HTTP/1 connection, or a worker that retires; the others rest in   *)
(* their initial states, where nothing is owed.                               *)
EXTENDS StreamCredit

VARIABLES
    system,
    lSink, lLive, lRings, lCache, lRecs, lProd, lKicked, lKicks, lLog, lWire, lStop, lAwaits,
    lFired, lLock, lOthers,
    hK, hH, hQ, hSock, hPeer, hWire,
    gSlots, gWpc, gInbox, gRemaining, gTodo, gSkipped, gSpins, gBox, gHeld, gRpc, gHome, gReqs,
    gOthers

logVars == <<lSink, lLive, lRings, lCache, lRecs, lProd, lKicked, lKicks, lLog, lWire, lStop,
             lAwaits, lFired, lLock, lOthers>>
httpVars == <<hK, hH, hQ, hSock, hPeer, hWire>>
registryVars == <<gSlots, gWpc, gInbox, gRemaining, gTodo, gSkipped, gSpins, gBox, gHeld, gRpc,
                  gHome, gReqs, gOthers>>

\* Rings of two units whose counters wrap at four, two lives of the sink.
Log == INSTANCE LogSink WITH
    Producers <- {"p1", "p2"}, Sizes <- {1, 2}, Modes <- {"stream", "dgram"}, RingCap <- 2,
    CtrMod <- 4, HighWater <- 2, ChunkMax <- 3, MaxRecs <- 2, MaxLives <- 2, None <- "none",
    sink <- lSink, live <- lLive, rings <- lRings, cache <- lCache, recs <- lRecs,
    prod <- lProd, kicked <- lKicked, kicks <- lKicks, log <- lLog, wire <- lWire,
    stop <- lStop, awaits <- lAwaits, fired <- lFired, lock <- lLock, others <- lOthers

\* Two pipelined requests of every kind, in plain text and over TLS with room for
\* one response in the ring and two requests in the buffer.
Http == INSTANCE HttpConnection WITH
    Transports <- {"plain", "tls"}, Tokens <- {"get", "close", "head", "end", "bad"},
    Kinds <- {"small", "big", "chunked", "file"}, RingCap <- 1, RbufCap <- 2,
    ReadTimeout <- TRUE, KeepaliveTimeout <- TRUE, MaxReq <- 2, MaxSpawnFail <- 1,
    k <- hK, h <- hH, q <- hQ, sock <- hSock, peer <- hPeer, wire <- hWire

\* A worker retires behind a fence on two reactors whose mailboxes of one may be
\* full; retirements share nothing they wait for, so one shows that it ends (MCTables
\* has two).
Registry == INSTANCE WorkerRegistry WITH
    Workers <- {"w1"}, Reactors <- {0, 1}, Capacity <- 1, InboxCap <- 2, Spill <- 1,
    BoxCap <- 1, Patience <- 2, MaxReqs <- 2, MaxOther <- 2, None <- "none",
    slots <- gSlots, wpc <- gWpc, inbox <- gInbox, remaining <- gRemaining, todo <- gTodo,
    skipped <- gSkipped, spins <- gSpins, box <- gBox, held <- gHeld, rpc <- gRpc,
    home <- gHome, reqs <- gReqs, others <- gOthers

ASSUME Geometry == Log!RingGeometry /\ Registry!RegistryAssumption

MCInit ==
    /\ system \in {"credit", "log", "http", "registry"}
    /\ Init /\ Registry!Init
    /\ Log!Init /\ (system = "log" \/ lOthers)
    /\ Http!Init /\ (system = "http" \/ ~hK.tls)

MCNext ==
    /\ UNCHANGED system
    /\ \/ system = "credit" /\ Next /\ UNCHANGED <<logVars, httpVars, registryVars>>
       \/ system = "log" /\ Log!Next /\ UNCHANGED <<vars, httpVars, registryVars>>
       \/ system = "http" /\ Http!Next /\ UNCHANGED <<vars, logVars, registryVars>>
       \/ system = "registry" /\ Registry!Next /\ UNCHANGED <<vars, logVars, httpVars>>

\* A resting connection owes no deadline.
MCSpec ==
    /\ MCInit /\ [][MCNext]_<<system, vars, logVars, httpVars, registryVars>>
    /\ Fairness /\ Log!Fairness /\ Http!RuntimeFairness /\ Registry!Fairness
    /\ WF_httpVars(system = "http" /\ Http!DeadlineTick)

-----------------------------------------------------------------------------
\* What a sink sends is what its producers published.
RecordsIntact == Log!RecordsIntact

\* A stop drains the rings, and nobody appends to a freed one.
StopSound == Log!StopSound

\* Neither a record nor a stop of the log waits for ever.
SinkEnds == Log!SinkEnds

\* Pipelined requests are served one at a time, and all of them.
RequestsServed == Http!RequestsServed

\* Accepted response bytes leave in order, before the connection is freed.
BytesKept == Http!BytesKept

\* A producer parked for ring space resumes, and an abandoned connection is freed.
ConnectionEnds == Http!ConnectionEnds

\* The retirement of an inbox ends.
RetireEnds == Registry!RetireEnds
=============================================================================
