----------------------------- MODULE MCRequests -----------------------------
(* What turns a request into an answer, one part at a time: a behaviour picks  *)
(* the HTTP/1 parser, the response object, the WebSocket handshake, the topic  *)
(* tree of a worker or the statistics slab; the others rest.                   *)
EXTENDS WsHandshake, TLC

CONSTANTS Sessions, NoWalk   \* model values

VARIABLES
    system,
    pP, pR, pH, pM, pMode, pBad, pFaults,
    aR, aWire, aPc, aCalls, aFaults, aG,
    tNodes, tTopics, tMarked, tWalk, tDirty, tInterest, tAttached,
    sActive, sSum, sRetired, sAdmin, sPc, sAt, sOwn, sRd

parserVars == <<pP, pR, pH, pM, pMode, pBad, pFaults>>
responseVars == <<aR, aWire, aPc, aCalls, aFaults, aG>>
treeVars == <<tNodes, tTopics, tMarked, tWalk, tDirty, tInterest, tAttached>>
statsVars == <<sActive, sSum, sRetired, sAdmin, sPc, sAt, sOwn, sRd>>

-----------------------------------------------------------------------------
(* The handshake: all three clients, this server and a foreign one.            *)
MCOffers == {<<>>, <<"p1">>, <<"p1", "p2">>, <<"not a token">>}

MCPmce == {<<>>, <<[name |-> "other", pins |-> <<>>]>>,
           <<[name |-> "permessage-deflate", pins |-> <<8>>],
             [name |-> "permessage-deflate", pins |-> <<12, 10>>]>>,
           <<[name |-> "permessage-deflate", pins |-> <<>>]>>}

\* Every way to get the upgrade conditions wrong.
MCRawRequests ==
  [upgrade : {"none", "websocket", "h2c"}, method : {"GET", "POST"},
   connection : {"upgrade", "keep-alive"}, version : {"13", "8"}, key : {Key, "short"},
   minor : {0, 1}, protocols : {{}}, pmce : MCPmce]

\* Right and wrong lines, repeated and in any order.
MCLines == {Header("accept", AcceptOf(Key)), Header("accept", AcceptOf("other")),
            Header("upgrade", "websocket"), Header("connection", "upgrade"),
            Header("connection", "close"), Header("protocol", "p1")}

-----------------------------------------------------------------------------
(* The parser: every header section of up to two kinds, the sections of three  *)
(* that frame a body, and the request lines that matter to a check.            *)
Line(method, target, minor) == [method |-> method, target |-> target, minor |-> minor]
RequestLines == {Line("POST", "/", 1), Line("POST", "/", 0), Line("GET", "*", 1),
            Line("OPTIONS", "*", 0), Line("CONNECT", "/", 0), Line("GET", "/", 2),
            Line("GET", "bad", 1), Line("GET", "long", 1)}

Kinds == {"host", "host_bad", "cl0", "cl1", "cl3", "cl_bad", "te", "te_empty",
          "ct", "ct_multi", "close", "long", "huge"}
Framing == {"host", "cl1", "cl3", "te", "other", "long"}
Sections ==
    {<<>>} \cup {<<a>> : a \in Kinds} \cup {<<a, b>> : a, b \in Kinds}
      \cup {<<"host", a, b>> : a, b \in Framing}
      \cup {<<"host", "other", "upgrade", a>> : a \in {"keep", "cl1"}}

Parser == INSTANCE Http1Parser WITH
    Lines <- RequestLines, HeaderSeqs <- Sections, Bodies <- {0, 2, 3}, Trailers <- {<<>>},
    Streaming <- TRUE, AutoStream <- 3, MaxBody <- 2, MaxValue <- 2, MaxTotal <- 4,
    MaxCount <- 3, MaxFaults <- 1,
    p <- pP, r <- pR, h <- pH, m <- pM, mode <- pMode, bad <- pBad, faults <- pFaults

\* Four calls of a handler, on a body of up to four pieces.
Response == INSTANCE HttpResponse WITH
    MaxCalls <- 4, MaxFaults <- 1, MinSize <- 2,
    r <- aR, wire <- aWire, pc <- aPc, calls <- aCalls, faults <- aFaults, g <- aG

\* Two sessions and a topic space of two levels; two prefixes share a bucket of the
\* interest filter, so a counter can stand for several filters.
Tree == INSTANCE TopicTree WITH
    None <- NoWalk,
    Filters <- {<<"a">>, <<"a", "#">>, <<"+", "b">>, <<"a", "b">>, <<"#", "a">>, <<"x+">>},
    Topics <- {<<"a">>, <<"a", "b">>, <<"b", "b">>}, MaxSubs <- 3, MaxLevels <- 2,
    Probes <- (<<>> :> {0, 1}) @@ (<<"a">> :> {1, 2}) @@ (<<"a", "b">> :> {2, 3})
              @@ (<<"b">> :> {3, 4}) @@ (<<"b", "b">> :> {0, 4}),
    nodes <- tNodes, topics <- tTopics, marked <- tMarked, walk <- tWalk, dirty <- tDirty,
    interest <- tInterest, attached <- tAttached

\* Three workers compete for two slots, so a slot is claimed again.
Stats == INSTANCE StatsRegistry WITH
    Workers <- {"w1", "w2", "w3"}, Capacity <- 2, MaxCount <- 2,
    active <- sActive, sum <- sSum, retired <- sRetired, admin <- sAdmin, pc <- sPc,
    at <- sAt, own <- sOwn, rd <- sRd

-----------------------------------------------------------------------------
MCInit ==
    /\ system \in {"handshake", "parser", "response", "tree", "stats"}
    /\ Init /\ Parser!Init /\ Tree!Init /\ Stats!Init
    /\ Response!Init
    /\ \/ system = "response"
       \/ /\ aR.chosen = "identity" /\ aG.welcome
          /\ ~aR.isHead /\ ~aR.range /\ ~aR.noComp /\ aR.keepAlive

MCNext ==
    /\ UNCHANGED system
    /\ \/ /\ system = "handshake" /\ Next
          /\ UNCHANGED <<parserVars, responseVars, treeVars, statsVars>>
       \/ /\ system = "parser" /\ Parser!Next
          /\ UNCHANGED <<vars, responseVars, treeVars, statsVars>>
       \/ /\ system = "response" /\ Response!Next
          /\ UNCHANGED <<vars, parserVars, treeVars, statsVars>>
       \/ /\ system = "tree" /\ Tree!Next
          /\ UNCHANGED <<vars, parserVars, responseVars, statsVars>>
       \/ /\ system = "stats" /\ Stats!Next
          /\ UNCHANGED <<vars, parserVars, responseVars, treeVars>>

MCSpec == MCInit /\ [][MCNext]_<<system, vars, parserVars, responseVars, treeVars, statsVars>>

\* Sessions are interchangeable.
Symmetry == Permutations(Sessions)

-----------------------------------------------------------------------------
\* Good requests, and only they, reach one owner each, intact.
RequestsSound == Parser!RequestsSound

\* An answer is framed as HTTP/1.1 wants it, and says what the handler said.
AnswerSound == Response!AnswerSound

\* A publish walks a sound tree and reaches every subscriber once.
TopicsServed == Tree!TopicsServed

\* getStats() neither counts twice nor misses a worker that stays.
ReadingSound == Stats!ReadingSound
=============================================================================
