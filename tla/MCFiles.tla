------------------------------ MODULE MCFiles ------------------------------
(* File answers and HTTP/3 streams, one part at a time: a behaviour picks the  *)
(* static-file engine with its cache, the HTTP/2 file pumps of a worker or the *)
(* streams of an HTTP/3 connection; the others rest.                           *)
EXTENDS StaticFiles

CONSTANTS s1, s2   \* model values

VARIABLES
    system,
    pumps,
    qLive, qStr, qPool, qFaults, qStale

streamVars == <<qLive, qStr, qPool, qFaults, qStale>>

-----------------------------------------------------------------------------
(* The file engine. Two mounts over one directory: the first caches (one       *)
(* entry, one tick), refuses links and offers a sidecar; the second did not    *)
(* ask for a cache and passes what it misses on to the handler.                *)
MCSlots == {s1, s2}

MCPaths == {"a", "a.gz"}
MCSidecar == [p \in MCPaths |-> IF p = "a" THEN << <<"gzip", "a.gz">> >> ELSE << >>]

MCMounts == <<
  [policy |-> "reject", etag |-> TRUE, next |-> FALSE, precomp |-> {"gzip"},
   dotfiles |-> "deny", index |-> <<"a">>, entries |-> 1, ttl |-> 1],
  [policy |-> "owner", etag |-> TRUE, next |-> TRUE, precomp |-> {},
   dotfiles |-> "ignore", index |-> << >>, entries |-> 0, ttl |-> 0] >>

Name == [mount |-> 1, absolute |-> TRUE, bytes |-> "ok", segs |-> <<"name">>,
         hidden |-> FALSE, dir |-> FALSE, path |-> "a"]
NoRange == [form |-> "none", first |-> 0, last |-> 0]
Get == [kind |-> "static", method |-> "GET", target |-> Name, accept |-> {}, inm |-> NoInm,
        ims |-> 0, range |-> NoRange, ifr |-> 0, op |-> TRUE]

\* Plain, conditional, coded, ranged, without a protocol op, on the second
\* mount, and the targets that never reach a file.
MCWanted ==
  { Get,
    [Get EXCEPT !.accept = {"gzip"}],
    [Get EXCEPT !.inm = [sent |-> TRUE, any |-> FALSE, tags |-> {1}], !.ims = 9],
    [Get EXCEPT !.method = "HEAD", !.ims = 1],
    [Get EXCEPT !.range = [form |-> "from", first |-> 1, last |-> 2], !.ifr = 1],
    [Get EXCEPT !.op = FALSE],
    [Get EXCEPT !.target.mount = 2],
    [Get EXCEPT !.target.dir = TRUE, !.target.segs = << >>] }

MCRefused ==
  { [Get EXCEPT !.method = "POST"],
    [Get EXCEPT !.target.mount = 0],
    [Get EXCEPT !.target.bytes = "bad"],
    [Get EXCEPT !.target.segs = <<"name", "dotdot">>],
    [Get EXCEPT !.target.segs = <<"dotfile", "empty">>, !.target.mount = 2],
    [Get EXCEPT !.target.hidden = TRUE, !.target.mount = 2] }

\* The first slot makes every request, the second those that put an entry in
\* the cache or throw one out while the first waits for its tick.
MCAllWanted == [i \in Slots |-> IF i = s1 THEN MCWanted \cup MCRefused
                                ELSE {[Get EXCEPT !.accept = {"gzip"}]}]

Dl == [kind |-> "download", method |-> "GET", path |-> "a", accept |-> {"gzip"}, inm |-> NoInm,
       ims |-> 0, range |-> NoRange, ifr |-> 0, op |-> TRUE, valid |-> TRUE, precomp |-> TRUE,
       etag |-> TRUE, cond |-> TRUE, ranges |-> TRUE, del |-> FALSE, status |-> 0]

MCDownloads == [i \in Slots |-> IF i # s1 THEN {} ELSE
  { Dl,
    [Dl EXCEPT !.del = TRUE, !.precomp = FALSE, !.range = [form |-> "suffix", first |-> 0, last |-> 9]],
    [Dl EXCEPT !.valid = FALSE] } ]

MCSizeOf == <<2, 3>>

-----------------------------------------------------------------------------
\* Three responses on two connections; the budget holds about two chunks.
Pump == INSTANCE Http2Static WITH
    Streams <- 1..3, Conns <- {"a", "b"}, ConnOf <- <<"a", "a", "b">>,
    BodyLength <- <<3, 4, 2>>, Budget <- 3, TargetMin <- 2, TargetMax <- 4, ChunkMax <- 2,
    ConnSoft <- 3, RingSlots <- 2, Window <- 1, MaxFaults <- 1,
    w <- pumps

\* A handler that reads an upgraded body and streams its answer, beside two file
\* answers that share the pump budget.
Plans ==
    <<[mode |-> "upgrade", body |-> {3}, reads |-> TRUE, answer |-> "streamed", lens |-> <<1, 1>>],
      [mode |-> "buffer", body |-> {1}, reads |-> TRUE, answer |-> "file", lens |-> <<2>>],
      [mode |-> "stream", body |-> {0}, reads |-> FALSE, answer |-> "static", lens |-> <<1, 1>>]>>

Quic == INSTANCE Http3Stream WITH
    Streams <- {1, 2, 3}, Plan <- Plans, StreamWindow <- 1, Cwnd <- 2, RxWindow <- 2,
    BodyCap <- 2, CreditStep <- 2, HighWater <- 1, Budget <- 2, MaxFaults <- 1,
    live <- qLive, str <- qStr, pool <- qPool, faults <- qFaults, stale <- qStale

-----------------------------------------------------------------------------
MCInit == system \in {"files", "pumps", "streams"} /\ Init /\ Pump!Init /\ Quic!Init

MCNext ==
    /\ UNCHANGED system
    /\ \/ system = "files" /\ Next /\ UNCHANGED <<pumps, streamVars>>
       \/ system = "pumps" /\ Pump!Next /\ UNCHANGED <<vars, streamVars>>
       \/ system = "streams" /\ Quic!Next /\ UNCHANGED <<vars, pumps>>

MCSpec == MCInit /\ [][MCNext]_<<system, vars, pumps, streamVars>>

-----------------------------------------------------------------------------
\* No byte, wake-up or completion of an HTTP/2 file answer is lost or counted twice.
PumpsSound == Pump!PumpsSound

\* What an HTTP/3 stream holds, counts and waits for comes out even.
StreamsSound == Quic!StreamsSound
=============================================================================
