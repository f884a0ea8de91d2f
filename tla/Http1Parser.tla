---------------------------- MODULE Http1Parser ----------------------------
(***************************************************************************)
(* The HTTP/1 request parser (http1/http_parser.c) on top of llhttp, with  *)
(* the pool it is borrowed from and the body queue of a streamed request.  *)
(*                                                                         *)
(* llhttp turns the bytes of a message into callbacks; a buffer may end    *)
(* between any two of them, so each callback is an action and the handler  *)
(* of a streamed request runs in between.  A message is abstract: a        *)
(* request line, a sequence of header kinds, a body length in units and    *)
(* trailers.  Names and values arrive in one piece or in two.              *)
(***************************************************************************)
EXTENDS Integers, Sequences, FiniteSets, SequencesExt

CONSTANTS
    Lines,        \* request lines: [method, target, minor]
    HeaderSeqs,   \* the header sections a client may send
    Bodies,       \* lengths of a chunked body
    Trailers,     \* trailer sections of a chunked body
    Streaming,    \* body_streaming_enabled of the server
    AutoStream,   \* HTTP_BODY_STREAM_AUTO_THRESHOLD
    MaxBody,      \* max_body_size
    MaxValue, MaxTotal, MaxCount,  \* HTTP_MAX_HEADER_VALUE, _TOTAL, _COUNT
    MaxFaults     \* bound: shed requests, refused allocations and spawns

VARIABLES
    p,       \* the parser
    r,       \* the request it built last
    h,       \* who runs the request: idle, handler, cancelled, caller
    m,       \* the message on the wire and how far llhttp is in it
    mode,    \* the user of the parser: pool, conn (a connection), sync
    bad,     \* history: a freed request was touched
    faults

vars == <<p, r, h, m, mode, bad, faults>>

----------------------------------------------------------------------------
(* Header kinds: the length of a value and what it says. *)

ValueLen(k) == CASE k = "te_empty" -> 0 [] k = "long" -> 2 [] k = "huge" -> 3 [] OTHER -> 1

ContentLengths == [cl0 |-> 0, cl1 |-> 1, cl3 |-> 3]
IsLength(k) == k \in DOMAIN ContentLengths

(* line, hdrs and len are history: the message the request was parsed from *)
NoRequest ==
    [state |-> "none", headers |-> <<>>, keep |-> FALSE, cl |-> 0,
     chunked |-> FALSE, streaming |-> FALSE, multipart |-> FALSE,
     body |-> 0, queued |-> 0, consumed |-> 0, complete |-> FALSE, eof |-> FALSE,
     line |-> [method |-> "", target |-> "", minor |-> 0], hdrs |-> <<>>, len |-> 0]

NoMessage == [at |-> "idle", line |-> [method |-> "", target |-> "", minor |-> 0],
              hdrs |-> <<>>, k |-> 1, part |-> 0, left |-> 0, len |-> 0, trail |-> <<>>]

(* The fields a fresh parser has; the builders hold pieces of text. *)
Fresh ==
    [req |-> FALSE, owns |-> FALSE, dispatched |-> FALSE,
     name |-> <<>>, value |-> <<>>, inValue |-> FALSE,
     err |-> "ok", count |-> 0, total |-> 0, clFirst |-> 0, clSeen |-> 0,
     hosts |-> 0, cts |-> 0, te |-> FALSE, offset |-> 0, builder |-> 0,
     paused |-> FALSE]

Init ==
    /\ p = Fresh
    /\ r = NoRequest
    /\ h = "idle"
    /\ m = NoMessage
    /\ mode = "pool"
    /\ bad = FALSE
    /\ faults = 0

----------------------------------------------------------------------------
(* save_current_header. Its error returns leave the builders as they are,  *)
(* except for the name of a known header, which was already taken.         *)

(* The builders hold the text of exactly one header. *)
Whole(pieces) ==
    \/ Len(pieces) = 1 /\ pieces[1][2] = 0
    \/ Len(pieces) = 2 /\ pieces[1][2] = 1 /\ pieces[2] = <<pieces[1][1], 2>>
NameOf(s) == IF Whole(s.name) /\ Whole(s.value) /\ s.name[1][1] = s.value[1][1]
             THEN s.name[1][1] ELSE "garbled"

(* The first of a list of checks that applies. *)
FirstError(checks) ==
    LET hits == SelectSeq(checks, LAMBDA c : c[1])
    IN IF hits = <<>> THEN "ok" ELSE hits[1][2]

HeaderError(s, k) ==
    FirstError(<<
      <<s.count >= MaxCount, "count">>,
      <<k = "cl_bad", "length">>,
      <<IsLength(k) /\ s.clSeen > 0 /\ ContentLengths[k] # s.clFirst, "conflict">>,
      <<k = "te_empty", "malformed">>,
      <<k = "host_bad" \/ (k = "host" /\ s.hosts > 0), "host">>,
      <<k \in {"ct", "ct_multi"} /\ s.cts > 0, "malformed">> >>)

Known(k) == k # "garbled" /\ k # "other" /\ k # "long" /\ k # "huge"

(* The parser after it counted and classified header k. *)
Classify(s, k) ==
    [s EXCEPT !.count = @ + 1,
              !.clFirst = IF IsLength(k) /\ s.clSeen = 0 THEN ContentLengths[k] ELSE @,
              !.clSeen = IF IsLength(k) THEN @ + 1 ELSE @,
              !.te = @ \/ k = "te",
              !.hosts = IF k \in {"host", "host_bad"} THEN @ + 1 ELSE @,
              !.cts = IF k \in {"ct", "ct_multi"} THEN @ + 1 ELSE @]

SaveCurrentHeader(s) ==
    LET k == NameOf(s) e == HeaderError(s, k) IN
    IF s.name = <<>> \/ s.value = <<>> THEN s
    ELSE CASE e = "count" -> [s EXCEPT !.err = e]
           [] e = "ok" -> [Classify(s, k) EXCEPT !.name = <<>>, !.value = <<>>]
           [] OTHER -> [Classify(s, k) EXCEPT !.err = e,
                                              !.name = IF Known(k) THEN <<>> ELSE @]

(* What the same call adds to the request: http_request_store_header. *)
Stored(s) == s.name # <<>> /\ s.value # <<>> /\ HeaderError(s, NameOf(s)) = "ok"
StoreHeader(s, q) ==
    LET k == NameOf(s) IN
    IF ~Stored(s) THEN q
    ELSE [q EXCEPT !.headers = Append(@, k),
                   !.cl = IF IsLength(k) THEN ContentLengths[k] ELSE @,
                   !.chunked = @ \/ k = "te",
                   !.keep = IF k = "keep" THEN TRUE ELSE IF k = "close" THEN FALSE ELSE @]

Touch == r.state # "live"

----------------------------------------------------------------------------
(* The end of a message: how it fails and who still holds the request. *)

(* A callback returned -1: execute fails, the connection answers with the  *)
(* status of the error or cancels the handler, and retires.                *)
Fail(s, e) ==
    /\ p' = [s EXCEPT !.err = e]
    /\ m' = [m EXCEPT !.at = "failed"]
    /\ h' = IF h = "handler" THEN "cancelled" ELSE h

(* Mutant: a refused spawn leaves the pointer behind. *)
DispatchDangling(s, q, spawned) ==
    IF spawned
    THEN p' = [s EXCEPT !.owns = FALSE, !.dispatched = TRUE] /\ r' = q /\ h' = "handler"
    ELSE /\ p' = [s EXCEPT !.owns = FALSE, !.dispatched = TRUE]
         /\ r' = [NoRequest EXCEPT !.state = "freed"] /\ h' = "idle"

(* Hand the request to its handler. A refused spawn frees it and severs    *)
(* the parser's pointer.                                                   *)
Dispatch(s, q, spawned) ==
    IF spawned
    THEN p' = [s EXCEPT !.owns = FALSE, !.dispatched = TRUE] /\ r' = q /\ h' = "handler"
    ELSE /\ p' = [s EXCEPT !.owns = FALSE, !.dispatched = TRUE, !.req = FALSE]
         /\ r' = [NoRequest EXCEPT !.state = "freed"] /\ h' = "idle"

Fault(happens) ==
    /\ happens => faults < MaxFaults
    /\ faults' = IF happens THEN faults + 1 ELSE faults

----------------------------------------------------------------------------
(* The callbacks of llhttp. *)

(* The parser at the start of a message. *)
Begun(s) ==
    [s EXCEPT !.req = TRUE, !.owns = TRUE, !.dispatched = FALSE, !.inValue = FALSE,
              !.offset = 0, !.total = 0, !.err = "ok", !.clFirst = 0, !.clSeen = 0,
              !.count = 0, !.hosts = 0, !.cts = 0, !.te = FALSE, !.paused = FALSE]

OnMessageBegin ==
    /\ mode # "pool"
    /\ m.at = "idle"
    /\ h = "idle"
    /\ mode = "sync" => ~p.paused
    /\ \E line \in Lines, hdrs \in HeaderSeqs :
         /\ m' = [NoMessage EXCEPT !.at = "url", !.line = line, !.hdrs = hdrs]
         /\ r' = [NoRequest EXCEPT !.state = "live", !.line = line, !.hdrs = hdrs]
    /\ p' = Begun(p)
    /\ UNCHANGED <<h, mode, bad, faults>>

OnUrl ==
    /\ m.at = "url"
    /\ CASE m.line.target = "long" -> Fail(p, "uri")
         [] m.line.target = "bad" -> Fail(p, "malformed")
         [] OTHER -> m' = [m EXCEPT !.at = "field"] /\ UNCHANGED <<p, h>>
    /\ UNCHANGED <<r, mode, bad, faults>>

Section == IF m.at \in {"field", "value"} THEN m.hdrs ELSE m.trail
InSection == m.k <= Len(Section)
AtField == m.at \in {"field", "tfield"}
AtValue == m.at \in {"value", "tvalue"}

(* A name, whole (0) or its first (1) or second (2) half. A header that    *)
(* was complete is saved first.                                            *)
OnHeaderField(half) ==
    LET k == Section[m.k]
        s == IF p.inValue THEN [SaveCurrentHeader(p) EXCEPT !.inValue = FALSE] ELSE p
        next == IF half = 1 THEN m
                ELSE [m EXCEPT !.at = IF @ = "field" THEN "value" ELSE "tvalue"]
    IN /\ AtField
       /\ InSection
       /\ half = 2 <=> m.part = 1
       /\ p' = [s EXCEPT !.name = Append(@, <<k, half>>)]
       /\ r' = IF p.inValue THEN StoreHeader(p, r) ELSE r
       /\ bad' = (bad \/ Touch)
       /\ m' = [next EXCEPT !.part = IF half = 1 THEN 1 ELSE 0]
       /\ UNCHANGED <<h, mode, faults>>

OnHeaderValue ==
    LET k == Section[m.k]
        held == FoldLeft(LAMBDA a, x : a + ValueLen(x[1]), 0, p.value)
    IN /\ AtValue
       /\ LET e == FirstError(<< <<p.name = <<>>, "header">>,
                                 <<held + ValueLen(k) > MaxValue, "value">>,
                                 <<p.total + ValueLen(k) > MaxTotal, "total">> >>)
          IN IF e # "ok" THEN Fail(p, e)
             ELSE
                 /\ p' = [p EXCEPT !.value = Append(@, <<k, 0>>), !.inValue = TRUE,
                                   !.total = @ + ValueLen(k)]
                 /\ m' = [m EXCEPT !.k = @ + 1,
                                   !.at = IF @ = "value" THEN "field" ELSE "tfield"]
                 /\ UNCHANGED h
       /\ UNCHANGED <<r, mode, bad, faults>>

(* The checks of on_headers_complete in their order; "ok" accepts. *)
HeadError(s) ==
    FirstError(<<
      <<s.err # "ok", s.err>>,
      <<s.clSeen > 0 /\ s.te, "conflict">>,
      <<m.line.minor \notin {0, 1}, "version">>,
      <<m.line.minor = 1 /\ s.hosts = 0, "host">>,
      <<m.line.method = "CONNECT", "method">>,
      <<m.line.target = "*" /\ m.line.method # "OPTIONS", "malformed">> >>)

(* Keep-alive, multipart and the streaming policy by Content-Length. *)
Prepared(q) ==
    LET multi == "ct_multi" \in Range(q.headers) IN
    [q EXCEPT !.keep = IF Range(q.headers) \cap {"keep", "close", "upgrade"} = {}
                       THEN m.line.minor = 1 ELSE @,
              !.multipart = multi,
              !.streaming = Streaming /\ mode = "conn" /\ ~multi
                              /\ (q.cl = 0 \/ q.cl >= AutoStream)]

OnHeadersComplete ==
    LET s == IF p.inValue THEN [SaveCurrentHeader(p) EXCEPT !.inValue = FALSE] ELSE p
        q == Prepared(IF p.inValue THEN StoreHeader(p, r) ELSE r)
        buffered == ~q.multipart /\ ~q.streaming /\ q.cl > 0
        chunks == IF s.te THEN Bodies ELSE {s.clFirst}
    IN \E shed, oom, unspawned \in BOOLEAN :
       /\ m.at = "field"
       /\ ~InSection
       /\ shed => mode = "conn"
       /\ oom => buffered /\ ~shed
       /\ unspawned => q.streaming /\ ~shed
       /\ Fault(shed \/ oom \/ unspawned)
       /\ IF shed
          THEN Fail(p, "shed") /\ r' = r
          ELSE IF HeadError(s) # "ok"
          THEN Fail(s, HeadError(s)) /\ r' = q /\ ~oom /\ ~unspawned
          ELSE IF buffered /\ q.cl > MaxBody
          THEN Fail(s, "body") /\ r' = q /\ ~oom
          ELSE IF oom
          THEN Fail(s, "oom") /\ r' = q
          ELSE \E n \in chunks, t \in Trailers :
                 /\ s.te \/ t = <<>>
                 /\ m' = [m EXCEPT !.at = "body", !.left = n, !.len = n, !.trail = t, !.k = 1]
                 /\ IF q.streaming
                    THEN Dispatch(s, [q EXCEPT !.len = n], ~unspawned)
                    ELSE p' = s /\ r' = [q EXCEPT !.len = n] /\ UNCHANGED h
       /\ UNCHANGED <<mode, bad>>

(* One unit of body. *)
OnBody ==
    LET rest == [m EXCEPT !.left = @ - 1] IN
    \E oom \in BOOLEAN :
       /\ m.at = "body"
       /\ m.left > 0
       /\ oom => p.req /\ ~r.multipart /\ (r.streaming \/ r.cl = 0)
       /\ Fault(oom)
       /\ bad' = (bad \/ (p.req /\ Touch))
       /\ IF ~p.req
          THEN m' = rest /\ UNCHANGED <<p, r, h>>
          ELSE IF r.multipart
          THEN \/ m' = rest /\ UNCHANGED <<p, r, h>>
               \/ Fail(p, "malformed") /\ UNCHANGED r
          ELSE IF r.streaming
          THEN IF r.consumed + r.queued + 1 > MaxBody
               THEN Fail(p, "body") /\ UNCHANGED r
               ELSE IF oom THEN Fail(p, "oom") /\ UNCHANGED r
               ELSE /\ r' = [r EXCEPT !.queued = @ + 1]
                    /\ m' = rest
                    /\ UNCHANGED <<p, h>>
          ELSE IF r.cl > 0
          THEN /\ p' = [p EXCEPT !.offset = @ + 1]
               /\ r' = [r EXCEPT !.body = p.offset + 1]
               /\ m' = rest
               /\ UNCHANGED h
          ELSE IF p.builder + 1 > MaxBody
          THEN Fail(p, "body") /\ UNCHANGED r
          ELSE IF oom THEN Fail(p, "oom") /\ UNCHANGED r
          ELSE p' = [p EXCEPT !.builder = @ + 1] /\ m' = rest /\ UNCHANGED <<r, h>>
       /\ UNCHANGED mode

(* The chunked body ended; trailers follow through the header callbacks. *)
LastChunk ==
    /\ m.at = "body" /\ m.left = 0
    /\ m' = [m EXCEPT !.at = "tfield"]
    /\ UNCHANGED <<p, r, h, mode, bad, faults>>

(* Close the stream or finish the body; a request not yet handed over is   *)
(* handed over now; parsing pauses.                                        *)
OnMessageComplete ==
    LET q == [r EXCEPT !.complete = TRUE, !.eof = r.streaming,
                       !.body = IF ~r.streaming /\ r.cl = 0 THEN p.builder ELSE @]
        s == [p EXCEPT !.paused = TRUE,
                       !.builder = IF r.streaming \/ r.cl > 0 THEN @ ELSE 0]
    IN \E unspawned \in BOOLEAN :
       /\ m.at = "tfield"
       /\ ~InSection
       /\ unspawned => p.req /\ ~p.dispatched /\ mode = "conn"
       /\ Fault(unspawned)
       /\ bad' = (bad \/ (p.req /\ Touch))
       /\ m' = [NoMessage EXCEPT !.at = IF p.req THEN "idle" ELSE "failed"]
       /\ IF ~p.req
          THEN p' = [p EXCEPT !.paused = TRUE] /\ UNCHANGED <<r, h>>
          ELSE IF p.dispatched
          THEN p' = s /\ r' = q /\ UNCHANGED h
          ELSE IF mode = "conn"
          THEN Dispatch(s, q, ~unspawned)
          ELSE p' = [s EXCEPT !.owns = FALSE] /\ r' = q /\ h' = "caller"
       /\ UNCHANGED mode

(* llhttp refuses the bytes: the error is malformed unless one is set. *)
SyntaxError ==
    /\ m.at \notin {"idle", "failed"}
    /\ faults < MaxFaults
    /\ faults' = faults + 1
    /\ Fail(p, IF p.err = "ok" THEN "syntax" ELSE p.err)
    /\ UNCHANGED <<r, mode, bad>>

----------------------------------------------------------------------------
(* The handler and the owners of the parser. *)

(* readBody() pops one chunk. *)
HandlerReads ==
    /\ h \in {"handler", "cancelled"}
    /\ r.queued > 0
    /\ r' = [r EXCEPT !.queued = @ - 1, !.consumed = @ + 1]
    /\ UNCHANGED <<p, h, m, mode, bad, faults>>

(* The handler returned: with its coroutine goes the request. It stays     *)
(* until the message ended: see the boundaries of the model.               *)
HandlerEnds ==
    /\ h = "cancelled" \/ (h = "handler" /\ r.complete)
    /\ h' = "idle"
    /\ r' = [NoRequest EXCEPT !.state = "freed"]
    /\ UNCHANGED <<p, m, mode, bad, faults>>

Acquire ==
    /\ mode = "pool"
    /\ mode' \in {"conn", "sync"}
    /\ m' = NoMessage
    /\ UNCHANGED <<p, r, h, bad, faults>>

(* parser_pool_return: release the request the parser still owns, and      *)
(* reset the parser for its next user.                                     *)
ReleaseRequest == IF p.owns /\ p.req THEN [NoRequest EXCEPT !.state = "freed"] ELSE r
ResetForReuse ==
    /\ p' = Fresh
    /\ r' = ReleaseRequest

(* A connection goes away: after an error, at EOF in the middle of a       *)
(* message, or idle.                                                       *)
ConnectionRetires ==
    /\ mode = "conn"
    /\ h = "idle"
    /\ ResetForReuse
    /\ mode' = "pool"
    /\ m' = NoMessage
    /\ UNCHANGED <<h, bad, faults>>

(* http_parse_request(): on failure it takes the request back first; on    *)
(* success the PHP object owns it from here.                               *)
SyncReturns ==
    /\ mode = "sync"
    /\ m.at # "idle" \/ h = "caller"
    /\ IF h = "caller"
       THEN p' = Fresh /\ r' = [NoRequest EXCEPT !.state = "freed"]
       ELSE /\ p' = Fresh
            /\ r' = IF p.req THEN [NoRequest EXCEPT !.state = "freed"] ELSE r
    /\ h' = "idle"
    /\ mode' = "pool"
    /\ m' = NoMessage
    /\ UNCHANGED <<bad, faults>>

Next ==
    \/ Acquire
    \/ OnMessageBegin
    \/ OnUrl
    \/ \E half \in 0..2 : OnHeaderField(half)
    \/ OnHeaderValue
    \/ OnHeadersComplete
    \/ OnBody
    \/ LastChunk
    \/ OnMessageComplete
    \/ SyntaxError
    \/ HandlerReads
    \/ HandlerEnds
    \/ ConnectionRetires
    \/ SyncReturns

Spec == Init /\ [][Next]_vars

----------------------------------------------------------------------------
(* What is wrong with the head of a message, stated on the whole of it.    *)

CountOf(hdrs, kinds) == Len(SelectSeq(hdrs, LAMBDA k : k \in kinds))
Lengths == DOMAIN ContentLengths

HeadFaults(line, hdrs) ==
    {e \in {"uri", "malformed", "version", "method", "value", "total", "count",
            "length", "conflict", "host"} :
       CASE e = "uri" -> line.target = "long"
         [] e = "malformed" ->
              \/ line.target = "bad"
              \/ line.target = "*" /\ line.method # "OPTIONS"
              \/ CountOf(hdrs, {"te_empty"}) > 0
              \/ CountOf(hdrs, {"ct", "ct_multi"}) > 1
         [] e = "version" -> line.minor \notin {0, 1}
         [] e = "method" -> line.method = "CONNECT"
         [] e = "value" -> \E k \in Range(hdrs) : ValueLen(k) > MaxValue
         [] e = "total" -> FoldLeft(LAMBDA a, k : a + ValueLen(k), 0, hdrs) > MaxTotal
         [] e = "count" -> Len(hdrs) > MaxCount
         [] e = "length" -> CountOf(hdrs, {"cl_bad"}) > 0
         [] e = "conflict" ->
              \/ Cardinality(Range(hdrs) \cap Lengths) > 1
              \/ Range(hdrs) \cap Lengths # {} /\ CountOf(hdrs, {"te"}) > 0
         [] e = "host" ->
              \/ CountOf(hdrs, {"host", "host_bad"}) > 1
              \/ CountOf(hdrs, {"host_bad"}) > 0
              \/ line.minor = 1 /\ CountOf(hdrs, {"host"}) = 0}

(* A handler, or the caller of http_parse_request(), only ever gets a      *)
(* request whose head has no fault, with the headers of its own message in *)
(* their order, however the bytes were cut and whatever the parser did     *)
(* before; once it is complete it holds, or has handed out, all of its     *)
(* body, and never more than max_body_size of a streamed one.              *)
HandedIntact ==
    h \in {"handler", "caller"} =>
        /\ HeadFaults(r.line, r.hdrs) = {}
        /\ r.headers = r.hdrs
        /\ r.streaming => r.consumed + r.queued <= MaxBody
        /\ r.complete /\ ~r.multipart =>
             r.len = (IF r.streaming THEN r.consumed + r.queued ELSE r.body)

(* A message fails only for a reason: a fault of its head, a body over the *)
(* limit, bytes llhttp or the multipart parser refuse, a shed request or   *)
(* memory that ran out. What an earlier header or message left in the      *)
(* parser never fails a good one.                                          *)
FailsForCause ==
    m.at = "failed" /\ p.err \notin {"ok", "shed", "oom", "syntax"} =>
        \/ HeadFaults(m.line, m.hdrs) # {}
        \/ p.err = "body" /\ (m.len > MaxBody \/ r.cl > MaxBody)
        \/ p.err = "malformed" /\ "ct_multi" \in Range(m.hdrs)

(* A live request has exactly one owner, the parser or the one it was      *)
(* handed to, through errors before and after the dispatch, refused        *)
(* spawns, connections that retire in the middle of a message and reuse of *)
(* the parser; and no callback follows the parser's pointer to a request   *)
(* that was freed.                                                         *)
RequestOwnedOnce ==
    /\ ~bad
    /\ r.state = "live" <=> ((p.owns /\ p.req) \/ h # "idle")
    /\ ~(p.owns /\ p.req /\ h # "idle")

(* Together: good requests, and only they, reach one owner each, intact.   *)
RequestsSound == HandedIntact /\ FailsForCause /\ RequestOwnedOnce
============================================================================
