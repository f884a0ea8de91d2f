---------------------------- MODULE Http2Static ----------------------------
(***************************************************************************)
(* The file pump of the HTTP/2 transport (http2_static_response.c): every  *)
(* static or sendFile() response of a worker reads its file in chunks into *)
(* the ring of its stream, and all of them draw on one memory budget of    *)
(* the worker.  A pump that finds the budget exhausted parks on a list;    *)
(* the release of a chunk, by the drain of a stream, by the close of one   *)
(* or by a failed read, wakes the whole list once the charge falls below   *)
(* four fifths of the budget.                                              *)
(*                                                                         *)
(* One callback of the loop is one action.  Its effect is a composition of *)
(* operators on the worker's record w, each named after a C function.      *)
(***************************************************************************)
EXTENDS Integers, Sequences, FiniteSetsExt, SequencesExt

CONSTANTS
    Streams,     \* the static responses of the worker
    Conns,       \* its connections
    ConnOf,      \* the connection of a stream
    BodyLength,  \* the length of the file a stream serves
    Budget,      \* h2_static_budget_bytes
    TargetMin,   \* H2_STATIC_TARGET_MIN
    TargetMax,   \* H2_STATIC_TARGET_MAX
    ChunkMax,    \* H2_STATIC_CHUNK_MAX
    ConnSoft,    \* H2_STATIC_CONN_BUDGET_SOFT
    RingSlots,   \* H2_STATIC_RING_SLOTS
    Window,      \* the initial flow-control window of a stream
    MaxFaults    \* bound: failed reads, refused submissions, short reads

VARIABLE w       \* the worker: its counters, its list and its streams

vars == <<w>>

(* One stream and its h2_static_state_t. *)
IdleStream ==
    [phase |-> "idle",    \* idle, open, closing (state freed), gone
     read |-> 0,          \* bytes_read
     pending |-> 0,       \* ZSTR_LEN(pending_chunk); 0 stands for NULL
     reading |-> FALSE,   \* read_in_flight
     ring |-> <<>>,       \* chunk_queue: the lengths of the chunks
     off |-> 0,           \* chunk_read_offset
     eof |-> FALSE,       \* eof_reached, and streaming_ended of the stream
     status |-> 0,
     deferred |-> FALSE,  \* nghttp2 holds the data provider as deferred
     win |-> Window,
     sent |-> 0,
     whole |-> FALSE,     \* history: the client got all of the file
     short |-> FALSE,     \* history: a read found less than the file promised
     rst |-> FALSE,       \* history: the client or the session closed it early
     hit |-> FALSE,       \* history: a submission of this pump was refused
     done |-> <<>>,       \* the statuses on_done was called with
     fair |-> TRUE]       \* history: a 0 among them meant a complete answer

Init ==
    w = [inflight |-> 0, conn |-> [c \in Conns |-> 0], throttled |-> FALSE,
         list |-> <<>>, active |-> 0, emit |-> [c \in Conns |-> FALSE],
         st |-> [i \in Streams |-> IdleStream],
         fault |-> "none", faults |-> 0, ok |-> TRUE,
         lost |-> [c \in Conns |-> 0]]

Sum(s) == FoldLeft(LAMBDA a, b : a + b, 0, s)
Clamp(x, lo, hi) == IF x < lo THEN lo ELSE IF x > hi THEN hi ELSE x

----------------------------------------------------------------------------
(* The read-ahead target and the conditions for another read. *)

TargetBytes(s) ==
    Clamp(Budget \div (IF s.active > 0 THEN s.active ELSE 1), TargetMin, TargetMax)

RingBytes(x) == Sum(x.ring) - x.off

WantMoreReads(s, i) ==
    LET x == s.st[i]
        outstanding == RingBytes(x) + (IF x.reading THEN x.pending ELSE 0)
    IN /\ x.phase = "open"
       /\ Len(x.ring) < RingSlots
       /\ IF s.conn[ConnOf[i]] >= ConnSoft
          THEN outstanding = 0
          ELSE outstanding < TargetBytes(s)

MarkEnded(s, i) == [s EXCEPT !.st[i].eof = TRUE]

AccountAlloc(s, i, n) ==
    [s EXCEPT !.inflight = @ + n, !.conn[ConnOf[i]] = @ + n]

(* A debit below four fifths of the budget wakes the parked pumps. Kick is *)
(* throttle_kick_all, or the identity inside it: kick_in_progress.         *)
AccountDebit(s, i, n, Kick(_)) ==
    LET t == [s EXCEPT !.inflight = @ - n, !.conn[ConnOf[i]] = @ - n]
    IN IF t.throttled /\ t.inflight * 5 < Budget * 4
       THEN Kick([t EXCEPT !.throttled = FALSE])
       ELSE t

ThrottlePark(s, i) ==
    IF i \in Range(s.list)
    THEN s
    ELSE [s EXCEPT !.list = <<i>> \o @, !.throttled = TRUE]

ThrottleUnlink(s, i) == [s EXCEPT !.list = SelectSeq(@, LAMBDA j : j # i)]

(* How many bytes the next read asks for. *)
ReadSize(s, i) ==
    Min({TargetBytes(s) \div 2, ChunkMax, BodyLength[i] - s.st[i].read,
         Budget - s.inflight})

(* fit_to_arena refuses near the memory limit; IO_READ may refuse as well, *)
(* after the chunk was charged.                                            *)
SubmitRead(s, i, Kick(_)) ==
    LET want == ReadSize(s, i)
        refused == [s EXCEPT !.fault = "none", !.ok = FALSE, !.st[i].hit = TRUE]
    IN IF BodyLength[i] = s.st[i].read
       THEN [MarkEnded(s, i) EXCEPT !.ok = TRUE]
       ELSE IF s.inflight >= Budget
       THEN [ThrottlePark(s, i) EXCEPT !.ok = TRUE]
       ELSE CASE s.fault = "arena" -> refused
              [] s.fault = "io" ->
                   [AccountDebit(AccountAlloc(refused, i, want), i, want, Kick)
                      EXCEPT !.ok = FALSE]
              [] OTHER ->
                   [AccountAlloc(s, i, want) EXCEPT
                      !.ok = TRUE, !.st[i].pending = want, !.st[i].reading = TRUE]

(* Detach the whole list, then let each of its pumps try again; a refusal  *)
(* is ignored here.                                                        *)
Retry(s, i) ==
    LET x == s.st[i]
        Same(t) == t
    IN IF x.phase = "open" /\ ~x.reading /\ ~x.eof THEN SubmitRead(s, i, Same) ELSE s
(* Mutant: only the first pump of the list tries again. *)
ThrottleKickFirst(s) ==
    IF s.list = <<>> THEN s ELSE Retry([s EXCEPT !.list = <<>>], Head(s.list))

ThrottleKickAll(s) == FoldLeft(Retry, [s EXCEPT !.list = <<>>], s.list)

Debit(s, i, n) == AccountDebit(s, i, n, ThrottleKickAll)
Submit(s, i) == SubmitRead(s, i, ThrottleKickAll)

----------------------------------------------------------------------------
(* The drain of a ring and the end of a stream. *)

(* A refused submission ends the response early, with status -1. *)
EndIfRefused(t, i) ==
    IF t.ok THEN t ELSE [MarkEnded(t, i) EXCEPT !.st[i].status = -1]
SubmitOrEnd(s, i) == EndIfRefused(Submit(s, i), i)

OnWindowOpen(s, i) ==
    LET x == s.st[i]
        t == IF ~x.reading /\ ~x.eof /\ WantMoreReads(s, i) THEN SubmitOrEnd(s, i) ELSE s
    IN IF x.phase # "open" THEN s ELSE [t EXCEPT !.emit[ConnOf[i]] = TRUE]

(* What is left of a stream whose state is freed: its ring. *)
Freed(x, status) ==
    [IdleStream EXCEPT
       !.phase = "closing", !.win = 0, !.ring = x.ring, !.off = x.off,
       !.done = Append(x.done, status),
       !.fair = status = 0 => x.whole \/ x.short \/ x.rst]

(* The state is freed: off the list, its pending chunk released, on_done   *)
(* called once.                                                            *)
Finalize(s, i, status) ==
    LET u == [ThrottleUnlink(s, i) EXCEPT !.st[i] = Freed(@, status)]
        v == IF s.st[i].pending > 0 THEN Debit(u, i, s.st[i].pending) ELSE u
    IN [v EXCEPT !.active = @ - 1]

OnStreamClose(s, i, clean) ==
    Finalize(s, i, IF clean /\ s.st[i].status = 0 THEN 0 ELSE -1)

(* One chunk, or what the window admits of it, leaves the ring. *)
WalkChunk(s, i) ==
    LET x == s.st[i]
        take == Min({x.ring[1] - x.off, x.win})
        t == [s EXCEPT !.st[i].off = @ + take, !.st[i].win = @ - take,
                       !.st[i].sent = @ + take,
                       !.st[i].whole = x.sent + take = BodyLength[i]]
    IN IF x.phase # "open" \/ x.ring = <<>> \/ x.win = 0
       THEN s
       ELSE IF x.off + take < x.ring[1]
       THEN t
       ELSE OnWindowOpen(Debit([t EXCEPT !.st[i].ring = Tail(@), !.st[i].off = 0],
                               i, x.ring[1]), i)

(* nghttp2 pulls the data provider until it blocks, defers or ends. *)
Walked(t, i) ==
    CASE t.st[i].ring # <<>> -> t
      [] t.st[i].ring = <<>> /\ t.st[i].eof -> OnStreamClose(t, i, TRUE)
      [] OTHER -> [t EXCEPT !.st[i].deferred = TRUE]

Drain(s, i) ==
    IF s.st[i].phase # "open" \/ s.st[i].deferred
    THEN s
    ELSE Walked(FoldLeft(LAMBDA a, k : WalkChunk(a, i), s,
                         [k \in 1..(RingSlots + 1) |-> k]), i)

Emit(s, c) ==
    FoldLeft(Drain, s, SetToSeq({i \in Streams : ConnOf[i] = c}))

(* resume_data and a synchronous emit. *)
Kick(s, i) ==
    IF s.st[i].phase = "open"
    THEN Emit([s EXCEPT !.st[i].deferred = FALSE], ConnOf[i])
    ELSE s

----------------------------------------------------------------------------
(* Actions. Fault(f) arms at most one refused submission per action. *)

Done(s) == w' = [s EXCEPT !.fault = "none", !.ok = TRUE]

Armed(f) ==
    IF f = "none" THEN w ELSE [w EXCEPT !.fault = f, !.faults = @ + 1]
Faults == IF w.faults < MaxFaults THEN {"none", "arena", "io"} ELSE {"none"}

(* http2_stream_send_static_response, from the creation of the state on. *)
SendStatic(i) ==
    \E f \in Faults :
        LET s == [Armed(f) EXCEPT !.active = @ + 1, !.st[i].phase = "open"]
        IN /\ w.st[i].phase = "idle"
           /\ Done(Emit(SubmitOrEnd(s, i), ConnOf[i]))

(* A callback that cannot be allocated or a response nghttp2 refuses. *)
SendStaticFails(i) ==
    /\ w.st[i].phase = "idle"
    /\ w.faults < MaxFaults
    /\ Done(Finalize([w EXCEPT !.active = @ + 1, !.faults = @ + 1,
                               !.st[i].phase = "open"], i, -1))

(* The read completed with n bytes; 0 is the end of a truncated file. *)
Refilled(t, i) ==
    IF t.st[i].read >= BodyLength[i]
    THEN MarkEnded(t, i)
    ELSE IF WantMoreReads(t, i) THEN SubmitOrEnd(t, i) ELSE t

ReadBytes(s, i, n) ==
    LET x == s.st[i]
    IN Refilled([s EXCEPT !.st[i].reading = FALSE, !.st[i].pending = 0,
                          !.st[i].read = @ + n, !.st[i].ring = Append(@, n),
                          !.st[i].short = @ \/ n < x.pending,
                          !.lost[ConnOf[i]] = @ + (x.pending - n)], i)

ReadEnds(s, i, status) ==
    LET t == [s EXCEPT !.st[i].reading = FALSE, !.st[i].pending = 0]
    IN MarkEnded([Debit(t, i, s.st[i].pending) EXCEPT
                    !.st[i].short = @ \/ status = 0,
                    !.st[i].status = status], i)

(* How a read may end: whole, short, or at the end of the file or failing. *)
ReadOutcomes(i) ==
    {ReadBytes(Armed(f), i, w.st[i].pending) : f \in Faults}
    \cup {ReadBytes([w EXCEPT !.faults = @ + 1], i, n) :
             n \in IF w.faults < MaxFaults THEN 1..(w.st[i].pending - 1) ELSE {}}
    \cup {ReadEnds([w EXCEPT !.faults = Min({@ + 1, MaxFaults})], i, status) :
             status \in IF w.faults < MaxFaults \/ w.st[i].short THEN {0, -1} ELSE {}}

Dispatch(i) ==
    /\ w.st[i].reading
    /\ \E s \in ReadOutcomes(i) : Done(Kick(s, i))

(* WINDOW_UPDATE on the stream. The client never grants more than the file. *)
WindowUpdate(i) ==
    \E f \in Faults :
        LET x == w.st[i] IN
        /\ x.phase = "open"
        /\ x.win + x.sent < BodyLength[i]
        /\ Done(OnWindowOpen([Armed(f) EXCEPT !.st[i].win = @ + 1], i))

EmitMicrotask(c) ==
    \E f \in Faults :
        /\ w.emit[c]
        /\ Done(Emit([Armed(f) EXCEPT !.emit[c] = FALSE], c))

(* RST_STREAM of the client, or of the session on its way down. *)
StreamClose(i) ==
    /\ w.st[i].phase = "open"
    /\ \E clean \in BOOLEAN : Done(OnStreamClose([w EXCEPT !.st[i].rst = TRUE], i, clean))

(* The last reference to the stream goes: http2_stream_release. *)
StreamRelease(i) ==
    LET freed == [w EXCEPT !.st[i].phase = "gone", !.st[i].ring = <<>>, !.st[i].off = 0]
    IN /\ w.st[i].phase = "closing"
       /\ Done(FoldLeft(LAMBDA s, n : Debit(s, i, n), freed, w.st[i].ring))

Next ==
    \/ \E i \in Streams :
          \/ SendStatic(i)
          \/ SendStaticFails(i)
          \/ Dispatch(i)
          \/ WindowUpdate(i)
          \/ StreamClose(i)
          \/ StreamRelease(i)
    \/ \E c \in Conns : EmitMicrotask(c)

Spec == Init /\ [][Next]_vars

----------------------------------------------------------------------------
(* What the worker really holds for a connection. *)
Held(c) ==
    MapThenSumSet(LAMBDA i : w.st[i].pending + Sum(w.st[i].ring),
                  {i \in Streams : ConnOf[i] = c})

(* The charge of a connection is what its streams hold, plus what short    *)
(* reads of them lost for good; the charges add up to the worker's, which  *)
(* never exceeds the budget.  A release can then never take a counter      *)
(* below zero, whichever of drain, close, finalize and failed read frees   *)
(* the chunk (the two assertions of h2_static_account_debit).              *)
ChargesExact ==
    /\ \A c \in Conns : w.conn[c] = Held(c) + w.lost[c]
    /\ w.inflight = MapThenSumSet(LAMBDA c : w.conn[c], Conns)
    /\ w.inflight <= Budget

(* A pump with nothing to send, nothing being read and file left to read   *)
(* is on the throttled list while the budget is throttled, so that the     *)
(* next release finds it: nobody else would wake it ("it would just stop   *)
(* reading with no wake source").  A pump whose submission was refused is  *)
(* excused: throttle_kick_all ignores the refusal.                         *)
PumpHasWaker ==
    /\ w.list # <<>> => w.throttled /\ w.inflight * 5 >= Budget * 4
    /\ \A i \in Streams :
         LET x == w.st[i] IN
         x.phase = "open" /\ x.ring = <<>> /\ ~x.reading /\ ~x.eof /\ ~x.hit
           => i \in Range(w.list)

(* on_done is called exactly once for every response, when its state is    *)
(* freed, and with status 0 only for a body that was sent whole, was cut   *)
(* short by the file itself, or that the client closed without an error.   *)
DoneOnce ==
    \A i \in Streams :
        LET x == w.st[i] IN
        /\ Len(x.done) = (IF x.phase \in {"closing", "gone"} THEN 1 ELSE 0)
        /\ x.fair

(* Together: no byte, wake-up or completion of a file answer is lost or     *)
(* counted twice.                                                           *)
PumpsSound == ChargesExact /\ PumpHasWaker /\ DoneOnce
============================================================================
