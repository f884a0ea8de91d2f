------------------------------- MODULE LogSink -------------------------------
(* One sink of the asynchronous log (src/src/log/http_log.c, "The log thread"): *)
(* producers format a record and copy it into a ring of their own; the log      *)
(* thread empties the rings into one write at a time; a stopping thread asks    *)
(* for a last drain, waits for it if it is a coroutine, and joins the log       *)
(* thread when no other sink needs it.                                          *)
(*                                                                              *)
(* Bytes are abstracted to units: a record of n units, after a unit of framing  *)
(* in the framed and datagram modes.  Formatting, severity and category filters *)
(* and the drop counters are left out.  The kick commands and the close command *)
(* come from different threads, so the mailbox orders them either way.          *)
EXTENDS Integers, Sequences, SequencesExt

CONSTANTS
    Producers,  \* threads that emit records
    Sizes,      \* units of a record
    Modes,      \* http_log_write_mode_t values the sink may be opened with
    RingCap,    \* HTTP_LOG_RING_CAP
    CtrMod,     \* 2^32: head and tail are free-running counters
    HighWater,  \* HTTP_LOG_FLUSH_HIGH_WATER
    ChunkMax,   \* HTTP_LOG_WRITE_CHUNK_MAX
    MaxRecs,    \* bound: records emitted
    MaxLives,   \* bound: times the sink is started
    None

RingGeometry ==
    /\ RingCap \in Nat \ {0} /\ CtrMod % RingCap = 0 /\ CtrMod > RingCap
    /\ HighWater <= RingCap /\ RingCap <= ChunkMax

VARIABLES
    sink,    \* [life, mode, timer, closing, late] of the writer, live or not
    live,    \* whether the http_log_writer_cb_t is allocated
    rings,   \* cb->producers, oldest first
    cache,   \* tls_rings of a producer: its ring and the life it belongs to
    recs,    \* records emitted
    prod,    \* where a producer is inside http_log_sink_write
    kicked,  \* cb->kick_pending
    kicks,   \* kick commands in the log thread's mailbox
    log,     \* where the log thread is
    wire,    \* the writes of a live writer, with their outcome
    stop,    \* where the stopping thread is inside http_log_sink_stop
    awaits,  \* whether it is a coroutine, which waits for the trigger
    fired,   \* the trigger
    lock,    \* g_log_lock is held across a join of the log thread
    others   \* other sinks hold references to the log thread

vars == <<sink, live, rings, cache, recs, prod, kicked, kicks, log, wire,
          stop, awaits, fired, lock, others>>

Idle == [at |-> "idle", left |-> 0, room |-> 0, out |-> <<>>]
NoCache == [p \in Producers |-> [life |-> 0, ring |-> 0]]
Quiet == [at |-> "idle", ring |-> 0, life |-> 0, units |-> <<>>, used |-> 0]

Init ==
    /\ sink = [life |-> 0, mode |-> None, timer |-> FALSE, closing |-> FALSE, late |-> FALSE]
    /\ live = FALSE /\ rings = <<>>
    /\ cache = NoCache /\ recs = 0
    /\ prod = [p \in Producers |-> Quiet]
    /\ kicked = FALSE /\ kicks = 0
    /\ log = [Idle EXCEPT !.at = "gone"] /\ wire = <<>>
    /\ stop = "done" /\ awaits = FALSE /\ fired = FALSE /\ lock = FALSE
    /\ others \in BOOLEAN

-----------------------------------------------------------------------------
(* Mutant: the difference of the masked indexes, which cannot tell a full ring *)
(* from an empty one.                                                          *)
UsedMasked(r) == (r.head - r.tail) % RingCap

(* ring_used: free-running counters, so the difference is the fill level.      *)
Used(r) == (r.head - r.tail) % CtrMod

(* ring_put and ring_copy_out: the mask turns a counter into an index.         *)
Put(r, units) ==
    [r EXCEPT !.buf = [i \in 0 .. RingCap - 1 |->
                         LET k == (i - r.head) % RingCap
                         IN IF k < Len(units) THEN units[k + 1] ELSE @[i]],
              !.head = (@ + Len(units)) % CtrMod,
              !.put = @ \o units]

CopyOut(r, from, n) == [k \in 1 .. n |-> r.buf[(r.tail + from + k - 1) % RingCap]]
Advance(r, n) == [r EXCEPT !.tail = (@ + n) % CtrMod]

(* http_log_sink_write's framing: a prefix in every mode but the plain stream. *)
Framing == IF sink.mode = "stream" THEN 0 ELSE 1
Record(rec, n) == [k \in 1 .. n + Framing |->
                     [rec |-> rec, part |-> k - Framing, of |-> n]]

(* cb->active_req: the last write, until its outcome is known.                 *)
Flying(writes) == writes # <<>> /\ Last(writes).state = "flying"
Outcome(state) == [wire EXCEPT ![Len(wire)].state = state]
Pending == \E i \in DOMAIN rings : Used(rings[i]) > 0

-----------------------------------------------------------------------------
(* http_log_sink_start and log_sink_open_op: the writer is born on the log     *)
(* thread, which is started for the first sink; its flush timer is best        *)
(* effort.  A failed start changes nothing.                                    *)
Start(mode, timer) ==
    /\ stop = "done" /\ ~live /\ ~lock
    /\ log.at \in {"idle", "gone"} /\ sink.life < MaxLives
    /\ sink' = [life |-> sink.life + 1, mode |-> mode, timer |-> timer,
                closing |-> FALSE, late |-> FALSE]
    /\ live' = TRUE /\ rings' = <<>> /\ wire' = <<>>
    /\ kicked' = FALSE /\ log' = Idle
    /\ kicks' = IF log.at = "gone" THEN 0 ELSE kicks
    /\ stop' = "off" /\ fired' = FALSE
    /\ UNCHANGED <<cache, recs, prod, awaits, lock, others>>

(* log_prod_ring_for, and the loads at the top of log_prod_append: the cached  *)
(* ring, unless some sink was stopped since it was cached; else a new one.     *)
(* (The generation is compared at the next lookup; nothing else reads a cache, *)
(* so a stop empties the caches here.)                                         *)
Emit(p, n) ==
    LET hit == cache[p].ring # 0
        new == [head |-> 0, tail |-> 0, buf |-> [i \in 0 .. RingCap - 1 |-> None],
                put |-> <<>>]
        ring == IF hit THEN cache[p].ring ELSE Len(rings) + 1
        life == IF hit THEN cache[p].life ELSE sink.life
    IN /\ stop = "off" /\ prod[p].at = "idle" /\ recs < MaxRecs
       /\ recs' = recs + 1
       /\ rings' = IF hit THEN rings ELSE Append(rings, new)
       /\ cache' = [cache EXCEPT ![p] = [life |-> life, ring |-> ring]]
       /\ prod' = [prod EXCEPT ![p] =
                     [at |-> "copy", ring |-> ring, life |-> life,
                      units |-> Record(recs + 1, n),
                      used |-> IF hit /\ ring \in DOMAIN rings THEN Used(rings[ring]) ELSE 0]]
       /\ UNCHANGED <<sink, live, kicked, kicks, log, wire, stop, awaits,
                      fired, lock, others>>

(* log_prod_append: a record that does not fit is dropped whole; the store of  *)
(* head publishes it; past the high-water mark the log thread is kicked.       *)
Publish(p) ==
    LET c == prod[p]
        fits == Len(c.units) <= RingCap - c.used
        high == c.used + Len(c.units) >= HighWater
    IN /\ c.at = "copy" /\ c.ring \in DOMAIN rings
       /\ rings' = IF fits THEN [rings EXCEPT ![c.ring] = Put(@, c.units)] ELSE rings
       /\ prod' = [prod EXCEPT ![p] = IF fits /\ high THEN [Quiet EXCEPT !.at = "kick"]
                                      ELSE Quiet]
       /\ UNCHANGED <<sink, live, cache, recs, kicked, kicks, log, wire, stop,
                      awaits, fired, lock, others>>

(* The exchange of kick_pending and the post of writer_kick_next; a post       *)
(* refused by a full mailbox takes the flag back in a step of its own.         *)
Kick(p, accepted) ==
    /\ prod[p].at = "kick"
    /\ kicked' = TRUE
    /\ kicks' = IF ~kicked /\ accepted THEN kicks + 1 ELSE kicks
    /\ prod' = [prod EXCEPT ![p] = IF kicked \/ accepted THEN Quiet
                                   ELSE [Quiet EXCEPT !.at = "refused"]]
    /\ UNCHANGED <<sink, live, rings, cache, recs, log, wire, stop, awaits,
                   fired, lock, others>>

Unkick(p) ==
    /\ prod[p].at = "refused"
    /\ kicked' = FALSE
    /\ prod' = [prod EXCEPT ![p] = Quiet]
    /\ UNCHANGED <<sink, live, rings, cache, recs, kicks, log, wire, stop,
                   awaits, fired, lock, others>>

-----------------------------------------------------------------------------
(* The first half of writer_teardown: the flush timer goes, a write still in   *)
(* flight is left to its cancellation, the io is closed.                       *)
CloseIo(writes) ==
    /\ log' = [Idle EXCEPT !.at = "teardown"]
    /\ wire' = IF Flying(writes) THEN Outcome("abandoned") ELSE writes
    /\ sink' = [sink EXCEPT !.timer = FALSE, !.closing = TRUE]

(* The conditions under which writer_kick_next ends in writer_teardown.        *)
DrainOver(closing, writes) ==
    closing /\ (sink.late \/ (~Flying(writes) /\ ~Pending))

(* writer_kick_next up to its copy loop, finding `closing` and `writes`.  The  *)
(* stream modes size the write before they copy.                               *)
KickNext(closing, writes) ==
    LET queued == FoldLeft(LAMBDA n, r : n + Used(r), 0, rings)
        room == IF queued > ChunkMax THEN ChunkMax ELSE queued
        over == DrainOver(closing, writes)
    IN /\ kicked' = FALSE
       /\ over => CloseIo(writes)
       /\ ~over =>
            /\ wire' = writes
            /\ sink' = [sink EXCEPT !.closing = closing]
            /\ log' = IF Flying(writes) \/ ~Pending THEN Idle
                      ELSE [at |-> "walk", left |-> Len(rings), room |-> room, out |-> <<>>]

(* writer_flush_timer_fn, a kick command, and writer_complete_cb, which chains *)
(* the next write whether this one succeeded or counts as dropped.             *)
OnLogThread == live /\ log.at = "idle"

(* Mutant: the timer only repeats a kick that is pending.                      *)
TickIfKicked ==
    /\ OnLogThread /\ sink.timer /\ kicked
    /\ KickNext(sink.closing, wire)
    /\ UNCHANGED <<live, rings, cache, recs, prod, kicks, stop, awaits, fired, lock,
                   others>>

Tick ==
    /\ OnLogThread /\ sink.timer
    /\ KickNext(sink.closing, wire)
    /\ UNCHANGED <<live, rings, cache, recs, prod, kicks, stop, awaits, fired,
                   lock, others>>

KickCommand ==
    /\ OnLogThread /\ kicks > 0
    /\ kicks' = kicks - 1
    /\ KickNext(sink.closing, wire)
    /\ UNCHANGED <<live, rings, cache, recs, prod, stop, awaits, fired, lock,
                   others>>

WriteDone ==
    /\ OnLogThread /\ Flying(wire)
    /\ KickNext(sink.closing, Outcome("over"))
    /\ UNCHANGED <<live, rings, cache, recs, prod, kicks, stop, awaits, fired,
                   lock, others>>

(* Whether the copy loop ends with ring i, of which n units were taken.        *)
LoopEnds(dgram, i, n, room) == IF dgram THEN n > 0 ELSE i = 1 \/ room = 0

(* One ring of the copy loop, newest first.  A stream takes what is queued by  *)
(* now, cut to the room left; a datagram takes one record and ends the loop.   *)
(* The loop's end submits the write, which may be refused.                     *)
TakeRing(accepted) ==
    LET i == log.left
        r == rings[i]
        dgram == sink.mode = "dgram"
        n == IF Used(r) = 0 THEN 0
             ELSE IF dgram THEN Framing + CopyOut(r, 0, 1)[1].of
             ELSE IF Used(r) > log.room THEN log.room ELSE Used(r)
        out == log.out \o (IF dgram /\ n > 0 THEN CopyOut(r, Framing, n - Framing)
                           ELSE CopyOut(r, 0, n))
        room == IF dgram THEN log.room ELSE log.room - n
        ends == LoopEnds(dgram, i, n, room)
    IN /\ log.at = "walk"
       /\ ~ends => accepted
       /\ rings' = [rings EXCEPT ![i] = Advance(r, n)]
       /\ log' = IF ends THEN Idle
                 ELSE [log EXCEPT !.left = i - 1, !.room = room, !.out = out]
       /\ wire' = IF ends
                  THEN Append(wire, [units |-> out,
                                     state |-> IF accepted THEN "flying" ELSE "refused"])
                  ELSE wire
       /\ UNCHANGED <<sink, live, cache, recs, prod, kicked, kicks, stop, awaits,
                      fired, lock, others>>

(* The second half of writer_teardown: the ring list is taken under            *)
(* g_log_lock, rings and writer are freed, the trigger fires.                  *)
FreeWriter ==
    /\ log.at = "teardown" /\ ~lock
    /\ log' = Idle /\ live' = FALSE /\ rings' = <<>> /\ wire' = <<>>
    /\ fired' = awaits
    /\ UNCHANGED <<sink, cache, recs, prod, kicked, kicks, stop, awaits, lock,
                   others>>

-----------------------------------------------------------------------------
(* Mutant: the generation is not bumped.                                       *)
StopKeepsCaches(coroutine) ==
    /\ stop = "off" /\ \A p \in Producers : prod[p].at = "idle"
    /\ awaits' = coroutine
    /\ stop' = "close"
    /\ UNCHANGED <<sink, live, rings, cache, recs, prod, kicked, kicks, log, wire,
                   fired, lock, others>>

(* http_log_sink_stop.  The server calls it when its producers have quiesced:  *)
(* the reactors are joined, and on this thread the gates are OFF first.        *)
Stop(coroutine) ==
    /\ stop = "off" /\ \A p \in Producers : prod[p].at = "idle"
    /\ cache' = NoCache
    /\ awaits' = coroutine
    /\ stop' = "close"
    /\ UNCHANGED <<sink, live, rings, recs, prod, kicked, kicks, log, wire, fired,
                   lock, others>>

(* log_sink_close_op, which reactor_pool_exec waits for.  The log thread is    *)
(* there: this sink's reference keeps it.                                      *)
CloseOp ==
    /\ stop = "close" /\ OnLogThread
    /\ KickNext(TRUE, wire)
    /\ stop' = IF awaits THEN "wait" ELSE "unref"
    /\ UNCHANGED <<live, rings, cache, recs, prod, kicks, awaits, fired, lock,
                   others>>

(* close_deadline is reached.                                                  *)
DeadlinePasses ==
    /\ live /\ sink.closing /\ ~sink.late /\ log.at # "teardown"
    /\ sink' = [sink EXCEPT !.late = TRUE]
    /\ UNCHANGED <<live, rings, cache, recs, prod, kicked, kicks, log, wire,
                   stop, awaits, fired, lock, others>>

(* The wait ends by the trigger, or by its budget: three times the deadline,   *)
(* so only when there is no flush timer to notice that the deadline passed.    *)
StopResumes ==
    /\ stop = "wait"
    /\ fired \/ (sink.late /\ ~sink.timer /\ log.at = "idle")
    /\ stop' = "unref"
    /\ UNCHANGED <<sink, live, rings, cache, recs, prod, kicked, kicks, log,
                   wire, awaits, fired, lock, others>>

(* log_thread_unref under g_log_lock: the last sink joins the log thread.      *)
Unref ==
    /\ stop = "unref" /\ ~lock
    /\ lock' = ~others
    /\ stop' = IF others THEN "done" ELSE "join"
    /\ UNCHANGED <<sink, live, rings, cache, recs, prod, kicked, kicks, log,
                   wire, awaits, fired, others>>

LogThreadLeaves ==
    /\ stop = "join" /\ log.at = "idle"
    /\ log' = [Idle EXCEPT !.at = "gone"]
    /\ UNCHANGED <<sink, live, rings, cache, recs, prod, kicked, kicks, wire,
                   stop, awaits, fired, lock, others>>

Joined ==
    /\ stop = "join" /\ log.at = "gone"
    /\ lock' = FALSE /\ stop' = "done"
    /\ UNCHANGED <<sink, live, rings, cache, recs, prod, kicked, kicks, log,
                   wire, awaits, fired, others>>

(* Another server stops a sink of its own: the generation is process-wide.     *)
OtherSinkStops ==
    /\ others
    /\ cache' = NoCache
    /\ UNCHANGED <<sink, live, rings, recs, prod, kicked, kicks, log, wire, stop,
                   awaits, fired, lock, others>>

Next ==
    \/ \E m \in Modes, t \in BOOLEAN : Start(m, t)
    \/ \E p \in Producers, n \in Sizes : Emit(p, n)
    \/ \E p \in Producers : Publish(p) \/ Unkick(p)
    \/ \E p \in Producers, a \in BOOLEAN : Kick(p, a)
    \/ Tick \/ KickCommand \/ WriteDone \/ FreeWriter
    \/ \E a \in BOOLEAN : TakeRing(a)
    \/ \E c \in BOOLEAN : Stop(c)
    \/ CloseOp \/ DeadlinePasses \/ StopResumes \/ Unref \/ LogThreadLeaves \/ Joined
    \/ OtherSinkStops

(* Threads run, the periodic timer ticks and time passes.  A write may stay in *)
(* flight for ever: the receiver owes nothing.                                 *)
Fairness ==
    /\ \A p \in Producers : WF_vars(Publish(p)) /\ WF_vars(Unkick(p))
                             /\ WF_vars(\E a \in BOOLEAN : Kick(p, a))
    /\ WF_vars(Tick) /\ WF_vars(FreeWriter)
    /\ WF_vars(\E a \in BOOLEAN : TakeRing(a))
    /\ WF_vars(CloseOp) /\ WF_vars(DeadlinePasses) /\ WF_vars(StopResumes)
    /\ WF_vars(Unref) /\ WF_vars(LogThreadLeaves) /\ WF_vars(Joined)

Spec == Init /\ [][Next]_vars /\ Fairness

-----------------------------------------------------------------------------
Flat(writes) == FlattenSeq([i \in DOMAIN writes |-> writes[i].units])
Sent(units) == IF sink.mode = "dgram" THEN SelectSeq(units, LAMBDA u : u.part > 0)
               ELSE units
Taken == Flat(wire) \o log.out

(* The free-running counters and the mask lose nothing: what was taken from a  *)
(* ring, followed by what is still in it, is what its producer published, in   *)
(* order, across any wrap of index or counter (ring_put, ring_copy_out,        *)
(* log_prod_append's fit test, writer_kick_next's tail stores).                *)
RingOrder ==
    \A i \in DOMAIN rings :
        LET r == rings[i]
            own == {r.put[k].rec : k \in DOMAIN r.put}
        IN SelectSeq(Taken, LAMBDA u : u.rec \in own) \o Sent(CopyOut(r, 0, Used(r)))
             = Sent(r.put)

(* HTTP_LOG_WRITE_DGRAM: exactly one whole record per write, its header left   *)
(* in the ring.                                                                *)
OneRecordPerDatagram ==
    sink.mode = "dgram" =>
        \A w \in Range(wire) :
            /\ w.units # <<>> /\ Len(w.units) = w.units[1].of
            /\ \A k \in DOMAIN w.units : w.units[k].rec = w.units[1].rec /\ w.units[k].part = k

(* What a sink sends is what its producers published, cut as its mode asks.   *)
RecordsIntact == RingOrder /\ OneRecordPerDatagram

(* "a stale cache entry is dropped instead of writing into a freed ring": a    *)
(* producer inside log_prod_append holds a ring of the sink's present life,    *)
(* even when a new writer has the address of an old one.                       *)
AppendsToLiveRing ==
    \A p \in Producers : prod[p].at = "copy" => (live /\ prod[p].life = sink.life)

(* The stop drains: unless its deadline passed, the io is closed over empty    *)
(* rings and no write is abandoned (log_sink_close_op, writer_kick_next).      *)
StopDrains ==
    (log.at = "teardown" /\ ~sink.late) =>
        /\ ~Pending
        /\ \A w \in Range(wire) : w.state # "abandoned"

(* A stop neither loses a record nor leaves a producer in a freed ring.        *)
StopSound == AppendsToLiveRing /\ StopDrains

(* As long as writes complete, the flush timer empties every ring: a record    *)
(* below the high-water mark, or whose kick was refused, is not stranded.      *)
Flushed ==
    []<>(~Flying(wire)) => ((Pending /\ sink.timer) ~> (~Pending \/ sink.late))

(* "capped so a wedged descriptor cannot pin the server's shutdown": a stop    *)
(* that waits for the trigger returns, with the log thread joined if it was    *)
(* the last sink, whatever the receiver does, provided the flush timer exists. *)
AwaitedStopReturns == (stop = "close" /\ awaits /\ sink.timer) ~> (stop = "done")

(* Neither a record nor a stop waits for ever.                                 *)
SinkEnds == Flushed /\ AwaitedStopReturns

(* "the log thread never sees a partial record" (log_prod_append), and a       *)
(* framed stream lets a receiver split records (http_log.h): on a stream that  *)
(* refused no write, the units of a record follow each other.                  *)
RecordsContiguous ==
    LET s == Flat(wire)
    IN (sink.mode # "dgram" /\ \A w \in Range(wire) : w.state \in {"flying", "over"}) =>
         \A k \in 1 .. Len(s) - 1 :
             \/ s[k + 1].rec = s[k].rec
             \/ s[k].part = s[k].of /\ s[k + 1].part = 1 - Framing
=============================================================================
