------------------------------ MODULE TopicHub ------------------------------
(* The WebSocket topic hub (src/src/websocket/topic_hub.c): the slot table of  *)
(* worker mailboxes, the fan-out of a message to the other workers, the        *)
(* reliable send with its per-worker retry queue, and the scatter/gather       *)
(* subscriber count.  Topics themselves live in each worker's tree; here the   *)
(* interest filter's answer about a slot is any set of slots.                  *)
(*                                                                             *)
(* A worker thread runs its coroutines, its timer and its mailbox drain one at *)
(* a time.  `admin` is held over a whole fan-out, and over a whole tick of the *)
(* retry timer; a consumer takes commands out of its own mailbox without it,   *)
(* so the tick is a walk of one step per parked entry.  Posts of one fan-out   *)
(* or of one entry go to different mailboxes: they are one step.               *)
EXTENDS Integers, Sequences, FiniteSets, FiniteSetsExt

CONSTANTS
    Workers,   \* threads that attach to the hub
    Slots,     \* 0 .. TOPIC_HUB_MAX_WORKERS - 1
    BoxCap,    \* TOPIC_HUB_MAILBOX_CAPACITY
    QueueMax,  \* setWsPublishRetryQueueMax
    Messages,  \* bound: messages published or sent
    Queries,   \* bound: subscriber counts asked
    MaxAttach, \* bound: attachments in all
    None

(* What a tick of the retry timer carries from one entry to the next.          *)
Walks == [by : Workers, at : Nat \ {0}, resolved : SUBSET Messages, late : SUBSET Messages,
          delivered : Int, gone : Int, expired : Int]

HubAssumption == /\ Slots \in SUBSET Nat /\ IsFiniteSet(Slots) /\ IsFiniteSet(Workers)
                 /\ None \notin Workers /\ None \notin Walks

VARIABLES
    inbox,   \* hub->inbox: the worker whose mailbox is published in a slot
    gen,     \* hub->gen
    local,   \* the thread's ws_local_t: its slot and generation
    phase,   \* "out", "up", or "leaving" (inside topic_hub_detach)
    box,     \* each worker's mailbox
    queue,   \* local->retry_head .. retry_tail
    armed,   \* local->retry_timer_armed
    walk,    \* the tick in progress, which holds admin, or None
    entry,   \* the retry_entry_t of a message
    sender,  \* the coroutine that sends a message
    refs,    \* refcount of a message's payload
    query,   \* the ws_query_t of a count
    stats    \* the retry counters of topic_hub_stats_t

slotTable == <<inbox, gen, local, phase>>
retries == <<queue, armed, walk, entry>>
vars == <<slotTable, box, retries, sender, refs, query, stats>>

NoEntry == [pending |-> {}, refcount |-> 0, waiter |-> FALSE, abandoned |-> FALSE,
            shutdown |-> FALSE, late |-> FALSE]
NoQuery == [state |-> "idle", by |-> None, to |-> None, pending |-> 0,
            abandoned |-> FALSE, refcount |-> 0]

Init ==
    /\ inbox = [s \in Slots |-> None] /\ gen = [s \in Slots |-> 0]
    /\ local = [w \in Workers |-> None] /\ phase = [w \in Workers |-> "out"]
    /\ box = [w \in Workers |-> <<>>]
    /\ queue = [w \in Workers |-> <<>>] /\ armed = [w \in Workers |-> FALSE]
    /\ walk = None
    /\ entry = [m \in Messages |-> NoEntry]
    /\ sender = [m \in Messages |-> [state |-> "idle", by |-> None]]
    /\ refs = [m \in Messages |-> 0]
    /\ query = [q \in Queries |-> NoQuery]
    /\ stats = [queued |-> 0, delivered |-> 0, expired |-> 0, gone |-> 0, shutdown |-> 0]

-----------------------------------------------------------------------------
(* A thread inside its tick, or inside detach, runs nothing else; and the tick *)
(* keeps `admin` from every other thread between its steps.                    *)
Free(w) == walk # None => walk.by # w
Runs(w) == Free(w) /\ phase[w] # "leaving"
Admin == walk = None

Target(s) == [slot |-> s, gen |-> gen[s]]

(* topic_hub_post_locked: whether the slot's mailbox takes a command, and the  *)
(* post into all the slots of S at once.                                       *)
Accepts(s) == inbox[s] # None /\ Len(box[inbox[s]]) < BoxCap

PostTo(targets, kind, of) ==
    box' = [w \in Workers |->
              IF \E t \in targets : inbox[t.slot] = w
              THEN Append(box[w], [kind |-> kind, of |-> of,
                                   to |-> CHOOSE t \in targets : inbox[t.slot] = w])
              ELSE box[w]]

Post(S, kind, of) == PostTo({Target(s) : s \in S}, kind, of)

(* The slots a fan-out by w addresses when the filter answers `hit`.           *)
Addressed(w, hit) ==
    {s \in hit : inbox[s] # None /\ (local[w] = None \/ s # local[w].slot)}

(* A call that returned, and retry_entry_release: the last reference frees the *)
(* entry, and what is freed is forgotten.                                      *)
Over(state) == [state |-> state, by |-> None]
EntryRelease(e) == IF e.refcount = 1 THEN NoEntry ELSE [e EXCEPT !.refcount = @ - 1]

-----------------------------------------------------------------------------
(* topic_hub_attach: the first free slot, a new generation.                    *)
Attach(w) == \E s \in Slots :
    /\ Runs(w) /\ Admin /\ phase[w] = "out"
    /\ inbox[s] = None /\ \A t \in Slots : inbox[t] = None => s <= t
    /\ MapThenSumSet(LAMBDA t : gen[t], Slots) < MaxAttach
    /\ inbox' = [inbox EXCEPT ![s] = w]
    /\ gen' = [gen EXCEPT ![s] = @ + 1]
    /\ local' = [local EXCEPT ![w] = [slot |-> s, gen |-> gen[s] + 1]]
    /\ phase' = [phase EXCEPT ![w] = "up"]
    /\ UNCHANGED <<box, retries, sender, refs, query, stats>>

(* topic_hub_publish: a full mailbox drops its copy, and the base reference of *)
(* the payload is released before the call returns.                            *)
Publish(w, m, hit) ==
    LET landed == {s \in Addressed(w, hit) : Accepts(s)}
    IN /\ Runs(w) /\ Admin /\ sender[m].state = "idle"
       /\ Post(landed, "publish", m)
       /\ refs' = [refs EXCEPT ![m] = Cardinality(landed)]
       /\ sender' = [sender EXCEPT ![m] = Over("done")]
       /\ UNCHANGED <<slotTable, retries, query, stats>>

(* A reliable send whose fan-out left no target full, or that cannot park: no  *)
(* attachment, the queue at its cap, or a timer that would not arm.            *)
SendAtOnce(w, m, hit, arms) ==
    LET landed == {s \in Addressed(w, hit) : Accepts(s)}
        full == Addressed(w, hit) \ landed
    IN /\ Runs(w) /\ Admin /\ sender[m].state = "idle"
       /\ \/ full = {}
          \/ local[w] = None
          \/ Len(queue[w]) >= QueueMax
          \/ ~armed[w] /\ ~arms
       /\ Post(landed, "publish", m)
       /\ refs' = [refs EXCEPT ![m] = Cardinality(landed)]
       /\ sender' = [sender EXCEPT ![m] = Over("done")]
       /\ UNCHANGED <<slotTable, retries, query, stats>>

(* retry_entry_new: a blocking send() keeps a reference of its own.            *)
NewEntry(full, blocking) ==
    [pending |-> {Target(s) : s \in full}, refcount |-> IF blocking THEN 2 ELSE 1,
     waiter |-> blocking, abandoned |-> FALSE, shutdown |-> FALSE, late |-> FALSE]

(* topic_hub_retry_arm starts the timer unless it runs; topic_hub_retry_enqueue*)
(* appends an entry whose timer runs (else it takes the entry back: above).    *)
ArmTimer(w) == armed' = [armed EXCEPT ![w] = TRUE]

Enqueue(w, m) == queue' = [queue EXCEPT ![w] = Append(@, m)] /\ ArmTimer(w)

(* A reliable send that parks its full targets; the entry takes over the base  *)
(* reference of the payload.  topic_hub_send then suspends, try_send returns.  *)
Park(w, m, hit, blocking) ==
    LET landed == {s \in Addressed(w, hit) : Accepts(s)}
        full == Addressed(w, hit) \ landed
    IN /\ Runs(w) /\ Admin /\ sender[m].state = "idle"
       /\ full # {} /\ local[w] # None /\ Len(queue[w]) < QueueMax
       /\ Post(landed, "publish", m)
       /\ refs' = [refs EXCEPT ![m] = Cardinality(landed) + 1]
       /\ entry' = [entry EXCEPT ![m] = NewEntry(full, blocking)]
       /\ Enqueue(w, m)
       /\ sender' = [sender EXCEPT ![m] =
                       IF blocking THEN [state |-> "parked", by |-> w] ELSE Over("done")]
       /\ stats' = [stats EXCEPT !.queued = @ + Cardinality(full)]
       /\ UNCHANGED <<slotTable, walk, query>>

(* ZEND_ASYNC_NOW() reaches the entry's deadline.                              *)
Deadline(m) ==
    /\ entry[m].refcount > 0 /\ ~entry[m].late
    /\ entry' = [entry EXCEPT ![m].late = TRUE]
    /\ UNCHANGED <<slotTable, box, queue, armed, walk, sender, refs, query, stats>>

(* retry_entry_finish for the entries in S: wake the coroutine unless it has   *)
(* given up, then drop the payload reference and the queue's reference.        *)
Fires(m) == entry[m].waiter /\ ~entry[m].abandoned

(* Mutant: the sender is not told that the hub went down. *)
FinishIgnoresShutdown(S, down) ==
    /\ entry' = [m \in Messages |->
                   IF m \in S
                   THEN EntryRelease([entry[m] EXCEPT !.waiter = FALSE])
                   ELSE entry[m]]
    /\ refs' = [m \in Messages |-> IF m \in S THEN refs[m] - 1 ELSE refs[m]]
    /\ sender' = [m \in Messages |->
                    IF m \in S /\ Fires(m)
                    THEN [sender[m] EXCEPT !.state = "woken"] ELSE sender[m]]

Finish(S, down) ==
    /\ entry' = [m \in Messages |->
                   IF m \in S
                   THEN EntryRelease([entry[m] EXCEPT !.waiter = @ /\ ~Fires(m),
                                                      !.shutdown = @ \/ down])
                   ELSE entry[m]]
    /\ refs' = [m \in Messages |-> IF m \in S THEN refs[m] - 1 ELSE refs[m]]
    /\ sender' = [m \in Messages |->
                    IF m \in S /\ Fires(m)
                    THEN [sender[m] EXCEPT !.state = "woken"] ELSE sender[m]]

(* topic_hub_retry_drain: the timer fires and the walk takes admin, ...        *)
Tick(w) ==
    /\ Runs(w) /\ Admin /\ armed[w]
    /\ walk' = [by |-> w, at |-> 1, resolved |-> {},
                late |-> {m \in Messages : entry[m].late},
                delivered |-> 0, gone |-> 0, expired |-> 0]
    /\ UNCHANGED <<slotTable, box, queue, armed, entry, sender, refs, query, stats>>

(* Mutant: a successor in the slot is taken for the worker that left. *)
IsGoneByInbox(t) == inbox[t.slot] = None

(* ... resolves the pending targets of one entry after the other: gone with    *)
(* its worker, posted, or still full, ...                                      *)
IsGone(t) == inbox[t.slot] = None \/ gen[t.slot] # t.gen

Unlink(s, i) == SubSeq(s, 1, i - 1) \o SubSeq(s, i + 1, Len(s))

TickEntry ==
    LET w == walk.by
        m == queue[w][walk.at]
        pending == entry[m].pending
        gone == {t \in pending : IsGone(t)}
        landed == {t \in pending \ gone : Accepts(t.slot)}
        kept == pending \ (gone \cup landed)
        done == kept = {} \/ m \in walk.late
    IN /\ ~Admin /\ walk.at <= Len(queue[w])
       /\ PostTo(landed, "publish", m)
       /\ refs' = [refs EXCEPT ![m] = @ + Cardinality(landed)]
       /\ entry' = [entry EXCEPT ![m].pending = kept]
       /\ queue' = [queue EXCEPT ![w] = IF done THEN Unlink(@, walk.at) ELSE @]
       /\ walk' = [walk EXCEPT !.at = IF done THEN @ ELSE @ + 1,
                               !.resolved = IF done THEN @ \cup {m} ELSE @,
                               !.delivered = @ + Cardinality(landed),
                               !.gone = @ + Cardinality(gone),
                               !.expired = @ + IF done THEN Cardinality(kept) ELSE 0]
       /\ UNCHANGED <<slotTable, armed, sender, query, stats>>

(* ... and, with admin released, finishes the resolved entries, charges the    *)
(* counters and pauses the timer of an empty queue.                            *)
TickEnd ==
    LET w == walk.by
    IN /\ ~Admin /\ walk.at > Len(queue[w])
       /\ walk' = None
       /\ Finish(walk.resolved, FALSE)
       /\ stats' = [stats EXCEPT !.delivered = @ + walk.delivered, !.gone = @ + walk.gone,
                                 !.expired = @ + walk.expired]
       /\ armed' = [armed EXCEPT ![w] = @ /\ queue[w] # <<>>]
       /\ UNCHANGED <<slotTable, box, queue, query>>

(* topic_hub_send after its suspension: read the outcome from the entry (a     *)
(* timeout told from success and shutdown), give it up, dispose the event,     *)
(* drop the reference.                                                         *)
Outcome(e) == IF ~e.shutdown /\ e.pending # {} THEN "expired" ELSE "done"

Settle(m, state) ==
    /\ Runs(sender[m].by)
    /\ entry' = [entry EXCEPT ![m] = EntryRelease([@ EXCEPT !.abandoned = TRUE,
                                                            !.waiter = FALSE])]
    /\ sender' = [sender EXCEPT ![m] = Over(state)]
    /\ UNCHANGED <<slotTable, box, queue, armed, walk, refs, query, stats>>

Resume(m) == sender[m].state = "woken" /\ Settle(m, Outcome(entry[m]))

(* Mutant: a cancellation resumes the coroutine while its entry is still queued. *)
CancelKeepsWaiter(m) ==
    /\ sender[m].state = "parked" /\ Runs(sender[m].by)
    /\ entry' = [entry EXCEPT ![m] = EntryRelease(@)]
    /\ sender' = [sender EXCEPT ![m] = Over("done")]
    /\ UNCHANGED <<slotTable, box, queue, armed, walk, refs, query, stats>>

Cancel(m) == sender[m].state = "parked" /\ Settle(m, "done")

-----------------------------------------------------------------------------
(* The targets that the entries of S still wait for.                           *)
PendingOf(S) == UNION {{m} \X entry[m].pending : m \in S}

(* topic_hub_retry_teardown: stop and dispose the timer, finish every parked   *)
(* entry with a shutdown outcome.                                              *)
Teardown(w) ==
    /\ Finish(Range(queue[w]), TRUE)
    /\ queue' = [queue EXCEPT ![w] = <<>>] /\ armed' = [armed EXCEPT ![w] = FALSE]
    /\ stats' = [stats EXCEPT !.shutdown = @ + Cardinality(PendingOf(Range(queue[w])))]

(* topic_hub_detach: retire the slot under admin, then tear the retry queue    *)
(* down; the mailbox is drained next.                                          *)
Detach(w) ==
    /\ Runs(w) /\ Admin /\ phase[w] = "up"
    /\ inbox' = [inbox EXCEPT ![local[w].slot] = None]
    /\ phase' = [phase EXCEPT ![w] = "leaving"]
    /\ Teardown(w)
    /\ UNCHANGED <<gen, local, box, walk, query>>

(* The end of topic_hub_detach, once its drain has emptied the mailbox.        *)
Leave(w) ==
    /\ phase[w] = "leaving" /\ box[w] = <<>>
    /\ local' = [local EXCEPT ![w] = None] /\ phase' = [phase EXCEPT ![w] = "out"]
    /\ UNCHANGED <<inbox, gen, box, retries, sender, refs, query, stats>>

-----------------------------------------------------------------------------
(* topic_hub_drain, one command at a time: on the loop, or inside detach.      *)
Pops(w, kind) ==
    /\ Free(w) /\ phase[w] # "out" /\ box[w] # <<>> /\ Head(box[w]).kind = kind

DrainPublish(w) ==
    /\ Pops(w, "publish")
    /\ box' = [box EXCEPT ![w] = Tail(@)]
    /\ refs' = [refs EXCEPT ![Head(box[w]).of] = @ - 1]
    /\ UNCHANGED <<slotTable, retries, sender, query, stats>>

(* topic_hub_answer_count: the query's reference travels on with the reply, or *)
(* is released when the asker's attachment is gone or its mailbox full.        *)
Reaches(t) == gen[t.slot] = t.gen /\ Accepts(t.slot)

DrainCount(w) ==
    LET q == Head(box[w]).of
        t == query[q].to
        popped == [box EXCEPT ![w] = Tail(@)]
    IN /\ Pops(w, "count") /\ Admin
       /\ IF Reaches(t)
          THEN /\ box' = [popped EXCEPT ![inbox[t.slot]] =
                            Append(@, [kind |-> "reply", of |-> q, to |-> t])]
               /\ UNCHANGED query
          ELSE /\ box' = popped
               /\ query' = [query EXCEPT ![q].refcount = @ - 1]
       /\ UNCHANGED <<slotTable, retries, sender, refs, stats>>

(* ws_query_settle; the last answer fires the asker's event.                   *)
DrainReply(w) ==
    LET q == Head(box[w]).of
    IN /\ Pops(w, "reply")
       /\ box' = [box EXCEPT ![w] = Tail(@)]
       /\ query' = [query EXCEPT ![q].refcount = @ - 1,
                                 ![q].pending = IF query[q].abandoned THEN @ ELSE @ - 1,
                                 ![q].state = IF ~query[q].abandoned /\ query[q].pending = 1
                                              THEN "woken" ELSE @]
       /\ UNCHANGED <<slotTable, retries, sender, refs, stats>>

(* topic_hub_count up to its suspension.                                       *)
Count(w, q, hit) ==
    LET landed == {s \in Addressed(w, hit) : Accepts(s)}
        n == Cardinality(landed)
    IN /\ Runs(w) /\ Admin /\ phase[w] = "up" /\ query[q].state = "idle"
       /\ Post(landed, "count", q)
       /\ query' = [query EXCEPT ![q] =
                      IF n = 0 THEN [NoQuery EXCEPT !.state = "returned"]
                      ELSE [state |-> "asking", by |-> w, to |-> local[w], pending |-> n,
                            abandoned |-> FALSE, refcount |-> n + 1]]
       /\ UNCHANGED <<slotTable, retries, sender, refs, stats>>

(* ... and from its resumption, by the last answer, the timeout or a           *)
(* cancellation.                                                               *)
CountReturns(q) ==
    /\ query[q].state \in {"asking", "woken"} /\ Runs(query[q].by)
    /\ query' = [query EXCEPT ![q].state = "returned", ![q].abandoned = TRUE,
                              ![q].by = None, ![q].refcount = @ - 1]
    /\ UNCHANGED <<slotTable, box, retries, sender, refs, stats>>

-----------------------------------------------------------------------------
Sends(w) ==
    \E m \in Messages, hit \in SUBSET Slots :
        \/ Publish(w, m, hit)
        \/ \E arms \in BOOLEAN : SendAtOnce(w, m, hit, arms)
        \/ \E blocking \in BOOLEAN : Park(w, m, hit, blocking)

Drain(w) == DrainPublish(w) \/ DrainCount(w) \/ DrainReply(w)

Next ==
    \/ \E w \in Workers :
         \/ Attach(w) \/ Detach(w) \/ Leave(w) \/ Tick(w)
         \/ Sends(w) \/ Drain(w)
         \/ \E q \in Queries, hit \in SUBSET Slots : Count(w, q, hit)
    \/ \E m \in Messages : Deadline(m) \/ Resume(m) \/ Cancel(m)
    \/ \E q \in Queries : CountReturns(q)
    \/ TickEntry \/ TickEnd

Spec == Init /\ [][Next]_vars

-----------------------------------------------------------------------------
(* The commands of a kind about x in the mailboxes B, by mailbox and place.    *)
Copies(B, kind, x) == {p \in UNION {{w} \X DOMAIN B[w] : w \in Workers} :
                         B[p[1]][p[2]].kind = kind /\ B[p[1]][p[2]].of = x}
AllCopies(kind, x) == Cardinality(Copies(box, kind, x))
Queued(m) == \E w \in Workers : m \in Range(queue[w])
Owned(m) == Queued(m) \/ (~Admin /\ m \in walk.resolved)
Bit(b) == IF b THEN 1 ELSE 0

(* Every reference count of the hub equals its holders: a payload's copies in  *)
(* mailboxes and the entry that owns it, an entry's queue and sleeping sender, *)
(* a query's commands in flight and its asker.  Nothing is freed under a       *)
(* reader and no rotation of the pool leaks.                                   *)
RefsExact ==
    /\ \A m \in Messages :
         /\ refs[m] = AllCopies("publish", m) + Bit(Owned(m))
         /\ entry[m].refcount = Bit(Owned(m)) + Bit(sender[m].state \in {"parked", "woken"})
    /\ \A q \in Queries :
         query[q].refcount = AllCopies("count", q) + AllCopies("reply", q)
                             + Bit(query[q].state \in {"asking", "woken"})

(* A command lies in the mailbox of the very attachment it was addressed to:   *)
(* no retry and no answer reaches a worker that reuses the slot.               *)
NoMisdelivery ==
    \A w \in Workers : \A i \in DOMAIN box[w] : box[w][i].to = local[w]

(* Every target ever parked is accounted for once: delivered, expired, gone,   *)
(* lost to a shutdown, or still pending in a queue.                            *)
RetryAccounting ==
    LET pending == Cardinality(PendingOf({m \in Messages : Queued(m)}))
        walked == IF Admin THEN 0 ELSE walk.delivered + walk.gone + walk.expired
    IN stats.queued = stats.delivered + stats.expired + stats.gone + stats.shutdown
                      + walked + pending

(* An event that may still be fired belongs to a suspended coroutine: neither  *)
(* the drainer nor a late answer fires one its owner has disposed.             *)
FiresOnlySleepers ==
    /\ \A m \in Messages : Owned(m) /\ Fires(m) => sender[m].state = "parked"
    /\ \A q \in Queries : AllCopies("reply", q) > 0 /\ ~query[q].abandoned
                          => query[q].state = "asking"

(* A suspended send() has no timeout of its own: its entry, with its event     *)
(* still to be fired, waits in its worker's queue or among the resolved ones   *)
(* of its tick, and as long as an entry waits the worker's timer runs, so a    *)
(* tick is coming that will end it.                                            *)
ParkedHasTick ==
    /\ \A w \in Workers : queue[w] # <<>> => armed[w] /\ phase[w] = "up"
    /\ \A m \in Messages : sender[m].state = "parked" =>
         /\ Fires(m)
         /\ \/ m \in Range(queue[sender[m].by])
            \/ ~Admin /\ walk.by = sender[m].by /\ m \in walk.resolved

(* What a suspended sender or asker relies on: its entry is held, counted, and *)
(* woken once by a timer that runs.                                            *)
SendersHeld == RefsExact /\ RetryAccounting /\ FiresOnlySleepers /\ ParkedHasTick

(* send() reports a timeout only when the deadline has passed, not when its    *)
(* worker detached under it.                                                   *)
NoFalseTimeout ==
    [][\A m \in Messages : sender'[m].state = "expired" /\ sender[m].state # "expired"
                           => entry[m].late]_vars
=============================================================================
