--------------------------- MODULE ThreadMailbox ---------------------------
(***************************************************************************)
(* The cross-thread mailbox: a bounded multi-producer single-consumer      *)
(* queue (src/core/thread_queue.cc) and the coalescing wake-up of the      *)
(* consumer's event loop (src/core/thread_mailbox.c).  A post is three     *)
(* steps of the producer's thread (reserve a slot against the cap,         *)
(* enqueue, trigger); a drain is several steps of the consumer's thread.   *)
(* The reactor_cmd_t mailbox has the same control and is covered too.      *)
(*                                                                         *)
(* moodycamel's queue keeps one FIFO sub-queue per producer and a dequeue  *)
(* visits them one by one, so an item may land behind the visit.  The      *)
(* trigger is a uv_async: a flag the loop clears before it runs the        *)
(* callback.  Both are external and modelled from their use.               *)
(***************************************************************************)
EXTENDS Integers, FiniteSets

CONSTANTS Producers,  \* the posting threads
          Capacity,   \* cap on the length counter
          Batch,      \* size of batch_buf
          MaxPosts    \* bound: posts each producer attempts

ASSUME MailboxAssumption ==
  /\ IsFiniteSet(Producers)
  /\ Capacity \in Nat \ {0}
  /\ Batch \in Nat \ {0}
  /\ MaxPosts \in Nat

VARIABLES pc,         \* producer -> where it is inside thread_mailbox_post
          seq,        \* producer -> posts attempted; <<p, seq[p]>> is its item
          count,      \* the queue's length counter
          queue,      \* items inside the queue
          pending,    \* the uv_async pending flag
          cpc,        \* where the consumer is
          unscanned,  \* sub-queues the running bulk dequeue has yet to visit
          batch,      \* the items in batch_buf
          handled,    \* items on_drain has been given
          quiesced    \* the owner has stopped every producer

vars == <<pc, seq, count, queue, pending, cpc, unscanned, batch, handled, quiesced>>
prodVars == <<pc, seq>>
consVars == <<cpc, unscanned, batch, handled, quiesced>>

Items == Producers \X (1..MaxPosts)
Item(p) == <<p, seq[p]>>

Init ==
  /\ pc = [p \in Producers |-> "idle"]
  /\ seq = [p \in Producers |-> 0]
  /\ count = 0
  /\ queue = {}
  /\ pending = FALSE
  /\ cpc = "wait"
  /\ unscanned = {}
  /\ batch = {}
  /\ handled = {}
  /\ quiesced = FALSE

-----------------------------------------------------------------------------
(* Producer: thread_mailbox_post *)

StartsPost(p) == /\ pc[p] = "idle" /\ ~quiesced /\ seq[p] < MaxPosts
                 /\ seq' = [seq EXCEPT ![p] = @ + 1]

(* cap_reserve over the bound fails the post at once. *)
Refuse(p) == /\ StartsPost(p)
             /\ count >= Capacity
             /\ UNCHANGED <<pc, count, queue, pending, consVars>>

(* Mutant: one slot too many. *)
ReservePastCap(p) == /\ StartsPost(p)
                     /\ count <= Capacity
                     /\ count' = count + 1
                     /\ pc' = [pc EXCEPT ![p] = "reserved"]
                     /\ UNCHANGED <<queue, pending, consVars>>

(* cap_reserve's compare-and-swap takes a slot. *)
Reserve(p) == /\ StartsPost(p)
              /\ count < Capacity
              /\ count' = count + 1
              /\ pc' = [pc EXCEPT ![p] = "reserved"]
              /\ UNCHANGED <<queue, pending, consVars>>

(* Mutant: a producer that reads was_empty from the counter before it signals. *)
EnqueueOnEdge(p) == /\ pc[p] = "reserved"
                    /\ queue' = queue \union {Item(p)}
                    /\ pc' = [pc EXCEPT ![p] = IF count = 1 THEN "enqueued" ELSE "idle"]
                    /\ UNCHANGED <<seq, count, pending, consVars>>

Enqueue(p) == /\ pc[p] = "reserved"
              /\ queue' = queue \union {Item(p)}
              /\ pc' = [pc EXCEPT ![p] = "enqueued"]
              /\ UNCHANGED <<seq, count, pending, consVars>>

(* try_enqueue found no spare block: the slot is given back, the post fails. *)
EnqueueFail(p) == /\ pc[p] = "reserved"
                  /\ pc' = [pc EXCEPT ![p] = "idle"]
                  /\ count' = count - 1
                  /\ UNCHANGED <<seq, queue, pending, consVars>>

(* The signal is unconditional; uv_async_send coalesces it. *)
Trigger(p) == /\ pc[p] = "enqueued"
              /\ pc' = [pc EXCEPT ![p] = "idle"]
              /\ pending' = TRUE
              /\ UNCHANGED <<seq, count, queue, consVars>>

-----------------------------------------------------------------------------
(* Consumer: mailbox_on_signal, thread_mpsc_drain, teardown *)

(* The loop clears the flag and calls mailbox_on_signal. *)
OnSignal == /\ cpc = "wait" /\ pending
            /\ pending' = FALSE
            /\ cpc' = "scan"
            /\ unscanned' = Producers
            /\ UNCHANGED <<prodVars, count, queue, batch, handled, quiesced>>

QueueOf(p) == {i \in queue : i[1] = p}
Room == Batch - Cardinality(batch)

(* try_dequeue_bulk visits p's sub-queue and takes its oldest items. *)
ScanProducer(p) ==
  /\ cpc = "scan" /\ p \in unscanned /\ Room > 0
  /\ \E T \in SUBSET QueueOf(p) :
        /\ \/ Cardinality(T) = Room
           \/ T = QueueOf(p) /\ Cardinality(T) <= Room
        /\ \A i \in T, j \in QueueOf(p) \ T : i[2] < j[2]
        /\ batch' = batch \union T
        /\ queue' = queue \ T
  /\ unscanned' = unscanned \ {p}
  /\ UNCHANGED <<prodVars, count, pending, cpc, handled, quiesced>>

(* try_dequeue_bulk returns; zero items end the drain loop. *)
Dequeued == /\ cpc = "scan" /\ (unscanned = {} \/ Room = 0)
            /\ cpc' = IF batch = {} THEN "wait" ELSE "sub"
            /\ UNCHANGED <<prodVars, count, queue, pending, unscanned, batch, handled, quiesced>>

(* count.fetch_sub(n), after the items have left the queue. *)
Subtract == /\ cpc = "sub"
            /\ count' = count - Cardinality(batch)
            /\ cpc' = "run"
            /\ UNCHANGED <<prodVars, queue, pending, unscanned, batch, handled, quiesced>>

(* Mutant: the consumer stops after one batch. *)
OnDrainOnce == /\ cpc = "run"
               /\ handled' = handled \union batch
               /\ batch' = {}
               /\ cpc' = "wait"
               /\ UNCHANGED <<prodVars, count, queue, pending, unscanned, quiesced>>

(* on_drain gets the batch and the loop goes round for another one. *)
OnDrain == /\ cpc = "run"
           /\ handled' = handled \union batch
           /\ batch' = {}
           /\ cpc' = "scan"
           /\ unscanned' = Producers
           /\ UNCHANGED <<prodVars, count, queue, pending, quiesced>>

(* thread_mailbox_drain_pending: the same loop, run by the owner once its
   producers have stopped. *)
DrainPending == /\ cpc = "wait" /\ ~quiesced
                /\ \A p \in Producers : pc[p] = "idle"
                /\ quiesced' = TRUE
                /\ cpc' = "scan"
                /\ unscanned' = Producers
                /\ UNCHANGED <<prodVars, count, queue, pending, batch, handled>>

(* thread_mailbox_free: with producers stopped, drained or not. *)
Free == /\ cpc = "wait"
        /\ \A p \in Producers : pc[p] = "idle"
        /\ quiesced' = TRUE
        /\ cpc' = "freed"
        /\ queue' = {}
        /\ pending' = FALSE
        /\ UNCHANGED <<prodVars, count, unscanned, batch, handled>>

-----------------------------------------------------------------------------
PostStep(p) == Refuse(p) \/ Reserve(p) \/ Enqueue(p) \/ EnqueueFail(p) \/ Trigger(p)
DrainStep == \/ OnSignal \/ Dequeued \/ Subtract \/ OnDrain
             \/ \E p \in Producers : ScanProducer(p)

Next == DrainStep \/ DrainPending \/ Free \/ \E p \in Producers : PostStep(p)

Spec == Init /\ [][Next]_vars

(* A thread inside a call goes on running, and the loop serves its events. *)
Fairness ==
  /\ WF_vars(DrainStep)
  /\ \A p \in Producers : WF_vars(Enqueue(p) \/ EnqueueFail(p) \/ Trigger(p))

FairSpec == Spec /\ Fairness

-----------------------------------------------------------------------------
TypeOK ==
  /\ pc \in [Producers -> {"idle", "reserved", "enqueued"}]
  /\ seq \in [Producers -> 0..MaxPosts]
  /\ count \in Nat
  /\ queue \in SUBSET Items
  /\ pending \in BOOLEAN
  /\ cpc \in {"wait", "scan", "sub", "run", "freed"}
  /\ unscanned \in SUBSET Producers
  /\ batch \in SUBSET Items
  /\ handled \in SUBSET Items
  /\ quiesced \in BOOLEAN

(* The items that occupy a slot of the cap: reserved, queued, or dequeued by a
   drain that has not lowered the counter yet. *)
Reserved == {i \in Items : pc[i[1]] = "reserved" /\ i = Item(i[1])}
Holding == Reserved \union queue \union (IF cpc \in {"scan", "sub"} THEN batch ELSE {})

(* The length counter is exact at every step of every thread: it counts the
   items that occupy a slot, so it neither underflows in fetch_sub nor exceeds
   the cap although it is lowered after the items have left the queue. *)
CountExact == cpc # "freed" => /\ count = Cardinality(Holding)
                               /\ count <= Capacity

(* No lost wake-up: an item in the queue of a sleeping consumer has a signal
   pending, or a producer that is about to raise one (the race that made
   thread_mailbox_post signal unconditionally). *)
NoStrandedItem == cpc = "wait" /\ queue # {} =>
                     pending \/ \E p \in Producers : pc[p] = "enqueued"

(* A dequeue that has passed a sub-queue holding items is not the last one:
   the signal for what it missed is still to be served. *)
MissedItemsSignalled ==
  cpc = "scan" =>
     \A p \in Producers \ unscanned :
        QueueOf(p) # {} => pending \/ pc[p] = "enqueued" \/ batch # {}

(* Every item a post accepted reaches on_drain unless the mailbox is freed. *)
Delivery == \A i \in Items : i \in queue ~> i \in handled \/ cpc = "freed"

Channel == INSTANCE BoundedChannel WITH
             Limit <- Capacity + Batch, buffered <- queue \union batch,
             delivered <- handled, closed <- (cpc = "freed")

(* The mailbox is a channel that takes and hands over each item once; what can
   wait in it is the cap plus the batch the consumer is working on. *)
ImplementsChannel == Channel!Spec
=============================================================================
