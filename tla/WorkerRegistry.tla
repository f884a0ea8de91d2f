--------------------------- MODULE WorkerRegistry ---------------------------
(* The forward path of the reactor/worker split: the table of worker inboxes   *)
(* (src/src/core/worker_registry.c, worker_inbox.c), the dispatch of a parsed  *)
(* HTTP/3 request to a worker (http3_dispatch.c), and the retirement of a      *)
(* worker's inbox behind a fence on every reactor (http_server_class.c).       *)
(*                                                                             *)
(* A dispatch runs on a reactor's loop without yielding to it, but a worker    *)
(* thread may retire and free an inbox between any two of its steps.  A scan   *)
(* of the table is one step: what it returns is a pointer, held over the next  *)
(* steps, exactly as long as a slower scan would hold its best candidate.      *)
(* Requests are counted, not named; one connection per reactor.                *)
EXTENDS Integers, Sequences, FiniteSets

CONSTANTS
    Workers,   \* worker clones over the pool's life, replacements included
    Reactors,  \* reactor ids 0 .. n_reactors - 1
    Capacity,  \* slots of the registry
    InboxCap,  \* WORKER_INBOX_CAPACITY
    Spill,     \* H3_WORKER_SPILL_DEPTH
    BoxCap,    \* reactor mailbox capacity
    Patience,  \* sleeps the retirement grants the residual requests
    MaxReqs,   \* bound: requests the reactors parse
    MaxOther,  \* bound: commands other senders post to the reactors
    None

RegistryAssumption ==
    /\ Reactors \in SUBSET Nat /\ IsFiniteSet(Reactors)
    /\ Capacity \in Nat /\ Patience \in Nat \ {0}
    /\ None \notin Workers /\ "other" \notin Workers

SlotIds   == 0 .. Capacity - 1
nReactors == Cardinality(Reactors)
Other   == "other"

VARIABLES
    slots,     \* registry->slots
    wpc,       \* where each worker clone is
    inbox,     \* requests in each worker's mailbox
    remaining, \* fence->remaining
    todo,      \* reactors the retiring worker has still to post its fence to
    skipped,   \* history: reactors whose mailbox refused the fence
    spins,     \* sleeps spent on the residual mailbox
    box,       \* reactor mailboxes: fences (named by their worker) and Other
    held,      \* the inbox pointer a reactor's dispatch holds
    rpc,       \* where the dispatch is
    home,      \* c->worker_slot of the reactor's connection, -1 unassigned
    reqs,      \* requests parsed so far
    others     \* commands posted by other senders so far

fence == <<remaining, todo, skipped, spins>>
table == <<slots, wpc>>
dispatch == <<held, rpc, home, reqs>>
vars == <<table, inbox, fence, box, dispatch, others>>

(* wpc: "fencing": retired from the table, posting fences; "waiting": on the   *)
(* fence; "residual": sleeping out the mailbox; "retired": stop and scope      *)
(* drain; "freed": inbox freed after retirement; "lost": freed without it;     *)
(* "refused": the table was full.                                              *)
Init ==
    /\ slots = [i \in SlotIds |-> None]
    /\ wpc = [w \in Workers |-> "new"] /\ inbox = [w \in Workers |-> 0]
    /\ remaining = [w \in Workers |-> 0] /\ todo = [w \in Workers |-> {}]
    /\ skipped = [w \in Workers |-> {}] /\ spins = [w \in Workers |-> 0]
    /\ box = [r \in Reactors |-> <<>>]
    /\ held = [r \in Reactors |-> None] /\ rpc = [r \in Reactors |-> "idle"]
    /\ home = [r \in Reactors |-> -1] /\ reqs = 0
    /\ others = 0

-----------------------------------------------------------------------------
(* worker_registry_least_busy: a least deep published slot among those the     *)
(* reactor owns (every n-th) or among all.  The rotating cursor decides        *)
(* between equals, so any of them may be returned.                             *)
Owned(r) == {i \in SlotIds : nReactors = 1 \/ i % nReactors = r % nReactors}

LeastBusy(S) ==
    {i \in S : slots[i] # None /\ \A j \in S : slots[j] # None => inbox[slots[i]] <= inbox[slots[j]]}

(* worker_registry_add and _retire, each under the registry's mutex.           *)
Add(w) == \E i \in SlotIds :
    /\ slots[i] = None /\ \A j \in SlotIds : slots[j] = None => i <= j
    /\ slots' = [slots EXCEPT ![i] = w]

Unpublish(w) == slots' = [i \in SlotIds |-> IF slots[i] = w THEN None ELSE slots[i]]

-----------------------------------------------------------------------------
(* What a dispatch does with the memory of a freed inbox is undefined; of the  *)
(* outcomes the model follows the mildest, a request that vanishes.            *)
Allocated(w) == wpc[w] \notin {"freed", "lost"}

(* http3_stream_dispatch_to_worker, first part: the connection's home worker,  *)
(* else the least busy owned one, else the least busy of all, which becomes    *)
(* the home.  With none published the stream stays undispatched.               *)
Pick(r) ==
    LET own == LeastBusy(Owned(r))
        any == IF own # {} THEN own ELSE LeastBusy(SlotIds)
        at  == IF home[r] >= 0 /\ slots[home[r]] # None THEN {home[r]} ELSE any
    IN  /\ rpc[r] = "idle" /\ reqs < MaxReqs
        /\ reqs' = reqs + 1
        /\ IF at = {}
           THEN UNCHANGED <<held, rpc, home>>
           ELSE \E i \in at :
                   /\ held' = [held EXCEPT ![r] = slots[i]]
                   /\ home' = [home EXCEPT ![r] = i]
                   /\ rpc' = [rpc EXCEPT ![r] = "picked"]
        /\ UNCHANGED <<table, inbox, fence, box, others>>

(* Second part: a home at the spill depth gives way to the least busy owned    *)
(* worker, or to the least busy of all when that one is as deep.               *)
SpillOver(r) ==
    LET own == LeastBusy(Owned(r))
        any == LeastBusy(SlotIds)
        alt == IF (\E i \in own : inbox[slots[i]] < Spill) \/ any = {} THEN own ELSE any
    IN  /\ rpc[r] = "picked"
        /\ IF Allocated(held[r]) /\ inbox[held[r]] >= Spill /\ alt # {}
           THEN \E i \in alt : held' = [held EXCEPT ![r] = slots[i]]
           ELSE UNCHANGED held
        /\ rpc' = [rpc EXCEPT ![r] = "post"]
        /\ UNCHANGED <<table, inbox, fence, box, home, reqs, others>>

(* worker_inbox_post.  A full inbox undoes the dispatch and the stream is      *)
(* reset with REQUEST_REJECTED.                                                *)
Post(r) ==
    /\ rpc[r] = "post"
    /\ IF Allocated(held[r]) /\ inbox[held[r]] < InboxCap
       THEN inbox' = [inbox EXCEPT ![held[r]] = @ + 1]
       ELSE UNCHANGED inbox
    /\ held' = [held EXCEPT ![r] = None] /\ rpc' = [rpc EXCEPT ![r] = "idle"]
    /\ UNCHANGED <<table, fence, box, home, reqs, others>>

(* reactor_pool_post_exec by other senders (responses, slot releases).         *)
PostOther(r) ==
    /\ others < MaxOther /\ Len(box[r]) < BoxCap
    /\ others' = others + 1
    /\ box' = [box EXCEPT ![r] = Append(@, Other)]
    /\ UNCHANGED <<table, inbox, fence, dispatch>>

(* http_server_inbox_fence_cb, on the reactor that runs it: the decrement that *)
(* reaches zero fires the retiring worker's trigger.                           *)
RunCommand(r) ==
    /\ rpc[r] = "idle" /\ box[r] # <<>>
    /\ box' = [box EXCEPT ![r] = Tail(@)]
    /\ remaining' = IF Head(box[r]) = Other THEN remaining
                    ELSE [remaining EXCEPT ![Head(box[r])] = @ - 1]
    /\ UNCHANGED <<table, inbox, todo, skipped, spins, dispatch, others>>

-----------------------------------------------------------------------------
(* http_server_worker_inbox_up: the clone publishes its inbox, or frees it     *)
(* when the table is full.                                                     *)
Up(w) ==
    /\ wpc[w] = "new"
    /\ IF \E i \in SlotIds : slots[i] = None
       THEN Add(w) /\ wpc' = [wpc EXCEPT ![w] = "up"]
       ELSE wpc' = [wpc EXCEPT ![w] = "refused"] /\ UNCHANGED slots
    /\ UNCHANGED <<inbox, fence, box, dispatch, others>>

(* worker_inbox_drain, on the worker's loop, in every suspension of the worker *)
(* until the inbox is freed.                                                   *)
DrainInbox(w) ==
    /\ wpc[w] \in {"up", "waiting", "residual", "retired"} /\ inbox[w] > 0
    /\ inbox' = [inbox EXCEPT ![w] = @ - 1]
    /\ UNCHANGED <<table, fence, box, dispatch, others>>

(* Mutant: the fences are posted with the slot still published. *)
RetireLate(w) ==
    /\ wpc[w] = "up"
    /\ wpc' = [wpc EXCEPT ![w] = "fencing"]
    /\ remaining' = [remaining EXCEPT ![w] = nReactors]
    /\ todo' = [todo EXCEPT ![w] = Reactors]
    /\ UNCHANGED <<slots, skipped, spins, inbox, box, dispatch, others>>

(* http_server_worker_inbox_retire: unpublish, then post the fence to each     *)
(* reactor in turn.                                                            *)
Retire(w) ==
    /\ wpc[w] = "up"
    /\ Unpublish(w)
    /\ wpc' = [wpc EXCEPT ![w] = "fencing"]
    /\ remaining' = [remaining EXCEPT ![w] = nReactors]
    /\ todo' = [todo EXCEPT ![w] = Reactors]
    /\ UNCHANGED <<skipped, spins, inbox, box, dispatch, others>>

(* Mutant: the decrement of a refused fence is forgotten. *)
PostFenceForgets(w) == \E r \in todo[w] :
    /\ wpc[w] = "fencing" /\ \A q \in todo[w] : r <= q
    /\ todo' = [todo EXCEPT ![w] = @ \ {r}]
    /\ IF Len(box[r]) < BoxCap
       THEN box' = [box EXCEPT ![r] = Append(@, w)] /\ UNCHANGED <<remaining, skipped>>
       ELSE skipped' = [skipped EXCEPT ![w] = @ \cup {r}] /\ UNCHANGED <<box, remaining>>
    /\ UNCHANGED <<table, spins, inbox, dispatch, others>>

(* A fence the mailbox refuses is undeliverable: the worker takes over its     *)
(* decrement and goes on without it.                                           *)
PostFence(w) == \E r \in todo[w] :
    /\ wpc[w] = "fencing" /\ \A q \in todo[w] : r <= q
    /\ todo' = [todo EXCEPT ![w] = @ \ {r}]
    /\ IF Len(box[r]) < BoxCap
       THEN box' = [box EXCEPT ![r] = Append(@, w)] /\ UNCHANGED <<remaining, skipped>>
       ELSE /\ skipped' = [skipped EXCEPT ![w] = @ \cup {r}]
            /\ remaining' = [remaining EXCEPT ![w] = @ - 1] /\ UNCHANGED box
    /\ UNCHANGED <<table, spins, inbox, dispatch, others>>

Suspend(w) ==
    /\ wpc[w] = "fencing" /\ todo[w] = {}
    /\ wpc' = [wpc EXCEPT ![w] = "waiting"]
    /\ UNCHANGED <<slots, inbox, fence, box, dispatch, others>>

(* The trigger resumes the worker, which frees the fence.                      *)
FencePassed(w) ==
    /\ wpc[w] = "waiting" /\ remaining[w] = 0
    /\ wpc' = [wpc EXCEPT ![w] = "residual"]
    /\ UNCHANGED <<slots, inbox, fence, box, dispatch, others>>

(* Residual requests: each sleep is at least one pass of the worker's loop,    *)
(* which drains what is queued; after Patience sleeps it goes on regardless.   *)
SleepMs(w) ==
    /\ wpc[w] = "residual" /\ inbox[w] > 0 /\ spins[w] < Patience
    /\ spins' = [spins EXCEPT ![w] = @ + 1]
    /\ inbox' = [inbox EXCEPT ![w] = 0]
    /\ UNCHANGED <<table, remaining, todo, skipped, box, dispatch, others>>

GoOn(w) ==
    /\ wpc[w] = "residual" /\ (inbox[w] = 0 \/ spins[w] = Patience)
    /\ wpc' = [wpc EXCEPT ![w] = "retired"]
    /\ UNCHANGED <<slots, inbox, fence, box, dispatch, others>>

(* http_server_free: worker_inbox_free, which discards what is queued.  A      *)
(* clone whose start() failed after the publication, or ended by its own       *)
(* stop(), a cancellation or a bailout, is freed without being retired.        *)
Free(w) ==
    /\ wpc[w] \in {"retired", "up"}
    /\ wpc' = [wpc EXCEPT ![w] = IF @ = "retired" THEN "freed" ELSE "lost"]
    /\ UNCHANGED <<slots, inbox, fence, box, dispatch, others>>

-----------------------------------------------------------------------------
ReactorStep(r) == Pick(r) \/ SpillOver(r) \/ Post(r) \/ RunCommand(r)

RetireStep(w) == PostFence(w) \/ Suspend(w) \/ FencePassed(w) \/ SleepMs(w) \/ GoOn(w)

Next ==
    \/ \E r \in Reactors : ReactorStep(r) \/ PostOther(r)
    \/ \E w \in Workers : Up(w) \/ DrainInbox(w) \/ Retire(w) \/ RetireStep(w) \/ Free(w)

Spec == Init /\ [][Next]_vars

(* Reactor loops run their dispatches and mailboxes, a retiring worker goes on.*)
Fairness == /\ \A r \in Reactors : WF_vars(SpillOver(r) \/ Post(r)) /\ WF_vars(RunCommand(r))
            /\ \A w \in Workers : WF_vars(RetireStep(w))

FairSpec == Spec /\ Fairness

(* A retired inbox is freed only when no reactor that was fenced still holds   *)
(* it: a dispatch that loaded the pointer before the retirement has finished   *)
(* when its reactor runs the fence behind it.                                  *)
FreeQuiesced ==
    \A w \in Workers, r \in Reactors :
        wpc[w] = "freed" /\ held[r] = w => r \in skipped[w]

(* The fence block outlives every copy of it in a reactor's mailbox, also when *)
(* some mailboxes refused it and the worker took over their decrements.        *)
FenceOutlivesPosts ==
    \A w \in Workers, r \in Reactors :
        (\E k \in 1 .. Len(box[r]) : box[r][k] = w) => wpc[w] \in {"fencing", "waiting"}

(* When every reactor was fenced, no request accepted by an inbox is discarded *)
(* with it.                                                                    *)
ResidualServed ==
    \A w \in Workers : wpc[w] = "freed" /\ skipped[w] = {} => inbox[w] = 0

(* A retirement frees nothing that is still used and discards nothing.         *)
RetireSound == FreeQuiesced /\ FenceOutlivesPosts /\ ResidualServed

(* The retirement of an inbox ends, with full mailboxes too.                   *)
RetireEnds == \A w \in Workers : wpc[w] = "fencing" ~> wpc[w] \in {"retired", "freed"}

(* "Producers (reactors) have quiesced by the time a worker is freed": a freed *)
(* inbox is neither in the table nor in a reactor's hands.                     *)
FreedUnreachable ==
    \A w \in Workers : wpc[w] \in {"freed", "lost"} =>
        (\A i \in SlotIds : slots[i] # w) /\ (\A r \in Reactors : held[r] # w)
=============================================================================
