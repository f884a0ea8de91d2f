---------------------------- MODULE ReactorPool ----------------------------
(***************************************************************************)
(* The transport reactor pool (src/core/reactor_pool.c): reactor threads   *)
(* that run an event loop fed by a command mailbox, callers that post work *)
(* to them or block until a function has run there, and the parent that    *)
(* brings the pool up and stops it with a STOP command sent through the    *)
(* same mailboxes.                                                         *)
(*                                                                         *)
(* A mailbox is the bounded channel ThreadMailbox is proved to implement:  *)
(* a set of commands, FIFO for each sender, drained in batches until it is *)
(* empty.  destroy() must not race a post (reactor_pool.h); a caller that  *)
(* has posted and waits in exec may still be there when it starts.         *)
(***************************************************************************)
EXTENDS Integers, FiniteSets

CONSTANTS Reactors,   \* the pool's threads, 1..n
          Callers,    \* threads that use the pool
          Parent,     \* the thread that owns it
          Capacity,   \* mailbox capacity
          Batch,      \* REACTOR_MAILBOX_BATCH
          MaxCalls    \* bound: calls each caller makes

PoolAssumption ==
  /\ Reactors \in SUBSET Nat /\ IsFiniteSet(Reactors)
  /\ Batch \in Nat \ {0} /\ Capacity \in Nat /\ Capacity >= Batch
  /\ Parent \notin Callers

VARIABLES phase,     \* reactor -> "unborn", "SPAWN", "RUN", "DONE"
          stopping,  \* reactor -> the loop has been asked to leave
          box,       \* reactor -> commands in its mailbox
          batch,     \* reactor -> commands drained and not yet run
          draining,  \* reactor -> inside the mailbox callback
          ran,       \* commands whose fn has been called
          call,      \* caller -> the command it is busy with
          cpc,       \* caller -> where it is in the call
          calls,     \* caller -> calls made
          result,    \* commands of finished calls -> what the call returned
          done,      \* EXEC commands whose done flag is set
          ppc        \* the parent: "create", "up", "stop", "await", "gone"

rvars == <<phase, stopping, box, batch, draining, ran, done>>
cvars == <<call, cpc, calls, result>>
vars == <<rvars, cvars, ppc>>

Kinds == {"EXEC", "POST", "NOOP"}
NoCmd == [from |-> Parent, n |-> 0, kind |-> "NOOP", to |-> 0]
StopCmd(r) == [from |-> Parent, n |-> 1, kind |-> "STOP", to |-> r]

Empty ==
  /\ phase = [r \in Reactors |-> "unborn"]
  /\ stopping = [r \in Reactors |-> FALSE]
  /\ box = [r \in Reactors |-> {}]
  /\ batch = [r \in Reactors |-> {}]
  /\ draining = [r \in Reactors |-> FALSE]
  /\ ran = {} /\ done = {}
  /\ call = [c \in Callers |-> NoCmd]
  /\ cpc = [c \in Callers |-> "idle"]
  /\ calls = [c \in Callers |-> 0]
  /\ result = {}

Init == Empty /\ ppc = "create"

-----------------------------------------------------------------------------
(* reactor_loop_handler and reactor_drain *)

(* The mailbox is created and published before phase RUN is stored. *)
LoopEnter(r) == /\ phase[r] = "SPAWN"
                /\ phase' = [phase EXCEPT ![r] = "RUN"]
                /\ UNCHANGED <<stopping, box, batch, draining, ran, done, cvars, ppc>>

(* thread_cmd_mailbox_create failed. *)
LoopFail(r) == /\ phase[r] = "SPAWN"
               /\ phase' = [phase EXCEPT ![r] = "DONE"]
               /\ UNCHANGED <<stopping, box, batch, draining, ran, done, cvars, ppc>>

Oldest(S) == {m \in S : \A k \in S : k.from = m.from => m.n <= k.n}

(* One bulk dequeue of the mailbox callback; the callback starts on a signal
   and goes round until a dequeue finds nothing. *)
Drain(r) ==
  /\ phase[r] = "RUN" /\ batch[r] = {} /\ box[r] # {}
  /\ draining[r] \/ ~stopping[r]
  /\ \E B \in SUBSET box[r] :
        /\ B # {} /\ Cardinality(B) <= Batch
        /\ B = box[r] \/ Cardinality(B) = Batch
        /\ \A m \in B, k \in box[r] \ B : m.from = k.from => m.n < k.n
        /\ batch' = [batch EXCEPT ![r] = B]
        /\ box' = [box EXCEPT ![r] = @ \ B]
  /\ draining' = [draining EXCEPT ![r] = TRUE]
  /\ UNCHANGED <<phase, stopping, ran, done, cvars, ppc>>

DrainedEmpty(r) == /\ phase[r] = "RUN" /\ draining[r]
                   /\ batch[r] = {} /\ box[r] = {}
                   /\ draining' = [draining EXCEPT ![r] = FALSE]
                   /\ UNCHANGED <<phase, stopping, box, batch, ran, done, cvars, ppc>>

(* Mutant: the done flag is stored although the function has not been called. *)
RunAcksEarly(r) == \E m \in Oldest(batch[r]) :
  IF m.kind = "EXEC" /\ m \notin done
  THEN done' = done \union {m} /\ UNCHANGED <<phase, stopping, box, batch, draining, ran, cvars, ppc>>
  ELSE /\ batch' = [batch EXCEPT ![r] = @ \ {m}]
       /\ stopping' = [stopping EXCEPT ![r] = @ \/ m.kind = "STOP"]
       /\ ran' = IF m.kind \in {"EXEC", "POST"} THEN ran \union {m} ELSE ran
       /\ UNCHANGED <<phase, box, draining, done, cvars, ppc>>

(* reactor_drain takes the next command of its batch.  STOP only raises the
   flag: the rest of the batch, and later batches, still run. *)
RunCmd(r) == \E m \in Oldest(batch[r]) :
  /\ batch' = [batch EXCEPT ![r] = @ \ {m}]
  /\ stopping' = [stopping EXCEPT ![r] = @ \/ m.kind = "STOP"]
  /\ ran' = IF m.kind \in {"EXEC", "POST"} THEN ran \union {m} ELSE ran
  /\ done' = IF m.kind = "EXEC" THEN done \union {m} ELSE done
  /\ UNCHANGED <<phase, box, draining, cvars, ppc>>

(* The loop leaves once it has seen STOP: the mailbox goes with whatever is in
   it, and only then is phase DONE stored. *)
LoopLeave(r) == /\ phase[r] = "RUN" /\ stopping[r] /\ ~draining[r]
                /\ box' = [box EXCEPT ![r] = {}]
                /\ phase' = [phase EXCEPT ![r] = "DONE"]
                /\ UNCHANGED <<stopping, batch, draining, ran, done, cvars, ppc>>

ReactorStep(r) == LoopEnter(r) \/ LoopFail(r) \/ Drain(r) \/ DrainedEmpty(r)
                  \/ RunCmd(r) \/ LoopLeave(r)
-----------------------------------------------------------------------------
(* reactor_pool_post, reactor_pool_post_exec, reactor_pool_exec *)

Return(c, m, v) == /\ result' = result \union {[cmd |-> m, ok |-> v]}
                   /\ cpc' = [cpc EXCEPT ![c] = "idle"]
                   /\ call' = [call EXCEPT ![c] = NoCmd]

(* The entry of every call: a reactor that is not running refuses. *)
Call(c) == \E k \in Kinds, r \in Reactors :
  LET m == [from |-> c, n |-> calls[c] + 1, kind |-> k, to |-> r] IN
  /\ ppc = "up" /\ cpc[c] = "idle" /\ calls[c] < MaxCalls
  /\ calls' = [calls EXCEPT ![c] = @ + 1]
  /\ IF phase[r] = "RUN"
     THEN /\ call' = [call EXCEPT ![c] = m]
          /\ cpc' = [cpc EXCEPT ![c] = "posting"]
          /\ UNCHANGED result
     ELSE Return(c, m, FALSE)
  /\ UNCHANGED <<rvars, ppc>>

(* The mailbox takes the command; exec goes on to wait for its done flag. *)
PostOk(c) == LET m == call[c] IN
  /\ cpc[c] = "posting" /\ Cardinality(box[m.to]) < Capacity
  /\ box' = [box EXCEPT ![m.to] = @ \union {m}]
  /\ IF m.kind = "EXEC"
     THEN cpc' = [cpc EXCEPT ![c] = "waiting"] /\ UNCHANGED <<call, result>>
     ELSE Return(c, m, TRUE)
  /\ UNCHANGED <<phase, stopping, batch, draining, ran, done, calls, ppc>>

(* A full mailbox fails a post; exec sleeps and retries (its bail-out on a
   reactor that left RUN needs a destroy that races the post). *)
PostFull(c) == LET m == call[c] IN
  /\ cpc[c] = "posting" /\ Cardinality(box[m.to]) >= Capacity /\ m.kind # "EXEC"
  /\ Return(c, m, FALSE)
  /\ UNCHANGED <<rvars, calls, ppc>>

(* exec polls the done flag, and gives up when the loop is gone. *)
ExecReturn(c) == LET m == call[c] IN
  /\ cpc[c] = "waiting"
  /\ \/ m \in done /\ Return(c, m, TRUE)
     \/ m \notin done /\ phase[m.to] = "DONE" /\ Return(c, m, FALSE)
  /\ UNCHANGED <<rvars, calls, ppc>>

CallerStep(c) == Call(c) \/ PostOk(c) \/ PostFull(c) \/ ExecReturn(c)
-----------------------------------------------------------------------------
(* reactor_pool_create and reactor_pool_destroy, on the parent *)

Submitted == {r \in Reactors : phase[r] # "unborn"}

(* Reactors are submitted in order; the first failure ends the loop. *)
Submit == \E r \in Reactors :
  /\ ppc = "create" /\ phase[r] = "unborn"
  /\ \A q \in Reactors : q < r => phase[q] # "unborn"
  /\ phase' = [phase EXCEPT ![r] = "SPAWN"]
  /\ UNCHANGED <<stopping, box, batch, draining, ran, done, cvars, ppc>>

(* create returns when no submitted reactor is still on its way; with none
   submitted there is no pool. *)
Created == /\ ppc = "create"
           /\ \A r \in Submitted : phase[r] # "SPAWN"
           /\ ppc' = IF Submitted = {} THEN "gone" ELSE "up"
           /\ UNCHANGED <<rvars, cvars>>

(* destroy begins when no caller is inside a post. *)
Destroy == /\ ppc = "up" /\ \A c \in Callers : cpc[c] # "posting"
           /\ ppc' = "stop"
           /\ UNCHANGED <<rvars, cvars>>

StopSent(r) == \/ StopCmd(r) \in box[r] \union batch[r]
               \/ stopping[r]

(* STOP is posted to each running reactor, retrying while its mailbox is full. *)
PostStop(r) == /\ ppc = "stop" /\ phase[r] = "RUN" /\ ~StopSent(r)
               /\ Cardinality(box[r]) < Capacity
               /\ box' = [box EXCEPT ![r] = @ \union {StopCmd(r)}]
               /\ UNCHANGED <<phase, stopping, batch, draining, ran, done, cvars, ppc>>

(* Mutant: a full mailbox excuses the stop command. *)
StopsTriedOnce == /\ ppc = "stop"
                  /\ \A r \in Reactors : phase[r] = "RUN" =>
                        StopSent(r) \/ Cardinality(box[r]) >= Capacity
                  /\ ppc' = "await"
                  /\ UNCHANGED <<rvars, cvars>>

StopsPosted == /\ ppc = "stop" /\ \A r \in Reactors : phase[r] = "RUN" => StopSent(r)
               /\ ppc' = "await"
               /\ UNCHANGED <<rvars, cvars>>

(* The pool is released after every submitted loop has left. *)
Destroyed == /\ ppc = "await" /\ \A r \in Submitted : phase[r] = "DONE"
             /\ ppc' = "gone"
             /\ UNCHANGED <<rvars, cvars>>

ParentStep == Submit \/ Created \/ Destroy \/ StopsPosted \/ Destroyed
              \/ \E r \in Reactors : PostStop(r)

Next == ParentStep \/ (\E r \in Reactors : ReactorStep(r))
                   \/ (\E c \in Callers : CallerStep(c))

Spec == Init /\ [][Next]_vars

(* Threads inside a call or a loop keep running. *)
Fairness == /\ \A r \in Reactors : WF_vars(ReactorStep(r))
            /\ \A c \in Callers : WF_vars(PostOk(c) \/ PostFull(c) \/ ExecReturn(c))
            /\ WF_vars(StopsPosted \/ Destroyed \/ Created \/ \E r \in Reactors : PostStop(r))

FairSpec == Spec /\ Fairness
-----------------------------------------------------------------------------
Accepted == {x.cmd : x \in {y \in result : y.ok}}
InPlay(r) == box[r] \union batch[r]

(* exec returns true only after its function has run on the reactor, and false
   only if it has not run and never will: the done flag on the caller's stack
   is never written after the call has returned. *)
ExecTruthful == \A x \in result : x.cmd.kind = "EXEC" =>
   IF x.ok THEN x.cmd \in ran
   ELSE x.cmd \notin ran \union UNION {InPlay(r) : r \in Reactors}

(* An accepted fire-and-forget command is still on its way to its reactor or
   has run, and a reactor that has left has run all of them: although STOP may
   be dequeued before the commands of other senders, the drain runs on to empty. *)
AcceptedRuns == \A m \in Accepted : m.kind = "POST" =>
                   m \in ran \/ (m \in InPlay(m.to) /\ phase[m.to] = "RUN")

(* What a caller was told of its command is what happened to it. *)
CallersTold == ExecTruthful /\ AcceptedRuns

(* destroy always comes back, even with full mailboxes and waiting callers. *)
DestroyTerminates == ppc = "stop" ~> ppc = "gone"

(* A caller blocked in exec always gets its answer. *)
ExecReturns == \A c \in Callers : cpc[c] = "waiting" ~> cpc[c] = "idle"

(* Neither side of the stop waits for the other for ever. *)
CallsEnd == DestroyTerminates /\ ExecReturns
=============================================================================
