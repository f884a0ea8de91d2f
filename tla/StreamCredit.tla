---------------------------- MODULE StreamCredit ----------------------------
(***************************************************************************)
(* The per-stream credit block of a streamed HTTP/3 response               *)
(* (include/core/stream_credit.h): five atomics shared by the handler      *)
(* coroutine of a PHP worker, which stops at WORKER_STREAM_INFLIGHT_CAP    *)
(* unacknowledged bytes (src/core/worker_dispatch.c), and the side that    *)
(* holds the other reference, first the STREAM_HEADERS wire, then the      *)
(* reactor's http3_stream_t.                                               *)
(*                                                                         *)
(* One step is one atomic access.  A chunk counts one unit.  The worker    *)
(* runs one coroutine at a time, so a trigger that fires between the check *)
(* and the suspension stays pending in its loop until the coroutine has    *)
(* subscribed.                                                             *)
(***************************************************************************)
EXTENDS Integers

CONSTANTS InflightCap,   \* WORKER_STREAM_INFLIGHT_CAP, in chunks
          MaxPosts,      \* bound: chunks the handler sends
          WriteTimeout   \* write_timeout_s > 0

ASSUME CreditAssumption ==
  /\ InflightCap \in Nat \ {0} /\ MaxPosts \in Nat
  /\ WriteTimeout \in BOOLEAN

VARIABLES wpc,      \* the handler coroutine's place in append_chunk / dispose
          posted,   \* ctx->posted_bytes
          failed,   \* ctx->stream_failed
          unbounded,\* a wait degraded to unbounded
          event,    \* ctx->credit_wake: "none", "live", "disposed"
          signal,   \* a trigger is pending in the worker's loop
          refs,     \* the block's references; it is freed at 0
          acked, dead, waker, busy,  \* the block's other atomics
          holder,   \* who has the second reference: "none", "wire", "stream"
          closed,   \* s->peer_closed, or a failed submit
          torn,     \* the connection was freed under the stream
          rpc,      \* the second holder's place in ack / abandon
          dropping, \* it is in abandon, and releases after the wake
          loaded    \* the waker pointer it read

wvars == <<wpc, posted, failed, unbounded, event, signal>>
rvars == <<holder, closed, torn, rpc, dropping, loaded>>
cvars == <<refs, acked, dead, waker, busy>>
vars == <<wvars, rvars, cvars>>

Init == /\ wpc = "idle" /\ posted = 0 /\ failed = FALSE /\ unbounded = FALSE
        /\ event = "none" /\ signal = FALSE
        /\ refs = 0 /\ acked = 0 /\ dead = FALSE /\ waker = FALSE /\ busy = 0
        /\ holder = "none" /\ closed = FALSE /\ torn = FALSE
        /\ rpc = "idle" /\ dropping = FALSE /\ loaded = FALSE

Inflight == posted - acked
-----------------------------------------------------------------------------
(* worker_stream_append_chunk *)

(* The first send() creates the block with two references and posts the
   headers wire that carries one of them. *)
Open == /\ wpc = "idle"
        /\ wpc' = "run" /\ refs' = 2 /\ holder' = "wire"
        /\ UNCHANGED <<posted, failed, unbounded, event, signal, acked, dead,
                       waker, busy, closed, torn, rpc, dropping, loaded>>

(* The wire cannot be posted: the sink discards it before it returns. *)
OpenUndelivered == /\ wpc = "idle"
                   /\ wpc' = "run" /\ refs' = 1 /\ dead' = TRUE /\ failed' = TRUE
                   /\ UNCHANGED <<posted, unbounded, event, signal, acked, waker,
                                  busy, rvars>>

Append == /\ wpc = "run" /\ ~failed /\ ~dead /\ posted < MaxPosts
          /\ posted' = posted + 1 /\ wpc' = "credit"
          /\ UNCHANGED <<failed, unbounded, event, signal, rvars, cvars>>

-----------------------------------------------------------------------------
(* worker_stream_wait_credit *)

LoadAcked == /\ wpc = "credit"
             /\ wpc' = IF Inflight >= InflightCap THEN "full" ELSE "run"
             /\ UNCHANGED <<posted, failed, unbounded, event, signal, rvars, cvars>>

LoadDead == /\ wpc = "full"
            /\ wpc' = IF dead THEN "run" ELSE "suspend"
            /\ failed' = (failed \/ dead)
            /\ UNCHANGED <<posted, unbounded, event, signal, rvars, cvars>>

(* No coroutine to suspend, or no trigger event: carry on without a bound. *)
Degrade == /\ wpc = "suspend"
           /\ wpc' = "run" /\ unbounded' = TRUE
           /\ UNCHANGED <<posted, failed, event, signal, rvars, cvars>>

(* Mutant: publishing the trigger and suspending at once on the value read before. *)
PublishWithoutRecheck == /\ wpc = "suspend" /\ event = "none"
                         /\ event' = "live" /\ waker' = TRUE /\ wpc' = "parked"
                         /\ UNCHANGED <<posted, failed, unbounded, signal, rvars,
                                        refs, acked, dead, busy>>

(* The first wait publishes the trigger and goes round again. *)
Publish == /\ wpc = "suspend" /\ event = "none"
           /\ event' = "live" /\ waker' = TRUE /\ wpc' = "credit"
           /\ UNCHANGED <<posted, failed, unbounded, signal, rvars, refs, acked,
                          dead, busy>>

Park == /\ wpc = "suspend" /\ event = "live"
        /\ wpc' = "parked"
        /\ UNCHANGED <<posted, failed, unbounded, event, signal, rvars, cvars>>

(* The trigger resolves the waker and the loop condition is read again. *)
Resume == /\ wpc = "parked" /\ signal
          /\ signal' = FALSE /\ wpc' = "credit"
          /\ UNCHANGED <<posted, failed, unbounded, event, rvars, cvars>>

(* A trigger delivered while the handler waits for something else. *)
IgnoreSignal == /\ wpc = "run" /\ signal
                /\ signal' = FALSE
                /\ UNCHANGED <<wpc, posted, failed, unbounded, event, rvars, cvars>>

GiveUp == /\ wpc' = "run" /\ failed' = TRUE
          /\ UNCHANGED <<posted, unbounded, event, signal, rvars, cvars>>

(* Mutant: a timeout that only re-reads the loop condition. *)
TimeoutRetries == /\ WriteTimeout /\ wpc = "parked"
                  /\ wpc' = "credit"
                  /\ UNCHANGED <<posted, failed, unbounded, event, signal, rvars, cvars>>

Timeout == WriteTimeout /\ wpc = "parked" /\ GiveUp

(* The coroutine is cancelled, or no waker can be allocated for it. *)
Cancel == wpc \in {"suspend", "parked"} /\ event = "live" /\ GiveUp

-----------------------------------------------------------------------------
(* worker_dispatch_dispose: retract the waker, release, dispose the trigger *)

(* Mutant: the release does not wait for a trigger under way. *)
ClearWithoutSpin == /\ wpc = "run"
                    /\ waker' = FALSE /\ wpc' = "release"
                    /\ UNCHANGED <<posted, failed, unbounded, event, signal, rvars,
                                   refs, acked, dead, busy>>

ClearWaker == /\ wpc = "run"
              /\ waker' = FALSE
              /\ wpc' = IF event = "live" THEN "spin" ELSE "release"
              /\ UNCHANGED <<posted, failed, unbounded, event, signal, rvars, refs,
                             acked, dead, busy>>

SpinDone == /\ wpc = "spin" /\ busy = 0
            /\ wpc' = "release"
            /\ UNCHANGED <<posted, failed, unbounded, event, signal, rvars, cvars>>

WorkerRelease == /\ wpc = "release"
                 /\ refs' = refs - 1 /\ wpc' = "dispose"
                 /\ UNCHANGED <<posted, failed, unbounded, event, signal, rvars,
                                acked, dead, waker, busy>>

DisposeTrigger == /\ wpc = "dispose"
                  /\ wpc' = "gone"
                  /\ event' = IF event = "live" THEN "disposed" ELSE event
                  /\ signal' = FALSE
                  /\ UNCHANGED <<posted, failed, unbounded, rvars, cvars>>

-----------------------------------------------------------------------------
(* The other reference.  h3_submit_response_wire moves it from the wire to
   the stream. *)
Adopt == /\ holder = "wire" /\ rpc = "idle"
         /\ holder' = "stream"
         /\ UNCHANGED <<wvars, cvars, closed, torn, rpc, dropping, loaded>>

Live == holder = "stream" /\ rpc = "idle" /\ ~closed /\ ~torn

Ack == /\ Live /\ acked < posted
       /\ acked' = acked + 1 /\ rpc' = "inc"
       /\ UNCHANGED <<wvars, refs, dead, waker, busy, holder, closed, torn, dropping, loaded>>

(* stream_close, or a submit nghttp3 refuses. *)
PeerClosed == /\ Live
              /\ closed' = TRUE /\ dead' = TRUE
              /\ UNCHANGED <<wvars, refs, acked, waker, busy, holder, torn, rpc, dropping, loaded>>

(* http3_connection_free drops the connection's reference on the stream, which
   the worker's keeps alive, and says nothing to the block. *)
ConnTeardown == /\ Live
                /\ torn' = TRUE
                /\ UNCHANGED <<wvars, cvars, holder, closed, rpc, dropping, loaded>>

StartAbandon == /\ rpc = "idle"
                /\ dead' = TRUE /\ rpc' = "inc" /\ dropping' = TRUE
                /\ UNCHANGED <<wvars, refs, acked, waker, busy, holder, closed, torn, loaded>>

(* response_wire_discard: the wire expired, or found no stream. *)
DiscardWire == holder = "wire" /\ StartAbandon

(* http3_stream_release with the last reference.  The worker's own reference
   on the stream goes with the request, after it has let go of the block; a
   stream that has lost its connection is then freed without this call
   (http3_stream_release_via_request). *)
StreamRelease == holder = "stream" /\ wpc = "gone" /\ ~torn /\ StartAbandon

-----------------------------------------------------------------------------
(* stream_credit_wake *)

WakeInc == /\ rpc = "inc"
           /\ busy' = busy + 1 /\ rpc' = "load"
           /\ UNCHANGED <<wvars, refs, acked, dead, waker, holder, closed, torn, dropping, loaded>>

WakeLoad == /\ rpc = "load"
            /\ loaded' = waker /\ rpc' = "trigger"
            /\ UNCHANGED <<wvars, cvars, holder, closed, torn, dropping>>

WakeTrigger == /\ rpc = "trigger"
               /\ signal' = (signal \/ (loaded /\ event = "live"))
               /\ rpc' = "dec" /\ loaded' = FALSE
               /\ UNCHANGED <<wpc, posted, failed, unbounded, event, cvars, holder,
                              closed, torn, dropping>>

WakeDec == /\ rpc = "dec"
           /\ busy' = busy - 1 /\ rpc' = IF dropping THEN "release" ELSE "idle"
           /\ UNCHANGED <<wvars, refs, acked, dead, waker, holder, closed, torn, dropping, loaded>>

AbandonRelease == /\ rpc = "release"
                  /\ refs' = refs - 1 /\ holder' = "none"
                  /\ rpc' = "idle" /\ dropping' = FALSE
                  /\ UNCHANGED <<wvars, acked, dead, waker, busy, closed, torn, loaded>>

-----------------------------------------------------------------------------
Worker == \/ Open \/ OpenUndelivered \/ Append \/ LoadAcked \/ LoadDead \/ Degrade
          \/ Publish \/ Park \/ Resume \/ IgnoreSignal \/ Timeout \/ Cancel
          \/ ClearWaker \/ SpinDone \/ WorkerRelease \/ DisposeTrigger

Holder == \/ Adopt \/ Ack \/ PeerClosed \/ ConnTeardown \/ DiscardWire \/ StreamRelease
          \/ WakeInc \/ WakeLoad \/ WakeTrigger \/ WakeDec \/ AbandonRelease

Next == Worker \/ Holder

Spec == Init /\ [][Next]_vars

(* The worker's loop runs its coroutine and its timers, the reactor's loop
   finishes a callback it has started and releases a stream it is told the
   worker is done with.  Nothing obliges the peer to acknowledge or close. *)
Fairness == /\ WF_vars(LoadAcked \/ LoadDead \/ Publish \/ Park \/ Resume)
            /\ WF_vars(Timeout)
            /\ WF_vars(SpinDone \/ WorkerRelease \/ DisposeTrigger)
            /\ WF_vars(WakeInc \/ WakeLoad \/ WakeTrigger \/ WakeDec \/ AbandonRelease)
            /\ WF_vars(Adopt \/ StreamRelease)

FairSpec == Spec /\ Fairness
-----------------------------------------------------------------------------
TypeOK ==
  /\ wpc \in {"idle", "run", "credit", "full", "suspend", "parked", "spin",
              "release", "dispose", "gone"}
  /\ posted \in 0..MaxPosts /\ acked \in 0..MaxPosts
  /\ event \in {"none", "live", "disposed"} /\ holder \in {"none", "wire", "stream"}
  /\ rpc \in {"idle", "inc", "load", "trigger", "dec", "release"}
  /\ refs \in 0..2 /\ busy \in 0..1
  /\ failed \in BOOLEAN /\ unbounded \in BOOLEAN /\ signal \in BOOLEAN
  /\ dead \in BOOLEAN /\ waker \in BOOLEAN /\ closed \in BOOLEAN
  /\ torn \in BOOLEAN /\ dropping \in BOOLEAN /\ loaded \in BOOLEAN

WorkerHolds == wpc \notin {"idle", "dispose", "gone"}

(* No use after free: refs is exactly the number of sides that still hold the
   block, so neither touches it once it is freed and it is freed when both have
   let go (stream_credit_release, stream_credit_abandon). *)
RefsExact == refs = (IF WorkerHolds THEN 1 ELSE 0) + (IF holder = "none" THEN 0 ELSE 1)

(* The reactor never calls trigger() on an event the worker has disposed:
   clear_waker's spin waits out a signaller that loaded the pointer before the
   NULL store. *)
NoTriggerAfterDispose == loaded => event = "live"

(* No lost wakeup: a parked producer below the cap has a trigger pending, or the
   acknowledgement that made room is still on its way to the trigger. *)
NoLostWakeup ==
  wpc = "parked" /\ Inflight < InflightCap => signal \/ loaded \/ rpc \in {"inc", "load"}

(* A producer that has not degraded is never more than InflightCap ahead of the
   peer's acknowledgements. *)
InflightBounded == unbounded \/ Inflight <= InflightCap

(* A handler that waits for credit gets out of append_chunk, whatever the peer
   does: by an acknowledgement, or by the write timeout. *)
WaitEnds == (wpc \in {"credit", "full", "suspend", "parked"}) ~> (wpc = "run")

(* The block is not leaked: once the worker is done, and unless the connection
   was torn down under the stream, both references are returned. *)
BlockFreed == (wpc = "gone") ~> (refs = 0 \/ torn)

(* Neither the producer nor the block it waits on is left behind. *)
CreditEnds == WaitEnds /\ BlockFreed
=============================================================================
