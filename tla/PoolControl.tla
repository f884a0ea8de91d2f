---------------------------- MODULE PoolControl ----------------------------
(* The built-in worker pool of HttpServer (src/src/http_server_class.c): how   *)
(* start_pool submits a cohort of workers and awaits it, how stop() and        *)
(* reload() retire a cohort over the control channel (pool_ctl_t: a command    *)
(* plus one wakeup per worker), and how a worker's start() joins the channel,  *)
(* runs, retires and leaves.                                                   *)
(*                                                                             *)
(* The parent's coroutines (start_pool, stop(), reload()) share one thread: an *)
(* action is what one of them does between two suspensions.  Workers are       *)
(* threads of their own, so every access a worker or the parent makes to the   *)
(* channel is a step, the parent's store of the command and its broadcast      *)
(* under the lock (`ringing') included.                                        *)
EXTENDS Integers, FiniteSets

CONSTANTS
    N,          \* workers of a cohort (config->setWorkers)
    MaxReloads, \* bound: replacement cohorts
    Stoppers    \* coroutines that call stop() on the parent

PoolAssumption == /\ N \in Nat \ {0}
                  /\ MaxReloads \in Nat

VARIABLES
    command,  \* pool_ctl->command
    wake,     \* workers with a wakeup published in pool_ctl->wake
    rung,     \* wakeups sent and not yet delivered on their loop
    ringing,  \* the parent stored a command and has still to broadcast it
    wpc,      \* where each worker's start() task is
    pending,  \* st->pending
    allDone,  \* st->all_done: "armed", "fired" (notified), "gone" (NULL)
    st,       \* the pool_await_state_t block
    ppc,      \* the start_pool coroutine
    rotating, \* reload() is suspended in ThreadPool reload
    cohort,   \* index of the cohort start() tasks were last submitted for
    stopping, \* server->stopping of the parent
    spc       \* the stop() callers

channel == <<command, wake, rung, ringing>>
await   == <<pending, allDone, st>>
parent  == <<ppc, rotating, cohort, stopping, spc>>
vars    == <<channel, await, parent, wpc>>

(* One start() task per worker and cohort.  The threads behind them belong to  *)
(* the engine's ThreadPool.                                                    *)
Cohort(g) == {g} \X (1 .. N)
Tasks     == UNION {Cohort(g) : g \in 0 .. MaxReloads}

(* wpc of a task: "checked": read no command, not yet joined; "joined": not    *)
(* yet `running'; "retiring": the retire coroutine runs; "stopped": do_stop    *)
(* woke start(); "exited": the handler returned; "done": the parent saw its    *)
(* done_event.                                                                 *)
Live(t) == wpc[t] \notin {"none", "done"}

(* Only one parent coroutine runs at a time, and neither the broadcast nor the *)
(* stretch from the end of the await to the end of start_pool yields.          *)
ParentFree == ~ringing /\ ppc # "cleanup"

Init ==
    /\ command = "NONE" /\ wake = {} /\ ringing = FALSE
    /\ rung = [t \in Tasks |-> FALSE]
    /\ wpc = [t \in Tasks |-> "none"]
    /\ pending = 0 /\ allDone = "gone" /\ st = "none"
    /\ ppc = "new" /\ rotating = FALSE /\ cohort = 0 /\ stopping = FALSE
    /\ spc = [s \in Stoppers |-> "idle"]

-----------------------------------------------------------------------------
(* pool_ctl_command: the store, then the broadcast to the wakeups published    *)
(* under the lock at that moment; POOL_CMD_NONE is stored and rings nobody.    *)
Publish(cmd) == command' = cmd /\ ringing' = TRUE /\ UNCHANGED <<wake, rung>>

PublishNone == command' = "NONE" /\ UNCHANGED <<wake, rung, ringing>>

Ring ==
    /\ ringing
    /\ rung' = [t \in Tasks |-> rung[t] \/ t \in wake]
    /\ ringing' = FALSE
    /\ UNCHANGED <<command, wake, await, parent, wpc>>

(* A wakeup that left its slot is closed: what was sent to it is lost.         *)
Leave(t) == wake' = wake \ {t} /\ rung' = [rung EXCEPT ![t] = FALSE]
            /\ UNCHANGED <<command, ringing>>

(* Every place that lowers `pending' notifies all_done on the zero transition. *)
Release(p) == /\ pending' = p
              /\ allDone' = IF p = 0 /\ allDone = "armed" THEN "fired" ELSE allDone
              /\ UNCHANGED st

-----------------------------------------------------------------------------
(* http_server_start_pool, up to its await: submit_internal may fail at any    *)
(* worker, the rest then counts as done; with nobody submitted it does not     *)
(* suspend.                                                                    *)
StartPool ==
    /\ ppc = "new"
    /\ \E k \in 0 .. N :
          /\ wpc' = [t \in Tasks |-> IF t[1] = 0 /\ t[2] <= k THEN "queued" ELSE wpc[t]]
          /\ pending' = k
          /\ ppc' = IF k = 0 THEN "cleanup" ELSE "await"
    /\ st' = "live" /\ allDone' = "armed"
    /\ UNCHANGED <<channel, rotating, cohort, stopping, spc>>

(* start_pool resumes, because all_done was notified or because its await was  *)
(* cancelled (Async\graceful_shutdown).  Workers still pending are told STOP.  *)
AwaitEnds ==
    /\ allDone' = "gone"
    /\ IF pending > 0 THEN Publish("STOP") ELSE UNCHANGED channel
    /\ ppc' = "cleanup"
    /\ UNCHANGED <<pending, st, rotating, cohort, stopping, spc, wpc>>

AwaitResolved  == ParentFree /\ ppc = "await" /\ allDone = "fired" /\ AwaitEnds
AwaitCancelled == ParentFree /\ ppc = "await" /\ allDone = "armed" /\ AwaitEnds

(* The rest of start_pool: flags cleared, pool machinery down, st freed, and   *)
(* last the pool_stopped_event that the stop() callers wait for.               *)
Cleanup ==
    /\ ppc = "cleanup" /\ ~ringing
    /\ ppc' = "down" /\ st' = "freed" /\ stopping' = FALSE
    /\ spc' = [s \in Stoppers |-> IF spc[s] = "waiting" THEN "returned" ELSE spc[s]]
    /\ UNCHANGED <<channel, pending, allDone, rotating, cohort, wpc>>

(* stop() on the pool parent: the first caller commands the cohort to go, all  *)
(* of them suspend on pool_stopped_event.                                      *)
Stop(s) ==
    /\ ParentFree /\ ppc = "await" /\ spc[s] = "idle"
    /\ spc' = [spc EXCEPT ![s] = "waiting"]
    /\ stopping' = TRUE
    /\ IF stopping THEN UNCHANGED channel ELSE Publish("STOP")
    /\ UNCHANGED <<await, ppc, rotating, cohort, wpc>>

(* pool_worker_done_cb, delivered on the parent's loop while start_pool still  *)
(* owns the completion futures.                                                *)
Done(t) ==
    /\ ParentFree /\ st = "live" /\ wpc[t] = "exited"
    /\ wpc' = [wpc EXCEPT ![t] = "done"]
    /\ Release(pending - 1)
    /\ UNCHANGED <<channel, parent>>

-----------------------------------------------------------------------------
(* reload(): reserve the fresh cohort's completions, command RELOAD, suspend   *)
(* in ThreadPool reload().                                                     *)
Reload ==
    /\ ParentFree /\ ppc = "await" /\ ~rotating /\ ~stopping
    /\ cohort < MaxReloads
    /\ pending' = pending + N
    /\ Publish("RELOAD")
    /\ rotating' = TRUE
    /\ UNCHANGED <<allDone, st, ppc, cohort, stopping, spc, wpc>>

(* External: ThreadPool reload() returns when every thread of the old cohort   *)
(* has exited; their completions were delivered to the parent before.  When    *)
(* start_pool's await was cancelled during the rotation, reload() resumes on   *)
(* the st that Cleanup freed: it is not followed further (st = "live").        *)
Rotated == /\ rotating /\ ParentFree /\ st = "live"
           /\ \A t \in Cohort(cohort) : wpc[t] \in {"none", "done"}

(* stop() landed during the rotation, or the rotation was cancelled: the       *)
(* reservation is dropped.                                                     *)
Unreserve ==
    /\ rotating' = FALSE
    /\ Release(pending - N)
    /\ UNCHANGED <<channel, ppc, cohort, stopping, spc, wpc>>

RotationAborted   == Rotated /\ stopping /\ Unreserve
RotationCancelled == rotating /\ ParentFree /\ st = "live" /\ Unreserve

(* The command is cleared, then each fresh shell is submitted; one that fails  *)
(* gives its completion back.                                                  *)
Submitted(ok) == [t \in Tasks |-> IF t[1] = cohort + 1 /\ t[2] \in ok THEN "queued" ELSE wpc[t]]

Resubmit ==
    /\ PublishNone
    /\ cohort' = cohort + 1 /\ rotating' = FALSE
    /\ \E ok \in SUBSET (1 .. N) :
          wpc' = Submitted(ok) /\ Release(pending - (N - Cardinality(ok)))
    /\ UNCHANGED <<ppc, stopping, spc>>

(* Mutant: the next cohort does not wait for the last one. *)
ResubmitsEarly == rotating /\ ParentFree /\ st = "live" /\ ~stopping /\ Resubmit

RotationResubmits == Rotated /\ ~stopping /\ Resubmit

-----------------------------------------------------------------------------
(* A worker's start().  It reads the command, and returns at once if there is  *)
(* one.                                                                        *)
CheckCommand(t) ==
    /\ wpc[t] = "queued"
    /\ wpc' = [wpc EXCEPT ![t] = IF command = "NONE" THEN "checked" ELSE "exited"]
    /\ UNCHANGED <<channel, await, parent>>

(* pool_ctl_join claims a free wakeup slot under the lock; without one start() *)
(* throws.                                                                     *)
Join(t) ==
    /\ wpc[t] = "checked"
    /\ IF Cardinality(wake) < N
       THEN wake' = wake \cup {t} /\ wpc' = [wpc EXCEPT ![t] = "joined"]
       ELSE wpc' = [wpc EXCEPT ![t] = "exited"] /\ UNCHANGED wake
    /\ UNCHANGED <<command, rung, ringing, await, parent>>

(* From the join to `running' start() does not suspend: TLS, listeners, topic  *)
(* hub.  Any of them may fail, and the clone leaves the channel as it is freed.*)
Serve(t) ==
    /\ wpc[t] = "joined"
    /\ wpc' = [wpc EXCEPT ![t] = "running"]
    /\ UNCHANGED <<channel, await, parent>>

StartFails(t) ==
    /\ wpc[t] = "joined"
    /\ wpc' = [wpc EXCEPT ![t] = "exited"]
    /\ Leave(t)
    /\ UNCHANGED <<await, parent>>

(* Mutant: a worker is woken by a reload only. *)
WakeOnReload(t) ==
    /\ rung[t] /\ wpc[t] \in {"running", "retiring"}
    /\ rung' = [rung EXCEPT ![t] = FALSE]
    /\ wpc' = IF wpc[t] = "running" /\ command = "RELOAD"
              THEN [wpc EXCEPT ![t] = "retiring"] ELSE wpc
    /\ UNCHANGED <<command, wake, ringing, await, parent>>

(* pool_ctl_wake on the worker's loop: a command standing and no retire queued *)
(* yet spawns the retire coroutine; otherwise the wakeup is dropped.           *)
Wake(t) ==
    /\ rung[t] /\ wpc[t] \in {"running", "retiring"}
    /\ rung' = [rung EXCEPT ![t] = FALSE]
    /\ wpc' = IF wpc[t] = "running" /\ command # "NONE"
              THEN [wpc EXCEPT ![t] = "retiring"] ELSE wpc
    /\ UNCHANGED <<command, wake, ringing, await, parent>>

(* pool_retire_entry: the inbox is retired (it may suspend), then do_stop      *)
(* leaves the channel and notifies start()'s wait_event.                       *)
Retire(t) ==
    /\ wpc[t] = "retiring"
    /\ wpc' = [wpc EXCEPT ![t] = "stopped"]
    /\ Leave(t)
    /\ UNCHANGED <<await, parent>>

(* start()'s suspension ends without a command: the worker's own stop(), a     *)
(* cancellation or a bailout.                                                  *)
Quit(t) ==
    /\ wpc[t] = "running"
    /\ wpc' = [wpc EXCEPT ![t] = "stopped"]
    /\ Leave(t)
    /\ UNCHANGED <<await, parent>>

(* drain_scope waits for the handlers within the grace window, cancels the     *)
(* rest, and start() returns to pool_worker_handler.                           *)
DrainScope(t) ==
    /\ wpc[t] = "stopped"
    /\ wpc' = [wpc EXCEPT ![t] = "exited"]
    /\ UNCHANGED <<channel, await, parent>>

-----------------------------------------------------------------------------
StartStep(t) == CheckCommand(t) \/ Join(t) \/ Serve(t) \/ StartFails(t) \/ DrainScope(t)

ReloadResumes == RotationAborted \/ RotationResubmits

Next ==
    \/ StartPool \/ Ring \/ AwaitResolved \/ AwaitCancelled \/ Cleanup
    \/ Reload \/ ReloadResumes \/ RotationCancelled
    \/ \E s \in Stoppers : Stop(s)
    \/ \E t \in Tasks : StartStep(t) \/ Wake(t) \/ Retire(t) \/ Quit(t) \/ Done(t)

Spec == Init /\ [][Next]_vars

(* Worker threads run, and their loops deliver wakeups and run the coroutines  *)
(* queued on them.  The parent's loop delivers completions and its scheduler   *)
(* resumes the coroutines that became ready.  Nothing obliges anyone to call   *)
(* stop() or reload(), to cancel, or a worker to quit.                         *)
Fairness ==
    /\ WF_vars(Ring) /\ WF_vars(Cleanup)
    /\ WF_vars(AwaitResolved) /\ WF_vars(ReloadResumes)
    /\ \A t \in Tasks : /\ WF_vars(StartStep(t)) /\ WF_vars(Wake(t)) /\ WF_vars(Retire(t))
                        /\ WF_vars(Done(t))

FairSpec == Spec /\ Fairness

(* While start_pool awaits, st->pending counts exactly the workers whose       *)
(* completion the parent has not seen, plus the completions a reload() in      *)
(* flight reserved: all_done can fire neither early nor never.                 *)
PendingExact ==
    st = "live" => pending = Cardinality({t \in Tasks : Live(t)})
                             + (IF rotating THEN N ELSE 0)

(* A cohort is submitted only when its predecessor is gone: two generations of *)
(* the code never serve at the same time, and a fresh worker always finds a    *)
(* free wakeup slot.                                                           *)
OneCohort == \A t \in Tasks : Live(t) => t[1] = cohort

(* When stop() returns and its pool was awaited to the end, no worker is left  *)
(* and none can come: "stop() promises the server is fully down when it        *)
(* returns".                                                                   *)
StopMeansDown ==
    \A s \in Stoppers : spc[s] = "returned" /\ pending = 0 => \A t \in Tasks : ~Live(t)

(* The bookkeeping of cohorts that start(), reload() and stop() rely on.       *)
CohortsSound == PendingExact /\ OneCohort /\ StopMeansDown

(* Every worker the broadcast reached retires and exits, whatever else happens *)
(* meanwhile: another command, a quit, a cancelled rotation.                   *)
RungRetires == \A t \in Tasks : rung[t] ~> wpc[t] \in {"exited", "done"}

(* A worker that read no command before the parent stored one, and published   *)
(* its wakeup after the broadcast.                                             *)
Missed == /\ ~ringing /\ command # "NONE"
          /\ \E t \in Tasks : wpc[t] \in {"joined", "running"} /\ ~rung[t]

(* A pool-mode stop() returns, unless a worker slipped between its command     *)
(* check and its join while the command was published.                         *)
StopReturnsUnlessMissed ==
    \A s \in Stoppers : spc[s] = "waiting" ~> (spc[s] = "returned" \/ Missed)

(* A command takes effect: on the workers it reached, and for who waits for it. *)
CommandsEnd == RungRetires /\ StopReturnsUnlessMissed

(* A pool-mode stop() returns: "The command is state, not an edge, so a worker *)
(* that comes up after it was published still sees it".                        *)
StopReturns == \A s \in Stoppers : spc[s] = "waiting" ~> spc[s] = "returned"
=============================================================================
