----------------------------- MODULE ReversePath -----------------------------
(***************************************************************************)
(* The way back of an HTTP/3 response: a worker's dispatch contexts        *)
(* (src/core/worker_dispatch.c) render wires, the sink and its deferred    *)
(* FIFO (src/http_server_class.c) put them into the reactor's mailbox, the *)
(* reactor applies them to the stream (src/http3/http3_dispatch.c), and    *)
(* the slot release of a finished request follows its wires the same way   *)
(* (src/http3/http3_stream.c).                                             *)
(*                                                                         *)
(* One worker, one reactor, one connection.  Waiting for credit (module    *)
(* StreamCredit) is the freedom of a handler to pause between chunks.  The *)
(* mailbox is the bounded channel of ThreadMailbox, FIFO for its one       *)
(* sender here.  Time is the choice a flush has, while the mailbox is      *)
(* full, between waiting on and finding the head's deadline passed.        *)
(***************************************************************************)
EXTENDS Integers, Sequences, Functions

CONSTANTS Streams,     \* requests dispatched to the worker
          Capacity,    \* the reactor's mailbox
          MaxChunks,   \* bound: chunks a handler sends
          TimerFails   \* arming the retry timer may fail

None == "none"

PathAssumption == /\ Capacity \in Nat \ {0} /\ MaxChunks \in Nat
                  /\ TimerFails \in BOOLEAN /\ None \notin Streams

VARIABLES wpc,      \* stream -> its handler: "run", "stream", "ended", "done"
          failed,   \* stream -> ctx->stream_failed
          posted,   \* stream -> chunks handed to the sink
          expired,  \* streams that lost a wire to its deadline or to a failed arm
          pend,     \* the worker's deferred posts, head first
          armed,    \* pending_post_armed
          flushing, \* inside pending_post_flush
          spin,     \* the stream whose release is posted in the busy loop
          box,      \* the reactor's mailbox
          dead,     \* stream -> its credit is marked dead
          refs,     \* stream -> http3_stream_t.refcount
          slot,     \* stream -> "live", or the thread that freed the slot
          conn,     \* stream -> s->conn is set, and the stream is in its list
          up,       \* the connection has not been freed
          closed,   \* stream -> s->peer_closed
          opened,   \* stream -> s->chunk_queue exists
          queue,    \* stream -> chunks pushed to the ring
          fin       \* stream -> how the reactor ended the response

wvars == <<wpc, failed, posted, expired>>
pvars == <<pend, armed, flushing, spin, box>>
rvars == <<dead, refs, slot, conn, up, closed, opened, queue, fin>>
vars == <<wvars, pvars, rvars>>

Wire(s, k, n) == [s |-> s, k |-> k, n |-> n]
WireKinds == {"FULL", "SEND_FILE", "STREAM_HEADERS", "STREAM_CHUNK", "STREAM_END",
              "STREAM_ABORT"}

(* Dispatched: the stream's own reference and the worker's. *)
Init == /\ wpc = [s \in Streams |-> "run"]
        /\ failed = [s \in Streams |-> FALSE]
        /\ posted = [s \in Streams |-> 0]
        /\ expired = {}
        /\ pend = <<>> /\ armed = FALSE /\ flushing = FALSE /\ spin = None /\ box = <<>>
        /\ dead = [s \in Streams |-> FALSE]
        /\ refs = [s \in Streams |-> 2]
        /\ slot = [s \in Streams |-> "live"]
        /\ conn = [s \in Streams |-> TRUE] /\ up = TRUE
        /\ closed = [s \in Streams |-> FALSE]
        /\ opened = [s \in Streams |-> FALSE]
        /\ queue = [s \in Streams |-> <<>>]
        /\ fin = [s \in Streams |-> None]

-----------------------------------------------------------------------------
(* reactor_pool_post_exec, pending_post_defer and the response sink *)

Room == Len(box) < Capacity
PostExec(w) == Room /\ box' = Append(box, w) /\ UNCHANGED <<pend, armed>>
Defer(w) == pend' = Append(pend, w) /\ armed' = TRUE /\ UNCHANGED box
CannotArm == TimerFails /\ ~armed

(* Mutant: stream wires that try the mailbox although others wait. *)
TryDirectAlways(w) == Room

(* Once anything is deferred, only whole responses go straight to the mailbox. *)
TryDirect(w) == Room /\ (w.k = "FULL" \/ pend = <<>>)

Delivered(w) == \/ TryDirect(w) /\ PostExec(w)
                \/ ~TryDirect(w) /\ w.k # "FULL" /\ Defer(w)

Undelivered(w) == /\ ~TryDirect(w) /\ (w.k = "FULL" \/ CannotArm)
                  /\ UNCHANGED <<box, pend, armed>>

(* worker_wire_post: the sink owns the wire in both outcomes, and a discarded
   headers wire abandons the credit. *)
WirePost(w) ==
  /\ \/ Delivered(w) /\ UNCHANGED <<failed, dead>>
     \/ /\ Undelivered(w)
        /\ failed' = [failed EXCEPT ![w.s] = @ \/ w.k # "FULL"]
        /\ dead' = [dead EXCEPT ![w.s] = @ \/ w.k = "STREAM_HEADERS"]
  /\ UNCHANGED <<flushing, spin, expired, refs, slot, conn, up, closed, opened,
                 queue, fin>>

Free == spin = None /\ ~flushing

-----------------------------------------------------------------------------
(* The dispatch context of one request *)

(* The first send(): its chunk follows in Chunk. *)
OpenStream(s) == /\ Free /\ wpc[s] = "run"
                 /\ WirePost(Wire(s, "STREAM_HEADERS", 0))
                 /\ wpc' = [wpc EXCEPT ![s] = "stream"]
                 /\ UNCHANGED posted

Chunk(s) == /\ Free /\ wpc[s] = "stream" /\ ~failed[s] /\ ~dead[s] /\ posted[s] < MaxChunks
            /\ WirePost(Wire(s, "STREAM_CHUNK", posted[s] + 1))
            /\ posted' = [posted EXCEPT ![s] = @ + 1]
            /\ UNCHANGED wpc

(* A wait for credit that gives up also fails the stream. *)
CreditLost(s) == /\ Free /\ wpc[s] = "stream" /\ ~failed[s] /\ posted[s] > 0
                 /\ failed' = [failed EXCEPT ![s] = TRUE]
                 /\ UNCHANGED <<wpc, posted, expired, pvars, rvars>>

MarkEnded(s) == /\ Free /\ wpc[s] = "stream"
                /\ WirePost(Wire(s, IF failed[s] THEN "STREAM_ABORT" ELSE "STREAM_END", 0))
                /\ wpc' = [wpc EXCEPT ![s] = "ended"]
                /\ UNCHANGED posted

(* A response that was never streamed goes out whole when the handler is
   disposed. *)
Respond(s) == /\ Free /\ wpc[s] = "run"
              /\ \E k \in {"FULL", "SEND_FILE"} : WirePost(Wire(s, k, 0))
              /\ wpc' = [wpc EXCEPT ![s] = "ended"]
              /\ UNCHANGED posted

(* http3_stream_release_via_request with a connection: the release queues
   behind the deferred wires, or spins for a place when no timer can be armed. *)
PostRelease(s) ==
  /\ Free /\ wpc[s] = "ended" /\ conn[s]
  /\ wpc' = [wpc EXCEPT ![s] = "done"]
  /\ LET w == Wire(s, "RELEASE", 0)
         direct == pend = <<>> /\ Room
     IN \/ direct /\ PostExec(w) /\ UNCHANGED spin
        \/ ~direct /\ Defer(w) /\ UNCHANGED spin
        \/ ~direct /\ CannotArm /\ spin' = s /\ UNCHANGED <<box, pend, armed>>
  /\ UNCHANGED <<failed, posted, expired, flushing, rvars>>

SpinPost == /\ spin # None
            /\ PostExec(Wire(spin, "RELEASE", 0)) /\ spin' = None
            /\ UNCHANGED <<wvars, flushing, rvars>>

(* ... and without one: the slot goes back to the pool on this thread. *)
FreeSlotHere(s) == /\ Free /\ wpc[s] = "ended" /\ ~conn[s]
                   /\ wpc' = [wpc EXCEPT ![s] = "done"]
                   /\ slot' = [slot EXCEPT ![s] = "worker"]
                   /\ UNCHANGED <<failed, posted, expired, pvars, dead, refs, conn, up,
                                  closed, opened, queue, fin>>

-----------------------------------------------------------------------------
(* pending_post_timer_fn and pending_post_flush *)

TimerTick == /\ Free /\ armed
             /\ armed' = FALSE /\ flushing' = TRUE
             /\ UNCHANGED <<wvars, pend, spin, box, rvars>>

FlushPost == /\ flushing /\ pend # <<>> /\ Room
             /\ box' = Append(box, Head(pend)) /\ pend' = Tail(pend)
             /\ UNCHANGED <<wvars, armed, flushing, spin, rvars>>

Discarded(ws) ==
  /\ expired' = expired \union {w.s : w \in ws}
  /\ dead' = [s \in Streams |-> dead[s] \/ Wire(s, "STREAM_HEADERS", 0) \in ws]

FlushExpire == /\ flushing /\ pend # <<>> /\ ~Room /\ Head(pend).k # "RELEASE"
               /\ Discarded({Head(pend)})
               /\ pend' = Tail(pend)
               /\ UNCHANGED <<wpc, failed, posted, armed, flushing, spin, box, refs, slot,
                              conn, up, closed, opened, queue, fin>>

(* Mutant: the timer is not armed again. *)
FlushEndUnarmed == /\ flushing /\ (pend = <<>> \/ ~Room)
                   /\ flushing' = FALSE
                   /\ UNCHANGED <<wvars, armed, pend, spin, box, rvars>>

FlushEnd == /\ flushing /\ (pend = <<>> \/ ~Room)
            /\ flushing' = FALSE /\ armed' = (pend # <<>>)
            /\ UNCHANGED <<wvars, pend, spin, box, rvars>>

(* No further tick can be scheduled: the whole queue is dropped. *)
FlushFail == /\ flushing /\ pend # <<>> /\ ~Room /\ TimerFails
             /\ flushing' = FALSE /\ pend' = <<>>
             /\ Discarded(Range(pend))
             /\ UNCHANGED <<wpc, failed, posted, armed, spin, box, refs, slot, conn, up,
                            closed, opened, queue, fin>>

-----------------------------------------------------------------------------
(* The reactor *)

(* http3_stream_release *)
Unref(s) == /\ refs' = [refs EXCEPT ![s] = @ - 1]
            /\ slot' = [slot EXCEPT ![s] = IF refs[s] = 1 THEN "reactor" ELSE @]
            /\ conn' = [conn EXCEPT ![s] = @ /\ refs[s] # 1]
            /\ dead' = [dead EXCEPT ![s] = @ \/ refs[s] = 1]

ConsumedApply(w) == /\ w.k = "RELEASE" /\ slot[w.s] = "live" /\ Unref(w.s)
                    /\ UNCHANGED <<up, closed, opened, queue, fin>>

(* The stream has lost its connection: response_wire_discard. *)
ApplyGone(w) == /\ w.k \in WireKinds /\ ~conn[w.s]
                /\ dead' = [dead EXCEPT ![w.s] = @ \/ w.k = "STREAM_HEADERS"]
                /\ UNCHANGED <<refs, slot, conn, up, closed, opened, queue, fin>>

Accepting(s) == ~closed[s] /\ fin[s] = None /\ opened[s]

ApplyHead(w) == /\ w.k \in {"FULL", "SEND_FILE", "STREAM_HEADERS"} /\ conn[w.s]
                /\ \E ok \in BOOLEAN :
                     LET streaming == w.k = "STREAM_HEADERS"
                         outcome == IF ~ok THEN "refused" ELSE IF streaming THEN None ELSE "end"
                     IN /\ closed[w.s] => ~ok
                        /\ opened' = [opened EXCEPT ![w.s] = streaming]
                        /\ fin' = [fin EXCEPT ![w.s] = outcome]
                        /\ dead' = [dead EXCEPT ![w.s] = @ \/ (streaming /\ ~ok)]
                /\ UNCHANGED <<refs, slot, conn, up, closed, queue>>

ApplyChunk(w) == /\ w.k = "STREAM_CHUNK" /\ conn[w.s]
                 /\ queue' = [queue EXCEPT ![w.s] =
                                IF Accepting(w.s) THEN Append(@, w.n) ELSE @]
                 /\ UNCHANGED <<dead, refs, slot, conn, up, closed, opened, fin>>

ApplyEnd(w) == /\ w.k = "STREAM_END" /\ conn[w.s]
               /\ fin' = [fin EXCEPT ![w.s] = IF Accepting(w.s) THEN "end" ELSE @]
               /\ UNCHANGED <<dead, refs, slot, conn, up, closed, opened, queue>>

ApplyAbort(w) == /\ w.k = "STREAM_ABORT" /\ conn[w.s]
                 /\ fin' = [fin EXCEPT ![w.s] =
                              IF ~closed[w.s] /\ @ = None THEN "abort" ELSE @]
                 /\ UNCHANGED <<dead, refs, slot, conn, up, closed, opened, queue>>

(* reactor_drain runs the next command of the mailbox.  Nothing is said of a
   command for a slot that is already free. *)
Apply == /\ box # <<>> /\ box' = Tail(box)
         /\ LET w == Head(box)
            IN IF slot[w.s] # "live" THEN UNCHANGED rvars
               ELSE \/ ConsumedApply(w) \/ ApplyGone(w) \/ ApplyHead(w) \/ ApplyChunk(w)
                    \/ ApplyEnd(w) \/ ApplyAbort(w)
         /\ UNCHANGED <<wvars, pend, armed, flushing, spin>>

(* h3_stream_close_cb marks the stream and drops the reference of nghttp3's
   stream_user_data; a stream the worker still holds stays in the list. *)
StreamClose(s) == /\ up /\ conn[s] /\ ~closed[s]
                  /\ closed' = [closed EXCEPT ![s] = TRUE]
                  /\ refs' = [refs EXCEPT ![s] = @ - 1]
                  /\ slot' = [slot EXCEPT ![s] = IF refs[s] = 1 THEN "reactor" ELSE @]
                  /\ conn' = [conn EXCEPT ![s] = @ /\ refs[s] # 1]
                  /\ dead' = [dead EXCEPT ![s] = TRUE]
                  /\ UNCHANGED <<wvars, pvars, up, opened, queue, fin>>

(* http3_connection_free: every stream in the list loses its connection and one
   reference. *)
ConnFree == /\ up /\ up' = FALSE
            /\ conn' = [s \in Streams |-> FALSE]
            /\ refs' = [s \in Streams |-> IF conn[s] THEN refs[s] - 1 ELSE refs[s]]
            /\ slot' = [s \in Streams |-> IF conn[s] /\ refs[s] = 1 THEN "reactor" ELSE slot[s]]
            /\ dead' = [s \in Streams |-> dead[s] \/ (conn[s] /\ refs[s] = 1)]
            /\ UNCHANGED <<wvars, pvars, closed, opened, queue, fin>>

-----------------------------------------------------------------------------
Handler(s) == \/ OpenStream(s) \/ Chunk(s) \/ CreditLost(s) \/ MarkEnded(s) \/ Respond(s)
              \/ PostRelease(s) \/ FreeSlotHere(s)
Flush == TimerTick \/ FlushPost \/ FlushExpire \/ FlushEnd \/ FlushFail

Next == \/ \E s \in Streams : Handler(s) \/ StreamClose(s)
        \/ SpinPost \/ Flush \/ Apply \/ ConnFree

Spec == Init /\ [][Next]_vars

(* The worker's loop runs its timer and finishes what it has begun, handlers
   finish, and the reactor drains its mailbox. *)
Fairness == /\ WF_vars(Apply) /\ WF_vars(Flush) /\ WF_vars(SpinPost)
            /\ \A s \in Streams : WF_vars(MarkEnded(s)) /\ WF_vars(PostRelease(s) \/ FreeSlotHere(s))

FairSpec == Spec /\ Fairness
-----------------------------------------------------------------------------
(* Fragments never overtake each other, whichever of them went straight to the
   mailbox and whichever waited in the FIFO: the ring receives the chunks of a
   stream in the order the handler sent them (http_server_worker_response_sink). *)
ChunksInOrder ==
  \A s \in Streams : \A i, j \in 1..Len(queue[s]) : i < j => queue[s][i] < queue[s][j]

InFlight == Range(pend) \union Range(box)

(* The raw stream pointer a wire carries is valid when the reactor applies it:
   while the connection lives, a slot is free only when no post for it is under
   way, so the release has come after every wire of its stream. *)
WiresFindStream == up => \A w \in InFlight : slot[w.s] = "live"

(* A response whose chunks did not all reach the ring is not ended cleanly,
   unless a deadline took one of them. *)
CleanEndUnlessExpired ==
  \A s \in Streams : fin[s] = "end" /\ s \notin expired => Len(queue[s]) = posted[s]

(* The wires of a stream reach its ring whole and in order, or it is not ended. *)
WiresSound == ChunksInOrder /\ WiresFindStream /\ CleanEndUnlessExpired

(* The slot of a finished request whose stream has closed goes back to the pool:
   no release is lost in the mailbox, the FIFO or between the two, unless the
   timer that would retry it cannot be armed. *)
SlotReclaimed ==
  \A s \in Streams : (wpc[s] = "done" /\ closed[s]) ~> (slot[s] # "live" \/ ~up \/ s \in expired)

(* "a started stream must always get a terminal wire" (worker_dispatch.c:625):
   unless a deadline took one of its wires, the peer left or the wire could not
   even be deferred, the reactor ends every response the worker has ended. *)
TerminalApplied ==
  \A s \in Streams : (wpc[s] = "ended" /\ posted[s] > 0) ~>
                        (fin[s] # None \/ closed[s] \/ ~up \/ s \in expired \/ failed[s])

(* Nothing of a response is left behind: its last wire and its slot arrive. *)
ResponseEnds == SlotReclaimed /\ TerminalApplied

(* http3_dispatch.c:133: "The reactor keeps the stream alive via a worker-borrow
   ref until the consumed arrives", and the slot goes back to the slab on the
   reactor (http3_stream.c:82). *)
BorrowKeepsSlot ==
  \A s \in Streams : slot[s] # "worker" /\ (wpc[s] # "done" => slot[s] = "live")
=============================================================================
