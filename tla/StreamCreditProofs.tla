------------------------ MODULE StreamCreditProofs ------------------------
(***************************************************************************)
(* Safety of the credit block for every cap and every number of chunks:    *)
(* its references are exact, no disposed trigger is signalled, and no      *)
(* acknowledgement that makes room is lost on a producer about to park.    *)
(***************************************************************************)
EXTENDS StreamCredit, TLAPS

Running == {"run", "credit", "full", "suspend", "parked"}

(* busy counts the one signaller between its increment and its decrement. *)
BusyExact == busy = IF rpc \in {"load", "trigger", "dec"} THEN 1 ELSE 0

(* The pointer is published exactly while the coroutine may park; a signaller
   that read it is still inside the bracket, which the spin waits out. *)
WakerLife ==
  /\ waker <=> event = "live" /\ wpc \in Running
  /\ event = "live" => wpc \notin {"idle", "gone"}
  /\ event = "disposed" => wpc = "gone"
  /\ loaded => rpc = "trigger" /\ event = "live" /\ wpc \in Running \union {"spin"}

HolderLife == /\ rpc # "idle" => holder # "none"
              /\ holder # "none" => wpc # "idle"
              /\ rpc = "release" => dropping

(* Once the trigger is published, room made since the last look at acked is on
   its way to the coroutine, before it suspends as well as after. *)
RoomSignalled ==
  wpc \in {"full", "suspend", "parked"} /\ event = "live" /\ Inflight < InflightCap
    => signal \/ loaded \/ rpc \in {"inc", "load"}

ParkedPublished == wpc = "parked" => event = "live"

(* append_chunk comes back without failing only when there is room. *)
RunHasRoom == wpc \in {"idle", "run"} /\ ~failed /\ ~unbounded => Inflight < InflightCap

IInv == /\ TypeOK /\ RefsExact /\ BusyExact /\ WakerLife /\ HolderLife
        /\ RoomSignalled /\ ParkedPublished /\ InflightBounded /\ RunHasRoom

(* The invariant holds before the block is created. *)
LEMMA InitInv == Init => IInv
  <1> SUFFICES ASSUME Init PROVE IInv  OBVIOUS
  <1>1. /\ failed \in BOOLEAN /\ unbounded \in BOOLEAN /\ signal \in BOOLEAN
        /\ dead \in BOOLEAN /\ waker \in BOOLEAN /\ closed \in BOOLEAN
        /\ torn \in BOOLEAN /\ dropping \in BOOLEAN /\ loaded \in BOOLEAN
    BY Zenon DEF Init
  <1>2. TypeOK  BY <1>1, CreditAssumption DEF Init, TypeOK
  <1>3. InflightBounded /\ RunHasRoom
    BY CreditAssumption DEF Init, InflightBounded, RunHasRoom, Inflight
  <1>4. QED
    BY <1>2, <1>3 DEF Init, IInv, RefsExact, WorkerHolds, BusyExact, WakerLife, HolderLife,
                      RoomSignalled, ParkedPublished, Running

(* The steps of the handler coroutine keep the invariant. *)
LEMMA WorkerInv == IInv /\ Worker => IInv'
  <1> SUFFICES ASSUME IInv, Worker PROVE IInv'  OBVIOUS
  <1> USE CreditAssumption DEF IInv, TypeOK, RefsExact, WorkerHolds, BusyExact, WakerLife,
          HolderLife, RoomSignalled, ParkedPublished, InflightBounded, RunHasRoom,
          Running, Inflight, wvars, rvars, cvars
  <1>1. CASE Open  BY <1>1 DEF Open
  <1>2. CASE OpenUndelivered  BY <1>2 DEF OpenUndelivered
  <1>3. CASE Append  BY <1>3 DEF Append
  <1>4. CASE LoadAcked  BY <1>4 DEF LoadAcked
  <1>5. CASE LoadDead  BY <1>5 DEF LoadDead
  <1>6. CASE Degrade  BY <1>6 DEF Degrade
  <1>7. CASE Publish  BY <1>7 DEF Publish
  <1>8. CASE Park  BY <1>8 DEF Park
  <1>9. CASE Resume \/ IgnoreSignal
    <2>1. signal' \in BOOLEAN  BY <1>9, Zenon DEF Resume, IgnoreSignal
    <2>2. QED  BY <1>9, <2>1 DEF Resume, IgnoreSignal
  <1>10. CASE Timeout \/ Cancel
    <2>1. failed' \in BOOLEAN  BY <1>10, Zenon DEF Timeout, Cancel, GiveUp
    <2>2. QED  BY <1>10, <2>1 DEF Timeout, Cancel, GiveUp
  <1>11. CASE ClearWaker
    <2>1. waker' \in BOOLEAN  BY <1>11, Zenon DEF ClearWaker
    <2>2. QED  BY <1>11, <2>1 DEF ClearWaker
  <1>12. CASE SpinDone  BY <1>12 DEF SpinDone
  <1>13. CASE WorkerRelease  BY <1>13 DEF WorkerRelease
  <1>14. CASE DisposeTrigger
    <2>1. signal' \in BOOLEAN  BY <1>14, Zenon DEF DisposeTrigger
    <2>2. QED  BY <1>14, <2>1 DEF DisposeTrigger
  <1>15. QED
    BY <1>1, <1>2, <1>3, <1>4, <1>5, <1>6, <1>7, <1>8, <1>9, <1>10, <1>11, <1>12,
       <1>13, <1>14 DEF Worker

(* The steps of the other holder keep the invariant. *)
LEMMA HolderInv == IInv /\ Holder => IInv'
  <1> SUFFICES ASSUME IInv, Holder PROVE IInv'  OBVIOUS
  <1> USE CreditAssumption DEF IInv, TypeOK, RefsExact, WorkerHolds, BusyExact, WakerLife,
          HolderLife, RoomSignalled, ParkedPublished, InflightBounded, RunHasRoom,
          Running, Inflight, wvars, rvars, cvars, Live
  <1>1. CASE Adopt  BY <1>1 DEF Adopt
  <1>2. CASE Ack  BY <1>2 DEF Ack
  <1>3. CASE PeerClosed  BY <1>3 DEF PeerClosed
  <1>4. CASE ConnTeardown  BY <1>4 DEF ConnTeardown
  <1>5. CASE DiscardWire \/ StreamRelease
    <2>1. dead' \in BOOLEAN /\ dropping' \in BOOLEAN
      BY <1>5, Zenon DEF DiscardWire, StreamRelease, StartAbandon
    <2>2. QED  BY <1>5, <2>1 DEF DiscardWire, StreamRelease, StartAbandon
  <1>6. CASE WakeInc  BY <1>6 DEF WakeInc
  <1>7. CASE WakeLoad  BY <1>7 DEF WakeLoad
  <1>8. CASE WakeTrigger
    <2>1. signal' \in BOOLEAN /\ loaded' \in BOOLEAN  BY <1>8, Zenon DEF WakeTrigger
    <2>2. QED  BY <1>8, <2>1 DEF WakeTrigger
  <1>9. CASE WakeDec  BY <1>9 DEF WakeDec
  <1>10. CASE AbandonRelease
    <2>1. dropping' \in BOOLEAN  BY <1>10, Zenon DEF AbandonRelease
    <2>2. QED  BY <1>10, <2>1 DEF AbandonRelease
  <1>11. QED
    BY <1>1, <1>2, <1>3, <1>4, <1>5, <1>6, <1>7, <1>8, <1>9, <1>10 DEF Holder

(* The invariant holds in every behaviour. *)
LEMMA InvAlways == Spec => []IInv
  <1>1. IInv /\ UNCHANGED vars => IInv'
    BY DEF IInv, TypeOK, RefsExact, WorkerHolds, BusyExact, WakerLife, HolderLife,
           RoomSignalled, ParkedPublished, InflightBounded, RunHasRoom, Running, Inflight,
           vars, wvars, rvars, cvars
  <1>2. IInv /\ [Next]_vars => IInv'
    BY <1>1, WorkerInv, HolderInv DEF Next
  <1>3. QED  BY <1>2, InitInv, PTL DEF Spec

(* Every side that still uses the block holds one of its references, and the
   references are no more than those: the free in stream_credit_release comes
   after the last use, and comes once. *)
THEOREM CreditRefsExact == Spec => []RefsExact
  <1>1. IInv => RefsExact  BY DEF IInv
  <1>2. QED  BY <1>1, InvAlways, PTL

(* stream_credit_clear_waker fences out every signaller before the worker
   disposes of the trigger event. *)
THEOREM CreditNoTriggerAfterDispose == Spec => []NoTriggerAfterDispose
  <1>1. IInv => NoTriggerAfterDispose  BY DEF IInv, WakerLife, NoTriggerAfterDispose
  <1>2. QED  BY <1>1, InvAlways, PTL

(* Publish, then look again: no acknowledgement is lost on a producer that
   parks, for any cap and any number of chunks. *)
THEOREM CreditNoLostWakeup == Spec => []NoLostWakeup
  <1>1. IInv => NoLostWakeup
    BY DEF IInv, RoomSignalled, ParkedPublished, NoLostWakeup
  <1>2. QED  BY <1>1, InvAlways, PTL

(* The producer stays within the in-flight cap unless it had to degrade. *)
THEOREM CreditInflightBounded == Spec => []InflightBounded
  <1>1. IInv => InflightBounded  BY DEF IInv
  <1>2. QED  BY <1>1, InvAlways, PTL
=============================================================================
