--------------------------- MODULE StatsRegistry ---------------------------
(***************************************************************************)
(* The statistics slab (src/core/stats_registry.c): every worker counts in *)
(* a slot of its own without locks, a departing worker's totals are        *)
(* inherited, and getStats() sums inherited totals and live slots from any *)
(* thread, taking the lock only for the former.                            *)
(*                                                                         *)
(* A worker thread's critical sections are split where a reader, which     *)
(* does not hold the lock while it walks the slots, can get in between.    *)
(* One counter stands for the monotonic (SUM) fields; gauges and maxima,   *)
(* which die with their worker, are left out.                              *)
(***************************************************************************)
EXTENDS Integers, FiniteSets, FiniteSetsExt

CONSTANTS
  Workers,    \* worker clones, over all reloads
  Capacity,   \* slots in the slab: the size of the pool
  MaxCount    \* bound on the requests one worker serves

Slots == 1..Capacity
None == 0
Nobody == "nobody"

VARIABLES
  active,     \* slot -> its active flag
  sum,        \* slot -> its monotonic counter
  retired,    \* registry->retired (SUM fields only)
  admin,      \* holder of the admin mutex
  pc,         \* worker -> where it is
  at,         \* worker -> its stats_slot
  own,        \* worker -> what it has counted so far, in its slot or embedded
  rd          \* the reader: its place, partial sums and what was true before

vars == <<active, sum, retired, admin, pc, at, own, rd>>

NoRead == [pc |-> "idle", s |-> 0, sum |-> 0, before |-> 0, left |-> {}]

Init ==
  /\ active = [s \in Slots |-> FALSE]
  /\ sum = [s \in Slots |-> 0]
  /\ retired = 0
  /\ admin = Nobody
  /\ pc = [w \in Workers |-> "new"]
  /\ at = [w \in Workers |-> None]
  /\ own = [w \in Workers |-> 0]
  /\ rd = NoRead

\* Requests served by workers that have, or had, a slot.
TrueTotal == MapThenSumSet(LAMBDA w : own[w], {w \in Workers : at[w] # None})

---------------------------------------------------------------------------
\* http_stats_registry_claim, up to the store that publishes the slot: the
\* first free slot is zeroed under the lock.
ClaimZero(w) ==
  /\ pc[w] = "new" /\ admin = Nobody
  /\ \E free \in {{s \in Slots : ~active[s]}} :
       IF free = {} THEN /\ pc' = [pc EXCEPT ![w] = "embedded"]
                         /\ UNCHANGED <<sum, admin, at>>
       ELSE /\ at' = [at EXCEPT ![w] = Min(free)]
            /\ sum' = [sum EXCEPT ![Min(free)] = 0]
            /\ admin' = w
            /\ pc' = [pc EXCEPT ![w] = "publish"]
  /\ UNCHANGED <<active, retired, own, rd>>

\* active = 1; http_server_stats_up then points counters_live at the slot.
ClaimPublish(w) ==
  /\ pc[w] = "publish"
  /\ active' = [active EXCEPT ![at[w]] = TRUE]
  /\ admin' = Nobody
  /\ pc' = [pc EXCEPT ![w] = "live"]
  /\ UNCHANGED <<sum, retired, at, own, rd>>

\* A request through counters_live: the slot's, or the embedded slice's when
\* the slab was full.
Count(w) ==
  /\ own[w] < MaxCount
  /\ own' = [own EXCEPT ![w] = @ + 1]
  /\ \/ /\ pc[w] = "live"
        /\ sum' = [sum EXCEPT ![at[w]] = @ + 1]
     \/ /\ pc[w] = "embedded"
        /\ UNCHANGED sum
  /\ UNCHANGED <<active, retired, admin, pc, at, rd>>

(* Mutant: the slot is released without handing its totals on. *)
RetireInheritNothing(w) ==
  /\ pc[w] = "live" /\ admin = Nobody
  /\ admin' = w
  /\ pc' = [pc EXCEPT ![w] = "release"]
  /\ rd' = [rd EXCEPT !.left = IF rd.pc = "idle" THEN {} ELSE @ \cup {w}]
  /\ UNCHANGED <<active, sum, retired, at, own>>

\* http_stats_registry_retire, up to the store that frees the slot.
RetireInherit(w) ==
  /\ pc[w] = "live" /\ admin = Nobody
  /\ admin' = w
  /\ retired' = retired + sum[at[w]]
  /\ pc' = [pc EXCEPT ![w] = "release"]
  /\ rd' = [rd EXCEPT !.left = IF rd.pc = "idle" THEN {} ELSE @ \cup {w}]
  /\ UNCHANGED <<active, sum, at, own>>

\* active = 0
RetireRelease(w) ==
  /\ pc[w] = "release"
  /\ active' = [active EXCEPT ![at[w]] = FALSE]
  /\ admin' = Nobody
  /\ pc' = [pc EXCEPT ![w] = "gone"]
  /\ UNCHANGED <<sum, retired, at, own, rd>>

---------------------------------------------------------------------------
\* http_stats_registry_totals from getStats(): the inherited totals first.
\* before and left remember what was served and who has retired since.
ReadRetired ==
  /\ rd.pc = "idle" /\ admin = Nobody
  /\ rd' = [NoRead EXCEPT !.pc = "active", !.s = 1, !.sum = retired, !.before = TrueTotal]
  /\ UNCHANGED <<active, sum, retired, admin, pc, at, own>>

NextSlot(r) == IF r.s = Capacity THEN [r EXCEPT !.pc = "done"]
               ELSE [r EXCEPT !.pc = "active", !.s = @ + 1]

\* http_stats_slot_active
ReadActive ==
  /\ rd.pc = "active"
  /\ rd' = IF active[rd.s] THEN [rd EXCEPT !.pc = "sum"] ELSE NextSlot(rd)
  /\ UNCHANGED <<active, sum, retired, admin, pc, at, own>>

\* The counter is loaded whatever became of the slot since.
ReadSum ==
  /\ rd.pc = "sum"
  /\ rd' = NextSlot([rd EXCEPT !.sum = @ + sum[rd.s]])
  /\ UNCHANGED <<active, sum, retired, admin, pc, at, own>>

Report ==
  /\ rd.pc = "done"
  /\ rd' = NoRead
  /\ UNCHANGED <<active, sum, retired, admin, pc, at, own>>

Next ==
  \/ \E w \in Workers : ClaimZero(w) \/ ClaimPublish(w) \/ Count(w)
                         \/ RetireInherit(w) \/ RetireRelease(w)
  \/ ReadRetired \/ ReadActive \/ ReadSum \/ Report

Spec == Init /\ [][Next]_vars

---------------------------------------------------------------------------
\* However claims, retirements and a reading interleave, no request is counted
\* twice: what getStats() reports is never more than what was served by then.
NeverOvercounts == rd.pc = "done" => rd.sum <= TrueTotal

\* With no worker leaving meanwhile, a reading contains everything served
\* before it began; "the aggregate is stale" only by workers in retirement.
CompleteUnlessRetiring == (rd.pc = "done" /\ rd.left = {}) => rd.sum >= rd.before

\* Both: a reading lies between what was served before it and what is now.
ReadingSound == NeverOvercounts /\ CompleteUnlessRetiring
============================================================================
