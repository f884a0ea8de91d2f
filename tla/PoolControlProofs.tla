------------------------- MODULE PoolControlProofs -------------------------
(***************************************************************************)
(* For any number of workers, reloads and stop() callers: the completion   *)
(* count of the pool is exact, generations of workers never overlap, and a *)
(* stop() whose pool was awaited to the end leaves no worker behind.       *)
(***************************************************************************)
EXTENDS PoolControl, FiniteSetTheorems, TLAPS

PoolTypeOK ==
  /\ wpc \in [Tasks -> {"none", "queued", "checked", "joined", "running", "retiring",
                        "stopped", "exited", "done"}]
  /\ pending \in Int
  /\ rotating \in BOOLEAN
  /\ cohort \in 0 .. MaxReloads
  /\ st \in {"none", "live", "freed"}
  /\ spc \in [Stoppers -> {"idle", "waiting", "returned"}]

\* st lives exactly from the submit of the first cohort to the cleanup, which
\* is also when the stop() callers return.
AwaitBlock ==
  /\ ppc = "new" => st = "none"
  /\ ppc \in {"await", "cleanup"} => st = "live"
  /\ st = "live" => ppc \in {"await", "cleanup"}
  /\ \A s \in Stoppers : spc[s] = "returned" => st = "freed"

\* Before the first submit nobody runs.
NothingBefore ==
  st = "none" => /\ cohort = 0 /\ ~rotating
                 /\ \A t \in Tasks : wpc[t] = "none"

\* A rotation has room for the cohort it reserved.
RotationFits == rotating => cohort < MaxReloads

\* After the cleanup the count is frozen, and it was exact.
FrozenExact == st = "freed" /\ pending = 0 => \A t \in Tasks : ~Live(t)

IInv == /\ PoolTypeOK /\ AwaitBlock /\ NothingBefore /\ RotationFits /\ FrozenExact
        /\ PendingExact /\ OneCohort

Alive  == {t \in Tasks : Live(t)}
Stages == {"queued", "checked", "joined", "running", "retiring", "stopped", "exited"}

-----------------------------------------------------------------------------
\* The tasks are finitely many, and so are those alive.
LEMMA TasksFinite ==
  ASSUME PoolAssumption
  PROVE  /\ Tasks = (0 .. MaxReloads) \X (1 .. N)
         /\ IsFiniteSet(Tasks)
         /\ IsFiniteSet(Alive) /\ Cardinality(Alive) \in Nat
<1>1. Tasks = (0 .. MaxReloads) \X (1 .. N)
  BY DEF Tasks, Cohort
<1>2. IsFiniteSet(0 .. MaxReloads) /\ IsFiniteSet(1 .. N)
  BY FS_Interval DEF PoolAssumption
<1>3. IsFiniteSet(Tasks)
  BY Zenon, <1>1, <1>2, FS_Product
<1>4. Alive \in SUBSET Tasks
  BY DEF Alive
<1> QED BY <1>1, <1>3, <1>4, FS_Subset, FS_CardinalityType

\* The tasks of one cohort are as many as their indices.
LEMMA CohortCount ==
  ASSUME PoolAssumption, NEW g \in Nat, NEW S \in SUBSET (1 .. N)
  PROVE  Cardinality({g} \X S) = Cardinality(S)
<1>1. IsFiniteSet(1 .. N)
  BY FS_Interval DEF PoolAssumption
<1>2. IsFiniteSet(S) /\ Cardinality(S) \in Nat
  BY Zenon, <1>1, FS_Subset, FS_CardinalityType
<1>3. IsFiniteSet({g}) /\ Cardinality({g}) = 1
  BY Zenon, FS_Singleton
<1>4. Cardinality({g} \X S) = Cardinality({g}) * Cardinality(S)
  BY <1>2, <1>3, FS_Product
<1> QED BY <1>2, <1>3, <1>4

\* PendingExact in terms of Alive, in this state and in the next.
LEMMA Exact ==
  /\ PendingExact <=>
       (st = "live" => pending = Cardinality(Alive) + (IF rotating THEN N ELSE 0))
  /\ PendingExact' <=>
       (st' = "live" => pending' = Cardinality(Alive') + (IF rotating' THEN N ELSE 0))
BY DEF PendingExact, Alive

\* The invariant holds before start().
LEMMA InitHolds == ASSUME PoolAssumption, Init PROVE IInv
<1>1. PoolTypeOK
  <2>1. wpc \in [Tasks -> {"none", "queued", "checked", "joined", "running", "retiring",
                           "stopped", "exited", "done"}]
    BY DEF Init
  <2>2. spc \in [Stoppers -> {"idle", "waiting", "returned"}]
    BY DEF Init
  <2>3. pending \in Int /\ cohort \in 0 .. MaxReloads
    BY DEF Init, PoolAssumption
  <2>4. rotating \in BOOLEAN /\ st \in {"none", "live", "freed"}
    BY DEF Init
  <2> QED BY <2>1, <2>2, <2>3, <2>4 DEF PoolTypeOK
<1>2. AwaitBlock /\ NothingBefore /\ RotationFits
  BY DEF Init, AwaitBlock, NothingBefore, RotationFits
<1>3. FrozenExact /\ PendingExact /\ OneCohort
  BY DEF Init, FrozenExact, PendingExact, OneCohort, Live
<1> QED BY <1>1, <1>2, <1>3 DEF IInv

\* A worker that moves on, and stays alive, disturbs nothing the parent counts.
LEMMA LivesOn ==
  ASSUME IInv, NEW t \in Tasks, wpc[t] \in Stages,
         NEW x \in Stages, wpc' = [wpc EXCEPT ![t] = x],
         UNCHANGED <<await, parent>>
  PROVE  IInv'
<1> USE DEF IInv, Stages
<1>1. wpc' \in [Tasks -> {"none", "queued", "checked", "joined", "running", "retiring",
                          "stopped", "exited", "done"}]
  BY DEF PoolTypeOK
<1>2. \A u \in Tasks : Live(u)' <=> Live(u)
  BY DEF Live, PoolTypeOK
<1>3. \A u \in Tasks : wpc[u] = "none" => wpc'[u] = "none"
  BY DEF PoolTypeOK
<1>4. Alive' = Alive
  BY <1>2 DEF Alive
<1>5. PoolTypeOK'
  BY <1>1 DEF PoolTypeOK, await, parent
<1>6. AwaitBlock' /\ RotationFits'
  BY DEF AwaitBlock, RotationFits, await, parent
<1>7. NothingBefore'
  BY <1>3 DEF NothingBefore, await, parent
<1>8. FrozenExact' /\ OneCohort'
  BY <1>2 DEF FrozenExact, OneCohort, await, parent
<1>9. PendingExact'
  BY <1>4, Exact DEF await, parent
<1> QED BY <1>5, <1>6, <1>7, <1>8, <1>9

\* Steps that leave the workers and the count alone.
LEMMA CountKept ==
  ASSUME IInv, wpc' = wpc, UNCHANGED <<pending, rotating, cohort>>,
         st' = "freed" /\ st # "live" => st = "freed", st' # "freed" => st' = st, AwaitBlock',
         spc' \in [Stoppers -> {"idle", "waiting", "returned"}], PoolAssumption
  PROVE  IInv'
<1>1. Alive' = Alive /\ \A u \in Tasks : Live(u)' <=> Live(u)
  BY DEF Alive, Live
<1>2. PoolTypeOK' /\ RotationFits' /\ NothingBefore'
  BY DEF IInv, PoolTypeOK, RotationFits, NothingBefore
<1>3. OneCohort' /\ PendingExact'
  BY <1>1, Exact DEF IInv, OneCohort
<1>4. FrozenExact'
  <2>1. CASE st # "live"
    BY <1>1, <2>1 DEF IInv, FrozenExact
  <2>2. CASE st = "live"
    <3> SUFFICES ASSUME pending = 0 PROVE Alive = {}
      BY <1>1, <2>2 DEF FrozenExact, Alive
    <3>1. 0 = Cardinality(Alive) + (IF rotating THEN N ELSE 0)
      BY <2>2, Exact DEF IInv
    <3>2. Cardinality(Alive) = 0
      BY <3>1, TasksFinite DEF PoolAssumption
    <3> QED BY <3>2, TasksFinite, FS_EmptySet
  <2> QED BY <2>1, <2>2
<1> QED BY <1>2, <1>3, <1>4 DEF IInv

\* start_pool submits the first cohort, or the first part of it.
LEMMA StartStepHolds == ASSUME PoolAssumption, IInv, StartPool PROVE IInv'
<1> PICK k \in 0 .. N :
         /\ wpc' = [t \in Tasks |-> IF t[1] = 0 /\ t[2] <= k THEN "queued" ELSE wpc[t]]
         /\ pending' = k
         /\ ppc' = IF k = 0 THEN "cleanup" ELSE "await"
  BY DEF StartPool
<1>0. /\ st = "none" /\ st' = "live" /\ UNCHANGED <<rotating, cohort, spc>>
      /\ cohort = 0 /\ rotating = FALSE /\ \A t \in Tasks : wpc[t] = "none"
      /\ k \in Nat /\ 1 .. k \in SUBSET (1 .. N)
  BY DEF StartPool, IInv, AwaitBlock, NothingBefore, PoolTypeOK, PoolAssumption
<1>1. \A t \in Tasks : Live(t)' <=> t[1] = 0 /\ t[2] <= k
  BY <1>0 DEF Live
<1>2. Alive' = {0} \X (1 .. k)
  <2>1. \A t \in Tasks : t = <<t[1], t[2]>> /\ t[2] \in 1 .. N
    BY TasksFinite
  <2>2. \A i \in 1 .. k : <<0, i>> \in Tasks
    BY <1>0, TasksFinite DEF PoolAssumption
  <2>3. Alive' = {t \in Tasks : t[1] = 0 /\ t[2] <= k}
    BY <1>1 DEF Alive
  <2>4. \A t \in Alive' : t \in {0} \X (1 .. k)
    BY <2>1, <2>3, <1>0 DEF PoolAssumption
  <2>5. \A t \in {0} \X (1 .. k) : t \in Alive'
    BY <2>2, <2>3, <1>0
  <2> QED BY <2>4, <2>5
<1>3. Cardinality(Alive') = k
  <2>1. Cardinality(Alive') = Cardinality(1 .. k)
    BY <1>0, <1>2, CohortCount
  <2>2. Cardinality(1 .. k) = IF 1 > k THEN 0 ELSE k - 1 + 1
    BY <1>0, FS_Interval
  <2> QED BY <1>0, <2>1, <2>2
<1>4. PoolTypeOK'
  <2>1. wpc' \in [Tasks -> {"none", "queued", "checked", "joined", "running", "retiring",
                            "stopped", "exited", "done"}]
    BY DEF IInv, PoolTypeOK
  <2> QED BY <1>0, <2>1 DEF IInv, PoolTypeOK
<1>5. AwaitBlock' /\ NothingBefore' /\ RotationFits' /\ FrozenExact'
  BY <1>0 DEF IInv, AwaitBlock, NothingBefore, RotationFits, FrozenExact
<1>6. PendingExact'
  BY <1>0, <1>3, Exact
<1>7. OneCohort'
  BY <1>0, <1>1 DEF OneCohort
<1> QED BY <1>4, <1>5, <1>6, <1>7 DEF IInv

\* The parent sees a completion.
LEMMA DoneHolds == ASSUME PoolAssumption, IInv, NEW t \in Tasks, Done(t) PROVE IInv'
<1>0. /\ st = "live" /\ st' = st /\ wpc[t] = "exited" /\ pending' = pending - 1
      /\ wpc' = [wpc EXCEPT ![t] = "done"]
      /\ UNCHANGED <<ppc, rotating, cohort, spc>>
  BY DEF Done, Release, parent
<1>1. \A u \in Tasks : Live(u)' <=> Live(u) /\ u # t
  BY <1>0 DEF Live, IInv, PoolTypeOK
<1>2. Alive' = Alive \ {t} /\ t \in Alive
  BY <1>0, <1>1 DEF Alive, Live
<1>3. Cardinality(Alive') = Cardinality(Alive) - 1 /\ Cardinality(Alive) \in Nat
  BY Zenon, <1>2, TasksFinite, FS_RemoveElement
<1>4. PoolTypeOK'
  <2>1. wpc' \in [Tasks -> {"none", "queued", "checked", "joined", "running", "retiring",
                            "stopped", "exited", "done"}]
    BY <1>0 DEF IInv, PoolTypeOK
  <2> QED BY <1>0, <2>1 DEF IInv, PoolTypeOK
<1>5. AwaitBlock' /\ NothingBefore' /\ RotationFits' /\ FrozenExact'
  BY <1>0 DEF IInv, AwaitBlock, NothingBefore, RotationFits, FrozenExact
<1>6. PendingExact'
  BY <1>0, <1>3, Exact DEF IInv, PoolAssumption
<1>7. OneCohort'
  BY <1>0, <1>1 DEF IInv, OneCohort
<1> QED BY <1>4, <1>5, <1>6, <1>7 DEF IInv

\* reload() reserves a cohort's completions, and gives them back when the
\* rotation comes to nothing.
LEMMA ReserveHolds ==
  ASSUME PoolAssumption, IInv, st = "live",
         \/ rotating = FALSE /\ rotating' = TRUE /\ cohort < MaxReloads /\ pending' = pending + N
         \/ rotating = TRUE /\ rotating' = FALSE /\ pending' = pending - N,
         UNCHANGED <<wpc, st, ppc, cohort, spc>>
  PROVE  IInv'
<1>1. Alive' = Alive /\ \A u \in Tasks : Live(u)' <=> Live(u)
  BY DEF Alive, Live
<1>2. PoolTypeOK' /\ AwaitBlock' /\ NothingBefore' /\ RotationFits' /\ FrozenExact'
  <2>1. PoolTypeOK'
    <3>1. pending' \in Int
      BY DEF IInv, PoolTypeOK, PoolAssumption
    <3>2. rotating' \in BOOLEAN
      OBVIOUS
    <3> QED BY <3>1, <3>2 DEF IInv, PoolTypeOK
  <2>2. AwaitBlock' /\ NothingBefore'
    BY DEF IInv, AwaitBlock, NothingBefore
  <2>3. RotationFits' /\ FrozenExact'
    BY DEF IInv, RotationFits, FrozenExact
  <2> QED BY <2>1, <2>2, <2>3
<1>3. PendingExact'
  <2>1. Cardinality(Alive) \in Nat /\ N \in Int /\ pending \in Int
    BY TasksFinite DEF PoolAssumption, IInv, PoolTypeOK
  <2> QED BY <1>1, <2>1, Exact DEF IInv
<1>4. OneCohort'
  BY <1>1 DEF IInv, OneCohort
<1> QED BY <1>2, <1>3, <1>4 DEF IInv

\* The rotation is over: nobody of the old cohort is left, and the fresh one
\* is as many as were submitted.
LEMMA ResubmitHolds == ASSUME PoolAssumption, IInv, RotationResubmits PROVE IInv'
<1> PICK ok \in SUBSET (1 .. N) :
         wpc' = Submitted(ok) /\ Release(pending - (N - Cardinality(ok)))
  BY DEF RotationResubmits, Resubmit
<1>0. /\ st = "live" /\ st' = st /\ rotating = TRUE /\ rotating' = FALSE
      /\ cohort' = cohort + 1 /\ UNCHANGED <<ppc, spc>>
      /\ pending' = pending - (N - Cardinality(ok))
      /\ \A t \in Cohort(cohort) : wpc[t] \in {"none", "done"}
      /\ cohort \in Nat /\ cohort + 1 \in 0 .. MaxReloads
  BY DEF RotationResubmits, Rotated, Resubmit, Release, IInv, PoolTypeOK, RotationFits,
         PoolAssumption
<1>1. \A t \in Tasks : t = <<t[1], t[2]>> /\ t[1] \in 0 .. MaxReloads /\ t[2] \in 1 .. N
  BY TasksFinite
<1>2. \A t \in Tasks : ~Live(t)
  <2> SUFFICES ASSUME NEW t \in Tasks, Live(t) PROVE FALSE
    OBVIOUS
  <2>1. t[1] = cohort
    BY DEF IInv, OneCohort
  <2>2. t \in Cohort(cohort)
    BY <1>1, <2>1 DEF Cohort
  <2> QED BY <1>0, <2>2 DEF Live
<1>3. \A t \in Tasks : Live(t)' <=> t[1] = cohort + 1 /\ t[2] \in ok
  BY <1>2 DEF Live, Submitted
<1>4. Alive' = {cohort + 1} \X ok
  <2>1. Alive' = {t \in Tasks : t[1] = cohort + 1 /\ t[2] \in ok}
    BY <1>3 DEF Alive
  <2>2. \A t \in Alive' : t \in {cohort + 1} \X ok
    BY <1>1, <2>1
  <2>3. \A i \in ok : <<cohort + 1, i>> \in Tasks
    BY <1>0, TasksFinite
  <2>4. \A t \in {cohort + 1} \X ok : t = <<t[1], t[2]>> /\ t[1] = cohort + 1 /\ t[2] \in ok
    OBVIOUS
  <2>5. ASSUME NEW t \in {cohort + 1} \X ok PROVE t \in Alive'
    <3>1. t = <<t[1], t[2]>> /\ t[1] = cohort + 1 /\ t[2] \in ok
      BY Zenon, <2>4
    <3>2. t \in Tasks
      BY Zenon, <2>3, <3>1
    <3> QED BY Zenon, <2>1, <3>1, <3>2
  <2> QED BY <2>2, <2>5
<1>5. Cardinality(Alive) = 0 /\ Cardinality(Alive') = Cardinality(ok) /\ Cardinality(ok) \in Nat
  <2>1. Alive = {}
    BY <1>2 DEF Alive
  <2>2. IsFiniteSet(1 .. N)
    BY FS_Interval DEF PoolAssumption
  <2>3. Cardinality(ok) \in Nat
    BY Zenon, <2>2, FS_Subset, FS_CardinalityType
  <2>4. Cardinality(Alive') = Cardinality(ok)
    BY <1>0, <1>4, CohortCount
  <2> QED BY <2>1, <2>3, <2>4, FS_EmptySet
<1>6. PoolTypeOK'
  <2>1. wpc' \in [Tasks -> {"none", "queued", "checked", "joined", "running", "retiring",
                            "stopped", "exited", "done"}]
    BY DEF IInv, PoolTypeOK, Submitted
  <2>2. pending' \in Int
    BY <1>0, <1>5 DEF IInv, PoolTypeOK, PoolAssumption
  <2> QED BY <1>0, <2>1, <2>2 DEF IInv, PoolTypeOK
<1>7. AwaitBlock' /\ NothingBefore'
  BY <1>0 DEF IInv, AwaitBlock, NothingBefore
<1>8. RotationFits' /\ FrozenExact'
  BY <1>0 DEF RotationFits, FrozenExact
<1>9. PendingExact'
  <2>1. pending = 0 + N
    BY <1>0, <1>5, Exact DEF IInv
  <2>2. pending' = Cardinality(ok)
    BY <1>0, <1>5, <2>1 DEF PoolAssumption
  <2> QED BY <1>0, <1>5, <2>2, Exact
<1>10. OneCohort'
  BY <1>0, <1>3 DEF OneCohort
<1> QED BY <1>6, <1>7, <1>8, <1>9, <1>10 DEF IInv

\* Every step keeps the invariant.
LEMMA NextHolds == ASSUME PoolAssumption, IInv, [Next]_vars PROVE IInv'
<1> USE DEF IInv
<1>0. CASE StartPool
  BY <1>0, StartStepHolds
<1>1. CASE Ring
  <2>1. UNCHANGED wpc /\ UNCHANGED <<pending, rotating, cohort>> /\ UNCHANGED st
        /\ UNCHANGED spc /\ UNCHANGED ppc
    BY <1>1 DEF Ring, await, parent
  <2>2. AwaitBlock' /\ spc' \in [Stoppers -> {"idle", "waiting", "returned"}]
    BY <2>1 DEF AwaitBlock, PoolTypeOK
  <2> QED BY <2>1, <2>2, CountKept
<1>2. CASE AwaitResolved \/ AwaitCancelled
  <2>1. /\ UNCHANGED wpc /\ UNCHANGED <<pending, rotating, cohort>> /\ UNCHANGED st
        /\ UNCHANGED spc /\ ppc = "await" /\ ppc' = "cleanup"
    BY <1>2 DEF AwaitResolved, AwaitCancelled, AwaitEnds
  <2>2. AwaitBlock' /\ spc' \in [Stoppers -> {"idle", "waiting", "returned"}]
    BY <2>1 DEF AwaitBlock, PoolTypeOK
  <2> QED BY <2>1, <2>2, CountKept
<1>3. CASE Cleanup
  <2>1. /\ UNCHANGED <<pending, rotating, cohort, wpc>>
        /\ st = "live" /\ st' = "freed" /\ ppc' = "down"
    BY <1>3 DEF Cleanup, AwaitBlock
  <2>2. spc' \in [Stoppers -> {"idle", "waiting", "returned"}]
    BY <1>3 DEF Cleanup, PoolTypeOK
  <2>3. AwaitBlock'
    BY <2>1 DEF AwaitBlock
  <2> QED BY <2>1, <2>2, <2>3, CountKept
<1>4. CASE Reload
  <2>1. /\ rotating = FALSE /\ rotating' = TRUE /\ cohort < MaxReloads
        /\ pending' = pending + N /\ st = "live" /\ UNCHANGED <<wpc, st, ppc, cohort, spc>>
    BY <1>4 DEF Reload, AwaitBlock, PoolTypeOK
  <2> QED BY Zenon, <2>1, ReserveHolds
<1>5. CASE RotationAborted \/ RotationCancelled
  <2>1. /\ rotating = TRUE /\ rotating' = FALSE
        /\ pending' = pending - N /\ st = "live" /\ UNCHANGED <<wpc, st, ppc, cohort, spc>>
    BY <1>5 DEF RotationAborted, RotationCancelled, Rotated, Unreserve, Release, PoolTypeOK
  <2> QED BY Zenon, <2>1, ReserveHolds
<1>6. CASE RotationResubmits
  BY <1>6, ResubmitHolds
<1>7. ASSUME NEW s \in Stoppers, Stop(s) PROVE IInv'
  <2>1. /\ UNCHANGED wpc /\ UNCHANGED <<pending, rotating, cohort>> /\ UNCHANGED st
        /\ UNCHANGED ppc /\ ppc = "await"
        /\ spc' = [spc EXCEPT ![s] = "waiting"]
    BY <1>7 DEF Stop, await
  <2>2. spc' \in [Stoppers -> {"idle", "waiting", "returned"}]
    BY <2>1 DEF PoolTypeOK
  <2>3. AwaitBlock'
    BY <2>1 DEF AwaitBlock, PoolTypeOK
  <2> QED BY <2>1, <2>2, <2>3, CountKept
<1>8. ASSUME NEW t \in Tasks, StartStep(t) \/ Wake(t) \/ Retire(t) \/ Quit(t) PROVE IInv'
  <2>0. UNCHANGED <<await, parent>>
    BY <1>8 DEF StartStep, CheckCommand, Join, Serve, StartFails, DrainScope, Wake, Retire, Quit
  <2>1. wpc[t] \in Stages
    BY <1>8 DEF StartStep, CheckCommand, Join, Serve, StartFails, DrainScope, Wake, Retire, Quit,
                Stages
  <2>2. \E x \in Stages : wpc' = [wpc EXCEPT ![t] = x]
    <3>1. CASE CheckCommand(t)
      BY Zenon, <3>1 DEF CheckCommand, Stages
    <3>2. CASE Join(t)
      BY <3>2 DEF Join, Stages
    <3>3. CASE Serve(t)
      BY <3>3 DEF Serve, Stages
    <3>4. CASE StartFails(t)
      BY <3>4 DEF StartFails, Stages
    <3>5. CASE DrainScope(t)
      BY <3>5 DEF DrainScope, Stages
    <3>6. CASE Wake(t)
      <4>1. wpc = [wpc EXCEPT ![t] = wpc[t]]
        BY DEF PoolTypeOK
      <4> QED BY Zenon, <3>6, <4>1, <2>1 DEF Wake, Stages
    <3>7. CASE Retire(t)
      BY <3>7 DEF Retire, Stages
    <3>8. CASE Quit(t)
      BY <3>8 DEF Quit, Stages
    <3> QED BY <1>8, <3>1, <3>2, <3>3, <3>4, <3>5, <3>6, <3>7, <3>8 DEF StartStep
  <2> QED BY Zenon, <2>0, <2>1, <2>2, LivesOn
<1>9. ASSUME NEW t \in Tasks, Done(t) PROVE IInv'
  BY <1>9, DoneHolds
<1>10. CASE UNCHANGED vars
  <2>1. UNCHANGED wpc /\ UNCHANGED <<pending, rotating, cohort>> /\ UNCHANGED st
        /\ UNCHANGED spc /\ UNCHANGED ppc
    BY <1>10 DEF vars, await, parent
  <2>2. AwaitBlock' /\ spc' \in [Stoppers -> {"idle", "waiting", "returned"}]
    BY <2>1 DEF AwaitBlock, PoolTypeOK
  <2> QED BY <2>1, <2>2, CountKept
<1> QED BY <1>0, <1>1, <1>2, <1>3, <1>4, <1>5, <1>6, <1>7, <1>8, <1>9, <1>10
        DEF Next, ReloadResumes

(* For any number of workers, reloads and stop() callers: st->pending counts *)
(* exactly the completions start_pool still owes itself, a cohort is         *)
(* submitted only when its predecessor is gone, and a stop() that returns    *)
(* with the count at zero leaves no worker (http_server_start_pool, reload,  *)
(* stop, pool_worker_done_cb).                                               *)
THEOREM PoolCohortsSound ==
  ASSUME PoolAssumption
  PROVE  Spec => []CohortsSound
<1>1. Init => IInv
  BY InitHolds
<1>2. IInv /\ [Next]_vars => IInv'
  BY NextHolds
<1>3. IInv => CohortsSound
  BY DEF IInv, CohortsSound, StopMeansDown, AwaitBlock, FrozenExact
<1> QED BY <1>1, <1>2, <1>3, PTL DEF Spec
=============================================================================
