------------------------- MODULE ReactorPoolProofs -------------------------
(***************************************************************************)
(* For any number of reactors and callers, and any mailbox capacity: what  *)
(* a caller of the reactor pool is told of its command is what happened to *)
(* it, whatever the order in which STOP and the commands of other senders  *)
(* leave the mailbox.                                                      *)
(***************************************************************************)
EXTENDS ReactorPool, TLAPS

Commands == [from : Callers \union {Parent}, n : Nat,
             kind : Kinds \union {"STOP"}, to : Nat]

PoolTypeOK ==
  /\ phase \in [Reactors -> {"unborn", "SPAWN", "RUN", "DONE"}]
  /\ stopping \in [Reactors -> BOOLEAN]
  /\ box \in [Reactors -> SUBSET Commands]
  /\ batch \in [Reactors -> SUBSET Commands]
  /\ draining \in [Reactors -> BOOLEAN]
  /\ ran \in SUBSET Commands /\ done \in SUBSET Commands
  /\ call \in [Callers -> Commands]
  /\ cpc \in [Callers -> {"idle", "posting", "waiting"}]
  /\ calls \in [Callers -> Nat]
  /\ result \in SUBSET [cmd : Commands, ok : BOOLEAN]
  /\ ppc \in {"create", "up", "stop", "await", "gone"}

\* STOP is only sent once destroy has begun, when nobody posts any more.
StopsLate ==
  \A r \in Reactors :
     /\ stopping[r] => ppc \notin {"create", "up"}
     /\ \A m \in InPlay(r) : m.kind = "STOP" => ppc \notin {"create", "up"}

\* A loop that has seen STOP is inside the mailbox callback as long as its
\* mailbox holds anything, a loop that is not running holds nothing, and a
\* loop holds only commands addressed to it.
LoopsDrain ==
  \A r \in Reactors :
     /\ \A m \in InPlay(r) : m.to = r
     /\ batch[r] # {} => draining[r]
     /\ stopping[r] /\ ~draining[r] => box[r] = {}
     /\ phase[r] # "RUN" => box[r] = {} /\ batch[r] = {}

\* A caller inside post or exec: its command is its newest, its reactor runs
\* while it posts, and nothing has been said of the command yet.
CallersBusy ==
  \A c \in Callers :
     /\ cpc[c] # "idle" =>
           call[c].to \in Reactors /\ call[c].from = c /\ call[c].n = calls[c]
     /\ cpc[c] = "posting" =>
           /\ ppc = "up" /\ phase[call[c].to] = "RUN"
           /\ call[c].kind # "STOP"
           /\ \A x \in result : x.cmd # call[c]
     /\ cpc[c] = "waiting" => call[c].kind = "EXEC"

\* A caller's commands are numbered by its calls: the next one is new.
Numbered ==
  /\ \A m \in ran : m.from \in Callers => m.n <= calls[m.from]
  /\ \A r \in Reactors : \A m \in InPlay(r) : m.from \in Callers => m.n <= calls[m.from]
  /\ \A x \in result : x.cmd.from \in Callers => x.cmd.n <= calls[x.cmd.from]

\* The done flag of an exec is stored with the call of its function.
DoneMeansRan ==
  /\ done \subseteq ran
  /\ \A m \in ran : m.kind = "EXEC" => m \in done

IInv == PoolTypeOK /\ StopsLate /\ LoopsDrain /\ CallersBusy /\ Numbered
        /\ DoneMeansRan /\ CallersTold

-----------------------------------------------------------------------------
(* The commands the pool builds are commands. *)
LEMMA CommandTypes ==
  ASSUME PoolAssumption
  PROVE  /\ NoCmd \in Commands
         /\ \A r \in Reactors : StopCmd(r) \in Commands
         /\ \A c \in Callers, i \in Nat, k \in Kinds, r \in Reactors :
               [from |-> c, n |-> i, kind |-> k, to |-> r] \in Commands
BY Zenon DEF PoolAssumption, NoCmd, StopCmd, Commands, Kinds

(* A call that returns leaves its answer and its caller well typed. *)
LEMMA ReturnTypes ==
  ASSUME PoolAssumption, PoolTypeOK, NEW c \in Callers, NEW m \in Commands,
         NEW v \in BOOLEAN, Return(c, m, v)
  PROVE  /\ result' \in SUBSET [cmd : Commands, ok : BOOLEAN]
         /\ cpc' \in [Callers -> {"idle", "posting", "waiting"}]
         /\ call' \in [Callers -> Commands]
<1>1. [cmd |-> m, ok |-> v] \in [cmd : Commands, ok : BOOLEAN]
  BY Zenon
<1>2. NoCmd \in Commands
  BY Zenon, CommandTypes
<1> QED BY Zenon, <1>1, <1>2 DEF Return, PoolTypeOK

(* Every variable keeps its type. *)
LEMMA TypeStep ==
  ASSUME PoolAssumption, IInv, [Next]_vars
  PROVE  PoolTypeOK'
<1> USE DEF IInv, PoolTypeOK
<1>1. ASSUME NEW r \in Reactors, ReactorStep(r) PROVE PoolTypeOK'
  <2>1. CASE LoopEnter(r)
    BY Zenon, <2>1 DEF LoopEnter, cvars
  <2>2. CASE LoopFail(r)
    BY Zenon, <2>2 DEF LoopFail, cvars
  <2>3. CASE Drain(r)
    BY <2>3 DEF Drain, cvars
  <2>4. CASE DrainedEmpty(r)
    BY Zenon, <2>4 DEF DrainedEmpty, cvars
  <2>5. CASE RunCmd(r)
    BY <2>5 DEF RunCmd, Oldest, cvars
  <2>6. CASE LoopLeave(r)
    BY Zenon, <2>6 DEF LoopLeave, cvars
  <2> QED BY Zenon, <1>1, <2>1, <2>2, <2>3, <2>4, <2>5, <2>6 DEF ReactorStep
<1>2. ASSUME NEW c \in Callers, CallerStep(c) PROVE PoolTypeOK'
  <2>1. CASE Call(c)
    <3>1. PICK k \in Kinds, r \in Reactors :
             LET m == [from |-> c, n |-> calls[c] + 1, kind |-> k, to |-> r] IN
             IF phase[r] = "RUN"
             THEN /\ call' = [call EXCEPT ![c] = m]
                  /\ cpc' = [cpc EXCEPT ![c] = "posting"]
                  /\ UNCHANGED result
             ELSE Return(c, m, FALSE)
      BY Zenon, <2>1 DEF Call
    <3> DEFINE m == [from |-> c, n |-> calls[c] + 1, kind |-> k, to |-> r]
    <3>2. m \in Commands
      BY CommandTypes
    <3>3. calls' \in [Callers -> Nat] /\ UNCHANGED <<rvars, ppc>>
      BY <2>1 DEF Call
    <3> HIDE DEF m
    <3>4. CASE phase[r] = "RUN"
      BY Zenon, <3>1, <3>2, <3>3, <3>4 DEF rvars, m
    <3>5. CASE Return(c, m, FALSE)
      BY Zenon, <3>2, <3>3, <3>5, ReturnTypes DEF rvars
    <3> QED BY Zenon, <3>1, <3>4, <3>5 DEF m
  <2>2. CASE PostOk(c)
    <3>1. call[c] \in Commands /\ call[c].to \in Reactors
      BY Zenon, <2>2 DEF PostOk, CallersBusy
    <3>2. box' \in [Reactors -> SUBSET Commands]
      BY Zenon, <2>2, <3>1 DEF PostOk
    <3>3. CASE call[c].kind = "EXEC"
      BY Zenon, <2>2, <3>2, <3>3 DEF PostOk
    <3>4. CASE call[c].kind # "EXEC"
      BY Zenon, <2>2, <3>1, <3>2, <3>4, ReturnTypes DEF PostOk
    <3> QED BY Zenon, <3>3, <3>4
  <2>3. CASE PostFull(c)
    BY Zenon, <2>3, ReturnTypes DEF PostFull, rvars
  <2>4. CASE ExecReturn(c)
    <3>1. PICK v \in BOOLEAN : Return(c, call[c], v)
      BY Zenon, <2>4 DEF ExecReturn
    <3> QED BY Zenon, <2>4, <3>1, ReturnTypes DEF ExecReturn, rvars
  <2> QED BY Zenon, <1>2, <2>1, <2>2, <2>3, <2>4 DEF CallerStep
<1>3. CASE ParentStep
  <2>1. CASE Submit
    BY Zenon, <2>1 DEF Submit, cvars, rvars
  <2>2. CASE Created
    BY Zenon, <2>2 DEF Created, cvars, rvars
  <2>3. CASE Destroy
    BY Zenon, <2>3 DEF Destroy, cvars, rvars
  <2>4. CASE StopsPosted
    BY Zenon, <2>4 DEF StopsPosted, cvars, rvars
  <2>5. CASE Destroyed
    BY Zenon, <2>5 DEF Destroyed, cvars, rvars
  <2>6. ASSUME NEW r \in Reactors, PostStop(r) PROVE PoolTypeOK'
    BY Zenon, <2>6, CommandTypes DEF PostStop, cvars
  <2> QED BY Zenon, <1>3, <2>1, <2>2, <2>3, <2>4, <2>5, <2>6 DEF ParentStep
<1>4. CASE UNCHANGED vars
  BY Zenon, <1>4 DEF vars, rvars, cvars
<1> QED BY Zenon, <1>1, <1>2, <1>3, <1>4 DEF Next

(* No STOP while callers may still post. *)
LEMMA StopsStep ==
  ASSUME PoolAssumption, IInv, [Next]_vars
  PROVE  StopsLate'
<1> USE DEF IInv, PoolTypeOK, StopsLate, InPlay, CallersBusy
<1>1. ASSUME NEW r \in Reactors, ReactorStep(r) PROVE StopsLate'
  <2>1. CASE LoopEnter(r)
    BY <2>1 DEF LoopEnter, cvars
  <2>2. CASE LoopFail(r)
    BY <2>2 DEF LoopFail, cvars
  <2>3. CASE Drain(r)
    BY <2>3 DEF Drain, cvars
  <2>4. CASE DrainedEmpty(r)
    BY <2>4 DEF DrainedEmpty, cvars
  <2>5. CASE RunCmd(r)
    BY <2>5 DEF RunCmd, Oldest, cvars
  <2>6. CASE LoopLeave(r)
    BY Zenon, <2>6 DEF LoopLeave, cvars
  <2> QED BY Zenon, <1>1, <2>1, <2>2, <2>3, <2>4, <2>5, <2>6 DEF ReactorStep
<1>2. ASSUME NEW c \in Callers, CallerStep(c) PROVE StopsLate'
  <2>1. CASE Call(c)
    BY <2>1 DEF Call, Return, Kinds, rvars
  <2>2. CASE PostOk(c)
    BY <2>2 DEF PostOk, Return, rvars
  <2>3. CASE PostFull(c)
    BY <2>3 DEF PostFull, Return, rvars
  <2>4. CASE ExecReturn(c)
    BY <2>4 DEF ExecReturn, Return, rvars
  <2> QED BY Zenon, <1>2, <2>1, <2>2, <2>3, <2>4 DEF CallerStep
<1>3. CASE ParentStep
  <2>1. CASE Submit
    BY <2>1 DEF Submit, cvars, rvars
  <2>2. CASE Created
    BY Zenon, <2>2 DEF Created, cvars, rvars
  <2>3. CASE Destroy
    BY Zenon, <2>3 DEF Destroy, cvars, rvars
  <2>4. CASE StopsPosted
    BY Zenon, <2>4 DEF StopsPosted, cvars, rvars
  <2>5. CASE Destroyed
    BY Zenon, <2>5 DEF Destroyed, cvars, rvars
  <2>6. ASSUME NEW r \in Reactors, PostStop(r) PROVE StopsLate'
    BY Zenon, <2>6 DEF PostStop, StopSent, StopCmd, cvars
  <2> QED BY Zenon, <1>3, <2>1, <2>2, <2>3, <2>4, <2>5, <2>6 DEF ParentStep
<1>4. CASE UNCHANGED vars
  BY Zenon, <1>4 DEF vars, rvars, cvars
<1> QED BY Zenon, <1>1, <1>2, <1>3, <1>4 DEF Next

(* A loop empties its mailbox before it leaves. *)
LEMMA DrainStep ==
  ASSUME PoolAssumption, IInv, [Next]_vars
  PROVE  LoopsDrain'
<1> USE DEF IInv, PoolTypeOK, LoopsDrain, InPlay, StopsLate, CallersBusy
<1>1. ASSUME NEW r \in Reactors, ReactorStep(r) PROVE LoopsDrain'
  <2>1. CASE LoopEnter(r)
    BY <2>1 DEF LoopEnter, cvars
  <2>2. CASE LoopFail(r)
    BY <2>2 DEF LoopFail, cvars
  <2>3. CASE Drain(r)
    BY <2>3 DEF Drain, cvars
  <2>4. CASE DrainedEmpty(r)
    BY <2>4 DEF DrainedEmpty, cvars
  <2>5. CASE RunCmd(r)
    BY <2>5 DEF RunCmd, Oldest, cvars
  <2>6. CASE LoopLeave(r)
    BY <2>6 DEF LoopLeave, cvars
  <2> QED BY Zenon, <1>1, <2>1, <2>2, <2>3, <2>4, <2>5, <2>6 DEF ReactorStep
<1>2. ASSUME NEW c \in Callers, CallerStep(c) PROVE LoopsDrain'
  <2>1. CASE Call(c)
    BY <2>1 DEF Call, Return, Kinds, rvars
  <2>2. CASE PostOk(c)
    BY <2>2 DEF PostOk, Return, rvars
  <2>3. CASE PostFull(c)
    BY Zenon, <2>3 DEF PostFull, Return, rvars
  <2>4. CASE ExecReturn(c)
    BY Zenon, <2>4 DEF ExecReturn, Return, rvars
  <2> QED BY Zenon, <1>2, <2>1, <2>2, <2>3, <2>4 DEF CallerStep
<1>3. CASE ParentStep
  <2>1. CASE Submit
    BY <2>1 DEF Submit, cvars, rvars
  <2>2. CASE Created
    BY Zenon, <2>2 DEF Created, cvars, rvars
  <2>3. CASE Destroy
    BY Zenon, <2>3 DEF Destroy, cvars, rvars
  <2>4. CASE StopsPosted
    BY Zenon, <2>4 DEF StopsPosted, cvars, rvars
  <2>5. CASE Destroyed
    BY Zenon, <2>5 DEF Destroyed, cvars, rvars
  <2>6. ASSUME NEW r \in Reactors, PostStop(r) PROVE LoopsDrain'
    BY <2>6 DEF PostStop, StopSent, StopCmd, cvars
  <2> QED BY Zenon, <1>3, <2>1, <2>2, <2>3, <2>4, <2>5, <2>6 DEF ParentStep
<1>4. CASE UNCHANGED vars
  BY Zenon, <1>4 DEF vars, rvars, cvars
<1> QED BY Zenon, <1>1, <1>2, <1>3, <1>4 DEF Next

(* A caller's command is its own, and new, until it is posted. *)
LEMMA BusyStep ==
  ASSUME PoolAssumption, IInv, [Next]_vars
  PROVE  CallersBusy'
<1> USE DEF IInv, PoolTypeOK, CallersBusy, StopsLate, Numbered, Commands, Kinds
<1>1. ASSUME NEW r \in Reactors, ReactorStep(r) PROVE CallersBusy'
  <2>1. CASE LoopEnter(r)
    BY <2>1 DEF LoopEnter, cvars
  <2>2. CASE LoopFail(r)
    BY <2>2 DEF LoopFail, cvars
  <2>3. CASE Drain(r)
    BY <2>3 DEF Drain, cvars
  <2>4. CASE DrainedEmpty(r)
    BY Zenon, <2>4 DEF DrainedEmpty, cvars
  <2>5. CASE RunCmd(r)
    BY <2>5 DEF RunCmd, Oldest, cvars
  <2>6. CASE LoopLeave(r)
    BY Zenon, <2>6 DEF LoopLeave, cvars
  <2> QED BY Zenon, <1>1, <2>1, <2>2, <2>3, <2>4, <2>5, <2>6 DEF ReactorStep
<1>2. ASSUME NEW c \in Callers, CallerStep(c) PROVE CallersBusy'
  <2>1. CASE Call(c)
    BY <2>1 DEF Call, Return, Kinds, rvars
  <2>2. CASE PostOk(c)
    BY <2>2 DEF PostOk, Return, rvars
  <2>3. CASE PostFull(c)
    BY <2>3 DEF PostFull, Return, rvars
  <2>4. CASE ExecReturn(c)
    BY <2>4 DEF ExecReturn, Return, rvars
  <2> QED BY Zenon, <1>2, <2>1, <2>2, <2>3, <2>4 DEF CallerStep
<1>3. CASE ParentStep
  <2>1. CASE Submit
    BY <2>1 DEF Submit, cvars, rvars
  <2>2. CASE Created
    BY Zenon, <2>2 DEF Created, cvars, rvars
  <2>3. CASE Destroy
    BY Zenon, <2>3 DEF Destroy, cvars, rvars
  <2>4. CASE StopsPosted
    BY Zenon, <2>4 DEF StopsPosted, cvars, rvars
  <2>5. CASE Destroyed
    BY Zenon, <2>5 DEF Destroyed, cvars, rvars
  <2>6. ASSUME NEW r \in Reactors, PostStop(r) PROVE CallersBusy'
    BY Zenon, <2>6 DEF PostStop, StopSent, StopCmd, cvars
  <2> QED BY Zenon, <1>3, <2>1, <2>2, <2>3, <2>4, <2>5, <2>6 DEF ParentStep
<1>4. CASE UNCHANGED vars
  BY <1>4 DEF vars, rvars, cvars
<1> QED BY Zenon, <1>1, <1>2, <1>3, <1>4 DEF Next

(* No command comes from a call that has not been made. *)
LEMMA NumberedStep ==
  ASSUME PoolAssumption, IInv, [Next]_vars
  PROVE  Numbered'
<1> USE DEF IInv, PoolTypeOK, Numbered, InPlay, Commands, CallersBusy, LoopsDrain
<1>1. ASSUME NEW r \in Reactors, ReactorStep(r) PROVE Numbered'
  <2>1. CASE LoopEnter(r)
    BY Zenon, <2>1 DEF LoopEnter, cvars
  <2>2. CASE LoopFail(r)
    BY Zenon, <2>2 DEF LoopFail, cvars
  <2>3. CASE Drain(r)
    BY <2>3 DEF Drain, cvars
  <2>4. CASE DrainedEmpty(r)
    BY Zenon, <2>4 DEF DrainedEmpty, cvars
  <2>5. CASE RunCmd(r)
    BY <2>5 DEF RunCmd, Oldest, cvars
  <2>6. CASE LoopLeave(r)
    BY <2>6 DEF LoopLeave, cvars
  <2> QED BY Zenon, <1>1, <2>1, <2>2, <2>3, <2>4, <2>5, <2>6 DEF ReactorStep
<1>2. ASSUME NEW c \in Callers, CallerStep(c) PROVE Numbered'
  <2>1. CASE Call(c)
    BY <2>1 DEF Call, Return, Kinds, rvars
  <2>2. CASE PostOk(c)
    BY <2>2 DEF PostOk, Return, rvars
  <2>3. CASE PostFull(c)
    BY <2>3 DEF PostFull, Return, rvars
  <2>4. CASE ExecReturn(c)
    BY <2>4 DEF ExecReturn, Return, rvars
  <2> QED BY Zenon, <1>2, <2>1, <2>2, <2>3, <2>4 DEF CallerStep
<1>3. CASE ParentStep
  <2>1. CASE Submit
    BY Zenon, <2>1 DEF Submit, cvars, rvars
  <2>2. CASE Created
    BY Zenon, <2>2 DEF Created, cvars, rvars
  <2>3. CASE Destroy
    BY Zenon, <2>3 DEF Destroy, cvars, rvars
  <2>4. CASE StopsPosted
    BY Zenon, <2>4 DEF StopsPosted, cvars, rvars
  <2>5. CASE Destroyed
    BY Zenon, <2>5 DEF Destroyed, cvars, rvars
  <2>6. ASSUME NEW r \in Reactors, PostStop(r) PROVE Numbered'
    BY <2>6 DEF PoolAssumption, PostStop, StopSent, StopCmd, cvars
  <2> QED BY Zenon, <1>3, <2>1, <2>2, <2>3, <2>4, <2>5, <2>6 DEF ParentStep
<1>4. CASE UNCHANGED vars
  BY Zenon, <1>4 DEF vars, rvars, cvars
<1> QED BY Zenon, <1>1, <1>2, <1>3, <1>4 DEF Next

(* The done flag means that the function was called. *)
LEMMA DoneStep ==
  ASSUME PoolAssumption, IInv, [Next]_vars
  PROVE  DoneMeansRan'
<1> USE DEF IInv, PoolTypeOK, DoneMeansRan
<1>1. ASSUME NEW r \in Reactors, ReactorStep(r) PROVE DoneMeansRan'
  <2>1. CASE LoopEnter(r)
    BY Zenon, <2>1 DEF LoopEnter, cvars
  <2>2. CASE LoopFail(r)
    BY Zenon, <2>2 DEF LoopFail, cvars
  <2>3. CASE Drain(r)
    BY Zenon, <2>3 DEF Drain, cvars
  <2>4. CASE DrainedEmpty(r)
    BY Zenon, <2>4 DEF DrainedEmpty, cvars
  <2>5. CASE RunCmd(r)
    BY Zenon, <2>5 DEF RunCmd, Oldest, cvars
  <2>6. CASE LoopLeave(r)
    BY Zenon, <2>6 DEF LoopLeave, cvars
  <2> QED BY Zenon, <1>1, <2>1, <2>2, <2>3, <2>4, <2>5, <2>6 DEF ReactorStep
<1>2. ASSUME NEW c \in Callers, CallerStep(c) PROVE DoneMeansRan'
  <2>1. CASE Call(c)
    BY Zenon, <2>1 DEF Call, Return, Kinds, rvars
  <2>2. CASE PostOk(c)
    BY Zenon, <2>2 DEF PostOk, Return, rvars
  <2>3. CASE PostFull(c)
    BY Zenon, <2>3 DEF PostFull, Return, rvars
  <2>4. CASE ExecReturn(c)
    BY Zenon, <2>4 DEF ExecReturn, Return, rvars
  <2> QED BY Zenon, <1>2, <2>1, <2>2, <2>3, <2>4 DEF CallerStep
<1>3. CASE ParentStep
  <2>1. CASE Submit
    BY Zenon, <2>1 DEF Submit, cvars, rvars
  <2>2. CASE Created
    BY Zenon, <2>2 DEF Created, cvars, rvars
  <2>3. CASE Destroy
    BY Zenon, <2>3 DEF Destroy, cvars, rvars
  <2>4. CASE StopsPosted
    BY Zenon, <2>4 DEF StopsPosted, cvars, rvars
  <2>5. CASE Destroyed
    BY Zenon, <2>5 DEF Destroyed, cvars, rvars
  <2>6. ASSUME NEW r \in Reactors, PostStop(r) PROVE DoneMeansRan'
    BY Zenon, <2>6 DEF PostStop, StopSent, StopCmd, cvars
  <2> QED BY Zenon, <1>3, <2>1, <2>2, <2>3, <2>4, <2>5, <2>6 DEF ParentStep
<1>4. CASE UNCHANGED vars
  BY Zenon, <1>4 DEF vars, rvars, cvars
<1> QED BY Zenon, <1>1, <1>2, <1>3, <1>4 DEF Next

(* What callers were told, answer by answer. *)
Told ==
  \A x \in result :
     /\ x.cmd.kind = "EXEC" /\ x.ok => x.cmd \in ran
     /\ x.cmd.kind = "EXEC" /\ ~x.ok =>
           x.cmd \notin ran /\ \A r \in Reactors : x.cmd \notin box[r] /\ x.cmd \notin batch[r]
     /\ x.cmd.kind = "POST" /\ x.ok =>
           \/ x.cmd \in ran
           \/ /\ x.cmd \in box[x.cmd.to] \/ x.cmd \in batch[x.cmd.to]
              /\ phase[x.cmd.to] = "RUN"

(* The answers callers were told, read off the invariant. *)
LEMMA ToldNow == CallersTold => Told
<1> SUFFICES ASSUME CallersTold, NEW x \in result
             PROVE  /\ x.cmd.kind = "EXEC" /\ x.ok => x.cmd \in ran
                    /\ x.cmd.kind = "EXEC" /\ ~x.ok =>
                         /\ x.cmd \notin ran
                         /\ \A r \in Reactors : x.cmd \notin box[r] /\ x.cmd \notin batch[r]
                    /\ x.cmd.kind = "POST" /\ x.ok =>
                         \/ x.cmd \in ran
                         \/ /\ x.cmd \in box[x.cmd.to] \/ x.cmd \in batch[x.cmd.to]
                            /\ phase[x.cmd.to] = "RUN"
  BY Zenon DEF Told
<1>1. x.cmd.kind = "EXEC" /\ x.ok => x.cmd \in ran
  BY Zenon DEF CallersTold, ExecTruthful
<1>2. x.cmd.kind = "EXEC" /\ ~x.ok =>
         x.cmd \notin ran /\ \A r \in Reactors : x.cmd \notin box[r] /\ x.cmd \notin batch[r]
  BY Zenon DEF CallersTold, ExecTruthful, InPlay
<1>3. x.ok => x.cmd \in Accepted
  BY Zenon DEF Accepted
<1>4. x.cmd.kind = "POST" /\ x.ok =>
         \/ x.cmd \in ran
         \/ (x.cmd \in box[x.cmd.to] \/ x.cmd \in batch[x.cmd.to]) /\ phase[x.cmd.to] = "RUN"
  BY Zenon, <1>3 DEF CallersTold, AcceptedRuns, InPlay
<1> QED BY Zenon, <1>1, <1>2, <1>4

(* The same after a step, read back into the invariant. *)
LEMMA ToldNext == Told' => CallersTold'
<1>1. Told' => ExecTruthful'
  BY Zenon DEF Told, ExecTruthful, InPlay
<1>2. Told' => AcceptedRuns'
  BY Zenon DEF Told, AcceptedRuns, Accepted, InPlay
<1> QED BY Zenon, <1>1, <1>2 DEF CallersTold

(* The callers are told the truth. *)
LEMMA ToldStep ==
  ASSUME PoolAssumption, IInv, [Next]_vars
  PROVE  CallersTold'
<1>0. Told
  BY Zenon, ToldNow DEF IInv
<1> SUFFICES Told'
  BY Zenon, ToldNext
<1> USE DEF Told
<1>1. ASSUME NEW r \in Reactors, ReactorStep(r) PROVE Told'
  <2>1. CASE LoopEnter(r)
    BY <1>0, <2>1 DEF LoopEnter, cvars
  <2>2. CASE LoopFail(r)
    BY <1>0, <2>2 DEF LoopFail, cvars
  <2>3. CASE Drain(r)
    BY <1>0, <2>3 DEF Drain, cvars, IInv, PoolTypeOK, LoopsDrain, InPlay
  <2>4. CASE DrainedEmpty(r)
    BY Zenon, <1>0, <2>4 DEF DrainedEmpty, cvars
  <2>5. CASE RunCmd(r)
    BY <1>0, <2>5 DEF RunCmd, Oldest, cvars
  <2>6. CASE LoopLeave(r)
    BY <1>0, <2>6 DEF LoopLeave, cvars, IInv, PoolTypeOK, LoopsDrain, InPlay
  <2> QED BY Zenon, <1>1, <2>1, <2>2, <2>3, <2>4, <2>5, <2>6 DEF ReactorStep
<1>2. ASSUME NEW c \in Callers, CallerStep(c) PROVE Told'
  <2>1. CASE Call(c)
    BY <1>0, <2>1 DEF Call, Return, Kinds, rvars, IInv, PoolTypeOK, Commands, Numbered, InPlay
  <2>2. CASE PostOk(c)
    BY <1>0, <2>2 DEF PostOk, Return, rvars, IInv, PoolTypeOK, CallersBusy, Commands, Kinds
  <2>3. CASE PostFull(c)
    BY <1>0, <2>3 DEF PostFull, Return, rvars
  <2>4. CASE ExecReturn(c)
    <3>1. UNCHANGED <<phase, box, batch, ran>>
      BY Zenon, <1>0, <2>4 DEF ExecReturn, rvars
    <3>2. CASE call[c] \in done
      BY <1>0, <2>4, <3>1, <3>2 DEF ExecReturn, Return, IInv, CallersBusy, DoneMeansRan
    <3>3. CASE call[c] \notin done
      BY <1>0, <2>4, <3>1, <3>3 DEF ExecReturn, Return, IInv, CallersBusy, DoneMeansRan, LoopsDrain, InPlay
    <3> QED BY Zenon, <3>2, <3>3
  <2> QED BY Zenon, <1>2, <2>1, <2>2, <2>3, <2>4 DEF CallerStep
<1>3. CASE ParentStep
  <2>1. CASE Submit
    BY <1>0, <2>1 DEF Submit, cvars, rvars
  <2>2. CASE Created
    BY Zenon, <1>0, <2>2 DEF Created, cvars, rvars
  <2>3. CASE Destroy
    BY Zenon, <1>0, <2>3 DEF Destroy, cvars, rvars
  <2>4. CASE StopsPosted
    BY Zenon, <1>0, <2>4 DEF StopsPosted, cvars, rvars
  <2>5. CASE Destroyed
    BY Zenon, <1>0, <2>5 DEF Destroyed, cvars, rvars
  <2>6. ASSUME NEW r \in Reactors, PostStop(r) PROVE Told'
    BY <1>0, <2>6 DEF PostStop, StopSent, StopCmd, cvars
  <2> QED BY Zenon, <1>3, <2>1, <2>2, <2>3, <2>4, <2>5, <2>6 DEF ParentStep
<1>4. CASE UNCHANGED vars
  BY Zenon, <1>0, <1>4 DEF vars, rvars, cvars
<1> QED BY Zenon, <1>1, <1>2, <1>3, <1>4 DEF Next

-----------------------------------------------------------------------------
(* The invariant holds before the pool is created. *)
LEMMA InitHolds == PoolAssumption /\ Init => IInv
<1> SUFFICES ASSUME PoolAssumption, Init PROVE IInv
  BY Zenon
<1>1. PoolTypeOK
  BY Zenon, CommandTypes DEF Init, Empty, PoolTypeOK
<1>2. StopsLate /\ LoopsDrain /\ CallersBusy /\ Numbered /\ DoneMeansRan
  BY Zenon DEF Init, Empty, StopsLate, LoopsDrain, CallersBusy, Numbered, DoneMeansRan, InPlay
<1>3. CallersTold
  BY Zenon DEF Init, Empty, CallersTold, ExecTruthful, AcceptedRuns, Accepted
<1> QED BY Zenon, <1>1, <1>2, <1>3 DEF IInv

(* Every caller of a reactor pool is told the truth about its command: exec
   returns true only after its function ran on the reactor and false only if it
   never will, and a post that was accepted has run or is in the mailbox of a
   loop that still runs, so STOP overtaking it loses nothing. *)
THEOREM PoolCallersTold ==
  ASSUME PoolAssumption
  PROVE  Spec => []CallersTold
<1>1. Init => IInv
  BY Zenon, InitHolds
<1>2. IInv /\ [Next]_vars => IInv'
  BY Zenon, TypeStep, StopsStep, DrainStep, BusyStep, NumberedStep, DoneStep, ToldStep DEF IInv
<1>3. IInv => CallersTold
  BY Zenon DEF IInv
<1> QED BY <1>1, <1>2, <1>3, PTL DEF Spec
=============================================================================
