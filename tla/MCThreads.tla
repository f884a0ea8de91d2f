----------------------------- MODULE MCThreads -----------------------------
(* What threads send each other, one kind at a time: a behaviour picks the    *)
(* mailbox itself, the reactor pool's commands, the responses on their way    *)
(* back to a reactor or the control of the worker pool; the others rest in    *)
(* their initial states, where no fair step is enabled (the reactor pool as   *)
(* one whose creation failed).                                                *)
EXTENDS ThreadMailbox

VARIABLES
    system,
    rPhase, rStopping, rBox, rBatch, rDraining, rRan, rCall, rCpc, rCalls, rResult, rDone, rPpc,
    bWpc, bFailed, bPosted, bExpired, bPend, bArmed, bFlushing, bSpin, bBox, bDead, bRefs, bSlot,
    bConn, bUp, bClosed, bOpened, bQueue, bFin,
    cCommand, cWake, cRung, cRinging, cWpc, cPending, cAllDone, cSt, cPpc, cRotating, cCohort,
    cStopping, cSpc

poolVars == <<rPhase, rStopping, rBox, rBatch, rDraining, rRan, rCall, rCpc, rCalls, rResult,
              rDone, rPpc>>
backVars == <<bWpc, bFailed, bPosted, bExpired, bPend, bArmed, bFlushing, bSpin, bBox, bDead,
              bRefs, bSlot, bConn, bUp, bClosed, bOpened, bQueue, bFin>>
controlVars == <<cCommand, cWake, cRung, cRinging, cWpc, cPending, cAllDone, cSt, cPpc,
                 cRotating, cCohort, cStopping, cSpc>>

\* Two callers with two calls each fill a mailbox of two, have posts refused and
\* put commands behind STOP; reactors share only the parent's loops, so one does.
Pool == INSTANCE ReactorPool WITH
    Reactors <- {1}, Callers <- {"c1", "c2"}, Parent <- "parent",
    Capacity <- 2, Batch <- 2, MaxCalls <- 2,
    phase <- rPhase, stopping <- rStopping, box <- rBox, batch <- rBatch,
    draining <- rDraining, ran <- rRan, call <- rCall, cpc <- rCpc, calls <- rCalls,
    result <- rResult, done <- rDone, ppc <- rPpc

\* A mailbox of one, so that wires are deferred, wait, expire and are flushed, and
\* enough chunks to be overtaken.
Back == INSTANCE ReversePath WITH
    Streams <- {"s1"}, Capacity <- 1, MaxChunks <- 3, TimerFails <- TRUE,
    wpc <- bWpc, failed <- bFailed, posted <- bPosted, expired <- bExpired, pend <- bPend,
    armed <- bArmed, flushing <- bFlushing, spin <- bSpin, box <- bBox, dead <- bDead,
    refs <- bRefs, slot <- bSlot, conn <- bConn, up <- bUp, closed <- bClosed,
    opened <- bOpened, queue <- bQueue, fin <- bFin

\* Two workers, one reload and two callers of stop().
Control == INSTANCE PoolControl WITH
    N <- 2, MaxReloads <- 1, Stoppers <- {"s1", "s2"},
    command <- cCommand, wake <- cWake, rung <- cRung, ringing <- cRinging, wpc <- cWpc,
    pending <- cPending, allDone <- cAllDone, st <- cSt, ppc <- cPpc, rotating <- cRotating,
    cohort <- cCohort, stopping <- cStopping, spc <- cSpc

ASSUME Geometry == Pool!PoolAssumption /\ Back!PathAssumption /\ Control!PoolAssumption

MCInit ==
    /\ system \in {"mailbox", "pool", "back", "control"}
    /\ Init /\ Back!Init /\ Control!Init
    /\ Pool!Empty /\ rPpc = IF system = "pool" THEN "create" ELSE "gone"

MCNext ==
    /\ UNCHANGED system
    /\ \/ system = "mailbox" /\ Next /\ UNCHANGED <<poolVars, backVars, controlVars>>
       \/ system = "pool" /\ Pool!Next /\ UNCHANGED <<vars, backVars, controlVars>>
       \/ system = "back" /\ Back!Next /\ UNCHANGED <<vars, poolVars, controlVars>>
       \/ system = "control" /\ Control!Next /\ UNCHANGED <<vars, poolVars, backVars>>

MCSpec ==
    /\ MCInit /\ [][MCNext]_<<system, vars, poolVars, backVars, controlVars>>
    /\ Fairness /\ Pool!Fairness /\ Back!Fairness /\ Control!Fairness

-----------------------------------------------------------------------------
\* exec and post tell their caller the truth about the command.
CallersTold == Pool!CallersTold

\* destroy and exec return, whatever is queued before them.
CallsEnd == Pool!CallsEnd

\* The wires of a response find their stream, in order, or it is not ended.
WiresSound == Back!WiresSound

\* The last wire of a response and its slot arrive.
ResponseEnds == Back!ResponseEnds

\* start(), reload() and stop() agree on the workers there are.
CohortsSound == Control!CohortsSound

\* A command retires the workers it reached and releases who waits for it.
CommandsEnd == Control!CommandsEnd
=============================================================================
