------------------------------ MODULE MCTables ------------------------------
(* The tables that threads share, one at a time: a behaviour picks the topic   *)
(* hub, whose constants the configuration gives, or the worker registry; the   *)
(* other rests in its initial state.  Three threads attach to the hub's two    *)
(* slots, so that a slot is used again while a send to its last owner waits; a *)
(* mailbox of one parks sends, a queue of one refuses them.                    *)
EXTENDS TopicHub, TLC

VARIABLES
    system,
    gSlots, gWpc, gInbox, gRemaining, gTodo, gSkipped, gSpins, gBox, gHeld, gRpc, gHome, gReqs,
    gOthers

registryVars == <<gSlots, gWpc, gInbox, gRemaining, gTodo, gSkipped, gSpins, gBox, gHeld, gRpc,
                  gHome, gReqs, gOthers>>

\* Two reactors dispatch to two workers, so that loads and retirements meet in every
\* order; reactor mailboxes of one refuse fences.
Registry == INSTANCE WorkerRegistry WITH
    Workers <- {"w1", "w2"}, Reactors <- {0, 1}, Capacity <- 2, InboxCap <- 1, Spill <- 1,
    BoxCap <- 1, Patience <- 1, MaxReqs <- 2, MaxOther <- 1, None <- "none",
    slots <- gSlots, wpc <- gWpc, inbox <- gInbox, remaining <- gRemaining, todo <- gTodo,
    skipped <- gSkipped, spins <- gSpins, box <- gBox, held <- gHeld, rpc <- gRpc,
    home <- gHome, reqs <- gReqs, others <- gOthers

ASSUME Geometry == HubAssumption /\ Registry!RegistryAssumption

MCInit == system \in {"hub", "registry"} /\ Init /\ Registry!Init

MCNext ==
    /\ UNCHANGED system
    /\ \/ system = "hub" /\ Next /\ UNCHANGED registryVars
       \/ system = "registry" /\ Registry!Next /\ UNCHANGED vars

MCSpec == MCInit /\ [][MCNext]_<<system, vars, registryVars>>

\* Threads and messages are interchangeable.
Symmetry == Permutations(Workers) \cup Permutations(Messages)

-----------------------------------------------------------------------------
\* A retirement frees nothing that is still used and discards nothing.
RetireSound == Registry!RetireSound
=============================================================================
