--------------------------- MODULE BoundedChannel ---------------------------
(***************************************************************************)
(* What a cross-thread mailbox promises its users: a bounded channel that  *)
(* takes an item at most once, hands every taken item to the consumer at   *)
(* most once, and drops an item it has taken only when the owner closes    *)
(* the channel.                                                            *)
(***************************************************************************)
EXTENDS Naturals, FiniteSets

CONSTANTS Items,   \* what can be sent
          Limit    \* how many taken items may wait for the consumer

VARIABLES buffered,   \* taken, not yet handed to the consumer
          delivered,  \* handed to the consumer
          closed      \* the owner has closed the channel

vars == <<buffered, delivered, closed>>

Init == buffered = {} /\ delivered = {} /\ closed = FALSE

(* The channel takes an item it has never seen. *)
Accept == /\ ~closed
          /\ \E i \in Items \ (buffered \union delivered) :
                buffered' = buffered \union {i}
          /\ Cardinality(buffered') <= Limit
          /\ UNCHANGED <<delivered, closed>>

(* The consumer is given a batch. *)
Deliver == /\ ~closed
           /\ \E B \in SUBSET buffered :
                 /\ delivered' = delivered \union B
                 /\ buffered' = buffered \ B
           /\ UNCHANGED closed

(* The owner closes the channel; what was not handed over is lost. *)
Close == ~closed /\ closed' = TRUE /\ buffered' = {} /\ UNCHANGED delivered

Next == Accept \/ Deliver \/ Close

Spec == Init /\ [][Next]_vars
=============================================================================
