------------------------ MODULE ThreadMailboxProofs ------------------------
(***************************************************************************)
(* Proofs about ThreadMailbox, for any number of producers, any capacity,  *)
(* batch size and number of posts.                                         *)
(***************************************************************************)
EXTENDS ThreadMailbox, FiniteSetTheorems, TLAPS

(* An item is in one place only, and the item of a post in progress is new. *)
Fresh ==
  /\ \A i \in queue \union batch \union handled : i[2] <= seq[i[1]]
  /\ \A p \in Producers : pc[p] = "reserved" =>
        seq[p] >= 1 /\ Item(p) \notin queue \union batch \union handled
  /\ queue \intersect batch = {}
  /\ (queue \union batch) \intersect handled = {}

BatchBounded == /\ Cardinality(batch) <= Batch
                /\ cpc \in {"wait", "freed"} => batch = {}

(* The mailbox is freed after its producers have stopped. *)
FreedLast == /\ quiesced => \A p \in Producers : pc[p] = "idle"
             /\ cpc = "freed" => quiesced

IInv == TypeOK /\ Fresh /\ BatchBounded /\ FreedLast /\ CountExact
        /\ NoStrandedItem /\ MissedItemsSignalled

-----------------------------------------------------------------------------
(* The items of a bounded number of posts of finitely many producers are
   finitely many, and so is every set of them. *)
LEMMA ItemsFinite == IsFiniteSet(Items)
<1>1. IsFiniteSet(1..MaxPosts)
  BY FS_Interval, MailboxAssumption
<1> QED BY <1>1, FS_Product, MailboxAssumption DEF Items

(* Every set of items is finite. *)
LEMMA SubsetsFinite ==
  ASSUME NEW S \in SUBSET Items
  PROVE  IsFiniteSet(S) /\ Cardinality(S) \in Nat
BY ItemsFinite, FS_Subset, FS_CardinalityType

(* Cardinality of disjoint unions and of removed subsets. *)
LEMMA CardUnion ==
  ASSUME NEW S \in SUBSET Items, NEW T \in SUBSET Items, S \intersect T = {}
  PROVE  Cardinality(S \union T) = Cardinality(S) + Cardinality(T)
<1>1. IsFiniteSet(S) /\ IsFiniteSet(T) /\ Cardinality(S) \in Nat /\ Cardinality(T) \in Nat
  BY SubsetsFinite
<1>2. Cardinality(S \union T) = Cardinality(S) + Cardinality(T) - Cardinality(S \intersect T)
  BY <1>1, FS_Union
<1>3. Cardinality(S \intersect T) = 0
  BY FS_EmptySet
<1> QED BY <1>1, <1>2, <1>3

(* Removing a part removes its number. *)
LEMMA CardDifference ==
  ASSUME NEW S \in SUBSET Items, NEW T \in SUBSET S
  PROVE  Cardinality(S \ T) = Cardinality(S) - Cardinality(T)
<1>1. IsFiniteSet(S)
  BY SubsetsFinite
<1>2. S \intersect T = T
  OBVIOUS
<1> QED BY Zenon, <1>1, <1>2, FS_Difference

(* Slots are held by items. *)
LEMMA HoldingType == TypeOK => Holding \in SUBSET Items /\ Reserved \in SUBSET Items
BY DEF TypeOK, Holding, Reserved

-----------------------------------------------------------------------------
(* Every variable keeps its type: in particular the length counter never
   underflows when a drain or a failed enqueue lowers it. *)
LEMMA TypeStep == IInv /\ [Next]_vars => TypeOK'
<1> SUFFICES ASSUME IInv, [Next]_vars PROVE TypeOK'
  OBVIOUS
<1> USE DEF IInv
<1>1. ASSUME NEW p \in Producers, PostStep(p) PROVE TypeOK'
  <2>1. CASE Refuse(p)
    BY <2>1, MailboxAssumption DEF Refuse, StartsPost, TypeOK, consVars
  <2>2. CASE Reserve(p)
    BY <2>2, MailboxAssumption DEF Reserve, StartsPost, TypeOK, consVars
  <2>3. CASE Enqueue(p)
    <3>1. Item(p) \in Items
      BY <2>3, MailboxAssumption DEF Enqueue, Item, Items, TypeOK, Fresh
    <3> QED BY <2>3, <3>1 DEF Enqueue, TypeOK, consVars
  <2>4. CASE EnqueueFail(p)
    <3>1. Item(p) \in Reserved
      BY <2>4, MailboxAssumption DEF EnqueueFail, Item, Items, TypeOK, Fresh, Reserved
    <3>2. Holding # {}
      BY <3>1 DEF Holding
    <3>3. Cardinality(Holding) # 0
      BY <3>2, HoldingType, SubsetsFinite, FS_EmptySet
    <3>4. cpc # "freed" 
      BY <2>4 DEF EnqueueFail, FreedLast
    <3> QED BY <2>4, <3>3, <3>4 DEF EnqueueFail, TypeOK, consVars, CountExact
  <2>5. CASE Trigger(p)
    BY <2>5 DEF Trigger, TypeOK, consVars
  <2> QED BY <1>1, <2>1, <2>2, <2>3, <2>4, <2>5 DEF PostStep
<1>2. CASE OnSignal
  BY <1>2 DEF OnSignal, TypeOK, prodVars
<1>3. ASSUME NEW p \in Producers, ScanProducer(p) PROVE TypeOK'
  BY <1>3 DEF ScanProducer, QueueOf, TypeOK, prodVars
<1>4. CASE Dequeued
  BY <1>4 DEF Dequeued, TypeOK, prodVars
<1>5. CASE Subtract
  <2>1. Cardinality(batch) <= Cardinality(Holding)
    BY <1>5, HoldingType, ItemsFinite, SubsetsFinite, FS_Subset DEF Subtract, Holding
  <2> QED BY <1>5, <2>1, SubsetsFinite DEF Subtract, TypeOK, prodVars, CountExact
<1>6. CASE OnDrain
  BY <1>6 DEF OnDrain, TypeOK, prodVars
<1>7. CASE DrainPending
  BY <1>7 DEF DrainPending, TypeOK, prodVars
<1>8. CASE Free
  BY <1>8 DEF Free, TypeOK, prodVars
<1>9. CASE UNCHANGED vars
  BY <1>9 DEF vars, TypeOK
<1> QED BY <1>1, <1>2, <1>3, <1>4, <1>5, <1>6, <1>7, <1>8, <1>9 DEF Next, DrainStep
(* An item stays in one place: queue, batch_buf or handed over. *)
LEMMA FreshStep == IInv /\ [Next]_vars => Fresh'
<1> SUFFICES ASSUME IInv, [Next]_vars PROVE Fresh'
  OBVIOUS
<1> USE DEF IInv
<1>1. ASSUME NEW p \in Producers, PostStep(p) PROVE Fresh'
  <2>1. CASE Refuse(p)
    BY <2>1 DEF Refuse, StartsPost, TypeOK, consVars, Fresh, Item, Items
  <2>2. CASE Reserve(p)
    BY <2>2 DEF Reserve, StartsPost, TypeOK, consVars, Fresh, Item, Items
  <2>3. CASE Enqueue(p)
    BY <2>3 DEF Enqueue, TypeOK, consVars, Fresh, Item, Items
  <2>4. CASE EnqueueFail(p)
    BY <2>4 DEF EnqueueFail, TypeOK, consVars, Fresh, Item, Items
  <2>5. CASE Trigger(p)
    BY <2>5 DEF Trigger, TypeOK, consVars, Fresh, Item, Items
  <2> QED BY <1>1, <2>1, <2>2, <2>3, <2>4, <2>5 DEF PostStep
<1>2. CASE OnSignal
  BY <1>2 DEF OnSignal, prodVars, Fresh, Item
<1>3. ASSUME NEW p \in Producers, ScanProducer(p) PROVE Fresh'
  BY <1>3 DEF ScanProducer, QueueOf, prodVars, Fresh, Item
<1>4. CASE Dequeued
  BY <1>4 DEF Dequeued, prodVars, Fresh, Item
<1>5. CASE Subtract
  BY <1>5 DEF Subtract, prodVars, Fresh, Item
<1>6. CASE OnDrain
  BY <1>6 DEF OnDrain, prodVars, Fresh, Item
<1>7. CASE DrainPending
  BY <1>7 DEF DrainPending, prodVars, Fresh, Item
<1>8. CASE Free
  BY <1>8 DEF Free, prodVars, Fresh, Item
<1>9. CASE UNCHANGED vars
  BY <1>9 DEF vars, Fresh, Item
<1> QED BY <1>1, <1>2, <1>3, <1>4, <1>5, <1>6, <1>7, <1>8, <1>9 DEF Next, DrainStep

(* batch_buf never overflows, is empty while the consumer sleeps, and the
   mailbox is freed only once its producers are out of it. *)
LEMMA BatchStep == IInv /\ [Next]_vars => BatchBounded' /\ FreedLast'
<1> SUFFICES ASSUME IInv, [Next]_vars PROVE BatchBounded' /\ FreedLast'
  OBVIOUS
<1> USE DEF IInv
<1>0. Cardinality({}) = 0
  BY FS_EmptySet
<1>1. ASSUME NEW p \in Producers, PostStep(p) PROVE BatchBounded' /\ FreedLast'
  BY <1>1 DEF PostStep, Refuse, Reserve, Enqueue, EnqueueFail, Trigger, StartsPost,
              consVars, BatchBounded, FreedLast, TypeOK
<1>2. CASE OnSignal
  BY <1>2 DEF OnSignal, prodVars, BatchBounded, FreedLast
<1>3. ASSUME NEW p \in Producers, ScanProducer(p) PROVE BatchBounded' /\ FreedLast'
  <2>1. PICK T \in SUBSET QueueOf(p) : /\ Cardinality(T) <= Room
                                       /\ batch' = batch \union T
    <3>1. PICK T \in SUBSET QueueOf(p) :
                 /\ \/ Cardinality(T) = Room
                    \/ T = QueueOf(p) /\ Cardinality(T) <= Room
                 /\ batch' = batch \union T
      BY <1>3 DEF ScanProducer
    <3>2. Cardinality(T) \in Nat
      BY SubsetsFinite DEF QueueOf, TypeOK
    <3> QED BY <3>1, <3>2 DEF Room
  <2>2. T \in SUBSET Items /\ batch \in SUBSET Items /\ T \intersect batch = {}
    BY DEF QueueOf, TypeOK, Fresh
  <2>3. Cardinality(batch') = Cardinality(batch) + Cardinality(T)
    BY <2>1, <2>2, CardUnion
  <2>4. Cardinality(T) \in Nat /\ Cardinality(batch) \in Nat
    BY <2>2, SubsetsFinite
  <2>5. Cardinality(batch') <= Batch
    BY <2>1, <2>3, <2>4, MailboxAssumption DEF Room
  <2> QED BY <1>3, <2>5 DEF ScanProducer, prodVars, BatchBounded, FreedLast
<1>4. CASE Dequeued
  BY <1>4 DEF Dequeued, prodVars, BatchBounded, FreedLast
<1>5. CASE Subtract
  BY <1>5 DEF Subtract, prodVars, BatchBounded, FreedLast
<1>6. CASE OnDrain
  BY <1>0, <1>6, MailboxAssumption DEF OnDrain, prodVars, BatchBounded, FreedLast
<1>7. CASE DrainPending
  BY <1>7 DEF DrainPending, prodVars, BatchBounded, FreedLast
<1>8. CASE Free
  BY <1>8 DEF Free, prodVars, BatchBounded, FreedLast
<1>9. CASE UNCHANGED vars
  BY <1>9 DEF vars, BatchBounded, FreedLast
<1> QED BY <1>1, <1>2, <1>3, <1>4, <1>5, <1>6, <1>7, <1>8, <1>9 DEF Next, DrainStep
(* The length counter stays exact.  Each action is shown to change the set of
   items that hold a slot by what it adds to the counter. *)
LEMMA CountStep == IInv /\ [Next]_vars => CountExact'
<1> SUFFICES ASSUME IInv, [Next]_vars, cpc' # "freed"
             PROVE  count' = Cardinality(Holding') /\ count' <= Capacity
  BY DEF CountExact
<1> USE DEF IInv
<1>a. Holding \in SUBSET Items /\ Reserved \in SUBSET Items /\ count \in Nat
  BY HoldingType DEF TypeOK
<1>b. IsFiniteSet(Holding) /\ Cardinality(Holding) \in Nat
  BY <1>a, SubsetsFinite
<1>c. ASSUME cpc # "freed", Holding' = Holding, count' = count
      PROVE  count' = Cardinality(Holding') /\ count' <= Capacity
  BY <1>c DEF CountExact
<1>1. ASSUME NEW p \in Producers, PostStep(p)
      PROVE  count' = Cardinality(Holding') /\ count' <= Capacity
  <2>0. cpc # "freed" /\ cpc' = cpc /\ batch' = batch
    BY <1>1 DEF PostStep, Refuse, Reserve, Enqueue, EnqueueFail, Trigger, consVars
  <2>1. CASE Refuse(p)
    <3>1. Reserved' = Reserved
      BY <2>1 DEF Refuse, StartsPost, Reserved, Item, Items, TypeOK
    <3> QED BY <1>c, <2>0, <2>1, <3>1 DEF Refuse, Holding
  <2>2. CASE Reserve(p)
    <3> DEFINE new == <<p, seq[p] + 1>>
    <3>1. new \in Items /\ seq[p] \in Nat
      BY <2>2, MailboxAssumption DEF Reserve, StartsPost, Items, TypeOK
    <3>2. Reserved' = Reserved \union {new}
      BY <2>2, <3>1 DEF Reserve, StartsPost, Reserved, Item, Items, TypeOK
    <3>3. new \notin Holding
      BY <2>2, <3>1 DEF Reserve, StartsPost, Reserved, Holding, Item, Items, TypeOK, Fresh
    <3>4. Holding' = Holding \union {new}
      BY <2>0, <2>2, <3>2 DEF Reserve, Holding
    <3>5. Cardinality(Holding') = Cardinality(Holding) + 1
      BY <1>b, <3>3, <3>4, FS_AddElement
    <3> QED BY <1>a, <2>0, <2>2, <3>5, MailboxAssumption DEF Reserve, CountExact
  <2>3. CASE Enqueue(p)
    <3>1. Reserved = Reserved' \union {Item(p)}
      BY <2>3, MailboxAssumption DEF Enqueue, Reserved, Item, Items, TypeOK, Fresh
    <3> QED BY <1>c, <2>0, <2>3, <3>1 DEF Enqueue, Holding
  <2>4. CASE EnqueueFail(p)
    <3>1. Reserved' = Reserved \ {Item(p)} /\ Item(p) \in Reserved
      BY <2>4, MailboxAssumption DEF EnqueueFail, Reserved, Item, Items, TypeOK, Fresh
    <3>2. Holding' = Holding \ {Item(p)} /\ Item(p) \in Holding
      BY <2>0, <2>4, <3>1 DEF EnqueueFail, Holding, Fresh
    <3>3. Cardinality(Holding') = Cardinality(Holding) - 1
      BY <1>b, <3>2, FS_RemoveElement
    <3> QED BY <1>a, <2>0, <2>4, <3>3, MailboxAssumption DEF EnqueueFail, CountExact
  <2>5. CASE Trigger(p)
    <3>1. Reserved' = Reserved
      BY <2>5 DEF Trigger, Reserved, Item, Items, TypeOK
    <3> QED BY <1>c, <2>0, <2>5, <3>1 DEF Trigger, Holding
  <2> QED BY <1>1, <2>1, <2>2, <2>3, <2>4, <2>5 DEF PostStep
<1>d. ASSUME UNCHANGED prodVars PROVE Reserved' = Reserved
  BY <1>d DEF prodVars, Reserved, Item, Items
<1>2. CASE OnSignal
  BY <1>2, <1>c, <1>d DEF OnSignal, Holding, BatchBounded
<1>3. ASSUME NEW p \in Producers, ScanProducer(p)
      PROVE  count' = Cardinality(Holding') /\ count' <= Capacity
  <2>1. Holding' = Holding
    BY <1>3, <1>d DEF ScanProducer, QueueOf, Holding
  <2> QED BY <1>3, <1>c, <2>1 DEF ScanProducer
<1>4. CASE Dequeued
  BY <1>4, <1>c, <1>d DEF Dequeued, Holding
<1>5. CASE Subtract
  <2>1. batch \in SUBSET Holding /\ batch \in SUBSET Items
    BY <1>5 DEF Subtract, Holding, TypeOK
  <2>2. Reserved \intersect batch = {}
    BY DEF Reserved, Fresh, Items
  <2>3. Holding' = Holding \ batch
    BY <1>5, <1>d, <2>2 DEF Subtract, Holding, Fresh
  <2>4. Cardinality(Holding') = Cardinality(Holding) - Cardinality(batch)
    BY <1>a, <2>1, <2>3, CardDifference
  <2>5. Cardinality(batch) \in Nat
    BY <2>1, SubsetsFinite
  <2> QED BY <1>5, <1>a, <1>b, <2>4, <2>5, MailboxAssumption DEF Subtract, CountExact
<1>6. CASE OnDrain
  BY <1>6, <1>c, <1>d DEF OnDrain, Holding
<1>7. CASE DrainPending
  BY <1>7, <1>c, <1>d DEF DrainPending, Holding, BatchBounded
<1>8. CASE Free
  BY <1>8 DEF Free
<1>9. CASE UNCHANGED vars
  BY <1>9, <1>c, <1>d DEF vars, prodVars, Holding
<1> QED BY <1>1, <1>2, <1>3, <1>4, <1>5, <1>6, <1>7, <1>8, <1>9 DEF Next, DrainStep

(* No wake-up is lost.  What a running dequeue has passed by is covered by a
   signal, so when the dequeue comes back empty the signal is still there. *)
LEMMA SignalStep == IInv /\ [Next]_vars => NoStrandedItem' /\ MissedItemsSignalled'
<1> SUFFICES ASSUME IInv, [Next]_vars
             PROVE  NoStrandedItem' /\ MissedItemsSignalled'
  OBVIOUS
<1> USE DEF IInv
<1>1. ASSUME NEW p \in Producers, PostStep(p)
      PROVE  NoStrandedItem' /\ MissedItemsSignalled'
  BY <1>1 DEF PostStep, Refuse, Reserve, Enqueue, EnqueueFail, Trigger, StartsPost, Item,
              consVars, NoStrandedItem, MissedItemsSignalled, QueueOf, TypeOK
<1>2. CASE OnSignal
  BY <1>2 DEF OnSignal, NoStrandedItem, MissedItemsSignalled
<1>3. ASSUME NEW p \in Producers, ScanProducer(p)
      PROVE  NoStrandedItem' /\ MissedItemsSignalled'
  <2>1. PICK T \in SUBSET QueueOf(p) :
               /\ \/ Cardinality(T) = Room
                  \/ T = QueueOf(p) /\ Cardinality(T) <= Room
               /\ batch' = batch \union T
               /\ queue' = queue \ T
    BY <1>3 DEF ScanProducer
  <2>2. QueueOf(p)' = {} \/ batch' # {}
    <3>1. CASE T = {}
      <4>1. Room # 0 /\ Cardinality({}) = 0
        BY <1>3, FS_EmptySet DEF ScanProducer
      <4> QED BY <2>1, <3>1, <4>1 DEF QueueOf
    <3> QED BY <2>1, <3>1
  <2>3. \A q \in Producers : QueueOf(q)' \subseteq QueueOf(q)
    BY <2>1 DEF QueueOf
  <2> QED BY <1>3, <2>1, <2>2, <2>3
          DEF ScanProducer, prodVars, NoStrandedItem, MissedItemsSignalled
<1>4. CASE Dequeued
  <2>1. CASE batch = {}
    <3>1. Room # 0
      BY <2>1, FS_EmptySet, MailboxAssumption DEF Room
    <3>2. \A p \in Producers : QueueOf(p) # {} => pending \/ pc[p] = "enqueued"
      BY <1>4, <2>1, <3>1 DEF Dequeued, MissedItemsSignalled
    <3>3. queue # {} => \E p \in Producers : QueueOf(p) # {}
      BY DEF QueueOf, TypeOK, Items
    <3> QED BY <1>4, <2>1, <3>2, <3>3
            DEF Dequeued, prodVars, NoStrandedItem, MissedItemsSignalled
  <2>2. CASE batch # {}
    BY <1>4, <2>2 DEF Dequeued, NoStrandedItem, MissedItemsSignalled
  <2> QED BY <2>1, <2>2
<1>5. CASE Subtract
  BY <1>5 DEF Subtract, NoStrandedItem, MissedItemsSignalled
<1>6. CASE OnDrain
  BY <1>6 DEF OnDrain, NoStrandedItem, MissedItemsSignalled
<1>7. CASE DrainPending
  BY <1>7 DEF DrainPending, NoStrandedItem, MissedItemsSignalled
<1>8. CASE Free
  BY <1>8 DEF Free, NoStrandedItem, MissedItemsSignalled
<1>9. CASE UNCHANGED vars
  BY <1>9 DEF vars, NoStrandedItem, MissedItemsSignalled, QueueOf
<1> QED BY <1>1, <1>2, <1>3, <1>4, <1>5, <1>6, <1>7, <1>8, <1>9 DEF Next, DrainStep

-----------------------------------------------------------------------------
(* The invariant holds in a new mailbox. *)
LEMMA InvInit == Init => IInv
<1> SUFFICES ASSUME Init PROVE IInv
  OBVIOUS
<1>1. Cardinality({}) = 0
  BY FS_EmptySet
<1>2. TypeOK
  <2>1. pending \in BOOLEAN /\ quiesced \in BOOLEAN
    BY DEF Init
  <2>2. /\ pc \in [Producers -> {"idle", "reserved", "enqueued"}]
        /\ seq \in [Producers -> 0..MaxPosts]
        /\ count \in Nat
        /\ cpc \in {"wait", "scan", "sub", "run", "freed"}
    BY MailboxAssumption DEF Init
  <2>3. /\ queue \in SUBSET Items /\ batch \in SUBSET Items /\ handled \in SUBSET Items
        /\ unscanned \in SUBSET Producers
    BY DEF Init
  <2> QED BY <2>1, <2>2, <2>3 DEF TypeOK
<1>5. Fresh
  BY DEF Init, Fresh
<1>6. FreedLast /\ NoStrandedItem /\ MissedItemsSignalled
  BY DEF Init, FreedLast, NoStrandedItem, MissedItemsSignalled
<1>3. Holding = {}
  BY DEF Init, Holding, Reserved, Items
<1>4. BatchBounded /\ CountExact
  BY <1>1, <1>3, MailboxAssumption DEF Init, BatchBounded, CountExact
<1> QED BY <1>2, <1>4, <1>5, <1>6 DEF IInv

(* Every step keeps the invariant. *)
LEMMA InvStep == IInv /\ [Next]_vars => IInv'
BY TypeStep, FreshStep, BatchStep, CountStep, SignalStep DEF IInv

(* The invariant holds in every behaviour. *)
LEMMA InvAlways == Spec => []IInv
BY InvInit, InvStep, PTL DEF Spec

(* The queue's length counter is exact and within the cap at every step of
   thread_mpsc_enqueue and thread_mpsc_drain, whatever the interleaving. *)
THEOREM MailboxCountExact == Spec => [](TypeOK /\ CountExact)
<1>1. IInv => TypeOK /\ CountExact
  BY DEF IInv
<1> QED BY <1>1, InvAlways, PTL

(* thread_mailbox_post and mailbox_on_signal never strand an item in front of
   a sleeping consumer. *)
THEOREM MailboxNoLostWakeup == Spec => []NoStrandedItem
<1>1. IInv => NoStrandedItem
  BY DEF IInv
<1> QED BY <1>1, InvAlways, PTL

(* The steps of the threads map to steps of the abstract channel: enqueue is
   Accept, on_drain is Deliver, free is Close, and all others change neither
   what waits nor what was handed over. *)
LEMMA ChannelStep == IInv /\ [Next]_vars => [Channel!Next]_(Channel!vars)
<1> SUFFICES ASSUME IInv, [Next]_vars PROVE [Channel!Next]_(Channel!vars)
  OBVIOUS
<1> USE DEF IInv, Channel!vars
<1>1. ASSUME NEW p \in Producers, PostStep(p) PROVE [Channel!Next]_(Channel!vars)
  <2>1. CASE Enqueue(p)
    <3>1. Item(p) \in Reserved /\ Item(p) \in Items /\ cpc # "freed"
      BY <2>1, MailboxAssumption DEF Enqueue, Reserved, Item, Items, TypeOK, Fresh, FreedLast
    <3>2. Item(p) \notin queue \union batch \union handled
      BY <2>1 DEF Enqueue, Fresh
    <3> DEFINE Q == queue \union {Item(p)}
    <3>3. Q \in SUBSET Holding /\ Q \in SUBSET Items /\ Q \intersect batch = {}
      BY <3>1, <3>2 DEF Holding, TypeOK, Fresh
    <3>4. IsFiniteSet(Holding) /\ Cardinality(Holding) <= Capacity
      BY <3>1, HoldingType, SubsetsFinite DEF CountExact
    <3>5. Cardinality(Q) <= Capacity
      <4>1. Cardinality(Q) <= Cardinality(Holding)
        BY <3>3, <3>4, FS_Subset
      <4>2. Cardinality(Q) \in Nat /\ Cardinality(Holding) \in Nat
        BY <3>3, HoldingType, SubsetsFinite
      <4> QED BY <3>4, <4>1, <4>2, MailboxAssumption
    <3>6. Cardinality(Q \union batch) = Cardinality(Q) + Cardinality(batch)
      BY <3>3, CardUnion DEF TypeOK
    <3>7. Cardinality(Q) \in Nat /\ Cardinality(batch) \in Nat
      BY <3>3, SubsetsFinite DEF TypeOK
    <3>8. Cardinality(Q \union batch) <= Capacity + Batch
      BY <3>5, <3>6, <3>7, MailboxAssumption DEF BatchBounded
    <3>9. queue' \union batch' = Q \union batch
      BY <2>1 DEF Enqueue, consVars
    <3>10. Channel!Accept
      <4>1. /\ Item(p) \in Items \ ((queue \union batch) \union handled)
            /\ queue' \union batch' = (queue \union batch) \union {Item(p)}
        BY <3>1, <3>2, <3>9
      <4>2. Cardinality(queue' \union batch') <= Capacity + Batch
        BY <3>8, <3>9
      <4>3. handled' = handled /\ cpc' = cpc
        BY <2>1 DEF Enqueue, consVars
      <4>4. Channel!Cardinality(queue' \union batch') = Cardinality(queue' \union batch')
        BY DEF Channel!Cardinality, Cardinality
      <4> QED BY <3>1, <4>1, <4>2, <4>3, <4>4 DEF Channel!Accept
    <3> QED BY <3>10 DEF Channel!Next
  <2>2. CASE ~Enqueue(p)
    BY <1>1, <2>2 DEF PostStep, Refuse, Reserve, EnqueueFail, Trigger, consVars
  <2> QED BY <2>1, <2>2
<1>2. CASE OnSignal
  BY <1>2 DEF OnSignal
<1>3. ASSUME NEW p \in Producers, ScanProducer(p) PROVE [Channel!Next]_(Channel!vars)
  BY <1>3 DEF ScanProducer, QueueOf
<1>4. CASE Dequeued
  BY <1>4 DEF Dequeued
<1>5. CASE Subtract
  BY <1>5 DEF Subtract
<1>6. CASE OnDrain
  <2>1. Channel!Deliver
    <3>1. queue' \union batch' = (queue \union batch) \ batch
      BY <1>6 DEF OnDrain, Fresh
    <3> QED BY <1>6, <3>1 DEF OnDrain, Channel!Deliver
  <2> QED BY <2>1 DEF Channel!Next
<1>7. CASE DrainPending
  BY <1>7 DEF DrainPending
<1>8. CASE Free
  BY <1>8 DEF Free, BatchBounded, Channel!Next, Channel!Close
<1>9. CASE UNCHANGED vars
  BY <1>9 DEF vars
<1> QED BY <1>1, <1>2, <1>3, <1>4, <1>5, <1>6, <1>7, <1>8, <1>9 DEF Next, DrainStep

(* The mailbox implements the bounded exactly-once channel of BoundedChannel,
   with room for the cap plus one batch. *)
THEOREM MailboxIsChannel == Spec => ImplementsChannel
<1>1. Init => Channel!Init
  BY DEF Init, Channel!Init
<1> QED BY <1>1, InvAlways, ChannelStep, PTL DEF Spec, ImplementsChannel, Channel!Spec
=============================================================================
