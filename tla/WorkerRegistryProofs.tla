------------------------ MODULE WorkerRegistryProofs ------------------------
(***************************************************************************)
(* For any number of workers and reactors, any table, inbox and mailbox    *)
(* size: the fence a retiring worker posts to every reactor makes the free *)
(* of its inbox safe, and loses no request that the inbox accepted.        *)
(***************************************************************************)
EXTENDS WorkerRegistry, FiniteSetTheorems, TLAPS

Retiring == {"fencing", "waiting", "residual", "retired", "freed"}

RegistryTypeOK ==
  /\ slots \in [SlotIds -> Workers \union {None}]
  /\ wpc \in [Workers -> {"new", "refused", "up", "lost"} \union Retiring]
  /\ inbox \in [Workers -> Nat]
  /\ remaining \in [Workers -> Int]
  /\ todo \in [Workers -> SUBSET Reactors]
  /\ skipped \in [Workers -> SUBSET Reactors]
  /\ spins \in [Workers -> Nat]
  /\ box \in [Reactors -> Seq(Workers \union {Other})]
  /\ held \in [Reactors -> Workers \union {None}]
  /\ rpc \in [Reactors -> {"idle", "picked", "post"}]
  /\ home \in [Reactors -> SlotIds \union {-1}]

Holds(s, x) == \E k \in 1 .. Len(s) : s[k] = x
HoldsOnce(s, x) == \A j, k \in 1 .. Len(s) : s[j] = x /\ s[k] = x => j = k
FencedAt(w) == {r \in Reactors : Holds(box[r], w)}

\* The table names running workers, and those freed without a retirement.
PublishedRuns ==
  \A i \in SlotIds : slots[i] # None => wpc[slots[i]] \in {"up", "lost"}

\* A dispatch holds a pointer only until it has posted, and while a worker
\* retires, its fence is still to come behind every dispatch that holds it.
FenceBehind ==
  \A r \in Reactors :
     /\ rpc[r] = "idle" => held[r] = None
     /\ \A w \in Workers : held[r] = w /\ wpc[w] \in Retiring =>
           r \in todo[w] \union FencedAt(w) \union skipped[w]

\* The counter of a fence is what is still to be posted plus what is queued;
\* each reactor is sent at most one copy, and none is left when it is freed.
Counted(w) ==
  /\ todo[w] \intersect FencedAt(w) = {}
  /\ \A r \in Reactors : HoldsOnce(box[r], w)
  /\ wpc[w] # "fencing" => todo[w] = {}
  /\ wpc[w] \in {"fencing", "waiting"} =>
        remaining[w] = Cardinality(todo[w]) + Cardinality(FencedAt(w))
  /\ wpc[w] \notin {"fencing", "waiting"} => FencedAt(w) = {}
FencesCounted == \A w \in Workers : Counted(w)

\* Behind its fence an inbox only empties: one sleep, or finding it empty,
\* settles that nothing is in it.
InboxEmpties ==
  \A w \in Workers : skipped[w] = {} =>
     /\ wpc[w] \in {"new", "refused", "up", "lost", "fencing", "waiting"} => spins[w] = 0
     /\ wpc[w] = "residual" /\ spins[w] > 0 => inbox[w] = 0
     /\ wpc[w] \in {"retired", "freed"} => inbox[w] = 0

IInv == RegistryTypeOK /\ PublishedRuns /\ FenceBehind /\ FencesCounted /\ InboxEmpties

-----------------------------------------------------------------------------
\* What a mailbox holds after a post.
LEMMA AppendHolds ==
  ASSUME NEW S, NEW s \in Seq(S), NEW x \in S, NEW y
  PROVE  /\ Append(s, x) \in Seq(S)
         /\ Holds(Append(s, x), y) <=> Holds(s, y) \/ x = y
         /\ HoldsOnce(s, y) /\ (x = y => ~Holds(s, y)) => HoldsOnce(Append(s, x), y)
BY DEF Holds, HoldsOnce

\* What a mailbox holds after its head is taken.
LEMMA TailHolds ==
  ASSUME NEW S, NEW s \in Seq(S), s # <<>>, NEW y, HoldsOnce(s, y)
  PROVE  /\ Tail(s) \in Seq(S)
         /\ Holds(Tail(s), y) <=> Holds(s, y) /\ Head(s) # y
         /\ HoldsOnce(Tail(s), y)
         /\ Head(s) = y => Holds(s, y)
<1>1. /\ Tail(s) \in Seq(S) /\ Len(s) \in Nat \ {0} /\ Len(Tail(s)) = Len(s) - 1
      /\ Head(s) = s[1] /\ \A k \in 1 .. Len(Tail(s)) : Tail(s)[k] = s[k + 1]
  OBVIOUS
<1>2. Head(s) = y => Holds(s, y)
  BY <1>1 DEF Holds
<1>3. HoldsOnce(Tail(s), y)
  <2> SUFFICES ASSUME NEW j \in 1 .. Len(Tail(s)), NEW k \in 1 .. Len(Tail(s)),
                      Tail(s)[j] = y, Tail(s)[k] = y
               PROVE  j = k
    BY Zenon DEF HoldsOnce
  <2>1. j + 1 \in 1 .. Len(s) /\ k + 1 \in 1 .. Len(s) /\ s[j + 1] = y /\ s[k + 1] = y
    BY <1>1
  <2>2. j + 1 = k + 1
    BY Zenon, <2>1 DEF HoldsOnce
  <2> QED BY <2>2
<1>4. ASSUME Holds(Tail(s), y) PROVE Holds(s, y) /\ Head(s) # y
  <2>1. PICK k \in 1 .. Len(Tail(s)) : Tail(s)[k] = y
    BY Zenon, <1>4 DEF Holds
  <2>2. k + 1 \in 1 .. Len(s) /\ s[k + 1] = y /\ 1 \in 1 .. Len(s) /\ k + 1 # 1
    BY <1>1, <2>1
  <2> QED BY Zenon, <1>1, <2>2 DEF Holds, HoldsOnce
<1>5. ASSUME Holds(s, y), Head(s) # y PROVE Holds(Tail(s), y)
  <2>1. PICK k \in 1 .. Len(s) : s[k] = y
    BY Zenon, <1>5 DEF Holds
  <2>2. k # 1 /\ k - 1 \in 1 .. Len(Tail(s)) /\ Tail(s)[k - 1] = s[(k - 1) + 1] /\ (k - 1) + 1 = k
    BY <1>1, <1>5, <2>1
  <2> QED BY Zenon, <2>1, <2>2 DEF Holds
<1> QED BY Zenon, <1>1, <1>2, <1>3, <1>4, <1>5

\* Sets of reactors are finite.
LEMMA Finite ==
  ASSUME RegistryAssumption, NEW S \in SUBSET Reactors
  PROVE  /\ IsFiniteSet(S) /\ Cardinality(S) \in Nat
         /\ Cardinality(S) = 0 <=> S = {}
         /\ \A r \in S : Cardinality(S \ {r}) = Cardinality(S) - 1
         /\ \A r \in Reactors \ S : Cardinality(S \union {r}) = Cardinality(S) + 1
<1>1. IsFiniteSet(S)
  BY Zenon, FS_Subset DEF RegistryAssumption
<1> QED BY Zenon, <1>1, FS_CardinalityType, FS_EmptySet, FS_RemoveElement, FS_AddElement


\* Mailboxes left alone hold the same fences.
LEMMA SameBox ==
  ASSUME UNCHANGED box
  PROVE  \A v : FencedAt(v)' = FencedAt(v)
BY Zenon DEF FencedAt

\* A fence no step touched is counted as before.
LEMMA SameCounted ==
  ASSUME NEW w, Counted(w), UNCHANGED box, UNCHANGED <<todo[w], wpc[w], remaining[w]>>
  PROVE  Counted(w)'
BY Zenon, SameBox DEF Counted

\* The numbers a fence counts.
LEMMA Sizes ==
  ASSUME RegistryAssumption, RegistryTypeOK, NEW w \in Workers
  PROVE  /\ FencedAt(w) \subseteq Reactors /\ todo[w] \subseteq Reactors
         /\ Cardinality(todo[w]) \in Nat /\ Cardinality(FencedAt(w)) \in Nat
         /\ Cardinality(FencedAt(w)) = 0 <=> FencedAt(w) = {}
         /\ \A r \in todo[w] : Cardinality(todo[w] \ {r}) = Cardinality(todo[w]) - 1
         /\ \A r \in FencedAt(w) : Cardinality(FencedAt(w) \ {r}) = Cardinality(FencedAt(w)) - 1
         /\ \A r \in Reactors \ FencedAt(w) :
              Cardinality(FencedAt(w) \union {r}) = Cardinality(FencedAt(w)) + 1
<1>1. FencedAt(w) \subseteq Reactors
  BY Zenon DEF FencedAt
<1>2. todo[w] \subseteq Reactors
  BY Zenon DEF RegistryTypeOK
<1> QED BY Zenon, <1>1, <1>2, Finite

(* What Pick leaves: nothing, or a published inbox in the reactor's hands. *)
LEMMA Picked ==
  ASSUME RegistryTypeOK, NEW r \in Reactors, Pick(r)
  PROVE  /\ UNCHANGED <<slots, wpc, inbox, remaining, todo, skipped, spins, box>>
         /\ rpc[r] = "idle" /\ \A v : FencedAt(v)' = FencedAt(v)
         /\ \/ UNCHANGED <<held, rpc, home>>
            \/ \E i \in SlotIds : /\ slots[i] # None
                                /\ held' = [held EXCEPT ![r] = slots[i]]
                                /\ home' = [home EXCEPT ![r] = i]
                                /\ rpc' = [rpc EXCEPT ![r] = "picked"]
<1> DEFINE own == LeastBusy(Owned(r))
           any == IF own # {} THEN own ELSE LeastBusy(SlotIds)
           at  == IF home[r] >= 0 /\ slots[home[r]] # None THEN {home[r]} ELSE any
<1>1. \A S \in SUBSET SlotIds : LeastBusy(S) \subseteq {i \in SlotIds : slots[i] # None}
  BY Zenon DEF LeastBusy
<1>2. Owned(r) \in SUBSET SlotIds
  BY Zenon DEF Owned
<1>3. any \subseteq {i \in SlotIds : slots[i] # None}
  BY Zenon, <1>1, <1>2
<1>4. home[r] >= 0 => home[r] \in SlotIds
  BY DEF RegistryTypeOK
<1>5. at \subseteq {i \in SlotIds : slots[i] # None}
  BY Zenon, <1>3, <1>4
<1>6. IF at = {} THEN UNCHANGED <<held, rpc, home>>
      ELSE \E i \in at : /\ held' = [held EXCEPT ![r] = slots[i]]
                         /\ home' = [home EXCEPT ![r] = i]
                         /\ rpc' = [rpc EXCEPT ![r] = "picked"]
  BY Zenon DEF Pick
<1> HIDE DEF at
<1> QED BY Zenon, <1>5, <1>6, SameBox DEF Pick, table, fence

(* What SpillOver leaves: the same pointer, or another published inbox. *)
LEMMA Spilled ==
  ASSUME RegistryTypeOK, NEW r \in Reactors, SpillOver(r)
  PROVE  /\ UNCHANGED <<slots, wpc, inbox, remaining, todo, skipped, spins, box, home>>
         /\ rpc[r] = "picked" /\ rpc' = [rpc EXCEPT ![r] = "post"]
         /\ \A v : FencedAt(v)' = FencedAt(v)
         /\ \/ UNCHANGED held
            \/ \E i \in SlotIds : slots[i] # None /\ held' = [held EXCEPT ![r] = slots[i]]
<1> DEFINE own == LeastBusy(Owned(r))
           any == LeastBusy(SlotIds)
           alt == IF (\E i \in own : inbox[slots[i]] < Spill) \/ any = {} THEN own ELSE any
<1>1. own \subseteq {i \in SlotIds : slots[i] # None} /\ any \subseteq {i \in SlotIds : slots[i] # None}
  BY Zenon DEF LeastBusy, Owned
<1>2. alt \subseteq {i \in SlotIds : slots[i] # None}
  BY Zenon, <1>1
<1>3. UNCHANGED held \/ \E i \in alt : held' = [held EXCEPT ![r] = slots[i]]
  BY Zenon DEF SpillOver
<1> HIDE DEF alt
<1> QED BY Zenon, <1>2, <1>3, SameBox DEF SpillOver, table, fence

(* What PostFence leaves: one more copy of the fence, or one it gave up on. *)
LEMMA Fenced ==
  ASSUME IInv, NEW w \in Workers, PostFence(w)
  PROVE  \E r \in todo[w] :
           /\ wpc[w] = "fencing" /\ todo' = [todo EXCEPT ![w] = @ \ {r}]
           /\ UNCHANGED <<slots, wpc, inbox, spins, held, rpc, home>>
           /\ \/ /\ UNCHANGED <<remaining, skipped>>
                 /\ box' \in [Reactors -> Seq(Workers \union {Other})]
                 /\ \A v \in Workers :
                      /\ FencedAt(v)' = IF v = w THEN FencedAt(v) \union {r} ELSE FencedAt(v)
                      /\ \A q \in Reactors : HoldsOnce(box'[q], v)
              \/ /\ UNCHANGED box
                 /\ skipped' = [skipped EXCEPT ![w] = @ \union {r}]
                 /\ remaining' = [remaining EXCEPT ![w] = @ - 1]
<1>1. PICK r \in todo[w] :
        /\ wpc[w] = "fencing" /\ todo' = [todo EXCEPT ![w] = @ \ {r}]
        /\ UNCHANGED <<slots, wpc, inbox, spins, held, rpc, home>>
        /\ \/ /\ UNCHANGED <<remaining, skipped>>
              /\ box' = [box EXCEPT ![r] = Append(@, w)]
           \/ /\ UNCHANGED box
              /\ skipped' = [skipped EXCEPT ![w] = @ \union {r}]
              /\ remaining' = [remaining EXCEPT ![w] = @ - 1]
  BY Zenon DEF PostFence, table, dispatch
<1>2. r \in Reactors /\ box \in [Reactors -> Seq(Workers \union {Other})]
  BY Zenon DEF IInv, RegistryTypeOK
<1>3. r \notin FencedAt(w) /\ \A v \in Workers, q \in Reactors : HoldsOnce(box[q], v)
  BY Zenon, <1>1 DEF IInv, FencesCounted, Counted
<1>4. ASSUME box' = [box EXCEPT ![r] = Append(@, w)]
      PROVE  /\ box' \in [Reactors -> Seq(Workers \union {Other})]
             /\ \A v \in Workers :
                  /\ FencedAt(v)' = IF v = w THEN FencedAt(v) \union {r} ELSE FencedAt(v)
                  /\ \A q \in Reactors : HoldsOnce(box'[q], v)
  <2>1. \A v \in Workers :
          /\ Append(box[r], w) \in Seq(Workers \union {Other})
          /\ Holds(Append(box[r], w), v) <=> Holds(box[r], v) \/ w = v
          /\ HoldsOnce(box[r], v) /\ (w = v => ~Holds(box[r], v)) => HoldsOnce(Append(box[r], w), v)
    BY <1>2, AppendHolds
  <2>2. ~Holds(box[r], w)
    BY Zenon, <1>2, <1>3 DEF FencedAt
  <2>3. \A q \in Reactors : box'[q] = IF q = r THEN Append(box[r], w) ELSE box[q]
    BY Zenon, <1>2, <1>4
  <2>4. box' \in [Reactors -> Seq(Workers \union {Other})]
    BY Zenon, <1>2, <1>4, <2>1
  <2>5. ASSUME NEW v \in Workers
        PROVE  /\ FencedAt(v)' = IF v = w THEN FencedAt(v) \union {r} ELSE FencedAt(v)
               /\ \A q \in Reactors : HoldsOnce(box'[q], v)
    BY Zenon, <1>2, <1>3, <2>1, <2>2, <2>3 DEF FencedAt
  <2> QED BY Zenon, <2>4, <2>5
<1> QED BY Zenon, <1>1, <1>4

(* What RunCommand leaves: one copy of the head's fence less. *)
LEMMA Ran ==
  ASSUME IInv, NEW r \in Reactors, RunCommand(r)
  PROVE  LET c == Head(box[r]) IN
         /\ rpc[r] = "idle"
         /\ UNCHANGED <<slots, wpc, inbox, todo, skipped, spins, held, rpc, home>>
         /\ box' \in [Reactors -> Seq(Workers \union {Other})]
         /\ c = Other \/ (c \in Workers /\ r \in FencedAt(c))
         /\ remaining' = IF c = Other THEN remaining ELSE [remaining EXCEPT ![c] = @ - 1]
         /\ \A v \in Workers :
              /\ FencedAt(v)' = IF v = c THEN FencedAt(v) \ {r} ELSE FencedAt(v)
              /\ \A q \in Reactors : HoldsOnce(box'[q], v)
<1>1. box[r] # <<>> /\ box' = [box EXCEPT ![r] = Tail(@)]
  BY Zenon DEF RunCommand
<1>2. box \in [Reactors -> Seq(Workers \union {Other})]
  BY Zenon DEF IInv, RegistryTypeOK
<1>3. \A v \in Workers, q \in Reactors : HoldsOnce(box[q], v)
  BY Zenon DEF IInv, FencesCounted, Counted
<1>4. \A v \in Workers :
        /\ Tail(box[r]) \in Seq(Workers \union {Other})
        /\ Holds(Tail(box[r]), v) <=> Holds(box[r], v) /\ Head(box[r]) # v
        /\ HoldsOnce(Tail(box[r]), v)
        /\ Head(box[r]) = v => Holds(box[r], v)
  BY Zenon, <1>1, <1>2, <1>3, TailHolds
<1>5. \A q \in Reactors : box'[q] = IF q = r THEN Tail(box[r]) ELSE box[q]
  BY Zenon, <1>1, <1>2
<1>6. Head(box[r]) \in Workers \union {Other} /\ Tail(box[r]) \in Seq(Workers \union {Other})
  BY <1>1, <1>2
<1>7. box' \in [Reactors -> Seq(Workers \union {Other})]
  BY Zenon, <1>1, <1>2, <1>6
<1>8. Head(box[r]) = Other \/ (Head(box[r]) \in Workers /\ r \in FencedAt(Head(box[r])))
  BY Zenon, <1>4, <1>6 DEF FencedAt
<1>9. ASSUME NEW v \in Workers
      PROVE  /\ FencedAt(v)' = IF v = Head(box[r]) THEN FencedAt(v) \ {r} ELSE FencedAt(v)
             /\ \A q \in Reactors : HoldsOnce(box'[q], v)
  BY Zenon, <1>3, <1>4, <1>5 DEF FencedAt
<1> QED BY Zenon, <1>7, <1>8, <1>9 DEF RunCommand, table, dispatch

(* Another sender's command is no fence. *)
LEMMA Others ==
  ASSUME RegistryAssumption, IInv, NEW r \in Reactors, PostOther(r)
  PROVE  /\ UNCHANGED <<slots, wpc, inbox, remaining, todo, skipped, spins, held, rpc, home>>
         /\ box' \in [Reactors -> Seq(Workers \union {Other})]
         /\ \A v \in Workers :
              /\ FencedAt(v)' = FencedAt(v)
              /\ \A q \in Reactors : HoldsOnce(box'[q], v)
<1>1. box' = [box EXCEPT ![r] = Append(@, Other)]
  BY Zenon DEF PostOther
<1>2. box \in [Reactors -> Seq(Workers \union {Other})]
  BY Zenon DEF IInv, RegistryTypeOK
<1>3. \A v \in Workers, q \in Reactors : HoldsOnce(box[q], v) /\ v # Other
  BY Zenon DEF IInv, FencesCounted, Counted, RegistryAssumption, Other
<1>4. \A v \in Workers :
        /\ Append(box[r], Other) \in Seq(Workers \union {Other})
        /\ Holds(Append(box[r], Other), v) <=> Holds(box[r], v) \/ Other = v
        /\ HoldsOnce(box[r], v) /\ (Other = v => ~Holds(box[r], v))
              => HoldsOnce(Append(box[r], Other), v)
  BY <1>2, AppendHolds
<1>5. \A q \in Reactors : box'[q] = IF q = r THEN Append(box[r], Other) ELSE box[q]
  BY Zenon, <1>1, <1>2
<1>6. Append(box[r], Other) \in Seq(Workers \union {Other})
  BY <1>2
<1>7. box' \in [Reactors -> Seq(Workers \union {Other})]
  BY Zenon, <1>1, <1>2, <1>6
<1>8. ASSUME NEW v \in Workers
      PROVE  FencedAt(v)' = FencedAt(v) /\ \A q \in Reactors : HoldsOnce(box'[q], v)
  BY Zenon, <1>3, <1>4, <1>5 DEF FencedAt
<1> QED BY Zenon, <1>7, <1>8 DEF PostOther, table, fence, dispatch

(* Every variable keeps its type. *)
LEMMA TypeStep ==
  ASSUME RegistryAssumption, IInv, [Next]_vars
  PROVE  RegistryTypeOK'
<1> USE DEF IInv, RegistryTypeOK, Retiring
<1>1. ASSUME NEW r \in Reactors, ReactorStep(r) \/ PostOther(r) PROVE RegistryTypeOK'
  <2>1. CASE Pick(r)
    <3>1. UNCHANGED <<slots, wpc, inbox, remaining, todo, skipped, spins, box>>
      BY Zenon, <2>1, Picked
    <3>2. CASE UNCHANGED <<held, rpc, home>>
      BY Zenon, <3>1, <3>2
    <3>3. ASSUME NEW i \in SlotIds, held' = [held EXCEPT ![r] = slots[i]],
                 home' = [home EXCEPT ![r] = i], rpc' = [rpc EXCEPT ![r] = "picked"]
          PROVE  RegistryTypeOK'
      BY Zenon, <3>1, <3>3
    <3> QED BY Zenon, <2>1, <3>2, <3>3, Picked
  <2>2. CASE SpillOver(r)
    BY Zenon, <2>2, Spilled
  <2>3. CASE Post(r)
    <3>1. held[r] \in Workers \/ held[r] = None
      BY Zenon
    <3>2. inbox' \in [Workers -> Nat]
      <4>1. UNCHANGED inbox \/ inbox' = [inbox EXCEPT ![held[r]] = @ + 1]
        BY Zenon, <2>3 DEF Post
      <4>2. CASE held[r] \in Workers
        <5>1. inbox[held[r]] + 1 \in Nat
          BY <4>2
        <5> QED BY Zenon, <4>1, <4>2, <5>1
      <4>3. CASE held[r] = None
        BY Zenon, <4>1, <4>3 DEF RegistryAssumption
      <4> QED BY Zenon, <3>1, <4>2, <4>3
    <3> QED BY Zenon, <2>3, <3>2 DEF Post, table, fence
  <2>4. CASE RunCommand(r)
    <3>1. remaining' \in [Workers -> Int]
      <4>1. UNCHANGED remaining \/ \E c \in Workers : remaining' = [remaining EXCEPT ![c] = @ - 1]
        BY Zenon, <2>4, Ran
      <4> QED BY <4>1
    <3> QED BY Zenon, <2>4, <3>1, Ran
  <2>5. CASE PostOther(r)
    BY Zenon, <2>5, Others
  <2> QED BY Zenon, <1>1, <2>1, <2>2, <2>3, <2>4, <2>5 DEF ReactorStep
<1>2. ASSUME NEW w \in Workers,
             Up(w) \/ DrainInbox(w) \/ Retire(w) \/ RetireStep(w) \/ Free(w)
      PROVE  RegistryTypeOK'
  <2>1. CASE Up(w)
    BY Zenon, <2>1 DEF Up, Add, fence, dispatch
  <2>2. CASE DrainInbox(w)
    BY <2>2 DEF DrainInbox, table, fence, dispatch
  <2>3. CASE Retire(w)
    <3>1. nReactors \in Int
      BY Finite DEF nReactors
    <3>2. slots' \in [SlotIds -> Workers \union {None}]
      BY Zenon, <2>3 DEF Retire, Unpublish
    <3> QED BY Zenon, <2>3, <3>1, <3>2 DEF Retire, dispatch
  <2>4. CASE PostFence(w)
    <3>1. PICK q \in todo[w] :
             /\ todo' = [todo EXCEPT ![w] = @ \ {q}]
             /\ UNCHANGED <<slots, wpc, inbox, spins, held, rpc, home>>
             /\ \/ /\ UNCHANGED <<remaining, skipped>>
                   /\ box' \in [Reactors -> Seq(Workers \union {Other})]
                \/ /\ UNCHANGED box
                   /\ skipped' = [skipped EXCEPT ![w] = @ \union {q}]
                   /\ remaining' = [remaining EXCEPT ![w] = @ - 1]
      BY Zenon, <2>4, Fenced
    <3>2. q \in Reactors /\ todo' \in [Workers -> SUBSET Reactors]
      BY Zenon, <3>1
    <3>3. box' \in [Reactors -> Seq(Workers \union {Other})]
      BY Zenon, <3>1
    <3>4. skipped' \in [Workers -> SUBSET Reactors]
      BY <3>1, <3>2
    <3>5. remaining' \in [Workers -> Int]
      BY <3>1
    <3> QED BY Zenon, <3>1, <3>2, <3>3, <3>4, <3>5
  <2>5. CASE Suspend(w)
    BY Zenon, <2>5 DEF Suspend, fence, dispatch
  <2>6. CASE FencePassed(w)
    BY Zenon, <2>6 DEF FencePassed, fence, dispatch
  <2>7. CASE SleepMs(w)
    BY <2>7 DEF SleepMs, table, dispatch
  <2>8. CASE GoOn(w)
    BY Zenon, <2>8 DEF GoOn, fence, dispatch
  <2>9. CASE Free(w)
    BY Zenon, <2>9 DEF Free, fence, dispatch
  <2> QED
    BY Zenon, <1>2, <2>1, <2>2, <2>3, <2>4, <2>5, <2>6, <2>7, <2>8, <2>9 DEF RetireStep
<1>3. CASE UNCHANGED vars
  BY Zenon, <1>3 DEF vars, table, fence, dispatch
<1> QED BY Zenon, <1>1, <1>2, <1>3 DEF Next

(* Only running workers are published. *)
LEMMA PublishedStep ==
  ASSUME RegistryAssumption, IInv, [Next]_vars
  PROVE  PublishedRuns'
<1> USE DEF IInv, RegistryTypeOK, Retiring, PublishedRuns
<1>1. ASSUME NEW r \in Reactors, ReactorStep(r) \/ PostOther(r) PROVE PublishedRuns'
  <2>1. CASE Pick(r)
    BY Zenon, <2>1, Picked
  <2>2. CASE SpillOver(r)
    BY Zenon, <2>2, Spilled
  <2>3. CASE Post(r)
    BY Zenon, <2>3 DEF Post, table, fence
  <2>4. CASE RunCommand(r)
    BY Zenon, <2>4, Ran
  <2>5. CASE PostOther(r)
    BY Zenon, <2>5, Others
  <2> QED BY Zenon, <1>1, <2>1, <2>2, <2>3, <2>4, <2>5 DEF ReactorStep
<1>2. ASSUME NEW w \in Workers,
             Up(w) \/ DrainInbox(w) \/ Retire(w) \/ RetireStep(w) \/ Free(w)
      PROVE  PublishedRuns'
  <2>1. CASE Up(w)
    <3>1. \/ \E i \in SlotIds : slots' = [slots EXCEPT ![i] = w] /\ wpc' = [wpc EXCEPT ![w] = "up"]
          \/ slots' = slots /\ wpc' = [wpc EXCEPT ![w] = "refused"]
      BY Zenon, <2>1 DEF Up, Add
    <3>2. \A i \in SlotIds : slots[i] # w
      BY Zenon, <2>1 DEF Up, RegistryAssumption
    <3> QED BY <3>1, <3>2
  <2>2. CASE DrainInbox(w)
    BY Zenon, <2>2 DEF DrainInbox, table, fence, dispatch
  <2>3. CASE Retire(w)
    BY Zenon, <2>3 DEF Retire, Unpublish, dispatch
  <2>4. CASE PostFence(w)
    BY Zenon, <2>4, Fenced
  <2>5. CASE Suspend(w)
    BY Zenon, <2>5 DEF Suspend, fence, dispatch
  <2>6. CASE FencePassed(w)
    BY Zenon, <2>6 DEF FencePassed, fence, dispatch
  <2>7. CASE SleepMs(w)
    BY Zenon, <2>7 DEF SleepMs, table, dispatch
  <2>8. CASE GoOn(w)
    BY Zenon, <2>8 DEF GoOn, fence, dispatch
  <2>9. CASE Free(w)
    BY Zenon, <2>9 DEF Free, fence, dispatch
  <2> QED
    BY Zenon, <1>2, <2>1, <2>2, <2>3, <2>4, <2>5, <2>6, <2>7, <2>8, <2>9 DEF RetireStep
<1>3. CASE UNCHANGED vars
  BY Zenon, <1>3 DEF vars, table, fence, dispatch
<1> QED BY Zenon, <1>1, <1>2, <1>3 DEF Next

(* No dispatch outlives the fence behind it. *)
LEMMA BehindStep ==
  ASSUME RegistryAssumption, IInv, [Next]_vars
  PROVE  FenceBehind'
<1> USE DEF IInv, RegistryTypeOK, Retiring, PublishedRuns, FenceBehind
<1>1. ASSUME NEW r \in Reactors, ReactorStep(r) \/ PostOther(r) PROVE FenceBehind'
  <2>1. CASE Pick(r)
    <3>1. UNCHANGED <<wpc, todo, skipped>> /\ \A v : FencedAt(v)' = FencedAt(v)
      BY Zenon, <2>1, Picked
    <3>2. \/ UNCHANGED <<held, rpc>>
          \/ \E i \in SlotIds : /\ slots[i] # None /\ held' = [held EXCEPT ![r] = slots[i]]
                              /\ rpc' = [rpc EXCEPT ![r] = "picked"]
      BY Zenon, <2>1, Picked
    <3>3. CASE UNCHANGED <<held, rpc>>
      BY Zenon, <3>1, <3>3
    <3>4. CASE \E i \in SlotIds : /\ slots[i] # None /\ held' = [held EXCEPT ![r] = slots[i]]
                               /\ rpc' = [rpc EXCEPT ![r] = "picked"]
      <4>1. PICK i \in SlotIds : /\ slots[i] # None /\ held' = [held EXCEPT ![r] = slots[i]]
                              /\ rpc' = [rpc EXCEPT ![r] = "picked"]
        BY Zenon, <3>4
      <4>2. wpc[slots[i]] \in {"up", "lost"}
        BY Zenon, <4>1
      <4> QED BY Zenon, <3>1, <4>1, <4>2
    <3> QED BY Zenon, <3>2, <3>3, <3>4
  <2>2. CASE SpillOver(r)
    <3>1. \A v : FencedAt(v)' = FencedAt(v)
      BY Zenon, <2>2, Spilled
    <3>2. UNCHANGED <<wpc, todo, skipped>> /\ rpc' = [rpc EXCEPT ![r] = "post"] /\ rpc[r] = "picked"
      BY Zenon, <2>2, Spilled
    <3>3. CASE UNCHANGED held
      BY Zenon, <3>1, <3>2, <3>3
    <3>4. ASSUME NEW i \in SlotIds, slots[i] # None, held' = [held EXCEPT ![r] = slots[i]]
          PROVE  FenceBehind'
      BY Zenon, <3>1, <3>2, <3>4
    <3> QED BY <2>2, <3>3, <3>4, Spilled
  <2>3. CASE Post(r)
    <3>1. \A v : FencedAt(v)' = FencedAt(v)
      BY Zenon, <2>3, SameBox DEF Post
    <3> QED BY Zenon, <2>3, <3>1 DEF Post, table, fence, RegistryAssumption
  <2>4. CASE RunCommand(r)
    <3>1. rpc[r] = "idle" /\ UNCHANGED <<wpc, todo, skipped, held, rpc>>
      BY Zenon, <2>4, Ran
    <3>2. \A v \in Workers : FencedAt(v)' =
           IF v = Head(box[r]) THEN FencedAt(v) \ {r} ELSE FencedAt(v)
      BY Zenon, <2>4, Ran
    <3>3. held[r] \notin Workers
      BY Zenon, <3>1 DEF RegistryAssumption
    <3>4. \A p \in Reactors, v \in Workers : p # r /\ p \in FencedAt(v) => p \in FencedAt(v)'
      BY Zenon, <3>2
    <3> QED BY <3>1, <3>3, <3>4
  <2>5. CASE PostOther(r)
    BY Zenon, <2>5, Others
  <2> QED BY Zenon, <1>1, <2>1, <2>2, <2>3, <2>4, <2>5 DEF ReactorStep
<1>2. ASSUME NEW w \in Workers,
             Up(w) \/ DrainInbox(w) \/ Retire(w) \/ RetireStep(w) \/ Free(w)
      PROVE  FenceBehind'
  <2>1. CASE Up(w)
    BY <2>1, SameBox DEF Up, Add, fence, dispatch
  <2>2. CASE DrainInbox(w)
    BY Zenon, <2>2, SameBox DEF DrainInbox, table, fence, dispatch
  <2>3. CASE Retire(w)
    BY Zenon, <2>3, SameBox DEF Retire, Unpublish, dispatch
  <2>4. CASE PostFence(w)
    <3>1. PICK q \in todo[w] :
             /\ wpc[w] = "fencing" /\ todo' = [todo EXCEPT ![w] = @ \ {q}]
             /\ UNCHANGED <<wpc, inbox, spins, held, rpc>>
             /\ \/ /\ UNCHANGED <<remaining, skipped>>
                   /\ \A v \in Workers :
                        /\ FencedAt(v)' = IF v = w THEN FencedAt(v) \union {q} ELSE FencedAt(v)
                        /\ \A p \in Reactors : HoldsOnce(box'[p], v)
                \/ /\ UNCHANGED box
                   /\ skipped' = [skipped EXCEPT ![w] = @ \union {q}]
                   /\ remaining' = [remaining EXCEPT ![w] = @ - 1]
      BY Zenon, <2>4, Fenced
    <3>2. CASE /\ UNCHANGED skipped
               /\ \A v \in Workers :
                    FencedAt(v)' = IF v = w THEN FencedAt(v) \union {q} ELSE FencedAt(v)
      BY <3>1, <3>2
    <3>3. CASE UNCHANGED box /\ skipped' = [skipped EXCEPT ![w] = @ \union {q}]
      BY <3>1, <3>3, SameBox
    <3> QED BY Zenon, <3>1, <3>2, <3>3
  <2>5. CASE Suspend(w)
    BY Zenon, <2>5, SameBox DEF Suspend, fence, dispatch
  <2>6. CASE FencePassed(w)
    BY Zenon, <2>6, SameBox DEF FencePassed, fence, dispatch
  <2>7. CASE SleepMs(w)
    BY Zenon, <2>7, SameBox DEF SleepMs, table, dispatch
  <2>8. CASE GoOn(w)
    BY Zenon, <2>8, SameBox DEF GoOn, fence, dispatch
  <2>9. CASE Free(w)
    BY Zenon, <2>9, SameBox DEF Free, fence, dispatch
  <2> QED
    BY Zenon, <1>2, <2>1, <2>2, <2>3, <2>4, <2>5, <2>6, <2>7, <2>8, <2>9 DEF RetireStep
<1>3. CASE UNCHANGED vars
  BY Zenon, <1>3, SameBox DEF vars, table, fence, dispatch
<1> QED BY Zenon, <1>1, <1>2, <1>3 DEF Next

(* The fence's counter stays exact. *)
LEMMA CountedStep ==
  ASSUME RegistryAssumption, IInv, [Next]_vars
  PROVE  FencesCounted'
<1> USE DEF IInv, RegistryTypeOK, Retiring, FencesCounted
<1>1. ASSUME NEW r \in Reactors, ReactorStep(r) \/ PostOther(r) PROVE FencesCounted'
  <2>1. CASE Pick(r)
    BY Zenon, <2>1, Picked, SameCounted
  <2>2. CASE SpillOver(r)
    BY Zenon, <2>2, Spilled, SameCounted
  <2>3. CASE Post(r)
    BY Zenon, <2>3, SameCounted DEF Post, table, fence
  <2>4. CASE RunCommand(r)
    <3> DEFINE c == Head(box[r])
    <3>1. /\ UNCHANGED <<wpc, todo>> /\ (c = Other \/ (c \in Workers /\ r \in FencedAt(c)))
          /\ remaining' = IF c = Other THEN remaining ELSE [remaining EXCEPT ![c] = @ - 1]
          /\ \A v \in Workers :
               /\ FencedAt(v)' = IF v = c THEN FencedAt(v) \ {r} ELSE FencedAt(v)
               /\ \A q \in Reactors : HoldsOnce(box'[q], v)
      BY Zenon, <2>4, Ran
    <3> HIDE DEF c
    <3> SUFFICES ASSUME NEW v \in Workers PROVE Counted(v)'
      BY Zenon
    <3>2. Counted(v) /\ v # Other
      BY Zenon DEF RegistryAssumption, Other
    <3>3. CASE v # c
      <4>1. FencedAt(v)' = FencedAt(v) /\ remaining'[v] = remaining[v]
        BY Zenon, <3>1, <3>2, <3>3
      <4> QED BY Zenon, <3>1, <3>2, <4>1 DEF Counted
    <3>4. CASE v = c
      <4>1. /\ FencedAt(v)' = FencedAt(v) \ {r} /\ r \in FencedAt(v)
            /\ remaining'[v] = remaining[v] - 1
        BY Zenon, <3>1, <3>2, <3>4
      <4>2. Cardinality(FencedAt(v)') = Cardinality(FencedAt(v)) - 1
        BY Zenon, <4>1, Sizes
      <4> QED BY <3>1, <3>2, <4>1, <4>2, Sizes DEF Counted
    <3> QED BY Zenon, <3>3, <3>4
  <2>5. CASE PostOther(r)
    BY Zenon, <2>5, Others DEF Counted
  <2> QED BY Zenon, <1>1, <2>1, <2>2, <2>3, <2>4, <2>5 DEF ReactorStep
<1>2. ASSUME NEW w \in Workers,
             Up(w) \/ DrainInbox(w) \/ Retire(w) \/ RetireStep(w) \/ Free(w)
      PROVE  FencesCounted'
  <2>1. CASE Up(w)
    <3> SUFFICES ASSUME NEW v \in Workers PROVE Counted(v)'
      BY Zenon
    <3> QED BY Zenon, <2>1, SameBox DEF Up, fence, Counted
  <2>2. CASE DrainInbox(w)
    BY Zenon, <2>2, SameCounted DEF DrainInbox, table, fence, dispatch
  <2>3. CASE Retire(w)
    <3> SUFFICES ASSUME NEW v \in Workers PROVE Counted(v)'
      BY Zenon
    <3>1. CASE v # w
      BY Zenon, <2>3, <3>1, SameCounted DEF Retire
    <3>2. CASE v = w
      <4>1. FencedAt(w) = {} /\ FencedAt(w)' = FencedAt(w)
        BY Zenon, <2>3, SameBox DEF Retire, Counted
      <4>2. /\ wpc'[w] = "fencing" /\ todo'[w] = Reactors /\ UNCHANGED box
            /\ remaining'[w] = Cardinality(Reactors)
        BY Zenon, <2>3 DEF Retire, nReactors
      <4>3. Cardinality({}) = 0 /\ Cardinality(Reactors) \in Nat
        BY Zenon, Finite, FS_EmptySet
      <4> QED BY <3>2, <4>1, <4>2, <4>3 DEF Counted
    <3> QED BY Zenon, <3>1, <3>2
  <2>4. CASE PostFence(w)
    <3>1. PICK q \in todo[w] :
             /\ wpc[w] = "fencing" /\ todo' = [todo EXCEPT ![w] = @ \ {q}]
             /\ UNCHANGED <<wpc, inbox, spins, held, rpc>>
             /\ \/ /\ UNCHANGED <<remaining, skipped>>
                   /\ \A v \in Workers :
                        /\ FencedAt(v)' = IF v = w THEN FencedAt(v) \union {q} ELSE FencedAt(v)
                        /\ \A p \in Reactors : HoldsOnce(box'[p], v)
                \/ /\ UNCHANGED box
                   /\ skipped' = [skipped EXCEPT ![w] = @ \union {q}]
                   /\ remaining' = [remaining EXCEPT ![w] = @ - 1]
      BY Zenon, <2>4, Fenced
    <3> SUFFICES ASSUME NEW v \in Workers PROVE Counted(v)'
      BY Zenon
    <3>2. q \in Reactors /\ q \notin FencedAt(w) /\ Counted(w)
      BY Zenon, <3>1 DEF Counted
    <3>3. todo'[w] = todo[w] \ {q} /\ Cardinality(todo'[w]) = Cardinality(todo[w]) - 1
      BY Zenon, <3>1, Sizes
    <3>4. CASE UNCHANGED box /\ remaining' = [remaining EXCEPT ![w] = @ - 1]
      <4>1. CASE v # w
        BY Zenon, <3>1, <3>4, <4>1, SameCounted
      <4>2. CASE v = w
        <5>1. FencedAt(w)' = FencedAt(w) /\ remaining'[w] = remaining[w] - 1
          BY Zenon, <3>4, SameBox
        <5> QED BY <3>1, <3>2, <3>3, <3>4, <4>2, <5>1, Sizes DEF Counted
      <4> QED BY Zenon, <4>1, <4>2
    <3>5. CASE /\ UNCHANGED remaining
               /\ \A p \in Reactors : HoldsOnce(box'[p], v)
               /\ FencedAt(v)' = IF v = w THEN FencedAt(v) \union {q} ELSE FencedAt(v)
      <4>1. CASE v # w
        BY Zenon, <3>1, <3>5, <4>1 DEF Counted
      <4>2. CASE v = w
        <5>1. Cardinality(FencedAt(w)') = Cardinality(FencedAt(w)) + 1
          BY Zenon, <3>2, <3>5, <4>2, Sizes
        <5>2. todo'[w] \intersect FencedAt(w)' = {}
          BY Zenon, <3>2, <3>3, <3>5, <4>2 DEF Counted
        <5>3. remaining'[w] = Cardinality(todo'[w]) + Cardinality(FencedAt(w)')
          <6>1. PICK a \in Nat, b \in Nat : a = Cardinality(todo[w]) /\ b = Cardinality(FencedAt(w))
            BY Zenon, Sizes DEF IInv
          <6>2. remaining[w] = a + b
            BY Zenon, <3>1, <3>2, <6>1 DEF Counted
          <6>3. a + b = (a - 1) + (b + 1)
            OBVIOUS
          <6> QED BY Zenon, <3>3, <3>5, <5>1, <6>1, <6>2, <6>3
        <5> QED BY Zenon, <3>1, <3>5, <4>2, <5>2, <5>3 DEF Counted
      <4> QED BY Zenon, <4>1, <4>2
    <3> QED BY Zenon, <3>1, <3>4, <3>5
  <2>5. CASE Suspend(w)
    <3> SUFFICES ASSUME NEW v \in Workers PROVE Counted(v)'
      BY Zenon
    <3> QED BY Zenon, <2>5, SameBox DEF Suspend, fence, Counted
  <2>6. CASE FencePassed(w)
    <3>1. FencedAt(w) = {}
      BY <2>6, Sizes DEF FencePassed, Counted
    <3> SUFFICES ASSUME NEW v \in Workers PROVE Counted(v)'
      BY Zenon
    <3> QED BY Zenon, <2>6, <3>1, SameBox DEF FencePassed, fence, Counted
  <2>7. CASE SleepMs(w)
    BY Zenon, <2>7, SameCounted DEF SleepMs, table, dispatch
  <2>8. CASE GoOn(w)
    <3> SUFFICES ASSUME NEW v \in Workers PROVE Counted(v)'
      BY Zenon
    <3> QED BY Zenon, <2>8, SameBox DEF GoOn, fence, Counted
  <2>9. CASE Free(w)
    <3> SUFFICES ASSUME NEW v \in Workers PROVE Counted(v)'
      BY Zenon
    <3> QED BY Zenon, <2>9, SameBox DEF Free, fence, Counted
  <2> QED
    BY Zenon, <1>2, <2>1, <2>2, <2>3, <2>4, <2>5, <2>6, <2>7, <2>8, <2>9 DEF RetireStep
<1>3. CASE UNCHANGED vars
  BY Zenon, <1>3, SameCounted DEF vars, table, fence, dispatch
<1> QED BY Zenon, <1>1, <1>2, <1>3 DEF Next

(* Nothing is posted behind the fence. *)
LEMMA EmptiesStep ==
  ASSUME RegistryAssumption, IInv, [Next]_vars
  PROVE  InboxEmpties'
<1> USE DEF IInv, RegistryTypeOK, RegistryAssumption, Retiring, InboxEmpties
<1>1. ASSUME NEW r \in Reactors, ReactorStep(r) \/ PostOther(r) PROVE InboxEmpties'
  <2>1. CASE Pick(r)
    BY Zenon, <2>1, Picked
  <2>2. CASE SpillOver(r)
    BY Zenon, <2>2, Spilled
  <2>3. CASE Post(r)
    <3>1. \A v \in Workers : held[r] = v /\ skipped[v] = {}
             => wpc[v] \notin {"residual", "retired", "freed"}
      BY Zenon DEF FenceBehind, FencesCounted, Counted
    <3>2. UNCHANGED <<wpc, skipped, spins>>
      BY Zenon, <2>3 DEF Post, table, fence
    <3>3. \A v \in Workers : held[r] # v => inbox'[v] = inbox[v]
      BY Zenon, <2>3 DEF Post
    <3> QED BY Zenon, <3>1, <3>2, <3>3
  <2>4. CASE RunCommand(r)
    BY Zenon, <2>4, Ran
  <2>5. CASE PostOther(r)
    BY Zenon, <2>5, Others
  <2> QED BY Zenon, <1>1, <2>1, <2>2, <2>3, <2>4, <2>5 DEF ReactorStep
<1>2. ASSUME NEW w \in Workers,
             Up(w) \/ DrainInbox(w) \/ Retire(w) \/ RetireStep(w) \/ Free(w)
      PROVE  InboxEmpties'
  <2>1. CASE Up(w)
    BY Zenon, <2>1 DEF Up, Add, fence, dispatch
  <2>2. CASE DrainInbox(w)
    BY <2>2 DEF DrainInbox, table, fence, dispatch
  <2>3. CASE Retire(w)
    BY Zenon, <2>3 DEF Retire, Unpublish, dispatch
  <2>4. CASE PostFence(w)
    <3>1. wpc[w] = "fencing" /\ UNCHANGED <<wpc, inbox, spins>>
      BY Zenon, <2>4, Fenced
    <3>2. PICK q : skipped' = skipped \/ skipped' = [skipped EXCEPT ![w] = @ \union {q}]
      BY Zenon, <2>4, Fenced
    <3>3. \A v \in Workers : v # w => skipped'[v] = skipped[v]
      BY Zenon, <3>2
    <3>4. skipped'[w] = skipped[w] \/ q \in skipped'[w]
      BY <3>2
    <3> QED BY Zenon, <3>1, <3>3, <3>4
  <2>5. CASE Suspend(w)
    BY Zenon, <2>5 DEF Suspend, fence, dispatch
  <2>6. CASE FencePassed(w)
    BY <2>6 DEF FencePassed, fence, dispatch
  <2>7. CASE SleepMs(w)
    BY Zenon, <2>7 DEF SleepMs, table, dispatch
  <2>8. CASE GoOn(w)
    BY <2>8 DEF GoOn, fence, dispatch
  <2>9. CASE Free(w)
    BY Zenon, <2>9 DEF Free, fence, dispatch
  <2> QED
    BY Zenon, <1>2, <2>1, <2>2, <2>3, <2>4, <2>5, <2>6, <2>7, <2>8, <2>9 DEF RetireStep
<1>3. CASE UNCHANGED vars
  BY Zenon, <1>3 DEF vars, table, fence, dispatch
<1> QED BY Zenon, <1>1, <1>2, <1>3 DEF Next

(* No worker, dispatch or fence is there at the start. *)
LEMMA InitHolds ==
  ASSUME RegistryAssumption, Init
  PROVE  IInv
<1>1. RegistryTypeOK
  BY DEF Init, RegistryTypeOK, RegistryAssumption, SlotIds
<1>2. \A w : \A r \in Reactors : ~Holds(box[r], w) /\ HoldsOnce(box[r], w)
  BY DEF Init, Holds, HoldsOnce
<1>3. \A w : FencedAt(w) = {}
  BY Zenon, <1>2 DEF FencedAt
<1>4. FencesCounted
  BY Zenon, <1>2, <1>3 DEF Init, FencesCounted, Counted
<1>5. PublishedRuns /\ FenceBehind /\ InboxEmpties
  BY Zenon DEF Init, PublishedRuns, FenceBehind, InboxEmpties, Retiring, RegistryAssumption
<1> QED BY Zenon, <1>1, <1>4, <1>5 DEF IInv

(* The invariant says that a free is safe and that nothing was lost. *)
LEMMA IInvSound ==
  ASSUME RegistryAssumption, IInv
  PROVE  RetireSound
<1>1. FreeQuiesced
  BY Zenon DEF IInv, FreeQuiesced, FenceBehind, FencesCounted, Counted, Retiring
<1>2. FenceOutlivesPosts
  <2>1. ASSUME NEW w \in Workers, NEW r \in Reactors, Holds(box[r], w)
        PROVE  wpc[w] \in {"fencing", "waiting"}
    BY Zenon, <2>1 DEF IInv, FencesCounted, Counted, FencedAt
  <2> QED BY Zenon, <2>1 DEF FenceOutlivesPosts, Holds
<1>3. ResidualServed
  BY Zenon DEF IInv, ResidualServed, InboxEmpties
<1> QED BY Zenon, <1>1, <1>2, <1>3 DEF RetireSound

(* A retirement is sound for every number of workers, reactors and slots:    *)
(* an inbox is freed only when no fenced reactor holds it, its fence block   *)
(* outlives every posted copy, and, unless a mailbox refused the fence, no   *)
(* accepted request is discarded with it (http_server_worker_inbox_retire,   *)
(* worker_inbox_free).                                                       *)
THEOREM RegistryRetireSound ==
  ASSUME RegistryAssumption
  PROVE  Spec => []RetireSound
<1>1. Init => IInv
  BY Zenon, InitHolds
<1>2. IInv /\ [Next]_vars => IInv'
  <2> SUFFICES ASSUME IInv, [Next]_vars PROVE IInv'
    BY Zenon
  <2> QED BY Zenon, TypeStep, PublishedStep, BehindStep, CountedStep, EmptiesStep DEF IInv
<1>3. IInv => RetireSound
  BY Zenon, IInvSound
<1> QED BY <1>1, <1>2, <1>3, PTL DEF Spec

=============================================================================
