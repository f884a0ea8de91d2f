--------------------------- MODULE TopicHubProofs ---------------------------
(***************************************************************************)
(* For any number of workers, slots and messages: a retried message or an  *)
(* answer reaches only the attachment it was addressed to, a suspended     *)
(* send() is never forgotten and reports a timeout only when its deadline  *)
(* has passed, and every payload, entry and query is held by exactly the   *)
(* commands, queues and coroutines that refer to it.                       *)
(***************************************************************************)
EXTENDS TopicHub, FiniteSetTheorems, SequenceTheorems, TLAPS

\* The parts of the hub's state, by their types.
Targets  == [slot : Slots, gen : Nat]
Commands == [kind : {"publish", "count", "reply"}, of : Messages \union Queries, to : Targets]
Parked   == {P \in SUBSET Targets : IsFiniteSet(P)}
Entries  == [pending : Parked, refcount : Int, waiter : BOOLEAN,
             abandoned : BOOLEAN, shutdown : BOOLEAN, late : BOOLEAN]
AskState == {"idle", "asking", "woken", "returned"}
Askers   == Workers \union {None}
Homes    == Targets \union {None}
Asked    == [state : AskState, by : Askers, to : Homes, pending : Int,
             abandoned : BOOLEAN, refcount : Int]

\* The types of the hub, its workers' mailboxes and its senders.
HubTypeOK ==
  /\ inbox \in [Slots -> Workers \union {None}]
  /\ gen \in [Slots -> Nat]
  /\ local \in [Workers -> Targets \union {None}]
  /\ phase \in [Workers -> {"out", "up", "leaving"}]
  /\ box \in [Workers -> Seq(Commands)]
  /\ queue \in [Workers -> Seq(Messages)]
  /\ armed \in [Workers -> BOOLEAN]
  /\ walk \in Walks \union {None}
  /\ entry \in [Messages -> Entries]
  /\ sender \in [Messages -> [state : {"idle", "parked", "woken", "done", "expired"},
                              by : Workers \union {None}]]
  /\ query \in [Queries -> Asked]

\* A published slot names a worker that is up, under the slot's generation.
Published ==
  \A s \in Slots : inbox[s] # None => phase[inbox[s]] = "up" /\ local[inbox[s]] = Target(s)

\* A worker that is out holds no slot and has nothing in its mailbox.
Attached ==
  \A w \in Workers : /\ phase[w] = "up" => local[w] \in Targets
                     /\ phase[w] = "out" => local[w] = None /\ box[w] = <<>>

\* A count in a mailbox knows where its answer goes.
CountsKnown ==
  \A w \in Workers : \A i \in 1 .. Len(box[w]) : box[w][i].kind = "count" =>
     LET q == box[w][i].of
     IN q \in Queries /\ query[q].state # "idle" /\ query[q].to \in Targets

\* A sender that can still be woken is asleep, on some worker; what a tick has resolved, and a
\* sender it has woken, is served, past its deadline, or shut down.
OnlyParkedFires ==
  \A m \in Messages : /\ Fires(m) => sender[m].state = "parked"
                      /\ sender[m].state = "parked" => sender[m].by \in Workers
\* What may be resolved: an entry with nothing pending, or past its deadline.
Due(m) == entry[m].pending = {} \/ entry[m].late
WalkDue == ~Admin => \A m \in walk.late \union walk.resolved : Due(m)
WokenDue == \A m \in Messages : sender[m].state = "woken" => entry[m].shutdown \/ Due(m)

\* The inductive invariant: every slot, mailbox, entry and sender in its place.
IInv == /\ HubTypeOK /\ Published /\ Attached /\ NoMisdelivery /\ CountsKnown
        /\ OnlyParkedFires /\ WalkDue /\ WokenDue /\ ParkedHasTick

-----------------------------------------------------------------------------
\* A sequence without its i-th element.
LEMMA Unlinked ==
  ASSUME NEW S, NEW s \in Seq(S), NEW i \in 1 .. Len(s)
  PROVE  /\ Unlink(s, i) \in Seq(S)
         /\ \A x \in Range(s) : x # s[i] => x \in Range(Unlink(s, i))
<1> DEFINE a == SubSeq(s, 1, i - 1)
           b == SubSeq(s, i + 1, Len(s))
<1>1. /\ a \in Seq(S) /\ Len(a) = i - 1 /\ \A k \in 1 .. i - 1 : a[k] = s[k]
      /\ b \in Seq(S) /\ Len(b) = Len(s) - i /\ \A k \in 1 .. Len(s) - i : b[k] = s[i + k]
  OBVIOUS
<1> HIDE DEF a, b
<1>2. /\ a \o b \in Seq(S) /\ Len(a \o b) = Len(a) + Len(b)
      /\ \A k \in 1 .. Len(a) + Len(b) :
            (a \o b)[k] = IF k <= Len(a) THEN a[k] ELSE b[k - Len(a)]
  BY Zenon, <1>1, ConcatProperties
<1> DEFINE c == a \o b
<1>3. /\ c \in Seq(S) /\ Len(c) = Len(s) - 1
      /\ \A k \in 1 .. i - 1 : c[k] = s[k]
      /\ \A k \in i .. Len(s) - 1 : c[k] = s[k + 1]
  BY <1>1, <1>2
<1> HIDE DEF c
<1>4. ASSUME NEW k \in 1 .. Len(s), k # i PROVE \E j \in 1 .. Len(c) : c[j] = s[k]
  <2>1. CASE k < i
    BY <1>3, <2>1
  <2>2. CASE k > i
    <3>1. k - 1 \in i .. Len(s) - 1 /\ c[k - 1] = s[(k - 1) + 1] /\ k - 1 \in 1 .. Len(c)
      BY <1>3, <2>2
    <3> QED BY <3>1
  <2> QED BY <1>4, <2>1, <2>2
<1>5. Range(s) = {s[k] : k \in 1 .. Len(s)} /\ Range(c) = {c[k] : k \in 1 .. Len(c)}
  BY <1>3 DEF Range
<1>6. ASSUME NEW x \in Range(s), x # s[i] PROVE x \in Range(c)
  BY Zenon, <1>4, <1>5, <1>6
<1>7. Unlink(s, i) = c
  BY Zenon DEF Unlink, a, b, c
<1> QED BY Zenon, <1>3, <1>6, <1>7

\* A released entry is forgotten, or it only counts one reference less.
LEMMA Released ==
  ASSUME NEW e \in Entries
  PROVE  LET f == EntryRelease(e)
         IN /\ f \in Entries
            /\ \/ f.pending = {} /\ ~f.waiter
               \/ /\ f.pending = e.pending /\ f.late = e.late /\ f.shutdown = e.shutdown
                  /\ f.waiter = e.waiter /\ f.abandoned = e.abandoned
<1>1. NoEntry \in Entries
  BY FS_EmptySet DEF NoEntry, Entries, Parked
<1>2. CASE e.refcount = 1
  BY Zenon, <1>1, <1>2 DEF EntryRelease, NoEntry
<1>3. CASE e.refcount # 1
  <2> DEFINE f == [e EXCEPT !.refcount = @ - 1]
  <2>1. f \in Entries
    BY DEF Entries
  <2>2. /\ f.pending = e.pending /\ f.late = e.late /\ f.shutdown = e.shutdown
        /\ f.waiter = e.waiter /\ f.abandoned = e.abandoned
    BY Zenon DEF Entries
  <2> QED BY Zenon, <1>3, <2>1, <2>2 DEF EntryRelease
<1> QED BY Zenon, <1>2, <1>3

\* The attachments behind a set of slots are finitely many targets.
LEMMA TargetsFinite ==
  ASSUME HubAssumption, HubTypeOK, NEW S \in SUBSET Slots
  PROVE  LET T == {Target(s) : s \in S} IN T \in SUBSET Targets /\ IsFiniteSet(T)
<1> DEFINE T == {Target(s) : s \in S}
           f == [s \in S |-> Target(s)]
<1>1. T \in SUBSET Targets
  BY DEF Target, Targets, HubTypeOK
<1>2. IsFiniteSet(S)
  BY Zenon, FS_Subset DEF HubAssumption
<1>3. f \in Surjection(S, T)
  BY Zenon DEF Surjection
<1> HIDE DEF f, T
<1>4. IsFiniteSet(T)
  BY Zenon, <1>2, <1>3, FS_Surjection
<1> QED BY Zenon, <1>1, <1>4 DEF T

\* Where a message and its sender can be.
Senders == [state : {"idle", "parked", "woken", "done", "expired"}, by : Workers \union {None}]

\* What finishing the entries of S leaves of a message.
FinishLeaves(S, down) ==
  /\ entry' \in [Messages -> Entries] /\ sender' \in [Messages -> Senders]
  /\ \A m \in Messages : m \notin S => entry'[m] = entry[m] /\ sender'[m] = sender[m]
  /\ \A m \in S \intersect Messages :
       /\ \/ entry'[m].pending = entry[m].pending /\ entry'[m].late = entry[m].late
          \/ entry'[m].pending = {}
       /\ down \/ entry[m].shutdown => entry'[m].shutdown \/ entry'[m].pending = {}
       /\ ~(entry'[m].waiter /\ ~entry'[m].abandoned)
       /\ Fires(m) => sender'[m].state = "woken"
       /\ ~Fires(m) => sender'[m] = sender[m]

\* topic_hub_retry_finish leaves its entries unable to fire, each with its outcome.
LEMMA Finished ==
  ASSUME HubTypeOK, NEW S, NEW down \in BOOLEAN, Finish(S, down) PROVE FinishLeaves(S, down)
<1> DEFINE E(m) == [entry[m] EXCEPT !.waiter = @ /\ ~Fires(m), !.shutdown = @ \/ down]
<1>1. ASSUME NEW m \in Messages
      PROVE  /\ E(m) \in Entries /\ E(m).pending = entry[m].pending /\ E(m).late = entry[m].late
             /\ E(m).shutdown = (entry[m].shutdown \/ down)
             /\ E(m).waiter = (entry[m].waiter /\ ~Fires(m)) /\ E(m).abandoned = entry[m].abandoned
  <2>1. entry[m] \in Entries /\ Fires(m) \in BOOLEAN
    BY Zenon DEF HubTypeOK, Fires
  <2>2. ASSUME NEW e \in Entries, NEW f \in BOOLEAN
        PROVE  LET g == [e EXCEPT !.waiter = @ /\ ~f, !.shutdown = @ \/ down]
               IN /\ g \in Entries /\ g.pending = e.pending /\ g.late = e.late
                  /\ g.shutdown = (e.shutdown \/ down)
                  /\ g.waiter = (e.waiter /\ ~f) /\ g.abandoned = e.abandoned
    BY Zenon DEF Entries
  <2> QED BY ZenonT(30), <2>1, <2>2
<1>2. \A m \in Messages : entry'[m] = IF m \in S THEN EntryRelease(E(m)) ELSE entry[m]
  BY Zenon DEF Finish
<1>3. \A m \in Messages : sender'[m] =
        IF m \in S /\ Fires(m) THEN [sender[m] EXCEPT !.state = "woken"] ELSE sender[m]
  BY Zenon DEF Finish
<1> HIDE DEF E
<1>4. ASSUME NEW m \in Messages
      PROVE  /\ EntryRelease(E(m)) \in Entries
             /\ \/ EntryRelease(E(m)).pending = {} /\ ~EntryRelease(E(m)).waiter
                \/ /\ EntryRelease(E(m)).pending = entry[m].pending
                   /\ EntryRelease(E(m)).late = entry[m].late
                   /\ EntryRelease(E(m)).shutdown = (entry[m].shutdown \/ down)
                   /\ EntryRelease(E(m)).waiter = (entry[m].waiter /\ ~Fires(m))
                   /\ EntryRelease(E(m)).abandoned = entry[m].abandoned
  BY <1>1, Released
<1>5. entry' \in [Messages -> Entries]
  <2>1. \A m \in Messages : entry'[m] \in Entries
    BY Zenon, <1>2, <1>4 DEF HubTypeOK
  <2> QED BY Zenon, <2>1 DEF Finish
<1>6. sender' \in [Messages -> Senders]
  <2>1. \A m \in Messages : sender'[m] \in Senders
    BY Zenon, <1>3 DEF HubTypeOK, Senders
  <2> QED BY Zenon, <2>1 DEF Finish
<1>7. ASSUME NEW m \in S \intersect Messages
      PROVE  /\ \/ entry'[m].pending = entry[m].pending /\ entry'[m].late = entry[m].late
                \/ entry'[m].pending = {}
             /\ down \/ entry[m].shutdown => entry'[m].shutdown \/ entry'[m].pending = {}
             /\ ~(entry'[m].waiter /\ ~entry'[m].abandoned)
  BY Zenon, <1>2, <1>4 DEF Fires
<1>8. ASSUME NEW m \in S \intersect Messages
      PROVE  /\ Fires(m) => sender'[m].state = "woken"
             /\ ~Fires(m) => sender'[m] = sender[m]
  BY Zenon, <1>3 DEF HubTypeOK, Senders
<1> QED BY Zenon, <1>2, <1>3, <1>5, <1>6, <1>7, <1>8 DEF FinishLeaves

\* What a send() that returns leaves.
LEMMA Settled ==
  ASSUME HubTypeOK, NEW m \in Messages, NEW state \in {"done", "expired"}, Settle(m, state)
  PROVE  /\ entry' \in [Messages -> Entries] /\ sender' \in [Messages -> Senders]
         /\ \A n \in Messages : n # m => entry'[n] = entry[n] /\ sender'[n] = sender[n]
         /\ \/ entry'[m].pending = entry[m].pending /\ entry'[m].late = entry[m].late
            \/ entry'[m].pending = {}
         /\ ~(entry'[m].waiter /\ ~entry'[m].abandoned)
         /\ sender'[m].state = state
<1> DEFINE e == [entry[m] EXCEPT !.abandoned = TRUE, !.waiter = FALSE]
<1>1. /\ e \in Entries /\ e.pending = entry[m].pending /\ e.late = entry[m].late
      /\ ~e.waiter
  <2>1. entry[m] \in Entries
    BY Zenon DEF HubTypeOK
  <2>2. ASSUME NEW r \in Entries
        PROVE  LET g == [r EXCEPT !.abandoned = TRUE, !.waiter = FALSE]
               IN g \in Entries /\ g.pending = r.pending /\ g.late = r.late /\ ~g.waiter
    BY Zenon DEF Entries
  <2> QED BY Zenon, <2>1, <2>2
<1>2. entry' = [entry EXCEPT ![m] = EntryRelease(e)] /\ sender' = [sender EXCEPT ![m] = Over(state)]
  BY Zenon DEF Settle
<1> HIDE DEF e
<1>3. /\ EntryRelease(e) \in Entries /\ ~EntryRelease(e).waiter
      /\ \/ EntryRelease(e).pending = {}
         \/ EntryRelease(e).pending = entry[m].pending /\ EntryRelease(e).late = entry[m].late
  BY Zenon, <1>1, Released
<1>4. Over(state) \in Senders /\ Over(state).state = state
  BY Zenon DEF Over, Senders
<1>5. entry' \in [Messages -> Entries] /\ sender' \in [Messages -> Senders]
  BY Zenon, <1>2, <1>3, <1>4 DEF HubTypeOK, Senders
<1>6. entry'[m] = EntryRelease(e) /\ sender'[m] = Over(state)
  BY Zenon, <1>2 DEF HubTypeOK
<1>7. \A n \in Messages : n # m => entry'[n] = entry[n] /\ sender'[n] = sender[n]
  BY Zenon, <1>2 DEF HubTypeOK
<1> QED BY Zenon, <1>3, <1>4, <1>5, <1>6, <1>7

\* A post appends one command for the attachment that holds the slot, to the
\* mailbox of that attachment.
LEMMA Posted ==
  ASSUME HubTypeOK, Published, NEW T \in SUBSET Targets,
         NEW kind \in {"publish", "count", "reply"}, NEW of \in Messages \union Queries,
         PostTo(T, kind, of), None \notin Workers,
         \A t \in T : gen[t.slot] = t.gen
  PROVE  /\ box' \in [Workers -> Seq(Commands)]
         /\ \A w \in Workers :
              \/ box'[w] = box[w]
              \/ /\ phase[w] = "up" /\ local[w] \in T
                 /\ box'[w] = Append(box[w], [kind |-> kind, of |-> of, to |-> local[w]])
                 /\ [kind |-> kind, of |-> of, to |-> local[w]] \in Commands
<1>1. ASSUME NEW w \in Workers, NEW t \in T, inbox[t.slot] = w
      PROVE  phase[w] = "up" /\ local[w] = t
  <2>1. t.slot \in Slots /\ t = [slot |-> t.slot, gen |-> t.gen] /\ gen[t.slot] = t.gen
    BY Zenon DEF Targets
  <2> QED BY Zenon, <1>1, <2>1 DEF Published, Target
<1>2. ASSUME NEW w \in Workers, \E t \in T : inbox[t.slot] = w
      PROVE  /\ phase[w] = "up" /\ local[w] \in T
             /\ (CHOOSE t \in T : inbox[t.slot] = w) = local[w]
  BY Zenon, <1>1, <1>2
<1>3. ASSUME NEW w \in Workers, local[w] \in T
      PROVE  [kind |-> kind, of |-> of, to |-> local[w]] \in Commands
  BY Zenon, <1>3 DEF Commands
<1>4. ASSUME NEW w \in Workers
      PROVE  \/ box'[w] = box[w]
             \/ /\ phase[w] = "up" /\ local[w] \in T
                /\ box'[w] = Append(box[w], [kind |-> kind, of |-> of, to |-> local[w]])
  <2>1. box'[w] = IF \E t \in T : inbox[t.slot] = w
                  THEN Append(box[w], [kind |-> kind, of |-> of,
                                       to |-> CHOOSE t \in T : inbox[t.slot] = w])
                  ELSE box[w]
    BY Zenon DEF PostTo
  <2> QED BY Zenon, <1>2, <2>1
<1>5. ASSUME NEW w \in Workers PROVE box'[w] \in Seq(Commands)
  <2>1. box[w] \in Seq(Commands)
    BY Zenon DEF HubTypeOK
  <2>2. ASSUME NEW c \in Commands PROVE Append(box[w], c) \in Seq(Commands)
    BY <2>1
  <2> QED BY Zenon, <1>3, <1>4, <2>1, <2>2
<1>6. box' \in [Workers -> Seq(Commands)]
  BY Zenon, <1>5 DEF PostTo
<1> QED BY Zenon, <1>3, <1>4, <1>6

\* A query that some worker may still answer, before and after a step.
Known(q)     == q \in Queries /\ query[q].state # "idle" /\ query[q].to \in Targets
KnownNext(q) == q \in Queries /\ query'[q].state # "idle" /\ query'[q].to \in Targets

\* A step that keeps the slot table keeps the mailboxes sound when every command
\* was there before or is for the attachment of its mailbox.
LEMMA BoxesKept ==
  ASSUME IInv, UNCHANGED <<local, phase>>,
         \A q : Known(q) => KnownNext(q),
         \A w \in Workers : phase[w] = "out" => box'[w] = box[w],
         \A w \in Workers : \A i \in 1 .. Len(box'[w]) :
            \/ \E j \in 1 .. Len(box[w]) : box'[w][i] = box[w][j]
            \/ /\ box'[w][i].to = local[w]
               /\ box'[w][i].kind = "count" => KnownNext(box'[w][i].of),
         box \in [Workers -> Seq(Commands)], box' \in [Workers -> Seq(Commands)]
  PROVE  NoMisdelivery' /\ Attached' /\ CountsKnown'
<1>1. \A w \in Workers : DOMAIN box[w] = 1 .. Len(box[w]) /\ DOMAIN box'[w] = 1 .. Len(box'[w])
  OBVIOUS
<1>2. NoMisdelivery'
  <2>1. \A w \in Workers : \A j \in 1 .. Len(box[w]) : box[w][j].to = local[w]
    BY Zenon, <1>1 DEF IInv, NoMisdelivery
  <2>2. \A w \in Workers : \A i \in 1 .. Len(box'[w]) : box'[w][i].to = local[w]
    BY <2>1
  <2> QED BY Zenon, <1>1, <2>2 DEF NoMisdelivery
<1>3. Attached'
  BY Zenon DEF IInv, Attached
<1>4. CountsKnown'
  <2>1. \A w \in Workers : \A j \in 1 .. Len(box[w]) :
           box[w][j].kind = "count" => Known(box[w][j].of)
    BY Zenon DEF IInv, CountsKnown, Known
  <2>2. \A w \in Workers : \A i \in 1 .. Len(box'[w]) :
           box'[w][i].kind = "count" => KnownNext(box'[w][i].of)
    BY ZenonT(30), <2>1
  <2> QED BY Zenon, <2>2 DEF CountsKnown, KnownNext
<1> QED BY Zenon, <1>2, <1>3, <1>4

\* The same for a step that only posts.
LEMMA GrownKept ==
  ASSUME IInv, UNCHANGED <<local, phase>>, \A q : Known(q) => KnownNext(q),
         NEW kind, NEW of, NEW T, kind = "count" /\ T # {} => KnownNext(of),
         box' \in [Workers -> Seq(Commands)],
         \A w \in Workers :
            \/ box'[w] = box[w]
            \/ /\ phase[w] = "up" /\ local[w] \in T
               /\ box'[w] = Append(box[w], [kind |-> kind, of |-> of, to |-> local[w]])
               /\ [kind |-> kind, of |-> of, to |-> local[w]] \in Commands
  PROVE  NoMisdelivery' /\ Attached' /\ CountsKnown'
<1>1. box \in [Workers -> Seq(Commands)]
  BY Zenon DEF IInv, HubTypeOK
<1>2. ASSUME NEW w \in Workers, NEW i \in 1 .. Len(box'[w])
      PROVE  \/ \E j \in 1 .. Len(box[w]) : box'[w][i] = box[w][j]
             \/ /\ box'[w][i].to = local[w]
                /\ box'[w][i].kind = "count" => KnownNext(box'[w][i].of)
  <2> DEFINE c == [kind |-> kind, of |-> of, to |-> local[w]]
  <2>1. CASE box'[w] = box[w]
    BY Zenon, <2>1
  <2>2. CASE phase[w] = "up" /\ local[w] \in T /\ box'[w] = Append(box[w], c) /\ c \in Commands
    <3>0. box[w] \in Seq(Commands) /\ T # {}
      BY Zenon, <1>1, <2>2
    <3>1. c.to = local[w] /\ c.kind = kind /\ c.of = of
      BY Zenon
    <3> HIDE DEF c
    <3>2. \/ \E j \in 1 .. Len(box[w]) : Append(box[w], c)[i] = box[w][j]
          \/ Append(box[w], c)[i] = c
      BY <2>2, <3>0
    <3> QED BY Zenon, <2>2, <3>0, <3>1, <3>2
  <2> QED BY Zenon, <2>1, <2>2
<1>3. \A w \in Workers : phase[w] = "out" => box'[w] = box[w]
  BY Zenon
<1> QED BY Zenon, <1>1, <1>2, <1>3, BoxesKept

\* The parts of the invariant about mailboxes, and about entries and senders.
Boxes     == NoMisdelivery /\ Attached /\ CountsKnown
Entrusted == OnlyParkedFires /\ WalkDue /\ WokenDue /\ ParkedHasTick

\* What holds of variables that a step leaves alone still holds.
LEMMA SlotsSame == ASSUME IInv, UNCHANGED slotTable PROVE Published'
BY Zenon DEF IInv, Published, Target, slotTable

\* The mailboxes stay sound.
LEMMA BoxesSame == ASSUME IInv, UNCHANGED <<local, phase, box, query>> PROVE Boxes'
BY Zenon DEF IInv, Boxes, NoMisdelivery, Attached, CountsKnown

\* The entries and senders stay sound.
LEMMA EntriesSame ==
  ASSUME IInv, UNCHANGED <<phase, queue, armed, walk, entry, sender>> PROVE Entrusted'
BY Zenon DEF IInv, Entrusted, OnlyParkedFires, WalkDue, WokenDue, ParkedHasTick, Fires, Due, Admin

-----------------------------------------------------------------------------
\* topic_hub_attach keeps the invariant: the slot it takes was free.
LEMMA AttachHolds == ASSUME HubAssumption, IInv, NEW w \in Workers, Attach(w) PROVE IInv'
<1>1. PICK s \in Slots :
        /\ inbox[s] = None /\ phase[w] = "out"
        /\ inbox' = [inbox EXCEPT ![s] = w]
        /\ gen' = [gen EXCEPT ![s] = @ + 1]
        /\ local' = [local EXCEPT ![w] = [slot |-> s, gen |-> gen[s] + 1]]
        /\ phase' = [phase EXCEPT ![w] = "up"]
  BY Zenon DEF Attach
<1>2. UNCHANGED <<box, queue, armed, walk, entry, sender, query>>
  BY Zenon DEF Attach, retries
<1>3. HubTypeOK'
  BY <1>1, <1>2 DEF IInv, HubTypeOK, Targets
<1>4. \A t \in Slots : inbox[t] # w
  BY Zenon, <1>1 DEF IInv, Published, HubAssumption
<1>5. Published'
  BY Zenon, <1>1, <1>4 DEF IInv, HubTypeOK, Published, Target
<1>6. box[w] = <<>>
  BY Zenon, <1>1 DEF IInv, Attached
<1>7. Boxes'
  <2>1. NoMisdelivery'
    BY <1>1, <1>2, <1>6 DEF IInv, HubTypeOK, NoMisdelivery
  <2>2. Attached'
    BY <1>1, <1>2 DEF IInv, HubTypeOK, Attached, Targets
  <2>3. CountsKnown'
    BY Zenon, <1>2 DEF IInv, CountsKnown
  <2> QED BY Zenon, <2>1, <2>2, <2>3 DEF Boxes
<1>8. Entrusted'
  <2>1. OnlyParkedFires' /\ WalkDue' /\ WokenDue'
    BY Zenon, <1>2 DEF IInv, OnlyParkedFires, WalkDue, WokenDue, Fires, Due, Admin
  <2>2. ParkedHasTick'
    BY Zenon, <1>1, <1>2 DEF IInv, HubTypeOK, ParkedHasTick, Fires, Admin
  <2> QED BY Zenon, <2>1, <2>2 DEF Entrusted
<1> QED BY Zenon, <1>3, <1>5, <1>7, <1>8 DEF IInv, Boxes, Entrusted

\* A worker that begins to leave keeps the invariant.
LEMMA LeaveHolds == ASSUME HubAssumption, IInv, NEW w \in Workers, Leave(w) PROVE IInv'
<1>1. /\ phase[w] = "leaving" /\ box[w] = <<>>
      /\ local' = [local EXCEPT ![w] = None] /\ phase' = [phase EXCEPT ![w] = "out"]
      /\ UNCHANGED <<inbox, gen, box, queue, armed, walk, entry, sender, query>>
  BY Zenon DEF Leave, retries
<1>2. HubTypeOK'
  BY Zenon, <1>1 DEF IInv, HubTypeOK
<1>3. Published'
  BY Zenon, <1>1 DEF IInv, HubTypeOK, Published, Target
<1>4. Boxes'
  <2>1. NoMisdelivery'
    BY <1>1 DEF IInv, HubTypeOK, NoMisdelivery
  <2>2. Attached'
    BY Zenon, <1>1 DEF IInv, HubTypeOK, Attached
  <2>3. CountsKnown'
    BY Zenon, <1>1 DEF IInv, CountsKnown
  <2> QED BY Zenon, <2>1, <2>2, <2>3 DEF Boxes
<1>5. Entrusted'
  <2>1. OnlyParkedFires' /\ WalkDue' /\ WokenDue'
    BY Zenon, <1>1 DEF IInv, OnlyParkedFires, WalkDue, WokenDue, Fires, Due, Admin
  <2>2. ParkedHasTick'
    BY Zenon, <1>1 DEF IInv, HubTypeOK, ParkedHasTick, Fires, Admin
  <2> QED BY Zenon, <2>1, <2>2 DEF Entrusted
<1> QED BY Zenon, <1>2, <1>3, <1>4, <1>5 DEF IInv, Boxes, Entrusted

\* A fan-out addresses the attachments that hold the slots now.
LEMMA FannedOut ==
  ASSUME HubAssumption, IInv, NEW S \in SUBSET Slots,
         NEW kind \in {"publish", "count"}, NEW of \in Messages \union Queries,
         Post(S, kind, of), UNCHANGED <<local, phase>>, \A q : Known(q) => KnownNext(q),
         kind = "count" /\ S # {} => KnownNext(of)
  PROVE  box' \in [Workers -> Seq(Commands)] /\ Boxes'
<1> DEFINE T == {Target(s) : s \in S}
<1>1. T \in SUBSET Targets /\ (T # {} => S # {})
  BY DEF IInv, HubTypeOK, Target, Targets
<1>2. \A t \in T : gen[t.slot] = t.gen
  BY DEF Target
<1>3. PostTo(T, kind, of) /\ HubTypeOK /\ Published /\ None \notin Workers
  BY Zenon DEF Post, IInv, HubAssumption
<1>4. kind \in {"publish", "count", "reply"} /\ (kind = "count" /\ T # {} => KnownNext(of))
  BY Zenon, <1>1
<1> HIDE DEF T
<1>5. /\ box' \in [Workers -> Seq(Commands)]
      /\ \A w \in Workers :
              \/ box'[w] = box[w]
              \/ /\ phase[w] = "up" /\ local[w] \in T
                 /\ box'[w] = Append(box[w], [kind |-> kind, of |-> of, to |-> local[w]])
                 /\ [kind |-> kind, of |-> of, to |-> local[w]] \in Commands
  BY Zenon, <1>1, <1>2, <1>3, <1>4, Posted
<1>6. NoMisdelivery' /\ Attached' /\ CountsKnown'
  BY Zenon, <1>4, <1>5, GrownKept
<1> QED BY Zenon, <1>5, <1>6 DEF Boxes

\* A publication, or a send that needs no retry, keeps the invariant.
LEMMA PublishHolds ==
  ASSUME HubAssumption, IInv, NEW w \in Workers, NEW m \in Messages, NEW hit \in SUBSET Slots,
         NEW arms, Publish(w, m, hit) \/ SendAtOnce(w, m, hit, arms)
  PROVE  IInv'
<1> DEFINE landed == {s \in Addressed(w, hit) : Accepts(s)}
<1>0. landed \in SUBSET Slots
  BY Zenon DEF Addressed
<1>1. /\ sender[m].state = "idle" /\ Post(landed, "publish", m)
      /\ sender' = [sender EXCEPT ![m] = Over("done")]
      /\ UNCHANGED <<slotTable, queue, armed, walk, entry, query>>
  BY Zenon DEF Publish, SendAtOnce, retries
<1> HIDE DEF landed
<1>2. \A q : Known(q) => KnownNext(q)
  BY Zenon, <1>1 DEF Known, KnownNext
<1>3. box' \in [Workers -> Seq(Commands)] /\ Boxes'
  BY Zenon, <1>0, <1>1, <1>2, FannedOut DEF slotTable
<1>4. sender' \in [Messages -> Senders] /\ sender'[m].state = "done"
      /\ \A n \in Messages : n # m => sender'[n] = sender[n]
  BY Zenon, <1>1 DEF IInv, HubTypeOK, Over, Senders
<1>5. HubTypeOK'
  BY Zenon, <1>1, <1>3, <1>4 DEF IInv, HubTypeOK, Senders, slotTable
<1>6. Published'
  BY Zenon, <1>1, SlotsSame
<1>7. Entrusted'
  <2>1. OnlyParkedFires' /\ WalkDue' /\ WokenDue'
    BY Zenon, <1>1, <1>4 DEF IInv, OnlyParkedFires, WalkDue, WokenDue, Fires, Due, Admin
  <2>2. ParkedHasTick'
    BY Zenon, <1>1, <1>4 DEF IInv, ParkedHasTick, Fires, Admin, slotTable
  <2> QED BY Zenon, <2>1, <2>2 DEF Entrusted
<1> QED BY Zenon, <1>3, <1>5, <1>6, <1>7 DEF IInv, Boxes, Entrusted

\* A send that parks an entry keeps the invariant: its timer runs.
LEMMA ParkHolds ==
  ASSUME HubAssumption, IInv, NEW w \in Workers, NEW m \in Messages, NEW hit \in SUBSET Slots,
         NEW blocking \in BOOLEAN, Park(w, m, hit, blocking)
  PROVE  IInv'
<1> DEFINE landed == {s \in Addressed(w, hit) : Accepts(s)}
           full == Addressed(w, hit) \ landed
<1>0. landed \in SUBSET Slots /\ full \in SUBSET Slots
  BY Zenon DEF Addressed
<1>1. /\ sender[m].state = "idle" /\ Post(landed, "publish", m) /\ walk = None
      /\ phase[w] # "leaving" /\ local[w] # None
      /\ entry' = [entry EXCEPT ![m] = NewEntry(full, blocking)]
      /\ queue' = [queue EXCEPT ![w] = Append(@, m)]
      /\ armed' = [armed EXCEPT ![w] = TRUE]
      /\ sender' = [sender EXCEPT ![m] =
                      IF blocking THEN [state |-> "parked", by |-> w] ELSE Over("done")]
      /\ UNCHANGED <<slotTable, walk, query>>
  BY Zenon DEF Park, Enqueue, ArmTimer, Runs, Admin
<1> HIDE DEF landed, full
<1>2. \A q : Known(q) => KnownNext(q)
  BY Zenon, <1>1 DEF Known, KnownNext
<1>3. box' \in [Workers -> Seq(Commands)] /\ Boxes'
  BY Zenon, <1>0, <1>1, <1>2, FannedOut DEF slotTable
<1>4. /\ NewEntry(full, blocking) \in Entries
      /\ NewEntry(full, blocking).waiter = blocking /\ ~NewEntry(full, blocking).abandoned
  <2> DEFINE T == {Target(s) : s \in full}
  <2>1. T \in Parked
    BY Zenon, <1>0, TargetsFinite DEF Parked, IInv
  <2> HIDE DEF T
  <2>2. NewEntry(full, blocking) =
          [pending |-> T, refcount |-> IF blocking THEN 2 ELSE 1, waiter |-> blocking,
           abandoned |-> FALSE, shutdown |-> FALSE, late |-> FALSE]
    BY Zenon DEF NewEntry, T
  <2> QED BY <2>1, <2>2 DEF Entries
<1>5. entry' \in [Messages -> Entries] /\ entry'[m] = NewEntry(full, blocking)
      /\ \A n \in Messages : n # m => entry'[n] = entry[n]
  BY Zenon, <1>1, <1>4 DEF IInv, HubTypeOK
<1>6. /\ sender' \in [Messages -> Senders]
      /\ blocking => sender'[m].state = "parked" /\ sender'[m].by = w
      /\ ~blocking => sender'[m].state = "done"
      /\ \A n \in Messages : n # m => sender'[n] = sender[n]
  BY Zenon, <1>1 DEF IInv, HubTypeOK, Over, Senders
<1>7. /\ queue' \in [Workers -> Seq(Messages)]
      /\ \A v \in Workers : v # w => queue'[v] = queue[v]
      /\ \A x \in Range(queue[w]) \union {m} : x \in Range(queue'[w])
  <2>1. queue[w] \in Seq(Messages) /\ queue'[w] = Append(queue[w], m)
    BY Zenon, <1>1 DEF IInv, HubTypeOK
  <2>2. /\ Append(queue[w], m) \in Seq(Messages) /\ Append(queue[w], m)[Len(queue[w]) + 1] = m
        /\ Len(Append(queue[w], m)) = Len(queue[w]) + 1
        /\ \A i \in 1 .. Len(queue[w]) : Append(queue[w], m)[i] = queue[w][i]
    BY <2>1
  <2>3. \A x \in Range(queue[w]) \union {m} : x \in Range(queue'[w])
    BY <2>1, <2>2 DEF Range
  <2> QED BY Zenon, <1>1, <2>1, <2>2, <2>3 DEF IInv, HubTypeOK
<1>8. HubTypeOK'
  BY Zenon, <1>1, <1>3, <1>5, <1>6, <1>7 DEF IInv, HubTypeOK, Senders, slotTable
<1>9. Published'
  BY Zenon, <1>1, SlotsSame
<1>10. phase[w] = "up"
  BY Zenon, <1>1 DEF IInv, HubTypeOK, Attached
<1>11. Entrusted'
  <2>1. OnlyParkedFires'
    BY Zenon, <1>4, <1>5, <1>6 DEF IInv, OnlyParkedFires, Fires
  <2>2. WalkDue'
    BY Zenon, <1>1 DEF WalkDue, Admin
  <2>3. WokenDue'
    BY Zenon, <1>5, <1>6 DEF IInv, WokenDue, Due
  <2>4. ParkedHasTick'
    <3>1. \A v \in Workers : queue'[v] # <<>> => armed'[v] /\ phase'[v] = "up"
      BY Zenon, <1>1, <1>7, <1>10 DEF IInv, HubTypeOK, ParkedHasTick, slotTable
    <3>2. ASSUME NEW n \in Messages, sender'[n].state = "parked"
          PROVE  /\ entry'[n].waiter /\ ~entry'[n].abandoned
                 /\ n \in Range(queue'[sender'[n].by])
      <4>1. CASE n = m
        BY Zenon, <1>4, <1>5, <1>6, <1>7, <3>2, <4>1
      <4>2. CASE n # m
        BY <1>1, <1>5, <1>6, <1>7, <3>2, <4>2 DEF IInv, ParkedHasTick, Fires, Admin
      <4> QED BY Zenon, <4>1, <4>2
    <3> QED BY Zenon, <3>1, <3>2 DEF ParkedHasTick, Fires, Admin
  <2> QED BY Zenon, <2>1, <2>2, <2>3, <2>4 DEF Entrusted
<1> QED BY Zenon, <1>3, <1>8, <1>9, <1>11 DEF IInv, Boxes, Entrusted

\* A deadline that passes keeps the invariant.
LEMMA DeadlineHolds ==
  ASSUME HubAssumption, IInv, NEW m \in Messages, Deadline(m)
  PROVE  IInv'
<1>1. /\ entry' = [entry EXCEPT ![m].late = TRUE]
      /\ UNCHANGED <<slotTable, box, queue, armed, walk, sender, query>>
  BY Zenon DEF Deadline
<1>2. ASSUME NEW e \in Entries
      PROVE  LET f == [e EXCEPT !.late = TRUE]
             IN /\ f \in Entries /\ f.late /\ f.pending = e.pending /\ f.waiter = e.waiter
                /\ f.abandoned = e.abandoned /\ f.shutdown = e.shutdown
  BY Zenon DEF Entries
<1>3. /\ entry' \in [Messages -> Entries] /\ entry'[m].late
      /\ \A n \in Messages :
           /\ entry'[n].pending = entry[n].pending /\ entry'[n].waiter = entry[n].waiter
           /\ entry'[n].abandoned = entry[n].abandoned /\ entry'[n].shutdown = entry[n].shutdown
           /\ n # m => entry'[n].late = entry[n].late
  BY Zenon, <1>1, <1>2 DEF IInv, HubTypeOK
<1>4. HubTypeOK'
  BY Zenon, <1>1, <1>3 DEF IInv, HubTypeOK, slotTable
<1>5. Published' /\ Boxes'
  BY Zenon, <1>1, SlotsSame, BoxesSame DEF slotTable
<1>6. Entrusted'
  <2>1. \A n \in Messages : Due(n) => Due(n)'
    BY Zenon, <1>3 DEF Due
  <2>2. \A n \in Messages : Fires(n)' <=> Fires(n)
    BY Zenon, <1>3 DEF Fires
  <2>3. OnlyParkedFires'
    BY Zenon, <1>1, <2>2 DEF IInv, OnlyParkedFires
  <2>4. WalkDue'
    <3>1. ~Admin => walk.late \union walk.resolved \subseteq Messages
      BY Zenon DEF IInv, HubTypeOK, Walks, Admin
    <3> QED BY Zenon, <1>1, <2>1, <3>1 DEF IInv, WalkDue, Admin
  <2>5. WokenDue'
    BY Zenon, <1>1, <1>3, <2>1 DEF IInv, WokenDue
  <2>6. ParkedHasTick'
    BY Zenon, <1>1, <2>2 DEF IInv, ParkedHasTick, Admin, slotTable
  <2> QED BY Zenon, <2>3, <2>4, <2>5, <2>6 DEF Entrusted
<1> QED BY Zenon, <1>4, <1>5, <1>6 DEF IInv, Boxes, Entrusted

\* A tick that starts keeps the invariant.
LEMMA TickHolds == ASSUME HubAssumption, IInv, NEW w \in Workers, Tick(w) PROVE IInv'
<1>1. /\ walk' = [by |-> w, at |-> 1, resolved |-> {}, late |-> {m \in Messages : entry[m].late},
                  delivered |-> 0, gone |-> 0, expired |-> 0]
      /\ walk = None
      /\ UNCHANGED <<slotTable, box, queue, armed, entry, sender, query>>
  BY Zenon DEF Tick, Admin
<1>2. walk' \in Walks
  BY <1>1 DEF Walks
<1>3. HubTypeOK'
  BY Zenon, <1>1, <1>2 DEF IInv, HubTypeOK, slotTable
<1>4. Published' /\ Boxes'
  BY Zenon, <1>1, SlotsSame, BoxesSame DEF slotTable
<1>5. Entrusted'
  <2>1. OnlyParkedFires' /\ WokenDue'
    BY Zenon, <1>1 DEF IInv, OnlyParkedFires, WokenDue, Fires, Due
  <2>2. WalkDue'
    BY Zenon, <1>1 DEF WalkDue, Due
  <2>3. ParkedHasTick'
    BY Zenon, <1>1 DEF IInv, ParkedHasTick, Fires, Admin, slotTable
  <2> QED BY Zenon, <2>1, <2>2, <2>3 DEF Entrusted
<1> QED BY Zenon, <1>3, <1>4, <1>5 DEF IInv, Boxes, Entrusted

\* A sender that resumes, from the tick that woke it or from a cancellation.
LEMMA SettleHolds ==
  ASSUME HubAssumption, IInv, NEW m \in Messages, Resume(m) \/ Cancel(m)
  PROVE  IInv'
<1>1. PICK state \in {"done", "expired"} : Settle(m, state)
  BY Zenon DEF Resume, Cancel, Outcome
<1>2. /\ entry' \in [Messages -> Entries] /\ sender' \in [Messages -> Senders]
      /\ \A n \in Messages : n # m => entry'[n] = entry[n] /\ sender'[n] = sender[n]
      /\ \/ entry'[m].pending = entry[m].pending /\ entry'[m].late = entry[m].late
         \/ entry'[m].pending = {}
      /\ ~(entry'[m].waiter /\ ~entry'[m].abandoned)
      /\ sender'[m].state = state
  BY Zenon, <1>1, Settled DEF IInv
<1>3. UNCHANGED <<slotTable, box, queue, armed, walk, query>>
  BY Zenon, <1>1 DEF Settle
<1>4. HubTypeOK'
  BY Zenon, <1>2, <1>3 DEF IInv, HubTypeOK, slotTable, Senders
<1>5. Published' /\ Boxes'
  BY Zenon, <1>3, SlotsSame, BoxesSame DEF slotTable
<1>6. Entrusted'
  <2>1. OnlyParkedFires' /\ WokenDue'
    BY <1>2 DEF IInv, OnlyParkedFires, WokenDue, Fires, Due
  <2>2. WalkDue'
    <3>1. \A n \in Messages : Due(n) => Due(n)'
      BY Zenon, <1>2 DEF Due
    <3>2. ~Admin => walk.late \union walk.resolved \subseteq Messages
      BY Zenon DEF IInv, HubTypeOK, Walks, Admin
    <3> QED BY Zenon, <1>3, <3>1, <3>2 DEF IInv, WalkDue, Admin
  <2>3. ParkedHasTick'
    BY Zenon, <1>2, <1>3 DEF IInv, ParkedHasTick, Fires, Admin, slotTable
  <2> QED BY Zenon, <2>1, <2>2, <2>3 DEF Entrusted
<1> QED BY Zenon, <1>4, <1>5, <1>6 DEF IInv, Boxes, Entrusted

\* One entry of a tick.
LEMMA TickEntryHolds == ASSUME HubAssumption, IInv, TickEntry PROVE IInv'
<1>1. walk # None /\ walk \in Walks
  BY Zenon DEF TickEntry, Admin, IInv, HubTypeOK
<1>2. PICK w \in Workers : w = walk.by
  BY Zenon, <1>1 DEF Walks
<1>3. queue[w] \in Seq(Messages) /\ walk.at \in 1 .. Len(queue[w])
  <2>1. walk.at <= Len(queue[w]) /\ walk.at \in Nat \ {0}
    BY Zenon, <1>1, <1>2 DEF TickEntry, Walks
  <2>2. queue[w] \in Seq(Messages)
    BY Zenon DEF IInv, HubTypeOK
  <2> QED BY <2>1, <2>2
<1>4. PICK m \in Messages : m = queue[w][walk.at]
  BY <1>3
<1> DEFINE pending == entry[m].pending
           gone == {t \in pending : IsGone(t)}
           landed == {t \in pending \ gone : Accepts(t.slot)}
           kept == pending \ (gone \cup landed)
           done == kept = {} \/ m \in walk.late
<1>5. /\ PostTo(landed, "publish", m)
      /\ entry' = [entry EXCEPT ![m].pending = kept]
      /\ queue' = [queue EXCEPT ![w] = IF done THEN Unlink(@, walk.at) ELSE @]
      /\ walk' = [walk EXCEPT !.at = IF done THEN @ ELSE @ + 1,
                              !.resolved = IF done THEN @ \cup {m} ELSE @,
                              !.delivered = @ + Cardinality(landed),
                              !.gone = @ + Cardinality(gone),
                              !.expired = @ + IF done THEN Cardinality(kept) ELSE 0]
      /\ UNCHANGED <<slotTable, armed, sender, query>>
  BY Zenon, <1>2, <1>4 DEF TickEntry
<1>6. entry[m] \in Entries /\ pending \in SUBSET Targets /\ IsFiniteSet(pending)
  BY Zenon DEF IInv, HubTypeOK, Entries, Parked
<1>7. /\ landed \in SUBSET Targets /\ kept \in SUBSET Targets
      /\ kept \subseteq pending /\ gone \subseteq pending /\ landed \subseteq pending
      /\ \A t \in landed : gen[t.slot] = t.gen
      /\ done \in BOOLEAN /\ (done => kept = {} \/ m \in walk.late)
  BY Zenon, <1>6 DEF IsGone
<1> HIDE DEF pending, gone, landed, kept, done
<1>8. /\ IsFiniteSet(kept) /\ Cardinality(gone) \in Int /\ Cardinality(landed) \in Int
      /\ Cardinality(kept) \in Int
  <2>1. IsFiniteSet(gone) /\ IsFiniteSet(landed) /\ IsFiniteSet(kept)
    BY Zenon, <1>6, <1>7, FS_Subset
  <2>2. Cardinality(gone) \in Nat /\ Cardinality(landed) \in Nat /\ Cardinality(kept) \in Nat
    BY Zenon, <2>1, FS_CardinalityType
  <2> QED BY <2>1, <2>2
<1>9. /\ walk' \in Walks /\ walk'.by = w /\ walk'.late = walk.late
      /\ done => walk'.resolved = walk.resolved \union {m}
      /\ ~done => walk'.resolved = walk.resolved
  <2> DEFINE r == walk.resolved \union {m}
             d == walk.delivered + Cardinality(landed)
             g == walk.gone + Cardinality(gone)
             e == walk.expired + Cardinality(kept)
             z == walk.expired + 0
  <2>2. /\ walk.at \in Nat \ {0} /\ walk.at + 1 \in Nat \ {0}
        /\ walk.resolved \in SUBSET Messages /\ r \in SUBSET Messages
        /\ d \in Int /\ g \in Int /\ e \in Int /\ z \in Int
    BY <1>1, <1>3, <1>8 DEF Walks
  <2>3. CASE done
    <3>1. walk' = [walk EXCEPT !.at = walk.at, !.resolved = r, !.delivered = d, !.gone = g,
                               !.expired = e]
      BY Zenon, <1>5, <2>3
    <3> HIDE DEF r, d, g, e, z
    <3>2. walk' \in Walks /\ walk'.by = walk.by /\ walk'.late = walk.late /\ walk'.resolved = r
      BY Zenon, <1>1, <2>2, <3>1 DEF Walks
    <3> QED BY Zenon, <1>2, <2>3, <3>2 DEF r
  <2>4. CASE ~done
    <3>1. walk' = [walk EXCEPT !.at = walk.at + 1, !.resolved = walk.resolved, !.delivered = d,
                               !.gone = g, !.expired = z]
      BY Zenon, <1>5, <2>4
    <3> HIDE DEF r, d, g, e, z
    <3>2. /\ walk' \in Walks /\ walk'.by = walk.by /\ walk'.late = walk.late
          /\ walk'.resolved = walk.resolved
      BY Zenon, <1>1, <2>2, <3>1 DEF Walks
    <3> QED BY Zenon, <1>2, <2>4, <3>2
  <2> QED BY Zenon, <2>3, <2>4
<1>10. /\ entry' \in [Messages -> Entries] /\ entry'[m].pending = kept
       /\ \A n \in Messages :
            /\ entry'[n].waiter = entry[n].waiter /\ entry'[n].abandoned = entry[n].abandoned
            /\ entry'[n].shutdown = entry[n].shutdown /\ entry'[n].late = entry[n].late
            /\ n # m => entry'[n].pending = entry[n].pending
  <2>1. ASSUME NEW e \in Entries, NEW P \in Parked
        PROVE  LET f == [e EXCEPT !.pending = P]
               IN /\ f \in Entries /\ f.pending = P /\ f.waiter = e.waiter
                  /\ f.abandoned = e.abandoned /\ f.shutdown = e.shutdown /\ f.late = e.late
    BY Zenon DEF Entries
  <2>2. kept \in Parked
    BY Zenon, <1>7, <1>8 DEF Parked
  <2>3. entry \in [Messages -> Entries]
    BY Zenon DEF IInv, HubTypeOK
  <2>4. entry' = [entry EXCEPT ![m] = [entry[m] EXCEPT !.pending = kept]]
    BY Zenon, <1>5
  <2> QED BY <2>1, <2>2, <2>3, <2>4
<1>11. /\ queue' \in [Workers -> Seq(Messages)]
       /\ \A v \in Workers : v # w => queue'[v] = queue[v]
       /\ ~done => queue'[w] = queue[w]
       /\ \A x \in Range(queue[w]) : x # m => x \in Range(queue'[w])
       /\ queue[w] # <<>>
  <2>1. queue \in [Workers -> Seq(Messages)]
    BY Zenon DEF IInv, HubTypeOK
  <2>2. /\ Unlink(queue[w], walk.at) \in Seq(Messages)
        /\ \A x \in Range(queue[w]) : x # m => x \in Range(Unlink(queue[w], walk.at))
    BY Zenon, <1>3, <1>4, Unlinked
  <2>3. queue[w] # <<>>
    BY <1>3
  <2>4. CASE done
    <3>1. queue' = [queue EXCEPT ![w] = Unlink(queue[w], walk.at)]
      BY Zenon, <1>5, <2>4
    <3> QED BY Zenon, <2>1, <2>2, <2>3, <2>4, <3>1
  <2>5. CASE ~done
    <3>1. queue' = [queue EXCEPT ![w] = queue[w]]
      BY Zenon, <1>5, <2>5
    <3> QED BY Zenon, <2>1, <2>3, <2>5, <3>1
  <2> QED BY Zenon, <2>4, <2>5
<1>12. box' \in [Workers -> Seq(Commands)] /\ Boxes'
  <2>1. /\ HubTypeOK /\ Published /\ None \notin Workers /\ m \in Messages \union Queries
        /\ "publish" \in {"publish", "count", "reply"}
    BY Zenon DEF IInv, HubAssumption
  <2>2. /\ box' \in [Workers -> Seq(Commands)]
        /\ \A v \in Workers :
              \/ box'[v] = box[v]
              \/ /\ phase[v] = "up" /\ local[v] \in landed
                 /\ box'[v] = Append(box[v], [kind |-> "publish", of |-> m, to |-> local[v]])
                 /\ [kind |-> "publish", of |-> m, to |-> local[v]] \in Commands
    BY Zenon, <1>5, <1>7, <2>1, Posted
  <2>3. UNCHANGED <<local, phase>> /\ \A q : Known(q) => KnownNext(q)
    BY Zenon, <1>5 DEF slotTable, Known, KnownNext
  <2>4. NoMisdelivery' /\ Attached' /\ CountsKnown'
    BY Zenon, <2>2, <2>3, GrownKept
  <2> QED BY Zenon, <2>2, <2>4 DEF Boxes
<1>13. HubTypeOK'
  BY Zenon, <1>5, <1>9, <1>10, <1>11, <1>12 DEF IInv, HubTypeOK, slotTable
<1>14. Published'
  BY Zenon, <1>5, SlotsSame
<1>15. Entrusted'
  <2>1. \A n \in Messages : Due(n) => Due(n)'
    <3>1. pending = {} => kept = {}
      BY Zenon, <1>7
    <3> QED BY Zenon, <1>10, <3>1 DEF Due, pending
  <2>2. \A n \in Messages : Fires(n)' <=> Fires(n)
    BY Zenon, <1>10 DEF Fires
  <2>3. OnlyParkedFires'
    BY Zenon, <1>5, <2>2 DEF IInv, OnlyParkedFires
  <2>4. WokenDue'
    BY Zenon, <1>5, <1>10, <2>1 DEF IInv, WokenDue
  <2>5. WalkDue'
    <3>1. \A n \in walk.late \union walk.resolved : n \in Messages /\ Due(n)
      BY Zenon, <1>1 DEF IInv, WalkDue, Admin, Walks
    <3>2. done => Due(m)'
      <4>1. CASE kept = {}
        BY Zenon, <1>10, <4>1 DEF Due
      <4>2. CASE m \in walk.late
        BY Zenon, <2>1, <3>1, <4>2
      <4> QED BY Zenon, <1>7, <4>1, <4>2
    <3>3. \A n \in walk'.late \union walk'.resolved : Due(n)'
      BY Zenon, <1>9, <2>1, <3>1, <3>2
    <3> QED BY Zenon, <3>3 DEF WalkDue
  <2>6. ParkedHasTick'
    <3>1. \A v \in Workers : queue'[v] # <<>> => armed'[v] /\ phase'[v] = "up"
      BY Zenon, <1>5, <1>11 DEF IInv, ParkedHasTick, slotTable
    <3>2. walk' # None
      BY Zenon, <1>9 DEF HubAssumption
    <3>3. ASSUME NEW n \in Messages, sender'[n].state = "parked"
          PROVE  /\ Fires(n)'
                 /\ \/ n \in Range(queue'[sender'[n].by])
                    \/ walk' # None /\ walk'.by = sender'[n].by /\ n \in walk'.resolved
      <4>1. sender'[n] = sender[n]
        BY Zenon, <1>5
      <4>2. /\ Fires(n)
            /\ \/ n \in Range(queue[sender[n].by])
               \/ w = sender[n].by /\ n \in walk.resolved
        BY Zenon, <1>2, <3>3, <4>1 DEF IInv, ParkedHasTick, Admin
      <4>3. CASE n \in Range(queue[sender[n].by]) /\ sender[n].by # w
        <5>1. sender[n].by \in Workers
          BY Zenon, <3>3, <4>1 DEF IInv, OnlyParkedFires
        <5> QED BY Zenon, <1>11, <2>2, <4>1, <4>2, <4>3, <5>1
      <4>4. CASE n \in Range(queue[w]) /\ sender[n].by = w
        BY Zenon, <1>9, <1>11, <2>2, <3>2, <4>1, <4>2, <4>4
      <4>5. CASE w = sender[n].by /\ n \in walk.resolved
        BY Zenon, <1>9, <2>2, <3>2, <4>1, <4>2, <4>5
      <4> QED BY Zenon, <4>2, <4>3, <4>4, <4>5
    <3> QED BY Zenon, <3>1, <3>3 DEF ParkedHasTick, Admin
  <2> QED BY Zenon, <2>3, <2>4, <2>5, <2>6 DEF Entrusted
<1> QED BY Zenon, <1>12, <1>13, <1>14, <1>15 DEF IInv, Boxes, Entrusted

\* A tick that ends keeps the invariant: what it resolved was due.
LEMMA TickEndHolds == ASSUME HubAssumption, IInv, TickEnd PROVE IInv'
<1>1. walk # None /\ walk \in Walks
  BY Zenon DEF TickEnd, Admin, IInv, HubTypeOK
<1>2. PICK w \in Workers : w = walk.by
  BY Zenon, <1>1 DEF Walks
<1>3. PICK S \in SUBSET Messages : S = walk.resolved
  BY Zenon, <1>1 DEF Walks
<1>4. /\ walk' = None
      /\ armed' = [armed EXCEPT ![w] = @ /\ queue[w] # <<>>]
      /\ UNCHANGED <<slotTable, box, queue, query>>
  BY Zenon, <1>2 DEF TickEnd
<1>5. /\ entry' \in [Messages -> Entries] /\ sender' \in [Messages -> Senders]
      /\ \A m \in Messages : m \notin S => entry'[m] = entry[m] /\ sender'[m] = sender[m]
      /\ \A m \in S \intersect Messages :
           /\ \/ entry'[m].pending = entry[m].pending /\ entry'[m].late = entry[m].late
              \/ entry'[m].pending = {}
           /\ entry[m].shutdown => entry'[m].shutdown \/ entry'[m].pending = {}
           /\ ~(entry'[m].waiter /\ ~entry'[m].abandoned)
           /\ Fires(m) => sender'[m].state = "woken"
           /\ ~Fires(m) => sender'[m] = sender[m]
  <2>1. Finish(walk.resolved, FALSE)
    BY Zenon DEF TickEnd
  <2>2. FinishLeaves(walk.resolved, FALSE)
    BY Zenon, <2>1, Finished DEF IInv
  <2> QED BY Zenon, <1>3, <2>2 DEF FinishLeaves
<1>6. armed' \in [Workers -> BOOLEAN] /\ \A v \in Workers : queue[v] # <<>> => (armed[v] => armed'[v])
  BY Zenon, <1>4 DEF IInv, HubTypeOK
<1>7. HubTypeOK'
  BY Zenon, <1>4, <1>5, <1>6 DEF IInv, HubTypeOK, slotTable, Senders
<1>8. Published' /\ Boxes'
  BY Zenon, <1>4, SlotsSame, BoxesSame DEF slotTable
<1>9. Entrusted'
  <2>1. ASSUME NEW m \in Messages PROVE Fires(m)' => m \notin S /\ Fires(m)
    BY Zenon, <1>5 DEF Fires
  <2>2. ASSUME NEW m \in Messages, sender'[m].state = "parked" PROVE m \notin S
    BY Zenon, <1>5, <2>2 DEF IInv, ParkedHasTick
  <2>3. OnlyParkedFires'
    BY Zenon, <1>5, <2>1, <2>2 DEF IInv, OnlyParkedFires
  <2>4. WalkDue'
    BY Zenon, <1>4 DEF WalkDue, Admin
  <2>5. WokenDue'
    <3>1. ASSUME NEW m \in Messages, sender'[m].state = "woken"
          PROVE  entry'[m].shutdown \/ entry'[m].pending = {} \/ entry'[m].late
      <4>1. CASE m \notin S
        BY Zenon, <1>5, <3>1, <4>1 DEF IInv, WokenDue, Due
      <4>2. CASE m \in S
        <5>1. entry[m].pending = {} \/ entry[m].late
          BY Zenon, <1>1, <1>3, <4>2 DEF IInv, WalkDue, Admin, Due
        <5> QED BY Zenon, <1>5, <4>2, <5>1
      <4> QED BY Zenon, <4>1, <4>2
    <3> QED BY Zenon, <3>1 DEF WokenDue, Due
  <2>6. ParkedHasTick'
    <3>1. \A v \in Workers : queue'[v] # <<>> => armed'[v] /\ phase'[v] = "up"
      BY Zenon, <1>4, <1>6 DEF IInv, ParkedHasTick, slotTable
    <3>2. ASSUME NEW m \in Messages, sender'[m].state = "parked"
          PROVE  entry'[m].waiter /\ ~entry'[m].abandoned /\ m \in Range(queue'[sender'[m].by])
      <4>1. m \notin S /\ entry'[m] = entry[m] /\ sender'[m] = sender[m]
        BY Zenon, <1>5, <2>2, <3>2
      <4> QED BY Zenon, <1>3, <1>4, <3>2, <4>1 DEF IInv, ParkedHasTick, Fires
    <3> QED BY Zenon, <3>1, <3>2 DEF ParkedHasTick, Fires
  <2> QED BY Zenon, <2>3, <2>4, <2>5, <2>6 DEF Entrusted
<1> QED BY Zenon, <1>7, <1>8, <1>9 DEF IInv, Boxes, Entrusted

\* topic_hub_detach keeps the invariant: it resolves what its queue held.
LEMMA DetachHolds == ASSUME HubAssumption, IInv, NEW w \in Workers, Detach(w) PROVE IInv'
<1>1. PICK S : S = Range(queue[w])
  BY Zenon
<1>2. /\ walk = None /\ phase[w] = "up"
      /\ inbox' = [inbox EXCEPT ![local[w].slot] = None]
      /\ phase' = [phase EXCEPT ![w] = "leaving"]
      /\ queue' = [queue EXCEPT ![w] = <<>>] /\ armed' = [armed EXCEPT ![w] = FALSE]
      /\ UNCHANGED <<gen, local, box, walk, query>>
  BY Zenon DEF Detach, Teardown, Admin
<1>3. /\ entry' \in [Messages -> Entries] /\ sender' \in [Messages -> Senders]
      /\ \A m \in Messages : m \notin S => entry'[m] = entry[m] /\ sender'[m] = sender[m]
      /\ \A m \in S \intersect Messages :
           /\ entry'[m].shutdown \/ entry'[m].pending = {}
           /\ ~(entry'[m].waiter /\ ~entry'[m].abandoned)
           /\ Fires(m) => sender'[m].state = "woken"
           /\ ~Fires(m) => sender'[m] = sender[m]
  <2>1. Finish(Range(queue[w]), TRUE)
    BY Zenon DEF Detach, Teardown
  <2>2. FinishLeaves(Range(queue[w]), TRUE)
    BY Zenon, <2>1, Finished DEF IInv
  <2> QED BY Zenon, <1>1, <2>2 DEF FinishLeaves
<1>4. PICK s \in Slots : s = local[w].slot
  BY Zenon, <1>2 DEF IInv, Attached, Targets
<1>5. /\ queue' \in [Workers -> Seq(Messages)] /\ queue'[w] = <<>>
      /\ \A v \in Workers : v # w => /\ queue'[v] = queue[v] /\ armed'[v] = armed[v]
                                     /\ phase'[v] = phase[v]
  BY <1>2 DEF IInv, HubTypeOK
<1>6. HubTypeOK'
  BY Zenon, <1>2, <1>3, <1>4, <1>5 DEF IInv, HubTypeOK, Senders
<1>7. Published'
  <2>1. inbox' = [inbox EXCEPT ![s] = None]
    BY Zenon, <1>2, <1>4
  <2>2. ASSUME NEW t \in Slots, inbox'[t] # None
        PROVE  phase'[inbox'[t]] = "up" /\ local'[inbox'[t]] = Target(t)'
    <3>1. t # s /\ inbox'[t] = inbox[t] /\ inbox[t] \in Workers
      BY Zenon, <2>1, <2>2 DEF IInv, HubTypeOK
    <3>2. phase[inbox[t]] = "up" /\ local[inbox[t]] = [slot |-> t, gen |-> gen[t]]
      BY Zenon, <2>2, <3>1 DEF IInv, Published, Target
    <3>3. inbox[t] # w
      BY <1>4, <3>1, <3>2
    <3> QED BY Zenon, <1>2, <1>5, <3>1, <3>2, <3>3 DEF Target
  <2> QED BY Zenon, <2>2 DEF Published
<1>8. Boxes'
  <2>1. NoMisdelivery' /\ CountsKnown'
    BY Zenon, <1>2 DEF IInv, NoMisdelivery, CountsKnown
  <2>2. Attached'
    BY Zenon, <1>2 DEF IInv, HubTypeOK, Attached
  <2> QED BY Zenon, <2>1, <2>2 DEF Boxes
<1>9. Entrusted'
  <2>1. ASSUME NEW m \in Messages PROVE Fires(m)' => m \notin S /\ Fires(m)
    BY Zenon, <1>3 DEF Fires
  <2>2. ASSUME NEW m \in Messages, sender'[m].state = "parked" PROVE m \notin S
    BY Zenon, <1>3, <2>2 DEF IInv, ParkedHasTick
  <2>3. OnlyParkedFires'
    BY Zenon, <1>3, <2>1, <2>2 DEF IInv, OnlyParkedFires
  <2>4. WalkDue'
    BY Zenon, <1>2 DEF WalkDue, Admin
  <2>5. WokenDue'
    BY Zenon, <1>3 DEF IInv, WokenDue, Due
  <2>6. ParkedHasTick'
    <3>1. \A v \in Workers : queue'[v] # <<>> => armed'[v] /\ phase'[v] = "up"
      BY Zenon, <1>5 DEF IInv, ParkedHasTick
    <3>2. ASSUME NEW m \in Messages, sender'[m].state = "parked"
          PROVE  entry'[m].waiter /\ ~entry'[m].abandoned /\ m \in Range(queue'[sender'[m].by])
      <4>1. m \notin S /\ entry'[m] = entry[m] /\ sender'[m] = sender[m]
        BY Zenon, <1>3, <2>2, <3>2
      <4>2. /\ entry[m].waiter /\ ~entry[m].abandoned /\ m \in Range(queue[sender[m].by])
            /\ sender[m].by \in Workers
        BY Zenon, <1>2, <3>2, <4>1 DEF IInv, ParkedHasTick, OnlyParkedFires, Fires, Admin
      <4>3. sender[m].by # w
        BY Zenon, <1>1, <4>1, <4>2
      <4> QED BY Zenon, <1>5, <4>1, <4>2, <4>3
    <3> QED BY Zenon, <3>1, <3>2 DEF ParkedHasTick, Fires
  <2> QED BY Zenon, <2>3, <2>4, <2>5, <2>6 DEF Entrusted
<1> QED BY Zenon, <1>6, <1>7, <1>8, <1>9 DEF IInv, Boxes, Entrusted

\* The first command of a mailbox, and what is left of the mailbox without it.
LEMMA Popped ==
  ASSUME IInv, NEW w \in Workers, box[w] # <<>>
  PROVE  /\ Head(box[w]) = box[w][1] /\ Head(box[w]) \in Commands /\ 1 \in 1 .. Len(box[w])
         /\ Tail(box[w]) \in Seq(Commands)
         /\ \A i \in 1 .. Len(Tail(box[w])) :
              \E j \in 1 .. Len(box[w]) : Tail(box[w])[i] = box[w][j]
<1>1. box[w] \in Seq(Commands)
  BY Zenon DEF IInv, HubTypeOK
<1>2. /\ Tail(box[w]) \in Seq(Commands) /\ Len(Tail(box[w])) = Len(box[w]) - 1
      /\ \A i \in 1 .. Len(box[w]) - 1 : Tail(box[w])[i] = box[w][i + 1]
      /\ Len(box[w]) \in Nat /\ Len(box[w]) > 0
  BY <1>1
<1>3. \A i \in 1 .. Len(box[w]) - 1 : i + 1 \in 1 .. Len(box[w])
  BY <1>2
<1> QED BY <1>1, <1>2, <1>3

\* A step that only takes the first command out of a mailbox.
LEMMA PopKept ==
  ASSUME HubAssumption, IInv, NEW w \in Workers, phase[w] # "out", box[w] # <<>>,
         box' = [box EXCEPT ![w] = Tail(@)], UNCHANGED <<local, phase>>,
         \A q : Known(q) => KnownNext(q)
  PROVE  box' \in [Workers -> Seq(Commands)] /\ Boxes'
<1>1. box \in [Workers -> Seq(Commands)]
  BY Zenon DEF IInv, HubTypeOK
<1>2. /\ box' \in [Workers -> Seq(Commands)] /\ box'[w] = Tail(box[w])
      /\ \A v \in Workers : v # w => box'[v] = box[v]
  BY Zenon, <1>1, Popped
<1>3. \A v \in Workers : \A i \in 1 .. Len(box'[v]) :
         \E j \in 1 .. Len(box[v]) : box'[v][i] = box[v][j]
  BY <1>2, Popped
<1>4. \A v \in Workers : phase[v] = "out" => box'[v] = box[v]
  BY Zenon, <1>2
<1>5. NoMisdelivery' /\ Attached' /\ CountsKnown'
  BY Zenon, <1>1, <1>2, <1>3, <1>4, BoxesKept
<1> QED BY Zenon, <1>2, <1>5 DEF Boxes

\* Delivering a publication keeps the invariant.
LEMMA DrainPublishHolds ==
  ASSUME HubAssumption, IInv, NEW w \in Workers, DrainPublish(w) PROVE IInv'
<1>1. /\ phase[w] # "out" /\ box[w] # <<>> /\ box' = [box EXCEPT ![w] = Tail(@)]
      /\ UNCHANGED <<slotTable, queue, armed, walk, entry, sender, query>>
  BY Zenon DEF DrainPublish, Pops, retries
<1>2. box' \in [Workers -> Seq(Commands)] /\ Boxes'
  <2>1. UNCHANGED <<local, phase>> /\ \A q : Known(q) => KnownNext(q)
    BY Zenon, <1>1 DEF Known, KnownNext, slotTable
  <2> QED BY Zenon, <1>1, <2>1, PopKept
<1>3. HubTypeOK'
  BY Zenon, <1>1, <1>2 DEF IInv, HubTypeOK, slotTable
<1>4. Published' /\ Entrusted'
  BY Zenon, <1>1, SlotsSame, EntriesSame DEF slotTable
<1> QED BY Zenon, <1>2, <1>3, <1>4 DEF IInv, Boxes, Entrusted

\* A query whose reference count or answers change.
LEMMA QueryKept ==
  ASSUME IInv, NEW q \in Queries, NEW r \in Asked, query' = [query EXCEPT ![q] = r],
         Known(q) => r.state # "idle" /\ r.to \in Targets
  PROVE  query' \in [Queries -> Asked] /\ \A p : Known(p) => KnownNext(p)
<1>1. query \in [Queries -> Asked]
  BY Zenon DEF IInv, HubTypeOK
<1> QED BY Zenon, <1>1 DEF Known, KnownNext

\* Answering a count keeps the invariant: the reply goes where it was asked.
LEMMA DrainCountHolds ==
  ASSUME HubAssumption, IInv, NEW w \in Workers, DrainCount(w) PROVE IInv'
<1> DEFINE q == Head(box[w]).of
           t == query[q].to
           home == inbox[t.slot]
           c == [kind |-> "reply", of |-> q, to |-> t]
           b == [box EXCEPT ![w] = Tail(@)]
<1>1. /\ phase[w] # "out" /\ box[w] # <<>> /\ Head(box[w]).kind = "count"
      /\ UNCHANGED <<slotTable, queue, armed, walk, entry, sender>>
  BY Zenon DEF DrainCount, Pops, retries
<1>2. /\ q \in Queries /\ query[q].state # "idle" /\ t \in Targets /\ query[q] \in Asked
  <2>1. /\ Head(box[w]) = box[w][1] /\ 1 \in 1 .. Len(box[w])
    BY Zenon, <1>1, Popped
  <2>2. q \in Queries /\ query[q].state # "idle" /\ t \in Targets
    BY Zenon, <1>1, <2>1 DEF IInv, CountsKnown
  <2> QED BY Zenon, <2>2 DEF IInv, HubTypeOK
<1>3. \/ /\ Reaches(t) /\ UNCHANGED query
         /\ box' = [b EXCEPT ![home] = Append(@, c)]
      \/ /\ box' = [box EXCEPT ![w] = Tail(@)]
         /\ query' = [query EXCEPT ![q].refcount = @ - 1]
  BY Zenon DEF DrainCount
<1> HIDE DEF q, t, home, c, b
<1>4. query' \in [Queries -> Asked] /\ \A p : Known(p) => KnownNext(p)
  <2>1. CASE UNCHANGED query
    BY Zenon, <2>1 DEF IInv, HubTypeOK, Known, KnownNext
  <2>2. CASE query' = [query EXCEPT ![q].refcount = @ - 1]
    <3>1. PICK r : r = [query[q] EXCEPT !.refcount = @ - 1]
      BY Zenon
    <3>2. r \in Asked /\ r.state = query[q].state /\ r.to = query[q].to
      BY <1>2, <3>1 DEF Asked
    <3>3. query' = [query EXCEPT ![q] = r]
      BY Zenon, <2>2, <3>1
    <3>4. Known(q) => r.state # "idle" /\ r.to \in Targets
      BY Zenon, <3>2 DEF Known
    <3> QED BY Zenon, <1>2, <3>2, <3>3, <3>4, QueryKept
  <2> QED BY Zenon, <1>3, <2>1, <2>2
<1>5. UNCHANGED <<local, phase>>
  BY Zenon, <1>1 DEF slotTable
<1>6. box' \in [Workers -> Seq(Commands)] /\ Boxes'
  <2>1. CASE box' = [box EXCEPT ![w] = Tail(@)]
    BY Zenon, <1>1, <1>4, <1>5, <2>1, PopKept
  <2>2. CASE Reaches(t) /\ box' = [b EXCEPT ![home] = Append(@, c)]
    <3>1. home \in Workers /\ phase[home] = "up" /\ local[home] = t
      <4>1. t.slot \in Slots /\ t = [slot |-> t.slot, gen |-> t.gen] /\ gen[t.slot] = t.gen
            /\ inbox[t.slot] # None
        BY Zenon, <1>2, <2>2 DEF Targets, Reaches, Accepts
      <4> QED BY Zenon, <4>1 DEF IInv, HubTypeOK, Published, Target, home
    <3>2. c \in Commands /\ c.to = t /\ c.kind = "reply"
      BY Zenon, <1>2 DEF c, Commands
    <3>3. box \in [Workers -> Seq(Commands)]
      BY Zenon DEF IInv, HubTypeOK
    <3>4. /\ b \in [Workers -> Seq(Commands)]
          /\ \A v \in Workers : v # w => b[v] = box[v]
          /\ \A v \in Workers : \A i \in 1 .. Len(b[v]) :
               \E j \in 1 .. Len(box[v]) : b[v][i] = box[v][j]
      BY <1>1, <3>3, Popped DEF b
    <3>6. /\ box' \in [Workers -> Seq(Commands)]
          /\ box'[home] = Append(b[home], c)
          /\ \A v \in Workers : v # home => box'[v] = b[v]
      BY <2>2, <3>1, <3>2, <3>4
    <3>7. ASSUME NEW v \in Workers, NEW i \in 1 .. Len(box'[v])
          PROVE  \/ \E j \in 1 .. Len(box[v]) : box'[v][i] = box[v][j]
                 \/ /\ box'[v][i].to = local[v]
                    /\ box'[v][i].kind = "count" => KnownNext(box'[v][i].of)
      <4>1. CASE v # home
        <5>1. box'[v] = b[v] /\ i \in 1 .. Len(b[v])
          BY Zenon, <3>6, <3>7, <4>1
        <5>2. \E j \in 1 .. Len(box[v]) : b[v][i] = box[v][j]
          BY Zenon, <3>4, <5>1
        <5> QED BY Zenon, <5>1, <5>2
      <4>2. CASE v = home
        <5>1. b[v] \in Seq(Commands) /\ box'[v] = Append(b[v], c)
          BY Zenon, <3>4, <3>6, <4>2
        <5>2. (i \in 1 .. Len(b[v]) /\ box'[v][i] = b[v][i]) \/ box'[v][i] = c
          BY <3>2, <5>1
        <5> QED BY Zenon, <3>1, <3>2, <3>4, <4>2, <5>2
      <4> QED BY Zenon, <4>1, <4>2
    <3>8. \A v \in Workers : phase[v] = "out" => box'[v] = box[v]
      BY Zenon, <1>1, <3>1, <3>4, <3>6
    <3>9. NoMisdelivery' /\ Attached' /\ CountsKnown'
      BY Zenon, <1>4, <1>5, <3>3, <3>6, <3>7, <3>8, BoxesKept
    <3> QED BY Zenon, <3>6, <3>9 DEF Boxes
  <2> QED BY Zenon, <1>3, <2>1, <2>2
<1>7. HubTypeOK'
  BY Zenon, <1>1, <1>4, <1>6 DEF IInv, HubTypeOK, slotTable
<1>8. Published' /\ Entrusted'
  BY Zenon, <1>1, SlotsSame, EntriesSame DEF slotTable
<1> QED BY Zenon, <1>6, <1>7, <1>8 DEF IInv, Boxes, Entrusted

\* Taking a reply keeps the invariant.
LEMMA DrainReplyHolds ==
  ASSUME HubAssumption, IInv, NEW w \in Workers, DrainReply(w) PROVE IInv'
<1> DEFINE q == Head(box[w]).of
<1>1. /\ phase[w] # "out" /\ box[w] # <<>> /\ box' = [box EXCEPT ![w] = Tail(@)]
      /\ query' = [query EXCEPT ![q].refcount = @ - 1,
                                ![q].pending = IF query[q].abandoned THEN @ ELSE @ - 1,
                                ![q].state = IF ~query[q].abandoned /\ query[q].pending = 1
                                             THEN "woken" ELSE @]
      /\ UNCHANGED <<slotTable, queue, armed, walk, entry, sender>>
  BY Zenon DEF DrainReply, Pops, retries
<1> HIDE DEF q
<1>2. query' \in [Queries -> Asked] /\ \A p : Known(p) => KnownNext(p)
  <2>1. query \in [Queries -> Asked]
    BY Zenon DEF IInv, HubTypeOK
  <2>2. CASE q \notin Queries
    BY Zenon, <1>1, <2>1, <2>2 DEF Known, KnownNext
  <2>3. CASE q \in Queries
    <3> DEFINE n == IF query[q].abandoned THEN query[q].pending ELSE query[q].pending - 1
               k == IF ~query[q].abandoned /\ query[q].pending = 1 THEN "woken"
                    ELSE query[q].state
               c == query[q].refcount - 1
    <3>0. /\ query[q] \in Asked /\ n \in Int /\ c \in Int
          /\ k \in AskState /\ k \in {"woken", query[q].state}
      BY <2>1, <2>3 DEF Asked, AskState
    <3>1. PICK r : r = [query[q] EXCEPT !.refcount = c, !.pending = n, !.state = k]
      BY Zenon
    <3>3. query' = [query EXCEPT ![q] = r]
      BY Zenon, <1>1, <2>1, <2>3, <3>1
    <3> HIDE DEF n, k, c
    <3>2. r \in Asked /\ r.state = k /\ r.to = query[q].to
      BY Zenon, <3>0, <3>1 DEF Asked
    <3>4. Known(q) => r.state # "idle" /\ r.to \in Targets
      BY Zenon, <3>0, <3>2 DEF Known
    <3> QED BY Zenon, <2>3, <3>2, <3>3, <3>4, QueryKept
  <2> QED BY Zenon, <2>2, <2>3
<1>3. box' \in [Workers -> Seq(Commands)] /\ Boxes'
  <2>1. UNCHANGED <<local, phase>>
    BY Zenon, <1>1 DEF slotTable
  <2> QED BY Zenon, <1>1, <1>2, <2>1, PopKept
<1>4. HubTypeOK'
  BY Zenon, <1>1, <1>2, <1>3 DEF IInv, HubTypeOK, slotTable
<1>5. Published' /\ Entrusted'
  BY Zenon, <1>1, SlotsSame, EntriesSame DEF slotTable
<1> QED BY Zenon, <1>3, <1>4, <1>5 DEF IInv, Boxes, Entrusted

\* Asking every worker keeps the invariant.
LEMMA CountHolds ==
  ASSUME HubAssumption, IInv, NEW w \in Workers, NEW q \in Queries, NEW hit \in SUBSET Slots,
         Count(w, q, hit)
  PROVE  IInv'
<1> DEFINE landed == {s \in Addressed(w, hit) : Accepts(s)}
           n == Cardinality(landed)
           r == IF n = 0 THEN [NoQuery EXCEPT !.state = "returned"]
                ELSE [state |-> "asking", by |-> w, to |-> local[w], pending |-> n,
                      abandoned |-> FALSE, refcount |-> n + 1]
<1>0. landed \in SUBSET Slots
  BY Zenon DEF Addressed
<1>1. /\ phase[w] = "up" /\ query[q].state = "idle" /\ Post(landed, "count", q)
      /\ query' = [query EXCEPT ![q] = r]
      /\ UNCHANGED <<slotTable, queue, armed, walk, entry, sender>>
  BY Zenon DEF Count, retries
<1> HIDE DEF landed
<1>2. n \in Nat /\ (landed # {} => n # 0)
  BY Zenon, <1>0, FS_Subset, FS_CardinalityType, FS_EmptySet DEF HubAssumption
<1>3. local[w] \in Targets
  BY Zenon, <1>1 DEF IInv, Attached
<1> HIDE DEF n
<1>4. r \in Asked /\ (landed # {} => r.state # "idle" /\ r.to \in Targets)
  <2>1. CASE n = 0
    <3>1. r = [state |-> "returned", by |-> None, to |-> None, pending |-> 0,
               abandoned |-> FALSE, refcount |-> 0]
      BY Zenon, <2>1 DEF NoQuery
    <3>2. /\ "returned" \in AskState /\ None \in Askers /\ None \in Homes
          /\ 0 \in Int /\ FALSE \in BOOLEAN
      BY DEF AskState, Askers, Homes
    <3>3. r \in Asked
      BY Zenon, <3>1, <3>2 DEF Asked
    <3> QED BY Zenon, <1>2, <2>1, <3>3
  <2>2. CASE n # 0
    <3>1. r = [state |-> "asking", by |-> w, to |-> local[w], pending |-> n,
               abandoned |-> FALSE, refcount |-> n + 1]
      BY Zenon, <2>2
    <3> QED BY <1>2, <1>3, <3>1 DEF Asked, AskState, Askers, Homes
  <2> QED BY Zenon, <2>1, <2>2
<1> HIDE DEF r
<1>5. query' \in [Queries -> Asked] /\ \A p : Known(p) => KnownNext(p)
  <2>1. ~Known(q)
    BY Zenon, <1>1 DEF Known
  <2> QED BY Zenon, <1>1, <1>4, <2>1, QueryKept
<1>6. box' \in [Workers -> Seq(Commands)] /\ Boxes'
  <2>1. landed # {} => KnownNext(q)
    BY Zenon, <1>1, <1>4 DEF KnownNext, IInv, HubTypeOK
  <2>2. "count" \in {"publish", "count"} /\ q \in Messages \union Queries /\ UNCHANGED <<local, phase>>
    BY Zenon, <1>1 DEF slotTable
  <2> QED BY Zenon, <1>0, <1>1, <1>5, <2>1, <2>2, FannedOut
<1>7. HubTypeOK'
  BY Zenon, <1>1, <1>5, <1>6 DEF IInv, HubTypeOK, slotTable
<1>8. Published' /\ Entrusted'
  BY Zenon, <1>1, SlotsSame, EntriesSame DEF slotTable
<1> QED BY Zenon, <1>6, <1>7, <1>8 DEF IInv, Boxes, Entrusted

\* A count that returns keeps the invariant.
LEMMA CountReturnsHolds ==
  ASSUME HubAssumption, IInv, NEW q \in Queries, CountReturns(q) PROVE IInv'
<1>1. /\ query' = [query EXCEPT ![q].state = "returned", ![q].abandoned = TRUE,
                                ![q].by = None, ![q].refcount = @ - 1]
      /\ UNCHANGED <<slotTable, box, queue, armed, walk, entry, sender>>
  BY Zenon DEF CountReturns, retries
<1>2. PICK r : r = [query[q] EXCEPT !.state = "returned", !.abandoned = TRUE, !.by = None,
                                    !.refcount = @ - 1]
  BY Zenon
<1>3. r \in Asked /\ r.state = "returned" /\ r.to = query[q].to
  <2>1. query[q] \in Asked
    BY Zenon DEF IInv, HubTypeOK
  <2>2. PICK b \in Askers, k \in AskState, c \in Int :
          b = None /\ k = "returned" /\ c = query[q].refcount - 1
    BY <2>1 DEF Askers, AskState, Asked
  <2>3. r = [query[q] EXCEPT !.state = k, !.abandoned = TRUE, !.by = b, !.refcount = c]
    BY Zenon, <1>2, <2>2
  <2> QED BY Zenon, <2>1, <2>2, <2>3 DEF Asked
<1>4. query' = [query EXCEPT ![q] = r]
  BY Zenon, <1>1, <1>2 DEF IInv, HubTypeOK
<1>5. query' \in [Queries -> Asked] /\ \A p : Known(p) => KnownNext(p)
  <2>1. Known(q) => r.state # "idle" /\ r.to \in Targets
    BY Zenon, <1>3 DEF Known
  <2> QED BY Zenon, <1>3, <1>4, <2>1, QueryKept
<1>6. Boxes'
  <2>1. NoMisdelivery' /\ Attached'
    BY Zenon, <1>1 DEF IInv, NoMisdelivery, Attached, slotTable
  <2>2. CountsKnown'
    <3>1. \A v \in Workers : \A i \in 1 .. Len(box[v]) :
             box[v][i].kind = "count" => Known(box[v][i].of)
      BY Zenon DEF IInv, CountsKnown, Known
    <3>2. \A v \in Workers : \A i \in 1 .. Len(box'[v]) :
             box'[v][i].kind = "count" => KnownNext(box'[v][i].of)
      BY Zenon, <1>1, <1>5, <3>1
    <3> QED BY Zenon, <3>2 DEF CountsKnown, KnownNext
  <2> QED BY Zenon, <2>1, <2>2 DEF Boxes
<1>7. HubTypeOK'
  BY Zenon, <1>1, <1>5 DEF IInv, HubTypeOK, slotTable
<1>8. Published' /\ Entrusted'
  BY Zenon, <1>1, SlotsSame, EntriesSame DEF slotTable
<1> QED BY Zenon, <1>6, <1>7, <1>8 DEF IInv, Boxes, Entrusted

-----------------------------------------------------------------------------
\* The invariant holds at the start.
LEMMA InitHolds == ASSUME HubAssumption, Init PROVE IInv
<1>1. NoEntry \in Entries /\ NoEntry.pending = {} /\ ~NoEntry.waiter
  BY FS_EmptySet DEF NoEntry, Entries, Parked
<1>2. NoQuery \in Asked
  BY DEF NoQuery, Asked, AskState, Askers, Homes
<1>3. HubTypeOK
  BY <1>1, <1>2 DEF Init, HubTypeOK
<1>4. Published /\ Attached /\ NoMisdelivery /\ CountsKnown
  BY DEF Init, Published, Attached, NoMisdelivery, CountsKnown
<1>5. OnlyParkedFires /\ WalkDue /\ WokenDue /\ ParkedHasTick
  BY Zenon, <1>1 DEF Init, OnlyParkedFires, WalkDue, WokenDue, ParkedHasTick, Fires, Admin
<1> QED BY Zenon, <1>3, <1>4, <1>5 DEF IInv

\* Every step keeps the invariant.
LEMMA StepHolds == ASSUME HubAssumption, IInv, [Next]_vars PROVE IInv'
<1>1. CASE UNCHANGED vars
  <2>1. UNCHANGED <<slotTable, local, phase, box, queue, armed, walk, entry, sender, query>>
    BY Zenon, <1>1 DEF vars, slotTable, retries
  <2>2. HubTypeOK'
    BY Zenon, <2>1 DEF IInv, HubTypeOK, slotTable
  <2> QED BY Zenon, <2>1, <2>2, SlotsSame, BoxesSame, EntriesSame DEF IInv, Boxes, Entrusted
<1>2. ASSUME NEW w \in Workers, Attach(w) \/ Detach(w) \/ Leave(w) \/ Tick(w) PROVE IInv'
  BY Zenon, <1>2, AttachHolds, DetachHolds, LeaveHolds, TickHolds
<1>3. ASSUME NEW w \in Workers, Sends(w) PROVE IInv'
  <2>1. PICK m \in Messages, hit \in SUBSET Slots :
          \/ Publish(w, m, hit)
          \/ \E arms \in BOOLEAN : SendAtOnce(w, m, hit, arms)
          \/ \E blocking \in BOOLEAN : Park(w, m, hit, blocking)
    BY Zenon, <1>3 DEF Sends
  <2> QED BY Zenon, <2>1, PublishHolds, ParkHolds
<1>4. ASSUME NEW w \in Workers, Drain(w) PROVE IInv'
  BY Zenon, <1>4, DrainPublishHolds, DrainCountHolds, DrainReplyHolds DEF Drain
<1>5. ASSUME NEW w \in Workers, NEW q \in Queries, NEW hit \in SUBSET Slots, Count(w, q, hit)
      PROVE  IInv'
  BY Zenon, <1>5, CountHolds
<1>6. ASSUME NEW m \in Messages, Deadline(m) \/ Resume(m) \/ Cancel(m) PROVE IInv'
  BY Zenon, <1>6, DeadlineHolds, SettleHolds
<1>7. ASSUME NEW q \in Queries, CountReturns(q) PROVE IInv'
  BY Zenon, <1>7, CountReturnsHolds
<1>8. CASE TickEntry \/ TickEnd
  BY Zenon, <1>8, TickEntryHolds, TickEndHolds
<1> QED BY Zenon, <1>1, <1>2, <1>3, <1>4, <1>5, <1>6, <1>7, <1>8 DEF Next

\* The invariant holds in every behaviour.
LEMMA IInvHolds == ASSUME HubAssumption PROVE Spec => []IInv
<1>1. Init => IInv
  BY Zenon, InitHolds
<1>2. IInv /\ [Next]_vars => IInv'
  BY Zenon, StepHolds
<1> QED BY <1>1, <1>2, PTL DEF Spec

\* A retry, a publication, a question or an answer always lies in the mailbox of
\* the attachment it was addressed to, however often workers detach and attach
\* and slots are reused (topic_hub_post_locked, retry_target_gone, the
\* generation check of topic_hub_answer_count).
THEOREM HubNoMisdelivery == ASSUME HubAssumption PROVE Spec => []NoMisdelivery
<1>1. IInv => NoMisdelivery
  BY Zenon DEF IInv
<1> QED BY <1>1, IInvHolds, PTL

\* A coroutine suspended in send() keeps an entry that will fire its event, in a
\* queue whose timer runs or among the resolved entries of the running tick
\* (topic_hub_retry_enqueue, topic_hub_retry_drain, topic_hub_retry_teardown).
THEOREM HubParkedHasTick == ASSUME HubAssumption PROVE Spec => []ParkedHasTick
<1>1. IInv => ParkedHasTick
  BY Zenon DEF IInv
<1> QED BY <1>1, IInvHolds, PTL

\* send() returns a timeout only past its deadline: a detach that resolved its
\* entry, and an entry served in full, are never taken for one (topic_hub_send).
THEOREM HubNoFalseTimeout == ASSUME HubAssumption PROVE Spec => NoFalseTimeout
<1> DEFINE Ok == \A m \in Messages : sender'[m].state = "expired" /\ sender[m].state # "expired"
                                     => entry[m].late
<1>1. ASSUME IInv, Next PROVE Ok
  <2> SUFFICES ASSUME NEW m \in Messages, sender'[m].state = "expired", sender[m].state # "expired"
               PROVE  entry[m].late
    BY Zenon
  <2>1. ASSUME NEW n \in Messages, Resume(n) PROVE entry[m].late
    <3>1. sender[n].state = "woken" /\ Settle(n, Outcome(entry[n]))
      BY Zenon, <2>1 DEF Resume
    <3>2. sender' = [sender EXCEPT ![n] = Over(Outcome(entry[n]))]
      BY Zenon, <3>1 DEF Settle
    <3>3. m = n
      BY Zenon, <1>1, <3>2 DEF IInv, HubTypeOK
    <3>4. Outcome(entry[m]) = "expired"
      BY Zenon, <1>1, <3>2, <3>3 DEF IInv, HubTypeOK, Over
    <3>5. ~entry[m].shutdown /\ entry[m].pending # {}
      BY Zenon, <3>4 DEF Outcome
    <3>6. entry[m].shutdown \/ entry[m].pending = {} \/ entry[m].late
      BY Zenon, <1>1, <3>1, <3>3 DEF IInv, WokenDue, Due
    <3> QED BY Zenon, <3>5, <3>6
  <2>2. ASSUME NEW n \in Messages, Cancel(n) PROVE FALSE
    BY Zenon, <1>1, <2>2 DEF Cancel, Settle, Over, IInv, HubTypeOK
  <2>3. ASSUME NEW S, NEW down \in BOOLEAN, Finish(S, down) PROVE FALSE
    <3>0. HubTypeOK
      BY Zenon, <1>1 DEF IInv
    <3>1. FinishLeaves(S, down)
      BY Zenon, <2>3, <3>0, Finished
    <3> QED BY Zenon, <3>1 DEF FinishLeaves
  <2>4. ASSUME NEW w \in Workers, NEW n \in Messages, NEW hit, NEW arms, NEW blocking,
               Publish(w, n, hit) \/ SendAtOnce(w, n, hit, arms) \/ Park(w, n, hit, blocking)
        PROVE  FALSE
    <3>1. PICK x : x.state \in {"done", "parked"} /\ sender' = [sender EXCEPT ![n] = x]
      <4>1. CASE Publish(w, n, hit) \/ SendAtOnce(w, n, hit, arms)
        <5>1. sender' = [sender EXCEPT ![n] = Over("done")]
          BY Zenon, <4>1 DEF Publish, SendAtOnce
        <5> QED BY <5>1 DEF Over
      <4>2. CASE Park(w, n, hit, blocking)
        <5>1. \/ sender' = [sender EXCEPT ![n] = [state |-> "parked", by |-> w]]
              \/ sender' = [sender EXCEPT ![n] = Over("done")]
          BY Zenon, <4>2 DEF Park
        <5>2. [state |-> "parked", by |-> w].state = "parked" /\ Over("done").state = "done"
          BY Zenon DEF Over
        <5> QED BY <5>1, <5>2
      <4> QED BY Zenon, <2>4, <4>1, <4>2
    <3> QED BY Zenon, <1>1, <3>1 DEF IInv, HubTypeOK
  <2>5. ASSUME NEW w \in Workers, Detach(w) PROVE FALSE
    BY Zenon, <2>3, <2>5 DEF Detach, Teardown
  <2>6. ASSUME TickEnd PROVE FALSE
    BY Zenon, <2>3, <2>6 DEF TickEnd
  <2>7. UNCHANGED sender => FALSE
    BY Zenon
  <2>8. ASSUME NEW w \in Workers, Sends(w) PROVE FALSE
    BY Zenon, <2>4, <2>8 DEF Sends
  <2>9. ASSUME NEW w \in Workers, Attach(w) \/ Leave(w) \/ Tick(w) \/ Drain(w) PROVE FALSE
    BY Zenon, <2>7, <2>9 DEF Attach, Leave, Tick, Drain, DrainPublish, DrainCount, DrainReply
  <2>10. ASSUME NEW w \in Workers, NEW q \in Queries, NEW hit, Count(w, q, hit) PROVE FALSE
    BY Zenon, <2>7, <2>10 DEF Count
  <2>11. ASSUME NEW q \in Queries, CountReturns(q) PROVE FALSE
    BY Zenon, <2>7, <2>11 DEF CountReturns
  <2>12. ASSUME NEW n \in Messages, Deadline(n) PROVE FALSE
    BY Zenon, <2>7, <2>12 DEF Deadline
  <2>13. ASSUME TickEntry PROVE FALSE
    BY Zenon, <2>7, <2>13 DEF TickEntry
  <2> QED BY Zenon, <1>1, <2>1, <2>2, <2>5, <2>6, <2>8, <2>9, <2>10, <2>11, <2>12, <2>13 DEF Next
<1>2. IInv /\ [Next]_vars => [Ok]_vars
  BY Zenon, <1>1
<1>3. Spec => [][Ok]_vars
  BY <1>2, IInvHolds, PTL DEF Spec
<1> QED BY Zenon, <1>3 DEF NoFalseTimeout

-----------------------------------------------------------------------------
\* An entry waits in one place: once in a queue, or among the resolved ones of a tick.
QueuedOnce ==
  /\ \A w, v \in Workers : \A i \in DOMAIN queue[w], j \in DOMAIN queue[v] :
        queue[w][i] = queue[v][j] => w = v /\ i = j
  /\ ~Admin => \A m \in walk.resolved : ~Queued(m)

\* What is held of a message: its payload, and the entry of a send.
MsgHeld(m) ==
  /\ refs[m] = AllCopies("publish", m) + Bit(Owned(m))
  /\ entry[m].refcount = Bit(Owned(m)) + Bit(sender[m].state \in {"parked", "woken"})
  /\ sender[m].state = "idle" => refs[m] = 0

\* What is held of a query: its asker waits for at least the commands under way.
Asks(r, n) ==
  /\ r.refcount = n + Bit(r.state \in {"asking", "woken"})
  /\ r.state = "idle" => r.refcount = 0
  /\ ~r.abandoned => /\ r.state = "returned" => r.refcount = 0
                     /\ r.state = "woken" => r.pending = 0
                     /\ n <= r.pending
AskHeld(q) == Asks(query[q], AllCopies("count", q) + AllCopies("reply", q))

\* The counters of retry statistics, and their types.
Counters == [queued : Int, delivered : Int, expired : Int, gone : Int, shutdown : Int]
CountsTyped == refs \in [Messages -> Int] /\ stats \in Counters
\* Every message and every query is held by exactly what refers to it.
Held == (\A m \in Messages : MsgHeld(m)) /\ (\A q \in Queries : AskHeld(q))

\* The second inductive invariant: every count of the hub is exact.
Counted == CountsTyped /\ QueuedOnce /\ Held /\ RetryAccounting

-----------------------------------------------------------------------------
\* A place of a mailbox that holds a command of kind k for x.
Mailboxes == [Workers -> Seq(Commands)]
CopyAt(B, k, x, w, i) ==
  w \in Workers /\ i \in 1 .. Len(B[w]) /\ B[w][i].kind = k /\ B[w][i].of = x

\* The copies of a command, by mailbox and place, are finitely many.
LEMMA CopiesOf ==
  ASSUME HubAssumption, NEW B \in Mailboxes, NEW k, NEW x
  PROVE  /\ \A w, i : <<w, i>> \in Copies(B, k, x) <=> CopyAt(B, k, x, w, i)
         /\ \A p \in Copies(B, k, x) : \E w, i : p = <<w, i>> /\ CopyAt(B, k, x, w, i)
         /\ IsFiniteSet(Copies(B, k, x)) /\ Cardinality(Copies(B, k, x)) \in Nat
<1> DEFINE Places == {{w} \X DOMAIN B[w] : w \in Workers}
           f == [w \in Workers |-> {w} \X DOMAIN B[w]]
<1>1. \A w \in Workers : B[w] \in Seq(Commands) /\ DOMAIN B[w] = 1 .. Len(B[w]) /\ Len(B[w]) \in Nat
  BY DEF Mailboxes
<1>2. f \in Surjection(Workers, Places)
  BY Zenon DEF Surjection
<1>3. IsFiniteSet(Workers)
  BY Zenon DEF HubAssumption
<1>4. \A P \in Places : IsFiniteSet(P)
  <2> TAKE P \in Places
  <2>1. PICK w \in Workers : P = {w} \X DOMAIN B[w]
    BY Zenon
  <2>2. IsFiniteSet({w}) /\ IsFiniteSet(DOMAIN B[w])
    <3>1. IsFiniteSet({w})
      BY Zenon, FS_Singleton
    <3>2. IsFiniteSet(1 .. Len(B[w]))
      BY <1>1, FS_Interval
    <3> QED BY Zenon, <1>1, <3>1, <3>2
  <2> QED BY Zenon, <2>1, <2>2, FS_Product
<1> HIDE DEF f
<1>5. IsFiniteSet(Places)
  BY Zenon, <1>2, <1>3, FS_Surjection
<1>6. IsFiniteSet(UNION Places)
  BY Zenon, <1>4, <1>5, FS_UNION
<1>7. Copies(B, k, x) \in SUBSET UNION Places
  BY Zenon DEF Copies
<1>8. IsFiniteSet(Copies(B, k, x)) /\ Cardinality(Copies(B, k, x)) \in Nat
  BY Zenon, <1>6, <1>7, FS_Subset, FS_CardinalityType
<1>9. ASSUME NEW w, NEW i
      PROVE  <<w, i>> \in UNION Places <=> w \in Workers /\ i \in DOMAIN B[w]
  OBVIOUS
<1>10. \A w, i : <<w, i>> \in Copies(B, k, x) <=> CopyAt(B, k, x, w, i)
  BY Zenon, <1>1, <1>9 DEF Copies, CopyAt
<1>11. ASSUME NEW p \in Copies(B, k, x) PROVE \E w, i : p = <<w, i>>
  <2>1. PICK w \in Workers : p \in {w} \X DOMAIN B[w]
    BY Zenon DEF Copies
  <2> QED BY <2>1
<1> QED BY Zenon, <1>8, <1>10, <1>11

\* Two finite sets, the one carried onto the other.
LEMMA SameSize ==
  ASSUME NEW S, NEW T, NEW f \in [S -> T], IsFiniteSet(S),
         \A p, q \in S : f[p] = f[q] => p = q, \A q \in T : \E p \in S : f[p] = q
  PROVE  Cardinality(T) = Cardinality(S) /\ IsFiniteSet(T)
<1>1. f \in Injection(S, T)
  BY Zenon DEF Injection, IsInjective
<1>2. f \in Surjection(S, T)
  BY Zenon DEF Surjection
<1>3. ExistsBijection(S, T)
  BY Zenon, <1>1, <1>2 DEF Bijection, ExistsBijection
<1> QED BY Zenon, <1>3, FS_Bijection

\* Two sets that have nothing in common.
LEMMA Apart ==
  ASSUME NEW S, NEW T, IsFiniteSet(S), IsFiniteSet(T), \A x \in S : x \notin T
  PROVE  /\ IsFiniteSet(S \union T) /\ Cardinality(S \union T) = Cardinality(S) + Cardinality(T)
         /\ Cardinality(S) \in Nat /\ Cardinality(T) \in Nat
<1>1. S \intersect T = {}
  BY Zenon
<1>2. Cardinality(S) \in Nat /\ Cardinality(T) \in Nat /\ Cardinality({}) = 0
  BY Zenon, FS_CardinalityType, FS_EmptySet
<1>3. /\ IsFiniteSet(S \union T)
      /\ Cardinality(S \union T) = Cardinality(S) + Cardinality(T) - Cardinality(S \intersect T)
  BY Zenon, FS_Union
<1>4. PICK a \in Nat, b \in Nat : a = Cardinality(S) /\ b = Cardinality(T)
  BY Zenon, <1>2
<1>5. Cardinality(S \union T) = a + b - 0
  BY Zenon, <1>1, <1>2, <1>3, <1>4
<1>6. a + b - 0 = a + b
  OBVIOUS
<1> QED BY Zenon, <1>2, <1>3, <1>4, <1>5, <1>6

\* A command is gone.
Removed(B, C, h) ==
  \A k, x : Cardinality(Copies(C, k, x)) =
              Cardinality(Copies(B, k, x)) - IF k = h.kind /\ x = h.of THEN 1 ELSE 0

\* A mailbox that loses its first command.
LEMMA CopiesPop ==
  ASSUME HubAssumption, NEW B \in Mailboxes, NEW w \in Workers, B[w] # <<>>,
         NEW C, C = [B EXCEPT ![w] = Tail(B[w])]
  PROVE  Removed(B, C, Head(B[w]))
<1> SUFFICES ASSUME NEW k, NEW x
             PROVE  Cardinality(Copies(C, k, x)) =
                      Cardinality(Copies(B, k, x))
                        - IF k = Head(B[w]).kind /\ x = Head(B[w]).of THEN 1 ELSE 0
  BY Zenon DEF Removed
<1> DEFINE S == Copies(C, k, x)
           T == Copies(B, k, x) \ {<<w, 1>>}
           f == [p \in S |-> IF p[1] = w THEN <<w, p[2] + 1>> ELSE p]
<1>1. PICK b \in Seq(Commands) : b = B[w] /\ b # <<>>
  BY Zenon DEF Mailboxes
<1>2. PICK d \in Seq(Commands) : d = Tail(b)
  BY Zenon, <1>1, HeadTailProperties
<1>3. /\ Len(b) \in Nat /\ Len(b) > 0 /\ Len(d) = Len(b) - 1 /\ Head(b) = b[1]
      /\ \A i \in 1 .. Len(b) - 1 : d[i] = b[i + 1]
  BY <1>1, <1>2
<1>4. C \in Mailboxes /\ C[w] = d /\ \A v \in Workers : v # w => C[v] = B[v]
  BY Zenon, <1>1, <1>2 DEF Mailboxes
<1>5. /\ \A i : CopyAt(C, k, x, w, i) <=> i \in 1 .. Len(b) - 1 /\ CopyAt(B, k, x, w, i + 1)
      /\ \A v, i : v # w => (CopyAt(C, k, x, v, i) <=> CopyAt(B, k, x, v, i))
  <2>1. ASSUME NEW i
        PROVE  CopyAt(C, k, x, w, i) <=> i \in 1 .. Len(b) - 1 /\ CopyAt(B, k, x, w, i + 1)
    <3>1. CopyAt(C, k, x, w, i) <=> i \in 1 .. Len(b) - 1 /\ d[i].kind = k /\ d[i].of = x
      BY Zenon, <1>3, <1>4 DEF CopyAt
    <3>2. CASE i \in 1 .. Len(b) - 1
      <4>1. i + 1 \in 1 .. Len(b) /\ d[i] = b[i + 1]
        BY <1>3, <3>2
      <4> QED BY Zenon, <1>1, <3>1, <3>2, <4>1 DEF CopyAt
    <3> QED BY Zenon, <3>1, <3>2
  <2>2. \A v, i : v # w => (CopyAt(C, k, x, v, i) <=> CopyAt(B, k, x, v, i))
    BY Zenon, <1>4 DEF CopyAt
  <2> QED BY Zenon, <2>1, <2>2
<1>6. /\ \A v, i : <<v, i>> \in S <=> CopyAt(C, k, x, v, i)
      /\ \A p \in S : \E v, i : p = <<v, i>> /\ CopyAt(C, k, x, v, i)
      /\ \A v, i : <<v, i>> \in Copies(B, k, x) <=> CopyAt(B, k, x, v, i)
      /\ \A p \in Copies(B, k, x) : \E v, i : p = <<v, i>> /\ CopyAt(B, k, x, v, i)
      /\ IsFiniteSet(S) /\ IsFiniteSet(Copies(B, k, x)) /\ Cardinality(Copies(B, k, x)) \in Nat
  BY Zenon, <1>4, CopiesOf
<1> HIDE DEF S
<1>7. \A v, i : <<v, i>> \in S => f[<<v, i>>] = IF v = w THEN <<w, i + 1>> ELSE <<v, i>>
  BY Zenon
<1> HIDE DEF f
<1>8. ASSUME NEW p \in S PROVE f[p] \in T
  <2>1. PICK v, i : p = <<v, i>> /\ CopyAt(C, k, x, v, i)
    BY Zenon, <1>6
  <2>2. CASE v = w
    <3>1. i \in 1 .. Len(b) - 1 /\ CopyAt(B, k, x, w, i + 1)
      BY Zenon, <1>5, <2>1, <2>2
    <3>2. i + 1 # 1
      BY <1>3, <3>1
    <3>3. <<w, i + 1>> \in Copies(B, k, x) /\ <<w, i + 1>> # <<w, 1>> /\ f[p] = <<w, i + 1>>
      BY Zenon, <1>6, <1>7, <2>1, <2>2, <3>1, <3>2
    <3> QED BY Zenon, <3>3
  <2>3. CASE v # w
    <3>1. <<v, i>> \in Copies(B, k, x) /\ <<v, i>> # <<w, 1>> /\ f[p] = <<v, i>>
      BY Zenon, <1>5, <1>6, <1>7, <2>1, <2>3
    <3> QED BY Zenon, <3>1
  <2> QED BY Zenon, <2>2, <2>3
<1>9. ASSUME NEW p \in S, NEW q \in S, f[p] = f[q] PROVE p = q
  <2>1. PICK v, i : p = <<v, i>> /\ CopyAt(C, k, x, v, i)
    BY Zenon, <1>6
  <2>2. PICK u, j : q = <<u, j>> /\ CopyAt(C, k, x, u, j)
    BY Zenon, <1>6
  <2>3. /\ f[p] = IF v = w THEN <<w, i + 1>> ELSE <<v, i>>
        /\ f[q] = IF u = w THEN <<w, j + 1>> ELSE <<u, j>>
    BY Zenon, <1>7, <2>1, <2>2
  <2>4. u = v
    <3>1. \A a, c, g, e : <<a, c>> = <<g, e>> => a = g
      BY Zenon
    <3> QED BY Zenon, <1>9, <2>3, <3>1
  <2>5. CASE v = w
    <3>1. i \in Nat /\ j \in Nat
      BY <1>3, <1>5, <2>1, <2>2, <2>4, <2>5
    <3>2. <<w, i + 1>> = <<w, j + 1>>
      BY Zenon, <1>9, <2>3, <2>4, <2>5
    <3>3. i = j
      BY <3>1, <3>2
    <3> QED BY Zenon, <2>1, <2>2, <2>4, <3>3
  <2>6. CASE v # w
    BY Zenon, <1>9, <2>1, <2>2, <2>3, <2>4, <2>6
  <2> QED BY Zenon, <2>5, <2>6
<1>10. ASSUME NEW q \in T PROVE \E p \in S : f[p] = q
  <2>1. PICK v, i : q = <<v, i>> /\ CopyAt(B, k, x, v, i) /\ q # <<w, 1>>
    BY <1>6
  <2>2. CASE v = w
    <3>1. i \in 1 .. Len(b) /\ i # 1
      BY Zenon, <1>1, <2>1, <2>2 DEF CopyAt
    <3>2. i - 1 \in 1 .. Len(b) - 1 /\ (i - 1) + 1 = i
      BY <1>3, <3>1
    <3>3. <<w, i - 1>> \in S
      BY Zenon, <1>5, <1>6, <2>1, <2>2, <3>2
    <3> QED BY Zenon, <1>7, <2>1, <2>2, <3>2, <3>3
  <2>3. CASE v # w
    BY Zenon, <1>5, <1>6, <1>7, <2>1, <2>3
  <2> QED BY Zenon, <2>2, <2>3
<1>11. f \in [S -> T]
  BY Zenon, <1>8 DEF f
<1> HIDE DEF T
<1>13. Cardinality(T) = Cardinality(S)
  BY Zenon, <1>6, <1>9, <1>10, <1>11, SameSize
<1>14. Cardinality(T) = IF <<w, 1>> \in Copies(B, k, x)
                        THEN Cardinality(Copies(B, k, x)) - 1 ELSE Cardinality(Copies(B, k, x))
  BY Zenon, <1>6, FS_RemoveElement DEF T
<1>15. <<w, 1>> \in Copies(B, k, x) <=> Head(b).kind = k /\ Head(b).of = x
  BY <1>1, <1>3, <1>6 DEF CopyAt
<1> QED BY <1>1, <1>6, <1>13, <1>14, <1>15 DEF S

\* n copies of one command are new.
Added(B, C, kind, of, n) ==
  \A k, x : Cardinality(Copies(C, k, x)) =
              Cardinality(Copies(B, k, x)) + IF k = kind /\ x = of THEN n ELSE 0

\* Mailboxes that each get one command about `of`.
LEMMA CopiesPush ==
  ASSUME HubAssumption, NEW B \in Mailboxes, NEW C \in Mailboxes, NEW W \in SUBSET Workers,
         NEW kind, NEW of,
         \A v \in W : \E c \in Commands : c.kind = kind /\ c.of = of /\ C[v] = Append(B[v], c),
         \A v \in Workers : v \notin W => C[v] = B[v]
  PROVE  Added(B, C, kind, of, Cardinality(W))
<1> SUFFICES ASSUME NEW k, NEW x
             PROVE  Cardinality(Copies(C, k, x)) =
                      Cardinality(Copies(B, k, x))
                        + IF k = kind /\ x = of THEN Cardinality(W) ELSE 0
  BY Zenon DEF Added
<1> DEFINE N == {<<v, Len(B[v]) + 1>> : v \in W}
           f == [v \in W |-> <<v, Len(B[v]) + 1>>]
<1>1. \A v \in Workers : B[v] \in Seq(Commands) /\ Len(B[v]) \in Nat
  BY DEF Mailboxes
<1>2. ASSUME NEW v \in W, NEW i
      PROVE  CopyAt(C, k, x, v, i) <=>
               CopyAt(B, k, x, v, i) \/ (i = Len(B[v]) + 1 /\ k = kind /\ x = of)
  <2>1. PICK c \in Commands : c.kind = kind /\ c.of = of /\ C[v] = Append(B[v], c)
    BY Zenon
  <2>2. PICK b \in Seq(Commands) : b = B[v]
    BY Zenon, <1>1
  <2>3. /\ Len(Append(b, c)) = Len(b) + 1 /\ Append(b, c)[Len(b) + 1] = c
        /\ \A j \in 1 .. Len(b) : Append(b, c)[j] = b[j]
    OBVIOUS
  <2>4. PICK a : a = Append(b, c)
    BY Zenon
  <2>5. i \in 1 .. Len(b) + 1 <=> i \in 1 .. Len(b) \/ i = Len(b) + 1
    BY <1>1, <2>2
  <2>6. i \in 1 .. Len(b) => i # Len(b) + 1
    BY <1>1, <2>2
  <2> QED BY Zenon, <2>1, <2>2, <2>3, <2>4, <2>5, <2>6 DEF CopyAt
<1>3. ASSUME NEW v, v \notin W, NEW i PROVE CopyAt(C, k, x, v, i) <=> CopyAt(B, k, x, v, i)
  BY Zenon, <1>3 DEF CopyAt
<1>4. ASSUME NEW D \in Mailboxes
      PROVE  /\ \A v, i : <<v, i>> \in Copies(D, k, x) <=> CopyAt(D, k, x, v, i)
             /\ \A p \in Copies(D, k, x) : \E v, i : p = <<v, i>> /\ CopyAt(D, k, x, v, i)
             /\ IsFiniteSet(Copies(D, k, x)) /\ Cardinality(Copies(D, k, x)) \in Nat
  BY Zenon, CopiesOf
<1>5. CASE ~(k = kind /\ x = of)
  <2>1. \A v, i : CopyAt(C, k, x, v, i) <=> CopyAt(B, k, x, v, i)
    BY Zenon, <1>2, <1>3, <1>5
  <2>2. /\ \A p \in Copies(B, k, x) : p \in Copies(C, k, x)
        /\ \A p \in Copies(C, k, x) : p \in Copies(B, k, x)
    <3>1. ASSUME NEW D \in Mailboxes, NEW E \in Mailboxes, NEW p \in Copies(D, k, x),
                 \A v, i : CopyAt(D, k, x, v, i) => CopyAt(E, k, x, v, i)
          PROVE  p \in Copies(E, k, x)
      <4>1. PICK v, i : p = <<v, i>> /\ CopyAt(D, k, x, v, i)
        BY Zenon, <1>4
      <4> QED BY Zenon, <1>4, <3>1, <4>1
    <3> QED BY Zenon, <2>1, <3>1
  <2>3. Copies(C, k, x) = Copies(B, k, x)
    BY Zenon, <2>2
  <2> QED BY <1>4, <1>5, <2>3
<1>6. CASE k = kind /\ x = of
  <2>1. Copies(C, k, x) = Copies(B, k, x) \union N
    <3>1. ASSUME NEW p \in Copies(C, k, x) PROVE p \in Copies(B, k, x) \union N
      <4>1. PICK v, i : p = <<v, i>> /\ CopyAt(C, k, x, v, i)
        BY Zenon, <1>4
      <4>2. CASE v \in W /\ ~CopyAt(B, k, x, v, i)
        BY Zenon, <1>2, <4>1, <4>2
      <4>3. CASE CopyAt(B, k, x, v, i)
        BY Zenon, <1>4, <4>1, <4>3
      <4> QED BY Zenon, <1>3, <4>1, <4>2, <4>3
    <3>2. ASSUME NEW p \in Copies(B, k, x) PROVE p \in Copies(C, k, x)
      <4>1. PICK v, i : p = <<v, i>> /\ CopyAt(B, k, x, v, i)
        BY Zenon, <1>4
      <4> QED BY Zenon, <1>2, <1>3, <1>4, <4>1
    <3>3. ASSUME NEW p \in N PROVE p \in Copies(C, k, x)
      <4>1. PICK v \in W : p = <<v, Len(B[v]) + 1>>
        BY Zenon
      <4> QED BY Zenon, <1>2, <1>4, <1>6, <4>1
    <3> QED BY Zenon, <3>1, <3>2, <3>3
  <2>2. ASSUME NEW p \in Copies(B, k, x) PROVE p \notin N
    <3>1. PICK v, i : p = <<v, i>> /\ CopyAt(B, k, x, v, i)
      BY Zenon, <1>4
    <3>2. i # Len(B[v]) + 1
      BY <1>1, <3>1 DEF CopyAt
    <3> QED BY Zenon, <3>1, <3>2
  <2>3. IsFiniteSet(W)
    BY Zenon, FS_Subset DEF HubAssumption
  <2>4. f \in [W -> N] /\ (\A u, v \in W : f[u] = f[v] => u = v) /\ \A p \in N : \E v \in W : f[v] = p
    BY Zenon
  <2> HIDE DEF f, N
  <2>5. Cardinality(N) = Cardinality(W) /\ IsFiniteSet(N)
    BY Zenon, <2>3, <2>4, SameSize
  <2>6. Cardinality(Copies(B, k, x) \union N) = Cardinality(Copies(B, k, x)) + Cardinality(N)
    BY Zenon, <1>4, <2>2, <2>5, Apart
  <2> QED BY Zenon, <1>6, <2>1, <2>5, <2>6
<1> QED BY Zenon, <1>5, <1>6

\* A post puts one copy into the mailbox of every target.
LEMMA PostCounts ==
  ASSUME HubAssumption, HubTypeOK, Published, HubTypeOK',
         NEW T \in SUBSET Targets, IsFiniteSet(T), NEW kind \in {"publish", "count"},
         NEW of \in Messages \union Queries, PostTo(T, kind, of),
         \A t \in T : gen[t.slot] = t.gen /\ inbox[t.slot] # None
  PROVE  Added(box, box', kind, of, Cardinality(T))
<1> DEFINE W == {w \in Workers : \E t \in T : inbox[t.slot] = w}
           f == [t \in T |-> inbox[t.slot]]
<1>1. ASSUME NEW t \in T PROVE inbox[t.slot] \in Workers /\ local[inbox[t.slot]] = t
  <2>1. t.slot \in Slots /\ t = [slot |-> t.slot, gen |-> t.gen]
    BY Zenon DEF Targets
  <2> QED BY <2>1 DEF HubTypeOK, Published, Target
<1>2. /\ f \in [T -> W] /\ \A w \in W : \E t \in T : f[t] = w
      /\ \A t, u \in T : f[t] = f[u] => t = u
  BY Zenon, <1>1
<1> HIDE DEF f
<1>3. Cardinality(W) = Cardinality(T)
  BY Zenon, <1>2, SameSize
<1>4. ASSUME NEW w \in W
      PROVE  \E c \in Commands : c.kind = kind /\ c.of = of /\ box'[w] = Append(box[w], c)
  <2>1. PICK t \in T : t = CHOOSE u \in T : inbox[u.slot] = w
    BY Zenon
  <2>2. box'[w] = Append(box[w], [kind |-> kind, of |-> of, to |-> t])
    BY Zenon, <2>1 DEF PostTo
  <2>3. [kind |-> kind, of |-> of, to |-> t] \in Commands
    BY Zenon DEF Commands
  <2> QED BY Zenon, <2>2, <2>3
<1>5. \A w \in Workers : w \notin W => box'[w] = box[w]
  BY Zenon DEF PostTo
<1>6. box \in Mailboxes /\ box' \in Mailboxes /\ W \in SUBSET Workers
  BY Zenon DEF HubTypeOK, Mailboxes
<1> HIDE DEF W
<1> QED BY Zenon, <1>3, <1>4, <1>5, <1>6, CopiesPush

\* The targets in some slots are as many as the slots.
LEMMA TargetsCount ==
  ASSUME HubTypeOK, NEW S \in SUBSET Slots, IsFiniteSet(S)
  PROVE  LET T == {Target(s) : s \in S} IN IsFiniteSet(T) /\ Cardinality(T) = Cardinality(S)
<1> DEFINE T == {Target(s) : s \in S}
           f == [s \in S |-> Target(s)]
<1>1. \A s, r : Target(s) = Target(r) => s = r
  BY Zenon DEF Target
<1>2. /\ f \in [S -> T] /\ \A t \in T : \E s \in S : f[s] = t
      /\ \A s, r \in S : f[s] = f[r] => s = r
  BY Zenon, <1>1
<1> HIDE DEF f, T
<1>3. Cardinality(T) = Cardinality(S) /\ IsFiniteSet(T)
  BY Zenon, <1>2, SameSize
<1> QED BY Zenon, <1>3 DEF T

\* The attachments that hold the slots of a fan-out are as many as the slots.
LEMMA FanCounts ==
  ASSUME HubAssumption, HubTypeOK, Published, HubTypeOK',
         NEW S \in SUBSET Slots, NEW kind \in {"publish", "count"},
         NEW of \in Messages \union Queries, Post(S, kind, of), \A s \in S : inbox[s] # None
  PROVE  Cardinality(S) \in Nat /\ Added(box, box', kind, of, Cardinality(S))
<1> DEFINE T == {Target(s) : s \in S}
<1>1. T \in SUBSET Targets /\ \A t \in T : gen[t.slot] = t.gen /\ inbox[t.slot] # None
  BY DEF Target, Targets, HubTypeOK
<1>2. IsFiniteSet(S) /\ Cardinality(S) \in Nat
  BY Zenon, FS_Subset, FS_CardinalityType DEF HubAssumption
<1>3. IsFiniteSet(T) /\ Cardinality(T) = Cardinality(S)
  BY Zenon, <1>2, TargetsCount
<1>4. PostTo(T, kind, of)
  BY Zenon DEF Post
<1> HIDE DEF T
<1> QED BY ZenonT(30), <1>1, <1>2, <1>3, <1>4, PostCounts

-----------------------------------------------------------------------------
\* The copies of a command are finitely many.
LEMMA CopiesNow ==
  ASSUME HubAssumption, HubTypeOK, NEW k, NEW x PROVE AllCopies(k, x) \in Nat
<1>1. box \in Mailboxes
  BY Zenon DEF HubTypeOK, Mailboxes
<1> QED BY Zenon, <1>1, CopiesOf DEF AllCopies

\* The same count after a step.
LEMMA CopiesNext ==
  ASSUME HubAssumption, HubTypeOK', NEW k, NEW x
  PROVE  AllCopies(k, x)' = Cardinality(Copies(box', k, x)) /\ AllCopies(k, x)' \in Nat
<1>1. box' \in Mailboxes
  BY Zenon DEF HubTypeOK, Mailboxes
<1>2. AllCopies(k, x)' = Cardinality(Copies(box', k, x))
  BY Zenon DEF AllCopies, Copies
<1> QED BY Zenon, <1>1, <1>2, CopiesOf

\* A message none of whose holders moved is held as before.
LEMMA MsgSame ==
  ASSUME NEW m \in Messages, MsgHeld(m), refs'[m] = refs[m], Owned(m)' = Owned(m),
         AllCopies("publish", m)' = AllCopies("publish", m),
         entry'[m].refcount = entry[m].refcount, sender'[m] = sender[m]
  PROVE  MsgHeld(m)'
BY Zenon DEF MsgHeld, Bit

\* A query none of whose holders moved is held as before.
LEMMA AskSame ==
  ASSUME NEW q \in Queries, AskHeld(q), query'[q] = query[q],
         AllCopies("count", q)' = AllCopies("count", q),
         AllCopies("reply", q)' = AllCopies("reply", q)
  PROVE  AskHeld(q)'
BY Zenon DEF AskHeld, Asks, Bit

\* Queues left alone own the same messages.
LEMMA OwnersSame ==
  ASSUME UNCHANGED <<queue, walk>>
  PROVE  (QueuedOnce => QueuedOnce') /\ \A m : Queued(m)' = Queued(m) /\ Owned(m)' = Owned(m)
<1>1. \A m : Queued(m)' = Queued(m) /\ Owned(m)' = Owned(m)
  BY Zenon DEF Queued, Owned, Admin
<1> QED BY <1>1 DEF QueuedOnce, Admin

-----------------------------------------------------------------------------
\* The targets that entries E of the messages in S wait for, one by one.
PendingIn(E, S) == UNION {{m} \X E[m].pending : m \in S}
Waiting == {m \in Messages : Queued(m)}
Walked == IF Admin THEN 0 ELSE walk.delivered + walk.gone + walk.expired
Charged(s) == s.delivered + s.expired + s.gone + s.shutdown

\* The pending targets of finitely many entries are finitely many.
LEMMA PendingCounts ==
  ASSUME NEW E \in [Messages -> Entries], NEW S \in SUBSET Messages, IsFiniteSet(S)
  PROVE  IsFiniteSet(PendingIn(E, S)) /\ Cardinality(PendingIn(E, S)) \in Nat
<1> DEFINE P == {{m} \X E[m].pending : m \in S}
           f == [m \in S |-> {m} \X E[m].pending]
<1>1. f \in Surjection(S, P)
  BY Zenon DEF Surjection
<1> HIDE DEF f
<1>2. IsFiniteSet(P)
  BY Zenon, <1>1, FS_Surjection
<1>3. \A T \in P : IsFiniteSet(T)
  <2> TAKE T \in P
  <2>1. PICK m \in S : T = {m} \X E[m].pending
    BY Zenon
  <2>2. IsFiniteSet({m}) /\ IsFiniteSet(E[m].pending)
    BY Zenon, FS_Singleton DEF Entries, Parked
  <2> QED BY Zenon, <2>1, <2>2, FS_Product
<1>4. IsFiniteSet(UNION P)
  BY Zenon, <1>2, <1>3, FS_UNION
<1> QED BY Zenon, <1>4, FS_CardinalityType DEF PendingIn

\* One entry waits for each of its targets.
LEMMA PendingOne ==
  ASSUME NEW E \in [Messages -> Entries], NEW m \in Messages
  PROVE  /\ Cardinality(PendingIn(E, {m})) = Cardinality(E[m].pending)
         /\ Cardinality(E[m].pending) \in Nat /\ IsFiniteSet(E[m].pending)
<1> DEFINE P == E[m].pending
           f == [t \in P |-> <<m, t>>]
<1>1. IsFiniteSet(P) /\ Cardinality(P) \in Nat
  BY Zenon, FS_CardinalityType DEF Entries, Parked
<1>2. PendingIn(E, {m}) = {m} \X P
  BY Zenon DEF PendingIn
<1> HIDE DEF P
<1>3. /\ f \in [P -> {m} \X P] /\ \A p \in {m} \X P : \E t \in P : f[t] = p
      /\ \A t, u \in P : f[t] = f[u] => t = u
  OBVIOUS
<1> HIDE DEF f
<1>4. Cardinality({m} \X P) = Cardinality(P)
  BY Zenon, <1>1, <1>3, SameSize
<1> QED BY Zenon, <1>1, <1>2, <1>4 DEF P

\* Different entries wait for different things.
LEMMA PendingApart ==
  ASSUME NEW E \in [Messages -> Entries], NEW S \in SUBSET Messages, NEW R \in SUBSET Messages,
         IsFiniteSet(S), IsFiniteSet(R), \A m \in S : m \notin R
  PROVE  Cardinality(PendingIn(E, S \union R)) =
           Cardinality(PendingIn(E, S)) + Cardinality(PendingIn(E, R))
<1>1. PendingIn(E, S \union R) = PendingIn(E, S) \union PendingIn(E, R)
  BY Zenon DEF PendingIn
<1>2. ASSUME NEW p \in PendingIn(E, S) PROVE p \notin PendingIn(E, R)
  <2>1. PICK m \in S : p \in {m} \X E[m].pending
    BY Zenon DEF PendingIn
  <2>2. ASSUME NEW n \in R, p \in {n} \X E[n].pending PROVE FALSE
    BY Zenon, <2>1, <2>2
  <2> QED BY Zenon, <2>2 DEF PendingIn
<1> QED BY Zenon, <1>1, <1>2, PendingCounts, Apart

\* Only the targets matter.
LEMMA PendingSame ==
  ASSUME NEW E, NEW F, NEW S, \A m \in S : E[m].pending = F[m].pending
  PROVE  PendingIn(E, S) = PendingIn(F, S)
BY Zenon DEF PendingIn

\* Finitely many messages wait in the queues.
LEMMA WaitingFinite ==
  ASSUME HubAssumption, HubTypeOK PROVE Waiting \in SUBSET Messages /\ IsFiniteSet(Waiting)
<1> DEFINE P == {Range(queue[w]) : w \in Workers}
           f == [w \in Workers |-> Range(queue[w])]
<1>1. f \in Surjection(Workers, P)
  BY Zenon DEF Surjection
<1>2. IsFiniteSet(Workers)
  BY Zenon DEF HubAssumption
<1> HIDE DEF f
<1>3. IsFiniteSet(P)
  BY Zenon, <1>1, <1>2, FS_Surjection
<1>4. ASSUME NEW w \in Workers PROVE IsFiniteSet(Range(queue[w]))
  <2>1. PICK s \in Seq(Messages) : s = queue[w]
    BY Zenon DEF HubTypeOK
  <2>2. DOMAIN s = 1 .. Len(s) /\ Len(s) \in Int
    OBVIOUS
  <2>3. IsFiniteSet(DOMAIN s)
    BY <2>2, FS_Interval
  <2> DEFINE g == [i \in DOMAIN s |-> s[i]]
  <2>4. g \in Surjection(DOMAIN s, Range(s))
    BY Zenon DEF Surjection, Range
  <2> HIDE DEF g
  <2> QED BY Zenon, <2>1, <2>3, <2>4, FS_Surjection
<1>5. IsFiniteSet(UNION P)
  BY Zenon, <1>3, <1>4, FS_UNION
<1>6. Waiting \in SUBSET UNION P
  BY Zenon DEF Waiting, Queued
<1> QED BY Zenon, <1>5, <1>6, FS_Subset DEF Waiting

\* The balance of the retry counters, now and after a step.
Balanced(s, walked, E, S) == s.queued = Charged(s) + walked + Cardinality(PendingIn(E, S))

\* The retry statistics balance.
LEMMA Accounts == RetryAccounting <=> Balanced(stats, Walked, entry, Waiting)
BY Zenon DEF RetryAccounting, Balanced, Charged, Walked, PendingOf, PendingIn, Waiting

\* They balance after the step.
LEMMA AccountsNext == RetryAccounting' <=> Balanced(stats', Walked', entry', Waiting')
BY Zenon DEF RetryAccounting, Balanced, Charged, Walked, PendingOf, PendingIn, Waiting

\* Steps away from queues, walk and statistics keep the balance.
LEMMA AccountsSame ==
  ASSUME UNCHANGED <<queue, walk, stats>>, RetryAccounting,
         \A m \in Messages : Queued(m) => entry'[m].pending = entry[m].pending
  PROVE  RetryAccounting'
<1>1. Waiting' = Waiting
  BY Zenon, OwnersSame DEF Waiting
<1>2. Walked' = Walked /\ stats' = stats
  BY Zenon DEF Walked, Admin
<1>3. PendingIn(entry', Waiting) = PendingIn(entry, Waiting)
  BY Zenon, PendingSame DEF Waiting
<1>4. Balanced(stats, Walked, entry, Waiting)
  BY Zenon, Accounts
<1>5. Balanced(stats', Walked', entry', Waiting')
  BY Zenon, <1>1, <1>2, <1>3, <1>4 DEF Balanced
<1> QED BY Zenon, <1>5, AccountsNext

\* A step that leaves every count alone.
LEMMA AllSame ==
  ASSUME UNCHANGED <<box, queue, walk, entry, sender, refs, query, stats>>, Counted
  PROVE  Counted'
<1>1. \A k, x : AllCopies(k, x)' = AllCopies(k, x)
  BY Zenon DEF AllCopies, Copies
<1>2. QueuedOnce' /\ \A m : Owned(m)' = Owned(m)
  BY Zenon, OwnersSame DEF Counted
<1>3. \A m \in Messages : MsgHeld(m)'
  BY Zenon, <1>1, <1>2, MsgSame DEF Counted, Held
<1>4. \A q \in Queries : AskHeld(q)'
  BY Zenon, <1>1, AskSame DEF Counted, Held
<1>5. RetryAccounting' /\ CountsTyped'
  BY Zenon, AccountsSame DEF Counted, CountsTyped
<1> QED BY Zenon, <1>2, <1>3, <1>4, <1>5 DEF Counted, Held

\* A step that adds n copies of one command, or takes one away.
MoreCopies(kind, of, n) ==
  /\ AllCopies(kind, of)' = AllCopies(kind, of) + n
  /\ \A k, x : k # kind \/ x # of => AllCopies(k, x)' = AllCopies(k, x)
OneLess(kind, of) ==
  /\ AllCopies(kind, of)' = AllCopies(kind, of) - 1
  /\ \A k, x : k # kind \/ x # of => AllCopies(k, x)' = AllCopies(k, x)

\* Posting to n mailboxes adds n copies of one command.
LEMMA AddedNext ==
  ASSUME HubAssumption, HubTypeOK, HubTypeOK', NEW kind, NEW of, NEW n \in Nat,
         Added(box, box', kind, of, n)
  PROVE  MoreCopies(kind, of, n)
<1>1. \A k, x : /\ AllCopies(k, x)' = Cardinality(Copies(box', k, x))
                /\ AllCopies(k, x) = Cardinality(Copies(box, k, x))
                /\ AllCopies(k, x) \in Nat
  BY Zenon, CopiesNow, CopiesNext DEF AllCopies
<1>2. AllCopies(kind, of)' = AllCopies(kind, of) + n
  BY Zenon, <1>1 DEF Added
<1>3. ASSUME NEW k, NEW x, k # kind \/ x # of PROVE AllCopies(k, x)' = AllCopies(k, x)
  <2>1. Cardinality(Copies(box', k, x)) = Cardinality(Copies(box, k, x)) + 0
    BY Zenon, <1>3 DEF Added
  <2>2. \A a \in Nat : a + 0 = a
    OBVIOUS
  <2> QED BY Zenon, <1>1, <2>1, <2>2
<1> QED BY Zenon, <1>2, <1>3 DEF MoreCopies

\* Taking the head of a mailbox removes one copy of it.
LEMMA PopNext ==
  ASSUME HubAssumption, HubTypeOK, HubTypeOK', NEW w \in Workers, box[w] # <<>>,
         box' = [box EXCEPT ![w] = Tail(box[w])],
         NEW kind, NEW of, Head(box[w]).kind = kind, Head(box[w]).of = of
  PROVE  OneLess(kind, of)
<1>1. \A k, x : /\ AllCopies(k, x)' = Cardinality(Copies(box', k, x))
                /\ AllCopies(k, x) = Cardinality(Copies(box, k, x))
                /\ AllCopies(k, x) \in Nat
  BY Zenon, CopiesNow, CopiesNext DEF AllCopies
<1>2. box \in Mailboxes
  BY Zenon DEF HubTypeOK, Mailboxes
<1>3. Removed(box, box', Head(box[w]))
  BY Zenon, <1>2, CopiesPop
<1>4. AllCopies(kind, of)' = AllCopies(kind, of) - 1
  BY Zenon, <1>1, <1>3 DEF Removed
<1>5. ASSUME NEW k, NEW x, k # kind \/ x # of PROVE AllCopies(k, x)' = AllCopies(k, x)
  <2>1. Cardinality(Copies(box', k, x)) = Cardinality(Copies(box, k, x)) - 0
    BY Zenon, <1>3, <1>5 DEF Removed
  <2>2. \A a \in Nat : a - 0 = a
    OBVIOUS
  <2> QED BY Zenon, <1>1, <2>1, <2>2
<1> QED BY Zenon, <1>4, <1>5 DEF OneLess

\* A step that only moves questions and answers keeps the messages' counts.
LEMMA MsgsSame ==
  ASSUME Counted, UNCHANGED <<queue, walk, entry, sender, refs, stats>>,
         \A m \in Messages : AllCopies("publish", m)' = AllCopies("publish", m),
         \A q \in Queries : AskHeld(q)'
  PROVE  Counted'
<1>1. QueuedOnce' /\ \A m : Owned(m)' = Owned(m)
  BY Zenon, OwnersSame DEF Counted
<1>2. \A m \in Messages : MsgHeld(m)'
  BY Zenon, <1>1, MsgSame DEF Counted, Held
<1>3. RetryAccounting' /\ CountsTyped'
  BY Zenon, AccountsSame DEF Counted, CountsTyped
<1> QED BY Zenon, <1>1, <1>2, <1>3 DEF Counted, Held

\* A step that moves no question or answer keeps the queries' counts.
LEMMA AsksSame ==
  ASSUME Counted, UNCHANGED query,
         \A q \in Queries : /\ AllCopies("count", q)' = AllCopies("count", q)
                            /\ AllCopies("reply", q)' = AllCopies("reply", q)
  PROVE  \A q \in Queries : AskHeld(q)'
BY Zenon, AskSame DEF Counted, Held

\* Nothing is held of a message nobody has sent.
LEMMA Unsent ==
  ASSUME HubAssumption, HubTypeOK, Counted, NEW m \in Messages, sender[m].state = "idle"
  PROVE  AllCopies("publish", m) = 0 /\ ~Owned(m) /\ entry[m].refcount = 0
<1>1. PICK a \in Nat : a = AllCopies("publish", m)
  BY Zenon, CopiesNow
<1>2. refs[m] = 0 /\ refs[m] = a + Bit(Owned(m))
      /\ entry[m].refcount = Bit(Owned(m)) + Bit(sender[m].state \in {"parked", "woken"})
  BY Zenon, <1>1 DEF Counted, Held, MsgHeld
<1>3. ~Owned(m) /\ a = 0
  BY <1>2 DEF Bit
<1>4. Bit(Owned(m)) = 0 /\ Bit(sender[m].state \in {"parked", "woken"}) = 0
  BY Zenon, <1>3 DEF Bit
<1> QED BY Zenon, <1>1, <1>2, <1>3, <1>4

\* A publication takes one reference for every mailbox that accepted it.
LEMMA PublishCounts ==
  ASSUME HubAssumption, IInv, IInv', Counted, NEW w \in Workers, NEW m \in Messages,
         NEW hit \in SUBSET Slots, NEW arms, Publish(w, m, hit) \/ SendAtOnce(w, m, hit, arms)
  PROVE  Counted'
<1> DEFINE landed == {s \in Addressed(w, hit) : Accepts(s)}
<1>1. landed \in SUBSET Slots /\ \A s \in landed : inbox[s] # None
  BY Zenon DEF Addressed
<1>2. /\ sender[m].state = "idle" /\ Post(landed, "publish", m)
      /\ refs' = [refs EXCEPT ![m] = Cardinality(landed)]
      /\ sender' = [sender EXCEPT ![m] = Over("done")]
      /\ UNCHANGED <<queue, walk, entry, query, stats>>
  BY Zenon DEF Publish, SendAtOnce, retries
<1>3. HubTypeOK /\ HubTypeOK' /\ Published
  BY Zenon DEF IInv
<1> HIDE DEF landed
<1>4. PICK n \in Nat : n = Cardinality(landed) /\ Added(box, box', "publish", m, n)
  BY Zenon, <1>1, <1>2, <1>3, FanCounts
<1>5. MoreCopies("publish", m, n)
  BY Zenon, <1>3, <1>4, AddedNext
<1>6. /\ refs' \in [Messages -> Int] /\ refs'[m] = n
      /\ \A x \in Messages : x # m => refs'[x] = refs[x]
  BY <1>2, <1>4 DEF Counted, CountsTyped
<1>7. sender'[m].state = "done" /\ \A x \in Messages : x # m => sender'[x] = sender[x]
  BY Zenon, <1>2, <1>3 DEF HubTypeOK, Over
<1>8. QueuedOnce' /\ \A x : Owned(x)' = Owned(x)
  BY Zenon, <1>2, OwnersSame DEF Counted
<1>9. AllCopies("publish", m) = 0 /\ ~Owned(m) /\ entry[m].refcount = 0
  BY Zenon, <1>2, <1>3, Unsent
<1>10. MsgHeld(m)'
  <2>1. AllCopies("publish", m)' = n
    BY <1>5, <1>9 DEF MoreCopies
  <2>2. ~Owned(m)' /\ entry'[m].refcount = 0 /\ sender'[m].state = "done" /\ refs'[m] = n
    BY Zenon, <1>2, <1>6, <1>7, <1>8, <1>9
  <2>3. /\ Bit(Owned(m)') = 0 /\ Bit(sender'[m].state \in {"parked", "woken"}) = 0
        /\ n = n + 0 /\ 0 = 0 + 0 /\ "done" # "idle"
    BY <2>2 DEF Bit
  <2> QED BY Zenon, <2>1, <2>2, <2>3 DEF MsgHeld
<1>11. ASSUME NEW x \in Messages, x # m PROVE MsgHeld(x)'
  <2>1. AllCopies("publish", x)' = AllCopies("publish", x)
    BY Zenon, <1>5, <1>11 DEF MoreCopies
  <2> QED BY Zenon, <1>2, <1>6, <1>7, <1>8, <1>11, <2>1, MsgSame DEF Counted, Held
<1>12. \A q \in Queries : AskHeld(q)'
  BY Zenon, <1>2, <1>5, AsksSame DEF MoreCopies
<1>13. RetryAccounting' /\ CountsTyped'
  BY Zenon, <1>2, <1>6, AccountsSame DEF Counted, CountsTyped
<1> QED BY Zenon, <1>8, <1>10, <1>11, <1>12, <1>13 DEF Counted, Held

\* A delivered command gives its reference back.
LEMMA DrainPublishCounts ==
  ASSUME HubAssumption, IInv, IInv', Counted, NEW w \in Workers, DrainPublish(w) PROVE Counted'
<1>1. PICK c : c = Head(box[w])
  BY Zenon
<1>2. /\ box[w] # <<>> /\ c.kind = "publish" /\ box' = [box EXCEPT ![w] = Tail(box[w])]
      /\ refs' = [refs EXCEPT ![c.of] = refs[c.of] - 1]
      /\ UNCHANGED <<queue, walk, entry, sender, query, stats>>
  BY Zenon, <1>1 DEF DrainPublish, Pops, retries
<1>3. HubTypeOK /\ HubTypeOK' /\ refs \in [Messages -> Int]
  BY Zenon DEF IInv, Counted, CountsTyped
<1>4. OneLess("publish", c.of)
  BY Zenon, <1>1, <1>2, <1>3, PopNext
<1>5. QueuedOnce' /\ \A x : Owned(x)' = Owned(x)
  BY Zenon, <1>2, OwnersSame DEF Counted
<1>6. ASSUME NEW m \in Messages PROVE MsgHeld(m)'
  <2>1. CASE m # c.of
    <3>1. refs'[m] = refs[m] /\ AllCopies("publish", m)' = AllCopies("publish", m)
      BY ZenonT(30), <1>2, <1>3, <1>4, <2>1 DEF OneLess
    <3> QED BY Zenon, <1>2, <1>5, <3>1, MsgSame DEF Counted, Held
  <2>2. CASE m = c.of
    <3>1. refs'[m] = refs[m] - 1 /\ refs[m] \in Int
      BY Zenon, <1>2, <1>3, <2>2
    <3>2. PICK a \in Nat : a = AllCopies("publish", m)
      BY Zenon, <1>3, CopiesNow
    <3>3. AllCopies("publish", m)' = a - 1 /\ a - 1 \in Nat
      BY Zenon, <1>3, <1>4, <2>2, <3>2, CopiesNext DEF OneLess
    <3>4. MsgHeld(m)
      BY Zenon DEF Counted, Held
    <3> QED BY <1>2, <1>5, <3>1, <3>2, <3>3, <3>4 DEF MsgHeld, Bit
  <2> QED BY Zenon, <2>1, <2>2
<1>7. \A q \in Queries : AskHeld(q)'
  BY Zenon, <1>2, <1>4, AsksSame DEF OneLess
<1>8. RetryAccounting' /\ CountsTyped'
  <2>0. PICK k : k = refs[c.of] - 1
    BY Zenon
  <2>1. c.of \in Messages => k \in Int
    BY <1>3, <2>0
  <2>2. refs' \in [Messages -> Int]
    BY Zenon, <1>2, <1>3, <2>0, <2>1
  <2> QED BY Zenon, <1>2, <2>2, AccountsSame DEF Counted, CountsTyped
<1> QED BY Zenon, <1>5, <1>6, <1>7, <1>8 DEF Counted, Held

\* The commands about a query under way, now and after a step.
LEMMA AskedNow ==
  ASSUME HubAssumption, HubTypeOK, HubTypeOK', NEW q
  PROVE  /\ AllCopies("count", q) \in Nat /\ AllCopies("reply", q) \in Nat
         /\ AllCopies("count", q)' \in Nat /\ AllCopies("reply", q)' \in Nat
BY Zenon, CopiesNow, CopiesNext

\* The reference of a command that ends with it.
LEMMA AskDropped ==
  ASSUME NEW r \in Asked, NEW n \in Nat, n - 1 \in Nat, Asks(r, n)
  PROVE  LET s == [r EXCEPT !.refcount = r.refcount - 1] IN s \in Asked /\ Asks(s, n - 1)
<1>1. PICK k \in Int : k = r.refcount - 1
  BY DEF Asked
<1>2. PICK s : s = [r EXCEPT !.refcount = k]
  BY Zenon
<1>3. /\ s \in Asked /\ s.refcount = k /\ s.state = r.state /\ s.abandoned = r.abandoned
      /\ s.pending = r.pending
  BY Zenon, <1>2 DEF Asked
<1>4. Asks(s, n - 1)
  BY <1>1, <1>3 DEF Asks, Bit, Asked
<1> QED BY Zenon, <1>1, <1>2, <1>3, <1>4

\* A step about one query at most.
LEMMA AskStep ==
  ASSUME Counted, NEW q, q \in Queries => AskHeld(q)',
         \A x \in Queries : x # q => /\ query'[x] = query[x]
                                     /\ AllCopies("count", x)' = AllCopies("count", x)
                                     /\ AllCopies("reply", x)' = AllCopies("reply", x)
  PROVE  \A x \in Queries : AskHeld(x)'
BY Zenon, AskSame DEF Counted, Held

\* One command about q less, of either kind.
LEMMA AskOneLess ==
  ASSUME HubAssumption, HubTypeOK, HubTypeOK', NEW q, OneLess("count", q) \/ OneLess("reply", q)
  PROVE  \E n \in Nat : /\ n - 1 \in Nat /\ n = AllCopies("count", q) + AllCopies("reply", q)
                        /\ AllCopies("count", q)' + AllCopies("reply", q)' = n - 1
<1>1. PICK a \in Nat, b \in Nat, c \in Nat, d \in Nat :
        /\ a = AllCopies("count", q) /\ b = AllCopies("reply", q)
        /\ c = AllCopies("count", q)' /\ d = AllCopies("reply", q)'
  BY Zenon, AskedNow
<1>2. (c = a - 1 /\ d = b) \/ (c = a /\ d = b - 1)
  BY Zenon, <1>1 DEF OneLess
<1>3. a + b \in Nat /\ (a + b) - 1 \in Nat /\ c + d = (a + b) - 1
  BY <1>2
<1> QED BY Zenon, <1>1, <1>3

\* The answer to a count takes over its reference, or gives it back.
LEMMA DrainCountCounts ==
  ASSUME HubAssumption, IInv, IInv', Counted, NEW w \in Workers, DrainCount(w) PROVE Counted'
<1>1. PICK c : c = Head(box[w])
  BY Zenon
<1> DEFINE q == c.of
           t == query[q].to
           popped == [box EXCEPT ![w] = Tail(box[w])]
           cmd == [kind |-> "reply", of |-> q, to |-> t]
<1>2. /\ box[w] # <<>> /\ c.kind = "count" /\ UNCHANGED <<queue, walk, entry, sender, refs, stats>>
  BY Zenon, <1>1 DEF DrainCount, Pops, retries
<1>3. HubTypeOK /\ HubTypeOK' /\ Published
  BY Zenon DEF IInv
<1>4. q \in Queries /\ t \in Targets
  BY Zenon, <1>1, <1>2, Popped DEF IInv, CountsKnown
<1>5. CASE ~Reaches(t)
  <2>1. box' = popped /\ query' = [query EXCEPT ![q].refcount = query[q].refcount - 1]
    BY Zenon, <1>1, <1>5 DEF DrainCount
  <2>2. OneLess("count", q)
    BY Zenon, <1>1, <1>2, <1>3, <2>1, PopNext
  <2>3. PICK n \in Nat : /\ n - 1 \in Nat /\ n = AllCopies("count", q) + AllCopies("reply", q)
                         /\ AllCopies("count", q)' + AllCopies("reply", q)' = n - 1
    BY Zenon, <1>3, <2>2, AskOneLess
  <2>4. PICK r \in Asked : r = query[q] /\ Asks(r, n)
    BY Zenon, <1>3, <1>4, <2>3 DEF HubTypeOK, Counted, Held, AskHeld
  <2>5. /\ query'[q] = [r EXCEPT !.refcount = r.refcount - 1]
        /\ \A x \in Queries : x # q => query'[x] = query[x]
    BY Zenon, <1>3, <1>4, <2>1, <2>4 DEF HubTypeOK
  <2>6. AskHeld(q)'
    BY ZenonT(30), <2>3, <2>4, <2>5, AskDropped DEF AskHeld
  <2>7. \A x \in Queries : AskHeld(x)'
    BY Zenon, <2>2, <2>5, <2>6, AskStep DEF OneLess
  <2> QED BY Zenon, <1>2, <2>2, <2>7, MsgsSame DEF OneLess
<1>6. CASE Reaches(t)
  <2>1. PICK h : h = inbox[t.slot]
    BY Zenon
  <2>2. box' = [popped EXCEPT ![h] = Append(popped[h], cmd)] /\ query' = query
    BY ZenonT(30), <1>1, <1>6, <2>1 DEF DrainCount
  <2>3. h \in Workers /\ cmd \in Commands
    BY Zenon, <1>3, <1>4, <1>6, <2>1 DEF Reaches, Accepts, HubTypeOK, Targets, Commands
  <2>4. box \in Mailboxes /\ box' \in Mailboxes /\ popped \in Mailboxes
    BY Zenon, <1>1, <1>2, <1>3, Popped DEF HubTypeOK, Mailboxes
  <2>5. Removed(box, popped, c)
    BY Zenon, <1>1, <1>2, <2>4, CopiesPop
  <2> HIDE DEF popped
  <2>6. Added(popped, box', "reply", q, Cardinality({h}))
    <3>1. box'[h] = Append(popped[h], cmd) /\ \A v \in Workers : v \notin {h} => box'[v] = popped[v]
      BY Zenon, <2>2, <2>3, <2>4 DEF Mailboxes
    <3>2. cmd.kind = "reply" /\ cmd.of = q
      BY Zenon
    <3> HIDE DEF cmd, q
    <3>3. \A v \in {h} : \E d \in Commands : d.kind = "reply" /\ d.of = q /\ box'[v] = Append(popped[v], d)
      BY Zenon, <2>3, <3>1, <3>2
    <3>4. {h} \in SUBSET Workers
      BY Zenon, <2>3
    <3> QED BY Zenon, <2>4, <3>1, <3>3, <3>4, CopiesPush
  <2>7. Cardinality({h}) = 1
    BY Zenon, FS_Singleton
  <2>8. ASSUME NEW k, NEW x
        PROVE  \E a \in Nat : /\ a = AllCopies(k, x)
                 /\ AllCopies(k, x)' = (a - IF k = "count" /\ x = q THEN 1 ELSE 0)
                                       + IF k = "reply" /\ x = q THEN 1 ELSE 0
    <3>1. AllCopies(k, x) \in Nat /\ AllCopies(k, x) = Cardinality(Copies(box, k, x))
          /\ AllCopies(k, x)' = Cardinality(Copies(box', k, x))
      BY Zenon, <1>3, CopiesNow, CopiesNext DEF AllCopies
    <3>2. Cardinality(Copies(popped, k, x)) = Cardinality(Copies(box, k, x))
                                              - IF k = "count" /\ x = q THEN 1 ELSE 0
      BY Zenon, <1>2, <2>5 DEF Removed
    <3>3. Cardinality(Copies(box', k, x)) = Cardinality(Copies(popped, k, x))
                                            + IF k = "reply" /\ x = q THEN 1 ELSE 0
      BY Zenon, <2>6, <2>7 DEF Added
    <3> QED BY Zenon, <3>1, <3>2, <3>3
  <2>9. /\ \A x : AllCopies("publish", x)' = AllCopies("publish", x)
        /\ \A x : x # q => /\ AllCopies("count", x)' = AllCopies("count", x)
                           /\ AllCopies("reply", x)' = AllCopies("reply", x)
        /\ AllCopies("count", q)' + AllCopies("reply", q)' =
             AllCopies("count", q) + AllCopies("reply", q)
    <3> HIDE DEF q
    <3>1. ASSUME NEW k, NEW x, k = "publish" \/ x # q PROVE AllCopies(k, x)' = AllCopies(k, x)
      <4>1. PICK a \in Nat : a = AllCopies(k, x) /\ AllCopies(k, x)' = (a - 0) + 0
        BY Zenon, <2>8, <3>1
      <4> QED BY <4>1
    <3>2. PICK a \in Nat, b \in Nat :
            /\ a = AllCopies("count", q) /\ b = AllCopies("reply", q)
            /\ AllCopies("count", q)' = (a - 1) + 0 /\ AllCopies("reply", q)' = (b - 0) + 1
      <4>1. PICK a \in Nat : /\ a = AllCopies("count", q) /\ AllCopies("count", q)' = (a - 1) + 0
        BY Zenon, <2>8
      <4>2. PICK b \in Nat : /\ b = AllCopies("reply", q) /\ AllCopies("reply", q)' = (b - 0) + 1
        BY Zenon, <2>8
      <4> QED BY Zenon, <4>1, <4>2
    <3>3. ((a - 1) + 0) + ((b - 0) + 1) = a + b
      OBVIOUS
    <3> QED BY Zenon, <3>1, <3>2, <3>3
  <2>10. AskHeld(q)'
    <3>1. AskHeld(q)
      BY Zenon, <1>4 DEF Counted, Held
    <3> QED BY Zenon, <2>2, <2>9, <3>1 DEF AskHeld
  <2>11. \A x \in Queries : AskHeld(x)'
    BY Zenon, <2>2, <2>9, <2>10, AskStep
  <2> QED BY Zenon, <1>2, <2>9, <2>11, MsgsSame
<1> QED BY Zenon, <1>5, <1>6

\* An answer counted: the last one the asker waits for wakes it.
LEMMA AskAnswered ==
  ASSUME NEW r \in Asked, NEW n \in Nat, n - 1 \in Nat, Asks(r, n), NEW s \in Asked,
         s.refcount = r.refcount - 1, s.abandoned = r.abandoned,
         s.pending = IF r.abandoned THEN r.pending ELSE r.pending - 1,
         s.state = IF ~r.abandoned /\ r.pending = 1 THEN "woken" ELSE r.state
  PROVE  Asks(s, n - 1)
<1>1. /\ r.refcount \in Int /\ r.pending \in Int /\ r.state \in AskState /\ r.abandoned \in BOOLEAN
  BY Zenon DEF Asked
<1>2. PICK k \in Int : k = r.refcount - 1
  BY <1>1
<1>3. CASE r.abandoned
  BY <1>1, <1>3 DEF Asks, Bit
<1>4. CASE ~r.abandoned
  <2>1. n >= 1 /\ n <= r.pending /\ r.refcount = n + Bit(r.state \in {"asking", "woken"})
        /\ Bit(r.state \in {"asking", "woken"}) \in {0, 1}
    BY <1>4 DEF Asks, Bit
  <2>2. r.refcount >= 1 /\ r.pending >= 1
    BY <1>1, <2>1
  <2>3. r.state = "asking"
    BY <1>1, <1>4, <2>2 DEF Asks, AskState
  <2>4. r.refcount = n + 1 /\ s.refcount = (n - 1) + 1 /\ s.pending = r.pending - 1
        /\ n - 1 <= s.pending /\ s.abandoned = FALSE
    BY <1>1, <1>4, <2>1, <2>3 DEF Bit
  <2>5. CASE r.pending = 1
    <3>1. s.state = "woken" /\ s.pending = 0
      BY <1>4, <2>4, <2>5
    <3> QED BY Zenon, <2>4, <3>1 DEF Asks, Bit
  <2>6. CASE r.pending # 1
    <3>1. s.state = "asking"
      BY Zenon, <1>4, <2>3, <2>6
    <3> QED BY Zenon, <2>4, <3>1 DEF Asks, Bit
  <2> QED BY Zenon, <2>5, <2>6
<1> QED BY Zenon, <1>3, <1>4

\* A reply gives its reference back and counts one answer.
LEMMA DrainReplyCounts ==
  ASSUME HubAssumption, IInv, IInv', Counted, NEW w \in Workers, DrainReply(w) PROVE Counted'
<1>1. PICK c : c = Head(box[w])
  BY Zenon
<1>2. PICK q : q = c.of
  BY Zenon
<1>3. /\ box[w] # <<>> /\ c.kind = "reply" /\ box' = [box EXCEPT ![w] = Tail(@)]
      /\ query' = [query EXCEPT ![q].refcount = @ - 1,
                                ![q].pending = IF query[q].abandoned THEN @ ELSE @ - 1,
                                ![q].state = IF ~query[q].abandoned /\ query[q].pending = 1
                                             THEN "woken" ELSE @]
      /\ UNCHANGED <<queue, walk, entry, sender, refs, stats>>
  BY Zenon, <1>1, <1>2 DEF DrainReply, Pops, retries
<1>4. HubTypeOK /\ HubTypeOK' /\ query \in [Queries -> Asked]
  BY Zenon DEF IInv, HubTypeOK
<1>5. OneLess("reply", q)
  BY Zenon, <1>1, <1>2, <1>3, <1>4, PopNext
<1>6. \A x \in Queries : x # q => query'[x] = query[x]
  BY Zenon, <1>3, <1>4
<1>7. ASSUME q \in Queries PROVE AskHeld(q)'
  <2> DEFINE p == IF query[q].abandoned THEN query[q].pending ELSE query[q].pending - 1
             k == IF ~query[q].abandoned /\ query[q].pending = 1 THEN "woken" ELSE query[q].state
             d == query[q].refcount - 1
  <2>1. /\ query[q] \in Asked /\ p \in Int /\ d \in Int /\ k \in AskState
    BY <1>4, <1>7 DEF Asked, AskState
  <2>2. PICK s : s = [query[q] EXCEPT !.refcount = d, !.pending = p, !.state = k]
    BY Zenon
  <2>3. query'[q] = s
    BY Zenon, <1>3, <1>4, <1>7, <2>2
  <2>4. PICK n \in Nat : /\ n - 1 \in Nat /\ n = AllCopies("count", q) + AllCopies("reply", q)
                         /\ AllCopies("count", q)' + AllCopies("reply", q)' = n - 1
    BY Zenon, <1>4, <1>5, AskOneLess
  <2>5. Asks(query[q], n)
    BY Zenon, <1>7, <2>4 DEF Counted, Held, AskHeld
  <2>6. s \in Asked /\ s.state = k /\ s.pending = p /\ s.refcount = d /\ s.abandoned = query[q].abandoned
    <3> HIDE DEF p, k, d
    <3> QED BY Zenon, <2>1, <2>2 DEF Asked
  <2>7. Asks(s, n - 1)
    BY Zenon, <2>1, <2>4, <2>5, <2>6, AskAnswered
  <2> QED BY Zenon, <2>3, <2>4, <2>7 DEF AskHeld
<1>8. \A x \in Queries : AskHeld(x)'
  <2>1. q \in Queries => AskHeld(q)'
    BY Zenon, <1>7
  <2>2. \A x \in Queries : x # q => /\ AllCopies("count", x)' = AllCopies("count", x)
                                     /\ AllCopies("reply", x)' = AllCopies("reply", x)
    BY Zenon, <1>5 DEF OneLess
  <2> QED BY Zenon, <1>6, <2>1, <2>2, AskStep
<1> QED BY Zenon, <1>3, <1>5, <1>8, MsgsSame DEF OneLess

\* A count takes one reference for every worker asked and one for the asker.
LEMMA CountCounts ==
  ASSUME HubAssumption, IInv, IInv', Counted, NEW w \in Workers, NEW q \in Queries,
         NEW hit \in SUBSET Slots, Count(w, q, hit)
  PROVE  Counted'
<1> DEFINE landed == {s \in Addressed(w, hit) : Accepts(s)}
<1>1. landed \in SUBSET Slots /\ \A s \in landed : inbox[s] # None
  BY Zenon DEF Addressed
<1>2. /\ query[q].state = "idle" /\ Post(landed, "count", q)
      /\ query' = [query EXCEPT ![q] =
                     IF Cardinality(landed) = 0 THEN [NoQuery EXCEPT !.state = "returned"]
                     ELSE [state |-> "asking", by |-> w, to |-> local[w],
                           pending |-> Cardinality(landed),
                           abandoned |-> FALSE, refcount |-> Cardinality(landed) + 1]]
      /\ UNCHANGED <<queue, walk, entry, sender, refs, stats>>
  BY Zenon DEF Count, retries
<1>3. HubTypeOK /\ HubTypeOK' /\ Published /\ query \in [Queries -> Asked]
  BY Zenon DEF IInv, HubTypeOK
<1> HIDE DEF landed
<1>4. PICK n \in Nat : n = Cardinality(landed) /\ Added(box, box', "count", q, n)
  BY Zenon, <1>1, <1>2, <1>3, FanCounts
<1>5. MoreCopies("count", q, n)
  BY Zenon, <1>3, <1>4, AddedNext
<1>6. \A x \in Queries : x # q => query'[x] = query[x]
  BY Zenon, <1>2, <1>3
<1>7. PICK a \in Nat, b \in Nat : a = AllCopies("count", q) /\ b = AllCopies("reply", q)
  BY Zenon, <1>3, AskedNow
<1>8. a = 0 /\ b = 0
  <2>1. Asks(query[q], a + b)
    BY Zenon, <1>7 DEF Counted, Held, AskHeld
  <2>2. query[q].refcount = 0 /\ query[q].refcount = (a + b) + 0
    BY Zenon, <1>2, <2>1 DEF Asks, Bit
  <2> QED BY <2>2
<1>9. AllCopies("count", q)' + AllCopies("reply", q)' = n
  BY <1>5, <1>7, <1>8 DEF MoreCopies
<1>10. Asks(query'[q], n)
  <2>1. CASE n = 0
    <3>1. query'[q] = [NoQuery EXCEPT !.state = "returned"]
      BY Zenon, <1>2, <1>3, <1>4, <2>1
    <3>2. query'[q].state = "returned" /\ query'[q].refcount = 0 /\ query'[q].pending = 0
      BY Zenon, <3>1 DEF NoQuery
    <3> QED BY <2>1, <3>2 DEF Asks, Bit
  <2>2. CASE n # 0
    <3>1. query'[q] = [state |-> "asking", by |-> w, to |-> local[w], pending |-> n,
                       abandoned |-> FALSE, refcount |-> n + 1]
      BY Zenon, <1>2, <1>3, <1>4, <2>2
    <3>2. query'[q].state = "asking" /\ query'[q].refcount = n + 1 /\ query'[q].pending = n
      BY <3>1
    <3> QED BY <3>2 DEF Asks, Bit
  <2> QED BY Zenon, <2>1, <2>2
<1>11. AskHeld(q)'
  BY Zenon, <1>9, <1>10 DEF AskHeld
<1>12. \A x \in Queries : AskHeld(x)'
  BY Zenon, <1>5, <1>6, <1>11, AskStep DEF MoreCopies
<1> QED BY Zenon, <1>2, <1>5, <1>12, MsgsSame DEF MoreCopies

\* A count that returns gives the asker's reference back.
LEMMA CountReturnsCounts ==
  ASSUME HubAssumption, IInv, IInv', Counted, NEW q \in Queries, CountReturns(q) PROVE Counted'
<1>1. /\ query[q].state \in {"asking", "woken"}
      /\ query' = [query EXCEPT ![q].state = "returned", ![q].abandoned = TRUE,
                                ![q].by = None, ![q].refcount = @ - 1]
      /\ UNCHANGED <<box, queue, walk, entry, sender, refs, stats>>
  BY Zenon DEF CountReturns, retries
<1>2. HubTypeOK /\ query \in [Queries -> Asked]
  BY Zenon DEF IInv, HubTypeOK
<1>3. \A k, x : AllCopies(k, x)' = AllCopies(k, x)
  BY Zenon, <1>1 DEF AllCopies, Copies
<1>4. \A x \in Queries : x # q => query'[x] = query[x]
  BY Zenon, <1>1, <1>2
<1>5. PICK n \in Nat : n = AllCopies("count", q) + AllCopies("reply", q)
  <2>1. AllCopies("count", q) \in Nat /\ AllCopies("reply", q) \in Nat
    BY Zenon, <1>2, CopiesNow
  <2> QED BY <2>1
<1>6. Asks(query[q], n)
  BY Zenon, <1>5 DEF Counted, Held, AskHeld
<1>7. Asks(query'[q], n)
  <2>1. PICK d \in Int : d = query[q].refcount - 1
    BY <1>2 DEF Asked
  <2>2. query'[q] = [query[q] EXCEPT !.state = "returned", !.abandoned = TRUE, !.by = None,
                                     !.refcount = d]
    BY Zenon, <1>1, <1>2, <2>1
  <2>3. query'[q].state = "returned" /\ query'[q].abandoned /\ query'[q].refcount = d
    BY Zenon, <1>2, <2>2 DEF Asked
  <2>4. d = n
    BY <1>1, <1>2, <1>6, <2>1 DEF Asks, Bit, Asked
  <2> QED BY <2>3, <2>4 DEF Asks, Bit
<1>8. AskHeld(q)'
  BY Zenon, <1>3, <1>5, <1>7 DEF AskHeld
<1>9. \A x \in Queries : AskHeld(x)'
  BY Zenon, <1>3, <1>4, <1>8, AskStep
<1> QED BY Zenon, <1>1, <1>3, <1>9, MsgsSame

\* A release takes one reference, and only the last one takes the targets along.
LEMMA ReleaseCounts ==
  ASSUME NEW e \in Entries
  PROVE  LET f == EntryRelease(e)
         IN f.refcount = e.refcount - 1 /\ (e.refcount # 1 => f.pending = e.pending)
<1>1. CASE e.refcount = 1
  BY <1>1 DEF EntryRelease, NoEntry
<1>2. CASE e.refcount # 1
  <2>1. PICK k \in Int : k = e.refcount - 1
    BY DEF Entries
  <2>2. PICK f : f = [e EXCEPT !.refcount = k]
    BY Zenon
  <2>3. EntryRelease(e) = f
    BY Zenon, <1>2, <2>1, <2>2 DEF EntryRelease
  <2>4. f.refcount = k /\ f.pending = e.pending
    BY Zenon, <2>2 DEF Entries
  <2> QED BY Zenon, <2>1, <2>3, <2>4
<1> QED BY Zenon, <1>1, <1>2

\* A step of the senders alone.
LEMMA SendersStep ==
  ASSUME Counted, UNCHANGED <<box, queue, walk, refs, query, stats>>,
         \A m \in Messages : /\ Queued(m) => entry'[m].pending = entry[m].pending
                             /\ MsgHeld(m)'
  PROVE  Counted'
<1>1. \A k, x : AllCopies(k, x)' = AllCopies(k, x)
  BY Zenon DEF AllCopies, Copies
<1>2. QueuedOnce'
  BY Zenon, OwnersSame DEF Counted
<1>3. \A q \in Queries : AskHeld(q)'
  BY Zenon, <1>1, AsksSame
<1>4. RetryAccounting' /\ CountsTyped'
  BY Zenon, AccountsSame DEF Counted, CountsTyped
<1> QED BY Zenon, <1>2, <1>3, <1>4 DEF Counted, Held

\* A deadline that passes changes no count.
LEMMA DeadlineCounts ==
  ASSUME HubAssumption, IInv, IInv', Counted, NEW m \in Messages, Deadline(m) PROVE Counted'
<1>1. /\ entry' = [entry EXCEPT ![m].late = TRUE]
      /\ UNCHANGED <<box, queue, walk, sender, refs, query, stats>>
  BY Zenon DEF Deadline
<1>2. \A n \in Messages : entry'[n].pending = entry[n].pending /\ entry'[n].refcount = entry[n].refcount
  BY Zenon, <1>1 DEF IInv, HubTypeOK, Entries
<1>3. ASSUME NEW n \in Messages PROVE MsgHeld(n)'
  <2>1. MsgHeld(n) /\ AllCopies("publish", n)' = AllCopies("publish", n) /\ Owned(n)' = Owned(n)
    BY Zenon, <1>1, OwnersSame DEF Counted, Held, AllCopies
  <2> QED BY Zenon, <1>1, <1>2, <2>1 DEF MsgHeld
<1> QED BY Zenon, <1>1, <1>2, <1>3, SendersStep

\* A coroutine that leaves send() takes its own reference, and never the queue's.
LEMMA SettleCounts ==
  ASSUME HubAssumption, IInv, IInv', Counted, NEW m \in Messages, Resume(m) \/ Cancel(m)
  PROVE  Counted'
<1>1. PICK state \in {"done", "expired"} : Settle(m, state)
  BY Zenon DEF Resume, Cancel, Outcome
<1> DEFINE e == [entry[m] EXCEPT !.abandoned = TRUE, !.waiter = FALSE]
<1>2. /\ entry' = [entry EXCEPT ![m] = EntryRelease(e)]
      /\ sender' = [sender EXCEPT ![m] = Over(state)]
      /\ UNCHANGED <<box, queue, walk, refs, query, stats>>
  BY Zenon, <1>1 DEF Settle
<1>3. entry \in [Messages -> Entries] /\ sender[m].state \in {"parked", "woken"}
  BY Zenon DEF IInv, HubTypeOK, Resume, Cancel
<1>4. e \in Entries /\ e.refcount = entry[m].refcount /\ e.pending = entry[m].pending
  BY Zenon, <1>3 DEF Entries
<1> HIDE DEF e
<1>5. /\ entry'[m].refcount = entry[m].refcount - 1
      /\ entry[m].refcount # 1 => entry'[m].pending = entry[m].pending
  BY Zenon, <1>2, <1>3, <1>4, ReleaseCounts
<1>6. /\ sender'[m].state \notin {"parked", "woken", "idle"}
      /\ \A n \in Messages : n # m => entry'[n] = entry[n] /\ sender'[n] = sender[n]
  <2>1. Over(state).state = state /\ sender \in [Messages -> Senders]
    BY Zenon DEF Over, IInv, HubTypeOK, Senders
  <2> QED BY Zenon, <1>2, <1>3, <2>1
<1>7. /\ \A n \in Messages : MsgHeld(n)
      /\ \A n : AllCopies("publish", n)' = AllCopies("publish", n) /\ Owned(n)' = Owned(n)
  BY Zenon, <1>2, OwnersSame DEF Counted, Held, AllCopies
<1>8. entry[m].refcount = Bit(Owned(m)) + 1 /\ Bit(Owned(m)) \in {0, 1}
  BY Zenon, <1>3, <1>7 DEF MsgHeld, Bit
<1>9. Queued(m) => entry[m].refcount # 1
  BY <1>8 DEF Owned, Bit
<1>10. MsgHeld(m)'
  <2>1. entry'[m].refcount = Bit(Owned(m)) + 0
    BY <1>5, <1>8
  <2>2. Bit(sender'[m].state \in {"parked", "woken"}) = 0
    BY Zenon, <1>6 DEF Bit
  <2>3. refs'[m] = AllCopies("publish", m)' + Bit(Owned(m)')
    BY Zenon, <1>2, <1>7 DEF MsgHeld
  <2> QED BY Zenon, <1>6, <1>7, <2>1, <2>2, <2>3 DEF MsgHeld
<1>11. ASSUME NEW n \in Messages, n # m PROVE MsgHeld(n)'
  BY Zenon, <1>2, <1>6, <1>7, <1>11 DEF MsgHeld
<1> QED BY Zenon, <1>2, <1>5, <1>6, <1>9, <1>10, <1>11, SendersStep

-----------------------------------------------------------------------------
\* The retry queues: where a message is, and that it is there once.
Queues == [Workers -> Seq(Messages)]
Place(Q, x, w, i) == w \in Workers /\ i \in 1 .. Len(Q[w]) /\ Q[w][i] = x
In(Q, x) == \E w \in Workers : x \in Range(Q[w])
Once(Q) == \A w, v \in Workers : \A i \in DOMAIN Q[w], j \in DOMAIN Q[v] :
             Q[w][i] = Q[v][j] => w = v /\ i = j

\* A message is in the queues where it has a place, and once if it has one place.
LEMMA Places ==
  ASSUME NEW Q \in Queues
  PROVE  /\ \A x : In(Q, x) <=> \E w, i : Place(Q, x, w, i)
         /\ Once(Q) <=> \A x, w, v, i, j : Place(Q, x, w, i) /\ Place(Q, x, v, j) => w = v /\ i = j
<1>1. \A w \in Workers : DOMAIN Q[w] = 1 .. Len(Q[w])
  BY DEF Queues
<1>2. \A x : In(Q, x) <=> \E w, i : Place(Q, x, w, i)
  BY Zenon, <1>1 DEF In, Place, Range
<1>3. Once(Q) <=> \A x, w, v, i, j : Place(Q, x, w, i) /\ Place(Q, x, v, j) => w = v /\ i = j
  <2>1. ASSUME Once(Q), NEW x, NEW w, NEW v, NEW i, NEW j, Place(Q, x, w, i), Place(Q, x, v, j)
        PROVE  w = v /\ i = j
    BY <1>1, <2>1 DEF Once, Place
  <2>2. ASSUME \A x, w, v, i, j : Place(Q, x, w, i) /\ Place(Q, x, v, j) => w = v /\ i = j,
               NEW w \in Workers, NEW v \in Workers, NEW i \in DOMAIN Q[w], NEW j \in DOMAIN Q[v],
               Q[w][i] = Q[v][j]
        PROVE  w = v /\ i = j
    <3>1. Place(Q, Q[v][j], w, i) /\ Place(Q, Q[v][j], v, j)
      BY Zenon, <1>1, <2>2 DEF Place
    <3> QED BY Zenon, <2>2, <3>1
  <2> QED BY Zenon, <2>1, <2>2 DEF Once
<1> QED BY Zenon, <1>2, <1>3

\* An entry linked at the end of a queue.
LEMMA OnceLinked ==
  ASSUME NEW Q \in Queues, Once(Q), NEW w \in Workers, NEW m \in Messages, ~In(Q, m),
         NEW R, R = [Q EXCEPT ![w] = Append(Q[w], m)]
  PROVE  Once(R) /\ \A x : In(R, x) <=> In(Q, x) \/ x = m
<1>1. /\ R \in Queues /\ R[w] = Append(Q[w], m) /\ \A v \in Workers : v # w => R[v] = Q[v]
  BY DEF Queues
<1>2. PICK n \in Nat : /\ n = Len(Q[w]) /\ Len(R[w]) = n + 1 /\ R[w][n + 1] = m
                       /\ \A i \in 1 .. n : R[w][i] = Q[w][i]
  <2>1. Q[w] \in Seq(Messages)
    BY Zenon DEF Queues
  <2>2. /\ Len(Q[w]) \in Nat /\ Len(Append(Q[w], m)) = Len(Q[w]) + 1
        /\ Append(Q[w], m)[Len(Q[w]) + 1] = m
        /\ \A i \in 1 .. Len(Q[w]) : Append(Q[w], m)[i] = Q[w][i]
    BY <2>1
  <2> QED BY Zenon, <1>1, <2>2
<1>3. \A i : i \in 1 .. n + 1 <=> i \in 1 .. n \/ i = n + 1
  OBVIOUS
<1>4. ASSUME NEW x, NEW v, NEW i
      PROVE  Place(R, x, v, i) <=> Place(Q, x, v, i) \/ (v = w /\ i = n + 1 /\ x = m)
  <2>1. CASE v = w
    <3>1. n + 1 \notin 1 .. n
      OBVIOUS
    <3> QED BY Zenon, <1>2, <1>3, <2>1, <3>1 DEF Place
  <2>2. CASE v # w
    BY Zenon, <1>1, <2>2 DEF Place
  <2> QED BY Zenon, <2>1, <2>2
<1>5. \A v, i : ~Place(Q, m, v, i)
  BY Zenon, Places
<1>6. \A x : In(R, x) <=> In(Q, x) \/ x = m
  BY Zenon, <1>1, <1>4, Places
<1>7. \A x, u, v, i, j : Place(R, x, u, i) /\ Place(R, x, v, j) => u = v /\ i = j
  <2>1. \A x, u, v, i, j : Place(Q, x, u, i) /\ Place(Q, x, v, j) => u = v /\ i = j
    BY Zenon, Places
  <2>2. ASSUME NEW x, NEW u, NEW v, NEW i, NEW j, Place(R, x, u, i), Place(R, x, v, j)
        PROVE  u = v /\ i = j
    <3>1. CASE x = m
      BY <1>4, <1>5, <2>2, <3>1
    <3>2. CASE x # m
      <4>1. Place(Q, x, u, i) /\ Place(Q, x, v, j)
        BY <1>4, <2>2, <3>2
      <4> QED BY Zenon, <2>1, <4>1
    <3> QED BY Zenon, <3>1, <3>2
  <2> QED BY Zenon, <2>2
<1> QED BY Zenon, <1>1, <1>6, <1>7, Places

\* A queue torn down.
LEMMA OnceEmptied ==
  ASSUME NEW Q \in Queues, Once(Q), NEW w \in Workers, NEW R, R = [Q EXCEPT ![w] = <<>>]
  PROVE  Once(R) /\ \A x : In(R, x) <=> In(Q, x) /\ x \notin Range(Q[w])
<1>1. /\ R \in Queues /\ R[w] = <<>> /\ \A v \in Workers : v # w => R[v] = Q[v]
  BY DEF Queues
<1>2. ASSUME NEW x, NEW v, NEW i PROVE Place(R, x, v, i) <=> v # w /\ Place(Q, x, v, i)
  <2>1. Len(<<>>) = 0 /\ \A j : j \notin 1 .. 0
    OBVIOUS
  <2> QED BY Zenon, <1>1, <2>1 DEF Place
<1>3. \A x, u, v, i, j : Place(Q, x, u, i) /\ Place(Q, x, v, j) => u = v /\ i = j
  BY Zenon, Places
<1>4. ASSUME NEW x PROVE x \in Range(Q[w]) <=> \E i : Place(Q, x, w, i)
  <2>1. DOMAIN Q[w] = 1 .. Len(Q[w])
    BY DEF Queues
  <2> QED BY Zenon, <2>1 DEF Range, Place
<1>5. \A x : In(R, x) <=> \E v, i : v # w /\ Place(Q, x, v, i)
  BY Zenon, <1>1, <1>2, Places
<1>6. \A x : In(R, x) <=> In(Q, x) /\ x \notin Range(Q[w])
  <2>1. \A x : In(Q, x) <=> \E v, i : Place(Q, x, v, i)
    BY Zenon, Places
  <2>2. ASSUME NEW x, In(R, x) PROVE In(Q, x) /\ x \notin Range(Q[w])
    <3>1. PICK v, i : v # w /\ Place(Q, x, v, i)
      BY Zenon, <1>5, <2>2
    <3> QED BY Zenon, <1>3, <1>4, <2>1, <3>1
  <2>3. ASSUME NEW x, In(Q, x), x \notin Range(Q[w]) PROVE In(R, x)
    <3>1. PICK v, i : Place(Q, x, v, i)
      BY Zenon, <2>1, <2>3
    <3>2. v # w
      BY Zenon, <1>4, <2>3, <3>1
    <3> QED BY Zenon, <1>5, <3>1, <3>2
  <2> QED BY Zenon, <2>2, <2>3
<1>7. ASSUME NEW x, NEW u, NEW v, NEW i, NEW j, Place(R, x, u, i), Place(R, x, v, j)
      PROVE  u = v /\ i = j
  <2>1. Place(Q, x, u, i) /\ Place(Q, x, v, j)
    BY Zenon, <1>2, <1>7
  <2> QED BY Zenon, <1>3, <2>1
<1> QED BY Zenon, <1>1, <1>6, <1>7, Places

\* An entry unlinked from the middle of a queue.
Without(Q, R, y) == Once(R) /\ \A x : In(R, x) <=> In(Q, x) /\ x # y
LEMMA OnceUnlinked ==
  ASSUME NEW Q \in Queues, Once(Q), NEW w \in Workers, NEW k \in 1 .. Len(Q[w]),
         NEW R, R = [Q EXCEPT ![w] = Unlink(Q[w], k)]
  PROVE  Without(Q, R, Q[w][k])
<1>1. PICK s \in Seq(Messages) : s = Q[w]
  BY Zenon DEF Queues
<1>2. PICK n \in Nat : n = Len(s) /\ k \in 1 .. n
  BY <1>1
<1>3. PICK u \in Seq(Messages) : /\ u = Unlink(s, k) /\ Len(u) = n - 1
                                 /\ \A i \in 1 .. n - 1 : u[i] = IF i < k THEN s[i] ELSE s[i + 1]
  <2> DEFINE a == SubSeq(s, 1, k - 1)
             b == SubSeq(s, k + 1, Len(s))
  <2>1. /\ a \in Seq(Messages) /\ Len(a) = k - 1 /\ \A i \in 1 .. k - 1 : a[i] = s[i]
        /\ b \in Seq(Messages) /\ Len(b) = n - k /\ \A i \in 1 .. n - k : b[i] = s[k + i]
    BY <1>2
  <2> HIDE DEF a, b
  <2>2. /\ a \o b \in Seq(Messages) /\ Len(a \o b) = Len(a) + Len(b)
        /\ \A i \in 1 .. Len(a) + Len(b) :
              (a \o b)[i] = IF i <= Len(a) THEN a[i] ELSE b[i - Len(a)]
    BY Zenon, <2>1, ConcatProperties
  <2>3. Len(a \o b) = n - 1
    BY <1>2, <2>1, <2>2
  <2>4. ASSUME NEW i \in 1 .. n - 1 PROVE (a \o b)[i] = IF i < k THEN s[i] ELSE s[i + 1]
    <3>1. CASE i < k
      BY <1>2, <2>1, <2>2, <3>1
    <3>2. CASE ~(i < k)
      <4>1. i - (k - 1) \in 1 .. n - k /\ k + (i - (k - 1)) = i + 1 /\ ~(i <= k - 1)
            /\ i \in 1 .. Len(a) + Len(b)
        <5>1. /\ k \in Int /\ n \in Int /\ i \in Int /\ 1 <= i /\ i <= n - 1 /\ 1 <= k /\ k <= n
          BY <1>2
        <5>2. Len(a) + Len(b) = n - 1
          BY Zenon, <2>2, <2>3
        <5>3. i - (k - 1) \in 1 .. n - k /\ k + (i - (k - 1)) = i + 1 /\ ~(i <= k - 1) /\ i \in 1 .. n - 1
          BY <3>2, <5>1
        <5> QED BY Zenon, <5>2, <5>3
      <4> QED BY SMTT(30), <2>1, <2>2, <3>2, <4>1
    <3> QED BY Zenon, <3>1, <3>2
  <2>5. a \o b = Unlink(s, k)
    BY Zenon DEF Unlink, a, b
  <2> QED BY Zenon, <2>2, <2>3, <2>4, <2>5
<1>4. /\ R \in Queues /\ R[w] = u /\ \A v \in Workers : v # w => R[v] = Q[v]
  BY Zenon, <1>1, <1>3 DEF Queues
<1>5. ASSUME NEW x, NEW i, Place(R, x, w, i)
      PROVE  \/ i \in Nat /\ i < k /\ Place(Q, x, w, i)
             \/ i \in Nat /\ i >= k /\ Place(Q, x, w, i + 1)
  <2>1. i \in 1 .. n - 1 /\ u[i] = x
    BY Zenon, <1>3, <1>4, <1>5 DEF Place
  <2>2. i \in Nat /\ i \in 1 .. n /\ i + 1 \in 1 .. n
    BY <2>1
  <2>3. (i < k /\ s[i] = x) \/ (i >= k /\ s[i + 1] = x)
    BY <1>3, <2>1
  <2> QED BY Zenon, <1>1, <1>2, <2>2, <2>3 DEF Place
<1>6. ASSUME NEW x, NEW i, Place(Q, x, w, i), i # k PROVE \E j : Place(R, x, w, j)
  <2>1. i \in 1 .. n /\ s[i] = x
    BY Zenon, <1>1, <1>2, <1>6 DEF Place
  <2>2. CASE i < k
    <3>1. i \in 1 .. n - 1 /\ u[i] = s[i]
      BY <1>2, <1>3, <2>1, <2>2
    <3> QED BY Zenon, <1>3, <1>4, <2>1, <3>1 DEF Place
  <2>3. CASE ~(i < k)
    <3>1. i - 1 \in 1 .. n - 1 /\ u[i - 1] = s[i]
      BY <1>2, <1>3, <1>6, <2>1, <2>3
    <3> QED BY Zenon, <1>3, <1>4, <2>1, <3>1 DEF Place
  <2> QED BY Zenon, <2>2, <2>3
<1>7. \A x, v, i : v # w => (Place(R, x, v, i) <=> Place(Q, x, v, i))
  BY Zenon, <1>4 DEF Place
<1>8. \A x, v, z, i, j : Place(Q, x, v, i) /\ Place(Q, x, z, j) => v = z /\ i = j
  BY Zenon, Places
<1>9. ASSUME NEW x PROVE In(R, x) <=> In(Q, x) /\ x # Q[w][k]
  <2>1. Place(Q, Q[w][k], w, k)
    BY Zenon DEF Place
  <2>2. ASSUME NEW v, NEW i, Place(R, x, v, i) PROVE In(Q, x) /\ x # Q[w][k]
    <3>1. CASE v # w
      <4>1. Place(Q, x, v, i)
        BY Zenon, <1>7, <2>2, <3>1
      <4>2. x # Q[w][k]
        BY <1>8, <2>1, <3>1, <4>1
      <4> QED BY Zenon, <4>1, <4>2, Places
    <3>2. CASE v = w
      <4>1. PICK j \in Nat : Place(Q, x, w, j) /\ j # k
        BY <1>5, <2>2, <3>2
      <4> QED BY Zenon, <1>8, <2>1, <4>1, Places
    <3> QED BY Zenon, <3>1, <3>2
  <2>3. ASSUME NEW v, NEW i, Place(Q, x, v, i), x # Q[w][k] PROVE In(R, x)
    <3>1. CASE v # w
      BY Zenon, <1>4, <1>7, <2>3, <3>1, Places
    <3>2. CASE v = w
      <4>1. i # k
        BY Zenon, <2>3, <3>2 DEF Place
      <4> QED BY Zenon, <1>4, <1>6, <2>3, <3>2, <4>1, Places
    <3> QED BY Zenon, <3>1, <3>2
  <2> QED BY Zenon, <1>4, <2>2, <2>3, Places
<1>10. ASSUME NEW x, NEW v, NEW z, NEW i, NEW j, Place(R, x, v, i), Place(R, x, z, j)
       PROVE  v = z /\ i = j
  <2>1. \E a : Place(Q, x, v, a)
    BY Zenon, <1>5, <1>7, <1>10
  <2>2. \E a : Place(Q, x, z, a)
    BY Zenon, <1>5, <1>7, <1>10
  <2>3. v = z
    BY Zenon, <1>8, <2>1, <2>2
  <2>4. CASE v # w
    BY ZenonT(30), <1>7, <1>8, <1>10, <2>3, <2>4
  <2>5. CASE v = w
    <3>1. \/ i \in Nat /\ i < k /\ Place(Q, x, w, i)
          \/ i \in Nat /\ i >= k /\ Place(Q, x, w, i + 1)
      BY Zenon, <1>5, <1>10, <2>5
    <3>2. \/ j \in Nat /\ j < k /\ Place(Q, x, w, j)
          \/ j \in Nat /\ j >= k /\ Place(Q, x, w, j + 1)
      BY Zenon, <1>5, <1>10, <2>3, <2>5
    <3>3. \A a, b : Place(Q, x, w, a) /\ Place(Q, x, w, b) => a = b
      BY Zenon, <1>8
    <3>4. i = j
      BY <3>1, <3>2, <3>3
    <3> QED BY Zenon, <2>3, <3>4
  <2> QED BY Zenon, <2>4, <2>5
<1> QED BY Zenon, <1>4, <1>9, <1>10, Places DEF Without

-----------------------------------------------------------------------------
\* The queues of the hub, now and after a step.
LEMMA QueuesNow ==
  ASSUME HubTypeOK
  PROVE  /\ queue \in Queues /\ (QueuedOnce => Once(queue))
         /\ \A x : Queued(x) <=> In(queue, x)
BY Zenon DEF HubTypeOK, Queues, QueuedOnce, Once, Queued, In

\* The same after a step.
LEMMA QueuesNext == \A x : Queued(x)' <=> In(queue', x)
BY Zenon DEF Queued, In

\* An entry still waits in one place.
LEMMA OnceNext ==
  ASSUME Once(queue'), ~Admin' => \A x \in walk'.resolved : ~In(queue', x) PROVE QueuedOnce'
BY Zenon, QueuesNext DEF QueuedOnce, Once

\* One more entry waits.
LEMMA OneMoreWaits ==
  ASSUME NEW E \in [Messages -> Entries], NEW F \in [Messages -> Entries],
         NEW S \in SUBSET Messages, IsFiniteSet(S), NEW m \in Messages, m \notin S,
         \A x \in S : F[x].pending = E[x].pending
  PROVE  \E p \in Nat, f \in Nat :
           /\ p = Cardinality(PendingIn(E, S)) /\ f = Cardinality(F[m].pending)
           /\ Cardinality(PendingIn(F, S \union {m})) = p + f
<1>1. PendingIn(F, S) = PendingIn(E, S)
  BY Zenon, PendingSame
<1>2. Cardinality(PendingIn(F, {m})) = Cardinality(F[m].pending) /\ Cardinality(F[m].pending) \in Nat
  BY Zenon, PendingOne
<1>3. Cardinality(PendingIn(E, S)) \in Nat
  BY Zenon, PendingCounts
<1>4. IsFiniteSet({m}) /\ {m} \in SUBSET Messages /\ \A x \in S : x \notin {m}
  BY Zenon, FS_Singleton
<1>5. Cardinality(PendingIn(F, S \union {m})) =
        Cardinality(PendingIn(F, S)) + Cardinality(PendingIn(F, {m}))
  BY Zenon, <1>4, PendingApart
<1> QED BY Zenon, <1>1, <1>2, <1>3, <1>5

\* The counters of the hub.
LEMMA StatsTyped == ASSUME NEW s \in Counters PROVE Charged(s) \in Int /\ s.queued \in Int
BY DEF Counters, Charged

\* Counting queued targets charges no other counter.
LEMMA StatsQueued ==
  ASSUME NEW s \in Counters, NEW k \in Int
  PROVE  LET r == [s EXCEPT !.queued = k]
         IN r \in Counters /\ r.queued = k /\ Charged(r) = Charged(s)
<1>1. PICK r : r = [s EXCEPT !.queued = k]
  BY Zenon
<1>2. /\ r \in Counters /\ r.queued = k /\ r.delivered = s.delivered /\ r.gone = s.gone
      /\ r.expired = s.expired /\ r.shutdown = s.shutdown
  BY Zenon, <1>1 DEF Counters
<1> QED BY Zenon, <1>1, <1>2 DEF Charged

\* A parked send is queued once, with one reference for its queue and one for its sender.
LEMMA ParkCounts ==
  ASSUME HubAssumption, IInv, IInv', Counted, NEW w \in Workers, NEW m \in Messages,
         NEW hit \in SUBSET Slots, NEW blocking \in BOOLEAN, Park(w, m, hit, blocking)
  PROVE  Counted'
<1> DEFINE landed == {s \in Addressed(w, hit) : Accepts(s)}
           full == Addressed(w, hit) \ landed
<1>1. landed \in SUBSET Slots /\ full \in SUBSET Slots /\ \A s \in landed : inbox[s] # None
  BY Zenon DEF Addressed
<1>2. /\ sender[m].state = "idle" /\ Post(landed, "publish", m) /\ walk = None
      /\ refs' = [refs EXCEPT ![m] = Cardinality(landed) + 1]
      /\ entry' = [entry EXCEPT ![m] = NewEntry(full, blocking)]
      /\ queue' = [queue EXCEPT ![w] = Append(queue[w], m)]
      /\ sender' = [sender EXCEPT ![m] =
                      IF blocking THEN [state |-> "parked", by |-> w] ELSE Over("done")]
      /\ stats' = [stats EXCEPT !.queued = stats.queued + Cardinality(full)]
      /\ UNCHANGED <<walk, query>>
  BY Zenon DEF Park, Enqueue, Admin
<1>3. /\ HubTypeOK /\ HubTypeOK' /\ Published
      /\ entry \in [Messages -> Entries] /\ entry' \in [Messages -> Entries]
  BY Zenon DEF IInv, HubTypeOK
<1> HIDE DEF landed, full
<1>4. PICK n \in Nat : n = Cardinality(landed) /\ Added(box, box', "publish", m, n)
  BY Zenon, <1>1, <1>2, <1>3, FanCounts
<1>5. MoreCopies("publish", m, n)
  BY Zenon, <1>3, <1>4, AddedNext
<1>6. AllCopies("publish", m) = 0 /\ ~Owned(m)
  BY Zenon, <1>2, <1>3, Unsent
<1>7. /\ queue \in Queues /\ Once(queue) /\ ~In(queue, m)
      /\ \A x : Owned(x) <=> In(queue, x)
  BY Zenon, <1>2, <1>3, <1>6, QueuesNow DEF Counted, Owned, Admin
<1>8. Once(queue') /\ \A x : In(queue', x) <=> In(queue, x) \/ x = m
  <2>1. PICK Q, R : Q \in Queues /\ Q = queue /\ R = queue' /\ R = [Q EXCEPT ![w] = Append(Q[w], m)]
    BY Zenon, <1>2, <1>7
  <2>2. Once(Q) /\ ~In(Q, m)
    BY Zenon, <1>7, <2>1
  <2>3. Once(R) /\ \A x : In(R, x) <=> In(Q, x) \/ x = m
    BY ZenonT(30), <2>1, <2>2, OnceLinked
  <2> QED BY Zenon, <2>1, <2>3
<1>9. QueuedOnce' /\ \A x : Owned(x)' <=> In(queue', x)
  <2>1. Admin'
    BY Zenon, <1>2 DEF Admin
  <2>2. \A x : Owned(x)' <=> In(queue', x)
    BY Zenon, <2>1, QueuesNext DEF Owned
  <2> QED BY Zenon, <1>8, <2>1, <2>2, OnceNext
<1>10. PICK f \in Nat : f = Cardinality(full) /\ Cardinality(entry'[m].pending) = f
  <2>1. IsFiniteSet(full) /\ Cardinality(full) \in Nat
    BY Zenon, <1>1, FS_Subset, FS_CardinalityType DEF HubAssumption
  <2>2. entry'[m].pending = {Target(s) : s \in full}
    BY Zenon, <1>2, <1>3 DEF NewEntry
  <2> QED BY Zenon, <1>1, <1>3, <2>1, <2>2, TargetsCount
<1>11. /\ refs' \in [Messages -> Int] /\ refs'[m] = n + 1
       /\ \A x \in Messages : x # m => refs'[x] = refs[x]
  BY <1>2, <1>4 DEF Counted, CountsTyped
<1>12. /\ \A x \in Messages : x # m => sender'[x] = sender[x] /\ entry'[x] = entry[x]
       /\ sender'[m].state = IF blocking THEN "parked" ELSE "done"
       /\ entry'[m].refcount = IF blocking THEN 2 ELSE 1
  <2>1. sender \in [Messages -> Senders]
    BY ZenonT(30), <1>3 DEF HubTypeOK, Senders
  <2> QED BY Zenon, <1>2, <1>3, <2>1 DEF Over, NewEntry
<1>13. MsgHeld(m)'
  <2>1. AllCopies("publish", m)' = n /\ Owned(m)'
    BY <1>5, <1>6, <1>8, <1>9 DEF MoreCopies
  <2> QED BY <1>11, <1>12, <2>1 DEF MsgHeld, Bit
<1>14. ASSUME NEW x \in Messages, x # m PROVE MsgHeld(x)'
  <2>1. AllCopies("publish", x)' = AllCopies("publish", x) /\ Owned(x)' = Owned(x)
    BY Zenon, <1>5, <1>7, <1>8, <1>9, <1>14 DEF MoreCopies, Owned
  <2> QED BY ZenonT(30), <1>11, <1>12, <1>14, <2>1, MsgSame DEF Counted, Held
<1>15. \A q \in Queries : AskHeld(q)'
  BY Zenon, <1>2, <1>5, AsksSame DEF MoreCopies
<1>16. CountsTyped' /\ RetryAccounting'
  <2>1. Waiting' = Waiting \union {m} /\ m \notin Waiting /\ Waiting \in SUBSET Messages
        /\ IsFiniteSet(Waiting)
    <3>1. \A x \in Messages : (x \in Waiting' <=> In(queue', x)) /\ (x \in Waiting <=> In(queue, x))
      BY Zenon, <1>3, QueuesNow, QueuesNext DEF Waiting
    <3>2. Waiting' \in SUBSET Messages
      BY Zenon DEF Waiting
    <3> QED BY Zenon, <1>3, <1>7, <1>8, <3>1, <3>2, WaitingFinite
  <2>2. PICK p \in Nat : /\ p = Cardinality(PendingIn(entry, Waiting))
                         /\ Cardinality(PendingIn(entry', Waiting')) = p + f
    <3>1. \A x \in Waiting : entry'[x].pending = entry[x].pending
      BY Zenon, <1>12, <2>1
    <3>2. PICK p \in Nat, g \in Nat :
            /\ p = Cardinality(PendingIn(entry, Waiting)) /\ g = Cardinality(entry'[m].pending)
            /\ Cardinality(PendingIn(entry', Waiting \union {m})) = p + g
      <4>1. PICK E \in [Messages -> Entries], F \in [Messages -> Entries], S \in SUBSET Messages :
              E = entry /\ F = entry' /\ S = Waiting
        BY Zenon, <1>3, <2>1
      <4>2. \E p \in Nat, g \in Nat :
              /\ p = Cardinality(PendingIn(E, S)) /\ g = Cardinality(F[m].pending)
              /\ Cardinality(PendingIn(F, S \union {m})) = p + g
        BY <2>1, <3>1, <4>1, OneMoreWaits
      <4> QED BY Zenon, <4>1, <4>2
    <3> QED BY Zenon, <1>10, <2>1, <3>2
  <2>3. stats \in Counters /\ Walked = 0 /\ Walked' = 0
    BY Zenon, <1>2 DEF Counted, CountsTyped, Walked, Admin
  <2>4. /\ stats' \in Counters /\ stats'.queued = stats.queued + f /\ Charged(stats') = Charged(stats)
        /\ Charged(stats) \in Int
    <3>1. PICK k \in Int : k = stats.queued + f
      BY <2>3 DEF Counters
    <3>2. stats' = [stats EXCEPT !.queued = k]
      BY Zenon, <1>2, <1>10, <3>1
    <3> QED BY Zenon, <2>3, <3>1, <3>2, StatsTyped, StatsQueued
  <2>5. stats.queued = Charged(stats) + 0 + p
    BY Zenon, <2>2, <2>3, Accounts DEF Counted, Balanced
  <2>6. stats'.queued = Charged(stats') + 0 + (p + f)
    BY <2>4, <2>5
  <2>7. Balanced(stats', Walked', entry', Waiting')
    BY Zenon, <2>2, <2>3, <2>6 DEF Balanced
  <2> QED BY Zenon, <1>11, <2>4, <2>7, AccountsNext DEF CountsTyped
<1> QED BY Zenon, <1>9, <1>13, <1>14, <1>15, <1>16 DEF Counted, Held

\* A tick begins with nothing resolved and nothing counted.
LEMMA TickCounts ==
  ASSUME HubAssumption, IInv, IInv', Counted, NEW w \in Workers, Tick(w) PROVE Counted'
<1>1. /\ walk = None /\ walk'.resolved = {} /\ walk'.delivered = 0 /\ walk'.gone = 0 /\ walk'.expired = 0
      /\ UNCHANGED <<box, queue, entry, sender, refs, query, stats>>
  BY Zenon DEF Tick, Admin
<1>2. \A k, x : AllCopies(k, x)' = AllCopies(k, x)
  BY Zenon, <1>1 DEF AllCopies, Copies
<1>3. HubTypeOK
  BY Zenon DEF IInv
<1>4. \A x : (Queued(x)' <=> Queued(x)) /\ (Owned(x)' <=> Owned(x))
  BY Zenon, <1>1 DEF Queued, Owned, Admin
<1>5. QueuedOnce'
  <2>1. Once(queue')
    BY ZenonT(30), <1>1, <1>3, QueuesNow DEF Counted
  <2> QED BY Zenon, <1>1, <2>1, OnceNext
<1>6. \A m \in Messages : MsgHeld(m)'
  BY Zenon, <1>1, <1>2, <1>4, MsgSame DEF Counted, Held, Owned
<1>7. \A q \in Queries : AskHeld(q)'
  BY Zenon, <1>1, <1>2, AsksSame
<1>8. Walked = 0 /\ Walked' = 0 /\ Waiting' = Waiting
  <2>1. Walked = 0 /\ Walked' = 0
    BY <1>1 DEF Walked, Admin
  <2> QED BY ZenonT(30), <1>4, <2>1 DEF Waiting
<1>9. RetryAccounting' /\ CountsTyped'
  BY Zenon, <1>1, <1>8, Accounts, AccountsNext DEF Counted, CountsTyped, Balanced
<1> QED BY Zenon, <1>5, <1>6, <1>7, <1>9 DEF Counted, Held

\* The walk after an entry.
WalkIs(s, r, d, g, e) ==
  s \in Walks /\ s.resolved = r /\ s.delivered = d /\ s.gone = g /\ s.expired = e
LEMMA WalkOn ==
  ASSUME NEW k \in Walks, NEW at \in Nat \ {0}, NEW r \in SUBSET Messages, NEW d \in Int,
         NEW g \in Int, NEW e \in Int
  PROVE  WalkIs([k EXCEPT !.at = at, !.resolved = r, !.delivered = d, !.gone = g, !.expired = e],
                r, d, g, e)
BY Zenon DEF Walks, WalkIs

\* An entry served by a tick is charged target by target, and moves out of its queue once
\* resolved.
LEMMA TickEntryCounts == ASSUME HubAssumption, IInv, IInv', Counted, TickEntry PROVE Counted'
<1>1. walk # None /\ walk \in Walks
  BY Zenon DEF TickEntry, Admin, IInv, HubTypeOK
<1>2. PICK w \in Workers : w = walk.by
  BY Zenon, <1>1 DEF Walks
<1>3. queue[w] \in Seq(Messages) /\ walk.at \in 1 .. Len(queue[w])
  <2>1. walk.at <= Len(queue[w]) /\ walk.at \in Nat \ {0}
    BY Zenon, <1>1, <1>2 DEF TickEntry, Walks
  <2>2. queue[w] \in Seq(Messages)
    BY Zenon DEF IInv, HubTypeOK
  <2> QED BY <2>1, <2>2
<1>4. PICK m \in Messages : m = queue[w][walk.at]
  BY <1>3
<1> DEFINE pending == entry[m].pending
           gone == {t \in pending : IsGone(t)}
           landed == {t \in pending \ gone : Accepts(t.slot)}
           kept == pending \ (gone \cup landed)
           done == kept = {} \/ m \in walk.late
<1>5. /\ PostTo(landed, "publish", m)
      /\ refs' = [refs EXCEPT ![m] = refs[m] + Cardinality(landed)]
      /\ entry' = [entry EXCEPT ![m].pending = kept]
      /\ queue' = [queue EXCEPT ![w] = IF done THEN Unlink(@, walk.at) ELSE @]
      /\ walk' = [walk EXCEPT !.at = IF done THEN @ ELSE @ + 1,
                              !.resolved = IF done THEN @ \cup {m} ELSE @,
                              !.delivered = @ + Cardinality(landed),
                              !.gone = @ + Cardinality(gone),
                              !.expired = @ + IF done THEN Cardinality(kept) ELSE 0]
      /\ UNCHANGED <<sender, query, stats>>
  BY Zenon, <1>2, <1>4 DEF TickEntry
<1>6. /\ HubTypeOK /\ HubTypeOK' /\ Published
      /\ entry \in [Messages -> Entries] /\ entry' \in [Messages -> Entries]
      /\ pending \in SUBSET Targets /\ IsFiniteSet(pending)
  BY ZenonT(30) DEF IInv, HubTypeOK, Entries, Parked
<1>7. /\ landed \in SUBSET Targets /\ pending = kept \union (gone \union landed)
      /\ kept \subseteq pending /\ gone \subseteq pending /\ landed \subseteq pending
      /\ \A t \in landed : gen[t.slot] = t.gen /\ inbox[t.slot] # None
      /\ (\A t \in gone : t \notin landed) /\ \A t \in kept : t \notin gone \union landed
  BY Zenon, <1>6 DEF IsGone
<1> HIDE DEF pending, gone, landed, kept, done
<1>8. IsFiniteSet(gone) /\ IsFiniteSet(landed) /\ IsFiniteSet(kept) /\ IsFiniteSet(gone \union landed)
  BY Zenon, <1>6, <1>7, FS_Subset, FS_Union
<1>9. PICK ng \in Nat, nl \in Nat, nk \in Nat :
        /\ ng = Cardinality(gone) /\ nl = Cardinality(landed) /\ nk = Cardinality(kept)
        /\ Cardinality(pending) = nk + (ng + nl)
  <2>1. Cardinality(gone) \in Nat /\ Cardinality(landed) \in Nat /\ Cardinality(kept) \in Nat
    BY Zenon, <1>8, FS_CardinalityType
  <2>2. Cardinality(gone \union landed) = Cardinality(gone) + Cardinality(landed)
    BY Zenon, <1>7, <1>8, Apart
  <2>3. Cardinality(pending) = Cardinality(kept) + Cardinality(gone \union landed)
    BY Zenon, <1>7, <1>8, Apart
  <2> QED BY Zenon, <2>1, <2>2, <2>3
<1>10. MoreCopies("publish", m, nl)
  <2>1. Added(box, box', "publish", m, Cardinality(landed))
    BY Zenon, <1>5, <1>6, <1>7, <1>8, PostCounts
  <2> QED BY Zenon, <1>6, <1>9, <2>1, AddedNext
<1>11. /\ entry'[m].pending = kept /\ entry'[m].refcount = entry[m].refcount
       /\ \A n \in Messages : n # m => entry'[n] = entry[n]
  <2>1. entry' = [entry EXCEPT ![m] = [entry[m] EXCEPT !.pending = kept]]
    BY Zenon, <1>5
  <2> QED BY Zenon, <1>6, <2>1 DEF Entries
<1>12. PICK walked \in Int : Walked = walked /\ walked = walk.delivered + walk.gone + walk.expired
  BY <1>1 DEF Walked, Admin, Walks
<1>13. /\ walk' # None
       /\ done => walk'.resolved = walk.resolved \union {m} /\ Walked' = walked + (nk + (ng + nl))
       /\ ~done => walk'.resolved = walk.resolved /\ Walked' = walked + (ng + nl)
  <2>1. PICK d0 \in Int, g0 \in Int, e0 \in Int :
          d0 = walk.delivered /\ g0 = walk.gone /\ e0 = walk.expired
    BY Zenon, <1>1 DEF Walks
  <2> DEFINE r == walk.resolved \union {m}
             d == d0 + nl
             g == g0 + ng
             e == e0 + nk
             z == e0 + 0
  <2>2. /\ walk.at \in Nat \ {0} /\ walk.at + 1 \in Nat \ {0}
        /\ walk.resolved \in SUBSET Messages /\ r \in SUBSET Messages
    BY <1>1, <1>3 DEF Walks
  <2>3. d \in Int /\ g \in Int /\ e \in Int /\ z \in Int
    OBVIOUS
  <2>4. walk' \in Walks => Walked' = walk'.delivered + walk'.gone + walk'.expired
    BY Zenon DEF Walked, Admin, HubAssumption
  <2>7. walked = d0 + g0 + e0
    BY Zenon, <1>12, <2>1
  <2>5. CASE done
    <3>1. walk' = [walk EXCEPT !.at = walk.at, !.resolved = r, !.delivered = d, !.gone = g,
                               !.expired = e]
      BY Zenon, <1>5, <1>9, <2>1, <2>5
    <3> HIDE DEF r, d, g, e, z
    <3>2. WalkIs(walk', r, d, g, e)
      BY Zenon, <1>1, <2>2, <2>3, <3>1, WalkOn
    <3>3. d + g + e = walked + (nk + (ng + nl))
      BY <2>7 DEF d, g, e
    <3> QED BY Zenon, <2>4, <2>5, <3>2, <3>3 DEF r, HubAssumption, WalkIs
  <2>6. CASE ~done
    <3>1. walk' = [walk EXCEPT !.at = walk.at + 1, !.resolved = walk.resolved, !.delivered = d,
                               !.gone = g, !.expired = z]
      BY Zenon, <1>5, <1>9, <2>1, <2>6
    <3> HIDE DEF r, d, g, e, z
    <3>2. WalkIs(walk', walk.resolved, d, g, z)
      BY Zenon, <1>1, <2>2, <2>3, <3>1, WalkOn
    <3>3. d + g + z = walked + (ng + nl)
      BY <2>7 DEF d, g, z
    <3> QED BY Zenon, <2>4, <2>6, <3>2, <3>3 DEF HubAssumption, WalkIs
  <2> QED BY Zenon, <2>5, <2>6
<1>14. /\ queue \in Queues /\ Once(queue) /\ In(queue, m) /\ (\A x \in walk.resolved : ~In(queue, x))
  <2>1. queue \in Queues /\ Once(queue) /\ \A x : Queued(x) <=> In(queue, x)
    BY Zenon, <1>6, QueuesNow DEF Counted
  <2>2. m \in Range(queue[w])
    <3>1. DOMAIN queue[w] = 1 .. Len(queue[w])
      BY <1>3
    <3> QED BY Zenon, <1>3, <1>4, <3>1 DEF Range
  <2>3. ~Admin => \A x \in walk.resolved : ~Queued(x)
    BY Zenon DEF Counted, QueuedOnce
  <2> QED BY Zenon, <1>1, <2>1, <2>2, <2>3 DEF In, Admin
<1>15. /\ Once(queue')
       /\ done => \A x : In(queue', x) <=> In(queue, x) /\ x # m
       /\ ~done => queue' = queue
  <2>1. CASE done
    <3>1. PICK Q, R : Q \in Queues /\ Q = queue /\ R = queue' /\ R = [Q EXCEPT ![w] = Unlink(Q[w], walk.at)]
      BY Zenon, <1>5, <1>14, <2>1
    <3>2. PICK k \in 1 .. Len(Q[w]) : Once(Q) /\ k = walk.at
      BY Zenon, <1>3, <1>14, <3>1
    <3>4. R = [Q EXCEPT ![w] = Unlink(Q[w], k)]
      BY Zenon, <3>1, <3>2
    <3>3. Without(Q, R, Q[w][k])
      BY Zenon, <3>1, <3>2, <3>4, OnceUnlinked
    <3> QED BY Zenon, <1>4, <2>1, <3>1, <3>2, <3>3 DEF Without
  <2>2. CASE ~done
    <3>1. queue' = [queue EXCEPT ![w] = queue[w]]
      BY Zenon, <1>5, <2>2
    <3>2. queue' = queue
      BY Zenon, <1>14, <3>1 DEF Queues
    <3> QED BY Zenon, <1>14, <2>2, <3>2
  <2> QED BY Zenon, <2>1, <2>2
<1>16. QueuedOnce' /\ \A x : Owned(x)' <=> Owned(x)
  <2>1. \A x : Owned(x) <=> In(queue, x) \/ x \in walk.resolved
    BY Zenon, <1>1, <1>6, QueuesNow DEF Owned, Admin
  <2>2. \A x : Owned(x)' <=> In(queue', x) \/ x \in walk'.resolved
    BY Zenon, <1>13, QueuesNext DEF Owned, Admin
  <2>3. CASE done
    <3>1. \A x : Owned(x)' <=> Owned(x)
      BY Zenon, <1>13, <1>14, <1>15, <2>1, <2>2, <2>3
    <3>2. \A x \in walk'.resolved : ~In(queue', x)
      BY Zenon, <1>13, <1>14, <1>15, <2>3
    <3> QED BY ZenonT(30), <1>15, <3>1, <3>2, OnceNext
  <2>4. CASE ~done
    <3>1. \A x : Owned(x)' <=> Owned(x)
      BY Zenon, <1>13, <1>15, <2>1, <2>2, <2>4
    <3>2. \A x \in walk'.resolved : ~In(queue', x)
      BY Zenon, <1>13, <1>14, <1>15, <2>4
    <3> QED BY Zenon, <1>15, <3>1, <3>2, OnceNext
  <2> QED BY Zenon, <2>3, <2>4
<1>17. PICK k \in Int : k = refs[m]
  BY Zenon DEF Counted, CountsTyped
<1>18. /\ refs' \in [Messages -> Int] /\ refs'[m] = k + nl
       /\ \A x \in Messages : x # m => refs'[x] = refs[x]
  BY <1>5, <1>9, <1>17 DEF Counted, CountsTyped
<1>19. MsgHeld(m)'
  <2>1. PICK a \in Nat : a = AllCopies("publish", m) /\ AllCopies("publish", m)' = a + nl
    BY Zenon, <1>6, <1>10, CopiesNow DEF MoreCopies
  <2>2. MsgHeld(m)
    BY Zenon DEF Counted, Held
  <2>3. PICK b \in {0, 1} : b = Bit(Owned(m)) /\ b = Bit(Owned(m)')
    BY Zenon, <1>16 DEF Bit
  <2>4. k = a + b /\ k + nl = (a + nl) + b
    BY SMTT(30), <1>17, <2>1, <2>2, <2>3 DEF MsgHeld
  <2>5. sender[m].state # "idle"
    <3>1. Owned(m)
      BY Zenon, <1>6, <1>14, QueuesNow DEF Owned
    <3>2. b = 1
      BY Zenon, <2>3, <3>1 DEF Bit
    <3>3. k # 0
      BY <2>4, <3>2
    <3>4. sender[m].state = "idle" => refs[m] = 0
      BY Zenon, <2>2 DEF MsgHeld
    <3> QED BY Zenon, <1>17, <3>3, <3>4
  <2> QED BY Zenon, <1>5, <1>11, <1>18, <2>1, <2>2, <2>3, <2>4, <2>5 DEF MsgHeld
<1>20. ASSUME NEW x \in Messages, x # m PROVE MsgHeld(x)'
  <2>1. AllCopies("publish", x)' = AllCopies("publish", x)
    BY Zenon, <1>10, <1>20 DEF MoreCopies
  <2>2. Owned(x)' = Owned(x)
    BY Zenon, <1>16 DEF Owned
  <2> QED BY Zenon, <1>5, <1>11, <1>18, <1>20, <2>1, <2>2, MsgSame DEF Counted, Held
<1>21. \A q \in Queries : AskHeld(q)'
  BY Zenon, <1>5, <1>10, AsksSame DEF MoreCopies
<1>22. RetryAccounting'
  <2> DEFINE S == Waiting \ {m}
  <2>1. /\ m \in Waiting /\ Waiting \in SUBSET Messages /\ IsFiniteSet(Waiting)
        /\ \A x \in Messages : (x \in Waiting' <=> In(queue', x)) /\ (x \in Waiting <=> In(queue, x))
        /\ Waiting' \in SUBSET Messages
    BY Zenon, <1>6, <1>14, QueuesNow, QueuesNext, WaitingFinite DEF Waiting
  <2>2. /\ S \in SUBSET Messages /\ m \notin S /\ IsFiniteSet(S) /\ Waiting = S \union {m}
    BY Zenon, <2>1, FS_Subset
  <2>3. (done => Waiting' = S) /\ (~done => Waiting' = S \union {m})
    BY Zenon, <1>15, <2>1
  <2>4. (\A x \in S : entry[x].pending = entry[x].pending) /\ \A x \in S : entry'[x].pending = entry[x].pending
    BY Zenon, <1>11, <2>2
  <2> HIDE DEF S
  <2>5. PICK p \in Nat : /\ p = Cardinality(PendingIn(entry, S))
                         /\ Cardinality(PendingIn(entry, Waiting)) = p + (nk + (ng + nl))
                         /\ Cardinality(PendingIn(entry', S \union {m})) = p + nk
    <3>1. \E a \in Nat, f \in Nat :
            /\ a = Cardinality(PendingIn(entry, S)) /\ f = Cardinality(entry[m].pending)
            /\ Cardinality(PendingIn(entry, S \union {m})) = a + f
      BY <1>6, <2>2, <2>4, OneMoreWaits
    <3>2. \E a \in Nat, f \in Nat :
            /\ a = Cardinality(PendingIn(entry, S)) /\ f = Cardinality(entry'[m].pending)
            /\ Cardinality(PendingIn(entry', S \union {m})) = a + f
      BY <1>6, <2>2, <2>4, OneMoreWaits
    <3> QED BY Zenon, <1>9, <1>11, <2>2, <3>1, <3>2 DEF pending
  <2>6. PendingIn(entry', S) = PendingIn(entry, S)
    BY Zenon, <2>4, PendingSame
  <2>7. PICK c \in Int : c = Charged(stats)
    BY Zenon, StatsTyped DEF Counted, CountsTyped
  <2>8. stats.queued = c + walked + (p + (nk + (ng + nl)))
    BY Zenon, <1>12, <2>5, <2>7, Accounts DEF Counted, Balanced
  <2>9. CASE done
    <3>1. c + walked + (p + (nk + (ng + nl))) = c + (walked + (nk + (ng + nl))) + p
      OBVIOUS
    <3> QED BY Zenon, <1>5, <1>13, <2>3, <2>5, <2>6, <2>7, <2>8, <2>9, <3>1, AccountsNext DEF Balanced
  <2>10. CASE ~done
    <3>1. c + walked + (p + (nk + (ng + nl))) = c + (walked + (ng + nl)) + (p + nk)
      OBVIOUS
    <3> QED BY Zenon, <1>5, <1>13, <2>3, <2>5, <2>7, <2>8, <2>10, <3>1, AccountsNext DEF Balanced
  <2> QED BY Zenon, <2>9, <2>10
<1>23. CountsTyped'
  BY Zenon, <1>5, <1>18 DEF Counted, CountsTyped
<1> QED BY Zenon, <1>16, <1>19, <1>20, <1>21, <1>22, <1>23 DEF Counted, Held

\* What retry_entry_finish takes from the entries of S.
LEMMA Finishes ==
  ASSUME IInv, Counted, NEW S, NEW down \in BOOLEAN, Finish(S, down), NEW m \in Messages
  PROVE  /\ m \notin S => entry'[m] = entry[m] /\ refs'[m] = refs[m] /\ sender'[m] = sender[m]
         /\ m \in S => /\ entry'[m].refcount = entry[m].refcount - 1 /\ refs'[m] = refs[m] - 1
                       /\ sender'[m].state \in {"parked", "woken"} <=> sender[m].state \in {"parked", "woken"}
                       /\ sender'[m].state = "idle" => sender[m].state = "idle"
<1>1. /\ entry'[m] = IF m \in S
                     THEN EntryRelease([entry[m] EXCEPT !.waiter = @ /\ ~Fires(m), !.shutdown = @ \/ down])
                     ELSE entry[m]
      /\ refs'[m] = IF m \in S THEN refs[m] - 1 ELSE refs[m]
      /\ sender'[m] = IF m \in S /\ Fires(m) THEN [sender[m] EXCEPT !.state = "woken"] ELSE sender[m]
  BY Zenon DEF Finish
<1>2. entry[m] \in Entries /\ sender[m] \in Senders /\ (Fires(m) => sender[m].state = "parked")
      /\ Fires(m) \in BOOLEAN
  BY Zenon DEF IInv, HubTypeOK, OnlyParkedFires, Senders, Fires, Entries
<1>3. ASSUME m \in S PROVE entry'[m].refcount = entry[m].refcount - 1
  <2>1. PICK e : e = [entry[m] EXCEPT !.waiter = @ /\ ~Fires(m), !.shutdown = @ \/ down]
    BY Zenon
  <2>2. e \in Entries /\ e.refcount = entry[m].refcount
    <3>1. PICK a \in BOOLEAN, b \in BOOLEAN :
            a = (entry[m].waiter /\ ~Fires(m)) /\ b = (entry[m].shutdown \/ down)
      BY ZenonT(30), <1>2
    <3>2. e = [entry[m] EXCEPT !.waiter = a, !.shutdown = b]
      BY Zenon, <2>1, <3>1
    <3> QED BY Zenon, <1>2, <3>2 DEF Entries
  <2>3. EntryRelease(e).refcount = e.refcount - 1
    BY Zenon, <2>2, ReleaseCounts
  <2> QED BY Zenon, <1>1, <1>3, <2>1, <2>2, <2>3
<1>4. Fires(m) => [sender[m] EXCEPT !.state = "woken"].state = "woken"
  BY Zenon, <1>2 DEF Senders
<1> QED BY Zenon, <1>1, <1>2, <1>3, <1>4

\* The entries of S give up what they owned.
LEMMA FinishCounts ==
  ASSUME HubAssumption, IInv, Counted, NEW S, NEW down \in BOOLEAN, Finish(S, down), UNCHANGED box,
         \A m \in Messages : /\ m \in S => Owned(m) /\ ~Owned(m)'
                             /\ m \notin S => Owned(m)' = Owned(m)
  PROVE  (\A m \in Messages : MsgHeld(m)') /\ refs' \in [Messages -> Int]
<1>1. \A m \in Messages : AllCopies("publish", m)' = AllCopies("publish", m)
  BY Zenon DEF AllCopies, Copies
<1>2. refs \in [Messages -> Int] /\ HubTypeOK
  BY Zenon DEF Counted, CountsTyped, IInv
<1>3. refs' \in [Messages -> Int]
  <2>1. refs' = [m \in Messages |-> IF m \in S THEN refs[m] - 1 ELSE refs[m]]
    BY Zenon DEF Finish
  <2> QED BY <1>2, <2>1
<1>4. ASSUME NEW m \in Messages, m \notin S PROVE MsgHeld(m)'
  <2>1. refs'[m] = refs[m] /\ entry'[m] = entry[m] /\ sender'[m] = sender[m]
    BY Zenon, <1>4, Finishes
  <2> QED BY Zenon, <1>1, <1>4, <2>1, MsgSame DEF Counted, Held
<1>5. ASSUME NEW m \in Messages, m \in S PROVE MsgHeld(m)'
  <2>1. PICK a \in Nat : a = AllCopies("publish", m) /\ a = AllCopies("publish", m)'
    BY Zenon, <1>1, <1>2, CopiesNow
  <2>2. MsgHeld(m) /\ Owned(m) /\ ~Owned(m)'
    BY Zenon, <1>5 DEF Counted, Held
  <2>3. /\ entry'[m].refcount = entry[m].refcount - 1 /\ refs'[m] = refs[m] - 1
        /\ sender'[m].state \in {"parked", "woken"} <=> sender[m].state \in {"parked", "woken"}
        /\ sender'[m].state = "idle" => sender[m].state = "idle"
    BY Zenon, <1>5, Finishes
  <2>4. Bit(Owned(m)) = 1 /\ Bit(Owned(m)') = 0
    BY Zenon, <2>2 DEF Bit
  <2>5. PICK b \in {0, 1} : /\ b = Bit(sender[m].state \in {"parked", "woken"})
                            /\ b = Bit(sender'[m].state \in {"parked", "woken"})
    BY Zenon, <2>3 DEF Bit
  <2>6. refs[m] = a + 1 /\ entry[m].refcount = 1 + b
    BY Zenon, <2>1, <2>2, <2>4, <2>5 DEF MsgHeld
  <2>7. refs'[m] = a + 0 /\ entry'[m].refcount = 0 + b /\ refs[m] # 0
    BY <2>3, <2>6
  <2>8. sender[m].state # "idle"
    BY Zenon, <2>2, <2>7 DEF MsgHeld
  <2> QED BY Zenon, <2>1, <2>3, <2>4, <2>5, <2>7, <2>8 DEF MsgHeld
<1> QED BY Zenon, <1>3, <1>4, <1>5

\* A tick that ends gives back what it resolved and charges the statistics.
LEMMA TickEndCounts == ASSUME HubAssumption, IInv, IInv', Counted, TickEnd PROVE Counted'
<1>1. walk # None /\ walk \in Walks /\ HubTypeOK
  BY Zenon DEF TickEnd, Admin, IInv, HubTypeOK
<1>2. PICK S : S = walk.resolved
  BY Zenon
<1>3. /\ Finish(S, FALSE) /\ walk' = None
      /\ stats' = [stats EXCEPT !.delivered = @ + walk.delivered, !.gone = @ + walk.gone,
                                !.expired = @ + walk.expired]
      /\ UNCHANGED <<box, queue, query>>
  BY Zenon, <1>2 DEF TickEnd
<1>4. /\ Once(queue) /\ (\A x : Queued(x)' <=> Queued(x)) /\ (\A x \in S : ~Queued(x))
      /\ \A x : (Owned(x) <=> Queued(x) \/ x \in S) /\ (Owned(x)' <=> Queued(x))
  <2>1. Once(queue) /\ ~Admin /\ Admin' /\ \A x : Queued(x)' <=> Queued(x)
    BY Zenon, <1>1, <1>3, QueuesNow DEF Counted, Admin, Queued
  <2>2. \A x \in S : ~Queued(x)
    BY Zenon, <1>2, <2>1 DEF Counted, QueuedOnce
  <2> QED BY Zenon, <1>2, <2>1, <2>2 DEF Owned
<1>5. QueuedOnce'
  <2>1. Once(queue') /\ Admin'
    BY Zenon, <1>3, <1>4 DEF Admin
  <2> QED BY Zenon, <2>1, OnceNext
<1>6. (\A m \in Messages : MsgHeld(m)') /\ refs' \in [Messages -> Int]
  <2>1. \A m \in Messages : /\ m \in S => Owned(m) /\ ~Owned(m)'
                            /\ m \notin S => Owned(m)' = Owned(m)
    BY Zenon, <1>4 DEF Owned
  <2> QED BY Zenon, <1>3, <2>1, FinishCounts
<1>7. \A q \in Queries : AskHeld(q)'
  <2>1. \A k, x : AllCopies(k, x)' = AllCopies(k, x)
    BY Zenon, <1>3 DEF AllCopies, Copies
  <2> QED BY Zenon, <1>3, <2>1, AsksSame
<1>8. PICK d \in Int, g \in Int, e \in Int : d = walk.delivered /\ g = walk.gone /\ e = walk.expired
  BY Zenon, <1>1 DEF Walks
<1>9. PICK s \in Counters : s = stats
  BY Zenon DEF Counted, CountsTyped
<1>10. /\ stats' \in Counters /\ stats'.queued = s.queued
       /\ Charged(stats') = Charged(s) + (d + g + e) /\ Charged(s) \in Int
  <2>1. PICK x \in Int, y \in Int, z \in Int, u \in Int, q \in Int :
          x = s.delivered /\ y = s.gone /\ z = s.expired /\ u = s.shutdown /\ q = s.queued
    BY Zenon, <1>9 DEF Counters
  <2>2. PICK xx \in Int, yy \in Int, zz \in Int : xx = x + d /\ yy = y + g /\ zz = z + e
    OBVIOUS
  <2>3. stats' = [s EXCEPT !.delivered = xx, !.gone = yy, !.expired = zz]
    BY Zenon, <1>3, <1>8, <1>9, <2>1, <2>2
  <2>4. /\ stats' \in Counters /\ stats'.queued = q /\ stats'.delivered = xx /\ stats'.gone = yy
        /\ stats'.expired = zz /\ stats'.shutdown = u
    BY Zenon, <1>9, <2>1, <2>3 DEF Counters
  <2>5. xx + zz + yy + u = (x + z + y + u) + (d + g + e) /\ x + z + y + u \in Int
    BY <2>2
  <2> QED BY Zenon, <2>1, <2>4, <2>5 DEF Charged
<1>11. RetryAccounting'
  <2>1. Walked = d + g + e /\ Walked' = 0 /\ Waiting' = Waiting
    BY Zenon, <1>1, <1>3, <1>4, <1>8 DEF Walked, Admin, Waiting
  <2>2. PendingIn(entry', Waiting) = PendingIn(entry, Waiting)
    <3>1. \A x \in Waiting : x \in Messages /\ x \notin S
      BY Zenon, <1>4 DEF Waiting
    <3>2. \A x \in Waiting : entry'[x] = entry[x]
      BY Zenon, <1>3, <3>1, Finishes
    <3> QED BY Zenon, <3>2, PendingSame
  <2>3. PICK p \in Nat : p = Cardinality(PendingIn(entry, Waiting))
    BY Zenon, <1>1, WaitingFinite, PendingCounts DEF HubTypeOK
  <2>4. PICK c \in Int : c = Charged(s)
    BY Zenon, <1>10
  <2>5. s.queued = c + (d + g + e) + p
    BY Zenon, <1>9, <2>1, <2>3, <2>4, Accounts DEF Counted, Balanced
  <2>6. c + (d + g + e) + p = (c + (d + g + e)) + 0 + p
    OBVIOUS
  <2> QED BY Zenon, <1>10, <2>1, <2>2, <2>3, <2>4, <2>5, <2>6, AccountsNext DEF Balanced
<1> QED BY Zenon, <1>5, <1>6, <1>7, <1>10, <1>11 DEF Counted, Held, CountsTyped

\* topic_hub_detach gives back its mailbox and its queue, and charges what was pending to
\* shutdown.
LEMMA DetachCounts ==
  ASSUME HubAssumption, IInv, IInv', Counted, NEW w \in Workers, Detach(w) PROVE Counted'
<1>1. PICK S : S = Range(queue[w])
  BY Zenon
<1>2. /\ Finish(S, TRUE) /\ walk = None /\ queue' = [queue EXCEPT ![w] = <<>>]
      /\ stats' = [stats EXCEPT !.shutdown = @ + Cardinality(PendingIn(entry, S))]
      /\ UNCHANGED <<box, walk, query>>
  BY Zenon, <1>1 DEF Detach, Teardown, Admin, PendingOf, PendingIn
<1>3. HubTypeOK /\ entry \in [Messages -> Entries] /\ queue \in Queues /\ Once(queue)
      /\ \A x : Queued(x) <=> In(queue, x)
  BY Zenon, QueuesNow DEF IInv, HubTypeOK, Counted
<1>4. Once(queue') /\ \A x : In(queue', x) <=> In(queue, x) /\ x \notin S
  <2>1. PICK Q, R : Q \in Queues /\ Q = queue /\ R = queue' /\ R = [Q EXCEPT ![w] = <<>>]
    BY Zenon, <1>2, <1>3
  <2>2. Once(Q)
    BY Zenon, <1>3, <2>1
  <2>3. Once(R) /\ \A x : In(R, x) <=> In(Q, x) /\ x \notin Range(Q[w])
    BY Zenon, <2>1, <2>2, OnceEmptied
  <2> QED BY Zenon, <1>1, <2>1, <2>3
<1>5. QueuedOnce' /\ \A x : (Owned(x) <=> In(queue, x)) /\ (Owned(x)' <=> In(queue', x))
  <2>1. Admin /\ Admin'
    BY Zenon, <1>2 DEF Admin
  <2> QED BY Zenon, <1>3, <1>4, <2>1, OnceNext, QueuesNext DEF Owned
<1>6. \A x \in S : x \in Messages /\ In(queue, x)
  <2>1. queue[w] \in Seq(Messages)
    BY Zenon, <1>3 DEF Queues
  <2>2. \A x \in Range(queue[w]) : x \in Messages
    BY <2>1 DEF Range
  <2> QED BY Zenon, <1>1, <2>2 DEF In
<1>7. (\A m \in Messages : MsgHeld(m)') /\ refs' \in [Messages -> Int]
  <2>1. \A m \in Messages : /\ m \in S => Owned(m) /\ ~Owned(m)'
                            /\ m \notin S => Owned(m)' = Owned(m)
    BY Zenon, <1>4, <1>5, <1>6 DEF Owned
  <2> QED BY Zenon, <1>2, <2>1, FinishCounts
<1>8. \A q \in Queries : AskHeld(q)'
  <2>1. \A k, x : AllCopies(k, x)' = AllCopies(k, x)
    BY Zenon, <1>2 DEF AllCopies, Copies
  <2> QED BY Zenon, <1>2, <2>1, AsksSame
<1>9. /\ Waiting = S \union Waiting' /\ (\A x \in S : x \notin Waiting')
      /\ S \in SUBSET Messages /\ Waiting' \in SUBSET Messages
      /\ IsFiniteSet(S) /\ IsFiniteSet(Waiting')
  <2>1. \A x \in Messages : (x \in Waiting <=> In(queue, x)) /\ (x \in Waiting' <=> In(queue', x))
    BY Zenon, <1>3, QueuesNext DEF Waiting
  <2>2. Waiting \in SUBSET Messages /\ Waiting' \in SUBSET Messages /\ IsFiniteSet(Waiting)
    BY Zenon, <1>3, WaitingFinite DEF Waiting
  <2>3. S \in SUBSET Waiting /\ Waiting' \in SUBSET Waiting /\ \A x \in S : x \notin Waiting'
    BY Zenon, <1>4, <1>6, <2>1, <2>2
  <2>4. \A x \in Waiting : x \in S \/ x \in Waiting'
    BY Zenon, <1>4, <2>1, <2>2
  <2>5. Waiting = S \union Waiting'
    BY Zenon, <2>3, <2>4
  <2> QED BY Zenon, <2>2, <2>3, <2>5, FS_Subset
<1>10. PICK a \in Nat, b \in Nat : /\ a = Cardinality(PendingIn(entry, S))
                                  /\ b = Cardinality(PendingIn(entry, Waiting'))
                                  /\ Cardinality(PendingIn(entry, Waiting)) = a + b
  <2>1. PICK T \in SUBSET Messages : T = Waiting' /\ IsFiniteSet(T)
    BY Zenon, <1>9
  <2>2. Cardinality(PendingIn(entry, S)) \in Nat /\ Cardinality(PendingIn(entry, T)) \in Nat
    BY Zenon, <1>3, <1>9, <2>1, PendingCounts
  <2>3. Cardinality(PendingIn(entry, S \union T)) =
          Cardinality(PendingIn(entry, S)) + Cardinality(PendingIn(entry, T))
    BY Zenon, <1>3, <1>9, <2>1, PendingApart
  <2> QED BY Zenon, <1>9, <2>1, <2>2, <2>3
<1>11. PICK s \in Counters : s = stats
  BY Zenon DEF Counted, CountsTyped
<1>12. /\ stats' \in Counters /\ stats'.queued = s.queued
       /\ Charged(stats') = Charged(s) + a /\ Charged(s) \in Int
  <2>1. PICK x \in Int, y \in Int, z \in Int, u \in Int, q \in Int :
          x = s.delivered /\ y = s.gone /\ z = s.expired /\ u = s.shutdown /\ q = s.queued
    BY Zenon, <1>11 DEF Counters
  <2>2. PICK uu \in Int : uu = u + a
    OBVIOUS
  <2>3. stats' = [s EXCEPT !.shutdown = uu]
    BY Zenon, <1>2, <1>10, <1>11, <2>1, <2>2
  <2>4. /\ stats' \in Counters /\ stats'.queued = q /\ stats'.delivered = x /\ stats'.gone = y
        /\ stats'.expired = z /\ stats'.shutdown = uu
    BY Zenon, <1>11, <2>1, <2>3 DEF Counters
  <2>5. x + z + y + uu = (x + z + y + u) + a /\ x + z + y + u \in Int
    BY <2>2
  <2> QED BY Zenon, <2>1, <2>4, <2>5 DEF Charged
<1>13. RetryAccounting'
  <2>1. Walked = 0 /\ Walked' = 0
    BY Zenon, <1>2 DEF Walked, Admin
  <2>2. PendingIn(entry', Waiting') = PendingIn(entry, Waiting')
    <3>1. \A x \in Waiting' : x \in Messages /\ x \notin S
      BY Zenon, <1>9
    <3>2. \A x \in Waiting' : entry'[x] = entry[x]
      BY Zenon, <1>2, <3>1, Finishes
    <3> QED BY Zenon, <3>2, PendingSame
  <2>3. PICK c \in Int : c = Charged(s)
    BY Zenon, <1>12
  <2>4. s.queued = c + 0 + (a + b)
    BY Zenon, <1>10, <1>11, <2>1, <2>3, Accounts DEF Counted, Balanced
  <2>5. c + 0 + (a + b) = (c + a) + 0 + b
    OBVIOUS
  <2> QED BY Zenon, <1>10, <1>12, <2>1, <2>2, <2>3, <2>4, <2>5, AccountsNext DEF Balanced
<1> QED BY Zenon, <1>5, <1>7, <1>8, <1>12, <1>13 DEF Counted, Held, CountsTyped
\* Every count is exact at the start.
LEMMA InitCounts == ASSUME HubAssumption, Init PROVE Counted
<1>1. ASSUME NEW k, NEW x PROVE AllCopies(k, x) = 0
  <2>1. \A w \in Workers : box[w] = <<>>
    BY Zenon DEF Init
  <2>2. DOMAIN <<>> = {}
    OBVIOUS
  <2>3. Copies(box, k, x) = {}
    BY Zenon, <2>1, <2>2 DEF Copies
  <2> QED BY Zenon, <2>3, FS_EmptySet DEF AllCopies
<1>2. \A w \in Workers : queue[w] = <<>> /\ DOMAIN queue[w] = {}
  BY DEF Init
<1>3. walk = None /\ Admin
  BY Zenon DEF Init, Admin
<1>4. \A x : ~Queued(x) /\ ~Owned(x)
  BY Zenon, <1>2, <1>3 DEF Queued, Owned, Range
<1>5. QueuedOnce
  BY Zenon, <1>2, <1>3 DEF QueuedOnce
<1>6. ASSUME NEW m \in Messages PROVE MsgHeld(m)
  <2>1. refs[m] = 0 /\ sender[m].state = "idle" /\ entry[m].refcount = 0
    BY Zenon DEF Init, NoEntry
  <2> QED BY <1>1, <1>4, <2>1 DEF MsgHeld, Bit
<1>7. ASSUME NEW q \in Queries PROVE AskHeld(q)
  <2>1. query[q].state = "idle" /\ query[q].refcount = 0 /\ query[q].pending = 0 /\ ~query[q].abandoned
    BY Zenon DEF Init, NoQuery
  <2>2. AllCopies("count", q) + AllCopies("reply", q) = 0
    BY <1>1
  <2>3. Asks(query[q], 0)
    BY <2>1 DEF Asks, Bit
  <2> QED BY Zenon, <2>2, <2>3 DEF AskHeld
<1>8. CountsTyped
  BY DEF Init, CountsTyped, Counters
<1>9. RetryAccounting
  <2>1. Waiting = {} /\ Walked = 0
    BY Zenon, <1>3, <1>4 DEF Waiting, Walked
  <2>2. PendingIn(entry, {}) = {} /\ Cardinality({}) = 0
    BY Zenon, FS_EmptySet DEF PendingIn
  <2>3. stats.queued = 0 /\ Charged(stats) = 0
    BY DEF Init, Charged
  <2>4. 0 + 0 + 0 = 0
    OBVIOUS
  <2> QED BY Zenon, <2>1, <2>2, <2>3, <2>4, Accounts DEF Balanced
<1> QED BY Zenon, <1>5, <1>6, <1>7, <1>8, <1>9 DEF Counted, Held

\* Every step keeps every count.
LEMMA StepCounts == ASSUME HubAssumption, IInv, IInv', Counted, [Next]_vars PROVE Counted'
<1>1. CASE UNCHANGED vars
  BY Zenon, <1>1, AllSame DEF vars, retries
<1>2. ASSUME NEW w \in Workers, Attach(w) \/ Leave(w) PROVE Counted'
  <2>1. UNCHANGED <<box, queue, walk, entry, sender, refs, query, stats>>
    BY Zenon, <1>2 DEF Attach, Leave, retries
  <2> QED BY Zenon, <2>1, AllSame
<1>3. ASSUME NEW w \in Workers, Detach(w) \/ Tick(w) PROVE Counted'
  BY Zenon, <1>3, DetachCounts, TickCounts
<1>4. ASSUME NEW w \in Workers, Sends(w) PROVE Counted'
  <2>1. PICK m \in Messages, hit \in SUBSET Slots :
          \/ Publish(w, m, hit)
          \/ \E arms \in BOOLEAN : SendAtOnce(w, m, hit, arms)
          \/ \E blocking \in BOOLEAN : Park(w, m, hit, blocking)
    BY Zenon, <1>4 DEF Sends
  <2> QED BY Zenon, <2>1, PublishCounts, ParkCounts
<1>5. ASSUME NEW w \in Workers, Drain(w) PROVE Counted'
  BY Zenon, <1>5, DrainPublishCounts, DrainCountCounts, DrainReplyCounts DEF Drain
<1>6. ASSUME NEW w \in Workers, NEW q \in Queries, NEW hit \in SUBSET Slots, Count(w, q, hit)
      PROVE  Counted'
  BY Zenon, <1>6, CountCounts
<1>7. ASSUME NEW m \in Messages, Deadline(m) \/ Resume(m) \/ Cancel(m) PROVE Counted'
  BY Zenon, <1>7, DeadlineCounts, SettleCounts
<1>8. ASSUME NEW q \in Queries, CountReturns(q) PROVE Counted'
  BY Zenon, <1>8, CountReturnsCounts
<1>9. CASE TickEntry \/ TickEnd
  BY Zenon, <1>9, TickEntryCounts, TickEndCounts
<1> QED BY Zenon, <1>1, <1>2, <1>3, <1>4, <1>5, <1>6, <1>7, <1>8, <1>9 DEF Next

\* Every count is exact in every behaviour.
LEMMA CountedHolds == ASSUME HubAssumption PROVE Spec => []Counted
<1>1. Init => Counted
  BY Zenon, InitCounts
<1>2. IInv /\ IInv' /\ Counted /\ [Next]_vars => Counted'
  BY Zenon, StepCounts
<1> QED BY <1>1, <1>2, IInvHolds, PTL DEF Spec

\* Exact counts leave no event to fire but that of a coroutine that waits for it.
LEMMA CountedSafe == ASSUME HubAssumption, IInv, Counted PROVE SendersHeld
<1>1. RefsExact
  <2>1. ASSUME NEW q \in Queries
        PROVE  query[q].refcount = AllCopies("count", q) + AllCopies("reply", q)
                                   + Bit(query[q].state \in {"asking", "woken"})
    BY Zenon DEF Counted, Held, AskHeld, Asks
  <2> QED BY Zenon, <2>1 DEF Counted, Held, MsgHeld, RefsExact
<1>2. ASSUME NEW q \in Queries, AllCopies("reply", q) > 0, ~query[q].abandoned
      PROVE  query[q].state = "asking"
  <2>1. PICK a \in Nat, b \in Nat : a = AllCopies("count", q) /\ b = AllCopies("reply", q)
    BY Zenon, CopiesNow DEF IInv
  <2>2. PICK r \in Asked : r = query[q] /\ Asks(r, a + b) /\ b > 0 /\ ~r.abandoned
    BY Zenon, <1>2, <2>1 DEF IInv, HubTypeOK, Counted, Held, AskHeld
  <2>3. r.refcount \in Int /\ r.pending \in Int /\ r.state \in AskState
    BY Zenon DEF Asked
  <2>4. r.refcount > 0 /\ r.pending > 0
    BY <2>2, <2>3 DEF Asks, Bit
  <2>5. r.state # "idle" /\ r.state # "returned" /\ r.state # "woken"
    BY <2>2, <2>4 DEF Asks
  <2> QED BY Zenon, <2>2, <2>3, <2>5 DEF AskState
<1>3. FiresOnlySleepers
  BY Zenon, <1>2 DEF FiresOnlySleepers, IInv, OnlyParkedFires
<1> QED BY Zenon, <1>1, <1>3 DEF SendersHeld, Counted, IInv

\* Every payload, entry and query of the hub is held by exactly the commands,
\* queues and coroutines that refer to it, every parked target is delivered,
\* expired, gone or shut down once, and a coroutine suspended in send() keeps an
\* entry that a running timer will resolve (topic_hub_send,
\* topic_hub_retry_drain, topic_hub_retry_teardown, topic_hub_answer_count).
THEOREM HubSendersHeld == ASSUME HubAssumption PROVE Spec => []SendersHeld
<1>1. IInv /\ Counted => SendersHeld
  BY Zenon, CountedSafe
<1> QED BY <1>1, IInvHolds, CountedHolds, PTL

=============================================================================
