-------------------------- MODULE ReversePathProofs --------------------------
(***************************************************************************)
(* For any number of streams, any mailbox and any number of chunks: the    *)
(* wires of a stream reach the reactor in the order they were rendered,    *)
(* find their stream alive while the connection lives, and a response is   *)
(* only ended cleanly when all of it has arrived.                          *)
(***************************************************************************)
EXTENDS ReversePath, TLAPS

Whole == {"FULL", "SEND_FILE"}
Last  == {"FULL", "SEND_FILE", "STREAM_END", "STREAM_ABORT"}
Wires == {w \in [s : Streams, k : WireKinds \union {"RELEASE"}, n : Nat] :
            w.k # "STREAM_CHUNK" => w.n = 0}

PathTypeOK ==
  /\ wpc \in [Streams -> {"run", "stream", "ended", "done"}]
  /\ failed \in [Streams -> BOOLEAN]
  /\ posted \in [Streams -> Nat]
  /\ pend \in Seq(Wires) /\ box \in Seq(Wires)
  /\ armed \in BOOLEAN /\ flushing \in BOOLEAN
  /\ spin \in Streams \union {None}
  /\ refs \in [Streams -> Int]
  /\ slot \in [Streams -> {"live", "worker", "reactor"}]
  /\ conn \in [Streams -> BOOLEAN] /\ up \in BOOLEAN
  /\ closed \in [Streams -> BOOLEAN]
  /\ opened \in [Streams -> BOOLEAN]
  /\ queue \in [Streams -> Seq(Nat)]
  /\ fin \in [Streams -> {None, "end", "abort", "refused"}]

\* The place of a wire in its response.
Stage(w) == IF w.k = "STREAM_HEADERS" THEN 0 ELSE IF w.k = "STREAM_CHUNK" THEN 1
            ELSE IF w.k = "RELEASE" THEN 3 ELSE 2
Before(x, y) == x.s = y.s => /\ y.k \notin Whole
                             /\ \/ Stage(x) < Stage(y)
                                \/ Stage(x) = 1 /\ Stage(y) = 1 /\ x.n < y.n

\* The mailbox comes before the FIFO, and each holds a stream's wires in order.
InOrder(b, p) ==
  /\ \A i, j \in 1 .. Len(b) : i < j => Before(b[i], b[j])
  /\ \A i, j \in 1 .. Len(p) : i < j => Before(p[i], p[j])
  /\ \A i \in 1 .. Len(b), j \in 1 .. Len(p) : Before(b[i], p[j])
Ordered == InOrder(box, pend)

\* Whoever defers leaves a tick coming; whoever spins has found the FIFO empty.
Retried ==
  /\ pend # <<>> => armed \/ flushing
  /\ spin # None => pend = <<>> /\ ~flushing

\* How far a handler is bounds what it can have under way.
Reached ==
  /\ \A w \in InFlight :
       /\ wpc[w.s] # "run"
       /\ w.k \in Last => wpc[w.s] \in {"ended", "done"}
       /\ w.k = "RELEASE" => wpc[w.s] = "done" /\ spin # w.s
       /\ w.k = "STREAM_CHUNK" => w.n \in 1 .. posted[w.s]
       /\ w.k \in Whole => posted[w.s] = 0
  /\ \A s \in Streams :
       /\ wpc[s] = "run" => posted[s] = 0 /\ ~opened[s] /\ fin[s] = None
       /\ spin = s => wpc[s] = "done"

\* The ring has taken what came before the chunks under way.
RingBehind ==
  /\ ChunksInOrder
  /\ \A s \in Streams : \A i \in 1 .. Len(queue[s]) : queue[s][i] \in 1 .. posted[s]
  /\ \A w \in InFlight : w.k = "STREAM_CHUNK" =>
       \A i \in 1 .. Len(queue[w.s]) : queue[w.s][i] < w.n

\* A stream that is neither failed nor cut: everything rendered for it is in the
\* ring, without a gap, or on its way there.
Flowing(s) ==
  /\ s \notin expired /\ conn[s] /\ ~closed[s] /\ fin[s] = None
  /\ (wpc[s] = "stream" /\ ~failed[s]) \/ Wire(s, "STREAM_END", 0) \in InFlight

Covered(s) ==
  /\ opened[s] \/ Wire(s, "STREAM_HEADERS", 0) \in InFlight
  /\ \A i \in 1 .. Len(queue[s]) : queue[s][i] = i
  /\ \A n \in 1 .. posted[s] : n <= Len(queue[s]) \/ Wire(s, "STREAM_CHUNK", n) \in InFlight

NothingMissing == \A s \in Streams : Flowing(s) => Covered(s)

\* An ended response has nothing under way that could reopen it.
EndedStays ==
  \A s \in Streams :
    /\ fin[s] # None => \A w \in InFlight : w.s = s => w.k \notin Whole \union {"STREAM_HEADERS"}
    /\ fin[s] = "end" => /\ wpc[s] \in {"ended", "done"}
                         /\ \A w \in InFlight : w.s = s => w.k = "RELEASE"

\* While the connection lives the worker's reference covers what it has under way.
Owes(s) == wpc[s] # "done" \/ spin = s \/ \E w \in InFlight : w.s = s
Held ==
  /\ ~up => \A s \in Streams : ~conn[s]
  /\ up => \A s \in Streams :
       /\ slot[s] = "live" <=> refs[s] > 0
       /\ conn[s] <=> slot[s] = "live"
       /\ Owes(s) => refs[s] >= 1
       /\ ~closed[s] => refs[s] >= 1
       /\ Owes(s) /\ ~closed[s] => refs[s] >= 2

IInv == /\ PathTypeOK /\ Ordered /\ Retried /\ Reached /\ RingBehind /\ NothingMissing
        /\ EndedStays /\ Held /\ CleanEndUnlessExpired

-----------------------------------------------------------------------------
(* The two queues *)

(* What a queue holds: the wires at its places. *)
LEMMA RangeOf ==
  ASSUME NEW q \in Seq(Wires)
  PROVE  /\ \A w : w \in Range(q) <=> \E i \in 1 .. Len(q) : w = q[i]
         /\ Range(q) \subseteq Wires
<1>1. DOMAIN q = 1 .. Len(q) /\ \A i \in 1 .. Len(q) : q[i] \in Wires
  OBVIOUS
<1> QED BY Zenon, <1>1 DEF Range

(* Behind everything else in the mailbox, when the FIFO has nothing of its stream
   (post_exec). *)
LEMMA IntoBox ==
  ASSUME NEW b \in Seq(Wires), NEW p \in Seq(Wires), NEW w \in Wires, InOrder(b, p),
         \A x \in Range(p) \union Range(b) : Before(x, w),
         \A x \in Range(p) : x.s # w.s
  PROVE  /\ Append(b, w) \in Seq(Wires)
         /\ InOrder(Append(b, w), p)
         /\ Range(p) \union Range(Append(b, w)) = (Range(p) \union Range(b)) \union {w}
<1> DEFINE c == Append(b, w)
<1>1. c \in Seq(Wires) /\ Len(c) = Len(b) + 1 /\ c[Len(b) + 1] = w
      /\ \A i \in 1 .. Len(b) : c[i] = b[i]
  OBVIOUS
<1>2. Len(b) \in Nat OBVIOUS
<1> HIDE DEF c
<1>3. Range(c) = Range(b) \union {w}
  BY <1>1, <1>2, RangeOf
<1>4. \A i \in 1 .. Len(b) : b[i] \in Range(b)
  BY Zenon, RangeOf
<1>5. \A j \in 1 .. Len(p) : p[j] \in Range(p)
  BY Zenon, RangeOf
<1>6. \A i, j \in 1 .. Len(c) : i < j => Before(c[i], c[j])
  BY <1>1, <1>2, <1>4 DEF InOrder
<1>7. \A i \in 1 .. Len(c), j \in 1 .. Len(p) : Before(c[i], p[j])
  <2> TAKE i \in 1 .. Len(c), j \in 1 .. Len(p)
  <2>1. CASE i \in 1 .. Len(b) BY Zenon, <2>1, <1>1 DEF InOrder
  <2>2. CASE i = Len(b) + 1 BY Zenon, <2>2, <1>1, <1>5 DEF Before
  <2> QED BY <2>1, <2>2, <1>1, <1>2
<1> QED BY Zenon, <1>1, <1>3, <1>6, <1>7 DEF InOrder, c

(* ... or at the end of the FIFO (pending_post_defer). *)
LEMMA IntoPend ==
  ASSUME NEW b \in Seq(Wires), NEW p \in Seq(Wires), NEW w \in Wires, InOrder(b, p),
         \A x \in Range(p) \union Range(b) : Before(x, w)
  PROVE  /\ Append(p, w) \in Seq(Wires)
         /\ InOrder(b, Append(p, w))
         /\ Range(Append(p, w)) \union Range(b) = (Range(p) \union Range(b)) \union {w}
<1> DEFINE c == Append(p, w)
<1>1. c \in Seq(Wires) /\ Len(c) = Len(p) + 1 /\ c[Len(p) + 1] = w
      /\ \A i \in 1 .. Len(p) : c[i] = p[i]
  OBVIOUS
<1>2. Len(p) \in Nat OBVIOUS
<1> HIDE DEF c
<1>3. Range(c) = Range(p) \union {w}
  BY <1>1, <1>2, RangeOf
<1>4. \A i \in 1 .. Len(b) : b[i] \in Range(b)
  BY Zenon, RangeOf
<1>5. \A j \in 1 .. Len(p) : p[j] \in Range(p)
  BY Zenon, RangeOf
<1>6. \A i, j \in 1 .. Len(c) : i < j => Before(c[i], c[j])
  BY <1>1, <1>2, <1>5 DEF InOrder
<1>7. \A i \in 1 .. Len(b), j \in 1 .. Len(c) : Before(b[i], c[j])
  BY <1>1, <1>2, <1>4 DEF InOrder
<1> QED BY Zenon, <1>1, <1>3, <1>6, <1>7 DEF InOrder, c

(* Taking the head of a queue. *)
LEMMA TailOf ==
  ASSUME NEW q \in Seq(Wires), q # <<>>
  PROVE  /\ Tail(q) \in Seq(Wires) /\ Head(q) \in Wires
         /\ Len(q) \in Nat \ {0} /\ Head(q) = q[1]
         /\ Len(Tail(q)) = Len(q) - 1
         /\ \A i \in 1 .. Len(Tail(q)) : i + 1 \in 1 .. Len(q) /\ Tail(q)[i] = q[i + 1]
         /\ Range(q) = Range(Tail(q)) \union {Head(q)}
<1>1. Tail(q) \in Seq(Wires) /\ Len(q) \in Nat \ {0} /\ Head(q) = q[1] /\ Head(q) \in Wires
  OBVIOUS
<1>2. Len(Tail(q)) = Len(q) - 1 /\ \A i \in 1 .. Len(q) - 1 : Tail(q)[i] = q[i + 1]
  OBVIOUS
<1> DEFINE t == Tail(q)
<1>3. t \in Seq(Wires) /\ Len(t) = Len(q) - 1 /\ \A i \in 1 .. Len(q) - 1 : t[i] = q[i + 1]
  BY Zenon, <1>1, <1>2
<1> HIDE DEF t
<1>4. Range(q) = Range(t) \union {Head(q)}
  <2>1. ASSUME NEW w, w \in Range(q) PROVE w \in Range(t) \union {Head(q)}
    <3>1. PICK i \in 1 .. Len(q) : w = q[i] BY Zenon, <2>1, RangeOf
    <3>2. CASE i = 1 BY Zenon, <3>1, <3>2, <1>1
    <3>3. CASE i # 1
      <4>1. i - 1 \in 1 .. Len(t) /\ t[i - 1] = w BY <3>1, <3>3, <1>1, <1>3
      <4> QED BY Zenon, <4>1, <1>3, RangeOf
    <3> QED BY Zenon, <3>2, <3>3
  <2>2. ASSUME NEW w, w \in Range(t) \union {Head(q)} PROVE w \in Range(q)
    <3>1. CASE w = Head(q) BY <3>1, <1>1, RangeOf
    <3>2. CASE w \in Range(t)
      <4>1. PICK i \in 1 .. Len(t) : w = t[i] BY Zenon, <3>2, <1>3, RangeOf
      <4>2. i + 1 \in 1 .. Len(q) /\ q[i + 1] = w BY <4>1, <1>1, <1>3
      <4> QED BY Zenon, <4>2, RangeOf
    <3> QED BY Zenon, <2>2, <3>1, <3>2
  <2> QED BY Zenon, <2>1, <2>2
<1> QED BY <1>1, <1>2, <1>3, <1>4 DEF t

(* The reactor takes the oldest wire: what stays under way comes after it. *)
LEMMA TakeBox ==
  ASSUME NEW b \in Seq(Wires), NEW p \in Seq(Wires), InOrder(b, p), b # <<>>
  PROVE  /\ Tail(b) \in Seq(Wires) /\ Head(b) \in Wires
         /\ InOrder(Tail(b), p)
         /\ Range(p) \union Range(b) = (Range(p) \union Range(Tail(b))) \union {Head(b)}
         /\ \A x \in Range(p) \union Range(Tail(b)) : Before(Head(b), x)
<1> DEFINE t == Tail(b)
           h == Head(b)
<1>1. /\ t \in Seq(Wires) /\ h \in Wires /\ Len(b) \in Nat \ {0} /\ h = b[1]
      /\ Len(t) = Len(b) - 1
      /\ \A i \in 1 .. Len(t) : i + 1 \in 1 .. Len(b) /\ t[i] = b[i + 1]
      /\ Range(b) = Range(t) \union {h}
  BY Zenon, TailOf
<1> HIDE DEF t, h
<1>2. \A i, j \in 1 .. Len(t) : i < j => Before(t[i], t[j])
  <2> TAKE i, j \in 1 .. Len(t)
  <2> HAVE i < j
  <2>1. i + 1 < j + 1 /\ Before(b[i + 1], b[j + 1]) BY <1>1 DEF InOrder
  <2> QED BY Zenon, <2>1, <1>1
<1>3. \A i \in 1 .. Len(t), j \in 1 .. Len(p) : Before(t[i], p[j])
  BY Zenon, <1>1 DEF InOrder
<1>4. ASSUME NEW x \in Range(p) \union Range(t) PROVE Before(h, x)
  <2>1. CASE x \in Range(p)
    <3>1. PICK j \in 1 .. Len(p) : x = p[j] BY Zenon, <2>1, RangeOf
    <3> QED BY <3>1, <1>1 DEF InOrder
  <2>2. CASE x \in Range(t)
    <3>1. PICK j \in 1 .. Len(t) : x = t[j] BY Zenon, <2>2, <1>1, RangeOf
    <3>2. j + 1 \in 1 .. Len(b) /\ 1 \in 1 .. Len(b) /\ 1 < j + 1 /\ x = b[j + 1] BY <3>1, <1>1
    <3> QED BY Zenon, <3>2, <1>1 DEF InOrder
  <2> QED BY Zenon, <2>1, <2>2
<1>5. InOrder(t, p) BY Zenon, <1>2, <1>3 DEF InOrder
<1> QED BY Zenon, <1>1, <1>4, <1>5 DEF t, h

(* A deferred wire that is dropped. *)
LEMMA DropPend ==
  ASSUME NEW b \in Seq(Wires), NEW p \in Seq(Wires), InOrder(b, p), p # <<>>
  PROVE  /\ Tail(p) \in Seq(Wires) /\ Head(p) \in Wires
         /\ InOrder(b, Tail(p))
         /\ Range(p) \union Range(b) = (Range(Tail(p)) \union Range(b)) \union {Head(p)}
         /\ \A x \in Range(b) : Before(x, Head(p))
         /\ \A j \in 1 .. Len(Tail(p)) : Before(Head(p), Tail(p)[j])
<1> DEFINE t == Tail(p)
           h == Head(p)
<1>1. /\ t \in Seq(Wires) /\ h \in Wires /\ Len(p) \in Nat \ {0} /\ h = p[1]
      /\ Len(t) = Len(p) - 1
      /\ \A i \in 1 .. Len(t) : i + 1 \in 1 .. Len(p) /\ t[i] = p[i + 1]
      /\ Range(p) = Range(t) \union {h}
  BY Zenon, TailOf
<1> HIDE DEF t, h
<1>2. \A i, j \in 1 .. Len(t) : i < j => Before(t[i], t[j])
  <2> TAKE i, j \in 1 .. Len(t)
  <2> HAVE i < j
  <2>1. i + 1 < j + 1 /\ Before(p[i + 1], p[j + 1]) BY <1>1 DEF InOrder
  <2> QED BY Zenon, <2>1, <1>1
<1>3. \A i \in 1 .. Len(b), j \in 1 .. Len(t) : Before(b[i], t[j])
  BY Zenon, <1>1 DEF InOrder
<1>4. ASSUME NEW x \in Range(b) PROVE Before(x, h)
  <2>1. PICK i \in 1 .. Len(b) : x = b[i] BY Zenon, RangeOf
  <2> QED BY <2>1, <1>1 DEF InOrder
<1>5. InOrder(b, t) BY Zenon, <1>2, <1>3 DEF InOrder
<1>6. ASSUME NEW j \in 1 .. Len(t) PROVE Before(h, t[j])
  <2>1. j + 1 \in 1 .. Len(p) /\ 1 \in 1 .. Len(p) /\ 1 < j + 1 BY <1>1
  <2> QED BY Zenon, <2>1, <1>1 DEF InOrder
<1> QED BY Zenon, <1>1, <1>4, <1>5, <1>6 DEF t, h

(* A deferred wire that goes to the mailbox at last (pending_post_flush). *)
LEMMA MovePend ==
  ASSUME NEW b \in Seq(Wires), NEW p \in Seq(Wires), InOrder(b, p), p # <<>>
  PROVE  /\ Tail(p) \in Seq(Wires) /\ Append(b, Head(p)) \in Seq(Wires)
         /\ InOrder(Append(b, Head(p)), Tail(p))
         /\ Range(p) \union Range(b) = Range(Tail(p)) \union Range(Append(b, Head(p)))
<1> DEFINE t == Tail(p)
           h == Head(p)
           c == Append(b, h)
<1>1. /\ t \in Seq(Wires) /\ h \in Wires
      /\ InOrder(b, t)
      /\ Range(p) \union Range(b) = (Range(t) \union Range(b)) \union {h}
      /\ \A x \in Range(b) : Before(x, h)
      /\ \A j \in 1 .. Len(t) : Before(h, t[j])
  BY Zenon, DropPend
<1> HIDE DEF t, h
<1>2. c \in Seq(Wires) /\ Len(c) = Len(b) + 1 /\ c[Len(b) + 1] = h
      /\ \A i \in 1 .. Len(b) : c[i] = b[i]
  BY <1>1
<1>3. Len(b) \in Nat OBVIOUS
<1> HIDE DEF c
<1>4. \A i \in 1 .. Len(b) : b[i] \in Range(b)
  BY Zenon, RangeOf
<1>5. \A i, j \in 1 .. Len(c) : i < j => Before(c[i], c[j])
  <2> TAKE i, j \in 1 .. Len(c)
  <2> HAVE i < j
  <2>1. CASE j \in 1 .. Len(b)
    <3>1. i \in 1 .. Len(b) BY <2>1, <1>2, <1>3
    <3> QED BY Zenon, <2>1, <3>1, <1>1, <1>2 DEF InOrder
  <2>2. CASE j = Len(b) + 1
    <3>1. i \in 1 .. Len(b) BY <2>2, <1>2, <1>3
    <3> QED BY Zenon, <2>2, <3>1, <1>1, <1>2, <1>4
  <2> QED BY <2>1, <2>2, <1>2, <1>3
<1>6. \A i \in 1 .. Len(c), j \in 1 .. Len(t) : Before(c[i], t[j])
  <2> TAKE i \in 1 .. Len(c), j \in 1 .. Len(t)
  <2>1. CASE i \in 1 .. Len(b) BY Zenon, <2>1, <1>1, <1>2 DEF InOrder
  <2>2. CASE i = Len(b) + 1 BY Zenon, <2>2, <1>1, <1>2
  <2> QED BY <2>1, <2>2, <1>2, <1>3
<1>7. Range(c) = Range(b) \union {h}
  BY <1>2, <1>3, RangeOf
<1>8. InOrder(c, t) BY Zenon, <1>1, <1>5, <1>6 DEF InOrder
<1>9. Range(p) \union Range(b) = Range(t) \union Range(c) BY Zenon, <1>1, <1>7
<1> QED BY Zenon, <1>1, <1>2, <1>8, <1>9 DEF t, h, c

-----------------------------------------------------------------------------
(* What a step does to the wires under way *)

(* Every wire under way is a wire. *)
LEMMA InFlightType == PathTypeOK => InFlight \subseteq Wires
BY Zenon, RangeOf DEF PathTypeOK, InFlight

(* Nothing under way but what was before, and what is gone is gone by its
   deadline or because its stream has lost the connection. *)
LEMMA Fewer ==
  ASSUME IInv, InFlight' \subseteq InFlight, expired \subseteq expired',
         \A w \in InFlight : w \in InFlight' \/ w.s \in expired' \/ ~conn[w.s],
         UNCHANGED <<wpc, failed, posted, spin, refs, slot, conn, up, closed, opened,
                     queue, fin>>
  PROVE  /\ Reached' /\ RingBehind' /\ NothingMissing' /\ EndedStays' /\ Held'
         /\ CleanEndUnlessExpired'
<1>1. Reached' BY Zenon DEF IInv, Reached
<1>2. RingBehind' BY Zenon DEF IInv, RingBehind, ChunksInOrder
<1>3. NothingMissing'
  <2> SUFFICES ASSUME NEW s \in Streams, Flowing(s)' PROVE Covered(s)'
    BY Zenon DEF NothingMissing
  <2>1. Flowing(s) /\ s \notin expired' /\ conn[s] BY Zenon DEF Flowing
  <2>2. Covered(s) BY Zenon, <2>1 DEF IInv, NothingMissing
  <2>3. \A k, n : Wire(s, k, n) \in InFlight => Wire(s, k, n) \in InFlight'
    BY Zenon, <2>1 DEF Wire
  <2> QED BY Zenon, <2>2, <2>3 DEF Covered
<1>4. EndedStays' BY Zenon DEF IInv, EndedStays
<1>5. Held' BY Zenon DEF IInv, Held, Owes
<1>6. CleanEndUnlessExpired' BY Zenon DEF IInv, CleanEndUnlessExpired
<1> QED BY Zenon, <1>1, <1>2, <1>3, <1>4, <1>5, <1>6

(* A wire posted behind all others of its stream, to the mailbox or to the FIFO. *)
LEMMA Posting ==
  ASSUME PathTypeOK, Ordered, NEW w \in Wires, \A x \in InFlight : Before(x, w),
         \/ /\ box' = Append(box, w) /\ UNCHANGED <<pend, armed>>
            /\ \A x \in InFlight : x.s # w.s \/ pend = <<>>
         \/ Defer(w)
  PROVE  /\ box' \in Seq(Wires) /\ pend' \in Seq(Wires) /\ armed' \in BOOLEAN
         /\ Ordered' /\ InFlight' = InFlight \union {w}
         /\ pend' # <<>> => armed' \/ (pend # <<>> /\ armed' = armed)
<1> USE DEF PathTypeOK
<1>1. CASE box' = Append(box, w) /\ UNCHANGED <<pend, armed>>
           /\ \A x \in InFlight : x.s # w.s \/ pend = <<>>
  <2>1. \A x \in Range(pend) : x.s # w.s
    BY <1>1, RangeOf DEF InFlight
  <2>2. /\ Append(box, w) \in Seq(Wires)
        /\ InOrder(Append(box, w), pend)
        /\ Range(pend) \union Range(Append(box, w)) = (Range(pend) \union Range(box)) \union {w}
    BY <2>1, IntoBox, Zenon DEF Ordered, InFlight
  <2> QED BY Zenon, <1>1, <2>2 DEF Ordered, InFlight
<1>2. CASE Defer(w)
  <2>2. /\ Append(pend, w) \in Seq(Wires)
        /\ InOrder(box, Append(pend, w))
        /\ Range(Append(pend, w)) \union Range(box) = (Range(pend) \union Range(box)) \union {w}
    BY Zenon, IntoPend DEF Ordered, InFlight
  <2> QED BY Zenon, <1>2, <2>2 DEF Ordered, InFlight, Defer
<1> QED BY Zenon, <1>1, <1>2

(* What posting a wire amounts to: it is under way, or the stream has failed. *)
Handed(w) ==
  /\ box' \in Seq(Wires) /\ pend' \in Seq(Wires) /\ armed' \in BOOLEAN
  /\ failed' \in [Streams -> BOOLEAN]
  /\ Ordered' /\ Retried'
  /\ \/ InFlight' = InFlight \union {w} /\ failed' = failed
     \/ InFlight' = InFlight /\ failed'[w.s] = (failed[w.s] \/ w.k # "FULL")
  /\ \A z \in Streams : z # w.s => failed'[z] = failed[z]
  /\ UNCHANGED <<flushing, spin, expired, refs, slot, conn, up, closed, opened, queue, fin>>

(* worker_wire_post of a wire that belongs behind those of its stream; a whole
   response has no others. *)
LEMMA WirePosted ==
  ASSUME IInv, Free, NEW w \in Wires, w.k \in WireKinds, WirePost(w),
         \A x \in InFlight : Before(x, w),
         w.k = "FULL" => \A x \in InFlight : x.s # w.s
  PROVE  Handed(w)
<1>1. UNCHANGED <<flushing, spin, expired, refs, slot, conn, up, closed, opened, queue, fin>>
  BY Zenon DEF WirePost
<1>2. CASE Delivered(w) /\ UNCHANGED failed
  <2>1. \/ /\ box' = Append(box, w) /\ UNCHANGED <<pend, armed>>
           /\ \A x \in InFlight : x.s # w.s \/ pend = <<>>
        \/ Defer(w)
    BY Zenon, <1>2 DEF Delivered, TryDirect, PostExec
  <2>2. /\ box' \in Seq(Wires) /\ pend' \in Seq(Wires) /\ armed' \in BOOLEAN
        /\ Ordered' /\ InFlight' = InFlight \union {w}
        /\ pend' # <<>> => armed' \/ (pend # <<>> /\ armed' = armed)
    BY Zenon, <2>1, Posting DEF IInv
  <2>3. Retried' BY <1>1, <2>2 DEF IInv, Retried, Free
  <2> QED BY Zenon, <1>1, <1>2, <2>2, <2>3 DEF IInv, PathTypeOK, Handed
<1>3. CASE Undelivered(w) /\ failed' = [failed EXCEPT ![w.s] = @ \/ w.k # "FULL"]
  <2>1. UNCHANGED <<box, pend, armed>> BY Zenon, <1>3 DEF Undelivered
  <2>2. Ordered' /\ InFlight' = InFlight /\ Retried'
    BY Zenon, <1>1, <2>1 DEF IInv, Ordered, InFlight, Retried
  <2>3. w.s \in Streams BY Zenon DEF Wires
  <2> DEFINE b == w.k # "FULL"
  <2>4. failed' = [failed EXCEPT ![w.s] = failed[w.s] \/ b] /\ failed \in [Streams -> BOOLEAN]
        /\ b \in BOOLEAN
    BY Zenon, <1>3 DEF IInv, PathTypeOK
  <2> HIDE DEF b
  <2>5. /\ failed' \in [Streams -> BOOLEAN]
        /\ failed'[w.s] = (failed[w.s] \/ b)
        /\ \A z \in Streams : z # w.s => failed'[z] = failed[z]
    BY Zenon, <2>3, <2>4
  <2> QED BY Zenon, <1>1, <2>1, <2>2, <2>5 DEF IInv, PathTypeOK, b, Handed
<1> QED BY Zenon, <1>2, <1>3 DEF WirePost

(* A step of one handler leaves the other streams as they were. *)
LEMMA OthersFlow ==
  ASSUME IInv, NEW s \in Streams, NEW z \in Streams, z # s, Flowing(z)',
         wpc'[z] = wpc[z], failed'[z] = failed[z], posted'[z] = posted[z],
         InFlight \subseteq InFlight', \A x \in InFlight' : x.s # s => x \in InFlight,
         UNCHANGED <<expired, conn, closed, opened, queue, fin>>
  PROVE  Covered(z)'
<1>1. \A k, n : Wire(z, k, n) \in InFlight' <=> Wire(z, k, n) \in InFlight
  BY Zenon DEF Wire
<1>2. Flowing(z) BY Zenon, <1>1 DEF Flowing
<1>3. Covered(z) BY Zenon, <1>2 DEF IInv, NothingMissing
<1> QED BY Zenon, <1>1, <1>3 DEF Covered

-----------------------------------------------------------------------------
(* The dispatch context *)

(* A new stream has nothing in flight yet.                                  *)
LEMMA NextOpenStream ==
  ASSUME PathAssumption, IInv, NEW s \in Streams, OpenStream(s)
  PROVE  IInv'
<1> DEFINE w == Wire(s, "STREAM_HEADERS", 0)
<1>1. w \in Wires /\ w.s = s /\ w.k = "STREAM_HEADERS" /\ w.k \in WireKinds /\ w.n = 0
  BY Zenon DEF Wires, Wire, WireKinds
<1>2. Free /\ wpc[s] = "run" /\ WirePost(w) /\ wpc' = [wpc EXCEPT ![s] = "stream"]
      /\ UNCHANGED posted
  BY Zenon DEF OpenStream
<1>3. \A x \in InFlight : x.s # s
  BY Zenon, <1>2 DEF IInv, Reached
<1> HIDE DEF w
<1>4. Handed(w)
  BY Zenon, <1>1, <1>2, <1>3, WirePosted DEF Before
<1>5. PathTypeOK' BY <1>2, <1>4, Zenon DEF Handed, IInv, PathTypeOK
<1>6. Reached' BY <1>1, <1>2, <1>4 DEF Handed, IInv, PathTypeOK, Reached, Last, Whole, Free
<1>7. RingBehind' BY Zenon, <1>1, <1>2, <1>4 DEF Handed, IInv, RingBehind, ChunksInOrder
<1>8. NothingMissing'
  <2> SUFFICES ASSUME NEW z \in Streams, Flowing(z)' PROVE Covered(z)'
    BY Zenon DEF NothingMissing
  <2>1. CASE z # s
    <3>1. wpc'[z] = wpc[z] /\ failed'[z] = failed[z]
      BY Zenon, <2>1, <1>1, <1>2, <1>4 DEF Handed, IInv, PathTypeOK
    <3> QED BY Zenon, <2>1, <3>1, <1>1, <1>2, <1>4, OthersFlow DEF Handed
  <2>2. CASE z = s
    <3>1. posted[z] = 0 /\ (\A i \in 1 .. Len(queue[z]) : queue[z][i] \in 1 .. posted[z])
      BY Zenon, <2>2, <1>2 DEF Handed, IInv, Reached, RingBehind
    <3>2. w \in InFlight'
      BY Zenon, <2>2, <1>1, <1>2, <1>3, <1>4 DEF Handed, Flowing, Wire
    <3> QED BY <2>2, <3>1, <3>2, <1>2, <1>4 DEF Handed, w, Covered
  <2> QED BY Zenon, <2>1, <2>2
<1>9. EndedStays' BY <1>1, <1>2, <1>4 DEF Handed, IInv, EndedStays, Reached, PathTypeOK, Whole
<1>10. Held'
  <2>1. \A z \in Streams : Owes(z)' => Owes(z)
    BY <1>1, <1>2, <1>4 DEF Handed, Owes, IInv, PathTypeOK
  <2> QED BY Zenon, <2>1, <1>4 DEF Handed, IInv, Held
<1>11. CleanEndUnlessExpired' BY Zenon, <1>2, <1>4 DEF Handed, IInv, CleanEndUnlessExpired
<1> QED BY Zenon, <1>4, <1>5, <1>6, <1>7, <1>8, <1>9, <1>10, <1>11 DEF Handed, IInv

(* A chunk of a streamed body is posted, deferred, or fails its stream.     *)
LEMMA NextChunk ==
  ASSUME PathAssumption, IInv, NEW s \in Streams, Chunk(s)
  PROVE  IInv'
<1> DEFINE w == Wire(s, "STREAM_CHUNK", posted[s] + 1)
<1>1. posted[s] \in Nat BY Zenon DEF IInv, PathTypeOK
<1>2. /\ w \in Wires /\ w.s = s /\ w.k = "STREAM_CHUNK" /\ w.k \in WireKinds
      /\ w.n = posted[s] + 1
  BY <1>1 DEF Wires, Wire, WireKinds
<1>3. Free /\ wpc[s] = "stream" /\ ~failed[s] /\ WirePost(w)
      /\ posted' = [posted EXCEPT ![s] = posted[s] + 1] /\ UNCHANGED wpc
  BY Zenon DEF Chunk
<1> HIDE DEF w
<1>4. \A x \in InFlight : x.s = s =>
        x.k = "STREAM_HEADERS" \/ (x.k = "STREAM_CHUNK" /\ x.n \in 1 .. posted[s])
  BY Zenon, <1>3, InFlightType DEF IInv, Reached, Last, Wires, WireKinds
<1>5. \A x \in InFlight : Before(x, w)
  BY <1>1, <1>2, <1>4 DEF Before, Whole, Stage
<1>6. Handed(w)
  BY Zenon, <1>2, <1>3, <1>5, WirePosted
<1>7. /\ posted' \in [Streams -> Nat] /\ posted'[s] = posted[s] + 1
      /\ \A z \in Streams : z # s => posted'[z] = posted[z]
  BY <1>1, <1>3 DEF IInv, PathTypeOK
<1>8. PathTypeOK' BY <1>3, <1>6, <1>7, Zenon DEF Handed, IInv, PathTypeOK
<1>9. Reached'
  <2>1. \A z \in Streams : posted[z] \in Nat /\ posted'[z] \in Nat /\ posted[z] <= posted'[z]
    <3>1. posted \in [Streams -> Nat] BY Zenon DEF IInv, PathTypeOK
    <3> QED BY <3>1, <1>1, <1>7
  <2>2. \A x \in InFlight : x.s \in Streams BY Zenon, InFlightType DEF IInv, Wires
  <2>3. \A x \in InFlight : x.k \in Whole => x.s # s BY Zenon, <1>4 DEF Whole
  <2> QED
    BY <1>1, <1>2, <1>3, <1>6, <1>7, <2>1, <2>2, <2>3 DEF Handed, IInv, Reached, Last, Whole, Free
<1>10. RingBehind'
  <2>1. \A z \in Streams : posted[z] \in Nat /\ posted'[z] \in Nat /\ posted[z] <= posted'[z]
    <3>1. posted \in [Streams -> Nat] BY Zenon DEF IInv, PathTypeOK
    <3> QED BY <3>1, <1>1, <1>7
  <2>2. \A z \in Streams : \A i \in 1 .. Len(queue[z]) : queue[z][i] \in 1 .. posted'[z]
    BY <2>1 DEF IInv, RingBehind
  <2>3. \A i \in 1 .. Len(queue[s]) : queue[s][i] < w.n
    BY <1>1, <1>2 DEF IInv, RingBehind
  <2> QED BY <1>2, <1>6, <2>2, <2>3, Zenon DEF Handed, IInv, RingBehind, ChunksInOrder
<1>11. NothingMissing'
  <2> SUFFICES ASSUME NEW z \in Streams, Flowing(z)' PROVE Covered(z)'
    BY Zenon DEF NothingMissing
  <2>1. CASE z # s
    BY Zenon, <2>1, <1>2, <1>3, <1>6, <1>7, OthersFlow DEF Handed
  <2>2. CASE z = s
    <3>1. Wire(s, "STREAM_END", 0) \notin InFlight'
      BY <1>2, <1>4, <1>6 DEF Handed, Wire
    <3>2. ~failed'[s] BY Zenon, <3>1, <2>2 DEF Flowing
    <3>3. InFlight' = InFlight \union {w} BY Zenon, <3>2, <1>2, <1>6 DEF Handed
    <3>4. Flowing(s) BY Zenon, <2>2, <1>3, <1>6 DEF Handed, Flowing
    <3>5. Covered(s) BY Zenon, <3>4 DEF IInv, NothingMissing
    <3>6. \A n \in 1 .. posted[s] + 1 : n <= Len(queue[s]) \/ Wire(s, "STREAM_CHUNK", n) \in InFlight'
      BY <3>3, <3>5, <1>1 DEF Covered, w
    <3> QED BY Zenon, <2>2, <3>3, <3>5, <3>6, <1>6, <1>7 DEF Handed, Covered
  <2> QED BY Zenon, <2>1, <2>2
<1>12. EndedStays' BY <1>2, <1>3, <1>6 DEF Handed, IInv, EndedStays, Whole
<1>13. Held'
  <2>1. \A z \in Streams : Owes(z)' => Owes(z)
    BY Zenon, <1>2, <1>3, <1>6 DEF Handed, Owes
  <2> QED BY Zenon, <2>1, <1>6 DEF Handed, IInv, Held
<1>14. CleanEndUnlessExpired'
  BY Zenon, <1>3, <1>6, <1>7 DEF Handed, IInv, CleanEndUnlessExpired, EndedStays
<1> QED BY Zenon, <1>6, <1>8, <1>9, <1>10, <1>11, <1>12, <1>13, <1>14 DEF Handed, IInv

(* The producer lost its credit while it waited.                            *)
LEMMA NextCreditLost ==
  ASSUME PathAssumption, IInv, NEW s \in Streams, CreditLost(s)
  PROVE  IInv'
<1>1. /\ failed' = [failed EXCEPT ![s] = TRUE]
      /\ UNCHANGED <<wpc, posted, expired, pvars, rvars>>
  BY Zenon DEF CreditLost
<1>2. UNCHANGED <<wpc, posted, expired, pend, armed, flushing, spin, box, refs, slot, conn, up,
                  closed, opened, queue, fin>> /\ InFlight' = InFlight
  BY Zenon, <1>1 DEF pvars, rvars, InFlight
<1>3. PathTypeOK' BY <1>1, <1>2, Zenon DEF IInv, PathTypeOK
<1>4. Ordered' /\ Retried' BY Zenon, <1>2 DEF IInv, Ordered, Retried
<1>5. Reached' /\ EndedStays' /\ Held' BY Zenon, <1>2 DEF IInv, Reached, EndedStays, Held, Owes
<1>6. RingBehind' /\ CleanEndUnlessExpired'
  BY Zenon, <1>2 DEF IInv, RingBehind, ChunksInOrder, CleanEndUnlessExpired
<1>7. NothingMissing'
  <2> SUFFICES ASSUME NEW z \in Streams, Flowing(z)' PROVE Covered(z)'
    BY Zenon DEF NothingMissing
  <2>1. failed'[z] = failed[z] \/ failed'[z] = TRUE
    BY Zenon, <1>1 DEF IInv, PathTypeOK
  <2>2. Flowing(z) BY Zenon, <2>1, <1>2 DEF Flowing
  <2> QED BY Zenon, <2>2, <1>2 DEF IInv, NothingMissing, Covered
<1> QED BY Zenon, <1>3, <1>4, <1>5, <1>6, <1>7 DEF IInv

(* The end of a streamed body is posted once.                               *)
LEMMA NextMarkEnded ==
  ASSUME PathAssumption, IInv, NEW s \in Streams, MarkEnded(s)
  PROVE  IInv'
<1> DEFINE kind == IF failed[s] THEN "STREAM_ABORT" ELSE "STREAM_END"
           w == Wire(s, kind, 0)
<1>1. /\ w \in Wires /\ w.s = s /\ w.k \in {"STREAM_ABORT", "STREAM_END"} /\ w.k \in WireKinds
      /\ w.k = "STREAM_END" <=> ~failed[s]
  BY Zenon DEF Wires, Wire, WireKinds
<1>2. Free /\ wpc[s] = "stream" /\ WirePost(w) /\ wpc' = [wpc EXCEPT ![s] = "ended"]
      /\ UNCHANGED posted
  BY Zenon DEF MarkEnded
<1> HIDE DEF w
<1>3. \A x \in InFlight : x.s = s => x.k = "STREAM_HEADERS" \/ x.k = "STREAM_CHUNK"
  BY Zenon, <1>2, InFlightType DEF IInv, Reached, Last, Wires, WireKinds
<1>4. \A x \in InFlight : Before(x, w)
  BY <1>1, <1>3 DEF Before, Whole, Stage
<1>5. Handed(w)
  BY Zenon, <1>1, <1>2, <1>4, WirePosted
<1>6. PathTypeOK' BY <1>2, <1>5, Zenon DEF Handed, IInv, PathTypeOK
<1>7. wpc'[s] = "ended" /\ \A z \in Streams : z # s => wpc'[z] = wpc[z]
  BY Zenon, <1>2 DEF IInv, PathTypeOK
<1>8. \A x \in InFlight : x.s \in Streams BY Zenon, InFlightType DEF IInv, Wires
<1>9. Reached'
  BY <1>1, <1>2, <1>3, <1>5, <1>7, <1>8 DEF Handed, IInv, Reached, Last, Whole, Free
<1>10. RingBehind' BY Zenon, <1>1, <1>2, <1>5 DEF Handed, IInv, RingBehind, ChunksInOrder
<1>11. NothingMissing'
  <2> SUFFICES ASSUME NEW z \in Streams, Flowing(z)' PROVE Covered(z)'
    BY Zenon DEF NothingMissing
  <2>1. CASE z # s
    BY Zenon, <2>1, <1>1, <1>2, <1>5, <1>7, OthersFlow DEF Handed
  <2>2. CASE z = s
    <3>1. Wire(s, "STREAM_END", 0) \in InFlight' BY Zenon, <2>2, <1>7 DEF Flowing
    <3>2. Wire(s, "STREAM_END", 0) \notin InFlight BY Zenon, <1>3 DEF Wire
    <3>3. InFlight' = InFlight \union {w} /\ w.k = "STREAM_END"
      BY <3>1, <3>2, <1>5 DEF Handed, Wire
    <3>4. Flowing(s) BY Zenon, <2>2, <3>3, <1>1, <1>2, <1>5 DEF Handed, Flowing
    <3>5. Covered(s) BY Zenon, <3>4 DEF IInv, NothingMissing
    <3> QED BY Zenon, <2>2, <3>3, <3>5, <1>2, <1>5 DEF Handed, Covered
  <2> QED BY Zenon, <2>1, <2>2
<1>12. EndedStays' BY <1>1, <1>2, <1>5, <1>7 DEF Handed, IInv, EndedStays, Whole
<1>13. Held'
  <2>1. \A z \in Streams : Owes(z)' => Owes(z)
    BY Zenon, <1>1, <1>2, <1>5, <1>7 DEF Handed, Owes
  <2> QED BY Zenon, <2>1, <1>5 DEF Handed, IInv, Held
<1>14. CleanEndUnlessExpired' BY Zenon, <1>2, <1>5 DEF Handed, IInv, CleanEndUnlessExpired
<1> QED BY Zenon, <1>5, <1>6, <1>9, <1>10, <1>11, <1>12, <1>13, <1>14 DEF Handed, IInv

(* A whole response is posted once, before anything else of its stream.     *)
LEMMA NextRespond ==
  ASSUME PathAssumption, IInv, NEW s \in Streams, Respond(s)
  PROVE  IInv'
<1>1. PICK k \in {"FULL", "SEND_FILE"} : WirePost(Wire(s, k, 0)) BY Zenon DEF Respond
<1> DEFINE w == Wire(s, k, 0)
<1>2. w \in Wires /\ w.s = s /\ w.k = k /\ w.k \in WireKinds
  BY Zenon DEF Wires, Wire, WireKinds
<1>3. Free /\ wpc[s] = "run" /\ WirePost(w) /\ wpc' = [wpc EXCEPT ![s] = "ended"]
      /\ UNCHANGED posted
  BY Zenon, <1>1 DEF Respond
<1> HIDE DEF w
<1>4. \A x \in InFlight : x.s # s
  BY Zenon, <1>3 DEF IInv, Reached
<1>5. Handed(w)
  BY Zenon, <1>2, <1>3, <1>4, WirePosted DEF Before
<1>6. PathTypeOK' BY <1>3, <1>5, Zenon DEF Handed, IInv, PathTypeOK
<1>7. wpc'[s] = "ended" /\ \A z \in Streams : z # s => wpc'[z] = wpc[z]
  BY Zenon, <1>3 DEF IInv, PathTypeOK
<1>8. \A x \in InFlight : x.s \in Streams BY Zenon, InFlightType DEF IInv, Wires
<1>9. Reached'
  BY <1>2, <1>3, <1>4, <1>5, <1>7, <1>8 DEF Handed, IInv, Reached, Last, Whole, Free
<1>10. RingBehind' BY Zenon, <1>2, <1>3, <1>5 DEF Handed, IInv, RingBehind, ChunksInOrder
<1>11. NothingMissing'
  <2> SUFFICES ASSUME NEW z \in Streams, Flowing(z)' PROVE Covered(z)'
    BY Zenon DEF NothingMissing
  <2>1. CASE z # s
    BY Zenon, <2>1, <1>2, <1>3, <1>5, <1>7, OthersFlow DEF Handed
  <2>2. CASE z = s
    <3>1. Wire(s, "STREAM_END", 0) \notin InFlight' BY <1>2, <1>4, <1>5 DEF Handed, Wire
    <3> QED BY Zenon, <2>2, <3>1, <1>7 DEF Flowing
  <2> QED BY Zenon, <2>1, <2>2
<1>12. EndedStays'
  <2>1. fin[s] = None BY Zenon, <1>3 DEF IInv, Reached
  <2> QED BY <2>1, <1>2, <1>3, <1>5, <1>7 DEF Handed, IInv, EndedStays
<1>13. Held'
  <2>1. \A z \in Streams : Owes(z)' => Owes(z)
    BY Zenon, <1>2, <1>3, <1>5, <1>7 DEF Handed, Owes
  <2> QED BY Zenon, <2>1, <1>5 DEF Handed, IInv, Held
<1>14. CleanEndUnlessExpired' BY Zenon, <1>3, <1>5 DEF Handed, IInv, CleanEndUnlessExpired
<1> QED BY Zenon, <1>5, <1>6, <1>9, <1>10, <1>11, <1>12, <1>13, <1>14 DEF Handed, IInv

(* The release comes last: the stream has no other wire to post. *)
LEMMA NextPostRelease ==
  ASSUME PathAssumption, IInv, NEW s \in Streams, PostRelease(s)
  PROVE  IInv'
<1> DEFINE w == Wire(s, "RELEASE", 0)
<1>1. w \in Wires /\ w.s = s /\ w.k = "RELEASE"
  BY Zenon DEF Wires, Wire
<1>2. /\ Free /\ wpc[s] = "ended" /\ wpc' = [wpc EXCEPT ![s] = "done"]
      /\ UNCHANGED <<failed, posted, expired, flushing, refs, slot, conn, up, closed, opened,
                     queue, fin>>
  BY Zenon DEF PostRelease, rvars
<1>3. \/ /\ box' = Append(box, w) /\ UNCHANGED <<pend, armed>> /\ pend = <<>> /\ UNCHANGED spin
      \/ Defer(w) /\ UNCHANGED spin
      \/ ~armed /\ spin' = s /\ UNCHANGED <<box, pend, armed>>
  BY Zenon DEF PostRelease, PostExec, CannotArm
<1> HIDE DEF w
<1>4. \A x \in InFlight : x.s = s => x.k # "RELEASE"
  BY Zenon, <1>2 DEF IInv, Reached
<1>5. \A x \in InFlight : Before(x, w)
  BY <1>1, <1>4, InFlightType DEF Before, Whole, Stage, IInv
<1>6. wpc'[s] = "done" /\ wpc' \in [Streams -> {"run", "stream", "ended", "done"}]
      /\ \A z \in Streams : z # s => wpc'[z] = wpc[z]
  BY Zenon, <1>2 DEF IInv, PathTypeOK
<1>7. /\ box' \in Seq(Wires) /\ pend' \in Seq(Wires) /\ armed' \in BOOLEAN
      /\ spin' \in Streams \union {None} /\ Ordered' /\ Retried'
      /\ \/ InFlight' = InFlight \union {w} /\ spin' = None
         \/ InFlight' = InFlight /\ spin' = s
  <2>1. CASE ~armed /\ spin' = s /\ UNCHANGED <<box, pend, armed>>
    BY Zenon, <2>1, <1>2 DEF IInv, PathTypeOK, Ordered, Retried, InFlight, Free
  <2>2. CASE spin' = spin
    <3>1. /\ box' \in Seq(Wires) /\ pend' \in Seq(Wires) /\ armed' \in BOOLEAN
          /\ Ordered' /\ InFlight' = InFlight \union {w}
          /\ pend' # <<>> => armed' \/ (pend # <<>> /\ armed' = armed)
      <4>1. CASE Defer(w) BY Zenon, <4>1, <1>1, <1>5, Posting DEF IInv
      <4>2. CASE box' = Append(box, w) /\ UNCHANGED <<pend, armed>> /\ pend = <<>>
        BY Zenon, <4>2, <1>1, <1>5, Posting DEF IInv
      <4> QED
        <5>1. None \notin Streams BY Zenon DEF PathAssumption
        <5> QED BY Zenon, <4>1, <4>2, <5>1, <2>2, <1>2, <1>3 DEF Free
    <3> QED BY <2>2, <3>1, <1>2 DEF IInv, PathTypeOK, Retried, Free
  <2> QED BY Zenon, <2>1, <2>2, <1>3
<1>8. PathTypeOK' BY <1>2, <1>6, <1>7, Zenon DEF IInv, PathTypeOK
<1>9. \A x \in InFlight : x.s \in Streams BY Zenon, InFlightType DEF IInv, Wires
<1>10. Reached'
  BY <1>1, <1>2, <1>4, <1>6, <1>7, <1>9 DEF PathAssumption, IInv, Reached, Last, Whole, Free
<1>11. RingBehind' BY <1>1, <1>2, <1>7, ZenonT(30) DEF IInv, RingBehind, ChunksInOrder
<1>12. NothingMissing'
  <2> SUFFICES ASSUME NEW z \in Streams, Flowing(z)' PROVE Covered(z)'
    BY Zenon DEF NothingMissing
  <2>1. \A k, n : k # "RELEASE" => (Wire(z, k, n) \in InFlight' <=> Wire(z, k, n) \in InFlight)
    BY <1>1, <1>7 DEF Wire
  <2>2. Flowing(z) BY Zenon, <2>1, <1>2, <1>6 DEF Flowing
  <2> QED BY Zenon, <2>1, <2>2, <1>2 DEF IInv, NothingMissing, Covered
<1>13. EndedStays' BY <1>1, <1>2, <1>6, <1>7 DEF IInv, EndedStays, Whole
<1>14. Held'
  <2>1. \A z \in Streams : Owes(z)' => Owes(z)
    BY Zenon, <1>1, <1>2, <1>6, <1>7 DEF Owes, PathAssumption
  <2> QED BY Zenon, <2>1, <1>2 DEF IInv, Held
<1>15. CleanEndUnlessExpired' BY Zenon, <1>2 DEF IInv, CleanEndUnlessExpired
<1> QED BY Zenon, <1>7, <1>8, <1>10, <1>11, <1>12, <1>13, <1>14, <1>15 DEF IInv

(* Only after the connection is gone: while it lives, the reference the worker
   still holds keeps s->conn set. *)
LEMMA NextFreeSlotHere ==
  ASSUME PathAssumption, IInv, NEW s \in Streams, FreeSlotHere(s)
  PROVE  IInv'
<1>1. /\ wpc[s] = "ended" /\ ~conn[s] /\ wpc' = [wpc EXCEPT ![s] = "done"] /\ Free
      /\ slot' = [slot EXCEPT ![s] = "worker"]
      /\ UNCHANGED <<failed, posted, expired, pend, armed, flushing, spin, box, refs, conn, up,
                     closed, opened, queue, fin>>
  BY Zenon DEF FreeSlotHere, pvars
<1>2. InFlight' = InFlight BY Zenon, <1>1 DEF InFlight
<1>3. ~up
  <2>1. Owes(s) BY Zenon, <1>1 DEF Owes
  <2>2. refs[s] \in Int BY Zenon DEF IInv, PathTypeOK
  <2> QED BY <1>1, <2>1, <2>2 DEF IInv, Held
<1>4. wpc'[s] = "done" /\ wpc' \in [Streams -> {"run", "stream", "ended", "done"}]
      /\ \A z \in Streams : z # s => wpc'[z] = wpc[z]
  BY Zenon, <1>1 DEF IInv, PathTypeOK
<1>5. PathTypeOK' BY <1>1, <1>4, Zenon DEF IInv, PathTypeOK
<1>6. Ordered' /\ Retried' BY Zenon, <1>1 DEF IInv, Ordered, Retried
<1>7. \A x \in InFlight : x.s \in Streams BY Zenon, InFlightType DEF IInv, Wires
<1>8. Reached' BY Zenon, <1>1, <1>2, <1>4, <1>7 DEF IInv, Reached
<1>9. RingBehind' /\ CleanEndUnlessExpired'
  BY Zenon, <1>1, <1>2 DEF IInv, RingBehind, ChunksInOrder, CleanEndUnlessExpired
<1>10. NothingMissing'
  <2> SUFFICES ASSUME NEW z \in Streams, Flowing(z)' PROVE Covered(z)'
    BY Zenon DEF NothingMissing
  <2>1. Flowing(z) BY Zenon, <1>1, <1>2, <1>4 DEF Flowing
  <2> QED BY Zenon, <2>1, <1>1, <1>2 DEF IInv, NothingMissing, Covered
<1>11. EndedStays' BY Zenon, <1>1, <1>2, <1>4 DEF IInv, EndedStays
<1>12. Held' BY Zenon, <1>1, <1>3 DEF IInv, Held
<1> QED BY Zenon, <1>5, <1>6, <1>8, <1>9, <1>10, <1>11, <1>12 DEF IInv

(* A release that found no room and no timer is posted when there is room.  *)
LEMMA NextSpinPost ==
  ASSUME PathAssumption, IInv, SpinPost
  PROVE  IInv'
<1>1. PICK s \in Streams : s = spin
  BY Zenon DEF SpinPost, IInv, PathTypeOK
<1> DEFINE w == Wire(s, "RELEASE", 0)
<1>2. w \in Wires /\ w.s = s /\ w.k = "RELEASE"
  BY Zenon DEF Wires, Wire
<1>3. /\ box' = Append(box, w) /\ UNCHANGED <<pend, armed>> /\ spin' = None /\ spin = s
      /\ UNCHANGED <<wpc, failed, posted, expired, flushing, refs, slot, conn, up, closed,
                     opened, queue, fin>>
  BY Zenon, <1>1 DEF SpinPost, PostExec, wvars, rvars
<1>4. wpc[s] = "done" /\ pend = <<>> /\ None \notin Streams
  BY Zenon, <1>1, <1>3 DEF IInv, Reached, Retried, SpinPost, PathAssumption
<1> HIDE DEF w
<1>5. \A x \in InFlight : x.s = s => x.k # "RELEASE"
  BY Zenon, <1>3 DEF IInv, Reached
<1>6. \A x \in InFlight : Before(x, w)
  BY <1>2, <1>5, InFlightType DEF Before, Whole, Stage, IInv
<1>7. /\ box' \in Seq(Wires) /\ pend' \in Seq(Wires) /\ armed' \in BOOLEAN
      /\ Ordered' /\ InFlight' = InFlight \union {w}
  BY Zenon, <1>2, <1>3, <1>4, <1>6, Posting DEF IInv
<1>8. PathTypeOK' BY <1>3, <1>7, Zenon DEF IInv, PathTypeOK
<1>9. Retried' BY Zenon, <1>3, <1>4 DEF Retried
<1>10. Reached' BY Zenon, <1>2, <1>3, <1>4, <1>7, InFlightType DEF IInv, Reached, Last, Whole, Wires
<1>11. RingBehind' BY <1>2, <1>3, <1>7, Zenon DEF IInv, RingBehind, ChunksInOrder
<1>12. NothingMissing'
  <2> SUFFICES ASSUME NEW z \in Streams, Flowing(z)' PROVE Covered(z)'
    BY Zenon DEF NothingMissing
  <2>1. \A k, n : k # "RELEASE" => (Wire(z, k, n) \in InFlight' <=> Wire(z, k, n) \in InFlight)
    BY <1>2, <1>7 DEF Wire
  <2>2. Flowing(z) BY Zenon, <2>1, <1>3 DEF Flowing
  <2> QED BY Zenon, <2>1, <2>2, <1>3 DEF IInv, NothingMissing, Covered
<1>13. EndedStays' BY Zenon, <1>2, <1>3, <1>7 DEF IInv, EndedStays, Whole
<1>14. Held'
  <2>1. \A z \in Streams : Owes(z)' => Owes(z)
    BY Zenon, <1>2, <1>3, <1>4, <1>7 DEF Owes
  <2> QED BY Zenon, <2>1, <1>3 DEF IInv, Held
<1>15. CleanEndUnlessExpired' BY Zenon, <1>3 DEF IInv, CleanEndUnlessExpired
<1> QED BY Zenon, <1>7, <1>8, <1>9, <1>10, <1>11, <1>12, <1>13, <1>14, <1>15 DEF IInv

-----------------------------------------------------------------------------
(* The retry timer *)

(* The timer posts the deferred wires in order, or discards expired ones.   *)
LEMMA NextFlush ==
  ASSUME PathAssumption, IInv, Flush
  PROVE  IInv'
<1> DEFINE Parts == /\ Reached /\ RingBehind /\ NothingMissing /\ EndedStays /\ Held
                    /\ CleanEndUnlessExpired
<1>0. /\ PathTypeOK /\ Ordered /\ Retried /\ None \notin Streams
      /\ box \in Seq(Wires) /\ pend \in Seq(Wires)
  BY Zenon DEF IInv, PathTypeOK, PathAssumption
<1>1. CASE TimerTick
  <2>1. /\ armed' = FALSE /\ flushing' = TRUE /\ spin = None
        /\ UNCHANGED <<wpc, failed, posted, expired, pend, spin, box, refs, slot, conn, up,
                       closed, opened, queue, fin>>
    BY Zenon, <1>1 DEF TimerTick, wvars, rvars, Free
  <2>2. InFlight' = InFlight BY Zenon, <2>1 DEF InFlight
  <2>3. Parts' BY Zenon, <2>1, <2>2, Fewer
  <2>4. PathTypeOK' BY <1>0, <2>1, Zenon DEF PathTypeOK
  <2>5. Ordered' /\ Retried' BY Zenon, <1>0, <2>1 DEF Ordered, Retried
  <2> QED BY Zenon, <2>3, <2>4, <2>5 DEF IInv
<1>2. CASE FlushPost
  <2>1. /\ flushing /\ pend # <<>> /\ box' = Append(box, Head(pend)) /\ pend' = Tail(pend)
        /\ UNCHANGED <<wpc, failed, posted, expired, armed, flushing, spin, refs, slot, conn, up,
                       closed, opened, queue, fin>>
    BY Zenon, <1>2 DEF FlushPost, wvars, rvars
  <2>2. /\ pend' \in Seq(Wires) /\ box' \in Seq(Wires) /\ Ordered' /\ InFlight' = InFlight
    BY Zenon, <1>0, <2>1, MovePend DEF Ordered, InFlight
  <2>3. Parts' BY Zenon, <2>1, <2>2, Fewer
  <2>4. PathTypeOK' BY <1>0, <2>1, <2>2, Zenon DEF PathTypeOK
  <2>5. Retried' BY Zenon, <1>0, <2>1 DEF Retried
  <2> QED BY Zenon, <2>2, <2>3, <2>4, <2>5 DEF IInv
<1>3. CASE FlushExpire
  <2>1. /\ flushing /\ pend # <<>> /\ pend' = Tail(pend)
        /\ expired' = expired \union {w.s : w \in {Head(pend)}}
        /\ UNCHANGED <<wpc, failed, posted, armed, flushing, spin, box, refs, slot, conn, up,
                       closed, opened, queue, fin>>
    BY Zenon, <1>3 DEF FlushExpire, Discarded
  <2>2. /\ pend' \in Seq(Wires) /\ Ordered'
        /\ InFlight = InFlight' \union {Head(pend)}
    BY Zenon, <1>0, <2>1, DropPend DEF Ordered, InFlight
  <2>3. Parts' BY Zenon, <2>1, <2>2, Fewer
  <2>4. PathTypeOK' BY <1>0, <2>1, <2>2, Zenon DEF PathTypeOK
  <2>5. Retried' BY Zenon, <1>0, <2>1 DEF Retried
  <2> QED BY Zenon, <2>2, <2>3, <2>4, <2>5 DEF IInv
<1>4. CASE FlushEnd
  <2>1. /\ flushing' = FALSE /\ armed' = (pend # <<>>) /\ flushing
        /\ UNCHANGED <<wpc, failed, posted, expired, pend, spin, box, refs, slot, conn, up,
                       closed, opened, queue, fin>>
    BY Zenon, <1>4 DEF FlushEnd, wvars, rvars
  <2>2. InFlight' = InFlight BY Zenon, <2>1 DEF InFlight
  <2>3. Parts' BY Zenon, <2>1, <2>2, Fewer
  <2>4. PathTypeOK' BY <1>0, <2>1, Zenon DEF PathTypeOK
  <2>5. Ordered' /\ Retried' BY <1>0, <2>1, Zenon DEF Ordered, Retried
  <2> QED BY Zenon, <2>3, <2>4, <2>5 DEF IInv
<1>5. CASE FlushFail
  <2>1. /\ flushing' = FALSE /\ pend' = <<>>
        /\ expired' = expired \union {w.s : w \in Range(pend)}
        /\ UNCHANGED <<wpc, failed, posted, armed, spin, box, refs, slot, conn, up, closed,
                       opened, queue, fin>>
    BY Zenon, <1>5 DEF FlushFail, Discarded
  <2>2. Range(pend') = {} /\ pend' \in Seq(Wires)
    BY <2>1 DEF Range
  <2>3. InFlight' \subseteq InFlight /\ \A w \in InFlight : w \in InFlight' \/ w.s \in expired'
    BY Zenon, <2>1, <2>2 DEF InFlight
  <2>4. Parts' BY Zenon, <2>1, <2>3, Fewer
  <2>5. PathTypeOK' BY <1>0, <2>1, <2>2, Zenon DEF PathTypeOK
  <2>6. Ordered'
    <3>1. \A i : i \notin 1 .. Len(<<>>)
      OBVIOUS
    <3>2. InOrder(box, pend)
      BY Zenon, <1>0 DEF Ordered
    <3>3. InOrder(box, <<>>)
      BY Zenon, <3>1, <3>2 DEF InOrder
    <3> QED BY Zenon, <2>1, <3>3 DEF Ordered
  <2>7. Retried' BY Zenon, <1>0, <2>1 DEF Retried
  <2> QED BY Zenon, <2>4, <2>5, <2>6, <2>7 DEF IInv
<1> QED BY Zenon, <1>1, <1>2, <1>3, <1>4, <1>5 DEF Flush

-----------------------------------------------------------------------------
(* The reactor *)

(* w was the oldest wire: all that is left of its stream comes after it. *)
Taken(w) ==
  /\ w \in Wires /\ w \in InFlight /\ InFlight = InFlight' \union {w}
  /\ \A x \in InFlight' : Before(w, x)
  /\ box' \in Seq(Wires) /\ Ordered' /\ Retried'
  /\ UNCHANGED <<wpc, failed, posted, expired, pend, armed, flushing, spin>>

(* Taking the first wire of the mailbox leaves the others in order.         *)
LEMMA ApplyTakes ==
  ASSUME IInv, Apply
  PROVE  Taken(Head(box))
<1>1. /\ box # <<>> /\ box' = Tail(box)
      /\ UNCHANGED <<wpc, failed, posted, expired, pend, armed, flushing, spin>>
  BY Zenon DEF Apply, wvars
<1>2. box \in Seq(Wires) /\ pend \in Seq(Wires) /\ InOrder(box, pend)
  BY Zenon DEF IInv, PathTypeOK, Ordered
<1>3. /\ Tail(box) \in Seq(Wires) /\ Head(box) \in Wires
      /\ InOrder(Tail(box), pend)
      /\ Range(pend) \union Range(box) = (Range(pend) \union Range(Tail(box))) \union {Head(box)}
      /\ \A x \in Range(pend) \union Range(Tail(box)) : Before(Head(box), x)
  BY Zenon, <1>1, <1>2, TakeBox
<1>4. InFlight' = Range(pend) \union Range(Tail(box)) /\ InFlight = Range(pend) \union Range(box)
  BY Zenon, <1>1 DEF InFlight
<1>5. Ordered' BY Zenon, <1>1, <1>3 DEF Ordered
<1>6. Retried' BY Zenon, <1>1 DEF IInv, Retried
<1> QED BY Zenon, <1>1, <1>3, <1>4, <1>5, <1>6 DEF Taken

(* A wire for a stream without its connection changes nothing the ring knows. *)
LEMMA NextGone ==
  ASSUME PathAssumption, IInv, NEW w, Taken(w), ~conn[w.s],
         UNCHANGED <<refs, slot, conn, up, closed, opened, queue, fin>>
  PROVE  IInv'
<1>1. PathTypeOK' BY Zenon DEF Taken, IInv, PathTypeOK
<1>2. InFlight' \subseteq InFlight /\ \A x \in InFlight : x \in InFlight' \/ ~conn[x.s]
  BY Zenon DEF Taken
<1>3. /\ Reached' /\ RingBehind' /\ NothingMissing' /\ EndedStays' /\ Held'
      /\ CleanEndUnlessExpired'
  BY Zenon, <1>2, Fewer DEF Taken
<1> QED BY Zenon, <1>1, <1>3 DEF Taken, IInv

(* http3_stream_release. *)
LEMMA UnrefOf ==
  ASSUME PathTypeOK, NEW s \in Streams, NEW c \in Int, c = refs[s],
         refs' = [refs EXCEPT ![s] = refs[s] - 1],
         slot' = [slot EXCEPT ![s] = IF refs[s] = 1 THEN "reactor" ELSE slot[s]],
         conn' = [conn EXCEPT ![s] = conn[s] /\ refs[s] # 1]
  PROVE  /\ refs' \in [Streams -> Int] /\ refs'[s] = c - 1
         /\ slot' \in [Streams -> {"live", "worker", "reactor"}]
         /\ slot'[s] = (IF c = 1 THEN "reactor" ELSE slot[s])
         /\ conn' \in [Streams -> BOOLEAN] /\ (conn'[s] <=> conn[s] /\ c # 1)
         /\ \A z \in Streams : z # s => refs'[z] = refs[z] /\ slot'[z] = slot[z] /\ conn'[z] = conn[z]
<1>1. refs \in [Streams -> Int] /\ slot \in [Streams -> {"live", "worker", "reactor"}]
      /\ conn \in [Streams -> BOOLEAN]
  BY Zenon DEF PathTypeOK
<1>2. /\ refs' \in [Streams -> Int] /\ refs'[s] = c - 1
      /\ \A z \in Streams : z # s => refs'[z] = refs[z]
  BY <1>1
<1>3. /\ slot' \in [Streams -> {"live", "worker", "reactor"}]
      /\ slot'[s] = (IF c = 1 THEN "reactor" ELSE slot[s])
      /\ \A z \in Streams : z # s => slot'[z] = slot[z]
  BY Zenon, <1>1
<1>4. PICK b \in BOOLEAN : b <=> conn[s] /\ c # 1 BY Zenon
<1>5. conn' = [conn EXCEPT ![s] = b] BY <1>1, <1>4, Zenon
<1>6. /\ conn' \in [Streams -> BOOLEAN] /\ conn'[s] = b
      /\ \A z \in Streams : z # s => conn'[z] = conn[z]
  BY Zenon, <1>1, <1>5
<1> QED BY Zenon, <1>2, <1>3, <1>4, <1>6

(* The release is the last of its stream, so the worker owes nothing after it. *)
LEMMA NextConsumed ==
  ASSUME PathAssumption, IInv, NEW w, Taken(w), ConsumedApply(w)
  PROVE  IInv'
<1> DEFINE s == w.s
<1>1. /\ w.k = "RELEASE" /\ slot[s] = "live" /\ s \in Streams
      /\ refs' = [refs EXCEPT ![s] = refs[s] - 1]
      /\ slot' = [slot EXCEPT ![s] = IF refs[s] = 1 THEN "reactor" ELSE slot[s]]
      /\ conn' = [conn EXCEPT ![s] = conn[s] /\ refs[s] # 1]
      /\ UNCHANGED <<up, closed, opened, queue, fin>>
  BY Zenon DEF ConsumedApply, Unref, Taken, Wires
<1>2. wpc[s] = "done" /\ spin # s
  BY Zenon, <1>1 DEF IInv, Reached, Taken
<1>3. \A x \in InFlight' : x.s # s
  BY <1>1 DEF Taken, Before, Whole, Stage
<1> HIDE DEF s
<1>4. PICK c \in Int : c = refs[s] BY Zenon, <1>1 DEF IInv, PathTypeOK
<1>5. /\ refs' \in [Streams -> Int] /\ refs'[s] = c - 1
      /\ slot' \in [Streams -> {"live", "worker", "reactor"}]
      /\ slot'[s] = (IF c = 1 THEN "reactor" ELSE "live")
      /\ conn' \in [Streams -> BOOLEAN] /\ (conn'[s] <=> conn[s] /\ c # 1)
      /\ \A z \in Streams : z # s => refs'[z] = refs[z] /\ slot'[z] = slot[z] /\ conn'[z] = conn[z]
  BY <1>1, <1>4, UnrefOf, Zenon DEF IInv
<1>6. PathTypeOK' BY <1>1, <1>5, Zenon DEF Taken, IInv, PathTypeOK
<1>7. Reached' BY Zenon, <1>1 DEF Taken, IInv, Reached
<1>8. RingBehind' /\ CleanEndUnlessExpired'
  BY Zenon, <1>1 DEF Taken, IInv, RingBehind, ChunksInOrder, CleanEndUnlessExpired
<1>9. NothingMissing'
  <2> SUFFICES ASSUME NEW z \in Streams, Flowing(z)' PROVE Covered(z)'
    BY Zenon DEF NothingMissing
  <2>1. z # s
    BY Zenon, <1>2, <1>3 DEF Flowing, Taken, Wire
  <2>2. \A k, n : Wire(z, k, n) \in InFlight' <=> Wire(z, k, n) \in InFlight
    BY <2>1 DEF Taken, Wire, s
  <2>3. Flowing(z) BY Zenon, <2>1, <2>2, <1>1, <1>5 DEF Flowing, Taken
  <2> QED BY Zenon, <2>2, <2>3, <1>1 DEF IInv, NothingMissing, Covered, Taken
<1>10. EndedStays' BY Zenon, <1>1 DEF Taken, IInv, EndedStays
<1>11. Held'
  <2>1. ASSUME ~up, NEW z \in Streams PROVE ~conn'[z]
    BY Zenon, <2>1, <1>5 DEF IInv, Held
  <2>2. ASSUME up, NEW z \in Streams
        PROVE  /\ slot'[z] = "live" <=> refs'[z] > 0
               /\ conn'[z] <=> slot'[z] = "live"
               /\ Owes(z)' => refs'[z] >= 1
               /\ ~closed[z] => refs'[z] >= 1
               /\ Owes(z)' /\ ~closed[z] => refs'[z] >= 2
    <3>1. /\ slot[z] = "live" <=> refs[z] > 0
          /\ conn[z] <=> slot[z] = "live"
          /\ Owes(z) => refs[z] >= 1
          /\ ~closed[z] => refs[z] >= 1
          /\ Owes(z) /\ ~closed[z] => refs[z] >= 2
      BY Zenon, <2>2 DEF IInv, Held
    <3>2. CASE z # s
      <4>1. Owes(z)' => Owes(z) BY Zenon, <3>2, <1>1 DEF Owes, Taken
      <4> QED BY Zenon, <3>1, <3>2, <4>1, <1>5
    <3>3. CASE z = s
      <4>1. Owes(s) BY Zenon DEF Owes, Taken, s
      <4>2. ~Owes(s)' BY Zenon, <1>2, <1>3 DEF Owes, Taken
      <4> QED BY <3>1, <3>3, <4>1, <4>2, <1>1, <1>4, <1>5
    <3> QED BY Zenon, <3>2, <3>3
  <2> QED BY Zenon, <2>1, <2>2, <1>1 DEF Held
<1> QED BY Zenon, <1>6, <1>7, <1>8, <1>9, <1>10, <1>11 DEF Taken, IInv

(* While the slot is left alone, taking a wire keeps what covers the others. *)
LEMMA TakenHeld ==
  ASSUME IInv, NEW w, Taken(w), UNCHANGED <<refs, slot, conn, up, closed>>
  PROVE  Held'
<1>1. \A z \in Streams : Owes(z)' => Owes(z) BY Zenon DEF Taken, Owes
<1> QED BY Zenon, <1>1 DEF IInv, Held

(* ... and the other streams as they were. *)
LEMMA TakenOthers ==
  ASSUME IInv, NEW w, Taken(w), NEW z \in Streams, z # w.s, Flowing(z)',
         UNCHANGED <<conn, closed>>, opened'[z] = opened[z], queue'[z] = queue[z],
         fin'[z] = fin[z]
  PROVE  Covered(z)'
<1>1. \A k, n : Wire(z, k, n) \in InFlight' <=> Wire(z, k, n) \in InFlight
  BY DEF Wire, Taken
<1>2. Flowing(z) BY Zenon, <1>1 DEF Flowing, Taken
<1>3. Covered(z) BY Zenon, <1>2 DEF IInv, NothingMissing
<1> QED BY Zenon, <1>1, <1>3 DEF Covered, Taken

(* A whole response, or the head of a streamed one, is submitted.           *)
LEMMA NextApplyHead ==
  ASSUME PathAssumption, IInv, NEW w, Taken(w), ApplyHead(w)
  PROVE  IInv'
<1> DEFINE s == w.s
<1>1. PICK o \in BOOLEAN, f \in {None, "refused", "end"} :
        /\ opened' = [opened EXCEPT ![s] = o]
        /\ fin' = [fin EXCEPT ![s] = f]
        /\ f = None => o
        /\ f = None => w.k = "STREAM_HEADERS"
        /\ f = "end" => w.k \in Whole
  BY Zenon DEF ApplyHead, Whole, None
<1>2. /\ w.k \in Whole \union {"STREAM_HEADERS"} /\ s \in Streams
      /\ UNCHANGED <<refs, slot, conn, up, closed, queue>>
  BY Zenon DEF ApplyHead, Taken, Wires, Whole
<1>3. wpc[s] # "run" /\ fin[s] = None
  BY Zenon, <1>2 DEF Taken, IInv, Reached, EndedStays
<1>4. \A x \in InFlight' : x.s = s => x.k \notin Whole \union {"STREAM_HEADERS"}
  BY <1>2 DEF Taken, Before, Whole, Stage
<1>5. w.k \in Whole => \A x \in InFlight' : x.s = s => x.k = "RELEASE"
  BY DEF Taken, Before, Whole, Stage
<1> HIDE DEF s
<1>6. /\ opened'[s] = o /\ fin'[s] = f
      /\ \A z \in Streams : z # s => opened'[z] = opened[z] /\ fin'[z] = fin[z]
      /\ opened' \in [Streams -> BOOLEAN] /\ fin' \in [Streams -> {None, "end", "abort", "refused"}]
  BY Zenon, <1>1, <1>2 DEF IInv, PathTypeOK
<1>7. PathTypeOK' BY <1>2, <1>6, ZenonT(30) DEF Taken, IInv, PathTypeOK
<1>8. Reached' BY Zenon, <1>2, <1>3, <1>6 DEF Taken, IInv, Reached
<1>9. RingBehind' BY Zenon, <1>2 DEF Taken, IInv, RingBehind, ChunksInOrder
<1>10. NothingMissing'
  <2> SUFFICES ASSUME NEW z \in Streams, Flowing(z)' PROVE Covered(z)'
    BY Zenon DEF NothingMissing
  <2>1. CASE z # s BY Zenon, <2>1, <1>2, <1>6, TakenOthers DEF s
  <2>2. CASE z = s
    <3>1. f = None BY Zenon, <2>2, <1>6 DEF Flowing
    <3>2. Flowing(s)
      <4>1. Flowing(s)' BY Zenon, <2>2
      <4>2. InFlight' \subseteq InFlight BY Zenon DEF Taken
      <4> QED BY Zenon, <4>1, <4>2, <1>2, <1>3 DEF Flowing, Taken
    <3>3. Covered(s) BY Zenon, <3>2, <1>2 DEF IInv, NothingMissing
    <3>4. \A n : Wire(s, "STREAM_CHUNK", n) \in InFlight => Wire(s, "STREAM_CHUNK", n) \in InFlight'
      BY <3>1, <1>1 DEF Taken, Wire
    <3> QED BY Zenon, <2>2, <3>1, <3>3, <3>4, <1>1, <1>2, <1>6 DEF Covered, Taken
  <2> QED BY Zenon, <2>1, <2>2
<1>11. EndedStays'
  <2>1. f = "end" => wpc[s] \in {"ended", "done"}
    BY Zenon, <1>1, <1>2 DEF IInv, Reached, Taken, Last, Whole, s
  <2>2. ASSUME NEW z \in Streams
        PROVE  /\ fin'[z] # None => \A x \in InFlight' : x.s = z => x.k \notin Whole \union {"STREAM_HEADERS"}
               /\ fin'[z] = "end" => /\ wpc[z] \in {"ended", "done"}
                                     /\ \A x \in InFlight' : x.s = z => x.k = "RELEASE"
    <3>1. CASE z # s BY Zenon, <3>1, <1>6 DEF Taken, IInv, EndedStays
    <3>2. CASE z = s BY Zenon, <3>2, <2>1, <1>1, <1>4, <1>5, <1>6
    <3> QED BY Zenon, <3>1, <3>2
  <2> QED BY Zenon, <2>2 DEF EndedStays, Taken
<1>12. Held' BY Zenon, <1>2, TakenHeld
<1>13. CleanEndUnlessExpired'
  <2>1. ASSUME f = "end" PROVE Len(queue[s]) = posted[s]
    <3>1. posted[s] = 0 BY Zenon, <2>1, <1>1 DEF IInv, Reached, Taken, s
    <3>2. \A i \in 1 .. Len(queue[s]) : queue[s][i] \in 1 .. posted[s]
      BY Zenon, <1>2 DEF IInv, RingBehind
    <3>3. Len(queue[s]) \in Nat BY <1>2 DEF IInv, PathTypeOK
    <3> QED BY <3>1, <3>2, <3>3
  <2> QED BY Zenon, <2>1, <1>2, <1>6 DEF IInv, CleanEndUnlessExpired, Taken
<1> QED BY Zenon, <1>7, <1>8, <1>9, <1>10, <1>11, <1>12, <1>13 DEF Taken, IInv

(* A chunk that is taken into the ring continues it. *)
LEMMA NextApplyChunk ==
  ASSUME PathAssumption, IInv, NEW w, Taken(w), ApplyChunk(w)
  PROVE  IInv'
<1> DEFINE s == w.s
           n == w.n
<1>1. /\ w.k = "STREAM_CHUNK" /\ s \in Streams
      /\ queue' = [queue EXCEPT ![s] = IF Accepting(s) THEN Append(queue[s], n) ELSE queue[s]]
      /\ UNCHANGED <<refs, slot, conn, up, closed, opened, fin>>
  BY Zenon DEF ApplyChunk, Taken, Wires
<1>2. n \in 1 .. posted[s] /\ posted[s] \in Nat /\ n \in Nat
      /\ \A i \in 1 .. Len(queue[s]) : queue[s][i] < n /\ queue[s][i] \in 1 .. posted[s]
  BY <1>1 DEF Taken, IInv, Reached, RingBehind, PathTypeOK
<1>3. \A x \in InFlight' : x.s = s => /\ x.k # "STREAM_HEADERS"
                                      /\ x.k = "STREAM_CHUNK" => n < x.n
  BY <1>1 DEF Taken, Before, Whole, Stage
<1>4. w = Wire(s, "STREAM_CHUNK", n)
  BY Zenon, <1>1 DEF Taken, Wires, Wire
<1> HIDE DEF s, n
<1>5. PICK q \in Seq(Nat) : q = queue[s] BY Zenon, <1>1 DEF IInv, PathTypeOK
<1>6. /\ queue' \in [Streams -> Seq(Nat)]
      /\ \A z \in Streams : z # s => queue'[z] = queue[z]
      /\ queue'[s] = IF Accepting(s) THEN Append(q, n) ELSE q
  <2>1. queue \in [Streams -> Seq(Nat)] BY Zenon DEF IInv, PathTypeOK
  <2>2. (IF Accepting(s) THEN Append(q, n) ELSE q) \in Seq(Nat) BY <1>2
  <2> QED BY Zenon, <1>1, <1>5, <2>1, <2>2
<1>7. /\ Len(Append(q, n)) = Len(q) + 1 /\ Append(q, n)[Len(q) + 1] = n /\ Len(q) \in Nat
      /\ \A i \in 1 .. Len(q) : Append(q, n)[i] = q[i]
  BY <1>2
<1>8. PathTypeOK' BY <1>1, <1>6, Zenon DEF Taken, IInv, PathTypeOK
<1>9. Reached' /\ EndedStays' BY Zenon, <1>1 DEF Taken, IInv, Reached, EndedStays
<1>10. RingBehind'
  <2>1. CASE ~Accepting(s)
    <3>1. queue' = queue BY Zenon, <2>1, <1>1 DEF IInv, PathTypeOK
    <3> QED BY Zenon, <3>1 DEF Taken, IInv, RingBehind, ChunksInOrder
  <2>2. CASE Accepting(s)
    <3>1. /\ Len(queue'[s]) = Len(q) + 1 /\ queue'[s][Len(q) + 1] = n
          /\ \A i \in 1 .. Len(q) : queue'[s][i] = q[i]
      BY Zenon, <2>2, <1>6, <1>7
    <3>2. \A i, j \in 1 .. Len(q) : i < j => q[i] < q[j]
      BY Zenon, <1>1, <1>5 DEF IInv, RingBehind, ChunksInOrder
    <3>a. /\ \A i \in 1 .. Len(q) : q[i] < n /\ q[i] \in 1 .. posted[s] /\ q[i] \in Nat
          /\ \A i \in 1 .. Len(queue'[s]) : i \in 1 .. Len(q) \/ i = Len(q) + 1
      BY <3>1, <1>2, <1>5, <1>7
    <3>3. \A i, j \in 1 .. Len(queue'[s]) : i < j => queue'[s][i] < queue'[s][j]
      <4> TAKE i, j \in 1 .. Len(queue'[s])
      <4> HAVE i < j
      <4>1. i \in 1 .. Len(q) BY <3>1, <1>7
      <4>2. CASE j \in 1 .. Len(q) BY Zenon, <4>1, <4>2, <3>1, <3>2
      <4>3. CASE j = Len(q) + 1 BY Zenon, <4>1, <4>3, <3>1, <3>a
      <4> QED BY Zenon, <4>2, <4>3, <3>a
    <3>4. \A i \in 1 .. Len(queue'[s]) : queue'[s][i] \in 1 .. posted[s] /\ queue'[s][i] <= n
      <4> TAKE i \in 1 .. Len(queue'[s])
      <4>1. CASE i \in 1 .. Len(q) BY <4>1, <3>1, <3>a, <1>2
      <4>2. CASE i = Len(q) + 1 BY <4>2, <3>1, <1>2
      <4> QED BY Zenon, <4>1, <4>2, <3>a
    <3>5. ASSUME NEW x \in InFlight', x.k = "STREAM_CHUNK"
          PROVE  \A i \in 1 .. Len(queue'[x.s]) : queue'[x.s][i] < x.n
      <4>1. x \in InFlight /\ x \in Wires
        BY Zenon, InFlightType DEF Taken, IInv
      <4>2. CASE x.s # s
        <5>1. queue'[x.s] = queue[x.s] BY Zenon, <4>1, <4>2, <1>6 DEF Wires
        <5> QED BY Zenon, <5>1, <4>1, <3>5 DEF IInv, RingBehind
      <4>3. CASE x.s = s
        <5>1. n < x.n /\ x.n \in Nat BY Zenon, <4>1, <4>3, <3>5, <1>3 DEF Wires
        <5> QED BY <5>1, <4>3, <3>4, <1>2
      <4> QED BY Zenon, <4>2, <4>3
    <3>6. ChunksInOrder' BY <3>3, <1>6, Zenon DEF IInv, RingBehind, ChunksInOrder
    <3>7. \A z \in Streams : \A i \in 1 .. Len(queue'[z]) : queue'[z][i] \in 1 .. posted[z]
      BY ZenonT(30), <3>4, <1>6 DEF IInv, RingBehind
    <3> QED BY Zenon, <3>5, <3>6, <3>7 DEF RingBehind, Taken
  <2> QED BY Zenon, <2>1, <2>2
<1>11. NothingMissing'
  <2> SUFFICES ASSUME NEW z \in Streams, Flowing(z)' PROVE Covered(z)'
    BY Zenon DEF NothingMissing
  <2>1. CASE z # s BY Zenon, <2>1, <1>1, <1>6, TakenOthers DEF s
  <2>2. CASE z = s
    <3>1. Flowing(s)
      <4>1. Flowing(s)' BY Zenon, <2>2
      <4>2. InFlight' \subseteq InFlight BY Zenon DEF Taken
      <4> QED BY Zenon, <4>1, <4>2, <1>1 DEF Flowing, Taken
    <3>2. Covered(s) BY Zenon, <3>1, <1>1 DEF IInv, NothingMissing
    <3>3. \A k, m : Wire(s, k, m) \in InFlight => Wire(s, k, m) \in InFlight' \/ (k = "STREAM_CHUNK" /\ m = n)
      BY Zenon, <1>4 DEF Taken, Wire
    <3>4. opened[s]
      <4>1. Wire(s, "STREAM_HEADERS", 0) \notin InFlight' BY Zenon, <1>3 DEF Wire
      <4> QED BY <4>1, <3>2, <3>3 DEF Covered
    <3>5. Accepting(s) BY Zenon, <3>1, <3>4 DEF Flowing, Accepting
    <3>6. \A m \in Nat : m <= n => Wire(s, "STREAM_CHUNK", m) \notin InFlight'
      BY <1>2, <1>3 DEF Wire
    <3>7. Len(q) + 1 = n
      <4>1. Len(q) < n BY <3>2, <1>2, <1>5, <1>7 DEF Covered
      <4>2. CASE n = 1 BY <4>1, <4>2, <1>7
      <4>3. CASE n # 1
        <5>1. n - 1 \in 1 .. posted[s] /\ n - 1 \in Nat /\ n - 1 # n /\ n - 1 <= n
          BY <4>3, <1>2
        <5>2. Wire(s, "STREAM_CHUNK", n - 1) \notin InFlight
          BY Zenon, <5>1, <3>3, <3>6
        <5>3. n - 1 <= Len(q) BY Zenon, <5>1, <5>2, <3>2, <1>5 DEF Covered
        <5> QED BY <5>3, <4>1, <1>2, <1>7
      <4> QED BY Zenon, <4>2, <4>3
    <3>8. \A i \in 1 .. Len(queue'[s]) : queue'[s][i] = i
      BY <3>2, <3>5, <3>7, <1>2, <1>5, <1>6, <1>7 DEF Covered
    <3>9. \A m \in 1 .. posted[s] : m <= Len(queue'[s]) \/ Wire(s, "STREAM_CHUNK", m) \in InFlight'
      <4> TAKE m \in 1 .. posted[s]
      <4>1. m <= Len(q) \/ Wire(s, "STREAM_CHUNK", m) \in InFlight
        BY Zenon, <3>2, <1>5 DEF Covered
      <4>2. Len(queue'[s]) = Len(q) + 1 BY Zenon, <3>5, <1>6, <1>7
      <4> QED BY <4>1, <4>2, <3>3, <3>7, <1>2, <1>7
    <3> QED BY Zenon, <2>2, <3>4, <3>8, <3>9, <1>1 DEF Covered, Taken
  <2> QED BY Zenon, <2>1, <2>2
<1>12. Held' BY Zenon, <1>1, TakenHeld
<1>13. CleanEndUnlessExpired'
  <2>1. fin[s] = "end" => queue'[s] = queue[s]
    BY Zenon, <1>5, <1>6 DEF Accepting, None
  <2> QED BY Zenon, <2>1, <1>1, <1>6 DEF IInv, CleanEndUnlessExpired, Taken
<1> QED BY Zenon, <1>8, <1>9, <1>10, <1>11, <1>12, <1>13 DEF Taken, IInv

(* The end is only reached when every chunk has been taken before it. *)
LEMMA NextApplyEnd ==
  ASSUME PathAssumption, IInv, NEW w, Taken(w), ApplyEnd(w)
  PROVE  IInv'
<1> DEFINE s == w.s
<1>1. /\ w.k = "STREAM_END" /\ s \in Streams /\ conn[s]
      /\ fin' = [fin EXCEPT ![s] = IF Accepting(s) THEN "end" ELSE fin[s]]
      /\ UNCHANGED <<refs, slot, conn, up, closed, opened, queue>>
  BY Zenon DEF ApplyEnd, Taken, Wires
<1>2. wpc[s] \in {"ended", "done"}
  BY Zenon, <1>1 DEF Taken, IInv, Reached, Last
<1>3. \A x \in InFlight' : x.s = s => x.k = "RELEASE"
  BY <1>1 DEF Taken, Before, Whole, Stage
<1>4. w = Wire(s, "STREAM_END", 0)
  BY Zenon, <1>1 DEF Taken, Wires, Wire
<1> HIDE DEF s
<1>5. /\ fin' \in [Streams -> {None, "end", "abort", "refused"}]
      /\ \A z \in Streams : z # s => fin'[z] = fin[z]
      /\ fin'[s] = IF Accepting(s) THEN "end" ELSE fin[s]
  BY Zenon, <1>1 DEF IInv, PathTypeOK
<1>6. PathTypeOK' BY <1>1, <1>5, Zenon DEF Taken, IInv, PathTypeOK
<1>7. Reached' BY Zenon, <1>1, <1>2, <1>5 DEF Taken, IInv, Reached
<1>8. RingBehind' BY Zenon, <1>1 DEF Taken, IInv, RingBehind, ChunksInOrder
<1>9. NothingMissing'
  <2> SUFFICES ASSUME NEW z \in Streams, Flowing(z)' PROVE Covered(z)'
    BY Zenon DEF NothingMissing
  <2>1. CASE z # s BY Zenon, <2>1, <1>1, <1>5, TakenOthers DEF s
  <2>2. CASE z = s
    <3>1. Wire(s, "STREAM_END", 0) \notin InFlight' BY Zenon, <1>3 DEF Wire
    <3> QED BY Zenon, <2>2, <3>1, <1>2 DEF Flowing, Taken
  <2> QED BY Zenon, <2>1, <2>2
<1>10. EndedStays'
  <2>1. ASSUME NEW z \in Streams
        PROVE  /\ fin'[z] # None => \A x \in InFlight' : x.s = z => x.k \notin Whole \union {"STREAM_HEADERS"}
               /\ fin'[z] = "end" => /\ wpc[z] \in {"ended", "done"}
                                     /\ \A x \in InFlight' : x.s = z => x.k = "RELEASE"
    <3>1. CASE z # s BY Zenon, <3>1, <1>5 DEF Taken, IInv, EndedStays
    <3>2. CASE z = s BY Zenon, <3>2, <1>2, <1>3 DEF Whole
    <3> QED BY Zenon, <3>1, <3>2
  <2> QED BY Zenon, <2>1 DEF EndedStays, Taken
<1>11. Held' BY Zenon, <1>1, TakenHeld
<1>12. CleanEndUnlessExpired'
  <2>1. ASSUME Accepting(s), s \notin expired PROVE Len(queue[s]) = posted[s]
    <3>1. Flowing(s) BY Zenon, <2>1, <1>1, <1>4 DEF Flowing, Accepting, Taken
    <3>2. Covered(s) BY Zenon, <3>1, <1>1 DEF IInv, NothingMissing
    <3>3. \A n : Wire(s, "STREAM_CHUNK", n) \notin InFlight
      BY Zenon, <1>3, <1>4 DEF Taken, Wire
    <3>4. PICK p \in Nat, l \in Nat : p = posted[s] /\ l = Len(queue[s])
      BY <1>1 DEF IInv, PathTypeOK
    <3>5. p <= l
      <4>1. CASE p = 0 BY <4>1, <3>4
      <4>2. CASE p # 0
        <5>1. p \in 1 .. posted[s] BY <4>2, <3>4
        <5> QED BY Zenon, <5>1, <3>2, <3>3, <3>4 DEF Covered
      <4> QED BY Zenon, <4>1, <4>2
    <3>6. l <= p
      <4>1. CASE l = 0 BY <4>1, <3>4
      <4>2. CASE l # 0
        <5>1. l \in 1 .. Len(queue[s]) BY <4>2, <3>4
        <5>2. queue[s][l] = l BY Zenon, <5>1, <3>2 DEF Covered
        <5>3. queue[s][l] \in 1 .. posted[s] BY Zenon, <5>1, <1>1 DEF IInv, RingBehind
        <5> QED BY <5>2, <5>3, <3>4
      <4> QED BY Zenon, <4>1, <4>2
    <3> QED BY SMTT(30), <3>4, <3>5, <3>6
  <2> QED BY Zenon, <2>1, <1>1, <1>5 DEF IInv, CleanEndUnlessExpired, Taken
<1> QED BY Zenon, <1>6, <1>7, <1>8, <1>9, <1>10, <1>11, <1>12 DEF Taken, IInv

(* An abort ends what the stream was sending.                               *)
LEMMA NextApplyAbort ==
  ASSUME PathAssumption, IInv, NEW w, Taken(w), ApplyAbort(w)
  PROVE  IInv'
<1> DEFINE s == w.s
<1>1. /\ w.k = "STREAM_ABORT" /\ s \in Streams
      /\ fin' = [fin EXCEPT ![s] = IF ~closed[s] /\ fin[s] = None THEN "abort" ELSE fin[s]]
      /\ UNCHANGED <<refs, slot, conn, up, closed, opened, queue>>
  BY Zenon DEF ApplyAbort, Taken, Wires
<1>2. wpc[s] \in {"ended", "done"}
  BY ZenonT(30), <1>1 DEF Taken, IInv, Reached, Last
<1>3. \A x \in InFlight' : x.s = s => x.k = "RELEASE"
  BY <1>1 DEF Taken, Before, Whole, Stage
<1> HIDE DEF s
<1>4. /\ fin' \in [Streams -> {None, "end", "abort", "refused"}]
      /\ \A z \in Streams : z # s => fin'[z] = fin[z]
      /\ fin'[s] = IF ~closed[s] /\ fin[s] = None THEN "abort" ELSE fin[s]
  BY Zenon, <1>1 DEF IInv, PathTypeOK
<1>5. PathTypeOK' BY <1>1, <1>4, ZenonT(30) DEF Taken, IInv, PathTypeOK
<1>6. Reached' BY Zenon, <1>1, <1>2, <1>4 DEF Taken, IInv, Reached
<1>7. RingBehind' BY ZenonT(30), <1>1 DEF Taken, IInv, RingBehind, ChunksInOrder
<1>8. NothingMissing'
  <2> SUFFICES ASSUME NEW z \in Streams, Flowing(z)' PROVE Covered(z)'
    BY Zenon DEF NothingMissing
  <2>1. CASE z # s BY Zenon, <2>1, <1>1, <1>4, TakenOthers DEF s
  <2>2. CASE z = s
    <3>1. Wire(s, "STREAM_END", 0) \notin InFlight' BY Zenon, <1>3 DEF Wire
    <3> QED BY Zenon, <2>2, <3>1, <1>2 DEF Flowing, Taken
  <2> QED BY Zenon, <2>1, <2>2
<1>9. EndedStays'
  <2>1. ASSUME NEW z \in Streams
        PROVE  /\ fin'[z] # None => \A x \in InFlight' : x.s = z => x.k \notin Whole \union {"STREAM_HEADERS"}
               /\ fin'[z] = "end" => /\ wpc[z] \in {"ended", "done"}
                                     /\ \A x \in InFlight' : x.s = z => x.k = "RELEASE"
    <3>1. CASE z # s BY Zenon, <3>1, <1>4 DEF Taken, IInv, EndedStays
    <3>2. CASE z = s BY Zenon, <3>2, <1>2, <1>3 DEF Whole
    <3> QED BY Zenon, <3>1, <3>2
  <2> QED BY Zenon, <2>1 DEF EndedStays, Taken
<1>10. Held' BY Zenon, <1>1, TakenHeld
<1>11. CleanEndUnlessExpired' BY Zenon, <1>1, <1>4 DEF IInv, CleanEndUnlessExpired, Taken
<1> QED BY Zenon, <1>5, <1>6, <1>7, <1>8, <1>9, <1>10, <1>11 DEF Taken, IInv

(* The reactor applies the first wire of its mailbox.                       *)
LEMMA NextApply ==
  ASSUME PathAssumption, IInv, Apply
  PROVE  IInv'
<1> DEFINE w == Head(box)
<1>1. Taken(w) BY Zenon, ApplyTakes
<1>2. \/ slot[w.s] # "live" /\ UNCHANGED rvars
      \/ ConsumedApply(w) \/ ApplyGone(w) \/ ApplyHead(w) \/ ApplyChunk(w)
      \/ ApplyEnd(w) \/ ApplyAbort(w)
  BY Zenon DEF Apply
<1> HIDE DEF w
<1>3. CASE slot[w.s] # "live" /\ UNCHANGED rvars
  <2>1. w.s \in Streams BY Zenon, <1>1 DEF Taken, Wires
  <2>2. ~conn[w.s] BY Zenon, <1>3, <2>1 DEF IInv, Held
  <2> QED BY Zenon, <1>1, <1>3, <2>2, NextGone DEF rvars
<1>4. CASE ApplyGone(w) BY Zenon, <1>1, <1>4, NextGone DEF ApplyGone
<1> QED
  BY Zenon, <1>1, <1>2, <1>3, <1>4, NextConsumed, NextApplyHead, NextApplyChunk, NextApplyEnd,
     NextApplyAbort

(* The stream's own reference goes; the worker's keeps what it has under way. *)
LEMMA NextStreamClose ==
  ASSUME PathAssumption, IInv, NEW s \in Streams, StreamClose(s)
  PROVE  IInv'
<1>1. /\ up /\ conn[s] /\ ~closed[s] /\ closed' = [closed EXCEPT ![s] = TRUE]
      /\ refs' = [refs EXCEPT ![s] = refs[s] - 1]
      /\ slot' = [slot EXCEPT ![s] = IF refs[s] = 1 THEN "reactor" ELSE slot[s]]
      /\ conn' = [conn EXCEPT ![s] = conn[s] /\ refs[s] # 1]
      /\ UNCHANGED <<wpc, failed, posted, expired, pend, armed, flushing, spin, box, up, opened,
                     queue, fin>>
  BY Zenon DEF StreamClose, wvars, pvars
<1>2. InFlight' = InFlight BY Zenon, <1>1 DEF InFlight
<1>3. PICK c \in Int : c = refs[s] BY Zenon DEF IInv, PathTypeOK
<1>4. /\ refs' \in [Streams -> Int] /\ refs'[s] = c - 1
      /\ slot' \in [Streams -> {"live", "worker", "reactor"}]
      /\ slot'[s] = (IF c = 1 THEN "reactor" ELSE slot[s])
      /\ conn' \in [Streams -> BOOLEAN] /\ (conn'[s] <=> conn[s] /\ c # 1)
      /\ \A z \in Streams : z # s => refs'[z] = refs[z] /\ slot'[z] = slot[z] /\ conn'[z] = conn[z]
  BY <1>1, <1>3, UnrefOf, Zenon DEF IInv
<1>5. /\ closed' \in [Streams -> BOOLEAN] /\ closed'[s] = TRUE
      /\ \A z \in Streams : z # s => closed'[z] = closed[z]
  BY Zenon, <1>1 DEF IInv, PathTypeOK
<1>6. PathTypeOK' BY <1>1, <1>4, <1>5, Zenon DEF IInv, PathTypeOK
<1>7. Ordered' /\ Retried' BY <1>1, ZenonT(30) DEF IInv, Ordered, Retried
<1>8. Reached' /\ EndedStays' BY Zenon, <1>1, <1>2 DEF IInv, Reached, EndedStays
<1>9. RingBehind' /\ CleanEndUnlessExpired'
  BY ZenonT(30), <1>1, <1>2 DEF IInv, RingBehind, ChunksInOrder, CleanEndUnlessExpired
<1>10. NothingMissing'
  <2> SUFFICES ASSUME NEW z \in Streams, Flowing(z)' PROVE Covered(z)'
    BY Zenon DEF NothingMissing
  <2>1. z # s BY Zenon, <1>5 DEF Flowing
  <2>2. Flowing(z) BY Zenon, <2>1, <1>1, <1>2, <1>4, <1>5 DEF Flowing
  <2> QED BY Zenon, <2>2, <1>1, <1>2 DEF IInv, NothingMissing, Covered
<1>11. Held'
  <2>1. ASSUME NEW z \in Streams
        PROVE  /\ slot'[z] = "live" <=> refs'[z] > 0
               /\ conn'[z] <=> slot'[z] = "live"
               /\ Owes(z)' => refs'[z] >= 1
               /\ ~closed'[z] => refs'[z] >= 1
               /\ Owes(z)' /\ ~closed'[z] => refs'[z] >= 2
    <3>1. /\ slot[z] = "live" <=> refs[z] > 0
          /\ conn[z] <=> slot[z] = "live"
          /\ Owes(z) => refs[z] >= 1
          /\ ~closed[z] => refs[z] >= 1
          /\ Owes(z) /\ ~closed[z] => refs[z] >= 2
      BY Zenon, <1>1 DEF IInv, Held
    <3>2. Owes(z)' <=> Owes(z) BY Zenon, <1>1, <1>2 DEF Owes
    <3>3. CASE z # s BY Zenon, <3>1, <3>2, <3>3, <1>4, <1>5
    <3>4. CASE z = s BY <3>1, <3>2, <3>4, <1>1, <1>3, <1>4, <1>5
    <3> QED BY Zenon, <3>3, <3>4
  <2> QED BY Zenon, <2>1, <1>1 DEF Held
<1> QED BY Zenon, <1>6, <1>7, <1>8, <1>9, <1>10, <1>11 DEF IInv

(* A freed connection takes its streams with it.                            *)
LEMMA NextConnFree ==
  ASSUME PathAssumption, IInv, ConnFree
  PROVE  IInv'
<1>1. /\ up' = FALSE /\ conn' = [s \in Streams |-> FALSE]
      /\ refs' = [s \in Streams |-> IF conn[s] THEN refs[s] - 1 ELSE refs[s]]
      /\ slot' = [s \in Streams |-> IF conn[s] /\ refs[s] = 1 THEN "reactor" ELSE slot[s]]
      /\ UNCHANGED <<wpc, failed, posted, expired, pend, armed, flushing, spin, box, closed,
                     opened, queue, fin>>
  BY Zenon DEF ConnFree, wvars, pvars
<1>2. InFlight' = InFlight BY Zenon, <1>1 DEF InFlight
<1>3. /\ refs' \in [Streams -> Int] /\ slot' \in [Streams -> {"live", "worker", "reactor"}]
      /\ conn' \in [Streams -> BOOLEAN]
  BY <1>1 DEF IInv, PathTypeOK
<1>4. PathTypeOK' BY <1>1, <1>3, Zenon DEF IInv, PathTypeOK
<1>5. Ordered' /\ Retried' BY <1>1, Zenon DEF IInv, Ordered, Retried
<1>6. Reached' /\ EndedStays' BY ZenonT(30), <1>1, <1>2 DEF IInv, Reached, EndedStays
<1>7. RingBehind' /\ CleanEndUnlessExpired'
  BY Zenon, <1>1, <1>2 DEF IInv, RingBehind, ChunksInOrder, CleanEndUnlessExpired
<1>8. NothingMissing' BY ZenonT(30), <1>1 DEF NothingMissing, Flowing
<1>9. Held' BY Zenon, <1>1 DEF Held
<1> QED BY Zenon, <1>4, <1>5, <1>6, <1>7, <1>8, <1>9 DEF IInv

(* A step that changes nothing.                                             *)
LEMMA NextStutter ==
  ASSUME PathAssumption, IInv, UNCHANGED vars
  PROVE  IInv'
<1>1. UNCHANGED <<wpc, failed, posted, expired, pend, armed, flushing, spin, box, refs, slot,
                  conn, up, closed, opened, queue, fin>>
  BY Zenon DEF vars, wvars, pvars, rvars
<1>2. InFlight' = InFlight BY Zenon, <1>1 DEF InFlight
<1>3. /\ Reached' /\ RingBehind' /\ NothingMissing' /\ EndedStays' /\ Held'
      /\ CleanEndUnlessExpired'
  BY Zenon, <1>1, <1>2, Fewer
<1>4. PathTypeOK' BY <1>1, Zenon DEF IInv, PathTypeOK
<1>5. Ordered' /\ Retried' BY <1>1, Zenon DEF IInv, Ordered, Retried
<1> QED BY Zenon, <1>3, <1>4, <1>5 DEF IInv

-----------------------------------------------------------------------------
(* It holds before anything is posted.                                      *)
LEMMA InitIInv ==
  ASSUME PathAssumption, Init
  PROVE  IInv
<1>1. PathTypeOK
  <2>1. <<>> \in Seq(Wires) /\ <<>> \in Seq(Nat) OBVIOUS
  <2>2. /\ queue \in [Streams -> Seq(Nat)] /\ refs \in [Streams -> Int]
        /\ posted \in [Streams -> Nat]
    BY <2>1 DEF Init
  <2>3. /\ wpc \in [Streams -> {"run", "stream", "ended", "done"}]
        /\ failed \in [Streams -> BOOLEAN]
        /\ slot \in [Streams -> {"live", "worker", "reactor"}]
        /\ conn \in [Streams -> BOOLEAN] /\ up \in BOOLEAN
        /\ closed \in [Streams -> BOOLEAN]
        /\ opened \in [Streams -> BOOLEAN]
        /\ fin \in [Streams -> {None, "end", "abort", "refused"}]
    BY Zenon DEF Init
  <2>4. box \in Seq(Wires) /\ pend \in Seq(Wires) BY Zenon, <2>1 DEF Init
  <2>5. armed \in BOOLEAN /\ flushing \in BOOLEAN /\ spin \in Streams \union {None} BY Zenon DEF Init
  <2> QED BY <2>2, <2>3, <2>4, <2>5, Zenon DEF PathTypeOK
<1>2. Range(<<>>) = {} BY DEF Range
<1>3. InFlight = {} BY Zenon, <1>2 DEF Init, InFlight
<1>4. Ordered /\ Retried BY DEF Init, Ordered, InOrder, Retried
<1>5. Reached BY Zenon, <1>3 DEF Init, Reached, PathAssumption
<1>6. RingBehind /\ CleanEndUnlessExpired
  BY <1>3 DEF Init, RingBehind, ChunksInOrder, CleanEndUnlessExpired, None
<1>7. NothingMissing BY Zenon, <1>3 DEF Init, NothingMissing, Flowing
<1>8. EndedStays BY Zenon, <1>3 DEF Init, EndedStays, None
<1>9. Held BY <1>3 DEF Init, Held, Owes
<1> QED BY Zenon, <1>1, <1>4, <1>5, <1>6, <1>7, <1>8, <1>9 DEF IInv

(* The invariant that says what is under way for every stream. *)
THEOREM PathInductive ==
  ASSUME PathAssumption
  PROVE  Spec => []IInv
<1>1. Init => IInv BY Zenon, InitIInv
<1>2. IInv /\ [Next]_vars => IInv'
  BY Zenon, NextOpenStream, NextChunk, NextCreditLost, NextMarkEnded, NextRespond, NextPostRelease,
     NextFreeSlotHere, NextSpinPost, NextFlush, NextApply, NextStreamClose, NextConnFree,
     NextStutter DEF Next, Handler
<1> QED BY <1>1, <1>2, PTL DEF Spec

(* Whatever the number of streams and chunks and however small the mailbox: the
   chunks of a stream reach its ring in order although some went straight to the
   mailbox and others through the FIFO, every wire finds its slot alive while the
   connection lives, and a response that lost a chunk is not ended cleanly unless
   a deadline took it (http_server_worker_response_sink, http3_dispatch.c). *)
THEOREM PathWiresSound ==
  ASSUME PathAssumption
  PROVE  Spec => []WiresSound
<1>1. IInv => WiresSound
  <2> SUFFICES ASSUME IInv PROVE WiresSound BY Zenon
  <2>1. ASSUME up, NEW w \in InFlight PROVE slot[w.s] = "live"
    <3>1. w.s \in Streams BY Zenon, InFlightType DEF IInv, Wires
    <3>2. Owes(w.s) BY Zenon DEF Owes
    <3>3. refs[w.s] \in Int BY Zenon, <3>1 DEF IInv, PathTypeOK
    <3> QED BY <2>1, <3>1, <3>2, <3>3 DEF IInv, Held
  <2> QED BY Zenon, <2>1 DEF IInv, RingBehind, WiresSound, WiresFindStream
<1> QED BY <1>1, PathInductive, PTL
=============================================================================
