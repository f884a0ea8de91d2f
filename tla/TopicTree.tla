----------------------------- MODULE TopicTree -----------------------------
(* The per-worker subscription tree (ws_topic_tree.c) and the interest filter  *)
(* the worker publishes to the other threads (topic_hub.c).                    *)
(* A node is named by its path, the sequence of levels from the root, so the   *)
(* parent pointer is Front and the child pointers are the one-longer paths.    *)
(* One coroutine runs at a time: a publish is a walk over the tree during      *)
(* which each send may tear its own session down and unsubscribe it.           *)
EXTENDS Naturals, SequencesExt, FiniteSetsExt

CONSTANTS
    Sessions,        \* WebSocket sessions of this worker
    Filters,         \* filters PHP code passes to subscribe(), as level sequences
    Topics,          \* concrete topics published
    MaxSubs,         \* the configured cap per session, 0 = no cap
    MaxLevels,       \* WS_TOPIC_MAX_LEVELS
    Probes,          \* prefix -> the set of counter buckets its probes hit
    None

Plus == "+"
Hash == "#"
Mixed == "x+"        \* any level that has a wildcard inside it

VARIABLES
    nodes,           \* path -> [subs, dirty]; the live nodes, root included
    topics,          \* session -> list of its filters, newest first
    marked,          \* sessions whose topic_mark equals the tree's mark
    walk,            \* None or the match in flight
    dirty,           \* nodes queued for compaction, in order
    interest,        \* the interest counters, or None before attach / after detach
    attached         \* the tree still exists

vars == <<nodes, topics, marked, walk, dirty, interest, attached>>

Buckets == UNION {Probes[p] : p \in DOMAIN Probes}
NoNode == [subs |-> <<>>, dirty |-> FALSE]

-----------------------------------------------------------------------------
(* Splitting and validating.                                                   *)

Split(t) == Len(t) > 0 /\ Len(t) <= MaxLevels

Check(t, wildcardsOk) ==
    /\ Split(t)
    /\ \A i \in 1..Len(t) :
          /\ t[i] # Mixed
          /\ t[i] \in {Plus, Hash} => wildcardsOk
          /\ t[i] = Hash => i = Len(t)

\* The leading literal levels of a filter: up to its first wildcard.
InterestPrefix(f) ==
    LET wild == {i \in 1..Len(f) : f[i] \in {Plus, Hash}}
    IN  IF wild = {} THEN f ELSE SubSeq(f, 1, Min(wild) - 1)

TopicPrefixes(t) == {SubSeq(t, 1, i) : i \in 0..Len(t)}

-----------------------------------------------------------------------------
(* The interest filter.                                                        *)

ProbesOf(prefix) == IF prefix \in DOMAIN Probes THEN Probes[prefix] ELSE {}

InterestBump(counters, f, delta) ==
    IF counters = None THEN None
    ELSE [b \in DOMAIN counters |->
             IF b \in ProbesOf(InterestPrefix(f)) THEN counters[b] + delta ELSE counters[b]]

InterestMatches(counters, t) ==
    \/ counters = None
    \/ ~Split(t)
    \/ \E p \in TopicPrefixes(t) : \A b \in ProbesOf(p) : counters[b] # 0

-----------------------------------------------------------------------------
(* Nodes.                                                                      *)

Children(ns, p) == {q \in DOMAIN ns : q # <<>> /\ Front(q) = p}

\* Mutant: tombstones no longer count, as if detach decremented count.
IsEmptySkipsTombstones(ns, p) ==
    Children(ns, p) = {} /\ \A k \in DOMAIN ns[p].subs : ns[p].subs[k] = None

\* `count` still counts the tombstones a removal during a walk leaves.
IsEmpty(ns, p) == ns[p].subs = <<>> /\ Children(ns, p) = {}

RECURSIVE Prune(_, _)
Prune(ns, p) ==
    IF p = <<>> \/ ~IsEmpty(ns, p) THEN ns
    ELSE Prune([q \in DOMAIN ns \ {p} |-> ns[q]], Front(p))

Compact(node) == [subs |-> SelectSeq(node.subs, LAMBDA s : s # None), dirty |-> FALSE]

\* Descend to the filter's node, creating what is missing on the way.
WithPath(ns, f) ==
    [q \in DOMAIN ns \cup {SubSeq(f, 1, i) : i \in 0..Len(f)} |->
        IF q \in DOMAIN ns THEN ns[q] ELSE NoNode]

IndexIn(node, s) == CHOOSE k \in DOMAIN node.subs : node.subs[k] = s

\* Swap with the last entry and drop it, then prune upwards.
DetachNow(ns, p, s) ==
    LET old  == ns[p].subs
        kept == Front([old EXCEPT ![IndexIn(ns[p], s)] = Last(old)])
    IN  Prune([ns EXCEPT ![p].subs = kept], p)

\* ws_node_detach: [nodes, dirty] after session s left the node of path p.
Detach(ns, ds, p, s, walking) ==
    IF ~walking THEN [nodes |-> DetachNow(ns, p, s), dirty |-> ds]
    ELSE [nodes |-> [ns EXCEPT ![p].subs[IndexIn(ns[p], s)] = None,
                               ![p].dirty = TRUE],
          dirty |-> IF ns[p].dirty THEN ds ELSE Append(ds, p)]

\* ws_topic_unsubscribe_all: the list is dropped head first.
RECURSIVE DropAll(_, _, _, _)
DropAll(ns, ds, fs, s) ==
    IF fs = <<>> THEN [nodes |-> ns, dirty |-> ds]
    ELSE LET r == Detach(ns, ds, Head(fs), s, walk # None)
         IN  DropAll(r.nodes, r.dirty, Tail(fs), s)

RECURSIVE BumpAll(_, _, _)
BumpAll(counters, fs, delta) ==
    IF fs = <<>> THEN counters
    ELSE BumpAll(InterestBump(counters, Head(fs), delta), Tail(fs), delta)

\* ws_topic_walk: the nodes a topic visits, in the order it visits them.
RECURSIVE Walk(_, _, _, _)
Walk(ns, p, t, i) ==
    LET at(q) == IF q \in DOMAIN ns THEN <<q>> ELSE <<>>
        below(q) == IF q \in DOMAIN ns THEN Walk(ns, q, t, i + 1) ELSE <<>>
    IN  at(Append(p, Hash)) \o
        (IF i > Len(t) THEN <<p>>
         ELSE below(Append(p, t[i])) \o below(Append(p, Plus)))

-----------------------------------------------------------------------------
Init ==
    /\ nodes = (<<>> :> NoNode)
    /\ topics = [s \in Sessions |-> <<>>]
    /\ marked = {}
    /\ walk = None
    /\ dirty = <<>>
    /\ interest = [b \in Buckets |-> 0]
    /\ attached = TRUE

Subscribe(s, f) ==
    /\ attached /\ walk = None /\ dirty = <<>>
    /\ Check(f, TRUE)
    /\ ~ \E k \in DOMAIN topics[s] : topics[s][k] = f
    /\ MaxSubs # 0 => Len(topics[s]) < MaxSubs
    /\ nodes' = [WithPath(nodes, f) EXCEPT ![f].subs = Append(@, s)]
    /\ topics' = [topics EXCEPT ![s] = <<f>> \o @]
    /\ interest' = InterestBump(interest, f, 1)
    /\ UNCHANGED <<marked, walk, dirty, attached>>

\* The tree first and the interest filter after it.
Unsubscribe(s, f) ==
    /\ attached /\ walk = None /\ dirty = <<>>
    /\ \E k \in DOMAIN topics[s] :
          /\ topics[s][k] = f
          /\ topics' = [topics EXCEPT ![s] = RemoveAt(@, k)]
    /\ LET r == Detach(nodes, dirty, f, s, FALSE)
       IN  nodes' = r.nodes /\ dirty' = r.dirty
    /\ interest' = InterestBump(interest, f, 0 - 1)
    /\ UNCHANGED <<marked, walk, attached>>

\* ws_topic_unsubscribe_all; with the tree gone only the list is dropped.
UnsubscribeAll(s) ==
    /\ topics' = [topics EXCEPT ![s] = <<>>]
    /\ IF attached
       THEN LET r == DropAll(nodes, dirty, topics[s], s)
            IN  /\ nodes' = r.nodes /\ dirty' = r.dirty
                /\ interest' = BumpAll(interest, topics[s], 0 - 1)
       ELSE UNCHANGED <<nodes, dirty, interest>>

\* A session destroyed outside a publish (ws_session_destroy).
Teardown(s) ==
    /\ walk = None /\ dirty = <<>> /\ topics[s] # <<>>
    /\ UnsubscribeAll(s)
    /\ UNCHANGED <<marked, walk, attached>>

\* topic_hub_detach: the filter is retired before the tree is freed.
DetachWorker ==
    /\ attached /\ walk = None /\ dirty = <<>>
    /\ attached' = FALSE /\ interest' = None
    /\ nodes' = (<<>> :> NoNode)
    /\ UNCHANGED <<topics, marked, walk, dirty>>

\* ws_topic_match: a fresh mark, so no session is stamped yet.
Publish(t, except, deliver) ==
    /\ attached /\ walk = None /\ dirty = <<>>
    /\ Check(t, FALSE)
    /\ marked' = {}
    /\ walk' = [agenda |-> Walk(nodes, <<>>, t, 1), at |-> 1, topic |-> t,
                except |-> except, deliver |-> deliver,
                served |-> <<>>]
    /\ UNCHANGED <<nodes, topics, dirty, interest, attached>>

\* One entry of the node under the walk. A delivery may end the session.
VisitEntry ==
    /\ walk # None /\ walk.agenda # <<>>
    /\ LET p == Head(walk.agenda) IN
       /\ p \in DOMAIN nodes
       /\ walk.at <= Len(nodes[p].subs)
       /\ LET s == nodes[p].subs[walk.at]
              step == [walk EXCEPT !.at = @ + 1]
          IN  IF s = None \/ s = walk.except \/ s \in marked
              THEN walk' = step /\ UNCHANGED <<nodes, topics, marked, dirty, interest>>
              ELSE /\ marked' = marked \cup {s}
                   /\ \/ /\ walk' = [step EXCEPT !.served = Append(@, s)]
                         /\ UNCHANGED <<nodes, topics, dirty, interest>>
                      \/ /\ walk.deliver
                         /\ walk' = step
                         /\ UnsubscribeAll(s)
    /\ UNCHANGED attached

NextNode ==
    /\ walk # None /\ walk.agenda # <<>>
    /\ Head(walk.agenda) \in DOMAIN nodes
    /\ walk.at > Len(nodes[Head(walk.agenda)].subs)
    /\ walk' = [walk EXCEPT !.agenda = Tail(@), !.at = 1]
    /\ UNCHANGED <<nodes, topics, marked, dirty, interest, attached>>

EndWalk ==
    /\ walk # None /\ walk.agenda = <<>>
    /\ walk' = None
    /\ UNCHANGED <<nodes, topics, marked, dirty, interest, attached>>

\* ws_tree_settle, one queued node at a time.
Settle ==
    /\ walk = None /\ dirty # <<>> /\ Head(dirty) \in DOMAIN nodes
    /\ nodes' = Prune([nodes EXCEPT ![Head(dirty)] = Compact(@)], Head(dirty))
    /\ dirty' = Tail(dirty)
    /\ UNCHANGED <<topics, marked, walk, interest, attached>>

Next ==
    \/ \E s \in Sessions, f \in Filters : Subscribe(s, f) \/ Unsubscribe(s, f)
    \/ \E s \in Sessions : Teardown(s)
    \/ \E t \in Topics, x \in Sessions \cup {None}, d \in BOOLEAN : Publish(t, x, d)
    \/ DetachWorker \/ VisitEntry \/ NextNode \/ EndWalk \/ Settle

Spec == Init /\ [][Next]_vars

-----------------------------------------------------------------------------
(* Reference: what "filter f matches topic t" means, level by level.           *)
Matches(f, t) ==
    LET n == IF Last(f) = Hash THEN Len(f) - 1 ELSE Len(f)
    IN  /\ IF Last(f) = Hash THEN Len(t) >= n ELSE Len(t) = n
        /\ \A i \in 1..n : f[i] \in {Plus, t[i]}

Wants(s, t) == \E k \in DOMAIN topics[s] : Matches(topics[s][k], t)

(* No walk and no settling pass ever stands on a freed node: what a publish    *)
(* still has to visit and what ws_tree_settle still has to compact are nodes   *)
(* of the tree, whatever sessions the sends tore down on the way               *)
(* (ws_node_detach tombstones, ws_node_is_empty counts the tombstones).        *)
NoFreedNode ==
    /\ walk # None => \A k \in DOMAIN walk.agenda : walk.agenda[k] \in DOMAIN nodes
    /\ \A k \in DOMAIN dirty : dirty[k] \in DOMAIN nodes

(* Between publishes the tree holds exactly the subscriptions of the sessions' *)
(* lists and no node that nobody needs: removal, compaction and pruning leave  *)
(* neither a stale subscriber nor an unreachable topic level behind.           *)
TreeExact ==
    attached /\ walk = None /\ dirty = <<>> =>
        /\ \A p \in DOMAIN nodes : \A s \in Sessions \cup {None} :
              Cardinality({k \in DOMAIN nodes[p].subs : nodes[p].subs[k] = s})
              = (IF s # None /\ \E k \in DOMAIN topics[s] : topics[s][k] = p THEN 1 ELSE 0)
        /\ DOMAIN nodes = {<<>>} \cup
              UNION {{SubSeq(f, 1, i) : i \in 0..Len(f)} :
                        f \in UNION {ToSet(topics[s]) : s \in Sessions}}

(* Both: nothing reachable is freed, and nothing unreachable is kept.          *)
TreeSound == NoFreedNode /\ TreeExact

(* When a walk ends, every session that still has a matching filter, except    *)
(* the excluded one, was served exactly once, and nobody else was              *)
(* (ws_topic_visit's mark, ws_topic_walk's wildcard descent).                  *)
ServedExactly ==
    walk # None /\ walk.agenda = <<>> =>
        /\ ToSet(walk.served) = {s \in Sessions \ {walk.except} : Wants(s, walk.topic)}
        /\ IsInjective(walk.served)

(* The interest filter never understates a live subscription: a topic some     *)
(* session of this worker wants always passes the other threads' probe, and a  *)
(* worker with no subscription left has no counter left (ws_sub_drop updates   *)
(* the filter after the tree; the probe key is the literal prefix).            *)
InterestCovers ==
    /\ \A t \in Topics : Check(t, FALSE) /\ (\E s \in Sessions : Wants(s, t)) =>
          InterestMatches(interest, t)
    /\ interest # None /\ (\A s \in Sessions : topics[s] = <<>>) =>
          \A b \in Buckets : interest[b] = 0

(* Both: a publish reaches every subscriber, here and from other workers.      *)
SubscribersReached == ServedExactly /\ InterestCovers

(* Together: what a publish relies on, and what it delivers.                   *)
TopicsServed == TreeSound /\ SubscribersReached
=============================================================================
