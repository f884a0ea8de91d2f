---------------------------- MODULE Http3Listener ----------------------------
(* The QUIC side of the HTTP/3 server: one UDP listener per reactor thread,   *)
(* its table of connections keyed by connection ID, admission, the deferred   *)
(* flush of touched connections, the retransmission timers, connection        *)
(* teardown, and the forwarding of a migrated client's datagrams to the       *)
(* reactor that owns the connection (CID steering).                           *)
(*                                                                            *)
(* A reactor is one thread.  pc[r] says where it is: idle in its event loop,  *)
(* reading a poll tick, walking the detached dirty list, or running a batch   *)
(* of mailbox commands.  Reactors interleave at every datagram.  ngtcp2 is    *)
(* external: reading a datagram may complete the handshake, move the path,    *)
(* retire a CID, enter the draining period, or fail.                          *)
EXTENDS Integers, Sequences, FiniteSets

CONSTANTS
    Reactors,        \* reactor ids
    Clients,         \* client endpoints; each runs one handshake at a time
    Conns,           \* connection structs the run may allocate
    Addrs,           \* source addresses of datagrams
    Home,            \* Home[a]: the reactor SO_REUSEPORT hashes address a to
    Ip,              \* Ip[a]: the IP of address a, the key of the peer budget
    Start,           \* Start[k]: the address client k connects from
    Batch,           \* HTTP3_LISTENER_RECV_BATCH
    DrainCap,        \* H3_DRAIN_BATCH_CAP
    SockCap,         \* datagrams a socket buffers
    MailCap,         \* slots of a reactor's mailbox
    MaxConns,        \* max_conns of a listener, 0 = unlimited
    PeerBudget,      \* connections per IP, 0 = off
    StormMax,        \* HTTP3_MIGRATE_STORM_MAX
    MaxProbes,       \* PTO probes before ngtcp2 reports the idle timeout
    Tokens,          \* clients that come with a token of an earlier exchange
    Erring,          \* reactors whose socket may report an ICMP error
    Closing,         \* reactors whose listener may be torn down in the run
    MaxArrivals,     \* MaxArrivals[k]: datagrams of client k the network delivers
    MaxErrors        \* POLLERR events in a run

ASSUME ListenerAssumption ==
    /\ Conns \subseteq Nat /\ IsFiniteSet(Conns)
    /\ Home \in [Addrs -> Reactors] /\ Start \in [Clients -> Addrs]
    /\ Batch \in Nat \ {0}

VARIABLES
    lst,       \* lst[r]: the listener of reactor r
    conns,     \* conns[c]: the connection struct
    sock,      \* sock[r]: datagrams waiting in the listener's socket
    mbox,      \* mbox[r]: commands in the reactor's mailbox
    pc,        \* pc[r]: where the reactor thread is
    retried,   \* clients holding a Retry token (the server keeps none)
    resets,    \* connection IDs answered with a stateless reset
    net        \* [sent, errors]: datagrams delivered and POLLERRs so far

vars == <<lst, conns, sock, mbox, pc, retried, resets, net>>

(* Connection IDs: the client's first DCID, the SCID of our Retry, our SCID   *)
(* and one CID issued later.  The last two encode the owning reactor          *)
(* (http3_steer_encode), which any sibling can decode.                        *)
Odcid(k)  == <<"odcid", k>>
RetryCid(k) == <<"retry", k>>
Scid(c)   == <<"scid", c>>
Issued(c) == <<"issued", c>>
Steered(cid) == cid[1] \in {"scid", "issued"}
SteerDecode(cid) == conns[cid[2]].home

Live(c) == conns[c].st = "live"

NoConn == [st |-> "unused", client |-> 0, home |-> 0, keys |-> {}, admit |-> 0,
           peer |-> 0, hs |-> FALSE, draining |-> FALSE, moves |-> 0,
           storm |-> FALSE, timer |-> FALSE,
           probes |-> 0, answered |-> FALSE]

(* Of a freed connection only what clients still remember is kept.            *)
Freed(c) == [NoConn EXCEPT !.st = "freed", !.client = conns[c].client,
                           !.home = conns[c].home, !.hs = conns[c].hs,
                           !.answered = conns[c].answered]

IdlePc == [at |-> "idle", batch |-> <<>>, full |-> FALSE, outer |-> 0,
           walk |-> {}, cmds |-> <<>>, steerFlush |-> FALSE]

(* http3_listener_spawn on each reactor's thread; the parent has published    *)
(* the listener in the steering group (http3_steer_group_publish).            *)
NewListener == [closed |-> FALSE, published |-> TRUE, list |-> {}, count |-> 0,
                map |-> <<>>, peers |-> [i \in {Ip[a] : a \in Addrs} |-> 0],
                dirty |-> {}, polled |-> TRUE, pollErr |-> FALSE]

Init ==
    /\ lst = [r \in Reactors |-> NewListener]
    /\ conns = [c \in Conns |-> NoConn]
    /\ sock = [r \in Reactors |-> <<>>]
    /\ mbox = [r \in Reactors |-> <<>>]
    /\ pc = [r \in Reactors |-> IdlePc]
    /\ retried = Tokens
    /\ resets = {}
    /\ net = [sent |-> [k \in Clients |-> 0], errors |-> 0]

------------------------------------------------------------------------------
(* Listener bookkeeping, as functions of the listener record.                 *)

Without(map, keys) == [cid \in DOMAIN map \ keys |-> map[cid]]

(* zend_hash_str_add_ptr: adds only what is absent.                           *)
AddKeys(map, keys, c) ==
    [cid \in DOMAIN map \cup keys |-> IF cid \in DOMAIN map THEN map[cid] ELSE c]

Admit(l) == MaxConns = 0 \/ l.count < MaxConns

PeerRoom(l, a) == PeerBudget = 0 \/ l.peers[Ip[a]] < PeerBudget

PeerInc(l, a) ==
    IF PeerBudget = 0 THEN l ELSE [l EXCEPT !.peers[Ip[a]] = @ + 1]

PeerDec(l, a) ==
    IF PeerBudget = 0 \/ l.peers[Ip[a]] = 0 THEN l
    ELSE [l EXCEPT !.peers[Ip[a]] = @ - 1]

Track(l, c, keys) ==
    [l EXCEPT !.list = @ \cup {c}, !.count = @ + 1, !.map = AddKeys(@, keys, c)]

MarkFlush(l, c) == [l EXCEPT !.dirty = @ \cup {c}]

(* Mutant: the issued CID stays in the map. *)
RemoveConnectionKeepsIssued(l, c) ==
    [l EXCEPT !.list = @ \ {c},
              !.count = IF c \in l.list THEN @ - 1 ELSE @,
              !.map = Without(@, conns[c].keys \ {Issued(c)})]

(* http3_listener_remove_connection: off the list, and out of the map under   *)
(* every key the connection registered.                                       *)
RemoveConnection(l, c) ==
    [l EXCEPT !.list = @ \ {c},
              !.count = IF c \in l.list THEN @ - 1 ELSE @,
              !.map = Without(@, conns[c].keys)]

(* http3_connection_free, listener side: the peer slot claimed at admission   *)
(* is given back, the connection leaves the dirty list.                       *)
FreeConnection(l, c) ==
    LET freed == PeerDec(l, conns[c].admit)
    IN  [freed EXCEPT !.dirty = @ \ {c}]

Reap(l, c) == FreeConnection(RemoveConnection(l, c), c)

------------------------------------------------------------------------------
(* http3_connection_dispatch: one datagram d at the listener of reactor r.    *)
(* Each operator below is one way through it; they constrain lst, conns,      *)
(* mbox, retried and resets.                                                  *)

(* The client moved and ngtcp2 follows: the send destination is re-pointed,   *)
(* and too many moves inside the window flag the connection for shedding.     *)
(* `moves' restarts when the window has expired.                              *)
Migrate(k, from, moves) ==
    IF ~k.hs \/ from = k.peer THEN k
    ELSE [k EXCEPT !.peer = from, !.moves = moves, !.storm = @ \/ moves > StormMax]

(* get_new_connection_id_cb: a fresh CID is registered when the handshake     *)
(* completes.  remove_connection_id_cb: a retired one is unregistered.        *)
IssueCid(k, c) == [k EXCEPT !.hs = TRUE, !.keys = @ \cup {Issued(c)}]
RetireCid(k, c) == [k EXCEPT !.keys = @ \ {Issued(c)}]

ReadEffect(k, c, d, moves) ==
    CASE d.what = "handshake" /\ ~k.hs -> IssueCid(k, c)
      [] d.what = "retire" -> RetireCid(Migrate(k, d.from, moves), c)
      [] d.what = "fin" -> [k EXCEPT !.draining = TRUE]
      [] OTHER -> Migrate(k, d.from, moves)

Rekey(l, c, before, after) ==
    [l EXCEPT !.map = AddKeys(Without(@, before \ after), after \ before, c)]

(* The datagram belongs to connection c.  A read error changes nothing here;  *)
(* the connection is marked for the deferred flush either way.                *)
ReadPacket(r, d) ==
    LET c == lst[r].map[d.dcid] IN
    /\ d.dcid \in DOMAIN lst[r].map
    /\ \/ /\ UNCHANGED conns
          /\ lst' = [lst EXCEPT ![r] = MarkFlush(@, c)]
       \/ \E moves \in {conns[c].moves + 1, 1} :
            LET k == ReadEffect(conns[c], c, d, moves) IN
            /\ ~conns[c].draining
            /\ conns' = [conns EXCEPT ![c] = k]
            /\ lst' = [lst EXCEPT
                   ![r] = MarkFlush(Rekey(@, c, conns[c].keys, k.keys), c)]
    /\ UNCHANGED <<mbox, retried, resets>>

(* Mutant: a full mailbox makes the sibling's datagram our own. *)
IsForeignUnlessFull(r, d) ==
    /\ d.dcid \notin DOMAIN lst[r].map
    /\ d.kind = "short"
    /\ Steered(d.dcid)
    /\ SteerDecode(d.dcid) # r
    /\ Len(mbox[SteerDecode(d.dcid)]) < MailCap

(* http3_listener_try_steer: a short-header miss whose DCID decodes to a      *)
(* sibling goes to that reactor's mailbox as a command naming the owner.  A   *)
(* full mailbox drops it.                                                     *)
IsForeign(r, d) ==
    /\ d.dcid \notin DOMAIN lst[r].map
    /\ d.kind = "short"
    /\ Steered(d.dcid)
    /\ SteerDecode(d.dcid) # r

Steer(r, d) ==
    LET owner == SteerDecode(d.dcid) IN
    /\ IsForeign(r, d)
    /\ mbox' = IF Len(mbox[owner]) < MailCap
                 THEN [mbox EXCEPT ![owner] = Append(@, [cmd |-> "feed", d |-> d])]
                 ELSE mbox
    /\ UNCHANGED <<lst, conns, retried, resets>>

(* A short-header packet for a connection nobody here knows.                  *)
StatelessReset(r, d) ==
    /\ d.dcid \notin DOMAIN lst[r].map
    /\ d.kind = "short"
    /\ ~IsForeign(r, d)
    /\ resets' = resets \cup {d.dcid}
    /\ UNCHANGED <<lst, conns, mbox, retried>>

(* A long-header packet ngtcp2_accept does not take, or one whose Retry token *)
(* is stale: dropped.                                                         *)
DropLong(r, d) ==
    /\ d.dcid \notin DOMAIN lst[r].map
    /\ d.kind \in {"handshake", "stale"}
    /\ UNCHANGED <<lst, conns, mbox, retried, resets>>

(* The first Initial of a client carries no token: answer with a Retry.       *)
SendRetry(r, d) ==
    /\ d.dcid \notin DOMAIN lst[r].map
    /\ d.kind = "initial"
    /\ retried' = retried \cup {d.client}
    /\ UNCHANGED <<lst, conns, mbox, resets>>

(* A validated Initial over the global cap or the peer budget is answered     *)
(* with CONNECTION_REFUSED.                                                   *)
Refuse(r, d) ==
    /\ d.dcid \notin DOMAIN lst[r].map
    /\ d.kind = "token"
    /\ ~Admit(lst[r]) \/ ~PeerRoom(lst[r], d.from)
    /\ UNCHANGED <<lst, conns, mbox, retried, resets>>

(* http3_connection_accept failed after admission: the reservation in the     *)
(* peer budget is undone.                                                     *)
AcceptFails(r, d) ==
    /\ d.dcid \notin DOMAIN lst[r].map
    /\ d.kind = "token"
    /\ Admit(lst[r]) /\ PeerRoom(lst[r], d.from)
    /\ lst' = [lst EXCEPT ![r] = PeerDec(PeerInc(@, d.from), d.from)]
    /\ UNCHANGED <<conns, mbox, retried, resets>>

(* http3_connection_accept: the new connection is registered under our SCID,  *)
(* the client's first DCID and the DCID of this Initial (the Retry's SCID),   *)
(* tracked, and the Initial is read into it.                                  *)
AcceptKeys(c, k) == {Scid(c), Odcid(k), RetryCid(k)}

NewConn(c, r, d) ==
    [NoConn EXCEPT !.st = "live", !.client = d.client, !.home = r,
                   !.keys = AcceptKeys(c, d.client), !.admit = d.from, !.peer = d.from]

Accept(r, d) ==
    /\ d.dcid \notin DOMAIN lst[r].map
    /\ d.kind = "token"
    /\ Admit(lst[r]) /\ PeerRoom(lst[r], d.from)
    /\ \E c \in Conns :
         /\ conns[c].st = "unused"
         /\ \A b \in Conns : b < c => conns[b].st # "unused"
         /\ conns' = [conns EXCEPT ![c] = NewConn(c, r, d)]
         /\ lst' = [lst EXCEPT ![r] =
               MarkFlush(Track(PeerInc(@, d.from), c, AcceptKeys(c, d.client)), c)]
    /\ UNCHANGED <<mbox, retried, resets>>

Dispatch(r, d) ==
    \/ ReadPacket(r, d)
    \/ Steer(r, d)
    \/ StatelessReset(r, d)
    \/ DropLong(r, d)
    \/ SendRetry(r, d)
    \/ Refuse(r, d)
    \/ AcceptFails(r, d)
    \/ Accept(r, d)

------------------------------------------------------------------------------
(* http3_listener_poll_cb, the poll tick.                                     *)

At(r, where) == pc[r].at = where

(* Mutant: the poll handle is not started again. *)
RearmForgotten(l) == IF l.pollErr THEN [l EXCEPT !.pollErr = FALSE] ELSE l

(* After a POLLERR the tick ends by starting the poll handle again.           *)
Rearm(l) == IF l.pollErr THEN [l EXCEPT !.pollErr = FALSE, !.polled = TRUE] ELSE l

(* The loop calls back when the socket is readable, or with a POLLERR that    *)
(* also took the descriptor out of the loop.                                  *)
Ready(r) ==
    /\ ~lst[r].closed
    /\ (lst[r].polled /\ sock[r] # <<>>) \/ lst[r].pollErr

(* recvmmsg takes up to Batch datagrams.  On an empty socket the tick ends at *)
(* once, past the flush: what it dirtied waits for the next wakeup.           *)
TickRecv(r) ==
    LET n == IF Len(sock[r]) < Batch THEN Len(sock[r]) ELSE Batch IN
    /\ (At(r, "idle") /\ Ready(r)) \/ At(r, "recv")
    /\ IF n = 0
         THEN /\ pc' = [pc EXCEPT ![r] = IdlePc]
              /\ lst' = [lst EXCEPT ![r] = Rearm(@)]
              /\ UNCHANGED sock
         ELSE /\ pc' = [pc EXCEPT ![r] = [@ EXCEPT
                           !.at = "dispatch", !.batch = SubSeq(sock[r], 1, n),
                           !.full = (n = Batch), !.outer = pc[r].outer + 1]]
              /\ sock' = [sock EXCEPT ![r] = SubSeq(@, n + 1, Len(@))]
              /\ UNCHANGED lst
    /\ UNCHANGED <<conns, mbox, retried, resets, net>>

(* After the last datagram of a batch, a full batch reads on, up to the cap;  *)
(* a short one ends in the flush.                                             *)
AfterBatch(p) ==
    CASE p.batch # <<>> -> p
      [] p.batch = <<>> /\ p.full /\ p.outer < DrainCap -> [p EXCEPT !.at = "recv", !.full = FALSE]
      [] OTHER -> [IdlePc EXCEPT !.at = "flush"]

TickDispatch(r) ==
    /\ At(r, "dispatch")
    /\ Dispatch(r, Head(pc[r].batch))
    /\ pc' = [pc EXCEPT ![r] = AfterBatch([@ EXCEPT !.batch = Tail(pc[r].batch)])]
    /\ UNCHANGED <<sock, net>>

------------------------------------------------------------------------------
(* http3_listener_flush_dirty and http3_connection_flush.                     *)

(* The dirty list is detached first, then each connection is flushed: shed on *)
(* a migration storm, reaped in its draining period                           *)
(* (http3_connection_check_terminal), and otherwise drained, which puts our   *)
(* SCID on the wire, with its timer armed.                                    *)
FlushBegin(r) ==
    /\ At(r, "flush")
    /\ pc' = [pc EXCEPT ![r] = [@ EXCEPT !.at = "walk", !.walk = lst[r].dirty]]
    /\ lst' = [lst EXCEPT ![r].dirty = {}]
    /\ UNCHANGED <<conns, sock, mbox, retried, resets, net>>

FlushOne(r) ==
    \E c \in pc[r].walk :
        /\ At(r, "walk")
        /\ pc' = [pc EXCEPT ![r].walk = @ \ {c}]
        /\ IF conns[c].storm \/ conns[c].draining
             THEN /\ conns' = [conns EXCEPT ![c] = Freed(c)]
                  /\ lst' = [lst EXCEPT ![r] = Reap(@, c)]
             ELSE /\ conns' = [conns EXCEPT ![c].timer = TRUE, ![c].answered = TRUE]
                  /\ UNCHANGED lst
        /\ UNCHANGED <<sock, mbox, retried, resets, net>>

FlushEnd(r) ==
    /\ At(r, "walk")
    /\ pc[r].walk = {}
    /\ pc' = [pc EXCEPT ![r] = IdlePc]
    /\ lst' = [lst EXCEPT ![r] = Rearm(@)]
    /\ UNCHANGED <<conns, sock, mbox, retried, resets, net>>

------------------------------------------------------------------------------
(* timer_fire_cb.  The timer of a live connection is re-armed after a probe;  *)
(* the idle timeout and the handshake timeout end the connection.             *)

TimerProbe(c) ==
    LET r == conns[c].home IN
    /\ Live(c) /\ conns[c].timer /\ At(r, "idle")
    /\ conns[c].probes < MaxProbes
    /\ IF conns[c].draining
         THEN /\ conns' = [conns EXCEPT ![c] = Freed(c)]
              /\ lst' = [lst EXCEPT ![r] = Reap(@, c)]
         ELSE /\ conns' = [conns EXCEPT ![c] = [@ EXCEPT
                             !.probes = conns[c].probes + 1, !.timer = TRUE, !.answered = TRUE]]
              /\ UNCHANGED lst
    /\ UNCHANGED <<sock, mbox, pc, retried, resets, net>>

TimerExpires(c) ==
    LET r == conns[c].home IN
    /\ Live(c) /\ conns[c].timer /\ At(r, "idle")
    /\ conns' = [conns EXCEPT ![c] = Freed(c)]
    /\ lst' = [lst EXCEPT ![r] = Reap(@, c)]
    /\ UNCHANGED <<sock, mbox, pc, retried, resets, net>>

------------------------------------------------------------------------------
(* Mailbox commands: forwarded datagrams and the teardown of the listener.    *)

DrainBegin(r) ==
    /\ At(r, "idle")
    /\ mbox[r] # <<>>
    /\ pc' = [pc EXCEPT ![r] = [@ EXCEPT !.at = "drain", !.cmds = mbox[r]]]
    /\ mbox' = [mbox EXCEPT ![r] = <<>>]
    /\ UNCHANGED <<lst, conns, sock, retried, resets, net>>

(* http3_steer_feed_fn: the owner re-resolves its listener from the group; a  *)
(* retired slot drops the datagram.  The listener is queued for the flush at  *)
(* the end of the batch.                                                      *)
Feed(r) ==
    /\ At(r, "drain")
    /\ pc[r].cmds # <<>> /\ Head(pc[r].cmds).cmd = "feed"
    /\ IF lst[r].published
         THEN /\ Dispatch(r, Head(pc[r].cmds).d)
              /\ pc' = [pc EXCEPT ![r] = [@ EXCEPT !.cmds = Tail(pc[r].cmds), !.steerFlush = TRUE]]
         ELSE /\ pc' = [pc EXCEPT ![r].cmds = Tail(@)]
              /\ UNCHANGED <<lst, conns, mbox, retried, resets>>
    /\ UNCHANGED <<sock, net>>

(* http3_listener_destroy: retire the steering slot, leave the flush list,    *)
(* free every connection, drop the maps, close the socket.                    *)
Destroy(r) ==
    /\ At(r, "drain")
    /\ pc[r].cmds # <<>> /\ Head(pc[r].cmds).cmd = "destroy"
    /\ pc' = [pc EXCEPT ![r] = [@ EXCEPT !.cmds = Tail(pc[r].cmds), !.steerFlush = FALSE]]
    /\ conns' = [c \in Conns |-> IF c \in lst[r].list THEN Freed(c) ELSE conns[c]]
    /\ lst' = [lst EXCEPT ![r] =
                  [NewListener EXCEPT !.closed = TRUE, !.published = FALSE,
                                      !.polled = FALSE]]
    /\ sock' = [sock EXCEPT ![r] = <<>>]
    /\ UNCHANGED <<mbox, retried, resets, net>>

(* http3_reactor_steer_flush_epilogue.                                        *)
Epilogue(r) ==
    /\ At(r, "drain")
    /\ pc[r].cmds = <<>>
    /\ pc' = [pc EXCEPT ![r] = [IdlePc EXCEPT !.at = IF pc[r].steerFlush THEN "flush" ELSE "idle"]]
    /\ UNCHANGED <<lst, conns, sock, mbox, retried, resets, net>>

------------------------------------------------------------------------------
(* The rest of the world.                                                     *)

(* The parent posts the teardown of a listener at shutdown.                   *)
Teardowns(s) == {i \in DOMAIN s : s[i].cmd = "destroy"}

Shutdown(r) ==
    /\ r \in Closing /\ ~lst[r].closed
    /\ Teardowns(mbox[r]) \cup Teardowns(pc[r].cmds) = {}
    /\ Len(mbox[r]) < MailCap
    /\ mbox' = [mbox EXCEPT ![r] = Append(@, [cmd |-> "destroy"])]
    /\ UNCHANGED <<lst, conns, sock, pc, retried, resets, net>>

(* What a client may put on the network: an Initial, an Initial with a fresh  *)
(* or a stale token once it holds one, handshake packets once it has our      *)
(* SCID, then 1-RTT packets under any CID we ever gave it and from any        *)
(* address.  Packets are lost, duplicated, delayed and reordered at will.     *)
Datagram(kind, dcid, from, what, k) ==
    [kind |-> kind, dcid |-> dcid, from |-> from, what |-> what, client |-> k]

Initials(k) ==
    {Datagram("initial", Odcid(k), Start[k], "initial", k)}
    \cup IF k \notin retried THEN {}
         ELSE {Datagram(kind, RetryCid(k), Start[k], "initial", k) : kind \in {"token", "stale"}}

Packets(c) ==
    IF ~conns[c].answered THEN {}
    ELSE {Datagram("handshake", Scid(c), Start[conns[c].client], "handshake", conns[c].client)}
         \cup IF ~conns[c].hs THEN {}
              ELSE {Datagram("short", cid, a, "data", conns[c].client) :
                      cid \in {Scid(c), Issued(c)}, a \in Addrs}
                   \cup {Datagram("short", Scid(c), conns[c].peer, what, conns[c].client) :
                      what \in IF Live(c) THEN {"retire", "fin"} ELSE {}}

Offered == (UNION {Initials(k) : k \in Clients}) \cup (UNION {Packets(c) : c \in Conns})

Arrive ==
    /\ \E d \in Offered :
         /\ net.sent[d.client] < MaxArrivals[d.client]
         /\ net' = [net EXCEPT !.sent[d.client] = @ + 1]
         /\ ~lst[Home[d.from]].closed
         /\ Len(sock[Home[d.from]]) < SockCap
         /\ sock' = [sock EXCEPT ![Home[d.from]] = Append(@, d)]
    /\ UNCHANGED <<lst, conns, mbox, pc, retried, resets>>

(* An ICMP error reaches the socket: libuv stops the poll handle and reports. *)
PollError(r) ==
    /\ r \in Erring
    /\ net.errors < MaxErrors
    /\ ~lst[r].closed /\ lst[r].polled
    /\ net' = [net EXCEPT !.errors = @ + 1]
    /\ lst' = [lst EXCEPT ![r] = [@ EXCEPT !.pollErr = TRUE, !.polled = FALSE]]
    /\ UNCHANGED <<conns, sock, mbox, pc, retried, resets>>

Tick(r) == TickRecv(r) \/ TickDispatch(r)
Flush(r) == FlushBegin(r) \/ FlushOne(r) \/ FlushEnd(r)
Mail(r) == DrainBegin(r) \/ Feed(r) \/ Destroy(r) \/ Epilogue(r)
Timer(c) == TimerProbe(c) \/ TimerExpires(c)

Next ==
    \/ \E r \in Reactors : Tick(r) \/ Flush(r) \/ Mail(r) \/ Shutdown(r) \/ PollError(r)
    \/ \E c \in Conns : Timer(c)
    \/ Arrive

(* An event loop runs what is ready and a timer that stays armed fires.  The  *)
(* network delivers finitely many datagrams, so the work of all reactors is   *)
(* finite and one weak fairness condition over it gives each its turn.        *)
Work == \/ \E r \in Reactors : Tick(r) \/ Flush(r) \/ Mail(r)
        \/ \E c \in Conns : Timer(c)

Spec == Init /\ [][Next]_vars /\ WF_vars(Work)

------------------------------------------------------------------------------
(* Every key of a listener's connection map, every entry of its dirty list    *)
(* and of the list a flush is walking names a live connection that the        *)
(* listener tracks and that registered the key: no datagram, flush or steered *)
(* packet reaches a freed connection, through any order of retirement, reap,  *)
(* timer and teardown (http3_listener_remove_connection, _unmark_flush).      *)
RoutesToLive ==
    \A r \in Reactors :
        /\ \A cid \in DOMAIN lst[r].map :
             LET c == lst[r].map[cid] IN
             Live(c) /\ c \in lst[r].list /\ cid \in conns[c].keys
        /\ \A c \in lst[r].list : Live(c) /\ conns[c].home = r
                                  /\ conns[c].keys \subseteq DOMAIN lst[r].map
        /\ lst[r].dirty \cup pc[r].walk \subseteq lst[r].list
        /\ lst[r].count = Cardinality(lst[r].list)

(* The peer budget of an IP counts exactly the live connections admitted from *)
(* it, wherever they have migrated since (http3_listener_peer_inc/_dec keyed  *)
(* on admit_peer, and the undo after a failed accept).  A budget that is off  *)
(* counts nothing.                                                            *)
PeersExact ==
    PeerBudget # 0 => \A r \in Reactors : \A i \in DOMAIN lst[r].peers :
        lst[r].peers[i] =
            Cardinality({c \in lst[r].list : Ip[conns[c].admit] = i})

(* Both: the tables of a listener say exactly what is alive.                  *)
TablesExact == RoutesToLive /\ PeersExact

(* A stateless reset is only sent for a connection ID no listener of the      *)
(* group routes: neither steering nor a full mailbox resets a connection that *)
(* lives on a sibling (http3_listener_try_steer).                             *)
ResetOnlyForDead ==
    [][\A cid \in resets' \ resets : \A r \in Reactors : cid \notin DOMAIN lst[r].map]_vars

(* A listener never goes deaf: what its socket holds is read, also after a    *)
(* POLLERR took the descriptor out of the loop, unless the listener closes.   *)
SocketDrained ==
    \A r \in Reactors : []<>(sock[r] = <<>> \/ lst[r].closed)

(* A connection whose timer was armed once ends: probe, re-arm and expiry     *)
(* reach the reap unless a datagram's flush or the teardown got there first.  *)
ArmedConnEnds == \A c \in Conns : Live(c) /\ conns[c].timer ~> ~Live(c)

(* Both: neither a datagram nor a connection waits for ever.                  *)
ListenerProgress == SocketDrained /\ ArmedConnEnds
==============================================================================
