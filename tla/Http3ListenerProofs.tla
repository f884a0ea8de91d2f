------------------------- MODULE Http3ListenerProofs -------------------------
(* For any number of reactors, clients, connections and addresses, any socket *)
(* and mailbox: the tables of a listener say exactly what is alive, and a     *)
(* stateless reset is never sent for a connection a sibling holds.            *)
EXTENDS Http3Listener, FiniteSetTheorems, TLAPS

Cids == {Odcid(k) : k \in Clients} \cup {RetryCid(k) : k \in Clients}
        \cup {Scid(c) : c \in Conns} \cup {Issued(c) : c \in Conns}
Ips == {Ip[a] : a \in Addrs}

(* What the network can hold: a token comes back under the SCID of the Retry, *)
(* a short header under a CID of a connection.                                *)
Packet == {d \in [kind : {"initial", "token", "stale", "handshake", "short"}, dcid : Cids,
                  from : Addrs, what : {"initial", "handshake", "data", "retire", "fin"},
                  client : Clients] :
             /\ d.kind = "token" => d.dcid = RetryCid(d.client)
             /\ d.kind = "short" => \E c \in Conns : d.dcid \in {Scid(c), Issued(c)}}
Command == [cmd : {"feed"}, d : Packet] \cup [cmd : {"destroy"}]

CidMap == UNION {[S -> Conns] : S \in SUBSET Cids}
Listener == [closed : BOOLEAN, published : BOOLEAN, list : SUBSET Conns, count : Int,
             map : CidMap, peers : [Ips -> Int], dirty : SUBSET Conns,
             polled : BOOLEAN, pollErr : BOOLEAN]
Connection == [st : {"unused", "live", "freed"}, client : Clients \cup {0},
               home : Reactors \cup {0}, keys : SUBSET Cids, admit : Addrs \cup {0},
               peer : Addrs \cup {0}, hs : BOOLEAN, draining : BOOLEAN, moves : Int,
               storm : BOOLEAN, timer : BOOLEAN, probes : Int, answered : BOOLEAN]
Place == [at : {"idle", "recv", "dispatch", "flush", "walk", "drain"}, batch : Seq(Packet),
          full : BOOLEAN, outer : Int, walk : SUBSET Conns, cmds : Seq(Command),
          steerFlush : BOOLEAN]

ListenerTypeOK ==
    /\ lst \in [Reactors -> Listener] /\ conns \in [Conns -> Connection]
    /\ sock \in [Reactors -> Seq(Packet)] /\ mbox \in [Reactors -> Seq(Command)]
    /\ pc \in [Reactors -> Place]

(* A reactor has a batch while it dispatches and walks a list in the flush    *)
(* only.                                                                      *)
PlaceSound ==
    \A r \in Reactors : /\ pc[r].at = "dispatch" => pc[r].batch # <<>>
                        /\ pc[r].at # "walk" => pc[r].walk = {}

(* The keys of a connection never meet another's: two are its own, two belong *)
(* to its client, who has one connection at a reactor at most.                *)
KeysOf(k, c) == /\ AcceptKeys(c, k.client) \subseteq k.keys
                /\ k.keys \subseteq AcceptKeys(c, k.client) \cup {Issued(c)}

(* The tables l of reactor r, which walks w, say what is alive in K.          *)
Sound(l, K, w, r) ==
    /\ \A cid \in DOMAIN l.map : l.map[cid] \in l.list /\ cid \in K[l.map[cid]].keys
    /\ \A c \in l.list :
         /\ K[c].st = "live" /\ K[c].home = r /\ K[c].admit \in Addrs
         /\ \A cid \in K[c].keys : cid \in DOMAIN l.map /\ l.map[cid] = c
         /\ KeysOf(K[c], c)
    /\ l.dirty \subseteq l.list /\ w \subseteq l.list
    /\ l.count = Cardinality(l.list)
    /\ PeerBudget # 0 =>
         \A i \in Ips : l.peers[i] = Cardinality({c \in l.list : Ip[K[c].admit] = i})

TablesSound == \A r \in Reactors : Sound(lst[r], conns, pc[r].walk, r)

(* A live connection is tracked by its reactor; only one that was accepted    *)
(* has a client.                                                              *)
Homed ==
    \A c \in Conns :
        /\ conns[c].st = "live" => /\ conns[c].home \in Reactors
                                   /\ c \in lst[conns[c].home].list
                                   /\ conns[c].peer \in Addrs
        /\ conns[c].st # "unused" => conns[c].client \in Clients
        /\ conns[c].answered => conns[c].st # "unused"

IInv == ListenerTypeOK /\ PlaceSound /\ TablesSound /\ Homed

------------------------------------------------------------------------------
(* The ends of a sequence.                                                    *)
LEMMA HeadTail ==
    ASSUME NEW S, NEW q \in Seq(S), q # <<>>
    PROVE  Head(q) \in S /\ Tail(q) \in Seq(S)
OBVIOUS

(* A queue that one more item reaches.                                        *)
LEMMA QueuesTyped ==
    ASSUME NEW S, NEW I, NEW f \in [I -> Seq(S)], NEW i \in I, NEW x \in S
    PROVE  [f EXCEPT ![i] = Append(f[i], x)] \in [I -> Seq(S)]
<1>1. PICK g \in Seq(S) : g = f[i] BY Zenon
<1>2. Append(g, x) \in Seq(S) OBVIOUS
<1>3. PICK q \in Seq(S) : q = Append(f[i], x) BY <1>1, <1>2, Zenon
<1> QED BY Zenon, <1>3

(* A part of a sequence.                                                      *)
LEMMA SubSeqTyped ==
    ASSUME NEW S, NEW q \in Seq(S), NEW n \in 1 .. Len(q)
    PROVE  /\ SubSeq(q, 1, n) \in Seq(S) /\ Len(SubSeq(q, 1, n)) = n
           /\ SubSeq(q, n + 1, Len(q)) \in Seq(S)
OBVIOUS

------------------------------------------------------------------------------
(* Connection IDs and the map from them.                                      *)

(* The four kinds of connection ID never meet, and two of them name their     *)
(* connection (http3_steer_encode).                                           *)
LEMMA CidsDiffer ==
    /\ \A c, k : Scid(c) # Odcid(k) /\ Scid(c) # RetryCid(k) /\ Scid(c) # Issued(k)
    /\ \A c, k : Issued(c) # Odcid(k) /\ Issued(c) # RetryCid(k)
    /\ \A k, j : Odcid(k) # RetryCid(j)
    /\ \A c, b : Scid(c) = Scid(b) => c = b
    /\ \A c, b : Issued(c) = Issued(b) => c = b
    /\ \A k, j : Odcid(k) = Odcid(j) => k = j
    /\ \A k, j : RetryCid(k) = RetryCid(j) => k = j
    /\ \A c : Steered(Scid(c)) /\ Steered(Issued(c)) /\ Scid(c)[2] = c /\ Issued(c)[2] = c
BY Zenon DEF Scid, Issued, Odcid, RetryCid, Steered

(* All of them are connection IDs.                                            *)
LEMMA CidsTyped ==
    /\ \A k \in Clients : Odcid(k) \in Cids /\ RetryCid(k) \in Cids
    /\ \A c \in Conns : Scid(c) \in Cids /\ Issued(c) \in Cids
    /\ \A c \in Conns, k \in Clients : AcceptKeys(c, k) \in SUBSET Cids
<1>1. \A k \in Clients : Odcid(k) \in Cids /\ RetryCid(k) \in Cids BY Zenon DEF Cids
<1>2. \A c \in Conns : Scid(c) \in Cids /\ Issued(c) \in Cids BY Zenon DEF Cids
<1> QED BY Zenon, <1>1, <1>2 DEF AcceptKeys

(* A map takes connection IDs to connections.                                 *)
LEMMA MapType ==
    ASSUME NEW m \in CidMap
    PROVE  DOMAIN m \subseteq Cids /\ \A cid \in DOMAIN m : m[cid] \in Conns
BY Zenon DEF CidMap

(* zend_hash_str_add_ptr of keys that are absent.                             *)
LEMMA AddKeysOf ==
    ASSUME NEW m \in CidMap, NEW S \in SUBSET Cids, NEW c \in Conns
    PROVE  /\ AddKeys(m, S, c) \in CidMap
           /\ DOMAIN AddKeys(m, S, c) = DOMAIN m \cup S
           /\ \A cid \in DOMAIN m : AddKeys(m, S, c)[cid] = m[cid]
           /\ \A cid \in S : cid \notin DOMAIN m => AddKeys(m, S, c)[cid] = c
<1>1. DOMAIN m \cup S \in SUBSET Cids BY Zenon, MapType
<1>2. AddKeys(m, S, c) \in [DOMAIN m \cup S -> Conns] BY Zenon, MapType DEF AddKeys
<1>3. AddKeys(m, S, c) \in CidMap BY Zenon, <1>1, <1>2 DEF CidMap
<1> QED BY Zenon, <1>3 DEF AddKeys

(* Removing keys leaves the others.                                           *)
LEMMA WithoutOf ==
    ASSUME NEW m \in CidMap, NEW S
    PROVE  /\ Without(m, S) \in CidMap
           /\ DOMAIN Without(m, S) = DOMAIN m \ S
           /\ \A cid \in DOMAIN m \ S : Without(m, S)[cid] = m[cid]
<1>1. DOMAIN m \ S \in SUBSET Cids BY Zenon, MapType
<1>2. Without(m, S) \in [DOMAIN m \ S -> Conns] BY Zenon, MapType DEF Without
<1>3. Without(m, S) \in CidMap BY Zenon, <1>1, <1>2 DEF CidMap
<1> QED BY Zenon, <1>3 DEF Without

(* An empty map.                                                              *)
LEMMA EmptyMap == <<>> \in CidMap /\ DOMAIN <<>> = {}
<1>1. <<>> \in [{} -> Conns] /\ {} \in SUBSET Cids OBVIOUS
<1> QED BY Zenon, <1>1 DEF CidMap

------------------------------------------------------------------------------
(* The listener's bookkeeping.                                                *)

(* What a listener's lists count, and what tracking or dropping a connection  *)
(* does to the count.                                                         *)
LEMMA Counts ==
    ASSUME NEW S \in SUBSET Conns, NEW c \in Conns
    PROVE  /\ Cardinality(S) \in Nat
           /\ c \notin S => Cardinality(S \cup {c}) = Cardinality(S) + 1
           /\ c \in S => Cardinality(S \ {c}) = Cardinality(S) - 1 /\ Cardinality(S) > 0
<1>1. IsFiniteSet(S) BY ListenerAssumption, FS_Subset, Zenon
<1>2. Cardinality(S) \in Nat BY Zenon, <1>1, FS_CardinalityType
<1>3. c \notin S => Cardinality(S \cup {c}) = Cardinality(S) + 1
    BY Zenon, <1>1, FS_AddElement
<1>4. c \in S => Cardinality(S \ {c}) = Cardinality(S) - 1
    BY Zenon, <1>1, FS_RemoveElement
<1>5. c \in S => Cardinality(S \ {c}) \in Nat
    BY Zenon, <1>1, FS_Subset, FS_CardinalityType
<1> QED BY <1>2, <1>3, <1>4, <1>5

(* http3_listener_peer_dec and _inc touch the count of one IP.                *)
LEMMA PeerDecOf ==
    ASSUME NEW l \in Listener, NEW a \in Addrs
    PROVE  /\ PeerDec(l, a) \in Listener
           /\ \A f \in {"closed", "published", "list", "count", "map", "dirty", "polled", "pollErr"} :
                PeerDec(l, a)[f] = l[f]
           /\ \A i \in Ips : i # Ip[a] => PeerDec(l, a).peers[i] = l.peers[i]
           /\ PeerBudget # 0 /\ l.peers[Ip[a]] # 0 => PeerDec(l, a).peers[Ip[a]] = l.peers[Ip[a]] - 1
<1>1. Ip[a] \in Ips BY Zenon DEF Ips
<1>2. PICK p \in [Ips -> Int] : p = l.peers BY Zenon DEF Listener
<1> DEFINE q == [p EXCEPT ![Ip[a]] = p[Ip[a]] - 1]
<1>3. q \in [Ips -> Int] BY <1>1, <1>2
<1>4. /\ q[Ip[a]] = p[Ip[a]] - 1 /\ \A i \in Ips : i # Ip[a] => q[i] = p[i] BY Zenon, <1>1, <1>2
<1>5. CASE PeerBudget = 0 \/ l.peers[Ip[a]] = 0 BY Zenon, <1>5 DEF PeerDec
<1>6. CASE ~(PeerBudget = 0 \/ l.peers[Ip[a]] = 0)
    <2>1. PeerDec(l, a) = [l EXCEPT !.peers = q] BY Zenon, <1>2, <1>3, <1>6 DEF PeerDec, Listener
    <2> HIDE DEF q
    <2>2. PICK m : m = [l EXCEPT !.peers = q] BY Zenon
    <2>3. /\ m \in Listener /\ m.peers = q
          /\ \A f \in {"closed", "published", "list", "count", "map", "dirty", "polled", "pollErr"} :
                m[f] = l[f]
        BY Zenon, <1>3, <2>2 DEF Listener
    <2> QED BY Zenon, <2>1, <2>2, <2>3, <1>2, <1>4, <1>6
<1> QED BY Zenon, <1>5, <1>6

(* Charging an address. *)
LEMMA PeerIncOf ==
    ASSUME NEW l \in Listener, NEW a \in Addrs
    PROVE  /\ PeerInc(l, a) \in Listener
           /\ \A f \in {"closed", "published", "list", "count", "map", "dirty", "polled", "pollErr"} :
                PeerInc(l, a)[f] = l[f]
           /\ \A i \in Ips : i # Ip[a] => PeerInc(l, a).peers[i] = l.peers[i]
           /\ PeerBudget # 0 => PeerInc(l, a).peers[Ip[a]] = l.peers[Ip[a]] + 1
<1>1. Ip[a] \in Ips BY Zenon DEF Ips
<1>2. PICK p \in [Ips -> Int] : p = l.peers BY Zenon DEF Listener
<1> DEFINE q == [p EXCEPT ![Ip[a]] = p[Ip[a]] + 1]
<1>3. q \in [Ips -> Int] BY <1>1, <1>2
<1>4. /\ q[Ip[a]] = p[Ip[a]] + 1 /\ \A i \in Ips : i # Ip[a] => q[i] = p[i] BY Zenon, <1>1, <1>2
<1>5. CASE PeerBudget = 0 BY Zenon, <1>5 DEF PeerInc
<1>6. CASE PeerBudget # 0
    <2>1. PeerInc(l, a) = [l EXCEPT !.peers = q] BY Zenon, <1>2, <1>3, <1>6 DEF PeerInc, Listener
    <2> HIDE DEF q
    <2>2. PICK m : m = [l EXCEPT !.peers = q] BY Zenon
    <2>3. /\ m \in Listener /\ m.peers = q
          /\ \A f \in {"closed", "published", "list", "count", "map", "dirty", "polled", "pollErr"} :
                m[f] = l[f]
        BY Zenon, <1>3, <2>2 DEF Listener
    <2> QED BY Zenon, <2>1, <2>2, <2>3, <1>2, <1>4
<1> QED BY Zenon, <1>5, <1>6

(* The tables only see who is alive, whose, under which keys and from where.  *)
LEMMA SoundFrame ==
    ASSUME NEW l \in Listener, NEW K \in [Conns -> Connection], NEW L \in [Conns -> Connection],
           NEW w, NEW v, NEW r, Sound(l, K, w, r), v \subseteq w,
           \A c \in l.list : /\ L[c].st = K[c].st /\ L[c].home = K[c].home
                             /\ L[c].keys = K[c].keys /\ L[c].client = K[c].client
                             /\ L[c].admit = K[c].admit
    PROVE  Sound(l, L, v, r)
<1>1. \A cid \in DOMAIN l.map : l.map[cid] \in l.list /\ cid \in L[l.map[cid]].keys
    BY Zenon DEF Sound
<1>2. \A c \in l.list :
         /\ L[c].st = "live" /\ L[c].home = r /\ L[c].admit \in Addrs
         /\ \A cid \in L[c].keys : cid \in DOMAIN l.map /\ l.map[cid] = c
    BY Zenon DEF Sound
<1>3. \A c \in l.list : KeysOf(L[c], c)
    BY Zenon DEF Sound, KeysOf
<1>4. l.dirty \subseteq l.list /\ v \subseteq l.list /\ l.count = Cardinality(l.list)
    BY Zenon DEF Sound
<1>5. ASSUME PeerBudget # 0, NEW i \in Ips
      PROVE  l.peers[i] = Cardinality({c \in l.list : Ip[L[c].admit] = i})
    <2>1. {c \in l.list : Ip[L[c].admit] = i} = {c \in l.list : Ip[K[c].admit] = i} BY Zenon
    <2>2. l.peers[i] = Cardinality({c \in l.list : Ip[K[c].admit] = i}) BY <1>5, Zenon DEF Sound
    <2> QED BY <2>1, <2>2, Zenon
<1> QED BY <1>1, <1>2, <1>3, <1>4, <1>5, Zenon DEF Sound

(* http3_listener_remove_connection and the listener's part of                *)
(* http3_connection_free, field by field.                                     *)
LEMMA ReapOf ==
    ASSUME NEW l \in Listener, NEW c \in l.list, conns \in [Conns -> Connection],
           conns[c].admit \in Addrs
    PROVE  /\ Reap(l, c) \in Listener
           /\ Reap(l, c).list = l.list \ {c} /\ Reap(l, c).dirty = l.dirty \ {c}
           /\ Reap(l, c).count = l.count - 1 /\ Reap(l, c).map = Without(l.map, conns[c].keys)
           /\ \A i \in Ips : i # Ip[conns[c].admit] => Reap(l, c).peers[i] = l.peers[i]
           /\ PeerBudget # 0 /\ l.peers[Ip[conns[c].admit]] # 0 =>
                Reap(l, c).peers[Ip[conns[c].admit]] = l.peers[Ip[conns[c].admit]] - 1
<1> DEFINE m == RemoveConnection(l, c)
           a == conns[c].admit
           p == PeerDec(m, a)
           n == [p EXCEPT !.dirty = p.dirty \ {c}]
<1>1. c \in Conns BY Zenon DEF Listener
<1>2. Without(l.map, conns[c].keys) \in CidMap /\ l.count - 1 \in Int
    <2>1. l.map \in CidMap /\ l.count \in Int BY Zenon DEF Listener
    <2>2. Without(l.map, conns[c].keys) \in CidMap BY <2>1, WithoutOf, Zenon
    <2> QED BY <2>1, <2>2
<1>3. /\ m \in Listener /\ m.list = l.list \ {c} /\ m.count = l.count - 1
      /\ m.map = Without(l.map, conns[c].keys) /\ m.dirty = l.dirty /\ m.peers = l.peers
    BY <1>2, Zenon DEF RemoveConnection, Listener
<1> HIDE DEF m
<1>4. a \in Addrs BY Zenon
<1> HIDE DEF a
<1>5. /\ p \in Listener /\ p.list = m.list /\ p.count = m.count /\ p.map = m.map /\ p.dirty = m.dirty
      /\ \A i \in Ips : i # Ip[a] => p.peers[i] = m.peers[i]
      /\ PeerBudget # 0 /\ m.peers[Ip[a]] # 0 => p.peers[Ip[a]] = m.peers[Ip[a]] - 1
    BY Zenon, <1>3, <1>4, PeerDecOf
<1> HIDE DEF p
<1>6. /\ n \in Listener /\ n.list = p.list /\ n.count = p.count /\ n.map = p.map
      /\ n.dirty = p.dirty \ {c} /\ n.peers = p.peers
    BY Zenon, <1>5 DEF Listener
<1>7. Reap(l, c) = n BY Zenon DEF Reap, FreeConnection, m, a, p
<1> HIDE DEF n
<1> QED BY Zenon, <1>3, <1>5, <1>6, <1>7 DEF a

(* The connection leaves every table at once, and takes nobody else's key     *)
(* with it.                                                                   *)
LessTables(l, c, L, w, r) ==
    Reap(l, c) \in Listener /\ Reap(l, c).list = l.list \ {c} /\ Sound(Reap(l, c), L, w \ {c}, r)

(* A reap leaves tables that say what is alive. *)
LEMMA ReapSound ==
    ASSUME NEW l \in Listener, NEW c \in l.list, conns \in [Conns -> Connection],
           NEW L \in [Conns -> Connection], NEW w, NEW r, Sound(l, conns, w, r),
           \A b \in Conns : b # c => L[b] = conns[b]
    PROVE  LessTables(l, c, L, w, r)
<1> DEFINE n == Reap(l, c)
           a == conns[c].admit
<1>1. c \in Conns /\ l.list \in SUBSET Conns /\ l.map \in CidMap /\ l.count \in Int BY Zenon DEF Listener
<1>2. a \in Addrs /\ Ip[a] \in Ips BY Zenon DEF Sound, Ips
<1>3. /\ n \in Listener
      /\ n.list = l.list \ {c} /\ n.dirty = l.dirty \ {c}
      /\ n.count = l.count - 1 /\ n.map = Without(l.map, conns[c].keys)
      /\ \A i \in Ips : i # Ip[a] => n.peers[i] = l.peers[i]
      /\ PeerBudget # 0 /\ l.peers[Ip[a]] # 0 => n.peers[Ip[a]] = l.peers[Ip[a]] - 1
    BY Zenon, <1>2, ReapOf
<1>4. /\ DOMAIN n.map = DOMAIN l.map \ conns[c].keys
      /\ \A cid \in DOMAIN n.map : n.map[cid] = l.map[cid]
    <2>1. /\ DOMAIN Without(l.map, conns[c].keys) = DOMAIN l.map \ conns[c].keys
          /\ \A cid \in DOMAIN l.map \ conns[c].keys : Without(l.map, conns[c].keys)[cid] = l.map[cid]
        BY <1>1, WithoutOf, Zenon
    <2> QED BY Zenon, <2>1, <1>3
<1> HIDE DEF n, a
<1>5. \A cid \in DOMAIN n.map : n.map[cid] \in n.list /\ cid \in L[n.map[cid]].keys
    <2> TAKE cid \in DOMAIN n.map
    <2>1. cid \in DOMAIN l.map /\ cid \notin conns[c].keys /\ n.map[cid] = l.map[cid] BY Zenon, <1>4
    <2>2. l.map[cid] \in l.list /\ cid \in conns[l.map[cid]].keys BY Zenon, <2>1 DEF Sound
    <2>3. l.map[cid] # c /\ l.map[cid] \in Conns BY Zenon, <2>1, <2>2, <1>1
    <2> QED BY Zenon, <2>1, <2>2, <2>3, <1>3
<1>6. \A b \in n.list :
         /\ L[b].st = "live" /\ L[b].home = r /\ L[b].admit \in Addrs
         /\ \A cid \in L[b].keys : cid \in DOMAIN n.map /\ n.map[cid] = b
         /\ KeysOf(L[b], b)
    <2> TAKE b \in n.list
    <2>1. b \in l.list /\ b # c /\ L[b] = conns[b] BY Zenon, <1>1, <1>3
    <2>2. /\ conns[b].st = "live" /\ conns[b].home = r /\ conns[b].admit \in Addrs
          /\ \A cid \in conns[b].keys : cid \in DOMAIN l.map /\ l.map[cid] = b
          /\ KeysOf(conns[b], b)
        BY Zenon, <2>1 DEF Sound
    <2>3. \A cid \in conns[c].keys : l.map[cid] = c BY Zenon DEF Sound
    <2>4. \A cid \in conns[b].keys : cid \notin conns[c].keys BY Zenon, <2>1, <2>2, <2>3
    <2> QED BY Zenon, <2>1, <2>2, <2>4, <1>4
<1>7. n.dirty \subseteq n.list /\ w \ {c} \subseteq n.list BY Zenon, <1>3 DEF Sound
<1>8. n.count = Cardinality(n.list) BY <1>1, <1>3, Counts DEF Sound
<1>9. ASSUME PeerBudget # 0, NEW i \in Ips
      PROVE  n.peers[i] = Cardinality({b \in n.list : Ip[L[b].admit] = i})
    <2> DEFINE S == {b \in l.list : Ip[conns[b].admit] = i}
    <2>1. l.peers[i] = Cardinality(S) BY <1>9, Zenon DEF Sound
    <2>2. S \in SUBSET Conns BY Zenon, <1>1
    <2>3. {b \in n.list : Ip[L[b].admit] = i} = S \ {c} BY Zenon, <1>1, <1>3
    <2>4. c \in S <=> Ip[a] = i BY Zenon DEF a
    <2> HIDE DEF S
    <2>5. CASE Ip[a] = i
        <3>1. Cardinality(S \ {c}) = Cardinality(S) - 1 /\ Cardinality(S) > 0
            BY Zenon, <2>2, <2>4, <2>5, <1>1, Counts
        <3>2. n.peers[i] = l.peers[i] - 1
          <4>1. l.peers[i] # 0 BY <2>1, <3>1
          <4> QED BY Zenon, <4>1, <2>5, <1>3, <1>9
        <3> QED BY <2>1, <2>3, <3>1, <3>2, Zenon
    <2>6. CASE Ip[a] # i
        <3>1. S \ {c} = S BY Zenon, <2>4, <2>6
        <3> QED BY <2>1, <2>3, <2>6, <3>1, <1>3, Zenon
    <2> QED BY Zenon, <2>5, <2>6
<1>10. Sound(n, L, w \ {c}, r)
    BY <1>5, <1>6, <1>7, <1>8, <1>9, Zenon DEF Sound
<1> QED BY Zenon, <1>3, <1>10 DEF n, LessTables

(* Tracking a connection and marking it for the flush, field by field.        *)
LEMMA TrackOf ==
    ASSUME NEW l \in Listener, NEW a \in Addrs, NEW c \in Conns, NEW keys \in SUBSET Cids,
           NEW n, n = MarkFlush(Track(PeerInc(l, a), c, keys), c)
    PROVE  /\ n \in Listener /\ n.list = l.list \cup {c} /\ n.dirty = l.dirty \cup {c}
           /\ n.count = l.count + 1 /\ n.map = AddKeys(l.map, keys, c)
           /\ \A i \in Ips : i # Ip[a] => n.peers[i] = l.peers[i]
           /\ PeerBudget # 0 => n.peers[Ip[a]] = l.peers[Ip[a]] + 1
<1> DEFINE p == PeerInc(l, a)
           t == Track(p, c, keys)
<1>1. /\ p \in Listener /\ p.list = l.list /\ p.count = l.count /\ p.map = l.map /\ p.dirty = l.dirty
      /\ \A i \in Ips : i # Ip[a] => p.peers[i] = l.peers[i]
      /\ PeerBudget # 0 => p.peers[Ip[a]] = l.peers[Ip[a]] + 1
    BY Zenon, PeerIncOf
<1> HIDE DEF p
<1>2. /\ p.map \in CidMap /\ p.count \in Int /\ p.list \in SUBSET Conns BY Zenon, <1>1 DEF Listener
<1>3. AddKeys(p.map, keys, c) \in CidMap BY <1>2, AddKeysOf, Zenon
<1>4. /\ t \in Listener /\ t.list = p.list \cup {c} /\ t.count = p.count + 1
      /\ t.map = AddKeys(p.map, keys, c) /\ t.dirty = p.dirty /\ t.peers = p.peers
    <2> DEFINE m == AddKeys(p.map, keys, c)
               i == p.count + 1
    <2>1. m \in CidMap /\ i \in Int BY <1>2, <1>3
    <2>2. t = [p EXCEPT !.list = p.list \cup {c}, !.count = i, !.map = m] BY Zenon, <1>1 DEF Track, Listener
    <2> HIDE DEF m, i, t
    <2>3. /\ t \in Listener /\ t.list = p.list \cup {c} /\ t.count = i
          /\ t.map = m /\ t.dirty = p.dirty /\ t.peers = p.peers
        BY <1>1, <1>2, <2>1, <2>2, Zenon DEF Listener
    <2> QED BY Zenon, <2>3 DEF m, i
<1>5. n = MarkFlush(t, c) BY Zenon DEF p, t
<1> HIDE DEF t
<1>6. /\ n \in Listener /\ n.list = t.list /\ n.count = t.count /\ n.map = t.map
      /\ n.dirty = t.dirty \cup {c} /\ n.peers = t.peers
    BY <1>4, <1>5, Zenon DEF MarkFlush, Listener
<1> QED BY Zenon, <1>1, <1>4, <1>6

(* A connection enters every table at once; its keys are nobody else's.       *)
MoreTables(n, l, c, L, w, r) ==
    n \in Listener /\ n.list = l.list \cup {c} /\ Sound(n, L, w, r)

(* An accept leaves tables that say what is alive. *)
LEMMA TrackSound ==
    ASSUME NEW l \in Listener, NEW a \in Addrs, NEW c \in Conns, NEW k \in Clients,
           conns \in [Conns -> Connection], NEW L \in [Conns -> Connection], NEW w, NEW r,
           Sound(l, conns, w, r), c \notin l.list, RetryCid(k) \notin DOMAIN l.map,
           \A b \in Conns : b # c => L[b] = conns[b],
           /\ L[c].st = "live" /\ L[c].home = r /\ L[c].admit = a
           /\ L[c].client = k /\ L[c].keys = AcceptKeys(c, k),
           \A b \in l.list : conns[b].client \in Clients,
           NEW n, n = MarkFlush(Track(PeerInc(l, a), c, AcceptKeys(c, k)), c)
    PROVE  MoreTables(n, l, c, L, w, r)
<1> DEFINE keys == AcceptKeys(c, k)
<1>1. keys \in SUBSET Cids BY Zenon, CidsTyped
<1>2. l.list \in SUBSET Conns /\ l.map \in CidMap /\ l.count \in Int BY Zenon DEF Listener
<1>3. \A cid \in keys : cid \notin DOMAIN l.map
    <2> SUFFICES ASSUME NEW cid \in keys, cid \in DOMAIN l.map PROVE FALSE BY Zenon
    <2>1. PICK b \in l.list : cid \in conns[b].keys BY Zenon DEF Sound
    <2>2. b # c /\ b \in Conns /\ conns[b].client \in Clients BY Zenon, <2>1, <1>2
    <2>3. cid \in AcceptKeys(b, conns[b].client) \cup {Issued(b)} BY Zenon, <2>1 DEF Sound, KeysOf
    <2>4. RetryCid(conns[b].client) \in DOMAIN l.map
        <3>1. RetryCid(conns[b].client) \in AcceptKeys(b, conns[b].client) BY Zenon DEF AcceptKeys
        <3> QED BY Zenon, <2>1, <3>1 DEF Sound, KeysOf
    <2>5. conns[b].client # k BY Zenon, <2>4
    <2>6. cid \in {Scid(c), Odcid(k), RetryCid(k)} BY Zenon DEF AcceptKeys
    <2>7. cid \in {Scid(b), Odcid(conns[b].client), RetryCid(conns[b].client), Issued(b)}
        BY Zenon, <2>3 DEF AcceptKeys
    <2> QED BY <2>2, <2>5, <2>6, <2>7, CidsDiffer
<1> HIDE DEF keys
<1>4. /\ n \in Listener /\ n.list = l.list \cup {c} /\ n.dirty = l.dirty \cup {c}
      /\ n.count = l.count + 1 /\ n.map = AddKeys(l.map, keys, c)
      /\ \A i \in Ips : i # Ip[a] => n.peers[i] = l.peers[i]
      /\ PeerBudget # 0 => n.peers[Ip[a]] = l.peers[Ip[a]] + 1
    BY <1>1, TrackOf DEF keys
<1>5. /\ DOMAIN n.map = DOMAIN l.map \cup keys
      /\ \A cid \in DOMAIN l.map : n.map[cid] = l.map[cid]
      /\ \A cid \in keys : n.map[cid] = c
    <2>1. PICK m \in CidMap : m = l.map BY Zenon, <1>2
    <2>2. PICK S \in SUBSET Cids : S = keys BY Zenon, <1>1
    <2>3. /\ DOMAIN AddKeys(m, S, c) = DOMAIN m \cup S
          /\ \A cid \in DOMAIN m : AddKeys(m, S, c)[cid] = m[cid]
          /\ \A cid \in S : cid \notin DOMAIN m => AddKeys(m, S, c)[cid] = c
        BY Zenon DEF AddKeys
    <2>4. n.map = AddKeys(m, S, c) BY Zenon, <2>1, <2>2, <1>4
    <2> QED BY Zenon, <2>1, <2>2, <2>3, <2>4, <1>3
<1>6. \A cid \in DOMAIN n.map : n.map[cid] \in n.list /\ cid \in L[n.map[cid]].keys
    <2> TAKE cid \in DOMAIN n.map
    <2>1. CASE cid \in keys BY <2>1, <1>4, <1>5 DEF keys
    <2>2. CASE cid \in DOMAIN l.map
        <3>1. l.map[cid] \in l.list /\ cid \in conns[l.map[cid]].keys BY Zenon, <2>2 DEF Sound
        <3>2. l.map[cid] # c /\ l.map[cid] \in Conns BY Zenon, <3>1, <1>2
        <3> QED BY <2>2, <3>1, <3>2, <1>4, <1>5
    <2> QED BY Zenon, <2>1, <2>2, <1>5
<1>7. \A b \in n.list :
         /\ L[b].st = "live" /\ L[b].home = r /\ L[b].admit \in Addrs
         /\ \A cid \in L[b].keys : cid \in DOMAIN n.map /\ n.map[cid] = b
         /\ KeysOf(L[b], b)
    <2> TAKE b \in n.list
    <2>1. CASE b = c BY Zenon, <2>1, <1>5 DEF keys, KeysOf
    <2>2. CASE b # c
        <3>1. b \in l.list /\ L[b] = conns[b] BY Zenon, <2>2, <1>2, <1>4
        <3>2. /\ conns[b].st = "live" /\ conns[b].home = r /\ conns[b].admit \in Addrs
              /\ \A cid \in conns[b].keys : cid \in DOMAIN l.map /\ l.map[cid] = b
              /\ KeysOf(conns[b], b)
            BY Zenon, <3>1 DEF Sound
        <3> QED BY Zenon, <3>1, <3>2, <1>5
    <2> QED BY Zenon, <2>1, <2>2
<1>8. n.dirty \subseteq n.list /\ w \subseteq n.list BY Zenon, <1>4 DEF Sound
<1>9. n.count = Cardinality(n.list) BY <1>2, <1>4, Counts DEF Sound
<1>10. ASSUME PeerBudget # 0, NEW i \in Ips
       PROVE  n.peers[i] = Cardinality({b \in n.list : Ip[L[b].admit] = i})
    <2> DEFINE S == {b \in l.list : Ip[conns[b].admit] = i}
               T == {b \in n.list : Ip[L[b].admit] = i}
    <2>1. l.peers[i] = Cardinality(S) BY <1>10, Zenon DEF Sound
    <2>2. S \in SUBSET Conns /\ c \notin S BY Zenon, <1>2
    <2>3. T = IF Ip[a] = i THEN S \cup {c} ELSE S BY <1>2, <1>4
    <2> HIDE DEF S, T
    <2>4. CASE Ip[a] = i
        <3>1. Cardinality(T) = Cardinality(S) + 1 BY Zenon, <2>2, <2>3, <2>4, Counts
        <3> QED BY <2>1, <2>4, <3>1, <1>4, <1>10, Zenon DEF T
    <2>5. CASE Ip[a] # i BY <2>1, <2>3, <2>5, <1>4, Zenon DEF T
    <2> QED BY Zenon, <2>4, <2>5
<1>11. Sound(n, L, w, r)
    BY <1>6, <1>7, <1>8, <1>9, <1>10, Zenon DEF Sound
<1> QED BY Zenon, <1>4, <1>11 DEF MoreTables

(* What reading a datagram may do to a connection: it never moves to another  *)
(* reactor or IP budget, and gains or loses the issued CID only.              *)
LEMMA EffectOf ==
    ASSUME NEW k \in Connection, NEW c \in Conns, NEW d \in Packet, NEW moves \in Int,
           k.peer \in Addrs, NEW j, j = ReadEffect(k, c, d, moves)
    PROVE  /\ j \in Connection /\ j.peer \in Addrs
           /\ j.st = k.st /\ j.client = k.client /\ j.home = k.home /\ j.admit = k.admit
           /\ j.answered = k.answered
           /\ j.keys \in {k.keys, k.keys \cup {Issued(c)}, k.keys \ {Issued(c)}}
<1> DEFINE Same(x) == /\ x \in Connection /\ x.peer \in Addrs
                      /\ x.st = k.st /\ x.client = k.client /\ x.home = k.home /\ x.admit = k.admit
                      /\ x.answered = k.answered
           m == Migrate(k, d.from, moves)
<1>1. d.from \in Addrs BY Zenon DEF Packet
<1>2. k.keys \cup {Issued(c)} \in SUBSET Cids
    <2>1. Issued(c) \in Cids BY Zenon, CidsTyped
    <2> QED BY Zenon, <2>1 DEF Connection
<1>3. Same(m) /\ m.keys = k.keys
    <2>1. PICK f \in BOOLEAN : f = (k.storm \/ moves > StormMax) BY Zenon
    <2>2. CASE ~k.hs \/ d.from = k.peer BY Zenon, <2>2 DEF Migrate
    <2>3. CASE ~(~k.hs \/ d.from = k.peer)
        <3>1. m = [k EXCEPT !.peer = d.from, !.moves = moves, !.storm = f]
            BY Zenon, <2>1, <2>3 DEF Migrate, Connection
        <3> HIDE DEF m
        <3> QED BY <1>1, <2>1, <3>1, Zenon DEF Connection
    <2> QED BY Zenon, <2>2, <2>3
<1> HIDE DEF m
<1>4. CASE d.what = "handshake" /\ ~k.hs
    <2>1. j = [k EXCEPT !.hs = TRUE, !.keys = k.keys \cup {Issued(c)}]
        BY Zenon, <1>4 DEF ReadEffect, IssueCid, Connection
    <2> QED BY <1>2, <2>1, Zenon DEF Connection
<1>5. CASE d.what = "retire"
    <2>1. j = [m EXCEPT !.keys = k.keys \ {Issued(c)}]
        BY Zenon, <1>3, <1>5 DEF ReadEffect, RetireCid, Connection, m
    <2>2. k.keys \ {Issued(c)} \in SUBSET Cids BY Zenon, <1>2
    <2>3. Same(j) /\ j.keys = k.keys \ {Issued(c)} BY Zenon, <1>3, <2>1, <2>2 DEF Connection
    <2> QED BY Zenon, <2>3
<1>6. CASE d.what = "fin"
    <2>1. j = [k EXCEPT !.draining = TRUE] BY Zenon, <1>6 DEF ReadEffect
    <2> QED BY <2>1, Zenon DEF Connection
<1>7. CASE ~(d.what = "handshake" /\ ~k.hs) /\ d.what # "retire" /\ d.what # "fin"
    <2>1. j = m BY Zenon, <1>7 DEF ReadEffect, m
    <2> QED BY Zenon, <1>3, <2>1
<1> QED BY Zenon, <1>4, <1>5, <1>6, <1>7

(* Marking for the flush and registering or dropping the issued CID, field by *)
(* field.                                                                     *)
Rekeyed(n, l, c, before, after) ==
    /\ n \in Listener /\ n.list = l.list /\ n.dirty = l.dirty \cup {c}
    /\ n.count = l.count /\ n.peers = l.peers
    /\ n.map = AddKeys(Without(l.map, before \ after), after \ before, c)

(* Changing the keys of a connection. *)
LEMMA RekeyOf ==
    ASSUME NEW l \in Listener, NEW c \in Conns, NEW before \in SUBSET Cids, NEW after \in SUBSET Cids,
           NEW n, n = MarkFlush(Rekey(l, c, before, after), c)
    PROVE  Rekeyed(n, l, c, before, after)
<1> DEFINE m == AddKeys(Without(l.map, before \ after), after \ before, c)
<1>1. m \in CidMap
    <2>1. l.map \in CidMap BY Zenon DEF Listener
    <2>2. Without(l.map, before \ after) \in CidMap BY <2>1, WithoutOf, Zenon
    <2>3. after \ before \in SUBSET Cids BY Zenon
    <2> QED BY <2>2, <2>3, AddKeysOf, Zenon
<1>2. PICK t : t = [l EXCEPT !.map = m] BY Zenon
<1>3. n = [t EXCEPT !.dirty = t.dirty \cup {c}]
    BY Zenon, <1>2 DEF MarkFlush, Rekey, Listener
<1> HIDE DEF m
<1>4. /\ t \in Listener /\ t.list = l.list /\ t.dirty = l.dirty
      /\ t.count = l.count /\ t.peers = l.peers /\ t.map = m
    BY Zenon, <1>1, <1>2 DEF Listener
<1>5. /\ n \in Listener /\ n.list = t.list /\ n.dirty = t.dirty \cup {c}
      /\ n.count = t.count /\ n.peers = t.peers /\ n.map = t.map
    BY <1>3, <1>4 DEF Listener
<1> QED BY Zenon, <1>4, <1>5 DEF m, Rekeyed

(* A connection's issued CID comes and goes; the tables follow.               *)
SameTables(n, l, L, w, r) == n \in Listener /\ n.list = l.list /\ Sound(n, L, w, r)

(* A change of keys leaves tables that say what is alive. *)
LEMMA RekeySound ==
    ASSUME NEW l \in Listener, NEW c \in l.list, conns \in [Conns -> Connection],
           NEW L \in [Conns -> Connection], NEW w, NEW r, Sound(l, conns, w, r),
           \A b \in Conns : b # c => L[b] = conns[b],
           /\ L[c].st = conns[c].st /\ L[c].home = conns[c].home
           /\ L[c].client = conns[c].client /\ L[c].admit = conns[c].admit
           /\ L[c].keys \in {conns[c].keys, conns[c].keys \cup {Issued(c)}, conns[c].keys \ {Issued(c)}},
           NEW n, n = MarkFlush(Rekey(l, c, conns[c].keys, L[c].keys), c)
    PROVE  SameTables(n, l, L, w, r)
<1>1. c \in Conns /\ l.list \in SUBSET Conns /\ l.map \in CidMap /\ l.count \in Int BY Zenon DEF Listener
<1>2. PICK before \in SUBSET Cids : before = conns[c].keys BY Zenon, <1>1 DEF Connection
<1>3. PICK after \in SUBSET Cids : after = L[c].keys BY Zenon, <1>1 DEF Connection
<1>4. after \in {before, before \cup {Issued(c)}, before \ {Issued(c)}} BY Zenon, <1>2, <1>3
<1>5. /\ n \in Listener /\ n.list = l.list /\ n.dirty = l.dirty \cup {c}
      /\ n.count = l.count /\ n.peers = l.peers
      /\ n.map = AddKeys(Without(l.map, before \ after), after \ before, c)
    <2>1. n = MarkFlush(Rekey(l, c, before, after), c) BY Zenon, <1>2, <1>3
    <2>2. Rekeyed(n, l, c, before, after) BY Zenon, <1>1, <2>1, RekeyOf
    <2> QED BY Zenon, <2>2 DEF Rekeyed
<1>6. \A cid \in after \ before : cid \notin DOMAIN l.map
    <2> SUFFICES ASSUME NEW cid \in after \ before, cid \in DOMAIN l.map PROVE FALSE BY Zenon
    <2>1. cid = Issued(c) BY Zenon, <1>4
    <2>2. PICK b \in l.list : b = l.map[cid] /\ cid \in conns[b].keys BY Zenon DEF Sound
    <2>3. cid \in {Scid(b), Odcid(conns[b].client), RetryCid(conns[b].client), Issued(b)}
        BY <2>2 DEF Sound, KeysOf, AcceptKeys
    <2>4. b = c BY <2>1, <2>3, CidsDiffer
    <2> QED BY Zenon, <2>2, <2>4, <1>2
<1>7. /\ DOMAIN n.map = (DOMAIN l.map \ (before \ after)) \cup (after \ before)
      /\ \A cid \in DOMAIN l.map \ (before \ after) : n.map[cid] = l.map[cid]
      /\ \A cid \in after \ before : n.map[cid] = c
    <2>1. PICK m : m = l.map BY Zenon
    <2>2. n.map = AddKeys(Without(m, before \ after), after \ before, c) BY Zenon, <1>5, <2>1
    <2>3. /\ DOMAIN AddKeys(Without(m, before \ after), after \ before, c)
             = (DOMAIN m \ (before \ after)) \cup (after \ before)
          /\ \A cid \in DOMAIN m \ (before \ after) :
                AddKeys(Without(m, before \ after), after \ before, c)[cid] = m[cid]
          /\ \A cid \in after \ before : cid \notin DOMAIN m =>
                AddKeys(Without(m, before \ after), after \ before, c)[cid] = c
        BY Zenon DEF AddKeys, Without
    <2> QED BY <2>1, <2>2, <2>3, <1>6, Zenon
<1>8. \A cid \in before : cid \in DOMAIN l.map /\ l.map[cid] = c BY Zenon, <1>2 DEF Sound
<1>9. \A cid \in DOMAIN n.map : n.map[cid] \in n.list /\ cid \in L[n.map[cid]].keys
    <2> TAKE cid \in DOMAIN n.map
    <2>1. CASE cid \in after \ before BY <2>1, <1>3, <1>5, <1>7, ZenonT(30)
    <2>2. CASE cid \in DOMAIN l.map \ (before \ after)
        <3>1. n.map[cid] = l.map[cid] /\ l.map[cid] \in l.list /\ cid \in conns[l.map[cid]].keys
            BY Zenon, <2>2, <1>7 DEF Sound
        <3>2. CASE l.map[cid] = c BY Zenon, <2>2, <3>1, <3>2, <1>2, <1>3, <1>5
        <3>3. CASE l.map[cid] # c BY Zenon, <3>1, <3>3, <1>1, <1>5
        <3> QED BY Zenon, <3>2, <3>3
    <2> QED BY Zenon, <2>1, <2>2, <1>7
<1>10. \A b \in n.list :
         /\ L[b].st = "live" /\ L[b].home = r /\ L[b].admit \in Addrs
         /\ \A cid \in L[b].keys : cid \in DOMAIN n.map /\ n.map[cid] = b
         /\ KeysOf(L[b], b)
    <2> TAKE b \in n.list
    <2>1. b \in l.list BY Zenon, <1>5
    <2>2. /\ conns[b].st = "live" /\ conns[b].home = r /\ conns[b].admit \in Addrs
          /\ \A cid \in conns[b].keys : cid \in DOMAIN l.map /\ l.map[cid] = b
          /\ KeysOf(conns[b], b)
        BY Zenon, <2>1 DEF Sound
    <2>3. CASE b = c
        <3>1. \A cid \in after : cid \in DOMAIN n.map /\ n.map[cid] = c BY Zenon, <1>7, <1>8
        <3>2. Issued(c) \notin AcceptKeys(c, conns[c].client) BY Zenon, CidsDiffer DEF AcceptKeys
        <3>3. AcceptKeys(c, conns[c].client) \subseteq before
              /\ before \subseteq AcceptKeys(c, conns[c].client) \cup {Issued(c)}
            BY Zenon, <2>2, <2>3, <1>2 DEF KeysOf
        <3>4. KeysOf(L[c], c) BY Zenon, <3>2, <3>3, <1>3, <1>4 DEF KeysOf
        <3> QED BY Zenon, <2>2, <2>3, <3>1, <3>4, <1>3
    <2>4. CASE b # c
        <3>1. L[b] = conns[b] BY Zenon, <2>1, <2>4, <1>1
        <3>2. \A cid \in conns[b].keys : cid \notin before BY Zenon, <2>2, <2>4, <1>8
        <3> QED BY Zenon, <2>2, <3>1, <3>2, <1>7
    <2> QED BY Zenon, <2>3, <2>4
<1>11. n.dirty \subseteq n.list /\ w \subseteq n.list /\ n.count = Cardinality(n.list)
    BY Zenon, <1>5 DEF Sound
<1>12. ASSUME PeerBudget # 0, NEW i \in Ips
       PROVE  n.peers[i] = Cardinality({b \in n.list : Ip[L[b].admit] = i})
    <2>1. {b \in n.list : Ip[L[b].admit] = i} = {b \in l.list : Ip[conns[b].admit] = i}
        BY Zenon, <1>1, <1>5
    <2>2. l.peers[i] = Cardinality({b \in l.list : Ip[conns[b].admit] = i}) BY <1>12, Zenon DEF Sound
    <2> QED BY <2>1, <2>2, <1>5, Zenon
<1>13. Sound(n, L, w, r)
    BY <1>9, <1>10, <1>11, <1>12, Zenon DEF Sound
<1> QED BY Zenon, <1>5, <1>13 DEF SameTables

------------------------------------------------------------------------------
(* Steps of one reactor.                                                      *)

(* The tables of a listener do not see its socket.                            *)
LEMMA SoundSame ==
    ASSUME NEW l, NEW n, NEW K, NEW w, NEW v, NEW r, Sound(l, K, w, r),
           n.list = l.list, n.map = l.map, n.count = l.count, n.peers = l.peers,
           n.dirty \subseteq l.list, v \subseteq l.list
    PROVE  Sound(n, K, v, r)
BY Zenon DEF Sound

(* A step of one reactor leaves the tables of the others as they were: they   *)
(* track none of its connections.                                             *)
LEMMA TablesStep ==
    ASSUME IInv, NEW r \in Reactors, lst' \in [Reactors -> Listener],
           conns' \in [Conns -> Connection],
           \A s \in Reactors : s # r => lst'[s] = lst[s] /\ pc'[s].walk = pc[s].walk,
           \A c \in Conns : conns[c].st = "live" /\ c \notin lst[r].list => conns'[c] = conns[c],
           Sound(lst'[r], conns', pc'[r].walk, r)
    PROVE  TablesSound'
<1> SUFFICES ASSUME NEW s \in Reactors PROVE Sound(lst'[s], conns', pc'[s].walk, s)
    BY Zenon DEF TablesSound
<1>1. CASE s = r BY Zenon, <1>1
<1>2. CASE s # r
    <2>1. PICK l \in Listener : l = lst[s] BY Zenon DEF IInv, ListenerTypeOK
    <2>2. PICK K \in [Conns -> Connection] : K = conns BY Zenon DEF IInv, ListenerTypeOK
    <2>3. PICK L \in [Conns -> Connection] : L = conns' BY Zenon
    <2>4. Sound(l, K, pc[s].walk, s) BY Zenon, <2>1, <2>2 DEF IInv, TablesSound
    <2>5. ASSUME NEW c \in l.list PROVE L[c] = K[c]
        <3>1. c \in Conns /\ K[c].st = "live" /\ K[c].home = s BY Zenon, <2>4 DEF Sound, Listener
        <3>2. c \notin lst[r].list BY <1>2, <2>2, <3>1 DEF IInv, TablesSound, Sound
        <3> QED BY Zenon, <2>2, <2>3, <3>1, <3>2
    <2>6. /\ pc[s].walk \subseteq pc[s].walk
          /\ \A c \in l.list : /\ L[c].st = K[c].st /\ L[c].home = K[c].home
                               /\ L[c].keys = K[c].keys /\ L[c].client = K[c].client
                               /\ L[c].admit = K[c].admit
        BY Zenon, <2>5
    <2>7. Sound(l, L, pc[s].walk, s) BY <2>4, <2>6, SoundFrame
    <2> QED BY Zenon, <1>2, <2>1, <2>3, <2>7
<1> QED BY Zenon, <1>1, <1>2

(* What a handler that leaves the place of every reactor alone gives.         *)
Handled == /\ lst' \in [Reactors -> Listener] /\ conns' \in [Conns -> Connection]
           /\ mbox' \in [Reactors -> Seq(Command)] /\ TablesSound' /\ Homed'

(* A connection is tracked by its home only.                                  *)
LEMMA ListedOf ==
    ASSUME IInv, NEW r \in Reactors, NEW c \in lst[r].list
    PROVE  /\ lst[r] \in Listener /\ c \in Conns /\ conns[c] \in Connection
           /\ conns[c].st = "live" /\ conns[c].home = r
           /\ conns[c].admit \in Addrs /\ conns[c].peer \in Addrs /\ conns[c].client \in Clients
           /\ Sound(lst[r], conns, pc[r].walk, r)
<1>1. lst[r] \in Listener BY Zenon DEF IInv, ListenerTypeOK
<1>2. Sound(lst[r], conns, pc[r].walk, r) BY Zenon DEF IInv, TablesSound
<1>3. c \in Conns BY Zenon, <1>1 DEF Listener
<1>4. conns[c].st = "live" /\ conns[c].home = r /\ conns[c].admit \in Addrs BY Zenon, <1>2 DEF Sound
<1>5. conns[c].peer \in Addrs /\ conns[c].client \in Clients BY Zenon, <1>3, <1>4 DEF IInv, Homed
<1>6. conns[c] \in Connection BY Zenon, <1>3 DEF IInv, ListenerTypeOK
<1> QED BY Zenon, <1>1, <1>2, <1>3, <1>4, <1>5, <1>6

(* The datagram belongs to a connection of the reactor.                       *)
LEMMA HandledRead ==
    ASSUME IInv, NEW r \in Reactors, NEW d \in Packet, ReadPacket(r, d),
           \A s \in Reactors : pc'[s].walk = pc[s].walk
    PROVE  Handled
<1> DEFINE c == lst[r].map[d.dcid]
<1>1. c \in lst[r].list BY Zenon DEF ReadPacket, IInv, TablesSound, Sound
<1> HIDE DEF c
<1>2. /\ lst[r] \in Listener /\ c \in Conns /\ conns[c] \in Connection
      /\ conns[c].st = "live" /\ conns[c].home = r
      /\ conns[c].admit \in Addrs /\ conns[c].peer \in Addrs /\ conns[c].client \in Clients
      /\ Sound(lst[r], conns, pc[r].walk, r)
    BY <1>1, ListedOf, Zenon
<1>3. PICK l \in Listener : l = lst[r] BY Zenon, <1>2
<1>4. lst \in [Reactors -> Listener] /\ conns \in [Conns -> Connection] /\ mbox' = mbox
      /\ mbox \in [Reactors -> Seq(Command)]
    BY Zenon DEF IInv, ListenerTypeOK, ReadPacket
<1>5. CASE UNCHANGED conns /\ lst' = [lst EXCEPT ![r] = MarkFlush(@, c)]
    <2>1. PICK n : n = [l EXCEPT !.dirty = l.dirty \cup {c}] BY Zenon
    <2>2. lst' = [lst EXCEPT ![r] = n] BY Zenon, <1>3, <1>5, <2>1 DEF MarkFlush
    <2>3. /\ n \in Listener /\ n.list = l.list /\ n.map = l.map /\ n.count = l.count
          /\ n.peers = l.peers /\ n.dirty = l.dirty \cup {c}
        BY Zenon, <1>2, <2>1 DEF Listener
    <2>4. n.dirty \subseteq l.list /\ pc[r].walk \subseteq l.list
        BY Zenon, <1>1, <1>2, <1>3, <2>3 DEF Sound
    <2>5. Sound(n, conns, pc[r].walk, r) BY Zenon, <1>2, <1>3, <2>3, <2>4, SoundSame
    <2>6. lst' \in [Reactors -> Listener] /\ lst'[r] = n /\ \A s \in Reactors : s # r => lst'[s] = lst[s]
        BY Zenon, <1>4, <2>2, <2>3
    <2>7. TablesSound' BY Zenon, <1>4, <1>5, <2>5, <2>6, TablesStep
    <2>8. Homed' BY Zenon, <1>3, <1>5, <2>3, <2>6 DEF IInv, Homed
    <2> QED BY Zenon, <1>4, <1>5, <2>6, <2>7, <2>8 DEF Handled
<1>6. ASSUME NEW moves \in {conns[c].moves + 1, 1},
             NEW k, k = ReadEffect(conns[c], c, d, moves),
             conns' = [conns EXCEPT ![c] = k],
             lst' = [lst EXCEPT ![r] = MarkFlush(Rekey(@, c, conns[c].keys, k.keys), c)]
      PROVE  Handled
    <2>1. moves \in Int BY <1>2 DEF Connection
    <2>2. /\ k \in Connection /\ k.peer \in Addrs
          /\ k.st = conns[c].st /\ k.client = conns[c].client
          /\ k.home = conns[c].home /\ k.admit = conns[c].admit /\ k.answered = conns[c].answered
          /\ k.keys \in {conns[c].keys, conns[c].keys \cup {Issued(c)}, conns[c].keys \ {Issued(c)}}
        BY <1>2, <1>6, <2>1, EffectOf
    <2>3. PICK L \in [Conns -> Connection] : L = conns' BY <1>2, <1>4, <1>6, <2>2, ZenonT(30)
    <2>4. L[c] = k /\ \A b \in Conns : b # c => L[b] = conns[b] BY Zenon, <1>2, <1>4, <1>6, <2>3
    <2>5. PICK n : n = MarkFlush(Rekey(l, c, conns[c].keys, L[c].keys), c) BY Zenon
    <2>6. n \in Listener /\ n.list = l.list /\ Sound(n, L, pc[r].walk, r)
        <3>1. /\ L[c].st = conns[c].st /\ L[c].home = conns[c].home
              /\ L[c].client = conns[c].client /\ L[c].admit = conns[c].admit
              /\ L[c].keys \in {conns[c].keys, conns[c].keys \cup {Issued(c)}, conns[c].keys \ {Issued(c)}}
            BY Zenon, <2>2, <2>4
        <3>2. c \in l.list /\ Sound(l, conns, pc[r].walk, r) BY Zenon, <1>1, <1>2, <1>3
        <3>3. SameTables(n, l, L, pc[r].walk, r) BY <1>4, <2>4, <2>5, <3>1, <3>2, RekeySound, Zenon
        <3> QED BY Zenon, <3>3 DEF SameTables
    <2>7. lst' = [lst EXCEPT ![r] = n] BY Zenon, <1>3, <1>6, <2>4, <2>5
    <2>8. lst' \in [Reactors -> Listener] /\ lst'[r] = n /\ \A s \in Reactors : s # r => lst'[s] = lst[s]
        BY Zenon, <1>4, <2>6, <2>7
    <2>9. TablesSound'
        <3>1. \A b \in Conns : conns[b].st = "live" /\ b \notin lst[r].list => conns'[b] = conns[b]
            BY Zenon, <1>1, <2>3, <2>4
        <3> QED BY Zenon, <2>3, <2>6, <2>8, <3>1, TablesStep
    <2>10. Homed' BY <1>2, <1>3, <2>2, <2>3, <2>4, <2>6, <2>8 DEF IInv, Homed
    <2> QED BY Zenon, <1>4, <2>3, <2>8, <2>9, <2>10 DEF Handled
<1> QED BY <1>5, <1>6, Zenon DEF ReadPacket, c

(* A handler that touches neither connections nor tables.                     *)
LEMMA HandledNothing ==
    ASSUME IInv, UNCHANGED <<lst, conns>>, \A s \in Reactors : pc'[s].walk = pc[s].walk
    PROVE  /\ lst' \in [Reactors -> Listener] /\ conns' \in [Conns -> Connection]
           /\ TablesSound' /\ Homed'
<1>1. lst' \in [Reactors -> Listener] /\ conns' \in [Conns -> Connection]
    BY Zenon DEF IInv, ListenerTypeOK
<1>2. TablesSound' BY Zenon DEF IInv, TablesSound
<1>3. Homed' BY Zenon DEF IInv, Homed
<1> QED BY Zenon, <1>1, <1>2, <1>3

(* A short header names a connection and is forwarded as a command.           *)
LEMMA HandledSteer ==
    ASSUME IInv, NEW r \in Reactors, NEW d \in Packet, Steer(r, d),
           \A s \in Reactors : pc'[s].walk = pc[s].walk
    PROVE  Handled
<1>1. mbox \in [Reactors -> Seq(Command)] BY Zenon DEF IInv, ListenerTypeOK
<1>2. [cmd |-> "feed", d |-> d] \in Command BY Zenon DEF Command
<1>3. PICK x \in Command : x = [cmd |-> "feed", d |-> d] BY Zenon, <1>2
<1>4. PICK o : o = SteerDecode(d.dcid) BY Zenon
<1>5. mbox' = mbox \/ mbox' = [mbox EXCEPT ![o] = Append(mbox[o], x)] BY Zenon, <1>3, <1>4 DEF Steer
<1>6. mbox' \in [Reactors -> Seq(Command)]
    <2>1. CASE o \in Reactors
        <3>1. Append(mbox[o], x) \in Seq(Command) BY <1>1, <2>1
        <3> QED BY <1>1, <1>5, <3>1, Zenon
    <2>2. CASE o \notin Reactors BY Zenon, <1>1, <1>5, <2>2
    <2> QED BY Zenon, <2>1, <2>2
<1>7. UNCHANGED <<lst, conns>> BY Zenon DEF Steer
<1> QED BY Zenon, <1>6, <1>7, HandledNothing DEF Handled

(* An accept that fails gives the reservation in the budget back.             *)
LEMMA HandledAcceptFails ==
    ASSUME IInv, NEW r \in Reactors, NEW d \in Packet, AcceptFails(r, d),
           \A s \in Reactors : pc'[s].walk = pc[s].walk
    PROVE  Handled
<1>1. lst \in [Reactors -> Listener] /\ conns \in [Conns -> Connection]
      /\ mbox \in [Reactors -> Seq(Command)]
    BY Zenon DEF IInv, ListenerTypeOK
<1>2. PICK l \in Listener : l = lst[r] BY Zenon, <1>1
<1>3. PICK a \in Addrs : a = d.from BY Zenon DEF Packet
<1>4. PICK p : p = PeerInc(l, a) BY Zenon
<1>5. PICK n : n = PeerDec(p, a) BY Zenon
<1>6. Sound(l, conns, pc[r].walk, r) /\ Ip[a] \in Ips BY Zenon, <1>2 DEF IInv, TablesSound, Ips
<1>7. /\ p \in Listener /\ p.list = l.list /\ p.map = l.map /\ p.count = l.count /\ p.dirty = l.dirty
      /\ \A i \in Ips : i # Ip[a] => p.peers[i] = l.peers[i]
      /\ PeerBudget # 0 => p.peers[Ip[a]] = l.peers[Ip[a]] + 1
    BY Zenon, <1>4, PeerIncOf
<1>8. /\ n \in Listener /\ n.list = p.list /\ n.map = p.map /\ n.count = p.count /\ n.dirty = p.dirty
      /\ \A i \in Ips : i # Ip[a] => n.peers[i] = p.peers[i]
      /\ PeerBudget # 0 /\ p.peers[Ip[a]] # 0 => n.peers[Ip[a]] = p.peers[Ip[a]] - 1
    BY Zenon, <1>5, <1>7, PeerDecOf
<1>9. n.peers = l.peers
    <2>1. n.peers \in [Ips -> Int] /\ l.peers \in [Ips -> Int] BY Zenon, <1>8 DEF Listener
    <2>2. CASE PeerBudget = 0 BY Zenon, <1>4, <1>5, <2>2 DEF PeerInc, PeerDec
    <2>3. CASE PeerBudget # 0
        <3>1. l.peers[Ip[a]] = Cardinality({c \in l.list : Ip[conns[c].admit] = Ip[a]})
            BY <1>6, <2>3, Zenon DEF Sound
        <3>2. {c \in l.list : Ip[conns[c].admit] = Ip[a]} \in SUBSET Conns BY Zenon DEF Listener
        <3>3. l.peers[Ip[a]] \in Nat
            <4>1. \A S \in SUBSET Conns : Cardinality(S) \in Nat
                BY ListenerAssumption, FS_Subset, FS_CardinalityType, Zenon
            <4> QED BY Zenon, <3>1, <3>2, <4>1
        <3>4. p.peers[Ip[a]] # 0 /\ n.peers[Ip[a]] = l.peers[Ip[a]] BY <1>7, <1>8, <2>3, <3>3
        <3> QED BY <1>7, <1>8, <2>1, <3>4
    <2> QED BY Zenon, <2>2, <2>3
<1>10. Sound(n, conns, pc[r].walk, r)
    <2>1. n.dirty \subseteq l.list /\ pc[r].walk \subseteq l.list BY Zenon, <1>6, <1>7, <1>8 DEF Sound
    <2>2. n.list = l.list /\ n.map = l.map /\ n.count = l.count BY Zenon, <1>7, <1>8
    <2> QED BY Zenon, <1>6, <1>9, <2>1, <2>2, SoundSame
<1>11. lst' = [lst EXCEPT ![r] = n] /\ conns' = conns /\ mbox' = mbox
    BY Zenon, <1>2, <1>3, <1>4, <1>5 DEF AcceptFails
<1>12. lst' \in [Reactors -> Listener] /\ lst'[r] = n /\ \A s \in Reactors : s # r => lst'[s] = lst[s]
    BY Zenon, <1>1, <1>8, <1>11
<1>13. TablesSound' BY Zenon, <1>1, <1>10, <1>11, <1>12, TablesStep
<1>14. Homed' BY Zenon, <1>2, <1>7, <1>8, <1>11, <1>12 DEF IInv, Homed
<1> QED BY Zenon, <1>1, <1>11, <1>12, <1>13, <1>14 DEF Handled

(* The struct before it is used.                                              *)
LEMMA NoConnTyped ==
    NoConn \in Connection /\ NoConn.answered = FALSE /\ NoConn.st = "unused"
BY DEF NoConn, Connection

(* A validated Initial opens a connection.                                    *)
LEMMA HandledAccept ==
    ASSUME IInv, NEW r \in Reactors, NEW d \in Packet, Accept(r, d),
           \A s \in Reactors : pc'[s].walk = pc[s].walk
    PROVE  Handled
<1>1. lst \in [Reactors -> Listener] /\ conns \in [Conns -> Connection]
      /\ mbox \in [Reactors -> Seq(Command)] /\ mbox' = mbox
    BY Zenon DEF IInv, ListenerTypeOK, Accept
<1>2. PICK l \in Listener : l = lst[r] BY Zenon, <1>1
<1>3. PICK a \in Addrs : a = d.from
    BY Zenon DEF Packet
<1>4. PICK k \in Clients : k = d.client BY Zenon DEF Packet
<1>5. RetryCid(k) \notin DOMAIN l.map BY Zenon, <1>2, <1>4 DEF Accept, Packet
<1>6. PICK c \in Conns :
        /\ conns[c].st = "unused"
        /\ conns' = [conns EXCEPT ![c] = NewConn(c, r, d)]
        /\ lst' = [lst EXCEPT ![r] = MarkFlush(Track(PeerInc(@, d.from), c, AcceptKeys(c, d.client)), c)]
    BY Zenon DEF Accept
<1>7. PICK x : x = NewConn(c, r, d) BY Zenon
<1>8. /\ x \in Connection /\ x.st = "live" /\ x.home = r /\ x.admit = a /\ x.peer = a
      /\ x.client = k /\ x.keys = AcceptKeys(c, k) /\ x.answered = FALSE
    <2>1. AcceptKeys(c, k) \in SUBSET Cids BY Zenon, CidsTyped
    <2>2. PICK keys \in SUBSET Cids : keys = AcceptKeys(c, k) BY Zenon, <2>1
    <2>3. x = [NoConn EXCEPT !.st = "live", !.client = k, !.home = r, !.keys = keys,
                             !.admit = a, !.peer = a]
        BY Zenon, <1>3, <1>4, <1>7, <2>2 DEF NewConn
    <2> QED BY <2>2, <2>3, <1>3, <1>4, <1>5, NoConnTyped, Zenon DEF Connection
<1>9. PICK L \in [Conns -> Connection] : L = conns' BY <1>1, <1>6, <1>7, <1>8, ZenonT(30)
<1>10. L[c] = x /\ \A b \in Conns : b # c => L[b] = conns[b] BY Zenon, <1>1, <1>6, <1>7, <1>9
<1>11. Sound(l, conns, pc[r].walk, r) BY Zenon, <1>2 DEF IInv, TablesSound
<1>12. \A s \in Reactors : c \notin lst[s].list BY <1>6, ZenonT(30) DEF IInv, TablesSound, Sound
<1>13. \A b \in l.list : conns[b].client \in Clients BY Zenon, <1>2, ListedOf
<1>14. PICK n : n = MarkFlush(Track(PeerInc(l, a), c, AcceptKeys(c, k)), c) BY Zenon
<1>15. MoreTables(n, l, c, L, pc[r].walk, r)
    <2>1. /\ L[c].st = "live" /\ L[c].home = r /\ L[c].admit = a
          /\ L[c].client = k /\ L[c].keys = AcceptKeys(c, k)
        BY Zenon, <1>8, <1>10
    <2>2. c \notin l.list BY Zenon, <1>2, <1>12
    <2> QED BY <1>1, <1>5, <1>10, <1>11, <1>13, <1>14, <2>1, <2>2, TrackSound, Zenon
<1>16. lst' = [lst EXCEPT ![r] = n] BY Zenon, <1>2, <1>3, <1>4, <1>6, <1>14
<1>17. n \in Listener /\ n.list = l.list \cup {c} /\ Sound(n, L, pc[r].walk, r)
    BY Zenon, <1>15 DEF MoreTables
<1>18. lst' \in [Reactors -> Listener] /\ lst'[r] = n /\ \A s \in Reactors : s # r => lst'[s] = lst[s]
    BY Zenon, <1>1, <1>16, <1>17
<1>19. TablesSound'
    <2>1. \A b \in Conns : conns[b].st = "live" /\ b \notin lst[r].list => conns'[b] = conns[b]
        BY Zenon, <1>6, <1>9, <1>10
    <2> QED BY Zenon, <1>9, <1>17, <1>18, <2>1, TablesStep
<1>20. Homed'
    <2>1. ASSUME NEW b \in Conns
          PROVE  /\ L[b].st = "live" => /\ L[b].home \in Reactors
                                        /\ b \in lst'[L[b].home].list /\ L[b].peer \in Addrs
                 /\ L[b].st # "unused" => L[b].client \in Clients
                 /\ L[b].answered => L[b].st # "unused"
        <3>1. CASE b = c BY Zenon, <1>8, <1>10, <1>17, <1>18, <3>1
        <3>2. CASE b # c BY <1>2, <1>10, <1>17, <1>18, <3>2 DEF IInv, Homed
        <3> QED BY Zenon, <3>1, <3>2
    <2> QED BY Zenon, <1>9, <2>1 DEF Homed
<1> QED BY Zenon, <1>1, <1>9, <1>18, <1>19, <1>20 DEF Handled

(* One datagram, whichever way it goes.                                       *)
LEMMA DispatchHandled ==
    ASSUME IInv, NEW r \in Reactors, NEW d \in Packet, Dispatch(r, d),
           \A s \in Reactors : pc'[s].walk = pc[s].walk
    PROVE  Handled
<1>1. CASE ReadPacket(r, d) BY Zenon, <1>1, HandledRead
<1>2. CASE Steer(r, d) BY Zenon, <1>2, HandledSteer
<1>3. CASE AcceptFails(r, d) BY Zenon, <1>3, HandledAcceptFails
<1>4. CASE Accept(r, d) BY Zenon, <1>4, HandledAccept
<1>5. CASE UNCHANGED <<lst, conns, mbox>>
    <2>1. mbox' \in [Reactors -> Seq(Command)] BY Zenon, <1>5 DEF IInv, ListenerTypeOK
    <2> QED BY Zenon, <1>5, <2>1, HandledNothing DEF Handled
<1>6. StatelessReset(r, d) \/ DropLong(r, d) \/ SendRetry(r, d) \/ Refuse(r, d)
      => UNCHANGED <<lst, conns, mbox>>
    BY Zenon DEF StatelessReset, DropLong, SendRetry, Refuse
<1> QED BY Zenon, <1>1, <1>2, <1>3, <1>4, <1>5, <1>6 DEF Dispatch

(* A freed connection keeps what its client remembers.                        *)
LEMMA FreedOf ==
    ASSUME NEW c \in Conns, conns[c] \in Connection
    PROVE  /\ Freed(c) \in Connection /\ Freed(c).st = "freed"
           /\ Freed(c).client = conns[c].client /\ Freed(c).home = conns[c].home
<1>1. PICK k \in Connection : k = conns[c] BY Zenon
<1>2. Freed(c) = [NoConn EXCEPT !.st = "freed", !.client = k.client, !.home = k.home,
                               !.hs = k.hs, !.answered = k.answered]
    BY Zenon, <1>1 DEF Freed
<1> QED BY <1>1, <1>2, NoConnTyped, ZenonT(30) DEF Connection

(* A connection is reaped by its reactor.                                     *)
LEMMA ReapHandled ==
    ASSUME IInv, NEW r \in Reactors, NEW c \in lst[r].list,
           conns' = [conns EXCEPT ![c] = Freed(c)], lst' = [lst EXCEPT ![r] = Reap(@, c)],
           pc'[r].walk = pc[r].walk \ {c},
           \A s \in Reactors : s # r => pc'[s].walk = pc[s].walk
    PROVE  /\ lst' \in [Reactors -> Listener] /\ conns' \in [Conns -> Connection]
           /\ TablesSound' /\ Homed'
<1>1. lst \in [Reactors -> Listener] /\ conns \in [Conns -> Connection]
    BY Zenon DEF IInv, ListenerTypeOK
<1>2. /\ lst[r] \in Listener /\ c \in Conns /\ conns[c] \in Connection
      /\ conns[c].st = "live" /\ conns[c].home = r /\ conns[c].client \in Clients
      /\ Sound(lst[r], conns, pc[r].walk, r)
    BY ListedOf, Zenon
<1>3. PICK l \in Listener : l = lst[r] BY Zenon, <1>2
<1>4. PICK x : x = Freed(c) BY Zenon
<1>5. x \in Connection /\ x.st = "freed" /\ x.client = conns[c].client BY Zenon, <1>2, <1>4, FreedOf
<1>6. PICK L \in [Conns -> Connection] : L = conns' BY <1>1, <1>4, <1>5, Zenon
<1>7. L[c] = x /\ \A b \in Conns : b # c => L[b] = conns[b] BY Zenon, <1>1, <1>2, <1>4, <1>6
<1>8. LessTables(l, c, L, pc[r].walk, r)
    <2>1. c \in l.list /\ Sound(l, conns, pc[r].walk, r) BY Zenon, <1>2, <1>3
    <2> QED BY <1>1, <1>7, <2>1, ReapSound, Zenon
<1>9. PICK n : n = Reap(l, c) BY Zenon
<1>10. n \in Listener /\ n.list = l.list \ {c} /\ Sound(n, L, pc[r].walk \ {c}, r)
    BY Zenon, <1>8, <1>9 DEF LessTables
<1>11. lst' \in [Reactors -> Listener] /\ lst'[r] = n /\ \A s \in Reactors : s # r => lst'[s] = lst[s]
    BY Zenon, <1>1, <1>3, <1>9, <1>10
<1>12. TablesSound'
    <2>1. \A b \in Conns : conns[b].st = "live" /\ b \notin lst[r].list => conns'[b] = conns[b]
        BY Zenon, <1>6, <1>7
    <2> QED BY <1>6, <1>10, <1>11, <2>1, TablesStep, Zenon
<1>13. Homed'
    <2>1. ASSUME NEW b \in Conns
          PROVE  /\ L[b].st = "live" => /\ L[b].home \in Reactors
                                        /\ b \in lst'[L[b].home].list /\ L[b].peer \in Addrs
                 /\ L[b].st # "unused" => L[b].client \in Clients
                 /\ L[b].answered => L[b].st # "unused"
        <3>1. CASE b = c BY Zenon, <1>2, <1>5, <1>7, <3>1
        <3>2. CASE b # c BY Zenon, <1>3, <1>7, <1>10, <1>11, <3>2 DEF IInv, Homed
        <3> QED BY Zenon, <3>1, <3>2
    <2> QED BY Zenon, <1>6, <2>1 DEF Homed
<1> QED BY Zenon, <1>6, <1>11, <1>12, <1>13

------------------------------------------------------------------------------
(* Every step keeps the inductive invariant.                                  *)

(* The places other than r's stay; r's is q.                                  *)
LEMMA PlaceStep ==
    ASSUME IInv, NEW r \in Reactors, NEW q \in Place, pc' = [pc EXCEPT ![r] = q],
           q.at = "dispatch" => q.batch # <<>>, q.at # "walk" => q.walk = {}
    PROVE  /\ pc' \in [Reactors -> Place] /\ PlaceSound'
           /\ pc'[r] = q /\ \A s \in Reactors : s # r => pc'[s].walk = pc[s].walk
<1>1. pc \in [Reactors -> Place] BY Zenon DEF IInv, ListenerTypeOK
<1>2. pc'[r] = q /\ \A s \in Reactors : s # r => pc'[s] = pc[s] BY Zenon, <1>1
<1>3. PlaceSound' BY Zenon, <1>2 DEF IInv, PlaceSound
<1> QED BY Zenon, <1>1, <1>2, <1>3

(* Where a reactor rests.                                                     *)
LEMMA IdleTyped ==
    /\ IdlePc \in Place /\ IdlePc.at = "idle" /\ IdlePc.walk = {} /\ IdlePc.batch = <<>>
    /\ IdlePc.cmds = <<>>
<1>1. <<>> \in Seq(Packet) /\ <<>> \in Seq(Command) OBVIOUS
<1> QED BY <1>1 DEF IdlePc, Place

(* A step that changes a listener's socket or dirty list only.                *)
LEMMA SameStep ==
    ASSUME IInv, NEW r \in Reactors, NEW n \in Listener, lst' = [lst EXCEPT ![r] = n],
           conns' = conns, n.list = lst[r].list, n.map = lst[r].map, n.count = lst[r].count,
           n.peers = lst[r].peers, n.dirty \subseteq lst[r].list, pc'[r].walk \subseteq lst[r].list,
           \A s \in Reactors : s # r => pc'[s].walk = pc[s].walk
    PROVE  /\ lst' \in [Reactors -> Listener] /\ conns' \in [Conns -> Connection]
           /\ TablesSound' /\ Homed'
<1>1. lst \in [Reactors -> Listener] /\ conns \in [Conns -> Connection]
    BY Zenon DEF IInv, ListenerTypeOK
<1>2. lst' \in [Reactors -> Listener] /\ lst'[r] = n /\ \A s \in Reactors : s # r => lst'[s] = lst[s]
    BY Zenon, <1>1
<1>3. Sound(lst[r], conns, pc[r].walk, r) BY Zenon DEF IInv, TablesSound
<1>4. Sound(n, conns, pc'[r].walk, r) BY Zenon, <1>3, SoundSame
<1>5. TablesSound' BY Zenon, <1>1, <1>2, <1>4, TablesStep
<1>6. Homed' BY Zenon, <1>2 DEF IInv, Homed
<1> QED BY Zenon, <1>1, <1>2, <1>5, <1>6

(* Starting the poll handle again.                                            *)
LEMMA RearmOf ==
    ASSUME NEW l \in Listener
    PROVE  /\ Rearm(l) \in Listener /\ Rearm(l).list = l.list /\ Rearm(l).map = l.map
           /\ Rearm(l).count = l.count /\ Rearm(l).peers = l.peers /\ Rearm(l).dirty = l.dirty
BY Zenon DEF Rearm, Listener

(* The end of a tick: the poll handle is started again, the reactor rests.    *)
LEMMA RestStep ==
    ASSUME IInv, NEW r \in Reactors, pc' = [pc EXCEPT ![r] = IdlePc],
           lst' = [lst EXCEPT ![r] = Rearm(@)], UNCHANGED <<conns, sock, mbox>>
    PROVE  IInv'
<1>1. /\ pc' \in [Reactors -> Place] /\ PlaceSound'
      /\ pc'[r] = IdlePc /\ \A s \in Reactors : s # r => pc'[s].walk = pc[s].walk
    BY IdleTyped, PlaceStep, Zenon
<1>2. PICK l \in Listener : l = lst[r] BY Zenon DEF IInv, ListenerTypeOK
<1>3. PICK n : n = Rearm(l) BY Zenon
<1>4. /\ n \in Listener /\ n.list = l.list /\ n.map = l.map /\ n.count = l.count
      /\ n.peers = l.peers /\ n.dirty = l.dirty
    BY Zenon, <1>3, RearmOf
<1>5. l.dirty \subseteq l.list BY Zenon, <1>2 DEF IInv, TablesSound, Sound
<1>6. lst' = [lst EXCEPT ![r] = n] BY Zenon, <1>2, <1>3
<1>7. pc'[r].walk \subseteq lst[r].list BY Zenon, <1>1, IdleTyped
<1>8. /\ lst' \in [Reactors -> Listener] /\ conns' \in [Conns -> Connection]
      /\ TablesSound' /\ Homed'
    BY <1>1, <1>2, <1>4, <1>5, <1>6, <1>7, SameStep, Zenon
<1>9. sock' \in [Reactors -> Seq(Packet)] /\ mbox' \in [Reactors -> Seq(Command)]
    BY Zenon DEF IInv, ListenerTypeOK
<1> QED BY <1>1, <1>8, <1>9, Zenon DEF IInv, ListenerTypeOK

(* recvmmsg.                                                                  *)
LEMMA NextTickRecv ==
    ASSUME IInv, NEW r \in Reactors, TickRecv(r)
    PROVE  IInv'
<1> DEFINE n == IF Len(sock[r]) < Batch THEN Len(sock[r]) ELSE Batch
<1>1. CASE n = 0 BY Zenon, <1>1, RestStep DEF TickRecv
<1>2. CASE n # 0
    <2>1. PICK q \in Seq(Packet) : q = sock[r] BY Zenon DEF IInv, ListenerTypeOK
    <2>2. PICK p \in Place : p = pc[r] BY Zenon DEF IInv, ListenerTypeOK
    <2>3. n \in 1 .. Len(q) BY <1>2, <2>1, ListenerAssumption
    <2>4. pc' = [pc EXCEPT ![r] = [pc[r] EXCEPT !.at = "dispatch", !.batch = SubSeq(sock[r], 1, n),
                                            !.full = (n = Batch), !.outer = pc[r].outer + 1]]
        BY Zenon, <1>2 DEF TickRecv
    <2>5. sock' = [sock EXCEPT ![r] = SubSeq(q, n + 1, Len(q))] /\ UNCHANGED <<lst, conns, mbox>>
        BY Zenon, <1>2, <2>1 DEF TickRecv
    <2>6. p.walk = {} BY Zenon, <2>2 DEF TickRecv, At, IInv, PlaceSound
    <2> HIDE DEF n
    <2>7. SubSeq(q, 1, n) \in Seq(Packet) /\ Len(SubSeq(q, 1, n)) = n
          /\ SubSeq(q, n + 1, Len(q)) \in Seq(Packet)
        <3>1. 1 \in 1 .. Len(q) + 1 /\ n \in 1 - 1 .. Len(q) /\ n + 1 \in 1 .. Len(q) + 1
              /\ Len(q) \in (n + 1) - 1 .. Len(q) /\ n - 1 + 1 = n
            BY <2>3
        <3> QED BY <3>1, SubSeqTyped
    <2>8. PICK b \in Seq(Packet) : b = SubSeq(q, 1, n) /\ b # <<>>
        <3>1. PICK b \in Seq(Packet) : b = SubSeq(q, 1, n) BY Zenon, <2>7
        <3>2. Len(b) = n /\ n # 0 /\ Len(<<>>) = 0 BY <2>3, <2>7, <3>1
        <3>3. b # <<>> BY <3>2, Zenon
        <3> QED BY <3>1, <3>3, Zenon
    <2>9. PICK f \in BOOLEAN : f = (n = Batch) BY Zenon
    <2>10. PICK o \in Int : o = p.outer + 1 BY DEF Place
    <2> DEFINE x == [p EXCEPT !.at = "dispatch", !.batch = b, !.full = f, !.outer = o]
    <2>11. x \in Place /\ x.at = "dispatch" /\ x.batch = b /\ x.walk = {}
        BY <2>6, <2>8, <2>9, <2>10, Zenon DEF Place
    <2>12. pc' = [pc EXCEPT ![r] = x] BY Zenon, <2>1, <2>2, <2>4, <2>8, <2>9, <2>10
    <2> HIDE DEF x
    <2>13. /\ pc' \in [Reactors -> Place] /\ PlaceSound'
           /\ pc'[r] = x /\ \A s \in Reactors : s # r => pc'[s].walk = pc[s].walk
        BY <2>8, <2>11, <2>12, PlaceStep, Zenon
    <2>14. \A s \in Reactors : pc'[s].walk = pc[s].walk BY <2>2, <2>6, <2>11, <2>13, Zenon
    <2>15. /\ lst' \in [Reactors -> Listener] /\ conns' \in [Conns -> Connection]
           /\ TablesSound' /\ Homed'
        BY Zenon, <2>5, <2>14, HandledNothing
    <2>16. sock' \in [Reactors -> Seq(Packet)] /\ mbox' \in [Reactors -> Seq(Command)]
        BY Zenon, <2>5, <2>7 DEF IInv, ListenerTypeOK
    <2> QED BY <2>13, <2>15, <2>16, Zenon DEF IInv, ListenerTypeOK
<1> QED BY Zenon, <1>1, <1>2

(* One datagram of the batch.                                                 *)
LEMMA NextTickDispatch ==
    ASSUME IInv, NEW r \in Reactors, TickDispatch(r)
    PROVE  IInv'
<1>1. PICK p \in Place : p = pc[r] BY Zenon DEF IInv, ListenerTypeOK
<1>2. p.at = "dispatch" /\ p.batch # <<>> /\ p.walk = {}
    BY Zenon, <1>1 DEF TickDispatch, At, IInv, PlaceSound
<1>3. PICK b \in Seq(Packet) : b = Tail(p.batch)
    <2>1. p.batch \in Seq(Packet) BY Zenon DEF Place
    <2>2. Tail(p.batch) \in Seq(Packet) BY Zenon, <1>2, <2>1, HeadTail
    <2> QED BY <2>2, Zenon
<1>4. PICK d \in Packet : d = Head(p.batch) BY <1>2 DEF Place
<1>5. PICK x : x = [p EXCEPT !.batch = b] BY Zenon
<1>6. x \in Place /\ x.at = "dispatch" /\ x.batch = b /\ x.walk = {}
    BY Zenon, <1>2, <1>5 DEF Place
<1>7. pc' = [pc EXCEPT ![r] = AfterBatch(x)] BY Zenon, <1>1, <1>3, <1>5 DEF TickDispatch
<1>8. PICK q : q = AfterBatch(x) BY Zenon
<1>9. q \in Place /\ (q.at = "dispatch" => q.batch # <<>>) /\ q.at # "walk" /\ q.walk = {}
    <2>1. CASE x.batch # <<>> BY Zenon, <1>6, <1>8, <2>1 DEF AfterBatch
    <2>2. CASE x.batch = <<>> /\ x.full /\ x.outer < DrainCap
        <3>1. q = [x EXCEPT !.at = "recv", !.full = FALSE] BY Zenon, <1>8, <2>2 DEF AfterBatch
        <3> QED BY <1>6, <3>1, Zenon DEF Place
    <2>3. CASE x.batch = <<>> /\ ~(x.full /\ x.outer < DrainCap)
        <3>1. q = [IdlePc EXCEPT !.at = "flush"] BY Zenon, <1>8, <2>3 DEF AfterBatch
        <3> QED BY Zenon, <3>1, IdleTyped DEF Place
    <2> QED BY Zenon, <2>1, <2>2, <2>3
<1>10. /\ pc' \in [Reactors -> Place] /\ PlaceSound'
       /\ pc'[r] = q /\ \A s \in Reactors : s # r => pc'[s].walk = pc[s].walk
    BY <1>7, <1>8, <1>9, PlaceStep, Zenon
<1>11. \A s \in Reactors : pc'[s].walk = pc[s].walk BY <1>1, <1>2, <1>9, <1>10, Zenon
<1>12. Handled BY <1>1, <1>4, <1>11, DispatchHandled, Zenon DEF TickDispatch
<1>13. sock' \in [Reactors -> Seq(Packet)] BY Zenon DEF IInv, ListenerTypeOK, TickDispatch
<1> QED BY <1>10, <1>12, <1>13, Zenon DEF Handled, IInv, ListenerTypeOK

(* The dirty list is detached.                                                *)
LEMMA NextFlushBegin ==
    ASSUME IInv, NEW r \in Reactors, FlushBegin(r)
    PROVE  IInv'
<1>1. PICK p \in Place : p = pc[r] BY Zenon DEF IInv, ListenerTypeOK
<1>2. PICK l \in Listener : l = lst[r] BY Zenon DEF IInv, ListenerTypeOK
<1>3. l.dirty \subseteq l.list /\ l.dirty \in SUBSET Conns
    BY Zenon, <1>2 DEF IInv, TablesSound, Sound, Listener
<1>4. PICK q : q = [p EXCEPT !.at = "walk", !.walk = l.dirty] BY Zenon
<1>5. q \in Place /\ q.at = "walk" /\ q.walk = l.dirty BY <1>3, <1>4, Zenon DEF Place
<1>6. pc' = [pc EXCEPT ![r] = q] BY Zenon, <1>1, <1>2, <1>4 DEF FlushBegin
<1>7. /\ pc' \in [Reactors -> Place] /\ PlaceSound'
      /\ pc'[r] = q /\ \A s \in Reactors : s # r => pc'[s].walk = pc[s].walk
    BY <1>5, <1>6, PlaceStep, Zenon
<1>8. PICK n : n = [l EXCEPT !.dirty = {}] BY Zenon
<1>9. /\ n \in Listener /\ n.list = l.list /\ n.map = l.map /\ n.count = l.count
      /\ n.peers = l.peers /\ n.dirty = {}
    BY Zenon, <1>8 DEF Listener
<1>10. lst' = [lst EXCEPT ![r] = n] /\ conns' = conns BY Zenon, <1>2, <1>8 DEF FlushBegin
<1>11. /\ lst' \in [Reactors -> Listener] /\ conns' \in [Conns -> Connection]
       /\ TablesSound' /\ Homed'
    BY <1>2, <1>3, <1>5, <1>7, <1>9, <1>10, SameStep, Zenon
<1>12. sock' \in [Reactors -> Seq(Packet)] /\ mbox' \in [Reactors -> Seq(Command)]
    BY Zenon DEF IInv, ListenerTypeOK, FlushBegin
<1> QED BY <1>7, <1>11, <1>12, Zenon DEF IInv, ListenerTypeOK

(* A connection that stays has its timer armed; the tables do not change.     *)
LEMMA TouchHandled ==
    ASSUME IInv, NEW r \in Reactors, NEW c \in lst[r].list, NEW k \in Connection,
           conns' = [conns EXCEPT ![c] = k], lst' = lst,
           k.st = conns[c].st, k.client = conns[c].client, k.home = conns[c].home,
           k.admit = conns[c].admit, k.peer = conns[c].peer, k.keys = conns[c].keys,
           pc'[r].walk \subseteq pc[r].walk,
           \A s \in Reactors : s # r => pc'[s].walk = pc[s].walk
    PROVE  /\ lst' \in [Reactors -> Listener] /\ conns' \in [Conns -> Connection]
           /\ TablesSound' /\ Homed'
<1>1. lst \in [Reactors -> Listener] /\ conns \in [Conns -> Connection]
    BY Zenon DEF IInv, ListenerTypeOK
<1>2. /\ lst[r] \in Listener /\ c \in Conns /\ conns[c].st = "live"
      /\ Sound(lst[r], conns, pc[r].walk, r)
    BY ListedOf, Zenon
<1>3. PICK l \in Listener : l = lst[r] BY Zenon, <1>2
<1>4. PICK K \in [Conns -> Connection] : K = conns BY Zenon, <1>1
<1>5. PICK L \in [Conns -> Connection] : L = conns' BY <1>1, ZenonT(30)
<1>6. L[c] = k /\ \A b \in Conns : b # c => L[b] = K[b] BY Zenon, <1>1, <1>2, <1>4, <1>5
<1>7. \A b \in Conns : /\ L[b].st = K[b].st /\ L[b].home = K[b].home
                       /\ L[b].keys = K[b].keys /\ L[b].client = K[b].client
                       /\ L[b].admit = K[b].admit /\ L[b].peer = K[b].peer
    BY Zenon, <1>4, <1>6
<1>8. Sound(l, L, pc'[r].walk, r)
    <2>1. l.list \subseteq Conns BY Zenon DEF Listener
    <2>2. \A b \in l.list : /\ L[b].st = K[b].st /\ L[b].home = K[b].home
                            /\ L[b].keys = K[b].keys /\ L[b].client = K[b].client
                            /\ L[b].admit = K[b].admit
        BY Zenon, <1>7, <2>1
    <2>3. Sound(l, K, pc[r].walk, r) BY Zenon, <1>2, <1>3, <1>4
    <2> QED BY <2>2, <2>3, SoundFrame, Zenon
<1>9. TablesSound'
    <2>1. \A b \in Conns : conns[b].st = "live" /\ b \notin lst[r].list => conns'[b] = conns[b]
        BY Zenon, <1>4, <1>5, <1>6
    <2> QED BY <1>1, <1>3, <1>5, <1>8, <2>1, TablesStep, Zenon
<1>10. Homed'
    <2>1. ASSUME NEW b \in Conns PROVE L[b].answered => L[b].st # "unused"
        BY Zenon, <1>2, <1>4, <1>6 DEF IInv, Homed
    <2> QED BY SMTT(30), <1>4, <1>5, <1>7, <2>1 DEF IInv, Homed
<1> QED BY Zenon, <1>1, <1>5, <1>9, <1>10

(* One connection of the detached list: reaped, or drained with its timer     *)
(* armed.                                                                     *)
LEMMA NextFlushOne ==
    ASSUME IInv, NEW r \in Reactors, FlushOne(r)
    PROVE  IInv'
<1>1. PICK p \in Place : p = pc[r] BY Zenon DEF IInv, ListenerTypeOK
<1>2. PICK c \in pc[r].walk :
        /\ At(r, "walk")
        /\ pc' = [pc EXCEPT ![r].walk = @ \ {c}]
        /\ IF conns[c].storm \/ conns[c].draining
             THEN conns' = [conns EXCEPT ![c] = Freed(c)] /\ lst' = [lst EXCEPT ![r] = Reap(@, c)]
             ELSE conns' = [conns EXCEPT ![c].timer = TRUE, ![c].answered = TRUE] /\ UNCHANGED lst
        /\ UNCHANGED <<sock, mbox>>
    BY Zenon DEF FlushOne
<1>3. c \in lst[r].list BY Zenon DEF IInv, TablesSound, Sound
<1>4. PICK q : q = [p EXCEPT !.walk = p.walk \ {c}] BY Zenon
<1>5. q \in Place /\ q.at = "walk" /\ q.walk = p.walk \ {c} BY Zenon, <1>1, <1>2, <1>4 DEF Place, At
<1>6. pc' = [pc EXCEPT ![r] = q] BY Zenon, <1>1, <1>2, <1>4
<1>7. /\ pc' \in [Reactors -> Place] /\ PlaceSound'
      /\ pc'[r] = q /\ \A s \in Reactors : s # r => pc'[s].walk = pc[s].walk
    BY <1>5, <1>6, PlaceStep, Zenon
<1>8. /\ lst' \in [Reactors -> Listener] /\ conns' \in [Conns -> Connection]
      /\ TablesSound' /\ Homed'
    <2>1. CASE conns[c].storm \/ conns[c].draining
        BY Zenon, <1>1, <1>2, <1>3, <1>5, <1>7, <2>1, ReapHandled
    <2>2. CASE ~(conns[c].storm \/ conns[c].draining)
        <3>1. c \in Conns /\ conns[c] \in Connection BY Zenon, <1>3, ListedOf
        <3>2. PICK j \in Connection : j = conns[c] BY Zenon, <3>1
        <3>3. PICK k : k = [j EXCEPT !.timer = TRUE, !.answered = TRUE] BY Zenon
        <3>4. /\ k \in Connection /\ k.st = j.st /\ k.client = j.client /\ k.home = j.home
              /\ k.admit = j.admit /\ k.peer = j.peer /\ k.keys = j.keys
            BY <3>3, Zenon DEF Connection
        <3>5. conns' = [conns EXCEPT ![c] = k] /\ lst' = lst
            BY <1>2, <2>2, <3>1, <3>2, <3>3, Zenon DEF IInv, ListenerTypeOK
        <3>6. pc'[r].walk \subseteq pc[r].walk BY Zenon, <1>1, <1>5, <1>7
        <3> QED BY <1>3, <1>7, <3>2, <3>4, <3>5, <3>6, TouchHandled, Zenon
    <2> QED BY Zenon, <2>1, <2>2
<1>9. sock' \in [Reactors -> Seq(Packet)] /\ mbox' \in [Reactors -> Seq(Command)]
    BY Zenon, <1>2 DEF IInv, ListenerTypeOK
<1> QED BY <1>7, <1>8, <1>9, Zenon DEF IInv, ListenerTypeOK

(* The end of the flush.                                                      *)
LEMMA NextFlushEnd ==
    ASSUME IInv, NEW r \in Reactors, FlushEnd(r)
    PROVE  IInv'
BY RestStep, Zenon DEF FlushEnd

(* The timers of a connection fire on its reactor's idle thread.              *)
LEMMA NextTimer ==
    ASSUME IInv, NEW c \in Conns, Timer(c)
    PROVE  IInv'
<1> DEFINE r == conns[c].home
<1>1. conns[c].st = "live" /\ At(r, "idle") /\ UNCHANGED <<sock, mbox, pc>>
    BY Zenon DEF Timer, TimerProbe, TimerExpires, Live
<1>2. r \in Reactors /\ c \in lst[r].list BY Zenon, <1>1 DEF IInv, Homed
<1> HIDE DEF r
<1>3. pc[r].walk = {} BY Zenon, <1>1, <1>2 DEF IInv, PlaceSound, At
<1>4. /\ lst' \in [Reactors -> Listener] /\ conns' \in [Conns -> Connection]
      /\ TablesSound' /\ Homed'
    <2>1. CASE conns' = [conns EXCEPT ![c] = Freed(c)] /\ lst' = [lst EXCEPT ![r] = Reap(@, c)]
        <3>1. pc'[r].walk = pc[r].walk \ {c} BY Zenon, <1>1, <1>3
        <3> QED BY <1>1, <1>2, <2>1, <3>1, ReapHandled, Zenon
    <2>2. CASE conns' = [conns EXCEPT ![c] = [@ EXCEPT
                             !.probes = conns[c].probes + 1, !.timer = TRUE, !.answered = TRUE]]
               /\ lst' = lst
        <3>1. PICK j \in Connection : j = conns[c] BY Zenon DEF IInv, ListenerTypeOK
        <3>2. PICK i \in Int : i = j.probes + 1 BY DEF Connection
        <3>3. PICK k : k = [j EXCEPT !.probes = i, !.timer = TRUE, !.answered = TRUE] BY Zenon
        <3>4. /\ k \in Connection /\ k.st = j.st /\ k.client = j.client /\ k.home = j.home
              /\ k.admit = j.admit /\ k.peer = j.peer /\ k.keys = j.keys
            BY <3>3, Zenon DEF Connection
        <3>5. conns' = [conns EXCEPT ![c] = k] /\ lst' = lst BY Zenon, <2>2, <3>1, <3>2, <3>3
        <3> QED BY <1>1, <1>2, <3>1, <3>4, <3>5, TouchHandled, Zenon
    <2> QED BY Zenon, <2>1, <2>2 DEF Timer, TimerProbe, TimerExpires, r
<1>5. sock' \in [Reactors -> Seq(Packet)] /\ mbox' \in [Reactors -> Seq(Command)]
      /\ pc' \in [Reactors -> Place] /\ PlaceSound'
    BY Zenon, <1>1 DEF IInv, ListenerTypeOK, PlaceSound
<1> QED BY <1>4, <1>5, Zenon DEF IInv, ListenerTypeOK

(* The mailbox is taken as a batch.                                           *)
LEMMA NextDrainBegin ==
    ASSUME IInv, NEW r \in Reactors, DrainBegin(r)
    PROVE  IInv'
<1>1. PICK p \in Place : p = pc[r] BY Zenon DEF IInv, ListenerTypeOK
<1>2. PICK m \in Seq(Command) : m = mbox[r] BY Zenon DEF IInv, ListenerTypeOK
<1>3. p.walk = {} BY Zenon, <1>1 DEF DrainBegin, At, IInv, PlaceSound
<1>4. PICK q : q = [p EXCEPT !.at = "drain", !.cmds = m] BY Zenon
<1>5. q \in Place /\ q.at = "drain" /\ q.walk = {} BY <1>3, <1>4, Zenon DEF Place
<1>6. pc' = [pc EXCEPT ![r] = q] BY Zenon, <1>1, <1>2, <1>4 DEF DrainBegin
<1>7. /\ pc' \in [Reactors -> Place] /\ PlaceSound'
      /\ pc'[r] = q /\ \A s \in Reactors : s # r => pc'[s].walk = pc[s].walk
    BY <1>5, <1>6, PlaceStep, Zenon
<1>8. \A s \in Reactors : pc'[s].walk = pc[s].walk BY <1>1, <1>3, <1>5, <1>7, Zenon
<1>9. /\ lst' \in [Reactors -> Listener] /\ conns' \in [Conns -> Connection]
      /\ TablesSound' /\ Homed'
    BY Zenon, <1>8, HandledNothing DEF DrainBegin
<1>10. mbox' \in [Reactors -> Seq(Command)]
    <2>1. <<>> \in Seq(Command) OBVIOUS
    <2> QED BY Zenon, <2>1 DEF IInv, ListenerTypeOK, DrainBegin
<1>11. sock' \in [Reactors -> Seq(Packet)] BY Zenon DEF IInv, ListenerTypeOK, DrainBegin
<1> QED BY <1>7, <1>9, <1>10, <1>11, Zenon DEF IInv, ListenerTypeOK

(* The first command leaves the batch.                                        *)
LEMMA CommandStep ==
    ASSUME IInv, NEW r \in Reactors, pc[r].at = "drain", pc[r].cmds # <<>>, NEW f \in BOOLEAN,
           pc' = [pc EXCEPT ![r] = [pc[r] EXCEPT !.cmds = Tail(pc[r].cmds), !.steerFlush = f]]
    PROVE  /\ pc' \in [Reactors -> Place] /\ PlaceSound' /\ pc[r].walk = {} /\ pc'[r].walk = {}
           /\ \A s \in Reactors : pc'[s].walk = pc[s].walk
<1>1. PICK p \in Place : p = pc[r] BY Zenon DEF IInv, ListenerTypeOK
<1>2. p.walk = {} /\ p.at = "drain" /\ p.cmds # <<>> BY Zenon, <1>1 DEF IInv, PlaceSound
<1>3. PICK m \in Seq(Command) : m = Tail(p.cmds)
    <2>1. p.cmds \in Seq(Command) BY Zenon DEF Place
    <2>2. Tail(p.cmds) \in Seq(Command) BY Zenon, <1>2, <2>1, HeadTail
    <2> QED BY <2>2, Zenon
<1>4. PICK q : q = [p EXCEPT !.cmds = m, !.steerFlush = f] BY Zenon
<1>5. q \in Place /\ q.at = "drain" /\ q.walk = {} BY <1>2, <1>4, Zenon DEF Place
<1>6. pc' = [pc EXCEPT ![r] = q] BY Zenon, <1>1, <1>3, <1>4
<1>7. /\ pc' \in [Reactors -> Place] /\ PlaceSound'
      /\ pc'[r] = q /\ \A s \in Reactors : s # r => pc'[s].walk = pc[s].walk
    BY <1>5, <1>6, PlaceStep, Zenon
<1> QED BY Zenon, <1>1, <1>2, <1>5, <1>7

(* A forwarded datagram at its owner.                                         *)
LEMMA NextFeed ==
    ASSUME IInv, NEW r \in Reactors, Feed(r)
    PROVE  IInv'
<1>1. pc[r].at = "drain" /\ pc[r].cmds # <<>> /\ Head(pc[r].cmds).cmd = "feed" BY Zenon DEF Feed, At
<1>2. PICK p \in Place : p = pc[r] BY Zenon DEF IInv, ListenerTypeOK
<1>3. PICK d \in Packet : d = Head(pc[r].cmds).d
    <2>1. p.cmds \in Seq(Command) BY Zenon DEF Place
    <2>2. Head(p.cmds) \in Command BY Zenon, <1>1, <1>2, <2>1, HeadTail
    <2> QED BY Zenon, <1>1, <1>2, <2>2 DEF Command
<1>4. PICK f \in BOOLEAN :
        pc' = [pc EXCEPT ![r] = [pc[r] EXCEPT !.cmds = Tail(pc[r].cmds), !.steerFlush = f]]
    <2>1. CASE lst[r].published BY <2>1, Zenon DEF Feed
    <2>2. CASE ~lst[r].published
        <3>1. PICK m : m = Tail(p.cmds) BY Zenon
        <3>2. pc' = [pc EXCEPT ![r] = [p EXCEPT !.cmds = m]] BY Zenon, <1>2, <2>2, <3>1 DEF Feed
        <3>3. [p EXCEPT !.cmds = m] = [p EXCEPT !.cmds = m, !.steerFlush = p.steerFlush]
              /\ p.steerFlush \in BOOLEAN
            BY Zenon DEF Place
        <3> QED BY <1>2, <3>1, <3>2, <3>3, Zenon
    <2> QED BY <2>1, <2>2, Zenon
<1>5. /\ pc' \in [Reactors -> Place] /\ PlaceSound'
      /\ \A s \in Reactors : pc'[s].walk = pc[s].walk
    BY <1>1, <1>4, CommandStep, Zenon
<1>6. Handled
    <2>1. CASE lst[r].published
        <3>1. Dispatch(r, d) BY Zenon, <1>3, <2>1 DEF Feed
        <3> QED BY Zenon, <1>5, <3>1, DispatchHandled
    <2>2. CASE ~lst[r].published
        <3>1. UNCHANGED <<lst, conns, mbox>> BY Zenon, <2>2 DEF Feed
        <3>2. mbox' \in [Reactors -> Seq(Command)] BY Zenon, <3>1 DEF IInv, ListenerTypeOK
        <3> QED BY Zenon, <1>5, <3>1, <3>2, HandledNothing DEF Handled
    <2> QED BY Zenon, <2>1, <2>2
<1>7. sock' \in [Reactors -> Seq(Packet)] BY Zenon DEF IInv, ListenerTypeOK, Feed
<1> QED BY <1>5, <1>6, <1>7, Zenon DEF Handled, IInv, ListenerTypeOK

(* The tables of a listener that tracks nothing.                              *)
LEMMA EmptySound ==
    ASSUME NEW K, NEW r
    PROVE  NewListener \in Listener /\ NewListener.list = {} /\ Sound(NewListener, K, {}, r)
<1>1. NewListener \in Listener
    <2>1. [i \in Ips |-> 0] \in [Ips -> Int] OBVIOUS
    <2>2. PICK z \in [Ips -> Int] : z = [i \in Ips |-> 0] BY <2>1, Zenon
    <2>3. PICK m \in CidMap : m = <<>> BY EmptyMap, Zenon
    <2>4. NewListener = [closed |-> FALSE, published |-> TRUE, list |-> {}, count |-> 0, map |-> m,
                         peers |-> z, dirty |-> {}, polled |-> TRUE, pollErr |-> FALSE]
        BY Zenon, <2>2, <2>3 DEF NewListener, Ips
    <2> QED BY <2>4 DEF Listener
<1>2. /\ NewListener.list = {} /\ NewListener.count = 0 /\ NewListener.map = <<>>
      /\ NewListener.dirty = {} /\ \A i \in Ips : NewListener.peers[i] = 0
    BY Zenon DEF NewListener, Ips
<1>3. Cardinality({}) = 0 BY Zenon, FS_EmptySet
<1>4. \A i \in Ips : NewListener.peers[i] = Cardinality({c \in NewListener.list : Ip[K[c].admit] = i})
    <2> TAKE i \in Ips
    <2>1. {c \in NewListener.list : Ip[K[c].admit] = i} = {} BY Zenon, <1>2
    <2> QED BY <1>2, <1>3, <2>1, Zenon
<1>5. Sound(NewListener, K, {}, r) BY <1>2, <1>3, <1>4, EmptyMap, Zenon DEF Sound
<1> QED BY Zenon, <1>1, <1>2, <1>5

(* The teardown of a listener frees every connection it tracks.               *)
LEMMA NextDestroy ==
    ASSUME IInv, NEW r \in Reactors, Destroy(r)
    PROVE  IInv'
<1>1. pc[r].at = "drain" /\ pc[r].cmds # <<>> BY Zenon DEF Destroy, At
<1>2. /\ pc' \in [Reactors -> Place] /\ PlaceSound' /\ pc'[r].walk = {}
      /\ \A s \in Reactors : pc'[s].walk = pc[s].walk
    <2>1. FALSE \in BOOLEAN
          /\ pc' = [pc EXCEPT ![r] = [pc[r] EXCEPT !.cmds = Tail(pc[r].cmds), !.steerFlush = FALSE]]
        BY Zenon DEF Destroy
    <2> QED BY <1>1, <2>1, CommandStep, Zenon
<1>3. lst \in [Reactors -> Listener] /\ conns \in [Conns -> Connection]
    BY Zenon DEF IInv, ListenerTypeOK
<1>4. \A c \in Conns : /\ Freed(c) \in Connection /\ Freed(c).st = "freed"
                       /\ Freed(c).client = conns[c].client
    BY Zenon, <1>3, FreedOf
<1>5. conns' = [c \in Conns |-> IF c \in lst[r].list THEN Freed(c) ELSE conns[c]] BY Zenon DEF Destroy
<1>6. PICK L \in [Conns -> Connection] : L = conns' BY Zenon, <1>3, <1>4, <1>5
<1>7. \A c \in Conns : L[c] = IF c \in lst[r].list THEN Freed(c) ELSE conns[c] BY Zenon, <1>5, <1>6
<1>8. PICK e \in Listener : e = NewListener /\ e.list = {} /\ Sound(e, L, {}, r) BY Zenon, EmptySound
<1>9. PICK n : n = [e EXCEPT !.closed = TRUE, !.published = FALSE, !.polled = FALSE] BY Zenon
<1>10. /\ n \in Listener /\ n.list = e.list /\ n.map = e.map /\ n.count = e.count
       /\ n.peers = e.peers /\ n.dirty = e.dirty
    BY <1>9, ZenonT(30) DEF Listener
<1>11. Sound(n, L, {}, r)
    <2>1. n.dirty \subseteq e.list /\ {} \subseteq e.list BY Zenon, <1>8, <1>10 DEF Sound
    <2> QED BY Zenon, <1>8, <1>10, <2>1, SoundSame
<1>12. lst' = [lst EXCEPT ![r] = n] BY Zenon, <1>8, <1>9 DEF Destroy
<1>13. lst' \in [Reactors -> Listener] /\ lst'[r] = n /\ \A s \in Reactors : s # r => lst'[s] = lst[s]
    BY Zenon, <1>3, <1>10, <1>12
<1>14. TablesSound'
    <2>1. \A b \in Conns : conns[b].st = "live" /\ b \notin lst[r].list => conns'[b] = conns[b]
        BY Zenon, <1>6, <1>7
    <2> QED BY <1>2, <1>6, <1>11, <1>13, <2>1, TablesStep, Zenon
<1>15. Homed'
    <2>1. ASSUME NEW b \in Conns
          PROVE  /\ L[b].st = "live" => /\ L[b].home \in Reactors
                                        /\ b \in lst'[L[b].home].list /\ L[b].peer \in Addrs
                 /\ L[b].st # "unused" => L[b].client \in Clients
                 /\ L[b].answered => L[b].st # "unused"
        <3>1. CASE b \in lst[r].list
            <4>1. conns[b].client \in Clients BY Zenon, <3>1, ListedOf
            <4>2. L[b].st = "freed" /\ L[b].client = conns[b].client BY <1>4, <1>7, <3>1
            <4> QED BY Zenon, <4>1, <4>2
        <3>2. CASE b \notin lst[r].list
            <4>1. L[b] = conns[b] BY Zenon, <1>7, <3>2
            <4> QED BY Zenon, <1>13, <3>2, <4>1 DEF IInv, Homed
        <3> QED BY Zenon, <3>1, <3>2
    <2> QED BY Zenon, <1>6, <2>1 DEF Homed
<1>16. sock' \in [Reactors -> Seq(Packet)] /\ mbox' \in [Reactors -> Seq(Command)]
    <2>1. <<>> \in Seq(Packet) OBVIOUS
    <2> QED BY Zenon, <2>1 DEF IInv, ListenerTypeOK, Destroy
<1> QED BY <1>2, <1>6, <1>13, <1>14, <1>15, <1>16, Zenon DEF IInv, ListenerTypeOK

(* The end of a batch of commands.                                            *)
LEMMA NextEpilogue ==
    ASSUME IInv, NEW r \in Reactors, Epilogue(r)
    PROVE  IInv'
<1>1. PICK q : q = [IdlePc EXCEPT !.at = IF pc[r].steerFlush THEN "flush" ELSE "idle"] BY Zenon
<1>2. q \in Place /\ q.at \in {"flush", "idle"} /\ q.walk = {}
    <2>1. PICK a \in {"flush", "idle"} : a = IF pc[r].steerFlush THEN "flush" ELSE "idle" BY Zenon
    <2> QED BY <1>1, <2>1, IdleTyped, Zenon DEF Place
<1>3. pc[r].walk = {} BY Zenon DEF Epilogue, At, IInv, PlaceSound
<1>4. /\ pc' \in [Reactors -> Place] /\ PlaceSound'
      /\ pc'[r] = q /\ \A s \in Reactors : s # r => pc'[s].walk = pc[s].walk
    <2>1. pc' = [pc EXCEPT ![r] = q] BY Zenon, <1>1 DEF Epilogue
    <2>2. q.at # "dispatch" BY Zenon, <1>2
    <2> QED BY <1>2, <2>1, <2>2, PlaceStep, Zenon
<1>5. \A s \in Reactors : pc'[s].walk = pc[s].walk BY <1>2, <1>3, <1>4, Zenon
<1>6. /\ lst' \in [Reactors -> Listener] /\ conns' \in [Conns -> Connection]
      /\ TablesSound' /\ Homed'
    BY Zenon, <1>5, HandledNothing DEF Epilogue
<1>7. sock' \in [Reactors -> Seq(Packet)] /\ mbox' \in [Reactors -> Seq(Command)]
    BY Zenon DEF IInv, ListenerTypeOK, Epilogue
<1> QED BY <1>4, <1>6, <1>7, Zenon DEF IInv, ListenerTypeOK

(* What clients send is what the network can hold.                            *)
LEMMA OfferedTyped ==
    ASSUME IInv PROVE Offered \subseteq Packet
<1>1. ASSUME NEW k \in Clients PROVE Initials(k) \subseteq Packet
    <2>1. Start[k] \in Addrs /\ Odcid(k) \in Cids /\ RetryCid(k) \in Cids
        BY Zenon, ListenerAssumption, CidsTyped
    <2>2. Datagram("initial", Odcid(k), Start[k], "initial", k) \in Packet
        BY Zenon, <2>1 DEF Datagram, Packet
    <2>3. \A kind \in {"token", "stale"} : Datagram(kind, RetryCid(k), Start[k], "initial", k) \in Packet
        BY Zenon, <2>1 DEF Datagram, Packet
    <2> QED BY Zenon, <2>2, <2>3 DEF Initials
<1>2. ASSUME NEW c \in Conns PROVE Packets(c) \subseteq Packet
    <2>1. CASE ~conns[c].answered BY SMTT(30), <2>1 DEF Packets
    <2>2. CASE conns[c].answered
        <3>1. PICK k \in Clients : k = conns[c].client BY Zenon, <2>2 DEF IInv, Homed
        <3>2. Start[k] \in Addrs /\ Scid(c) \in Cids /\ Issued(c) \in Cids
            BY Zenon, ListenerAssumption, CidsTyped
        <3>3. Datagram("handshake", Scid(c), Start[k], "handshake", k) \in Packet
            BY Zenon, <3>2 DEF Datagram, Packet
        <3>4. \A cid \in {Scid(c), Issued(c)}, a \in Addrs, what \in {"data", "retire", "fin"} :
                Datagram("short", cid, a, what, k) \in Packet
            BY Zenon, <3>2 DEF Datagram, Packet
        <3>5. Live(c) => conns[c].peer \in Addrs BY Zenon DEF IInv, Homed, Live
        <3>6. \A d \in Packets(c) :
                \/ d = Datagram("handshake", Scid(c), Start[k], "handshake", k)
                \/ \E cid \in {Scid(c), Issued(c)}, a \in Addrs : d = Datagram("short", cid, a, "data", k)
                \/ Live(c) /\ \E what \in {"retire", "fin"} :
                                 d = Datagram("short", Scid(c), conns[c].peer, what, k)
            BY <2>2, <3>1 DEF Packets
        <3> QED BY <3>3, <3>4, <3>5, <3>6
    <2> QED BY Zenon, <2>1, <2>2
<1> QED BY Zenon, <1>1, <1>2 DEF Offered

(* A datagram reaches the socket its address hashes to.                       *)
LEMMA NextArrive ==
    ASSUME IInv, Arrive PROVE IInv'
<1>1. PICK d \in Packet : sock' = [sock EXCEPT ![Home[d.from]] = Append(sock[Home[d.from]], d)]
    BY OfferedTyped, Zenon DEF Arrive
<1>2. Home[d.from] \in Reactors BY Zenon, ListenerAssumption DEF Packet
<1>3. sock' \in [Reactors -> Seq(Packet)]
    BY <1>1, <1>2, QueuesTyped, Zenon DEF IInv, ListenerTypeOK
<1>4. UNCHANGED <<lst, conns, mbox, pc>> BY Zenon DEF Arrive
<1>5. /\ lst' \in [Reactors -> Listener] /\ conns' \in [Conns -> Connection]
      /\ TablesSound' /\ Homed'
    BY Zenon, <1>4, HandledNothing
<1>6. mbox' \in [Reactors -> Seq(Command)] /\ pc' \in [Reactors -> Place] /\ PlaceSound'
    BY Zenon, <1>4 DEF IInv, ListenerTypeOK, PlaceSound
<1> QED BY <1>3, <1>5, <1>6, Zenon DEF IInv, ListenerTypeOK

(* The teardown command is posted.                                            *)
LEMMA NextShutdown ==
    ASSUME IInv, NEW r \in Reactors, Shutdown(r) PROVE IInv'
<1>1. PICK x \in Command : x = [cmd |-> "destroy"] BY Zenon DEF Command
<1>2. mbox' = [mbox EXCEPT ![r] = Append(mbox[r], x)] BY Zenon, <1>1 DEF Shutdown
<1>3. mbox' \in [Reactors -> Seq(Command)]
    BY <1>1, <1>2, QueuesTyped, ZenonT(30) DEF IInv, ListenerTypeOK
<1>4. UNCHANGED <<lst, conns, sock, pc>> BY Zenon DEF Shutdown
<1>5. /\ lst' \in [Reactors -> Listener] /\ conns' \in [Conns -> Connection]
      /\ TablesSound' /\ Homed'
    BY Zenon, <1>4, HandledNothing
<1>6. sock' \in [Reactors -> Seq(Packet)] /\ pc' \in [Reactors -> Place] /\ PlaceSound'
    BY Zenon, <1>4 DEF IInv, ListenerTypeOK, PlaceSound
<1> QED BY <1>3, <1>5, <1>6, Zenon DEF IInv, ListenerTypeOK

(* An error takes the descriptor out of the loop.                             *)
LEMMA NextPollError ==
    ASSUME IInv, NEW r \in Reactors, PollError(r) PROVE IInv'
<1>1. PICK l \in Listener : l = lst[r] BY Zenon DEF IInv, ListenerTypeOK
<1>2. PICK n : n = [l EXCEPT !.pollErr = TRUE, !.polled = FALSE] BY Zenon
<1>3. /\ n \in Listener /\ n.list = l.list /\ n.map = l.map /\ n.count = l.count
      /\ n.peers = l.peers /\ n.dirty = l.dirty
    BY <1>2, Zenon DEF Listener
<1>4. lst' = [lst EXCEPT ![r] = n] /\ UNCHANGED <<conns, sock, mbox, pc>>
    BY Zenon, <1>1, <1>2 DEF PollError
<1>5. l.dirty \subseteq l.list /\ pc[r].walk \subseteq l.list
    BY Zenon, <1>1 DEF IInv, TablesSound, Sound
<1>6. /\ lst' \in [Reactors -> Listener] /\ conns' \in [Conns -> Connection]
      /\ TablesSound' /\ Homed'
    BY <1>1, <1>3, <1>4, <1>5, SameStep, Zenon
<1>7. /\ sock' \in [Reactors -> Seq(Packet)] /\ mbox' \in [Reactors -> Seq(Command)]
      /\ pc' \in [Reactors -> Place] /\ PlaceSound'
    BY <1>4, Zenon DEF IInv, ListenerTypeOK, PlaceSound
<1> QED BY <1>6, <1>7, Zenon DEF IInv, ListenerTypeOK

(* It holds at the start.                                                     *)
LEMMA InitIInv == Init => IInv
<1> SUFFICES ASSUME Init PROVE IInv BY Zenon
<1>1. \A r \in Reactors : NewListener \in Listener /\ Sound(NewListener, conns, {}, r)
    BY Zenon, EmptySound
<1>2. lst \in [Reactors -> Listener] BY Zenon, <1>1 DEF Init
<1>3. conns \in [Conns -> Connection] /\ \A c \in Conns : conns[c] = NoConn
    BY Zenon, NoConnTyped DEF Init
<1>4. pc \in [Reactors -> Place] /\ \A r \in Reactors : pc[r] = IdlePc BY Zenon, IdleTyped DEF Init
<1>5. sock \in [Reactors -> Seq(Packet)] /\ mbox \in [Reactors -> Seq(Command)]
    <2>1. <<>> \in Seq(Packet) /\ <<>> \in Seq(Command) OBVIOUS
    <2> QED BY Zenon, <2>1 DEF Init
<1>6. PlaceSound BY Zenon, <1>4, IdleTyped DEF PlaceSound
<1>7. TablesSound
    <2> SUFFICES ASSUME NEW r \in Reactors PROVE Sound(lst[r], conns, pc[r].walk, r)
        BY Zenon DEF TablesSound
    <2>1. lst[r] = NewListener /\ pc[r].walk = {} BY Zenon, <1>4, IdleTyped DEF Init
    <2> QED BY Zenon, <1>1, <2>1
<1>8. Homed BY Zenon, <1>3, NoConnTyped DEF Homed
<1> QED BY <1>2, <1>3, <1>4, <1>5, <1>6, <1>7, <1>8, Zenon DEF IInv, ListenerTypeOK

(* Every step keeps it.                                                       *)
LEMMA NextIInv == IInv /\ [Next]_vars => IInv'
<1> SUFFICES ASSUME IInv, [Next]_vars PROVE IInv' BY Zenon
<1>1. ASSUME NEW r \in Reactors, Tick(r) \/ Flush(r) \/ Mail(r) \/ Shutdown(r) \/ PollError(r)
      PROVE  IInv'
    <2>1. CASE Tick(r) BY Zenon, <2>1, NextTickRecv, NextTickDispatch DEF Tick
    <2>2. CASE Flush(r) BY Zenon, <2>2, NextFlushBegin, NextFlushOne, NextFlushEnd DEF Flush
    <2>3. CASE Mail(r) BY Zenon, <2>3, NextDrainBegin, NextFeed, NextDestroy, NextEpilogue DEF Mail
    <2> QED BY Zenon, <1>1, <2>1, <2>2, <2>3, NextShutdown, NextPollError
<1>2. ASSUME NEW c \in Conns, Timer(c) PROVE IInv' BY Zenon, <1>2, NextTimer
<1>3. CASE Arrive BY Zenon, <1>3, NextArrive
<1>4. CASE UNCHANGED vars
    <2>1. UNCHANGED <<lst, conns, sock, mbox, pc>> BY Zenon, <1>4 DEF vars
    <2> QED BY <2>1, Zenon DEF IInv, ListenerTypeOK, PlaceSound, TablesSound, Homed
<1> QED BY Zenon, <1>1, <1>2, <1>3, <1>4 DEF Next

------------------------------------------------------------------------------
(* The results.                                                               *)

(* The inductive invariant says what TablesExact says.                        *)
LEMMA SoundIsExact == IInv => TablesExact
<1> SUFFICES ASSUME IInv PROVE TablesExact BY Zenon
<1>1. RoutesToLive
    <2> SUFFICES ASSUME NEW r \in Reactors
                 PROVE  /\ \A cid \in DOMAIN lst[r].map :
                             LET c == lst[r].map[cid] IN
                             Live(c) /\ c \in lst[r].list /\ cid \in conns[c].keys
                        /\ \A c \in lst[r].list : Live(c) /\ conns[c].home = r
                                                  /\ conns[c].keys \subseteq DOMAIN lst[r].map
                        /\ lst[r].dirty \cup pc[r].walk \subseteq lst[r].list
                        /\ lst[r].count = Cardinality(lst[r].list)
        BY Zenon DEF RoutesToLive
    <2>1. Sound(lst[r], conns, pc[r].walk, r) BY Zenon DEF IInv, TablesSound
    <2> QED BY Zenon, <2>1 DEF Sound, Live
<1>2. PeersExact
    <2>1. ASSUME PeerBudget # 0, NEW r \in Reactors
          PROVE  \A i \in DOMAIN lst[r].peers :
                    lst[r].peers[i] = Cardinality({c \in lst[r].list : Ip[conns[c].admit] = i})
        <3>1. DOMAIN lst[r].peers = Ips BY Zenon DEF IInv, ListenerTypeOK, Listener
        <3>2. Sound(lst[r], conns, pc[r].walk, r) BY Zenon DEF IInv, TablesSound
        <3> QED BY <2>1, <3>1, <3>2, Zenon DEF Sound
    <2> QED BY Zenon, <2>1 DEF PeersExact
<1> QED BY Zenon, <1>1, <1>2 DEF TablesExact

(* A packet that is reset names a connection whose owner would be here, and   *)
(* is not.                                                                    *)
LEMMA ResetDead ==
    ASSUME IInv, NEW r \in Reactors, NEW d \in Packet, StatelessReset(r, d), NEW s \in Reactors
    PROVE  d.dcid \notin DOMAIN lst[s].map
<1> SUFFICES ASSUME d.dcid \in DOMAIN lst[s].map PROVE FALSE BY Zenon
<1>1. PICK c \in Conns : d.dcid \in {Scid(c), Issued(c)} BY Zenon DEF StatelessReset, Packet
<1>2. Sound(lst[s], conns, pc[s].walk, s) BY Zenon DEF IInv, TablesSound
<1>3. PICK b \in lst[s].list : d.dcid \in conns[b].keys BY Zenon, <1>2 DEF Sound
<1>4. d.dcid \in {Scid(b), Odcid(conns[b].client), RetryCid(conns[b].client), Issued(b)}
      /\ conns[b].home = s
    BY Zenon, <1>2, <1>3 DEF Sound, KeysOf, AcceptKeys
<1>5. b = c BY <1>1, <1>4, CidsDiffer
<1>6. Steered(d.dcid) /\ SteerDecode(d.dcid) = s BY SMTT(30), <1>1, <1>4, <1>5, CidsDiffer DEF SteerDecode
<1>7. s = r BY Zenon, <1>6 DEF StatelessReset, IsForeign
<1> QED BY Zenon, <1>7 DEF StatelessReset

(* Only dispatching a datagram resets anything.                               *)
LEMMA ResetStep ==
    IInv /\ [Next]_vars =>
        [\A cid \in resets' \ resets : \A r \in Reactors : cid \notin DOMAIN lst[r].map]_vars
<1> SUFFICES ASSUME IInv, Next
             PROVE  \A cid \in resets' \ resets : \A r \in Reactors : cid \notin DOMAIN lst[r].map
    BY Zenon
<1> DEFINE Goal == \A cid \in resets' \ resets : \A r \in Reactors : cid \notin DOMAIN lst[r].map
<1>1. ASSUME NEW r \in Reactors, NEW d \in Packet, Dispatch(r, d) PROVE Goal
    <2>1. CASE StatelessReset(r, d)
        <3>1. resets' = resets \cup {d.dcid} BY Zenon, <2>1 DEF StatelessReset
        <3>2. \A s \in Reactors : d.dcid \notin DOMAIN lst[s].map BY Zenon, <2>1, ResetDead
        <3> QED BY Zenon, <3>1, <3>2
    <2>2. CASE ~StatelessReset(r, d)
        <3>1. resets' = resets
            BY <1>1, <2>2, Zenon DEF Dispatch, ReadPacket, Steer, DropLong, SendRetry, Refuse, AcceptFails, Accept
        <3> QED BY Zenon, <3>1
    <2> QED BY Zenon, <2>1, <2>2
<1>2. ASSUME NEW r \in Reactors, TickDispatch(r) PROVE Goal
    <2>1. PICK p \in Place : p = pc[r] BY Zenon DEF IInv, ListenerTypeOK
    <2>2. p.batch \in Seq(Packet) /\ p.batch # <<>>
        BY Zenon, <1>2, <2>1 DEF TickDispatch, At, IInv, PlaceSound, Place
    <2>3. Head(p.batch) \in Packet BY Zenon, <2>2, HeadTail
    <2> QED BY Zenon, <1>1, <1>2, <2>1, <2>3 DEF TickDispatch
<1>3. ASSUME NEW r \in Reactors, Feed(r) PROVE Goal
    <2>1. PICK p \in Place : p = pc[r] BY Zenon DEF IInv, ListenerTypeOK
    <2>2. p.cmds \in Seq(Command) /\ p.cmds # <<>> /\ Head(p.cmds).cmd = "feed"
        BY Zenon, <1>3, <2>1 DEF Feed, Place
    <2>3. Head(p.cmds) \in Command BY Zenon, <2>2, HeadTail
    <2>4. Head(p.cmds).d \in Packet BY Zenon, <2>2, <2>3 DEF Command
    <2>5. CASE lst[r].published BY Zenon, <1>1, <1>3, <2>1, <2>4, <2>5 DEF Feed
    <2>6. CASE ~lst[r].published BY Zenon, <1>3, <2>6 DEF Feed
    <2> QED BY Zenon, <2>5, <2>6
<1>4. resets' = resets => Goal BY Zenon
<1>5. ASSUME NEW r \in Reactors,
             \/ TickRecv(r) \/ Flush(r) \/ Shutdown(r) \/ PollError(r)
             \/ DrainBegin(r) \/ Destroy(r) \/ Epilogue(r)
      PROVE  resets' = resets
    BY Zenon, <1>5 DEF TickRecv, Flush, FlushBegin, FlushOne, FlushEnd, Shutdown, PollError,
                DrainBegin, Destroy, Epilogue
<1>6. ASSUME NEW c \in Conns, Timer(c) PROVE resets' = resets
    BY Zenon, <1>6 DEF Timer, TimerProbe, TimerExpires
<1>7. Arrive => resets' = resets BY Zenon DEF Arrive
<1> HIDE DEF Goal
<1>8. Goal
    <2>1. ASSUME NEW r \in Reactors, Tick(r) \/ Flush(r) \/ Mail(r) \/ Shutdown(r) \/ PollError(r)
          PROVE  Goal
        <3>1. CASE TickDispatch(r) BY Zenon, <1>2, <3>1
        <3>2. CASE Feed(r) BY Zenon, <1>3, <3>2
        <3>3. CASE \/ TickRecv(r) \/ Flush(r) \/ Shutdown(r) \/ PollError(r)
                   \/ DrainBegin(r) \/ Destroy(r) \/ Epilogue(r)
            BY Zenon, <1>4, <1>5, <3>3
        <3> QED BY Zenon, <2>1, <3>1, <3>2, <3>3 DEF Tick, Mail
    <2>2. ASSUME NEW c \in Conns, Timer(c) PROVE Goal BY Zenon, <1>4, <1>6, <2>2
    <2>3. CASE Arrive BY Zenon, <1>4, <1>7, <2>3
    <2> QED BY Zenon, <2>1, <2>2, <2>3 DEF Next
<1> QED BY Zenon, <1>8 DEF Goal

(* IInv is inductive (the tables change together in http3_listener.c: track,  *)
(* rekey, reap and teardown).                                                 *)
THEOREM ListenerInductive == Spec => []IInv
BY InitIInv, NextIInv, PTL DEF Spec

(* The tables of every listener say exactly what is alive, for any number of  *)
(* reactors, clients, connections, batches and capacities.                    *)
THEOREM ListenerTablesExact == Spec => []TablesExact
BY ListenerInductive, SoundIsExact, PTL

(* No stateless reset goes out for a connection that any reactor still holds, *)
(* whatever forwarding lost on the way (http3_listener_try_steer).            *)
THEOREM ListenerResetOnlyForDead == Spec => ResetOnlyForDead
BY ListenerInductive, ResetStep, PTL DEF Spec, ResetOnlyForDead
==============================================================================
