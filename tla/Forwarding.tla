----------------------------- MODULE Forwarding -----------------------------
(***************************************************************************)
(* What the engines of a mesh do with IP packets: handle_tun_packet at the *)
(* origin, handle_compact_packet and handle_mdat_like at every receiver,   *)
(* over datagrams that are lost, duplicated and reordered.                 *)
(*                                                                         *)
(* A node's VIP and its endpoint are the node.  A route is "direct", or    *)
(* "weak" (should_relay: Degraded, or too lossy), "stale", or "none".      *)
(* PathKind::IceSrflx is left out: only tests call set_srflx.              *)
(***************************************************************************)
EXTENDS Replay, Sequences, FiniteSets, FiniteSetsExt, SequencesExt

CONSTANTS
    Nodes,         \* the VIPs, numbers
    Packets,       \* what the TUNs read: [id, src, dst]
    Loads,         \* the sets of packets that may be read in one behaviour
    Bcast,         \* the destination of a broadcast or multicast packet
    Meshes,        \* the route tables the mesh may start with
    MaxCache,      \* BroadcastDeduplicator::MAX_CACHE
    CounterLimit,  \* 2^48, where next_data_send_counter stops
    Faults,        \* what else happens, each kind at most once in a behaviour
    MaxFaults      \* how many kinds, in one behaviour

None == 0

ASSUME ForwardingAssumption ==
    /\ None \notin Nodes /\ Bcast \notin Nodes
    /\ Nodes \subseteq Nat /\ CounterLimit \in Nat /\ MaxCache \in Nat \ {0}
    /\ Meshes \subseteq [Nodes -> [Nodes -> {"none", "direct", "weak", "stale"}]]

VARIABLES
    crypto,     \* has_crypto, the same for the whole mesh
    st,         \* per node: its routing table and counters
    win,        \* per node and peer: data_replay
    net,        \* datagrams under way
    tun,        \* per node and packet: how often it was injected
    emitted,    \* per packet: the frames its origin made, -1 before it is read
    accepted,   \* history: the counters each window has committed
    load,       \* the packets of this behaviour
    mesh,       \* history: the routes at the start
    marred      \* history: the faults that have happened

vars == <<crypto, st, win, net, tun, emitted, accepted, load, mesh, marred>>

\* A handler threads [s, out, ok]: the node's state, the frames it makes and
\* whether its last send succeeded.
Begin(s) == [s |-> s, out |-> {}, ok |-> TRUE]

----------------------------------------------------------------------------
(* Deduplication and relay selection. *)

\* make_key and make_scoped_key: a hash of the packet but for its TTL and checksum,
\* and of the scope, a VIP.
Key(scope, p) == <<scope, p.id>>

Fresh(s, key) == key \notin ToSet(s.seen)

\* is_fresh and is_fresh_scoped: the oldest key makes room.
Remember(s, key) ==
    LET t == Append(s.seen, key)
    IN  [s EXCEPT !.seen = IF Len(t) > MaxCache THEN Tail(t) ELSE t]

Usable(s, h, dest, excl) == h \notin {None, dest, excl} /\ s.route[h] = "direct"

\* best_usable_peer_hop: the best quality, which is the environment's choice.
BestHop(s, dest, excl, best) ==
    LET C == {h \in Nodes : Usable(s, h, dest, excl)}
    IN  IF C = {} THEN None ELSE IF best \in C THEN best ELSE Min(C)

SelectRelay(s, dest, excl, best) ==
    IF Usable(s, s.hop[dest], dest, excl) THEN s.hop[dest] ELSE BestHop(s, dest, excl, best)

----------------------------------------------------------------------------
(* Sends.  e is what the environment decides for one handler: the best hop, *)
(* the endpoint the socket refuses, and what note_fail makes of a route.    *)

Env == [best : Nodes, down : Nodes \cup {None}, after : {"direct", "weak"}]

Frame(n, s, m, p) == [from |-> n, to |-> m, ctr |-> s.ctr[m], pkt |-> p]

\* next_data_send_counter
Exhausted(s, m) == s.ctr[m] >= CounterLimit

\* send_menc and send_menc_forward: the counter is used up even when the socket
\* refuses.  Without crypto the counter is only the identity of the frame.
Menc(n, x, m, p, e) ==
    IF crypto /\ (x.s.route[m] = "none" \/ Exhausted(x.s, m))
    THEN [x EXCEPT !.ok = FALSE]
    ELSE [s   |-> [x.s EXCEPT !.ctr[m] = @ + 1],
          out |-> IF m = e.down THEN x.out ELSE x.out \cup {Frame(n, x.s, m, p)},
          ok  |-> m # e.down]

\* send_menc_direct does the same past the pacer.
MencDirect(n, x, m, p, e) == Menc(n, x, m, p, e)

\* send_data_fallback_usable_hub, through the pacer or past it
Fallback(n, y, m, p, e) ==
    LET hub == BestHop(y.s, None, m, e.best)
    IN  IF y.ok \/ hub = None THEN y ELSE Menc(n, y, hub, p, e)

\* send_data_with_fallback and send_data_with_fallback_direct
MencOrHub(n, x, m, p, e) == Fallback(n, Menc(n, x, m, p, e), m, p, e)
DirectOrHub(n, x, m, p, e) == Fallback(n, MencDirect(n, x, m, p, e), m, p, e)

\* send_relay_hop: one alternative, which is stamped when it takes the packet
RelayHop(n, x, h, d, p, e) ==
    LET y   == Menc(n, x, h, p, e)
        f   == IF y.s.route[h] = "direct" THEN [y EXCEPT !.s.route[h] = e.after] ELSE y
        alt == SelectRelay(f.s, d, h, e.best)
        z   == Menc(n, f, alt, p, e)
    IN  IF y.ok THEN y
        ELSE IF alt = None THEN f
        ELSE IF z.ok THEN [z EXCEPT !.s.hop[d] = alt] ELSE z

SendVia(n, x, m, kind, d, p, e) ==
    IF kind = "relay" THEN RelayHop(n, x, m, d, p, e) ELSE MencOrHub(n, x, m, p, e)

Each(n, x, M, p, e, Op(_, _, _, _, _)) == FoldSet(LAMBDA m, y : Op(n, y, m, p, e), x, M)

----------------------------------------------------------------------------
(* handle_tun_packet *)

Injected(n, p) == [tun EXCEPT ![n][p] = @ + 1]

\* begin_transition: one that is under way is not started again.
BeginTransition(s, d, old) == IF s.trans[d] = "none" THEN [s EXCEPT !.trans[d] = old] ELSE s

\* A mutation: the origin does not remember its own broadcast.
FanOutUnmarked(n, s, p, e) ==
    Each(n, Begin(s), {m \in Nodes : s.route[m] \notin {"none", "stale"}}, p, e, DirectOrHub)

FanOut(n, s, p, e) ==
    IF ~Fresh(s, Key(None, p)) THEN Begin(s)
    ELSE Each(n, Begin(Remember(s, Key(None, p))),
              {m \in Nodes : s.route[m] \notin {"none", "stale"}}, p, e, DirectOrHub)

\* No route to the destination: the best hop gets it.
ToHub(n, s, p, e) ==
    LET hub == BestHop(s, None, None, e.best)
    IN  IF hub = None THEN Begin(s) ELSE MencOrHub(n, Begin(s), hub, p, e)

\* A known destination: by relay when the route is weak or stale and a hop is
\* usable; a change of kind starts a transition, in which the old kind gets a
\* copy too, addressed to the destination's endpoint.  The hold-down that
\* note_relay_fallback starts is part of how the route is scored (Rescore).
ToPeer(n, s, p, e) ==
    LET d    == p.dst
        sel  == IF s.route[d] = "direct" THEN None ELSE SelectRelay(s, d, None, e.best)
        kind == IF sel = None THEN "direct" ELSE "relay"
        old  == s.kind[d]
        s1   == IF old \notin {"none", kind} THEN BeginTransition(s, d, old) ELSE s
        also == IF old \notin {"none", kind} THEN old ELSE s.trans[d]
        x    == SendVia(n, Begin(s1), IF sel = None THEN d ELSE sel, kind, d, p, e)
        y    == IF also = "none" THEN x ELSE SendVia(n, x, d, also, d, p, e)
        z    == [y EXCEPT !.s.kind[d] = kind]
    IN  IF sel = None THEN IF s.route[d] = "stale" THEN Begin(s) ELSE z
        ELSE [z EXCEPT !.s.hop[d] = sel]

HandleTun(n, s, p, e) ==
    IF p.dst = n THEN Begin(s)
    ELSE IF p.dst = Bcast THEN FanOut(n, s, p, e)
    ELSE IF s.route[p.dst] = "none" THEN ToHub(n, s, p, e)
    ELSE ToPeer(n, s, p, e)

\* The fault of a handler whose socket refused an endpoint.
Refused(e) == IF e.down = None THEN {} ELSE {"refused"}

May(kinds) ==
    kinds # {} => /\ kinds \subseteq Faults \ marred
                  /\ Cardinality((marred \cap Faults) \cup kinds) <= MaxFaults

\* A key that had to make room for another one.
Forgot(s, t) == IF ToSet(s.seen) \subseteq ToSet(t.seen) THEN {} ELSE {"forgot"}

FromTun(n, p, e) ==
    /\ p.src = n /\ emitted[p] = -1 /\ May(Refused(e))
    /\ \E x \in {HandleTun(n, st[n], p, e)} :
        /\ st' = [st EXCEPT ![n] = x.s]
        /\ net' = net \cup x.out
        /\ emitted' = [emitted EXCEPT ![p] = Cardinality(x.out)]
        /\ marred' = marred \cup Refused(e) \cup Forgot(st[n], x.s)
    /\ tun' = IF p.dst = n THEN Injected(n, p) ELSE tun
    /\ UNCHANGED <<crypto, win, accepted, load, mesh>>

----------------------------------------------------------------------------
(* handle_compact_packet: Encrypted, or Data without crypto *)

\* touch_routing_endpoint; a promoted route is as good as its score says
Touched(s, m, e) == IF s.route[m] = "stale" THEN [s EXCEPT !.route[m] = e.after] ELSE s

\* The peers a broadcast is passed on to, and the hop that gets a copy for the
\* ones that would need a relay.
PassOn(s, m, e) ==
    LET others == {k \in Nodes \ {m} : s.route[k] # "none"}
        direct == {k \in others : s.route[k] = "direct"}
        hub    == IF direct = others THEN None ELSE BestHop(s, None, m, e.best)
    IN  (direct \ {hub}) \cup ({hub} \ {None, m})

\* A mutation: a packet is passed on only over a route without trouble.
OnwardDirect(n, s, m, p, e) ==
    IF p.dst = Bcast THEN PassOn(s, m, e)
    ELSE IF p.dst = n \/ s.route[m] # "direct" \/ s.route[p.dst] # "direct" THEN {}
    ELSE {p.dst} \ {m}

\* handle_mdat_like once the packet is known to be new: who gets it next
Onward(n, s, m, p, e) ==
    IF p.dst = Bcast THEN PassOn(s, m, e)
    ELSE IF p.dst = n \/ s.route[m] = "none" \/ s.route[p.dst] = "none" THEN {}
    ELSE {p.dst} \ {m}

\* [s, out, tun]: the state, the frames, and whether the TUN gets the packet
HandleMdat(n, s0, m, p, e) ==
    LET s   == Touched(s0, m, e)
        dup == s.trans[m] # "none" /\ ~Fresh(s, Key(m, p))
        s1  == IF s.trans[m] # "none" THEN Remember(s, Key(m, p)) ELSE s
        old == p.dst = Bcast /\ ~Fresh(s1, Key(None, p))
        s2  == IF p.dst = Bcast THEN Remember(s1, Key(None, p)) ELSE s1
        x   == Each(n, Begin(s2), Onward(n, s2, m, p, e), p, e, Menc)
    IN  IF dup THEN [s |-> s, out |-> {}, tun |-> FALSE]
        ELSE IF old THEN [s |-> s1, out |-> {}, tun |-> FALSE]
        ELSE [s |-> x.s, out |-> x.out, tun |-> p.dst \in {Bcast, n}]

\* The crypto gate: a known endpoint and an allowed counter.
Admitted(n, f) ==
    crypto => st[n].route[f.from] # "none" /\ Allows(win[n][f.from], f.ctr)

\* A frame so late that the window has passed it by.
Late(n, f) == IF \E a \in accepted[n][f.from] : a - f.ctr >= Window THEN {"late"} ELSE {}

\* A datagram arrives; kept = {"doubled"}, it will arrive again.
Receive(n, f, kept, e) ==
    /\ f.to = n /\ May(Refused(e) \cup kept)
    /\ f.ctr \in Nat   \* decode_wire_counter
    /\ \E left \in {IF kept = {} THEN net \ {f} ELSE net} :
        IF Admitted(n, f)
        THEN \E x \in {HandleMdat(n, st[n], f.from, f.pkt, e)} :
               /\ st' = [st EXCEPT ![n] = x.s]
               /\ tun' = IF x.tun THEN Injected(n, f.pkt) ELSE tun
               /\ net' = left \cup x.out
               /\ marred' = marred \cup Refused(e) \cup kept \cup Forgot(st[n], x.s)
        ELSE net' = left /\ marred' = marred \cup kept \cup Late(n, f) /\ UNCHANGED <<st, tun>>
    /\ IF crypto /\ Admitted(n, f)
       THEN /\ win' = [win EXCEPT ![n][f.from] = Commit(@, f.ctr)]
            /\ accepted' = [accepted EXCEPT ![n][f.from] = @ \cup {f.ctr}]
       ELSE UNCHANGED <<win, accepted>>
    /\ UNCHANGED <<crypto, emitted, load, mesh>>

----------------------------------------------------------------------------
(* Time, and what the rest of the engine does to this state *)

\* evict: the oldest key is TTL old.
Expire(n) ==
    /\ May({"forgot"}) /\ st[n].seen # <<>>
    /\ st' = [st EXCEPT ![n].seen = Tail(@)]
    /\ marred' = marred \cup {"forgot"}
    /\ UNCHANGED <<crypto, win, net, tun, emitted, accepted, load, mesh>>

\* 600 ms after begin_transition
EndTransition(n, m) ==
    /\ st[n].trans[m] # "none"
    /\ st' = [st EXCEPT ![n].trans[m] = "none"]
    /\ UNCHANGED <<crypto, win, net, tun, emitted, accepted, load, mesh, marred>>

\* Probes, aging and pongs move a route between the states that matter here.
Rescore(n, m, r) ==
    /\ May({"rescored"}) /\ st[n].route[m] \notin {"none", r}
    /\ st' = [st EXCEPT ![n].route[m] = r]
    /\ marred' = marred \cup {"rescored"}
    /\ UNCHANGED <<crypto, win, net, tun, emitted, accepted, load, mesh>>

Learn(n, m) ==
    /\ May({"learned"}) /\ n # m /\ st[n].route[m] = "none"
    /\ st' = [st EXCEPT ![n].route[m] = "direct"]
    /\ marred' = marred \cup {"learned"}
    /\ UNCHANGED <<crypto, win, net, tun, emitted, accepted, load, mesh>>

NoRoutes == [m \in Nodes |-> "none"]

\* The entry goes, and on_peer_route_removed clears what is kept beside it.
RouteRemoved(n, m) ==
    /\ May({"removed"}) /\ st[n].route[m] # "none"
    /\ st' = [st EXCEPT ![n].route[m] = "none", ![n].hop[m] = None, ![n].kind[m] = "none",
                        ![n].trans[m] = "none", ![n].ctr[m] = 0]
    /\ win' = [win EXCEPT ![n][m] = NewWindow]
    /\ accepted' = [accepted EXCEPT ![n][m] = {}]
    /\ marred' = marred \cup {"removed"}
    /\ UNCHANGED <<crypto, net, tun, emitted, load, mesh>>

Idle(routes) == [route |-> routes, hop |-> [m \in Nodes |-> None], kind |-> NoRoutes,
                 trans |-> NoRoutes, ctr |-> [m \in Nodes |-> 0], seen |-> <<>>]

\* reset_session_state
Reset(n) ==
    /\ May({"reset"})
    /\ st' = [st EXCEPT ![n] = Idle(NoRoutes)]
    /\ win' = [win EXCEPT ![n] = [m \in Nodes |-> NewWindow]]
    /\ accepted' = [accepted EXCEPT ![n] = [m \in Nodes |-> {}]]
    /\ marred' = marred \cup {"reset"}
    /\ UNCHANGED <<crypto, net, tun, emitted, load, mesh>>

Lose(f) ==
    /\ May({"lost"})
    /\ net' = net \ {f}
    /\ marred' = marred \cup {"lost"}
    /\ UNCHANGED <<crypto, st, win, tun, emitted, accepted, load, mesh>>

----------------------------------------------------------------------------
Init ==
    /\ crypto \in BOOLEAN
    /\ mesh \in Meshes
    /\ load \in Loads
    /\ st = [n \in Nodes |-> Idle(mesh[n])]
    /\ win = [n \in Nodes |-> [m \in Nodes |-> NewWindow]]
    /\ accepted = [n \in Nodes |-> [m \in Nodes |-> {}]]
    /\ net = {}
    /\ tun = [n \in Nodes |-> [p \in Packets |-> 0]]
    /\ emitted = [p \in Packets |-> -1]
    /\ marred = {}

Next ==
    \/ \E p \in load, e \in Env : FromTun(p.src, p, e)
    \/ \E f \in net, kept \in {{}, {"doubled"}}, e \in Env : Receive(f.to, f, kept, e)
    \/ \E f \in net : Lose(f)
    \/ \E n \in Nodes : Expire(n) \/ Reset(n)
    \/ \E n, m \in Nodes : EndTransition(n, m) \/ Learn(n, m) \/ RouteRemoved(n, m)
    \/ \E n, m \in Nodes, r \in {"direct", "weak", "stale"} : Rescore(n, m, r)

Spec == Init /\ [][Next]_vars

----------------------------------------------------------------------------
(* Properties *)

\* The replay windows are exact: each stands for the counters its peer's frames
\* were accepted with since the route was learned, so that it admits a counter
\* iff it is new and within the window (DataReplayWindow, handle_compact_packet).
ReplayExact == \A n, m \in Nodes : Remembers(win[n][m], accepted[n][m])

\* Nothing is delivered where or as often as it should not be.  A broadcast is
\* injected at most once at a node and never at its origin, whatever the datagrams
\* do, unless the deduplicator has let the key go.  A unicast packet is injected at
\* its destination only; under encryption at most once for each frame its origin
\* made, even when datagrams are doubled, as long as the windows are kept
\* (handle_mdat_like, BroadcastDeduplicator).
NoEcho ==
    \A p \in Packets, n \in Nodes :
        IF p.dst = Bcast
        THEN marred \cap {"forgot", "reset"} = {} => tun[n][p] <= IF n = p.src THEN 0 ELSE 1
        ELSE /\ n # p.dst => tun[n][p] = 0
             /\ (crypto \/ "doubled" \notin marred) /\ marred \cap {"removed", "reset"} = {}
                    => tun[n][p] <= IF p.dst = p.src THEN 1 ELSE Max({emitted[p], 0})

\* Who hears whom: under encryption a receiver drops what comes from a stranger.
Hears(m, k) == crypto => mesh[m][k] # "none"

\* The nodes a flood from n reaches: n sends to everyone it does not hold stale,
\* a receiver passes on to the peers it sends to directly.
FirstHeard(n) == {m \in Nodes : mesh[n][m] \in {"direct", "weak"} /\ Hears(m, n)}
Heard(S) == S \cup {m \in Nodes : \E k \in S : mesh[k][m] = "direct" /\ Hears(m, k)}
FloodSet(n) == FoldSet(LAMBDA k, S : Heard(S), FirstHeard(n), Nodes)

\* Packets arrive: when nothing was lost, forgotten or changed and the network is
\* empty, a broadcast has been injected at every node its flood reaches, and a
\* unicast packet at its destination if the origin sends directly, or if the mesh is
\* complete (so that any hop it picks can pass it on) and the origin has a hop or
\* does not hold the route stale (handle_tun_packet, handle_mdat_like).
Arrives ==
    net = {} /\ marred = {} /\ (\A n, m \in Nodes : st[n].ctr[m] < CounterLimit) =>
        \A p \in Packets : emitted[p] >= 0 =>
            IF p.dst = Bcast
            THEN \A n \in FloodSet(p.src) \ {p.src} : tun[n][p] >= 1
            ELSE \/ mesh[p.src][p.dst] = "direct" /\ Hears(p.dst, p.src)
                 \/ /\ \A n, m \in Nodes : n # m => mesh[n][m] # "none"
                    /\ \/ mesh[p.src][p.dst] # "stale"
                       \/ \E h \in Nodes \ {p.dst} : mesh[p.src][h] = "direct"
                 => tun[p.dst][p] >= 1
=============================================================================
