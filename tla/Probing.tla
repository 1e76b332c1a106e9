------------------------------- MODULE Probing -------------------------------
(***************************************************************************)
(* How one node notices that a path to a peer has failed and looks for     *)
(* another (net/engine.rs): the pings it awaits (the user's, the periodic  *)
(* probes and the heal pings), the watchdog that expires them, the streaks *)
(* of missed probes and of failures, predictive heal with its cooldown,    *)
(* and the failures of the reliable channel.                               *)
(*                                                                         *)
(* The engine is one task: a handler runs to its end.  An answer may come  *)
(* at any time while it is awaited, or never; a later or repeated one      *)
(* matches nothing.  Deadlines and the cooldown pass at any time.          *)
(***************************************************************************)
EXTENDS Reliable

CONSTANTS
    Vips, Endpoints,
    Paths,          \* the endpoints in the PathSet of each VIP
    Copies,         \* bound: pings of one kind to one endpoint awaited at a time
    MaxLoad,        \* bound: pings and packets awaited when another is sent (a heal aside)
    MissThreshold,  \* probe_miss_fail_threshold
    HealStreak,     \* failures in a row after which a route needs healing: 3
    StaleStreak,    \* ... and after which it is stale: 6
    MaxHealProbes   \* max_pending_heal_probes

VARIABLES
    e,     \* the engine: pings, heal (pending_heal_vips), cool, miss, route
    chan   \* its reliable channel

vars == <<e, chan>>

NoVip == "none"

Route(ep) == [up |-> TRUE, ep |-> ep, streak |-> 0]

Init ==
    /\ \E primary \in [Vips -> Endpoints] :
         /\ \A v \in Vips : primary[v] \in Paths[v]
         /\ e = [pings |-> {}, heal |-> {}, cool |-> {},
                 miss |-> [ep \in Endpoints |-> 0],
                 route |-> [v \in Vips |-> Route(primary[v])]]
    /\ chan = EmptyChannel

\* An awaited ping.  Its id is a random number no other has (allocate_ping_id); here n
\* tells it from the others of its kind to the same endpoint.
Pings == [kind : {"user"}, dest : Endpoints, vip : {NoVip}, n : {1}]
         \cup [kind : {"probe"}, dest : Endpoints, vip : {NoVip}, n : Copies]
         \cup [kind : {"heal"}, dest : Endpoints, vip : Vips, n : Copies]

OfKind(x, kind) == {p \in x.pings : p.kind = kind}
HealPings(x, v) == {p \in OfKind(x, "heal") : p.vip = v}

NewPing(x, dest, kind, v) ==
    CHOOSE p \in Pings \ x.pings : p.kind = kind /\ p.dest = dest /\ p.vip = v

AddPings(x, dests, kind, v) ==
    [x EXCEPT !.pings = @ \cup {NewPing(x, d, kind, v) : d \in dests}]

Drop(x, gone) == [x EXCEPT !.pings = @ \ gone]

----------------------------------------------------------------------------
(* Failures and healing *)

Routed(x, ep) == {v \in Vips : x.route[v].up /\ ep \in Paths[v]}

\* RoutingTable::note_fail of each of the endpoints; the streak is counted up to StaleStreak.
NoteFails(x, eps) ==
    LET streak(v) == x.route[v].streak + Cardinality({ep \in eps : v \in Routed(x, ep)})
    IN  [x EXCEPT !.route = [v \in Vips |->
            [@[v] EXCEPT !.streak = IF streak(v) > StaleStreak THEN StaleStreak ELSE streak(v)]]]

NeedHeal(x, eps) ==
    {v \in Vips : x.route[v].streak >= HealStreak /\ \E ep \in eps : v \in Routed(x, ep)}

\* spawn_predictive_heal: what it leaves, for each set of endpoints the socket sends to
SpawnHeal(x, v) ==
    IF \/ v \in x.cool \cup x.heal \/ ~x.route[v].up
       \/ Cardinality(OfKind(x, "heal")) >= MaxHealProbes
    THEN {x}
    ELSE {IF sent = {} THEN [x EXCEPT !.cool = @ \cup {v}]
          ELSE [AddPings(x, sent, "heal", v) EXCEPT !.heal = @ \cup {v}] : sent \in SUBSET Paths[v]}

\* ... for each of the VIPs, in any order
RECURSIVE SpawnAll(_, _)
SpawnAll(x, vips) ==
    IF vips = {} THEN {x}
    ELSE UNION {UNION {SpawnAll(y, vips \ {v}) : y \in SpawnHeal(x, v)} : v \in vips}

\* note_fail, then heal at once
FailAndHeal(x, ep) ==
    LET y == NoteFails(x, {ep}) IN SpawnAll(y, NeedHeal(y, {ep}))

\* ... for the destination of each packet that failed
RECURSIVE FailEach(_, _, _)
FailEach(X, ch, failed) ==
    IF failed = {} THEN X
    ELSE UNION {FailEach(UNION {FailAndHeal(x, ch.pending[q].dest) : x \in X}, ch, failed \ {q})
                  : q \in failed}

\* handle_heal_success: the first answer leaves the VIP pending while others are awaited.
HealSuccess(x, v) ==
    IF v \notin x.heal THEN x
    ELSE [x EXCEPT !.heal = IF HealPings(x, v) = {} THEN @ \ {v} ELSE @, !.cool = @ \ {v}]

\* record_probe_miss for each of the missed probes to ep, up to the threshold
Missed(x, gone, ep) ==
    LET n == x.miss[ep] + Cardinality({p \in gone : p.kind = "probe" /\ p.dest = ep})
    IN  IF n > MissThreshold THEN MissThreshold ELSE n

\* The heals whose last ping is among the expired
Ended(x, gone) == {v \in Vips : HealPings(x, v) # {} /\ HealPings(x, v) \subseteq gone}

Expire(x, gone) ==
    [Drop(x, gone) EXCEPT
        !.heal = @ \ Ended(x, gone), !.cool = @ \cup Ended(x, gone),
        !.miss = [ep \in Endpoints |-> Missed(x, gone, ep)]]

\* Endpoints with a missed probe at or above the threshold fail once in a sweep.
FailEps(x, gone) ==
    {ep \in Endpoints : /\ \E p \in gone : p.kind = "probe" /\ p.dest = ep
                        /\ Missed(x, gone, ep) >= MissThreshold}

----------------------------------------------------------------------------
(* The engine's handlers *)

\* ping_watchdog_interval: expire_pending_pings of the pings that are past their deadline,
\* then the heals it asks for
Watchdog(gone) ==
    /\ UNCHANGED chan
    /\ \E eps \in {FailEps(e, gone)} : \E x \in {NoteFails(Expire(e, gone), eps)} :
         e' \in SpawnAll(x, NeedHeal(x, eps))

Load == Cardinality(e.pings) + Cardinality(Waiting(chan))

\* send_cc_probes and send_ping_all: the primary endpoints that are not stale
Probe ==
    /\ \E dests \in SUBSET {e.route[v].ep : v \in {u \in Vips :
                               e.route[u].up /\ e.route[u].streak < StaleStreak}} :
         /\ dests # {} /\ Load + Cardinality(dests) <= MaxLoad
         /\ e' = AddPings(e, dests, "probe", NoVip)
    /\ UNCHANGED chan

\* EngineCmd::PingPeer
PingPeer ==
    /\ Load < MaxLoad /\ OfKind(e, "user") = {}
    /\ \E v \in Vips : e.route[v].up /\ e' = AddPings(e, {e.route[v].ep}, "user", NoVip)
    /\ UNCHANGED chan

\* An RTT sample: note_rtt shortens the streak when from is the active path.
NoteRtt(x, from, active) ==
    [x EXCEPT !.route = [v \in Vips |->
        IF active /\ v \in Routed(x, from) /\ @[v].streak > 0 THEN [@[v] EXCEPT !.streak = @ - 1]
        ELSE @[v]]]

\* handle_pong_body: from the ping's destination; for the user's ping, from its host
Pong(p) ==
    /\ \E from \in Endpoints, active \in BOOLEAN :
         /\ from = p.dest \/ (p.kind = "user" /\ Host[from] = Host[p.dest])
         /\ \E x \in {NoteRtt([Drop(e, {p}) EXCEPT !.miss[from] = 0], from, active)} :
              e' = IF p.kind = "heal" THEN HealSuccess(x, p.vip) ELSE x
    /\ UNCHANGED chan

CooldownOver(v) == v \in e.cool /\ e' = [e EXCEPT !.cool = @ \ {v}] /\ UNCHANGED chan

\* A join request is answered without a key: the JoinAck goes through the channel.
\* Its sequence number is one that no packet and no entry of the heap has.
FreshSeqs == Seqs \ (Waiting(chan) \cup {h[2] : h \in chan.heap})

JoinAckOut ==
    /\ ~Full(chan) /\ Load < MaxLoad /\ FreshSeqs # {}
    /\ \E q \in {CHOOSE s \in FreshSeqs : TRUE}, dest \in Endpoints, rto \in Rtos :
         \E ch \in {Send(chan, q, dest, rto)} :
           \/ chan' = ch
           \/ \E late \in 0..1 : chan' = MarkSent(ch, q, late)
    /\ UNCHANGED e

Ack ==
    /\ \E q \in Waiting(chan), from \in Endpoints : chan' = OnAck(chan, q, from)
    /\ UNCHANGED e

\* PacingEvent::TickDone: the socket's last failed destination, then tick_into
Tick ==
    \E ch \in {TickBase(Later(chan))} : \E due \in {DueNow(ch)} :
        /\ TickInto(ch, due, chan')
        /\ \/ e' \in FailEach({e}, ch, Failures(ch, due))
           \/ \E dead \in Endpoints : e' \in FailEach(FailAndHeal(e, dead), ch, Failures(ch, due))

\* apply_route_endpoint_change_side_effects, after an update of the route
RouteMoves(v) ==
    \E ep \in Paths[v] \ {e.route[v].ep} :
        /\ e.route[v].up
        /\ e' = [e EXCEPT !.route[v].ep = ep]
        /\ chan' = MigrateDest(chan, e.route[v].ep, ep)

\* on_peer_route_removed, when a VIP conflict is settled or the subnet changes
Removed(x, v) ==
    [x EXCEPT !.route[v].up = FALSE, !.route[v].streak = 0, !.heal = @ \ {v}, !.cool = @ \ {v}]

RouteGone(v) ==
    /\ e.route[v].up
    /\ \/ e' = Removed(e, v) /\ UNCHANGED chan
       \* a leave, or the sweep of the stale routes
       \/ /\ e' = [Removed(e, v) EXCEPT !.miss[e.route[v].ep] = 0]
          /\ chan' = FlushDest(chan, e.route[v].ep)

RouteBack(v) ==
    /\ ~e.route[v].up
    /\ \E ep \in Paths[v] : e' = [e EXCEPT !.route[v] = Route(ep)]
    /\ UNCHANGED chan

\* reset_session_state
Reset ==
    /\ e' = [e EXCEPT !.pings = {}, !.heal = {}, !.cool = {},
                      !.miss = [ep \in Endpoints |-> 0],
                      !.route = [v \in Vips |-> [@[v] EXCEPT !.up = FALSE, !.streak = 0]]]
    /\ chan' = EmptyChannel

Next == \/ Probe \/ PingPeer \/ JoinAckOut \/ Ack \/ Tick \/ Reset
        \/ \E p \in e.pings : Pong(p)
        \/ \E gone \in SUBSET e.pings : gone # {} /\ Watchdog(gone)
        \/ \E v \in Vips : CooldownOver(v) \/ RouteMoves(v) \/ RouteGone(v) \/ RouteBack(v)

\* The pings somebody waits for: the user, or a heal
Awaited == {p \in Pings : p.kind # "probe"}

ChannelTicks == \E ch \in {TickBase(Later(chan))} : \E due \in {DueNow(ch)} : TickInto(ch, due, chan')

Expires(p) == p \in e.pings /\ Watchdog({p})

\* Time passes, and the engine's watchdog and the pacing thread's ticks recur.
Spec == /\ Init /\ [][Next]_vars
        /\ WF_chan(ChannelTicks) /\ \A p \in Awaited : WF_e(Expires(p))

----------------------------------------------------------------------------
(* Properties *)

\* What the engine waits for is watched by a timer.  A VIP in pending_heal_vips, which no
\* other heal is started for, has a heal ping that will be answered or expire; a packet of
\* the reliable channel has its own due time in the heap, however the entries before it
\* were moved, acked, migrated or flushed.
Watched ==
    /\ \A v \in e.heal : HealPings(e, v) # {}
    /\ \A q \in Waiting(chan) : <<chan.pending[q].at, q>> \in chan.heap

\* Every wait ends: the user's ping is answered or expires (and the command gets its reply), a
\* heal is over and can be started again, a reliable packet is acked or given up.
WaitsEnd ==
    /\ OfKind(e, "user") # {} ~> OfKind(e, "user") = {}
    /\ \A v \in Vips : v \in e.heal ~> v \notin e.heal
    /\ \A q \in Seqs : q \in Waiting(chan) ~> q \notin Waiting(chan)
=============================================================================
