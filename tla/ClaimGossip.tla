---------------------------- MODULE ClaimGossip ----------------------------
(***************************************************************************)
(* Membership of a FloatUnit: engines that claim their own virtual IP,     *)
(* gossip claims (MCLG), answer joins (MPJN/MPJA), learn routes from hole  *)
(* punches (HPCH/KPAL), leave (MLEA), crash and come back from the config  *)
(* on disk (src/src/net/engine.rs, claim.rs, claim_gossip.rs, config.rs).  *)
(*                                                                         *)
(* The network loses and reorders messages.  Sealed control packets carry  *)
(* a counter checked against a replay window, and leaves an event id, so   *)
(* that a message is delivered at most once.                               *)
(***************************************************************************)
EXTENDS ClaimOps

CONSTANTS InitVip,  \* the VIP each node picked at random when it was minted
          Founders  \* nodes that are solo members (genesis) at the start

VARIABLES st,     \* state of each engine (see ClaimOps), lost when it stops
          phase,  \* of the process: see Up and LockedPhases
          join,   \* the identity that the CLI's join has read
          disk,   \* NetInfo/config.toml and peer_cache.json of each node
          net     \* control packets in flight

vars == <<st, phase, join, disk, net>>

ASSUME GossipAssumption == InitVip \in [NodeIds -> Vips] /\ Founders \subseteq NodeIds

\* A process that starts with identity and files cfg and routing table rt.
Boot(cfg, rt) ==
    [vip |-> cfg.vip, epoch |-> cfg.epoch,
     cfg |-> [vip |-> cfg.vip, epoch |-> cfg.epoch], joined |-> cfg.joined, events |-> <<>>,
     claims |-> {}, tombs |-> {}, suppress |-> {}, rt |-> rt,
     retry |-> FALSE, pending |-> FALSE, roster |-> cfg.roster, cache |-> cfg.cache]

\* joined: the profile names a unit, so that a restart resumes it.
MintedConfig(n) ==
    [vip |-> InitVip[n], epoch |-> 0, joined |-> n \in Founders, roster |-> <<>>,
     cache |-> [v \in Vips |-> <<>>]]

\* handle_join_decentralized reads the identity once, for the join body and for
\* its own finalization.
JoinSnapshot(s) == [vip |-> s.vip, epoch |-> s.epoch]

\* Phases that are one CLI command, which holds the CLI lock from its start to
\* its end: a join before and after its ack, an exit or remove.  A "member" runs
\* no command or a short one; the process is blocked for good when "stuck", ended
\* when "down", and its profile is deleted when "gone".
LockedPhases == {"joining", "acked", "leaving"}
Up(n) == phase[n] \in LockedPhases \cup {"member"}

Init ==
    /\ st = [n \in NodeIds |-> Boot(MintedConfig(n), EmptyRoutes)]
    /\ phase = [n \in NodeIds |-> IF n \in Founders THEN "member" ELSE "joining"]
    /\ join = [n \in NodeIds |-> JoinSnapshot(MintedConfig(n))]
    /\ disk = [n \in NodeIds |-> MintedConfig(n)]
    /\ net = {}

----------------------------------------------------------------------------
\* Messages.
ClaimMsg(kind, n, m, s) ==
    [kind |-> kind, from |-> n, to |-> m, vip |-> s.vip, epoch |-> s.epoch]
PunchMsg(kind, n, m, s) == [kind |-> kind, from |-> n, to |-> m, vip |-> s.vip]
GossipMsg(n, m, s) ==
    [kind |-> "MCLG", from |-> n, to |-> m,
     claims |-> Digest(n, s), leaves |-> LeavesForGossip(s)]

\* What broadcast_claim_gossip sends when V are the VIPs with a live route.
GossipTo(n, s, V) == {GossipMsg(n, m, s) : m \in {s.rt.table[v].ep : v \in V} \ {n}}

\* flush_pending_claim_gossip
FlushPending(s, V) ==
    IF s.pending THEN [EnrichHints(s, V) EXCEPT !.pending = FALSE] ELSE s
PendingTo(n, s, V) == IF s.pending THEN GossipTo(n, FlushPending(s, V), V) ELSE {}

\* The packets in out are sent; those in sent are not lost on the way.
Exchange(in, out) == \E sent \in SUBSET out : net' = (net \ in) \cup sent

\* Node n's engine moves to state s; config.update hands the new config to the
\* save thread, which writes it some time later (Save).
Become(n, s) == st' = [st EXCEPT ![n] = s]

----------------------------------------------------------------------------
\* Timers of the engine's select loop.

\* sync_interval: prune, then broadcast the digest.
Gossip(n) ==
    \E V \in SUBSET Routed(st[n].rt) :
        LET s == [EnrichHints(st[n], V) EXCEPT !.pending = FALSE] IN
        /\ Up(n)
        /\ Become(n, s)
        /\ Exchange({}, GossipTo(n, s, V))
        /\ UNCHANGED <<phase, join, disk>>

\* Join fanout to a discovered endpoint.  The MPJN body was built when the join
\* began.
SendJoin(n, m) ==
    /\ phase[n] = "joining" /\ m # n
    /\ Exchange({}, {PunchMsg("HPCH", n, m, st[n]), ClaimMsg("MPJN", n, m, join[n])})
    /\ UNCHANGED <<st, phase, join, disk>>

\* Hole punches to an endpoint that the trackers or the user named.
Punch(n, m) ==
    /\ Up(n) /\ m # n
    /\ Exchange({}, {PunchMsg("HPCH", n, m, st[n])})
    /\ UNCHANGED <<st, phase, join, disk>>

\* The end of a join, with the identity that the join has read: it goes into the
\* config and, by SetIdentity, into the engine.  In between the command waits for
\* the adapter with the CLI lock in its hands; the identity task, if an event has
\* woken it before, then asks for the lock (see BlockOnCli).
Finalize(n) ==
    LET s == [st[n] EXCEPT !.cfg = join[n], !.joined = TRUE] IN
    /\ \/ /\ st[n].events = <<>>
          /\ st' = [st EXCEPT ![n] = [s EXCEPT !.vip = join[n].vip, !.epoch = join[n].epoch]]
          /\ phase' = [phase EXCEPT ![n] = "member"]
       \/ /\ st[n].events # <<>>
          /\ st' = [st EXCEPT ![n] = s]
          /\ phase' = [phase EXCEPT ![n] = "stuck"]
    /\ UNCHANGED <<join, disk, net>>

\* finalize_peer_join_from_ack, some time after the MPJA.
FinalizeJoin(n) == phase[n] = "acked" /\ Finalize(n)

\* The join deadline: CancelJoinWait empties the discovered set before the CLI
\* asks for its size, so finalize_genesis_join runs whether or not peers were
\* found.
FinalizeGenesis(n) == phase[n] = "joining" /\ Finalize(n)

\* PrepareJoin within 200 ms of the attempt before it is answered None: the
\* command fails and the user joins again, with the identity the engine has by
\* now.
RetryJoin(n) ==
    /\ phase[n] = "joining" /\ st[n].events = <<>>
    /\ join' = [join EXCEPT ![n] = JoinSnapshot(st[n].cfg)]
    /\ UNCHANGED <<st, phase, disk, net>>

\* send_claim_presence_tick: the reroll retry if it is due, pending gossip, then
\* MPJN to the live routes.
PresenceTick(n, due) ==
    /\ Up(n) /\ (due => st[n].retry)
    /\ \E t \in IF due THEN RetryFight(n, st[n]) ELSE {st[n]} :
       \E V \in SUBSET Routed(t.rt) :
          LET s == FlushPending(t, V)
              peers == {s.rt.table[v].ep : v \in V} \ {n}
          IN  /\ Become(n, s)
              /\ Exchange({}, PendingTo(n, t, V) \cup
                                IF phase[n] = "joining" THEN {}
                                ELSE {ClaimMsg("MPJN", n, m, s) : m \in peers})
    /\ UNCHANGED <<phase, join, disk>>

\* send_keepalives
SendKeepalives(n) ==
    /\ Up(n)
    /\ Exchange({}, {PunchMsg("KPAL", n, m, st[n]) : m \in RoutedEndpoints(st[n].rt) \ {n}})
    /\ UNCHANGED <<st, phase, join, disk>>

\* stale_evict_interval: V are the routes Stale and idle for too long.
StaleEvict(n) ==
    \E V \in (SUBSET Routed(st[n].rt)) \ {{}} :
        /\ Up(n)
        /\ Become(n, EvictStale(st[n], V))
        /\ UNCHANGED <<phase, join, disk, net>>

\* One tick of the clock that expires tombstones and fight suppressions.
Tick ==
    /\ st' = [n \in NodeIds |-> [st[n] EXCEPT !.tombs = Age(@), !.suppress = Age(@)]]
    /\ UNCHANGED <<phase, join, disk, net>>

----------------------------------------------------------------------------
\* dispatch_control, one action per tag.

\* PKT_JOIN: apply the claim, answer with the own one, punch, gossip.
RecvJoin(n, m) ==
    /\ m.kind = "MPJN"
    /\ \E t \in ApplyRemoteClaim(n, st[n], m.from, m.vip, m.epoch, m.from) :
       \E V \in SUBSET Routed(t.rt) :
          LET s == EnrichHints(t, V) IN
          /\ Become(n, s)
          /\ Exchange({m}, {ClaimMsg("MPJA", n, m.from, s), PunchMsg("HPCH", n, m.from, s)}
                             \cup GossipTo(n, s, V))
    /\ UNCHANGED <<phase, join, disk>>

\* PKT_JACK: apply the claim; a joiner hands its identity of now to the CLI.
RecvJoinAck(n, m) ==
    /\ m.kind = "MPJA"
    /\ \E s \in ApplyRemoteClaim(n, st[n], m.from, m.vip, m.epoch, m.from) :
          /\ Become(n, s)
          /\ \/ /\ phase[n] = "joining"
                /\ phase' = [phase EXCEPT ![n] = "acked"]
                /\ join' = [join EXCEPT ![n].vip = s.vip, ![n].epoch = s.epoch]
                /\ Exchange({m}, {PunchMsg(k, n, m.from, s) : k \in {"KPAL", "HPCH"}})
             \/ /\ phase[n] # "joining"
                /\ Exchange({m}, {})
                /\ UNCHANGED <<phase, join>>
    /\ UNCHANGED disk

\* PKT_CLG: merge, settle, route, and gossip on when something changed.
RecvGossip(n, m) ==
    /\ m.kind = "MCLG"
    /\ \E t \in HandleClaimGossip(n, st[n], m.claims, m.leaves, m.from) :
       \E V \in SUBSET Routed(t.rt) :
          /\ Become(n, FlushPending(t, V))
          /\ Exchange({m}, PendingTo(n, t, V))
    /\ UNCHANGED <<phase, join, disk>>

\* PKT_LEAVE
RecvLeave(n, m) ==
    /\ m.kind = "MLEA"
    /\ Become(n, HandleLeave(st[n], m.from, m.vip, m.epoch))
    /\ Exchange({m}, {})
    /\ UNCHANGED <<phase, join, disk>>

\* HPCH is answered by HACK, which like KPAL only teaches the route.
RecvPunch(n, m) ==
    /\ m.kind \in {"HPCH", "KPAL"}
    /\ \E weak \in BOOLEAN : Become(n, LearnRoute(st[n], m.vip, m.from, weak))
    /\ Exchange({m}, IF m.kind = "HPCH" THEN {PunchMsg("KPAL", n, m.from, st[n])} ELSE {})
    /\ UNCHANGED <<phase, join, disk>>

Receive(n, m) ==
    /\ m.to = n /\ Up(n)
    /\ \/ RecvJoin(n, m) \/ RecvJoinAck(n, m) \/ RecvGossip(n, m)
       \/ RecvLeave(n, m) \/ RecvPunch(n, m)

\* A packet that reaches a host where no engine runs.
Drop(m) ==
    /\ ~Up(m.to)
    /\ net' = net \ {m}
    /\ UNCHANGED <<st, phase, join, disk>>

----------------------------------------------------------------------------
\* The daemon's identity task.

\* Mutant: the task empties the channel and applies the event it took first.
ApplyFirstOfMany(n) ==
    /\ phase[n] = "member" /\ st[n].events # <<>>
    /\ Become(n, [st[n] EXCEPT !.cfg = Head(st[n].events), !.events = <<>>])
    /\ UNCHANGED <<phase, join, disk, net>>

\* apply_identity_changed, with the CLI lock: the config is written again and the
\* adapter created anew.  A command that asks for the lock meanwhile blocks the
\* thread.
ApplyIdentity(n) ==
    /\ phase[n] = "member" /\ st[n].events # <<>>
    /\ Become(n, [st[n] EXCEPT !.cfg = Head(st[n].events), !.events = Tail(@)])
    /\ \E p \in {"member", "stuck"} : phase' = [phase EXCEPT ![n] = p]
    /\ UNCHANGED <<join, disk, net>>

\* The CLI lock is a blocking mutex and all tasks of the daemon share one thread:
\* the task asks for the lock while a command awaits something with the lock in
\* its hands, and nothing runs any more.
BlockOnCli(n) ==
    /\ Up(n) /\ st[n].events # <<>>
    /\ phase' = [phase EXCEPT ![n] = "stuck"]
    /\ UNCHANGED <<st, join, disk, net>>

----------------------------------------------------------------------------
\* Leaving, stopping and coming back.

\* handle_exit and handle_remove: EngineCmd::BroadcastLeave of the identity in
\* the config.  The engine keeps running until it is shut down.
BroadcastLeave(n) ==
    LET s == [st[n] EXCEPT
                !.tombs = InstallTombs(@, {[node |-> n, epoch |-> st[n].cfg.epoch]}),
                !.claims = Without(@, n)] IN
    /\ phase[n] = "member"
    /\ Become(n, s)
    /\ phase' = [phase EXCEPT ![n] = "leaving"]
    /\ Exchange({}, {ClaimMsg("MLEA", n, m, s.cfg) : m \in RoutedEndpoints(s.rt) \ {n}})
    /\ UNCHANGED <<join, disk>>

\* The config save thread writes the latest snapshot of the config, also when
\* the other thread is blocked.
SaveConfig(n) ==
    /\ Up(n) \/ phase[n] = "stuck"
    /\ disk' = [disk EXCEPT ![n].vip = st[n].cfg.vip, ![n].epoch = st[n].cfg.epoch,
                            ![n].roster = st[n].roster,
                            ![n].joined = st[n].joined]
    /\ UNCHANGED <<st, phase, join, net>>

\* The endpoint cache worker writes peer_cache.json.
SaveCache(n) ==
    /\ Up(n)
    /\ disk' = [disk EXCEPT ![n].cache = st[n].cache]
    /\ UNCHANGED <<st, phase, join, net>>

\* The process ends, after a leave, in a crash or killed; what was not saved is
\* lost.
Stop(n) ==
    /\ Up(n) \/ phase[n] = "stuck"
    /\ phase' = [phase EXCEPT ![n] = "down"]
    /\ st' = [st EXCEPT ![n] = Boot(disk[n], EmptyRoutes)]
    /\ UNCHANGED <<join, disk, net>>

\* handle_remove after its leave: the profile is deleted, the node_id is gone.
RemoveProfile(n) ==
    /\ phase[n] = "leaving"
    /\ phase' = [phase EXCEPT ![n] = "gone"]
    /\ st' = [st EXCEPT ![n] = Boot(MintedConfig(n), EmptyRoutes)]
    /\ disk' = [disk EXCEPT ![n] = MintedConfig(n)]
    /\ UNCHANGED <<join, net>>

\* sync_engine_from_saved_profile: the same node_id, VIP and epoch.  Without a
\* joined unit in the profile the user joins again, with those same three.
Restart(n) ==
    \E hosts \in Bijection(1..Cardinality(Vips), Vips) :
        LET d == disk[n] IN
        /\ phase[n] = "down"
        /\ phase' = [phase EXCEPT ![n] = IF d.joined THEN "member" ELSE "joining"]
        /\ join' = [join EXCEPT ![n] = JoinSnapshot(d)]
        /\ st' = [st EXCEPT ![n] = Boot(d, Hydrate(d.vip, d.roster, d.cache, hosts))]
        /\ UNCHANGED <<disk, net>>

Next ==
    \/ \E n \in NodeIds :
         \/ FinalizeJoin(n) \/ FinalizeGenesis(n) \/ RetryJoin(n)
         \/ Gossip(n) \/ SendKeepalives(n) \/ StaleEvict(n)
         \/ \E due \in BOOLEAN : PresenceTick(n, due)
         \/ ApplyIdentity(n) \/ BlockOnCli(n)
         \/ BroadcastLeave(n) \/ SaveConfig(n) \/ SaveCache(n)
         \/ Stop(n) \/ RemoveProfile(n) \/ Restart(n)
         \/ \E m \in NodeIds : SendJoin(n, m) \/ Punch(n, m)
         \/ \E m \in net : Receive(n, m)
    \/ \E m \in net : Drop(m)
    \/ Tick

Spec == Init /\ [][Next]_vars
----------------------------------------------------------------------------
\* The settled view: after any handler, no two other members hold one VIP in a
\* node's claim_map, and the node's own record there, if any, is its identity.
SettledView ==
    \A n \in NodeIds : Up(n) => \A c, d \in st[n].claims :
        /\ c.vip = d.vip => c.node = d.node \/ n \in {c.node, d.node}
        /\ c.node = n => c.vip = st[n].vip /\ c.epoch = st[n].epoch

\* No handler routes my_vip to a peer, whatever rerolls, claims and punches
\* follow one another.  (A restart may: a profile saved before a reroll meets a
\* peer cache saved after it.)
NeverRoutesOwnVip ==
    \A n \in NodeIds : Up(n) => st[n].vip \notin Routed(st[n].rt)

\* The config catches up: once every event is applied, in order, it names the
\* engine's identity, however many rerolls came in between.
ConfigFollows ==
    \A n \in NodeIds : Up(n) /\ st[n].events = <<>> =>
        st[n].cfg.vip = st[n].vip /\ st[n].cfg.epoch = st[n].epoch

\* What is said about n's identity anywhere: in a claim_map, in a digest or
\* packet in flight, or by n itself.
ClaimsOf(n) ==
    {[vip |-> c.vip, epoch |-> c.epoch] :
        c \in {d \in UNION ({st[m].claims : m \in NodeIds}
                             \cup {p.claims : p \in {q \in net : q.kind = "MCLG"}}) : d.node = n}}
      \cup {[vip |-> p.vip, epoch |-> p.epoch] :
              p \in {q \in net : q.from = n /\ q.kind \in {"MPJN", "MPJA", "MLEA"}}}
      \cup {[vip |-> st[n].vip, epoch |-> st[n].epoch]}

\* The identities that n itself may still say: in the body of its join, in the
\* config, and in events on their way to the config.
OwnRecords(n) == {join[n], st[n].cfg} \cup Range(st[n].events)

Unit == INSTANCE Membership WITH
            Nodes <- NodeIds, Addresses <- Vips,
            id <- [n \in NodeIds |-> [vip |-> st[n].vip, epoch |-> st[n].epoch]],
            heard <- [n \in NodeIds |-> ClaimsOf(n) \cup OwnRecords(n)]

\* As long as no process exits, gossip implements Membership: whatever is lost,
\* late or passed on by third nodes, a node takes a new VIP only under its next
\* epoch, and every claim on it is an identity it has had.  Then merge_claim, which
\* keeps the first claim of an epoch, never leaves two nodes with different views.
ImplementsMembership == Unit!Spec

\* A running node gives up its VIP only to a smaller node_id that claims it:
\* apply_local_vip_change has no other cause.
RerollStep ==
    \A n \in NodeIds :
        Up(n) /\ phase'[n] \in {phase[n], "acked", "member"} /\ st'[n].vip # st[n].vip =>
          \E m \in NodeIds : m < n /\ \E c \in ClaimsOf(m) : c.vip = st[n].vip
RerollOnlyWhenBeaten == [][RerollStep]_vars

\* A leave tombstone that a step does not replace keeps out every claim of the
\* leaver at its epoch or below, in the same digest as the leave included.
TombstoneStep ==
    \A n \in NodeIds : \A t \in st'[n].tombs : \A c \in st'[n].claims :
        c.node = t.node /\ c.node # n /\ c.epoch <= t.epoch =>
          \E d \in st[n].claims : SameClaim(c, d)
TombstoneHolds == [][TombstoneStep]_vars
=============================================================================
