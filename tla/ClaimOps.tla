----------------------------- MODULE ClaimOps ------------------------------
(***************************************************************************)
(* What one engine does to its own membership state when a claim, a gossip *)
(* digest, a leave or a hole punch arrives (claim.rs, claim_gossip.rs and  *)
(* the claim handlers of engine.rs).  The state of a node is a record s:   *)
(*                                                                         *)
(*   vip, epoch   my_vip and vip_epoch of EngineState                      *)
(*   cfg          virtual_ip and vip_epoch of the config                   *)
(*   joined       the config names a unit, so that a restart resumes it    *)
(*   events       IdentityChanged events the daemon has not applied yet    *)
(*   claims       claim_map, at most one record per node_id                *)
(*   tombs        leave_tombs: [node, epoch, ttl]                          *)
(*   suppress     fight_suppress: [node, vip, epoch, ttl]                  *)
(*   rt           routing table core                                       *)
(*   retry        vip_reroll_retry_after is set                            *)
(*   pending      pending_claim_gossip                                     *)
(*   roster       config.peers, oldest row first                           *)
(*   cache        peer_cache.by_vip, newest endpoint first                 *)
(*                                                                         *)
(* Time is the ttl that an entry has left; an expired entry is dropped,    *)
(* which no reader can tell from an expired entry that is still stored.    *)
(***************************************************************************)
EXTENDS RouteCore, Sequences, FiniteSets, Functions

CONSTANTS TombTtl,      \* LEAVE_TOMBSTONE_TTL, in clock ticks
          SuppressTtl,  \* FIGHT_SUPPRESS_TTL, in clock ticks
          RosterMax,    \* MEMBER_ROSTER_MAX
          CacheMax      \* MAX_ENDPOINTS_PER_VIP

ASSUME OpsAssumption ==
    /\ Endpoints = NodeIds              \* every node has one socket address
    /\ TombTtl \in Nat \ {0} /\ SuppressTtl \in Nat \ {0}
    /\ RosterMax \in Nat /\ CacheMax \in Nat

\* HashMap::insert and HashMap::remove on a map keyed by node_id.
Put(S, r) == {x \in S : x.node # r.node} \cup {r}
Without(S, n) == {x \in S : x.node # n}

OwnClaim(me, s) == [node |-> me, vip |-> s.vip, epoch |-> s.epoch, hint |-> None]

SameClaim(c, d) == c.node = d.node /\ c.vip = d.vip /\ c.epoch = d.epoch
ClaimStillLive(s, c) == \E k \in s.claims : SameClaim(k, c)

----------------------------------------------------------------------------
\* Mutant: the tombstone's own epoch may reclaim.
ReclaimAtLeaveEpoch(s, c) == \E t \in s.tombs : t.node = c.node /\ c.epoch < t.epoch

\* merge_claim: tombstone, then fight suppress, then last writer by epoch.
LeaveTombstoneBlocks(s, c) == \E t \in s.tombs : t.node = c.node /\ c.epoch <= t.epoch
FightSuppressBlocks(s, c) == \E f \in s.suppress : SameClaim(f, c)

Blocked(s, c) == LeaveTombstoneBlocks(s, c) \/ FightSuppressBlocks(s, c)

\* Outcome Accepted: unknown node, newer epoch, or a new endpoint hint for the
\* claim already held.
Accepted(s, c) ==
    /\ ~Blocked(s, c)
    /\ \A k \in s.claims : k.node = c.node =>
          \/ k.epoch < c.epoch
          \/ SameClaim(k, c) /\ c.hint \notin {None, k.hint}

FightSuppress(c) ==
    [node |-> c.node, vip |-> c.vip, epoch |-> c.epoch, ttl |-> SuppressTtl]

\* merge_claim of every claim in C, a digest with one claim per node_id.  A
\* claim stopped by the fight suppress slides that entry's ttl.
MergeClaims(s, C) ==
    LET new == {c \in C : Accepted(s, c)}
        slid == {c \in C : ~LeaveTombstoneBlocks(s, c) /\ FightSuppressBlocks(s, c)}
    IN  [s EXCEPT
           !.claims = {k \in @ : \A c \in new : c.node # k.node} \cup new,
           !.suppress = {f \in @ : \A c \in slid : c.node # f.node}
                          \cup {FightSuppress(c) : c \in slid}]

InstallTombs(S, leaves) ==
    {t \in S : \A l \in leaves : l.node # t.node}
      \cup {[node |-> l.node, epoch |-> l.epoch, ttl |-> TombTtl] : l \in leaves}

----------------------------------------------------------------------------
\* settle_duplicate_vips: of the claims on one VIP the smallest node_id stays.
Settled(C) == {c \in C : \A d \in C : d.vip = c.vip => c.node <= d.node}

OccupiedVips(s) == {c.vip : c \in s.claims} \cup Routed(s.rt) \cup {s.vip}

\* pick_free_vip scans the /24 in an order every member of the unit shares: the
\* order of Vips.
FirstFree(free) == CHOOSE v \in free : \A w \in free : v <= w

\* apply_local_vip_change: the identity changes in the engine and in the config,
\* the own claim follows, and the daemon's identity task is sent an event.
ApplyVipChange(me, s, id) ==
    LET t == [s EXCEPT !.vip = id.vip, !.epoch = id.epoch, !.cfg = id,
                       !.events = Append(@, id), !.retry = FALSE, !.pending = TRUE,
                       !.rt = RemoveVip(@, s.vip)]
    IN  [t EXCEPT !.claims = Put(@, OwnClaim(me, t))]

\* Mutant: the reroll keeps vip_epoch.
RerollKeepsEpoch(me, s) ==
    LET free == Vips \ OccupiedVips(s) IN
    IF free = {}
    THEN [s EXCEPT !.retry = TRUE]
    ELSE ApplyVipChange(me, s, [vip |-> FirstFree(free), epoch |-> s.epoch])

\* try_local_vip_reroll
TryReroll(me, s) ==
    LET free == Vips \ OccupiedVips(s) IN
    IF free = {}
    THEN [s EXCEPT !.retry = TRUE]
    ELSE ApplyVipChange(me, s, [vip |-> FirstFree(free), epoch |-> s.epoch + 1])

\* This node's own claim was settled away: reroll, or keep the claim.
LoseOwnClaim(me, s) ==
    LET t == TryReroll(me, s) IN
    IF t.vip # s.vip THEN t ELSE [t EXCEPT !.claims = Put(@, OwnClaim(me, s))]

\* Soft drop of remote losers L: their VIP's route goes if it is theirs or
\* anonymous, and the losing claim is suppressed.
DropLosers(s, L) ==
    LET routes == {v \in Routed(s.rt) :
                     \E c \in L : c.vip = v /\ s.rt.table[v].node \in {None, c.node}}
    IN  [s EXCEPT !.rt = RemoveAll(@, routes),
                  !.pending = @ \/ L # {},
                  !.suppress = {f \in @ : \A c \in L : c.node # f.node}
                                 \cup {FightSuppress(c) : c \in L}]

\* Mutant: whoever claims the local VIP wins it.
AnyRivalWins(me, s) == \E c \in s.claims : c.vip = s.vip /\ c.node # me

\* A smaller node_id claims the local VIP.
LosesFight(me, s) == \E c \in s.claims : c.vip = s.vip /\ c.node < me

LocalFight(me, s) == IF LosesFight(me, s) THEN TryReroll(me, s) ELSE s

\* Mutant: duplicates among the other members are not settled.
FightOnly(me, s) == {LocalFight(me, s)}

\* apply_claim_settle_and_local_fight.  The losers come in the order of a
\* HashMap: D are those dropped before this node's own turn to reroll.
SettleAndFight(me, s) ==
    LET losers == s.claims \ Settled(s.claims)
        others == Without(losers, me)
        t == [s EXCEPT !.claims = Settled(@)]
        dropped == IF losers = others
                   THEN {DropLosers(t, others)}
                   ELSE {DropLosers(LoseOwnClaim(me, DropLosers(t, D)), others \ D) :
                           D \in SUBSET others}
    IN  {LocalFight(me, u) : u \in dropped}

\* Mutant: the retry, when due, does nothing.
RetryWaits(me, s) == {s}

\* retry_vip_fight_if_due, when it is.
RetryFight(me, s) == SettleAndFight(me, [s EXCEPT !.retry = FALSE])

----------------------------------------------------------------------------
\* upsert_member_roster_peer: replace the node's row in place, or drop the
\* rows of its VIP and append.
UpsertRoster(roster, row) ==
    IF \E i \in DOMAIN roster : roster[i].node = row.node
    THEN [i \in DOMAIN roster |-> IF roster[i].node = row.node THEN row ELSE roster[i]]
    ELSE LET kept == SelectSeq(roster, LAMBDA r : r.vip # row.vip)
             full == Append(kept, row)
         IN  IF Len(full) > RosterMax THEN Tail(full) ELSE full

\* remember_endpoint: the endpoint moves to the front of its VIP's list.
Remember(list, ep) ==
    LET l == <<ep>> \o SelectSeq(list, LAMBDA e : e # ep)
    IN  SubSeq(l, 1, IF Len(l) > CacheMax THEN CacheMax ELSE Len(l))

\* Mutant: update_route without its my_vip check.
RouteAnyVip(s, vip, ep, node, weak) ==
    [s EXCEPT !.rt = UpdateVip(@, vip, ep, node, weak), !.cache[vip] = Remember(@, ep)]

\* update_route: never for the local VIP.
UpdateRoute(s, vip, ep, node, weak) ==
    IF vip = s.vip THEN s
    ELSE [s EXCEPT !.rt = UpdateVip(@, vip, ep, node, weak),
                   !.cache[vip] = Remember(@, ep)]

\* The route and the roster follow a claim that is still live after settling.
RouteClaim(s, c, ep) ==
    IF ep = None \/ ~ClaimStillLive(s, c) \/ c.vip = s.vip THEN s
    ELSE [UpdateRoute(s, c.vip, ep, c.node, FALSE) EXCEPT
            !.roster = UpsertRoster(@, [node |-> c.node, vip |-> c.vip, ep |-> ep])]

\* apply_remote_claim(node, vip, epoch, from): the claim of a peer that spoke
\* for itself in MPJN or MPJA.
ApplyRemoteClaim(me, s, node, vip, epoch, from) ==
    LET c == [node |-> node, vip |-> vip, epoch |-> epoch, hint |-> from]
        merged == MergeClaims(s, {c})
    IN  IF Blocked(s, c) THEN {merged}
        ELSE {RouteClaim(t, c, from) : t \in SettleAndFight(me, merged)}

\* The order of a digest: its sender's claim, then the others by node_id from
\* the sender's rotation cursor on.
DigestOrder(C, from, start) ==
    LET rank(c) == CASE c.node = from -> <<0, 0>>
                     [] c.node # from /\ c.node >= start -> <<1, c.node>>
                     [] OTHER -> <<2, c.node>>
        before(a, b) == \/ rank(a)[1] < rank(b)[1]
                        \/ rank(a)[1] = rank(b)[1] /\ rank(a)[2] < rank(b)[2]
    IN  CHOOSE q \in Bijection(1..Cardinality(C), C) :
          \A i, j \in DOMAIN q : i < j => before(q[i], q[j])

\* The routes and roster rows of live claims, in the order of their digest.
RouteEach(s, live, from, start) ==
    LET q == DigestOrder(live, from, start)
        after[i \in 0..Cardinality(live)] ==
          IF i = 0 THEN s
          ELSE RouteClaim(after[i - 1], q[i], IF q[i].node = from THEN from ELSE q[i].hint)
    IN  after[Cardinality(live)]

RouteAll(s, live, from, start) ==
    LET t == RouteEach(s, live, from, start)
    IN  [s EXCEPT !.rt = t.rt, !.roster = t.roster, !.cache = t.cache]

\* handle_claim_gossip_body: leaves, then claims, then one settle, then routes.
\* An accepted claim is gossiped on.
HandleClaimGossip(me, s, claims, leaves, from) ==
    LET s1 == [s EXCEPT !.tombs = InstallTombs(@, leaves)]
        remote == Without(claims, me)
        merged == [MergeClaims(s1, remote) EXCEPT
                     !.pending = @ \/ \E c \in remote : Accepted(s1, c)]
        live == {c \in remote : ~Blocked(s1, c)}
    IN  {RouteAll(t, live, from, start) :
           t \in SettleAndFight(me, merged), start \in {c.node : c \in live} \cup {from}}

\* PKT_LEAVE: tombstone and claim removal always; route and roster row only
\* when the VIP's route is the leaver's or anonymous.
HandleLeave(s, node, vip, epoch) ==
    LET s1 == [s EXCEPT !.tombs = InstallTombs(@, {[node |-> node, epoch |-> epoch]}),
                        !.claims = Without(@, node)]
    IN  IF vip \in Routed(s.rt) /\ s.rt.table[vip].node \in {None, node}
        THEN [s1 EXCEPT !.rt = RemoveVip(@, vip),
                        !.roster = SelectSeq(@, LAMBDA r : r.vip # vip)]
        ELSE s1

\* learn_route_from_hole_punch_body for a sealed HPCH, HACK or KPAL.
LearnRoute(s, vip, from, weak) == UpdateRoute(s, vip, from, None, weak)

\* stale_evict: the routes to the VIPs in V and the claims behind them.
EvictStale(s, V) ==
    LET doomed(c) == \E v \in V : LET n == s.rt.table[v].node IN
                        IF n = None THEN c.vip = v ELSE c.node = n
    IN  [s EXCEPT !.rt = RemoveAll(@, V), !.claims = {c \in @ : ~doomed(c)}]

\* broadcast_claim_gossip first fills empty hints from the routing table, for
\* the VIPs in V: those whose route is not Stale.
EnrichHints(s, V) ==
    [s EXCEPT !.claims =
       {[c EXCEPT !.hint = IF @ = None /\ c.vip \in V THEN s.rt.table[c.vip].ep ELSE @] :
          c \in @}]

\* build_gossip_digest_rotated: the own claim and every claim not left behind.
Digest(me, s) ==
    {OwnClaim(me, s)} \cup {c \in Without(s.claims, me) : ~LeaveTombstoneBlocks(s, c)}

LeavesForGossip(s) == {[node |-> t.node, epoch |-> t.epoch] : t \in s.tombs}

\* prune_leave_tombstones and prune_fight_suppress after one clock tick.
Age(S) == {[x EXCEPT !.ttl = @ - 1] : x \in {y \in S : y.ttl > 1}}

\* build_engine_runtime: candidate routes from the roster, without the own VIP,
\* then from the cache: its VIPs in the order of a HashMap (hosts), each list
\* from the newest endpoint to the oldest.
Hydrate(vip, roster, cache, hosts) ==
    LET addRow(rt, r) == IF r.vip = vip THEN rt ELSE UpdateVip(rt, r.vip, r.ep, r.node, FALSE)
        rows[i \in 0..Len(roster)] ==
          IF i = 0 THEN EmptyRoutes ELSE addRow(rows[i - 1], roster[i])
        addVip(rt, v) ==
          LET eps[i \in 0..Len(cache[v])] ==
                IF i = 0 THEN rt ELSE UpdateVip(eps[i - 1], v, cache[v][i], None, FALSE)
          IN  eps[Len(cache[v])]
        vips[i \in 0..Len(hosts)] ==
          IF i = 0 THEN rows[Len(roster)] ELSE addVip(vips[i - 1], hosts[i])
    IN  vips[Len(hosts)]
=============================================================================
