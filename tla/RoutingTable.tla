---------------------------- MODULE RoutingTable ----------------------------
(***************************************************************************)
(* RoutingTable (src/src/routing.rs) behind its RwLock: the table and its  *)
(* reverse indexes (RouteCore), the state of each route, the relay slot of *)
(* its PathSet and the index of secondary endpoints.                       *)
(*                                                                         *)
(* The table is filled from the profile and the peer cache before the      *)
(* engine runs.  The engine task then takes the lock once per operation.   *)
(* For a data packet it chooses a relay hop under a read lock and stamps   *)
(* it under a later write lock, after the send; meanwhile only the CLI can *)
(* take the lock (prepare_para_punch_route and handle_remove).             *)
(*                                                                         *)
(* Quality score, loss and jitter are left to chance: a sample finds the   *)
(* quality good or not, and a usable hop may be passed over.               *)
(***************************************************************************)
EXTENDS RouteCore

CONSTANTS LocalVip,                  \* my_vip
          ActiveAt,                  \* successes that make a route Active
          DegradedAt, StaleAt,       \* failures that make it Degraded, Stale
          StreakMax                  \* cap of both streaks

VARIABLES rt,       \* table, ep_to_vip, node_to_vip
          link,     \* the rest of each RouteEntry
          path_ep,  \* path_ep_to_vip
          running,  \* the engine has been started
          sel       \* the data send in progress: destination, hop, alternative hop

vars == <<rt, link, path_ep, running, sel>>

ASSUME TableAssumption ==
    /\ LocalVip \in Nat
    /\ ActiveAt \in Nat /\ DegradedAt \in Nat /\ StaleAt \in Nat /\ StreakMax \in Nat
    /\ DegradedAt <= StaleAt

\* Age of last_seen: younger than stale_mark, older, older than stale_evict.
Fresh == 0
Idle == 1
Dead == 2

Link == [state : {"Candidate", "Active", "Degraded", "Stale"},
         fails : 0..StreakMax, successes : 0..StreakMax,
         relay : Endpoints \cup {None}, age : Fresh..Dead]

\* The entry that update inserts; also what an absent VIP has here.
NewLink == [state |-> "Candidate", fails |-> 0, successes |-> 0, relay |-> None, age |-> Fresh]

Selection == [dest : Vips, hop : Endpoints \cup {None}, alt : Endpoints \cup {None}]
NoSelection == [dest |-> None, hop |-> None, alt |-> None]

Init ==
    /\ rt = EmptyRoutes
    /\ link = [v \in Vips |-> NewLink]
    /\ path_ep = [e \in Endpoints |-> None]
    /\ running = FALSE
    /\ sel = NoSelection

\* The engine task is not inside the send of a data packet.
EngineFree == running /\ sel = NoSelection

----------------------------------------------------------------------------
\* clear_path_ep_index_for_vip, for each VIP in V.
ClearPaths(pe, V) == [e \in Endpoints |-> IF pe[e] \in V THEN None ELSE pe[e]]

\* rebuild_path_ep_index_for_vip: the relay endpoint, unless it is the primary.
Reindex(pe, vip, primary, relay) ==
    [e \in Endpoints |-> IF e = relay /\ e # primary THEN vip ELSE ClearPaths(pe, {vip})[e]]

\* vip_for_data_endpoint
DataVip(ep) == IF rt.ep_to_vip[ep] # None THEN rt.ep_to_vip[ep] ELSE path_ep[ep]

Weak(vip) == vip \in Vips /\ link[vip].state \in {"Stale", "Degraded"}

\* update(vip, ep, node_id): the table, the rest of its entries and the index of
\* secondary endpoints after it.  A route that gives up the endpoint to the same
\* or a newly identified node is removed; an existing entry keeps its state and
\* its relay slot.
Rejected(vip, ep, node) == AliasRejected(rt, vip, ep, node, Weak(rt.ep_to_vip[ep]))

UpdatedRoutes(vip, ep, node) == UpdateVip(rt, vip, ep, node, Weak(rt.ep_to_vip[ep]))

Released(vip, ep, node) ==
    IF Aliased(rt, vip, ep) /\ node # None THEN {rt.ep_to_vip[ep]} ELSE {}

UpdatedLink(vip, ep, node) ==
    IF Rejected(vip, ep, node)
    THEN link
    ELSE [v \in Vips |-> CASE v = vip -> [link[v] EXCEPT !.age = Fresh]
                            [] v # vip /\ v \in Released(vip, ep, node) -> NewLink
                            [] OTHER -> link[v]]

UpdatedPaths(vip, ep, node) ==
    IF Rejected(vip, ep, node)
    THEN path_ep
    ELSE Reindex(ClearPaths(path_ep, Released(vip, ep, node)), vip, ep, link[vip].relay)

\* The profile's roster and the peer cache, before the engine runs.
Load(vip, ep, node) ==
    /\ ~running
    /\ rt' = UpdatedRoutes(vip, ep, node)
    /\ link' = UpdatedLink(vip, ep, node)
    /\ path_ep' = UpdatedPaths(vip, ep, node)
    /\ UNCHANGED <<running, sel>>

Start == ~running /\ running' = TRUE /\ UNCHANGED <<rt, link, path_ep, sel>>

\* hop_usable in table r with entries l, up to quality, loss and jitter.
HopUsable(r, l, hop, dest) ==
    LET v == r.ep_to_vip[hop] IN
    /\ v \notin {None, LocalVip, dest}
    /\ r.table[dest].ep # hop
    /\ l[v].fails < DegradedAt
    /\ l[v].state \in {"Candidate", "Active"}

\* Mutant: update_route without the relay stamp that ends it.
UpdateUnstamped(vip, ep, node, hop) ==
    /\ EngineFree /\ vip # LocalVip /\ hop = None
    /\ rt' = UpdatedRoutes(vip, ep, node)
    /\ link' = UpdatedLink(vip, ep, node)
    /\ path_ep' = UpdatedPaths(vip, ep, node)
    /\ UNCHANGED <<running, sel>>

\* The engine's update_route: update, then sync_dest_relay_path_stamp, which puts
\* a usable hop into the relay slot of the destination, or clears the slot, even
\* when the update was rejected.
UpdateRoute(vip, ep, node, hop) ==
    LET r == UpdatedRoutes(vip, ep, node)
        l == UpdatedLink(vip, ep, node)
        pe == UpdatedPaths(vip, ep, node)
    IN  /\ EngineFree /\ vip # LocalVip
        /\ hop # None => HopUsable(r, l, hop, vip)
        /\ rt' = r
        /\ IF vip \in Routed(r)
           THEN /\ link' = [l EXCEPT ![vip] = [l[vip] EXCEPT !.relay = hop]]
                /\ path_ep' = Reindex(pe, vip, r.table[vip].ep, hop)
           ELSE link' = l /\ path_ep' = pe
        /\ UNCHANGED <<running, sel>>

\* Mutant: remove leaves the index of secondary endpoints alone.
RemoveKeepsPaths(V) ==
    /\ rt' = RemoveAll(rt, V)
    /\ link' = [v \in Vips |-> IF v \in V THEN NewLink ELSE link[v]]
    /\ path_ep' = path_ep

\* Mutant: remove leaves the rest of the entry behind.
RemoveKeepsLink(V) ==
    /\ rt' = RemoveAll(rt, V)
    /\ link' = link
    /\ path_ep' = ClearPaths(path_ep, V)

\* remove(vip) of each VIP in V.
RemoveRoutes(V) ==
    /\ rt' = RemoveAll(rt, V)
    /\ link' = [v \in Vips |-> IF v \in V THEN NewLink ELSE link[v]]
    /\ path_ep' = ClearPaths(path_ep, V)

\* A leave, a lost VIP fight, a local VIP change, or the CLI before a punch.
Remove(vip) == running /\ RemoveRoutes({vip}) /\ UNCHANGED <<running, sel>>

\* drain_vips_outside_subnet, when SetIdentity moves the node to another subnet.
Drain(V) == EngineFree /\ RemoveRoutes(V) /\ UNCHANGED <<running, sel>>

\* handle_remove and reset_session_state replace the table by a new one.
Reset ==
    /\ running
    /\ rt' = EmptyRoutes
    /\ link' = [v \in Vips |-> NewLink]
    /\ path_ep' = [e \in Endpoints |-> None]
    /\ UNCHANGED <<running, sel>>

----------------------------------------------------------------------------
\* Traffic from an endpoint.
SetLink(v, l) == link' = [link EXCEPT ![v] = l]

\* promote_stale_if_needed
Promote(ep) ==
    LET v == rt.ep_to_vip[ep] IN
    /\ EngineFree /\ v # None /\ link[v].state = "Stale"
    /\ SetLink(v, [link[v] EXCEPT !.state = "Candidate", !.age = Fresh])
    /\ UNCHANGED <<rt, path_ep, running, sel>>

\* Mutant: every route over the endpoint is refreshed, not the indexed one.
RefreshAll(ep) ==
    /\ EngineFree
    /\ link' = [v \in Vips |-> IF rt.table[v].ep = ep THEN [link[v] EXCEPT !.age = Fresh]
                                                     ELSE link[v]]
    /\ UNCHANGED <<rt, path_ep, running, sel>>

\* apply_last_seen_batch
ApplyLastSeen(ep) ==
    LET v == rt.ep_to_vip[ep] IN
    /\ EngineFree /\ v # None
    /\ SetLink(v, [link[v] EXCEPT !.age = Fresh])
    /\ UNCHANGED <<rt, path_ep, running, sel>>

\* Mutant: a streak without its cap.
BumpUncapped(streak) == streak + 1

\* A streak is capped, and falls by one for an event of the other kind.
Bump(streak) == IF streak < StreakMax THEN streak + 1 ELSE StreakMax
Lower(streak) == IF streak > 0 THEN streak - 1 ELSE 0

\* note_rtt; apply_rtt_sample if the endpoint is the active path.
NoteRtt(ep, active, good) ==
    LET v == DataVip(ep)
        l == link[v]
        sampled == [l EXCEPT
            !.age = Fresh, !.successes = Bump(@), !.fails = Lower(@),
            !.state = CASE ~good -> "Degraded"
                        [] good /\ Bump(l.successes) >= ActiveAt -> "Active"
                        [] OTHER -> @]
    IN  /\ EngineFree /\ v # None
        /\ SetLink(v, IF active THEN sampled ELSE [l EXCEPT !.age = Fresh])
        /\ UNCHANGED <<rt, path_ep, running, sel>>

\* note_fail on an entry: the streaks and the state.
Failed(l) ==
    LET streak == Bump(l.fails) IN
    [l EXCEPT !.fails = streak, !.successes = Lower(@),
              !.state = CASE streak >= StaleAt -> "Stale"
                          [] streak >= DegradedAt /\ streak < StaleAt -> "Degraded"
                          [] OTHER -> @]

\* note_fail of the reliable layer and of the pings.
NoteFail(ep) ==
    LET v == DataVip(ep) IN
    /\ EngineFree /\ v # None
    /\ SetLink(v, Failed(link[v]))
    /\ UNCHANGED <<rt, path_ep, running, sel>>

\* The clock: every last_seen gets older.
Age ==
    /\ link' = [v \in Vips |->
                  IF v \in Routed(rt) /\ link[v].age < Dead
                  THEN [link[v] EXCEPT !.age = @ + 1] ELSE link[v]]
    /\ UNCHANGED <<rt, path_ep, running, sel>>

\* stale_evict_interval: mark_stale_if_idle, then remove the old Stale routes.
StaleEvict ==
    LET dead == {v \in Routed(rt) : link[v].age = Dead} IN
    /\ EngineFree
    /\ rt' = RemoveAll(rt, dead)
    /\ link' = [v \in Vips |->
                  CASE v \in dead -> NewLink
                    [] v \in Routed(rt) \ dead /\ link[v].age = Idle ->
                         [link[v] EXCEPT !.state = "Stale"]
                    [] OTHER -> link[v]]
    /\ path_ep' = ClearPaths(path_ep, dead)
    /\ UNCHANGED <<running, sel>>

----------------------------------------------------------------------------
\* handle_tun_packet for dest: select_relay_endpoint yields the stamped hop or
\* the best one; without a hop the packet goes direct.
SelectRelay(dest, hop) ==
    /\ EngineFree /\ dest \in Routed(rt)
    /\ hop # None => HopUsable(rt, link, hop, dest)
    /\ sel' = [dest |-> dest, hop |-> hop, alt |-> None]
    /\ UNCHANGED <<rt, link, path_ep, running>>

\* send_relay_hop: a relayed send fails, the failure is noted, and another hop is
\* tried if one is usable.  The send is the one to the hop or, while the path
\* changes, the copy to the endpoint the route had before (dual_write).
HopFails(failed, alt) ==
    LET v == DataVip(failed)
        l == IF v = None THEN link ELSE [link EXCEPT ![v] = Failed(link[v])]
    IN  /\ sel # NoSelection /\ sel.alt = None
        /\ alt # None => alt # failed /\ HopUsable(rt, l, alt, sel.dest)
        /\ link' = l
        /\ sel' = [sel EXCEPT !.alt = alt]
        /\ UNCHANGED <<rt, path_ep, running>>

\* stamp_relay_hop, unless the destination is gone by now.
StampHop(d, hop) ==
    /\ IF d \in Routed(rt)
       THEN /\ SetLink(d, [link[d] EXCEPT !.relay = hop])
            /\ path_ep' = Reindex(path_ep, d, rt.table[d].ep, hop)
       ELSE UNCHANGED <<link, path_ep>>
    /\ UNCHANGED <<rt, running>>

\* The send to the other hop succeeds.
StampAlternative ==
    /\ sel.alt # None
    /\ StampHop(sel.dest, sel.alt)
    /\ sel' = [sel EXCEPT !.alt = None]

\* The end of handle_tun_packet: the hop chosen first is stamped, even if the
\* send to it failed.
StampRelay ==
    /\ sel # NoSelection
    /\ IF sel.hop # None THEN StampHop(sel.dest, sel.hop)
                         ELSE UNCHANGED <<rt, link, path_ep, running>>
    /\ sel' = NoSelection

Next ==
    \/ \E v \in Vips, e \in Endpoints, n \in NodeIds \cup {None} :
          \/ Load(v, e, n)
          \/ \E hop \in Endpoints \cup {None} : UpdateRoute(v, e, n, hop)
    \/ \E v \in Vips : Remove(v)
    \/ \E V \in SUBSET Routed(rt) : Drain(V)
    \/ Start \/ Reset \/ Age \/ StaleEvict \/ StampAlternative \/ StampRelay
    \/ \E e \in Endpoints : Promote(e) \/ ApplyLastSeen(e) \/ NoteFail(e)
    \/ \E e \in Endpoints, active, good \in BOOLEAN : NoteRtt(e, active, good)
    \/ \E d \in Vips, e \in Endpoints \cup {None} : SelectRelay(d, e)
    \/ \E e \in Endpoints, alt \in Endpoints \cup {None} : HopFails(e, alt)

Spec == Init /\ [][Next]_vars

----------------------------------------------------------------------------
\* Shape of the table, its indexes and its entries.
TypeOK ==
    /\ rt \in RouteType
    /\ link \in [Vips -> Link]
    /\ path_ep \in [Endpoints -> Vips \cup {None}]
    /\ running \in BOOLEAN
    /\ sel = NoSelection \/ sel \in Selection

\* A secondary endpoint found in path_ep_to_vip is the relay slot of a routed
\* VIP and not its primary endpoint.
PathsSound(r, l, pe) ==
    \A e \in Endpoints : pe[e] # None =>
        LET v == pe[e] IN
        v \in Routed(r) /\ l[v].relay = e /\ r.table[v].ep # e

\* No lookup by endpoint or node_id is stale: whatever updates, aliases,
\* removals and relay stamps follow one another, a hit in ep_to_vip, in
\* node_to_vip or in path_ep_to_vip is a routed VIP that has that endpoint or
\* node, so that samples and failures are never charged to a route without it.
IndexesSound == EpSound(rt) /\ NodeSound(rt) /\ PathsSound(rt, link, path_ep)

Forgotten(r, l) == \A v \in Vips \ Routed(r) : l[v] = NewLink

\* A VIP without a route has no leftovers of an earlier one: a route that is
\* inserted again starts as a fresh Candidate without relay hop.
RemovedIsForgotten == Forgotten(rt, link)

Detour(r, l) == \A v \in Routed(r) : l[v].relay # r.table[v].ep

\* Failing over to the relay never repeats the direct path: the relay slot of a
\* route is not its own endpoint, although the endpoint changes under the slot
\* and a hop is stamped some time after it was chosen.
RelayIsDetour == Detour(rt, link)

\* The endpoint of a route that another VIP has taken over.
Shadowed(v) == v \in Routed(rt) /\ rt.ep_to_vip[rt.table[v].ep] # v

\* The engine is started, its data sends end, time passes, and the select loop,
\* which polls its branches in random order, gets to the timer between packets.
TimerSpec ==
    Spec /\ WF_vars(Start) /\ WF_vars(Age) /\ SF_vars(StaleEvict) /\ WF_vars(StampRelay)

\* A route that lost its endpoint to another VIP does not stay for ever: no
\* traffic of the new holder refreshes it, so that it is marked Stale and
\* evicted, unless it is updated or its relay slot keeps it in touch.
ShadowedRouteGoes ==
    \A v \in Vips : []<>(~Shadowed(v) \/ \E e \in Endpoints : path_ep[e] = v)
=============================================================================
