----------------------------- MODULE RouteCore -----------------------------
(***************************************************************************)
(* The core of RoutingTable (src/src/routing.rs): the table itself and its *)
(* two reverse indexes by direct endpoint and by node_id, as a record      *)
(*                                                                         *)
(*   rt = [table |-> [Vips -> entry], ep_to_vip |-> [Endpoints -> vip],    *)
(*         node_to_vip |-> [NodeIds -> vip]]                               *)
(*                                                                         *)
(* A HashMap is a total function here: an absent VIP has the entry NoEntry *)
(* and an absent index key maps to None.  The operators are the table's    *)
(* update and remove, used by RoutingTable (one table, all its operations) *)
(* and by ClaimGossip (one table per node).                                *)
(***************************************************************************)
EXTENDS Integers

CONSTANTS Vips,       \* host addresses of the unit's /24
          Endpoints,  \* socket addresses
          NodeIds     \* node identifiers

\* VIPs, endpoints and node_ids are positive numbers, so that 0 can stand for
\* "absent"; the order of node_ids is the lexicographic one of the hex strings.
ASSUME CoreAssumption ==
    /\ Vips \subseteq Nat \ {0}
    /\ Endpoints \subseteq Nat \ {0}
    /\ NodeIds \subseteq Nat \ {0}

None == 0
NoEntry == [ep |-> None, node |-> None]

Entry == [ep : Endpoints, node : NodeIds \cup {None}]

RouteType == [table : [Vips -> Entry \cup {NoEntry}],
              ep_to_vip : [Endpoints -> Vips \cup {None}],
              node_to_vip : [NodeIds -> Vips \cup {None}]]

EmptyRoutes == [table |-> [v \in Vips |-> NoEntry],
                ep_to_vip |-> [e \in Endpoints |-> None],
                node_to_vip |-> [n \in NodeIds |-> None]]

Routed(rt) == {v \in Vips : rt.table[v] # NoEntry}
RoutedEndpoints(rt) == {rt.table[v].ep : v \in Routed(rt)}

\* RoutingTable::remove of every VIP in V.  ep_to_vip is cleared only where it
\* points at a removed VIP; node_to_vip is cleared whatever it points at.
RemoveAll(rt, V) ==
    LET gone == V \cap Routed(rt) IN
    [table |-> [v \in Vips |-> IF v \in V THEN NoEntry ELSE rt.table[v]],
     ep_to_vip |-> [e \in Endpoints |->
                      IF \E v \in gone : rt.table[v].ep = e /\ rt.ep_to_vip[e] = v
                      THEN None ELSE rt.ep_to_vip[e]],
     node_to_vip |-> [n \in NodeIds |->
                      IF \E v \in gone : rt.table[v].node = n
                      THEN None ELSE rt.node_to_vip[n]]]

RemoveVip(rt, vip) == RemoveAll(rt, {vip})

\* The endpoint is already indexed under another VIP.
Aliased(rt, vip, ep) == rt.ep_to_vip[ep] \notin {None, vip}

PrevNode(rt, ep) == rt.table[rt.ep_to_vip[ep]].node

\* update returns early: the endpoint belongs to an identified peer, and the
\* caller names another one, or names none while that route is not
\* Stale or Degraded (weak).
AliasRejected(rt, vip, ep, node, weak) ==
    /\ Aliased(rt, vip, ep)
    /\ PrevNode(rt, ep) # None
    /\ \/ node # None /\ node # PrevNode(rt, ep)
       \/ node = None /\ ~weak

\* What update does to the VIP that held the endpoint before.
ReleaseAlias(rt, vip, ep, node) ==
    CASE Aliased(rt, vip, ep) /\ node # None -> RemoveVip(rt, rt.ep_to_vip[ep])
      [] Aliased(rt, vip, ep) /\ node = None -> [rt EXCEPT !.ep_to_vip[ep] = None]
      [] OTHER -> rt

\* The entry written for vip: a caller without node_id keeps the old one.
NewEntry(rt, vip, ep, node) ==
    [ep |-> ep, node |-> IF node # None THEN node ELSE rt.table[vip].node]

\* The insertion that ends update: the old endpoint and, when the node changes,
\* the old node leave the indexes, whoever they point at.
Install(rt, vip, entry) ==
    LET old == rt.table[vip] IN
    [table |-> [rt.table EXCEPT ![vip] = entry],
     ep_to_vip |-> [e \in Endpoints |->
                      CASE e = entry.ep -> vip
                        [] e = old.ep /\ e # entry.ep -> None
                        [] OTHER -> rt.ep_to_vip[e]],
     node_to_vip |-> [n \in NodeIds |->
                      CASE n = entry.node -> vip
                        [] n = old.node /\ n # entry.node -> None
                        [] OTHER -> rt.node_to_vip[n]]]

\* RoutingTable::update(vip, ep, node_id)
UpdateVip(rt, vip, ep, node, weak) ==
    IF AliasRejected(rt, vip, ep, node, weak)
    THEN rt
    ELSE LET r == ReleaseAlias(rt, vip, ep, node)
         IN  Install(r, vip, NewEntry(r, vip, ep, node))

\* A hit in a reverse index is a routed VIP with that endpoint or node_id.
EpSound(rt) ==
    \A e \in Endpoints : rt.ep_to_vip[e] # None => rt.table[rt.ep_to_vip[e]].ep = e
NodeSound(rt) ==
    \A n \in NodeIds : rt.node_to_vip[n] # None => rt.table[rt.node_to_vip[n]].node = n
=============================================================================
