------------------------ MODULE RoutingTableProofs -------------------------
(***************************************************************************)
(* Proofs about RoutingTable, for every set of VIPs, endpoints and         *)
(* node_ids: its type invariant, the soundness of its reverse indexes and  *)
(* of its relay slots.                                                     *)
(***************************************************************************)
EXTENDS RoutingTable, TLAPS

\* remove, of any number of VIPs, yields a well-formed table without them and
\* leaves the other entries alone.
LEMMA RemoveAllType ==
    ASSUME NEW r \in RouteType, NEW V \in SUBSET Vips
    PROVE  /\ RemoveAll(r, V) \in RouteType
           /\ \A v \in Vips : RemoveAll(r, V).table[v] = IF v \in V THEN NoEntry ELSE r.table[v]
BY DEF RemoveAll, RouteType, Routed

\* remove keeps the reverse indexes sound.
LEMMA RemoveAllSound ==
    ASSUME NEW r \in RouteType, NEW V \in SUBSET Vips, EpSound(r), NodeSound(r)
    PROVE  EpSound(RemoveAll(r, V)) /\ NodeSound(RemoveAll(r, V))
<1> DEFINE q == RemoveAll(r, V)
<1>1. EpSound(q)
  <2> SUFFICES ASSUME NEW e \in Endpoints, q.ep_to_vip[e] # None
               PROVE  q.table[q.ep_to_vip[e]].ep = e
    BY DEF EpSound
  <2> QED
    BY CoreAssumption DEF EpSound, RemoveAll, RouteType, Routed, None, NoEntry, Entry
<1>2. NodeSound(q)
  <2> SUFFICES ASSUME NEW n \in NodeIds, q.node_to_vip[n] # None
               PROVE  q.table[q.node_to_vip[n]].node = n
    BY DEF NodeSound
  <2> QED
    BY CoreAssumption DEF NodeSound, RemoveAll, RouteType, Routed, None, NoEntry, Entry
<1> QED
  BY <1>1, <1>2

\* The insertion at the end of update keeps the table well-formed and touches
\* no other entry.
LEMMA InstallType ==
    ASSUME NEW r \in RouteType, NEW vip \in Vips, NEW entry \in Entry
    PROVE  /\ Install(r, vip, entry) \in RouteType
           /\ \A v \in Vips :
                 Install(r, vip, entry).table[v] = IF v = vip THEN entry ELSE r.table[v]
BY DEF Install, RouteType

\* The insertion keeps the reverse indexes sound: it drops what pointed at vip
\* through its old endpoint and node.
LEMMA InstallSound ==
    ASSUME NEW r \in RouteType, NEW vip \in Vips, NEW entry \in Entry, EpSound(r), NodeSound(r)
    PROVE  EpSound(Install(r, vip, entry)) /\ NodeSound(Install(r, vip, entry))
<1> DEFINE q == Install(r, vip, entry)
<1>1. EpSound(q)
  <2> SUFFICES ASSUME NEW e \in Endpoints, q.ep_to_vip[e] # None
               PROVE  q.table[q.ep_to_vip[e]].ep = e
    BY DEF EpSound
  <2> QED
    BY CoreAssumption DEF EpSound, Install, RouteType, None, NoEntry, Entry
<1>2. NodeSound(q)
  <2> SUFFICES ASSUME NEW n \in NodeIds, q.node_to_vip[n] # None
               PROVE  q.table[q.node_to_vip[n]].node = n
    BY DEF NodeSound
  <2> QED
    BY CoreAssumption DEF NodeSound, Install, RouteType, None, NoEntry, Entry
<1> QED
  BY <1>1, <1>2

\* update keeps the table well-formed and its indexes sound.
LEMMA UpdateVipSound ==
    ASSUME NEW r \in RouteType, EpSound(r), NodeSound(r),
           NEW vip \in Vips, NEW ep \in Endpoints, NEW node \in NodeIds \cup {None},
           NEW weak \in BOOLEAN
    PROVE  /\ UpdateVip(r, vip, ep, node, weak) \in RouteType
           /\ EpSound(UpdateVip(r, vip, ep, node, weak))
           /\ NodeSound(UpdateVip(r, vip, ep, node, weak))
           /\ ~AliasRejected(r, vip, ep, node, weak) =>
                 \A v \in Vips : UpdateVip(r, vip, ep, node, weak).table[v] =
                    IF v = vip THEN NewEntry(r, vip, ep, node)
                    ELSE IF Aliased(r, vip, ep) /\ node # None /\ v = r.ep_to_vip[ep]
                         THEN NoEntry ELSE r.table[v]
<1> DEFINE q == ReleaseAlias(r, vip, ep, node)
           drop == Aliased(r, vip, ep) /\ node # None
<1>1. q \in RouteType /\ EpSound(q) /\ NodeSound(q)
      /\ \A v \in Vips : q.table[v] = IF drop /\ v = r.ep_to_vip[ep] THEN NoEntry ELSE r.table[v]
  <2>1. CASE drop
    <3>1. r.ep_to_vip[ep] \in Vips /\ q = RemoveAll(r, {r.ep_to_vip[ep]})
      BY <2>1 DEF ReleaseAlias, Aliased, RemoveVip, RouteType
    <3> QED
      BY <2>1, <3>1, RemoveAllType, RemoveAllSound
  <2>2. CASE Aliased(r, vip, ep) /\ node = None
    <3>1. q = [r EXCEPT !.ep_to_vip[ep] = None]
      BY <2>2 DEF ReleaseAlias
    <3>2. q \in RouteType /\ q.table = r.table /\ q.node_to_vip = r.node_to_vip
          /\ \A e \in Endpoints : q.ep_to_vip[e] = IF e = ep THEN None ELSE r.ep_to_vip[e]
      BY <3>1 DEF RouteType
    <3>3. EpSound(q)
      BY <3>2 DEF EpSound
    <3>4. NodeSound(q)
      BY <3>2 DEF NodeSound
    <3> QED
      BY <2>2, <3>2, <3>3, <3>4
  <2>3. CASE ~Aliased(r, vip, ep)
    <3>1. q = r
      BY <2>3 DEF ReleaseAlias
    <3> QED
      BY <2>3, <3>1
  <2> QED
    BY <2>1, <2>2, <2>3
<1>2. NewEntry(q, vip, ep, node) = NewEntry(r, vip, ep, node)
  BY <1>1 DEF NewEntry, Aliased
<1>3. NewEntry(r, vip, ep, node) \in Entry
  BY DEF NewEntry, Entry, RouteType, NoEntry
<1>4. CASE AliasRejected(r, vip, ep, node, weak)
  BY <1>4 DEF UpdateVip
<1>5. CASE ~AliasRejected(r, vip, ep, node, weak)
  <2>1. UpdateVip(r, vip, ep, node, weak) = Install(q, vip, NewEntry(r, vip, ep, node))
    BY <1>2, <1>5 DEF UpdateVip
  <2> HIDE DEF q
  <2>2. /\ Install(q, vip, NewEntry(r, vip, ep, node)) \in RouteType
        /\ \A v \in Vips : Install(q, vip, NewEntry(r, vip, ep, node)).table[v] =
              IF v = vip THEN NewEntry(r, vip, ep, node) ELSE q.table[v]
    BY <1>1, <1>3, InstallType
  <2>3. EpSound(Install(q, vip, NewEntry(r, vip, ep, node)))
        /\ NodeSound(Install(q, vip, NewEntry(r, vip, ep, node)))
    BY <1>1, <1>3, InstallSound
  <2> QED
    BY <1>1, <2>1, <2>2, <2>3
<1> QED
  BY <1>4, <1>5

----------------------------------------------------------------------------
\* The table with entries l and secondary endpoints pe is well-formed, its three
\* indexes are sound and removed routes are forgotten.  The three are needed
\* together: a sample or a failure reaches an entry through an index, and only
\* soundness says that this entry is routed.
TableInv(r, l, pe) ==
    /\ r \in RouteType
    /\ l \in [Vips -> Link]
    /\ pe \in [Endpoints -> Vips \cup {None}]
    /\ EpSound(r) /\ NodeSound(r) /\ PathsSound(r, l, pe)
    /\ Forgotten(r, l)

\* A pending relay send goes round the direct endpoint of its destination.
SelApart ==
    \/ sel = NoSelection
    \/ /\ sel \in Selection
       /\ sel.dest \in Routed(rt) => rt.table[sel.dest].ep \notin {sel.hop, sel.alt}

\* No relay is in use before the engine runs.
NoRelayYet == running \/ (sel = NoSelection /\ \A v \in Vips : link[v].relay = None)

\* The inductive invariant.
Inv ==
    /\ TableInv(rt, link, path_ep)
    /\ Detour(rt, link)
    /\ running \in BOOLEAN
    /\ SelApart
    /\ NoRelayYet

\* A VIP is routed iff its entry has an endpoint.
LEMMA RoutedIff ==
    ASSUME NEW r \in RouteType, NEW v \in Vips
    PROVE  v \in Routed(r) <=> r.table[v].ep # None
BY CoreAssumption DEF RouteType, Routed, Entry, NoEntry, None

\* What an index yields is a routed VIP.
LEMMA IndexHit ==
    ASSUME Inv, NEW ep \in Endpoints
    PROVE  /\ rt.ep_to_vip[ep] # None => rt.ep_to_vip[ep] \in Routed(rt)
           /\ DataVip(ep) # None => DataVip(ep) \in Routed(rt)
<1>1. rt.ep_to_vip[ep] # None => rt.ep_to_vip[ep] \in Routed(rt)
  <2> HAVE rt.ep_to_vip[ep] # None
  <2>1. rt \in RouteType /\ rt.ep_to_vip[ep] \in Vips
    BY DEF Inv, TableInv, RouteType
  <2>2. rt.table[rt.ep_to_vip[ep]].ep = ep /\ ep # None
    BY CoreAssumption DEF Inv, TableInv, EpSound, None
  <2> QED
    BY <2>1, <2>2, RoutedIff
<1>2. path_ep[ep] # None => path_ep[ep] \in Routed(rt)
  BY DEF Inv, TableInv, PathsSound
<1> QED
  BY <1>1, <1>2 DEF DataVip

\* Rewriting the entry of a routed VIP, its relay slot apart.
LEMMA LinkInv ==
    ASSUME NEW r, NEW l, NEW pe, TableInv(r, l, pe), Detour(r, l),
           NEW v \in Routed(r), NEW k \in Link, k.relay = l[v].relay
    PROVE  /\ TableInv(r, [l EXCEPT ![v] = k], pe)
           /\ Detour(r, [l EXCEPT ![v] = k])
           /\ \A w \in Vips : [l EXCEPT ![v] = k][w].relay = l[w].relay
<1>1. v \in Vips
  BY DEF Routed
<1> DEFINE m == [l EXCEPT ![v] = k]
<1>2. m \in [Vips -> Link] /\ \A w \in Vips : m[w] = IF w = v THEN k ELSE l[w]
  BY <1>1 DEF TableInv
<1> HIDE DEF m
<1>3. \A w \in Vips : m[w].relay = l[w].relay
  BY <1>2
<1>4. PathsSound(r, m, pe)
  BY <1>3 DEF TableInv, PathsSound, Routed
<1>5. Forgotten(r, m)
  BY <1>2 DEF TableInv, Forgotten
<1>6. Detour(r, m)
  BY <1>3 DEF Detour, Routed
<1> QED
  BY <1>2, <1>3, <1>4, <1>5, <1>6 DEF TableInv, m

\* A step that only rewrites entries and keeps the relay slots.
LEMMA LinkStep ==
    ASSUME Inv, UNCHANGED <<rt, path_ep, running, sel>>,
           NEW v \in Routed(rt), NEW k \in Link, k.relay = link[v].relay, SetLink(v, k)
    PROVE  Inv'
<1>1. link' = [link EXCEPT ![v] = k]
  BY DEF SetLink
<1>2. /\ TableInv(rt, link', path_ep) /\ Detour(rt, link')
      /\ \A w \in Vips : link'[w].relay = link[w].relay
  <2>1. TableInv(rt, link, path_ep) /\ Detour(rt, link)
    BY DEF Inv
  <2>2. /\ TableInv(rt, [link EXCEPT ![v] = k], path_ep)
        /\ Detour(rt, [link EXCEPT ![v] = k])
        /\ \A w \in Vips : [link EXCEPT ![v] = k][w].relay = link[w].relay
    BY <2>1, LinkInv
  <2> QED
    BY <1>1, <2>2
<1> QED
  BY <1>2 DEF Inv, SelApart, NoRelayYet, TableInv, Detour, EpSound, NodeSound, PathsSound,
              Forgotten, Routed

\* Streaks stay within their range.
LEMMA Streaks ==
    ASSUME NEW k \in 0..StreakMax
    PROVE  Bump(k) \in 0..StreakMax /\ Lower(k) \in 0..StreakMax
BY TableAssumption DEF Bump, Lower

\* Rewriting fields of an entry by values of their types, its relay slot apart.
LEMMA PromotedLink ==
    ASSUME NEW k \in Link, NEW a \in Fresh..Dead
    PROVE  /\ [k EXCEPT !.state = "Candidate", !.age = a] \in Link
           /\ [k EXCEPT !.state = "Candidate", !.age = a].relay = k.relay
           /\ [k EXCEPT !.age = a] \in Link
           /\ [k EXCEPT !.age = a].relay = k.relay
BY DEF Link

\* The entry that update inserts is well-formed.
LEMMA NewLinkType == NewLink \in Link
BY TableAssumption DEF NewLink, Link, Fresh, Dead

\* The youngest age is one.
LEMMA FreshType == Fresh \in Fresh..Dead
BY DEF Fresh, Dead

\* note_fail keeps an entry well-formed and its relay slot.
LEMMA FailedType ==
    ASSUME NEW k \in Link
    PROVE  Failed(k) \in Link /\ Failed(k).relay = k.relay
<1> DEFINE streak == Bump(k.fails)
           s(old) == CASE streak >= StaleAt -> "Stale"
                       [] streak >= DegradedAt /\ streak < StaleAt -> "Degraded"
                       [] OTHER -> old
           low == Lower(k.successes)
           x == s(k.state)
<1>1. x \in {"Stale", "Degraded", k.state}
  BY Zenon
<1>2. streak \in 0..StreakMax /\ low \in 0..StreakMax
  BY Streaks DEF Link
<1>3. Failed(k) = [k EXCEPT !.fails = streak, !.successes = low, !.state = x]
  BY DEF Failed
<1> HIDE DEF s, streak, low, x
<1> QED
  BY <1>1, <1>2, <1>3 DEF Link

\* Traffic: promotion, last_seen, RTT samples and failures.
LEMMA TrafficStep ==
    ASSUME Inv, NEW ep \in Endpoints,
           \/ Promote(ep) \/ ApplyLastSeen(ep) \/ NoteFail(ep)
           \/ \E active, good \in BOOLEAN : NoteRtt(ep, active, good)
    PROVE  Inv'
<1>0. /\ \A v \in Routed(rt) : v \in Vips /\ link[v] \in Link
      /\ Fresh \in Fresh..Dead
  BY FreshType DEF Inv, TableInv, Routed
<1>1. CASE Promote(ep)
  <2> DEFINE v == rt.ep_to_vip[ep]
             l == [link[v] EXCEPT !.state = "Candidate", !.age = Fresh]
  <2>1. v \in Routed(rt) /\ SetLink(v, l) /\ UNCHANGED <<rt, path_ep, running, sel>>
    BY <1>1, IndexHit DEF Promote
  <2>2. l \in Link /\ l.relay = link[v].relay
    BY <1>0, <2>1, PromotedLink
  <2> QED
    BY <2>1, <2>2, LinkStep
<1>2. CASE ApplyLastSeen(ep)
  <2> DEFINE v == rt.ep_to_vip[ep]
             l == [link[v] EXCEPT !.age = Fresh]
  <2>1. v \in Routed(rt) /\ SetLink(v, l) /\ UNCHANGED <<rt, path_ep, running, sel>>
    BY <1>2, IndexHit DEF ApplyLastSeen
  <2>2. l \in Link /\ l.relay = link[v].relay
    BY <1>0, <2>1, PromotedLink
  <2> QED
    BY <2>1, <2>2, LinkStep
<1>3. CASE NoteFail(ep)
  <2>1. DataVip(ep) \in Routed(rt) /\ SetLink(DataVip(ep), Failed(link[DataVip(ep)]))
        /\ UNCHANGED <<rt, path_ep, running, sel>>
    BY <1>3, IndexHit DEF NoteFail
  <2> QED
    BY <1>0, <2>1, FailedType, LinkStep
<1>4. ASSUME NEW active \in BOOLEAN, NEW good \in BOOLEAN, NoteRtt(ep, active, good)
      PROVE  Inv'
  <2> DEFINE v == DataVip(ep)
             s(old) == CASE ~good -> "Degraded"
                         [] good /\ Bump(link[v].successes) >= ActiveAt -> "Active"
                         [] OTHER -> old
             sampled == [link[v] EXCEPT !.age = Fresh, !.successes = Bump(@),
                                        !.fails = Lower(@), !.state = s(@)]
             l == IF active THEN sampled ELSE [link[v] EXCEPT !.age = Fresh]
  <2>1. v \in Routed(rt) /\ SetLink(v, l) /\ UNCHANGED <<rt, path_ep, running, sel>>
    BY <1>4, IndexHit DEF NoteRtt
  <2>2. s(link[v].state) \in {"Degraded", "Active", link[v].state}
    BY Zenon
  <2>3. link[v] \in Link
    BY <1>0, <2>1
  <2>4. Bump(link[v].successes) \in 0..StreakMax /\ Lower(link[v].fails) \in 0..StreakMax
    BY <2>3, Streaks DEF Link
  <2> HIDE DEF s
  <2>5. s(link[v].state) \in {"Candidate", "Active", "Degraded", "Stale"}
    BY <2>2, <2>3 DEF Link
  <2>6. sampled \in Link /\ sampled.relay = link[v].relay
    <3> DEFINE k == link[v]
               n == Bump(k.successes)
               f == Lower(k.fails)
               x == s(k.state)
    <3>1. /\ k \in Link /\ n \in 0..StreakMax /\ f \in 0..StreakMax
          /\ x \in {"Candidate", "Active", "Degraded", "Stale"}
      BY <2>3, <2>4, <2>5
    <3>2. sampled = [k EXCEPT !.age = Fresh, !.successes = n, !.fails = f, !.state = x]
      OBVIOUS
    <3> HIDE DEF k, n, f, x
    <3>3. /\ [k EXCEPT !.age = Fresh, !.successes = n, !.fails = f, !.state = x] \in Link
          /\ [k EXCEPT !.age = Fresh, !.successes = n, !.fails = f, !.state = x].relay = k.relay
      BY <1>0, <3>1 DEF Link
    <3> QED
      BY <3>2, <3>3 DEF k
  <2>7. l \in Link /\ l.relay = link[v].relay
    BY <1>0, <2>3, <2>6, PromotedLink
  <2> QED
    BY <2>1, <2>7, LinkStep
<1> QED
  BY <1>1, <1>2, <1>3, <1>4

\* update keeps the table's invariant.  It rewrites the endpoint of vip and may
\* remove the VIP that held the endpoint; other routes keep endpoint and relay.
LEMMA UpdateInv ==
    ASSUME TableInv(rt, link, path_ep),
           NEW vip \in Vips, NEW ep \in Endpoints, NEW node \in NodeIds \cup {None}
    PROVE  LET r == UpdatedRoutes(vip, ep, node)
               l == UpdatedLink(vip, ep, node)
           IN  /\ TableInv(r, l, UpdatedPaths(vip, ep, node))
               /\ l[vip].relay = link[vip].relay
               /\ \A v \in Vips \ {vip} :
                     /\ v \in Routed(r) => /\ v \in Routed(rt) /\ r.table[v] = rt.table[v]
                                           /\ l[v].relay = link[v].relay
                     /\ v \notin Routed(r) => l[v].relay = None
<1> DEFINE weak == Weak(rt.ep_to_vip[ep])
           gone == Released(vip, ep, node)
           entry == NewEntry(rt, vip, ep, node)
           r == UpdatedRoutes(vip, ep, node)
           l == UpdatedLink(vip, ep, node)
           pe == UpdatedPaths(vip, ep, node)
<1>1. rt \in RouteType /\ EpSound(rt) /\ NodeSound(rt) /\ weak \in BOOLEAN
  BY DEF TableInv, Weak
<1>2. /\ r \in RouteType /\ EpSound(r) /\ NodeSound(r)
      /\ ~Rejected(vip, ep, node) =>
           \A v \in Vips : r.table[v] = IF v = vip THEN entry
                                        ELSE IF v \in gone THEN NoEntry ELSE rt.table[v]
  <2>1. r = UpdateVip(rt, vip, ep, node, weak)
        /\ Rejected(vip, ep, node) = AliasRejected(rt, vip, ep, node, weak)
    BY DEF UpdatedRoutes, Rejected
  <2> HIDE DEF weak, r
  <2> QED
    BY <1>1, <2>1, UpdateVipSound DEF Released
<1>3. CASE Rejected(vip, ep, node)
  <2>1. r = rt /\ l = link /\ pe = path_ep
    BY <1>3 DEF UpdatedRoutes, UpdatedLink, UpdatedPaths, UpdateVip, Rejected
  <2>2. \A v \in Vips : v \notin Routed(rt) => link[v].relay = None
    BY DEF TableInv, Forgotten, NewLink
  <2> HIDE DEF r, l, pe
  <2>3. /\ TableInv(r, l, pe) /\ l[vip].relay = link[vip].relay
        /\ \A v \in Vips \ {vip} :
              /\ v \in Routed(r) => /\ v \in Routed(rt) /\ r.table[v] = rt.table[v]
                                    /\ l[v].relay = link[v].relay
              /\ v \notin Routed(r) => l[v].relay = None
    BY <2>1, <2>2
  <2> QED
    BY <2>3 DEF r, l, pe
<1>4. CASE ~Rejected(vip, ep, node)
  <2>1. /\ l = [v \in Vips |-> CASE v = vip -> [link[v] EXCEPT !.age = Fresh]
                                 [] v # vip /\ v \in gone -> NewLink
                                 [] OTHER -> link[v]]
        /\ pe = Reindex(ClearPaths(path_ep, gone), vip, ep, link[vip].relay)
    BY <1>4 DEF UpdatedLink, UpdatedPaths
  <2>2. entry.ep = ep /\ ep # None
    BY CoreAssumption DEF NewEntry, None
  <2> HIDE DEF r, l, pe, gone, entry
  <2>3. \A v \in Vips : /\ v = vip => l[v] = [link[v] EXCEPT !.age = Fresh]
                        /\ v # vip /\ v \in gone => l[v] = NewLink
                        /\ v # vip /\ v \notin gone => l[v] = link[v]
    BY <2>1, Zenon
  <2>4. \A v \in Vips : v \in Routed(r) <=> v = vip \/ (v \in Routed(rt) /\ v \notin gone)
    <3>1. \A v \in Vips : r.table[v].ep # None <=>
             v = vip \/ (rt.table[v].ep # None /\ v \notin gone)
      <4> TAKE v \in Vips
      <4>1. /\ v = vip => r.table[v].ep = ep
            /\ v # vip /\ v \in gone => r.table[v].ep = None
            /\ v # vip /\ v \notin gone => r.table[v].ep = rt.table[v].ep
        BY <1>2, <1>4, <2>2 DEF NoEntry
      <4>2. v = vip => v \notin gone \/ r.table[v].ep # None
        BY <2>2, <4>1
      <4> QED
        BY <2>2, <4>1
    <3> QED
      BY <1>1, <1>2, <3>1, RoutedIff
  <2>5. \A e \in Endpoints :
           pe[e] = IF e = link[vip].relay /\ e # ep THEN vip
                   ELSE IF path_ep[e] \in gone \cup {vip} THEN None ELSE path_ep[e]
    BY <2>1 DEF Reindex, ClearPaths
  <2>6. l \in [Vips -> Link] /\ l[vip].relay = link[vip].relay
    <3>1. ASSUME NEW v \in Vips
          PROVE  l[v] \in Link /\ (v = vip => l[v].relay = link[v].relay)
      <4>1. link[v] \in Link
        BY DEF TableInv
      <4>2. [link[v] EXCEPT !.age = Fresh] \in Link
            /\ [link[v] EXCEPT !.age = Fresh].relay = link[v].relay
        BY <4>1, PromotedLink, FreshType
      <4> QED
        BY <2>3, <4>1, <4>2, NewLinkType, Zenon
    <3> QED
      BY <2>1, <3>1
  <2>7. pe \in [Endpoints -> Vips \cup {None}]
    BY <2>1, <2>5 DEF TableInv, Reindex
  <2>8. PathsSound(r, l, pe)
    <3> SUFFICES ASSUME NEW e \in Endpoints, pe[e] # None
                 PROVE  LET v == pe[e] IN
                        v \in Routed(r) /\ l[v].relay = e /\ r.table[v].ep # e
      BY DEF PathsSound
    <3>1. CASE pe[e] = vip /\ e = link[vip].relay /\ e # ep
      BY <1>2, <1>4, <2>2, <2>4, <2>6, <3>1
    <3>2. CASE pe[e] = path_ep[e] /\ path_ep[e] \notin gone \cup {vip}
      <4>1. path_ep[e] \in Routed(rt) /\ path_ep[e] \in Vips
            /\ link[path_ep[e]].relay = e /\ rt.table[path_ep[e]].ep # e
        BY <3>2 DEF TableInv, PathsSound, Routed
      <4> QED
        BY <1>2, <1>4, <2>3, <2>4, <3>2, <4>1
    <3> QED
      BY <2>5, <3>1, <3>2
  <2>9. Forgotten(r, l)
    BY <2>3, <2>4 DEF TableInv, Forgotten
  <2>10. \A v \in Vips \ {vip} :
            /\ v \in Routed(r) => /\ v \in Routed(rt) /\ r.table[v] = rt.table[v]
                                  /\ l[v].relay = link[v].relay
            /\ v \notin Routed(r) => l[v].relay = None
    <3> TAKE v \in Vips \ {vip}
    <3>1. v \in Routed(r) => v \in Routed(rt) /\ v \notin gone
      BY <2>4
    <3>2. v \notin gone => r.table[v] = rt.table[v] /\ l[v] = link[v]
      BY <1>2, <1>4, <2>3
    <3>3. v \notin Routed(r) => l[v].relay = None
      BY <2>9 DEF Forgotten, NewLink
    <3> QED
      BY <3>1, <3>2, <3>3
  <2>11. TableInv(r, l, pe)
    BY <1>2, <2>6, <2>7, <2>8, <2>9 DEF TableInv
  <2> QED
    BY <2>6, <2>10, <2>11 DEF r, l, pe
<1> QED
  BY <1>3, <1>4

\* stamp_relay_hop and clear_relay_path: the relay slot of a routed VIP is
\* rewritten and its secondary endpoints indexed again.
LEMMA StampInv ==
    ASSUME NEW r, NEW l, NEW pe, TableInv(r, l, pe),
           NEW d \in Routed(r), NEW hop \in Endpoints \cup {None}
    PROVE  LET m == [l EXCEPT ![d] = [l[d] EXCEPT !.relay = hop]]
           IN  /\ TableInv(r, m, Reindex(pe, d, r.table[d].ep, hop))
               /\ m[d].relay = hop /\ \A v \in Vips \ {d} : m[v] = l[v]
<1> DEFINE k == [l[d] EXCEPT !.relay = hop]
           m == [l EXCEPT ![d] = k]
           q == Reindex(pe, d, r.table[d].ep, hop)
<1>1. d \in Vips
  BY DEF Routed
<1>2. k \in Link /\ k.relay = hop
  BY <1>1 DEF TableInv, Link
<1> HIDE DEF k
<1>3. m \in [Vips -> Link] /\ \A v \in Vips : m[v] = IF v = d THEN k ELSE l[v]
  BY <1>1, <1>2 DEF TableInv
<1>4. /\ q \in [Endpoints -> Vips \cup {None}]
      /\ \A e \in Endpoints : q[e] = IF e = hop /\ e # r.table[d].ep THEN d
                                     ELSE IF pe[e] = d THEN None ELSE pe[e]
  BY <1>1 DEF TableInv, Reindex, ClearPaths
<1> HIDE DEF m, q
<1>5. PathsSound(r, m, q)
  <2> SUFFICES ASSUME NEW e \in Endpoints, q[e] # None
               PROVE  LET v == q[e] IN
                      v \in Routed(r) /\ m[v].relay = e /\ r.table[v].ep # e
    BY DEF PathsSound
  <2>1. CASE q[e] = d /\ e = hop /\ e # r.table[d].ep
    BY <1>1, <1>2, <1>3, <2>1
  <2>2. CASE q[e] = pe[e] /\ pe[e] # d
    <3>1. pe[e] \in Routed(r) /\ pe[e] \in Vips /\ l[pe[e]].relay = e /\ r.table[pe[e]].ep # e
      BY <2>2 DEF TableInv, PathsSound, Routed
    <3> QED
      BY <1>3, <2>2, <3>1
  <2> QED
    BY <1>4, <2>1, <2>2
<1>6. Forgotten(r, m)
  BY <1>3 DEF TableInv, Forgotten
<1>7. TableInv(r, m, q) /\ m[d].relay = hop /\ \A v \in Vips \ {d} : m[v] = l[v]
  BY <1>1, <1>2, <1>3, <1>4, <1>5, <1>6 DEF TableInv
<1> QED
  BY <1>7 DEF m, q, k

\* Loading the profile and the cache.
LEMMA LoadStep ==
    ASSUME Inv, NEW vip \in Vips, NEW ep \in Endpoints, NEW node \in NodeIds \cup {None},
           Load(vip, ep, node)
    PROVE  Inv'
<1>1. /\ TableInv(rt', link', path_ep')
      /\ link'[vip].relay = link[vip].relay
      /\ \A v \in Vips \ {vip} :
            /\ v \in Routed(rt') => /\ v \in Routed(rt) /\ rt'.table[v] = rt.table[v]
                                    /\ link'[v].relay = link[v].relay
            /\ v \notin Routed(rt') => link'[v].relay = None
  <2>1. TableInv(rt, link, path_ep)
    BY DEF Inv
  <2>2. /\ rt' = UpdatedRoutes(vip, ep, node) /\ link' = UpdatedLink(vip, ep, node)
        /\ path_ep' = UpdatedPaths(vip, ep, node)
    BY DEF Load
  <2> QED
    BY <2>1, <2>2, UpdateInv
<1>2. running' = FALSE /\ sel' = NoSelection /\ \A v \in Vips : link[v].relay = None
  BY DEF Load, Inv, NoRelayYet
<1>3. \A v \in Vips : link'[v].relay = None
  BY <1>1, <1>2
<1>4. Detour(rt', link')
  BY <1>1, <1>3, RoutedIff DEF TableInv, Detour, Routed
<1> QED
  BY <1>1, <1>2, <1>3, <1>4 DEF Inv, SelApart, NoRelayYet, TableInv, Detour, EpSound, NodeSound,
                               PathsSound, Forgotten, Routed

\* update_route: the hop stamped at its end is usable in the updated table, so it
\* is not the new endpoint of the destination.
LEMMA UpdateStep ==
    ASSUME Inv, NEW vip \in Vips, NEW ep \in Endpoints, NEW node \in NodeIds \cup {None},
           NEW hop \in Endpoints \cup {None}, UpdateRoute(vip, ep, node, hop)
    PROVE  Inv'
<1> DEFINE r == UpdatedRoutes(vip, ep, node)
           l == UpdatedLink(vip, ep, node)
           pe == UpdatedPaths(vip, ep, node)
<1>1. /\ TableInv(r, l, pe)
      /\ \A v \in Vips \ {vip} : v \in Routed(r) => /\ v \in Routed(rt) /\ r.table[v] = rt.table[v]
                                                   /\ l[v].relay = link[v].relay
  <2>1. TableInv(rt, link, path_ep)
    BY DEF Inv
  <2> QED
    BY <2>1, UpdateInv
<1>2. /\ rt' = r /\ running' = running /\ sel' = sel /\ running /\ sel = NoSelection
      /\ hop # None => r.table[vip].ep # hop
      /\ vip \in Routed(r) => /\ link' = [l EXCEPT ![vip] = [l[vip] EXCEPT !.relay = hop]]
                              /\ path_ep' = Reindex(pe, vip, r.table[vip].ep, hop)
      /\ vip \notin Routed(r) => link' = l /\ path_ep' = pe
  BY DEF UpdateRoute, EngineFree, HopUsable
<1> HIDE DEF r, l, pe
<1>3. /\ TableInv(r, link', path_ep')
      /\ vip \in Routed(r) => link'[vip].relay = hop
      /\ \A v \in Vips \ {vip} : link'[v] = l[v]
  <2>1. CASE vip \in Routed(r)
    <3> DEFINE m == [l EXCEPT ![vip] = [l[vip] EXCEPT !.relay = hop]]
               q == Reindex(pe, vip, r.table[vip].ep, hop)
    <3>1. TableInv(r, m, q) /\ m[vip].relay = hop /\ \A v \in Vips \ {vip} : m[v] = l[v]
      BY <1>1, <2>1, StampInv
    <3>2. link' = m /\ path_ep' = q
      BY <1>2, <2>1
    <3> QED
      BY <3>1, <3>2
  <2>2. CASE vip \notin Routed(r)
    BY <1>1, <1>2, <2>2
  <2> QED
    BY <2>1, <2>2
<1>4. vip \in Routed(r) => r.table[vip].ep # hop
  BY <1>1, <1>2, RoutedIff DEF TableInv
<1>5. Detour(r, link')
  <2> SUFFICES ASSUME NEW v \in Routed(r) PROVE link'[v].relay # r.table[v].ep
    BY DEF Detour
  <2>1. v \in Vips
    BY DEF Routed
  <2>2. CASE v = vip
    BY <1>3, <1>4, <2>2
  <2>3. CASE v # vip
    BY <1>1, <1>3, <2>1, <2>3 DEF Inv, Detour
  <2> QED
    BY <2>2, <2>3
<1> QED
  BY <1>2, <1>3, <1>5 DEF Inv, SelApart, NoRelayYet, TableInv, Detour, EpSound, NodeSound,
                          PathsSound, Forgotten, Routed

\* remove, of one VIP or many.
LEMMA RemoveStep ==
    ASSUME Inv, NEW V \in SUBSET Vips, RemoveRoutes(V), UNCHANGED <<running, sel>>
    PROVE  Inv'
<1>1. rt \in RouteType /\ EpSound(rt) /\ NodeSound(rt) /\ rt' = RemoveAll(rt, V)
  BY DEF Inv, TableInv, RemoveRoutes
<1>2. /\ rt' \in RouteType /\ EpSound(rt') /\ NodeSound(rt')
      /\ \A v \in Vips : rt'.table[v] = IF v \in V THEN NoEntry ELSE rt.table[v]
  BY <1>1, RemoveAllType, RemoveAllSound
<1>3. \A v \in Vips : v \in Routed(rt') <=> v \in Routed(rt) /\ v \notin V
  BY <1>2 DEF Routed
<1>4. /\ link' \in [Vips -> Link] /\ path_ep' \in [Endpoints -> Vips \cup {None}]
      /\ \A v \in Vips : link'[v] = IF v \in V THEN NewLink ELSE link[v]
      /\ \A e \in Endpoints : path_ep'[e] = IF path_ep[e] \in V THEN None ELSE path_ep[e]
  BY NewLinkType DEF RemoveRoutes, ClearPaths, Inv, TableInv
<1>5. PathsSound(rt', link', path_ep')
  <2> SUFFICES ASSUME NEW e \in Endpoints, path_ep'[e] # None
               PROVE  LET v == path_ep'[e] IN
                      v \in Routed(rt') /\ link'[v].relay = e /\ rt'.table[v].ep # e
    BY DEF PathsSound
  <2>1. path_ep'[e] = path_ep[e] /\ path_ep[e] \notin V
    BY <1>4
  <2>2. path_ep[e] \in Routed(rt) /\ path_ep[e] \in Vips
        /\ link[path_ep[e]].relay = e /\ rt.table[path_ep[e]].ep # e
    BY <2>1 DEF Inv, TableInv, PathsSound, Routed
  <2> QED
    BY <1>2, <1>3, <1>4, <2>1, <2>2
<1>6. Forgotten(rt', link')
  BY <1>3, <1>4 DEF Inv, TableInv, Forgotten
<1>7. Detour(rt', link')
  <2> SUFFICES ASSUME NEW v \in Routed(rt') PROVE link'[v].relay # rt'.table[v].ep
    BY DEF Detour
  <2>1. v \in Vips
    BY DEF Routed
  <2> QED
    BY <1>2, <1>3, <1>4, <2>1 DEF Inv, Detour
<1>8. SelApart'
  <2>1. CASE sel = NoSelection
    BY <2>1 DEF SelApart
  <2>2. CASE sel # NoSelection
    <3>1. sel' \in Selection
      BY <2>2 DEF Inv, SelApart
    <3>2. sel'.dest \in Routed(rt') => rt'.table[sel'.dest].ep \notin {sel'.hop, sel'.alt}
      BY <1>2, <1>3, <2>2, <3>1 DEF Selection, Inv, SelApart
    <3> QED
      BY <3>1, <3>2 DEF SelApart, Routed
  <2> QED
    BY <2>1, <2>2
<1>9. NoRelayYet'
  BY <1>4 DEF Inv, NoRelayYet, NewLink
<1> QED
  BY <1>2, <1>4, <1>5, <1>6, <1>7, <1>8, <1>9
  DEF Inv, TableInv, Detour, EpSound, NodeSound, PathsSound, Forgotten, Routed

\* RoutingTable::new
NewTable ==
    /\ rt = EmptyRoutes
    /\ link = [v \in Vips |-> NewLink]
    /\ path_ep = [e \in Endpoints |-> None]
    /\ running \in BOOLEAN
    /\ sel = NoSelection \/ sel \in Selection
    /\ running \/ sel = NoSelection

\* A new table satisfies the invariant: Init and Reset.
LEMMA EmptyInv == NewTable => Inv
<1> HAVE NewTable
<1> USE DEF NewTable
<1>1. Routed(rt) = {}
  BY DEF EmptyRoutes, Routed
<1>2. TableInv(rt, link, path_ep)
  BY NewLinkType DEF TableInv, EmptyRoutes, RouteType, EpSound, NodeSound, PathsSound, Forgotten
<1>3. Detour(rt, link) /\ SelApart
  BY <1>1 DEF Detour, SelApart
<1>4. NoRelayYet
  BY DEF NoRelayYet, NewLink
<1> QED
  BY <1>2, <1>3, <1>4 DEF Inv

\* The clock.
LEMMA AgeStep ==
    ASSUME Inv, Age
    PROVE  Inv'
<1>1. \A v \in Vips : /\ v \notin Routed(rt) => link'[v] = link[v]
                      /\ link'[v] \in Link /\ link'[v].relay = link[v].relay
  <2> TAKE v \in Vips
  <2>1. link[v] \in Link
    BY DEF Inv, TableInv
  <2>2. CASE v \in Routed(rt) /\ link[v].age < Dead
    <3>1. link[v].age + 1 \in Fresh..Dead
      BY <2>1, <2>2 DEF Link, Fresh, Dead
    <3>2. link'[v] = [link[v] EXCEPT !.age = link[v].age + 1]
      BY <2>2 DEF Age
    <3> QED
      BY <2>1, <2>2, <3>1, <3>2, PromotedLink
  <2>3. CASE ~(v \in Routed(rt) /\ link[v].age < Dead)
    BY <2>1, <2>3 DEF Age
  <2> QED
    BY <2>2, <2>3
<1>2. /\ rt' = rt /\ path_ep' = path_ep /\ sel' = sel /\ running' = running
      /\ link' = [v \in Vips |-> link'[v]]
  BY DEF Age
<1>3. link' \in [Vips -> Link]
  BY <1>1, <1>2
<1>4. PathsSound(rt, link', path_ep) /\ Forgotten(rt, link') /\ Detour(rt, link')
  BY <1>1 DEF Inv, TableInv, PathsSound, Forgotten, Detour, Routed
<1>5. NoRelayYet'
  BY <1>1, <1>2 DEF Inv, NoRelayYet
<1> QED
  BY <1>2, <1>3, <1>4, <1>5 DEF Inv, SelApart, TableInv, Detour, EpSound, NodeSound, PathsSound,
                               Forgotten, Routed

\* mark_stale_if_idle and the removal of old Stale routes.
LEMMA EvictStep ==
    ASSUME Inv, StaleEvict
    PROVE  Inv'
<1> DEFINE dead == {v \in Routed(rt) : link[v].age = Dead}
<1>0. dead \in SUBSET Vips
  BY DEF Routed
<1>1. /\ rt \in RouteType /\ EpSound(rt) /\ NodeSound(rt) /\ rt' = RemoveAll(rt, dead)
      /\ sel' = NoSelection /\ running /\ running'
  BY DEF Inv, TableInv, StaleEvict, EngineFree
<1>2. /\ link' = [v \in Vips |->
                  CASE v \in dead -> NewLink
                    [] v \in Routed(rt) \ dead /\ link[v].age = Idle ->
                         [link[v] EXCEPT !.state = "Stale"]
                    [] OTHER -> link[v]]
      /\ path_ep' = ClearPaths(path_ep, dead)
  BY DEF StaleEvict
<1> HIDE DEF dead
<1>3. /\ rt' \in RouteType /\ EpSound(rt') /\ NodeSound(rt')
      /\ \A v \in Vips : rt'.table[v] = IF v \in dead THEN NoEntry ELSE rt.table[v]
  BY <1>0, <1>1, RemoveAllType, RemoveAllSound
<1>4. \A v \in Vips : v \in Routed(rt') <=> v \in Routed(rt) /\ v \notin dead
  BY <1>3 DEF Routed
<1>5. \A v \in Vips : /\ v \in dead => link'[v] = NewLink
                      /\ v \notin dead => \/ link'[v] = link[v]
                                          \/ /\ v \in Routed(rt)
                                             /\ link'[v] = [link[v] EXCEPT !.state = "Stale"]
  BY <1>2, Zenon
<1>6. \A v \in Vips : /\ [link[v] EXCEPT !.state = "Stale"] \in Link
                      /\ [link[v] EXCEPT !.state = "Stale"].relay = link[v].relay
  BY DEF Inv, TableInv, Link
<1>7. /\ \A e \in Endpoints : path_ep'[e] = IF path_ep[e] \in dead THEN None ELSE path_ep[e]
      /\ path_ep' \in [Endpoints -> Vips \cup {None}]
  BY <1>2 DEF ClearPaths, Inv, TableInv
<1>8. link' \in [Vips -> Link]
  <2>1. \A v \in Vips : link'[v] \in Link
    BY <1>5, <1>6, NewLinkType DEF Inv, TableInv
  <2> QED
    BY <1>2, <2>1
<1>9. \A v \in Vips \ dead : link'[v].relay = link[v].relay
  BY <1>5, <1>6
<1>10. PathsSound(rt', link', path_ep')
  <2> SUFFICES ASSUME NEW e \in Endpoints, path_ep'[e] # None
               PROVE  LET v == path_ep'[e] IN
                      v \in Routed(rt') /\ link'[v].relay = e /\ rt'.table[v].ep # e
    BY DEF PathsSound
  <2>1. path_ep'[e] = path_ep[e] /\ path_ep[e] \notin dead
    BY <1>7
  <2>2. path_ep[e] \in Routed(rt) /\ path_ep[e] \in Vips
        /\ link[path_ep[e]].relay = e /\ rt.table[path_ep[e]].ep # e
    BY <2>1 DEF Inv, TableInv, PathsSound, Routed
  <2> QED
    BY <1>3, <1>4, <1>9, <2>1, <2>2
<1>11. Forgotten(rt', link')
  BY <1>4, <1>5 DEF Inv, TableInv, Forgotten
<1>12. Detour(rt', link')
  <2> SUFFICES ASSUME NEW v \in Routed(rt') PROVE link'[v].relay # rt'.table[v].ep
    BY DEF Detour
  <2>1. v \in Vips
    BY DEF Routed
  <2> QED
    BY <1>3, <1>4, <1>9, <2>1 DEF Inv, Detour
<1> QED
  BY <1>1, <1>3, <1>7, <1>8, <1>10, <1>11, <1>12
  DEF Inv, SelApart, NoRelayYet, TableInv, Detour, EpSound, NodeSound, PathsSound, Forgotten, Routed

\* A failed relay send: the failure is noted and an alternative chosen, which is
\* usable and so goes round the destination's endpoint.
LEMMA HopFailsStep ==
    ASSUME Inv, NEW failed \in Endpoints, NEW alt \in Endpoints \cup {None},
           HopFails(failed, alt)
    PROVE  Inv'
<1>1. /\ sel \in Selection
      /\ sel.dest \in Routed(rt) => rt.table[sel.dest].ep \notin {sel.hop, sel.alt}
      /\ rt \in RouteType /\ TableInv(rt, link, path_ep) /\ Detour(rt, link) /\ running
  BY DEF HopFails, Inv, SelApart, NoRelayYet, TableInv
<1>2. TableInv(rt, link', path_ep) /\ Detour(rt, link')
  <2> DEFINE v == DataVip(failed)
  <2>1. CASE v = None
    <3>1. link' = link
      BY <2>1 DEF HopFails
    <3> QED
      BY <1>1, <3>1
  <2>2. CASE v # None
    <3>1. v \in Routed(rt)
      BY <1>1, <2>2, IndexHit
    <3>2. Failed(link[v]) \in Link /\ Failed(link[v]).relay = link[v].relay
      BY <1>1, <3>1, FailedType DEF TableInv, Routed
    <3>3. link' = [link EXCEPT ![v] = Failed(link[v])]
      BY <2>2 DEF HopFails
    <3> HIDE DEF v
    <3>4. TableInv(rt, [link EXCEPT ![v] = Failed(link[v])], path_ep)
          /\ Detour(rt, [link EXCEPT ![v] = Failed(link[v])])
      BY <1>1, <3>1, <3>2, LinkInv
    <3> QED
      BY <3>3, <3>4
  <2> QED
    BY <2>1, <2>2
<1>3. /\ rt' = rt /\ path_ep' = path_ep /\ running' = running
      /\ sel' = [sel EXCEPT !.alt = alt] /\ (alt # None => rt.table[sel.dest].ep # alt)
  BY DEF HopFails, HopUsable
<1>4. /\ sel' \in Selection
      /\ sel'.dest = sel.dest /\ sel'.hop = sel.hop /\ sel'.alt = alt
  BY <1>1, <1>3 DEF Selection
<1>5. sel'.dest \in Routed(rt') => rt'.table[sel'.dest].ep \notin {sel'.hop, sel'.alt}
  BY <1>1, <1>3, <1>4, RoutedIff DEF Selection
<1>6. SelApart'
  BY <1>4, <1>5 DEF SelApart, Routed
<1> QED
  BY <1>1, <1>2, <1>3, <1>6
  DEF Inv, NoRelayYet, TableInv, Detour, EpSound, NodeSound, PathsSound, Forgotten, Routed

\* The hop, or its alternative, is stamped.
LEMMA StampStep ==
    ASSUME Inv, StampAlternative \/ StampRelay
    PROVE  Inv'
<1> DEFINE d == sel.dest
<1>1. /\ TableInv(rt, link, path_ep) /\ Detour(rt, link) /\ running
      /\ sel \in Selection
      /\ d \in Routed(rt) => rt.table[d].ep \notin {sel.hop, sel.alt}
  BY DEF StampAlternative, StampRelay, Inv, SelApart, NoRelayYet, NoSelection
<1>2. \/ \E hop \in {sel.hop, sel.alt} : StampHop(d, hop)
      \/ UNCHANGED <<rt, link, path_ep, running>>
  BY DEF StampAlternative, StampRelay
<1>3. /\ rt' = rt /\ running' = running
      /\ sel' = NoSelection \/ sel' = [sel EXCEPT !.alt = None]
  BY DEF StampHop, StampAlternative, StampRelay
<1>4. TableInv(rt, link', path_ep') /\ Detour(rt, link')
  <2>1. CASE link' = link /\ path_ep' = path_ep
    BY <1>1, <2>1
  <2>2. ASSUME NEW hop \in {sel.hop, sel.alt}, StampHop(d, hop), d \in Routed(rt)
        PROVE  TableInv(rt, link', path_ep') /\ Detour(rt, link')
    <3>0. hop \in Endpoints \cup {None}
      BY <1>1 DEF Selection
    <3> DEFINE m == [link EXCEPT ![d] = [link[d] EXCEPT !.relay = hop]]
               q == Reindex(path_ep, d, rt.table[d].ep, hop)
    <3>1. link' = m /\ path_ep' = q
      BY <2>2 DEF StampHop, SetLink
    <3>2. TableInv(rt, m, q) /\ m[d].relay = hop /\ \A v \in Vips \ {d} : m[v] = link[v]
      BY <1>1, <2>2, <3>0, StampInv
    <3> HIDE DEF m, q
    <3>3. Detour(rt, m)
      BY <1>1, <2>2, <3>2 DEF Detour, Routed
    <3> QED
      BY <3>1, <3>2, <3>3
  <2> QED
    BY <1>2, <2>1, <2>2 DEF StampHop
<1>5. SelApart'
  <2>1. CASE sel' = NoSelection
    BY <2>1 DEF SelApart
  <2>2. CASE sel' = [sel EXCEPT !.alt = None]
    <3>1. /\ sel' \in Selection
          /\ sel'.dest = d /\ sel'.hop = sel.hop /\ sel'.alt = None
      BY <1>1, <2>2 DEF Selection
    <3>2. d \in Routed(rt) => rt.table[d].ep # None
      BY <1>1, RoutedIff DEF Selection, TableInv
    <3> QED
      BY <1>1, <1>3, <3>1, <3>2 DEF SelApart, Routed
  <2> QED
    BY <1>3, <2>1, <2>2
<1> QED
  BY <1>1, <1>3, <1>4, <1>5
  DEF Inv, NoRelayYet, TableInv, Detour, EpSound, NodeSound, PathsSound, Forgotten, Routed

----------------------------------------------------------------------------
\* Every operation of the table preserves the invariant.
LEMMA NextStep ==
    ASSUME Inv, [Next]_vars
    PROVE  Inv'
<1>1. ASSUME NEW v \in Vips, NEW e \in Endpoints, NEW n \in NodeIds \cup {None},
             Load(v, e, n) \/ \E hop \in Endpoints \cup {None} : UpdateRoute(v, e, n, hop)
      PROVE  Inv'
  BY <1>1, LoadStep, UpdateStep
<1>2. ASSUME NEW v \in Vips, Remove(v)
      PROVE  Inv'
  BY <1>2, RemoveStep DEF Remove
<1>3. ASSUME NEW V \in SUBSET Routed(rt), Drain(V)
      PROVE  Inv'
  <2>1. V \in SUBSET Vips
    BY DEF Routed
  <2> QED
    BY <1>3, <2>1, RemoveStep DEF Drain
<1>4. CASE Reset
  <2>1. NewTable'
    BY <1>4 DEF Reset, NewTable, Inv, SelApart, NoRelayYet
  <2> QED
    BY <2>1, EmptyInv, PTL
<1>5. ASSUME NEW e \in Endpoints,
             \/ Promote(e) \/ ApplyLastSeen(e) \/ NoteFail(e)
             \/ \E active, good \in BOOLEAN : NoteRtt(e, active, good)
      PROVE  Inv'
  BY <1>5, TrafficStep
<1>6. ASSUME NEW d \in Vips, NEW e \in Endpoints \cup {None}, SelectRelay(d, e)
      PROVE  Inv'
  <2>1. /\ rt' = rt /\ link' = link /\ path_ep' = path_ep /\ running' = running /\ running
        /\ sel' = [dest |-> d, hop |-> e, alt |-> None]
        /\ d \in Routed(rt) /\ (e # None => rt.table[d].ep # e)
    BY <1>6 DEF SelectRelay, EngineFree, HopUsable
  <2>2. rt.table[d].ep # None
    BY <2>1, RoutedIff DEF Inv, TableInv
  <2>3. SelApart'
    BY <2>1, <2>2 DEF SelApart, Selection, Routed
  <2> QED
    BY <2>1, <2>3 DEF Inv, NoRelayYet, TableInv, Detour, EpSound, NodeSound, PathsSound,
                      Forgotten, Routed
<1>7. CASE Start
  <2>1. rt' = rt /\ link' = link /\ path_ep' = path_ep /\ sel' = sel /\ running' = TRUE
    BY <1>7 DEF Start
  <2> QED
    BY <2>1 DEF Inv, SelApart, NoRelayYet, TableInv, Detour, EpSound, NodeSound, PathsSound,
                Forgotten, Routed
<1>8. ASSUME NEW e \in Endpoints, NEW alt \in Endpoints \cup {None}, HopFails(e, alt)
      PROVE  Inv'
  BY <1>8, HopFailsStep
<1>9. CASE UNCHANGED vars
  BY <1>9 DEF vars, Inv, SelApart, NoRelayYet, TableInv, Detour, EpSound, NodeSound, PathsSound,
              Forgotten, Routed
<1> QED
  BY <1>1, <1>2, <1>3, <1>4, <1>5, <1>6, <1>7, <1>8, <1>9, AgeStep, EvictStep, StampStep DEF Next

\* The invariant holds in every reachable state of the table.
LEMMA AlwaysInv == Spec => []Inv
<1>1. Init => Inv
  BY EmptyInv DEF Init, NewTable
<1> QED
  BY <1>1, NextStep, PTL DEF Spec

\* The table, its indexes, its entries and the engine's pending relay send keep
\* their types whatever operations follow one another.
THEOREM TypeCorrect == Spec => []TypeOK
<1>1. Inv => TypeOK
  BY DEF Inv, TableInv, SelApart, TypeOK
<1> QED
  BY <1>1, AlwaysInv, PTL

\* No index of the routing table ever yields a VIP that is not routed over that
\* endpoint or node: update, remove, drain, eviction and relay stamps maintain
\* ep_to_vip, node_to_vip and path_ep_to_vip for any number of VIPs, endpoints
\* and node_ids.
THEOREM IndexesStaySound == Spec => []IndexesSound
<1>1. Inv => IndexesSound
  BY DEF Inv, TableInv, IndexesSound
<1> QED
  BY <1>1, AlwaysInv, PTL

\* A removed route leaves no state behind for a route inserted later.
THEOREM RemovedStaysForgotten == Spec => []RemovedIsForgotten
<1>1. Inv => RemovedIsForgotten
  BY DEF Inv, TableInv, RemovedIsForgotten
<1> QED
  BY <1>1, AlwaysInv, PTL

\* The relay slot of a route never holds the route's own endpoint, whatever
\* endpoint changes and failed sends come between the choice of a hop and its
\* stamp.
THEOREM RelayStaysDetour == Spec => []RelayIsDetour
<1>1. Inv => RelayIsDetour
  BY DEF Inv, RelayIsDetour
<1> QED
  BY <1>1, AlwaysInv, PTL
=============================================================================
