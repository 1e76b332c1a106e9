------------------------- MODULE ClaimGossipProofs -------------------------
(***************************************************************************)
(* Proofs about ClaimOps and ClaimGossip, for any nodes, VIPs and          *)
(* lifetimes.  First what each handler may do to the identity and the      *)
(* claims of its engine, whatever the routing table holds (Handled), and   *)
(* what it may send (Handling).  Then the conclusions: the views settle,   *)
(* the config catches up, rerolls and tombstones keep their rules, gossip  *)
(* implements Membership, and no engine routes its own VIP.                *)
(***************************************************************************)
EXTENDS ClaimGossip, WellFoundedInduction, FiniteSetTheorems, TLAPS

Ident == [vip : Vips, epoch : Nat]

\* The identity that an engine has, a claim is about or a message carries.
Id(r) == [vip |-> r.vip, epoch |-> r.epoch]

IsClaim(c) ==
    /\ DOMAIN c = {"node", "vip", "epoch", "hint"}
    /\ c.node \in NodeIds /\ c.vip \in Vips /\ c.epoch \in Nat

\* The state of an engine; the routing table and the caches are arbitrary.
IsState(s) ==
    /\ DOMAIN s = {"vip", "epoch", "cfg", "joined", "events", "claims", "tombs", "suppress",
                   "rt", "retry", "pending", "roster", "cache"}
    /\ s.vip \in Vips /\ s.epoch \in Nat
    /\ s.cfg \in Ident /\ s.events \in Seq(Ident)
    /\ \A c \in s.claims : IsClaim(c)

\* SettledView of one engine, in two parts.
Unique(me, C) == \A c, d \in C : c.vip = d.vip => c.node = d.node \/ me \in {c.node, d.node}
OwnRecord(me, s) == \A c \in s.claims : c.node = me => c.vip = s.vip /\ c.epoch = s.epoch

\* A step that leaves identity, claims and tombstones alone.
Aside(s, t) ==
    /\ IsState(t)
    /\ t.vip = s.vip /\ t.epoch = s.epoch /\ t.cfg = s.cfg /\ t.events = s.events
    /\ t.claims = s.claims /\ t.tombs = s.tombs

SameId(s, t) == t.vip = s.vip /\ t.epoch = s.epoch /\ t.cfg = s.cfg /\ t.events = s.events

\* apply_local_vip_change: another VIP, the next epoch, one event.
NewId(s, t) ==
    /\ t.vip # s.vip /\ t.epoch = s.epoch + 1
    /\ t.cfg = Id(t) /\ t.events = Append(s.events, Id(t))

----------------------------------------------------------------------------
\* pick_free_vip finds a VIP where one is free.
LEMMA FirstFreeIsFree ==
  ASSUME NEW free \in SUBSET Vips, free # {}
  PROVE  FirstFree(free) \in free
<1>1. free \in SUBSET Nat
  BY CoreAssumption
<1>2. PICK m \in free : \A x \in free : ~(<<x, m>> \in OpToRel(<, Nat))
  BY <1>1, NatLessThanWellFounded, WFMin
<1>3. ASSUME NEW x \in free PROVE m <= x
  <2>1. x \in Nat /\ m \in Nat /\ <<x, m>> \in Nat \X Nat
    BY <1>1
  <2>2. ~(x < m)
    BY <1>2, <2>1 DEF OpToRel
  <2> QED BY <2>1, <2>2
<1> QED BY <1>3 DEF FirstFree

\* The soft drop of losers.
LEMMA DropLosersAside ==
  ASSUME NEW s, IsState(s), NEW L
  PROVE  Aside(s, DropLosers(s, L))
BY DEF DropLosers, Aside, IsState

\* update_route and what follows a live claim.
LEMMA RouteAside ==
  ASSUME NEW s, IsState(s)
  PROVE  /\ \A vip, ep, node, weak : Aside(s, UpdateRoute(s, vip, ep, node, weak))
         /\ \A c, ep : Aside(s, RouteClaim(s, c, ep))
<1>1. ASSUME NEW vip, NEW ep, NEW node, NEW weak
      PROVE  Aside(s, UpdateRoute(s, vip, ep, node, weak))
  BY DEF UpdateRoute, Aside, IsState
<1>2. ASSUME NEW c, NEW ep PROVE Aside(s, RouteClaim(s, c, ep))
  <2> DEFINE u == UpdateRoute(s, c.vip, ep, c.node, FALSE)
             r == UpsertRoster(u.roster, [node |-> c.node, vip |-> c.vip, ep |-> ep])
  <2>1. Aside(s, u)
    BY <1>1
  <2>2. RouteClaim(s, c, ep) \in {s, [u EXCEPT !.roster = r]}
    BY DEF RouteClaim
  <2> HIDE DEF u, r
  <2> QED BY <2>1, <2>2 DEF Aside, IsState
<1> QED BY <1>1, <1>2

\* apply_local_vip_change with the first free VIP, or the retry is set.
LEMMA TryRerollStep ==
  ASSUME NEW me \in NodeIds, NEW s, IsState(s)
  PROVE  LET t == TryReroll(me, s) IN
         \/ Aside(s, t)
         \/ /\ IsState(t) /\ NewId(s, t)
            /\ \A c \in s.claims : c.vip # t.vip
            /\ t.claims = Put(s.claims, OwnClaim(me, t)) /\ t.tombs = s.tombs
<1> DEFINE free == Vips \ OccupiedVips(s)
           id == [vip |-> FirstFree(free), epoch |-> s.epoch + 1]
           u == [s EXCEPT !.vip = id.vip, !.epoch = id.epoch, !.cfg = id,
                          !.events = Append(@, id), !.retry = FALSE, !.pending = TRUE,
                          !.rt = RemoveVip(@, s.vip)]
           own == OwnClaim(me, u)
           t == [u EXCEPT !.claims = Put(@, own)]
<1>1. CASE free = {}
  <2>1. TryReroll(me, s) = [s EXCEPT !.retry = TRUE]
    BY <1>1 DEF TryReroll
  <2>2. Aside(s, [s EXCEPT !.retry = TRUE])
    BY DEF Aside, IsState
  <2> QED BY <2>1, <2>2
<1>2. CASE free # {}
  <2>1. TryReroll(me, s) = t
    BY <1>2 DEF TryReroll, ApplyVipChange
  <2>2. id.vip \in free /\ id.vip = FirstFree(free) /\ id.epoch = s.epoch + 1
    BY <1>2, FirstFreeIsFree
  <2>3. id.vip \in Vips /\ id.vip # s.vip /\ \A c \in s.claims : c.vip # id.vip
    BY <2>2 DEF OccupiedVips
  <2>4. id \in Ident /\ id.epoch \in Nat
    BY <2>2, <2>3 DEF IsState, Ident
  <2>5. id = [vip |-> id.vip, epoch |-> id.epoch]
    OBVIOUS
  <2> HIDE DEF id
  <2>6. Append(s.events, id) \in Seq(Ident)
    BY <2>4 DEF IsState
  <2>7. /\ DOMAIN u = DOMAIN s /\ u.vip = id.vip /\ u.epoch = id.epoch /\ u.cfg = id
        /\ u.events = Append(s.events, id) /\ u.claims = s.claims /\ u.tombs = s.tombs
    BY DEF IsState
  <2>8. own = [node |-> me, vip |-> id.vip, epoch |-> id.epoch, hint |-> None]
    BY <2>7 DEF OwnClaim
  <2> HIDE DEF u
  <2>9. IsClaim(own)
    BY <2>3, <2>4, <2>8 DEF IsClaim
  <2> HIDE DEF own
  <2>10. /\ DOMAIN t = DOMAIN u /\ t.vip = u.vip /\ t.epoch = u.epoch /\ t.cfg = u.cfg
         /\ t.events = u.events /\ t.claims = Put(u.claims, own) /\ t.tombs = u.tombs
    BY <2>7 DEF IsState
  <2> HIDE DEF t
  <2>11. \A c \in t.claims : IsClaim(c)
    BY <2>7, <2>9, <2>10 DEF Put, IsState
  <2>12. IsState(t)
    BY <2>3, <2>4, <2>6, <2>7, <2>10, <2>11 DEF IsState
  <2>13. own = OwnClaim(me, t) /\ Id(t) = id
    BY <2>5, <2>7, <2>10 DEF own, OwnClaim, Id
  <2>14. NewId(s, t)
    BY <2>2, <2>3, <2>7, <2>10, <2>13 DEF NewId
  <2> QED BY <2>1, <2>3, <2>7, <2>10, <2>12, <2>13, <2>14
<1> QED BY <1>1, <1>2

\* Somebody with a smaller node_id claims the VIP of s, in C.
Beaten(me, s, C) == \E c \in C : c.vip = s.vip /\ c.node < me

\* What apply_claim_settle_and_local_fight makes of s.
Fought(me, s, t) ==
    /\ IsState(t) /\ t.tombs = s.tombs
    /\ \A c \in t.claims : c \in s.claims \/ c.node = me
    /\ Unique(me, t.claims) /\ OwnRecord(me, t)
    /\ SameId(s, t) \/ (NewId(s, t) /\ Beaten(me, s, s.claims))

\* local_vip_fight after the losers are dropped: a node that has rerolled
\* before is not beaten again.
LEMMA LocalFightStep ==
  ASSUME NEW me \in NodeIds, NEW s, NEW u, Fought(me, s, u),
         SameId(s, u) \/ ~LosesFight(me, u)
  PROVE  Fought(me, s, LocalFight(me, u))
<1> DEFINE t == TryReroll(me, u)
<1>1. CASE ~LosesFight(me, u)
  BY <1>1 DEF LocalFight
<1>2. CASE LosesFight(me, u)
  <2>1. LocalFight(me, u) = t /\ SameId(s, u)
    BY <1>2 DEF LocalFight
  <2>2. CASE Aside(u, t)
    BY <2>1, <2>2 DEF Fought, Aside, SameId, OwnRecord, Unique
  <2>3. CASE /\ IsState(t) /\ NewId(u, t)
             /\ \A c \in u.claims : c.vip # t.vip
             /\ t.claims = Put(u.claims, OwnClaim(me, t)) /\ t.tombs = u.tombs
    <3>1. \A c \in t.claims : \/ c \in u.claims /\ c.node # me
                              \/ c.node = me /\ c.vip = t.vip /\ c.epoch = t.epoch
      BY <2>3 DEF Put, OwnClaim
    <3>2. NewId(s, t)
      BY <2>1, <2>3 DEF NewId, SameId
    <3>3. PICK c \in u.claims : c.vip = u.vip /\ c.node < me
      BY <1>2 DEF LosesFight
    <3>4. c.node # me
      BY <3>3, CoreAssumption DEF Fought, IsState, IsClaim
    <3>5. Beaten(me, s, s.claims)
      BY <2>1, <3>3, <3>4 DEF Beaten, SameId, Fought
    <3>6. Unique(me, t.claims) /\ OwnRecord(me, t)
      BY <3>1 DEF Unique, OwnRecord, Fought
    <3> QED BY <2>1, <2>3, <3>1, <3>2, <3>5, <3>6 DEF Fought
  <2> QED BY <2>2, <2>3, TryRerollStep DEF Fought
<1> QED BY <1>1, <1>2

\* settle_duplicate_vips leaves one claim per VIP.
LEMMA SettledUnique ==
  ASSUME NEW s, IsState(s)
  PROVE  \A c, d \in Settled(s.claims) : c.vip = d.vip => c.node = d.node
<1> SUFFICES ASSUME NEW c \in Settled(s.claims), NEW d \in Settled(s.claims), c.vip = d.vip
             PROVE  c.node = d.node
  OBVIOUS
<1>1. c.node \in Nat /\ d.node \in Nat /\ c.node <= d.node /\ d.node <= c.node
  BY CoreAssumption DEF Settled, IsState, IsClaim
<1> QED BY <1>1

\* The own claim is settled away only by a smaller node_id.
LEMMA OwnLoserBeaten ==
  ASSUME NEW me \in NodeIds, NEW s, IsState(s), OwnRecord(me, s),
         s.claims \ Settled(s.claims) # Without(s.claims \ Settled(s.claims), me)
  PROVE  Beaten(me, s, s.claims)
<1>1. PICK c \in s.claims : c \notin Settled(s.claims) /\ c.node = me
  BY DEF Without
<1>2. PICK d \in s.claims : d.vip = c.vip /\ ~(c.node <= d.node)
  BY <1>1 DEF Settled
<1>3. c.vip = s.vip
  BY <1>1 DEF OwnRecord
<1>4. me \in Nat /\ d.node \in Nat
  BY CoreAssumption DEF IsState, IsClaim
<1> QED BY <1>1, <1>2, <1>3, <1>4 DEF Beaten

\* The own claim in its turn: rerolled, or kept against the winner.
LEMMA LoseOwnClaimStep ==
  ASSUME NEW me \in NodeIds, NEW s, Beaten(me, s, s.claims),
         NEW v, Fought(me, s, v), SameId(s, v)
  PROVE  LET w == LoseOwnClaim(me, v) IN
         Fought(me, s, w) /\ (SameId(s, w) \/ ~LosesFight(me, w))
<1> DEFINE t == TryReroll(me, v)
           own == OwnClaim(me, v)
           kept == [t EXCEPT !.claims = Put(@, own)]
<1>1. CASE Aside(v, t)
  <2>1. LoseOwnClaim(me, v) = kept
    BY <1>1 DEF LoseOwnClaim, Aside
  <2>2. own.node = me /\ own.vip = v.vip /\ own.epoch = v.epoch
    BY DEF OwnClaim
  <2>3. IsClaim(own)
    BY DEF OwnClaim, IsClaim, Fought, IsState
  <2> HIDE DEF own, t
  <2>4. /\ DOMAIN kept = DOMAIN t /\ kept.vip = t.vip /\ kept.epoch = t.epoch /\ kept.cfg = t.cfg
        /\ kept.events = t.events /\ kept.claims = Put(t.claims, own) /\ kept.tombs = t.tombs
    BY <1>1 DEF Aside, IsState
  <2> HIDE DEF kept
  <2>5. \A c \in kept.claims : (c \in v.claims /\ c.node # me) \/ c = own
    BY <1>1, <2>2, <2>4 DEF Put, Aside
  <2>6. IsState(kept)
    BY <1>1, <2>3, <2>4, <2>5 DEF IsState, Aside
  <2>7. Unique(me, kept.claims) /\ OwnRecord(me, kept)
    BY <1>1, <2>2, <2>4, <2>5 DEF Unique, OwnRecord, Aside, Fought
  <2>8. SameId(s, kept)
    BY <1>1, <2>4 DEF SameId, Aside
  <2>9. \A c \in kept.claims : c \in s.claims \/ c.node = me
    BY <2>2, <2>5 DEF Fought
  <2>10. kept.tombs = s.tombs
    BY <1>1, <2>4 DEF Aside, Fought
  <2> QED BY <2>1, <2>6, <2>7, <2>8, <2>9, <2>10 DEF Fought
<1>2. CASE /\ IsState(t) /\ NewId(v, t)
           /\ \A c \in v.claims : c.vip # t.vip
           /\ t.claims = Put(v.claims, OwnClaim(me, t)) /\ t.tombs = v.tombs
  <2>1. LoseOwnClaim(me, v) = t
    BY <1>2 DEF LoseOwnClaim, NewId
  <2>2. \A c \in t.claims : \/ c \in v.claims /\ c.node # me
                            \/ c.node = me /\ c.vip = t.vip /\ c.epoch = t.epoch
    BY <1>2 DEF Put, OwnClaim
  <2> HIDE DEF t
  <2>3. NewId(s, t)
    BY <1>2 DEF NewId, SameId
  <2>4. Unique(me, t.claims) /\ OwnRecord(me, t)
    BY <2>2 DEF Unique, OwnRecord, Fought
  <2>5. ~LosesFight(me, t)
    BY <1>2, <2>2, CoreAssumption DEF LosesFight
  <2>6. Fought(me, s, t)
    BY <1>2, <2>2, <2>3, <2>4 DEF Fought
  <2> QED BY <2>1, <2>5, <2>6
<1> QED BY <1>1, <1>2, TryRerollStep DEF Fought

LEMMA SettleAndFightStep ==
  ASSUME NEW me \in NodeIds, NEW s, IsState(s), OwnRecord(me, s),
         NEW t \in SettleAndFight(me, s)
  PROVE  Fought(me, s, t)
<1> DEFINE losers == s.claims \ Settled(s.claims)
           others == Without(losers, me)
           s0 == [s EXCEPT !.claims = Settled(@)]
<1>1. /\ DOMAIN s0 = DOMAIN s /\ SameId(s, s0) /\ s0.tombs = s.tombs
      /\ s0.claims = Settled(s.claims) /\ Settled(s.claims) \subseteq s.claims
  BY DEF IsState, SameId, Settled
<1> HIDE DEF s0
<1>2. IsState(s0)
  BY <1>1 DEF IsState, SameId
<1>3. Fought(me, s, s0)
  <2>1. Unique(me, s0.claims)
    BY <1>1, SettledUnique DEF Unique
  <2>2. OwnRecord(me, s0)
    BY <1>1 DEF OwnRecord, SameId
  <2> QED BY <1>1, <1>2, <2>1, <2>2 DEF Fought
<1>4. ASSUME NEW v, Fought(me, s, v), NEW L
      PROVE  LET u == DropLosers(v, L) IN
             /\ Fought(me, s, u) /\ SameId(v, u)
             /\ LosesFight(me, u) => LosesFight(me, v)
  <2>1. Aside(v, DropLosers(v, L))
    BY <1>4, DropLosersAside DEF Fought
  <2>2. SameId(v, DropLosers(v, L)) /\ (LosesFight(me, DropLosers(v, L)) => LosesFight(me, v))
    BY <2>1 DEF SameId, LosesFight, Aside
  <2>3. Fought(me, s, DropLosers(v, L))
    BY <1>4, <2>1 DEF Fought, Aside, OwnRecord, SameId, NewId, Id
  <2> QED BY <2>2, <2>3
<1>5. PICK u : /\ t = LocalFight(me, u)
               /\ u \in IF losers = others
                        THEN {DropLosers(s0, others)}
                        ELSE {DropLosers(LoseOwnClaim(me, DropLosers(s0, D)), others \ D) :
                                D \in SUBSET others}
  BY DEF SettleAndFight, s0
<1>6. CASE losers = others
  <2>1. u = DropLosers(s0, others)
    BY <1>5, <1>6
  <2>2. Fought(me, s, u) /\ SameId(s, u)
    BY <1>1, <1>3, <1>4, <2>1 DEF SameId
  <2> QED BY <1>5, <2>2, LocalFightStep
<1>7. CASE losers # others
  <2>1. PICK D \in SUBSET others :
               u = DropLosers(LoseOwnClaim(me, DropLosers(s0, D)), others \ D)
    BY <1>5, <1>7
  <2> DEFINE v == DropLosers(s0, D)
             w == LoseOwnClaim(me, v)
  <2>2. Fought(me, s, v) /\ SameId(s, v)
    BY <1>1, <1>3, <1>4 DEF SameId
  <2>3. Beaten(me, s, s.claims)
    BY <1>7, OwnLoserBeaten
  <2>4. Fought(me, s, w) /\ (SameId(s, w) \/ ~LosesFight(me, w))
    BY <2>2, <2>3, LoseOwnClaimStep
  <2> HIDE DEF v, w
  <2>5. Fought(me, s, u) /\ (SameId(s, u) \/ ~LosesFight(me, u))
    <3>1. u = DropLosers(w, others \ D)
      BY <2>1 DEF v, w
    <3> QED BY <1>4, <2>4, <3>1 DEF SameId
  <2> QED BY <1>5, <2>5, LocalFightStep
<1> QED BY <1>6, <1>7

----------------------------------------------------------------------------
\* What a handler that learns the claims C makes of s.  A claim it holds
\* afterwards is one it held, its own or a learned one that no tombstone stops.
Handled(me, s, t, C) ==
    /\ IsState(t)
    /\ \A c \in t.claims :
         \/ \E d \in s.claims : SameClaim(c, d)
         \/ c.node = me
         \/ ~LeaveTombstoneBlocks(t, c) /\ \E d \in C : SameClaim(c, d)
    /\ Unique(me, t.claims) /\ OwnRecord(me, t)
    /\ SameId(s, t) \/ (NewId(s, t) /\ Beaten(me, s, s.claims \cup C))

\* The identity stays and claims are at most forgotten or given hints.
Fewer(s, t) ==
    /\ IsState(t) /\ SameId(s, t)
    /\ \A c \in t.claims : \E d \in s.claims : SameClaim(c, d)

LEMMA AsideFewer ==
  ASSUME NEW s, NEW t, Aside(s, t)
  PROVE  Fewer(s, t)
BY DEF Aside, Fewer, SameId, SameClaim

\* SettledView survives such a step.
LEMMA FewerSettled ==
  ASSUME NEW me, NEW s, Unique(me, s.claims), OwnRecord(me, s), NEW t, Fewer(s, t)
  PROVE  Unique(me, t.claims) /\ OwnRecord(me, t)
<1>1. Unique(me, t.claims)
  <2> SUFFICES ASSUME NEW c \in t.claims, NEW d \in t.claims, c.vip = d.vip
               PROVE  c.node = d.node \/ me \in {c.node, d.node}
    BY DEF Unique
  <2>1. PICK e \in s.claims : SameClaim(c, e)
    BY DEF Fewer
  <2>2. PICK f \in s.claims : SameClaim(d, f)
    BY DEF Fewer
  <2> QED BY <2>1, <2>2 DEF SameClaim, Unique
<1>2. OwnRecord(me, t)
  BY DEF Fewer, OwnRecord, SameClaim, SameId
<1> QED BY <1>1, <1>2

LEMMA HandledFewer ==
  ASSUME NEW me, NEW s, Unique(me, s.claims), OwnRecord(me, s), NEW t, Fewer(s, t), NEW C
  PROVE  Handled(me, s, t, C)
BY FewerSettled DEF Handled, Fewer

LEMMA HandledThen ==
  ASSUME NEW me, NEW s, NEW t, NEW C, Handled(me, s, t, C), NEW u, Fewer(t, u), u.tombs = t.tombs
  PROVE  Handled(me, s, u, C)
<1>1. Unique(me, u.claims) /\ OwnRecord(me, u)
  BY FewerSettled DEF Handled
<1>2. Id(u) = Id(t)
  BY DEF Fewer, SameId, Id
<1>3. SameId(s, u) \/ (NewId(s, u) /\ Beaten(me, s, s.claims \cup C))
  BY <1>2 DEF Handled, Fewer, SameId, NewId
<1>4. ASSUME NEW c \in u.claims
      PROVE  \/ \E d \in s.claims : SameClaim(c, d)
             \/ c.node = me
             \/ ~LeaveTombstoneBlocks(u, c) /\ \E d \in C : SameClaim(c, d)
  <2>1. PICK e \in t.claims : SameClaim(c, e)
    BY DEF Fewer
  <2>2. c.node = e.node /\ c.vip = e.vip /\ c.epoch = e.epoch
    BY <2>1 DEF SameClaim
  <2>3. LeaveTombstoneBlocks(u, c) => LeaveTombstoneBlocks(t, e)
    BY <2>2 DEF LeaveTombstoneBlocks
  <2>4. \A d : SameClaim(e, d) => SameClaim(c, d)
    BY <2>2 DEF SameClaim
  <2> QED BY <2>2, <2>3, <2>4 DEF Handled
<1> QED BY <1>1, <1>3, <1>4 DEF Handled, Fewer

\* merge_claim of remote claims C, then the settling.
LEMMA MergeAndSettle ==
  ASSUME NEW me \in NodeIds, NEW s, IsState(s), Unique(me, s.claims), OwnRecord(me, s),
         NEW C, \A c \in C : IsClaim(c) /\ c.node # me,
         NEW m, IsState(m), SameId(s, m), m.tombs = s.tombs,
         m.claims = MergeClaims(s, C).claims,
         NEW t \in SettleAndFight(me, m)
  PROVE  Handled(me, s, t, C)
<1>1. \A c \in m.claims : c \in s.claims \/ (c \in C /\ ~LeaveTombstoneBlocks(s, c))
  <2> DEFINE new == {c \in C : Accepted(s, c)}
  <2>1. m.claims = {k \in s.claims : \A c \in new : c.node # k.node} \cup new
    BY DEF MergeClaims, IsState
  <2>2. \A c \in new : c \in C /\ ~LeaveTombstoneBlocks(s, c)
    BY DEF Accepted, Blocked
  <2> HIDE DEF new
  <2> QED BY <2>1, <2>2
<1>2. OwnRecord(me, m)
  BY <1>1 DEF OwnRecord, SameId
<1>3. Fought(me, m, t)
  BY <1>2, SettleAndFightStep
<1>4. \A c : LeaveTombstoneBlocks(t, c) <=> LeaveTombstoneBlocks(s, c)
  <2>1. t.tombs = s.tombs
    BY <1>3 DEF Fought
  <2> QED BY <2>1 DEF LeaveTombstoneBlocks
<1>5. \A c \in t.claims : c \in s.claims \/ c.node = me \/ (c \in C /\ ~LeaveTombstoneBlocks(t, c))
  BY <1>1, <1>3, <1>4 DEF Fought
<1>6. SameId(s, t) \/ (NewId(s, t) /\ Beaten(me, s, s.claims \cup C))
  BY <1>1, <1>3 DEF Fought, SameId, NewId, Beaten
<1> QED BY <1>3, <1>5, <1>6 DEF Handled, Fought, SameClaim

\* apply_remote_claim of another node
LEMMA ApplyRemoteClaimStep ==
  ASSUME NEW me \in NodeIds, NEW s, IsState(s), Unique(me, s.claims), OwnRecord(me, s),
         NEW node \in NodeIds, node # me, NEW vip \in Vips, NEW epoch \in Nat, NEW from,
         NEW t \in ApplyRemoteClaim(me, s, node, vip, epoch, from)
  PROVE  Handled(me, s, t, {[node |-> node, vip |-> vip, epoch |-> epoch, hint |-> from]})
<1> DEFINE c == [node |-> node, vip |-> vip, epoch |-> epoch, hint |-> from]
           new == {d \in {c} : Accepted(s, d)}
           merged == MergeClaims(s, {c})
<1>1. IsClaim(c) /\ c.node # me
  BY DEF IsClaim
<1> HIDE DEF c
<1>2. /\ DOMAIN merged = DOMAIN s /\ SameId(s, merged) /\ merged.tombs = s.tombs
      /\ merged.claims = {k \in s.claims : \A d \in new : d.node # k.node} \cup new
  BY DEF MergeClaims, IsState, SameId
<1> HIDE DEF merged
<1>3. IsState(merged)
  BY <1>1, <1>2 DEF IsState, SameId
<1>4. CASE Blocked(s, c)
  <2>1. t = merged
    BY <1>4 DEF ApplyRemoteClaim, c, merged
  <2>2. new = {}
    BY <1>4 DEF Accepted
  <2>3. Fewer(s, merged)
    BY <1>2, <1>3, <2>2 DEF Fewer, SameClaim
  <2>4. Handled(me, s, t, {c})
    BY <2>1, <2>3, HandledFewer
  <2> QED BY <2>4 DEF c
<1>5. CASE ~Blocked(s, c)
  <2>1. PICK u \in SettleAndFight(me, merged) : t = RouteClaim(u, c, from)
    BY <1>5 DEF ApplyRemoteClaim, c, merged
  <2>2. merged.claims = MergeClaims(s, {c}).claims
    BY DEF merged
  <2>3. \A d \in {c} : IsClaim(d) /\ d.node # me
    BY <1>1
  <2>4. Handled(me, s, u, {c})
    BY <1>2, <1>3, <2>2, <2>3, MergeAndSettle
  <2>5. Aside(u, t)
    BY <2>1, <2>4, RouteAside DEF Handled
  <2>6. Handled(me, s, t, {c})
    BY <2>4, <2>5, AsideFewer, HandledThen DEF Aside
  <2> QED BY <2>6 DEF c
<1> QED BY <1>4, <1>5

\* handle_claim_gossip_body: the routes it learns leave identity and claims alone.
LEMMA HandleClaimGossipStep ==
  ASSUME NEW me \in NodeIds, NEW s, IsState(s), Unique(me, s.claims), OwnRecord(me, s),
         NEW claims, \A c \in claims : IsClaim(c), NEW leaves, NEW from,
         NEW t \in HandleClaimGossip(me, s, claims, leaves, from)
  PROVE  Handled(me, s, t, claims)
<1> DEFINE s1 == [s EXCEPT !.tombs = InstallTombs(@, leaves)]
           remote == Without(claims, me)
           new == {c \in remote : Accepted(s1, c)}
           merged == [MergeClaims(s1, remote) EXCEPT
                        !.pending = @ \/ \E c \in remote : Accepted(s1, c)]
<1>1. DOMAIN s1 = DOMAIN s /\ SameId(s, s1) /\ s1.claims = s.claims
  BY DEF IsState, SameId
<1> DEFINE live == {c \in remote : ~Blocked(s1, c)}
<1>2. PICK u \in SettleAndFight(me, merged), start \in {c.node : c \in live} \cup {from} :
        t = RouteAll(u, live, from, start)
  BY DEF HandleClaimGossip
<1> HIDE DEF live
<1>3. \A c \in remote : c \in claims /\ IsClaim(c) /\ c.node # me
  BY DEF Without
<1> HIDE DEF s1, remote
<1>4. IsState(s1) /\ Unique(me, s1.claims) /\ OwnRecord(me, s1)
  BY <1>1 DEF IsState, SameId, OwnRecord
<1>5. /\ DOMAIN merged = DOMAIN s1 /\ SameId(s1, merged) /\ merged.tombs = s1.tombs
      /\ merged.claims = MergeClaims(s1, remote).claims
      /\ merged.claims = {k \in s1.claims : \A c \in new : c.node # k.node} \cup new
  BY <1>4 DEF MergeClaims, IsState, SameId
<1> HIDE DEF merged
<1>6. IsState(merged)
  BY <1>3, <1>4, <1>5 DEF IsState, SameId
<1>7. Handled(me, s1, u, remote)
  BY <1>2, <1>3, <1>4, <1>5, <1>6, MergeAndSettle
<1>8. Handled(me, s, u, claims)
  BY <1>1, <1>3, <1>7 DEF Handled, SameId, NewId, Beaten
<1>9. Aside(u, t)
  BY <1>2, <1>8 DEF Handled, Aside, IsState, RouteAll
<1> QED BY <1>8, <1>9, AsideFewer, HandledThen DEF Aside

\* PKT_LEAVE, stale_evict, the hints of a broadcast and a learned route
LEMMA OtherHandlersFewer ==
  ASSUME NEW s, IsState(s)
  PROVE  /\ \A node, vip, epoch : Fewer(s, HandleLeave(s, node, vip, epoch))
         /\ \A V : Fewer(s, EvictStale(s, V))
         /\ \A V : Fewer(s, EnrichHints(s, V)) /\ EnrichHints(s, V).tombs = s.tombs
         /\ \A vip, from, weak : Fewer(s, LearnRoute(s, vip, from, weak))
<1>1. ASSUME NEW node, NEW vip, NEW epoch PROVE Fewer(s, HandleLeave(s, node, vip, epoch))
  <2> DEFINE s1 == [s EXCEPT !.tombs = InstallTombs(@, {[node |-> node, epoch |-> epoch]}),
                             !.claims = Without(@, node)]
  <2>1. PICK rt, roster :
          HandleLeave(s, node, vip, epoch) \in {s1, [s1 EXCEPT !.rt = rt, !.roster = roster]}
    BY DEF HandleLeave
  <2>2. DOMAIN s1 = DOMAIN s /\ SameId(s, s1) /\ s1.claims = Without(s.claims, node)
    BY DEF IsState, SameId
  <2> HIDE DEF s1
  <2>3. Fewer(s, s1)
    BY <2>2 DEF Fewer, IsState, SameId, Without, SameClaim
  <2>4. Aside(s1, [s1 EXCEPT !.rt = rt, !.roster = roster])
    BY <2>3 DEF Aside, IsState, Fewer
  <2> QED BY <2>1, <2>3, <2>4 DEF Aside, Fewer, SameId
<1>2. ASSUME NEW V PROVE Fewer(s, EvictStale(s, V))
  BY DEF EvictStale, Fewer, IsState, SameId, SameClaim
<1>3. ASSUME NEW V PROVE Fewer(s, EnrichHints(s, V)) /\ EnrichHints(s, V).tombs = s.tombs
  <2> DEFINE hinted(c) == [c EXCEPT !.hint = IF @ = None /\ c.vip \in V
                                              THEN s.rt.table[c.vip].ep ELSE @]
             t == EnrichHints(s, V)
  <2>1. DOMAIN t = DOMAIN s /\ SameId(s, t) /\ t.tombs = s.tombs
        /\ t.claims = {hinted(c) : c \in s.claims}
    BY DEF EnrichHints, IsState, SameId
  <2>2. \A c \in s.claims : IsClaim(hinted(c)) /\ SameClaim(hinted(c), c)
    BY DEF IsState, IsClaim, SameClaim
  <2> HIDE DEF hinted, t
  <2>3. Fewer(s, t)
    BY <2>1, <2>2 DEF Fewer, IsState, SameId
  <2> QED BY <2>1, <2>3 DEF t
<1>4. ASSUME NEW vip, NEW from, NEW weak PROVE Fewer(s, LearnRoute(s, vip, from, weak))
  BY RouteAside, AsideFewer DEF LearnRoute
<1> QED BY <1>1, <1>2, <1>3, <1>4

----------------------------------------------------------------------------
ClaimKinds == {"MPJN", "MPJA", "MLEA"}

IsMsg(p) ==
    /\ p.kind \in ClaimKinds \cup {"MCLG", "HPCH", "KPAL"}
    /\ p.from \in NodeIds /\ p.from # p.to
    /\ p.kind = "MCLG" => \A c \in p.claims : IsClaim(c)
    /\ p.kind \in ClaimKinds => p.vip \in Vips /\ p.epoch \in Nat

IsProfile(d) ==
    /\ DOMAIN d = {"vip", "epoch", "joined", "roster", "cache"}
    /\ d.vip \in Vips /\ d.epoch \in Nat

\* The config is right once the last event is applied.
Follows(s) ==
    IF s.events = <<>> THEN s.cfg = Id(s) ELSE s.events[Len(s.events)] = Id(s)

\* Engine state s, phase ph, join snapshot j and profile d of node n.  A running
\* join whose engine has sent no event has read the identity of the engine.
NodeOk(n, s, ph, j, d) ==
    /\ IsState(s) /\ Unique(n, s.claims) /\ OwnRecord(n, s)
    /\ j \in Ident /\ IsProfile(d)
    /\ ph # "stuck" => Follows(s)
    /\ ph \in {"joining", "acked"} /\ s.events = <<>> => j = Id(s)

\* The inductive invariant.
IInv ==
    /\ DOMAIN st = NodeIds /\ DOMAIN phase = NodeIds
    /\ DOMAIN join = NodeIds /\ DOMAIN disk = NodeIds
    /\ \A n \in NodeIds : NodeOk(n, st[n], phase[n], join[n], disk[n])
    /\ \A p \in net : IsMsg(p)

\* The claims in C came with a packet in flight.
FromNet(C) ==
    \A c \in C : \E p \in net :
        \/ p.kind = "MCLG" /\ c \in p.claims
        \/ p.kind \in ClaimKinds /\ c.node = p.from /\ c.vip = p.vip /\ c.epoch = p.epoch

\* Packet p says what n knows after the step; a join repeats what it has read.
Says(n, p) ==
    /\ p.kind \in ClaimKinds \cup {"MCLG", "HPCH", "KPAL"}
    /\ p.from = n /\ p.to # n
    /\ p.kind = "MCLG" =>
         \A c \in p.claims :
           /\ IsClaim(c)
           /\ \/ c.node = n /\ Id(c) = Id(st'[n])
              \/ \E d \in st'[n].claims : SameClaim(c, d)
    /\ p.kind \in ClaimKinds => Id(p) \in {Id(st'[n]), join[n]}

\* Node n moves, and nobody else.
Alone(n) ==
    /\ DOMAIN st' = NodeIds /\ DOMAIN phase' = NodeIds /\ DOMAIN join' = NodeIds
    /\ \A k \in NodeIds \ {n} : st'[k] = st[k] /\ phase'[k] = phase[k] /\ join'[k] = join[k]

\* What every action of a running engine comes to.
Handling(n) ==
    /\ Alone(n) /\ Up(n) /\ UNCHANGED disk
    /\ \E C : FromNet(C) /\ Handled(n, st[n], st'[n], C)
    /\ \/ phase'[n] = phase[n] /\ join'[n] = join[n]
       \/ phase[n] = "joining" /\ phase'[n] = "acked" /\ join'[n] = Id(st'[n])
    /\ \A p \in net' : p \in net \/ Says(n, p)

----------------------------------------------------------------------------
\* Sequences of events.
LEMMA LastOfAppend ==
  ASSUME NEW S, NEW q \in Seq(S), NEW e \in S
  PROVE  Append(q, e) # <<>> /\ Append(q, e)[Len(Append(q, e))] = e
OBVIOUS

LEMMA HandledOk ==
  ASSUME NEW n \in NodeIds, NEW s, NEW ph, NEW j, NEW d, NodeOk(n, s, ph, j, d),
         NEW t, NEW C, Handled(n, s, t, C)
  PROVE  NodeOk(n, t, ph, j, d)
<1>1. IsState(t) /\ Unique(n, t.claims) /\ OwnRecord(n, t)
  BY DEF Handled
<1>2. CASE SameId(s, t)
  BY <1>1, <1>2 DEF NodeOk, SameId, Follows, Id
<1>3. CASE NewId(s, t)
  <2>1. Id(t) \in Ident /\ s.events \in Seq(Ident)
    BY <1>1 DEF Id, Ident, IsState, NodeOk
  <2>2. t.events # <<>> /\ t.events[Len(t.events)] = Id(t)
    BY <1>3, <2>1, LastOfAppend DEF NewId
  <2> QED BY <1>1, <2>2 DEF NodeOk, Follows
<1> QED BY <1>2, <1>3 DEF Handled

LEMMA HandlingInv ==
  ASSUME IInv, NEW n \in NodeIds, Handling(n)
  PROVE  IInv'
<1>1. PICK C : Handled(n, st[n], st'[n], C)
  BY DEF Handling
<1>2. NodeOk(n, st'[n], phase[n], join[n], disk[n])
  BY <1>1, HandledOk DEF IInv
<1>3. Id(st'[n]) \in Ident
  BY <1>1 DEF Handled, IsState, Id, Ident
<1>4. NodeOk(n, st'[n], phase'[n], join'[n], disk'[n])
  <2>1. CASE phase'[n] = phase[n] /\ join'[n] = join[n]
    BY <1>2, <2>1 DEF Handling
  <2>2. CASE phase[n] = "joining" /\ phase'[n] = "acked" /\ join'[n] = Id(st'[n])
    BY <1>2, <1>3, <2>2 DEF Handling, NodeOk
  <2> QED BY <2>1, <2>2 DEF Handling
<1>5. \A k \in NodeIds : NodeOk(k, st'[k], phase'[k], join'[k], disk'[k])
  BY <1>4 DEF IInv, Handling, Alone
<1>6. ASSUME NEW p \in net' PROVE IsMsg(p)
  <2>1. CASE p \in net
    BY <2>1 DEF IInv
  <2>2. CASE Says(n, p)
    <3>1. p.kind \in ClaimKinds => Id(p) \in Ident
      BY <1>2, <1>3, <2>2 DEF Says, NodeOk
    <3>2. p.kind \in ClaimKinds => p.vip \in Vips /\ p.epoch \in Nat
      BY <3>1 DEF Id, Ident
    <3> QED BY <2>2, <3>2 DEF Says, IsMsg
  <2> QED BY <2>1, <2>2 DEF Handling
<1> QED BY <1>5, <1>6 DEF IInv, Handling, Alone

----------------------------------------------------------------------------
\* The actions of a running engine.

\* Packets about an endpoint, and the digests of a broadcast.
LEMMA MessagesSay ==
  ASSUME NEW n \in NodeIds, NEW s, st'[n] = s, IsState(s)
  PROVE  /\ \A kind \in {"HPCH", "KPAL"} : \A m, r : m # n => Says(n, PunchMsg(kind, n, m, r))
         /\ \A kind \in ClaimKinds : \A m, r :
              m # n /\ Id(r) \in {Id(s), join[n]} => Says(n, ClaimMsg(kind, n, m, r))
         /\ \A V : \A p \in GossipTo(n, s, V) : Says(n, p)
<1>1. ASSUME NEW kind \in {"HPCH", "KPAL"}, NEW m, NEW r, m # n
      PROVE  Says(n, PunchMsg(kind, n, m, r))
  BY <1>1 DEF PunchMsg, Says, ClaimKinds
<1>2. ASSUME NEW kind \in ClaimKinds, NEW m, NEW r, m # n, Id(r) \in {Id(s), join[n]}
      PROVE  Says(n, ClaimMsg(kind, n, m, r))
  <2>1. Id(ClaimMsg(kind, n, m, r)) = Id(r)
    BY DEF Id, ClaimMsg
  <2>2. /\ ClaimMsg(kind, n, m, r).kind = kind /\ kind # "MCLG"
        /\ ClaimMsg(kind, n, m, r).from = n /\ ClaimMsg(kind, n, m, r).to = m
    BY DEF ClaimMsg, ClaimKinds
  <2> QED BY <1>2, <2>1, <2>2 DEF Says
<1>3. ASSUME NEW V, NEW p \in GossipTo(n, s, V) PROVE Says(n, p)
  <2>1. PICK m : m # n /\ p = GossipMsg(n, m, s)
    BY DEF GossipTo
  <2>2. p.kind = "MCLG" /\ p.from = n /\ p.to = m /\ p.claims = Digest(n, s)
    BY <2>1 DEF GossipMsg
  <2>3. IsClaim(OwnClaim(n, s)) /\ OwnClaim(n, s).node = n /\ Id(OwnClaim(n, s)) = Id(s)
    BY DEF OwnClaim, IsClaim, IsState, Id
  <2>4. ASSUME NEW c \in Digest(n, s)
        PROVE  /\ IsClaim(c)
               /\ \/ c.node = n /\ Id(c) = Id(s)
                  \/ \E d \in s.claims : SameClaim(c, d)
    <3>1. c = OwnClaim(n, s) \/ c \in s.claims
      BY DEF Digest, Without
    <3> QED BY <2>3, <3>1 DEF IsState, SameClaim
  <2> QED BY <2>1, <2>2, <2>4 DEF Says, ClaimKinds
<1> QED BY <1>1, <1>2, <1>3

\* The broadcast first fills hints; the digest is then no longer pending.
LEMMA BroadcastFewer ==
  ASSUME NEW s, IsState(s), NEW V
  PROVE  /\ Fewer(s, [EnrichHints(s, V) EXCEPT !.pending = FALSE])
         /\ Fewer(s, FlushPending(s, V)) /\ FlushPending(s, V).tombs = s.tombs
<1> DEFINE u == EnrichHints(s, V)
           t == [u EXCEPT !.pending = FALSE]
<1>1. Fewer(s, u) /\ u.tombs = s.tombs
  BY OtherHandlersFewer
<1>2. FlushPending(s, V) \in {s, t}
  BY DEF FlushPending
<1> HIDE DEF u
<1>3. Aside(u, t)
  BY <1>1 DEF Fewer, Aside, IsState
<1> HIDE DEF t
<1>4. Fewer(s, t) /\ t.tombs = s.tombs
  BY <1>1, <1>3 DEF Fewer, Aside, SameId
<1>5. Fewer(s, s)
  BY DEF Fewer, SameId, SameClaim
<1> QED BY <1>2, <1>4, <1>5 DEF t, u

\* Only node n moves, to s, after it has learned C.
LEMMA HandlingOf ==
  ASSUME IInv, NEW n \in NodeIds, Up(n), NEW s, Become(n, s),
         NEW C, FromNet(C), Handled(n, st[n], s, C),
         NEW in, NEW out, Exchange(in, out), \A p \in out : Says(n, p),
         UNCHANGED <<phase, join, disk>>
  PROVE  Handling(n)
<1>1. st'[n] = s /\ Alone(n)
  BY DEF Become, IInv, Alone
<1>2. \A p \in net' : p \in net \/ Says(n, p)
  BY DEF Exchange
<1> QED BY <1>1, <1>2 DEF Handling

LEMMA BecomeIs ==
  ASSUME IInv, NEW n \in NodeIds, NEW s, Become(n, s)
  PROVE  st'[n] = s
BY DEF IInv, Become

LEMMA StateOk ==
  ASSUME IInv, NEW n \in NodeIds
  PROVE  IsState(st[n]) /\ Unique(n, st[n].claims) /\ OwnRecord(n, st[n])
BY DEF IInv, NodeOk

LEMMA GossipHandling ==
  ASSUME IInv, NEW n \in NodeIds, Gossip(n)
  PROVE  Handling(n)
<1>1. PICK V : /\ Up(n) /\ Become(n, [EnrichHints(st[n], V) EXCEPT !.pending = FALSE])
               /\ Exchange({}, GossipTo(n, [EnrichHints(st[n], V) EXCEPT !.pending = FALSE], V))
               /\ UNCHANGED <<phase, join, disk>>
  BY DEF Gossip
<1> DEFINE s == [EnrichHints(st[n], V) EXCEPT !.pending = FALSE]
<1>2. Fewer(st[n], s)
  BY StateOk, BroadcastFewer
<1> HIDE DEF s
<1>3. Handled(n, st[n], s, {}) /\ FromNet({})
  BY <1>2, StateOk, HandledFewer DEF FromNet
<1>4. Become(n, s) /\ Exchange({}, GossipTo(n, s, V))
  BY <1>1 DEF s
<1>5. \A p \in GossipTo(n, s, V) : Says(n, p)
  BY <1>2, <1>4, BecomeIs, MessagesSay DEF Fewer
<1> QED BY <1>1, <1>3, <1>4, <1>5, HandlingOf

LEMMA JoinAndPunchHandling ==
  ASSUME IInv, NEW n \in NodeIds, NEW m \in NodeIds, SendJoin(n, m) \/ Punch(n, m)
  PROVE  Handling(n)
<1> DEFINE out == {PunchMsg("HPCH", n, m, st[n]), ClaimMsg("MPJN", n, m, join[n])}
<1>1. /\ Up(n) /\ m # n /\ UNCHANGED <<st, phase, join, disk>>
      /\ \A p \in net' : p \in net \cup out
  <2>1. CASE SendJoin(n, m)
    BY <2>1 DEF SendJoin, Up, LockedPhases, Exchange
  <2>2. CASE Punch(n, m)
    BY <2>2 DEF Punch, Exchange
  <2> QED BY <2>1, <2>2
<1>2. Fewer(st[n], st'[n])
  BY <1>1, StateOk DEF Fewer, SameId, SameClaim
<1>3. Handled(n, st[n], st'[n], {}) /\ FromNet({})
  BY <1>2, StateOk, HandledFewer DEF FromNet
<1>4. \A p \in out : Says(n, p)
  <2>1. Id(join[n]) = join[n]
    BY DEF IInv, NodeOk, Ident, Id
  <2>2. Says(n, PunchMsg("HPCH", n, m, st[n])) /\ Says(n, ClaimMsg("MPJN", n, m, join[n]))
    BY <1>1, <2>1, StateOk, MessagesSay DEF ClaimKinds
  <2> QED BY <2>2
<1> HIDE DEF out
<1> QED BY <1>1, <1>3, <1>4 DEF Handling, Alone, IInv

LEMMA KeepalivesHandling ==
  ASSUME IInv, NEW n \in NodeIds, SendKeepalives(n)
  PROVE  Handling(n)
<1>1. Fewer(st[n], st'[n]) /\ Up(n) /\ UNCHANGED <<st, phase, join, disk>>
  BY StateOk DEF SendKeepalives, Fewer, SameId, SameClaim
<1>2. Handled(n, st[n], st'[n], {}) /\ FromNet({})
  BY <1>1, StateOk, HandledFewer DEF FromNet
<1>3. ASSUME NEW p \in net', p \notin net PROVE Says(n, p)
  <2>1. PICK m : m # n /\ p = PunchMsg("KPAL", n, m, st[n])
    BY <1>3 DEF SendKeepalives, Exchange
  <2> QED BY <1>1, <2>1, StateOk, MessagesSay
<1> QED BY <1>1, <1>2, <1>3 DEF Handling, Alone, IInv

LEMMA StaleEvictHandling ==
  ASSUME IInv, NEW n \in NodeIds, StaleEvict(n)
  PROVE  Handling(n)
<1>1. PICK V : Up(n) /\ Become(n, EvictStale(st[n], V)) /\ UNCHANGED <<phase, join, disk, net>>
  BY DEF StaleEvict
<1>2. Handled(n, st[n], EvictStale(st[n], V), {}) /\ FromNet({})
  BY StateOk, OtherHandlersFewer, HandledFewer DEF FromNet
<1>3. Exchange({}, {})
  BY <1>1 DEF Exchange
<1> QED BY <1>1, <1>2, <1>3, HandlingOf

\* The retry of a lost fight.
LEMMA RetryFightStep ==
  ASSUME NEW me \in NodeIds, NEW s, IsState(s), Unique(me, s.claims), OwnRecord(me, s),
         NEW t \in RetryFight(me, s)
  PROVE  Handled(me, s, t, {})
<1> DEFINE u == [s EXCEPT !.retry = FALSE]
<1>1. Aside(s, u)
  BY DEF Aside, IsState
<1>2. t \in SettleAndFight(me, u)
  BY DEF RetryFight
<1> HIDE DEF u
<1>3. Fought(me, u, t)
  BY <1>1, <1>2, SettleAndFightStep DEF Aside, OwnRecord
<1> QED BY <1>1, <1>3 DEF Fought, Aside, Handled, SameId, NewId, Beaten, SameClaim

LEMMA PresenceTickHandling ==
  ASSUME IInv, NEW n \in NodeIds, NEW due \in BOOLEAN, PresenceTick(n, due)
  PROVE  Handling(n)
<1>1. PICK t \in IF due THEN RetryFight(n, st[n]) ELSE {st[n]} :
        \E V : /\ Become(n, FlushPending(t, V))
               /\ Exchange({}, PendingTo(n, t, V) \cup
                    IF phase[n] = "joining" THEN {}
                    ELSE {ClaimMsg("MPJN", n, m, FlushPending(t, V)) :
                            m \in {FlushPending(t, V).rt.table[v].ep : v \in V} \ {n}})
  BY DEF PresenceTick
<1>2. PICK V : /\ Become(n, FlushPending(t, V))
               /\ Exchange({}, PendingTo(n, t, V) \cup
                    IF phase[n] = "joining" THEN {}
                    ELSE {ClaimMsg("MPJN", n, m, FlushPending(t, V)) :
                            m \in {FlushPending(t, V).rt.table[v].ep : v \in V} \ {n}})
  BY <1>1
<1> DEFINE s == FlushPending(t, V)
           hello == IF phase[n] = "joining" THEN {}
                    ELSE {ClaimMsg("MPJN", n, m, s) : m \in {s.rt.table[v].ep : v \in V} \ {n}}
           out == PendingTo(n, t, V) \cup hello
<1>3. Handled(n, st[n], t, {})
  <2>1. CASE due
    BY <1>1, <2>1, StateOk, RetryFightStep
  <2>2. CASE ~due
    <3>1. t = st[n]
      BY <1>1, <2>2
    <3>2. Fewer(st[n], t)
      BY <3>1, StateOk DEF Fewer, SameId, SameClaim
    <3> QED BY <3>2, StateOk, HandledFewer
  <2> QED BY <2>1, <2>2
<1>4. IsState(t) /\ Fewer(t, s) /\ s.tombs = t.tombs
  BY <1>3, BroadcastFewer DEF Handled
<1>5. Handled(n, st[n], s, {}) /\ FromNet({})
  BY <1>3, <1>4, HandledThen DEF FromNet
<1>6. Become(n, s) /\ Exchange({}, out) /\ Up(n) /\ UNCHANGED <<phase, join, disk>>
  BY <1>2 DEF PresenceTick
<1>7. st'[n] = s /\ IsState(s)
  BY <1>4, <1>6, BecomeIs DEF Fewer
<1>8. PendingTo(n, t, V) \subseteq GossipTo(n, s, V)
  BY DEF PendingTo
<1> HIDE DEF s
<1>9. ASSUME NEW p \in out PROVE Says(n, p)
  <2>1. CASE p \in PendingTo(n, t, V)
    BY <1>7, <1>8, <2>1, MessagesSay
  <2>2. CASE p \in hello
    <3>1. PICK m : m # n /\ p = ClaimMsg("MPJN", n, m, s)
      BY <2>2
    <3> QED BY <1>7, <3>1, MessagesSay DEF ClaimKinds
  <2> QED BY <2>1, <2>2
<1> HIDE DEF out
<1> QED BY <1>5, <1>6, <1>9, HandlingOf

\* apply_remote_claim of the claim in an MPJN or MPJA.
LEMMA PeerClaimStep ==
  ASSUME IInv, NEW n \in NodeIds, NEW m \in net, m.to = n, m.kind \in ClaimKinds,
         NEW t \in ApplyRemoteClaim(n, st[n], m.from, m.vip, m.epoch, m.from)
  PROVE  \E C : FromNet(C) /\ Handled(n, st[n], t, C)
<1> DEFINE C == {[node |-> m.from, vip |-> m.vip, epoch |-> m.epoch, hint |-> m.from]}
<1>1. m.from \in NodeIds /\ m.from # n /\ m.vip \in Vips /\ m.epoch \in Nat
  BY DEF IInv, IsMsg
<1>2. Handled(n, st[n], t, C)
  BY <1>1, StateOk, ApplyRemoteClaimStep
<1>3. FromNet(C)
  BY DEF FromNet
<1> QED BY <1>2, <1>3

LEMMA RecvJoinHandling ==
  ASSUME IInv, NEW n \in NodeIds, NEW m \in net, m.to = n, Up(n), RecvJoin(n, m)
  PROVE  Handling(n)
<1>1. PICK t \in ApplyRemoteClaim(n, st[n], m.from, m.vip, m.epoch, m.from) :
        \E V : /\ Become(n, EnrichHints(t, V))
               /\ Exchange({m}, {ClaimMsg("MPJA", n, m.from, EnrichHints(t, V)),
                                 PunchMsg("HPCH", n, m.from, EnrichHints(t, V))}
                                  \cup GossipTo(n, EnrichHints(t, V), V))
  BY DEF RecvJoin
<1>2. PICK V : /\ Become(n, EnrichHints(t, V))
               /\ Exchange({m}, {ClaimMsg("MPJA", n, m.from, EnrichHints(t, V)),
                                 PunchMsg("HPCH", n, m.from, EnrichHints(t, V))}
                                  \cup GossipTo(n, EnrichHints(t, V), V))
  BY <1>1
<1> DEFINE s == EnrichHints(t, V)
           ack == ClaimMsg("MPJA", n, m.from, s)
           punch == PunchMsg("HPCH", n, m.from, s)
           out == {ack, punch} \cup GossipTo(n, s, V)
<1>3. m.kind \in ClaimKinds /\ UNCHANGED <<phase, join, disk>>
  BY DEF RecvJoin, ClaimKinds
<1>4. PICK C : FromNet(C) /\ Handled(n, st[n], t, C)
  BY <1>3, PeerClaimStep
<1>5. Fewer(t, s) /\ s.tombs = t.tombs
  BY <1>4, OtherHandlersFewer DEF Handled
<1>6. Handled(n, st[n], s, C)
  BY <1>4, <1>5, HandledThen
<1>7. st'[n] = s /\ IsState(s) /\ m.from # n
  BY <1>2, <1>5, BecomeIs DEF Fewer, IInv, IsMsg
<1>8. Become(n, s) /\ Exchange({m}, out)
  BY <1>2
<1> HIDE DEF s
<1>9. Says(n, ack) /\ Says(n, punch) /\ \A p \in GossipTo(n, s, V) : Says(n, p)
  BY <1>7, MessagesSay DEF ClaimKinds
<1>10. \A p \in out : Says(n, p)
  BY <1>9
<1> HIDE DEF out
<1> QED BY <1>3, <1>4, <1>6, <1>8, <1>10, HandlingOf

LEMMA RecvJoinAckHandling ==
  ASSUME IInv, NEW n \in NodeIds, NEW m \in net, m.to = n, Up(n), RecvJoinAck(n, m)
  PROVE  Handling(n)
<1>1. PICK s \in ApplyRemoteClaim(n, st[n], m.from, m.vip, m.epoch, m.from) :
          /\ Become(n, s)
          /\ \/ /\ phase[n] = "joining"
                /\ phase' = [phase EXCEPT ![n] = "acked"]
                /\ join' = [join EXCEPT ![n].vip = s.vip, ![n].epoch = s.epoch]
                /\ Exchange({m}, {PunchMsg(k, n, m.from, s) : k \in {"KPAL", "HPCH"}})
             \/ /\ phase[n] # "joining"
                /\ Exchange({m}, {})
                /\ UNCHANGED <<phase, join>>
  BY DEF RecvJoinAck
<1>2. m.kind \in ClaimKinds /\ UNCHANGED disk
  BY DEF RecvJoinAck, ClaimKinds
<1>3. PICK C : FromNet(C) /\ Handled(n, st[n], s, C)
  BY <1>2, PeerClaimStep
<1>4. st'[n] = s /\ IsState(s) /\ m.from # n
  BY <1>1, <1>3, BecomeIs DEF Handled, IInv, IsMsg
<1>5. CASE phase[n] # "joining"
  <2>1. Exchange({m}, {}) /\ UNCHANGED <<phase, join, disk>> /\ Become(n, s)
    BY <1>1, <1>2, <1>5
  <2> QED BY <1>3, <2>1, HandlingOf
<1>6. CASE phase[n] = "joining"
  <2>1. /\ phase' = [phase EXCEPT ![n] = "acked"]
        /\ join' = [join EXCEPT ![n].vip = s.vip, ![n].epoch = s.epoch]
        /\ Exchange({m}, {PunchMsg(k, n, m.from, s) : k \in {"KPAL", "HPCH"}})
    BY <1>1, <1>6
  <2>2. join[n] \in Ident /\ n \in DOMAIN join
    BY DEF IInv, NodeOk
  <2>3. join'[n] = Id(s) /\ phase'[n] = "acked"
    BY <2>1, <2>2 DEF Id, Ident, IInv
  <2>4. Alone(n)
    BY <1>1, <2>1 DEF Alone, IInv, Become
  <2>5. ASSUME NEW p \in net', p \notin net PROVE Says(n, p)
    <3>1. PICK k \in {"KPAL", "HPCH"} : p = PunchMsg(k, n, m.from, s)
      BY <2>1, <2>5 DEF Exchange
    <3> QED BY <1>4, <3>1, MessagesSay
  <2> QED BY <1>2, <1>3, <1>4, <1>6, <2>3, <2>4, <2>5 DEF Handling
<1> QED BY <1>5, <1>6

LEMMA RecvGossipHandling ==
  ASSUME IInv, NEW n \in NodeIds, NEW m \in net, m.to = n, Up(n), RecvGossip(n, m)
  PROVE  Handling(n)
<1>1. PICK t \in HandleClaimGossip(n, st[n], m.claims, m.leaves, m.from) :
        \E V : Become(n, FlushPending(t, V)) /\ Exchange({m}, PendingTo(n, t, V))
  BY DEF RecvGossip
<1>2. PICK V : Become(n, FlushPending(t, V)) /\ Exchange({m}, PendingTo(n, t, V))
  BY <1>1
<1> DEFINE s == FlushPending(t, V)
<1>3. m.kind = "MCLG" /\ UNCHANGED <<phase, join, disk>> /\ \A c \in m.claims : IsClaim(c)
  BY DEF RecvGossip, IInv, IsMsg
<1>4. FromNet(m.claims) /\ Handled(n, st[n], t, m.claims)
  BY <1>3, StateOk, HandleClaimGossipStep DEF FromNet
<1>5. Fewer(t, s) /\ s.tombs = t.tombs
  BY <1>4, BroadcastFewer DEF Handled
<1>6. Handled(n, st[n], s, m.claims)
  BY <1>4, <1>5, HandledThen
<1>7. st'[n] = s /\ IsState(s)
  BY <1>2, <1>5, BecomeIs DEF Fewer
<1>8. PendingTo(n, t, V) \subseteq GossipTo(n, s, V)
  BY DEF PendingTo
<1>9. \A p \in PendingTo(n, t, V) : Says(n, p)
  BY <1>7, <1>8, MessagesSay
<1> QED BY <1>2, <1>3, <1>4, <1>6, <1>9, HandlingOf

LEMMA RecvLeaveHandling ==
  ASSUME IInv, NEW n \in NodeIds, NEW m \in net, m.to = n, Up(n), RecvLeave(n, m)
  PROVE  Handling(n)
<1> DEFINE s == HandleLeave(st[n], m.from, m.vip, m.epoch)
           none == {}
<1>1. Become(n, s) /\ Exchange({m}, none) /\ UNCHANGED <<phase, join, disk>>
  BY DEF RecvLeave
<1>2. Fewer(st[n], s)
  BY StateOk, OtherHandlersFewer
<1>3. Handled(n, st[n], s, none) /\ FromNet(none)
  BY <1>2, StateOk, HandledFewer DEF FromNet
<1>4. \A p \in none : Says(n, p)
  OBVIOUS
<1> HIDE DEF s, none
<1> QED BY <1>1, <1>3, <1>4, HandlingOf

LEMMA RecvPunchHandling ==
  ASSUME IInv, NEW n \in NodeIds, NEW m \in net, m.to = n, Up(n), RecvPunch(n, m)
  PROVE  Handling(n)
<1> DEFINE out == IF m.kind = "HPCH" THEN {PunchMsg("KPAL", n, m.from, st[n])} ELSE {}
<1>1. PICK weak \in BOOLEAN : Become(n, LearnRoute(st[n], m.vip, m.from, weak))
  BY DEF RecvPunch
<1>2. Exchange({m}, out) /\ UNCHANGED <<phase, join, disk>> /\ m.from # n
  BY DEF RecvPunch, IInv, IsMsg
<1> DEFINE s == LearnRoute(st[n], m.vip, m.from, weak)
<1>3. Fewer(st[n], s)
  BY StateOk, OtherHandlersFewer
<1>4. Handled(n, st[n], s, {}) /\ FromNet({})
  BY <1>3, StateOk, HandledFewer DEF FromNet
<1>5. \A p \in out : Says(n, p)
  BY <1>1, <1>2, <1>3, BecomeIs, MessagesSay DEF Fewer
<1>6. Become(n, s)
  BY <1>1
<1> DEFINE none == {}
<1>7. Handled(n, st[n], s, none) /\ FromNet(none)
  BY <1>4
<1> HIDE DEF s, out, none
<1> QED BY <1>2, <1>5, <1>6, <1>7, HandlingOf

\* dispatch_control
LEMMA ReceiveHandling ==
  ASSUME IInv, NEW n \in NodeIds, NEW m \in net, Receive(n, m)
  PROVE  Handling(n)
BY RecvJoinHandling, RecvJoinAckHandling, RecvGossipHandling, RecvLeaveHandling,
   RecvPunchHandling DEF Receive

----------------------------------------------------------------------------
\* Commands, the identity task and the save threads: n keeps its identity, and
\* its config and its leave name nothing that it has not had on record.
Recording(n) ==
    /\ Alone(n) /\ DOMAIN disk' = NodeIds /\ \A k \in NodeIds \ {n} : disk'[k] = disk[k]
    /\ NodeOk(n, st'[n], phase'[n], join'[n], disk'[n])
    /\ Id(st'[n]) = Id(st[n]) /\ st'[n].claims \subseteq st[n].claims
    /\ OwnRecords(n)' \subseteq OwnRecords(n) \cup {Id(st[n])}
    /\ \A p \in net' :
         \/ p \in net
         \/ IsMsg(p) /\ p.kind = "MLEA" /\ p.from = n /\ Id(p) \in OwnRecords(n)

LEMMA RecordingInv ==
  ASSUME IInv, NEW n \in NodeIds, Recording(n)
  PROVE  IInv'
<1>1. \A k \in NodeIds : NodeOk(k, st'[k], phase'[k], join'[k], disk'[k])
  BY DEF IInv, Recording, Alone
<1>2. \A p \in net' : IsMsg(p)
  BY DEF IInv, Recording
<1> QED BY <1>1, <1>2 DEF IInv, Recording, Alone

\* SetIdentity at the end of a join gives the engine the identity it has.
LEMMA FinalizeRecording ==
  ASSUME IInv, NEW n \in NodeIds, phase[n] \in {"joining", "acked"}, Finalize(n)
  PROVE  Recording(n)
<1> DEFINE s == [st[n] EXCEPT !.cfg = join[n], !.joined = TRUE]
           t == [s EXCEPT !.vip = join[n].vip, !.epoch = join[n].epoch]
<1>1. NodeOk(n, st[n], phase[n], join[n], disk[n]) /\ UNCHANGED <<join, disk, net>>
  BY DEF IInv, Finalize
<1>2. /\ DOMAIN s = DOMAIN st[n] /\ s.vip = st[n].vip /\ s.epoch = st[n].epoch
      /\ s.cfg = join[n] /\ s.events = st[n].events /\ s.claims = st[n].claims
  BY <1>1 DEF NodeOk, IsState
<1>3. /\ DOMAIN t = DOMAIN s /\ t.vip = join[n].vip /\ t.epoch = join[n].epoch
      /\ t.cfg = s.cfg /\ t.events = s.events /\ t.claims = s.claims
  BY <1>1, <1>2 DEF NodeOk, IsState
<1>4. join[n] \in Ident /\ join[n] = Id(join[n])
  BY <1>1 DEF NodeOk, Ident, Id
<1>5. CASE st[n].events = <<>>
  <2>1. st' = [st EXCEPT ![n] = t] /\ phase' = [phase EXCEPT ![n] = "member"]
    BY <1>5 DEF Finalize
  <2> HIDE DEF s, t
  <2>2. st'[n] = t /\ phase'[n] = "member" /\ Alone(n)
    BY <1>1, <2>1 DEF IInv, Alone
  <2>3. join[n] = Id(st[n])
    BY <1>1, <1>5 DEF NodeOk
  <2>4. t.vip = st[n].vip /\ t.epoch = st[n].epoch /\ Id(t) = Id(st[n]) /\ t.cfg = Id(t)
    BY <1>2, <1>3, <2>3 DEF Id
  <2>5. IsState(t) /\ Unique(n, t.claims) /\ OwnRecord(n, t)
    BY <1>1, <1>2, <1>3, <1>4, <2>4 DEF NodeOk, IsState, OwnRecord
  <2>6. NodeOk(n, t, "member", join[n], disk[n])
    BY <1>1, <1>2, <1>3, <1>5, <2>4, <2>5 DEF NodeOk, Follows
  <2>7. OwnRecords(n)' \subseteq OwnRecords(n)
    BY <1>1, <1>2, <1>3, <2>2 DEF OwnRecords
  <2> QED BY <1>1, <1>2, <1>3, <2>2, <2>4, <2>6, <2>7 DEF Recording, IInv
<1>6. CASE st[n].events # <<>>
  <2>1. st' = [st EXCEPT ![n] = s] /\ phase' = [phase EXCEPT ![n] = "stuck"]
    BY <1>6 DEF Finalize
  <2> HIDE DEF s
  <2>2. st'[n] = s /\ phase'[n] = "stuck" /\ Alone(n)
    BY <1>1, <2>1 DEF IInv, Alone
  <2>3. IsState(s) /\ Unique(n, s.claims) /\ OwnRecord(n, s) /\ Id(s) = Id(st[n])
    BY <1>1, <1>2, <1>4 DEF NodeOk, IsState, OwnRecord, Id
  <2>4. NodeOk(n, s, "stuck", join[n], disk[n])
    BY <1>1, <2>3 DEF NodeOk
  <2>5. OwnRecords(n)' \subseteq OwnRecords(n)
    BY <1>1, <1>2, <2>2 DEF OwnRecords
  <2> QED BY <1>1, <1>2, <2>2, <2>3, <2>4, <2>5 DEF Recording, IInv
<1> QED BY <1>5, <1>6

LEMMA RetryJoinRecording ==
  ASSUME IInv, NEW n \in NodeIds, RetryJoin(n)
  PROVE  Recording(n)
<1>1. NodeOk(n, st[n], phase[n], join[n], disk[n]) /\ UNCHANGED <<st, phase, disk, net>>
  BY DEF IInv, RetryJoin
<1>2. st[n].cfg = Id(st[n]) /\ Id(st[n]) \in Ident
  BY <1>1 DEF RetryJoin, NodeOk, Follows, IsState, Id, Ident
<1>3. JoinSnapshot(st[n].cfg) = Id(st[n])
  BY <1>2 DEF JoinSnapshot, Id
<1>4. join'[n] = Id(st[n]) /\ Alone(n)
  BY <1>1, <1>3 DEF RetryJoin, IInv, Alone
<1>5. NodeOk(n, st[n], phase[n], join'[n], disk[n])
  BY <1>1, <1>2, <1>4 DEF NodeOk
<1>6. OwnRecords(n)' \subseteq OwnRecords(n) \cup {Id(st[n])}
  BY <1>1, <1>4 DEF OwnRecords
<1> QED BY <1>1, <1>4, <1>5, <1>6 DEF Recording, IInv

\* The first of the events that wait.
LEMMA FirstEvent ==
  ASSUME NEW S, NEW q \in Seq(S), q # <<>>
  PROVE  /\ Head(q) \in S /\ Tail(q) \in Seq(S)
         /\ Head(q) \in Range(q) /\ Range(Tail(q)) \subseteq Range(q)
         /\ Tail(q) = <<>> => Head(q) = q[Len(q)]
         /\ Tail(q) # <<>> => Tail(q)[Len(Tail(q))] = q[Len(q)]
<1> DEFINE r == Tail(q)
           h == Head(q)
           k == Len(q)
<1>1. k \in Nat \ {0} /\ h = q[1] /\ h \in S /\ DOMAIN q = 1 .. k
  OBVIOUS
<1>2. r \in Seq(S) /\ Len(r) = k - 1 /\ DOMAIN r = 1 .. (k - 1)
  OBVIOUS
<1>3. \A i \in 1 .. (k - 1) : r[i] = q[i + 1]
  OBVIOUS
<1> HIDE DEF r, h, k
<1>4. Range(r) \subseteq Range(q)
  <2> SUFFICES ASSUME NEW e \in Range(r) PROVE e \in Range(q)
    OBVIOUS
  <2>1. PICK i \in 1 .. (k - 1) : e = r[i]
    BY <1>2 DEF Range
  <2>2. i + 1 \in DOMAIN q /\ e = q[i + 1]
    BY <1>1, <1>3, <2>1
  <2> QED BY <2>2 DEF Range
<1>5. h \in Range(q)
  BY <1>1 DEF Range
<1>6. r = <<>> => h = q[k]
  <2>1. r = <<>> => Len(r) = 0
    OBVIOUS
  <2> QED BY <1>1, <1>2, <2>1
<1>7. r # <<>> => r[Len(r)] = q[k]
  <2>1. r # <<>> => Len(r) # 0
    BY <1>2
  <2> QED BY <1>1, <1>2, <1>3, <2>1
<1> QED BY <1>1, <1>2, <1>4, <1>5, <1>6, <1>7 DEF r, h, k

\* apply_identity_changed: the last event leaves the config right.
LEMMA ApplyIdentityRecording ==
  ASSUME IInv, NEW n \in NodeIds, ApplyIdentity(n)
  PROVE  Recording(n)
<1> DEFINE q == st[n].events
           s == [st[n] EXCEPT !.cfg = Head(q), !.events = Tail(@)]
<1>1. /\ NodeOk(n, st[n], phase[n], join[n], disk[n]) /\ UNCHANGED <<join, disk, net>>
      /\ phase[n] = "member" /\ q # <<>> /\ Become(n, s)
  BY DEF IInv, ApplyIdentity
<1>2. PICK p \in {"member", "stuck"} : phase' = [phase EXCEPT ![n] = p]
  BY DEF ApplyIdentity
<1>3. /\ DOMAIN s = DOMAIN st[n] /\ s.vip = st[n].vip /\ s.epoch = st[n].epoch
      /\ s.cfg = Head(q) /\ s.events = Tail(q) /\ s.claims = st[n].claims
  BY <1>1 DEF NodeOk, IsState
<1> HIDE DEF s
<1>4. st'[n] = s /\ phase'[n] = p /\ Alone(n)
  BY <1>1, <1>2 DEF IInv, Alone, Become
<1>5. /\ Head(q) \in Ident /\ Tail(q) \in Seq(Ident)
      /\ Head(q) \in Range(q) /\ Range(Tail(q)) \subseteq Range(q)
      /\ Tail(q) = <<>> => Head(q) = q[Len(q)]
      /\ Tail(q) # <<>> => Tail(q)[Len(Tail(q))] = q[Len(q)]
  BY <1>1, FirstEvent DEF NodeOk, IsState
<1>6. Id(s) = Id(st[n]) /\ q[Len(q)] = Id(st[n])
  BY <1>1, <1>3 DEF Id, NodeOk, Follows
<1>7. IsState(s) /\ Unique(n, s.claims) /\ OwnRecord(n, s)
  BY <1>1, <1>3, <1>5 DEF NodeOk, IsState, OwnRecord
<1>8. Follows(s)
  BY <1>3, <1>5, <1>6 DEF Follows
<1>9. NodeOk(n, s, p, join[n], disk[n])
  BY <1>1, <1>7, <1>8 DEF NodeOk
<1>10. OwnRecords(n)' \subseteq OwnRecords(n)
  BY <1>1, <1>3, <1>4, <1>5 DEF OwnRecords
<1> QED BY <1>1, <1>3, <1>4, <1>6, <1>9, <1>10 DEF Recording, IInv

LEMMA BlockOnCliRecording ==
  ASSUME IInv, NEW n \in NodeIds, BlockOnCli(n)
  PROVE  Recording(n)
<1>1. NodeOk(n, st[n], phase[n], join[n], disk[n]) /\ UNCHANGED <<st, join, disk, net>>
  BY DEF IInv, BlockOnCli
<1>2. phase'[n] = "stuck" /\ Alone(n)
  BY <1>1 DEF BlockOnCli, IInv, Alone
<1>3. NodeOk(n, st[n], "stuck", join[n], disk[n])
  BY <1>1 DEF NodeOk
<1>4. OwnRecords(n)' = OwnRecords(n)
  BY <1>1 DEF OwnRecords
<1> QED BY <1>1, <1>2, <1>3, <1>4 DEF Recording, IInv

\* handle_exit and handle_remove: the leave says what the config says.
LEMMA BroadcastLeaveRecording ==
  ASSUME IInv, NEW n \in NodeIds, BroadcastLeave(n)
  PROVE  Recording(n)
<1> DEFINE s == [st[n] EXCEPT
                   !.tombs = InstallTombs(@, {[node |-> n, epoch |-> st[n].cfg.epoch]}),
                   !.claims = Without(@, n)]
<1>1. /\ NodeOk(n, st[n], phase[n], join[n], disk[n]) /\ UNCHANGED <<join, disk>>
      /\ phase[n] = "member" /\ Become(n, s) /\ phase' = [phase EXCEPT ![n] = "leaving"]
  BY DEF IInv, BroadcastLeave
<1>2. /\ DOMAIN s = DOMAIN st[n] /\ s.vip = st[n].vip /\ s.epoch = st[n].epoch
      /\ s.cfg = st[n].cfg /\ s.events = st[n].events /\ s.claims = Without(st[n].claims, n)
  BY <1>1 DEF NodeOk, IsState
<1>3. Exchange({}, {ClaimMsg("MLEA", n, m, s.cfg) : m \in RoutedEndpoints(s.rt) \ {n}})
  BY DEF BroadcastLeave
<1> HIDE DEF s
<1>4. st'[n] = s /\ phase'[n] = "leaving" /\ Alone(n)
  BY <1>1 DEF IInv, Alone, Become
<1>5. Id(s) = Id(st[n]) /\ s.claims \subseteq st[n].claims
  BY <1>2 DEF Id, Without
<1>6. IsState(s) /\ Unique(n, s.claims) /\ OwnRecord(n, s) /\ Follows(s)
  BY <1>1, <1>2, <1>5 DEF NodeOk, IsState, OwnRecord, Unique, Follows
<1>7. NodeOk(n, s, "leaving", join[n], disk[n])
  BY <1>1, <1>6 DEF NodeOk
<1>8. OwnRecords(n)' = OwnRecords(n) /\ s.cfg \in OwnRecords(n)
  BY <1>1, <1>2, <1>4 DEF OwnRecords
<1>9. ASSUME NEW p \in net', p \notin net
      PROVE  IsMsg(p) /\ p.kind = "MLEA" /\ p.from = n /\ Id(p) \in OwnRecords(n)
  <2>1. PICK m : m # n /\ p = ClaimMsg("MLEA", n, m, s.cfg)
    BY <1>3, <1>9 DEF Exchange
  <2>2. s.cfg \in Ident
    BY <1>6 DEF IsState
  <2>3. Id(p) = s.cfg /\ p.vip \in Vips /\ p.epoch \in Nat
    BY <2>1, <2>2 DEF ClaimMsg, Id, Ident
  <2>4. p.kind = "MLEA" /\ p.from = n /\ p.to = m
    BY <2>1 DEF ClaimMsg
  <2> QED BY <1>8, <2>1, <2>3, <2>4 DEF IsMsg, ClaimKinds
<1> QED BY <1>1, <1>4, <1>5, <1>7, <1>8, <1>9 DEF Recording, IInv

\* The save threads.
LEMMA SaveRecording ==
  ASSUME IInv, NEW n \in NodeIds, SaveConfig(n) \/ SaveCache(n)
  PROVE  Recording(n)
<1>1. NodeOk(n, st[n], phase[n], join[n], disk[n]) /\ UNCHANGED <<st, phase, join, net>>
  BY DEF IInv, SaveConfig, SaveCache
<1>2. IsProfile(disk'[n]) /\ DOMAIN disk' = NodeIds /\ \A k \in NodeIds \ {n} : disk'[k] = disk[k]
  <2>1. st[n].cfg.vip \in Vips /\ st[n].cfg.epoch \in Nat /\ IsProfile(disk[n])
    BY <1>1 DEF NodeOk, IsState, Ident
  <2>2. CASE SaveConfig(n)
    BY <2>1, <2>2 DEF SaveConfig, IInv, IsProfile
  <2>3. CASE SaveCache(n)
    BY <2>1, <2>3 DEF SaveCache, IInv, IsProfile
  <2> QED BY <2>2, <2>3
<1>3. NodeOk(n, st'[n], phase'[n], join'[n], disk'[n]) /\ Alone(n)
  BY <1>1, <1>2 DEF NodeOk, Alone, IInv
<1>4. OwnRecords(n)' = OwnRecords(n)
  BY <1>1 DEF OwnRecords
<1> QED BY <1>1, <1>2, <1>3, <1>4 DEF Recording

----------------------------------------------------------------------------
\* A lost packet, or a tick of the clock that expires tombstones.
Idle ==
    /\ DOMAIN st' = NodeIds /\ net' \subseteq net /\ UNCHANGED <<phase, join, disk>>
    /\ \A k \in NodeIds :
         IsState(st'[k]) /\ SameId(st[k], st'[k]) /\ st'[k].claims = st[k].claims

LEMMA IdleSteps ==
  ASSUME IInv, Tick \/ \E m \in net : Drop(m)
  PROVE  Idle
<1>1. CASE Tick
  <2>1. ASSUME NEW k \in NodeIds
        PROVE  IsState(st'[k]) /\ SameId(st[k], st'[k]) /\ st'[k].claims = st[k].claims
    <3>1. PICK a, b : st'[k] = [st[k] EXCEPT !.tombs = a, !.suppress = b]
      BY <1>1 DEF Tick
    <3> QED BY <3>1, StateOk DEF IsState, SameId
  <2> QED BY <1>1, <2>1 DEF Tick, Idle
<1>2. CASE \E m \in net : Drop(m)
  BY <1>2, StateOk DEF Drop, Idle, SameId, IInv
<1> QED BY <1>1, <1>2

LEMMA IdleInv ==
  ASSUME IInv, Idle
  PROVE  IInv'
<1>1. ASSUME NEW k \in NodeIds PROVE NodeOk(k, st'[k], phase[k], join[k], disk[k])
  BY DEF IInv, NodeOk, Idle, SameId, OwnRecord, Follows, Id
<1> QED BY <1>1 DEF IInv, Idle

\* A process that ends or comes back forgets its claim_map.
Exiting(n) ==
    /\ Alone(n) /\ DOMAIN disk' = NodeIds /\ \A k \in NodeIds \ {n} : disk'[k] = disk[k]
    /\ NodeOk(n, st'[n], phase'[n], join'[n], disk'[n])
    /\ st'[n].claims = {} /\ UNCHANGED net
    /\ phase[n] = "down" \/ phase'[n] \in {"down", "gone"}

LEMMA BootOk ==
  ASSUME NEW n, NEW d, IsProfile(d), NEW rt, NEW ph, NEW j \in Ident, NEW e, IsProfile(e),
         ph \in {"joining", "acked"} => j = Id(d)
  PROVE  NodeOk(n, Boot(d, rt), ph, j, e) /\ Boot(d, rt).claims = {}
<1> DEFINE s == Boot(d, rt)
<1>1. /\ s.vip = d.vip /\ s.epoch = d.epoch /\ s.cfg = Id(d) /\ s.events = <<>> /\ s.claims = {}
      /\ DOMAIN s = {"vip", "epoch", "cfg", "joined", "events", "claims", "tombs", "suppress",
                     "rt", "retry", "pending", "roster", "cache"}
  BY DEF Boot, Id
<1> HIDE DEF s
<1>2. Id(d) \in Ident /\ Id(s) = Id(d)
  BY <1>1 DEF IsProfile, Id, Ident
<1>3. IsState(s)
  BY <1>1, <1>2 DEF IsState, IsProfile
<1>4. NodeOk(n, s, ph, j, e)
  BY <1>1, <1>2, <1>3 DEF NodeOk, Unique, OwnRecord, Follows
<1> QED BY <1>1, <1>4 DEF s

LEMMA MintedOk ==
  ASSUME NEW n \in NodeIds
  PROVE  IsProfile(MintedConfig(n)) /\ MintedConfig(n).vip = InitVip[n] /\ MintedConfig(n).epoch = 0
BY GossipAssumption DEF MintedConfig, IsProfile

LEMMA ExitSteps ==
  ASSUME IInv, NEW n \in NodeIds, Stop(n) \/ RemoveProfile(n) \/ Restart(n)
  PROVE  Exiting(n)
<1>1. IsProfile(disk[n]) /\ join[n] \in Ident
  BY DEF IInv, NodeOk
<1>2. CASE Stop(n)
  <2>1. st'[n] = Boot(disk[n], EmptyRoutes) /\ phase'[n] = "down" /\ Alone(n)
    BY <1>2 DEF Stop, IInv, Alone
  <2>2. NodeOk(n, st'[n], phase'[n], join[n], disk[n]) /\ st'[n].claims = {}
    BY <1>1, <2>1, BootOk
  <2> QED BY <1>2, <2>1, <2>2 DEF Stop, Exiting, IInv
<1>3. CASE RemoveProfile(n)
  <2>1. /\ st'[n] = Boot(MintedConfig(n), EmptyRoutes) /\ phase'[n] = "gone" /\ Alone(n)
        /\ disk'[n] = MintedConfig(n) /\ DOMAIN disk' = NodeIds
        /\ \A k \in NodeIds \ {n} : disk'[k] = disk[k]
    BY <1>3 DEF RemoveProfile, IInv, Alone
  <2> DEFINE d == MintedConfig(n)
  <2>2. IsProfile(d)
    BY MintedOk
  <2> HIDE DEF d
  <2>3. NodeOk(n, Boot(d, EmptyRoutes), "gone", join[n], d) /\ Boot(d, EmptyRoutes).claims = {}
    BY <1>1, <2>2, BootOk
  <2>4. NodeOk(n, st'[n], phase'[n], join[n], disk'[n]) /\ st'[n].claims = {}
    BY <2>1, <2>3 DEF d
  <2> QED BY <1>3, <2>1, <2>4 DEF RemoveProfile, Exiting
<1>4. CASE Restart(n)
  <2>1. PICK hosts : st' = [st EXCEPT ![n] =
          Boot(disk[n], Hydrate(disk[n].vip, disk[n].roster, disk[n].cache, hosts))]
    BY <1>4 DEF Restart
  <2>2. /\ phase[n] = "down" /\ join' = [join EXCEPT ![n] = JoinSnapshot(disk[n])]
        /\ phase' = [phase EXCEPT ![n] = IF disk[n].joined THEN "member" ELSE "joining"]
        /\ UNCHANGED <<disk, net>>
    BY <1>4 DEF Restart
  <2> DEFINE rt == Hydrate(disk[n].vip, disk[n].roster, disk[n].cache, hosts)
  <2> HIDE DEF rt
  <2>3. st'[n] = Boot(disk[n], rt) /\ join'[n] = JoinSnapshot(disk[n]) /\ Alone(n)
    BY <2>1, <2>2 DEF IInv, Alone, rt
  <2>4. JoinSnapshot(disk[n]) = Id(disk[n]) /\ Id(disk[n]) \in Ident
    BY <1>1 DEF JoinSnapshot, Id, IsProfile, Ident
  <2>5. NodeOk(n, st'[n], phase'[n], join'[n], disk[n]) /\ st'[n].claims = {}
    BY <1>1, <2>3, <2>4, BootOk
  <2> QED BY <2>2, <2>3, <2>5 DEF Exiting, IInv
<1> QED BY <1>2, <1>3, <1>4

LEMMA ExitingInv ==
  ASSUME IInv, NEW n \in NodeIds, Exiting(n)
  PROVE  IInv'
<1>1. \A k \in NodeIds : NodeOk(k, st'[k], phase'[k], join'[k], disk'[k])
  BY DEF IInv, Exiting, Alone
<1> QED BY <1>1 DEF IInv, Exiting, Alone

----------------------------------------------------------------------------
\* Every step is of one of the four kinds.
LEMMA StepKinds ==
  ASSUME IInv, Next
  PROVE  Idle \/ \E n \in NodeIds : Handling(n) \/ Recording(n) \/ Exiting(n)
<1>1. CASE Tick \/ \E m \in net : Drop(m)
  BY <1>1, IdleSteps
<1>2. ASSUME NEW n \in NodeIds, FinalizeJoin(n) \/ FinalizeGenesis(n) PROVE Recording(n)
  BY <1>2, FinalizeRecording DEF FinalizeJoin, FinalizeGenesis
<1>3. ASSUME NEW n \in NodeIds,
             \/ RetryJoin(n) \/ ApplyIdentity(n) \/ BlockOnCli(n)
             \/ BroadcastLeave(n) \/ SaveConfig(n) \/ SaveCache(n)
      PROVE  Recording(n)
  BY <1>3, RetryJoinRecording, ApplyIdentityRecording, BlockOnCliRecording,
     BroadcastLeaveRecording, SaveRecording
<1>4. ASSUME NEW n \in NodeIds,
             \/ Gossip(n) \/ SendKeepalives(n) \/ StaleEvict(n)
             \/ \E due \in BOOLEAN : PresenceTick(n, due)
             \/ \E m \in NodeIds : SendJoin(n, m) \/ Punch(n, m)
             \/ \E m \in net : Receive(n, m)
      PROVE  Handling(n)
  BY <1>4, GossipHandling, KeepalivesHandling, StaleEvictHandling, PresenceTickHandling,
     JoinAndPunchHandling, ReceiveHandling
<1>5. ASSUME NEW n \in NodeIds, Stop(n) \/ RemoveProfile(n) \/ Restart(n) PROVE Exiting(n)
  BY <1>5, ExitSteps
<1> QED BY <1>1, <1>2, <1>3, <1>4, <1>5 DEF Next

LEMMA InitInv == Init => IInv
<1> SUFFICES ASSUME Init PROVE IInv
  OBVIOUS
<1>1. /\ DOMAIN st = NodeIds /\ DOMAIN phase = NodeIds
      /\ DOMAIN join = NodeIds /\ DOMAIN disk = NodeIds /\ net = {}
  BY DEF Init
<1>2. ASSUME NEW n \in NodeIds PROVE NodeOk(n, st[n], phase[n], join[n], disk[n])
  <2>1. /\ st[n] = Boot(MintedConfig(n), EmptyRoutes) /\ disk[n] = MintedConfig(n)
        /\ join[n] = JoinSnapshot(MintedConfig(n))
    BY DEF Init
  <2>2. JoinSnapshot(MintedConfig(n)) = Id(MintedConfig(n)) /\ Id(MintedConfig(n)) \in Ident
    BY MintedOk DEF JoinSnapshot, Id, Ident, IsProfile
  <2> QED BY <2>1, <2>2, MintedOk, BootOk
<1> QED BY <1>1, <1>2 DEF IInv

LEMMA StepInv == IInv /\ [Next]_vars => IInv'
<1>1. ASSUME IInv, Next PROVE IInv'
  BY <1>1, StepKinds, HandlingInv, RecordingInv, IdleInv, ExitingInv
<1>2. ASSUME IInv, UNCHANGED vars PROVE IInv'
  BY <1>2 DEF IInv, vars
<1> QED BY <1>1, <1>2

\* IInv is inductive, so every reachable state has it, exits and restarts included.
LEMMA AlwaysIInv == Spec => []IInv
BY InitInv, StepInv, PTL DEF Spec

\* apply_claim_settle_and_local_fight ends every handler with one holder per VIP,
\* whatever packets, rerolls, exits and restarts came before, for any unit.
THEOREM ViewsSettled == Spec => []SettledView
<1>1. IInv => SettledView
  BY DEF IInv, NodeOk, SettledView, Unique, OwnRecord
<1> QED BY <1>1, AlwaysIInv, PTL

\* The identity task applies the events in order, and the config then names the
\* identity of the engine, however rerolls and join finalization interleave.
THEOREM ConfigCatchesUp == Spec => []ConfigFollows
<1>1. IInv => ConfigFollows
  <2> SUFFICES ASSUME IInv, NEW n \in NodeIds, Up(n), st[n].events = <<>>
               PROVE  st[n].cfg.vip = st[n].vip /\ st[n].cfg.epoch = st[n].epoch
    BY DEF ConfigFollows
  <2>1. st[n].cfg = Id(st[n])
    BY DEF IInv, NodeOk, Follows, Up, LockedPhases
  <2> QED BY <2>1 DEF Id
<1> QED BY <1>1, AlwaysIInv, PTL

----------------------------------------------------------------------------
\* What ClaimsOf collects.
LEMMA ClaimsOfMembers ==
  \A k, e : e \in ClaimsOf(k) <=>
    \/ \E m \in NodeIds : \E c \in st[m].claims : c.node = k /\ e = Id(c)
    \/ \E p \in net : p.kind = "MCLG" /\ \E c \in p.claims : c.node = k /\ e = Id(c)
    \/ \E p \in net : p.from = k /\ p.kind \in ClaimKinds /\ e = Id(p)
    \/ e = Id(st[k])
BY DEF ClaimsOf, Id, ClaimKinds

\* A claim that a handler learned is said of its owner.
LEMMA LearnedIsSaid ==
  ASSUME IInv, NEW C, FromNet(C), NEW c \in C
  PROVE  Id(c) \in ClaimsOf(c.node)
<1>1. PICK p \in net :
        \/ p.kind = "MCLG" /\ c \in p.claims
        \/ p.kind \in ClaimKinds /\ c.node = p.from /\ c.vip = p.vip /\ c.epoch = p.epoch
  BY DEF FromNet
<1>2. CASE p.kind = "MCLG" /\ c \in p.claims
  BY <1>2, ClaimsOfMembers
<1>3. CASE p.kind \in ClaimKinds /\ c.node = p.from /\ c.vip = p.vip /\ c.epoch = p.epoch
  <2>1. Id(c) = Id(p)
    BY <1>3 DEF Id
  <2> QED BY <1>3, <2>1, ClaimsOfMembers
<1> QED BY <1>1, <1>2, <1>3

\* So is a claim in a claim_map.
LEMMA HeldIsSaid ==
  ASSUME NEW n \in NodeIds, NEW c \in st[n].claims
  PROVE  Id(c) \in ClaimsOf(c.node)
BY ClaimsOfMembers

\* FromNet(C) has only claims of nodes.
LEMMA LearnedFromNodes ==
  ASSUME IInv, NEW C, FromNet(C), NEW c \in C
  PROVE  c.node \in NodeIds
BY DEF FromNet, IInv, IsMsg, IsClaim

\* local_vip_fight and the settling give the own VIP up only to a smaller node_id
\* that some packet or claim_map names as its claimant.
THEOREM RerollsAreLost == Spec => RerollOnlyWhenBeaten
<1>1. ASSUME IInv, Next PROVE RerollStep
  <2> SUFFICES ASSUME NEW n \in NodeIds, Up(n), phase'[n] \in {phase[n], "acked", "member"},
                      st'[n].vip # st[n].vip
               PROVE  \E m \in NodeIds : m < n /\ \E c \in ClaimsOf(m) : c.vip = st[n].vip
    BY DEF RerollStep
  <2>1. CASE Idle
    BY <2>1 DEF Idle, SameId
  <2>2. ASSUME NEW k \in NodeIds, Recording(k) PROVE FALSE
    <3>1. Id(st'[n]) = Id(st[n])
      BY <2>2 DEF Recording, Alone
    <3> QED BY <3>1 DEF Id
  <2>3. ASSUME NEW k \in NodeIds, Exiting(k) PROVE FALSE
    <3>1. k = n
      BY <2>3 DEF Exiting, Alone
    <3> QED BY <2>3, <3>1 DEF Exiting, Up, LockedPhases
  <2>4. ASSUME NEW k \in NodeIds, Handling(k)
        PROVE  \E m \in NodeIds : m < n /\ \E c \in ClaimsOf(m) : c.vip = st[n].vip
    <3>1. k = n
      BY <2>4 DEF Handling, Alone
    <3>2. PICK C : FromNet(C) /\ Handled(n, st[n], st'[n], C)
      BY <2>4, <3>1 DEF Handling
    <3>3. PICK c \in st[n].claims \cup C : c.vip = st[n].vip /\ c.node < n
      BY <3>2 DEF Handled, SameId, Beaten
    <3>4. c.node \in NodeIds
      BY <1>1, <3>2, StateOk, LearnedFromNodes DEF IsState, IsClaim
    <3>5. Id(c) \in ClaimsOf(c.node)
      BY <1>1, <3>2, LearnedIsSaid, HeldIsSaid
    <3> QED BY <3>3, <3>4, <3>5 DEF Id
  <2> QED BY <1>1, <2>1, <2>2, <2>3, <2>4, StepKinds
<1> QED BY <1>1, AlwaysIInv, PTL DEF Spec, RerollOnlyWhenBeaten

\* merge_claim asks the tombstones first, those of the same digest included, and
\* nothing else brings a claim into the claim_map.
THEOREM TombstonesHold == Spec => TombstoneHolds
<1>1. ASSUME IInv, Next PROVE TombstoneStep
  <2> SUFFICES ASSUME NEW n \in NodeIds, NEW t \in st'[n].tombs, NEW c \in st'[n].claims,
                      c.node = t.node, c.node # n, c.epoch <= t.epoch
               PROVE  \E d \in st[n].claims : SameClaim(c, d)
    BY DEF TombstoneStep
  <2>1. SUFFICES ASSUME c \notin st[n].claims
                 PROVE  \E d \in st[n].claims : SameClaim(c, d)
    BY DEF SameClaim
  <2>2. CASE Idle
    BY <2>1, <2>2 DEF Idle
  <2>3. ASSUME NEW k \in NodeIds, Recording(k) \/ Exiting(k) PROVE FALSE
    BY <2>1, <2>3 DEF Recording, Exiting, Alone
  <2>4. ASSUME NEW k \in NodeIds, Handling(k)
        PROVE  \E d \in st[n].claims : SameClaim(c, d)
    <3>1. k = n
      BY <2>1, <2>4 DEF Handling, Alone
    <3>2. PICK C : Handled(n, st[n], st'[n], C)
      BY <2>4, <3>1 DEF Handling
    <3>3. LeaveTombstoneBlocks(st'[n], c)
      BY DEF LeaveTombstoneBlocks
    <3> QED BY <3>2, <3>3 DEF Handled
  <2> QED BY <1>1, <2>2, <2>3, <2>4, StepKinds
<1> QED BY <1>1, AlwaysIInv, PTL DEF Spec, TombstoneHolds

----------------------------------------------------------------------------
\* Everything that Membership hears of k.
HeardOf(k) == ClaimsOf(k) \cup OwnRecords(k)

LEMMA ClaimsOfMembersNext ==
  \A k, e : e \in ClaimsOf(k)' <=>
    \/ \E m \in NodeIds : \E c \in st'[m].claims : c.node = k /\ e = Id(c)
    \/ \E p \in net' : p.kind = "MCLG" /\ \E c \in p.claims : c.node = k /\ e = Id(c)
    \/ \E p \in net' : p.from = k /\ p.kind \in ClaimKinds /\ e = Id(p)
    \/ e = Id(st'[k])
BY DEF ClaimsOf, Id, ClaimKinds

LEMMA IdleHeard ==
  ASSUME IInv, Idle, NEW k \in NodeIds
  PROVE  Id(st'[k]) = Id(st[k]) /\ HeardOf(k)' \subseteq HeardOf(k)
<1>1. Id(st'[k]) = Id(st[k])
  BY DEF Idle, SameId, Id
<1>2. OwnRecords(k)' = OwnRecords(k)
  BY DEF Idle, SameId, OwnRecords
<1>3. ASSUME NEW e \in ClaimsOf(k)' PROVE e \in ClaimsOf(k)
  BY <1>1, ClaimsOfMembers, ClaimsOfMembersNext DEF Idle
<1> QED BY <1>1, <1>2, <1>3 DEF HeardOf

LEMMA RecordingHeard ==
  ASSUME IInv, NEW n \in NodeIds, Recording(n), NEW k \in NodeIds
  PROVE  Id(st'[k]) = Id(st[k]) /\ HeardOf(k)' \subseteq HeardOf(k)
<1>1. Id(st'[k]) = Id(st[k]) /\ Id(st[k]) \in ClaimsOf(k)
  BY ClaimsOfMembers DEF Recording, Alone
<1>2. OwnRecords(k)' \subseteq OwnRecords(k) \cup {Id(st[k])}
  BY DEF Recording, Alone, OwnRecords
<1>3. ASSUME NEW e \in ClaimsOf(k)' PROVE e \in HeardOf(k)
  <2>1. CASE \E m \in NodeIds : \E c \in st'[m].claims : c.node = k /\ e = Id(c)
    BY <2>1, ClaimsOfMembers DEF Recording, Alone, HeardOf
  <2>2. CASE \E p \in net' : p.kind = "MCLG" /\ \E c \in p.claims : c.node = k /\ e = Id(c)
    BY <2>2, ClaimsOfMembers DEF Recording, HeardOf
  <2>3. CASE \E p \in net' : p.from = k /\ p.kind \in ClaimKinds /\ e = Id(p)
    BY <2>3, ClaimsOfMembers DEF Recording, HeardOf
  <2>4. CASE e = Id(st'[k])
    BY <1>1, <2>4 DEF HeardOf
  <2> QED BY <2>1, <2>2, <2>3, <2>4, ClaimsOfMembersNext
<1> QED BY <1>1, <1>2, <1>3 DEF HeardOf

LEMMA HandlingHeard ==
  ASSUME IInv, NEW n \in NodeIds, Handling(n), NEW k \in NodeIds
  PROVE  /\ HeardOf(k)' \subseteq HeardOf(k) \cup {Id(st'[k])}
         /\ k # n => Id(st'[k]) = Id(st[k])
<1>1. PICK C : FromNet(C) /\ Handled(n, st[n], st'[n], C)
  BY DEF Handling
<1>2. OwnRecords(k)' \subseteq OwnRecords(k) \cup {Id(st'[k])}
  <2>1. CASE k # n
    BY <2>1 DEF Handling, Alone, OwnRecords
  <2>2. CASE k = n
    <3>1. join'[n] \in {join[n], Id(st'[n])}
      BY DEF Handling
    <3>2. st'[n].cfg \in {st[n].cfg, Id(st'[n])}
      BY <1>1 DEF Handled, SameId, NewId
    <3>3. Range(st'[n].events) \subseteq Range(st[n].events) \cup {Id(st'[n])}
      <4>1. CASE SameId(st[n], st'[n])
        BY <4>1 DEF SameId
      <4>2. CASE NewId(st[n], st'[n])
        <5>1. st[n].events \in Seq(Ident) /\ Id(st'[n]) \in Ident
          BY <1>1, StateOk DEF Handled, IsState, Id, Ident
        <5>2. \A q \in Seq(Ident), e \in Ident : Range(Append(q, e)) \subseteq Range(q) \cup {e}
          BY DEF Range
        <5> QED BY <4>2, <5>1, <5>2 DEF NewId
      <4> QED BY <1>1, <4>1, <4>2 DEF Handled
    <3> QED BY <2>2, <3>1, <3>2, <3>3 DEF OwnRecords
  <2> QED BY <2>1, <2>2
\* A claim in a claim_map afterwards was held or learned, or is the own one.
<1>3. ASSUME NEW m \in NodeIds, NEW c \in st'[m].claims
      PROVE  Id(c) \in ClaimsOf(c.node) \/ (c.node = n /\ Id(c) = Id(st'[n]))
  <2>1. CASE m # n
    BY <2>1, HeldIsSaid DEF Handling, Alone
  <2>2. CASE m = n
    <3>1. ASSUME NEW d, SameClaim(c, d) PROVE c.node = d.node /\ Id(c) = Id(d)
      BY <3>1 DEF SameClaim, Id
    <3>2. c.node = n => Id(c) = Id(st'[n])
      BY <1>1, <2>2 DEF Handled, OwnRecord, Id
    <3>3. CASE \E d \in st[n].claims \cup C : SameClaim(c, d)
      BY <1>1, <3>1, <3>3, HeldIsSaid, LearnedIsSaid
    <3> QED BY <1>1, <2>2, <3>2, <3>3 DEF Handled
  <2> QED BY <2>1, <2>2
<1>4. ASSUME NEW e \in ClaimsOf(k)' PROVE e \in HeardOf(k) \cup {Id(st'[k])}
  <2>1. CASE \E m \in NodeIds : \E c \in st'[m].claims : c.node = k /\ e = Id(c)
    BY <1>3, <2>1 DEF HeardOf
  <2>2. CASE \E p \in net' : p.kind = "MCLG" /\ \E c \in p.claims : c.node = k /\ e = Id(c)
    <3>1. PICK p \in net' : p.kind = "MCLG" /\ \E c \in p.claims : c.node = k /\ e = Id(c)
      BY <2>2
    <3>2. CASE p \in net
      BY <3>1, <3>2, ClaimsOfMembers DEF HeardOf
    <3>3. CASE Says(n, p)
      <4>1. PICK c \in p.claims : c.node = k /\ e = Id(c)
        BY <3>1
      <4>2. CASE c.node = n /\ Id(c) = Id(st'[n])
        BY <4>1, <4>2
      <4>3. ASSUME NEW d \in st'[n].claims, SameClaim(c, d)
            PROVE  e \in HeardOf(k) \cup {Id(st'[k])}
        <5>1. d.node = k /\ Id(d) = e
          BY <4>1, <4>3 DEF SameClaim, Id
        <5> QED BY <1>3, <5>1 DEF HeardOf
      <4> QED BY <3>1, <3>3, <4>2, <4>3 DEF Says
    <3> QED BY <3>2, <3>3 DEF Handling
  <2>3. CASE \E p \in net' : p.from = k /\ p.kind \in ClaimKinds /\ e = Id(p)
    <3>1. PICK p \in net' : p.from = k /\ p.kind \in ClaimKinds /\ e = Id(p)
      BY <2>3
    <3>2. CASE p \in net
      BY <3>1, <3>2, ClaimsOfMembers DEF HeardOf
    <3>3. CASE Says(n, p)
      BY <3>1, <3>3 DEF Says, HeardOf, OwnRecords
    <3> QED BY <3>2, <3>3 DEF Handling
  <2>4. CASE e = Id(st'[k])
    BY <2>4
  <2> QED BY <2>1, <2>2, <2>3, <2>4, ClaimsOfMembersNext
<1>5. k # n => Id(st'[k]) = Id(st[k])
  BY DEF Handling, Alone
<1> QED BY <1>2, <1>4, <1>5 DEF HeardOf

----------------------------------------------------------------------------
\* No process exits in this step, and none has before.
StaysUp == \A n \in NodeIds : phase'[n] \notin {"down", "gone"}
NobodyDown == \A n \in NodeIds : phase[n] \notin {"down", "gone"}

LEMMA UnitInit == Init => Unit!Init
<1> SUFFICES ASSUME Init PROVE Unit!Init
  OBVIOUS
<1>1. IInv
  BY InitInv
<1>2. ASSUME NEW n \in NodeIds PROVE Id(st[n]) \in Ident /\ HeardOf(n) = {Id(st[n])}
  <2>1. /\ st[n].vip = InitVip[n] /\ st[n].epoch = 0 /\ st[n].claims = {} /\ st[n].events = <<>>
        /\ st[n].cfg = Id(st[n]) /\ join[n] = Id(st[n])
    BY DEF Init, Boot, MintedConfig, JoinSnapshot, Id
  <2>2. \A m \in NodeIds : st[m].claims = {}
    BY DEF Init, Boot
  <2>3. net = {}
    BY DEF Init
  <2>4. ClaimsOf(n) = {Id(st[n])}
    BY <2>2, <2>3, ClaimsOfMembers
  <2>5. OwnRecords(n) = {Id(st[n])}
    BY <2>1 DEF OwnRecords, Range
  <2>6. Id(st[n]) \in Ident
    BY <1>1, StateOk DEF IsState, Id, Ident
  <2> QED BY <2>4, <2>5, <2>6 DEF HeardOf
<1> QED BY <1>2 DEF Unit!Init, Unit!Identity, Id, Ident, HeardOf

LEMMA UnitStep ==
  ASSUME IInv, NobodyDown, Next, StaysUp
  PROVE  Unit!Next
<1> DEFINE ids == [n \in NodeIds |-> Id(st[n])]
           heard == [n \in NodeIds |-> HeardOf(n)]
<1>1. /\ \A k \in NodeIds : HeardOf(k)' \subseteq HeardOf(k) \cup {Id(st'[k])}
      /\ \/ \A k \in NodeIds : Id(st'[k]) = Id(st[k])
         \/ \E n \in NodeIds : /\ st'[n].vip \in Vips \ {st[n].vip} /\ st'[n].epoch = st[n].epoch + 1
                               /\ \A k \in NodeIds \ {n} : Id(st'[k]) = Id(st[k])
  <2>1. CASE Idle
    BY <2>1, IdleHeard
  <2>2. ASSUME NEW n \in NodeIds, Recording(n)
        PROVE  \A k \in NodeIds : Id(st'[k]) = Id(st[k]) /\ HeardOf(k)' \subseteq HeardOf(k)
    BY <2>2, RecordingHeard
  <2>3. ASSUME NEW n \in NodeIds, Exiting(n) PROVE FALSE
    BY <2>3 DEF Exiting, NobodyDown, StaysUp
  <2>4. ASSUME NEW n \in NodeIds, Handling(n)
        PROVE  /\ \A k \in NodeIds : HeardOf(k)' \subseteq HeardOf(k) \cup {Id(st'[k])}
               /\ \A k \in NodeIds \ {n} : Id(st'[k]) = Id(st[k])
               /\ \/ Id(st'[n]) = Id(st[n])
                  \/ st'[n].vip \in Vips \ {st[n].vip} /\ st'[n].epoch = st[n].epoch + 1
    <3>1. PICK C : Handled(n, st[n], st'[n], C)
      BY <2>4 DEF Handling
    <3>2. \/ Id(st'[n]) = Id(st[n])
          \/ st'[n].vip \in Vips \ {st[n].vip} /\ st'[n].epoch = st[n].epoch + 1
      BY <3>1 DEF Handled, SameId, NewId, Id, IsState
    <3> QED BY <2>4, <3>2, HandlingHeard
  <2> QED BY <2>1, <2>2, <2>3, <2>4, StepKinds
<1>2. \A k \in NodeIds : Id(st'[k]) \in HeardOf(k)'
  BY ClaimsOfMembersNext DEF HeardOf
<1>3. UNCHANGED ids \/ \E n \in NodeIds : \E v \in Vips \ {ids[n].vip} :
                          ids' = [ids EXCEPT ![n] = [vip |-> v, epoch |-> ids[n].epoch + 1]]
  <2>1. CASE \A k \in NodeIds : Id(st'[k]) = Id(st[k])
    BY <2>1
  <2>2. ASSUME NEW n \in NodeIds,
               st'[n].vip \in Vips \ {st[n].vip}, st'[n].epoch = st[n].epoch + 1,
               \A k \in NodeIds \ {n} : Id(st'[k]) = Id(st[k])
        PROVE  \E v \in Vips \ {ids[n].vip} :
                 ids' = [ids EXCEPT ![n] = [vip |-> v, epoch |-> ids[n].epoch + 1]]
    <3>1. ids[n].vip = st[n].vip /\ ids[n].epoch = st[n].epoch
      BY DEF Id
    <3>2. Id(st'[n]) = [vip |-> st'[n].vip, epoch |-> ids[n].epoch + 1]
      BY <2>2, <3>1 DEF Id
    <3>3. ids' = [ids EXCEPT ![n] = [vip |-> st'[n].vip, epoch |-> ids[n].epoch + 1]]
      BY <2>2, <3>2
    <3> QED BY <2>2, <3>1, <3>3
  <2> QED BY <1>1, <2>1, <2>2
<1>4. /\ heard' = [n \in NodeIds |-> heard'[n]]
      /\ \A n \in NodeIds : ids'[n] \in heard'[n] /\ heard'[n] \subseteq heard[n] \cup {ids'[n]}
  BY <1>1, <1>2
<1> QED BY <1>3, <1>4 DEF Unit!Next, Unit!Reroll, Unit!Heard, Id, HeardOf

\* While no process exits, engines that reroll, merge, gossip, join and leave over a
\* network that loses, delays and reorders implement Membership: nobody invents an
\* identity of somebody else.
THEOREM GossipImplementsMembership == Spec /\ [][StaysUp]_vars => ImplementsMembership
<1>1. Init => NobodyDown
  BY DEF Init, NobodyDown
<1>2. NobodyDown /\ [StaysUp]_vars => NobodyDown'
  BY DEF NobodyDown, StaysUp, vars
<1>3. IInv /\ NobodyDown /\ [Next]_vars /\ [StaysUp]_vars =>
        [Unit!Next]_<<[n \in NodeIds |-> [vip |-> st[n].vip, epoch |-> st[n].epoch]],
                      [n \in NodeIds |-> ClaimsOf(n) \cup OwnRecords(n)]>>
  <2>1. CASE UNCHANGED vars
    BY <2>1 DEF vars, ClaimsOf, OwnRecords
  <2>2. ASSUME IInv, NobodyDown, Next, StaysUp PROVE Unit!Next
    BY <2>2, UnitStep
  <2> QED BY <2>1, <2>2
<1> QED BY UnitInit, AlwaysIInv, <1>1, <1>2, <1>3, PTL DEF Spec, ImplementsMembership, Unit!Spec

----------------------------------------------------------------------------
(* What follows from Membership.                                          *)

\* Identities i of the nodes and what is said of them, h: one epoch names one VIP, and
\* nothing runs ahead of its owner.
Said(i, h) ==
    \A n \in NodeIds :
        /\ i[n] \in Unit!Identity /\ i[n] \in h[n] /\ h[n] \subseteq Unit!Identity
        /\ \A c \in h[n] : /\ c.epoch <= i[n].epoch
                           /\ \A d \in h[n] : c.epoch = d.epoch => c.vip = d.vip

\* What is said afterwards is what was said before, or the new identity.
LEMMA SaidKept ==
  ASSUME NEW i, NEW h, NEW j, NEW g, Said(i, h),
         \A n \in NodeIds : \/ j[n] = i[n]
                            \/ j[n] \in Unit!Identity /\ j[n].epoch = i[n].epoch + 1,
         \A n \in NodeIds : j[n] \in g[n] /\ g[n] \subseteq h[n] \cup {j[n]}
  PROVE  Said(j, g) /\ \A n \in NodeIds : j[n].epoch >= i[n].epoch
<1> SUFFICES ASSUME NEW n \in NodeIds
             PROVE  /\ j[n] \in Unit!Identity /\ j[n] \in g[n] /\ g[n] \subseteq Unit!Identity
                    /\ \A c \in g[n] : /\ c.epoch <= j[n].epoch
                                       /\ \A d \in g[n] : c.epoch = d.epoch => c.vip = d.vip
                    /\ j[n].epoch >= i[n].epoch
  BY DEF Said
<1>1. /\ i[n] \in Unit!Identity /\ i[n] \in h[n] /\ h[n] \subseteq Unit!Identity
      /\ \A c \in h[n] : c.epoch <= i[n].epoch
      /\ \A c, d \in h[n] : c.epoch = d.epoch => c.vip = d.vip
  BY DEF Said
<1>2. i[n].epoch \in Nat /\ \A c \in h[n] : c.epoch \in Nat
  BY <1>1 DEF Unit!Identity
<1>3. CASE j[n] = i[n]
  BY <1>1, <1>2, <1>3
<1>4. CASE j[n] \in Unit!Identity /\ j[n].epoch = i[n].epoch + 1
  <2>1. \A c \in h[n] : c.epoch < j[n].epoch
    BY <1>1, <1>2, <1>4
  <2> QED BY <1>1, <1>2, <1>4, <2>1
<1> QED BY <1>3, <1>4

Ids == [n \in NodeIds |-> [vip |-> st[n].vip, epoch |-> st[n].epoch]]
HeardIn == [n \in NodeIds |-> ClaimsOf(n) \cup OwnRecords(n)]

LEMMA UnitKept ==
  ASSUME Said(Ids, HeardIn), [Unit!Next]_<<Ids, HeardIn>>
  PROVE  Said(Ids, HeardIn)' /\ \A n \in NodeIds : Ids'[n].epoch >= Ids[n].epoch
<1>1. CASE UNCHANGED <<Ids, HeardIn>>
  BY <1>1 DEF Said, Unit!Identity
<1>2. CASE Unit!Next
  <2>1. \A n \in NodeIds : Ids'[n] \in HeardIn'[n] /\ HeardIn'[n] \subseteq HeardIn[n] \cup {Ids'[n]}
    BY <1>2 DEF Unit!Next, Unit!Heard, Ids, HeardIn
  <2>2. \A n \in NodeIds : Ids[n] \in Unit!Identity
    BY DEF Said
  <2>3. \A n \in NodeIds : \/ Ids'[n] = Ids[n]
                           \/ Ids'[n] \in Unit!Identity /\ Ids'[n].epoch = Ids[n].epoch + 1
    <3>1. CASE UNCHANGED Ids
      BY <3>1
    <3>2. ASSUME NEW k \in NodeIds, NEW v \in Vips,
                 Ids' = [Ids EXCEPT ![k] = [vip |-> v, epoch |-> Ids[k].epoch + 1]]
          PROVE  \A n \in NodeIds : \/ Ids'[n] = Ids[n]
                                    \/ Ids'[n] \in Unit!Identity /\ Ids'[n].epoch = Ids[n].epoch + 1
      <4>1. Ids[k].epoch \in Nat
        BY <2>2 DEF Unit!Identity
      <4>2. DOMAIN Ids = NodeIds
        BY DEF Ids
      <4> QED BY <3>2, <4>1, <4>2 DEF Unit!Identity
    <3>3. \/ UNCHANGED Ids
          \/ \E k \in NodeIds, v \in Vips :
               Ids' = [Ids EXCEPT ![k] = [vip |-> v, epoch |-> Ids[k].epoch + 1]]
      BY <1>2 DEF Unit!Next, Unit!Reroll, Ids
    <3> QED BY <3>1, <3>2, <3>3
  <2>4. Said(Ids', HeardIn') /\ \A n \in NodeIds : Ids'[n].epoch >= Ids[n].epoch
    BY <2>1, <2>3, SaidKept
  <2> QED BY <2>4 DEF Said, Unit!Identity
<1> QED BY <1>1, <1>2

\* The promise of Membership: one epoch of a member never carries two VIPs wherever it is
\* heard, and nothing heard is ahead of the member (merge_claim, apply_local_vip_change).
THEOREM OneVipPerEpochAlways == Unit!Spec => []Unit!OneVipPerEpoch
<1>1. Unit!Init => Said(Ids, HeardIn)
  BY DEF Unit!Init, Unit!Identity, Said, Ids, HeardIn
<1>2. Said(Ids, HeardIn) /\ [Unit!Next]_<<Ids, HeardIn>> => Said(Ids, HeardIn)'
  BY UnitKept
<1>3. Said(Ids, HeardIn) => Unit!OneVipPerEpoch
  BY DEF Said, Unit!OneVipPerEpoch, Ids, HeardIn
<1> QED BY <1>1, <1>2, <1>3, PTL DEF Unit!Spec, Ids, HeardIn

\* What merge_claim relies on when it keeps the first claim of an epoch: wherever
\* claims on n are held or under way, one epoch names one VIP, and none is newer
\* than n's own.
OneVipPerEpoch ==
    \A n \in NodeIds : \A c, d \in ClaimsOf(n) :
        c.epoch <= st[n].epoch /\ (c.epoch = d.epoch => c.vip = d.vip)

\* apply_local_vip_change and merge_claim together, through the refinement and the
\* theorem about Membership.
THEOREM EpochNamesOneVip == Spec /\ [][StaysUp]_vars => []OneVipPerEpoch
<1>1. Unit!OneVipPerEpoch => OneVipPerEpoch
  BY DEF Unit!OneVipPerEpoch, OneVipPerEpoch
<1> QED BY GossipImplementsMembership, OneVipPerEpochAlways, <1>1, PTL DEF ImplementsMembership

EpochGrows == \A n \in NodeIds : st'[n].epoch >= st[n].epoch

\* While no process exits no engine's epoch falls, whatever it hears (apply_local_vip_change).
THEOREM EpochsGrow == Spec /\ [][StaysUp]_vars => [][EpochGrows]_vars
<1>1. Unit!Init => Said(Ids, HeardIn)
  BY DEF Unit!Init, Unit!Identity, Said, Ids, HeardIn
<1>2. Said(Ids, HeardIn) /\ [Unit!Next]_<<Ids, HeardIn>> => Said(Ids, HeardIn)' /\ EpochGrows
  BY UnitKept DEF EpochGrows, Ids
<1> QED BY GossipImplementsMembership, <1>1, <1>2, PTL DEF ImplementsMembership, Unit!Spec, Ids, HeardIn

----------------------------------------------------------------------------
(* No engine routes its own VIP.                                           *)

\* The fields of a routing table, and one with no route to vip.
IsTable(rt) == DOMAIN rt = {"table", "ep_to_vip", "node_to_vip"} /\ DOMAIN rt.table = Vips

Fields == {"vip", "epoch", "cfg", "joined", "events", "claims", "tombs", "suppress",
           "rt", "retry", "pending", "roster", "cache"}

\* NeverRoutesOwnVip of one engine, with what its handlers need of its state.
OwnFree(s) ==
    /\ DOMAIN s = Fields /\ IsFiniteSet(s.claims)
    /\ IsTable(s.rt) /\ s.vip \notin Routed(s.rt)

LEMMA RemoveAllRoutes ==
  ASSUME NEW rt, IsTable(rt), NEW V
  PROVE  IsTable(RemoveAll(rt, V)) /\ Routed(RemoveAll(rt, V)) \subseteq Routed(rt)
BY DEF RemoveAll, IsTable, Routed

LEMMA UpdateRoutes ==
  ASSUME NEW rt, IsTable(rt), NEW vip, NEW ep, NEW node, NEW weak
  PROVE  LET u == UpdateVip(rt, vip, ep, node, weak) IN
         IsTable(u) /\ Routed(u) \subseteq Routed(rt) \cup {vip}
<1> DEFINE r == ReleaseAlias(rt, vip, ep, node)
           e == NewEntry(r, vip, ep, node)
           i == Install(r, vip, e)
<1>1. IsTable(r) /\ Routed(r) \subseteq Routed(rt)
  <2>1. r \in {RemoveVip(rt, rt.ep_to_vip[ep]), [rt EXCEPT !.ep_to_vip[ep] = None], rt}
    BY DEF ReleaseAlias
  <2>2. IsTable([rt EXCEPT !.ep_to_vip[ep] = None])
        /\ Routed([rt EXCEPT !.ep_to_vip[ep] = None]) = Routed(rt)
    BY DEF IsTable, Routed
  <2> QED BY <2>1, <2>2, RemoveAllRoutes DEF RemoveVip
<1>2. UpdateVip(rt, vip, ep, node, weak) \in {rt, i}
  BY DEF UpdateVip
<1> HIDE DEF r, e
<1>3. IsTable(i) /\ i.table = [r.table EXCEPT ![vip] = e]
  BY <1>1 DEF Install, IsTable
<1> HIDE DEF i
<1>4. Routed(i) \subseteq Routed(r) \cup {vip}
  BY <1>1, <1>3 DEF Routed, IsTable
<1> QED BY <1>1, <1>2, <1>3, <1>4

----------------------------------------------------------------------------
LEMMA PutFinite ==
  ASSUME NEW S, IsFiniteSet(S), NEW r
  PROVE  IsFiniteSet(Put(S, r))
<1>1. IsFiniteSet({x \in S : x.node # r.node})
  BY FS_Subset
<1> QED BY <1>1, FS_AddElement DEF Put

LEMMA DropLosersFree ==
  ASSUME NEW s, OwnFree(s), NEW L
  PROVE  OwnFree(DropLosers(s, L))
<1> DEFINE V == {v \in Routed(s.rt) :
                   \E c \in L : c.vip = v /\ s.rt.table[v].node \in {None, c.node}}
           t == DropLosers(s, L)
<1>1. DOMAIN t = Fields /\ t.rt = RemoveAll(s.rt, V) /\ t.vip = s.vip /\ t.claims = s.claims
  BY DEF DropLosers, OwnFree, Fields
<1>2. IsTable(t.rt) /\ Routed(t.rt) \subseteq Routed(s.rt)
  BY <1>1, RemoveAllRoutes DEF OwnFree
<1> HIDE DEF t
<1>3. OwnFree(t)
  BY <1>1, <1>2 DEF OwnFree
<1> QED BY <1>3 DEF t

\* pick_free_vip avoids every routed VIP.
LEMMA TryRerollFree ==
  ASSUME NEW me, NEW s, OwnFree(s)
  PROVE  OwnFree(TryReroll(me, s))
<1> DEFINE free == Vips \ OccupiedVips(s)
           id == [vip |-> FirstFree(free), epoch |-> s.epoch + 1]
           u == [s EXCEPT !.vip = id.vip, !.epoch = id.epoch, !.cfg = id,
                          !.events = Append(@, id), !.retry = FALSE, !.pending = TRUE,
                          !.rt = RemoveVip(@, s.vip)]
           own == OwnClaim(me, u)
           t == [u EXCEPT !.claims = Put(@, own)]
<1>1. CASE free = {}
  <2>1. TryReroll(me, s) = [s EXCEPT !.retry = TRUE]
    BY <1>1 DEF TryReroll
  <2>2. OwnFree([s EXCEPT !.retry = TRUE])
    BY DEF OwnFree, Fields
  <2> QED BY <2>1, <2>2
<1>2. CASE free # {}
  <2>1. TryReroll(me, s) = t
    BY <1>2 DEF TryReroll, ApplyVipChange
  <2>2. id.vip \in free /\ free \cap Routed(s.rt) = {}
    <3>1. FirstFree(free) \in free
      BY <1>2, FirstFreeIsFree
    <3> QED BY <3>1 DEF OccupiedVips
  <2> HIDE DEF id, free
  <2>3. DOMAIN u = Fields /\ u.vip = id.vip /\ u.rt = RemoveAll(s.rt, {s.vip}) /\ u.claims = s.claims
    BY DEF OwnFree, Fields, RemoveVip
  <2>4. IsTable(u.rt) /\ Routed(u.rt) \subseteq Routed(s.rt)
    BY <2>3, RemoveAllRoutes DEF OwnFree
  <2> HIDE DEF u, own
  <2>5. DOMAIN t = Fields /\ t.vip = u.vip /\ t.rt = u.rt /\ t.claims = Put(u.claims, own)
    BY <2>3 DEF Fields
  <2>6. IsFiniteSet(t.claims)
    BY <2>3, <2>5, PutFinite DEF OwnFree
  <2> HIDE DEF t
  <2> QED BY <2>1, <2>2, <2>3, <2>4, <2>5, <2>6 DEF OwnFree
<1> QED BY <1>1, <1>2

LEMMA LoseOwnClaimFree ==
  ASSUME NEW me, NEW s, OwnFree(s)
  PROVE  OwnFree(LoseOwnClaim(me, s))
<1> DEFINE t == TryReroll(me, s)
           own == OwnClaim(me, s)
           u == [t EXCEPT !.claims = Put(@, own)]
<1>1. LoseOwnClaim(me, s) \in {t, u}
  BY DEF LoseOwnClaim
<1>2. OwnFree(t)
  BY TryRerollFree
<1> HIDE DEF t, own
<1>3. DOMAIN u = Fields /\ u.vip = t.vip /\ u.rt = t.rt /\ u.claims = Put(t.claims, own)
  BY <1>2 DEF OwnFree, Fields
<1>4. IsFiniteSet(u.claims)
  BY <1>2, <1>3, PutFinite DEF OwnFree
<1> HIDE DEF u
<1> QED BY <1>1, <1>2, <1>3, <1>4 DEF OwnFree

LEMMA LocalFightFree ==
  ASSUME NEW me, NEW s, OwnFree(s)
  PROVE  OwnFree(LocalFight(me, s))
BY TryRerollFree DEF LocalFight

LEMMA SettleAndFightFree ==
  ASSUME NEW me, NEW s, OwnFree(s), NEW t \in SettleAndFight(me, s)
  PROVE  OwnFree(t)
<1> DEFINE losers == s.claims \ Settled(s.claims)
           others == Without(losers, me)
           s0 == [s EXCEPT !.claims = Settled(@)]
<1>1. OwnFree(s0)
  <2>1. DOMAIN s0 = Fields /\ s0.vip = s.vip /\ s0.rt = s.rt /\ s0.claims = Settled(s.claims)
    BY DEF OwnFree, Fields
  <2>2. IsFiniteSet(Settled(s.claims))
    BY FS_Subset DEF OwnFree, Settled
  <2> HIDE DEF s0
  <2> QED BY <2>1, <2>2 DEF OwnFree
<1>2. PICK u : /\ t = LocalFight(me, u)
               /\ \/ u = DropLosers(s0, others)
                  \/ \E D : u = DropLosers(LoseOwnClaim(me, DropLosers(s0, D)), others \ D)
  BY DEF SettleAndFight
<1> HIDE DEF s0, others
<1>3. OwnFree(u)
  BY <1>1, <1>2, DropLosersFree, LoseOwnClaimFree
<1> QED BY <1>2, <1>3, LocalFightFree

----------------------------------------------------------------------------
\* update_route and the claims it follows.
LEMMA UpdateRouteFree ==
  ASSUME NEW s, OwnFree(s), NEW vip, NEW ep, NEW node, NEW weak
  PROVE  LET t == UpdateRoute(s, vip, ep, node, weak) IN
         OwnFree(t) /\ t.vip = s.vip /\ t.claims = s.claims
<1> DEFINE t == UpdateRoute(s, vip, ep, node, weak)
           r == UpdateVip(s.rt, vip, ep, node, weak)
<1>1. CASE vip = s.vip
  BY <1>1 DEF UpdateRoute
<1>2. CASE vip # s.vip
  <2>1. DOMAIN t = Fields /\ t.rt = r /\ t.vip = s.vip /\ t.claims = s.claims
    BY <1>2 DEF UpdateRoute, OwnFree, Fields
  <2>2. IsTable(r) /\ Routed(r) \subseteq Routed(s.rt) \cup {vip}
    BY UpdateRoutes DEF OwnFree
  <2> HIDE DEF t, r
  <2>3. OwnFree(t)
    BY <1>2, <2>1, <2>2 DEF OwnFree
  <2> QED BY <2>1, <2>3 DEF t
<1> QED BY <1>1, <1>2

LEMMA RouteClaimFree ==
  ASSUME NEW s, OwnFree(s), NEW c, NEW ep
  PROVE  LET t == RouteClaim(s, c, ep) IN OwnFree(t) /\ t.vip = s.vip
<1> DEFINE weak == FALSE
           u == UpdateRoute(s, c.vip, ep, c.node, weak)
           row == [node |-> c.node, vip |-> c.vip, ep |-> ep]
           t == [u EXCEPT !.roster = UpsertRoster(@, row)]
<1>1. RouteClaim(s, c, ep) \in {s, t}
  BY DEF RouteClaim
<1> HIDE DEF weak
<1>2. OwnFree(u) /\ u.vip = s.vip
  BY UpdateRouteFree
<1> HIDE DEF u, row
<1>3. OwnFree(t) /\ t.vip = u.vip
  BY <1>2 DEF OwnFree, Fields
<1> QED BY <1>1, <1>2, <1>3

LEMMA LeastNat ==
  ASSUME NEW S, S \subseteq Nat, S # {}
  PROVE  \E m \in S : \A x \in S : m <= x
<1>1. PICK m \in S : \A x \in S : ~(<<x, m>> \in OpToRel(<, Nat))
  BY NatLessThanWellFounded, WFMin
<1>2. ASSUME NEW x \in S PROVE m <= x
  <2>1. x \in Nat /\ m \in Nat /\ <<x, m>> \in Nat \X Nat
    OBVIOUS
  <2>2. ~(x < m)
    BY <1>1, <2>1 DEF OpToRel
  <2> QED BY <2>1, <2>2
<1> QED BY <1>2

LEMMA RouteEachFree ==
  ASSUME NEW s, OwnFree(s), NEW live, IsFiniteSet(live), NEW from, NEW start
  PROVE  LET t == RouteEach(s, live, from, start) IN OwnFree(t) /\ t.vip = s.vip
<1> DEFINE q == DigestOrder(live, from, start)
           n == Cardinality(live)
           hint(i) == IF q[i].node = from THEN from ELSE q[i].hint
           Next1(t, i) == RouteClaim(t, q[i], hint(i))
           Run(f, k) == f = [i \in 0..k |-> IF i = 0 THEN s ELSE Next1(f[i - 1], i)]
           after == CHOOSE f : Run(f, n)
<1>1. RouteEach(s, live, from, start) = after[n]
  BY DEF RouteEach
<1>2. n \in Nat
  BY FS_CardinalityType
<1> HIDE DEF q, n, hint
<1>3. ASSUME NEW k \in Nat PROVE \E f : Run(f, k)
  <2> DEFINE bad == {j \in Nat : ~\E f : Run(f, j)}
  <2>1. CASE bad = {}
    BY <2>1
  <2>2. CASE bad # {}
    <3>1. PICK m \in bad : \A x \in bad : m <= x
      BY <2>2, LeastNat
    <3>2. m # 0
      <4>1. Run([i \in 0..0 |-> s], 0)
        OBVIOUS
      <4> QED BY <3>1, <4>1
    <3>3. PICK g : Run(g, m - 1)
      <4> HIDE DEF Run
      <4>1. m - 1 \in Nat /\ ~(m <= m - 1)
        BY <3>2
      <4> QED BY <3>1, <4>1
    <3> DEFINE h == [i \in 0..m |-> IF i <= m - 1 THEN g[i] ELSE Next1(g[m - 1], m)]
    <3>4. Run(h, m)
      <4> HIDE DEF Next1
      <4>1. \A i \in 0..(m - 1) : g[i] = IF i = 0 THEN s ELSE Next1(g[i - 1], i)
        BY <3>3
      <4>2. ASSUME NEW i \in 0..m PROVE h[i] = IF i = 0 THEN s ELSE Next1(h[i - 1], i)
        <5>1. CASE i <= m - 1
          BY <3>2, <4>1, <5>1
        <5>2. CASE i = m
          BY <3>2, <5>2
        <5> QED BY <5>1, <5>2
      <4> QED BY <4>2
    <3> QED BY <3>1, <3>4
  <2> QED BY <2>1, <2>2
<1>4. Run(after, n)
  BY <1>2, <1>3
<1> HIDE DEF after
<1>5. after[0] = s /\ \A i \in 1..n : after[i] = Next1(after[i - 1], i)
  BY <1>2, <1>4
<1> HIDE DEF Run
<1> DEFINE bad == {i \in 0..n : ~(OwnFree(after[i]) /\ after[i].vip = s.vip)}
<1>6. CASE bad = {}
  BY <1>1, <1>2, <1>6
<1>7. CASE bad # {}
  <2>1. PICK m \in bad : \A x \in bad : m <= x
    <3>1. bad \subseteq Nat
      BY <1>2
    <3> HIDE DEF bad
    <3> QED BY <1>7, <3>1, LeastNat
  <2>2. m # 0 /\ m \in 1..n /\ m - 1 \in 0..n
    BY <1>2, <1>5, <2>1
  <2>3. OwnFree(after[m - 1]) /\ after[m - 1].vip = s.vip
    BY <1>2, <2>1, <2>2
  <2>4. after[m] = RouteClaim(after[m - 1], q[m], hint(m))
    BY <1>5, <2>2
  <2>5. OwnFree(after[m]) /\ after[m].vip = s.vip
    BY <2>3, <2>4, RouteClaimFree
  <2> QED BY <2>1, <2>5
<1> QED BY <1>6, <1>7

----------------------------------------------------------------------------
\* The handlers of claims, digests, leaves and punches.
LEMMA MergeClaimsFree ==
  ASSUME NEW s, OwnFree(s), NEW C, IsFiniteSet(C)
  PROVE  OwnFree(MergeClaims(s, C))
<1> DEFINE new == {c \in C : Accepted(s, c)}
           kept == {k \in s.claims : \A c \in new : c.node # k.node}
           t == MergeClaims(s, C)
<1>1. DOMAIN t = Fields /\ t.vip = s.vip /\ t.rt = s.rt /\ t.claims = kept \cup new
  BY DEF MergeClaims, OwnFree, Fields
<1>2. IsFiniteSet(kept) /\ IsFiniteSet(new)
  BY FS_Subset DEF OwnFree
<1> HIDE DEF t, kept, new
<1>3. IsFiniteSet(t.claims)
  BY <1>1, <1>2, FS_Union
<1>4. OwnFree(t)
  BY <1>1, <1>3 DEF OwnFree
<1> QED BY <1>4 DEF t

LEMMA ApplyRemoteClaimFree ==
  ASSUME NEW me, NEW s, OwnFree(s), NEW node, NEW vip, NEW epoch, NEW from,
         NEW t \in ApplyRemoteClaim(me, s, node, vip, epoch, from)
  PROVE  OwnFree(t)
<1> DEFINE c == [node |-> node, vip |-> vip, epoch |-> epoch, hint |-> from]
           one == {c}
           m == MergeClaims(s, one)
<1>1. t = m \/ \E u \in SettleAndFight(me, m) : t = RouteClaim(u, c, from)
  BY DEF ApplyRemoteClaim
<1>2. IsFiniteSet(one)
  BY FS_Singleton
<1> HIDE DEF c, one
<1>3. OwnFree(m)
  BY <1>2, MergeClaimsFree
<1> HIDE DEF m
<1> QED BY <1>1, <1>3, SettleAndFightFree, RouteClaimFree

LEMMA RouteAllFree ==
  ASSUME NEW s, OwnFree(s), NEW live, IsFiniteSet(live), NEW from, NEW start
  PROVE  OwnFree(RouteAll(s, live, from, start))
<1> DEFINE t == RouteEach(s, live, from, start)
           u == [s EXCEPT !.rt = t.rt, !.roster = t.roster, !.cache = t.cache]
<1>1. RouteAll(s, live, from, start) = u
  BY DEF RouteAll
<1>2. OwnFree(t) /\ t.vip = s.vip
  BY RouteEachFree
<1> HIDE DEF t
<1>3. DOMAIN u = Fields /\ u.vip = s.vip /\ u.claims = s.claims /\ u.rt = t.rt
  BY DEF OwnFree, Fields
<1> HIDE DEF u
<1> QED BY <1>1, <1>2, <1>3 DEF OwnFree

LEMMA HandleClaimGossipFree ==
  ASSUME NEW me, NEW s, OwnFree(s), NEW claims, IsFiniteSet(claims), NEW leaves, NEW from,
         NEW t \in HandleClaimGossip(me, s, claims, leaves, from)
  PROVE  OwnFree(t)
<1> DEFINE s1 == [s EXCEPT !.tombs = InstallTombs(@, leaves)]
           remote == Without(claims, me)
           more == \E c \in remote : Accepted(s1, c)
           m0 == MergeClaims(s1, remote)
           merged == [m0 EXCEPT !.pending = @ \/ more]
           live == {c \in remote : ~Blocked(s1, c)}
<1>1. PICK u \in SettleAndFight(me, merged) : \E start : t = RouteAll(u, live, from, start)
  BY DEF HandleClaimGossip
<1>2. IsFiniteSet(remote) /\ IsFiniteSet(live)
  <2>1. IsFiniteSet(remote)
    BY FS_Subset DEF Without
  <2> QED BY <2>1, FS_Subset
<1>3. OwnFree(s1)
  BY DEF OwnFree, Fields
<1> HIDE DEF s1, remote, live
<1>4. OwnFree(m0)
  BY <1>2, <1>3, MergeClaimsFree
<1> HIDE DEF m0, more
<1>5. OwnFree(merged)
  BY <1>4 DEF OwnFree, Fields
<1> HIDE DEF merged
<1> QED BY <1>1, <1>2, <1>5, SettleAndFightFree, RouteAllFree

LEMMA HandleLeaveFree ==
  ASSUME NEW s, OwnFree(s), NEW node, NEW vip, NEW epoch
  PROVE  OwnFree(HandleLeave(s, node, vip, epoch))
<1> DEFINE s1 == [s EXCEPT !.tombs = InstallTombs(@, {[node |-> node, epoch |-> epoch]}),
                           !.claims = Without(@, node)]
           r == SelectSeq(s1.roster, LAMBDA x : x.vip # vip)
           t == [s1 EXCEPT !.rt = RemoveVip(@, vip), !.roster = r]
<1>1. HandleLeave(s, node, vip, epoch) \in {s1, t}
  BY DEF HandleLeave
<1>2. DOMAIN s1 = Fields /\ s1.vip = s.vip /\ s1.rt = s.rt /\ s1.claims = Without(s.claims, node)
  BY DEF OwnFree, Fields
<1>3. IsFiniteSet(Without(s.claims, node))
  BY FS_Subset DEF OwnFree, Without
<1> HIDE DEF s1, r
<1>4. DOMAIN t = Fields /\ t.vip = s.vip /\ t.rt = RemoveAll(s.rt, {vip}) /\ t.claims = s1.claims
  BY <1>2 DEF Fields, RemoveVip
<1>5. IsTable(t.rt) /\ Routed(t.rt) \subseteq Routed(s.rt)
  BY <1>4, RemoveAllRoutes DEF OwnFree
<1> HIDE DEF t
<1> QED BY <1>1, <1>2, <1>3, <1>4, <1>5 DEF OwnFree

LEMMA EvictStaleFree ==
  ASSUME NEW s, OwnFree(s), NEW V
  PROVE  OwnFree(EvictStale(s, V))
<1> DEFINE t == EvictStale(s, V)
<1>1. /\ DOMAIN t = Fields /\ t.vip = s.vip /\ t.rt = RemoveAll(s.rt, V)
      /\ t.claims \subseteq s.claims
  BY DEF EvictStale, OwnFree, Fields
<1>2. IsTable(t.rt) /\ Routed(t.rt) \subseteq Routed(s.rt) /\ IsFiniteSet(t.claims)
  BY <1>1, RemoveAllRoutes, FS_Subset DEF OwnFree
<1> HIDE DEF t
<1>3. OwnFree(t)
  BY <1>1, <1>2 DEF OwnFree
<1> QED BY <1>3 DEF t

LEMMA EnrichHintsFree ==
  ASSUME NEW s, OwnFree(s), NEW V
  PROVE  /\ OwnFree(EnrichHints(s, V))
         /\ OwnFree([EnrichHints(s, V) EXCEPT !.pending = FALSE])
         /\ OwnFree(FlushPending(s, V))
<1> DEFINE hinted(c) == [c EXCEPT !.hint = IF @ = None /\ c.vip \in V
                                            THEN s.rt.table[c.vip].ep ELSE @]
           t == EnrichHints(s, V)
           u == [t EXCEPT !.pending = FALSE]
<1>1. DOMAIN t = Fields /\ t.vip = s.vip /\ t.rt = s.rt /\ t.claims = {hinted(c) : c \in s.claims}
  BY DEF EnrichHints, OwnFree, Fields
<1> HIDE DEF hinted
<1>2. IsFiniteSet({hinted(c) : c \in s.claims})
  <2> DEFINE f == [c \in s.claims |-> hinted(c)]
             T == {hinted(c) : c \in s.claims}
  <2>1. f \in Surjection(s.claims, T)
    BY DEF Surjection
  <2> QED BY <2>1, FS_Surjection DEF OwnFree
<1> HIDE DEF t
<1>3. OwnFree(t)
  BY <1>1, <1>2 DEF OwnFree
<1>4. OwnFree(u)
  BY <1>3 DEF OwnFree, Fields
<1>5. FlushPending(s, V) \in {s, u}
  BY DEF FlushPending, t
<1> QED BY <1>3, <1>4, <1>5 DEF t

----------------------------------------------------------------------------
\* A digest in packet p can be gone through claim by claim.
Listed(p) == p.kind = "MCLG" => IsFiniteSet(p.claims)

OwnInv == /\ \A n \in NodeIds : OwnFree(st[n])
          /\ \A p \in net : Listed(p)

LEMMA MessagesListed ==
  ASSUME NEW n, NEW s, OwnFree(s)
  PROVE  /\ \A kind \in {"HPCH", "KPAL"} : \A m, r : Listed(PunchMsg(kind, n, m, r))
         /\ \A kind \in ClaimKinds : \A m, r : Listed(ClaimMsg(kind, n, m, r))
         /\ \A V : \A p \in GossipTo(n, s, V) : Listed(p)
<1>1. IsFiniteSet(Digest(n, s))
  <2>1. IsFiniteSet({c \in Without(s.claims, n) : ~LeaveTombstoneBlocks(s, c)})
    BY FS_Subset DEF OwnFree, Without
  <2>2. IsFiniteSet({OwnClaim(n, s)})
    BY FS_Singleton
  <2> QED BY <2>1, <2>2, FS_Union DEF Digest
<1>2. ASSUME NEW V, NEW p \in GossipTo(n, s, V) PROVE p.claims = Digest(n, s)
  BY DEF GossipTo, GossipMsg
<1>3. \A kind \in {"HPCH", "KPAL"} : \A m, r : Listed(PunchMsg(kind, n, m, r))
  BY DEF PunchMsg, Listed
<1>4. \A kind \in ClaimKinds : \A m, r : Listed(ClaimMsg(kind, n, m, r))
  BY DEF ClaimMsg, Listed, ClaimKinds
<1> QED BY <1>1, <1>2, <1>3, <1>4 DEF Listed

LEMMA OwnStep ==
  ASSUME IInv, OwnInv, NEW n \in NodeIds, NEW s, Become(n, s), OwnFree(s),
         NEW in, NEW out, Exchange(in, out), \A p \in out : Listed(p)
  PROVE  OwnInv'
<1>1. \A p \in net' : p \in net \/ p \in out
  BY DEF Exchange
<1>2. st'[n] = s /\ \A k \in NodeIds \ {n} : st'[k] = st[k]
  BY DEF Become, IInv
<1> QED BY <1>1, <1>2 DEF OwnInv

\* A step that leaves routes, claims and the VIP alone, and sends no digest.
LEMMA OwnKept ==
  ASSUME OwnInv, \A k \in NodeIds : OwnFree(st'[k]), \A p \in net' : p \in net \/ Listed(p)
  PROVE  OwnInv'
BY DEF OwnInv

LEMMA GossipOwn ==
  ASSUME IInv, OwnInv, NEW n \in NodeIds, Gossip(n)
  PROVE  OwnInv'
<1>1. PICK V : /\ Become(n, [EnrichHints(st[n], V) EXCEPT !.pending = FALSE])
               /\ Exchange({}, GossipTo(n, [EnrichHints(st[n], V) EXCEPT !.pending = FALSE], V))
  BY DEF Gossip
<1> DEFINE s == [EnrichHints(st[n], V) EXCEPT !.pending = FALSE]
           none == {}
           out == GossipTo(n, s, V)
<1>2. Become(n, s) /\ Exchange(none, out)
  BY <1>1
<1>3. OwnFree(s)
  BY EnrichHintsFree DEF OwnInv
<1> HIDE DEF s, none
<1>4. \A p \in out : Listed(p)
  BY <1>3, MessagesListed
<1> HIDE DEF out
<1> QED BY <1>2, <1>3, <1>4, OwnStep

LEMMA PresenceTickOwn ==
  ASSUME IInv, OwnInv, NEW n \in NodeIds, NEW due \in BOOLEAN, PresenceTick(n, due)
  PROVE  OwnInv'
<1>1. PICK t \in IF due THEN RetryFight(n, st[n]) ELSE {st[n]} :
        \E V : /\ Become(n, FlushPending(t, V))
               /\ Exchange({}, PendingTo(n, t, V) \cup
                    IF phase[n] = "joining" THEN {}
                    ELSE {ClaimMsg("MPJN", n, m, FlushPending(t, V)) :
                            m \in {FlushPending(t, V).rt.table[v].ep : v \in V} \ {n}})
  BY DEF PresenceTick
<1>2. OwnFree(t)
  <2> DEFINE u == [st[n] EXCEPT !.retry = FALSE]
  <2>1. OwnFree(u)
    BY DEF OwnInv, OwnFree, Fields
  <2>2. t = st[n] \/ t \in SettleAndFight(n, u)
    BY <1>1 DEF RetryFight
  <2> HIDE DEF u
  <2> QED BY <2>1, <2>2, SettleAndFightFree DEF OwnInv
<1>3. PICK V : /\ Become(n, FlushPending(t, V))
               /\ Exchange({}, PendingTo(n, t, V) \cup
                    IF phase[n] = "joining" THEN {}
                    ELSE {ClaimMsg("MPJN", n, m, FlushPending(t, V)) :
                            m \in {FlushPending(t, V).rt.table[v].ep : v \in V} \ {n}})
  BY <1>1
<1> DEFINE s == FlushPending(t, V)
           none == {}
           joins == IF phase[n] = "joining" THEN {}
                    ELSE {ClaimMsg("MPJN", n, m, s) : m \in {s.rt.table[v].ep : v \in V} \ {n}}
           out == PendingTo(n, t, V) \cup joins
<1>4. Become(n, s) /\ Exchange(none, out)
  BY <1>3
<1>5. OwnFree(s)
  BY <1>2, EnrichHintsFree
<1>6. \A p \in PendingTo(n, t, V) : p \in GossipTo(n, s, V)
  BY DEF PendingTo
<1>7. \A p \in joins : \E m : p = ClaimMsg("MPJN", n, m, s)
  OBVIOUS
<1> HIDE DEF s, none, joins
<1>8. \A p \in out : Listed(p)
  BY <1>5, <1>6, <1>7, MessagesListed DEF ClaimKinds
<1> HIDE DEF out
<1> QED BY <1>4, <1>5, <1>8, OwnStep

LEMMA RecvJoinOwn ==
  ASSUME IInv, OwnInv, NEW n \in NodeIds, NEW m \in net, RecvJoin(n, m)
  PROVE  OwnInv'
<1>1. PICK t \in ApplyRemoteClaim(n, st[n], m.from, m.vip, m.epoch, m.from) :
        \E V : /\ Become(n, EnrichHints(t, V))
               /\ Exchange({m}, {ClaimMsg("MPJA", n, m.from, EnrichHints(t, V)),
                                 PunchMsg("HPCH", n, m.from, EnrichHints(t, V))}
                                  \cup GossipTo(n, EnrichHints(t, V), V))
  BY DEF RecvJoin
<1>2. PICK V : /\ Become(n, EnrichHints(t, V))
               /\ Exchange({m}, {ClaimMsg("MPJA", n, m.from, EnrichHints(t, V)),
                                 PunchMsg("HPCH", n, m.from, EnrichHints(t, V))}
                                  \cup GossipTo(n, EnrichHints(t, V), V))
  BY <1>1
<1> DEFINE s == EnrichHints(t, V)
           in == {m}
           out == {ClaimMsg("MPJA", n, m.from, s), PunchMsg("HPCH", n, m.from, s)}
                    \cup GossipTo(n, s, V)
<1>3. Become(n, s) /\ Exchange(in, out)
  BY <1>2
<1>4. OwnFree(t)
  BY <1>1, ApplyRemoteClaimFree DEF OwnInv
<1>5. OwnFree(s)
  BY <1>4, EnrichHintsFree
<1> HIDE DEF s, in
<1>6. \A p \in out : Listed(p)
  BY <1>5, MessagesListed DEF ClaimKinds
<1> HIDE DEF out
<1> QED BY <1>3, <1>5, <1>6, OwnStep

LEMMA RecvJoinAckOwn ==
  ASSUME IInv, OwnInv, NEW n \in NodeIds, NEW m \in net, RecvJoinAck(n, m)
  PROVE  OwnInv'
<1>1. PICK s \in ApplyRemoteClaim(n, st[n], m.from, m.vip, m.epoch, m.from) :
          /\ Become(n, s)
          /\ \/ Exchange({m}, {PunchMsg(k, n, m.from, s) : k \in {"KPAL", "HPCH"}})
             \/ Exchange({m}, {})
  BY DEF RecvJoinAck
<1> DEFINE in == {m}
           none == {}
           out == {PunchMsg(k, n, m.from, s) : k \in {"KPAL", "HPCH"}}
<1>2. Become(n, s) /\ (Exchange(in, out) \/ Exchange(in, none))
  BY <1>1
<1>3. OwnFree(s)
  BY <1>1, ApplyRemoteClaimFree DEF OwnInv
<1>4. \A p \in out : Listed(p)
  BY <1>3, MessagesListed
<1>5. \A p \in none : Listed(p)
  OBVIOUS
<1> HIDE DEF in, none, out
<1> QED BY <1>2, <1>3, <1>4, <1>5, OwnStep

LEMMA RecvGossipOwn ==
  ASSUME IInv, OwnInv, NEW n \in NodeIds, NEW m \in net, RecvGossip(n, m)
  PROVE  OwnInv'
<1>1. PICK t \in HandleClaimGossip(n, st[n], m.claims, m.leaves, m.from) :
        \E V : Become(n, FlushPending(t, V)) /\ Exchange({m}, PendingTo(n, t, V))
  BY DEF RecvGossip
<1>2. PICK V : Become(n, FlushPending(t, V)) /\ Exchange({m}, PendingTo(n, t, V))
  BY <1>1
<1> DEFINE s == FlushPending(t, V)
           in == {m}
           out == PendingTo(n, t, V)
<1>3. Become(n, s) /\ Exchange(in, out)
  BY <1>2
<1>4. OwnFree(t)
  <2>1. IsFiniteSet(m.claims)
    BY DEF RecvGossip, OwnInv, Listed
  <2> QED BY <1>1, <2>1, HandleClaimGossipFree DEF OwnInv
<1>5. OwnFree(s)
  BY <1>4, EnrichHintsFree
<1>6. \A p \in out : p \in GossipTo(n, s, V)
  BY DEF PendingTo
<1> HIDE DEF s, in, out
<1>7. \A p \in out : Listed(p)
  BY <1>5, <1>6, MessagesListed
<1> QED BY <1>3, <1>5, <1>7, OwnStep

LEMMA RecvLeaveAndPunchOwn ==
  ASSUME IInv, OwnInv, NEW n \in NodeIds, NEW m \in net, RecvLeave(n, m) \/ RecvPunch(n, m)
  PROVE  OwnInv'
<1> DEFINE in == {m}
           none == {}
           pong == {PunchMsg("KPAL", n, m.from, st[n])}
           left == HandleLeave(st[n], m.from, m.vip, m.epoch)
<1>1. \A p \in none \cup pong : Listed(p)
  BY MessagesListed DEF OwnInv
<1>2. CASE RecvLeave(n, m)
  <2>1. Become(n, left) /\ Exchange(in, none)
    BY <1>2 DEF RecvLeave
  <2>2. OwnFree(left)
    BY HandleLeaveFree DEF OwnInv
  <2> HIDE DEF in, none, left
  <2> QED BY <1>1, <2>1, <2>2, OwnStep
<1>3. CASE RecvPunch(n, m)
  <2>1. PICK weak \in BOOLEAN : Become(n, LearnRoute(st[n], m.vip, m.from, weak))
    BY <1>3 DEF RecvPunch
  <2> DEFINE s == LearnRoute(st[n], m.vip, m.from, weak)
  <2>2. Become(n, s) /\ (Exchange(in, none) \/ Exchange(in, pong))
    BY <1>3, <2>1 DEF RecvPunch
  <2>3. OwnFree(s)
    BY UpdateRouteFree DEF OwnInv, LearnRoute
  <2> HIDE DEF in, none, pong, s
  <2> QED BY <1>1, <2>2, <2>3, OwnStep
<1> QED BY <1>2, <1>3

LEMMA StaleEvictOwn ==
  ASSUME IInv, OwnInv, NEW n \in NodeIds, StaleEvict(n)
  PROVE  OwnInv'
<1>1. PICK V : Become(n, EvictStale(st[n], V)) /\ net' = net
  BY DEF StaleEvict
<1> DEFINE s == EvictStale(st[n], V)
<1>2. OwnFree(s)
  BY EvictStaleFree DEF OwnInv
<1>3. Become(n, s)
  BY <1>1
<1> HIDE DEF s
<1>4. \A k \in NodeIds : OwnFree(st'[k])
  BY <1>2, <1>3 DEF Become, IInv, OwnInv
<1> QED BY <1>1, <1>4, OwnKept

\* Two states of an engine with the same VIP, claims and routes.
LEMMA OwnSame ==
  ASSUME NEW s, OwnFree(s), NEW t, DOMAIN t = Fields, t.vip = s.vip, t.rt = s.rt,
         t.claims \subseteq s.claims
  PROVE  OwnFree(t)
BY FS_Subset DEF OwnFree

LEMMA FinalizeOwn ==
  ASSUME IInv, OwnInv, NEW n \in NodeIds, phase[n] \in {"joining", "acked"}, Finalize(n)
  PROVE  OwnInv'
<1> DEFINE s == [st[n] EXCEPT !.cfg = join[n], !.joined = TRUE]
           t == [s EXCEPT !.vip = join[n].vip, !.epoch = join[n].epoch]
<1>1. OwnFree(st[n]) /\ net' = net
  BY DEF OwnInv, Finalize
<1>2. OwnFree(s)
  BY <1>1 DEF OwnFree, Fields
<1>3. st[n].events = <<>> => OwnFree(t)
  <2>1. st[n].events = <<>> => join[n].vip = st[n].vip
    BY DEF IInv, NodeOk, Id
  <2>2. s.vip = st[n].vip
    BY <1>1 DEF OwnFree, Fields
  <2> HIDE DEF s
  <2>3. DOMAIN t = Fields /\ t.rt = s.rt /\ t.claims = s.claims /\ t.vip = join[n].vip
    BY <1>2 DEF OwnFree, Fields
  <2> HIDE DEF t
  <2> QED BY <1>2, <2>1, <2>2, <2>3, OwnSame
<1>4. \/ st[n].events = <<>> /\ Become(n, t)
      \/ Become(n, s)
  BY DEF Finalize, Become
<1> HIDE DEF s, t
<1>5. \A k \in NodeIds : OwnFree(st'[k])
  BY <1>2, <1>3, <1>4 DEF Become, IInv, OwnInv
<1> QED BY <1>1, <1>5, OwnKept

\* The daemon's identity task, and the leave.
LEMMA TaskOwn ==
  ASSUME IInv, OwnInv, NEW n \in NodeIds, ApplyIdentity(n) \/ BroadcastLeave(n)
  PROVE  OwnInv'
<1> DEFINE applied == [st[n] EXCEPT !.cfg = Head(st[n].events), !.events = Tail(@)]
           left == [st[n] EXCEPT
                      !.tombs = InstallTombs(@, {[node |-> n, epoch |-> st[n].cfg.epoch]}),
                      !.claims = Without(@, n)]
           none == {}
           out == {ClaimMsg("MLEA", n, m, left.cfg) : m \in RoutedEndpoints(left.rt) \ {n}}
<1>1. OwnFree(st[n])
  BY DEF OwnInv
<1>2. CASE ApplyIdentity(n)
  <2>1. Become(n, applied) /\ net' = net
    BY <1>2 DEF ApplyIdentity
  <2>2. OwnFree(applied)
    BY <1>1 DEF OwnFree, Fields
  <2> HIDE DEF applied
  <2>3. \A k \in NodeIds : OwnFree(st'[k])
    BY <2>1, <2>2 DEF Become, IInv, OwnInv
  <2> QED BY <2>1, <2>3, OwnKept
<1>3. CASE BroadcastLeave(n)
  <2>1. Become(n, left) /\ Exchange(none, out)
    BY <1>3 DEF BroadcastLeave
  <2>2. OwnFree(left)
    <3>1. /\ DOMAIN left = Fields /\ left.vip = st[n].vip /\ left.rt = st[n].rt
          /\ left.claims \subseteq st[n].claims
      BY <1>1 DEF OwnFree, Fields, Without
    <3> HIDE DEF left
    <3> QED BY <1>1, <3>1, OwnSame
  <2>3. \A p \in out : Listed(p)
    BY <1>1, MessagesListed DEF ClaimKinds
  <2> HIDE DEF none, out, left
  <2> QED BY <2>1, <2>2, <2>3, OwnStep
<1> QED BY <1>2, <1>3

\* The steps that change no engine.
LEMMA SilentOwn ==
  ASSUME OwnInv, st' = st,
         \/ net' \subseteq net
         \/ \E n \in NodeIds : \/ SendKeepalives(n)
                               \/ \E m \in NodeIds : SendJoin(n, m) \/ Punch(n, m)
  PROVE  OwnInv'
<1>1. ASSUME NEW p \in net', p \notin net PROVE Listed(p)
  <2>1. CASE \E n \in NodeIds : SendKeepalives(n)
    <3>1. PICK n \in NodeIds : SendKeepalives(n)
      BY <2>1
    <3>2. \E m : p = PunchMsg("KPAL", n, m, st[n])
      BY <1>1, <3>1 DEF SendKeepalives, Exchange
    <3> QED BY <3>2, MessagesListed DEF OwnInv
  <2>2. CASE \E n, m \in NodeIds : SendJoin(n, m) \/ Punch(n, m)
    <3>1. PICK n \in NodeIds, m \in NodeIds : SendJoin(n, m) \/ Punch(n, m)
      BY <2>2
    <3>2. p \in {PunchMsg("HPCH", n, m, st[n]), ClaimMsg("MPJN", n, m, join[n])}
      BY <1>1, <3>1 DEF SendJoin, Punch, Exchange
    <3> QED BY <3>2, MessagesListed DEF OwnInv, ClaimKinds
  <2> QED BY <1>1, <2>1, <2>2
<1> QED BY <1>1, OwnKept DEF OwnInv

LEMMA BootOwn ==
  ASSUME NEW d
  PROVE  OwnFree(Boot(d, EmptyRoutes))
<1> DEFINE s == Boot(d, EmptyRoutes)
<1>1. DOMAIN s = Fields /\ s.claims = {} /\ s.rt = EmptyRoutes
  BY DEF Boot, Fields
<1>2. IsTable(EmptyRoutes) /\ Routed(EmptyRoutes) = {}
  BY DEF IsTable, EmptyRoutes, Routed
<1> HIDE DEF s
<1>3. OwnFree(s)
  BY <1>1, <1>2, FS_EmptySet DEF OwnFree
<1> QED BY <1>3 DEF s

LEMMA ExitOwn ==
  ASSUME IInv, OwnInv, NEW n \in NodeIds, Stop(n) \/ RemoveProfile(n)
  PROVE  OwnInv'
<1>1. PICK d : Become(n, Boot(d, EmptyRoutes)) /\ net' = net
  BY DEF Stop, RemoveProfile, Become
<1> DEFINE s == Boot(d, EmptyRoutes)
<1>2. OwnFree(s) /\ Become(n, s)
  BY <1>1, BootOwn
<1> HIDE DEF s
<1>3. \A k \in NodeIds : OwnFree(st'[k])
  BY <1>2 DEF Become, IInv, OwnInv
<1> QED BY <1>1, <1>3, OwnKept

LEMMA TickOwn ==
  ASSUME OwnInv, Tick
  PROVE  OwnInv'
<1>1. ASSUME NEW k \in NodeIds PROVE OwnFree(st'[k])
  <2>1. OwnFree(st[k]) /\ st'[k] = [st[k] EXCEPT !.tombs = Age(@), !.suppress = Age(@)]
    BY DEF Tick, OwnInv
  <2> QED BY <2>1 DEF OwnFree, Fields
<1> QED BY <1>1, OwnKept DEF Tick

\* No process starts again from its files in this step.
NoneReturns == \A n \in NodeIds : phase[n] = "down" => phase'[n] = "down"

LEMMA OwnNext ==
  ASSUME IInv, OwnInv, Next, NoneReturns
  PROVE  OwnInv'
<1>1. ASSUME NEW n \in NodeIds, FinalizeJoin(n) \/ FinalizeGenesis(n) PROVE OwnInv'
  BY <1>1, FinalizeOwn DEF FinalizeJoin, FinalizeGenesis
<1>2. ASSUME NEW n \in NodeIds,
             RetryJoin(n) \/ BlockOnCli(n) \/ SaveConfig(n) \/ SaveCache(n)
      PROVE  OwnInv'
  <2>1. st' = st /\ net' = net
    BY <1>2 DEF RetryJoin, BlockOnCli, SaveConfig, SaveCache
  <2> QED BY <2>1, SilentOwn
<1>3. ASSUME NEW n \in NodeIds,
             SendKeepalives(n) \/ \E m \in NodeIds : SendJoin(n, m) \/ Punch(n, m)
      PROVE  OwnInv'
  <2>1. st' = st
    BY <1>3 DEF SendKeepalives, SendJoin, Punch
  <2> QED BY <1>3, <2>1, SilentOwn
<1>4. ASSUME NEW m \in net, Drop(m) PROVE OwnInv'
  BY <1>4, SilentOwn DEF Drop
<1>5. ASSUME NEW n \in NodeIds, NEW m \in net, Receive(n, m) PROVE OwnInv'
  BY <1>5, RecvJoinOwn, RecvJoinAckOwn, RecvGossipOwn, RecvLeaveAndPunchOwn DEF Receive
<1>6. ASSUME NEW n \in NodeIds, Restart(n) PROVE OwnInv'
  <2>1. phase[n] = "down" /\ phase'[n] \in {"member", "joining"}
    BY <1>6 DEF Restart, IInv
  <2> QED BY <2>1 DEF NoneReturns
<1> QED BY <1>1, <1>2, <1>3, <1>4, <1>5, <1>6, GossipOwn, PresenceTickOwn, StaleEvictOwn,
           TaskOwn, ExitOwn, TickOwn DEF Next

\* update_route, hole punches, digests, rerolls, leaves and joins never leave a
\* route to the engine's own VIP, in any order and however a digest is sorted:
\* until a process comes back from its files, no engine has one.
THEOREM OwnVipNeverRouted == Spec /\ [][NoneReturns]_vars => []NeverRoutesOwnVip
<1>1. Init => OwnInv
  BY BootOwn DEF Init, OwnInv
<1>2. IInv /\ OwnInv /\ [Next]_vars /\ [NoneReturns]_vars => OwnInv'
  <2>1. CASE UNCHANGED vars
    BY <2>1 DEF vars, OwnInv
  <2>2. ASSUME IInv, OwnInv, Next, NoneReturns PROVE OwnInv'
    BY <2>2, OwnNext
  <2> QED BY <2>1, <2>2
<1>3. OwnInv => NeverRoutesOwnVip
  BY DEF OwnInv, OwnFree, NeverRoutesOwnVip
<1> QED BY AlwaysIInv, <1>1, <1>2, <1>3, PTL DEF Spec
=============================================================================
