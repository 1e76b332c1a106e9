---------------------------- MODULE PmtudProofs ----------------------------
(***************************************************************************)
(* Proofs about Pmtud, for any endpoints, hosts, paths, sizes and probing  *)
(* parameters.  Each operation on one peer is shown to keep Sound, which   *)
(* holds what is to be proved of a single peer; the actions only combine   *)
(* such operations.                                                        *)
(***************************************************************************)
EXTENDS Pmtud, FiniteSetTheorems, WellFoundedInduction, TLAPS

Narrowing == {"Raise", "Binary", "DownSearch"}

Peer == [last_good : Sizes, first_bad : Nat, stable : Sizes,
         phase : Searching \cup {"Plateau", "Frozen"}, step : Nat \ {0},
         probe : [id : Nat, size : Nat, left : Nat], used : Nat, lower : Nat,
         from : Nat, got_ack : BOOLEAN, ever_acked : BOOLEAN, due : BOOLEAN]

\* The window is open and within the sizes; only a search has a probe.
Open(s) ==
    /\ s \in Peer
    /\ s.last_good < s.first_bad /\ s.first_bad <= Sentinel
    /\ s.probe # NoProbe =>
         /\ s.phase \in Searching
         /\ s.phase \in Narrowing => s.last_good < s.probe.size /\ s.probe.size < s.first_bad

\* The part of ProvenByEcho and PrivateFloor that is about peer p.
Proven(p, s) ==
    /\ \A size \in {s.last_good, s.stable} : size <= DefaultMtu \/ Carried(p, size)
    /\ HostOf[p] \in Private /\ ~s.ever_acked => s.last_good >= DefaultMtu

Sound(p, s) == Open(s) /\ Proven(p, s)

\* The budget of a peer is not touched.
SameBudget(s, t) == t.last_good = s.last_good /\ t.ever_acked = s.ever_acked

----------------------------------------------------------------------------
\* A set of numbers has a least one.
LEMMA LeastExists ==
  ASSUME NEW S \in SUBSET Nat, S # {}
  PROVE  \E m \in S : \A x \in S : m <= x
<1>1. PICK m \in S : \A x \in S : ~(<<x, m>> \in OpToRel(<, Nat))
  BY NatLessThanWellFounded, WFMin
<1>2. ASSUME NEW x \in S PROVE m <= x
  <2>1. x \in Nat /\ m \in Nat
    OBVIOUS
  <2>2. <<x, m>> \in Nat \X Nat
    BY <2>1
  <2>3. ~(x < m)
    BY <1>1, <2>2 DEF OpToRel
  <2> QED BY <2>1, <2>3
<1> QED BY <1>2

----------------------------------------------------------------------------
\* What the operations on a peer use of the constants.
LEMMA Numbers ==
  /\ MinMtu \in Nat /\ DefaultMtu \in Nat /\ MaxMtu \in Nat
  /\ 0 < MinMtu /\ MinMtu <= DefaultMtu /\ DefaultMtu <= MaxMtu
  /\ ConfirmCount \in Nat \ {0} /\ Epsilon \in Nat \ {0} /\ RaiseStep \in Nat \ {0}
  /\ MaxProbes \in Nat \ {0} /\ DowngradeBatches \in Nat \ {0}
BY PmtudAssumption DEF None

\* A smaller size is carried where a larger one is.
LEMMA CarriedSmaller ==
  ASSUME NEW p \in Endpoints, NEW a \in Nat, NEW b \in Nat, a <= b, Carried(p, b)
  PROVE  Carried(p, a)
<1>1. PathMtu[HostOf[p]] \in Nat /\ Shortfall \in Nat
  BY PmtudAssumption
<1> QED BY <1>1 DEF Carried

----------------------------------------------------------------------------
\* ensure_peer
LEMMA NewPeerSound ==
  ASSUME NEW p \in Endpoints
  PROVE  Sound(p, NewPeer) /\ NewPeer.last_good = DefaultMtu /\ NewPeer.ever_acked = FALSE
<1> DEFINE t == NewPeer
<1>1. t \in Peer
  <2>1. DefaultMtu \in Sizes /\ Sentinel \in Nat /\ RaiseStep \in Nat \ {0} /\ None \in Nat
    BY Numbers DEF Sizes, Sentinel, None
  <2>2. NoProbe \in [id : Nat, size : Nat, left : Nat]
    BY DEF NoProbe, None
  <2> QED BY <2>1, <2>2 DEF NewPeer, Peer
<1>2. t.last_good = DefaultMtu /\ t.stable = DefaultMtu /\ t.first_bad = MaxMtu + 1
      /\ t.probe = NoProbe
  BY DEF NewPeer, Sentinel
<1>3. Open(t)
  BY Numbers, <1>1, <1>2 DEF Open, Sentinel
<1>4. Proven(p, t)
  BY Numbers, <1>2 DEF Proven
<1> QED BY <1>2, <1>3, <1>4 DEF Sound, NewPeer

LEMMA EnterFrozenSound ==
  ASSUME NEW p \in Endpoints, NEW s, Sound(p, s)
  PROVE  Sound(p, EnterFrozen(s)) /\ SameBudget(s, EnterFrozen(s))
BY DEF Sound, Open, Proven, EnterFrozen, SameBudget, Peer, NoProbe, None

LEMMA BudgetFreezeSound ==
  ASSUME NEW p \in Endpoints, NEW s, Sound(p, s)
  PROVE  Sound(p, BudgetFreeze(s)) /\ SameBudget(s, BudgetFreeze(s))
BY EnterFrozenSound DEF BudgetFreeze, SameBudget

LEMMA EnterPlateauSound ==
  ASSUME NEW p \in Endpoints, NEW s, Sound(p, s)
  PROVE  Sound(p, EnterPlateau(s)) /\ SameBudget(s, EnterPlateau(s))
<1> DEFINE t == EnterPlateau(s)
<1>1. s \in Peer
  BY DEF Sound, Open
<1>2. t \in Peer
  <2> DEFINE fell == s.from # None /\ s.last_good < s.from
             settle == fell /\ s.lower + 1 >= DowngradeBatches
             lower == CASE s.from = None -> s.lower
                        [] s.from # None /\ fell /\ ~settle -> s.lower + 1
                        [] OTHER -> 0
  <2>1. RaiseStep \in Nat \ {0} /\ None \in Nat
    BY Numbers DEF None
  <2>2. NoProbe \in [id : Nat, size : Nat, left : Nat]
    BY DEF NoProbe, None
  <2>3. s.lower \in Nat /\ lower \in Nat
    BY <1>1 DEF Peer
  <2>4. (IF settle THEN s.last_good ELSE s.stable) \in Sizes
    BY <1>1 DEF Peer
  <2>5. t = [s EXCEPT !.probe = NoProbe, !.phase = "Plateau", !.due = FALSE, !.used = 0,
                      !.step = RaiseStep, !.from = None,
                      !.stable = IF settle THEN s.last_good ELSE s.stable, !.lower = lower]
    BY <1>1 DEF EnterPlateau, Peer
  <2> HIDE DEF lower, settle, t
  <2> QED BY <1>1, <2>1, <2>2, <2>3, <2>4, <2>5 DEF Peer
<1>3. /\ t.last_good = s.last_good /\ t.first_bad = s.first_bad /\ t.probe = NoProbe
      /\ t.ever_acked = s.ever_acked /\ t.stable \in {s.stable, s.last_good}
  BY <1>1 DEF EnterPlateau, Peer
<1>4. Open(t)
  BY <1>2, <1>3 DEF Sound, Open
<1>5. Proven(p, t)
  BY <1>3 DEF Sound, Proven
<1> QED BY <1>3, <1>4, <1>5 DEF Sound, SameBudget

LEMMA EndSearchSound ==
  ASSUME NEW p \in Endpoints, NEW s, Sound(p, s)
  PROVE  Sound(p, EndSearch(s)) /\ SameBudget(s, EndSearch(s))
<1> DEFINE t == [s EXCEPT !.first_bad =
                    IF s.phase = "DownSearch" /\ ~s.got_ack THEN Sentinel ELSE @]
<1>1. s \in Peer
  BY DEF Sound, Open
<1>2. s.last_good \in Nat /\ s.last_good <= MaxMtu /\ s.first_bad \in Nat
  BY <1>1, Numbers DEF Peer, Sizes
<1>3. /\ t \in Peer /\ t.first_bad \in {Sentinel, s.first_bad}
      /\ t.last_good = s.last_good /\ t.stable = s.stable /\ t.probe = s.probe
      /\ t.phase = s.phase /\ t.ever_acked = s.ever_acked
  BY <1>1, Numbers DEF Peer, Sentinel
<1>4. Open(t)
  <2>1. Sentinel \in Nat /\ s.last_good < Sentinel
    BY <1>2, Numbers DEF Sentinel
  <2>2. ASSUME s.probe # NoProbe, s.phase \in Narrowing PROVE s.probe.size < Sentinel
    BY <1>1, <1>2, <2>1, <2>2 DEF Sound, Open, Peer
  <2> QED BY <1>2, <1>3, <2>1, <2>2 DEF Sound, Open
<1>5. Sound(p, t)
  BY <1>3, <1>4 DEF Sound, Proven
<1> QED BY <1>3, <1>5, EnterPlateauSound DEF EndSearch, SameBudget

\* A step that only drops the probe of a peer and changes its bookkeeping.
LEMMA IdleSound ==
  ASSUME NEW p \in Endpoints, NEW s, Sound(p, s), NEW t \in Peer, t.probe = NoProbe,
         t.last_good = s.last_good, t.first_bad = s.first_bad, t.stable = s.stable,
         t.ever_acked = s.ever_acked
  PROVE  Sound(p, t) /\ SameBudget(s, t)
BY DEF Sound, Open, Proven, SameBudget

LEMMA NoProbeTyped == NoProbe \in [id : Nat, size : Nat, left : Nat]
BY DEF NoProbe, None

\* soft_down_last_good: the floor is within the sizes and proven.
LEMMA FloorProven ==
  ASSUME NEW p \in Endpoints, NEW s, Sound(p, s)
  PROVE  LET floor == SoftDownFloor(p, s) IN
         /\ floor \in Sizes
         /\ floor <= DefaultMtu \/ Carried(p, floor)
         /\ HostOf[p] \in Private /\ ~s.ever_acked => floor >= DefaultMtu
<1> DEFINE least == Lesser(s.last_good, s.stable)
           half == least \div 2
<1>1. s.last_good \in Sizes /\ s.stable \in Sizes
  BY DEF Sound, Open, Peer
<1>2. least \in Sizes /\ least \in Nat
  BY <1>1, Numbers DEF Lesser, Sizes
<1>3. least <= DefaultMtu \/ Carried(p, least)
  BY <1>1 DEF Sound, Proven, Lesser
<1>4. half \in Nat /\ half <= least
  BY <1>2
<1> HIDE DEF half, least
<1>5. half <= DefaultMtu \/ Carried(p, half)
  BY <1>2, <1>3, <1>4, Numbers, CarriedSmaller
<1>6. SoftHalf(s) = IF MinMtu >= half THEN MinMtu ELSE half
  BY DEF SoftHalf, Larger, half, least
<1>7. SoftHalf(s) \in Sizes /\ (SoftHalf(s) <= DefaultMtu \/ Carried(p, SoftHalf(s)))
  BY <1>2, <1>4, <1>5, <1>6, Numbers DEF Sizes
<1>8. CASE HostOf[p] \in Private /\ ~s.ever_acked
  <2>1. SoftDownFloor(p, s) = IF SoftHalf(s) >= DefaultMtu THEN SoftHalf(s) ELSE DefaultMtu
    BY <1>8 DEF SoftDownFloor, Larger
  <2> QED BY <1>7, <2>1, Numbers DEF Sizes
<1>9. CASE ~(HostOf[p] \in Private /\ ~s.ever_acked)
  BY <1>7, <1>9 DEF SoftDownFloor
<1> QED BY <1>8, <1>9

LEMMA SoftDownSound ==
  ASSUME NEW p \in Endpoints, NEW s, Sound(p, s)
  PROVE  Sound(p, SoftDown(p, s))
<1> DEFINE floor == SoftDownFloor(p, s)
           t == [s EXCEPT !.first_bad = Larger(s.stable, floor + 1), !.last_good = floor,
                          !.from = s.stable, !.got_ack = FALSE, !.phase = "DownSearch",
                          !.used = 0, !.step = RaiseStep, !.probe = NoProbe, !.due = FALSE]
<1>1. floor \in Sizes /\ (floor <= DefaultMtu \/ Carried(p, floor))
      /\ (HostOf[p] \in Private /\ ~s.ever_acked => floor >= DefaultMtu)
  BY FloorProven
<1>2. s \in Peer /\ s.stable \in Sizes /\ s.stable \in Nat
  BY Numbers DEF Sound, Open, Peer, Sizes
<1> HIDE DEF floor
<1>3. Larger(s.stable, floor + 1) \in Nat /\ floor < Larger(s.stable, floor + 1)
      /\ Larger(s.stable, floor + 1) <= Sentinel
  BY <1>1, <1>2, Numbers DEF Larger, Sizes, Sentinel
<1>4. RaiseStep \in Nat \ {0} /\ "DownSearch" \in Searching
  BY Numbers DEF Searching
<1>5. t \in Peer
  BY <1>1, <1>2, <1>3, <1>4, NoProbeTyped DEF Peer
<1>6. /\ t.last_good = floor /\ t.first_bad = Larger(s.stable, floor + 1)
      /\ t.stable = s.stable /\ t.probe = NoProbe /\ t.ever_acked = s.ever_acked
  BY <1>2 DEF Peer
<1>7. Open(t)
  BY <1>3, <1>5, <1>6 DEF Open
<1>8. Proven(p, t)
  BY <1>1, <1>6 DEF Proven, Sound
<1>9. Sound(p, t)
  BY <1>7, <1>8 DEF Sound
<1>10. SoftDown(p, s) = IF WindowClosed(t) THEN EndSearch(t) ELSE t
  BY DEF SoftDown, floor
<1> HIDE DEF t
<1> QED BY <1>9, <1>10, EndSearchSound

\* apply_timeout_confirmed_fail of the outstanding probe: only a failed recheck
\* touches the budget.
LEMMA ConfirmedFailSound ==
  ASSUME NEW p \in Endpoints, NEW s, Sound(p, s), s.probe # NoProbe, NEW alive \in BOOLEAN
  PROVE  LET t == ConfirmedFail(p, s, s.probe.size, alive) IN
         Sound(p, t) /\ (s.phase # "Recheck" => SameBudget(s, t))
<1> DEFINE size == s.probe.size
           idle == [s EXCEPT !.probe = NoProbe, !.due = FALSE]
           bad == IF s.phase = "Raise" THEN size ELSE Lesser(size, s.first_bad)
           narrowed == [idle EXCEPT !.first_bad = bad,
                                    !.step = IF s.phase = "Raise" THEN RaiseStep ELSE @,
                                    !.phase = IF s.phase = "Raise" THEN "Binary" ELSE @]
           t == ConfirmedFail(p, s, size, alive)
<1>1. s \in Peer /\ s.phase \in Searching /\ size \in Nat
  BY DEF Sound, Open, Peer
<1>2. idle \in Peer /\ idle.last_good = s.last_good /\ idle.first_bad = s.first_bad
      /\ idle.stable = s.stable /\ idle.ever_acked = s.ever_acked /\ idle.probe = NoProbe
      /\ idle.phase = s.phase /\ idle.step = s.step
  BY <1>1, NoProbeTyped DEF Peer
<1>3. CASE s.phase \in Narrowing
  <2>1. bad \in Nat /\ s.last_good < bad /\ bad <= Sentinel
    <3>1. s.last_good < size /\ size < s.first_bad /\ s.first_bad <= Sentinel
      BY <1>3 DEF Sound, Open
    <3>2. s.last_good \in Nat /\ s.first_bad \in Nat /\ Sentinel \in Nat
      BY <1>1, Numbers DEF Peer, Sizes, Sentinel
    <3> QED BY <1>1, <3>1, <3>2 DEF Lesser
  <2>2. RaiseStep \in Nat \ {0} /\ "Binary" \in Searching
    BY Numbers DEF Searching
  <2> HIDE DEF bad, idle
  <2>3. narrowed \in Peer /\ narrowed.last_good = s.last_good /\ narrowed.first_bad = bad
        /\ narrowed.stable = s.stable /\ narrowed.ever_acked = s.ever_acked
        /\ narrowed.probe = NoProbe
    BY <1>2, <2>1, <2>2 DEF Peer
  <2>4. Sound(p, narrowed) /\ SameBudget(s, narrowed)
    BY <2>1, <2>3 DEF Sound, Open, Proven, SameBudget
  <2>5. t = IF WindowClosed(narrowed) THEN EndSearch(narrowed) ELSE BudgetFreeze(narrowed)
    <3>1. narrowed = [idle EXCEPT
            !.first_bad = IF s.phase = "Raise" THEN size ELSE Lesser(size, @),
            !.step = IF s.phase = "Raise" THEN RaiseStep ELSE @,
            !.phase = IF s.phase = "Raise" THEN "Binary" ELSE @]
      BY <1>2 DEF bad, Peer
    <3> QED BY <1>3, <3>1 DEF ConfirmedFail, Narrowing, idle
  <2> HIDE DEF narrowed
  <2> QED BY <2>4, <2>5, EndSearchSound, BudgetFreezeSound DEF SameBudget
<1>4. CASE s.phase = "Revalidate" /\ alive
  <2> DEFINE u == [idle EXCEPT !.phase = "Plateau", !.used = 0, !.step = RaiseStep, !.due = FALSE]
  <2>1. t = u
    BY <1>4 DEF ConfirmedFail
  <2>2. RaiseStep \in Nat \ {0}
    BY Numbers
  <2> HIDE DEF idle
  <2>3. u \in Peer /\ u.last_good = idle.last_good /\ u.first_bad = idle.first_bad
        /\ u.stable = idle.stable /\ u.ever_acked = idle.ever_acked /\ u.probe = NoProbe
    BY <1>2, <2>2 DEF Peer
  <2> HIDE DEF u
  <2>4. Sound(p, u) /\ SameBudget(s, u)
    BY <1>2, <2>3, IdleSound
  <2> QED BY <2>1, <2>4
<1>5. CASE s.phase = "Revalidate" /\ ~alive
  <2> DEFINE u == [idle EXCEPT !.phase = "Recheck", !.used = 0]
  <2>1. t = u
    BY <1>5 DEF ConfirmedFail
  <2>2. "Recheck" \in Searching
    BY DEF Searching
  <2> HIDE DEF idle
  <2>3. u \in Peer /\ u.last_good = idle.last_good /\ u.first_bad = idle.first_bad
        /\ u.stable = idle.stable /\ u.ever_acked = idle.ever_acked /\ u.probe = NoProbe
    BY <1>2, <2>2 DEF Peer
  <2> HIDE DEF u
  <2>4. Sound(p, u) /\ SameBudget(s, u)
    BY <1>2, <2>3, IdleSound
  <2> QED BY <2>1, <2>4
<1>6. CASE s.phase = "Recheck"
  <2>1. t = SoftDown(p, s)
    BY <1>6 DEF ConfirmedFail
  <2> QED BY <1>6, <2>1, SoftDownSound
<1> QED BY <1>1, <1>3, <1>4, <1>5, <1>6 DEF Searching, Narrowing

\* Only on a refused probe of Revalidate or Recheck is the budget touched.
LEMMA HardFailSound ==
  ASSUME NEW p \in Endpoints, NEW s, Sound(p, s), s.probe # NoProbe, NEW alive \in BOOLEAN
  PROVE  LET t == HardFail(p, s, alive) IN
         Sound(p, t) /\ (s.phase \notin {"Revalidate", "Recheck"} => SameBudget(s, t))
BY SoftDownSound, ConfirmedFailSound DEF HardFail

\* heal_unacked_private_floor leaves a peer alone whose floor holds.
LEMMA HealedSame ==
  ASSUME NEW p \in Endpoints, NEW s, Sound(p, s)
  PROVE  Healed(p, s) = s
<1>1. s.last_good \in Nat /\ DefaultMtu \in Nat
  BY Numbers DEF Sound, Open, Peer, Sizes
<1> QED BY <1>1 DEF Healed, Sound, Proven

\* on_timeout touches the budget only where the grace of a recheck is over.
LEMMA TimeoutSound ==
  ASSUME NEW p \in Endpoints, NEW s, Sound(p, s), NEW alive \in BOOLEAN
  PROVE  LET t == Timeout(p, s, alive) IN
         /\ Sound(p, t)
         /\ ~(s.due /\ s.phase = "Recheck" /\ s.probe # NoProbe /\ s.probe.left = 0) =>
              SameBudget(s, t)
<1> DEFINE t == Timeout(p, s, alive)
           again == [s EXCEPT !.probe = [id |-> None, size |-> s.probe.size, left |-> @.left - 1],
                              !.used = IF s.phase = "Recheck" THEN @ ELSE @ + 1, !.due = FALSE]
           late == [s EXCEPT !.probe.left = 0, !.due = FALSE]
<1>1. s \in Peer /\ s.probe \in [id : Nat, size : Nat, left : Nat]
  BY DEF Sound, Open, Peer
<1>2. CASE s.probe = NoProbe \/ ~s.due
  <2>1. t = s
    <3>1. CASE s.probe = NoProbe
      BY <3>1 DEF Timeout, NoProbe
    <3>2. CASE ~s.due
      BY <3>2 DEF Timeout
    <3> QED BY <1>2, <3>1, <3>2
  <2> QED BY <2>1 DEF SameBudget
<1>3. CASE s.probe # NoProbe /\ s.due /\ s.probe.left > 1
  <2>1. t = BudgetFreeze(again)
    BY <1>3 DEF Timeout
  <2>2. s.probe.left - 1 \in Nat
    BY <1>1, <1>3
  <2>3. [id |-> None, size |-> s.probe.size, left |-> s.probe.left - 1]
          \in [id : Nat, size : Nat, left : Nat]
    BY <1>1, <2>2 DEF None
  <2>4. again \in Peer
    <3>1. (IF s.phase = "Recheck" THEN s.used ELSE s.used + 1) \in Nat
      BY <1>1 DEF Peer
    <3> QED BY <1>1, <2>3, <3>1 DEF Peer
  <2>5. /\ again.probe.size = s.probe.size /\ again.phase = s.phase
        /\ again.last_good = s.last_good /\ again.first_bad = s.first_bad
        /\ again.stable = s.stable /\ again.ever_acked = s.ever_acked
    BY <1>1 DEF Peer
  <2>6. Sound(p, again)
    BY <1>3, <2>4, <2>5 DEF Sound, Open, Proven
  <2> HIDE DEF again
  <2> QED BY <2>1, <2>5, <2>6, BudgetFreezeSound DEF SameBudget
<1>4. CASE s.probe # NoProbe /\ s.due /\ s.probe.left = 1 /\ s.phase \in {"Revalidate", "Recheck"}
  <2>1. t = late
    BY <1>4 DEF Timeout
  <2>2. /\ late \in Peer /\ late.phase = s.phase
        /\ late.last_good = s.last_good /\ late.first_bad = s.first_bad
        /\ late.stable = s.stable /\ late.ever_acked = s.ever_acked
    BY <1>1 DEF Peer
  <2>3. late.phase \in Searching /\ late.phase \notin Narrowing
    BY <1>4, <2>2 DEF Searching, Narrowing
  <2> HIDE DEF late
  <2> QED BY <2>1, <2>2, <2>3 DEF Sound, Open, Proven, SameBudget
<1>5. CASE s.probe # NoProbe /\ s.due /\ ~(s.probe.left > 1)
            /\ ~(s.probe.left = 1 /\ s.phase \in {"Revalidate", "Recheck"})
  <2>1. t = ConfirmedFail(p, s, s.probe.size, alive)
    BY <1>5 DEF Timeout
  <2>2. s.phase = "Recheck" => s.probe.left = 0
    BY <1>1, <1>5
  <2> QED BY <1>5, <2>1, <2>2, ConfirmedFailSound
<1> QED BY <1>2, <1>3, <1>4, <1>5

\* A peer that wakes has no probe, so that its new phase bears on none.
LEMMA WakeSound ==
  ASSUME NEW p \in Endpoints, NEW s, Sound(p, s)
  PROVE  Sound(p, Wake(s)) /\ SameBudget(s, Wake(s))
<1> DEFINE t == [s EXCEPT !.used = 0, !.step = RaiseStep, !.due = FALSE,
                          !.phase = IF RaiseTarget(s) # None THEN "Raise" ELSE "Revalidate"]
<1>1. CASE s.phase \in {"Plateau", "Frozen"} /\ s.due
  <2>1. s \in Peer /\ s.phase \notin Searching
    BY <1>1 DEF Sound, Open, Searching
  <2>2. s.probe = NoProbe
    BY <2>1 DEF Sound, Open
  <2>3. RaiseStep \in Nat \ {0} /\ "Raise" \in Searching /\ "Revalidate" \in Searching
    BY Numbers DEF Searching
  <2>4. t \in Peer /\ t.last_good = s.last_good /\ t.first_bad = s.first_bad
        /\ t.stable = s.stable /\ t.ever_acked = s.ever_acked /\ t.probe = NoProbe
    BY <2>1, <2>2, <2>3 DEF Peer
  <2>5. Wake(s) = t
    BY <1>1 DEF Wake
  <2> HIDE DEF t
  <2>6. Sound(p, t) /\ SameBudget(s, t)
    BY <2>4, IdleSound
  <2> QED BY <2>5, <2>6
<1>2. CASE ~(s.phase \in {"Plateau", "Frozen"} /\ s.due)
  BY <1>2 DEF Wake, SameBudget
<1> QED BY <1>1, <1>2

\* The next probe of a search lies strictly inside the window.
LEMMA TargetInside ==
  ASSUME NEW p \in Endpoints, NEW s, Sound(p, s)
  PROVE  /\ RaiseTarget(s) # None =>
              RaiseTarget(s) \in Nat /\ s.last_good < RaiseTarget(s) /\ RaiseTarget(s) < s.first_bad
         /\ BinaryTarget(s) # None =>
              BinaryTarget(s) \in Nat /\ s.last_good < BinaryTarget(s) /\ BinaryTarget(s) < s.first_bad
<1>1. s.last_good \in Nat /\ s.first_bad \in Nat /\ s.step \in Nat \ {0} /\ MaxMtu \in Nat
  BY Numbers DEF Sound, Open, Peer, Sizes
<1>2. RaiseTarget(s) # None =>
        RaiseTarget(s) \in Nat /\ s.last_good < RaiseTarget(s) /\ RaiseTarget(s) < s.first_bad
  BY <1>1 DEF RaiseTarget, Lesser
<1>3. ASSUME NEW d \in Nat, d > 1
      PROVE  d \div 2 \in Nat /\ 0 < d \div 2 /\ d \div 2 < d
  BY <1>3
<1>4. CASE s.first_bad > s.last_good + 1
  <2> DEFINE d == s.first_bad - s.last_good
  <2>1. d \in Nat /\ d > 1 /\ s.first_bad = s.last_good + d
    BY <1>1, <1>4
  <2>2. BinaryTarget(s) = s.last_good + d \div 2
    BY <1>4 DEF BinaryTarget
  <2> HIDE DEF d
  <2> QED BY <1>1, <1>2, <1>3, <2>1, <2>2
<1> QED BY <1>2, <1>4 DEF BinaryTarget

LEMMA IssueProbeSound ==
  ASSUME NEW p \in Endpoints, NEW s, Sound(p, s), Wants(s)
  PROVE  Sound(p, IssueProbe(s)) /\ SameBudget(s, IssueProbe(s))
<1> DEFINE size == CASE s.phase = "Raise" -> RaiseTarget(s)
                     [] s.phase \in {"Binary", "DownSearch"} -> BinaryTarget(s)
                     [] OTHER -> s.stable
           t == [s EXCEPT !.probe = [id |-> None, size |-> size, left |-> ConfirmCount],
                          !.used = @ + 1, !.due = FALSE]
<1>1. s \in Peer /\ s.phase \in Searching /\ s.stable \in Nat /\ s.used \in Nat
  BY Numbers DEF Wants, Searching, Sound, Open, Peer, Sizes
<1>2. size \in Nat /\ (s.phase \in Narrowing => s.last_good < size /\ size < s.first_bad)
  <2>1. CASE s.phase = "Raise"
    BY <2>1, TargetInside DEF Wants
  <2>2. CASE s.phase \in {"Binary", "DownSearch"}
    BY <2>2, TargetInside DEF Wants
  <2>3. CASE s.phase \in {"Revalidate", "Recheck"}
    BY <1>1, <2>3 DEF Narrowing
  <2> QED BY <1>1, <2>1, <2>2, <2>3 DEF Searching
<1>3. IssueProbe(s) \in {EnterFrozen(s), EndSearch(s), t}
  BY DEF IssueProbe
<1> HIDE DEF size
<1>4. [id |-> None, size |-> size, left |-> ConfirmCount] \in [id : Nat, size : Nat, left : Nat]
  <2>1. ConfirmCount \in Nat
    BY Numbers
  <2> QED BY <1>2, <2>1 DEF None
<1> DEFINE fresh == [id |-> None, size |-> size, left |-> ConfirmCount]
<1>5. fresh.size = size
  OBVIOUS
<1> HIDE DEF fresh
<1>6. t \in Peer /\ t.last_good = s.last_good /\ t.first_bad = s.first_bad
      /\ t.stable = s.stable /\ t.ever_acked = s.ever_acked
      /\ t.phase = s.phase /\ t.probe = fresh
  <2>1. t = [s EXCEPT !.probe = fresh, !.used = s.used + 1, !.due = FALSE]
    BY <1>1 DEF Peer, fresh
  <2>2. s.used + 1 \in Nat /\ fresh \in [id : Nat, size : Nat, left : Nat]
    BY <1>1, <1>4 DEF fresh
  <2> HIDE DEF t
  <2> QED BY <1>1, <2>1, <2>2 DEF Peer
<1> HIDE DEF t
<1>7. Sound(p, t) /\ SameBudget(s, t)
  BY <1>1, <1>2, <1>5, <1>6 DEF Sound, Open, Proven, SameBudget
<1> QED BY <1>3, <1>7, EnterFrozenSound, EndSearchSound

\* begin_probe gives the probe that is sent its identifier.
LEMMA NumberedSound ==
  ASSUME NEW p \in Endpoints, NEW s, Sound(p, s), s.probe # NoProbe, NEW id \in Nat
  PROVE  LET t == [s EXCEPT !.probe.id = id] IN Sound(p, t) /\ SameBudget(s, t)
<1> DEFINE t == [s EXCEPT !.probe.id = id]
<1>1. s \in Peer
  BY DEF Sound, Open
<1>2. t \in Peer /\ t.last_good = s.last_good /\ t.first_bad = s.first_bad
      /\ t.stable = s.stable /\ t.ever_acked = s.ever_acked
      /\ t.phase = s.phase /\ t.probe.size = s.probe.size
  BY <1>1 DEF Peer
<1> QED BY <1>2 DEF Sound, Open, Proven, SameBudget

\* on_ack of the outstanding probe, whose size the path carries.
LEMMA AckedSound ==
  ASSUME NEW p \in Endpoints, NEW s, Sound(p, s), s.probe # NoProbe, Carried(p, s.probe.size)
  PROVE  Sound(p, Acked(s))
<1> DEFINE size == s.probe.size
           idle == [s EXCEPT !.probe = NoProbe, !.ever_acked = TRUE, !.due = FALSE]
           grown == [idle EXCEPT !.last_good = size, !.stable = Larger(@, size),
                                 !.lower = IF size > s.stable THEN 0 ELSE @,
                                 !.step = IF s.phase = "Raise" THEN Larger(2 * @, RaiseStep) ELSE @]
           topped == [grown EXCEPT !.first_bad = IF size >= MaxMtu THEN Sentinel ELSE @]
           lifted == [idle EXCEPT !.last_good = size, !.got_ack = TRUE]
<1>1. s \in Peer /\ s.phase \in Searching /\ size \in Nat /\ s.last_good \in Nat
      /\ s.first_bad \in Nat /\ s.first_bad <= Sentinel /\ s.stable \in Sizes /\ s.step \in Nat \ {0}
      /\ s.last_good < s.first_bad /\ s.last_good \in Sizes
  BY Numbers DEF Sound, Open, Peer, Sizes
<1>2. idle \in Peer /\ idle.last_good = s.last_good /\ idle.first_bad = s.first_bad
      /\ idle.stable = s.stable /\ idle.ever_acked = TRUE /\ idle.probe = NoProbe
      /\ idle.step = s.step /\ idle.lower = s.lower
  BY <1>1, NoProbeTyped DEF Peer
<1>3. CASE s.phase \in {"Revalidate", "Recheck"}
  <2>1. Acked(s) = EnterPlateau(idle)
    BY <1>3 DEF Acked
  <2>2. Sound(p, idle)
    BY <1>2 DEF Sound, Open, Proven
  <2> QED BY <2>1, <2>2, EnterPlateauSound
<1>4. CASE s.phase \in Narrowing
  <2>1. s.last_good < size /\ size < s.first_bad
    BY <1>4 DEF Sound, Open
  <2>2. size \in Sizes /\ Larger(s.stable, size) \in Sizes
    BY <1>1, <2>1, Numbers DEF Sizes, Sentinel, Larger
  <2>3. (IF s.phase = "Raise" THEN Larger(2 * s.step, RaiseStep) ELSE s.step) \in Nat \ {0}
        /\ (IF size > s.stable THEN 0 ELSE s.lower) \in Nat
    <3>1. Larger(2 * s.step, RaiseStep) \in Nat \ {0}
      BY <1>1, Numbers DEF Larger
    <3>2. s.lower \in Nat
      BY <1>1 DEF Peer
    <3> QED BY <1>1, <3>1, <3>2
  <2> HIDE DEF idle, size
  <2>4. grown \in Peer /\ grown.last_good = size /\ grown.first_bad = s.first_bad
        /\ grown.stable = Larger(s.stable, size) /\ grown.probe = NoProbe /\ grown.ever_acked = TRUE
    BY <1>2, <2>2, <2>3 DEF Peer
  <2>5. lifted \in Peer /\ lifted.last_good = size /\ lifted.first_bad = s.first_bad
        /\ lifted.stable = s.stable /\ lifted.probe = NoProbe /\ lifted.ever_acked = TRUE
    BY <1>2, <2>2 DEF Peer
  <2> HIDE DEF grown, lifted
  <2>6. Sound(p, lifted)
    BY <1>1, <2>1, <2>5 DEF Sound, Open, Proven, size
  <2>7. Sound(p, grown)
    BY <1>1, <2>1, <2>4 DEF Sound, Open, Proven, size, Larger
  <2>8. Sound(p, topped)
    <3>1. Sentinel \in Nat /\ size < Sentinel
      BY <1>1, <2>1, Numbers DEF Sentinel
    <3>2. topped \in Peer /\ topped.last_good = size /\ topped.first_bad \in {s.first_bad, Sentinel}
          /\ topped.stable = grown.stable /\ topped.probe = NoProbe /\ topped.ever_acked = TRUE
      BY <1>1, <2>4, <3>1 DEF Peer
    <3> HIDE DEF topped
    <3> QED BY <1>1, <2>1, <2>4, <2>7, <3>1, <3>2 DEF Sound, Open, Proven
  <2>9. Acked(s) \in {grown, EnterPlateau(topped), EndSearch(grown), EndSearch(lifted), lifted}
    BY <1>4 DEF Acked, Narrowing, grown, lifted, idle, size
  <2> HIDE DEF topped
  <2> QED BY <2>6, <2>7, <2>8, <2>9, EnterPlateauSound, EndSearchSound
<1> QED BY <1>1, <1>3, <1>4 DEF Searching, Narrowing

----------------------------------------------------------------------------
\* The inductive invariant.  What a pin sets is not proven, but no probe is
\* answered under it and unpinning forgets it; an echo in flight is one of a
\* size that the path to its host carries.
IInv ==
    /\ pinned \in Nat /\ min_path_mtu \in Nat
    /\ Tracked \subseteq Endpoints
    /\ \A p \in Tracked : Open(peers[p])
    /\ pinned = None => \A p \in Tracked : Proven(p, peers[p])
    /\ \A m \in net : m.to \in Endpoints /\ Carried(m.to, m.size)
    /\ MinLagsOnlyNew

\* recalc_min finds a lower bound of the budgets.
LEMMA RecalcMinBound ==
  ASSUME pinned = None, NEW P, \A p \in DOMAIN P : P[p].last_good \in Nat
  PROVE  RecalcMin(P) \in Nat /\ \A p \in DOMAIN P : RecalcMin(P) <= P[p].last_good
<1> DEFINE S == {P[p].last_good : p \in DOMAIN P}
<1>1. CASE DOMAIN P = {}
  BY <1>1, Numbers DEF RecalcMin
<1>2. CASE DOMAIN P # {}
  <2>1. S \in SUBSET Nat /\ S # {}
    BY <1>2
  <2>2. \E m \in S : \A x \in S : m <= x
    BY <2>1, LeastExists
  <2>3. \E m \in S : \A p \in DOMAIN P : m <= P[p].last_good
    BY <2>2
  <2>4. RecalcMin(P) = CHOOSE m \in S : \A p \in DOMAIN P : m <= P[p].last_good
    BY <1>2 DEF RecalcMin
  <2> HIDE DEF S
  <2>5. RecalcMin(P) \in S /\ \A p \in DOMAIN P : RecalcMin(P) <= P[p].last_good
    BY <2>3, <2>4
  <2> QED BY <2>1, <2>5
<1> QED BY <1>1, <1>2

LEMMA BudgetTyped ==
  ASSUME NEW s, Open(s)
  PROVE  s.last_good \in Nat
BY Numbers DEF Open, Peer, Sizes

\* The peers of a tick, up to its sending: sound, and with the budget they had
\* but where a recheck has failed.
LEMMA TickPeers ==
  ASSUME IInv, pinned = None, NEW active \in SUBSET Endpoints, NEW alive,
         NEW tried \in SUBSET Wanting(Woken(Expired(Kept(active), alive))), NEW p \in active
  PROVE  LET k == Kept(active)[p]
             b == Begun(Woken(Expired(Kept(active), alive)), tried)[p]
         IN  /\ Sound(p, k) /\ Sound(p, b)
             /\ k = IF p \in Tracked THEN peers[p] ELSE NewPeer
             /\ p \notin Rechecked(Kept(active)) => SameBudget(k, b)
<1> DEFINE kept == Kept(active)
           expired == Expired(kept, alive)
           woken == Woken(expired)
           begun == Begun(woken, tried)
<1>1. kept[p] = (IF p \in Tracked THEN peers[p] ELSE NewPeer) /\ Sound(p, kept[p])
  <2>1. CASE p \in Tracked
    <3>1. Sound(p, peers[p])
      BY <2>1 DEF IInv, Sound
    <3> QED BY <2>1, <3>1, HealedSame DEF Kept
  <2>2. CASE p \notin Tracked
    BY <2>2, NewPeerSound DEF Kept
  <2> QED BY <2>1, <2>2
<1>2. DOMAIN kept = active /\ DOMAIN expired = active /\ DOMAIN woken = active
  BY DEF Kept, Expired, Woken
<1>3. /\ expired[p] = Timeout(p, kept[p], p \in alive)
      /\ woken[p] = Wake(expired[p])
      /\ begun[p] = IF p \in tried THEN IssueProbe(woken[p]) ELSE woken[p]
  BY <1>2 DEF Expired, Woken, Begun
<1>4. p \in Rechecked(kept) <=> (kept[p].due /\ kept[p].phase = "Recheck"
                                  /\ kept[p].probe # NoProbe /\ kept[p].probe.left = 0)
  BY <1>2 DEF Rechecked
<1>5. p \in tried => Wants(woken[p])
  BY <1>2 DEF Wanting
<1> HIDE DEF kept, expired, woken, begun
<1>6. Sound(p, expired[p]) /\ (p \notin Rechecked(kept) => SameBudget(kept[p], expired[p]))
  <2> DEFINE large == p \in alive
  <2>1. large \in BOOLEAN /\ expired[p] = Timeout(p, kept[p], large)
    BY <1>3
  <2> HIDE DEF large
  <2> QED BY <1>1, <1>4, <2>1, TimeoutSound
<1>7. Sound(p, woken[p]) /\ SameBudget(expired[p], woken[p])
  BY <1>3, <1>6, WakeSound
<1>8. Sound(p, begun[p]) /\ SameBudget(woken[p], begun[p])
  BY <1>3, <1>5, <1>7, IssueProbeSound DEF SameBudget
<1>9. p \notin Rechecked(kept) => SameBudget(kept[p], begun[p])
  BY <1>6, <1>7, <1>8 DEF SameBudget
<1> QED BY <1>1, <1>8, <1>9 DEF kept, expired, woken, begun

LEMMA TickInv ==
  ASSUME IInv, NEW active \in SUBSET Endpoints, NEW alive, Tick(active, alive)
  PROVE  IInv'
<1> DEFINE kept == Kept(active)
           woken == Woken(Expired(kept, alive))
<1>1. pinned = None /\ pinned' = None
  BY DEF Tick
<1>2. PICK tried \in SUBSET Wanting(woken) :
      \E id \in [ToSend(Begun(woken, tried)) ->
                   ProbeIds \ {Begun(woken, tried)[p].probe.id : p \in active}] :
      \E tooLong \in SUBSET {p \in ToSend(Begun(woken, tried)) :
                               ~Carried(p, Begun(woken, tried)[p].probe.size)} :
      \E sent \in SUBSET {p \in ToSend(Begun(woken, tried)) :
                            Carried(p, Begun(woken, tried)[p].probe.size)} :
          SendProbes(kept, Begun(woken, tried), alive, id, tooLong, sent)
  BY DEF Tick
<1> DEFINE begun == Begun(woken, tried)
<1>3. DOMAIN kept = active /\ DOMAIN begun = active
  BY DEF Kept, Expired, Woken, Begun
<1>4. \A p \in active : /\ Sound(p, kept[p]) /\ Sound(p, begun[p])
                        /\ kept[p] = IF p \in Tracked THEN peers[p] ELSE NewPeer
                        /\ p \notin Rechecked(kept) => SameBudget(kept[p], begun[p])
  BY <1>1, TickPeers
<1> HIDE DEF kept, woken, begun
<1>5. PICK id \in [ToSend(begun) -> ProbeIds],
           tooLong \in SUBSET ToSend(begun),
           sent \in SUBSET {p \in ToSend(begun) : Carried(p, begun[p].probe.size)} :
             SendProbes(kept, begun, alive, id, tooLong, sent)
  BY <1>2 DEF begun
<1> DEFINE done == [p \in active |->
                     CASE p \in tooLong -> HardFail(p, begun[p], p \in alive)
                       [] p \in ToSend(begun) \ tooLong -> [begun[p] EXCEPT !.probe.id = id[p]]
                       [] OTHER -> begun[p]]
           downs == Rechecked(kept) \cup
                    {p \in tooLong : begun[p].phase \in {"Revalidate", "Recheck"}}
           rest == [p \in Tracked \cap active |-> kept[p]]
<1>6. /\ peers' = done
      /\ net' = net \cup {[id |-> id[p], to |-> p, size |-> begun[p].probe.size] : p \in sent}
      /\ min_path_mtu' \in {RecalcMin(done), RecalcMin(rest), min_path_mtu}
      /\ downs # {} => min_path_mtu' = RecalcMin(done)
  BY <1>3, <1>5 DEF SendProbes
<1>7. \A p \in ToSend(begun) : p \in active /\ begun[p].probe # NoProbe /\ id[p] \in Nat
  BY <1>3, PmtudAssumption DEF ToSend
<1>8. ASSUME NEW p \in active
      PROVE  Sound(p, done[p]) /\ (p \notin downs => SameBudget(kept[p], done[p]))
  <2>1. CASE p \in tooLong
    <3> DEFINE large == p \in alive
    <3>1. large \in BOOLEAN /\ done[p] = HardFail(p, begun[p], large)
      BY <2>1
    <3>2. p \notin downs => begun[p].phase \notin {"Revalidate", "Recheck"} /\ p \notin Rechecked(kept)
      BY <2>1
    <3> HIDE DEF done, downs, large
    <3> QED BY <1>4, <1>7, <2>1, <3>1, <3>2, HardFailSound DEF SameBudget
  <2>2. CASE p \in ToSend(begun) \ tooLong
    <3>1. done[p] = [begun[p] EXCEPT !.probe.id = id[p]]
      BY <2>2
    <3>2. p \notin downs => p \notin Rechecked(kept)
      OBVIOUS
    <3> HIDE DEF done, downs
    <3>3. Sound(p, done[p]) /\ SameBudget(begun[p], done[p])
      BY <1>4, <1>7, <2>2, <3>1, NumberedSound
    <3> QED BY <1>4, <3>2, <3>3 DEF SameBudget
  <2>3. CASE p \notin ToSend(begun)
    <3>1. done[p] = begun[p]
      BY <2>3
    <3>2. p \notin downs => p \notin Rechecked(kept)
      OBVIOUS
    <3> HIDE DEF done, downs
    <3> QED BY <1>4, <3>1, <3>2
  <2> QED BY <2>1, <2>2, <2>3
<1>9. DOMAIN done = active
  OBVIOUS
<1>10. RecalcMin(done) \in Nat /\ \A p \in active : RecalcMin(done) <= done[p].last_good
  <2> HIDE DEF done
  <2>1. \A p \in DOMAIN done : done[p].last_good \in Nat
    BY <1>8, <1>9, BudgetTyped DEF Sound
  <2> QED BY <1>1, <1>9, <2>1, RecalcMinBound
<1>11. RecalcMin(rest) \in Nat /\ \A p \in Tracked \cap active : RecalcMin(rest) <= kept[p].last_good
  <2>1. DOMAIN rest = Tracked \cap active /\ \A p \in Tracked \cap active : rest[p] = kept[p]
    OBVIOUS
  <2> HIDE DEF rest
  <2>2. \A p \in DOMAIN rest : rest[p].last_good \in Nat
    BY <1>4, <2>1, BudgetTyped DEF Sound
  <2> QED BY <1>1, <2>1, <2>2, RecalcMinBound
<1> HIDE DEF done, downs, rest
<1>12. min_path_mtu' \in Nat
  BY <1>6, <1>10, <1>11 DEF IInv
<1>13. \A m \in net' : m.to \in Endpoints /\ Carried(m.to, m.size)
  BY <1>6, <1>7 DEF IInv
<1>14. MinLagsOnlyNew'
  <2> SUFFICES ASSUME NEW p \in active
               PROVE  \/ min_path_mtu' <= done[p].last_good
                      \/ ~done[p].ever_acked /\ done[p].last_good = DefaultMtu
    BY <1>6, <1>9 DEF MinLagsOnlyNew, Tracked
  <2>1. CASE min_path_mtu' = RecalcMin(done)
    BY <1>10, <2>1
  <2>2. CASE downs = {}
    <3>1. SameBudget(kept[p], done[p])
      BY <1>8, <2>2
    <3>2. CASE p \notin Tracked
      BY <1>4, <3>1, <3>2, NewPeerSound DEF SameBudget
    <3>3. CASE p \in Tracked
      <4>1. kept[p] = peers[p]
        BY <1>4, <3>3
      <4> QED BY <1>1, <1>6, <1>10, <1>11, <3>1, <3>3, <4>1 DEF SameBudget, IInv, MinLagsOnlyNew
    <3> QED BY <3>2, <3>3
  <2> QED BY <1>6, <2>1, <2>2
<1>15. \A p \in Tracked' : p \in Endpoints /\ Open(peers[p])' /\ Proven(p, peers[p])'
  BY <1>6, <1>8, <1>9 DEF Tracked, Sound
<1> QED BY <1>1, <1>12, <1>13, <1>14, <1>15 DEF IInv, None

\* The echo of the probe of one peer of the host: on_ack credits a size that the
\* path to the host carries.
LEMMA RecvAckInv ==
  ASSUME IInv, NEW m \in net, NEW from \in Endpoints, RecvAck(m, from)
  PROVE  IInv'
<1> DEFINE matches == {p \in IF from \in Tracked THEN {from}
                              ELSE {q \in Tracked : HostOf[q] = HostOf[from]} : Answers(m, p)}
           p == CHOOSE q \in matches : TRUE
           acked == [peers EXCEPT ![p] = Acked(@)]
<1>1. net' \subseteq net /\ pinned' = pinned /\ HostOf[from] = HostOf[m.to]
  BY DEF RecvAck
<1>2. CASE peers' = peers /\ min_path_mtu' = min_path_mtu
  BY <1>1, <1>2 DEF IInv, MinLagsOnlyNew, Tracked
<1>3. CASE pinned = None /\ Cardinality(matches) = 1
           /\ peers' = acked /\ min_path_mtu' = RecalcMin(acked)
  <2>1. matches # {}
    BY <1>3, FS_EmptySet
  <2>2. p \in matches
    BY <2>1
  <2> HIDE DEF p
  <2>3. p \in Tracked /\ HostOf[p] = HostOf[m.to] /\ Answers(m, p)
    BY <1>1, <2>2
  <2> HIDE DEF matches
  <2>4. Sound(p, peers[p]) /\ p \in Endpoints
    BY <1>3, <2>3 DEF IInv, Sound
  <2>5. peers[p].probe # NoProbe /\ peers[p].probe.size = m.size
    BY <2>3 DEF Answers
  <2>6. Carried(p, peers[p].probe.size)
    BY <2>3, <2>5 DEF IInv, Carried
  <2>7. Sound(p, Acked(peers[p]))
    BY <2>4, <2>5, <2>6, AckedSound
  <2>8. DOMAIN acked = Tracked
        /\ \A q \in Tracked : acked[q] = IF q = p THEN Acked(peers[p]) ELSE peers[q]
    BY <2>3 DEF Tracked
  <2> HIDE DEF acked
  <2>9. \A q \in Tracked : q \in Endpoints /\ Open(acked[q]) /\ Proven(q, acked[q])
    BY <1>3, <2>7, <2>8 DEF IInv, Sound
  <2>10. RecalcMin(acked) \in Nat /\ \A q \in Tracked : RecalcMin(acked) <= acked[q].last_good
    <3>1. \A q \in DOMAIN acked : acked[q].last_good \in Nat
      BY <2>8, <2>9, BudgetTyped
    <3> QED BY <1>3, <2>8, <3>1, RecalcMinBound
  <2>11. Tracked' = Tracked
    BY <1>3, <2>8 DEF Tracked
  <2>12. MinLagsOnlyNew'
    BY <1>3, <2>10, <2>11 DEF MinLagsOnlyNew
  <2> QED BY <1>1, <1>3, <2>9, <2>10, <2>11, <2>12 DEF IInv
<1> QED BY <1>2, <1>3 DEF RecvAck

LEMMA ExpireInv ==
  ASSUME IInv, NEW p \in Endpoints, Expire(p)
  PROVE  IInv'
<1> DEFINE t == [peers[p] EXCEPT !.due = TRUE]
<1>1. p \in Tracked /\ peers' = [peers EXCEPT ![p].due = TRUE]
      /\ UNCHANGED <<min_path_mtu, pinned, net>>
  BY DEF Expire
<1>2. DOMAIN peers' = Tracked /\ \A q \in Tracked : peers'[q] = IF q = p THEN t ELSE peers[q]
  BY <1>1 DEF Tracked
<1>3. peers[p] \in Peer /\ Open(peers[p])
  BY <1>1 DEF IInv, Open
<1>4. t \in Peer /\ t.last_good = peers[p].last_good /\ t.first_bad = peers[p].first_bad
      /\ t.stable = peers[p].stable /\ t.ever_acked = peers[p].ever_acked
      /\ t.probe = peers[p].probe /\ t.phase = peers[p].phase
  BY <1>3 DEF Peer
<1> HIDE DEF t
<1>5. Open(t)
  BY <1>3, <1>4 DEF Open
<1>6. Proven(p, peers[p]) => Proven(p, t)
  BY <1>4 DEF Proven
<1>7. Tracked' = Tracked
  BY <1>2 DEF Tracked
<1>8. MinLagsOnlyNew'
  BY <1>1, <1>2, <1>4, <1>7 DEF IInv, MinLagsOnlyNew
<1>9. \A q \in Tracked : Open(peers'[q]) /\ (pinned = None => Proven(q, peers'[q]))
  BY <1>1, <1>2, <1>5, <1>6 DEF IInv
<1> QED BY <1>1, <1>7, <1>8, <1>9 DEF IInv

LEMMA RemovePeerInv ==
  ASSUME IInv, NEW p \in Endpoints, RemovePeer(p)
  PROVE  IInv'
<1> DEFINE rest == [q \in Tracked \ {p} |-> peers[q]]
<1>1. peers' = rest /\ min_path_mtu' = RecalcMin(rest) /\ UNCHANGED <<pinned, net>>
  BY DEF RemovePeer
<1>2. DOMAIN rest = Tracked \ {p} /\ \A q \in Tracked \ {p} : rest[q] = peers[q]
  OBVIOUS
<1> HIDE DEF rest
<1>3. \A q \in DOMAIN rest : rest[q].last_good \in Nat
  BY <1>2, BudgetTyped DEF IInv
<1>4. RecalcMin(rest) \in Nat
      /\ (pinned = None => \A q \in DOMAIN rest : RecalcMin(rest) <= rest[q].last_good)
  <2>1. CASE pinned = None
    BY <1>3, <2>1, RecalcMinBound
  <2>2. CASE pinned # None
    BY <2>2 DEF RecalcMin, IInv
  <2> QED BY <2>1, <2>2
<1>5. Tracked' = Tracked \ {p}
  BY <1>1, <1>2 DEF Tracked
<1>6. MinLagsOnlyNew'
  BY <1>1, <1>2, <1>4, <1>5 DEF MinLagsOnlyNew
<1> QED BY <1>1, <1>2, <1>4, <1>5, <1>6 DEF IInv

LEMMA PinInv ==
  ASSUME IInv, NEW m \in PinMtus, Pin(m)
  PROVE  IInv'
<1> DEFINE pinnedPeer(s) == [s EXCEPT !.probe = NoProbe, !.last_good = m, !.stable = m,
                                      !.first_bad = m + 1, !.phase = "Frozen", !.used = 0,
                                      !.due = FALSE, !.from = None, !.got_ack = FALSE]
<1>1. m \in Nat /\ m + 1 \in Nat /\ m \in Sizes /\ m # None /\ m < m + 1 /\ m + 1 <= Sentinel
  <2>1. m \in MinMtu..MaxMtu
    BY PmtudAssumption
  <2> QED BY <2>1, Numbers DEF Sizes, Sentinel, None
<1>2. /\ pinned' = m /\ min_path_mtu' = m /\ net' = net
      /\ Tracked' = Tracked /\ \A p \in Tracked : peers'[p] = pinnedPeer(peers[p])
  BY DEF Pin, Tracked
<1>3. ASSUME NEW s, Open(s) PROVE Open(pinnedPeer(s))
  <2> DEFINE t == pinnedPeer(s)
  <2>1. s \in Peer /\ None \in Nat
    BY <1>3 DEF Open, None
  <2> DEFINE n == m + 1
  <2>2. n \in Nat /\ t = [s EXCEPT !.probe = NoProbe, !.last_good = m, !.stable = m,
                                   !.first_bad = n, !.phase = "Frozen", !.used = 0,
                                   !.due = FALSE, !.from = None, !.got_ack = FALSE]
    BY <1>1
  <2> HIDE DEF t, n
  <2>3. t \in Peer
    BY <1>1, <2>1, <2>2, NoProbeTyped DEF Peer
  <2>4. t.last_good = m /\ t.first_bad = m + 1 /\ t.probe = NoProbe
    BY <2>1, <2>2 DEF Peer, n
  <2>5. Open(t)
    BY <1>1, <2>3, <2>4 DEF Open
  <2> QED BY <2>5 DEF t
<1> HIDE DEF pinnedPeer
<1> QED BY <1>1, <1>2, <1>3 DEF IInv, MinLagsOnlyNew

LEMMA ApplyTuningInv ==
  ASSUME IInv, ApplyTuning
  PROVE  IInv'
<1> DEFINE tuned(s) == [s EXCEPT !.probe = NoProbe, !.step = RaiseStep, !.used = 0,
                                 !.due = @ /\ s.phase \notin Searching,
                                 !.phase = IF @ \in Searching THEN "Plateau" ELSE @]
<1>1. /\ pinned = None /\ UNCHANGED <<min_path_mtu, pinned, net>>
      /\ Tracked' = Tracked /\ \A p \in Tracked : peers'[p] = tuned(peers[p])
  BY DEF ApplyTuning, Tracked
<1>2. ASSUME NEW p \in Endpoints, NEW s, Sound(p, s)
      PROVE  Sound(p, tuned(s)) /\ SameBudget(s, tuned(s))
  <2> DEFINE t == tuned(s)
  <2>1. s \in Peer /\ s.due \in BOOLEAN
    BY <1>2 DEF Sound, Open, Peer
  <2> DEFINE due == s.due /\ s.phase \notin Searching
             phase == IF s.phase \in Searching THEN "Plateau" ELSE s.phase
  <2>2. due \in BOOLEAN /\ RaiseStep \in Nat \ {0}
    BY Numbers
  <2>3. phase \in Searching \cup {"Plateau", "Frozen"}
    BY <2>1 DEF Peer
  <2>4. t = [s EXCEPT !.probe = NoProbe, !.step = RaiseStep, !.used = 0, !.due = due, !.phase = phase]
    BY <2>1 DEF Peer
  <2> HIDE DEF t, due, phase
  <2>5. t \in Peer /\ t.last_good = s.last_good /\ t.first_bad = s.first_bad
        /\ t.stable = s.stable /\ t.ever_acked = s.ever_acked /\ t.probe = NoProbe
    BY <2>1, <2>2, <2>3, <2>4, NoProbeTyped DEF Peer
  <2>6. Sound(p, t) /\ SameBudget(s, t)
    BY <1>2, <2>5, IdleSound
  <2> QED BY <2>6 DEF t
<1> HIDE DEF tuned
<1>3. \A p \in Tracked : p \in Endpoints /\ Sound(p, peers'[p]) /\ SameBudget(peers[p], peers'[p])
  BY <1>1, <1>2 DEF IInv, Sound
<1>4. MinLagsOnlyNew'
  BY <1>1, <1>3 DEF IInv, MinLagsOnlyNew, SameBudget
<1> QED BY <1>1, <1>3, <1>4 DEF IInv, Sound

LEMMA UnpinInv ==
  ASSUME IInv, Unpin
  PROVE  IInv'
<1>1. /\ pinned' = None /\ min_path_mtu' = DefaultMtu /\ net' = net
      /\ Tracked' = Tracked /\ \A p \in Tracked : peers'[p] = NewPeer
  BY DEF Unpin, Tracked
<1> QED BY <1>1, NewPeerSound, Numbers DEF IInv, Sound, MinLagsOnlyNew, None

LEMMA ResetInv ==
  ASSUME IInv, Reset
  PROVE  IInv'
<1>1. pinned' = None /\ min_path_mtu' = DefaultMtu /\ net' = net /\ Tracked' = {}
  BY DEF Reset, Tracked
<1> QED BY <1>1, Numbers DEF IInv, MinLagsOnlyNew, None

LEMMA InitInv == Init => IInv
<1> SUFFICES ASSUME Init PROVE IInv
  OBVIOUS
<1>1. pinned = None /\ min_path_mtu = DefaultMtu /\ net = {} /\ Tracked = {}
  BY DEF Init, Tracked
<1> QED BY <1>1, Numbers DEF IInv, MinLagsOnlyNew, None

LEMMA StepInv == IInv /\ [Next]_vars => IInv'
<1> SUFFICES ASSUME IInv, [Next]_vars PROVE IInv'
  OBVIOUS
<1>1. CASE AnyTick
  <2>1. PICK active \in SUBSET Endpoints :
          \E alive \in SUBSET {p \in active \cap Tracked : peers[p].due /\ peers[p].phase = "Revalidate"} :
              Tick(active, alive)
    BY <1>1 DEF AnyTick
  <2> QED BY <2>1, TickInv
<1>2. CASE UNCHANGED vars
  BY <1>2 DEF vars, IInv, MinLagsOnlyNew, Tracked
<1>3. ASSUME NEW m \in net, NEW from \in Endpoints, RecvAck(m, from) PROVE IInv'
  BY <1>3, RecvAckInv
<1>4. ASSUME NEW p \in Endpoints, Expire(p) \/ RemovePeer(p) PROVE IInv'
  BY <1>4, ExpireInv, RemovePeerInv
<1>5. CASE UserCommand
  BY <1>5, UnpinInv, ApplyTuningInv, ResetInv, PinInv DEF UserCommand
<1>6. CASE PinnedTick
  BY <1>2, <1>6 DEF PinnedTick
<1> QED BY <1>1, <1>2, <1>3, <1>4, <1>5, <1>6 DEF Next, EngineStep

LEMMA AlwaysIInv == Spec => []IInv
BY InitInv, StepInv, PTL DEF Spec

----------------------------------------------------------------------------
\* The search window of a tracked endpoint is never empty and a probe of a
\* search lies strictly inside it, whatever sequence of timeouts, hard send
\* failures, late echoes, pins and tunings on_tick and on_ack have processed.
THEOREM WindowAlwaysOpen == Spec => []WindowOpen
<1>1. IInv => WindowOpen
  BY DEF IInv, WindowOpen, Open, Narrowing
<1> QED BY <1>1, AlwaysIInv, PTL

\* Unless a path MTU is pinned, no endpoint has a budget or a stable size above
\* the default that the path to its host does not carry: on_ack never credits
\* more than a probe that arrived, through whatever port its echo came back.
THEOREM BudgetAlwaysProven == Spec => []ProvenByEcho
<1>1. IInv => ProvenByEcho
  BY DEF IInv, ProvenByEcho, Proven
<1> QED BY <1>1, AlwaysIInv, PTL

\* A private endpoint that has never answered keeps the default budget, so that
\* heal_unacked_private_floor is never needed.
THEOREM PrivateFloorHolds == Spec => []PrivateFloor
<1>1. IInv => PrivateFloor
  BY DEF IInv, PrivateFloor, Proven
<1> QED BY <1>1, AlwaysIInv, PTL

\* The cached minimum that the packet path reads is above the budget of an
\* endpoint only while ensure_peer has just added that endpoint.
THEOREM CachedMinimumLags == Spec => []MinLagsOnlyNew
<1>1. IInv => MinLagsOnlyNew
  BY DEF IInv
<1> QED BY <1>1, AlwaysIInv, PTL
=============================================================================
