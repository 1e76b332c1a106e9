------------------------------- MODULE Pmtud -------------------------------
(***************************************************************************)
(* PathMtuDiscovery (src/src/pmtud.rs) and the parts of the engine that    *)
(* drive it: a search for the largest datagram that each peer echoes, by   *)
(* probes that time out, are repeated, answered late or too long to send.  *)
(*                                                                         *)
(* A peer waits for one deadline at a time, of its probe, of the grace     *)
(* after it or of its next raise; the clock is the flag due that says the  *)
(* deadline has passed.  The generation of a search is left out: it        *)
(* changes only when no probe is outstanding.  An identifier may recur     *)
(* while an old echo is in flight, as it does when Reset restarts the      *)
(* counter.  The network keeps a probe and the echo it causes as one       *)
(* packet and drops a datagram that the path of its host does not carry.   *)
(***************************************************************************)
EXTENDS Integers, FiniteSets

CONSTANTS Endpoints, HostOf,           \* socket addresses and their IP address
          Private,                     \* hosts with an RFC 1918 address
          PathMtu,                     \* what the path to a host carries
          ProbeIds,                    \* identifiers of probes
          MinMtu, DefaultMtu, MaxMtu,  \* MIN_MTU, DEFAULT_MTU, MAX_MTU
          Shortfall,                   \* bytes a probe is shorter than its size
          PinMtus,                     \* path MTUs the user may pin
          ConfirmCount, Epsilon, RaiseStep, MaxProbes,
          MaxConcurrent, DowngradeBatches

VARIABLES peers,         \* the tracked endpoints and the state of their search
          min_path_mtu,  \* cached minimum of last_good
          pinned,        \* path MTU fixed by the user, or None
          net            \* probes and echoes in flight

vars == <<peers, min_path_mtu, pinned, net>>

None == 0
NoProbe == [id |-> None, size |-> None, left |-> 0]
Sentinel == MaxMtu + 1
Sizes == MinMtu..MaxMtu

ASSUME PmtudAssumption ==
    /\ IsFiniteSet(Endpoints) /\ ProbeIds \subseteq Nat \ {None}
    /\ MinMtu \in Nat \ {0} /\ DefaultMtu \in Nat /\ MaxMtu \in Nat
    /\ MinMtu <= DefaultMtu /\ DefaultMtu <= MaxMtu
    /\ Shortfall \in Nat /\ PinMtus \subseteq MinMtu..MaxMtu
    /\ HostOf \in [Endpoints -> DOMAIN PathMtu] /\ \A h \in DOMAIN PathMtu : PathMtu[h] \in Nat
    /\ ConfirmCount \in Nat \ {0} /\ Epsilon \in Nat \ {0} /\ RaiseStep \in Nat \ {0}
    /\ MaxProbes \in Nat \ {0} /\ MaxConcurrent \in Nat \ {0}
    /\ DowngradeBatches \in Nat \ {0}

Searching == {"Raise", "Binary", "Revalidate", "Recheck", "DownSearch"}

\* PeerState.  probe: the probe in flight and the confirmations it has left, or
\* the probe in its grace with none left; from: down_from_stable.
NewPeer ==
    [last_good |-> DefaultMtu, first_bad |-> Sentinel, stable |-> DefaultMtu,
     phase |-> "Plateau", step |-> RaiseStep, probe |-> NoProbe, used |-> 0, lower |-> 0,
     from |-> None, got_ack |-> FALSE, ever_acked |-> FALSE, due |-> FALSE]

Init ==
    /\ peers = [p \in {} |-> NewPeer]
    /\ min_path_mtu = DefaultMtu
    /\ pinned = None
    /\ net = {}

Tracked == DOMAIN peers
Lesser(a, b) == IF a <= b THEN a ELSE b
Larger(a, b) == IF a >= b THEN a ELSE b

\* Mutant: the maximum for the minimum.
RecalcMax(P) ==
    IF pinned # None THEN pinned
    ELSE IF DOMAIN P = {} THEN DefaultMtu
    ELSE CHOOSE m \in {P[p].last_good : p \in DOMAIN P} : \A p \in DOMAIN P : m >= P[p].last_good

\* recalc_min over the tracked peers P
RecalcMin(P) ==
    IF pinned # None THEN pinned
    ELSE IF DOMAIN P = {} THEN DefaultMtu
    ELSE CHOOSE m \in {P[p].last_good : p \in DOMAIN P} : \A p \in DOMAIN P : m <= P[p].last_good

----------------------------------------------------------------------------
\* Mutant: the size known to fail is probed again.
RaiseTargetInclusive(s) ==
    LET hi == Lesser(s.first_bad, MaxMtu) IN
    IF hi > s.last_good THEN Lesser(s.last_good + s.step, hi) ELSE None

\* What the next probe of a search asks for, or None.
RaiseTarget(s) ==
    LET hi == Lesser(s.first_bad - 1, MaxMtu) IN
    IF hi > s.last_good THEN Lesser(s.last_good + s.step, hi) ELSE None

BinaryTarget(s) ==
    IF s.first_bad > s.last_good + 1
    THEN s.last_good + (s.first_bad - s.last_good) \div 2 ELSE None

\* Mutant: a window of Epsilon is still open.
WindowWithin(s) == s.first_bad - s.last_good < Epsilon

WindowClosed(s) == s.first_bad - s.last_good <= Epsilon

\* enter_frozen
EnterFrozen(s) == [s EXCEPT !.probe = NoProbe, !.phase = "Frozen", !.due = FALSE, !.used = 0]

\* maybe_budget_freeze and the same test in on_timeout
OutOfBudget(s) == s.phase # "Recheck" /\ s.used >= MaxProbes

BudgetFreeze(s) == IF OutOfBudget(s) THEN EnterFrozen(s) ELSE s

\* enter_plateau: a search that went down counts towards lowering stable.
EnterPlateau(s) ==
    LET fell == s.from # None /\ s.last_good < s.from
        settle == fell /\ s.lower + 1 >= DowngradeBatches
    IN  [s EXCEPT !.probe = NoProbe, !.phase = "Plateau", !.due = FALSE, !.used = 0,
                  !.step = RaiseStep, !.from = None,
                  !.stable = IF settle THEN s.last_good ELSE @,
                  !.lower = CASE s.from = None -> @
                              [] s.from # None /\ fell /\ ~settle -> @ + 1
                              [] OTHER -> 0]

\* finish_downsearch_plateau for a DownSearch, enter_plateau for a Binary search.
EndSearch(s) ==
    EnterPlateau([s EXCEPT !.first_bad =
                    IF s.phase = "DownSearch" /\ ~s.got_ack THEN Sentinel ELSE @])

SoftHalf(s) == Larger(MinMtu, Lesser(s.last_good, s.stable) \div 2)

\* Mutant: private peers that have never answered get no floor.
FloorForAllPeers(p, s) == SoftHalf(s)

\* soft_down_last_good and the floor of private peers that have never answered
SoftDownFloor(p, s) ==
    IF HostOf[p] \in Private /\ ~s.ever_acked THEN Larger(SoftHalf(s), DefaultMtu)
    ELSE SoftHalf(s)

\* apply_soft_down; Tick recalculates the minimum.
SoftDown(p, s) ==
    LET floor == SoftDownFloor(p, s)
        t == [s EXCEPT !.first_bad = Larger(s.stable, floor + 1), !.last_good = floor,
                       !.from = s.stable, !.got_ack = FALSE, !.phase = "DownSearch",
                       !.used = 0, !.step = RaiseStep, !.probe = NoProbe, !.due = FALSE]
    IN  IF WindowClosed(t) THEN EndSearch(t) ELSE t

\* apply_timeout_confirmed_fail, with alive: the data plane still sees large
\* packets from the peer (apply_anomaly instead of enter_recheck).
ConfirmedFail(p, s, size, alive) ==
    LET idle == [s EXCEPT !.probe = NoProbe, !.due = FALSE]
        narrowed == [idle EXCEPT
            !.first_bad = IF s.phase = "Raise" THEN size ELSE Lesser(size, @),
            !.step = IF s.phase = "Raise" THEN RaiseStep ELSE @,
            !.phase = IF s.phase = "Raise" THEN "Binary" ELSE @]
    IN  CASE s.phase \in {"Raise", "Binary", "DownSearch"} ->
               IF WindowClosed(narrowed) THEN EndSearch(narrowed) ELSE BudgetFreeze(narrowed)
          [] s.phase = "Revalidate" /\ alive ->
               [idle EXCEPT !.phase = "Plateau", !.used = 0, !.step = RaiseStep, !.due = FALSE]
          [] s.phase = "Revalidate" /\ ~alive -> [idle EXCEPT !.phase = "Recheck", !.used = 0]
          [] s.phase = "Recheck" -> SoftDown(p, s)
          [] OTHER -> idle

----------------------------------------------------------------------------
\* heal_unacked_private_floor
Healed(p, s) ==
    IF HostOf[p] \in Private /\ ~s.ever_acked /\ s.last_good < DefaultMtu
    THEN [NewPeer EXCEPT !.due = TRUE] ELSE s

\* Expired grace and on_timeout.  A probe to send has no identifier yet.
Timeout(p, s, alive) ==
    LET again == [s EXCEPT !.probe = [id |-> None, size |-> s.probe.size, left |-> @.left - 1],
                           !.used = IF s.phase = "Recheck" THEN @ ELSE @ + 1, !.due = FALSE]
    IN  CASE s.probe = NoProbe \/ ~s.due -> s
          [] s.due /\ s.probe.left > 1 -> BudgetFreeze(again)
          [] s.due /\ s.probe.left = 1 /\ s.phase \in {"Revalidate", "Recheck"} ->
               [s EXCEPT !.probe.left = 0, !.due = FALSE]
          [] OTHER -> ConfirmedFail(p, s, s.probe.size, alive)

\* A Plateau or Frozen peer whose raise is due starts a search.
Wake(s) ==
    IF s.phase \in {"Plateau", "Frozen"} /\ s.due
    THEN [s EXCEPT !.used = 0, !.step = RaiseStep, !.due = FALSE,
                   !.phase = IF RaiseTarget(s) # None THEN "Raise" ELSE "Revalidate"]
    ELSE s

Wants(s) ==
    /\ s.probe = NoProbe
    /\ \/ s.phase = "Raise" /\ RaiseTarget(s) # None
       \/ s.phase \in {"Binary", "DownSearch"} /\ BinaryTarget(s) # None
       \/ s.phase \in {"Revalidate", "Recheck"}

\* issue_probe and begin_probe, for a peer that wants a probe
IssueProbe(s) ==
    LET size == CASE s.phase = "Raise" -> RaiseTarget(s)
                  [] s.phase \in {"Binary", "DownSearch"} -> BinaryTarget(s)
                  [] OTHER -> s.stable
    IN  CASE OutOfBudget(s) -> EnterFrozen(s)
          [] ~OutOfBudget(s) /\ s.phase \in {"Binary", "DownSearch"} /\ WindowClosed(s) ->
               EndSearch(s)
          [] OTHER -> [s EXCEPT !.probe = [id |-> None, size |-> size, left |-> ConfirmCount],
                                !.used = @ + 1, !.due = FALSE]

\* on_send_hard_fail
HardFail(p, s, alive) ==
    IF s.phase \in {"Revalidate", "Recheck"} THEN SoftDown(p, s)
    ELSE ConfirmedFail(p, s, s.probe.size, alive)

Carried(p, size) == size - Shortfall <= PathMtu[HostOf[p]]

\* The peers of a tick: ensure_peer and heal_unacked_private_floor for the
\* endpoints of live routes, timeouts, raises that are due, and new probes for
\* those of tried.
Kept(active) == [p \in active |-> IF p \in Tracked THEN Healed(p, peers[p]) ELSE NewPeer]
Expired(kept, alive) == [p \in DOMAIN kept |-> Timeout(p, kept[p], p \in alive)]
Woken(expired) == [p \in DOMAIN expired |-> Wake(expired[p])]
Begun(woken, tried) ==
    [p \in DOMAIN woken |-> IF p \in tried THEN IssueProbe(woken[p]) ELSE woken[p]]

Wanting(P) == {p \in DOMAIN P : Wants(P[p])}
ToSend(P) == {p \in DOMAIN P : P[p].probe # NoProbe /\ P[p].probe.id = None}
Rechecked(kept) ==
    {p \in DOMAIN kept : kept[p].due /\ kept[p].phase = "Recheck"
                            /\ kept[p].probe # NoProbe /\ kept[p].probe.left = 0}

\* The round robin stops where the tick has sent MaxConcurrent probes.
WithinRoom(expired, woken, begun, tried) ==
    LET room == Larger(MaxConcurrent - Cardinality(ToSend(expired)), 0)
        issued == ToSend(begun) \ ToSend(expired)
    IN  /\ Cardinality(issued) <= room
        /\ IF room = 0 THEN tried = {} ELSE tried = Wanting(woken) \/ Cardinality(issued) = room

\* The probes go out: tooLong are those that the socket refuses, sent those that
\* the network carries.
SendProbes(kept, begun, alive, id, tooLong, sent) ==
    LET downs == Rechecked(kept) \cup
                 {p \in tooLong : begun[p].phase \in {"Revalidate", "Recheck"}}
        done == [p \in DOMAIN begun |->
                  CASE p \in tooLong -> HardFail(p, begun[p], p \in alive)
                    [] p \in ToSend(begun) \ tooLong -> [begun[p] EXCEPT !.probe.id = id[p]]
                    [] OTHER -> begun[p]]
        healed == \E p \in Tracked : Healed(p, peers[p]) # peers[p]
    IN  /\ peers' = done
        /\ net' = net \cup {[id |-> id[p], to |-> p, size |-> begun[p].probe.size] : p \in sent}
        /\ min_path_mtu' =
             IF downs # {} THEN RecalcMin(done)
             ELSE IF healed \/ ~(Tracked \subseteq DOMAIN kept)
             THEN RecalcMin([p \in Tracked \cap DOMAIN kept |-> kept[p]])
             ELSE min_path_mtu

\* drive_pmtud_tick and on_tick.  active: the endpoints of live routes; alive:
\* those that receive large packets; tried: those the round robin gets to.
Tick(active, alive) ==
    LET kept == Kept(active)
        expired == Expired(kept, alive)
        woken == Woken(expired)
    IN  /\ pinned = None /\ UNCHANGED pinned
        /\ \E tried \in SUBSET Wanting(woken) :
             LET begun == Begun(woken, tried)
                 intents == ToSend(begun)
                 held == {begun[p].probe.id : p \in active}
             IN  /\ WithinRoom(expired, woken, begun, tried)
                 /\ \E id \in [intents -> ProbeIds \ held] :
                    \E tooLong \in SUBSET {p \in intents : ~Carried(p, begun[p].probe.size)} :
                    \E sent \in SUBSET {p \in intents : Carried(p, begun[p].probe.size)} :
                      /\ \A p, q \in intents : p # q => id[p] # id[q]
                      /\ SendProbes(kept, begun, alive, id, tooLong, sent)

\* on_tick under a pin
PinnedTick == pinned # None /\ UNCHANGED vars

----------------------------------------------------------------------------
\* The matched echo of a peer in on_ack: of a late probe, or in one of the phases
Acked(s) ==
    LET size == s.probe.size
        idle == [s EXCEPT !.probe = NoProbe, !.ever_acked = TRUE, !.due = FALSE]
        grown == [idle EXCEPT !.last_good = size, !.stable = Larger(@, size),
                              !.lower = IF size > s.stable THEN 0 ELSE @,
                              !.step = IF s.phase = "Raise" THEN Larger(2 * @, RaiseStep) ELSE @]
        lifted == [idle EXCEPT !.last_good = size, !.got_ack = TRUE]
    IN  CASE s.phase \in {"Revalidate", "Recheck"} -> EnterPlateau(idle)
          [] s.phase = "Raise" ->
               IF RaiseTarget(grown) # None THEN grown
               ELSE EnterPlateau([grown EXCEPT !.first_bad = IF size >= MaxMtu THEN Sentinel ELSE @])
          [] s.phase = "Binary" -> IF WindowClosed(grown) THEN EndSearch(grown) ELSE grown
          [] s.phase = "DownSearch" -> IF WindowClosed(lifted) THEN EndSearch(lifted) ELSE lifted

\* Mutant: any echo from the host answers the probe.
AnswersAnyProbe(m, p) == peers[p].probe # NoProbe

\* The probe of peer p that the echo m answers: in flight, or in its grace.
Answers(m, p) ==
    LET s == peers[p] IN
    /\ s.probe # NoProbe
    /\ m.id = s.probe.id /\ m.size = s.probe.size
    /\ s.probe.left > 0 \/ ~s.due

\* apply_pmar_body and on_ack: the echo comes from the endpoint the probe went to
\* or, behind an address translation, from another port of the host.  It counts
\* for the sender if that is tracked, or for the one peer of the host it answers.
RecvAck(m, from) ==
    LET matches == {p \in IF from \in Tracked THEN {from}
                           ELSE {q \in Tracked : HostOf[q] = HostOf[from]} : Answers(m, p)}
    IN  /\ m \in net /\ HostOf[from] = HostOf[m.to]
        /\ net' = net \ {m}
        /\ IF pinned = None /\ Cardinality(matches) = 1
           THEN LET p == CHOOSE q \in matches : TRUE
                    acked == [peers EXCEPT ![p] = Acked(@)]
                IN  peers' = acked /\ min_path_mtu' = RecalcMin(acked)
           ELSE UNCHANGED <<peers, min_path_mtu>>
        /\ UNCHANGED pinned

\* The deadline of a peer passes: of its probe or grace, or of its next raise,
\* which request_revalidate and request_early_wake bring forward.
Expire(p) ==
    /\ p \in Tracked /\ ~peers[p].due
    /\ peers[p].probe # NoProbe \/ peers[p].phase \in {"Plateau", "Frozen"}
    /\ peers' = [peers EXCEPT ![p].due = TRUE]
    /\ UNCHANGED <<min_path_mtu, pinned, net>>

\* remove_peer_endpoint
RemovePeer(p) ==
    LET rest == [q \in Tracked \ {p} |-> peers[q]] IN
    /\ p \in Tracked
    /\ peers' = rest
    /\ min_path_mtu' = RecalcMin(rest)
    /\ UNCHANGED <<pinned, net>>

\* apply_mtu_pin_policy with the pin set
Pin(m) ==
    /\ pinned' = m /\ min_path_mtu' = m
    /\ peers' = [p \in Tracked |->
                    [peers[p] EXCEPT !.probe = NoProbe, !.last_good = m, !.stable = m,
                                     !.first_bad = m + 1, !.phase = "Frozen", !.used = 0,
                                     !.due = FALSE, !.from = None, !.got_ack = FALSE]]
    /\ UNCHANGED net

\* apply_mtu_pin_policy without a pin, also where there was none
Unpin ==
    /\ pinned' = None /\ min_path_mtu' = DefaultMtu
    /\ peers' = [p \in Tracked |-> NewPeer]
    /\ UNCHANGED net

\* apply_tuning with the values it has: searches are abandoned.
ApplyTuning ==
    /\ pinned = None
    /\ peers' = [p \in Tracked |->
                    LET s == peers[p] IN
                    [s EXCEPT !.probe = NoProbe, !.step = RaiseStep, !.used = 0,
                              !.due = @ /\ s.phase \notin Searching,
                              !.phase = IF @ \in Searching THEN "Plateau" ELSE @]]
    /\ UNCHANGED <<min_path_mtu, pinned, net>>

\* reset_session_state
Reset ==
    /\ peers' = [p \in {} |-> NewPeer]
    /\ min_path_mtu' = DefaultMtu /\ pinned' = None
    /\ UNCHANGED net

\* Large packets matter for an expired revalidation only.
AnyTick ==
    \E active \in SUBSET Endpoints :
    \E alive \in SUBSET {p \in active \cap Tracked : peers[p].due /\ peers[p].phase = "Revalidate"} :
        Tick(active, alive)

EngineStep ==
    \/ AnyTick \/ PinnedTick
    \/ \E m \in net, from \in Endpoints : RecvAck(m, from)
    \/ \E p \in Endpoints : Expire(p) \/ RemovePeer(p)

UserCommand == Unpin \/ ApplyTuning \/ Reset \/ \E m \in PinMtus : Pin(m)

Next == EngineStep \/ UserCommand

Spec == Init /\ [][Next]_vars

----------------------------------------------------------------------------
\* The search window of a peer is never empty, and a probe of a search lies
\* strictly inside it, whatever deadlines, late echoes and refusals came before.
WindowOpen ==
    \A p \in Tracked :
        LET s == peers[p] IN
        /\ s.last_good < s.first_bad
        /\ s.probe # NoProbe /\ s.phase \in {"Raise", "Binary", "DownSearch"} =>
             s.last_good < s.probe.size /\ s.probe.size < s.first_bad

\* The budget of a peer beyond the default was carried by its path, less the
\* bytes a probe lacks: no late or recurring echo, none from another port of the
\* host and no soft-down proves more, and unpinning forgets what was pinned.
ProvenByEcho ==
    pinned = None =>
        \A p \in Tracked : \A size \in {peers[p].last_good, peers[p].stable} :
            size <= DefaultMtu \/ Carried(p, size)

\* A private peer that has never answered keeps the default budget, so that
\* heal_unacked_private_floor finds nothing to heal.
PrivateFloor ==
    pinned = None =>
        \A p \in Tracked : HostOf[p] \in Private /\ ~peers[p].ever_acked =>
                              peers[p].last_good >= DefaultMtu

\* The cached minimum is above the budget of a peer only while that peer is new:
\* ensure_peer alone adds a budget without recalc_min.
MinLagsOnlyNew ==
    pinned = None =>
        \A p \in Tracked : \/ min_path_mtu <= peers[p].last_good
                           \/ ~peers[p].ever_acked /\ peers[p].last_good = DefaultMtu

\* Every search of a tracked peer comes to an end.
SearchEnds ==
    \A p \in Endpoints : []<>(p \in Tracked => peers[p].phase \notin Searching)
=============================================================================
