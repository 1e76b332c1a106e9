----------------------------- MODULE Punching ------------------------------
(***************************************************************************)
(* The hole-punch tasks of the engine: manual_punch_stops, the functions   *)
(* that start and stop a workflow under a key (net/engine.rs), the stages  *)
(* of a workflow (net/punch_workflow.rs) and the targets of each stage     *)
(* (net/decentralized.rs).  The state is a record p:                       *)
(*                                                                         *)
(*   stops      manual_punch_stops: key -> the task that holds the stop    *)
(*              flag stored under it, or Ended once that task has returned;*)
(*              only the number of reconnect keys is ever looked at, so    *)
(*              any other key goes with its task                           *)
(*   tasks      running tasks: id -> [key, bases]; a task whose flag is    *)
(*              set is gone, as it sends at most one datagram more         *)
(*   cooldown   keys of peer_reconnect_cooldown_until not yet elapsed      *)
(*                                                                         *)
(* A key is <<kind, name>>.  Nothing but the task itself sees in which of  *)
(* its stages it is, so a task stands for all of them.                     *)
(***************************************************************************)
EXTENDS Integers, FiniteSets, SequencesExt

CONSTANTS TaskIds,           \* identities of running tasks
          MaxReconnectKeys,  \* PEER_RECONNECT_MAX_DISTINCT_KEYS
          PortMin, PortMax,  \* ports a punch may aim at
          ScanWidth,         \* SYMMETRIC_SCAN_WIDTH
          MinWidth,          \* punch_wide_min_width
          MaxWidth,          \* punch_wide_max_width
          MaxExpanded        \* punch_max_expanded_targets

Ended == 0
Overlay == <<"join overlay", "">>
Pass == <<"decentralized", "">>
Handshake == <<"join handshake", "">>
UserPunch == <<"user punch", "">>
Lan == <<"para active", "">>
Reconnect(name) == <<"peer reconnect", name>>
IsReconnect(key) == key[1] = "peer reconnect"

NoPunches == [stops |-> <<>>, tasks |-> <<>>, cooldown |-> {}]

----------------------------------------------------------------------------
\* stop_punch_workflow_key, for every key of a set.
StopKeys(p, keys) ==
    LET told == {p.stops[k] : k \in keys \cap DOMAIN p.stops}
    IN  [p EXCEPT !.stops = [k \in DOMAIN @ \ keys |-> @[k]],
                  !.tasks = [id \in DOMAIN @ \ told |-> @[id]]]

FreeIds(p) == TaskIds \ DOMAIN p.tasks
Put(f, k, v) == [x \in DOMAIN f \cup {k} |-> IF x = k THEN v ELSE f[x]]

\* Mutant: the task already running under the key is not told to stop.
SpawnBeside(p, key, bases) ==
    IF bases = <<>> THEN p
    ELSE LET id == CHOOSE i \in FreeIds(p) : TRUE
         IN  [p EXCEPT !.stops = Put(@, key, id),
                       !.tasks = Put(@, id, [key |-> key, bases |-> bases])]

\* spawn_punch_workflow and spawn_decentralized_punch_pass.
Spawn(p, key, bases) ==
    IF bases = <<>> THEN p
    ELSE LET q == StopKeys(p, {key})
             id == CHOOSE i \in FreeIds(q) : TRUE
         IN  [q EXCEPT !.stops = Put(@, key, id),
                       !.tasks = Put(@, id, [key |-> key, bases |-> bases])]

\* spawn_peer_reconnect_workflow: a key that is not stored yet needs room among
\* the reconnect keys, and no key is punched again during its cooldown.
SpawnReconnect(p, name, bases) ==
    LET key == Reconnect(name)
        keys == {k \in DOMAIN p.stops : IsReconnect(k)}
    IN  IF \/ bases = <<>>
           \/ key \notin keys /\ Cardinality(keys) >= MaxReconnectKeys
           \/ key \in p.cooldown
        THEN p
        ELSE [Spawn(p, key, bases) EXCEPT !.cooldown = @ \cup {key}]

\* stop_decentralized_discovery.
StopDiscoveryPunches(p) ==
    [StopKeys(p, {k \in DOMAIN p.stops : IsReconnect(k) \/ k \in {Overlay, Pass}})
        EXCEPT !.cooldown = {}]

\* stop_background_loops.
StopAllPunches(p) == StopKeys(p, DOMAIN p.stops)

\* A task ends, after its last stage; a reconnect key stays.
TaskEnds(p, id) ==
    LET key == p.tasks[id].key
        rest == [p EXCEPT !.tasks = [i \in DOMAIN @ \ {id} |-> @[i]]]
    IN  IF IsReconnect(key) THEN [rest EXCEPT !.stops[key] = Ended]
        ELSE [rest EXCEPT !.stops = [k \in DOMAIN @ \ {key} |-> @[k]]]

----------------------------------------------------------------------------
\* build_symmetric_punch_targets: width ports around the port, from PortMin on.
Symmetric(ep, width) ==
    LET scan == Max({width, 1})
        from == Max({ep[2] - scan \div 2, PortMin})
        to == Min({from + scan - 1, PortMax})
    IN  [i \in 1..Max({0, to - from + 1}) |-> <<ep[1], from + i - 1>>]

\* expand_symmetric_targets, expand_intensity_symmetric: the exact endpoints
\* first, then the ports around each, without repetition, up to a total.
PushNew(seq, ep, total) == IF Contains(seq, ep) \/ Len(seq) >= total THEN seq ELSE Append(seq, ep)
PushAll(seq, eps, total) == FoldLeft(LAMBDA s, ep : PushNew(s, ep, total), seq, eps)
Expand(bases, width, total) ==
    FoldLeft(LAMBDA s, ep : PushAll(s, Symmetric(ep, width), total), PushAll(<<>>, bases, total), bases)

\* join_wide_per_peer_width and canonical_stage2_targets.
WideWidth(n) ==
    LET w == Max({MaxExpanded, 1}) \div Max({n, 1})
    IN  Min({Max({w, MinWidth, 1}), Max({MaxWidth, MinWidth, 1})})
Stage2(bases) == IF bases = <<>> THEN <<>> ELSE Expand(bases, WideWidth(Len(bases)), MaxExpanded)

\* canonical_covered_after_stage2 and build_random_residual_targets: any ports
\* of the same hosts that no earlier stage has tried.
Covered(bases) == ToSet(bases) \cup ToSet(Stage2(bases))
Residual(bases) == ({ep[1] : ep \in ToSet(bases)} \X (PortMin..PortMax)) \ Covered(bases)

\* run_canonical_punch_workflow: the bases, the scan around them, and random
\* ports that neither has tried.  The pass of a tick sends to its bases only.
TaskTargets(t) ==
    IF t.key = Pass THEN ToSet(t.bases) ELSE Covered(t.bases) \cup Residual(t.bases)
============================================================================
