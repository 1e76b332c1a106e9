----------------------------- MODULE Trackers ------------------------------
(***************************************************************************)
(* DecentralizedState (net/decentralized.rs): what a unit member knows of  *)
(* the public trackers it announces itself to, as a record d:              *)
(*                                                                         *)
(*   active          discovery runs                                        *)
(*   room            room_id: the unit whose members are looked for        *)
(*   joiner          is_joiner; a joiner's join_body is Some               *)
(*   answered        had_join_announce_response                            *)
(*   slots           one record per tracker: its url, the addrs it has     *)
(*                   resolved to and the one in use (use_idx + 1), whether *)
(*                   announce_due holds, resolve_in_flight, http_in_flight *)
(*   pending         requests that wait for a datagram                     *)
(*   conns           addresses with a connection id that has not expired   *)
(*   found           discovered, newest first                              *)
(*                                                                         *)
(* An endpoint is <<host, port>>.  Instants are left out: due turns TRUE   *)
(* and a connection goes when time passes, and what a tick sweeps as older *)
(* than its TTL is a choice of the tick.  A transaction id is random, so a *)
(* reply matches the request it answers and no other; a pending request    *)
(* records in its place the room it was made for.  Of the generation that  *)
(* start and stop advance, an HTTP job has field now: whether it is of the *)
(* current one.                                                            *)
(***************************************************************************)
EXTENDS Integers, FiniteSets, SequencesExt

CONSTANTS Addrs,          \* socket addresses of UDP trackers
          Scheme,         \* tracker url -> "udp", "http", "https"
          Rooms,          \* room ids
          MaxTrackers,    \* MAX_ACTIVE_TRACKERS
          MaxHttp,        \* MAX_HTTP_IN_FLIGHT
          MaxFound,       \* MAX_DISCOVERED
          MaxTargets,     \* MAX_PUNCH_TARGETS
          MaxFanout       \* MAX_FANOUT_MPJN_PER_TICK

NoRoom == "no room"
NoEvent == [some |-> FALSE]
Announce(peers, first) == [some |-> TRUE, peers |-> peers, first |-> first]
FirstN(s, n) == SubSeq(s, 1, Min({Len(s), n}))

Slot(url) == [url |-> url, addrs |-> <<>>, use |-> 1, due |-> TRUE,
              resolving |-> FALSE, http |-> FALSE]

IdleState ==
    [active |-> FALSE, room |-> NoRoom, joiner |-> FALSE,
     answered |-> FALSE, slots |-> <<>>, pending |-> {},
     conns |-> {}, found |-> <<>>]

\* start; stop leaves IdleState.
Start(room, urls, joiner) ==
    [IdleState EXCEPT
        !.active = TRUE, !.room = room, !.joiner = joiner,
        !.slots = [i \in 1..Min({Len(urls), MaxTrackers}) |-> Slot(urls[i])]]

\* A generation is over: what its HTTP announces bring is of no use any more.
Outdated(jobs) ==
    {IF j.kind = "http" THEN [j EXCEPT !.now = FALSE, !.late = TRUE] ELSE j : j \in jobs}

IsUdp(s) == Scheme[s.url] = "udp"
IsHttp(s) == Scheme[s.url] = "http"
HasAddr(s) == s.addrs # <<>>
CurrentAddr(s) == s.addrs[s.use]
RotateAddr(s) == IF HasAddr(s) THEN [s EXCEPT !.use = (@ % Len(s.addrs)) + 1] ELSE s

----------------------------------------------------------------------------
\* take_pending_resolves: the slots whose host is looked up now.
ResolveSlots(d) ==
    {i \in DOMAIN d.slots : d.active /\ IsUdp(d.slots[i])
                             /\ ~HasAddr(d.slots[i]) /\ ~d.slots[i].resolving}
TakeResolves(d) ==
    [d EXCEPT !.slots = [i \in DOMAIN d.slots |->
        [d.slots[i] EXCEPT !.resolving = @ \/ i \in ResolveSlots(d)]]]

\* take_pending_http_announces, after sweep_expired_http_inflight: the due slots
\* in order while fewer than MAX_HTTP_IN_FLIGHT announces are in flight.
SweepHttp(d) == [d EXCEPT !.slots = [i \in DOMAIN @ |-> [@[i] EXCEPT !.http = FALSE]]]
HttpSlots(d) ==
    LET busy == Cardinality({i \in DOMAIN d.slots : d.slots[i].http})
        due == {i \in DOMAIN d.slots : IsHttp(d.slots[i]) /\ ~d.slots[i].http /\ d.slots[i].due}
    IN  {i \in due : busy + Cardinality({j \in due : j < i}) < MaxHttp}
TakeHttp(d) ==
    LET now == HttpSlots(d)
    IN  [d EXCEPT !.slots = [i \in DOMAIN @ |-> [@[i] EXCEPT !.http = @ \/ i \in now]]]

----------------------------------------------------------------------------
\* note_discovered for every endpoint of an announce, in order.
NoteDiscovered(found, peers) ==
    FoldLeft(LAMBDA f, ep : <<ep>> \o SelectSeq(f, LAMBDA e : e # ep), found, peers)

\* The end of an accepted announce, over UDP or HTTP: last_announce is set.
Announced(d, i, peers) ==
    [d EXCEPT !.slots = [j \in DOMAIN d.slots |->
                            IF j = i THEN [d.slots[j] EXCEPT !.due = FALSE] ELSE d.slots[j]],
              !.found = NoteDiscovered(@, peers),
              !.answered = @ \/ d.joiner]
AnnounceEvent(d, peers) == Announce(peers, d.joiner /\ ~d.answered)

\* Mutant: the result of an announce is applied whatever generation it is of.
ApplyHttpAnyGeneration(d, job, ok, peers) ==
    IF ~d.active \/ job.slot \notin DOMAIN d.slots
    THEN [d |-> d, event |-> NoEvent]
    ELSE LET idle == [d EXCEPT !.slots[job.slot].http = FALSE]
         IN  IF ok THEN [d |-> Announced(idle, job.slot, peers), event |-> AnnounceEvent(d, peers)]
                   ELSE [d |-> idle, event |-> NoEvent]

\* apply_http_announce_result.
ApplyHttp(d, job, ok, peers) ==
    IF ~d.active \/ ~job.now \/ job.slot \notin DOMAIN d.slots
    THEN [d |-> d, event |-> NoEvent]
    ELSE LET idle == [d EXCEPT !.slots[job.slot].http = FALSE]
         IN  IF ok THEN [d |-> Announced(idle, job.slot, peers), event |-> AnnounceEvent(d, peers)]
                   ELSE [d |-> idle, event |-> NoEvent]

\* Mutant: a lookup that found nothing leaves the slot marked as resolving.
ResolvedKeepsFlag(d, i, addrs) ==
    IF i \notin DOMAIN d.slots \/ addrs = <<>> THEN d
    ELSE [d EXCEPT !.slots[i].addrs = @ \o SelectSeq(addrs, LAMBDA a : ~Contains(d.slots[i].addrs, a)),
                   !.slots[i].resolving = FALSE]

\* add_resolved_addrs and clear_resolve_in_flight: no generation is compared.
Resolved(d, i, addrs) ==
    IF i \notin DOMAIN d.slots THEN d
    ELSE [d EXCEPT !.slots[i].addrs = @ \o SelectSeq(addrs, LAMBDA a : ~Contains(d.slots[i].addrs, a)),
                   !.slots[i].resolving = FALSE]

----------------------------------------------------------------------------
\* handle_datagram: the reply to a pending request, from its tracker (one with
\* an unknown transaction, or from elsewhere, changes nothing).  kind is what
\* the bytes parse as; an announce counts for the first slot with the address.
SlotOf(d, a) == {i \in DOMAIN d.slots : Contains(d.slots[i].addrs, a)
                    /\ \A j \in 1..(i - 1) : ~Contains(d.slots[j].addrs, a)}
Datagram(d, op, kind, peers) ==
    LET taken == [d EXCEPT !.pending = @ \ {op}]
        at == SlotOf(d, op.to)
    IN  CASE op.kind # kind -> [d |-> taken, event |-> NoEvent]
          [] kind = "connect" -> [d |-> [taken EXCEPT !.conns = @ \cup {op.to}], event |-> NoEvent]
          [] kind = "announce" ->
                [d |-> Announced(taken, IF at = {} THEN 0 ELSE CHOOSE i \in at : TRUE, peers),
                 event |-> AnnounceEvent(d, peers)]

----------------------------------------------------------------------------
\* tick_tracker_slot.  One request of a kind is pending per address; a failed
\* send takes it back, drops the connection of an announce and rotates to the
\* next address.
Request(d, i, kind, fails) ==
    LET a == CurrentAddr(d.slots[i])
        op == [kind |-> kind, to |-> a, room |-> d.room]
    IN  IF op \in d.pending THEN d
        ELSE IF ~fails THEN [d EXCEPT !.pending = @ \cup {op}]
        ELSE [d EXCEPT !.slots[i] = RotateAddr(@), !.conns = IF kind = "announce" THEN @ \ {a} ELSE @]
TickSlot(d, i, fails) ==
    LET s == d.slots[i]
    IN  IF ~IsUdp(s) \/ ~HasAddr(s) \/ ~s.due THEN d
        ELSE Request(d, i, IF CurrentAddr(s) \in d.conns THEN "announce" ELSE "connect", fails)
TickSlots(d, fails) ==
    FoldLeft(LAMBDA s, i : TickSlot(s, i, i \in fails), d, [i \in DOMAIN d.slots |-> i])

\* sweep_expired_pending, when PENDING_TTL has passed since the requests.
SweepPending(d) == [d EXCEPT !.pending = {}]

\* prune_discovered and exact_targets: newest first, without the own endpoint.
Prune(d) == [d EXCEPT !.found = FirstN(@, MaxFound)]
ExactTargets(d, self) == FirstN(SelectSeq(Prune(d).found, LAMBDA ep : ep # self), MaxTargets)

\* The endpoints tick sends the join body to.
JoinFanout(d, exact, waiting) == IF d.joiner /\ waiting THEN ToSet(FirstN(exact, MaxFanout)) ELSE {}
============================================================================
