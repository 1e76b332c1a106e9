----------------------------- MODULE Discovery -----------------------------
(***************************************************************************)
(* Finding and joining a unit: the engine's tracker discovery, hole-punch  *)
(* workflows, STUN query and join handshake (net/engine.rs), and the CLI   *)
(* commands that drive them through the command channel (cli.rs).          *)
(*                                                                         *)
(* The engine is one task: a handler runs to its end, and commands, tracker*)
(* datagrams, job results, acks and ticks come in any order.  The CLI runs *)
(* one command at a time, under its mutex, and waits for one answer.  The  *)
(* engine handles a command well within the CLI's deadlines of seconds;    *)
(* only the 500 ms of query_discovered_count may pass first.               *)
(*                                                                         *)
(*   d, p     tracker state and punch tasks (Trackers, Punching)           *)
(*   stun     the query and the cached endpoint.  Only the CLI asks, and   *)
(*            it waits for the answer, so there is one query at most; its  *)
(*            resolver task is done in 800 ms, before any deadline, so     *)
(*            active_stun_query_ids holds its id as long as it is pending  *)
(*   eng      network key, join_tx, pending_join_ack, whether the last     *)
(*            PrepareJoin is less than 200 ms old, join_overlay_last_peers *)
(*   route    per peer endpoint: its route in the table                    *)
(*   jobs     spawned lookups and HTTP announces; late: the slot no longer *)
(*            counts it as in flight                                       *)
(*   asked    members that were sent an MPJN and may answer with an MPJA   *)
(*   cmds     the command channel                                          *)
(*   cli      the command under way: op, pc, room, attempts, the oneshot   *)
(*            tx it waits on and what it got; the saved room and trackers  *)
(***************************************************************************)
EXTENDS Trackers, Punching

CONSTANTS Members,        \* room -> the endpoints of its members
          Lists,          \* room -> the peer lists its trackers may return
          Mapped,         \* endpoints the STUN servers may see us at
          Resolves,       \* udp tracker url -> what its host resolves to
          MaxServers,     \* addresses the STUN servers resolve to
          DefaultTrackers,
          TxIds,          \* oneshot channels
          MaxAttempts,    \* attempts of a join by address
          MaxPolls,       \* polls for a pending ack after the deadline
          Scripts         \* bound: [urls: the trackers of the saved config,
                          \*         ops: the commands a user gives, as <<op, room>>]

VARIABLES d, p, stun, eng, route, jobs, asked, cmds, cli
vars == <<d, p, stun, eng, route, jobs, asked, cmds, cli>>

Peers == UNION {Members[r] : r \in Rooms}
NoEp == <<"none", 0>>
NoTx == 0
NoQuery == [phase |-> "none"]

Init ==
    /\ d = IdleState
    /\ p = NoPunches
    /\ stun = [query |-> NoQuery, cached |-> NoEp]
    /\ eng = [key |-> NoRoom, joinTx |-> NoTx, ack |-> FALSE, soon |-> FALSE, seen |-> {}]
    /\ route = [ep \in Peers |-> "none"]
    /\ jobs = {} /\ asked = {} /\ cmds = <<>>
    /\ \E script \in Scripts :
       cli = [op |-> "none", pc |-> "idle", room |-> NoRoom, n |-> 0, tx |-> NoTx, got |-> "wait",
              home |-> NoRoom, urls |-> script.urls, left |-> script.ops]

\* oneshot::Sender::send: lost unless the CLI still waits on that channel.
Answered(c, tx, v) == IF tx # NoTx /\ c.tx = tx THEN [c EXCEPT !.got = v] ELSE c
FreshTx == CHOOSE t \in TxIds : t \notin {eng.joinTx, cli.tx} /\ \A i \in DOMAIN cmds : cmds[i].tx # t

----------------------------------------------------------------------------
(* Punches that the engine starts on its own.                              *)

\* filter_decentralized_punch_targets.
NotActive(eps) == SelectSeq(eps, LAMBDA ep : ep \notin Peers \/ route[ep] # "active")

\* spawn_decentralized_join_punch.
JoinPunch(q, dd, joinTx) ==
    IF joinTx = NoTx \/ ~dd.joiner THEN q
    ELSE Spawn(q, Overlay, NotActive(ExactTargets(dd, stun.cached)))

\* try_peer_reconnect_from_announce: one workflow per known peer whose route
\* needs work and one for the endpoints of unknown hosts.
HasPeerRoute == \E ep \in Peers : route[ep] # "none"
Bound(ep) == Cardinality({q \in Peers : q[1] = ep[1] /\ route[q] # "none"}) = 1
NeedsWork(ep) == ep \notin Peers \/ route[ep] # "active"
ReconnectAll(q, peers) ==
    LET work == SelectSeq(peers, NeedsWork)
        hosts == SetToSeq({ep[1] : ep \in {e \in ToSet(work) : Bound(e)}})
        of(h) == SelectSeq(work, LAMBDA ep : Bound(ep) /\ ep[1] = h)
        bound == FoldLeft(LAMBDA r, h : SpawnReconnect(r, h, of(h)), q, hosts)
    IN  SpawnReconnect(bound, "unbound", SelectSeq(work, LAMBDA ep : ~Bound(ep)))

\* on_decentralized_tracker_event.  A joiner that waits punches whatever is
\* new to it; anybody else reconnects to the peers it has lost.
TrackerEvent(res) ==
    LET e == res.event
        joining == eng.joinTx # NoTx /\ res.d.joiner
        material == e.first \/ \E i \in DOMAIN e.peers : e.peers[i] \notin eng.seen
    IN  /\ d' = IF e.some /\ joining /\ material THEN Prune(res.d) ELSE res.d
        /\ p' = CASE ~e.some -> p
                  [] joining -> IF material THEN JoinPunch(p, res.d, eng.joinTx) ELSE p
                  [] eng.joinTx # NoTx \/ ~HasPeerRoute \/ eng.key = NoRoom -> p
                  [] OTHER -> ReconnectAll(p, e.peers)
        /\ eng' = IF e.some /\ joining THEN [eng EXCEPT !.seen = @ \cup ToSet(e.peers)] ELSE eng

----------------------------------------------------------------------------
(* Commands.  A handler takes the head of the channel.                     *)

Cmd(op) == [op |-> op, tx |-> NoTx]
Ask(op, tx) == [op |-> op, tx |-> tx]
Send(seq) == cmds' = cmds \o seq
Taken == cmds # <<>> /\ cmds' = Tail(cmds)
Taking(op) == Taken /\ Head(cmds).op = op
DropJoin(e) == [e EXCEPT !.joinTx = NoTx, !.ack = FALSE, !.seen = {}]

SetCryptoKey ==
    /\ Taking("key")
    /\ eng' = [eng EXCEPT !.key = Head(cmds).room]
    /\ UNCHANGED <<d, p, stun, route, jobs, asked, cli>>

StartDecentralized ==
    /\ Taking("start")
    /\ d' = Start(Head(cmds).room, Head(cmds).urls, Head(cmds).joiner)
    /\ jobs' = Outdated(jobs)
    /\ p' = StopKeys(p, {Pass})
    /\ UNCHANGED <<stun, eng, route, asked, cli>>

\* Within 200 ms of the last one the handler answers None; otherwise the
\* waiter of an earlier attempt gets None and the MPJN goes to the target.
PrepareJoin ==
    LET c == Head(cmds)
    IN  /\ Taking("prepare")
        /\ IF eng.soon
           THEN cli' = Answered(cli, c.tx, "none") /\ UNCHANGED <<d, p, eng, asked>>
           ELSE /\ cli' = Answered(cli, eng.joinTx, "none")
                /\ eng' = [eng EXCEPT !.soon = TRUE, !.joinTx = c.tx, !.key = c.room]
                /\ asked' = IF c.target = NoEp THEN asked
                            ELSE asked \cup {[ep |-> c.target, room |-> c.room]}
                /\ d' = IF d.joiner THEN Prune(d) ELSE d
                /\ p' = JoinPunch(p, d, c.tx)
        /\ UNCHANGED <<stun, route, jobs>>

PunchCommand ==
    LET c == Head(cmds)
    IN  /\ \/ Taking("punch") /\ p' = Spawn(p, c.key, <<c.target>>)
           \/ Taking("stop punch") /\ p' = StopKeys(p, {c.key})
        /\ UNCHANGED <<d, stun, eng, route, jobs, asked, cli>>

\* stop_decentralized_discovery.
StopDiscovery == d' = IdleState /\ jobs' = Outdated(jobs) /\ p' = StopDiscoveryPunches(p)

CancelJoinWait ==
    /\ Taking("cancel")
    /\ cli' = Answered(cli, eng.joinTx, "none")
    /\ eng' = DropJoin(eng)
    /\ StopDiscovery
    /\ UNCHANGED <<stun, route, asked>>

TakePendingJoinAck ==
    /\ Taking("take")
    /\ cli' = Answered(cli, Head(cmds).tx, IF eng.ack THEN "ack" ELSE "none")
    /\ eng' = [eng EXCEPT !.ack = FALSE]
    /\ UNCHANGED <<d, p, stun, route, jobs, asked>>

QueryDiscoveredCount ==
    /\ Taking("count")
    /\ cli' = Answered(cli, Head(cmds).tx, IF d.found = <<>> THEN "zero" ELSE "some")
    /\ UNCHANGED <<d, p, stun, eng, route, jobs, asked>>

\* reset_session_state: discovery, join wait, every punch, key and routes.
ResetSession ==
    /\ Taking("reset")
    /\ cli' = Answered(Answered(cli, eng.joinTx, "none"), Head(cmds).tx, "done")
    /\ eng' = [DropJoin(eng) EXCEPT !.key = NoRoom]
    /\ d' = IdleState /\ jobs' = Outdated(jobs)
    /\ p' = StopAllPunches(StopDiscoveryPunches(p))
    /\ route' = [ep \in Peers |-> "none"]
    /\ UNCHANGED <<stun, asked>>

\* QueryPublicEndpoint: the cached endpoint unless its TTL has passed, else a
\* query of its own and a task that resolves the servers and sends requests.
QueryPublicEndpoint ==
    LET c == Head(cmds)
        query == [phase |-> "lookup", tx |-> c.tx, left |-> 0, early |-> <<>>, votes |-> [ep \in Mapped |-> 0]]
    IN  /\ Taking("stun")
        /\ \/ stun.cached # NoEp /\ cli' = Answered(cli, c.tx, "ep") /\ UNCHANGED stun
           \/ stun' = [stun EXCEPT !.query = query] /\ UNCHANGED cli
        /\ UNCHANGED <<d, p, eng, route, jobs, asked>>

HandleCmd ==
    \/ SetCryptoKey \/ StartDecentralized \/ PrepareJoin \/ PunchCommand \/ CancelJoinWait
    \/ TakePendingJoinAck \/ QueryDiscoveredCount \/ ResetSession \/ QueryPublicEndpoint
----------------------------------------------------------------------------
(* The STUN query.                                                         *)

\* The resolver sends a request to each address it resolved, then reports.
StunSends ==
    /\ stun.query.phase = "lookup"
    /\ \E n \in 0..MaxServers :
          stun' = [stun EXCEPT !.query.phase = IF n = 0 THEN "failed" ELSE "sent", !.query.left = n]
    /\ UNCHANGED <<d, p, eng, route, jobs, asked, cmds, cli>>

\* Two votes for an endpoint settle the query; the query is gone afterwards.
Settle(s, ep) == [s EXCEPT !.query = NoQuery, !.cached = ep]
Vote(votes, ep) == [votes EXCEPT ![ep] = @ + 1]

\* handle_stun_resolve_result: the responses that came early are counted now.
StunResolved ==
    LET q == stun.query
        votes == FoldLeft(Vote, q.votes, q.early)
        won == {ep \in Mapped : votes[ep] >= 2}
    IN  /\ q.phase \in {"sent", "failed"}
        /\ IF q.phase = "failed" THEN stun' = [stun EXCEPT !.query = NoQuery] /\ cli' = Answered(cli, q.tx, "none")
           ELSE IF won # {} THEN /\ stun' = Settle(stun, CHOOSE ep \in won : TRUE)
                                 /\ cli' = Answered(cli, q.tx, "ep")
           ELSE /\ stun' = [stun EXCEPT !.query.phase = "known", !.query.early = <<>>, !.query.votes = votes]
                /\ UNCHANGED cli
        /\ UNCHANGED <<d, p, eng, route, jobs, asked, cmds>>

\* handle_stun_datagram.
StunResponse(ep) ==
    LET q == stun.query
        s == [stun EXCEPT !.query.left = @ - 1]
        votes == Vote(q.votes, ep)
    IN  /\ q # NoQuery /\ q.left > 0
        /\ IF q.phase = "sent" THEN stun' = [s EXCEPT !.query.early = Append(@, ep)] /\ UNCHANGED cli
           ELSE IF votes[ep] >= 2 THEN stun' = Settle(s, ep) /\ cli' = Answered(cli, q.tx, "ep")
           ELSE stun' = [s EXCEPT !.query.votes = votes] /\ UNCHANGED cli
        /\ UNCHANGED <<d, p, eng, route, jobs, asked, cmds>>

\* Mutant: a query that got no response is dropped without an answer.
StunDeadlineSilent ==
    LET q == stun.query
        best == {ep \in Mapped : q.votes[ep] > 0 /\ \A o \in Mapped : q.votes[o] <= q.votes[ep]}
    IN  /\ q.phase = "known"
        /\ IF best = {} THEN stun' = [stun EXCEPT !.query = NoQuery] /\ UNCHANGED cli
           ELSE \E ep \in best : stun' = Settle(stun, ep) /\ cli' = Answered(cli, q.tx, "ep")
        /\ UNCHANGED <<d, p, eng, route, jobs, asked, cmds>>

\* poll_stun_query at the deadline: the endpoint with the most votes, if any.
StunDeadline ==
    LET q == stun.query
        best == {ep \in Mapped : q.votes[ep] > 0 /\ \A o \in Mapped : q.votes[o] <= q.votes[ep]}
    IN  /\ q.phase = "known"
        /\ IF best = {} THEN stun' = [stun EXCEPT !.query = NoQuery] /\ cli' = Answered(cli, q.tx, "none")
           ELSE \E ep \in best : stun' = Settle(stun, ep) /\ cli' = Answered(cli, q.tx, "ep")
        /\ UNCHANGED <<d, p, eng, route, jobs, asked, cmds>>

----------------------------------------------------------------------------
(* Tracker traffic.                                                        *)

Swept(aged) ==
    CASE aged = "none" -> d
      [] aged = "requests" -> SweepHttp(SweepPending(d))
      [] aged = "all" -> [SweepHttp(SweepPending(d)) EXCEPT !.found = <<>>]
Late == {IF j.kind = "http" THEN [j EXCEPT !.late = TRUE] ELSE j : j \in jobs}
Lookups == {[kind |-> "lookup", slot |-> i, url |-> d.slots[i].url] : i \in ResolveSlots(d)}
Announces(kept) ==
    {[kind |-> "http", slot |-> i, room |-> d.room, now |-> TRUE, late |-> FALSE] : i \in HttpSlots(kept)}

\* The tick may fail to send to some trackers, and sweeps what has outlived its
\* TTL: requests, and with more time the discovered too.
TickTrackers(fails, aged) ==
    /\ d.active
    /\ \E kept \in {Swept(aged)} : \E taken \in {TakeHttp(TakeResolves(kept))} :
        /\ d' = Prune(TickSlots(taken, fails))
        /\ jobs' = (IF aged = "none" THEN jobs ELSE Late) \cup Lookups \cup Announces(kept)

\* run_decentralized_tick.
Tick(fails, aged) ==
    /\ TickTrackers(fails, aged)
    /\ \E exact \in {ExactTargets(d', stun.cached)} :
        /\ asked' = asked \cup {[ep |-> ep, room |-> eng.key] :
                                 ep \in JoinFanout(d', exact, eng.joinTx # NoTx) \cap Peers}
        /\ p' = IF eng.joinTx # NoTx THEN p
                ELSE Spawn(p, Pass, NotActive(Expand(exact, ScanWidth, MaxExpanded)))
    /\ UNCHANGED <<stun, eng, route, cmds, cli>>

\* A lookup ends, with what the host resolves to or with nothing.
LookupDone(j, ok) ==
    /\ j.kind = "lookup"
    /\ jobs' = jobs \ {j}
    /\ d' = Resolved(d, j.slot, IF ok THEN Resolves[j.url] ELSE <<>>)
    /\ UNCHANGED <<p, stun, eng, route, asked, cmds, cli>>

\* An HTTP announce ends, in success or in an error.
HttpDone(j, ok) ==
    /\ j.kind = "http"
    /\ jobs' = jobs \ {j}
    /\ \E peers \in IF ok THEN Lists[j.room] ELSE {<<>>} :
          \E res \in {ApplyHttp(d, j, ok, peers)} : TrackerEvent(res)
    /\ UNCHANGED <<stun, route, asked, cmds, cli>>

\* A tracker replies.
Reply(op, kind) ==
    /\ \E peers \in IF kind = "announce" THEN Lists[op.room] ELSE {<<>>} :
          \E res \in {Datagram(d, op, kind, peers)} : TrackerEvent(res)
    /\ UNCHANGED <<stun, route, jobs, asked, cmds, cli>>

----------------------------------------------------------------------------
\* An MPJA (PKT_JACK) signed with the key of a.room, from a member that was
\* asked.  try_deliver_join_ack takes join_tx even when nobody waits on it;
\* then only a joiner keeps the ack, for TakePendingJoinAck.
JoinAck(a) ==
    LET waiting == eng.joinTx # NoTx
        delivered == waiting /\ cli.tx = eng.joinTx
        finished == [eng EXCEPT !.joinTx = NoTx, !.seen = {}, !.ack = @ \/ ~delivered]
    IN  /\ a.ep \in Peers
        /\ IF eng.key # a.room THEN UNCHANGED <<d, p, eng, route, cli>>
           ELSE /\ route' = [route EXCEPT ![a.ep] = "active"]
                /\ IF ~waiting /\ ~d.joiner THEN UNCHANGED <<d, p, eng, cli>>
                   ELSE IF ~delivered /\ ~d.joiner
                   THEN eng' = [eng EXCEPT !.joinTx = NoTx] /\ UNCHANGED <<d, p, cli>>
                   ELSE /\ eng' = finished
                        /\ d' = [d EXCEPT !.joiner = FALSE]
                        /\ p' = StopKeys(p, {Overlay})
                        /\ cli' = IF delivered THEN Answered(cli, eng.joinTx, "ack") ELSE cli
        /\ UNCHANGED <<stun, jobs, asked, cmds>>

PunchStep ==
    /\ \E id \in DOMAIN p.tasks : p' = TaskEnds(p, id)
    /\ UNCHANGED <<d, stun, eng, route, jobs, asked, cmds, cli>>

----------------------------------------------------------------------------
(* Time.                                                                   *)

\* An announce interval passes, and with it a connection's lifetime.  It begins
\* with an announce, and ticks enough fall into it that none is left to be sent.
IntervalPasses ==
    /\ \E i \in DOMAIN d.slots : ~d.slots[i].due
    /\ \A i \in DOMAIN d.slots : LET s == d.slots[i] IN
          IsUdp(s) /\ HasAddr(s) /\ s.due /\ CurrentAddr(s) \in d.conns
              => \E op \in d.pending : op.to = CurrentAddr(s) /\ op.kind = "announce"
    /\ d' = [d EXCEPT !.slots = [i \in DOMAIN @ |-> [@[i] EXCEPT !.due = TRUE]], !.conns = {}]
    /\ p' = [p EXCEPT !.cooldown = {}]
    /\ eng' = [eng EXCEPT !.soon = FALSE]
    /\ UNCHANGED <<stun, route, jobs, asked, cmds, cli>>

ThrottleEnds ==
    /\ eng' = [eng EXCEPT !.soon = FALSE]
    /\ UNCHANGED <<d, p, stun, route, jobs, asked, cmds, cli>>

\* mark_stale_if_idle.
RouteIdles(ep) ==
    /\ route[ep] = "active" /\ route' = [route EXCEPT ![ep] = "stale"]
    /\ UNCHANGED <<d, p, stun, eng, jobs, asked, cmds, cli>>

----------------------------------------------------------------------------
(* The CLI.                                                                *)

Discover(room, joiner) ==
    [op |-> "start", tx |-> NoTx, room |-> room, urls |-> cli.urls, joiner |-> joiner]
Key(room) == [op |-> "key", tx |-> NoTx, room |-> room]
Prepare(tx, room, target) == [op |-> "prepare", tx |-> tx, room |-> room, target |-> target]
Punch(key, target) == [op |-> "punch", tx |-> NoTx, key |-> key, target |-> target]
StopPunch(key) == [op |-> "stop punch", tx |-> NoTx, key |-> key]

Idle(c) == [c EXCEPT !.pc = "idle", !.op = "none", !.room = NoRoom, !.n = 0, !.tx = NoTx, !.got = "wait"]
Await(c, pc, tx) == [c EXCEPT !.pc = pc, !.tx = tx, !.got = "wait"]
Spend == [cli EXCEPT !.left = Tail(@)]
CliOnly == UNCHANGED <<d, p, stun, eng, route, jobs, asked>>
Target(room) == CHOOSE ep \in Members[room] : TRUE

\* query_public_endpoint_from_engine.
AskEndpoint(op, room) ==
    /\ cli' = [Await(Spend, "stun", FreshTx) EXCEPT !.op = op, !.room = room]
    /\ Send(<<Ask("stun", FreshTx)>>)

\* create_network_with_params, up to the public endpoint.
BeginCreate(op, room) == op = "create" /\ room \in Rooms /\ AskEndpoint(op, room)

\* handle_join_decentralized begins with the public endpoint.
BeginJoin(op, room) == op = "join" /\ room \in Rooms /\ AskEndpoint(op, room)

\* The first attempt of handle_join, up to its wait.
Attempt(c) ==
    /\ cli' = [Await(c, "wait", FreshTx) EXCEPT !.n = 1]
    /\ Send(<<Punch(Handshake, Target(c.room)), Prepare(FreshTx, c.room, Target(c.room))>>)

\* handle_join in public mode asks for the public endpoint, in LAN mode it does not.
BeginManual(op, room) ==
    /\ op = "manual" /\ room \in Rooms
    /\ \/ AskEndpoint(op, room)
       \/ Attempt([Spend EXCEPT !.op = op, !.room = room])

\* assist_lan_member: re-key, punch on the LAN, then ask the member found there.
BeginAssist(op, room) ==
    /\ op = "assist" /\ room = cli.home /\ room # NoRoom
    /\ cli' = [Spend EXCEPT !.pc = "lan", !.op = op, !.room = room]
    /\ Send(<<Key(room), Punch(Lan, Target(room))>>)

\* handle_punch: sync_engine_from_saved_profile restarts discovery first.
BeginPunch(op, room) ==
    /\ op = "punch" /\ room = cli.home /\ room # NoRoom
    /\ cli' = Spend
    /\ Send(<<Key(room), Discover(room, FALSE), Punch(UserPunch, Target(room))>>)

\* handle_remove.
BeginRemove(op, room) ==
    /\ op = "remove"
    /\ cli' = [Await(Spend, "reset", FreshTx) EXCEPT !.op = op]
    /\ Send(<<Ask("reset", FreshTx)>>)

Begin(op, room) ==
    /\ cli.pc = "idle" /\ cli.left # <<>> /\ <<op, room>> = Head(cli.left)
    /\ \/ BeginCreate(op, room) \/ BeginJoin(op, room)
       \/ BeginManual(op, room) \/ BeginAssist(op, room)
       \/ BeginPunch(op, room) \/ BeginRemove(op, room)
    /\ CliOnly

\* The answer of QueryPublicEndpoint, which may be None, is awaited without a
\* deadline of the CLI's own.
HasAnswer(op) == cli.pc = "stun" /\ cli.op = op /\ cli.got # "wait"

\* create_network_with_params saves the unit first; without an adapter it ends
\* there, with an error.
Create ==
    /\ HasAnswer("create")
    /\ cli' = [Idle(cli) EXCEPT !.home = cli.room]
    /\ \/ Send(<<Key(cli.room), Discover(cli.room, FALSE)>>)
       \/ UNCHANGED cmds
    /\ CliOnly

\* handle_join_decentralized, up to the wait.
JoinDecentralized ==
    /\ HasAnswer("join")
    /\ cli' = Await(cli, "wait", FreshTx)
    /\ Send(<<Key(cli.room), Discover(cli.room, TRUE), Prepare(FreshTx, cli.room, NoEp)>>)
    /\ CliOnly

\* handle_join once it has its answer.
JoinByAddress ==
    /\ HasAnswer("manual")
    /\ Attempt(cli)
    /\ CliOnly

\* wait_for_lan_punch_ready: a route that has stayed for a while, or the deadline;
\* never before the engine has the punch.
LanPunchOver == cli.pc = "lan" /\ cmds = <<>>

\* run_lan_punch returns.
AfterLanPunch ==
    /\ LanPunchOver
    /\ cli' = Await(cli, "wait", FreshTx)
    /\ Send(<<StopPunch(Lan), Prepare(FreshTx, cli.room, Target(cli.room))>>)
    /\ CliOnly

StopsHandshake == IF cli.op = "manual" THEN <<StopPunch(Handshake)>> ELSE <<>>

\* finalize_peer_join_from_ack: the unit is saved and discovery starts over, as
\* a member.
Finalize ==
    /\ cli.pc \in {"wait", "grace"} /\ cli.got = "ack"
    /\ cli' = [Idle(cli) EXCEPT !.home = cli.room]
    /\ Send(StopsHandshake \o <<Discover(cli.room, FALSE)>>)
    /\ CliOnly

\* The engine answered None: "join rejected".
Rejected ==
    /\ cli.pc = "wait" /\ cli.got = "none"
    /\ cli' = Idle(cli)
    /\ Send(IF cli.op = "manual" THEN StopsHandshake ELSE <<Cmd("cancel")>>)
    /\ CliOnly

\* The wait for an ack reaches its deadline.
WaitDeadline ==
    /\ cli.pc = "wait" /\ cli.got = "wait" /\ cmds = <<>>
    /\ \/ /\ cli.op = "join"
          /\ cli' = [Await(cli, "grace", FreshTx) EXCEPT !.n = 1]
          /\ Send(<<Ask("take", FreshTx)>>)
       \/ /\ cli.op = "assist"
          /\ cli' = Idle(cli)
          /\ Send(<<Cmd("cancel")>>)
       \/ /\ cli.op = "manual"
          /\ IF cli.n < MaxAttempts
             THEN cli' = [cli EXCEPT !.pc = "backoff", !.tx = NoTx] /\ cmds' = cmds
             ELSE cli' = Idle(cli) /\ Send(StopsHandshake)
    /\ CliOnly

NextAttempt ==
    /\ cli.pc = "backoff"
    /\ cli' = [Await(cli, "wait", FreshTx) EXCEPT !.n = @ + 1]
    /\ Send(<<Prepare(FreshTx, cli.room, Target(cli.room))>>)
    /\ CliOnly

\* wait_pending_join_ack polls; in the end CancelJoinWait goes out before the
\* count is asked for.
GracePoll ==
    /\ cli.pc = "grace" /\ cli.got = "none"
    /\ IF cli.n < MaxPolls
       THEN /\ cli' = [Await(cli, "grace", FreshTx) EXCEPT !.n = @ + 1]
            /\ Send(<<Ask("take", FreshTx)>>)
       ELSE /\ cli' = Await(cli, "count", FreshTx)
            /\ Send(<<Cmd("cancel"), Ask("count", FreshTx)>>)
    /\ CliOnly

\* query_discovered_count gives up after 500 ms and then reports 0.
CountDeadline ==
    /\ cli.pc = "count" /\ cli.got = "wait"
    /\ cli' = [cli EXCEPT !.got = "zero", !.tx = NoTx]
    /\ UNCHANGED cmds
    /\ CliOnly

\* No peers: finalize_genesis_join.  Peers that did not ack: the join fails.
AfterCount ==
    /\ cli.pc = "count" /\ cli.got # "wait"
    /\ IF cli.got = "zero"
       THEN /\ cli' = [Idle(cli) EXCEPT !.home = cli.room]
            /\ Send(<<Key(cli.room), Discover(cli.room, FALSE)>>)
       ELSE cli' = Idle(cli) /\ UNCHANGED cmds
    /\ CliOnly

\* The rest of handle_remove, after the answer: the profile is deleted,
\* so that the tracker list is the default one, and the table is emptied.
AfterReset ==
    /\ cli.pc = "reset" /\ cli.got = "done"
    /\ cli' = [Idle(cli) EXCEPT !.home = NoRoom, !.urls = DefaultTrackers]
    /\ route' = [ep \in Peers |-> "none"]
    /\ UNCHANGED <<d, p, stun, eng, jobs, asked, cmds>>

Cli ==
    \/ Create \/ JoinDecentralized \/ JoinByAddress \/ AfterLanPunch \/ Finalize \/ Rejected \/ WaitDeadline \/ NextAttempt
    \/ GracePoll \/ CountDeadline \/ AfterCount \/ AfterReset
----------------------------------------------------------------------------
Engine ==
    \/ HandleCmd
    \/ StunSends \/ StunResolved
    \/ \E ep \in Mapped : StunResponse(ep)
    \/ StunDeadline
    \/ \E fails \in SUBSET DOMAIN d.slots, aged \in {"none", "requests", "all"} : Tick(fails, aged)
    \/ \E j \in jobs, ok \in BOOLEAN : LookupDone(j, ok) \/ HttpDone(j, ok)
    \/ \E op \in d.pending, kind \in {"connect", "announce", "bad"} : Reply(op, kind)
    \/ \E a \in asked : JoinAck(a)
    \/ PunchStep

Next ==
    \/ Engine \/ Cli
    \/ \E op \in {"create", "join", "manual", "assist", "punch", "remove"}, room \in Rooms : Begin(op, room)
    \/ IntervalPasses \/ ThrottleEnds
    \/ \E ep \in Peers : RouteIdles(ep)

Spec == Init /\ [][Next]_vars

\* Commands and tasks are run, deadlines elapse, the tick interval fires and in
\* time sweeps; a host that is looked up again and again resolves in the end, a
\* tracker that is asked again and again answers, and not every send of an
\* announce fails.
FairSpec ==
    /\ Spec
    /\ WF_cmds(Taken) /\ WF_vars(Cli)
    /\ WF_vars(StunSends \/ StunResolved \/ StunDeadline)
    /\ WF_d(TickTrackers({}, "all"))
    /\ SF_d(TickTrackers({}, "none") /\ d.conns # {})
    /\ WF_vars(IntervalPasses)
    /\ SF_vars(\E j \in jobs : LookupDone(j, TRUE))
    /\ SF_vars(\E j \in jobs : HttpDone(j, TRUE) /\ j.now)
    /\ SF_vars(\E op \in d.pending : op.kind = "connect" /\ Reply(op, "connect"))
    /\ SF_vars(\E op \in d.pending : op.kind = "announce" /\ Reply(op, "announce"))

----------------------------------------------------------------------------
\* Endpoints that a tracker returned for one unit are never used for another:
\* what is known, what the engine punches on its own and whom it sends an MPJN
\* belong to the room that is announced now, however late the answers to
\* an earlier room come in (engine.rs run: the resolve and HTTP result arms).
Listed(room) == UNION {ToSet(l) : l \in Lists[room]}
RoomIsolated ==
    /\ d.active =>
        /\ \A i \in DOMAIN d.found : d.found[i] \in Listed(d.room)
        /\ \A id \in DOMAIN p.tasks : p.tasks[id].key \in {Pass, Overlay} =>
              {ep[1] : ep \in TaskTargets(p.tasks[id])} \subseteq {ep[1] : ep \in Listed(d.room)}
    /\ \A a \in asked : a.ep \in Members[a.room]

\* No workflow is out of reach: a task that still punches is the one whose stop
\* flag is stored under its key, and the workflows that a CLI command started
\* for its own use are over once the command and what it sent are.
PunchesOwned ==
    /\ \A id \in DOMAIN p.tasks : p.tasks[id].key \in DOMAIN p.stops /\ p.stops[p.tasks[id].key] = id
    /\ cli.pc = "idle" /\ cmds = <<>> => \A id \in DOMAIN p.tasks : p.tasks[id].key \notin {Handshake, Lan}

\* Every CLI command comes to an end, although it waits for the public endpoint
\* without a deadline (query_public_endpoint_from_engine_inner).
CommandReturns == (cli.pc # "idle") ~> (cli.pc = "idle")

\* As long as discovery runs, each tracker that can be announced to is
\* announced to again and again: no lookup, request or announce in flight
\* that is lost or late blocks its slot for good.
AnnouncesRecur ==
    \A i \in 1..MaxTrackers :
        []<>(i \notin DOMAIN d.slots \/ Scheme[d.slots[i].url] = "https" \/ ~d.slots[i].due)
============================================================================
