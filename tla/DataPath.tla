------------------------------ MODULE DataPath ------------------------------
(***************************************************************************)
(* The threads a data packet crosses on its way to the socket: the engine, *)
(* the FEC worker, the pacing worker and the pace clock, with the bounded  *)
(* channels between them, the barriers on which the engine waits for the   *)
(* FEC worker, the replies for which the FEC worker waits on the pacing    *)
(* worker, and the stop and restart of all of them when a session is       *)
(* reset.                                                                  *)
(*                                                                         *)
(* A handler of the engine that waits is a sequence of steps left to do;   *)
(* the engine takes no other event before it is through.  The encoder is   *)
(* FecCodec's with one ratio and a group of GroupSize packets; which of    *)
(* its groups is due, coded or passed is left to chance.  The pacing queue *)
(* sends and discards like Shaper, which Pacing implements.                *)
(***************************************************************************)
EXTENDS Integers, Sequences, FiniteSets, SequencesExt

CONSTANTS Dests, Shards, Settings,  \* endpoints, shard sizes, pacing configurations
          GroupSize,
          DataCap, CmdCap, QueueCap   \* FEC_TX_DATA_CHANNEL_CAP, PACING_CMD_CHANNEL_CAP, data queue

ASSUME DataPathAssumption ==
    /\ GroupSize \in Nat \ {0, 1}
    /\ DataCap \in Nat \ {0} /\ CmdCap \in Nat \ {0} /\ QueueCap \in Nat \ {0}

VARIABLES engine,   \* the engine: its settings and the steps its handler has left
          worker,   \* the FEC worker
          data_q, ctl_q, reply, events, flush_req,  \* between engine and FEC worker
          cmd_q, answer,                            \* to the pacing worker, and its reply
          pacing,   \* the pacing worker; the configuration it observes is the one it runs with
          clock,    \* the pace clock and its channel
          accepted, gone                            \* history: packets taken, and sent or dropped

channels == <<data_q, ctl_q, reply, events, flush_req>>
vars == <<engine, worker, channels, cmd_q, answer, pacing, clock, accepted, gone>>

Waiting == "waiting"
NoItem == [id |-> 0]
Nothing == [kind |-> "none"]

NewWorker(shard) ==
    [alive |-> TRUE, at |-> "top", enabled |-> TRUE, tuning |-> shard,
     enc |-> [d \in Dests |-> <<>>], shard |-> [d \in Dests |-> shard],
     item |-> NoItem, out |-> <<>>, then |-> Nothing, back |-> "top"]

NewPacing(config) ==
    [alive |-> TRUE, stop |-> FALSE, config |-> config, queue |-> <<>>,
     phase |-> "cooldown", done |-> FALSE]

Init ==
    /\ \E s \in Shards, c \in Settings :
         /\ engine = [fec |-> TRUE, shard |-> s, config |-> c, todo |-> <<>>]
         /\ worker = NewWorker(s)
         /\ pacing = NewPacing(c)
         /\ clock = [alive |-> TRUE, chan |-> 0]
    /\ data_q = <<>> /\ ctl_q = <<>> /\ reply = "none" /\ events = <<>> /\ flush_req = 0
    /\ cmd_q = <<>> /\ answer = "none"
    /\ accepted = 0 /\ gone = {}

-----------------------------------------------------------------------------
(* The engine.                                                             *)

Idle == engine.todo = <<>>

\* enqueue_normal_packet: packets larger than the path's budget are dropped, and so are those
\* that find the channel full or closed.
EnqueueNormal(ps, fits) ==
    LET room == IF pacing.alive /\ fits THEN CmdCap - Len(cmd_q) ELSE 0
        n == IF Len(ps) < room THEN Len(ps) ELSE room
    IN /\ cmd_q' = cmd_q \o [i \in 1..n |-> [cmd |-> "data", pkts |-> <<ps[i]>>]]
       /\ gone' = gone \union {ps[i].id : i \in (n + 1)..Len(ps)}

\* coded: the ratio of the destination is on, and the packet fits a shard.
FecSend(d, coded) ==
    LET p == [id |-> accepted + 1, dest |-> d] IN
    /\ Idle
    /\ accepted' = p.id
    /\ IF engine.fec /\ coded /\ Len(data_q) < DataCap
       THEN data_q' = Append(data_q, p) /\ UNCHANGED <<cmd_q, gone>>
       ELSE (\E fits \in BOOLEAN : EnqueueNormal(<<p>>, fits)) /\ UNCHANGED data_q
    /\ UNCHANGED <<engine, worker, ctl_q, reply, events, flush_req, answer, pacing, clock>>

\* apply_fec_tx_event, from the engine's loop or while a handler drains the events.
ApplyEvent ==
    /\ events # <<>>
    /\ \E fits \in BOOLEAN : EnqueueNormal(Head(events), fits)
    /\ events' = Tail(events)
    /\ UNCHANGED <<worker, data_q, ctl_q, reply, flush_req, answer, pacing, clock, accepted>>

FecEvent == Idle /\ ApplyEvent /\ UNCHANGED engine

\* TickDone: the groups that are due are asked for, without parity in a drain.
TickDone ==
    /\ Idle /\ pacing.done
    /\ pacing' = [pacing EXCEPT !.done = FALSE]
    /\ flush_req' = Max({flush_req, IF pacing.phase = "drain" THEN 2 ELSE 1})
    /\ UNCHANGED <<engine, worker, data_q, ctl_q, reply, events, cmd_q, answer, clock,
                   accepted, gone>>

Ctl(kind, arg) == [op |-> "ctl", ctl |-> [kind |-> kind, arg |-> arg]]
Cmd(c) == [op |-> "cmd", cmd |-> c]
Do(op) == [op |-> op]
SetTo(field, value) == [op |-> "set", field |-> field, value |-> value]

\* control_barrier: the command, then the wait for its reply.
Barrier(kind, arg) == <<Ctl(kind, arg), Do("wait")>>

Handle(e, steps) ==
    /\ Idle
    /\ engine' = [e EXCEPT !.todo = steps]
    /\ UNCHANGED <<worker, channels, cmd_q, answer, pacing, clock, accepted, gone>>

\* Mutant of SetFecEnabled: the groups are flushed before the worker is told to gather no more.
FlushThenDisable(on) ==
    /\ on # engine.fec
    /\ Handle(engine, (IF on THEN <<>> ELSE Barrier("flush", on) \o <<Do("drain")>>)
                        \o <<Ctl("enable", on), SetTo("fec", on)>>)

SetFecEnabled(on) ==
    /\ on # engine.fec
    /\ Handle(engine, <<Ctl("enable", on)>>
                        \o (IF on THEN <<>> ELSE Barrier("flush", on) \o <<Do("drain")>>)
                        \o <<SetTo("fec", on)>>)

\* A new path MTU or new tuning: every group is flushed before the size changes.
Retune(s) ==
    /\ s # engine.shard
    /\ Handle([engine EXCEPT !.shard = s], Barrier("retune", s) \o <<Do("drain")>>)

\* The peer or its endpoint goes: teardown_fec_peer.
TeardownPeer(d) ==
    Handle(engine, Barrier("remove", d) \o <<Cmd([cmd |-> "remove", dest |-> d])>>)

Configure(c) == Cmd([cmd |-> "config", config |-> c])

\* The clock's period, which these handlers set too, is not modelled.
SetPacing(c) == Handle(engine, <<Configure(c)>>)

SetPacingAndPaceClock(c) ==
    Handle(engine, <<Do("stop_clock"), Configure(c), Do("start_clock")>>)

\* The configuration is the last observed one, which a SetPacing still in the channel is about
\* to replace.
SetPaceClock ==
    Handle(engine, <<Do("stop_clock"), Do("configure_observed"),
                     Do("start_clock")>>)

ResetSession ==
    Handle(engine, Barrier("stop", 0)
                     \o <<Do("drain"), Do("join_fec"), Do("stop_clock"),
                          Do("stop_pacing"), Cmd([cmd |-> "stop"]), Do("join_pacing"),
                          Do("restart")>>)

Step == Head(engine.todo)
At(op) == ~Idle /\ Step.op = op
Done(e) == [e EXCEPT !.todo = Tail(@)]

\* send_control_spin: the channel has room for every control command in these handlers, as
\* the engine sends one and waits, or two.
SendControl ==
    /\ At("ctl")
    /\ ctl_q' = IF worker.alive THEN Append(ctl_q, Step.ctl) ELSE ctl_q
    /\ reply' = IF worker.alive /\ Step.ctl.kind # "enable" THEN Waiting ELSE reply
    /\ engine' = Done(engine)
    /\ UNCHANGED <<worker, data_q, events, flush_req, cmd_q, answer, pacing, clock,
                   accepted, gone>>

AwaitReply ==
    /\ At("wait")
    /\ reply # Waiting \/ ~worker.alive
    /\ reply' = "none"
    /\ engine' = Done(engine)
    /\ UNCHANGED <<worker, data_q, ctl_q, events, flush_req, cmd_q, answer, pacing, clock,
                   accepted, gone>>

\* drain_fec_tx_events.
DrainEvents ==
    /\ At("drain")
    /\ \/ ApplyEvent /\ UNCHANGED engine
       \/ /\ events = <<>>
          /\ engine' = Done(engine)
          /\ UNCHANGED <<worker, channels, cmd_q, answer, pacing, clock, accepted, gone>>

\* send_cmd_spin: waits for room, or for the receiver to go.
SendCommand ==
    /\ At("cmd") \/ At("configure_observed")
    /\ pacing.alive => Len(cmd_q) < CmdCap
    /\ LET c == IF At("cmd") THEN Step.cmd ELSE [cmd |-> "config", config |-> pacing.config]
       IN /\ cmd_q' = IF pacing.alive THEN Append(cmd_q, c) ELSE cmd_q
          /\ engine' = Done(IF c.cmd = "config" THEN [engine EXCEPT !.config = c.config] ELSE engine)
    /\ UNCHANGED <<worker, channels, answer, pacing, clock, accepted, gone>>

\* The first half of request_stop: the flag, and a Stop if there is room for one.
StopPacing ==
    /\ At("stop_pacing")
    /\ pacing' = [pacing EXCEPT !.stop = TRUE, !.done = FALSE]
    /\ cmd_q' = IF pacing.alive /\ Len(cmd_q) < CmdCap THEN Append(cmd_q, [cmd |-> "stop"]) ELSE cmd_q
    /\ engine' = Done(engine)
    /\ UNCHANGED <<worker, channels, answer, clock, accepted, gone>>

SetField ==
    /\ At("set")
    /\ engine' = Done([engine EXCEPT ![Step.field] = Step.value])
    /\ UNCHANGED <<worker, channels, cmd_q, answer, pacing, clock, accepted, gone>>

ClockStep ==
    /\ \/ At("stop_clock") /\ clock' = [clock EXCEPT !.alive = FALSE]
       \/ At("start_clock") /\ clock' = [clock EXCEPT !.alive = TRUE]
    /\ engine' = Done(engine)
    /\ UNCHANGED <<worker, channels, cmd_q, answer, pacing, accepted, gone>>

Join ==
    /\ \/ At("join_fec") /\ ~worker.alive
       \/ At("join_pacing") /\ ~pacing.alive
    /\ engine' = Done(engine)
    /\ UNCHANGED <<worker, channels, cmd_q, answer, pacing, clock, accepted, gone>>

-----------------------------------------------------------------------------
(* The FEC worker.                                                         *)

Coded(ps) == [coded |-> TRUE, pkts |-> ps]
Plain(ps) == [coded |-> FALSE, pkts |-> ps]

\* FecEncoder::flush: a group of one packet, or one the queue has no room for, is not coded.
FlushOf(d, code) ==
    LET buf == worker.enc[d] IN
    IF buf = <<>> THEN <<>> ELSE <<IF Len(buf) >= 2 /\ code THEN Coded(buf) ELSE Plain(buf)>>

FlushesOf(ds, code) == FlattenSeq([i \in 1..Cardinality(ds) |-> FlushOf(SetToSeq(ds)[i], code)])

Emptied(ds) == [d \in Dests |-> IF d \in ds THEN <<>> ELSE worker.enc[d]]

\* The worker hands out on, finishes the control command then, and goes on at back.
Dispatching(w, out, then, back) ==
    IF out = <<>> /\ then = Nothing THEN [w EXCEPT !.at = back]
    ELSE [w EXCEPT !.at = "dispatch", !.out = out, !.then = then, !.back = back]

Ids(ps) == {p.id : p \in ToSet(ps)}

\* The worker returns: what it and its channel still hold goes with it.
Exit(item) ==
    /\ worker' = [worker EXCEPT !.alive = FALSE, !.item = NoItem]
    /\ gone' = gone \union Ids(data_q) \union (Ids(<<item>>) \ {0})
    /\ data_q' = <<>>

HandleControl(back) ==
    /\ ctl_q # <<>>
    /\ ctl_q' = Tail(ctl_q)
    /\ LET c == Head(ctl_q) IN
       CASE c.kind \in {"flush", "retune", "stop"} ->
              /\ \E code \in BOOLEAN :
                   worker' = Dispatching([worker EXCEPT !.enc = Emptied(Dests)],
                                         FlushesOf(Dests, code), c, back)
              /\ UNCHANGED <<reply, gone>>
         [] c.kind = "enable" ->
              worker' = [worker EXCEPT !.enabled = c.arg] /\ UNCHANGED <<reply, gone>>
         [] c.kind = "remove" ->
              /\ worker' = [worker EXCEPT !.enc = Emptied({c.arg})]
              /\ gone' = gone \union Ids(worker.enc[c.arg])
              /\ reply' = "done"
    /\ UNCHANGED <<engine, data_q, events, flush_req, cmd_q, answer, pacing, clock, accepted>>

\* Control first, then the groups that are due.
WorkerTop ==
    /\ worker.alive /\ worker.at = "top"
    /\ \/ HandleControl("top")
       \/ /\ ctl_q = <<>>
          /\ flush_req' = 0
          /\ \E due \in IF flush_req = 0 THEN {{}} ELSE SUBSET {d \in Dests : worker.enc[d] # <<>>},
                code \in BOOLEAN :
               worker' = Dispatching([worker EXCEPT !.enc = Emptied(due)],
                                     FlushesOf(due, code /\ flush_req = 1), Nothing, "recv")
          /\ UNCHANGED <<engine, data_q, ctl_q, reply, events, cmd_q, answer, pacing, clock,
                         accepted, gone>>

WorkerRecv ==
    /\ worker.alive /\ worker.at = "recv"
    /\ IF data_q = <<>>
       THEN worker' = [worker EXCEPT !.at = "top"] /\ UNCHANGED data_q
       ELSE /\ worker' = [worker EXCEPT !.at = "got", !.item = Head(data_q)]
            /\ data_q' = Tail(data_q)
    /\ UNCHANGED <<engine, ctl_q, reply, events, flush_req, cmd_q, answer, pacing, clock,
                   accepted, gone>>

\* how: a packet closes its group at once, is gathered, or is too large for the shard.
Pushed(p, how, code) ==
    LET d == p.dest
        early == IF worker.shard[d] # worker.tuning THEN FlushOf(d, code) ELSE <<>>
        buf == Append(IF early = <<>> THEN worker.enc[d] ELSE <<>>, p)
        kept == how = "gather" /\ Len(buf) < GroupSize
        w == [worker EXCEPT !.item = NoItem, !.shard[d] = worker.tuning]
    IN CASE how = "oversize" -> Dispatching(w, <<Plain(<<p>>)>>, Nothing, "top")
         [] kept -> Dispatching([w EXCEPT !.enc[d] = buf], early, Nothing, "top")
         [] OTHER -> Dispatching([w EXCEPT !.enc[d] = <<>>],
                                 Append(early, IF code /\ Len(buf) >= 2 THEN Coded(buf) ELSE Plain(buf)),
                                 Nothing, "top")

HandlePush ==
    IF worker.enabled
    THEN \E how \in {"gather", "immediate", "oversize"}, code \in BOOLEAN :
           worker' = Pushed(worker.item, how, code)
    ELSE worker' = Dispatching([worker EXCEPT !.item = NoItem], <<Plain(<<worker.item>>)>>,
                               Nothing, "top")

WorkerGot ==
    /\ worker.alive /\ worker.at = "got"
    /\ \/ HandleControl("got")
       \/ /\ ctl_q = <<>>
          /\ HandlePush
          /\ UNCHANGED <<engine, channels, cmd_q, answer, pacing, clock, accepted, gone>>

\* Mutant of Dispatch: the events to the engine have room for one, and the worker spins.
DispatchBounded ==
    /\ worker.alive /\ worker.at = "dispatch" /\ worker.out # <<>>
    /\ LET o == Head(worker.out) IN
       IF o.coded /\ pacing.alive /\ Len(cmd_q) < CmdCap
       THEN /\ cmd_q' = Append(cmd_q, [cmd |-> "batch", pkts |-> o.pkts])
            /\ answer' = Waiting
            /\ worker' = [worker EXCEPT !.at = "await"]
            /\ UNCHANGED events
       ELSE /\ IF events = <<>>
               THEN events' = Append(events, o.pkts) /\ worker' = [worker EXCEPT !.out = Tail(@)]
               ELSE UNCHANGED <<events, worker>>
            /\ UNCHANGED <<cmd_q, answer>>
    /\ UNCHANGED <<engine, data_q, ctl_q, reply, flush_req, pacing, clock, accepted, gone>>

\* dispatch_output: a coded group is offered to the pacing worker as one; refused, it goes
\* back to the engine packet by packet.
Dispatch ==
    /\ worker.alive /\ worker.at = "dispatch" /\ worker.out # <<>>
    /\ LET o == Head(worker.out) IN
       IF o.coded /\ pacing.alive /\ Len(cmd_q) < CmdCap
       THEN /\ cmd_q' = Append(cmd_q, [cmd |-> "batch", pkts |-> o.pkts])
            /\ answer' = Waiting
            /\ worker' = [worker EXCEPT !.at = "await"]
            /\ UNCHANGED events
       ELSE /\ events' = Append(events, o.pkts)
            /\ worker' = [worker EXCEPT !.out = Tail(@)]
            /\ UNCHANGED <<cmd_q, answer>>
    /\ UNCHANGED <<engine, data_q, ctl_q, reply, flush_req, pacing, clock, accepted, gone>>

\* Mutant of Answered: a group falls back whatever the answer.
FallsBackAnyway(o) == Append(events, o.pkts)

Answered(o) == IF answer = "yes" THEN events ELSE Append(events, o.pkts)

\* wait_reply: the answer, or false when the pacing worker is gone.
AwaitAnswer ==
    /\ worker.alive /\ worker.at = "await"
    /\ answer # Waiting \/ ~pacing.alive
    /\ events' = Answered(Head(worker.out))
    /\ answer' = "none"
    /\ worker' = [worker EXCEPT !.at = "dispatch", !.out = Tail(@)]
    /\ UNCHANGED <<engine, data_q, ctl_q, reply, flush_req, cmd_q, pacing, clock,
                   accepted, gone>>

\* Everything flushed has been handed on: the barrier is answered.
Dispatched ==
    LET c == worker.then IN
    /\ worker.alive /\ worker.at = "dispatch" /\ worker.out = <<>>
    /\ reply' = IF c = Nothing THEN reply ELSE "done"
    /\ IF c.kind = "stop"
       THEN Exit(worker.item)
       ELSE /\ worker' = [worker EXCEPT !.at = worker.back, !.then = Nothing, !.back = "top",
                                        !.tuning = IF c.kind = "retune" THEN c.arg ELSE @]
            /\ UNCHANGED <<data_q, gone>>
    /\ UNCHANGED <<engine, ctl_q, events, flush_req, cmd_q, answer, pacing, clock, accepted>>

Worker == WorkerTop \/ WorkerRecv \/ WorkerGot \/ Dispatch \/ AwaitAnswer \/ Dispatched

-----------------------------------------------------------------------------
(* The pacing worker and the clock.                                        *)

For(d) == SelectSeq(pacing.queue, LAMBDA p : p.dest = d)
NotFor(d) == SelectSeq(pacing.queue, LAMBDA p : p.dest # d)

\* The worker returns: its queue and the commands behind its Stop go with it.
PacingExits ==
    /\ pacing' = [pacing EXCEPT !.alive = FALSE, !.queue = <<>>]
    /\ gone' = gone \union Ids(pacing.queue)
                     \union UNION {Ids(c.pkts) : c \in {x \in ToSet(Tail(cmd_q)) : x.cmd = "data"}}
    /\ cmd_q' = <<>>
    /\ UNCHANGED answer

HandleCommand ==
    LET c == Head(cmd_q) IN
    /\ pacing.alive /\ cmd_q # <<>>
    /\ \/ /\ c.cmd = "data"
          /\ LET p == c.pkts[1]
                 full == Len(For(p.dest)) >= QueueCap
                 old == For(p.dest)[1]
             IN /\ pacing' = [pacing EXCEPT !.queue =
                                Append(IF full THEN SelectSeq(@, LAMBDA q : q # old) ELSE @, p)]
                /\ gone' = IF full THEN gone \union {old.id} ELSE gone
          /\ cmd_q' = Tail(cmd_q) /\ UNCHANGED answer
       \/ /\ c.cmd = "batch"
          /\ IF Len(For(c.pkts[1].dest)) + Len(c.pkts) <= QueueCap
             THEN pacing' = [pacing EXCEPT !.queue = @ \o c.pkts] /\ answer' = "yes"
             ELSE answer' = "no" /\ UNCHANGED pacing
          /\ cmd_q' = Tail(cmd_q) /\ UNCHANGED gone
       \/ /\ c.cmd = "remove"
          /\ pacing' = [pacing EXCEPT !.queue = NotFor(c.dest)]
          /\ gone' = gone \union Ids(For(c.dest))
          /\ cmd_q' = Tail(cmd_q) /\ UNCHANGED answer
       \/ /\ c.cmd = "config"
          /\ pacing' = [pacing EXCEPT !.config = c.config]
          /\ cmd_q' = Tail(cmd_q) /\ UNCHANGED <<answer, gone>>
       \/ c.cmd = "stop" /\ PacingExits
    /\ UNCHANGED <<engine, worker, channels, clock, accepted>>

\* Mutant of StopSeen: the commands still in the channel are not taken first.
StopSeenAtOnce ==
    /\ pacing.alive /\ pacing.stop
    /\ pacing' = [pacing EXCEPT !.alive = FALSE, !.queue = <<>>]
    /\ gone' = gone \union Ids(pacing.queue)
                  \union UNION {Ids(c.pkts) : c \in {x \in ToSet(cmd_q) : x.cmd = "data"}}
    /\ cmd_q' = <<>>
    /\ UNCHANGED <<engine, worker, channels, answer, clock, accepted>>

\* The stop flag, seen with no command left.
StopSeen ==
    /\ pacing.alive /\ pacing.stop /\ cmd_q = <<>>
    /\ pacing' = [pacing EXCEPT !.alive = FALSE, !.queue = <<>>]
    /\ gone' = gone \union Ids(pacing.queue)
    /\ UNCHANGED <<engine, worker, channels, cmd_q, answer, clock, accepted>>

\* apd_step.  armed: the fill is high with the ramp pinned, or the head of line is old, for as
\* many ticks as have to confirm it; headroom: some peer may send; over: the cooldown, the
\* drain's budget or its backlog is through.
ApdStep(phase, armed, headroom, over) ==
    CASE phase = "cooldown" -> IF over THEN "alert" ELSE phase
      [] phase = "alert" -> IF armed /\ headroom THEN "drain" ELSE phase
      [] phase = "drain" -> IF over \/ ~headroom THEN "cooldown" ELSE phase

\* Packets leave, APD's phase is published to the clock, and the engine is told.
PacingTick(n, armed, headroom, over) ==
    /\ pacing.alive /\ ~pacing.stop /\ clock.chan = 1
    /\ gone' = gone \union Ids(SubSeq(pacing.queue, 1, n))
    /\ pacing' = [pacing EXCEPT !.queue = SubSeq(@, n + 1, Len(@)), !.done = TRUE,
                             !.phase = ApdStep(@, armed, headroom, over)]
    /\ clock' = [clock EXCEPT !.chan = 0]
    /\ UNCHANGED <<engine, worker, channels, cmd_q, answer, accepted>>

\* A tick finds the channel of one full and is skipped.
ClockTicks ==
    /\ clock.alive /\ pacing.alive /\ clock.chan = 0
    /\ clock' = [clock EXCEPT !.chan = 1]
    /\ UNCHANGED <<engine, worker, channels, cmd_q, answer, pacing, accepted, gone>>

\* The last step of a session reset: the workers start with empty channels, the tuning of
\* the engine and the configuration last observed.
Restart ==
    /\ At("restart")
    /\ worker' = NewWorker(engine.shard)
    /\ pacing' = NewPacing(pacing.config)
    /\ clock' = [alive |-> TRUE, chan |-> 0]
    /\ ctl_q' = <<>> /\ flush_req' = 0 /\ reply' = "none" /\ answer' = "none"
    /\ engine' = Done(engine)
    /\ UNCHANGED <<data_q, events, cmd_q, accepted, gone>>

EngineStep ==
    \/ SendControl \/ AwaitReply \/ DrainEvents \/ SendCommand \/ StopPacing
    \/ SetField \/ ClockStep \/ Join \/ Restart

Pacer ==
    \/ HandleCommand \/ StopSeen
    \/ \E n \in 0..Len(pacing.queue), armed, headroom, over \in BOOLEAN :
         PacingTick(n, armed, headroom, over)

Commands ==
    \/ \E on \in BOOLEAN : SetFecEnabled(on)
    \/ \E s \in Shards : Retune(s)
    \/ \E d \in Dests : TeardownPeer(d)
    \/ \E c \in Settings \ {engine.config} : SetPacing(c) \/ SetPacingAndPaceClock(c)
    \/ SetPaceClock \/ ResetSession

Next ==
    \/ \E d \in Dests, coded \in BOOLEAN : FecSend(d, coded)
    \/ FecEvent \/ TickDone \/ Commands
    \/ EngineStep \/ Worker \/ Pacer \/ ClockTicks

Spec == Init /\ [][Next]_vars

-----------------------------------------------------------------------------
(* Properties.                                                             *)

PktsOf(c) == IF c.cmd \in {"data", "batch"} THEN c.pkts ELSE <<>>

\* The groups the FEC worker still has to hand on.  The one whose answer it awaits is in the
\* command channel or the pacing queue, unless it was refused or the pacing worker has gone.
Undelivered ==
    IF worker.at = "await" /\ pacing.alive /\ answer # "no" THEN Tail(worker.out) ELSE worker.out

\* Every packet on its way, wherever it is.
OnTheWay ==
    data_q \o (IF worker.item = NoItem THEN <<>> ELSE <<worker.item>>)
      \o FlattenSeq([i \in 1..Cardinality(Dests) |-> worker.enc[SetToSeq(Dests)[i]]])
      \o FlattenSeq([i \in 1..Len(Undelivered) |-> Undelivered[i].pkts])
      \o FlattenSeq(events)
      \o FlattenSeq([i \in 1..Len(cmd_q) |-> PktsOf(cmd_q[i])])
      \o pacing.queue

\* A packet handed to fec_send is in one place only, until it is sent or dropped: no group is
\* both queued by the pacing worker and sent again packet by packet, none comes out of a
\* barrier twice, and none vanishes but where the code drops it (a full channel or queue, a
\* removed peer, the packets behind a Stop).
EveryPacketOnce ==
    LET way == OnTheWay IN
    /\ Cardinality(Ids(way)) = Len(way)
    /\ Ids(way) \union gone = 1..accepted
    /\ Ids(way) \intersect gone = {}

\* When a handler is through, so are its barriers: no group is gathered for shards of a size
\* the engine has given up, and none at all once FEC is off, whatever the worker had in hand.
BarriersComplete ==
    Idle => /\ worker.tuning = engine.shard
            /\ \A d \in Dests : worker.enc[d] # <<>> => engine.fec /\ worker.shard[d] = engine.shard

\* The configuration sent last is the one the pacing worker runs with once it has taken its
\* commands, across a reset of the session too.
ConfigArrives ==
    Idle /\ (\A i \in 1..Len(cmd_q) : cmd_q[i].cmd # "config") => pacing.config = engine.config

\* No handler waits for ever: not for a barrier the FEC worker answers only after the pacing
\* worker has answered it, nor for room in a full channel, nor for a thread to end.
EngineReturns == ~Idle ~> Idle
=============================================================================
