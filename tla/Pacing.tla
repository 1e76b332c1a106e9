------------------------------- MODULE Pacing -------------------------------
(***************************************************************************)
(* PacingEngine: the queues that every outgoing packet waits in, owned by  *)
(* the pacing worker, and the tick that moves packets to the socket: stale *)
(* bulk packets are shed, the bytes reserved to retransmissions and        *)
(* control are served, then up to a burst of packets, retransmissions      *)
(* first, control interleaved, peers in deficit round robin.  A tick is a  *)
(* sequence of steps that no command of the worker interrupts.             *)
(*                                                                         *)
(* Lengths and budgets are small integers.  The age of a packet and the    *)
(* verdict of the congestion controller are chosen where the code reads    *)
(* them.  Packets are numbered in the order in which they are queued.      *)
(***************************************************************************)
EXTENDS Integers, Sequences, FiniteSets, Functions

CONSTANTS Dests, Lens,
          SmallLen,          \* drr_small_packet_threshold_bytes
          Quantum,           \* drr_quantum, scaled by RTT or not
          DataCap, ControlCap, RetransmitCap,
          RtxReserved,       \* min_retransmit_reserved_bytes_per_tick
          BudgetCap, Room,   \* budget_cap_value and the least budget_has_room accepts
          PacketCap,         \* budget_cap_packets, which set_config applies as it stands
          Refills, Bursts,   \* what a tick may add to the budget, and its effective burst
          BulkForceAfter, ShedPerTick, ShedFill,
          Period,            \* a common multiple of all numbers of peers (see Advance)
          Configs            \* records [drr, priority, shed, cc, ctrl], ctrl the bytes reserved to control

ASSUME PacingAssumption ==
    /\ Lens \subseteq Nat \ {0} /\ Refills \subseteq Nat /\ Bursts \subseteq Nat \ {0}
    /\ {Quantum, DataCap, ControlCap, RetransmitCap, Room, Period} \subseteq Nat \ {0}
    /\ IsFiniteSet(Dests) /\ \A n \in 1..Cardinality(Dests) : Period % n = 0
    /\ SmallLen \in Nat /\ {"control", "retransmit"} \intersect Dests = {}

VARIABLES control_q, retransmit_q,   \* sequences of [id, len, flow]
          order, queues,     \* peer_queues: the peers by index, and their lanes
          total, nonEmpty,   \* queued_packets_total, non_empty_peers
          budget, cursor, turns,  \* turns: interleave_counter, read modulo 4
          config, limited,   \* limited: the peers the congestion controller knows
          tick, hand,        \* the tick under way and the packet it is sending
          accepted, sent, passed  \* history: packets queued, packets sent, data since control

lanes == <<control_q, retransmit_q>>
peers == <<order, queues, nonEmpty>>
engine == <<budget, cursor, turns, config, limited>>
history == <<accepted, sent, passed>>
vars == <<lanes, peers, total, engine, tick, hand, history>>

PeerDataQueue == [small |-> <<>>, bulk |-> <<>>, deficit |-> 0, streak |-> 0]
Idle == [pc |-> "idle", left |-> 0, reserve |-> 0, scans |-> 0, freeze |-> FALSE]

Lower(n) == IF n = 0 THEN 0 ELSE n - 1    \* saturating_sub(1)
MinOf(a, b) == IF a < b THEN a ELSE b
MaxOf(a, b) == IF a > b THEN a ELSE b

Init ==
    /\ control_q = <<>> /\ retransmit_q = <<>>
    /\ order = <<>> /\ queues = <<>> /\ nonEmpty = 0 /\ total = 0
    /\ budget = 0 /\ cursor = 0 /\ turns = 0
    /\ config \in Configs /\ limited = {}
    /\ tick = Idle /\ hand = <<>>
    /\ accepted = 0 /\ sent = {} /\ passed = 0

-----------------------------------------------------------------------------
(* The two lanes of a peer.                                                *)

Depth(q) == Len(q.small) + Len(q.bulk)
IsEmpty(q) == Depth(q) = 0

IsSmallPacket(len) == config.priority /\ len < SmallLen

Classified(q, e) ==
    IF IsSmallPacket(e.len) THEN [q EXCEPT !.small = Append(@, e)]
                            ELSE [q EXCEPT !.bulk = Append(@, e)]

DropOldest(q) ==
    IF q.bulk # <<>> THEN [q EXCEPT !.bulk = Tail(@)] ELSE [q EXCEPT !.small = Tail(@)]

Push(q, e) == Classified(IF Depth(q) >= DataCap THEN DropOldest(q) ELSE q, e)

\* Mutant of PushFront: a packet put back joins the end.
PushBack(q, e) == Classified(q, e)

PushFront(q, e) ==
    IF IsSmallPacket(e.len) THEN [q EXCEPT !.small = <<e>> \o @]
                            ELSE [q EXCEPT !.bulk = <<e>> \o @]

\* old: the first bulk packet has waited for DRR_BULK_HOL_FORCE_MS.
ForceBulk(q, old) == q.bulk # <<>> /\ (q.streak >= BulkForceAfter \/ old)

SmallIsOlder(q) ==
    q.bulk = <<>> \/ (q.small # <<>> /\ Head(q.small).id < Head(q.bulk).id)

TakesSmall(q, old) ==
    IF config.priority THEN q.small # <<>> /\ ~ForceBulk(q, old) ELSE SmallIsOlder(q)

FrontOf(q, old) == IF TakesSmall(q, old) THEN Head(q.small) ELSE Head(q.bulk)

\* The streak only matters up to BulkForceAfter.
Popped(q, old) ==
    IF TakesSmall(q, old)
    THEN [q EXCEPT !.small = Tail(@),
                   !.streak = IF config.priority THEN MinOf(@ + 1, BulkForceAfter) ELSE @]
    ELSE [q EXCEPT !.bulk = Tail(@), !.streak = IF config.priority THEN 0 ELSE @]

-----------------------------------------------------------------------------
(* Commands.                                                               *)

Queued(q) == Range(q.small) \union Range(q.bulk)
Entries ==
    (Range(control_q) \union Range(retransmit_q))
        \union ({h.pkt : h \in Range(hand)} \union UNION {Queued(queues[d]) : d \in Range(order)})
Held == {e.id : e \in Entries}

Control == <<"control", "fifo">>
Retransmit == <<"retransmit", "any">>
FlowOf(d, len) == <<d, IF len < SmallLen THEN "small" ELSE "bulk">>
Entry(i, len, flow) == [id |-> accepted + i, len |-> len, flow |-> flow]

Entered(d) == IF d \in Range(order) THEN order ELSE Append(order, d)
QueueOf(d) == IF d \in Range(order) THEN queues[d] ELSE PeerDataQueue
Keep(d, q) == [x \in Range(order) \union {d} |-> IF x = d THEN q ELSE queues[x]]
EnsurePeer(d) == IF config.cc THEN limited \union {d} ELSE limited

EnqueuePeer(d, len) ==
    LET q == QueueOf(d) IN
    /\ tick = Idle
    /\ order' = Entered(d)
    /\ queues' = Keep(d, Push(q, Entry(1, len, FlowOf(d, len))))
    /\ nonEmpty' = IF IsEmpty(q) THEN nonEmpty + 1 ELSE nonEmpty
    /\ total' = IF Depth(q) >= DataCap THEN total ELSE total + 1
    /\ limited' = EnsurePeer(d)
    /\ accepted' = accepted + 1
    /\ UNCHANGED <<lanes, budget, cursor, turns, config, tick, hand, sent, passed>>

\* All packets of a FEC group or none; a refused batch leaves the entry of the peer.
\* Groups of two packets, of lengths a and b, stand for groups of any size.
TryEnqueuePeerBatch(d, a, b) ==
    LET q == QueueOf(d)
        fits == Depth(q) + 2 <= DataCap
        one == Classified(q, Entry(1, a, FlowOf(d, a)))
        both == Classified(one, Entry(2, b, FlowOf(d, b)))
    IN
    /\ tick = Idle
    /\ order' = Entered(d)
    /\ queues' = Keep(d, IF fits THEN both ELSE q)
    /\ nonEmpty' = IF fits /\ IsEmpty(q) THEN nonEmpty + 1 ELSE nonEmpty
    /\ total' = IF fits THEN total + 2 ELSE total
    /\ limited' = EnsurePeer(d)
    /\ accepted' = IF fits THEN accepted + 2 ELSE accepted
    /\ UNCHANGED <<lanes, budget, cursor, turns, config, tick, hand, sent, passed>>

\* A queue over its limit loses its oldest packets until one more fits.
Trimmed(s, cap) == IF Len(s) < cap THEN s ELSE SubSeq(s, Len(s) - cap + 2, Len(s))

EnqueueControl(len) ==
    /\ tick = Idle
    /\ control_q' = Append(Trimmed(control_q, ControlCap), Entry(1, len, Control))
    /\ turns' = IF control_q = <<>> THEN 3 ELSE turns
    /\ total' = total + Len(control_q') - Len(control_q)
    /\ passed' = 0
    /\ accepted' = accepted + 1
    /\ UNCHANGED <<retransmit_q, peers, budget, cursor, config, limited, tick, hand, sent>>

EnqueueRetransmit(len) ==
    /\ tick = Idle
    /\ retransmit_q' = Append(Trimmed(retransmit_q, RetransmitCap), Entry(1, len, Retransmit))
    /\ total' = total + Len(retransmit_q') - Len(retransmit_q)
    /\ accepted' = accepted + 1
    /\ UNCHANGED <<control_q, peers, engine, tick, hand, sent, passed>>

\* drr_cursor counts on for ever; what the code reads of it are its remainder by the
\* number of peers and whether it is beyond a given peer.
Advance(c) == IF c + 1 < 2 * Period THEN c + 1 ELSE Period

Without(s, i) == SubSeq(s, 1, i - 1) \o SubSeq(s, i + 1, Len(s))
IndexOf(d) == (CHOOSE i \in 1..Len(order) : order[i] = d) - 1

RemovePeer(d) ==
    /\ tick = Idle
    /\ limited' = limited \ {d}
    /\ IF d \in Range(order)
       THEN LET n == Depth(queues[d])
                moved == IF cursor > 0 /\ IndexOf(d) < cursor THEN cursor - 1 ELSE cursor
            IN
            /\ nonEmpty' = IF n > 0 THEN Lower(nonEmpty) ELSE nonEmpty
            /\ total' = MaxOf(total - n, 0)
            /\ order' = Without(order, IndexOf(d) + 1)
            /\ queues' = [x \in Range(order') |-> queues[x]]
            /\ cursor' = IF order' = <<>> THEN 0 ELSE moved % Len(order')
       ELSE UNCHANGED <<peers, total, cursor>>
    /\ UNCHANGED <<lanes, budget, turns, config, tick, hand, history>>

\* Queued packets stay in the lane they were put in.
SetConfig(cfg) ==
    /\ tick = Idle
    /\ config' = cfg
    /\ budget' = MinOf(budget, PacketCap)
    /\ nonEmpty' = Cardinality({d \in Range(order) : ~IsEmpty(queues[d])})
    /\ UNCHANGED <<lanes, order, queues, total, cursor, turns, limited, tick, hand, history>>

SetDrrEnabled(enabled) ==
    /\ tick = Idle
    /\ config' = [config EXCEPT !.drr = enabled]
    /\ UNCHANGED <<lanes, peers, total, budget, cursor, turns, limited, tick, hand, history>>

SetBackgroundCc(enabled) ==
    /\ tick = Idle
    /\ config' = [config EXCEPT !.cc = enabled]
    /\ UNCHANGED <<lanes, peers, total, budget, cursor, turns, limited, tick, hand, history>>

OnCcSample(d) ==
    /\ tick = Idle /\ config.cc
    /\ limited' = limited \union {d}
    /\ UNCHANGED <<lanes, peers, total, budget, cursor, turns, config, tick, hand, history>>

ResetSession ==
    /\ tick = Idle
    /\ control_q' = <<>> /\ retransmit_q' = <<>>
    /\ order' = <<>> /\ queues' = <<>> /\ nonEmpty' = 0 /\ total' = 0
    /\ budget' = 0 /\ cursor' = 0 /\ turns' = 0 /\ limited' = {}
    /\ passed' = 0
    /\ UNCHANGED <<config, tick, hand, accepted, sent>>

-----------------------------------------------------------------------------
(* The tick.  tick.reserve is what is left of the allowance of its stage.  *)

Capacity == MaxOf(nonEmpty, 1) * DataCap + ControlCap + RetransmitCap
ShedDue == config.shed /\ nonEmpty > 0 /\ total * 10 >= ShedFill * Capacity

\* The effective burst and the freezing of DRR are the decision of apd_step.
TickStart(refill, burst, freeze) ==
    /\ tick = Idle
    /\ budget' = MinOf(budget + refill, BudgetCap)
    /\ tick' = [pc |-> IF ShedDue THEN "shed" ELSE "rtx", left |-> burst,
                reserve |-> IF ShedDue THEN ShedPerTick ELSE RtxReserved,
                scans |-> Len(order), freeze |-> freeze]
    /\ UNCHANGED <<lanes, peers, total, cursor, turns, config, limited, hand, history>>

\* Every loop of the tick stops at max_tick_work_us.
TickDeadline ==
    /\ tick.pc \in {"shed", "rtx", "ctrl", "burst"} /\ hand = <<>>
    /\ tick' = Idle
    /\ UNCHANGED <<lanes, peers, total, engine, hand, history>>

AtCursor == order[(cursor % Len(order)) + 1]

\* One round of shed_stale_bulk_rr; old: the bulk packet is older than shed.max_sojourn_ms.
ShedScan(old) ==
    LET d == AtCursor
        drop == old /\ queues[d].bulk # <<>>
    IN
    /\ tick.pc = "shed" /\ tick.scans > 0 /\ tick.reserve > 0
    /\ cursor' = Advance(cursor)
    /\ queues' = IF drop THEN [queues EXCEPT ![d].bulk = Tail(@)] ELSE queues
    /\ nonEmpty' = IF drop /\ IsEmpty(queues'[d]) THEN Lower(nonEmpty) ELSE nonEmpty
    /\ total' = IF drop THEN Lower(total) ELSE total
    /\ tick' = [tick EXCEPT !.scans = @ - 1, !.reserve = IF drop THEN @ - 1 ELSE @]
    /\ UNCHANGED <<lanes, order, budget, turns, config, limited, hand, history>>

ShedDone ==
    /\ tick.pc = "shed" /\ (tick.scans = 0 \/ tick.reserve = 0)
    /\ tick' = [tick EXCEPT !.pc = "rtx", !.reserve = RtxReserved]
    /\ UNCHANGED <<lanes, peers, total, engine, hand, history>>

MaySend(len, initial) == tick.reserve > 0 /\ (tick.reserve = initial \/ len <= tick.reserve)
AfterReserved(len) == MaxOf(tick.reserve - len, 0)

\* One round of a loop of drain_reserved_prefix over queue q, which is put back in lane.
TakeReserved(pc, q, initial, lane) ==
    /\ tick.pc = pc /\ hand = <<>>
    /\ budget >= Room /\ q # <<>> /\ MaySend(Head(q).len, initial)
    /\ hand' = <<[pkt |-> Head(q), lane |-> lane]>>
    /\ total' = Lower(total)
    /\ UNCHANGED <<peers, engine, tick, accepted, sent>>

ReservedDone(pc, q, initial, next, reserve) ==
    /\ tick.pc = pc /\ hand = <<>>
    /\ budget < Room \/ q = <<>> \/ ~MaySend(Head(q).len, initial)
    /\ tick' = [tick EXCEPT !.pc = next, !.reserve = reserve]
    /\ UNCHANGED <<lanes, peers, total, engine, hand, history>>

ReservedRetransmit ==
    \/ /\ TakeReserved("rtx", retransmit_q, RtxReserved, "retransmit")
       /\ retransmit_q' = Tail(retransmit_q)
       /\ UNCHANGED <<control_q, passed>>
    \/ ReservedDone("rtx", retransmit_q, RtxReserved, "ctrl", config.ctrl)

ReservedControl ==
    \/ /\ TakeReserved("ctrl", control_q, config.ctrl, "control")
       /\ control_q' = Tail(control_q) /\ passed' = 0
       /\ UNCHANGED retransmit_q
    \/ ReservedDone("ctrl", control_q, config.ctrl, "burst", 0)

BurstOver ==
    /\ tick.pc = "burst" /\ hand = <<>>
    /\ tick.left = 0 \/ budget < Room
    /\ tick' = Idle
    /\ UNCHANGED <<lanes, peers, total, engine, hand, history>>

InBurst == tick.pc = "burst" /\ hand = <<>> /\ tick.left > 0 /\ budget >= Room

PopControl(pc) ==
    /\ hand' = <<[pkt |-> Head(control_q), lane |-> "control"]>>
    /\ control_q' = Tail(control_q)
    /\ total' = Lower(total) /\ passed' = 0
    /\ tick' = [tick EXCEPT !.pc = pc]

\* pop_retransmit_for_send hands the packet on as a control packet.
PopRetransmit ==
    /\ InBurst /\ retransmit_q # <<>>
    /\ hand' = <<[pkt |-> Head(retransmit_q), lane |-> "control"]>>
    /\ retransmit_q' = Tail(retransmit_q)
    /\ total' = Lower(total)
    /\ UNCHANGED <<control_q, peers, engine, tick, history>>

\* Mutant of Divisor: a backlog of control packets changes nothing.
DivisorFixed(aging) == 4

\* aging: the first control packet has waited for 8 ms.
Divisor(aging) == IF Len(control_q) * 2 >= ControlCap \/ aging THEN 2 ELSE 4

Rounds ==
    IF tick.freeze \/ ~config.drr THEN Len(order)
    ELSE IF nonEmpty = 0 THEN 0 ELSE 2 * Len(order)

Interleaved(aging) ==
    /\ InBurst /\ retransmit_q = <<>>
    /\ aging => control_q # <<>>
    /\ turns' = (turns + 1) % 4
    /\ IF turns' % Divisor(aging) = 0 /\ control_q # <<>>
       THEN PopControl("burst")
       ELSE /\ tick' = [tick EXCEPT !.pc = "scan", !.scans = Rounds]
            /\ UNCHANGED <<control_q, total, hand, passed>>
    /\ UNCHANGED <<retransmit_q, peers, budget, cursor, config, limited, accepted, sent>>

InOrder == ~tick.freeze /\ ~config.drr      \* without DRR peers are tried by index
Fair == ~tick.freeze /\ config.drr
Credited(q, len) == MinOf(q.deficit + Quantum, MaxOf(4 * Quantum, len))

\* Token buckets are refilled with time and emptied by sends; any packet may find too few.
MayBeLimited(d) == config.cc /\ d \in limited

\* One peer of the round.  allowed: the congestion controller has tokens for the packet,
\* or the packet has waited for hol_escape_ms.
ScanPeer(old, allowed) ==
    LET d == IF InOrder THEN order[Len(order) - tick.scans + 1] ELSE AtCursor
        q == queues[d]
        e == FrontOf(q, old)
        credit == IF Fair THEN Credited(q, e.len) ELSE q.deficit
        goes == allowed /\ (Fair => e.len <= credit)
        rest == IF goes /\ Fair THEN credit - e.len ELSE credit
    IN
    /\ tick.pc = "scan" /\ tick.scans > 0
    /\ ~allowed => MayBeLimited(d)
    /\ old => q.bulk # <<>>
    /\ cursor' = IF InOrder THEN cursor ELSE Advance(cursor)
    /\ IF IsEmpty(q)
       THEN /\ queues' = IF Fair THEN [queues EXCEPT ![d].deficit = 0] ELSE queues
            /\ tick' = [tick EXCEPT !.scans = @ - 1]
            /\ UNCHANGED <<nonEmpty, total, hand, passed>>
       ELSE /\ queues' = [queues EXCEPT ![d] =
                            [(IF goes THEN Popped(q, old) ELSE q) EXCEPT !.deficit = rest]]
            /\ IF goes
               THEN /\ hand' = <<[pkt |-> e, lane |-> d]>>
                    /\ total' = Lower(total)
                    /\ nonEmpty' = IF IsEmpty(queues'[d]) THEN Lower(nonEmpty) ELSE nonEmpty
                    /\ passed' = IF control_q = <<>> THEN 0 ELSE passed + 1
                    /\ tick' = [tick EXCEPT !.pc = "burst"]
               ELSE /\ tick' = [tick EXCEPT !.scans = @ - 1]
                    /\ UNCHANGED <<nonEmpty, total, hand, passed>>
    /\ UNCHANGED <<lanes, order, budget, turns, config, limited, accepted, sent>>

\* No data packet may go: a control packet after all, or the tick is over.
ScanOver ==
    /\ tick.pc = "scan" /\ tick.scans = 0
    /\ IF control_q # <<>>
       THEN PopControl("burst")
       ELSE tick' = Idle /\ UNCHANGED <<control_q, total, hand, passed>>
    /\ UNCHANGED <<retransmit_q, peers, engine, accepted, sent>>

SendOk ==
    LET len == hand[1].pkt.len IN
    /\ hand # <<>>
    /\ sent' = sent \union {hand[1].pkt.id}
    /\ budget' = budget - len
    /\ tick' = IF tick.pc = "burst" THEN [tick EXCEPT !.left = @ - 1]
                                    ELSE [tick EXCEPT !.reserve = AfterReserved(len)]
    /\ hand' = <<>>
    /\ UNCHANGED <<lanes, peers, total, cursor, turns, config, limited, accepted, passed>>

\* Mutant of Requeue: a peer that was emptied by the pop is not counted again.
RequeueUncounted(lane, e) ==
    /\ retransmit_q' = IF lane = "retransmit" THEN <<e>> \o retransmit_q ELSE retransmit_q
    /\ control_q' = IF lane = "control" THEN <<e>> \o control_q ELSE control_q
    /\ queues' = IF lane \in Dests THEN [queues EXCEPT ![lane] = PushFront(@, e)] ELSE queues
    /\ nonEmpty' = nonEmpty

\* The socket does not take the packet: it goes back to the front of its queue.
Requeue(lane, e) ==
    /\ retransmit_q' = IF lane = "retransmit" THEN <<e>> \o retransmit_q ELSE retransmit_q
    /\ control_q' = IF lane = "control" THEN <<e>> \o control_q ELSE control_q
    /\ queues' = IF lane \in Dests THEN [queues EXCEPT ![lane] = PushFront(@, e)] ELSE queues
    /\ nonEmpty' = IF lane \in Dests /\ IsEmpty(queues[lane]) THEN nonEmpty + 1 ELSE nonEmpty

\* WouldBlock, or an error: the two differ in a count that only labels the tick's result.
SendFails ==
    /\ hand # <<>>
    /\ Requeue(hand[1].lane, hand[1].pkt)
    /\ total' = total + 1
    /\ tick' = Idle /\ hand' = <<>>
    /\ UNCHANGED <<order, budget, cursor, turns, config, limited, history>>

TickStep ==
    \/ TickDeadline \/ ShedDone \/ ReservedRetransmit \/ ReservedControl
    \/ BurstOver \/ PopRetransmit \/ ScanOver \/ SendOk \/ SendFails
    \/ \E b \in BOOLEAN : ShedScan(b) \/ Interleaved(b)
    \/ \E old, allowed \in BOOLEAN : ScanPeer(old, allowed)

Command ==
    \/ \E d \in Dests :
         \/ RemovePeer(d) \/ OnCcSample(d)
         \/ \E len \in Lens : EnqueuePeer(d, len)
         \/ \E a, b \in Lens : TryEnqueuePeerBatch(d, a, b)
    \/ \E len \in Lens : EnqueueControl(len) \/ EnqueueRetransmit(len)
    \/ \E cfg \in Configs : SetConfig(cfg)
    \/ \E b \in BOOLEAN : SetDrrEnabled(b) \/ SetBackgroundCc(b)
    \/ ResetSession

AnyTick == \E r \in Refills, burst \in Bursts, f \in BOOLEAN : TickStart(r, burst, f)

Next == Command \/ AnyTick \/ TickStep

Spec == Init /\ [][Next]_vars

-----------------------------------------------------------------------------
(* Properties.                                                             *)

\* queued_packets_total and non_empty_peers, which the fill ratio, shedding and DRR read
\* instead of the queues, agree with the queues after every enqueue, eviction, shedding,
\* removal, pop and putting back; and the limits they stand for are kept, also when a packet
\* is put back into a queue that was filled meanwhile (control packets aside, PopRetransmit).
CountersExact ==
    /\ total = Cardinality(Held) - Len(hand)
    /\ nonEmpty = Cardinality({d \in Range(order) : ~IsEmpty(queues[d])})
    /\ Len(retransmit_q) <= RetransmitCap /\ \A d \in Range(order) : Depth(queues[d]) <= DataCap

\* While a control packet waits at most three data packets are popped in a row, and at
\* most one when control packets fill half of their queue, whatever the number of peers,
\* ticks, frozen rounds and packets put back in between.  (Retransmissions put back among
\* them do not count: three data packets may have passed when one makes the queue half full.)
ControlInterleaved ==
    LET backlog == {e \in Range(control_q) : e.flow = Control}
    IN  passed <= (IF Cardinality(backlog) * 2 >= ControlCap THEN 1 ELSE 3)

\* The engine implements the promise of Shaper: no packet is sent twice, or after it was
\* discarded, or is forgotten while counted as queued; control packets and the large
\* packets of a peer leave in the order they came.  Small packets change lanes with the
\* configuration and retransmissions fall back among control packets when put back.
Shape == INSTANCE Shaper WITH
    Ordered <- {Control} \union (Dests \X {"bulk"}),
    waiting <- {[id |-> e.id, flow |-> e.flow] : e \in Entries},
    discarded <- (1..accepted) \ (Held \union sent)
Shapes == Shape!SSpec
=============================================================================
