------------------------------ MODULE FecCodec ------------------------------
(***************************************************************************)
(* Forward error correction between a sender and one peer: the choice of   *)
(* the ratio of data to parity shards, the encoder that gathers packets    *)
(* into groups, a network that loses, repeats and reorders shards, and the *)
(* decoder that rebuilds groups.  A push is one step here, from fec_send   *)
(* through the worker's handle_push; DataPath has the threads in between.  *)
(*                                                                         *)
(* Packets are numbered.  A shard carries the packets of its group instead *)
(* of a code word: any ds shards of a group rebuild them.  Loss is given   *)
(* in permille; delays, timeouts and hold windows are flags.               *)
(***************************************************************************)
EXTENDS Integers, Sequences, FiniteSets, FiniteSetsExt

CONSTANTS Ladder,           \* FEC_RATIO_LADDER: pairs <<data, parity>>, highest overhead first
          Steps,            \* the losses below which adaptive_fec_ratio is off, and on rung Len, ...
          OffBelow, OnAbove,
          MaxTotal,         \* FEC_MAX_TOTAL_SHARDS
          CompletedCap, MaxGroups,
          Losses, Forced    \* losses a pong may report, ratios a user may force

ASSUME FecAssumption ==
    /\ Ladder \in Seq((Nat \ {0}) \X (Nat \ {0})) /\ Ladder # <<>>
    /\ Steps \in Seq(Nat) /\ Len(Steps) = Len(Ladder)
    /\ OffBelow \in Nat /\ OnAbove \in Nat /\ MaxTotal \in Nat
    /\ Losses \subseteq Nat /\ Forced \subseteq Nat \X Nat
    /\ CompletedCap \in Nat \ {0} /\ MaxGroups \in Nat \ {0}

VARIABLES policy,           \* PeerFecSendState and the engine's forced ratio
          enc,              \* the encoder of the peer, or Absent
          salt,             \* group_salt of the next encoder: salts are taken to differ
          net,              \* shards in flight
          groups,           \* groups of the decoder by age
          completed,        \* completed_groups
          accepted, emitted, lost,  \* history: packets pushed, times emitted, dropped with an encoder
          log               \* history: groups in the order they were completed

send == <<policy, enc, salt, accepted, emitted, lost>>
receive == <<groups, completed, log>>
vars == <<send, net, receive>>

Off == <<0, 0>>
Unset == <<>>
Absent == [on |-> FALSE]
On(r) == r[1] > 0 /\ r[2] > 0

\* The packets gathered and not sent.
Pending == IF enc.on THEN Range(enc.buf) ELSE {}

Init ==
    /\ policy = [loss |-> 0, last |-> Unset, recent |-> FALSE, held |-> 0, forced |-> Unset]
    /\ enc = Absent /\ salt = 1 /\ net = {}
    /\ groups = <<>> /\ completed = <<>> /\ log = <<>>
    /\ accepted = 0 /\ emitted = <<>> /\ lost = {}

-----------------------------------------------------------------------------
(* The ratio.                                                              *)

AdaptiveRatio(loss) ==
    LET above == {i \in 1..Len(Steps) : loss >= Steps[i]} IN
    IF above = {} THEN Off ELSE Ladder[Len(Ladder) + 1 - Max(above)]

HystTuned(loss, prev) ==
    IF prev # Unset /\ On(prev)
    THEN IF loss < OffBelow THEN Off ELSE AdaptiveRatio(Max({loss, OffBelow + 1}))
    ELSE IF loss < OnAbove THEN Off ELSE AdaptiveRatio(loss)

\* parity / total of a, compared with that of b.
FracLess(a, b) == a[2] * (b[1] + b[2]) < b[2] * (a[1] + a[2])
FracSame(a, b) == a[2] * (b[1] + b[2]) = b[2] * (a[1] + a[2])

MoreParity(a, b) == FracLess(b, a) \/ (FracSame(a, b) /\ a[2] > b[2])
WouldIncreaseParity(prev, r) == On(r) /\ (prev = Unset \/ ~On(prev) \/ MoreParity(r, prev))
StrictlyLower(a, b) == IF On(a) THEN On(b) /\ MoreParity(b, a) ELSE On(b)

StepDown(prev) ==
    IF ~On(prev) THEN Off
    ELSE LET at == {i \in 1..Len(Ladder) : Ladder[i] = prev}
             lower == IF at # {} THEN {i \in 1..Len(Ladder) : i = Max(at) + 1}
                                 ELSE {i \in 1..Len(Ladder) : FracLess(Ladder[i], prev)}
         IN IF lower = {} THEN Off ELSE Ladder[Min(lower)]

\* Mutant of LossClassifier: the classifier holds increases only once FEC is on.
ClassifierWhenOn(r, last, congestive) ==
    IF congestive /\ last # Unset /\ On(last) /\ WouldIncreaseParity(last, r) THEN last ELSE r

\* congestive: the classifier is on, and the queuing delay the engine has cached for the
\* peer is above its threshold.
LossClassifier(r, last, congestive) ==
    IF congestive /\ WouldIncreaseParity(last, r) THEN (IF last = Unset THEN Off ELSE last) ELSE r

RecoveryStepDown(r, last, congestive, recent) ==
    IF last # Unset /\ On(last) /\ ~congestive /\ recent /\ ~StrictlyLower(r, last)
    THEN StepDown(last) ELSE r

\* The ratio fec_send asks for, before the hold window.
Proposed(congestive) ==
    IF policy.forced # Unset THEN policy.forced
    ELSE RecoveryStepDown(
           LossClassifier(HystTuned(policy.loss, policy.last), policy.last, congestive),
           policy.last, congestive, policy.recent \/ congestive)

\* A change soon after the last one is put off: within 2 s (held = 1) one that switches FEC on
\* or off, within 250 ms (held = 2) any.
Applied(r) ==
    IF /\ policy.forced = Unset /\ policy.last # Unset
       /\ policy.held = 2 \/ (policy.held = 1 /\ On(r) # On(policy.last))
    THEN policy.last ELSE r

-----------------------------------------------------------------------------
(* The encoder.  An output is a record of the encoder after it, the shards *)
(* it sends and the packets it lets pass uncoded.                          *)

NewEncoder(r) == [on |-> TRUE, ratio |-> r, buf |-> <<>>, seq |-> 1, salt |-> salt]
GroupId(e) == <<e.salt, e.seq>>

Buffered(e) == [enc |-> e, shards |-> {}, plain |-> <<>>]

\* Mutant of Emptied: the group number is not advanced.
EmptiedSameGroup(e) == [e EXCEPT !.buf = <<>>]

Emptied(e) == [e EXCEPT !.buf = <<>>, !.seq = @ + 1]

TakePassthrough(e) == [enc |-> Emptied(e), shards |-> {}, plain |-> e.buf]

Encode(e, parity) ==
    LET n == Len(e.buf) IN
    [enc |-> Emptied(e), plain |-> <<>>,
     shards |-> {[gid |-> GroupId(e), idx |-> i, ds |-> n, ps |-> parity, pkts |-> e.buf] :
                   i \in 0..(n + parity - 1)}]

\* Parity in proportion to the packets there are, rounded up, at least one.
DynamicParity(e) ==
    LET up == (Len(e.buf) * e.ratio[2] + e.ratio[1] - 1) \div e.ratio[1]
    IN Max({1, Min({up, e.ratio[2]})})

\* full: the queue of the peer, as last observed, has no room for the group.
Flush(e, full) ==
    IF e.buf = <<>> THEN Buffered(e)
    ELSE IF Len(e.buf) < 2 \/ full \/ Len(e.buf) + DynamicParity(e) > MaxTotal
         THEN TakePassthrough(e)
         ELSE Encode(e, DynamicParity(e))

FlushPassthrough(e) == IF e.buf = <<>> THEN Buffered(e) ELSE TakePassthrough(e)

\* Mutant of UpdateRatio: the packets gathered under the old ratio are cleared, not sent.
UpdateClears(e, r, full) ==
    IF e.ratio = r THEN Buffered(e)
    ELSE Buffered([e EXCEPT !.ratio = r, !.buf = <<>>, !.seq = @ + 1])

UpdateRatio(e, r, full) ==
    IF e.ratio = r THEN Buffered(e)
    ELSE LET out == Flush(e, full)
         IN [out EXCEPT !.enc = [out.enc EXCEPT !.ratio = r, !.seq = @ + 1]]

\* immediate: a packet so small that its group is not kept waiting.
PushOutput(e, p, full, immediate) ==
    LET grown == [e EXCEPT !.buf = Append(@, p)] IN
    IF Len(grown.buf) >= e.ratio[1]
    THEN IF full THEN TakePassthrough(grown) ELSE Encode(grown, e.ratio[2])
    ELSE IF immediate THEN Flush(grown, full) ELSE Buffered(grown)

\* What leaves the sender in a step.
Emitted(shards, plain) ==
    (UNION {Range(s.pkts) : s \in {x \in shards : x.idx = 0}}) \union Range(plain)

\* emitted counts, for each packet, how often it left, and is 0 for the packets of the step
\* that were not sent.
Count(n, parts) ==
    [p \in 1..n |-> (IF p <= Len(emitted) THEN emitted[p] ELSE 0)
                      + Cardinality({i \in 1..Len(parts) : p \in parts[i]})]

\* room: the worker's channel takes the push.
FecSend(congestive, full, immediate, room) ==
    LET want == Proposed(congestive)
        r == Applied(want)
        p == accepted + 1
        coded == On(r) /\ r[1] + r[2] <= MaxTotal /\ room
        old == IF enc.on THEN enc ELSE NewEncoder(r)
        first == UpdateRatio(old, r, full)
        second == PushOutput(first.enc, p, full, immediate)
    IN
    /\ policy' = [policy EXCEPT
            !.recent = @ \/ congestive,
            !.last = r,
            !.held = IF policy.forced # Unset \/ r # policy.last THEN 2 ELSE @]
    /\ accepted' = p
    /\ IF coded
       THEN /\ enc' = second.enc
            /\ salt' = IF enc.on THEN salt ELSE salt + 1
            /\ net' = net \union first.shards \union second.shards
            /\ emitted' = Count(p, <<Emitted(first.shards, first.plain),
                                     Emitted(second.shards, second.plain)>>)
       ELSE /\ emitted' = Count(p, <<{p}>>)
            /\ UNCHANGED <<enc, salt, net>>
    /\ UNCHANGED <<lost, receive>>

\* A packet too large for a shard, as configured or on the path, is never coded.
Bypass ==
    /\ accepted' = accepted + 1
    /\ emitted' = Count(accepted', <<{accepted'}>>)
    /\ UNCHANGED <<policy, enc, salt, net, lost, receive>>

\* The outcome of a flush of the worker.
Flushed(out) ==
    /\ net' = net \union out.shards
    /\ emitted' = Count(accepted, <<Emitted(out.shards, out.plain)>>)
    /\ UNCHANGED <<policy, salt, accepted, lost, receive>>

\* Mutant of FlushDue: a group of one packet waits for a second.
FlushDueTwo(full, drain) ==
    LET out == IF drain THEN FlushPassthrough(enc) ELSE Flush(enc, full) IN
    /\ enc.on /\ Len(enc.buf) >= 2
    /\ enc' = out.enc /\ Flushed(out)

\* A group whose timeout has passed, at a tick; drain: APD asks for no more parity.
FlushDue(full, drain) ==
    LET out == IF drain THEN FlushPassthrough(enc) ELSE Flush(enc, full) IN
    /\ enc.on /\ enc.buf # <<>>
    /\ enc' = out.enc /\ Flushed(out)

\* flush_all, of a new configuration or shard size: the encoder goes too.
FlushAll(full) ==
    /\ enc.on
    /\ enc' = Absent /\ Flushed(Flush(enc, full))

\* The peer is removed: what its encoder has gathered is dropped.
RemovePeer ==
    /\ enc.on \/ policy.last # Unset
    /\ enc' = Absent /\ lost' = lost \union Pending
    /\ policy' = [policy EXCEPT !.loss = 0, !.last = Unset, !.recent = FALSE, !.held = 0]
    /\ UNCHANGED <<salt, net, accepted, emitted, receive>>

SetFecConfig(r, full) ==
    LET out == IF enc.on THEN Flush(enc, full) ELSE [shards |-> {}, plain |-> <<>>] IN
    /\ r # policy.forced
    /\ policy' = [policy EXCEPT !.forced = r]
    /\ enc' = Absent
    /\ net' = net \union out.shards
    /\ emitted' = Count(accepted, <<Emitted(out.shards, out.plain)>>)
    /\ UNCHANGED <<salt, accepted, lost, receive>>

HandlePong(loss) ==
    /\ policy' = [policy EXCEPT !.loss = loss]
    /\ UNCHANGED <<enc, salt, accepted, emitted, lost, net, receive>>

\* The hold window or the recency of the last congestive sample passes.
TimePasses ==
    /\ \/ policy.held > 0 /\ policy' = [policy EXCEPT !.held = @ - 1]
       \/ policy.recent /\ policy' = [policy EXCEPT !.recent = FALSE]
    /\ UNCHANGED <<enc, salt, accepted, emitted, lost, net, receive>>

-----------------------------------------------------------------------------
(* The decoder.                                                            *)

Same(g, s) == g.gid = s.gid
Fits(g, s) == g.ds = s.ds /\ g.ps = s.ps

NoteCompleted(gid) ==
    Append(IF Len(completed) >= CompletedCap THEN Tail(completed) ELSE completed, gid)

\* The group of s among gs, opened if there is none; the oldest makes room.
Opened(s) ==
    LET room == IF Len(groups) >= MaxGroups THEN Tail(groups) ELSE groups IN
    IF \E i \in 1..Len(groups) : Same(groups[i], s) THEN groups
    ELSE Append(room, [gid |-> s.gid, ds |-> s.ds, ps |-> s.ps, got |-> {}, pkts |-> s.pkts])

Without(gs, i) == SubSeq(gs, 1, i - 1) \o SubSeq(gs, i + 1, Len(gs))

PushShard(s) ==
    LET opened == Opened(s)
        i == CHOOSE k \in 1..Len(opened) : Same(opened[k], s)
        g == [opened[i] EXCEPT !.got = @ \union {s.idx}]
    IN
    IF s.gid \in Range(completed)
    THEN UNCHANGED receive
    ELSE IF ~Fits(opened[i], s)
    THEN groups' = Without(opened, i) /\ UNCHANGED <<completed, log>>
    ELSE IF Cardinality(g.got) >= g.ds
    THEN /\ groups' = Without(opened, i)
         /\ completed' = NoteCompleted(s.gid)
         /\ log' = Append(log, s.gid)
    ELSE groups' = [opened EXCEPT ![i] = g] /\ UNCHANGED <<completed, log>>

Receive(s, again) ==
    /\ s \in net
    /\ net' = IF again THEN net ELSE net \ {s}
    /\ PushShard(s)
    /\ UNCHANGED send

Lose(s) == s \in net /\ net' = net \ {s} /\ UNCHANGED <<send, receive>>

\* Groups older than group_ttl go, at a shard or when the decoders are pruned.
EvictExpired ==
    /\ groups # <<>>
    /\ \E n \in 1..Len(groups) : groups' = SubSeq(groups, n + 1, Len(groups))
    /\ UNCHANGED <<send, net, completed, log>>

\* The decoder goes with the route, or when FEC is switched off, and starts anew.
DropDecoder ==
    /\ groups # <<>> \/ completed # <<>>
    /\ groups' = <<>> /\ completed' = <<>>
    /\ log' = <<>>
    /\ UNCHANGED <<send, net>>

Pushes == Bypass \/ \E c, f, i, room \in BOOLEAN : FecSend(c, f, i, room)
Tick == \E f, d \in BOOLEAN : FlushDue(f, d)

Next ==
    \/ Pushes \/ Tick \/ RemovePeer \/ TimePasses
    \/ \E f \in BOOLEAN : FlushAll(f) \/ \E r \in Forced \union {Unset} : SetFecConfig(r, f)
    \/ \E l \in Losses : HandlePong(l)
    \/ \E s \in net : Lose(s) \/ \E again \in BOOLEAN : Receive(s, again)
    \/ EvictExpired \/ DropDecoder

Spec == Init /\ [][Next]_vars

-----------------------------------------------------------------------------
(* Properties.                                                             *)

\* Through flushes, changes of ratio, small packets that close their group and removals,
\* every packet handed to fec_send is gathered, or dropped with its peer, or has left
\* exactly once, coded or not.
EmittedOnce ==
    \A p \in 1..accepted :
      emitted[p] = IF p \in Pending \union lost THEN 0 ELSE 1

\* The decoder never meets a shard that contradicts the group it files it under, whatever
\* the order of the shards of two encoders and of groups before and after a change of
\* ratio, and an open group can still be completed.  A group is delivered again, by late
\* parity or repeated shards, only after as many others as the decoder remembers.
GroupsCoherent ==
    /\ \A i \in 1..Len(groups) :
         /\ \A s \in net : Same(groups[i], s) => Fits(groups[i], s) /\ groups[i].pkts = s.pkts
         /\ Cardinality(groups[i].got) < groups[i].ds
    /\ \A i, j \in 1..Len(groups) : i # j => groups[i].gid # groups[j].gid
    /\ \A i, j \in 1..Len(log) : i < j /\ log[i] = log[j] => j - i > CompletedCap

\* With the loss classifier on, no packet is coded with more parity than the last while the
\* queuing delay is congestive, unless the user forces a ratio.
NoParityIntoCongestion ==
    [][\A f, i, room \in BOOLEAN :
         accepted' > accepted /\ policy.forced = Unset /\ FecSend(TRUE, f, i, room)
           => ~WouldIncreaseParity(policy.last, policy'.last)]_vars
=============================================================================
