-------------------------- MODULE PacingQueueProofs --------------------------
(***************************************************************************)
(* The inductive invariant of Pacing, what the operations on queues do to  *)
(* it, and the steps that enqueue packets.                                 *)
(***************************************************************************)
EXTENDS Pacing, FiniteSetTheorems, TLAPS

-----------------------------------------------------------------------------
(* Sequences.                                                              *)

Injective(s) == \A i, j \in 1..Len(s) : s[i] = s[j] => i = j
Rising(s) == \A i, j \in 1..Len(s) : i < j => s[i].id < s[j].id
ControlRising(s) ==
    \A i, j \in 1..Len(s) : i < j /\ s[i].flow = Control /\ s[j].flow = Control => s[i].id < s[j].id

\* The set of a sequence's elements.
LEMMA InSet ==
    ASSUME NEW S, NEW s \in Seq(S)
    PROVE  /\ Range(s) = {s[i] : i \in 1..Len(s)} /\ Range(s) \subseteq S
           /\ (s = <<>> <=> Len(s) = 0) /\ (s = <<>> <=> Range(s) = {})
BY DEF Range

\* What is appended joins the end.
LEMMA Appended ==
    ASSUME NEW S, NEW s \in Seq(S), NEW e \in S, e \notin Range(s), Injective(s)
    PROVE  LET t == Append(s, e) IN
           /\ t \in Seq(S) /\ Injective(t) /\ Len(t) = Len(s) + 1 /\ Range(t) = Range(s) \union {e}
<1> DEFINE t == Append(s, e)
<1>1. t \in Seq(S) /\ Len(t) = Len(s) + 1 /\ Len(s) \in Nat /\ t[Len(t)] = e
      /\ \A i \in 1..Len(s) : t[i] = s[i]
  OBVIOUS
<1> HIDE DEF t
<1>2. \A i \in 1..Len(s) : s[i] # e
  BY InSet
<1>3. Injective(t)
  BY <1>1, <1>2 DEF Injective
<1>4. Range(t) = Range(s) \union {e}
  BY <1>1, InSet
<1> QED
  BY <1>1, <1>3, <1>4 DEF t

\* What is put back comes first.
LEMMA PutBack ==
    ASSUME NEW S, NEW s \in Seq(S), NEW e \in S, e \notin Range(s), Injective(s)
    PROVE  LET t == <<e>> \o s IN
           /\ t \in Seq(S) /\ Injective(t) /\ Len(t) = Len(s) + 1 /\ Range(t) = Range(s) \union {e}
           /\ t[1] = e /\ \A i \in 2..Len(t) : t[i] = s[i - 1]
<1> DEFINE t == <<e>> \o s
<1>1. t \in Seq(S) /\ Len(t) = Len(s) + 1 /\ Len(s) \in Nat /\ t[1] = e
      /\ \A i \in 2..Len(t) : t[i] = s[i - 1]
  OBVIOUS
<1>5. \A i \in 1..Len(s) : t[i + 1] = s[i]
  BY <1>1
<1> HIDE DEF t
<1>2. \A i \in 1..Len(s) : s[i] # e
  BY InSet
<1>3. Injective(t)
  <2> SUFFICES ASSUME NEW i \in 1..Len(t), NEW j \in 1..Len(t), t[i] = t[j] PROVE i = j
    BY DEF Injective
  <2>1. CASE i = 1 \/ j = 1
    BY <1>1, <1>2, <2>1
  <2>2. CASE i # 1 /\ j # 1
    <3>1. i - 1 \in 1..Len(s) /\ j - 1 \in 1..Len(s) /\ t[i] = s[i - 1] /\ t[j] = s[j - 1]
      BY <1>1, <2>2
    <3>2. i - 1 = j - 1
      BY <3>1 DEF Injective
    <3> QED
      BY <3>2
  <2> QED
    BY <2>1, <2>2
<1>4. Range(t) = Range(s) \union {e}
  <2>1. Range(t) = {t[i] : i \in 1..Len(t)} /\ Range(s) = {s[i] : i \in 1..Len(s)}
    BY <1>1, InSet
  <2>2. ASSUME NEW i \in 1..Len(t) PROVE t[i] = e \/ t[i] \in Range(s)
    <3>1. i = 1 \/ (i - 1 \in 1..Len(s) /\ t[i] = s[i - 1])
      BY <1>1
    <3> QED
      BY <1>1, <2>1, <3>1
  <2>3. ASSUME NEW i \in 1..Len(s) PROVE s[i] \in Range(t)
    <3>1. i + 1 \in 1..Len(t) /\ t[i + 1] = s[i]
      BY <1>1, <1>5
    <3> QED
      BY <2>1, <3>1
  <2>4. e \in Range(t)
    BY <1>1, <2>1
  <2> QED
    BY <2>1, <2>2, <2>3, <2>4
<1> QED
  BY <1>1, <1>3, <1>4 DEF t

\* A queue without its first packet.
LEMMA Shortened ==
    ASSUME NEW S, NEW s \in Seq(S), s # <<>>, Injective(s)
    PROVE  LET t == Tail(s) IN
           /\ t \in Seq(S) /\ Injective(t) /\ Len(t) = Len(s) - 1
           /\ Range(t) = Range(s) \ {Head(s)} /\ Head(s) \in Range(s) /\ Head(s) \notin Range(t)
           /\ Head(s) = s[1] /\ \A i \in 1..Len(t) : t[i] = s[i + 1]
<1> DEFINE t == Tail(s)
<1>1. t \in Seq(S) /\ Len(t) = Len(s) - 1 /\ Len(s) \in Nat \ {0} /\ Head(s) = s[1]
      /\ \A i \in 1..Len(t) : t[i] = s[i + 1]
  OBVIOUS
<1> HIDE DEF t
<1>2. Injective(t)
  <2> SUFFICES ASSUME NEW i \in 1..Len(t), NEW j \in 1..Len(t), t[i] = t[j] PROVE i = j
    BY DEF Injective
  <2>1. i + 1 \in 1..Len(s) /\ j + 1 \in 1..Len(s) /\ s[i + 1] = s[j + 1]
    BY <1>1
  <2>2. i + 1 = j + 1
    BY <2>1 DEF Injective
  <2> QED
    BY <2>2
<1>3. Range(t) = {t[i] : i \in 1..Len(t)} /\ Range(s) = {s[i] : i \in 1..Len(s)}
  BY <1>1, InSet
<1>4. Head(s) \in Range(s)
  BY <1>1, <1>3
<1>5. ASSUME NEW i \in 1..Len(t) PROVE t[i] \in Range(s) /\ t[i] # Head(s)
  <2>1. i + 1 \in 1..Len(s) /\ 1 \in 1..Len(s) /\ i + 1 # 1
    BY <1>1
  <2> QED
    BY <1>1, <1>3, <2>1 DEF Injective
<1>6. ASSUME NEW i \in 1..Len(s), s[i] # Head(s) PROVE s[i] \in Range(t)
  <2>1. i # 1 /\ i - 1 \in 1..Len(t) /\ (i - 1) + 1 = i
    BY <1>1, <1>6
  <2>2. t[i - 1] = s[i]
    BY <1>1, <2>1
  <2> QED
    BY <1>3, <2>1, <2>2
<1>7. Range(t) = Range(s) \ {Head(s)}
  BY <1>3, <1>5, <1>6
<1> QED
  BY <1>1, <1>2, <1>4, <1>7 DEF t

\* A queue that made room for one more packet.
LEMMA MadeRoom ==
    ASSUME NEW S, NEW s \in Seq(S), Injective(s), NEW cap \in Nat \ {0}
    PROVE  LET t == Trimmed(s, cap) IN
           /\ t \in Seq(S) /\ Injective(t) /\ Len(t) < cap /\ Range(t) \subseteq Range(s)
           /\ ControlRising(s) => ControlRising(t)
<1> DEFINE t == Trimmed(s, cap)
           k == Len(s) - cap + 1
<1>1. CASE Len(s) < cap
  BY <1>1 DEF Trimmed
<1>2. CASE ~(Len(s) < cap)
  <2>1. t = SubSeq(s, k + 1, Len(s)) /\ k \in Nat /\ Len(s) \in Nat /\ k <= Len(s)
    BY <1>2 DEF Trimmed
  <2> HIDE DEF t, k
  <2>2. t \in Seq(S) /\ Len(t) = Len(s) - k /\ \A i \in 1..Len(t) : t[i] = s[i + k]
    BY <2>1
  <2>3. \A i \in 1..Len(t) : i + k \in 1..Len(s)
    BY <2>1, <2>2
  <2>4. Injective(t)
    <3> SUFFICES ASSUME NEW i \in 1..Len(t), NEW j \in 1..Len(t), t[i] = t[j] PROVE i = j
      BY DEF Injective
    <3>1. i + k = j + k
      BY <2>2, <2>3 DEF Injective
    <3> QED
      BY <2>1, <3>1
  <2>5. Range(t) \subseteq Range(s)
    BY <2>2, <2>3, InSet
  <2>6. Len(t) < cap
    BY <2>1, <2>2 DEF k
  <2>7. ASSUME ControlRising(s) PROVE ControlRising(t)
    <3> SUFFICES ASSUME NEW i \in 1..Len(t), NEW j \in 1..Len(t), i < j,
                        t[i].flow = Control, t[j].flow = Control
                 PROVE  t[i].id < t[j].id
      BY DEF ControlRising
    <3>1. i + k < j + k
      BY <2>1
    <3> QED
      BY <2>2, <2>3, <2>7, <3>1 DEF ControlRising
  <2> QED
    BY <2>2, <2>4, <2>5, <2>6, <2>7 DEF t
<1> QED
  BY <1>1, <1>2

\* There are as many packets in a queue as places.
LEMMA Places ==
    ASSUME NEW S, NEW s \in Seq(S), Injective(s)
    PROVE  IsFiniteSet(Range(s)) /\ Cardinality(Range(s)) = Len(s)
<1> DEFINE f == [i \in 1..Len(s) |-> s[i]]
<1>1. Range(s) = {s[i] : i \in 1..Len(s)} /\ Len(s) \in Nat
  BY InSet
<1>2. f \in Bijection(1..Len(s), Range(s))
  BY <1>1 DEF Injective, Bijection, Injection, Surjection, IsInjective
<1>3. ExistsBijection(1..Len(s), Range(s))
  BY <1>2 DEF ExistsBijection
<1> QED
  BY <1>1, <1>3, FS_CountingElements, FS_NatBijection

-----------------------------------------------------------------------------
(* Sets that change.                                                       *)

\* A queue without the element in one place.
LEMMA TakenOut ==
    ASSUME NEW S, NEW s \in Seq(S), Injective(s), NEW k \in 1..Len(s)
    PROVE  LET t == Without(s, k) IN
           /\ t \in Seq(S) /\ Injective(t) /\ Len(t) = Len(s) - 1 /\ Range(t) = Range(s) \ {s[k]}
<1> DEFINE t == Without(s, k)
           a == SubSeq(s, 1, k - 1)
           b == SubSeq(s, k + 1, Len(s))
<1>1. /\ a \in Seq(S) /\ Len(a) = k - 1 /\ \A i \in 1..(k - 1) : a[i] = s[i]
      /\ b \in Seq(S) /\ Len(b) = Len(s) - k /\ \A i \in 1..(Len(s) - k) : b[i] = s[i + k]
      /\ Len(s) \in Nat
  OBVIOUS
<1>2. t = a \o b
  BY DEF Without
<1> HIDE DEF t, a, b
<1>3. /\ t \in Seq(S) /\ Len(t) = Len(s) - 1
      /\ \A i \in 1..Len(t) : t[i] = IF i < k THEN a[i] ELSE b[i - (k - 1)]
  BY <1>1, <1>2
<1>4. ASSUME NEW i \in 1..Len(t) PROVE t[i] = IF i < k THEN s[i] ELSE s[i + 1]
  <2>1. CASE i < k
    BY <1>1, <1>3, <2>1
  <2>2. CASE ~(i < k)
    <3>1. i - (k - 1) \in 1..(Len(s) - k) /\ (i - (k - 1)) + k = i + 1
      BY <1>1, <1>3, <2>2
    <3>2. b[i - (k - 1)] = s[i + 1]
      BY <1>1, <3>1
    <3> QED
      BY <1>3, <2>2, <3>2
  <2> QED
    BY <2>1, <2>2
<1>5. Injective(t)
  <2> SUFFICES ASSUME NEW i \in 1..Len(t), NEW j \in 1..Len(t), t[i] = t[j] PROVE i = j
    BY DEF Injective
  <2> DEFINE u == IF i < k THEN i ELSE i + 1
             v == IF j < k THEN j ELSE j + 1
  <2>1. u \in 1..Len(s) /\ v \in 1..Len(s) /\ s[u] = s[v]
    BY <1>1, <1>3, <1>4
  <2>2. u = v
    BY <2>1 DEF Injective
  <2> QED
    BY <2>2
<1>6. Range(t) = {t[i] : i \in 1..Len(t)} /\ Range(s) = {s[i] : i \in 1..Len(s)}
  BY <1>3, InSet
<1>7. ASSUME NEW i \in 1..Len(t) PROVE t[i] \in Range(s) /\ t[i] # s[k]
  <2> DEFINE u == IF i < k THEN i ELSE i + 1
  <2>1. u \in 1..Len(s) /\ u # k /\ t[i] = s[u]
    <3>1. i \in Nat /\ i < Len(s) /\ i >= 1
      BY <1>1, <1>3
    <3> QED
      BY <1>1, <1>4, <3>1
  <2> HIDE DEF u
  <2>2. s[u] # s[k]
    BY <2>1 DEF Injective
  <2> QED
    BY <1>6, <2>1, <2>2
<1>8. ASSUME NEW i \in 1..Len(s), i # k PROVE s[i] \in Range(t)
  <2> DEFINE u == IF i < k THEN i ELSE i - 1
  <2>1. u \in 1..Len(t) /\ (u < k => u = i) /\ (~(u < k) => u + 1 = i)
    BY <1>1, <1>3, <1>8
  <2>2. t[u] = s[i]
    BY <1>4, <2>1
  <2> QED
    BY <1>6, <2>1, <2>2
<1>9. Range(t) = Range(s) \ {s[k]}
  BY <1>6, <1>7, <1>8
<1> QED
  BY <1>3, <1>5, <1>9 DEF t

\* A part X of the set E is exchanged for Y, which gives F.
Exchange(E, X, Y, F) == X \subseteq E /\ Y \intersect (E \ X) = {} /\ F = (E \ X) \union Y

\* The size of a set after an exchange.
LEMMA Exchanged ==
    ASSUME NEW E, NEW X, NEW Y, NEW F, Exchange(E, X, Y, F), IsFiniteSet(E), IsFiniteSet(Y)
    PROVE  /\ Cardinality(E) \in Nat /\ Cardinality(X) \in Nat /\ Cardinality(Y) \in Nat
           /\ Cardinality(X) <= Cardinality(E)
           /\ IsFiniteSet(F) /\ Cardinality(F) \in Nat
           /\ Cardinality(F) = Cardinality(E) - Cardinality(X) + Cardinality(Y)
<1> DEFINE A == E \ X
<1>1. X = E \intersect X /\ A \intersect Y = {} /\ X \subseteq E /\ F = A \union Y
  BY DEF Exchange
<1>2. IsFiniteSet(X) /\ IsFiniteSet(A) /\ Cardinality(A) = Cardinality(E) - Cardinality(X)
      /\ Cardinality(X) <= Cardinality(E)
  <2>1. IsFiniteSet(X) /\ Cardinality(X) <= Cardinality(E)
    BY <1>1, FS_Subset
  <2>2. IsFiniteSet(A) /\ Cardinality(A) = Cardinality(E) - Cardinality(E \intersect X)
    BY FS_Difference
  <2> QED
    BY <1>1, <2>1, <2>2
<1> HIDE DEF A
<1>3. IsFiniteSet(F) /\ Cardinality(F) = Cardinality(A) + Cardinality(Y) - Cardinality(A \intersect Y)
  <2>1. IsFiniteSet(A \union Y)
        /\ Cardinality(A \union Y) = Cardinality(A) + Cardinality(Y) - Cardinality(A \intersect Y)
    BY <1>2, FS_Union
  <2> QED
    BY <1>1, <2>1
<1>4. Cardinality(A \intersect Y) = 0
  BY <1>1, FS_EmptySet
<1>5. /\ Cardinality(E) \in Nat /\ Cardinality(X) \in Nat /\ Cardinality(Y) \in Nat
      /\ Cardinality(F) \in Nat
  BY <1>2, <1>3, FS_CardinalityType
<1>6. Cardinality(F) = Cardinality(E) - Cardinality(X) + Cardinality(Y)
  BY <1>2, <1>3, <1>4, <1>5
<1> QED
  BY <1>2, <1>3, <1>5, <1>6

\* Packets with different numbers are as many as their numbers.
LEMMA Numbered ==
    ASSUME NEW E, IsFiniteSet(E), \A e, f \in E : e.id = f.id => e = f
    PROVE  Cardinality({e.id : e \in E}) = Cardinality(E)
<1> DEFINE N == {e.id : e \in E}
           g == [e \in E |-> e.id]
<1>1. g \in Bijection(E, N)
  BY DEF Bijection, Injection, Surjection, IsInjective
<1>2. ExistsBijection(E, N)
  BY <1>1 DEF ExistsBijection
<1> QED
  BY <1>2, FS_Bijection

-----------------------------------------------------------------------------
(* The inductive invariant, and what it says of one peer.                  *)

Flows == {Control, Retransmit} \union (Dests \X {"small", "bulk"})
Pkt == [id : Nat, len : Nat, flow : Flows]

\* The lanes of peer d.  Only small packets are in the small lane; the other lane has the
\* order in which packets came, whatever was put back.
LanesOk(d, q) ==
    /\ DOMAIN q = {"small", "bulk", "deficit", "streak"}
    /\ q.small \in Seq(Pkt) /\ q.bulk \in Seq(Pkt)
    /\ Injective(q.small) /\ Rising(q.bulk) /\ Range(q.small) \intersect Range(q.bulk) = {}
    /\ \A e \in Queued(q) : e.flow = FlowOf(d, e.len)
    /\ \A e \in Range(q.small) : e.len < SmallLen
    /\ Depth(q) <= DataCap

PeersOk(o, q) ==
    /\ o \in Seq(Dests) /\ Injective(o) /\ DOMAIN q = Range(o)
    /\ \A d \in Range(o) : LanesOk(d, q[d])

QueuesOk ==
    /\ control_q \in Seq(Pkt) /\ retransmit_q \in Seq(Pkt)
    /\ Injective(control_q) /\ Injective(retransmit_q)
    /\ Range(control_q) \intersect Range(retransmit_q) = {}
    /\ \A e \in Range(control_q) : e.flow \in {Control, Retransmit}
    /\ \A e \in Range(retransmit_q) : e.flow = Retransmit
    /\ ControlRising(control_q)
    /\ Len(retransmit_q) <= RetransmitCap
    /\ PeersOk(order, queues)

\* Packet e is in hand.  It came from the front of its lane, where there is still room for
\* it (a retransmission that pop_retransmit_for_send took becomes a control packet).
InHand(e, lane) ==
    /\ e \in Pkt /\ lane \in Dests \union {"control", "retransmit"}
    /\ hand = <<[pkt |-> e, lane |-> lane]>>
    /\ tick.pc \in {"rtx", "ctrl", "burst"}
    /\ e \notin Range(control_q) /\ e \notin Range(retransmit_q)
    /\ \A d \in Range(order) : e \notin Queued(queues[d])
    /\ lane = "control" =>
         /\ e.flow \in {Control, Retransmit}
         /\ e.flow = Control =>
              passed = 0 /\ \A x \in Range(control_q) : x.flow = Control => e.id < x.id
    /\ lane = "retransmit" => e.flow = Retransmit /\ Len(retransmit_q) < RetransmitCap
    /\ lane \in Dests =>
         /\ lane \in Range(order) /\ e.flow = FlowOf(lane, e.len)
         /\ Depth(queues[lane]) < DataCap
         /\ ~IsSmallPacket(e.len) => \A x \in Range(queues[lane].bulk) : e.id < x.id

HandOk == hand = <<>> \/ \E e, lane : InHand(e, lane)

\* Numbers are given once, and what has been sent is gone.
NumbersOk ==
    /\ accepted \in Nat /\ sent \subseteq 1..accepted
    /\ \A e \in Entries : e.id \in 1..accepted /\ e.id \notin sent
    /\ \A e, f \in Entries : e.id = f.id => e = f

BusyOf(o, q) == {d \in Range(o) : ~IsEmpty(q[d])}
Counted ==
    total = Cardinality(Entries) - Len(hand) /\ nonEmpty = Cardinality(BusyOf(order, queues))

TickOk ==
    /\ DOMAIN tick = {"pc", "left", "reserve", "scans", "freeze"}
    /\ tick.scans \in Nat /\ cursor \in Nat
    /\ tick.pc \in {"shed", "scan"} /\ tick.scans > 0 => order # <<>>
    /\ tick.pc = "scan" /\ InOrder => tick.scans <= Len(order)

\* Each packet that passed took a turn that was not the control packets' turn.
Backlog == {e \in Range(control_q) : e.flow = Control}
Half == Cardinality(Backlog) * 2 >= ControlCap
TurnsOk ==
    /\ turns \in 0..3 /\ passed \in 0..turns
    /\ control_q = <<>> => passed = 0
    /\ tick.pc = "scan" /\ control_q # <<>> => passed < turns
    /\ Half => passed = 0 \/ (passed = 1 /\ turns % 2 = 1)
    /\ Half /\ tick.pc = "scan" => passed = 0 /\ turns % 2 = 1

IInv == QueuesOk /\ HandOk /\ NumbersOk /\ Counted /\ TickOk /\ TurnsOk

HandOf(h) == {x.pkt : x \in Range(h)}
PeersOf(o, q) == UNION {Queued(q[d]) : d \in Range(o)}

\* The hand holds one packet or none.
LEMMA HandIs ==
    /\ HandOf(<<>>) = {} /\ Len(<<>>) = 0
    /\ \A e, lane : /\ HandOf(<<[pkt |-> e, lane |-> lane]>>) = {e}
                    /\ Len(<<[pkt |-> e, lane |-> lane]>>) = 1
                    /\ <<[pkt |-> e, lane |-> lane]>> # <<>>
                    /\ <<[pkt |-> e, lane |-> lane]>>[1].pkt = e
                    /\ <<[pkt |-> e, lane |-> lane]>>[1].lane = lane
BY DEF HandOf, Range

\* The flows of a peer are its own.
LEMMA FlowsApart ==
    /\ Control # Retransmit
    /\ \A d \in Dests : \A len : FlowOf(d, len) \in Flows /\ FlowOf(d, len) \notin {Control, Retransmit}
    /\ \A d, x, len, other : FlowOf(d, len) = FlowOf(x, other) => d = x /\ (len < SmallLen <=> other < SmallLen)
BY PacingAssumption DEF Control, Retransmit, FlowOf, Flows

\* Packets in rising order are different packets.
LEMMA RisingInjective ==
    ASSUME NEW s \in Seq(Pkt), Rising(s)
    PROVE  Injective(s)
<1> SUFFICES ASSUME NEW i \in 1..Len(s), NEW j \in 1..Len(s), s[i] = s[j] PROVE i = j
  BY DEF Injective
<1>1. s[i] \in Pkt
  OBVIOUS
<1>2. s[i].id \in Nat
  BY <1>1 DEF Pkt
<1> HIDE DEF Pkt
<1>3. ~(i < j) /\ ~(j < i)
  BY <1>2 DEF Rising
<1> QED
  BY <1>3

\* depth() counts the packets of both lanes.
LEMMA QueuedCard ==
    ASSUME NEW d, NEW q, LanesOk(d, q)
    PROVE  /\ IsFiniteSet(Queued(q)) /\ Cardinality(Queued(q)) = Depth(q) /\ Depth(q) \in Nat
           /\ IsEmpty(q) <=> Queued(q) = {}
           /\ Queued(q) \subseteq Pkt
<1>1. /\ q.small \in Seq(Pkt) /\ q.bulk \in Seq(Pkt) /\ Injective(q.small) /\ Injective(q.bulk)
      /\ Range(q.small) \intersect Range(q.bulk) = {}
  BY RisingInjective DEF LanesOk
<1>2. /\ IsFiniteSet(Range(q.small)) /\ Cardinality(Range(q.small)) = Len(q.small)
      /\ IsFiniteSet(Range(q.bulk)) /\ Cardinality(Range(q.bulk)) = Len(q.bulk)
      /\ Len(q.small) \in Nat /\ Len(q.bulk) \in Nat
  BY <1>1, Places
<1>3. Cardinality(Range(q.small) \intersect Range(q.bulk)) = 0
  BY <1>1, FS_EmptySet
<1> DEFINE a == Range(q.small)
           b == Range(q.bulk)
<1> HIDE DEF a, b
<1>7. IsFiniteSet(a \union b)
      /\ Cardinality(a \union b) = Cardinality(a) + Cardinality(b) - Cardinality(a \intersect b)
  BY <1>2, FS_Union DEF a, b
<1>4. IsFiniteSet(Queued(q)) /\ Cardinality(Queued(q)) = Len(q.small) + Len(q.bulk)
  BY <1>2, <1>3, <1>7 DEF Queued, a, b
<1>5. Queued(q) \subseteq Pkt
  BY <1>1, InSet DEF Queued
<1>6. IsEmpty(q) <=> Queued(q) = {}
  <2>1. Queued(q) = {} <=> Cardinality(Queued(q)) = 0
    BY <1>4, FS_EmptySet
  <2> QED
    BY <1>4, <2>1 DEF IsEmpty, Depth
<1>8. Cardinality(Queued(q)) = Depth(q) /\ Depth(q) \in Nat
  <2> DEFINE m == Len(q.small)
             n == Len(q.bulk)
  <2>1. m \in Nat /\ n \in Nat /\ Depth(q) = m + n
    BY <1>2 DEF Depth
  <2> HIDE DEF m, n
  <2>2. Depth(q) \in Nat
    BY <2>1
  <2> QED
    BY <1>4, <2>2 DEF Depth
<1> QED
  BY <1>4, <1>5, <1>6, <1>8

\* The queue that entry().or_default() makes is empty.
LEMMA NewQueueOk ==
    ASSUME NEW d
    PROVE  LanesOk(d, PeerDataQueue) /\ Queued(PeerDataQueue) = {} /\ IsEmpty(PeerDataQueue)
<1>1. <<>> \in Seq(Pkt) /\ Range(<<>>) = {} /\ Len(<<>>) = 0
  BY DEF Range
<1> QED
  BY <1>1, PacingAssumption
  DEF LanesOk, PeerDataQueue, Queued, Injective, Rising, IsEmpty, Depth

\* A peer gets a queue, or its queue changes: peers o with queues q become p with r.
Changed(o, q, p, r, d, nq) ==
    /\ p = (IF d \in Range(o) THEN o ELSE Append(o, d))
    /\ r = [x \in Range(o) \union {d} |-> IF x = d THEN nq ELSE q[x]]

\* What the peers hold after the queue of one of them changed.
LEMMA PeerExchange ==
    ASSUME NEW o, NEW q, PeersOk(o, q), NEW d \in Dests, NEW nq, LanesOk(d, nq),
           NEW p, NEW r, Changed(o, q, p, r, d, nq)
    PROVE  LET old == IF d \in Range(o) THEN Queued(q[d]) ELSE {} IN
           /\ PeersOk(p, r) /\ Range(p) = Range(o) \union {d}
           /\ r[d] = nq /\ \A x \in Range(o) \ {d} : r[x] = q[x]
           /\ PeersOf(p, r) = (PeersOf(o, q) \ old) \union Queued(nq)
           /\ BusyOf(p, r) = (BusyOf(o, q) \ {d}) \union (IF IsEmpty(nq) THEN {} ELSE {d})
<1> DEFINE old == IF d \in Range(o) THEN Queued(q[d]) ELSE {}
<1>1. p \in Seq(Dests) /\ Injective(p) /\ Range(p) = Range(o) \union {d}
  BY Appended DEF PeersOk, Changed
<1>2. DOMAIN r = Range(p) /\ r[d] = nq /\ \A x \in Range(o) \ {d} : r[x] = q[x]
  BY <1>1 DEF Changed
<1>3. PeersOk(p, r)
  BY <1>1, <1>2 DEF PeersOk
<1>4. ASSUME NEW x \in Range(o) \ {d} PROVE Queued(q[x]) \intersect old = {}
  <2>1. x \in Dests
    BY InSet DEF PeersOk
  <2> QED
    BY <2>1, FlowsApart DEF LanesOk, PeersOk
<1>5. PeersOf(p, r) = (PeersOf(o, q) \ old) \union Queued(nq)
  BY <1>1, <1>2, <1>4 DEF PeersOf
<1>6. BusyOf(p, r) = (BusyOf(o, q) \ {d}) \union (IF IsEmpty(nq) THEN {} ELSE {d})
  BY <1>1, <1>2 DEF BusyOf
<1> QED
  BY <1>1, <1>2, <1>3, <1>5, <1>6

-----------------------------------------------------------------------------
(* All that is held.                                                       *)

\* There are finitely many peers, and they hold finitely many packets.
LEMMA FinitePeers ==
    ASSUME QueuesOk
    PROVE  /\ IsFiniteSet(Range(order)) /\ Range(order) \subseteq Dests
           /\ IsFiniteSet(PeersOf(order, queues)) /\ PeersOf(order, queues) \subseteq Pkt
           /\ IsFiniteSet(BusyOf(order, queues)) /\ Cardinality(BusyOf(order, queues)) \in Nat
<1>1. IsFiniteSet(Range(order)) /\ Range(order) \subseteq Dests
  BY Places, InSet DEF QueuesOk, PeersOk
<1>2. \A d \in Range(order) : IsFiniteSet(Queued(queues[d])) /\ Queued(queues[d]) \subseteq Pkt
  BY QueuedCard DEF QueuesOk, PeersOk
<1> DEFINE T == {Queued(queues[d]) : d \in Range(order)}
           f == [d \in Range(order) |-> Queued(queues[d])]
<1>3. f \in Surjection(Range(order), T)
  BY DEF Surjection
<1>4. IsFiniteSet(T)
  BY <1>1, <1>3, FS_Surjection
<1>5. IsFiniteSet(UNION T)
  BY <1>2, <1>4, FS_UNION
<1>6. IsFiniteSet(BusyOf(order, queues)) /\ Cardinality(BusyOf(order, queues)) \in Nat
  BY <1>1, FS_Subset, FS_CardinalityType DEF BusyOf
<1> QED
  BY <1>1, <1>2, <1>5, <1>6 DEF PeersOf

\* What the engine holds, part by part.
LEMMA FiniteEntries ==
    ASSUME QueuesOk, HandOk
    PROVE  /\ Entries = (Range(control_q) \union Range(retransmit_q))
                        \union (HandOf(hand) \union PeersOf(order, queues))
           /\ IsFiniteSet(Entries) /\ Cardinality(Entries) \in Nat /\ Entries \subseteq Pkt
<1>1. Entries = (Range(control_q) \union Range(retransmit_q))
                   \union (HandOf(hand) \union PeersOf(order, queues))
  BY DEF Entries, HandOf, PeersOf
<1>2. /\ IsFiniteSet(Range(control_q)) /\ Range(control_q) \subseteq Pkt
      /\ IsFiniteSet(Range(retransmit_q)) /\ Range(retransmit_q) \subseteq Pkt
  BY Places, InSet DEF QueuesOk, PeersOk
<1>3. IsFiniteSet(HandOf(hand)) /\ HandOf(hand) \subseteq Pkt
  <2>1. CASE hand = <<>>
    BY <2>1, HandIs, FS_EmptySet
  <2>2. CASE hand # <<>>
    <3>1. PICK e \in Pkt, lane \in Dests \union {"control", "retransmit"} : hand = <<[pkt |-> e, lane |-> lane]>>
      BY <2>2 DEF HandOk, InHand
    <3>2. HandOf(hand) = {e}
      BY <3>1, HandIs
    <3> QED
      BY <3>2, FS_Singleton
  <2> QED
    BY <2>1, <2>2
<1>4. IsFiniteSet(PeersOf(order, queues)) /\ PeersOf(order, queues) \subseteq Pkt
  BY FinitePeers
<1>5. IsFiniteSet(Range(control_q) \union Range(retransmit_q))
  BY <1>2, FS_Union
<1>6. IsFiniteSet(HandOf(hand) \union PeersOf(order, queues))
  BY <1>3, <1>4, FS_Union
<1>7. IsFiniteSet((Range(control_q) \union Range(retransmit_q))
                     \union (HandOf(hand) \union PeersOf(order, queues)))
  BY <1>5, <1>6, FS_Union
<1> QED
  BY <1>1, <1>2, <1>3, <1>4, <1>7, FS_CardinalityType

\* No packet of a peer is in the common queues.
LEMMA PeersApart ==
    ASSUME QueuesOk
    PROVE  /\ PeersOf(order, queues) \intersect (Range(control_q) \union Range(retransmit_q)) = {}
           /\ \A d \in Dests : /\ LanesOk(d, QueueOf(d))
                               /\ Queued(QueueOf(d)) \subseteq PeersOf(order, queues)
<1>1. PeersOf(order, queues) \intersect (Range(control_q) \union Range(retransmit_q)) = {}
  <2> SUFFICES ASSUME NEW d \in Range(order), NEW e \in Queued(queues[d])
               PROVE  e.flow \notin {Control, Retransmit}
    BY DEF PeersOf, QueuesOk, PeersOk
  <2>1. d \in Dests /\ LanesOk(d, queues[d])
    BY InSet DEF QueuesOk, PeersOk
  <2> QED
    BY <2>1, FlowsApart DEF LanesOk
<1>2. ASSUME NEW d \in Dests
      PROVE  LanesOk(d, QueueOf(d)) /\ Queued(QueueOf(d)) \subseteq PeersOf(order, queues)
  BY NewQueueOk DEF QueueOf, QueuesOk, PeersOk, PeersOf
<1> QED
  BY <1>1, <1>2

\* One peer's queue changes.
LEMMA PeerPart ==
    ASSUME QueuesOk, NEW d \in Dests, NEW nq, LanesOk(d, nq),
           order' = Entered(d), queues' = Keep(d, nq), UNCHANGED lanes
    PROVE  /\ QueuesOk' /\ Range(order') = Range(order) \union {d}
           /\ queues'[d] = nq /\ \A x \in Range(order) \ {d} : queues'[x] = queues[x]
           /\ PeersOf(order', queues') = (PeersOf(order, queues) \ Queued(QueueOf(d))) \union Queued(nq)
           /\ Cardinality(BusyOf(order', queues')) =
                (Cardinality(BusyOf(order, queues)) - (IF IsEmpty(QueueOf(d)) THEN 0 ELSE 1))
                + (IF IsEmpty(nq) THEN 0 ELSE 1)
           /\ ~IsEmpty(QueueOf(d)) => Cardinality(BusyOf(order, queues)) > 0
<1> DEFINE old == IF d \in Range(order) THEN Queued(queues[d]) ELSE {}
           B == BusyOf(order, queues)
<1>1. PeersOk(order, queues) /\ Changed(order, queues, order', queues', d, nq)
  BY DEF QueuesOk, Changed, Entered, Keep
<1>2. /\ PeersOk(order', queues') /\ Range(order') = Range(order) \union {d}
      /\ queues'[d] = nq /\ \A x \in Range(order) \ {d} : queues'[x] = queues[x]
      /\ PeersOf(order', queues') = (PeersOf(order, queues) \ old) \union Queued(nq)
      /\ BusyOf(order', queues') = (B \ {d}) \union (IF IsEmpty(nq) THEN {} ELSE {d})
  BY <1>1, PeerExchange
<1>3. QueuesOk'
  BY <1>2 DEF QueuesOk, lanes
<1>4. old = Queued(QueueOf(d))
  BY NewQueueOk DEF QueueOf
<1>5. d \in B <=> ~IsEmpty(QueueOf(d))
  BY NewQueueOk DEF BusyOf, QueueOf
<1>6. IsFiniteSet(B) /\ Cardinality(B) \in Nat
  BY FinitePeers
<1> HIDE DEF B
<1>7. /\ IsFiniteSet(B \ {d})
      /\ Cardinality(B \ {d}) = IF d \in B THEN Cardinality(B) - 1 ELSE Cardinality(B)
  BY <1>6, FS_RemoveElement
<1>8. Cardinality((B \ {d}) \union {d}) = Cardinality(B \ {d}) + 1
  BY <1>7, FS_AddElement
<1>9. d \in B => Cardinality(B) > 0
  <2>1. Cardinality(B) = 0 <=> B = {}
    BY <1>6, FS_EmptySet
  <2> QED
    BY <1>6, <2>1
<1>10. Cardinality(BusyOf(order', queues')) =
         (Cardinality(B) - (IF IsEmpty(QueueOf(d)) THEN 0 ELSE 1)) + (IF IsEmpty(nq) THEN 0 ELSE 1)
  <2>1. CASE IsEmpty(nq)
    <3>1. BusyOf(order', queues') = B \ {d}
      BY <1>2, <2>1
    <3> QED
      BY <1>5, <1>6, <1>7, <2>1, <3>1
  <2>2. CASE ~IsEmpty(nq)
    <3>1. BusyOf(order', queues') = (B \ {d}) \union {d}
      BY <1>2, <2>2
    <3> QED
      BY <1>5, <1>6, <1>7, <1>8, <2>2, <3>1
  <2> QED
    BY <2>1, <2>2
<1> QED
  BY <1>2, <1>3, <1>4, <1>5, <1>9, <1>10 DEF B

-----------------------------------------------------------------------------
(* The order of a queue.                                                   *)

\* A packet newer than all others keeps the order when it is appended.
LEMMA RisingAppended ==
    ASSUME NEW s \in Seq(Pkt), NEW e \in Pkt, \A x \in Range(s) : x.id < e.id
    PROVE  /\ Rising(s) => Rising(Append(s, e))
           /\ ControlRising(s) => ControlRising(Append(s, e))
<1> DEFINE t == Append(s, e)
<1>1. Len(t) = Len(s) + 1 /\ Len(s) \in Nat /\ t[Len(t)] = e /\ \A i \in 1..Len(s) : t[i] = s[i]
  OBVIOUS
<1>2. \A i \in 1..Len(s) : s[i].id < e.id
  BY InSet
<1> HIDE DEF t
<1>3. ASSUME NEW i \in 1..Len(t), NEW j \in 1..Len(t), i < j
      PROVE  /\ i \in 1..Len(s) /\ t[i] = s[i]
             /\ (j \in 1..Len(s) /\ t[j] = s[j]) \/ t[j] = e
  BY <1>1, <1>3
<1>4. Rising(s) => Rising(t)
  BY <1>2, <1>3 DEF Rising
<1>5. ControlRising(s) => ControlRising(t)
  BY <1>2, <1>3 DEF ControlRising
<1> QED
  BY <1>4, <1>5 DEF t

\* A packet older than all others keeps the order when it is put back.
LEMMA RisingPutBack ==
    ASSUME NEW s \in Seq(Pkt), NEW e \in Pkt
    PROVE  /\ Rising(s) /\ (\A x \in Range(s) : e.id < x.id) => Rising(<<e>> \o s)
           /\ ControlRising(s) /\ (e.flow = Control => \A x \in Range(s) : x.flow = Control => e.id < x.id)
              => ControlRising(<<e>> \o s)
<1> DEFINE t == <<e>> \o s
<1>1. Len(t) = Len(s) + 1 /\ Len(s) \in Nat /\ t[1] = e /\ \A i \in 2..Len(t) : t[i] = s[i - 1]
  OBVIOUS
<1> HIDE DEF t
<1>2. ASSUME NEW i \in 1..Len(t), NEW j \in 1..Len(t), i < j
      PROVE  /\ j - 1 \in 1..Len(s) /\ t[j] = s[j - 1] /\ s[j - 1] \in Range(s)
             /\ (i - 1 \in 1..Len(s) /\ i - 1 < j - 1 /\ t[i] = s[i - 1]) \/ t[i] = e
  <2>1. j - 1 \in 1..Len(s) /\ t[j] = s[j - 1]
    BY <1>1, <1>2
  <2>2. s[j - 1] \in Range(s)
    BY <2>1, InSet
  <2>3. (i - 1 \in 1..Len(s) /\ i - 1 < j - 1 /\ t[i] = s[i - 1]) \/ t[i] = e
    BY <1>1, <1>2
  <2> QED
    BY <2>1, <2>2, <2>3
<1>3. ASSUME Rising(s), \A x \in Range(s) : e.id < x.id PROVE Rising(t)
  BY <1>2, <1>3 DEF Rising
<1>4. ASSUME ControlRising(s), e.flow = Control => \A x \in Range(s) : x.flow = Control => e.id < x.id
      PROVE  ControlRising(t)
  BY <1>2, <1>4 DEF ControlRising
<1> QED
  BY <1>3, <1>4 DEF t

\* A queue without its first packet keeps the order, and that packet was the oldest.
LEMMA RisingShortened ==
    ASSUME NEW s \in Seq(Pkt), s # <<>>
    PROVE  /\ Rising(s) => Rising(Tail(s)) /\ \A x \in Range(Tail(s)) : Head(s).id < x.id
           /\ ControlRising(s) =>
                /\ ControlRising(Tail(s))
                /\ Head(s).flow = Control => \A x \in Range(Tail(s)) : x.flow = Control => Head(s).id < x.id
<1> DEFINE t == Tail(s)
<1>1. t \in Seq(Pkt) /\ Len(t) = Len(s) - 1 /\ Len(s) \in Nat \ {0} /\ Head(s) = s[1]
      /\ \A i \in 1..Len(t) : t[i] = s[i + 1]
  OBVIOUS
<1> HIDE DEF t
<1>2. \A i \in 1..Len(t) : i + 1 \in 1..Len(s) /\ 1 \in 1..Len(s) /\ 1 < i + 1
  BY <1>1
<1>3. \A x \in Range(t) : \E i \in 1..Len(t) : x = s[i + 1]
  BY <1>1, InSet
<1>4. ASSUME NEW i \in 1..Len(t), NEW j \in 1..Len(t), i < j PROVE i + 1 < j + 1
  BY <1>4
<1>5. ASSUME Rising(s) PROVE Rising(t) /\ \A x \in Range(t) : s[1].id < x.id
  BY <1>1, <1>2, <1>3, <1>4, <1>5 DEF Rising
<1>6. ASSUME ControlRising(s)
      PROVE  /\ ControlRising(t)
             /\ s[1].flow = Control => \A x \in Range(t) : x.flow = Control => s[1].id < x.id
  <2>1. ControlRising(t)
    BY <1>1, <1>2, <1>4, <1>6 DEF ControlRising
  <2>2. ASSUME s[1].flow = Control, NEW x \in Range(t), x.flow = Control PROVE s[1].id < x.id
    <3>1. PICK i \in 1..Len(t) : x = s[i + 1]
      BY <1>3
    <3> QED
      BY <1>2, <1>6, <2>2, <3>1 DEF ControlRising
  <2> QED
    BY <2>1, <2>2
<1> QED
  BY <1>1, <1>5, <1>6 DEF t

\* s and b may be the lanes of peer d.
TwoLanes(d, s, b) ==
    /\ s \in Seq(Pkt) /\ b \in Seq(Pkt)
    /\ Injective(s) /\ Rising(b) /\ Range(s) \intersect Range(b) = {}
    /\ \A e \in Range(s) \union Range(b) : e.flow = FlowOf(d, e.len)
    /\ \A e \in Range(s) : e.len < SmallLen
    /\ Len(s) + Len(b) <= DataCap

\* Lanes that may be those of a peer, whatever its deficit and streak.
LEMMA LanesAre ==
    ASSUME NEW d, NEW s, NEW b, TwoLanes(d, s, b),
           NEW r, DOMAIN r = {"small", "bulk", "deficit", "streak"}, r.small = s, r.bulk = b
    PROVE  LanesOk(d, r) /\ Queued(r) = Range(s) \union Range(b) /\ Depth(r) = Len(s) + Len(b)
BY DEF LanesOk, Queued, Depth, TwoLanes

\* A deficit does not touch the lanes.
LEMMA SameLanes ==
    ASSUME NEW d, NEW q, LanesOk(d, q), NEW x
    PROVE  LET r == [q EXCEPT !.deficit = x] IN
           /\ LanesOk(d, r) /\ Queued(r) = Queued(q) /\ Depth(r) = Depth(q)
           /\ r.small = q.small /\ r.bulk = q.bulk
<1> DEFINE r == [q EXCEPT !.deficit = x]
<1>1. DOMAIN r = {"small", "bulk", "deficit", "streak"} /\ r.small = q.small /\ r.bulk = q.bulk
  BY DEF LanesOk
<1> HIDE DEF r
<1> QED
  <2>1. LanesOk(d, r) /\ Queued(r) = Queued(q) /\ Depth(r) = Depth(q)
    BY <1>1 DEF LanesOk, Queued, Depth
  <2> QED
    BY <1>1, <2>1 DEF r

-----------------------------------------------------------------------------
(* The operations on the queue of one peer.                                *)

\* push_classified puts a new packet into one of the lanes.
LEMMA ClassifiedOk ==
    ASSUME NEW d, NEW q, LanesOk(d, q), NEW e \in Pkt, e.flow = FlowOf(d, e.len),
           \A x \in Queued(q) : x.id < e.id, e \notin Queued(q), Depth(q) < DataCap
    PROVE  LET r == Classified(q, e) IN
           LanesOk(d, r) /\ Queued(r) = Queued(q) \union {e} /\ Depth(r) = Depth(q) + 1
<1> DEFINE s == q.small
           b == q.bulk
           r == Classified(q, e)
<1>1. /\ DOMAIN q = {"small", "bulk", "deficit", "streak"}
      /\ s \in Seq(Pkt) /\ b \in Seq(Pkt) /\ Injective(s) /\ Rising(b) /\ Injective(b)
      /\ Range(s) \intersect Range(b) = {} /\ Queued(q) = Range(s) \union Range(b)
      /\ \A x \in Range(s) \union Range(b) : x.flow = FlowOf(d, x.len)
      /\ \A x \in Range(s) : x.len < SmallLen
      /\ Depth(q) = Len(s) + Len(b) /\ Len(s) \in Nat /\ Len(b) \in Nat
  BY RisingInjective DEF LanesOk, Queued, Depth
<1>2. CASE IsSmallPacket(e.len)
  <2> DEFINE t == Append(s, e)
  <2>1. r = [q EXCEPT !.small = t] /\ e.len < SmallLen
    BY <1>2 DEF Classified, IsSmallPacket
  <2>2. t \in Seq(Pkt) /\ Injective(t) /\ Len(t) = Len(s) + 1 /\ Range(t) = Range(s) \union {e}
    BY <1>1, Appended
  <2> HIDE DEF t
  <2>3. DOMAIN r = {"small", "bulk", "deficit", "streak"} /\ r.small = t /\ r.bulk = b
    BY <1>1, <2>1
  <2> HIDE DEF r, s, b
  <2>4. LanesOk(d, r) /\ Queued(r) = Range(t) \union Range(b) /\ Depth(r) = Len(t) + Len(b)
    <3>1. Len(t) + Len(b) <= DataCap
      BY <1>1, <2>1, <2>2, <2>3, PacingAssumption
    <3>2. TwoLanes(d, t, b)
      BY <1>1, <2>1, <2>2, <2>3, <3>1 DEF TwoLanes
    <3> QED
      BY <2>3, <3>2, LanesAre
  <2> QED
    BY <1>1, <2>2, <2>4 DEF r
<1>3. CASE ~IsSmallPacket(e.len)
  <2> DEFINE t == Append(b, e)
  <2>1. r = [q EXCEPT !.bulk = t]
    BY <1>3 DEF Classified
  <2>2. /\ t \in Seq(Pkt) /\ Len(t) = Len(b) + 1 /\ Range(t) = Range(b) \union {e}
        /\ Rising(t)
    BY <1>1, Appended, RisingAppended
  <2> HIDE DEF t
  <2>3. DOMAIN r = {"small", "bulk", "deficit", "streak"} /\ r.small = s /\ r.bulk = t
    BY <1>1, <2>1
  <2> HIDE DEF r, s, b
  <2>4. LanesOk(d, r) /\ Queued(r) = Range(s) \union Range(t) /\ Depth(r) = Len(s) + Len(t)
    <3>1. Len(s) + Len(t) <= DataCap
      BY <1>1, <2>2, <2>3, PacingAssumption
    <3>2. TwoLanes(d, s, t)
      BY <1>1, <2>2, <2>3, <3>1 DEF TwoLanes
    <3> QED
      BY <2>3, <3>2, LanesAre
  <2> QED
    BY <1>1, <2>2, <2>4 DEF r
<1> QED
  BY <1>2, <1>3

\* drop_oldest gives up one packet.
LEMMA DroppedOk ==
    ASSUME NEW d, NEW q, LanesOk(d, q), ~IsEmpty(q)
    PROVE  LET r == DropOldest(q) IN
           LanesOk(d, r) /\ Queued(r) \subseteq Queued(q) /\ Depth(r) = Depth(q) - 1
<1> DEFINE s == q.small
           b == q.bulk
           r == DropOldest(q)
<1>1. /\ DOMAIN q = {"small", "bulk", "deficit", "streak"}
      /\ s \in Seq(Pkt) /\ b \in Seq(Pkt) /\ Injective(s) /\ Rising(b) /\ Injective(b)
      /\ Range(s) \intersect Range(b) = {} /\ Queued(q) = Range(s) \union Range(b)
      /\ \A x \in Range(s) \union Range(b) : x.flow = FlowOf(d, x.len)
      /\ \A x \in Range(s) : x.len < SmallLen
      /\ Depth(q) = Len(s) + Len(b) /\ Len(s) \in Nat /\ Len(b) \in Nat /\ Depth(q) <= DataCap
  BY RisingInjective DEF LanesOk, Queued, Depth
<1>2. CASE b # <<>>
  <2> DEFINE t == Tail(b)
  <2>1. r = [q EXCEPT !.bulk = t]
    BY <1>2 DEF DropOldest
  <2>2. /\ t \in Seq(Pkt) /\ Len(t) = Len(b) - 1 /\ Range(t) \subseteq Range(b) /\ Rising(t)
    BY <1>1, <1>2, Shortened, RisingShortened
  <2> HIDE DEF t
  <2>3. DOMAIN r = {"small", "bulk", "deficit", "streak"} /\ r.small = s /\ r.bulk = t
    BY <1>1, <2>1
  <2> HIDE DEF r, s, b
  <2>4. LanesOk(d, r) /\ Queued(r) = Range(s) \union Range(t) /\ Depth(r) = Len(s) + Len(t)
    <3>1. Len(s) + Len(t) <= DataCap
      BY <1>1, <2>2, <2>3, PacingAssumption
    <3>2. TwoLanes(d, s, t)
      BY <1>1, <2>2, <2>3, <3>1 DEF TwoLanes
    <3> QED
      BY <2>3, <3>2, LanesAre
  <2> QED
    BY <1>1, <2>2, <2>4 DEF r
<1>3. CASE b = <<>>
  <2> DEFINE t == Tail(s)
  <2>1. r = [q EXCEPT !.small = t]
    BY <1>3 DEF DropOldest
  <2>2. s # <<>>
    BY <1>1, <1>3 DEF IsEmpty
  <2>3. t \in Seq(Pkt) /\ Injective(t) /\ Len(t) = Len(s) - 1 /\ Range(t) \subseteq Range(s)
    BY <1>1, <2>2, Shortened
  <2> HIDE DEF t
  <2>4. DOMAIN r = {"small", "bulk", "deficit", "streak"} /\ r.small = t /\ r.bulk = b
    BY <1>1, <2>1
  <2> HIDE DEF r, s, b
  <2>5. LanesOk(d, r) /\ Queued(r) = Range(t) \union Range(b) /\ Depth(r) = Len(t) + Len(b)
    <3>1. Len(t) + Len(b) <= DataCap
      BY <1>1, <2>3, <2>4, PacingAssumption
    <3>2. TwoLanes(d, t, b)
      BY <1>1, <2>3, <2>4, <3>1 DEF TwoLanes
    <3> QED
      BY <2>4, <3>2, LanesAre
  <2> QED
    BY <1>1, <2>3, <2>5 DEF r
<1> QED
  BY <1>2, <1>3

\* push_front puts a packet back in front of its lane.
LEMMA PushFrontOk ==
    ASSUME NEW d, NEW q, LanesOk(d, q), NEW e \in Pkt, e.flow = FlowOf(d, e.len),
           e \notin Queued(q), Depth(q) < DataCap,
           ~IsSmallPacket(e.len) => \A x \in Range(q.bulk) : e.id < x.id
    PROVE  LET r == PushFront(q, e) IN
           LanesOk(d, r) /\ Queued(r) = Queued(q) \union {e} /\ Depth(r) = Depth(q) + 1
<1> DEFINE s == q.small
           b == q.bulk
           r == PushFront(q, e)
<1>1. /\ DOMAIN q = {"small", "bulk", "deficit", "streak"}
      /\ s \in Seq(Pkt) /\ b \in Seq(Pkt) /\ Injective(s) /\ Rising(b) /\ Injective(b)
      /\ Range(s) \intersect Range(b) = {} /\ Queued(q) = Range(s) \union Range(b)
      /\ \A x \in Range(s) \union Range(b) : x.flow = FlowOf(d, x.len)
      /\ \A x \in Range(s) : x.len < SmallLen
      /\ Depth(q) = Len(s) + Len(b) /\ Len(s) \in Nat /\ Len(b) \in Nat
  BY RisingInjective DEF LanesOk, Queued, Depth
<1>2. CASE IsSmallPacket(e.len)
  <2> DEFINE t == <<e>> \o s
  <2>1. r = [q EXCEPT !.small = t] /\ e.len < SmallLen
    BY <1>2 DEF PushFront, IsSmallPacket
  <2>2. t \in Seq(Pkt) /\ Injective(t) /\ Len(t) = Len(s) + 1 /\ Range(t) = Range(s) \union {e}
    BY <1>1, PutBack
  <2> HIDE DEF t
  <2>3. DOMAIN r = {"small", "bulk", "deficit", "streak"} /\ r.small = t /\ r.bulk = b
    BY <1>1, <2>1
  <2> HIDE DEF r, s, b
  <2>4. LanesOk(d, r) /\ Queued(r) = Range(t) \union Range(b) /\ Depth(r) = Len(t) + Len(b)
    <3>1. Len(t) + Len(b) <= DataCap
      BY <1>1, <2>1, <2>2, <2>3, PacingAssumption
    <3>2. TwoLanes(d, t, b)
      BY <1>1, <2>1, <2>2, <2>3, <3>1 DEF TwoLanes
    <3> QED
      BY <2>3, <3>2, LanesAre
  <2> QED
    BY <1>1, <2>2, <2>4 DEF r
<1>3. CASE ~IsSmallPacket(e.len)
  <2> DEFINE t == <<e>> \o b
  <2>1. r = [q EXCEPT !.bulk = t]
    BY <1>3 DEF PushFront
  <2>2. /\ t \in Seq(Pkt) /\ Len(t) = Len(b) + 1 /\ Range(t) = Range(b) \union {e}
        /\ Rising(t)
    BY <1>1, <1>3, PutBack, RisingPutBack
  <2> HIDE DEF t
  <2>3. DOMAIN r = {"small", "bulk", "deficit", "streak"} /\ r.small = s /\ r.bulk = t
    BY <1>1, <2>1
  <2> HIDE DEF r, s, b
  <2>4. LanesOk(d, r) /\ Queued(r) = Range(s) \union Range(t) /\ Depth(r) = Len(s) + Len(t)
    <3>1. Len(s) + Len(t) <= DataCap
      BY <1>1, <2>2, <2>3, PacingAssumption
    <3>2. TwoLanes(d, s, t)
      BY <1>1, <2>2, <2>3, <3>1 DEF TwoLanes
    <3> QED
      BY <2>3, <3>2, LanesAre
  <2> QED
    BY <1>1, <2>2, <2>4 DEF r
<1> QED
  BY <1>2, <1>3

\* What pop_front takes off the lanes of a peer.
LEMMA PoppedOk ==
    ASSUME NEW d, NEW q, LanesOk(d, q), ~IsEmpty(q), NEW old \in BOOLEAN
    PROVE  LET r == Popped(q, old)
               e == FrontOf(q, old)
           IN  /\ LanesOk(d, r) /\ Depth(r) = Depth(q) - 1
               /\ e \in Queued(q) /\ e \notin Queued(r) /\ Queued(r) = Queued(q) \ {e}
               /\ e \in Pkt /\ e.flow = FlowOf(d, e.len)
               /\ ~IsSmallPacket(e.len) => \A x \in Range(r.bulk) : e.id < x.id
<1> DEFINE s == q.small
           b == q.bulk
           r == Popped(q, old)
           e == FrontOf(q, old)
<1>1. /\ DOMAIN q = {"small", "bulk", "deficit", "streak"}
      /\ s \in Seq(Pkt) /\ b \in Seq(Pkt) /\ Injective(s) /\ Rising(b) /\ Injective(b)
      /\ Range(s) \intersect Range(b) = {} /\ Queued(q) = Range(s) \union Range(b)
      /\ \A x \in Range(s) \union Range(b) : x.flow = FlowOf(d, x.len)
      /\ \A x \in Range(s) : x.len < SmallLen
      /\ Depth(q) = Len(s) + Len(b) /\ Len(s) \in Nat /\ Len(b) \in Nat /\ Depth(q) <= DataCap
  <2>1. /\ DOMAIN q = {"small", "bulk", "deficit", "streak"}
        /\ s \in Seq(Pkt) /\ b \in Seq(Pkt) /\ Injective(s) /\ Rising(b)
        /\ Range(s) \intersect Range(b) = {} /\ Queued(q) = Range(s) \union Range(b)
        /\ Depth(q) = Len(s) + Len(b) /\ Depth(q) <= DataCap
    BY DEF LanesOk, Queued, Depth
  <2>2. /\ \A x \in Range(s) \union Range(b) : x.flow = FlowOf(d, x.len)
        /\ \A x \in Range(s) : x.len < SmallLen
    BY DEF LanesOk, Queued
  <2>3. Injective(b) /\ Len(s) \in Nat /\ Len(b) \in Nat
    BY <2>1, RisingInjective
  <2> QED
    BY <2>1, <2>2, <2>3
<1>2. s # <<>> \/ b # <<>>
  <2>1. Depth(q) # 0
    BY DEF IsEmpty
  <2>2. s = <<>> /\ b = <<>> => Len(s) + Len(b) = 0
    OBVIOUS
  <2> QED
    BY <1>1, <2>1, <2>2
<1>3. CASE TakesSmall(q, old)
  <2> DEFINE t == Tail(s)
  <2>1. s # <<>>
    BY <1>2, <1>3 DEF TakesSmall, SmallIsOlder
  <2>2. /\ t \in Seq(Pkt) /\ Injective(t) /\ Len(t) = Len(s) - 1 /\ Range(t) = Range(s) \ {Head(s)}
        /\ Head(s) \in Range(s) /\ Head(s) \notin Range(t)
    BY <1>1, <2>1, Shortened
  <2>3. DOMAIN r = {"small", "bulk", "deficit", "streak"} /\ r.small = t /\ r.bulk = b /\ e = Head(s)
    BY <1>1, <1>3 DEF Popped, FrontOf
  <2>4. ASSUME ~IsSmallPacket(e.len) PROVE \A x \in Range(b) : e.id < x.id
    <3>1. ~config.priority
      BY <1>1, <2>2, <2>3, <2>4 DEF IsSmallPacket
    <3>2. b = <<>> \/ Head(s).id < Head(b).id
      BY <1>3, <3>1 DEF TakesSmall, SmallIsOlder
    <3>3. CASE b = <<>>
      BY <3>3, <1>1, InSet
    <3>4. CASE b # <<>>
      <4>1. ASSUME NEW x \in Range(b) PROVE Head(b).id <= x.id /\ Head(b).id \in Nat /\ x.id \in Nat
        <5>1. Range(Tail(b)) = Range(b) \ {Head(b)} /\ \A y \in Range(Tail(b)) : Head(b).id < y.id
          BY <1>1, <3>4, Shortened, RisingShortened
        <5>2. Head(b) \in Pkt /\ x \in Pkt
          BY <1>1, <3>4, InSet
        <5>3. Head(b).id \in Nat /\ x.id \in Nat
          BY <5>2 DEF Pkt
        <5> QED
          BY <5>1, <5>3
      <4>2. Head(s).id \in Nat
        <5>1. Head(s) \in Pkt
          BY <1>1, <2>1
        <5> QED
          BY <5>1 DEF Pkt
      <4> QED
        BY <2>3, <3>2, <3>4, <4>1, <4>2
    <3> QED
      BY <3>3, <3>4
  <2> HIDE DEF t, r, e
  <2>6. e \in Pkt
    BY <1>1, <2>2, <2>3, InSet
  <2> HIDE DEF s, b
  <2>5. LanesOk(d, r) /\ Queued(r) = Range(t) \union Range(b) /\ Depth(r) = Len(t) + Len(b)
    <3>1. Len(t) + Len(b) <= DataCap
      BY <1>1, <2>2, <2>3, PacingAssumption
    <3>2. TwoLanes(d, t, b)
      BY <1>1, <2>2, <2>3, <3>1 DEF TwoLanes
    <3> QED
      BY <2>3, <3>2, LanesAre
  <2> QED
    <3>1. Depth(r) = Depth(q) - 1
      BY <1>1, <2>2, <2>5
    <3>2. e \in Queued(q) /\ e \notin Queued(r) /\ Queued(r) = Queued(q) \ {e} /\ e.flow = FlowOf(d, e.len)
      BY <1>1, <2>2, <2>3, <2>5
    <3>3. ~IsSmallPacket(e.len) => \A x \in Range(r.bulk) : e.id < x.id
      BY <2>3, <2>4
    <3> QED
      BY <2>5, <2>6, <3>1, <3>2, <3>3 DEF r, e
<1>4. CASE ~TakesSmall(q, old)
  <2> DEFINE t == Tail(b)
  <2>1. b # <<>>
    BY <1>2, <1>4 DEF TakesSmall, SmallIsOlder, ForceBulk
  <2>2. /\ t \in Seq(Pkt) /\ Len(t) = Len(b) - 1 /\ Range(t) = Range(b) \ {Head(b)}
        /\ Head(b) \in Range(b) /\ Head(b) \notin Range(t)
        /\ Rising(t) /\ \A x \in Range(t) : Head(b).id < x.id
    BY <1>1, <2>1, Shortened, RisingShortened
  <2>3. DOMAIN r = {"small", "bulk", "deficit", "streak"} /\ r.small = s /\ r.bulk = t /\ e = Head(b)
    BY <1>1, <1>4 DEF Popped, FrontOf
  <2> HIDE DEF t, r, e
  <2>4. e \in Pkt
    BY <1>1, <2>2, <2>3, InSet
  <2> HIDE DEF s, b
  <2>5. LanesOk(d, r) /\ Queued(r) = Range(s) \union Range(t) /\ Depth(r) = Len(s) + Len(t)
    <3>1. Len(s) + Len(t) <= DataCap
      BY <1>1, <2>2, <2>3, PacingAssumption
    <3>2. TwoLanes(d, s, t)
      BY <1>1, <2>2, <2>3, <3>1 DEF TwoLanes
    <3> QED
      BY <2>3, <3>2, LanesAre
  <2> QED
    <3>1. Depth(r) = Depth(q) - 1
      BY <1>1, <2>2, <2>5
    <3>2. e \in Queued(q) /\ e \notin Queued(r) /\ Queued(r) = Queued(q) \ {e} /\ e.flow = FlowOf(d, e.len)
      BY <1>1, <2>2, <2>3, <2>5
    <3>3. \A x \in Range(r.bulk) : e.id < x.id
      BY <2>2, <2>3
    <3> QED
      BY <2>4, <2>5, <3>1, <3>2, <3>3 DEF r, e
<1> QED
  BY <1>3, <1>4

-----------------------------------------------------------------------------
(* Enqueueing.                                                             *)

\* What a step does to the packets that are held: it forgets some, takes in new ones (for
\* which others may make room), or sends one.
Kept == Entries' \subseteq Entries /\ UNCHANGED <<accepted, sent>>
Came ==
    /\ accepted' \in Nat /\ accepted' > accepted /\ UNCHANGED sent
    /\ \A e \in Entries' \ Entries : e.id \in (accepted + 1)..accepted'
    /\ \A i \in (accepted + 1)..accepted' : \E e \in Entries' \ Entries : e.id = i
    /\ \A e, f \in Entries' \ Entries : e.id = f.id => e = f
IsOldest(p) ==
    p.flow \in {Control} \union (Dests \X {"bulk"}) =>
        \A x \in Entries : x.flow = p.flow => p.id <= x.id
Left ==
    \E p \in Entries :
        /\ IsOldest(p) /\ Entries' = Entries \ {p}
        /\ sent' = sent \union {p.id} /\ UNCHANGED accepted

Fine == QueuesOk' /\ HandOk' /\ Counted' /\ (Kept \/ Came \/ Left)

\* However packets come and go, a number belongs to one packet.
LEMMA NumbersKept ==
    ASSUME NumbersOk, Kept \/ Came \/ Left
    PROVE  NumbersOk'
<1>1. CASE Kept
  BY <1>1 DEF NumbersOk, Kept
<1>2. CASE Left
  <2>1. PICK p \in Entries : Entries' = Entries \ {p} /\ sent' = sent \union {p.id} /\ accepted' = accepted
    BY <1>2 DEF Left
  <2> QED
    BY <2>1 DEF NumbersOk
<1>3. CASE Came
  <2>1. accepted \in Nat /\ accepted' \in Nat /\ accepted' > accepted /\ sent' = sent
    BY <1>3 DEF Came, NumbersOk
  <2>2. sent \subseteq 1..accepted'
    BY <2>1 DEF NumbersOk
  <2>3. ASSUME NEW e \in Entries'
        PROVE  \/ e \in Entries /\ e.id \in 1..accepted /\ e.id \notin sent
               \/ e \in Entries' \ Entries /\ e.id \in (accepted + 1)..accepted'
    BY <1>3 DEF Came, NumbersOk
  <2>4. ASSUME NEW e \in Entries' PROVE e.id \in 1..accepted' /\ e.id \notin sent
    BY <2>1, <2>3 DEF NumbersOk
  <2>5. ASSUME NEW e \in Entries', NEW f \in Entries', e.id = f.id PROVE e = f
    <3>1. CASE e \in Entries /\ f \in Entries
      BY <2>5, <3>1 DEF NumbersOk
    <3>2. CASE e \notin Entries /\ f \notin Entries
      BY <1>3, <2>5, <3>2 DEF Came
    <3>3. CASE e \in Entries <=> f \notin Entries
      BY <2>1, <2>3, <2>5, <3>3
    <3> QED
      BY <3>1, <3>2, <3>3
  <2> QED
    BY <2>1, <2>2, <2>4, <2>5 DEF NumbersOk
<1> QED
  BY <1>1, <1>2, <1>3

\* No packet is in hand between ticks, while shedding and while scanning.
LEMMA HandEmpty ==
    ASSUME IInv, tick = Idle \/ tick.pc \in {"shed", "scan"}
    PROVE  hand = <<>>
<1>1. tick.pc \in {"idle", "shed", "scan"}
  BY DEF Idle
<1> QED
  BY <1>1 DEF IInv, HandOk, InHand

\* A step that moves no packet.
LEMMA StillFine ==
    ASSUME IInv, hand = <<>>,
           UNCHANGED <<control_q, retransmit_q, order, queues, total, nonEmpty, hand, accepted, sent>>
    PROVE  Fine
<1>1. Entries' = Entries
  BY DEF Entries
<1>2. QueuesOk'
  BY DEF IInv, QueuesOk
<1>3. Counted'
  BY <1>1 DEF IInv, Counted
<1>4. HandOk'
  BY DEF HandOk
<1> QED
  BY <1>1, <1>2, <1>3, <1>4 DEF Fine, Kept

\* The packet that an enqueue makes.
LEMMA NewEntry ==
    ASSUME IInv, NEW i \in Nat \ {0}, NEW len \in Lens, NEW flow \in Flows
    PROVE  LET e == Entry(i, len, flow) IN
           /\ e \in Pkt /\ e \notin Entries /\ e.id = accepted + i /\ e.flow = flow /\ e.len = len
           /\ \A x \in Entries : x.id < e.id
<1> DEFINE e == Entry(i, len, flow)
<1>1. e \in Pkt /\ e.id = accepted + i /\ e.flow = flow /\ e.len = len
  BY PacingAssumption DEF IInv, NumbersOk, Entry, Pkt
<1> HIDE DEF e
<1>2. \A x \in Entries : x.id < e.id
  BY <1>1 DEF IInv, NumbersOk
<1>3. accepted \in Nat
  BY DEF IInv, NumbersOk
<1>4. e \notin Entries
  BY <1>1, <1>2, <1>3
<1> QED
  BY <1>1, <1>2, <1>4 DEF e

\* enqueue_control, which evicts the oldest packet of a full queue.
LEMMA EnqueueControlFine ==
    ASSUME IInv, NEW len \in Lens, EnqueueControl(len)
    PROVE  Fine
<1> DEFINE e == Entry(1, len, Control)
           t == Trimmed(control_q, ControlCap)
           C == Range(control_q)
           D == Range(control_q')
<1>1. hand = <<>> /\ hand' = <<>>
  BY HandEmpty DEF EnqueueControl
<1>2. /\ e \in Pkt /\ e \notin Entries /\ e.id = accepted + 1 /\ e.flow = Control
      /\ \A x \in Entries : x.id < e.id
  BY NewEntry DEF Flows
<1>3. control_q' = Append(t, e) /\ UNCHANGED <<retransmit_q, order, queues, nonEmpty, sent>>
      /\ accepted' = accepted + 1 /\ total' = total + Len(control_q') - Len(control_q)
  BY DEF EnqueueControl, peers
<1>4. /\ control_q \in Seq(Pkt) /\ Injective(control_q) /\ ControlRising(control_q)
      /\ C \intersect Range(retransmit_q) = {} /\ \A x \in C : x.flow \in {Control, Retransmit}
  BY DEF IInv, QueuesOk
<1>5. t \in Seq(Pkt) /\ Injective(t) /\ Range(t) \subseteq C /\ ControlRising(t)
  BY <1>4, MadeRoom, PacingAssumption
<1>6. /\ Entries = (C \union Range(retransmit_q)) \union (HandOf(hand) \union PeersOf(order, queues))
      /\ HandOf(hand) = {} /\ PeersOf(order, queues) \intersect C = {}
      /\ IsFiniteSet(Entries) /\ Cardinality(Entries) \in Nat
  <2>1. QueuesOk /\ HandOk
    BY DEF IInv
  <2> QED
    BY <1>1, <2>1, FiniteEntries, PeersApart, HandIs
<1>15. Entries' = (D \union Range(retransmit_q)) \union (HandOf(hand) \union PeersOf(order, queues))
  BY <1>1, <1>3 DEF Entries, HandOf, PeersOf
<1> HIDE DEF t, e, C
<1>7. e \notin Range(t) /\ \A x \in Range(t) : x.id < e.id
  BY <1>2, <1>5, <1>6
<1>8. /\ control_q' \in Seq(Pkt) /\ Injective(control_q') /\ D = Range(t) \union {e}
      /\ ControlRising(control_q')
  BY <1>2, <1>3, <1>5, <1>7, Appended, RisingAppended
<1>9. IsFiniteSet(D) /\ Cardinality(D) = Len(control_q')
      /\ IsFiniteSet(C) /\ Cardinality(C) = Len(control_q)
  BY <1>4, <1>8, Places DEF C
<1> HIDE DEF D
<1>10. Entries' = (Entries \ C) \union D /\ D \intersect (Entries \ C) = {} /\ C \subseteq Entries
  BY <1>2, <1>4, <1>5, <1>6, <1>8, <1>15
<1>12. Counted'
  <2> DEFINE m == Len(control_q)
             n == Len(control_q')
             k == Cardinality(Entries)
  <2>1. Exchange(Entries, C, D, Entries')
    BY <1>10 DEF Exchange
  <2>2. Cardinality(Entries') = k - m + n /\ m \in Nat /\ n \in Nat /\ k \in Nat
    BY <1>6, <1>9, <2>1, Exchanged
  <2>3. total = k - 0 /\ nonEmpty' = Cardinality(BusyOf(order', queues')) /\ total' = total + n - m
    BY <1>1, <1>3, HandIs DEF IInv, Counted
  <2> HIDE DEF m, n, k
  <2>4. total' = Cardinality(Entries') - 0
    BY <2>2, <2>3
  <2> QED
    BY <1>1, <2>3, <2>4, HandIs DEF Counted
<1>13. QueuesOk'
  <2>1. D \intersect Range(retransmit_q) = {} /\ \A x \in D : x.flow \in {Control, Retransmit}
    BY <1>2, <1>4, <1>5, <1>6, <1>8
  <2> QED
    BY <1>3, <1>8, <2>1 DEF IInv, QueuesOk, D
<1>14. Came
  <2>1. accepted \in Nat
    BY DEF IInv, NumbersOk
  <2>2. Entries' \ Entries = {e}
    BY <1>2, <1>5, <1>8, <1>10
  <2> QED
    BY <1>2, <1>3, <2>1, <2>2 DEF Came
<1> QED
  BY <1>1, <1>12, <1>13, <1>14 DEF Fine, HandOk

\* enqueue_retransmit, which evicts the oldest packet of a full queue.
LEMMA EnqueueRetransmitFine ==
    ASSUME IInv, NEW len \in Lens, EnqueueRetransmit(len)
    PROVE  Fine
<1> DEFINE e == Entry(1, len, Retransmit)
           t == Trimmed(retransmit_q, RetransmitCap)
           C == Range(retransmit_q)
           D == Range(retransmit_q')
<1>1. hand = <<>> /\ hand' = <<>>
  BY HandEmpty DEF EnqueueRetransmit
<1>2. /\ e \in Pkt /\ e \notin Entries /\ e.id = accepted + 1 /\ e.flow = Retransmit
      /\ \A x \in Entries : x.id < e.id
  BY NewEntry DEF Flows
<1>3. retransmit_q' = Append(t, e) /\ UNCHANGED <<control_q, order, queues, nonEmpty, sent>>
      /\ accepted' = accepted + 1 /\ total' = total + Len(retransmit_q') - Len(retransmit_q)
  BY DEF EnqueueRetransmit, peers
<1>4. /\ retransmit_q \in Seq(Pkt) /\ Injective(retransmit_q)
      /\ Range(control_q) \intersect C = {} /\ \A x \in C : x.flow = Retransmit
  BY DEF IInv, QueuesOk
<1>5. t \in Seq(Pkt) /\ Injective(t) /\ Range(t) \subseteq C /\ Len(t) < RetransmitCap /\ Len(t) \in Nat
  BY <1>4, MadeRoom, PacingAssumption
<1>6. /\ Entries = (Range(control_q) \union C) \union (HandOf(hand) \union PeersOf(order, queues))
      /\ HandOf(hand) = {} /\ PeersOf(order, queues) \intersect C = {}
      /\ IsFiniteSet(Entries) /\ Cardinality(Entries) \in Nat
  <2>1. QueuesOk /\ HandOk
    BY DEF IInv
  <2> QED
    BY <1>1, <2>1, FiniteEntries, PeersApart, HandIs
<1>15. Entries' = (Range(control_q) \union D) \union (HandOf(hand) \union PeersOf(order, queues))
  BY <1>1, <1>3 DEF Entries, HandOf, PeersOf
<1> HIDE DEF t, e, C
<1>7. e \notin Range(t) /\ \A x \in Range(t) : x.id < e.id
  BY <1>2, <1>5, <1>6
<1>8. /\ retransmit_q' \in Seq(Pkt) /\ Injective(retransmit_q') /\ D = Range(t) \union {e}
      /\ Len(retransmit_q') <= RetransmitCap
  BY <1>2, <1>3, <1>5, <1>7, Appended, PacingAssumption
<1>9. IsFiniteSet(D) /\ Cardinality(D) = Len(retransmit_q')
      /\ IsFiniteSet(C) /\ Cardinality(C) = Len(retransmit_q)
  BY <1>4, <1>8, Places DEF C
<1> HIDE DEF D
<1>10. Entries' = (Entries \ C) \union D /\ D \intersect (Entries \ C) = {} /\ C \subseteq Entries
  BY <1>2, <1>4, <1>5, <1>6, <1>8, <1>15
<1>12. Counted'
  <2> DEFINE m == Len(retransmit_q)
             n == Len(retransmit_q')
             k == Cardinality(Entries)
  <2>1. Exchange(Entries, C, D, Entries')
    BY <1>10 DEF Exchange
  <2>2. Cardinality(Entries') = k - m + n /\ m \in Nat /\ n \in Nat /\ k \in Nat
    BY <1>6, <1>9, <2>1, Exchanged
  <2>3. total = k - 0 /\ nonEmpty' = Cardinality(BusyOf(order', queues')) /\ total' = total + n - m
    BY <1>1, <1>3, HandIs DEF IInv, Counted
  <2> HIDE DEF m, n, k
  <2>4. total' = Cardinality(Entries') - 0
    BY <2>2, <2>3
  <2> QED
    BY <1>1, <2>3, <2>4, HandIs DEF Counted
<1>13. QueuesOk'
  <2>1. Range(control_q) \intersect D = {} /\ \A x \in D : x.flow = Retransmit
    BY <1>2, <1>4, <1>5, <1>6, <1>8
  <2> QED
    BY <1>3, <1>8, <2>1 DEF IInv, QueuesOk, D
<1>14. Came
  <2>1. accepted \in Nat
    BY DEF IInv, NumbersOk
  <2>2. Entries' \ Entries = {e}
    BY <1>2, <1>5, <1>8, <1>10
  <2> QED
    BY <1>2, <1>3, <2>1, <2>2 DEF Came
<1> QED
  BY <1>1, <1>12, <1>13, <1>14 DEF Fine, HandOk

\* One peer's queue changes while no packet is in hand.
LEMMA PeerCount ==
    ASSUME IInv, hand = <<>>, hand' = <<>>, NEW d \in Dests, NEW nq, LanesOk(d, nq),
           order' = Entered(d), queues' = Keep(d, nq), UNCHANGED lanes,
           (Queued(nq) \ Queued(QueueOf(d))) \intersect Entries = {}
    PROVE  /\ QueuesOk' /\ HandOk' /\ queues'[d] = nq
           /\ Entries' = (Entries \ Queued(QueueOf(d))) \union Queued(nq)
           /\ total \in Nat /\ Depth(QueueOf(d)) \in Nat /\ Depth(nq) \in Nat
           /\ Depth(QueueOf(d)) <= total
           /\ Cardinality(Entries') = total - Depth(QueueOf(d)) + Depth(nq)
           /\ nonEmpty \in Nat /\ (~IsEmpty(QueueOf(d)) => nonEmpty > 0)
           /\ Cardinality(BusyOf(order', queues')) =
                (nonEmpty - (IF IsEmpty(QueueOf(d)) THEN 0 ELSE 1)) + (IF IsEmpty(nq) THEN 0 ELSE 1)
           /\ total' = Cardinality(Entries') /\ nonEmpty' = Cardinality(BusyOf(order', queues')) => Counted'
<1> DEFINE X == Queued(QueueOf(d))
           Y == Queued(nq)
           P == PeersOf(order, queues)
<1>1. QueuesOk /\ HandOk
  BY DEF IInv
<1>2. /\ QueuesOk' /\ queues'[d] = nq
      /\ PeersOf(order', queues') = (P \ X) \union Y
      /\ Cardinality(BusyOf(order', queues')) =
            (Cardinality(BusyOf(order, queues)) - (IF IsEmpty(QueueOf(d)) THEN 0 ELSE 1))
            + (IF IsEmpty(nq) THEN 0 ELSE 1)
      /\ ~IsEmpty(QueueOf(d)) => Cardinality(BusyOf(order, queues)) > 0
  BY <1>1, PeerPart
<1>3. /\ Entries = (Range(control_q) \union Range(retransmit_q)) \union (HandOf(hand) \union P)
      /\ HandOf(hand) = {} /\ HandOf(hand') = {} /\ IsFiniteSet(Entries)
  BY <1>1, FiniteEntries, HandIs
<1>4. Entries' = (Range(control_q) \union Range(retransmit_q)) \union (HandOf(hand') \union PeersOf(order', queues'))
  BY DEF Entries, HandOf, PeersOf, lanes
<1>5. P \intersect (Range(control_q) \union Range(retransmit_q)) = {} /\ X \subseteq P /\ LanesOk(d, QueueOf(d))
  BY <1>1, PeersApart
<1> HIDE DEF P
<1>6. Entries' = (Entries \ X) \union Y
  BY <1>2, <1>3, <1>4, <1>5
<1>7. Exchange(Entries, X, Y, Entries')
  BY <1>3, <1>5, <1>6 DEF Exchange
<1>8. /\ IsFiniteSet(Y) /\ Cardinality(Y) = Depth(nq) /\ Depth(nq) \in Nat
      /\ Cardinality(X) = Depth(QueueOf(d)) /\ Depth(QueueOf(d)) \in Nat
  BY <1>5, QueuedCard
<1>9. /\ Cardinality(Entries) \in Nat /\ Cardinality(X) <= Cardinality(Entries)
      /\ Cardinality(Entries') = Cardinality(Entries) - Cardinality(X) + Cardinality(Y)
      /\ Cardinality(Entries') \in Nat
  BY <1>3, <1>7, <1>8, Exchanged
<1>10. nonEmpty = Cardinality(BusyOf(order, queues)) /\ nonEmpty \in Nat
  BY <1>1, FinitePeers DEF IInv, Counted
<1>11. total = Cardinality(Entries)
  <2>1. total = Cardinality(Entries) - 0
    BY HandIs DEF IInv, Counted
  <2> QED
    BY <1>9, <2>1
<1>12. ASSUME total' = Cardinality(Entries'), nonEmpty' = Cardinality(BusyOf(order', queues'))
       PROVE  Counted'
  <2>1. total' = Cardinality(Entries') - 0
    BY <1>9, <1>12
  <2> QED
    BY <1>12, <2>1, HandIs DEF Counted
<1> QED
  BY <1>2, <1>6, <1>8, <1>9, <1>10, <1>11, <1>12 DEF HandOk

\* enqueue_peer, which drops the oldest packet of a full peer.
LEMMA EnqueuePeerFine ==
    ASSUME IInv, NEW d \in Dests, NEW len \in Lens, EnqueuePeer(d, len)
    PROVE  Fine
<1> DEFINE e == Entry(1, len, FlowOf(d, len))
           q == QueueOf(d)
           full == Depth(q) >= DataCap
           t == IF full THEN DropOldest(q) ELSE q
           nq == Classified(t, e)
<1>1. hand = <<>> /\ hand' = <<>>
  BY HandEmpty DEF EnqueuePeer
<1>2. /\ e \in Pkt /\ e \notin Entries /\ e.id = accepted + 1 /\ e.flow = FlowOf(d, e.len)
      /\ \A x \in Entries : x.id < e.id
  <2>1. FlowOf(d, len) \in Flows
    BY FlowsApart
  <2> QED
    BY <2>1, NewEntry
<1>3. LanesOk(d, q) /\ Queued(q) \subseteq Entries
  <2>1. QueuesOk /\ HandOk
    BY DEF IInv
  <2> QED
    BY <2>1, PeersApart, FiniteEntries
<1>4. Depth(q) \in Nat /\ Depth(q) <= DataCap /\ DataCap \in Nat \ {0}
  BY <1>3, QueuedCard, PacingAssumption DEF LanesOk
<1> HIDE DEF e, q
<1>5. /\ LanesOk(d, t) /\ Queued(t) \subseteq Queued(q) /\ Depth(t) \in Nat /\ Depth(t) < DataCap
      /\ Depth(t) = IF full THEN Depth(q) - 1 ELSE Depth(q)
  <2>1. CASE full
    <3>1. ~IsEmpty(q)
      BY <1>4, <2>1 DEF IsEmpty
    <3>2. t = DropOldest(q)
      BY <2>1
    <3>3. LanesOk(d, t) /\ Queued(t) \subseteq Queued(q) /\ Depth(t) = Depth(q) - 1
      BY <1>3, <3>1, <3>2, DroppedOk
    <3> HIDE DEF t
    <3> QED
      BY <1>4, <2>1, <3>3
  <2>2. CASE ~full
    BY <1>3, <1>4, <2>2
  <2> QED
    BY <2>1, <2>2
<1>6. e \notin Queued(t) /\ \A x \in Queued(t) : x.id < e.id
  BY <1>2, <1>3, <1>5
<1> HIDE DEF t
<1>7. LanesOk(d, nq) /\ Queued(nq) = Queued(t) \union {e} /\ Depth(nq) = Depth(t) + 1
  BY <1>2, <1>5, <1>6, ClassifiedOk
<1>8. /\ order' = Entered(d) /\ queues' = Keep(d, nq) /\ UNCHANGED lanes
      /\ nonEmpty' = (IF IsEmpty(q) THEN nonEmpty + 1 ELSE nonEmpty)
      /\ total' = (IF full THEN total ELSE total + 1)
      /\ accepted' = accepted + 1 /\ sent' = sent
  BY DEF EnqueuePeer, Push, q, t, e
<1> HIDE DEF nq
<1>9. (Queued(nq) \ Queued(q)) \intersect Entries = {}
  BY <1>2, <1>5, <1>7
<1>10. /\ QueuesOk' /\ HandOk'
       /\ Entries' = (Entries \ Queued(q)) \union Queued(nq)
       /\ total \in Nat /\ Cardinality(Entries') = total - Depth(q) + Depth(nq)
       /\ nonEmpty \in Nat
       /\ Cardinality(BusyOf(order', queues')) =
            (nonEmpty - (IF IsEmpty(q) THEN 0 ELSE 1)) + (IF IsEmpty(nq) THEN 0 ELSE 1)
       /\ total' = Cardinality(Entries') /\ nonEmpty' = Cardinality(BusyOf(order', queues')) => Counted'
  <2>1. order' = Entered(d) /\ queues' = Keep(d, nq) /\ UNCHANGED lanes /\ LanesOk(d, nq)
    BY <1>7, <1>8
  <2> QED
    BY <1>1, <1>9, <2>1, PeerCount DEF q
<1>11. total' = Cardinality(Entries')
  BY <1>4, <1>5, <1>7, <1>8, <1>10
<1>12. nonEmpty' = Cardinality(BusyOf(order', queues'))
  <2>1. ~IsEmpty(nq)
    BY <1>5, <1>7 DEF IsEmpty
  <2> QED
    BY <1>8, <1>10, <2>1
<1>13. Came
  <2>1. accepted \in Nat
    BY DEF IInv, NumbersOk
  <2>2. Entries' \ Entries = {e}
    BY <1>2, <1>3, <1>5, <1>7, <1>10
  <2> QED
    BY <1>2, <1>8, <2>1, <2>2 DEF Came
<1> QED
  BY <1>10, <1>11, <1>12, <1>13 DEF Fine

\* try_enqueue_peer_batch, all or nothing.
LEMMA BatchFine ==
    ASSUME IInv, NEW d \in Dests, NEW a \in Lens, NEW b \in Lens, TryEnqueuePeerBatch(d, a, b)
    PROVE  Fine
<1> DEFINE e == Entry(1, a, FlowOf(d, a))
           f == Entry(2, b, FlowOf(d, b))
           q == QueueOf(d)
           fits == Depth(q) + 2 <= DataCap
           one == Classified(q, e)
           both == Classified(one, f)
           nq == IF fits THEN both ELSE q
<1>1. hand = <<>> /\ hand' = <<>>
  BY HandEmpty DEF TryEnqueuePeerBatch
<1>2. /\ e \in Pkt /\ e \notin Entries /\ e.id = accepted + 1 /\ e.flow = FlowOf(d, e.len)
      /\ \A x \in Entries : x.id < e.id
      /\ f \in Pkt /\ f \notin Entries /\ f.id = accepted + 2 /\ f.flow = FlowOf(d, f.len)
      /\ \A x \in Entries : x.id < f.id
  <2>1. FlowOf(d, a) \in Flows /\ FlowOf(d, b) \in Flows
    BY FlowsApart
  <2> QED
    BY <2>1, NewEntry
<1>3. LanesOk(d, q) /\ Queued(q) \subseteq Entries
  <2>1. QueuesOk /\ HandOk
    BY DEF IInv
  <2> QED
    BY <2>1, PeersApart, FiniteEntries
<1>4. Depth(q) \in Nat /\ Depth(q) <= DataCap /\ DataCap \in Nat \ {0}
  BY <1>3, QueuedCard, PacingAssumption DEF LanesOk
<1>5. /\ order' = Entered(d) /\ queues' = Keep(d, nq) /\ UNCHANGED lanes
      /\ nonEmpty' = (IF fits /\ IsEmpty(q) THEN nonEmpty + 1 ELSE nonEmpty)
      /\ total' = (IF fits THEN total + 2 ELSE total)
      /\ accepted' = (IF fits THEN accepted + 2 ELSE accepted) /\ sent' = sent
  BY DEF TryEnqueuePeerBatch
<1>6. accepted \in Nat
  BY DEF IInv, NumbersOk
<1> HIDE DEF e, f, q
<1>7. ASSUME fits
      PROVE  LanesOk(d, both) /\ Queued(both) = Queued(q) \union {e, f} /\ Depth(both) = Depth(q) + 2
  <2>1. LanesOk(d, one) /\ Queued(one) = Queued(q) \union {e} /\ Depth(one) = Depth(q) + 1
    BY <1>2, <1>3, <1>4, <1>7, ClassifiedOk
  <2> HIDE DEF one
  <2>2. f \notin Queued(one) /\ (\A x \in Queued(one) : x.id < f.id) /\ Depth(one) < DataCap
    BY <1>2, <1>3, <1>4, <1>6, <1>7, <2>1
  <2>3. LanesOk(d, both) /\ Queued(both) = Queued(one) \union {f} /\ Depth(both) = Depth(one) + 1
    BY <1>2, <2>1, <2>2, ClassifiedOk
  <2> QED
    BY <1>4, <2>1, <2>3
<1>8. LanesOk(d, nq) /\ (Queued(nq) \ Queued(q)) \intersect Entries = {}
  BY <1>2, <1>3, <1>7
<1> HIDE DEF both
<1>9. /\ QueuesOk' /\ HandOk'
      /\ Entries' = (Entries \ Queued(q)) \union Queued(nq)
      /\ total \in Nat /\ Cardinality(Entries') = total - Depth(q) + Depth(nq)
      /\ nonEmpty \in Nat /\ (~IsEmpty(q) => nonEmpty > 0)
      /\ Cardinality(BusyOf(order', queues')) =
            (nonEmpty - (IF IsEmpty(q) THEN 0 ELSE 1)) + (IF IsEmpty(nq) THEN 0 ELSE 1)
      /\ total' = Cardinality(Entries') /\ nonEmpty' = Cardinality(BusyOf(order', queues')) => Counted'
  <2> HIDE DEF nq
  <2> QED
    BY <1>1, <1>5, <1>8, PeerCount DEF q
<1>10. CASE fits
  <2>1. nq = both
    BY <1>10
  <2>2. total' = Cardinality(Entries')
    BY <1>4, <1>5, <1>7, <1>9, <1>10, <2>1
  <2>3. ~IsEmpty(both)
    BY <1>4, <1>7, <1>10 DEF IsEmpty
  <2>4. nonEmpty' = Cardinality(BusyOf(order', queues'))
    <3>1. Cardinality(BusyOf(order', queues')) = (nonEmpty - (IF IsEmpty(q) THEN 0 ELSE 1)) + 1
      BY <1>9, <2>1, <2>3
    <3>2. nonEmpty' = IF IsEmpty(q) THEN nonEmpty + 1 ELSE nonEmpty
      BY <1>5, <1>10
    <3> QED
      BY <1>9, <3>1, <3>2
  <2>5. Entries' \ Entries = {e, f}
    BY <1>2, <1>3, <1>7, <1>9, <1>10, <2>1
  <2>6. Came
    BY <1>2, <1>5, <1>6, <1>10, <2>5 DEF Came
  <2> QED
    BY <1>9, <2>2, <2>4, <2>6 DEF Fine
<1>11. CASE ~fits
  <2>1. nq = q
    BY <1>11
  <2>2. total' = Cardinality(Entries')
    BY <1>4, <1>5, <1>9, <1>11, <2>1
  <2>3. nonEmpty' = Cardinality(BusyOf(order', queues'))
    BY <1>5, <1>9, <1>11, <2>1
  <2>4. Kept
    BY <1>3, <1>5, <1>9, <1>11, <2>1 DEF Kept
  <2> QED
    BY <1>9, <2>2, <2>3, <2>4 DEF Fine
<1> QED
  BY <1>10, <1>11
=============================================================================
