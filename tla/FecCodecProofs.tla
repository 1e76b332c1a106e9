--------------------------- MODULE FecCodecProofs ---------------------------
(***************************************************************************)
(* Proofs about FecCodec, for any ladder, thresholds and capacities.       *)
(***************************************************************************)
EXTENDS FecCodec, FiniteSetTheorems, SequenceTheorems, TLAPS

Ratio == Nat \X Nat
Coding == (Nat \ {0}) \X (Nat \ {0})
Encoder == [on : {TRUE}, ratio : Coding, buf : Seq(Nat), seq : Nat, salt : Nat]
Gid == Nat \X Nat

IsShard(s) ==
    /\ s.gid \in Gid /\ s.idx \in Nat
    /\ s.ds \in Nat /\ s.ps \in Nat /\ s.pkts \in Seq(Nat)

\* Shards or groups of one coding of the same packets.
Alike(x, y) == x.ds = y.ds /\ x.ps = y.ps /\ x.pkts = y.pkts

\* What encoder e, asked for an output, makes of its packets: they are kept or leave,
\* each in one way; the shards are of one group, which is over with them.
OutOk(e, out) ==
    /\ out.enc \in Encoder /\ out.enc.salt = e.salt /\ out.enc.seq >= e.seq
    /\ \A s \in out.shards : IsShard(s) /\ s.gid = GroupId(e)
    /\ \A s, t \in out.shards : Alike(s, t)
    /\ out.shards # {} => out.enc.seq > e.seq
    /\ Emitted(out.shards, out.plain) \cup Range(out.enc.buf) = Range(e.buf)
    /\ Emitted(out.shards, out.plain) \cap Range(out.enc.buf) = {}

----------------------------------------------------------------------------
LEMMA RangeAppend ==
  ASSUME NEW q \in Seq(Nat), NEW p \in Nat
  PROVE  Append(q, p) \in Seq(Nat) /\ Range(Append(q, p)) = Range(q) \cup {p}
<1>1. Append(q, p) \in Seq(Nat)
  OBVIOUS
<1>2. DOMAIN q = 1..Len(q) /\ DOMAIN Append(q, p) = 1..(Len(q) + 1)
  OBVIOUS
<1>3. \A i \in 1..Len(q) : Append(q, p)[i] = q[i]
  OBVIOUS
<1>4. Append(q, p)[Len(q) + 1] = p
  OBVIOUS
<1>5. ASSUME NEW x \in Range(Append(q, p)) PROVE x \in Range(q) \cup {p}
  BY <1>2, <1>3, <1>4 DEF Range
<1>6. ASSUME NEW x \in Range(q) \cup {p} PROVE x \in Range(Append(q, p))
  <2>1. Len(q) + 1 \in 1..(Len(q) + 1) /\ \A i \in 1..Len(q) : i \in 1..(Len(q) + 1)
    OBVIOUS
  <2> QED BY <1>2, <1>3, <1>4, <2>1 DEF Range
<1> QED BY <1>1, <1>5, <1>6

LEMMA RangeEmpty == Range(<<>>) = {} /\ <<>> \in Seq(Nat)
BY DEF Range

LEMMA EmittedPlain ==
  ASSUME NEW q
  PROVE  Emitted({}, q) = Range(q)
<1> DEFINE none == {}
           coded == UNION {Range(s.pkts) : s \in {x \in none : x.idx = 0}}
           r == Range(q)
<1>1. coded = {}
  OBVIOUS
<1>2. Emitted(none, q) = coded \cup r
  BY DEF Emitted
<1> HIDE DEF coded, r
<1>3. coded \cup r = r
  BY <1>1
<1> QED BY <1>2, <1>3 DEF r

LEMMA EmittedNone == Emitted({}, <<>>) = {}
BY EmittedPlain, RangeEmpty

LEMMA BufferedOk ==
  ASSUME NEW e \in Encoder
  PROVE  OutOk(e, Buffered(e))
<1>1. Buffered(e).enc = e /\ Buffered(e).shards = {} /\ Buffered(e).plain = <<>>
  BY DEF Buffered
<1>2. e.seq \in Nat
  BY DEF Encoder
<1> QED BY <1>1, <1>2, EmittedNone DEF OutOk

LEMMA EmptiedIs ==
  ASSUME NEW e \in Encoder
  PROVE  /\ Emptied(e) \in Encoder /\ Emptied(e).buf = <<>> /\ Emptied(e).seq = e.seq + 1
         /\ Emptied(e).salt = e.salt /\ Emptied(e).ratio = e.ratio
<1> DEFINE none == <<>>
           f == [e EXCEPT !.buf = none, !.seq = @ + 1]
<1>1. none \in Seq(Nat) /\ e.seq + 1 \in Nat
  BY RangeEmpty DEF Encoder
<1>2. Emptied(e) = f
  BY DEF Emptied
<1> HIDE DEF none
<1>3. /\ f \in Encoder /\ f.buf = none /\ f.seq = e.seq + 1
      /\ f.salt = e.salt /\ f.ratio = e.ratio
  BY <1>1 DEF Encoder
<1> QED BY <1>2, <1>3 DEF none

LEMMA TakePassthroughOk ==
  ASSUME NEW e \in Encoder
  PROVE  OutOk(e, TakePassthrough(e))
<1> DEFINE out == TakePassthrough(e)
<1>1. out.enc = Emptied(e) /\ out.shards = {} /\ out.plain = e.buf
  BY DEF TakePassthrough
<1>2. Emitted({}, e.buf) = Range(e.buf)
  BY EmittedPlain
<1> HIDE DEF out
<1>3. OutOk(e, out)
  <2>1. e.seq \in Nat
    BY DEF Encoder
  <2> QED BY <1>1, <1>2, <2>1, EmptiedIs, RangeEmpty DEF OutOk
<1> QED BY <1>3 DEF out

LEMMA EncodeOk ==
  ASSUME NEW e \in Encoder, NEW parity \in Nat \ {0}
  PROVE  OutOk(e, Encode(e, parity))
<1> DEFINE n == Len(e.buf)
           shard(i) == [gid |-> GroupId(e), idx |-> i, ds |-> n, ps |-> parity, pkts |-> e.buf]
           S == {shard(i) : i \in 0..(n + parity - 1)}
           out == Encode(e, parity)
<1>1. out.enc = Emptied(e) /\ out.shards = S /\ out.plain = <<>>
  BY DEF Encode
<1>2. e.seq \in Nat /\ e.salt \in Nat /\ e.buf \in Seq(Nat) /\ n \in Nat
  BY DEF Encoder
<1>3. GroupId(e) \in Gid
  BY <1>2 DEF GroupId, Gid
<1>4. \A i \in 0..(n + parity - 1) : IsShard(shard(i)) /\ shard(i).gid = GroupId(e) /\ shard(i).idx = i
  BY <1>2, <1>3 DEF IsShard
<1>5. \A i, j : Alike(shard(i), shard(j)) /\ shard(i).pkts = e.buf
  BY DEF Alike
<1> HIDE DEF shard
<1>6. /\ \A s \in S : IsShard(s) /\ s.gid = GroupId(e)
      /\ \A s, t \in S : Alike(s, t)
  BY <1>4, <1>5
<1>7. Emitted(S, <<>>) = Range(e.buf)
  <2>1. 0 \in 0..(n + parity - 1)
    BY <1>2
  <2>2. shard(0) \in {x \in S : x.idx = 0} /\ shard(0).pkts = e.buf
    BY <1>4, <1>5, <2>1
  <2>3. \A x \in {y \in S : y.idx = 0} : x.pkts = e.buf
    BY <1>5
  <2> HIDE DEF S
  <2>4. UNION {Range(s.pkts) : s \in {x \in S : x.idx = 0}} = Range(e.buf)
    BY <2>2, <2>3
  <2> QED BY <2>4, RangeEmpty DEF Emitted
<1> HIDE DEF out, S
<1>8. OutOk(e, out)
  BY <1>1, <1>2, <1>6, <1>7, EmptiedIs, RangeEmpty DEF OutOk
<1> QED BY <1>8 DEF out

\* The larger and the smaller of two numbers.
LEMMA MaxPair ==
  ASSUME NEW a \in Int, NEW b \in Int
  PROVE  Max({a, b}) \in {a, b} /\ Max({a, b}) >= a /\ Max({a, b}) >= b
<1>1. \E m \in {a, b} : \A x \in {a, b} : m >= x
  <2>1. CASE a >= b
    BY <2>1
  <2>2. CASE b >= a
    BY <2>2
  <2> QED BY <2>1, <2>2
<1> QED BY <1>1 DEF Max

LEMMA MinPair ==
  ASSUME NEW a \in Int, NEW b \in Int
  PROVE  Min({a, b}) \in {a, b}
<1>1. \E m \in {a, b} : \A x \in {a, b} : m <= x
  <2>1. CASE a >= b
    BY <2>1
  <2>2. CASE b >= a
    BY <2>2
  <2> QED BY <2>1, <2>2
<1> QED BY <1>1 DEF Min

LEMMA DynamicParityIs ==
  ASSUME NEW e \in Encoder
  PROVE  DynamicParity(e) \in Nat \ {0}
<1> DEFINE up == (Len(e.buf) * e.ratio[2] + e.ratio[1] - 1) \div e.ratio[1]
           low == Min({up, e.ratio[2]})
<1>1. e.ratio[1] \in Nat \ {0} /\ e.ratio[2] \in Nat \ {0} /\ Len(e.buf) \in Nat
  BY DEF Encoder, Coding
<1>2. up \in Int
  <2>1. ASSUME NEW a \in Nat, NEW b \in Nat, NEW c \in Nat \ {0}
        PROVE  (a * b + c - 1) \div c \in Int
    OBVIOUS
  <2> QED BY <1>1, <2>1
<1>3. low \in Int
  <2> HIDE DEF up
  <2> QED BY <1>1, <1>2, MinPair
<1> DEFINE one == 1
           high == Max({one, low})
<1>4. DynamicParity(e) = high
  BY DEF DynamicParity
<1> HIDE DEF low, up
<1>5. high \in {one, low} /\ high >= one
  <2>1. one \in Int
    OBVIOUS
  <2> HIDE DEF one
  <2> QED BY <1>3, <2>1, MaxPair
<1> HIDE DEF high
<1> QED BY <1>3, <1>4, <1>5

LEMMA FlushOk ==
  ASSUME NEW e \in Encoder, NEW full
  PROVE  OutOk(e, Flush(e, full)) /\ Flush(e, full).enc.ratio = e.ratio
<1>1. Flush(e, full) \in {Buffered(e), TakePassthrough(e), Encode(e, DynamicParity(e))}
  BY DEF Flush
<1>2. Buffered(e).enc = e /\ TakePassthrough(e).enc = Emptied(e)
      /\ Encode(e, DynamicParity(e)).enc = Emptied(e)
  BY DEF Buffered, TakePassthrough, Encode
<1> QED BY <1>1, <1>2, BufferedOk, TakePassthroughOk, EncodeOk, DynamicParityIs, EmptiedIs

LEMMA FlushPassthroughOk ==
  ASSUME NEW e \in Encoder
  PROVE  OutOk(e, FlushPassthrough(e))
BY BufferedOk, TakePassthroughOk DEF FlushPassthrough

LEMMA UpdateRatioOk ==
  ASSUME NEW e \in Encoder, NEW r \in Coding, NEW full
  PROVE  OutOk(e, UpdateRatio(e, r, full)) /\ UpdateRatio(e, r, full).enc.ratio = r
<1>1. CASE e.ratio = r
  <2>1. UpdateRatio(e, r, full) = Buffered(e) /\ Buffered(e).enc = e
    BY <1>1 DEF UpdateRatio, Buffered
  <2> QED BY <1>1, <2>1, BufferedOk
<1>2. CASE e.ratio # r
  <2> DEFINE out == Flush(e, full)
             f == [out.enc EXCEPT !.ratio = r, !.seq = @ + 1]
             new == [out EXCEPT !.enc = f]
  <2>1. UpdateRatio(e, r, full) = new
    BY <1>2 DEF UpdateRatio
  <2>2. OutOk(e, out)
    BY FlushOk
  <2>3. DOMAIN out = {"enc", "shards", "plain"}
    BY DEF Flush, Buffered, TakePassthrough, Encode
  <2> HIDE DEF out
  <2>4. out.enc \in Encoder
    BY <2>2 DEF OutOk
  <2>5. /\ f \in Encoder /\ f.buf = out.enc.buf /\ f.seq = out.enc.seq + 1
        /\ f.salt = out.enc.salt /\ f.ratio = r
    <3> DEFINE x == out.enc
    <3>0. x \in Encoder
      BY <2>4
    <3> HIDE DEF x
    <3>1. x.seq + 1 \in Nat
      BY <3>0 DEF Encoder
    <3>2. LET g == [x EXCEPT !.ratio = r, !.seq = @ + 1] IN
          g \in Encoder /\ g.buf = x.buf /\ g.seq = x.seq + 1 /\ g.salt = x.salt /\ g.ratio = r
      BY <3>0, <3>1 DEF Encoder
    <3> QED BY <3>2 DEF x
  <2> HIDE DEF f
  <2>6. new.enc = f /\ new.shards = out.shards /\ new.plain = out.plain
    BY <2>3
  <2>7. out.enc.seq \in Nat /\ e.seq \in Nat
    BY <2>4 DEF Encoder
  <2> HIDE DEF new
  <2>8. OutOk(e, new)
    BY <2>2, <2>5, <2>6, <2>7 DEF OutOk
  <2> QED BY <2>1, <2>5, <2>6, <2>8
<1> QED BY <1>1, <1>2

LEMMA PushOutputOk ==
  ASSUME NEW e \in Encoder, NEW p \in Nat, NEW full, NEW immediate
  PROVE  LET out == PushOutput(e, p, full, immediate)
             grown == [e EXCEPT !.buf = Append(@, p)]
         IN  /\ OutOk(grown, out)
             /\ grown.salt = e.salt /\ grown.seq = e.seq
             /\ Range(grown.buf) = Range(e.buf) \cup {p}
<1> DEFINE b == Append(e.buf, p)
           g == [e EXCEPT !.buf = b]
<1>1. b \in Seq(Nat) /\ Range(b) = Range(e.buf) \cup {p}
  BY RangeAppend DEF Encoder
<1>2. g = [e EXCEPT !.buf = Append(@, p)]
  OBVIOUS
<1>3. PushOutput(e, p, full, immediate) \in
         {TakePassthrough(g), Encode(g, e.ratio[2]), Flush(g, full), Buffered(g)}
  BY DEF PushOutput
<1> HIDE DEF b
<1>4. g \in Encoder /\ g.buf = b /\ g.salt = e.salt /\ g.seq = e.seq
  BY <1>1 DEF Encoder
<1>5. e.ratio[2] \in Nat \ {0}
  BY DEF Encoder, Coding
<1> HIDE DEF g
<1>6. OutOk(g, PushOutput(e, p, full, immediate))
  BY <1>3, <1>4, <1>5, TakePassthroughOk, EncodeOk, FlushOk, BufferedOk
<1> QED BY <1>1, <1>2, <1>4, <1>6

----------------------------------------------------------------------------
(* The choice of the ratio.                                                *)

Policy == [loss : Nat, last : Ratio \cup {Unset}, recent : BOOLEAN, held : 0..2,
           forced : Ratio \cup {Unset}]

LEMMA LeastNat ==
  ASSUME NEW S, S \subseteq Nat, S # {}
  PROVE  \E m \in S : \A x \in S : m <= x
<1>1. PICK m \in S : \A x \in S : ~(<<x, m>> \in OpToRel(<, Nat))
  BY NatLessThanWellFounded, WFMin
<1>2. ASSUME NEW x \in S PROVE m <= x
  <2>1. x \in Nat /\ m \in Nat /\ <<x, m>> \in Nat \X Nat
    OBVIOUS
  <2>2. ~(x < m)
    BY <1>1, <2>1 DEF OpToRel
  <2> QED BY <2>1, <2>2
<1> QED BY <1>2

LEMMA MinIn ==
  ASSUME NEW n \in Nat, NEW S \in SUBSET (1..n), S # {}
  PROVE  Min(S) \in S
<1>1. S \subseteq Nat
  OBVIOUS
<1>2. \E m \in S : \A x \in S : m =< x
  BY <1>1, LeastNat
<1> QED BY <1>2 DEF Min

LEMMA MaxIn ==
  ASSUME NEW n \in Nat, NEW S \in SUBSET (1..n), S # {}
  PROVE  Max(S) \in S
<1> DEFINE M == {n - x : x \in S}
<1>1. M \subseteq Nat /\ M # {}
  OBVIOUS
<1>2. PICK k \in M : \A y \in M : k <= y
  <2> HIDE DEF M
  <2> QED BY <1>1, LeastNat
<1>3. PICK m \in S : k = n - m
  OBVIOUS
<1>4. \A x \in S : m >= x
  BY <1>2, <1>3
<1>5. \E z \in S : \A x \in S : z >= x
  BY <1>4
<1> QED BY <1>5 DEF Max

LEMMA AdaptiveRatioIs ==
  ASSUME NEW loss \in Int
  PROVE  AdaptiveRatio(loss) \in Ratio
<1> DEFINE n == Len(Steps)
           above == {i \in 1..n : loss >= Steps[i]}
           k == Len(Ladder) + 1 - Max(above)
<1>1. n \in Nat /\ Len(Ladder) = n /\ \A i \in 1..n : Ladder[i] \in Ratio
  BY FecAssumption DEF Ratio
<1>2. CASE above = {}
  BY <1>2 DEF AdaptiveRatio, Off, Ratio
<1>3. CASE above # {}
  <2>1. above \in SUBSET (1..n)
    OBVIOUS
  <2>2. AdaptiveRatio(loss) = Ladder[k]
    BY <1>3 DEF AdaptiveRatio
  <2> HIDE DEF above
  <2>3. Max(above) \in 1..n
    <3> HIDE DEF n
    <3> QED BY <1>1, <1>3, <2>1, MaxIn
  <2>4. k \in 1..n
    BY <1>1, <2>3
  <2> HIDE DEF k
  <2> QED BY <1>1, <2>2, <2>4
<1> QED BY <1>2, <1>3

LEMMA OffIs == Off \in Ratio /\ ~On(Off)
BY DEF Off, Ratio, On

LEMMA HystTunedIs ==
  ASSUME NEW loss \in Nat, NEW prev
  PROVE  HystTuned(loss, prev) \in Ratio
<1> DEFINE m == Max({loss, OffBelow + 1})
<1>1. m \in Int
  <2> DEFINE b == OffBelow + 1
  <2>1. b \in Int
    BY FecAssumption
  <2> HIDE DEF b
  <2>2. Max({loss, b}) \in {loss, b}
    BY <2>1, MaxPair
  <2> QED BY <2>1, <2>2 DEF b
<1>2. HystTuned(loss, prev) \in {Off, AdaptiveRatio(m), AdaptiveRatio(loss)}
  BY DEF HystTuned
<1> HIDE DEF m
<1> QED BY <1>1, <1>2, OffIs, AdaptiveRatioIs

LEMMA StepDownIs ==
  ASSUME NEW prev
  PROVE  StepDown(prev) \in Ratio
<1> DEFINE n == Len(Ladder)
           at == {i \in 1..n : Ladder[i] = prev}
           lower == IF at # {} THEN {i \in 1..n : i = Max(at) + 1}
                               ELSE {i \in 1..n : FracLess(Ladder[i], prev)}
<1>1. n \in Nat /\ \A i \in 1..n : Ladder[i] \in Ratio
  BY FecAssumption DEF Ratio
<1>2. StepDown(prev) = Off \/ (lower # {} /\ StepDown(prev) = Ladder[Min(lower)])
  BY DEF StepDown
<1>3. lower \in SUBSET (1..n)
  OBVIOUS
<1> HIDE DEF lower, n
<1>4. lower # {} => Min(lower) \in 1..n
  BY <1>1, <1>3, MinIn
<1> QED BY <1>1, <1>2, <1>4, OffIs

LEMMA ProposedIs ==
  ASSUME policy \in Policy, NEW c
  PROVE  Proposed(c) \in Ratio
<1> DEFINE h == HystTuned(policy.loss, policy.last)
           l == LossClassifier(h, policy.last, c)
<1>1. policy.loss \in Nat /\ policy.last \in Ratio \cup {Unset} /\ policy.forced \in Ratio \cup {Unset}
  BY DEF Policy
<1>2. h \in Ratio
  BY <1>1, HystTunedIs
<1>3. l = h \/ l = Off \/ (l = policy.last /\ policy.last # Unset)
  BY DEF LossClassifier
<1>4. l \in Ratio
  <2> HIDE DEF h, l
  <2> QED BY <1>1, <1>2, <1>3, OffIs
<1> HIDE DEF l
<1>5. \/ policy.forced # Unset /\ Proposed(c) = policy.forced
      \/ Proposed(c) \in {l, StepDown(policy.last)}
  BY DEF Proposed, RecoveryStepDown, l
<1> QED BY <1>1, <1>4, <1>5, StepDownIs

LEMMA AppliedIs ==
  ASSUME policy \in Policy, NEW r \in Ratio
  PROVE  Applied(r) \in Ratio
BY DEF Applied, Policy

\* A ratio has no more parity than itself, and the classifier lets none through that has.
LEMMA NotMoreThanLast ==
  ASSUME policy \in Policy, policy.forced = Unset
  PROVE  ~WouldIncreaseParity(policy.last, Applied(Proposed(TRUE)))
<1> DEFINE last == policy.last
           h == HystTuned(policy.loss, last)
           l == IF WouldIncreaseParity(last, h) THEN (IF last = Unset THEN Off ELSE last) ELSE h
<1>1. last \in Ratio \cup {Unset}
  BY DEF Policy
<1>2. last # Unset => ~WouldIncreaseParity(last, last)
  <2> SUFFICES ASSUME last \in Ratio PROVE ~MoreParity(last, last)
    BY <1>1 DEF WouldIncreaseParity
  <2> DEFINE x == last[2] * (last[1] + last[2])
  <2>1. x \in Nat /\ last[2] \in Nat
    BY DEF Ratio
  <2>2. FracLess(last, last) <=> x < x
    BY DEF FracLess
  <2> HIDE DEF x
  <2> QED BY <2>1, <2>2 DEF MoreParity
<1>3. Proposed(TRUE) = l
  BY DEF Proposed, RecoveryStepDown, LossClassifier
<1> HIDE DEF h
<1>4. ~WouldIncreaseParity(last, l)
  BY <1>2, OffIs DEF WouldIncreaseParity
<1> HIDE DEF l
<1>5. Applied(l) = l \/ (last # Unset /\ Applied(l) = last)
  BY DEF Applied
<1> QED BY <1>2, <1>3, <1>4, <1>5

----------------------------------------------------------------------------
(* The inductive invariant.                                                *)

TypeInv ==
    /\ policy \in Policy
    /\ enc = Absent \/ (enc \in Encoder /\ enc.salt < salt)
    /\ salt \in Nat /\ accepted \in Nat

\* EmittedOnce, for packets that exist.
EmitInv ==
    /\ emitted \in Seq(Nat) /\ Len(emitted) = accepted
    /\ Pending \subseteq 1..accepted /\ lost \subseteq 1..accepted /\ Pending \cap lost = {}
    /\ EmittedOnce

LEMMA EncoderOn ==
  ASSUME TypeInv
  PROVE  /\ enc.on \in BOOLEAN /\ (enc.on <=> enc # Absent)
         /\ enc.on => enc \in Encoder /\ enc.salt < salt
<1>1. Absent.on = FALSE
  BY DEF Absent
<1>2. \A e \in Encoder : e.on = TRUE
  BY DEF Encoder
<1> QED BY <1>1, <1>2 DEF TypeInv

\* How often a packet had left before.
Before(p) == IF p <= Len(emitted) THEN emitted[p] ELSE 0

\* c counts, for n packets, how often each has left when those of G leave once more.
Counted(c, n, G) ==
    /\ c \in Seq(Nat) /\ Len(c) = n
    /\ \A p \in 1..n : c[p] = Before(p) + (IF p \in G THEN 1 ELSE 0)

\* A packet of the sets A and B, which have none in common, leaves once more.
LEMMA CountTwo ==
  ASSUME emitted \in Seq(Nat), NEW n \in Nat, NEW A, NEW B, A \cap B = {}
  PROVE  Counted(Count(n, <<A, B>>), n, A \cup B)
<1> DEFINE parts == <<A, B>>
           hits(p) == {i \in 1..Len(parts) : p \in parts[i]}
           c == [p \in 1..n |-> Before(p) + Cardinality(hits(p))]
<1>1. Count(n, <<A, B>>) = c
  BY DEF Count, Before
<1>2. ASSUME NEW p PROVE Cardinality(hits(p)) = IF p \in A \cup B THEN 1 ELSE 0
  <2>1. Len(parts) = 2 /\ parts[1] = A /\ parts[2] = B
    OBVIOUS
  <2> HIDE DEF parts
  <2>2. 1..Len(parts) = {1, 2}
    BY <2>1
  <2>3. CASE p \in A
    <3>1. hits(p) = {1}
      BY <2>1, <2>2, <2>3
    <3> QED BY <2>3, <3>1, FS_Singleton
  <2>4. CASE p \in B
    <3>1. hits(p) = {2}
      BY <2>1, <2>2, <2>4
    <3> QED BY <2>4, <3>1, FS_Singleton
  <2>5. CASE p \notin A \cup B
    <3>1. hits(p) = {}
      BY <2>1, <2>2, <2>5
    <3> QED BY <2>5, <3>1, FS_EmptySet
  <2> QED BY <2>3, <2>4, <2>5
<1> HIDE DEF hits
<1>3. \A p \in 1..n : c[p] = Before(p) + (IF p \in A \cup B THEN 1 ELSE 0)
  BY <1>2
<1>4. \A p \in 1..n : Before(p) \in Nat
  BY DEF Before
<1>5. c \in Seq(Nat) /\ Len(c) = n
  <2>1. \A p \in 1..n : Before(p) + Cardinality(hits(p)) \in Nat
    BY <1>2, <1>4
  <2> QED BY <2>1
<1> HIDE DEF c
<1> QED BY <1>1, <1>3, <1>5 DEF Counted

LEMMA CountOne ==
  ASSUME emitted \in Seq(Nat), NEW n \in Nat, NEW A
  PROVE  Counted(Count(n, <<A>>), n, A)
<1> DEFINE parts == <<A>>
           hits(p) == {i \in 1..Len(parts) : p \in parts[i]}
           c == [p \in 1..n |-> Before(p) + Cardinality(hits(p))]
<1>1. Count(n, <<A>>) = c
  BY DEF Count, Before
<1>2. ASSUME NEW p PROVE Cardinality(hits(p)) = IF p \in A THEN 1 ELSE 0
  <2>1. Len(parts) = 1 /\ parts[1] = A
    OBVIOUS
  <2> HIDE DEF parts
  <2>2. 1..Len(parts) = {1}
    BY <2>1
  <2>3. CASE p \in A
    <3>1. hits(p) = {1}
      BY <2>1, <2>2, <2>3
    <3> QED BY <2>3, <3>1, FS_Singleton
  <2>4. CASE p \notin A
    <3>1. hits(p) = {}
      BY <2>1, <2>2, <2>4
    <3> QED BY <2>4, <3>1, FS_EmptySet
  <2> QED BY <2>3, <2>4
<1> HIDE DEF hits
<1>3. \A p \in 1..n : c[p] = Before(p) + (IF p \in A THEN 1 ELSE 0)
  BY <1>2
<1>4. \A p \in 1..n : Before(p) \in Nat
  BY DEF Before
<1>5. c \in Seq(Nat) /\ Len(c) = n
  <2>1. \A p \in 1..n : Before(p) + Cardinality(hits(p)) \in Nat
    BY <1>2, <1>4
  <2> QED BY <2>1
<1> HIDE DEF c
<1> QED BY <1>1, <1>3, <1>5 DEF Counted

\* What was gathered, with the packets of the step, is kept or is in G.
Parted(G) ==
    /\ Pending' \cup G = Pending \cup ((accepted + 1)..accepted')
    /\ Pending' \cap G = {}

LEMMA EmitStep ==
  ASSUME accepted \in Nat, EmitInv, NEW G, accepted' \in {accepted, accepted + 1},
         Counted(emitted', accepted', G),
         Parted(G), lost' = lost
  PROVE  EmitInv'
<1>0. /\ emitted' \in Seq(Nat) /\ Len(emitted') = accepted'
      /\ \A p \in 1..accepted' : emitted'[p] = Before(p) + (IF p \in G THEN 1 ELSE 0)
  BY DEF Counted
<1> USE DEF Parted
<1>1. \A p \in 1..accepted : Before(p) = IF p \in Pending \cup lost THEN 0 ELSE 1
  BY DEF EmitInv, EmittedOnce, Before
<1>2. \A p \in (accepted + 1)..accepted' : Before(p) = 0 /\ p = accepted + 1
  BY DEF EmitInv, Before
<1>3. /\ Pending \subseteq 1..accepted /\ lost \subseteq 1..accepted /\ Pending \cap lost = {}
  BY DEF EmitInv
<1>4. ASSUME NEW p \in 1..accepted'
      PROVE  emitted'[p] = IF p \in Pending' \cup lost' THEN 0 ELSE 1
  <2>1. CASE p \in 1..accepted
    BY <1>0, <1>1, <1>3, <2>1
  <2>2. CASE p = accepted + 1 /\ accepted' = accepted + 1
    <3>1. p \in (accepted + 1)..accepted' /\ p \notin lost /\ p \in Pending' \cup G
      BY <1>3, <2>2
    <3>2. Before(p) = 0
      BY <1>2, <3>1
    <3> QED BY <1>0, <3>1, <3>2
  <2> QED BY <2>1, <2>2
<1>5. Pending' \subseteq 1..accepted' /\ lost' \subseteq 1..accepted' /\ Pending' \cap lost' = {}
  <2>1. 1..accepted \subseteq 1..accepted' /\ (accepted + 1)..accepted' \subseteq 1..accepted'
    OBVIOUS
  <2>2. lost \cap ((accepted + 1)..accepted') = {}
    BY <1>3
  <2> QED BY <1>3, <2>1, <2>2
<1> QED BY <1>0, <1>4, <1>5 DEF EmitInv, EmittedOnce

----------------------------------------------------------------------------
(* The groups of the decoder.                                              *)

Group == [gid : Gid, ds : Nat, ps : Nat, got : SUBSET Nat, pkts : Seq(Nat)]

\* The groups of the decoder are of different packets, and none of them is complete.
Filed(gs) ==
    /\ gs \in Seq(Group)
    /\ \A i \in 1..Len(gs) :
         IsFiniteSet(gs[i].got) /\ Cardinality(gs[i].got) < gs[i].ds
    /\ \A i, j \in 1..Len(gs) : i # j => gs[i].gid # gs[j].gid

\* x is of a group that a sender with encoder e, whose next salt is next, has closed.
KnownTo(x, e, next) ==
    /\ x.gid \in Gid /\ x.gid[1] < next
    /\ e.on /\ x.gid[1] = e.salt => x.gid[2] < e.seq

Known(x) == KnownTo(x, enc, salt)

Coherent ==
    /\ \A s \in net : IsShard(s) /\ Known(s)
    /\ \A s, t \in net : s.gid = t.gid => Alike(s, t)
    /\ \A i \in 1..Len(groups) :
         /\ Known(groups[i])
         /\ \A s \in net : groups[i].gid = s.gid => Alike(groups[i], s)

\* completed is the end of the log, as long as it may be.
Remembered ==
    /\ log \in Seq(Gid) /\ completed \in Seq(Gid)
    /\ Len(completed) <= CompletedCap /\ Len(completed) <= Len(log)
    /\ Len(completed) < CompletedCap => Len(completed) = Len(log)
    /\ \A k \in 1..Len(completed) : completed[k] = log[Len(log) - Len(completed) + k]
    /\ \A i, j \in 1..Len(log) : i < j /\ log[i] = log[j] => j - i > CompletedCap

GroupInv == Filed(groups) /\ Coherent /\ Remembered

IInv == TypeInv /\ EmitInv /\ GroupInv

----------------------------------------------------------------------------
(* The steps of the sender.                                                *)

\* Shards of new groups, which agree among themselves, go out.
LEMMA NetGrows ==
  ASSUME GroupInv, NEW S, net' = net \cup S, UNCHANGED receive,
         \A s \in S : IsShard(s) /\ ~Known(s) /\ KnownTo(s, enc', salt'),
         \A s, t \in S : s.gid = t.gid => Alike(s, t),
         \A x : Known(x) => KnownTo(x, enc', salt')
  PROVE  GroupInv'
<1>1. Filed(groups)' /\ Remembered'
  BY DEF GroupInv, receive, Remembered, Filed
<1>2. \A s, t \in net' : s.gid = t.gid => Alike(s, t)
  <2>1. ASSUME NEW s \in net, NEW t \in S PROVE s.gid # t.gid
    <3>1. Known(s) /\ ~Known(t)
      BY DEF GroupInv, Coherent
    <3> QED BY <3>1 DEF Known, KnownTo
  <2> QED BY <2>1 DEF GroupInv, Coherent
<1>3. \A s \in net' : IsShard(s) /\ KnownTo(s, enc', salt')
  BY DEF GroupInv, Coherent
<1>4. ASSUME NEW i \in 1..Len(groups)
      PROVE  /\ KnownTo(groups[i], enc', salt')
             /\ \A s \in net' : groups[i].gid = s.gid => Alike(groups[i], s)
  <2>1. Known(groups[i])
    BY DEF GroupInv, Coherent
  <2>2. ASSUME NEW t \in S PROVE groups[i].gid # t.gid
    BY <2>1 DEF Known, KnownTo
  <2> QED BY <2>1, <2>2 DEF GroupInv, Coherent
<1>5. groups' = groups
  BY DEF receive
<1>6. Coherent'
  BY <1>2, <1>3, <1>4, <1>5 DEF Coherent, Known
<1> QED BY <1>1, <1>6 DEF GroupInv

\* A packet passes uncoded.
LEMMA PlainOk ==
  ASSUME IInv, accepted' = accepted + 1, emitted' = Count(accepted + 1, <<{accepted + 1}>>),
         UNCHANGED <<enc, lost>>
  PROVE  EmitInv'
<1> DEFINE p == accepted + 1
           G == {p}
<1>1. accepted \in Nat /\ p \in Nat /\ emitted \in Seq(Nat) /\ EmitInv
  BY DEF IInv, TypeInv, EmitInv
<1>2. emitted' = Count(p, <<G>>) /\ accepted' = p /\ p \notin 1..accepted
  BY <1>1
<1>3. Pending' = Pending /\ Pending \subseteq 1..accepted
  BY <1>1 DEF Pending, EmitInv
<1>4. (accepted + 1)..accepted' = G
  BY <1>1
<1>5. Pending' \cap G = {}
  BY <1>2, <1>3
<1> HIDE DEF G, p
<1>6. Counted(emitted', accepted', G)
  BY <1>1, <1>2, CountOne
<1>7. Parted(G)
  BY <1>3, <1>4, <1>5 DEF Parted
<1>8. accepted' \in {accepted, accepted + 1} /\ lost' = lost
  OBVIOUS
<1> QED BY ONLY <1>1, <1>6, <1>7, <1>8, EmitStep

LEMMA SameGroups ==
  ASSUME GroupInv, UNCHANGED <<enc, salt, net, receive>>
  PROVE  GroupInv'
BY DEF GroupInv, receive, Filed, Coherent, Known, KnownTo, Remembered

\* The peer's encoder e is asked for outputs: e is left with the first, and goes with a packet
\* more into the second.
LEMMA TwoOutputs ==
  ASSUME NEW e \in Encoder, NEW grown, NEW first, NEW second, NEW p,
         OutOk(e, first), OutOk(grown, second), p \notin Range(e.buf),
         grown.salt = first.enc.salt, grown.seq = first.enc.seq,
         Range(grown.buf) = Range(first.enc.buf) \cup {p}
  PROVE  LET A == Emitted(first.shards, first.plain)
             B == Emitted(second.shards, second.plain)
             S == first.shards \cup second.shards
             f == second.enc
         IN  /\ A \cap B = {} /\ (A \cup B) \cap Range(f.buf) = {}
             /\ A \cup B \cup Range(f.buf) = Range(e.buf) \cup {p}
             /\ f \in Encoder /\ f.salt = e.salt /\ f.seq >= e.seq
             /\ \A s \in S : /\ IsShard(s) /\ s.gid[1] = e.salt
                             /\ s.gid[2] >= e.seq /\ s.gid[2] < f.seq
             /\ \A s, t \in S : s.gid = t.gid => Alike(s, t)
<1> DEFINE A == Emitted(first.shards, first.plain)
           B == Emitted(second.shards, second.plain)
           f == second.enc
           m == first.enc
<1>1. /\ A \cup Range(m.buf) = Range(e.buf) /\ A \cap Range(m.buf) = {}
      /\ B \cup Range(f.buf) = Range(m.buf) \cup {p} /\ B \cap Range(f.buf) = {}
  BY DEF OutOk
<1>2. /\ m \in Encoder /\ f \in Encoder /\ m.salt = e.salt /\ f.salt = e.salt
      /\ m.seq >= e.seq /\ f.seq >= m.seq
  BY DEF OutOk
<1>3. e.seq \in Nat /\ m.seq \in Nat /\ f.seq \in Nat
  BY <1>2 DEF Encoder
<1>4. /\ \A s \in first.shards : IsShard(s) /\ s.gid = <<e.salt, e.seq>> /\ e.seq < m.seq
      /\ \A s \in second.shards : IsShard(s) /\ s.gid = <<e.salt, m.seq>> /\ m.seq < f.seq
  BY <1>2 DEF OutOk, GroupId
<1>5. /\ \A s, t \in first.shards : Alike(s, t)
      /\ \A s, t \in second.shards : Alike(s, t)
  BY DEF OutOk
<1> HIDE DEF A, B, f, m
<1>6. f.seq >= e.seq
  BY <1>2, <1>3
<1>7. A \cap B = {} /\ (A \cup B) \cap Range(f.buf) = {}
      /\ A \cup B \cup Range(f.buf) = Range(e.buf) \cup {p}
  BY <1>1
<1>8. \A s \in first.shards \cup second.shards :
        /\ IsShard(s) /\ s.gid[1] = e.salt /\ s.gid[2] >= e.seq /\ s.gid[2] < f.seq
  <2>1. \A s \in first.shards : s.gid[1] = e.salt /\ s.gid[2] = e.seq
    BY <1>4
  <2>2. \A s \in second.shards : s.gid[1] = e.salt /\ s.gid[2] = m.seq
    BY <1>4
  <2> QED BY <1>2, <1>3, <1>4, <2>1, <2>2
<1>9. \A s, t \in first.shards \cup second.shards : s.gid = t.gid => Alike(s, t)
  <2>1. \A s \in first.shards : s.gid[2] = e.seq /\ e.seq < m.seq
    BY <1>4
  <2>2. \A s \in second.shards : s.gid[2] = m.seq
    BY <1>4
  <2> QED BY <1>3, <1>5, <2>1, <2>2
<1> QED BY <1>2, <1>6, <1>7, <1>8, <1>9 DEF A, B, f

LEMMA OnIs ==
  ASSUME NEW r \in Ratio, On(r)
  PROVE  r \in Coding
BY DEF Ratio, Coding, On

LEMMA NewEncoderIs ==
  ASSUME TypeInv, NEW r \in Coding
  PROVE  /\ NewEncoder(r) \in Encoder /\ Range(NewEncoder(r).buf) = {}
         /\ NewEncoder(r).salt = salt
<1> DEFINE e == NewEncoder(r)
           none == <<>>
<1>1. e = [on |-> TRUE, ratio |-> r, buf |-> none, seq |-> 1, salt |-> salt]
  BY DEF NewEncoder
<1>2. none \in Seq(Nat) /\ Range(none) = {} /\ salt \in Nat
  BY RangeEmpty DEF TypeInv
<1> HIDE DEF none, e
<1>3. e.buf = none /\ e.salt = salt
  BY <1>1
<1>4. e \in Encoder
  BY <1>1, <1>2 DEF Encoder
<1> QED BY <1>2, <1>3, <1>4 DEF e

\* A packet goes into the encoder, new or after its ratio is brought up to date.
LEMMA CodedOk ==
  ASSUME IInv, NEW r \in Coding, NEW full, NEW immediate,
         accepted' = accepted + 1, UNCHANGED <<lost, receive>>,
         LET old == IF enc.on THEN enc ELSE NewEncoder(r)
             first == UpdateRatio(old, r, full)
             second == PushOutput(first.enc, accepted + 1, full, immediate)
         IN  /\ enc' = second.enc
             /\ salt' = IF enc.on THEN salt ELSE salt + 1
             /\ net' = net \union first.shards \union second.shards
             /\ emitted' = Count(accepted + 1, <<Emitted(first.shards, first.plain),
                                                 Emitted(second.shards, second.plain)>>)
  PROVE  EmitInv' /\ GroupInv' /\ enc' \in Encoder /\ enc'.salt < salt' /\ salt' \in Nat
<1> DEFINE p == accepted + 1
           old == IF enc.on THEN enc ELSE NewEncoder(r)
           first == UpdateRatio(old, r, full)
           m == first.enc
           second == PushOutput(m, p, full, immediate)
           grown == [m EXCEPT !.buf = Append(@, p)]
           A == Emitted(first.shards, first.plain)
           B == Emitted(second.shards, second.plain)
           S == first.shards \cup second.shards
           f == second.enc
<1>1. /\ enc' = f /\ net' = net \cup S /\ emitted' = Count(p, <<A, B>>)
      /\ salt' = IF enc.on THEN salt ELSE salt + 1
  OBVIOUS
<1>2. TypeInv /\ EmitInv /\ GroupInv /\ accepted \in Nat /\ p \in Nat /\ emitted \in Seq(Nat) /\ salt \in Nat
  BY DEF IInv, TypeInv, EmitInv
<1>3. /\ old \in Encoder /\ Range(old.buf) = Pending
      /\ old.salt = IF enc.on THEN enc.salt ELSE salt
      /\ enc.on => old = enc /\ enc.salt < salt
  BY <1>2, EncoderOn, NewEncoderIs DEF Pending
<1> HIDE DEF old
<1>4. OutOk(old, first) /\ m \in Encoder
  <2>1. OutOk(old, first)
    BY <1>3, UpdateRatioOk
  <2> QED BY <2>1 DEF OutOk
<1> HIDE DEF first, m
<1>5. /\ OutOk(grown, second) /\ grown.salt = m.salt /\ grown.seq = m.seq
      /\ Range(grown.buf) = Range(m.buf) \cup {p}
  <2> HIDE DEF p
  <2> QED BY <1>2, <1>4, PushOutputOk
<1> HIDE DEF second, grown
<1>6. p \notin Range(old.buf) /\ Pending \subseteq 1..accepted
  BY <1>2, <1>3 DEF EmitInv
<1> HIDE DEF p
<1>7. /\ A \cap B = {} /\ (A \cup B) \cap Range(f.buf) = {}
      /\ A \cup B \cup Range(f.buf) = Range(old.buf) \cup {p}
      /\ f \in Encoder /\ f.salt = old.salt /\ f.seq >= old.seq
      /\ \A s \in S : /\ IsShard(s) /\ s.gid[1] = old.salt
                      /\ s.gid[2] >= old.seq /\ s.gid[2] < f.seq
      /\ \A s, t \in S : s.gid = t.gid => Alike(s, t)
  BY <1>3, <1>4, <1>5, <1>6, TwoOutputs DEF m
<1> HIDE DEF A, B, S, f
<1>8. f.on = TRUE /\ Pending' = Range(f.buf)
  <2>1. f.on = TRUE
    BY <1>7 DEF Encoder
  <2> QED BY <1>1, <2>1 DEF Pending
<1>9. EmitInv'
  <2> DEFINE G == A \cup B
  <2>1. Counted(emitted', accepted', G)
    BY <1>1, <1>2, <1>7, CountTwo DEF p
  <2>2. Parted(G)
    <3>1. (accepted + 1)..accepted' = {p}
      BY <1>2 DEF p
    <3> QED BY <1>3, <1>7, <1>8, <3>1 DEF Parted
  <2>3. accepted' \in {accepted, accepted + 1} /\ lost' = lost
    OBVIOUS
  <2> HIDE DEF G
  <2> QED BY ONLY <1>2, <2>1, <2>2, <2>3, EmitStep
<1>10. f.salt < salt' /\ salt' \in Nat /\ salt' >= salt
  BY <1>1, <1>2, <1>3, <1>7
<1>11. old.seq \in Nat /\ f.seq \in Nat /\ f.salt \in Nat /\ old.salt \in Nat
  BY <1>3, <1>7 DEF Encoder
<1>12. \A s \in S : IsShard(s) /\ ~Known(s) /\ KnownTo(s, enc', salt')
  <2> SUFFICES ASSUME NEW s \in S
               PROVE  IsShard(s) /\ ~Known(s) /\ KnownTo(s, enc', salt')
    OBVIOUS
  <2>1. IsShard(s) /\ s.gid \in Gid /\ s.gid[1] \in Nat /\ s.gid[2] \in Nat
    BY <1>7 DEF IsShard, Gid
  <2>2. KnownTo(s, f, salt')
    BY <1>7, <1>10, <2>1 DEF KnownTo
  <2>3. ~Known(s)
    BY <1>2, <1>3, <1>7, <1>11, <2>1 DEF Known, KnownTo
  <2> QED BY <1>1, <2>1, <2>2, <2>3
<1>13. ASSUME NEW x, Known(x) PROVE KnownTo(x, enc', salt')
  <2>1. x.gid \in Gid /\ x.gid[1] \in Nat /\ x.gid[2] \in Nat /\ x.gid[1] < salt
    BY <1>13 DEF Known, KnownTo, Gid
  <2>2. x.gid[1] = f.salt => enc.on /\ x.gid[2] < enc.seq /\ old = enc
    BY <1>3, <1>7, <1>13, <2>1, <1>2 DEF Known, KnownTo
  <2>3. x.gid[1] = f.salt => x.gid[2] < f.seq
    BY <1>7, <1>11, <2>1, <2>2
  <2>4. KnownTo(x, f, salt')
    BY <1>2, <1>10, <2>1, <2>3 DEF KnownTo
  <2> QED BY <1>1, <2>4
<1>14. GroupInv'
  <2>1. /\ net' = net \cup S /\ UNCHANGED receive
        /\ \A s, t \in S : s.gid = t.gid => Alike(s, t)
        /\ \A x : Known(x) => KnownTo(x, enc', salt')
    BY <1>1, <1>7, <1>13
  <2> QED BY ONLY <1>2, <1>12, <2>1, NetGrows
<1> QED BY <1>1, <1>7, <1>9, <1>10, <1>14

LEMMA FlushEmpties ==
  ASSUME NEW e \in Encoder, NEW full
  PROVE  Range(Flush(e, full).enc.buf) = {}
<1>1. e.buf = <<>> => Range(Buffered(e).enc.buf) = {}
  BY RangeEmpty DEF Buffered
<1>2. TakePassthrough(e).enc = Emptied(e) /\ Encode(e, DynamicParity(e)).enc = Emptied(e)
  BY DEF TakePassthrough, Encode
<1>3. Range(Emptied(e).buf) = {}
  BY EmptiedIs, RangeEmpty
<1> QED BY <1>1, <1>2, <1>3 DEF Flush

LEMMA AbsentIs == Absent.on = FALSE
BY DEF Absent

\* The encoder hands out what it has gathered, and stays, or goes with nothing left in it.
LEMMA FlushedOk ==
  ASSUME IInv, enc \in Encoder, NEW out, OutOk(enc, out),
         net' = net \cup out.shards, UNCHANGED <<salt, accepted, lost, receive>>,
         emitted' = Count(accepted, <<Emitted(out.shards, out.plain)>>),
         enc' = out.enc \/ (enc' = Absent /\ Range(out.enc.buf) = {})
  PROVE  EmitInv' /\ GroupInv'
<1> DEFINE G == Emitted(out.shards, out.plain)
           S == out.shards
           f == out.enc
<1>1. /\ TypeInv /\ EmitInv /\ GroupInv /\ accepted \in Nat /\ emitted \in Seq(Nat) /\ salt \in Nat
      /\ enc.on = TRUE /\ enc.salt < salt
  <2>1. TypeInv /\ EmitInv /\ GroupInv
    BY DEF IInv
  <2> QED BY <2>1, AbsentIs DEF TypeInv, EmitInv, Encoder
<1>2. /\ G \cup Range(f.buf) = Range(enc.buf) /\ G \cap Range(f.buf) = {}
      /\ f \in Encoder /\ f.salt = enc.salt /\ f.seq >= enc.seq
      /\ \A s \in S : IsShard(s) /\ s.gid = <<enc.salt, enc.seq>> /\ enc.seq < f.seq
      /\ \A s, t \in S : Alike(s, t)
  BY DEF OutOk, GroupId
<1>3. emitted' = Count(accepted, <<G>>) /\ net' = net \cup S
  OBVIOUS
<1>4. Pending = Range(enc.buf) /\ Pending' = Range(f.buf)
  <2>1. f.on = TRUE
    BY <1>2 DEF Encoder
  <2> QED BY <1>1, <2>1, AbsentIs DEF Pending
<1> HIDE DEF G, S
<1>5. EmitInv'
  <2>1. Counted(emitted', accepted', G)
    BY <1>1, <1>3, CountOne
  <2>2. Parted(G)
    <3>1. (accepted + 1)..accepted' = {}
      BY <1>1
    <3> QED BY <1>2, <1>4, <3>1 DEF Parted
  <2>3. accepted' \in {accepted, accepted + 1} /\ lost' = lost
    OBVIOUS
  <2> QED BY ONLY <1>1, <2>1, <2>2, <2>3, EmitStep
<1>6. enc.seq \in Nat /\ f.seq \in Nat /\ f.salt \in Nat /\ enc.salt \in Nat
  BY <1>2 DEF Encoder
<1>7. enc' = f \/ enc'.on = FALSE
  BY AbsentIs
<1>8. \A s \in S : IsShard(s) /\ ~Known(s) /\ KnownTo(s, enc', salt')
  <2> SUFFICES ASSUME NEW s \in S
               PROVE  IsShard(s) /\ ~Known(s) /\ KnownTo(s, enc', salt')
    OBVIOUS
  <2>1. IsShard(s) /\ s.gid \in Gid /\ s.gid[1] = enc.salt /\ s.gid[2] = enc.seq
    BY <1>2 DEF IsShard, Gid
  <2>2. KnownTo(s, enc', salt')
    BY <1>1, <1>2, <1>7, <2>1 DEF KnownTo
  <2>3. ~Known(s)
    BY <1>1, <1>6, <2>1 DEF Known, KnownTo
  <2> QED BY <2>1, <2>2, <2>3
<1>9. ASSUME NEW x, Known(x) PROVE KnownTo(x, enc', salt')
  <2>1. x.gid \in Gid /\ x.gid[1] \in Nat /\ x.gid[2] \in Nat /\ x.gid[1] < salt
    BY <1>9 DEF Known, KnownTo, Gid
  <2>2. x.gid[1] = enc.salt => x.gid[2] < enc.seq
    BY <1>1, <1>9 DEF Known, KnownTo
  <2> QED BY <1>2, <1>6, <1>7, <2>1, <2>2 DEF KnownTo
<1>10. GroupInv'
  <2>1. /\ net' = net \cup S /\ UNCHANGED receive
        /\ \A s, t \in S : s.gid = t.gid => Alike(s, t)
        /\ \A x : Known(x) => KnownTo(x, enc', salt')
    BY <1>2, <1>3, <1>9
  <2> QED BY ONLY <1>1, <1>8, <2>1, NetGrows
<1> QED BY <1>5, <1>10

LEMMA SameType ==
  ASSUME TypeInv, policy' \in Policy, UNCHANGED <<salt, accepted>>,
         enc' = Absent \/ enc' = enc \/ (enc' \in Encoder /\ enc'.salt = enc.salt /\ enc.on)
  PROVE  TypeInv'
BY EncoderOn DEF TypeInv

LEMMA FecSendOk ==
  ASSUME IInv, NEW c \in BOOLEAN, NEW full, NEW immediate, NEW room, FecSend(c, full, immediate, room)
  PROVE  IInv'
<1> DEFINE r == Applied(Proposed(c))
           coded == On(r) /\ r[1] + r[2] <= MaxTotal /\ room
<1>1. policy \in Policy /\ TypeInv /\ EmitInv /\ GroupInv
  BY DEF IInv, TypeInv
<1>2. r \in Ratio
  BY <1>1, ProposedIs, AppliedIs
<1>3. policy' \in Policy
  <2> DEFINE held == IF policy.forced # Unset \/ r # policy.last THEN 2 ELSE policy.held
             recent == policy.recent \/ c
  <2>1. policy' = [policy EXCEPT !.recent = recent, !.last = r, !.held = held]
    BY DEF FecSend
  <2>2. held \in 0..2 /\ recent \in BOOLEAN
    BY <1>1 DEF Policy
  <2> HIDE DEF r, held, recent
  <2> QED BY <1>1, <1>2, <2>1, <2>2 DEF Policy
<1>4. accepted' = accepted + 1 /\ UNCHANGED <<lost, receive>>
  BY DEF FecSend
<1>5. CASE coded
  <2>1. LET old == IF enc.on THEN enc ELSE NewEncoder(r)
            first == UpdateRatio(old, r, full)
            second == PushOutput(first.enc, accepted + 1, full, immediate)
        IN  /\ enc' = second.enc
            /\ salt' = IF enc.on THEN salt ELSE salt + 1
            /\ net' = net \union first.shards \union second.shards
            /\ emitted' = Count(accepted + 1, <<Emitted(first.shards, first.plain),
                                                Emitted(second.shards, second.plain)>>)
    BY <1>5 DEF FecSend
  <2>2. r \in Coding
    BY <1>2, <1>5, OnIs
  <2> HIDE DEF r
  <2>3. EmitInv' /\ GroupInv' /\ enc' \in Encoder /\ enc'.salt < salt' /\ salt' \in Nat
    BY <1>4, <2>1, <2>2, CodedOk
  <2>4. TypeInv'
    BY <1>1, <1>3, <1>4, <2>3 DEF TypeInv
  <2> QED BY <2>3, <2>4 DEF IInv
<1>6. CASE ~coded
  <2>1. emitted' = Count(accepted + 1, <<{accepted + 1}>>) /\ UNCHANGED <<enc, salt, net>>
    BY <1>6 DEF FecSend
  <2>2. EmitInv' /\ GroupInv'
    BY <1>1, <1>4, <2>1, PlainOk, SameGroups
  <2>3. TypeInv'
    BY <1>1, <1>3, <1>4, <2>1 DEF TypeInv
  <2> QED BY <2>2, <2>3 DEF IInv
<1> QED BY <1>5, <1>6

LEMMA BypassOk ==
  ASSUME IInv, Bypass
  PROVE  IInv'
<1>1. /\ accepted' = accepted + 1 /\ emitted' = Count(accepted + 1, <<{accepted + 1}>>)
      /\ UNCHANGED <<policy, enc, salt, net, lost, receive>>
  BY DEF Bypass
<1>2. EmitInv' /\ GroupInv'
  BY <1>1, PlainOk, SameGroups DEF IInv
<1>3. TypeInv'
  BY <1>1 DEF IInv, TypeInv
<1> QED BY <1>2, <1>3 DEF IInv

LEMMA FlushDueOk ==
  ASSUME IInv, NEW full, NEW drain, FlushDue(full, drain)
  PROVE  IInv'
<1> DEFINE out == IF drain THEN FlushPassthrough(enc) ELSE Flush(enc, full)
<1>1. /\ enc.on /\ enc' = out.enc /\ net' = net \cup out.shards
      /\ emitted' = Count(accepted, <<Emitted(out.shards, out.plain)>>)
      /\ UNCHANGED <<policy, salt, accepted, lost, receive>>
  BY DEF FlushDue, Flushed
<1>2. enc \in Encoder /\ TypeInv /\ policy \in Policy
  BY <1>1, EncoderOn DEF IInv, TypeInv
<1>3. OutOk(enc, out)
  BY <1>2, FlushOk, FlushPassthroughOk
<1> HIDE DEF out
<1>4. EmitInv' /\ GroupInv'
  BY <1>1, <1>2, <1>3, FlushedOk
<1>5. TypeInv'
  BY <1>1, <1>2, <1>3, SameType DEF OutOk
<1> QED BY <1>4, <1>5 DEF IInv

LEMMA FlushAllOk ==
  ASSUME IInv, NEW full, FlushAll(full)
  PROVE  IInv'
<1> DEFINE out == Flush(enc, full)
<1>1. /\ enc.on /\ enc' = Absent /\ net' = net \cup out.shards
      /\ emitted' = Count(accepted, <<Emitted(out.shards, out.plain)>>)
      /\ UNCHANGED <<policy, salt, accepted, lost, receive>>
  BY DEF FlushAll, Flushed
<1>2. enc \in Encoder /\ TypeInv /\ policy \in Policy
  BY <1>1, EncoderOn DEF IInv, TypeInv
<1>3. OutOk(enc, out) /\ Range(out.enc.buf) = {}
  BY <1>2, FlushOk, FlushEmpties
<1> HIDE DEF out
<1>4. EmitInv' /\ GroupInv'
  BY <1>1, <1>2, <1>3, FlushedOk
<1>5. TypeInv'
  BY <1>1, <1>2, SameType
<1> QED BY <1>4, <1>5 DEF IInv

LEMMA SameEmit ==
  ASSUME EmitInv, UNCHANGED <<enc, accepted, emitted, lost>>
  PROVE  EmitInv'
BY DEF EmitInv, EmittedOnce, Pending

\* Nothing is sent, and the encoder is kept or goes.
LEMMA EncoderGoes ==
  ASSUME GroupInv, UNCHANGED <<salt, net, receive>>, enc' = Absent \/ enc' = enc
  PROVE  GroupInv'
<1> DEFINE S == {}
<1>1. net' = net \cup S
  OBVIOUS
<1>2. \A x : Known(x) => KnownTo(x, enc', salt')
  BY AbsentIs DEF Known, KnownTo
<1>3. /\ \A s \in S : IsShard(s) /\ ~Known(s) /\ KnownTo(s, enc', salt')
      /\ \A s, t \in S : s.gid = t.gid => Alike(s, t)
  OBVIOUS
<1> HIDE DEF S
<1> QED BY <1>1, <1>2, <1>3, NetGrows

LEMMA RemovePeerOk ==
  ASSUME IInv, RemovePeer
  PROVE  IInv'
<1>1. /\ enc' = Absent /\ lost' = lost \cup Pending /\ UNCHANGED <<salt, net, accepted, emitted, receive>>
      /\ policy' = [policy EXCEPT !.loss = 0, !.last = Unset, !.recent = FALSE, !.held = 0]
  BY DEF RemovePeer
<1>2. TypeInv /\ EmitInv /\ GroupInv
  BY DEF IInv
<1>3. policy' \in Policy
  <2> DEFINE u == Unset
             no == FALSE
             q == [policy EXCEPT !.loss = 0]
             t == [q EXCEPT !.held = 0]
             v == [t EXCEPT !.recent = no]
             w == [v EXCEPT !.last = u]
  <2>1. policy \in Policy /\ u \in Ratio \cup {Unset} /\ no \in BOOLEAN
    BY <1>2 DEF TypeInv
  <2>2. q \in Policy
    BY <2>1 DEF Policy
  <2>3. t \in Policy
    <3> HIDE DEF q
    <3> QED BY <2>2 DEF Policy
  <2>4. v \in Policy
    <3> HIDE DEF t, no
    <3> QED BY <2>1, <2>3 DEF Policy
  <2>5. w \in Policy
    <3> HIDE DEF v, u
    <3> QED BY <2>1, <2>4 DEF Policy
  <2>6. policy' = w
    BY <1>1, <2>1 DEF Policy
  <2> QED BY <2>5, <2>6
<1>4. Pending' = {}
  BY <1>1, AbsentIs DEF Pending
<1>5. EmitInv'
  BY <1>1, <1>2, <1>4 DEF EmitInv, EmittedOnce
<1>6. TypeInv' /\ GroupInv'
  BY <1>1, <1>2, <1>3, SameType, EncoderGoes
<1> QED BY <1>5, <1>6 DEF IInv

LEMMA SetFecConfigOk ==
  ASSUME IInv, NEW r \in Forced \cup {Unset}, NEW full, SetFecConfig(r, full)
  PROVE  IInv'
<1> DEFINE out == IF enc.on THEN Flush(enc, full) ELSE [shards |-> {}, plain |-> <<>>]
<1>1. /\ enc' = Absent /\ net' = net \cup out.shards
      /\ emitted' = Count(accepted, <<Emitted(out.shards, out.plain)>>)
      /\ UNCHANGED <<salt, accepted, lost, receive>>
      /\ policy' = [policy EXCEPT !.forced = r]
  BY DEF SetFecConfig
<1>2. TypeInv /\ EmitInv /\ GroupInv /\ policy \in Policy
  BY DEF IInv, TypeInv
<1>3. policy' \in Policy
  <2>1. r \in Ratio \cup {Unset}
    BY FecAssumption DEF Ratio
  <2> QED BY <1>1, <1>2, <2>1 DEF Policy
<1>4. TypeInv'
  BY <1>1, <1>2, <1>3, SameType
<1>5. CASE enc.on
  <2>1. enc \in Encoder
    BY <1>2, <1>5, EncoderOn
  <2>2. OutOk(enc, out) /\ Range(out.enc.buf) = {}
    BY <1>5, <2>1, FlushOk, FlushEmpties
  <2> HIDE DEF out
  <2>3. EmitInv' /\ GroupInv'
    BY <1>1, <2>1, <2>2, FlushedOk
  <2> QED BY <1>4, <2>3 DEF IInv
<1>6. CASE ~enc.on
  <2> DEFINE G == Emitted(out.shards, out.plain)
  <2>1. out.shards = {} /\ G = {}
    BY <1>6, EmittedNone
  <2>2. emitted' = Count(accepted, <<G>>) /\ net' = net
    BY <1>1, <2>1
  <2>3. accepted \in Nat /\ emitted \in Seq(Nat) /\ accepted' = accepted
    BY <1>1, <1>2 DEF TypeInv, EmitInv
  <2>4. Pending = {} /\ Pending' = {}
    BY <1>1, <1>6, AbsentIs DEF Pending
  <2> HIDE DEF G, out
  <2>5. Counted(emitted', accepted', G)
    BY <2>2, <2>3, CountOne
  <2>6. Parted(G)
    <3>1. (accepted + 1)..accepted' = {}
      BY <2>3
    <3> QED BY <2>1, <2>4, <3>1 DEF Parted
  <2>7. accepted' \in {accepted, accepted + 1} /\ lost' = lost
    BY <1>1
  <2>8. EmitInv'
    BY ONLY <1>2, <2>3, <2>5, <2>6, <2>7, EmitStep
  <2>9. GroupInv'
    BY <1>1, <1>2, <2>2, EncoderGoes
  <2> QED BY <1>4, <2>8, <2>9 DEF IInv
<1> QED BY <1>2, <1>5, <1>6, EncoderOn

LEMMA PolicyOnly ==
  ASSUME IInv, policy' \in Policy, UNCHANGED <<enc, salt, accepted, emitted, lost, net, receive>>
  PROVE  IInv'
<1>1. TypeInv /\ EmitInv /\ GroupInv
  BY DEF IInv
<1> QED BY <1>1, SameType, SameEmit, SameGroups DEF IInv

LEMMA HandlePongOk ==
  ASSUME IInv, NEW loss \in Losses, HandlePong(loss)
  PROVE  IInv'
<1>1. policy \in Policy /\ loss \in Nat
  BY FecAssumption DEF IInv, TypeInv
<1>2. policy' = [policy EXCEPT !.loss = loss]
  BY DEF HandlePong
<1>3. policy' \in Policy
  BY <1>1, <1>2 DEF Policy
<1> QED BY <1>3, PolicyOnly DEF HandlePong

LEMMA TimePassesOk ==
  ASSUME IInv, TimePasses
  PROVE  IInv'
<1> DEFINE no == FALSE
<1>1. policy \in Policy /\ no \in BOOLEAN
  BY DEF IInv, TypeInv
<1>2. \/ policy.held > 0 /\ policy' = [policy EXCEPT !.held = @ - 1]
      \/ policy' = [policy EXCEPT !.recent = no]
  BY DEF TimePasses
<1> HIDE DEF no
<1>3. policy' \in Policy
  BY <1>1, <1>2 DEF Policy
<1> QED BY <1>3, PolicyOnly DEF TimePasses

----------------------------------------------------------------------------
(* The steps of the decoder.                                               *)

LEMMA SameSend ==
  ASSUME TypeInv, EmitInv, UNCHANGED send
  PROVE  TypeInv' /\ EmitInv'
BY DEF send, TypeInv, EmitInv, EmittedOnce, Pending

\* No shard is new, and every group there is had one of its parts before.
LEMMA StillCoherent ==
  ASSUME Coherent, UNCHANGED send, net' \subseteq net,
         \A i \in 1..Len(groups') :
           \/ \E s \in net : groups'[i].gid = s.gid /\ Alike(groups'[i], s)
           \/ \E k \in 1..Len(groups) :
                groups'[i].gid = groups[k].gid /\ Alike(groups'[i], groups[k])
  PROVE  Coherent'
<1>1. enc' = enc /\ salt' = salt
  BY DEF send
<1>2. /\ \A s \in net : IsShard(s) /\ KnownTo(s, enc, salt)
      /\ \A s, t \in net : s.gid = t.gid => Alike(s, t)
      /\ \A i \in 1..Len(groups) :
           /\ KnownTo(groups[i], enc, salt)
           /\ \A s \in net : groups[i].gid = s.gid => Alike(groups[i], s)
  BY DEF Coherent, Known
<1>3. ASSUME NEW i \in 1..Len(groups')
      PROVE  /\ KnownTo(groups'[i], enc, salt)
             /\ \A s \in net' : groups'[i].gid = s.gid => Alike(groups'[i], s)
  <2>1. CASE \E s \in net : groups'[i].gid = s.gid /\ Alike(groups'[i], s)
    BY <1>2, <2>1 DEF KnownTo, Alike
  <2>2. CASE \E k \in 1..Len(groups) :
               groups'[i].gid = groups[k].gid /\ Alike(groups'[i], groups[k])
    BY <1>2, <2>2 DEF KnownTo, Alike
  <2> QED BY <2>1, <2>2
<1>4. \A s \in net' : IsShard(s) /\ KnownTo(s, enc, salt)
  BY <1>2
<1>5. \A s, t \in net' : s.gid = t.gid => Alike(s, t)
  BY <1>2
<1> QED BY <1>1, <1>3, <1>4, <1>5 DEF Coherent, Known

Apart(gs) == \A i, j \in 1..Len(gs) : i # j => gs[i].gid # gs[j].gid

LEMMA OpenedIs ==
  ASSUME Filed(groups), NEW s, IsShard(s)
  PROVE  LET o == Opened(s)
         IN  /\ o \in Seq(Group) /\ Apart(o)
             /\ \E i \in 1..Len(o) : Same(o[i], s)
             /\ \A i \in 1..Len(o) :
                  /\ IsFiniteSet(o[i].got)
                  /\ \/ o[i].gid = s.gid /\ Alike(o[i], s)
                     \/ \E k \in 1..Len(groups) : o[i] = groups[k]
<1> DEFINE o == Opened(s)
           room == IF Len(groups) >= MaxGroups THEN Tail(groups) ELSE groups
           none == {}
           new == [gid |-> s.gid, ds |-> s.ds, ps |-> s.ps, got |-> none, pkts |-> s.pkts]
<1>1. /\ groups \in Seq(Group) /\ Apart(groups)
      /\ \A i \in 1..Len(groups) : IsFiniteSet(groups[i].got)
  BY DEF Filed, Apart
<1>2. CASE \E i \in 1..Len(groups) : Same(groups[i], s)
  <2>1. o = groups
    BY <1>2 DEF Opened
  <2> QED BY <1>1, <1>2, <2>1
<1>3. CASE ~\E i \in 1..Len(groups) : Same(groups[i], s)
  <2>1. o = Append(room, new)
    BY <1>3 DEF Opened
  <2>2. new.gid = s.gid /\ Alike(new, s) /\ new.got = {} /\ IsFiniteSet(new.got)
    BY FS_EmptySet DEF Alike
  <2>3. new \in Group
    <3>1. none \in SUBSET Nat
      OBVIOUS
    <3> HIDE DEF none
    <3> QED BY <3>1 DEF Group, IsShard
  <2> HIDE DEF new
  <2> DEFINE Q(d) == /\ room \in Seq(Group) /\ Len(room) = Len(groups) - d
                     /\ \A i \in 1..Len(room) : i + d \in 1..Len(groups) /\ room[i] = groups[i + d]
  <2>4. Q(0) \/ Q(1)
    <3>1. CASE Len(groups) >= MaxGroups
      <4>1. Len(groups) >= 1 /\ groups # <<>>
        BY <1>1, <3>1, FecAssumption
      <4>2. room = Tail(groups)
        BY <3>1
      <4>3. /\ Tail(groups) \in Seq(Group) /\ Len(Tail(groups)) = Len(groups) - 1
            /\ \A i \in 1..Len(Tail(groups)) : i + 1 \in 1..Len(groups) /\ Tail(groups)[i] = groups[i + 1]
        BY <1>1, <4>1
      <4> HIDE DEF room
      <4>4. Q(1)
        BY <4>2, <4>3
      <4> QED BY <4>4
    <3>2. CASE ~(Len(groups) >= MaxGroups)
      <4>1. room = groups
        BY <3>2
      <4> HIDE DEF room
      <4>2. Q(0)
        BY <1>1, <4>1
      <4> QED BY <4>2
    <3> QED BY <3>1, <3>2
  <2>5. PICK d \in 0..1 : Q(d)
    <3> HIDE DEF Q
    <3> QED BY <2>4
  <2> HIDE DEF room
  <2>6. /\ o \in Seq(Group) /\ Len(o) = Len(room) + 1 /\ o[Len(room) + 1] = new
        /\ \A i \in 1..Len(room) : o[i] = room[i]
    BY <2>1, <2>3, <2>5
  <2> HIDE DEF o
  <2>7. \A i \in 1..Len(o) : i \in 1..Len(room) \/ i = Len(room) + 1
    BY <2>5, <2>6
  <2>8. \A i \in 1..Len(room) : o[i] = groups[i + d] /\ i + d \in 1..Len(groups)
    BY <2>5, <2>6
  <2>9. \A i \in 1..Len(room) : o[i].gid # s.gid
    BY <1>3, <2>8 DEF Same
  <2>10. Apart(o)
    <3> SUFFICES ASSUME NEW i \in 1..Len(o), NEW j \in 1..Len(o), i # j
                 PROVE  o[i].gid # o[j].gid
      BY DEF Apart
    <3>1. CASE i \in 1..Len(room) /\ j \in 1..Len(room)
      <4>1. i + d # j + d
        BY <2>5, <3>1
      <4> QED BY <1>1, <2>8, <3>1, <4>1 DEF Apart
    <3>2. CASE i = Len(room) + 1 \/ j = Len(room) + 1
      BY <2>2, <2>6, <2>7, <2>9, <3>2
    <3> QED BY <2>7, <3>1, <3>2
  <2>11. Same(o[Len(room) + 1], s) /\ Len(room) + 1 \in 1..Len(o)
    BY <2>2, <2>5, <2>6 DEF Same
  <2>12. \A i \in 1..Len(o) :
            /\ IsFiniteSet(o[i].got)
            /\ \/ o[i].gid = s.gid /\ Alike(o[i], s)
               \/ \E k \in 1..Len(groups) : o[i] = groups[k]
    <3>1. \A i \in 1..Len(room) : IsFiniteSet(o[i].got) /\ \E k \in 1..Len(groups) : o[i] = groups[k]
      BY <1>1, <2>8
    <3> QED BY <2>2, <2>6, <2>7, <3>1
  <2> QED BY <2>6, <2>10, <2>11, <2>12 DEF o
<1> QED BY <1>2, <1>3

LEMMA WithoutIs ==
  ASSUME NEW gs \in Seq(Group), NEW i \in 1..Len(gs)
  PROVE  LET w == Without(gs, i)
         IN  /\ w \in Seq(Group) /\ Len(w) = Len(gs) - 1
             /\ \A k \in 1..Len(w) : /\ w[k] = gs[IF k < i THEN k ELSE k + 1]
                                     /\ (IF k < i THEN k ELSE k + 1) \in 1..Len(gs)
<1> DEFINE a == SubSeq(gs, 1, i - 1)
           b == SubSeq(gs, i + 1, Len(gs))
<1>1. /\ a \in Seq(Group) /\ Len(a) = i - 1 /\ \A k \in 1..(i - 1) : a[k] = gs[k]
  OBVIOUS
<1>2. /\ b \in Seq(Group) /\ Len(b) = Len(gs) - i
      /\ \A k \in 1..(Len(gs) - i) : b[k] = gs[i + k]
  OBVIOUS
<1>3. Without(gs, i) = a \o b
  BY DEF Without
<1> HIDE DEF a, b
<1>4. /\ a \o b \in Seq(Group) /\ Len(a \o b) = Len(gs) - 1
      /\ \A k \in 1..(Len(gs) - 1) : (a \o b)[k] = IF k < i THEN a[k] ELSE b[k - (i - 1)]
  <2>1. /\ a \o b \in Seq(Group) /\ Len(a \o b) = Len(a) + Len(b)
        /\ \A k \in 1..(Len(a) + Len(b)) : (a \o b)[k] = IF k <= Len(a) THEN a[k] ELSE b[k - Len(a)]
    BY <1>1, <1>2, ConcatProperties
  <2>2. Len(a) + Len(b) = Len(gs) - 1
    BY <1>1, <1>2
  <2> QED BY <1>1, <2>1, <2>2
<1>5. \A k \in 1..(Len(gs) - 1) :
        /\ (a \o b)[k] = gs[IF k < i THEN k ELSE k + 1]
        /\ (IF k < i THEN k ELSE k + 1) \in 1..Len(gs)
  <2> SUFFICES ASSUME NEW k \in 1..(Len(gs) - 1)
               PROVE  /\ (a \o b)[k] = gs[IF k < i THEN k ELSE k + 1]
                      /\ (IF k < i THEN k ELSE k + 1) \in 1..Len(gs)
    OBVIOUS
  <2>1. CASE k < i
    BY <1>1, <1>4, <2>1
  <2>2. CASE ~(k < i)
    <3>1. k - (i - 1) \in 1..(Len(gs) - i) /\ i + (k - (i - 1)) = k + 1
      BY <2>2
    <3> QED BY <1>2, <1>4, <2>2, <3>1
  <2> QED BY <2>1, <2>2
<1> QED BY <1>3, <1>4, <1>5

\* A sequence of groups that is another without its element i.
LEMMA WithoutFiled ==
  ASSUME NEW gs \in Seq(Group), Apart(gs), NEW i \in 1..Len(gs),
         \A k \in 1..Len(gs) : IsFiniteSet(gs[k].got),
         \A k \in 1..Len(gs) : k # i => Cardinality(gs[k].got) < gs[k].ds
  PROVE  /\ Filed(Without(gs, i))
         /\ \A k \in 1..Len(Without(gs, i)) : \E l \in 1..Len(gs) : Without(gs, i)[k] = gs[l]
<1> DEFINE w == Without(gs, i)
           at(k) == IF k < i THEN k ELSE k + 1
<1>1. /\ w \in Seq(Group) /\ Len(w) = Len(gs) - 1
      /\ \A k \in 1..Len(w) : w[k] = gs[at(k)] /\ at(k) \in 1..Len(gs)
  BY WithoutIs
<1>2. /\ \A k \in 1..Len(w) : at(k) # i
      /\ \A k, l \in 1..Len(w) : k # l => at(k) # at(l)
  BY <1>1
<1> HIDE DEF w, at
<1>3. Filed(w)
  BY <1>1, <1>2 DEF Filed, Apart
<1> QED BY <1>1, <1>3 DEF w

\* A group the decoder remembers is not completed again, one it has forgotten may be.
LEMMA RememberedNext ==
  ASSUME Remembered, NEW gid \in Gid, gid \notin Range(completed),
         completed' = NoteCompleted(gid), log' = Append(log, gid)
  PROVE  Remembered'
<1> DEFINE c == completed
           n == Len(log)
           m == Len(c)
<1>1. /\ log \in Seq(Gid) /\ c \in Seq(Gid) /\ n \in Nat /\ m \in Nat
      /\ m <= CompletedCap /\ m <= n /\ (m < CompletedCap => m = n)
      /\ \A k \in 1..m : c[k] = log[n - m + k]
      /\ \A i, j \in 1..n : i < j /\ log[i] = log[j] => j - i > CompletedCap
  BY DEF Remembered
<1>2. CompletedCap \in Nat /\ CompletedCap >= 1
  BY FecAssumption
<1>3. \A k \in 1..m : c[k] # gid
  BY <1>1 DEF Range
<1>4. /\ log' \in Seq(Gid) /\ Len(log') = n + 1 /\ log'[n + 1] = gid
      /\ \A k \in 1..n : log'[k] = log[k]
  BY <1>1
<1>5. ASSUME NEW i \in 1..n, log[i] = gid PROVE n + 1 - i > CompletedCap
  <2>1. i <= n - m
    <3> SUFFICES ASSUME i > n - m PROVE FALSE
      BY <1>1
    <3>1. i - (n - m) \in 1..m /\ n - m + (i - (n - m)) = i
      BY <1>1
    <3> QED BY <1>1, <1>3, <1>5, <3>1
  <2> QED BY <1>1, <1>2, <2>1
<1>6. ASSUME NEW i \in 1..Len(log'), NEW j \in 1..Len(log'), i < j, log'[i] = log'[j]
      PROVE  j - i > CompletedCap
  <2>1. i \in 1..n
    BY <1>1, <1>4, <1>6
  <2>2. CASE j \in 1..n
    BY <1>1, <1>4, <1>6, <2>1, <2>2
  <2>3. CASE j = n + 1
    BY <1>4, <1>5, <1>6, <2>1, <2>3
  <2> QED BY <1>1, <1>4, <2>2, <2>3
<1>7. /\ completed' \in Seq(Gid) /\ Len(completed') <= CompletedCap /\ Len(completed') <= Len(log')
      /\ Len(completed') < CompletedCap => Len(completed') = Len(log')
      /\ \A k \in 1..Len(completed') : completed'[k] = log'[Len(log') - Len(completed') + k]
  <2>1. CASE m >= CompletedCap
    <3> DEFINE t == Tail(c)
    <3>1. c # <<>> /\ m >= 1 /\ m = CompletedCap
      BY <1>1, <1>2, <2>1
    <3>2. t \in Seq(Gid) /\ Len(t) = m - 1 /\ \A k \in 1..(m - 1) : t[k] = c[k + 1]
      BY <1>1, <3>1
    <3>3. completed' = Append(t, gid)
      BY <2>1 DEF NoteCompleted
    <3> HIDE DEF t
    <3>4. /\ completed' \in Seq(Gid) /\ Len(completed') = m /\ completed'[m] = gid
          /\ \A k \in 1..(m - 1) : completed'[k] = t[k]
      BY <1>1, <3>1, <3>2, <3>3
    <3>5. ASSUME NEW k \in 1..m PROVE completed'[k] = log'[n + 1 - m + k]
      <4>1. CASE k = m
        <5>1. n + 1 - m + k = n + 1
          BY <1>1, <4>1
        <5> QED BY <1>4, <3>4, <4>1, <5>1
      <4>2. CASE k # m
        <5>1. k \in 1..(m - 1) /\ k + 1 \in 1..m /\ n - m + (k + 1) = n + 1 - m + k
              /\ n + 1 - m + k \in 1..n
          BY <1>1, <4>2
        <5> QED BY <1>1, <1>4, <3>2, <3>4, <5>1
      <4> QED BY <4>1, <4>2
    <3>6. \A k \in 1..Len(completed') : completed'[k] = log'[Len(log') - Len(completed') + k]
      <4>1. Len(log') = n + 1 /\ Len(completed') = m
        BY <1>4, <3>4
      <4>2. n \in Nat /\ m \in Nat
        BY <1>1
      <4> HIDE DEF n, m
      <4> QED BY ONLY <3>5, <4>1, <4>2
    <3>7. Len(log') = n + 1 /\ Len(completed') = m /\ completed' \in Seq(Gid)
      BY <1>4, <3>4
    <3>8. Len(completed') <= CompletedCap /\ Len(completed') <= Len(log') /\ ~(Len(completed') < CompletedCap)
      <4> HIDE DEF n, m
      <4> QED BY ONLY <1>1, <1>2, <3>1, <3>7
    <3> QED BY ONLY <3>6, <3>7, <3>8
  <2>2. CASE ~(m >= CompletedCap)
    <3>1. m = n /\ completed' = Append(c, gid)
      BY <1>1, <1>2, <2>2 DEF NoteCompleted
    <3>2. /\ completed' \in Seq(Gid) /\ Len(completed') = n + 1 /\ completed'[n + 1] = gid
          /\ \A k \in 1..n : completed'[k] = c[k]
      BY <1>1, <3>1
    <3>3. ASSUME NEW k \in 1..(n + 1) PROVE completed'[k] = log'[k]
      <4>1. CASE k = n + 1
        BY <1>4, <3>2, <4>1
      <4>2. CASE k \in 1..n
        <5>1. n - m + k = k
          BY <1>1, <3>1
        <5> QED BY <1>1, <1>4, <3>1, <3>2, <4>2, <5>1
      <4> QED BY <1>1, <4>1, <4>2
    <3>4. \A k \in 1..(n + 1) : n + 1 - (n + 1) + k = k
      BY <1>1
    <3> QED BY <1>1, <1>2, <1>4, <2>2, <3>1, <3>2, <3>3, <3>4
  <2> QED BY <2>1, <2>2
<1> QED BY <1>4, <1>6, <1>7 DEF Remembered

\* What push_shard makes of the decoder.
LEMMA PushShardOk ==
  ASSUME GroupInv, NEW s \in net, PushShard(s), UNCHANGED send, net' \subseteq net
  PROVE  GroupInv'
<1> DEFINE o == Opened(s)
           i == CHOOSE k \in 1..Len(o) : Same(o[k], s)
           more == o[i].got \cup {s.idx}
           g == [o[i] EXCEPT !.got = more]
           h == [o EXCEPT ![i] = g]
<1>1. Filed(groups) /\ Coherent /\ Remembered /\ IsShard(s)
  BY DEF GroupInv, Coherent
<1>2. /\ \/ UNCHANGED receive
         \/ groups' = Without(o, i) /\ UNCHANGED <<completed, log>>
         \/ /\ groups' = Without(o, i) /\ s.gid \notin Range(completed)
            /\ completed' = NoteCompleted(s.gid) /\ log' = Append(log, s.gid)
         \/ /\ groups' = h /\ UNCHANGED <<completed, log>>
            /\ Fits(o[i], s) /\ ~(Cardinality(g.got) >= g.ds)
  BY DEF PushShard
<1>3. /\ o \in Seq(Group) /\ Apart(o)
      /\ \E k \in 1..Len(o) : Same(o[k], s)
      /\ \A k \in 1..Len(o) :
           /\ IsFiniteSet(o[k].got)
           /\ \/ o[k].gid = s.gid /\ Alike(o[k], s)
              \/ \E l \in 1..Len(groups) : o[k] = groups[l]
  BY <1>1, OpenedIs
<1> HIDE DEF o
<1>4. i \in 1..Len(o) /\ o[i].gid = s.gid
  BY <1>3 DEF Same
<1> HIDE DEF i
<1>5. \A k \in 1..Len(o) : k # i => Cardinality(o[k].got) < o[k].ds
  <2> SUFFICES ASSUME NEW k \in 1..Len(o), k # i PROVE Cardinality(o[k].got) < o[k].ds
    OBVIOUS
  <2>1. o[k].gid # s.gid
    BY <1>3, <1>4 DEF Apart
  <2> QED BY <1>1, <1>3, <2>1 DEF Filed
<1>6. /\ Filed(Without(o, i))
      /\ \A k \in 1..Len(Without(o, i)) : \E l \in 1..Len(o) : Without(o, i)[k] = o[l]
  BY <1>3, <1>4, <1>5, WithoutFiled
<1>7. s.gid \in Gid /\ s.idx \in Nat
  BY <1>1 DEF IsShard
<1> DEFINE FromBefore(x) == \/ \E t \in net : x.gid = t.gid /\ Alike(x, t)
                            \/ \E k \in 1..Len(groups) : x.gid = groups[k].gid /\ Alike(x, groups[k])
<1>8. \A k \in 1..Len(o) : FromBefore(o[k])
  BY <1>3 DEF Alike
<1>9. CASE UNCHANGED receive
  <2>1. groups' = groups /\ Remembered'
    BY <1>1, <1>9 DEF receive, Remembered
  <2>2. \A k \in 1..Len(groups') : FromBefore(groups'[k])
    BY <2>1 DEF Alike
  <2>3. Coherent'
    BY <1>1, <2>2, StillCoherent
  <2> QED BY <1>1, <2>1, <2>3 DEF GroupInv
<1>10. CASE groups' = Without(o, i)
  <2>1. \A k \in 1..Len(groups') : FromBefore(groups'[k])
    <3> HIDE DEF FromBefore
    <3> QED BY <1>6, <1>8, <1>10
  <2>2. Coherent'
    BY <1>1, <2>1, StillCoherent
  <2>3. Filed(groups')
    BY <1>6, <1>10
  <2>4. \/ UNCHANGED <<completed, log>>
        \/ /\ s.gid \notin Range(completed)
           /\ completed' = NoteCompleted(s.gid) /\ log' = Append(log, s.gid)
    BY <1>2 DEF receive
  <2>5. Remembered'
    <3>1. CASE UNCHANGED <<completed, log>>
      BY <1>1, <3>1 DEF Remembered
    <3> QED BY <1>1, <1>7, <2>4, <3>1, RememberedNext
  <2> QED BY <2>2, <2>3, <2>5 DEF GroupInv
<1>11. CASE /\ groups' = h /\ UNCHANGED <<completed, log>>
            /\ Fits(o[i], s) /\ ~(Cardinality(g.got) >= g.ds)
  <2>1. o[i] \in Group /\ IsFiniteSet(o[i].got)
    BY <1>3, <1>4
  <2>2. IsFiniteSet(more) /\ more \in SUBSET Nat /\ Cardinality(more) \in Nat
    <3>1. o[i].got \in SUBSET Nat
      BY <2>1 DEF Group
    <3> QED BY <1>7, <2>1, <3>1, FS_AddElement, FS_CardinalityType
  <2> HIDE DEF more
  <2>3. g \in Group /\ g.got = more /\ g.gid = o[i].gid /\ Alike(g, o[i]) /\ g.ds \in Nat
    BY <2>1, <2>2 DEF Group, Alike
  <2> HIDE DEF g
  <2>4. Cardinality(g.got) < g.ds
    BY <1>11, <2>2, <2>3
  <2>5. /\ h \in Seq(Group) /\ Len(h) = Len(o) /\ h[i] = g
        /\ \A k \in 1..Len(o) : k # i => h[k] = o[k]
    BY <1>3, <1>4, <2>3
  <2> HIDE DEF h
  <2>6. \A k \in 1..Len(h) : h[k].gid = o[k].gid /\ Alike(h[k], o[k])
    BY <2>3, <2>5 DEF Alike
  <2>7. Filed(h)
    BY <1>3, <1>5, <2>2, <2>3, <2>4, <2>5, <2>6 DEF Filed, Apart
  <2>8. \A k \in 1..Len(groups') : FromBefore(groups'[k])
    <3> SUFFICES ASSUME NEW k \in 1..Len(h) PROVE FromBefore(h[k])
      BY <1>11
    <3>1. FromBefore(o[k])
      BY <1>8, <2>5
    <3> QED BY <2>6, <3>1 DEF Alike
  <2>9. Coherent'
    BY <1>1, <2>8, StillCoherent
  <2>10. Remembered'
    BY <1>1, <1>11 DEF Remembered
  <2> QED BY <1>11, <2>7, <2>9, <2>10 DEF GroupInv
<1> QED BY <1>2, <1>9, <1>10, <1>11

LEMMA ReceiveOk ==
  ASSUME IInv, NEW s \in net, NEW again, Receive(s, again)
  PROVE  IInv'
<1>1. net' \subseteq net /\ PushShard(s) /\ UNCHANGED send
  BY DEF Receive
<1>2. GroupInv'
  BY <1>1, PushShardOk DEF IInv
<1> QED BY <1>1, <1>2, SameSend DEF IInv

LEMMA LoseOk ==
  ASSUME IInv, NEW s \in net, Lose(s)
  PROVE  IInv'
<1>1. net' \subseteq net /\ UNCHANGED <<send, receive>> /\ groups' = groups
  BY DEF Lose, receive
<1>2. \A i \in 1..Len(groups') :
        \E k \in 1..Len(groups) : groups'[i].gid = groups[k].gid /\ Alike(groups'[i], groups[k])
  BY <1>1 DEF Alike
<1>3. Coherent'
  BY <1>1, <1>2, StillCoherent DEF IInv, GroupInv
<1>4. Filed(groups)' /\ Remembered'
  BY <1>1 DEF IInv, GroupInv, receive, Filed, Remembered
<1> QED BY <1>1, <1>3, <1>4, SameSend DEF IInv, GroupInv

LEMMA EvictExpiredOk ==
  ASSUME IInv, EvictExpired
  PROVE  IInv'
<1>1. PICK n \in 1..Len(groups) : groups' = SubSeq(groups, n + 1, Len(groups))
  BY DEF EvictExpired
<1>2. UNCHANGED <<send, net, completed, log>>
  BY DEF EvictExpired
<1>3. TypeInv /\ EmitInv /\ Filed(groups) /\ Coherent /\ Remembered /\ groups \in Seq(Group)
  BY DEF IInv, GroupInv, Filed
<1>4. /\ groups' \in Seq(Group) /\ Len(groups') = Len(groups) - n
      /\ \A i \in 1..Len(groups') : groups'[i] = groups[n + i] /\ n + i \in 1..Len(groups)
  BY <1>1, <1>3
<1>5. \A i, j \in 1..Len(groups') : i # j => n + i # n + j
  BY <1>3, <1>4
<1>6. Filed(groups')
  BY <1>3, <1>4, <1>5 DEF Filed
<1>7. \A i \in 1..Len(groups') :
        \E k \in 1..Len(groups) : groups'[i].gid = groups[k].gid /\ Alike(groups'[i], groups[k])
  BY <1>4 DEF Alike
<1>8. Coherent'
  BY <1>2, <1>3, <1>7, StillCoherent
<1>9. Remembered'
  BY <1>2, <1>3 DEF Remembered
<1> QED BY <1>2, <1>3, <1>6, <1>8, <1>9, SameSend DEF IInv, GroupInv

\* A decoder that remembers nothing and files nothing.
LEMMA FreshDecoder ==
  ASSUME NEW gs, NEW c, NEW l, gs = <<>>, c = <<>>, l = <<>>
  PROVE  /\ Filed(gs) /\ Len(gs) = 0 /\ l \in Seq(Gid) /\ c \in Seq(Gid)
         /\ Len(c) = 0 /\ Len(l) = 0
BY DEF Filed

LEMMA DropDecoderOk ==
  ASSUME IInv, DropDecoder
  PROVE  IInv'
<1>1. groups' = <<>> /\ completed' = <<>> /\ log' = <<>> /\ UNCHANGED <<send, net>>
  BY DEF DropDecoder
<1>2. /\ Filed(groups') /\ Len(groups') = 0 /\ log' \in Seq(Gid) /\ completed' \in Seq(Gid)
      /\ Len(completed') = 0 /\ Len(log') = 0
  BY <1>1, FreshDecoder
<1>3. Remembered'
  BY <1>2, FecAssumption DEF Remembered
<1>4. Coherent'
  BY <1>1, <1>2, StillCoherent DEF IInv, GroupInv
<1> QED BY <1>1, <1>2, <1>3, <1>4, SameSend DEF IInv, GroupInv

----------------------------------------------------------------------------
LEMMA Initially ==
  ASSUME Init
  PROVE  IInv
<1>1. /\ enc = Absent /\ salt = 1 /\ net = {} /\ accepted = 0 /\ emitted = <<>> /\ lost = {}
      /\ groups = <<>> /\ completed = <<>> /\ log = <<>>
      /\ policy = [loss |-> 0, last |-> Unset, recent |-> FALSE, held |-> 0, forced |-> Unset]
  BY DEF Init
<1>2. policy \in Policy
  <2> DEFINE u == Unset
             no == FALSE
  <2>1. u \in Ratio \cup {Unset} /\ no \in BOOLEAN
    OBVIOUS
  <2>2. policy = [loss |-> 0, last |-> u, recent |-> no, held |-> 0, forced |-> u]
    BY <1>1
  <2> HIDE DEF u, no
  <2> QED BY <2>1, <2>2 DEF Policy
<1>3. TypeInv
  BY <1>1, <1>2 DEF TypeInv
<1>4. Pending = {}
  BY <1>1, AbsentIs DEF Pending
<1>5. EmitInv
  BY <1>1, <1>4 DEF EmitInv, EmittedOnce
<1>6. /\ Filed(groups) /\ Len(groups) = 0 /\ log \in Seq(Gid) /\ completed \in Seq(Gid)
      /\ Len(completed) = 0 /\ Len(log) = 0
  BY <1>1, FreshDecoder
<1>7. Remembered
  BY <1>6, FecAssumption DEF Remembered
<1>8. Coherent
  BY <1>1, <1>6 DEF Coherent
<1> QED BY <1>3, <1>5, <1>6, <1>7, <1>8 DEF IInv, GroupInv

LEMMA Stuttering ==
  ASSUME IInv, UNCHANGED vars
  PROVE  IInv'
<1>1. UNCHANGED <<policy, enc, salt, accepted, emitted, lost, net, receive>>
  BY DEF vars, send
<1>2. policy' \in Policy
  BY <1>1 DEF IInv, TypeInv
<1> QED BY <1>1, <1>2, PolicyOnly

\* Every step of the sender and of the decoder keeps the invariant.
LEMMA Inductive ==
  ASSUME IInv, [Next]_vars
  PROVE  IInv'
<1>1. CASE Pushes
  BY <1>1, BypassOk, FecSendOk DEF Pushes
<1>2. CASE Tick
  BY <1>2, FlushDueOk DEF Tick
<1>3. CASE \E f \in BOOLEAN : FlushAll(f) \/ \E r \in Forced \union {Unset} : SetFecConfig(r, f)
  BY <1>3, FlushAllOk, SetFecConfigOk
<1>4. CASE \E s \in net : Lose(s) \/ \E again \in BOOLEAN : Receive(s, again)
  BY <1>4, LoseOk, ReceiveOk
<1> QED BY <1>1, <1>2, <1>3, <1>4, RemovePeerOk, TimePassesOk, HandlePongOk, EvictExpiredOk,
           DropDecoderOk, Stuttering DEF Next

\* fec_send, the encoder and its flushes: every packet is still gathered, was dropped with its
\* peer, or has left exactly once, for any ladder of ratios and any limits.
THEOREM EmittedOnceHolds == Spec => []EmittedOnce
<1>1. Init => IInv
  BY Initially
<1>2. IInv /\ [Next]_vars => IInv'
  BY Inductive
<1>3. IInv => EmittedOnce
  BY DEF IInv, EmitInv
<1> QED BY <1>1, <1>2, <1>3, PTL DEF Spec

\* FecDecoder::push_shard: the shards of a group never contradict each other, an open group is
\* incomplete, and a group is delivered again only after as many others as the decoder
\* remembers, for any capacities.
THEOREM GroupsCoherentHolds == Spec => []GroupsCoherent
<1>1. Init => IInv
  BY Initially
<1>2. IInv /\ [Next]_vars => IInv'
  BY Inductive
<1>3. IInv => GroupsCoherent
  BY DEF IInv, GroupInv, Filed, Coherent, Remembered, GroupsCoherent, Same, Fits, Alike
<1> QED BY <1>1, <1>2, <1>3, PTL DEF Spec

\* The loss classifier of fec_send: while the queuing delay is congestive no ratio with more
\* parity than the last is applied, for any ladder and thresholds.
THEOREM NoParityIntoCongestionHolds == Spec => NoParityIntoCongestion
<1>1. Init => IInv
  BY Initially
<1>2. IInv /\ [Next]_vars => IInv'
  BY Inductive
<1>3. IInv => [\A f, i, room \in BOOLEAN :
                 accepted' > accepted /\ policy.forced = Unset /\ FecSend(TRUE, f, i, room)
                   => ~WouldIncreaseParity(policy.last, policy'.last)]_vars
  <2> SUFFICES ASSUME IInv, NEW f \in BOOLEAN, NEW i \in BOOLEAN, NEW room \in BOOLEAN,
                      policy.forced = Unset, FecSend(TRUE, f, i, room)
               PROVE  ~WouldIncreaseParity(policy.last, policy'.last)
    OBVIOUS
  <2>1. policy \in Policy
    BY DEF IInv, TypeInv
  <2> DEFINE c == TRUE
             r == Applied(Proposed(c))
             recent == policy.recent \/ c
             held == IF policy.forced # Unset \/ r # policy.last THEN 2 ELSE policy.held
  <2>2. policy' = [policy EXCEPT !.recent = recent, !.last = r, !.held = held]
    BY DEF FecSend
  <2>3. ~WouldIncreaseParity(policy.last, r)
    BY <2>1, NotMoreThanLast
  <2> HIDE DEF r, recent, held, c
  <2>4. policy'.last = r
    BY <2>1, <2>2 DEF Policy
  <2> QED BY <2>3, <2>4
<1> QED BY <1>1, <1>2, <1>3, PTL DEF Spec, NoParityIntoCongestion
=============================================================================
