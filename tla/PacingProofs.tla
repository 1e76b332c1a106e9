---------------------------- MODULE PacingProofs ----------------------------
(***************************************************************************)
(* Proofs about Pacing, for any number of peers, packets, limits and       *)
(* settings: the counters agree with the queues, control packets are not   *)
(* starved, and the engine implements Shaper.                              *)
(***************************************************************************)
EXTENDS PacingQueueProofs

-----------------------------------------------------------------------------
(* Removing, resetting and shedding.                                       *)

\* remove_peer gives up what the peer had queued.
LEMMA RemovePeerFine ==
    ASSUME IInv, NEW d \in Dests, RemovePeer(d)
    PROVE  Fine
<1>1. hand = <<>> /\ hand' = <<>> /\ UNCHANGED <<control_q, retransmit_q, accepted, sent>>
  BY HandEmpty DEF RemovePeer, lanes, history
<1>2. CASE d \notin Range(order)
  BY <1>1, <1>2, StillFine DEF RemovePeer, peers
<1>3. CASE d \in Range(order)
  <2> DEFINE i == IndexOf(d) + 1
             q == queues[d]
             P == PeersOf(order, queues)
             B == BusyOf(order, queues)
  <2>1. QueuesOk /\ HandOk /\ PeersOk(order, queues)
    BY DEF IInv, QueuesOk
  <2>2. i \in 1..Len(order) /\ order[i] = d
    <3> DEFINE k == CHOOSE j \in 1..Len(order) : order[j] = d
    <3>1. \E j \in 1..Len(order) : order[j] = d
      BY <1>3, <2>1, InSet DEF PeersOk
    <3>2. k \in 1..Len(order) /\ order[k] = d
      BY <3>1
    <3>3. IndexOf(d) = k - 1
      BY DEF IndexOf
    <3> HIDE DEF k
    <3>4. i = k
      BY <3>2, <3>3
    <3> QED
      BY <3>2, <3>4
  <2>3. /\ order' = Without(order, i) /\ queues' = [x \in Range(order') |-> queues[x]]
        /\ nonEmpty' = (IF Depth(q) > 0 THEN Lower(nonEmpty) ELSE nonEmpty)
        /\ total' = MaxOf(total - Depth(q), 0)
    BY <1>3 DEF RemovePeer
  <2> HIDE DEF i
  <2>4. /\ order' \in Seq(Dests) /\ Injective(order') /\ Range(order') = Range(order) \ {d}
    BY <2>1, <2>2, <2>3, TakenOut DEF PeersOk
  <2>5. DOMAIN queues' = Range(order') /\ \A x \in Range(order') : queues'[x] = queues[x]
    BY <2>3
  <2>6. PeersOk(order', queues')
    BY <2>1, <2>4, <2>5 DEF PeersOk
  <2>7. QueuesOk'
    BY <1>1, <2>1, <2>6 DEF QueuesOk
  <2>8. ASSUME NEW x \in Range(order) \ {d} PROVE Queued(queues[x]) \intersect Queued(q) = {}
    <3>1. x \in Dests /\ LanesOk(x, queues[x]) /\ LanesOk(d, q)
      BY <1>3, <2>1, InSet DEF PeersOk
    <3> QED
      BY <3>1, FlowsApart DEF LanesOk
  <2>9. PeersOf(order', queues') = P \ Queued(q)
    BY <2>4, <2>5, <2>8 DEF PeersOf
  <2>10. /\ Entries = (Range(control_q) \union Range(retransmit_q)) \union (HandOf(hand) \union P)
         /\ HandOf(hand) = {} /\ HandOf(hand') = {} /\ IsFiniteSet(Entries)
         /\ P \intersect (Range(control_q) \union Range(retransmit_q)) = {}
    BY <1>1, <2>1, FiniteEntries, PeersApart, HandIs
  <2>11. Entries' = (Range(control_q) \union Range(retransmit_q)) \union (HandOf(hand') \union PeersOf(order', queues'))
    BY <1>1 DEF Entries, HandOf, PeersOf
  <2>12. Queued(q) \subseteq P
    BY <1>3 DEF PeersOf
  <2> HIDE DEF P
  <2>13. Entries' = (Entries \ Queued(q)) \union {} /\ Queued(q) \subseteq Entries
    BY <2>9, <2>10, <2>11, <2>12
  <2>14. LanesOk(d, q)
    BY <1>3, <2>1 DEF PeersOk
  <2>15. /\ Cardinality(Entries) \in Nat /\ Depth(q) \in Nat /\ Depth(q) <= Cardinality(Entries)
         /\ Cardinality(Entries') = Cardinality(Entries) - Depth(q) + 0 /\ Cardinality(Entries') \in Nat
    <3>1. Exchange(Entries, Queued(q), {}, Entries')
      BY <2>13 DEF Exchange
    <3>2. IsFiniteSet({}) /\ Cardinality({}) = 0
      BY FS_EmptySet
    <3>3. Cardinality(Queued(q)) = Depth(q)
      BY <2>14, QueuedCard
    <3> QED
      BY <2>10, <3>1, <3>2, <3>3, Exchanged
  <2>16. total' = Cardinality(Entries') - 0
    <3>1. total = Cardinality(Entries) - 0
      BY <1>1, HandIs DEF IInv, Counted
    <3> QED
      BY <2>3, <2>15, <3>1 DEF MaxOf
  <2>17. BusyOf(order', queues') = B \ {d} /\ (d \in B <=> Depth(q) # 0)
    BY <1>3, <2>4, <2>5 DEF BusyOf, IsEmpty
  <2>18. IsFiniteSet(B) /\ Cardinality(B) \in Nat /\ nonEmpty = Cardinality(B)
    BY <2>1, FinitePeers DEF IInv, Counted
  <2> HIDE DEF B
  <2>19. nonEmpty' = Cardinality(BusyOf(order', queues'))
    <3>1. Cardinality(B \ {d}) = IF d \in B THEN Cardinality(B) - 1 ELSE Cardinality(B)
      BY <2>18, FS_RemoveElement
    <3>2. d \in B => Cardinality(B) # 0
      BY <2>18, FS_EmptySet
    <3>3. Depth(q) > 0 <=> d \in B
      BY <2>15, <2>17
    <3>4. nonEmpty' = IF d \in B THEN Lower(nonEmpty) ELSE nonEmpty
      BY <2>3, <3>3
    <3>5. CASE d \in B
      <4>1. Lower(nonEmpty) = Cardinality(B) - 1
        BY <2>18, <3>2, <3>5 DEF Lower
      <4> QED
        BY <2>17, <3>1, <3>4, <3>5, <4>1
    <3>6. CASE d \notin B
      BY <2>17, <2>18, <3>1, <3>4, <3>6
    <3> QED
      BY <3>5, <3>6
  <2>20. Counted'
    BY <1>1, <2>16, <2>19, HandIs DEF Counted
  <2>21. Kept
    BY <1>1, <2>13 DEF Kept
  <2> QED
    BY <1>1, <2>7, <2>20, <2>21 DEF Fine, HandOk
<1> QED
  BY <1>2, <1>3

\* reset_session_state gives up everything.
LEMMA ResetFine ==
    ASSUME IInv, ResetSession
    PROVE  Fine
<1>1. hand = <<>> /\ hand' = <<>> /\ UNCHANGED <<accepted, sent>>
  BY HandEmpty DEF ResetSession
<1>2. control_q' = <<>> /\ retransmit_q' = <<>> /\ order' = <<>> /\ queues' = <<>> /\ nonEmpty' = 0 /\ total' = 0
  BY DEF ResetSession
<1>3. Range(<<>>) = {} /\ <<>> \in Seq(Pkt) /\ <<>> \in Seq(Dests) /\ Len(<<>>) = 0 /\ DOMAIN <<>> = {}
  BY DEF Range
<1>4. QueuesOk'
  BY <1>2, <1>3, PacingAssumption DEF QueuesOk, PeersOk, Injective, ControlRising
<1>5. Entries' = {}
  BY <1>1, <1>2, <1>3 DEF Entries
<1>6. BusyOf(order', queues') = {}
  BY <1>2, <1>3 DEF BusyOf
<1>7. Counted'
  BY <1>1, <1>2, <1>3, <1>5, <1>6, FS_EmptySet DEF Counted
<1> QED
  BY <1>1, <1>4, <1>5, <1>7 DEF Fine, Kept, HandOk

\* The cursor is at a peer when there is one.
LEMMA CursorOk ==
    ASSUME IInv, order # <<>>
    PROVE  AtCursor \in Range(order)
<1>1. order \in Seq(Dests) /\ cursor \in Nat
  BY DEF IInv, QueuesOk, PeersOk, TickOk
<1> DEFINE n == Len(order)
<1>2. n \in Nat \ {0}
  BY <1>1
<1>3. (cursor % n) + 1 \in 1..n
  <2> HIDE DEF n
  <2> QED
    BY <1>1, <1>2
<1>4. Range(order) = {order[i] : i \in 1..Len(order)}
  BY <1>1, InSet
<1> QED
  BY <1>3, <1>4 DEF AtCursor

\* A round of shedding gives up at most the oldest bulk packet of a peer.
LEMMA ShedFine ==
    ASSUME IInv, NEW old \in BOOLEAN, ShedScan(old)
    PROVE  Fine
<1> DEFINE d == AtCursor
           q == queues[d]
           drop == old /\ q.bulk # <<>>
           nq == DropOldest(q)
<1>1. hand = <<>> /\ hand' = <<>> /\ UNCHANGED <<control_q, retransmit_q, order, accepted, sent>>
  BY HandEmpty DEF ShedScan, lanes, history
<1>2. d \in Range(order)
  BY CursorOk DEF ShedScan, IInv, TickOk
<1>3. /\ queues' = (IF drop THEN [queues EXCEPT ![d].bulk = Tail(@)] ELSE queues)
      /\ nonEmpty' = (IF drop /\ IsEmpty(queues'[d]) THEN Lower(nonEmpty) ELSE nonEmpty)
      /\ total' = (IF drop THEN Lower(total) ELSE total)
  BY DEF ShedScan
<1>4. CASE ~drop
  BY <1>1, <1>3, <1>4, StillFine
<1>5. CASE drop
  <2>1. PeersOk(order, queues) /\ d \in Dests /\ LanesOk(d, q) /\ DOMAIN queues = Range(order)
    BY <1>2, InSet DEF IInv, QueuesOk, PeersOk
  <2>2. ~IsEmpty(q)
    <3>1. q.bulk \in Seq(Pkt) /\ q.small \in Seq(Pkt) /\ q.bulk # <<>>
      BY <1>5, <2>1 DEF LanesOk
    <3>2. Len(q.bulk) # 0 /\ Len(q.bulk) \in Nat /\ Len(q.small) \in Nat
      BY <3>1, InSet
    <3> DEFINE m == Len(q.small)
               n == Len(q.bulk)
    <3>3. m \in Nat /\ n \in Nat /\ n # 0 /\ Depth(q) = m + n
      BY <3>2 DEF Depth
    <3> HIDE DEF m, n
    <3>4. Depth(q) # 0
      BY <3>3
    <3> QED
      BY <3>4 DEF IsEmpty
  <2>3. LanesOk(d, nq) /\ Queued(nq) \subseteq Queued(q) /\ Depth(nq) = Depth(q) - 1
    BY <2>1, <2>2, DroppedOk
  <2>4. order' = Entered(d) /\ QueueOf(d) = q
    BY <1>1, <1>2 DEF Entered, QueueOf
  <2>5. queues' = Keep(d, nq)
    <3>1. nq = [q EXCEPT !.bulk = Tail(@)]
      BY <1>5 DEF DropOldest
    <3>2. queues' = [x \in Range(order) |-> IF x = d THEN nq ELSE queues[x]]
      BY <1>2, <1>3, <1>5, <2>1, <3>1
    <3>3. Range(order) \union {d} = Range(order)
      BY <1>2
    <3> QED
      BY <3>2, <3>3 DEF Keep
  <2>6. UNCHANGED lanes
    BY <1>1 DEF lanes
  <2> HIDE DEF d, q, nq
  <2>7. /\ QueuesOk' /\ HandOk' /\ queues'[d] = nq
        /\ Entries' = (Entries \ Queued(q)) \union Queued(nq)
        /\ total \in Nat /\ Depth(q) \in Nat /\ Depth(nq) \in Nat /\ Depth(q) <= total
        /\ Cardinality(Entries') = total - Depth(q) + Depth(nq)
        /\ nonEmpty \in Nat /\ (~IsEmpty(q) => nonEmpty > 0)
        /\ Cardinality(BusyOf(order', queues')) =
              (nonEmpty - (IF IsEmpty(q) THEN 0 ELSE 1)) + (IF IsEmpty(nq) THEN 0 ELSE 1)
        /\ total' = Cardinality(Entries') /\ nonEmpty' = Cardinality(BusyOf(order', queues')) => Counted'
    BY <1>1, <2>1, <2>3, <2>4, <2>5, <2>6, PeerCount
  <2>8. Queued(q) \subseteq Entries
    BY <1>2 DEF Entries, q
  <2>9. total' = Cardinality(Entries')
    BY <1>3, <1>5, <2>3, <2>7 DEF Lower
  <2>10. nonEmpty' = Cardinality(BusyOf(order', queues'))
    <3> HIDE DEF drop
    <3>3. Lower(nonEmpty) = nonEmpty - 1
      BY <2>2, <2>7 DEF Lower
    <3>4. nonEmpty' = IF IsEmpty(queues'[d]) THEN Lower(nonEmpty) ELSE nonEmpty
      BY <1>3, <1>5
    <3>1. nonEmpty' = IF IsEmpty(nq) THEN nonEmpty - 1 ELSE nonEmpty
      BY <2>7, <3>3, <3>4
    <3>2. Cardinality(BusyOf(order', queues')) = (nonEmpty - 1) + (IF IsEmpty(nq) THEN 0 ELSE 1)
      BY <2>2, <2>7
    <3> QED
      BY <2>7, <3>1, <3>2
  <2>11. Kept
    BY <1>1, <2>3, <2>7, <2>8 DEF Kept
  <2> QED
    BY <2>7, <2>9, <2>10, <2>11 DEF Fine
<1> QED
  BY <1>4, <1>5

-----------------------------------------------------------------------------
(* Taking a packet to the hand, sending it or putting it back.             *)

\* A pop only moves a packet to the hand.
LEMMA PopCount ==
    ASSUME IInv, hand = <<>>, NEW e, NEW lane, e \in Entries, hand' = <<[pkt |-> e, lane |-> lane]>>,
           Entries' = Entries, total' = Lower(total), nonEmpty' = Cardinality(BusyOf(order', queues'))
    PROVE  Counted'
<1> DEFINE k == Cardinality(Entries)
<1>1. total = k - 0 /\ k \in Nat /\ k # 0
  <2>1. IsFiniteSet(Entries) /\ k \in Nat
    BY FiniteEntries DEF IInv
  <2>2. k # 0
    BY <2>1, FS_EmptySet
  <2> QED
    BY <2>1, <2>2, HandIs DEF IInv, Counted
<1> HIDE DEF k
<1>2. total' = k - 1
  BY <1>1 DEF Lower
<1>3. Len(hand') = 1
  BY HandIs
<1> QED
  BY <1>2, <1>3 DEF Counted, k

\* The first control packet goes to the hand.
LEMMA PopControlFine ==
    ASSUME IInv, hand = <<>>, control_q # <<>>,
           hand' = <<[pkt |-> Head(control_q), lane |-> "control"]>>,
           control_q' = Tail(control_q), total' = Lower(total), passed' = 0,
           tick'.pc \in {"ctrl", "burst"},
           UNCHANGED <<retransmit_q, order, queues, nonEmpty, accepted, sent>>
    PROVE  Fine
<1> DEFINE e == Head(control_q)
           P == PeersOf(order, queues)
<1>1. QueuesOk /\ HandOk
  BY DEF IInv
<1>2. /\ control_q \in Seq(Pkt) /\ Injective(control_q) /\ ControlRising(control_q)
      /\ Range(control_q) \intersect Range(retransmit_q) = {}
      /\ \A x \in Range(control_q) : x.flow \in {Control, Retransmit}
  BY <1>1 DEF QueuesOk
<1>3. /\ control_q' \in Seq(Pkt) /\ Injective(control_q')
      /\ Range(control_q') = Range(control_q) \ {e} /\ e \in Range(control_q)
  BY <1>2, Shortened
<1>4. ControlRising(control_q')
      /\ (e.flow = Control => \A x \in Range(control_q') : x.flow = Control => e.id < x.id)
  BY <1>2, RisingShortened
<1>5. QueuesOk'
  BY <1>1, <1>2, <1>3, <1>4 DEF QueuesOk
<1>6. /\ Entries = (Range(control_q) \union Range(retransmit_q)) \union (HandOf(hand) \union P)
      /\ HandOf(hand) = {} /\ HandOf(hand') = {e} /\ Entries \subseteq Pkt
      /\ P \intersect (Range(control_q) \union Range(retransmit_q)) = {}
  BY <1>1, FiniteEntries, PeersApart, HandIs
<1>7. Entries' = (Range(control_q') \union Range(retransmit_q)) \union (HandOf(hand') \union P)
  BY DEF Entries, HandOf, PeersOf
<1>8. \A d \in Range(order) : Queued(queues[d]) \subseteq P
  BY DEF PeersOf
<1> HIDE DEF P, e
<1>9. Entries' = Entries /\ e \in Entries /\ e \in Pkt
  BY <1>3, <1>6, <1>7
<1>10. Counted'
  <2>1. nonEmpty' = Cardinality(BusyOf(order', queues'))
    BY DEF IInv, Counted
  <2> QED
    BY <1>9, <2>1, PopCount DEF e
<1>11. HandOk'
  <2>1. e \notin Range(control_q') /\ e \notin Range(retransmit_q)
    BY <1>2, <1>3
  <2>2. \A d \in Range(order) : e \notin Queued(queues[d])
    BY <1>3, <1>6, <1>8
  <2>3. "control" \notin Dests /\ "control" # "retransmit"
    BY PacingAssumption
  <2>4. e.flow \in {Control, Retransmit} /\ hand' = <<[pkt |-> e, lane |-> "control"]>>
    BY <1>2, <1>3 DEF e
  <2> QED
    BY <1>4, <1>9, <2>1, <2>2, <2>3, <2>4 DEF HandOk, InHand
<1> QED
  BY <1>5, <1>9, <1>10, <1>11 DEF Fine, Kept

\* The first retransmission goes to the hand.
LEMMA PopRetransmitFine ==
    ASSUME IInv, hand = <<>>, retransmit_q # <<>>, NEW lane \in {"control", "retransmit"},
           hand' = <<[pkt |-> Head(retransmit_q), lane |-> lane]>>,
           retransmit_q' = Tail(retransmit_q), total' = Lower(total),
           tick'.pc \in {"rtx", "burst"},
           UNCHANGED <<control_q, order, queues, nonEmpty, accepted, sent>>
    PROVE  Fine
<1> DEFINE e == Head(retransmit_q)
           P == PeersOf(order, queues)
<1>1. QueuesOk /\ HandOk
  BY DEF IInv
<1>2. /\ retransmit_q \in Seq(Pkt) /\ Injective(retransmit_q) /\ Len(retransmit_q) <= RetransmitCap
      /\ Range(control_q) \intersect Range(retransmit_q) = {}
      /\ \A x \in Range(retransmit_q) : x.flow = Retransmit
  BY <1>1 DEF QueuesOk
<1>3. /\ retransmit_q' \in Seq(Pkt) /\ Injective(retransmit_q') /\ Len(retransmit_q') = Len(retransmit_q) - 1
      /\ Range(retransmit_q') = Range(retransmit_q) \ {e} /\ e \in Range(retransmit_q)
  BY <1>2, Shortened
<1>4. Len(retransmit_q') < RetransmitCap
  <2> DEFINE m == Len(retransmit_q)
  <2>1. m \in Nat /\ m <= RetransmitCap /\ Len(retransmit_q') = m - 1
    BY <1>2, <1>3
  <2> HIDE DEF m
  <2> QED
    BY <2>1, PacingAssumption
<1>5. QueuesOk'
  BY <1>1, <1>2, <1>3, <1>4, PacingAssumption DEF QueuesOk
<1>6. /\ Entries = (Range(control_q) \union Range(retransmit_q)) \union (HandOf(hand) \union P)
      /\ HandOf(hand) = {} /\ HandOf(hand') = {e} /\ Entries \subseteq Pkt
      /\ P \intersect (Range(control_q) \union Range(retransmit_q)) = {}
  BY <1>1, FiniteEntries, PeersApart, HandIs
<1>7. Entries' = (Range(control_q) \union Range(retransmit_q')) \union (HandOf(hand') \union P)
  BY DEF Entries, HandOf, PeersOf
<1>8. \A d \in Range(order) : Queued(queues[d]) \subseteq P
  BY DEF PeersOf
<1> HIDE DEF P, e
<1>9. Entries' = Entries /\ e \in Entries /\ e \in Pkt
  BY <1>3, <1>6, <1>7
<1>10. Counted'
  <2>1. nonEmpty' = Cardinality(BusyOf(order', queues'))
    BY DEF IInv, Counted
  <2> QED
    BY <1>9, <2>1, PopCount DEF e
<1>11. HandOk'
  <2>1. e \notin Range(control_q) /\ e \notin Range(retransmit_q')
    BY <1>2, <1>3
  <2>2. \A d \in Range(order) : e \notin Queued(queues[d])
    BY <1>3, <1>6, <1>8
  <2>3. lane \notin Dests
    BY PacingAssumption
  <2>4. e.flow = Retransmit /\ e.flow # Control /\ hand' = <<[pkt |-> e, lane |-> lane]>>
    BY <1>2, <1>3, FlowsApart DEF e
  <2> QED
    BY <1>4, <1>9, <2>1, <2>2, <2>3, <2>4 DEF HandOk, InHand
<1> QED
  BY <1>5, <1>9, <1>10, <1>11 DEF Fine, Kept

\* What a peer has at the front goes to the hand.
LEMMA PopDataFine ==
    ASSUME IInv, hand = <<>>, NEW d \in Range(order), NEW q, NEW nq, NEW e \in Pkt,
           q = queues[d], ~IsEmpty(q),
           LanesOk(d, nq), Depth(nq) = Depth(q) - 1,
           e \in Queued(q), e \notin Queued(nq), Queued(nq) = Queued(q) \ {e},
           e.flow = FlowOf(d, e.len),
           ~IsSmallPacket(e.len) => \A x \in Range(nq.bulk) : e.id < x.id,
           queues' = [queues EXCEPT ![d] = nq],
           hand' = <<[pkt |-> e, lane |-> d]>>, total' = Lower(total),
           nonEmpty' = (IF IsEmpty(queues'[d]) THEN Lower(nonEmpty) ELSE nonEmpty),
           tick'.pc = "burst",
           UNCHANGED <<control_q, retransmit_q, order, config, accepted, sent>>
    PROVE  Fine
<1> DEFINE P == PeersOf(order, queues)
           B == BusyOf(order, queues)
<1>1. QueuesOk /\ HandOk /\ PeersOk(order, queues)
  BY DEF IInv, QueuesOk
<1>2. d \in Dests /\ LanesOk(d, q) /\ QueueOf(d) = q
  BY <1>1, InSet DEF PeersOk, QueueOf
<1>3. order' = Entered(d) /\ queues' = Keep(d, nq) /\ UNCHANGED lanes
  <2>1. DOMAIN queues = Range(order) /\ Range(order) \union {d} = Range(order)
    BY <1>1 DEF PeersOk
  <2>2. queues' = [x \in Range(order) |-> IF x = d THEN nq ELSE queues[x]]
    BY <2>1
  <2> QED
    BY <2>1, <2>2 DEF Entered, Keep, lanes
<1>4. /\ QueuesOk' /\ queues'[d] = nq /\ \A x \in Range(order) \ {d} : queues'[x] = queues[x]
      /\ PeersOf(order', queues') = (P \ Queued(q)) \union Queued(nq)
      /\ Cardinality(BusyOf(order', queues')) =
            (Cardinality(B) - (IF IsEmpty(q) THEN 0 ELSE 1)) + (IF IsEmpty(nq) THEN 0 ELSE 1)
      /\ (~IsEmpty(q) => Cardinality(B) > 0)
  BY <1>1, <1>2, <1>3, PeerPart
<1>5. /\ Entries = (Range(control_q) \union Range(retransmit_q)) \union (HandOf(hand) \union P)
      /\ HandOf(hand) = {} /\ HandOf(hand') = {e}
      /\ P \intersect (Range(control_q) \union Range(retransmit_q)) = {}
      /\ Queued(q) \subseteq P
  BY <1>1, <1>2, FiniteEntries, PeersApart, HandIs
<1>6. Entries' = (Range(control_q) \union Range(retransmit_q)) \union (HandOf(hand') \union PeersOf(order', queues'))
  BY DEF Entries, HandOf, PeersOf
<1>7. \A x \in Range(order) \ {d} : e \notin Queued(queues[x])
  <2> SUFFICES ASSUME NEW x \in Range(order) \ {d}, e \in Queued(queues[x]) PROVE FALSE
    OBVIOUS
  <2>1. e.flow = FlowOf(x, e.len)
    BY <1>1 DEF PeersOk, LanesOk
  <2> QED
    BY <2>1, FlowsApart
<1>8. Cardinality(B) \in Nat /\ nonEmpty = Cardinality(B)
  BY <1>1, FinitePeers DEF IInv, Counted
<1> HIDE DEF P, B
<1>9. Entries' = Entries /\ e \in Entries
  BY <1>4, <1>5, <1>6
<1>10. nonEmpty' = Cardinality(BusyOf(order', queues'))
  <2>1. Lower(nonEmpty) = Cardinality(B) - 1
    BY <1>4, <1>8 DEF Lower
  <2>2. nonEmpty' = IF IsEmpty(nq) THEN Cardinality(B) - 1 ELSE Cardinality(B)
    BY <1>4, <1>8, <2>1
  <2>3. Cardinality(BusyOf(order', queues')) = (Cardinality(B) - 1) + (IF IsEmpty(nq) THEN 0 ELSE 1)
    BY <1>4
  <2>4. CASE IsEmpty(nq)
    BY <1>8, <2>2, <2>3, <2>4
  <2>5. CASE ~IsEmpty(nq)
    BY <1>8, <2>2, <2>3, <2>5
  <2> QED
    BY <2>4, <2>5
<1>11. Counted'
  BY <1>9, <1>10, PopCount
<1>12. HandOk'
  <2>1. e \notin Range(control_q) /\ e \notin Range(retransmit_q)
    BY <1>5
  <2>2. \A x \in Range(order) : e \notin Queued(queues'[x])
    BY <1>4, <1>7
  <2>3. d # "control" /\ d # "retransmit"
    BY <1>2, PacingAssumption
  <2>4. Depth(nq) < DataCap
    <3>1. Depth(q) <= DataCap /\ Depth(q) \in Nat
      BY <1>2, QueuedCard DEF LanesOk
    <3> QED
      BY <3>1, PacingAssumption
  <2>5. (~IsSmallPacket(e.len) => \A x \in Range(nq.bulk) : e.id < x.id)'
    BY DEF IsSmallPacket
  <2> QED
    BY <1>2, <1>4, <2>1, <2>2, <2>3, <2>4, <2>5 DEF HandOk, InHand
<1> QED
  BY <1>4, <1>9, <1>11, <1>12 DEF Fine, Kept

\* What is in hand is held nowhere else.
LEMMA HandHas ==
    ASSUME IInv, hand # <<>>
    PROVE  /\ InHand(hand[1].pkt, hand[1].lane)
           /\ Entries = ((Range(control_q) \union Range(retransmit_q)) \union PeersOf(order, queues))
                           \union {hand[1].pkt}
           /\ hand[1].pkt \notin (Range(control_q) \union Range(retransmit_q)) \union PeersOf(order, queues)
           /\ Cardinality(Entries) \in Nat \ {0} /\ IsFiniteSet(Entries)
           /\ total = Cardinality(Entries) - 1
<1>1. PICK e, lane : InHand(e, lane)
  BY DEF IInv, HandOk
<1>2. e = hand[1].pkt /\ lane = hand[1].lane /\ Len(hand) = 1 /\ HandOf(hand) = {e}
  BY <1>1, HandIs DEF InHand
<1>3. e \notin (Range(control_q) \union Range(retransmit_q)) \union PeersOf(order, queues)
  BY <1>1 DEF InHand, PeersOf
<1>4. /\ Entries = (Range(control_q) \union Range(retransmit_q))
                      \union (HandOf(hand) \union PeersOf(order, queues))
      /\ IsFiniteSet(Entries) /\ Cardinality(Entries) \in Nat
  BY FiniteEntries DEF IInv
<1>5. Cardinality(Entries) # 0
  BY <1>2, <1>4, FS_EmptySet
<1>6. total = Cardinality(Entries) - 1
  BY <1>2 DEF IInv, Counted
<1> QED
  BY <1>1, <1>2, <1>3, <1>4, <1>5, <1>6

\* The packet in hand is sent; it was the oldest of its flow if the flow has an order.
LEMMA SendOkFine ==
    ASSUME IInv, SendOk
    PROVE  Fine
<1> DEFINE e == hand[1].pkt
           lane == hand[1].lane
           P == PeersOf(order, queues)
           k == Cardinality(Entries)
<1>1. hand # <<>> /\ hand' = <<>> /\ sent' = sent \union {e.id}
      /\ UNCHANGED <<control_q, retransmit_q, order, queues, nonEmpty, total, accepted>>
  BY DEF SendOk, lanes, peers
<1>2. /\ InHand(e, lane)
      /\ Entries = ((Range(control_q) \union Range(retransmit_q)) \union P) \union {e}
      /\ e \notin (Range(control_q) \union Range(retransmit_q)) \union P
      /\ k \in Nat \ {0} /\ IsFiniteSet(Entries) /\ total = k - 1
  BY <1>1, HandHas
<1>3. Entries' = (Range(control_q) \union Range(retransmit_q)) \union (HandOf(hand') \union P)
  BY <1>1 DEF Entries, HandOf, PeersOf
<1>4. HandOf(hand') = {} /\ Len(hand') = 0
  BY <1>1, HandIs
<1>5. QueuesOk'
  BY <1>1 DEF IInv, QueuesOk
<1>6. IsOldest(e)
  <2> SUFFICES ASSUME e.flow \in {Control} \union (Dests \X {"bulk"}),
                      NEW x \in Entries, x.flow = e.flow
               PROVE  e.id <= x.id
    BY DEF IsOldest
  <2>1. e.id \in Nat
    BY <1>2 DEF InHand, Pkt
  <2>2. CASE x = e
    BY <2>1, <2>2
  <2>3. CASE x # e /\ x \in Range(control_q)
    <3>1. x.flow \in {Control, Retransmit}
      BY <2>3 DEF IInv, QueuesOk
    <3>2. e.flow \in {Control, Retransmit} /\ e.flow = Control /\ lane \notin Dests
      BY <1>2, <3>1, FlowsApart, PacingAssumption DEF InHand, Retransmit, Control
    <3>3. lane # "retransmit"
      BY <1>2, <3>2, FlowsApart DEF InHand
    <3>4. e.id < x.id
      BY <1>2, <2>3, <3>2, <3>3 DEF InHand
    <3>5. x \in Pkt
      BY <2>3, InSet DEF IInv, QueuesOk
    <3>6. x.id \in Nat
      BY <3>5 DEF Pkt
    <3> QED
      BY <2>1, <3>4, <3>6
  <2>4. CASE x # e /\ x \in Range(retransmit_q)
    <3>1. x.flow = Retransmit
      BY <2>4 DEF IInv, QueuesOk
    <3> QED
      BY <3>1, FlowsApart, PacingAssumption DEF Retransmit, Control
  <2>5. CASE x # e /\ x \in P
    <3>1. PICK d \in Range(order) : x \in Queued(queues[d])
      BY <2>5 DEF PeersOf
    <3>2. d \in Dests /\ LanesOk(d, queues[d]) /\ x.flow = FlowOf(d, x.len)
      BY <3>1, InSet DEF IInv, QueuesOk, PeersOk, LanesOk
    <3>3. e.flow \notin {Control, Retransmit} /\ lane \in Dests
      BY <1>2, <3>2, FlowsApart DEF InHand
    <3>4. e.flow = FlowOf(lane, e.len) /\ lane = d /\ ~(e.len < SmallLen) /\ ~(x.len < SmallLen)
      BY <1>2, <3>2, <3>3, FlowsApart DEF InHand, FlowOf
    <3>5. x \in Range(queues[d].bulk) /\ x \in Pkt
      <4>1. x \in Pkt
        BY <3>1, <3>2, QueuedCard
      <4>2. x \notin Range(queues[d].small)
        BY <3>2, <3>4 DEF LanesOk
      <4> QED
        BY <3>1, <4>1, <4>2 DEF Queued
    <3>6. e.id < x.id
      BY <1>2, <3>3, <3>4, <3>5 DEF InHand, IsSmallPacket
    <3>7. x.id \in Nat
      BY <3>5 DEF Pkt
    <3> QED
      BY <2>1, <3>6, <3>7
  <2> QED
    BY <1>2, <2>2, <2>3, <2>4, <2>5
<1> HIDE DEF e, P
<1>7. Entries' = Entries \ {e} /\ e \in Entries
  BY <1>2, <1>3, <1>4
<1>8. Left
  BY <1>1, <1>6, <1>7 DEF Left
<1>9. Counted'
  <2>1. Cardinality(Entries \ {e}) = k - 1
    BY <1>2, <1>7, FS_RemoveElement
  <2>2. total' = Cardinality(Entries') - 0
    BY <1>1, <1>2, <1>7, <2>1
  <2>3. nonEmpty' = Cardinality(BusyOf(order', queues'))
    BY <1>1 DEF IInv, Counted
  <2> QED
    BY <1>4, <2>2, <2>3 DEF Counted
<1> QED
  BY <1>1, <1>5, <1>8, <1>9 DEF Fine, HandOk

\* The packet in hand is put back where there was room for it.
LEMMA SendFailsFine ==
    ASSUME IInv, SendFails
    PROVE  Fine
<1> DEFINE e == hand[1].pkt
           lane == hand[1].lane
           P == PeersOf(order, queues)
           k == Cardinality(Entries)
<1>1. hand # <<>> /\ hand' = <<>> /\ Requeue(lane, e) /\ total' = total + 1
      /\ UNCHANGED <<order, accepted, sent>>
  BY DEF SendFails, history
<1>2. /\ InHand(e, lane)
      /\ Entries = ((Range(control_q) \union Range(retransmit_q)) \union P) \union {e}
      /\ e \notin (Range(control_q) \union Range(retransmit_q)) \union P
      /\ k \in Nat \ {0} /\ total = k - 1
  BY <1>1, HandHas
<1>3. HandOf(hand') = {} /\ Len(hand') = 0 /\ {"control", "retransmit"} \intersect Dests = {}
  BY <1>1, HandIs, PacingAssumption
<1>4. SUFFICES QueuesOk' /\ nonEmpty' = Cardinality(BusyOf(order', queues')) /\ Entries' = Entries
  <2> HIDE DEF e, lane
  <2>1. total' = Cardinality(Entries') - 0
    BY <1>1, <1>2, <1>4
  <2>2. Counted'
    BY <1>3, <1>4, <2>1 DEF Counted
  <2> QED
    BY <1>1, <1>4, <2>2 DEF Fine, Kept, HandOk
<1>5. QueuesOk /\ nonEmpty = Cardinality(BusyOf(order, queues))
  BY DEF IInv, Counted
<1>6. Entries' = (Range(control_q') \union Range(retransmit_q'))
                    \union (HandOf(hand') \union PeersOf(order', queues'))
  BY DEF Entries, HandOf, PeersOf
<1> HIDE DEF e, lane
<1>a. e \in Pkt /\ e \notin Range(control_q) /\ e \notin Range(retransmit_q)
  BY <1>2 DEF InHand
<1>b. /\ control_q \in Seq(Pkt) /\ Injective(control_q)
      /\ retransmit_q \in Seq(Pkt) /\ Injective(retransmit_q)
  BY <1>5 DEF QueuesOk
<1>7. CASE lane = "control"
  <2>1. control_q' = <<e>> \o control_q /\ UNCHANGED <<retransmit_q, queues, nonEmpty>>
    BY <1>1, <1>3, <1>7 DEF Requeue
  <2>2. /\ control_q' \in Seq(Pkt) /\ Injective(control_q') /\ Range(control_q') = Range(control_q) \union {e}
    BY <1>a, <1>b, <2>1, PutBack
  <2>3. ControlRising(control_q')
    BY <1>2, <1>5, <1>7, <2>1, RisingPutBack DEF QueuesOk, InHand
  <2>4. Range(control_q') \intersect Range(retransmit_q) = {}
        /\ \A x \in Range(control_q') : x.flow \in {Control, Retransmit}
    BY <1>2, <1>5, <1>7, <2>2 DEF QueuesOk, InHand
  <2>5. QueuesOk'
    BY <1>1, <1>5, <2>1, <2>2, <2>3, <2>4 DEF QueuesOk
  <2>6. Entries' = Entries
    BY <1>1, <1>2, <1>3, <1>6, <2>1, <2>2
  <2> QED
    BY <1>1, <1>5, <2>1, <2>5, <2>6
<1>8. CASE lane = "retransmit"
  <2>1. retransmit_q' = <<e>> \o retransmit_q /\ UNCHANGED <<control_q, queues, nonEmpty>>
    BY <1>1, <1>3, <1>8 DEF Requeue
  <2>2. /\ retransmit_q' \in Seq(Pkt) /\ Injective(retransmit_q')
        /\ Range(retransmit_q') = Range(retransmit_q) \union {e}
        /\ Len(retransmit_q') = Len(retransmit_q) + 1
    BY <1>a, <1>b, <2>1, PutBack
  <2>3. Len(retransmit_q') <= RetransmitCap
    <3> DEFINE m == Len(retransmit_q)
    <3>1. m \in Nat /\ Len(retransmit_q') = m + 1
      BY <1>b, <2>2
    <3>2. m < RetransmitCap
      BY <1>2, <1>8 DEF InHand
    <3> HIDE DEF m
    <3> QED
      BY <3>1, <3>2, PacingAssumption
  <2>4. Range(control_q) \intersect Range(retransmit_q') = {}
        /\ \A x \in Range(retransmit_q') : x.flow = Retransmit
    BY <1>2, <1>5, <1>8, <2>2 DEF QueuesOk, InHand
  <2>5. QueuesOk'
    BY <1>1, <1>5, <2>1, <2>2, <2>3, <2>4 DEF QueuesOk
  <2>6. Entries' = Entries
    BY <1>1, <1>2, <1>3, <1>6, <2>1, <2>2
  <2> QED
    BY <1>1, <1>5, <2>1, <2>5, <2>6
<1>9. CASE lane \in Dests
  <2> DEFINE q == queues[lane]
             nq == PushFront(q, e)
             B == BusyOf(order, queues)
  <2>1. /\ UNCHANGED <<control_q, retransmit_q>> /\ queues' = [queues EXCEPT ![lane] = nq]
        /\ nonEmpty' = (IF IsEmpty(q) THEN nonEmpty + 1 ELSE nonEmpty)
    BY <1>1, <1>3, <1>9 DEF Requeue
  <2>2. /\ lane \in Range(order) /\ e \in Pkt /\ e.flow = FlowOf(lane, e.len) /\ Depth(q) < DataCap
        /\ e \notin Queued(q)
        /\ ~IsSmallPacket(e.len) => \A x \in Range(q.bulk) : e.id < x.id
    BY <1>2, <1>9 DEF InHand
  <2>3. PeersOk(order, queues) /\ LanesOk(lane, q) /\ QueueOf(lane) = q
    BY <1>5, <2>2 DEF QueuesOk, PeersOk, QueueOf
  <2>4. LanesOk(lane, nq) /\ Queued(nq) = Queued(q) \union {e} /\ Depth(nq) = Depth(q) + 1
    BY <2>2, <2>3, PushFrontOk
  <2>5. order' = Entered(lane) /\ queues' = Keep(lane, nq) /\ UNCHANGED lanes
    <3>1. DOMAIN queues = Range(order) /\ Range(order) \union {lane} = Range(order)
      BY <2>2, <2>3 DEF PeersOk
    <3>2. queues' = [x \in Range(order) |-> IF x = lane THEN nq ELSE queues[x]]
      BY <2>1, <3>1
    <3> QED
      BY <1>1, <2>1, <2>2, <3>1, <3>2 DEF Entered, Keep, lanes
  <2>6. /\ QueuesOk'
        /\ PeersOf(order', queues') = (P \ Queued(q)) \union Queued(nq)
        /\ Cardinality(BusyOf(order', queues')) =
              (Cardinality(B) - (IF IsEmpty(q) THEN 0 ELSE 1)) + (IF IsEmpty(nq) THEN 0 ELSE 1)
    BY <1>5, <1>9, <2>3, <2>4, <2>5, PeerPart
  <2>7. ~IsEmpty(nq) /\ Cardinality(B) \in Nat
    <3>1. Depth(q) \in Nat
      BY <2>3, QueuedCard
    <3> QED
      BY <1>5, <2>4, <3>1, FinitePeers DEF IsEmpty
  <2>8. nonEmpty' = Cardinality(BusyOf(order', queues'))
    BY <1>5, <2>1, <2>6, <2>7
  <2>9. Queued(q) \subseteq P
    BY <2>2 DEF PeersOf
  <2> HIDE DEF q, nq, B
  <2>10. Entries' = Entries
    <3> HIDE DEF P
    <3> QED
      BY <1>2, <1>3, <1>6, <2>1, <2>4, <2>6, <2>9
  <2> QED
    BY <2>6, <2>8, <2>10
<1> QED
  BY <1>2, <1>7, <1>8, <1>9 DEF InHand

-----------------------------------------------------------------------------
(* The rounds of a tick.                                                   *)

\* A scan that only adds to a deficit.
LEMMA DeficitFine ==
    ASSUME IInv, hand = <<>>, NEW d \in Range(order), NEW x,
           queues' = [queues EXCEPT ![d] = [queues[d] EXCEPT !.deficit = x]],
           UNCHANGED <<control_q, retransmit_q, order, total, nonEmpty, hand, accepted, sent>>
    PROVE  Fine
<1> DEFINE q == queues[d]
           nq == [q EXCEPT !.deficit = x]
<1>1. PeersOk(order, queues) /\ d \in Dests /\ LanesOk(d, q) /\ DOMAIN queues = Range(order)
  BY InSet DEF IInv, QueuesOk, PeersOk
<1>2. LanesOk(d, nq) /\ Queued(nq) = Queued(q) /\ Depth(nq) = Depth(q)
  BY <1>1, SameLanes
<1>3. order' = Entered(d) /\ queues' = Keep(d, nq) /\ UNCHANGED lanes /\ QueueOf(d) = q
  <2>1. Range(order) \union {d} = Range(order)
    OBVIOUS
  <2>2. queues' = [y \in Range(order) |-> IF y = d THEN nq ELSE queues[y]]
    BY <1>1
  <2> QED
    BY <2>1, <2>2 DEF Entered, Keep, lanes, QueueOf
<1>4. Queued(q) \subseteq Entries
  BY DEF Entries
<1> HIDE DEF q, nq
<1>5. /\ QueuesOk' /\ HandOk'
      /\ Entries' = (Entries \ Queued(q)) \union Queued(nq)
      /\ total \in Nat /\ Depth(q) \in Nat
      /\ Cardinality(Entries') = total - Depth(q) + Depth(nq)
      /\ nonEmpty \in Nat
      /\ Cardinality(BusyOf(order', queues')) =
            (nonEmpty - (IF IsEmpty(q) THEN 0 ELSE 1)) + (IF IsEmpty(nq) THEN 0 ELSE 1)
      /\ total' = Cardinality(Entries') /\ nonEmpty' = Cardinality(BusyOf(order', queues')) => Counted'
  BY <1>1, <1>2, <1>3, PeerCount
<1>6. total' = Cardinality(Entries')
  BY <1>2, <1>5
<1>7. nonEmpty' = Cardinality(BusyOf(order', queues'))
  BY <1>2, <1>5 DEF IsEmpty
<1>8. Kept
  BY <1>2, <1>4, <1>5 DEF Kept
<1> QED
  BY <1>5, <1>6, <1>7, <1>8 DEF Fine

\* The peer that a round of the scan looks at.
ScanAt == IF InOrder THEN order[Len(order) - tick.scans + 1] ELSE AtCursor

\* A round of the scan looks at a peer that there is.
LEMMA ScanAtOk ==
    ASSUME IInv, tick.pc = "scan", tick.scans > 0
    PROVE  ScanAt \in Range(order)
<1>1. /\ order \in Seq(Dests) /\ order # <<>> /\ tick.scans \in Nat
      /\ (InOrder => tick.scans <= Len(order))
  BY DEF IInv, QueuesOk, PeersOk, TickOk
<1>2. CASE InOrder
  <2> DEFINE n == Len(order)
             i == n - tick.scans + 1
  <2>1. n \in Nat /\ tick.scans <= n
    BY <1>1, <1>2
  <2>2. i \in 1..n
    <3> HIDE DEF n
    <3> QED
      BY <1>1, <2>1
  <2>3. Range(order) = {order[j] : j \in 1..n}
    BY <1>1, InSet
  <2>4. ScanAt = order[i]
    BY <1>2 DEF ScanAt
  <2> QED
    BY <2>2, <2>3, <2>4
<1>3. CASE ~InOrder
  BY <1>1, <1>3, CursorOk DEF ScanAt
<1> QED
  BY <1>2, <1>3

\* A round of the scan tops up a peer, passes it by or takes its packet.
LEMMA ScanFine ==
    ASSUME IInv, NEW old \in BOOLEAN, NEW allowed \in BOOLEAN, ScanPeer(old, allowed)
    PROVE  Fine
<1> DEFINE d == ScanAt
           q == queues[d]
           e == FrontOf(q, old)
           credit == IF Fair THEN Credited(q, e.len) ELSE q.deficit
           goes == allowed /\ (Fair => e.len <= credit)
           rest == IF goes /\ Fair THEN credit - e.len ELSE credit
<1>1. tick.pc = "scan" /\ tick.scans > 0
      /\ UNCHANGED <<control_q, retransmit_q, order, config, accepted, sent>>
  BY DEF ScanPeer, lanes
<1>2. hand = <<>> /\ d \in Range(order)
  BY <1>1, HandEmpty, ScanAtOk
<1>3. CASE IsEmpty(q)
  <2>1. /\ queues' = (IF Fair THEN [queues EXCEPT ![d].deficit = 0] ELSE queues)
        /\ UNCHANGED <<nonEmpty, total, hand>>
    BY <1>3 DEF ScanPeer, ScanAt
  <2>2. CASE Fair
    <3>1. queues' = [queues EXCEPT ![d] = [queues[d] EXCEPT !.deficit = 0]]
      BY <2>1, <2>2
    <3> HIDE DEF d
    <3> QED
      BY <1>1, <1>2, <2>1, <3>1, DeficitFine
  <2>3. CASE ~Fair
    BY <1>1, <1>2, <2>1, <2>3, StillFine
  <2> QED
    BY <2>2, <2>3
<1>4. CASE ~IsEmpty(q) /\ ~goes
  <2>1. /\ queues' = [queues EXCEPT ![d] = [q EXCEPT !.deficit = rest]]
        /\ UNCHANGED <<nonEmpty, total, hand>>
    BY <1>4 DEF ScanPeer, ScanAt
  <2> HIDE DEF d, rest
  <2> QED
    BY <1>1, <1>2, <2>1, DeficitFine
<1>5. CASE ~IsEmpty(q) /\ goes
  <2> DEFINE r == Popped(q, old)
             nq == [r EXCEPT !.deficit = rest]
  <2>1. /\ queues' = [queues EXCEPT ![d] = nq]
        /\ hand' = <<[pkt |-> e, lane |-> d]>> /\ total' = Lower(total)
        /\ nonEmpty' = (IF IsEmpty(queues'[d]) THEN Lower(nonEmpty) ELSE nonEmpty)
        /\ tick' = [tick EXCEPT !.pc = "burst"]
    BY <1>5 DEF ScanPeer, ScanAt
  <2>2. tick'.pc = "burst"
    BY <2>1 DEF IInv, TickOk
  <2>3. LanesOk(d, q)
    BY <1>2 DEF IInv, QueuesOk, PeersOk
  <2>4. /\ LanesOk(d, r) /\ Depth(r) = Depth(q) - 1
        /\ e \in Queued(q) /\ e \notin Queued(r) /\ Queued(r) = Queued(q) \ {e}
        /\ e \in Pkt /\ e.flow = FlowOf(d, e.len)
        /\ ~IsSmallPacket(e.len) => \A x \in Range(r.bulk) : e.id < x.id
    <3>1. ~IsEmpty(q)
      BY <1>5
    <3> QED
      BY <2>3, <3>1, PoppedOk
  <2> HIDE DEF r, rest
  <2>5. LanesOk(d, nq) /\ Queued(nq) = Queued(r) /\ Depth(nq) = Depth(r) /\ nq.bulk = r.bulk
    <3>1. LanesOk(d, r)
      BY <2>4
    <3> QED
      BY <3>1, SameLanes
  <2>6. q = queues[d]
    OBVIOUS
  <2> HIDE DEF nq, e, q, d, goes
  <2>7. ~IsSmallPacket(e.len) => \A x \in Range(nq.bulk) : e.id < x.id
    BY <2>4, <2>5
  <2> QED
    BY <1>1, <1>2, <1>5, <2>1, <2>2, <2>4, <2>5, <2>6, <2>7, PopDataFine
<1> QED
  BY <1>3, <1>4, <1>5

\* drain_reserved_prefix takes a packet or ends.
LEMMA ReservedFine ==
    ASSUME IInv, ReservedRetransmit \/ ReservedControl
    PROVE  Fine
<1>1. CASE ReservedRetransmit /\ TakeReserved("rtx", retransmit_q, RtxReserved, "retransmit")
           /\ retransmit_q' = Tail(retransmit_q) /\ UNCHANGED <<control_q, passed>>
  <2>1. /\ hand = <<>> /\ retransmit_q # <<>> /\ total' = Lower(total) /\ tick.pc = "rtx" /\ tick' = tick
        /\ hand' = <<[pkt |-> Head(retransmit_q), lane |-> "retransmit"]>>
        /\ UNCHANGED <<control_q, order, queues, nonEmpty, accepted, sent>>
    BY <1>1 DEF TakeReserved, peers
  <2> QED
    BY <1>1, <2>1, PopRetransmitFine
<1>2. CASE ReservedControl /\ TakeReserved("ctrl", control_q, config.ctrl, "control")
           /\ control_q' = Tail(control_q) /\ passed' = 0 /\ UNCHANGED retransmit_q
  <2>1. /\ hand = <<>> /\ control_q # <<>> /\ total' = Lower(total) /\ tick.pc = "ctrl" /\ tick' = tick
        /\ hand' = <<[pkt |-> Head(control_q), lane |-> "control"]>>
        /\ UNCHANGED <<retransmit_q, order, queues, nonEmpty, accepted, sent>>
    BY <1>2 DEF TakeReserved, peers
  <2> QED
    BY <1>2, <2>1, PopControlFine
<1>3. ASSUME NEW pc, NEW q, NEW initial, NEW next, NEW reserve, ReservedDone(pc, q, initial, next, reserve)
      PROVE  Fine
  <2>1. hand = <<>> /\ UNCHANGED <<control_q, retransmit_q, order, queues, total, nonEmpty, hand, accepted, sent>>
    BY <1>3 DEF ReservedDone, lanes, peers, history
  <2> QED
    BY <2>1, StillFine
<1> QED
  BY <1>1, <1>2, <1>3 DEF ReservedRetransmit, ReservedControl

\* pop_with_interleave takes a control packet or starts to scan.
LEMMA InterleavedFine ==
    ASSUME IInv, NEW aging \in BOOLEAN, Interleaved(aging)
    PROVE  Fine
<1>1. hand = <<>> /\ UNCHANGED <<retransmit_q, order, queues, nonEmpty, accepted, sent>>
  BY DEF Interleaved, InBurst, peers
<1>2. CASE turns' % Divisor(aging) = 0 /\ control_q # <<>>
  <2>1. PopControl("burst") /\ control_q # <<>>
    BY <1>2 DEF Interleaved
  <2>2. tick'.pc = "burst"
    BY <2>1 DEF PopControl, IInv, TickOk
  <2> QED
    BY <1>1, <2>1, <2>2, PopControlFine DEF PopControl
<1>3. CASE ~(turns' % Divisor(aging) = 0 /\ control_q # <<>>)
  <2>1. UNCHANGED <<control_q, total, hand>>
    BY <1>3 DEF Interleaved
  <2> QED
    BY <1>1, <2>1, StillFine
<1> QED
  BY <1>2, <1>3

\* A scan without a packet falls back to the control queue.
LEMMA ScanOverFine ==
    ASSUME IInv, ScanOver
    PROVE  Fine
<1>1. hand = <<>> /\ UNCHANGED <<retransmit_q, order, queues, nonEmpty, accepted, sent>>
  BY HandEmpty DEF ScanOver, peers
<1>2. CASE control_q # <<>>
  <2>1. PopControl("burst")
    BY <1>2 DEF ScanOver
  <2>2. tick'.pc = "burst"
    BY <2>1 DEF PopControl, IInv, TickOk
  <2> QED
    BY <1>1, <1>2, <2>1, <2>2, PopControlFine DEF PopControl
<1>3. CASE control_q = <<>>
  <2>1. UNCHANGED <<control_q, total, hand>>
    BY <1>3 DEF ScanOver
  <2> QED
    BY <1>1, <2>1, StillFine
<1> QED
  BY <1>2, <1>3

\* Steps that leave every packet where it is.
LEMMA OtherFine ==
    ASSUME IInv,
           \/ \E cfg \in Configs : SetConfig(cfg)
           \/ \E b \in BOOLEAN : SetDrrEnabled(b) \/ SetBackgroundCc(b)
           \/ \E d \in Dests : OnCcSample(d)
           \/ AnyTick \/ TickDeadline \/ ShedDone \/ BurstOver
    PROVE  Fine
<1>1. SUFFICES hand = <<>> /\ UNCHANGED <<control_q, retransmit_q, order, queues, total, nonEmpty, hand, accepted, sent>>
  BY <1>1, StillFine
<1>2. CASE \E cfg \in Configs : SetConfig(cfg)
  <2>1. nonEmpty = Cardinality({d \in Range(order) : ~IsEmpty(queues[d])})
    BY DEF IInv, Counted, BusyOf
  <2> QED
    BY <1>2, <2>1, HandEmpty DEF SetConfig, lanes, history
<1>3. CASE \E b \in BOOLEAN : SetDrrEnabled(b) \/ SetBackgroundCc(b)
  BY <1>3, HandEmpty DEF SetDrrEnabled, SetBackgroundCc, lanes, peers, history
<1>4. CASE \E d \in Dests : OnCcSample(d)
  BY <1>4, HandEmpty DEF OnCcSample, lanes, peers, history
<1>5. CASE AnyTick
  BY <1>5, HandEmpty DEF AnyTick, TickStart, lanes, peers, history
<1>6. CASE TickDeadline
  BY <1>6 DEF TickDeadline, lanes, peers, history
<1>7. CASE ShedDone
  BY <1>7, HandEmpty DEF ShedDone, lanes, peers, history
<1>8. CASE BurstOver
  BY <1>8 DEF BurstOver, lanes, peers, history
<1> QED
  BY <1>2, <1>3, <1>4, <1>5, <1>6, <1>7, <1>8

\* pop_retransmit_for_send takes a packet.
LEMMA PopRetransmitStep ==
    ASSUME IInv, PopRetransmit
    PROVE  Fine
<1>1. /\ hand = <<>> /\ retransmit_q # <<>> /\ total' = Lower(total) /\ tick.pc = "burst" /\ tick' = tick
      /\ hand' = <<[pkt |-> Head(retransmit_q), lane |-> "control"]>>
      /\ retransmit_q' = Tail(retransmit_q)
      /\ UNCHANGED <<control_q, order, queues, nonEmpty, accepted, sent>>
  BY DEF PopRetransmit, InBurst, peers, history
<1> QED
  BY <1>1, PopRetransmitFine

\* Every step keeps the queues and the counters right.
LEMMA StepFine ==
    ASSUME IInv, Next
    PROVE  Fine
<1>1. CASE Command
  BY <1>1, RemovePeerFine, EnqueuePeerFine, BatchFine, EnqueueControlFine, EnqueueRetransmitFine,
     ResetFine, OtherFine DEF Command
<1>2. CASE AnyTick
  BY <1>2, OtherFine
<1>3. CASE TickStep
  BY <1>3, OtherFine, ReservedFine, PopRetransmitStep, ScanOverFine, SendOkFine, SendFailsFine,
     ShedFine, InterleavedFine, ScanFine DEF TickStep
<1> QED
  BY <1>1, <1>2, <1>3 DEF Next

-----------------------------------------------------------------------------
(* The cursor, the rounds and the turns.                                   *)

\* Every step keeps the cursor and the rounds of the tick right.
LEMMA TickKept ==
    ASSUME IInv, Next
    PROVE  TickOk'
<1> USE DEF TickOk
<1>1. TickOk /\ order \in Seq(Dests)
  BY DEF IInv, QueuesOk, PeersOk
<1>2. Idle.pc = "idle" /\ Idle.scans = 0 /\ DOMAIN Idle = {"pc", "left", "reserve", "scans", "freeze"}
  BY DEF Idle
<1>3. \A c \in Nat : Advance(c) \in Nat
  BY PacingAssumption DEF Advance
<1>4. CASE Command
  <2>1. tick = Idle /\ tick' = Idle
    BY <1>4 DEF Command, RemovePeer, OnCcSample, EnqueuePeer, TryEnqueuePeerBatch, EnqueueControl,
                EnqueueRetransmit, SetConfig, SetDrrEnabled, SetBackgroundCc, ResetSession
  <2>2. cursor' \in Nat
    <3>1. ASSUME NEW d \in Dests, RemovePeer(d) PROVE cursor' \in Nat
      <4>1. CASE d \notin Range(order)
        BY <1>1, <3>1, <4>1 DEF RemovePeer
      <4>2. CASE d \in Range(order)
        <5> DEFINE moved == IF cursor > 0 /\ IndexOf(d) < cursor THEN cursor - 1 ELSE cursor
                   n == Len(order')
        <5>1. cursor' = IF order' = <<>> THEN 0 ELSE moved % n
          BY <3>1, <4>2 DEF RemovePeer
        <5>2. order' \in Seq(Dests)
          BY StepFine DEF Fine, QueuesOk, PeersOk
        <5>3. order' # <<>> => n \in Nat \ {0}
          BY <5>2
        <5>4. moved \in Nat
          BY <1>1
        <5> HIDE DEF moved, n
        <5> QED
          BY <5>1, <5>3, <5>4
      <4> QED
        BY <4>1, <4>2
    <3>2. CASE \E d \in Dests : RemovePeer(d)
      BY <3>1, <3>2
    <3>3. CASE ~\E d \in Dests : RemovePeer(d)
      <4>1. cursor' = cursor \/ cursor' = 0
        BY <1>4, <3>3 DEF Command, OnCcSample, EnqueuePeer, TryEnqueuePeerBatch, EnqueueControl,
                EnqueueRetransmit, SetConfig, SetDrrEnabled, SetBackgroundCc, ResetSession, engine
      <4> QED
        BY <1>1, <4>1
    <3> QED
      BY <3>2, <3>3
  <2> QED
    BY <1>2, <2>1, <2>2
<1>5. CASE AnyTick
  <2>1. /\ tick'.pc \in {"shed", "rtx"} /\ tick'.scans = Len(order) /\ order' = order /\ cursor' = cursor
        /\ DOMAIN tick' = {"pc", "left", "reserve", "scans", "freeze"}
    BY <1>5 DEF AnyTick, TickStart, peers
  <2>2. Len(order) \in Nat /\ (Len(order) > 0 => order # <<>>)
    BY <1>1
  <2> QED
    BY <1>1, <2>1, <2>2
<1>6. ASSUME tick' = Idle, cursor' = cursor PROVE TickOk'
  BY <1>1, <1>2, <1>6
<1>7. ASSUME DOMAIN tick' = DOMAIN tick, tick'.scans = tick.scans, tick'.pc \notin {"shed", "scan"}, cursor' = cursor
      PROVE  TickOk'
  BY <1>1, <1>7
<1>8. CASE TickDeadline \/ BurstOver \/ SendFails
  BY <1>6, <1>8 DEF TickDeadline, BurstOver, SendFails, engine
<1>9. CASE ShedDone \/ ReservedRetransmit \/ ReservedControl \/ PopRetransmit
  <2>1. DOMAIN tick' = DOMAIN tick /\ tick'.scans = tick.scans /\ cursor' = cursor
    BY <1>1, <1>9 DEF ShedDone, ReservedRetransmit, ReservedControl, PopRetransmit, InBurst,
                       TakeReserved, ReservedDone, engine
  <2>2. tick'.pc \notin {"shed", "scan"}
    BY <1>1, <1>9 DEF ShedDone, ReservedRetransmit, ReservedControl, PopRetransmit, InBurst,
                       TakeReserved, ReservedDone, engine
  <2> QED
    BY <1>7, <2>1, <2>2
<1>10. CASE SendOk
  <2>1. tick.pc \notin {"shed", "scan"}
    BY <1>10, HandEmpty DEF SendOk
  <2>2. DOMAIN tick' = DOMAIN tick /\ tick'.scans = tick.scans /\ tick'.pc = tick.pc /\ cursor' = cursor
    BY <1>1, <1>10 DEF SendOk
  <2> QED
    BY <1>7, <2>1, <2>2
<1>11. CASE ScanOver
  <2>1. CASE control_q = <<>>
    BY <1>6, <1>11, <2>1 DEF ScanOver, engine
  <2>2. CASE control_q # <<>>
    BY <1>1, <1>7, <1>11, <2>2 DEF ScanOver, PopControl, engine
  <2> QED
    BY <2>1, <2>2
<1>12. ASSUME NEW old \in BOOLEAN, ShedScan(old) PROVE TickOk'
  <2>1. /\ tick'.pc = "shed" /\ tick'.scans = tick.scans - 1 /\ DOMAIN tick' = DOMAIN tick
        /\ order' = order /\ cursor' = Advance(cursor) /\ tick.scans > 0
    BY <1>1, <1>12 DEF ShedScan
  <2>2. tick.pc = "shed" /\ tick.scans \in Nat /\ order # <<>>
    BY <1>1, <1>12, <2>1 DEF ShedScan
  <2>3. tick'.scans \in Nat
    BY <2>1, <2>2
  <2>4. cursor' \in Nat
    BY <1>1, <1>3, <2>1
  <2> QED
    BY <1>1, <2>1, <2>2, <2>3, <2>4
<1>13. ASSUME NEW aging \in BOOLEAN, Interleaved(aging) PROVE TickOk'
  <2>1. cursor' = cursor /\ order' = order /\ config' = config
    BY <1>13 DEF Interleaved, peers
  <2>2. CASE turns' % Divisor(aging) = 0 /\ control_q # <<>>
    BY <1>1, <1>7, <1>13, <2>1, <2>2 DEF Interleaved, PopControl
  <2>3. CASE ~(turns' % Divisor(aging) = 0 /\ control_q # <<>>)
    <3>1. tick' = [tick EXCEPT !.pc = "scan", !.scans = Rounds]
      BY <1>13, <2>3 DEF Interleaved
    <3>2. tick'.pc = "scan" /\ tick'.scans = Rounds /\ DOMAIN tick' = DOMAIN tick /\ tick'.freeze = tick.freeze
      BY <1>1, <3>1
    <3> DEFINE n == Len(order)
    <3>3. n \in Nat /\ (n > 0 => order # <<>>)
      BY <1>1
    <3>4. Rounds = IF tick.freeze \/ ~config.drr THEN n ELSE IF nonEmpty = 0 THEN 0 ELSE 2 * n
      BY DEF Rounds
    <3>5. InOrder' => Rounds = n
      BY <2>1, <3>2, <3>4 DEF InOrder
    <3>6. n = Len(order')
      BY <2>1
    <3> HIDE DEF n
    <3>7. Rounds \in Nat /\ (Rounds > 0 => n > 0)
      BY <3>3, <3>4
    <3> QED
      BY <1>1, <2>1, <3>2, <3>3, <3>5, <3>6, <3>7
  <2> QED
    BY <2>2, <2>3
<1>14. ASSUME NEW old \in BOOLEAN, NEW allowed \in BOOLEAN, ScanPeer(old, allowed) PROVE TickOk'
  <2>1. /\ tick.pc = "scan" /\ tick.scans > 0 /\ order' = order /\ config' = config
        /\ cursor' \in {cursor, Advance(cursor)}
        /\ \/ tick' = [tick EXCEPT !.scans = @ - 1]
           \/ tick' = [tick EXCEPT !.pc = "burst"]
    BY <1>14 DEF ScanPeer
  <2>2. CASE tick' = [tick EXCEPT !.scans = @ - 1]
    <3>1. tick'.pc = "scan" /\ tick'.scans = tick.scans - 1 /\ DOMAIN tick' = DOMAIN tick /\ tick'.freeze = tick.freeze
      BY <1>1, <2>1, <2>2
    <3>2. InOrder' => InOrder
      BY <2>1, <3>1 DEF InOrder
    <3>3. Len(order) \in Nat
      BY <1>1
    <3> QED
      BY <1>1, <1>3, <2>1, <3>1, <3>2, <3>3
  <2>3. CASE tick' = [tick EXCEPT !.pc = "burst"]
    <3>1. tick'.pc = "burst" /\ tick'.scans = tick.scans /\ DOMAIN tick' = DOMAIN tick
      BY <1>1, <2>1, <2>3
    <3> QED
      BY <1>1, <1>3, <2>1, <3>1
  <2> QED
    BY <2>1, <2>2, <2>3
<1> QED
  BY <1>4, <1>5, <1>8, <1>9, <1>10, <1>11, <1>12, <1>13, <1>14 DEF Next, TickStep

\* Control packets that fill half of their queue are there, and select the divisor two.
LEMMA HalfFull ==
    ASSUME IInv
    PROVE  Half => control_q # <<>> /\ Len(control_q) * 2 >= ControlCap
<1> DEFINE C == Range(control_q)
           k == Cardinality(Backlog)
           n == Len(control_q)
<1>1. control_q \in Seq(Pkt) /\ Injective(control_q)
  BY DEF IInv, QueuesOk
<1>2. IsFiniteSet(C) /\ Cardinality(C) = n /\ n \in Nat /\ (n # 0 => control_q # <<>>)
  BY <1>1, Places
<1>3. k <= n /\ k \in Nat
  BY <1>2, FS_Subset, FS_CardinalityType DEF Backlog
<1>4. Half <=> k * 2 >= ControlCap
  BY DEF Half
<1> HIDE DEF n, k
<1>5. Half => n # 0 /\ n * 2 >= ControlCap
  BY <1>2, <1>3, <1>4, PacingAssumption
<1> QED
  BY <1>2, <1>5 DEF n

\* Once a control packet was popped none has passed it.
LEMMA NonePassed ==
    ASSUME turns' \in 0..3, passed' = 0, tick'.pc # "scan"
    PROVE  TurnsOk'
<1>1. passed' \in 0..turns'
  OBVIOUS
<1> QED
  BY <1>1 DEF TurnsOk

\* A step that takes no turn.
LEMMA TurnsSame ==
    ASSUME IInv, UNCHANGED <<turns, passed, control_q>>, tick'.pc = "scan" => tick.pc = "scan"
    PROVE  TurnsOk'
<1>1. Half' <=> Half
  BY DEF Half, Backlog
<1> QED
  BY <1>1 DEF IInv, TurnsOk

\* The turn of a control packet, or the start of a scan on a data packet's turn.
LEMMA InterleavedTurns ==
    ASSUME IInv, NEW aging \in BOOLEAN, Interleaved(aging)
    PROVE  TurnsOk'
<1>1. turns \in 0..3 /\ turns' = (turns + 1) % 4
  BY DEF IInv, TurnsOk, Interleaved
<1>2. turns' \in 0..3 /\ (turns < 3 => turns' = turns + 1) /\ (turns = 3 => turns' = 0)
  BY <1>1
<1>3. CASE turns' % Divisor(aging) = 0 /\ control_q # <<>>
  <2>1. passed' = 0 /\ tick'.pc = "burst"
    BY <1>3 DEF Interleaved, PopControl, IInv, TickOk
  <2> QED
    BY <1>2, <2>1, NonePassed
<1>4. CASE ~(turns' % Divisor(aging) = 0 /\ control_q # <<>>)
  <2>1. tick'.pc = "scan" /\ UNCHANGED <<control_q, passed>>
    BY <1>4 DEF Interleaved, IInv, TickOk
  <2>2. Half' <=> Half
    BY <2>1 DEF Half, Backlog
  <2>3. /\ passed \in 0..turns /\ (control_q = <<>> => passed = 0)
        /\ (Half => passed = 0 \/ (passed = 1 /\ turns % 2 = 1))
    BY DEF IInv, TurnsOk
  <2>4. CASE control_q = <<>>
    <3>1. ~Half /\ ~Half'
      BY <2>2, <2>4, HalfFull
    <3>2. passed' = 0 /\ control_q' = <<>> /\ passed' \in 0..turns'
      BY <1>2, <2>1, <2>3, <2>4
    <3> QED
      BY <1>2, <3>1, <3>2 DEF TurnsOk
  <2>5. CASE control_q # <<>>
    <3>1. turns' # 0
      <4>1. Divisor(aging) \in {2, 4}
        BY DEF Divisor
      <4> QED
        BY <1>4, <2>5, <4>1
    <3>2. turns' = turns + 1
      BY <1>1, <1>2, <3>1
    <3>3. ASSUME Half PROVE passed = 0 /\ turns' % 2 = 1
      <4>1. Divisor(aging) = 2
        BY <3>3, HalfFull DEF Divisor
      <4>2. turns' % 2 # 0
        BY <1>4, <2>5, <4>1
      <4>3. turns % 2 = 0 /\ turns' % 2 = 1
        BY <1>1, <1>2, <3>2, <4>2
      <4> QED
        BY <2>3, <3>3, <4>3
    <3> QED
      BY <1>1, <1>2, <2>1, <2>2, <2>3, <2>5, <3>2, <3>3 DEF TurnsOk
  <2> QED
    BY <2>4, <2>5
<1> QED
  BY <1>3, <1>4

\* A data packet passes at most once in a turn.
LEMMA ScanTurns ==
    ASSUME IInv, NEW old \in BOOLEAN, NEW allowed \in BOOLEAN, ScanPeer(old, allowed)
    PROVE  TurnsOk'
<1>1. tick.pc = "scan" /\ UNCHANGED <<turns, control_q>>
  BY DEF ScanPeer, lanes
<1>2. CASE passed' = passed
  BY <1>1, <1>2, TurnsSame
<1>3. CASE passed' # passed
  <2>1. passed' = (IF control_q = <<>> THEN 0 ELSE passed + 1) /\ tick' = [tick EXCEPT !.pc = "burst"]
    BY <1>3 DEF ScanPeer
  <2>2. tick'.pc = "burst"
    BY <2>1 DEF IInv, TickOk
  <2>3. Half' <=> Half
    BY <1>1 DEF Half, Backlog
  <2>4. /\ turns \in 0..3 /\ passed \in 0..turns
        /\ (control_q # <<>> => passed < turns)
        /\ (Half => passed = 0 /\ turns % 2 = 1)
    BY <1>1 DEF IInv, TurnsOk
  <2>5. CASE control_q = <<>>
    BY <1>1, <2>1, <2>2, <2>4, <2>5, NonePassed
  <2>6. CASE control_q # <<>>
    BY <1>1, <2>1, <2>2, <2>3, <2>4, <2>6 DEF TurnsOk
  <2> QED
    BY <2>5, <2>6
<1> QED
  BY <1>2, <1>3

\* A control packet put back has not been passed; a retransmission put back is no backlog.
LEMMA SendFailsTurns ==
    ASSUME IInv, SendFails
    PROVE  TurnsOk'
<1> DEFINE e == hand[1].pkt
           lane == hand[1].lane
<1>1. hand # <<>> /\ Requeue(lane, e) /\ tick' = Idle /\ UNCHANGED <<turns, passed>> /\ tick'.pc = "idle"
  BY DEF SendFails, history, Idle
<1>2. InHand(e, lane)
  BY <1>1, HandHas
<1> HIDE DEF e, lane
<1>3. CASE lane # "control"
  <2>1. control_q' = control_q
    BY <1>1, <1>3 DEF Requeue
  <2> QED
    BY <1>1, <2>1, TurnsSame
<1>4. CASE lane = "control" /\ e.flow = Control
  BY <1>1, <1>2, <1>4, NonePassed DEF InHand, IInv, TurnsOk
<1>5. CASE lane = "control" /\ e.flow # Control
  <2>1. control_q' = <<e>> \o control_q
    BY <1>1, <1>5 DEF Requeue
  <2>2. control_q \in Seq(Pkt) /\ Injective(control_q) /\ e \in Pkt /\ e \notin Range(control_q)
    BY <1>2 DEF IInv, QueuesOk, InHand
  <2>3. Range(control_q') = Range(control_q) \union {e} /\ control_q' # <<>>
    BY <2>1, <2>2, PutBack, InSet
  <2>4. Backlog' = Backlog
    BY <1>5, <2>3 DEF Backlog
  <2>5. Half' <=> Half
    BY <2>4 DEF Half
  <2> QED
    BY <1>1, <2>3, <2>5 DEF IInv, TurnsOk
<1> QED
  BY <1>3, <1>4, <1>5

\* Every step keeps the turns right.
LEMMA TurnsKept ==
    ASSUME IInv, Next
    PROVE  TurnsOk'
<1>1. turns \in 0..3 /\ Idle.pc = "idle"
  BY DEF IInv, TurnsOk, Idle
<1>2. CASE Command
  <2>1. tick = Idle /\ tick' = Idle
    BY <1>2 DEF Command, RemovePeer, OnCcSample, EnqueuePeer, TryEnqueuePeerBatch, EnqueueControl,
                EnqueueRetransmit, SetConfig, SetDrrEnabled, SetBackgroundCc, ResetSession
  <2>2. CASE UNCHANGED <<turns, passed, control_q>>
    BY <2>1, <2>2, TurnsSame
  <2>3. CASE passed' = 0 /\ turns' \in {0, 3, turns}
    BY <1>1, <2>1, <2>3, NonePassed
  <2> QED
    BY <1>2, <2>2, <2>3
    DEF Command, RemovePeer, OnCcSample, EnqueuePeer, TryEnqueuePeerBatch, EnqueueControl,
        EnqueueRetransmit, SetConfig, SetDrrEnabled, SetBackgroundCc, ResetSession, lanes, engine, history
<1>3. CASE AnyTick
  <2>1. UNCHANGED <<turns, passed, control_q>> /\ tick'.pc # "scan"
    BY <1>3 DEF AnyTick, TickStart, lanes, history
  <2> QED
    BY <2>1, TurnsSame
<1>4. CASE TickDeadline \/ BurstOver \/ ShedDone \/ PopRetransmit \/ SendOk \/ (\E b \in BOOLEAN : ShedScan(b))
  <2>1. UNCHANGED <<turns, passed, control_q>>
    BY <1>4 DEF TickDeadline, BurstOver, ShedDone, PopRetransmit, SendOk, ShedScan, lanes, engine, history
  <2>2. DOMAIN tick = {"pc", "left", "reserve", "scans", "freeze"}
    BY DEF IInv, TickOk
  <2>3. tick'.pc = "scan" => tick.pc = "scan"
    BY <1>1, <1>4, <2>2 DEF TickDeadline, BurstOver, ShedDone, PopRetransmit, SendOk, ShedScan
  <2> QED
    BY <2>1, <2>3, TurnsSame
<1>5. CASE ReservedRetransmit \/ ReservedControl
  <2>1. DOMAIN tick = {"pc", "left", "reserve", "scans", "freeze"}
    BY DEF IInv, TickOk
  <2>2. turns' = turns /\ tick'.pc # "scan"
    BY <1>5, <2>1 DEF ReservedRetransmit, ReservedControl, TakeReserved, ReservedDone, engine
  <2>3. passed' = 0 \/ UNCHANGED <<passed, control_q>>
    BY <1>5 DEF ReservedRetransmit, ReservedControl, ReservedDone, lanes, history
  <2> QED
    BY <1>1, <2>2, <2>3, TurnsSame, NonePassed
<1>6. CASE ScanOver
  <2>1. CASE control_q # <<>>
    <3>1. passed' = 0 /\ turns' = turns /\ tick'.pc = "burst"
      BY <1>6, <2>1 DEF ScanOver, PopControl, engine, IInv, TickOk
    <3> QED
      BY <1>1, <3>1, NonePassed
  <2>2. CASE control_q = <<>>
    BY <1>1, <1>6, <2>2, TurnsSame DEF ScanOver, engine
  <2> QED
    BY <2>1, <2>2
<1> QED
  BY <1>2, <1>3, <1>4, <1>5, <1>6, InterleavedTurns, ScanTurns, SendFailsTurns DEF Next, TickStep

-----------------------------------------------------------------------------
(* The results.                                                            *)

\* An engine that was just made holds nothing.
LEMMA InitIInv ==
    ASSUME Init
    PROVE  IInv /\ Entries = {}
<1> USE DEF Init
<1>1. Range(<<>>) = {}
  BY DEF Range
<1>2. Entries = {}
  BY <1>1 DEF Entries
<1>3. QueuesOk
  <2>1. <<>> \in Seq(Pkt) /\ Injective(<<>>) /\ ControlRising(<<>>) /\ <<>> \in Seq(Dests)
    BY DEF Injective, ControlRising
  <2>2. DOMAIN queues = {}
    OBVIOUS
  <2>3. PeersOk(order, queues)
    BY <1>1, <2>1, <2>2 DEF PeersOk
  <2> QED
    BY <1>1, <2>1, <2>3, PacingAssumption DEF QueuesOk
<1>4. HandOk
  BY DEF HandOk
<1>5. NumbersOk
  BY <1>2 DEF NumbersOk
<1>6. Counted
  <2>1. BusyOf(order, queues) = {}
    BY <1>1 DEF BusyOf
  <2> QED
    BY <1>2, <2>1, FS_EmptySet DEF Counted
<1>7. TickOk
  BY DEF TickOk, Idle
<1>8. TurnsOk
  <2>1. Backlog = {}
    BY <1>1 DEF Backlog
  <2>2. tick.pc # "scan"
    BY DEF Idle
  <2> QED
    BY <2>2 DEF TurnsOk
<1> QED
  BY <1>2, <1>3, <1>4, <1>5, <1>6, <1>7, <1>8 DEF IInv

\* Nothing happens.
LEMMA StillIInv ==
    ASSUME IInv, UNCHANGED vars
    PROVE  IInv'
<1> USE DEF vars, lanes, peers, engine, history
<1>1. Entries' = Entries
  BY DEF Entries
<1>2. QueuesOk' /\ NumbersOk' /\ TickOk'
  BY <1>1 DEF IInv, QueuesOk, NumbersOk, TickOk, InOrder
<1>3. HandOk'
  <2>1. CASE hand = <<>>
    BY <2>1 DEF HandOk
  <2>2. ASSUME NEW e, NEW lane, InHand(e, lane) PROVE InHand(e, lane)'
    BY <2>2 DEF InHand, IsSmallPacket, FlowOf, Depth, Queued
  <2> QED
    BY <2>1, <2>2 DEF IInv, HandOk
<1>4. Counted'
  BY <1>1 DEF IInv, Counted
<1>5. TurnsOk'
  BY TurnsSame
<1> QED
  BY <1>2, <1>3, <1>4, <1>5 DEF IInv

\* The inductive invariant is kept by every step,
LEMMA NextIInv ==
    ASSUME IInv, [Next]_vars
    PROVE  IInv'
<1>1. CASE Next
  BY <1>1, StepFine, NumbersKept, TickKept, TurnsKept DEF IInv, Fine
<1> QED
  BY <1>1, StillIInv

\* and so it holds always.
LEMMA AlwaysIInv == Spec => []IInv
<1>1. Init => IInv
  BY InitIInv
<1>2. IInv /\ [Next]_vars => IInv'
  BY NextIInv
<1> QED
  BY <1>1, <1>2, PTL DEF Spec

\* queued_packets_total and non_empty_peers equal what the queues hold after every step of
\* the engine, and the limits of the queues are kept, for any number of peers and any limits.
THEOREM CountersAlwaysExact == Spec => []CountersExact
<1>1. IInv => CountersExact
  <2> SUFFICES ASSUME IInv PROVE CountersExact
    OBVIOUS
  <2> USE DEF IInv
  <2>1. Cardinality(Held) = Cardinality(Entries)
    BY FiniteEntries, Numbered DEF NumbersOk, Held
  <2>2. BusyOf(order, queues) = {d \in Range(order) : ~IsEmpty(queues[d])}
    BY DEF BusyOf
  <2>3. Len(retransmit_q) <= RetransmitCap /\ \A d \in Range(order) : Depth(queues[d]) <= DataCap
    BY DEF QueuesOk, PeersOk, LanesOk
  <2> QED
    BY <2>1, <2>2, <2>3 DEF CountersExact, Counted
<1> QED
  BY <1>1, AlwaysIInv, PTL

\* While a control packet waits pop_with_interleave lets at most three data packets pass, and
\* at most one when control packets fill half of their queue, whatever happens in between.
THEOREM ControlAlwaysInterleaved == Spec => []ControlInterleaved
<1>1. IInv => ControlInterleaved
  <2>1. IInv => passed <= (IF Half THEN 1 ELSE 3)
    BY DEF IInv, TurnsOk
  <2> QED
    BY <2>1 DEF ControlInterleaved, Half, Backlog
<1> QED
  BY <1>1, AlwaysIInv, PTL

WaitingOf(E) == {[id |-> e.id, flow |-> e.flow] : e \in E}
Apart(E) == \A e, f \in E : e.id = f.id => e = f

\* Packets with different numbers come and go as their [id, flow] do.
LEMMA GoneWaiting ==
    ASSUME NEW E, NEW F, Apart(E \union F)
    PROVE  {p.id : p \in WaitingOf(E) \ WaitingOf(F)} = {e.id : e \in E \ F}
<1>1. ASSUME NEW p \in WaitingOf(E), p \notin WaitingOf(F) PROVE p.id \in {e.id : e \in E \ F}
  <2>1. PICK e \in E : p = [id |-> e.id, flow |-> e.flow]
    BY DEF WaitingOf
  <2>2. e \notin F
    BY <1>1, <2>1 DEF WaitingOf
  <2> QED
    BY <2>1, <2>2
<1>2. ASSUME NEW e \in E, e \notin F PROVE e.id \in {p.id : p \in WaitingOf(E) \ WaitingOf(F)}
  <2> DEFINE p == [id |-> e.id, flow |-> e.flow]
  <2>1. p \in WaitingOf(E) /\ p.id = e.id
    BY DEF WaitingOf
  <2>2. ASSUME p \in WaitingOf(F) PROVE FALSE
    <3>1. PICK f \in F : p = [id |-> f.id, flow |-> f.flow]
      BY <2>2 DEF WaitingOf
    <3>2. f.id = e.id
      BY <2>1, <3>1
    <3> QED
      BY <1>2, <3>2 DEF Apart
  <2> HIDE DEF p
  <2> QED
    BY <2>1, <2>2
<1> QED
  BY <1>1, <1>2

\* The engine implements Shaper: every enqueue is an Accept, every packet given up a Discard,
\* and what send_packet hands to the socket was held, is sent once, and is the oldest of its
\* flow if the flow is the control packets' or the large packets' of a peer.
THEOREM PacingShapes == Spec => Shapes
<1> DEFINE W == {[id |-> e.id, flow |-> e.flow] : e \in Entries}
           D == (1..accepted) \ (Held \union sent)
<1>1. Init => Shape!SInit
  <2> SUFFICES ASSUME Init PROVE Shape!SInit
    OBVIOUS
  <2>1. Entries = {} /\ accepted = 0 /\ sent = {}
    BY InitIInv DEF Init
  <2> QED
    BY <2>1 DEF Shape!SInit
<1>2. ASSUME IInv, [Next]_vars PROVE [Shape!SNext]_(Shape!svars)
  <2>1. CASE UNCHANGED vars
    BY <2>1 DEF Shape!svars, vars, lanes, peers, history, Entries, Held
  <2>2. CASE Next
    <3>1. (Kept \/ Came \/ Left) /\ NumbersOk /\ NumbersOk'
      BY <1>2, <2>2, StepFine, NumbersKept DEF IInv, Fine
    <3>2. W = WaitingOf(Entries) /\ W' = WaitingOf(Entries')
      BY DEF WaitingOf
    <3>3. Held = {e.id : e \in Entries} /\ Held' = {e.id : e \in Entries'}
      BY DEF Held
    <3>4. CASE Kept
      <4>1. Apart(Entries \union Entries')
        BY <3>1, <3>4 DEF Apart, NumbersOk, Kept
      <4>2. {p.id : p \in W \ W'} = {e.id : e \in Entries \ Entries'}
        BY <3>2, <4>1, GoneWaiting
      <4>3. W' \subseteq W
        BY <3>4 DEF Kept
      <4>4. D' = D \union {e.id : e \in Entries \ Entries'}
        BY <3>1, <3>3, <3>4 DEF Kept, NumbersOk
      <4>5. Shape!Discard
        BY <3>4, <4>2, <4>3, <4>4 DEF Shape!Discard, Shape!GivesUp, Shape!Ids, Kept
      <4> QED
        BY <4>5 DEF Shape!SNext
    <3>5. CASE Came
      <4>1. Apart(Entries \union Entries')
        BY <3>1, <3>5 DEF Apart, NumbersOk, Came
      <4>2. {p.id : p \in W \ W'} = {e.id : e \in Entries \ Entries'}
        BY <3>2, <4>1, GoneWaiting
      <4>3. {p.id : p \in W' \ W} = {e.id : e \in Entries' \ Entries}
        <5>1. Apart(Entries' \union Entries)
          BY <4>1 DEF Apart
        <5> QED
          BY <3>2, <5>1, GoneWaiting
      <4>4. {e.id : e \in Entries' \ Entries} = (accepted + 1)..accepted'
        BY <3>5 DEF Came
      <4>5. D' = D \union {e.id : e \in Entries \ Entries'}
        BY <3>1, <3>3, <3>5, <4>4 DEF Came, NumbersOk
      <4>6. Shape!Accept
        BY <3>5, <4>2, <4>3, <4>4, <4>5 DEF Shape!Accept, Shape!GivesUp, Shape!Ids, Came
      <4> QED
        BY <4>6 DEF Shape!SNext
    <3>6. CASE Left
      <4>1. PICK x \in Entries :
              /\ IsOldest(x) /\ Entries' = Entries \ {x}
              /\ sent' = sent \union {x.id} /\ UNCHANGED accepted
        BY <3>6 DEF Left
      <4> DEFINE p == [id |-> x.id, flow |-> x.flow]
      <4>2. p \in W /\ p.id = x.id /\ p.flow = x.flow
        OBVIOUS
      <4>3. W' = W \ {p}
        BY <3>1, <4>1 DEF NumbersOk
      <4>4. D' = D
        BY <3>1, <3>3, <4>1 DEF NumbersOk
      <4>5. p.flow \in {Control} \union (Dests \X {"bulk"}) => \A q \in W : q.flow = p.flow => p.id <= q.id
        <5> SUFFICES ASSUME p.flow \in {Control} \union (Dests \X {"bulk"}), NEW q \in W, q.flow = p.flow
                     PROVE  p.id <= q.id
          OBVIOUS
        <5>1. PICK y \in Entries : q = [id |-> y.id, flow |-> y.flow]
          OBVIOUS
        <5>2. x.flow \in {Control} \union (Dests \X {"bulk"}) /\ y.flow = x.flow
          BY <5>1
        <5>3. x.id <= y.id
          BY <4>1, <5>2 DEF IsOldest
        <5> QED
          BY <5>1, <5>3
      <4> HIDE DEF p, W, D
      <4>6. Shape!Send(p)
        BY <4>1, <4>2, <4>3, <4>4, <4>5 DEF Shape!Send, Shape!Oldest, W, D
      <4>7. \E q \in W : Shape!Send(q)
        BY <4>2, <4>6
      <4> QED
        BY <4>7 DEF Shape!SNext, W
    <3> QED
      BY <3>1, <3>4, <3>5, <3>6
  <2> QED
    BY <1>2, <2>1, <2>2
<1> QED
  BY <1>1, <1>2, AlwaysIInv, PTL DEF Spec, Shapes, Shape!SSpec
=============================================================================
