------------------------------ MODULE Reliable ------------------------------
(***************************************************************************)
(* ReliableChannel (net/reliable.rs): packets awaiting an ack, and the     *)
(* heap of due times from which entries are removed lazily, as a record    *)
(*                                                                         *)
(*   ch = [pending |-> [some seqs -> packet], heap |-> {<<time, seq>>}]    *)
(*                                                                         *)
(* Times are relative to now.  The round trip estimate is left out: an RTO *)
(* is any value between the bounds the code clamps it to.                  *)
(***************************************************************************)
EXTENDS Integers, FiniteSets, Functions

CONSTANTS
    Seqs,        \* sequence numbers
    MaxPending,  \* max_pending
    Retries,     \* retries_left of a new packet
    RtoMin, RtoMax,
    Host         \* the IP address of an endpoint

Rtos == RtoMin..RtoMax

EmptyChannel == [pending |-> [q \in {} |-> 0], heap |-> {}]

Waiting(ch) == DOMAIN ch.pending

\* An entry of the heap that still stands for its packet
Valid(ch) == {h \in ch.heap : h[2] \in Waiting(ch) /\ ch.pending[h[2]].at = h[1]}

Earlier(g, h) == g[1] < h[1] \/ (g[1] = h[1] /\ g[2] < h[2])

\* pop_stale_due_heap_top: stale entries go as long as one is at the top.
PopStale(ch) ==
    [ch EXCEPT !.heap = {h \in @ : h \in Valid(ch) \/ \E g \in Valid(ch) : Earlier(g, h)}]

\* rebuild_due_heap_from_pending
Rebuilt(ch) == [ch EXCEPT !.heap = {<<ch.pending[q].at, q>> : q \in Waiting(ch)}]

Full(ch) == Cardinality(Waiting(ch)) >= MaxPending

\* send, when the channel is not full; q is next_seq, which no packet has had.
Send(ch, q, dest, rto) ==
    LET packet == [dest |-> dest, at |-> rto, rto |-> rto, retries |-> Retries, sent |-> FALSE]
    IN  PopStale([pending |-> [x \in Waiting(ch) \cup {q} |->
                                 IF x = q THEN packet ELSE ch.pending[x]],
                  heap |-> ch.heap \cup {<<rto, q>>}])

\* A mutation: the deadline moves and the heap is not told.
MarkSentQuietly(ch, q, late) ==
    IF q \notin Waiting(ch) \/ ch.pending[q].sent THEN ch
    ELSE PopStale([ch EXCEPT !.pending[q].sent = TRUE, !.pending[q].at = late + ch.pending[q].rto])

\* mark_sent: the deadline counts from the time of the send, which came late.
MarkSent(ch, q, late) ==
    LET at == late + ch.pending[q].rto
    IN  IF q \notin Waiting(ch) \/ ch.pending[q].sent THEN ch
        ELSE PopStale([ch EXCEPT !.pending[q].sent = TRUE, !.pending[q].at = at,
                                 !.heap = @ \cup {<<at, q>>}])

\* on_ack: from the packet's destination, or from its host
OnAck(ch, q, from) ==
    IF q \in Waiting(ch) /\ Host[from] = Host[ch.pending[q].dest]
    THEN PopStale([ch EXCEPT !.pending = Restrict(@, Waiting(ch) \ {q})])
    ELSE ch

MigrateDest(ch, old, new) ==
    PopStale([ch EXCEPT !.pending = [q \in Waiting(ch) |->
                IF @[q].dest = old THEN [@[q] EXCEPT !.dest = new] ELSE @[q]]])

FlushDest(ch, dest) ==
    Rebuilt([ch EXCEPT !.pending = Restrict(@, {q \in Waiting(ch) : @[q].dest # dest})])

\* One unit of time
Later(ch) == [pending |-> [q \in Waiting(ch) |-> [ch.pending[q] EXCEPT !.at = @ - 1]],
              heap |-> {<<h[1] - 1, h[2]>> : h \in ch.heap}]

\* tick_into takes every entry that is due off the heap; one that stands for its packet
\* fails it when no retry is left and sends it again otherwise.  A heap without a valid
\* entry is rebuilt first.
TickBase(ch) == IF Valid(ch) = {} THEN Rebuilt(ch) ELSE ch
DueNow(base) == {h[2] : h \in {g \in Valid(base) : g[1] <= 0}}
Failures(ch, due) == {q \in due : ch.pending[q].retries = 0}

Doubled(rto) ==
    IF 2 * rto > RtoMax THEN RtoMax ELSE IF 2 * rto < RtoMin THEN RtoMin ELSE 2 * rto

\* A mutation: a retransmission does not use up a retry.
BackoffForever(p) == [p EXCEPT !.rto = Doubled(@), !.at = Doubled(p.rto)]

Backoff(p) == [p EXCEPT !.retries = @ - 1, !.rto = Doubled(@), !.at = Doubled(p.rto)]

Retried(ch, due) ==
    [q \in Waiting(ch) \ Failures(ch, due) |->
        IF q \in due THEN Backoff(ch.pending[q]) ELSE ch.pending[q]]

TickLoop(base, due, packets) ==
    [pending |-> packets,
     heap |-> {g \in base.heap : g[1] > 0} \cup {<<packets[q].at, q>> : q \in due \cap DOMAIN packets}]

TickInto(base, due, next) ==
    \E packets \in {Retried(base, due)} : \E ch \in {TickLoop(base, due, packets)} :
        next = IF Waiting(base) = {} THEN EmptyChannel ELSE PopStale(ch)
=============================================================================
