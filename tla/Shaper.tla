------------------------------- MODULE Shaper -------------------------------
(***************************************************************************)
(* What the pacing engine promises to those who hand it packets: it keeps  *)
(* each one until it sends or discards it, sends none twice or after       *)
(* discarding it, and keeps the order of the flows that have one.          *)
(* Packets are numbered as they come.                                      *)
(***************************************************************************)
EXTENDS Naturals

CONSTANT Ordered      \* the flows whose packets leave in the order they came

VARIABLES accepted,   \* how many packets have come
          waiting,    \* the packets [id, flow] that are held
          sent,       \* the numbers of the packets handed to the socket
          discarded   \* the numbers of the packets given up

svars == <<accepted, waiting, sent, discarded>>

Ids(packets) == {p.id : p \in packets}

SInit == accepted = 0 /\ waiting = {} /\ sent = {} /\ discarded = {}

GivesUp(gone) == discarded' = discarded \union Ids(gone)

\* New packets come in; older ones may have to make room.
Accept ==
    /\ accepted' > accepted
    /\ Ids(waiting' \ waiting) = accepted + 1 .. accepted'
    /\ GivesUp(waiting \ waiting')
    /\ UNCHANGED sent

Oldest(p) == \A q \in waiting : q.flow = p.flow => p.id <= q.id

Send(p) ==
    /\ sent' = sent \union {p.id}
    /\ p.flow \in Ordered => Oldest(p)
    /\ waiting' = waiting \ {p}
    /\ UNCHANGED <<accepted, discarded>>

Discard ==
    /\ UNCHANGED <<accepted, sent>>
    /\ waiting' \subseteq waiting
    /\ GivesUp(waiting \ waiting')

SNext == Accept \/ (\E p \in waiting : Send(p)) \/ Discard

SSpec == SInit /\ [][SNext]_svars
=============================================================================
