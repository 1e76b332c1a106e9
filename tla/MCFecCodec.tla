----------------------------- MODULE MCFecCodec -----------------------------
(***************************************************************************)
(* FecCodec on a small instance: a ladder of two rungs, few packets, and   *)
(* bounds on repeated shards, removals, settings and pongs.                *)
(***************************************************************************)
EXTENDS FecCodec

CONSTANTS MaxPackets, MaxEvents

VARIABLE events

mcvars == <<vars, events>>

SmallLadder == <<<<2, 2>>, <<3, 1>>>>
SmallSteps == <<20, 50>>
SmallForced == {<<2, 1>>}

Rare ==
    \/ RemovePeer \/ DropDecoder
    \/ \E f \in BOOLEAN : FlushAll(f) \/ \E r \in Forced \union {Unset} : SetFecConfig(r, f)
    \/ \E l \in Losses : HandlePong(l)
    \/ \E s \in net : Receive(s, TRUE)

Common ==
    \/ accepted < MaxPackets /\ Pushes
    \/ Tick \/ TimePasses \/ EvictExpired
    \/ \E s \in net : Lose(s) \/ Receive(s, FALSE)

MCInit == Init /\ events = 0

MCNext ==
    \/ Common /\ UNCHANGED events
    \/ Rare /\ events < MaxEvents /\ events' = events + 1

\* The pacing ticks go on, and each asks for the groups that are due.
MCSpec == MCInit /\ [][MCNext]_mcvars /\ WF_mcvars(Tick /\ UNCHANGED events)

\* A packet gathered into a group does not wait for packets that never come: the ticks flush
\* the group of a sender gone idle, also one of a single packet.
GroupLeaves == \A p \in 1..MaxPackets : p \in Pending ~> p \notin Pending
=============================================================================
