--------------------------- MODULE MCClaimGossip ---------------------------
(***************************************************************************)
(* ClaimGossip on small instances: bounds on epochs, on packets in flight, *)
(* on process exits, on the traffic the network lets through and, where    *)
(* MaxSent # Unmetered, on packets ever sent.                              *)
(***************************************************************************)
EXTENDS ClaimGossip

CONSTANTS MaxEpoch, MaxMsgs, MaxStops, MaxSent,
          Stoppers,    \* nodes that may leave or exit
          Traffic      \* <<kind, from, to>> of the packets that are not all lost

VARIABLES stops, sent

Unmetered == 0

NoBeacons == {"MPJN", "MPJA", "MCLG", "MLEA"} \X NodeIds \X NodeIds
AllTraffic == {"MPJN", "MPJA", "MCLG", "MLEA", "HPCH", "KPAL"} \X NodeIds \X NodeIds

SameVip == [n \in NodeIds |-> 1]

FirstAndLast == [n \in NodeIds |-> IF n = 2 THEN 2 ELSE 1]

\* Nodes that start to leave or exit without a leave.
Stopping == {n \in NodeIds : phase[n] \in {"joining", "acked", "member", "stuck"}
                                /\ phase'[n] \in {"leaving", "down"}}

WithinBounds ==
    /\ Cardinality(net') <= MaxMsgs
    /\ \A m \in net' : <<m.kind, m.from, m.to>> \in Traffic
    /\ \A n \in NodeIds : st'[n].epoch <= MaxEpoch
    /\ stops' = stops + Cardinality(Stopping)
    /\ stops' <= MaxStops /\ Stopping \subseteq Stoppers
    /\ MaxStops = 0 => disk' = disk  \* nobody will read the disk
    /\ sent' = IF MaxSent = Unmetered THEN sent ELSE sent + Cardinality(net' \ net)
    /\ sent' <= MaxSent

MCInit == Init /\ stops = 0 /\ sent = 0
MCNext == Next /\ WithinBounds

mcvars == <<vars, stops, sent>>

MCSpec == MCInit /\ [][MCNext]_mcvars

\* The engine's loop gets to a presence tick that finds the retry due.
RetrySpec ==
    MCSpec /\ \A n \in NodeIds : WF_mcvars(PresenceTick(n, TRUE) /\ WithinBounds)

\* A running node that lost its VIP while the pool was exhausted rerolls once a
\* VIP is free and stays free: try_local_vip_reroll is retried until it succeeds.
RerollRecovers ==
    \A n \in NodeIds :
        []<>(\/ ~Up(n)
             \/ ~LosesFight(n, st[n])
             \/ Vips \subseteq OccupiedVips(st[n])
             \/ st[n].epoch = MaxEpoch)
=============================================================================
