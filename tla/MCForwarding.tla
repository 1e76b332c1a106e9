---------------------------- MODULE MCForwarding ----------------------------
EXTENDS Forwarding

Uni(i) == [id |-> i, src |-> 1, dst |-> 3]
Own    == [id |-> 4, src |-> 1, dst |-> 1]
Flood  == [id |-> 1, src |-> 1, dst |-> Bcast]

MCPackets == {Flood, Uni(2), Uni(3), Own}

\* Two packets on one route and one to the node itself; a flood and a packet.
MCLoads == {{Uni(2), Uni(3), Own}, {Flood, Uni(2)}}

Row(n, a, b) == [m \in 1..3 |-> IF m = n THEN "none" ELSE IF m = (n % 3) + 1 THEN a ELSE b]

\* Row(1, a, b): 1 -> 2 is a, 1 -> 3 is b.  Row(2, a, b): 2 -> 3, 2 -> 1.  Row(3, a, b): 3 -> 1, 3 -> 2.
\* All direct; 1 -> 3 weak, stale; 1 and 3 strangers that share the peer 2, and a
\* flood that has to go round by 2.
MCMeshes ==
    {<<Row(1, "direct", a), Row(2, "direct", "direct"), Row(3, a, "direct")>> :
        a \in {"direct", "none"}}
    \cup {<<Row(1, "direct", "weak"), Row(2, "weak", "direct"), Row(3, "direct", "weak")>>,
          <<Row(1, "direct", "stale"), Row(2, "direct", "stale"), Row(3, "direct", "direct")>>}
=============================================================================
