---------------------------- MODULE MCDiscovery ----------------------------
(* Instances of Discovery for TLC.                                         *)
EXTENDS Discovery

TwoRooms == {"a", "b"}
OneMember == [r \in {"a", "b"} |-> {<<r, 2>>}]
Me == <<"me", 1>>
MeOnly == {Me}
AloneOrNot == [r \in {"a", "b"} |-> {<<>>, <<<<r, 2>>>>}]
Schemes == [u |-> "udp", v |-> "udp", h |-> "http"]
Hosts == [u |-> <<"U">>, v |-> <<"V">>]
OtherUdp == <<"v">>

\* Found a unit, leave it and join or found another; join and bring in a LAN
\* member; join by address and punch; join another unit without leaving the first.
Commands ==
    {[urls |-> <<"h">>, ops |-> << <<"create", "a">>, <<"remove", "a">>, <<"join", "b">> >>],
     [urls |-> <<"u">>, ops |-> << <<"create", "a">>, <<"remove", "a">>, <<"create", "b">> >>],
     [urls |-> <<"u">>, ops |-> << <<"join", "a">>, <<"assist", "a">> >>],
     [urls |-> <<"u">>, ops |-> << <<"manual", "a">>, <<"punch", "a">> >>],
     [urls |-> <<"u">>, ops |-> << <<"create", "a">>, <<"manual", "b">> >>]}
============================================================================
