----------------------------- MODULE MCGenesis -----------------------------
(* A join by invite, with a record of what it knew when it stopped waiting. *)
EXTENDS MCDiscovery

VARIABLE knew   \* the tracker had returned peers when the CLI asked for the count

OneJoin == {[urls |-> <<"h">>, ops |-> << <<"join", "a">> >>]}

GenesisInit == Init /\ knew = FALSE
GenesisNext ==
    /\ Next
    /\ knew' = IF cli.pc # "count" /\ cli'.pc = "count" THEN d.found # <<>> ELSE knew
GenesisSpec == GenesisInit /\ [][GenesisNext]_<<vars, knew>>

\* A join ends as genesis only when the tracker's discovered set was empty at
\* the join deadline (handle_join_decentralized; SPEC.md on joining).
GenesisOnlyAlone == [][cli.pc = "count" /\ cli'.pc = "idle" /\ knew => cli'.home = cli.home]_<<vars, knew>>
============================================================================
