------------------------------ MODULE MCPmtud ------------------------------
(***************************************************************************)
(* Pmtud on small instances: bounds on the endpoints that search, on the   *)
(* packets in flight and on the commands of the user.                      *)
(***************************************************************************)
EXTENDS Pmtud

CONSTANTS MaxInFlight, MaxCommands,
          Searchers    \* endpoints whose deadlines pass; the others stay new

VARIABLE commands

OneHost == [p \in Endpoints |-> "host"]
HostPath == [h \in {"host"} |-> 4]

WithinBounds ==
    /\ \A p \in DOMAIN peers' : peers'[p].due => p \in Searchers
    /\ Cardinality(net') <= MaxInFlight

mcvars == <<vars, commands>>

MCInit == Init /\ commands = 0

MCNext ==
    \/ EngineStep /\ WithinBounds /\ UNCHANGED commands
    \/ UserCommand /\ commands < MaxCommands /\ commands' = commands + 1

MCSpec == MCInit /\ [][MCNext]_mcvars

\* The engine's PMTUD interval fires, and deadlines pass.
LoopSpec ==
    /\ MCSpec
    /\ WF_mcvars(AnyTick /\ WithinBounds /\ UNCHANGED commands)
    /\ \A p \in Endpoints : WF_mcvars(Expire(p) /\ WithinBounds /\ UNCHANGED commands)
=============================================================================
