----------------------------- MODULE MCDataPath -----------------------------
(***************************************************************************)
(* DataPath on a small instance: few packets, a bounded number of handlers *)
(* that wait, and of such handlers and clock ticks together.               *)
(***************************************************************************)
EXTENDS DataPath

CONSTANTS MaxPackets, MaxCommands, MaxEvents

VARIABLES commands, ticks

mcvars == <<vars, commands, ticks>>

\* The first shard size and configuration are as good as any other.
MCInit == Init /\ engine.shard = 1 /\ pacing.config = 1 /\ commands = 0 /\ ticks = 0

Sends == accepted < MaxPackets /\ \E d \in Dests, coded \in BOOLEAN : FecSend(d, coded)

MCNext ==
    \/ (Sends \/ FecEvent \/ TickDone \/ EngineStep \/ Worker \/ Pacer) /\ UNCHANGED <<commands, ticks>>
    \/ commands < MaxCommands /\ commands + ticks < MaxEvents /\ Commands /\ commands' = commands + 1 /\ UNCHANGED ticks
    \/ commands + ticks < MaxEvents /\ ClockTicks /\ ticks' = ticks + 1 /\ UNCHANGED commands

\* Each thread goes on while it can.
MCSpec ==
    /\ MCInit /\ [][MCNext]_mcvars
    /\ WF_mcvars(EngineStep /\ UNCHANGED <<commands, ticks>>)
    /\ WF_mcvars(Worker /\ UNCHANGED <<commands, ticks>>)
    /\ WF_mcvars(Pacer /\ UNCHANGED <<commands, ticks>>)
=============================================================================
