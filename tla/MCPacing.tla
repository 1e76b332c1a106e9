------------------------------ MODULE MCPacing ------------------------------
(***************************************************************************)
(* Pacing on a small instance: bounds on the packets offered and on the    *)
(* commands that change settings or remove peers.                          *)
(***************************************************************************)
EXTENDS Pacing

CONSTANTS MaxPackets, MaxCommands, ControlLen, d1, d2

VARIABLE commands

mcvars == <<vars, commands>>

Modes == {[drr |-> TRUE, priority |-> TRUE, shed |-> TRUE, cc |-> FALSE, ctrl |-> 1],
          [drr |-> FALSE, priority |-> FALSE, shed |-> FALSE, cc |-> TRUE, ctrl |-> 0]}

\* Batches of a FEC group have packets of one length; one peer gets large packets only.
Offers == {<<d1, 1>>, <<d1, 2>>, <<d2, 2>>}

Offer ==
    /\ accepted < MaxPackets
    /\ \/ \E o \in Offers : EnqueuePeer(o[1], o[2])
       \/ \E o \in Offers :
            accepted + 1 < MaxPackets /\ TryEnqueuePeerBatch(o[1], o[2], o[2])
       \/ EnqueueControl(ControlLen) \/ EnqueueRetransmit(ControlLen)

Setting ==
    \/ \E d \in Dests : RemovePeer(d) \/ OnCcSample(d)
    \/ \E cfg \in Configs : SetConfig(cfg)
    \/ SetDrrEnabled(~config.drr) \/ SetBackgroundCc(~config.cc)
    \/ ResetSession

\* A tick that finds nothing queued only moves budget, cursor and turns.
BusyTick == total > 0 /\ AnyTick
Quiet == total = 0 /\ tick = Idle /\ UNCHANGED vars

MCInit == Init /\ commands = 0

MCNext ==
    \/ (Offer \/ BusyTick \/ Quiet \/ TickStep) /\ UNCHANGED commands
    \/ Setting /\ commands < MaxCommands /\ commands' = commands + 1

MCSpec == MCInit /\ [][MCNext]_mcvars
=============================================================================
