------------------------------- MODULE Daemon -------------------------------
(***************************************************************************)
(* The daemon process and the CLI clients that attach to it: bootstrap,    *)
(* the request loop, session counting, the stop at the end of the last     *)
(* session (daemon.rs, ipc.rs, bootstrap.rs, ui_events.rs, cli_session).   *)
(*                                                                         *)
(* Every task of the daemon runs on one thread, so a step is what a task   *)
(* does between two awaits.  The CLI lock is a blocking mutex that a       *)
(* command keeps across its awaits: a task that asks for it meanwhile      *)
(* blocks the thread, and the daemon is "stuck".                           *)
(***************************************************************************)
EXTENDS Integers, FiniteSets

CONSTANTS
    Clients,      \* terminals, each running one CLI at a time
    MaxOutside,  \* how often a CLI is started or the engine changes its VIP, all in all
    Usize        \* CLIENT_COUNT is a usize: 2^64

VARIABLES
    run,       \* the daemon: "none", "up", "stuck" or "exited"
    d,         \* its state: see Booted
    profile,   \* the config names a unit: has_active_profile
    conn,      \* per client, its connection to the IPC port: see NoConn
    cli,       \* per client, where the program is: [pc, gate, sub]
    outside    \* starts of a CLI and rerolls so far

vars == <<run, d, profile, conn, cli, outside>>

Nobody == "nobody"

\* A usize counts more sessions than there are terminals.
ASSUME DaemonAssumption ==
    /\ IsFiniteSet(Clients) /\ Usize \in Nat /\ Cardinality(Clients) < Usize
    /\ {Nobody, "boot", "identity"} \cap Clients = {}

\* A daemon whose tasks have each run up to their first await: the bootstrap task comes
\* before any connection, and goes on at once when there is no unit to restore.  home are
\* the lines for the first session, mark is SessionReady in what the ring of the UI bus
\* replays; the last four are history: a session has ended, home lines were offered, how
\* often they were taken, and a client that had waited for them found none.
Booted(unit) ==
    [lock |-> IF unit THEN "boot" ELSE Nobody, complete |-> ~unit, home |-> FALSE, mark |-> FALSE,
     count |-> 0, engine |-> TRUE, view |-> FALSE, events |-> 0,
     ended |-> FALSE, offered |-> FALSE, taken |-> 0, missed |-> FALSE]

\* session and accounted are the two flags of the connection's task, cmd the command
\* it is in, req the request it has still to read.
NoConn == [open |-> FALSE, session |-> FALSE, accounted |-> FALSE, cmd |-> "none", req |-> "none"]

Off == [pc |-> "off", gate |-> FALSE, sub |-> "none"]

LockFree == {"has_profile", "snapshot", "take_home"}
Commands == {"line", "create", "remove", "discover", "assist", "view_begin", "view",
             "view_end", "stop"}

Init ==
    /\ run = "none" /\ d = Booted(FALSE) /\ outside = 0
    /\ profile \in BOOLEAN
    /\ conn = [c \in Clients |-> NoConn]
    /\ cli = [c \in Clients |-> Off]

----------------------------------------------------------------------------
(* The daemon's own tasks *)

\* parking_lot's lock(): the thread blocks when another task has it.
Lock(t, then) ==
    IF d.lock = Nobody THEN d' = [then EXCEPT !.lock = t] /\ UNCHANGED run
    ELSE run' = "stuck" /\ UNCHANGED d

Unlocked(x) == [x EXCEPT !.lock = Nobody]

\* SessionReady goes to the ring and to the live subscribers.
GatesOpen == [c \in Clients |-> [cli[c] EXCEPT !.gate = @ \/ cli[c].sub = "live"]]

\* daemon_bootstrap_finalize: a snapshot with the home lines
Finalized(x) == [x EXCEPT !.complete = TRUE, !.home = TRUE, !.offered = TRUE]

\* daemon_bootstrap_before_reconnect returns; the task takes the lock again, finalizes,
\* publishes the snapshot with the home lines and emits SessionReady, without an await.
BootDone ==
    /\ run = "up" /\ d.lock = "boot"
    /\ d' = [Finalized(Unlocked(d)) EXCEPT !.mark = TRUE]
    /\ cli' = GatesOpen
    /\ UNCHANGED <<run, profile, conn, outside>>

\* The engine rerolls and sends an IdentityChanged event.
Reroll ==
    /\ run = "up" /\ profile /\ d.engine /\ outside < MaxOutside
    /\ d' = [d EXCEPT !.events = @ + 1]
    /\ outside' = outside + 1
    /\ UNCHANGED <<run, profile, conn, cli>>

\* The identity task: apply_identity_changed recreates the adapter.
ApplyIdentity ==
    /\ run = "up" /\ d.events > 0 /\ d.lock # "identity"
    /\ Lock("identity", [d EXCEPT !.events = @ - 1])
    /\ UNCHANGED <<profile, conn, cli, outside>>

IdentityApplied ==
    /\ run = "up" /\ d.lock = "identity"
    /\ d' = [d EXCEPT !.lock = Nobody]
    /\ UNCHANGED <<run, profile, conn, cli, outside>>

----------------------------------------------------------------------------
(* The UI event server, one task per subscriber *)

\* replay(256), sent before the subscription: a mark that comes in between is missed.
UiReplay(c) ==
    /\ run = "up" /\ cli[c].sub = "asked"
    /\ cli' = [cli EXCEPT ![c].sub = "replayed", ![c].gate = @ \/ d.mark]
    /\ UNCHANGED <<run, d, profile, conn, outside>>

UiSubscribe(c) ==
    /\ run = "up" /\ cli[c].sub = "replayed"
    /\ cli' = [cli EXCEPT ![c].sub = "live"]
    /\ UNCHANGED <<run, d, profile, conn, outside>>

\* So many lines follow that a replay no longer reaches the mark.
RingScrolls ==
    /\ run = "up" /\ d.mark
    /\ d' = [d EXCEPT !.mark = FALSE]
    /\ UNCHANGED <<run, profile, conn, cli, outside>>

----------------------------------------------------------------------------
(* run_ipc_server and handle_ipc *)

\* The first request that is not a Ping makes the connection a session.
Session(c) == [conn[c] EXCEPT !.session = TRUE]

Counted(c) == IF conn[c].session THEN d ELSE [d EXCEPT !.count = (@ + 1) % Usize]

YesNo(b) == IF b THEN "yes" ELSE "no"

\* What cli_session does with an answer, <<at, answer, next place, request sent there>>.
\* With a profile it opens the session; without, its first line is an empty one.
Opening ==
    {<<"asking", "yes", "waiting", "none">>, <<"asking", "no", "busy", "line">>,
     <<"polling", "yes", "grace", "none">>,  <<"polling", "no", "waiting", "none">>}

\* [1] and [2] are refused while there is a profile.
Setup == {<<"setup", "yes", "prompt", "none">>, <<"setup", "no", "busy", "create">>}

\* lan discovers, then asks for assistance unless the user gives up.
Lan == {<<"lan", "yes", "prompt", "none">>, <<"lan", "no", "prompt", "none">>,
        <<"lan", "yes", "busy", "assist">>}

\* runtime begins a view, draws it until Enter and ends it.
View == {<<"viewing", "no", "prompt", "none">>, <<"viewing", "yes", "drawing", "view">>}
        \cup {<<"drawing", a, "drawing", "view">> : a \in {"yes", "no"}}
        \cup {<<"drawing", a, "busy", "view_end">> : a \in {"yes", "no"}}

Prompt == {<<pc, a, "prompt", "none">> : pc \in {"taking", "late", "busy"}, a \in {"yes", "no"}}

Reactions == Opening \cup Setup \cup Lan \cup View \cup Prompt

\* The UI stream is of no more consequence once the prompt is shown.
Opened(k, pc) == CASE pc = "prompt"  -> [Off EXCEPT !.pc = "prompt"]
                   [] pc = "waiting" -> [k EXCEPT !.pc = pc, !.sub = IF @ = "none" THEN "asked" ELSE @]
                   [] OTHER          -> [k EXCEPT !.pc = pc]

\* The answer is written, and the client goes on if it is still there.
Reply(c, k, a) ==
    IF ~k.open
    THEN conn' = [conn EXCEPT ![c] = [k EXCEPT !.cmd = "none", !.req = "none"]] /\ UNCHANGED cli
    ELSE \E r \in Reactions :
            /\ r[1] = cli[c].pc /\ r[2] = YesNo(a)
            /\ conn' = [conn EXCEPT ![c] = [k EXCEPT !.cmd = "none", !.req = r[4]]]
            /\ cli' = [cli EXCEPT ![c] = Opened(@, r[3])]

\* What TakeSessionHome records: a client whose deadline came first has not waited.
Noted(c, x) == [x EXCEPT !.taken = IF d.home THEN @ + 1 ELSE @,
                         !.missed = @ \/ (~d.home /\ cli[c].pc = "taking")]

Answered(c) == CASE conn[c].req = "has_profile" -> profile
                 [] conn[c].req = "snapshot"    -> d.complete
                 [] conn[c].req = "take_home"   -> d.home

\* A mutation: the home lines are read and left in place.
QueryCopies(c) ==
    /\ run = "up" /\ conn[c].cmd = "none" /\ conn[c].req \in LockFree
    /\ Reply(c, Session(c), Answered(c))
    /\ d' = IF conn[c].req = "take_home" THEN Noted(c, Counted(c)) ELSE Counted(c)
    /\ UNCHANGED <<run, profile, outside>>

\* A request that is answered without the lock.  TakeSessionHome takes the lines out.
Query(c) ==
    /\ run = "up" /\ conn[c].cmd = "none" /\ conn[c].req \in LockFree
    /\ Reply(c, Session(c), Answered(c))
    /\ d' = IF conn[c].req = "take_home" THEN [Noted(c, Counted(c)) EXCEPT !.home = FALSE]
            ELSE Counted(c)
    /\ UNCHANGED <<run, profile, outside>>

\* A command asks for the lock and keeps it until it is done.
Command(c) ==
    /\ run = "up" /\ conn[c].cmd = "none" /\ conn[c].req \in Commands
    /\ Lock(c, Counted(c))
    /\ conn' = [conn EXCEPT ![c] = [Session(c) EXCEPT !.cmd = conn[c].req, !.req = "none"]]
    /\ UNCHANGED <<profile, cli, outside>>

\* A command returns: its answer goes out and the lock is free.
Done(c, cmds, ok, x) ==
    /\ run = "up" /\ conn[c].cmd \in cmds
    /\ Reply(c, conn[c], ok)
    /\ d' = Unlocked(x)
    /\ UNCHANGED <<run, outside>>

LineDone(c) == /\ \E ok \in BOOLEAN : Done(c, {"line", "discover", "assist", "view"}, ok, d)
               /\ UNCHANGED profile

\* create and join
CreateDone(c) == \E ok \in BOOLEAN : Done(c, {"create"}, ok, d) /\ profile' = (profile \/ ok)

\* remove leaves the daemon idle.
RemoveDone(c) == \E ok \in BOOLEAN : Done(c, {"remove"}, ok, d) /\ profile' = (profile /\ ~ok)

ViewBegun(c) == /\ \E ok \in BOOLEAN : Done(c, {"view_begin"}, ok, [d EXCEPT !.view = @ \/ ok])
                /\ UNCHANGED profile

ViewEnded(c) == /\ \E ok \in BOOLEAN : Done(c, {"view_end"}, ok, [d EXCEPT !.view = @ /\ ~ok])
                /\ UNCHANGED profile

\* Everything the process holds goes with it; the clients' reads fail.
Exit ==
    /\ run' = "exited" /\ d' = Booted(FALSE)
    /\ conn' = [c \in Clients |-> NoConn]

\* handle_exit shuts the engine down; the process ends once the answer is written.
\* When the client is gone the write may fail, and the loop is left before the exit.
StopDone(c) ==
    /\ run = "up" /\ conn[c].cmd = "stop"
    /\ \/ Exit
       \/ /\ ~conn[c].open
          /\ d' = [Unlocked(d) EXCEPT !.engine = FALSE]
          /\ conn' = [conn EXCEPT ![c].cmd = "none"]
          /\ UNCHANGED run
    /\ UNCHANGED <<profile, cli, outside>>

\* on_client_disconnected: fetch_sub
Left(n) == (n - 1) % Usize

\* ClientDisconnect, and the exit when it was the last one of an idle daemon.
\* x is the daemon, k the connections to go on with.
Disconnected(x, k) ==
    IF d.lock # Nobody THEN run' = "stuck" /\ UNCHANGED <<d, conn>>
    ELSE IF x.count # 0 /\ Left(x.count) = 0 /\ ~profile THEN Exit
    ELSE d' = [x EXCEPT !.count = Left(@), !.view = FALSE, !.ended = TRUE]
         /\ conn' = k /\ UNCHANGED run

\* The client says goodbye.
Goodbye(c) ==
    /\ run = "up" /\ conn[c].cmd = "none" /\ conn[c].req = "disconnect"
    /\ Disconnected(Counted(c),
                    [conn EXCEPT ![c] = [Session(c) EXCEPT !.accounted = TRUE, !.req = "none"]])
    /\ UNCHANGED <<profile, cli, outside>>

\* A mutation: the end of the connection counts whatever the client has said.
HangupAlways(c) ==
    /\ run = "up" /\ ~conn[c].open /\ conn[c].session /\ conn[c].cmd = "none" /\ conn[c].req = "none"
    /\ Disconnected(d, [conn EXCEPT ![c] = NoConn])
    /\ UNCHANGED <<profile, cli, outside>>

\* The connection's task reads the end of a connection that is still accounted for.
Hangup(c) ==
    /\ run = "up" /\ ~conn[c].open /\ conn[c].session /\ conn[c].cmd = "none" /\ conn[c].req = "none"
    /\ IF conn[c].accounted
       THEN conn' = [conn EXCEPT ![c] = NoConn] /\ UNCHANGED <<run, d>>
       ELSE Disconnected(d, [conn EXCEPT ![c] = NoConn])
    /\ UNCHANGED <<profile, cli, outside>>

----------------------------------------------------------------------------
(* The CLI program.  Nothing it does matters to a daemon that is stuck. *)

Ask(c, r) == conn' = [conn EXCEPT ![c].req = r]
At(c, pc) == cli' = [cli EXCEPT ![c].pc = pc]

\* cli_session::run: ensure_daemon_running probes with a Ping, which makes no session, and
\* spawns a daemon when nobody answers; then the client connects and asks for a profile.
\* A stuck daemon never answers the probe.
Launch(c) ==
    /\ cli[c].pc = "off" /\ conn[c] = NoConn
    /\ run # "stuck" /\ outside < MaxOutside
    /\ outside' = outside + 1
    /\ run' = "up"
    /\ d' = IF run = "up" THEN d ELSE Booted(profile)
    /\ conn' = [conn EXCEPT ![c] = [NoConn EXCEPT !.open = TRUE, !.req = "has_profile"]]
    /\ cli' = [cli EXCEPT ![c] = [Off EXCEPT !.pc = "asking"]]
    /\ UNCHANGED profile

\* A mutation: the grace after a complete snapshot has no end.
WaitForMark(c) ==
    /\ run # "stuck" /\ conn[c].open
    /\ \/ cli[c].pc = "waiting" /\ cli[c].gate /\ Ask(c, "take_home") /\ At(c, "taking")
       \/ cli[c].pc = "waiting" /\ ~cli[c].gate /\ Ask(c, "snapshot") /\ At(c, "polling")
       \/ cli[c].pc = "grace" /\ cli[c].gate /\ Ask(c, "take_home") /\ At(c, "taking")
    /\ UNCHANGED <<run, d, profile, outside>>

\* wait_for_session_open: SessionReady, a complete snapshot and a grace for SessionReady,
\* or the deadline.
Wait(c) ==
    /\ run # "stuck" /\ conn[c].open
    /\ \/ cli[c].pc = "waiting" /\ cli[c].gate /\ Ask(c, "take_home") /\ At(c, "taking")
       \/ cli[c].pc = "waiting" /\ ~cli[c].gate /\ Ask(c, "snapshot") /\ At(c, "polling")
       \/ cli[c].pc = "grace" /\ Ask(c, "take_home") /\ At(c, "taking")
    /\ UNCHANGED <<run, d, profile, outside>>

Deadline(c) ==
    /\ run # "stuck" /\ conn[c].open /\ cli[c].pc = "waiting" /\ Ask(c, "take_home") /\ At(c, "late")
    /\ UNCHANGED <<run, d, profile, outside>>

\* The user's line: a command for the daemon, or the first request of a dialogue.
\* (disconnect: standard input fails.)
Enter(c) ==
    /\ run # "stuck" /\ cli[c].pc = "prompt" /\ conn[c].open
    /\ \/ \E r \in {"line", "remove"} : Ask(c, r) /\ At(c, "busy")
       \/ Ask(c, "has_profile") /\ At(c, "setup")
       \/ Ask(c, "discover") /\ At(c, "lan")
       \/ Ask(c, "view_begin") /\ At(c, "viewing")
       \/ Ask(c, "stop") /\ At(c, "stopping")
       \/ Ask(c, "disconnect") /\ At(c, "leaving")
    /\ UNCHANGED <<run, d, profile, outside>>

\* The program ends: after stop or goodbye, because its terminal is closed, or with the
\* error of a connection that is gone.  A request it has sent may still arrive.
End(c) ==
    /\ run # "stuck" /\ cli[c].pc # "off"
    /\ \E r \in {conn[c].req, "none"} :
         conn' = [conn EXCEPT ![c] = IF @.session \/ r # "none"
                                     THEN [@ EXCEPT !.open = FALSE, !.req = r] ELSE NoConn]
    /\ cli' = [cli EXCEPT ![c] = Off]
    /\ UNCHANGED <<run, d, profile, outside>>

\* Every call fails once the daemon has gone: the program gives up or the user does.
Lost(c) == ~conn[c].open /\ End(c)

----------------------------------------------------------------------------

Daemon(c) == \/ UiReplay(c) \/ UiSubscribe(c)
             \/ Query(c) \/ Command(c) \/ LineDone(c) \/ CreateDone(c) \/ RemoveDone(c)
             \/ ViewBegun(c) \/ ViewEnded(c) \/ StopDone(c) \/ Goodbye(c) \/ Hangup(c)

Program(c) == Wait(c) \/ Lost(c)

Next == \/ BootDone \/ Reroll \/ ApplyIdentity \/ IdentityApplied \/ RingScrolls
        \/ \E c \in Clients : \/ Daemon(c) \/ Program(c)
                              \/ Launch(c) \/ Deadline(c) \/ Enter(c) \/ End(c)

\* The runtime polls every task that is ready, and commands end (each wait for the engine
\* or the system has a time limit); the client's program goes on.  Nothing is assumed of
\* the user, of the deadline or of the engine's rerolls.
Spec == Init /\ [][Next]_vars
        /\ WF_vars(BootDone) /\ WF_vars(IdentityApplied)
        /\ \A c \in Clients : WF_vars(Daemon(c)) /\ WF_vars(Program(c))

----------------------------------------------------------------------------
(* Properties *)

\* CLIENT_COUNT is the number of sessions whose end has not been accounted for: a goodbye
\* and the end of its connection count once, a probe never.  So an idle daemon does not
\* outlive its last session ("When idle (no create/join profile), exit after the last real
\* CLI session ends.", profile.rs), nor does a runtime view outlive the sessions.
SessionsCounted ==
    run = "up" =>
        /\ d.count = Cardinality({c \in Clients : conn[c].session /\ ~conn[c].accounted})
        /\ ~profile /\ d.ended => d.count > 0
        /\ d.view => d.count > 0

\* The home lines of a bootstrap are shown once ("consumed once via TakeSessionHome so CLI
\* re-attach stays quiet", bootstrap.rs), and a client that waited for the session to open
\* finds none only when another client had them ("TakeSessionHome cannot race empty",
\* daemon.rs), although it can miss SessionReady between the replay and the subscription.
HomeOnce ==
    run = "up" => /\ d.taken <= 1
                  /\ d.offered /\ d.missed => d.taken = 1

\* A client that reaches the daemon gets to its prompt, whether or not SessionReady reaches
\* it, unless a task of the daemon blocks the thread.
PromptReached ==
    \A c \in Clients :
        cli[c].pc = "asking" ~> cli[c].pc \in {"prompt", "off"} \/ run = "stuck"
=============================================================================
