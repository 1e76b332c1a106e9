---------------------------- MODULE DaemonProofs ----------------------------
(***************************************************************************)
(* Proofs about Daemon, for any number of terminals and any sequence of    *)
(* sessions: what CLIENT_COUNT counts, and that the home lines of a        *)
(* bootstrap are shown once.                                               *)
(***************************************************************************)
EXTENDS Daemon, FiniteSetTheorems, TLAPS

IsDaemon(x) ==
    /\ DOMAIN x = {"lock", "complete", "home", "mark", "count", "engine", "view", "events",
                   "ended", "offered", "taken", "missed"}
    /\ x.complete \in BOOLEAN /\ x.home \in BOOLEAN /\ x.mark \in BOOLEAN /\ x.view \in BOOLEAN
    /\ x.ended \in BOOLEAN /\ x.offered \in BOOLEAN /\ x.missed \in BOOLEAN
    /\ x.count \in Nat /\ x.taken \in Nat

\* The bootstrap task has the lock until it is complete; it then offers the home
\* lines, which are there until one client takes them.
HomeOk(x) ==
    /\ x.lock = "boot" <=> ~x.complete
    /\ x.mark => x.complete
    /\ ~x.complete => ~x.offered /\ ~x.missed
    /\ ~x.offered => ~x.home /\ x.taken = 0
    /\ x.home => x.taken = 0 /\ ~x.missed
    /\ x.offered /\ ~x.home => x.taken = 1

\* Connection k and program p of one client.
ClientOk(k, p, complete) ==
    /\ DOMAIN k = {"open", "session", "accounted", "cmd", "req"}
    /\ DOMAIN p = {"pc", "gate", "sub"}
    /\ k.open \in BOOLEAN /\ k.session \in BOOLEAN /\ k.accounted \in BOOLEAN /\ p.gate \in BOOLEAN
    /\ k.cmd # "none" => k.session
    /\ k.accounted => k.session /\ k.req = "none" /\ k.cmd = "none"
    /\ k.open /\ (k.accounted \/ k.req = "disconnect") => p.pc = "leaving"
    /\ p.pc # "off" /\ ~k.open => k = NoConn
    /\ k.open /\ (p.gate \/ p.pc \in {"grace", "taking"}) => complete
    /\ k.open /\ p.pc = "polling" => k.req = "snapshot" /\ k.cmd = "none"
    /\ k.open /\ p.pc \in {"waiting", "grace", "prompt"} => k.req = "none" /\ k.cmd = "none"

Sessions(cn) == {c \in Clients : cn[c].session /\ ~cn[c].accounted}

\* The count, with what keeps an idle daemon and a view from outliving it.
CountOk(x, cn, unit) ==
    /\ x.count = Cardinality(Sessions(cn))
    /\ ~unit /\ x.ended => x.count > 0
    /\ x.view => x.count > 0

\* The inductive invariant.  A daemon that is stuck stays so.
IInv ==
    /\ profile \in BOOLEAN
    /\ run # "stuck" =>
         /\ IsDaemon(d) /\ HomeOk(d) /\ CountOk(d, conn, profile)
         /\ DOMAIN conn = Clients /\ DOMAIN cli = Clients
         /\ \A c \in Clients : ClientOk(conn[c], cli[c], d.complete)
         /\ \A c \in Clients : conn[c].cmd # "none" => d.lock = c
         /\ run # "up" => \A c \in Clients : conn[c] = NoConn

----------------------------------------------------------------------------
\* Sessions as a finite set.
LEMMA SessionsFinite ==
  ASSUME NEW cn
  PROVE  /\ IsFiniteSet(Sessions(cn)) /\ Cardinality(Sessions(cn)) \in Nat
         /\ Cardinality(Sessions(cn)) < Usize /\ Usize \in Nat
<1>1. Sessions(cn) \subseteq Clients
  BY DEF Sessions
<1>2. IsFiniteSet(Sessions(cn)) /\ Cardinality(Sessions(cn)) <= Cardinality(Clients)
  BY <1>1, FS_Subset, DaemonAssumption
<1>3. Cardinality(Sessions(cn)) \in Nat /\ Cardinality(Clients) \in Nat
  BY <1>2, FS_CardinalityType, DaemonAssumption
<1> QED BY <1>2, <1>3, DaemonAssumption

\* A session that begins, ends, or neither.
LEMMA SessionBegins ==
  ASSUME NEW cn, NEW b, NEW c \in Clients, Sessions(b) = Sessions(cn) \cup {c}, c \notin Sessions(cn)
  PROVE  Cardinality(Sessions(b)) = Cardinality(Sessions(cn)) + 1
BY SessionsFinite, FS_AddElement

LEMMA SessionEnds ==
  ASSUME NEW cn, NEW b, NEW c \in Sessions(cn), Sessions(b) = Sessions(cn) \ {c}
  PROVE  /\ Cardinality(Sessions(b)) = Cardinality(Sessions(cn)) - 1
         /\ Cardinality(Sessions(cn)) > 0
<1>1. Cardinality(Sessions(b)) = Cardinality(Sessions(cn)) - 1
  BY SessionsFinite, FS_RemoveElement
<1>2. Cardinality(Sessions(b)) \in Nat /\ Cardinality(Sessions(cn)) \in Nat
  BY SessionsFinite
<1> QED BY <1>1, <1>2

LEMMA SomeSession ==
  ASSUME NEW cn, NEW c \in Sessions(cn)
  PROVE  Cardinality(Sessions(cn)) > 0
<1>1. Cardinality(Sessions(cn)) \in Nat /\ Cardinality(Sessions(cn)) # 0
  BY SessionsFinite, FS_EmptySet
<1> QED BY <1>1

----------------------------------------------------------------------------
\* Client c and its connection move, and no other.
Only(c) ==
    /\ DOMAIN conn' = Clients /\ DOMAIN cli' = Clients
    /\ \A b \in Clients \ {c} : conn'[b] = conn[b] /\ cli'[b] = cli[b]

LEMMA ClientInv ==
  ASSUME IInv, run # "stuck", NEW c \in Clients, Only(c), profile' \in BOOLEAN,
         IsDaemon(d'), HomeOk(d'), CountOk(d', conn', profile'), d'.complete = d.complete,
         ClientOk(conn'[c], cli'[c], d.complete), conn'[c].cmd # "none" => d'.lock = c,
         \A b \in Clients \ {c} : conn[b].cmd # "none" => d'.lock = b,
         run' = "up"
  PROVE  IInv'
<1>1. \A b \in Clients : ClientOk(conn'[b], cli'[b], d'.complete)
  BY DEF IInv, Only
<1>2. \A b \in Clients : conn'[b].cmd # "none" => d'.lock = b
  BY DEF Only
<1> QED BY <1>1, <1>2 DEF IInv, Only

\* The daemon's state changes, but neither its sessions nor its bootstrap.
LEMMA DaemonInv ==
  ASSUME IInv, run = "up", UNCHANGED <<run, profile, conn, cli>>,
         IsDaemon(d'), HomeOk(d'), d'.complete = d.complete,
         d'.count = d.count, d'.view = d.view, d'.ended = d.ended,
         \A c \in Clients : conn[c].cmd # "none" => d'.lock = c
  PROVE  IInv'
BY DEF IInv, CountOk

LEMMA StuckInv ==
  ASSUME IInv, run' = "stuck", profile' \in BOOLEAN
  PROVE  IInv'
BY DEF IInv

LEMMA BootedOk ==
  ASSUME NEW unit \in BOOLEAN
  PROVE  IsDaemon(Booted(unit)) /\ HomeOk(Booted(unit))
BY DEF Booted, IsDaemon, HomeOk, Nobody

\* A client without a connection.
LEMMA NoConnOk ==
  ASSUME NEW k, NEW p, NEW complete, ClientOk(k, p, complete), NEW now
  PROVE  ClientOk(NoConn, p, now)
BY DEF ClientOk, NoConn

LEMMA NoSessions ==
  ASSUME NEW cn, \A c \in Clients : ~cn[c].session
  PROVE  Sessions(cn) = {} /\ Cardinality(Sessions(cn)) = 0
<1>1. Sessions(cn) = {}
  BY DEF Sessions
<1> QED BY <1>1, FS_EmptySet

LEMMA ExitInv ==
  ASSUME IInv, run = "up", Exit, UNCHANGED <<profile, cli>>
  PROVE  IInv'
<1>1. IsDaemon(d') /\ HomeOk(d')
  BY BootedOk DEF Exit
<1>2. DOMAIN conn' = Clients /\ \A c \in Clients : conn'[c] = NoConn
  BY DEF Exit
<1>3. Cardinality(Sessions(conn')) = 0
  BY <1>2, NoSessions DEF NoConn
<1>4. CountOk(d', conn', profile')
  BY <1>3 DEF CountOk, Exit, Booted
<1>5. \A c \in Clients : ClientOk(conn'[c], cli'[c], d'.complete)
  BY <1>2, NoConnOk DEF IInv
<1>6. \A c \in Clients : conn'[c].cmd = "none"
  BY <1>2 DEF NoConn
<1> QED BY <1>1, <1>2, <1>4, <1>5, <1>6 DEF IInv, Exit

----------------------------------------------------------------------------
\* The daemon's own tasks.
LEMMA BootDoneInv ==
  ASSUME IInv, BootDone
  PROVE  IInv'
<1>1. /\ run = "up" /\ d.lock = "boot" /\ IsDaemon(d) /\ HomeOk(d)
      /\ d' = [Finalized(Unlocked(d)) EXCEPT !.mark = TRUE]
  BY DEF IInv, BootDone
<1>2. /\ DOMAIN d' = DOMAIN d /\ d'.lock = Nobody /\ d'.complete = TRUE /\ d'.home = TRUE
      /\ d'.offered = TRUE /\ d'.mark = TRUE /\ d'.count = d.count /\ d'.view = d.view
      /\ d'.ended = d.ended /\ d'.taken = d.taken /\ d'.missed = d.missed
  BY <1>1 DEF Finalized, Unlocked, IsDaemon
<1>3. IsDaemon(d') /\ HomeOk(d')
  BY <1>1, <1>2 DEF IsDaemon, HomeOk, Nobody
<1>4. ASSUME NEW c \in Clients PROVE ClientOk(conn'[c], cli'[c], d'.complete)
  <2>1. /\ conn'[c] = conn[c] /\ DOMAIN cli'[c] = {"pc", "gate", "sub"}
        /\ cli'[c].pc = cli[c].pc /\ cli'[c].gate \in BOOLEAN
    BY <1>1 DEF BootDone, GatesOpen, IInv, ClientOk
  <2> QED BY <1>1, <1>2, <2>1 DEF IInv, ClientOk
<1>5. ASSUME NEW c \in Clients PROVE conn[c].cmd = "none"
  BY <1>1, DaemonAssumption DEF IInv
<1> QED BY <1>1, <1>2, <1>3, <1>4, <1>5 DEF IInv, BootDone, CountOk, GatesOpen

LEMMA IdentityInv ==
  ASSUME IInv, Reroll \/ ApplyIdentity \/ IdentityApplied \/ RingScrolls
  PROVE  IInv'
<1>1. run = "up" /\ IsDaemon(d) /\ HomeOk(d) /\ UNCHANGED <<profile, conn, cli>>
  BY DEF IInv, Reroll, ApplyIdentity, IdentityApplied, RingScrolls
<1>2. CASE Reroll
  <2>1. \E e : d' = [d EXCEPT !.events = e]
    BY <1>2 DEF Reroll
  <2>2. IsDaemon(d') /\ HomeOk(d')
    BY <1>1, <2>1 DEF IsDaemon, HomeOk
  <2>3. d'.complete = d.complete /\ d'.count = d.count /\ d'.view = d.view /\ d'.ended = d.ended
        /\ d'.lock = d.lock
    BY <1>1, <2>1 DEF IsDaemon
  <2> QED BY <1>1, <1>2, <2>2, <2>3, DaemonInv DEF Reroll, IInv
<1>3. CASE ApplyIdentity
  <2>1. CASE d.lock = Nobody
    <3>1. PICK e : d' = [[d EXCEPT !.events = e] EXCEPT !.lock = "identity"] /\ UNCHANGED run
      BY <1>3, <2>1 DEF ApplyIdentity, Lock
    <3>2. /\ d'.complete = d.complete /\ d'.count = d.count /\ d'.view = d.view
          /\ d'.ended = d.ended /\ d'.lock = "identity" /\ DOMAIN d' = DOMAIN d
          /\ d'.home = d.home /\ d'.mark = d.mark /\ d'.offered = d.offered
          /\ d'.taken = d.taken /\ d'.missed = d.missed
      BY <1>1, <3>1 DEF IsDaemon
    <3>3. IsDaemon(d') /\ HomeOk(d')
      BY <1>1, <2>1, <3>2 DEF IsDaemon, HomeOk, Nobody
    <3>4. \A c \in Clients : conn[c].cmd = "none"
      BY <1>1, <2>1, DaemonAssumption DEF IInv, Nobody
    <3> QED BY <1>1, <3>1, <3>2, <3>3, <3>4, DaemonInv
  <2>2. CASE d.lock # Nobody
    BY <1>1, <1>3, <2>2, StuckInv DEF ApplyIdentity, Lock, IInv
  <2> QED BY <2>1, <2>2
<1>4. CASE IdentityApplied
  <2>1. d' = [d EXCEPT !.lock = Nobody] /\ d.lock = "identity" /\ UNCHANGED run
    BY <1>4 DEF IdentityApplied
  <2>2. /\ d'.complete = d.complete /\ d'.count = d.count /\ d'.view = d.view
        /\ d'.ended = d.ended /\ d'.lock = Nobody /\ DOMAIN d' = DOMAIN d
        /\ d'.home = d.home /\ d'.mark = d.mark /\ d'.offered = d.offered
        /\ d'.taken = d.taken /\ d'.missed = d.missed
    BY <1>1, <2>1 DEF IsDaemon
  <2>3. IsDaemon(d') /\ HomeOk(d')
    BY <1>1, <2>1, <2>2 DEF IsDaemon, HomeOk, Nobody
  <2>4. \A c \in Clients : conn[c].cmd = "none"
    BY <1>1, <2>1, DaemonAssumption DEF IInv
  <2> QED BY <1>1, <2>1, <2>2, <2>3, <2>4, DaemonInv
<1>5. CASE RingScrolls
  <2>1. d' = [d EXCEPT !.mark = FALSE] /\ UNCHANGED run
    BY <1>5 DEF RingScrolls
  <2>2. IsDaemon(d') /\ HomeOk(d')
    BY <1>1, <2>1 DEF IsDaemon, HomeOk
  <2>3. d'.complete = d.complete /\ d'.count = d.count /\ d'.view = d.view /\ d'.ended = d.ended
        /\ d'.lock = d.lock
    BY <1>1, <2>1 DEF IsDaemon
  <2> QED BY <1>1, <2>1, <2>2, <2>3, DaemonInv DEF IInv
<1> QED BY <1>2, <1>3, <1>4, <1>5

\* The UI event server: a replayed mark is that of a complete bootstrap.
LEMMA UiInv ==
  ASSUME IInv, NEW c \in Clients, UiReplay(c) \/ UiSubscribe(c)
  PROVE  IInv'
<1>1. run = "up" /\ UNCHANGED <<run, d, profile, conn>>
  BY DEF UiReplay, UiSubscribe
<1>2. /\ IsDaemon(d) /\ HomeOk(d) /\ CountOk(d, conn, profile)
      /\ ClientOk(conn[c], cli[c], d.complete) /\ c \in DOMAIN cli
  BY <1>1 DEF IInv
<1>3. Only(c) /\ DOMAIN cli'[c] = DOMAIN cli[c] /\ cli'[c].pc = cli[c].pc
      /\ cli'[c].gate \in {cli[c].gate, cli[c].gate \/ d.mark}
  BY <1>1, <1>2 DEF UiReplay, UiSubscribe, Only, IInv, ClientOk
<1>4. ClientOk(conn'[c], cli'[c], d.complete)
  BY <1>1, <1>2, <1>3 DEF ClientOk, HomeOk, IsDaemon
<1> QED BY <1>1, <1>2, <1>3, <1>4, ClientInv DEF IInv

----------------------------------------------------------------------------
\* Requests.

\* Where an answer takes the program.
LEMMA ReactionFacts ==
  \A r \in Reactions :
    /\ r[3] \in {"waiting", "busy", "grace", "prompt", "drawing"}
    /\ r[3] = "grace" => r[1] = "polling" /\ r[2] = "yes"
    /\ r[4] # "disconnect"
    /\ r[3] \in {"waiting", "grace", "prompt"} => r[4] = "none"
BY DEF Reactions, Opening, Setup, Lan, View, Prompt

\* The answer a to a request that was pending or in the works.
LEMMA ReplyStep ==
  ASSUME IInv, run = "up", NEW c \in Clients, NEW k, NEW a \in BOOLEAN, Reply(c, k, a),
         conn[c].cmd # "none" \/ conn[c].req # "none",
         DOMAIN k = DOMAIN conn[c], k.open = conn[c].open, k.session = TRUE,
         k.accounted = conn[c].accounted,
         cli[c].pc = "polling" /\ conn[c].open /\ a => d.complete
  PROVE  /\ Only(c) /\ ClientOk(conn'[c], cli'[c], d.complete)
         /\ conn'[c].session = TRUE /\ conn'[c].accounted = FALSE /\ conn[c].accounted = FALSE
         /\ conn'[c].cmd = "none"
<1>1. /\ ClientOk(conn[c], cli[c], d.complete) /\ DOMAIN conn = Clients /\ DOMAIN cli = Clients
      /\ d.complete \in BOOLEAN
  BY DEF IInv, IsDaemon
<1>2. conn[c].accounted = FALSE
  BY <1>1 DEF ClientOk
<1>3. CASE ~k.open
  <2>1. conn' = [conn EXCEPT ![c] = [k EXCEPT !.cmd = "none", !.req = "none"]] /\ UNCHANGED cli
    BY <1>3 DEF Reply
  <2>2. /\ conn'[c].cmd = "none" /\ conn'[c].req = "none" /\ conn'[c].session = TRUE
        /\ conn'[c].accounted = FALSE /\ conn'[c].open = FALSE
        /\ DOMAIN conn'[c] = {"open", "session", "accounted", "cmd", "req"}
    BY <1>1, <1>2, <1>3, <2>1 DEF ClientOk
  <2>3. cli[c].pc = "off"
    BY <1>1, <1>3 DEF ClientOk, NoConn
  <2>4. Only(c) /\ cli'[c] = cli[c]
    BY <1>1, <2>1 DEF Only
  <2>5. ClientOk(conn'[c], cli'[c], d.complete)
    BY <1>1, <2>2, <2>3, <2>4 DEF ClientOk
  <2> QED BY <1>2, <2>2, <2>4, <2>5
<1>4. CASE k.open
  <2>1. PICK r \in Reactions :
          /\ r[1] = cli[c].pc /\ r[2] = YesNo(a)
          /\ conn' = [conn EXCEPT ![c] = [k EXCEPT !.cmd = "none", !.req = r[4]]]
          /\ cli' = [cli EXCEPT ![c] = Opened(@, r[3])]
    BY <1>4 DEF Reply
  <2>2. /\ conn'[c].cmd = "none" /\ conn'[c].session = TRUE /\ conn'[c].req = r[4]
        /\ conn'[c].accounted = FALSE /\ conn'[c].open = TRUE
        /\ DOMAIN conn'[c] = {"open", "session", "accounted", "cmd", "req"}
    BY <1>1, <1>2, <1>4, <2>1 DEF ClientOk
  <2>3. Only(c) /\ cli'[c] = Opened(cli[c], r[3])
    BY <1>1, <2>1 DEF Only
  <2>4. /\ DOMAIN cli'[c] = {"pc", "gate", "sub"} /\ cli'[c].pc = r[3]
        /\ cli'[c].gate \in {FALSE, cli[c].gate}
    BY <1>1, <2>3 DEF Opened, Off, ClientOk
  <2>5. r[3] = "grace" => d.complete
    BY <1>4, <2>1, ReactionFacts DEF YesNo
  <2>6. /\ r[3] \in {"waiting", "busy", "grace", "prompt", "drawing"} /\ r[4] # "disconnect"
        /\ r[3] \in {"waiting", "grace", "prompt"} => r[4] = "none"
    BY <2>1, ReactionFacts
  <2>7. ClientOk(conn'[c], cli'[c], d.complete)
    BY <1>1, <1>4, <2>2, <2>4, <2>5, <2>6 DEF ClientOk
  <2> QED BY <1>2, <2>2, <2>3, <2>7
<1> QED BY <1>1, <1>3, <1>4 DEF ClientOk

\* The first request of a connection is counted.
LEMMA CountedStep ==
  ASSUME IInv, run = "up", NEW c \in Clients, conn[c].accounted = FALSE,
         NEW cn, \A b \in Clients \ {c} : cn[b] = conn[b],
         cn[c].session = TRUE, cn[c].accounted = FALSE
  PROVE  /\ IsDaemon(Counted(c)) /\ HomeOk(Counted(c)) /\ CountOk(Counted(c), cn, profile)
         /\ Counted(c).complete = d.complete /\ Counted(c).lock = d.lock
         /\ Counted(c).home = d.home
         /\ Counted(c).count > 0
<1>1. IsDaemon(d) /\ HomeOk(d) /\ CountOk(d, conn, profile)
  BY DEF IInv
<1>2. c \in Sessions(cn) /\ Cardinality(Sessions(cn)) > 0
  BY SomeSession DEF Sessions
<1>3. CASE conn[c].session
  <2>1. Sessions(cn) = Sessions(conn)
    BY <1>3 DEF Sessions
  <2>2. Counted(c) = d
    BY <1>3 DEF Counted
  <2> QED BY <1>1, <1>2, <2>1, <2>2 DEF CountOk
<1>4. CASE ~conn[c].session
  <2>1. Sessions(cn) = Sessions(conn) \cup {c} /\ c \notin Sessions(conn)
    BY <1>4 DEF Sessions
  <2>2. Cardinality(Sessions(cn)) = d.count + 1
    BY <1>1, <2>1, SessionBegins DEF CountOk
  <2>3. d.count + 1 < Usize /\ d.count + 1 \in Nat /\ Usize \in Nat
    BY <1>1, <2>2, SessionsFinite DEF IsDaemon
  <2>4. (d.count + 1) % Usize = d.count + 1
    BY <2>3
  <2>5. Counted(c) = [d EXCEPT !.count = d.count + 1]
    BY <1>4, <2>4 DEF Counted
  <2>6. IsDaemon(Counted(c)) /\ HomeOk(Counted(c))
    BY <1>1, <2>3, <2>5 DEF IsDaemon, HomeOk
  <2>7. /\ Counted(c).count = d.count + 1 /\ Counted(c).complete = d.complete
        /\ Counted(c).lock = d.lock /\ Counted(c).home = d.home
    BY <1>1, <2>5 DEF IsDaemon
  <2> QED BY <1>2, <2>2, <2>6, <2>7 DEF CountOk
<1> QED BY <1>3, <1>4

\* TakeSessionHome: the lines go to one client, and a client that has waited for a
\* complete bootstrap misses them only after that.
LEMMA TakeHomeStep ==
  ASSUME IInv, run = "up", NEW c \in Clients, NEW x, IsDaemon(x), HomeOk(x), x.home = d.home,
         cli[c].pc = "taking" => x.complete
  PROVE  LET y == [Noted(c, x) EXCEPT !.home = FALSE] IN
         /\ IsDaemon(y) /\ HomeOk(y) /\ y.complete = x.complete /\ y.lock = x.lock
         /\ y.count = x.count /\ y.view = x.view /\ y.ended = x.ended
<1> DEFINE taken == IF d.home THEN x.taken + 1 ELSE x.taken
           missed == x.missed \/ (~d.home /\ cli[c].pc = "taking")
           y == [Noted(c, x) EXCEPT !.home = FALSE]
<1>1. y = [x EXCEPT !.taken = taken, !.missed = missed, !.home = FALSE]
  BY DEF Noted, IsDaemon
<1>2. /\ taken \in Nat /\ missed \in BOOLEAN
      /\ x.home => taken = x.taken + 1
      /\ ~x.home => taken = x.taken
      /\ missed => x.missed \/ x.complete
  BY DEF IsDaemon
<1> HIDE DEF taken, missed
<1>3. /\ DOMAIN y = DOMAIN x /\ y.taken = taken /\ y.missed = missed /\ y.home = FALSE
      /\ y.complete = x.complete /\ y.lock = x.lock /\ y.count = x.count /\ y.view = x.view
      /\ y.ended = x.ended /\ y.offered = x.offered /\ y.mark = x.mark
  BY <1>1 DEF IsDaemon
<1> HIDE DEF y
<1>4. IsDaemon(y)
  BY <1>2, <1>3 DEF IsDaemon
<1>5. HomeOk(y)
  BY <1>2, <1>3 DEF HomeOk, IsDaemon
<1> QED BY <1>3, <1>4, <1>5 DEF y

LEMMA QueryInv ==
  ASSUME IInv, NEW c \in Clients, Query(c)
  PROVE  IInv'
<1> DEFINE k == Session(c)
           a == Answered(c)
           x == Counted(c)
<1>1. /\ run = "up" /\ conn[c].cmd = "none" /\ conn[c].req \in LockFree
      /\ Reply(c, k, a) /\ UNCHANGED <<run, profile, outside>>
  BY DEF Query
<1>2. ClientOk(conn[c], cli[c], d.complete) /\ IsDaemon(d) /\ profile \in BOOLEAN
  BY <1>1 DEF IInv
<1>3. DOMAIN k = DOMAIN conn[c] /\ k.open = conn[c].open /\ k.session = TRUE
      /\ k.accounted = conn[c].accounted
  BY <1>2 DEF Session, ClientOk
<1>4. a \in BOOLEAN /\ (conn[c].req = "snapshot" => a = d.complete) /\ conn[c].req # "none"
  BY <1>1, <1>2 DEF Answered, LockFree, IsDaemon
<1>5. cli[c].pc = "polling" /\ conn[c].open => conn[c].req = "snapshot"
  BY <1>2 DEF ClientOk
<1> HIDE DEF k, a
<1>6. /\ Only(c) /\ ClientOk(conn'[c], cli'[c], d.complete)
      /\ conn'[c].session = TRUE /\ conn'[c].accounted = FALSE /\ conn[c].accounted = FALSE
      /\ conn'[c].cmd = "none"
  BY <1>1, <1>3, <1>4, <1>5, ReplyStep
<1>7. /\ IsDaemon(x) /\ HomeOk(x) /\ CountOk(x, conn', profile)
      /\ x.complete = d.complete /\ x.lock = d.lock /\ x.home = d.home
  BY <1>1, <1>6, CountedStep DEF Only
<1>8. cli[c].pc = "taking" => d.complete
  BY <1>2, <1>4 DEF ClientOk, NoConn
<1>9. d' = x \/ d' = [Noted(c, x) EXCEPT !.home = FALSE]
  BY DEF Query
<1> HIDE DEF x
<1>10. /\ IsDaemon(d') /\ HomeOk(d') /\ CountOk(d', conn', profile)
       /\ d'.complete = d.complete /\ d'.lock = d.lock
  <2>1. CASE d' = x
    BY <1>7, <2>1
  <2>2. CASE d' = [Noted(c, x) EXCEPT !.home = FALSE]
    <3>1. /\ IsDaemon(d') /\ HomeOk(d') /\ d'.complete = x.complete /\ d'.lock = x.lock
          /\ d'.count = x.count /\ d'.view = x.view /\ d'.ended = x.ended
      BY <1>1, <1>7, <1>8, <2>2, TakeHomeStep
    <3> QED BY <1>7, <3>1 DEF CountOk
  <2> QED BY <1>9, <2>1, <2>2
<1> QED BY <1>1, <1>2, <1>6, <1>10, ClientInv DEF IInv

LEMMA CommandInv ==
  ASSUME IInv, NEW c \in Clients, Command(c)
  PROVE  IInv'
<1> DEFINE x == Counted(c)
<1>1. /\ run = "up" /\ conn[c].cmd = "none" /\ conn[c].req \in Commands /\ Lock(c, x)
      /\ conn' = [conn EXCEPT ![c] = [Session(c) EXCEPT !.cmd = conn[c].req, !.req = "none"]]
      /\ UNCHANGED <<profile, cli, outside>>
  BY DEF Command
<1>2. CASE d.lock # Nobody
  BY <1>1, <1>2, StuckInv DEF Lock, IInv
<1>3. CASE d.lock = Nobody
  <2>1. d' = [x EXCEPT !.lock = c] /\ UNCHANGED run
    BY <1>1, <1>3 DEF Lock
  <2>2. ClientOk(conn[c], cli[c], d.complete) /\ conn[c].req # "none" /\ conn[c].req # "snapshot"
    BY <1>1 DEF IInv, Commands
  <2>3. conn[c].accounted = FALSE
    BY <2>2 DEF ClientOk
  <2>4. /\ DOMAIN conn'[c] = {"open", "session", "accounted", "cmd", "req"}
        /\ conn'[c].open = conn[c].open /\ conn'[c].session = TRUE
        /\ conn'[c].accounted = FALSE /\ conn'[c].req = "none"
    BY <1>1, <2>2, <2>3 DEF Session, ClientOk, IInv
  <2>5. Only(c) /\ cli'[c] = cli[c]
    BY <1>1 DEF Only, IInv
  <2>6. ClientOk(conn'[c], cli'[c], d.complete)
    <3>1. conn[c] # NoConn
      BY <2>2 DEF NoConn
    <3>2. (cli[c].pc # "off" => conn[c].open) /\ (conn[c].open => cli[c].pc # "polling")
      BY <2>2, <3>1 DEF ClientOk
    <3> QED BY <2>2, <2>4, <2>5, <3>2 DEF ClientOk
  <2>7. /\ IsDaemon(x) /\ HomeOk(x) /\ CountOk(x, conn', profile)
        /\ x.complete = d.complete /\ x.lock = d.lock
    BY <1>1, <2>3, <2>4, <2>5, CountedStep DEF Only
  <2> HIDE DEF x
  <2>8. /\ DOMAIN d' = DOMAIN x /\ d'.lock = c /\ d'.complete = x.complete /\ d'.home = x.home
        /\ d'.mark = x.mark /\ d'.count = x.count /\ d'.view = x.view /\ d'.ended = x.ended
        /\ d'.offered = x.offered /\ d'.taken = x.taken /\ d'.missed = x.missed
    BY <2>1, <2>7 DEF IsDaemon
  <2>9. IsDaemon(d')
    BY <2>7, <2>8 DEF IsDaemon
  <2>10. HomeOk(d') /\ CountOk(d', conn', profile)
    BY <1>3, <2>7, <2>8, DaemonAssumption DEF HomeOk, CountOk, Nobody
  <2>11. \A b \in Clients \ {c} : conn[b].cmd = "none"
    BY <1>1, <1>3, DaemonAssumption DEF IInv, Nobody
  <2> QED BY <1>1, <2>1, <2>5, <2>6, <2>7, <2>8, <2>9, <2>10, <2>11, ClientInv DEF IInv
<1> QED BY <1>2, <1>3

\* A command that returns was in the lock, and its session is still counted.
LEMMA CommandHolds ==
  ASSUME IInv, run = "up", NEW c \in Clients, conn[c].cmd # "none"
  PROVE  /\ d.lock = c /\ d.complete /\ conn[c].session /\ ~conn[c].accounted
         /\ \A b \in Clients \ {c} : conn[b].cmd = "none"
         /\ d.count > 0
<1>1. d.lock = c /\ ClientOk(conn[c], cli[c], d.complete) /\ HomeOk(d) /\ CountOk(d, conn, profile)
  BY DEF IInv
<1>2. conn[c].session /\ ~conn[c].accounted
  BY <1>1 DEF ClientOk
<1>3. c \in Sessions(conn)
  BY <1>2 DEF Sessions
<1> QED BY <1>1, <1>2, <1>3, SomeSession, DaemonAssumption DEF IInv, HomeOk, CountOk

LEMMA DoneInv ==
  ASSUME IInv, NEW c \in Clients, NEW cmds, "none" \notin cmds, NEW ok \in BOOLEAN,
         NEW x, Done(c, cmds, ok, x), IsDaemon(x), HomeOk(x), x.lock = d.lock,
         x.count = d.count, x.ended = d.ended, x.complete = d.complete, profile' \in BOOLEAN
  PROVE  IInv'
<1>1. run = "up" /\ conn[c].cmd # "none" /\ Reply(c, conn[c], ok) /\ d' = Unlocked(x)
      /\ UNCHANGED run
  BY DEF Done
<1>2. /\ d.lock = c /\ d.complete /\ conn[c].session /\ ~conn[c].accounted
      /\ \A b \in Clients \ {c} : conn[b].cmd = "none"
      /\ d.count > 0
  BY <1>1, CommandHolds
<1>3. ClientOk(conn[c], cli[c], d.complete) /\ CountOk(d, conn, profile)
  BY <1>1 DEF IInv
<1>4. conn[c].session = TRUE
  BY <1>2, <1>3 DEF ClientOk
<1>5. /\ Only(c) /\ ClientOk(conn'[c], cli'[c], d.complete)
      /\ conn'[c].session = TRUE /\ conn'[c].accounted = FALSE /\ conn[c].accounted = FALSE
      /\ conn'[c].cmd = "none"
  BY <1>1, <1>2, <1>4, ReplyStep
<1>6. Sessions(conn') = Sessions(conn)
  BY <1>4, <1>5 DEF Sessions, Only
<1>7. /\ DOMAIN d' = DOMAIN x /\ d'.lock = Nobody /\ d'.complete = x.complete /\ d'.home = x.home
      /\ d'.mark = x.mark /\ d'.count = x.count /\ d'.view = x.view /\ d'.ended = x.ended
      /\ d'.offered = x.offered /\ d'.taken = x.taken /\ d'.missed = x.missed
  BY <1>1 DEF IsDaemon, Unlocked
<1>8. IsDaemon(d')
  BY <1>7 DEF IsDaemon
<1>9. HomeOk(d') /\ CountOk(d', conn', profile')
  BY <1>2, <1>3, <1>6, <1>7 DEF HomeOk, CountOk, Nobody
<1> QED BY <1>1, <1>2, <1>5, <1>7, <1>8, <1>9, ClientInv

LEMMA DoneInvs ==
  ASSUME IInv, NEW c \in Clients,
         LineDone(c) \/ CreateDone(c) \/ RemoveDone(c) \/ ViewBegun(c) \/ ViewEnded(c)
  PROVE  IInv'
<1>1. run = "up" /\ profile \in BOOLEAN
  BY DEF LineDone, CreateDone, RemoveDone, ViewBegun, ViewEnded, Done, IInv
<1>2. IsDaemon(d) /\ HomeOk(d)
  BY <1>1 DEF IInv
<1>3. CASE LineDone(c)
  BY <1>1, <1>2, <1>3, DoneInv DEF LineDone
<1>4. CASE CreateDone(c)
  BY <1>1, <1>2, <1>4, DoneInv DEF CreateDone
<1>5. CASE RemoveDone(c)
  BY <1>1, <1>2, <1>5, DoneInv DEF RemoveDone
<1>6. ASSUME NEW v \in BOOLEAN
      PROVE  LET x == [d EXCEPT !.view = v] IN
             /\ IsDaemon(x) /\ HomeOk(x) /\ x.lock = d.lock /\ x.count = d.count
             /\ x.ended = d.ended /\ x.complete = d.complete
  BY <1>2 DEF IsDaemon, HomeOk
<1>7. CASE ViewBegun(c)
  <2>1. PICK ok \in BOOLEAN : Done(c, {"view_begin"}, ok, [d EXCEPT !.view = d.view \/ ok])
    BY <1>7 DEF ViewBegun
  <2> QED BY <1>1, <1>6, <1>7, <2>1, DoneInv DEF ViewBegun
<1>8. CASE ViewEnded(c)
  <2>1. PICK ok \in BOOLEAN : Done(c, {"view_end"}, ok, [d EXCEPT !.view = d.view /\ ~ok])
    BY <1>8 DEF ViewEnded
  <2> QED BY <1>1, <1>6, <1>8, <2>1, DoneInv DEF ViewEnded
<1> QED BY <1>3, <1>4, <1>5, <1>7, <1>8

LEMMA StopDoneInv ==
  ASSUME IInv, NEW c \in Clients, StopDone(c)
  PROVE  IInv'
<1>1. run = "up" /\ conn[c].cmd # "none" /\ UNCHANGED <<profile, cli, outside>>
  BY DEF StopDone
<1>2. CASE Exit
  BY <1>1, <1>2, ExitInv
<1>3. CASE /\ ~conn[c].open
           /\ d' = [Unlocked(d) EXCEPT !.engine = FALSE]
           /\ conn' = [conn EXCEPT ![c].cmd = "none"]
           /\ UNCHANGED run
  <2>1. /\ d.lock = c /\ d.complete /\ conn[c].session /\ ~conn[c].accounted
        /\ \A b \in Clients \ {c} : conn[b].cmd = "none"
    BY <1>1, CommandHolds
  <2>2. /\ ClientOk(conn[c], cli[c], d.complete) /\ CountOk(d, conn, profile)
        /\ IsDaemon(d) /\ HomeOk(d) /\ DOMAIN conn = Clients /\ DOMAIN cli = Clients
    BY <1>1 DEF IInv
  <2>3. /\ Only(c) /\ cli'[c] = cli[c] /\ conn'[c] = [conn[c] EXCEPT !.cmd = "none"]
    BY <1>1, <1>3, <2>2 DEF Only
  <2>4. /\ DOMAIN conn'[c] = DOMAIN conn[c] /\ conn'[c].open = conn[c].open
        /\ conn'[c].session = conn[c].session /\ conn'[c].accounted = conn[c].accounted
        /\ conn'[c].cmd = "none"
    BY <2>2, <2>3 DEF ClientOk
  <2>5. cli[c].pc = "off"
    BY <1>1, <1>3, <2>2 DEF ClientOk, NoConn
  <2>6. ClientOk(conn'[c], cli'[c], d.complete)
    BY <1>3, <2>1, <2>2, <2>3, <2>4, <2>5 DEF ClientOk
  <2>7. Sessions(conn') = Sessions(conn)
    BY <2>3, <2>4 DEF Sessions, Only
  <2>8. /\ DOMAIN d' = DOMAIN d /\ d'.lock = Nobody /\ d'.complete = d.complete /\ d'.home = d.home
        /\ d'.mark = d.mark /\ d'.count = d.count /\ d'.view = d.view /\ d'.ended = d.ended
        /\ d'.offered = d.offered /\ d'.taken = d.taken /\ d'.missed = d.missed
    BY <1>3, <2>2 DEF IsDaemon, Unlocked
  <2>9. IsDaemon(d')
    BY <2>2, <2>8 DEF IsDaemon
  <2>10. HomeOk(d') /\ CountOk(d', conn', profile)
    BY <2>1, <2>2, <2>7, <2>8 DEF HomeOk, CountOk, Nobody
  <2> QED BY <1>1, <1>3, <2>1, <2>3, <2>4, <2>6, <2>8, <2>9, <2>10, ClientInv DEF IInv
<1> QED BY <1>2, <1>3 DEF StopDone

\* ClientDisconnect of a session that was counted in x.
LEMMA DisconnectedInv ==
  ASSUME IInv, run = "up", NEW c \in Clients, NEW x, IsDaemon(x), HomeOk(x),
         x.lock = d.lock, x.complete = d.complete, x.count > 0,
         NEW k, Cardinality(Sessions(k)) = x.count - 1,
         DOMAIN k = Clients, \A b \in Clients \ {c} : k[b] = conn[b],
         ClientOk(k[c], cli[c], d.complete), k[c].cmd = "none",
         Disconnected(x, k), UNCHANGED <<profile, cli>>
  PROVE  IInv'
<1>1. CASE d.lock # Nobody
  BY <1>1, StuckInv DEF Disconnected, IInv
<1>2. CASE d.lock = Nobody /\ x.count # 0 /\ Left(x.count) = 0 /\ ~profile
  BY <1>2, ExitInv DEF Disconnected
<1>3. CASE d.lock = Nobody /\ ~(x.count # 0 /\ Left(x.count) = 0 /\ ~profile)
  <2>1. /\ d' = [x EXCEPT !.count = Left(@), !.view = FALSE, !.ended = TRUE]
        /\ conn' = k /\ UNCHANGED run
    BY <1>3 DEF Disconnected
  <2>2. x.count - 1 \in Nat /\ x.count - 1 < Usize /\ Usize \in Nat
    BY SessionsFinite DEF IsDaemon
  <2>3. Left(x.count) = x.count - 1
    BY <2>2 DEF Left
  <2>4. /\ DOMAIN d' = DOMAIN x /\ d'.lock = x.lock /\ d'.complete = x.complete /\ d'.home = x.home
        /\ d'.mark = x.mark /\ d'.count = x.count - 1 /\ d'.view = FALSE /\ d'.ended = TRUE
        /\ d'.offered = x.offered /\ d'.taken = x.taken /\ d'.missed = x.missed
    BY <2>1, <2>3 DEF IsDaemon
  <2>5. IsDaemon(d')
    BY <2>2, <2>4 DEF IsDaemon
  <2>6. HomeOk(d')
    BY <2>4 DEF HomeOk
  <2>7. ~profile => x.count - 1 # 0
    BY <1>3, <2>3 DEF IsDaemon
  <2>8. CountOk(d', conn', profile)
    <3>1. d'.count = Cardinality(Sessions(conn'))
      BY <2>1, <2>4
    <3>2. ASSUME ~profile PROVE d'.count > 0
      <4>1. x.count - 1 > 0
        BY <2>2, <2>7, <3>2 DEF IsDaemon
      <4> QED BY <2>4, <4>1
    <3>3. ~d'.view
      BY <2>4
    <3> QED BY <3>1, <3>2, <3>3 DEF CountOk
  <2>9. \A b \in Clients : conn[b].cmd = "none"
    BY <1>3, DaemonAssumption DEF IInv, Nobody
  <2>10. Only(c)
    BY <2>1 DEF Only, IInv
  <2> QED BY <2>1, <2>4, <2>5, <2>6, <2>8, <2>9, <2>10, ClientInv DEF IInv
<1> QED BY <1>1, <1>2, <1>3

LEMMA GoodbyeInv ==
  ASSUME IInv, NEW c \in Clients, Goodbye(c)
  PROVE  IInv'
<1> DEFINE x == Counted(c)
           mid == [conn EXCEPT ![c] = Session(c)]
           k == [conn EXCEPT ![c] = [Session(c) EXCEPT !.accounted = TRUE, !.req = "none"]]
<1>1. /\ run = "up" /\ conn[c].cmd = "none" /\ conn[c].req = "disconnect"
      /\ Disconnected(x, k) /\ UNCHANGED <<profile, cli, outside>>
  BY DEF Goodbye
<1>2. ClientOk(conn[c], cli[c], d.complete) /\ DOMAIN conn = Clients
  BY <1>1 DEF IInv
<1>3. conn[c].accounted = FALSE
  BY <1>1, <1>2 DEF ClientOk
<1>4. /\ DOMAIN mid = Clients /\ \A b \in Clients \ {c} : mid[b] = conn[b]
      /\ mid[c].session = TRUE /\ mid[c].accounted = FALSE
  BY <1>2, <1>3 DEF Session, ClientOk
<1>5. /\ DOMAIN k = Clients /\ \A b \in Clients \ {c} : k[b] = conn[b]
      /\ DOMAIN k[c] = DOMAIN conn[c] /\ k[c].open = conn[c].open /\ k[c].session = TRUE
      /\ k[c].accounted = TRUE /\ k[c].req = "none" /\ k[c].cmd = "none"
  BY <1>1, <1>2 DEF Session, ClientOk
<1> HIDE DEF mid, k
<1>6. /\ IsDaemon(x) /\ HomeOk(x) /\ CountOk(x, mid, profile)
      /\ x.complete = d.complete /\ x.lock = d.lock /\ x.count > 0
  BY <1>1, <1>3, <1>4, CountedStep
<1>7. c \in Sessions(mid) /\ Sessions(k) = Sessions(mid) \ {c}
  BY <1>4, <1>5 DEF Sessions
<1>8. Cardinality(Sessions(k)) = x.count - 1
  BY <1>6, <1>7, SessionEnds DEF CountOk
<1>9. ClientOk(k[c], cli[c], d.complete)
  <2>1. conn[c] # NoConn
    BY <1>1 DEF NoConn
  <2>2. (cli[c].pc # "off" => conn[c].open) /\ (conn[c].open => cli[c].pc = "leaving")
    BY <1>1, <1>2, <2>1 DEF ClientOk
  <2> QED BY <1>2, <1>5, <2>2 DEF ClientOk
<1> QED BY <1>1, <1>5, <1>6, <1>8, <1>9, DisconnectedInv

\* The end of a connection: accounted for before, or now.
LEMMA HangupInv ==
  ASSUME IInv, NEW c \in Clients, Hangup(c)
  PROVE  IInv'
<1> DEFINE k == [conn EXCEPT ![c] = NoConn]
<1>1. run = "up" /\ conn[c].session /\ UNCHANGED <<profile, cli, outside>>
  BY DEF Hangup
<1>2. /\ IsDaemon(d) /\ HomeOk(d) /\ CountOk(d, conn, profile) /\ DOMAIN conn = Clients
      /\ ClientOk(conn[c], cli[c], d.complete) /\ DOMAIN cli = Clients
  BY <1>1 DEF IInv
<1>3. k[c] = NoConn /\ DOMAIN k = Clients /\ \A b \in Clients \ {c} : k[b] = conn[b]
  BY <1>2
<1>4. ClientOk(k[c], cli[c], d.complete) /\ k[c].cmd = "none" /\ ~k[c].session
  BY <1>2, <1>3, NoConnOk DEF NoConn
<1>5. CASE conn[c].accounted
  <2>1. conn' = k /\ UNCHANGED <<run, d>>
    BY <1>5 DEF Hangup
  <2> HIDE DEF k
  <2>2. Sessions(k) = Sessions(conn)
    BY <1>3, <1>4, <1>5 DEF Sessions
  <2>3. CountOk(d', conn', profile)
    BY <1>2, <2>1, <2>2 DEF CountOk
  <2>4. Only(c)
    BY <1>1, <1>2, <1>3, <2>1 DEF Only
  <2> QED BY <1>1, <1>2, <1>4, <2>1, <2>3, <2>4, ClientInv DEF IInv
<1>6. CASE ~conn[c].accounted
  <2>1. Disconnected(d, k)
    BY <1>6 DEF Hangup
  <2> HIDE DEF k
  <2>2. c \in Sessions(conn) /\ Sessions(k) = Sessions(conn) \ {c}
    BY <1>1, <1>3, <1>4, <1>6 DEF Sessions
  <2>3. Cardinality(Sessions(k)) = d.count - 1 /\ d.count > 0
    BY <1>2, <2>2, SessionEnds DEF CountOk
  <2> QED BY <1>1, <1>2, <1>3, <1>4, <2>1, <2>3, DisconnectedInv
<1> QED BY <1>5, <1>6

----------------------------------------------------------------------------
\* The CLI program.

\* A new daemon starts without sessions, and clients of the old one have lost it.
LEMMA LaunchInv ==
  ASSUME IInv, NEW c \in Clients, Launch(c)
  PROVE  IInv'
<1>1. /\ run # "stuck" /\ conn[c] = NoConn /\ run' = "up" /\ UNCHANGED profile
      /\ d' = IF run = "up" THEN d ELSE Booted(profile)
      /\ conn' = [conn EXCEPT ![c] = [NoConn EXCEPT !.open = TRUE, !.req = "has_profile"]]
      /\ cli' = [cli EXCEPT ![c] = [Off EXCEPT !.pc = "asking"]]
  BY DEF Launch
<1>2. /\ IsDaemon(d) /\ HomeOk(d) /\ CountOk(d, conn, profile) /\ DOMAIN conn = Clients
      /\ DOMAIN cli = Clients /\ profile \in BOOLEAN
  BY <1>1 DEF IInv
<1>3. Only(c) /\ conn'[c] = [NoConn EXCEPT !.open = TRUE, !.req = "has_profile"]
      /\ cli'[c] = [Off EXCEPT !.pc = "asking"]
  BY <1>1, <1>2 DEF Only
<1>4. /\ \A complete : ClientOk(conn'[c], cli'[c], complete)
      /\ conn'[c].cmd = "none" /\ ~conn'[c].session /\ ~conn[c].session
  <2>1. conn'[c] = [open |-> TRUE, session |-> FALSE, accounted |-> FALSE, cmd |-> "none",
                    req |-> "has_profile"]
    BY <1>3 DEF NoConn
  <2>2. cli'[c] = [pc |-> "asking", gate |-> FALSE, sub |-> "none"]
    BY <1>3 DEF Off
  <2>3. ~conn[c].session
    BY <1>1 DEF NoConn
  <2> QED BY <2>1, <2>2, <2>3 DEF ClientOk
<1>5. Sessions(conn') = Sessions(conn)
  BY <1>3, <1>4 DEF Sessions, Only
<1>6. CASE run = "up"
  <2>1. CountOk(d', conn', profile)
    BY <1>1, <1>2, <1>5, <1>6 DEF CountOk
  <2> QED BY <1>1, <1>2, <1>3, <1>4, <1>6, <2>1, ClientInv DEF IInv
<1>7. CASE run # "up"
  <2>1. \A b \in Clients : conn[b] = NoConn
    BY <1>1, <1>7 DEF IInv
  <2>2. IsDaemon(d') /\ HomeOk(d')
    BY <1>1, <1>2, <1>7, BootedOk
  <2>3. CountOk(d', conn', profile)
    <3>1. Cardinality(Sessions(conn)) = 0
      BY <2>1, NoSessions DEF NoConn
    <3> QED BY <1>1, <1>5, <1>7, <3>1 DEF CountOk, Booted
  <2>4. ASSUME NEW b \in Clients PROVE ClientOk(conn'[b], cli'[b], d'.complete)
    BY <1>1, <1>3, <1>4, <2>1, NoConnOk DEF IInv, Only
  <2>5. \A b \in Clients : conn'[b].cmd = "none"
    BY <1>3, <1>4, <2>1 DEF Only, NoConn
  <2> QED BY <1>1, <1>2, <1>3, <2>2, <2>3, <2>4, <2>5 DEF IInv, Only
<1> QED BY <1>6, <1>7

\* Requests: the program waits for the answer wherever it has asked.
LEMMA AskInv ==
  ASSUME IInv, NEW c \in Clients, Wait(c) \/ Deadline(c) \/ Enter(c)
  PROVE  IInv'
<1>1. /\ run # "stuck" /\ conn[c].open /\ UNCHANGED <<run, d, profile>>
      /\ cli[c].pc \in {"waiting", "grace", "prompt"}
  BY DEF Wait, Deadline, Enter
<1>2. PICK r, pc :
        /\ Ask(c, r) /\ At(c, pc)
        /\ r = "disconnect" => pc = "leaving"
        /\ pc \notin {"waiting", "grace", "prompt"}
        /\ pc = "taking" => cli[c].gate \/ cli[c].pc = "grace"
        /\ pc = "polling" => r = "snapshot"
  BY DEF Wait, Deadline, Enter
<1>3. /\ ClientOk(conn[c], cli[c], d.complete) /\ DOMAIN conn = Clients /\ DOMAIN cli = Clients
      /\ IsDaemon(d) /\ HomeOk(d) /\ CountOk(d, conn, profile)
  BY <1>1 DEF IInv
<1>4. /\ Only(c) /\ conn'[c] = [conn[c] EXCEPT !.req = r] /\ cli'[c] = [cli[c] EXCEPT !.pc = pc]
  BY <1>2, <1>3 DEF Only, Ask, At
<1>5. /\ DOMAIN conn'[c] = DOMAIN conn[c] /\ conn'[c].open = conn[c].open
      /\ conn'[c].session = conn[c].session /\ conn'[c].accounted = conn[c].accounted
      /\ conn'[c].cmd = conn[c].cmd /\ conn'[c].req = r
      /\ DOMAIN cli'[c] = DOMAIN cli[c] /\ cli'[c].pc = pc /\ cli'[c].gate = cli[c].gate
  BY <1>3, <1>4 DEF ClientOk
<1>6. run = "up"
  BY <1>1 DEF IInv, NoConn
<1>7. Sessions(conn') = Sessions(conn)
  BY <1>4, <1>5 DEF Sessions, Only
<1>8. CountOk(d', conn', profile)
  BY <1>1, <1>3, <1>7 DEF CountOk
<1>9. ClientOk(conn'[c], cli'[c], d.complete)
  BY <1>1, <1>2, <1>3, <1>5 DEF ClientOk
<1> QED BY <1>1, <1>3, <1>4, <1>5, <1>6, <1>8, <1>9, ClientInv DEF IInv

\* The program ends; what it has sent may still be read.
LEMMA EndInv ==
  ASSUME IInv, NEW c \in Clients, End(c)
  PROVE  IInv'
<1>1. /\ run # "stuck" /\ cli[c].pc # "off" /\ UNCHANGED <<run, d, profile>>
      /\ cli' = [cli EXCEPT ![c] = Off]
  BY DEF End
<1>2. PICK r \in {conn[c].req, "none"} :
        conn' = [conn EXCEPT ![c] = IF @.session \/ r # "none"
                                    THEN [@ EXCEPT !.open = FALSE, !.req = r] ELSE NoConn]
  BY DEF End
<1>3. /\ ClientOk(conn[c], cli[c], d.complete) /\ DOMAIN conn = Clients /\ DOMAIN cli = Clients
      /\ IsDaemon(d) /\ HomeOk(d) /\ CountOk(d, conn, profile)
  BY <1>1 DEF IInv
<1>4. /\ Only(c) /\ cli'[c] = Off
      /\ conn'[c] = IF conn[c].session \/ r # "none"
                    THEN [conn[c] EXCEPT !.open = FALSE, !.req = r] ELSE NoConn
  BY <1>1, <1>2, <1>3 DEF Only
<1>5. /\ conn'[c].session = conn[c].session /\ conn'[c].accounted = conn[c].accounted
      /\ conn'[c].cmd = conn[c].cmd /\ ClientOk(conn'[c], cli'[c], d.complete)
  <2>1. CASE conn[c].session \/ r # "none"
    <3>1. conn'[c] = [conn[c] EXCEPT !.open = FALSE, !.req = r]
      BY <1>4, <2>1
    <3>2. /\ DOMAIN conn'[c] = DOMAIN conn[c] /\ conn'[c].open = FALSE
          /\ conn'[c].session = conn[c].session /\ conn'[c].accounted = conn[c].accounted
          /\ conn'[c].cmd = conn[c].cmd /\ conn'[c].req = r
      BY <1>3, <3>1 DEF ClientOk
    <3>3. DOMAIN Off = {"pc", "gate", "sub"} /\ Off.gate = FALSE /\ Off.pc = "off"
      BY DEF Off
    <3> QED BY <1>2, <1>3, <1>4, <3>2, <3>3 DEF ClientOk
  <2>2. CASE ~(conn[c].session \/ r # "none")
    <3>1. conn'[c] = NoConn
      BY <1>4, <2>2
    <3>2. ClientOk(NoConn, Off, d.complete)
      BY DEF ClientOk, NoConn, Off
    <3>3. conn[c].session = FALSE /\ conn[c].accounted = FALSE /\ conn[c].cmd = "none"
      BY <1>3, <2>2 DEF ClientOk
    <3>4. NoConn.session = FALSE /\ NoConn.accounted = FALSE /\ NoConn.cmd = "none"
      BY DEF NoConn
    <3>5. ClientOk(conn'[c], cli'[c], d.complete)
      BY <1>4, <3>1, <3>2
    <3> QED BY <3>1, <3>3, <3>4, <3>5
  <2> QED BY <2>1, <2>2
<1>6. Sessions(conn') = Sessions(conn)
  BY <1>4, <1>5 DEF Sessions, Only
<1>7. CountOk(d', conn', profile)
  BY <1>1, <1>3, <1>6 DEF CountOk
<1>8. CASE run = "up"
  BY <1>1, <1>3, <1>4, <1>5, <1>7, <1>8, ClientInv DEF IInv
<1>9. CASE run # "up"
  <2>1. \A b \in Clients : conn[b] = NoConn
    BY <1>1, <1>9 DEF IInv
  <2>2. conn'[c] = NoConn
    BY <1>2, <1>4, <2>1 DEF NoConn
  <2>3. \A b \in Clients : conn'[b] = NoConn
    BY <1>4, <2>1, <2>2 DEF Only
  <2>4. \A b \in Clients : ClientOk(conn'[b], cli'[b], d'.complete)
    BY <1>1, <1>4, <1>5 DEF IInv, Only
  <2>5. \A b \in Clients : conn'[b].cmd = "none"
    BY <2>3 DEF NoConn
  <2> QED BY <1>1, <1>3, <1>4, <1>7, <2>3, <2>4, <2>5 DEF IInv, Only
<1> QED BY <1>8, <1>9

----------------------------------------------------------------------------
\* The theorems.

LEMMA InitInv == Init => IInv
<1> SUFFICES ASSUME Init PROVE IInv
  OBVIOUS
<1>1. /\ profile \in BOOLEAN /\ d = Booted(FALSE) /\ DOMAIN conn = Clients /\ DOMAIN cli = Clients
      /\ \A c \in Clients : conn[c] = NoConn /\ cli[c] = Off
  BY DEF Init
<1>2. IsDaemon(d) /\ HomeOk(d)
  BY <1>1, BootedOk
<1>3. CountOk(d, conn, profile)
  <2>1. Cardinality(Sessions(conn)) = 0
    BY <1>1, NoSessions DEF NoConn
  <2> QED BY <1>1, <2>1 DEF CountOk, Booted
<1>4. ClientOk(NoConn, Off, d.complete) /\ NoConn.cmd = "none"
  BY DEF ClientOk, NoConn, Off
<1> QED BY <1>1, <1>2, <1>3, <1>4 DEF IInv

LEMMA StepInv == IInv /\ [Next]_vars => IInv'
<1> SUFFICES ASSUME IInv, [Next]_vars PROVE IInv'
  OBVIOUS
<1>1. CASE BootDone
  BY <1>1, BootDoneInv
<1>2. CASE Reroll \/ ApplyIdentity \/ IdentityApplied \/ RingScrolls
  BY <1>2, IdentityInv
<1>3. ASSUME NEW c \in Clients, Daemon(c) PROVE IInv'
  <2>1. CASE UiReplay(c) \/ UiSubscribe(c)
    BY <2>1, UiInv
  <2>2. CASE Query(c)
    BY <2>2, QueryInv
  <2>3. CASE Command(c)
    BY <2>3, CommandInv
  <2>4. CASE LineDone(c) \/ CreateDone(c) \/ RemoveDone(c) \/ ViewBegun(c) \/ ViewEnded(c)
    BY <2>4, DoneInvs
  <2>5. CASE StopDone(c)
    BY <2>5, StopDoneInv
  <2>6. CASE Goodbye(c)
    BY <2>6, GoodbyeInv
  <2>7. CASE Hangup(c)
    BY <2>7, HangupInv
  <2> QED BY <1>3, <2>1, <2>2, <2>3, <2>4, <2>5, <2>6, <2>7 DEF Daemon
<1>4. ASSUME NEW c \in Clients, Launch(c) PROVE IInv'
  BY <1>4, LaunchInv
<1>5. ASSUME NEW c \in Clients, Wait(c) \/ Deadline(c) \/ Enter(c) PROVE IInv'
  BY <1>5, AskInv
<1>6. ASSUME NEW c \in Clients, End(c) PROVE IInv'
  BY <1>6, EndInv
<1>7. CASE UNCHANGED vars
  BY <1>7 DEF vars, IInv, CountOk, Sessions
<1> QED BY <1>1, <1>2, <1>3, <1>4, <1>5, <1>6, <1>7 DEF Next, Program, Lost

LEMMA AlwaysIInv == Spec => []IInv
BY InitInv, StepInv, PTL DEF Spec

\* The count of sessions in profile.rs is exact while any number of clients come, say
\* goodbye, hang up without it, or end in the middle of a command: an idle daemon does not
\* outlive its last session, and no runtime view does.
THEOREM CountIsExact == Spec => []SessionsCounted
<1>1. IInv => SessionsCounted
  BY DEF IInv, CountOk, Sessions, SessionsCounted
<1> QED BY <1>1, AlwaysIInv, PTL

\* TakeSessionHome gives the home lines of a bootstrap to one client, and a client that has
\* waited for the session to open misses them only when they were taken.
THEOREM HomeTakenOnce == Spec => []HomeOnce
<1>1. IInv => HomeOnce
  <2> SUFFICES ASSUME IInv, run = "up" PROVE d.taken <= 1 /\ (d.offered /\ d.missed => d.taken = 1)
    BY DEF HomeOnce
  <2>1. IsDaemon(d) /\ HomeOk(d)
    BY DEF IInv
  <2> QED BY <2>1 DEF IsDaemon, HomeOk
<1> QED BY <1>1, AlwaysIInv, PTL
=============================================================================
