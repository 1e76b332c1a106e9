-------------------------- MODULE ForwardingProofs --------------------------
(***************************************************************************)
(* The replay window, for every width and every set of accepted counters,  *)
(* and the windows of a mesh of any size, under any traffic and any        *)
(* faults: they are exact.                                                 *)
(***************************************************************************)
EXTENDS Forwarding, TLAPS

\* A window that remembers the counters A allows exactly the counters that are
\* acceptable after A (DataReplayWindow::allows).
THEOREM AllowsExact ==
    ASSUME NEW A \in SUBSET Nat, NEW w, w.top \in Nat \cup {NoTop}, Remembers(w, A),
           NEW c \in Nat
    PROVE  Allows(w, c) <=> Acceptable(A, c)
<1>1. CASE w.top = NoTop
  BY <1>1 DEF Remembers, Allows, Acceptable
<1>2. CASE w.top # NoTop /\ c > w.top
  BY <1>2, WindowAssumption DEF Remembers, Allows, Acceptable, NoTop
<1>3. CASE w.top # NoTop /\ c <= w.top
  <2>1. w.top \in A /\ w.top \in Nat
    BY <1>3 DEF Remembers
  <2>2. (\A a \in A : a - c < Window) <=> w.top - c < Window
    BY <1>3, <2>1, WindowAssumption DEF Remembers
  <2>3. ASSUME w.top - c < Window PROVE w.top - c \in w.bits <=> c \in A
    <3>1. w.top - c \in 0..(Window - 1) /\ w.top - (w.top - c) = c
      BY <1>3, <2>1, <2>3, WindowAssumption
    <3> QED
      BY <1>3, <3>1 DEF Remembers
  <2> QED
    BY <1>3, <2>1, <2>2, <2>3 DEF Allows, Acceptable
<1> QED
  BY <1>1, <1>2, <1>3 DEF NoTop

\* commit of an allowed counter remembers it and forgets nothing within the
\* window (DataReplayWindow::commit).
THEOREM CommitRemembers ==
    ASSUME NEW A \in SUBSET Nat, NEW w \in [top : Nat \cup {NoTop}, bits : SUBSET Nat],
           Remembers(w, A), NEW c \in Nat
    PROVE  /\ Commit(w, c) \in [top : Nat \cup {NoTop}, bits : SUBSET Nat]
           /\ Remembers(Commit(w, c), A \cup {c})
<1> USE WindowAssumption DEF NoTop
<1>1. CASE w.top = NoTop
  <2>1. A = {} /\ Commit(w, c) = [top |-> c, bits |-> {0}]
    BY <1>1 DEF Remembers, Commit
  <2>2. {0} = {d \in 0..(Window - 1) : c - d \in {c}}
    OBVIOUS
  <2> QED
    BY <2>1, <2>2 DEF Remembers
<1>2. CASE w.top # NoTop /\ c > w.top
  <2> DEFINE k == c - w.top
             B == Shifted(w.bits, k) \cup {0}
  <2>1. Commit(w, c) = [top |-> c, bits |-> B] /\ k \in Nat \ {0} /\ w.top \in Nat
    BY <1>2 DEF Commit
  <2>2. ASSUME NEW d \in 0..(Window - 1) PROVE d \in B <=> c - d \in A \cup {c}
    <3>1. CASE d = 0
      BY <2>1, <3>1
    <3>2. CASE d > 0 /\ d < k
      <4>1. c - d > w.top
        BY <2>1, <3>2
      <4> QED
        BY <1>2, <2>1, <3>2, <4>1 DEF Shifted, Remembers
    <3>3. CASE d >= k
      <4>1. d - k \in 0..(Window - 1) /\ c - d = w.top - (d - k) /\ d # 0 /\ d \in k..(Window - 1)
        BY <2>1, <3>3
      <4>2. d - k \in w.bits <=> c - d \in A
        BY <1>2, <4>1 DEF Remembers
      <4>3. d \in B <=> d - k \in w.bits
        BY <2>1, <4>1 DEF Shifted
      <4>4. c - d # c
        BY <2>1, <4>1
      <4> QED
        BY <4>2, <4>3, <4>4
    <3> QED
      BY <2>1, <3>1, <3>2, <3>3
  <2>3. B \subseteq 0..(Window - 1)
    BY <2>1 DEF Shifted
  <2>4. ASSUME NEW a \in A PROVE a <= c
    <3>1. a \in Nat /\ a <= w.top
      BY <1>2 DEF Remembers
    <3> QED
      BY <1>2, <2>1, <3>1
  <2> HIDE DEF B
  <2>5. B = {d \in 0..(Window - 1) : c - d \in A \cup {c}}
    BY <2>2, <2>3
  <2> QED
    BY <2>1, <2>3, <2>4, <2>5 DEF Remembers
<1>3. CASE w.top # NoTop /\ c <= w.top /\ w.top - c < Window
  <2>1. Commit(w, c) = [w EXCEPT !.bits = @ \cup {w.top - c}] /\ w.top \in Nat
    BY <1>3 DEF Commit
  <2>2. w.top - c \in 0..(Window - 1)
    BY <1>3, <2>1
  <2>3. ASSUME NEW d \in 0..(Window - 1)
        PROVE  d \in w.bits \cup {w.top - c} <=> w.top - d \in A \cup {c}
    BY <1>3, <2>1, <2>2 DEF Remembers
  <2> DEFINE B == w.bits \cup {w.top - c}
  <2>4. B \subseteq 0..(Window - 1)
    BY <2>2 DEF Remembers
  <2> HIDE DEF B
  <2>5. B = {d \in 0..(Window - 1) : w.top - d \in A \cup {c}}
    BY <2>3, <2>4 DEF B
  <2>6. Commit(w, c) = [top |-> w.top, bits |-> B]
    BY <2>1 DEF B
  <2>7. w.top \in A /\ \A a \in A \cup {c} : a <= w.top
    BY <1>3 DEF Remembers
  <2>8. [top |-> w.top, bits |-> B] \in [top : Nat \cup {NoTop}, bits : SUBSET Nat]
    BY <2>1, <2>4
  <2>9. Remembers([top |-> w.top, bits |-> B], A \cup {c})
    BY <1>3, <2>5, <2>7 DEF Remembers
  <2> QED
    BY <2>6, <2>8, <2>9
<1>4. CASE w.top # NoTop /\ c <= w.top /\ w.top - c >= Window
  <2>1. Commit(w, c) = w /\ w.top \in Nat
    BY <1>4 DEF Commit
  <2>2. ASSUME NEW d \in 0..(Window - 1) PROVE w.top - d # c
    BY <1>4, <2>1
  <2> QED
    BY <1>4, <2>1, <2>2 DEF Remembers
<1> QED
  BY <1>1, <1>2, <1>3, <1>4

-----------------------------------------------------------------------------
Windows == [top : Nat \cup {NoTop}, bits : SUBSET Nat]

WindowType ==
    /\ win \in [Nodes -> [Nodes -> Windows]]
    /\ accepted \in [Nodes -> [Nodes -> SUBSET Nat]]

WindowInv == WindowType /\ ReplayExact

\* A new window stands for no counter.
LEMMA NewRemembers == NewWindow \in Windows /\ Remembers(NewWindow, {})
BY WindowAssumption DEF NewWindow, Windows, Remembers, NoTop

LEMMA InitWindow == Init => WindowInv
<1> SUFFICES ASSUME Init PROVE WindowInv
  OBVIOUS
<1>1. WindowType
  BY NewRemembers DEF Init, WindowType
<1>2. ReplayExact
  BY NewRemembers DEF Init, ReplayExact
<1> QED
  BY <1>1, <1>2 DEF WindowInv

\* A receiver that commits a counter remembers it.
LEMMA ReceiveWindow ==
    ASSUME WindowInv, NEW n, NEW f, NEW kept, NEW e, Receive(n, f, kept, e)
    PROVE  WindowInv'
<1>1. CASE UNCHANGED <<win, accepted>>
  BY <1>1 DEF WindowInv, WindowType, ReplayExact
<1>2. CASE /\ win' = [win EXCEPT ![n][f.from] = Commit(@, f.ctr)]
           /\ accepted' = [accepted EXCEPT ![n][f.from] = @ \cup {f.ctr}]
  <2>1. f.ctr \in Nat
    BY DEF Receive
  <2>2. ASSUME NEW a \in Nodes, NEW b \in Nodes
        PROVE  /\ win'[a][b] \in Windows
               /\ accepted'[a][b] \in SUBSET Nat
               /\ Remembers(win'[a][b], accepted'[a][b])
    <3>1. win[a][b] \in Windows /\ accepted[a][b] \in SUBSET Nat
          /\ Remembers(win[a][b], accepted[a][b])
      BY DEF WindowInv, WindowType, ReplayExact
    <3>2. CASE a = n /\ b = f.from
      <4>1. win'[a][b] = Commit(win[a][b], f.ctr)
            /\ accepted'[a][b] = accepted[a][b] \cup {f.ctr}
        BY <1>2, <3>2 DEF WindowInv, WindowType
      <4>2. /\ Commit(win[a][b], f.ctr) \in Windows
            /\ Remembers(Commit(win[a][b], f.ctr), accepted[a][b] \cup {f.ctr})
        BY <2>1, <3>1, CommitRemembers, Zenon DEF Windows
      <4> QED
        BY <2>1, <3>1, <4>1, <4>2
    <3>3. CASE ~(a = n /\ b = f.from)
      <4>1. win'[a][b] = win[a][b] /\ accepted'[a][b] = accepted[a][b]
        BY <1>2, <3>3 DEF WindowInv, WindowType
      <4> QED
        BY <3>1, <4>1
    <3> QED
      BY <3>2, <3>3
  <2>3. win' \in [Nodes -> [Nodes -> Windows]]
    <3>1. ASSUME NEW a \in Nodes PROVE win'[a] \in [Nodes -> Windows]
      <4>1. win'[a] = [win'[a] EXCEPT ![a] = win'[a][a]] /\ DOMAIN win'[a] = Nodes
        BY <1>2 DEF WindowInv, WindowType
      <4> QED
        BY <1>2, <2>2, <4>1 DEF WindowInv, WindowType
    <3> QED
      BY <1>2, <3>1 DEF WindowInv, WindowType
  <2>4. accepted' \in [Nodes -> [Nodes -> SUBSET Nat]]
    BY <1>2, <2>1 DEF WindowInv, WindowType
  <2> QED
    BY <2>2, <2>3, <2>4 DEF WindowInv, WindowType, ReplayExact
<1> QED
  BY <1>1, <1>2 DEF Receive

\* A peer that is removed, and a session that is reset, start with new windows.
LEMMA ForgetWindow ==
    ASSUME WindowInv, NEW n \in Nodes, NEW m \in Nodes, RouteRemoved(n, m) \/ Reset(n)
    PROVE  WindowInv'
<1>0. \/ /\ win' = [win EXCEPT ![n][m] = NewWindow]
         /\ accepted' = [accepted EXCEPT ![n][m] = {}]
      \/ /\ win' = [win EXCEPT ![n] = [k \in Nodes |-> NewWindow]]
         /\ accepted' = [accepted EXCEPT ![n] = [k \in Nodes |-> {}]]
  BY Zenon DEF RouteRemoved, Reset
<1>1. ASSUME NEW a \in Nodes, NEW b \in Nodes
      PROVE  \/ win'[a][b] = win[a][b] /\ accepted'[a][b] = accepted[a][b]
             \/ win'[a][b] = NewWindow /\ accepted'[a][b] = {}
  <2>1. CASE /\ win' = [win EXCEPT ![n][m] = NewWindow]
             /\ accepted' = [accepted EXCEPT ![n][m] = {}]
    BY <2>1 DEF WindowInv, WindowType
  <2>2. CASE /\ win' = [win EXCEPT ![n] = [k \in Nodes |-> NewWindow]]
             /\ accepted' = [accepted EXCEPT ![n] = [k \in Nodes |-> {}]]
    BY <2>2 DEF WindowInv, WindowType
  <2> QED
    BY <1>0, <2>1, <2>2
<1>2. WindowType'
  <2>1. NewWindow \in Windows /\ {} \in SUBSET Nat
    BY NewRemembers
  <2> HIDE DEF Windows
  <2>2. /\ win \in [Nodes -> [Nodes -> Windows]]
        /\ accepted \in [Nodes -> [Nodes -> SUBSET Nat]]
    BY DEF WindowInv, WindowType
  <2>3. CASE /\ win' = [win EXCEPT ![n][m] = NewWindow]
             /\ accepted' = [accepted EXCEPT ![n][m] = {}]
    BY <2>1, <2>2, <2>3 DEF WindowType
  <2>4. CASE /\ win' = [win EXCEPT ![n] = [k \in Nodes |-> NewWindow]]
             /\ accepted' = [accepted EXCEPT ![n] = [k \in Nodes |-> {}]]
    <3>1. [k \in Nodes |-> NewWindow] \in [Nodes -> Windows]
      BY <2>1
    <3>2. [k \in Nodes |-> {}] \in [Nodes -> SUBSET Nat]
      BY <2>1
    <3> QED
      BY <2>2, <2>4, <3>1, <3>2 DEF WindowType
  <2> QED
    BY <1>0, <2>3, <2>4
<1>3. ReplayExact'
  BY <1>1, NewRemembers DEF WindowInv, ReplayExact
<1> QED
  BY <1>2, <1>3 DEF WindowInv

\* In every reachable state each window admits exactly the counters that are new
\* and not too far behind: ReplayExact, from an invariant that adds the types.
THEOREM ReplayWindowsExact == Spec => []ReplayExact
<1>1. WindowInv /\ [Next]_vars => WindowInv'
  <2> SUFFICES ASSUME WindowInv, [Next]_vars PROVE WindowInv'
    OBVIOUS
  <2>1. ASSUME NEW f \in net, NEW kept \in {{}, {"doubled"}}, NEW e \in Env,
               Receive(f.to, f, kept, e)
        PROVE  WindowInv'
    BY <2>1, ReceiveWindow
  <2>2. ASSUME NEW n \in Nodes, NEW m \in Nodes, RouteRemoved(n, m) \/ Reset(n)
        PROVE  WindowInv'
    BY <2>2, ForgetWindow
  <2>3. CASE UNCHANGED <<win, accepted>>
    BY <2>3 DEF WindowInv, WindowType, ReplayExact
  <2>4. \/ UNCHANGED <<win, accepted>>
        \/ \E f \in net, kept \in {{}, {"doubled"}}, e \in Env : Receive(f.to, f, kept, e)
        \/ \E n \in Nodes : Reset(n)
        \/ \E n, m \in Nodes : RouteRemoved(n, m)
    BY DEF Next, vars, FromTun, Lose, Expire, EndTransition, Learn, Rescore
  <2> QED
    BY <2>1, <2>2, <2>3, <2>4
<1>2. WindowInv => ReplayExact
  BY DEF WindowInv
<1> QED
  BY InitWindow, <1>1, <1>2, PTL DEF Spec
=============================================================================
