------------------------------- MODULE Replay -------------------------------
(***************************************************************************)
(* The anti-replay window of crypto.rs: the highest counter accepted and   *)
(* one bit for each of the Window counters up to it.  The bits are the set *)
(* of their positions.                                                     *)
(***************************************************************************)
EXTENDS Integers

CONSTANT Window      \* DATA_REPLAY_WINDOW_BITS, 128

ASSUME WindowAssumption == Window \in Nat \ {0}

NoTop == -1          \* the Option is None

NewWindow == [top |-> NoTop, bits |-> {}]

Allows(w, c) ==
    \/ w.top = NoTop
    \/ c > w.top
    \/ w.top - c < Window /\ w.top - c \notin w.bits

\* The bits moved up by k, the ones beyond the last position dropped.
Shifted(bits, k) == IF k >= Window THEN {} ELSE {d \in k..(Window - 1) : d - k \in bits}

\* A mutation: the bits stay where they are when the window moves.
CommitUnshifted(w, c) ==
    IF c > w.top THEN [top |-> c, bits |-> w.bits \cup {0}]
    ELSE [w EXCEPT !.bits = @ \cup {w.top - c}]

Commit(w, c) ==
    IF w.top = NoTop THEN [top |-> c, bits |-> {0}]
    ELSE IF c > w.top THEN [top |-> c, bits |-> Shifted(w.bits, c - w.top) \cup {0}]
    ELSE IF w.top - c < Window THEN [w EXCEPT !.bits = @ \cup {w.top - c}]
    ELSE w

\* What a window that has accepted the counters A has to say of counter c: it is
\* new, and not Window or more behind the highest.
Acceptable(A, c) == c \notin A /\ \A a \in A : a - c < Window

\* The window w stands for the accepted counters A.
Remembers(w, A) ==
    /\ w.top = NoTop => A = {}
    /\ w.top # NoTop => w.top \in A /\ \A a \in A : a <= w.top
    /\ w.bits = {d \in 0..(Window - 1) : w.top # NoTop /\ w.top - d \in A}
=============================================================================
