----------------------------- MODULE NoticeBoard -----------------------------
(***************************************************************************)
(* What the launcher promises of its notices: a board that shows the       *)
(* latest few, each until its time is up or the player takes it down, and  *)
(* that does not repeat one just put up.  Toasts implements it.            *)
(***************************************************************************)
EXTENDS Integers, Sequences, FiniteSets

CONSTANTS
    Msgs,      \* what a notice says
    Ttl,       \* how long it stays; 0: until it is taken down
    MaxToasts, \* how many the board holds
    Dedupe,    \* for how long a notice is not repeated
    MaxAge,    \* ages are not told apart from here on
    MaxShows   \* bound: notices

VARIABLES
    made,      \* all notices so far: what they say, how old they are
    board,     \* those on the board
    asked      \* those the player takes down

vars == <<made, board, asked>>

Init == made = <<>> /\ board = {} /\ asked = {}

\* A full board gives up its oldest notice.
Newest(S) == IF Cardinality(S) > MaxToasts THEN {i \in S : \E k \in S : k < i} ELSE S

Post(m) ==
    /\ \A i \in board : made[i].msg = m => made[i].age >= Dedupe
    /\ made' = Append(made, [msg |-> m, age |-> 0])
    /\ board' = Newest(board \cup {Len(made) + 1})
    /\ UNCHANGED asked

Ask(i) ==
    /\ i \in board
    /\ asked' = asked \cup {i}
    /\ UNCHANGED <<made, board>>

TimeIsUp(i) == Ttl[made[i].msg] > 0 /\ made[i].age >= Ttl[made[i].msg]

Remove(i) ==
    /\ i \in board
    /\ i \in asked \/ TimeIsUp(i)
    /\ board' = board \ {i}
    /\ UNCHANGED <<made, asked>>

Older(i) == IF i \in board /\ made[i].age < MaxAge THEN made[i].age + 1 ELSE made[i].age

Tick ==
    /\ made' = [i \in 1..Len(made) |-> [made[i] EXCEPT !.age = Older(i)]]
    /\ UNCHANGED <<board, asked>>

Next ==
    \/ \E m \in Msgs : Post(m)
    \/ \E i \in board : Ask(i) \/ Remove(i)
    \/ Tick

SafeSpec == Init /\ [][Next]_vars

\* Time passes, and a notice whose time is up goes.
Spec == SafeSpec /\ WF_vars(Tick) /\ \A i \in 1..MaxShows : WF_vars(Remove(i))
=============================================================================
