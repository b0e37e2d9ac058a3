-------------------------------- MODULE Toasts --------------------------------
(***************************************************************************)
(* The launcher's notices (frontend/src/components/Toast.tsx).  show and   *)
(* dismiss hand updaters to React, which runs them later, one after the    *)
(* other; a timer per notice calls dismiss, and may be late.  Ids are      *)
(* given in order, so the list of notices is the set of their ids.         *)
(***************************************************************************)
EXTENDS Integers, Sequences, FiniteSets

CONSTANTS
    Msgs,      \* the kinds and texts of notices, none of them empty
    Ttl,       \* their times to live
    MaxToasts, \* MAX_TOASTS
    Dedupe,    \* DEDUPE_WINDOW_MS
    MaxAge,    \* bound: ages are not told apart from here on
    MaxShows,  \* bound: calls of show
    MaxQueue   \* bound: updaters that wait when the player or a caller acts

ASSUME ToastsAssumption ==
    /\ Ttl \in [Msgs -> Nat]
    /\ MaxToasts \in Nat \ {0} /\ Dedupe \in Nat /\ MaxShows \in Nat /\ MaxQueue \in Nat
    /\ MaxAge \in Nat /\ MaxAge >= Dedupe
    /\ \A m \in Msgs : MaxAge >= Ttl[m]

VARIABLES
    made,      \* all notices so far; the last one's place is idRef
    shown,     \* toasts
    timers,    \* timersRef: the notices that have a timer
    queue,     \* the updaters React has not run yet
    shows,     \* the calls of show
    asked      \* history: the notices the player closed

vars == <<made, shown, timers, queue, shows, asked>>

ShowUpdate(m) == [op |-> "show", msg |-> m]
DropUpdate(i) == [op |-> "drop", id |-> i]

Init ==
    /\ made = <<>> /\ shown = {} /\ timers = {}
    /\ queue = <<>>
    /\ shows = 0
    /\ asked = {}

\* A part of the launcher has something to say.
Show(m) ==
    /\ shows < MaxShows /\ Len(queue) < MaxQueue
    /\ shows' = shows + 1
    /\ queue' = Append(queue, ShowUpdate(m))
    /\ UNCHANGED <<made, shown, timers, asked>>

\* The timer goes at once, the notice with the update.
Dismiss(i) ==
    /\ timers' = timers \ {i}
    /\ queue' = Append(queue, DropUpdate(i))

Close(i) ==
    /\ i \in shown /\ Len(queue) < MaxQueue
    /\ Dismiss(i)
    /\ asked' = asked \cup {i}
    /\ UNCHANGED <<made, shown, shows>>

Fire(i) ==
    /\ i \in timers /\ made[i].age >= Ttl[made[i].msg]
    /\ Dismiss(i)
    /\ UNCHANGED <<made, shown, shows, asked>>

Repeats(m) == \E i \in shown : made[i].msg = m /\ made[i].age < Dedupe

\* Bug: the timer of the notice that is pushed out goes on.
TrimKeepsTimer(next, started) ==
    IF Cardinality(next) > MaxToasts
    THEN \E drop \in next : /\ \A i \in next : drop <= i
                            /\ shown' = next \ {drop}
                            /\ timers' = started
    ELSE shown' = next /\ timers' = started

\* Bug: the newest notice is pushed out.
TrimNewest(next, started) ==
    IF Cardinality(next) > MaxToasts
    THEN \E drop \in next : /\ \A i \in next : drop >= i
                            /\ shown' = next \ {drop}
                            /\ timers' = started \ {drop}
    ELSE shown' = next /\ timers' = started

\* When there are too many notices the first one goes, and its timer.
Trim(next, started) ==
    IF Cardinality(next) > MaxToasts
    THEN \E drop \in next : /\ \A i \in next : drop <= i
                            /\ shown' = next \ {drop}
                            /\ timers' = started \ {drop}
    ELSE shown' = next /\ timers' = started

\* The updater of show.
RunShow ==
    /\ queue # <<>> /\ Head(queue).op = "show"
    /\ queue' = Tail(queue)
    /\ LET m  == Head(queue).msg
           id == Len(made) + 1
       IN IF Repeats(m)
          THEN UNCHANGED <<made, shown, timers>>
          ELSE /\ made' = Append(made, [msg |-> m, age |-> 0])
               /\ Trim(shown \cup {id}, IF Ttl[m] > 0 THEN timers \cup {id} ELSE timers)
    /\ UNCHANGED <<shows, asked>>

\* The updater of dismiss.
RunDrop ==
    /\ queue # <<>> /\ Head(queue).op = "drop"
    /\ queue' = Tail(queue)
    /\ shown' = shown \ {Head(queue).id}
    /\ UNCHANGED <<made, timers, shows, asked>>

Older(i) == IF i \in shown /\ made[i].age < MaxAge THEN made[i].age + 1 ELSE made[i].age

Tick ==
    /\ made' = [i \in 1..Len(made) |-> [made[i] EXCEPT !.age = Older(i)]]
    /\ UNCHANGED <<shown, timers, queue, shows, asked>>

RunUpdate == RunShow \/ RunDrop

Next ==
    \/ \E m \in Msgs : Show(m)
    \/ \E i \in shown : Close(i)
    \/ \E i \in timers : Fire(i)
    \/ RunUpdate
    \/ Tick

\* React runs the updaters, timers go off some time after they are due.
Spec ==
    /\ Init /\ [][Next]_vars
    /\ WF_vars(RunUpdate) /\ WF_vars(Tick)
    /\ \A i \in 1..MaxShows : WF_vars(Fire(i))

-----------------------------------------------------------------------------
Ids == 1..Len(made)

Notice == [msg : Msgs, age : 0..MaxAge]

Updates == {ShowUpdate(m) : m \in Msgs} \cup {DropUpdate(i) : i \in Ids}

TypeOK ==
    /\ made \in Seq(Notice)
    /\ shown \subseteq Ids /\ timers \subseteq Ids /\ asked \subseteq Ids
    /\ queue \in Seq(Updates)
    /\ shows \in 0..MaxShows

DropQueued(i) == \E n \in 1..Len(queue) : queue[n] = DropUpdate(i)

\* "dismiss clears the timer to avoid races" (Toast.tsx:74): no timer is left of
\* a notice that is gone, whichever of its timer, the player and the trimming
\* took it down, and every notice that is to go by itself has its timer until
\* the update that takes it down is on its way.
TimersMatch ==
    /\ timers \subseteq shown
    /\ \A i \in shown : Ttl[made[i].msg] > 0 /\ i \notin timers => DropQueued(i)

Board == INSTANCE NoticeBoard WITH board <- shown

\* The notices behave as the board (Toast.tsx:9-15): they go when their time is
\* up, only then or when the player closed them, the oldest first when there
\* are too many, and none is repeated at once.
IsNoticeBoard == Board!Spec
=============================================================================
