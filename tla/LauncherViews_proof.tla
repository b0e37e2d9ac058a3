------------------------- MODULE LauncherViews_proof -------------------------
(***************************************************************************)
(* Proofs about what the launcher shows: its notices (Toasts), the panel   *)
(* of the patcher (PatchPanel) and the window (LauncherUI).  The three     *)
(* share no state; each has its own inductive invariant.                   *)
(***************************************************************************)
EXTENDS Toasts, PatchPanel, LauncherUI, TLAPS, FiniteSetTheorems

-----------------------------------------------------------------------------
(* The notices.                                                            *)
TimeIsUp(i) == Ttl[made[i].msg] > 0 /\ made[i].age >= Ttl[made[i].msg]

\* A notice that an update is to take down has no timer any more, and goes for
\* one of the two reasons.
DropsFollow ==
    \A n \in 1..Len(queue) : \A i \in Ids :
        queue[n] = DropUpdate(i) => i \notin timers /\ (i \in asked \/ TimeIsUp(i))

\* Only a notice that is to go by itself has a timer.
TimersTimed == \A i \in timers : Ttl[made[i].msg] > 0

NoticesIInv == TypeOK /\ TimersMatch /\ DropsFollow /\ TimersTimed

-----------------------------------------------------------------------------
\* At first there are no notices, timers or updates.
LEMMA InitNoticesIInv == Init => NoticesIInv
  BY ToastsAssumption
  DEF Init, NoticesIInv, TypeOK, TimersMatch, DropsFollow, TimersTimed, Ids, Updates

\* What show has made is a notice.
LEMMA MadeOf ==
  ASSUME TypeOK, NEW i \in Ids
  PROVE  made[i] \in Notice /\ made[i].msg \in Msgs /\ made[i].age \in 0..MaxAge
  <1>1. made[i] \in Notice
    BY DEF TypeOK, Ids
  <1>2. QED
    BY <1>1 DEF Notice

\* What waits behind the head of the queue.
LEMMA TailOf ==
  ASSUME TypeOK, queue # <<>>
  PROVE  /\ Head(queue) = queue[1] /\ 1 \in 1..Len(queue)
         /\ Tail(queue) \in Seq(Updates)
         /\ Len(Tail(queue)) = Len(queue) - 1
         /\ \A n \in 1..Len(Tail(queue)) :
               Tail(queue)[n] = queue[n + 1] /\ n + 1 \in 1..Len(queue)
  BY DEF TypeOK

\* The head of the queue is one of the two updates.
LEMMA HeadOf ==
  ASSUME TypeOK, queue # <<>>
  PROVE  /\ Head(queue).op = "show" =>
               Head(queue).msg \in Msgs /\ Head(queue) = ShowUpdate(Head(queue).msg)
         /\ Head(queue).op = "drop" =>
               Head(queue).id \in Ids /\ Head(queue) = DropUpdate(Head(queue).id)
  <1>1. Head(queue) \in Updates
    BY DEF TypeOK
  <1>2. CASE \E m \in Msgs : Head(queue) = ShowUpdate(m)
    BY <1>2 DEF ShowUpdate
  <1>3. CASE \E i \in Ids : Head(queue) = DropUpdate(i)
    BY <1>3 DEF DropUpdate
  <1>4. QED
    BY <1>1, <1>2, <1>3 DEF Updates

\* What Trim leaves is part of what it was given, timers with their notices.
LEMMA TrimParts ==
  ASSUME NEW next, NEW started, started \subseteq next, Trim(next, started)
  PROVE  /\ shown' \subseteq next /\ timers' \subseteq started
         /\ timers' \subseteq shown'
         /\ \A i \in shown' : i \in started => i \in timers'
  <1>1. CASE shown' = next /\ timers' = started
    BY <1>1
  <1>2. ASSUME NEW drop \in next, shown' = next \ {drop}, timers' = started \ {drop}
        PROVE  /\ shown' \subseteq next /\ timers' \subseteq started
               /\ timers' \subseteq shown'
               /\ \A i \in shown' : i \in started => i \in timers'
    BY <1>2
  <1>3. QED
    BY <1>1, <1>2 DEF Trim

-----------------------------------------------------------------------------
\* Calls, from parts of the launcher, the player and timers.
LEMMA ShowStep == ASSUME NoticesIInv, NEW m \in Msgs, Show(m) PROVE NoticesIInv'
  <1> USE DEF NoticesIInv, TypeOK, Ids
  <1>1. ShowUpdate(m) \in Updates /\ \A i : ShowUpdate(m) # DropUpdate(i)
    BY DEF Updates, ShowUpdate, DropUpdate
  <1>2. TypeOK'
    <2>1. Updates' = Updates
      BY DEF Show, Updates
    <2>2. shows' \in 0..MaxShows
      BY ToastsAssumption DEF Show
    <2>3. queue' \in Seq(Updates)
      BY <1>1 DEF Show
    <2>4. QED
      BY <2>1, <2>2, <2>3 DEF Show
  <1>3. \A n \in 1..Len(queue') :
           (n \in 1..Len(queue) /\ queue'[n] = queue[n]) \/ queue'[n] = ShowUpdate(m)
    BY DEF Show
  <1>4. \A n \in 1..Len(queue) : n \in 1..Len(queue') /\ queue'[n] = queue[n]
    BY DEF Show
  <1>5. TimersMatch'
    BY <1>4 DEF Show, TimersMatch, DropQueued
  <1>6. DropsFollow'
    BY <1>1, <1>3 DEF Show, DropsFollow, TimeIsUp
  <1>7. TimersTimed'
    BY DEF Show, TimersTimed
  <1>8. QED
    BY <1>2, <1>5, <1>6, <1>7

\* dismiss removes a notice and its timer.
LEMMA DismissStep ==
  ASSUME NoticesIInv, NEW i \in Ids, Dismiss(i), UNCHANGED <<made, shown, shows>>,
         asked' = asked \/ asked' = asked \cup {i},
         i \in asked' \/ TimeIsUp(i)
  PROVE  NoticesIInv'
  <1> USE DEF NoticesIInv, TypeOK, Ids
  <1>1. DropUpdate(i) \in Updates
    BY DEF Updates
  <1>2. TypeOK'
    BY <1>1 DEF Dismiss, Updates
  <1>3. \A n \in 1..Len(queue') :
           (n \in 1..Len(queue) /\ queue'[n] = queue[n]) \/ queue'[n] = DropUpdate(i)
    BY DEF Dismiss
  <1>4. \A n \in 1..Len(queue) : n \in 1..Len(queue') /\ queue'[n] = queue[n]
    BY DEF Dismiss
  <1>5. Len(queue) + 1 \in 1..Len(queue') /\ queue'[Len(queue) + 1] = DropUpdate(i)
    BY DEF Dismiss
  <1>6. TimersMatch'
    BY <1>4, <1>5 DEF Dismiss, TimersMatch, DropQueued
  <1>7. \A k \in Ids : DropUpdate(k) = DropUpdate(i) => k = i
    BY DEF DropUpdate
  <1>8. \A k \in Ids : TimeIsUp(k)' <=> TimeIsUp(k)
    BY DEF TimeIsUp
  <1>9. DropsFollow'
    BY <1>3, <1>7, <1>8 DEF Dismiss, DropsFollow
  <1>10. TimersTimed'
    BY DEF Dismiss, TimersTimed
  <1>11. QED
    BY <1>2, <1>6, <1>9, <1>10

\* React runs the updater of show.
LEMMA RunShowStep == ASSUME NoticesIInv, RunShow PROVE NoticesIInv'
  <1> USE DEF NoticesIInv
  <1> DEFINE m == Head(queue).msg
             id == Len(made) + 1
  <1>1. queue # <<>> /\ queue' = Tail(queue) /\ Head(queue) = ShowUpdate(m) /\ m \in Msgs
    BY HeadOf DEF RunShow
  <1>2. \A i \in Ids : DropQueued(i) => DropQueued(i)'
    <2>1. SUFFICES ASSUME NEW i \in Ids, NEW n \in 1..Len(queue), queue[n] = DropUpdate(i)
                   PROVE  \E k \in 1..Len(queue') : queue'[k] = DropUpdate(i)
      BY DEF DropQueued
    <2>2. n # 1
      BY <1>1, <2>1, TailOf DEF ShowUpdate, DropUpdate
    <2>3. n - 1 \in 1..Len(queue') /\ queue'[n - 1] = queue[n]
      BY <1>1, <2>2, TailOf DEF TypeOK
    <2>4. QED
      BY <2>1, <2>3
  <1>3. \A n \in 1..Len(queue') : n + 1 \in 1..Len(queue) /\ queue'[n] = queue[n + 1]
    BY <1>1, TailOf
  <1>4. CASE UNCHANGED <<made, shown, timers>>
    <2>1. TypeOK'
      BY <1>1, <1>4, TailOf DEF RunShow, TypeOK, Ids, Updates
    <2>2. TimersMatch'
      BY <1>2, <1>4 DEF TimersMatch, TypeOK
    <2>3. DropsFollow'
      BY <1>3, <1>4 DEF RunShow, DropsFollow, TimeIsUp, Ids
    <2>4. TimersTimed'
      BY <1>4 DEF TimersTimed
    <2>5. QED
      BY <2>1, <2>2, <2>3, <2>4
  <1>5. CASE /\ made' = Append(made, [msg |-> m, age |-> 0])
             /\ Trim(shown \cup {id}, IF Ttl[m] > 0 THEN timers \cup {id} ELSE timers)
    <2>1. /\ made' \in Seq(Notice) /\ Len(made') = id
          /\ made'[id].msg = m
          /\ \A i \in Ids : i \in Ids' /\ i # id /\ made'[i] = made[i]
      BY <1>1, <1>5, ToastsAssumption DEF TypeOK, Ids, Notice
    <2> DEFINE next == shown \cup {id}
               started == IF Ttl[m] > 0 THEN timers \cup {id} ELSE timers
    <2>2. started \subseteq next
      BY DEF TimersMatch
    <2>3. /\ shown' \subseteq next /\ timers' \subseteq started
          /\ timers' \subseteq shown'
          /\ \A i \in shown' : i \in started => i \in timers'
      <3> HIDE DEF next, started
      <3>1. Trim(next, started)
        BY <1>5 DEF next, started
      <3>2. QED
        BY <2>2, <3>1, TrimParts
    <2>4. Ids' = Ids \cup {id} /\ id \in Ids' /\ id \notin Ids
      BY <2>1 DEF Ids, TypeOK
    <2>5. TypeOK'
      <3>1. shown' \subseteq Ids' /\ timers' \subseteq Ids' /\ asked' \subseteq Ids'
        BY <2>3, <2>4 DEF TypeOK, RunShow
      <3>2. Updates \subseteq Updates'
        BY <2>4 DEF Updates
      <3>3. queue' \in Seq(Updates')
        BY <1>1, <3>2, TailOf
      <3>4. QED
        BY <2>1, <3>1, <3>3 DEF TypeOK, RunShow, Notice
    <2>6. TimersMatch'
      <3>1. ASSUME NEW i \in shown', Ttl[made'[i].msg] > 0, i \notin timers'
            PROVE  DropQueued(i)'
        <4>1. i \notin started
          BY <2>3, <3>1
        <4>2. i # id
          BY <2>1, <3>1, <4>1
        <4>3. i \in shown /\ i \notin timers /\ i \in Ids
          BY <2>3, <4>1, <4>2 DEF TypeOK
        <4>4. QED
          BY <1>2, <2>1, <3>1, <4>3 DEF TimersMatch
      <3>2. QED
        BY <2>3, <3>1 DEF TimersMatch
    <2>7. DropsFollow'
      <3>1. SUFFICES ASSUME NEW n \in 1..Len(queue'), NEW i \in Ids', queue'[n] = DropUpdate(i)
                     PROVE  i \notin timers' /\ (i \in asked' \/ TimeIsUp(i)')
        BY DEF DropsFollow
      <3>2. i \in Ids
        <4>1. queue[n + 1] \in Updates
          BY <1>3 DEF TypeOK
        <4>2. queue[n + 1] = DropUpdate(i)
          BY <1>3, <3>1
        <4>3. PICK k \in Ids : queue[n + 1] = DropUpdate(k)
          <5>1. \A x \in Msgs : ShowUpdate(x) # DropUpdate(i)
            BY DEF ShowUpdate, DropUpdate
          <5>2. QED
            BY <4>1, <4>2, <5>1 DEF Updates
        <4>4. QED
          BY <4>2, <4>3 DEF DropUpdate
      <3>3. i \notin timers /\ (i \in asked \/ TimeIsUp(i))
        BY <1>3, <3>1, <3>2 DEF DropsFollow
      <3>4. QED
        BY <2>1, <2>3, <3>2, <3>3 DEF RunShow, TimeIsUp
    <2>8. TimersTimed'
      <3>1. ASSUME NEW i \in timers' PROVE Ttl[made'[i].msg] > 0
        <4>1. CASE i = id
          BY <2>1, <2>3, <2>4, <3>1, <4>1 DEF TypeOK
        <4>2. CASE i # id
          BY <2>1, <2>3, <3>1, <4>2 DEF TimersTimed, TypeOK
        <4>3. QED
          BY <4>1, <4>2
      <3>2. QED
        BY <3>1 DEF TimersTimed
    <2>9. QED
      BY <2>5, <2>6, <2>7, <2>8
  <1>6. QED
    BY <1>4, <1>5 DEF RunShow

\* React runs the updater of dismiss.
LEMMA RunDropStep == ASSUME NoticesIInv, RunDrop PROVE NoticesIInv'
  <1> USE DEF NoticesIInv
  <1> DEFINE d == Head(queue).id
  <1>1. /\ queue # <<>> /\ queue' = Tail(queue) /\ queue[1] = DropUpdate(d) /\ d \in Ids
        /\ 1 \in 1..Len(queue)
    BY HeadOf, TailOf DEF RunDrop
  <1>2. UNCHANGED <<made, timers, shows, asked>> /\ shown' = shown \ {d}
    BY DEF RunDrop
  <1>3. \A n \in 1..Len(queue') : n + 1 \in 1..Len(queue) /\ queue'[n] = queue[n + 1]
    BY <1>1, TailOf
  <1>4. TypeOK'
    BY <1>1, <1>2, TailOf DEF TypeOK, Ids, Updates
  <1>5. d \notin timers
    BY <1>1 DEF DropsFollow
  <1>6. TimersMatch'
    <2>1. ASSUME NEW i \in shown', Ttl[made'[i].msg] > 0, i \notin timers'
          PROVE  DropQueued(i)'
      <3>1. i \in shown /\ i # d /\ i \in Ids /\ DropQueued(i)
        BY <1>2, <2>1 DEF TimersMatch, TypeOK
      <3>2. PICK n \in 1..Len(queue) : queue[n] = DropUpdate(i)
        BY <3>1 DEF DropQueued
      <3>3. n # 1
        BY <1>1, <3>1, <3>2 DEF DropUpdate
      <3>4. n - 1 \in 1..Len(queue') /\ queue'[n - 1] = queue[n]
        BY <1>1, <3>3, TailOf DEF TypeOK
      <3>5. QED
        BY <3>2, <3>4 DEF DropQueued
    <2>2. QED
      BY <1>2, <1>5, <2>1 DEF TimersMatch
  <1>7. DropsFollow'
    BY <1>2, <1>3 DEF DropsFollow, TimeIsUp, Ids
  <1>8. TimersTimed'
    BY <1>2 DEF TimersTimed
  <1>9. QED
    BY <1>4, <1>6, <1>7, <1>8

\* Notices only get older.
LEMMA TickStep == ASSUME NoticesIInv, Tick PROVE NoticesIInv'
  <1> USE DEF NoticesIInv
  <1>1. \A i \in Ids : Older(i) \in 0..MaxAge /\ Older(i) >= made[i].age
    <2>1. SUFFICES ASSUME NEW i \in Ids PROVE Older(i) \in 0..MaxAge /\ Older(i) >= made[i].age
      OBVIOUS
    <2>2. made[i].age \in 0..MaxAge
      BY MadeOf
    <2>3. QED
      BY <2>2, ToastsAssumption DEF Older
  <1>2. /\ made' \in Seq(Notice) /\ Len(made') = Len(made)
        /\ \A i \in Ids : made'[i].msg = made[i].msg /\ made'[i].age = Older(i)
    <2>1. \A i \in Ids : made[i] \in Notice
      BY MadeOf
    <2>2. \A i \in Ids : [made[i] EXCEPT !.age = Older(i)] \in Notice
      BY <1>1, <2>1 DEF Notice
    <2>3. Len(made) \in Nat
      BY DEF TypeOK
    <2>4. made' = [i \in 1..Len(made) |-> [made[i] EXCEPT !.age = Older(i)]]
      BY DEF Tick
    <2>5. made' \in Seq(Notice) /\ Len(made') = Len(made)
      BY <2>2, <2>3, <2>4 DEF Ids
    <2>6. \A i \in Ids : made'[i] = [made[i] EXCEPT !.age = Older(i)]
      BY <2>4 DEF Ids
    <2>7. QED
      BY <2>1, <2>5, <2>6 DEF Notice
  <1>3. Ids' = Ids /\ UNCHANGED <<shown, timers, queue, shows, asked>>
    BY <1>2 DEF Tick, Ids
  <1>4. TypeOK'
    BY <1>2, <1>3 DEF TypeOK, Updates, Notice
  <1>5. TimersMatch'
    BY <1>2, <1>3 DEF TimersMatch, DropQueued, TypeOK
  <1>6. DropsFollow'
    <2>1. ASSUME NEW i \in Ids, TimeIsUp(i) PROVE TimeIsUp(i)'
      <3>1. made[i].age \in Nat /\ Ttl[made[i].msg] \in Nat /\ Older(i) \in Nat
        BY <1>1, MadeOf, ToastsAssumption
      <3>2. QED
        BY <1>1, <1>2, <2>1, <3>1 DEF TimeIsUp
    <2>2. QED
      BY <1>3, <2>1 DEF DropsFollow
  <1>7. TimersTimed'
    BY <1>2, <1>3 DEF TimersTimed, TypeOK
  <1>8. QED
    BY <1>4, <1>5, <1>6, <1>7

\* What the steps keep holds always.
LEMMA NoticesIInvHolds == Spec => []NoticesIInv
  <1>1. NoticesIInv /\ [Next]_vars => NoticesIInv'
    <2> SUFFICES ASSUME NoticesIInv, [Next]_vars PROVE NoticesIInv'
      OBVIOUS
    <2>1. ASSUME NEW m \in Msgs, Show(m) PROVE NoticesIInv'
      BY <2>1, ShowStep
    <2>2. ASSUME NEW i \in shown, Close(i) PROVE NoticesIInv'
      <3>1. i \in Ids /\ i \in asked'
        BY <2>2 DEF NoticesIInv, TypeOK, Close
      <3>2. QED
        BY <2>2, <3>1, DismissStep DEF Close
    <2>3. ASSUME NEW i \in timers, Fire(i) PROVE NoticesIInv'
      <3>1. i \in Ids /\ TimeIsUp(i)
        BY <2>3 DEF Fire, TimeIsUp, NoticesIInv, TypeOK, TimersTimed
      <3>2. QED
        BY <2>3, <3>1, DismissStep DEF Fire
    <2>4. CASE RunShow
      BY <2>4, RunShowStep
    <2>5. CASE RunDrop
      BY <2>5, RunDropStep
    <2>6. CASE Tick
      BY <2>6, TickStep
    <2>7. CASE UNCHANGED vars
      BY <2>7 DEF vars, NoticesIInv, TypeOK, Ids, Updates, TimersMatch, DropQueued, DropsFollow,
                  TimersTimed, TimeIsUp
    <2>8. QED
      BY <2>1, <2>2, <2>3, <2>4, <2>5, <2>6, <2>7 DEF Next, RunUpdate
  <1>2. QED
    BY InitNoticesIInv, <1>1, PTL DEF Spec

-----------------------------------------------------------------------------
\* The notices, their timers and the updates that wait are well formed.
THEOREM ToastsTypeOK == Spec => []TypeOK
  <1>1. NoticesIInv => TypeOK
    BY DEF NoticesIInv
  <1>2. QED
    BY NoticesIInvHolds, <1>1, PTL

\* dismiss and the trimming leave no timer of a notice that is gone, and none
\* that is to go by itself is without one.
THEOREM TimersMatchHolds == Spec => []TimersMatch
  <1>1. NoticesIInv => TimersMatch
    BY DEF NoticesIInv
  <1>2. QED
    BY NoticesIInvHolds, <1>1, PTL

\* The steps of show, dismiss, the timers and the updates are those of the
\* notice board, or none: what goes was to go, the oldest goes first, nothing
\* is repeated at once.
THEOREM ImplementsBoard == Spec => Board!SafeSpec
  <1>1. Init => Board!Init
    BY DEF Init, Board!Init
  <1>2. NoticesIInv /\ [Next]_vars => [Board!Next]_(Board!vars)
    <2> SUFFICES ASSUME NoticesIInv, [Next]_vars PROVE [Board!Next]_(Board!vars)
      OBVIOUS
    <2>1. ASSUME NEW m \in Msgs, Show(m) PROVE UNCHANGED Board!vars
      BY <2>1 DEF Show, Board!vars
    <2>2. ASSUME NEW i \in shown, Close(i) PROVE Board!Ask(i)
      BY <2>2 DEF Close, Board!Ask
    <2>3. ASSUME NEW i \in timers, Fire(i) PROVE UNCHANGED Board!vars
      BY <2>3 DEF Fire, Board!vars
    <2>4. CASE RunShow
      <3> DEFINE m == Head(queue).msg
                 next == shown \cup {Len(made) + 1}
      <3>1. m \in Msgs
        BY <2>4, HeadOf DEF RunShow, NoticesIInv
      <3>2. CASE UNCHANGED <<made, shown, timers>>
        BY <2>4, <3>2 DEF RunShow, Board!vars
      <3>3. CASE /\ ~Repeats(m)
                 /\ made' = Append(made, [msg |-> m, age |-> 0])
                 /\ Trim(next, IF Ttl[m] > 0 THEN timers \cup {Len(made) + 1} ELSE timers)
        <4>1. \A i \in shown : made[i].msg = m => made[i].age >= Dedupe
          <5>1. SUFFICES ASSUME NEW i \in shown, made[i].msg = m PROVE made[i].age >= Dedupe
            OBVIOUS
          <5>2. made[i].age \in 0..MaxAge /\ ~(made[i].age < Dedupe)
            BY <3>3, <5>1, MadeOf DEF Repeats, NoticesIInv, TypeOK
          <5>3. QED
            BY <5>2, ToastsAssumption
        <4>2. shown' = Board!Newest(next)
          <5>1. next \subseteq Nat
            <6>1. Len(made) + 1 \in Nat /\ shown \subseteq Nat
              BY DEF NoticesIInv, TypeOK, Ids
            <6>2. QED
              BY <6>1
          <5> Board!Cardinality(next) = Cardinality(next)
            BY DEF Cardinality, Board!Cardinality
          <5>2. CASE Cardinality(next) > MaxToasts
            <6>1. PICK drop \in next : (\A i \in next : drop <= i) /\ shown' = next \ {drop}
              BY <3>3, <5>2 DEF Trim
            <6>2. \A i \in next : i # drop <=> \E k \in next : k < i
              BY <5>1, <6>1
            <6>3. next \ {drop} = {i \in next : \E k \in next : k < i}
              BY <6>2
            <6>4. QED
              BY <5>2, <6>1, <6>3 DEF Board!Newest
          <5>3. CASE ~(Cardinality(next) > MaxToasts)
            BY <3>3, <5>3 DEF Trim, Board!Newest
          <5>4. QED
            BY <5>2, <5>3
        <4>3. Board!Post(m)
          BY <2>4, <3>3, <4>1, <4>2 DEF RunShow, Board!Post
        <4>4. QED
          BY <3>1, <4>3 DEF Board!Next
      <3>4. QED
        BY <2>4, <3>2, <3>3 DEF RunShow
    <2>5. CASE RunDrop
      <3> DEFINE d == Head(queue).id
      <3>1. /\ queue[1] = DropUpdate(d) /\ d \in Ids /\ 1 \in 1..Len(queue)
        BY <2>5, HeadOf, TailOf DEF RunDrop, NoticesIInv
      <3>2. d \in asked \/ TimeIsUp(d)
        BY <3>1 DEF NoticesIInv, DropsFollow
      <3>3. CASE d \in shown
        <4>1. Board!Remove(d)
          BY <2>5, <3>2, <3>3 DEF RunDrop, Board!Remove, Board!TimeIsUp, TimeIsUp
        <4>2. QED
          BY <3>3, <4>1 DEF Board!Next
      <3>4. CASE d \notin shown
        BY <2>5, <3>4 DEF RunDrop, Board!vars
      <3>5. QED
        BY <3>3, <3>4
    <2>6. CASE Tick
      <3>1. \A i : Older(i) = Board!Older(i)
        BY DEF Older, Board!Older
      <3>2. Board!Tick
        BY <2>6, <3>1 DEF Tick, Board!Tick
      <3>3. QED
        BY <3>2 DEF Board!Next
    <2>7. CASE UNCHANGED vars
      BY <2>7 DEF vars, Board!vars
    <2>8. QED
      BY <2>1, <2>2, <2>3, <2>4, <2>5, <2>6, <2>7 DEF Next, RunUpdate, Board!Next
  <1>3. QED
    BY <1>1, <1>2, NoticesIInvHolds, PTL DEF Spec, Board!SafeSpec

-----------------------------------------------------------------------------
(* The patch panel.                                                        *)
\* What the jobs say to the screen.
Said == {"refused", "busy", "other", "complete", "error"}

\* What the variables of the panel may hold.
PanelTypeOK ==
    /\ onScreen \in {"main", "settings"}
    /\ patchPhase \in {"none", "busy", "other", "complete", "error"}
    /\ job \in [Jobs -> {"none", "fetch", "run", "said", "done"}]
    /\ cancelled \subseteq Jobs /\ orphaned \subseteq Jobs
    /\ patchCancel \in Jobs \cup {NoJob}
    /\ events \in Seq(Said)
    /\ verdict \in {"none", "complete", "error"}
    /\ saved \in Paths \cup {NoPath} /\ draft \in Paths \cup {NoPath}
    /\ timer \in Paths \cup {NoPath, Nothing}
    /\ saves \subseteq Paths
    /\ prefs \in Paths \cup {NoPath, Nothing, "asked"}
    /\ overtook \in BOOLEAN

\* No job runs.
Silent == \A k \in Jobs : job[k] # "run"

\* The last word of the jobs that waits for the screen.
LastWord(q, n) == q[n] # "refused" /\ \A m \in 1..Len(q) : m > n => q[m] = "refused"

\* When no job runs the last word under way is how the last job ended; when none
\* is under way the panel shows it, or nothing.
StatusFollows ==
    /\ onScreen = "settings" => patchPhase = "none"
    /\ Silent =>
          /\ \A n \in 1..Len(events) : LastWord(events, n) => events[n] = verdict
          /\ (\A n \in 1..Len(events) : events[n] = "refused") => patchPhase \in {"none", verdict}

\* Where the text of the field is until it is saved.
DraftOnItsWay ==
    IF prefs # Nothing THEN saves = {} /\ timer = Nothing /\ prefs \in {"asked", saved}
    ELSE IF timer # Nothing THEN saves = {} /\ timer = draft
    ELSE IF saves # {} THEN saves = {draft}
    ELSE draft \in {saved, NoPath}

\* Both timers of the field are of the settings page; unless two calls crossed,
\* the text is somewhere on its way.
PathFollows ==
    /\ timer # Nothing \/ prefs # Nothing => onScreen = "settings"
    /\ onScreen = "settings" /\ ~overtook => DraftOnItsWay

PanelIInv == PanelTypeOK /\ OneJobGoesOn /\ StatusFollows /\ PathFollows

-----------------------------------------------------------------------------
\* At the start nothing runs, waits or is edited.
LEMMA InitPanelIInv == PanelInit => PanelIInv
  <1> SUFFICES ASSUME PanelInit PROVE PanelIInv
    OBVIOUS
  <1>1. PanelTypeOK
    <2>1. events \in Seq(Said)
      BY DEF PanelInit
    <2>2. QED
      BY <2>1 DEF PanelInit, PanelTypeOK
  <1>2. OneJobGoesOn
    BY DEF PanelInit, OneJobGoesOn
  <1>3. StatusFollows
    BY DEF PanelInit, StatusFollows, LastWord
  <1>4. PathFollows
    BY DEF PanelInit, PathFollows
  <1>5. QED
    BY <1>1, <1>2, <1>3, <1>4 DEF PanelIInv

\* The player and the Go side do what the types say.
LEMMA PanelTypeStep == ASSUME PanelTypeOK, [PanelNext]_panelVars PROVE PanelTypeOK'
  <1> USE DEF PanelTypeOK
  <1>1. ASSUME NEW k \in Jobs, Click(k) PROVE PanelTypeOK'
    BY <1>1 DEF Click, settings
  <1>2. ASSUME NEW k \in Jobs, Refuse(k) PROVE PanelTypeOK'
    BY <1>2 DEF Refuse, panel, settings, Said
  <1>3. ASSUME NEW k \in Jobs, Register(k) PROVE PanelTypeOK'
    BY <1>3 DEF Register, panel, settings, NoJob
  <1>4. ASSUME NEW k \in Jobs, Progress(k) PROVE PanelTypeOK'
    BY <1>4 DEF Progress, panel, jobs, settings, Said
  <1>5. ASSUME NEW k \in Jobs, End(k) PROVE PanelTypeOK'
    BY <1>5 DEF End, panel, settings, Said
  <1>6. ASSUME NEW k \in Jobs, Forget(k) PROVE PanelTypeOK'
    BY <1>6 DEF Forget, panel, settings, NoJob
  <1>7. ASSUME Deliver PROVE PanelTypeOK'
    <2>1. /\ Head(events) \in Said
          /\ Tail(events) \in Seq(Said)
      BY <1>7 DEF Deliver
    <2>2. patchPhase' \in {"none", "busy", "other", "complete", "error"}
      BY <1>7, <2>1 DEF Deliver, ShowPhase, Said
    <2>3. QED
      BY <1>7, <2>1, <2>2 DEF Deliver, jobs, settings
  <1>8. ASSUME Launch \/ Launched \/ \E yes \in BOOLEAN : Answer(yes) PROVE PanelTypeOK'
    BY <1>8 DEF Launch, Launched, Answer, jobs, settings
  <1>9. ASSUME OpenSettings \/ OpenMain PROVE PanelTypeOK'
    BY <1>9 DEF OpenSettings, OpenMain, panel, jobs
  <1>10. ASSUME ReadPrefs \/ ShowPrefs PROVE PanelTypeOK'
    BY <1>10 DEF ReadPrefs, ShowPrefs, panel, jobs
  <1>11. ASSUME Save PROVE PanelTypeOK'
    BY <1>11 DEF Save, panel, jobs
  <1>12. ASSUME NEW p \in Paths \cup {NoPath}, Edit(p) \/ SetClientPath(p) PROVE PanelTypeOK'
    BY <1>12 DEF Edit, SetClientPath, panel, jobs
  <1>13. ASSUME UNCHANGED panelVars PROVE PanelTypeOK'
    BY <1>13 DEF panelVars, panel, jobs, settings
  <1>14. QED
    BY <1>1, <1>2, <1>3, <1>4, <1>5, <1>6, <1>7, <1>8, <1>9, <1>10, <1>11, <1>12, <1>13
    DEF PanelNext, JobStep

-----------------------------------------------------------------------------
\* What the player does leaves the jobs alone, but for the click.
LEMMA JobsStay ==
  ASSUME \/ Deliver \/ Launch \/ Launched \/ OpenSettings \/ OpenMain \/ ReadPrefs \/ ShowPrefs
         \/ Save \/ UNCHANGED panelVars \/ (\E yes \in BOOLEAN : Answer(yes))
         \/ (\E p \in Paths \cup {NoPath} : Edit(p) \/ SetClientPath(p))
  PROVE  UNCHANGED jobs
  BY DEF Deliver, Launch, Launched, OpenSettings, OpenMain, ReadPrefs, ShowPrefs, Save, panelVars,
         Answer, Edit, SetClientPath

\* Only the click starts a job, and then it takes the last one's place.
LEMMA OneJobStep ==
  ASSUME PanelTypeOK, OneJobGoesOn, [PanelNext]_panelVars
  PROVE  OneJobGoesOn'
  <1> USE DEF PanelTypeOK, OneJobGoesOn
  <1>0. NoJob \notin Jobs
    BY PatchPanelAssumption DEF NoJob, Jobs
  <1>1. ASSUME NEW k \in Jobs, Click(k) \/ Refuse(k) \/ End(k) PROVE OneJobGoesOn'
    BY <1>1 DEF Click, Refuse, End
  <1>2. ASSUME NEW k \in Jobs, Register(k) PROVE OneJobGoesOn'
    BY <1>2, <1>0 DEF Register
  <1>3. ASSUME NEW k \in Jobs, Progress(k) PROVE OneJobGoesOn'
    BY <1>3 DEF Progress, jobs
  <1>4. ASSUME NEW k \in Jobs, Forget(k) PROVE OneJobGoesOn'
    BY <1>4, <1>0 DEF Forget
  <1>5. ASSUME UNCHANGED jobs PROVE OneJobGoesOn'
    BY <1>5 DEF jobs
  <1>6. QED
    BY <1>1, <1>2, <1>3, <1>4, <1>5, JobsStay DEF PanelNext, JobStep

-----------------------------------------------------------------------------
\* A silence was there before, unless the last job has ended.
LEMMA SilentBefore ==
  ASSUME PanelTypeOK, Silent', NEW k \in Jobs, Click(k) \/ Refuse(k) \/ Forget(k)
  PROVE  Silent
  <1>1. ASSUME NEW j \in Jobs, job[j] = "run" PROVE FALSE
    BY <1>1 DEF PanelTypeOK, Silent, Click, Refuse, Forget
  <1>2. QED
    BY <1>1 DEF Silent

\* One more event; a refusal is not a word.
LEMMA OneMoreEvent ==
  ASSUME PanelTypeOK, NEW e \in Said,
         events' = Append(events, e)
  PROVE  /\ Len(events') = Len(events) + 1 /\ events'[Len(events) + 1] = e
         /\ \A n \in 1..Len(events) : events'[n] = events[n]
         /\ 1..Len(events') = (1..Len(events)) \cup {Len(events) + 1}
  BY DEF PanelTypeOK

\* A word is said when a job ends, by the job that ended last; the screen takes
\* the words in their order.
LEMMA StatusStep ==
  ASSUME PanelTypeOK, StatusFollows, [PanelNext]_panelVars
  PROVE  StatusFollows'
  <1>1. ASSUME NEW k \in Jobs, Click(k) \/ Forget(k) PROVE StatusFollows'
    <2>1. UNCHANGED <<onScreen, patchPhase, events, verdict>>
      BY <1>1 DEF Click, Forget, panel
    <2>2. Silent' => Silent
      BY <1>1, SilentBefore
    <2>3. QED
      BY <2>1, <2>2 DEF StatusFollows, LastWord
  <1>2. ASSUME NEW k \in Jobs, Refuse(k) PROVE StatusFollows'
    <2>1. /\ UNCHANGED <<onScreen, patchPhase, verdict>>
          /\ "refused" \in Said /\ events' = Append(events, "refused")
      BY <1>2 DEF Refuse, panel, Said
    <2>2. Silent' => Silent
      BY <1>2, SilentBefore
    <2>3. /\ Len(events') = Len(events) + 1 /\ events'[Len(events) + 1] = "refused"
          /\ \A n \in 1..Len(events) : events'[n] = events[n]
          /\ 1..Len(events') = (1..Len(events)) \cup {Len(events) + 1}
      BY <2>1, OneMoreEvent
    <2>4. ASSUME NEW n \in 1..Len(events'), LastWord(events', n)
          PROVE  n \in 1..Len(events) /\ LastWord(events, n)
      BY <2>3, <2>4 DEF LastWord
    <2>5. (\A n \in 1..Len(events') : events'[n] = "refused")
             => \A n \in 1..Len(events) : events[n] = "refused"
      BY <2>3
    <2>6. QED
      BY <2>1, <2>2, <2>3, <2>4, <2>5 DEF StatusFollows
  <1>3. ASSUME NEW k \in Jobs, Register(k) PROVE StatusFollows'
    <2>1. ~Silent' /\ UNCHANGED <<onScreen, patchPhase>>
      BY <1>3 DEF Register, Silent, PanelTypeOK, panel
    <2>2. QED
      BY <2>1 DEF StatusFollows
  <1>4. ASSUME NEW k \in Jobs, Progress(k) PROVE StatusFollows'
    <2>1. ~Silent' /\ UNCHANGED <<onScreen, patchPhase>>
      BY <1>4 DEF Progress, Silent, jobs, panel
    <2>2. QED
      BY <2>1 DEF StatusFollows
  <1>5. ASSUME NEW k \in Jobs, End(k) PROVE StatusFollows'
    <2>1. PICK e \in {"complete", "error"} :
             /\ e \in Said /\ events' = Append(events, e) /\ verdict' = e
             /\ UNCHANGED <<onScreen, patchPhase>>
      BY <1>5 DEF End, panel, Said
    <2>2. /\ Len(events') = Len(events) + 1 /\ events'[Len(events) + 1] = e
          /\ 1..Len(events') = (1..Len(events)) \cup {Len(events) + 1}
      BY <2>1, OneMoreEvent
    <2>3. Len(events) \in Nat
      BY DEF PanelTypeOK
    <2>4. ASSUME NEW n \in 1..Len(events'), LastWord(events', n) PROVE events'[n] = verdict'
      BY <2>1, <2>2, <2>3, <2>4 DEF LastWord
    <2>5. ~\A n \in 1..Len(events') : events'[n] = "refused"
      BY <2>1, <2>2, <2>3
    <2>6. QED
      BY <2>1, <2>4, <2>5 DEF StatusFollows
  <1>6. ASSUME Deliver PROVE StatusFollows'
    <2>1. UNCHANGED <<onScreen, verdict>> /\ (Silent' => Silent)
      BY <1>6 DEF Deliver, jobs, Silent
    <2>2. /\ 1 \in 1..Len(events) /\ Head(events) = events[1]
          /\ Len(events') = Len(events) - 1
          /\ \A n \in 1..Len(events') : events'[n] = events[n + 1] /\ n + 1 \in 1..Len(events)
          /\ \A n \in 1..Len(events) : n = 1 \/ n - 1 \in 1..Len(events')
      BY <1>6 DEF Deliver, PanelTypeOK
    <2>3. ASSUME NEW n \in 1..Len(events'), LastWord(events', n) PROVE LastWord(events, n + 1)
      <3>1. ASSUME NEW m \in 1..Len(events), m > n + 1 PROVE events[m] = "refused"
        <4>1. m - 1 \in 1..Len(events') /\ m - 1 > n /\ events'[m - 1] = events[m]
          BY <2>2, <3>1
        <4>2. QED
          BY <2>3, <4>1 DEF LastWord
      <3>2. QED
        BY <2>2, <2>3, <3>1 DEF LastWord
    <2>4. ASSUME \A n \in 1..Len(events') : events'[n] = "refused"
          PROVE  \A m \in 1..Len(events) : m > 1 => events[m] = "refused"
      <3>1. ASSUME NEW m \in 1..Len(events), m > 1 PROVE events[m] = "refused"
        <4>1. m - 1 \in 1..Len(events') /\ events'[m - 1] = events[m]
          BY <2>2, <3>1
        <4>2. QED
          BY <2>4, <4>1
      <3>2. QED
        BY <3>1
    <2>5. ASSUME Silent, \A n \in 1..Len(events') : events'[n] = "refused"
          PROVE  patchPhase' \in {"none", verdict}
      <3>1. CASE events[1] = "refused"
        <4>1. \A n \in 1..Len(events) : events[n] = "refused"
          BY <2>4, <2>5, <3>1
        <4>2. patchPhase' = patchPhase
          BY <1>6, <2>2, <3>1 DEF Deliver, ShowPhase
        <4>3. QED
          BY <2>5, <4>1, <4>2 DEF StatusFollows
      <3>2. CASE events[1] # "refused"
        <4>1. LastWord(events, 1)
          BY <2>4, <2>5, <3>2 DEF LastWord
        <4>2. events[1] = verdict
          BY <2>2, <2>5, <4>1 DEF StatusFollows
        <4>3. CASE onScreen = "main"
          BY <1>6, <2>2, <3>2, <4>2, <4>3 DEF Deliver, ShowPhase
        <4>4. CASE onScreen # "main"
          BY <1>6, <4>4 DEF Deliver, StatusFollows, PanelTypeOK
        <4>5. QED
          BY <4>3, <4>4
      <3>3. QED
        BY <3>1, <3>2
    <2>6. onScreen = "settings" => patchPhase' = "none"
      BY <1>6 DEF Deliver, StatusFollows
    <2>7. QED
      BY <2>1, <2>2, <2>3, <2>5, <2>6 DEF StatusFollows
  <1>7. ASSUME OpenSettings PROVE StatusFollows'
    BY <1>7 DEF OpenSettings, StatusFollows, jobs, Silent, LastWord
  <1>8. ASSUME OpenMain PROVE StatusFollows'
    BY <1>8 DEF OpenMain, StatusFollows, jobs, panel, Silent, LastWord
  <1>9. ASSUME UNCHANGED <<onScreen, patchPhase, events, jobs>> PROVE StatusFollows'
    BY <1>9 DEF StatusFollows, jobs, Silent, LastWord
  <1>10. ASSUME \/ Launch \/ Launched \/ ReadPrefs \/ ShowPrefs \/ Save \/ UNCHANGED panelVars
                \/ (\E yes \in BOOLEAN : Answer(yes))
                \/ (\E p \in Paths \cup {NoPath} : Edit(p) \/ SetClientPath(p))
         PROVE  UNCHANGED <<onScreen, patchPhase, events, jobs>>
    BY <1>10 DEF Launch, Launched, ReadPrefs, ShowPrefs, Save, panelVars, Answer, Edit,
                 SetClientPath, panel
  <1>11. QED
    BY <1>1, <1>2, <1>3, <1>4, <1>5, <1>6, <1>7, <1>8, <1>9, <1>10 DEF PanelNext, JobStep

-----------------------------------------------------------------------------
\* The text goes from the field to the timer, the call and the preferences.
LEMMA PathStep ==
  ASSUME PanelTypeOK, PathFollows, [PanelNext]_panelVars
  PROVE  PathFollows'
  <1> USE PatchPanelAssumption DEF PathFollows, DraftOnItsWay
  <1>1. ASSUME OpenSettings PROVE PathFollows'
    BY <1>1 DEF OpenSettings, Nothing
  <1>2. ASSUME OpenMain PROVE PathFollows'
    BY <1>2 DEF OpenMain
  <1>3. ASSUME ReadPrefs PROVE PathFollows'
    BY <1>3 DEF ReadPrefs, PanelTypeOK, Nothing
  <1>4. ASSUME ShowPrefs PROVE PathFollows'
    BY <1>4 DEF ShowPrefs, Nothing
  <1>5. ASSUME Save PROVE PathFollows'
    BY <1>5 DEF Save
  <1>6. ASSUME NEW p \in Paths \cup {NoPath}, Edit(p) PROVE PathFollows'
    BY <1>6 DEF Edit
  <1>7. ASSUME NEW p \in Paths \cup {NoPath}, SetClientPath(p) PROVE PathFollows'
    BY <1>7 DEF SetClientPath
  <1>8. ASSUME UNCHANGED <<onScreen, settings>> PROVE PathFollows'
    BY <1>8 DEF settings
  <1>9. ASSUME \/ Deliver \/ Launch \/ Launched \/ UNCHANGED panelVars
               \/ (\E yes \in BOOLEAN : Answer(yes))
               \/ (\E k \in Jobs : Click(k) \/ JobStep(k))
        PROVE  UNCHANGED <<onScreen, settings>>
    BY <1>9 DEF Deliver, Launch, Launched, panelVars, Answer, Click, JobStep, Refuse, Register,
                Progress, End, Forget
  <1>10. QED
    BY <1>1, <1>2, <1>3, <1>4, <1>5, <1>6, <1>7, <1>8, <1>9 DEF PanelNext

-----------------------------------------------------------------------------
\* Every step of the panel keeps its invariant.
LEMMA NextPanelIInv == PanelIInv /\ [PanelNext]_panelVars => PanelIInv'
  BY PanelTypeStep, OneJobStep, StatusStep, PathStep DEF PanelIInv

\* So it holds always.
LEMMA PanelIInvHolds == PanelSpec => []PanelIInv
  BY InitPanelIInv, NextPanelIInv, PTL DEF PanelSpec

\* StartPatch cancels the job before it and registers its own: of the jobs that
\* overlap only the last goes on, but for one whose cancel function the end of an
\* older job has dropped (app.go:293-301).
THEOREM OneJobHolds == PanelSpec => []OneJobGoesOn
  <1>1. PanelIInv => OneJobGoesOn
    BY DEF PanelIInv
  <1>2. QED
    BY <1>1, PanelIInvHolds, PTL

\* Once no job runs and no event is under way, the panel shows how the last job
\* ended, or nothing, whatever was refused, cancelled or started again meanwhile.
THEOREM StatusHolds == PanelSpec => []SettledStatus
  <1>1. PanelIInv => SettledStatus
    BY DEF PanelIInv, PanelTypeOK, StatusFollows, SettledStatus, Silent
  <1>2. QED
    BY <1>1, PanelIInvHolds, PTL

\* Once the timer and the calls of the path field are done, the settings screen
\* shows what the launcher has saved, unless saves overtook each other or crossed
\* the reading of the preferences.
THEOREM PathHolds == PanelSpec => []SettledPath
  <1>1. PanelIInv => SettledPath
    BY DEF PanelIInv, PathFollows, DraftOnItsWay, SettledPath
  <1>2. QED
    BY <1>1, PanelIInvHolds, PTL

-----------------------------------------------------------------------------
(* The window.                                                             *)
\* What the Go side may say to the window.
Messages ==
    {Message(kind, c) : kind \in {"set", "loaded"}, c \in Codes}
    \cup {Message("got", c) : c \in Codes \cup {None}}
    \cup {Message(kind, None) : kind \in {"notSet", "cleared", "loggedOut", "loggedIn",
                                          "registered", "answered"}}

\* What the calls on the Go side may hold.
CallsTyped ==
    /\ bridge \in Seq(Messages)
    /\ op["refresh"] \in {"no", "fetch", "emit"} /\ op["clear"] \in {"no", "call", "emit"}
    /\ op["set"] \in {"no", "fetch", "emit", "return"}
    /\ \A o \in {"refresh", "set"} : op[o] # "no" => code[o] \in Codes
    /\ code["clear"] = None

\* A message that speaks of a brand.
Speaks(m) == m.kind = "cleared" \/ m.code # None

\* The last of them that waits.
LastSpoken(q, n) == Speaks(q[n]) /\ \A m \in 1..Len(q) : m > n => ~Speaks(q[m])

\* The window shows the brand of the Go side, or will when it has heard all.
BrandComes ==
    /\ \A n \in 1..Len(bridge) : LastSpoken(bridge, n) => bridge[n].code = goBrand
    /\ (\A n \in 1..Len(bridge) : ~Speaks(bridge[n])) => brand = goBrand

\* A call that has changed the brand and has yet to say so.
Telling(o) == op[o] \in {"emit", "return"}

\* Unless two calls crossed, only one of them has something to say, and it is
\* about the brand there is.
BrandFollows ==
    ~crossed =>
        /\ \A o, p \in Ops : Telling(o) /\ Telling(p) => o = p
        /\ \A o \in Ops : Telling(o) => goBrand = code[o]
        /\ op["refresh"] = "fetch" => code["refresh"] = serverCode
        /\ goBrand \in {None, serverCode}
        /\ (\A o \in Ops : op[o] # "emit") => BrandComes

\* The form that waits for an answer stays in front, unless a message took it away.
TabFollows ==
    /\ call # "none" => yanked \/ (screen = "login" /\ tab = call)
    /\ switching => screen = "login"

\* A loop that has neither ended nor is about to.
Runs(l) == loop[l] \in {"check", "away", "sleep"}

\* Of the loops that run only the one Stop knows of goes on: all others missed
\* their stop or hold a channel that is closed.
LoopsFollow ==
    /\ closed \cup missed \subseteq {l \in Loops : loop[l] # "none"}
    /\ IF wsOpened
       THEN /\ wsStop \in Loops \ (closed \cup missed) /\ Runs(wsStop)
            /\ held[wsStop] = wsStop \/ (loop[wsStop] = "away" /\ held[wsStop] = NoChan)
       ELSE wsStop = NoChan
    /\ \A l \in Loops : Runs(l) /\ l # wsStop => l \in missed \/ held[l] \in closed

\* What every step of the window keeps.
WindowIInv ==
    /\ WindowTypeOK /\ CallsTyped /\ BrandFollows /\ ScreenNeedsBrand /\ TabFollows /\ LoopsFollow

-----------------------------------------------------------------------------
\* The fields of a message.
LEMMA MessageShape ==
  ASSUME NEW m \in Messages
  PROVE  /\ m.code \in Codes \cup {None}
         /\ m.kind \in {"got", "set", "loaded", "notSet", "cleared", "loggedOut", "loggedIn",
                        "registered", "answered"}
         /\ m.kind \in {"set", "loaded"} => m.code \in Codes
         /\ m.kind \notin {"got", "set", "loaded"} => m.code = None
  BY DEF Messages, Message

\* The screen a message leads to.
LEMMA GotoIs ==
  ASSUME NEW m \in Messages
  PROVE  /\ Goto(m) \in {"login", "main", "activate", screen}
         /\ m.kind \in {"set", "loggedOut"} => Goto(m) = "login"
         /\ m.kind = "got" /\ m.code # None => Goto(m) = "login"
         /\ m.kind = "loggedIn" => Goto(m) = "main"
         /\ m.kind = "cleared" => Goto(m) = "activate"
         /\ m.kind \in {"loaded", "notSet", "registered", "answered"} => Goto(m) = screen
         /\ m.kind = "got" /\ m.code = None => Goto(m) = screen
  BY MessageShape DEF Goto

\* The messages there are.
LEMMA MessagesThereAre ==
  /\ Message("notSet", None) \in Messages /\ Message("cleared", None) \in Messages
  /\ Message("loggedOut", None) \in Messages /\ Message("loggedIn", None) \in Messages
  /\ Message("registered", None) \in Messages /\ Message("answered", None) \in Messages
  /\ \A c \in Codes \cup {None} : Message("got", c) \in Messages
  /\ \A c \in Codes : Message("set", c) \in Messages /\ Message("loaded", c) \in Messages
  BY DEF Messages

\* Which messages speak.
LEMMA SpeaksIs ==
  /\ \A c \in Codes : Speaks(Message("set", c)) /\ Speaks(Message("loaded", c))
  /\ Speaks(Message("cleared", None))
  /\ \A kind \in {"got", "notSet", "loggedOut", "loggedIn", "registered", "answered"} :
        ~Speaks(Message(kind, None))
  /\ \A kind, c : Message(kind, c).code = c
  BY LauncherUIAssumption DEF Speaks, Message

\* While a call may be made or a loop started there is room for it.
LEMMA RoomToStart ==
  ASSUME WindowTypeOK, CanStart
  PROVE  sets + 1 \in 0..MaxStarts
  <1> DEFINE L == {l \in Loops : loop[l] # "none"}
  <1>1. IsFiniteSet(L)
    <2>1. IsFiniteSet(Loops)
      BY FS_Interval, LauncherUIAssumption DEF Loops
    <2>2. QED
      BY <2>1, FS_Subset
  <1>2. Cardinality(L) \in Nat
    BY <1>1, FS_CardinalityType
  <1>3. sets + Cardinality(L) < MaxStarts
    BY DEF CanStart
  <1>4. QED
    BY <1>2, <1>3, LauncherUIAssumption DEF WindowTypeOK

-----------------------------------------------------------------------------
\* What a step does to the window, the login screen and the loops is typed.
LEMMA WindowTypeStep ==
  ASSUME WindowTypeOK, CallsTyped, [WindowNext]_windowVars
  PROVE  WindowTypeOK'
  <1> USE DEF WindowTypeOK
  <1>1. ASSUME NEW c \in Codes, Activate(c) PROVE WindowTypeOK'
    BY <1>1, RoomToStart DEF Activate, form, ws, Ops
  <1>2. ASSUME NEW o \in Ops, OpStep(o) PROVE WindowTypeOK'
    <2>1. CASE FetchFails(o)
      BY <2>1 DEF FetchFails, window, form, ws
    <2>2. CASE ChangeBrand(o)
      <3>1. goBrand' \in Codes \cup {None} /\ serverCode' \in Codes \cup {None}
        BY <2>2 DEF ChangeBrand
      <3>2. op' \in [Ops -> {"no", "fetch", "call", "emit", "return"}] /\ crossed' \in BOOLEAN
        BY <2>2 DEF ChangeBrand
      <3>3. UNCHANGED <<window, form, code, sets, ws>>
        BY <2>2 DEF ChangeBrand
      <3>4. QED
        BY <3>1, <3>2, <3>3 DEF window, form, ws
    <2>3. CASE EmitBrand(o)
      <3>1. op' \in [Ops -> {"no", "fetch", "call", "emit", "return"}]
        BY <2>3 DEF EmitBrand
      <3>2. code' \in [Ops -> Codes \cup {None}]
        BY <2>3 DEF EmitBrand, Ops
      <3>3. UNCHANGED <<window, form, goBrand, serverCode, sets, crossed, ws>>
        BY <2>3 DEF EmitBrand
      <3>4. QED
        BY <3>1, <3>2, <3>3 DEF window, form, ws
    <2>4. QED
      BY <1>2, <2>1, <2>2, <2>3 DEF OpStep
  <1>3. ASSUME ReturnBrand PROVE WindowTypeOK'
    BY <1>3 DEF ReturnBrand, window, form, ws, Ops
  <1>4. ASSUME NEW s \in {"main", "settings"}, Navigate(s) PROVE WindowTypeOK'
    BY <1>4 DEF Navigate, form, brands, ws
  <1>5. ASSUME NEW question \in {"logout", "switch"}, AskFor(question) PROVE WindowTypeOK'
    BY <1>5 DEF AskFor, form, brands, ws
  <1>6. ASSUME AnswerNo PROVE WindowTypeOK'
    BY <1>6 DEF AnswerNo, form, brands, ws
  <1>7. ASSUME ConfirmSwitch PROVE WindowTypeOK'
    BY <1>7 DEF ConfirmSwitch, form, ws, Ops
  <1>8. ASSUME ConfirmLogout PROVE WindowTypeOK'
    <2>1. closed' \subseteq Loops /\ missed' \subseteq Loops
      BY <1>8 DEF ConfirmLogout, DisconnectWS
    <2>2. QED
      BY <1>8, <2>1 DEF ConfirmLogout, DisconnectWS, form, brands
  <1>9. ASSUME SaveURL PROVE WindowTypeOK'
    <2>1. UNCHANGED <<window, form, brands, closed, missed>> /\ wsOpened' = FALSE /\ wsStop' = NoChan
      BY <1>9 DEF SaveURL
    <2>2. loop' = [l \in Loops |-> loop'[l]]
      BY <1>9 DEF SaveURL
    <2>3. \A l \in Loops : loop'[l] = loop[l] \/ loop'[l] = "lost"
      BY <1>9 DEF SaveURL
    <2>4. loop' \in [Loops -> {"none", "check", "away", "sleep", "ended", "lost"}]
      BY <2>2, <2>3
    <2>5. held' \in [Loops -> Loops \cup {NoChan}]
      BY <1>9 DEF SaveURL
    <2>6. UNCHANGED <<screen, brand, dialog, activating, leaving, strayed, tab, call, switching, yanked,
                      goBrand, serverCode, op, code, sets, crossed, closed, missed>>
      BY <2>1 DEF window, form, brands
    <2>7. wsOpened' \in BOOLEAN /\ wsStop' \in Loops \cup {NoChan}
      BY <2>1
    <2>8. QED
      BY <2>4, <2>5, <2>6, <2>7
  <1>10. ASSUME NEW t \in Tabs, ChooseTab(t) PROVE WindowTypeOK'
    BY <1>10 DEF ChooseTab, window, brands, ws
  <1>11. ASSUME Submit PROVE WindowTypeOK'
    BY <1>11 DEF Submit, window, brands, ws
  <1>12. ASSUME Login PROVE WindowTypeOK'
    <2>1. UNCHANGED <<window, form, brands>>
      BY <1>12 DEF Login, CallReturns
    <2>2. CASE UNCHANGED ws
      BY <2>1, <2>2 DEF window, form, brands, ws
    <2>3. ASSUME NEW l \in Loops, wsOpened' = TRUE, wsStop' = l,
                 loop' = [loop EXCEPT ![l] = "check"], held' = [held EXCEPT ![l] = l],
                 UNCHANGED <<closed, missed>>
          PROVE  WindowTypeOK'
      BY <2>1, <2>3 DEF window, form, brands
    <2>4. QED
      BY <1>12, <2>2, <2>3 DEF Login
  <1>13. ASSUME Answered PROVE WindowTypeOK'
    <2>1. UNCHANGED <<window, form, brands>> /\ UNCHANGED ws
      BY <1>13 DEF Answered, CallReturns
    <2>2. QED
      BY <2>1 DEF window, form, brands, ws
  <1>14. ASSUME SwitchTab PROVE WindowTypeOK'
    <2>1. yanked' \in BOOLEAN /\ switching' \in BOOLEAN /\ tab' \in Tabs
      BY <1>14 DEF SwitchTab, Tabs
    <2>2. UNCHANGED <<window, call, brands, ws>>
      BY <1>14 DEF SwitchTab
    <2>3. QED
      BY <2>1, <2>2 DEF window, brands, ws
  <1>15. ASSUME Receive PROVE WindowTypeOK'
    <2> DEFINE m == Head(bridge)
    <2>1. m \in Messages
      BY <1>15 DEF Receive, CallsTyped
    <2>2. screen' \in {"activate", "login", "main", "settings"}
      BY <1>15, <2>1, GotoIs DEF Receive
    <2>3. brand' \in Codes \cup {None}
      BY <1>15, <2>1, MessageShape DEF Receive, Shown
    <2>4. /\ activating' \in BOOLEAN /\ leaving' \in BOOLEAN /\ strayed' \in BOOLEAN
          /\ UNCHANGED dialog
      BY <1>15 DEF Receive
    <2>5. tab' \in Tabs /\ call' \in Tabs \cup {"none"} /\ switching' \in BOOLEAN /\ yanked' \in BOOLEAN
      <3>1. FormAfter(m)
        BY <1>15 DEF Receive
      <3>2. QED
        BY <3>1 DEF FormAfter, Tabs
    <2>6. UNCHANGED <<brands, ws>>
      BY <1>15 DEF Receive
    <2>7. QED
      BY <2>2, <2>3, <2>4, <2>5, <2>6 DEF brands, ws
  <1>16. ASSUME NEW l \in Loops, Stops(l) \/ Connects(l) PROVE WindowTypeOK'
    BY <1>16 DEF Stops, Connects, window, form, brands
  <1>17. ASSUME NEW l \in Loops, Looks(l) PROVE WindowTypeOK'
    BY <1>17 DEF Looks, window, form, brands
  <1>18. ASSUME UNCHANGED windowVars PROVE WindowTypeOK'
    BY <1>18 DEF windowVars, window, form, brands, ws
  <1>19. QED
    BY <1>1, <1>2, <1>3, <1>4, <1>5, <1>6, <1>7, <1>8, <1>9, <1>10, <1>11, <1>12, <1>13, <1>14,
       <1>15, <1>16, <1>17, <1>18 DEF WindowNext, Done

-----------------------------------------------------------------------------
\* What is said goes to the end of the bridge, or nothing is said.
LEMMA BridgeTyped ==
  ASSUME CallsTyped, NEW m \in Messages, bridge' = Append(bridge, m)
  PROVE  bridge' \in Seq(Messages)
  BY DEF CallsTyped

\* The rest of the steps leaves what the Go side knows and says alone.
LEMMA OthersSayNothing ==
  ASSUME \/ AnswerNo \/ SaveURL \/ Submit \/ SwitchTab \/ Done \/ UNCHANGED windowVars
         \/ (\E s \in {"main", "settings"} : Navigate(s))
         \/ (\E question \in {"logout", "switch"} : AskFor(question))
         \/ (\E t \in Tabs : ChooseTab(t))
         \/ (\E l \in Loops : Stops(l) \/ Connects(l) \/ Looks(l))
  PROVE  UNCHANGED <<bridge, brands>>
  BY DEF AnswerNo, SaveURL, Submit, SwitchTab, Done, windowVars, Navigate, AskFor, ChooseTab,
         Stops, Connects, Looks

\* Calls go on as their types say.
LEMMA CallsTypedStep ==
  ASSUME WindowTypeOK, CallsTyped, [WindowNext]_windowVars
  PROVE  CallsTyped'
  <1> USE MessagesThereAre
  <1>1. ASSUME NEW c \in Codes, Activate(c) PROVE CallsTyped'
    BY <1>1 DEF Activate, CallsTyped, WindowTypeOK, Ops
  <1>2. ASSUME NEW o \in Ops, FetchFails(o) PROVE CallsTyped'
    <2>1. bridge' \in Seq(Messages)
      BY <1>2, BridgeTyped DEF FetchFails, CallsTyped
    <2>2. QED
      BY <1>2, <2>1 DEF FetchFails, CallsTyped, WindowTypeOK, Ops
  <1>3. ASSUME NEW o \in Ops, ChangeBrand(o) PROVE CallsTyped'
    <2>1. UNCHANGED <<bridge, code>> /\ op' = [op EXCEPT ![o] = "emit"] /\ op[o] # "no"
      BY <1>3 DEF ChangeBrand
    <2>2. QED
      BY <2>1 DEF CallsTyped, WindowTypeOK, Ops
  <1>4. ASSUME NEW o \in Ops, EmitBrand(o) PROVE CallsTyped'
    <2>1. bridge' \in Seq(Messages)
      <3>1. o # "clear" => code[o] \in Codes
        BY <1>4 DEF EmitBrand, CallsTyped, Ops
      <3>2. QED
        BY <1>4, <3>1, BridgeTyped DEF EmitBrand
    <2>2. /\ op' = [op EXCEPT ![o] = IF o = "set" THEN "return" ELSE "no"]
          /\ code' = [code EXCEPT !["refresh"] = IF o = "refresh" THEN None ELSE code["refresh"]]
          /\ op[o] = "emit"
      BY <1>4 DEF EmitBrand
    <2>3. CASE o = "refresh"
      BY <2>1, <2>2, <2>3 DEF CallsTyped, WindowTypeOK, Ops
    <2>4. CASE o = "set"
      BY <2>1, <2>2, <2>4 DEF CallsTyped, WindowTypeOK, Ops
    <2>5. CASE o = "clear"
      BY <2>1, <2>2, <2>5 DEF CallsTyped, WindowTypeOK, Ops
    <2>6. QED
      BY <2>3, <2>4, <2>5 DEF Ops
  <1>5. ASSUME ReturnBrand PROVE CallsTyped'
    <2>1. bridge' \in Seq(Messages)
      <3>1. code["set"] \in Codes
        BY <1>5 DEF ReturnBrand, CallsTyped
      <3>2. QED
        BY <1>5, <3>1, BridgeTyped DEF ReturnBrand
    <2>2. QED
      BY <1>5, <2>1 DEF ReturnBrand, CallsTyped, WindowTypeOK, Ops
  <1>6. ASSUME ConfirmSwitch PROVE CallsTyped'
    BY <1>6 DEF ConfirmSwitch, CallsTyped, WindowTypeOK, Ops
  <1>7. ASSUME ConfirmLogout PROVE CallsTyped'
    <2>1. bridge' \in Seq(Messages) /\ UNCHANGED brands
      BY <1>7, BridgeTyped DEF ConfirmLogout
    <2>2. QED
      BY <2>1 DEF brands, CallsTyped
  <1>8. ASSUME Login \/ Answered PROVE CallsTyped'
    <2>1. bridge' \in Seq(Messages) /\ UNCHANGED brands
      BY <1>8, BridgeTyped DEF Login, Answered, CallReturns
    <2>2. QED
      BY <2>1 DEF brands, CallsTyped
  <1>9. ASSUME Receive PROVE CallsTyped'
    <2>1. bridge' \in Seq(Messages) /\ UNCHANGED brands
      BY <1>9 DEF Receive, CallsTyped
    <2>2. QED
      BY <2>1 DEF brands, CallsTyped
  <1>10. ASSUME UNCHANGED <<bridge, brands>> PROVE CallsTyped'
    BY <1>10 DEF brands, CallsTyped
  <1>11. QED
    BY <1>1, <1>2, <1>3, <1>4, <1>5, <1>6, <1>7, <1>8, <1>9, <1>10, OthersSayNothing
    DEF WindowNext, OpStep

-----------------------------------------------------------------------------
\* Only what is received and the navigation bar change the screen.
LEMMA ScreenStays ==
  /\ \/ AnswerNo \/ SaveURL \/ Done \/ UNCHANGED windowVars
     \/ ConfirmSwitch \/ ConfirmLogout \/ Login \/ Answered \/ ReturnBrand
     \/ (\E c \in Codes : Activate(c))
     \/ (\E o \in Ops : OpStep(o))
     \/ (\E question \in {"logout", "switch"} : AskFor(question))
     \/ (\E l \in Loops : Stops(l) \/ Connects(l) \/ Looks(l))
     => UNCHANGED <<screen, brand, strayed, form>>
  /\ Submit \/ SwitchTab \/ (\E t \in Tabs : ChooseTab(t)) => UNCHANGED <<screen, brand, strayed>>
  <1>1. Submit \/ SwitchTab \/ (\E t \in Tabs : ChooseTab(t)) => UNCHANGED <<screen, brand, strayed>>
    BY DEF Submit, SwitchTab, ChooseTab, window
  <1>2. AnswerNo \/ SaveURL \/ Done \/ UNCHANGED windowVars => UNCHANGED <<screen, brand, strayed, form>>
    BY DEF AnswerNo, SaveURL, Done, windowVars, window
  <1>3. ConfirmSwitch \/ ConfirmLogout \/ Login \/ Answered \/ ReturnBrand
        => UNCHANGED <<screen, brand, strayed, form>>
    BY DEF ConfirmSwitch, ConfirmLogout, Login, Answered, CallReturns, ReturnBrand, window
  <1>4. ASSUME NEW o \in Ops, OpStep(o) PROVE UNCHANGED <<screen, brand, strayed, form>>
    BY <1>4 DEF OpStep, FetchFails, ChangeBrand, EmitBrand, window
  <1>5. ASSUME NEW c \in Codes, Activate(c) PROVE UNCHANGED <<screen, brand, strayed, form>>
    BY <1>5 DEF Activate
  <1>6. ASSUME NEW question \in {"logout", "switch"}, AskFor(question)
        PROVE  UNCHANGED <<screen, brand, strayed, form>>
    BY <1>6 DEF AskFor
  <1>7. ASSUME NEW l \in Loops, Stops(l) \/ Connects(l) \/ Looks(l)
        PROVE  UNCHANGED <<screen, brand, strayed, form>>
    BY <1>7 DEF Stops, Connects, Looks, window
  <1>8. QED
    BY <1>1, <1>2, <1>3, <1>4, <1>5, <1>6, <1>7

\* Every step keeps the brand under the screens that need one.
LEMMA ScreenStep ==
  ASSUME WindowTypeOK, CallsTyped, ScreenNeedsBrand, [WindowNext]_windowVars
  PROVE  ScreenNeedsBrand'
  <1>1. ASSUME Receive PROVE ScreenNeedsBrand'
    <2> DEFINE m == Head(bridge)
    <2>1. m \in Messages
      BY <1>1 DEF Receive, CallsTyped
    <2>2. /\ screen' = Goto(m) /\ brand' = Shown(m)
          /\ strayed' = (brand = None /\ (strayed \/ m.kind \in {"loggedOut", "loggedIn"}))
      BY <1>1 DEF Receive
    <2>3. CASE m.kind = "cleared"
      BY <2>1, <2>2, <2>3, GotoIs DEF ScreenNeedsBrand
    <2>4. CASE m.code # None
      BY <2>2, <2>4 DEF ScreenNeedsBrand, Shown
    <2>5. CASE m.kind # "cleared" /\ m.code = None
      <3>1. brand' = brand
        BY <2>2, <2>5 DEF Shown
      <3>2. m.kind \in {"loggedOut", "loggedIn"} \/ Goto(m) = screen
        BY <2>1, <2>5, GotoIs, MessageShape, LauncherUIAssumption
      <3>3. QED
        BY <2>2, <3>1, <3>2 DEF ScreenNeedsBrand
    <2>6. QED
      BY <2>3, <2>4, <2>5
  <1>2. ASSUME NEW s \in {"main", "settings"}, Navigate(s) PROVE ScreenNeedsBrand'
    BY <1>2 DEF Navigate, ScreenNeedsBrand
  <1>3. ASSUME UNCHANGED <<screen, brand, strayed>> PROVE ScreenNeedsBrand'
    BY <1>3 DEF ScreenNeedsBrand
  <1>4. QED
    BY <1>1, <1>2, <1>3, ScreenStays DEF WindowNext

-----------------------------------------------------------------------------
\* The tabs are locked while a call runs.
LEMMA TabStep ==
  ASSUME WindowTypeOK, CallsTyped, TabFollows, [WindowNext]_windowVars
  PROVE  TabFollows'
  <1>1. ASSUME Receive PROVE TabFollows'
    <2> DEFINE m == Head(bridge)
    <2>1. m \in Messages
      BY <1>1 DEF Receive, CallsTyped
    <2>2. FormAfter(m) /\ screen' = Goto(m)
      BY <1>1 DEF Receive
    <2>3. call' = call \/ call' = "none"
      BY <2>2 DEF FormAfter
    <2>4. CASE screen = "login" /\ Goto(m) # "login"
      BY <2>2, <2>4 DEF FormAfter, TabFollows
    <2>5. CASE ~(screen = "login" /\ Goto(m) # "login")
      <3>1. /\ tab' = tab
            /\ switching' = (switching \/ (m.kind = "registered" /\ screen = "login"))
            /\ yanked' = (call' # "none" /\ yanked)
        BY <2>2, <2>5 DEF FormAfter
      <3>2. screen = "login" => screen' = "login"
        BY <2>2, <2>5
      <3>3. QED
        BY <2>3, <3>1, <3>2 DEF TabFollows
    <2>6. QED
      BY <2>4, <2>5
  <1>2. ASSUME SwitchTab PROVE TabFollows'
    BY <1>2 DEF SwitchTab, TabFollows, window
  <1>3. ASSUME NEW t \in Tabs, ChooseTab(t) PROVE TabFollows'
    BY <1>3 DEF ChooseTab, FormEnabled, TabFollows, window
  <1>4. ASSUME Submit PROVE TabFollows'
    BY <1>4 DEF Submit, FormEnabled, TabFollows, window
  <1>5. ASSUME NEW s \in {"main", "settings"}, Navigate(s) PROVE TabFollows'
    BY <1>5 DEF Navigate, TabFollows, form
  <1>6. ASSUME UNCHANGED <<screen, form>> PROVE TabFollows'
    BY <1>6 DEF TabFollows, form
  <1>7. QED
    BY <1>1, <1>2, <1>3, <1>4, <1>5, <1>6, ScreenStays DEF WindowNext

-----------------------------------------------------------------------------
\* A message that says nothing of the brand changes nothing, one that does is
\* the last word.
LEMMA OneMoreMessage ==
  ASSUME CallsTyped, NEW m \in Messages, bridge' = Append(bridge, m), UNCHANGED brand
  PROVE  /\ Speaks(m) /\ m.code = goBrand' => BrandComes'
         /\ ~Speaks(m) /\ UNCHANGED goBrand /\ BrandComes => BrandComes'
  <1>1. /\ Len(bridge) \in Nat /\ Len(bridge') = Len(bridge) + 1 /\ bridge'[Len(bridge) + 1] = m
        /\ \A n \in 1..Len(bridge) : bridge'[n] = bridge[n]
        /\ 1..Len(bridge') = (1..Len(bridge)) \cup {Len(bridge) + 1}
    BY DEF CallsTyped
  <1>2. ASSUME Speaks(m), m.code = goBrand' PROVE BrandComes'
    <2>1. ASSUME NEW n \in 1..Len(bridge'), LastSpoken(bridge', n) PROVE bridge'[n].code = goBrand'
      <3>1. n = Len(bridge) + 1
        BY <1>1, <1>2, <2>1 DEF LastSpoken
      <3>2. QED
        BY <1>1, <1>2, <3>1
    <2>2. ~\A n \in 1..Len(bridge') : ~Speaks(bridge'[n])
      BY <1>1, <1>2
    <2>3. QED
      BY <2>1, <2>2 DEF BrandComes
  <1>3. ASSUME ~Speaks(m), UNCHANGED goBrand, BrandComes PROVE BrandComes'
    <2>1. ASSUME NEW n \in 1..Len(bridge'), LastSpoken(bridge', n) PROVE bridge'[n].code = goBrand'
      <3>1. n \in 1..Len(bridge) /\ LastSpoken(bridge, n)
        BY <1>1, <1>3, <2>1 DEF LastSpoken
      <3>2. QED
        BY <1>1, <1>3, <3>1 DEF BrandComes
    <2>2. (\A n \in 1..Len(bridge') : ~Speaks(bridge'[n]))
             => \A n \in 1..Len(bridge) : ~Speaks(bridge[n])
      BY <1>1
    <2>3. QED
      BY <1>3, <2>1, <2>2 DEF BrandComes
  <1>4. QED
    BY <1>2, <1>3

\* What is received brings the window to the brand that was last spoken of.
LEMMA BrandReceived ==
  ASSUME CallsTyped, BrandComes, Receive
  PROVE  BrandComes'
  <1>1. /\ 1 \in 1..Len(bridge) /\ Head(bridge) = bridge[1]
        /\ \A n \in 1..Len(bridge') : bridge'[n] = bridge[n + 1] /\ n + 1 \in 1..Len(bridge)
        /\ \A n \in 1..Len(bridge) : n = 1 \/ n - 1 \in 1..Len(bridge')
        /\ goBrand' = goBrand
        /\ brand' = IF Speaks(bridge[1]) THEN bridge[1].code ELSE brand
    BY DEF Receive, CallsTyped, brands, Shown, Speaks
  <1>2. ASSUME NEW n \in 1..Len(bridge'), LastSpoken(bridge', n) PROVE bridge'[n].code = goBrand'
    <2>1. ASSUME NEW m \in 1..Len(bridge), m > n + 1 PROVE ~Speaks(bridge[m])
      <3>1. m - 1 \in 1..Len(bridge') /\ m - 1 > n /\ bridge'[m - 1] = bridge[m]
        BY <1>1, <2>1
      <3>2. QED
        BY <1>2, <3>1 DEF LastSpoken
    <2>2. LastSpoken(bridge, n + 1)
      BY <1>1, <1>2, <2>1 DEF LastSpoken
    <2>3. QED
      BY <1>1, <2>2 DEF BrandComes
  <1>3. ASSUME \A n \in 1..Len(bridge') : ~Speaks(bridge'[n]) PROVE brand' = goBrand'
    <2>1. ASSUME NEW m \in 1..Len(bridge), m > 1 PROVE ~Speaks(bridge[m])
      <3>1. m - 1 \in 1..Len(bridge') /\ bridge'[m - 1] = bridge[m]
        BY <1>1, <2>1
      <3>2. QED
        BY <1>3, <3>1
    <2>2. CASE Speaks(bridge[1])
      <3>1. LastSpoken(bridge, 1)
        BY <2>1, <2>2 DEF LastSpoken
      <3>2. QED
        BY <1>1, <2>2, <3>1 DEF BrandComes
    <2>3. CASE ~Speaks(bridge[1])
      <3>1. \A n \in 1..Len(bridge) : ~Speaks(bridge[n])
        BY <2>1, <2>3
      <3>2. QED
        BY <1>1, <2>3, <3>1 DEF BrandComes
    <2>4. QED
      BY <2>2, <2>3
  <1>4. QED
    BY <1>2, <1>3 DEF BrandComes

\* Only what is received changes the brand that is shown.
LEMMA BrandStays ==
  ASSUME \/ AnswerNo \/ SaveURL \/ Submit \/ SwitchTab \/ Done \/ UNCHANGED windowVars
         \/ (\E s \in {"main", "settings"} : Navigate(s))
         \/ (\E question \in {"logout", "switch"} : AskFor(question))
         \/ (\E t \in Tabs : ChooseTab(t))
         \/ (\E l \in Loops : Stops(l) \/ Connects(l) \/ Looks(l))
  PROVE  UNCHANGED brand
  BY ScreenStays DEF Navigate, Done

\* Each change of the brand is said last, unless two calls crossed.
LEMMA BrandStep ==
  ASSUME WindowTypeOK, CallsTyped, BrandFollows, [WindowNext]_windowVars
  PROVE  BrandFollows'
  <1>1. ASSUME NEW c \in Codes, Activate(c) PROVE BrandFollows'
    <2>1. /\ op["set"] = "no" /\ op' = [op EXCEPT !["set"] = "fetch"]
          /\ code' = [code EXCEPT !["set"] = c]
          /\ UNCHANGED <<brand, bridge, goBrand, serverCode, crossed>>
      BY <1>1 DEF Activate
    <2>2. \A o \in Ops : (Telling(o)' <=> Telling(o)) /\ (op'[o] = "emit" <=> op[o] = "emit")
      BY <2>1 DEF Telling, WindowTypeOK, Ops
    <2>3. \A o \in Ops : Telling(o) => code'[o] = code[o]
      BY <2>1 DEF Telling, WindowTypeOK, Ops
    <2>4. /\ (op'["refresh"] = "fetch" <=> op["refresh"] = "fetch")
          /\ code'["refresh"] = code["refresh"]
      BY <2>1 DEF WindowTypeOK, Ops
    <2>5. BrandComes' <=> BrandComes
      BY <2>1 DEF BrandComes, LastSpoken
    <2>6. QED
      BY <2>1, <2>2, <2>3, <2>4, <2>5 DEF BrandFollows
  <1>2. ASSUME NEW o \in Ops, FetchFails(o) PROVE BrandFollows'
    <2>1. /\ op[o] = "fetch" /\ op' = [op EXCEPT ![o] = "no"]
          /\ UNCHANGED <<brand, goBrand, serverCode, code, crossed>>
          /\ bridge' = IF o = "set" THEN Append(bridge, Message("notSet", None)) ELSE bridge
      BY <1>2 DEF FetchFails, window
    <2>2. \A p \in Ops : (Telling(p)' <=> Telling(p)) /\ (op'[p] = "emit" <=> op[p] = "emit")
      BY <2>1 DEF Telling, WindowTypeOK
    <2>3. op'["refresh"] = "fetch" => op["refresh"] = "fetch"
      BY <2>1 DEF WindowTypeOK, Ops
    <2>4. BrandComes => BrandComes'
      <3>1. CASE o = "set"
        BY <2>1, <3>1, OneMoreMessage, MessagesThereAre, SpeaksIs
      <3>2. CASE o # "set"
        BY <2>1, <3>2 DEF BrandComes, LastSpoken
      <3>3. QED
        BY <3>1, <3>2
    <2>5. QED
      BY <2>1, <2>2, <2>3, <2>4 DEF BrandFollows
  <1>3. ASSUME NEW o \in Ops, ChangeBrand(o) PROVE BrandFollows'
    <2>1. /\ op[o] # "no" /\ op' = [op EXCEPT ![o] = "emit"]
          /\ op[o] = IF o = "clear" THEN "call" ELSE "fetch"
          /\ UNCHANGED code
          /\ goBrand' = code[o]
          /\ serverCode' = IF o = "refresh" THEN serverCode ELSE goBrand'
          /\ crossed' = (crossed \/ Overlaps(o))
      BY <1>3 DEF ChangeBrand, CallsTyped
    <2>2. SUFFICES ASSUME ~crossed' PROVE /\ \A q, p \in Ops : Telling(q)' /\ Telling(p)' => q = p
                                          /\ \A p \in Ops : Telling(p)' => goBrand' = code'[p]
                                          /\ op'["refresh"] = "fetch" => code'["refresh"] = serverCode'
                                          /\ goBrand' \in {None, serverCode'}
                                          /\ ~\A p \in Ops : op'[p] # "emit"
      BY DEF BrandFollows
    <2>3. ~crossed /\ \A p \in Ops \ {o} : op[p] = "no"
      BY <2>1, <2>2 DEF Overlaps
    <2>4. op'[o] = "emit" /\ \A p \in Ops \ {o} : op'[p] = "no"
      BY <2>1, <2>3 DEF WindowTypeOK
    <2>5. \A p \in Ops : Telling(p)' => p = o
      BY <2>4 DEF Telling
    <2>6. op'["refresh"] # "fetch"
      BY <2>4 DEF Ops
    <2>7. goBrand' \in {None, serverCode'}
      BY <2>1, <2>3 DEF BrandFollows
    <2>8. QED
      BY <2>1, <2>4, <2>5, <2>6, <2>7
  <1>4. ASSUME NEW o \in Ops, EmitBrand(o) PROVE BrandFollows'
    <2>1. /\ op[o] = "emit" /\ op' = [op EXCEPT ![o] = IF o = "set" THEN "return" ELSE "no"]
          /\ UNCHANGED <<brand, goBrand, serverCode, crossed>>
          /\ \A p \in Ops : p # "refresh" => code'[p] = code[p]
      BY <1>4 DEF EmitBrand, window, WindowTypeOK
    <2>2. SUFFICES ASSUME ~crossed PROVE /\ \A q, p \in Ops : Telling(q)' /\ Telling(p)' => q = p
                                         /\ \A p \in Ops : Telling(p)' => goBrand' = code'[p]
                                         /\ op'["refresh"] # "fetch" \/ code'["refresh"] = serverCode'
                                         /\ goBrand' \in {None, serverCode'}
                                         /\ BrandComes'
      BY <2>1 DEF BrandFollows
    <2>3. goBrand = code[o] /\ \A p \in Ops : Telling(p) => p = o
      BY <2>1, <2>2 DEF BrandFollows, Telling
    <2>4. \A p \in Ops : Telling(p)' => p = o /\ o = "set"
      BY <2>1, <2>3 DEF Telling, WindowTypeOK
    <2>5. op'["refresh"] = "fetch" => o # "refresh" /\ op["refresh"] = "fetch"
      BY <2>1 DEF WindowTypeOK, Ops
    <2>6. o # "refresh" => code'["refresh"] = code["refresh"]
      BY <1>4 DEF EmitBrand, WindowTypeOK, Ops
    <2>7. BrandComes'
      <3>1. CASE o = "clear"
        <4>1. bridge' = Append(bridge, Message("cleared", None)) /\ code[o] = None
          BY <1>4, <3>1 DEF EmitBrand, CallsTyped
        <4>2. QED
          BY <2>1, <2>3, <4>1, OneMoreMessage, MessagesThereAre, SpeaksIs
      <3>2. CASE o # "clear"
        <4>1. bridge' = Append(bridge, Message("loaded", code[o])) /\ code[o] \in Codes
          BY <1>4, <2>1, <3>2 DEF EmitBrand, CallsTyped, Ops
        <4>2. QED
          BY <2>1, <2>3, <4>1, OneMoreMessage, MessagesThereAre, SpeaksIs
      <3>3. QED
        BY <3>1, <3>2
    <2>8. QED
      BY <2>1, <2>2, <2>3, <2>4, <2>5, <2>6, <2>7 DEF BrandFollows
  <1>5. ASSUME ReturnBrand PROVE BrandFollows'
    <2>1. /\ op["set"] = "return" /\ op' = [op EXCEPT !["set"] = "no"]
          /\ code' = [code EXCEPT !["set"] = None] /\ code["set"] \in Codes
          /\ bridge' = Append(bridge, Message("set", code["set"]))
          /\ UNCHANGED <<brand, goBrand, serverCode, crossed>>
      BY <1>5 DEF ReturnBrand, window, CallsTyped
    <2>2. SUFFICES ASSUME ~crossed PROVE /\ \A p \in Ops : ~Telling(p)'
                                         /\ op'["refresh"] = "fetch" => code'["refresh"] = serverCode'
                                         /\ goBrand' \in {None, serverCode'}
                                         /\ BrandComes'
      BY <2>1 DEF BrandFollows
    <2>3. goBrand = code["set"] /\ \A p \in Ops : Telling(p) => p = "set"
      BY <2>1, <2>2 DEF BrandFollows, Telling, Ops
    <2>4. \A p \in Ops : ~Telling(p)'
      BY <2>1, <2>3 DEF Telling, WindowTypeOK
    <2>5. op'["refresh"] = op["refresh"] /\ code'["refresh"] = code["refresh"]
      BY <2>1 DEF WindowTypeOK, Ops
    <2>6. BrandComes'
      BY <2>1, <2>3, OneMoreMessage, MessagesThereAre, SpeaksIs
    <2>7. QED
      BY <2>1, <2>2, <2>4, <2>5, <2>6 DEF BrandFollows
  <1>6. ASSUME ConfirmSwitch PROVE BrandFollows'
    <2>1. /\ op["clear"] = "no" /\ op' = [op EXCEPT !["clear"] = "call"]
          /\ UNCHANGED <<brand, bridge, goBrand, serverCode, code, crossed>>
      BY <1>6 DEF ConfirmSwitch
    <2>2. /\ \A o \in Ops : (Telling(o)' <=> Telling(o)) /\ (op'[o] = "emit" <=> op[o] = "emit")
          /\ op'["refresh"] = op["refresh"]
      BY <2>1 DEF Telling, WindowTypeOK, Ops
    <2>3. BrandComes' <=> BrandComes
      BY <2>1 DEF BrandComes, LastSpoken
    <2>4. QED
      BY <2>1, <2>2, <2>3 DEF BrandFollows
  <1>7. ASSUME ConfirmLogout \/ Login \/ Answered PROVE BrandFollows'
    <2>1. UNCHANGED brand /\ UNCHANGED brands
      BY <1>7 DEF ConfirmLogout, Login, Answered, CallReturns, window
    <2>2. \E kind \in {"loggedOut", "loggedIn", "registered", "answered"} :
             bridge' = Append(bridge, Message(kind, None))
      BY <1>7 DEF ConfirmLogout, Login, Answered, CallReturns
    <2>3. BrandComes => BrandComes'
      BY <2>1, <2>2, OneMoreMessage, MessagesThereAre, SpeaksIs DEF brands
    <2>4. QED
      BY <2>1, <2>3 DEF BrandFollows, Telling, brands
  <1>8. ASSUME Receive PROVE BrandFollows'
    <2>1. UNCHANGED brands
      BY <1>8 DEF Receive
    <2>2. QED
      BY <1>8, <2>1, BrandReceived DEF BrandFollows, Telling, brands
  <1>9. ASSUME UNCHANGED <<bridge, brands>> /\ UNCHANGED brand PROVE BrandFollows'
    BY <1>9 DEF BrandFollows, BrandComes, LastSpoken, Telling, brands
  <1>10. QED
    BY <1>1, <1>2, <1>3, <1>4, <1>5, <1>6, <1>7, <1>8, <1>9, OthersSayNothing, BrandStays
    DEF WindowNext, OpStep

-----------------------------------------------------------------------------
\* The steps that leave the loops alone.
LEMMA LoopsStay ==
  ASSUME \/ ReturnBrand \/ AnswerNo \/ ConfirmSwitch \/ Submit \/ SwitchTab \/ Done \/ UNCHANGED windowVars
         \/ Answered \/ Receive
         \/ (\E c \in Codes : Activate(c))
         \/ (\E o \in Ops : OpStep(o))
         \/ (\E s \in {"main", "settings"} : Navigate(s))
         \/ (\E question \in {"logout", "switch"} : AskFor(question))
         \/ (\E t \in Tabs : ChooseTab(t))
  PROVE  UNCHANGED ws
  BY DEF ReturnBrand, AnswerNo, ConfirmSwitch, Submit, SwitchTab, Done, windowVars, Answered,
         Receive, Activate, OpStep, FetchFails, ChangeBrand, EmitBrand, Navigate, AskFor, ChooseTab

\* A new loop closes the channel of the one before it.
LEMMA LoopsStep ==
  ASSUME WindowTypeOK, LoopsFollow, [WindowNext]_windowVars
  PROVE  LoopsFollow'
  <1>0. NoChan \notin Loops
    BY LauncherUIAssumption DEF NoChan, Loops
  <1>1. ASSUME ConfirmLogout PROVE LoopsFollow'
    <2>1. UNCHANGED <<loop, held>> /\ DisconnectWS
      BY <1>1 DEF ConfirmLogout
    <2>2. /\ closed' = closed \cup ({wsStop} \ {NoChan}) /\ wsStop' = NoChan /\ wsOpened' = FALSE
          /\ missed' = missed \cup {l \in Loops : \/ loop[l] = "away"
                                                  \/ loop[l] \in {"check", "sleep"} /\ held[l] = NoChan}
      BY <2>1 DEF DisconnectWS
    <2>3. closed' \cup missed' \subseteq {l \in Loops : loop'[l] # "none"}
      BY <1>0, <2>1, <2>2 DEF LoopsFollow, Runs
    <2>4. ASSUME NEW l \in Loops, Runs(l)' PROVE l \in missed' \/ held'[l] \in closed'
      BY <1>0, <2>1, <2>2, <2>4 DEF LoopsFollow, Runs
    <2>5. QED
      BY <2>2, <2>3, <2>4 DEF LoopsFollow
  <1>2. ASSUME SaveURL PROVE LoopsFollow'
    BY <1>2 DEF SaveURL, LoopsFollow, Runs, WindowTypeOK
  <1>3. ASSUME Login PROVE LoopsFollow'
    <2>1. CASE UNCHANGED ws
      BY <2>1 DEF ws, LoopsFollow, Runs
    <2>2. ASSUME NEW l \in Loops, ~wsOpened, loop[l] = "none", wsOpened' = TRUE, wsStop' = l,
                 loop' = [loop EXCEPT ![l] = "check"], held' = [held EXCEPT ![l] = l],
                 UNCHANGED <<closed, missed>>
          PROVE  LoopsFollow'
      <3>1. l \notin closed \cup missed /\ loop'[l] = "check" /\ held'[l] = l
        BY <2>2 DEF LoopsFollow, WindowTypeOK
      <3>2. \A k \in Loops \ {l} : loop'[k] = loop[k] /\ held'[k] = held[k]
        BY <2>2 DEF WindowTypeOK
      <3>3. wsStop \notin Loops
        BY <1>0, <2>2 DEF LoopsFollow
      <3>4. QED
        BY <2>2, <3>1, <3>2, <3>3 DEF LoopsFollow, Runs
    <2>3. QED
      BY <1>3, <2>1, <2>2 DEF Login
  <1>4. ASSUME NEW l \in Loops, Stops(l) PROVE LoopsFollow'
    <2>1. /\ loop[l] \in {"check", "sleep"} /\ held[l] \in closed
          /\ loop' = [loop EXCEPT ![l] = "ended"] /\ held' = [held EXCEPT ![l] = NoChan]
          /\ UNCHANGED <<wsOpened, wsStop, closed, missed>>
      BY <1>4 DEF Stops
    <2>2. wsOpened => l # wsStop
      BY <2>1 DEF LoopsFollow
    <2>3. /\ loop'[l] = "ended"
          /\ \A k \in Loops \ {l} : loop'[k] = loop[k] /\ held'[k] = held[k]
      BY <2>1 DEF WindowTypeOK
    <2>4. QED
      BY <2>1, <2>2, <2>3 DEF LoopsFollow, Runs
  <1>5. ASSUME NEW l \in Loops, Connects(l) PROVE LoopsFollow'
    <2>1. /\ loop[l] = "check" /\ held[l] \notin closed
          /\ loop' = [loop EXCEPT ![l] = "away"] /\ held' = [held EXCEPT ![l] = NoChan]
          /\ UNCHANGED <<wsOpened, wsStop, closed, missed>>
      BY <1>5 DEF Connects
    <2>2. l # wsStop => l \in missed
      BY <2>1 DEF LoopsFollow, Runs
    <2>3. /\ loop'[l] = "away" /\ held'[l] = NoChan
          /\ \A k \in Loops \ {l} : loop'[k] = loop[k] /\ held'[k] = held[k]
      BY <2>1 DEF WindowTypeOK
    <2>4. QED
      BY <2>1, <2>2, <2>3 DEF LoopsFollow, Runs
  <1>6. ASSUME NEW l \in Loops, Looks(l) PROVE LoopsFollow'
    <2>1. /\ loop[l] \in {"away", "sleep"}
          /\ \E p \in {"sleep", "check"} : loop' = [loop EXCEPT ![l] = p]
          /\ held' = [held EXCEPT ![l] = wsStop]
          /\ missed' = IF held[l] \in closed THEN missed \cup {l} ELSE missed
          /\ UNCHANGED <<wsOpened, wsStop, closed>>
      BY <1>6 DEF Looks
    <2>2. l # wsStop => l \in missed'
      BY <2>1 DEF LoopsFollow, Runs
    <2>3. wsOpened /\ l = wsStop => missed' = missed
      BY <1>0, <2>1 DEF LoopsFollow, WindowTypeOK
    <2>4. /\ loop'[l] \in {"sleep", "check"} /\ held'[l] = wsStop
          /\ \A k \in Loops \ {l} : loop'[k] = loop[k] /\ held'[k] = held[k]
      BY <2>1 DEF WindowTypeOK
    <2>5. missed \subseteq missed' /\ missed' \subseteq missed \cup {l}
      BY <2>1
    <2>6. closed' \cup missed' \subseteq {k \in Loops : loop'[k] # "none"}
      BY <2>1, <2>4, <2>5 DEF LoopsFollow
    <2>7. CASE wsOpened
      <3>1. wsStop \notin missed'
        BY <2>2, <2>3, <2>5, <2>7 DEF LoopsFollow
      <3>2. QED
        BY <2>1, <2>2, <2>4, <2>5, <2>6, <2>7, <3>1 DEF LoopsFollow, Runs
    <2>8. CASE ~wsOpened
      BY <2>1, <2>2, <2>4, <2>5, <2>6, <2>8 DEF LoopsFollow, Runs
    <2>9. QED
      BY <2>7, <2>8
  <1>7. ASSUME UNCHANGED ws PROVE LoopsFollow'
    BY <1>7 DEF ws, LoopsFollow, Runs
  <1>8. QED
    BY <1>1, <1>2, <1>3, <1>4, <1>5, <1>6, <1>7, LoopsStay DEF WindowNext

-----------------------------------------------------------------------------
\* At the start the window has the brand that was saved, or none.
LEMMA InitWindowIInv == WindowInit => WindowIInv
  <1> SUFFICES ASSUME WindowInit PROVE WindowIInv
    OBVIOUS
  <1> USE LauncherUIAssumption
  <1>1. /\ op = [o \in Ops |-> IF o = "refresh" /\ serverCode # None THEN "fetch" ELSE "no"]
        /\ code = [o \in Ops |-> IF o = "refresh" THEN serverCode ELSE None]
        /\ serverCode \in Codes \cup {None} /\ goBrand \in {None, serverCode}
        /\ bridge = <<Message("got", goBrand)>>
    BY DEF WindowInit
  <1>2. op \in [Ops -> {"no", "fetch"}] /\ code \in [Ops -> Codes \cup {None}]
    BY <1>1
  <1>3. WindowTypeOK
    <2>1. /\ loop \in [Loops -> {"none", "check", "away", "sleep", "ended", "lost"}]
          /\ held \in [Loops -> Loops \cup {NoChan}]
      BY DEF WindowInit
    <2>2. op \in [Ops -> {"no", "fetch", "call", "emit", "return"}]
      BY <1>2
    <2>3. sets \in 0..MaxStarts
      BY DEF WindowInit
    <2>4. brand \in Codes \cup {None} /\ goBrand \in Codes \cup {None}
      BY <1>1 DEF WindowInit
    <2>5. QED
      BY <1>1, <1>2, <2>1, <2>2, <2>3, <2>4 DEF WindowInit, WindowTypeOK, Tabs
  <1>4. CallsTyped
    <2>1. Message("got", goBrand) \in Messages
      BY <1>1, MessagesThereAre
    <2>2. bridge \in Seq(Messages)
      BY <1>1, <2>1
    <2>3. QED
      BY <1>1, <2>2 DEF CallsTyped, Ops
  <1>5. BrandFollows
    <2>1. \A o \in Ops : op[o] \in {"no", "fetch"}
      BY <1>2
    <2>2. 1..Len(bridge) = {1} /\ bridge[1].code = goBrand /\ bridge[1].kind = "got"
      BY <1>1 DEF Message
    <2>3. BrandComes
      BY <2>2 DEF BrandComes, Speaks, LastSpoken, WindowInit
    <2>4. op["refresh"] = "fetch" => code["refresh"] = serverCode
      BY <1>1 DEF Ops
    <2>5. QED
      BY <1>1, <2>1, <2>3, <2>4 DEF BrandFollows, Telling
  <1>6. ScreenNeedsBrand
    BY DEF WindowInit, ScreenNeedsBrand
  <1>7. TabFollows
    BY DEF WindowInit, TabFollows
  <1>8. LoopsFollow
    BY DEF WindowInit, LoopsFollow, Runs
  <1>9. QED
    BY <1>3, <1>4, <1>5, <1>6, <1>7, <1>8 DEF WindowIInv

\* Every step of the window keeps its invariant.
LEMMA NextWindowIInv == WindowIInv /\ [WindowNext]_windowVars => WindowIInv'
  BY WindowTypeStep, CallsTypedStep, BrandStep, ScreenStep, TabStep, LoopsStep DEF WindowIInv

\* So it holds always.
LEMMA WindowIInvHolds == WindowSpec => []WindowIInv
  BY InitWindowIInv, NextWindowIInv, PTL DEF WindowSpec

\* The screens, tabs, calls and loops of the launcher's window are well formed.
THEOREM WindowTypes == WindowSpec => []WindowTypeOK
  <1>1. WindowIInv => WindowTypeOK
    BY DEF WindowIInv
  <1>2. QED
    BY <1>1, WindowIInvHolds, PTL

\* When nothing is under way the window, the Go side and the preferences agree on
\* the brand, except after calls that overlapped: a refresh puts the brand back
\* that the player has left (app.go:447).
THEOREM BrandHolds == WindowSpec => []SettledBrand
  <1>1. WindowIInv => SettledBrand
    <2>1. SUFFICES ASSUME BrandFollows, Quiet, ~crossed
                   PROVE  brand = goBrand /\ goBrand \in {None, serverCode}
      BY DEF WindowIInv, SettledBrand
    <2>2. 1..Len(bridge) = {} /\ \A o \in Ops : op[o] # "emit"
      BY <2>1 DEF Quiet
    <2>3. QED
      BY <2>1, <2>2 DEF BrandFollows, BrandComes
  <1>2. QED
    BY <1>1, WindowIInvHolds, PTL

\* Without a brand there is only the activation screen, in whatever order calls
\* and events come; except for a login or logout that returns late.
THEOREM ScreenHolds == WindowSpec => []ScreenNeedsBrand
  <1>1. WindowIInv => ScreenNeedsBrand
    BY DEF WindowIInv
  <1>2. QED
    BY <1>1, WindowIInvHolds, PTL

\* Of the heartbeat loops that a logout did not miss one goes on after a login,
\* however often the player logs in, and none after a logout (wsclient.go:171).
THEOREM OneLoopHolds == WindowSpec => []OneLoopPerLogin
  <1>1. ASSUME WindowIInv PROVE OneLoopPerLogin
    <2> DEFINE good == {l \in Loops \ missed : /\ loop[l] \notin {"none", "ended", "lost"}
                                               /\ held[l] \notin closed}
    <2>1. LoopsFollow /\ WindowTypeOK /\ NoChan \notin Loops
      BY <1>1, LauncherUIAssumption DEF WindowIInv, NoChan, Loops
    <2>2. \A l \in Loops : loop[l] \notin {"none", "ended", "lost"} => Runs(l)
      BY <2>1 DEF WindowTypeOK, Runs
    <2>3. CASE wsOpened
      <3>1. good = {wsStop}
        BY <2>1, <2>2, <2>3 DEF LoopsFollow, Runs, WindowTypeOK
      <3>2. Cardinality(good) = 1
        BY <3>1, FS_Singleton
      <3>3. QED
        BY <2>3, <3>2 DEF OneLoopPerLogin
    <2>4. CASE ~wsOpened
      <3>1. good = {}
        BY <2>1, <2>2, <2>4 DEF LoopsFollow
      <3>2. Cardinality(good) = 0
        BY <3>1, FS_EmptySet
      <3>3. QED
        BY <2>4, <3>2 DEF OneLoopPerLogin
    <2>5. QED
      BY <2>3, <2>4
  <1>2. QED
    BY <1>1, WindowIInvHolds, PTL

\* The answer to a form comes to the tab it was sent from, unless the timer of a
\* registration or a new screen turned the tab over.
THEOREM AnswerHolds == WindowSpec => []AnswerOnItsTab
  <1>1. WindowIInv => AnswerOnItsTab
    BY DEF WindowIInv, TabFollows, AnswerOnItsTab
  <1>2. QED
    BY <1>1, WindowIInvHolds, PTL
=============================================================================
