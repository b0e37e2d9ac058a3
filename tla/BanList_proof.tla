--------------------------- MODULE BanList_proof ---------------------------
(***************************************************************************)
(* Proofs about BanList for every set of addresses, callers and durations. *)
(***************************************************************************)
EXTENDS BanList, TLAPS

\* DirtyIsTracked made inductive.  While the saver waits, a difference between
\* file and memory is pending or announced; while it writes, one between its
\* copy and memory is announced, because the write will clear pending.
IdleTracks ==
    up /\ closer = "open" /\ saver = "idle" /\ ~Same(file, bans) =>
        pending \/ Announced \/ saveFailed

WriteTracks ==
    up /\ saver = "writing" =>
        pending /\ (~Same(saverSnap, bans) => Announced)

StopImpliesClose == saver = "stopped" => closer # "open"

DownIsReset == ~up => saver = "idle" /\ closer = "open"

\* SavedSurvives made inductive: a promised entry is what every place holds that
\* may come to be in force, and nothing is promised while both saves write.
HoldsPromise(f) ==
    \A ip \in Ip : promised[ip] # NoPromise => Live(f[ip]) = Live(promised[ip])

PromiseInv ==
    /\ up => HoldsPromise(bans)
    /\ HoldsPromise(file)
    /\ saver = "writing" => HoldsPromise(saverSnap)
    /\ closer = "writing" => HoldsPromise(closeSnap)
    /\ saver = "writing" /\ closer = "writing" => promised = NoPromises
    /\ DownIsReset

IInv == TypeOK /\ IdleTracks /\ WriteTracks /\ StopImpliesClose /\ DownIsReset

-----------------------------------------------------------------------------
LEMMA EntryInt == Entry \subseteq Int
  BY DEF Entry, NoBan, Permanent

\* What one read may become: reading an entry now gives an entry.
LEMMA LiveEntry == ASSUME NEW e \in Entry PROVE Live(e) \in Entry
  BY DEF Live, Entry

LEMMA InitTypeOK == Init => TypeOK
  <1> SUFFICES ASSUME Init PROVE TypeOK
    OBVIOUS
  <1>1. NoBans \in [Ip -> Entry] /\ NoBan \in Entry
    BY DEF NoBans, Entry
  <1>2. 0 \in 0..MaxTime /\ 0 \in 0..MaxExits
    BY BanListAssumption
  <1>3. QED
    BY <1>1, <1>2 DEF Init, TypeOK, NoPromises

LEMMA TypeStep == TypeOK /\ [Next]_vars => TypeOK'
  <1> SUFFICES ASSUME TypeOK, [Next]_vars PROVE TypeOK'
    OBVIOUS
  <1> USE BanListAssumption DEF TypeOK, callers, saving, closing, history, NoBans
  <1>e. NoBan \in Entry /\ Permanent \in Entry /\ Nat \subseteq Entry
    BY DEF Entry
  <1>p. /\ \A other : Begin(other) \in [Ip -> Entry \cup {NoPromise}]
        /\ \A written \in [Ip -> Entry] : \A other :
              Promise(written, other) \in [Ip -> Entry \cup {NoPromise}]
    BY DEF Begin, Promise, NoPromises
  <1>1. ASSUME NEW c \in Caller, NEW ip \in Ip, Lookup(c, ip) PROVE TypeOK'
    BY <1>1 DEF Lookup
  <1>2. ASSUME NEW c \in Caller, NEW ip \in Ip, Ban(c, ip) PROVE TypeOK'
    <2>1. \A d \in Duration : now + d \in Nat
      OBVIOUS
    <2>2. bans' \in [Ip -> Entry]
      BY <1>2, <1>e, <2>1 DEF Ban
    <2>3. QED
      BY <1>2, <2>2 DEF Ban
  <1>3. ASSUME NEW c \in Caller, NEW ip \in Ip, Unban(c, ip) PROVE TypeOK'
    BY <1>3, <1>e DEF Unban
  <1>4. ASSUME NEW c \in Caller, FindBanned(c) PROVE TypeOK'
    BY <1>4, <1>e DEF FindBanned
  <1>5. ASSUME NEW c \in Caller, Evict(c) PROVE TypeOK'
    BY <1>5, <1>e DEF Evict
  <1>6. ASSUME NEW c \in Caller, Trigger(c) PROVE TypeOK'
    BY <1>6 DEF Trigger
  <1>7. CASE SaverSignalled
    BY <1>7 DEF SaverSignalled
  <1>8. CASE SaverTimer
    BY <1>8, <1>p DEF SaverTimer
  <1>9. CASE SaverWrite
    <2>1. promised' \in [Ip -> Entry \cup {NoPromise}]
      <3>1. CASE promised' = Promise(saverSnap, closer)
        BY <3>1, <1>p
      <3>2. CASE promised' = promised
        BY <3>2
      <3>3. QED
        BY <1>9, <3>1, <3>2 DEF SaverWrite
    <2>2. file' \in [Ip -> Entry]
      BY <1>9 DEF SaverWrite
    <2>3. saveFailed' \in BOOLEAN
      BY <1>9 DEF SaverWrite
    <2>4. QED
      BY <1>9, <1>e, <2>1, <2>2, <2>3 DEF SaverWrite
  <1>10. CASE SaverStop
    BY <1>10 DEF SaverStop
  <1>11. CASE CloseStop
    BY <1>11 DEF CloseStop
  <1>12. CASE CloseCopy
    BY <1>12, <1>p DEF CloseCopy
  <1>13. CASE CloseWrite
    <2>1. promised' \in [Ip -> Entry \cup {NoPromise}]
      <3>1. CASE promised' = Promise(closeSnap, saver)
        BY <3>1, <1>p
      <3>2. CASE promised' = promised
        BY <3>2
      <3>3. QED
        BY <1>13, <3>1, <3>2 DEF CloseWrite
    <2>2. file' \in [Ip -> Entry]
      BY <1>13 DEF CloseWrite
    <2>3. saveFailed' \in BOOLEAN
      BY <1>13 DEF CloseWrite
    <2>4. QED
      BY <1>13, <1>e, <2>1, <2>2, <2>3 DEF CloseWrite
  <1>14. CASE Exit
    <2>1. exits' \in 0..MaxExits
      BY <1>14 DEF Exit
    <2>2. QED
      BY <1>14, <1>e, <2>1 DEF Exit
  <1>15. CASE Start
    <2>1. bans' \in [Ip -> Entry]
      BY <1>15, LiveEntry DEF Start
    <2>2. QED
      BY <1>15, <2>1 DEF Start
  <1>16. CASE Tick
    BY <1>16 DEF Tick
  <1>17. CASE UNCHANGED vars
    BY <1>17 DEF vars
  <1>18. QED
    BY <1>1, <1>2, <1>3, <1>4, <1>5, <1>6, <1>7, <1>8, <1>9, <1>10, <1>11,
       <1>12, <1>13, <1>14, <1>15, <1>16, <1>17 DEF Next

\* The gate's ban list state is always well formed.
THEOREM BanListTypeOK == Spec => []TypeOK
  BY InitTypeOK, TypeStep, PTL DEF Spec

-----------------------------------------------------------------------------
\* Equal maps stay equal as time passes: equal entries run out together.
LEMMA SameLater ==
  ASSUME TypeOK, now' = now + 1, UNCHANGED <<file, bans, saverSnap>>
  PROVE  /\ Same(file, bans) => Same(file, bans)'
         /\ Same(saverSnap, bans) => Same(saverSnap, bans)'
  <1>1. now \in Int
    BY DEF TypeOK
  <1>2. \A e1, e2 \in Entry : Live(e1) = Live(e2) =>
           (IF e1 >= 0 /\ now + 1 > e1 THEN NoBan ELSE e1)
             = (IF e2 >= 0 /\ now + 1 > e2 THEN NoBan ELSE e2)
    BY <1>1, EntryInt DEF Live, Expired, NoBan
  <1>3. QED
    BY <1>2 DEF TypeOK, Same, Live, Expired

\* Loading twice is loading once.
LEMMA LiveTwice == ASSUME NEW e \in Entry PROVE Live(Live(e)) = Live(e)
  BY DEF Live, Expired, NoBan

LEMMA InitIInv == Init => IInv
  BY InitTypeOK
  DEF Init, IInv, IdleTracks, WriteTracks, StopImpliesClose, DownIsReset, Same

LEMMA IInvStep == IInv /\ [Next]_vars => IInv'
  <1> SUFFICES ASSUME IInv, [Next]_vars PROVE IInv'
    OBVIOUS
  <1>t. TypeOK /\ TypeOK'
    BY TypeStep DEF IInv
  <1> DEFINE Rest == IdleTracks /\ WriteTracks /\ StopImpliesClose /\ DownIsReset
  <1> SUFFICES Rest'
    BY <1>t DEF IInv
  <1> USE DEF IInv, IdleTracks, WriteTracks, StopImpliesClose, DownIsReset,
              Announced, callers, saving, closing, history
  <1>1. ASSUME NEW c \in Caller, NEW ip \in Ip, Lookup(c, ip) PROVE Rest'
    BY <1>1, <1>t DEF Lookup, TypeOK, Same, Live, Expired
  <1>2. ASSUME NEW c \in Caller, pc' = [pc EXCEPT ![c] = "trigger"],
               UNCHANGED <<up, saving, closing>>
        PROVE  Rest'
    BY <1>2, <1>t DEF TypeOK
  <1>3. ASSUME NEW c \in Caller, FindBanned(c) PROVE Rest'
    BY <1>3, <1>t DEF FindBanned, TypeOK, Same, Live, Expired
  <1>4. ASSUME NEW c \in Caller, Trigger(c) PROVE Rest'
    BY <1>4 DEF Trigger, Same, Live, Expired
  <1>5. CASE SaverSignalled
    BY <1>5 DEF SaverSignalled
  <1>6. CASE SaverTimer
    BY <1>6 DEF SaverTimer, Same
  <1>7. CASE SaverWrite
    BY <1>7 DEF SaverWrite, Same, Live, Expired
  <1>8. CASE SaverStop
    BY <1>8 DEF SaverStop
  <1>9. CASE CloseStop \/ CloseCopy \/ CloseWrite
    BY <1>9 DEF CloseStop, CloseCopy, CloseWrite, Same, Live, Expired
  <1>10. CASE Exit
    BY <1>10 DEF Exit
  <1>11. CASE Start
    <2>1. Same(file, bans)'
      BY <1>11, <1>t, LiveTwice DEF Start, TypeOK, Same, Live, Expired
    <2>2. QED
      BY <1>11, <2>1 DEF Start
  <1>12. CASE Tick
    BY <1>12, <1>t, SameLater DEF Tick
  <1>13. CASE UNCHANGED vars
    BY <1>13 DEF vars, Same, Live, Expired
  <1>14. QED
    BY <1>1, <1>2, <1>3, <1>4, <1>5, <1>6, <1>7, <1>8, <1>9, <1>10, <1>11,
       <1>12, <1>13 DEF Next, Ban, Unban, Evict

\* No change of the ban list is forgotten by the coalescing saver
\* (triggerSave, saveLoop, save), in any interleaving of callers and saver.
THEOREM DirtyIsTrackedHolds == Spec => []DirtyIsTracked
  <1>1. IInv => DirtyIsTracked
    BY DEF IInv, TypeOK, IdleTracks, WriteTracks, StopImpliesClose, DirtyIsTracked
  <1>2. QED
    BY <1>1, InitIInv, IInvStep, PTL DEF Spec

-----------------------------------------------------------------------------
\* Entries that are worth the same now are worth the same later.
LEMMA SameEntryLater ==
  ASSUME TypeOK, now' = now + 1, NEW e1 \in Int, NEW e2 \in Int, Live(e1) = Live(e2)
  PROVE  Live(e1)' = Live(e2)'
  BY DEF TypeOK, Live, Expired, NoBan

LEMMA InitPromise == Init => PromiseInv
  BY DEF Init, PromiseInv, HoldsPromise, NoPromises, DownIsReset

LEMMA PromiseStep == TypeOK /\ PromiseInv /\ [Next]_vars => PromiseInv'
  <1> SUFFICES ASSUME TypeOK, PromiseInv, [Next]_vars PROVE PromiseInv'
    OBVIOUS
  <1>t. TypeOK'
    BY TypeStep
  <1> USE DEF PromiseInv, DownIsReset, callers, saving, closing, history
  <1>same. ASSUME UNCHANGED <<now, bans, file, saverSnap, closeSnap, promised>>
           PROVE  /\ HoldsPromise(bans)' <=> HoldsPromise(bans)
                  /\ HoldsPromise(file)' <=> HoldsPromise(file)
                  /\ HoldsPromise(saverSnap)' <=> HoldsPromise(saverSnap)
                  /\ HoldsPromise(closeSnap)' <=> HoldsPromise(closeSnap)
    BY <1>same DEF HoldsPromise, Live, Expired
  <1>1. ASSUME NEW c \in Caller, NEW ip \in Ip, Lookup(c, ip) PROVE PromiseInv'
    BY <1>1, <1>same DEF Lookup, NoPromises
  <1>2. ASSUME NEW ip \in Ip, NEW e, up, bans' = [bans EXCEPT ![ip] = e],
               promised' = [promised EXCEPT ![ip] = NoPromise],
               UNCHANGED <<up, now, file, saving, closing>>
        PROVE  PromiseInv'
    <2>1. \A i \in Ip : promised'[i] # NoPromise =>
             i # ip /\ promised'[i] = promised[i] /\ bans'[i] = bans[i]
      BY <1>2 DEF TypeOK
    <2>2. /\ HoldsPromise(bans)'
          /\ HoldsPromise(file)'
          /\ saver = "writing" => HoldsPromise(saverSnap)'
          /\ closer = "writing" => HoldsPromise(closeSnap)'
      BY <1>2, <2>1 DEF HoldsPromise, Live, Expired
    <2>3. promised = NoPromises => promised' = NoPromises
      BY <1>2 DEF NoPromises
    <2>4. QED
      BY <1>2, <2>2, <2>3
  <1>3. ASSUME NEW c \in Caller, FindBanned(c) PROVE PromiseInv'
    BY <1>3, <1>same DEF FindBanned, NoPromises
  <1>4. ASSUME NEW c \in Caller, Evict(c) PROVE PromiseInv'
    BY <1>4, <1>2 DEF Evict, TypeOK
  <1>5. ASSUME NEW c \in Caller, NEW ip \in Ip, Ban(c, ip) PROVE PromiseInv'
    <2>1. PICK e : bans' = [bans EXCEPT ![ip] = e]
      BY <1>5 DEF Ban
    <2>2. QED
      BY <1>5, <2>1, <1>2 DEF Ban
  <1>6. ASSUME NEW c \in Caller, NEW ip \in Ip, Unban(c, ip) PROVE PromiseInv'
    BY <1>6, <1>2 DEF Unban
  <1>7. ASSUME NEW c \in Caller, Trigger(c) PROVE PromiseInv'
    BY <1>7, <1>same DEF Trigger, NoPromises
  <1>8. CASE SaverSignalled \/ SaverStop \/ CloseStop
    BY <1>8, <1>same DEF SaverSignalled, SaverStop, CloseStop, NoPromises
  <1>9. CASE SaverTimer
    <2>1. CASE closer = "writing"
      BY <1>9, <2>1 DEF SaverTimer, Begin, NoPromises, HoldsPromise
    <2>2. CASE closer # "writing"
      BY <1>9, <2>2 DEF SaverTimer, Begin, HoldsPromise, Live, Expired
    <2>3. QED
      BY <2>1, <2>2
  <1>10. CASE CloseCopy
    <2>1. CASE saver = "writing"
      BY <1>10, <2>1 DEF CloseCopy, Begin, NoPromises, HoldsPromise
    <2>2. CASE saver # "writing"
      BY <1>10, <2>2 DEF CloseCopy, Begin, HoldsPromise, Live, Expired
    <2>3. QED
      BY <2>1, <2>2
  <1>11. CASE SaverWrite
    <2>1. CASE UNCHANGED <<file, promised>>
      BY <1>11, <2>1 DEF SaverWrite, HoldsPromise, Live, Expired
    <2>2. CASE file' = saverSnap /\ promised' = Promise(saverSnap, closer)
      <3>1. CASE closer = "writing"
        <4>1. promised' = NoPromises
          BY <1>11, <2>2, <3>1 DEF SaverWrite, Promise, NoPromises
        <4>2. QED
          BY <1>11, <3>1, <4>1 DEF SaverWrite, HoldsPromise, NoPromises
      <3>2. CASE closer # "writing"
        <4>1. HoldsPromise(saverSnap) /\ HoldsPromise(bans) /\ up
          BY <1>11 DEF SaverWrite
        <4>2. \A i \in Ip : \/ promised'[i] = saverSnap[i] /\ saverSnap[i] = bans[i]
                            \/ promised'[i] = promised[i]
          BY <2>2, <3>2 DEF Promise
        <4>3. HoldsPromise(bans)' /\ HoldsPromise(file)'
          BY <1>11, <2>2, <4>1, <4>2 DEF SaverWrite, HoldsPromise, Live, Expired
        <4>4. QED
          BY <1>11, <3>2, <4>1, <4>3 DEF SaverWrite
      <3>3. QED
        BY <3>1, <3>2
    <2>3. QED
      BY <1>11, <2>1, <2>2 DEF SaverWrite
  <1>12. CASE CloseWrite
    <2>1. CASE UNCHANGED <<file, promised>>
      BY <1>12, <2>1 DEF CloseWrite, HoldsPromise, Live, Expired
    <2>2. CASE file' = closeSnap /\ promised' = Promise(closeSnap, saver)
      <3>1. CASE saver = "writing"
        <4>1. promised' = NoPromises
          BY <1>12, <2>2, <3>1 DEF CloseWrite, Promise, NoPromises
        <4>2. QED
          BY <1>12, <3>1, <4>1 DEF CloseWrite, HoldsPromise, NoPromises
      <3>2. CASE saver # "writing"
        <4>1. HoldsPromise(closeSnap) /\ HoldsPromise(bans) /\ up
          BY <1>12 DEF CloseWrite
        <4>2. \A i \in Ip : \/ promised'[i] = closeSnap[i] /\ closeSnap[i] = bans[i]
                            \/ promised'[i] = promised[i]
          BY <2>2, <3>2 DEF Promise
        <4>3. HoldsPromise(bans)' /\ HoldsPromise(file)'
          BY <1>12, <2>2, <4>1, <4>2 DEF CloseWrite, HoldsPromise, Live, Expired
        <4>4. QED
          BY <1>12, <3>2, <4>1, <4>3 DEF CloseWrite
      <3>3. QED
        BY <3>1, <3>2
    <2>3. QED
      BY <1>12, <2>1, <2>2 DEF CloseWrite
  <1>13. CASE Exit
    BY <1>13 DEF Exit, HoldsPromise, Live, Expired
  <1>14. CASE Start
    <2>1. HoldsPromise(bans)'
      BY <1>14, LiveTwice DEF Start, TypeOK, HoldsPromise, Live, Expired
    <2>2. QED
      BY <1>14, <2>1 DEF Start, HoldsPromise, Live, Expired
  <1>15. CASE Tick
    <2>1. \A i \in Ip : /\ bans[i] \in Int /\ file[i] \in Int
                        /\ saverSnap[i] \in Int /\ closeSnap[i] \in Int
                        /\ promised[i] \in Int
      <3>1. ASSUME NEW i \in Ip
            PROVE  /\ bans[i] \in Entry /\ file[i] \in Entry
                   /\ saverSnap[i] \in Entry /\ closeSnap[i] \in Entry
                   /\ promised[i] \in Entry \cup {NoPromise}
        BY DEF TypeOK
      <3>2. NoPromise \in Int
        BY DEF NoPromise
      <3>3. QED
        BY <3>1, <3>2, EntryInt
    <2>2. \A e1, e2 \in Int : Live(e1) = Live(e2) => Live(e1)' = Live(e2)'
      BY <1>15, SameEntryLater DEF Tick
    <2>3. QED
      BY <1>15, <2>1, <2>2 DEF Tick, HoldsPromise
  <1>16. CASE UNCHANGED vars
    BY <1>16, <1>same DEF vars, NoPromises
  <1>17. QED
    BY <1>1, <1>3, <1>4, <1>5, <1>6, <1>7, <1>8, <1>9, <1>10, <1>11,
       <1>12, <1>13, <1>14, <1>15, <1>16 DEF Next

\* What save has written and nobody changed since is in force, whatever saves
\* fail and however often the gate ends and loads its file again.
THEOREM SavedSurvivesHolds == Spec => []SavedSurvives
  <1>1. PromiseInv => SavedSurvives
    BY DEF PromiseInv, HoldsPromise, SavedSurvives
  <1>2. TypeOK /\ PromiseInv /\ [Next]_vars => (TypeOK /\ PromiseInv)'
    BY TypeStep, PromiseStep
  <1>3. QED
    BY <1>1, <1>2, InitTypeOK, InitPromise, PTL DEF Spec
=============================================================================
