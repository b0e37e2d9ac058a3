-------------------------- MODULE TokenStore_proof --------------------------
(***************************************************************************)
(* Proofs about TokenStore for every set of tokens, lifetime, number of    *)
(* restarts and choice of failing file operations.                         *)
(***************************************************************************)
EXTENDS TokenStore, TLAPS

Issued(t) == created[t] # NotIssued

\* Only issued tokens are anywhere, and an unissued one was never used.
FreshInv ==
    /\ \A t \in tokens \cup file \cup flushed \cup sealed : Issued(t)
    /\ \A t \in Token : uses[t] > 0 => Issued(t)

\* UseBound made inductive: a token that can still be redeemed, now or after
\* the next start, has been used at most once per end of the process.
UseInv ==
    \A t \in Token :
        /\ uses[t] <= restarts + 1
        /\ (t \in tokens \/ ~up) => uses[t] <= restarts

\* A sealed token is neither in memory nor in the file.
SealInv == sealed \cap (tokens \cup file) = {}

\* SurvivesRestart made inductive: a flushed live token is in the file until
\* the first restart has read it, and in memory whenever the process runs.
SaveInv ==
    /\ ~up => restarts > 0
    /\ restarts <= 1 => \A t \in flushed :
          uses[t] = 0 /\ ~Expired(t) =>
              /\ up => t \in tokens
              /\ (restarts = 0 \/ ~up) => t \in file

IInv == TypeOK /\ FreshInv /\ UseInv /\ SealInv

-----------------------------------------------------------------------------
LEMMA InitIInv == Init => IInv
  BY TokenStoreAssumption
  DEF Init, IInv, TypeOK, FreshInv, UseInv, SealInv, Issued, NotIssued

\* The type invariant is inductive on its own.
LEMMA TypeStep == TypeOK /\ [Next]_vars => TypeOK'
  <1> SUFFICES ASSUME TypeOK, [Next]_vars PROVE TypeOK'
    OBVIOUS
  <1> USE TokenStoreAssumption DEF TypeOK, NotIssued
  <1>1. ASSUME NEW t \in Token, Issue(t) PROVE TypeOK'
    BY <1>1 DEF Issue, history
  <1>2. ASSUME NEW t \in Token, Consume(t) PROVE TypeOK'
    BY <1>2 DEF Consume
  <1>3. CASE Maintenance
    BY <1>3 DEF Maintenance, Flush
  <1>4. CASE Stop
    <2>1. restarts' \in 0..MaxRestarts
      BY <1>4 DEF Stop
    <2>2. QED
      BY <1>4, <2>1 DEF Stop
  <1>5. CASE Start
    BY <1>5 DEF Start, LoadFromDisk, history
  <1>6. CASE Tick
    BY <1>6 DEF Tick, history
  <1>7. CASE UNCHANGED vars
    BY <1>7 DEF vars
  <1>8. QED
    BY <1>1, <1>2, <1>3, <1>4, <1>5, <1>6, <1>7 DEF Next

\* The rest of IInv, one step per action.
LEMMA IInvStep == IInv /\ [Next]_vars => IInv'
  <1> SUFFICES ASSUME IInv, [Next]_vars PROVE IInv'
    OBVIOUS
  <1>t. TypeOK'
    BY TypeStep DEF IInv
  <1> USE TokenStoreAssumption, <1>t
      DEF IInv, TypeOK, FreshInv, UseInv, SealInv, Issued, NotIssued
  <1>1. ASSUME NEW t \in Token, Issue(t) PROVE IInv'
    <2>1. uses[t] = 0 /\ t \notin sealed
      BY <1>1 DEF Issue
    <2>2. QED
      BY <1>1, <2>1 DEF Issue, history
  <1>2. ASSUME NEW t \in Token, Consume(t) PROVE IInv'
    BY <1>2 DEF Consume
  <1>3. CASE Maintenance
    BY <1>3 DEF Maintenance, Flush
  <1>4. CASE Stop
    BY <1>4 DEF Stop
  <1>5. CASE Start
    BY <1>5 DEF Start, LoadFromDisk, history
  <1>6. CASE Tick
    BY <1>6 DEF Tick, history
  <1>7. CASE UNCHANGED vars
    BY <1>7 DEF vars
  <1>8. QED
    BY <1>1, <1>2, <1>3, <1>4, <1>5, <1>6, <1>7 DEF Next

\* The store's state is always well formed (type correctness of TokenStore).
THEOREM TokenStoreTypeOK == Spec => []TypeOK
  <1>1. Init => TypeOK
    BY InitIInv DEF IInv
  <1>2. QED
    BY <1>1, TypeStep, PTL DEF Spec

LEMMA AlwaysIInv == Spec => []IInv
  BY InitIInv, IInvStep, PTL DEF Spec

\* Consume and Stop together keep every token within one use per lifetime of
\* the process, whatever the file operations do.
THEOREM UseBoundHolds == Spec => []UseBound
  <1>1. IInv => UseBound
    BY DEF IInv, UseInv, UseBound
  <1>2. QED
    BY <1>1, AlwaysIInv, PTL

\* As long as Control is never restarted, tokens are single-use.
THEOREM SingleUseWithoutRestart == MaxRestarts = 0 => (Spec => []SingleUse)
  <1> SUFFICES ASSUME MaxRestarts = 0 PROVE Spec => []SingleUse
    OBVIOUS
  <1>1. IInv => SingleUse
    <2> SUFFICES ASSUME IInv, NEW t \in Token PROVE uses[t] <= 1
      BY DEF SingleUse
    <2>1. restarts = 0
      BY DEF IInv, TypeOK
    <2>2. uses[t] <= 0 + 1
      BY <2>1 DEF IInv, UseInv
    <2>3. QED
      BY <2>2
  <1>2. QED
    BY <1>1, AlwaysIInv, PTL

\* Once a flush has recorded that a token is gone, Consume never succeeds on
\* it again, through any number of restarts.
THEOREM SealedIsFinalHolds == Spec => SealedIsFinal
  <1>1. IInv /\ [Next]_vars => [\A t \in sealed : uses'[t] = uses[t]]_vars
    <2> SUFFICES ASSUME IInv, Next, NEW s \in sealed
                 PROVE  uses'[s] = uses[s]
      BY DEF vars
    <2> USE DEF IInv, TypeOK, SealInv
    <2>1. ASSUME NEW t \in Token, Consume(t) PROVE uses'[s] = uses[s]
      BY <2>1 DEF Consume
    <2>2. CASE UNCHANGED uses
      BY <2>2
    <2>3. QED
      BY <2>1, <2>2
      DEF Next, Issue, Maintenance, Stop, Start, Tick, history
  <1>2. QED
    BY <1>1, AlwaysIInv, PTL DEF Spec, SealedIsFinal

\* After at most one restart every flushed token that is still good can be
\* redeemed whenever Control is up (loadFromDisk restores what
\* flushToDiskLocked wrote).
THEOREM SurvivesOneRestart == Spec => []SurvivesRestart
  <1>1. Init => SaveInv
    BY DEF Init, SaveInv
  <1>2. IInv /\ SaveInv /\ [Next]_vars => SaveInv'
    <2> SUFFICES ASSUME IInv, SaveInv, [Next]_vars PROVE SaveInv'
      OBVIOUS
    <2>t. TypeOK'
      BY TypeStep DEF IInv
    <2> USE TokenStoreAssumption, <2>t
        DEF IInv, TypeOK, FreshInv, SaveInv, Expired, Issued, NotIssued
    <2>1. ASSUME NEW t \in Token, Issue(t) PROVE SaveInv'
      <3>1. t \notin flushed
        BY <2>1 DEF Issue
      <3>2. QED
        BY <2>1, <3>1 DEF Issue, history
    <2>2. ASSUME NEW t \in Token, Consume(t) PROVE SaveInv'
      BY <2>2 DEF Consume
    <2>3. CASE Maintenance
      BY <2>3 DEF Maintenance, Flush
    <2>4. CASE Stop
      BY <2>4 DEF Stop
    <2>5. CASE Start
      BY <2>5 DEF Start, LoadFromDisk, history
    <2>6. CASE Tick
      BY <2>6 DEF Tick, history
    <2>7. CASE UNCHANGED vars
      BY <2>7 DEF vars
    <2>8. QED
      BY <2>1, <2>2, <2>3, <2>4, <2>5, <2>6, <2>7 DEF Next
  <1>3. SaveInv => SurvivesRestart
    BY DEF SaveInv, SurvivesRestart
  <1>4. QED
    BY <1>1, <1>2, <1>3, AlwaysIInv, PTL DEF Spec
=============================================================================
