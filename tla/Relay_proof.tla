---------------------------- MODULE Relay_proof ----------------------------
(***************************************************************************)
(* Proofs about Relay for every finite set of connections and every        *)
(* threshold of the prober.                                                *)
(***************************************************************************)
EXTENDS Relay, FiniteSetTheorems, TLAPS

\* TypeOK without the counters, whose range follows from CountInv.
TypeInv ==
    /\ loop \in {"accepting", "backoff", "ended"}
    /\ listening \in BOOLEAN /\ ctxDone \in BOOLEAN
    /\ shutdown \in {"up", "cancelled", "waiting", "returned"}
    /\ pc \in [Conn -> HandlingPc \cup {"none", "done"}]
    /\ copy \in [Conn -> [Dir -> {"none", "running", "ended"}]]
    /\ header \in [Conn -> BOOLEAN]
    /\ eof \in [Conn -> SUBSET Peer]
    /\ rejected \in Nat
    /\ healthy \in BOOLEAN
    /\ failures \in 0..FailThresh

\* Connections that have been counted as accepted and not yet torn down.
AdmittedPc == InFlightPc \cup {"accepted"}

\* What each counter stands for.
CountInv ==
    /\ active = Cardinality(InFlight)
    /\ wg = (IF loop = "ended" THEN 0 ELSE 1) + Cardinality(Handling)
    /\ accepted \in Nat
    /\ Cardinality(At(AdmittedPc)) <= accepted

WaitInv == shutdown = "returned" => wg = 0

CopyInv == HeaderFirst

IInv == TypeInv /\ CountInv /\ WaitInv /\ CopyInv

-----------------------------------------------------------------------------
\* Moving one connection from one place to another changes the number of
\* connections in a set of places by one, or not at all.
LEMMA PcMove ==
  ASSUME TypeInv, NEW c \in Conn, NEW v, NEW K, pc' = [pc EXCEPT ![c] = v]
  PROVE  /\ (pc[c] \in K <=> v \in K) => Cardinality(At(K)') = Cardinality(At(K))
         /\ (pc[c] \notin K /\ v \in K) => Cardinality(At(K)') = Cardinality(At(K)) + 1
         /\ (pc[c] \in K /\ v \notin K) => Cardinality(At(K)') = Cardinality(At(K)) - 1
  <1>0. DOMAIN pc = Conn
    BY DEF TypeInv
  <1>1. IsFiniteSet(At(K))
    BY FS_Subset, RelayAssumption DEF At
  <1>2. At(K)' = {x \in Conn : (IF x = c THEN v ELSE pc[x]) \in K}
    BY <1>0 DEF At
  <1>3. ASSUME pc[c] \in K <=> v \in K PROVE Cardinality(At(K)') = Cardinality(At(K))
    <2>1. At(K)' = At(K)
      BY <1>2, <1>3 DEF At
    <2>2. QED
      BY <2>1
  <1>4. ASSUME pc[c] \notin K, v \in K PROVE Cardinality(At(K)') = Cardinality(At(K)) + 1
    <2>1. At(K)' = At(K) \cup {c} /\ c \notin At(K)
      BY <1>2, <1>4 DEF At
    <2>2. QED
      BY <1>1, <2>1, FS_AddElement
  <1>5. ASSUME pc[c] \in K, v \notin K PROVE Cardinality(At(K)') = Cardinality(At(K)) - 1
    <2>1. At(K)' = At(K) \ {c} /\ c \in At(K)
      BY <1>2, <1>5 DEF At
    <2>2. QED
      BY <1>1, <2>1, FS_RemoveElement
  <1>6. QED
    BY <1>3, <1>4, <1>5

LEMMA AtCard == ASSUME NEW K PROVE Cardinality(At(K)) \in Nat
  BY FS_Subset, FS_CardinalityType, RelayAssumption DEF At

-----------------------------------------------------------------------------
LEMMA InitIInv == Init => IInv
  <1> SUFFICES ASSUME Init PROVE IInv
    OBVIOUS
  <1>1. TypeInv
    <2>1. /\ pc \in [Conn -> HandlingPc \cup {"none", "done"}]
          /\ header \in [Conn -> BOOLEAN]
          /\ eof \in [Conn -> SUBSET Peer]
      BY DEF Init
    <2>1a. copy \in [Conn -> [Dir -> {"none", "running", "ended"}]]
      BY DEF Init
    <2>2. failures \in 0..FailThresh
      BY RelayAssumption DEF Init
    <2>3. QED
      BY <2>1, <2>1a, <2>2 DEF Init, TypeInv
  <1>2. At(InFlightPc) = {} /\ At(HandlingPc) = {} /\ At(AdmittedPc) = {}
    BY DEF Init, At, InFlightPc, HandlingPc, AdmittedPc
  <1>3. CountInv
    BY <1>2, FS_EmptySet DEF Init, CountInv, InFlight, Handling
  <1>4. WaitInv /\ CopyInv
    BY DEF Init, WaitInv, CopyInv, HeaderFirst
  <1>5. QED
    BY <1>1, <1>3, <1>4 DEF IInv

LEMMA TypeStep == TypeInv /\ [Next]_vars => TypeInv'
  <1> SUFFICES ASSUME TypeInv, [Next]_vars PROVE TypeInv'
    OBVIOUS
  <1>1. ASSUME NEW c \in Conn, Accept(c) \/ Handler(c) PROVE TypeInv'
    <2>1. CASE Accept(c)
      BY <2>1 DEF Accept, TypeInv, connVars, stats, proberVars, HandlingPc
    <2>2. CASE NoAddr(c) \/ Hook(c) \/ IncActive(c)
      <3>1. \E v \in {"health", "closing", "dial"} : pc' = [pc EXCEPT ![c] = v]
        BY <2>2 DEF NoAddr, Hook, IncActive
      <3>2. pc' \in [Conn -> HandlingPc \cup {"none", "done"}]
        BY <3>1 DEF TypeInv, HandlingPc, InFlightPc
      <3>3. rejected' \in Nat
        BY <2>2 DEF NoAddr, Hook, IncActive, TypeInv, stats
      <3>4. QED
        BY <2>2, <3>2, <3>3 DEF NoAddr, Hook, IncActive, TypeInv, relayVars, proberVars
    <2>2a. CASE Health(c)
      <3>1. pc' = [pc EXCEPT ![c] = "accepted"] \/ pc' = [pc EXCEPT ![c] = "closing"]
        BY <2>2a DEF Health
      <3>2. pc' \in [Conn -> HandlingPc \cup {"none", "done"}]
        BY <3>1 DEF TypeInv, HandlingPc
      <3>3. rejected' \in Nat
        BY <2>2a DEF Health, TypeInv
      <3>4. QED
        BY <2>2a, <3>2, <3>3 DEF Health, TypeInv, relayVars, proberVars
    <2>3. CASE Dialled(c) \/ DialFailed(c) \/ HeaderFailed(c)
      BY <2>3 DEF Dialled, DialFailed, HeaderFailed, TypeInv, relayVars, stats, proberVars,
                  HandlingPc, InFlightPc
    <2>4. CASE WriteHeader(c)
      BY <2>4, RelayAssumption
      DEF WriteHeader, StartCopies, TypeInv, relayVars, stats, proberVars,
          HandlingPc, InFlightPc
    <2>5. CASE ReceiveFirst(c) \/ Drains(c) \/ Cancelled(c) \/ Teardown(c) \/ Finish(c)
      BY <2>5 DEF ReceiveFirst, Drains, Cancelled, Teardown, Finish, TypeInv, relayVars,
                  stats, proberVars, HandlingPc, InFlightPc
    <2>6. QED
      BY <1>1, <2>1, <2>2, <2>2a, <2>3, <2>4, <2>5 DEF Handler
  <1>2. ASSUME NEW c \in Conn, NEW d \in Dir, CopyReturns(c, d) \/ CopyFails(c, d)
        PROVE TypeInv'
    <2>1. copy' = [copy EXCEPT ![c] = [copy[c] EXCEPT ![d] = "ended"]]
      BY <1>2 DEF CopyReturns, CopyFails
    <2>2. copy' \in [Conn -> [Dir -> {"none", "running", "ended"}]]
      BY <2>1 DEF TypeInv
    <2>3. QED
      BY <1>2, <2>2 DEF CopyReturns, CopyFails, TypeInv, relayVars, stats, proberVars
  <1>3. ASSUME NEW c \in Conn, NEW p \in Peer, PeerEnds(c, p) PROVE TypeInv'
    BY <1>3 DEF PeerEnds, TypeInv, relayVars, stats, proberVars
  <1>4. CASE AcceptError \/ BackoffTimer \/ LoopEnds
    BY <1>4 DEF AcceptError, BackoffTimer, LoopEnds, TypeInv, connVars, stats, proberVars
  <1>5. ASSUME NEW ok \in BOOLEAN, Probe(ok) PROVE TypeInv'
    <2>1. failures' \in 0..FailThresh
      BY <1>5, RelayAssumption DEF Probe, TypeInv, Lesser
    <2>2. healthy' \in BOOLEAN
      BY <1>5 DEF Probe
    <2>3. QED
      BY <1>5, <2>1, <2>2 DEF Probe, TypeInv, relayVars, connVars, stats
  <1>7. CASE Cancel \/ Stop \/ Wait
    BY <1>7, RelayAssumption DEF Cancel, Stop, Wait, TypeInv, connVars, stats, proberVars
  <1>8. CASE UNCHANGED vars
    BY <1>8 DEF vars, TypeInv, relayVars, connVars, stats, proberVars
  <1>9. QED
    BY <1>1, <1>2, <1>3, <1>4, <1>5, <1>7, <1>8 DEF Next

-----------------------------------------------------------------------------
\* A handler's step that only moves it inside the places counted by no
\* counter, or inside the same ones, leaves the counters right.
LEMMA CountStep == TypeInv /\ CountInv /\ [Next]_vars => CountInv'
  <1> SUFFICES ASSUME TypeInv, CountInv, [Next]_vars PROVE CountInv'
    OBVIOUS
  <1> USE DEF InFlight, Handling
  <1>0. /\ Cardinality(At(InFlightPc)) \in Nat
        /\ Cardinality(At(HandlingPc)) \in Nat
        /\ Cardinality(At(AdmittedPc)) \in Nat
        /\ accepted \in Nat
    BY AtCard DEF CountInv
  <1> DEFINE Moved(c, v) ==
        /\ pc' = [pc EXCEPT ![c] = v]
        /\ loop' = loop
  <1>a. ASSUME NEW c \in Conn, NEW v, Moved(c, v)
        PROVE  /\ (pc[c] \in InFlightPc <=> v \in InFlightPc)
                    => Cardinality(At(InFlightPc)') = Cardinality(At(InFlightPc))
               /\ (pc[c] \in HandlingPc <=> v \in HandlingPc)
                    => Cardinality(At(HandlingPc)') = Cardinality(At(HandlingPc))
               /\ (pc[c] \in AdmittedPc <=> v \in AdmittedPc)
                    => Cardinality(At(AdmittedPc)') = Cardinality(At(AdmittedPc))
    BY <1>a, PcMove
  <1>b. /\ \A v \in {"none", "hook", "health", "accepted", "closing", "done"} : v \notin InFlightPc
        /\ \A v \in {"none", "hook", "health", "closing", "done"} : v \notin AdmittedPc
        /\ \A v \in {"hook", "health", "accepted", "closing"} : v \in HandlingPc
        /\ \A v \in {"none", "done"} : v \notin HandlingPc
        /\ InFlightPc \subseteq AdmittedPc /\ InFlightPc \subseteq HandlingPc
        /\ "accepted" \in AdmittedPc /\ "dial" \in InFlightPc /\ "teardown" \in InFlightPc
    BY DEF InFlightPc, AdmittedPc, HandlingPc
  <1>1. ASSUME NEW c \in Conn, Accept(c) PROVE CountInv'
    <2>1. Moved(c, "hook") /\ pc[c] = "none" /\ loop # "ended"
      BY <1>1 DEF Accept
    <2>2. Cardinality(At(HandlingPc)') = Cardinality(At(HandlingPc)) + 1
      BY <1>b, <2>1, PcMove
    <2>3. /\ Cardinality(At(InFlightPc)') = Cardinality(At(InFlightPc))
          /\ Cardinality(At(AdmittedPc)') = Cardinality(At(AdmittedPc))
      BY <1>a, <1>b, <2>1
    <2>4. QED
      BY <1>0, <1>1, <2>1, <2>2, <2>3 DEF Accept, CountInv, stats
  <1>2. ASSUME NEW c \in Conn, NoAddr(c) \/ Hook(c) PROVE CountInv'
    <2>1. PICK v \in {"health", "closing"} : Moved(c, v) /\ pc[c] = "hook"
      BY <1>2 DEF NoAddr, Hook, relayVars
    <2>2. /\ Cardinality(At(InFlightPc)') = Cardinality(At(InFlightPc))
          /\ Cardinality(At(HandlingPc)') = Cardinality(At(HandlingPc))
          /\ Cardinality(At(AdmittedPc)') = Cardinality(At(AdmittedPc))
      BY <1>a, <1>b, <2>1
    <2>3. QED
      BY <1>2, <2>1, <2>2 DEF NoAddr, Hook, CountInv, relayVars, stats
  <1>3. ASSUME NEW c \in Conn, Health(c) PROVE CountInv'
    <2>1. CASE healthy
      <3>1. Moved(c, "accepted") /\ pc[c] = "health" /\ accepted' = accepted + 1
        BY <1>3, <2>1 DEF Health, relayVars
      <3>2. /\ Cardinality(At(InFlightPc)') = Cardinality(At(InFlightPc))
            /\ Cardinality(At(HandlingPc)') = Cardinality(At(HandlingPc))
        BY <1>a, <1>b, <3>1
      <3>3. Cardinality(At(AdmittedPc)') = Cardinality(At(AdmittedPc)) + 1
        BY <1>b, <3>1, PcMove
      <3>4. accepted' \in Nat /\ Cardinality(At(AdmittedPc)') <= accepted'
        BY <1>0, <3>1, <3>3 DEF CountInv
      <3>5. QED
        BY <1>3, <3>1, <3>2, <3>4 DEF Health, CountInv, relayVars
    <2>2. CASE ~healthy
      <3>1. Moved(c, "closing") /\ pc[c] = "health" /\ accepted' = accepted
        BY <1>3, <2>2 DEF Health, relayVars
      <3>2. /\ Cardinality(At(InFlightPc)') = Cardinality(At(InFlightPc))
            /\ Cardinality(At(HandlingPc)') = Cardinality(At(HandlingPc))
            /\ Cardinality(At(AdmittedPc)') = Cardinality(At(AdmittedPc))
        BY <1>a, <1>b, <3>1
      <3>3. QED
        BY <1>3, <3>1, <3>2 DEF Health, CountInv, relayVars
    <2>3. QED
      BY <2>1, <2>2
  <1>4. ASSUME NEW c \in Conn, IncActive(c) PROVE CountInv'
    <2>1. Moved(c, "dial") /\ pc[c] = "accepted"
      BY <1>4 DEF IncActive, relayVars
    <2>2. /\ Cardinality(At(HandlingPc)') = Cardinality(At(HandlingPc))
          /\ Cardinality(At(AdmittedPc)') = Cardinality(At(AdmittedPc))
      BY <1>a, <1>b, <2>1
    <2>3. Cardinality(At(InFlightPc)') = Cardinality(At(InFlightPc)) + 1
      BY <1>b, <2>1, PcMove
    <2>4. QED
      BY <1>0, <1>4, <2>1, <2>2, <2>3 DEF IncActive, CountInv, relayVars
  <1>5. ASSUME NEW c \in Conn,
               \/ Dialled(c) \/ DialFailed(c) \/ WriteHeader(c) \/ HeaderFailed(c)
               \/ ReceiveFirst(c) \/ Drains(c) \/ Cancelled(c)
        PROVE CountInv'
    <2>1. PICK v \in InFlightPc : Moved(c, v) /\ pc[c] \in InFlightPc
      BY <1>5 DEF Dialled, DialFailed, WriteHeader, StartCopies, HeaderFailed, ReceiveFirst,
                  Drains, Cancelled, InFlightPc, relayVars
    <2>2. /\ Cardinality(At(InFlightPc)') = Cardinality(At(InFlightPc))
          /\ Cardinality(At(HandlingPc)') = Cardinality(At(HandlingPc))
          /\ Cardinality(At(AdmittedPc)') = Cardinality(At(AdmittedPc))
      BY <1>a, <1>b, <2>1
    <2>3. UNCHANGED <<wg, loop, active, accepted>>
      BY <1>5 DEF Dialled, DialFailed, WriteHeader, StartCopies, HeaderFailed, ReceiveFirst,
                  Drains, Cancelled, relayVars, stats
    <2>4. QED
      BY <2>2, <2>3 DEF CountInv
  <1>6. ASSUME NEW c \in Conn, Teardown(c) PROVE CountInv'
    <2>1. Moved(c, "closing") /\ pc[c] = "teardown"
      BY <1>6 DEF Teardown, relayVars
    <2>2. Cardinality(At(HandlingPc)') = Cardinality(At(HandlingPc))
      BY <1>a, <1>b, <2>1
    <2>3. /\ Cardinality(At(InFlightPc)') = Cardinality(At(InFlightPc)) - 1
          /\ Cardinality(At(AdmittedPc)') = Cardinality(At(AdmittedPc)) - 1
      BY <1>b, <2>1, PcMove
    <2>4. QED
      BY <1>0, <1>6, <2>1, <2>2, <2>3 DEF Teardown, CountInv, relayVars
  <1>7. ASSUME NEW c \in Conn, Finish(c) PROVE CountInv'
    <2>1. Moved(c, "done") /\ pc[c] = "closing"
      BY <1>7 DEF Finish
    <2>2. Cardinality(At(HandlingPc)') = Cardinality(At(HandlingPc)) - 1
      BY <1>b, <2>1, PcMove
    <2>3. /\ Cardinality(At(InFlightPc)') = Cardinality(At(InFlightPc))
          /\ Cardinality(At(AdmittedPc)') = Cardinality(At(AdmittedPc))
      BY <1>a, <1>b, <2>1
    <2>4. QED
      BY <1>0, <1>7, <2>1, <2>2, <2>3 DEF Finish, CountInv, stats
  <1>8. CASE LoopEnds
    BY <1>0, <1>8 DEF LoopEnds, CountInv, At, connVars, stats
  <1>9. ASSUME UNCHANGED <<pc, wg, active, accepted>>, (loop' = "ended") <=> (loop = "ended")
        PROVE CountInv'
    BY <1>9 DEF CountInv, At
  <1>10. ASSUME NEW c \in Conn, NEW d \in Dir, CopyReturns(c, d) \/ CopyFails(c, d)
         PROVE CountInv'
    BY <1>9, <1>10 DEF CopyReturns, CopyFails, relayVars, stats
  <1>11. ASSUME NEW c \in Conn, NEW p \in Peer, PeerEnds(c, p) PROVE CountInv'
    BY <1>9, <1>11 DEF PeerEnds, relayVars, stats
  <1>12. CASE AcceptError \/ BackoffTimer
    BY <1>9, <1>12 DEF AcceptError, BackoffTimer, connVars, stats
  <1>13. ASSUME NEW ok \in BOOLEAN, Probe(ok) PROVE CountInv'
    BY <1>9, <1>13 DEF Probe, relayVars, connVars, stats
  <1>14. CASE Cancel \/ Stop \/ Wait
    BY <1>9, <1>14 DEF Cancel, Stop, Wait, connVars, stats
  <1>15. CASE UNCHANGED vars
    BY <1>9, <1>15 DEF vars, relayVars, connVars, stats
  <1>16. QED
    BY <1>1, <1>2, <1>3, <1>4, <1>5, <1>6, <1>7, <1>8, <1>10, <1>11, <1>12, <1>13, <1>14,
       <1>15 DEF Next, Handler

\* An empty wait group stays empty: its last member was the accept loop or a
\* handler, and only the loop adds members.
LEMMA WaitStep == TypeInv /\ CountInv /\ WaitInv /\ [Next]_vars => WaitInv'
  <1> SUFFICES ASSUME TypeInv, CountInv, WaitInv, [Next]_vars PROVE WaitInv'
    OBVIOUS
  <1>1. CASE shutdown = "returned"
    <2>1. wg = 0 /\ Cardinality(At(HandlingPc)) \in Nat
      BY <1>1, AtCard DEF WaitInv
    <2>2. loop = "ended" /\ Cardinality(At(HandlingPc)) = 0
      BY <2>1 DEF CountInv, Handling
    <2>3. At(HandlingPc) = {}
      BY <2>2, FS_Subset, FS_EmptySet, RelayAssumption DEF At
    <2>4. \A c \in Conn : pc[c] # "closing"
      BY <2>3 DEF At, HandlingPc
    <2>5. wg' = wg
      BY <2>2, <2>4 DEF Next, vars, Accept, Handler, NoAddr, Hook, Health, IncActive, Dialled,
        DialFailed, WriteHeader, StartCopies, HeaderFailed, ReceiveFirst, Drains, Cancelled,
        Teardown, Finish, CopyReturns, CopyFails, PeerEnds, AcceptError, BackoffTimer, LoopEnds,
        Probe, Cancel, Stop, Wait, relayVars
    <2>6. QED
      BY <2>1, <2>5 DEF WaitInv
  <1>2. CASE shutdown # "returned"
    <2>1. shutdown' = "returned" => Wait
      BY <1>2 DEF Next, vars, Accept, Handler, NoAddr, Hook, Health, IncActive, Dialled,
        DialFailed, WriteHeader, StartCopies, HeaderFailed, ReceiveFirst, Drains, Cancelled,
        Teardown, Finish, CopyReturns, CopyFails, PeerEnds, AcceptError, BackoffTimer, LoopEnds,
        Probe, Cancel, Stop, relayVars
    <2>2. QED
      BY <2>1 DEF Wait, WaitInv
  <1>3. QED
    BY <1>1, <1>2

\* Only WriteHeader starts the copies of a connection.
LEMMA CopyStep == TypeInv /\ CopyInv /\ [Next]_vars => CopyInv'
  <1> SUFFICES ASSUME TypeInv, CopyInv, [Next]_vars PROVE CopyInv'
    OBVIOUS
  <1>1. ASSUME NEW c \in Conn, WriteHeader(c) PROVE CopyInv'
    <2>1. ASSUME ProxyProtocol, NEW x \in Conn, NEW d \in Dir, copy'[x][d] # "none"
          PROVE  header'[x]
      BY <1>1, <2>1 DEF WriteHeader, StartCopies, TypeInv, CopyInv, HeaderFirst
    <2>2. QED
      BY <2>1 DEF CopyInv, HeaderFirst
  <1>2. ASSUME NEW c \in Conn, NEW d \in Dir, CopyReturns(c, d) \/ CopyFails(c, d)
        PROVE CopyInv'
    <2>1. \A x \in Conn, e \in Dir : copy'[x][e] # "none" => copy[x][e] # "none"
      <3>1. copy' = [copy EXCEPT ![c] = [copy[c] EXCEPT ![d] = "ended"]]
            /\ copy[c][d] = "running"
        BY <1>2 DEF CopyReturns, CopyFails
      <3>2. QED
        BY <3>1 DEF TypeInv
    <2>2. QED
      BY <1>2, <2>1 DEF CopyReturns, CopyFails, CopyInv, HeaderFirst
  <1>3. ASSUME UNCHANGED <<copy, header>> PROVE CopyInv'
    BY <1>3 DEF CopyInv, HeaderFirst
  <1>4. QED
    BY <1>1, <1>2, <1>3 DEF Next, vars, Accept, Handler, NoAddr, Hook, Health, IncActive,
      Dialled, DialFailed, HeaderFailed, ReceiveFirst, Drains, Cancelled, Teardown, Finish,
      PeerEnds, AcceptError, BackoffTimer, LoopEnds, Probe, Cancel,
      Stop, Wait, connVars

LEMMA Inductive == Spec => []IInv
  <1>1. IInv /\ [Next]_vars => IInv'
    BY TypeStep, CountStep, WaitStep, CopyStep DEF IInv
  <1>2. QED
    BY InitIInv, <1>1, PTL DEF Spec

-----------------------------------------------------------------------------
\* The relay's state is well formed; in particular the wait group never goes
\* negative, which would panic, and neither does the active counter.
THEOREM RelayTypeOK == Spec => []TypeOK
  <1>1. IInv => TypeOK
    <2> SUFFICES ASSUME IInv PROVE TypeOK
      OBVIOUS
    <2>1. Cardinality(At(InFlightPc)) \in Nat /\ Cardinality(At(HandlingPc)) \in Nat
      BY AtCard
    <2>2. active \in Nat /\ wg \in Nat /\ accepted \in Nat
      BY <2>1 DEF IInv, CountInv, InFlight, Handling
    <2>3. QED
      BY <2>2 DEF IInv, TypeInv, TypeOK
  <1>2. QED
    BY Inductive, <1>1, PTL

\* The statistics are right in every snapshot: the active counter is the
\* number of relayed connections, however handlers return.
THEOREM StatsConsistentHolds == Spec => []StatsConsistent
  <1>1. IInv => StatsConsistent
    <2> SUFFICES ASSUME IInv PROVE StatsConsistent
      OBVIOUS
    <2>1. At(InFlightPc) \subseteq At(AdmittedPc) /\ IsFiniteSet(At(AdmittedPc))
      BY FS_Subset, RelayAssumption DEF At, AdmittedPc
    <2>2. Cardinality(At(InFlightPc)) <= Cardinality(At(AdmittedPc))
      BY <2>1, FS_Subset
    <2>3. /\ Cardinality(At(InFlightPc)) \in Nat
          /\ Cardinality(At(AdmittedPc)) \in Nat
      BY AtCard
    <2>4. QED
      BY <2>2, <2>3 DEF IInv, CountInv, StatsConsistent, InFlight
  <1>2. QED
    BY Inductive, <1>1, PTL

\* Once Wait has returned no handler runs and none is started.
THEOREM WaitCoversHandlersHolds == Spec => []WaitCoversHandlers
  <1>1. IInv => WaitCoversHandlers
    <2> SUFFICES ASSUME IInv, shutdown = "returned"
                 PROVE  loop = "ended" /\ Handling = {} /\ active = 0
      BY DEF WaitCoversHandlers
    <2>1. Cardinality(At(HandlingPc)) \in Nat /\ wg = 0
      BY AtCard DEF IInv, WaitInv
    <2>2. loop = "ended" /\ Cardinality(At(HandlingPc)) = 0
      BY <2>1 DEF IInv, CountInv, Handling
    <2>3. At(HandlingPc) = {}
      BY <2>2, FS_Subset, FS_EmptySet, RelayAssumption DEF At
    <2>4. At(InFlightPc) = {}
      BY <2>3 DEF At, HandlingPc
    <2>5. active = 0
      BY <2>4, FS_EmptySet DEF IInv, CountInv, InFlight
    <2>6. QED
      BY <2>2, <2>3, <2>5 DEF Handling
  <1>2. QED
    BY Inductive, <1>1, PTL

\* No byte of a client reaches the upstream before the PROXY header.
THEOREM HeaderFirstHolds == Spec => []HeaderFirst
  <1>1. IInv => HeaderFirst
    BY DEF IInv, CopyInv
  <1>2. QED
    BY Inductive, <1>1, PTL
=============================================================================
