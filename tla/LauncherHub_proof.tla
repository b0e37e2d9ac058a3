-------------------------- MODULE LauncherHub_proof --------------------------
(***************************************************************************)
(* Proofs about LauncherHub for every set of connections and every         *)
(* capacity of the channels.                                               *)
(***************************************************************************)
EXTENDS LauncherHub, SequenceTheorems, TLAPS

\* TrackedOrPending, also for the clients that are about to get into the map.
PendingInv ==
    \A c \in Client : c \in clients \/ In(c, register) =>
        handler[c] \in {"reading", "leaving"} \/ In(c, unregister) \/ c \in ghosts

\* No two places of a queue hold the same client.
Distinct(q) == \A i, j \in 1..Len(q) : q[i] = q[j] => i = j

\* A connection is registered once: it is in the channel once, or in the map,
\* or not yet anywhere; and its channel is not closed before that is over.
OnceInv ==
    /\ Distinct(register)
    /\ \A c \in Client : In(c, register) => c \notin clients
    /\ \A c \in Client : handler[c] \in {"none", "attaching"} =>
          c \notin clients /\ ~In(c, register) /\ c \notin closedSend

IInv == TypeOK /\ PendingInv /\ OnceInv /\ OpenWhileTracked

-----------------------------------------------------------------------------
(* Who is in a queue after a step on it.                                   *)

LEMMA InAppend ==
  ASSUME NEW S, NEW q \in Seq(S), NEW e \in S, NEW c
  PROVE  In(c, Append(q, e)) <=> In(c, q) \/ c = e
  <1>1. Len(Append(q, e)) = Len(q) + 1 /\ Len(q) \in Nat
    OBVIOUS
  <1>2. \A i \in 1..Len(q) : Append(q, e)[i] = q[i]
    OBVIOUS
  <1>3. Append(q, e)[Len(q) + 1] = e
    OBVIOUS
  <1>4. ASSUME In(c, q) PROVE In(c, Append(q, e))
    BY <1>1, <1>2, <1>4 DEF In
  <1>5. ASSUME c = e PROVE In(c, Append(q, e))
    <2>1. Len(q) + 1 \in 1..Len(Append(q, e))
      BY <1>1
    <2>2. QED
      BY <1>3, <1>5, <2>1 DEF In
  <1>6. ASSUME NEW i \in 1..(Len(q) + 1), Append(q, e)[i] = c PROVE In(c, q) \/ c = e
    <2>1. CASE i = Len(q) + 1
      BY <1>3, <1>6, <2>1
    <2>2. CASE i # Len(q) + 1
      <3>1. i \in 1..Len(q)
        BY <1>1, <2>2
      <3>2. QED
        BY <1>2, <1>6, <3>1 DEF In
    <2>3. QED
      BY <2>1, <2>2
  <1>7. QED
    BY <1>1, <1>4, <1>5, <1>6 DEF In

LEMMA InTail ==
  ASSUME NEW S, NEW q \in Seq(S), q # <<>>, NEW c
  PROVE  /\ In(c, Tail(q)) => In(c, q)
         /\ In(c, q) => In(c, Tail(q)) \/ c = Head(q)
         /\ In(Head(q), q)
  <1>1. Len(Tail(q)) = Len(q) - 1 /\ \A i \in 1..Len(Tail(q)) : Tail(q)[i] = q[i + 1]
    BY HeadTailProperties
  <1>2. Len(q) \in Nat /\ Len(q) # 0 /\ Head(q) = q[1]
    OBVIOUS
  <1>3. ASSUME NEW i \in 1..Len(Tail(q)), Tail(q)[i] = c PROVE In(c, q)
    <2>1. i + 1 \in 1..Len(q)
      BY <1>1, <1>2
    <2>2. QED
      BY <1>1, <1>3, <2>1 DEF In
  <1>4. ASSUME NEW i \in 1..Len(q), q[i] = c PROVE In(c, Tail(q)) \/ c = Head(q)
    <2>1. CASE i = 1
      BY <1>2, <1>4, <2>1
    <2>2. CASE i # 1
      <3>1. i - 1 \in 1..Len(Tail(q)) /\ (i - 1) + 1 = i
        BY <1>1, <1>2, <2>2
      <3>2. Tail(q)[i - 1] = c
        BY <1>1, <1>4, <3>1
      <3>3. QED
        BY <3>1, <3>2 DEF In
    <2>3. QED
      BY <2>1, <2>2
  <1>5. In(Head(q), q)
    BY <1>2 DEF In
  <1>6. QED
    BY <1>3, <1>4, <1>5 DEF In

\* The head of such a queue is not in its tail, which is such a queue too.
LEMMA DistinctTail ==
  ASSUME NEW S, NEW q \in Seq(S), q # <<>>, Distinct(q)
  PROVE  Distinct(Tail(q)) /\ ~In(Head(q), Tail(q))
  <1>1. Len(Tail(q)) = Len(q) - 1 /\ \A i \in 1..Len(Tail(q)) : Tail(q)[i] = q[i + 1]
    BY HeadTailProperties
  <1>2. Len(q) \in Nat /\ Len(q) # 0 /\ Head(q) = q[1] /\ 1 \in 1..Len(q)
    OBVIOUS
  <1>3. \A i \in 1..Len(Tail(q)) : i + 1 \in 1..Len(q) /\ i + 1 # 1 /\ i \in Int
    BY <1>1, <1>2
  <1>4. ASSUME NEW i \in 1..Len(Tail(q)), NEW j \in 1..Len(Tail(q)), Tail(q)[i] = Tail(q)[j]
        PROVE  i = j
    <2>1. i + 1 = j + 1
      BY <1>1, <1>3, <1>4 DEF Distinct
    <2>2. QED
      BY <1>3, <2>1
  <1>5. ASSUME NEW i \in 1..Len(Tail(q)), Tail(q)[i] = Head(q) PROVE FALSE
    <2>1. q[i + 1] = q[1]
      BY <1>1, <1>2, <1>5
    <2>2. QED
      BY <1>2, <1>3, <2>1 DEF Distinct
  <1>6. QED
    BY <1>4, <1>5 DEF Distinct, In

LEMMA DistinctAppend ==
  ASSUME NEW S, NEW q \in Seq(S), NEW e \in S, Distinct(q), ~In(e, q)
  PROVE  Distinct(Append(q, e))
  <1>1. /\ Len(Append(q, e)) = Len(q) + 1 /\ Len(q) \in Nat
        /\ \A i \in 1..Len(q) : Append(q, e)[i] = q[i]
        /\ Append(q, e)[Len(q) + 1] = e
    OBVIOUS
  <1>2. \A i \in 1..(Len(q) + 1) : i \in 1..Len(q) \/ i = Len(q) + 1
    BY <1>1
  <1>3. \A i \in 1..Len(q) : q[i] # e
    BY DEF In
  <1>4. QED
    BY <1>1, <1>2, <1>3 DEF Distinct

-----------------------------------------------------------------------------
LEMMA InitIInv == Init => IInv
  <1> SUFFICES ASSUME Init PROVE IInv
    OBVIOUS
  <1> USE DEF Init
  <1>0. 1..Len(<<>>) = {}
    OBVIOUS
  <1>1. \A c : ~In(c, <<>>)
    BY <1>0 DEF In
  <1>2. Distinct(<<>>)
    BY <1>0 DEF Distinct
  <1>3. TypeOK
    <2>1. /\ register \in Seq(Client) /\ Len(register) <= QueueCap
          /\ unregister \in Seq(Client) /\ Len(unregister) <= QueueCap
      BY LauncherHubAssumption
    <2>2. send \in [Client -> 0..SendCap] /\ broadcast \in 0..BroadcastCap
          /\ messages \in 0..MaxMessages
      BY LauncherHubAssumption
    <2>3. QED
      BY <2>1, <2>2 DEF TypeOK
  <1>4. PendingInv /\ OnceInv /\ OpenWhileTracked
    BY <1>1, <1>2 DEF PendingInv, OnceInv, OpenWhileTracked
  <1>5. QED
    BY <1>3, <1>4 DEF IInv

LEMMA TypeStep == TypeOK /\ [Next]_vars => TypeOK'
  <1> SUFFICES ASSUME TypeOK, [Next]_vars PROVE TypeOK'
    OBVIOUS
  <1> USE LauncherHubAssumption
  <1>1. ASSUME NEW c \in Client, Attach(c) \/ SocketEnds(c) \/ ReadFails(c) PROVE TypeOK'
    BY <1>1 DEF Attach, SocketEnds, ReadFails, TypeOK, conn, hub
  <1>2. ASSUME NEW c \in Client, Enqueue(c) PROVE TypeOK'
    <2>1. register' \in Seq(Client) /\ Len(register') <= QueueCap
      BY <1>2 DEF Enqueue, TypeOK
    <2>2. QED
      BY <1>2, <2>1 DEF Enqueue, TypeOK
  <1>3. ASSUME NEW c \in Client, Leave(c) PROVE TypeOK'
    <2>1. unregister' \in Seq(Client) /\ Len(unregister') <= QueueCap
      BY <1>3 DEF Leave, TypeOK
    <2>2. QED
      BY <1>3, <2>1 DEF Leave, TypeOK
  <1>4. ASSUME NEW c \in Client, WriterTakes(c) \/ WriterEnds(c) PROVE TypeOK'
    <2>1. send' \in [Client -> 0..SendCap]
      BY <1>4 DEF WriterTakes, WriterEnds, TypeOK
    <2>2. QED
      BY <1>4, <2>1 DEF WriterTakes, WriterEnds, TypeOK, conn, hub
  <1>5. ASSUME NEW c \in Client, KickFinds(c) \/ KickSends(c) PROVE TypeOK'
    <2>1. send' \in [Client -> 0..SendCap]
      BY <1>5 DEF KickFinds, KickSends, TypeOK
    <2>2. messages' \in 0..MaxMessages
      BY <1>5 DEF KickFinds, KickSends, TypeOK
    <2>3. QED
      BY <1>5, <2>1, <2>2 DEF KickFinds, KickSends, TypeOK, conn, hub
  <1>6. CASE TakeRegister
    <2>1. /\ Head(register) \in Client /\ register' \in Seq(Client)
          /\ Len(register') = Len(register) - 1 /\ Len(register) \in Nat
      BY <1>6, HeadTailProperties DEF TakeRegister, TypeOK
    <2>2. Len(register') <= QueueCap
      BY <2>1 DEF TypeOK
    <2>3. QED
      BY <1>6, <2>1, <2>2 DEF TakeRegister, TypeOK, conn
  <1>7. CASE TakeUnregister
    <2>1. /\ Head(unregister) \in Client /\ unregister' \in Seq(Client)
          /\ Len(unregister') = Len(unregister) - 1 /\ Len(unregister) \in Nat
      BY <1>7, HeadTailProperties DEF TakeUnregister, TypeOK
    <2>2. Len(unregister') <= QueueCap
      BY <2>1 DEF TypeOK
    <2>3. QED
      BY <1>7, <2>1, <2>2 DEF TakeUnregister, TypeOK, conn
  <1>8. CASE TakeBroadcast
    <2>1. send' \in [Client -> 0..SendCap] /\ broadcast' \in 0..BroadcastCap
      BY <1>8 DEF TakeBroadcast, TypeOK
    <2>2. QED
      BY <1>8, <2>1 DEF TakeBroadcast, TypeOK, conn, hub
  <1>9. CASE LoopStops
    BY <1>9 DEF LoopStops, TypeOK, conn
  <1>10. CASE Broadcast \/ Stop
    <2>1. broadcast' \in 0..BroadcastCap /\ messages' \in 0..MaxMessages
      BY <1>10 DEF Broadcast, Stop, TypeOK
    <2>2. QED
      BY <1>10, <2>1 DEF Broadcast, Stop, TypeOK, conn, hub
  <1>11. CASE Done \/ UNCHANGED vars
    BY <1>11 DEF Done, vars, TypeOK, conn, hub
  <1>12. QED
    BY <1>1, <1>2, <1>3, <1>4, <1>5, <1>6, <1>7, <1>8, <1>9, <1>10, <1>11 DEF Next

-----------------------------------------------------------------------------
\* Where a connection can be.
PlaceInv == PendingInv /\ OnceInv /\ OpenWhileTracked

LEMMA PlaceStep == TypeOK /\ PlaceInv /\ [Next]_vars => PlaceInv'
  <1> SUFFICES ASSUME TypeOK, PlaceInv, [Next]_vars PROVE PlaceInv'
    OBVIOUS
  <1> USE DEF PlaceInv, PendingInv, OnceInv, OpenWhileTracked
  <1>t. /\ handler \in [Client -> {"none", "attaching", "reading", "leaving", "left"}]
        /\ register \in Seq(Client) /\ unregister \in Seq(Client)
    BY DEF TypeOK
  <1>1. CASE UNCHANGED <<handler, clients, register, unregister, ghosts, closedSend>>
    BY <1>1
  <1>2. ASSUME NEW c \in Client, Attach(c) \/ ReadFails(c) PROVE PlaceInv'
    <2>1. UNCHANGED <<clients, register, unregister, ghosts, closedSend>>
      BY <1>2 DEF Attach, ReadFails, hub
    <2>2. \A d \in Client :
            /\ handler'[d] \in {"none", "attaching"} <=> handler[d] \in {"none", "attaching"}
            /\ handler'[d] \in {"reading", "leaving"} <=> handler[d] \in {"reading", "leaving"}
      BY <1>2, <1>t DEF Attach, ReadFails
    <2>3. QED
      BY <2>1, <2>2
  <1>3. ASSUME NEW c \in Client, Enqueue(c) PROVE PlaceInv'
    <2>1. /\ handler[c] = "attaching" /\ handler' = [handler EXCEPT ![c] = "reading"]
          /\ register' = Append(register, c)
          /\ UNCHANGED <<clients, unregister, ghosts, closedSend>>
      BY <1>3 DEF Enqueue
    <2>2. \A d : In(d, register') <=> In(d, register) \/ d = c
      BY <1>t, <2>1, InAppend
    <2>3. c \notin clients /\ ~In(c, register) /\ c \notin closedSend
      BY <2>1
    <2>4. Distinct(register)'
      BY <1>t, <2>1, <2>3, DistinctAppend
    <2>5. handler'[c] = "reading" /\ \A d \in Client \ {c} : handler'[d] = handler[d]
      BY <1>t, <2>1
    <2>6. PendingInv'
      BY <2>1, <2>2, <2>5
    <2>7. OnceInv'
      BY <2>1, <2>2, <2>3, <2>4, <2>5
    <2>8. OpenWhileTracked'
      BY <2>1, <2>2, <2>3
    <2>9. QED
      BY <2>6, <2>7, <2>8
  <1>4. ASSUME NEW c \in Client, Leave(c) PROVE PlaceInv'
    <2>1. /\ handler[c] = "leaving" /\ handler' = [handler EXCEPT ![c] = "left"]
          /\ unregister' = Append(unregister, c)
          /\ UNCHANGED <<clients, register, ghosts, closedSend>>
      BY <1>4 DEF Leave
    <2>2. \A d : In(d, unregister') <=> In(d, unregister) \/ d = c
      BY <1>t, <2>1, InAppend
    <2>3. handler'[c] = "left" /\ \A d \in Client \ {c} : handler'[d] = handler[d]
      BY <1>t, <2>1
    <2>4. QED
      BY <2>1, <2>2, <2>3
  <1>5. CASE TakeRegister
    <2> DEFINE c == Head(register)
    <2>1. /\ register # <<>> /\ register' = Tail(register)
          /\ clients' = clients \cup {c}
          /\ UNCHANGED <<handler, unregister, ghosts, closedSend>>
      BY <1>5 DEF TakeRegister, conn
    <2>2. /\ \A d : In(d, register') => In(d, register)
          /\ In(c, register)
      BY <1>t, <2>1, InTail
    <2>3. Distinct(register)' /\ ~In(c, register')
      BY <1>t, <2>1, DistinctTail
    <2>4. \A d \in Client : d \in clients' => d \in clients \/ In(d, register)
      BY <2>1, <2>2
    <2> HIDE DEF c
    <2>5. PendingInv'
      BY <2>1, <2>2, <2>4
    <2>6. \A d \in Client : In(d, register') => d \notin clients'
      BY <2>1, <2>2, <2>3
    <2>7. OnceInv'
      BY <2>1, <2>2, <2>3, <2>4, <2>6
    <2>8. OpenWhileTracked'
      BY <2>1, <2>2, <2>4
    <2>9. QED
      BY <2>5, <2>7, <2>8
  <1>6. CASE TakeUnregister
    <2> DEFINE c == Head(unregister)
    <2>1. /\ unregister # <<>> /\ unregister' = Tail(unregister)
          /\ clients' = clients \ {c}
          /\ closedSend' = closedSend \cup ({c} \cap clients)
          /\ ghosts' = IF In(c, register) THEN ghosts \cup {c} ELSE ghosts
          /\ UNCHANGED <<handler, register>>
      BY <1>6 DEF TakeUnregister, conn
    <2>2. \A d : In(d, unregister) => In(d, unregister') \/ d = c
      BY <1>t, <2>1, InTail
    <2> HIDE DEF c
    <2>3. PendingInv'
      BY <2>1, <2>2
    <2>4. OnceInv'
      BY <2>1
    <2>5. OpenWhileTracked'
      BY <2>1
    <2>6. QED
      BY <2>3, <2>4, <2>5
  <1>7. CASE LoopStops
    <2>1. /\ clients' = {} /\ closedSend' = closedSend \cup clients
          /\ UNCHANGED <<handler, register, unregister, ghosts>>
      BY <1>7 DEF LoopStops, conn
    <2>2. QED
      BY <2>1
  <1>8. ASSUME NEW c \in Client,
               SocketEnds(c) \/ WriterTakes(c) \/ WriterEnds(c) \/ KickFinds(c) \/ KickSends(c)
        PROVE PlaceInv'
    BY <1>1, <1>8 DEF SocketEnds, WriterTakes, WriterEnds, KickFinds, KickSends, conn, hub
  <1>9. CASE TakeBroadcast \/ Broadcast \/ Stop \/ Done \/ UNCHANGED vars
    BY <1>1, <1>9 DEF TakeBroadcast, Broadcast, Stop, Done, vars, conn, hub
  <1>10. QED
    BY <1>2, <1>3, <1>4, <1>5, <1>6, <1>7, <1>8, <1>9 DEF Next

LEMMA AlwaysIInv == Spec => []IInv
  <1>1. IInv /\ [Next]_vars => IInv'
    BY TypeStep, PlaceStep DEF IInv, PlaceInv
  <1>2. QED
    BY InitIInv, <1>1, PTL DEF Spec

-----------------------------------------------------------------------------
\* The hub's state is well formed; no channel exceeds its capacity.
THEOREM LauncherHubTypeOK == Spec => []TypeOK
  <1>1. IInv => TypeOK
    BY DEF IInv
  <1>2. QED
    BY AlwaysIInv, <1>1, PTL

\* The hub tracks only connections that are there or on their way out, and
\* those that it took from unregister before register.
THEOREM TrackedOrPendingHolds == Spec => []TrackedOrPending
  <1>1. IInv => TrackedOrPending
    BY DEF IInv, PendingInv, TrackedOrPending, TypeOK
  <1>2. QED
    BY AlwaysIInv, <1>1, PTL

\* The hub loop never sends on a closed channel nor closes one twice.
THEOREM OpenWhileTrackedHolds == Spec => []OpenWhileTracked
  <1>1. IInv => OpenWhileTracked
    BY DEF IInv
  <1>2. QED
    BY AlwaysIInv, <1>1, PTL
=============================================================================
