----------------------------- MODULE Hub_proof -----------------------------
(***************************************************************************)
(* Proofs about the hub's agent streams (AgentHub) and its operator's      *)
(* console (Console): for every set of keys, number of sessions and        *)
(* capacity of the command queues; for every set of accounts and codes,    *)
(* and however many attempts, requests and writes.                         *)
(***************************************************************************)
EXTENDS AgentHub, Console, SequenceTheorems, FiniteSetTheorems, TLAPS

\* AloneIsIndexed made inductive: it holds for the ended handlers too, whose
\* deferred delete is still to come, and two registered sessions of one key
\* are both known to overlap.
AloneInv ==
    /\ \A s \in Session :
          Registered(s) /\ s \notin overlapped => streams[key[s]] = s
    /\ \A r, s \in Session :
          Registered(r) /\ Registered(s) /\ r # s /\ key[r] = key[s]
              => r \in overlapped /\ s \in overlapped

\* Sessions start in order.
Fresh == \A s \in Session : s >= nextSess => sess[s] = "none"

AgentsIInv == TypeOK /\ Fresh /\ MapHoldsLiveOnly /\ AloneInv /\ RotatedStaysOut

-----------------------------------------------------------------------------
\* Before the first dial the map is empty and no session is registered.
LEMMA InitAgentsIInv == Init => AgentsIInv
  <1> SUFFICES ASSUME Init PROVE AgentsIInv
    OBVIOUS
  <1> USE AgentHubAssumption DEF Init, Session, NoSession, Command
  <1>1. queue \in [Session -> Seq(Command)] /\ got \in [Session -> Seq(Command)]
    OBVIOUS
  <1>2. \A s \in Session : Len(queue[s]) <= QueueCap
    OBVIOUS
  <1>3. streams \in [Key -> {NoSession} \cup Session]
    OBVIOUS
  <1>4. nextSess \in 1..(MaxSessions + 1) /\ nextCmd \in 1..(MaxCommands + 1)
    OBVIOUS
  <1>5. TypeOK
    BY <1>1, <1>2, <1>3, <1>4 DEF TypeOK
  <1>6. MapHoldsLiveOnly /\ AloneInv
    BY DEF MapHoldsLiveOnly, AloneInv, Registered
  <1>7. RotatedStaysOut
    BY DEF RotatedStaysOut
  <1>8. Fresh
    BY DEF Fresh
  <1>9. QED
    BY <1>5, <1>6, <1>7, <1>8 DEF AgentsIInv

\* Sessions, queues and keys stay of their types, and the queues within their capacity.
LEMMA AgentsTypeStep == TypeOK /\ [Next]_vars => TypeOK'
  <1> SUFFICES ASSUME TypeOK, [Next]_vars PROVE TypeOK'
    OBVIOUS
  <1> USE AgentHubAssumption DEF Session, NoSession, Command
  <1>1. ASSUME NEW s \in Session, Connect(s) PROVE TypeOK'
    <2>1. nextSess' \in 1..(MaxSessions + 1)
      BY <1>1 DEF Connect, TypeOK
    <2>2. QED
      BY <1>1, <2>1 DEF Connect, TypeOK, history
  <1>2. ASSUME NEW s \in Session,
               Refuse(s) \/ Validate(s) \/ Heartbeat(s) \/ AgentCloses(s) \/ RecvFails(s)
        PROVE TypeOK'
    BY <1>2 DEF Refuse, Validate, Heartbeat, AgentCloses, RecvFails, TypeOK, history, hub
  <1>3. ASSUME NEW s \in Session, Register(s) PROVE TypeOK'
    <2>1. streams' \in [Key -> {NoSession} \cup Session]
      BY <1>3 DEF Register, TypeOK
    <2>2. overlapped' \subseteq Session
      BY <1>3 DEF Register, Overlap, SameKey, TypeOK
    <2>3. QED
      BY <1>3, <2>1, <2>2 DEF Register, TypeOK
  <1>4. ASSUME NEW s \in Session, Unregister(s) PROVE TypeOK'
    <2>1. queue' \in [Session -> Seq(Command)]
      BY <1>4 DEF Unregister, TypeOK
    <2>2. \A r \in Session : Len(queue'[r]) <= QueueCap
      BY <1>4 DEF Unregister, TypeOK
    <2>3. streams' \in [Key -> {NoSession} \cup Session]
      BY <1>4 DEF Unregister, TypeOK
    <2>4. QED
      BY <1>4, <2>1, <2>2, <2>3 DEF Unregister, TypeOK, history
  <1>5. ASSUME NEW s \in Session, Deliver(s) PROVE TypeOK'
    <2>1. queue[s] \in Seq(Command) /\ queue[s] # <<>> /\ Len(queue[s]) <= QueueCap
      BY <1>5 DEF Deliver, TypeOK
    <2>2. /\ Head(queue[s]) \in Command
          /\ Tail(queue[s]) \in Seq(Command)
          /\ Len(Tail(queue[s])) <= QueueCap
      <3>1. Len(queue[s]) \in Nat
        BY <2>1
      <3>2. /\ Head(queue[s]) \in Command
            /\ Tail(queue[s]) \in Seq(Command)
            /\ Len(Tail(queue[s])) = Len(queue[s]) - 1
        BY <2>1, HeadTailProperties
      <3>3. QED
        BY <2>1, <3>1, <3>2
    <2>3. queue' \in [Session -> Seq(Command)]
      BY <1>5, <2>2 DEF Deliver, TypeOK
    <2>4. \A r \in Session : Len(queue'[r]) <= QueueCap
      BY <1>5, <2>2 DEF Deliver, TypeOK
    <2>5. got' \in [Session -> Seq(Command)]
      <3>1. Append(got[s], Head(queue[s])) \in Seq(Command)
        BY <2>2 DEF TypeOK
      <3>2. QED
        BY <1>5, <3>1 DEF Deliver, TypeOK
    <2>6. QED
      BY <1>5, <2>3, <2>4, <2>5 DEF Deliver, TypeOK, hub
  <1>6. ASSUME NEW c \in Command, SendCommand(c) PROVE TypeOK'
    <2>1. \A s \in Session : /\ Append(queue[s], c) \in Seq(Command)
                             /\ Len(Append(queue[s], c)) = Len(queue[s]) + 1
                             /\ Len(queue[s]) \in Nat
      BY DEF TypeOK
    <2>2. queue' \in [Session -> Seq(Command)]
      BY <1>6, <2>1 DEF SendCommand, TypeOK
    <2>3. \A s \in Session : Len(queue'[s]) <= QueueCap
      BY <1>6, <2>1 DEF SendCommand, Reachable, TypeOK
    <2>4. nextCmd' \in 1..(MaxCommands + 1)
      BY <1>6 DEF SendCommand, TypeOK
    <2>5. queuedOn' \in [Command -> SUBSET Session]
      BY <1>6 DEF SendCommand, Reachable, TypeOK
    <2>6. QED
      BY <1>6, <2>2, <2>3, <2>4, <2>5 DEF SendCommand, TypeOK, hub
  <1>7. ASSUME NEW k \in Key, NEW new \in Key, Rotate(k, new) PROVE TypeOK'
    BY <1>7 DEF Rotate, TypeOK, hub
  <1>8. CASE Done \/ UNCHANGED vars
    BY <1>8 DEF Done, vars, TypeOK, hub, history
  <1>9. QED
    BY <1>1, <1>2, <1>3, <1>4, <1>5, <1>6, <1>7, <1>8 DEF Next, SessionNext

\* A session that has not been dialed does nothing.
LEMMA FreshStep == TypeOK /\ Fresh /\ [Next]_vars => Fresh'
  <1> SUFFICES ASSUME TypeOK, Fresh, [Next]_vars PROVE Fresh'
    OBVIOUS
  <1>t. /\ sess \in [Session -> {"none", "checking", "validated", "open", "ended", "gone"}]
        /\ nextSess \in Int /\ Session \subseteq Int
    BY AgentHubAssumption DEF TypeOK, Session
  <1>1. CASE UNCHANGED <<sess, nextSess>>
    BY <1>1 DEF Fresh
  <1>2. ASSUME NEW s \in Session, Connect(s) PROVE Fresh'
    BY <1>2, <1>t DEF Fresh, Connect
  <1>3. ASSUME NEW s \in Session,
               Refuse(s) \/ Validate(s) \/ Register(s) \/ RecvFails(s) \/ Unregister(s)
        PROVE Fresh'
    <2>1. sess[s] # "none" /\ nextSess' = nextSess
      BY <1>3 DEF Refuse, Validate, Register, RecvFails, Unregister
    <2>2. \A r \in Session \ {s} : sess'[r] = sess[r]
      BY <1>t, <1>3 DEF Refuse, Validate, Register, RecvFails, Unregister
    <2>3. QED
      BY <1>t, <2>1, <2>2 DEF Fresh
  <1>4. ASSUME NEW s \in Session, Heartbeat(s) \/ AgentCloses(s) \/ Deliver(s) PROVE Fresh'
    BY <1>1, <1>4 DEF Heartbeat, AgentCloses, Deliver, hub
  <1>5. CASE (\E c \in Command : SendCommand(c)) \/ (\E k, new \in Key : Rotate(k, new))
             \/ Done \/ UNCHANGED vars
    BY <1>1, <1>5 DEF SendCommand, Rotate, Done, vars, hub
  <1>6. QED
    BY <1>2, <1>3, <1>4, <1>5 DEF Next, SessionNext

-----------------------------------------------------------------------------
\* The map and who shares a key.
LEMMA MapStep ==
  TypeOK /\ Fresh /\ MapHoldsLiveOnly /\ AloneInv /\ [Next]_vars
    => MapHoldsLiveOnly' /\ AloneInv'
  <1> SUFFICES ASSUME TypeOK, Fresh, MapHoldsLiveOnly, AloneInv, [Next]_vars
               PROVE  MapHoldsLiveOnly' /\ AloneInv'
    OBVIOUS
  <1> USE DEF MapHoldsLiveOnly, AloneInv
  <1>t. /\ sess \in [Session -> {"none", "checking", "validated", "open", "ended", "gone"}]
        /\ key \in [Session -> Key]
        /\ streams \in [Key -> {NoSession} \cup Session]
        /\ \A s \in Session : s # NoSession
    BY DEF TypeOK, Session, NoSession
  <1>1. ASSUME UNCHANGED <<key, streams, overlapped>>,
               \A s \in Session : Registered(s)' <=> Registered(s)
        PROVE  MapHoldsLiveOnly' /\ AloneInv'
    <2>1. MapHoldsLiveOnly'
      BY <1>1, <1>t
    <2>2. AloneInv'
      BY <1>1, <1>t
    <2>3. QED
      BY <2>1, <2>2
  <1>2. ASSUME NEW s \in Session,
               Connect(s) \/ Refuse(s) \/ Validate(s) \/ Heartbeat(s) \/ AgentCloses(s)
               \/ RecvFails(s) \/ Deliver(s)
        PROVE MapHoldsLiveOnly' /\ AloneInv'
    <2>1. UNCHANGED <<key, streams, overlapped>>
      BY <1>2 DEF Connect, Refuse, Validate, Heartbeat, AgentCloses, RecvFails, Deliver, hub,
                  history
    <2>2. CASE UNCHANGED sess
      BY <1>1, <2>1, <2>2 DEF Registered
    <2>3. CASE Refuse(s) \/ Validate(s) \/ RecvFails(s)
      <3>1. \A r \in Session : Registered(r)' <=> Registered(r)
        BY <1>t, <2>3 DEF Refuse, Validate, RecvFails, Registered
      <3>2. QED
        BY <1>1, <2>1, <3>1
    <2>4. CASE Connect(s)
      <3>0. sess[s] = "none"
        BY <2>4, AgentHubAssumption DEF Connect, Fresh, TypeOK, Session
      <3>1. \A r \in Session : Registered(r)' <=> Registered(r)
        BY <1>t, <2>4, <3>0 DEF Connect, Registered
      <3>2. QED
        BY <1>1, <2>1, <3>1
    <2>5. QED
      BY <1>2, <2>2, <2>3, <2>4 DEF Heartbeat, AgentCloses, Deliver, hub
  <1>3. ASSUME NEW s \in Session, Register(s) PROVE MapHoldsLiveOnly' /\ AloneInv'
    <2>1. /\ sess' = [sess EXCEPT ![s] = "open"] /\ sess[s] = "validated"
          /\ streams' = [streams EXCEPT ![key[s]] = s]
          /\ key' = key
      BY <1>3 DEF Register
    <2>2. \A r \in Session : Registered(r)' <=> (Registered(r) \/ r = s)
      BY <1>t, <2>1 DEF Registered
    <2>3. /\ \A r \in Session : Registered(r) /\ r # s /\ key[r] = key[s]
                => r \in overlapped' /\ s \in overlapped'
          /\ overlapped \subseteq overlapped'
      BY <1>3 DEF Register, Overlap, SameKey
    <2>4. MapHoldsLiveOnly'
      BY <1>t, <2>1, <2>2
    <2>5. ASSUME NEW r \in Session, Registered(r)', r \notin overlapped'
          PROVE  streams'[key[r]] = r
      BY <1>t, <2>1, <2>2, <2>3, <2>5
    <2>6. ASSUME NEW q \in Session, NEW r \in Session, Registered(q)', Registered(r)', q # r,
                 key[q] = key[r]
          PROVE  q \in overlapped' /\ r \in overlapped'
      BY <2>2, <2>3, <2>6
    <2>7. AloneInv'
      BY <2>1, <2>5, <2>6
    <2>8. QED
      BY <2>4, <2>7
  <1>4. ASSUME NEW s \in Session, Unregister(s) PROVE MapHoldsLiveOnly' /\ AloneInv'
    <2>1. /\ sess' = [sess EXCEPT ![s] = "gone"] /\ sess[s] = "ended"
          /\ streams' = [streams EXCEPT ![key[s]] = NoSession]
          /\ key' = key /\ overlapped' = overlapped
      BY <1>4 DEF Unregister, history
    <2>2. \A r \in Session : Registered(r)' <=> (Registered(r) /\ r # s)
      BY <1>t, <2>1 DEF Registered
    <2>3. Registered(s)
      BY <2>1 DEF Registered
    <2>4. MapHoldsLiveOnly'
      BY <1>t, <2>1, <2>2
    <2>5. AloneInv'
      BY <1>t, <2>1, <2>2, <2>3
    <2>6. QED
      BY <2>4, <2>5
  <1>5. ASSUME NEW c \in Command, SendCommand(c) PROVE MapHoldsLiveOnly' /\ AloneInv'
    BY <1>1, <1>5 DEF SendCommand, hub, Registered
  <1>6. ASSUME NEW k \in Key, NEW new \in Key, Rotate(k, new)
        PROVE MapHoldsLiveOnly' /\ AloneInv'
    BY <1>1, <1>6 DEF Rotate, hub, Registered
  <1>7. CASE Done \/ UNCHANGED vars
    BY <1>1, <1>7 DEF Done, vars, hub, history, Registered
  <1>8. QED
    BY <1>2, <1>3, <1>4, <1>5, <1>6, <1>7 DEF Next, SessionNext

\* A key that is out and that no session holds comes back by no step: only
\* the holder of a key puts it into gate_agents, and only a key that is there
\* gets a holder.
LEMMA RotatedStep == TypeOK /\ RotatedStaysOut /\ [Next]_vars => RotatedStaysOut'
  <1> SUFFICES ASSUME TypeOK, RotatedStaysOut, [Next]_vars,
                      NEW k \in retired', k \notin carried'
               PROVE  k \notin rows' /\ Holders(k)' = {}
    BY DEF RotatedStaysOut
  <1>t. /\ sess \in [Session -> {"none", "checking", "validated", "open", "ended", "gone"}]
        /\ key \in [Session -> Key] /\ retired \subseteq Key
    BY DEF TypeOK
  <1>1. ASSUME UNCHANGED <<retired, carried>> PROVE k \notin rows /\ Holders(k) = {}
    BY <1>1 DEF RotatedStaysOut
  <1>2. ASSUME UNCHANGED <<rows, retired, carried, key>>,
               \A s \in Session : sess'[s] \in {"validated", "open"} =>
                   \/ sess[s] \in {"validated", "open"}
                   \/ key[s] \in rows
        PROVE  k \notin rows' /\ Holders(k)' = {}
    BY <1>1, <1>2 DEF Holders
  <1>3. ASSUME NEW s \in Session,
               Connect(s) \/ Refuse(s) \/ Validate(s) \/ Register(s) \/ AgentCloses(s)
               \/ RecvFails(s) \/ Unregister(s) \/ Deliver(s)
        PROVE k \notin rows' /\ Holders(k)' = {}
    <2>1. UNCHANGED <<rows, retired, carried, key>>
      BY <1>3 DEF Connect, Refuse, Validate, Register, AgentCloses, RecvFails, Unregister,
                  Deliver, hub, history
    <2>2. ASSUME NEW r \in Session, sess'[r] \in {"validated", "open"}
          PROVE  sess[r] \in {"validated", "open"} \/ key[r] \in rows
      BY <1>t, <1>3, <2>2 DEF Connect, Refuse, Validate, Register, AgentCloses, RecvFails,
                         Unregister, Deliver, hub
    <2>3. QED
      BY <1>2, <2>1, <2>2
  <1>4. ASSUME NEW s \in Session, Heartbeat(s) PROVE k \notin rows' /\ Holders(k)' = {}
    <2>1. k \notin rows /\ Holders(k) = {}
      BY <1>1, <1>4 DEF Heartbeat, history
    <2>2. key[s] # k
      BY <1>4, <2>1 DEF Heartbeat, Holders
    <2>3. QED
      BY <1>4, <2>1, <2>2 DEF Heartbeat, Holders, hub
  <1>5. ASSUME NEW o \in Key, NEW new \in Key, Rotate(o, new)
        PROVE k \notin rows' /\ Holders(k)' = {}
    <2>1. Holders(k)' = Holders(k)
      BY <1>5 DEF Rotate, Holders, hub
    <2>2. CASE k = o
      BY <1>5, <2>1, <2>2 DEF Rotate
    <2>3. CASE k # o
      <3>1. k \in retired /\ k \notin carried
        BY <1>5, <2>3 DEF Rotate
      <3>2. QED
        BY <1>5, <2>1, <3>1 DEF Rotate, RotatedStaysOut
    <2>4. QED
      BY <2>2, <2>3
  <1>6. CASE (\E c \in Command : SendCommand(c)) \/ Done \/ UNCHANGED vars
    BY <1>2, <1>6 DEF SendCommand, Done, vars, hub, history
  <1>7. QED
    BY <1>3, <1>4, <1>5, <1>6 DEF Next, SessionNext

\* What the steps keep holds always.
LEMMA AgentsIInvHolds == Spec => []AgentsIInv
  <1>1. AgentsIInv /\ [Next]_vars => AgentsIInv'
    BY AgentsTypeStep, FreshStep, MapStep, RotatedStep DEF AgentsIInv
  <1>2. QED
    BY InitAgentsIInv, <1>1, PTL DEF Spec

-----------------------------------------------------------------------------
\* The hub's state is well formed; no command queue exceeds its capacity.
THEOREM AgentHubTypeOK == Spec => []TypeOK
  <1>1. AgentsIInv => TypeOK
    BY DEF AgentsIInv
  <1>2. QED
    BY AgentsIInvHolds, <1>1, PTL

\* SendCommand never queues a command on a stream whose handler has returned,
\* although handlers delete each other's entries.
THEOREM MapHoldsLiveOnlyHolds == Spec => []MapHoldsLiveOnly
  <1>1. AgentsIInv => MapHoldsLiveOnly
    BY DEF AgentsIInv
  <1>2. QED
    BY AgentsIInvHolds, <1>1, PTL

\* Only a session of the same key can take a stream out of the map.
THEOREM AloneIsIndexedHolds == Spec => []AloneIsIndexed
  <1>1. AgentsIInv => AloneIsIndexed
    BY DEF AgentsIInv, AloneInv, AloneIsIndexed, Registered
  <1>2. QED
    BY AgentsIInvHolds, <1>1, PTL

\* A key that no stream held when RotateAgentKey replaced it is dead for good.
THEOREM RotatedStaysOutHolds == Spec => []RotatedStaysOut
  <1>1. AgentsIInv => RotatedStaysOut
    BY DEF AgentsIInv
  <1>2. QED
    BY AgentsIInvHolds, <1>1, PTL

-----------------------------------------------------------------------------
(* The order of the commands.                                              *)

\* A stream's commands, those the agent has and those that wait, are in order
\* and older than the next one.
InOrder(g, q, n) ==
    /\ \A i, j \in 1..Len(g) : i < j => g[i] < g[j]
    /\ \A i, j \in 1..Len(q) : i < j => q[i] < q[j]
    /\ \A i \in 1..Len(g), j \in 1..Len(q) : g[i] < q[j]
    /\ \A i \in 1..Len(g) : g[i] < n
    /\ \A i \in 1..Len(q) : q[i] < n

OrderInv == \A s \in Session : InOrder(got[s], queue[s], nextCmd)

\* A command is sent, to this stream or others.
LEMMA InOrderSent ==
  ASSUME NEW g \in Seq(Command), NEW q \in Seq(Command), NEW n \in Nat, InOrder(g, q, n)
  PROVE  InOrder(g, Append(q, n), n + 1) /\ InOrder(g, q, n + 1)
  <1>1. /\ \A i \in 1..Len(g) : g[i] \in Nat
        /\ \A i \in 1..Len(q) : q[i] \in Nat
    <2>1. Command \subseteq Nat
      BY AgentHubAssumption DEF Command
    <2>2. /\ \A i \in 1..Len(g) : g[i] \in Command
          /\ \A i \in 1..Len(q) : q[i] \in Command
      OBVIOUS
    <2>3. QED
      BY <2>1, <2>2
  <1>2. InOrder(g, q, n + 1)
    <2>1. /\ \A i \in 1..Len(g) : g[i] < n + 1
          /\ \A i \in 1..Len(q) : q[i] < n + 1
      BY <1>1 DEF InOrder
    <2>2. QED
      BY <2>1 DEF InOrder
  <1>3. /\ Len(Append(q, n)) = Len(q) + 1 /\ Len(q) \in Nat /\ Len(g) \in Nat
        /\ \A i \in 1..Len(q) : Append(q, n)[i] = q[i]
        /\ Append(q, n)[Len(q) + 1] = n
    OBVIOUS
  <1>4. \A i \in 1..(Len(q) + 1) : i \in 1..Len(q) \/ i = Len(q) + 1
    BY <1>3
  <1>5. InOrder(g, Append(q, n), n + 1)
    BY <1>1, <1>3, <1>4 DEF InOrder
  <1>6. QED
    BY <1>2, <1>5

\* The sender goroutine takes the oldest; the agent has it, or is gone.
LEMMA InOrderDelivered ==
  ASSUME NEW g \in Seq(Command), NEW q \in Seq(Command), q # <<>>, NEW n \in Nat, InOrder(g, q, n)
  PROVE  InOrder(Append(g, Head(q)), Tail(q), n) /\ InOrder(g, Tail(q), n)
  <1>1. /\ Len(q) \in Nat \ {0} /\ Len(g) \in Nat /\ Len(Tail(q)) = Len(q) - 1 /\ Head(q) = q[1]
        /\ \A i \in 1..(Len(q) - 1) : Tail(q)[i] = q[i + 1] /\ i + 1 \in 1..Len(q)
    OBVIOUS
  <1>2. InOrder(g, Tail(q), n)
    BY <1>1 DEF InOrder
  <1> DEFINE h == Append(g, Head(q))
  <1>3. /\ Len(h) = Len(g) + 1
        /\ \A i \in 1..Len(g) : h[i] = g[i]
        /\ h[Len(g) + 1] = q[1]
    BY <1>1
  <1>4. \A i \in 1..(Len(g) + 1) : i \in 1..Len(g) \/ i = Len(g) + 1
    BY <1>1
  <1>5. /\ \A i \in 1..Len(g) : g[i] < q[1]
        /\ q[1] < n
        /\ \A i \in 1..(Len(q) - 1) : q[1] < q[i + 1]
    BY <1>1 DEF InOrder
  <1> HIDE DEF h
  <1>6. /\ \A i, j \in 1..Len(h) : i < j => h[i] < h[j]
        /\ \A i \in 1..Len(h) : h[i] < n
    BY <1>1, <1>3, <1>4, <1>5 DEF InOrder
  <1>7. \A i \in 1..Len(h), j \in 1..Len(Tail(q)) : h[i] < Tail(q)[j]
    BY <1>1, <1>3, <1>4, <1>5 DEF InOrder
  <1>8. QED
    BY <1>2, <1>6, <1>7 DEF InOrder, h

\* Queues are filled at one end and emptied at the other.
LEMMA OrderStep == TypeOK /\ OrderInv /\ [Next]_vars => OrderInv'
  <1> SUFFICES ASSUME TypeOK, OrderInv, [Next]_vars PROVE OrderInv'
    OBVIOUS
  <1>1. \A s \in Session :
           got[s] \in Seq(Command) /\ queue[s] \in Seq(Command) /\ InOrder(got[s], queue[s], nextCmd)
    BY DEF TypeOK, OrderInv
  <1>2. nextCmd \in Nat
    BY AgentHubAssumption DEF TypeOK
  <1>3. ASSUME UNCHANGED <<got, queue, nextCmd>> PROVE OrderInv'
    BY <1>3 DEF OrderInv, InOrder
  <1>4. ASSUME NEW s \in Session, Unregister(s) PROVE OrderInv'
    <2>1. \A r \in Session : /\ got'[r] = got[r] /\ nextCmd' = nextCmd
                             /\ queue'[r] = queue[r] \/ queue'[r] = <<>>
      BY <1>4 DEF Unregister, TypeOK, history
    <2>2. \A r \in Session : InOrder(got[r], <<>>, nextCmd)
      BY <1>1 DEF InOrder
    <2>3. QED
      BY <1>1, <2>1, <2>2 DEF OrderInv, InOrder
  <1>5. ASSUME NEW s \in Session, Deliver(s) PROVE OrderInv'
    <2>1. /\ nextCmd' = nextCmd /\ queue[s] # <<>>
          /\ \A r \in Session \ {s} : got'[r] = got[r] /\ queue'[r] = queue[r]
          /\ queue'[s] = Tail(queue[s])
          /\ got'[s] = got[s] \/ got'[s] = Append(got[s], Head(queue[s]))
      BY <1>5 DEF Deliver, TypeOK
    <2>2. /\ InOrder(Append(got[s], Head(queue[s])), Tail(queue[s]), nextCmd)
          /\ InOrder(got[s], Tail(queue[s]), nextCmd)
      BY <1>1, <1>2, <2>1, InOrderDelivered
    <2>3. ASSUME NEW r \in Session PROVE InOrder(got'[r], queue'[r], nextCmd')
      <3>1. CASE r = s
        <4>1. got'[r] = got'[s] /\ queue'[r] = queue'[s]
          BY <3>1
        <4>2. CASE got'[s] = got[s]
          BY <2>1, <2>2, <4>1, <4>2 DEF InOrder
        <4>3. CASE got'[s] = Append(got[s], Head(queue[s]))
          BY <2>1, <2>2, <4>1, <4>3 DEF InOrder
        <4>4. QED
          BY <2>1, <4>2, <4>3
      <3>2. CASE r # s
        <4>1. got'[r] = got[r] /\ queue'[r] = queue[r]
          BY <2>1, <3>2
        <4>2. QED
          BY <1>1, <2>1, <4>1 DEF InOrder
      <3>3. QED
        BY <3>1, <3>2
    <2>4. QED
      BY <2>3 DEF OrderInv, InOrder
  <1>6. ASSUME NEW c \in Command, SendCommand(c) PROVE OrderInv'
    <2>1. nextCmd' = nextCmd + 1 /\ c = nextCmd
          /\ \A r \in Session : /\ got'[r] = got[r]
                                /\ queue'[r] = queue[r] \/ queue'[r] = Append(queue[r], nextCmd)
      BY <1>6 DEF SendCommand
    <2>2. \A r \in Session : InOrder(got'[r], queue'[r], nextCmd')
      BY <1>1, <1>2, <2>1, InOrderSent
    <2>3. QED
      BY <2>2 DEF OrderInv, InOrder
  <1>7. ASSUME ~(\E s \in Session : Unregister(s) \/ Deliver(s)), ~(\E c \in Command : SendCommand(c))
        PROVE  UNCHANGED <<got, queue, nextCmd>>
    BY <1>7 DEF Next, SessionNext, Connect, Refuse, Validate, Register, Heartbeat, AgentCloses,
                RecvFails, Rotate, Done, vars, hub, history
  <1>8. QED
    BY <1>3, <1>4, <1>5, <1>6, <1>7

\* An agent gets the commands of a stream in the order they were sent, each at
\* most once (SendCommand and the pump of ReportStream).
THEOREM OrderKeptHolds == Spec => []OrderKept
  <1>1. Init => OrderInv
    BY DEF Init, OrderInv, InOrder
  <1>2. OrderInv => OrderKept
    BY DEF OrderInv, InOrder, OrderKept
  <1>3. QED
    BY <1>1, <1>2, OrderStep, AgentHubTypeOK, PTL DEF Spec

-----------------------------------------------------------------------------
(* The console.                                                            *)

Submits == {"create", "update", "createCode", "saveTheme", "password"}
ListWrites == {"create", "update", "deleteLine", "createCode", "deleteCode"}
Kinds == Reads \cup Writes \cup {"none", "me", "login", "password"}
Themes == {{"own"}, {"default"}}

\* What a slot holds: nothing, or a request with all its fields.
IsRequest(q) ==
    /\ DOMAIN q = {"kind", "who", "arg", "live", "tries", "state", "data", "did"}
    /\ q.kind \in Kinds /\ q.live \in BOOLEAN /\ q.did \in BOOLEAN
    /\ IF q.kind = "none" THEN ~q.live /\ ~q.did /\ q.state = "none"
       ELSE q.who \in Accounts /\ q.state \in {"sent", "ok", "failed"}

RequestsTyped(r) ==
    /\ r = [s \in Slots |-> r[s]]
    /\ \A s \in Slots : IsRequest(r[s])

SessionTyped ==
    /\ token \in Accounts \cup {None} /\ authed = (token # None)
    /\ loading \in BOOLEAN /\ (loading => authed)
    /\ page \in Pages /\ (target # {} => authed /\ ~loading)

PageTyped == form \in BOOLEAN /\ busy \in BOOLEAN /\ spoilt \in BOOLEAN /\ doubled \in BOOLEAN

HubTyped ==
    /\ lines = [a \in Accounts |-> lines[a]] /\ codes = [a \in Accounts |-> codes[a]]
    /\ theme = [a \in Accounts |-> theme[a]] /\ agentKey = [a \in Accounts |-> agentKey[a]]
    /\ due \in Int

ConsoleTyped ==
    RequestsTyped(req) /\ SessionTyped /\ PageTyped /\ HubTyped /\ writes \in 0..MaxWrites

\* Who waits for an answer is of this session.
LiveOfSession ==
    \A s \in Slots : req[s].live /\ req[s].kind # "login" => authed /\ req[s].who = token

\* The requests that keep the buttons of a form disabled.
Locks(q) == q.kind = "login" \/ (q.live /\ q.kind \in Submits)

OneLocks ==
    /\ \A s \in Slots : Locks(req[s]) => busy
    /\ \A s, t \in Slots : Locks(req[s]) /\ Locks(req[t]) => s = t
    /\ \A s \in Slots : req[s].kind = "login" => ~authed

\* Reading is for the page that is open, and before one opens there is only getMe.
ReadsOfPage ==
    \A s \in Slots : /\ loading => req[s].kind \in {"none", "me"}
                     /\ req[s].kind \in Reads => req[s].live /\ req[s].kind = LoadOf(page)

ThemedRequests(r) ==
    \A s \in Slots : /\ r[s].kind = "saveTheme" => r[s].arg \in Themes
                     /\ r[s].kind = "theme" /\ r[s].state = "ok" => r[s].data \in Themes

\* A theme is whole in the hub, under way, and on its page.
ThemesKept ==
    /\ ThemeKept /\ ThemedRequests(req)
    /\ page = "branding" /\ loaded => shown \in Themes

Rotates(q, t) == q.kind = "rotate" /\ q.who = t

NoRotation(r, t) == \A s \in Slots : ~Rotates(r[s], t)

\* A rotation that the session of t waits for is alone, and brings key k.
RotationAlone(r, t, k) ==
    \A s \in Slots : Rotates(r[s], t) /\ r[s].live =>
        /\ \A q \in Slots : Rotates(r[q], t) => q = s
        /\ r[s].state = "ok" => r[s].data = {k}

\* Unless two rotations met, one that is under way is alone, and none is when a
\* key is shown.
KeyFollows ==
    /\ newKey # {} => target = {}
    /\ ~doubled =>
          /\ newKey # {} => token # None /\ newKey = {agentKey[token]} /\ NoRotation(req, token)
          /\ RotationAlone(req, token, agentKey[token])

CreatesIn(r) == {s \in Slots : r[s].kind = "create"}

CreatesSentIn(r) == {s \in CreatesIn(r) : r[s].state = "sent"}

\* The form waits for its call.
CreateWaits(r) == \E s \in CreatesIn(r) : r[s].live /\ r[s].state \in {"sent", "ok"}

\* The form for a new line may be submitted once its call, if any, has failed.
FormCounts == form /\ editing = {} /\ writes < MaxWrites /\ ~CreateWaits(req)

Bit(b) == IF b THEN 1 ELSE 0

\* What is still due covers what may still be made.
DueCovers ==
    /\ Cardinality(CreatesSentIn(req)) + Bit(FormCounts) <= due
    /\ Cardinality(CreatesIn(req)) <= writes

\* A write of this page that the hub has done: its answer loads the list anew,
\* or is a failure that spoils it.
Dirty(q) == q.live /\ q.did /\ q.kind \in ListWrites

NoReads(r) == \A s \in Slots : r[s].kind \notin Reads

\* Page list w, or the load that is under way, is the hub's list l.
Follows(r, w, l) ==
    /\ \A s, t \in Slots : r[s].kind \in Reads /\ r[t].kind \in Reads => s = t
    /\ (\A s \in Slots : ~Dirty(r[s])) =>
          /\ \A s \in Slots : r[s].kind \in Reads /\ r[s].state = "ok" => r[s].data = l
          /\ NoReads(r) => w = l

Current == ListOf(LoadOf(page), token)

ListShown == Mounted /\ page \notin {"settings", "branding"} /\ ~spoilt

ListFollows == ListShown => Follows(req, shown, Current)

ConsoleIInv ==
    /\ ConsoleTyped /\ LiveOfSession /\ OneLocks /\ ReadsOfPage /\ TenantIsOfSession
    /\ ThemesKept /\ KeyFollows /\ DueCovers /\ ListFollows

-----------------------------------------------------------------------------
(* Requests.                                                               *)

\* A request that was just sent.
IsNew(q, kind, who, arg) ==
    /\ IsRequest(q) /\ q.kind = kind /\ q.who = who /\ q.arg = arg
    /\ q.live = TRUE /\ q.state = "sent" /\ q.did = FALSE

\* From r to n only slot s changes.
OnlyAt(r, n, s) == RequestsTyped(n) /\ \A t \in Slots \ {s} : n[t] = r[t]

Dropped(r, n, s) == OnlyAt(r, n, s) /\ n[s] = Idle

SentTo(r, n, s, kind, who, arg) ==
    OnlyAt(r, n, s) /\ r[s] = Idle /\ IsNew(n[s], kind, who, arg)

Sent(r, n, kind, who, arg) == \E s \in Slots : SentTo(r, n, s, kind, who, arg)

\* A page that appears sends its request, or has none to send.
MountedIn(r, n, p, a) ==
    IF p = "settings" THEN n = r ELSE LoadOf(p) \in Reads /\ Sent(r, n, LoadOf(p), a, {})

OrphanedTo(r, n, all) ==
    /\ RequestsTyped(n)
    /\ \A s \in Slots :
          \/ r[s].kind \in Reads /\ n[s] = Idle
          \/ /\ r[s].kind \notin Reads
             /\ n[s].kind = r[s].kind /\ n[s].who = r[s].who /\ n[s].arg = r[s].arg
             /\ n[s].state = r[s].state /\ n[s].data = r[s].data /\ n[s].did = r[s].did
             /\ n[s].live = (r[s].live /\ ~all /\ r[s].kind = "me")

\* A slot may be idle.
LEMMA IdleIs ==
  /\ IsRequest(Idle) /\ Idle.kind = "none" /\ Idle.live = FALSE /\ Idle.did = FALSE
  /\ Idle.state = "none"
  <1>1. /\ Idle.kind = "none" /\ Idle.live = FALSE /\ Idle.did = FALSE /\ Idle.state = "none"
        /\ DOMAIN Idle = {"kind", "who", "arg", "live", "tries", "state", "data", "did"}
    BY DEF Idle
  <1>2. IsRequest(Idle)
    BY <1>1 DEF IsRequest, Kinds
  <1>3. QED
    BY <1>1, <1>2

\* Nobody waits for what is idle.
LEMMA IdleStays == [Idle EXCEPT !.live = FALSE] = Idle
  <1>1. Idle = [x \in DOMAIN Idle |-> Idle[x]] /\ Idle.live = FALSE
    BY DEF Idle
  <1>2. ASSUME NEW f, f = [x \in DOMAIN f |-> f[x]], NEW x PROVE [f EXCEPT ![x] = f[x]] = f
    BY <1>2
  <1>3. QED
    BY <1>1, <1>2

\* What Request makes was just sent, and nothing has come of it.
LEMMA RequestIs ==
  ASSUME NEW kind \in Kinds \ {"none"}, NEW who \in Accounts, NEW arg
  PROVE  IsNew(Request(kind, who, arg), kind, who, arg)
  BY DEF Request, IsNew, IsRequest

\* One slot gets another content.
LEMMA SlotSet ==
  ASSUME NEW r, RequestsTyped(r), NEW s \in Slots, NEW q, IsRequest(q)
  PROVE  OnlyAt(r, [r EXCEPT ![s] = q], s) /\ [r EXCEPT ![s] = q][s] = q
  BY DEF RequestsTyped, OnlyAt

\* A slot that is dropped is free.
LEMMA SlotDropped ==
  ASSUME NEW r, RequestsTyped(r), NEW s \in Slots
  PROVE  Dropped(r, [r EXCEPT ![s] = Idle], s) /\ s \in Free([r EXCEPT ![s] = Idle])
  BY IdleIs, SlotSet DEF Dropped, Free

\* A request goes into a free slot.
LEMMA PutIs ==
  ASSUME NEW r, RequestsTyped(r), Free(r) # {},
         NEW kind \in Kinds \ {"none"}, NEW who \in Accounts, NEW arg
  PROVE  Sent(r, Put(r, Request(kind, who, arg)), kind, who, arg)
  <1> DEFINE q == Request(kind, who, arg)
             s == CHOOSE s \in Free(r) : TRUE
  <1>1. s \in Free(r) /\ s \in Slots /\ r[s] = Idle
    BY DEF Free
  <1>2. Put(r, q) = [r EXCEPT ![s] = q]
    BY DEF Put
  <1>3. IsNew(q, kind, who, arg)
    BY RequestIs
  <1> HIDE DEF s, q
  <1>4. OnlyAt(r, [r EXCEPT ![s] = q], s) /\ [r EXCEPT ![s] = q][s] = q
    BY <1>1, <1>3, SlotSet DEF IsNew
  <1>5. SentTo(r, Put(r, q), s, kind, who, arg)
    BY <1>1, <1>2, <1>3, <1>4 DEF SentTo
  <1>6. QED
    BY <1>1, <1>5 DEF Sent, q

\* A page that appears loads, if there is a slot for it.
LEMMA MountIs ==
  ASSUME NEW r, RequestsTyped(r), NEW p \in Pages, p = "settings" \/ Free(r) # {},
         NEW a \in Accounts
  PROVE  MountedIn(r, Mount(r, p, a), p, a)
  <1>1. CASE p = "settings"
    BY <1>1 DEF Mount, MountedIn
  <1>2. CASE p # "settings"
    <2>1. LoadOf(p) \in Reads
      BY <1>2 DEF LoadOf, Pages, Reads
    <2>2. LoadOf(p) \in Kinds \ {"none"}
      BY <2>1 DEF Kinds, Reads
    <2>3. Mount(r, p, a) = Put(r, Request(LoadOf(p), a, {}))
      BY <1>2 DEF Mount
    <2>4. QED
      BY <1>2, <2>1, <2>2, <2>3, PutIs DEF MountedIn
  <1>3. QED
    BY <1>1, <1>2

\* What is left of the requests of a page that goes.
LEMMA OrphanIs ==
  ASSUME NEW r, RequestsTyped(r), NEW all \in BOOLEAN
  PROVE  OrphanedTo(r, Orphan(r, all), all)
  <1> DEFINE n == Orphan(r, all)
  <1>1. ASSUME NEW s \in Slots
        PROVE  /\ IsRequest(n[s])
               /\ \/ r[s].kind \in Reads /\ n[s] = Idle
                  \/ /\ r[s].kind \notin Reads
                     /\ n[s].kind = r[s].kind /\ n[s].who = r[s].who /\ n[s].arg = r[s].arg
                     /\ n[s].state = r[s].state /\ n[s].data = r[s].data /\ n[s].did = r[s].did
                     /\ n[s].live = (r[s].live /\ ~all /\ r[s].kind = "me")
    <2>1. n[s] = IF r[s].kind \in Reads THEN Idle
                 ELSE IF all \/ r[s].kind # "me" THEN [r[s] EXCEPT !.live = FALSE]
                 ELSE r[s]
      BY DEF Orphan
    <2>2. IsRequest(r[s])
      BY DEF RequestsTyped
    <2> HIDE DEF n
    <2>3. CASE r[s].kind \in Reads
      BY <2>1, <2>3, IdleIs
    <2>4. CASE r[s].kind \notin Reads /\ (all \/ r[s].kind # "me")
      <3>1. n[s] = [r[s] EXCEPT !.live = FALSE]
        BY <2>1, <2>4
      <3>2. QED
        BY <2>2, <2>4, <3>1 DEF IsRequest
    <2>5. CASE r[s].kind \notin Reads /\ ~(all \/ r[s].kind # "me")
      BY <2>1, <2>2, <2>5 DEF IsRequest
    <2>6. QED
      BY <2>3, <2>4, <2>5
  <1>2. n = [s \in Slots |-> n[s]]
    BY DEF Orphan
  <1>3. QED
    BY <1>1, <1>2 DEF RequestsTyped, OrphanedTo

\* The free slots can be counted.
LEMMA FreeSlots == ASSUME NEW r PROVE IsFiniteSet(Free(r)) /\ Cardinality(Free(r)) \in Nat
  <1>1. IsFiniteSet(Slots)
    BY FS_Interval, ConsoleAssumption DEF Slots
  <1>2. QED
    BY <1>1, FS_Subset, FS_CardinalityType DEF Free

\* Of two free slots one is left.
LEMMA StillFree ==
  ASSUME NEW r, Cardinality(Free(r)) >= 2, NEW n, NEW s, OnlyAt(r, n, s)
  PROVE  Free(n) # {}
  <1>1. PICK t \in Free(r) : t # s
    <2>1. SUFFICES ASSUME Free(r) \subseteq {s} PROVE FALSE
      OBVIOUS
    <2>2. Cardinality(Free(r)) <= Cardinality({s}) /\ Cardinality({s}) = 1
      BY <2>1, FS_Singleton, FS_Subset
    <2>3. QED
      BY <2>2, FreeSlots
  <1>2. n[t] = Idle /\ t \in Slots
    BY <1>1 DEF Free, OnlyAt
  <1>3. QED
    BY <1>2 DEF Free

\* From r to n the request of slot s goes on.
GoesOn(r, n, s) ==
    /\ OnlyAt(r, n, s)
    /\ n[s].kind = r[s].kind /\ n[s].who = r[s].who /\ n[s].arg = r[s].arg
    /\ n[s].live = r[s].live

-----------------------------------------------------------------------------
(* The steps, by what they do to the requests.                             *)

\* The hub refuses, answers what is read, does what is written, or is not heard.
LEMMA DenyIs ==
  ASSUME ConsoleTyped, NEW s \in Slots, Deny(s)
  PROVE  GoesOn(req, req', s) /\ req[s].state = "sent" /\ req'[s].state = "failed"
         /\ req'[s].did = req[s].did
  BY DEF Deny, ConsoleTyped, GoesOn, OnlyAt, RequestsTyped, IsRequest

\* A read brings the list of the account that asks.
LEMMA ServeReadIs ==
  ASSUME ConsoleTyped, NEW s \in Slots, ServeRead(s)
  PROVE  GoesOn(req, req', s) /\ req[s].state = "sent" /\ req'[s].state = "ok"
         /\ req'[s].data = ListOf(req[s].kind, req[s].who) /\ req'[s].did = req[s].did
  <1> DEFINE d == ListOf(req[s].kind, req[s].who)
  <1>1. req[s].state = "sent" /\ req' = [req EXCEPT ![s].state = "ok", ![s].data = d]
    BY DEF ServeRead
  <1> HIDE DEF d
  <1>2. QED
    BY <1>1 DEF d, ConsoleTyped, GoesOn, OnlyAt, RequestsTyped, IsRequest

\* A write is done, and its answer is on its way.
LEMMA ServedIs ==
  ASSUME ConsoleTyped, NEW s \in Slots, NEW d, Served(s, d), req[s].state = "sent"
  PROVE  GoesOn(req, req', s) /\ req'[s].state = "ok"
         /\ req'[s].data = d /\ req'[s].did = TRUE
  BY DEF Served, ConsoleTyped, GoesOn, OnlyAt, RequestsTyped, IsRequest

\* A request that is not heard is sent again or fails; what the hub did stays done.
LEMMA LoseIs ==
  ASSUME ConsoleTyped, NEW s \in Slots, Lose(s)
  PROVE  GoesOn(req, req', s) /\ req[s].state \in {"sent", "ok"}
         /\ req'[s].state \in {"sent", "failed"} /\ req'[s].did = req[s].did
  <1> DEFINE b == IF req[s].tries = Retries THEN "failed" ELSE "sent"
             k == IF req[s].tries = Retries THEN 0 ELSE req[s].tries + 1
  <1>1. /\ req' = [req EXCEPT ![s].state = b, ![s].tries = k, ![s].data = {}]
        /\ req[s].state \in {"sent", "ok"}
    BY DEF Lose
  <1>2. b \in {"sent", "failed"}
    OBVIOUS
  <1> HIDE DEF b, k
  <1>3. QED
    BY <1>1, <1>2 DEF ConsoleTyped, GoesOn, OnlyAt, RequestsTyped, IsRequest

HubStep(s) == Lose(s) \/ Serve(s)

\* The steps of the hub and the network change one request, and nothing the console shows.
LEMMA HubStepIs ==
  ASSUME ConsoleTyped, NEW s \in Slots, HubStep(s)
  PROVE  /\ GoesOn(req, req', s)
         /\ req[s].state \in {"sent", "ok"} /\ req[s].kind # "none"
         /\ req'[s].state \in {"sent", "ok", "failed"}
         /\ UNCHANGED <<session, list, lineForm, modal, busy, writes>>
  <1>1. IsRequest(req[s])
    BY DEF ConsoleTyped, RequestsTyped
  <1>2. ASSUME NEW d, Served(s, d), req[s].state = "sent"
        PROVE  /\ GoesOn(req, req', s) /\ req'[s].state = "ok"
               /\ UNCHANGED <<session, list, lineForm, modal, busy, writes>>
    BY <1>2, ServedIs DEF Served
  <1>3. CASE Lose(s)
    BY <1>1, <1>3, LoseIs DEF Lose, IsRequest, view
  <1>4. CASE Deny(s)
    BY <1>1, <1>4, DenyIs DEF Deny, IsRequest, view, notes
  <1>5. CASE ServeRead(s)
    BY <1>1, <1>5, ServeReadIs DEF ServeRead, IsRequest, view, notes
  <1>6. CASE \E d : Served(s, d) /\ req[s].state = "sent"
    BY <1>1, <1>2, <1>6 DEF IsRequest
  <1>7. QED
    BY <1>3, <1>4, <1>5, <1>6
    DEF HubStep, Serve, Asked, CreateLine, UpdateLine, DeleteLine, CreateCode, DeleteCode,
        UpdateTheme, RotateAgentKey

\* Who is signed in has an account.
LEMMA SignedIn == ASSUME ConsoleTyped, authed PROVE token \in Accounts
  BY DEF ConsoleTyped, SessionTyped

\* A request of this session is sent.
LEMMA SendIs ==
  ASSUME ConsoleTyped, authed, NEW kind \in Kinds \ {"none"}, NEW arg, Send(kind, arg)
  PROVE  Sent(req, req', kind, token, arg) /\ writes' = writes + 1 /\ writes < MaxWrites
  <1>1. RequestsTyped(req) /\ Free(req) # {} /\ req' = Put(req, Request(kind, token, arg))
    BY DEF Send, ConsoleTyped
  <1>2. QED
    BY <1>1, SignedIn, PutIs DEF Send

\* An answer comes.
LEMMA DropIs ==
  ASSUME ConsoleTyped, NEW s \in Slots
  PROVE  Dropped(req, [req EXCEPT ![s] = Idle], s) /\ Free([req EXCEPT ![s] = Idle]) # {}
  BY SlotDropped DEF ConsoleTyped

\* The answer to a write comes and the list is loaded again.
Reloaded(s) ==
    \E rest : /\ Dropped(req, rest, s) /\ MountedIn(rest, req', page, token)
              /\ spoilt' = LoadUnderWay(rest)

\* Reload drops the write and loads the page once more.
LEMMA ReloadIs ==
  ASSUME ConsoleTyped, authed, NEW s \in Slots, Reload(s)
  PROVE  Reloaded(s)
  <1> DEFINE rest == [req EXCEPT ![s] = Idle]
  <1>1. Dropped(req, rest, s) /\ Free(rest) # {} /\ RequestsTyped(rest)
    BY DropIs DEF Dropped, OnlyAt
  <1>2. req' = Mount(rest, page, token) /\ spoilt' = LoadUnderWay(rest)
    BY DEF Reload
  <1> HIDE DEF rest
  <1>3. MountedIn(rest, req', page, token)
    BY <1>1, <1>2, SignedIn, MountIs DEF ConsoleTyped, SessionTyped
  <1>4. QED
    BY <1>1, <1>2, <1>3 DEF Reloaded

\* GiveUp drops the write; if the hub did it, the list may be wrong.
LEMMA GiveUpIs ==
  ASSUME ConsoleTyped, NEW s \in Slots, GiveUp(s)
  PROVE  Dropped(req, req', s) /\ spoilt' = (spoilt \/ req[s].did)
  BY DropIs DEF GiveUp

\* After a login the page sends its request, then the session its own.
LEMMA LoginIs ==
  ASSUME ConsoleTyped, NEW s \in Slots, ReceiveLogin(s), req[s].state = "ok"
  PROVE  \E rest, m : /\ Dropped(req, rest, s) /\ MountedIn(rest, m, page, req[s].who)
                      /\ Sent(m, req', "me", req[s].who, {})
  <1> DEFINE rest == [req EXCEPT ![s] = Idle]
             m == Mount(rest, page, req[s].who)
  <1>1. Dropped(req, rest, s) /\ Free(rest) # {} /\ RequestsTyped(rest)
    BY DropIs DEF Dropped, OnlyAt
  <1>2. /\ Cardinality(Free(rest)) >= 2
        /\ req' = Put(m, Request("me", req[s].who, {}))
    BY DEF ReceiveLogin
  <1>3. req[s].who \in Accounts
    BY DEF ReceiveLogin, Answered, ConsoleTyped, RequestsTyped, IsRequest
  <1>4. MountedIn(rest, m, page, req[s].who)
    BY <1>1, <1>3, MountIs DEF ConsoleTyped, SessionTyped
  <1> HIDE DEF rest, m
  <1>5. RequestsTyped(m) /\ Free(m) # {}
    BY <1>1, <1>2, <1>4, StillFree DEF MountedIn, Sent, SentTo, OnlyAt
  <1>6. "me" \in Kinds \ {"none"}
    BY DEF Kinds
  <1>7. Sent(m, req', "me", req[s].who, {})
    BY <1>2, <1>3, <1>5, <1>6, PutIs
  <1>8. QED
    BY <1>1, <1>4, <1>7

\* The answer to getMe, when it is good, and the page's request if it waited.
LEMMA MeIs ==
  ASSUME ConsoleTyped, NEW s \in Slots, ReceiveMe(s), req[s].state = "ok"
  PROVE  \E rest : /\ Dropped(req, rest, s)
                   /\ IF loading THEN MountedIn(rest, req', page, token) ELSE req' = rest
  <1> DEFINE rest == [req EXCEPT ![s] = Idle]
  <1>1. Dropped(req, rest, s) /\ Free(rest) # {} /\ RequestsTyped(rest)
    BY DropIs DEF Dropped, OnlyAt
  <1>2. req' = IF loading THEN Mount(rest, page, token) ELSE rest
    BY DEF ReceiveMe
  <1> HIDE DEF rest
  <1>3. loading => MountedIn(rest, req', page, token)
    BY <1>1, <1>2, SignedIn, MountIs DEF ConsoleTyped, SessionTyped
  <1>4. QED
    BY <1>1, <1>2, <1>3

\* It ends the session when it is not.
LEMMA MeFailsIs ==
  ASSUME ConsoleTyped, NEW s \in Slots, ReceiveMe(s), req[s].state # "ok"
  PROVE  \E rest : /\ Dropped(req, rest, s)
                   /\ IF authed THEN OrphanedTo(rest, req', TRUE) ELSE req' = rest
  <1> DEFINE rest == [req EXCEPT ![s] = Idle]
  <1>1. Dropped(req, rest, s) /\ RequestsTyped(rest)
    BY DropIs DEF Dropped, OnlyAt
  <1>2. IF authed THEN req' = Orphan(rest, TRUE) ELSE req' = rest
    BY DEF ReceiveMe
  <1> HIDE DEF rest
  <1>3. QED
    BY <1>1, <1>2, OrphanIs

\* The page that goes leaves its requests, and the next one loads.
LEMMA NavigateIs ==
  ASSUME ConsoleTyped, NEW p \in Pages, Navigate(p)
  PROVE  \E rest : OrphanedTo(req, rest, FALSE) /\ MountedIn(rest, req', p, token)
  <1> DEFINE rest == Orphan(req, FALSE)
  <1>1. OrphanedTo(req, rest, FALSE) /\ RequestsTyped(rest)
    BY OrphanIs DEF ConsoleTyped, OrphanedTo
  <1>2. p = "settings" \/ Free(rest) # {}
    <2>1. \A s \in Slots : req[s] = Idle => rest[s] = Idle
      BY IdleIs, IdleStays DEF Orphan, Reads
    <2>2. QED
      BY <2>1 DEF Navigate, Free
  <1>3. req' = Mount(rest, p, token) /\ authed
    BY DEF Navigate, Uncovered, Mounted
  <1> HIDE DEF rest
  <1>4. QED
    BY <1>1, <1>2, <1>3, SignedIn, MountIs

-----------------------------------------------------------------------------
\* At the start there is the getMe of the session that was kept, or nothing.
LEMMA InitConsoleIInv == ConsoleInit => ConsoleIInv
  <1> SUFFICES ASSUME ConsoleInit PROVE ConsoleIInv
    OBVIOUS
  <1> DEFINE none == [s \in Slots |-> Idle]
  <1>1. RequestsTyped(none) /\ \A s \in Slots : none[s] = Idle
    BY IdleIs DEF RequestsTyped
  <1>2. IF authed THEN req = Put(none, Request("me", token, {})) ELSE req = none
    BY DEF ConsoleInit
  <1>3. Free(none) # {}
    <2>1. 1 \in Slots
      BY ConsoleAssumption DEF Slots
    <2>2. QED
      BY <1>1, <2>1 DEF Free
  <1>4. "me" \in Kinds \ {"none"} /\ (authed => token \in Accounts)
    BY DEF Kinds, ConsoleInit
  <1> HIDE DEF none
  <1>5. authed => Sent(none, req, "me", token, {})
    BY <1>1, <1>2, <1>3, <1>4, PutIs
  <1>6. RequestsTyped(req)
    BY <1>1, <1>2, <1>5 DEF Sent, SentTo, OnlyAt
  <1>7. \A s \in Slots :
           \/ req[s] = Idle
           \/ authed /\ req[s].kind = "me" /\ req[s].who = token /\ req[s].live = TRUE /\ req[s].did = FALSE
    BY <1>1, <1>2, <1>5 DEF Sent, SentTo, OnlyAt, IsNew
  <1>8. ConsoleTyped
    <2>1. /\ lines = [a \in Accounts |-> lines[a]] /\ codes = [a \in Accounts |-> codes[a]]
          /\ theme = [a \in Accounts |-> theme[a]] /\ agentKey = [a \in Accounts |-> agentKey[a]]
      BY DEF ConsoleInit
    <2>2. loading \in BOOLEAN /\ (loading => authed) /\ authed = (token # None)
      BY DEF ConsoleInit
    <2>3. writes \in 0..MaxWrites /\ due \in Int
      BY ConsoleAssumption DEF ConsoleInit
    <2>4. QED
      BY <1>6, <2>1, <2>2, <2>3 DEF ConsoleInit, ConsoleTyped, SessionTyped, PageTyped, HubTyped
  <1>9. LiveOfSession /\ OneLocks /\ ReadsOfPage /\ TenantIsOfSession
    <2>1. \A s \in Slots : ~Locks(req[s]) /\ req[s].kind \notin Reads /\ req[s].kind # "login"
      BY <1>7, IdleIs DEF Locks, Submits, Reads
    <2>2. QED
      BY <1>7, <2>1, IdleIs DEF ConsoleInit, LiveOfSession, OneLocks, ReadsOfPage, TenantIsOfSession
  <1>10. ThemesKept /\ KeyFollows
    BY <1>7, IdleIs DEF ConsoleInit, ThemesKept, ThemedRequests, ThemeKept, Themes, KeyFollows, NoRotation,
                               RotationAlone, Rotates
  <1>11. DueCovers
    <2>1. CreatesSentIn(req) = {} /\ CreatesIn(req) = {}
      BY <1>7, IdleIs DEF CreatesSentIn, CreatesIn
    <2>2. QED
      BY <2>1, FS_EmptySet DEF ConsoleInit, DueCovers, FormCounts, Bit
  <1>12. ListFollows
    BY DEF ConsoleInit, ListFollows, ListShown, Mounted
  <1>13. QED
    BY <1>8, <1>9, <1>10, <1>11, <1>12 DEF ConsoleIInv

\* The steps that send, receive or forget nothing.
LEMMA QuietIs ==
  ASSUME \/ OpenCreate \/ Cancel \/ Dismiss \/ UNCHANGED consoleVars
         \/ \E x \in shown : OpenEdit(x) \/ Ask(x)
  PROVE  UNCHANGED <<session, list, busy, spoilt, req, tables, writes>>
  BY DEF OpenCreate, Cancel, Dismiss, consoleVars, OpenEdit, Ask, view, notes, modal

\* The operator and the timers send a request.
Sends(kind, who, arg) ==
    Sent(req, req', kind, who, arg) /\ UNCHANGED <<session, list, lineForm, tables>>

\* What the operator and the timer of a page send.
LEMMA SendsAre ==
  ASSUME ConsoleTyped
  PROVE  /\ \A a \in Accounts : SignIn(a) => Sends("login", a, {})
         /\ Poll => Sends(LoadOf(page), token, {}) /\ LoadOf(page) \in Reads
         /\ SubmitLine => \E kind \in {"create", "update"} :
                             (kind = "create" => editing = {}) /\ Sends(kind, token, editing)
         /\ \A c \in Codes : SubmitCode(c) => Sends("createCode", token, {c})
         /\ SaveTheme => Sends("saveTheme", token, shown)
         /\ ChangePassword => Sends("password", token, {})
         /\ ConfirmDelete => \E kind \in {"deleteLine", "deleteCode"} : Sends(kind, token, target)
         /\ HandleRotateKey => Sends("rotate", token, target)
  <1>1. {"login", "create", "update", "createCode", "saveTheme", "password", "deleteLine",
         "deleteCode", "rotate"} \subseteq Kinds \ {"none"}
    BY DEF Kinds, Writes
  <1>2. ASSUME NEW a \in Accounts, SignIn(a) PROVE Sends("login", a, {})
    <2>1. RequestsTyped(req) /\ Free(req) # {} /\ req' = Put(req, Request("login", a, {}))
      BY <1>2 DEF SignIn, ConsoleTyped
    <2>2. QED
      BY <1>1, <1>2, <2>1, PutIs DEF SignIn, Sends
  <1>3. ASSUME Poll PROVE Sends(LoadOf(page), token, {}) /\ LoadOf(page) \in Reads
    <2>1. RequestsTyped(req) /\ Free(req) # {} /\ req' = Mount(req, page, token) /\ page # "settings"
      BY <1>3 DEF Poll, ConsoleTyped
    <2>2. token \in Accounts /\ page \in Pages
      BY <1>3 DEF Poll, Mounted, ConsoleTyped, SessionTyped
    <2>3. MountedIn(req, req', page, token)
      BY <2>1, <2>2, MountIs
    <2>4. QED
      BY <1>3, <2>1, <2>3 DEF MountedIn, Poll, Sends
  <1>4. ASSUME SubmitLine
        PROVE  \E kind \in {"create", "update"} :
                  (kind = "create" => editing = {}) /\ Sends(kind, token, editing)
    BY <1>1, <1>4, SendIs DEF SubmitLine, LineFormReady, Uncovered, Mounted, Sends
  <1>5. ASSUME NEW c \in Codes, SubmitCode(c) PROVE Sends("createCode", token, {c})
    BY <1>1, <1>5, SendIs DEF SubmitCode, CodeFormReady, Uncovered, Mounted, Sends
  <1>6. ASSUME SaveTheme PROVE Sends("saveTheme", token, shown)
    BY <1>1, <1>6, SendIs DEF SaveTheme, ThemeFormReady, Uncovered, Mounted, Sends
  <1>7. ASSUME ChangePassword PROVE Sends("password", token, {})
    BY <1>1, <1>7, SendIs DEF ChangePassword, PasswordFormReady, Uncovered, Mounted, Sends
  <1>8. ASSUME ConfirmDelete
        PROVE  \E kind \in {"deleteLine", "deleteCode"} : Sends(kind, token, target)
    BY <1>1, <1>8, SendIs DEF ConfirmDelete, ConsoleTyped, SessionTyped, Sends, view
  <1>9. ASSUME HandleRotateKey PROVE Sends("rotate", token, target)
    BY <1>1, <1>9, SendIs DEF HandleRotateKey, ConsoleTyped, SessionTyped, Sends
  <1>10. QED
    BY <1>2, <1>3, <1>4, <1>5, <1>6, <1>7, <1>8, <1>9

-----------------------------------------------------------------------------
(* Types.                                                                  *)

\* Answers to writes of this session reload the list, or are given up.
LEMMA WriteAnswers ==
  ASSUME ConsoleTyped, LiveOfSession, NEW s \in Slots
  PROVE  /\ ReceiveSubmit(s) \/ ReceiveDelete(s) =>
               /\ authed /\ req[s].who = token
               /\ IF req[s].state = "ok" THEN Reloaded(s)
                  ELSE Dropped(req, req', s) /\ spoilt' = (spoilt \/ req[s].did)
         /\ ReceiveRotate(s) => authed /\ req[s].who = token /\ Dropped(req, req', s)
         /\ ReceiveSave(s) \/ ReceiveLoad(s) \/ Ignore(s) => Dropped(req, req', s)
  <1>1. ASSUME req[s].live, req[s].kind # "login" PROVE authed /\ req[s].who = token
    BY <1>1 DEF LiveOfSession
  <1>2. ASSUME ReceiveSubmit(s) \/ ReceiveDelete(s)
        PROVE  /\ authed /\ req[s].who = token
               /\ IF req[s].state = "ok" THEN Reloaded(s)
                  ELSE Dropped(req, req', s) /\ spoilt' = (spoilt \/ req[s].did)
    <2>1. authed /\ req[s].who = token
      BY <1>1, <1>2 DEF ReceiveSubmit, ReceiveDelete, Answered
    <2>2. IF req[s].state = "ok" THEN Reload(s) ELSE GiveUp(s)
      BY <1>2 DEF ReceiveSubmit, ReceiveDelete
    <2>3. QED
      BY <2>1, <2>2, ReloadIs, GiveUpIs
  <1>3. ASSUME ReceiveRotate(s)
        PROVE  authed /\ req[s].who = token /\ Dropped(req, req', s)
    BY <1>1, <1>3, DropIs DEF ReceiveRotate, Answered
  <1>4. ASSUME ReceiveSave(s) \/ ReceiveLoad(s) \/ Ignore(s) PROVE Dropped(req, req', s)
    BY <1>4, DropIs DEF ReceiveSave, ReceiveLoad, Ignore
  <1>5. QED
    BY <1>2, <1>3, <1>4

\* The login that is refused.
LEMMA LoginFailsIs ==
  ASSUME ConsoleTyped, NEW s \in Slots, ReceiveLogin(s), req[s].state # "ok"
  PROVE  Dropped(req, req', s)
  BY DropIs DEF ReceiveLogin

\* After a logout nobody waits for what is under way.
LEMMA LogoutIs ==
  ASSUME ConsoleTyped, Logout
  PROVE  OrphanedTo(req, req', TRUE)
  BY OrphanIs DEF Logout, ConsoleTyped

\* The slots keep to their form whatever comes.
LEMMA RequestsTypedStep ==
  ASSUME ConsoleTyped, LiveOfSession, [ConsoleNext]_consoleVars
  PROVE  RequestsTyped(req')
  <1> USE DEF Dropped, OnlyAt, Sends, Sent, SentTo, OrphanedTo
  <1>1. ASSUME NEW r, NEW p, NEW a, RequestsTyped(r), MountedIn(r, req', p, a)
        PROVE  RequestsTyped(req')
    BY <1>1 DEF MountedIn
  <1>2. ASSUME NEW s \in Slots, HubStep(s) PROVE RequestsTyped(req')
    BY <1>2, HubStepIs DEF GoesOn
  <1>3. ASSUME NEW s \in Slots, ReceiveLogin(s) PROVE RequestsTyped(req')
    BY <1>3, LoginIs, LoginFailsIs
  <1>4. ASSUME NEW s \in Slots, ReceiveMe(s) PROVE RequestsTyped(req')
    BY <1>1, <1>4, MeIs, MeFailsIs
  <1>5. ASSUME NEW s \in Slots, ReceiveSubmit(s) \/ ReceiveDelete(s) PROVE RequestsTyped(req')
    BY <1>1, <1>5, WriteAnswers DEF Reloaded
  <1>6. ASSUME NEW s \in Slots,
               ReceiveRotate(s) \/ ReceiveSave(s) \/ ReceiveLoad(s) \/ Ignore(s)
        PROVE  RequestsTyped(req')
    BY <1>6, WriteAnswers
  <1>7. ASSUME NEW p \in Pages, Navigate(p) PROVE RequestsTyped(req')
    BY <1>1, <1>7, NavigateIs
  <1>8. CASE Logout
    BY <1>8, LogoutIs
  <1>9. CASE \/ OpenCreate \/ Cancel \/ Dismiss \/ UNCHANGED consoleVars
             \/ \E x \in shown : OpenEdit(x) \/ Ask(x)
    BY <1>9, QuietIs DEF ConsoleTyped
  <1>10. CASE \/ \E a \in Accounts : SignIn(a)
              \/ \E c \in Codes : SubmitCode(c)
              \/ Poll \/ SubmitLine \/ SaveTheme \/ ChangePassword
              \/ ConfirmDelete \/ HandleRotateKey
    BY <1>10, SendsAre
  <1>11. QED
    BY <1>2, <1>3, <1>4, <1>5, <1>6, <1>7, <1>8, <1>9, <1>10
    DEF ConsoleNext, HubStep, Receive

\* Who is signed in, and which page is open.
LEMMA SessionTypedStep ==
  ASSUME ConsoleTyped, [ConsoleNext]_consoleVars
  PROVE  SessionTyped'
  <1> USE DEF SessionTyped, session, list, view, modal, Blank
  <1>1. SessionTyped
    BY DEF ConsoleTyped
  <1>2. ASSUME UNCHANGED <<token, authed, loading, page>>, target' = target \/ target' = {}
        PROVE  SessionTyped'
    BY <1>1, <1>2
  <1>3. ASSUME NEW s \in Slots, HubStep(s) PROVE SessionTyped'
    BY <1>2, <1>3, HubStepIs
  <1>4. ASSUME NEW s \in Slots, ReceiveLogin(s) PROVE SessionTyped'
    <2>1. req[s].who \in Accounts
      BY <1>4 DEF ReceiveLogin, Answered, ConsoleTyped, RequestsTyped, IsRequest
    <2>2. CASE req[s].state = "ok"
      <3>1. token' = req[s].who /\ authed' = TRUE /\ target' = {} /\ UNCHANGED <<loading, page>>
        BY <1>4, <2>2 DEF ReceiveLogin
      <3>2. QED
        BY <1>1, <2>1, <3>1, ConsoleAssumption
    <2>3. CASE req[s].state # "ok"
      BY <1>2, <1>4, <2>3 DEF ReceiveLogin
    <2>4. QED
      BY <2>2, <2>3
  <1>5. ASSUME NEW s \in Slots, ReceiveMe(s) PROVE SessionTyped'
    <2>1. /\ loading' = FALSE /\ UNCHANGED page
          /\ \/ UNCHANGED <<token, authed, target>>
             \/ token' = None /\ authed' = FALSE /\ target' = {}
      BY <1>5 DEF ReceiveMe, SignedOut
    <2>2. QED
      BY <1>1, <2>1
  <1>6. ASSUME NEW s \in Slots, ReceiveLoad(s) \/ ReceiveSubmit(s) \/ ReceiveSave(s)
                                \/ ReceiveDelete(s) \/ ReceiveRotate(s) \/ Ignore(s)
        PROVE  SessionTyped'
    BY <1>2, <1>6
    DEF ReceiveLoad, ReceiveSubmit, ReceiveSave, ReceiveDelete, ReceiveRotate, Ignore
  <1>7. ASSUME NEW p \in Pages, Navigate(p) PROVE SessionTyped'
    BY <1>1, <1>7 DEF Navigate
  <1>8. CASE Logout
    BY <1>1, <1>8 DEF Logout, SignedOut, Uncovered, Mounted
  <1>9. CASE OpenCreate \/ Cancel \/ Dismiss \/ UNCHANGED consoleVars
    BY <1>2, <1>9 DEF OpenCreate, Cancel, Dismiss, consoleVars
  <1>10. ASSUME NEW x \in shown, OpenEdit(x) \/ Ask(x) PROVE SessionTyped'
    BY <1>1, <1>2, <1>10 DEF OpenEdit, Ask, LineRow, CodeCard, AgentCard, Uncovered, Mounted
  <1>11. CASE \/ \E a \in Accounts : SignIn(a)
              \/ \E c \in Codes : SubmitCode(c)
              \/ Poll \/ SubmitLine \/ SaveTheme \/ ChangePassword
              \/ ConfirmDelete \/ HandleRotateKey
    BY <1>2, <1>11 DEF SignIn, SubmitCode, Poll, SubmitLine, SaveTheme, ChangePassword,
                       ConfirmDelete, HandleRotateKey
  <1> HIDE DEF SessionTyped, session, list, view, modal, Blank
  <1>12. QED
    BY <1>3, <1>4, <1>5, <1>6, <1>7, <1>8, <1>9, <1>10, <1>11 DEF ConsoleNext, HubStep, Receive

\* The flags of the page stay truth values.
LEMMA PageTypedStep ==
  ASSUME ConsoleTyped, [ConsoleNext]_consoleVars
  PROVE  PageTyped'
  <1> USE DEF ConsoleTyped, PageTyped, view, modal, lineForm, Blank
  <1>1. ASSUME NEW s \in Slots, HubStep(s) PROVE PageTyped'
    <2>1. UNCHANGED <<form, busy, doubled>>
      BY <1>1, HubStepIs
    <2>2. spoilt' \in BOOLEAN
      BY <1>1 DEF HubStep, Serve, Lose, Deny, ServeRead, CreateLine, UpdateLine, DeleteLine,
                  CreateCode, DeleteCode, UpdateTheme, RotateAgentKey, Served
    <2>3. QED
      BY <2>1, <2>2
  <1>2. ASSUME NEW s \in Slots, Receive(s) PROVE PageTyped'
    BY <1>2 DEF Receive, ReceiveLogin, ReceiveMe, SignedOut, ReceiveLoad, ReceiveSubmit,
                ReceiveSave, ReceiveDelete, ReceiveRotate, Ignore, Reload, GiveUp, LoadUnderWay
  <1>3. ASSUME ~\E s \in Slots : HubStep(s) \/ Receive(s) PROVE PageTyped'
    BY <1>3 DEF ConsoleNext, HubStep, SignIn, SubmitCode, Poll, SubmitLine, SaveTheme,
                ChangePassword, ConfirmDelete, HandleRotateKey, OpenCreate, Cancel, Dismiss,
                consoleVars, OpenEdit, Ask, Navigate, Logout, SignedOut, LoadUnderWay
  <1>4. QED
    BY <1>1, <1>2, <1>3

\* The hub's tables have a row for each account.
LEMMA HubTypedStep ==
  ASSUME ConsoleTyped, [ConsoleNext]_consoleVars
  PROVE  HubTyped'
  <1> USE DEF HubTyped, tables, notes, OneMore
  <1>1. HubTyped
    BY DEF ConsoleTyped
  <1>2. ASSUME UNCHANGED tables, due' = due \/ due' = OneMore PROVE HubTyped'
    BY <1>1, <1>2
  <1>3. ASSUME NEW s \in Slots, Lose(s) \/ Deny(s) \/ ServeRead(s) PROVE HubTyped'
    BY <1>2, <1>3 DEF Lose, Deny, ServeRead
  <1>4. ASSUME NEW s \in Slots, CreateLine(s) PROVE HubTyped'
    <2> DEFINE w == lines[req[s].who] \cup {<<made', "new">>}
    <2>1. /\ lines' = [lines EXCEPT ![req[s].who] = w]
          /\ UNCHANGED <<codes, theme, agentKey>> /\ due' = due - 1
      BY <1>4 DEF CreateLine
    <2> HIDE DEF w
    <2>2. QED
      BY <1>1, <2>1
  <1>5. ASSUME NEW s \in Slots, UpdateLine(s) PROVE HubTyped'
    BY <1>1, <1>5 DEF UpdateLine
  <1>6. ASSUME NEW s \in Slots, DeleteLine(s) PROVE HubTyped'
    BY <1>1, <1>6 DEF DeleteLine
  <1>7. ASSUME NEW s \in Slots, CreateCode(s) \/ DeleteCode(s) PROVE HubTyped'
    BY <1>1, <1>7 DEF CreateCode, DeleteCode
  <1>8. ASSUME NEW s \in Slots, UpdateTheme(s) \/ RotateAgentKey(s) PROVE HubTyped'
    BY <1>1, <1>8 DEF UpdateTheme, RotateAgentKey
  <1>9. ASSUME ~\E s \in Slots : HubStep(s)
        PROVE  UNCHANGED tables /\ (due' = due \/ due' = OneMore)
    BY <1>9 DEF ConsoleNext, HubStep, SignIn, SubmitCode, Poll, SubmitLine, SaveTheme,
                ChangePassword, ConfirmDelete, HandleRotateKey, OpenCreate, Cancel, Dismiss,
                consoleVars, OpenEdit, Ask, Navigate, Logout, Receive, ReceiveLogin, ReceiveMe,
                ReceiveLoad, ReceiveSubmit, ReceiveSave, ReceiveDelete, ReceiveRotate, Ignore
  <1> HIDE DEF HubTyped, tables, notes, OneMore
  <1>10. QED
    BY <1>2, <1>3, <1>4, <1>5, <1>6, <1>7, <1>8, <1>9 DEF HubStep, Serve

\* A write is counted when it is asked for, and no more than may be are.
LEMMA WritesStep ==
  ASSUME ConsoleTyped, [ConsoleNext]_consoleVars
  PROVE  writes' \in 0..MaxWrites
  <1> USE ConsoleAssumption DEF ConsoleTyped, notes
  <1>1. ASSUME NEW s \in Slots, HubStep(s) PROVE UNCHANGED writes
    BY <1>1, HubStepIs
  <1>2. ASSUME NEW s \in Slots, Receive(s) PROVE UNCHANGED writes
    BY <1>2 DEF Receive, ReceiveLogin, ReceiveMe, ReceiveLoad, ReceiveSubmit, ReceiveSave,
                ReceiveDelete, ReceiveRotate, Ignore
  <1>3. ASSUME ~\E s \in Slots : HubStep(s) \/ Receive(s)
        PROVE  UNCHANGED writes \/ (writes' = writes + 1 /\ writes < MaxWrites)
    BY <1>3 DEF ConsoleNext, HubStep, SignIn, SubmitCode, Poll, SubmitLine, SaveTheme,
                ChangePassword, ConfirmDelete, HandleRotateKey, OpenCreate, Cancel, Dismiss,
                consoleVars, OpenEdit, Ask, Navigate, Logout, Send
  <1>4. QED
    BY <1>1, <1>2, <1>3

\* Together: the types of the console and the hub.
LEMMA ConsoleTypedStep ==
  ASSUME ConsoleTyped, LiveOfSession, [ConsoleNext]_consoleVars
  PROVE  ConsoleTyped'
  <1>1. RequestsTyped(req)'
    BY RequestsTypedStep DEF RequestsTyped
  <1>2. QED
    BY <1>1, SessionTypedStep, PageTypedStep, HubTypedStep, WritesStep DEF ConsoleTyped

-----------------------------------------------------------------------------
(* Whose requests they are.                                                *)

\* LiveOfSession, OneLocks and ReadsOfPage of requests r, for the session of t.
Orderly(r, t, l, p, b) ==
    /\ \A s \in Slots : r[s].live /\ r[s].kind # "login" => t # None /\ r[s].who = t
    /\ \A s \in Slots : Locks(r[s]) => b
    /\ \A s, q \in Slots : Locks(r[s]) /\ Locks(r[q]) => s = q
    /\ \A s \in Slots : r[s].kind = "login" => t = None
    /\ \A s \in Slots : /\ l => r[s].kind \in {"none", "me"}
                        /\ r[s].kind \in Reads => r[s].live /\ r[s].kind = LoadOf(p)

\* Orderly says the same of the state itself.
LEMMA OrderlyIs ==
  ASSUME SessionTyped
  PROVE  Orderly(req, token, loading, page, busy) <=> LiveOfSession /\ OneLocks /\ ReadsOfPage
  BY DEF SessionTyped, Orderly, LiveOfSession, OneLocks, ReadsOfPage

\* One request less; when it kept the buttons disabled none does now.
LEMMA OrderlyDropped ==
  ASSUME NEW r, NEW t, NEW l, NEW p, NEW b, Orderly(r, t, l, p, b),
         NEW n, NEW s \in Slots, Dropped(r, n, s)
  PROVE  Orderly(n, t, l, p, b) /\ (Locks(r[s]) => Orderly(n, t, l, p, FALSE))
  BY IdleIs DEF Orderly, Dropped, OnlyAt, Locks, Reads

\* The request of the page that is open.
LEMMA OrderlyMounted ==
  ASSUME NEW r, NEW t, NEW p, NEW b, Orderly(r, t, FALSE, p, b), t # None,
         NEW n, MountedIn(r, n, p, t)
  PROVE  Orderly(n, t, FALSE, p, b)
  <1>1. CASE n = r
    BY <1>1
  <1>2. ASSUME NEW s \in Slots, SentTo(r, n, s, LoadOf(p), t, {}), LoadOf(p) \in Reads
        PROVE  Orderly(n, t, FALSE, p, b)
    <2>1. n[s].kind = LoadOf(p) /\ n[s].who = t /\ n[s].live = TRUE
      BY <1>2 DEF SentTo, IsNew
    <2>2. ~Locks(n[s]) /\ n[s].kind # "login"
      BY <1>2, <2>1 DEF Locks, Reads, Submits
    <2>3. QED
      BY <1>2, <2>1, <2>2 DEF Orderly, SentTo, OnlyAt
  <1>3. QED
    BY <1>1, <1>2 DEF MountedIn, Sent

\* Another request of the session; that of a form disables the buttons.
LEMMA OrderlySent ==
  ASSUME NEW r, NEW t, NEW p, NEW b, Orderly(r, t, FALSE, p, b), t # None,
         NEW n, NEW kind, NEW arg, Sent(r, n, kind, t, arg), kind \notin Reads \cup {"login"},
         kind \notin Submits
  PROVE  Orderly(n, t, FALSE, p, b)
  <1>1. PICK s \in Slots : SentTo(r, n, s, kind, t, arg)
    BY DEF Sent
  <1>2. n[s].kind = kind /\ n[s].who = t /\ n[s].live = TRUE
    BY <1>1 DEF SentTo, IsNew
  <1>3. ~Locks(n[s])
    BY <1>2 DEF Locks
  <1>4. QED
    BY <1>1, <1>2, <1>3 DEF Orderly, SentTo, OnlyAt

\* The call of a form, when no other runs, disables its button.
LEMMA OrderlySubmitted ==
  ASSUME NEW r, NEW t, NEW p, Orderly(r, t, FALSE, p, FALSE), t # None,
         NEW n, NEW kind, NEW arg, Sent(r, n, kind, t, arg), kind \notin Reads \cup {"login"}
  PROVE  Orderly(n, t, FALSE, p, TRUE)
  <1>1. PICK s \in Slots : SentTo(r, n, s, kind, t, arg)
    BY DEF Sent
  <1>2. n[s].kind = kind /\ n[s].who = t /\ n[s].live = TRUE
    BY <1>1 DEF SentTo, IsNew
  <1>3. \A q \in Slots : ~Locks(r[q])
    BY DEF Orderly
  <1>4. QED
    BY <1>1, <1>2, <1>3 DEF Orderly, SentTo, OnlyAt

\* A login is asked for when nothing else is.
LEMMA OrderlyLogin ==
  ASSUME NEW r, NEW p, Orderly(r, None, FALSE, p, FALSE),
         NEW n, NEW a, Sent(r, n, "login", a, {})
  PROVE  Orderly(n, None, FALSE, p, TRUE)
  <1>1. PICK s \in Slots : SentTo(r, n, s, "login", a, {})
    BY DEF Sent
  <1>2. n[s].kind = "login"
    BY <1>1 DEF SentTo, IsNew
  <1>3. QED
    BY <1>1, <1>2 DEF Orderly, SentTo, OnlyAt, Reads

\* A session begins: nobody waited for anything.
LEMMA OrderlyBegins ==
  ASSUME NEW r, NEW l, NEW p, NEW b, Orderly(r, None, l, p, b), \A s \in Slots : r[s].kind # "login",
         NEW t
  PROVE  Orderly(r, t, l, p, FALSE) /\ \A s \in Slots : r[s].kind \notin Reads
  BY DEF Orderly, Locks

\* A session ends: nobody waits any more.
LEMMA OrderlyEnds ==
  ASSUME NEW r, NEW t, NEW l, NEW p, NEW b, Orderly(r, t, l, p, b), t # None,
         NEW n, OrphanedTo(r, n, TRUE)
  PROVE  Orderly(n, None, FALSE, p, FALSE)
  <1>1. \A s \in Slots : ~n[s].live /\ n[s].kind # "login" /\ n[s].kind \notin Reads
    BY IdleIs DEF Orderly, OrphanedTo, Reads
  <1>2. QED
    BY <1>1 DEF Orderly, Locks

\* A page goes: nobody waits there any more.
LEMMA OrderlyLeft ==
  ASSUME NEW r, NEW t, NEW p, NEW b, Orderly(r, t, FALSE, p, b), t # None,
         NEW n, OrphanedTo(r, n, FALSE), NEW k
  PROVE  Orderly(n, t, FALSE, k, FALSE) /\ \A s \in Slots : n[s].kind \notin Reads
  <1>1. \A s \in Slots :
           /\ n[s].live => /\ n[s].kind = "me" /\ n[s].who = r[s].who
                           /\ r[s].kind = "me" /\ r[s].live
           /\ n[s].kind # "login" /\ n[s].kind \notin Reads
    BY IdleIs DEF Orderly, OrphanedTo, Reads
  <1>2. \A s \in Slots : ~Locks(n[s])
    BY <1>1 DEF Locks, Submits
  <1>3. QED
    BY <1>1, <1>2 DEF Orderly

\* Nothing but the answer of the hub changes.
LEMMA OrderlyGoesOn ==
  ASSUME NEW r, NEW t, NEW l, NEW p, NEW b, Orderly(r, t, l, p, b),
         NEW n, NEW s \in Slots, GoesOn(r, n, s)
  PROVE  Orderly(n, t, l, p, b)
  <1>1. \A q \in Slots : /\ n[q].kind = r[q].kind /\ n[q].who = r[q].who /\ n[q].live = r[q].live
    BY DEF GoesOn, OnlyAt
  <1>2. QED
    BY <1>1 DEF Orderly, Locks

\* After a login the page and the session have their requests.
LEMMA SessionBegins ==
  ASSUME ConsoleTyped, Orderly(req, token, loading, page, busy),
         NEW s \in Slots, ReceiveLogin(s), req[s].state = "ok"
  PROVE  Orderly(req', token', loading', page', busy')
  <1>1. /\ token = None /\ token' = req[s].who /\ token' # None /\ ~loading /\ loading = FALSE
        /\ UNCHANGED <<loading, page>> /\ busy' = FALSE
    <2>1. req[s].who \in Accounts /\ req[s].kind = "login"
      BY DEF ReceiveLogin, Answered, ConsoleTyped, RequestsTyped, IsRequest
    <2>2. token = None
      BY <2>1 DEF Orderly
    <2>3. QED
      BY <2>1, <2>2, ConsoleAssumption DEF ConsoleTyped, SessionTyped, ReceiveLogin, Blank
  <1>2. PICK rest, m : /\ Dropped(req, rest, s) /\ MountedIn(rest, m, page, token')
                       /\ Sent(m, req', "me", token', {})
    BY <1>1, LoginIs
  <1>3. \A q \in Slots : rest[q].kind # "login"
    BY <1>2, IdleIs DEF ReceiveLogin, Answered, Orderly, Dropped, OnlyAt, Locks
  <1>4. Orderly(rest, None, FALSE, page, busy)
    BY <1>1, <1>2, OrderlyDropped
  <1>5. Orderly(rest, token', FALSE, page, FALSE)
    BY <1>3, <1>4, OrderlyBegins
  <1>6. Orderly(m, token', FALSE, page, FALSE)
    BY <1>1, <1>2, <1>5, OrderlyMounted
  <1>7. "me" \notin Reads \cup {"login"} /\ "me" \notin Submits
    BY DEF Reads, Submits
  <1>8. Orderly(req', token', FALSE, page, FALSE)
    BY <1>1, <1>2, <1>6, <1>7, OrderlySent
  <1>9. QED
    BY <1>1, <1>8

\* The requests stay those of the session, its forms and its page.
LEMMA OrderlyStep ==
  ASSUME ConsoleTyped, Orderly(req, token, loading, page, busy), [ConsoleNext]_consoleVars
  PROVE  Orderly(req', token', loading', page', busy')
  <1> USE DEF session, list, view, modal
  <1>1. SessionTyped /\ LiveOfSession
    BY OrderlyIs DEF ConsoleTyped
  <1>2. ASSUME NEW s \in Slots, HubStep(s) PROVE Orderly(req', token', loading', page', busy')
    BY <1>2, HubStepIs, OrderlyGoesOn
  <1>3. ASSUME NEW s \in Slots, ReceiveLogin(s) PROVE Orderly(req', token', loading', page', busy')
    <2>1. CASE req[s].state # "ok"
      <3>1. Dropped(req, req', s) /\ UNCHANGED <<token, loading, page>> /\ busy' = FALSE
        BY <1>3, <2>1, LoginFailsIs DEF ReceiveLogin
      <3>2. Locks(req[s])
        BY <1>3 DEF ReceiveLogin, Answered, Locks
      <3>3. QED
        BY <3>1, <3>2, OrderlyDropped
    <2>2. QED
      BY <1>3, <2>1, SessionBegins
  <1>4. ASSUME NEW s \in Slots, ReceiveMe(s) PROVE Orderly(req', token', loading', page', busy')
    <2>1. CASE req[s].state = "ok"
      <3>1. PICK rest : /\ Dropped(req, rest, s)
                        /\ IF loading THEN MountedIn(rest, req', page, token) ELSE req' = rest
        BY <1>4, <2>1, MeIs
      <3>2. UNCHANGED <<token, page, busy>> /\ loading' = FALSE
        BY <1>4, <2>1 DEF ReceiveMe
      <3>3. Orderly(rest, token, loading, page, busy)
        BY <3>1, OrderlyDropped
      <3>4. Orderly(rest, token, FALSE, page, busy)
        BY <3>3 DEF Orderly
      <3>5. loading => token # None
        BY <1>1 DEF SessionTyped
      <3>6. QED
        BY <3>1, <3>2, <3>4, <3>5, OrderlyMounted
    <2>2. CASE req[s].state # "ok"
      <3>1. PICK rest : /\ Dropped(req, rest, s)
                        /\ IF authed THEN OrphanedTo(rest, req', TRUE) ELSE req' = rest
        BY <1>4, <2>2, MeFailsIs
      <3>2. Orderly(rest, token, loading, page, busy)
        BY <3>1, OrderlyDropped
      <3>3. CASE authed
        <4>1. token' = None /\ loading' = FALSE /\ page' = page /\ busy' = FALSE /\ token # None
          BY <1>1, <1>4, <2>2, <3>3 DEF ReceiveMe, SignedOut, Blank, SessionTyped
        <4>2. QED
          BY <3>1, <3>2, <3>3, <4>1, OrderlyEnds
      <3>4. CASE ~authed
        <4>1. UNCHANGED <<token, page, busy>> /\ loading' = FALSE
          BY <1>4, <2>2, <3>4 DEF ReceiveMe
        <4>2. Orderly(rest, token, FALSE, page, busy)
          BY <3>2 DEF Orderly
        <4>3. QED
          BY <3>1, <3>4, <4>1, <4>2
      <3>5. QED
        BY <3>3, <3>4
    <2>3. QED
      BY <2>1, <2>2
  <1>5. ASSUME NEW s \in Slots, ReceiveSubmit(s) \/ ReceiveDelete(s)
        PROVE  Orderly(req', token', loading', page', busy')
    <2>1. PICK rest : /\ Dropped(req, rest, s)
                      /\ req' = rest \/ MountedIn(rest, req', page, token)
      BY <1>1, <1>5, WriteAnswers DEF Reloaded
    <2>2. /\ UNCHANGED <<token, loading, page>> /\ token # None
          /\ busy' = busy \/ (Locks(req[s]) /\ busy' = FALSE)
      BY <1>1, <1>5, WriteAnswers
      DEF ReceiveSubmit, ReceiveDelete, Answered, Locks, Submits, SessionTyped
    <2>3. Orderly(rest, token, loading, page, busy')
      BY <2>1, <2>2, OrderlyDropped
    <2>4. loading = FALSE
      BY <1>1, <1>5 DEF SessionTyped, Orderly, ReceiveSubmit, ReceiveDelete, Answered
    <2>5. QED
      BY <2>1, <2>2, <2>3, <2>4, OrderlyMounted
  <1>6. ASSUME NEW s \in Slots,
               ReceiveRotate(s) \/ ReceiveSave(s) \/ ReceiveLoad(s) \/ Ignore(s)
        PROVE  Orderly(req', token', loading', page', busy')
    <2>1. Dropped(req, req', s)
      BY <1>1, <1>6, WriteAnswers
    <2>2. /\ UNCHANGED <<token, loading, page>>
          /\ busy' = busy \/ (Locks(req[s]) /\ busy' = FALSE)
      BY <1>6 DEF ReceiveRotate, ReceiveSave, ReceiveLoad, Ignore, Answered, Locks, Submits
    <2>3. QED
      BY <2>1, <2>2, OrderlyDropped
  <1>7. ASSUME NEW p \in Pages, Navigate(p) PROVE Orderly(req', token', loading', page', busy')
    <2>1. PICK rest : OrphanedTo(req, rest, FALSE) /\ MountedIn(rest, req', p, token)
      BY <1>7, NavigateIs
    <2>2. UNCHANGED <<token, loading>> /\ page' = p /\ busy' = FALSE /\ loading = FALSE /\ token # None
      BY <1>1, <1>7 DEF Navigate, Blank, Uncovered, Mounted, SessionTyped
    <2>3. Orderly(rest, token, FALSE, p, FALSE)
      BY <2>1, <2>2, OrderlyLeft
    <2>4. QED
      BY <2>1, <2>2, <2>3, OrderlyMounted
  <1>8. CASE Logout
    <2>1. token' = None /\ page' = page /\ busy' = FALSE /\ token # None /\ loading' = FALSE
      BY <1>1, <1>8 DEF Logout, SignedOut, Blank, Uncovered, Mounted, SessionTyped
    <2>2. QED
      BY <1>8, <2>1, LogoutIs, OrderlyEnds
  <1>9. CASE \/ OpenCreate \/ Cancel \/ Dismiss \/ UNCHANGED consoleVars
             \/ \E x \in shown : OpenEdit(x) \/ Ask(x)
    BY <1>9, QuietIs
  <1>10. ASSUME NEW a \in Accounts, SignIn(a) PROVE Orderly(req', token', loading', page', busy')
    <2>1. /\ UNCHANGED <<token, loading, page>> /\ token = None /\ loading = FALSE
          /\ busy = FALSE /\ busy' = TRUE
      BY <1>1, <1>10 DEF SignIn, SessionTyped, ConsoleTyped, PageTyped
    <2>2. Sent(req, req', "login", a, {})
      BY <1>10, SendsAre DEF Sends
    <2>3. QED
      BY <2>1, <2>2, OrderlyLogin
  <1>11. CASE Poll
    <2>1. MountedIn(req, req', page, token)
      BY <1>11, SendsAre DEF Sends, MountedIn, Poll
    <2>2. UNCHANGED <<token, loading, page, busy>> /\ loading = FALSE /\ token # None
      BY <1>1, <1>11 DEF Poll, Mounted, SessionTyped
    <2>3. QED
      BY <2>1, <2>2, OrderlyMounted
  <1>12. ASSUME NEW kind \in Submits, NEW arg, Sends(kind, token, arg), Mounted, busy = FALSE, busy' = TRUE
         PROVE  Orderly(req', token', loading', page', busy')
    <2>1. kind \notin Reads \cup {"login"}
      BY DEF Reads, Submits
    <2>2. UNCHANGED <<token, loading, page>> /\ loading = FALSE /\ token # None
      BY <1>1, <1>12 DEF Sends, SessionTyped, Mounted
    <2>3. Orderly(req, token, FALSE, page, FALSE) /\ Sent(req, req', kind, token, arg)
      BY <1>12, <2>2 DEF Sends
    <2>4. Orderly(req', token, FALSE, page, TRUE)
      BY <2>1, <2>2, <2>3, OrderlySubmitted
    <2>5. QED
      BY <1>12, <2>2, <2>4
  <1>13. CASE \/ \E c \in Codes : SubmitCode(c)
              \/ SubmitLine \/ SaveTheme \/ ChangePassword
    <2>1. Mounted /\ busy = FALSE /\ busy' = TRUE
      BY <1>13 DEF SubmitCode, SubmitLine, SaveTheme, ChangePassword, LineFormReady, CodeFormReady,
                   ThemeFormReady, PasswordFormReady, Uncovered, ConsoleTyped, PageTyped
    <2>2. \E kind \in Submits : \E arg : Sends(kind, token, arg)
      BY <1>13, SendsAre DEF Submits
    <2>3. QED
      BY <1>12, <2>1, <2>2
  <1>14. CASE ConfirmDelete \/ HandleRotateKey
    <2>1. PICK kind \in {"deleteLine", "deleteCode", "rotate"} : Sends(kind, token, target)
      BY <1>14, SendsAre
    <2>2. UNCHANGED busy /\ token # None /\ loading = FALSE
      BY <1>1, <1>14 DEF ConfirmDelete, HandleRotateKey, SessionTyped
    <2>3. kind \notin Reads \cup {"login"} /\ kind \notin Submits
      BY DEF Reads, Submits
    <2>4. Orderly(req, token, FALSE, page, busy) /\ Sent(req, req', kind, token, target)
      BY <2>1, <2>2 DEF Sends
    <2>5. Orderly(req', token, FALSE, page, busy)
      BY <2>2, <2>3, <2>4, OrderlySent
    <2>6. QED
      BY <2>1, <2>2, <2>5 DEF Sends
  <1>15. QED
    BY <1>2, <1>3, <1>4, <1>5, <1>6, <1>7, <1>8, <1>9, <1>10, <1>11, <1>13, <1>14
    DEF ConsoleNext, HubStep, Receive

\* Only getMe tells the account, and a session ends with it.
LEMMA TenantStep ==
  ASSUME ConsoleTyped, LiveOfSession, OneLocks, TenantIsOfSession, [ConsoleNext]_consoleVars
  PROVE  TenantIsOfSession'
  <1> USE DEF TenantIsOfSession, session, view
  <1>1. SessionTyped
    BY DEF ConsoleTyped
  <1>2. ASSUME NEW s \in Slots, HubStep(s) PROVE UNCHANGED <<token, tenant, strayed>>
    BY <1>2, HubStepIs
  <1>3. ASSUME NEW s \in Slots, ReceiveLogin(s) PROVE TenantIsOfSession'
    <2>1. token = None
      BY <1>1, <1>3 DEF ReceiveLogin, Answered, OneLocks, SessionTyped
    <2>2. QED
      BY <1>3, <2>1 DEF ReceiveLogin
  <1>4. ASSUME NEW s \in Slots, ReceiveMe(s) PROVE TenantIsOfSession'
    <2>1. CASE req[s].state = "ok"
      <3>1. tenant' = req[s].who /\ strayed' = ~req[s].live /\ token' = token
        BY <1>4, <2>1 DEF ReceiveMe
      <3>2. req[s].live => req[s].who = token
        BY <1>4 DEF ReceiveMe, Answered, LiveOfSession
      <3>3. QED
        BY <3>1, <3>2
    <2>2. CASE req[s].state # "ok"
      BY <1>4, <2>2 DEF ReceiveMe, SignedOut
    <2>3. QED
      BY <2>1, <2>2
  <1>5. ASSUME NEW s \in Slots, ReceiveLoad(s) \/ ReceiveSubmit(s) \/ ReceiveSave(s)
                                \/ ReceiveDelete(s) \/ ReceiveRotate(s) \/ Ignore(s)
        PROVE  UNCHANGED <<token, tenant, strayed>>
    BY <1>5 DEF ReceiveLoad, ReceiveSubmit, ReceiveSave, ReceiveDelete, ReceiveRotate, Ignore
  <1>6. CASE Logout
    BY <1>6 DEF Logout, SignedOut
  <1>7. ASSUME ~(\E s \in Slots : HubStep(s) \/ Receive(s)), ~Logout
        PROVE  UNCHANGED <<token, tenant, strayed>>
    BY <1>7 DEF ConsoleNext, HubStep, SignIn, SubmitCode, Poll, SubmitLine, SaveTheme,
                ChangePassword, ConfirmDelete, HandleRotateKey, OpenCreate, Cancel, Dismiss,
                consoleVars, OpenEdit, Ask, Navigate
  <1>8. ASSUME UNCHANGED <<token, tenant, strayed>> PROVE TenantIsOfSession'
    BY <1>8
  <1>9. QED
    BY <1>2, <1>3, <1>4, <1>5, <1>6, <1>7, <1>8 DEF Receive

-----------------------------------------------------------------------------
(* Themes.                                                                 *)

\* Themes under way stay whole when requests come and go.
LEMMA ThemedIs ==
  ASSUME NEW r, ThemedRequests(r), NEW n
  PROVE  /\ \A s \in Slots : Dropped(r, n, s) => ThemedRequests(n)
         /\ \A all \in BOOLEAN : OrphanedTo(r, n, all) => ThemedRequests(n)
         /\ \A kind, who, arg : Sent(r, n, kind, who, arg) /\ (kind = "saveTheme" => arg \in Themes)
                                  => ThemedRequests(n)
         /\ \A p, a : MountedIn(r, n, p, a) => ThemedRequests(n)
  <1>1. ASSUME NEW s \in Slots, Dropped(r, n, s) PROVE ThemedRequests(n)
    BY <1>1, IdleIs DEF Dropped, OnlyAt, ThemedRequests
  <1>2. ASSUME NEW all \in BOOLEAN, OrphanedTo(r, n, all) PROVE ThemedRequests(n)
    BY <1>2, IdleIs DEF OrphanedTo, ThemedRequests
  <1>3. ASSUME NEW kind, NEW who, NEW arg, Sent(r, n, kind, who, arg), kind = "saveTheme" => arg \in Themes
        PROVE  ThemedRequests(n)
    BY <1>3 DEF Sent, SentTo, OnlyAt, IsNew, ThemedRequests
  <1>4. ASSUME NEW p, NEW a, MountedIn(r, n, p, a) PROVE ThemedRequests(n)
    <2>1. CASE n = r
      BY <2>1
    <2>2. CASE LoadOf(p) \in Reads /\ Sent(r, n, LoadOf(p), a, {})
      <3>1. LoadOf(p) # "saveTheme"
        BY <2>2 DEF Reads
      <3>2. QED
        BY <1>3, <2>2, <3>1
    <2>3. QED
      BY <1>4, <2>1, <2>2 DEF MountedIn
  <1>5. QED
    BY <1>1, <1>2, <1>3, <1>4

\* The requests: what is saved is a theme, and so is what is read.
LEMMA ThemedStep ==
  ASSUME ConsoleTyped, LiveOfSession, ThemesKept, [ConsoleNext]_consoleVars
  PROVE  ThemedRequests(req')
  <1> USE DEF Themes
  <1>1. ThemedRequests(req)
    BY DEF ThemesKept
  <1>2. ASSUME NEW s \in Slots, HubStep(s) PROVE ThemedRequests(req')
    <2>1. GoesOn(req, req', s)
      BY <1>2, HubStepIs
    <2>2. CASE req[s].kind = "theme"
      <3>1. CASE ServeRead(s)
        <4>1. req'[s].data = theme[req[s].who] /\ req[s].who \in Accounts
          BY <2>2, <3>1, ServeReadIs DEF ListOf, ConsoleTyped, RequestsTyped, IsRequest
        <4>2. QED
          BY <1>1, <2>1, <2>2, <4>1 DEF ThemesKept, ThemeKept, ThemedRequests, GoesOn, OnlyAt
      <3>2. CASE Deny(s)
        BY <1>1, <2>1, <2>2, <3>2, DenyIs DEF ThemedRequests, GoesOn, OnlyAt
      <3>3. ServeRead(s) \/ Deny(s)
        BY <1>2, <2>2 DEF HubStep, Serve, Lose, Writes, CreateLine, UpdateLine, DeleteLine, CreateCode,
                          DeleteCode, UpdateTheme, RotateAgentKey, Asked
      <3>4. QED
        BY <3>1, <3>2, <3>3
    <2>3. CASE req[s].kind # "theme"
      BY <1>1, <2>1, <2>3 DEF ThemedRequests, GoesOn, OnlyAt
    <2>4. QED
      BY <2>2, <2>3
  <1>3. ASSUME NEW s \in Slots, ReceiveLogin(s) PROVE ThemedRequests(req')
    <2>1. CASE req[s].state # "ok"
      BY <1>1, <1>3, <2>1, LoginFailsIs, ThemedIs
    <2>2. CASE req[s].state = "ok"
      <3>1. PICK rest, m : /\ Dropped(req, rest, s) /\ MountedIn(rest, m, page, req[s].who)
                           /\ Sent(m, req', "me", req[s].who, {})
        BY <1>3, <2>2, LoginIs
      <3>2. ThemedRequests(rest)
        BY <1>1, <3>1, ThemedIs
      <3>3. ThemedRequests(m)
        BY <3>1, <3>2, ThemedIs
      <3>4. QED
        BY <3>1, <3>3, ThemedIs
    <2>3. QED
      BY <2>1, <2>2
  <1>4. ASSUME NEW s \in Slots, NEW rest, Dropped(req, rest, s),
               \/ req' = rest \/ OrphanedTo(rest, req', TRUE)
               \/ \E p, a : MountedIn(rest, req', p, a)
        PROVE  ThemedRequests(req')
    <2>1. ThemedRequests(rest)
      BY <1>1, <1>4, ThemedIs
    <2>2. QED
      BY <1>4, <2>1, ThemedIs
  <1>5. ASSUME NEW s \in Slots, ReceiveMe(s) PROVE ThemedRequests(req')
    BY <1>4, <1>5, MeIs, MeFailsIs
  <1>6. ASSUME NEW s \in Slots, ReceiveSubmit(s) \/ ReceiveDelete(s) PROVE ThemedRequests(req')
    BY <1>4, <1>6, WriteAnswers DEF Reloaded
  <1>7. ASSUME NEW s \in Slots,
               ReceiveRotate(s) \/ ReceiveSave(s) \/ ReceiveLoad(s) \/ Ignore(s)
        PROVE  ThemedRequests(req')
    BY <1>4, <1>7, WriteAnswers
  <1>8. ASSUME NEW p \in Pages, Navigate(p) PROVE ThemedRequests(req')
    <2>1. PICK rest : OrphanedTo(req, rest, FALSE) /\ MountedIn(rest, req', p, token)
      BY <1>8, NavigateIs
    <2>2. ThemedRequests(rest)
      BY <1>1, <2>1, ThemedIs
    <2>3. QED
      BY <2>1, <2>2, ThemedIs
  <1>9. CASE Logout
    BY <1>1, <1>9, LogoutIs, ThemedIs
  <1>10. CASE \/ OpenCreate \/ Cancel \/ Dismiss \/ UNCHANGED consoleVars
              \/ \E x \in shown : OpenEdit(x) \/ Ask(x)
    BY <1>1, <1>10, QuietIs
  <1>11. ASSUME NEW kind, NEW who, NEW arg, Sends(kind, who, arg), kind = "saveTheme" => arg \in Themes
         PROVE  ThemedRequests(req')
    BY <1>1, <1>11, ThemedIs DEF Sends
  <1>12. CASE SaveTheme
    <2>1. shown \in Themes
      BY <1>12 DEF ThemesKept, SaveTheme, ThemeFormReady
    <2>2. QED
      BY <1>11, <1>12, <2>1, SendsAre
  <1>13. CASE Poll
    <2>1. LoadOf(page) # "saveTheme"
      BY <1>13, SendsAre DEF Reads
    <2>2. QED
      BY <1>11, <1>13, <2>1, SendsAre
  <1>14. CASE \/ \E a \in Accounts : SignIn(a)
              \/ \E c \in Codes : SubmitCode(c)
              \/ SubmitLine \/ ChangePassword \/ ConfirmDelete \/ HandleRotateKey
    BY <1>11, <1>14, SendsAre
  <1>15. QED
    BY <1>2, <1>3, <1>5, <1>6, <1>7, <1>8, <1>9, <1>10, <1>12, <1>13, <1>14
    DEF ConsoleNext, HubStep, Receive

\* A theme is saved, and shown, as it was loaded.
LEMMA ThemesStep ==
  ASSUME ConsoleTyped, LiveOfSession, ReadsOfPage, ThemesKept, [ConsoleNext]_consoleVars
  PROVE  ThemesKept'
  <1>1. ThemeKept'
    <2>1. ASSUME NEW s \in Slots, UpdateTheme(s) PROVE ThemeKept'
      <3>1. theme' = [theme EXCEPT ![req[s].who] = req[s].arg] /\ req[s].arg \in Themes
        BY <2>1 DEF UpdateTheme, Asked, ThemesKept, ThemedRequests
      <3>2. QED
        BY <3>1 DEF ThemesKept, ThemeKept, Themes, ConsoleTyped, HubTyped
    <2>2. ASSUME ~\E s \in Slots : UpdateTheme(s) PROVE UNCHANGED theme
      BY <2>2 DEF ConsoleNext, Lose, Serve, Deny, ServeRead, CreateLine, UpdateLine, DeleteLine,
                  CreateCode, DeleteCode, RotateAgentKey, SignIn, SubmitCode, Poll, SubmitLine,
                  SaveTheme, ChangePassword, ConfirmDelete, HandleRotateKey, OpenCreate, Cancel,
                  Dismiss, consoleVars, OpenEdit, Ask, Navigate, Logout, Receive, ReceiveLogin,
                  ReceiveMe, ReceiveLoad, ReceiveSubmit, ReceiveSave, ReceiveDelete, ReceiveRotate,
                  Ignore, tables
    <2>3. QED
      BY <2>1, <2>2 DEF ThemesKept, ThemeKept
  <1>2. page' = "branding" /\ loaded' => shown' \in Themes
    <2>1. ASSUME UNCHANGED list \/ loaded' = FALSE
          PROVE  page' = "branding" /\ loaded' => shown' \in Themes
      BY <2>1 DEF ThemesKept, list
    <2>2. ASSUME NEW s \in Slots, ReceiveLoad(s)
          PROVE  page' = "branding" /\ loaded' => shown' \in Themes
      <3>1. SUFFICES ASSUME page = "branding" PROVE shown' \in Themes
        BY <2>2 DEF ReceiveLoad
      <3>2. req[s].kind = "theme"
        BY <2>2, <3>1 DEF ReceiveLoad, Answered, ReadsOfPage, LoadOf
      <3>3. CASE req[s].state = "ok"
        BY <2>2, <3>2, <3>3 DEF ReceiveLoad, ThemesKept, ThemedRequests
      <3>4. CASE req[s].state # "ok"
        BY <2>2, <3>2, <3>4 DEF ReceiveLoad, Themes
      <3>5. QED
        BY <3>3, <3>4
    <2>3. ASSUME ~\E s \in Slots : ReceiveLoad(s) PROVE UNCHANGED list \/ loaded' = FALSE
      <3>1. ASSUME NEW s \in Slots, HubStep(s) PROVE UNCHANGED list
        BY <3>1, HubStepIs
      <3>2. ASSUME NEW s \in Slots, Receive(s) PROVE UNCHANGED list \/ loaded' = FALSE
        BY <2>3, <3>2 DEF Receive, ReceiveLogin, ReceiveMe, ReceiveSubmit, ReceiveSave, ReceiveDelete,
                          ReceiveRotate, Ignore, SignedOut, Blank, list, view
      <3>3. ASSUME ~(\E s \in Slots : HubStep(s) \/ Receive(s))
            PROVE  UNCHANGED list \/ loaded' = FALSE
        BY <3>3 DEF ConsoleNext, HubStep, SignIn, SubmitCode, Poll, SubmitLine, SaveTheme,
                    ChangePassword, ConfirmDelete, HandleRotateKey, OpenCreate, Cancel, Dismiss,
                    consoleVars, OpenEdit, Ask, Navigate, Logout, SignedOut, Blank, list, view
      <3>4. QED
        BY <3>1, <3>2, <3>3
    <2>4. QED
      BY <2>1, <2>2, <2>3
  <1>3. QED
    BY <1>1, <1>2, ThemedStep DEF ThemesKept

-----------------------------------------------------------------------------
(* The key on the screen.                                                  *)

\* A rotation stays alone when other requests come and go.
LEMMA RotationIs ==
  ASSUME NEW r, NEW t, NEW k, RotationAlone(r, t, k), NEW n
  PROVE  /\ \A s \in Slots : Dropped(r, n, s) => RotationAlone(n, t, k)
         /\ \A s \in Slots : Dropped(r, n, s) /\ Rotates(r[s], t) /\ r[s].live => NoRotation(n, t)
         /\ \A kind, who, arg : Sent(r, n, kind, who, arg) /\ kind # "rotate" => RotationAlone(n, t, k)
         /\ \A p, a : MountedIn(r, n, p, a) => RotationAlone(n, t, k)
  <1> USE DEF RotationAlone, NoRotation, Rotates
  <1>1. ASSUME NEW s \in Slots, Dropped(r, n, s)
        PROVE  RotationAlone(n, t, k) /\ (Rotates(r[s], t) /\ r[s].live => NoRotation(n, t))
    BY <1>1, IdleIs DEF Dropped, OnlyAt
  <1>2. ASSUME NEW kind, NEW who, NEW arg, Sent(r, n, kind, who, arg), kind # "rotate"
        PROVE  RotationAlone(n, t, k)
    <2>1. PICK s \in Slots : SentTo(r, n, s, kind, who, arg)
      BY <1>2 DEF Sent
    <2>2. n[s].kind # "rotate" /\ \A q \in Slots \ {s} : n[q] = r[q]
      BY <1>2, <2>1 DEF SentTo, OnlyAt, IsNew
    <2>3. QED
      BY <2>2
  <1>3. ASSUME NEW p, NEW a, MountedIn(r, n, p, a) PROVE RotationAlone(n, t, k)
    <2>1. CASE n = r
      BY <2>1
    <2>2. CASE LoadOf(p) \in Reads /\ Sent(r, n, LoadOf(p), a, {})
      <3>1. LoadOf(p) # "rotate"
        BY <2>2 DEF Reads
      <3>2. QED
        BY <1>2, <2>2, <3>1
    <2>3. QED
      BY <1>3, <2>1, <2>2 DEF MountedIn
  <1> HIDE DEF RotationAlone, NoRotation, Rotates
  <1>4. QED
    BY <1>1, <1>2, <1>3

\* Other requests start no rotation.
LEMMA NoRotationIs ==
  ASSUME NEW r, NEW t, NoRotation(r, t), NEW n
  PROVE  /\ \A s \in Slots : Dropped(r, n, s) => NoRotation(n, t)
         /\ \A kind, who, arg : Sent(r, n, kind, who, arg) /\ kind # "rotate" => NoRotation(n, t)
         /\ \A p, a : MountedIn(r, n, p, a) => NoRotation(n, t)
  <1> USE DEF NoRotation, Rotates
  <1>1. ASSUME NEW s \in Slots, Dropped(r, n, s) PROVE NoRotation(n, t)
    BY <1>1, IdleIs DEF Dropped, OnlyAt
  <1>2. ASSUME NEW kind, NEW who, NEW arg, Sent(r, n, kind, who, arg), kind # "rotate"
        PROVE  NoRotation(n, t)
    BY <1>2 DEF Sent, SentTo, OnlyAt, IsNew
  <1>3. ASSUME NEW p, NEW a, MountedIn(r, n, p, a) PROVE NoRotation(n, t)
    <2>1. CASE n = r
      BY <2>1
    <2>2. CASE LoadOf(p) \in Reads /\ Sent(r, n, LoadOf(p), a, {})
      <3>1. LoadOf(p) # "rotate"
        BY <2>2 DEF Reads
      <3>2. QED
        BY <1>2, <2>2, <3>1
    <2>3. QED
      BY <1>3, <2>1, <2>2 DEF MountedIn
  <1> HIDE DEF NoRotation, Rotates
  <1>4. QED
    BY <1>1, <1>2, <1>3

\* The requests of a page that was left bring no key.
LEMMA RotationLeft ==
  ASSUME NEW r, NEW n, NEW all \in BOOLEAN, OrphanedTo(r, n, all), NEW t, NEW k
  PROVE  RotationAlone(n, t, k)
  BY IdleIs DEF OrphanedTo, RotationAlone, Rotates

\* Steps that leave the keys, the modal and the session alone.
LEMMA KeyStays ==
  ASSUME KeyFollows, UNCHANGED <<token, agentKey, newKey, doubled>>, newKey = {} \/ target' = {},
         RotationAlone(req, token, agentKey[token]) => RotationAlone(req', token, agentKey[token]),
         NoRotation(req, token) => NoRotation(req', token)
  PROVE  KeyFollows'
  <1>1. /\ RotationAlone(req, token, agentKey[token])' = RotationAlone(req', token, agentKey[token])
        /\ NoRotation(req, token)' = NoRotation(req', token)
    BY DEF RotationAlone, NoRotation
  <1>2. QED
    BY <1>1 DEF KeyFollows

\* The page, the session or both are new.
LEMMA KeyForgotten ==
  ASSUME newKey' = {}, RotationAlone(req', token', agentKey'[token'])
  PROVE  KeyFollows'
  BY DEF KeyFollows, RotationAlone

\* The hub makes a new key for a rotation of this session only while none is shown.
LEMMA KeyHubStep ==
  ASSUME ConsoleTyped, LiveOfSession, KeyFollows, NEW s \in Slots, HubStep(s)
  PROVE  KeyFollows'
  <1>1. GoesOn(req, req', s) /\ UNCHANGED <<token, newKey, doubled, target>>
    BY HubStepIs DEF session, modal
  <1>2. CASE UNCHANGED agentKey /\ (req[s].kind # "rotate" \/ req'[s].state # "ok")
    <2>1. NoRotation(req, token) => NoRotation(req', token)
      BY <1>1 DEF GoesOn, OnlyAt, NoRotation, Rotates
    <2>2. RotationAlone(req, token, agentKey[token]) => RotationAlone(req', token, agentKey[token])
      BY <1>1, <1>2 DEF GoesOn, OnlyAt, RotationAlone, Rotates
    <2>3. QED
      BY <1>1, <1>2, <2>1, <2>2, KeyStays DEF KeyFollows
  <1>3. CASE RotateAgentKey(s)
    <2> DEFINE a == req[s].who
    <2>1. /\ req[s].kind = "rotate" /\ req'[s].data = {agentKey'[a]} /\ a \in Accounts
          /\ agentKey' = [agentKey EXCEPT ![a] = @ + 1]
      <3>1. req[s].state = "sent" /\ req[s].kind = "rotate" /\ Served(s, {agentKey'[a]})
        BY <1>3 DEF RotateAgentKey, Asked
      <3>2. QED
        BY <1>3, <3>1, ServedIs DEF RotateAgentKey, ConsoleTyped, RequestsTyped, IsRequest
    <2>2. CASE a = token
      <3>1. ~NoRotation(req, token)
        BY <2>1, <2>2 DEF NoRotation, Rotates
      <3>2. ASSUME ~doubled PROVE RotationAlone(req', token, agentKey'[token])
        <4>1. RotationAlone(req, token, agentKey[token])
          BY <3>2 DEF KeyFollows
        <4>2. ASSUME NEW q \in Slots, Rotates(req'[q], token), req'[q].live
              PROVE  /\ \A o \in Slots : Rotates(req'[o], token) => o = q
                     /\ req'[q].state = "ok" => req'[q].data = {agentKey'[token]}
          <5>1. /\ \A o \in Slots : Rotates(req'[o], token) <=> Rotates(req[o], token)
                /\ req[q].live
            BY <1>1, <4>2 DEF GoesOn, OnlyAt, Rotates
          <5>2. s = q /\ \A o \in Slots : Rotates(req[o], token) => o = q
            BY <2>1, <2>2, <4>1, <4>2, <5>1 DEF RotationAlone, Rotates
          <5>3. QED
            BY <2>1, <2>2, <5>1, <5>2
        <4>3. QED
          BY <4>2 DEF RotationAlone
      <3>3. QED
        BY <1>1, <3>1, <3>2 DEF KeyFollows, RotationAlone
    <2>3. CASE a # token
      <3>1. NoRotation(req, token) => NoRotation(req', token)
        BY <1>1 DEF GoesOn, OnlyAt, NoRotation, Rotates
      <3>2. ASSUME token # None PROVE agentKey'[token] = agentKey[token]
        BY <2>1, <2>3, <3>2 DEF ConsoleTyped, SessionTyped, HubTyped
      <3>3. ASSUME RotationAlone(req, token, agentKey[token])
            PROVE  RotationAlone(req', token, agentKey'[token])
        <4>1. CASE token = None
          <5>1. \A q \in Slots : Rotates(req'[q], token) => ~req'[q].live
            BY <1>1, <4>1 DEF ConsoleTyped, SessionTyped, LiveOfSession, GoesOn, OnlyAt, Rotates
          <5>2. QED
            BY <5>1 DEF RotationAlone
        <4>2. CASE token # None
          <5>1. \A q \in Slots : Rotates(req'[q], token) \/ Rotates(req[q], token) => req'[q] = req[q]
            BY <1>1, <2>3 DEF GoesOn, OnlyAt, Rotates
          <5>2. QED
            BY <3>2, <3>3, <4>2, <5>1 DEF RotationAlone
        <4>3. QED
          BY <4>1, <4>2
      <3>4. QED
        BY <1>1, <3>1, <3>2, <3>3 DEF KeyFollows, NoRotation, RotationAlone
    <2>4. QED
      BY <2>2, <2>3
  <1>4. RotateAgentKey(s) \/ (UNCHANGED agentKey /\ (req[s].kind # "rotate" \/ req'[s].state # "ok"))
    <2>1. CASE Lose(s)
      BY <2>1, LoseIs DEF Lose, tables
    <2>2. CASE Deny(s)
      BY <2>2, DenyIs DEF Deny, tables
    <2>3. CASE ServeRead(s)
      BY <2>3 DEF ServeRead, tables, Reads
    <2>4. QED
      BY <2>1, <2>2, <2>3 DEF HubStep, Serve, CreateLine, UpdateLine, DeleteLine, CreateCode,
                              DeleteCode, UpdateTheme, Asked
  <1>5. QED
    BY <1>2, <1>3, <1>4
\* An answer that brings no key.
LEMMA KeyAnswered ==
  ASSUME KeyFollows, NEW s \in Slots, NEW rest, Dropped(req, rest, s),
         req' = rest \/ (\E p, a : MountedIn(rest, req', p, a)),
         UNCHANGED <<token, agentKey, newKey, doubled>>, newKey = {} \/ target' = {}
  PROVE  KeyFollows'
  <1>1. ASSUME RotationAlone(req, token, agentKey[token])
        PROVE  RotationAlone(req', token, agentKey[token])
    <2>1. RotationAlone(rest, token, agentKey[token])
      BY <1>1, RotationIs
    <2>2. QED
      BY <2>1, RotationIs
  <1>2. ASSUME NoRotation(req, token) PROVE NoRotation(req', token)
    <2>1. NoRotation(rest, token)
      BY <1>2, NoRotationIs
    <2>2. QED
      BY <2>1, NoRotationIs
  <1>3. QED
    BY <1>1, <1>2, KeyStays

\* A request that asks for no key.
LEMMA KeyAsked ==
  ASSUME KeyFollows, NEW kind, NEW who, NEW arg, Sends(kind, who, arg), kind # "rotate",
         UNCHANGED <<token, modal>>
  PROVE  KeyFollows'
  <1>1. /\ RotationAlone(req, token, agentKey[token]) => RotationAlone(req', token, agentKey[token])
        /\ NoRotation(req, token) => NoRotation(req', token)
    BY RotationIs, NoRotationIs DEF Sends
  <1>2. QED
    BY <1>1, KeyStays DEF Sends, tables, modal, KeyFollows

\* The key that the hub made is the one that is shown.
LEMMA KeyShown ==
  ASSUME ConsoleTyped, LiveOfSession, KeyFollows, NEW s \in Slots, ReceiveRotate(s), req[s].state = "ok"
  PROVE  KeyFollows'
  <1>1. /\ newKey' = req[s].data /\ target' = {} /\ UNCHANGED <<token, agentKey, doubled>>
        /\ req[s].kind = "rotate" /\ req[s].live
    BY DEF ReceiveRotate, Answered, session, tables
  <1>2. authed /\ req[s].who = token /\ Dropped(req, req', s)
    BY WriteAnswers
  <1>3. token # None /\ Rotates(req[s], token)
    BY <1>1, <1>2 DEF ConsoleTyped, SessionTyped, Rotates
  <1>4. ASSUME ~doubled
        PROVE  newKey' = {agentKey[token]} /\ NoRotation(req', token)
               /\ RotationAlone(req', token, agentKey[token])
    <2>1. RotationAlone(req, token, agentKey[token])
      BY <1>4 DEF KeyFollows
    <2>2. newKey' = {agentKey[token]}
      BY <1>1, <1>3, <2>1 DEF RotationAlone
    <2>3. QED
      BY <1>1, <1>2, <1>3, <2>1, <2>2, RotationIs
  <1>5. QED
    BY <1>1, <1>3, <1>4 DEF KeyFollows, NoRotation, RotationAlone

\* After a login nobody waits for a key.
LEMMA KeyOfLogin ==
  ASSUME ConsoleTyped, LiveOfSession, OneLocks, NEW s \in Slots, ReceiveLogin(s), req[s].state = "ok"
  PROVE  KeyFollows'
  <1>1. newKey' = {}
    BY DEF ReceiveLogin, Blank
  <1>2. PICK rest, m : /\ Dropped(req, rest, s) /\ MountedIn(rest, m, page, req[s].who)
                       /\ Sent(m, req', "me", req[s].who, {})
    BY LoginIs
  <1> DEFINE t == token'
             k == agentKey'[token']
  <1>3. RotationAlone(req, t, k)
    BY DEF ReceiveLogin, Answered, OneLocks, LiveOfSession, RotationAlone, Rotates
  <1> HIDE DEF t, k
  <1>4. RotationAlone(rest, t, k)
    BY <1>2, <1>3, RotationIs
  <1>5. RotationAlone(m, t, k)
    BY <1>2, <1>4, RotationIs
  <1>6. RotationAlone(req', t, k)
    BY <1>2, <1>5, RotationIs
  <1>7. QED
    BY <1>1, <1>6, KeyForgotten DEF t, k

\* A rotation is asked for while none of this session is under way, or two are.
LEMMA KeyRotates ==
  ASSUME ConsoleTyped, KeyFollows, HandleRotateKey
  PROVE  KeyFollows'
  <1>1. /\ UNCHANGED <<token, agentKey, newKey, target>> /\ target # {}
        /\ doubled' = \E s \in Slots : req[s].kind = "rotate" /\ req[s].who = token
    BY DEF HandleRotateKey, session, tables
  <1>2. newKey = {}
    BY <1>1 DEF KeyFollows
  <1>3. PICK s \in Slots : SentTo(req, req', s, "rotate", token, target)
    BY SendsAre DEF Sends, Sent
  <1>4. ASSUME ~doubled' PROVE RotationAlone(req', token, agentKey[token])
    <2>1. \A q \in Slots : ~Rotates(req[q], token)
      BY <1>1, <1>4 DEF Rotates
    <2>2. \A q \in Slots : Rotates(req'[q], token) => q = s
      BY <1>3, <2>1 DEF SentTo, OnlyAt
    <2>3. req'[s].state = "sent"
      BY <1>3 DEF SentTo, IsNew
    <2>4. QED
      BY <2>2, <2>3 DEF RotationAlone
  <1>5. QED
    BY <1>1, <1>2, <1>4 DEF KeyFollows, RotationAlone

\* The key on the screen follows the agent's through every step.
LEMMA KeyStep ==
  ASSUME ConsoleTyped, LiveOfSession, OneLocks, KeyFollows, [ConsoleNext]_consoleVars
  PROVE  KeyFollows'
  <1> USE DEF session, view, modal, tables
  <1>1. ASSUME NEW s \in Slots, ReceiveLogin(s) PROVE KeyFollows'
    <2>1. CASE req[s].state = "ok"
      BY <1>1, <2>1, KeyOfLogin
    <2>2. CASE req[s].state # "ok"
      BY <1>1, <2>2, LoginFailsIs, KeyAnswered DEF ReceiveLogin, KeyFollows
    <2>3. QED
      BY <2>1, <2>2
  <1>2. ASSUME NEW s \in Slots, ReceiveMe(s) PROVE KeyFollows'
    <2>1. CASE req[s].state = "ok"
      <3>1. PICK rest : /\ Dropped(req, rest, s)
                        /\ IF loading THEN MountedIn(rest, req', page, token) ELSE req' = rest
        BY <1>2, <2>1, MeIs
      <3>2. UNCHANGED <<token, agentKey, newKey, doubled, target>>
        BY <1>2, <2>1 DEF ReceiveMe
      <3>3. QED
        BY <3>1, <3>2, KeyAnswered DEF KeyFollows
    <2>2. CASE req[s].state # "ok" /\ ~authed
      <3>1. Dropped(req, req', s)
        BY <1>2, <2>2, MeFailsIs
      <3>2. UNCHANGED <<token, agentKey, newKey, doubled, target>>
        BY <1>2, <2>2 DEF ReceiveMe
      <3>3. QED
        BY <3>1, <3>2, KeyAnswered DEF KeyFollows
    <2>3. CASE req[s].state # "ok" /\ authed
      <3>1. PICK rest : OrphanedTo(rest, req', TRUE)
        BY <1>2, <2>3, MeFailsIs
      <3>2. newKey' = {}
        BY <1>2, <2>3 DEF ReceiveMe, SignedOut, Blank
      <3>3. QED
        BY <3>1, <3>2, RotationLeft, KeyForgotten
    <2>4. QED
      BY <2>1, <2>2, <2>3
  <1>3. ASSUME NEW s \in Slots, ReceiveSubmit(s) \/ ReceiveDelete(s) PROVE KeyFollows'
    <2>1. PICK rest : Dropped(req, rest, s) /\ (req' = rest \/ MountedIn(rest, req', page, token))
      BY <1>3, WriteAnswers DEF Reloaded
    <2>2. UNCHANGED <<token, agentKey, newKey, doubled>> /\ (target' = target \/ target' = {})
      BY <1>3 DEF ReceiveSubmit, ReceiveDelete
    <2>3. QED
      BY <2>1, <2>2, KeyAnswered DEF KeyFollows
  <1>4. ASSUME NEW s \in Slots, ReceiveRotate(s) PROVE KeyFollows'
    <2>1. CASE req[s].state = "ok"
      BY <1>4, <2>1, KeyShown
    <2>2. CASE req[s].state # "ok"
      BY <1>4, <2>2, WriteAnswers, KeyAnswered DEF ReceiveRotate, KeyFollows
    <2>3. QED
      BY <2>1, <2>2
  <1>5. ASSUME NEW s \in Slots, ReceiveSave(s) \/ ReceiveLoad(s) \/ Ignore(s) PROVE KeyFollows'
    <2>1. UNCHANGED <<token, agentKey, newKey, doubled, target>>
      BY <1>5 DEF ReceiveSave, ReceiveLoad, Ignore
    <2>2. Dropped(req, req', s)
      BY <1>5, WriteAnswers
    <2>3. QED
      BY <2>1, <2>2, KeyAnswered DEF KeyFollows
  <1>6. ASSUME NEW p \in Pages, Navigate(p) PROVE KeyFollows'
    <2>1. PICK rest : OrphanedTo(req, rest, FALSE) /\ MountedIn(rest, req', p, token)
      BY <1>6, NavigateIs
    <2>2. RotationAlone(rest, token', agentKey'[token'])
      BY <2>1, RotationLeft
    <2>3. RotationAlone(req', token', agentKey'[token'])
      BY <2>1, <2>2, RotationIs
    <2>4. QED
      BY <1>6, <2>3, KeyForgotten DEF Navigate, Blank
  <1>7. CASE Logout
    <2>1. RotationAlone(req', token', agentKey'[token'])
      BY <1>7, LogoutIs, RotationLeft
    <2>2. QED
      BY <1>7, <2>1, KeyForgotten DEF Logout, SignedOut, Blank
  <1>8. CASE \/ OpenCreate \/ Cancel \/ Dismiss \/ UNCHANGED consoleVars
             \/ \E x \in shown : OpenEdit(x) \/ Ask(x)
    <2>1. UNCHANGED <<token, agentKey, req>>
      BY <1>8, QuietIs
    <2>2. /\ doubled' = doubled
          /\ newKey' = {} \/ (newKey' = newKey /\ target' = target)
      BY <1>8 DEF OpenCreate, Cancel, Dismiss, consoleVars, OpenEdit, Ask, LineRow, CodeCard, AgentCard,
                  Uncovered
    <2>3. QED
      BY <2>1, <2>2 DEF KeyFollows, NoRotation, RotationAlone
  <1>9. CASE \/ \E a \in Accounts : SignIn(a)
             \/ \E c \in Codes : SubmitCode(c)
             \/ Poll \/ SubmitLine \/ SaveTheme \/ ChangePassword \/ ConfirmDelete
    <2>1. UNCHANGED <<token, modal>>
      BY <1>9 DEF SignIn, SubmitCode, Poll, SubmitLine, SaveTheme, ChangePassword, ConfirmDelete
    <2>2. CASE Poll
      <3>1. Sends(LoadOf(page), token, {}) /\ LoadOf(page) # "rotate"
        BY <2>2, SendsAre DEF Reads
      <3>2. QED
        BY <2>1, <3>1, KeyAsked
    <2>3. CASE ~Poll
      <3>1. ASSUME NEW kind \in Kinds \ {"rotate"}, NEW who, NEW arg, Sends(kind, who, arg)
            PROVE  KeyFollows'
        BY <2>1, <3>1, KeyAsked
      <3>2. {"login", "createCode", "create", "update", "saveTheme", "password", "deleteLine", "deleteCode"}
              \subseteq Kinds \ {"rotate"}
        BY DEF Kinds, Writes
      <3>3. ASSUME NEW a \in Accounts, SignIn(a) PROVE KeyFollows'
        BY <3>1, <3>2, <3>3, SendsAre
      <3>4. ASSUME NEW c \in Codes, SubmitCode(c) PROVE KeyFollows'
        BY <3>1, <3>2, <3>4, SendsAre
      <3>5. CASE SubmitLine
        BY <3>1, <3>2, <3>5, SendsAre
      <3>6. CASE SaveTheme \/ ChangePassword
        BY <3>1, <3>2, <3>6, SendsAre
      <3>7. CASE ConfirmDelete
        BY <3>1, <3>2, <3>7, SendsAre
      <3>8. QED
        BY <1>9, <2>3, <3>3, <3>4, <3>5, <3>6, <3>7
    <2>4. QED
      BY <2>2, <2>3
  <1> HIDE DEF session, view, modal, tables
  <1>10. QED
    BY <1>1, <1>2, <1>3, <1>4, <1>5, <1>6, <1>7, <1>8, <1>9, KeyHubStep, KeyRotates
    DEF ConsoleNext, HubStep, Receive

-----------------------------------------------------------------------------
(* The lines that forms may still make.                                    *)

\* Creations under way, and those the hub has yet to act on.
LEMMA CreateCounts ==
  ASSUME NEW r
  PROVE  /\ IsFiniteSet(CreatesIn(r)) /\ IsFiniteSet(CreatesSentIn(r))
         /\ Cardinality(CreatesIn(r)) \in Nat /\ Cardinality(CreatesSentIn(r)) \in Nat
         /\ Cardinality(CreatesSentIn(r)) <= Cardinality(CreatesIn(r))
  <1>1. IsFiniteSet(Slots)
    BY FS_Interval, ConsoleAssumption DEF Slots
  <1>2. IsFiniteSet(CreatesIn(r))
    BY <1>1, FS_Subset DEF CreatesIn
  <1>3. CreatesSentIn(r) \subseteq CreatesIn(r)
    BY DEF CreatesSentIn
  <1>4. QED
    BY <1>2, <1>3, FS_Subset, FS_CardinalityType

\* One element more, or less.
LEMMA CountChanges ==
  ASSUME NEW A, IsFiniteSet(A), NEW B, NEW s, B \ {s} = A \ {s}
  PROVE  Cardinality(B) = Cardinality(A) + Bit(s \in B) - Bit(s \in A)
  <1>1. Cardinality(A) \in Nat
    BY FS_CardinalityType
  <1>2. CASE (s \in A) = (s \in B)
    <2>1. A = B
      BY <1>2
    <2>2. QED
      BY <1>1, <2>1 DEF Bit
  <1>3. CASE s \in B /\ s \notin A
    <2>1. B = A \cup {s}
      BY <1>3
    <2>2. QED
      BY <1>1, <1>3, <2>1, FS_AddElement DEF Bit
  <1>4. CASE s \in A /\ s \notin B
    <2>1. B = A \ {s}
      BY <1>4
    <2>2. QED
      BY <1>1, <1>4, <2>1, FS_RemoveElement DEF Bit
  <1>5. QED
    BY <1>2, <1>3, <1>4

\* When one slot changes, the counts change by what was and is in it.
LEMMA CreatesChange ==
  ASSUME NEW r, NEW n, NEW s \in Slots, OnlyAt(r, n, s)
  PROVE  /\ Cardinality(CreatesIn(n)) =
              Cardinality(CreatesIn(r)) + Bit(s \in CreatesIn(n)) - Bit(s \in CreatesIn(r))
         /\ Cardinality(CreatesSentIn(n)) =
              Cardinality(CreatesSentIn(r)) + Bit(s \in CreatesSentIn(n)) - Bit(s \in CreatesSentIn(r))
  <1>1. CreatesIn(n) \ {s} = CreatesIn(r) \ {s} /\ CreatesSentIn(n) \ {s} = CreatesSentIn(r) \ {s}
    BY DEF OnlyAt, CreatesIn, CreatesSentIn
  <1>2. QED
    BY <1>1, CreateCounts, CountChanges

\* No creation is added, and the form counts no more than it did.
LEMMA DueStays ==
  ASSUME ConsoleTyped, DueCovers, due' = due, writes' = writes \/ writes' = writes + 1,
         CreatesIn(req') \subseteq CreatesIn(req), CreatesSentIn(req') \subseteq CreatesSentIn(req),
         FormCounts' => FormCounts
  PROVE  DueCovers'
  <1>1. /\ Cardinality(CreatesIn(req')) <= Cardinality(CreatesIn(req))
        /\ Cardinality(CreatesSentIn(req')) <= Cardinality(CreatesSentIn(req))
    BY CreateCounts, FS_Subset
  <1>2. Bit(FormCounts') <= Bit(FormCounts) /\ Bit(FormCounts) \in {0, 1} /\ Bit(FormCounts') \in {0, 1}
    BY DEF Bit
  <1>3. /\ Cardinality(CreatesIn(req')) \in Nat /\ Cardinality(CreatesSentIn(req')) \in Nat
        /\ Cardinality(CreatesIn(req)) \in Nat /\ Cardinality(CreatesSentIn(req)) \in Nat
        /\ due \in Int /\ writes \in Int
    BY CreateCounts DEF ConsoleTyped, HubTyped
  <1>4. /\ Cardinality(CreatesSentIn(req)) + Bit(FormCounts) <= due
        /\ Cardinality(CreatesIn(req)) <= writes
    BY DEF DueCovers
  <1>5. /\ Cardinality(CreatesSentIn(req')) + Bit(FormCounts') <= due'
        /\ Cardinality(CreatesIn(req')) <= writes'
    BY <1>1, <1>2, <1>3, <1>4
  <1>6. QED
    BY <1>5 DEF DueCovers, CreatesIn, CreatesSentIn, Bit

\* As many are due as there can be writes, and no more are counted.
LEMMA DueFull ==
  ASSUME ConsoleTyped, writes' <= MaxWrites, writes' \in Nat, Cardinality(CreatesIn(req')) <= writes',
         due' \in Int, due' >= MaxWrites
  PROVE  DueCovers'
  <1>1. /\ Cardinality(CreatesSentIn(req')) <= Cardinality(CreatesIn(req'))
        /\ Cardinality(CreatesIn(req')) \in Nat /\ Cardinality(CreatesSentIn(req')) \in Nat
    BY CreateCounts
  <1>2. Bit(FormCounts') \in {0, 1} /\ (Bit(FormCounts') = 1 => writes' < MaxWrites)
    BY DEF Bit, FormCounts
  <1>3. /\ Cardinality(CreatesSentIn(req')) + Bit(FormCounts') <= due'
        /\ Cardinality(CreatesIn(req')) <= writes'
    BY <1>1, <1>2, ConsoleAssumption
  <1>4. QED
    BY <1>3 DEF DueCovers, CreatesIn, CreatesSentIn, Bit

\* The hub acts on a creation, refuses it, or its answer is lost.
LEMMA DueCreateStep ==
  ASSUME ConsoleTyped, DueCovers, NEW s \in Slots, HubStep(s), req[s].kind = "create"
  PROVE  DueCovers'
  <1>1. /\ GoesOn(req, req', s) /\ req[s].state \in {"sent", "ok"} /\ UNCHANGED <<form, editing, writes>>
        /\ req'[s].state \in {"sent", "ok", "failed"} /\ req'[s].kind = "create"
    BY HubStepIs DEF lineForm, GoesOn
  <1>2. s \in CreatesIn(req) /\ s \in CreatesIn(req')
    BY <1>1 DEF CreatesIn
  <1> DEFINE c == Cardinality(CreatesSentIn(req))
             d == Cardinality(CreatesSentIn(req'))
  <1>3. /\ Cardinality(CreatesIn(req')) = Cardinality(CreatesIn(req))
        /\ d = c + Bit(req'[s].state = "sent") - Bit(req[s].state = "sent")
    <2>1. /\ s \in CreatesSentIn(req) <=> req[s].state = "sent"
          /\ s \in CreatesSentIn(req') <=> req'[s].state = "sent"
      BY <1>2 DEF CreatesSentIn
    <2>2. OnlyAt(req, req', s)
      BY <1>1 DEF GoesOn
    <2>3. Cardinality(CreatesIn(req)) \in Nat
      BY CreateCounts
    <2>4. QED
      BY <1>2, <2>1, <2>2, <2>3, CreatesChange DEF Bit
  <1>4. c \in Nat /\ d \in Nat /\ Cardinality(CreatesIn(req)) \in Nat /\ due \in Int /\ writes \in 0..MaxWrites
    BY CreateCounts DEF ConsoleTyped, HubTyped
  <1>5. c + Bit(FormCounts) <= due /\ Cardinality(CreatesIn(req)) <= writes
    BY DEF DueCovers
  <1>6. ASSUME req'[s].state \in {"sent", "ok"}, FormCounts' PROVE FormCounts
    <2>1. CreateWaits(req) => CreateWaits(req')
      BY <1>1, <1>6 DEF CreateWaits, CreatesIn, GoesOn, OnlyAt
    <2>2. QED
      BY <1>1, <1>6, <2>1 DEF FormCounts, CreateWaits, CreatesIn
  <1>7. ASSUME d + Bit(FormCounts') <= due' PROVE DueCovers'
    <2>1. Cardinality(CreatesIn(req')) <= writes'
      BY <1>1, <1>3, <1>5
    <2>2. QED
      BY <1>7, <2>1 DEF DueCovers, CreatesIn, CreatesSentIn, Bit
  <1> HIDE DEF c, d
  <1>8. Bit(FormCounts) \in {0, 1} /\ Bit(FormCounts') \in {0, 1}
    BY DEF Bit
  <1>9. CASE CreateLine(s)
    <2>1. due' = due - 1 /\ req[s].state = "sent" /\ req'[s].state = "ok"
      BY <1>9, ServedIs DEF CreateLine, Asked
    <2>2. d = c - 1
      BY <1>3, <1>4, <2>1 DEF Bit
    <2>3. Bit(FormCounts') <= Bit(FormCounts)
      BY <1>6, <2>1 DEF Bit
    <2>4. QED
      BY <1>4, <1>5, <1>7, <1>8, <2>1, <2>2, <2>3
  <1>10. CASE (Deny(s) \/ Lose(s)) /\ req[s].state = "sent"
    <2>1. due' = due /\ req'[s].state \in {"sent", "failed"}
      BY <1>10, DenyIs, LoseIs DEF Deny, Lose, notes
    <2>2. CASE req'[s].state = "sent"
      <3>1. d = c /\ Bit(FormCounts') <= Bit(FormCounts)
        BY <1>3, <1>4, <1>6, <1>10, <2>2 DEF Bit
      <3>2. QED
        BY <1>4, <1>5, <1>7, <1>8, <2>1, <3>1
    <2>3. CASE req'[s].state = "failed"
      <3>1. d = c - 1
        BY <1>3, <1>4, <1>10, <2>3 DEF Bit
      <3>2. QED
        BY <1>4, <1>5, <1>7, <1>8, <2>1, <3>1
    <2>4. QED
      BY <2>1, <2>2, <2>3
  <1>11. CASE Lose(s) /\ req[s].state = "ok"
    <2>1. due' = OneMore /\ req'[s].state \in {"sent", "failed"}
      BY <1>11, LoseIs DEF Lose
    <2>2. d + Bit(FormCounts') <= c + Bit(FormCounts) + 1
      <3>1. CASE req'[s].state = "sent"
        <4>1. d = c + 1 /\ Bit(FormCounts') <= Bit(FormCounts)
          BY <1>3, <1>4, <1>6, <1>11, <3>1 DEF Bit
        <4>2. QED
          BY <1>4, <1>8, <4>1
      <3>2. CASE req'[s].state = "failed"
        <4>1. d = c
          BY <1>3, <1>4, <1>11, <3>2 DEF Bit
        <4>2. QED
          BY <1>4, <1>8, <4>1
      <3>3. QED
        BY <2>1, <3>1, <3>2
    <2>3. CASE due < MaxWrites
      BY <1>4, <1>5, <1>7, <1>8, <2>1, <2>2, <2>3 DEF OneMore
    <2>4. CASE ~(due < MaxWrites)
      <3>1. due' = due /\ due >= MaxWrites
        BY <1>4, <2>1, <2>4, ConsoleAssumption DEF OneMore
      <3>2. writes' = writes /\ Cardinality(CreatesIn(req')) <= writes'
        BY <1>1, <1>3, <1>5
      <3>3. writes' <= MaxWrites /\ writes' \in Nat
        BY <1>4, <3>2, ConsoleAssumption
      <3>4. QED
        BY <1>4, <3>1, <3>2, <3>3, DueFull
    <2>5. QED
      BY <2>3, <2>4
  <1>12. CreateLine(s) \/ Deny(s) \/ Lose(s)
    BY DEF HubStep, Serve, UpdateLine, DeleteLine, CreateCode, DeleteCode, UpdateTheme, RotateAgentKey,
           Asked, ServeRead, Reads
  <1>13. QED
    BY <1>1, <1>9, <1>10, <1>11, <1>12 DEF Deny

\* The hub and the network keep what is due above what may be made.
LEMMA DueHubStep ==
  ASSUME ConsoleTyped, DueCovers, NEW s \in Slots, HubStep(s)
  PROVE  DueCovers'
  <1>1. SUFFICES ASSUME req[s].kind # "create" PROVE DueCovers'
    BY DueCreateStep
  <1>2. GoesOn(req, req', s) /\ UNCHANGED <<form, editing, writes>>
    BY HubStepIs DEF lineForm
  <1>3. due' = due
    BY <1>1 DEF HubStep, Serve, Lose, Deny, ServeRead, CreateLine, UpdateLine, DeleteLine, CreateCode,
                DeleteCode, UpdateTheme, RotateAgentKey, Asked, notes
  <1>4. /\ CreatesIn(req') = CreatesIn(req) /\ CreatesSentIn(req') = CreatesSentIn(req)
        /\ CreateWaits(req) => CreateWaits(req')
    BY <1>1, <1>2 DEF GoesOn, OnlyAt, CreatesIn, CreatesSentIn, CreateWaits
  <1>5. FormCounts' => FormCounts
    BY <1>2, <1>4 DEF FormCounts, CreateWaits, CreatesIn
  <1>6. QED
    BY <1>2, <1>3, <1>4, <1>5, DueStays

\* From r to n there is no other creation.
NoMoreCreates(r, n) ==
    \A s \in Slots : n[s].kind = "create" => r[s].kind = "create" /\ n[s].state = r[s].state

\* Neither answers, nor pages that come and go, nor other requests create a line.
LEMMA NoMoreCreatesIs ==
  ASSUME NEW r, NEW n
  PROVE  /\ \A s \in Slots : Dropped(r, n, s) => NoMoreCreates(r, n)
         /\ \A all \in BOOLEAN : OrphanedTo(r, n, all) => NoMoreCreates(r, n)
         /\ \A kind, who, arg : Sent(r, n, kind, who, arg) /\ kind # "create"
               => NoMoreCreates(r, n) /\ (CreateWaits(r) => CreateWaits(n))
         /\ \A p, a : MountedIn(r, n, p, a) => NoMoreCreates(r, n) /\ (CreateWaits(r) => CreateWaits(n))
  <1>1. ASSUME NEW s \in Slots, Dropped(r, n, s) PROVE NoMoreCreates(r, n)
    BY <1>1, IdleIs DEF Dropped, OnlyAt, NoMoreCreates
  <1>2. ASSUME NEW all \in BOOLEAN, OrphanedTo(r, n, all) PROVE NoMoreCreates(r, n)
    BY <1>2, IdleIs DEF OrphanedTo, NoMoreCreates
  <1>3. ASSUME NEW kind, NEW who, NEW arg, Sent(r, n, kind, who, arg), kind # "create"
        PROVE  NoMoreCreates(r, n) /\ (CreateWaits(r) => CreateWaits(n))
    <2>1. PICK s \in Slots : SentTo(r, n, s, kind, who, arg)
      BY <1>3 DEF Sent
    <2>2. r[s].kind # "create" /\ n[s].kind # "create" /\ \A q \in Slots \ {s} : n[q] = r[q]
      BY <1>3, <2>1, IdleIs DEF SentTo, IsNew, OnlyAt
    <2>3. QED
      BY <2>2 DEF NoMoreCreates, CreateWaits, CreatesIn
  <1>4. ASSUME NEW p, NEW a, MountedIn(r, n, p, a)
        PROVE  NoMoreCreates(r, n) /\ (CreateWaits(r) => CreateWaits(n))
    <2>1. CASE n = r
      BY <2>1 DEF NoMoreCreates
    <2>2. CASE LoadOf(p) \in Reads /\ Sent(r, n, LoadOf(p), a, {})
      <3>1. LoadOf(p) # "create"
        BY <2>2 DEF Reads
      <3>2. QED
        BY <1>3, <2>2, <3>1
    <2>3. QED
      BY <1>4, <2>1, <2>2 DEF MountedIn
  <1>5. QED
    BY <1>1, <1>2, <1>3, <1>4

\* Nothing is created, and the form is gone, or as it was while its call, if any,
\* runs on.
LEMMA DueKept ==
  ASSUME ConsoleTyped, DueCovers, NoMoreCreates(req, req'), due' = due,
         writes' = writes \/ writes' = writes + 1,
         \/ form' = FALSE \/ editing' # {}
         \/ UNCHANGED <<form, editing>> /\ (CreateWaits(req) => CreateWaits(req'))
  PROVE  DueCovers'
  <1>1. CreatesIn(req') \subseteq CreatesIn(req) /\ CreatesSentIn(req') \subseteq CreatesSentIn(req)
    BY DEF NoMoreCreates, CreatesIn, CreatesSentIn
  <1>2. writes' < MaxWrites => writes < MaxWrites
    BY ConsoleAssumption DEF ConsoleTyped
  <1>3. CreateWaits(req)' = CreateWaits(req')
    BY DEF CreateWaits, CreatesIn
  <1>4. FormCounts' => FormCounts
    BY <1>2, <1>3 DEF FormCounts
  <1>5. QED
    BY <1>1, <1>4, DueStays

\* An answer comes; the call of the form is that of its slot.
LEMMA DueAnswered ==
  ASSUME ConsoleTyped, DueCovers, NEW s \in Slots, NEW rest, Dropped(req, rest, s),
         req' = rest \/ (\E p, a : MountedIn(rest, req', p, a)), UNCHANGED <<due, writes>>,
         \/ form' = FALSE
         \/ UNCHANGED <<form, editing>> /\ ~(s \in CreatesIn(req) /\ req[s].live /\ req[s].state = "ok"),
         req[s].state \in {"ok", "failed"}
  PROVE  DueCovers'
  <1>1. NoMoreCreates(req, rest) /\ (req' = rest \/ NoMoreCreates(rest, req'))
    BY NoMoreCreatesIs
  <1>2. NoMoreCreates(req, req')
    BY <1>1 DEF NoMoreCreates
  <1>3. ASSUME ~(s \in CreatesIn(req) /\ req[s].live /\ req[s].state = "ok"), CreateWaits(req)
        PROVE  CreateWaits(req')
    <2>1. PICK q \in CreatesIn(req) : req[q].live /\ req[q].state \in {"sent", "ok"}
      BY <1>3 DEF CreateWaits
    <2>2. rest[q] = req[q] /\ q \in Slots
      BY <1>3, <2>1 DEF Dropped, OnlyAt, CreatesIn
    <2>3. CreateWaits(rest)
      BY <2>1, <2>2 DEF CreateWaits, CreatesIn
    <2>4. QED
      BY <2>3, NoMoreCreatesIs
  <1>4. QED
    BY <1>2, <1>3, DueKept

\* A request that is no creation.
LEMMA DueAsked ==
  ASSUME ConsoleTyped, DueCovers, NEW kind \in Kinds \ {"create"}, NEW who, NEW arg,
         Sends(kind, who, arg), due' = due, writes' = writes \/ writes' = writes + 1
  PROVE  DueCovers'
  <1>1. NoMoreCreates(req, req') /\ (CreateWaits(req) => CreateWaits(req'))
    BY NoMoreCreatesIs DEF Sends
  <1>2. QED
    BY <1>1, DueKept DEF Sends, lineForm

\* The form is submitted: its call was due.
LEMMA DueSubmitted ==
  ASSUME ConsoleTyped, OneLocks, DueCovers, SubmitLine
  PROVE  DueCovers'
  <1>1. PICK kind \in {"create", "update"} :
                (kind = "create" => editing = {}) /\ Sends(kind, token, editing)
    BY SendsAre
  <1>2. UNCHANGED <<form, editing, due>> /\ writes' = writes + 1 /\ writes < MaxWrites /\ form /\ ~busy
    BY DEF SubmitLine, LineFormReady, Send, lineForm
  <1>3. CASE kind = "update"
    <2>1. kind \in Kinds \ {"create"}
      BY <1>3 DEF Kinds, Writes
    <2>2. QED
      BY <1>1, <1>2, <2>1, DueAsked
  <1>4. CASE kind = "create"
    <2>1. PICK s \in Slots : SentTo(req, req', s, "create", token, editing)
      BY <1>1, <1>4 DEF Sends, Sent
    <2>2. /\ s \notin CreatesIn(req) /\ s \in CreatesIn(req')
          /\ s \notin CreatesSentIn(req) /\ s \in CreatesSentIn(req')
          /\ OnlyAt(req, req', s) /\ req'[s].live = TRUE /\ req'[s].state = "sent"
      BY <2>1, IdleIs DEF SentTo, IsNew, CreatesIn, CreatesSentIn
    <2>3. /\ Cardinality(CreatesIn(req')) = Cardinality(CreatesIn(req)) + 1
          /\ Cardinality(CreatesSentIn(req')) = Cardinality(CreatesSentIn(req)) + 1
      BY <2>2, CreatesChange, CreateCounts DEF Bit
    <2>4. editing = {}
      BY <1>1, <1>4
    <2>5. ~CreateWaits(req) /\ CreateWaits(req')
      BY <1>2, <2>2 DEF CreateWaits, CreatesIn, OneLocks, Locks, Submits
    <2>6. FormCounts = TRUE
      BY <1>2, <2>4, <2>5 DEF FormCounts
    <2>7. FormCounts' = FALSE
      BY <2>5 DEF FormCounts, CreateWaits, CreatesIn
    <2>8. /\ Cardinality(CreatesSentIn(req)) + 1 <= due /\ Cardinality(CreatesIn(req)) <= writes
          /\ Cardinality(CreatesIn(req)) \in Nat /\ Cardinality(CreatesSentIn(req)) \in Nat
          /\ due \in Int /\ writes \in Int
      BY <2>6, CreateCounts DEF DueCovers, Bit, ConsoleTyped, HubTyped
    <2>9. /\ Cardinality(CreatesSentIn(req')) + 0 <= due' /\ Cardinality(CreatesIn(req')) <= writes'
      BY <1>2, <2>3, <2>8
    <2>10. QED
      BY <2>7, <2>9 DEF DueCovers, CreatesIn, CreatesSentIn, Bit
  <1>5. QED
    BY <1>3, <1>4

\* A form is opened: one line more is due.
LEMMA DueOpened ==
  ASSUME ConsoleTyped, DueCovers, OpenCreate
  PROVE  DueCovers'
  <1>1. due' = OneMore /\ ~form /\ UNCHANGED <<req, writes>>
    BY DEF OpenCreate
  <1>2. FormCounts = FALSE
    BY <1>1 DEF FormCounts
  <1>3. /\ Cardinality(CreatesSentIn(req)) + 0 <= due /\ Cardinality(CreatesIn(req)) <= writes
        /\ Cardinality(CreatesSentIn(req)) \in Nat /\ due \in Int /\ writes \in 0..MaxWrites
    BY <1>2, CreateCounts DEF DueCovers, Bit, ConsoleTyped, HubTyped
  <1>4. CASE due < MaxWrites
    <2>1. Bit(FormCounts') \in {0, 1}
      BY DEF Bit
    <2>2. Cardinality(CreatesSentIn(req)) + Bit(FormCounts') <= due'
      BY <1>1, <1>3, <1>4, <2>1 DEF OneMore
    <2>3. QED
      BY <1>1, <1>3, <2>2 DEF DueCovers, CreatesIn, CreatesSentIn, Bit
  <1>5. CASE ~(due < MaxWrites)
    <2>1. due' \in Int /\ due' >= MaxWrites /\ writes' \in Nat /\ writes' <= MaxWrites
      BY <1>1, <1>3, <1>5, ConsoleAssumption DEF OneMore
    <2>2. Cardinality(CreatesIn(req')) <= writes'
      BY <1>1, <1>3
    <2>3. QED
      BY <2>1, <2>2, DueFull
  <1>6. QED
    BY <1>4, <1>5

\* What is due covers what is made: a form counts for one, and so does an answer
\* that is lost.
LEMMA DueStep ==
  ASSUME ConsoleTyped, LiveOfSession, OneLocks, DueCovers, [ConsoleNext]_consoleVars
  PROVE  DueCovers'
  <1> USE DEF session, view, lineForm, notes
  <1>1. ASSUME NEW s \in Slots, ReceiveLogin(s) PROVE DueCovers'
    <2>1. CASE req[s].state # "ok"
      <3>1. UNCHANGED <<due, writes, form, editing>> /\ s \notin CreatesIn(req)
            /\ req[s].state \in {"ok", "failed"}
        BY <1>1, <2>1 DEF ReceiveLogin, Answered, CreatesIn
      <3>2. QED
        BY <1>1, <2>1, <3>1, LoginFailsIs, DueAnswered
    <2>2. CASE req[s].state = "ok"
      <3>1. PICK rest, m : /\ Dropped(req, rest, s) /\ MountedIn(rest, m, page, req[s].who)
                           /\ Sent(m, req', "me", req[s].who, {})
        BY <1>1, <2>2, LoginIs
      <3>2. NoMoreCreates(req, rest) /\ NoMoreCreates(rest, m) /\ NoMoreCreates(m, req')
        BY <3>1, NoMoreCreatesIs
      <3>3. NoMoreCreates(req, req')
        BY <3>2 DEF NoMoreCreates
      <3>4. UNCHANGED <<due, writes>> /\ form' = FALSE
        BY <1>1, <2>2 DEF ReceiveLogin, Blank
      <3>5. QED
        BY <3>3, <3>4, DueKept
    <2>3. QED
      BY <2>1, <2>2
  <1>2. ASSUME NEW s \in Slots, ReceiveMe(s) PROVE DueCovers'
    <2>1. UNCHANGED <<due, writes>> /\ s \notin CreatesIn(req) /\ req[s].state \in {"ok", "failed"}
      BY <1>2 DEF ReceiveMe, Answered, CreatesIn
    <2>2. CASE req[s].state = "ok" \/ ~authed
      <3>1. UNCHANGED <<form, editing>>
        BY <1>2, <2>2 DEF ReceiveMe
      <3>2. PICK rest : /\ Dropped(req, rest, s)
                        /\ req' = rest \/ MountedIn(rest, req', page, token)
        BY <1>2, <2>2, MeIs, MeFailsIs
      <3>3. QED
        BY <2>1, <3>1, <3>2, DueAnswered
    <2>3. CASE req[s].state # "ok" /\ authed
      <3>1. PICK rest : Dropped(req, rest, s) /\ OrphanedTo(rest, req', TRUE)
        BY <1>2, <2>3, MeFailsIs
      <3>2. NoMoreCreates(req, rest) /\ NoMoreCreates(rest, req')
        BY <3>1, NoMoreCreatesIs
      <3>3. NoMoreCreates(req, req')
        BY <3>2 DEF NoMoreCreates
      <3>4. form' = FALSE
        BY <1>2, <2>3 DEF ReceiveMe, SignedOut, Blank
      <3>5. QED
        BY <2>1, <3>3, <3>4, DueKept
    <2>4. QED
      BY <2>2, <2>3
  <1>3. ASSUME NEW s \in Slots, ReceiveSubmit(s) \/ ReceiveDelete(s) PROVE DueCovers'
    <2>1. PICK rest : Dropped(req, rest, s) /\ (req' = rest \/ MountedIn(rest, req', page, token))
      BY <1>3, WriteAnswers DEF Reloaded
    <2>2. /\ UNCHANGED <<due, writes>> /\ req[s].state \in {"ok", "failed"}
          /\ \/ form' = FALSE
             \/ UNCHANGED <<form, editing>> /\ ~(s \in CreatesIn(req) /\ req[s].state = "ok")
      BY <1>3 DEF ReceiveSubmit, ReceiveDelete, Answered, CreatesIn
    <2>3. QED
      BY <2>1, <2>2, DueAnswered
  <1>4. ASSUME NEW s \in Slots,
               ReceiveRotate(s) \/ ReceiveSave(s) \/ ReceiveLoad(s) \/ Ignore(s)
        PROVE  DueCovers'
    <2>1. Dropped(req, req', s)
      BY <1>4, WriteAnswers
    <2>2. /\ UNCHANGED <<due, writes, form, editing>> /\ req[s].state \in {"ok", "failed"}
          /\ ~(s \in CreatesIn(req) /\ req[s].live)
      BY <1>4 DEF ReceiveRotate, ReceiveSave, ReceiveLoad, Ignore, Answered, CreatesIn, Reads
    <2>3. QED
      BY <2>1, <2>2, DueAnswered
  <1>5. ASSUME NEW p \in Pages, Navigate(p) PROVE DueCovers'
    <2>1. PICK rest : OrphanedTo(req, rest, FALSE) /\ MountedIn(rest, req', p, token)
      BY <1>5, NavigateIs
    <2>2. NoMoreCreates(req, rest) /\ NoMoreCreates(rest, req')
      BY <2>1, NoMoreCreatesIs
    <2>3. NoMoreCreates(req, req')
      BY <2>2 DEF NoMoreCreates
    <2>4. UNCHANGED <<due, writes>> /\ form' = FALSE
      BY <1>5 DEF Navigate, Blank
    <2>5. QED
      BY <2>3, <2>4, DueKept
  <1>6. CASE Logout
    <2>1. NoMoreCreates(req, req')
      BY <1>6, LogoutIs, NoMoreCreatesIs
    <2>2. UNCHANGED <<due, writes>> /\ form' = FALSE
      BY <1>6 DEF Logout, SignedOut, Blank
    <2>3. QED
      BY <2>1, <2>2, DueKept
  <1>7. CASE \/ Cancel \/ Dismiss \/ UNCHANGED consoleVars
             \/ \E x \in shown : OpenEdit(x) \/ Ask(x)
    <2>1. /\ UNCHANGED <<req, due, writes>>
          /\ form' = FALSE \/ editing' # {} \/ UNCHANGED <<form, editing>>
      BY <1>7 DEF Cancel, Dismiss, consoleVars, OpenEdit, Ask
    <2>2. NoMoreCreates(req, req')
      BY <2>1 DEF NoMoreCreates
    <2>3. QED
      BY <2>1, <2>2, DueKept
  <1>8. CASE \/ \E a \in Accounts : SignIn(a)
             \/ \E c \in Codes : SubmitCode(c)
             \/ Poll \/ SaveTheme \/ ChangePassword \/ ConfirmDelete \/ HandleRotateKey
    <2>1. due' = due /\ (writes' = writes \/ writes' = writes + 1)
      BY <1>8 DEF SignIn, SubmitCode, Poll, SaveTheme, ChangePassword, ConfirmDelete, HandleRotateKey, Send
    <2>2. ASSUME NEW kind \in Kinds \ {"create"}, NEW who, NEW arg, Sends(kind, who, arg)
          PROVE  DueCovers'
      BY <2>1, <2>2, DueAsked
    <2>3. Reads \cup {"login", "createCode", "saveTheme", "password", "deleteLine", "deleteCode", "rotate"}
            \subseteq Kinds \ {"create"}
      BY DEF Kinds, Reads, Writes
    <2>4. ASSUME NEW a \in Accounts, SignIn(a) PROVE DueCovers'
      BY <2>2, <2>3, <2>4, SendsAre
    <2>5. ASSUME NEW c \in Codes, SubmitCode(c) PROVE DueCovers'
      BY <2>2, <2>3, <2>5, SendsAre
    <2>6. CASE Poll
      BY <2>2, <2>3, <2>6, SendsAre
    <2>7. CASE SaveTheme \/ ChangePassword \/ HandleRotateKey
      BY <2>2, <2>3, <2>7, SendsAre
    <2>8. CASE ConfirmDelete
      BY <2>2, <2>3, <2>8, SendsAre
    <2>9. QED
      BY <1>8, <2>4, <2>5, <2>6, <2>7, <2>8
  <1> HIDE DEF session, view, lineForm, notes
  <1>9. QED
    BY <1>1, <1>2, <1>3, <1>4, <1>5, <1>6, <1>7, <1>8, DueHubStep, DueSubmitted, DueOpened
    DEF ConsoleNext, HubStep, Receive

-----------------------------------------------------------------------------
(* The list of the page.                                                   *)

\* A load by itself, whatever is on the page before it is answered.
LEMMA LoadAlone ==
  ASSUME NEW r, NoReads(r), NEW n, NEW p, p # "settings", NEW a, MountedIn(r, n, p, a), NEW w, NEW l
  PROVE  Follows(n, w, l)
  <1>1. PICK s \in Slots : SentTo(r, n, s, LoadOf(p), a, {})
    BY DEF MountedIn, Sent
  <1>2. n[s].kind \in Reads /\ n[s].state = "sent" /\ \A t \in Slots \ {s} : n[t].kind \notin Reads
    BY <1>1 DEF MountedIn, SentTo, IsNew, OnlyAt, NoReads
  <1>3. QED
    BY <1>2 DEF Follows, NoReads

\* One slot changes, which reads nothing before or after, and is no write that
\* has been done, before.
LEMMA FollowsOn ==
  ASSUME NEW r, NEW w, NEW l, Follows(r, w, l), NEW n, NEW s \in Slots, OnlyAt(r, n, s),
         r[s].kind \notin Reads, ~Dirty(r[s]), n[s].kind \notin Reads
  PROVE  Follows(n, w, l)
  <1>1. \A t \in Slots \ {s} : n[t] = r[t]
    BY DEF OnlyAt
  <1>2. (\A t \in Slots : ~Dirty(n[t])) => \A t \in Slots : ~Dirty(r[t])
    BY <1>1
  <1>3. NoReads(n) => NoReads(r)
    BY <1>1 DEF NoReads
  <1>4. QED
    BY <1>1, <1>2, <1>3 DEF Follows

\* The load is answered.
LEMMA LoadArrives ==
  ASSUME NEW r, NEW w, NEW l, Follows(r, w, l), NEW n, NEW s \in Slots, Dropped(r, n, s),
         r[s].kind \in Reads, r[s].state = "ok"
  PROVE  Follows(n, r[s].data, l)
  <1>1. \A t \in Slots : n[t].kind \notin Reads
    BY IdleIs DEF Dropped, OnlyAt, Follows, Reads
  <1>2. ~Dirty(r[s])
    BY DEF Dirty, Reads, ListWrites
  <1>3. (\A t \in Slots : ~Dirty(n[t])) => \A t \in Slots : ~Dirty(r[t])
    BY <1>2 DEF Dropped, OnlyAt
  <1>4. QED
    BY <1>1, <1>3 DEF Follows

\* What the hub answers while it changes no list of the page.
LEMMA FollowsServed ==
  ASSUME NEW r, NEW w, NEW l, Follows(r, w, l), NEW n, NEW s \in Slots, GoesOn(r, n, s),
         r[s].kind \in Reads /\ n[s].state = "ok" => n[s].data = l,
         Dirty(r[s]) => Dirty(n[s])
  PROVE  Follows(n, w, l)
  <1>1. /\ \A t \in Slots \ {s} : n[t] = r[t]
        /\ \A t \in Slots : n[t].kind = r[t].kind
    BY DEF GoesOn, OnlyAt
  <1>2. (\A t \in Slots : ~Dirty(n[t])) => \A t \in Slots : ~Dirty(r[t])
    BY <1>1
  <1>3. NoReads(n) => NoReads(r)
    BY <1>1 DEF NoReads
  <1>4. QED
    BY <1>1, <1>2, <1>3 DEF Follows

\* The hub has done what the page asked: its answer will load the list.
LEMMA FollowsDone ==
  ASSUME NEW r, NEW w, NEW l, Follows(r, w, l), NEW n, NEW s \in Slots, GoesOn(r, n, s), Dirty(n[s]), NEW k
  PROVE  Follows(n, w, k)
  BY DEF Follows, GoesOn, OnlyAt

\* The steps of the hub.
LEMMA ListHubStep ==
  ASSUME ConsoleTyped, LiveOfSession, ReadsOfPage, ListFollows, NEW s \in Slots, HubStep(s)
  PROVE  ListFollows'
  <1>1. GoesOn(req, req', s) /\ UNCHANGED <<session, list, token, page, shown, authed, loading>>
    BY HubStepIs DEF session, list
  <1>2. SUFFICES ASSUME ListShown' PROVE Follows(req', shown, Current')
    <2>1. Follows(req, shown, Current)' = Follows(req', shown', Current')
      BY DEF Follows, NoReads, Dirty
    <2>2. QED
      BY <1>1, <2>1 DEF ListFollows
  <1>3. CASE Lose(s) \/ Deny(s) \/ ServeRead(s)
    <2>1. UNCHANGED <<tables, spoilt>> /\ req'[s].did = req[s].did
      BY <1>3, LoseIs, DenyIs, ServeReadIs DEF Lose, Deny, ServeRead, view
    <2>2. Current' = Current /\ ListShown
      BY <1>1, <1>2, <2>1 DEF Current, ListOf, tables, ListShown, Mounted
    <2>3. Dirty(req[s]) => Dirty(req'[s])
      BY <1>1, <2>1 DEF GoesOn, Dirty
    <2>4. ASSUME req[s].kind \in Reads, req'[s].state = "ok" PROVE req'[s].data = Current
      <3>1. req'[s].data = ListOf(req[s].kind, req[s].who)
        BY <1>3, <2>4, ServeReadIs, DenyIs DEF Lose, Reads, Writes
      <3>2. req[s].kind = LoadOf(page) /\ req[s].live /\ req[s].kind # "login"
        BY <2>4 DEF ReadsOfPage, Reads
      <3>3. QED
        BY <3>1, <3>2 DEF LiveOfSession, Current
    <2>5. QED
      BY <1>1, <2>2, <2>3, <2>4, FollowsServed DEF ListFollows
  <1>4. ASSUME NEW d, Served(s, d), req[s].state = "sent" PROVE ListShown /\ req'[s].live /\ req'[s].did = TRUE
    <2>1. req'[s].did = TRUE /\ spoilt' = (spoilt \/ ~req[s].live)
      BY <1>4, ServedIs DEF Served
    <2>2. QED
      BY <1>1, <1>2, <2>1 DEF ListShown, Mounted, GoesOn
  <1>5. CASE CreateLine(s) \/ UpdateLine(s) \/ DeleteLine(s) \/ CreateCode(s) \/ DeleteCode(s)
    <2>1. (\E d : Served(s, d)) /\ req[s].state = "sent" /\ req[s].kind \in ListWrites
      BY <1>5 DEF CreateLine, UpdateLine, DeleteLine, CreateCode, DeleteCode, Asked, ListWrites
    <2>2. ListShown /\ Dirty(req'[s])
      BY <1>1, <1>4, <2>1 DEF Dirty, GoesOn
    <2>3. QED
      BY <1>1, <2>2, FollowsDone DEF ListFollows
  <1>6. CASE UpdateTheme(s) \/ RotateAgentKey(s)
    <2>1. (\E d : Served(s, d)) /\ req[s].state = "sent" /\ req[s].kind \in {"saveTheme", "rotate"}
          /\ UNCHANGED <<lines, codes>>
      BY <1>6 DEF UpdateTheme, RotateAgentKey, Asked
    <2>2. ListShown /\ ~Dirty(req[s]) /\ req[s].kind \notin Reads
      BY <1>4, <2>1 DEF Dirty, ListWrites, Reads
    <2>3. Current' = Current
      <3>1. LoadOf(page) \in {"lines", "codes", "agents"}
        BY <2>2 DEF ListShown, LoadOf, ConsoleTyped, SessionTyped, Pages
      <3>2. QED
        BY <1>1, <2>1, <3>1 DEF Current, ListOf
    <2>4. QED
      BY <1>1, <2>2, <2>3, FollowsServed DEF ListFollows
  <1>7. QED
    BY <1>3, <1>5, <1>6 DEF HubStep, Serve

\* The page and its list are as they were, and one request came or went.
LEMMA ListKept ==
  ASSUME ListFollows, UNCHANGED <<token, authed, loading, page, shown, lines, codes, theme>>,
         ~spoilt' => ~spoilt,
         ListShown' /\ Follows(req, shown, Current) => Follows(req', shown, Current)
  PROVE  ListFollows'
  <1>1. Follows(req, shown, Current)' = Follows(req', shown', Current') /\ Current' = Current
    BY DEF Follows, NoReads, Dirty, Current, ListOf
  <1>2. ListShown' => ListShown
    BY DEF ListShown, Mounted
  <1>3. QED
    BY <1>1, <1>2 DEF ListFollows

\* The page loads by itself.
LEMMA ListLoads ==
  ASSUME ~spoilt' => \E r, a : NoReads(r) /\ MountedIn(r, req', page', a)
  PROVE  ListFollows'
  <1>1. Follows(req, shown, Current)' = Follows(req', shown', Current')
    BY DEF Follows, NoReads, Dirty
  <1>2. ASSUME ListShown' PROVE Follows(req', shown', Current')
    BY <1>2, LoadAlone DEF ListShown
  <1>3. QED
    BY <1>1, <1>2 DEF ListFollows

\* No page is open.
LEMMA ListUnseen == ASSUME ~authed' PROVE ListFollows'
  BY DEF ListFollows, ListShown, Mounted

\* An answer that is no load's, to what left the list alone.
LEMMA ListAnswered ==
  ASSUME ListFollows, UNCHANGED <<token, authed, loading, page, shown, lines, codes, theme>>,
         ~spoilt' => ~spoilt, NEW s \in Slots, Dropped(req, req', s), req[s].kind \notin Reads,
         ~spoilt' => ~Dirty(req[s])
  PROVE  ListFollows'
  <1>1. ASSUME ~spoilt', Follows(req, shown, Current) PROVE Follows(req', shown, Current)
    BY <1>1, IdleIs, FollowsOn DEF Dropped, Reads
  <1>2. QED
    BY <1>1, ListKept DEF ListShown

\* A request that reads nothing of the page.
LEMMA ListAsked ==
  ASSUME ListFollows, NEW kind \in Kinds \ Reads, NEW who, NEW arg, Sends(kind, who, arg), spoilt' = spoilt
  PROVE  ListFollows'
  <1>1. PICK s \in Slots : SentTo(req, req', s, kind, who, arg)
    BY DEF Sends, Sent
  <1>2. OnlyAt(req, req', s) /\ req[s].kind \notin Reads /\ ~Dirty(req[s]) /\ req'[s].kind \notin Reads
    BY <1>1, IdleIs DEF SentTo, IsNew, Dirty, Reads
  <1>3. Follows(req, shown, Current) => Follows(req', shown, Current)
    BY <1>2, FollowsOn
  <1>4. QED
    BY <1>3, ListKept DEF Sends, session, list, tables

\* The list is loaded anew after every write whose outcome the page knows.
LEMMA ListStep ==
  ASSUME ConsoleTyped, LiveOfSession, OneLocks, ReadsOfPage, ListFollows, [ConsoleNext]_consoleVars
  PROVE  ListFollows'
  <1> USE DEF session, view, list, tables
  <1>1. ASSUME NEW s \in Slots, ReceiveLogin(s) PROVE ListFollows'
    <2>1. CASE req[s].state # "ok"
      <3>1. ~authed'
        BY <1>1, <2>1 DEF ReceiveLogin, Answered, OneLocks
      <3>2. QED
        BY <3>1, ListUnseen
    <2>2. CASE req[s].state = "ok"
      <3>1. PICK rest, m : /\ Dropped(req, rest, s) /\ MountedIn(rest, m, page, req[s].who)
                           /\ Sent(m, req', "me", req[s].who, {})
        BY <1>1, <2>2, LoginIs
      <3>2. NoReads(rest)
        <4>1. ~authed
          BY <1>1 DEF ReceiveLogin, Answered, OneLocks
        <4>2. NoReads(req)
          BY <4>1 DEF NoReads, ReadsOfPage, LiveOfSession, Reads
        <4>3. QED
          BY <3>1, <4>2, IdleIs DEF NoReads, Dropped, OnlyAt, Reads
      <3>3. ASSUME ListShown' PROVE Follows(req', shown', Current')
        <4>1. page # "settings" /\ page' = page
          BY <1>1, <2>2, <3>3 DEF ReceiveLogin, ListShown
        <4>2. Follows(m, shown', Current')
          BY <3>1, <3>2, <4>1, LoadAlone
        <4>3. PICK q \in Slots : SentTo(m, req', q, "me", req[s].who, {})
          BY <3>1 DEF Sent
        <4>4. OnlyAt(m, req', q) /\ m[q].kind \notin Reads /\ ~Dirty(m[q]) /\ req'[q].kind \notin Reads
          BY <4>3, IdleIs DEF SentTo, IsNew, Dirty, Reads
        <4>5. QED
          BY <4>2, <4>4, FollowsOn
      <3>4. Follows(req, shown, Current)' = Follows(req', shown', Current')
        BY DEF Follows, NoReads, Dirty
      <3>5. QED
        BY <3>3, <3>4 DEF ListFollows
    <2>3. QED
      BY <2>1, <2>2
  <1>2. ASSUME NEW s \in Slots, ReceiveMe(s) PROVE ListFollows'
    <2>1. req[s].kind = "me" /\ req[s].kind \notin Reads /\ ~Dirty(req[s])
      BY <1>2 DEF ReceiveMe, Answered, Reads, Dirty, ListWrites
    <2>2. CASE req[s].state = "ok" /\ loading
      <3>1. PICK rest : Dropped(req, rest, s) /\ MountedIn(rest, req', page, token)
        BY <1>2, <2>2, MeIs
      <3>2. NoReads(rest)
        BY <2>2, <3>1, IdleIs DEF NoReads, ReadsOfPage, Dropped, OnlyAt, Reads
      <3>3. page' = page
        BY <1>2, <2>2 DEF ReceiveMe
      <3>4. QED
        BY <3>1, <3>2, <3>3, ListLoads
    <2>3. CASE req[s].state = "ok" /\ ~loading
      <3>1. Dropped(req, req', s)
        BY <1>2, <2>3, MeIs
      <3>2. UNCHANGED <<token, authed, page, shown, spoilt, tables>> /\ loading' = FALSE /\ loading = FALSE
        BY <1>2, <2>3 DEF ReceiveMe, ConsoleTyped, SessionTyped
      <3>3. QED
        BY <2>1, <3>1, <3>2, ListAnswered
    <2>4. CASE req[s].state # "ok"
      <3>1. ~authed'
        BY <1>2, <2>4 DEF ReceiveMe, SignedOut
      <3>2. QED
        BY <3>1, ListUnseen
    <2>5. QED
      BY <2>2, <2>3, <2>4
  <1>3. ASSUME NEW s \in Slots, ReceiveLoad(s) PROVE ListFollows'
    <2>1. Dropped(req, req', s)
      BY <1>3, WriteAnswers
    <2>2. ASSUME ListShown' PROVE Follows(req', shown', Current')
      <3>1. /\ ListShown /\ req[s].state = "ok" /\ req[s].kind \in Reads /\ shown' = req[s].data
            /\ Current' = Current
        BY <1>3, <2>2 DEF ReceiveLoad, Answered, ListShown, Mounted, Current, ListOf
      <3>2. QED
        BY <2>1, <3>1, LoadArrives DEF ListFollows
    <2>3. Follows(req, shown, Current)' = Follows(req', shown', Current')
      BY DEF Follows, NoReads, Dirty
    <2>4. QED
      BY <2>2, <2>3 DEF ListFollows
  <1>4. ASSUME NEW s \in Slots, ReceiveSubmit(s) \/ ReceiveDelete(s) PROVE ListFollows'
    <2>1. UNCHANGED <<token, authed, loading, page, shown, lines, codes, theme>>
      BY <1>4 DEF ReceiveSubmit, ReceiveDelete
    <2>2. CASE req[s].state = "ok"
      <3>1. PICK rest : MountedIn(rest, req', page, token) /\ spoilt' = LoadUnderWay(rest)
        BY <1>4, <2>2, WriteAnswers DEF Reloaded
      <3>2. ~spoilt' => NoReads(rest)
        BY <3>1 DEF LoadUnderWay, NoReads
      <3>3. QED
        BY <2>1, <3>1, <3>2, ListLoads
    <2>3. CASE req[s].state # "ok"
      <3>1. Dropped(req, req', s) /\ spoilt' = (spoilt \/ req[s].did)
        BY <1>4, <2>3, WriteAnswers
      <3>2. req[s].kind \notin Reads
        BY <1>4 DEF ReceiveSubmit, ReceiveDelete, Answered, Reads
      <3>3. QED
        BY <2>1, <3>1, <3>2, ListAnswered DEF Dirty
    <2>4. QED
      BY <2>2, <2>3
  <1>5. ASSUME NEW s \in Slots, ReceiveRotate(s) \/ ReceiveSave(s) \/ Ignore(s) PROVE ListFollows'
    <2>1. Dropped(req, req', s)
      BY <1>5, WriteAnswers
    <2>2. UNCHANGED <<token, authed, loading, page, shown, lines, codes, theme, spoilt>>
      BY <1>5 DEF ReceiveRotate, ReceiveSave, Ignore
    <2>3. req[s].kind \notin Reads /\ ~Dirty(req[s])
      BY <1>5 DEF ReceiveRotate, ReceiveSave, Ignore, Answered, Reads, Dirty, ListWrites, ReadsOfPage
    <2>4. QED
      BY <2>1, <2>2, <2>3, ListAnswered
  <1>6. ASSUME NEW p \in Pages, Navigate(p) PROVE ListFollows'
    <2>1. PICK rest : OrphanedTo(req, rest, FALSE) /\ MountedIn(rest, req', p, token)
      BY <1>6, NavigateIs
    <2>2. NoReads(rest) /\ page' = p
      BY <1>6, <2>1, IdleIs DEF NoReads, OrphanedTo, Reads, Navigate
    <2>3. QED
      BY <2>1, <2>2, ListLoads
  <1>7. CASE Logout
    BY <1>7, ListUnseen DEF Logout, SignedOut
  <1>8. CASE \/ OpenCreate \/ Cancel \/ Dismiss \/ UNCHANGED consoleVars
             \/ \E x \in shown : OpenEdit(x) \/ Ask(x)
    <2>1. UNCHANGED <<token, authed, loading, page, shown, lines, codes, theme, spoilt, req>>
      BY <1>8, QuietIs
    <2>2. QED
      BY <2>1, ListKept
  <1>9. CASE Poll
    <2>1. MountedIn(req, req', page, token) /\ page' = page
      BY <1>9, SendsAre DEF Sends, MountedIn, Poll
    <2>2. ~spoilt' => NoReads(req)
      BY <1>9 DEF Poll, LoadUnderWay, NoReads
    <2>3. QED
      BY <2>1, <2>2, ListLoads
  <1>10. ASSUME NEW a \in Accounts, SignIn(a) PROVE ListFollows'
    BY <1>10, ListUnseen DEF SignIn
  <1>11. CASE \/ \E c \in Codes : SubmitCode(c)
              \/ SubmitLine \/ SaveTheme \/ ChangePassword \/ ConfirmDelete \/ HandleRotateKey
    <2>1. spoilt' = spoilt
      BY <1>11 DEF SubmitCode, SubmitLine, SaveTheme, ChangePassword, ConfirmDelete, HandleRotateKey
    <2>2. ASSUME NEW kind \in Kinds \ Reads, NEW who, NEW arg, Sends(kind, who, arg)
          PROVE  ListFollows'
      BY <2>1, <2>2, ListAsked
    <2>3. {"create", "update", "createCode", "saveTheme", "password", "deleteLine", "deleteCode", "rotate"}
            \subseteq Kinds \ Reads
      BY DEF Kinds, Reads, Writes
    <2>4. ASSUME NEW c \in Codes, SubmitCode(c) PROVE ListFollows'
      BY <2>2, <2>3, <2>4, SendsAre
    <2>5. CASE SubmitLine
      BY <2>2, <2>3, <2>5, SendsAre
    <2>6. CASE SaveTheme \/ ChangePassword \/ HandleRotateKey
      BY <2>2, <2>3, <2>6, SendsAre
    <2>7. CASE ConfirmDelete
      BY <2>2, <2>3, <2>7, SendsAre
    <2>8. QED
      BY <1>11, <2>4, <2>5, <2>6, <2>7
  <1> HIDE DEF session, view, list, tables
  <1>12. QED
    BY <1>1, <1>2, <1>3, <1>4, <1>5, <1>6, <1>7, <1>8, <1>9, <1>10, <1>11, ListHubStep
    DEF ConsoleNext, HubStep, Receive

-----------------------------------------------------------------------------
\* Each step keeps all parts of the invariant, which need one another.
LEMMA NextConsoleIInv == ConsoleIInv /\ [ConsoleNext]_consoleVars => ConsoleIInv'
  <1> SUFFICES ASSUME ConsoleIInv, [ConsoleNext]_consoleVars PROVE ConsoleIInv'
    OBVIOUS
  <1>1. /\ ConsoleTyped /\ LiveOfSession /\ OneLocks /\ ReadsOfPage /\ TenantIsOfSession
        /\ ThemesKept /\ KeyFollows /\ DueCovers /\ ListFollows /\ SessionTyped
    BY DEF ConsoleIInv, ConsoleTyped
  <1>2. ConsoleTyped' /\ SessionTyped'
    BY <1>1, ConsoleTypedStep, SessionTypedStep
  <1>3. LiveOfSession' /\ OneLocks' /\ ReadsOfPage'
    <2>1. Orderly(req', token', loading', page', busy')
      BY <1>1, OrderlyIs, OrderlyStep
    <2>2. QED
      BY <1>2, <2>1 DEF SessionTyped, Orderly, LiveOfSession, OneLocks, ReadsOfPage, Locks
  <1>4. TenantIsOfSession' /\ ThemesKept' /\ KeyFollows' /\ DueCovers' /\ ListFollows'
    BY <1>1, TenantStep, ThemesStep, KeyStep, DueStep, ListStep
  <1>5. QED
    BY <1>2, <1>3, <1>4 DEF ConsoleIInv

\* So it holds always.
LEMMA ConsoleIInvHolds == ConsoleSpec => []ConsoleIInv
  BY InitConsoleIInv, NextConsoleIInv, PTL DEF ConsoleSpec

\* The name, the plan and the identity on the operator's pages are those of the
\* account whose token api.js sends, whatever was under way when an earlier
\* session ended; a stray getMe of that session alone can change it
\* (useAuth.jsx:23-36).
THEOREM TenantHolds == ConsoleSpec => []TenantIsOfSession
  BY ConsoleIInvHolds, PTL DEF ConsoleIInv

\* A theme that a form saves was loaded whole: no theme of the hub ever loses the
\* fields the operator did not touch (Branding.jsx, api.js:116).
THEOREM ThemeHolds == ConsoleSpec => []ThemeKept
  BY ConsoleIInvHolds, PTL DEF ConsoleIInv, ThemesKept

\* The key on the screen is the agent's, also when the answer to a rotation was
\* lost and request sent it again (Agents.jsx:191, api.js:92).
THEOREM KeyHolds == ConsoleSpec => []ShownKeyIsLive
  <1>1. ConsoleIInv => ShownKeyIsLive
    BY DEF ConsoleIInv, KeyFollows, ShownKeyIsLive
  <1>2. QED
    BY <1>1, ConsoleIInvHolds, PTL

\* A form makes one server line, and one more only for each answer that is lost
\* (Servers.jsx, api.js:92).
THEOREM FormHolds == ConsoleSpec => []OneLinePerForm
  <1>1. ASSUME ConsoleIInv PROVE OneLinePerForm
    <2>1. Cardinality(CreatesSentIn(req)) \in Nat /\ Bit(FormCounts) \in {0, 1} /\ due \in Int
      BY <1>1, CreateCounts DEF Bit, ConsoleIInv, ConsoleTyped, HubTyped
    <2>2. QED
      BY <1>1, <2>1 DEF ConsoleIInv, DueCovers, OneLinePerForm
  <1>2. QED
    BY <1>1, ConsoleIInvHolds, PTL

\* A page that waits for nothing shows what the hub has (Servers.jsx, Codes.jsx,
\* Agents.jsx, Dashboard.jsx).
THEOREM ListHolds == ConsoleSpec => []ListSettles
  <1>1. ASSUME ConsoleIInv PROVE ListSettles
    <2>1. SUFFICES ASSUME Mounted, page # "settings", page # "branding", ~spoilt,
                          \A s \in Slots : ~req[s].live \/ req[s].kind = "me"
                   PROVE  shown = Current
      BY DEF ListSettles, Current
    <2>2. Follows(req, shown, Current)
      BY <1>1, <2>1 DEF ConsoleIInv, ListFollows, ListShown
    <2>3. NoReads(req) /\ \A s \in Slots : ~Dirty(req[s])
      BY <1>1, <2>1 DEF ConsoleIInv, ReadsOfPage, NoReads, Dirty, Reads, ListWrites
    <2>4. QED
      BY <2>2, <2>3 DEF Follows
  <1>2. QED
    BY <1>1, ConsoleIInvHolds, PTL
=============================================================================
