------------------------------ MODULE AgentHub ------------------------------
(***************************************************************************)
(* The hub's agent streams                                                 *)
(* (shiguang-hub/internal/grpcserver/server.go), the agent's side of them  *)
(* (shiguang-agent/internal/hubconn/client.go) and the rotation of agent   *)
(* keys (shared/tenant/repo.go).                                           *)
(*                                                                         *)
(* A session is one call of ReportStream, from the agent's dial to the     *)
(* handler's return; an agent has one at a time, the hub may still have    *)
(* the one before.  All agents belong to one tenant: SendCommand skips the *)
(* streams of the others.  Metrics and events change no state of the hub.  *)
(***************************************************************************)
EXTENDS Integers, Sequences

CONSTANTS
    Key,          \* the agent keys
    FirstKeys,    \* the keys in gate_agents at the start
    MaxSessions,  \* bound: sessions
    MaxCommands,  \* bound: commands
    QueueCap      \* the capacity of cmdCh

ASSUME AgentHubAssumption ==
    /\ FirstKeys \subseteq Key
    /\ MaxSessions \in Nat
    /\ MaxCommands \in Nat
    /\ QueueCap \in Nat \ {0}

Session == 1..MaxSessions
NoSession == 0
Command == 1..MaxCommands

VARIABLES
    rows,        \* the keys in gate_agents
    retired,     \* the keys that were rotated away
    sess,        \* the handler of a session: "none", "checking", "validated",
                 \* "open", "ended" (Recv failed, the deferred calls are next), "gone"
    key,         \* agentStream.agentKey
    client,      \* the agent's side of the session: "none", "up", "closed"
    streams,     \* Server.streams
    queue,       \* agentStream.cmdCh
    nextSess,    \* the next session
    nextCmd,     \* the next command
    \* what the properties remember
    got,         \* got[s]: the commands the agent has received on s
    queuedOn,    \* queuedOn[c]: the sessions SendCommand queued c on
    overlapped,  \* the sessions that shared their key with another open one
    carried      \* the retired keys that a session held when they were rotated

hub     == <<sess, key, streams>>
history == <<got, queuedOn, overlapped, carried>>
vars == <<rows, retired, hub, client, queue, nextSess, nextCmd, history>>

Init ==
    /\ rows = FirstKeys
    /\ retired = {}
    /\ sess = [s \in Session |-> "none"]
    /\ key \in [Session -> Key]
    /\ client = [s \in Session |-> "none"]
    /\ streams = [k \in Key |-> NoSession]
    /\ queue = [s \in Session |-> <<>>]
    /\ nextSess = 1
    /\ nextCmd = 1
    /\ got = [s \in Session |-> <<>>]
    /\ queuedOn = [c \in Command |-> {}]
    /\ overlapped = {}
    /\ carried = {}

-----------------------------------------------------------------------------
(* Sessions.                                                               *)

\* An agent dials: it has closed its session before, the hub may not know yet.
\* key[s] was chosen in Init.
Connect(s) ==
    /\ s = nextSess
    /\ \A r \in Session : key[r] = key[s] => client[r] # "up"
    /\ nextSess' = nextSess + 1
    /\ sess' = [sess EXCEPT ![s] = "checking"]
    /\ client' = [client EXCEPT ![s] = "up"]
    /\ UNCHANGED <<rows, retired, key, streams, queue, nextCmd, history>>

\* The limiter of new streams refuses, or gate_agents does not have the key.
Refuse(s) ==
    /\ sess[s] = "checking"
    /\ sess' = [sess EXCEPT ![s] = "gone"]
    /\ UNCHANGED <<rows, retired, key, client, streams, queue, nextSess, nextCmd, history>>

\* Bug: the key is not looked up in the database.
ValidateAny(s) ==
    /\ sess[s] = "checking"
    /\ sess' = [sess EXCEPT ![s] = "validated"]
    /\ UNCHANGED <<rows, retired, key, client, streams, queue, nextSess, nextCmd, history>>

Validate(s) ==
    /\ sess[s] = "checking"
    /\ key[s] \in rows
    /\ sess' = [sess EXCEPT ![s] = "validated"]
    /\ UNCHANGED <<rows, retired, key, client, streams, queue, nextSess, nextCmd, history>>

\* The sessions whose handler is between registering and its deferred delete.
Registered(s) == sess[s] \in {"open", "ended"}

SameKey(s) == {r \in Session : r # s /\ key[r] = key[s] /\ Registered(r)}

Overlap(s) ==
    overlapped' = IF SameKey(s) = {} THEN overlapped
                  ELSE overlapped \cup SameKey(s) \cup {s}

\* Bug: a key that is in the map already is not registered again.
RegisterFirstOnly(s) ==
    /\ sess[s] = "validated"
    /\ sess' = [sess EXCEPT ![s] = "open"]
    /\ streams' = IF streams[key[s]] = NoSession
                  THEN [streams EXCEPT ![key[s]] = s] ELSE streams
    /\ UNCHANGED overlapped
    /\ UNCHANGED <<rows, retired, key, client, queue, nextSess, nextCmd, got, queuedOn, carried>>

Register(s) ==
    /\ sess[s] = "validated"
    /\ sess' = [sess EXCEPT ![s] = "open"]
    /\ streams' = [streams EXCEPT ![key[s]] = s]
    /\ Overlap(s)
    /\ UNCHANGED <<rows, retired, key, client, queue, nextSess, nextCmd, got, queuedOn, carried>>

\* handleHeartbeat writes the agent row under the key the stream was opened
\* with, and inserts it when there is none.
Heartbeat(s) ==
    /\ sess[s] = "open"
    /\ rows' = rows \cup {key[s]}
    /\ UNCHANGED <<retired, hub, client, queue, nextSess, nextCmd, history>>

\* The agent gives the session up: a failed heartbeat, a failed receive, or it
\* is stopped.  It will dial again after its backoff.
AgentCloses(s) ==
    /\ client[s] = "up"
    /\ client' = [client EXCEPT ![s] = "closed"]
    /\ UNCHANGED <<rows, retired, hub, queue, nextSess, nextCmd, history>>

\* Recv fails, because the agent closed or the network did; without
\* keepalives this may be long after.
RecvFails(s) ==
    /\ sess[s] = "open"
    /\ sess' = [sess EXCEPT ![s] = "ended"]
    /\ UNCHANGED <<rows, retired, key, client, streams, queue, nextSess, nextCmd, history>>

\* The deferred delete, by key, whichever session the map holds for it; the
\* sender goroutine ends with the stream and its queue is lost.
Unregister(s) ==
    /\ sess[s] = "ended"
    /\ sess' = [sess EXCEPT ![s] = "gone"]
    /\ streams' = [streams EXCEPT ![key[s]] = NoSession]
    /\ queue' = [queue EXCEPT ![s] = <<>>]
    /\ UNCHANGED <<rows, retired, key, client, nextSess, nextCmd, history>>

-----------------------------------------------------------------------------
(* Commands.                                                               *)

\* The sessions SendCommand can queue a command on now.
Reachable ==
    {s \in Session : streams[key[s]] = s /\ Len(queue[s]) < QueueCap}

\* SendCommand, under the read lock: it returns whether queuedOn is not empty.
SendCommand(c) ==
    /\ c = nextCmd
    /\ nextCmd' = nextCmd + 1
    /\ queue' = [s \in Session |->
          IF s \in Reachable THEN Append(queue[s], c) ELSE queue[s]]
    /\ queuedOn' = [queuedOn EXCEPT ![c] = Reachable]
    /\ UNCHANGED <<rows, retired, hub, client, nextSess, got, overlapped, carried>>

\* Bug: the sender goroutine returns after its first command.
DeliverOnce(s) ==
    /\ sess[s] = "open"
    /\ queue[s] # <<>> /\ got[s] = <<>>
    /\ queue' = [queue EXCEPT ![s] = Tail(@)]
    /\ got' = IF client[s] = "up"
              THEN [got EXCEPT ![s] = Append(@, Head(queue[s]))] ELSE got
    /\ UNCHANGED <<rows, retired, hub, client, nextSess, nextCmd, queuedOn, overlapped, carried>>

\* The sender goroutine sends the head of the queue; the agent receives it
\* and applies it, unless it has closed the session.
Deliver(s) ==
    /\ sess[s] = "open"
    /\ queue[s] # <<>>
    /\ queue' = [queue EXCEPT ![s] = Tail(@)]
    /\ got' = IF client[s] = "up"
              THEN [got EXCEPT ![s] = Append(@, Head(queue[s]))] ELSE got
    /\ UNCHANGED <<rows, retired, hub, client, nextSess, nextCmd, queuedOn, overlapped, carried>>

-----------------------------------------------------------------------------
(* Keys.                                                                   *)

Holders(k) == {s \in Session : key[s] = k /\ sess[s] \in {"validated", "open"}}

\* Bug: the new key is added, the old one kept.
RotateKeepsOld(k, new) ==
    /\ k \in rows
    /\ new \notin rows \cup retired
    /\ rows' = rows \cup {new}
    /\ retired' = retired \cup {k}
    /\ carried' = IF Holders(k) # {} THEN carried \cup {k} ELSE carried
    /\ UNCHANGED <<hub, client, queue, nextSess, nextCmd, got, queuedOn, overlapped>>

\* RotateAgentKey: the row of k gets a fresh random key.
Rotate(k, new) ==
    /\ k \in rows
    /\ new \notin rows \cup retired
    /\ rows' = (rows \ {k}) \cup {new}
    /\ retired' = retired \cup {k}
    /\ carried' = IF Holders(k) # {} THEN carried \cup {k} ELSE carried
    /\ UNCHANGED <<hub, client, queue, nextSess, nextCmd, got, queuedOn, overlapped>>

-----------------------------------------------------------------------------
\* Everything has run out: no session and no command is left to start.
Done ==
    /\ nextSess > MaxSessions /\ nextCmd > MaxCommands
    /\ \A s \in Session : sess[s] = "gone" /\ client[s] = "closed"
    /\ UNCHANGED vars

SessionNext(s) ==
    \/ Connect(s) \/ Refuse(s) \/ Validate(s) \/ Register(s) \/ Heartbeat(s)
    \/ AgentCloses(s) \/ RecvFails(s) \/ Unregister(s) \/ Deliver(s)

Next ==
    \/ \E s \in Session : SessionNext(s)
    \/ \E c \in Command : SendCommand(c)
    \/ \E k, new \in Key : Rotate(k, new)
    \/ Done

\* Only the sender goroutine has to go on: the hub may never notice that an
\* agent is gone, and nobody has to send or connect.
Spec == Init /\ [][Next]_vars /\ \A s \in Session : WF_vars(Deliver(s))

-----------------------------------------------------------------------------
TypeOK ==
    /\ rows \subseteq Key /\ retired \subseteq Key
    /\ sess \in [Session -> {"none", "checking", "validated", "open", "ended", "gone"}]
    /\ key \in [Session -> Key]
    /\ client \in [Session -> {"none", "up", "closed"}]
    /\ streams \in [Key -> {NoSession} \cup Session]
    /\ queue \in [Session -> Seq(Command)]
    /\ \A s \in Session : Len(queue[s]) <= QueueCap
    /\ nextSess \in 1..(MaxSessions + 1)
    /\ nextCmd \in 1..(MaxCommands + 1)
    /\ got \in [Session -> Seq(Command)]
    /\ queuedOn \in [Command -> SUBSET Session]
    /\ overlapped \subseteq Session
    /\ carried \subseteq retired

\* The map never holds a session whose handler has returned: SendCommand does
\* not queue commands that no goroutine will ever take out.
MapHoldsLiveOnly ==
    \A k \in Key : streams[k] # NoSession =>
        key[streams[k]] = k /\ Registered(streams[k])

\* "Connected agents indexed by agent_key" (server.go:38): a connected agent
\* can be found under its key, so that commands reach it.
ConnectedIsIndexed ==
    \A s \in Session :
        sess[s] = "open" /\ client[s] = "up" => streams[key[s]] = s

\* What the map really gives: a stream that never shared its key with another
\* one is found, however sessions of other keys come and go.
AloneIsIndexed ==
    \A s \in Session :
        sess[s] = "open" /\ s \notin overlapped => streams[key[s]] = s

\* "The old key is immediately invalidated" (repo.go:502), for a key that no
\* stream held when it was rotated: it opens no stream and no heartbeat puts
\* it back.  A stream that is open keeps its key and its next heartbeat
\* inserts a row with it again.
RotatedStaysOut ==
    \A k \in retired \ carried : k \notin rows /\ Holders(k) = {}

\* A stream hands the agent the commands in the order they were sent, each at
\* most once: an unban does not overtake its ban.
OrderKept ==
    \A s \in Session : \A i, j \in 1..Len(got[s]) : i < j => got[s][i] < got[s][j]

\* A command that SendCommand reported as sent reaches the agent, unless its
\* stream ends first ("Returns true if at least one agent received the
\* command", server.go:94, promises more).
QueuedIsDelivered ==
    \A c \in Command : \A s \in Session :
        (s \in queuedOn[c]) ~>
            \/ \E i \in 1..Len(got[s]) : got[s][i] = c
            \/ sess[s] # "open" \/ client[s] # "up"
=============================================================================
