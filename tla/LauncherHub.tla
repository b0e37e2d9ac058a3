----------------------------- MODULE LauncherHub -----------------------------
(***************************************************************************)
(* The hub of the launchers' WebSocket connections                         *)
(* (shiguang-control/internal/hub/launcher_hub.go): the hub loop, and per  *)
(* connection the handler (Attach, readPump) and the writer (writePump).   *)
(*                                                                         *)
(* A client is one connection; its ID is fresh.  Messages are not told     *)
(* apart: the channels send and broadcast are the number of messages in    *)
(* them.                                                                   *)
(***************************************************************************)
EXTENDS Integers, Sequences

CONSTANTS
    Client,        \* the connections
    QueueCap,      \* the capacity of the channels register and unregister
    SendCap,       \* the capacity of a client's send channel
    BroadcastCap,  \* the capacity of the broadcast channel
    MaxMessages    \* bound: broadcasts and kicks

ASSUME LauncherHubAssumption ==
    /\ QueueCap \in Nat \ {0}
    /\ SendCap \in Nat \ {0}
    /\ BroadcastCap \in Nat \ {0}
    /\ MaxMessages \in Nat

VARIABLES
    handler,     \* of a connection: "none", "attaching", "reading",
                 \* "leaving" (readPump is back), "left"
    writer,      \* its writePump: "none", "running", "ended"
    sock,        \* its socket: "none", "open", "closed"
    send,        \* Client.send: the number of messages in it
    closedSend,  \* the clients whose send channel is closed
    clients,     \* Hub.clients
    register,    \* Hub.register
    unregister,  \* Hub.unregister
    broadcast,   \* Hub.broadcast: the number of messages in it
    done,        \* Hub.done is closed
    loop,        \* Run: "running", "exited"
    kick,        \* the clients a Kick has found, between its unlock and its send
    messages,    \* the broadcasts and kicks so far
    ghosts       \* the clients taken from unregister while still in register

conn == <<handler, writer, sock>>
hub  == <<clients, register, unregister, loop, ghosts>>
vars == <<conn, send, closedSend, hub, broadcast, done, kick, messages>>

Init ==
    /\ handler = [c \in Client |-> "none"]
    /\ writer = [c \in Client |-> "none"]
    /\ sock = [c \in Client |-> "none"]
    /\ send = [c \in Client |-> 0]
    /\ closedSend = {}
    /\ clients = {}
    /\ register = <<>>
    /\ unregister = <<>>
    /\ broadcast = 0
    /\ done = FALSE
    /\ loop = "running"
    /\ kick = {}
    /\ messages = 0
    /\ ghosts = {}

In(c, q) == \E i \in 1..Len(q) : q[i] = c

-----------------------------------------------------------------------------
(* A connection.                                                           *)

\* The WebSocket handler of the control service calls Attach.
Attach(c) ==
    /\ handler[c] = "none"
    /\ handler' = [handler EXCEPT ![c] = "attaching"]
    /\ sock' = [sock EXCEPT ![c] = "open"]
    /\ UNCHANGED <<writer, send, closedSend, hub, broadcast, done, kick, messages>>

\* It sends the client on register, waiting for room, and starts the pumps.
Enqueue(c) ==
    /\ handler[c] = "attaching"
    /\ Len(register) < QueueCap
    /\ register' = Append(register, c)
    /\ handler' = [handler EXCEPT ![c] = "reading"]
    /\ writer' = [writer EXCEPT ![c] = "running"]
    /\ UNCHANGED <<sock, send, closedSend, clients, unregister, loop, ghosts, broadcast, done,
                   kick, messages>>

\* The launcher goes away, or no pong came for pongWait.
SocketEnds(c) ==
    /\ sock[c] = "open"
    /\ sock' = [sock EXCEPT ![c] = "closed"]
    /\ UNCHANGED <<handler, writer, send, closedSend, hub, broadcast, done, kick, messages>>

\* readPump: ReadMessage fails once the socket is closed.
ReadFails(c) ==
    /\ handler[c] = "reading"
    /\ sock[c] = "closed"
    /\ handler' = [handler EXCEPT ![c] = "leaving"]
    /\ UNCHANGED <<writer, sock, send, closedSend, hub, broadcast, done, kick, messages>>

\* Attach sends the client on unregister, waiting for room, and returns.
Leave(c) ==
    /\ handler[c] = "leaving"
    /\ Len(unregister) < QueueCap
    /\ unregister' = Append(unregister, c)
    /\ handler' = [handler EXCEPT ![c] = "left"]
    /\ UNCHANGED <<writer, sock, send, closedSend, clients, register, loop, ghosts, broadcast,
                   done, kick, messages>>

\* writePump writes a message.
WriterTakes(c) ==
    /\ writer[c] = "running"
    /\ send[c] > 0
    /\ sock[c] = "open"
    /\ send' = [send EXCEPT ![c] = @ - 1]
    /\ UNCHANGED <<conn, closedSend, hub, broadcast, done, kick, messages>>

\* writePump returns, closing the socket: a write or a ping failed, or the
\* send channel is closed and empty.
WriterEnds(c) ==
    /\ writer[c] = "running"
    /\ (sock[c] = "closed" \/ (send[c] = 0 /\ c \in closedSend))
    /\ writer' = [writer EXCEPT ![c] = "ended"]
    /\ sock' = [sock EXCEPT ![c] = "closed"]
    /\ UNCHANGED <<handler, send, closedSend, hub, broadcast, done, kick, messages>>

-----------------------------------------------------------------------------
(* The hub loop.                                                           *)

TakeRegister ==
    /\ loop = "running" /\ register # <<>>
    /\ register' = Tail(register)
    /\ clients' = clients \cup {Head(register)}
    /\ UNCHANGED <<conn, send, closedSend, unregister, loop, ghosts, broadcast, done, kick,
                   messages>>

\* Bug: the client stays in the map.
TakeUnregisterKeeps ==
    /\ loop = "running" /\ unregister # <<>>
    /\ unregister' = Tail(unregister)
    /\ closedSend' = closedSend \cup ({Head(unregister)} \cap clients)
    /\ UNCHANGED <<conn, send, clients, register, loop, ghosts, broadcast, done, kick, messages>>

\* Bug: the channel is closed whether or not the client is in the map.
TakeUnregisterCloses ==
    /\ loop = "running" /\ unregister # <<>>
    /\ LET c == Head(unregister) IN
        /\ unregister' = Tail(unregister)
        /\ clients' = clients \ {c}
        /\ closedSend' = closedSend \cup {c}
        /\ ghosts' = IF In(c, register) THEN ghosts \cup {c} ELSE ghosts
    /\ UNCHANGED <<conn, send, register, loop, broadcast, done, kick, messages>>

TakeUnregister ==
    /\ loop = "running" /\ unregister # <<>>
    /\ LET c == Head(unregister) IN
        /\ unregister' = Tail(unregister)
        /\ clients' = clients \ {c}
        /\ closedSend' = closedSend \cup ({c} \cap clients)
        /\ ghosts' = IF In(c, register) THEN ghosts \cup {c} ELSE ghosts
    /\ UNCHANGED <<conn, send, register, loop, broadcast, done, kick, messages>>

TakeBroadcast ==
    /\ loop = "running" /\ broadcast > 0
    /\ broadcast' = broadcast - 1
    /\ send' = [c \in Client |->
          IF c \in clients /\ send[c] < SendCap THEN send[c] + 1 ELSE send[c]]
    /\ UNCHANGED <<conn, closedSend, hub, done, kick, messages>>

\* Bug: the clients are forgotten without closing their channels.
LoopStopsSilently ==
    /\ loop = "running" /\ done
    /\ loop' = "exited"
    /\ clients' = {}
    /\ UNCHANGED <<conn, send, closedSend, register, unregister, ghosts, broadcast, done, kick,
                   messages>>

LoopStops ==
    /\ loop = "running" /\ done
    /\ loop' = "exited"
    /\ closedSend' = closedSend \cup clients
    /\ clients' = {}
    /\ UNCHANGED <<conn, send, register, unregister, ghosts, broadcast, done, kick, messages>>

-----------------------------------------------------------------------------
(* Calls from outside.                                                     *)

\* Broadcast, which the loop's ticker calls too: dropped when there is no room.
Broadcast ==
    /\ messages < MaxMessages
    /\ messages' = messages + 1
    /\ broadcast' = IF broadcast < BroadcastCap THEN broadcast + 1 ELSE broadcast
    /\ UNCHANGED <<conn, send, closedSend, hub, done, kick>>

\* Kick finds the client under the read lock ...
KickFinds(c) ==
    /\ messages < MaxMessages
    /\ c \in clients \ kick
    /\ kick' = kick \cup {c}
    /\ messages' = messages + 1
    /\ UNCHANGED <<conn, send, closedSend, hub, broadcast, done>>

\* ... and sends without it: on a channel closed meanwhile it panics, which
\* the server's recover middleware turns into an error for the caller.
KickSends(c) ==
    /\ c \in kick
    /\ send' = IF c \notin closedSend /\ send[c] < SendCap
               THEN [send EXCEPT ![c] = @ + 1] ELSE send
    /\ kick' = kick \ {c}
    /\ UNCHANGED <<conn, closedSend, hub, broadcast, done, messages>>

\* The control service shuts down.
Stop ==
    /\ ~done
    /\ done' = TRUE
    /\ UNCHANGED <<conn, send, closedSend, hub, broadcast, kick, messages>>

-----------------------------------------------------------------------------
\* After the loop's end the queues are full or everybody has left.
Done ==
    /\ loop = "exited"
    /\ UNCHANGED vars

Next ==
    \/ \E c \in Client :
          \/ Attach(c) \/ Enqueue(c) \/ SocketEnds(c) \/ ReadFails(c) \/ Leave(c)
          \/ WriterTakes(c) \/ WriterEnds(c) \/ KickFinds(c) \/ KickSends(c)
    \/ TakeRegister \/ TakeUnregister \/ TakeBroadcast \/ LoopStops
    \/ Broadcast \/ Stop \/ Done

\* The loop does not ignore done for ever (select takes a ready channel at
\* random), and a writer goes on: its writes have a deadline.
Spec ==
    /\ Init /\ [][Next]_vars
    /\ WF_vars(LoopStops)
    /\ \A c \in Client : WF_vars(WriterTakes(c) \/ WriterEnds(c))

-----------------------------------------------------------------------------
TypeOK ==
    /\ handler \in [Client -> {"none", "attaching", "reading", "leaving", "left"}]
    /\ writer \in [Client -> {"none", "running", "ended"}]
    /\ sock \in [Client -> {"none", "open", "closed"}]
    /\ send \in [Client -> 0..SendCap]
    /\ closedSend \subseteq Client
    /\ clients \subseteq Client
    /\ register \in Seq(Client) /\ Len(register) <= QueueCap
    /\ unregister \in Seq(Client) /\ Len(unregister) <= QueueCap
    /\ broadcast \in 0..BroadcastCap
    /\ done \in BOOLEAN
    /\ loop \in {"running", "exited"}
    /\ kick \subseteq Client
    /\ messages \in 0..MaxMessages
    /\ ghosts \subseteq Client

\* "Track currently connected launchers (by client ID)" (launcher_hub.go:5): a
\* client in the map is connected, or its departure is on its way.  The ghosts
\* are the exception the code makes: register and unregister are two channels,
\* and select may take a client from unregister before register.  Nothing
\* removes it after that, and the online count includes it for good.
TrackedOrPending ==
    \A c \in clients :
        handler[c] \in {"reading", "leaving"} \/ In(c, unregister) \/ c \in ghosts

\* The loop never sends on a closed channel and never closes one twice, either
\* of which would end the whole service: the channels of the clients in the
\* map are open, and so are those of the clients that will get there.
OpenWhileTracked ==
    \A c \in Client : c \in clients \/ In(c, register) => c \notin closedSend

\* "signal hub goroutine to exit and close all WS connections"
\* (cmd/control/main.go:333), for the clients in the map.
StopCloses ==
    \A c \in Client : (done /\ c \in clients) ~> sock[c] = "closed"
=============================================================================
