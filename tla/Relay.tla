------------------------------- MODULE Relay -------------------------------
(***************************************************************************)
(* One relay of the gate (shiguang-gate/internal/proxy/relay.go): the      *)
(* accept loop, a handler and two copy goroutines per connection, the      *)
(* statistics behind Relay.mu, the wait group behind Wait, the prober of   *)
(* the upstream (health.go), and the gate's Stop (pkg/embed/gate.go).      *)
(*                                                                         *)
(* Bytes are not modelled: a copy goroutine runs until its source ends or  *)
(* one of its sockets fails.  copyDone is buffered, so that sending on it  *)
(* is part of the end of a copy; what it holds is the ended copies less    *)
(* the one that "draining" has received.                                   *)
(***************************************************************************)
EXTENDS Integers, FiniteSets

CONSTANTS
    Conn,           \* the connections clients may open
    ProxyProtocol,  \* Route.ProxyProtocol
    FailThresh      \* probeFailThresh

ASSUME RelayAssumption ==
    /\ IsFiniteSet(Conn)
    /\ ProxyProtocol \in BOOLEAN
    /\ FailThresh \in Nat \ {0}

VARIABLES
    loop,       \* acceptLoop: "accepting", "backoff" or "ended"
    listening,  \* the listener is open
    ctxDone,    \* the context given to Start is cancelled
    shutdown,   \* the gate's Stop: "up", "cancelled", "waiting", "returned"
    wg,         \* Relay.wg
    pc,         \* pc[c]: where the handler of c is
    copy,       \* copy[c][d]: the goroutine that copies in direction d
    header,     \* header[c]: the PROXY header is written
    eof,        \* eof[c]: the peers of c that have ended their stream
    accepted,   \* Relay.connAccepted
    rejected,   \* Relay.connRejected
    active,     \* Relay.connActive
    healthy,    \* upstreamProber.healthy
    failures    \* upstreamProber.failures, where all from FailThresh on are one

relayVars  == <<loop, listening, ctxDone, shutdown, wg>>
connVars   == <<pc, copy, header, eof>>
stats      == <<accepted, rejected, active>>
proberVars == <<healthy, failures>>
vars == <<relayVars, connVars, stats, proberVars>>

Dir == {"up", "down"}
Peer == {"client", "upstream"}
Source(d) == IF d = "up" THEN "client" ELSE "upstream"

Init ==
    /\ loop = "accepting" /\ listening = TRUE
    /\ ctxDone = FALSE /\ shutdown = "up"
    /\ wg = 1
    /\ pc = [c \in Conn |-> "none"]
    /\ copy = [c \in Conn |-> [d \in Dir |-> "none"]]
    /\ header = [c \in Conn |-> FALSE]
    /\ eof = [c \in Conn |-> {}]
    /\ accepted = 0 /\ rejected = 0 /\ active = 0
    /\ healthy = TRUE /\ failures = 0

-----------------------------------------------------------------------------
(* The accept loop.                                                        *)

\* Bug: the handler is started without wg.Add.
AcceptNoAdd(c) ==
    /\ loop = "accepting" /\ listening
    /\ pc[c] = "none"
    /\ pc' = [pc EXCEPT ![c] = "hook"]
    /\ UNCHANGED <<relayVars, copy, header, eof, stats, proberVars>>

Accept(c) ==
    /\ loop = "accepting" /\ listening
    /\ pc[c] = "none"
    /\ pc' = [pc EXCEPT ![c] = "hook"]
    /\ wg' = wg + 1
    /\ UNCHANGED <<loop, listening, ctxDone, shutdown, copy, header, eof, stats,
                   proberVars>>

\* Accept fails for another reason than the listener's end.
AcceptError ==
    /\ loop = "accepting" /\ listening
    /\ loop' = "backoff"
    /\ UNCHANGED <<listening, ctxDone, shutdown, wg, connVars, stats, proberVars>>

BackoffTimer ==
    /\ loop = "backoff"
    /\ loop' = "accepting"
    /\ UNCHANGED <<listening, ctxDone, shutdown, wg, connVars, stats, proberVars>>

\* net.ErrClosed, or the context ends during the backoff.
LoopEnds ==
    /\ \/ loop = "accepting" /\ ~listening
       \/ loop = "backoff" /\ ctxDone
    /\ loop' = "ended"
    /\ wg' = wg - 1
    /\ UNCHANGED <<listening, ctxDone, shutdown, connVars, stats, proberVars>>

-----------------------------------------------------------------------------
(* The handler of a connection.                                            *)

\* The peer's address is gone already.
NoAddr(c) ==
    /\ pc[c] = "hook"
    /\ pc' = [pc EXCEPT ![c] = "closing"]
    /\ UNCHANGED <<relayVars, copy, header, eof, stats, proberVars>>

\* The hook may let the connection pass or refuse it.
Hook(c) ==
    /\ pc[c] = "hook"
    /\ \/ pc' = [pc EXCEPT ![c] = "health"] /\ UNCHANGED rejected
       \/ pc' = [pc EXCEPT ![c] = "closing"] /\ rejected' = rejected + 1
    /\ UNCHANGED <<relayVars, copy, header, eof, accepted, active, proberVars>>

Health(c) ==
    /\ pc[c] = "health"
    /\ IF healthy
       THEN /\ pc' = [pc EXCEPT ![c] = "accepted"]
            /\ accepted' = accepted + 1
            /\ UNCHANGED rejected
       ELSE /\ pc' = [pc EXCEPT ![c] = "closing"]
            /\ rejected' = rejected + 1
            /\ UNCHANGED accepted
    /\ UNCHANGED <<relayVars, copy, header, eof, active, proberVars>>

IncActive(c) ==
    /\ pc[c] = "accepted"
    /\ pc' = [pc EXCEPT ![c] = "dial"]
    /\ active' = active + 1
    /\ UNCHANGED <<relayVars, copy, header, eof, accepted, rejected, proberVars>>

Dialled(c) ==
    /\ pc[c] = "dial" /\ ~ctxDone
    /\ pc' = [pc EXCEPT ![c] = "header"]
    /\ UNCHANGED <<relayVars, copy, header, eof, stats, proberVars>>

\* Refused, timed out or cancelled.
DialFailed(c) ==
    /\ pc[c] = "dial"
    /\ pc' = [pc EXCEPT ![c] = "teardown"]
    /\ UNCHANGED <<relayVars, copy, header, eof, stats, proberVars>>

StartCopies(c) ==
    /\ pc' = [pc EXCEPT ![c] = "copying"]
    /\ copy' = [copy EXCEPT ![c] = [d \in Dir |-> "running"]]

WriteHeader(c) ==
    /\ pc[c] = "header"
    /\ header' = [header EXCEPT ![c] = ProxyProtocol]
    /\ StartCopies(c)
    /\ UNCHANGED <<relayVars, eof, stats, proberVars>>

\* Bug: the early return goes past the decrement.
HeaderFailedLeaks(c) ==
    /\ pc[c] = "header" /\ ProxyProtocol
    /\ pc' = [pc EXCEPT ![c] = "closing"]
    /\ UNCHANGED <<relayVars, copy, header, eof, stats, proberVars>>

HeaderFailed(c) ==
    /\ pc[c] = "header" /\ ProxyProtocol
    /\ pc' = [pc EXCEPT ![c] = "teardown"]
    /\ UNCHANGED <<relayVars, copy, header, eof, stats, proberVars>>

\* The stream a copy reads is at its end, or the handler closed it: the
\* upstream on its way to "closing", the client on its way to "done".
SourceEnded(c, d) ==
    \/ Source(d) \in eof[c]
    \/ pc[c] = "done"
    \/ d = "down" /\ pc[c] = "closing"

CopyReturns(c, d) ==
    /\ copy[c][d] = "running" /\ SourceEnded(c, d)
    /\ copy' = [copy EXCEPT ![c][d] = "ended"]
    /\ UNCHANGED <<relayVars, pc, header, eof, stats, proberVars>>

\* A write fails because the other peer, or the handler, closed the socket.
CopyFails(c, d) ==
    /\ copy[c][d] = "running"
    /\ eof[c] # {} \/ pc[c] \in {"closing", "done"}
    /\ copy' = [copy EXCEPT ![c][d] = "ended"]
    /\ UNCHANGED <<relayVars, pc, header, eof, stats, proberVars>>

\* The first copy that ends leaves the other one two seconds.
ReceiveFirst(c) ==
    /\ pc[c] = "copying" /\ \E d \in Dir : copy[c][d] = "ended"
    /\ pc' = [pc EXCEPT ![c] = "draining"]
    /\ UNCHANGED <<relayVars, copy, header, eof, stats, proberVars>>

\* Bug: no timer, so that a peer that never ends its stream holds the handler.
DrainsNoTimer(c) ==
    /\ pc[c] = "draining"
    /\ ctxDone \/ \A d \in Dir : copy[c][d] = "ended"
    /\ pc' = [pc EXCEPT ![c] = "teardown"]
    /\ UNCHANGED <<relayVars, copy, header, eof, stats, proberVars>>

\* The second copy, the context or the timer.
Drains(c) ==
    /\ pc[c] = "draining"
    /\ pc' = [pc EXCEPT ![c] = "teardown"]
    /\ UNCHANGED <<relayVars, copy, header, eof, stats, proberVars>>

\* Bug: the handler does not listen to the context.
CancelledDeaf(c) ==
    /\ pc[c] = "copying" /\ ctxDone /\ \A d \in Dir : copy[c][d] = "ended"
    /\ pc' = [pc EXCEPT ![c] = "teardown"]
    /\ UNCHANGED <<relayVars, copy, header, eof, stats, proberVars>>

Cancelled(c) ==
    /\ pc[c] = "copying" /\ ctxDone
    /\ pc' = [pc EXCEPT ![c] = "teardown"]
    /\ UNCHANGED <<relayVars, copy, header, eof, stats, proberVars>>

\* The deferred calls: upstream.Close, incActive(-1) ...
Teardown(c) ==
    /\ pc[c] = "teardown"
    /\ pc' = [pc EXCEPT ![c] = "closing"]
    /\ active' = active - 1
    /\ UNCHANGED <<relayVars, copy, header, eof, accepted, rejected, proberVars>>

\* ... client.Close and wg.Done.
Finish(c) ==
    /\ pc[c] = "closing"
    /\ pc' = [pc EXCEPT ![c] = "done"]
    /\ wg' = wg - 1
    /\ UNCHANGED <<loop, listening, ctxDone, shutdown, copy, header, eof, stats,
                   proberVars>>

\* A peer of a relayed connection ends its stream.
PeerEnds(c, p) ==
    /\ pc[c] \in {"copying", "draining"}
    /\ eof' = [eof EXCEPT ![c] = @ \cup {p}]
    /\ UNCHANGED <<relayVars, pc, copy, header, stats, proberVars>>

-----------------------------------------------------------------------------
(* The prober of the upstream.                                             *)

Lesser(a, b) == IF a <= b THEN a ELSE b

\* The ticker fires and the dial succeeds or fails.  The goroutine ends with
\* the context, at the latest after one more probe; that it does changes nothing.
Probe(ok) ==
    /\ failures' = IF ok THEN 0 ELSE Lesser(FailThresh, failures + 1)
    /\ healthy' = (ok \/ (healthy /\ failures' < FailThresh))
    /\ UNCHANGED <<relayVars, connVars, stats>>

-----------------------------------------------------------------------------
(* GateInstance.Stop: cancel, Relay.Stop, Relay.Wait.                      *)

Cancel ==
    /\ shutdown = "up"
    /\ shutdown' = "cancelled" /\ ctxDone' = TRUE
    /\ UNCHANGED <<loop, listening, wg, connVars, stats, proberVars>>

Stop ==
    /\ shutdown = "cancelled"
    /\ shutdown' = "waiting"
    /\ listening' = FALSE
    /\ UNCHANGED <<loop, ctxDone, wg, connVars, stats, proberVars>>

Wait ==
    /\ shutdown = "waiting" /\ wg = 0
    /\ shutdown' = "returned"
    /\ UNCHANGED <<loop, listening, ctxDone, wg, connVars, stats, proberVars>>

-----------------------------------------------------------------------------
Handler(c) ==
    \/ NoAddr(c) \/ Hook(c) \/ Health(c) \/ IncActive(c)
    \/ Dialled(c) \/ DialFailed(c) \/ WriteHeader(c) \/ HeaderFailed(c)
    \/ ReceiveFirst(c) \/ Drains(c) \/ Cancelled(c) \/ Teardown(c) \/ Finish(c)

Next ==
    \/ \E c \in Conn : Accept(c) \/ Handler(c)
    \/ \E c \in Conn, d \in Dir : CopyReturns(c, d) \/ CopyFails(c, d)
    \/ \E c \in Conn, p \in Peer : PeerEnds(c, p)
    \/ AcceptError \/ BackoffTimer \/ LoopEnds
    \/ \E ok \in BOOLEAN : Probe(ok)
    \/ Cancel \/ Stop \/ Wait

\* The steps of the relay that some goroutine takes when it can, and that come
\* to an end for each connection.
Progress ==
    \/ \E c \in Conn : Handler(c)
    \/ \E c \in Conn, d \in Dir : CopyReturns(c, d)
    \/ LoopEnds \/ Stop \/ Wait

\* The Go scheduler lets some runnable goroutine run, dials and the drain end
\* by their timers, the backoff timer fires.  Peers may be silent for ever, the
\* upstream may stay down, nobody has to stop the gate.
Fairness == WF_vars(Progress) /\ WF_vars(BackoffTimer)

Spec == Init /\ [][Next]_vars /\ Fairness

-----------------------------------------------------------------------------
InFlightPc == {"dial", "header", "copying", "draining", "teardown"}
HandlingPc == InFlightPc \cup {"hook", "health", "accepted", "closing"}

At(K) == {c \in Conn : pc[c] \in K}
InFlight == At(InFlightPc)
Handling == At(HandlingPc)

TypeOK ==
    /\ loop \in {"accepting", "backoff", "ended"}
    /\ listening \in BOOLEAN /\ ctxDone \in BOOLEAN
    /\ shutdown \in {"up", "cancelled", "waiting", "returned"}
    /\ wg \in Nat
    /\ pc \in [Conn -> HandlingPc \cup {"none", "done"}]
    /\ copy \in [Conn -> [Dir -> {"none", "running", "ended"}]]
    /\ header \in [Conn -> BOOLEAN]
    /\ eof \in [Conn -> SUBSET Peer]
    /\ accepted \in Nat /\ rejected \in Nat /\ active \in Nat
    /\ healthy \in BOOLEAN
    /\ failures \in 0..FailThresh

\* In every snapshot that Stats takes, between any two steps of the handlers,
\* active is the number of connections being relayed and no more than were
\* ever accepted, whichever of the early returns a handler took.
StatsConsistent ==
    /\ active = Cardinality(InFlight)
    /\ active <= accepted

\* "Write PROXY v2 header to upstream BEFORE any payload bytes"
\* (relay.go:166), also when writing it fails.
HeaderFirst ==
    ProxyProtocol => \A c \in Conn : \A d \in Dir : copy[c][d] # "none" => header[c]

\* "Wait blocks until all accept/copy goroutines have returned" (relay.go:88).
\* For the handlers it does: none runs any more or will be started.  The copies
\* are in no wait group and may outlive Wait.
WaitCoversHandlers ==
    shutdown = "returned" => loop = "ended" /\ Handling = {} /\ active = 0

\* A stopped gate gets back from Wait, whatever the peers of its connections do.
\* The cancellation alone would not do, in spite of relay.go:59 and 88-89: it
\* does not wake Accept.
ShutdownDrains == ctxDone ~> (shutdown = "returned")

\* A peer that ends its stream ends the connection, whatever the other does.
HalfOpenEnds ==
    \A c \in Conn : (pc[c] = "copying" /\ eof[c] # {}) ~> (pc[c] = "done")

\* A handler that is gone leaves no copy goroutine behind.
NoLeakedCopy ==
    \A c \in Conn : (pc[c] = "done") ~> (\A d \in Dir : copy[c][d] # "running")
=============================================================================
