---------------------------- MODULE RateLimiter ----------------------------
(***************************************************************************)
(* The gate's per-address limiter                                          *)
(* (shiguang-gate/internal/defense/ratelimit.go): a token bucket and a cap *)
(* on simultaneous connections, both under one mutex, and the sweeper that *)
(* forgets idle addresses.                                                 *)
(*                                                                         *)
(* Tokens are measured in the clock ticks it takes to refill them, so that *)
(* a bucket fills by 1 per tick, a connection costs Cost = 1/rate and a    *)
(* full bucket holds Depth = burst/rate.  The rounding of float64 is left  *)
(* out.  lastRefill and lastSeen are always set together: both are last.   *)
(***************************************************************************)
EXTENDS Integers

CONSTANTS
    Ip,             \* the client addresses
    Cost,           \* refill time of one token
    Depth,          \* refill time of the whole bucket
    MaxConcurrent,  \* connections per address at a time, 0 = unlimited
    IdleEvict,      \* idleEvict, in ticks
    CallerReleases, \* whether the end of a connection calls Release
    MaxOpen,        \* bound: connections an address opens at a time
    MaxTime         \* bound: the clock stops here

\* Evict hands an idle address a full bucket, which only keeps the rate when
\* the bucket has refilled by then: 10 minutes at rate >= 1/s do for every
\* burst up to 600.
ASSUME RateLimiterAssumption ==
    /\ Cost \in Nat \ {0}
    /\ Depth \in Nat
    /\ Cost <= Depth
    /\ MaxConcurrent \in Nat
    /\ IdleEvict \in Nat
    /\ Depth <= IdleEvict
    /\ CallerReleases \in BOOLEAN
    /\ MaxOpen \in Nat
    /\ MaxTime \in Nat

VARIABLES
    now,     \* the clock
    known,   \* the keys of RateLimiter.buckets
    tokens,  \* ipState.tokens, as of last
    last,    \* ipState.lastRefill and ipState.lastSeen
    active,  \* ipState.active
    \* what the properties remember
    open,    \* the admitted connections that have not ended
    spent    \* spent[ip][s]: Cost of the admissions since time s

vars == <<now, known, tokens, last, active, open, spent>>

-----------------------------------------------------------------------------
Lesser(a, b) == IF a <= b THEN a ELSE b

\* What the bucket of ip holds now; a new bucket is full.
Refilled(ip) ==
    IF ip \in known THEN Lesser(Depth, tokens[ip] + (now - last[ip])) ELSE Depth

Init ==
    /\ now = 0
    /\ known = {}
    /\ tokens = [ip \in Ip |-> Depth]
    /\ last = [ip \in Ip |-> 0]
    /\ active = [ip \in Ip |-> 0]
    /\ open = [ip \in Ip |-> 0]
    /\ spent = [ip \in Ip |-> [s \in 0..MaxTime |-> 0]]

\* Bug: a refusal refills the bucket without moving lastRefill.
RefuseUnstamped(ip) ==
    /\ \/ Refilled(ip) < Cost
       \/ MaxConcurrent > 0 /\ active[ip] >= MaxConcurrent
    /\ known' = known \cup {ip}
    /\ tokens' = [tokens EXCEPT ![ip] = Refilled(ip)]
    /\ UNCHANGED <<now, last, active, open, spent>>

\* A refused address: its bucket is still created, refilled and stamped.
Refuse(ip) ==
    /\ \/ Refilled(ip) < Cost
       \/ MaxConcurrent > 0 /\ active[ip] >= MaxConcurrent
    /\ known' = known \cup {ip}
    /\ tokens' = [tokens EXCEPT ![ip] = Refilled(ip)]
    /\ last' = [last EXCEPT ![ip] = now]
    /\ UNCHANGED <<now, active, open, spent>>

\* AllowConnect returns nil.
Admit(ip) ==
    /\ Refilled(ip) >= Cost
    /\ MaxConcurrent = 0 \/ active[ip] < MaxConcurrent
    /\ open[ip] < MaxOpen
    /\ known' = known \cup {ip}
    /\ tokens' = [tokens EXCEPT ![ip] = Refilled(ip) - Cost]
    /\ last' = [last EXCEPT ![ip] = now]
    /\ active' = [active EXCEPT ![ip] = @ + 1]
    /\ open' = [open EXCEPT ![ip] = @ + 1]
    /\ spent' = [spent EXCEPT ![ip] =
                    [s \in 0..MaxTime |-> IF s <= now THEN @[s] + Cost ELSE @[s]]]
    /\ UNCHANGED now

\* Bug: the count never goes back to zero.
ReleaseKeepsLast(ip) ==
    active' = IF ip \in known /\ active[ip] > 1
              THEN [active EXCEPT ![ip] = @ - 1] ELSE active

Release(ip) ==
    active' = IF ip \in known /\ active[ip] > 0
              THEN [active EXCEPT ![ip] = @ - 1] ELSE active

\* An admitted connection ends.  The gate's relay does not call Release.
End(ip) ==
    /\ open[ip] > 0
    /\ open' = [open EXCEPT ![ip] = @ - 1]
    /\ IF CallerReleases THEN Release(ip) ELSE UNCHANGED active
    /\ UNCHANGED <<now, known, tokens, last, spent>>

\* Bug: the sweeper does not look at the connections that are still open.
IdleByTimeOnly == {ip \in known : last[ip] < now - IdleEvict}

Idle == {ip \in known : active[ip] = 0 /\ last[ip] < now - IdleEvict}

\* The sweeper forgets the idle addresses.
Evict ==
    /\ known' = known \ Idle
    /\ tokens' = [ip \in Ip |-> IF ip \in Idle THEN Depth ELSE tokens[ip]]
    /\ last' = [ip \in Ip |-> IF ip \in Idle THEN 0 ELSE last[ip]]
    /\ active' = [ip \in Ip |-> IF ip \in Idle THEN 0 ELSE active[ip]]
    /\ UNCHANGED <<now, open, spent>>

Tick ==
    /\ now < MaxTime
    /\ now' = now + 1
    /\ UNCHANGED <<known, tokens, last, active, open, spent>>

Next ==
    \/ \E ip \in Ip : Refuse(ip) \/ Admit(ip) \/ End(ip)
    \/ Evict
    \/ Tick

\* The standalone gate runs the sweeper every minute.
Spec == Init /\ [][Next]_vars /\ WF_vars(Evict)

-----------------------------------------------------------------------------
TypeOK ==
    /\ now \in 0..MaxTime
    /\ known \subseteq Ip
    /\ tokens \in [Ip -> 0..Depth]
    /\ last \in [Ip -> 0..now]
    /\ active \in [Ip -> Nat]
    /\ open \in [Ip -> 0..MaxOpen]
    /\ spent \in [Ip -> [0..MaxTime -> Nat]]

\* The promise of a token bucket: in every window, from any past time to now,
\* an address is admitted for no more than a full bucket and the refill of the
\* window, whatever refusals, evictions and reconnects happen in it.
RateBound ==
    \A ip \in Ip : \A s \in 0..now : spent[ip][s] <= Depth + (now - s)

\* No address ever has more connections than the cap.
CapHolds ==
    MaxConcurrent > 0 => \A ip \in Ip : open[ip] <= MaxConcurrent

\* "each IP is limited to MaxConcurrent simultaneous connections"
\* (ratelimit.go:24): what is counted against the cap is the connections that
\* are open, so that an address whose connections have ended is let in again.
CapCountsOpen == \A ip \in Ip : active[ip] = open[ip]

\* An address without connections is forgotten once it has been idle, unless
\* it comes back ("to bound memory", ratelimit.go:110).
IdleIsForgotten ==
    \A ip \in Ip :
        (ip \in known /\ open[ip] = 0 /\ last[ip] < now - IdleEvict)
            ~> (ip \notin known \/ last[ip] = now \/ open[ip] > 0)
=============================================================================
