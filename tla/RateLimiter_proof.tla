------------------------- MODULE RateLimiter_proof -------------------------
(***************************************************************************)
(* Proofs about RateLimiter for every rate, burst, cap and set of          *)
(* addresses that satisfy RateLimiterAssumption.                           *)
(***************************************************************************)
EXTENDS RateLimiter, TLAPS

\* RateBound made inductive: what was spent in a window and what the bucket
\* holds now come out of one full bucket and the refill of the window.
BucketInv ==
    \A ip \in Ip : \A s \in 0..MaxTime :
        /\ s <= now => spent[ip][s] + Refilled(ip) <= Depth + (now - s)
        /\ s > now => spent[ip][s] = 0

\* The counter never falls below the connections it stands for.
CountInv ==
    \A ip \in Ip :
        /\ open[ip] <= active[ip]
        /\ MaxConcurrent > 0 => active[ip] <= MaxConcurrent
        /\ ip \notin known => active[ip] = 0
        /\ CallerReleases => active[ip] = open[ip]

IInv == TypeOK /\ BucketInv /\ CountInv

-----------------------------------------------------------------------------
\* A bucket holds at most Depth and at least what it held at last.
LEMMA RefilledRange ==
  ASSUME TypeOK, NEW ip \in Ip
  PROVE  /\ Refilled(ip) \in 0..Depth
         /\ ip \in known => Refilled(ip) <= tokens[ip] + (now - last[ip])
  <1>1. /\ tokens[ip] \in 0..Depth /\ last[ip] \in 0..now /\ now \in Nat
    BY RateLimiterAssumption DEF TypeOK
  <1>2. QED
    BY <1>1, RateLimiterAssumption DEF Refilled, Lesser

LEMMA InitIInv == Init => IInv
  BY RateLimiterAssumption
  DEF Init, IInv, TypeOK, BucketInv, CountInv, Refilled

LEMMA TypeStep == TypeOK /\ [Next]_vars => TypeOK'
  <1> SUFFICES ASSUME TypeOK, [Next]_vars PROVE TypeOK'
    OBVIOUS
  <1>0. /\ now \in 0..MaxTime /\ now \in Nat
        /\ \A ip \in Ip : Refilled(ip) \in 0..Depth
    <2>1. \A ip \in Ip : Refilled(ip) \in 0..Depth
      BY RefilledRange
    <2>2. QED
      BY <2>1, RateLimiterAssumption DEF TypeOK
  <1>1. ASSUME NEW ip \in Ip, Refuse(ip) PROVE TypeOK'
    <2>1. tokens' \in [Ip -> 0..Depth] /\ last' \in [Ip -> 0..now]
      BY <1>0, <1>1 DEF Refuse, TypeOK
    <2>2. QED
      BY <1>1, <2>1 DEF Refuse, TypeOK
  <1>2. ASSUME NEW ip \in Ip, Admit(ip) PROVE TypeOK'
    <2>1. Refilled(ip) - Cost \in 0..Depth
      BY <1>0, <1>2, RateLimiterAssumption DEF Admit
    <2>2. tokens' \in [Ip -> 0..Depth] /\ last' \in [Ip -> 0..now]
      BY <1>0, <1>2, <2>1 DEF Admit, TypeOK
    <2>3. open' \in [Ip -> 0..MaxOpen]
      <3>1. open[ip] + 1 \in 0..MaxOpen
        BY <1>2, RateLimiterAssumption DEF Admit, TypeOK
      <3>2. QED
        BY <1>2, <3>1 DEF Admit, TypeOK
    <2>4. active' \in [Ip -> Nat]
      BY <1>2 DEF Admit, TypeOK
    <2>5. spent' \in [Ip -> [0..MaxTime -> Nat]]
      <3>1. \A s \in 0..MaxTime : spent[ip][s] + Cost \in Nat /\ spent[ip][s] \in Nat
        BY RateLimiterAssumption DEF TypeOK
      <3>2. [s \in 0..MaxTime |->
                IF s <= now THEN spent[ip][s] + Cost ELSE spent[ip][s]]
              \in [0..MaxTime -> Nat]
        BY <3>1
      <3>3. QED
        BY <1>2, <3>2 DEF Admit, TypeOK
    <2>6. QED
      BY <1>2, <2>2, <2>3, <2>4, <2>5 DEF Admit, TypeOK
  <1>3. ASSUME NEW ip \in Ip, End(ip) PROVE TypeOK'
    <2>1. open' \in [Ip -> 0..MaxOpen]
      <3>1. open[ip] - 1 \in 0..MaxOpen
        BY <1>3, RateLimiterAssumption DEF End, TypeOK
      <3>2. QED
        BY <1>3, <3>1 DEF End, TypeOK
    <2>2. active' \in [Ip -> Nat]
      <3>1. active[ip] \in Nat /\ active \in [Ip -> Nat]
        BY DEF TypeOK
      <3>2. CASE active' = [active EXCEPT ![ip] = @ - 1] /\ active[ip] > 0
        BY <3>1, <3>2
      <3>3. CASE active' = active
        BY <3>1, <3>3
      <3>4. QED
        BY <1>3, <3>2, <3>3 DEF End, Release
    <2>3. QED
      BY <1>3, <2>1, <2>2 DEF End, TypeOK
  <1>4. CASE Evict
    <2>1. \A ip \in Ip : last[ip] \in 0..now /\ 0 \in 0..now /\ Depth \in 0..Depth
      BY <1>0, RateLimiterAssumption DEF TypeOK
    <2>2. QED
      BY <1>4, <2>1 DEF Evict, TypeOK
  <1>5. CASE Tick
    <2>1. now' \in 0..MaxTime /\ 0..now \subseteq 0..now'
      BY <1>0, <1>5, RateLimiterAssumption DEF Tick
    <2>2. last' \in [Ip -> 0..now']
      BY <1>5, <2>1 DEF Tick, TypeOK
    <2>3. QED
      BY <1>5, <2>1, <2>2 DEF Tick, TypeOK
  <1>6. CASE UNCHANGED vars
    BY <1>6 DEF vars, TypeOK
  <1>7. QED
    BY <1>1, <1>2, <1>3, <1>4, <1>5, <1>6 DEF Next

\* The limiter's state is always well formed; in particular no bucket holds
\* more than the burst.
THEOREM RateLimiterTypeOK == Spec => []TypeOK
  <1>1. Init => TypeOK
    BY InitIInv DEF IInv
  <1>2. QED
    BY <1>1, TypeStep, PTL DEF Spec

-----------------------------------------------------------------------------
LEMMA BucketStep == TypeOK /\ BucketInv /\ [Next]_vars => BucketInv'
  <1> SUFFICES ASSUME TypeOK, BucketInv, [Next]_vars,
                      NEW p \in Ip, NEW s \in 0..MaxTime
               PROVE  /\ s <= now' => spent'[p][s] + Refilled(p)' <= Depth + (now' - s)
                      /\ s > now' => spent'[p][s] = 0
    BY DEF BucketInv
  <1> DEFINE Goal == /\ s <= now' => spent'[p][s] + Refilled(p)' <= Depth + (now' - s)
                     /\ s > now' => spent'[p][s] = 0
  <1>a. /\ s <= now => spent[p][s] + Refilled(p) <= Depth + (now - s)
        /\ s > now => spent[p][s] = 0
    BY DEF BucketInv
  <1>b. /\ now \in Nat /\ s \in Nat /\ spent[p][s] \in Nat
        /\ tokens[p] \in 0..Depth /\ last[p] \in 0..now
        /\ Refilled(p) \in 0..Depth
    <2>1. Refilled(p) \in 0..Depth
      BY RefilledRange
    <2>2. QED
      BY <2>1, RateLimiterAssumption DEF TypeOK
  <1> USE RateLimiterAssumption
  <1>1. ASSUME NEW ip \in Ip, Refuse(ip) PROVE Goal
    <2>1. UNCHANGED <<now, spent>>
      BY <1>1 DEF Refuse
    <2>2. Refilled(p)' = Refilled(p)
      <3>1. CASE p = ip
        <4>1. p \in known' /\ tokens'[p] = Refilled(p) /\ last'[p] = now
          BY <1>1, <3>1 DEF Refuse, TypeOK
        <4>2. QED
          BY <2>1, <4>1, <1>b DEF Refilled, Lesser
      <3>2. CASE p # ip
        BY <1>1, <2>1, <3>2 DEF Refuse, TypeOK, Refilled, Lesser
      <3>3. QED
        BY <3>1, <3>2
    <2>3. QED
      BY <2>1, <2>2, <1>a
  <1>2. ASSUME NEW ip \in Ip, Admit(ip) PROVE Goal
    <2>1. CASE p = ip
      <3>1. /\ p \in known' /\ tokens'[p] = Refilled(p) - Cost /\ last'[p] = now
            /\ now' = now /\ Refilled(p) >= Cost
        BY <1>2, <2>1 DEF Admit, TypeOK
      <3>2. Refilled(p)' = Refilled(p) - Cost
        BY <3>1, <1>b DEF Refilled, Lesser
      <3>3. spent'[p][s] = IF s <= now THEN spent[p][s] + Cost ELSE spent[p][s]
        BY <1>2, <2>1 DEF Admit, TypeOK
      <3>4. QED
        BY <3>1, <3>2, <3>3, <1>a, <1>b
    <2>2. CASE p # ip
      <3>1. now' = now /\ spent'[p] = spent[p]
        BY <1>2, <2>2 DEF Admit, TypeOK
      <3>2. Refilled(p)' = Refilled(p)
        BY <1>2, <2>2 DEF Admit, TypeOK, Refilled, Lesser
      <3>3. QED
        BY <3>1, <3>2, <1>a
    <2>3. QED
      BY <2>1, <2>2
  <1>3. ASSUME NEW ip \in Ip, End(ip) PROVE Goal
    BY <1>3, <1>a DEF End, Refilled, Lesser
  <1>4. CASE Evict
    <2>1. now' = now /\ spent' = spent
      BY <1>4 DEF Evict
    \* An address that has been idle that long has a full bucket already.
    <2>2. CASE p \in Idle
      <3>1. Refilled(p) = Depth
        BY <2>2, <1>b DEF Idle, Refilled, Lesser
      <3>2. Refilled(p)' = Depth
        BY <1>4, <2>2 DEF Evict, Refilled
      <3>3. QED
        BY <2>1, <3>1, <3>2, <1>a
    <2>3. CASE p \notin Idle
      <3>1. Refilled(p)' = Refilled(p)
        BY <1>4, <2>3, <2>1 DEF Evict, Refilled, Lesser
      <3>2. QED
        BY <2>1, <3>1, <1>a
    <2>4. QED
      BY <2>2, <2>3
  <1>5. CASE Tick
    <2>1. now' = now + 1 /\ UNCHANGED <<known, tokens, last, spent>>
      BY <1>5 DEF Tick
    <2>2. Refilled(p)' <= Refilled(p) + 1 /\ Refilled(p)' <= Depth
          /\ Refilled(p)' \in Nat
      BY <2>1, <1>b DEF Refilled, Lesser
    <2>3. QED
      BY <2>1, <2>2, <1>a, <1>b
  <1>6. CASE UNCHANGED vars
    BY <1>6, <1>a DEF vars, Refilled, Lesser
  <1>7. QED
    BY <1>1, <1>2, <1>3, <1>4, <1>5, <1>6 DEF Next

LEMMA CountStep == TypeOK /\ CountInv /\ [Next]_vars => CountInv'
  <1> SUFFICES ASSUME TypeOK, CountInv, [Next]_vars PROVE CountInv'
    OBVIOUS
  <1>t. /\ open \in [Ip -> Nat] /\ active \in [Ip -> Nat]
        /\ MaxConcurrent \in Nat
    BY RateLimiterAssumption DEF TypeOK
  <1>1. ASSUME NEW ip \in Ip, Refuse(ip) PROVE CountInv'
    BY <1>1 DEF Refuse, CountInv
  <1>2. ASSUME NEW ip \in Ip, Admit(ip) PROVE CountInv'
    <2>1. /\ active' = [active EXCEPT ![ip] = active[ip] + 1]
          /\ open' = [open EXCEPT ![ip] = open[ip] + 1]
          /\ known' = known \cup {ip}
          /\ MaxConcurrent > 0 => active[ip] < MaxConcurrent
      BY <1>2, <1>t DEF Admit
    <2>2. QED
      BY <1>t, <2>1 DEF CountInv
  <1>3. ASSUME NEW ip \in Ip, End(ip) PROVE CountInv'
    <2>1. ip \in known /\ active[ip] > 0 /\ open[ip] > 0
      BY <1>3, <1>t DEF End, CountInv
    <2>2. /\ known' = known
          /\ open' = [open EXCEPT ![ip] = open[ip] - 1]
          /\ active' = IF CallerReleases
                       THEN [active EXCEPT ![ip] = active[ip] - 1] ELSE active
      BY <1>3, <2>1 DEF End, Release
    <2>3. QED
      BY <1>t, <2>1, <2>2 DEF CountInv
  <1>4. CASE Evict
    BY <1>4 DEF Evict, Idle, CountInv
  <1>5. CASE Tick
    BY <1>5 DEF Tick, CountInv
  <1>6. CASE UNCHANGED vars
    BY <1>6 DEF vars, CountInv
  <1>7. QED
    BY <1>1, <1>2, <1>3, <1>4, <1>5, <1>6 DEF Next

LEMMA AlwaysIInv == Spec => []IInv
  <1>1. IInv /\ [Next]_vars => IInv'
    BY TypeStep, BucketStep, CountStep DEF IInv
  <1>2. QED
    BY <1>1, InitIInv, PTL DEF Spec

\* AllowConnect keeps the rate in every window, across refusals and evictions.
THEOREM RateBoundHolds == Spec => []RateBound
  <1>1. IInv => RateBound
    <2> SUFFICES ASSUME IInv, NEW ip \in Ip, NEW s \in 0..now
                 PROVE  spent[ip][s] <= Depth + (now - s)
      BY DEF RateBound
    <2>1. s \in 0..MaxTime /\ s <= now /\ now \in Nat
      BY RateLimiterAssumption DEF IInv, TypeOK
    <2>2. Refilled(ip) \in Nat /\ spent[ip][s] \in Nat
      BY <2>1, RefilledRange, RateLimiterAssumption DEF IInv, TypeOK
    <2>3. spent[ip][s] + Refilled(ip) <= Depth + (now - s)
      BY <2>1 DEF IInv, BucketInv
    <2>4. QED
      BY <2>1, <2>2, <2>3, RateLimiterAssumption
  <1>2. QED
    BY <1>1, AlwaysIInv, PTL

\* No address exceeds the cap, whether or not connections are released.
THEOREM CapHoldsHolds == Spec => []CapHolds
  <1>1. IInv => CapHolds
    <2> SUFFICES ASSUME IInv, MaxConcurrent > 0, NEW ip \in Ip
                 PROVE  open[ip] <= MaxConcurrent
      BY DEF CapHolds
    <2>1. open[ip] \in Nat /\ active[ip] \in Nat /\ MaxConcurrent \in Nat
      BY RateLimiterAssumption DEF IInv, TypeOK
    <2>2. QED
      BY <2>1 DEF IInv, CountInv
  <1>2. QED
    BY <1>1, AlwaysIInv, PTL

\* If every connection's end calls Release, the cap counts open connections.
THEOREM CapCountsOpenIfReleased == CallerReleases => (Spec => []CapCountsOpen)
  <1> SUFFICES ASSUME CallerReleases PROVE Spec => []CapCountsOpen
    OBVIOUS
  <1>1. IInv => CapCountsOpen
    BY DEF IInv, CountInv, CapCountsOpen
  <1>2. QED
    BY <1>1, AlwaysIInv, PTL
=============================================================================
