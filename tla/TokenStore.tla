----------------------------- MODULE TokenStore -----------------------------
(***************************************************************************)
(* The session-token store of shiguang-control                             *)
(* (shiguang-control/internal/service/tokenstore.go): tokens handed out by *)
(* a login and redeemed once by the game server, kept in memory, flushed   *)
(* to .sg-tokens.json every 10 seconds and read back when Control starts.  *)
(*                                                                         *)
(* A token is 96 random bits, so a fresh one is a member of Token that was *)
(* never issued before.  The account and the server line it carries never  *)
(* change and decide nothing, and are left out.                            *)
(***************************************************************************)
EXTENDS Integers

CONSTANTS
    Token,        \* the tokens Issue can draw
    TTL,          \* tokenTTL, in clock ticks
    MaxTime,      \* bound: the clock stops here
    MaxRestarts,  \* bound: how often the process may end
    MayFail       \* the file operations that may fail in this instance

FileOps == {"flush", "remove", "read"}

ASSUME TokenStoreAssumption ==
    /\ TTL \in Nat
    /\ MaxTime \in Nat
    /\ MaxRestarts \in Nat
    /\ MayFail \subseteq FileOps

NotIssued == -1

VARIABLES
    up,        \* the Control process runs
    tokens,    \* TokenStore.tokens: the tokens in memory
    file,      \* the tokens in .sg-tokens.json ({}: empty or no file)
    created,   \* SessionToken.Created, NotIssued before Issue
    now,       \* the clock
    \* what the properties remember
    uses,      \* how often Consume succeeded, per token
    restarts,  \* how often the process ended
    flushed,   \* the tokens a flush has written and no failed read has lost
    sealed     \* the used tokens that were in no later flush

store   == <<up, tokens, file, created, now>>
history == <<uses, restarts, flushed, sealed>>
vars    == <<up, tokens, file, created, now, uses, restarts, flushed, sealed>>

-----------------------------------------------------------------------------
\* time.Since(Created) > tokenTTL, for a token that was issued.
Expired(t) == now - created[t] > TTL

Init ==
    /\ up = TRUE
    /\ tokens = {}
    /\ file = {}
    /\ created = [t \in Token |-> NotIssued]
    /\ now = 0
    /\ uses = [t \in Token |-> 0]
    /\ restarts = 0
    /\ flushed = {}
    /\ sealed = {}

\* A login stores a fresh token.
Issue(t) ==
    /\ up
    /\ created[t] = NotIssued
    /\ tokens' = tokens \cup {t}
    /\ created' = [created EXCEPT ![t] = now]
    /\ UNCHANGED <<up, file, now, history>>

\* Bug: delete(s.tokens, token) is only done for an expired token.
ConsumeKeepsToken(t) ==
    /\ up
    /\ t \in tokens
    /\ tokens' = IF Expired(t) THEN tokens \ {t} ELSE tokens
    /\ uses' = IF Expired(t) THEN uses ELSE [uses EXCEPT ![t] = @ + 1]
    /\ UNCHANGED <<up, file, created, now, restarts, flushed, sealed>>

\* The game server redeems t; an expired token is deleted and refused.  A
\* token that is not in memory is refused and nothing changes.
Consume(t) ==
    /\ up
    /\ t \in tokens
    /\ tokens' = tokens \ {t}
    /\ uses' = IF Expired(t) THEN uses ELSE [uses EXCEPT ![t] = @ + 1]
    /\ UNCHANGED <<up, file, created, now, restarts, flushed, sealed>>

\* Bug: the flush merges with what the file already holds.
FlushMerges(live) ==
    \/ /\ file' = file \cup live
       /\ flushed' = flushed \cup live
       /\ sealed' = sealed \cup {t \in Token : uses[t] > 0 /\ t \notin live}
    \/ /\ "flush" \in MayFail
       /\ UNCHANGED <<file, flushed, sealed>>

\* WriteFile to the .tmp and Rename; either may fail, and the error is ignored.
Flush(live) ==
    \/ /\ file' = live
       /\ flushed' = flushed \cup live
       /\ sealed' = sealed \cup {t \in Token : uses[t] > 0 /\ t \notin live}
    \/ /\ "flush" \in MayFail
       /\ UNCHANGED <<file, flushed, sealed>>

\* Bug: the tick flushes but does not purge.
MaintenanceNoPurge ==
    /\ up
    /\ IF tokens # {} THEN Flush(tokens) ELSE UNCHANGED <<file, flushed, sealed>>
    /\ UNCHANGED <<up, tokens, created, now, uses, restarts>>

\* The 10-second tick: purge and flush, under one hold of the mutex.  When the
\* memory was already empty nothing is written.
Maintenance ==
    /\ up
    /\ tokens' = {t \in tokens : ~Expired(t)}
    /\ IF tokens # {} THEN Flush(tokens') ELSE UNCHANGED <<file, flushed, sealed>>
    /\ UNCHANGED <<up, created, now, uses, restarts>>

\* The process ends.  Neither Control's shutdown nor its Stop flushes the
\* store, so an orderly end and a crash are the same.
Stop ==
    /\ up
    /\ restarts < MaxRestarts
    /\ up' = FALSE
    /\ tokens' = {}
    /\ restarts' = restarts + 1
    /\ UNCHANGED <<file, created, now, uses, flushed, sealed>>

\* Bug: the file is removed before it is read.
RemoveBeforeRead ==
    /\ file' = {}
    /\ UNCHANGED <<tokens, flushed>>

\* loadFromDisk: the unexpired tokens of the file, which is then removed.
LoadFromDisk ==
    \/ /\ tokens' = {t \in file : ~Expired(t)}
       /\ \/ file' = {}
          \/ "remove" \in MayFail /\ UNCHANGED file
       /\ UNCHANGED flushed
    \/ /\ "read" \in MayFail
       /\ flushed' = {}
       /\ UNCHANGED <<tokens, file>>

Start ==
    /\ ~up
    /\ up' = TRUE
    /\ LoadFromDisk
    /\ UNCHANGED <<created, now, uses, restarts, sealed>>

Tick ==
    /\ now < MaxTime
    /\ now' = now + 1
    /\ UNCHANGED <<up, tokens, file, created, history>>

Next ==
    \/ \E t \in Token : Issue(t) \/ Consume(t)
    \/ Maintenance
    \/ Stop
    \/ Start
    \/ Tick

\* The maintenance goroutine runs for as long as the process does.
Spec == Init /\ [][Next]_vars /\ WF_vars(Maintenance)

-----------------------------------------------------------------------------
TypeOK ==
    /\ up \in BOOLEAN
    /\ tokens \subseteq Token
    /\ file \subseteq Token
    /\ created \in [Token -> NotIssued..MaxTime]
    /\ now \in 0..MaxTime
    /\ uses \in [Token -> Nat]
    /\ restarts \in 0..MaxRestarts
    /\ flushed \subseteq Token
    /\ sealed \subseteq Token

\* "Tokens are single-use - consumed atomically on successful validation"
\* (tokenstore.go:77): no token is ever redeemed twice.  False of the code: one that
\* is redeemed before the next flush is redeemable again after a restart.
SingleUse == \A t \in Token : uses[t] <= 1

\* What the store really gives: each end of the process buys at most one more
\* use of a token, so without restarts tokens are single-use.
UseBound == \A t \in Token : uses[t] <= restarts + 1

\* A used token that a later flush left out of the file can never be redeemed
\* again, whatever stops, restarts and failed writes follow.
SealedIsFinal == [][\A t \in sealed : uses'[t] = uses[t]]_vars

\* "Tokens survive Control restarts via periodic flush to disk"
\* (tokenstore.go:37): a token that was flushed, and is neither used nor
\* expired, can be redeemed whenever Control is up.  This holds for the first
\* restart only: loading removes the file, so a second end of the process
\* before the next flush loses what survived the first.
SurvivesRestart ==
    up /\ restarts <= 1 =>
        \A t \in flushed : uses[t] = 0 /\ ~Expired(t) => t \in tokens

\* An expired token does not stay in memory, even if nobody ever redeems it.
ExpiredIsPurged ==
    \A t \in Token : (t \in tokens /\ Expired(t)) ~> t \notin tokens
=============================================================================
