------------------------------ MODULE BanList ------------------------------
(***************************************************************************)
(* The gate's ban list (shiguang-gate/internal/defense/banlist.go): a map  *)
(* under a read-write mutex, read by every new connection, changed by the  *)
(* admin API and by commands from the hub, and written to a JSON file by a *)
(* background saver and by Close.                                          *)
(*                                                                         *)
(* A ban is its expiry time; reason and time of the ban decide nothing.    *)
(* The granularity is that of the locks: what a function does under one    *)
(* hold of the mutex is one step, and so is each file rename.              *)
(***************************************************************************)
EXTENDS Integers

CONSTANTS
    Ip,           \* the addresses
    Caller,       \* goroutines that call IsBanned, Ban or Unban
    Duration,     \* the durations of timed bans, in clock ticks
    MaxTime,      \* bound: the clock stops here
    MaxExits,     \* bound: how often the process may end
    SaveMayFail,  \* whether writing the file may fail in this instance
    WithClose     \* whether the instance calls Close

ASSUME BanListAssumption ==
    /\ Duration \subseteq Nat \ {0}
    /\ MaxTime \in Nat
    /\ MaxExits \in Nat
    /\ SaveMayFail \in BOOLEAN
    /\ WithClose \in BOOLEAN

NoBan     == -1     \* the address is not in the map
Permanent == -2     \* ExpiresAt is the zero time
Entry     == Nat \cup {NoBan, Permanent}
NoPromise == -3

VARIABLES
    up,         \* the gate runs
    now,        \* the clock
    bans,       \* BanList.banned
    file,       \* the contents of the ban file
    pc,         \* per caller: "idle", "decide" (IsBanned after RUnlock) or
                \* "trigger" (a change was made, triggerSave is next)
    target,     \* per caller: the address of its call
    seen,       \* per caller: the entry IsBanned read
    signal,     \* saveCh (capacity 1) is full
    pending,    \* saveLoop: the 1-second timer runs, or its save does
    saver,      \* the saver goroutine: "idle", "writing" or "stopped"
    saverSnap,  \* the entries the saver's save is writing
    closer,     \* Close: "open", "stopping", "writing" or "closed"
    closeSnap,  \* the entries Close's save is writing
    \* what the properties remember
    saveFailed, \* the last finished save failed
    exits,      \* how often the process ended
    promised    \* the entry that a save has written and nobody changed since

callers == <<pc, target, seen>>
saving  == <<pending, saver, saverSnap>>
closing == <<closer, closeSnap>>
history == <<saveFailed, exits, promised>>
vars == <<up, now, bans, file, callers, signal, saving, closing, history>>

-----------------------------------------------------------------------------
\* !ExpiresAt.IsZero() && time.Now().After(ExpiresAt)
Expired(e) == e >= 0 /\ now > e

\* What an entry is worth now: an expired one is as good as none.
Live(e) == IF Expired(e) THEN NoBan ELSE e

\* Two maps ban the same addresses for the same time.
Same(f, g) == \A ip \in Ip : Live(f[ip]) = Live(g[ip])

NoBans == [ip \in Ip |-> NoBan]
NoPromises == [ip \in Ip |-> NoPromise]

Init ==
    /\ up = TRUE
    /\ now = 0
    /\ bans = NoBans
    /\ file = NoBans
    /\ pc = [c \in Caller |-> "idle"]
    /\ target \in [Caller -> Ip]
    /\ seen = [c \in Caller |-> NoBan]
    /\ signal = FALSE
    /\ pending = FALSE
    /\ saver = "idle"
    /\ saverSnap = NoBans
    /\ closer = "open"
    /\ closeSnap = NoBans
    /\ saveFailed = FALSE
    /\ exits = 0
    /\ promised = NoPromises

-----------------------------------------------------------------------------
(* The callers.                                                              *)

\* IsBanned reads the entry under the read lock; without one it returns false.
Lookup(c, ip) ==
    /\ up
    /\ pc[c] = "idle"
    /\ bans[ip] # NoBan
    /\ pc' = [pc EXCEPT ![c] = "decide"]
    /\ target' = [target EXCEPT ![c] = ip]
    /\ seen' = [seen EXCEPT ![c] = bans[ip]]
    /\ UNCHANGED <<up, now, bans, file, signal, saving, closing, history>>

\* IsBanned, holding no lock, finds the entry it read in force: returns true.
FindBanned(c) ==
    /\ up
    /\ pc[c] = "decide"
    /\ ~Expired(seen[c])
    /\ pc' = [pc EXCEPT ![c] = "idle"]
    /\ seen' = [seen EXCEPT ![c] = NoBan]
    /\ UNCHANGED <<up, now, bans, file, target, signal, saving, closing, history>>

\* IsBanned finds the entry it read expired, takes the write lock and deletes
\* whatever the map holds for the address by now.
Evict(c) ==
    /\ up
    /\ pc[c] = "decide"
    /\ Expired(seen[c])
    /\ bans' = [bans EXCEPT ![target[c]] = NoBan]
    /\ pc' = [pc EXCEPT ![c] = "trigger"]
    /\ seen' = [seen EXCEPT ![c] = NoBan]
    /\ promised' = [promised EXCEPT ![target[c]] = NoPromise]
    /\ UNCHANGED <<up, now, file, target, signal, saving, closing, saveFailed, exits>>

\* Ban, for ever or for a duration.
Ban(c, ip) ==
    /\ up
    /\ pc[c] = "idle"
    /\ \E e \in {Permanent} \cup {now + d : d \in Duration} :
          bans' = [bans EXCEPT ![ip] = e]
    /\ pc' = [pc EXCEPT ![c] = "trigger"]
    /\ promised' = [promised EXCEPT ![ip] = NoPromise]
    /\ UNCHANGED <<up, now, file, target, seen, signal, saving, closing, saveFailed, exits>>

\* Unban; it only signals when there was an entry.
Unban(c, ip) ==
    /\ up
    /\ pc[c] = "idle"
    /\ bans[ip] # NoBan
    /\ bans' = [bans EXCEPT ![ip] = NoBan]
    /\ pc' = [pc EXCEPT ![c] = "trigger"]
    /\ promised' = [promised EXCEPT ![ip] = NoPromise]
    /\ UNCHANGED <<up, now, file, target, seen, signal, saving, closing, saveFailed, exits>>

\* Bug: saveCh is unbuffered, so a signal is lost while the saver saves.
TriggerUnbuffered(c) ==
    /\ up
    /\ pc[c] = "trigger"
    /\ signal' = (signal \/ saver = "idle")
    /\ pc' = [pc EXCEPT ![c] = "idle"]
    /\ UNCHANGED <<up, now, bans, file, target, seen, saving, closing, history>>

\* triggerSave: a send that never blocks on the one-place channel.
Trigger(c) ==
    /\ up
    /\ pc[c] = "trigger"
    /\ signal' = TRUE
    /\ pc' = [pc EXCEPT ![c] = "idle"]
    /\ UNCHANGED <<up, now, bans, file, target, seen, saving, closing, history>>

-----------------------------------------------------------------------------
(* The saver goroutine: saveLoop and its calls of save.                      *)

\* What a finished save stands for: the entries that memory still holds, unless
\* the other save is under way and its copy comes last.
Promise(written, other) ==
    [ip \in Ip |-> IF written[ip] = bans[ip] /\ other # "writing"
                   THEN written[ip] ELSE promised[ip]]

\* Two saves at a time stand for nothing until the second one has finished.
Begin(other) == IF other = "writing" THEN NoPromises ELSE promised

\* A signal starts the 1-second timer unless it runs already.
SaverSignalled ==
    /\ up
    /\ saver = "idle"
    /\ signal
    /\ signal' = FALSE
    /\ pending' = TRUE
    /\ UNCHANGED <<up, now, bans, file, callers, saver, saverSnap, closing, history>>

\* The timer fires: save copies the map under the read lock.
SaverTimer ==
    /\ up
    /\ saver = "idle"
    /\ pending
    /\ saver' = "writing"
    /\ saverSnap' = bans
    /\ promised' = Begin(closer)
    /\ UNCHANGED <<up, now, bans, file, callers, signal, pending, closing, saveFailed, exits>>

\* Bug: after its save the saver also drains the channel.
SaverWriteDrains ==
    /\ up
    /\ saver = "writing"
    /\ saver' = "idle"
    /\ saverSnap' = NoBans
    /\ pending' = FALSE
    /\ signal' = FALSE
    /\ file' = saverSnap
    /\ promised' = Promise(saverSnap, closer)
    /\ saveFailed' = FALSE
    /\ UNCHANGED <<up, now, bans, callers, closing, exits>>

\* The copy replaces the file, or a step of the write fails and the error is
\* dropped; either way nothing is pending any more.
SaverWrite ==
    /\ up
    /\ saver = "writing"
    /\ saver' = "idle"
    /\ saverSnap' = NoBans
    /\ pending' = FALSE
    /\ \/ /\ file' = saverSnap
          /\ promised' = Promise(saverSnap, closer)
          /\ saveFailed' = FALSE
       \/ /\ SaveMayFail
          /\ saveFailed' = TRUE
          /\ UNCHANGED <<file, promised>>
    /\ UNCHANGED <<up, now, bans, callers, signal, closing, exits>>

\* stopCh is closed: the goroutine ends.
SaverStop ==
    /\ up
    /\ saver = "idle"
    /\ closer # "open"
    /\ saver' = "stopped"
    /\ UNCHANGED <<up, now, bans, file, callers, signal, pending, saverSnap, closing, history>>

-----------------------------------------------------------------------------
(* Close, the end of the process and the next start.                         *)

CloseStop ==
    /\ up
    /\ WithClose
    /\ closer = "open"
    /\ closer' = "stopping"
    /\ UNCHANGED <<up, now, bans, file, callers, signal, saving, closeSnap, history>>

CloseCopy ==
    /\ up
    /\ closer = "stopping"
    /\ closer' = "writing"
    /\ closeSnap' = bans
    /\ promised' = Begin(saver)
    /\ UNCHANGED <<up, now, bans, file, callers, signal, saving, saveFailed, exits>>

CloseWrite ==
    /\ up
    /\ closer = "writing"
    /\ closer' = "closed"
    /\ \/ /\ file' = closeSnap
          /\ promised' = Promise(closeSnap, saver)
          /\ saveFailed' = FALSE
       \/ /\ SaveMayFail
          /\ saveFailed' = TRUE
          /\ UNCHANGED <<file, promised>>
    /\ UNCHANGED <<up, now, bans, callers, signal, saving, closeSnap, exits>>

\* The process ends, after Close or by a crash, and its memory is gone.  A save
\* that was under way leaves the file as it was: the rename is what counts.
Exit ==
    /\ up
    /\ exits < MaxExits
    /\ up' = FALSE
    /\ exits' = exits + 1
    /\ bans' = NoBans
    /\ pc' = [c \in Caller |-> "idle"]
    /\ seen' = [c \in Caller |-> NoBan]
    /\ signal' = FALSE
    /\ pending' = FALSE
    /\ saver' = "idle"
    /\ saverSnap' = NoBans
    /\ closer' = "open"
    /\ closeSnap' = NoBans
    /\ saveFailed' = FALSE
    /\ UNCHANGED <<now, file, target, promised>>

\* Bug: load keeps only the permanent bans.
StartDropsTimed ==
    /\ ~up
    /\ up' = TRUE
    /\ bans' = [ip \in Ip |-> IF file[ip] = Permanent THEN Permanent ELSE NoBan]
    /\ UNCHANGED <<now, file, callers, signal, saving, closing, history>>

\* NewBanList: load skips the entries that have expired; saveLoop starts.
Start ==
    /\ ~up
    /\ up' = TRUE
    /\ bans' = [ip \in Ip |-> Live(file[ip])]
    /\ UNCHANGED <<now, file, callers, signal, saving, closing, history>>

Tick ==
    /\ now < MaxTime
    /\ now' = now + 1
    /\ UNCHANGED <<up, bans, file, callers, signal, saving, closing, history>>

Next ==
    \/ \E c \in Caller, ip \in Ip : Lookup(c, ip) \/ Ban(c, ip) \/ Unban(c, ip)
    \/ \E c \in Caller : FindBanned(c) \/ Evict(c) \/ Trigger(c)
    \/ SaverSignalled \/ SaverTimer \/ SaverWrite \/ SaverStop
    \/ CloseStop \/ CloseCopy \/ CloseWrite
    \/ Exit \/ Start \/ Tick

\* Goroutines that can run do: a caller finishes its call, the saver serves its
\* channel, its timer fires and its write ends.  Calls, Close and Exit may or
\* may not happen.
Fairness ==
    /\ \A c \in Caller : WF_vars(Trigger(c))
    /\ WF_vars(SaverSignalled)
    /\ WF_vars(SaverTimer)
    /\ WF_vars(SaverWrite)

Spec == Init /\ [][Next]_vars /\ Fairness

-----------------------------------------------------------------------------
TypeOK ==
    /\ up \in BOOLEAN
    /\ now \in 0..MaxTime
    /\ bans \in [Ip -> Entry]
    /\ file \in [Ip -> Entry]
    /\ pc \in [Caller -> {"idle", "decide", "trigger"}]
    /\ target \in [Caller -> Ip]
    /\ seen \in [Caller -> Entry]
    /\ \A c \in Caller : pc[c] = "decide" => seen[c] # NoBan
    /\ signal \in BOOLEAN
    /\ pending \in BOOLEAN
    /\ saver \in {"idle", "writing", "stopped"}
    /\ saverSnap \in [Ip -> Entry]
    /\ closer \in {"open", "stopping", "writing", "closed"}
    /\ closeSnap \in [Ip -> Entry]
    /\ saveFailed \in BOOLEAN
    /\ exits \in 0..MaxExits
    /\ promised \in [Ip -> Entry \cup {NoPromise}]

\* A change that the saver has still to hear of.
Announced == signal \/ \E c \in Caller : pc[c] = "trigger"

\* No change is forgotten: while the saver runs, whenever the file bans other
\* addresses than memory does, a save is pending or will be, unless the last
\* save failed (saveLoop drops that error and does not try again).
DirtyIsTracked ==
    up /\ closer = "open" /\ ~Same(file, bans) => pending \/ Announced \/ saveFailed

\* A ban reaches the file, unless it is changed or runs out first, the gate
\* stops or the write fails.
BanIsSaved ==
    \A ip \in Ip, e \in {Permanent} \cup {t + d : t \in 0..MaxTime, d \in Duration} :
        (up /\ bans[ip] = e) ~>
            \/ file[ip] = e
            \/ bans[ip] # e \/ Expired(e)
            \/ ~up \/ closer # "open" \/ saveFailed

\* What a save has written and nobody changed since stays in force until it
\* runs out, through saves that fail, Close, a crash and the next start.  The
\* exception is Close saving while the saver does: the older copy may come last.
SavedSurvives ==
    up =>
        \A ip \in Ip : promised[ip] # NoPromise => Live(bans[ip]) = Live(promised[ip])

\* "Ban adds or updates a ban.  If duration is zero, the ban is permanent"
\* (banlist.go:67): a ban in force leaves the map only through Unban.
\* False of the code: IsBanned may delete a ban that has replaced the expired one
\* it found.
BanStaysInForce ==
    [][\A ip \in Ip :
          up /\ Live(bans[ip]) # NoBan /\ bans'[ip] = NoBan /\ up' =>
              \E c \in Caller : Unban(c, ip)]_vars
=============================================================================
