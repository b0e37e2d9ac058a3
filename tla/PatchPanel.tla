------------------------------ MODULE PatchPanel ------------------------------
(***************************************************************************)
(* The launcher's main screen (MainScreen of frontend/src/App.tsx) with    *)
(* the patch jobs behind it (App.StartPatch of app.go), and the client     *)
(* path of the settings screen, without which neither works.  What the Go  *)
(* side says comes to the screen through one queue, in order; a screen     *)
(* that was left has forgotten everything and hears nothing.               *)
(***************************************************************************)
EXTENDS Integers, Sequences, FiniteSets

CONSTANTS
    Paths,     \* client paths that validateClientPath accepts
    NoPath,    \* an empty one, or one it rejects
    MaxJobs,   \* bound: calls of StartPatch
    MaxEvents, \* bound: events that wait when a job reports progress
    MaxEdits   \* bound: edits of the path

Jobs == 1..MaxJobs
NoJob == 0
Nothing == "nothing"

ASSUME PatchPanelAssumption ==
    /\ NoPath \notin Paths
    /\ {Nothing, "asked"} \cap (Paths \cup {NoPath}) = {} \* what is no path
    /\ MaxJobs \in Nat /\ MaxEvents \in Nat /\ MaxEdits \in Nat

VARIABLES
    onScreen,    \* "main" or "settings"
    \* the main screen
    patchPhase,  \* "none", "busy" (the phases that disable the button), "other"
                 \* (those of the chunked pipeline, retrying, up_to_date),
                 \* "complete" or "error"
    error,       \* there is an error text
    asking,      \* the dialog launch waits for: "none", "path" or "patch"
    launching,
    offered,     \* what the control's configuration has for the selected server:
                 \* "noServer" (also before it has come), "noPath" or "path"
    \* the Go side
    job,         \* where a call of StartPatch and its job are
    cancelled,   \* the jobs whose context is cancelled
    patchCancel, \* the job that it cancels
    events,      \* what waits for the screen
    saved,       \* prefs.ClientPaths
    \* the settings screen
    draft,       \* the path in the field
    timer,       \* what the debounce timer is to save
    saves,       \* calls of SetClientPath under way
    prefs,       \* the call of GetPrefs: Nothing, "asked" or what it read
    edits,
    \* what the properties remember
    orphaned,    \* jobs whose cancel function another job's end dropped
    verdict,     \* how the last job ended
    overtook     \* saves overtook each other, or crossed the call of GetPrefs

panel    == <<patchPhase, error, asking, launching>>
jobs     == <<job, cancelled, patchCancel, orphaned, verdict>>
settings == <<saved, draft, timer, saves, prefs, edits, overtook>>
panelVars == <<onScreen, panel, offered, jobs, events, settings>>

PanelInit ==
    /\ onScreen = "main"
    /\ patchPhase = "none" /\ error = FALSE /\ asking = "none" /\ launching = FALSE
    /\ offered \in {"noServer", "noPath", "path"}
    /\ job = [k \in Jobs |-> "none"] /\ cancelled = {} /\ patchCancel = NoJob
    /\ events = <<>>
    /\ saved \in Paths \cup {NoPath}
    /\ draft = NoPath /\ timer = Nothing /\ saves = {} /\ prefs = Nothing /\ edits = 0
    /\ orphaned = {} /\ verdict = "none" /\ overtook = FALSE

-----------------------------------------------------------------------------
(* The patch button and its jobs.                                          *)

Blocked == launching \/ patchPhase = "busy"

\* "Check / download", or "retry", which is there after an error.
Click(k) ==
    /\ onScreen = "main"
    /\ ~Blocked \/ (patchPhase = "error" /\ error)
    /\ job[k] = "none" /\ \A j \in Jobs : j < k => job[j] # "none"
    /\ job' = [job EXCEPT ![k] = "fetch"]
    /\ error' = FALSE
    /\ UNCHANGED <<onScreen, patchPhase, asking, launching, offered, cancelled, patchCancel, events,
                   orphaned, verdict, settings>>

\* There is no client path, or the control does not answer.
Refuse(k) ==
    /\ job[k] = "fetch"
    /\ job' = [job EXCEPT ![k] = "done"]
    /\ events' = Append(events, "refused")
    /\ UNCHANGED <<onScreen, panel, offered, cancelled, patchCancel, orphaned, verdict, settings>>

\* Bug: the job before goes on.
RegisterBeside(k) ==
    /\ job[k] = "fetch" /\ saved # NoPath
    /\ job' = [job EXCEPT ![k] = "run"]
    /\ patchCancel' = k
    /\ UNCHANGED <<onScreen, panel, offered, cancelled, events, orphaned, verdict, settings>>

\* The configuration has come; the job before this one is cancelled.
Register(k) ==
    /\ job[k] = "fetch" /\ saved # NoPath
    /\ job' = [job EXCEPT ![k] = "run"]
    /\ cancelled' = cancelled \cup ({patchCancel} \ {NoJob})
    /\ patchCancel' = k
    /\ UNCHANGED <<onScreen, panel, offered, events, orphaned, verdict, settings>>

Progress(k) ==
    /\ job[k] = "run" /\ Len(events) < MaxEvents
    /\ \E e \in {"busy", "other"} : events' = Append(events, e)
    /\ UNCHANGED <<onScreen, panel, offered, jobs, settings>>

\* Run returns; a cancelled one may still have finished.
End(k) ==
    /\ job[k] = "run"
    /\ job' = [job EXCEPT ![k] = "said"]
    /\ \E e \in {"complete", "error"} : events' = Append(events, e) /\ verdict' = e
    /\ UNCHANGED <<onScreen, panel, offered, cancelled, patchCancel, orphaned, settings>>

\* The deferred end of the job, whose cancel function need not be its own.
Forget(k) ==
    /\ job[k] = "said"
    /\ job' = [job EXCEPT ![k] = "done"]
    /\ patchCancel' = NoJob
    /\ orphaned' = orphaned \cup ({patchCancel} \ {NoJob, k})
    /\ UNCHANGED <<onScreen, panel, offered, cancelled, verdict, events, settings>>

\* Bug: only progress changes what the panel shows.
ShowPhaseUnlessComplete(e) ==
    /\ patchPhase' = IF e \in {"refused", "complete"} THEN patchPhase ELSE e
    /\ error' = (error \/ e \in {"refused", "error"})

ShowPhase(e) ==
    /\ patchPhase' = IF e = "refused" THEN patchPhase ELSE e
    /\ error' = (error \/ e \in {"refused", "error"})

\* The screen takes the next event, if it is there.
Deliver ==
    /\ events # <<>>
    /\ events' = Tail(events)
    /\ IF onScreen = "main" THEN ShowPhase(Head(events)) ELSE UNCHANGED <<patchPhase, error>>
    /\ UNCHANGED <<onScreen, asking, launching, offered, jobs, settings>>

-----------------------------------------------------------------------------
(* The launch button.                                                      *)

\* It looks for the server and its client path in the control's configuration;
\* when there was no patch run it asks whether to go on.
Launch ==
    /\ onScreen = "main" /\ ~launching
    /\ error' = FALSE
    /\ asking' = CASE offered = "noPath" -> "path"
                   [] offered = "path" /\ patchPhase \in {"none", "error"} -> "patch"
                   [] OTHER -> "none"
    /\ launching' = (offered = "path" /\ asking' = "none")
    /\ UNCHANGED <<onScreen, patchPhase, offered, jobs, events, settings>>

Answer(yes) ==
    /\ asking # "none"
    /\ launching' = (launching \/ (yes /\ asking = "patch"))
    /\ asking' = "none"
    /\ UNCHANGED <<onScreen, patchPhase, error, offered, jobs, events, settings>>

\* LaunchGame returns; without a path of its own it fails.
Launched ==
    /\ launching
    /\ launching' = FALSE
    /\ \/ saved # NoPath /\ UNCHANGED error
       \/ error' = TRUE
    /\ UNCHANGED <<onScreen, patchPhase, asking, offered, jobs, events, settings>>

-----------------------------------------------------------------------------
(* The client path of the settings screen.                                 *)

\* The main screen goes, and with it what it showed; GetPrefs is called.
OpenSettings ==
    /\ onScreen = "main"
    /\ onScreen' = "settings"
    /\ patchPhase' = "none" /\ error' = FALSE /\ asking' = "none" /\ launching' = FALSE
    /\ draft' = NoPath
    /\ prefs' = "asked"
    /\ overtook' = (saves # {})
    /\ UNCHANGED <<offered, jobs, events, saved, timer, saves, edits>>

\* The timer is cleared: what was typed within the last 600 ms is not saved.
OpenMain ==
    /\ onScreen = "settings"
    /\ onScreen' = "main"
    /\ timer' = Nothing /\ draft' = NoPath /\ prefs' = Nothing
    /\ UNCHANGED <<panel, offered, jobs, events, saved, saves, edits, overtook>>

ReadPrefs ==
    /\ prefs = "asked"
    /\ prefs' = saved
    /\ UNCHANGED <<onScreen, panel, offered, jobs, events, saved, draft, timer, saves, edits, overtook>>

ShowPrefs ==
    /\ prefs \notin {Nothing, "asked"}
    /\ draft' = prefs
    /\ prefs' = Nothing
    /\ UNCHANGED <<onScreen, panel, offered, jobs, events, saved, timer, saves, edits, overtook>>

\* Bug: the timer that runs is kept, with the text it was started for.
EditKeepsTimer(p) ==
    /\ onScreen = "settings" /\ edits < MaxEdits
    /\ edits' = edits + 1
    /\ draft' = p
    /\ timer' = IF timer = Nothing THEN p ELSE timer
    /\ overtook' = (prefs # Nothing \/ saves # {})
    /\ UNCHANGED <<onScreen, panel, offered, jobs, events, saved, saves, prefs>>

\* savePathDebounced: the timer starts anew.
Edit(p) ==
    /\ onScreen = "settings" /\ edits < MaxEdits
    /\ edits' = edits + 1
    /\ draft' = p
    /\ timer' = p
    /\ overtook' = (prefs # Nothing \/ saves # {})
    /\ UNCHANGED <<onScreen, panel, offered, jobs, events, saved, saves, prefs>>

\* After 600 ms; a path that is not valid, the empty one too, is not saved.
Save ==
    /\ timer # Nothing
    /\ timer' = Nothing
    /\ saves' = IF timer = NoPath THEN saves ELSE saves \cup {timer}
    /\ UNCHANGED <<onScreen, panel, offered, jobs, events, saved, draft, prefs, edits, overtook>>

\* Calls of SetClientPath run side by side.
SetClientPath(p) ==
    /\ p \in saves
    /\ saves' = saves \ {p}
    /\ saved' = p
    /\ UNCHANGED <<onScreen, panel, offered, jobs, events, draft, timer, prefs, edits, overtook>>

-----------------------------------------------------------------------------
JobStep(k) == Refuse(k) \/ Register(k) \/ Progress(k) \/ End(k) \/ Forget(k)

PanelNext ==
    \/ \E k \in Jobs : Click(k) \/ JobStep(k)
    \/ Deliver
    \/ Launch \/ Launched \/ \E yes \in BOOLEAN : Answer(yes)
    \/ OpenSettings \/ OpenMain \/ ReadPrefs \/ ShowPrefs \/ Save
    \/ \E p \in Paths \cup {NoPath} : Edit(p) \/ SetClientPath(p)

\* Calls return, a job's requests have a time limit, events reach the screen.
PanelSpec ==
    /\ PanelInit /\ [][PanelNext]_panelVars
    /\ \A k \in Jobs : WF_panelVars(Refuse(k) \/ Register(k)) /\ WF_panelVars(End(k)) /\ WF_panelVars(Forget(k))
    /\ WF_panelVars(Deliver)

-----------------------------------------------------------------------------
\* "cancel any previous patch" (app.go:293): the button is free in the phases of
\* the chunked pipeline, so jobs overlap, and two that both go on write the same
\* files.  Only the job that patchCancel holds goes on, except one whose cancel
\* function the deferred end of an older job has dropped (app.go:301).
OneJobGoesOn ==
    \A k \in Jobs \ (cancelled \cup orphaned) : job[k] = "run" => patchCancel = k

\* When all jobs have ended and their events have come the panel shows how the
\* last one ended, or nothing when it was not there to hear it: never the phase
\* of a job that is gone, which would hide the retry or keep the button blocked.
SettledStatus ==
    events = <<>> /\ (\A k \in Jobs : job[k] # "run") => patchPhase \in {"none", verdict}

\* What the settings screen shows is what is saved once nothing is under way,
\* unless saves overtook each other or crossed the reading of the preferences.
SettledPath ==
    onScreen = "settings" /\ prefs = Nothing /\ timer = Nothing /\ saves = {} /\ ~overtook
        => draft \in {saved, NoPath}

\* The panel does not stay busy: every job ends and says so, however often the
\* player clicks, leaves and returns.
PatchSettles == <>[](patchPhase \in {"none", "complete", "error"})
=============================================================================
