------------------------------ MODULE LauncherUI ------------------------------
(***************************************************************************)
(* The launcher's window (frontend/src/App.tsx): its screens, the brand    *)
(* they are shown under, the confirmation dialog; the Go side that keeps   *)
(* the brand (app.go) and the connection loop a login starts               *)
(* (internal/control/wsclient.go).  A call runs beside the window; what it *)
(* emits and returns comes through one bridge, in order.                   *)
(***************************************************************************)
EXTENDS Integers, Sequences, FiniteSets

CONSTANTS
    Codes,     \* server codes
    None,
    MaxStarts, \* bound: calls of SetServerCode and logins that start a loop
    MaxBridge  \* bound: messages that wait when the player acts

ASSUME LauncherUIAssumption ==
    /\ None \notin Codes
    /\ MaxStarts \in Nat /\ MaxBridge \in Nat

Ops == {"refresh", "set", "clear"}
Loops == 1..MaxStarts
NoChan == 0
Tabs == {"login", "register", "other"}

VARIABLES
    \* the window
    screen,     \* "activate", "login", "main" or "settings"
    brand,      \* the brand it shows, by its code
    dialog,     \* the question the dialog asks: "none", "logout" or "switch"
    activating, \* ActivationScreen waits for SetServerCode
    leaving,    \* handleLogout waits for Logout
    tab,        \* of LoginScreen: "login", "register" or "other" (two more)
    call,       \* the tab whose call LoginScreen waits for
    switching,  \* the timer runs that goes from "register" to "login"
    bridge,     \* what the Go side has sent it
    \* the Go side
    goBrand,    \* App.brand
    serverCode, \* prefs.ServerCode
    op,         \* where the calls that change the brand are
    code,       \* the codes they are about
    sets,
    \* the connection loop
    wsOpened, wsStop, \* as in Client; the stop channel of the n-th loop is n
    closed,     \* the closed stop channels
    loop,       \* where a loop is; "lost" with a client that was replaced
    held,       \* the channel it waits on
    \* what the properties remember
    crossed,    \* two of the calls that change the brand overlapped
    strayed,    \* a login or logout returned after the brand had gone
    yanked,     \* that timer went off, or the screen went, in the midst of a call
    missed      \* the loops a logout found away from their stop channel

form   == <<tab, call, switching, yanked>>
window == <<screen, brand, dialog, activating, leaving, strayed>>
brands == <<goBrand, serverCode, op, code, sets, crossed>>
ws     == <<wsOpened, wsStop, closed, loop, held, missed>>
windowVars == <<window, form, bridge, brands, ws>>

Message(kind, c) == [kind |-> kind, code |-> c]

\* startup: the preferences, and the brand of their code if the cache has it.
WindowInit ==
    /\ screen = "activate" /\ brand = None /\ dialog = "none"
    /\ activating = FALSE /\ leaving = FALSE
    /\ tab = "login" /\ call = "none" /\ switching = FALSE /\ yanked = FALSE
    /\ serverCode \in Codes \cup {None}
    /\ goBrand \in {None, serverCode}
    /\ bridge = <<Message("got", goBrand)>>
    /\ op = [o \in Ops |-> IF o = "refresh" /\ serverCode # None THEN "fetch" ELSE "no"]
    /\ code = [o \in Ops |-> IF o = "refresh" THEN serverCode ELSE None]
    /\ sets = 0
    /\ wsOpened = FALSE /\ wsStop = NoChan /\ closed = {}
    /\ loop = [l \in Loops |-> "none"] /\ held = [l \in Loops |-> NoChan]
    /\ crossed = FALSE /\ strayed = FALSE /\ missed = {}

-----------------------------------------------------------------------------
(* The calls that change the brand.                                        *)

CanAct == Len(bridge) < MaxBridge
CanStart == sets + Cardinality({l \in Loops : loop[l] # "none"}) < MaxStarts

\* Another of them has begun and not yet said everything.
Overlaps(o) == \E p \in Ops \ {o} : op[p] # "no"

\* SetServerCode, on the activation screen.
Activate(c) ==
    /\ screen = "activate" /\ ~activating /\ op["set"] = "no" /\ CanAct /\ CanStart
    /\ activating' = TRUE
    /\ op' = [op EXCEPT !["set"] = "fetch"]
    /\ code' = [code EXCEPT !["set"] = c]
    /\ sets' = sets + 1
    /\ UNCHANGED <<screen, brand, dialog, leaving, strayed, form, bridge, goBrand, serverCode,
                   crossed, ws>>

\* The hub does not answer, or does not know the code.
FetchFails(o) ==
    /\ op[o] = "fetch"
    /\ op' = [op EXCEPT ![o] = "no"]
    /\ bridge' = IF o = "set" THEN Append(bridge, Message("notSet", None)) ELSE bridge
    /\ UNCHANGED <<window, form, goBrand, serverCode, code, sets, crossed, ws>>

\* With the lock: refreshBrand leaves the preferences alone.
ChangeBrand(o) ==
    /\ op[o] = IF o = "clear" THEN "call" ELSE "fetch"
    /\ goBrand' = IF o = "clear" THEN None ELSE code[o]
    /\ serverCode' = IF o = "refresh" THEN serverCode ELSE goBrand'
    /\ op' = [op EXCEPT ![o] = "emit"]
    /\ crossed' = (crossed \/ Overlaps(o))
    /\ UNCHANGED <<window, form, bridge, code, sets, ws>>

EmitBrand(o) ==
    /\ op[o] = "emit"
    /\ bridge' = Append(bridge, IF o = "clear" THEN Message("cleared", None)
                                ELSE Message("loaded", code[o]))
    /\ op' = [op EXCEPT ![o] = IF o = "set" THEN "return" ELSE "no"]
    /\ code' = [code EXCEPT !["refresh"] = IF o = "refresh" THEN None ELSE @]
    /\ UNCHANGED <<window, form, goBrand, serverCode, sets, crossed, ws>>

ReturnBrand ==
    /\ op["set"] = "return"
    /\ bridge' = Append(bridge, Message("set", code["set"]))
    /\ op' = [op EXCEPT !["set"] = "no"]
    /\ code' = [code EXCEPT !["set"] = None]
    /\ UNCHANGED <<window, form, goBrand, serverCode, sets, crossed, ws>>

-----------------------------------------------------------------------------
(* The window.                                                             *)

\* The navigation bar.
Navigate(s) ==
    /\ {screen, s} = {"main", "settings"}
    /\ screen' = s
    /\ UNCHANGED <<brand, dialog, activating, leaving, strayed, form, bridge, brands, ws>>

\* handleLogout and handleSwitchServer ask first.  The dialog does not keep the
\* keyboard from the buttons behind it; the question it asked is then lost.
AskFor(question) ==
    /\ screen = "settings" \/ (screen = "main" /\ question = "logout")
    /\ dialog' = question
    /\ UNCHANGED <<screen, brand, activating, leaving, strayed, form, bridge, brands, ws>>

AnswerNo ==
    /\ dialog # "none"
    /\ dialog' = "none"
    /\ UNCHANGED <<screen, brand, activating, leaving, strayed, form, bridge, brands, ws>>

ConfirmSwitch ==
    /\ dialog = "switch" /\ op["clear"] = "no" /\ CanAct
    /\ dialog' = "none"
    /\ op' = [op EXCEPT !["clear"] = "call"]
    /\ UNCHANGED <<screen, brand, activating, leaving, strayed, form, bridge, goBrand,
                   serverCode, code, sets, crossed, ws>>

\* Bug: the loop still counts as open.
DisconnectWSStaysOpen ==
    /\ closed' = closed \cup ({wsStop} \ {NoChan})
    /\ wsStop' = NoChan
    /\ missed' = missed \cup {l \in Loops : \/ loop[l] = "away"
                                            \/ loop[l] \in {"check", "sleep"} /\ held[l] = NoChan}
    /\ UNCHANGED wsOpened

\* Closes the stop channel and the connection.  A loop that dials or reads does
\* not see it: when it looks again wsStop is nil.
DisconnectWS ==
    /\ closed' = closed \cup ({wsStop} \ {NoChan})
    /\ wsStop' = NoChan
    /\ wsOpened' = FALSE
    /\ missed' = missed \cup {l \in Loops : \/ loop[l] = "away"
                                            \/ loop[l] \in {"check", "sleep"} /\ held[l] = NoChan}

ConfirmLogout ==
    /\ dialog = "logout" /\ ~leaving /\ CanAct
    /\ dialog' = "none"
    /\ leaving' = TRUE
    /\ DisconnectWS
    /\ bridge' = Append(bridge, Message("loggedOut", None))
    /\ UNCHANGED <<screen, brand, activating, strayed, form, brands, loop, held>>

\* saveURL: SetControlURL makes a new client, and nobody stops the old one's loop.
SaveURL ==
    /\ screen = "settings"
    /\ wsOpened' = FALSE /\ wsStop' = NoChan
    /\ loop' = [l \in Loops |-> IF loop[l] \in {"none", "ended"} THEN loop[l] ELSE "lost"]
    /\ held' = [l \in Loops |-> NoChan]
    /\ UNCHANGED <<window, form, bridge, brands, closed, missed>>

-----------------------------------------------------------------------------
(* The login screen.  What is typed is valid.                              *)

\* Every field, tab and button is disabled while a call runs.
FormEnabled == screen = "login" /\ call = "none"

\* Bug: the tabs are not locked.
ChooseTabAnyTime(t) ==
    /\ screen = "login" /\ t # tab
    /\ tab' = t
    /\ UNCHANGED <<window, call, switching, yanked, bridge, brands, ws>>

ChooseTab(t) ==
    /\ FormEnabled /\ t # tab
    /\ tab' = t
    /\ UNCHANGED <<window, call, switching, yanked, bridge, brands, ws>>

Submit ==
    /\ FormEnabled /\ CanAct
    /\ call' = tab
    /\ UNCHANGED <<window, tab, switching, yanked, bridge, brands, ws>>

CallReturns(kind) ==
    /\ \A n \in 1..Len(bridge) : bridge[n].kind \notin {"loggedIn", "registered", "answered"}
    /\ bridge' = Append(bridge, Message(kind, None))
    /\ UNCHANGED <<window, form, brands>>

\* A login is accepted; ConnectWS starts a loop unless one is open.
Login ==
    /\ call = "login"
    /\ CallReturns("loggedIn")
    /\ IF wsOpened
       THEN UNCHANGED ws
       ELSE \E l \in Loops :
               /\ CanStart /\ loop[l] = "none" /\ \A k \in Loops : k < l => loop[k] # "none"
               /\ wsOpened' = TRUE
               /\ wsStop' = l
               /\ loop' = [loop EXCEPT ![l] = "check"]
               /\ held' = [held EXCEPT ![l] = l]
               /\ UNCHANGED <<closed, missed>>

\* The other calls, and those that fail.
Answered ==
    /\ call # "none"
    /\ CallReturns("answered") \/ (call = "register" /\ CallReturns("registered"))
    /\ UNCHANGED ws

\* 900 ms after a registration the screen turns to the login tab.
SwitchTab ==
    /\ switching
    /\ switching' = FALSE
    /\ tab' = "login"
    /\ yanked' = (call \notin {"none", "login"})
    /\ UNCHANGED <<window, call, bridge, brands, ws>>

-----------------------------------------------------------------------------
(* What comes over the bridge.                                             *)

\* Bug: brand:cleared leaves the screen as it is.
GotoStays(m) ==
    CASE m.kind \in {"set", "loggedOut"} \/ (m.kind = "got" /\ m.code # None) -> "login"
      [] m.kind = "loggedIn" -> "main"
      [] OTHER               -> screen

\* Bug: no screen is drawn after a logout.
GotoNowhere(m) ==
    CASE m.kind = "set" \/ (m.kind = "got" /\ m.code # None) -> "login"
      [] m.kind = "loggedIn"  -> "main"
      [] m.kind = "loggedOut" -> "none"
      [] m.kind = "cleared"   -> "activate"
      [] OTHER                -> screen

\* Where a message takes the window; brand:loaded leaves it where it is.
Goto(m) ==
    CASE m.kind \in {"set", "loggedOut"} \/ (m.kind = "got" /\ m.code # None) -> "login"
      [] m.kind = "loggedIn" -> "main"
      [] m.kind = "cleared"  -> "activate"
      [] OTHER               -> screen

\* Bug: the brand is the one the activation screen was given.
ShownIgnoresClear(m) == IF m.code # None THEN m.code ELSE brand

\* The brand after a message.
Shown(m) ==
    IF m.kind = "cleared" \/ m.code # None THEN m.code ELSE brand

\* A call of the login screen returns, or the screen goes and forgets its tab.
FormAfter(m) ==
    /\ call' = IF m.kind \in {"loggedIn", "registered", "answered"} THEN "none" ELSE call
    /\ yanked' = (call' # "none" /\ (yanked \/ (screen = "login" /\ Goto(m) # "login")))
    /\ IF screen = "login" /\ Goto(m) # "login"
       THEN tab' = "login" /\ switching' = FALSE
       ELSE UNCHANGED tab /\ switching' = (switching \/ (m.kind = "registered" /\ screen = "login"))

Receive ==
    /\ bridge # <<>>
    /\ bridge' = Tail(bridge)
    /\ LET m == Head(bridge) IN
       /\ screen' = Goto(m)
       /\ brand' = Shown(m)
       /\ activating' = (activating /\ m.kind \notin {"set", "notSet"})
       /\ leaving' = (leaving /\ m.kind # "loggedOut")
       /\ UNCHANGED dialog
       /\ FormAfter(m)
       /\ strayed' = (brand = None /\ (strayed \/ m.kind \in {"loggedOut", "loggedIn"}))
    /\ UNCHANGED <<brands, ws>>

-----------------------------------------------------------------------------
(* The connection loop.  "check" and "sleep": in a select on the channel it  *)
(* holds, at the top and in the back-off; "away": it dials or reads.         *)

Stops(l) ==
    /\ loop[l] \in {"check", "sleep"} /\ held[l] \in closed
    /\ loop' = [loop EXCEPT ![l] = "ended"]
    /\ held' = [held EXCEPT ![l] = NoChan]
    /\ UNCHANGED <<window, form, bridge, brands, wsOpened, wsStop, closed, missed>>

Connects(l) ==
    /\ loop[l] = "check" /\ held[l] \notin closed
    /\ loop' = [loop EXCEPT ![l] = "away"]
    /\ held' = [held EXCEPT ![l] = NoChan]
    /\ UNCHANGED <<window, form, bridge, brands, wsOpened, wsStop, closed, missed>>

\* The dial fails, the connection breaks, or the back-off is over, which a
\* select prefers to a closed channel as it likes.
Looks(l) ==
    /\ \/ loop[l] = "away" /\ \E p \in {"sleep", "check"} : loop' = [loop EXCEPT ![l] = p]
       \/ loop[l] = "sleep" /\ loop' = [loop EXCEPT ![l] = "check"]
    /\ held' = [held EXCEPT ![l] = wsStop]
    /\ missed' = IF held[l] \in closed THEN missed \cup {l} ELSE missed
    /\ UNCHANGED <<window, form, bridge, brands, wsOpened, wsStop, closed>>

-----------------------------------------------------------------------------
\* No call is under way and everything has been received.
Quiet == bridge = <<>> /\ call = "none" /\ \A o \in Ops : op[o] = "no"

\* The bounds leave the player nothing to do.
Done ==
    /\ Quiet /\ ~CanStart
    /\ UNCHANGED windowVars

OpStep(o) == FetchFails(o) \/ ChangeBrand(o) \/ EmitBrand(o)

WindowNext ==
    \/ \E c \in Codes : Activate(c)
    \/ \E o \in Ops : OpStep(o)
    \/ ReturnBrand
    \/ \E s \in {"main", "settings"} : Navigate(s)
    \/ \E question \in {"logout", "switch"} : AskFor(question)
    \/ AnswerNo \/ ConfirmSwitch \/ ConfirmLogout \/ SaveURL
    \/ \E t \in Tabs : ChooseTab(t)
    \/ Submit \/ Login \/ Answered \/ SwitchTab \/ Receive
    \/ \E l \in Loops : Stops(l) \/ Connects(l) \/ Looks(l)
    \/ Done

\* Calls return, and what they send is received.
WindowSpec ==
    /\ WindowInit /\ [][WindowNext]_windowVars
    /\ \A o \in Ops : WF_windowVars(OpStep(o))
    /\ WF_windowVars(ReturnBrand) /\ WF_windowVars(Receive) /\ WF_windowVars(Answered)

-----------------------------------------------------------------------------
WindowTypeOK ==
    /\ screen \in {"activate", "login", "main", "settings"}
    /\ brand \in Codes \cup {None} /\ goBrand \in Codes \cup {None}
    /\ serverCode \in Codes \cup {None}
    /\ dialog \in {"none", "logout", "switch"}
    /\ activating \in BOOLEAN /\ leaving \in BOOLEAN /\ switching \in BOOLEAN
    /\ tab \in Tabs /\ call \in Tabs \cup {"none"}
    /\ op \in [Ops -> {"no", "fetch", "call", "emit", "return"}]
    /\ code \in [Ops -> Codes \cup {None}] /\ sets \in 0..MaxStarts
    /\ wsOpened \in BOOLEAN /\ wsStop \in Loops \cup {NoChan} /\ closed \subseteq Loops
    /\ loop \in [Loops -> {"none", "check", "away", "sleep", "ended", "lost"}]
    /\ held \in [Loops -> Loops \cup {NoChan}] /\ missed \subseteq Loops
    /\ crossed \in BOOLEAN /\ strayed \in BOOLEAN /\ yanked \in BOOLEAN

\* The window, the Go side and the preferences agree on the brand when nothing
\* is under way, unless calls that change it overlapped: a refresh that was under
\* way puts the brand back that the player has left (app.go:447).
SettledBrand == Quiet /\ ~crossed => brand = goBrand /\ goBrand \in {None, serverCode}

\* Only under a brand is there anything but the activation screen, whatever is
\* asked, answered and received meanwhile; except for a login or logout that
\* returns after the player has left the server.
ScreenNeedsBrand == screen # "activate" /\ brand = None => strayed

\* The loops that a logout did not miss and that will not find their channel
\* closed: one after a login, none after a logout (wsclient.go:171, "DisconnectWS
\* closes the WebSocket loop cleanly"); never a login without one.
OneLoopPerLogin ==
    LET good == {l \in Loops \ missed : loop[l] \notin {"none", "ended", "lost"} /\ held[l] \notin closed}
    IN Cardinality(good) = IF wsOpened THEN 1 ELSE 0

\* A call's answer is shown on the tab that made it: tabs are locked meanwhile;
\* except when the timer of a registration before turns the screen over, or the
\* screen is a new one.
AnswerOnItsTab == screen = "login" /\ call # "none" => tab = call \/ yanked
=============================================================================
