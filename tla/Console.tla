------------------------------- MODULE Console -------------------------------
(***************************************************************************)
(* The operator's console (shiguang-hub/admin-spa): the session of         *)
(* useAuth, the pages with their lists, forms and modals, and the requests *)
(* of api.js with their retries, over the tenant API of the hub.  A page   *)
(* that is left forgets its state; its requests run on, and what comes     *)
(* back to it is ignored.  One console, one agent per account.             *)
(***************************************************************************)
EXTENDS Integers, FiniteSets

CONSTANTS
    Accounts,
    None,
    Codes,       \* invite codes an operator may think of
    Retries,     \* attempts after the first; 2 in the code
    MaxRequests, \* bound: requests under way
    MaxWrites    \* bound: writes the operator asks for

ASSUME ConsoleAssumption ==
    /\ None \notin Accounts
    /\ Retries \in Nat /\ MaxRequests \in Nat \ {0} /\ MaxWrites \in Nat

Pages == {"dashboard", "servers", "codes", "agents", "branding", "settings"}
Reads == {"lines", "codes", "agents", "theme"}
Writes == {"create", "update", "deleteLine", "createCode", "deleteCode", "saveTheme", "rotate"}
Slots == 1..MaxRequests

VARIABLES
    \* the session
    token,    \* whose token api.js holds
    authed,
    tenant,   \* the account it shows
    loading,
    \* the page
    page,     \* the route, which a sign-out leaves
    loaded,   \* its list, or theme, is not null
    shown,    \* the list, or the theme
    form,     \* the form of server lines is open
    editing,  \* the line it edits
    target,   \* the item its modal is about
    newKey,   \* the key it displays
    busy,     \* submitting, saving; of Login: loading
    \* the requests
    req,
    \* the hub
    lines, codes, theme, agentKey,
    \* what the properties remember
    writes,   \* writes the operator has asked for
    made,     \* server lines made
    due,      \* those still due: one for each form opened, for each answer lost;
              \* no more are counted than there can be writes
    strayed,  \* an earlier session's getMe was answered in this one
    spoilt,   \* the page's list is not that of a load by itself
    doubled   \* two rotations were under way at once

session == <<token, authed, tenant, loading, strayed>>
list    == <<page, loaded, shown>>
lineForm == <<form, editing>>
modal   == <<target, newKey, doubled>>
view    == <<list, lineForm, modal, busy, spoilt>>
tables  == <<lines, codes, theme, agentKey, made>>
notes   == <<writes, due>>
consoleVars == <<session, view, req, tables, notes>>

-----------------------------------------------------------------------------
(* Requests.                                                               *)

Idle == [kind |-> "none", who |-> None, arg |-> {}, live |-> FALSE, tries |-> 0,
         state |-> "none", data |-> {}, did |-> FALSE]

\* The token is read once, at the start.
Request(kind, who, arg) ==
    [kind |-> kind, who |-> who, arg |-> arg, live |-> TRUE, tries |-> 0,
     state |-> "sent", data |-> {}, did |-> FALSE]

Free(r) == {s \in Slots : r[s] = Idle}

Put(r, q) == [r EXCEPT ![CHOOSE s \in Free(r) : TRUE] = q]

\* Bug: the answers reach whatever page is there.
OrphanStaysLive(r, all) ==
    [s \in Slots |-> IF r[s].kind \in Reads THEN Idle
                     ELSE IF all /\ r[s].kind = "me" THEN [r[s] EXCEPT !.live = FALSE]
                     ELSE r[s]]

\* The component that waited is gone, the page or all: what was read is ignored
\* when it comes, so it need not come; the rest runs on.
Orphan(r, all) ==
    [s \in Slots |-> IF r[s].kind \in Reads THEN Idle
                     ELSE IF all \/ r[s].kind # "me" THEN [r[s] EXCEPT !.live = FALSE]
                     ELSE r[s]]

LoadOf(p) ==
    CASE p \in {"dashboard", "servers"} -> "lines"
      [] p = "branding" -> "theme"
      [] OTHER -> p

\* The requests of a page that appears.
Mount(r, p, a) == IF p = "settings" THEN r ELSE Put(r, Request(LoadOf(p), a, {}))

\* A page's state when it appears, or is gone.
Blank ==
    /\ loaded' = FALSE /\ shown' = {}
    /\ form' = FALSE /\ editing' = {} /\ target' = {} /\ newKey' = {}
    /\ busy' = FALSE /\ spoilt' = FALSE /\ doubled' = FALSE

ConsoleInit ==
    /\ token \in Accounts \cup {None}
    /\ authed = (token # None) /\ loading = authed /\ tenant = None
    /\ page \in Pages /\ loaded = FALSE /\ shown = {}
    /\ form = FALSE /\ editing = {} /\ target = {} /\ newKey = {} /\ busy = FALSE
    /\ req = LET none == [s \in Slots |-> Idle] IN
             IF authed THEN Put(none, Request("me", token, {})) ELSE none
    /\ lines = [a \in Accounts |-> {}] /\ codes = [a \in Accounts |-> {}]
    /\ theme = [a \in Accounts |-> {"own"}] /\ agentKey = [a \in Accounts |-> 0]
    /\ writes = 0 /\ made = 0 /\ due = 0
    /\ strayed = FALSE /\ spoilt = FALSE /\ doubled = FALSE

OneMore == IF due < MaxWrites THEN due + 1 ELSE due

\* No answer to a write comes: the network fails before or after the hub acts.
\* request sends it again; so it does with what is read, to no effect but delay.
Lose(s) ==
    LET q == req[s]
        last == q.tries = Retries
    IN
    /\ q.kind \in Writes /\ q.state \in {"sent", "ok"}
    /\ req' = [req EXCEPT ![s].state = IF last THEN "failed" ELSE "sent",
                          ![s].tries = IF last THEN 0 ELSE q.tries + 1,
                          ![s].data = {}]
    /\ due' = IF q.kind = "create" /\ q.state = "ok" THEN OneMore ELSE due
    /\ UNCHANGED <<session, view, tables, writes>>

\* The hub refuses: a token that is no longer valid, a limit, a conflict; or what
\* is read does not come.
Deny(s) ==
    /\ req[s].state = "sent"
    /\ req' = [req EXCEPT ![s].state = "failed", ![s].tries = 0]
    /\ UNCHANGED <<session, view, tables, notes>>

-----------------------------------------------------------------------------
(* The hub's handlers.                                                     *)

ListOf(kind, a) ==
    CASE kind = "lines"  -> lines[a]
      [] kind = "codes"  -> codes[a]
      [] kind = "agents" -> {a}
      [] kind = "theme"  -> theme[a]
      [] OTHER -> {}

ServeRead(s) ==
    /\ req[s].state = "sent" /\ req[s].kind \in Reads \cup {"me", "login", "password"}
    /\ req' = [req EXCEPT ![s].state = "ok", ![s].data = ListOf(req[s].kind, req[s].who)]
    /\ UNCHANGED <<session, view, tables, notes>>

Asked(s, kind) == req[s].state = "sent" /\ req[s].kind = kind

\* What is the same in all writes: a page that did not ask for it is not told.
Served(s, data) ==
    /\ req' = [req EXCEPT ![s].state = "ok", ![s].data = data, ![s].did = TRUE]
    /\ spoilt' = (spoilt \/ ~req[s].live)
    /\ UNCHANGED <<session, list, lineForm, modal, busy, writes>>

CreateLine(s) ==
    /\ Asked(s, "create")
    /\ Served(s, {})
    /\ made' = made + 1 /\ due' = due - 1
    /\ lines' = [lines EXCEPT ![req[s].who] = @ \cup {<<made', "new">>}]
    /\ UNCHANGED <<codes, theme, agentKey>>

UpdateLine(s) ==
    LET a == req[s].who
        old == {l \in lines[a] : l[1] \in req[s].arg}
    IN
    /\ Asked(s, "update") /\ old # {}
    /\ Served(s, {})
    /\ lines' = [lines EXCEPT ![a] = (@ \ old) \cup {<<l[1], "edited">> : l \in old}]
    /\ UNCHANGED <<codes, theme, agentKey, made, due>>

DeleteLine(s) ==
    LET a == req[s].who
        old == {l \in lines[a] : \E t \in req[s].arg : l[1] = t[1]}
    IN
    /\ Asked(s, "deleteLine") /\ old # {}
    /\ Served(s, {})
    /\ lines' = [lines EXCEPT ![a] = @ \ old]
    /\ UNCHANGED <<codes, theme, agentKey, made, due>>

\* A code has one owner.
CreateCode(s) ==
    /\ Asked(s, "createCode") /\ \A a \in Accounts : req[s].arg \cap codes[a] = {}
    /\ Served(s, {})
    /\ codes' = [codes EXCEPT ![req[s].who] = @ \cup req[s].arg]
    /\ UNCHANGED <<lines, theme, agentKey, made, due>>

DeleteCode(s) ==
    /\ Asked(s, "deleteCode") /\ req[s].arg \subseteq codes[req[s].who]
    /\ Served(s, {})
    /\ codes' = [codes EXCEPT ![req[s].who] = @ \ req[s].arg]
    /\ UNCHANGED <<lines, theme, agentKey, made, due>>

UpdateTheme(s) ==
    /\ Asked(s, "saveTheme")
    /\ Served(s, {})
    /\ theme' = [theme EXCEPT ![req[s].who] = req[s].arg]
    /\ UNCHANGED <<lines, codes, agentKey, made, due>>

RotateAgentKey(s) ==
    /\ Asked(s, "rotate")
    /\ agentKey' = [agentKey EXCEPT ![req[s].who] = @ + 1]
    /\ Served(s, {agentKey'[req[s].who]})
    /\ UNCHANGED <<lines, codes, theme, made, due>>

-----------------------------------------------------------------------------
(* The session.                                                            *)

SignIn(a) ==
    /\ ~authed /\ ~loading /\ ~busy /\ Free(req) # {}
    /\ busy' = TRUE
    /\ req' = Put(req, Request("login", a, {}))
    /\ UNCHANGED <<session, list, lineForm, modal, spoilt, tables, notes>>

Answered(s, kinds) ==
    /\ req[s].kind \in kinds /\ req[s].state \in {"ok", "failed"}

\* The page appears and loads, and the effect on authed calls getMe.
ReceiveLogin(s) ==
    LET a == req[s].who
        rest == [req EXCEPT ![s] = Idle]
    IN
    /\ Answered(s, {"login"})
    /\ IF req[s].state = "ok"
       THEN /\ Cardinality(Free(rest)) >= 2
            /\ token' = a /\ authed' = TRUE
            /\ req' = Put(Mount(rest, page, a), Request("me", a, {}))
            /\ Blank
            /\ UNCHANGED <<tenant, loading, strayed, page>>
       ELSE /\ req' = rest
            /\ busy' = FALSE
            /\ UNCHANGED <<session, list, lineForm, modal, spoilt>>
    /\ UNCHANGED <<tables, notes>>

\* Bug: what it shows of the account stays.
SignedOutKeepsTenant ==
    /\ token' = None /\ authed' = FALSE /\ UNCHANGED tenant
    /\ strayed' = FALSE
    /\ Blank

\* The token and the account are forgotten; only Login is left.
SignedOut ==
    /\ token' = None /\ authed' = FALSE /\ tenant' = None
    /\ strayed' = FALSE
    /\ Blank

\* loadTenant: any error ends the session, whichever session that is.
ReceiveMe(s) ==
    LET rest == [req EXCEPT ![s] = Idle] IN
    /\ Answered(s, {"me"})
    /\ loading' = FALSE
    /\ IF req[s].state = "ok"
       THEN /\ tenant' = req[s].who
            /\ strayed' = ~req[s].live
            /\ req' = IF loading THEN Mount(rest, page, token) ELSE rest
            /\ UNCHANGED <<token, authed, view>>
       ELSE IF authed
       THEN SignedOut /\ req' = Orphan(rest, TRUE) /\ UNCHANGED page
       ELSE tenant' = None /\ strayed' = FALSE /\ req' = rest /\ UNCHANGED <<token, authed, view>>
    /\ UNCHANGED <<tables, notes>>

Mounted == authed /\ ~loading

\* A modal covers the page and the navigation.
Uncovered == Mounted /\ target = {} /\ newKey = {}

\* The settings page has the button.
Logout ==
    /\ Uncovered /\ page = "settings"
    /\ SignedOut
    /\ req' = Orphan(req, TRUE)
    /\ UNCHANGED <<loading, page, tables, notes>>

Navigate(p) ==
    /\ Uncovered /\ p # page /\ (p = "settings" \/ Free(req) # {})
    /\ page' = p
    /\ req' = Mount(Orphan(req, FALSE), p, token)
    /\ Blank
    /\ UNCHANGED <<session, tables, notes>>

-----------------------------------------------------------------------------
(* Loading.                                                                *)

LoadUnderWay(r) == \E s \in Slots : r[s].kind \in Reads

\* The timers of the dashboard and the agents page, and their buttons, load
\* anew whether or not a load is under way.
Poll ==
    /\ Mounted /\ page \in {"dashboard", "agents"} /\ Free(req) # {}
    /\ req' = Mount(req, page, token)
    /\ spoilt' = LoadUnderWay(req)
    /\ UNCHANGED <<session, list, lineForm, modal, busy, tables, notes>>

\* An empty list of server lines comes as null.  When a load fails the list is
\* empty, the theme the default one; the agents stay.
ReceiveLoad(s) ==
    LET q == req[s] IN
    /\ Answered(s, Reads)
    /\ req' = [req EXCEPT ![s] = Idle]
    /\ shown' = IF q.state = "ok" THEN q.data
                ELSE IF q.kind = "agents" THEN shown
                ELSE {t \in {"default"} : q.kind = "theme"}
    /\ loaded' = ~(q.state = "ok" /\ q.kind = "lines" /\ q.data = {})
    /\ spoilt' = (spoilt \/ q.state = "failed")
    /\ UNCHANGED <<session, page, lineForm, modal, busy, tables, notes>>

-----------------------------------------------------------------------------
(* Forms and modals.                                                       *)

OpenCreate ==
    /\ Uncovered /\ page = "servers" /\ ~form /\ writes < MaxWrites
    /\ form' = TRUE /\ editing' = {}
    /\ due' = OneMore
    /\ UNCHANGED <<session, list, modal, busy, spoilt, req, tables, writes>>

\* The lists of the pages; each item has its buttons.
LineRow(l)   == Uncovered /\ page = "servers" /\ l \in shown
CodeCard(c)  == Uncovered /\ page = "codes" /\ c \in shown
AgentCard(a) == Uncovered /\ page = "agents" /\ a \in shown

OpenEdit(l) ==
    /\ LineRow(l) /\ writes < MaxWrites
    /\ form' = TRUE /\ editing' = {l[1]}
    /\ UNCHANGED <<session, list, modal, busy, spoilt, req, tables, notes>>

Cancel ==
    /\ Uncovered /\ form
    /\ form' = FALSE /\ editing' = {}
    /\ UNCHANGED <<session, list, modal, busy, spoilt, req, tables, notes>>

\* The forms; a button that submits is disabled while its call runs.
LineFormReady     == Uncovered /\ form /\ ~busy
CodeFormReady     == Uncovered /\ page = "codes" /\ ~busy
ThemeFormReady    == Uncovered /\ page = "branding" /\ loaded /\ ~busy
PasswordFormReady == Uncovered /\ page = "settings" /\ ~busy

Send(kind, arg) ==
    /\ Free(req) # {} /\ writes < MaxWrites
    /\ writes' = writes + 1
    /\ req' = Put(req, Request(kind, token, arg))

\* Bug: the button is not disabled while a submission is under way.
SubmitLineAgain ==
    /\ Uncovered /\ form
    /\ busy' = TRUE
    /\ Send(IF editing = {} THEN "create" ELSE "update", editing)
    /\ UNCHANGED <<session, list, lineForm, modal, spoilt, tables, due>>

SubmitLine ==
    /\ LineFormReady
    /\ busy' = TRUE
    /\ Send(IF editing = {} THEN "create" ELSE "update", editing)
    /\ UNCHANGED <<session, list, lineForm, modal, spoilt, tables, due>>

SubmitCode(c) ==
    /\ CodeFormReady
    /\ busy' = TRUE
    /\ Send("createCode", {c})
    /\ UNCHANGED <<session, list, lineForm, modal, spoilt, tables, due>>

\* Bug: the theme can be saved before it is there.
SaveThemeEarly ==
    /\ Uncovered /\ page = "branding" /\ ~busy
    /\ busy' = TRUE
    /\ Send("saveTheme", shown)
    /\ UNCHANGED <<session, list, lineForm, modal, spoilt, tables, due>>

\* All of it is saved, whatever the operator edited.
SaveTheme ==
    /\ ThemeFormReady
    /\ busy' = TRUE
    /\ Send("saveTheme", shown)
    /\ UNCHANGED <<session, list, lineForm, modal, spoilt, tables, due>>

ChangePassword ==
    /\ PasswordFormReady
    /\ busy' = TRUE
    /\ Send("password", {})
    /\ UNCHANGED <<session, list, lineForm, modal, spoilt, tables, due>>

\* The modal of a deletion or a rotation; its buttons stay while its call runs.
Ask(x) ==
    /\ LineRow(x) \/ CodeCard(x) \/ AgentCard(x)
    /\ writes < MaxWrites
    /\ target' = {x}
    /\ UNCHANGED <<session, list, lineForm, newKey, doubled, busy, spoilt, req, tables, notes>>

Dismiss ==
    /\ target # {} \/ newKey # {}
    /\ target' = {} /\ newKey' = {}
    /\ UNCHANGED <<session, list, lineForm, doubled, busy, spoilt, req, tables, notes>>

ConfirmDelete ==
    /\ target # {} /\ page \in {"servers", "codes"}
    /\ Send(IF page = "servers" THEN "deleteLine" ELSE "deleteCode", target)
    /\ UNCHANGED <<session, view, tables, due>>

HandleRotateKey ==
    /\ target # {} /\ page = "agents"
    /\ Send("rotate", target)
    /\ doubled' = \E s \in Slots : req[s].kind = "rotate" /\ req[s].who = token
    /\ UNCHANGED <<session, list, lineForm, target, newKey, busy, spoilt, tables, due>>

-----------------------------------------------------------------------------
(* The answers to writes.                                                  *)

\* Bug: the list stays as it was.
ReloadNot(s) ==
    /\ req' = [req EXCEPT ![s] = Idle]
    /\ UNCHANGED spoilt

\* After what changed the list it is loaded again.
Reload(s) ==
    LET rest == [req EXCEPT ![s] = Idle] IN
    /\ req' = Mount(rest, page, token)
    /\ spoilt' = LoadUnderWay(rest)

\* It failed, as far as one knows here.
GiveUp(s) ==
    /\ req' = [req EXCEPT ![s] = Idle]
    /\ spoilt' = (spoilt \/ req[s].did)

\* After a success whatever form is open by now is closed.
ReceiveSubmit(s) ==
    /\ Answered(s, {"create", "update", "createCode"}) /\ req[s].live
    /\ busy' = FALSE
    /\ IF req[s].state = "ok"
       THEN Reload(s) /\ form' = FALSE /\ editing' = {}
       ELSE GiveUp(s) /\ UNCHANGED lineForm
    /\ UNCHANGED <<session, list, modal, tables, notes>>

ReceiveSave(s) ==
    /\ Answered(s, {"saveTheme", "password"}) /\ req[s].live
    /\ busy' = FALSE
    /\ req' = [req EXCEPT ![s] = Idle]
    /\ UNCHANGED <<session, list, lineForm, modal, spoilt, tables, notes>>

\* Whatever modal is open by now is closed.
ReceiveDelete(s) ==
    /\ Answered(s, {"deleteLine", "deleteCode"}) /\ req[s].live
    /\ target' = {}
    /\ IF req[s].state = "ok" THEN Reload(s) ELSE GiveUp(s)
    /\ UNCHANGED <<session, list, lineForm, newKey, doubled, busy, tables, notes>>

\* After a failure the modal is still there.
ReceiveRotate(s) ==
    /\ Answered(s, {"rotate"}) /\ req[s].live
    /\ IF req[s].state = "ok"
       THEN newKey' = req[s].data /\ target' = {}
       ELSE UNCHANGED <<newKey, target>>
    /\ req' = [req EXCEPT ![s] = Idle]
    /\ UNCHANGED <<session, list, lineForm, doubled, busy, spoilt, tables, notes>>

\* The page is gone.
Ignore(s) ==
    /\ req[s].state \in {"ok", "failed"} /\ ~req[s].live /\ req[s].kind # "me"
    /\ req' = [req EXCEPT ![s] = Idle]
    /\ UNCHANGED <<session, view, tables, notes>>

-----------------------------------------------------------------------------
Serve(s) ==
    \/ ServeRead(s) \/ CreateLine(s) \/ UpdateLine(s) \/ DeleteLine(s) \/ CreateCode(s)
    \/ DeleteCode(s) \/ UpdateTheme(s) \/ RotateAgentKey(s) \/ Deny(s)

Receive(s) ==
    \/ ReceiveLogin(s) \/ ReceiveMe(s) \/ ReceiveLoad(s) \/ ReceiveSubmit(s) \/ ReceiveSave(s)
    \/ ReceiveDelete(s) \/ ReceiveRotate(s) \/ Ignore(s)

ConsoleNext ==
    \/ \E s \in Slots : Lose(s) \/ Serve(s) \/ Receive(s)
    \/ \E a \in Accounts : SignIn(a)
    \/ \E p \in Pages : Navigate(p)
    \/ \E x \in shown : OpenEdit(x) \/ Ask(x)
    \/ \E c \in Codes : SubmitCode(c)
    \/ Logout \/ Poll \/ OpenCreate \/ Cancel \/ SubmitLine \/ SaveTheme \/ ChangePassword
    \/ Dismiss \/ ConfirmDelete \/ HandleRotateKey

ConsoleSpec == ConsoleInit /\ [][ConsoleNext]_consoleVars

-----------------------------------------------------------------------------
\* The account the console shows (its name, plan and identity on every page) is
\* the one whose token its requests carry; only the answer to a getMe that was
\* under way when an earlier session ended can make it another (useAuth.jsx:23-36).
TenantIsOfSession == strayed \/ tenant \in {None, token}

\* When a page waits for nothing it shows what the hub has, whatever was created,
\* edited and deleted on it, retried and answered late; except after loads that
\* overlapped or failed, a write whose outcome was reported wrong, and a write
\* that the page had already left.
ListSettles ==
    /\ Mounted /\ page # "settings" /\ page # "branding" /\ ~spoilt
    /\ \A s \in Slots : ~req[s].live \/ req[s].kind = "me"
    => shown = ListOf(LoadOf(page), token)

\* "Copy this key now. It will not be shown again." (Agents.jsx:191): the key on
\* the screen is the one the agent must have, also when a rotation was retried
\* after its answer was lost; except when two were under way at once, which the
\* modal's button allows.
ShownKeyIsLive == newKey = {} \/ doubled \/ (token # None /\ newKey = {agentKey[token]})

\* Saving one field of the theme keeps the others: what is saved is what was
\* loaded, be it the default theme, which a failed load shows (api.js:116).
ThemeKept == \A a \in Accounts : theme[a] \in {{"own"}, {"default"}}

\* A form opened for a new server line makes one, however it is clicked,
\* cancelled and submitted again; a second needs a lost answer, after which
\* request sends the same creation again (api.js:92).
OneLinePerForm == due >= 0
=============================================================================
