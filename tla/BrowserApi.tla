----------------------------- MODULE BrowserApi -----------------------------
(***************************************************************************)
(* The API client of the browser.  The tabs of a browser share the cookie  *)
(* with the refresh token; each tab keeps its access token in memory.  A   *)
(* request that is refused joins the tab's one refresh and is sent again   *)
(* once.  Where the browser has the Web Locks API, one tab refreshes at a  *)
(* time.  A token presented twice ends its family on the server.           *)
(***************************************************************************)
EXTENDS Integers, FiniteSets

CONSTANTS
    Tabs,
    Browsers,       \* what may be opened: the tabs, whether there are Web Locks, the
                    \* bounds on logins (families), refreshes of each (tokens) and faults
    Purposes,       \* requests a tab may have under way, one of each
    NoTab, NoCookie, NoAccess

ASSUME BrowsersAssumption ==
    /\ NoTab \notin Tabs /\ NoCookie \notin Nat \X Nat
    /\ NoAccess \notin [family : Nat, fresh : BOOLEAN]
    /\ \A b \in Browsers :
          /\ b.tabs \subseteq Tabs /\ b.locks \in BOOLEAN
          /\ {b.families, b.tokens} \subseteq Nat \ {0} /\ b.faults \in Nat

VARIABLES
    browser,
    alive, current,     \* server: families, and the token each one accepts
    born,               \* server: families made so far
    cookie,             \* <<family, token>>, shared by the tabs
    access, status,     \* of each tab
    refresh,            \* the refreshes of a tab: where each is, its token, its reply
    lock,               \* the tab that holds the browser's refresh lock
    call,               \* call[t][p]: where a request is and the token it bears
    leaving, told,      \* a logout served; a logout broadcast to a tab
    lost, reused,       \* history: a refresh failed on its way; a token was reused
    overtaken,          \* history: a login came while another's cookie was under way
    faults              \* what went wrong so far, of a bounded number

server == <<alive, current, born, reused>>
session == <<cookie, access, status, refresh, lock, leaving, told, lost, overtaken>>
client == <<browser, server, session, call>>
apiVars == <<client, faults>>

Families == 1..browser.families
Idle == [at |-> "idle", with |-> NoAccess]
NewRefresh == [at |-> "waiting", token |-> NoCookie, reply |-> "none"]

\* A browser with a saved session is opened: every tab starts a refresh.
Init ==
    /\ browser \in Browsers
    /\ alive = {1} /\ born = 1
    /\ current = [f \in 1..browser.families |-> 1]
    /\ cookie = <<1, 1>>
    /\ access = [t \in Tabs |-> NoAccess]
    /\ status = [t \in Tabs |-> "loading"]
    /\ refresh = [t \in Tabs |-> IF t \in browser.tabs THEN {NewRefresh} ELSE {}]
    /\ lock = NoTab
    /\ call = [t \in Tabs |-> [p \in Purposes |-> Idle]]
    /\ leaving = {} /\ told = {}
    /\ lost = FALSE /\ reused = FALSE /\ overtaken = FALSE /\ faults = 0
-----------------------------------------------------------------------------
\* Something goes wrong: a token or a family ends, a message is lost.
Fault == faults < browser.faults /\ faults' = faults + 1

\* get_current_user: the token is in time and its family is active.
Accepts(a) == a # NoAccess /\ a.fresh /\ a.family \in alive

\* A request of the page's queries or of its providers.
Send(t, p) ==
    /\ t \in browser.tabs /\ call[t][p].at = "idle"
    /\ call' = [call EXCEPT ![t][p] = [at |-> "sent", with |-> access[t]]]
    /\ UNCHANGED <<browser, server, session, faults>>

\* The server accepts the token or refuses it.
Serve(t, p) ==
    /\ call[t][p].at \in {"sent", "resent"}
    /\ call' = [call EXCEPT ![t][p] = [Idle EXCEPT !.at =
          CASE Accepts(call[t][p].with) -> "ok"
            [] call[t][p].at = "sent" -> "refused"
            [] OTHER -> "failed"]]
    /\ UNCHANGED <<browser, server, session, faults>>

\* The network, or an answer other than 401.
Miss(t, p) ==
    /\ Fault
    /\ call[t][p].at \in {"sent", "resent", "ok"}
    /\ call' = [call EXCEPT ![t][p] = [Idle EXCEPT !.at = "failed"]]
    /\ UNCHANGED <<browser, server, session>>

Finish(t, p) ==
    /\ call[t][p].at \in {"ok", "failed"}
    /\ call' = [call EXCEPT ![t][p] = Idle]
    /\ UNCHANGED <<browser, server, session, faults>>

\* refreshSession: the refresh under way, or a new one.
\* Mutant: a new one in every case.
RefreshAnew(t) == refresh' = [refresh EXCEPT ![t] = @ \cup {NewRefresh}]
RefreshSession(t) == refresh' = [refresh EXCEPT ![t] = IF @ = {} THEN {NewRefresh} ELSE @]

\* A refused request waits for a refresh.
Join(t, p) ==
    /\ call[t][p].at = "refused"
    /\ call' = [call EXCEPT ![t][p].at = "refresh"]
    /\ RefreshSession(t)
    /\ UNCHANGED <<browser, server, cookie, access, status, lock, leaving, told, lost, overtaken, faults>>

\* The timer set when a session is published; that it fires once is left out
\* (the last conjunct is the bound on the refreshes).
RefreshTimer(t) ==
    /\ status[t] = "authenticated"
    /\ current[access[t].family] < browser.tokens
    /\ RefreshSession(t)
    /\ UNCHANGED <<browser, server, cookie, access, status, lock, call, leaving, told, lost, overtaken, faults>>

Becomes(t, r, s) == refresh' = [refresh EXCEPT ![t] = (@ \ {r}) \cup {s}]
Ends(t, r) == refresh' = [refresh EXCEPT ![t] = @ \ {r}]
Unlocked(t) == IF lock = t THEN NoTab ELSE lock

\* The browser attaches the cookie as it is when the request leaves.
SendRefresh(t, r) ==
    /\ r.at = "waiting"
    /\ browser.locks => lock = NoTab
    /\ lock' = IF browser.locks THEN t ELSE NoTab
    /\ Becomes(t, r, [r EXCEPT !.at = "sent", !.token = cookie])
    /\ UNCHANGED <<browser, server, cookie, access, status, call, leaving, told, lost, overtaken, faults>>

\* The server rotates the token it expects, ends the family of any other.
ServeRefresh(t, r) ==
    LET k == r.token
        valid == k # NoCookie /\ k[1] \in alive /\ k[2] = current[k[1]]
    IN  /\ r.at = "sent" /\ (valid => current[k[1]] < browser.tokens)
        /\ Becomes(t, r, [at |-> "served", reply |-> IF valid THEN "renewed" ELSE "refused",
                          token |-> IF valid THEN <<k[1], k[2] + 1>> ELSE NoCookie])
        /\ current' = IF valid THEN [current EXCEPT ![k[1]] = @ + 1] ELSE current
        /\ alive' = IF valid \/ k = NoCookie THEN alive ELSE alive \ {k[1]}
        /\ reused' = (reused \/ (~valid /\ k # NoCookie /\ k[1] \in alive))
        /\ UNCHANGED <<browser, born, cookie, access, status, lock, call, leaving, told, lost, overtaken,
                       faults>>

\* Who waited is sent again with the new session, or fails.
\* Mutant: nobody goes on.
ResumeNobody(t, a) == UNCHANGED call
Resume(t, a) ==
    call' = [call EXCEPT ![t] = [p \in Purposes |->
        IF @[p].at # "refresh" THEN @[p]
        ELSE IF a = NoAccess THEN [at |-> "failed", with |-> NoAccess]
        ELSE [at |-> "resent", with |-> a]]]
Publish(t, a) ==
    /\ access' = [access EXCEPT ![t] = a]
    /\ status' = [status EXCEPT ![t] = IF a = NoAccess THEN "anonymous" ELSE "authenticated"]

\* A reply that renews sets the cookie and the session, one that refuses ends the
\* session and leaves the cookie (the deletion is of a response the error replaces);
\* who waited goes on.
ReceiveRefresh(t, r) ==
    LET a == IF r.reply = "renewed" THEN [family |-> r.token[1], fresh |-> TRUE] ELSE NoAccess
    IN  /\ r.at = "served"
        /\ cookie' = IF r.reply = "renewed" THEN r.token ELSE cookie
        /\ Publish(t, a) /\ Resume(t, a)
        /\ Ends(t, r)
        /\ lock' = Unlocked(t)
        /\ UNCHANGED <<browser, server, leaving, told, lost, overtaken, faults>>

\* The request or its reply is lost, or the answer is an error other than 401:
\* nothing is published.
RefreshFails(t, r) ==
    /\ Fault
    /\ r.at \in {"sent", "served"}
    /\ lost' = TRUE
    /\ Resume(t, NoAccess)
    /\ Ends(t, r)
    /\ lock' = Unlocked(t)
    /\ UNCHANGED <<browser, server, cookie, access, status, leaving, told, overtaken>>
-----------------------------------------------------------------------------
\* What a login may cross: a refresh or a logout on its way, whose reply sets the
\* cookie too, or another tab's session, whose token it replaces.
InFlight(r) == r.at \in {"sent", "served"}
Crossed(t) ==
    \/ leaving # {}
    \/ \E u \in Tabs : \E r \in refresh[u] : InFlight(r)
    \/ \E u \in Tabs \ {t} : access[u] # NoAccess /\ access[u].family \in alive

\* A login, request and reply in one step, makes a family.
SignIn(t) ==
    /\ t \in browser.tabs /\ status[t] = "anonymous" /\ t \notin leaving
    /\ born < browser.families
    /\ born' = born + 1
    /\ alive' = alive \cup {born'}
    /\ cookie' = <<born', 1>>
    /\ overtaken' = (overtaken \/ Crossed(t))
    /\ Publish(t, [family |-> born', fresh |-> TRUE])
    /\ UNCHANGED <<browser, current, reused, refresh, lock, call, leaving, told, lost, faults>>

\* Mutant: a logout with a token that was exchanged ends nothing.
SignOutAccepted(t) ==
    /\ status[t] = "authenticated" /\ t \notin leaving
    /\ alive' = {f \in alive : cookie # <<f, current[f]>>}
    /\ leaving' = leaving \cup {t}
    /\ UNCHANGED <<browser, current, born, reused, cookie, access, status, refresh, lock, call,
                   told, lost, overtaken, faults>>

\* A logout ends the family of the token in the cookie, whether or not the token
\* was exchanged since.  It takes no lock.
SignOut(t) ==
    /\ status[t] = "authenticated" /\ t \notin leaving
    /\ alive' = {f \in alive : cookie = NoCookie \/ f # cookie[1]}
    /\ leaving' = leaving \cup {t}
    /\ UNCHANGED <<browser, current, born, reused, cookie, access, status, refresh, lock, call,
                   told, lost, overtaken, faults>>

\* The reply clears the cookie and the other tabs are told; when it is lost, neither
\* happens, and the tab is signed out all the same.
SignedOut(t) ==
    /\ t \in leaving
    /\ leaving' = leaving \ {t}
    /\ Publish(t, NoAccess)
    /\ \/ /\ cookie' = NoCookie /\ told' = told \cup (browser.tabs \ {t})
          /\ UNCHANGED faults
       \/ Fault /\ UNCHANGED <<cookie, told>>
    /\ UNCHANGED <<browser, server, refresh, lock, call, lost, overtaken>>

\* The request is lost, or the server fails before it ends a family.
SignOutFails(t) ==
    /\ Fault
    /\ status[t] = "authenticated" /\ t \notin leaving
    /\ Publish(t, NoAccess)
    /\ UNCHANGED <<browser, server, cookie, refresh, lock, call, leaving, told, lost, overtaken>>

HearLogout(t) ==
    /\ t \in told
    /\ told' = told \ {t}
    /\ Publish(t, NoAccess)
    /\ UNCHANGED <<browser, server, cookie, refresh, lock, call, leaving, lost, overtaken, faults>>

AccessExpires(t) ==
    /\ Fault
    /\ access[t] # NoAccess /\ access[t].fresh
    /\ access' = [access EXCEPT ![t].fresh = FALSE]
    /\ UNCHANGED <<browser, server, cookie, status, refresh, lock, call, leaving, told, lost, overtaken>>

\* A family ends from elsewhere: a password change in another browser, an
\* administrator, an expiry.
FamilyEnds(f) ==
    /\ Fault
    /\ f \in alive
    /\ alive' = alive \ {f}
    /\ UNCHANGED <<browser, current, born, reused, session, call>>

SessionStep(t) ==
    \/ RefreshTimer(t) \/ SignIn(t) \/ SignOut(t) \/ SignedOut(t)
    \/ SignOutFails(t) \/ HearLogout(t) \/ AccessExpires(t)
    \/ \E r \in refresh[t] :
          SendRefresh(t, r) \/ ServeRefresh(t, r) \/ ReceiveRefresh(t, r) \/ RefreshFails(t, r)
-----------------------------------------------------------------------------
\* The variables have their types, and whoever waits for a refresh has one.
ApiTypeOK ==
    /\ browser \in Browsers /\ alive \subseteq Families
    /\ \A f \in Families : current[f] \in 1..browser.tokens
    /\ cookie = NoCookie \/ cookie \in Families \X (1..browser.tokens)
    /\ lock \in Tabs \cup {NoTab} /\ leaving \cup told \subseteq browser.tabs
    /\ \A t \in Tabs :
          /\ status[t] \in {"loading", "authenticated", "anonymous"}
          /\ (status[t] = "authenticated") = (access[t] # NoAccess)
          /\ \A r \in refresh[t] : r.at \in {"waiting", "sent", "served"}
          /\ \A p \in Purposes :
                /\ call[t][p].at \in {"idle", "sent", "refused", "refresh", "resent", "ok", "failed"}
                /\ call[t][p].at = "refresh" => refresh[t] # {}

\* At most one refresh at a time: the tabs share the lock of withBrowserRefreshLock,
\* or there is one tab.  Tabs of a browser without Web Locks refresh side by side
\* (client.ts:90), and may present one token twice.
Exclusive == browser.locks \/ \A t, u \in browser.tabs : t = u

\* A browser does not end its own session: as long as no refresh fails on its
\* way (performRefresh), it never presents a token that was already exchanged,
\* however many requests are refused at once and whichever tabs refresh, where
\* refreshes exclude each other.
NoSelfInflictedReuse == reused => lost \/ ~Exclusive

\* The reply that will bring the token the server expects of a family.
Coming(f) ==
    \E t \in Tabs : \E r \in refresh[t] : r.at = "served" /\ r.token = <<f, current[f]>>

\* A tab stays signed in to a family that lives only if the browser can go on with it:
\* the token the server expects is in the cookie or in a reply under way.  A logout
\* takes no lock (logoutSession): served between an exchange and its reply, with the
\* token that was exchanged, it ends the family, and its reply clears no cookie of a
\* family that lives.  Left out: a refresh that failed on its way, refreshes side by
\* side, and a login made while another reply that sets the cookie was under way.
SessionContinues ==
    \A t \in Tabs :
        access[t] # NoAccess /\ access[t].family \in alive
        => LET f == access[t].family IN
           cookie = <<f, current[f]>> \/ Coming(f) \/ lost \/ overtaken \/ ~Exclusive
=============================================================================
