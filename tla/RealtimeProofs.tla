--------------------------- MODULE RealtimeProofs ---------------------------
(***************************************************************************)
(* The browser does not end its own session, a session that lives can be   *)
(* renewed, and a quiet tab is fresh, for any tabs, connections and bounds.*)
(*                                                                         *)
(* The inductive invariant of the session says where the token that the    *)
(* server expects is: in the cookie, or in the one reply under way that    *)
(* will put it there.  That only one refresh is under way comes from the   *)
(* refresh a tab shares among its requests and from the lock the tabs      *)
(* share.  That of freshness says, for each change a tab does not show,    *)
(* what is still under way to bring it.                                    *)
(***************************************************************************)
EXTENDS Realtime, FiniteSetTheorems, TLAPS

Tokens == (Nat \X Nat) \cup {NoCookie}
Refreshes == [at : {"waiting", "sent", "served"}, token : Tokens,
              reply : {"none", "renewed", "refused"}]

Shape ==
    /\ browser \in Browsers
    /\ refresh \in [Tabs -> SUBSET Refreshes]
    /\ cookie \in Tokens
    /\ lock \in Tabs \cup {NoTab}
    /\ born \in 1..browser.families
    /\ alive \subseteq 1..born
    /\ current \in [1..browser.families -> Nat]
    /\ \A f \in 1..browser.families : f > born => current[f] = 1
    /\ lost \in BOOLEAN /\ reused \in BOOLEAN

\* No token is of a family that is still to be made.
Known(k) == k # NoCookie => k[1] \in 1..born
Issued == Known(cookie) /\ \A t \in Tabs : \A r \in refresh[t] : Known(r.token)

\* A tab has one refresh at most, and where there are locks the one under way
\* holds the lock.
Shared ==
    /\ \A t \in Tabs : refresh[t] # {} => t \in browser.tabs
    /\ \A t \in Tabs : \A r, s \in refresh[t] : r = s
    /\ browser.locks => \A t \in Tabs : \A r \in refresh[t] : InFlight(r) => lock = t

\* A reply brings a token if it renews.
Answered ==
    \A t \in Tabs : \A r \in refresh[t] :
        r.at = "served" => (r.reply = "renewed" <=> r.token # NoCookie)

CookieInTurn ==
    cookie # NoCookie /\ cookie[1] \in alive
        => cookie[2] = current[cookie[1]] \/ Coming(cookie[1])
RefreshInTurn ==
    \A t \in Tabs : \A r \in refresh[t] :
        InFlight(r) /\ r.token # NoCookie /\ r.token[1] \in alive
            => r.token[2] = current[r.token[1]]
InTurn == lost \/ ~Exclusive \/ (~reused /\ CookieInTurn /\ RefreshInTurn)

ApiInv == Shape /\ Issued /\ Shared /\ Answered /\ InTurn

relevant == <<browser, refresh, cookie, lock, born, alive, current, lost, reused>>
-----------------------------------------------------------------------------
\* A browser that is opened with a saved session has its token in turn.
LEMMA InitialApi == RealtimeInit => ApiInv
<1> SUFFICES ASSUME RealtimeInit PROVE ApiInv
    OBVIOUS
<1>1. browser \in Browsers /\ browser.tabs \subseteq Tabs
    BY BrowsersAssumption DEF RealtimeInit, Init
<1>2. NewRefresh \in Refreshes
    BY DEF NewRefresh, Refreshes, Tokens
<1>3. browser.families \in Nat \ {0}
    BY BrowsersAssumption, <1>1
<1>4. Shape
  <2>1. cookie \in Tokens /\ lock \in Tabs \cup {NoTab}
      BY DEF RealtimeInit, Init, Tokens
  <2>2. refresh \in [Tabs -> SUBSET Refreshes]
      BY <1>2 DEF RealtimeInit, Init
  <2>3. born \in 1..browser.families /\ alive \subseteq 1..born
      BY <1>3 DEF RealtimeInit, Init
  <2>4. /\ current \in [1..browser.families -> Nat]
        /\ \A f \in 1..browser.families : f > born => current[f] = 1
      BY DEF RealtimeInit, Init
  <2> QED
      BY <1>1, <2>1, <2>2, <2>3, <2>4 DEF RealtimeInit, Init, Shape
<1>8. Issued
    BY DEF RealtimeInit, Init, Issued, Known, NewRefresh
<1>5. Shared
    BY <1>1 DEF RealtimeInit, Init, Shared, InFlight, NewRefresh
<1>6. CookieInTurn
    BY <1>3 DEF RealtimeInit, Init, CookieInTurn
<1>7. RefreshInTurn
    BY DEF RealtimeInit, Init, RefreshInTurn, InFlight, NewRefresh
<1>9. Answered
    BY DEF RealtimeInit, Init, Answered, NewRefresh
<1> QED
    BY <1>4, <1>5, <1>6, <1>7, <1>8, <1>9 DEF ApiInv, InTurn, RealtimeInit, Init

\* What touches neither a refresh, the cookie, the lock nor the server's families
\* (the requests of the client, all of the notifications) keeps the invariant.
LEMMA Untouched == ApiInv /\ UNCHANGED relevant => ApiInv'
    BY DEF ApiInv, relevant, Shape, Issued, Known, Shared, Answered, InTurn,
          Exclusive, CookieInTurn, RefreshInTurn, Coming, InFlight

\* A family ends, and nothing else happens.
LEMMA FewerAlive ==
    ASSUME ApiInv, alive' \subseteq alive,
           UNCHANGED <<browser, refresh, cookie, lock, born, current, lost, reused>>
    PROVE  ApiInv'
<1>1. Shape'
    BY DEF ApiInv, Shape
<1>2. Shared'
    BY DEF ApiInv, Shared, InFlight
<1>3. InTurn'
    BY DEF ApiInv, InTurn, Exclusive, CookieInTurn, RefreshInTurn, Coming, InFlight
<1>4. Issued' /\ Answered'
    BY DEF ApiInv, Issued, Answered, Known
<1> QED
    BY <1>1, <1>2, <1>3, <1>4 DEF ApiInv

\* Where refreshes exclude each other, two under way are one.
LEMMA OnlyOne ==
    ASSUME ApiInv, Exclusive,
           NEW t \in Tabs, NEW r \in refresh[t], InFlight(r),
           NEW u \in Tabs, NEW s \in refresh[u], InFlight(s)
    PROVE  t = u /\ r = s
<1>1. t \in browser.tabs /\ u \in browser.tabs
    BY DEF ApiInv, Shared
<1>2. browser.locks \/ t = u
    BY <1>1 DEF Exclusive
<1>3. t = u
    BY <1>2 DEF ApiInv, Shared
<1> QED
    BY <1>3 DEF ApiInv, Shared
-----------------------------------------------------------------------------
\* refreshSession joins the tab's refresh or makes the only one.
LEMMA StartKeeps ==
    ASSUME ApiInv, NEW t \in browser.tabs, RefreshSession(t),
           UNCHANGED <<browser, server, cookie, lock, lost>>
    PROVE  ApiInv'
<1>1. t \in Tabs
    BY BrowsersAssumption DEF ApiInv, Shape
<1>2. NewRefresh \in Refreshes /\ ~InFlight(NewRefresh)
    BY DEF NewRefresh, Refreshes, Tokens, InFlight
<1>3. \A u \in Tabs : refresh'[u] = refresh[u] \/ (u = t /\ refresh[u] = {} /\ refresh'[u] = {NewRefresh})
    BY <1>1 DEF RefreshSession, ApiInv, Shape
<1>4. Shape'
    BY <1>1, <1>2 DEF RefreshSession, ApiInv, Shape, server
<1>5. Shared'
    BY <1>2, <1>3 DEF ApiInv, Shared, InFlight, server
<1>6. CookieInTurn => CookieInTurn'
  <2>1. SUFFICES ASSUME CookieInTurn, cookie # NoCookie, cookie[1] \in alive, Coming(cookie[1])
                 PROVE  Coming(cookie[1])'
      BY DEF CookieInTurn, server, Coming
  <2> QED
      BY <1>3, <2>1 DEF Coming, server
<1>7. RefreshInTurn => RefreshInTurn'
    BY <1>2, <1>3 DEF RefreshInTurn, InFlight, server
<1>8. Issued' /\ Answered'
    BY <1>3 DEF ApiInv, Issued, Answered, Known, NewRefresh, server
<1> QED
    BY <1>4, <1>5, <1>6, <1>7, <1>8 DEF ApiInv, InTurn, Exclusive, server

\* performRefresh leaves with the cookie, which is in turn: the tab has the lock
\* of withBrowserRefreshLock, or is alone.
LEMMA SendKeeps ==
    ASSUME ApiInv, NEW t \in browser.tabs, NEW r \in refresh[t], SendRefresh(t, r)
    PROVE  ApiInv'
<1>1. t \in Tabs
    BY BrowsersAssumption DEF ApiInv, Shape
<1> DEFINE s == [r EXCEPT !.at = "sent", !.token = cookie]
<1>2. r \in Refreshes /\ refresh[t] = {r}
    BY <1>1 DEF ApiInv, Shape, Shared
<1>3. s \in Refreshes /\ s.at = "sent" /\ s.token = cookie
    BY <1>2 DEF Refreshes, ApiInv, Shape
<1>4. /\ refresh' = [refresh EXCEPT ![t] = {s}] /\ r.at = "waiting"
      /\ lock' = IF browser.locks THEN t ELSE NoTab
      /\ browser.locks => lock = NoTab
      /\ UNCHANGED <<browser, server, cookie, lost>>
    BY <1>1, <1>2 DEF SendRefresh, Becomes, ApiInv, Shape
<1>5. \A u \in Tabs : u # t => refresh'[u] = refresh[u]
    BY <1>4 DEF ApiInv, Shape
<1>6. refresh'[t] = {s}
    BY <1>1, <1>4 DEF ApiInv, Shape
<1>7. ASSUME Exclusive \/ browser.locks, NEW u \in Tabs, NEW q \in refresh[u], InFlight(q) PROVE FALSE
  <2>1. u \in browser.tabs
      BY <1>7 DEF ApiInv, Shared
  <2>2. CASE browser.locks
      BY <2>2, <1>4, <1>7, BrowsersAssumption DEF ApiInv, Shared
  <2>3. CASE ~browser.locks
    <3>1. u = t
        BY <1>7, <2>1, <2>3 DEF Exclusive
    <3> QED
        BY <3>1, <1>2, <1>4, <1>7 DEF InFlight
  <2> QED
      BY <2>2, <2>3
<1>8. Shape'
    BY <1>1, <1>3, <1>4 DEF ApiInv, Shape, server
<1>9. Shared'
  <2>1. \A u \in Tabs : refresh'[u] # {} => u \in browser.tabs
      BY <1>5 DEF ApiInv, Shared
  <2>2. \A u \in Tabs : \A p, q \in refresh'[u] : p = q
      BY <1>5, <1>6 DEF ApiInv, Shared
  <2>3. browser.locks => \A u \in Tabs : \A q \in refresh'[u] : InFlight(q) => lock' = u
      BY <1>4, <1>5, <1>6, <1>7
  <2> QED
      BY <2>1, <2>2, <2>3, <1>4 DEF Shared, InFlight
<1>10. Exclusive /\ CookieInTurn => CookieInTurn' /\ RefreshInTurn'
  <2> SUFFICES ASSUME Exclusive, CookieInTurn PROVE CookieInTurn' /\ RefreshInTurn'
      OBVIOUS
  <2>1. ~Coming(cookie[1])
      BY <1>7 DEF Coming, InFlight
  <2>2. cookie # NoCookie /\ cookie[1] \in alive => cookie[2] = current[cookie[1]]
      BY <2>1 DEF CookieInTurn
  <2>3. CookieInTurn'
      BY <2>2, <1>4 DEF CookieInTurn, server
  <2>4. RefreshInTurn'
      BY <1>3, <1>4, <1>5, <1>6, <1>7, <2>2 DEF RefreshInTurn, InFlight, server
  <2> QED
      BY <2>3, <2>4
<1>11. Issued' /\ Answered'
    BY <1>3, <1>4, <1>5, <1>6 DEF ApiInv, Issued, Answered, Known, server
<1> QED
    BY <1>4, <1>8, <1>9, <1>10, <1>11 DEF ApiInv, InTurn, Exclusive, server

\* The server exchanges the token it expects; the new one is in the reply.
LEMMA ServeKeeps ==
    ASSUME ApiInv, NEW t \in browser.tabs, NEW r \in refresh[t], ServeRefresh(t, r)
    PROVE  ApiInv'
<1>1. t \in Tabs
    BY BrowsersAssumption DEF ApiInv, Shape
<1> DEFINE k == r.token
<1> DEFINE valid == k # NoCookie /\ k[1] \in alive /\ k[2] = current[k[1]]
<1> DEFINE s == [at |-> "served", reply |-> IF valid THEN "renewed" ELSE "refused",
                 token |-> IF valid THEN <<k[1], k[2] + 1>> ELSE NoCookie]
<1>2. r \in Refreshes /\ refresh[t] = {r} /\ r.at = "sent" /\ InFlight(r)
    BY <1>1 DEF ApiInv, Shape, Shared, ServeRefresh, InFlight
<1>3. /\ refresh' = [refresh EXCEPT ![t] = {s}]
      /\ current' = IF valid THEN [current EXCEPT ![k[1]] = @ + 1] ELSE current
      /\ alive' = IF valid \/ k = NoCookie THEN alive ELSE alive \ {k[1]}
      /\ reused' = (reused \/ (~valid /\ k # NoCookie /\ k[1] \in alive))
      /\ UNCHANGED <<browser, born, cookie, lock, lost>>
    BY <1>1, <1>2 DEF ServeRefresh, Becomes, ApiInv, Shape
<1>4. \A u \in Tabs : u # t => refresh'[u] = refresh[u]
    BY <1>3 DEF ApiInv, Shape
<1>5. refresh'[t] = {s}
    BY <1>1, <1>3 DEF ApiInv, Shape
<1>6. Exclusive => \A u \in Tabs : \A q \in refresh[u] : InFlight(q) => u = t /\ q = r
    BY <1>1, <1>2, OnlyOne
<1>7. k \in Tokens /\ Known(k)
    BY <1>1, <1>2 DEF ApiInv, Issued, Refreshes
<1>8. valid => k \in Nat \X Nat /\ k[1] \in 1..born
    BY <1>7 DEF Tokens, Known
<1>9. s \in Refreshes /\ s.at = "served"
    BY <1>8 DEF Refreshes, Tokens
<1>10. alive' \subseteq alive
    BY <1>3
<1>14. valid => k[1] \in 1..browser.families /\ current[k[1]] + 1 \in Nat
  <2>1. browser.families \in Nat /\ born \in 1..browser.families
      BY BrowsersAssumption DEF ApiInv, Shape
  <2>2. valid => k[1] \in 1..browser.families
      BY <1>8, <2>1
  <2> QED
      BY <2>2 DEF ApiInv, Shape
<1>11. Shape'
  <2>1. refresh' \in [Tabs -> SUBSET Refreshes]
      BY <1>1, <1>3, <1>9 DEF ApiInv, Shape
  <2>2. current' \in [1..browser.families -> Nat]
    <3>1. CASE valid
      <4>1. current' = [current EXCEPT ![k[1]] = current[k[1]] + 1]
          BY <1>3, <3>1
      <4>2. k[1] \in 1..browser.families /\ current[k[1]] + 1 \in Nat
          BY <1>14, <3>1
      <4> QED
          BY <4>1, <4>2 DEF ApiInv, Shape
    <3>2. CASE ~valid
        BY <1>3, <3>2 DEF ApiInv, Shape
    <3> QED
        BY <3>1, <3>2
  <2>3. \A f \in 1..browser.families : f > born => current'[f] = 1
      BY <1>3, <1>8 DEF ApiInv, Shape
  <2> QED
      BY <1>3, <1>10, <2>1, <2>2, <2>3 DEF ApiInv, Shape
<1>12. Shared'
  <2>1. \A u \in Tabs : refresh'[u] # {} => u \in browser.tabs
      BY <1>4 DEF ApiInv, Shared
  <2>2. \A u \in Tabs : \A p, q \in refresh'[u] : p = q
      BY <1>4, <1>5 DEF ApiInv, Shared
  <2>3. browser.locks => \A u \in Tabs : \A q \in refresh'[u] : InFlight(q) => lock = u
      BY <1>1, <1>2, <1>4, <1>5 DEF ApiInv, Shared
  <2> QED
      BY <1>3, <2>1, <2>2, <2>3 DEF Shared, InFlight
<1>13. Issued'
    BY <1>1, <1>3, <1>4, <1>5, <1>8 DEF ApiInv, Issued, Known
<1>16. Answered'
  <2>1. s.reply = "renewed" <=> s.token # NoCookie
    <3>1. valid => <<k[1], k[2] + 1>> \in Nat \X Nat
        BY <1>8
    <3> QED
        BY <3>1, BrowsersAssumption
  <2> QED
      BY <1>4, <1>5, <2>1 DEF ApiInv, Answered
<1>15. ~lost /\ Exclusive => ~reused' /\ CookieInTurn' /\ RefreshInTurn'
  <2> SUFFICES ASSUME ~lost, Exclusive PROVE ~reused' /\ CookieInTurn' /\ RefreshInTurn'
      OBVIOUS
  <2>1. ~reused /\ CookieInTurn /\ RefreshInTurn
      BY DEF ApiInv, InTurn
  <2>2. k # NoCookie /\ k[1] \in alive => valid
      BY <1>1, <1>2, <2>1 DEF RefreshInTurn
  <2>3. ~reused' /\ (~valid => alive' = alive /\ current' = current)
      BY <1>3, <2>1, <2>2
  <2>4. cookie # NoCookie /\ cookie[1] \in alive => cookie[2] = current[cookie[1]]
      BY <1>2, <1>6, <2>1 DEF CookieInTurn, Coming, InFlight
  <2>5. valid => current'[k[1]] = k[2] + 1
    <3>1. SUFFICES ASSUME valid PROVE current'[k[1]] = k[2] + 1
        OBVIOUS
    <3>2. current' = [current EXCEPT ![k[1]] = current[k[1]] + 1]
        BY <1>3, <3>1
    <3> QED
        BY <1>14, <3>1, <3>2 DEF ApiInv, Shape
  <2>6. \A f \in alive : valid /\ f # k[1] => current'[f] = current[f]
      BY <1>3, <1>8 DEF ApiInv, Shape
  <2>7. \A f : valid /\ f = k[1] => Coming(f)'
    <3>1. SUFFICES ASSUME NEW f, valid, f = k[1] PROVE Coming(f)'
        OBVIOUS
    <3>2. s \in refresh'[t] /\ s.at = "served" /\ s.token = <<f, current'[f]>>
        BY <1>5, <2>5, <3>1
    <3> QED
        BY <1>1, <3>2 DEF Coming
  <2>8. CookieInTurn'
    <3> SUFFICES ASSUME cookie # NoCookie, cookie[1] \in alive
                 PROVE  cookie[2] = current'[cookie[1]] \/ Coming(cookie[1])'
        BY <1>3, <1>10 DEF CookieInTurn, Coming
    <3>1. CASE valid /\ cookie[1] = k[1]
      <4>1. \A f : f = k[1] => Coming(f)'
          BY <3>1, <2>7
      <4> QED
          BY <3>1, <4>1, <1>3 DEF Coming
    <3>2. CASE valid /\ cookie[1] # k[1]
        BY <3>2, <2>4, <2>6
    <3>3. CASE ~valid
        BY <3>3, <2>3, <2>4
    <3> QED
        BY <3>1, <3>2, <3>3
  <2>9. RefreshInTurn'
    <3> SUFFICES ASSUME NEW u \in Tabs, NEW q \in refresh'[u], InFlight(q),
                        q.token # NoCookie, q.token[1] \in alive'
                 PROVE  q.token[2] = current'[q.token[1]]
        BY DEF RefreshInTurn, InFlight
    <3>1. u = t /\ q = s
        BY <1>1, <1>4, <1>5, <1>6, <1>2
    <3>2. valid /\ q.token = <<k[1], k[2] + 1>>
        BY <3>1
    <3> QED
        BY <2>5, <3>2
  <2> QED
      BY <2>3, <2>8, <2>9
<1> QED
    BY <1>3, <1>11, <1>12, <1>13, <1>15, <1>16 DEF ApiInv, InTurn, Exclusive

\* A tab whose refresh ends, in whichever way, has none; no other is under way where
\* they exclude each other.
LEMMA EndKeeps ==
    ASSUME ApiInv, NEW t \in browser.tabs, NEW r \in refresh[t], r.at \in {"sent", "served"},
           Ends(t, r), lock' = Unlocked(t), UNCHANGED <<browser, server>>,
           cookie' \in {cookie, r.token}
    PROVE  /\ t \in Tabs /\ r \in Refreshes /\ Known(r.token)
           /\ refresh' \in [Tabs -> SUBSET Refreshes]
           /\ refresh'[t] = {} /\ \A u \in Tabs : u # t => refresh'[u] = refresh[u]
           /\ Exclusive => \A u \in Tabs : \A q \in refresh'[u] : ~InFlight(q)
           /\ lost' \in BOOLEAN => Shape'
           /\ Shared' /\ Issued' /\ Answered'
<1>1. t \in Tabs
    BY BrowsersAssumption DEF ApiInv, Shape
<1>2. r \in Refreshes /\ refresh[t] = {r} /\ InFlight(r) /\ Known(r.token)
    BY <1>1 DEF ApiInv, Shape, Shared, Issued, InFlight
<1>3. refresh' = [refresh EXCEPT ![t] = {}]
    BY <1>1, <1>2 DEF Ends, ApiInv, Shape
<1>4. refresh' \in [Tabs -> SUBSET Refreshes] /\ refresh'[t] = {}
    BY <1>1, <1>3 DEF ApiInv, Shape
<1>5. \A u \in Tabs : u # t => refresh'[u] = refresh[u]
    BY <1>3 DEF ApiInv, Shape
<1>6. Exclusive => \A u \in Tabs : \A q \in refresh'[u] : ~InFlight(q)
    BY <1>1, <1>2, <1>4, <1>5, OnlyOne
<1>7. lost' \in BOOLEAN => Shape'
    BY <1>2, <1>4 DEF ApiInv, Shape, server, Unlocked, Refreshes
<1>8. Shared'
  <2>1. \A u \in Tabs : refresh'[u] # {} => u \in browser.tabs
      BY <1>4, <1>5 DEF ApiInv, Shared
  <2>2. \A u \in Tabs : \A p, q \in refresh'[u] : p = q
      BY <1>4, <1>5 DEF ApiInv, Shared
  <2> QED
      BY <1>6, <2>1, <2>2 DEF Shared, InFlight, Exclusive
<1>9. Issued' /\ Answered'
    BY <1>2, <1>4, <1>5 DEF ApiInv, Issued, Answered, Known, server
<1> QED
    BY <1>1, <1>2, <1>4, <1>5, <1>6, <1>7, <1>8, <1>9

\* A reply that renews puts the token the server expects in the cookie; one that
\* refuses leaves the cookie.
LEMMA ReceiveKeeps ==
    ASSUME ApiInv, NEW t \in browser.tabs, NEW r \in refresh[t], ReceiveRefresh(t, r)
    PROVE  ApiInv'
<1>1. /\ r.at = "served" /\ cookie' = IF r.reply = "renewed" THEN r.token ELSE cookie
      /\ Ends(t, r) /\ lock' = Unlocked(t) /\ UNCHANGED <<browser, server, lost>>
    BY DEF ReceiveRefresh
<1>2. /\ t \in Tabs /\ Shared' /\ Issued' /\ Answered'
      /\ lost' \in BOOLEAN => Shape'
      /\ Exclusive => \A u \in Tabs : \A q \in refresh'[u] : ~InFlight(q)
    BY <1>1, EndKeeps
<1>3. Shape'
    BY <1>1, <1>2 DEF ApiInv, Shape
<1>4. ASSUME Exclusive, RefreshInTurn, CookieInTurn PROVE CookieInTurn' /\ RefreshInTurn'
  <2>1. RefreshInTurn'
      BY <1>2, <1>4 DEF RefreshInTurn, InFlight
  <2>2. CASE r.reply = "renewed"
      BY <1>1, <1>2, <1>4, <2>1, <2>2 DEF RefreshInTurn, CookieInTurn, InFlight, server
  <2>3. CASE r.reply # "renewed"
    <3>1. r.token = NoCookie
        BY <1>1, <1>2, <2>3 DEF ApiInv, Answered
    <3>2. ASSUME cookie # NoCookie PROVE ~Coming(cookie[1])
      <4> SUFFICES ASSUME NEW u \in Tabs, NEW q \in refresh[u], q.at = "served",
                          q.token = <<cookie[1], current[cookie[1]]>>
                   PROVE  FALSE
          BY DEF Coming
      <4>1. q = r
          BY <1>1, <1>2, <1>4, OnlyOne DEF InFlight
      <4>2. cookie[1] \in Nat /\ current[cookie[1]] \in Nat
        <5>1. cookie \in Nat \X Nat /\ cookie[1] \in 1..born /\ born \in 1..browser.families
            BY <3>2 DEF ApiInv, Shape, Issued, Known, Tokens
        <5>2. cookie[1] \in 1..browser.families
            BY <5>1, BrowsersAssumption DEF ApiInv, Shape
        <5> QED
            BY <5>1, <5>2 DEF ApiInv, Shape
      <4>3. NoCookie \in Nat \X Nat
          BY <3>1, <4>1, <4>2
      <4> QED
          BY <4>3, BrowsersAssumption
    <3> QED
        BY <1>1, <1>4, <2>1, <2>3, <3>2 DEF CookieInTurn, server
  <2> QED
      BY <2>2, <2>3
<1> QED
    BY <1>1, <1>2, <1>3, <1>4 DEF ApiInv, InTurn, Exclusive, server

\* A refresh that fails on its way is remembered as lost.
LEMMA FailsKeeps ==
    ASSUME ApiInv, NEW t \in browser.tabs, NEW r \in refresh[t], RefreshFails(t, r)
    PROVE  ApiInv'
<1>1. /\ r.at \in {"sent", "served"} /\ cookie' = cookie /\ lost' = TRUE
      /\ Ends(t, r) /\ lock' = Unlocked(t) /\ UNCHANGED <<browser, server>>
    BY DEF RefreshFails
<1>2. Shared' /\ Issued' /\ Answered' /\ (lost' \in BOOLEAN => Shape')
    BY <1>1, EndKeeps
<1> QED
    BY <1>1, <1>2 DEF ApiInv, InTurn

\* A login makes a family that no refresh under way is of.
LEMMA SignInKeeps ==
    ASSUME ApiInv, NEW t \in browser.tabs, SignIn(t)
    PROVE  ApiInv'
<1>1. /\ born < browser.families /\ born' = born + 1 /\ alive' = alive \cup {born + 1}
      /\ cookie' = <<born + 1, 1>>
      /\ UNCHANGED <<browser, current, reused, refresh, lock, lost>>
    BY DEF SignIn
<1>2. browser \in Browsers /\ browser.families \in Nat /\ born \in Nat \ {0}
    BY BrowsersAssumption DEF ApiInv, Shape
<1>3. Shape'
  <2>1. born' \in 1..browser'.families /\ alive' \subseteq 1..born'
      BY <1>1, <1>2 DEF ApiInv, Shape
  <2>2. cookie' \in Tokens
      BY <1>1, <1>2 DEF Tokens
  <2>3. \A f \in 1..browser.families : f > born' => current[f] = 1
      BY <1>1, <1>2 DEF ApiInv, Shape
  <2> QED
      BY <1>1, <2>1, <2>2, <2>3 DEF ApiInv, Shape
<1>4. Issued'
  <2>1. Known(cookie)'
      BY <1>1, <1>2 DEF Known
  <2>2. \A u \in Tabs : \A q \in refresh[u] : q.token # NoCookie => q.token[1] \in 1..born'
      BY <1>1, <1>2 DEF ApiInv, Issued, Known
  <2> QED
      BY <1>1, <2>1, <2>2 DEF Issued, Known
<1>5. Shared' /\ Answered'
    BY <1>1 DEF ApiInv, Shared, Answered, InFlight
<1>6. current[born + 1] = 1
    BY <1>1, <1>2 DEF ApiInv, Shape
<1>7. CookieInTurn'
    BY <1>1, <1>6 DEF CookieInTurn
<1>8. RefreshInTurn => RefreshInTurn'
  <2> SUFFICES ASSUME RefreshInTurn, NEW u \in Tabs, NEW q \in refresh[u], InFlight(q),
                      q.token # NoCookie, q.token[1] \in alive'
               PROVE  q.token[2] = current[q.token[1]]
      BY <1>1 DEF RefreshInTurn, InFlight
  <2>1. q.token[1] \in 1..born
      BY DEF ApiInv, Issued, Known
  <2>2. q.token[1] \in alive
      BY <1>1, <1>2, <2>1
  <2> QED
      BY <2>2 DEF RefreshInTurn
<1> QED
    BY <1>1, <1>3, <1>4, <1>5, <1>7, <1>8 DEF ApiInv, InTurn, Exclusive

\* A logout clears the cookie or leaves it as it was.
LEMMA SignedOutKeeps ==
    ASSUME ApiInv, cookie' \in {cookie, NoCookie},
           UNCHANGED <<browser, server, refresh, lock, lost>>
    PROVE  ApiInv'
<1>1. Shape' /\ Shared'
    BY DEF ApiInv, Shape, Shared, InFlight, Tokens, server
<1>2. Issued' /\ Answered'
    BY DEF ApiInv, Issued, Answered, Known, server
<1>3. InTurn'
    BY DEF ApiInv, InTurn, Exclusive, CookieInTurn, RefreshInTurn, Coming, InFlight, server
<1> QED
    BY <1>1, <1>2, <1>3 DEF ApiInv
-----------------------------------------------------------------------------
\* Every step of a tab's session keeps the invariant.
LEMMA SessionKeeps ==
    ASSUME ApiInv, NEW t \in browser.tabs, SessionStep(t)
    PROVE  ApiInv'
<1>1. CASE RefreshTimer(t)
    BY <1>1, StartKeeps DEF RefreshTimer
<1>2. CASE SignIn(t)
    BY <1>2, SignInKeeps
<1>3. CASE SignOut(t)
    BY <1>3, FewerAlive DEF SignOut
<1>4. CASE SignedOut(t)
    BY <1>4, SignedOutKeeps DEF SignedOut
<1>5. CASE SignOutFails(t) \/ HearLogout(t) \/ AccessExpires(t)
    BY <1>5, Untouched DEF SignOutFails, HearLogout, AccessExpires, relevant, server
<1>6. ASSUME NEW r \in refresh[t],
             SendRefresh(t, r) \/ ServeRefresh(t, r) \/ ReceiveRefresh(t, r) \/ RefreshFails(t, r)
      PROVE  ApiInv'
    BY <1>6, SendKeeps, ServeKeeps, ReceiveKeeps, FailsKeeps
<1> QED
    BY <1>1, <1>2, <1>3, <1>4, <1>5, <1>6 DEF SessionStep

\* Every step of the tabs, the backend and the writers keeps the invariant.
LEMMA StepKeeps == ApiInv /\ [Next]_vars => ApiInv'
<1> SUFFICES ASSUME ApiInv, [Next]_vars PROVE ApiInv'
    OBVIOUS
<1> USE DEF relevant, client, session, server, apiVars
<1>1. CASE UNCHANGED vars
    BY <1>1, Untouched DEF vars
<1>2. ASSUME NEW x \in Topics,
             WriteUnversioned(x) \/ \E v \in 1..browser.writes : WriteStamped(x, v)
      PROVE  ApiInv'
    BY <1>2, Untouched DEF WriteUnversioned, WriteStamped
<1>3. ASSUME NEW m \in owed, PublishMessage(m) PROVE ApiInv'
    BY <1>3, Untouched DEF PublishMessage
<1>4. CASE Listener \/ Restart
    BY <1>4, Untouched DEF Listener, Restart
<1>5. ASSUME NEW k \in tickets, TicketExpires(k) PROVE ApiInv'
    BY <1>5, Untouched DEF TicketExpires
<1>6. ASSUME NEW f \in alive, FamilyEnds(f) PROVE ApiInv'
    BY <1>6, FewerAlive DEF FamilyEnds
<1>7. ASSUME NEW t \in browser.tabs, ApiStep(t) PROVE ApiInv'
  <2>1. CASE SessionStep(t)
      BY <2>1, SessionKeeps
  <2>2. ASSUME NEW p \in Purposes, Miss(t, p) PROVE ApiInv'
      BY <2>2, Untouched DEF Miss
  <2>3. ASSUME NEW p \in Purposes, Join(t, p) PROVE ApiInv'
      BY <2>3, StartKeeps DEF Join
  <2> QED
      BY <1>7, <2>1, <2>2, <2>3 DEF ApiStep
<1>8. ASSUME NEW t \in browser.tabs,
             AskTicket(t) \/ ServeTicket(t) \/ GetTicket(t) \/ Handshake(t) \/ Open(t)
      PROVE  ApiInv'
    BY <1>8, Untouched DEF AskTicket, ServeTicket, GetTicket, Handshake, Open, Send, Serve, Finish
<1>9. ASSUME NEW t \in browser.tabs,
             Break(t) \/ Notice(t) \/ Cleanup(t) \/ Deliver(t)
      PROVE  ApiInv'
    BY <1>9, Untouched DEF Break, Notice, Cleanup, Deliver
<1>10. ASSUME NEW t \in browser.tabs,
              Visit(t) \/ StartFetch(t) \/ ServeFetch(t) \/ EndFetch(t)
       PROVE  ApiInv'
    BY <1>10, Untouched DEF Visit, StartFetch, ServeFetch, EndFetch, Send, Serve, Finish
<1>11. ASSUME NEW t \in browser.tabs,
              (\E x \in Topics : Mutate(t, x)) \/ EndMutation(t)
                  \/ \E v \in 1..browser.writes : ServeMutation(t, v)
       PROVE  ApiInv'
    BY <1>11, Untouched DEF Mutate, EndMutation, ServeMutation, Send, Serve, Finish
<1> QED
    BY <1>1, <1>2, <1>3, <1>4, <1>5, <1>6, <1>7, <1>8, <1>9, <1>10, <1>11 DEF Next

\* Of the session in the cookie, the token the server expects is in the cookie or in the
\* one reply under way, for any tabs that refresh one at a time, logouts, sessions and
\* faults, up to a lost refresh (refreshSession, withBrowserRefreshLock).
THEOREM ApiAlways == Spec => []ApiInv
    BY InitialApi, StepKeeps, PTL DEF Spec

\* A browser with Web Locks or with one tab, none of whose refreshes fails on its way,
\* never presents a token twice (performRefresh), so the server never ends its family
\* for reuse.
THEOREM BrowserKeepsItsSession == Spec => []NoSelfInflictedReuse
<1>1. ApiInv => NoSelfInflictedReuse
    BY DEF ApiInv, InTurn, NoSelfInflictedReuse
<1> QED
    BY <1>1, ApiAlways, PTL
-----------------------------------------------------------------------------
(* Types.  What ApiInv leaves out of the client, and its bounds.            *)

Accesses == [family : Nat, fresh : BOOLEAN]
Calls == [at : {"idle", "sent", "refused", "refresh", "resent", "ok", "failed"},
          with : Accesses \cup {NoAccess}]

\* Tokens keep their bound on their way: the cookie, a refresh, its reply.
InBounds(k) == k # NoCookie => k[2] \in 1..browser.tokens
Bounded ==
    /\ \A f \in 1..browser.families : current[f] \in 1..browser.tokens
    /\ InBounds(cookie) /\ \A t \in Tabs : \A r \in refresh[t] : InBounds(r.token)

\* Whoever is signed in has an access token; whoever waits has a refresh; a reply
\* that renews has a token.
Client ==
    /\ access \in [Tabs -> Accesses \cup {NoAccess}]
    /\ status \in [Tabs -> {"loading", "authenticated", "anonymous"}]
    /\ call \in [Tabs -> [Purposes -> Calls]]
    /\ leaving \cup told \subseteq browser.tabs
    /\ \A t \in Tabs :
          /\ status[t] = "authenticated" <=> access[t] # NoAccess
          /\ \A p \in Purposes : call[t][p].at = "refresh" => refresh[t] # {}
          /\ \A r \in refresh[t] :
                r.at = "served" /\ r.reply = "renewed" => r.token # NoCookie

\* The start of the client.
LEMMA InitialClient == RealtimeInit => Bounded /\ Client
<1> SUFFICES ASSUME RealtimeInit PROVE Bounded /\ Client
    OBVIOUS
<1>1. browser \in Browsers /\ browser.tokens \in Nat \ {0}
    BY BrowsersAssumption DEF RealtimeInit, Init
<1>2. Bounded
    BY <1>1 DEF RealtimeInit, Init, Bounded, InBounds, NewRefresh
<1>3. Client
    BY <1>1 DEF RealtimeInit, Init, Client, Calls, Accesses, Idle, NewRefresh
<1> QED
    BY <1>2, <1>3

\* Tokens stay in their bounds: the server exchanges none beyond its last.
LEMMA BoundsKept == ApiInv /\ Bounded /\ [Next]_vars => Bounded'
<1> SUFFICES ASSUME ApiInv, Bounded, [Next]_vars PROVE Bounded'
    OBVIOUS
<1>0. browser \in Browsers /\ browser.tabs \subseteq Tabs /\ browser.tokens \in Nat \ {0}
      /\ browser.families \in Nat /\ born \in 1..browser.families
    BY BrowsersAssumption DEF ApiInv, Shape
<1> DEFINE held == <<browser, current, cookie, refresh>>
<1>1. UNCHANGED held => Bounded'
    BY DEF Bounded, InBounds
<1>2. ASSUME NEW t \in browser.tabs, RefreshSession(t), UNCHANGED <<browser, current, cookie>>
      PROVE  Bounded'
    BY <1>0, <1>2 DEF RefreshSession, Bounded, InBounds, NewRefresh, ApiInv, Shape
<1>3. ASSUME NEW t \in browser.tabs, SessionStep(t) PROVE Bounded'
  <2>1. CASE RefreshTimer(t)
      BY <2>1, <1>2 DEF RefreshTimer, server
  <2>2. CASE SignIn(t)
      BY <2>2, <1>0 DEF SignIn, Bounded, InBounds
  <2>3. CASE SignOut(t) \/ SignOutFails(t) \/ HearLogout(t) \/ AccessExpires(t)
      BY <2>3, <1>1 DEF SignOut, SignOutFails, HearLogout, AccessExpires, server
  <2>4. CASE SignedOut(t)
      BY <2>4 DEF SignedOut, Bounded, InBounds, server
  <2>5. ASSUME NEW r \in refresh[t], SendRefresh(t, r) PROVE Bounded'
    <3> DEFINE s == [r EXCEPT !.at = "sent", !.token = cookie]
    <3>1. /\ refresh' = [refresh EXCEPT ![t] = (refresh[t] \ {r}) \cup {s}]
          /\ UNCHANGED <<browser, current, cookie>>
        BY <2>5 DEF SendRefresh, Becomes, server
    <3>2. s.token = cookie
        BY <1>0 DEF ApiInv, Shape, Refreshes
    <3>3. \A u \in Tabs : \A q \in refresh'[u] : q = s \/ q \in refresh[u]
        BY <1>0, <3>1 DEF ApiInv, Shape
    <3> QED
        BY <3>1, <3>2, <3>3 DEF Bounded, InBounds
  <2>6. ASSUME NEW r \in refresh[t], ServeRefresh(t, r) PROVE Bounded'
    <3> DEFINE k == r.token
    <3> DEFINE valid == k # NoCookie /\ k[1] \in alive /\ k[2] = current[k[1]]
    <3> DEFINE s == [at |-> "served", reply |-> IF valid THEN "renewed" ELSE "refused",
                     token |-> IF valid THEN <<k[1], k[2] + 1>> ELSE NoCookie]
    <3>1. /\ refresh' = [refresh EXCEPT ![t] = (refresh[t] \ {r}) \cup {s}]
          /\ current' = IF valid THEN [current EXCEPT ![k[1]] = @ + 1] ELSE current
          /\ valid => current[k[1]] < browser.tokens
          /\ UNCHANGED <<browser, cookie>>
        BY <2>6 DEF ServeRefresh, Becomes
    <3>2. r \in Refreshes /\ k \in Tokens /\ Known(k)
        BY <1>0 DEF ApiInv, Shape, Issued, Refreshes
    <3>3. valid => k[1] \in 1..browser.families /\ current[k[1]] \in 1..browser.tokens
        BY <1>0, <3>2 DEF Known, Bounded
    <3>4. InBounds(s.token)
      <4>1. valid => k[2] + 1 \in 1..browser.tokens
          BY <1>0, <3>1, <3>3
      <4> QED
          BY <4>1 DEF InBounds
    <3>5. \A f \in 1..browser.families : current'[f] \in 1..browser.tokens
      <4> SUFFICES ASSUME NEW f \in 1..browser.families PROVE current'[f] \in 1..browser.tokens
          OBVIOUS
      <4>1. current'[f] = IF valid /\ f = k[1] THEN current[f] + 1 ELSE current[f]
          BY <3>1 DEF ApiInv, Shape
      <4> QED
          BY <1>0, <3>1, <3>3, <4>1 DEF Bounded
    <3>6. \A u \in Tabs : \A q \in refresh'[u] : q = s \/ q \in refresh[u]
        BY <1>0, <3>1 DEF ApiInv, Shape
    <3> QED
        BY <3>1, <3>4, <3>5, <3>6 DEF Bounded, InBounds
  <2>7. ASSUME NEW r \in refresh[t], ReceiveRefresh(t, r) \/ RefreshFails(t, r) PROVE Bounded'
      BY <2>7, <1>0 DEF ReceiveRefresh, RefreshFails, Ends, Bounded, InBounds, ApiInv, Shape, server
  <2> QED
      BY <1>3, <2>1, <2>2, <2>3, <2>4, <2>5, <2>6, <2>7 DEF SessionStep
<1>4. ASSUME NEW t \in browser.tabs, ApiStep(t) PROVE Bounded'
  <2>1. ASSUME NEW p \in Purposes, Miss(t, p) PROVE Bounded'
      BY <2>1, <1>1 DEF Miss, server, session
  <2>2. ASSUME NEW p \in Purposes, Join(t, p) PROVE Bounded'
      BY <2>2, <1>2 DEF Join, server
  <2> QED
      BY <1>3, <1>4, <2>1, <2>2 DEF ApiStep
<1>5. CASE ~ \E t \in browser.tabs : ApiStep(t)
  <2> USE DEF client, session, server, apiVars
  <2>1. CASE UNCHANGED vars
      BY <2>1, <1>1 DEF vars
  <2>2. ASSUME NEW x \in Topics,
               WriteUnversioned(x) \/ \E v \in 1..browser.writes : WriteStamped(x, v)
        PROVE  Bounded'
      BY <2>2, <1>1 DEF WriteUnversioned, WriteStamped
  <2>3. ASSUME NEW m \in owed, PublishMessage(m) PROVE Bounded'
      BY <2>3, <1>1 DEF PublishMessage
  <2>4. CASE Listener \/ Restart \/ \E k \in tickets : TicketExpires(k)
      BY <2>4, <1>1 DEF Listener, Restart, TicketExpires
  <2>5. ASSUME NEW f \in alive, FamilyEnds(f) PROVE Bounded'
      BY <2>5, <1>1 DEF FamilyEnds
  <2>6. ASSUME NEW t \in browser.tabs,
               \/ AskTicket(t) \/ ServeTicket(t) \/ GetTicket(t) \/ Handshake(t) \/ Open(t)
               \/ Break(t) \/ Notice(t) \/ Cleanup(t) \/ Deliver(t)
        PROVE  Bounded'
      BY <2>6, <1>1 DEF AskTicket, ServeTicket, GetTicket, Handshake, Open, Break, Notice,
                        Cleanup, Deliver, Send, Serve, Finish
  <2>7. ASSUME NEW t \in browser.tabs,
               \/ Visit(t) \/ StartFetch(t) \/ ServeFetch(t) \/ EndFetch(t)
               \/ (\E x \in Topics : Mutate(t, x)) \/ EndMutation(t)
               \/ \E v \in 1..browser.writes : ServeMutation(t, v)
        PROVE  Bounded'
      BY <2>7, <1>1 DEF Visit, StartFetch, ServeFetch, EndFetch, Mutate, EndMutation,
                        ServeMutation, Send, Serve, Finish
  <2> QED
      BY <1>5, <2>1, <2>2, <2>3, <2>4, <2>5, <2>6, <2>7 DEF Next
<1> QED
    BY <1>4, <1>5

\* A request that is sent, served, missed or finished stays a request, and only
\* a refused one waits.
LEMMA CallsKept ==
    ASSUME ApiInv, Client, NEW t \in Tabs, NEW p \in Purposes,
           Send(t, p) \/ Serve(t, p) \/ Miss(t, p) \/ Finish(t, p)
    PROVE  Client'
<1>1. PICK c \in Calls : call' = [call EXCEPT ![t][p] = c] /\ c.at # "refresh"
  <2>1. Idle \in Calls /\ Idle.at = "idle" /\ [Idle EXCEPT !.at = "failed"] \in Calls
      BY DEF Idle, Calls
  <2>2. CASE Send(t, p)
    <3>1. [at |-> "sent", with |-> access[t]] \in Calls
        BY DEF Client, Calls
    <3> QED
        BY <2>2, <3>1 DEF Send
  <2>3. CASE Serve(t, p)
    <3> DEFINE at == CASE Accepts(call[t][p].with) -> "ok"
                       [] call[t][p].at = "sent" -> "refused"
                       [] OTHER -> "failed"
    <3>1. at \in {"ok", "refused", "failed"}
        BY <2>3 DEF Serve
    <3>2. call' = [call EXCEPT ![t][p] = [Idle EXCEPT !.at = at]]
        BY <2>3 DEF Serve
    <3> HIDE DEF at
    <3>3. [Idle EXCEPT !.at = at] \in Calls /\ [Idle EXCEPT !.at = at].at = at
        BY <3>1 DEF Idle, Calls
    <3> QED
        BY <3>1, <3>2, <3>3
  <2>4. CASE Miss(t, p)
      BY <2>1, <2>4 DEF Miss, Idle
  <2>5. CASE Finish(t, p)
      BY <2>1, <2>5 DEF Finish
  <2> QED
      BY <2>2, <2>3, <2>4, <2>5
<1>2. UNCHANGED <<browser, access, status, refresh, leaving, told>>
    BY DEF Send, Serve, Miss, Finish, session
<1>3. call' \in [Tabs -> [Purposes -> Calls]]
    BY <1>1 DEF Client
<1>4. \A u \in Tabs, q \in Purposes : call'[u][q].at = "refresh" => call[u][q].at = "refresh"
    BY <1>1 DEF Client
<1> QED
    BY <1>2, <1>3, <1>4 DEF Client

\* Everything the client leaves alone leaves it alone.
LEMMA ClientStays ==
    Client /\ UNCHANGED <<browser, access, status, refresh, leaving, told, call>> => Client'
    BY DEF Client

\* Publishing a session or none keeps the status in step.
LEMMA PublishKeeps ==
    ASSUME ApiInv, Client, NEW t \in Tabs, NEW a \in Accesses \cup {NoAccess}, Publish(t, a)
    PROVE  /\ access' \in [Tabs -> Accesses \cup {NoAccess}]
           /\ status' \in [Tabs -> {"loading", "authenticated", "anonymous"}]
           /\ \A u \in Tabs : status'[u] = "authenticated" <=> access'[u] # NoAccess
<1> DEFINE s == IF a = NoAccess THEN "anonymous" ELSE "authenticated"
<1>1. access' = [access EXCEPT ![t] = a] /\ status' = [status EXCEPT ![t] = s]
    BY DEF Publish
<1>2. s = "authenticated" <=> a # NoAccess
    OBVIOUS
<1> QED
    BY <1>1, <1>2 DEF Client

\* A tab that refreshes waits on: whoever waits has a refresh.
LEMMA StartWaits ==
    ASSUME ApiInv, Client, NEW t \in browser.tabs, RefreshSession(t)
    PROVE  \A u \in Tabs : /\ refresh[u] # {} \/ u = t => refresh'[u] # {}
                           /\ \A r \in refresh'[u] : r \in refresh[u] \/ r.at = "waiting"
<1>1. t \in Tabs
    BY BrowsersAssumption DEF ApiInv, Shape
<1>2. refresh' = [refresh EXCEPT ![t] = IF refresh[t] = {} THEN {NewRefresh} ELSE refresh[t]]
    BY DEF RefreshSession
<1>3. \A u \in Tabs : refresh'[u] = refresh[u] \/ (u = t /\ refresh'[u] = {NewRefresh})
    BY <1>1, <1>2 DEF ApiInv, Shape
<1>4. refresh'[t] # {}
    BY <1>1, <1>2 DEF ApiInv, Shape
<1> QED
    BY <1>3, <1>4 DEF NewRefresh

\* A refresh ends with its requests resumed, so nobody waits for it any more.
LEMMA ResumeKeeps ==
    ASSUME ApiInv, Client, NEW t \in browser.tabs, NEW r \in refresh[t], Ends(t, r),
           NEW a \in Accesses \cup {NoAccess}, Resume(t, a)
    PROVE  /\ call' \in [Tabs -> [Purposes -> Calls]]
           /\ \A u \in Tabs :
                 /\ \A p \in Purposes : call'[u][p].at = "refresh" => refresh'[u] # {}
                 /\ \A q \in refresh'[u] : q \in refresh[u]
<1>1. t \in Tabs /\ refresh' = [refresh EXCEPT ![t] = refresh[t] \ {r}]
    BY BrowsersAssumption DEF ApiInv, Shape, Ends
<1> DEFINE c(p) == IF call[t][p].at # "refresh" THEN call[t][p]
                   ELSE IF a = NoAccess THEN [at |-> "failed", with |-> NoAccess]
                   ELSE [at |-> "resent", with |-> a]
<1>2. call' = [call EXCEPT ![t] = [p \in Purposes |-> c(p)]]
    BY DEF Resume
<1>3. \A p \in Purposes : c(p) \in Calls /\ c(p).at # "refresh"
    BY <1>1 DEF Client, Calls
<1> HIDE DEF c
<1>4. call' \in [Tabs -> [Purposes -> Calls]]
    BY <1>2, <1>3 DEF Client
<1>5. \A p \in Purposes : call'[t][p].at # "refresh"
    BY <1>1, <1>2, <1>3 DEF Client
<1>6. \A u \in Tabs : u # t => call'[u] = call[u] /\ refresh'[u] = refresh[u]
    BY <1>1, <1>2 DEF Client, ApiInv, Shape
<1>7. \A q \in refresh'[t] : q \in refresh[t]
    BY <1>1 DEF ApiInv, Shape
<1> QED
    BY <1>4, <1>5, <1>6, <1>7 DEF Client

\* The steps of a session keep the client in its types.
LEMMA SessionTypes ==
    ASSUME ApiInv, Client, NEW t \in browser.tabs, SessionStep(t)
    PROVE  Client'
<1>0. t \in Tabs /\ browser \in Browsers /\ browser.tabs \subseteq Tabs /\ browser.families \in Nat
    BY BrowsersAssumption DEF ApiInv, Shape
<1>00. born \in 1..browser.families /\ NoAccess \in Accesses \cup {NoAccess}
    BY DEF ApiInv, Shape
<1>1. CASE RefreshTimer(t)
    BY <1>1, StartWaits DEF RefreshTimer, Client
<1>2. CASE SignIn(t)
  <2>1. [family |-> born', fresh |-> TRUE] \in Accesses
      BY <1>2, <1>0, <1>00 DEF SignIn, Accesses
  <2>2. Publish(t, [family |-> born', fresh |-> TRUE])
        /\ UNCHANGED <<browser, refresh, call, leaving, told>>
      BY <1>2 DEF SignIn
  <2> QED
      BY <1>0, <2>1, <2>2, PublishKeeps DEF Client
<1>3. CASE SignOut(t)
    BY <1>3 DEF SignOut, Client
<1>4. CASE SignedOut(t) \/ SignOutFails(t) \/ HearLogout(t)
  <2>1. /\ Publish(t, NoAccess) /\ UNCHANGED <<browser, refresh, call>>
        /\ leaving' \cup told' \subseteq browser.tabs
      BY <1>4 DEF SignedOut, SignOutFails, HearLogout, Client
  <2> QED
      BY <1>0, <1>00, <2>1, PublishKeeps DEF Client
<1>5. CASE AccessExpires(t)
  <2>1. access[t] \in Accesses
      BY <1>5, <1>0 DEF AccessExpires, Client
  <2>2. [access[t] EXCEPT !.fresh = FALSE] \in Accesses
      BY <2>1 DEF Accesses
  <2>3. [access[t] EXCEPT !.fresh = FALSE] # NoAccess /\ access[t] # NoAccess
      BY <2>1, <2>2, BrowsersAssumption DEF Accesses
  <2>4. access' = [access EXCEPT ![t] = [access[t] EXCEPT !.fresh = FALSE]]
      BY <1>5 DEF AccessExpires
  <2>5. access' \in [Tabs -> Accesses \cup {NoAccess}]
        /\ \A u \in Tabs : access'[u] # NoAccess <=> access[u] # NoAccess
      BY <1>0, <2>2, <2>3, <2>4 DEF Client
  <2> QED
      BY <1>5, <2>5 DEF AccessExpires, Client
<1>6. ASSUME NEW r \in refresh[t], SendRefresh(t, r) \/ ServeRefresh(t, r) PROVE Client'
  <2>0. r \in Refreshes
      BY <1>0 DEF ApiInv, Shape
  <2>1. PICK s : /\ refresh' = [refresh EXCEPT ![t] = (refresh[t] \ {r}) \cup {s}]
                 /\ s.at = "served" /\ s.reply = "renewed" => s.token # NoCookie
    <3>1. CASE SendRefresh(t, r)
        BY <2>0, <3>1 DEF SendRefresh, Becomes, Refreshes
    <3>2. CASE ServeRefresh(t, r)
      <4> DEFINE k == r.token
      <4> DEFINE valid == k # NoCookie /\ k[1] \in alive /\ k[2] = current[k[1]]
      <4> DEFINE s == [at |-> "served", reply |-> IF valid THEN "renewed" ELSE "refused",
                       token |-> IF valid THEN <<k[1], k[2] + 1>> ELSE NoCookie]
      <4>1. refresh' = [refresh EXCEPT ![t] = (refresh[t] \ {r}) \cup {s}]
          BY <3>2 DEF ServeRefresh, Becomes
      <4>2. valid => <<k[1], k[2] + 1>> \in Nat \X Nat
          BY <2>0 DEF Refreshes, Tokens
      <4>3. s.at = "served" /\ s.reply = "renewed" => s.token # NoCookie
          BY <4>2, BrowsersAssumption
      <4> QED
          BY <4>1, <4>3
    <3> QED
        BY <1>6, <3>1, <3>2
  <2>2. UNCHANGED <<browser, access, status, call, leaving, told>>
      BY <1>6 DEF SendRefresh, ServeRefresh
  <2>3. \A u \in Tabs : /\ refresh[u] # {} => refresh'[u] # {}
                        /\ \A q \in refresh'[u] : q \in refresh[u] \/ q = s
      BY <1>0, <2>1 DEF ApiInv, Shape
  <2> QED
      BY <2>1, <2>2, <2>3 DEF Client
<1>7. ASSUME NEW r \in refresh[t], ReceiveRefresh(t, r) PROVE Client'
  <2> DEFINE a == IF r.reply = "renewed" THEN [family |-> r.token[1], fresh |-> TRUE] ELSE NoAccess
  <2>1. /\ r.at = "served" /\ Publish(t, a) /\ Resume(t, a) /\ Ends(t, r)
        /\ UNCHANGED <<browser, leaving, told>>
      BY <1>7 DEF ReceiveRefresh
  <2>2. r.reply = "renewed" => r.token \in Nat \X Nat
      BY <1>0, <2>1 DEF Client, ApiInv, Shape, Refreshes, Tokens
  <2>3. a \in Accesses \cup {NoAccess}
      BY <2>2 DEF Accesses
  <2> HIDE DEF a
  <2>4. \A u \in Tabs : /\ \A p \in Purposes : call'[u][p].at = "refresh" => refresh'[u] # {}
                        /\ \A q \in refresh'[u] : q \in refresh[u]
      BY <2>1, <2>3, ResumeKeeps
  <2>5. call' \in [Tabs -> [Purposes -> Calls]]
      BY <2>1, <2>3, ResumeKeeps
  <2> QED
      BY <1>0, <2>1, <2>3, <2>4, <2>5, PublishKeeps DEF Client
<1>8. ASSUME NEW r \in refresh[t], RefreshFails(t, r) PROVE Client'
  <2>1. Resume(t, NoAccess) /\ Ends(t, r) /\ UNCHANGED <<browser, access, status, leaving, told>>
      BY <1>8 DEF RefreshFails
  <2>2. \A u \in Tabs : /\ \A p \in Purposes : call'[u][p].at = "refresh" => refresh'[u] # {}
                        /\ \A q \in refresh'[u] : q \in refresh[u]
      BY <1>00, <2>1, ResumeKeeps
  <2>3. call' \in [Tabs -> [Purposes -> Calls]]
      BY <1>00, <2>1, ResumeKeeps
  <2> QED
      BY <2>1, <2>2, <2>3 DEF Client
<1> QED
    BY <1>1, <1>2, <1>3, <1>4, <1>5, <1>6, <1>7, <1>8 DEF SessionStep

\* Every step keeps the client in its types.
LEMMA ClientKept == ApiInv /\ Client /\ [Next]_vars => Client'
<1> SUFFICES ASSUME ApiInv, Client, [Next]_vars PROVE Client'
    OBVIOUS
<1>0. browser.tabs \subseteq Tabs /\ Purposes = {"fetch", "mutate", "ticket"}
    BY BrowsersAssumption, RealtimeAssumption DEF ApiInv, Shape
<1>1. ASSUME NEW t \in browser.tabs, ApiStep(t) PROVE Client'
  <2>1. ASSUME NEW p \in Purposes, Miss(t, p) PROVE Client'
      BY <1>0, <2>1, CallsKept
  <2>2. ASSUME NEW p \in Purposes, Join(t, p) PROVE Client'
    <3>1. /\ call' = [call EXCEPT ![t][p].at = "refresh"] /\ RefreshSession(t)
          /\ UNCHANGED <<browser, access, status, leaving, told>>
        BY <2>2 DEF Join
    <3>0. t \in Tabs /\ call \in [Tabs -> [Purposes -> Calls]] /\ call[t][p] \in Calls
        BY <1>0 DEF Client
    <3>2. [call[t][p] EXCEPT !.at = "refresh"] \in Calls
        BY <3>0 DEF Calls
    <3>3. call' \in [Tabs -> [Purposes -> Calls]]
        BY <3>0, <3>1, <3>2
    <3>4. \A u \in Tabs : u # t => call'[u] = call[u]
        BY <3>0, <3>1
    <3> QED
        BY <3>1, <3>3, <3>4, StartWaits DEF Client
  <2> QED
      BY <1>1, <2>1, <2>2, SessionTypes DEF ApiStep
<1>2. CASE ~ \E t \in browser.tabs : ApiStep(t)
  <2> USE DEF client, session, server, apiVars
  <2>1. CASE UNCHANGED vars
      BY <2>1, ClientStays DEF vars
  <2>2. ASSUME NEW x \in Topics,
               WriteUnversioned(x) \/ \E v \in 1..browser.writes : WriteStamped(x, v)
        PROVE  Client'
      BY <2>2, ClientStays DEF WriteUnversioned, WriteStamped
  <2>3. ASSUME NEW m \in owed, PublishMessage(m) PROVE Client'
      BY <2>3, ClientStays DEF PublishMessage
  <2>4. CASE Listener \/ Restart \/ \E k \in tickets : TicketExpires(k)
      BY <2>4, ClientStays DEF Listener, Restart, TicketExpires
  <2>5. ASSUME NEW f \in alive, FamilyEnds(f) PROVE Client'
      BY <2>5, ClientStays DEF FamilyEnds
  <2>6. ASSUME NEW t \in browser.tabs,
               Handshake(t) \/ Open(t) \/ Break(t) \/ Notice(t) \/ Cleanup(t) \/ Deliver(t) \/ Visit(t)
        PROVE  Client'
      BY <2>6, ClientStays DEF Handshake, Open, Break, Notice, Cleanup, Deliver, Visit
  <2>7. ASSUME NEW t \in browser.tabs,
               \/ AskTicket(t) \/ ServeTicket(t) \/ GetTicket(t)
               \/ StartFetch(t) \/ ServeFetch(t) \/ EndFetch(t)
               \/ (\E x \in Topics : Mutate(t, x)) \/ EndMutation(t)
               \/ \E v \in 1..browser.writes : ServeMutation(t, v)
        PROVE  Client'
      BY <1>0, <2>7, CallsKept DEF AskTicket, ServeTicket, GetTicket, StartFetch, ServeFetch,
             EndFetch, Mutate, EndMutation, ServeMutation
  <2> QED
      BY <1>2, <2>1, <2>2, <2>3, <2>4, <2>5, <2>6, <2>7 DEF Next
<1> QED
    BY <1>1, <1>2
-----------------------------------------------------------------------------
(* The session that a tab holds goes on.                                    *)

\* A tab holds a session of a family that was made.
Held == \A t \in Tabs : access[t] # NoAccess => access[t].family \in 1..born

\* The refresh under way is of the family of the cookie, or of one that ended.
OneCookie ==
    \A t \in Tabs : \A r \in refresh[t] :
        InFlight(r) /\ r.token # NoCookie
        => IF cookie = NoCookie THEN r.token[1] \notin alive ELSE r.token[1] = cookie[1]

\* As long as the reply to a logout is under way, the cookie is of no family alive.
LogoutEnds == leaving # {} => cookie = NoCookie \/ cookie[1] \notin alive

\* The token that renews a session is in the cookie or in the reply under way.
Renewable ==
    \A t \in Tabs :
        access[t] # NoAccess /\ access[t].family \in alive
        => cookie = <<access[t].family, current[access[t].family]>> \/ Coming(access[t].family)

Regular == ~lost /\ ~overtaken /\ Exclusive
Continues == Held /\ (Regular => OneCookie /\ LogoutEnds /\ Renewable)

\* A browser is opened with a saved session and with no tab signed in.
LEMMA InitialContinues == RealtimeInit => Continues
    BY DEF RealtimeInit, Init, Continues, Held, OneCookie, LogoutEnds, Renewable, InFlight, NewRefresh

\* What the invariant speaks of.
sessions == <<browser, alive, born, current, cookie, access, refresh, leaving, lost, overtaken>>

LEMMA ContinuesStays == Continues /\ UNCHANGED sessions => Continues'
    BY DEF Continues, sessions, Held, Regular, Exclusive, OneCookie, LogoutEnds, Renewable, Coming, InFlight

\* Families end, tabs give their sessions up; a logout may wait for its reply where the
\* cookie's family ended.
LEMMA FewerSessions ==
    ASSUME Continues, alive' \subseteq alive,
           \A t \in Tabs : access'[t] = NoAccess \/ (access[t] # NoAccess /\ access'[t].family = access[t].family),
           leaving' \subseteq leaving \/ cookie = NoCookie \/ cookie[1] \notin alive',
           UNCHANGED <<browser, born, current, cookie, refresh, lost, overtaken>>
    PROVE  Continues'
<1>1. Held'
    BY DEF Continues, Held
<1>2. Regular => OneCookie' /\ LogoutEnds' /\ Renewable'
    BY DEF Continues, Regular, OneCookie, LogoutEnds, Renewable, Coming, InFlight
<1> QED
    BY <1>1, <1>2 DEF Continues, Regular, Exclusive

\* refreshSession puts nothing on its way.
LEMMA StartContinues ==
    ASSUME ApiInv, Continues, NEW t \in browser.tabs, RefreshSession(t),
           UNCHANGED <<browser, alive, born, current, cookie, access, leaving, lost, overtaken>>
    PROVE  Continues'
<1>1. t \in Tabs
    BY BrowsersAssumption DEF ApiInv, Shape
<1>2. \A u \in Tabs : refresh'[u] = refresh[u] \/ (refresh[u] = {} /\ refresh'[u] = {NewRefresh})
    BY <1>1 DEF RefreshSession, ApiInv, Shape
<1>3. Held'
    BY DEF Continues, Held
<1>4. Regular => OneCookie'
    BY <1>2 DEF Continues, Regular, OneCookie, InFlight, NewRefresh
<1>5. \A f : Coming(f) => Coming(f)'
    BY <1>2 DEF Coming
<1>6. Regular => Renewable' /\ LogoutEnds'
    BY <1>5 DEF Continues, Regular, Renewable, LogoutEnds
<1> QED
    BY <1>3, <1>4, <1>6 DEF Continues, Regular, Exclusive

\* A refresh leaves with the cookie, when no other is under way.
LEMMA SendContinues ==
    ASSUME ApiInv, Continues, NEW t \in browser.tabs, NEW r \in refresh[t], SendRefresh(t, r)
    PROVE  Continues'
<1> DEFINE s == [r EXCEPT !.at = "sent", !.token = cookie]
<1>1. t \in Tabs /\ r \in Refreshes /\ refresh[t] = {r}
    BY BrowsersAssumption DEF ApiInv, Shape, Shared
<1>2. s.at = "sent" /\ s.token = cookie
    BY <1>1 DEF Refreshes
<1>3. /\ refresh' = [refresh EXCEPT ![t] = {s}] /\ r.at = "waiting"
      /\ browser.locks => lock = NoTab
      /\ UNCHANGED <<browser, alive, born, current, cookie, access, leaving, lost, overtaken>>
    BY <1>1 DEF SendRefresh, Becomes, ApiInv, Shape, server
<1>4. \A u \in Tabs : refresh'[u] = IF u = t THEN {s} ELSE refresh[u]
    BY <1>1, <1>3 DEF ApiInv, Shape
<1> HIDE DEF s
<1>5. Held'
    BY <1>3 DEF Continues, Held
<1>6. ASSUME Exclusive, NEW u \in Tabs, NEW q \in refresh[u], InFlight(q) PROVE FALSE
  <2>1. u \in browser.tabs
      BY <1>6 DEF ApiInv, Shared
  <2>2. CASE browser.locks
      BY <2>2, <1>3, <1>6, BrowsersAssumption DEF ApiInv, Shared
  <2>3. CASE ~browser.locks
    <3>1. u = t
        BY <1>6, <2>1, <2>3 DEF Exclusive
    <3> QED
        BY <3>1, <1>1, <1>3, <1>6 DEF InFlight
  <2> QED
      BY <2>2, <2>3
<1>7. ASSUME Regular PROVE OneCookie' /\ LogoutEnds' /\ Renewable'
  <2>1. LogoutEnds'
      BY <1>3, <1>7 DEF Continues, LogoutEnds
  <2>2. Renewable'
      BY <1>3, <1>6, <1>7 DEF Continues, Regular, Renewable, Coming, InFlight
  <2>4. ASSUME NEW u \in Tabs, NEW q \in refresh'[u], InFlight(q), q.token # NoCookie
        PROVE  q.token = cookie
      BY <1>2, <1>4, <1>6, <1>7, <2>4 DEF Regular
  <2>5. OneCookie'
      BY <1>3, <2>4 DEF OneCookie, InFlight
  <2> QED
      BY <2>1, <2>2, <2>5
<1> QED
    BY <1>3, <1>5, <1>7 DEF Continues, Regular, Exclusive

\* The server exchanges the token of the cookie's family; the sessions of that family
\* are renewed by the reply.
LEMMA ServeContinues ==
    ASSUME ApiInv, Continues, NEW t \in browser.tabs, NEW r \in refresh[t], ServeRefresh(t, r)
    PROVE  Continues'
<1> DEFINE k == r.token
           valid == k # NoCookie /\ k[1] \in alive /\ k[2] = current[k[1]]
           s == [at |-> "served", reply |-> IF valid THEN "renewed" ELSE "refused",
                 token |-> IF valid THEN <<k[1], k[2] + 1>> ELSE NoCookie]
<1>1. t \in Tabs /\ r \in Refreshes /\ refresh[t] = {r} /\ r.at = "sent" /\ InFlight(r)
    BY BrowsersAssumption DEF ApiInv, Shape, Shared, ServeRefresh, InFlight
<1>2. /\ refresh' = [refresh EXCEPT ![t] = {s}]
      /\ current' = IF valid THEN [current EXCEPT ![k[1]] = @ + 1] ELSE current
      /\ alive' = IF valid \/ k = NoCookie THEN alive ELSE alive \ {k[1]}
      /\ UNCHANGED <<browser, born, cookie, access, leaving, lost, overtaken>>
    BY <1>1 DEF ServeRefresh, Becomes, ApiInv, Shape
<1>3. \A u \in Tabs : refresh'[u] = IF u = t THEN {s} ELSE refresh[u]
    BY <1>1, <1>2 DEF ApiInv, Shape
<1>4. alive' \subseteq alive /\ Held'
    BY <1>2 DEF Continues, Held
<1>5. k \in Tokens /\ Known(k) /\ born \in 1..browser.families /\ browser.families \in Nat
    BY <1>1, BrowsersAssumption DEF ApiInv, Shape, Issued, Refreshes
<1>6. valid => k[1] \in 1..browser.families /\ k[1] \in Nat /\ k[2] \in Nat
    BY <1>5 DEF Known, Tokens
<1>7. ASSUME Regular PROVE OneCookie' /\ LogoutEnds' /\ Renewable'
  <2>1. \A u \in Tabs : \A q \in refresh[u] : InFlight(q) => u = t /\ q = r
      BY <1>1, <1>7, OnlyOne DEF Regular
  <2>2. OneCookie /\ LogoutEnds /\ Renewable /\ RefreshInTurn
      BY <1>7 DEF Continues, ApiInv, InTurn, Regular
  <2>3. ~valid => UNCHANGED <<alive, current>>
      BY <1>1, <1>2, <2>2 DEF RefreshInTurn
  <2>4. LogoutEnds'
      BY <1>2, <1>4, <2>2 DEF LogoutEnds
  <2>5. ASSUME valid PROVE cookie # NoCookie /\ cookie[1] = k[1]
      BY <1>1, <2>2, <2>5 DEF OneCookie
  <2>6. OneCookie'
    <3> SUFFICES ASSUME NEW u \in Tabs, NEW q \in refresh'[u], InFlight(q), q.token # NoCookie
                 PROVE  cookie # NoCookie /\ q.token[1] = cookie[1]
        BY <1>2 DEF OneCookie, InFlight
    <3>1. q = s
        BY <1>3, <2>1
    <3>2. valid /\ q.token = <<k[1], k[2] + 1>>
        BY <3>1
    <3> QED
        BY <2>5, <3>2
  <2>7. Renewable'
    <3> SUFFICES ASSUME NEW u \in Tabs, access[u] # NoAccess, access[u].family \in alive'
                 PROVE  LET f == access[u].family IN cookie = <<f, current'[f]>> \/ Coming(f)'
        BY <1>2 DEF Renewable, Coming
    <3> DEFINE f == access[u].family
    <3>1. f \in alive /\ ~Coming(f)
        BY <1>1, <1>4, <2>1 DEF Coming, InFlight
    <3>2. cookie = <<f, current[f]>>
        BY <2>2, <3>1 DEF Renewable
    <3>3. CASE valid
      <4>1. f = k[1]
          BY <2>5, <3>2, <3>3
      <4>2. current'[k[1]] = k[2] + 1
        <5>1. current' = [current EXCEPT ![k[1]] = current[k[1]] + 1]
            BY <1>2, <3>3
        <5> QED
            BY <1>6, <3>3, <5>1 DEF ApiInv, Shape
      <4>3. ASSUME NEW g, g = k[1] PROVE Coming(g)'
        <5>1. s \in refresh'[t] /\ s.at = "served" /\ s.token = <<g, current'[g]>>
            BY <1>3, <1>1, <3>3, <4>2, <4>3
        <5> HIDE DEF s
        <5> QED
            BY <1>1, <5>1 DEF Coming
      <4>4. \A g : g = k[1] => Coming(g)'
          BY <4>3
      <4> QED
          BY <1>2, <4>1, <4>4 DEF Coming
    <3>4. CASE ~valid
        BY <2>3, <3>2, <3>4
    <3> QED
        BY <3>3, <3>4
  <2> QED
      BY <2>4, <2>6, <2>7
<1> QED
    BY <1>2, <1>4, <1>7 DEF Continues, Regular, Exclusive

\* The reply renews the session of the tab and of every tab of its family.
LEMMA ReceiveContinues ==
    ASSUME ApiInv, Client, Continues, NEW t \in browser.tabs, NEW r \in refresh[t],
           ReceiveRefresh(t, r)
    PROVE  Continues'
<1> DEFINE a == IF r.reply = "renewed" THEN [family |-> r.token[1], fresh |-> TRUE] ELSE NoAccess
<1>1. /\ r.at = "served" /\ cookie' = IF r.reply = "renewed" THEN r.token ELSE cookie
      /\ access' = [access EXCEPT ![t] = a]
      /\ Ends(t, r) /\ lock' = Unlocked(t)
      /\ UNCHANGED <<browser, server, leaving, lost, overtaken>>
    BY DEF ReceiveRefresh, Publish
<1>2. /\ t \in Tabs /\ r \in Refreshes /\ Known(r.token)
      /\ Exclusive => \A u \in Tabs : \A q \in refresh'[u] : ~InFlight(q)
    BY <1>1, EndKeeps
<1>3. \A u \in Tabs : access'[u] = IF u = t THEN a ELSE access[u]
    BY <1>1, <1>2 DEF Client
<1>4. r.reply = "renewed" <=> r.token # NoCookie
    BY <1>1, <1>2 DEF ApiInv, Answered
<1>5. r.token # NoCookie => r.token = <<r.token[1], r.token[2]>>
    BY <1>2 DEF Refreshes, Tokens
<1>6. UNCHANGED <<alive, born, current>>
    BY <1>1 DEF server
<1>7. Held'
    BY <1>3, <1>4, <1>6, <1>2 DEF Continues, Held, Known
<1>8. ASSUME Regular PROVE OneCookie' /\ LogoutEnds' /\ Renewable'
  <2>1. OneCookie /\ LogoutEnds /\ Renewable /\ RefreshInTurn
      BY <1>8 DEF Continues, ApiInv, InTurn, Regular
  <2>2. OneCookie'
      BY <1>2, <1>8 DEF OneCookie, Regular, InFlight
  <2>3. ASSUME r.token # NoCookie
        PROVE  /\ IF cookie = NoCookie THEN r.token[1] \notin alive ELSE r.token[1] = cookie[1]
               /\ r.token[1] \in alive => r.token = <<r.token[1], current[r.token[1]]>>
      BY <1>1, <1>2, <1>5, <2>1, <2>3 DEF OneCookie, RefreshInTurn, InFlight
  <2>4. LogoutEnds'
      BY <1>1, <1>4, <1>6, <2>1, <2>3 DEF LogoutEnds
  <2>5. ASSUME NEW u \in Tabs, access'[u] # NoAccess, access'[u].family \in alive
        PROVE  cookie' = <<access'[u].family, current[access'[u].family]>>
    <3> DEFINE f == access'[u].family
    <3>1. CASE u = t
      <4>1. r.reply = "renewed" /\ f = r.token[1]
          BY <1>3, <2>5, <3>1
      <4> QED
          BY <1>1, <1>4, <2>3, <2>5, <4>1
    <3>2. CASE u # t
      <4>1. access[u] # NoAccess /\ f = access[u].family
          BY <1>3, <2>5, <3>2
      <4>2. CASE Coming(f)
        <5>0. PICK v \in Tabs : \E q \in refresh[v] : q.at = "served" /\ q.token = <<f, current[f]>>
            BY <4>2 DEF Coming
        <5>1. PICK q \in refresh[v] : q.at = "served" /\ q.token = <<f, current[f]>>
            BY <5>0
        <5>2. q = r
            BY <1>1, <1>2, <1>8, <5>1, OnlyOne DEF Regular, InFlight
        <5>3. r.token # NoCookie
          <6>1. f \in Nat /\ current[f] \in Nat
            <7>1. f \in 1..born /\ born \in 1..browser.families /\ browser.families \in Nat
                BY <4>1, BrowsersAssumption DEF Continues, Held, ApiInv, Shape
            <7> QED
                BY <7>1 DEF ApiInv, Shape
          <6> QED
              BY <5>1, <5>2, <6>1, BrowsersAssumption
        <5> QED
            BY <1>1, <1>4, <5>1, <5>2, <5>3
      <4>3. CASE cookie = <<f, current[f]>>
        <5>1. CASE r.token = NoCookie
            BY <1>1, <1>4, <4>3, <5>1
        <5>2. CASE r.token # NoCookie
          <6>1. cookie # NoCookie
            <7>1. f \in Nat /\ current[f] \in Nat
              <8>1. f \in 1..born /\ born \in 1..browser.families /\ browser.families \in Nat
                  BY <4>1, BrowsersAssumption DEF Continues, Held, ApiInv, Shape
              <8> QED
                  BY <8>1 DEF ApiInv, Shape
            <7> QED
                BY <4>3, <7>1, BrowsersAssumption
          <6>2. r.token[1] = f
              BY <2>3, <4>3, <5>2, <6>1
          <6> QED
              BY <1>1, <1>4, <2>3, <2>5, <5>2, <6>2
        <5> QED
            BY <5>1, <5>2
      <4> QED
          BY <2>1, <2>5, <4>1, <4>2, <4>3 DEF Renewable
    <3> QED
        BY <3>1, <3>2
  <2>6. Renewable'
      BY <1>6, <2>5 DEF Renewable
  <2> QED
      BY <2>2, <2>4, <2>6
<1> QED
    BY <1>1, <1>7, <1>8 DEF Continues, Regular, Exclusive

\* A login that crosses nothing leaves one session, its own.
LEMMA SignInContinues ==
    ASSUME ApiInv, Client, Continues, NEW t \in browser.tabs, SignIn(t)
    PROVE  Continues'
<1>1. /\ born < browser.families /\ born' = born + 1 /\ alive' = alive \cup {born + 1}
      /\ cookie' = <<born + 1, 1>> /\ overtaken' = (overtaken \/ Crossed(t))
      /\ access' = [access EXCEPT ![t] = [family |-> born + 1, fresh |-> TRUE]]
      /\ UNCHANGED <<browser, current, refresh, leaving, lost>>
    BY DEF SignIn, Publish
<1>2. t \in Tabs /\ browser.families \in Nat /\ born \in 1..browser.families /\ alive \subseteq 1..born
    BY BrowsersAssumption DEF ApiInv, Shape
<1>3. \A u \in Tabs : access'[u] = IF u = t THEN [family |-> born + 1, fresh |-> TRUE] ELSE access[u]
    BY <1>1, <1>2 DEF Client
<1>4. current[born + 1] = 1
    BY <1>1, <1>2 DEF ApiInv, Shape
<1>5. Held'
  <2> SUFFICES ASSUME NEW u \in Tabs, access'[u] # NoAccess PROVE access'[u].family \in 1..born + 1
      BY <1>1 DEF Held
  <2>1. u # t => access[u].family \in 1..born
      BY <1>3 DEF Continues, Held
  <2> QED
      BY <1>2, <1>3, <2>1
<1>6. ASSUME Regular' PROVE OneCookie' /\ LogoutEnds' /\ Renewable'
  <2>1. ~Crossed(t)
      BY <1>1, <1>6 DEF Regular
  <2>2. OneCookie' /\ LogoutEnds'
      BY <1>1, <2>1 DEF Crossed, OneCookie, LogoutEnds, InFlight
  <2>3. ASSUME NEW u \in Tabs, access'[u] # NoAccess, access'[u].family \in alive' PROVE u = t
    <3>1. SUFFICES ASSUME u # t PROVE FALSE
        OBVIOUS
    <3>2. access[u] # NoAccess /\ access[u].family \in 1..born /\ access[u].family \in alive'
        BY <1>3, <2>3, <3>1 DEF Continues, Held
    <3>3. access[u].family \in alive
        BY <1>1, <1>2, <3>2
    <3> QED
        BY <2>1, <3>1, <3>2, <3>3 DEF Crossed
  <2>4. Renewable'
      BY <1>1, <1>3, <1>4, <2>3 DEF Renewable
  <2> QED
      BY <2>2, <2>4
<1> QED
    BY <1>5, <1>6 DEF Continues

\* The reply to a logout clears the cookie of a family that ended.
LEMMA SignedOutContinues ==
    ASSUME ApiInv, Client, Continues, NEW t \in browser.tabs, SignedOut(t)
    PROVE  Continues'
<1>1. /\ t \in leaving /\ leaving' \subseteq leaving
      /\ access' = [access EXCEPT ![t] = NoAccess]
      /\ cookie' = NoCookie \/ cookie' = cookie
      /\ UNCHANGED <<browser, alive, born, current, refresh, lost, overtaken>>
    BY DEF SignedOut, Publish, server
<1>2. t \in Tabs
    BY BrowsersAssumption DEF ApiInv, Shape
<1>3. \A u \in Tabs : access'[u] = IF u = t THEN NoAccess ELSE access[u]
    BY <1>1, <1>2 DEF Client
<1>4. Held'
    BY <1>1, <1>3 DEF Continues, Held
<1>5. ASSUME Regular PROVE OneCookie' /\ LogoutEnds' /\ Renewable'
  <2>1. OneCookie /\ LogoutEnds /\ Renewable /\ (cookie = NoCookie \/ cookie[1] \notin alive)
      BY <1>1, <1>5 DEF Continues, LogoutEnds
  <2>2. OneCookie' /\ LogoutEnds'
      BY <1>1, <2>1 DEF OneCookie, LogoutEnds, InFlight
  <2>3. ASSUME NEW u \in Tabs, access'[u] # NoAccess, access'[u].family \in alive PROVE FALSE
    <3> DEFINE f == access[u].family
    <3>1. access[u] # NoAccess /\ f \in alive
        BY <1>3, <2>3
    <3>2. f \in Nat /\ current[f] \in Nat
      <4>1. f \in 1..born /\ born \in 1..browser.families /\ browser.families \in Nat
          BY <3>1, BrowsersAssumption DEF Continues, Held, ApiInv, Shape
      <4> QED
          BY <4>1 DEF ApiInv, Shape
    <3>3. <<f, current[f]>> # NoCookie
        BY <3>2, BrowsersAssumption
    <3>4. CASE cookie = <<f, current[f]>>
        BY <2>1, <3>1, <3>3, <3>4
    <3>5. CASE Coming(f)
      <4>0. PICK v \in Tabs : \E q \in refresh[v] : q.at = "served" /\ q.token = <<f, current[f]>>
          BY <3>5 DEF Coming
      <4>1. PICK q \in refresh[v] : q.at = "served" /\ q.token = <<f, current[f]>>
          BY <4>0
      <4>2. IF cookie = NoCookie THEN q.token[1] \notin alive ELSE q.token[1] = cookie[1]
          BY <2>1, <3>3, <4>1 DEF OneCookie, InFlight
      <4> QED
          BY <2>1, <3>1, <4>1, <4>2
    <3> QED
        BY <2>1, <3>1, <3>4, <3>5 DEF Renewable
  <2>4. Renewable'
      BY <1>1, <2>3 DEF Renewable
  <2> QED
      BY <2>2, <2>4
<1> QED
    BY <1>1, <1>4, <1>5 DEF Continues, Regular, Exclusive

\* Every step of a tab's session keeps the sessions going.
LEMMA SessionKeepsOn ==
    ASSUME ApiInv, Client, Continues, NEW t \in browser.tabs, SessionStep(t)
    PROVE  Continues'
<1>0. t \in Tabs
    BY BrowsersAssumption DEF ApiInv, Shape
<1>1. CASE RefreshTimer(t)
    BY <1>1, StartContinues DEF RefreshTimer, server
<1>2. CASE SignIn(t)
    BY <1>2, SignInContinues
<1>3. CASE SignOut(t)
  <2>1. /\ alive' \subseteq alive /\ (cookie = NoCookie \/ cookie[1] \notin alive')
        /\ UNCHANGED <<browser, born, current, cookie, access, refresh, lost, overtaken>>
      BY <1>3 DEF SignOut
  <2> QED
      BY <2>1, FewerSessions
<1>4. CASE SignedOut(t)
    BY <1>4, SignedOutContinues
<1>5. CASE SignOutFails(t) \/ HearLogout(t)
  <2>1. /\ access' = [access EXCEPT ![t] = NoAccess]
        /\ UNCHANGED <<browser, alive, born, current, cookie, refresh, leaving, lost, overtaken>>
      BY <1>5 DEF SignOutFails, HearLogout, Publish, server
  <2>2. \A u \in Tabs : access'[u] = NoAccess \/ (access[u] # NoAccess /\ access'[u].family = access[u].family)
      BY <1>0, <2>1 DEF Client
  <2> QED
      BY <2>1, <2>2, FewerSessions
<1>6. CASE AccessExpires(t)
  <2>1. /\ access[t] # NoAccess /\ access' = [access EXCEPT ![t].fresh = FALSE]
        /\ UNCHANGED <<browser, alive, born, current, cookie, refresh, leaving, lost, overtaken>>
      BY <1>6 DEF AccessExpires, server
  <2>2. access[t] \in Accesses
      BY <1>0, <2>1 DEF Client
  <2>3. access' = [access EXCEPT ![t] = [access[t] EXCEPT !.fresh = FALSE]]
        /\ [access[t] EXCEPT !.fresh = FALSE].family = access[t].family
      BY <2>1, <2>2 DEF Accesses
  <2>4. \A u \in Tabs : access'[u] = NoAccess \/ (access[u] # NoAccess /\ access'[u].family = access[u].family)
      BY <1>0, <2>1, <2>3 DEF Client
  <2> QED
      BY <2>1, <2>4, FewerSessions
<1>7. ASSUME NEW r \in refresh[t], SendRefresh(t, r) \/ ServeRefresh(t, r) \/ ReceiveRefresh(t, r)
      PROVE  Continues'
    BY <1>7, SendContinues, ServeContinues, ReceiveContinues
<1>8. ASSUME NEW r \in refresh[t], RefreshFails(t, r) PROVE Continues'
    BY <1>8 DEF RefreshFails, Continues, Held, Regular, server
<1> QED
    BY <1>1, <1>2, <1>3, <1>4, <1>5, <1>6, <1>7, <1>8 DEF SessionStep

\* Every step of the tabs, the backend and the writers keeps the sessions going.
LEMMA StepContinues == ApiInv /\ Client /\ Continues /\ [Next]_vars => Continues'
<1> SUFFICES ASSUME ApiInv, Client, Continues, [Next]_vars PROVE Continues'
    OBVIOUS
<1>1. ASSUME NEW t \in browser.tabs, ApiStep(t) PROVE Continues'
  <2>1. ASSUME NEW p \in Purposes, Miss(t, p) PROVE Continues'
      BY <2>1, ContinuesStays DEF Miss, sessions, server, session
  <2>2. ASSUME NEW p \in Purposes, Join(t, p) PROVE Continues'
      BY <2>2, StartContinues DEF Join, server
  <2> QED
      BY <1>1, <2>1, <2>2, SessionKeepsOn DEF ApiStep
<1>2. CASE ~ \E t \in browser.tabs : ApiStep(t)
  <2> USE DEF sessions, client, session, server, apiVars
  <2>1. CASE UNCHANGED vars
      BY <2>1, ContinuesStays DEF vars
  <2>2. ASSUME NEW x \in Topics,
               WriteUnversioned(x) \/ \E v \in 1..browser.writes : WriteStamped(x, v)
        PROVE  Continues'
      BY <2>2, ContinuesStays DEF WriteUnversioned, WriteStamped
  <2>3. ASSUME NEW m \in owed, PublishMessage(m) PROVE Continues'
      BY <2>3, ContinuesStays DEF PublishMessage
  <2>4. CASE Listener \/ Restart \/ \E k \in tickets : TicketExpires(k)
      BY <2>4, ContinuesStays DEF Listener, Restart, TicketExpires
  <2>5. ASSUME NEW f \in alive, FamilyEnds(f) PROVE Continues'
    <3>1. /\ alive' \subseteq alive
          /\ UNCHANGED <<browser, born, current, cookie, access, refresh, leaving, lost, overtaken>>
        BY <2>5 DEF FamilyEnds
    <3>2. \A u \in Tabs : access'[u] = NoAccess \/ (access[u] # NoAccess /\ access'[u].family = access[u].family)
        BY <3>1
    <3> QED
        BY <3>1, <3>2, FewerSessions
  <2>6. ASSUME NEW t \in browser.tabs,
               \/ AskTicket(t) \/ ServeTicket(t) \/ GetTicket(t) \/ Handshake(t) \/ Open(t)
               \/ Break(t) \/ Notice(t) \/ Cleanup(t) \/ Deliver(t)
        PROVE  Continues'
      BY <2>6, ContinuesStays DEF AskTicket, ServeTicket, GetTicket, Handshake, Open, Break, Notice,
                        Cleanup, Deliver, Send, Serve, Finish
  <2>7. ASSUME NEW t \in browser.tabs,
               \/ Visit(t) \/ StartFetch(t) \/ ServeFetch(t) \/ EndFetch(t)
               \/ (\E x \in Topics : Mutate(t, x)) \/ EndMutation(t)
               \/ \E v \in 1..browser.writes : ServeMutation(t, v)
        PROVE  Continues'
      BY <2>7, ContinuesStays DEF Visit, StartFetch, ServeFetch, EndFetch, Mutate, EndMutation,
                        ServeMutation, Send, Serve, Finish
  <2> QED
      BY <1>2, <2>1, <2>2, <2>3, <2>4, <2>5, <2>6, <2>7 DEF Next
<1> QED
    BY <1>1, <1>2

\* A tab that is signed in to a family that lives can renew its session: the token the
\* server expects is in the cookie or in a reply under way, for any tabs that refresh
\* one at a time, whatever logouts and ended families come between (logoutSession,
\* performRefresh), up to a lost refresh and a login that crossed another's reply.
THEOREM SessionsContinue == Spec => []SessionContinues
<1>1. RealtimeInit => Client
    BY InitialClient
<1>2. Continues => SessionContinues
    BY DEF Continues, Regular, Renewable, SessionContinues
<1> QED
    BY <1>1, <1>2, InitialContinues, StepContinues, ClientKept, ApiAlways, PTL DEF Spec
-----------------------------------------------------------------------------
(* Types of the notifications.                                              *)

Messages == [topic : Topics, version : Nat, number : Nat]
Sockets == {"none", "asking", "opening", "accepted", "open"}

Notified ==
    /\ truth \in [Topics -> Nat] /\ owed \subseteq Messages
    /\ conn \in [Tabs -> Nat] /\ queue \in [Tabs -> Seq(Messages)]
    /\ socket \in [Tabs -> Sockets] /\ attempts \in [Tabs -> Nat]
    /\ newest \in [Tabs -> [Topics -> Nat]]
    /\ dirty \in [Tabs -> SUBSET Topics] /\ asked \in [Tabs -> SUBSET Topics]
    /\ wrote \in [Tabs -> SUBSET Topics] /\ gap \in [Tabs -> SUBSET Topics]
    /\ reply \in [Tabs -> [Topics -> Int]] /\ view \in [Tabs -> [Topics -> Int]]
    /\ saved \in [Tabs -> Nat]

Types == ApiInv /\ Client /\ Notified

\* What a request does to the calls.
LEMMA Requests ==
    ASSUME Types, NEW t \in Tabs, NEW p \in Purposes
    PROVE  /\ Send(t, p) => call[t][p].at = "idle" /\ call'[t][p].at = "sent"
           /\ Serve(t, p) => /\ call[t][p].at \in {"sent", "resent"}
                             /\ call'[t][p].at \in {"ok", "refused", "failed"}
                             /\ call'[t][p].at = "ok" => Accepts(call[t][p].with)
           /\ Finish(t, p) => call[t][p].at \in {"ok", "failed"} /\ call'[t][p].at = "idle"
           /\ Miss(t, p) => call[t][p].at # "idle" /\ call'[t][p].at = "failed"
           /\ Join(t, p) => call[t][p].at # "idle" /\ call'[t][p].at = "refresh"
           /\ Send(t, p) \/ Serve(t, p) \/ Finish(t, p) \/ Miss(t, p) \/ Join(t, p)
              => \A u \in Tabs, q \in Purposes : u # t \/ q # p => call'[u][q] = call[u][q]
<1> USE DEF Types, Client
<1>1. Send(t, p) => call[t][p].at = "idle" /\ call'[t][p].at = "sent"
    BY DEF Send
<1>2. Serve(t, p) => /\ call[t][p].at \in {"sent", "resent"}
                     /\ call'[t][p].at \in {"ok", "refused", "failed"}
                     /\ call'[t][p].at = "ok" => Accepts(call[t][p].with)
  <2> SUFFICES ASSUME Serve(t, p)
               PROVE  /\ call'[t][p].at \in {"ok", "refused", "failed"}
                      /\ call'[t][p].at = "ok" => Accepts(call[t][p].with)
      BY DEF Serve
  <2> DEFINE at == CASE Accepts(call[t][p].with) -> "ok"
                     [] call[t][p].at = "sent" -> "refused"
                     [] OTHER -> "failed"
  <2>1. at \in {"ok", "refused", "failed"} /\ (at = "ok" => Accepts(call[t][p].with))
      OBVIOUS
  <2>2. call' = [call EXCEPT ![t][p] = [Idle EXCEPT !.at = at]]
      BY DEF Serve
  <2> HIDE DEF at
  <2>3. call'[t][p].at = at
      BY <2>2 DEF Idle
  <2> QED
      BY <2>1, <2>3
<1>3. Finish(t, p) => call[t][p].at \in {"ok", "failed"} /\ call'[t][p].at = "idle"
    BY DEF Finish, Idle
<1>4. Miss(t, p) => call[t][p].at # "idle" /\ call'[t][p].at = "failed"
    BY DEF Miss, Idle
<1>5. Join(t, p) => call[t][p].at # "idle" /\ call'[t][p].at = "refresh"
    BY DEF Join, Calls
<1>6. Send(t, p) \/ Serve(t, p) \/ Finish(t, p) \/ Miss(t, p) \/ Join(t, p)
      => \E c : call' = [call EXCEPT ![t][p] = c]
    BY DEF Send, Serve, Finish, Miss, Join
<1>7. (\E c : call' = [call EXCEPT ![t][p] = c])
      => \A u \in Tabs, q \in Purposes : u # t \/ q # p => call'[u][q] = call[u][q]
    OBVIOUS
<1> QED
    BY <1>1, <1>2, <1>3, <1>4, <1>5, <1>6, <1>7

\* The API client by itself begins no request, ends none and lets none succeed.
LEMMA ApiQuiet ==
    ASSUME Types, NEW t \in browser.tabs, ApiStep(t)
    PROVE  \A u \in Tabs, q \in Purposes :
              /\ call'[u][q].at = "idle" <=> call[u][q].at = "idle"
              /\ call'[u][q].at = "ok" => call[u][q].at = "ok"
<1>0. t \in Tabs
    BY BrowsersAssumption DEF Types, ApiInv, Shape
<1>1. ASSUME NEW p \in Purposes, Miss(t, p) \/ Join(t, p)
      PROVE  \A u \in Tabs, q \in Purposes :
                /\ call'[u][q].at = "idle" <=> call[u][q].at = "idle"
                /\ call'[u][q].at = "ok" => call[u][q].at = "ok"
    BY <1>0, <1>1, Requests
<1>2. ASSUME NEW a, Resume(t, a)
      PROVE  \A u \in Tabs, q \in Purposes :
                /\ call'[u][q].at = "idle" <=> call[u][q].at = "idle"
                /\ call'[u][q].at = "ok" => call[u][q].at = "ok"
  <2> DEFINE c(p) == IF call[t][p].at # "refresh" THEN call[t][p]
                     ELSE IF a = NoAccess THEN [at |-> "failed", with |-> NoAccess]
                     ELSE [at |-> "resent", with |-> a]
  <2>1. call' = [call EXCEPT ![t] = [p \in Purposes |-> c(p)]]
      BY <1>2 DEF Resume
  <2>2. \A p : /\ c(p).at = "idle" <=> call[t][p].at = "idle"
               /\ c(p).at = "ok" => call[t][p].at = "ok"
      OBVIOUS
  <2> HIDE DEF c
  <2>3. \A u \in Tabs : u # t => call'[u] = call[u]
      BY <2>1 DEF Types, Client
  <2>4. \A p \in Purposes : call'[t][p] = c(p)
      BY <1>0, <2>1 DEF Types, Client
  <2> QED
      BY <2>2, <2>3, <2>4
<1>3. CASE SessionStep(t)
    BY <1>2, <1>3 DEF SessionStep, RefreshTimer, SignIn, SignOut, SignedOut, SignOutFails, HearLogout, AccessExpires,
       SendRefresh, ServeRefresh, ReceiveRefresh, RefreshFails
<1> QED
    BY <1>1, <1>3 DEF ApiStep

\* The start of the notifications.
LEMMA InitialTypes == RealtimeInit => Types
    BY InitialApi, InitialClient DEF Types, Notified, RealtimeInit, NoFamily, Nothing, Sockets

\* A commit owes a message.
LEMMA CommitTypes ==
    ASSUME Types, NEW x \in Topics, NEW v \in Nat, Commit(x, v)
    PROVE  /\ truth' \in [Topics -> Nat] /\ owed' \subseteq Messages
           /\ \A y \in Topics : truth'[y] \in {truth[y], truth[y] + 1}
           /\ \A y \in Topics : truth'[y] # truth[y] => y = x
           /\ owed \subseteq owed' /\ \E m \in owed' : m.topic = x
<1>1. truth' = [truth EXCEPT ![x] = truth[x] + 1]
    BY DEF Commit
<1>2. truth' \in [Topics -> Nat] /\ truth'[x] \in Nat
    BY <1>1 DEF Types, Notified
<1>3. [topic |-> x, version |-> v, number |-> truth'[x]] \in Messages
    BY <1>2 DEF Messages
<1> QED
    BY <1>1, <1>2, <1>3 DEF Commit, Types, Notified

\* A queue takes a message, giving up its oldest when it is full.
LEMMA EnqueueIs ==
    ASSUME NEW q \in Seq(Messages), NEW m \in Messages, Len(q) <= QueueMax
    PROVE  /\ Enqueue(q, m) \in Seq(Messages) /\ Len(Enqueue(q, m)) <= QueueMax
           /\ \E i \in DOMAIN Enqueue(q, m) : Enqueue(q, m)[i] = m
           /\ \A i \in DOMAIN q : \/ q[i].topic \in Evicted(q)
                                  \/ \E j \in DOMAIN Enqueue(q, m) : Enqueue(q, m)[j] = q[i]
           /\ Evicted(q) \subseteq Topics
<1>1. QueueMax \in Nat \ {0}
    BY RealtimeAssumption
<1>2. CASE Len(q) < QueueMax
  <2>1. Enqueue(q, m) = Append(q, m) /\ Evicted(q) = {}
      BY <1>2 DEF Enqueue, Evicted
  <2>2. /\ Append(q, m) \in Seq(Messages) /\ Len(Append(q, m)) = Len(q) + 1
        /\ Append(q, m)[Len(q) + 1] = m /\ DOMAIN Append(q, m) = 1..Len(q) + 1
        /\ \A i \in 1..Len(q) : Append(q, m)[i] = q[i]
      OBVIOUS
  <2>3. DOMAIN q = 1..Len(q) /\ Len(q) \in Nat
      OBVIOUS
  <2>4. \A i \in DOMAIN q : \E j \in DOMAIN Append(q, m) : Append(q, m)[j] = q[i]
      BY <2>2, <2>3
  <2>5. Len(q) + 1 \in DOMAIN Append(q, m)
      BY <2>2, <2>3
  <2> QED
      BY <1>1, <1>2, <2>1, <2>2, <2>3, <2>4, <2>5
<1>3. CASE ~(Len(q) < QueueMax)
  <2>1. Len(q) = QueueMax /\ q # <<>> /\ Len(q) \in Nat \ {0}
      BY <1>1, <1>3
  <2>2. /\ Tail(q) \in Seq(Messages) /\ Len(Tail(q)) = Len(q) - 1
        /\ \A i \in 1..Len(q) - 1 : Tail(q)[i] = q[i + 1]
      BY <2>1
  <2>3. Enqueue(q, m) = Append(Tail(q), m) /\ Evicted(q) = {q[1].topic}
      BY <1>3 DEF Enqueue, Evicted
  <2>4. /\ Enqueue(q, m) \in Seq(Messages) /\ Len(Enqueue(q, m)) = Len(q)
        /\ Enqueue(q, m)[Len(q)] = m
        /\ \A i \in 1..Len(q) - 1 : Enqueue(q, m)[i] = q[i + 1]
      BY <2>1, <2>2, <2>3
  <2>5. \A i \in DOMAIN q : i = 1 \/ \E j \in DOMAIN Enqueue(q, m) : Enqueue(q, m)[j] = q[i]
    <3> SUFFICES ASSUME NEW i \in DOMAIN q, i # 1
                 PROVE  i - 1 \in DOMAIN Enqueue(q, m) /\ Enqueue(q, m)[i - 1] = q[i]
        OBVIOUS
    <3>1. i \in 1..Len(q) /\ i - 1 \in 1..Len(q) - 1
        BY <2>1
    <3>2. Enqueue(q, m)[i - 1] = q[(i - 1) + 1]
        BY <2>4, <3>1
    <3>3. DOMAIN Enqueue(q, m) = 1..Len(q)
        BY <2>4
    <3> QED
        BY <2>1, <3>1, <3>2, <3>3
  <2>6. q[1].topic \in Topics
    <3>1. q[1] \in Messages
        BY <2>1
    <3> QED
        BY <3>1 DEF Messages
  <2>7. Len(q) \in DOMAIN Enqueue(q, m)
      BY <2>1, <2>4
  <2>8. \A i \in DOMAIN q : q[i].topic \in Evicted(q)
                            \/ \E j \in DOMAIN Enqueue(q, m) : Enqueue(q, m)[j] = q[i]
      BY <2>3, <2>5
  <2> QED
      BY <2>1, <2>3, <2>4, <2>6, <2>7, <2>8
<1> QED
    BY <1>2, <1>3

\* A value of the right type keeps a function in its type.
LEMMA Put ==
    ASSUME NEW D, NEW R, NEW f \in [D -> R], NEW d, NEW e \in R
    PROVE  [f EXCEPT ![d] = e] \in [D -> R]
    OBVIOUS

\* So does a step that puts one or none.
LEMMA PutOrNot ==
    ASSUME NEW D, NEW R, NEW f \in [D -> R], NEW d, NEW g,
           g = f \/ \E e \in R : g = [f EXCEPT ![d] = e]
    PROVE  g \in [D -> R]
    OBVIOUS

\* Refetching is of topics.
LEMMA InvalidateTypes ==
    ASSUME Notified, NEW t \in Tabs, NEW xs \in SUBSET Topics, Invalidate(t, xs)
    PROVE  /\ dirty' \in [Tabs -> SUBSET Topics] /\ asked' \in [Tabs -> SUBSET Topics]
           /\ Joined(t, xs) \subseteq Topics
<1> DEFINE j == xs \ Joined(t, xs)
<1>1. dirty[t] \cup j \in SUBSET Topics /\ asked[t] \ j \in SUBSET Topics
    BY DEF Notified
<1>2. dirty' = [dirty EXCEPT ![t] = dirty[t] \cup j] /\ asked' = [asked EXCEPT ![t] = asked[t] \ j]
    BY DEF Invalidate
<1>3. dirty \in [Tabs -> SUBSET Topics] /\ asked \in [Tabs -> SUBSET Topics]
    BY DEF Notified
<1> HIDE DEF j
<1> QED
    BY <1>1, <1>2, <1>3, Put DEF Joined

\* The steps keep the types of the notifications.
LEMMA NotifiedKept ==
    ASSUME Types, \A t \in Tabs : Len(queue[t]) <= QueueMax, [Next]_vars
    PROVE  Notified'
<1>0. /\ browser.tabs \subseteq Tabs /\ browser.writes \in Nat /\ browser.families \in Nat
      /\ alive \subseteq 1..born /\ born \in Nat
      /\ MaxAttempts \in Nat
    BY BrowsersAssumption, RealtimeAssumption DEF Types, ApiInv, Shape
<1> Notified
    BY DEF Types
<1>1. UNCHANGED <<writes, backend, tab, gap>> => Notified'
    BY DEF writes, backend, tab, Notified
<1>2. CASE UNCHANGED vars
    BY <1>1, <1>2 DEF vars
<1>3. ASSUME NEW x \in Topics, NEW v \in Nat, Commit(x, v),
             UNCHANGED <<backend, tab, gap>>
      PROVE  Notified'
    BY <1>3, CommitTypes DEF backend, tab, Notified
<1>4. ASSUME NEW x \in Topics,
             WriteUnversioned(x) \/ \E v \in 1..browser.writes : WriteStamped(x, v)
      PROVE  Notified'
  <2>1. PICK v \in Nat : Commit(x, v) /\ UNCHANGED <<backend, tab, gap>>
      BY <1>0, <1>4 DEF WriteUnversioned, WriteStamped
  <2> QED
      BY <1>3, <2>1
<1>5. ASSUME NEW m \in owed, PublishMessage(m) PROVE Notified'
  <2>1. m \in Messages /\ m.topic \in Topics
      BY DEF Notified, Messages
  <2>2. /\ owed' = owed \ {m}
        /\ UNCHANGED <<truth, listening, tickets, conn, tab>>
        /\ \/ UNCHANGED queue
           \/ queue' = [t \in Tabs |-> IF t \in Connected THEN Enqueue(queue[t], m) ELSE queue[t]]
        /\ \/ gap' = [t \in Tabs |-> IF t \in Connected THEN gap[t] \cup Evicted(queue[t]) ELSE gap[t]]
           \/ gap' = [t \in Tabs |-> gap[t] \cup {m.topic}]
      BY <1>5 DEF PublishMessage
  <2>3. \A t \in Tabs : Enqueue(queue[t], m) \in Seq(Messages) /\ Evicted(queue[t]) \subseteq Topics
      BY <2>1, EnqueueIs DEF Notified
  <2>4. queue' \in [Tabs -> Seq(Messages)]
    <3>1. queue \in [Tabs -> Seq(Messages)]
        BY DEF Notified
    <3>2. \A t \in Tabs : Enqueue(queue[t], m) \in Seq(Messages) /\ queue[t] \in Seq(Messages)
        BY <2>3, <3>1
    <3> QED
        BY <2>2, <3>1, <3>2
  <2>6. \A t \in Tabs : /\ gap[t] \cup Evicted(queue[t]) \in SUBSET Topics
                        /\ gap[t] \cup {m.topic} \in SUBSET Topics /\ gap[t] \in SUBSET Topics
      BY <2>1, <2>3 DEF Notified
  <2>5. gap' \in [Tabs -> SUBSET Topics]
      BY <2>2, <2>6
  <2> QED
      BY <2>2, <2>4, <2>5 DEF Notified, tab
<1>6. CASE Listener \/ \E k \in tickets : TicketExpires(k)
    BY <1>6 DEF Listener, TicketExpires, writes, tab, Notified
<1>60. CASE Restart
  <2>1. conn' \in [Tabs -> Nat] /\ queue' \in [Tabs -> Seq(Messages)]
      BY <1>60 DEF Restart, NoFamily
  <2> QED
      BY <1>60, <2>1 DEF Restart, writes, tab, Notified
<1>7. ASSUME NEW f \in alive, FamilyEnds(f), UNCHANGED <<writes, backend, tab, gap>> PROVE Notified'
    BY <1>1, <1>7
<1>8. ASSUME NEW t \in browser.tabs, ApiStep(t) \/ ServeTicket(t) PROVE Notified'
    BY <1>8, <1>1 DEF ApiStep, ServeTicket, writes, backend, tab, Notified
<1>9. ASSUME NEW t \in browser.tabs, AskTicket(t) \/ GetTicket(t) PROVE Notified'
  <2>1. \E e \in Sockets : socket' = [socket EXCEPT ![t] = e]
      BY <1>9 DEF AskTicket, GetTicket, Sockets
  <2>2. attempts[t] \in Nat /\ attempts[t] + 1 \in Nat
      BY <1>0 DEF Notified
  <2>3. \E e \in Nat : attempts' = attempts \/ attempts' = [attempts EXCEPT ![t] = e]
      BY <1>9, <2>2 DEF AskTicket, GetTicket
  <2>4. socket' \in [Tabs -> Sockets] /\ attempts' \in [Tabs -> Nat]
    <3>1. socket \in [Tabs -> Sockets] /\ attempts \in [Tabs -> Nat]
        BY DEF Notified
    <3>2. socket' \in [Tabs -> Sockets]
        BY <2>1, <3>1, PutOrNot
    <3>3. attempts' \in [Tabs -> Nat]
        BY <2>3, <3>1, PutOrNot
    <3> QED
        BY <3>2, <3>3
  <2> QED
      BY <1>9, <2>4 DEF AskTicket, GetTicket, writes, backend, Notified
<1>10. ASSUME NEW t \in browser.tabs,
              Handshake(t) \/ Break(t) \/ Notice(t) \/ Cleanup(t)
       PROVE  Notified'
  <2>1. attempts[t] \in Nat /\ attempts[t] + 1 \in Nat
      BY <1>0 DEF Notified
  <2>2. UNCHANGED socket \/ \E e \in Sockets : socket' = [socket EXCEPT ![t] = e]
      BY <1>10 DEF Handshake, Break, Notice, Cleanup, Closed, Sockets, tab
  <2>3. UNCHANGED attempts \/ \E e \in Nat : attempts' = [attempts EXCEPT ![t] = e]
      BY <1>0, <1>10, <2>1 DEF Handshake, Break, Notice, Cleanup, Closed, tab
  <2>4. UNCHANGED conn \/ \E e \in Nat : conn' = [conn EXCEPT ![t] = e]
    <3>1. CASE Handshake(t)
      <4>1. UNCHANGED conn \/ \E k \in tickets : k.family \in alive /\ conn' = [conn EXCEPT ![t] = k.family]
          BY <3>1 DEF Handshake
      <4>2. alive \subseteq Nat
          BY <1>0
      <4> QED
          BY <4>1, <4>2
    <3>2. CASE Notice(t)
        BY <3>2 DEF Notice, backend
    <3>3. CASE Break(t) \/ Cleanup(t)
      <4>1. conn' = [conn EXCEPT ![t] = 0]
          BY <3>3 DEF Break, Cleanup, Drop, NoFamily
      <4> QED
          BY <4>1
    <3> QED
        BY <1>10, <3>1, <3>2, <3>3
  <2>5. UNCHANGED queue \/ queue' = [queue EXCEPT ![t] = <<>>]
      BY <1>10 DEF Handshake, Break, Notice, Cleanup, Drop, backend
  <2>6. <<>> \in Seq(Messages)
      OBVIOUS
  <2>7. /\ socket' \in [Tabs -> Sockets] /\ attempts' \in [Tabs -> Nat] /\ conn' \in [Tabs -> Nat]
        /\ queue' \in [Tabs -> Seq(Messages)]
    <3>0. /\ socket \in [Tabs -> Sockets] /\ attempts \in [Tabs -> Nat] /\ conn \in [Tabs -> Nat]
          /\ queue \in [Tabs -> Seq(Messages)]
        BY DEF Notified
    <3>1. socket' \in [Tabs -> Sockets]
        BY <2>2, <3>0, PutOrNot
    <3>2. attempts' \in [Tabs -> Nat]
        BY <2>3, <3>0, PutOrNot
    <3>3. conn' \in [Tabs -> Nat]
        BY <2>4, <3>0, PutOrNot
    <3>4. queue' \in [Tabs -> Seq(Messages)]
        BY <2>5, <2>6, <3>0, PutOrNot
    <3> QED
        BY <3>1, <3>2, <3>3, <3>4
  <2>8. UNCHANGED <<writes, newest, dirty, asked, reply, view, wrote, saved, gap>>
      BY <1>10 DEF Handshake, Break, Notice, Cleanup, tab
  <2> QED
      BY <2>7, <2>8 DEF writes, Notified
<1>11. ASSUME NEW t \in browser.tabs, Open(t) PROVE Notified'
  <2>1. Invalidate(t, Topics) /\ gap' = [gap EXCEPT ![t] = Joined(t, Topics)]
        /\ socket' = [socket EXCEPT ![t] = "open"] /\ attempts' = [attempts EXCEPT ![t] = 0]
        /\ UNCHANGED <<writes, backend, newest, reply, view, wrote, saved>>
      BY <1>11 DEF Open
  <2>2. /\ dirty' \in [Tabs -> SUBSET Topics] /\ asked' \in [Tabs -> SUBSET Topics]
        /\ Joined(t, Topics) \in SUBSET Topics
      BY <1>0, <2>1, InvalidateTypes
  <2>3. /\ gap' \in [Tabs -> SUBSET Topics] /\ socket' \in [Tabs -> Sockets]
        /\ attempts' \in [Tabs -> Nat]
      BY <2>1, <2>2, Put DEF Notified, Sockets
  <2> QED
      BY <2>1, <2>2, <2>3 DEF Notified, writes, backend
<1>13. ASSUME NEW t \in browser.tabs, Deliver(t) PROVE Notified'
  <2> DEFINE m == Head(queue[t])
  <2>1. queue[t] \in Seq(Messages) /\ queue[t] # <<>>
      BY <1>0, <1>13 DEF Deliver, Notified
  <2>2. m \in Messages /\ Tail(queue[t]) \in Seq(Messages)
      BY <2>1
  <2>3. m.topic \in Topics /\ m.version + 1 \in Nat
      BY <2>2 DEF Messages
  <2>4. queue' \in [Tabs -> Seq(Messages)]
      BY <1>13, <2>2, Put DEF Deliver, Notified
  <2>5. CASE m.version < newest[t][m.topic]
    <3>1. gap[t] \cup {m.topic} \in SUBSET Topics
        BY <1>0, <2>3 DEF Notified
    <3>2. gap' \in [Tabs -> SUBSET Topics]
      <4>1. gap' = [gap EXCEPT ![t] = @ \cup {m.topic}]
          BY <1>13, <2>5 DEF Deliver
      <4>2. gap \in [Tabs -> SUBSET Topics]
          BY DEF Notified
      <4> QED
          BY <3>1, <4>1, <4>2, Put
    <3> QED
        BY <1>13, <2>4, <2>5, <3>2 DEF Deliver, Notified, writes
  <2>6. CASE ~(m.version < newest[t][m.topic])
    <3>1. /\ newest' = [newest EXCEPT ![t] = [newest[t] EXCEPT ![m.topic] = m.version + 1]]
          /\ gap' = [gap EXCEPT ![t] = gap[t] \cup Joined(t, {m.topic})]
          /\ Invalidate(t, {m.topic})
        BY <1>13, <2>6 DEF Deliver
    <3>2. newest[t] \in [Topics -> Nat]
        BY <1>0 DEF Notified
    <3>3. [newest[t] EXCEPT ![m.topic] = m.version + 1] \in [Topics -> Nat]
        BY <2>3, <3>2, Put
    <3>4. newest' \in [Tabs -> [Topics -> Nat]]
        BY <3>1, <3>3, Put DEF Notified
    <3>5. /\ dirty' \in [Tabs -> SUBSET Topics] /\ asked' \in [Tabs -> SUBSET Topics]
          /\ Joined(t, {m.topic}) \subseteq Topics
        BY <1>0, <2>3, <3>1, InvalidateTypes
    <3>6. gap[t] \cup Joined(t, {m.topic}) \in SUBSET Topics
        BY <1>0, <3>5 DEF Notified
    <3>7. gap' \in [Tabs -> SUBSET Topics]
        BY <3>1, <3>6, Put DEF Notified
    <3> QED
        BY <1>13, <2>4, <3>4, <3>5, <3>7 DEF Deliver, Notified, writes
  <2> QED
      BY <2>5, <2>6
<1>14. ASSUME NEW t \in browser.tabs, Visit(t) \/ StartFetch(t) PROVE Notified'
  <2>1. dirty[t] \in SUBSET Topics /\ Topics \in SUBSET Topics /\ {} \in SUBSET Topics
      BY <1>0 DEF Notified
  <2>2. \E e \in SUBSET Topics : dirty' = [dirty EXCEPT ![t] = e]
      BY <1>14, <2>1 DEF Visit, StartFetch
  <2>3. UNCHANGED asked \/ \E e \in SUBSET Topics : asked' = [asked EXCEPT ![t] = e]
      BY <1>14, <2>1 DEF Visit, StartFetch
  <2>7. dirty \in [Tabs -> SUBSET Topics] /\ asked \in [Tabs -> SUBSET Topics]
      BY DEF Notified
  <2>5. dirty' \in [Tabs -> SUBSET Topics]
      BY <2>2, <2>7, PutOrNot
  <2>6. asked' \in [Tabs -> SUBSET Topics]
      BY <2>3, <2>7, PutOrNot
  <2>4. dirty' \in [Tabs -> SUBSET Topics] /\ asked' \in [Tabs -> SUBSET Topics]
      BY <2>5, <2>6
  <2> QED
      BY <1>14, <2>4 DEF Visit, StartFetch, writes, backend, Notified
<1>15. ASSUME NEW t \in browser.tabs, ServeFetch(t) PROVE Notified'
  <2>1. truth \in [Topics -> Int]
      BY DEF Notified
  <2>2. reply' \in [Tabs -> [Topics -> Int]]
      BY <1>15, <2>1, Put DEF ServeFetch, Notified
  <2> QED
      BY <1>15, <2>2 DEF ServeFetch, writes, backend, Notified
<1>16. ASSUME NEW t \in browser.tabs, EndFetch(t) PROVE Notified'
  <2> DEFINE shown == [x \in Topics |-> IF x \in asked[t] THEN reply[t][x] ELSE view[t][x]]
  <2>1. UNCHANGED view \/ view' = [view EXCEPT ![t] = shown]
      BY <1>16 DEF EndFetch
  <2>2. view[t] \in [Topics -> Int] /\ reply[t] \in [Topics -> Int]
      BY <1>0 DEF Notified
  <2>3. shown \in [Topics -> Int] /\ [x \in Topics |-> Nothing] \in [Topics -> Int]
      BY <2>2 DEF Nothing
  <2> HIDE DEF shown
  <2>4. view' \in [Tabs -> [Topics -> Int]]
      BY <2>1, <2>3, Put DEF Notified
  <2>5. reply' \in [Tabs -> [Topics -> Int]]
      BY <1>16, <2>3, Put DEF EndFetch, Notified
  <2>6. /\ UNCHANGED dirty \/ dirty' = [dirty EXCEPT ![t] = dirty[t] \cup asked[t]]
        /\ UNCHANGED gap \/ gap' = [gap EXCEPT ![t] = gap[t] \cup asked[t]]
        /\ asked' = [asked EXCEPT ![t] = {}]
      BY <1>16 DEF EndFetch
  <2>7. dirty[t] \cup asked[t] \in SUBSET Topics /\ gap[t] \cup asked[t] \in SUBSET Topics
        /\ {} \in SUBSET Topics
      BY <1>0 DEF Notified
  <2>12. /\ dirty' = dirty \/ \E e \in SUBSET Topics : dirty' = [dirty EXCEPT ![t] = e]
         /\ gap' = gap \/ \E e \in SUBSET Topics : gap' = [gap EXCEPT ![t] = e]
    <3> DEFINE d == dirty[t] \cup asked[t]
    <3> DEFINE g == gap[t] \cup asked[t]
    <3>1. d \in SUBSET Topics /\ g \in SUBSET Topics
        BY <2>7
    <3>2. /\ dirty' = dirty \/ dirty' = [dirty EXCEPT ![t] = d]
          /\ gap' = gap \/ gap' = [gap EXCEPT ![t] = g]
        BY <2>6
    <3> HIDE DEF d, g
    <3> QED
        BY <3>1, <3>2
  <2>9. dirty' \in [Tabs -> SUBSET Topics]
    <3>1. dirty \in [Tabs -> SUBSET Topics]
        BY DEF Notified
    <3> QED
        BY <2>12, <3>1, PutOrNot
  <2>10. gap' \in [Tabs -> SUBSET Topics]
    <3>1. gap \in [Tabs -> SUBSET Topics]
        BY DEF Notified
    <3> QED
        BY <2>12, <3>1, PutOrNot
  <2>11. asked' \in [Tabs -> SUBSET Topics]
      BY <2>6, <2>7, Put DEF Notified
  <2>8. /\ dirty' \in [Tabs -> SUBSET Topics] /\ gap' \in [Tabs -> SUBSET Topics]
        /\ asked' \in [Tabs -> SUBSET Topics]
      BY <2>9, <2>10, <2>11
  <2> QED
      BY <1>16, <2>4, <2>5, <2>8 DEF EndFetch, writes, backend, Notified
<1>17. ASSUME NEW t \in browser.tabs, NEW x \in Topics, Mutate(t, x) PROVE Notified'
  <2>1. saved[t] + 1 \in Nat /\ {x} \in SUBSET Topics
      BY <1>0 DEF Notified
  <2>2. saved' \in [Tabs -> Nat] /\ wrote' \in [Tabs -> SUBSET Topics]
      BY <1>17, <2>1, Put DEF Mutate, Notified
  <2> QED
      BY <1>17, <2>2 DEF Mutate, writes, backend, Notified
<1>18. ASSUME NEW t \in browser.tabs, EndMutation(t) PROVE Notified'
  <2>1. wrote[t] \in SUBSET Topics /\ {} \in SUBSET Topics
      BY <1>0 DEF Notified
  <2>2. wrote' \in [Tabs -> SUBSET Topics]
      BY <1>18, <2>1, Put DEF EndMutation, Notified
  <2>3. CASE call[t]["mutate"].at = "ok"
    <3>1. Invalidate(t, wrote[t]) /\ gap' = [gap EXCEPT ![t] = gap[t] \cup Joined(t, wrote[t])]
        BY <1>18, <2>3 DEF EndMutation
    <3>2. /\ dirty' \in [Tabs -> SUBSET Topics] /\ asked' \in [Tabs -> SUBSET Topics]
          /\ Joined(t, wrote[t]) \subseteq Topics
        BY <1>0, <2>1, <3>1, InvalidateTypes
    <3>3. gap[t] \cup Joined(t, wrote[t]) \in SUBSET Topics
        BY <1>0, <3>2 DEF Notified
    <3>4. gap' \in [Tabs -> SUBSET Topics]
        BY <3>1, <3>3, Put DEF Notified
    <3> QED
        BY <1>18, <2>2, <3>2, <3>4 DEF EndMutation, writes, backend, Notified
  <2>4. CASE call[t]["mutate"].at # "ok"
      BY <1>18, <2>2, <2>4 DEF EndMutation, writes, backend, Notified
  <2> QED
      BY <2>3, <2>4
<1>19. ASSUME NEW t \in browser.tabs, NEW v \in 1..browser.writes, ServeMutation(t, v) PROVE Notified'
  <2>1. UNCHANGED <<backend, tab, gap>> /\ v \in Nat /\ wrote[t] \subseteq Topics
      BY <1>0, <1>19 DEF ServeMutation, Notified
  <2>2. (\E x \in wrote[t] : Commit(x, v)) \/ UNCHANGED writes
      BY <1>19 DEF ServeMutation
  <2> QED
      BY <1>1, <1>3, <2>1, <2>2
<1> QED
    BY <1>2, <1>4, <1>5, <1>6, <1>60, <1>7, <1>8, <1>9, <1>10, <1>11, <1>13, <1>14, <1>15, <1>16,
       <1>17, <1>18, <1>19 DEF Next
-----------------------------------------------------------------------------
(* Limits: the queues, the attempts, the requests of a tab and the           *)
(* connections of the server.                                               *)

Queues == \A t \in Tabs : Len(queue[t]) <= QueueMax
Attempted ==
    \A t \in Tabs : /\ attempts[t] <= MaxAttempts + 1
                    /\ socket[t] # "none" => attempts[t] <= MaxAttempts
Fetching ==
    \A t \in Tabs : /\ asked[t] # {} => call[t]["fetch"].at # "idle"
                    /\ dirty[t] \cap asked[t] = {}
Writing ==
    \A t \in Tabs : /\ (wrote[t] # {}) <=> (call[t]["mutate"].at # "idle")
                    /\ saved[t] <= browser.own
Shown ==
    \A t \in Tabs, x \in Topics : /\ reply[t][x] \in Nothing..truth[x]
                                  /\ view[t][x] \in Nothing..truth[x]
Capacity ==
    /\ \A t \in Tabs : conn[t] \in Families \cup {NoFamily}
    /\ IsFiniteSet(Connected) /\ Cardinality(Connected) <= MaxConnections

Typed == Types /\ Bounded /\ Queues /\ Attempted /\ Fetching /\ Writing /\ Shown /\ Capacity

\* The start, within every limit.
LEMMA InitialLimits == RealtimeInit => Typed
<1> SUFFICES ASSUME RealtimeInit PROVE Typed
    OBVIOUS
<1>0. browser \in Browsers /\ browser.own \in Nat /\ QueueMax \in Nat \ {0}
      /\ MaxAttempts \in Nat /\ MaxConnections \in Nat
    BY BrowsersAssumption, RealtimeAssumption DEF RealtimeInit, Init
<1>1. Types /\ Bounded
    BY InitialTypes, InitialClient
<1>2. Queues /\ Attempted /\ Shown
    BY <1>0 DEF RealtimeInit, Queues, Attempted, Shown, Nothing
<1>3. Fetching /\ Writing
    BY <1>0, RealtimeAssumption DEF RealtimeInit, Init, Fetching, Writing, Idle
<1>4. Connected = {}
    BY DEF Connected, RealtimeInit
<1>5. Capacity
    BY <1>0, <1>4, FS_EmptySet DEF Capacity, RealtimeInit
<1> QED
    BY <1>1, <1>2, <1>3, <1>5 DEF Typed

\* The steps that may disturb a queue, each of one tab.
LEMMA QueuesKept == Typed /\ [Next]_vars => Queues'
<1> SUFFICES ASSUME Typed, [Next]_vars PROVE Queues'
    OBVIOUS
<1>0. QueueMax \in Nat \ {0} /\ browser.tabs \subseteq Tabs /\ queue \in [Tabs -> Seq(Messages)]
      /\ owed \subseteq Messages /\ Len(<<>>) = 0
    BY BrowsersAssumption, RealtimeAssumption DEF Typed, Types, ApiInv, Shape, Notified
<1>1. CASE UNCHANGED queue
    BY <1>1 DEF Typed, Queues
<1>2. ASSUME NEW m \in owed, PublishMessage(m) PROVE Queues'
  <2>1. \A t \in Tabs : Len(Enqueue(queue[t], m)) <= QueueMax /\ Len(queue[t]) <= QueueMax
      BY <1>0, EnqueueIs DEF Typed, Queues
  <2>2. \/ UNCHANGED queue
        \/ queue' = [t \in Tabs |-> IF t \in Connected THEN Enqueue(queue[t], m) ELSE queue[t]]
      BY <1>2 DEF PublishMessage
  <2> QED
      BY <2>1, <2>2 DEF Queues
<1>3. CASE Restart
    BY <1>0, <1>3 DEF Restart, Queues
<1>4. ASSUME NEW t \in browser.tabs, queue' = [queue EXCEPT ![t] = <<>>] PROVE Queues'
  <2>1. \A u \in Tabs : queue'[u] = queue[u] \/ queue'[u] = <<>>
      BY <1>0, <1>4
  <2> QED
      BY <1>0, <2>1 DEF Typed, Queues
<1>5. ASSUME NEW t \in browser.tabs, Deliver(t) PROVE Queues'
  <2>1. queue[t] \in Seq(Messages) /\ queue[t] # <<>> /\ Len(queue[t]) <= QueueMax
      BY <1>0, <1>5 DEF Deliver, Typed, Queues
  <2>2. Len(Tail(queue[t])) <= QueueMax
      BY <1>0, <2>1
  <2>3. \A u \in Tabs : queue'[u] = queue[u] \/ queue'[u] = Tail(queue[t])
      BY <1>0, <1>5 DEF Deliver
  <2> QED
      BY <2>2, <2>3 DEF Typed, Queues
<1>6. \/ UNCHANGED queue \/ (\E m \in owed : PublishMessage(m)) \/ Restart
      \/ \E t \in browser.tabs : Deliver(t) \/ queue' = [queue EXCEPT ![t] = <<>>]
  <2>1. CASE UNCHANGED vars
      BY <2>1 DEF vars, backend
  <2>2. CASE Next
    <3>1. ASSUME \/ \E x \in Topics :
                       WriteUnversioned(x) \/ \E v \in 1..browser.writes : WriteStamped(x, v)
                 \/ Listener \/ \E k \in tickets : TicketExpires(k)
                 \/ \E f \in alive : FamilyEnds(f) /\ UNCHANGED backend
                 \/ \E t \in browser.tabs : ApiStep(t)
          PROVE  UNCHANGED queue
        BY <3>1, Zenon DEF WriteUnversioned, WriteStamped, Listener, TicketExpires, ApiStep, backend
    <3>2. ASSUME NEW t \in browser.tabs,
                 \/ AskTicket(t) \/ ServeTicket(t) \/ GetTicket(t) \/ Handshake(t) \/ Open(t)
                 \/ Break(t) \/ Notice(t) \/ Cleanup(t)
          PROVE  UNCHANGED queue \/ queue' = [queue EXCEPT ![t] = <<>>]
        BY <3>2 DEF AskTicket, ServeTicket, GetTicket, Handshake, Open, Break, Notice, Cleanup,
           Drop, backend
    <3>3. ASSUME NEW t \in browser.tabs,
                 \/ Visit(t) \/ StartFetch(t) \/ ServeFetch(t) \/ EndFetch(t)
                 \/ (\E x \in Topics : Mutate(t, x)) \/ EndMutation(t)
                 \/ \E v \in 1..browser.writes : ServeMutation(t, v)
          PROVE  UNCHANGED queue
        BY <3>3 DEF Visit, StartFetch, ServeFetch, EndFetch, Mutate, EndMutation, ServeMutation,
           backend
    <3> QED
        BY <2>2, <3>1, <3>2, <3>3 DEF Next
  <2> QED
      BY <2>1, <2>2
<1> QED
    BY <1>1, <1>2, <1>3, <1>4, <1>5, <1>6

\* An attempt is counted where a connection ends or none is made.
LEMMA AttemptedKept == Typed /\ [Next]_vars => Attempted'
<1> SUFFICES ASSUME Typed, [Next]_vars PROVE Attempted'
    OBVIOUS
<1>0. /\ MaxAttempts \in Nat /\ browser.tabs \subseteq Tabs
      /\ socket \in [Tabs -> Sockets] /\ attempts \in [Tabs -> Nat] /\ Attempted
    BY BrowsersAssumption, RealtimeAssumption DEF Typed, Types, ApiInv, Shape, Notified
<1>1. CASE UNCHANGED <<socket, attempts>>
    BY <1>0, <1>1 DEF Attempted
<1>2. ASSUME NEW t \in browser.tabs, AskTicket(t) PROVE Attempted'
    BY <1>0, <1>2 DEF AskTicket, Attempted
<1>3. ASSUME NEW t \in browser.tabs, GetTicket(t) PROVE Attempted'
  <2> DEFINE s == IF socket[t] = "asking" /\ call[t]["ticket"].at = "ok" THEN "opening" ELSE "none"
  <2> DEFINE a == IF socket[t] = "asking" /\ call[t]["ticket"].at # "ok" THEN attempts[t] + 1 ELSE attempts[t]
  <2>1. socket' = [socket EXCEPT ![t] = s] /\ attempts' = [attempts EXCEPT ![t] = a]
      BY <1>3 DEF GetTicket
  <2>2. a <= MaxAttempts + 1 /\ (s # "none" => a <= MaxAttempts)
      BY <1>0 DEF Attempted
  <2> HIDE DEF s, a
  <2> QED
      BY <1>0, <2>1, <2>2 DEF Attempted
<1>4. ASSUME NEW t \in browser.tabs, socket[t] # "none", Closed(t) PROVE Attempted'
    BY <1>0, <1>4 DEF Closed, Attempted
<1>5. ASSUME NEW t \in browser.tabs, Handshake(t) PROVE Attempted'
  <2>1. CASE socket' = [socket EXCEPT ![t] = "accepted"] /\ UNCHANGED attempts
      BY <1>0, <1>5, <2>1 DEF Handshake, Attempted
  <2> QED
      BY <1>4, <1>5, <2>1 DEF Handshake
<1>6. ASSUME NEW t \in browser.tabs, Open(t) PROVE Attempted'
    BY <1>0, <1>6 DEF Open, Attempted
<1>7. ASSUME NEW t \in browser.tabs, Notice(t) PROVE Attempted'
    BY <1>4, <1>7 DEF Notice
<1>8. ASSUME NEW t \in browser.tabs, Cleanup(t) PROVE Attempted'
    BY <1>0, <1>8 DEF Cleanup, Attempted
<1>9. \/ UNCHANGED <<socket, attempts>>
      \/ \E t \in browser.tabs : \/ AskTicket(t) \/ GetTicket(t) \/ Handshake(t) \/ Open(t)
                                 \/ Notice(t) \/ Cleanup(t)
  <2>1. CASE UNCHANGED vars
      BY <2>1 DEF vars, tab
  <2>2. ASSUME \/ \E x \in Topics :
                     WriteUnversioned(x) \/ \E v \in 1..browser.writes : WriteStamped(x, v)
               \/ \E m \in owed : PublishMessage(m)
               \/ Listener \/ Restart \/ \E k \in tickets : TicketExpires(k)
        PROVE  UNCHANGED <<socket, attempts>>
      BY <2>2, Zenon DEF WriteUnversioned, WriteStamped, PublishMessage, Listener, Restart,
         TicketExpires, tab
  <2>3. ASSUME NEW t \in browser.tabs, ServeTicket(t) \/ Break(t) \/ Deliver(t)
        PROVE  UNCHANGED <<socket, attempts>>
      BY <2>3 DEF ServeTicket, Break, Deliver, tab
  <2>4. ASSUME NEW t \in browser.tabs,
               \/ Visit(t) \/ StartFetch(t) \/ ServeFetch(t) \/ EndFetch(t)
               \/ (\E x \in Topics : Mutate(t, x)) \/ EndMutation(t)
               \/ \E v \in 1..browser.writes : ServeMutation(t, v)
        PROVE  UNCHANGED <<socket, attempts>>
      BY <2>4 DEF Visit, StartFetch, ServeFetch, EndFetch, Mutate, EndMutation, ServeMutation, tab
  <2>5. CASE \E f \in alive : FamilyEnds(f) /\ UNCHANGED tab
      BY <2>5 DEF tab
  <2>6. ASSUME NEW t \in browser.tabs, ApiStep(t) PROVE UNCHANGED <<socket, attempts>>
      BY <2>6 DEF ApiStep, tab
  <2> QED
      BY <2>1, <2>2, <2>3, <2>4, <2>5, <2>6 DEF Next
<1> QED
    BY <1>1, <1>2, <1>3, <1>5, <1>6, <1>7, <1>8, <1>9

\* Only a fetch's own start and end make it busy or idle, and a mutation's its own.
LEMMA Idleness ==
    ASSUME Types, [Next]_vars, NEW u \in Tabs
    PROVE  /\ \/ call'[u]["fetch"].at = "idle" <=> call[u]["fetch"].at = "idle"
              \/ u \in browser.tabs /\ (StartFetch(u) \/ EndFetch(u))
           /\ \/ call'[u]["mutate"].at = "idle" <=> call[u]["mutate"].at = "idle"
              \/ u \in browser.tabs /\ (EndMutation(u) \/ \E x \in Topics : Mutate(u, x))
<1> DEFINE Same(p) == call'[u][p].at = "idle" <=> call[u][p].at = "idle"
<1>0. browser.tabs \subseteq Tabs /\ Purposes = {"fetch", "mutate", "ticket"}
    BY BrowsersAssumption, RealtimeAssumption DEF Types, ApiInv, Shape
<1>1. CASE UNCHANGED call
    BY <1>1
<1>2. ASSUME NEW t \in browser.tabs, ApiStep(t) PROVE Same("fetch") /\ Same("mutate")
    BY <1>0, <1>2, ApiQuiet
<1>3. ASSUME NEW t \in browser.tabs,
             Send(t, "ticket") \/ Serve(t, "ticket") \/ Finish(t, "ticket")
      PROVE  Same("fetch") /\ Same("mutate")
    BY <1>0, <1>3, Requests
<1>4. ASSUME NEW t \in browser.tabs, Serve(t, "fetch") PROVE Same("fetch") /\ Same("mutate")
    BY <1>0, <1>4, Requests
<1>5. ASSUME NEW t \in browser.tabs, Serve(t, "mutate") PROVE Same("fetch") /\ Same("mutate")
    BY <1>0, <1>5, Requests
<1>6. ASSUME NEW t \in browser.tabs, Send(t, "fetch") \/ Finish(t, "fetch")
      PROVE  Same("mutate") /\ (u # t => Same("fetch"))
    BY <1>0, <1>6, Requests
<1>7. ASSUME NEW t \in browser.tabs, Send(t, "mutate") \/ Finish(t, "mutate")
      PROVE  Same("fetch") /\ (u # t => Same("mutate"))
    BY <1>0, <1>7, Requests
<1>8. \/ UNCHANGED call
      \/ \E t \in browser.tabs :
            \/ ApiStep(t)
            \/ Send(t, "ticket") \/ Serve(t, "ticket") \/ Finish(t, "ticket")
            \/ Serve(t, "fetch") \/ Serve(t, "mutate")
            \/ (Send(t, "fetch") \/ Finish(t, "fetch")) /\ (StartFetch(t) \/ EndFetch(t))
            \/ /\ Send(t, "mutate") \/ Finish(t, "mutate")
               /\ EndMutation(t) \/ \E x \in Topics : Mutate(t, x)
  <2>1. CASE UNCHANGED vars
      BY <2>1 DEF vars, apiVars, client
  <2>2. CASE \E t \in browser.tabs :
                \/ AskTicket(t) \/ ServeTicket(t) \/ GetTicket(t) \/ StartFetch(t)
                \/ ServeFetch(t) \/ EndFetch(t) \/ (\E x \in Topics : Mutate(t, x))
                \/ EndMutation(t) \/ \E v \in 1..browser.writes : ServeMutation(t, v)
      BY <2>2 DEF AskTicket, ServeTicket, GetTicket, StartFetch, ServeFetch, EndFetch, Mutate,
         EndMutation, ServeMutation
  <2>3. CASE \E t \in browser.tabs :
                \/ Handshake(t) \/ Open(t) \/ Break(t) \/ Notice(t) \/ Cleanup(t) \/ Deliver(t)
                \/ Visit(t)
      BY <2>3 DEF Handshake, Open, Break, Notice, Cleanup, Deliver, Visit, apiVars, client
  <2>4. CASE \/ \E x \in Topics : WriteUnversioned(x) \/ \E v \in 1..browser.writes : WriteStamped(x, v)
             \/ \E m \in owed : PublishMessage(m)
             \/ Listener \/ Restart
             \/ \E k \in tickets : TicketExpires(k)
             \/ \E f \in alive : FamilyEnds(f)
      BY <2>4 DEF WriteUnversioned, WriteStamped, PublishMessage, Listener, Restart, TicketExpires,
         FamilyEnds, apiVars, client
  <2> QED
      BY <2>1, <2>2, <2>3, <2>4 DEF Next
<1>9. ASSUME NEW t \in browser.tabs,
             (Send(t, "fetch") \/ Finish(t, "fetch")) /\ (StartFetch(t) \/ EndFetch(t))
      PROVE  /\ Same("mutate")
             /\ Same("fetch") \/ (u \in browser.tabs /\ (StartFetch(u) \/ EndFetch(u)))
    BY <1>6, <1>9
<1>10. ASSUME NEW t \in browser.tabs,
              Send(t, "mutate") \/ Finish(t, "mutate"), EndMutation(t) \/ \E x \in Topics : Mutate(t, x)
       PROVE  /\ Same("fetch")
              /\ Same("mutate") \/ (u \in browser.tabs /\ (EndMutation(u) \/ \E x \in Topics : Mutate(u, x)))
    BY <1>7, <1>10
<1> QED
    BY <1>1, <1>2, <1>3, <1>4, <1>5, <1>8, <1>9, <1>10 DEF Same

\* A browser keeps its settings.
LEMMA BrowserStays == [Next]_vars => browser' = browser
<1>1. ASSUME NEW t, SessionStep(t) PROVE browser' = browser
    BY <1>1 DEF SessionStep, RefreshTimer, SignIn, SignOut, SignedOut, SignOutFails, HearLogout,
       AccessExpires, SendRefresh, ServeRefresh, ReceiveRefresh, RefreshFails
<1>2. ASSUME NEW t, NEW p, Miss(t, p) \/ Join(t, p) \/ Send(t, p) \/ Serve(t, p) \/ Finish(t, p)
      PROVE  browser' = browser
    BY <1>2 DEF Miss, Join, Send, Serve, Finish
<1>3. ASSUME NEW t,
             \/ AskTicket(t) \/ ServeTicket(t) \/ GetTicket(t) \/ StartFetch(t) \/ ServeFetch(t)
             \/ EndFetch(t) \/ (\E x \in Topics : Mutate(t, x)) \/ EndMutation(t)
             \/ \E v \in 1..browser.writes : ServeMutation(t, v)
      PROVE  browser' = browser
    BY <1>2, <1>3 DEF AskTicket, ServeTicket, GetTicket, StartFetch, ServeFetch, EndFetch, Mutate,
       EndMutation, ServeMutation
<1>4. ASSUME NEW t,
             Handshake(t) \/ Open(t) \/ Break(t) \/ Notice(t) \/ Cleanup(t) \/ Deliver(t) \/ Visit(t)
      PROVE  browser' = browser
    BY <1>4 DEF Handshake, Open, Break, Notice, Cleanup, Deliver, Visit, apiVars, client
<1>5. CASE UNCHANGED vars
    BY <1>5 DEF vars, apiVars, client
<1>6. CASE \/ \E x \in Topics : WriteUnversioned(x) \/ \E v \in 1..browser.writes : WriteStamped(x, v)
           \/ \E m \in owed : PublishMessage(m)
           \/ Listener \/ Restart \/ (\E k \in tickets : TicketExpires(k)) \/ \E f \in alive : FamilyEnds(f)
    BY <1>6 DEF WriteUnversioned, WriteStamped, PublishMessage, Listener, Restart, TicketExpires,
       FamilyEnds, apiVars, client
<1>7. ASSUME NEW t, ApiStep(t) PROVE browser' = browser
    BY <1>1, <1>2, <1>7 DEF ApiStep
<1> QED
    BY <1>3, <1>4, <1>5, <1>6, <1>7 DEF Next

\* Refetching cancels what it asks for again.
LEMMA InvalidateFetching ==
    ASSUME Typed, NEW t \in Tabs, NEW xs \in SUBSET Topics, Invalidate(t, xs)
    PROVE  \A u \in Tabs : /\ asked'[u] \subseteq asked[u]
                           /\ dirty'[u] \cap asked'[u] = {}
                           /\ u # t => dirty'[u] = dirty[u] /\ asked'[u] = asked[u]
<1> DEFINE j == xs \ Joined(t, xs)
<1>1. dirty' = [dirty EXCEPT ![t] = dirty[t] \cup j] /\ asked' = [asked EXCEPT ![t] = asked[t] \ j]
    BY DEF Invalidate
<1>2. dirty \in [Tabs -> SUBSET Topics] /\ asked \in [Tabs -> SUBSET Topics]
    BY DEF Typed, Types, Notified
<1> HIDE DEF j
<1> QED
    BY <1>1, <1>2 DEF Typed, Fetching

\* What a tab asks for it fetches, and has not to fetch again.
LEMMA FetchingKept == Typed /\ [Next]_vars => Fetching'
<1> SUFFICES ASSUME Typed, [Next]_vars, NEW u \in Tabs
             PROVE  /\ asked'[u] # {} => call'[u]["fetch"].at # "idle"
                    /\ dirty'[u] \cap asked'[u] = {}
    BY DEF Fetching
<1>0. /\ Types /\ browser.tabs \subseteq Tabs /\ Purposes = {"fetch", "mutate", "ticket"}
      /\ dirty \in [Tabs -> SUBSET Topics] /\ asked \in [Tabs -> SUBSET Topics]
      /\ wrote \in [Tabs -> SUBSET Topics] /\ queue \in [Tabs -> Seq(Messages)]
    BY BrowsersAssumption, RealtimeAssumption DEF Typed, Types, ApiInv, Shape, Notified
<1>1. ASSUME asked'[u] \subseteq asked[u], dirty'[u] \cap asked'[u] = {},
             ~(u \in browser.tabs /\ (StartFetch(u) \/ EndFetch(u)))
      PROVE  /\ asked'[u] # {} => call'[u]["fetch"].at # "idle"
             /\ dirty'[u] \cap asked'[u] = {}
    BY <1>0, <1>1, Idleness DEF Typed, Fetching
<1>2. ASSUME u \in browser.tabs, StartFetch(u)
      PROVE  /\ asked'[u] # {} => call'[u]["fetch"].at # "idle"
             /\ dirty'[u] \cap asked'[u] = {}
  <2>1. call'[u]["fetch"].at = "sent"
      BY <1>0, <1>2, Requests DEF StartFetch
  <2> QED
      BY <1>0, <1>2, <2>1 DEF StartFetch
<1>3. ASSUME u \in browser.tabs, EndFetch(u)
      PROVE  /\ asked'[u] # {} => call'[u]["fetch"].at # "idle"
             /\ dirty'[u] \cap asked'[u] = {}
    BY <1>0, <1>3 DEF EndFetch
<1>4. CASE UNCHANGED <<dirty, asked>>
    BY <1>1, <1>2, <1>3, <1>4 DEF Typed, Fetching
<1>5. ASSUME NEW t \in browser.tabs, t # u, StartFetch(t) \/ EndFetch(t) \/ Visit(t)
      PROVE  dirty'[u] = dirty[u] /\ asked'[u] = asked[u]
    BY <1>0, <1>5 DEF StartFetch, EndFetch, Visit
<1>6. ASSUME u \in browser.tabs, Visit(u)
      PROVE  asked'[u] = {}
    BY <1>0, <1>6 DEF Visit
<1>7. ASSUME NEW t \in browser.tabs, NEW xs \in SUBSET Topics, Invalidate(t, xs)
      PROVE  asked'[u] \subseteq asked[u] /\ dirty'[u] \cap asked'[u] = {}
    BY <1>0, <1>7, InvalidateFetching
<1>8. \/ UNCHANGED <<dirty, asked>>
      \/ \E t \in browser.tabs : \/ StartFetch(t) \/ EndFetch(t) \/ Visit(t)
                                 \/ \E xs \in SUBSET Topics : Invalidate(t, xs)
  <2>1. CASE UNCHANGED vars
      BY <2>1 DEF vars, tab
  <2>2. ASSUME NEW t \in browser.tabs, Open(t)
        PROVE  \E xs \in SUBSET Topics : Invalidate(t, xs)
      BY <2>2 DEF Open
  <2>3. ASSUME NEW t \in browser.tabs, EndMutation(t)
        PROVE  UNCHANGED <<dirty, asked>> \/ \E xs \in SUBSET Topics : Invalidate(t, xs)
    <3>1. wrote[t] \in SUBSET Topics
        BY <1>0
    <3> QED
        BY <2>3, <3>1 DEF EndMutation
  <2>4. ASSUME NEW t \in browser.tabs, Deliver(t)
        PROVE  UNCHANGED <<dirty, asked>> \/ \E xs \in SUBSET Topics : Invalidate(t, xs)
    <3>1. queue[t] \in Seq(Messages) /\ queue[t] # <<>>
        BY <1>0, <2>4 DEF Deliver
    <3>2. Head(queue[t]) \in Messages
        BY <3>1
    <3>3. {Head(queue[t]).topic} \in SUBSET Topics
        BY <3>2 DEF Messages
    <3> QED
        BY <2>4, <3>3 DEF Deliver
  <2>5. CASE Next
      BY <2>2, <2>3, <2>4, <2>5 DEF Next, WriteUnversioned, WriteStamped, PublishMessage, Listener,
         Restart, TicketExpires, ApiStep, AskTicket, ServeTicket, GetTicket, Handshake, Break,
         Notice, Cleanup, ServeFetch, Mutate, ServeMutation, tab
  <2> QED
      BY <2>1, <2>5
<1>9. CASE u \in browser.tabs /\ (StartFetch(u) \/ EndFetch(u))
    BY <1>2, <1>3, <1>9
<1>10. CASE ~(u \in browser.tabs /\ (StartFetch(u) \/ EndFetch(u)))
  <2>1. asked'[u] \subseteq asked[u] /\ dirty'[u] \cap asked'[u] = {}
      BY <1>5, <1>6, <1>7, <1>8, <1>10 DEF Typed, Fetching
  <2> QED
      BY <1>1, <1>10, <2>1
<1> QED
    BY <1>9, <1>10

\* A tab has a topic to write as long as its mutation is under way, and makes no
\* more than its writes.
LEMMA WritingKept == Typed /\ [Next]_vars => Writing'
<1> SUFFICES ASSUME Typed, [Next]_vars, NEW u \in Tabs
             PROVE  /\ (wrote'[u] # {}) <=> (call'[u]["mutate"].at # "idle")
                    /\ saved'[u] <= browser'.own
    BY DEF Writing
<1>0. /\ Types /\ browser.tabs \subseteq Tabs /\ Purposes = {"fetch", "mutate", "ticket"}
      /\ wrote \in [Tabs -> SUBSET Topics] /\ saved \in [Tabs -> Nat] /\ browser.own \in Nat
    BY BrowsersAssumption, RealtimeAssumption DEF Typed, Types, ApiInv, Shape, Notified
<1>1. browser' = browser
    BY BrowserStays
<1>2. CASE u \in browser.tabs /\ EndMutation(u)
  <2>1. call'[u]["mutate"].at = "idle"
      BY <1>0, <1>2, Requests DEF EndMutation
  <2> QED
      BY <1>0, <1>1, <1>2, <2>1 DEF EndMutation, Typed, Writing
<1>3. CASE u \in browser.tabs /\ \E x \in Topics : Mutate(u, x)
  <2>1. PICK x \in Topics : Mutate(u, x)
      BY <1>3
  <2>2. call'[u]["mutate"].at = "sent"
      BY <1>0, <2>1, Requests DEF Mutate
  <2>3. wrote'[u] = {x} /\ saved'[u] = saved[u] + 1 /\ saved[u] < browser.own
      BY <1>0, <2>1 DEF Mutate
  <2> QED
      BY <1>0, <1>1, <2>2, <2>3
<1>4. CASE ~(u \in browser.tabs /\ (EndMutation(u) \/ \E x \in Topics : Mutate(u, x)))
  <2>1. call'[u]["mutate"].at = "idle" <=> call[u]["mutate"].at = "idle"
      BY <1>0, <1>4, Idleness
  <2>2. \/ UNCHANGED <<wrote, saved>>
        \/ \E t \in browser.tabs : EndMutation(t) \/ \E x \in Topics : Mutate(t, x)
    <3>1. CASE UNCHANGED vars
        BY <3>1 DEF vars, tab
    <3>2. CASE Next
      <4>1. CASE \/ \E x \in Topics : \/ WriteUnversioned(x)
                                    \/ \E v \in 1..browser.writes : WriteStamped(x, v)
                 \/ \E m \in owed : PublishMessage(m)
                 \/ Listener \/ Restart
                 \/ \E k \in tickets : TicketExpires(k)
                 \/ (\E f \in alive : FamilyEnds(f)) /\ UNCHANGED <<writes, backend, tab, gap>>
          BY <4>1 DEF WriteUnversioned, WriteStamped, PublishMessage, Listener, Restart,
                      TicketExpires, tab
      <4>2. ASSUME NEW t \in browser.tabs, \/ ApiStep(t) \/ AskTicket(t) \/ ServeTicket(t)
                                            \/ GetTicket(t) \/ Handshake(t) \/ Open(t)
            PROVE  UNCHANGED <<wrote, saved>>
          BY <4>2 DEF ApiStep, AskTicket, ServeTicket, GetTicket, Handshake, Open, tab
      <4>3. ASSUME NEW t \in browser.tabs, Break(t) \/ Notice(t) \/ Cleanup(t) \/ Deliver(t)
            PROVE  UNCHANGED <<wrote, saved>>
          BY <4>3 DEF Break, Notice, Cleanup, Deliver, tab
      <4>4. ASSUME NEW t \in browser.tabs,
                   \/ Visit(t) \/ StartFetch(t) \/ ServeFetch(t) \/ EndFetch(t)
                   \/ \E v \in 1..browser.writes : ServeMutation(t, v)
            PROVE  UNCHANGED <<wrote, saved>>
          BY <4>4 DEF Visit, StartFetch, ServeFetch, EndFetch, ServeMutation, tab
      <4> QED
          BY <3>2, <4>1, <4>2, <4>3, <4>4 DEF Next
    <3> QED
        BY <3>1, <3>2
  <2>3. ASSUME NEW t \in browser.tabs, t # u, EndMutation(t) \/ \E x \in Topics : Mutate(t, x)
        PROVE  wrote'[u] = wrote[u] /\ saved'[u] = saved[u]
      BY <1>0, <2>3 DEF EndMutation, Mutate
  <2>4. wrote'[u] = wrote[u] /\ saved'[u] = saved[u]
      BY <1>4, <2>2, <2>3
  <2> QED
      BY <1>1, <2>1, <2>4 DEF Typed, Writing
<1> QED
    BY <1>2, <1>3, <1>4

\* Commits only add, and a tab fetches and shows no more than what is committed.
LEMMA ShownKept == Typed /\ [Next]_vars => Shown'
<1> SUFFICES ASSUME Typed, [Next]_vars PROVE Shown'
    OBVIOUS
<1>0. /\ browser.tabs \subseteq Tabs /\ truth \in [Topics -> Nat] /\ browser.writes \in Nat
      /\ reply \in [Tabs -> [Topics -> Int]] /\ view \in [Tabs -> [Topics -> Int]]
      /\ wrote \in [Tabs -> SUBSET Topics] /\ Types /\ Shown
    BY BrowsersAssumption, RealtimeAssumption DEF Typed, Types, ApiInv, Shape, Notified
<1>1. CASE UNCHANGED <<truth, reply, view>>
    BY <1>0, <1>1 DEF Shown
<1>2. ASSUME NEW x \in Topics, NEW v \in Nat, Commit(x, v), UNCHANGED <<reply, view>> PROVE Shown'
  <2>1. \A y \in Topics : truth'[y] \in {truth[y], truth[y] + 1}
      BY <1>0, <1>2, CommitTypes
  <2>2. SUFFICES ASSUME NEW t \in Tabs, NEW y \in Topics
                 PROVE  reply[t][y] \in Nothing..truth'[y] /\ view[t][y] \in Nothing..truth'[y]
      BY <1>2 DEF Shown
  <2>3. /\ reply[t][y] \in Nothing..truth[y] /\ view[t][y] \in Nothing..truth[y]
        /\ truth[y] \in Nat /\ reply[t][y] \in Int /\ view[t][y] \in Int
      BY <1>0 DEF Shown
  <2>4. truth'[y] >= truth[y] /\ truth'[y] \in Nat
      BY <2>1, <2>3
  <2> QED
      BY <2>3, <2>4 DEF Nothing
<1>3. ASSUME NEW t \in browser.tabs, ServeFetch(t) PROVE Shown'
  <2>1. reply' = [reply EXCEPT ![t] = truth] /\ UNCHANGED <<truth, view>>
      BY <1>3 DEF ServeFetch, writes
  <2>2. \A u \in Tabs : reply'[u] = reply[u] \/ reply'[u] = truth
      BY <1>0, <2>1
  <2>3. \A x \in Topics : truth[x] \in Nothing..truth[x]
      BY <1>0 DEF Nothing
  <2> QED
      BY <1>0, <2>1, <2>2, <2>3 DEF Shown
<1>4. ASSUME NEW t \in browser.tabs, EndFetch(t) PROVE Shown'
  <2> DEFINE shown == [x \in Topics |-> IF x \in asked[t] THEN reply[t][x] ELSE view[t][x]]
  <2>1. /\ reply' = [reply EXCEPT ![t] = [x \in Topics |-> Nothing]] /\ UNCHANGED truth
        /\ UNCHANGED view \/ view' = [view EXCEPT ![t] = shown]
      BY <1>4 DEF EndFetch, writes
  <2>2. \A x \in Topics : shown[x] \in Nothing..truth[x] /\ Nothing \in Nothing..truth[x]
      BY <1>0 DEF Shown, Nothing
  <2> HIDE DEF shown
  <2>3. \A u \in Tabs : /\ reply'[u] = reply[u] \/ reply'[u] = [x \in Topics |-> Nothing]
                        /\ view'[u] = view[u] \/ view'[u] = shown
      BY <1>0, <2>1
  <2> QED
      BY <1>0, <2>1, <2>2, <2>3 DEF Shown
<1>5. \/ UNCHANGED <<truth, reply, view>>
      \/ \E x \in Topics, v \in Nat : Commit(x, v) /\ UNCHANGED <<reply, view>>
      \/ \E t \in browser.tabs : ServeFetch(t) \/ EndFetch(t)
  <2>1. CASE UNCHANGED vars
      BY <2>1 DEF vars, tab, writes
  <2>2. CASE \E x \in Topics : WriteUnversioned(x) \/ \E v \in 1..browser.writes : WriteStamped(x, v)
      BY <1>0, <2>2 DEF WriteUnversioned, WriteStamped, tab
  <2>3. CASE \E t \in browser.tabs : \E v \in 1..browser.writes : ServeMutation(t, v)
    <3>1. PICK t \in browser.tabs, v \in 1..browser.writes : ServeMutation(t, v)
        BY <2>3
    <3>2. v \in Nat /\ wrote[t] \subseteq Topics
        BY <1>0
    <3> QED
        BY <3>1, <3>2 DEF ServeMutation, tab, writes
  <2>4. CASE Next /\ ~(\E t \in browser.tabs : \E v \in 1..browser.writes : ServeMutation(t, v))
        /\ ~(\E x \in Topics : WriteUnversioned(x) \/ \E v \in 1..browser.writes : WriteStamped(x, v))
    <3>1. CASE \/ \E m \in owed : PublishMessage(m)
               \/ Listener \/ Restart
               \/ \E k \in tickets : TicketExpires(k)
               \/ (\E f \in alive : FamilyEnds(f)) /\ UNCHANGED <<writes, backend, tab, gap>>
        BY <3>1 DEF PublishMessage, Listener, Restart, TicketExpires, tab, writes
    <3>2. ASSUME NEW t \in browser.tabs, \/ ApiStep(t) \/ AskTicket(t) \/ ServeTicket(t)
                                          \/ GetTicket(t) \/ Handshake(t) \/ Open(t)
          PROVE  UNCHANGED <<truth, reply, view>>
        BY <3>2 DEF ApiStep, AskTicket, ServeTicket, GetTicket, Handshake, Open, tab, writes
    <3>3. ASSUME NEW t \in browser.tabs, Break(t) \/ Notice(t) \/ Cleanup(t) \/ Deliver(t)
          PROVE  UNCHANGED <<truth, reply, view>>
        BY <3>3 DEF Break, Notice, Cleanup, Deliver, tab, writes
    <3>4. ASSUME NEW t \in browser.tabs, \/ Visit(t) \/ StartFetch(t) \/ EndMutation(t)
                                          \/ \E x \in Topics : Mutate(t, x)
          PROVE  UNCHANGED <<truth, reply, view>>
        BY <3>4 DEF Visit, StartFetch, EndMutation, Mutate, tab, writes
    <3> QED
        BY <2>4, <3>1, <3>2, <3>3, <3>4 DEF Next
  <2> QED
      BY <2>1, <2>2, <2>3, <2>4
<1> QED
    BY <1>1, <1>2, <1>3, <1>4, <1>5

\* A handshake is refused when the connections are at their limit.
LEMMA CapacityKept == Typed /\ [Next]_vars => Capacity'
<1> SUFFICES ASSUME Typed, [Next]_vars PROVE Capacity'
    OBVIOUS
<1>0. /\ browser.tabs \subseteq Tabs /\ conn \in [Tabs -> Nat] /\ browser.families \in Nat
      /\ alive \subseteq Families /\ MaxConnections \in Nat /\ Capacity
    BY BrowsersAssumption, RealtimeAssumption DEF Typed, Types, ApiInv, Shape, Notified, Families
<1>1. browser' = browser
    BY BrowserStays
<1>2. ASSUME \A t \in Tabs : conn'[t] \in {conn[t], NoFamily} PROVE Capacity'
  <2>1. Connected' \subseteq Connected
      BY <1>2 DEF Connected
  <2>2. IsFiniteSet(Connected') /\ Cardinality(Connected') <= Cardinality(Connected)
      BY <1>0, <2>1, FS_Subset DEF Capacity
  <2>3. Cardinality(Connected') \in Nat /\ Cardinality(Connected) \in Nat
      BY <1>0, <2>2, FS_CardinalityType DEF Capacity
  <2>4. Cardinality(Connected') <= MaxConnections
      BY <1>0, <2>2, <2>3 DEF Capacity
  <2> QED
      BY <1>0, <1>1, <1>2, <2>2, <2>4 DEF Capacity, Families
<1>3. ASSUME NEW t \in Tabs, NEW f \in alive, conn' = [conn EXCEPT ![t] = f],
             Cardinality(Connected) < MaxConnections
      PROVE  Capacity'
  <2>1. Connected' \subseteq Connected \cup {t}
      BY <1>0, <1>3 DEF Connected
  <2>2. /\ IsFiniteSet(Connected \cup {t}) /\ Cardinality(Connected) \in Nat
        /\ Cardinality(Connected \cup {t}) \in {Cardinality(Connected), Cardinality(Connected) + 1}
      BY <1>0, FS_AddElement, FS_CardinalityType DEF Capacity
  <2>3. IsFiniteSet(Connected') /\ Cardinality(Connected') <= Cardinality(Connected \cup {t})
      BY <2>1, <2>2, FS_Subset
  <2>4. Cardinality(Connected') \in Nat
      BY <2>3, FS_CardinalityType
  <2>5. Cardinality(Connected') <= MaxConnections
      BY <1>0, <1>3, <2>2, <2>3, <2>4
  <2>6. \A u \in Tabs : conn'[u] \in Families \cup {NoFamily}
      BY <1>0, <1>3 DEF Capacity
  <2> QED
      BY <1>1, <2>3, <2>5, <2>6 DEF Capacity, Families
<1>4. \/ \A t \in Tabs : conn'[t] \in {conn[t], NoFamily}
      \/ \E t \in Tabs, f \in alive : conn' = [conn EXCEPT ![t] = f] /\ Cardinality(Connected) < MaxConnections
  <2>1. CASE UNCHANGED vars
      BY <2>1 DEF vars, backend
  <2>2. CASE Restart
      BY <2>2 DEF Restart
  <2>3. ASSUME NEW t \in browser.tabs, Break(t) \/ Cleanup(t)
        PROVE  \A u \in Tabs : conn'[u] \in {conn[u], NoFamily}
      BY <1>0, <2>3 DEF Break, Cleanup, Drop
  <2>4. ASSUME NEW t \in browser.tabs, Handshake(t)
        PROVE  \/ UNCHANGED conn
               \/ \E f \in alive : conn' = [conn EXCEPT ![t] = f] /\ Cardinality(Connected) < MaxConnections
      BY <2>4 DEF Handshake
  <2>5. CASE Next /\ ~Restart /\ ~\E t \in browser.tabs : Break(t) \/ Cleanup(t) \/ Handshake(t)
    <3>1. UNCHANGED conn
        BY <2>5 DEF Next, WriteUnversioned, WriteStamped, PublishMessage, Listener,
           TicketExpires, ApiStep, AskTicket, ServeTicket, GetTicket, Open, Notice, Deliver, Visit,
           StartFetch, ServeFetch, EndFetch, Mutate, EndMutation, ServeMutation, backend
    <3> QED
        BY <3>1
  <2> QED
      BY <1>0, <2>1, <2>2, <2>3, <2>4, <2>5
<1> QED
    BY <1>2, <1>3, <1>4

\* Every step keeps the types and the limits.
LEMMA TypedKept == Typed /\ [Next]_vars => Typed'
<1> SUFFICES ASSUME Typed, [Next]_vars PROVE Typed'
    OBVIOUS
<1>1. Types' /\ Bounded'
    BY StepKeeps, ClientKept, BoundsKept, NotifiedKept DEF Typed, Types, Queues
<1> QED
    BY <1>1, QueuesKept, AttemptedKept, FetchingKept, WritingKept, ShownKept, CapacityKept DEF Typed

\* The types and the limits always hold.
THEOREM TypedAlways == Spec => []Typed
    BY InitialLimits, TypedKept, PTL DEF Spec

\* The variables of the API client, the backend and the tabs have their types, no
\* queue or number of connections exceeds its limit (_fan_out, connect), and no
\* tab shows more than what is committed.
THEOREM RealtimeTypes == Spec => []TypeOK
<1>1. Typed => TypeOK
  <2> SUFFICES ASSUME Typed PROVE TypeOK
      OBVIOUS
  <2>0. browser \in Browsers /\ browser.families \in Nat /\ born \in 1..browser.families
        /\ browser.tokens \in Nat /\ MaxAttempts \in Nat
      BY BrowsersAssumption, RealtimeAssumption DEF Typed, Types, ApiInv, Shape
  <2>1. alive \subseteq Families /\ \A f \in Families : current[f] \in 1..browser.tokens
      BY <2>0 DEF Typed, Types, ApiInv, Shape, Families, Bounded
  <2>2. cookie = NoCookie \/ cookie \in Families \X (1..browser.tokens)
    <3> SUFFICES ASSUME cookie # NoCookie PROVE cookie \in Families \X (1..browser.tokens)
        OBVIOUS
    <3>1. cookie \in Nat \X Nat /\ cookie[1] \in 1..born /\ cookie[2] \in 1..browser.tokens
        BY DEF Typed, Types, ApiInv, Shape, Tokens, Issued, Known, Bounded, InBounds
    <3> QED
        BY <2>0, <3>1 DEF Families
  <2>3. lock \in Tabs \cup {NoTab} /\ leaving \cup told \subseteq browser.tabs
      BY DEF Typed, Types, ApiInv, Shape, Client
  <2>4. ASSUME NEW t \in Tabs
        PROVE  /\ status[t] \in {"loading", "authenticated", "anonymous"}
               /\ (status[t] = "authenticated") = (access[t] # NoAccess)
               /\ \A r \in refresh[t] : r.at \in {"waiting", "sent", "served"}
               /\ \A p \in Purposes :
                     /\ call[t][p].at \in {"idle", "sent", "refused", "refresh", "resent", "ok", "failed"}
                     /\ call[t][p].at = "refresh" => refresh[t] # {}
    <3>1. /\ status[t] \in {"loading", "authenticated", "anonymous"}
          /\ status[t] = "authenticated" <=> access[t] # NoAccess
        BY DEF Typed, Types, Client
    <3>2. \A r \in refresh[t] : r.at \in {"waiting", "sent", "served"}
        BY DEF Typed, Types, ApiInv, Shape, Refreshes
    <3>3. \A p \in Purposes :
             /\ call[t][p].at \in {"idle", "sent", "refused", "refresh", "resent", "ok", "failed"}
             /\ call[t][p].at = "refresh" => refresh[t] # {}
        BY DEF Typed, Types, Client, Calls
    <3> QED
        BY <3>1, <3>2, <3>3
  <2>5. ApiTypeOK
      BY <2>0, <2>1, <2>2, <2>3, <2>4 DEF ApiTypeOK
  <2>6. ASSUME NEW t \in Tabs
        PROVE  /\ socket[t] \in {"none", "asking", "opening", "accepted", "open"}
               /\ attempts[t] \in 0..MaxAttempts + 1
    <3>1. socket[t] \in Sockets /\ attempts[t] \in Nat /\ attempts[t] <= MaxAttempts + 1
        BY DEF Typed, Types, Notified, Attempted
    <3> QED
        BY <2>0, <3>1 DEF Sockets
  <2>7. ASSUME NEW t \in Tabs
        PROVE  /\ (wrote[t] # {}) = (call[t]["mutate"].at # "idle") /\ saved[t] <= browser.own
               /\ asked[t] # {} => call[t]["fetch"].at # "idle"
               /\ dirty[t] \cap asked[t] = {}
               /\ \A x \in Topics : view[t][x] \in Nothing..truth[x]
      BY DEF Typed, Writing, Fetching, Shown
  <2> QED
      BY <2>5, <2>6, <2>7 DEF Typed, Queues, Capacity, TypeOK
<1> QED
    BY <1>1, TypedAlways, PTL
-----------------------------------------------------------------------------
(* Freshness.  As long as a tab is connected, every topic that is not in its  *)
(* gap is about to be refetched, being refetched, in its queue, owed to it,   *)
(* or shown as it is committed.                                             *)

Told(t, x) ==
    \/ x \in dirty[t]
    \/ x \in asked[t] /\ (call[t]["fetch"].at = "ok" => reply[t][x] = truth[x])
    \/ \E i \in DOMAIN queue[t] : queue[t][i].topic = x
    \/ \E m \in owed : m.topic = x
    \/ x \notin asked[t] /\ view[t][x] = truth[x]
Settled(t) == socket[t] = "open" /\ conn[t] # NoFamily => \A x \in Topics \ gap[t] : Told(t, x)
Fresh == \A t \in browser.tabs : Settled(t)

\* What a step leaves alone of what a tab is told.
Unmoved(t) ==
    /\ UNCHANGED writes
    /\ queue'[t] = queue[t] /\ dirty'[t] = dirty[t] /\ asked'[t] = asked[t]
    /\ reply'[t] = reply[t] /\ view'[t] = view[t] /\ gap'[t] = gap[t]
    /\ call'[t]["fetch"].at = "ok" => call[t]["fetch"].at = "ok"
    /\ socket'[t] = "open" => socket[t] = "open"
    /\ conn'[t] # NoFamily => conn[t] # NoFamily

LEMMA UnmovedStays == \A t : Settled(t) /\ Unmoved(t) => Settled(t)'
    BY DEF Settled, Told, Unmoved, writes

\* A tab without an open connection is not told anything.
LEMMA NotConnected == \A t : socket'[t] # "open" \/ conn'[t] = NoFamily => Settled(t)'
    BY DEF Settled, NoFamily

\* A commit owes the message it has to tell.
LEMMA CommitSettled ==
    ASSUME Typed, NEW t \in Tabs, Settled(t), NEW x \in Topics, NEW v \in Nat, Commit(x, v),
           UNCHANGED <<backend, tab, gap>>,
           call'[t]["fetch"] = call[t]["fetch"]
    PROVE  Settled(t)'
<1>1. /\ \A y \in Topics : truth'[y] # truth[y] => y = x
      /\ owed \subseteq owed' /\ \E m \in owed' : m.topic = x
    BY CommitTypes DEF Typed
<1> SUFFICES ASSUME socket[t] = "open", conn[t] # NoFamily, NEW y \in Topics \ gap[t] PROVE Told(t, y)'
    BY DEF Settled, backend, tab
<1>2. Told(t, y)
    BY DEF Settled
<1>3. CASE y = x
    BY <1>1, <1>3 DEF Told
<1>4. CASE y # x
    BY <1>1, <1>2, <1>4 DEF Told, backend, tab
<1> QED
    BY <1>3, <1>4

\* A message is in the queue of who is connected, or what it says is in the gap.
LEMMA PublishSettled ==
    ASSUME Typed, NEW t \in Tabs, Settled(t), NEW m \in owed, PublishMessage(m)
    PROVE  Settled(t)'
<1>1. /\ m \in Messages /\ queue[t] \in Seq(Messages) /\ Len(queue[t]) <= QueueMax
      /\ gap[t] \subseteq Topics
    BY DEF Typed, Types, Notified, Queues
<1>2. owed' = owed \ {m} /\ UNCHANGED <<client, truth, conn, tab>>
    BY DEF PublishMessage
<1> SUFFICES ASSUME socket[t] = "open", conn[t] # NoFamily, NEW x \in Topics, x \notin gap'[t]
             PROVE  Told(t, x)'
    BY <1>2 DEF Settled, tab
<1>3. t \in Connected
    BY DEF Connected
<1>4. CASE queue' = [u \in Tabs |-> IF u \in Connected THEN Enqueue(queue[u], m) ELSE queue[u]]
           /\ gap' = [u \in Tabs |-> IF u \in Connected THEN gap[u] \cup Evicted(queue[u]) ELSE gap[u]]
  <2>1. queue'[t] = Enqueue(queue[t], m) /\ gap'[t] = gap[t] \cup Evicted(queue[t])
      BY <1>3, <1>4
  <2>2. /\ \E i \in DOMAIN queue'[t] : queue'[t][i] = m
        /\ \A i \in DOMAIN queue[t] : \/ queue[t][i].topic \in Evicted(queue[t])
                                      \/ \E j \in DOMAIN queue'[t] : queue'[t][j] = queue[t][i]
    <3> DEFINE q == queue[t]
    <3> HIDE DEF q
    <3>1. q \in Seq(Messages) /\ Len(q) <= QueueMax
        BY <1>1 DEF q
    <3>2. /\ \E i \in DOMAIN Enqueue(q, m) : Enqueue(q, m)[i] = m
          /\ \A i \in DOMAIN q : \/ q[i].topic \in Evicted(q)
                                 \/ \E j \in DOMAIN Enqueue(q, m) : Enqueue(q, m)[j] = q[i]
        BY <1>1, <3>1, EnqueueIs
    <3> QED
        BY <2>1, <3>2 DEF q
  <2>3. Told(t, x) /\ x \notin Evicted(queue[t])
      BY <2>1 DEF Settled
  <2>4. (\E i \in DOMAIN queue[t] : queue[t][i].topic = x) => \E i \in DOMAIN queue'[t] : queue'[t][i].topic = x
      BY <2>2, <2>3
  <2>5. (\E n \in owed : n.topic = x)
        => (\E n \in owed' : n.topic = x) \/ \E i \in DOMAIN queue'[t] : queue'[t][i].topic = x
      BY <1>2, <2>2
  <2> QED
      BY <1>2, <2>3, <2>4, <2>5 DEF Told, tab, client
<1>5. CASE gap' = [u \in Tabs |-> gap[u] \cup {m.topic}] /\ UNCHANGED queue
  <2>1. x \notin gap[t] /\ x # m.topic
      BY <1>5
  <2>2. Told(t, x)
      BY <2>1 DEF Settled
  <2>3. \A n \in owed : n.topic = x => n \in owed'
      BY <1>2, <2>1
  <2> QED
      BY <1>2, <1>5, <2>2, <2>3 DEF Told, tab, client
<1> QED
    BY <1>4, <1>5 DEF PublishMessage

\* What is asked for again is to be refetched, unless a first fetch answers.
LEMMA InvalidateSettled ==
    ASSUME Typed, NEW t \in Tabs, NEW xs \in SUBSET Topics, Invalidate(t, xs),
           NEW x \in Topics, x \notin Joined(t, xs)
    PROVE  /\ x \in xs => x \in dirty'[t]
           /\ x \notin xs => /\ x \in dirty'[t] <=> x \in dirty[t]
                             /\ x \in asked'[t] <=> x \in asked[t]
<1> DEFINE j == xs \ Joined(t, xs)
<1>1. dirty' = [dirty EXCEPT ![t] = dirty[t] \cup j] /\ asked' = [asked EXCEPT ![t] = asked[t] \ j]
    BY DEF Invalidate
<1>2. dirty'[t] = dirty[t] \cup j /\ asked'[t] = asked[t] \ j
    BY <1>1 DEF Typed, Types, Notified
<1> QED
    BY <1>2

\* A tab that handles a message asks for what it says.
LEMMA DeliverSettled ==
    ASSUME Typed, NEW t \in Tabs, Settled(t), Deliver(t)
    PROVE  Settled(t)'
<1> DEFINE m == Head(queue[t])
<1>1. /\ queue[t] \in Seq(Messages) /\ queue[t] # <<>> /\ gap[t] \subseteq Topics
      /\ queue \in [Tabs -> Seq(Messages)] /\ gap \in [Tabs -> SUBSET Topics]
    BY DEF Typed, Types, Notified, Deliver
<1>2. m \in Messages /\ {m.topic} \in SUBSET Topics
  <2>1. m \in Messages
      BY <1>1
  <2> QED
      BY <2>1 DEF Messages
<1>3. /\ queue'[t] = Tail(queue[t])
      /\ UNCHANGED <<apiVars, writes, conn, socket, reply, view>>
    BY <1>1 DEF Deliver
<1>4. \A i \in DOMAIN queue[t] : \/ queue[t][i] = m
                                 \/ \E j \in DOMAIN Tail(queue[t]) : Tail(queue[t])[j] = queue[t][i]
  <2>1. SUFFICES ASSUME NEW i \in DOMAIN queue[t], i # 1
                 PROVE  \E j \in DOMAIN Tail(queue[t]) : Tail(queue[t])[j] = queue[t][i]
      BY <1>1
  <2>2. i \in 2..Len(queue[t]) /\ Len(queue[t]) \in Nat
      BY <1>1, <2>1
  <2>3. i - 1 \in 1..Len(Tail(queue[t])) /\ Tail(queue[t])[i - 1] = queue[t][(i - 1) + 1]
      BY <1>1, <2>2
  <2>4. Tail(queue[t]) \in Seq(Messages)
      BY <1>1
  <2> QED
      BY <2>2, <2>3, <2>4
<1> SUFFICES ASSUME socket[t] = "open", conn[t] # NoFamily, NEW x \in Topics, x \notin gap'[t]
             PROVE  Told(t, x)'
    BY <1>3 DEF Settled
<1>5. x # m.topic => ((\E i \in DOMAIN queue[t] : queue[t][i].topic = x)
                       => \E i \in DOMAIN queue'[t] : queue'[t][i].topic = x)
    BY <1>3, <1>4
<1>6. CASE m.version < newest[t][m.topic]
  <2>1. gap' = [gap EXCEPT ![t] = gap[t] \cup {m.topic}] /\ UNCHANGED <<dirty, asked>>
      BY <1>6 DEF Deliver
  <2>2. x \notin gap[t] /\ x # m.topic
      BY <1>1, <2>1
  <2>3. Told(t, x)
      BY <2>2 DEF Settled
  <2> QED
      BY <1>3, <1>5, <2>1, <2>2, <2>3 DEF Told, apiVars, client, writes
<1>7. CASE ~(m.version < newest[t][m.topic])
  <2>1. gap' = [gap EXCEPT ![t] = gap[t] \cup Joined(t, {m.topic})] /\ Invalidate(t, {m.topic})
      BY <1>7 DEF Deliver
  <2>2. x \notin gap[t] /\ x \notin Joined(t, {m.topic})
      BY <1>1, <2>1
  <2>3. /\ x = m.topic => x \in dirty'[t]
        /\ x # m.topic => /\ x \in dirty'[t] <=> x \in dirty[t]
                          /\ x \in asked'[t] <=> x \in asked[t]
      BY <1>2, <2>1, <2>2, InvalidateSettled
  <2>4. Told(t, x)
      BY <2>2 DEF Settled
  <2> HIDE DEF m
  <2> QED
      BY <1>3, <1>5, <2>3, <2>4 DEF Told, apiVars, client, writes
<1> QED
    BY <1>6, <1>7

\* A mutation that succeeds asks for what it wrote.
LEMMA MutationSettled ==
    ASSUME Typed, NEW t \in Tabs, Settled(t), EndMutation(t)
    PROVE  Settled(t)'
<1>0. /\ wrote[t] \in SUBSET Topics /\ gap \in [Tabs -> SUBSET Topics]
      /\ Types /\ Purposes = {"fetch", "mutate", "ticket"}
    BY RealtimeAssumption DEF Typed, Types, Notified
<1>1. UNCHANGED <<writes, backend, socket, reply, view>> /\ call'[t]["fetch"] = call[t]["fetch"]
    BY <1>0, Requests DEF EndMutation
<1>2. CASE call[t]["mutate"].at # "ok"
  <2>1. Unmoved(t)
      BY <1>1, <1>2 DEF EndMutation, Unmoved, backend
  <2> QED
      BY <2>1, UnmovedStays
<1>3. CASE call[t]["mutate"].at = "ok"
  <2> SUFFICES ASSUME socket[t] = "open", conn[t] # NoFamily, NEW x \in Topics, x \notin gap'[t]
               PROVE  Told(t, x)'
      BY <1>1 DEF Settled, backend
  <2>1. gap' = [gap EXCEPT ![t] = gap[t] \cup Joined(t, wrote[t])] /\ Invalidate(t, wrote[t])
      BY <1>3 DEF EndMutation
  <2>2. x \notin gap[t] /\ x \notin Joined(t, wrote[t])
      BY <1>0, <2>1
  <2>3. /\ x \in wrote[t] => x \in dirty'[t]
        /\ x \notin wrote[t] => /\ x \in dirty'[t] <=> x \in dirty[t]
                                /\ x \in asked'[t] <=> x \in asked[t]
      BY <1>0, <2>1, <2>2, InvalidateSettled
  <2>4. Told(t, x)
      BY <2>2 DEF Settled
  <2> QED
      BY <1>1, <2>3, <2>4 DEF Told, writes, backend
<1> QED
    BY <1>2, <1>3

\* A fetch starts with what is stale, reads what is committed, and shows it.
LEMMA FetchSettled ==
    ASSUME Typed, NEW t \in Tabs, Settled(t), StartFetch(t) \/ ServeFetch(t) \/ EndFetch(t)
    PROVE  Settled(t)'
<1>0. /\ Types /\ Purposes = {"fetch", "mutate", "ticket"} /\ gap \in [Tabs -> SUBSET Topics]
      /\ dirty \in [Tabs -> SUBSET Topics] /\ asked \in [Tabs -> SUBSET Topics]
      /\ reply \in [Tabs -> [Topics -> Int]] /\ view \in [Tabs -> [Topics -> Int]]
    BY RealtimeAssumption DEF Typed, Types, Notified
<1>1. UNCHANGED <<writes, backend, socket>>
    BY DEF StartFetch, ServeFetch, EndFetch
<1> SUFFICES ASSUME socket[t] = "open", conn[t] # NoFamily, NEW x \in Topics, x \notin gap'[t]
             PROVE  Told(t, x)'
    BY <1>1 DEF Settled, backend
<1>2. CASE StartFetch(t)
  <2>1. call[t]["fetch"].at = "idle" /\ call'[t]["fetch"].at = "sent"
      BY <1>0, <1>2, Requests DEF StartFetch
  <2>2. asked[t] = {}
      BY <2>1 DEF Typed, Fetching
  <2>3. asked'[t] = dirty[t] /\ UNCHANGED <<reply, view, gap>>
      BY <1>0, <1>2 DEF StartFetch
  <2>4. Told(t, x)
      BY <2>3 DEF Settled
  <2> QED
      BY <1>1, <2>1, <2>2, <2>3, <2>4 DEF Told, writes, backend
<1>3. CASE ServeFetch(t)
  <2>1. reply'[t] = truth /\ UNCHANGED <<dirty, asked, view, gap>>
      BY <1>0, <1>3 DEF ServeFetch
  <2>2. Told(t, x)
      BY <2>1 DEF Settled
  <2> QED
      BY <1>1, <2>1, <2>2 DEF Told, writes, backend
<1>4. CASE EndFetch(t)
  <2>1. asked'[t] = {}
      BY <1>0, <1>4 DEF EndFetch
  <2>2. CASE call[t]["fetch"].at = "ok"
    <3> DEFINE shown == [y \in Topics |-> IF y \in asked[t] THEN reply[t][y] ELSE view[t][y]]
    <3>1. view' = [view EXCEPT ![t] = shown] /\ UNCHANGED <<dirty, gap>>
        BY <1>4, <2>2 DEF EndFetch
    <3>2. view'[t] = shown
        BY <1>0, <3>1
    <3>3. view'[t][x] = IF x \in asked[t] THEN reply[t][x] ELSE view[t][x]
        BY <3>2
    <3>4. Told(t, x)
        BY <3>1 DEF Settled
    <3> HIDE DEF shown
    <3> QED
        BY <1>1, <2>1, <2>2, <3>1, <3>3, <3>4 DEF Told, writes, backend
  <2>3. CASE call[t]["fetch"].at # "ok"
    <3>1. /\ UNCHANGED view
          /\ \/ dirty' = [dirty EXCEPT ![t] = dirty[t] \cup asked[t]] /\ UNCHANGED gap
             \/ gap' = [gap EXCEPT ![t] = gap[t] \cup asked[t]] /\ UNCHANGED dirty
        BY <1>4, <2>3 DEF EndFetch
    <3>2. /\ x \notin gap[t] /\ dirty[t] \subseteq dirty'[t]
          /\ x \in asked[t] => x \in dirty'[t]
        BY <1>0, <3>1
    <3>3. Told(t, x)
        BY <3>2 DEF Settled
    <3> QED
        BY <1>1, <2>1, <3>1, <3>2, <3>3 DEF Told, writes, backend
  <2> QED
      BY <2>2, <2>3
<1> QED
    BY <1>2, <1>3, <1>4

\* Every step keeps what a connected tab is told.
LEMMA FreshKept == Typed /\ Fresh /\ [Next]_vars => Fresh'
<1> SUFFICES ASSUME Typed, Fresh, [Next]_vars, NEW u \in browser.tabs PROVE Settled(u)'
    BY BrowserStays DEF Fresh
<1>0. /\ Types /\ Purposes = {"fetch", "mutate", "ticket"} /\ browser.tabs \subseteq Tabs
      /\ u \in Tabs /\ Settled(u) /\ browser.writes \in Nat
      /\ \A t \in Tabs : wrote[t] \subseteq Topics
    BY BrowsersAssumption, RealtimeAssumption DEF Typed, Types, Notified, ApiInv, Shape, Fresh
<1>1. /\ dirty \in [Tabs -> SUBSET Topics] /\ asked \in [Tabs -> SUBSET Topics]
      /\ reply \in [Tabs -> [Topics -> Int]] /\ view \in [Tabs -> [Topics -> Int]]
      /\ gap \in [Tabs -> SUBSET Topics] /\ queue \in [Tabs -> Seq(Messages)]
      /\ socket \in [Tabs -> Sockets] /\ conn \in [Tabs -> Nat]
    BY <1>0 DEF Types, Notified
<1>2. CASE UNCHANGED vars
  <2>1. Unmoved(u)
      BY <1>2 DEF vars, Unmoved, writes, backend, tab, apiVars, client
  <2> QED
      BY <1>0, <2>1, UnmovedStays
<1>3. ASSUME NEW x \in Topics,
             WriteUnversioned(x) \/ \E v \in 1..browser.writes : WriteStamped(x, v)
      PROVE  Settled(u)'
  <2>1. PICK v \in Nat : Commit(x, v) /\ UNCHANGED <<apiVars, backend, tab, gap>>
      BY <1>0, <1>3 DEF WriteUnversioned, WriteStamped
  <2>2. UNCHANGED call
      BY <2>1 DEF apiVars, client
  <2> QED
      BY <1>0, <2>1, <2>2, CommitSettled
<1>4. ASSUME NEW m \in owed, PublishMessage(m) PROVE Settled(u)'
    BY <1>0, <1>4, PublishSettled
<1>5. CASE Listener \/ (\E k \in tickets : TicketExpires(k))
           \/ ((\E f \in alive : FamilyEnds(f)) /\ UNCHANGED <<writes, backend, tab, gap>>)
  <2>1. Unmoved(u)
      BY <1>5 DEF Listener, TicketExpires, FamilyEnds, Unmoved, writes, backend, tab, client
  <2> QED
      BY <1>0, <2>1, UnmovedStays
<1>6. CASE Restart
    BY <1>0, <1>6, NotConnected DEF Restart
<1>7. ASSUME NEW t \in browser.tabs, ApiStep(t) PROVE Settled(u)'
  <2>1. call'[u]["fetch"].at = "ok" => call[u]["fetch"].at = "ok"
      BY <1>0, <1>7, ApiQuiet
  <2>2. Unmoved(u)
      BY <1>7, <2>1 DEF ApiStep, Unmoved, writes, backend, tab
  <2> QED
      BY <1>0, <2>2, UnmovedStays
<1>8. ASSUME NEW t \in browser.tabs, AskTicket(t) \/ ServeTicket(t) \/ GetTicket(t)
      PROVE  Settled(u)'
  <2>1. call'[u]["fetch"] = call[u]["fetch"]
      BY <1>0, <1>8, Requests DEF AskTicket, ServeTicket, GetTicket
  <2>2. \A w \in Tabs : socket'[w] = "open" => socket[w] = "open"
      BY <1>1, <1>8 DEF AskTicket, ServeTicket, GetTicket, tab
  <2>3. /\ UNCHANGED <<writes, newest, dirty, asked, reply, view, gap>>
        /\ UNCHANGED <<conn, queue>>
      BY <1>8 DEF AskTicket, ServeTicket, GetTicket, tab, backend
  <2>4. Unmoved(u)
      BY <1>0, <2>1, <2>2, <2>3 DEF Unmoved, writes
  <2> QED
      BY <1>0, <2>4, UnmovedStays
<1>9. ASSUME NEW t \in browser.tabs, Handshake(t) \/ Break(t) \/ Notice(t) \/ Cleanup(t)
      PROVE  Settled(u)'
  <2>1. CASE u = t
    <3>1. socket'[t] # "open" \/ conn'[t] = NoFamily
        BY <1>0, <1>1, <1>9 DEF Handshake, Break, Notice, Cleanup, Closed, Drop
    <3> QED
        BY <2>1, <3>1, NotConnected
  <2>2. CASE u # t
    <3>1. queue'[u] = queue[u] /\ socket'[u] = socket[u] /\ conn'[u] = conn[u]
        BY <1>0, <1>1, <1>9, <2>2 DEF Handshake, Break, Notice, Cleanup, Closed, Drop, tab, backend
    <3>2. UNCHANGED <<writes, call, dirty, asked, reply, view, gap>>
        BY <1>9 DEF Handshake, Break, Notice, Cleanup, tab, apiVars, client
    <3>3. Unmoved(u)
        BY <3>1, <3>2 DEF Unmoved
    <3> QED
        BY <1>0, <3>3, UnmovedStays
  <2> QED
      BY <2>1, <2>2
<1>10. ASSUME NEW t \in browser.tabs, u # t, Open(t) \/ Deliver(t) \/ EndMutation(t) \/ Visit(t)
       PROVE  Settled(u)'
  <2>6. ASSUME NEW xs, Invalidate(t, xs) PROVE dirty'[u] = dirty[u] /\ asked'[u] = asked[u]
    <3> DEFINE d == dirty[t] \cup (xs \ Joined(t, xs))
    <3> DEFINE a == asked[t] \ (xs \ Joined(t, xs))
    <3>1. dirty' = [dirty EXCEPT ![t] = d] /\ asked' = [asked EXCEPT ![t] = a]
        BY <2>6 DEF Invalidate
    <3> HIDE DEF d, a
    <3> QED
        BY <1>0, <1>1, <1>10, <3>1
  <2>7. UNCHANGED gap \/ \E e : gap' = [gap EXCEPT ![t] = e]
      BY <1>10 DEF Open, Deliver, EndMutation, Visit
  <2>8. /\ UNCHANGED queue \/ \E e : queue' = [queue EXCEPT ![t] = e]
        /\ UNCHANGED socket \/ \E e : socket' = [socket EXCEPT ![t] = e]
      BY <1>10 DEF Open, Deliver, EndMutation, Visit, backend
  <2>1. dirty'[u] = dirty[u] /\ asked'[u] = asked[u]
    <3>1. \/ UNCHANGED <<dirty, asked>> \/ \E xs : Invalidate(t, xs)
          \/ UNCHANGED asked /\ dirty' = [dirty EXCEPT ![t] = Topics]
        BY <1>10 DEF Open, Deliver, EndMutation, Visit
    <3> QED
        BY <1>0, <1>1, <1>10, <2>6, <3>1
  <2>2. gap'[u] = gap[u] /\ queue'[u] = queue[u] /\ socket'[u] = socket[u]
      BY <1>0, <1>1, <1>10, <2>7, <2>8
  <2>3. call'[u]["fetch"] = call[u]["fetch"]
    <3>1. UNCHANGED call \/ Finish(t, "mutate")
        BY <1>10 DEF Open, Deliver, EndMutation, Visit, apiVars, client
    <3> QED
        BY <1>0, <1>10, <3>1, Requests
  <2>4. UNCHANGED <<writes, conn, reply, view>>
      BY <1>10 DEF Open, Deliver, EndMutation, Visit, backend
  <2>5. Unmoved(u)
      BY <2>1, <2>2, <2>3, <2>4 DEF Unmoved
  <2> QED
      BY <1>0, <2>5, UnmovedStays
<1>11. ASSUME u \in browser.tabs, Open(u) PROVE Settled(u)'
  <2> SUFFICES ASSUME NEW x \in Topics, x \notin gap'[u] PROVE x \in dirty'[u]
      BY DEF Settled, Told
  <2>1. x \notin Joined(u, Topics) /\ Invalidate(u, Topics)
      BY <1>0, <1>1, <1>11 DEF Open
  <2> QED
      BY <1>0, <2>1, InvalidateSettled
<1>12. ASSUME Visit(u) PROVE Settled(u)'
    BY <1>0, <1>1, <1>12 DEF Visit, Settled, Told
<1>13. ASSUME NEW t \in browser.tabs, u # t, StartFetch(t) \/ ServeFetch(t) \/ EndFetch(t)
       PROVE  Settled(u)'
  <2>1. call'[u]["fetch"] = call[u]["fetch"]
      BY <1>0, <1>13, Requests DEF StartFetch, ServeFetch, EndFetch
  <2>2. /\ dirty'[u] = dirty[u] /\ asked'[u] = asked[u] /\ reply'[u] = reply[u]
        /\ view'[u] = view[u] /\ gap'[u] = gap[u]
    <3>1. /\ UNCHANGED dirty \/ \E e : dirty' = [dirty EXCEPT ![t] = e]
          /\ UNCHANGED asked \/ \E e : asked' = [asked EXCEPT ![t] = e]
        BY <1>13 DEF StartFetch, ServeFetch, EndFetch
    <3>2. /\ UNCHANGED reply \/ \E e : reply' = [reply EXCEPT ![t] = e]
          /\ UNCHANGED gap \/ \E e : gap' = [gap EXCEPT ![t] = e]
        BY <1>13 DEF StartFetch, ServeFetch, EndFetch
    <3>3. UNCHANGED view \/ \E e : view' = [view EXCEPT ![t] = e]
        BY <1>13 DEF StartFetch, ServeFetch, EndFetch
    <3> QED
        BY <1>0, <1>1, <1>13, <3>1, <3>2, <3>3
  <2>3. UNCHANGED <<writes, backend, socket>>
      BY <1>13 DEF StartFetch, ServeFetch, EndFetch
  <2>4. Unmoved(u)
      BY <2>1, <2>2, <2>3 DEF Unmoved, backend
  <2> QED
      BY <1>0, <2>4, UnmovedStays
<1>14. ASSUME NEW t \in browser.tabs, NEW x \in Topics, Mutate(t, x) PROVE Settled(u)'
  <2>1. call'[u]["fetch"] = call[u]["fetch"]
      BY <1>0, <1>14, Requests DEF Mutate
  <2>2. Unmoved(u)
      BY <1>14, <2>1 DEF Mutate, Unmoved, backend
  <2> QED
      BY <1>0, <2>2, UnmovedStays
<1>15. ASSUME NEW t \in browser.tabs, NEW v \in 1..browser.writes, ServeMutation(t, v)
       PROVE  Settled(u)'
  <2>1. call'[u]["fetch"] = call[u]["fetch"]
      BY <1>0, <1>15, Requests DEF ServeMutation
  <2>2. UNCHANGED <<backend, tab, gap>> /\ (UNCHANGED writes \/ \E x \in Topics : Commit(x, v))
      BY <1>0, <1>15 DEF ServeMutation
  <2>3. CASE UNCHANGED writes
    <3>1. Unmoved(u)
        BY <2>1, <2>2, <2>3 DEF Unmoved, backend, tab
    <3> QED
        BY <1>0, <3>1, UnmovedStays
  <2>4. CASE \E x \in Topics : Commit(x, v)
      BY <1>0, <2>1, <2>2, <2>4, CommitSettled
  <2> QED
      BY <2>2, <2>3, <2>4
<1>16. ASSUME NEW t \in browser.tabs,
              \/ Open(t) \/ Deliver(t) \/ EndMutation(t) \/ Visit(t)
              \/ StartFetch(t) \/ ServeFetch(t) \/ EndFetch(t)
       PROVE  Settled(u)'
    BY <1>0, <1>10, <1>11, <1>12, <1>13, <1>16, DeliverSettled, MutationSettled, FetchSettled
<1> QED
    BY <1>2, <1>3, <1>4, <1>5, <1>6, <1>7, <1>8, <1>9, <1>14, <1>15, <1>16 DEF Next

\* What a connected tab is told always holds.
THEOREM FreshAlways == Spec => []Fresh
<1>1. RealtimeInit => Fresh
    BY BrowsersAssumption DEF RealtimeInit, Init, Fresh, Settled, NoFamily
<1>2. Typed /\ Fresh /\ [Next]_vars => Fresh'
    BY FreshKept
<1> QED
    BY <1>1, <1>2, TypedAlways, PTL DEF Spec

\* A tab that is connected, has nothing under way and is owed no message shows
\* the committed state of every topic that is not in its gap (onopen, handleMessage).
THEOREM QuietTabsAreFresh == Spec => []QuietMeansFresh
<1>1. Typed /\ Fresh => QuietMeansFresh
  <2> SUFFICES ASSUME Typed, Fresh, NEW t \in browser.tabs, socket[t] = "open", conn[t] # NoFamily,
                      queue[t] = <<>>, owed = {}, dirty[t] = {}, call[t]["fetch"].at = "idle",
                      NEW x \in Topics \ gap[t]
               PROVE  view[t][x] = truth[x]
      BY DEF QuietMeansFresh
  <2>1. t \in Tabs
      BY BrowsersAssumption DEF Typed, Types, ApiInv, Shape
  <2>2. asked[t] = {}
      BY <2>1 DEF Typed, Fetching
  <2>3. Told(t, x)
      BY DEF Fresh, Settled
  <2> QED
      BY <2>2, <2>3 DEF Told
<1> QED
    BY <1>1, TypedAlways, FreshAlways, PTL
=============================================================================
