------------------------------ MODULE Realtime ------------------------------
(***************************************************************************)
(* Notifications.  Writers commit and then publish; a backend process      *)
(* listens to Redis and fans messages out to the bounded queues of its     *)
(* connections; a tab opens its connection with a one-time ticket, drops   *)
(* what is not newer than what it has seen, and refetches what a message   *)
(* is about.  Every request of a tab goes through its API client.          *)
(***************************************************************************)
EXTENDS BrowserApi, Sequences

CONSTANTS
    Topics,         \* a message type of one entity each
    QueueMax,       \* messages a connection holds
    MaxConnections,
    MaxAttempts     \* reconnections

\* Of a browser: the tabs that hold connections, the topics whose publisher gives
\* no version, the bound on the commits of a topic and on the tab's own writes.
ASSUME RealtimeAssumption ==
    /\ \A b \in Browsers : /\ b.live \subseteq b.tabs /\ b.unversioned \subseteq Topics
                          /\ {b.writes, b.own} \subseteq Nat
    /\ Purposes = {"fetch", "mutate", "ticket"}
    /\ QueueMax \in Nat \ {0} /\ {MaxConnections, MaxAttempts} \subseteq Nat

VARIABLES
    truth,          \* commits of each topic
    owed,           \* messages of committed writes, not yet published
    listening,      \* is the backend subscribed
    tickets,        \* in Redis: tab and family
    conn, queue,    \* server: the family of a tab's connection, its messages
    socket,         \* tab: "none", "asking", "opening", "accepted", "open"
    attempts,       \* tab: failures since the last open; above MaxAttempts: given up
    newest,         \* tab: the version seen of each topic
    dirty, asked,   \* tab: topics to refetch, topics being refetched
    reply, view,    \* tab: the fetched state under way, the state shown
    wrote, saved,   \* tab: topics of the write under way, writes made
    gap             \* history: what each tab was not told since it last opened

writes == <<truth, owed>>
backend == <<listening, tickets, conn, queue>>
tab == <<socket, attempts, newest, dirty, asked, reply, view, wrote, saved>>
vars == <<apiVars, writes, backend, tab, gap>>

NoFamily == 0
Nothing == -1   \* a query without data
Ticket(t) == [tab |-> t, family |-> call[t]["ticket"].with.family]

RealtimeInit ==
    /\ Init
    /\ truth = [x \in Topics |-> 0]
    /\ owed = {}
    /\ listening = TRUE /\ tickets = {}
    /\ conn = [t \in Tabs |-> NoFamily]
    /\ queue = [t \in Tabs |-> <<>>]
    /\ socket = [t \in Tabs |-> "none"]
    /\ attempts = [t \in Tabs |-> 0]
    /\ newest = [t \in Tabs |-> [x \in Topics |-> 0]]
    /\ dirty = [t \in Tabs |-> Topics]
    /\ asked = [t \in Tabs |-> {}]
    /\ reply = [t \in Tabs |-> [x \in Topics |-> Nothing]]
    /\ view = [t \in Tabs |-> [x \in Topics |-> Nothing]]
    /\ wrote = [t \in Tabs |-> {}]
    /\ saved = [t \in Tabs |-> 0]
    /\ gap = [t \in Tabs |-> {}]
-----------------------------------------------------------------------------
\* A write commits and owes its message.
Commit(x, v) ==
    /\ truth[x] < browser.writes
    /\ truth' = [truth EXCEPT ![x] = @ + 1]
    /\ owed' = owed \cup {[topic |-> x, version |-> v, number |-> truth'[x]]}

\* The version is the time of the flush: it follows no order of the commits.
WriteStamped(x, v) ==
    /\ x \notin browser.unversioned
    /\ Commit(x, v)
    /\ UNCHANGED <<apiVars, backend, tab, gap>>

\* The version is always 1.
WriteUnversioned(x) ==
    /\ x \in browser.unversioned
    /\ Commit(x, 1)
    /\ UNCHANGED <<apiVars, backend, tab, gap>>

\* A full queue gives up its oldest message for the new one.
Enqueue(q, m) == Append(IF Len(q) < QueueMax THEN q ELSE Tail(q), m)
Evicted(q) == IF Len(q) < QueueMax THEN {} ELSE {Head(q).topic}

Connected == {t \in Tabs : conn[t] # NoFamily}

\* Redis, the listener and the fan-out, in one step.  A message published when
\* nobody listens is lost, and so is one whose publication fails.
PublishMessage(m) ==
    /\ m \in owed
    /\ owed' = owed \ {m}
    /\ \/ /\ listening
          /\ queue' = [t \in Tabs |-> IF t \in Connected THEN Enqueue(queue[t], m) ELSE queue[t]]
          /\ gap' = [t \in Tabs |-> IF t \in Connected THEN gap[t] \cup Evicted(queue[t]) ELSE gap[t]]
          /\ UNCHANGED faults
       \/ /\ IF listening THEN Fault ELSE UNCHANGED faults
          /\ gap' = [t \in Tabs |-> gap[t] \cup {m.topic}]
          /\ UNCHANGED queue
    /\ UNCHANGED <<client, truth, listening, tickets, conn, tab>>

\* The listener loses Redis, and subscribes again a second later.
Listener ==
    /\ IF listening THEN Fault ELSE UNCHANGED faults
    /\ listening' = ~listening
    /\ UNCHANGED <<client, writes, tickets, conn, queue, tab, gap>>
\* The API process ends and starts again.
Restart ==
    /\ Fault
    /\ conn' = [t \in Tabs |-> NoFamily]
    /\ queue' = [t \in Tabs |-> <<>>]
    /\ listening' = TRUE
    /\ UNCHANGED <<client, writes, tickets, tab, gap>>
-----------------------------------------------------------------------------
\* An authenticated tab asks for a ticket through its API client.
AskTicket(t) ==
    /\ t \in browser.live /\ status[t] = "authenticated" /\ socket[t] = "none" /\ attempts[t] <= MaxAttempts
    /\ Send(t, "ticket")
    /\ socket' = [socket EXCEPT ![t] = "asking"]
    /\ UNCHANGED <<writes, backend, attempts, newest, dirty, asked, reply, view, wrote, saved, gap>>

ServeTicket(t) ==
    /\ Serve(t, "ticket")
    /\ tickets' = IF call'[t]["ticket"].at = "ok" THEN tickets \cup {Ticket(t)} ELSE tickets
    /\ UNCHANGED <<writes, listening, conn, queue, tab, gap>>

\* A failure counts as an attempt, unless the effect was cleaned up meanwhile.
GetTicket(t) ==
    LET ok == call[t]["ticket"].at = "ok" IN
    /\ Finish(t, "ticket")
    /\ socket' = [socket EXCEPT ![t] = IF @ = "asking" /\ ok THEN "opening" ELSE "none"]
    /\ attempts' = [attempts EXCEPT ![t] = IF socket[t] = "asking" /\ ~ok THEN @ + 1 ELSE @]
    /\ UNCHANGED <<writes, backend, newest, dirty, asked, reply, view, wrote, saved, gap>>

TicketExpires(k) ==
    /\ Fault
    /\ k \in tickets
    /\ tickets' = tickets \ {k}
    /\ UNCHANGED <<client, writes, listening, conn, queue, tab, gap>>

\* onclose: another attempt later, or none.
Closed(t) ==
    /\ socket' = [socket EXCEPT ![t] = "none"]
    /\ attempts' = [attempts EXCEPT ![t] = @ + 1]

\* The handshake consumes the ticket, checks family and capacity, accepts and
\* registers the connection; or it is refused, or the network fails.
Handshake(t) ==
    LET mine == {k \in tickets : k.tab = t} IN
    /\ socket[t] = "opening"
    /\ tickets' = tickets \ mine
    /\ \/ \E k \in mine :
             /\ k.family \in alive /\ Cardinality(Connected) < MaxConnections
             /\ conn' = [conn EXCEPT ![t] = k.family]
             /\ queue' = [queue EXCEPT ![t] = <<>>]
             /\ socket' = [socket EXCEPT ![t] = "accepted"]
             /\ UNCHANGED <<attempts, faults>>
       \/ /\ \/ Fault
             \/ /\ \A k \in mine : k.family \notin alive \/ Cardinality(Connected) >= MaxConnections
                /\ UNCHANGED faults
          /\ Closed(t) /\ UNCHANGED <<conn, queue>>
    /\ UNCHANGED <<client, writes, listening, newest, dirty, asked, reply, view, wrote, saved, gap>>

\* invalidateQueries: what has data is fetched again, a fetch of it under way
\* being cancelled; a first fetch under way is left to answer.
Joined(t, xs) == {x \in xs \cap asked[t] : view[t][x] = Nothing}
Invalidate(t, xs) ==
    /\ dirty' = [dirty EXCEPT ![t] = @ \cup (xs \ Joined(t, xs))]
    /\ asked' = [asked EXCEPT ![t] = @ \ (xs \ Joined(t, xs))]

\* onopen: everything is fetched again.
\* Mutant: what the tab shows is taken to be current.
OpenOnly(t) ==
    /\ socket[t] = "accepted"
    /\ socket' = [socket EXCEPT ![t] = "open"]
    /\ attempts' = [attempts EXCEPT ![t] = 0]
    /\ gap' = [gap EXCEPT ![t] = {}]
    /\ UNCHANGED <<apiVars, writes, backend, newest, dirty, asked, reply, view, wrote, saved>>

Open(t) ==
    /\ socket[t] = "accepted"
    /\ socket' = [socket EXCEPT ![t] = "open"]
    /\ attempts' = [attempts EXCEPT ![t] = 0]
    /\ gap' = [gap EXCEPT ![t] = Joined(t, Topics)]
    /\ Invalidate(t, Topics)
    /\ UNCHANGED <<apiVars, writes, backend, newest, reply, view, wrote, saved>>

\* A connection ends at the server: the network, or a heartbeat that finds the
\* family ended.  The tab notices it later.
Drop(t) ==
    /\ conn' = [conn EXCEPT ![t] = NoFamily]
    /\ queue' = [queue EXCEPT ![t] = <<>>]

Break(t) ==
    /\ conn[t] # NoFamily
    /\ IF conn[t] \in alive THEN Fault ELSE UNCHANGED faults
    /\ Drop(t)
    /\ UNCHANGED <<client, writes, listening, tickets, tab, gap>>

Notice(t) ==
    /\ socket[t] \in {"accepted", "open"} /\ conn[t] = NoFamily
    /\ Closed(t)
    /\ UNCHANGED <<apiVars, writes, backend, newest, dirty, asked, reply, view, wrote, saved, gap>>

\* The effect of the provider is cleaned up when the session is gone; the next
\* one makes one attempt whatever the last count.
Cleanup(t) ==
    /\ status[t] # "authenticated" /\ (socket[t] # "none" \/ attempts[t] > MaxAttempts)
    /\ Drop(t)
    /\ socket' = [socket EXCEPT ![t] = "none"]
    /\ attempts' = [attempts EXCEPT ![t] = IF @ > MaxAttempts THEN MaxAttempts ELSE @]
    /\ UNCHANGED <<apiVars, writes, listening, tickets, newest, dirty, asked, reply, view, wrote, saved, gap>>

\* handleMessage: what is not newer than the newest of its topic is dropped.
Deliver(t) ==
    LET m == Head(queue[t]) IN
    /\ socket[t] = "open" /\ queue[t] # <<>>
    /\ queue' = [queue EXCEPT ![t] = Tail(@)]
    /\ IF m.version < newest[t][m.topic]
       THEN /\ gap' = [gap EXCEPT ![t] = @ \cup {m.topic}]
            /\ UNCHANGED <<newest, dirty, asked>>
       ELSE /\ newest' = [newest EXCEPT ![t][m.topic] = m.version + 1]
            /\ gap' = [gap EXCEPT ![t] = @ \cup Joined(t, {m.topic})]
            /\ Invalidate(t, {m.topic})
    /\ UNCHANGED <<apiVars, writes, listening, tickets, conn, socket, attempts, reply, view, wrote, saved>>
-----------------------------------------------------------------------------
\* A page is opened: its queries are stale.
Visit(t) ==
    /\ status[t] = "authenticated" /\ dirty[t] = {} /\ asked[t] = {}
    /\ dirty' = [dirty EXCEPT ![t] = Topics]
    /\ UNCHANGED <<apiVars, writes, backend, socket, attempts, newest, asked, reply, view, wrote, saved, gap>>

\* The queries fetch what is stale; the server reads what is committed.
StartFetch(t) ==
    /\ dirty[t] # {} /\ status[t] = "authenticated"
    /\ Send(t, "fetch")
    /\ dirty' = [dirty EXCEPT ![t] = {}]
    /\ asked' = [asked EXCEPT ![t] = dirty[t]]
    /\ UNCHANGED <<writes, backend, socket, attempts, newest, reply, view, wrote, saved, gap>>

ServeFetch(t) ==
    /\ Serve(t, "fetch")
    /\ reply' = [reply EXCEPT ![t] = truth]
    /\ UNCHANGED <<writes, backend, socket, attempts, newest, dirty, asked, view, wrote, saved, gap>>

\* What was cancelled meanwhile is not shown.  A fetch that fails leaves what
\* is shown, and is tried once more; how often is left out.
EndFetch(t) ==
    /\ Finish(t, "fetch")
    /\ asked' = [asked EXCEPT ![t] = {}]
    /\ reply' = [reply EXCEPT ![t] = [x \in Topics |-> Nothing]]
    /\ IF call[t]["fetch"].at = "ok"
       THEN /\ view' = [view EXCEPT ![t] =
                    [x \in Topics |-> IF x \in asked[t] THEN reply[t][x] ELSE @[x]]]
            /\ UNCHANGED <<dirty, gap>>
       ELSE /\ UNCHANGED view
            /\ \/ dirty' = [dirty EXCEPT ![t] = @ \cup asked[t]] /\ UNCHANGED gap
               \/ gap' = [gap EXCEPT ![t] = @ \cup asked[t]] /\ UNCHANGED dirty
    /\ UNCHANGED <<writes, backend, socket, attempts, newest, wrote, saved>>

\* A mutation of the page: never retried; onSuccess invalidates what it wrote.
Mutate(t, x) ==
    /\ status[t] = "authenticated" /\ saved[t] < browser.own
    /\ Send(t, "mutate")
    /\ wrote' = [wrote EXCEPT ![t] = {x}]
    /\ saved' = [saved EXCEPT ![t] = @ + 1]
    /\ UNCHANGED <<writes, backend, socket, attempts, newest, dirty, asked, reply, view, gap>>

ServeMutation(t, v) ==
    /\ Serve(t, "mutate")
    /\ IF call'[t]["mutate"].at = "ok" THEN \E x \in wrote[t] : Commit(x, v)
       ELSE UNCHANGED writes
    /\ UNCHANGED <<backend, tab, gap>>

EndMutation(t) ==
    /\ Finish(t, "mutate")
    /\ wrote' = [wrote EXCEPT ![t] = {}]
    /\ IF call[t]["mutate"].at = "ok"
       THEN Invalidate(t, wrote[t]) /\ gap' = [gap EXCEPT ![t] = @ \cup Joined(t, wrote[t])]
       ELSE UNCHANGED <<dirty, asked, gap>>
    /\ UNCHANGED <<writes, backend, socket, attempts, newest, reply, view, saved>>

ApiStep(t) ==
    /\ SessionStep(t) \/ \E p \in Purposes : Miss(t, p) \/ Join(t, p)
    /\ UNCHANGED <<writes, backend, tab, gap>>

Next ==
    \/ \E x \in Topics : WriteUnversioned(x) \/ \E v \in 1..browser.writes : WriteStamped(x, v)
    \/ \E m \in owed : PublishMessage(m)
    \/ Listener \/ Restart
    \/ \E k \in tickets : TicketExpires(k)
    \/ (\E f \in alive : FamilyEnds(f)) /\ UNCHANGED <<writes, backend, tab, gap>>
    \/ \E t \in browser.tabs :
          \/ ApiStep(t)
          \/ AskTicket(t) \/ ServeTicket(t) \/ GetTicket(t) \/ Handshake(t) \/ Open(t)
          \/ Break(t) \/ Notice(t) \/ Cleanup(t) \/ Deliver(t)
          \/ Visit(t) \/ StartFetch(t) \/ ServeFetch(t) \/ EndFetch(t)
          \/ (\E x \in Topics : Mutate(t, x)) \/ EndMutation(t)
          \/ \E v \in 1..browser.writes : ServeMutation(t, v)

Spec == RealtimeInit /\ [][Next]_vars
-----------------------------------------------------------------------------
\* The variables have their types; queues are bounded; a tab with an open
\* socket fetches only what is stale.
TypeOK ==
    /\ ApiTypeOK
    /\ \A t \in Tabs :
          /\ conn[t] \in Families \cup {NoFamily}
          /\ Len(queue[t]) <= QueueMax
          /\ socket[t] \in {"none", "asking", "opening", "accepted", "open"}
          /\ attempts[t] \in 0..MaxAttempts + 1
          /\ asked[t] # {} => call[t]["fetch"].at # "idle"
          /\ dirty[t] \cap asked[t] = {}
          /\ (wrote[t] # {}) = (call[t]["mutate"].at # "idle") /\ saved[t] <= browser.own
          /\ \A x \in Topics : view[t][x] \in Nothing..truth[x]
    /\ Cardinality(Connected) <= MaxConnections

\* A tab that is connected, has nothing under way and is owed no message shows
\* the committed state, whatever happened before its connection opened (onopen,
\* handleMessage).  What may have happened since is in gap: a message about the
\* topic was lost, pushed out of a full queue (_fan_out), taken for old, or came
\* while the first fetch was under way; or a fetch failed.
QuietMeansFresh ==
    \A t \in browser.tabs :
        socket[t] = "open" /\ conn[t] # NoFamily /\ queue[t] = <<>> /\ owed = {}
            /\ dirty[t] = {} /\ call[t]["fetch"].at = "idle"
        => \A x \in Topics \ gap[t] : view[t][x] = truth[x]
=============================================================================
