---------------------------- MODULE LoginThrottle ----------------------------
(***************************************************************************)
(* The throttling of logins and registrations: counters in Redis, one for  *)
(* each account and two for each source address, that calls read before    *)
(* they do their work and raise or delete after it, one command at a time. *)
(*                                                                         *)
(* What the calls do besides, to users and sessions, is in AuthSessions.   *)
(***************************************************************************)
EXTENDS Naturals, FiniteSets

CONSTANTS
    Emails, Addresses,
    Calls,                              \* requests that can be under way at once
    AccountLimit, IpLimit, RegisterLimit

Keys == ({"account"} \X Emails) \cup ({"ip", "register"} \X Addresses)

Limit(k) == CASE k[1] = "account" -> AccountLimit
              [] k[1] = "ip" -> IpLimit
              [] k[1] = "register" -> RegisterLimit

ASSUME LimitsAssumption == {AccountLimit, IpLimit, RegisterLimit} \subseteq Nat \ {0}
ASSUME CallsAssumption == IsFiniteSet(Calls)

VARIABLES
    count,      \* the value of each key, 0 when it does not exist
    timed,      \* the keys that have an expiry
    pc, todo,   \* calls: where they are, the keys they have yet to count or clear
    fresh,      \* calls: the key they have created and not given its expiry
    broken      \* history: keys whose creator failed before their expiry was set

vars == <<count, timed, pc, todo, fresh, broken>>

Init ==
    /\ count = [k \in Keys |-> 0] /\ timed = {}
    /\ pc = [c \in Calls |-> "idle"]
    /\ todo = [c \in Calls |-> {}]
    /\ fresh = [c \in Calls |-> {}]
    /\ broken = {}
-----------------------------------------------------------------------------
\* Mutant: one more than the limit gets through.
LimitedAbove(k) == count[k] > Limit(k)

Limited(k) == count[k] >= Limit(k)

\* is_limited reads both keys in one command.  Refused calls are only audited.
Login(c, e, a) ==
    /\ pc[c] = "idle"
    /\ ~Limited(<<"account", e>>) /\ ~Limited(<<"ip", a>>)
    /\ pc' = [pc EXCEPT ![c] = "verifying"]
    /\ todo' = [todo EXCEPT ![c] = {<<"account", e>>, <<"ip", a>>}]
    /\ UNCHANGED <<count, timed, fresh, broken>>

\* No such user, another password, or an inactive account.
WrongPassword(c) ==
    /\ pc[c] = "verifying"
    /\ pc' = [pc EXCEPT ![c] = "recording"]
    /\ UNCHANGED <<count, timed, todo, fresh, broken>>

RightPassword(c) ==
    /\ pc[c] = "verifying"
    /\ pc' = [pc EXCEPT ![c] = "clearing"]
    /\ todo' = [todo EXCEPT ![c] = {k \in @ : k[1] = "account"}]
    /\ UNCHANGED <<count, timed, fresh, broken>>

\* A registration is counted before it is tried.
Register(c, a) ==
    /\ pc[c] = "idle"
    /\ ~Limited(<<"register", a>>)
    /\ pc' = [pc EXCEPT ![c] = "recording"]
    /\ todo' = [todo EXCEPT ![c] = {<<"register", a>>}]
    /\ UNCHANGED <<count, timed, fresh, broken>>

\* A call whose keys are all counted is done with throttling.
Continue(c) == pc' = [pc EXCEPT ![c] = IF todo'[c] = {} /\ fresh'[c] = {} THEN "idle" ELSE @]

\* Mutant: the second who counts a key sets its expiry.
CountSecond(c, k) ==
    /\ pc[c] = "recording" /\ fresh[c] = {}
    /\ k \in todo[c] /\ (k[1] = "ip" => \A j \in todo[c] : j[1] # "account")
    /\ count' = [count EXCEPT ![k] = @ + 1]
    /\ todo' = [todo EXCEPT ![c] = @ \ {k}]
    /\ fresh' = [fresh EXCEPT ![c] = IF count[k] = 1 THEN {k} ELSE {}]
    /\ Continue(c)
    /\ UNCHANGED <<timed, broken>>

\* INCR, the account's key first; it tells who made the key.
Count(c, k) ==
    /\ pc[c] = "recording" /\ fresh[c] = {}
    /\ k \in todo[c] /\ (k[1] = "ip" => \A j \in todo[c] : j[1] # "account")
    /\ count' = [count EXCEPT ![k] = @ + 1]
    /\ todo' = [todo EXCEPT ![c] = @ \ {k}]
    /\ fresh' = [fresh EXCEPT ![c] = IF count[k] = 0 THEN {k} ELSE {}]
    /\ Continue(c)
    /\ UNCHANGED <<timed, broken>>

\* Mutant: only an account's key gets an expiry.
ExpireAccounts(c) ==
    /\ fresh[c] # {}
    /\ fresh' = [fresh EXCEPT ![c] = {}]
    /\ timed' = timed \cup {k \in fresh[c] : count[k] > 0 /\ k[1] = "account"}
    /\ broken' = broken \ fresh[c]
    /\ UNCHANGED <<count, todo>>
    /\ Continue(c)

\* EXPIRE; on a key that is gone already it does nothing.
Expire(c) ==
    /\ fresh[c] # {}
    /\ fresh' = [fresh EXCEPT ![c] = {}]
    /\ timed' = timed \cup {k \in fresh[c] : count[k] > 0}
    /\ broken' = broken \ fresh[c]
    /\ UNCHANGED <<count, todo>>
    /\ Continue(c)

\* A key that is deleted, or runs out.
Drop(S) ==
    /\ count' = [k \in Keys |-> IF k \in S THEN 0 ELSE count[k]]
    /\ timed' = timed \ S
    /\ broken' = broken \ S

\* clear_account, after a login.
Clear(c) ==
    /\ pc[c] = "clearing"
    /\ Drop(todo[c])
    /\ pc' = [pc EXCEPT ![c] = "idle"]
    /\ todo' = [todo EXCEPT ![c] = {}]
    /\ UNCHANGED fresh

\* The end of a key's window.
Elapse(k) == k \in timed /\ Drop({k}) /\ UNCHANGED <<pc, todo, fresh>>

\* A command fails, the client goes away or the process dies.
Fault(c) ==
    /\ pc[c] # "idle"
    /\ pc' = [pc EXCEPT ![c] = "idle"]
    /\ todo' = [todo EXCEPT ![c] = {}] /\ fresh' = [fresh EXCEPT ![c] = {}]
    /\ broken' = broken \cup fresh[c]
    /\ UNCHANGED <<count, timed>>

Next ==
    \/ \E c \in Calls :
          \/ \E a \in Addresses : Register(c, a) \/ \E e \in Emails : Login(c, e, a)
          \/ WrongPassword(c) \/ RightPassword(c)
          \/ \E k \in Keys : Count(c, k)
          \/ Expire(c) \/ Clear(c) \/ Fault(c)
    \/ \E k \in Keys : Elapse(k)

\* A call that has made a key goes on to give it its expiry, or fails; windows end.
Fairness ==
    /\ \A c \in Calls : WF_vars(Expire(c) \/ Fault(c))
    /\ \A k \in Keys : WF_vars(Elapse(k))

Spec == Init /\ [][Next]_vars /\ Fairness
-----------------------------------------------------------------------------
\* The variables have their types; what does not exist has no expiry, and a call has
\* made one key at most.
TypeOK ==
    /\ count \in [Keys -> Nat]
    /\ timed \subseteq {k \in Keys : count[k] > 0}
    /\ broken \subseteq Keys
    /\ \A c \in Calls :
          /\ pc[c] \in {"idle", "verifying", "recording", "clearing"}
          /\ todo[c] \subseteq Keys
          /\ fresh[c] = {} \/ \E k \in Keys : fresh[c] = {k}
          /\ pc[c] # "recording" => fresh[c] = {}
          /\ pc[c] = "idle" => todo[c] = {}

Uncounted(k) == {c \in Calls : k \in todo[c]}

\* A limit is overrun only by calls that had passed the check before it was reached:
\* however logins, registrations, successes, windows and faults interleave, what is
\* counted and what may still be counted stay below the limit and the calls there are.
OverrunByCallsInFlight ==
    \A k \in Keys : count[k] + Cardinality(Uncounted(k)) <= Limit(k) - 1 + Cardinality(Calls)

\* A counter has an expiry, or one on its way, unless the call that made it failed in
\* between; deletions by successful logins and the end of a window, between any two
\* commands of a call, lead to no counter that stays for good.
LastingOnlyByFault ==
    \A k \in Keys \ broken : count[k] > 0 => k \in timed \/ \E c \in Calls : k \in fresh[c]

\* A lockout ends, unless a call failed between a counter and its expiry.
LockoutsEnd == \A k \in Keys : Limited(k) ~> ~Limited(k) \/ k \in broken
=============================================================================
