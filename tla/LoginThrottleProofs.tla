------------------------- MODULE LoginThrottleProofs -------------------------
(***************************************************************************)
(* What throttling keeps for any accounts, addresses, limits and calls.    *)
(***************************************************************************)
EXTENDS LoginThrottle, FiniteSetTheorems, TLAPS

Types ==
    /\ count \in [Keys -> Nat]
    /\ timed \subseteq {k \in Keys : count[k] > 0}
    /\ broken \subseteq Keys
    /\ pc \in [Calls -> {"idle", "verifying", "recording", "clearing"}]
    /\ todo \in [Calls -> SUBSET Keys]
    /\ fresh \in [Calls -> SUBSET Keys]
    /\ \A c \in Calls :
          /\ fresh[c] = {} \/ \E k \in Keys : fresh[c] = {k}
          /\ pc[c] # "recording" => fresh[c] = {}
          /\ pc[c] = "idle" => todo[c] = {}

Inv == Types /\ OverrunByCallsInFlight /\ LastingOnlyByFault
-----------------------------------------------------------------------------
\* Each key has a limit of one at least (rate_limit.py, config.py).
LEMMA LimitIsPositive ==
    ASSUME NEW k \in Keys
    PROVE  Limit(k) \in Nat \ {0}
<1>1. k[1] \in {"account", "ip", "register"}
    BY DEF Keys
<1> QED
    BY <1>1, LimitsAssumption DEF Limit

\* The calls that may still count a key are no more than there are.
LEMMA FewCalls ==
    ASSUME NEW S \in SUBSET Calls
    PROVE  /\ IsFiniteSet(S) /\ Cardinality(S) \in Nat /\ Cardinality(Calls) \in Nat
           /\ Cardinality(S) <= Cardinality(Calls)
           /\ \A R \in SUBSET S : Cardinality(R) \in Nat /\ Cardinality(R) <= Cardinality(S)
    BY CallsAssumption, FS_Subset, FS_CardinalityType

\* What neither raises a counter nor lets another call pass leaves the overrun as it was.
LEMMA NoFurther ==
    ASSUME Inv, count' \in [Keys -> Nat],
           \A k \in Keys : count'[k] <= count[k] /\ Uncounted(k)' \subseteq Uncounted(k)
    PROVE  OverrunByCallsInFlight'
<1> SUFFICES ASSUME NEW k \in Keys
             PROVE  count'[k] + Cardinality(Uncounted(k)') <= Limit(k) - 1 + Cardinality(Calls)
    BY DEF OverrunByCallsInFlight
<1>1. Uncounted(k) \in SUBSET Calls
    BY DEF Uncounted
<1>2. Cardinality(Uncounted(k)') <= Cardinality(Uncounted(k)) /\ Cardinality(Uncounted(k)') \in Nat
    BY <1>1, FewCalls
<1>3. count[k] + Cardinality(Uncounted(k)) <= Limit(k) - 1 + Cardinality(Calls)
    BY DEF Inv, OverrunByCallsInFlight
<1> QED
    BY <1>1, <1>2, <1>3, FewCalls, LimitIsPositive DEF Inv, Types

\* A call that passes the check finds its keys below their limits.
LEMMA OneMore ==
    ASSUME Inv, NEW c \in Calls, UNCHANGED count, NEW S \in SUBSET Keys,
           \A k \in S : ~Limited(k), todo' = [todo EXCEPT ![c] = S]
    PROVE  OverrunByCallsInFlight'
<1> SUFFICES ASSUME NEW k \in Keys
             PROVE  count[k] + Cardinality(Uncounted(k)') <= Limit(k) - 1 + Cardinality(Calls)
    BY DEF OverrunByCallsInFlight
<1>1. Uncounted(k) \in SUBSET Calls /\ Uncounted(k)' \in SUBSET Calls
    BY DEF Uncounted
<1>2. CASE k \in S
    BY <1>1, <1>2, FewCalls, LimitIsPositive DEF Limited, Inv, Types
<1>3. CASE k \notin S
  <2>1. Uncounted(k)' \subseteq Uncounted(k)
      BY <1>3 DEF Uncounted, Inv, Types
  <2>2. count[k] + Cardinality(Uncounted(k)) <= Limit(k) - 1 + Cardinality(Calls)
      BY DEF Inv, OverrunByCallsInFlight
  <2> QED
      BY <1>1, <2>1, <2>2, FewCalls, LimitIsPositive DEF Inv, Types
<1> QED
    BY <1>2, <1>3
-----------------------------------------------------------------------------
\* Before the first call there are no keys.
LEMMA InitInv == Init => Inv
<1> SUFFICES ASSUME Init PROVE Inv
    OBVIOUS
<1>1. Types /\ LastingOnlyByFault
    BY DEF Init, Types, LastingOnlyByFault
<1>2. \A k \in Keys : count[k] = 0 /\ Uncounted(k) = {}
    BY DEF Init, Uncounted
<1>3. OverrunByCallsInFlight
    BY <1>2, FewCalls, LimitIsPositive, FS_EmptySet DEF OverrunByCallsInFlight
<1> QED
    BY <1>1, <1>3 DEF Inv

\* The checks (is_limited, is_register_limited).
LEMMA LoginKeeps ==
    ASSUME Inv, NEW c \in Calls, NEW e \in Emails, NEW a \in Addresses, Login(c, e, a)
    PROVE  Inv'
<1>1. <<"account", e>> \in Keys /\ <<"ip", a>> \in Keys
    BY DEF Keys
<1>2. Types'
    BY <1>1 DEF Login, Inv, Types
<1>3. OverrunByCallsInFlight'
    BY <1>1, OneMore DEF Login
<1>4. LastingOnlyByFault'
    BY DEF Login, Inv, LastingOnlyByFault
<1> QED
    BY <1>2, <1>3, <1>4 DEF Inv

LEMMA RegisterKeeps ==
    ASSUME Inv, NEW c \in Calls, NEW a \in Addresses, Register(c, a)
    PROVE  Inv'
<1>1. <<"register", a>> \in Keys
    BY DEF Keys
<1>2. Types'
    BY <1>1 DEF Register, Inv, Types
<1>3. OverrunByCallsInFlight'
    BY <1>1, OneMore DEF Register
<1>4. LastingOnlyByFault'
    BY DEF Register, Inv, LastingOnlyByFault
<1> QED
    BY <1>2, <1>3, <1>4 DEF Inv

\* The password is right or wrong (AuthService.login).
LEMMA PasswordKeeps ==
    ASSUME Inv, NEW c \in Calls, WrongPassword(c) \/ RightPassword(c)
    PROVE  Inv'
<1> USE DEF WrongPassword, RightPassword
<1>1. Types'
    BY DEF Inv, Types
<1>2. \A k \in Keys : Uncounted(k)' \subseteq Uncounted(k)
    BY DEF Uncounted, Inv, Types
<1>3. OverrunByCallsInFlight'
    BY <1>2, NoFurther DEF Inv, Types
<1>4. LastingOnlyByFault'
    BY DEF Inv, LastingOnlyByFault
<1> QED
    BY <1>1, <1>3, <1>4 DEF Inv

\* INCR: the counter goes up and the call is no longer one that may count it
\* (record_failure, record_register_attempt).
LEMMA CountKeeps ==
    ASSUME Inv, NEW c \in Calls, NEW k \in Keys, Count(c, k)
    PROVE  Inv'
<1>1. Types'
    BY DEF Inv, Types, Count, Continue
<1>2. OverrunByCallsInFlight'
  <2> SUFFICES ASSUME NEW j \in Keys
               PROVE  count'[j] + Cardinality(Uncounted(j)') <= Limit(j) - 1 + Cardinality(Calls)
      BY DEF OverrunByCallsInFlight
  <2>1. Uncounted(j) \in SUBSET Calls
      BY DEF Uncounted
  <2>2. count[j] + Cardinality(Uncounted(j)) <= Limit(j) - 1 + Cardinality(Calls)
      BY DEF Inv, OverrunByCallsInFlight
  <2>3. CASE j = k
    <3>1. count'[j] = count[j] + 1 /\ count[j] \in Nat
        BY <2>3 DEF Count, Inv, Types
    <3>2. c \in Uncounted(j) /\ Uncounted(j)' = Uncounted(j) \ {c}
        BY <2>3 DEF Count, Inv, Types, Uncounted
    <3>3. Cardinality(Uncounted(j)') = Cardinality(Uncounted(j)) - 1
        BY <2>1, <3>2, FewCalls, FS_RemoveElement
    <3> QED
        BY <2>1, <2>2, <3>1, <3>3, FewCalls, LimitIsPositive
  <2>4. CASE j # k
    <3>1. count'[j] = count[j] /\ Uncounted(j)' = Uncounted(j)
        BY <2>4 DEF Count, Inv, Types, Uncounted
    <3> QED
        BY <2>2, <3>1
  <2> QED
      BY <2>3, <2>4
<1>3. LastingOnlyByFault'
  <2> SUFFICES ASSUME NEW j \in Keys, j \notin broken, count'[j] > 0, j \notin timed
               PROVE  \E d \in Calls : j \in fresh'[d]
      BY DEF LastingOnlyByFault, Count
  <2>1. CASE j = k /\ count[k] = 0
      BY <2>1 DEF Count, Inv, Types
  <2>2. CASE ~(j = k /\ count[k] = 0)
    <3>1. count[j] > 0
        BY <2>2 DEF Count, Inv, Types
    <3>2. PICK d \in Calls : j \in fresh[d]
        BY <3>1 DEF Inv, LastingOnlyByFault
    <3>3. d # c
        BY <3>2 DEF Count
    <3> QED
        BY <3>2, <3>3 DEF Count, Inv, Types
  <2> QED
      BY <2>1, <2>2
<1> QED
    BY <1>1, <1>2, <1>3 DEF Inv

\* EXPIRE (record_failure, record_register_attempt).
LEMMA ExpireKeeps ==
    ASSUME Inv, NEW c \in Calls, Expire(c)
    PROVE  Inv'
<1>1. Types'
    BY DEF Inv, Types, Expire, Continue
<1>2. OverrunByCallsInFlight'
  <2>1. \A k \in Keys : Uncounted(k)' = Uncounted(k)
      BY DEF Uncounted, Expire
  <2> QED
      BY <2>1, NoFurther DEF Expire, Inv, Types
<1>3. LastingOnlyByFault'
    BY DEF Inv, Types, LastingOnlyByFault, Expire
<1> QED
    BY <1>1, <1>2, <1>3 DEF Inv

\* A deletion and the end of a window (clear_account, the expiry of a key).
LEMMA DropKeeps ==
    ASSUME Inv, NEW S \in SUBSET Keys, Drop(S), UNCHANGED fresh
    PROVE  /\ count' \in [Keys -> Nat] /\ \A k \in Keys : count'[k] <= count[k]
           /\ timed' \subseteq {k \in Keys : count'[k] > 0} /\ broken' \subseteq Keys
           /\ LastingOnlyByFault'
    BY DEF Inv, Types, LastingOnlyByFault, Drop

LEMMA ClearKeeps ==
    ASSUME Inv, NEW c \in Calls, Clear(c)
    PROVE  Inv'
<1>1. todo[c] \in SUBSET Keys
    BY DEF Inv, Types
<1>2. /\ count' \in [Keys -> Nat] /\ \A k \in Keys : count'[k] <= count[k]
      /\ timed' \subseteq {k \in Keys : count'[k] > 0} /\ broken' \subseteq Keys
      /\ LastingOnlyByFault'
    BY <1>1, DropKeeps DEF Clear
<1>3. Types'
    BY <1>2 DEF Clear, Inv, Types
<1>4. \A k \in Keys : Uncounted(k)' \subseteq Uncounted(k)
    BY DEF Clear, Uncounted, Inv, Types
<1> QED
    BY <1>2, <1>3, <1>4, NoFurther DEF Inv

LEMMA ElapseKeeps ==
    ASSUME Inv, NEW k \in Keys, Elapse(k)
    PROVE  Inv'
<1>1. /\ count' \in [Keys -> Nat] /\ \A j \in Keys : count'[j] <= count[j]
      /\ timed' \subseteq {j \in Keys : count'[j] > 0} /\ broken' \subseteq Keys
      /\ LastingOnlyByFault'
    BY DropKeeps DEF Elapse
<1>2. Types'
    BY <1>1 DEF Elapse, Inv, Types
<1>3. \A j \in Keys : Uncounted(j)' \subseteq Uncounted(j)
    BY DEF Elapse, Uncounted
<1> QED
    BY <1>1, <1>2, <1>3, NoFurther DEF Inv

\* A fault: what the call has made without an expiry is noted.
LEMMA FaultKeeps ==
    ASSUME Inv, NEW c \in Calls, Fault(c)
    PROVE  Inv'
<1>1. Types'
    BY DEF Inv, Types, Fault
<1>2. \A k \in Keys : Uncounted(k)' \subseteq Uncounted(k)
    BY DEF Fault, Uncounted, Inv, Types
<1>3. OverrunByCallsInFlight'
    BY <1>2, NoFurther DEF Fault, Inv, Types
<1>4. LastingOnlyByFault'
    BY DEF Inv, Types, LastingOnlyByFault, Fault
<1> QED
    BY <1>1, <1>3, <1>4 DEF Inv

LEMMA NextKeeps == Inv /\ [Next]_vars => Inv'
<1> SUFFICES ASSUME Inv, [Next]_vars PROVE Inv'
    OBVIOUS
<1>1. CASE \E c \in Calls, a \in Addresses : Register(c, a) \/ \E e \in Emails : Login(c, e, a)
    BY <1>1, RegisterKeeps, LoginKeeps
<1>2. CASE \E c \in Calls : WrongPassword(c) \/ RightPassword(c)
    BY <1>2, PasswordKeeps
<1>3. CASE \E c \in Calls : (\E k \in Keys : Count(c, k)) \/ Expire(c) \/ Clear(c) \/ Fault(c)
    BY <1>3, CountKeeps, ExpireKeeps, ClearKeeps, FaultKeeps
<1>4. CASE \E k \in Keys : Elapse(k)
    BY <1>4, ElapseKeeps
<1>5. CASE UNCHANGED vars
    BY <1>5 DEF vars, Inv, Types, OverrunByCallsInFlight, LastingOnlyByFault, Uncounted
<1> QED
    BY <1>1, <1>2, <1>3, <1>4, <1>5 DEF Next

LEMMA Invariant == Spec => []Inv
    BY InitInv, NextKeeps, PTL DEF Spec
-----------------------------------------------------------------------------
\* The counters and the calls have their types (LoginRateLimiter).
THEOREM ThrottleTypes == Spec => []TypeOK
<1>1. Inv => TypeOK
    BY DEF Inv, Types, TypeOK
<1> QED
    BY <1>1, Invariant, PTL

\* A limit is overrun by no more than the calls in flight when it was reached
\* (is_limited before record_failure).
THEOREM OverrunIsBounded == Spec => []OverrunByCallsInFlight
<1>1. Inv => OverrunByCallsInFlight
    BY DEF Inv
<1> QED
    BY <1>1, Invariant, PTL

\* Only a fault between INCR and EXPIRE leaves a counter that stays (record_failure,
\* record_register_attempt).
THEOREM LastingNeedsFault == Spec => []LastingOnlyByFault
<1>1. Inv => LastingOnlyByFault
    BY DEF Inv
<1> QED
    BY <1>1, Invariant, PTL
==============================================================================
