-------------------------- MODULE ResponseProtocol --------------------------
(***************************************************************************)
(* What the response-action API promises: a disruptive action is proposed  *)
(* by one person, decided once by another, and touches the outside world   *)
(* only between that approval and its recorded outcome, at most once.      *)
(***************************************************************************)
EXTENDS Naturals

CONSTANTS Actions, Users, NoUser

VARIABLES status,     \* what GET /response-actions/{id} reports
          proposer,
          decider,
          effects     \* how often the action was carried out

vars == <<status, proposer, decider, effects>>

Statuses == {"absent", "proposed", "approved", "rejected",
             "running", "succeeded", "failed"}

Init == /\ status = [a \in Actions |-> "absent"]
        /\ proposer = [a \in Actions |-> NoUser]
        /\ decider = [a \in Actions |-> NoUser]
        /\ effects = [a \in Actions |-> 0]

Move(a, from, to) == /\ status[a] = from
                     /\ status' = [status EXCEPT ![a] = to]

Propose(a, u) == /\ Move(a, "absent", "proposed")
                 /\ proposer' = [proposer EXCEPT ![a] = u]
                 /\ UNCHANGED <<decider, effects>>

Decide(a, u) == /\ u # proposer[a]
                /\ Move(a, "proposed", "approved") \/ Move(a, "proposed", "rejected")
                /\ decider' = [decider EXCEPT ![a] = u]
                /\ UNCHANGED <<proposer, effects>>

Start(a) == /\ Move(a, "approved", "running")
            /\ UNCHANGED <<proposer, decider, effects>>

CarryOut(a) == /\ effects[a] = 0
               /\ effects' = [effects EXCEPT ![a] = 1]

\* The outcome can be recorded together with the effect, or after it.
Apply(a) == /\ status[a] = "running"
            /\ CarryOut(a)
            /\ UNCHANGED <<status, proposer, decider>>

Succeed(a) == /\ Move(a, "running", "succeeded")
              /\ CarryOut(a) \/ (effects[a] = 1 /\ UNCHANGED effects)
              /\ UNCHANGED <<proposer, decider>>

Fail(a) == /\ Move(a, "running", "failed")
           /\ UNCHANGED <<proposer, decider, effects>>

Next == \E a \in Actions : \/ \E u \in Users : Propose(a, u) \/ Decide(a, u)
                           \/ Start(a) \/ Apply(a) \/ Succeed(a) \/ Fail(a)

Spec == Init /\ [][Next]_vars
=============================================================================
