-------------------------- MODULE MCEventPipeline ---------------------------
(***************************************************************************)
(* Small instances of EventPipeline for TLC.                               *)
(***************************************************************************)
EXTENDS EventPipeline, TLC

CONSTANTS r1, r2, r3, e1, e2, e3, e4, e5, e6, e7, e8, e9, e10, e11, u1, u2, p1, p2, f1

Data(type, user, ip, time) ==
    [type |-> type, user |-> user, ip |-> ip, time |-> time, large |-> TRUE,
     severity |-> "critical", confidence |-> 90, finding |-> f1]

\* One user attacked from two addresses and another from one of them, a
\* download, and two updates of one cloud finding.
MCData == [e \in Events |->
    CASE e = e1 -> Data("login_failure", u1, p1, 1)
      [] e = e2 -> Data("login_success", u1, p1, 2)
      [] e = e3 -> Data("login_failure", u1, p2, 3)
      [] e = e4 -> Data("login_success", u1, p2, 4)
      [] e = e5 -> Data("file_download", u2, p1, 4)
      [] e = e6 -> Data("cloud_finding", None, None, 2)
      [] e = e7 -> Data("cloud_finding", None, None, 3)
      [] e = e8 -> Data("login_failure", u2, p1, 3)
      [] e = e9 -> Data("login_success", u2, p1, 4)
      [] e = e10 -> Data("login_failure", u1, p1, 3)
      [] e = e11 -> Data("login_success", u1, p1, 4)]

Carry(kind, batch) == [kind |-> kind, batch |-> batch]
Nothing == Carry("bulk", <<>>)
Calls(a, b, c) ==
    [r \in Requests |-> CASE r = r1 -> a [] r = r2 -> b [] OTHER -> c]

\* Two attacks on one user at once; an attack sent twice at once; an attack
\* followed up event by event; two attacks that share an identity only with a
\* manual incident; one finding sent twice, in opposite orders.
MCWorkloads ==
    {Calls(Carry("bulk", <<e1, e2>>), Carry("bulk", <<e10, e11>>), Nothing),
     Calls(Carry("bulk", <<e1, e2>>), Carry("bulk", <<e1, e2>>), Carry("single", <<e4>>)),
     Calls(Carry("bulk", <<e1, e10>>), Carry("single", <<e4>>), Carry("single", <<e5>>)),
     Calls(Carry("bulk", <<e3, e4>>), Carry("bulk", <<e8, e9>>), Nothing),
     Calls(Carry("findings", <<e6, e7>>), Carry("findings", <<e7, e6, e7>>), Nothing)}

MCManual == {[user |-> u1, ip |-> p1, time |-> 1, score |-> 30]}
Symmetry == Permutations(Incidents \ ManualIds)
=============================================================================
