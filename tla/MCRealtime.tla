----------------------------- MODULE MCRealtime -----------------------------
(***************************************************************************)
(* A small instance of Realtime for TLC.                                   *)
(***************************************************************************)
EXTENDS Realtime

CONSTANTS t1, t2, incident

Alone == [tabs |-> {t1}, live |-> {t1}, locks |-> FALSE, families |-> 1, tokens |-> 2,
          faults |-> 1, unversioned |-> {}, writes |-> 2, own |-> 0]

Pair == [Alone EXCEPT !.tabs = {t1, t2}, !.live = {}, !.locks = TRUE, !.tokens = 3, !.writes = 0]

\* One tab that is shown writes of others, with versions and without, or its
\* own; one whose token expires; one whose session ends; two that share the lock,
\* on one session, with a fault, or on two; two without Web Locks.
MCBrowsers == {
    Alone,
    [Alone EXCEPT !.unversioned = {incident}],
    [Alone EXCEPT !.writes = 1, !.own = 1],
    [Alone EXCEPT !.tokens = 3, !.faults = 2, !.writes = 0],
    [Alone EXCEPT !.live = {}, !.families = 2, !.tokens = 3, !.faults = 2, !.writes = 0],
    Pair,
    [Pair EXCEPT !.families = 2, !.tokens = 2, !.faults = 0],
    [Pair EXCEPT !.locks = FALSE, !.faults = 0]}
=============================================================================
