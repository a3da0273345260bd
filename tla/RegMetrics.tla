----------------------------- MODULE RegMetrics -----------------------------
(***************************************************************************)
(* What print_results() relies on: a thread that finishes a registration   *)
(* counts it in the total at once.                                         *)
(***************************************************************************)
EXTENDS Naturals

CONSTANTS SimThreads

VARIABLES
    total,       \* the number that is printed
    counted      \* counted[t]: registrations of thread t it contains

metricVars == <<total, counted>>

MetricsInit == total = 0 /\ counted = [t \in SimThreads |-> 0]

Count(t) ==
    /\ total' = total + 1
    /\ counted' = [counted EXCEPT ![t] = @ + 1]

MetricsNext == \E t \in SimThreads : Count(t)

MetricsSpec == MetricsInit /\ [][MetricsNext]_metricVars
=============================================================================
