------------------------------ MODULE RanSched ------------------------------
(***************************************************************************)
(* The threads of the RAN simulator (ran_simulator.cpp): when a thread     *)
(* starts a registration, how the registrations are counted, and how the   *)
(* program ends.  What a registration does is in module Ran; here it       *)
(* succeeds or fails after any time.                                       *)
(***************************************************************************)
EXTENDS Naturals, FiniteSets

CONSTANTS
    g_threads_count,   \* first argument of the program
    g_req_dur,         \* second argument, in seconds
    nstars,            \* length of the array TimetoStart, 100 in the code
    MaxTime,           \* bound on the clock, in seconds
    MaxRegs            \* bound on the registrations of a thread

ASSUME RanSchedAssumption ==
    /\ g_threads_count \in Nat \ {0}
    /\ {g_req_dur, nstars, MaxTime, MaxRegs} \subseteq Nat

Thread  == 0 .. (g_threads_count - 1)
NoOne   == g_threads_count
Ended   == {"stopped", "failed"}

VARIABLES
    now,               \* time(0), in seconds since `start' was initialised
    g_start_time,      \* what init() read of the clock
    pc,                \* pc[t]: where simulate(t) is
    tmp,               \* tmp[t]: the counter as t read it before the increment
    g_mux,             \* holder of the mutex
    g_tot_regs, stopped_threads,
    regs,              \* regs[t]: registrations thread t finished
    main, i            \* where run() is, and its loop variable

schedVars == <<now, g_start_time, pc, tmp, g_mux, g_tot_regs, stopped_threads, regs, main, i>>
counters  == <<tmp, g_mux, g_tot_regs, stopped_threads, regs>>
runVars   == <<main, i>>

SchedTypeOK ==
    /\ pc \in [Thread -> {"none", "new", "poll", "check", "attach", "lock", "incr", "unlock",
                          "stopping", "writing"} \cup Ended]
    /\ tmp \in [Thread -> Nat]
    /\ g_mux \in Thread \cup {NoOne}
    /\ g_tot_regs \in Nat /\ stopped_threads \in Nat
    /\ regs \in [Thread -> Nat]
    /\ main \in {"create", "join", "done"} /\ i \in 0 .. g_threads_count

\* `start' is read before main() begins, g_start_time by init().
SchedInit ==
    /\ now \in {0, 1} /\ g_start_time = now
    /\ pc = [t \in Thread |-> "none"]
    /\ tmp = [t \in Thread |-> 0]
    /\ g_mux = NoOne
    /\ g_tot_regs = 0 /\ stopped_threads = 0
    /\ regs = [t \in Thread |-> 0]
    /\ main = "create" /\ i = 0

Goto(t, l) == pc' = [pc EXCEPT ![t] = l]

Tick ==
    /\ now < MaxTime
    /\ now' = now + 1
    /\ UNCHANGED <<g_start_time, pc, counters, runVars>>

-----------------------------------------------------------------------------
(***************************************************************************)
(* simulate(t).                                                            *)
(***************************************************************************)
connect(t) ==
    /\ pc[t] = "new"
    /\ Goto(t, "poll")
    /\ UNCHANGED <<now, g_start_time, counters, runVars>>

\* TimetoStart holds zeros: schedule(), which fills it, is never called.  A
\* thread beyond the end of the array compares whatever lies there.  While
\* the comparison fails the thread spins, which changes nothing.
is_scheduled(t) ==
    /\ pc[t] = "poll"
    /\ t < nstars => now = 0
    /\ Goto(t, "check")
    /\ UNCHANGED <<now, g_start_time, counters, runVars>>

time_check(t) ==
    /\ pc[t] = "check"
    /\ Goto(t, IF now - g_start_time > g_req_dur THEN "stopping" ELSE "attach")
    /\ UNCHANGED <<now, g_start_time, counters, runVars>>

Register(t) ==
    /\ pc[t] = "attach"
    /\ \/ /\ regs[t] < MaxRegs
          /\ regs' = [regs EXCEPT ![t] = @ + 1]
          /\ Goto(t, "lock")
       \/ Goto(t, "failed") /\ UNCHANGED regs
    /\ UNCHANGED <<now, g_start_time, tmp, g_mux, g_tot_regs, stopped_threads, runVars>>

\* Mutant of mlock: the metrics are updated without the mutex.
NoMlock(t) ==
    /\ pc[t] = "lock"
    /\ tmp' = [tmp EXCEPT ![t] = g_tot_regs]
    /\ Goto(t, "incr")
    /\ UNCHANGED <<now, g_start_time, g_mux, g_tot_regs, stopped_threads, regs, runVars>>

mlock(t) ==
    /\ pc[t] = "lock"
    /\ g_mux = NoOne
    /\ g_mux' = t
    /\ tmp' = [tmp EXCEPT ![t] = g_tot_regs]
    /\ Goto(t, "incr")
    /\ UNCHANGED <<now, g_start_time, g_tot_regs, stopped_threads, regs, runVars>>

UpdateMetrics(t) ==
    /\ pc[t] = "incr"
    /\ g_tot_regs' = tmp[t] + 1
    /\ Goto(t, "unlock")
    /\ UNCHANGED <<now, g_start_time, tmp, g_mux, stopped_threads, regs, runVars>>

munlock(t) ==
    /\ pc[t] = "unlock"
    /\ g_mux' = NoOne
    /\ Goto(t, "poll")
    /\ UNCHANGED <<now, g_start_time, tmp, g_tot_regs, stopped_threads, regs, runVars>>

\* stopped_threads++ is not under the mutex: a read, and later a write.
ReadStopped(t) ==
    /\ pc[t] = "stopping"
    /\ tmp' = [tmp EXCEPT ![t] = stopped_threads]
    /\ Goto(t, "writing")
    /\ UNCHANGED <<now, g_start_time, g_mux, g_tot_regs, stopped_threads, regs, runVars>>

WriteStopped(t) ==
    /\ pc[t] = "writing"
    /\ stopped_threads' = tmp[t] + 1
    /\ Goto(t, "stopped")
    /\ UNCHANGED <<now, g_start_time, tmp, g_mux, g_tot_regs, regs, runVars>>

-----------------------------------------------------------------------------
(***************************************************************************)
(* run() and print_results().                                              *)
(***************************************************************************)
Create ==
    /\ main = "create"
    /\ IF i < g_threads_count
       THEN Goto(i, "new") /\ i' = i + 1 /\ UNCHANGED main
       ELSE main' = "join" /\ i' = 0 /\ UNCHANGED pc
    /\ UNCHANGED <<now, g_start_time, counters>>

\* Mutant of Join: the last thread is not waited for.
JoinButLast ==
    /\ main = "join"
    /\ IF i < g_threads_count - 1
       THEN pc[i] \in Ended /\ i' = i + 1 /\ UNCHANGED main
       ELSE main' = "done" /\ UNCHANGED i
    /\ UNCHANGED <<now, g_start_time, pc, counters>>

Join ==
    /\ main = "join"
    /\ IF i < g_threads_count
       THEN pc[i] \in Ended /\ i' = i + 1 /\ UNCHANGED main
       ELSE main' = "done" /\ UNCHANGED i
    /\ UNCHANGED <<now, g_start_time, pc, counters>>

SimThread(t) ==
    \/ connect(t) \/ is_scheduled(t) \/ time_check(t) \/ Register(t) \/ mlock(t)
    \/ UpdateMetrics(t) \/ munlock(t) \/ ReadStopped(t) \/ WriteStopped(t)

SchedNext == Tick \/ Create \/ Join \/ \E t \in Thread : SimThread(t)

SchedSpec == SchedInit /\ [][SchedNext]_schedVars

-----------------------------------------------------------------------------
\* A registration counts once its thread has written the total.
Counted == [t \in Thread |-> IF pc[t] \in {"lock", "incr"} THEN regs[t] - 1 ELSE regs[t]]

Metrics == INSTANCE RegMetrics WITH SimThreads <- Thread, total <- g_tot_regs, counted <- Counted

\* The increments under the mutex, a read and a later write, are atomic: the
\* program implements a counter that every thread adds its registrations to.
CountsAtOnce == Metrics!MetricsSpec

\* The strengthening that makes it inductive: the holder of the mutex is the
\* thread between mlock() and munlock(), and what it read is still true.
MutexHeld ==
    /\ \A t \in Thread : (g_mux = t) <=> pc[t] \in {"incr", "unlock"}
    /\ \A t \in Thread : pc[t] = "incr" => tmp[t] = g_tot_regs
    /\ \A t \in Thread : pc[t] \in {"lock", "incr"} => regs[t] > 0
    /\ main = "create" => \A t \in Thread : t >= i => pc[t] = "none"

\* The threads that have returned because the duration had ended.
Stopped == {t \in Thread : pc[t] = "stopped"}

\* stopped_threads, incremented without a lock, may lose threads but never
\* all of them, and never counts one twice.
StoppedBound ==
    /\ stopped_threads <= Cardinality(Stopped)
    /\ Stopped # {} => stopped_threads > 0

\* What print_results() prints is final, no thread is still counting; and
\* although stopped_threads is incremented without a lock, it lies between one
\* and the number of threads that stopped.
ResultsFinal ==
    /\ [](SchedTypeOK /\ StoppedBound)
    /\ [][main = "done" => UNCHANGED <<g_tot_regs, stopped_threads>>]_schedVars
=============================================================================
