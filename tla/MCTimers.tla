------------------------------ MODULE MCTimers ------------------------------
(* Small instances of the two parts of the server that go on because a      *)
(* timer fires, and share no state: the supervisor with three processes, so *)
(* that two killed ones may linger beside the current one, and two callers, *)
(* and the scheduler with three commands of two sessions for one slot.  A   *)
(* behaviour is one of either.                                              *)
EXTENDS Supervisor

CONSTANTS
    p1, p2, p3, c1, c2,   \* processes and callers
    s1, s2, a1, a2, b1,   \* sessions and their commands
    MaxActive, MaxPerSession, MaxQueued   \* of Scheduler

VARIABLES
    tasks, queue, active, activeBySession, timers, reason, running, promise, index, cancelling,
    part   \* what moves

MCProc == {p1, p2, p3}
MCCaller == {c1, c2}
MCKey == {a1, a2, b1}

Commands == INSTANCE Scheduler
    WITH Session <- {s1, s2}, Key <- MCKey,
         SessionOf <- [k \in MCKey |-> IF k = b1 THEN s2 ELSE s1]

schedulerVars ==
    <<tasks, queue, active, activeBySession, timers, reason, running, promise, index, cancelling>>

allVars == <<part, supervisorVars, schedulerVars>>

TimersInit == part \in {"supervisor", "scheduler"} /\ SupervisorInit /\ Commands!Init

TimersNext ==
    /\ UNCHANGED part
    /\ \/ part = "supervisor" /\ SupervisorNext /\ UNCHANGED schedulerVars
       \/ part = "scheduler" /\ Commands!Next /\ UNCHANGED supervisorVars

\* In either part the other one's fairness asks for nothing: what it is of is disabled at
\* the beginning.
TimersSpec ==
    /\ TimersInit /\ [][TimersNext]_allVars
    /\ SupervisorFairness /\ Commands!TimerFairness

-----------------------------------------------------------------------------
\* An admitted command is settled, if aborted tools end (Scheduler, start and abortTask).
EveryCommandSettles == Commands!EveryCommandSettles

\* A wait in the queue ends by the deadline (Scheduler, the timer set by schedule).
QueueWaitBounded == Commands!QueueWaitBounded
=============================================================================
