------------------------------ MODULE Scheduler ------------------------------
(***************************************************************************)
(* BoundedScheduler (src/src/server/lib/scheduler.ts): admission control   *)
(* for tool commands.  At most MaxActive commands run, at most             *)
(* MaxPerSession of one session; up to MaxQueued more wait.  Every         *)
(* admitted command has a deadline that starts when it is admitted.        *)
(*                                                                         *)
(* Granularity.  JavaScript runs each handler to completion, so the        *)
(* handlers of the code never interleave with each other, but they do      *)
(* contain two loops: drain() over the queue and cancelSession() over the  *)
(* registered tasks.  Each loop iteration is an action of its own and a    *)
(* handler may begin only when no loop is under way (Idle).  What the      *)
(* handlers do interleave with is the tools: a run() promise stays         *)
(* pending across any number of handlers.                                  *)
(*                                                                         *)
(* Definitions whose name ends in _Faulty... are deliberate errors: they   *)
(* stand in for the definition after them to show that a property notices. *)
(***************************************************************************)
EXTENDS Naturals, Sequences, FiniteSets, SequencesExt, Subsequences

CONSTANTS
    Session,        \* connections
    Key,            \* task keys `${sessionId}:${commandId}`
    SessionOf,      \* the session part of a key
    MaxActive,      \* options.maxActive
    MaxPerSession,  \* options.maxPerSession
    MaxQueued       \* options.maxQueued

\* The constructor's checks on its options.
ASSUME OptionsAssumption ==
    /\ MaxActive \in Nat \ {0}
    /\ MaxPerSession \in Nat \ {0}
    /\ MaxQueued \in Nat \ {0}
    /\ MaxPerSession <= MaxActive

\* A key names its session.
ASSUME KeyAssumption == SessionOf \in [Key -> Session]

VARIABLES
    tasks,            \* this.tasks: the keys of admitted, unsettled commands
    queue,            \* this.queue, as keys
    active,           \* this.active
    activeBySession,  \* this.activeBySession, 0 for an absent entry
    timers,           \* keys whose deadline timer is armed
    reason,           \* controller.signal.reason of the key's latest task
    running,          \* keys whose run() promise is pending
    promise,          \* the promise schedule() returned for the key's latest call
    index,            \* the loop variable of drain(), counted from 1; 0 outside it
    cancelling        \* what cancelSession() has still to visit

vars == <<tasks, queue, active, activeBySession, timers, reason, running,
          promise, index, cancelling>>

Reasons == {"none", "timeout", "cancelled"}

Promises == {"none", "pending", "resolved", "failed", "timeout", "cancelled",
             "overloaded"}

\* The keys of session s that hold one of the running slots.
RunningOf(s) == {k \in running : SessionOf[k] = s}

-----------------------------------------------------------------------------
Init ==
    /\ tasks = {}
    /\ queue = <<>>
    /\ active = 0
    /\ activeBySession = [s \in Session |-> 0]
    /\ timers = {}
    /\ reason = [k \in Key |-> "none"]
    /\ running = {}
    /\ promise = [k \in Key |-> "none"]
    /\ index = 0
    /\ cancelling = {}

\* No loop is under way: the event loop may begin a handler.
Idle == index = 0 /\ cancelling = {}

CanStart_FaultyNoSessionCap(s) == active < MaxActive

CanStart(s) == active < MaxActive /\ activeBySession[s] < MaxPerSession

Start_FaultyNotPerSession(k) ==
    /\ active' = active + 1
    /\ running' = running \cup {k}
    /\ UNCHANGED activeBySession

\* start(): the run is launched and takes a slot.
Start(k) ==
    /\ active' = active + 1
    /\ activeBySession' = [activeBySession EXCEPT ![SessionOf[k]] = @ + 1]
    /\ running' = running \cup {k}

Register_FaultyNoTimer(k) ==
    /\ tasks' = tasks \cup {k}
    /\ reason' = [reason EXCEPT ![k] = "none"]
    /\ promise' = [promise EXCEPT ![k] = "pending"]
    /\ UNCHANGED <<timers, index, cancelling>>

\* The part of schedule() common to both ways in: the task is registered, its
\* controller is fresh and its deadline timer starts now.
Register(k) ==
    /\ tasks' = tasks \cup {k}
    /\ timers' = timers \cup {k}
    /\ reason' = [reason EXCEPT ![k] = "none"]
    /\ promise' = [promise EXCEPT ![k] = "pending"]
    /\ UNCHANGED <<index, cancelling>>

\* schedule() when a slot is free for the session.
ScheduleStart(k) ==
    /\ Idle /\ k \notin tasks
    /\ CanStart(SessionOf[k])
    /\ Register(k)
    /\ Start(k)
    /\ UNCHANGED queue

\* schedule() when the command has to wait.
ScheduleQueue(k) ==
    /\ Idle /\ k \notin tasks
    /\ ~CanStart(SessionOf[k]) /\ Len(queue) < MaxQueued
    /\ Register(k)
    /\ queue' = Append(queue, k)
    /\ UNCHANGED <<active, activeBySession, running>>

\* schedule() when there is no room: "Command queue is full".
ScheduleFull(k) ==
    /\ Idle /\ k \notin tasks
    /\ ~CanStart(SessionOf[k]) /\ Len(queue) >= MaxQueued
    /\ promise' = [promise EXCEPT ![k] = "overloaded"]
    /\ UNCHANGED <<tasks, queue, active, activeBySession, timers, reason,
                   running, index, cancelling>>

\* schedule() of a key that is still registered: that call's own promise is
\* rejected with "Command is already active" and the scheduler is untouched.
ScheduleDuplicate(k) ==
    /\ Idle /\ k \in tasks
    /\ UNCHANGED vars

-----------------------------------------------------------------------------
FirstReason_FaultyLast(old, why) == why

FirstReason_FaultyIgnored(old, why) == old

\* controller.abort(): the first abort decides the signal's reason.
FirstReason(old, why) == IF old = "none" THEN why ELSE old

\* abortTask(): the signal is raised.  A queued task is
\* removed and answered, its timer is cleared and the queue is drained; a running
\* one keeps its slot until its run settles.
Abort(k, why) ==
    /\ reason' = [reason EXCEPT ![k] = FirstReason(@, why)]
    /\ \/ /\ k \notin ToSet(queue)
          /\ timers' = IF why = "timeout" THEN timers \ {k} ELSE timers
          /\ UNCHANGED <<tasks, queue, promise, index>>
       \/ \E i \in DOMAIN queue :
             /\ queue[i] = k
             /\ \A j \in 1..(i - 1) : queue[j] # k
             /\ queue' = RemoveAt(queue, i)
             /\ tasks' = tasks \ {k}
             /\ timers' = timers \ {k}
             /\ promise' = [promise EXCEPT ![k] = why]
             /\ index' = 1
    /\ UNCHANGED <<active, activeBySession, running>>

\* cancel() of a registered command; of any other it only answers false.
Cancel(k) ==
    /\ Idle /\ k \in tasks
    /\ Abort(k, "cancelled")
    /\ UNCHANGED cancelling

\* The deadline timer's callback; a timer fires once.
Timeout(k) ==
    /\ Idle /\ k \in timers
    /\ Abort(k, "timeout")
    /\ UNCHANGED cancelling

\* cancelSession() takes a snapshot of the session's tasks ...
CancelSession(s) ==
    /\ Idle
    /\ cancelling' = {k \in tasks : SessionOf[k] = s}
    /\ UNCHANGED <<tasks, queue, active, activeBySession, timers, reason,
                   running, promise, index>>

\* ... and cancels them one by one, each with its own drain(), if they are still
\* registered.  The order of the snapshot is left open.
CancelNext(k) ==
    /\ index = 0 /\ k \in cancelling
    /\ cancelling' = cancelling \ {k}
    /\ IF k \in tasks
       THEN Abort(k, "cancelled")
       ELSE UNCHANGED <<tasks, queue, active, activeBySession, timers, reason,
                        running, promise, index>>

-----------------------------------------------------------------------------
\* run() settles, by itself or because its tool obeys the signal.  The promise is
\* settled in one microtask and the slot released in the next ones, so no other
\* handler can come between.
Settle(k, how) ==
    /\ Idle /\ k \in running
    /\ promise' = [promise EXCEPT ![k] =
                      IF how = "failed" /\ reason[k] # "none"
                      THEN reason[k] ELSE how]
    /\ timers' = timers \ {k}
    /\ tasks' = tasks \ {k}
    /\ running' = running \ {k}
    /\ active' = active - 1
    /\ activeBySession' = [activeBySession EXCEPT ![SessionOf[k]] = @ - 1]
    /\ index' = 1
    /\ UNCHANGED <<queue, reason, cancelling>>

DrainStart_FaultyNoSplice ==
    /\ index \in DOMAIN queue /\ active < MaxActive
    /\ CanStart(SessionOf[queue[index]])
    /\ index' = index + 1
    /\ Start(queue[index])
    /\ UNCHANGED <<tasks, queue, timers, reason, promise, cancelling>>

\* An iteration of drain() that starts the task at index.
DrainStart ==
    /\ index \in DOMAIN queue /\ active < MaxActive
    /\ CanStart(SessionOf[queue[index]])
    /\ queue' = RemoveAt(queue, index)
    /\ Start(queue[index])
    /\ UNCHANGED <<tasks, timers, reason, promise, index, cancelling>>

DrainSkip_FaultyStops ==
    /\ index \in DOMAIN queue /\ active < MaxActive
    /\ ~CanStart(SessionOf[queue[index]])
    /\ index' = 0
    /\ UNCHANGED <<tasks, queue, active, activeBySession, timers, reason,
                   running, promise, cancelling>>

\* An iteration of drain() that skips a task whose session is at its cap.
DrainSkip ==
    /\ index \in DOMAIN queue /\ active < MaxActive
    /\ ~CanStart(SessionOf[queue[index]])
    /\ index' = index + 1
    /\ UNCHANGED <<tasks, queue, active, activeBySession, timers, reason,
                   running, promise, cancelling>>

\* The loop condition of drain() fails.
DrainDone ==
    /\ index > 0
    /\ index > Len(queue) \/ active >= MaxActive
    /\ index' = 0
    /\ UNCHANGED <<tasks, queue, active, activeBySession, timers, reason,
                   running, promise, cancelling>>

Drain == DrainStart \/ DrainSkip \/ DrainDone

Next ==
    \/ \E k \in Key :
          \/ ScheduleStart(k) \/ ScheduleQueue(k)
          \/ ScheduleFull(k) \/ ScheduleDuplicate(k)
          \/ Cancel(k) \/ Timeout(k) \/ CancelNext(k)
          \/ \E how \in {"resolved", "failed"} : Settle(k, how)
    \/ \E s \in Session : CancelSession(s)
    \/ Drain

Spec == Init /\ [][Next]_vars

\* Loops end, and the event loop keeps coming back to an expired timer until it
\* has run its callback.
TimerFairness ==
    /\ WF_vars(Drain)
    /\ \A k \in Key : WF_vars(CancelNext(k)) /\ SF_vars(Timeout(k))

\* A tool that was aborted settles: every tool of the repository waits on nothing
\* but the signal, a fetch given the signal, or the worker its abort kills.
ToolFairness ==
    \A k \in Key : SF_vars(/\ reason[k] # "none"
                           /\ \E how \in {"resolved", "failed"} : Settle(k, how))

TimerSpec == Spec /\ TimerFairness

-----------------------------------------------------------------------------
TypeOK ==
    /\ tasks \subseteq Key
    /\ queue \in Seq(Key)
    /\ active \in Nat
    /\ activeBySession \in [Session -> Nat]
    /\ timers \subseteq Key
    /\ reason \in [Key -> Reasons]
    /\ running \subseteq Key
    /\ promise \in [Key -> Promises]
    /\ index \in Nat
    /\ cancelling \subseteq Key

\* The two counters that admission is decided on always equal the number of runs
\* really in progress, and respect both caps: start() and the finally block of
\* every settled run balance, whatever was cancelled or timed out in between.
SlotsAccounted ==
    /\ active = Cardinality(running) /\ active <= MaxActive
    /\ \A s \in Session : /\ activeBySession[s] = Cardinality(RunningOf(s))
                          /\ activeBySession[s] <= MaxPerSession

\* A command is registered exactly while it waits in the queue or holds a slot,
\* never both and never twice in the queue, and its caller is still waiting for
\* the promise exactly then: none is lost and none is answered while it can
\* still run (schedule, abortTask and the finally block of start).
NoTaskLost ==
    /\ tasks = running \cup ToSet(queue)
    /\ running \cap ToSet(queue) = {}
    /\ \A i, j \in DOMAIN queue : queue[i] = queue[j] => i = j
    /\ \A k \in Key : promise[k] = "pending" <=> k \in tasks

\* The queue never outgrows its limit, and it never holds a task that a free slot
\* could run: between handlers no queued task may start, and inside drain() none
\* in front of the loop variable may.
WorkConserving ==
    /\ Len(queue) <= MaxQueued
    /\ index = 0 => \A i \in DOMAIN queue : ~CanStart(SessionOf[queue[i]])
    /\ \A i \in DOMAIN queue : i < index => ~CanStart(SessionOf[queue[i]])

\* The deadline covers a command from admission to settlement: an unsettled
\* command without an armed timer is a running one that was already told to
\* abort, and no timer outlives its command to abort a later one of the same key.
\* A command that was told to abort does not go on waiting.
DeadlineCovers ==
    /\ timers \subseteq tasks
    /\ \A k \in tasks \ timers : k \in running /\ reason[k] # "none"
    /\ \A k \in ToSet(queue) : reason[k] = "none"

\* Waiting commands are started in turn: a step that starts a command passes over
\* one that keeps waiting only if it entered the queue later, or belongs to a
\* session that is at its cap.  In particular a new command never overtakes an
\* older one of its own session, although schedule() does not look at the queue.
NoOvertaking ==
    [][\A j \in running' \ running : \A i \in DOMAIN queue :
          /\ queue[i] \in ToSet(queue')
          /\ ~\E h \in DOMAIN queue : queue[h] = j /\ h < i
          => ~CanStart(SessionOf[queue[i]])]_vars

\* What a rejected command reports is the first thing that aborted it, however
\* many cancels and deadlines follow before its run settles, and a command that
\* nothing aborted never reports a cancel or a timeout.
FirstReasonReported ==
    [][\A k \in tasks :
          /\ reason[k] # "none" => reason'[k] = reason[k]
          /\ (k \notin tasks' /\ promise'[k] # "resolved") =>
                promise'[k] = (IF reason'[k] = "none" THEN "failed" ELSE reason'[k])]_vars

\* Every admitted command is answered if the tools settle once aborted, because
\* its deadline aborts it if nothing else settles it (timer in schedule, start).
EveryCommandSettles == ToolFairness => \A k \in Key : k \in tasks ~> k \notin tasks

\* Even when no tool ever obeys its signal, a command that is still waiting gets
\* its answer: queue time counts against the deadline (timer set by schedule).
QueueWaitBounded == \A k \in Key : k \in ToSet(queue) ~> k \notin ToSet(queue)

-----------------------------------------------------------------------------
\* The abstract state: per session the waiting keys, in queue order.
Line == [s \in Session |-> Only(queue, {k \in Key : SessionOf[k] = s})]

Abstract == INSTANCE AdmissionControl WITH
                line <- Line, busy <- running, answer <- promise

\* The scheduler keeps what AdmissionControl promises: per session first come
\* first served, both caps, the queue limit, and one answer per admitted call.
ImplementsAdmissionControl == Abstract!Spec
=============================================================================
