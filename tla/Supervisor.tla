----------------------------- MODULE Supervisor -----------------------------
(***************************************************************************)
(* LlamaSupervisor (src/src/server/modules/llm/supervisor.ts): the owner of *)
(* the llama-server process.  It spawns the process, restarts it with a    *)
(* growing delay when it exits, gives up after MaxRestarts restarts, and   *)
(* lets callers wait until the health endpoint answers.                    *)
(*                                                                         *)
(* Handlers run to completion.  What lies between them is modelled: an     *)
(* exit and the delivery of its event, the answer of the health endpoint   *)
(* and its delivery to the caller, a killed process that has not died yet. *)
(* The delay itself (restartBaseMs * 2^(restartCount - 1)) and the clock   *)
(* are left out: a timer fires, and a deadline passes, at any later time.  *)
(*                                                                         *)
(* Definitions whose name ends in _Faulty... are deliberate errors: they   *)
(* stand in for the definition after them to show that a property notices. *)
(***************************************************************************)
EXTENDS Integers

CONSTANTS
    Proc,         \* processes; one that was reaped may stand for a new one
    NoProc,       \* this.child = null
    Caller,       \* concurrent calls of ensureReady
    MaxRestarts   \* options.maxRestarts

ASSUME RestartsAssumption == MaxRestarts \in Nat

ASSUME ProcAssumption == NoProc \notin Proc

VARIABLES
    child,         \* this.child
    restartTimer,  \* this.restartTimer is armed
    restartCount,  \* this.restartCount
    stopping,      \* this.stopping
    process,       \* "free", "alive", "killed" (signalled), "gone" (event pending)
    wait,          \* where each caller of ensureReady stands
    abortedCallers \* callers whose signal is aborted

supervisorVars == <<child, restartTimer, restartCount, stopping, process, wait, abortedCallers>>

supervisor == <<child, restartTimer, restartCount, stopping, process>>

Waits == {"none", "loop", "probing", "healthy", "unhealthy", "sleeping",
          "ready", "failed", "aborted"}

SupervisorInit ==
    /\ child = NoProc
    /\ restartTimer = FALSE
    /\ restartCount = 0
    /\ stopping = FALSE
    /\ process = [p \in Proc |-> "free"]
    /\ wait = [c \in Caller |-> "none"]
    /\ abortedCallers = {}

\* spawnChild() when it does spawn; its callers have seen that there is no child.
SpawnChild ==
    \E p \in Proc :
        /\ process[p] = "free"
        /\ process' = [process EXCEPT ![p] = "alive"]
        /\ child' = p

Start_FaultyIgnoresTimer ==
    IF child # NoProc
    THEN UNCHANGED supervisor
    ELSE /\ stopping' = FALSE
         /\ SpawnChild
         /\ UNCHANGED <<restartTimer, restartCount>>

\* start(): nothing while a process runs or is about to be restarted.
Start ==
    IF child # NoProc \/ restartTimer
    THEN UNCHANGED supervisor
    ELSE /\ stopping' = FALSE
         /\ SpawnChild
         /\ UNCHANGED <<restartTimer, restartCount>>

\* startLlm().
StartLlm == Start /\ UNCHANGED <<wait, abortedCallers>>

-----------------------------------------------------------------------------
\* ensureReady() begins; a caller may call again when an earlier call has ended.
EnsureReady(c) ==
    /\ wait[c] \in {"none", "ready", "failed", "aborted"}
    /\ Start
    /\ wait' = [wait EXCEPT ![c] = "loop"]
    /\ UNCHANGED abortedCallers

Move(c, from, to) == wait[c] = from /\ wait' = [wait EXCEPT ![c] = to]

\* The loop condition: the deadline has passed, the signal is aborted, or the
\* health endpoint is asked.
Loop(c) ==
    /\ \/ Move(c, "loop", "failed")
       \/ c \in abortedCallers /\ Move(c, "loop", "aborted")
       \/ c \notin abortedCallers /\ Move(c, "loop", "probing")
    /\ UNCHANGED <<supervisor, abortedCallers>>

\* The endpoint answers: only an existing process can report that it is ready; no
\* answer, a timeout and an aborted fetch all count as not healthy.
Answer(c) ==
    /\ \/ /\ \E p \in Proc : process[p] \in {"alive", "killed"}
          /\ Move(c, "probing", "healthy")
       \/ Move(c, "probing", "unhealthy")
    /\ UNCHANGED <<supervisor, abortedCallers>>

\* A healthy answer reaches the caller, however old it is by then.
Ready(c) ==
    /\ Move(c, "healthy", "ready")
    /\ restartCount' = 0
    /\ UNCHANGED <<child, restartTimer, stopping, process, abortedCallers>>

\* Any other answer makes it sleep for a poll interval, or give up if aborted.
Sleep(c) ==
    /\ IF c \in abortedCallers THEN Move(c, "unhealthy", "aborted")
                        ELSE Move(c, "unhealthy", "sleeping")
    /\ UNCHANGED <<supervisor, abortedCallers>>

Wake(c) ==
    /\ Move(c, "sleeping", "loop")
    /\ UNCHANGED <<supervisor, abortedCallers>>

\* The caller's signal; it ends a sleep at once.
AbortCaller(c) ==
    /\ c \notin abortedCallers
    /\ abortedCallers' = abortedCallers \cup {c}
    /\ wait' = [wait EXCEPT ![c] = IF @ = "sleeping" THEN "aborted" ELSE @]
    /\ UNCHANGED supervisor

-----------------------------------------------------------------------------
Stop_FaultyNoKill ==
    /\ stopping' = TRUE
    /\ restartTimer' = FALSE
    /\ child' = NoProc
    /\ UNCHANGED <<process, restartCount, wait, abortedCallers>>

\* stop(): no restart any more, and the owned process is killed.
Stop ==
    /\ stopping' = TRUE
    /\ restartTimer' = FALSE
    /\ child' = NoProc
    /\ process' = [p \in Proc |-> IF p = child /\ process[p] = "alive" THEN "killed"
                                   ELSE process[p]]
    /\ UNCHANGED <<restartCount, wait, abortedCallers>>

\* A process ends, because it was killed or by itself.
ProcessEnds(p) ==
    /\ process[p] \in {"alive", "killed"}
    /\ process' = [process EXCEPT ![p] = "gone"]
    /\ UNCHANGED <<child, restartTimer, restartCount, stopping, wait, abortedCallers>>

AfterExit_FaultyNoTimer ==
    IF stopping \/ restartCount >= MaxRestarts
    THEN UNCHANGED <<restartCount, restartTimer>>
    ELSE restartCount' = restartCount + 1 /\ UNCHANGED restartTimer

\* What handleExit() does after the child is forgotten: nothing while stopping or
\* once the cap is reached, otherwise a restart is scheduled.
AfterExit ==
    IF stopping \/ restartCount >= MaxRestarts
    THEN UNCHANGED <<restartCount, restartTimer>>
    ELSE restartCount' = restartCount + 1 /\ restartTimer' = TRUE

\* handleExit(): the exit event of a process; of one that is not the child (any
\* more) it is ignored.
HandleExit(p) ==
    /\ process[p] = "gone"
    /\ process' = [process EXCEPT ![p] = "free"]
    /\ IF child = p
       THEN child' = NoProc /\ AfterExit
       ELSE UNCHANGED <<child, restartCount, restartTimer>>
    /\ UNCHANGED <<stopping, wait, abortedCallers>>

\* The restart timer's callback.
Restart ==
    /\ restartTimer
    /\ restartTimer' = FALSE
    /\ IF stopping \/ child # NoProc THEN UNCHANGED <<process, child>> ELSE SpawnChild
    /\ UNCHANGED <<restartCount, stopping, wait, abortedCallers>>

SupervisorNext ==
    \/ StartLlm \/ Stop \/ Restart
    \/ \E c \in Caller : \/ EnsureReady(c) \/ Loop(c) \/ Answer(c) \/ Ready(c)
                         \/ Sleep(c) \/ Wake(c) \/ AbortCaller(c)
    \/ \E p \in Proc : ProcessEnds(p) \/ HandleExit(p)

SupervisorSpec == SupervisorInit /\ [][SupervisorNext]_supervisorVars

\* Timers fire, killed processes die and exit events are delivered.
SupervisorFairness ==
    /\ WF_supervisorVars(Restart)
    /\ \A p \in Proc : /\ WF_supervisorVars(process[p] = "killed" /\ ProcessEnds(p))
                       /\ WF_supervisorVars(HandleExit(p))

SupervisorFairSpec == SupervisorSpec /\ SupervisorFairness

-----------------------------------------------------------------------------
\* Every variable has its type (the fields of LlamaSupervisor).
SupervisorTypeOK ==
    /\ child \in Proc \cup {NoProc}
    /\ restartTimer \in BOOLEAN
    /\ restartCount \in 0 .. MaxRestarts
    /\ stopping \in BOOLEAN
    /\ process \in [Proc -> {"free", "alive", "killed", "gone"}]
    /\ wait \in [Caller -> Waits]
    /\ abortedCallers \subseteq Caller

\* Every process that runs and was not told to end is the one the supervisor owns,
\* so stop() reaches it; the supervisor never owns a process and a pending restart
\* at once, and owns neither while stopping; the restart count stays within its cap,
\* whatever the interleaving of exits, health answers and starts (spawnChild,
\* handleExit, stop).
Owned ==
    /\ \A p \in Proc : process[p] = "alive" => child = p
    /\ child # NoProc => process[child] \in {"alive", "gone"}
    /\ ~(child # NoProc /\ restartTimer)
    /\ stopping => child = NoProc /\ ~restartTimer
    /\ restartCount <= MaxRestarts

\* A child that exits below the cap is replaced, or the supervisor is stopped.
CrashIsSupervised ==
    (child # NoProc /\ process[child] = "gone" /\ restartCount < MaxRestarts)
        ~> (stopping \/ \E p \in Proc : child = p /\ process[p] = "alive")

\* stop() is final: unless it is started again, everything the supervisor ever
\* spawned ends, whatever exit events and timers were under way (stop, handleExit).
StopQuiesces == stopping ~> (~stopping \/ \A p \in Proc : process[p] = "free")
=============================================================================
