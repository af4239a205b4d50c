---------------------------- MODULE WorkerManager ----------------------------
(***************************************************************************)
(* The manager of the shared Python worker                                 *)
(* (src/src/server/modules/prompt_enhancer/index.ts).  Calls of            *)
(* enhancePrompt() pass a gate of Concurrency slots, are written one after *)
(* the other to the worker's stdin, and wait in `pending` for the line     *)
(* that carries their id.  An abort kills the worker; the next call spawns *)
(* another one, while the death of the old one is still to be observed.    *)
(*                                                                         *)
(* Granularity.  Macrotasks (an abort, a line or the end of stdout, the    *)
(* exit event, the completion of a write, a new call) are actions that     *)
(* require Quiet; the continuations they queue (entering the try block,    *)
(* its finally, its inner catch) are actions that run before the next      *)
(* macrotask.  Their mutual order is left open.  A call happens when the   *)
(* local model is ready; a request is one call with an id of its own.  A   *)
(* worker answers a line only after the call has seen that it was flushed. *)
(*                                                                         *)
(* Definitions whose name ends in _Faulty... are deliberate errors: they   *)
(* stand in for the definition after them to show that a property notices. *)
(***************************************************************************)
EXTENDS Naturals, FiniteSets, SequencesExt

CONSTANTS
    Request,      \* calls of enhancePrompt
    Concurrency,  \* COWORK_PROMPT_ENHANCER_CONCURRENCY
    NoRequest     \* no earlier write to wait for

ASSUME ConcurrencyAssumption == Concurrency \in Nat \ {0}

ASSUME RequestAssumption == IsFiniteSet(Request) /\ NoRequest \notin Request

\* At most one worker is spawned per call.
Worker == 1..Cardinality(Request)

None == 0

VARIABLES
    pc,        \* where each call stands
    result,    \* how its responsePromise settled, or its write failed
    aborted,   \* calls whose signal is aborted
    gate,      \* the calls waiting for a slot, in order
    inFlight,  \* the slots handed out
    handle,    \* the current worker, None for null
    spawned,   \* how many workers have been spawned
    proc,      \* what became of each spawned process
    closed,    \* workers whose stdout has been read to its end
    exited,    \* workers whose exit event has been delivered
    pending,   \* calls registered for a response
    owner,     \* the worker a call captured
    after,     \* the call whose write a call's write is chained to
    tail,      \* writeChain: the call with the last chained write
    work       \* the lines each worker has read and not answered

managerVars ==
    <<pc, result, aborted, gate, inFlight, handle, spawned, proc, closed, exited, pending, owner,
      after, tail, work>>

gateVars == <<gate, inFlight>>
workerVars == <<handle, spawned, proc, closed, exited>>
chainVars == <<owner, after, tail>>

States == {"idle", "gate", "granted", "writing", "awaiting", "settled", "rejected",
           "done"}

Results == {"none", "ok", "aborted", "workerDied", "writeFailed"}

\* The calls that occupy a slot of the gate.
Holding == {r \in Request :
              pc[r] \in {"granted", "writing", "awaiting", "settled", "rejected"}}

ManagerInit ==
    /\ pc = [r \in Request |-> "idle"]
    /\ result = [r \in Request |-> "none"]
    /\ aborted = {}
    /\ gate = <<>> /\ inFlight = 0
    /\ handle = None /\ spawned = 0
    /\ proc = [w \in Worker |-> "none"]
    /\ closed = {} /\ exited = {}
    /\ pending = {}
    /\ owner = [r \in Request |-> None]
    /\ after = [r \in Request |-> NoRequest]
    /\ tail = NoRequest
    /\ work = [w \in Worker |-> {}]

\* A write whose predecessor in the chain failed is rejected without being tried.
ChainBroken(r) ==
    pc[r] = "writing" /\ after[r] # NoRequest /\ result[after[r]] = "writeFailed"

Quiet == \A r \in Request :
            pc[r] \notin {"granted", "settled", "rejected"} /\ ~ChainBroken(r)

-----------------------------------------------------------------------------
\* acquire(): a slot, or a place in the gate.
Call(r) ==
    /\ Quiet /\ pc[r] = "idle" /\ r \notin aborted
    /\ \/ /\ inFlight < Concurrency
          /\ inFlight' = inFlight + 1
          /\ pc' = [pc EXCEPT ![r] = "granted"]
          /\ UNCHANGED gate
       \/ /\ inFlight >= Concurrency
          /\ gate' = Append(gate, r)
          /\ pc' = [pc EXCEPT ![r] = "gate"]
          /\ UNCHANGED inFlight
    /\ UNCHANGED <<result, aborted, workerVars, pending, chainVars, work>>

\* A call whose signal is aborted already throws the signal's reason.
CallAborted(r) ==
    /\ Quiet /\ pc[r] = "idle" /\ r \in aborted
    /\ pc' = [pc EXCEPT ![r] = "done"]
    /\ result' = [result EXCEPT ![r] = "aborted"]
    /\ UNCHANGED <<aborted, gateVars, workerVars, pending, chainVars, work>>

Release_FaultyDecrements(r) ==
    /\ gate' = IF gate = <<>> THEN gate ELSE Tail(gate)
    /\ inFlight' = inFlight - 1
    /\ pc' = IF gate = <<>> THEN [pc EXCEPT ![r] = "done"]
             ELSE [pc EXCEPT ![r] = "done", ![Head(gate)] = "granted"]

\* release(): the slot of r goes to the first waiter, or is given back.
Release(r) ==
    \/ /\ gate # <<>>
       /\ gate' = Tail(gate)
       /\ pc' = [pc EXCEPT ![r] = "done", ![Head(gate)] = "granted"]
       /\ UNCHANGED inFlight
    \/ /\ gate = <<>>
       /\ inFlight' = inFlight - 1
       /\ pc' = [pc EXCEPT ![r] = "done"]
       /\ UNCHANGED gate

\* The try block up to its first await: a worker, the registration in pending, the
\* abort listener, and the write chained behind the latest one.
Begin(r) ==
    /\ pc[r] = "granted"
    /\ pc' = [pc EXCEPT ![r] = "writing"]
    /\ \/ /\ handle # None
          /\ owner' = [owner EXCEPT ![r] = handle]
          /\ UNCHANGED workerVars
       \/ /\ handle = None
          /\ spawned' = spawned + 1
          /\ handle' = spawned'
          /\ proc' = [proc EXCEPT ![spawned'] = "alive"]
          /\ owner' = [owner EXCEPT ![r] = spawned']
          /\ UNCHANGED <<closed, exited>>
    /\ pending' = pending \cup {r}
    /\ after' = [after EXCEPT ![r] = tail]
    /\ tail' = r
    /\ UNCHANGED <<result, aborted, gateVars, work>>

-----------------------------------------------------------------------------
AfterWrite_FaultyAwaits(r) == "awaiting"

\* Where a call stands after its write: its responsePromise may have been rejected
\* while the write was under way.
AfterWrite(r) == IF result[r] = "none" THEN "awaiting" ELSE "settled"

\* It is the turn of r's write.
Turn(r) ==
    /\ Quiet /\ pc[r] = "writing"
    /\ after[r] # NoRequest => pc[after[r]] # "writing"

\* write() and flush() succeed.  A dying worker no longer reads the line.
WriteOk(r) ==
    /\ Turn(r)
    /\ pc' = [pc EXCEPT ![r] = AfterWrite(r)]
    /\ work' = IF proc[owner[r]] = "alive"
               THEN [work EXCEPT ![owner[r]] = @ \cup {r}] ELSE work
    /\ UNCHANGED <<result, aborted, gateVars, workerVars, pending, chainVars>>

\* They fail on the pipe of a worker that is gone or going.
WriteFail(r) ==
    /\ Turn(r) /\ proc[owner[r]] # "alive"
    /\ pc' = [pc EXCEPT ![r] = "rejected"]
    /\ result' = [result EXCEPT ![r] = "writeFailed"]
    /\ UNCHANGED <<aborted, gateVars, workerVars, pending, chainVars, work>>

\* Every later write of the chain fails with it, whatever worker it is for.
BreakChain(r) ==
    /\ ChainBroken(r)
    /\ pc' = [pc EXCEPT ![r] = "rejected"]
    /\ result' = [result EXCEPT ![r] = "writeFailed"]
    /\ UNCHANGED <<aborted, gateVars, workerVars, pending, chainVars, work>>

\* The inner catch forgets the current worker, whichever it is, and the chain.
WriteCatch(r) ==
    /\ pc[r] = "rejected"
    /\ pending' = pending \ {r}
    /\ handle' = None
    /\ tail' = NoRequest
    /\ Release(r)
    /\ UNCHANGED <<result, aborted, spawned, proc, closed, exited, owner, after, work>>

\* The finally block of a call whose response promise has settled.
Finish(r) ==
    /\ pc[r] = "settled"
    /\ Release(r)
    /\ UNCHANGED <<result, aborted, workerVars, pending, chainVars, work>>

-----------------------------------------------------------------------------
\* The response promises of the calls in R settle with `how`.
SettleAs(R, how) ==
    /\ pending' = pending \ R
    /\ result' = [r \in Request |-> IF r \in R THEN how ELSE result[r]]
    /\ pc' = [r \in Request |->
                IF r \in R /\ pc[r] = "awaiting" THEN "settled" ELSE pc[r]]

\* pumpStdout: a line of worker w settles the call whose id it carries.
Respond(w, r) ==
    /\ Quiet /\ w \notin closed /\ r \in work[w]
    /\ work' = [work EXCEPT ![w] = @ \ {r}]
    /\ SettleAs(pending \cap {r}, "ok")
    /\ UNCHANGED <<aborted, gateVars, workerVars, chainVars>>

FailAllPending_FaultyForgets ==
    pending' = {} /\ UNCHANGED <<result, pc>>

\* failAllPending(): every registered call, of whatever worker.
FailAllPending == SettleAs(pending, "workerDied")

\* The process ends: it was killed, or it crashed.
Die(w) ==
    /\ Quiet /\ proc[w] \in {"alive", "killed"}
    /\ proc' = [proc EXCEPT ![w] = "dead"]
    /\ UNCHANGED <<pc, result, aborted, gateVars, handle, spawned, closed, exited,
                   pending, chainVars, work>>

\* pumpStdout reaches the end of a dead worker's stdout.
StdoutClosed(w) ==
    /\ Quiet /\ proc[w] = "dead" /\ w \notin closed
    /\ closed' = closed \cup {w}
    /\ FailAllPending
    /\ UNCHANGED <<aborted, gateVars, handle, spawned, proc, exited, chainVars, work>>

ForgetExited_FaultyKeeps(w) == handle

\* A worker is forgotten by its exit event only while it is the current one.
ForgetExited(w) == IF handle = w THEN None ELSE handle

\* The exit event of a dead worker.
Exited(w) ==
    /\ Quiet /\ proc[w] = "dead" /\ w \notin exited
    /\ exited' = exited \cup {w}
    /\ handle' = ForgetExited(w)
    /\ FailAllPending
    /\ UNCHANGED <<aborted, gateVars, spawned, proc, closed, chainVars, work>>

-----------------------------------------------------------------------------
\* The signal of a call that has not passed acquire() yet: it leaves the gate.
AbortEarly(r) ==
    /\ Quiet /\ r \notin aborted /\ pc[r] \in {"idle", "gate"}
    /\ aborted' = aborted \cup {r}
    /\ \/ pc[r] = "idle" /\ UNCHANGED <<pc, result, gate>>
       \/ \E i \in DOMAIN gate :
          /\ gate[i] = r
          /\ gate' = RemoveAt(gate, i)
          /\ pc' = [pc EXCEPT ![r] = "done"]
          /\ result' = [result EXCEPT ![r] = "aborted"]
    /\ UNCHANGED <<inFlight, workerVars, pending, chainVars, work>>

AbortWaiter_FaultyForgets(r) == pending' = pending \ {r} /\ UNCHANGED <<pc, result>>

\* The abort listener rejects the call's own registration.
AbortWaiter(r) == SettleAs(pending \cap {r}, "aborted")

\* The signal of a call with a worker: its own registration is rejected, and its
\* worker is killed if that is still the current one.
AbortActive(r) ==
    /\ Quiet /\ r \notin aborted /\ pc[r] \in {"writing", "awaiting"}
    /\ aborted' = aborted \cup {r}
    /\ AbortWaiter(r)
    /\ \/ /\ handle = owner[r]
          /\ handle' = None
          /\ proc' = [proc EXCEPT ![handle] = IF @ = "alive" THEN "killed" ELSE @]
       \/ handle # owner[r] /\ UNCHANGED <<handle, proc>>
    /\ UNCHANGED <<gateVars, spawned, closed, exited, chainVars, work>>

Continue(r) == Begin(r) \/ BreakChain(r) \/ WriteCatch(r) \/ Finish(r)

ManagerNext ==
    \/ \E r \in Request :
          \/ Call(r) \/ CallAborted(r) \/ AbortEarly(r) \/ AbortActive(r)
          \/ WriteOk(r) \/ WriteFail(r) \/ Continue(r)
          \/ \E w \in Worker : Respond(w, r)
    \/ \E w \in Worker : Die(w) \/ StdoutClosed(w) \/ Exited(w)

ManagerSpec == ManagerInit /\ [][ManagerNext]_managerVars

\* Continuations run, writes complete or fail, a killed process dies and its end is
\* observed.  Nothing obliges a live worker to answer.
Fairness ==
    /\ \A r \in Request : /\ WF_managerVars(Continue(r))
                          /\ SF_managerVars(WriteOk(r) \/ WriteFail(r))
    /\ \A w \in Worker : /\ SF_managerVars(proc[w] = "killed" /\ Die(w))
                         /\ SF_managerVars(StdoutClosed(w)) /\ SF_managerVars(Exited(w))

ManagerFairSpec == ManagerSpec /\ Fairness

-----------------------------------------------------------------------------
ManagerTypeOK ==
    /\ pc \in [Request -> States]
    /\ result \in [Request -> Results]
    /\ aborted \subseteq Request
    /\ gate \in Seq(Request)
    /\ inFlight \in Nat
    /\ handle \in Worker \cup {None}
    /\ spawned \in Nat
    /\ proc \in [Worker -> {"none", "alive", "killed", "dead"}]
    /\ closed \subseteq Worker
    /\ exited \subseteq Worker
    /\ pending \subseteq Request
    /\ owner \in [Request -> Worker \cup {None}]
    /\ after \in [Request -> Request \cup {NoRequest}]
    /\ tail \in Request \cup {NoRequest}
    /\ work \in [Worker -> SUBSET Request]

\* Every slot of the gate is held by exactly one call, none is lost when a call is
\* handed one, is aborted or fails, and a call waits only while all are taken
\* (acquire and release).
GateAccounted ==
    /\ ManagerTypeOK
    /\ inFlight = Cardinality(Holding) /\ inFlight <= Concurrency
    /\ gate # <<>> => inFlight = Concurrency
    /\ ToSet(gate) = {r \in Request : pc[r] = "gate"}
    /\ IsInjective(gate)
    /\ ToSet(gate) \cap aborted = {}

\* A call that waits for its response is registered, so that a line, the end of its
\* worker or its signal can still wake it; and whoever is registered still needs it.
AwaitedIsPending ==
    /\ \A r \in Request : pc[r] = "awaiting" => r \in pending
    /\ \A r \in pending : \/ pc[r] \in {"writing", "awaiting"} /\ result[r] = "none"
                          \/ pc[r] = "rejected"

\* The next call is never given a worker that was already killed by an abort, whose
\* exit has been observed, or that still works for a call that was aborted (abort
\* listener, exit handler, ensureWorker).
HandleUsable == handle # None => /\ handle <= spawned /\ handle \notin exited
                                 /\ proc[handle] # "killed"
                                 /\ work[handle] \cap aborted = {}

\* An aborted call ends, wherever the abort finds it.
AbortedEnds == \A r \in Request : r \in aborted /\ pc[r] # "idle" ~> pc[r] = "done"

\* No call waits forever for a worker that is gone: a call that captured it ends.
DeadWorkerNotAwaited ==
    \A r \in Request :
        (owner[r] # None /\ proc[owner[r]] = "dead") ~> pc[r] = "done"

\* docs/architecture.md:81: an active request is terminated by stopping its owned
\* worker: no live worker goes on with a request that was aborted after being sent.
AbortStopsWork ==
    \A w \in Worker : proc[w] = "alive" => work[w] \cap aborted = {}
=============================================================================
