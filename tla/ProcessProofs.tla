---------------------------- MODULE ProcessProofs ----------------------------
(***************************************************************************)
(* Proofs about the two owners of child processes.  The manager of the     *)
(* Python worker, for any number of calls and slots: the gate's slots are  *)
(* accounted for, a call that waits is registered, and the current worker  *)
(* can be used.  The supervisor of llama-server, for any number of         *)
(* processes and callers: it owns every process that was not told to end.  *)
(***************************************************************************)
EXTENDS WorkerManager, Supervisor, QueueLemmas

\* What GateAccounted says besides the types.  A call that was just handed a slot is not
\* aborted: its listener is gone from the gate and not yet on the response.
GateOK ==
    /\ inFlight = Cardinality(Holding) /\ inFlight <= Concurrency
    /\ gate # <<>> => inFlight = Concurrency
    /\ ToSet(gate) = {r \in Request : pc[r] = "gate"}
    /\ \A i, j \in DOMAIN gate : gate[i] = gate[j] => i = j
    /\ \A r \in Request : pc[r] \in {"gate", "granted"} => r \notin aborted

\* A call is registered until its promise has settled, and has a worker from its
\* registration on.
CallsOK ==
    /\ AwaitedIsPending
    /\ \A r \in Request :
          /\ pc[r] \in {"idle", "gate", "granted"} => owner[r] = None /\ result[r] = "none"
          /\ pc[r] \in {"writing", "awaiting", "settled", "rejected"} => owner[r] # None
          /\ pc[r] = "writing" /\ result[r] = "none" => r \in pending

Begun == {r \in Request : owner[r] # None}

\* A worker that was not spawned yet is nobody's; a spawned one works for the calls that
\* captured it, and is no longer the current one when one of them is aborted.
WorkersOK ==
    /\ spawned <= Cardinality(Begun)
    /\ handle <= spawned
    /\ \A r \in Request : owner[r] <= spawned
    /\ \A r \in aborted : owner[r] # None => handle # owner[r]
    /\ \A w \in Worker : \A r \in work[w] : owner[r] = w
    /\ \A w \in Worker : w > spawned => proc[w] = "none"
    /\ \A w \in exited : proc[w] = "dead"
    /\ handle # None => handle \notin exited /\ proc[handle] # "killed"

IInv == ManagerTypeOK /\ GateOK /\ CallsOK /\ WorkersOK

LEMMA InitIInv == ManagerInit => IInv
<1> SUFFICES ASSUME ManagerInit PROVE IInv
  OBVIOUS
<1> USE DEF ManagerInit
<1>1. ManagerTypeOK
  BY DEF ManagerTypeOK, States, Results
<1>2. GateOK
  <2>1. Holding = {} /\ Cardinality({}) = 0
    BY FS_EmptySet DEF Holding
  <2>2. ToSet(gate) = {}
    BY DEF ToSet
  <2>3. QED
    BY <2>1, <2>2, ConcurrencyAssumption DEF GateOK
<1>3. CallsOK
  BY DEF CallsOK, AwaitedIsPending
<1>4. WorkersOK
  <2>1. Begun = {} /\ Cardinality({}) = 0
    BY FS_EmptySet DEF Begun
  <2>2. QED
    BY <2>1 DEF WorkersOK, None
<1>5. QED
  BY <1>1, <1>2, <1>3, <1>4 DEF IInv

-----------------------------------------------------------------------------
(* The gate.                                                               *)

LEMMA HoldingFinite == IsFiniteSet(Holding) /\ Cardinality(Holding) \in Nat
<1>1. Holding \subseteq Request
  BY DEF Holding
<1>2. QED
  BY <1>1, RequestAssumption, FS_Subset, FS_CardinalityType

\* A step that neither hands out a slot nor gives one back, and moves nobody into the
\* gate or out of it.
LEMMA GateUntouched ==
    ASSUME GateOK, UNCHANGED gateVars, Holding' = Holding,
           \A r \in Request : pc'[r] = "gate" <=> pc[r] = "gate",
           \A r \in Request : pc'[r] \in {"gate", "granted"} => r \notin aborted'
    PROVE  GateOK'
<1>1. {r \in Request : pc'[r] = "gate"} = {r \in Request : pc[r] = "gate"}
  OBVIOUS
<1>2. QED
  BY <1>1 DEF GateOK, gateVars

LEMMA CallGate ==
    ASSUME ManagerTypeOK, GateOK, NEW r \in Request, Call(r)
    PROVE  GateOK' /\ pc' \in [Request -> States] /\ gate' \in Seq(Request) /\ inFlight' \in Nat
<1> USE DEF ManagerTypeOK
<1>1. r \notin aborted /\ aborted' = aborted /\ pc[r] = "idle" /\ r \notin Holding
  BY DEF Call, Holding
<1>2. CASE /\ inFlight < Concurrency /\ inFlight' = inFlight + 1
           /\ pc' = [pc EXCEPT ![r] = "granted"] /\ UNCHANGED gate
  <2>1. Holding' = Holding \cup {r}
    BY <1>2 DEF Holding
  <2>2. Cardinality(Holding') = Cardinality(Holding) + 1
    BY <1>1, <2>1, HoldingFinite, FS_AddElement
  <2>3. {q \in Request : pc'[q] = "gate"} = {q \in Request : pc[q] = "gate"}
    BY <1>1, <1>2
  <2>4. gate = <<>>
    BY <1>2, ConcurrencyAssumption DEF GateOK
  <2>5. QED
    BY <1>1, <1>2, <2>2, <2>3, <2>4, ConcurrencyAssumption DEF GateOK, States
<1>3. CASE /\ inFlight >= Concurrency /\ gate' = Append(gate, r)
           /\ pc' = [pc EXCEPT ![r] = "gate"] /\ UNCHANGED inFlight
  <2>1. Holding' = Holding
    BY <1>1, <1>3 DEF Holding
  <2>2. r \notin ToSet(gate)
    BY <1>1 DEF GateOK
  <2>3. /\ gate' \in Seq(Request) /\ ToSet(gate') = ToSet(gate) \cup {r}
        /\ \A i, j \in DOMAIN gate' : gate'[i] = gate'[j] => i = j
    BY <1>3, <2>2, AppendElements DEF GateOK
  <2>4. ToSet(gate') = {q \in Request : pc'[q] = "gate"}
    BY <1>3, <2>3 DEF GateOK
  <2>5. inFlight' = Concurrency
    BY <1>3, ConcurrencyAssumption DEF GateOK
  <2>6. QED
    BY <1>1, <1>3, <2>1, <2>3, <2>4, <2>5 DEF GateOK, States
<1>4. QED
  BY <1>2, <1>3 DEF Call

\* release(), of a call that holds a slot.
LEMMA ReleaseGate ==
    ASSUME ManagerTypeOK, GateOK, NEW r \in Request, pc[r] \in {"settled", "rejected"}, Release(r),
           UNCHANGED aborted
    PROVE  /\ GateOK' /\ pc' \in [Request -> States] /\ gate' \in Seq(Request) /\ inFlight' \in Nat
           /\ pc'[r] = "done"
           /\ \A q \in Request \ {r} : pc'[q] = pc[q] \/ (pc[q] = "gate" /\ pc'[q] = "granted")
<1> USE DEF ManagerTypeOK
<1>1. r \in Holding
  BY DEF Holding
<1>2. CASE gate # <<>>
  <2> DEFINE h == Head(gate)
  <2>1. /\ gate' = Tail(gate) /\ UNCHANGED inFlight
        /\ pc' = [pc EXCEPT ![r] = "done", ![h] = "granted"]
    BY <1>2 DEF Release
  <2>2. /\ gate' \in Seq(Request) /\ h \in ToSet(gate) /\ ToSet(gate') = ToSet(gate) \ {h}
        /\ \A i, j \in DOMAIN gate' : gate'[i] = gate'[j] => i = j
    BY <1>2, <2>1, TailElements DEF GateOK
  <2>3. h \in Request /\ pc[h] = "gate" /\ h # r
    BY <2>2 DEF GateOK
  <2> HIDE DEF h
  <2>4. /\ pc' \in [Request -> States] /\ pc'[r] = "done" /\ pc'[h] = "granted"
        /\ \A q \in Request \ {r, h} : pc'[q] = pc[q]
    BY <2>1, <2>3 DEF States
  <2>5. Holding' = (Holding \ {r}) \cup {h} /\ h \notin Holding
    BY <2>3, <2>4 DEF Holding
  <2>6. Cardinality(Holding') = Cardinality(Holding)
    <3>1. Cardinality(Holding \ {r}) = Cardinality(Holding) - 1 /\ IsFiniteSet(Holding \ {r})
      BY <1>1, HoldingFinite, FS_RemoveElement
    <3>2. Cardinality((Holding \ {r}) \cup {h}) = Cardinality(Holding \ {r}) + 1
      BY <2>5, <3>1, FS_AddElement
    <3>3. QED
      BY <2>5, <3>1, <3>2, HoldingFinite
  <2>7. ToSet(gate') = {q \in Request : pc'[q] = "gate"}
    BY <2>2, <2>3, <2>4 DEF GateOK
  <2>8. QED
    BY <1>2, <2>1, <2>2, <2>3, <2>4, <2>6, <2>7 DEF GateOK
<1>3. CASE gate = <<>>
  <2>1. inFlight' = inFlight - 1 /\ pc' = [pc EXCEPT ![r] = "done"] /\ UNCHANGED gate
    BY <1>3 DEF Release
  <2>2. Holding' = Holding \ {r}
    BY <2>1 DEF Holding
  <2>3. Cardinality(Holding') = Cardinality(Holding) - 1 /\ Cardinality(Holding') \in Nat
    BY <1>1, <2>2, HoldingFinite, FS_RemoveElement, FS_CardinalityType
  <2>4. {q \in Request : pc'[q] = "gate"} = {q \in Request : pc[q] = "gate"}
    BY <2>1
  <2>5. QED
    BY <1>3, <2>1, <2>3, <2>4, ConcurrencyAssumption DEF GateOK, States
<1>4. QED
  BY <1>2, <1>3

LEMMA AbortGate ==
    ASSUME ManagerTypeOK, GateOK, NEW r \in Request, AbortEarly(r)
    PROVE  GateOK' /\ pc' \in [Request -> States] /\ gate' \in Seq(Request)
<1> USE DEF ManagerTypeOK
<1>1. aborted' = aborted \cup {r} /\ UNCHANGED inFlight
  BY DEF AbortEarly
<1>2. CASE pc[r] = "idle" /\ UNCHANGED <<pc, result, gate>>
  <2>1. Holding' = Holding
    BY <1>2 DEF Holding
  <2>2. QED
    BY <1>1, <1>2, <2>1 DEF GateOK
<1>3. ASSUME NEW i \in DOMAIN gate, gate[i] = r, gate' = RemoveAt(gate, i), pc[r] = "gate",
             pc' = [pc EXCEPT ![r] = "done"]
      PROVE  GateOK' /\ pc' \in [Request -> States] /\ gate' \in Seq(Request)
  <2>1. Holding' = Holding
    BY <1>3 DEF Holding
  <2>2. /\ gate' \in Seq(Request) /\ ToSet(gate') = ToSet(gate) \ {r}
        /\ \A m, n \in DOMAIN gate' : gate'[m] = gate'[n] => m = n
    <3>1. gate \in Seq(Request) /\ \A m, n \in DOMAIN gate : gate[m] = gate[n] => m = n
      BY DEF GateOK
    <3>2. /\ RemoveAt(gate, i) \in Seq(Request) /\ ToSet(RemoveAt(gate, i)) = ToSet(gate) \ {gate[i]}
          /\ \A m, n \in DOMAIN RemoveAt(gate, i) :
                RemoveAt(gate, i)[m] = RemoveAt(gate, i)[n] => m = n
      BY <1>3, <3>1, RemoveAtType, RemoveAtElements
    <3>3. QED
      BY <1>3, <3>2
  <2>3. ToSet(gate') = {q \in Request : pc'[q] = "gate"}
    BY <1>3, <2>2 DEF GateOK
  <2>4. gate # <<>>
    BY <1>3
  <2>5. QED
    BY <1>1, <1>3, <2>1, <2>2, <2>3, <2>4 DEF GateOK, States
<1>4. ASSUME NEW i \in DOMAIN gate, gate[i] = r PROVE pc[r] = "gate"
  BY <1>4 DEF GateOK, ToSet
<1>5. QED
  BY <1>2, <1>3, <1>4 DEF AbortEarly

-----------------------------------------------------------------------------
(* The calls.                                                              *)

LEMMA CallStep ==
    ASSUME IInv, NEW r \in Request, Call(r)
    PROVE  IInv'
<1>1. GateOK' /\ ManagerTypeOK'
  BY CallGate DEF IInv, Call, ManagerTypeOK, workerVars, chainVars
<1>2. UNCHANGED <<result, aborted, workerVars, pending, chainVars, work>>
  BY DEF Call
<1>3. /\ \A q \in Request \ {r} : pc'[q] = pc[q]
      /\ pc[r] = "idle" /\ pc'[r] \in {"gate", "granted"}
  BY DEF Call, IInv, ManagerTypeOK
<1>4. CallsOK'
  BY <1>2, <1>3 DEF IInv, ManagerTypeOK, CallsOK, AwaitedIsPending, chainVars
<1>5. WorkersOK'
  BY <1>2 DEF IInv, ManagerTypeOK, WorkersOK, Begun, workerVars, chainVars
<1>6. QED
  BY <1>1, <1>4, <1>5 DEF IInv

LEMMA CallAbortedStep ==
    ASSUME IInv, NEW r \in Request, CallAborted(r)
    PROVE  IInv'
<1>1. /\ UNCHANGED <<aborted, gateVars, workerVars, pending, chainVars, work>>
      /\ pc[r] = "idle" /\ pc' = [pc EXCEPT ![r] = "done"]
      /\ result' = [result EXCEPT ![r] = "aborted"]
  BY DEF CallAborted
<1>2. ManagerTypeOK'
  BY <1>1 DEF IInv, ManagerTypeOK, gateVars, workerVars, chainVars, States, Results
<1>3. /\ pc'[r] = "done" /\ result'[r] = "aborted"
      /\ \A q \in Request \ {r} : pc'[q] = pc[q] /\ result'[q] = result[q]
  BY <1>1 DEF IInv, ManagerTypeOK
<1>4. GateOK'
  <2>1. Holding' = Holding /\ \A q \in Request : pc'[q] = "gate" <=> pc[q] = "gate"
    BY <1>1, <1>3 DEF Holding
  <2>2. \A q \in Request : pc'[q] \in {"gate", "granted"} => q \notin aborted'
    BY <1>1, <1>3 DEF IInv, GateOK
  <2>3. QED
    BY <1>1, <2>1, <2>2, GateUntouched DEF IInv
<1>5. CallsOK'
  BY <1>1, <1>3 DEF IInv, ManagerTypeOK, CallsOK, AwaitedIsPending, chainVars
<1>6. WorkersOK'
  BY <1>1 DEF IInv, ManagerTypeOK, WorkersOK, Begun, workerVars, chainVars
<1>7. QED
  BY <1>2, <1>4, <1>5, <1>6 DEF IInv

LEMMA AbortEarlyStep ==
    ASSUME IInv, NEW r \in Request, AbortEarly(r)
    PROVE  IInv'
<1>1. /\ UNCHANGED <<inFlight, workerVars, pending, chainVars, work>>
      /\ pc[r] \in {"idle", "gate"} /\ aborted' = aborted \cup {r}
  BY DEF AbortEarly
<1>2. /\ result' = result \/ result' = [result EXCEPT ![r] = "aborted"]
      /\ (pc' = pc /\ result' = result) \/ pc' = [pc EXCEPT ![r] = "done"]
  BY DEF AbortEarly
<1>3. GateOK' /\ ManagerTypeOK'
  BY <1>1, <1>2, AbortGate DEF IInv, ManagerTypeOK, workerVars, chainVars, Results
<1>4. /\ \A q \in Request \ {r} : pc'[q] = pc[q] /\ result'[q] = result[q]
      /\ (pc'[r] = pc[r] /\ result'[r] = result[r]) \/ pc'[r] = "done"
  BY <1>2 DEF IInv, ManagerTypeOK
<1>5. CallsOK'
  BY <1>1, <1>4 DEF IInv, ManagerTypeOK, CallsOK, AwaitedIsPending, chainVars
<1>6. owner[r] = None
  BY <1>1 DEF IInv, CallsOK
<1>7. WorkersOK'
  BY <1>1, <1>6 DEF IInv, ManagerTypeOK, WorkersOK, Begun, workerVars, chainVars
<1>8. QED
  BY <1>3, <1>5, <1>7 DEF IInv

\* The end of a call: its worker is forgotten if its write failed.
LEMMA EndStep ==
    ASSUME IInv, NEW r \in Request, WriteCatch(r) \/ Finish(r)
    PROVE  IInv'
<1>1. /\ pc[r] \in {"settled", "rejected"} /\ Release(r)
      /\ UNCHANGED <<result, aborted, spawned, proc, closed, exited, owner, after, work>>
      /\ handle' \in {handle, None} /\ tail' \in {tail, NoRequest}
      /\ pending' = pending \/ pending' = pending \ {r}
      /\ pc[r] = "rejected" => pending' = pending \ {r}
  BY DEF WriteCatch, Finish, workerVars, chainVars
<1>2. /\ GateOK' /\ pc' \in [Request -> States] /\ gate' \in Seq(Request) /\ inFlight' \in Nat
      /\ pc'[r] = "done"
      /\ \A q \in Request \ {r} : pc'[q] = pc[q] \/ (pc[q] = "gate" /\ pc'[q] = "granted")
  BY <1>1, ReleaseGate DEF IInv
<1>3. ManagerTypeOK'
  BY <1>1, <1>2 DEF IInv, ManagerTypeOK
<1>4. CallsOK'
  BY <1>1, <1>2 DEF IInv, ManagerTypeOK, CallsOK, AwaitedIsPending
<1>5. WorkersOK'
  BY <1>1 DEF IInv, ManagerTypeOK, WorkersOK, Begun, None
<1>6. QED
  BY <1>2, <1>3, <1>4, <1>5 DEF IInv

\* A new worker gets a number that no call has captured: every spawn belongs to a call.
LEMMA BeginWorkers ==
    ASSUME IInv, NEW r \in Request, Begin(r)
    PROVE  /\ owner' \in [Request -> Worker \cup {None}] /\ handle' \in Worker
           /\ spawned' \in Nat /\ proc' \in [Worker -> {"none", "alive", "killed", "dead"}]
           /\ owner'[r] = handle' /\ \A q \in Request \ {r} : owner'[q] = owner[q]
           /\ WorkersOK'
<1> USE DEF IInv, ManagerTypeOK
<1>1. /\ pc[r] = "granted" /\ owner[r] = None /\ r \notin aborted
      /\ UNCHANGED <<aborted, exited, work>>
  BY DEF Begin, CallsOK, GateOK, workerVars
<1>2. /\ IsFiniteSet(Begun) /\ Cardinality(Begun) \in Nat
      /\ Cardinality(Begun) + 1 <= Cardinality(Request) /\ Cardinality(Request) \in Nat
      /\ Cardinality(Begun \cup {r}) = Cardinality(Begun) + 1
  <2>1. Begun \cup {r} \subseteq Request /\ r \notin Begun
    BY <1>1 DEF Begun
  <2>2. IsFiniteSet(Begun) /\ IsFiniteSet(Request)
    BY <2>1, RequestAssumption, FS_Subset
  <2>3. Cardinality(Begun \cup {r}) = Cardinality(Begun) + 1
    BY <2>1, <2>2, FS_AddElement
  <2>4. Cardinality(Begun \cup {r}) <= Cardinality(Request)
    BY <2>1, <2>2, FS_Subset
  <2>5. QED
    BY <2>2, <2>3, <2>4, FS_CardinalityType
<1>3. CASE handle # None /\ owner' = [owner EXCEPT ![r] = handle] /\ UNCHANGED workerVars
  <2>1. Begun' = Begun \cup {r}
    BY <1>3 DEF Begun
  <2>2. \A w \in Worker : \A q \in work'[w] : owner'[q] = w
    <3>1. \A w \in Worker : r \notin work[w]
      BY <1>1 DEF WorkersOK, None, Worker
    <3>2. QED
      BY <1>1, <1>3, <3>1 DEF WorkersOK
  <2>3. \A q \in aborted' : owner'[q] # None => handle' # owner'[q]
    BY <1>1, <1>3 DEF WorkersOK, workerVars
  <2>4. \A q \in Request : owner'[q] <= spawned'
    BY <1>3 DEF WorkersOK, workerVars
  <2>5. QED
    BY <1>1, <1>2, <1>3, <2>1, <2>2, <2>3, <2>4 DEF WorkersOK, workerVars
<1>4. CASE /\ spawned' = spawned + 1 /\ handle' = spawned'
           /\ proc' = [proc EXCEPT ![spawned'] = "alive"]
           /\ owner' = [owner EXCEPT ![r] = spawned']
  <2>1. spawned' \in Worker /\ spawned' # None
    BY <1>2, <1>4 DEF WorkersOK, Worker, None
  <2>2. Begun' = Begun \cup {r}
    BY <1>4, <2>1 DEF Begun
  <2>3. spawned' <= Cardinality(Begun')
    BY <1>2, <1>4, <2>2 DEF WorkersOK
  <2>4. \A q \in Request \ {r} : owner'[q] = owner[q] /\ owner[q] \in Nat /\ owner[q] <= spawned
    BY <1>4 DEF WorkersOK, Worker, None
  <2>5. /\ \A q \in Request : owner'[q] <= spawned'
        /\ \A q \in aborted' : owner'[q] # None => handle' # owner'[q]
    BY <1>1, <1>4, <2>1, <2>4
  <2>6. \A w \in Worker : \A q \in work'[w] : owner'[q] = w
    <3>1. \A w \in Worker : r \notin work[w]
      BY <1>1 DEF WorkersOK, None, Worker
    <3>2. QED
      BY <1>1, <1>4, <3>1 DEF WorkersOK
  <2>7. /\ spawned' \notin exited /\ \A w \in exited' : proc'[w] = "dead"
        /\ \A w \in Worker : w > spawned' => proc'[w] = "none"
    <3>1. proc[spawned'] = "none"
      BY <1>4, <2>1 DEF WorkersOK
    <3>2. \A w \in Worker : w > spawned' => w > spawned /\ w # spawned'
      BY <1>4 DEF Worker
    <3>3. QED
      BY <1>1, <1>4, <3>1, <3>2 DEF WorkersOK
  <2>8. QED
    BY <1>1, <1>4, <2>1, <2>3, <2>5, <2>6, <2>7 DEF WorkersOK
<1>5. QED
  BY <1>3, <1>4 DEF Begin

LEMMA BeginStep ==
    ASSUME IInv, NEW r \in Request, Begin(r)
    PROVE  IInv'
<1>1. /\ pc[r] = "granted" /\ pc' = [pc EXCEPT ![r] = "writing"] /\ pending' = pending \cup {r}
      /\ after' = [after EXCEPT ![r] = tail] /\ tail' = r
      /\ UNCHANGED <<result, aborted, gateVars, closed, exited, work>>
  BY DEF Begin, workerVars
<1>2. ManagerTypeOK' /\ WorkersOK'
  BY <1>1, BeginWorkers DEF IInv, ManagerTypeOK, gateVars, States
<1>3. /\ pc'[r] = "writing" /\ \A q \in Request \ {r} : pc'[q] = pc[q]
  BY <1>1 DEF IInv, ManagerTypeOK
<1>4. GateOK'
  <2>1. Holding' = Holding /\ \A q \in Request : pc'[q] = "gate" <=> pc[q] = "gate"
    BY <1>1, <1>3 DEF Holding
  <2>2. \A q \in Request : pc'[q] \in {"gate", "granted"} => q \notin aborted'
    BY <1>1, <1>3 DEF IInv, GateOK
  <2>3. QED
    BY <1>1, <2>1, <2>2, GateUntouched DEF IInv
<1>5. CallsOK'
  <2>1. owner'[r] # None /\ \A q \in Request \ {r} : owner'[q] = owner[q]
    BY BeginWorkers DEF Worker, None
  <2>2. QED
    BY <1>1, <1>3, <2>1 DEF IInv, ManagerTypeOK, CallsOK, AwaitedIsPending
<1>6. QED
  BY <1>2, <1>4, <1>5 DEF IInv

\* A write that succeeds, fails, or is not tried.
LEMMA WriteStep ==
    ASSUME IInv, NEW r \in Request, WriteOk(r) \/ WriteFail(r) \/ BreakChain(r)
    PROVE  IInv'
<1>1. /\ pc[r] = "writing" /\ owner[r] \in Worker
      /\ UNCHANGED <<aborted, gateVars, workerVars, pending, chainVars>>
  BY DEF WriteOk, WriteFail, BreakChain, Turn, ChainBroken, IInv, CallsOK, ManagerTypeOK
<1>2. \/ /\ pc' = [pc EXCEPT ![r] = AfterWrite(r)] /\ UNCHANGED result
      \/ /\ pc' = [pc EXCEPT ![r] = "rejected"]
         /\ result' = [result EXCEPT ![r] = "writeFailed"]
  BY DEF WriteOk, WriteFail, BreakChain
<1>3. work' = work \/ work' = [work EXCEPT ![owner[r]] = @ \cup {r}]
  BY DEF WriteOk, WriteFail, BreakChain
<1>4. /\ \A q \in Request \ {r} : pc'[q] = pc[q] /\ result'[q] = result[q]
      /\ \/ pc'[r] = "awaiting" /\ result[r] = "none" /\ result'[r] = "none"
         \/ pc'[r] = "settled" /\ result[r] # "none"
         \/ pc'[r] = "rejected"
  BY <1>2 DEF IInv, ManagerTypeOK, AfterWrite
<1>5. ManagerTypeOK'
  BY <1>1, <1>2, <1>3 DEF IInv, ManagerTypeOK, AfterWrite, States, Results, gateVars, workerVars, chainVars
<1>6. GateOK'
  <2>1. Holding' = Holding /\ \A q \in Request : pc'[q] = "gate" <=> pc[q] = "gate"
    BY <1>1, <1>4 DEF Holding
  <2>2. \A q \in Request : pc'[q] \in {"gate", "granted"} => q \notin aborted'
    BY <1>1, <1>4 DEF IInv, GateOK
  <2>3. QED
    BY <1>1, <2>1, <2>2, GateUntouched DEF IInv
<1>7. CallsOK'
  BY <1>1, <1>4 DEF IInv, ManagerTypeOK, CallsOK, AwaitedIsPending, chainVars
<1>8. WorkersOK'
  <2>1. \A w \in Worker : \A q \in work'[w] : owner[q] = w
    BY <1>1, <1>3 DEF IInv, ManagerTypeOK, WorkersOK
  <2>2. QED
    BY <1>1, <2>1 DEF IInv, WorkersOK, Begun, workerVars, chainVars
<1>9. QED
  BY <1>5, <1>6, <1>7, <1>8 DEF IInv

-----------------------------------------------------------------------------
(* The response promises.                                                  *)

\* Settling promises leaves slots and owners as they are, whoever aborts a call meanwhile.
LEMMA Settles ==
    ASSUME IInv, NEW R \in SUBSET pending, NEW how \in Results \ {"none"}, SettleAs(R, how),
           UNCHANGED <<gateVars, chainVars>>,
           \A q \in aborted' : q \in aborted \/ pc[q] \in {"writing", "awaiting"}
    PROVE  /\ pc' \in [Request -> States] /\ result' \in [Request -> Results]
           /\ pending' \subseteq Request /\ GateOK' /\ CallsOK'
<1> USE DEF IInv, ManagerTypeOK
<1>1. \A q \in R : q \in Request /\ pc[q] \in {"writing", "awaiting", "rejected"}
  BY DEF CallsOK, AwaitedIsPending
<1>2. /\ pending' = pending \ R
      /\ \A q \in Request : result'[q] = IF q \in R THEN how ELSE result[q]
      /\ \A q \in Request : pc'[q] = IF q \in R /\ pc[q] = "awaiting" THEN "settled" ELSE pc[q]
  BY DEF SettleAs
<1>3. pc' \in [Request -> States] /\ result' \in [Request -> Results]
  BY DEF SettleAs, States
<1>4. GateOK'
  <2>1. Holding' = Holding /\ \A q \in Request : pc'[q] = "gate" <=> pc[q] = "gate"
    BY <1>2 DEF Holding
  <2>2. \A q \in Request : pc'[q] \in {"gate", "granted"} => q \notin aborted'
    BY <1>2 DEF GateOK
  <2>3. QED
    BY <2>1, <2>2, GateUntouched
<1>5. CallsOK'
  <2>1. AwaitedIsPending'
    BY <1>1, <1>2 DEF CallsOK, AwaitedIsPending
  <2>2. QED
    BY <1>1, <1>2, <2>1 DEF CallsOK, chainVars
<1>6. QED
  BY <1>2, <1>3, <1>4, <1>5

LEMMA RespondStep ==
    ASSUME IInv, NEW w \in Worker, NEW r \in Request, Respond(w, r)
    PROVE  IInv'
<1>1. /\ work' = [work EXCEPT ![w] = @ \ {r}] /\ SettleAs(pending \cap {r}, "ok")
      /\ UNCHANGED <<aborted, gateVars, workerVars, chainVars>>
  BY DEF Respond
<1>2. /\ pc' \in [Request -> States] /\ result' \in [Request -> Results]
      /\ pending' \subseteq Request /\ GateOK' /\ CallsOK'
  <2>1. "ok" \in Results \ {"none"}
    BY DEF Results
  <2>2. QED
    BY <1>1, <2>1, Settles
<1>3. ManagerTypeOK'
  BY <1>1, <1>2 DEF IInv, ManagerTypeOK, gateVars, workerVars, chainVars
<1>4. WorkersOK'
  <2>1. \A v \in Worker : \A q \in work'[v] : owner[q] = v
    BY <1>1 DEF IInv, ManagerTypeOK, WorkersOK
  <2>2. QED
    BY <1>1, <2>1 DEF IInv, WorkersOK, Begun, workerVars, chainVars
<1>5. QED
  BY <1>2, <1>3, <1>4 DEF IInv

\* The three events of a worker's end.
LEMMA EndOfWorker ==
    ASSUME IInv, NEW w \in Worker, Die(w) \/ StdoutClosed(w) \/ Exited(w)
    PROVE  IInv'
<1>1. UNCHANGED <<aborted, gateVars, spawned, chainVars, work>>
  BY DEF Die, StdoutClosed, Exited
<1>2. /\ pc' \in [Request -> States] /\ result' \in [Request -> Results]
      /\ pending' \subseteq Request /\ GateOK' /\ CallsOK'
  <2>1. CASE Die(w)
    <3>1. UNCHANGED <<pc, result, aborted, gateVars, pending, chainVars>>
      BY <2>1 DEF Die
    <3>2. Holding' = Holding
      BY <3>1 DEF Holding
    <3>3. GateOK'
      BY <3>1, <3>2 DEF IInv, GateOK, gateVars
    <3>4. CallsOK'
      BY <3>1 DEF IInv, CallsOK, AwaitedIsPending, chainVars
    <3>5. QED
      BY <3>1, <3>3, <3>4 DEF IInv, ManagerTypeOK
  <2>2. CASE SettleAs(pending, "workerDied")
    <3>1. "workerDied" \in Results \ {"none"}
      BY DEF Results
    <3>2. QED
      BY <1>1, <2>2, <3>1, Settles
  <2>3. QED
    BY <2>1, <2>2 DEF StdoutClosed, Exited, FailAllPending
<1>3. /\ handle' = handle \/ handle' = None
      /\ closed' \subseteq Worker /\ exited' \subseteq Worker
      /\ proc' \in [Worker -> {"none", "alive", "killed", "dead"}]
      /\ \A v \in Worker : proc'[v] = proc[v] \/ (proc[v] # "none" /\ proc'[v] = "dead")
      /\ \A v \in exited' : v \in exited \/ (v = w /\ proc'[w] = "dead" /\ handle' # w)
  <2>1. CASE Die(w)
    BY <2>1 DEF Die, IInv, ManagerTypeOK
  <2>2. CASE StdoutClosed(w)
    BY <2>2 DEF StdoutClosed, IInv, ManagerTypeOK
  <2>3. CASE Exited(w)
    <3>1. w # None
      BY DEF Worker, None
    <3>2. /\ proc[w] = "dead" /\ exited' = exited \cup {w} /\ UNCHANGED <<proc, closed>>
          /\ handle' = IF handle = w THEN None ELSE handle
      BY <2>3 DEF Exited, ForgetExited
    <3>3. QED
      BY <3>1, <3>2 DEF IInv, ManagerTypeOK
  <2>4. QED
    BY <2>1, <2>2, <2>3
<1>4. ManagerTypeOK'
  BY <1>1, <1>2, <1>3 DEF IInv, ManagerTypeOK, gateVars, chainVars
<1>5. WorkersOK'
  <2>1. /\ \A v \in Worker : v > spawned => proc'[v] = "none"
        /\ \A v \in exited' : proc'[v] = "dead"
        /\ handle' # None => handle' \notin exited' /\ proc'[handle'] # "killed"
    BY <1>3 DEF IInv, ManagerTypeOK, WorkersOK
  <2>2. QED
    BY <1>1, <1>3, <2>1 DEF IInv, ManagerTypeOK, WorkersOK, Begun, chainVars, None
<1>6. QED
  BY <1>2, <1>4, <1>5 DEF IInv

LEMMA AbortActiveStep ==
    ASSUME IInv, NEW r \in Request, AbortActive(r)
    PROVE  IInv'
<1>1. /\ pc[r] \in {"writing", "awaiting"} /\ aborted' = aborted \cup {r}
      /\ SettleAs(pending \cap {r}, "aborted")
      /\ UNCHANGED <<gateVars, spawned, closed, exited, chainVars, work>>
  BY DEF AbortActive, AbortWaiter
<1>2. /\ pc' \in [Request -> States] /\ result' \in [Request -> Results]
      /\ pending' \subseteq Request /\ GateOK' /\ CallsOK'
  <2>1. "aborted" \in Results \ {"none"}
    BY DEF Results
  <2>2. QED
    BY <1>1, <2>1, Settles
<1>3. /\ (handle' = handle /\ handle # owner[r]) \/ handle' = None
      /\ proc' \in [Worker -> {"none", "alive", "killed", "dead"}]
      /\ \A v \in Worker : proc'[v] = proc[v] \/ (proc[v] = "alive" /\ handle' = None)
  BY DEF AbortActive, IInv, ManagerTypeOK
<1>4. ManagerTypeOK'
  BY <1>1, <1>2, <1>3 DEF IInv, ManagerTypeOK, gateVars, chainVars
<1>5. WorkersOK'
  <2>1. /\ \A v \in Worker : v > spawned => proc'[v] = "none"
        /\ \A v \in exited : proc'[v] = "dead"
        /\ handle' # None => handle' \notin exited /\ proc'[handle'] # "killed"
    BY <1>3 DEF IInv, ManagerTypeOK, WorkersOK
  <2>2. \A q \in aborted' : owner[q] # None => handle' # owner[q]
    BY <1>1, <1>3 DEF IInv, WorkersOK
  <2>3. QED
    BY <1>1, <1>3, <2>1, <2>2 DEF IInv, ManagerTypeOK, WorkersOK, Begun, chainVars, None
<1>6. QED
  BY <1>2, <1>4, <1>5 DEF IInv

-----------------------------------------------------------------------------
LEMMA NextIInv == IInv /\ [ManagerNext]_managerVars => IInv'
<1> SUFFICES ASSUME IInv, [ManagerNext]_managerVars PROVE IInv'
  OBVIOUS
<1>1. ASSUME NEW r \in Request,
             \/ Call(r) \/ CallAborted(r) \/ AbortEarly(r) \/ AbortActive(r)
             \/ WriteOk(r) \/ WriteFail(r) \/ Continue(r)
      PROVE  IInv'
  BY <1>1, CallStep, CallAbortedStep, AbortEarlyStep, AbortActiveStep, WriteStep, BeginStep,
     EndStep DEF Continue
<1>2. ASSUME NEW r \in Request, NEW w \in Worker, Respond(w, r) PROVE IInv'
  BY <1>2, RespondStep
<1>3. ASSUME NEW w \in Worker, Die(w) \/ StdoutClosed(w) \/ Exited(w) PROVE IInv'
  BY <1>3, EndOfWorker
<1>4. CASE UNCHANGED managerVars
  <2>1. Holding' = Holding /\ Begun' = Begun
    BY <1>4 DEF managerVars, gateVars, chainVars, Holding, Begun
  <2>2. ManagerTypeOK' /\ GateOK'
    BY <1>4, <2>1 DEF IInv, ManagerTypeOK, GateOK, managerVars, gateVars, workerVars, chainVars
  <2>3. CallsOK' /\ WorkersOK'
    BY <1>4, <2>1 DEF IInv, CallsOK, AwaitedIsPending, WorkersOK, managerVars, gateVars, workerVars, chainVars
  <2>4. QED
    BY <2>2, <2>3 DEF IInv
<1>5. QED
  BY <1>1, <1>2, <1>3, <1>4 DEF ManagerNext

\* Every slot of the gate is held by exactly one call, and nobody waits while one is free.
THEOREM GateCorrect == ManagerSpec => []GateAccounted
<1>1. IInv => GateAccounted
  <2> SUFFICES ASSUME IInv PROVE GateAccounted
    OBVIOUS
  <2>1. IsInjective(gate)
    BY DEF IInv, GateOK, IsInjective
  <2>2. ToSet(gate) \cap aborted = {}
    BY DEF IInv, GateOK
  <2>3. QED
    BY <2>1, <2>2 DEF IInv, GateOK, GateAccounted
<1>2. QED
  BY InitIInv, NextIInv, <1>1, PTL DEF ManagerSpec

\* A call that waits for its response is registered, and whoever is registered needs it.
THEOREM AwaitedCorrect == ManagerSpec => []AwaitedIsPending
<1>1. IInv => AwaitedIsPending
  BY DEF IInv, CallsOK
<1>2. QED
  BY InitIInv, NextIInv, <1>1, PTL DEF ManagerSpec

\* The next call is never given a worker that was killed, has exited, or works for a call
\* that was aborted.
THEOREM HandleCorrect == ManagerSpec => []HandleUsable
<1>1. IInv => HandleUsable
  BY DEF IInv, ManagerTypeOK, WorkersOK, HandleUsable, Worker, None
<1>2. QED
  BY InitIInv, NextIInv, <1>1, PTL DEF ManagerSpec

-----------------------------------------------------------------------------
(* The supervisor of llama-server.                                         *)

\* Owned is inductive once every variable has its type and the count its cap.
SupervisorInv == SupervisorTypeOK /\ Owned

LEMMA InitSupervisorInv == SupervisorInit => SupervisorInv
<1> SUFFICES ASSUME SupervisorInit PROVE SupervisorInv
  OBVIOUS
<1>1. SupervisorTypeOK
  <2>1. restartCount \in 0..MaxRestarts
    BY RestartsAssumption DEF SupervisorInit
  <2>2. wait \in [Caller -> Waits] /\ process \in [Proc -> {"free", "alive", "killed", "gone"}]
    BY DEF SupervisorInit, Waits
  <2>3. QED
    BY <2>1, <2>2 DEF SupervisorInit, SupervisorTypeOK
<1>2. Owned
  BY RestartsAssumption DEF SupervisorInit, Owned
<1>3. QED
  BY <1>1, <1>2 DEF SupervisorInv

\* start() either changes nothing or takes a free process as the child.
LEMMA StartStep ==
    ASSUME SupervisorInv, Start
    PROVE  /\ child' \in Proc \cup {NoProc} /\ restartTimer' \in BOOLEAN
           /\ restartCount' = restartCount /\ stopping' \in BOOLEAN
           /\ process' \in [Proc -> {"free", "alive", "killed", "gone"}]
           /\ Owned'
<1>1. CASE child # NoProc \/ restartTimer
  BY <1>1 DEF Start, supervisor, SupervisorInv, SupervisorTypeOK, Owned
<1>2. CASE ~(child # NoProc \/ restartTimer)
  BY <1>2, ProcAssumption DEF Start, SpawnChild, SupervisorInv, SupervisorTypeOK, Owned
<1>3. QED
  BY <1>1, <1>2

\* The steps of a waiting caller touch the supervisor at most by resetting the count.
LEMMA CallerStep ==
    ASSUME SupervisorInv, NEW c \in Caller,
           Loop(c) \/ Answer(c) \/ Ready(c) \/ Sleep(c) \/ Wake(c) \/ AbortCaller(c)
    PROVE  SupervisorInv'
<1> USE DEF SupervisorInv, SupervisorTypeOK, Move, Waits
<1>1. UNCHANGED <<child, restartTimer, stopping, process>>
  BY DEF Loop, Answer, Ready, Sleep, Wake, AbortCaller, supervisor
<1>2. restartCount' \in {restartCount, 0}
  BY DEF Loop, Answer, Ready, Sleep, Wake, AbortCaller, supervisor
<1>3. wait' \in [Caller -> Waits] /\ abortedCallers' \subseteq Caller
  <2>1. CASE AbortCaller(c)
    BY <2>1 DEF AbortCaller
  <2>2. CASE Loop(c) \/ Answer(c) \/ Ready(c) \/ Sleep(c) \/ Wake(c)
    BY <2>2 DEF Loop, Answer, Ready, Sleep, Wake
  <2>3. QED
    BY <2>1, <2>2
<1>4. SupervisorTypeOK'
  BY <1>1, <1>2, <1>3, RestartsAssumption
<1>5. Owned'
  BY <1>1, <1>4, RestartsAssumption DEF Owned
<1>6. QED
  BY <1>4, <1>5

\* An exit event, a process that ends, stop() and the restart timer.
LEMMA ProcessStep ==
    ASSUME SupervisorInv,
           \/ Stop \/ Restart
           \/ \E p \in Proc : ProcessEnds(p) \/ HandleExit(p)
    PROVE  SupervisorInv'
<1> USE ProcAssumption, RestartsAssumption DEF SupervisorInv, SupervisorTypeOK, Owned
<1>1. CASE Stop
  BY <1>1 DEF Stop
<1>2. CASE Restart
  BY <1>2 DEF Restart, SpawnChild
<1>3. ASSUME NEW p \in Proc, ProcessEnds(p) PROVE SupervisorInv'
  BY <1>3 DEF ProcessEnds
<1>4. ASSUME NEW p \in Proc, HandleExit(p) PROVE SupervisorInv'
  <2>1. CASE child = p /\ (stopping \/ restartCount >= MaxRestarts)
    BY <1>4, <2>1 DEF HandleExit, AfterExit
  <2>2. CASE child = p /\ ~stopping /\ ~(restartCount >= MaxRestarts)
    <3>1. /\ child' = NoProc /\ restartTimer' = TRUE /\ stopping' = stopping
          /\ restartCount' = restartCount + 1
          /\ process' = [process EXCEPT ![p] = "free"] /\ wait' = wait /\ abortedCallers' = abortedCallers
      BY <1>4, <2>2 DEF HandleExit, AfterExit
    <3>2. restartCount' \in Nat /\ restartCount' <= MaxRestarts
      BY <3>1, <2>2
    <3>3. QED
      BY <3>1, <3>2, <2>2
  <2>3. CASE child # p
    BY <1>4, <2>3 DEF HandleExit
  <2>4. QED
    BY <2>1, <2>2, <2>3
<1>5. QED
  BY <1>1, <1>2, <1>3, <1>4

LEMMA NextSupervisorInv == SupervisorInv /\ [SupervisorNext]_supervisorVars => SupervisorInv'
<1> SUFFICES ASSUME SupervisorInv, [SupervisorNext]_supervisorVars PROVE SupervisorInv'
  OBVIOUS
<1>1. CASE StartLlm
  BY <1>1, StartStep DEF StartLlm, SupervisorInv, SupervisorTypeOK
<1>2. ASSUME NEW c \in Caller, EnsureReady(c) PROVE SupervisorInv'
  BY <1>2, StartStep DEF EnsureReady, SupervisorInv, SupervisorTypeOK, Waits
<1>3. CASE UNCHANGED supervisorVars
  BY <1>3 DEF supervisorVars, SupervisorInv, SupervisorTypeOK, Owned
<1>4. QED
  BY <1>1, <1>2, <1>3, CallerStep, ProcessStep DEF SupervisorNext

-----------------------------------------------------------------------------
\* Every variable keeps its type.
THEOREM TypeCorrect == SupervisorSpec => []SupervisorTypeOK
<1>1. SupervisorInv => SupervisorTypeOK
  BY DEF SupervisorInv
<1>2. QED
  BY InitSupervisorInv, NextSupervisorInv, <1>1, PTL DEF SupervisorSpec

\* The supervisor owns every process it did not tell to end, and never a process
\* and a pending restart together; while it is stopping it owns neither; restarts are capped.
THEOREM OwnedCorrect == SupervisorSpec => []Owned
<1>1. SupervisorInv => Owned
  BY DEF SupervisorInv
<1>2. QED
  BY InitSupervisorInv, NextSupervisorInv, <1>1, PTL DEF SupervisorSpec
=============================================================================
