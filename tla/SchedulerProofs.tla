--------------------------- MODULE SchedulerProofs ---------------------------
EXTENDS Scheduler, QueueLemmas, FiniteSetTheorems

-----------------------------------------------------------------------------
\* The inductive invariant: the parts the runs check, which need each other (a
\* run settles only if it is registered, a slot is released only if it was
\* counted), and that the running set is finite, so that it can be counted.
IInv ==
    /\ TypeOK
    /\ IsFiniteSet(running)
    /\ SlotsAccounted
    /\ NoTaskLost
    /\ WorkConserving
    /\ DeadlineCovers

LEMMA InitIInv == Init => IInv
<1> SUFFICES ASSUME Init PROVE IInv
  OBVIOUS
<1> USE DEF Init
<1>1. TypeOK
  BY DEF TypeOK, Reasons, Promises
<1>2. IsFiniteSet(running) /\ Cardinality(running) = 0
  BY FS_EmptySet
<1>3. SlotsAccounted
  <2>1. \A s \in Session : RunningOf(s) = {}
    BY DEF RunningOf
  <2>2. Cardinality({}) = 0
    BY FS_EmptySet
  <2>3. active = Cardinality(running) /\ active <= MaxActive
    BY <1>2, OptionsAssumption
  <2>4. ASSUME NEW s \in Session
        PROVE  /\ activeBySession[s] = Cardinality(RunningOf(s))
               /\ activeBySession[s] <= MaxPerSession
    <3>1. RunningOf(s) = {} /\ activeBySession[s] = 0 /\ 0 <= MaxPerSession
      BY <2>1, OptionsAssumption
    <3>2. QED
      BY <2>2, <3>1
  <2>5. QED
    BY <2>3, <2>4 DEF SlotsAccounted
<1>4. NoTaskLost /\ WorkConserving /\ DeadlineCovers
  BY OptionsAssumption DEF NoTaskLost, WorkConserving, DeadlineCovers, ToSet
<1>5. QED
  BY <1>1, <1>2, <1>3, <1>4 DEF IInv

\* Start(k) takes one slot of the key's session, within both caps.
LEMMA StartSlots ==
    ASSUME IInv, NEW k \in Key, k \notin running, CanStart(SessionOf[k]), Start(k)
    PROVE  /\ active' \in Nat /\ activeBySession' \in [Session -> Nat]
           /\ running' \subseteq Key /\ IsFiniteSet(running')
           /\ SlotsAccounted'
           /\ \A s \in Session : ~CanStart(s) => ~CanStart(s)'
<1> USE KeyAssumption, OptionsAssumption
<1> DEFINE s0 == SessionOf[k]
<1>1. s0 \in Session /\ running \subseteq Key /\ IsFiniteSet(running)
  BY DEF IInv, TypeOK
<1>2. IsFiniteSet(running') /\ Cardinality(running') = active + 1
  BY <1>1, FS_AddElement DEF IInv, SlotsAccounted, Start
<1>3. /\ active' = active + 1 /\ active \in Nat
      /\ activeBySession' = [activeBySession EXCEPT ![s0] = @ + 1]
      /\ activeBySession \in [Session -> Nat]
  BY DEF IInv, TypeOK, Start
<1>4. \A s \in Session : /\ activeBySession'[s] = Cardinality(RunningOf(s)')
                         /\ activeBySession'[s] <= MaxPerSession
  <2> SUFFICES ASSUME NEW s \in Session
               PROVE  /\ activeBySession'[s] = Cardinality(RunningOf(s)')
                      /\ activeBySession'[s] <= MaxPerSession
    OBVIOUS
  <2>1. /\ IsFiniteSet(RunningOf(s))
        /\ activeBySession[s] = Cardinality(RunningOf(s))
        /\ activeBySession[s] <= MaxPerSession
    BY <1>1, FS_Subset DEF RunningOf, IInv, SlotsAccounted
  <2>2. CASE s = s0
    <3>1. RunningOf(s)' = RunningOf(s) \cup {k} /\ k \notin RunningOf(s)
      BY <2>2 DEF RunningOf, Start
    <3>2. Cardinality(RunningOf(s) \cup {k}) = Cardinality(RunningOf(s)) + 1
      <4> HIDE DEF s0
      <4>1. IsFiniteSet(RunningOf(s)) /\ k \notin RunningOf(s)
        BY <2>1, <3>1
      <4>2. QED
        BY <4>1, FS_AddElement
    <3>3. QED
      BY <1>1, <1>3, <2>1, <2>2, <3>1, <3>2 DEF CanStart
  <2>3. CASE s # s0
    <3>1. RunningOf(s)' = RunningOf(s)
      BY <2>3 DEF RunningOf, Start
    <3>2. QED
      BY <1>3, <2>1, <2>3, <3>1
  <2>4. QED
    BY <2>2, <2>3
<1>5. \A s \in Session : ~CanStart(s) => ~CanStart(s)'
  BY <1>1, <1>3 DEF CanStart
<1>6. QED
  BY <1>1, <1>2, <1>3, <1>4, <1>5 DEF SlotsAccounted, CanStart, Start

\* What the other actions leave alone of the slots.
LEMMA SameSlots ==
    ASSUME IInv, UNCHANGED <<active, activeBySession, running>>
    PROVE  /\ active' \in Nat /\ activeBySession' \in [Session -> Nat]
           /\ running' \subseteq Key /\ IsFiniteSet(running')
           /\ SlotsAccounted'
           /\ \A s \in Session : ~CanStart(s) => ~CanStart(s)'
BY DEF IInv, TypeOK, SlotsAccounted, RunningOf, CanStart

\* A registered key is not registered twice.
LEMMA RegisterStep ==
    ASSUME IInv, NEW k \in Key, ScheduleStart(k) \/ ScheduleQueue(k)
    PROVE  IInv'
<1>1. /\ k \notin tasks /\ k \notin running /\ k \notin ToSet(queue)
      /\ SessionOf[k] \in Session /\ index = 0 /\ cancelling = {}
      /\ queue \in Seq(Key)
  BY KeyAssumption DEF IInv, NoTaskLost, TypeOK, ScheduleStart, ScheduleQueue, Idle
<1>2. CASE ScheduleStart(k)
  <2> USE <1>2 DEF ScheduleStart, Register
  <2>1. /\ active' \in Nat /\ activeBySession' \in [Session -> Nat]
        /\ running' \subseteq Key /\ IsFiniteSet(running')
        /\ SlotsAccounted'
        /\ \A s \in Session : ~CanStart(s) => ~CanStart(s)'
    BY <1>1, StartSlots
  <2>2. TypeOK'
    BY <2>1 DEF IInv, TypeOK, Reasons, Promises
  <2>3. NoTaskLost'
    BY <1>1 DEF IInv, NoTaskLost, TypeOK, Start
  <2>4. WorkConserving'
    <3>1. \A i \in DOMAIN queue : SessionOf[queue[i]] \in Session
      BY <1>1, KeyAssumption
    <3>2. QED
      BY <1>1, <2>1, <3>1 DEF IInv, WorkConserving
  <2>5. DeadlineCovers'
    BY <1>1 DEF IInv, DeadlineCovers, TypeOK, Start
  <2>6. QED
    BY <2>1, <2>2, <2>3, <2>4, <2>5 DEF IInv
<1>3. CASE ScheduleQueue(k)
  <2> USE <1>3 DEF ScheduleQueue, Register
  <2>1. /\ active' \in Nat /\ activeBySession' \in [Session -> Nat]
        /\ running' \subseteq Key /\ IsFiniteSet(running')
        /\ SlotsAccounted'
        /\ \A s \in Session : ~CanStart(s) => ~CanStart(s)'
    BY SameSlots
  <2>2. /\ queue' \in Seq(Key) /\ Len(queue') = Len(queue) + 1
        /\ \A i \in DOMAIN queue : queue'[i] = queue[i]
        /\ queue'[Len(queue) + 1] = k
        /\ DOMAIN queue' = DOMAIN queue \cup {Len(queue) + 1}
        /\ Len(queue) \in Nat /\ DOMAIN queue = 1..Len(queue)
    BY <1>1
  <2>3. ToSet(queue') = ToSet(queue) \cup {k}
    BY <2>2 DEF ToSet
  <2>4. TypeOK'
    BY <2>1, <2>2 DEF IInv, TypeOK, Reasons, Promises
  <2>5. NoTaskLost'
    <3>1. \A i \in DOMAIN queue : queue[i] # k
      BY <1>1 DEF ToSet
    <3>2. \A i, j \in DOMAIN queue' : queue'[i] = queue'[j] => i = j
      BY <2>2, <3>1 DEF IInv, NoTaskLost
    <3>3. QED
      BY <1>1, <2>3, <3>2 DEF IInv, NoTaskLost, TypeOK
  <2>6. WorkConserving'
    <3>1. \A i \in DOMAIN queue' : SessionOf[queue'[i]] \in Session
      BY <2>2, KeyAssumption
    <3>2. \A i \in DOMAIN queue' : ~CanStart(SessionOf[queue'[i]])
      BY <1>1, <2>2 DEF IInv, WorkConserving
    <3>3. (\A i \in DOMAIN queue : ~CanStart(SessionOf[queue[i]]))'
      BY <2>1, <3>1, <3>2
    <3>4. Len(queue') <= MaxQueued
      BY <2>2, OptionsAssumption
    <3>5. QED
      BY <1>1, <3>3, <3>4 DEF WorkConserving
  <2>7. DeadlineCovers'
    BY <1>1, <2>3 DEF IInv, DeadlineCovers, TypeOK
  <2>8. QED
    BY <2>1, <2>4, <2>5, <2>6, <2>7 DEF IInv
<1>4. QED
  BY <1>2, <1>3

\* abortTask() of a registered task, with or without its removal from the queue.
LEMMA AbortStep ==
    ASSUME IInv, NEW k \in tasks, NEW why \in {"timeout", "cancelled"},
           index = 0, Abort(k, why), cancelling' \subseteq Key
    PROVE  IInv'
<1>1. /\ active' \in Nat /\ activeBySession' \in [Session -> Nat]
      /\ running' \subseteq Key /\ IsFiniteSet(running')
      /\ SlotsAccounted'
      /\ \A s \in Session : ~CanStart(s) => ~CanStart(s)'
  BY SameSlots DEF Abort
<1>2. /\ k \in Key /\ queue \in Seq(Key) /\ tasks \subseteq Key
      /\ tasks = running \cup ToSet(queue) /\ running \cap ToSet(queue) = {}
      /\ running' = running
      /\ reason' \in [Key -> Reasons] /\ reason'[k] # "none"
      /\ \A j \in Key \ {k} : reason'[j] = reason[j]
  BY DEF IInv, TypeOK, NoTaskLost, Abort, Reasons, FirstReason
<1>3. CASE k \notin ToSet(queue)
  <2>1. /\ UNCHANGED <<tasks, queue, promise, index>>
        /\ timers' \subseteq timers /\ timers \ {k} \subseteq timers'
    BY <1>2, <1>3 DEF Abort, ToSet
  <2>2. TypeOK'
    BY <1>1, <1>2, <2>1 DEF IInv, TypeOK
  <2>3. NoTaskLost'
    BY <1>2, <2>1 DEF IInv, NoTaskLost
  <2>4. WorkConserving'
    <3>1. \A i \in DOMAIN queue : SessionOf[queue[i]] \in Session
      BY <1>2, KeyAssumption
    <3>2. QED
      BY <1>1, <2>1, <3>1 DEF IInv, WorkConserving
  <2>5. DeadlineCovers'
    BY <1>2, <1>3, <2>1 DEF IInv, DeadlineCovers
  <2>6. QED
    BY <1>1, <2>2, <2>3, <2>4, <2>5 DEF IInv
<1>4. CASE k \in ToSet(queue)
  <2>1. PICK i \in DOMAIN queue :
               /\ queue[i] = k /\ queue' = RemoveAt(queue, i)
               /\ tasks' = tasks \ {k} /\ timers' = timers \ {k}
               /\ promise' = [promise EXCEPT ![k] = why] /\ index' = 1
    BY <1>4 DEF Abort
  <2>2. /\ queue' \in Seq(Key) /\ Len(queue') = Len(queue) - 1
        /\ DOMAIN queue' = 1..Len(queue') /\ Len(queue') \in Nat
    BY <1>2, <2>1, RemoveAtType
  <2>3. /\ ToSet(queue') = ToSet(queue) \ {k}
        /\ \A m, n \in DOMAIN queue' : queue'[m] = queue'[n] => m = n
    BY <1>2, <2>1, RemoveAtElements DEF IInv, NoTaskLost
  <2>4. TypeOK'
    BY <1>1, <1>2, <2>1, <2>2 DEF IInv, TypeOK, Promises
  <2>5. NoTaskLost'
    BY <1>2, <1>4, <2>1, <2>3 DEF IInv, NoTaskLost, TypeOK
  <2>6. WorkConserving'
    BY <2>1, <2>2, <1>2, OptionsAssumption DEF IInv, WorkConserving
  <2>7. DeadlineCovers'
    BY <1>2, <1>4, <2>1, <2>3 DEF IInv, DeadlineCovers, TypeOK, NoTaskLost
  <2>8. QED
    BY <1>1, <2>4, <2>5, <2>6, <2>7 DEF IInv
<1>5. QED
  BY <1>3, <1>4

\* A settled run gives back the slot it took.
LEMMA SettleStep ==
    ASSUME IInv, NEW k \in Key, NEW how \in {"resolved", "failed"}, Settle(k, how)
    PROVE  IInv'
<1> USE KeyAssumption, OptionsAssumption DEF Settle
<1> DEFINE s0 == SessionOf[k]
<1>1. /\ s0 \in Session /\ running \subseteq Key /\ IsFiniteSet(running)
      /\ k \in running /\ running' = running \ {k}
      /\ active \in Nat /\ activeBySession \in [Session -> Nat]
      /\ reason \in [Key -> Reasons] /\ queue \in Seq(Key)
  BY DEF IInv, TypeOK
<1>2. /\ IsFiniteSet(running') /\ Cardinality(running') = active'
      /\ active' \in Nat /\ active' <= MaxActive
  <2>1. /\ IsFiniteSet(running') /\ Cardinality(running') = active - 1
        /\ active <= MaxActive
    BY <1>1, FS_RemoveElement DEF IInv, SlotsAccounted
  <2>2. Cardinality(running') \in Nat
    BY <2>1, FS_CardinalityType
  <2>3. QED
    BY <1>1, <2>1, <2>2
<1>3. ASSUME NEW s \in Session
      PROVE  /\ activeBySession'[s] = Cardinality(RunningOf(s)')
             /\ activeBySession'[s] <= MaxPerSession
             /\ activeBySession'[s] \in Nat
  <2>1. /\ IsFiniteSet(RunningOf(s))
        /\ activeBySession[s] = Cardinality(RunningOf(s))
        /\ activeBySession[s] <= MaxPerSession
    BY <1>1, FS_Subset DEF RunningOf, IInv, SlotsAccounted
  <2>2. CASE s = s0
    <3>1. RunningOf(s)' = RunningOf(s) \ {k} /\ k \in RunningOf(s)
      BY <1>1, <2>2 DEF RunningOf
    <3>2. /\ IsFiniteSet(RunningOf(s)')
          /\ Cardinality(RunningOf(s)') = activeBySession[s] - 1
      BY <2>1, <3>1, FS_RemoveElement
    <3>3. Cardinality(RunningOf(s)') \in Nat
      BY <3>2, FS_CardinalityType
    <3>4. QED
      BY <1>1, <2>1, <2>2, <3>2, <3>3
  <2>3. CASE s # s0
    <3>1. RunningOf(s)' = RunningOf(s)
      BY <1>1, <2>3 DEF RunningOf
    <3>2. QED
      BY <1>1, <2>1, <2>3, <3>1
  <2>4. QED
    BY <2>2, <2>3
<1>4. SlotsAccounted'
  BY <1>2, <1>3 DEF SlotsAccounted
<1>5. TypeOK'
  <2>1. activeBySession' \in [Session -> Nat]
    BY <1>1, <1>3
  <2>2. promise' \in [Key -> Promises]
    BY <1>1 DEF IInv, TypeOK, Promises, Reasons
  <2>3. QED
    BY <1>1, <1>2, <2>1, <2>2 DEF IInv, TypeOK
<1>6. NoTaskLost'
  <2>1. promise'[k] # "pending" /\ k \notin ToSet(queue)
    BY <1>1 DEF IInv, NoTaskLost, TypeOK, Reasons
  <2>2. QED
    BY <1>1, <2>1 DEF IInv, NoTaskLost, TypeOK
<1>7. WorkConserving'
  BY <1>1 DEF IInv, WorkConserving
<1>8. DeadlineCovers'
  BY <1>1 DEF IInv, DeadlineCovers, NoTaskLost
<1>9. QED
  BY <1>2, <1>4, <1>5, <1>6, <1>7, <1>8 DEF IInv

\* An iteration of drain() that starts the task at its loop variable.
LEMMA DrainStartStep ==
    ASSUME IInv, DrainStart
    PROVE  IInv'
<1> USE DEF DrainStart
<1> DEFINE k == queue[index]
<1>1. /\ queue \in Seq(Key) /\ index \in DOMAIN queue /\ k \in Key
      /\ k \in ToSet(queue) /\ k \in tasks /\ k \notin running
      /\ SessionOf[k] \in Session
  BY KeyAssumption DEF IInv, TypeOK, NoTaskLost, ToSet
<1>2. /\ active' \in Nat /\ activeBySession' \in [Session -> Nat]
      /\ running' \subseteq Key /\ IsFiniteSet(running')
      /\ SlotsAccounted'
      /\ \A s \in Session : ~CanStart(s) => ~CanStart(s)'
  BY <1>1, StartSlots
<1>3. /\ queue' \in Seq(Key) /\ Len(queue') = Len(queue) - 1
      /\ DOMAIN queue' = 1..(Len(queue) - 1)
      /\ \A j \in 1..(Len(queue) - 1) :
            queue'[j] = IF j < index THEN queue[j] ELSE queue[j + 1]
  BY <1>1, RemoveAtType
<1>4. /\ ToSet(queue') = ToSet(queue) \ {k}
      /\ \A m, n \in DOMAIN queue' : queue'[m] = queue'[n] => m = n
  BY <1>1, RemoveAtElements DEF IInv, NoTaskLost
<1>5. TypeOK'
  BY <1>2, <1>3 DEF IInv, TypeOK
<1>6. NoTaskLost'
  BY <1>1, <1>4 DEF IInv, NoTaskLost, Start
<1>7. WorkConserving'
  <2>1. ASSUME NEW i \in DOMAIN queue', i < index
        PROVE  (~CanStart(SessionOf[queue[i]]))'
    <3>1. i \in DOMAIN queue /\ queue'[i] = queue[i] /\ ~CanStart(SessionOf[queue[i]])
      BY <1>1, <1>3, <2>1 DEF IInv, WorkConserving
    <3>2. SessionOf[queue[i]] \in Session
      BY <1>1, <3>1, KeyAssumption
    <3>3. QED
      BY <1>2, <3>1, <3>2
  <2>2. index' = index /\ index # 0 /\ Len(queue') <= MaxQueued
    BY <1>1, <1>3, OptionsAssumption DEF IInv, WorkConserving
  <2>3. QED
    BY <2>1, <2>2 DEF WorkConserving
<1>8. DeadlineCovers'
  BY <1>1, <1>4 DEF IInv, DeadlineCovers, Start
<1>9. QED
  BY <1>2, <1>5, <1>6, <1>7, <1>8 DEF IInv

\* The actions that move no task: a refusal, the snapshot of cancelSession() and
\* the bookkeeping of drain().
LEMMA LoopStep ==
    ASSUME IInv,
           \/ \E k \in Key : ScheduleFull(k) \/ ScheduleDuplicate(k)
           \/ \E s \in Session : CancelSession(s)
           \/ DrainSkip \/ DrainDone
    PROVE  IInv'
<1>1. /\ UNCHANGED <<tasks, queue, timers, reason>>
      /\ UNCHANGED <<active, activeBySession, running>>
  BY DEF ScheduleFull, ScheduleDuplicate, CancelSession, DrainSkip, DrainDone, vars
<1>2. /\ active' \in Nat /\ activeBySession' \in [Session -> Nat]
      /\ running' \subseteq Key /\ IsFiniteSet(running')
      /\ SlotsAccounted'
  BY <1>1, SameSlots
<1>3. /\ promise' \in [Key -> Promises]
      /\ \A k \in Key : promise'[k] = "pending" <=> promise[k] = "pending"
  <2>1. CASE \E k \in Key : ScheduleFull(k)
    BY <2>1 DEF ScheduleFull, IInv, TypeOK, NoTaskLost, Promises
  <2>2. CASE UNCHANGED promise
    BY <2>2 DEF IInv, TypeOK
  <2>3. QED
    BY <2>1, <2>2 DEF ScheduleDuplicate, CancelSession, DrainSkip, DrainDone, vars
<1>4. /\ index' \in Nat /\ cancelling' \subseteq Key
  BY DEF ScheduleFull, ScheduleDuplicate, CancelSession, DrainSkip, DrainDone, vars,
         IInv, TypeOK
<1>5. TypeOK'
  BY <1>1, <1>2, <1>3, <1>4 DEF IInv, TypeOK
<1>6. NoTaskLost'
  BY <1>1, <1>3 DEF IInv, NoTaskLost
<1>7. WorkConserving'
  <2>1. \A i \in DOMAIN queue : CanStart(SessionOf[queue[i]])' <=>
                                CanStart(SessionOf[queue[i]])
    BY <1>1 DEF CanStart
  <2> USE <1>1, <2>1 DEF IInv, TypeOK, WorkConserving
  <2>2. CASE UNCHANGED index
    BY <2>2
  <2>3. CASE DrainSkip
    BY <2>3 DEF DrainSkip
  <2>4. CASE DrainDone
    <3>1. ASSUME NEW i \in DOMAIN queue PROVE ~CanStart(SessionOf[queue[i]])
      BY <2>4, OptionsAssumption DEF DrainDone, CanStart
    <3>2. QED
      BY <2>4, <3>1 DEF DrainDone
  <2>5. QED
    BY <2>2, <2>3, <2>4 DEF ScheduleFull, ScheduleDuplicate, CancelSession, vars
<1>8. DeadlineCovers'
  BY <1>1 DEF IInv, DeadlineCovers
<1>9. QED
  BY <1>2, <1>5, <1>6, <1>7, <1>8 DEF IInv

LEMMA NextIInv == IInv /\ [Next]_vars => IInv'
<1> SUFFICES ASSUME IInv, [Next]_vars PROVE IInv'
  OBVIOUS
<1>1. ASSUME NEW k \in Key, ScheduleStart(k) \/ ScheduleQueue(k) PROVE IInv'
  BY <1>1, RegisterStep
<1>2. ASSUME NEW k \in Key, ScheduleFull(k) \/ ScheduleDuplicate(k) PROVE IInv'
  BY <1>2, LoopStep
<1>3. ASSUME NEW k \in Key, Cancel(k) PROVE IInv'
  BY <1>3, AbortStep DEF Cancel, Idle, IInv, TypeOK
<1>4. ASSUME NEW k \in Key, Timeout(k) PROVE IInv'
  <2>1. k \in tasks
    BY <1>4 DEF Timeout, IInv, DeadlineCovers
  <2>2. QED
    BY <1>4, <2>1, AbortStep DEF Timeout, Idle, IInv, TypeOK
<1>5. ASSUME NEW k \in Key, CancelNext(k) PROVE IInv'
  <2>1. CASE k \in tasks
    BY <1>5, <2>1, AbortStep DEF CancelNext, IInv, TypeOK
  <2>2. CASE k \notin tasks
    <3>1. UNCHANGED <<tasks, queue, active, activeBySession, timers, reason,
                      running, promise, index>> /\ cancelling' \subseteq Key
      BY <1>5, <2>2 DEF CancelNext, IInv, TypeOK
    <3>2. QED
      BY <3>1 DEF IInv, TypeOK, SlotsAccounted, NoTaskLost, WorkConserving,
                  DeadlineCovers, CanStart, RunningOf
  <2>3. QED
    BY <2>1, <2>2
<1>6. ASSUME NEW k \in Key, NEW how \in {"resolved", "failed"}, Settle(k, how)
      PROVE  IInv'
  BY <1>6, SettleStep
<1>7. ASSUME NEW s \in Session, CancelSession(s) PROVE IInv'
  BY <1>7, LoopStep
<1>8. CASE Drain
  BY <1>8, DrainStartStep, LoopStep DEF Drain
<1>9. CASE UNCHANGED vars
  BY <1>9 DEF vars, IInv, TypeOK, SlotsAccounted, NoTaskLost, WorkConserving,
              DeadlineCovers, CanStart, RunningOf
<1>10. QED
  BY <1>1, <1>2, <1>3, <1>4, <1>5, <1>6, <1>7, <1>8, <1>9 DEF Next

-----------------------------------------------------------------------------
\* The whole inductive invariant holds in every reachable state.
THEOREM Invariance == Spec => []IInv
BY InitIInv, NextIInv, PTL DEF Spec

\* Every variable keeps its type: in particular neither counter goes negative.
THEOREM TypeCorrect == Spec => []TypeOK
BY Invariance, PTL DEF IInv

\* The counters that admission is decided on are the number of runs in progress,
\* and stay within maxActive and maxPerSession.
THEOREM SlotsCorrect == Spec => []SlotsAccounted
BY Invariance, PTL DEF IInv

\* Every admitted command is in the queue or running, once, until its promise is
\* settled, and no longer.
THEOREM NoTaskLostCorrect == Spec => []NoTaskLost
BY Invariance, PTL DEF IInv

\* Between handlers no free slot could run a queued task; the queue is bounded.
THEOREM WorkConservingCorrect == Spec => []WorkConserving
BY Invariance, PTL DEF IInv

\* Every unsettled command has an armed deadline or was already told to abort.
THEOREM DeadlineCoversCorrect == Spec => []DeadlineCovers
BY Invariance, PTL DEF IInv

\* A command is started past a waiting one only if that one's session is at its
\* cap; a new command never overtakes an older one of its session.
THEOREM NoOvertakingCorrect == Spec => NoOvertaking
<1> DEFINE Passes(j, i) == /\ queue[i] \in ToSet(queue')
                           /\ ~\E h \in DOMAIN queue : queue[h] = j /\ h < i
           Fair == \A j \in running' \ running : \A i \in DOMAIN queue :
                      Passes(j, i) => ~CanStart(SessionOf[queue[i]])
<1>1. IInv /\ Next => Fair
  <2> SUFFICES ASSUME IInv, Next,
                      NEW j \in running' \ running, NEW i \in DOMAIN queue, Passes(j, i)
               PROVE  ~CanStart(SessionOf[queue[i]])
    OBVIOUS
  <2>1. CASE \E k \in Key : ScheduleStart(k)
    BY <2>1 DEF ScheduleStart, Idle, IInv, WorkConserving
  <2>2. CASE DrainStart
    <3>1. /\ queue \in Seq(Key) /\ index \in DOMAIN queue /\ j = queue[index]
          /\ queue' = RemoveAt(queue, index)
      BY <2>2 DEF DrainStart, Start, IInv, TypeOK
    <3>2. queue[index] \notin ToSet(queue')
      BY <3>1, RemoveAtElements DEF IInv, NoTaskLost
    <3>3. i < index
      BY <3>1, <3>2
    <3>4. QED
      BY <3>3 DEF IInv, WorkConserving
  <2>3. CASE running' \subseteq running
    BY <2>3
  <2>4. QED
    BY <2>1, <2>2, <2>3 DEF Next, ScheduleQueue, ScheduleFull, ScheduleDuplicate,
       Cancel, Timeout, CancelNext, Abort, Settle, CancelSession, Drain, DrainSkip,
       DrainDone, vars
<1>2. IInv /\ [Next]_vars => [Fair]_vars
  BY <1>1
<1>3. QED
  BY <1>2, Invariance, PTL DEF Spec, NoOvertaking

\* An aborted command reports what aborted it first; one that nothing aborted
\* reports its own failure.
THEOREM FirstReasonCorrect == Spec => FirstReasonReported
<1> DEFINE Reports == \A k \in tasks :
              /\ reason[k] # "none" => reason'[k] = reason[k]
              /\ (k \notin tasks' /\ promise'[k] # "resolved") =>
                    promise'[k] = (IF reason'[k] = "none" THEN "failed" ELSE reason'[k])
<1>1. ASSUME IInv, Next PROVE Reports
  <2>1. /\ reason \in [Key -> Reasons] /\ promise \in [Key -> Promises]
        /\ tasks \subseteq Key
    BY <1>1 DEF IInv, TypeOK
  <2>2. ASSUME NEW k \in Key, ScheduleStart(k) \/ ScheduleQueue(k) PROVE Reports
    BY <2>1, <2>2 DEF ScheduleStart, ScheduleQueue, Register
  <2>3. ASSUME NEW k \in tasks, NEW why \in {"timeout", "cancelled"}, Abort(k, why)
        PROVE  Reports
    <3>1. ASSUME k \in ToSet(queue) PROVE reason[k] = "none"
      BY <1>1, <3>1 DEF IInv, NoTaskLost, DeadlineCovers
    <3>2. QED
      BY <2>1, <2>3, <3>1 DEF Abort, FirstReason, ToSet
  <2>4. ASSUME NEW k \in Key, NEW how \in {"resolved", "failed"}, Settle(k, how)
        PROVE  Reports
    BY <2>1, <2>4 DEF Settle, Reasons
  <2>5. CASE UNCHANGED <<tasks, reason>>
    BY <2>5
  <2>6. QED
    BY <1>1, <2>1, <2>2, <2>3, <2>4, <2>5 DEF Next, ScheduleFull, ScheduleDuplicate,
       Cancel, Timeout, CancelNext, CancelSession, Drain, DrainStart, DrainSkip,
       DrainDone, vars, IInv, DeadlineCovers
<1>2. IInv /\ [Next]_vars => [Reports]_vars
  BY <1>1
<1>3. QED
  BY <1>2, Invariance, PTL DEF Spec, FirstReasonReported

-----------------------------------------------------------------------------
(* The refinement of AdmissionControl.                                     *)

\* The keys of session s.
Mine(s) == {k \in Key : SessionOf[k] = s}

\* A waiting key joins the end of its session's line.
LEMMA LineAppend ==
    ASSUME NEW k \in Key, queue \in Seq(Key), queue' = Append(queue, k)
    PROVE  Line' = [Line EXCEPT ![SessionOf[k]] = Append(@, k)]
<1>1. ASSUME NEW s \in Session
      PROVE  Line'[s] = IF s = SessionOf[k] THEN Append(Line[s], k) ELSE Line[s]
  <2>1. Line[s] = Only(queue, Mine(s)) /\ Line'[s] = Only(Append(queue, k), Mine(s))
    BY DEF Line, Mine
  <2>2. Only(Append(queue, k), Mine(s)) =
           IF k \in Mine(s) THEN Append(Only(queue, Mine(s)), k) ELSE Only(queue, Mine(s))
    BY OnlyAppend
  <2>3. k \in Mine(s) <=> s = SessionOf[k]
    BY DEF Mine
  <2> QED  BY <2>1, <2>2, <2>3
<1>2. Line = [s \in Session |-> Line[s]] /\ Line' = [s \in Session |-> Line'[s]]
  BY DEF Line
<1> QED  BY <1>1, <1>2

\* A key taken out of the queue leaves its session's line, from the front when no
\* key of its session was queued before it.
LEMMA LineTaken ==
    ASSUME NEW i \in DOMAIN queue, queue \in Seq(Key), queue' = RemoveAt(queue, i),
           NEW s0 \in Session, s0 = SessionOf[queue[i]]
    PROVE  \E n \in DOMAIN Line[s0] :
              /\ Line[s0][n] = queue[i]
              /\ Line' = [Line EXCEPT ![s0] = RemoveAt(@, n)]
              /\ (\A j \in 1 .. i - 1 : SessionOf[queue[j]] # s0) => n = 1
<1>1. /\ queue[i] \in Mine(s0) /\ \A s \in Session \ {s0} : queue[i] \notin Mine(s)
      /\ \A j \in 1 .. i - 1 : queue[j] \in Mine(s0) => SessionOf[queue[j]] = s0
  BY DEF Mine
<1>2. \A s \in Session : /\ Line[s] = Only(queue, Mine(s))
                         /\ Line'[s] = Only(RemoveAt(queue, i), Mine(s))
  BY DEF Line, Mine
<1>3. Line = [s \in Session |-> Line[s]] /\ Line' = [s \in Session |-> Line'[s]]
  BY DEF Line
<1>4. \A s \in Session \ {s0} : Line'[s] = Line[s]
  BY <1>1, <1>2, OnlyRemoveAt
<1>5. PICK n \in DOMAIN Line[s0] :
              /\ Line[s0][n] = queue[i]
              /\ Line'[s0] = RemoveAt(Line[s0], n)
              /\ (\A j \in 1 .. i - 1 : queue[j] \notin Mine(s0)) => n = 1
  BY <1>1, <1>2, OnlyRemoveAt
<1>6. Line' = [Line EXCEPT ![s0] = RemoveAt(@, n)]
  BY <1>3, <1>4, <1>5
<1> QED  BY <1>1, <1>5, <1>6

\* What the abstract specification sees of a state.
LEMMA AbstractState ==
    ASSUME IInv
    PROVE  /\ Abstract!Waiting = ToSet(queue)
           /\ Cardinality(Abstract!Waiting) = Len(queue)
           /\ \A s \in Session : Abstract!HasRoom(s) <=> CanStart(s)
           /\ \A k \in Key : Abstract!Unknown(k) <=> k \notin tasks
<1>1. queue \in Seq(Key)
  BY DEF IInv, TypeOK
<1>2. Abstract!Waiting = ToSet(queue)
  <2>1. Abstract!Waiting = UNION {ToSet(Line[s]) : s \in Session}
    BY DEF Abstract!Waiting, ToSet
  <2>2. ASSUME NEW s \in Session PROVE ToSet(Line[s]) = ToSet(queue) \cap Mine(s)
    <3>1. Line[s] = Only(queue, Mine(s))
      BY DEF Line, Mine
    <3> QED  BY <1>1, <3>1, OnlyElements
  <2>3. \A k \in ToSet(queue) : k \in Mine(SessionOf[k]) /\ SessionOf[k] \in Session
    BY <1>1, KeyAssumption DEF Mine, ToSet
  <2> QED  BY <2>1, <2>2, <2>3
<1>3. Cardinality(ToSet(queue)) = Len(queue)
  BY <1>1, ToSetCardinality DEF IInv, NoTaskLost
<1>4. ASSUME NEW s \in Session PROVE Abstract!HasRoom(s) <=> CanStart(s)
  <2>1. Abstract!BusyOf(s) = RunningOf(s)
    BY DEF Abstract!BusyOf, RunningOf
  <2>2. \A S : Abstract!Cardinality(S) = Cardinality(S)
    BY DEF Abstract!Cardinality, Cardinality
  <2> QED  BY <2>1, <2>2 DEF Abstract!HasRoom, CanStart, IInv, SlotsAccounted
<1>5. ASSUME NEW k \in Key PROVE Abstract!Unknown(k) <=> k \notin tasks
  BY <1>2 DEF Abstract!Unknown, IInv, NoTaskLost
<1> QED  BY <1>2, <1>3, <1>4, <1>5

\* A session none of whose keys wait has an empty line.
LEMMA LineEmpty ==
    ASSUME queue \in Seq(Key), NEW s \in Session,
           \A i \in DOMAIN queue : SessionOf[queue[i]] # s
    PROVE  Line[s] = <<>>
<1>1. \A i \in DOMAIN queue : queue[i] \notin Mine(s)
  BY DEF Mine
<1>2. Line[s] = Only(queue, Mine(s))
  BY DEF Line, Mine
<1> QED  BY <1>1, <1>2, OnlyNone

\* schedule() begins, waits or is refused.
LEMMA ScheduleRefines ==
    ASSUME IInv, NEW k \in Key
    PROVE  /\ ScheduleStart(k) => Abstract!Begin(k)
           /\ ScheduleQueue(k) => Abstract!Wait(k)
           /\ ScheduleFull(k) => Abstract!Refuse(k)
<1>1. /\ queue \in Seq(Key) /\ SessionOf[k] \in Session
  BY KeyAssumption DEF IInv, TypeOK
<1>2. k \notin tasks => Abstract!Unknown(k)
  BY AbstractState
<1>3. Abstract!HasRoom(SessionOf[k]) <=> CanStart(SessionOf[k])
  BY <1>1, AbstractState
<1>4. Cardinality(Abstract!Waiting) = Len(queue)
  BY AbstractState
<1>5. \A S : Abstract!Cardinality(S) = Cardinality(S)
  BY DEF Abstract!Cardinality, Cardinality
<1>6. ASSUME ScheduleStart(k) PROVE Abstract!Begin(k)
  <2>1. /\ k \notin tasks /\ CanStart(SessionOf[k]) /\ index = 0
        /\ queue' = queue /\ running' = running \cup {k}
        /\ promise' = [promise EXCEPT ![k] = "pending"]
    BY <1>6 DEF ScheduleStart, Register, Start, Idle
  <2>2. \A i \in DOMAIN queue : SessionOf[queue[i]] # SessionOf[k]
    BY <2>1 DEF IInv, WorkConserving
  <2>3. Line[SessionOf[k]] = <<>>
    BY <1>1, <2>2, LineEmpty
  <2>4. Line' = Line
    BY <2>1 DEF Line
  <2> QED  BY <1>2, <1>3, <2>1, <2>3, <2>4 DEF Abstract!Begin
<1>7. ASSUME ScheduleQueue(k) PROVE Abstract!Wait(k)
  <2>1. /\ k \notin tasks /\ ~CanStart(SessionOf[k]) /\ Len(queue) < MaxQueued
        /\ queue' = Append(queue, k) /\ running' = running
        /\ promise' = [promise EXCEPT ![k] = "pending"]
    BY <1>7 DEF ScheduleQueue, Register
  <2>2. Line' = [Line EXCEPT ![SessionOf[k]] = Append(@, k)]
    BY <1>1, <2>1, LineAppend
  <2> QED  BY <1>2, <1>3, <1>4, <1>5, <2>1, <2>2 DEF Abstract!Wait
<1>8. ASSUME ScheduleFull(k) PROVE Abstract!Refuse(k)
  <2>1. /\ k \notin tasks /\ ~CanStart(SessionOf[k]) /\ Len(queue) >= MaxQueued
        /\ queue' = queue /\ running' = running
        /\ promise' = [promise EXCEPT ![k] = "overloaded"]
    BY <1>8 DEF ScheduleFull
  <2>2. Len(queue) = MaxQueued
    BY <1>1, <2>1, OptionsAssumption DEF IInv, WorkConserving
  <2>3. Line' = Line
    BY <2>1 DEF Line
  <2> QED  BY <1>2, <1>3, <1>4, <1>5, <2>1, <2>2, <2>3 DEF Abstract!Refuse
<1> QED  BY <1>6, <1>7, <1>8

\* abortTask() gives a waiting command up, and changes nothing the callers see of a
\* running one.
LEMMA AbortRefines ==
    ASSUME IInv, NEW k \in Key, NEW why \in {"timeout", "cancelled"}, Abort(k, why)
    PROVE  Abstract!Next \/ UNCHANGED <<Line, running, promise>>
<1>1. /\ queue \in Seq(Key) /\ SessionOf[k] \in Session /\ running' = running
  BY KeyAssumption DEF IInv, TypeOK, Abort
<1>2. CASE UNCHANGED <<queue, promise>>
  BY <1>1, <1>2 DEF Line
<1>3. CASE \E i \in DOMAIN queue :
              /\ queue[i] = k
              /\ queue' = RemoveAt(queue, i)
              /\ promise' = [promise EXCEPT ![k] = why]
  <2>1. PICK i \in DOMAIN queue :
               /\ queue[i] = k
               /\ queue' = RemoveAt(queue, i)
               /\ promise' = [promise EXCEPT ![k] = why]
    BY <1>3
  <2> DEFINE s == SessionOf[k]
  <2>2. PICK n \in DOMAIN Line[s] :
               /\ Line[s][n] = queue[i]
               /\ Line' = [Line EXCEPT ![s] = RemoveAt(@, n)]
    BY <1>1, <2>1, LineTaken
  <2>3. Abstract!GiveUp(s, n, why)
    BY <1>1, <2>1, <2>2 DEF Abstract!GiveUp, RemoveAt
  <2> QED  BY <1>1, <2>3 DEF Abstract!Next
<1> QED  BY <1>2, <1>3 DEF Abort

\* An iteration of drain() that starts a task proceeds with its session's line.
LEMMA DrainRefines ==
    ASSUME IInv, DrainStart
    PROVE  Abstract!Next
<1> DEFINE k == queue[index]
           s == SessionOf[k]
<1>1. /\ queue \in Seq(Key) /\ index \in DOMAIN queue /\ k \in Key /\ s \in Session
      /\ CanStart(s) /\ queue' = RemoveAt(queue, index)
      /\ running' = running \cup {k} /\ promise' = promise
  BY KeyAssumption DEF IInv, TypeOK, DrainStart, Start
<1>2. \A j \in 1 .. index - 1 : SessionOf[queue[j]] # s
  <2>1. \A j \in 1 .. index - 1 : j \in DOMAIN queue /\ j < index
    BY <1>1
  <2> QED  BY <1>1, <2>1 DEF IInv, WorkConserving
<1>3. PICK n \in DOMAIN Line[s] :
             /\ Line[s][n] = k
             /\ Line' = [Line EXCEPT ![s] = RemoveAt(@, n)]
             /\ n = 1
  BY <1>1, <1>2, LineTaken
<1>4. Line[s] \in Seq(Key)
  <2>1. Line[s] = Only(queue, Mine(s)) /\ Only(queue, Mine(s)) \in Seq(Key \cap Mine(s))
    BY <1>1, OnlyType DEF Line, Mine
  <2> QED  BY <2>1
<1>5. Line[s] # <<>> /\ Head(Line[s]) = k /\ RemoveAt(Line[s], 1) = Tail(Line[s])
  BY <1>3, <1>4, TakeFirst DEF RemoveAt
<1>6. Line' = [Line EXCEPT ![s] = Tail(@)]
  BY <1>3, <1>5
<1>7. Abstract!Proceed(s)
  <2>1. Abstract!HasRoom(s)
    BY <1>1, AbstractState
  <2> QED  BY <1>1, <1>5, <1>6, <2>1 DEF Abstract!Proceed
<1> QED  BY <1>1, <1>7 DEF Abstract!Next

\* A run that settles finishes its command.
LEMMA SettleRefines ==
    ASSUME IInv, NEW k \in Key, NEW how \in {"resolved", "failed"}, Settle(k, how)
    PROVE  Abstract!Next
<1>1. /\ k \in running /\ running' = running \ {k} /\ queue' = queue
      /\ reason \in [Key -> Reasons]
  BY DEF Settle, IInv, TypeOK
<1>2. PICK out \in {"resolved", "failed", "timeout", "cancelled"} :
              promise' = [promise EXCEPT ![k] = out]
  BY <1>1 DEF Settle, Reasons
<1>3. Line' = Line
  BY <1>1 DEF Line
<1>4. Abstract!Finish(k, out)
  BY <1>1, <1>2, <1>3 DEF Abstract!Finish
<1> QED  BY <1>4 DEF Abstract!Next

\* Every step of the scheduler is a step of admission control, or none.
LEMMA StepRefines == IInv /\ [Next]_vars => [Abstract!Next]_(Abstract!vars)
<1> SUFFICES ASSUME IInv, [Next]_vars
             PROVE  Abstract!Next \/ UNCHANGED <<Line, running, promise>>
  BY DEF Abstract!vars
<1>1. ASSUME NEW k \in Key,
             \/ ScheduleStart(k) \/ ScheduleQueue(k)
             \/ ScheduleFull(k) \/ ScheduleDuplicate(k)
      PROVE  Abstract!Next \/ UNCHANGED <<Line, running, promise>>
  <2>1. CASE ScheduleDuplicate(k)
    BY <2>1 DEF ScheduleDuplicate, vars, Line
  <2> QED  BY <1>1, <2>1, ScheduleRefines DEF Abstract!Next
<1>2. ASSUME NEW k \in Key, Cancel(k) \/ Timeout(k) \/ CancelNext(k)
      PROVE  Abstract!Next \/ UNCHANGED <<Line, running, promise>>
  <2>1. (\E why \in {"timeout", "cancelled"} : Abort(k, why))
          \/ UNCHANGED <<queue, running, promise>>
    BY <1>2 DEF Cancel, Timeout, CancelNext
  <2> QED  BY <2>1, AbortRefines DEF Line
<1>3. ASSUME NEW k \in Key, NEW how \in {"resolved", "failed"}, Settle(k, how)
      PROVE  Abstract!Next
  BY <1>3, SettleRefines
<1>4. CASE DrainStart
  BY <1>4, DrainRefines
<1>5. CASE UNCHANGED <<queue, running, promise>>
  BY <1>5 DEF Line
<1> QED  BY <1>1, <1>2, <1>3, <1>4, <1>5 DEF Next, Drain, CancelSession, DrainSkip,
            DrainDone, vars

\* The scheduler keeps what AdmissionControl promises its callers: each session's
\* commands start in the order they came, both caps and the queue limit hold, a
\* command is refused only when the queue is full, and each call gets one answer.
THEOREM RefinementCorrect == Spec => ImplementsAdmissionControl
<1>1. Init => Abstract!Init
  <2> SUFFICES ASSUME Init PROVE Abstract!Init
    OBVIOUS
  <2>1. queue \in Seq(Key) /\ DOMAIN queue = {}
    BY DEF Init
  <2>2. \A s \in Session : Line[s] = <<>>
    BY <2>1, LineEmpty
  <2>3. Line = [s \in Session |-> <<>>]
    BY <2>2 DEF Line
  <2> QED  BY <2>3 DEF Init, Abstract!Init
<1> QED  BY <1>1, StepRefines, Invariance, PTL
         DEF Spec, ImplementsAdmissionControl, Abstract!Spec
=============================================================================
