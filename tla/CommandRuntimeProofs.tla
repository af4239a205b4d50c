------------------------ MODULE CommandRuntimeProofs ------------------------
(***************************************************************************)
(* Proofs about the life of a command, for any number of commands, any     *)
(* pool and any limits of the scheduler.                                   *)
(***************************************************************************)
EXTENDS CommandRuntime, QueueLemmas

Answers == {"none", "pending", "resolved", "cancelled", "timeout", "overloaded"}

Active == Stages \ {"none", "ended"}

Typed == TypeOK /\ answer \in [Command -> Answers]

Queued == ToSet(line[Session])

Distinct == \A i, j \in DOMAIN line[Session] : line[Session][i] = line[Session][j] => i = j

\* What the scheduler knows of a command, what the runtime knows of it, and what was
\* written for it go together.
Admitted(k) ==
    /\ k \in busy <=> stage[k] \in Active
    /\ k \in Queued => stage[k] = "none"
    /\ answer[k] = "none" => stage[k] = "none" /\ k \notin Queued
    /\ stage[k] # "ended" => answer[k] \in {"none", "pending"}
    /\ aborted[k] # "no" => stage[k] # "none"

\* What is written for `frames`, of which those of the kinds in `sized` may be over a limit.
Wrote(s, frames, sized) ==
    /\ s \in Seq(Frames) /\ Len(s) = Len(frames)
    /\ \A i \in 1 .. Len(frames) :
          s[i] = frames[i] \/ (frames[i] \in sized /\ s[i] = "toolarge")

\* What may be written for a command that is answered `how` after an abort for `why`.
Outcome(k, s, how, why) ==
    \/ /\ how = "resolved" /\ why = "no" /\ k \notin Echo
       /\ \/ Wrote(s, <<"fileop", "done", "menu">>, {"fileop"})
          \/ Wrote(s, <<"fileop", "fileop", "done", "menu">>, {"fileop"})
    \/ /\ how = "resolved" /\ why = "no" /\ k \in Echo
       /\ Wrote(s, <<"done", "menu">>, {"done"})
    \/ /\ how = "resolved" /\ why = "no"
       /\ Wrote(s, <<"error", "failure", "menu">>, {"error", "failure"})
    \/ Wrote(s, <<"error", "failure", "menu">>, {})
    \/ k \in Echo /\ Wrote(s, <<"done", "error", "failure", "menu">>, {"done"})

Reported(k) ==
    /\ stage[k] # "ended" => sent[k] = <<>>
    /\ stage[k] = "echoing" => k \in Echo
    /\ stage[k] = "ended" => Outcome(k, sent[k], answer[k], aborted[k])

\* Extractions are in flight only after the first segment was taken, and the end of the
\* last one begins synthesis.
Drained(k) ==
    /\ todo[k] = 0 => calls[k] = 0
    /\ stage[k] \in {"none", "counting"} => todo[k] = 0
    /\ stage[k] \in {"synthesizing", "recounting", "tool"} => calls[k] = 0 /\ todo[k] \in {0, Chunks}

Good(k) == Admitted(k) /\ Reported(k) /\ Drained(k)

IInv == Typed /\ Distinct /\ \A k \in Command : Good(k)

Same(k) ==
    /\ stage'[k] = stage[k] /\ answer'[k] = answer[k] /\ aborted'[k] = aborted[k]
    /\ sent'[k] = sent[k] /\ todo'[k] = todo[k] /\ calls'[k] = calls[k]
    /\ k \in busy' <=> k \in busy
    /\ k \in Queued' => k \in Queued

\* A step of one command leaves the others as they were.
LEMMA OtherCommands ==
    ASSUME IInv, Typed', Distinct', NEW k \in Command, Good(k)',
           \A m \in Command \ {k} : Same(m)
    PROVE  IInv'
<1>1. ASSUME NEW m \in Command, m # k PROVE Good(m)'
  <2>1. Same(m) /\ Good(m)
    BY <1>1 DEF IInv
  <2> QED  BY <2>1 DEF Same, Good, Admitted, Reported, Drained
<1> QED  BY <1>1 DEF IInv

LEMMA UnchangedCommands ==
    ASSUME IInv, UNCHANGED <<admission, aborted, stage, pool, sent>>,
           held' \subseteq Command, flushTimer' \in BOOLEAN
    PROVE  IInv'
<1>1. /\ stage' = stage /\ answer' = answer /\ aborted' = aborted /\ sent' = sent
      /\ input' = input /\ todo' = todo /\ calls' = calls /\ busy' = busy /\ line' = line
  BY DEF admission, pool
<1>2. Typed' /\ Distinct' /\ Queued' = Queued
  BY <1>1 DEF IInv, Typed, TypeOK, Distinct, Queued
<1> QED  BY <1>1, <1>2 DEF IInv, Good, Admitted, Reported, Drained

LEMMA InitIInv == Init => IInv
<1> SUFFICES ASSUME Init PROVE IInv
  OBVIOUS
<1> USE PoolAssumption
<1>1. /\ line = [s \in {Session} |-> <<>>] /\ busy = {} /\ answer = [k \in Command |-> "none"]
      /\ aborted = [k \in Command |-> "no"] /\ stage = [k \in Command |-> "none"]
      /\ input = [k \in Command |-> 1]
      /\ todo = [k \in Command |-> 0] /\ calls = [k \in Command |-> 0]
      /\ sent = [k \in Command |-> <<>>] /\ held = {} /\ flushTimer = FALSE
  BY DEF Init, Admission!Init
<1>2. line[Session] = <<>> /\ line \in [{Session} -> Seq(Command)]
  BY <1>1
<1>3. sent \in [Command -> Seq(Frames)]
  BY <1>1
<1>4. Typed
  <2>1. /\ aborted \in [Command -> {"no", "cancelled", "timeout"}]
        /\ stage \in [Command -> Stages] /\ answer \in [Command -> Answers]
    BY <1>1 DEF Stages, Answers
  <2>2. /\ todo \in [Command -> 0 .. Chunks] /\ calls \in [Command -> 0 .. Pool]
        /\ input \in [Command -> 1 .. Inputs]
    BY <1>1
  <2>3. busy \subseteq Command /\ held \subseteq Command /\ flushTimer \in BOOLEAN
    BY <1>1
  <2> QED  BY <1>2, <1>3, <2>1, <2>2, <2>3 DEF Typed, TypeOK
<1>5. Queued = {} /\ Distinct
  BY <1>2 DEF Queued, ToSet, Distinct
<1>6. ASSUME NEW k \in Command PROVE Good(k)
  <2>1. /\ stage[k] = "none" /\ answer[k] = "none" /\ aborted[k] = "no" /\ sent[k] = <<>>
        /\ todo[k] = 0 /\ calls[k] = 0 /\ k \notin busy /\ k \notin Queued
    BY <1>1, <1>5
  <2>2. Admitted(k) /\ Reported(k)
    BY <2>1 DEF Admitted, Reported, Active
  <2>3. Drained(k)
    BY <2>1 DEF Drained
  <2> QED  BY <2>2, <2>3 DEF Good
<1> QED  BY <1>4, <1>5, <1>6 DEF IInv

-----------------------------------------------------------------------------
(* The stream and the end of a command.                                    *)

LEMMA Statuses ==
    ASSUME Typed, NEW k \in Command, Status(k) \/ UNCHANGED statuses
    PROVE  held' \subseteq Command /\ flushTimer' \in BOOLEAN
BY DEF Typed, TypeOK, Status, statuses

LEMMA Emitted ==
    ASSUME Typed, NEW k \in Command, sent[k] = <<>>, NEW frames \in Seq(Frames), NEW sized,
           Emit(k, frames, sized)
    PROVE  /\ sent' \in [Command -> Seq(Frames)] /\ Wrote(sent'[k], frames, sized)
           /\ \A m \in Command \ {k} : sent'[m] = sent[m]
<1>1. PICK over \in SUBSET {i \in DOMAIN frames : frames[i] \in sized} :
         sent' = [sent EXCEPT ![k] =
                    @ \o [i \in DOMAIN frames |-> IF i \in over THEN "toolarge" ELSE frames[i]]]
  BY DEF Emit
<1> DEFINE w == [i \in 1 .. Len(frames) |-> IF i \in over THEN "toolarge" ELSE frames[i]]
<1>2. w \in Seq(Frames) /\ Len(w) = Len(frames)
  BY DEF Frames
<1>3. <<>> \o w = w
  <2>1. \A t \in Seq(Frames) : <<>> \o t = t
    OBVIOUS
  <2> HIDE DEF w
  <2> QED  BY <1>2, <2>1
<1>4. sent \in [Command -> Seq(Frames)]
  BY DEF Typed, TypeOK
<1>5. sent' = [sent EXCEPT ![k] = w]
  <2>1. w = [i \in DOMAIN frames |-> IF i \in over THEN "toolarge" ELSE frames[i]]
    OBVIOUS
  <2>2. sent' = [sent EXCEPT ![k] = sent[k] \o w]
    BY <1>1, <2>1, Zenon
  <2> QED  BY <1>3, <2>2, Zenon
<1>6. sent'[k] = w
  BY <1>4, <1>5
<1>7. \A i \in 1 .. Len(frames) : w[i] = frames[i] \/ (frames[i] \in sized /\ w[i] = "toolarge")
  BY <1>1
<1> QED  BY <1>2, <1>4, <1>5, <1>6, <1>7 DEF Wrote

LEMMA TupleConcat ==
    ASSUME NEW X, NEW a \in X, NEW b \in X, NEW c \in X, NEW d \in X
    PROVE  <<a>> \o <<b, c, d>> = <<a, b, c, d>>
<1>1. Len(<<a>> \o <<b, c, d>>) = 4
  OBVIOUS
<1>2. \A i \in 1 .. 4 : (<<a>> \o <<b, c, d>>)[i] = <<a, b, c, d>>[i]
  OBVIOUS
<1>3. <<a>> \o <<b, c, d>> \in Seq(X) /\ <<a, b, c, d>> \in Seq(X) /\ Len(<<a, b, c, d>>) = 4
  OBVIOUS
<1>4. \A s \in Seq(X), t \in Seq(X) :
         Len(s) = Len(t) /\ (\A i \in 1 .. Len(s) : s[i] = t[i]) => s = t
  BY SeqEqual
<1> QED  BY <1>1, <1>2, <1>3, <1>4, Zenon

LEMMA FrameSequences ==
    /\ <<"error", "failure", "menu">> \in Seq(Frames)
    /\ <<"done", "error", "failure", "menu">> \in Seq(Frames)
    /\ <<"fileop", "done", "menu">> \in Seq(Frames) /\ <<"done", "menu">> \in Seq(Frames)
    /\ <<"fileop", "fileop", "done", "menu">> \in Seq(Frames)
    /\ <<>> \o Failed = <<"error", "failure", "menu">>
    /\ <<"done">> \o Failed = <<"done", "error", "failure", "menu">>
<1>1. <<>> \o Failed = <<"error", "failure", "menu">>
  BY DEF Failed
<1>2. <<"done">> \o Failed = <<"done", "error", "failure", "menu">>
  <2>1. /\ "done" \in Frames /\ "error" \in Frames /\ "failure" \in Frames /\ "menu" \in Frames
    BY DEF Frames
  <2> QED  BY <2>1, TupleConcat DEF Failed
<1>3. /\ <<"error", "failure", "menu">> \in Seq(Frames)
      /\ <<"done", "error", "failure", "menu">> \in Seq(Frames)
      /\ <<"fileop", "done", "menu">> \in Seq(Frames) /\ <<"done", "menu">> \in Seq(Frames)
      /\ <<"fileop", "fileop", "done", "menu">> \in Seq(Frames)
  BY DEF Frames
<1> QED  BY <1>1, <1>2, <1>3

\* A failure without a result in front of it is not subject to the limit of a result.
LEMMA FailureWhole ==
    ASSUME NEW s, Wrote(s, <<"error", "failure", "menu">>, {"done"})
    PROVE  Wrote(s, <<"error", "failure", "menu">>, {})
<1>1. \A i \in 1 .. 3 : <<"error", "failure", "menu">>[i] # "done"
  OBVIOUS
<1>2. Len(<<"error", "failure", "menu">>) = 3
  OBVIOUS
<1> QED  BY <1>1, <1>2 DEF Wrote

\* A run that ends: its command is answered and has been reported.
LEMMA Ended ==
    ASSUME IInv, NEW k \in Command, NEW how \in {"resolved", "cancelled", "timeout"},
           NEW frames \in Seq(Frames), NEW sized, End(k, how, frames, sized),
           \A s : Wrote(s, frames, sized) => Outcome(k, s, how, aborted[k]),
           aborted' = aborted, todo' = todo, input' \in [Command -> 1 .. Inputs],
           calls' \in [Command -> 0 .. Pool], \A m \in Command \ {k} : calls'[m] = calls[m],
           todo[k] = 0 => calls'[k] = 0,
           Status(k) \/ UNCHANGED statuses
    PROVE  IInv'
<1>1. /\ k \in busy /\ busy' = busy \ {k} /\ answer' = [answer EXCEPT ![k] = how] /\ line' = line
      /\ stage' = [stage EXCEPT ![k] = "ended"] /\ Emit(k, frames, sized)
  BY DEF End, Admission!Finish
<1>2. Typed /\ Good(k) /\ Distinct
  BY DEF IInv
<1>3. sent[k] = <<>> /\ k \notin Queued
  BY <1>1, <1>2 DEF Good, Admitted, Reported, Active
<1>4. /\ sent' \in [Command -> Seq(Frames)] /\ Wrote(sent'[k], frames, sized)
      /\ \A m \in Command \ {k} : sent'[m] = sent[m]
  BY <1>1, <1>2, <1>3, Emitted
<1>5. Typed'
  <2>1. held' \subseteq Command /\ flushTimer' \in BOOLEAN
    BY <1>2, Statuses
  <2>2. stage' \in [Command -> Stages] /\ answer' \in [Command -> Answers]
    BY <1>1, <1>2 DEF Typed, TypeOK, Stages, Answers
  <2> QED  BY <1>1, <1>2, <1>4, <2>1, <2>2 DEF Typed, TypeOK
<1>6. Distinct' /\ Queued' = Queued
  BY <1>1, <1>2 DEF Distinct, Queued
<1>7. stage'[k] = "ended" /\ answer'[k] = how
  BY <1>1, <1>2 DEF Typed, TypeOK
<1>8. Good(k)'
  <2>1. Admitted(k)'
    BY <1>1, <1>3, <1>6, <1>7 DEF Admitted, Active
  <2>2. Outcome(k, sent'[k], answer'[k], aborted'[k])
    BY <1>4, <1>7
  <2>3. Reported(k)'
    BY <1>7, <2>2 DEF Reported, Outcome, Wrote
  <2>4. Drained(k)'
    BY <1>7 DEF Drained
  <2> QED  BY <2>1, <2>3, <2>4 DEF Good
<1>9. \A m \in Command \ {k} : Same(m)
  BY <1>1, <1>2, <1>4, <1>6 DEF Same, Typed, TypeOK
<1> QED  BY <1>5, <1>6, <1>8, <1>9, OtherCommands

\* A run that fails, with its calls or without.
LEMMA FailedRun ==
    ASSUME IInv, NEW k \in Command,
           Fail(k, <<>>) \/ (Fail(k, <<"done">>) /\ k \in Echo /\ aborted[k] # "no"),
           aborted' = aborted, todo' = todo, input' \in [Command -> 1 .. Inputs],
           calls' \in [Command -> 0 .. Pool], \A m \in Command \ {k} : calls'[m] = calls[m],
           todo[k] = 0 => calls'[k] = 0,
           Status(k) \/ UNCHANGED statuses
    PROVE  IInv'
<1> DEFINE failed == <<"error", "failure", "menu">>
           doneFailed == <<"done", "error", "failure", "menu">>
<1>1. aborted[k] \in {"no", "cancelled", "timeout"}
  BY DEF IInv, Typed, TypeOK
<1>2. <<>> \o Failed = failed /\ <<"done">> \o Failed = doneFailed
  BY FrameSequences
<1>3. failed \in Seq(Frames) /\ doneFailed \in Seq(Frames)
  BY FrameSequences
<1>4. CASE aborted[k] = "no" /\ End(k, "resolved", failed, {"error", "failure"})
  <2>1. \A s : Wrote(s, failed, {"error", "failure"}) => Outcome(k, s, "resolved", aborted[k])
    BY <1>4 DEF Outcome
  <2> QED  BY <1>3, <1>4, <2>1, Ended
<1>5. CASE aborted[k] # "no" /\ End(k, aborted[k], failed, {"done"})
  <2>1. \A s : Wrote(s, failed, {"done"}) => Outcome(k, s, aborted[k], aborted[k])
    BY FailureWhole DEF Outcome
  <2>2. aborted[k] \in {"resolved", "cancelled", "timeout"}
    BY <1>1, <1>5
  <2> QED  BY <1>3, <1>5, <2>1, <2>2, Ended
<1>6. CASE aborted[k] # "no" /\ End(k, aborted[k], doneFailed, {"done"}) /\ k \in Echo
  <2>1. \A s : Wrote(s, doneFailed, {"done"}) => Outcome(k, s, aborted[k], aborted[k])
    BY <1>6 DEF Outcome
  <2>2. aborted[k] \in {"resolved", "cancelled", "timeout"}
    BY <1>1, <1>6
  <2> QED  BY <1>3, <1>6, <2>1, <2>2, Ended
<1>7. ASSUME Fail(k, <<>>)
      PROVE  \/ aborted[k] = "no" /\ End(k, "resolved", failed, {"error", "failure"})
             \/ aborted[k] # "no" /\ End(k, aborted[k], failed, {"done"})
  BY <1>2, <1>7, Zenon DEF Fail
<1>8. ASSUME Fail(k, <<"done">>), aborted[k] # "no"
      PROVE  End(k, aborted[k], doneFailed, {"done"})
  BY <1>2, <1>8, Zenon DEF Fail
<1> HIDE DEF failed, doneFailed
<1> QED  BY <1>4, <1>5, <1>6, <1>7, <1>8, Zenon

\* A run that goes on.
LEMMA Advanced ==
    ASSUME IInv, NEW k \in Command, k \in busy, NEW to \in Active,
           stage' = [stage EXCEPT ![k] = to],
           UNCHANGED <<admission, sent>>,
           aborted' \in [Command -> {"no", "cancelled", "timeout"}],
           input' \in [Command -> 1 .. Inputs],
           todo' \in [Command -> 0 .. Chunks], calls' \in [Command -> 0 .. Pool],
           \A m \in Command \ {k} : /\ aborted'[m] = aborted[m]
                                    /\ todo'[m] = todo[m] /\ calls'[m] = calls[m],
           Status(k) \/ UNCHANGED statuses,
           to = "echoing" => k \in Echo,
           todo'[k] = 0 => calls'[k] = 0,
           to = "counting" => todo'[k] = 0,
           to \in {"synthesizing", "recounting", "tool"} => calls'[k] = 0 /\ todo'[k] \in {0, Chunks}
    PROVE  IInv'
<1>1. line' = line /\ busy' = busy /\ answer' = answer /\ sent' = sent
  BY DEF admission
<1>2. Typed /\ Good(k) /\ Distinct
  BY DEF IInv
<1>3. Typed'
  <2>1. held' \subseteq Command /\ flushTimer' \in BOOLEAN
    BY <1>2, Statuses
  <2>2. stage' \in [Command -> Stages]
    BY <1>2 DEF Typed, TypeOK, Active
  <2> QED  BY <1>1, <1>2, <2>1, <2>2 DEF Typed, TypeOK
<1>4. Distinct' /\ Queued' = Queued
  BY <1>1, <1>2 DEF Distinct, Queued
<1>5. stage'[k] = to /\ to # "none" /\ to # "ended"
  BY <1>2 DEF Typed, TypeOK, Active
<1>6. Good(k)'
  <2>1. stage[k] \in Active /\ stage[k] # "none" /\ stage[k] # "ended"
    BY <1>2 DEF Good, Admitted, Active
  <2>2. Admitted(k)'
    BY <1>1, <1>2, <1>4, <1>5, <2>1 DEF Good, Admitted
  <2>3. Reported(k)'
    BY <1>1, <1>2, <1>5, <2>1 DEF Good, Reported
  <2>4. Drained(k)'
    BY <1>5 DEF Drained
  <2> QED  BY <2>2, <2>3, <2>4 DEF Good
<1>7. \A m \in Command \ {k} : Same(m)
  BY <1>1, <1>2, <1>4 DEF Same, Typed, TypeOK
<1> QED  BY <1>3, <1>4, <1>6, <1>7, OtherCommands

-----------------------------------------------------------------------------
(* The beginning of a command.                                             *)

\* A run begins, of a command that waited or did not.
LEMMA Started ==
    ASSUME IInv, NEW k \in Command, stage[k] = "none", BeginRun(k),
           busy' = busy \cup {k}, answer' \in [Command -> Answers], answer'[k] = "pending",
           \A m \in Command \ {k} : answer'[m] = answer[m],
           line' \in [{Session} -> Seq(Command)], Distinct', Queued' = Queued \ {k},
           UNCHANGED <<aborted, pool, sent>>
    PROVE  IInv'
<1>1. /\ aborted' = aborted /\ sent' = sent
      /\ input' = input /\ todo' = todo /\ calls' = calls
  BY DEF pool
<1>2. Typed /\ Good(k)
  BY DEF IInv
<1>3. PICK to \in {"tool", "counting"} : stage' = [stage EXCEPT ![k] = to]
  BY DEF BeginRun
<1>4. Typed'
  <2>1. held' \subseteq Command /\ flushTimer' \in BOOLEAN
    BY <1>2, Statuses DEF BeginRun
  <2>2. stage' \in [Command -> Stages]
    BY <1>2, <1>3 DEF Typed, TypeOK, Stages
  <2>3. busy' \subseteq Command
    BY <1>2 DEF Typed, TypeOK
  <2> QED  BY <1>1, <1>2, <2>1, <2>2, <2>3 DEF Typed, TypeOK
<1>5. stage'[k] = to
  BY <1>2, <1>3 DEF Typed, TypeOK
<1>6. Good(k)'
  <2>1. to \in Active /\ to # "none" /\ to # "ended" /\ to # "echoing"
    BY <1>3 DEF Active, Stages
  <2>2. Admitted(k)'
    BY <1>5, <2>1 DEF Admitted
  <2>3. Reported(k)'
    BY <1>1, <1>2, <1>5, <2>1 DEF Good, Reported
  <2>4. Drained(k)'
    BY <1>1, <1>2, <1>3, <1>5 DEF Good, Drained
  <2> QED  BY <2>2, <2>3, <2>4 DEF Good
<1>7. \A m \in Command \ {k} : Same(m)
  BY <1>1, <1>2, <1>3 DEF Same, Typed, TypeOK
<1> QED  BY <1>4, <1>6, <1>7, OtherCommands

\* A command that never runs, because it was refused or given up.
LEMMA Rejected ==
    ASSUME IInv, NEW k \in Command, stage[k] = "none",
           NEW why \in {"cancelled", "timeout", "overloaded"},
           answer' = [answer EXCEPT ![k] = why], stage' = [stage EXCEPT ![k] = "ended"],
           Emit(k, Failed, {}), busy' = busy,
           line' \in [{Session} -> Seq(Command)], Distinct', Queued' = Queued \ {k},
           UNCHANGED <<aborted, pool, statuses>>
    PROVE  IInv'
<1>1. aborted' = aborted /\ input' = input /\ todo' = todo /\ calls' = calls
  BY DEF pool
<1>2. Typed /\ Good(k)
  BY DEF IInv
<1>3. Failed = <<"error", "failure", "menu">> /\ Failed \in Seq(Frames)
  BY FrameSequences DEF Failed
<1>4. /\ sent' \in [Command -> Seq(Frames)] /\ Wrote(sent'[k], Failed, {})
      /\ \A m \in Command \ {k} : sent'[m] = sent[m]
  <2>1. sent[k] = <<>>
    BY <1>2 DEF Good, Reported
  <2> QED  BY <1>2, <1>3, <2>1, Emitted
<1>5. Typed'
  <2>1. held' \subseteq Command /\ flushTimer' \in BOOLEAN
    BY <1>2, Statuses
  <2>2. stage' \in [Command -> Stages] /\ answer' \in [Command -> Answers]
    BY <1>2 DEF Typed, TypeOK, Stages, Answers
  <2> QED  BY <1>1, <1>2, <1>4, <2>1, <2>2 DEF Typed, TypeOK
<1>6. stage'[k] = "ended" /\ answer'[k] = why
  BY <1>2 DEF Typed, TypeOK
<1>7. Good(k)'
  <2>1. k \notin busy
    BY <1>2 DEF Good, Admitted, Active
  <2>2. Admitted(k)'
    BY <1>6, <2>1 DEF Admitted, Active
  <2>3. Reported(k)'
    BY <1>3, <1>4, <1>6 DEF Reported, Outcome
  <2>4. Drained(k)'
    BY <1>1, <1>2, <1>6 DEF Good, Drained
  <2> QED  BY <2>2, <2>3, <2>4 DEF Good
<1>8. \A m \in Command \ {k} : Same(m)
  BY <1>1, <1>2, <1>4 DEF Same, Typed, TypeOK
<1> QED  BY <1>5, <1>7, <1>8, OtherCommands

LEMMA ReceiveStep == ASSUME IInv, NEW k \in Command, Receive(k) PROVE IInv'
<1>1. Typed /\ Distinct /\ Good(k) /\ line \in [{Session} -> Seq(Command)]
  BY DEF IInv, Typed, TypeOK
<1>2. stage[k] = "none" /\ k \notin Queued /\ answer[k] = "none"
  BY <1>1 DEF Good, Admitted, Receive
<1>3. UNCHANGED <<aborted, pool>>
  BY DEF Receive
<1>4. CASE Admission!Begin(k) /\ BeginRun(k) /\ UNCHANGED sent
  <2>1. /\ busy' = busy \cup {k} /\ answer' = [answer EXCEPT ![k] = "pending"] /\ line' = line
    BY <1>4 DEF Admission!Begin
  <2>2. /\ answer' \in [Command -> Answers] /\ answer'[k] = "pending"
        /\ \A m \in Command \ {k} : answer'[m] = answer[m]
    BY <1>1, <2>1 DEF Typed, Answers
  <2>3. Distinct' /\ Queued' = Queued \ {k}
    BY <1>1, <1>2, <2>1 DEF Distinct, Queued
  <2> QED  BY <1>1, <1>2, <1>3, <1>4, <2>1, <2>2, <2>3, Started
<1>5. CASE Admission!Wait(k) /\ UNCHANGED <<stage, stream>>
  <2>1. /\ line' = [line EXCEPT ![Session] = Append(@, k)] /\ busy' = busy
        /\ answer' = [answer EXCEPT ![k] = "pending"]
    BY <1>5 DEF Admission!Wait
  <2>2. PICK q \in Seq(Command) : q = line[Session]
    BY <1>1
  <2>3. line'[Session] = Append(q, k) /\ line' \in [{Session} -> Seq(Command)]
    BY <1>1, <2>1, <2>2
  <2>4. k \notin ToSet(q) /\ (\A m, n \in DOMAIN q : q[m] = q[n] => m = n)
    BY <1>1, <1>2, <2>2 DEF Distinct, Queued
  <2>5. /\ ToSet(Append(q, k)) = ToSet(q) \cup {k}
        /\ \A m, n \in DOMAIN Append(q, k) : Append(q, k)[m] = Append(q, k)[n] => m = n
    BY <2>4, AppendElements
  <2>6. Distinct'
    BY <2>3, <2>5, Zenon DEF Distinct
  <2>7. Queued' = Queued \cup {k}
    BY <2>2, <2>3, <2>5, Zenon DEF Queued
  <2>8. /\ aborted' = aborted /\ input' = input /\ todo' = todo /\ calls' = calls
        /\ sent' = sent /\ stage' = stage /\ held' = held /\ flushTimer' = flushTimer
    BY <1>3, <1>5 DEF pool, stream, statuses
  <2>9. answer' \in [Command -> Answers] /\ answer'[k] = "pending"
    BY <1>1, <2>1 DEF Typed, Answers
  <2>10. Typed'
    BY <1>1, <2>1, <2>3, <2>8, <2>9 DEF Typed, TypeOK
  <2>11. Good(k)'
    BY <1>1, <1>2, <2>1, <2>8, <2>9 DEF Good, Admitted, Reported, Drained
  <2>12. \A m \in Command \ {k} : Same(m)
    BY <1>1, <2>1, <2>7, <2>8 DEF Same, Typed
  <2> QED  BY <2>6, <2>10, <2>11, <2>12, OtherCommands
<1>6. CASE /\ Admission!Refuse(k) /\ stage' = [stage EXCEPT ![k] = "ended"]
           /\ Emit(k, Failed, {}) /\ UNCHANGED statuses
  <2>1. answer' = [answer EXCEPT ![k] = "overloaded"] /\ line' = line /\ busy' = busy
    BY <1>6 DEF Admission!Refuse
  <2>2. Distinct' /\ Queued' = Queued \ {k}
    BY <1>1, <1>2, <2>1 DEF Distinct, Queued
  <2> QED  BY <1>1, <1>2, <1>3, <1>6, <2>1, <2>2, Rejected
<1> QED  BY <1>4, <1>5, <1>6 DEF Receive

LEMMA StartWaitingStep == ASSUME IInv, StartWaiting PROVE IInv'
<1>1. Typed /\ Distinct /\ line \in [{Session} -> Seq(Command)]
  BY DEF IInv, Typed, TypeOK
<1>2. /\ line[Session] # <<>> /\ busy' = busy \cup {Head(line[Session])}
      /\ line' = [line EXCEPT ![Session] = Tail(@)] /\ answer' = answer
      /\ BeginRun(Head(line[Session])) /\ UNCHANGED <<aborted, pool, sent>>
  BY DEF StartWaiting, Admission!Proceed
<1>3. PICK q \in Seq(Command) : q = line[Session]
  BY <1>1
<1>4. PICK k \in Command : k = Head(q)
  BY <1>2, <1>3
<1>5. \A m, n \in DOMAIN q : q[m] = q[n] => m = n
  BY <1>1, <1>3 DEF Distinct
<1>6. /\ Tail(q) \in Seq(Command) /\ k \in ToSet(q) /\ ToSet(Tail(q)) = ToSet(q) \ {k}
      /\ \A m, n \in DOMAIN Tail(q) : Tail(q)[m] = Tail(q)[n] => m = n
  BY <1>2, <1>3, <1>4, <1>5, TailElements
<1>7. line'[Session] = Tail(q) /\ line' \in [{Session} -> Seq(Command)]
  BY <1>1, <1>2, <1>3, <1>6
<1>8. Distinct'
  BY <1>6, <1>7, Zenon DEF Distinct
<1>9. Queued' = Queued \ {k} /\ k \in Queued
  BY <1>3, <1>6, <1>7, Zenon DEF Queued
<1>10. Good(k)
  BY DEF IInv
<1>11. stage[k] = "none" /\ answer[k] = "pending"
  BY <1>9, <1>10 DEF Good, Admitted
<1>12. answer' \in [Command -> Answers] /\ answer'[k] = "pending"
  BY <1>1, <1>2, <1>11 DEF Typed
<1> QED  BY <1>2, <1>3, <1>4, <1>7, <1>8, <1>9, <1>11, <1>12, Started

LEMMA AbortWaitingStep == ASSUME IInv, AbortWaiting PROVE IInv'
<1>1. Typed /\ Distinct /\ line \in [{Session} -> Seq(Command)]
  BY DEF IInv, Typed, TypeOK
<1>2. PICK i \in DOMAIN line[Session], why \in {"cancelled", "timeout"} :
         /\ Admission!GiveUp(Session, i, why)
         /\ stage' = [stage EXCEPT ![line[Session][i]] = "ended"]
         /\ Emit(line[Session][i], Failed, {})
  BY DEF AbortWaiting
<1>3. PICK q \in Seq(Command) : q = line[Session]
  BY <1>1
<1>4. i \in DOMAIN q /\ q[i] \in Command
  BY <1>2, <1>3
<1>5. PICK k \in Command : k = q[i]
  BY <1>4
<1>6. /\ answer' = [answer EXCEPT ![k] = why] /\ busy' = busy
      /\ line' = [line EXCEPT ![Session] = SubSeq(@, 1, i - 1) \o SubSeq(@, i + 1, Len(@))]
      /\ stage' = [stage EXCEPT ![k] = "ended"] /\ Emit(k, Failed, {})
      /\ UNCHANGED <<aborted, pool, statuses>>
  BY <1>2, <1>3, <1>5 DEF Admission!GiveUp, AbortWaiting
<1>7. \A m, n \in DOMAIN q : q[m] = q[n] => m = n
  BY <1>1, <1>3 DEF Distinct
<1>8. /\ RemoveAt(q, i) \in Seq(Command) /\ ToSet(RemoveAt(q, i)) = ToSet(q) \ {k}
      /\ \A m, n \in DOMAIN RemoveAt(q, i) : RemoveAt(q, i)[m] = RemoveAt(q, i)[n] => m = n
  BY <1>4, <1>5, <1>7, RemoveAtType, RemoveAtElements
<1>9. line'[Session] = RemoveAt(q, i) /\ line' \in [{Session} -> Seq(Command)]
  <2>1. line'[Session] = SubSeq(q, 1, i - 1) \o SubSeq(q, i + 1, Len(q))
    BY <1>1, <1>3, <1>6, Zenon
  <2>2. line'[Session] = RemoveAt(q, i)
    BY <1>4, <2>1, TakenApart
  <2>3. DOMAIN line' = {Session} /\ line' = [s \in {Session} |-> line'[s]]
    BY <1>1, <1>6
  <2> QED  BY <1>8, <2>2, <2>3
<1>10. Distinct'
  BY <1>8, <1>9, Zenon DEF Distinct
<1>11. Queued' = Queued \ {k} /\ k \in Queued
  <2>1. k \in ToSet(q)
    BY <1>4, <1>5 DEF ToSet
  <2> QED  BY <1>3, <1>8, <1>9, <2>1, Zenon DEF Queued
<1>12. Good(k)
  BY DEF IInv
<1>13. stage[k] = "none"
  BY <1>11, <1>12 DEF Good, Admitted
<1> QED  BY <1>6, <1>9, <1>10, <1>11, <1>13, Rejected

-----------------------------------------------------------------------------
(* The run of a command.                                                   *)

LEMMA AbortStep == ASSUME IInv, NEW k \in Command, Abort(k) PROVE IInv'
<1>1. PICK why \in {"cancelled", "timeout"} : aborted' = [aborted EXCEPT ![k] = why]
  BY DEF Abort
<1>2. /\ k \in busy /\ line' = line /\ busy' = busy /\ answer' = answer /\ stage' = stage
      /\ input' = input /\ todo' = todo /\ calls' = calls /\ sent' = sent /\ held' = held
      /\ flushTimer' = flushTimer
  BY DEF Abort, admission, pool, stream, statuses
<1>3. Typed /\ Distinct /\ Good(k)
  BY DEF IInv
<1>4. Typed' /\ Distinct' /\ Queued' = Queued
  BY <1>1, <1>2, <1>3 DEF Typed, TypeOK, Distinct, Queued
<1>5. stage[k] \in Active /\ stage[k] # "none" /\ stage[k] # "ended"
  BY <1>2, <1>3 DEF Good, Admitted, Active
<1>6. Good(k)'
  BY <1>2, <1>3, <1>4, <1>5 DEF Good, Admitted, Reported, Drained
<1>7. \A m \in Command \ {k} : Same(m)
  BY <1>1, <1>2, <1>3, <1>4 DEF Same, Typed, TypeOK
<1> QED  BY <1>4, <1>6, <1>7, OtherCommands

LEMMA StartToolStep ==
    ASSUME IInv, NEW k \in Command, stage[k] \in {"counting", "recounting"}, StartTool(k),
           UNCHANGED <<aborted, pool>>
    PROVE  IInv'
<1>1. aborted' = aborted /\ input' = input /\ todo' = todo /\ calls' = calls
  BY DEF pool
<1>2. Typed /\ Good(k)
  BY DEF IInv
<1>3. /\ k \in busy /\ (todo[k] = 0 => calls[k] = 0)
  BY <1>2 DEF Good, Admitted, Drained, Active, Stages
<1>4. calls' \in [Command -> 0 .. Pool] /\ input' \in [Command -> 1 .. Inputs]
  BY <1>1, <1>2 DEF Typed, TypeOK
<1>5. CASE Fail(k, <<>>)
  BY <1>1, <1>3, <1>4, <1>5, FailedRun DEF StartTool
<1>6. CASE stage' = [stage EXCEPT ![k] = "tool"] /\ UNCHANGED <<admission, sent>>
  <2>1. calls[k] = 0 /\ todo[k] \in {0, Chunks}
    BY <1>2 DEF Good, Drained
  <2>2. "tool" \in Active
    BY DEF Active, Stages
  <2>3. todo' \in [Command -> 0 .. Chunks] /\ aborted' \in [Command -> {"no", "cancelled", "timeout"}]
    BY <1>1, <1>2 DEF Typed, TypeOK
  <2> QED  BY <1>1, <1>3, <1>4, <1>6, <2>1, <2>2, <2>3, Advanced DEF StartTool
<1> QED  BY <1>5, <1>6 DEF StartTool

LEMMA NextInputStep ==
    ASSUME IInv, NEW k \in Command, stage[k] \in {"counting", "recounting"}, NextInput(k),
           aborted' = aborted, Status(k) \/ UNCHANGED statuses
    PROVE  IInv'
<1> USE PoolAssumption
<1>1. /\ input[k] < Inputs /\ input' = [input EXCEPT ![k] = @ + 1]
      /\ todo' = [todo EXCEPT ![k] = 0] /\ calls' = calls
      /\ stage' = [stage EXCEPT ![k] = "counting"] /\ UNCHANGED <<admission, sent>>
  BY DEF NextInput
<1>2. Typed /\ Good(k)
  BY DEF IInv
<1>3. k \in busy /\ calls[k] = 0
  BY <1>2 DEF Good, Admitted, Drained, Active, Stages
<1>4. input' \in [Command -> 1 .. Inputs]
  <2>1. input[k] + 1 \in 1 .. Inputs
    BY <1>1, <1>2 DEF Typed, TypeOK
  <2> QED  BY <1>1, <1>2, <2>1 DEF Typed, TypeOK
<1>5. /\ todo' \in [Command -> 0 .. Chunks] /\ calls' \in [Command -> 0 .. Pool]
      /\ todo'[k] = 0 /\ aborted' \in [Command -> {"no", "cancelled", "timeout"}]
      /\ \A m \in Command \ {k} : todo'[m] = todo[m] /\ calls'[m] = calls[m]
  BY <1>1, <1>2 DEF Typed, TypeOK
<1>6. "counting" \in Active
  BY DEF Active, Stages
<1> QED  BY <1>1, <1>3, <1>4, <1>5, <1>6, Advanced

LEMMA CountedStep == ASSUME IInv, NEW k \in Command, Counted(k) PROVE IInv'
<1> USE PoolAssumption
<1>1. stage[k] = "counting" /\ aborted' = aborted /\ Typed /\ Good(k)
  BY DEF Counted, IInv
<1>2. k \in busy /\ todo[k] = 0 /\ calls[k] = 0
  BY <1>1 DEF Good, Admitted, Drained, Active, Stages
<1>3. CASE StartTool(k) /\ UNCHANGED pool
  BY <1>1, <1>3, StartToolStep
<1>4. CASE Fail(k, <<>>) /\ UNCHANGED <<pool, statuses>>
  <2>1. /\ todo' = todo /\ calls' = calls /\ calls' \in [Command -> 0 .. Pool]
        /\ input' \in [Command -> 1 .. Inputs]
    BY <1>1, <1>4 DEF pool, Typed, TypeOK
  <2> QED  BY <1>1, <1>2, <1>4, <2>1, FailedRun
<1>5. ASSUME NEW workers, workers = IF Pool < Chunks THEN Pool ELSE Chunks,
             stage' = [stage EXCEPT ![k] = "extracting"],
             todo' = [todo EXCEPT ![k] = workers], calls' = [calls EXCEPT ![k] = workers],
             Status(k), UNCHANGED <<admission, input, sent>>
      PROVE  IInv'
  <2>1. workers \in 0 .. Pool /\ workers \in 0 .. Chunks /\ workers # 0
    BY <1>5
  <2>2. /\ todo' \in [Command -> 0 .. Chunks] /\ calls' \in [Command -> 0 .. Pool]
        /\ todo'[k] = workers /\ aborted' \in [Command -> {"no", "cancelled", "timeout"}]
        /\ input' \in [Command -> 1 .. Inputs]
        /\ \A m \in Command \ {k} : todo'[m] = todo[m] /\ calls'[m] = calls[m]
    BY <1>1, <1>5, <2>1 DEF Typed, TypeOK
  <2>3. "extracting" \in Active
    BY DEF Active, Stages
  <2> QED  BY <1>1, <1>2, <1>5, <2>1, <2>2, <2>3, Advanced
<1>6. CASE NextInput(k) /\ UNCHANGED statuses
  BY <1>1, <1>6, NextInputStep
<1> QED  BY <1>3, <1>4, <1>5, <1>6 DEF Counted

LEMMA ExtractedStep == ASSUME IInv, NEW k \in Command, Extracted(k) PROVE IInv'
<1> USE PoolAssumption
<1>1. /\ calls[k] > 0 /\ Status(k) /\ UNCHANGED <<admission, sent>> /\ aborted' = aborted
      /\ input' = input /\ Typed /\ Good(k) /\ Distinct
  BY DEF Extracted, IInv
<1>2. calls[k] \in 0 .. Pool /\ todo[k] \in 0 .. Chunks
  BY <1>1 DEF Typed, TypeOK
<1>3. todo[k] # 0 /\ stage[k] \notin {"none", "counting", "synthesizing", "recounting", "tool"}
  BY <1>1, <1>2 DEF Good, Drained
<1>4. /\ todo' \in [Command -> 0 .. Chunks] /\ calls' \in [Command -> 0 .. Pool]
      /\ todo'[k] # 0 /\ (calls'[k] = 0 => todo'[k] = Chunks)
      /\ \A m \in Command \ {k} : todo'[m] = todo[m] /\ calls'[m] = calls[m]
  <2>1. CASE todo[k] < Chunks
    <3>1. todo' = [todo EXCEPT ![k] = @ + 1] /\ calls' = calls
      BY <2>1 DEF Extracted
    <3>2. todo[k] + 1 \in 0 .. Chunks /\ todo[k] + 1 # 0
      BY <1>2, <2>1
    <3> QED  BY <1>1, <1>2, <3>1, <3>2 DEF Typed, TypeOK
  <2>2. CASE ~(todo[k] < Chunks)
    <3>1. calls' = [calls EXCEPT ![k] = @ - 1] /\ todo' = todo
      BY <2>2 DEF Extracted
    <3>2. calls[k] - 1 \in 0 .. Pool /\ todo[k] = Chunks
      BY <1>1, <1>2, <2>2
    <3> QED  BY <1>1, <1>2, <3>1, <3>2 DEF Typed, TypeOK
  <2> QED  BY <2>1, <2>2
<1>5. CASE stage[k] = "extracting" /\ calls'[k] = 0
  <2>1. stage' = [stage EXCEPT ![k] = "synthesizing"]
    BY <1>5 DEF Extracted
  <2>2. k \in busy /\ "synthesizing" \in Active
    BY <1>1, <1>5 DEF Good, Admitted, Active, Stages
  <2>3. /\ aborted' \in [Command -> {"no", "cancelled", "timeout"}]
        /\ input' \in [Command -> 1 .. Inputs]
    BY <1>1 DEF Typed, TypeOK
  <2> QED  BY <1>1, <1>4, <1>5, <2>1, <2>2, <2>3, Advanced
<1>6. CASE ~(stage[k] = "extracting" /\ calls'[k] = 0)
  <2>1. /\ stage' = stage /\ line' = line /\ busy' = busy /\ answer' = answer /\ sent' = sent
    BY <1>1, <1>6 DEF Extracted, admission
  <2>2. held' \subseteq Command /\ flushTimer' \in BOOLEAN
    BY <1>1, Statuses
  <2>3. Typed' /\ Distinct' /\ Queued' = Queued
    BY <1>1, <1>4, <2>1, <2>2 DEF Typed, TypeOK, Distinct, Queued
  <2>4. Good(k)'
    BY <1>1, <1>3, <1>4, <2>1, <2>3 DEF Good, Admitted, Reported, Drained
  <2>5. \A m \in Command \ {k} : Same(m)
    BY <1>1, <1>4, <2>1, <2>3 DEF Same
  <2> QED  BY <2>3, <2>4, <2>5, OtherCommands
<1> QED  BY <1>5, <1>6

LEMMA ExtractFailedStep == ASSUME IInv, NEW k \in Command, ExtractFailed(k) PROVE IInv'
<1> USE PoolAssumption
<1>1. /\ calls[k] > 0 /\ calls' = [calls EXCEPT ![k] = @ - 1]
      /\ aborted' = aborted /\ input' = input /\ todo' = todo /\ UNCHANGED statuses
      /\ Typed /\ Good(k) /\ Distinct
  BY DEF ExtractFailed, IInv
<1>2. calls[k] \in 0 .. Pool /\ todo[k] \in 0 .. Chunks
  BY <1>1 DEF Typed, TypeOK
<1>3. todo[k] # 0 /\ stage[k] \notin {"none", "counting", "synthesizing", "recounting", "tool"}
  BY <1>1, <1>2 DEF Good, Drained
<1>4. /\ calls' \in [Command -> 0 .. Pool] /\ \A m \in Command \ {k} : calls'[m] = calls[m]
      /\ input' \in [Command -> 1 .. Inputs]
  <2>1. calls[k] - 1 \in 0 .. Pool
    BY <1>1, <1>2
  <2> QED  BY <1>1, <2>1 DEF Typed, TypeOK
<1>5. CASE stage[k] = "extracting"
  <2>1. Fail(k, <<>>)
    BY <1>5 DEF ExtractFailed
  <2> QED  BY <1>1, <1>3, <1>4, <2>1, FailedRun
<1>6. CASE stage[k] # "extracting"
  <2>1. /\ stage' = stage /\ line' = line /\ busy' = busy /\ answer' = answer /\ sent' = sent
        /\ held' = held /\ flushTimer' = flushTimer
    BY <1>1, <1>6 DEF ExtractFailed, admission, statuses
  <2>2. Typed' /\ Distinct' /\ Queued' = Queued
    BY <1>1, <1>4, <2>1 DEF Typed, TypeOK, Distinct, Queued
  <2>3. Good(k)'
    BY <1>1, <1>3, <2>1, <2>2 DEF Good, Admitted, Reported, Drained
  <2>4. \A m \in Command \ {k} : Same(m)
    BY <1>1, <1>4, <2>1, <2>2 DEF Same
  <2> QED  BY <2>2, <2>3, <2>4, OtherCommands
<1> QED  BY <1>5, <1>6

\* A step of a run that leaves the pool as it is.
LEMMA FailedAlone ==
    ASSUME IInv, NEW k \in Command,
           Fail(k, <<>>) \/ (Fail(k, <<"done">>) /\ k \in Echo /\ aborted[k] # "no"),
           UNCHANGED <<aborted, pool>>, Status(k) \/ UNCHANGED statuses
    PROVE  IInv'
<1>1. aborted' = aborted /\ input' = input /\ todo' = todo /\ calls' = calls
  BY DEF pool
<1>2. Typed /\ Good(k)
  BY DEF IInv
<1>3. /\ calls' \in [Command -> 0 .. Pool] /\ (todo[k] = 0 => calls'[k] = 0)
      /\ input' \in [Command -> 1 .. Inputs]
  BY <1>1, <1>2 DEF Typed, TypeOK, Good, Drained
<1> QED  BY <1>1, <1>3, FailedRun

LEMMA EndedAlone ==
    ASSUME IInv, NEW k \in Command, NEW frames \in Seq(Frames), NEW sized,
           End(k, "resolved", frames, sized),
           \A s : Wrote(s, frames, sized) => Outcome(k, s, "resolved", aborted[k]),
           UNCHANGED <<aborted, pool>>, Status(k) \/ UNCHANGED statuses
    PROVE  IInv'
<1>1. aborted' = aborted /\ input' = input /\ todo' = todo /\ calls' = calls
  BY DEF pool
<1>2. Typed /\ Good(k)
  BY DEF IInv
<1>3. /\ calls' \in [Command -> 0 .. Pool] /\ (todo[k] = 0 => calls'[k] = 0)
      /\ input' \in [Command -> 1 .. Inputs]
  BY <1>1, <1>2 DEF Typed, TypeOK, Good, Drained
<1> QED  BY <1>1, <1>3, Ended

LEMMA EnhancedStep == ASSUME IInv, NEW k \in Command, Enhanced(k) PROVE IInv'
<1> DEFINE prompt == <<"fileop", "done", "menu">>
           report == <<"fileop", "fileop", "done", "menu">>
<1>1. k \notin Echo /\ aborted[k] = "no" /\ UNCHANGED <<aborted, pool>> /\ Status(k)
  BY DEF Enhanced
<1>2. /\ \A s : Wrote(s, prompt, {"fileop"}) => Outcome(k, s, "resolved", aborted[k])
      /\ \A s : Wrote(s, report, {"fileop"}) => Outcome(k, s, "resolved", aborted[k])
  BY <1>1 DEF Outcome
<1>3. prompt \in Seq(Frames) /\ report \in Seq(Frames)
  BY FrameSequences
<1>4. CASE End(k, "resolved", prompt, {"fileop"})
  BY <1>1, <1>2, <1>3, <1>4, EndedAlone
<1>5. CASE End(k, "resolved", report, {"fileop"})
  BY <1>1, <1>2, <1>3, <1>5, EndedAlone
<1>6. CASE Fail(k, <<>>)
  BY <1>1, <1>6, FailedAlone
<1> QED  BY <1>4, <1>5, <1>6 DEF Enhanced

LEMMA EchoDoneStep == ASSUME IInv, NEW k \in Command, EchoDone(k) PROVE IInv'
<1>1. k \in Echo /\ UNCHANGED <<aborted, pool, statuses>>
  BY DEF EchoDone, IInv, Good, Reported
<1>2. CASE aborted[k] = "no" /\ End(k, "resolved", <<"done", "menu">>, {"done"})
  <2>1. \A s : Wrote(s, <<"done", "menu">>, {"done"}) => Outcome(k, s, "resolved", aborted[k])
    BY <1>1, <1>2 DEF Outcome
  <2>2. <<"done", "menu">> \in Seq(Frames)
    BY FrameSequences
  <2> QED  BY <1>1, <1>2, <2>1, <2>2, EndedAlone
<1>3. CASE aborted[k] # "no" /\ Fail(k, <<"done">>)
  BY <1>1, <1>3, FailedAlone
<1> QED  BY <1>2, <1>3 DEF EchoDone

LEMMA AdvancedAlone ==
    ASSUME IInv, NEW k \in Command, NEW to \in {"recounting", "echoing"},
           stage' = [stage EXCEPT ![k] = to],
           to = "recounting" => stage[k] = "synthesizing",
           to = "echoing" => stage[k] = "tool" /\ k \in Echo,
           UNCHANGED <<admission, aborted, pool, sent>>, Status(k) \/ UNCHANGED statuses
    PROVE  IInv'
<1>1. /\ aborted' = aborted /\ UNCHANGED <<admission, sent>>
      /\ input' = input /\ todo' = todo /\ calls' = calls
  BY DEF pool
<1>2. Typed /\ Good(k)
  BY DEF IInv
<1>3. k \in busy /\ to \in Active
  BY <1>2 DEF Good, Admitted, Active, Stages
<1>4. calls[k] = 0 /\ todo[k] \in {0, Chunks}
  BY <1>2 DEF Good, Drained
<1>5. /\ calls' \in [Command -> 0 .. Pool] /\ todo' \in [Command -> 0 .. Chunks]
      /\ input' \in [Command -> 1 .. Inputs] /\ aborted' \in [Command -> {"no", "cancelled", "timeout"}]
  BY <1>1, <1>2 DEF Typed, TypeOK
<1> QED  BY <1>1, <1>3, <1>4, <1>5, Advanced

LEMMA AdvanceStep == ASSUME IInv, NEW k \in Command, Advance(k) PROVE IInv'
<1> USE PoolAssumption
<1>1. CASE CallsAborted(k)
  <2>1. /\ calls' = [calls EXCEPT ![k] = 0] /\ Fail(k, <<>>) /\ aborted' = aborted
        /\ input' = input /\ todo' = todo /\ UNCHANGED statuses
    BY <1>1 DEF CallsAborted
  <2>2. /\ calls' \in [Command -> 0 .. Pool] /\ calls'[k] = 0
        /\ input' \in [Command -> 1 .. Inputs]
        /\ \A m \in Command \ {k} : calls'[m] = calls[m]
    BY <2>1 DEF IInv, Typed, TypeOK
  <2> QED  BY <2>1, <2>2, FailedRun
<1>2. CASE Synthesized(k)
  BY <1>2, FailedAlone, AdvancedAlone DEF Synthesized
<1>3. CASE Recounted(k)
  <2>1. stage[k] = "recounting" /\ aborted' = aborted
    BY <1>3 DEF Recounted
  <2>2. CASE NextInput(k) /\ Status(k)
    BY <2>1, <2>2, NextInputStep
  <2>3. CASE StartTool(k) /\ UNCHANGED pool
    BY <2>1, <2>3, StartToolStep
  <2> QED  BY <1>3, <2>2, <2>3 DEF Recounted
<1>4. CASE Enhanced(k)
  BY <1>4, EnhancedStep
<1>5. CASE EnhanceAborted(k)
  BY <1>5, FailedAlone DEF EnhanceAborted
<1>6. CASE EchoHalf(k)
  BY <1>6, AdvancedAlone DEF EchoHalf
<1>7. CASE EchoDone(k)
  BY <1>7, EchoDoneStep
<1> QED
  BY <1>1, <1>2, <1>3, <1>4, <1>5, <1>6, <1>7, CountedStep, ExtractedStep, ExtractFailedStep
     DEF Advance

LEMMA NextIInv == IInv /\ [Next]_vars => IInv'
<1> SUFFICES ASSUME IInv, [Next]_vars PROVE IInv'
  OBVIOUS
<1>1. CASE Flush
  <2>1. PICK again \in SUBSET held : FlushSome(again) /\ flushTimer' = (again # {})
    BY <1>1 DEF Flush
  <2>2. held' \subseteq Command /\ flushTimer' \in BOOLEAN
    BY <2>1 DEF FlushSome, IInv, Typed, TypeOK
  <2> QED  BY <2>1, <2>2, UnchangedCommands DEF FlushSome
<1>2. CASE UNCHANGED vars
  <2>1. /\ UNCHANGED <<admission, aborted, stage, pool, sent>>
        /\ held' = held /\ flushTimer' = flushTimer
    BY <1>2 DEF vars, stream, statuses
  <2> QED  BY <2>1, UnchangedCommands DEF IInv, Typed, TypeOK
<1> QED
  BY <1>1, <1>2, ReceiveStep, AbortStep, AdvanceStep, AbortWaitingStep, StartWaitingStep DEF Next

-----------------------------------------------------------------------------
\* The frames of a kind in a short stream are counted one by one.
LEMMA FrameCounts ==
    ASSUME NEW f \in Frames, NEW s \in Seq(Frames)
    PROVE  LET N == Len(Only(s, {f}))
               one(i) == IF s[i] = f THEN 1 ELSE 0
           IN  /\ Len(s) = 0 => N = 0
               /\ Len(s) = 2 => N = one(1) + one(2)
               /\ Len(s) = 3 => N = one(1) + one(2) + one(3)
               /\ Len(s) = 4 => N = one(1) + one(2) + one(3) + one(4)
<1> DEFINE S == {f}
           one(i) == IF s[i] = f THEN 1 ELSE 0
<1>1. PICK n \in Nat : n = Len(s)
  OBVIOUS
<1>2. /\ Len(Only(<<>>, S)) = 0
      /\ \A e \in Frames : Len(Only(<<e>>, S)) = IF e \in S THEN 1 ELSE 0
      /\ \A t \in Seq(Frames) : Len(Only(t, S)) \in Nat
      /\ \A t \in Seq(Frames), e \in Frames :
            Len(Only(Append(t, e), S)) = Len(Only(t, S)) + (IF e \in S THEN 1 ELSE 0)
      /\ \A t \in Seq(Frames), u \in Seq(Frames) :
            Len(Only(t \o u, S)) = Len(Only(t, S)) + Len(Only(u, S))
      /\ \A t \in Seq(Frames) : t # <<>> =>
            Len(Only(t, S)) = Len(Only(Tail(t), S)) + (IF Head(t) \in S THEN 1 ELSE 0)
  BY OnlyCount
<1> DEFINE c == [i \in 0 .. n |-> Len(Only(SubSeq(s, 1, i), S))]
<1>3. SubSeq(s, 1, 0) = <<>> /\ SubSeq(s, 1, n) = s
  BY <1>1
<1>4. c[0] = 0 /\ c[n] = Len(Only(s, S))
  <2>1. c[0] = Len(Only(SubSeq(s, 1, 0), S)) /\ c[n] = Len(Only(SubSeq(s, 1, n), S))
    OBVIOUS
  <2> QED  BY <1>2, <1>3, <2>1, Zenon
<1>5. ASSUME NEW i \in 1 .. n
      PROVE  c[i] = c[i - 1] + one(i)
  <2> DEFINE p == SubSeq(s, 1, i - 1)
  <2>1. SubSeq(s, 1, i) = Append(p, s[i]) /\ p \in Seq(Frames) /\ s[i] \in Frames
    BY <1>1
  <2>2. c[i] = Len(Only(Append(p, s[i]), S)) /\ c[i - 1] = Len(Only(p, S))
    <3>1. i \in 0 .. n /\ i - 1 \in 0 .. n
      OBVIOUS
    <3> QED  BY <2>1, <3>1, Zenon
  <2> HIDE DEF p, c
  <2>3. Len(Only(Append(p, s[i]), S)) = Len(Only(p, S)) + (IF s[i] \in S THEN 1 ELSE 0)
    BY <1>2, <2>1, Zenon
  <2> QED  BY <2>2, <2>3
<1> HIDE DEF c
<1>6. n = 2 => c[n] = one(1) + one(2)
  <2> SUFFICES ASSUME n = 2 PROVE c[2] = one(1) + one(2)
    OBVIOUS
  <2> QED  BY <1>4, <1>5
<1>7. n = 3 => c[n] = one(1) + one(2) + one(3)
  <2> SUFFICES ASSUME n = 3 PROVE c[3] = one(1) + one(2) + one(3)
    OBVIOUS
  <2>1. c[1] = one(1) /\ c[2] = c[1] + one(2) /\ c[3] = c[2] + one(3)
    BY <1>4, <1>5
  <2> QED  BY <2>1
<1>8. n = 4 => c[n] = one(1) + one(2) + one(3) + one(4)
  <2> SUFFICES ASSUME n = 4 PROVE c[4] = one(1) + one(2) + one(3) + one(4)
    OBVIOUS
  <2>1. /\ c[1] = one(1) /\ c[2] = c[1] + one(2)
        /\ c[3] = c[2] + one(3) /\ c[4] = c[3] + one(4)
    BY <1>4, <1>5
  <2> QED  BY <2>1
<1> QED  BY <1>1, <1>4, <1>6, <1>7, <1>8

\* What an outcome of command k comes to, counted by the frames of each kind.
Tally(k, how, why, menu, done, error, failure, fileop, toolarge) ==
    /\ menu = 1
    /\ \/ /\ how = "resolved" /\ why = "no" /\ k \notin Echo
          /\ error + failure = 0 /\ done = 1 /\ fileop + toolarge \in {1, 2}
       \/ how = "resolved" /\ why = "no" /\ k \in Echo
       \/ /\ how = "resolved" /\ why = "no"
          /\ done + fileop = 0 /\ error + failure + toolarge = 2
       \/ error = 1 /\ failure = 1 /\ done + fileop + toolarge = 0
       \/ error = 1 /\ failure = 1 /\ fileop = 0 /\ k \in Echo

LEMMA OutcomeCounts ==
    ASSUME NEW k \in Command, NEW s \in Seq(Frames), NEW how, NEW why, Outcome(k, s, how, why)
    PROVE  LET N(f) == Len(Only(s, {f}))
           IN  Tally(k, how, why, N("menu"), N("done"), N("error"), N("failure"), N("fileop"),
                     N("toolarge"))
<1> DEFINE c == [f \in Frames |-> Len(Only(s, {f}))]
<1>1. /\ "done" \in Frames /\ "menu" \in Frames /\ "fileop" \in Frames
      /\ "error" \in Frames /\ "failure" \in Frames /\ "toolarge" \in Frames
  BY DEF Frames
<1> SUFFICES Tally(k, how, why, c["menu"], c["done"], c["error"], c["failure"], c["fileop"],
                   c["toolarge"])
  BY <1>1
<1>2. PICK w : w = s
  OBVIOUS
<1> DEFINE is(i, f) == IF w[i] = f THEN 1 ELSE 0
<1>3. PICK n \in Nat : n = Len(s)
  OBVIOUS
<1>4. ASSUME NEW f \in Frames
      PROVE  /\ n = 2 => c[f] = is(1, f) + is(2, f)
             /\ n = 3 => c[f] = is(1, f) + is(2, f) + is(3, f)
             /\ n = 4 => c[f] = is(1, f) + is(2, f) + is(3, f) + is(4, f)
  BY <1>2, <1>3, FrameCounts
<1> HIDE DEF c
<1>5. CASE /\ how = "resolved" /\ why = "no" /\ k \notin Echo
           /\ Wrote(s, <<"fileop", "done", "menu">>, {"fileop"})
  <2>1. /\ n = 3
        /\ w[1] \in {"fileop", "toolarge"}
        /\ w[2] = "done"
        /\ w[3] = "menu"
    BY <1>2, <1>3, <1>5 DEF Wrote
  <2>2. \A f \in Frames : c[f] = is(1, f) + is(2, f) + is(3, f)
    BY <1>4, <2>1
  <2>3. c["menu"] = 1
    BY <2>1, <2>2 DEF Frames
  <2>4. c["done"] = 1
    BY <2>1, <2>2 DEF Frames
  <2>5. c["error"] = 0
    BY <2>1, <2>2 DEF Frames
  <2>6. c["failure"] = 0
    BY <2>1, <2>2 DEF Frames
  <2>7. c["fileop"] = is(1, "fileop")
    BY <2>1, <2>2 DEF Frames
  <2>8. c["toolarge"] = is(1, "toolarge")
    BY <2>1, <2>2 DEF Frames
  <2> QED  BY <1>5, <2>1, <2>3, <2>4, <2>5, <2>6, <2>7, <2>8 DEF Tally
<1>6. CASE /\ how = "resolved" /\ why = "no" /\ k \notin Echo
           /\ Wrote(s, <<"fileop", "fileop", "done", "menu">>, {"fileop"})
  <2>1. /\ n = 4
        /\ w[1] \in {"fileop", "toolarge"}
        /\ w[2] \in {"fileop", "toolarge"}
        /\ w[3] = "done"
        /\ w[4] = "menu"
    BY <1>2, <1>3, <1>6 DEF Wrote
  <2>2. \A f \in Frames : c[f] = is(1, f) + is(2, f) + is(3, f) + is(4, f)
    BY <1>4, <2>1
  <2>3. c["menu"] = 1
    BY <2>1, <2>2 DEF Frames
  <2>4. c["done"] = 1
    BY <2>1, <2>2 DEF Frames
  <2>5. c["error"] = 0
    BY <2>1, <2>2 DEF Frames
  <2>6. c["failure"] = 0
    BY <2>1, <2>2 DEF Frames
  <2>7. c["fileop"] = is(1, "fileop") + is(2, "fileop")
    BY <2>1, <2>2 DEF Frames
  <2>8. c["toolarge"] = is(1, "toolarge") + is(2, "toolarge")
    BY <2>1, <2>2 DEF Frames
  <2> QED  BY <1>6, <2>1, <2>3, <2>4, <2>5, <2>6, <2>7, <2>8 DEF Tally
<1>7. CASE /\ how = "resolved" /\ why = "no" /\ k \in Echo
           /\ Wrote(s, <<"done", "menu">>, {"done"})
  <2>1. /\ n = 2
        /\ w[1] \in {"done", "toolarge"}
        /\ w[2] = "menu"
    BY <1>2, <1>3, <1>7 DEF Wrote
  <2>2. \A f \in Frames : c[f] = is(1, f) + is(2, f)
    BY <1>4, <2>1
  <2>3. c["menu"] = 1
    BY <2>1, <2>2 DEF Frames
  <2>4. c["done"] = is(1, "done")
    BY <2>1, <2>2 DEF Frames
  <2>5. c["error"] = 0
    BY <2>1, <2>2 DEF Frames
  <2>6. c["failure"] = 0
    BY <2>1, <2>2 DEF Frames
  <2>7. c["fileop"] = 0
    BY <2>1, <2>2 DEF Frames
  <2>8. c["toolarge"] = is(1, "toolarge")
    BY <2>1, <2>2 DEF Frames
  <2> QED  BY <1>7, <2>1, <2>3, <2>4, <2>5, <2>6, <2>7, <2>8 DEF Tally
<1>8. CASE /\ how = "resolved" /\ why = "no"
           /\ Wrote(s, <<"error", "failure", "menu">>, {"error", "failure"})
  <2>1. /\ n = 3
        /\ w[1] \in {"error", "toolarge"}
        /\ w[2] \in {"failure", "toolarge"}
        /\ w[3] = "menu"
    BY <1>2, <1>3, <1>8 DEF Wrote
  <2>2. \A f \in Frames : c[f] = is(1, f) + is(2, f) + is(3, f)
    BY <1>4, <2>1
  <2>3. c["menu"] = 1
    BY <2>1, <2>2 DEF Frames
  <2>4. c["done"] = 0
    BY <2>1, <2>2 DEF Frames
  <2>5. c["error"] = is(1, "error")
    BY <2>1, <2>2 DEF Frames
  <2>6. c["failure"] = is(2, "failure")
    BY <2>1, <2>2 DEF Frames
  <2>7. c["fileop"] = 0
    BY <2>1, <2>2 DEF Frames
  <2>8. c["toolarge"] = is(1, "toolarge") + is(2, "toolarge")
    BY <2>1, <2>2 DEF Frames
  <2> QED  BY <1>8, <2>1, <2>3, <2>4, <2>5, <2>6, <2>7, <2>8 DEF Tally
<1>9. CASE Wrote(s, <<"error", "failure", "menu">>, {})
  <2>1. /\ n = 3
        /\ w[1] = "error"
        /\ w[2] = "failure"
        /\ w[3] = "menu"
    BY <1>2, <1>3, <1>9 DEF Wrote
  <2>2. \A f \in Frames : c[f] = is(1, f) + is(2, f) + is(3, f)
    BY <1>4, <2>1
  <2>3. c["menu"] = 1
    BY <2>1, <2>2 DEF Frames
  <2>4. c["done"] = 0
    BY <2>1, <2>2 DEF Frames
  <2>5. c["error"] = 1
    BY <2>1, <2>2 DEF Frames
  <2>6. c["failure"] = 1
    BY <2>1, <2>2 DEF Frames
  <2>7. c["fileop"] = 0
    BY <2>1, <2>2 DEF Frames
  <2>8. c["toolarge"] = 0
    BY <2>1, <2>2 DEF Frames
  <2> QED  BY <1>9, <2>1, <2>3, <2>4, <2>5, <2>6, <2>7, <2>8 DEF Tally
<1>10. CASE k \in Echo /\ Wrote(s, <<"done", "error", "failure", "menu">>, {"done"})
  <2>1. /\ n = 4
        /\ w[1] \in {"done", "toolarge"}
        /\ w[2] = "error"
        /\ w[3] = "failure"
        /\ w[4] = "menu"
    BY <1>2, <1>3, <1>10 DEF Wrote
  <2>2. \A f \in Frames : c[f] = is(1, f) + is(2, f) + is(3, f) + is(4, f)
    BY <1>4, <2>1
  <2>3. c["menu"] = 1
    BY <2>1, <2>2 DEF Frames
  <2>4. c["done"] = is(1, "done")
    BY <2>1, <2>2 DEF Frames
  <2>5. c["error"] = 1
    BY <2>1, <2>2 DEF Frames
  <2>6. c["failure"] = 1
    BY <2>1, <2>2 DEF Frames
  <2>7. c["fileop"] = 0
    BY <2>1, <2>2 DEF Frames
  <2>8. c["toolarge"] = is(1, "toolarge")
    BY <2>1, <2>2 DEF Frames
  <2> QED  BY <1>10, <2>1, <2>3, <2>4, <2>5, <2>6, <2>7, <2>8 DEF Tally
<1> QED  BY <1>5, <1>6, <1>7, <1>8, <1>9, <1>10 DEF Outcome

\* What was settled, and how, agrees with what was written, whatever the size limits made
\* of it: one menu in the end, artifacts or an error and not both, and nothing delivered by
\* a compilation that was cancelled or timed out.
THEOREM OutcomeCorrect == Spec => []OutcomeReported
<1>1. IInv => OutcomeReported
  <2> SUFFICES ASSUME IInv, NEW k \in Command
               PROVE  /\ Count(k, "menu") = IF stage[k] = "ended" THEN 1 ELSE 0
                      /\ stage[k] # "ended" =>
                            Count(k, "done") + Count(k, "error") + Count(k, "fileop") = 0
                      /\ answer[k] \in {"cancelled", "timeout", "overloaded"} =>
                            Count(k, "error") = 1 /\ Count(k, "failure") = 1
                      /\ stage[k] = "ended" /\ k \notin Echo =>
                            \/ /\ Count(k, "done") = 1 /\ Count(k, "error") + Count(k, "failure") = 0
                               /\ Count(k, "fileop") + Count(k, "toolarge") \in {1, 2}
                            \/ /\ Count(k, "done") + Count(k, "fileop") = 0
                               /\ Count(k, "error") + Count(k, "failure") + Count(k, "toolarge") = 2
                      /\ aborted[k] # "no" =>
                            Count(k, "fileop") = 0 /\ (k \in Echo \/ Count(k, "done") = 0)
    BY DEF OutcomeReported
  <2>1. Admitted(k) /\ Reported(k) /\ sent[k] \in Seq(Frames)
    BY DEF IInv, Good, Typed, TypeOK
  <2>2. /\ "done" \in Frames /\ "menu" \in Frames /\ "fileop" \in Frames
        /\ "error" \in Frames /\ "failure" \in Frames /\ "toolarge" \in Frames
    BY DEF Frames
  <2>3. \A f \in Frames : Count(k, f) = Len(Only(sent[k], {f})) /\ Count(k, f) \in Nat
    BY <2>1, OnlyCount DEF Count
  <2>4. CASE stage[k] # "ended"
    <3>1. \A f \in Frames : Count(k, f) = 0
      BY <2>1, <2>3, <2>4, FrameCounts DEF Reported
    <3> QED  BY <2>1, <2>2, <2>4, <3>1 DEF Admitted
  <2>5. CASE stage[k] = "ended"
    <3>1. Outcome(k, sent[k], answer[k], aborted[k])
      BY <2>1, <2>5 DEF Reported
    <3>2. Tally(k, answer[k], aborted[k], Count(k, "menu"), Count(k, "done"), Count(k, "error"),
                Count(k, "failure"), Count(k, "fileop"), Count(k, "toolarge"))
      BY <2>1, <3>1, OutcomeCounts DEF Count
    <3>3. /\ Count(k, "done") \in Nat /\ Count(k, "fileop") \in Nat /\ Count(k, "error") \in Nat
          /\ Count(k, "failure") \in Nat /\ Count(k, "toolarge") \in Nat
      BY <2>2, <2>3
    <3>4. aborted[k] # "no" \/ answer[k] # "resolved" =>
             /\ Count(k, "error") = 1 /\ Count(k, "failure") = 1 /\ Count(k, "fileop") = 0
             /\ k \in Echo \/ Count(k, "done") = 0
      BY <3>2, <3>3 DEF Tally
    <3>5. k \notin Echo =>
             \/ /\ Count(k, "done") = 1 /\ Count(k, "error") + Count(k, "failure") = 0
                /\ Count(k, "fileop") + Count(k, "toolarge") \in {1, 2}
             \/ /\ Count(k, "done") + Count(k, "fileop") = 0
                /\ Count(k, "error") + Count(k, "failure") + Count(k, "toolarge") = 2
      BY <3>2, <3>3 DEF Tally
    <3> QED  BY <2>5, <3>2, <3>4, <3>5 DEF Tally
  <2> QED  BY <2>4, <2>5
<1> QED  BY <1>1, InitIInv, NextIInv, PTL DEF Spec

\* The pool has at most its workers' extractions in flight, and none when synthesis begins,
\* with every segment taken.
THEOREM PoolCorrect == Spec => []PoolDrained
<1>1. IInv => PoolDrained
  BY DEF IInv, Typed, Good, Drained, PoolDrained
<1> QED  BY InitIInv, NextIInv, <1>1, PTL DEF Spec
=============================================================================
