--------------------------- MODULE CommandRuntime ---------------------------
(***************************************************************************)
(* What a connection does with a command (registerTool in                  *)
(* src/src/server/tools/runtime.ts): admission, the compression head, the  *)
(* tool, the outcome, and the loop-back to the menu; and the stream of     *)
(* frames this writes to the socket, with the coalescing of                *)
(* $WSServer.emit.                                                         *)
(*                                                                         *)
(* The scheduler is represented by its specification, AdmissionControl,    *)
(* which Scheduler.tla implements.  The tools are the two compilers        *)
(* (runEnhancement) and echo; system-info is an echo that does not sleep.  *)
(* The worker behind enhancePrompt() is WorkerManager.tla; here it answers *)
(* or fails, and ends when the signal aborts.  The connection stays open,  *)
(* and a second frame with the same id never gets here (Gateway.tla).      *)
(* Frames of different commands are kept apart; of the statuses that are   *)
(* not terminal (start, progress, log) only those that are held back are   *)
(* recorded: no property tells the others apart.  A text that the server   *)
(* did not write itself (an artifact, the message of an echo, the error of *)
(* a provider or a worker) may be larger than a frame can be; whether it   *)
(* is, is a choice made where it is written.  A command without any text   *)
(* fails at once, as one whose local model does not become ready.          *)
(*                                                                         *)
(* Definitions whose name ends in _Faulty... are deliberate errors: they   *)
(* stand in for the definition after them to show that a property notices. *)
(***************************************************************************)
EXTENDS Naturals, FiniteSets, Sequences, Subsequences

CONSTANTS
    Command,        \* command ids of one session
    Echo,           \* those that name the echo tool; the others compile
    Inputs,         \* texts of a command to compress, at most
    Chunks,         \* segments a large input is cut into
    Pool,           \* COWORK_COMPRESS_CONCURRENCY
    MaxActive, MaxPerSession, MaxQueued

ASSUME PoolAssumption ==
    Inputs \in Nat \ {0} /\ Chunks \in Nat \ {0} /\ Pool \in Nat \ {0}

ASSUME CommandAssumption == Echo \subseteq Command

VARIABLES
    line, busy, answer,  \* of AdmissionControl
    aborted,     \* why the signal of a run is aborted, "no" while it is not
    stage,       \* how far the run of a command is
    input,       \* which of its texts is compressed, from 1
    todo,        \* mapPool: the next segment
    calls,       \* mapPool: extractions in flight
    sent,        \* the frames written to the socket, per command, without these statuses
    held,        \* this.coalesced: the commands with a status kept back
    flushTimer   \* this.flushTimer is armed

admission == <<line, busy, answer>>
pool == <<input, todo, calls>>
statuses == <<held, flushTimer>>
stream == <<sent, statuses>>
vars == <<admission, aborted, stage, pool, stream>>

Session == "session"

Admission == INSTANCE AdmissionControl
    WITH Session <- {Session}, Key <- Command, SessionOf <- [k \in Command |-> Session]

Stages == {"none", "counting", "extracting", "synthesizing", "recounting", "tool",
           "echoing", "ended"}

\* "done" and "error" are the terminal statuses, "failure" is an error envelope, "menu"
\* the loop-back; "toolarge" is the error envelope in the place of a frame over a limit.
Frames == {"done", "error", "failure", "fileop", "menu", "toolarge"}

Init ==
    /\ Admission!Init
    /\ aborted = [k \in Command |-> "no"]
    /\ stage = [k \in Command |-> "none"]
    /\ input = [k \in Command |-> 1]
    /\ todo = [k \in Command |-> 0]
    /\ calls = [k \in Command |-> 0]
    /\ sent = [k \in Command |-> <<>>]
    /\ held = {}
    /\ flushTimer = FALSE

-----------------------------------------------------------------------------
(* The stream.                                                             *)

\* emit() and send() of other frames, which are written in any case, but for those over
\* the limit of a payload or a frame: of the kinds in `sized` any may be.
Emit(k, frames, sized) ==
    \E over \in SUBSET {i \in DOMAIN frames : frames[i] \in sized} :
        sent' = [sent EXCEPT ![k] =
                    @ \o [i \in DOMAIN frames |-> IF i \in over THEN "toolarge" ELSE frames[i]]]

\* status() of one or several statuses in one handler: the ones that find the socket's
\* buffer over the threshold are held back.
Status(k) ==
    \/ UNCHANGED statuses
    \/ held' = held \cup {k} /\ flushTimer' = TRUE

FlushSome(again) ==
    /\ again # held
    /\ held' = again
    /\ UNCHANGED <<admission, aborted, stage, pool, sent>>

Flush_FaultyOnce ==
    flushTimer /\ \E again \in SUBSET held : FlushSome(again) /\ flushTimer' = FALSE

\* The flush timer finds the buffer below the threshold (it is re-armed otherwise).
\* The buffer may fill up again while the held statuses are emitted.
Flush ==
    flushTimer /\ \E again \in SUBSET held : FlushSome(again) /\ flushTimer' = (again # {})

-----------------------------------------------------------------------------
(* The end of a command.                                                   *)

\* The frames of a failed command: the status, the error envelope, the menu.
Failed == <<"error", "failure", "menu">>

\* The run of k is over; what it still emits, but for statuses, is `frames`.
End(k, how, frames, sized) ==
    /\ Admission!Finish(k, how)
    /\ stage' = [stage EXCEPT ![k] = "ended"]
    /\ Emit(k, frames, sized)

\* The run fails: by the abort reason, a text of the server's, when its signal is aborted;
\* an error of its own it reports itself, and resolves.
Fail(k, frames) ==
    \/ /\ aborted[k] = "no"
       /\ End(k, "resolved", frames \o Failed, {"error", "failure"})
    \/ /\ aborted[k] # "no"
       /\ End(k, aborted[k], frames \o Failed, {"done"})

\* cancel() or the deadline, of a running command.  The first reason stays.
Abort(k) ==
    /\ k \in busy /\ aborted[k] = "no"
    /\ \E why \in {"cancelled", "timeout"} : aborted' = [aborted EXCEPT ![k] = why]
    /\ UNCHANGED <<admission, stage, pool, stream>>

\* The same, of a waiting command.
AbortWaiting ==
    /\ \E i \in DOMAIN line[Session], why \in {"cancelled", "timeout"} :
          /\ Admission!GiveUp(Session, i, why)
          /\ stage' = [stage EXCEPT ![line[Session][i]] = "ended"]
          /\ Emit(line[Session][i], Failed, {})
    /\ UNCHANGED <<aborted, pool, statuses>>

-----------------------------------------------------------------------------
(* The beginning of a command.                                             *)

\* The run up to its first await: the compilers have compressible inputs, echo has
\* none and reports at once.
BeginRun(k) ==
    IF k \in Echo
    THEN stage' = [stage EXCEPT ![k] = "tool"] /\ Status(k)
    ELSE stage' = [stage EXCEPT ![k] = "counting"] /\ UNCHANGED statuses

\* A command frame: it starts, waits, or is refused.
Receive(k) ==
    /\ answer[k] = "none"
    /\ \/ Admission!Begin(k) /\ BeginRun(k) /\ UNCHANGED sent
       \/ Admission!Wait(k) /\ UNCHANGED <<stage, stream>>
       \/ /\ Admission!Refuse(k)
          /\ stage' = [stage EXCEPT ![k] = "ended"]
          /\ Emit(k, Failed, {})
          /\ UNCHANGED statuses
    /\ UNCHANGED <<aborted, pool>>

\* The scheduler starts the oldest waiting command.
StartWaiting ==
    /\ Admission!Proceed(Session)
    /\ BeginRun(Head(line[Session]))
    /\ UNCHANGED <<aborted, pool, sent>>

-----------------------------------------------------------------------------
(* The compression head (compressContext).                                 *)

\* runEnhancement() reports its start, then enhancePrompt() refuses a signal that is
\* aborted already.
StartTool(k) ==
    /\ Status(k)
    /\ \/ aborted[k] # "no" /\ Fail(k, <<>>)
       \/ /\ aborted[k] = "no"
          /\ stage' = [stage EXCEPT ![k] = "tool"]
          /\ UNCHANGED <<admission, sent>>

\* compressToolInputs() goes on with another text of the command.
NextInput(k) ==
    /\ input[k] < Inputs
    /\ input' = [input EXCEPT ![k] = @ + 1]
    /\ todo' = [todo EXCEPT ![k] = 0]
    /\ stage' = [stage EXCEPT ![k] = "counting"]
    /\ UNCHANGED <<admission, calls, sent>>

\* An input is counted (an abort does not stop that).  A small one is left as it is, a
\* large one is cut into segments and the workers of the pool take the first ones; the
\* local model may not become ready.
Counted(k) ==
    /\ stage[k] = "counting"
    /\ \/ NextInput(k) /\ UNCHANGED statuses
       \/ StartTool(k) /\ UNCHANGED pool
       \/ Fail(k, <<>>) /\ UNCHANGED <<pool, statuses>>
       \/ LET workers == IF Pool < Chunks THEN Pool ELSE Chunks
          IN  /\ stage' = [stage EXCEPT ![k] = "extracting"]
              /\ todo' = [todo EXCEPT ![k] = workers]
              /\ calls' = [calls EXCEPT ![k] = workers]
              /\ Status(k)
              /\ UNCHANGED <<admission, input, sent>>
    /\ UNCHANGED aborted

Extracted_FaultyEager(k) ==
    /\ calls[k] > 0 /\ aborted[k] = "no"
    /\ IF todo[k] < Chunks
       THEN todo' = [todo EXCEPT ![k] = @ + 1] /\ UNCHANGED calls
       ELSE calls' = [calls EXCEPT ![k] = @ - 1] /\ UNCHANGED todo
    /\ IF stage[k] = "extracting" /\ todo'[k] = Chunks
       THEN stage' = [stage EXCEPT ![k] = "synthesizing"]
       ELSE UNCHANGED stage
    /\ Status(k)
    /\ UNCHANGED <<admission, aborted, input, sent>>

\* A worker of the pool got its extract: it takes the next segment, or stops.  It does
\* so also after another worker's failure has ended the command.
Extracted(k) ==
    /\ calls[k] > 0 /\ aborted[k] = "no"
    /\ IF todo[k] < Chunks
       THEN todo' = [todo EXCEPT ![k] = @ + 1] /\ UNCHANGED calls
       ELSE calls' = [calls EXCEPT ![k] = @ - 1] /\ UNCHANGED todo
    /\ IF stage[k] = "extracting" /\ calls'[k] = 0
       THEN stage' = [stage EXCEPT ![k] = "synthesizing"]
       ELSE UNCHANGED stage
    /\ Status(k)
    /\ UNCHANGED <<admission, aborted, input, sent>>

\* An extraction fails: its worker stops; the first failure ends the command.
ExtractFailed(k) ==
    /\ calls[k] > 0 /\ aborted[k] = "no"
    /\ calls' = [calls EXCEPT ![k] = @ - 1]
    /\ IF stage[k] = "extracting" THEN Fail(k, <<>>)
                                  ELSE UNCHANGED <<admission, stage, sent>>
    /\ UNCHANGED <<aborted, input, todo, statuses>>

\* The aborted signal rejects every provider call of the command.
CallsAborted(k) ==
    /\ stage[k] \in {"extracting", "synthesizing"} /\ aborted[k] # "no"
    /\ calls' = [calls EXCEPT ![k] = 0]
    /\ Fail(k, <<>>)
    /\ UNCHANGED <<aborted, input, todo, statuses>>

Synthesized(k) ==
    /\ stage[k] = "synthesizing" /\ aborted[k] = "no"
    /\ \/ /\ stage' = [stage EXCEPT ![k] = "recounting"]
          /\ UNCHANGED <<admission, sent>>
       \/ Fail(k, <<>>)
    /\ UNCHANGED <<aborted, pool, statuses>>

Recounted(k) ==
    /\ stage[k] = "recounting"
    /\ \/ NextInput(k) /\ Status(k)
       \/ StartTool(k) /\ UNCHANGED pool
    /\ UNCHANGED aborted

-----------------------------------------------------------------------------
(* The tools.                                                              *)

Enhanced_FaultyDeaf(k) ==
    /\ stage[k] = "tool" /\ k \notin Echo
    /\ IF aborted[k] = "no" THEN End(k, "resolved", <<"fileop", "done", "menu">>, {"fileop"})
                            ELSE Fail(k, <<"fileop", "done">>)
    /\ Status(k)
    /\ UNCHANGED <<aborted, pool>>

\* The worker answers: the prompt is written, after the report if there was research,
\* unless the client cannot; or the worker fails.  An artifact over the limit does not
\* reach the client, and the tool, which is not told, reports that it is done.
Enhanced(k) ==
    /\ stage[k] = "tool" /\ k \notin Echo /\ aborted[k] = "no"
    /\ \/ End(k, "resolved", <<"fileop", "done", "menu">>, {"fileop"})
       \/ End(k, "resolved", <<"fileop", "fileop", "done", "menu">>, {"fileop"})
       \/ Fail(k, <<>>)
    /\ Status(k)
    /\ UNCHANGED <<aborted, pool>>

\* The abort listener of enhancePrompt() rejects.
EnhanceAborted(k) ==
    /\ stage[k] = "tool" /\ k \notin Echo /\ aborted[k] # "no"
    /\ Fail(k, <<>>)
    /\ UNCHANGED <<aborted, pool, statuses>>

\* echo sleeps twice and does not look at its signal.
EchoHalf(k) ==
    /\ stage[k] = "tool" /\ k \in Echo
    /\ stage' = [stage EXCEPT ![k] = "echoing"]
    /\ Status(k)
    /\ UNCHANGED <<admission, aborted, pool, sent>>

\* The runtime looks at it after the tool has reported that it is done.
EchoDone(k) ==
    /\ stage[k] = "echoing"
    /\ \/ aborted[k] = "no" /\ End(k, "resolved", <<"done", "menu">>, {"done"})
       \/ aborted[k] # "no" /\ Fail(k, <<"done">>)
    /\ UNCHANGED <<aborted, pool, statuses>>

-----------------------------------------------------------------------------
Advance(k) ==
    \/ Counted(k) \/ Extracted(k) \/ ExtractFailed(k) \/ CallsAborted(k)
    \/ Synthesized(k) \/ Recounted(k)
    \/ Enhanced(k) \/ EnhanceAborted(k) \/ EchoHalf(k) \/ EchoDone(k)

Next ==
    \/ \E k \in Command : Receive(k) \/ Abort(k) \/ Advance(k)
    \/ AbortWaiting \/ StartWaiting \/ Flush

Spec == Init /\ [][Next]_vars

\* Provider calls, workers and sleeps end, one way or the other (each has a deadline);
\* the scheduler starts what it can; the buffer drains at last.
Fairness ==
    /\ \A k \in Command : WF_vars(Advance(k))
    /\ WF_vars(StartWaiting) /\ WF_vars(Flush)

FairSpec == Spec /\ Fairness

-----------------------------------------------------------------------------
TypeOK ==
    /\ line \in [{Session} -> Seq(Command)] /\ busy \subseteq Command
    /\ aborted \in [Command -> {"no", "cancelled", "timeout"}]
    /\ stage \in [Command -> Stages]
    /\ input \in [Command -> 1..Inputs]
    /\ todo \in [Command -> 0..Chunks]
    /\ calls \in [Command -> 0..Pool]
    /\ sent \in [Command -> Seq(Frames)]
    /\ held \subseteq Command
    /\ flushTimer \in BOOLEAN

\* How many frames of a kind were written for a command.
Count(k, f) == Len(Only(sent[k], {f}))

\* What an observer of the connection sees of a command: what was settled, and how,
\* agrees with what was written, with one menu in the end and no second outcome.  A
\* compilation that says it is done has written its artifacts, or what the size limits
\* made of them, and no error; one that failed has written an error twice, as a status
\* and as an envelope, or what the limits made of these, and no artifact.  One that was
\* refused, cancelled or timed out is told so in full and has delivered nothing, whenever
\* the abort came: while it waited, was counted, compressed, written or compiled
\* (registerTool, compressContext, enhancePrompt, $WSServer.emit and send).  echo is the
\* exception: it says that it is done before its abort is reported.
OutcomeReported ==
    \A k \in Command :
        /\ Count(k, "menu") = IF stage[k] = "ended" THEN 1 ELSE 0
        /\ stage[k] # "ended" => Count(k, "done") + Count(k, "error") + Count(k, "fileop") = 0
        /\ answer[k] \in {"cancelled", "timeout", "overloaded"} =>
              Count(k, "error") = 1 /\ Count(k, "failure") = 1
        /\ stage[k] = "ended" /\ k \notin Echo =>
              \/ /\ Count(k, "done") = 1 /\ Count(k, "error") + Count(k, "failure") = 0
                 /\ Count(k, "fileop") + Count(k, "toolarge") \in {1, 2}
              \/ /\ Count(k, "done") + Count(k, "fileop") = 0
                 /\ Count(k, "error") + Count(k, "failure") + Count(k, "toolarge") = 2
        /\ aborted[k] # "no" => Count(k, "fileop") = 0 /\ (k \in Echo \/ Count(k, "done") = 0)

\* The pool never has more extractions in flight for a command than it has workers,
\* and when synthesis begins none is left and every segment was taken (mapPool).
PoolDrained ==
    TypeOK /\ \A k \in Command :
        stage[k] \in {"synthesizing", "recounting", "tool"} /\ todo[k] > 0 =>
            calls[k] = 0 /\ todo[k] = Chunks

\* No tool leaves the session stuck: every command that was received gets its menu, and
\* the last status that was held back is written although the flush that tries to may
\* find the buffer full again (registerTool, $WSServer.scheduleFlush).
ReturnsToMenu ==
    \A k \in Command : answer[k] # "none" ~> Count(k, "menu") > 0 /\ k \notin held
=============================================================================
