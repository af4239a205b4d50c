------------------------------ MODULE Workflow ------------------------------
(***************************************************************************)
(* The Python worker behind the worker manager: one thread per request     *)
(* line (run_serve in src/src/server/modules/prompt_enhancer/cli.py), the  *)
(* strategies and their fallback (run_enhancement in workflow.py), and the *)
(* retries of a generation that does not fit into the context of the       *)
(* provider (generate in engine.py).                                       *)
(*                                                                         *)
(* A prompt is its length in characters, an answer is whether a JSON       *)
(* object can be extracted from it, and a provider overflows when a        *)
(* quarter of the characters and the tokens asked for exceed its window;   *)
(* it may fail for any other reason at any call.  Search results, grounding*)
(* and the texts of fields decide nothing but the wording, except that     *)
(* research without sources asks for no synthesis.                         *)
(*                                                                         *)
(* Definitions whose name ends in _Faulty... are deliberate errors: they   *)
(* stand in for the definition after them to show that a property notices. *)
(***************************************************************************)
EXTENDS Naturals, SequencesExt

CONSTANTS
    Request,      \* the lines of standard input
    Fields,       \* Len(PROMPT_SPEC_FIELDS); the critique is one field more
    Strategies,   \* values of COWORK_PROMPT_ENHANCER_STRATEGY to consider
    Windows,      \* context windows of the provider to consider, in tokens
    Length        \* characters in the prompt of each kind of generation

ASSUME FieldsAssumption == Fields \in Nat \ {0}

ASSUME StrategyAssumption == Strategies \subseteq {"compiler", "single_pass", "field_loop"}

Generating == {"plan", "synth", "compile", "grammar", "single", "field"}

ASSUME SizeAssumption == Windows \subseteq Nat /\ Length \in [Generating -> Nat \ {0}]

VARIABLES
    config,      \* what the process was started with: strategy, grammar and window
    open,        \* standard input is open; the threads are daemons and end with it
    stage,       \* how far the thread of a line is
    ask,         \* the generation a thread is in: attempt, tokens, length, and the field of a loop
    metrics,     \* engine._metrics_local: the calls recorded and the code of the last one
    made,        \* the calls a thread has made for its line
    answer,      \* the response of a line
    lock,        \* stdout_lock: the thread that holds it, or "free"
    stdout       \* what was printed: the text of a response, and the end of its line

vars == <<config, open, stage, ask, metrics, made, answer, lock, stdout>>

Attempts == 5

Stages == Generating \cup {"unread", "started", "answered", "printing", "over"}

Codes == {"none", "ok", "provider_context_overflow", "provider_error"}
Modes == {"compiler", "single_pass_full_spec", "single_generic_prompt_template"}

\* The tokens each kind of generation asks for, as the environment leaves them.
Budget == [s \in Generating |->
    CASE s = "plan" -> 256 [] s = "synth" -> 1536 [] s = "compile" -> 2048
      [] s \in {"grammar", "single"} -> 4608 [] s = "field" -> 320]

NoAnswer == [kind |-> "none"]
Error == [kind |-> "error"]
Prompt(mode, calls) ==
    [kind |-> "prompt", mode |-> mode, calls |-> calls,
     fallback |-> /\ config.strategy \in {"compiler", "single_pass"}
                  /\ mode = "single_generic_prompt_template"]

Init ==
    /\ config \in [strategy : Strategies, grammar : BOOLEAN, window : Windows]
    /\ config.grammar => config.strategy = "single_pass"
    /\ open = TRUE
    /\ stage = [r \in Request |-> "unread"]
    /\ ask = [r \in Request |-> [attempt |-> 0, tokens |-> 0, length |-> 0, field |-> 0]]
    /\ metrics = [r \in Request |-> [calls |-> 0, last |-> "none"]]
    /\ made = [r \in Request |-> 0]
    /\ answer = [r \in Request |-> NoAnswer]
    /\ lock = "free"
    /\ stdout = <<>>

------------------------------------------------------------------------------
(* One generation *)

Fits(a) == a.length \div 4 + a.tokens =< config.window

Calling(r) == open /\ stage[r] \in Generating

\* A generation starts with its whole budget; field counts the fields of a loop, from 1.
Generate(r, s, field) ==
    /\ stage' = [stage EXCEPT ![r] = s]
    /\ ask' = [ask EXCEPT ![r] =
                  [attempt |-> 1, tokens |-> Budget[s], length |-> Length[s], field |-> field]]

\* Half the tokens down to 256, then the last three quarters of the prompt down to 256
\* characters: nothing is left to shrink when both are there.
Floored(a) == a.tokens =< 256 /\ a.length =< 256

Shrunk_FaultySlow(a) ==
    IF a.tokens > 256
    THEN [a EXCEPT !.attempt = @ + 1, !.tokens = IF (3 * @) \div 4 > 256 THEN (3 * @) \div 4 ELSE 256]
    ELSE [a EXCEPT !.attempt = @ + 1,
                   !.length = IF (3 * @) \div 4 > 256 THEN (3 * @) \div 4 ELSE 256,
                   !.tokens = IF @ > 128 THEN 128 ELSE @]

Shrunk(a) ==
    IF a.tokens > 256
    THEN [a EXCEPT !.attempt = @ + 1, !.tokens = IF @ \div 2 > 256 THEN @ \div 2 ELSE 256]
    ELSE [a EXCEPT !.attempt = @ + 1,
                   !.length = IF (3 * @) \div 4 > 256 THEN (3 * @) \div 4 ELSE 256,
                   !.tokens = IF @ > 128 THEN 128 ELSE @]

\* The list of calls a thread sees: threading.local() gives each its own.
Local_FaultyShared(r) == CHOOSE q \in Request : TRUE
Local(r) == r

Recorded(r, code) ==
    /\ metrics' = [metrics EXCEPT ![Local(r)] = [calls |-> @.calls + 1, last |-> code]]
    /\ made' = [made EXCEPT ![r] = @ + 1]

------------------------------------------------------------------------------
(* Strategies *)

Respond(r, response) ==
    /\ stage' = [stage EXCEPT ![r] = "answered"]
    /\ answer' = [answer EXCEPT ![r] = response]

\* snapshot_metrics() after the workflow: the call that ends it is in the list.
Deliver(r, mode) ==
    /\ Respond(r, Prompt(mode, metrics'[Local(r)].calls))
    /\ UNCHANGED ask

FieldLoop(r) == Generate(r, "field", 1) /\ UNCHANGED answer

\* run_deep_research after its planning: without a source there is no report.
Search(r) == \E s \in {"synth", "compile"} : Generate(r, s, 0) /\ UNCHANGED answer

\* generate() returned a text.
Returned(r) ==
    CASE stage[r] = "plan" -> Search(r)
      [] stage[r] = "synth" -> Generate(r, "compile", 0) /\ UNCHANGED answer
      [] stage[r] = "compile" -> Deliver(r, "compiler") \/ FieldLoop(r)
      [] stage[r] \in {"grammar", "single"} -> Deliver(r, "single_pass_full_spec") \/ FieldLoop(r)
      [] stage[r] = "field" /\ ask[r].field =< Fields ->
            Generate(r, "field", ask[r].field + 1) /\ UNCHANGED answer
      [] OTHER -> Deliver(r, "single_generic_prompt_template")

\* generate() raised: every strategy but the field loop, and research, catch it.
Raised_FaultyUncaught(r) ==
    CASE stage[r] = "plan" -> Search(r)
      [] stage[r] = "synth" -> Generate(r, "compile", 0) /\ UNCHANGED answer
      [] stage[r] = "grammar" -> Generate(r, "single", 0) /\ UNCHANGED answer
      [] OTHER -> Respond(r, Error) /\ UNCHANGED ask

Raised(r) ==
    CASE stage[r] = "plan" -> Search(r)
      [] stage[r] = "synth" -> Generate(r, "compile", 0) /\ UNCHANGED answer
      [] stage[r] = "grammar" -> Generate(r, "single", 0) /\ UNCHANGED answer
      [] stage[r] \in {"compile", "single"} -> FieldLoop(r)
      [] OTHER -> Respond(r, Error) /\ UNCHANGED ask

Idle == UNCHANGED <<config, open, lock, stdout>>

\* The provider answered, with or without a JSON object in it.
Answered(r) ==
    /\ Calling(r) /\ Fits(ask[r])
    /\ Recorded(r, "ok")
    /\ Returned(r)
    /\ Idle

\* The call fails for another reason than its size, or times out.
Failed(r) ==
    /\ Calling(r)
    /\ Recorded(r, "provider_error")
    /\ Raised(r)
    /\ Idle

\* A ProviderContextError with an attempt left.
Retry(r) ==
    /\ Calling(r) /\ ~Fits(ask[r])
    /\ ~Floored(ask[r]) /\ ask[r].attempt < Attempts
    /\ Recorded(r, "provider_context_overflow")
    /\ ask' = [ask EXCEPT ![r] = Shrunk(@)]
    /\ UNCHANGED <<stage, answer>> /\ Idle

\* A ProviderContextError with nothing left to shrink or no attempt left.
GiveUp(r) ==
    /\ Calling(r) /\ ~Fits(ask[r])
    /\ Floored(ask[r]) \/ ask[r].attempt = Attempts
    /\ Recorded(r, "provider_context_overflow")
    /\ Raised(r)
    /\ Idle

------------------------------------------------------------------------------
(* The process *)

\* The main thread reads a line and starts its thread.
Read(r) ==
    /\ open /\ stage[r] = "unread"
    /\ stage' = [stage EXCEPT ![r] = "started"]
    /\ UNCHANGED <<config, open, ask, metrics, made, answer, lock, stdout>>

\* The thread parses its line, clears its list and enters a strategy.  A search is one for
\* the compiler only, and only when it is asked for and not switched off.
Begin(r) ==
    /\ open /\ stage[r] = "started"
    /\ metrics' = [metrics EXCEPT ![Local(r)] = [calls |-> 0, last |-> "none"]]
    /\ CASE config.strategy = "compiler" -> \E s \in {"plan", "compile"} : Generate(r, s, 0)
         [] config.strategy = "single_pass" -> Generate(r, IF config.grammar THEN "grammar" ELSE "single", 0)
         [] OTHER -> Generate(r, "field", 1)
    /\ UNCHANGED <<config, open, made, answer, lock, stdout>>

\* A line that is not a request: its thread answers with an error, and makes no call.
Malformed(r) ==
    /\ open /\ stage[r] = "started"
    /\ Respond(r, [kind |-> "malformed"])
    /\ UNCHANGED <<config, open, ask, metrics, made, lock, stdout>>

\* print() writes the text and then the end of the line.
StartPrint_FaultyNoLock(r) ==
    /\ open /\ stage[r] = "answered"
    /\ lock' = r
    /\ stage' = [stage EXCEPT ![r] = "printing"]
    /\ stdout' = Append(stdout, <<r, "text">>)
    /\ UNCHANGED <<config, open, ask, metrics, made, answer>>

StartPrint(r) ==
    /\ open /\ stage[r] = "answered"
    /\ lock = "free"
    /\ lock' = r
    /\ stage' = [stage EXCEPT ![r] = "printing"]
    /\ stdout' = Append(stdout, <<r, "text">>)
    /\ UNCHANGED <<config, open, ask, metrics, made, answer>>

EndPrint(r) ==
    /\ open /\ stage[r] = "printing"
    /\ lock' = "free"
    /\ stage' = [stage EXCEPT ![r] = "over"]
    /\ stdout' = Append(stdout, <<r, "newline">>)
    /\ UNCHANGED <<config, open, ask, metrics, made, answer>>

\* The end of input ends the main thread, and the process with every thread.
EndOfInput ==
    /\ open
    /\ open' = FALSE
    /\ UNCHANGED <<config, stage, ask, metrics, made, answer, lock, stdout>>

Thread(r) ==
    \/ Begin(r) \/ Malformed(r)
    \/ Answered(r) \/ Failed(r) \/ Retry(r) \/ GiveUp(r)
    \/ StartPrint(r) \/ EndPrint(r)

Next == (\E r \in Request : Read(r) \/ Thread(r)) \/ EndOfInput

Spec == Init /\ [][Next]_vars

\* Threads are scheduled, and the provider's timeout ends a call that is not answered.
Fairness == \A r \in Request : WF_vars(Thread(r))

FairSpec == Spec /\ Fairness

------------------------------------------------------------------------------
(* Properties *)

\* Every variable has its type: the stages, the attempts of engine.generate and the responses.
TypeOK ==
    /\ config \in [strategy : Strategies, grammar : BOOLEAN, window : Windows]
    /\ open \in BOOLEAN
    /\ stage \in [Request -> Stages]
    /\ ask \in [Request -> [attempt : 0 .. Attempts, tokens : Nat, length : Nat, field : 0 .. Fields + 1]]
    /\ metrics \in [Request -> [calls : Nat, last : Codes]]
    /\ made \in [Request -> Nat]
    /\ answer \in [Request -> {NoAnswer, Error, [kind |-> "malformed"]} \cup
                      [kind : {"prompt"}, mode : Modes, calls : Nat, fallback : BOOLEAN]]
    /\ lock \in Request \cup {"free"}
    /\ stdout \in Seq(Request \X {"text", "newline"})

\* The trace of a response counts the calls made for its line, whatever the threads that run
\* beside it recorded, and through retries, research and fallback (cli.py:68, engine.py:62).
TraceAccounted ==
    TypeOK /\ \A r \in Request : answer[r].kind = "prompt" => answer[r].calls = made[r]

\* A request that is well formed fails only when a call of the field loop failed: whatever
\* happens in another strategy is caught, and a prompt that comes from the field loop in its
\* place says so (workflow.py:115 and :124, cli.py:71).  This is all that holds of the
\* delivery the documentation promises, which is FallbackDelivers.
OutcomeHonest ==
    \A r \in Request :
        /\ answer[r].kind = "error" => ask[r].field > 0 /\ metrics[r].last # "ok"
        /\ answer[r].kind = "prompt" =>
              (answer[r].fallback <=> ask[r].field > 0 /\ config.strategy # "field_loop")

\* What the documentation says of the fallback, and the code does not do: a provider that
\* fails, too, leaves a path on which a prompt is delivered.  The calls of the field loop,
\* which is that path, are not caught (strategies.py:69, cli.py:91).
FallbackDelivers == \A r \in Request : answer[r].kind # "error"

\* Five attempts suffice for the default budgets of the compiler, of research and of a field:
\* none of them is given up for its size before its whole prompt was tried with no more than
\* 256 tokens.  A full specification, with 4608 tokens, is not covered: four halvings leave 288
\* (engine.py:118, strategies.py:191).
GiveUpJustified ==
    [][\A r \in Request :
          (/\ stage[r] \in {"plan", "synth", "compile", "field"}
           /\ stage'[r] # stage[r]
           /\ metrics'[r].last = "provider_context_overflow")
          => ask[r].tokens =< 256]_vars

\* Every line that was read is answered by one whole line that no other response was mixed
\* into, unless the process ends, whatever the provider does, whatever the line holds and
\* however the threads are scheduled (cli.py:50-96).
EveryLineAnswered ==
    \A r \in Request : stage[r] = "started" ~>
        \/ ~open
        \/ \E i \in 2 .. Len(stdout) : stdout[i - 1] = <<r, "text">> /\ stdout[i] = <<r, "newline">>
=============================================================================
