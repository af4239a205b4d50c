--------------------------- MODULE WorkflowProofs ---------------------------
(* The trace and the outcome of a response (Workflow), for any number of   *)
(* request lines, of fields, any budget window and any length of prompt:   *)
(* the safety invariants of the run `workflow`, with their proofs.         *)
EXTENDS Workflow, TLAPS

\* The strengthening.  A line without a thread, or whose thread has not entered a strategy,
\* has made no call; until it is answered, the list of its thread counts what it made; and a
\* generation belongs to the field loop exactly when it is of one of the loop's fields.
NothingMade(r) ==
    stage[r] \in {"unread", "started"} => made[r] = 0

Unanswered(r) ==
    stage[r] \in Generating \cup {"unread", "started"} => answer[r] = NoAnswer

CallsCounted(r) ==
    stage[r] \in Generating => metrics[r].calls = made[r]

InLoop(r) ==
    stage[r] \in Generating => (stage[r] = "field" <=> ask[r].field > 0)

Answers(r) ==
    /\ answer[r].kind = "prompt" => answer[r].calls = made[r]
    /\ answer[r].kind = "error" => ask[r].field > 0 /\ metrics[r].last # "ok"
    /\ answer[r].kind = "prompt" =>
          (answer[r].fallback <=> ask[r].field > 0 /\ config.strategy # "field_loop")

Line(r) == NothingMade(r) /\ Unanswered(r) /\ CallsCounted(r) /\ InLoop(r) /\ Answers(r)

IInv == TypeOK /\ \A r \in Request : Line(r)

\* How a call ends for its line: another generation is started, or the line is answered by a
\* prompt, or, in the field loop and after a call that failed, by an error.
Goes(r) ==
    /\ \E s \in Generating, f \in 0 .. Fields + 1 :
          (s = "field" <=> f > 0) /\ Generate(r, s, f)
    /\ UNCHANGED answer

Serves(r) ==
    /\ \E m \in Modes :
          /\ m = "single_generic_prompt_template" <=> stage[r] = "field"
          /\ Respond(r, Prompt(m, metrics'[r].calls))
    /\ UNCHANGED ask

Fails(r, code) ==
    /\ stage[r] = "field" /\ code # "ok"
    /\ Respond(r, Error)
    /\ UNCHANGED ask

------------------------------------------------------------------------------
\* Whatever a generation returns, the line goes on with another or is served with a prompt.
LEMMA ReturnedShape ==
    ASSUME IInv, NEW r \in Request, Calling(r), Returned(r)
    PROVE  Goes(r) \/ Serves(r)
<1>1. stage[r] \in Generating /\ ask[r].field \in 0 .. Fields + 1 /\ InLoop(r)
  BY DEF IInv, TypeOK, Line, Calling
<1>2. CASE stage[r] = "plan"
  BY <1>2, FieldsAssumption DEF Returned, Search, Goes, Generating
<1>3. CASE stage[r] = "synth"
  BY <1>3, FieldsAssumption DEF Returned, Goes, Generating
<1>4. CASE stage[r] = "compile"
  BY <1>4, FieldsAssumption DEF Returned, FieldLoop, Deliver, Local, Goes, Serves, Generating, Modes
<1>5. CASE stage[r] \in {"grammar", "single"}
  BY <1>5, FieldsAssumption DEF Returned, FieldLoop, Deliver, Local, Goes, Serves, Generating, Modes
<1>6. CASE stage[r] = "field" /\ ask[r].field =< Fields
  BY <1>1, <1>6, FieldsAssumption DEF Returned, Goes, Generating
<1>7. CASE stage[r] = "field" /\ ~(ask[r].field =< Fields)
  BY <1>7 DEF Returned, Deliver, Local, Serves, Modes
<1> QED  BY <1>1, <1>2, <1>3, <1>4, <1>5, <1>6, <1>7 DEF Generating

\* Whatever a generation raises, the line goes on, unless it was one of the field loop.
LEMMA RaisedShape ==
    ASSUME IInv, NEW r \in Request, NEW code, code # "ok", Calling(r), Raised(r)
    PROVE  Goes(r) \/ Fails(r, code)
<1>1. stage[r] \in Generating
  BY DEF Calling
<1>2. CASE stage[r] = "plan"
  BY <1>2, FieldsAssumption DEF Raised, Search, Goes, Generating
<1>3. CASE stage[r] = "synth"
  BY <1>3, FieldsAssumption DEF Raised, Goes, Generating
<1>4. CASE stage[r] = "grammar"
  BY <1>4, FieldsAssumption DEF Raised, Goes, Generating
<1>5. CASE stage[r] \in {"compile", "single"}
  BY <1>5, FieldsAssumption DEF Raised, FieldLoop, Goes, Generating
<1>6. CASE stage[r] = "field"
  BY <1>6 DEF Raised, Fails
<1> QED  BY <1>1, <1>2, <1>3, <1>4, <1>5, <1>6 DEF Generating

------------------------------------------------------------------------------
\* A recorded call is one call more, and its code, for the thread that made it alone.
LEMMA RecordedStep ==
    ASSUME TypeOK, NEW r \in Request, NEW code \in Codes, Recorded(r, code)
    PROVE  /\ metrics' \in [Request -> [calls : Nat, last : Codes]]
           /\ made' \in [Request -> Nat]
           /\ metrics'[r] = [calls |-> metrics[r].calls + 1, last |-> code]
           /\ made'[r] = made[r] + 1
           /\ \A q \in Request \ {r} : metrics'[q] = metrics[q] /\ made'[q] = made[q]
<1> DEFINE call == [calls |-> metrics[r].calls + 1, last |-> code]
<1>1. /\ metrics \in [Request -> [calls : Nat, last : Codes]]
      /\ made \in [Request -> Nat]
  BY DEF TypeOK
<1>2. /\ metrics' = [metrics EXCEPT ![r] = call]
      /\ made' = [made EXCEPT ![r] = @ + 1]
  BY DEF Recorded, Local
<1>3. call \in [calls : Nat, last : Codes] /\ made[r] + 1 \in Nat
  BY <1>1
<1> HIDE DEF call
<1>4. /\ metrics' \in [Request -> [calls : Nat, last : Codes]]
      /\ metrics'[r] = call
      /\ \A q \in Request \ {r} : metrics'[q] = metrics[q]
  BY <1>1, <1>2, <1>3
<1>5. /\ made' \in [Request -> Nat]
      /\ made'[r] = made[r] + 1
      /\ \A q \in Request \ {r} : made'[q] = made[q]
  BY <1>1, <1>2, <1>3
<1> QED  BY <1>4, <1>5 DEF call

\* A generation that starts has a type, and no other line is touched.
LEMMA GenerateStep ==
    ASSUME TypeOK, NEW r \in Request, NEW s \in Generating, NEW f \in 0 .. Fields + 1, Generate(r, s, f)
    PROVE  /\ stage' \in [Request -> Stages]
           /\ ask' \in [Request -> [attempt : 0 .. Attempts, tokens : Nat, length : Nat, field : 0 .. Fields + 1]]
           /\ stage'[r] = s /\ ask'[r].field = f
           /\ \A q \in Request \ {r} : stage'[q] = stage[q] /\ ask'[q] = ask[q]
<1>1. Budget[s] \in Nat /\ Length[s] \in Nat /\ 1 \in 0 .. Attempts
  BY SizeAssumption DEF Budget, Generating, Attempts
<1>2. s \in Stages
  BY DEF Stages
<1> QED  BY <1>1, <1>2 DEF TypeOK, Generate

\* A response ends the line, and touches no other.
LEMMA RespondStep ==
    ASSUME TypeOK, NEW r \in Request, NEW x, Respond(r, x),
           x \in {Error, [kind |-> "malformed"]} \cup
                 [kind : {"prompt"}, mode : Modes, calls : Nat, fallback : BOOLEAN]
    PROVE  /\ stage' \in [Request -> Stages]
           /\ answer' \in [Request -> {NoAnswer, Error, [kind |-> "malformed"]} \cup
                              [kind : {"prompt"}, mode : Modes, calls : Nat, fallback : BOOLEAN]]
           /\ stage'[r] = "answered" /\ answer'[r] = x
           /\ \A q \in Request \ {r} : stage'[q] = stage[q] /\ answer'[q] = answer[q]
BY DEF TypeOK, Respond, Stages

\* What a line promises depends on the variables of that line.
LEMMA LineFrame ==
    ASSUME NEW q \in Request, Line(q), stage'[q] = stage[q], ask'[q] = ask[q],
           metrics'[q] = metrics[q], made'[q] = made[q], answer'[q] = answer[q], config' = config
    PROVE  Line(q)'
BY DEF Line, NothingMade, Unanswered, CallsCounted, InLoop, Answers

\* A call that ended, however its line goes on.
LEMMA CallStep ==
    ASSUME IInv, NEW r \in Request, NEW code \in Codes, Calling(r), Recorded(r, code), Idle,
           Goes(r) \/ Serves(r) \/ Fails(r, code)
    PROVE  IInv'
<1> USE DEF IInv
<1>1. TypeOK /\ Line(r) /\ stage[r] \in Generating
  BY DEF Calling
<1>2. metrics[r].calls = made[r] /\ answer[r] = NoAnswer /\ (stage[r] = "field" <=> ask[r].field > 0)
  BY <1>1 DEF Line, CallsCounted, Unanswered, InLoop
<1>3. /\ metrics' \in [Request -> [calls : Nat, last : Codes]]
      /\ made' \in [Request -> Nat]
      /\ metrics'[r] = [calls |-> metrics[r].calls + 1, last |-> code]
      /\ made'[r] = made[r] + 1
      /\ \A q \in Request \ {r} : metrics'[q] = metrics[q] /\ made'[q] = made[q]
  BY <1>1, RecordedStep
<1>4. metrics'[r].calls = made'[r] /\ metrics'[r].calls \in Nat /\ metrics'[r].last = code
  BY <1>1, <1>2, <1>3 DEF TypeOK
<1>5. config' = config /\ open' = open /\ lock' = lock /\ stdout' = stdout
  BY DEF Idle
<1>6. CASE Goes(r)
  <2>1. PICK s \in Generating, f \in 0 .. Fields + 1 :
           (s = "field" <=> f > 0) /\ Generate(r, s, f)
    BY <1>6 DEF Goes
  <2>2. answer' = answer
    BY <1>6 DEF Goes
  <2>3. /\ stage' \in [Request -> Stages]
        /\ ask' \in [Request -> [attempt : 0 .. Attempts, tokens : Nat, length : Nat, field : 0 .. Fields + 1]]
        /\ stage'[r] = s /\ ask'[r].field = f
        /\ \A q \in Request \ {r} : stage'[q] = stage[q] /\ ask'[q] = ask[q]
    BY <1>1, <2>1, GenerateStep
  <2>4. TypeOK'
    BY <1>1, <1>3, <1>5, <2>2, <2>3 DEF TypeOK
  <2>5. Line(r)'
    BY <1>2, <1>4, <2>1, <2>2, <2>3
       DEF Line, NothingMade, Unanswered, CallsCounted, InLoop, Answers, Generating, NoAnswer
  <2>6. \A q \in Request \ {r} : Line(q)'
    BY <1>3, <1>5, <2>2, <2>3, LineFrame
  <2> QED  BY <2>4, <2>5, <2>6
<1>7. CASE Serves(r)
  <2>1. PICK m \in Modes :
           /\ m = "single_generic_prompt_template" <=> stage[r] = "field"
           /\ Respond(r, Prompt(m, metrics'[r].calls))
    BY <1>7 DEF Serves
  <2>2. ask' = ask
    BY <1>7 DEF Serves
  <2> DEFINE x == Prompt(m, metrics'[r].calls)
  <2>3. x \in [kind : {"prompt"}, mode : Modes, calls : Nat, fallback : BOOLEAN]
    BY <1>4 DEF Prompt
  <2>4. /\ stage' \in [Request -> Stages]
        /\ answer' \in [Request -> {NoAnswer, Error, [kind |-> "malformed"]} \cup
                           [kind : {"prompt"}, mode : Modes, calls : Nat, fallback : BOOLEAN]]
        /\ stage'[r] = "answered" /\ answer'[r] = x
        /\ \A q \in Request \ {r} : stage'[q] = stage[q] /\ answer'[q] = answer[q]
    BY <1>1, <2>1, <2>3, RespondStep
  <2>5. TypeOK'
    BY <1>1, <1>3, <1>5, <2>2, <2>4 DEF TypeOK
  <2>6. x.kind = "prompt" /\ x.calls = made'[r]
        /\ (x.fallback <=> config.strategy \in {"compiler", "single_pass"} /\ stage[r] = "field")
    BY <1>4, <2>1 DEF Prompt
  <2>7. config.strategy \in {"compiler", "single_pass", "field_loop"}
    BY <1>1, StrategyAssumption DEF TypeOK
  <2>8. Line(r)'
    <3> HIDE DEF x
    <3> QED  BY <1>2, <1>5, <2>2, <2>4, <2>6, <2>7
       DEF Line, NothingMade, Unanswered, CallsCounted, InLoop, Answers, Generating
  <2>9. \A q \in Request \ {r} : Line(q)'
    BY <1>3, <1>5, <2>2, <2>4, LineFrame
  <2> QED  BY <2>5, <2>8, <2>9
<1>8. CASE Fails(r, code)
  <2>1. stage[r] = "field" /\ code # "ok" /\ ask' = ask /\ Respond(r, Error)
    BY <1>8 DEF Fails
  <2>2. /\ stage' \in [Request -> Stages]
        /\ answer' \in [Request -> {NoAnswer, Error, [kind |-> "malformed"]} \cup
                           [kind : {"prompt"}, mode : Modes, calls : Nat, fallback : BOOLEAN]]
        /\ stage'[r] = "answered" /\ answer'[r] = Error
        /\ \A q \in Request \ {r} : stage'[q] = stage[q] /\ answer'[q] = answer[q]
    BY <1>1, <2>1, RespondStep
  <2>3. TypeOK'
    BY <1>1, <1>3, <1>5, <2>1, <2>2 DEF TypeOK
  <2>4. Line(r)'
    BY <1>2, <1>4, <2>1, <2>2
       DEF Line, NothingMade, Unanswered, CallsCounted, InLoop, Answers, Generating, Error
  <2>5. \A q \in Request \ {r} : Line(q)'
    BY <1>3, <1>5, <2>1, <2>2, LineFrame
  <2> QED  BY <2>3, <2>4, <2>5
<1> QED  BY <1>6, <1>7, <1>8

------------------------------------------------------------------------------
\* A generation that is tried again with less stays the same generation.
LEMMA RetryStep ==
    ASSUME IInv, NEW r \in Request, Retry(r)
    PROVE  IInv'
<1>1. TypeOK /\ Line(r) /\ stage[r] \in Generating
  BY DEF IInv, Retry, Calling
<1>2. /\ config' = config /\ open' = open /\ lock' = lock /\ stdout' = stdout
      /\ stage' = stage /\ answer' = answer
  BY DEF Retry, Idle
<1>3. /\ metrics' \in [Request -> [calls : Nat, last : Codes]]
      /\ made' \in [Request -> Nat]
      /\ metrics'[r] = [calls |-> metrics[r].calls + 1, last |-> "provider_context_overflow"]
      /\ made'[r] = made[r] + 1
      /\ \A q \in Request \ {r} : metrics'[q] = metrics[q] /\ made'[q] = made[q]
  BY <1>1, RecordedStep DEF Retry, Codes
<1>4. PICK a : a = ask[r]
  OBVIOUS
<1>5. /\ a \in [attempt : 0 .. Attempts, tokens : Nat, length : Nat, field : 0 .. Fields + 1]
      /\ a.attempt < Attempts
  BY <1>1, <1>4 DEF TypeOK, Retry, Attempts
<1>6. /\ Shrunk(a) \in [attempt : 0 .. Attempts, tokens : Nat, length : Nat, field : 0 .. Fields + 1]
      /\ Shrunk(a).field = a.field
  <2> DEFINE halved == IF a.tokens \div 2 > 256 THEN a.tokens \div 2 ELSE 256
             cut == IF (3 * a.length) \div 4 > 256 THEN (3 * a.length) \div 4 ELSE 256
             floor == IF a.tokens > 128 THEN 128 ELSE a.tokens
             next == a.attempt + 1
  <2>1. next \in 0 .. Attempts /\ a.tokens \in Nat /\ a.length \in Nat
    BY <1>5 DEF Attempts
  <2>2. halved \in Nat /\ cut \in Nat /\ floor \in Nat
    BY <2>1
  <2>3. Shrunk(a) = IF a.tokens > 256
                    THEN [a EXCEPT !.attempt = next, !.tokens = halved]
                    ELSE [a EXCEPT !.attempt = next, !.length = cut, !.tokens = floor]
    BY <1>5 DEF Shrunk
  <2> HIDE DEF halved, cut, floor, next
  <2> QED  BY <1>5, <2>1, <2>2, <2>3
<1>7. ask' = [ask EXCEPT ![r] = Shrunk(a)]
  BY <1>4 DEF Retry
<1>8. TypeOK'
  BY <1>1, <1>2, <1>3, <1>6, <1>7 DEF TypeOK
<1>9. ask'[r].field = ask[r].field /\ \A q \in Request \ {r} : ask'[q] = ask[q]
  BY <1>1, <1>4, <1>6, <1>7 DEF TypeOK
<1>10. metrics'[r].calls = made'[r]
  BY <1>1, <1>3 DEF TypeOK, Line, CallsCounted
<1>11. Line(r)'
  BY <1>1, <1>2, <1>9, <1>10
     DEF Line, NothingMade, Unanswered, CallsCounted, InLoop, Answers, Generating, NoAnswer
<1>12. \A q \in Request \ {r} : Line(q)'
  BY <1>2, <1>3, <1>9, LineFrame DEF IInv
<1> QED  BY <1>8, <1>11, <1>12 DEF IInv

\* A thread enters its strategy with a generation.
LEMMA BeginShape ==
    ASSUME NEW r \in Request, Begin(r)
    PROVE  \E s \in Generating, f \in 0 .. Fields + 1 : (s = "field" <=> f > 0) /\ Generate(r, s, f)
<1>1. CASE config.strategy = "compiler"
  BY <1>1, FieldsAssumption DEF Begin, Generating
<1>2. CASE config.strategy = "single_pass"
  BY <1>2, FieldsAssumption DEF Begin, Generating
<1>3. CASE config.strategy \notin {"compiler", "single_pass"}
  BY <1>3, FieldsAssumption DEF Begin, Generating
<1> QED  BY <1>1, <1>2, <1>3

\* A thread that enters a strategy has an empty list, and has made no call.
LEMMA BeginStep ==
    ASSUME IInv, NEW r \in Request, Begin(r)
    PROVE  IInv'
<1>1. TypeOK /\ Line(r) /\ stage[r] = "started"
  BY DEF IInv, Begin
<1>2. /\ config' = config /\ open' = open /\ lock' = lock /\ stdout' = stdout
      /\ made' = made /\ answer' = answer
  BY DEF Begin
<1>3. /\ metrics' \in [Request -> [calls : Nat, last : Codes]]
      /\ metrics'[r].calls = 0
      /\ \A q \in Request \ {r} : metrics'[q] = metrics[q]
  BY <1>1 DEF Begin, TypeOK, Local, Codes
<1>4. PICK s \in Generating, f \in 0 .. Fields + 1 : (s = "field" <=> f > 0) /\ Generate(r, s, f)
  BY BeginShape
<1>5. /\ stage' \in [Request -> Stages]
      /\ ask' \in [Request -> [attempt : 0 .. Attempts, tokens : Nat, length : Nat, field : 0 .. Fields + 1]]
      /\ stage'[r] = s /\ ask'[r].field = f
      /\ \A q \in Request \ {r} : stage'[q] = stage[q] /\ ask'[q] = ask[q]
  BY <1>1, <1>4, GenerateStep
<1>6. TypeOK'
  BY <1>1, <1>2, <1>3, <1>5 DEF TypeOK
<1>7. made[r] = 0 /\ answer[r] = NoAnswer
  BY <1>1 DEF Line, NothingMade, Unanswered
<1>8. Line(r)'
  BY <1>2, <1>3, <1>4, <1>5, <1>7
     DEF Line, NothingMade, Unanswered, CallsCounted, InLoop, Answers, Generating, NoAnswer
<1>9. \A q \in Request \ {r} : Line(q)'
  BY <1>2, <1>3, <1>5, LineFrame DEF IInv
<1> QED  BY <1>6, <1>8, <1>9 DEF IInv

\* A write to stdout appends a piece of the line of a request, and keeps the types.
LEMMA PrintStep ==
    ASSUME TypeOK, NEW r \in Request, NEW s \in Stages, NEW piece \in {"text", "newline"},
           stage' = [stage EXCEPT ![r] = s], lock' \in Request \cup {"free"},
           stdout' = Append(stdout, <<r, piece>>),
           UNCHANGED <<config, open, ask, metrics, made, answer>>
    PROVE  TypeOK'
<1>1. stage' \in [Request -> Stages]
  BY DEF TypeOK
<1>2. stdout' \in Seq(Request \X {"text", "newline"})
  <2>1. <<r, piece>> \in Request \X {"text", "newline"}
    OBVIOUS
  <2>2. stdout \in Seq(Request \X {"text", "newline"})
    BY DEF TypeOK
  <2> QED  BY <2>1, <2>2
<1> QED  BY <1>1, <1>2 DEF TypeOK

\* The steps of the process that are no part of a generation.
LEMMA ProcessStep ==
    ASSUME IInv, NEW r \in Request,
           Read(r) \/ Malformed(r) \/ StartPrint(r) \/ EndPrint(r)
    PROVE  IInv'
<1>1. TypeOK /\ Line(r)
  BY DEF IInv
<1>2. CASE Read(r)
  <2>1. TypeOK'
    BY <1>1, <1>2 DEF TypeOK, Read, Stages
  <2>2. Line(r)'
    BY <1>1, <1>2 DEF TypeOK, Read,
       Line, NothingMade, Unanswered, CallsCounted, InLoop, Answers, Generating
  <2>3. \A q \in Request \ {r} : Line(q)'
    BY <1>1, <1>2, LineFrame DEF IInv, TypeOK, Read
  <2> QED  BY <2>1, <2>2, <2>3 DEF IInv
<1>3. CASE Malformed(r)
  <2> DEFINE x == [kind |-> "malformed"]
  <2>1. /\ stage' \in [Request -> Stages]
        /\ answer' \in [Request -> {NoAnswer, Error, [kind |-> "malformed"]} \cup
                           [kind : {"prompt"}, mode : Modes, calls : Nat, fallback : BOOLEAN]]
        /\ stage'[r] = "answered" /\ answer'[r] = x
        /\ \A q \in Request \ {r} : stage'[q] = stage[q] /\ answer'[q] = answer[q]
    BY <1>1, <1>3, RespondStep DEF Malformed
  <2>2. TypeOK'
    BY <1>1, <1>3, <2>1 DEF TypeOK, Malformed
  <2>3. Line(r)'
    BY <2>1 DEF Line, NothingMade, Unanswered, CallsCounted, InLoop, Answers, Generating
  <2>4. \A q \in Request \ {r} : Line(q)'
    BY <1>3, <2>1, LineFrame DEF IInv, Malformed
  <2> QED  BY <2>2, <2>3, <2>4 DEF IInv
<1>4. CASE StartPrint(r)
  <2>1. /\ stage' = [stage EXCEPT ![r] = "printing"] /\ lock' = r
        /\ stdout' = Append(stdout, <<r, "text">>)
        /\ UNCHANGED <<config, open, ask, metrics, made, answer>>
    BY <1>4 DEF StartPrint
  <2>2. TypeOK'
    BY <1>1, <2>1, PrintStep DEF Stages
  <2>3. Line(r)'
    BY <1>1, <2>1 DEF TypeOK, Line, NothingMade, Unanswered, CallsCounted, InLoop, Answers, Generating
  <2>4. \A q \in Request \ {r} : Line(q)'
    BY <1>1, <2>1, LineFrame DEF IInv, TypeOK
  <2> QED  BY <2>2, <2>3, <2>4 DEF IInv
<1>5. CASE EndPrint(r)
  <2>1. /\ stage' = [stage EXCEPT ![r] = "over"] /\ lock' = "free"
        /\ stdout' = Append(stdout, <<r, "newline">>)
        /\ UNCHANGED <<config, open, ask, metrics, made, answer>>
    BY <1>5 DEF EndPrint
  <2>2. TypeOK'
    BY <1>1, <2>1, PrintStep DEF Stages
  <2>3. Line(r)'
    BY <1>1, <2>1 DEF TypeOK, Line, NothingMade, Unanswered, CallsCounted, InLoop, Answers, Generating
  <2>4. \A q \in Request \ {r} : Line(q)'
    BY <1>1, <2>1, LineFrame DEF IInv, TypeOK
  <2> QED  BY <2>2, <2>3, <2>4 DEF IInv
<1> QED  BY <1>2, <1>3, <1>4, <1>5

\* Initially no line has a thread.
LEMMA Initially == Init => IInv
<1> SUFFICES ASSUME Init PROVE IInv
  OBVIOUS
<1>1. TypeOK
  <2>1. ask \in [Request -> [attempt : 0 .. Attempts, tokens : Nat, length : Nat, field : 0 .. Fields + 1]]
    BY FieldsAssumption DEF Init, Attempts
  <2>2. metrics \in [Request -> [calls : Nat, last : Codes]] /\ made \in [Request -> Nat]
    BY DEF Init, Codes
  <2>3. /\ stage \in [Request -> Stages]
        /\ answer \in [Request -> {NoAnswer, Error, [kind |-> "malformed"]} \cup
                          [kind : {"prompt"}, mode : Modes, calls : Nat, fallback : BOOLEAN]]
    BY DEF Init, Stages
  <2>4. /\ config \in [strategy : Strategies, grammar : BOOLEAN, window : Windows]
        /\ open \in BOOLEAN
        /\ lock \in Request \cup {"free"}
        /\ stdout \in Seq(Request \X {"text", "newline"})
    BY DEF Init
  <2> QED  BY <2>1, <2>2, <2>3, <2>4 DEF TypeOK
<1>2. \A r \in Request : Line(r)
  BY DEF Init, Line, NothingMade, Unanswered, CallsCounted, InLoop, Answers, NoAnswer, Generating
<1> QED  BY <1>1, <1>2 DEF IInv

\* Every step of the worker keeps the strengthening.
LEMMA Inductive == IInv /\ [Next]_vars => IInv'
<1> SUFFICES ASSUME IInv, [Next]_vars PROVE IInv'
  OBVIOUS
<1>1. ASSUME NEW r \in Request, Answered(r)
      PROVE  IInv'
  <2>1. Calling(r) /\ Recorded(r, "ok") /\ Returned(r) /\ Idle /\ "ok" \in Codes
    BY <1>1 DEF Answered, Codes
  <2>2. Goes(r) \/ Serves(r)
    BY <2>1, ReturnedShape
  <2> QED  BY <2>1, <2>2, CallStep
<1>2. ASSUME NEW r \in Request, Failed(r)
      PROVE  IInv'
  <2>1. Calling(r) /\ Recorded(r, "provider_error") /\ Raised(r) /\ Idle /\ "provider_error" \in Codes
    BY <1>2 DEF Failed, Codes
  <2>2. Goes(r) \/ Fails(r, "provider_error")
    BY <2>1, RaisedShape
  <2> QED  BY <2>1, <2>2, CallStep
<1>3. ASSUME NEW r \in Request, GiveUp(r)
      PROVE  IInv'
  <2> DEFINE code == "provider_context_overflow"
  <2>1. Calling(r) /\ Recorded(r, code) /\ Raised(r) /\ Idle /\ code \in Codes
    BY <1>3 DEF GiveUp, Codes
  <2>2. Goes(r) \/ Fails(r, code)
    BY <2>1, RaisedShape
  <2> QED  BY <2>1, <2>2, CallStep
<1>4. ASSUME NEW r \in Request, Retry(r)
      PROVE  IInv'
  BY <1>4, RetryStep
<1>5. ASSUME NEW r \in Request, Begin(r)
      PROVE  IInv'
  BY <1>5, BeginStep
<1>6. ASSUME NEW r \in Request, Read(r) \/ Malformed(r) \/ StartPrint(r) \/ EndPrint(r)
      PROVE  IInv'
  BY <1>6, ProcessStep
<1>7. CASE EndOfInput
  <2>1. TypeOK'
    BY <1>7 DEF IInv, TypeOK, EndOfInput
  <2>2. \A r \in Request : Line(r)'
    BY <1>7, LineFrame DEF IInv, EndOfInput
  <2> QED  BY <2>1, <2>2 DEF IInv
<1>8. CASE UNCHANGED vars
  <2>1. TypeOK'
    BY <1>8 DEF IInv, TypeOK, vars
  <2>2. \A r \in Request : Line(r)'
    BY <1>8, LineFrame DEF IInv, vars
  <2> QED  BY <2>1, <2>2 DEF IInv
<1> QED  BY <1>1, <1>2, <1>3, <1>4, <1>5, <1>6, <1>7, <1>8 DEF Next, Thread

------------------------------------------------------------------------------
\* The strengthening holds in every state the worker reaches.
THEOREM Invariant == Spec => []IInv
<1> QED  BY Initially, Inductive, PTL DEF Spec

\* The trace of every response counts the calls made for its line, whatever the other
\* threads of the process do (cli.py:68, engine.py:62).
THEOREM TraceCorrect == Spec => []TraceAccounted
<1>1. IInv => TraceAccounted
  BY DEF IInv, Line, Answers, TraceAccounted
<1> QED  BY <1>1, Invariant, PTL

\* Only a call of the field loop that failed fails a request, and a prompt that the field loop
\* made in the place of another strategy says so (workflow.py:115 and :124, cli.py:71).
THEOREM OutcomeCorrect == Spec => []OutcomeHonest
<1>1. IInv => OutcomeHonest
  BY DEF IInv, Line, Answers, OutcomeHonest
<1> QED  BY <1>1, Invariant, PTL

------------------------------------------------------------------------------
\* The generations that GiveUpJustified is about, and the tokens they may ask for at each
\* attempt: 2048 at most at the first, and half as many, but no fewer than 256, at each next.
Modest == {"plan", "synth", "compile", "field"}

Halving == <<2048, 1024, 512, 256, 256>>

Shrinking(r) ==
    stage[r] \in Modest => ask[r].attempt \in 1 .. Attempts /\ ask[r].tokens =< Halving[ask[r].attempt]

SizeInv == TypeOK /\ \A r \in Request : Shrinking(r)

\* Another generation than a full specification starts with at most 2048 tokens.
LEMMA StartsModest ==
    ASSUME SizeInv, NEW r \in Request, NEW s \in Generating, NEW f \in 0 .. Fields + 1, Generate(r, s, f)
    PROVE  \A q \in Request : Shrinking(q)'
<1>1. TypeOK /\ \A q \in Request : Shrinking(q)
  BY DEF SizeInv
<1>2. \A q \in Request \ {r} : stage'[q] = stage[q] /\ ask'[q] = ask[q]
  BY <1>1, GenerateStep
<1>3. ask'[r].attempt = 1 /\ ask'[r].tokens = Budget[s] /\ stage'[r] = s
  BY <1>1 DEF Generate, TypeOK
<1>4. s \in Modest => Budget[s] =< 2048
  BY DEF Budget, Modest, Generating
<1>5. Shrinking(r)'
  BY <1>3, <1>4 DEF Shrinking, Halving, Attempts
<1>6. \A q \in Request \ {r} : Shrinking(q)'
  BY <1>1, <1>2 DEF Shrinking
<1> QED  BY <1>5, <1>6

\* A retry asks for half the tokens, or leaves no more than 256.
LEMMA RetryHalves ==
    ASSUME SizeInv, NEW r \in Request, Retry(r)
    PROVE  \A q \in Request : Shrinking(q)'
<1>1. TypeOK /\ \A q \in Request : Shrinking(q)
  BY DEF SizeInv
<1>2. PICK a : a = ask[r]
  OBVIOUS
<1>3. a \in [attempt : 0 .. Attempts, tokens : Nat, length : Nat, field : 0 .. Fields + 1]
      /\ a.attempt < Attempts
  BY <1>1, <1>2 DEF TypeOK, Retry, Attempts
<1>4. stage' = stage /\ ask' = [ask EXCEPT ![r] = Shrunk(a)]
  BY <1>2 DEF Retry
<1>5. ask'[r] = Shrunk(a) /\ \A q \in Request \ {r} : ask'[q] = ask[q]
  BY <1>1, <1>4 DEF TypeOK
<1>6. /\ Shrunk(a).attempt = a.attempt + 1
      /\ \/ a.tokens > 256 /\ Shrunk(a).tokens = IF a.tokens \div 2 > 256 THEN a.tokens \div 2 ELSE 256
         \/ a.tokens =< 256 /\ Shrunk(a).tokens = IF a.tokens > 128 THEN 128 ELSE a.tokens
  BY <1>3 DEF Shrunk
<1>7. ASSUME stage[r] \in Modest
      PROVE  Shrunk(a).attempt \in 1 .. Attempts /\ Shrunk(a).tokens =< Halving[Shrunk(a).attempt]
  <2>1. a.attempt \in 1 .. 4 /\ a.tokens =< Halving[a.attempt] /\ a.tokens \in Nat
    BY <1>1, <1>2, <1>3, <1>7 DEF Shrinking, Attempts
  <2>2. CASE a.attempt = 1
    BY <1>6, <2>1, <2>2 DEF Halving, Attempts
  <2>3. CASE a.attempt = 2
    BY <1>6, <2>1, <2>3 DEF Halving, Attempts
  <2>4. CASE a.attempt = 3
    BY <1>6, <2>1, <2>4 DEF Halving, Attempts
  <2>5. CASE a.attempt = 4
    BY <1>6, <2>1, <2>5 DEF Halving, Attempts
  <2> QED  BY <2>1, <2>2, <2>3, <2>4, <2>5
<1>8. Shrinking(r)'
  BY <1>4, <1>5, <1>7 DEF Shrinking
<1>9. \A q \in Request \ {r} : Shrinking(q)'
  BY <1>1, <1>4, <1>5 DEF Shrinking
<1> QED  BY <1>8, <1>9

\* How a call ends for its line, in the terms of Goes, Serves and Fails.
LEMMA CallEnds ==
    ASSUME IInv, NEW r \in Request, Answered(r) \/ Failed(r) \/ GiveUp(r)
    PROVE  Goes(r) \/ (UNCHANGED ask /\ \E x : Respond(r, x))
<1>1. CASE Answered(r)
  BY <1>1, ReturnedShape DEF Answered, Serves
<1>2. CASE Failed(r)
  BY <1>2, RaisedShape DEF Failed, Fails
<1>3. CASE GiveUp(r)
  BY <1>3, RaisedShape DEF GiveUp, Fails
<1> QED  BY <1>1, <1>2, <1>3

\* A step that starts no generation leaves the modest ones as they are.
LEMMA NoneStarts ==
    ASSUME SizeInv, UNCHANGED ask,
           \A q \in Request : stage'[q] \in Modest => stage'[q] = stage[q]
    PROVE  \A q \in Request : Shrinking(q)'
BY DEF SizeInv, Shrinking

\* Every step keeps the attempts within their tokens.
LEMMA Shrinks ==
    ASSUME IInv, SizeInv, [Next]_vars
    PROVE  SizeInv'
<1>1. TypeOK'
  BY Inductive DEF IInv
<1>2. ASSUME NEW r \in Request, Answered(r) \/ Failed(r) \/ GiveUp(r)
      PROVE  \A q \in Request : Shrinking(q)'
  <2>1. CASE Goes(r)
    BY <2>1, StartsModest DEF Goes
  <2>2. CASE UNCHANGED ask /\ \E x : Respond(r, x)
    <3>1. stage' = [stage EXCEPT ![r] = "answered"]
      BY <2>2 DEF Respond
    <3>2. \A q \in Request : stage'[q] \in Modest => stage'[q] = stage[q]
      BY <3>1 DEF SizeInv, TypeOK, Modest
    <3> QED  BY <2>2, <3>2, NoneStarts
  <2> QED  BY <1>2, <2>1, <2>2, CallEnds
<1>3. ASSUME NEW r \in Request, Retry(r)
      PROVE  \A q \in Request : Shrinking(q)'
  BY <1>3, RetryHalves
<1>4. ASSUME NEW r \in Request, Begin(r)
      PROVE  \A q \in Request : Shrinking(q)'
  BY <1>4, BeginShape, StartsModest
<1>5. ASSUME NEW r \in Request, Read(r) \/ Malformed(r) \/ StartPrint(r) \/ EndPrint(r)
      PROVE  \A q \in Request : Shrinking(q)'
  <2>1. ask' = ask /\ \E s \in {"started", "answered", "printing", "over"} : stage' = [stage EXCEPT ![r] = s]
    BY <1>5 DEF Read, Malformed, Respond, StartPrint, EndPrint
  <2>2. \A q \in Request : stage'[q] \in Modest => stage'[q] = stage[q]
    BY <2>1 DEF SizeInv, TypeOK, Modest
  <2> QED  BY <2>1, <2>2, NoneStarts
<1>6. CASE EndOfInput \/ UNCHANGED vars
  <2>1. stage' = stage /\ ask' = ask
    BY <1>6 DEF EndOfInput, vars
  <2> QED  BY <1>1, <2>1, NoneStarts DEF SizeInv
<1> QED  BY <1>1, <1>2, <1>3, <1>4, <1>5, <1>6 DEF SizeInv, Next, Thread

\* A step of the thread of a line changes the stage of no other line.
LEMMA StageFrame ==
    ASSUME IInv, NEW q \in Request, NEW p \in Request \ {q}, Read(q) \/ Thread(q)
    PROVE  stage'[p] = stage[p]
<1>1. TypeOK
  BY DEF IInv
<1>2. CASE Answered(q) \/ Failed(q) \/ GiveUp(q)
  <2>1. Goes(q) \/ \E x : Respond(q, x)
    BY <1>2, CallEnds
  <2>2. \E s : stage' = [stage EXCEPT ![q] = s]
    BY <2>1 DEF Goes, Generate, Respond
  <2> QED  BY <1>1, <2>2 DEF TypeOK
<1>3. CASE Begin(q)
  BY <1>1, <1>3, BeginShape DEF Generate, TypeOK
<1>4. CASE Retry(q)
  BY <1>4 DEF Retry
<1>5. CASE Read(q) \/ Malformed(q) \/ StartPrint(q) \/ EndPrint(q)
  BY <1>1, <1>5 DEF Read, Malformed, Respond, StartPrint, EndPrint, TypeOK
<1> QED  BY <1>2, <1>3, <1>4, <1>5 DEF Thread

\* A call that was answered, or failed for another reason than its size, has another code.
LEMMA CodeRecorded ==
    ASSUME IInv, NEW r \in Request, Answered(r) \/ Failed(r)
    PROVE  metrics'[r].last # "provider_context_overflow"
<1>1. TypeOK
  BY DEF IInv
<1>2. PICK code \in {"ok", "provider_error"} : Recorded(r, code)
  BY DEF Answered, Failed
<1>3. metrics'[r] = [calls |-> metrics[r].calls + 1, last |-> code]
  BY <1>1, <1>2, RecordedStep DEF Codes
<1> QED  BY <1>3

\* A generation of another kind than a full specification is given up for its size only when
\* it asked for no more than 256 tokens (engine.py:118, strategies.py:191).
THEOREM GiveUpCorrect == Spec => GiveUpJustified
<1>1. Init => SizeInv
  BY Initially DEF IInv, SizeInv, Init, Shrinking, Modest
<1>2. IInv /\ SizeInv /\ [Next]_vars =>
         [\A r \in Request :
             (/\ stage[r] \in {"plan", "synth", "compile", "field"}
              /\ stage'[r] # stage[r]
              /\ metrics'[r].last = "provider_context_overflow")
             => ask[r].tokens =< 256]_vars
  <2> SUFFICES ASSUME IInv, SizeInv, Next, NEW r \in Request, stage[r] \in Modest,
                      stage'[r] # stage[r], metrics'[r].last = "provider_context_overflow"
               PROVE  ask[r].tokens =< 256
    BY DEF Modest
  <2>1. Read(r) \/ Thread(r)
    BY StageFrame DEF Next, EndOfInput
  <2>2. GiveUp(r)
    BY <2>1, CodeRecorded
       DEF Thread, Modest, Read, Begin, Malformed, Retry, StartPrint, EndPrint
  <2>3. ask[r].attempt \in 1 .. Attempts /\ ask[r].tokens =< Halving[ask[r].attempt]
    BY DEF SizeInv, Shrinking
  <2>4. CASE Floored(ask[r])
    BY <2>4 DEF Floored
  <2>5. CASE ask[r].attempt = Attempts
    BY <2>3, <2>5 DEF Attempts, Halving
  <2> QED  BY <2>2, <2>4, <2>5 DEF GiveUp
<1> QED  BY <1>1, <1>2, Invariant, Shrinks, PTL DEF Spec, GiveUpJustified
=============================================================================
