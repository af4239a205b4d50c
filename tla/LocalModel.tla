----------------------------- MODULE LocalModel -----------------------------
(***************************************************************************)
(* The on-device engine of the web application                             *)
(* (src/src/web/lib/engine/local.ts, local-session.ts): one model stays    *)
(* in memory between compilations, and is released by a load of another    *)
(* one, or by the page at any moment.  A call of compile has every await   *)
(* of the code as a step of its own, so that a release comes between them. *)
(*                                                                         *)
(* The page makes one call at a time.  The download of a model and its     *)
(* generation are the library's; what they use of memory before they end   *)
(* is left out.                                                            *)
(***************************************************************************)
EXTENDS Naturals

CONSTANTS
    Slot,     \* bound: models in memory at once, those being disposed included
    NoModel   \* cached = null

ASSUME SlotAssumption == Slot \subseteq Nat /\ NoModel \notin Slot

VARIABLES
    memory,   \* the model that each slot holds, if any
    cached,   \* the slot of the cached model, or NoModel
    call      \* the call of compile: where it is, its LocalModelChoice and its model

modelVars == <<memory, cached, call>>

Free == [state |-> "free"]
Live(i) == memory[i].state = "live"
NoCall == [phase |-> "none"]

LocalInit ==
    /\ memory = [i \in Slot |-> Free]
    /\ cached = NoModel
    /\ call = NoCall

\* releaseLocalModel(), up to its await: the cache is cleared before the disposal.
ReleaseLocalModel ==
    /\ cached' = NoModel
    /\ memory' = [i \in Slot |-> IF i = cached
                                 THEN [memory[i] EXCEPT !.state = "leaving"] ELSE memory[i]]

\* disposeModelSession() has ended, also when the device was lost.
Disposed(i) ==
    /\ memory[i].state = "leaving"
    /\ memory' = [memory EXCEPT ![i] = Free]
    /\ UNCHANGED <<cached, call>>

Hit_FaultyModelOnly(c) == cached # NoModel /\ memory[cached].choice.modelId = c.modelId

Hit(c) == cached # NoModel /\ memory[cached].choice = c

\* compile() begins with load(): the cached model, or the release of whatever is cached.
Load(c) ==
    IF Hit(c)
    THEN /\ call' = [phase |-> "generating", choice |-> c, model |-> cached]
         /\ UNCHANGED <<memory, cached>>
    ELSE /\ call' = [phase |-> "evicting", choice |-> c, model |-> cached]
         /\ ReleaseLocalModel

\* The await of the release in load() is over; the download begins.
Evicted ==
    /\ call.phase = "evicting"
    /\ call.model \in Slot => memory[call.model] = Free
    /\ call' = [call EXCEPT !.phase = "loading", !.model = NoModel]
    /\ UNCHANGED <<memory, cached>>

\* from_pretrained() has answered: the model is published, whatever happened to the
\* cache in the meantime, and load() measures the browser's memory.
Loaded ==
    /\ call.phase = "loading"
    /\ \E i \in Slot :
          /\ memory[i] = Free /\ \A j \in Slot : j < i => memory[j] # Free
          /\ memory' = [memory EXCEPT ![i] = [state |-> "live", choice |-> call.choice]]
          /\ cached' = i
    /\ call' = [call EXCEPT !.phase = "measuring"]

\* The measurement has ended, and load() returns what is cached by now.
Measured ==
    /\ call.phase = "measuring" /\ cached # NoModel
    /\ call' = [call EXCEPT !.phase = "generating", !.model = cached]
    /\ UNCHANGED <<memory, cached>>

Vanished_FaultyWaits == FALSE

\* That is nothing when the model was released meanwhile: compile() throws.
Vanished ==
    /\ call.phase = "measuring" /\ cached = NoModel
    /\ call' = NoCall
    /\ UNCHANGED <<memory, cached>>

\* The download fails, or the browser cannot start the model.
LoadFails ==
    /\ call.phase = "loading"
    /\ call' = NoCall
    /\ UNCHANGED <<memory, cached>>

\* generate() resolves or, also because its model was disposed, rejects.
GenerationEnds ==
    /\ call.phase = "generating"
    /\ call' = NoCall
    /\ UNCHANGED <<memory, cached>>

CallFails == LoadFails \/ Vanished \/ GenerationEnds
=============================================================================
