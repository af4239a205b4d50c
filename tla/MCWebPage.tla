------------------------------ MODULE MCWebPage ------------------------------
(* A small instance of the two halves of the web application, which share   *)
(* no state: the readers of a pass's output (SpecStream, with the constants *)
(* of MCSpecStream) and the page around them (WebPage).  A behaviour is one *)
(* of the readers, or one of the page; and of these, either one with every  *)
(* setting and list of models but no run, or one with runs, in which the    *)
(* provider's key and model stay as they are.                               *)
EXTENDS MCSpecStream, WebPage

CONSTANTS openai, repo, secret, m1, m2

VARIABLE part   \* what moves

\* The repository is that of the light preset, for another device.
MCPresetChoice ==
    [p \in Preset |-> IF p = Light THEN [modelId |-> repo, device |-> "wasm"]
                                   ELSE [modelId |-> p, device |-> "webgpu"]]

NothingEntered(s) == s.repo = None /\ s.keys = [p \in Provider |-> None]
Configured(s) == \A p \in Provider : s.keys[p] = secret /\ s.models[p] = m1

allVars == <<part, vars, pageVars>>

WebInit ==
    /\ Init
    /\ \/ part = "readers" /\ PageInit({CHOOSE s \in Settings : NothingEntered(s)})
       \/ part = "panel" /\ PageInit({s \in Settings : NothingEntered(s)})
       \/ part = "runs" /\ PageInit({s \in Settings : Configured(s)})

WebNext ==
    /\ UNCHANGED part
    /\ \/ part = "readers" /\ Next /\ UNCHANGED pageVars
       \/ part = "panel" /\ PageNext /\ run' = NoRun /\ UNCHANGED vars
       \/ part = "runs" /\ PageNext /\ Configured(settings') /\ ~listing'.asked /\ UNCHANGED vars

WebSpec == WebInit /\ [][WebNext]_allVars /\ PageFairness
=============================================================================
