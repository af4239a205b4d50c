---------------------------- MODULE WebPageProofs ----------------------------
(***************************************************************************)
(* Proofs about the page and its on-device engine, for any presets, pasted *)
(* repositories, providers and number of passes, and for any number of     *)
(* models in memory.                                                       *)
(***************************************************************************)
EXTENDS WebPage, TLAPS

\* A model in memory.
Holds(i, state) == \E c : memory[i] = [state |-> state, choice |-> c]

\* The only model in memory that nobody is disposing of is the cached one.
Resident ==
    /\ cached \in Slot \cup {NoModel}
    /\ memory = [i \in Slot |-> memory[i]]
    /\ \A i \in Slot : IF i = cached THEN Holds(i, "live")
                                     ELSE memory[i] = Free \/ Holds(i, "leaving")

CallType ==
    \/ call = NoCall
    \/ \E p \in {"evicting", "loading", "measuring", "generating"} : \E m :
          call = [phase |-> p, choice |-> run.choice, model |-> m]

\* A call of the engine belongs to the run, and has the run's choice of a model.  Until its
\* load has published a model none is cached, and then no other until the call has it.
CallOfRun ==
    /\ CallType
    /\ call.phase \in {"evicting", "loading"} => cached = NoModel
    /\ call # NoCall => run.phase = "compiling" /\ run.engine = "local"
    /\ call.phase = "measuring" /\ cached # NoModel => memory[cached].choice = run.choice
    /\ call.phase = "generating" =>
          /\ call.model \in Slot
          /\ memory[call.model] # Free => memory[call.model].choice = run.choice

RunType ==
    \/ run = NoRun
    \/ \E ph \in {"preparing", "compiling"} : \E e, c, n :
          run = [phase |-> ph, engine |-> e, choice |-> c, pass |-> n]

IInv == Resident /\ RunType /\ CallOfRun

-----------------------------------------------------------------------------
(* The engine's steps.                                                     *)

\* A release makes the cached model one that is being disposed of.
LEMMA Releases ==
    ASSUME Resident, ReleaseLocalModel
    PROVE  /\ Resident' /\ cached' = NoModel
           /\ \A i \in Slot : memory[i] # Free => memory'[i].choice = memory[i].choice
           /\ \A i \in Slot : memory'[i] = Free <=> memory[i] = Free
<1>1. cached' = NoModel /\ NoModel \notin Slot
  BY SlotAssumption DEF ReleaseLocalModel
<1>2. ASSUME NEW i \in Slot
      PROVE  /\ memory'[i] = Free \/ Holds(i, "leaving")'
             /\ memory[i] # Free => memory'[i].choice = memory[i].choice
             /\ memory'[i] = Free <=> memory[i] = Free
  <2>1. CASE i = cached
    <3>1. PICK c : memory[i] = [state |-> "live", choice |-> c]
      BY <2>1 DEF Resident, Holds
    <3>2. memory'[i] = [state |-> "leaving", choice |-> c]
      BY <2>1, <3>1 DEF ReleaseLocalModel
    <3>3. memory'[i] # Free /\ memory[i] # Free
      BY <3>1, <3>2 DEF Free
    <3>4. memory'[i].choice = memory[i].choice
      BY <3>1, <3>2
    <3>5. Holds(i, "leaving")'
      BY <3>2 DEF Holds
    <3>6. QED
      BY <3>3, <3>4, <3>5
  <2>2. CASE i # cached
    <3>1. memory'[i] = memory[i]
      BY <2>2 DEF ReleaseLocalModel
    <3>2. QED
      BY <2>2, <3>1 DEF Resident, Holds
  <2>3. QED
    BY <2>1, <2>2
<1>3. memory' = [i \in Slot |-> memory'[i]]
  BY DEF ReleaseLocalModel
<1>4. QED
  BY <1>1, <1>2, <1>3 DEF Resident

\* After any other step of the engine or of the page: what a call needs of the memory.
LEMMA CallAfterRelease ==
    ASSUME Resident, CallOfRun, ReleaseLocalModel, UNCHANGED call,
           run'.choice = run.choice /\ run'.phase = run.phase /\ run'.engine = run.engine
    PROVE  CallOfRun'
<1>1. /\ call' = call /\ cached' = NoModel
      /\ \A i \in Slot : memory[i] # Free => memory'[i].choice = memory[i].choice
      /\ \A i \in Slot : memory'[i] = Free <=> memory[i] = Free
  BY Releases
<1>2. call.phase = "generating" =>
          /\ call.model \in Slot
          /\ memory'[call.model] # Free => memory'[call.model].choice = run.choice
  <2>1. SUFFICES ASSUME call.phase = "generating", NEW i, i = call.model
                 PROVE  i \in Slot /\ (memory'[i] # Free => memory'[i].choice = run.choice)
    OBVIOUS
  <2>2. i \in Slot /\ (memory[i] # Free => memory[i].choice = run.choice)
    BY <2>1 DEF CallOfRun
  <2>3. QED
    BY <1>1, <2>2
<1>3. CallType'
  BY <1>1 DEF CallOfRun, CallType
<1>4. QED
  BY <1>1, <1>2, <1>3 DEF CallOfRun

LEMMA Loads ==
    ASSUME Resident, Load(run.choice),
           run'.choice = run.choice /\ run'.phase = "compiling" /\ run'.engine = "local"
    PROVE  Resident' /\ CallOfRun'
<1>1. CASE Hit(run.choice)
  <2>1. call' = [phase |-> "generating", choice |-> run'.choice, model |-> cached]
        /\ UNCHANGED <<memory, cached>>
    BY <1>1 DEF Load
  <2>2. cached \in Slot /\ memory[cached].choice = run.choice
    BY <1>1 DEF Hit, Resident
  <2>3. Resident'
    BY <2>1 DEF Resident, Holds
  <2>4. CallOfRun'
    BY <2>1, <2>2 DEF CallOfRun, CallType, NoCall
  <2>5. QED
    BY <2>3, <2>4
<1>2. CASE ~Hit(run.choice)
  <2>1. call' = [phase |-> "evicting", choice |-> run'.choice, model |-> cached]
        /\ ReleaseLocalModel
    BY <1>2 DEF Load
  <2>2. CallOfRun'
    BY <2>1, Releases DEF CallOfRun, CallType, NoCall
  <2>3. QED
    BY <2>1, <2>2, Releases
<1>3. QED
  BY <1>1, <1>2

LEMMA ModelSteps ==
    ASSUME Resident, CallOfRun, UNCHANGED run, Evicted \/ Loaded \/ Measured
    PROVE  Resident' /\ CallOfRun'
<1>1. CASE Evicted
  <2>1. PICK m : call = [phase |-> "evicting", choice |-> run.choice, model |-> m]
    BY <1>1 DEF Evicted, CallOfRun, CallType, NoCall
  <2>2. call' = [phase |-> "loading", choice |-> run'.choice, model |-> NoModel]
    BY <1>1, <2>1 DEF Evicted
  <2>3. UNCHANGED <<memory, cached>> /\ call # NoCall
    BY <1>1, <2>1 DEF Evicted, NoCall
  <2>4. CallOfRun'
    BY <2>1, <2>2, <2>3 DEF CallOfRun, CallType, NoCall
  <2>5. QED
    BY <2>3, <2>4 DEF Resident, Holds
<1>2. CASE Loaded
  <2>1. PICK m : call = [phase |-> "loading", choice |-> run.choice, model |-> m]
    BY <1>2 DEF Loaded, CallOfRun, CallType, NoCall
  <2>2. PICK i \in Slot :
            /\ memory[i] = Free
            /\ memory' = [memory EXCEPT ![i] = [state |-> "live", choice |-> run.choice]]
            /\ cached' = i
    BY <1>2, <2>1 DEF Loaded
  <2>3. call' = [phase |-> "measuring", choice |-> run'.choice, model |-> m]
    BY <1>2, <2>1 DEF Loaded
  <2>4. call # NoCall
    BY <2>1 DEF NoCall
  <2>5. cached \notin Slot
    BY <2>1, SlotAssumption DEF CallOfRun
  <2>6. Resident'
    <3>1. memory' = [j \in Slot |-> memory'[j]]
      BY <2>2 DEF Resident
    <3>2. memory'[i] = [state |-> "live", choice |-> run.choice]
      BY <2>2 DEF Resident
    <3>3. \A j \in Slot \ {i} : memory'[j] = memory[j] /\ j # cached
      BY <2>2, <2>5 DEF Resident
    <3>4. QED
      BY <2>2, <3>1, <3>2, <3>3 DEF Resident, Holds
  <2>7. CallOfRun'
    <3>1. memory'[cached'].choice = run'.choice
      BY <2>2 DEF Resident
    <3>2. QED
      BY <2>1, <2>3, <2>4, <3>1 DEF CallOfRun, CallType, NoCall
  <2>8. QED
    BY <2>6, <2>7
<1>3. CASE Measured
  <2>1. PICK m : call = [phase |-> "measuring", choice |-> run.choice, model |-> m]
    BY <1>3 DEF Measured, CallOfRun, CallType, NoCall
  <2>2. call' = [phase |-> "generating", choice |-> run'.choice, model |-> cached]
    BY <1>3, <2>1 DEF Measured
  <2>3. UNCHANGED <<memory, cached>> /\ call # NoCall /\ cached # NoModel
    BY <1>3, <2>1 DEF Measured, NoCall
  <2>4. cached \in Slot /\ memory[cached].choice = run.choice
    BY <2>1, <2>3 DEF Resident, CallOfRun
  <2>5. CallOfRun'
    BY <2>2, <2>3, <2>4 DEF CallOfRun, CallType, NoCall
  <2>6. QED
    BY <2>3, <2>5 DEF Resident, Holds
<1>4. QED
  BY <1>1, <1>2, <1>3

LEMMA DisposedStep ==
    ASSUME Resident, CallOfRun, NEW i \in Slot, Disposed(i), UNCHANGED run
    PROVE  Resident' /\ CallOfRun'
<1>1. memory[i] # Free /\ i # cached
  <2>1. memory[i].state = "leaving"
    BY DEF Disposed
  <2>2. ~Holds(i, "live")
    <3>1. SUFFICES ASSUME NEW c, memory[i] = [state |-> "live", choice |-> c] PROVE FALSE
      BY DEF Holds
    <3>2. memory[i].state = "live"
      BY <3>1
    <3>3. QED
      BY <2>1, <3>2
  <2>3. QED
    BY <2>1, <2>2 DEF Resident, Free
<1>2. /\ memory' = [j \in Slot |-> IF j = i THEN Free ELSE memory[j]]
      /\ UNCHANGED <<cached, call>>
  BY DEF Disposed, Resident
<1>3. Resident'
  BY <1>1, <1>2 DEF Resident, Holds
<1>4. call.phase = "measuring" /\ cached # NoModel => memory'[cached].choice = run.choice
  BY <1>1, <1>2 DEF Resident, CallOfRun
<1>5. call.phase = "generating" =>
          /\ call.model \in Slot
          /\ memory'[call.model] # Free => memory'[call.model].choice = run.choice
  <2>1. SUFFICES ASSUME call.phase = "generating", NEW j, j = call.model
                 PROVE  j \in Slot /\ (memory'[j] # Free => memory'[j].choice = run.choice)
    OBVIOUS
  <2>2. j \in Slot /\ (memory[j] # Free => memory[j].choice = run.choice)
    BY <2>1 DEF CallOfRun
  <2>3. QED
    BY <1>2, <2>2
<1>6. QED
  BY <1>2, <1>3, <1>4, <1>5 DEF CallOfRun, CallType

-----------------------------------------------------------------------------
(* The page's steps.                                                       *)

\* A handler of the page that at most releases the model.
LEMMA Besides ==
    ASSUME IInv, ReleaseLocalModel \/ UNCHANGED <<memory, cached>>, UNCHANGED <<call, run>>
    PROVE  IInv'
<1>1. RunType'
  BY DEF IInv, RunType
<1>2. CASE ReleaseLocalModel
  BY <1>1, <1>2, Releases, CallAfterRelease DEF IInv
<1>3. CASE UNCHANGED <<memory, cached>>
  BY <1>1, <1>3 DEF IInv, Resident, Holds, CallOfRun, CallType
<1>4. QED
  BY <1>2, <1>3

LEMMA Idle ==
    ASSUME CallOfRun, run.phase \in {"idle", "preparing"}
    PROVE  call = NoCall
BY DEF CallOfRun

\* When a pass starts, the engine loads its model, or the provider is asked.
LEMMA Starts ==
    ASSUME Resident, StartPass, run.engine = "local" \/ call = NoCall,
           run'.choice = run.choice /\ run'.phase = "compiling" /\ run'.engine = run.engine
    PROVE  Resident' /\ CallOfRun'
<1>1. CASE run.engine = "local"
  BY <1>1, Loads DEF StartPass
<1>2. CASE run.engine # "local"
  <2>1. UNCHANGED modelVars /\ call = NoCall
    BY <1>2 DEF StartPass
  <2>2. QED
    BY <2>1 DEF modelVars, Resident, Holds, CallOfRun, CallType, NoCall
<1>3. QED
  BY <1>1, <1>2

LEMMA RunStep ==
    ASSUME IInv, SubmitRequest \/ EngineCreated \/ PassDone \/ RunFails
    PROVE  IInv'
<1>1. CASE SubmitRequest
  <2>1. UNCHANGED modelVars /\ run.phase = "idle" /\ call = NoCall
    BY <1>1, Idle DEF SubmitRequest, IInv
  <2>2. Resident' /\ CallOfRun'
    BY <2>1 DEF IInv, modelVars, Resident, Holds, CallOfRun, CallType, NoCall
  <2>3. CASE IsEngineReady(settings)
    <3>1. run' = [phase |-> "preparing", engine |-> settings.engine,
                  choice |-> LocalChoice(settings), pass |-> 1]
      BY <1>1, <2>3 DEF SubmitRequest
    <3>2. QED
      BY <2>2, <3>1 DEF IInv, RunType
  <2>4. CASE ~IsEngineReady(settings)
    BY <1>1, <2>1, <2>2, <2>4 DEF SubmitRequest, IInv, RunType
  <2>5. QED
    BY <2>3, <2>4
<1>2. CASE EngineCreated
  <2>1. PICK e, c, n : run = [phase |-> "preparing", engine |-> e, choice |-> c, pass |-> n]
    BY <1>2 DEF EngineCreated, IInv, RunType, NoRun
  <2>2. run' = [phase |-> "compiling", engine |-> e, choice |-> c, pass |-> n]
    BY <1>2, <2>1 DEF EngineCreated
  <2>3. StartPass
    BY <1>2 DEF EngineCreated
  <2>4. call = NoCall
    BY <2>1, Idle DEF IInv
  <2>5. Resident' /\ CallOfRun'
    BY <2>1, <2>2, <2>3, <2>4, Starts DEF IInv
  <2>6. RunType'
    BY <2>1, <2>2, <2>3 DEF RunType
  <2>7. QED
    BY <2>5, <2>6 DEF IInv
<1>3. CASE PassDone
  <2>1. /\ run.phase = "compiling" /\ run # NoRun
        /\ run.engine = "local" \/ call = NoCall
    BY <1>3, SettingsAssumption DEF PassDone, ProviderAsked, IInv, CallOfRun, NoRun, NoCall
  <2>2. PICK e, c, n : run = [phase |-> "compiling", engine |-> e, choice |-> c, pass |-> n]
    BY <2>1 DEF IInv, RunType, NoRun
  <2>3. CASE run.pass < PassCount
    <3>1. run' = [phase |-> "compiling", engine |-> e, choice |-> c, pass |-> n + 1]
          /\ StartPass
      BY <1>3, <2>2, <2>3 DEF PassDone
    <3>2. Resident' /\ CallOfRun'
      BY <2>1, <2>2, <3>1, Starts DEF IInv
    <3>3. QED
      BY <2>2, <3>1, <3>2 DEF IInv, RunType
  <2>4. CASE ~(run.pass < PassCount)
    <3>1. run' = NoRun /\ call' = NoCall /\ UNCHANGED <<memory, cached>>
      BY <1>3, <2>4 DEF PassDone
    <3>2. QED
      BY <3>1 DEF IInv, Resident, Holds, RunType, CallOfRun, CallType, NoRun, NoCall
  <2>5. QED
    BY <2>3, <2>4
<1>4. CASE RunFails
  <2>1. run' = NoRun /\ UNCHANGED <<memory, cached>>
    BY <1>4 DEF RunFails, EngineMissing, ProviderFails, CallFails, LoadFails, Vanished,
                GenerationEnds, modelVars
  <2>2. call' = NoCall
    BY <1>4, SettingsAssumption DEF RunFails, EngineMissing, ProviderFails, ProviderAsked,
                CallFails, LoadFails, Vanished, GenerationEnds, modelVars, IInv, CallOfRun
  <2>3. QED
    BY <2>1, <2>2 DEF IInv, Resident, Holds, RunType, CallOfRun, CallType, NoRun, NoCall
<1>5. QED
  BY <1>1, <1>2, <1>3, <1>4

LEMMA NextIInv == IInv /\ [PageNext]_pageVars => IInv'
<1> SUFFICES ASSUME IInv, [PageNext]_pageVars PROVE IInv'
  OBVIOUS
<1>1. CASE ChangeSettings
  BY <1>1, Besides DEF ChangeSettings, ReleasedBy
<1>2. CASE BootDetected
  BY <1>2, Besides DEF BootDetected, ReleasedBy
<1>3. CASE LookAtPanel \/ ReleaseButton \/ PageHides \/ UNCHANGED pageVars
  BY <1>3, Besides DEF LookAtPanel, ReleaseButton, PageHides, pageVars, modelVars
<1>4. CASE ModelStep(Evicted) \/ ModelStep(Loaded) \/ ModelStep(Measured)
  BY <1>4, ModelSteps DEF ModelStep, IInv, RunType
<1>5. ASSUME NEW i \in Slot, ModelStep(Disposed(i)) PROVE IInv'
  BY <1>5, DisposedStep DEF ModelStep, IInv, RunType
<1>6. QED
  BY <1>1, <1>2, <1>3, <1>4, <1>5, RunStep DEF PageNext

LEMMA InitIInv == PageInit(Settings) => IInv
<1> SUFFICES ASSUME PageInit(Settings) PROVE IInv
  OBVIOUS
<1>1. memory = [i \in Slot |-> Free] /\ cached = NoModel /\ call = NoCall /\ run = NoRun
  BY DEF PageInit, LocalInit
<1>2. Resident
  BY <1>1, SlotAssumption DEF Resident
<1>3. QED
  BY <1>1, <1>2 DEF IInv, RunType, CallOfRun, CallType, NoCall, NoRun

-----------------------------------------------------------------------------
\* The only model in memory that nobody is disposing of is the cached one, and a generation
\* runs on a model of its run's choice, whatever is released between the steps of a load.
THEOREM ModelsCorrect == PageSpec => []ModelsAccounted
<1>1. IInv => ModelsAccounted
  BY SlotAssumption DEF IInv, Resident, Holds, CallOfRun, ModelsAccounted, Live, Free
<1>2. QED
  BY InitIInv, NextIInv, <1>1, PTL DEF PageSpec

-----------------------------------------------------------------------------
(* A model that is not wanted.                                             *)

LEMMA Kept ==
    ASSUME IInv, IInv', [PageNext]_pageVars, ~ReleaseLocalModel,
           NEW i \in Slot, i = cached', memory[i].state # "free"
    PROVE  memory'[i] = memory[i]
<1>1. CASE Loaded
  <2>1. memory[i] = Free
    BY <1>1 DEF Loaded
  <2>2. QED
    BY <2>1 DEF Free
<1>2. ASSUME NEW j \in Slot, Disposed(j) PROVE memory'[i] = memory[i]
  <2>1. CASE j = i
    <3>1. memory'[i] = Free
      BY <1>2, <2>1 DEF Disposed, IInv, Resident
    <3>2. Holds(i, "live")'
      BY DEF IInv, Resident
    <3>3. QED
      BY <3>1, <3>2 DEF Holds, Free
  <2>2. CASE j # i
    BY <1>2, <2>2 DEF Disposed
  <2>3. QED
    BY <2>1, <2>2
<1>3. CASE UNCHANGED memory
  BY <1>3
<1>4. CASE SubmitRequest \/ EngineCreated \/ PassDone \/ RunFails
  BY <1>4 DEF SubmitRequest, EngineCreated, PassDone, RunFails, StartPass, Load, EngineMissing,
              ProviderFails, CallFails, LoadFails, Vanished, GenerationEnds, modelVars
<1>5. CASE ChangeSettings \/ LookAtPanel \/ ReleaseButton \/ PageHides \/ BootDetected
  BY <1>5 DEF ChangeSettings, LookAtPanel, ReleaseButton, PageHides, BootDetected, ReleasedBy,
              modelVars
<1>6. QED
  BY <1>1, <1>2, <1>3, <1>4, <1>5 DEF PageNext, ModelStep, Evicted, Measured, pageVars, modelVars

LEMMA SettingsChange ==
    ASSUME [PageNext]_pageVars
    PROVE  UNCHANGED settings \/ ReleasedBy
BY DEF PageNext, ModelStep, SubmitRequest, EngineCreated, PassDone, RunFails, ChangeSettings,
       LookAtPanel, Look, OpenPanel, ClosePanel, ListModels, ListFails, Listed, ReleaseButton,
       PageHides, BootDetected, pageVars

LEMMA StaleStep ==
    ASSUME IInv, IInv', [PageNext]_pageVars,
           NEW i \in Slot, (Live(i) /\ ~Wanted(i))', memory[i].state # "free"
    PROVE  Live(i) /\ ~Wanted(i)
<1>1. i = cached'
  BY DEF IInv, Resident, Holds, Live, Free
<1>2. ~ReleaseLocalModel
  BY <1>1, SlotAssumption DEF ReleaseLocalModel
<1>3. memory'[i] = memory[i]
  BY <1>1, <1>2, Kept
<1>4. CASE UNCHANGED settings
  BY <1>3, <1>4 DEF Live, Wanted, LocalChoice
<1>5. CASE ReleasedBy
  <2>1. settings.engine = "local" => /\ settings'.engine = "local"
                                     /\ settings'.preset = settings.preset
                                     /\ settings'.repo = settings.repo
    BY <1>2, <1>5 DEF ReleasedBy
  <2>2. settings.engine = "local" => LocalChoice(settings') = LocalChoice(settings)
    BY <2>1 DEF LocalChoice
  <2>3. QED
    BY <1>3, <2>1, <2>2 DEF Live, Wanted
<1>6. QED
  BY <1>4, <1>5, SettingsChange

\* A model that the settings do not ask for is in memory only because a load that was
\* under way has published it late: no change of the settings leaves one behind.
THEOREM StaleOnlyLateCorrect == PageSpec => StaleOnlyLate
<1>1. IInv /\ IInv' /\ [PageNext]_pageVars =>
          [\A i \in Slot : (Live(i) /\ ~Wanted(i))' /\ memory[i].state # "free"
                => Live(i) /\ ~Wanted(i)]_pageVars
  BY StaleStep
<1>2. QED
  BY InitIInv, NextIInv, <1>1, PTL DEF PageSpec, StaleOnlyLate

-----------------------------------------------------------------------------
(* The settings and their panel.                                           *)

Panels == [open : {TRUE}, shown : Settings, listed : BOOLEAN, ids : SUBSET Model,
           typed : BOOLEAN]

Listings == [asked : {TRUE}, attached : BOOLEAN, provider : Provider, model : Model \cup {None}]

\* The widgets that wait for a list are on an open panel.
PanelType ==
    /\ settings \in Settings
    /\ panel = Shut \/ panel \in Panels
    /\ listing = NoListing \/ listing \in Listings
    /\ listing.asked /\ listing.attached => panel.open

\* A list can show another model of no provider but the chosen one, and the request for it
\* knows the model that is set unless one was typed since.
ListTrue ==
    /\ panel.open /\ settings.engine # "local" =>
          \A p \in Provider \ {settings.engine} : panel.shown.models[p] = settings.models[p]
    /\ listing.asked /\ listing.attached =>
          /\ listing.provider = panel.shown.engine
          /\ ~panel.listed /\ ~panel.typed =>
                listing.model = settings.models[listing.provider]

PInv == PanelType /\ PanelTrue /\ ListTrue

\* What is rendered is what is set.
LEMMA Rendered ==
    ASSUME PanelType, settings' \in Settings, Render(settings')
    PROVE  PInv'
<1>1. panel' = [open |-> TRUE, shown |-> settings', listed |-> FALSE, ids |-> {},
              typed |-> FALSE]
  BY DEF Render
<1>2. panel' \in Panels /\ PanelTrue'
  BY <1>1 DEF Panels, PanelTrue
<1>3. listing' = NoListing \/ (listing' \in Listings /\ ~listing'.attached)
  BY DEF Render, PanelType, Listings, NoListing
<1>4. QED
  BY <1>1, <1>2, <1>3 DEF PInv, PanelType, ListTrue, NoListing

\* Nothing is shown on a closed panel.
LEMMA Hidden ==
    ASSUME PanelType, settings' \in Settings, Hide
    PROVE  PInv'
<1>1. panel' = Shut /\ PanelTrue'
  BY DEF Hide, PanelTrue, Shut
<1>2. listing' = NoListing \/ (listing' \in Listings /\ ~listing'.attached)
  BY DEF Hide, PanelType, Listings, NoListing
<1>3. QED
  BY <1>1, <1>2 DEF PInv, PanelType, ListTrue, NoListing, Shut

LEMMA ChangeStep ==
    ASSUME PInv, Change, UNCHANGED boot
    PROVE  PInv'
<1> USE DEF PInv
<1>1. ASSUME NEW e \in {"local"} \cup Provider, PickEngine(e) PROVE PInv'
  <2>1. settings' \in Settings
    BY <1>1 DEF PickEngine, PanelType, Settings
  <2>2. QED
    BY <1>1, <2>1, Rendered DEF PickEngine
<1>2. ASSUME NEW p \in Preset \cup {"custom"}, PickPreset(p) PROVE PInv'
  <2>1. settings' \in Settings
    BY <1>2 DEF PickPreset, PanelType, Settings
  <2>2. QED
    BY <1>2, <2>1, Rendered, Hidden DEF PickPreset
<1>3. CASE ClearKeys
  <2>1. settings' \in Settings
    BY <1>3 DEF ClearKeys, PanelType, Settings
  <2>2. QED
    BY <1>3, <2>1, Rendered DEF ClearKeys
<1>4. ASSUME NEW r \in Repo \cup {None}, EnterRepo(r) PROVE PInv'
  <2>1. panel \in Panels /\ panel.shown.engine = "local"
    BY <1>4 DEF EnterRepo, Showing, PanelType, Shut
  <2>2. settings' \in Settings /\ panel' \in Panels
    BY <1>4, <2>1 DEF EnterRepo, PanelType, Settings, Panels
  <2>3. PanelTrue'
    BY <1>4, <2>1 DEF EnterRepo, PanelTrue, PanelType, Settings, Panels
  <2>4. ListTrue'
    BY <1>4, <2>1 DEF EnterRepo, PanelTrue, PanelType, Settings, Panels, ListTrue, Listings
  <2>5. QED
    BY <1>4, <2>2, <2>3, <2>4 DEF EnterRepo, PanelType, Panels
<1>5. ASSUME NEW k \in Key \cup {None}, EnterKey(k) PROVE PInv'
  <2>1. panel \in Panels /\ panel.shown.engine \in Provider
    BY <1>5 DEF EnterKey, Showing, PanelType, Shut
  <2>2. settings' \in Settings /\ panel' \in Panels
    BY <1>5, <2>1 DEF EnterKey, PanelType, Settings, Panels
  <2>3. PanelTrue'
    BY <1>5, <2>1, SettingsAssumption
       DEF EnterKey, PanelTrue, PanelType, Settings, Panels
  <2>4. ListTrue'
    BY <1>5, <2>1, SettingsAssumption
       DEF EnterKey, PanelTrue, PanelType, Settings, Panels, ListTrue, Listings
  <2>5. QED
    BY <1>5, <2>2, <2>3, <2>4 DEF EnterKey, PanelType, Panels
<1>6. ASSUME NEW m \in Model \cup {None}, EnterModel(m) PROVE PInv'
  <2>1. panel \in Panels /\ panel.shown.engine \in Provider
    BY <1>6 DEF EnterModel, Showing, PanelType, Shut
  <2>2. settings' \in Settings /\ panel' \in Panels
    BY <1>6, <2>1 DEF EnterModel, PanelType, Settings, Panels
  <2>3. PanelTrue'
    BY <1>6, <2>1, SettingsAssumption
       DEF EnterModel, PanelTrue, PanelType, Settings, Panels, ListTrue
  <2>4. ListTrue'
    BY <1>6, <2>1, SettingsAssumption
       DEF EnterModel, PanelTrue, PanelType, Settings, Panels, ListTrue, Listings
  <2>5. QED
    BY <1>6, <2>2, <2>3, <2>4 DEF EnterModel, PanelType, Panels
<1>7. QED
  BY <1>1, <1>2, <1>3, <1>4, <1>5, <1>6 DEF Change

LEMMA LookStep ==
    ASSUME PInv, Look, UNCHANGED boot
    PROVE  PInv'
<1> USE DEF PInv
<1>1. CASE OpenPanel
  BY <1>1, Rendered DEF OpenPanel, PanelType
<1>2. CASE ClosePanel
  BY <1>2, Hidden DEF ClosePanel, PanelType
<1>3. CASE ListModels
  <2>1. panel \in Panels /\ panel.shown.engine \in Provider
    BY <1>3 DEF ListModels, Showing, PanelType, Shut
  <2>2. listing' \in Listings
    BY <1>3, <2>1 DEF ListModels, PanelType, Settings, Listings
  <2>3. panel' \in Panels /\ panel'.shown = panel.shown /\ panel'.listed = panel.listed
        /\ panel'.ids = panel.ids /\ panel'.typed = (panel.typed /\ panel.listed)
    BY <1>3, <2>1 DEF ListModels, Panels
  <2>4. PanelTrue' /\ ListTrue'
    BY <1>3, <2>1, <2>3 DEF ListModels, PanelType, PanelTrue, ListTrue, Panels
  <2>5. QED
    BY <1>3, <2>2, <2>3, <2>4 DEF ListModels, PanelType, Panels
<1>4. CASE ListFails
  BY <1>4 DEF ListFails, PanelType, PanelTrue, ListTrue, NoListing
<1>5. ASSUME NEW ids \in SUBSET Model, Listed(ids) PROVE PInv'
  <2>1. CASE listing.attached /\ ~panel.listed
    <3>1. listing \in Listings /\ panel \in Panels
      BY <1>5, <2>1 DEF Listed, PanelType, NoListing, Shut
    <3>2. PICK m \in Model \cup {None} :
              /\ panel' = [panel EXCEPT !.listed = TRUE, !.ids = ids,
                                        !.shown.models[listing.provider] = m]
              /\ listing.model \in ids => m = listing.model
      BY <1>5, <2>1, <3>1 DEF Listed, ShowList, ShownOption, Listings
    <3>3. panel' \in Panels
      BY <3>1, <3>2 DEF Panels, Settings
    <3>4. PanelTrue'
      <4>1. panel.open /\ listing.provider = panel.shown.engine
            /\ panel.shown.engine = settings.engine /\ settings.engine # "local"
        BY <1>5, <2>1, <3>1, SettingsAssumption DEF Listed, PanelTrue, ListTrue, Panels, Listings
      <4>2. panel.shown.keys = settings.keys /\ panel.shown.models = settings.models
        BY <2>1, <4>1 DEF PanelTrue
      <4>3. /\ panel'.shown.engine = settings.engine /\ panel'.shown.keys = settings.keys
            /\ panel'.shown.models = [settings.models EXCEPT ![settings.engine] = m]
            /\ panel'.listed /\ panel'.ids = ids /\ panel'.typed = panel.typed
        BY <3>1, <3>2, <4>1, <4>2 DEF Panels, Settings
      <4>4. ASSUME settings.models[settings.engine] \in ids, ~panel.typed
            PROVE  panel'.shown.models = settings.models
        BY <1>5, <2>1, <3>1, <3>2, <4>1, <4>3, <4>4 DEF Listed, ListTrue, PanelType, Settings
      <4>5. QED
        BY <1>5, <4>1, <4>3, <4>4 DEF Listed, PanelTrue
    <3>5. ListTrue'
      BY <1>5, <2>1, <3>1, <3>2 DEF Listed, PanelTrue, ListTrue, Panels, Settings, NoListing
    <3>6. QED
      BY <1>5, <3>3, <3>4, <3>5 DEF Listed, PanelType, NoListing
  <2>2. CASE ~(listing.attached /\ ~panel.listed)
    BY <1>5, <2>2 DEF Listed, PanelType, PanelTrue, ListTrue, NoListing
  <2>3. QED
    BY <2>1, <2>2
<1>6. QED
  BY <1>1, <1>2, <1>3, <1>4, <1>5 DEF Look

LEMMA BootStep ==
    ASSUME PInv, BootDetected
    PROVE  PInv'
<1> USE DEF PInv
<1>1. UNCHANGED panelVars /\ boot' = "done"
  BY DEF BootDetected
<1>2. CASE UNCHANGED settings
  BY <1>1, <1>2 DEF panelVars, PanelType, PanelTrue, ListTrue
<1>3. CASE settings' = [settings EXCEPT !.preset = Light]
  <2>1. settings' \in Settings
    BY <1>3, SettingsAssumption DEF PanelType, Settings
  <2>2. PanelTrue' /\ ListTrue'
    BY <1>1, <1>3 DEF panelVars, PanelType, PanelTrue, ListTrue, Settings
  <2>3. QED
    BY <1>1, <2>1, <2>2 DEF panelVars, PanelType
<1>4. QED
  BY <1>2, <1>3 DEF BootDetected

LEMMA NextPInv == PInv /\ [PageNext]_pageVars => PInv'
<1> SUFFICES ASSUME PInv, [PageNext]_pageVars PROVE PInv'
  OBVIOUS
<1>1. CASE ChangeSettings
  BY <1>1, ChangeStep DEF ChangeSettings
<1>2. CASE LookAtPanel
  BY <1>2, LookStep DEF LookAtPanel
<1>3. CASE SubmitRequest
  <2>1. UNCHANGED <<settings, boot>> /\ (UNCHANGED panelVars \/ Render(settings'))
    BY <1>3 DEF SubmitRequest, Render
  <2>2. QED
    BY <2>1, Rendered DEF PInv, PanelType, PanelTrue, ListTrue, panelVars
<1>4. CASE UNCHANGED <<settings, panelVars, boot>>
  BY <1>4 DEF PInv, PanelType, PanelTrue, ListTrue, panelVars
<1>5. QED
  BY <1>1, <1>2, <1>3, <1>4, BootStep
     DEF PageNext, ReleaseButton, PageHides, EngineCreated, PassDone, RunFails, ModelStep, pageVars

LEMMA InitPInv == PageInit(Settings) => PInv
<1> SUFFICES ASSUME PageInit(Settings) PROVE PInv
  OBVIOUS
<1>1. PICK s \in Settings : settings = s \/ settings = [s EXCEPT !.preset = Light]
  BY DEF PageInit, LoadSettings
<1>2. settings \in Settings
  BY <1>1, SettingsAssumption DEF Settings
<1>3. QED
  BY <1>2 DEF PageInit, PanelInit, PInv, PanelType, PanelTrue, ListTrue, Shut, NoListing

\* What an open panel shows is what is set, but for what PanelTrue excepts.
THEOREM PanelCorrect == PageSpec => []PanelTrue
<1>1. PInv => PanelTrue
  BY DEF PInv
<1>2. QED
  BY InitPInv, NextPInv, <1>1, PTL DEF PageSpec
=============================================================================
