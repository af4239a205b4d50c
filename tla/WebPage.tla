------------------------------- MODULE WebPage -------------------------------
(***************************************************************************)
(* The web application around its engines (src/src/web/index.ts): the      *)
(* settings panel and the on-device engine, composed with the run of a     *)
(* compilation, the badge that says whether it stays on the device, and    *)
(* the check of the device when the page starts.                           *)
(*                                                                         *)
(* The settings may change at any moment of a run, which keeps the engine  *)
(* it was started with.  What a run writes and shows is SpecStream; the    *)
(* status texts, the notices, the drawer's animation and copying are left  *)
(* out.  Operators named ..._Faulty... are deliberate errors: they stand   *)
(* in for the definition after them to show that a property notices.       *)
(***************************************************************************)
EXTENDS LocalModel, SettingsPanel

CONSTANTS
    PresetChoice,  \* the LocalModelChoice of each preset
    PassCount      \* COMPILE_PASSES.length

ASSUME PresetAssumption == DOMAIN PresetChoice = Preset /\ PassCount \in Nat \ {0}

VARIABLES
    boot,    \* detecting (the device), or done
    run,     \* the compilation
    badge    \* the rail says "on device"

pageVars == <<modelVars, settings, panelVars, boot, run, badge>>

NoRun == [phase |-> "idle"]

\* What a pasted repository is taken to be.
CustomChoice(repo) == [modelId |-> repo, device |-> "webgpu"]

LocalChoice(s) ==
    IF s.preset = "custom" /\ s.repo # None THEN CustomChoice(s.repo)
    ELSE PresetChoice[IF s.preset \in Preset THEN s.preset ELSE Light]

\* What the badge becomes for an engine.
OnDevice(engine) == engine = "local"

\* boot() up to its await.
PageInit(stored) ==
    /\ LocalInit /\ PanelInit
    /\ \E s \in stored, current \in BOOLEAN : settings = LoadSettings(s, current)
    /\ boot = IF settings.engine = "local" /\ IsEngineReady(settings) THEN "detecting" ELSE "done"
    /\ run = NoRun
    /\ badge = OnDevice(settings.engine)

-----------------------------------------------------------------------------
(* Settings.                                                               *)

ReleasedBy_FaultyEngineOnly ==
    IF settings.engine = "local" /\ settings'.engine # "local"
    THEN ReleaseLocalModel ELSE UNCHANGED <<memory, cached>>

\* persist() releases the model when its engine is left or its choice may be another.
ReleasedBy ==
    IF /\ settings.engine = "local"
       /\ \/ settings'.engine # "local"
          \/ settings'.preset # settings.preset
          \/ settings'.repo # settings.repo
    THEN ReleaseLocalModel ELSE UNCHANGED <<memory, cached>>

\* A handler of the panel that ends in persist(), which renews the badge.
ChangeSettings ==
    /\ Change
    /\ ReleasedBy
    /\ badge' = OnDevice(settings'.engine)
    /\ UNCHANGED <<call, boot, run>>

LookAtPanel == Look /\ UNCHANGED <<modelVars, boot, run, badge>>

\* The button of the panel, which is there for the on-device engine.
ReleaseButton ==
    /\ Showing({"local"})
    /\ ReleaseLocalModel
    /\ UNCHANGED <<call, settings, panelVars, boot, run, badge>>

\* The page is hidden, perhaps to come back.
PageHides ==
    /\ ReleaseLocalModel
    /\ UNCHANGED <<call, settings, panelVars, boot, run, badge>>

SelectModelTier(webgpu, deviceMemory) ==
    IF ~webgpu \/ deviceMemory \in {"unknown", "small"} THEN "light" ELSE "default"

\* The rest of boot(): a preset the device cannot serve is replaced.  It looks at the
\* settings of this moment, but not at their engine, and the badge becomes the model's.
BootDetected ==
    /\ boot = "detecting" /\ boot' = "done"
    /\ \E webgpu \in BOOLEAN, deviceMemory \in {"unknown", "small", "enough"} :
          IF /\ SelectModelTier(webgpu, deviceMemory) = "light"
             /\ settings.preset \in Preset /\ PresetChoice[settings.preset].device = "webgpu"
          THEN settings' = [settings EXCEPT !.preset = Light] /\ ReleasedBy
          ELSE UNCHANGED <<settings, memory, cached>>
    /\ badge' = OnDevice("local")
    /\ UNCHANGED <<call, panelVars, run>>

-----------------------------------------------------------------------------
(* Compiling.  The composer is disabled while a run is not idle.           *)

\* An engine that lacks a setting opens the panel; else the engine and the choice of
\* this moment are the run's.
SubmitRequest ==
    /\ run.phase = "idle"
    /\ IF IsEngineReady(settings)
       THEN /\ run' = [phase |-> "preparing", engine |-> settings.engine,
                       choice |-> LocalChoice(settings), pass |-> 1]
            /\ UNCHANGED panelVars
       ELSE Render(settings) /\ UNCHANGED run
    /\ UNCHANGED <<modelVars, settings, boot, badge>>

\* engine.compile(), to its first await.
StartPass == IF run.engine = "local" THEN Load(run.choice) ELSE UNCHANGED modelVars

\* createEngine() has answered.
EngineCreated ==
    /\ run.phase = "preparing"
    /\ run' = [run EXCEPT !.phase = "compiling"]
    /\ badge' = OnDevice(run.engine)
    /\ StartPass
    /\ UNCHANGED <<settings, panelVars, boot>>

ModelStep(step) == step /\ UNCHANGED <<settings, panelVars, boot, run, badge>>

\* A request to the provider is under way; nothing of it is kept here but its end.
ProviderAsked == run.phase = "compiling" /\ run.engine \in Provider

\* The pass has its text: the next one, or the end.
PassDone ==
    /\ ProviderAsked \/ call.phase = "generating"
    /\ IF run.pass < PassCount
       THEN run' = [run EXCEPT !.pass = @ + 1] /\ StartPass
       ELSE run' = NoRun /\ call' = NoCall /\ UNCHANGED <<memory, cached>>
    /\ UNCHANGED <<settings, panelVars, boot, badge>>

\* The code of the provider's engine cannot be imported.
EngineMissing == run.phase = "preparing" /\ run.engine \in Provider /\ UNCHANGED modelVars

\* The provider refuses, or does not answer.
ProviderFails == ProviderAsked /\ UNCHANGED modelVars

RunFails ==
    /\ EngineMissing \/ ProviderFails \/ CallFails
    /\ run' = NoRun
    /\ UNCHANGED <<settings, panelVars, boot, badge>>

PageNext ==
    \/ ChangeSettings \/ LookAtPanel \/ ReleaseButton \/ PageHides \/ BootDetected
    \/ SubmitRequest \/ EngineCreated \/ PassDone \/ RunFails
    \/ ModelStep(Evicted) \/ ModelStep(Loaded) \/ ModelStep(Measured)
    \/ \E i \in Slot : ModelStep(Disposed(i))

\* An earlier visit may have left any settings.
PageSpec == PageInit(Settings) /\ [][PageNext]_pageVars

\* Disposals, downloads, measurements and generations end, and the promises of a run
\* are continued.
PageFairness ==
    /\ WF_pageVars(EngineCreated \/ PassDone \/ RunFails)
    /\ WF_pageVars(ModelStep(Evicted) \/ ModelStep(Loaded) \/ ModelStep(Measured))
    /\ \A i \in Slot : WF_pageVars(ModelStep(Disposed(i)))

-----------------------------------------------------------------------------
\* Properties.

\* The only model in memory that nobody is disposing of is the cached one, so none is
\* lost to the page, and a generation runs on a model of the choice its run began with
\* (local.ts:17-19, 80-100: "One model stays resident; switching models ... evicts it").
ModelsAccounted ==
    /\ \A i \in Slot : Live(i) <=> i = cached
    /\ call.phase = "generating" /\ memory[call.model] # Free =>
          memory[call.model].choice = run.choice

Wanted(i) == settings.engine = "local" /\ memory[i].choice = LocalChoice(settings)

\* A model that the settings do not ask for is not left in memory by a change of the
\* settings, whoever makes it and whatever is under way: it comes only from a load that
\* was under way and publishes late (index.ts:160-186, local.ts:22).
StaleOnlyLate ==
    [][\A i \in Slot : (Live(i) /\ ~Wanted(i))' /\ memory[i].state # "free"
            => Live(i) /\ ~Wanted(i)]_pageVars

\* What a comment says of the badge, and the code does not keep (types.ts:46, "True only
\* when no request leaves the browser -- drives the privacy indicator in the UI"): a
\* change of the settings renews it under a run that goes on with the engine it began
\* with (index.ts:178), and so does the check of the device (index.ts:475).
BadgeHonest == badge => ~ProviderAsked

\* What an open panel shows is what is set, in spite of the handlers that do not render
\* it and of the answers that come late, for a panel that was drawn again or for another
\* engine.  Excepted are the preset that the check of the device replaced, and the option
\* of a list that does not have the model that is set, or replaced the field after a
\* model was typed into it (settings-panel.ts:39-51, 230-257).
PanelTrue ==
    panel.open =>
        /\ panel.shown.engine = settings.engine
        /\ settings.engine = "local" =>
              /\ \/ panel.shown.preset = settings.preset
                 \/ settings.preset = Light /\ boot = "done"
              /\ panel.shown.repo = settings.repo
        /\ settings.engine # "local" =>
              /\ panel.shown.keys = settings.keys
              /\ \/ panel.shown.models = settings.models
                 \/ /\ panel.listed
                    /\ settings.models[settings.engine] \in panel.ids => panel.typed

\* Every run ends, and the composer can be used again, also when its model is released
\* between the steps of a load.
RunEnds == run.phase # "idle" ~> run.phase = "idle"
=============================================================================
