---------------------------- MODULE SettingsPanel ----------------------------
(***************************************************************************)
(* The settings of the web application (src/src/web/lib/settings.ts) and   *)
(* the panel that shows and changes them (lib/ui/settings-panel.ts).  The  *)
(* panel is rendered from the settings and not kept in step with them, and *)
(* a list of a provider's models is asked for and arrives later.           *)
(*                                                                         *)
(* Each action is the whole handler of an event, except for what persist() *)
(* in index.ts does besides storing the settings, which WebPage adds.      *)
(***************************************************************************)
EXTENDS FiniteSets

CONSTANTS
    Provider,   \* ApiProvider
    Preset,     \* LOCAL_MODEL_PRESETS
    Light,      \* LIGHT_PRESET_ID, also the default
    Legacy,     \* the preset that version 1 chose by itself
    Repo,       \* what the user may enter as a custom model
    Key, Model, \* what the user may enter for a provider
    None        \* the empty string

ASSUME SettingsAssumption ==
    /\ {Light, Legacy} \subseteq Preset /\ "custom" \notin Preset
    /\ "local" \notin Provider
    /\ None \notin Repo \cup Key \cup Model

VARIABLES
    settings,
    panel,      \* whether it is open, what it shows, and the list of models in it; and, for
                \* PanelTrue, whether a model was typed since a list was asked for
    listing     \* the latest request for a list

panelVars == <<panel, listing>>

Settings == [engine : {"local"} \cup Provider, preset : Preset \cup {"custom"},
             repo : Repo \cup {None},
             keys : [Provider -> Key \cup {None}], models : [Provider -> Model \cup {None}]]

\* loadSettings(): what an earlier visit stored, by this version or the first.
LoadSettings(stored, current) ==
    IF ~current /\ stored.preset = Legacy THEN [stored EXCEPT !.preset = Light] ELSE stored

IsEngineReady(s) ==
    IF s.engine = "local" THEN s.preset # "custom" \/ s.repo # None
    ELSE s.keys[s.engine] # None /\ s.models[s.engine] # None

Shut == [open |-> FALSE]
NoListing == [asked |-> FALSE]

PanelInit == panel = Shut /\ listing = NoListing

\* render(): a request that is under way keeps the widgets it was made with, which are
\* no longer on the page.
Render(s) ==
    /\ panel' = [open |-> TRUE, shown |-> s, listed |-> FALSE, ids |-> {}, typed |-> FALSE]
    /\ listing' = IF listing.asked THEN [listing EXCEPT !.attached = FALSE] ELSE NoListing

\* A closed panel is rendered again before it is shown.
Hide ==
    /\ panel' = Shut
    /\ listing' = IF listing.asked THEN [listing EXCEPT !.attached = FALSE] ELSE NoListing

OpenPanel == ~panel.open /\ Render(settings) /\ UNCHANGED settings
ClosePanel == panel.open /\ Hide /\ UNCHANGED settings

Showing(engines) == panel.open /\ panel.shown.engine \in engines

-----------------------------------------------------------------------------
(* The handlers that change a setting.                                     *)

PickEngine(e) ==
    /\ panel.open
    /\ settings' = [settings EXCEPT !.engine = e]
    /\ Render(settings')

\* The radio that is shown as checked does not fire.  Only "custom" needs more of the
\* panel; every other choice closes it.
PickPreset(p) ==
    /\ Showing({"local"}) /\ p # panel.shown.preset
    /\ settings' = [settings EXCEPT !.engine = "local", !.preset = p]
    /\ IF p = "custom" THEN Render(settings') ELSE Hide

EnterRepo(r) ==
    /\ Showing({"local"}) /\ panel.shown.preset = "custom"
    /\ settings' = [settings EXCEPT !.repo = r]
    /\ panel' = [panel EXCEPT !.shown.repo = r]
    /\ UNCHANGED listing

EnterKey(k) ==
    /\ Showing(Provider)
    /\ settings' = [settings EXCEPT !.keys[panel.shown.engine] = k]
    /\ panel' = [panel EXCEPT !.shown.keys[panel.shown.engine] = k]
    /\ UNCHANGED listing

\* The text field, or the list once it has replaced the field.
EnterModel(m) ==
    /\ Showing(Provider)
    /\ panel.listed => m \in panel.ids /\ m # panel.shown.models[panel.shown.engine]
    /\ settings' = [settings EXCEPT !.models[panel.shown.engine] = m]
    /\ panel' = [panel EXCEPT !.shown.models[panel.shown.engine] = m,
                              !.typed = @ \/ ~panel.listed]
    /\ UNCHANGED listing

ClearKeys ==
    /\ Showing(Provider)
    /\ settings' = [settings EXCEPT !.keys = [p \in Provider |-> None]]
    /\ Render(settings')

-----------------------------------------------------------------------------
(* The list of models.                                                     *)

\* The click: without a key it fails at once.  A request that was made by widgets that
\* are gone no longer matters.
ListModels ==
    /\ Showing(Provider) /\ settings.keys[panel.shown.engine] # None
    /\ ~(listing.asked /\ listing.attached)
    /\ listing' = [asked |-> TRUE, attached |-> TRUE, provider |-> panel.shown.engine,
                   model |-> settings.models[panel.shown.engine]]
    /\ panel' = [panel EXCEPT !.typed = @ /\ panel.listed]
    /\ UNCHANGED settings

\* The option that a new list shows: the model at the time of the request, or the first.
ShownOption(ids) ==
    IF listing.model \in ids THEN {listing.model} ELSE IF ids = {} THEN {None} ELSE ids

\* A list of these ids takes the place of the text field.
ShowList(ids) ==
    \E m \in ShownOption(ids) :
        panel' = [panel EXCEPT !.listed = TRUE, !.ids = ids, !.shown.models[listing.provider] = m]

Listed_FaultyDetached(ids) ==
    /\ listing.asked
    /\ IF Showing({listing.provider}) /\ ~panel.listed THEN ShowList(ids) ELSE UNCHANGED panel
    /\ listing' = NoListing
    /\ UNCHANGED settings

\* The answer.  The field can be replaced only once: of a second list nothing is seen.
Listed(ids) ==
    /\ listing.asked
    /\ IF listing.attached /\ ~panel.listed THEN ShowList(ids) ELSE UNCHANGED panel
    /\ listing' = NoListing
    /\ UNCHANGED settings

ListFails == listing.asked /\ listing' = NoListing /\ UNCHANGED <<settings, panel>>

-----------------------------------------------------------------------------
\* The handlers that call persist().
Change ==
    \/ \E e \in {"local"} \cup Provider : PickEngine(e)
    \/ \E p \in Preset \cup {"custom"} : PickPreset(p)
    \/ \E r \in Repo \cup {None} : EnterRepo(r)
    \/ \E k \in Key \cup {None} : EnterKey(k)
    \/ \E m \in Model \cup {None} : EnterModel(m)
    \/ ClearKeys

\* The handlers that do not.
Look ==
    \/ OpenPanel \/ ClosePanel \/ ListModels \/ ListFails
    \/ \E ids \in SUBSET Model : Listed(ids)
=============================================================================
