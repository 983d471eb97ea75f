----------------------------- MODULE ConfigPanel -----------------------------
(***************************************************************************)
(* The form of src/components/ConfigPanel.tsx.  Its six settings are two   *)
(* kinds: watched ones, whose change in the metrics makes the effect load  *)
(* the form (workers, capacity, threshold), and others (flush window,      *)
(* rate, burst).  One setting of each kind stands for its three.           *)
(*                                                                         *)
(* The component's state is made when its tab is opened and is gone when   *)
(* the tab is left.  Operators with the same name in Console join these    *)
(* steps to the requests they make.                                        *)
(***************************************************************************)
EXTENDS Naturals

CONSTANTS
    Level,          \* what a slider can be set to, and the gateway be given
    Unset           \* metrics before the first answer: null

Settings == [watched : Level, other : Level]

VARIABLES
    mounted,        \* the tab is open
    form,
    isSaving, savedSuccess,
    clearTimers,    \* timeouts of this panel that will clear savedSuccess
    unsaved         \* history: the user moved a slider since the form was
                    \* loaded or sent, or the save that sent it failed

saveState == <<isSaving, savedSuccess, clearTimers>>
panelVars == <<mounted, form, saveState, unsaved>>

PanelTypeOK ==
    /\ mounted \in BOOLEAN /\ form \in Settings
    /\ {isSaving, savedSuccess, unsaved} \subseteq BOOLEAN
    /\ clearTimers \in Nat

Load(settings) == form' = settings /\ unsaved' = FALSE

\* useState gives the defaults; the effect runs after the first render.
\* seen is the settings in the metrics shown, or Unset.
Open(defaults, seen) ==
    /\ ~mounted
    /\ mounted' = TRUE
    /\ Load(IF seen = Unset THEN defaults ELSE seen)
    /\ isSaving' = FALSE /\ savedSuccess' = FALSE /\ clearTimers' = 0

\* Nothing of the panel is left; its timeouts set the state of no component.
Close(defaults) ==
    /\ mounted
    /\ mounted' = FALSE
    /\ Load(defaults)
    /\ isSaving' = FALSE /\ savedSuccess' = FALSE /\ clearTimers' = 0

\* Mutant of Effect: the workers are left out of the dependencies, so that the
\* form is loaded once.
Effect_LoadsOnce(before, now) ==
    IF mounted /\ before = Unset
      THEN Load(now)
      ELSE UNCHANGED <<form, unsaved>>

\* The effect's dependencies are the watched settings only; it loads them all.
Effect(before, now) ==
    IF mounted /\ (IF before = Unset THEN TRUE ELSE before.watched # now.watched)
      THEN Load(now)
      ELSE UNCHANGED <<form, unsaved>>

\* The sliders can be moved at any time, also during a save.
EditWatched(v) ==
    /\ mounted /\ form.watched # v
    /\ form' = [form EXCEPT !.watched = v] /\ unsaved' = TRUE
    /\ UNCHANGED <<mounted, saveState>>

EditOther(v) ==
    /\ mounted /\ form.other # v
    /\ form' = [form EXCEPT !.other = v] /\ unsaved' = TRUE
    /\ UNCHANGED <<mounted, saveState>>

CanSubmit == mounted /\ ~isSaving

\* Up to the await.
Submit ==
    /\ CanSubmit
    /\ isSaving' = TRUE /\ unsaved' = FALSE
    /\ UNCHANGED <<mounted, form, savedSuccess, clearTimers>>

\* After it: the request was answered, or the fetch has thrown.
Saved ==
    /\ savedSuccess' = TRUE /\ clearTimers' = clearTimers + 1
    /\ isSaving' = FALSE
    /\ UNCHANGED <<mounted, form, unsaved>>

SaveFailed ==
    /\ isSaving' = FALSE /\ unsaved' = TRUE
    /\ UNCHANGED <<mounted, form, savedSuccess, clearTimers>>

ClearSaved ==
    /\ clearTimers > 0
    /\ clearTimers' = clearTimers - 1 /\ savedSuccess' = FALSE
    /\ UNCHANGED <<mounted, form, isSaving, unsaved>>
=============================================================================
