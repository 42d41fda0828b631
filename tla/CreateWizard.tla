---------------------------- MODULE CreateWizard ----------------------------
(***************************************************************************)
(* The dialog that creates an application, in four steps. Its fields keep  *)
(* their values themselves: a step that is left is unmounted with all that *)
(* was entered into it. A dialog that closes stays mounted until it has    *)
(* faded out.                                                              *)
(***************************************************************************)
EXTENDS Integers

VARIABLE wizard

Steps == 1..4

\* The fields of each step.
StepTarget == {"cluster", "deployment"}
StepSource == {"repository", "branch", "path"}
StepSyncPolicy == {"policy"}
StepSecrets == {"secrets"}

FieldsOf(step) ==
  CASE step = 1 -> StepTarget
    [] step = 2 -> StepSource
    [] step = 3 -> StepSyncPolicy
    [] step = 4 -> StepSecrets

\* entered: the fields of this step with a value of the user's. A history
\* variable, seen, holds the steps shown since the dialog was opened.
Wizards ==
  [open : BOOLEAN, mounted : BOOLEAN, currentStep : Steps,
   entered : SUBSET UNION {FieldsOf(s) : s \in Steps}, seen : SUBSET Steps]

Fresh == [open |-> FALSE, mounted |-> FALSE, currentStep |-> 1, entered |-> {}, seen |-> {}]

\* How the bar above the form marks a step.
StepMark(w, step) ==
  IF w.currentStep > step THEN "complete"
  ELSE IF w.currentStep = step THEN "current" ELSE "ahead"

\* A mutant: the fields of the last step stay.
ShowStepKeepingFields(w, step) ==
  IF step = w.currentStep THEN w
  ELSE [w EXCEPT !.currentStep = step, !.seen = @ \cup {step}]

\* Another step: its fields are mounted, those of the last one are gone.
ShowStep(w, step) ==
  IF step = w.currentStep THEN w
  ELSE [w EXCEPT !.currentStep = step, !.entered = {}, !.seen = @ \cup {step}]

\* A dialog that is opened while it fades out finds its first step as it was.
OpenWizard ==
  /\ ~wizard.open
  /\ wizard' = [wizard EXCEPT !.open = TRUE, !.mounted = TRUE, !.seen = {wizard.currentStep}]

Enter(field) ==
  /\ wizard.open
  /\ field \in FieldsOf(wizard.currentStep)
  /\ wizard' = [wizard EXCEPT !.entered = @ \cup {field}]

NextStep ==
  /\ wizard.open /\ wizard.currentStep < 4
  /\ wizard' = ShowStep(wizard, wizard.currentStep + 1)

Back ==
  /\ wizard.open /\ wizard.currentStep # 1
  /\ wizard' = ShowStep(wizard, wizard.currentStep - 1)

\* A mutant: the dialog that closes stays at its step.
HandleCloseAtStep ==
  /\ wizard.open
  /\ wizard' = [wizard EXCEPT !.open = FALSE]

\* Closing goes back to the first step; "Create Application" only closes.
HandleClose ==
  /\ wizard.open
  /\ wizard' = [ShowStep(wizard, 1) EXCEPT !.open = FALSE]

\* A mutant: the dialog is hidden, not unmounted.
FadedOutKeepingFields ==
  /\ wizard.mounted /\ ~wizard.open
  /\ wizard' = [wizard EXCEPT !.mounted = FALSE]

FadedOut ==
  /\ wizard.mounted /\ ~wizard.open
  /\ wizard' = [wizard EXCEPT !.mounted = FALSE, !.entered = {}]

WizardNext ==
  \/ OpenWizard
  \/ \E s \in Steps : \E field \in FieldsOf(s) : Enter(field)
  \/ NextStep
  \/ Back
  \/ HandleClose
  \/ FadedOut
=============================================================================
