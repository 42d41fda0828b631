--------------------------- MODULE AppShellProofs ---------------------------
(***************************************************************************)
(* The invariants of the shell of a page and of its wizard, and that the   *)
(* sheet and the sidebar do not interfere.                                 *)
(***************************************************************************)
EXTENDS AppShell, TLAPS

\* A wizard that is closed is at its first step, whether it has faded out or
\* not: that is what the next one opened starts from. One that is open has
\* shown all the steps up to its own.
WizardInvariant ==
  /\ wizard.open => wizard.mounted
  /\ ~wizard.open => wizard.currentStep = 1
  /\ ~wizard.mounted => wizard.entered = {}
  /\ wizard.open => 1..wizard.currentStep \subseteq wizard.seen

Invariant == TypeOK /\ WizardInvariant /\ NoOrphan

(***************************************************************************)
(* The wizard.                                                             *)
(***************************************************************************)
WizardOK(w) ==
  /\ w \in Wizards
  /\ w.entered \subseteq FieldsOf(w.currentStep)
  /\ w.open => w.mounted
  /\ ~w.open => w.currentStep = 1
  /\ ~w.mounted => w.entered = {}
  /\ w.open => 1..w.currentStep \subseteq w.seen

LEMMA FieldsAreFields ==
  \A s \in Steps : FieldsOf(s) \subseteq UNION {FieldsOf(t) : t \in Steps}
  OBVIOUS

LEMMA FreshIsOK == WizardOK(Fresh)
  BY DEF WizardOK, Fresh, Wizards, Steps

\* Showing another step of an open wizard keeps it in order if all the steps
\* before it were shown.
LEMMA ShowStepIsOK ==
  ASSUME NEW w, WizardOK(w), w.open, NEW step \in Steps, step <= w.currentStep + 1
  PROVE  WizardOK(ShowStep(w, step))
<1>1. w \in Wizards /\ w.open = TRUE /\ w.currentStep \in Steps /\ w.seen \in SUBSET Steps
  BY DEF WizardOK, Wizards
<1>2. CASE step = w.currentStep
  BY <1>2 DEF ShowStep
<1>3. CASE step # w.currentStep
  <2> DEFINE v == [w EXCEPT !.currentStep = step, !.entered = {}, !.seen = @ \cup {step}]
  <2>1. ShowStep(w, step) = v
    BY <1>3 DEF ShowStep
  <2>2. /\ v \in Wizards
        /\ v.currentStep = step /\ v.entered = {} /\ v.seen = w.seen \cup {step}
        /\ v.open = w.open /\ v.mounted = w.mounted
    BY <1>1 DEF Wizards
  <2>3. 1..step \subseteq w.seen \cup {step}
    <3>1. 1..w.currentStep \subseteq w.seen
      BY <1>1 DEF WizardOK
    <3>2. 1..step \subseteq 1..w.currentStep \cup {step}
      BY <1>1 DEF Steps
    <3> QED  BY <3>1, <3>2
  <2> HIDE DEF v
  <2> QED  BY <1>1, <2>1, <2>2, <2>3 DEF WizardOK
<1> QED  BY <1>2, <1>3

LEMMA WizardNextIsOK ==
  ASSUME WizardOK(wizard), WizardNext
  PROVE  WizardOK(wizard')
<1>1. /\ wizard \in Wizards /\ wizard.currentStep \in Steps
      /\ wizard.seen \in SUBSET Steps /\ wizard.open \in BOOLEAN /\ wizard.mounted \in BOOLEAN
  BY DEF WizardOK, Wizards
<1>2. CASE OpenWizard
  <2>1. wizard.currentStep = 1
    BY <1>2 DEF OpenWizard, WizardOK
  <2>2. wizard' = [wizard EXCEPT !.open = TRUE, !.mounted = TRUE, !.seen = {1}]
    BY <1>2, <2>1 DEF OpenWizard
  <2>3. 1..1 \subseteq {1} /\ {1} \in SUBSET Steps
    BY DEF Steps
  <2>4. /\ wizard' \in Wizards
        /\ wizard'.currentStep = 1 /\ wizard'.seen = {1} /\ wizard'.mounted
        /\ wizard'.open /\ wizard'.entered = wizard.entered
    BY <1>1, <2>1, <2>2, <2>3 DEF Wizards
  <2> QED  BY <2>1, <2>3, <2>4 DEF WizardOK
<1>3. ASSUME NEW s \in Steps, NEW field \in FieldsOf(s), Enter(field)
      PROVE  WizardOK(wizard')
  BY <1>1, <1>3, FieldsAreFields DEF Enter, WizardOK, Wizards
<1>4. CASE NextStep
  BY <1>1, <1>4, ShowStepIsOK DEF NextStep, Steps
<1>5. CASE Back
  BY <1>1, <1>5, ShowStepIsOK DEF Back, Steps
<1>6. CASE HandleClose
  <2> DEFINE v == ShowStep(wizard, 1)
  <2>1. WizardOK(v)
    BY <1>1, <1>6, ShowStepIsOK DEF HandleClose, Steps
  <2>2. v.currentStep = 1 /\ v.mounted = wizard.mounted
    BY <1>1 DEF ShowStep, Wizards
  <2>3. wizard' = [v EXCEPT !.open = FALSE]
    BY <1>6 DEF HandleClose
  <2>4. v.mounted
    BY <1>6, <2>2 DEF HandleClose, WizardOK
  <2> HIDE DEF v
  <2> QED  BY <2>1, <2>2, <2>3, <2>4 DEF WizardOK, Wizards
<1>7. CASE FadedOut
  BY <1>1, <1>7 DEF FadedOut, WizardOK, Wizards
<1> QED  BY <1>2, <1>3, <1>4, <1>5, <1>6, <1>7 DEF WizardNext

(***************************************************************************)
(* The sidebar.                                                            *)
(***************************************************************************)
ShellOK ==
  /\ narrow \in BOOLEAN
  /\ shell \in Shells
  /\ cookie \in {<<>>, <<TRUE>>, <<FALSE>>}

LEMMA InvariantByParts == Invariant <=> ShellOK /\ WizardOK(wizard) /\ NoOrphan
  BY DEF Invariant, TypeOK, WizardInvariant, ShellOK, WizardOK

LEMMA SidebarStepIsOK ==
  ASSUME ShellOK, SidebarStep
  PROVE  ShellOK'
<1> USE DEF ShellOK, Shells
<1>1. CASE Resize
  BY <1>1 DEF Resize
<1>2. CASE UseIsMobile
  BY <1>2 DEF UseIsMobile
<1>3. CASE ToggleSidebar
  BY <1>3 DEF ToggleSidebar, SetOpen
<1>4. CASE SheetFadedOut
  BY <1>4 DEF SheetFadedOut
<1>5. CASE DismissSheet
  BY <1>5 DEF DismissSheet
<1> QED  BY <1>1, <1>2, <1>3, <1>4, <1>5 DEF SidebarStep

(***************************************************************************)
(* The invariant.                                                          *)
(***************************************************************************)
LEMMA InitIsOK == Init => Invariant
<1> SUFFICES ASSUME Init PROVE Invariant
  OBVIOUS
<1>1. ShellOK
  BY DEF Init, ShellOK, SidebarProvider, Shells
<1>2. WizardOK(wizard)
  BY FreshIsOK DEF Init
<1>3. NoOrphan
  BY DEF Init, NoOrphan, Fresh
<1> QED  BY <1>1, <1>2, <1>3, InvariantByParts

LEMMA NextIsOK == Invariant /\ [Next]_vars => Invariant'
<1> SUFFICES ASSUME Invariant, [Next]_vars PROVE Invariant'
  OBVIOUS
<1>0. ShellOK /\ WizardOK(wizard) /\ NoOrphan
  BY InvariantByParts
<1>1. CASE SidebarStep
  <2>1. ShellOK'
    BY <1>0, <1>1, SidebarStepIsOK
  <2>2. wizard' = wizard \/ wizard' = Fresh
    BY <1>1 DEF SidebarStep, KeepIfInPlace
  <2>3. WizardOK(wizard')
    BY <1>0, <2>2, FreshIsOK
  <2>4. NoOrphan'
    <3>1. CASE Place(shell') = Place(shell)
      BY <1>0, <1>1, <3>1 DEF SidebarStep, KeepIfInPlace, NoOrphan
    <3>2. CASE Place(shell') # Place(shell)
      BY <1>1, <3>2 DEF SidebarStep, KeepIfInPlace, NoOrphan, Fresh
    <3> QED  BY <3>1, <3>2
  <2> QED  BY <2>1, <2>3, <2>4, InvariantByParts DEF ShellOK, WizardOK, Invariant, TypeOK, WizardInvariant
<1>2. CASE WizardStep
  <2>1. ShellOK' /\ NoOrphan'
    BY <1>0, <1>2 DEF WizardStep, ShellOK, NoOrphan
  <2>2. WizardOK(wizard')
    BY <1>0, <1>2, WizardNextIsOK DEF WizardStep
  <2> QED  BY <2>1, <2>2 DEF ShellOK, WizardOK, Invariant, TypeOK, WizardInvariant
<1>3. CASE Navigate
  <2>1. ShellOK'
    BY <1>0, <1>3 DEF Navigate, ShellOK, SidebarProvider, Shells
  <2>2. WizardOK(wizard') /\ NoOrphan'
    BY <1>3, FreshIsOK DEF Navigate, NoOrphan, Fresh
  <2> QED  BY <2>1, <2>2 DEF ShellOK, WizardOK, Invariant, TypeOK, WizardInvariant
<1>4. CASE UNCHANGED vars
  BY <1>4 DEF vars, Invariant, TypeOK, WizardInvariant, NoOrphan
<1> QED  BY <1>1, <1>2, <1>3, <1>4 DEF Next

THEOREM ShellInvariant == Spec => []Invariant
<1>1. Init => Invariant
  BY InitIsOK
<1>2. Invariant /\ [Next]_vars => Invariant'
  BY NextIsOK
<1> QED  BY <1>1, <1>2, PTL DEF Spec

(***************************************************************************)
(* What it implies.                                                        *)
(***************************************************************************)
\* The state keeps its type, and only fields of the step that is shown hold
\* what was entered (create-wizard.tsx:130).
THEOREM TypeCorrect == Spec => []TypeOK
  BY ShellInvariant, PTL DEF Invariant

\* Every step the bar marks as complete was shown since the dialog was opened
\* (create-wizard.tsx:83): the wizard cannot be at a step it was not led to.
THEOREM HonestMarks == Spec => []MarksAreHonest
<1>1. Invariant => MarksAreHonest
  <2> SUFFICES ASSUME Invariant, wizard.open, NEW s \in Steps, StepMark(wizard, s) # "ahead"
               PROVE  s \in wizard.seen
    BY DEF MarksAreHonest
  <2>1. wizard.currentStep \in Steps
    BY DEF Invariant, TypeOK, Wizards
  <2>2. s <= wizard.currentStep
    BY <2>1 DEF StepMark, Steps
  <2>3. s \in 1..wizard.currentStep
    BY <2>1, <2>2 DEF Steps
  <2> QED  BY <2>3 DEF Invariant, WizardInvariant
<1> QED  BY <1>1, ShellInvariant, PTL

\* A dialog that has faded out, or whose sidebar was unmounted, leaves no step
\* and no value to the next one (create-wizard.tsx:45, app-sidebar.tsx:78).
THEOREM CleanStart == Spec => []NothingCarriesOver
<1>1. Invariant => NothingCarriesOver
  BY DEF Invariant, TypeOK, Wizards, WizardInvariant, NothingCarriesOver
<1> QED  BY <1>1, ShellInvariant, PTL

\* Neither sidebar is touched by what is done to the other (sidebar.tsx:88).
THEOREM SheetApart == Spec => SheetIsSeparate
<1>1. Invariant /\ [Next]_vars =>
        [SidebarStep => /\ shell.isMobile => shell'.open = shell.open /\ cookie' = cookie
                        /\ ~shell.isMobile => shell'.openMobile = shell.openMobile]_vars
  <2> SUFFICES ASSUME Invariant, SidebarStep
               PROVE  /\ shell.isMobile => shell'.open = shell.open /\ cookie' = cookie
                      /\ ~shell.isMobile => shell'.openMobile = shell.openMobile
    OBVIOUS
  <2>0. shell \in Shells
    BY DEF Invariant, TypeOK
  <2>1. CASE Resize
    BY <2>1 DEF Resize
  <2>2. CASE UseIsMobile
    BY <2>0, <2>2 DEF UseIsMobile, Shells
  <2>3. CASE ToggleSidebar
    BY <2>0, <2>3 DEF ToggleSidebar, SetOpen, Shells
  <2>4. CASE SheetFadedOut
    BY <2>0, <2>4 DEF SheetFadedOut, Shells
  <2>5. CASE DismissSheet
    BY <2>0, <2>5 DEF DismissSheet, Shells, Place
  <2> QED  BY <2>1, <2>2, <2>3, <2>4, <2>5 DEF SidebarStep
<1> QED  BY <1>1, ShellInvariant, PTL DEF Spec, SheetIsSeparate
=============================================================================
