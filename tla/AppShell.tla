------------------------------ MODULE AppShell ------------------------------
(***************************************************************************)
(* What surrounds every page of the platform: its sidebar, and in it the   *)
(* wizard, which lives only as long as the sidebar's content stays mounted *)
(* in one place. Every page has a provider of its own.                     *)
(***************************************************************************)
EXTENDS Sidebar, CreateWizard

vars == <<narrow, shell, cookie, wizard>>

Init ==
  /\ narrow \in BOOLEAN
  /\ shell = SidebarProvider
  /\ cookie = <<>>
  /\ wizard = Fresh

\* A mutant: the wizard survives whatever becomes of the sidebar.
KeepAlways == UNCHANGED wizard

\* The sidebar's content stays where it is, or is mounted anew, or is gone.
KeepIfInPlace ==
  wizard' = IF Place(shell') = Place(shell) THEN wizard ELSE Fresh

\* While the dialog is open it takes the clicks and the escape key, but not the
\* shortcut.
SidebarStep ==
  /\ Resize \/ UseIsMobile \/ ToggleSidebar \/ SheetFadedOut \/ (~wizard.open /\ DismissSheet)
  /\ KeepIfInPlace

\* The wizard is there where the content of the sidebar is.
WizardStep ==
  /\ Place(shell) # "nowhere"
  /\ WizardNext
  /\ UNCHANGED <<narrow, shell, cookie>>

\* Another page: a new provider with a new sidebar. The cookie is left, and
\* nobody reads it.
Navigate ==
  /\ shell' = SidebarProvider
  /\ wizard' = Fresh
  /\ UNCHANGED <<narrow, cookie>>

Next == SidebarStep \/ WizardStep \/ Navigate

Spec == Init /\ [][Next]_vars

(***************************************************************************)
(* Properties.                                                             *)
(***************************************************************************)
\* Among the types: only fields of the step that is shown hold values. At the
\* end of the wizard nothing is left of what the first three steps asked for.
TypeOK ==
  /\ narrow \in BOOLEAN
  /\ shell \in Shells
  /\ cookie \in {<<>>, <<TRUE>>, <<FALSE>>}
  /\ wizard \in Wizards
  /\ wizard.entered \subseteq FieldsOf(wizard.currentStep)

\* The steps the bar marks as complete, and the current one, were shown since
\* the dialog was opened: "Create Application" is never offered to a user who
\* has not been led through all four.
MarksAreHonest ==
  wizard.open => \A s \in Steps : StepMark(wizard, s) # "ahead" => s \in wizard.seen

\* The wizard is never there without the sidebar that holds it: closing the
\* sheet or resizing the window across the breakpoint takes it along.
NoOrphan == Place(shell) = "nowhere" => ~wizard.mounted

\* A wizard that is gone, because its dialog has faded out or its sidebar has
\* been unmounted, leaves nothing to the next one.
NothingCarriesOver ==
  /\ NoOrphan
  /\ ~wizard.mounted => ~wizard.open /\ wizard.currentStep = 1 /\ wizard.entered = {}

\* What is done to the sheet on a narrow screen changes neither the sidebar a
\* wide screen shows nor the cookie, and the other way round.
SheetIsSeparate ==
  [][SidebarStep => /\ shell.isMobile => shell'.open = shell.open /\ cookie' = cookie
                    /\ ~shell.isMobile => shell'.openMobile = shell.openMobile]_vars
=============================================================================
