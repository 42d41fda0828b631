------------------------------ MODULE Sidebar ------------------------------
(***************************************************************************)
(* The sidebar of a page. On a wide screen it stands beside the page,      *)
(* expanded or collapsed to icons; on a narrow one it is a sheet over the  *)
(* page. The provider learns the width from an effect and from the media   *)
(* query it listens to, so its idea of it may be late.                     *)
(***************************************************************************)

VARIABLES
  narrow,   \* the window is narrower than the breakpoint
  shell,    \* the provider's state, and whether the sheet is mounted
  cookie    \* the cookie sidebar_state: <<>>, <<TRUE>> or <<FALSE>>

Shells ==
  [isMobile : BOOLEAN, open : BOOLEAN, openMobile : BOOLEAN, sheetMounted : BOOLEAN]

\* The state after mounting: open by default, the width not yet looked at.
SidebarProvider ==
  [isMobile |-> FALSE, open |-> TRUE, openMobile |-> FALSE, sheetMounted |-> FALSE]

\* Where the content of the sidebar hangs: in the sheet until that, closed, has
\* faded out, or beside the page. Content that moves from one to the other is mounted anew.
Place(s) ==
  IF ~s.isMobile THEN "beside" ELSE IF s.sheetMounted THEN "sheet" ELSE "nowhere"

\* Names appear in tooltips when the sidebar beside the page shows icons only.
ShowsTooltips(s) == ~s.open /\ ~s.isMobile

Resize ==
  /\ narrow' = ~narrow
  /\ UNCHANGED <<shell, cookie>>

\* The effect after mounting, and the listener of the media query. A sheet that
\* was left open is open again when the window has become narrow again.
UseIsMobile ==
  /\ shell.isMobile # narrow
  /\ shell' = [shell EXCEPT !.isMobile = narrow, !.sheetMounted = narrow /\ shell.openMobile]
  /\ UNCHANGED <<narrow, cookie>>

SetOpen(value) ==
  /\ shell' = [shell EXCEPT !.open = value]
  /\ cookie' = <<value>>

\* A mutant: the sheet is opened and closed by way of the sidebar's state.
ToggleSidebarOnly == SetOpen(~shell.open) /\ UNCHANGED narrow

\* The trigger in the header, the rail, and the shortcut.
ToggleSidebar ==
  /\ IF shell.isMobile
     THEN /\ shell' = [shell EXCEPT !.openMobile = ~@, !.sheetMounted = TRUE]
          /\ UNCHANGED cookie
     ELSE SetOpen(~shell.open)
  /\ UNCHANGED narrow

\* A click beside the sheet, or the escape key.
DismissSheet ==
  /\ Place(shell) = "sheet" /\ shell.openMobile
  /\ shell' = [shell EXCEPT !.openMobile = FALSE]
  /\ UNCHANGED <<narrow, cookie>>

SheetFadedOut ==
  /\ Place(shell) = "sheet" /\ ~shell.openMobile
  /\ shell' = [shell EXCEPT !.sheetMounted = FALSE]
  /\ UNCHANGED <<narrow, cookie>>
=============================================================================
