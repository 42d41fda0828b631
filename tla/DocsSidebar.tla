---------------------------- MODULE DocsSidebar ----------------------------
(***************************************************************************)
(* The navigation of the documentation site: a tree of pages, the links to *)
(* the pages before and after the current one, and a sidebar. On a wide    *)
(* screen the sidebar stands beside the page; collapsed, it slides out     *)
(* while the pointer is over it. On a narrow screen it is a drawer.        *)
(***************************************************************************)
EXTENDS Integers, Sequences, FiniteSets

CONSTANTS
  PageList,          \* the pages, in the order of the tree
  Folders,
  Contains,          \* the pages of each folder and of the folders in it
  Around,            \* the folders each folder lies in, from its own to the outermost
  DefaultOpenLevel   \* folders down to this depth are open at first

Pages == {PageList[i] : i \in DOMAIN PageList}

ASSUME TreeAssumption ==
  /\ PageList \in Seq(Pages) /\ PageList # <<>>
  /\ \A i, j \in DOMAIN PageList : PageList[i] = PageList[j] => i = j
  /\ IsFiniteSet(Folders) /\ Contains \in [Folders -> SUBSET Pages]
  /\ Around \in [Folders -> SUBSET Folders]
  /\ \A f \in Folders :
       /\ f \notin Around[f]
       /\ \A g \in Around[f] : Around[g] \subseteq Around[f] /\ Contains[f] \subseteq Contains[g]
       /\ \A g, h \in Around[f] : g = h \/ g \in Around[h] \/ h \in Around[g]
  /\ DefaultOpenLevel \in Nat

VARIABLES
  narrow,     \* the window is narrower than 768 pixels
  pathname,   \* the page shown, and whether its path ends in a slash
  sidebar     \* what the provider and the two sidebars remember

vars == <<narrow, pathname, sidebar>>

(***************************************************************************)
(* The tree.                                                               *)
(***************************************************************************)
Paths == [page : Pages, slash : BOOLEAN]

Normalize(path) == [path EXCEPT !.slash = FALSE]

\* A mutant: the path as it is.
IsActiveAsGiven(page, path) == [page |-> page, slash |-> FALSE] = path

IsActive(page, path) == [page |-> page, slash |-> FALSE] = Normalize(path)

\* The items of the tree that are marked as current.
ActiveItems(path) == {page \in Pages : IsActive(page, path)}

\* A folder that holds the page is part of the path through the tree.
TreePath(path) == {f \in Folders : path.page \in Contains[f]}
Depth(folder) == Cardinality(Around[folder]) + 1
Inside(folder) == {f \in Folders : folder \in Around[f]}

DefaultOpen(folder, path) == folder \in TreePath(path) \/ DefaultOpenLevel >= Depth(folder)

OpenAtFirst(path) == {f \in Folders : DefaultOpen(f, path)}

\* A mutant: the new path opens none.
OpenedByNothing(panels, old, new) == {}

\* A folder that becomes open by default with the new path is opened if it is mounted,
\* or is as soon as those around it are opened; none is closed.
OpenedBy(panels, old, new) ==
  LET becoming == OpenAtFirst(new) \ OpenAtFirst(old)
  IN  {f \in becoming : Around[f] \subseteq panels \cup becoming}

NoPage == "no page"
PageAt(i) == IF i \in DOMAIN PageList THEN PageList[i] ELSE NoPage
Place(path) == CHOOSE i \in DOMAIN PageList : IsActive(PageList[i], path)

\* A mutant: the page after the next.
FooterSkipping(path) == [previous |-> PageAt(Place(path) - 1), next |-> PageAt(Place(path) + 2)]

Footer(path) == [previous |-> PageAt(Place(path) - 1), next |-> PageAt(Place(path) + 1)]

(***************************************************************************)
(* The sidebar. The content of the drawer and the overlay behind it go     *)
(* only when the animation of their closing has ended.                     *)
(***************************************************************************)
Pointing == {"nothing", "enter", "leave"}

\* over: the pointer is over the sidebar or the strip that calls it. timer: it
\* is to be hidden. moves: it is being animated, as are, each by itself, the drawer's content and
\* overlay. folders: those open in the copy of the tree that is mounted. panels:
\* those whose content is mounted: it stays until the transition of closing has ended.
\* Two history variables: heeded, what was made of the pointer since the sidebar was
\* collapsed, and shut, the folders the reader has folded, as far as the tree remembers.
Sidebars ==
  [mode : {"full", "drawer"}, open : BOOLEAN, collapsed : BOOLEAN, hover : BOOLEAN,
   timer : BOOLEAN, over : BOOLEAN, moves : BOOLEAN, heeded : Pointing,
   contentHidden : BOOLEAN, overlayHidden : BOOLEAN,
   contentMoves : BOOLEAN, overlayMoves : BOOLEAN,
   folders : SUBSET Folders, panels : SUBSET Folders, shut : SUBSET Folders]

\* A mutant: the overlay is there on a wide screen, too.
OverlayShownAnywhere(s) == ~s.overlayHidden

OverlayShown(s) == s.mode = "drawer" /\ ~s.overlayHidden
ContentShown(s) == s.mode = "drawer" /\ ~s.contentHidden

\* A mutant: what was hidden stays hidden.
RenderedAsHidden(s) == s

\* What is rendered of a drawer that is open is not hidden.
Rendered(s) ==
  [s EXCEPT !.contentHidden = @ /\ ~s.open, !.overlayHidden = @ /\ ~s.open]

\* A drawer that is opened or closed is animated, from wherever it is.
WithOpen(s, value) ==
  LET r == Rendered([s EXCEPT !.open = value])
  IN  IF value = s.open THEN s
      ELSE [r EXCEPT !.contentMoves = r.mode = "drawer", !.overlayMoves = OverlayShown(r)]

\* Sliding in and out is animated, and so is collapsing.
WithHover(s, value) ==
  [s EXCEPT !.hover = value, !.moves = @ \/ (s.collapsed /\ value # s.hover)]

Init ==
  /\ narrow \in BOOLEAN
  /\ pathname \in Paths
  /\ sidebar =
       [mode |-> "full", open |-> FALSE, collapsed |-> FALSE, hover |-> FALSE, timer |-> FALSE,
        over |-> FALSE, moves |-> FALSE, heeded |-> "nothing",
        contentHidden |-> TRUE, overlayHidden |-> TRUE,
        contentMoves |-> FALSE, overlayMoves |-> FALSE,
        folders |-> OpenAtFirst(pathname), panels |-> OpenAtFirst(pathname), shut |-> {}]

(***************************************************************************)
(* The window.                                                             *)
(***************************************************************************)
Resize ==
  /\ narrow' = ~narrow
  /\ UNCHANGED <<pathname, sidebar>>

\* The provider hears of the width after the fact. The other copy of the tree
\* is mounted anew; a drawer is animated when it is mounted. What else the
\* provider and the sidebars remember they keep.
UseMediaQuery ==
  LET mode == IF narrow THEN "drawer" ELSE "full"
      s == [sidebar EXCEPT !.mode = mode]
  IN  /\ sidebar.mode # mode
      /\ sidebar' = [s EXCEPT !.folders = OpenAtFirst(pathname), !.panels = OpenAtFirst(pathname),
                              !.shut = {}, !.over = FALSE, !.moves = FALSE,
                              !.contentMoves = narrow, !.overlayMoves = OverlayShown(s)]
      /\ UNCHANGED <<narrow, pathname>>

(***************************************************************************)
(* The drawer.                                                             *)
(***************************************************************************)
SidebarTrigger ==
  /\ sidebar.mode = "drawer"
  /\ sidebar' = WithOpen(sidebar, ~sidebar.open)
  /\ UNCHANGED <<narrow, pathname>>

ClickOverlay ==
  /\ OverlayShown(sidebar)
  /\ sidebar' = WithOpen(sidebar, FALSE)
  /\ UNCHANGED <<narrow, pathname>>

\* The animation that ends may be the one of opening.
ContentAnimationEnd ==
  /\ sidebar.contentMoves
  /\ sidebar' = Rendered([sidebar EXCEPT !.contentMoves = FALSE,
                                         !.contentHidden = @ \/ ~sidebar.open])
  /\ UNCHANGED <<narrow, pathname>>

\* A mutant: it is taken for the one of opening.
OverlayAnimationEndStaying ==
  /\ sidebar.overlayMoves
  /\ sidebar' = Rendered([sidebar EXCEPT !.overlayMoves = FALSE])
  /\ UNCHANGED <<narrow, pathname>>

OverlayAnimationEnd ==
  /\ sidebar.overlayMoves
  /\ sidebar' = Rendered([sidebar EXCEPT !.overlayMoves = FALSE,
                                         !.overlayHidden = @ \/ ~sidebar.open])
  /\ UNCHANGED <<narrow, pathname>>

(***************************************************************************)
(* The sidebar beside the page.                                            *)
(***************************************************************************)
\* A mutant: a sidebar that was pulled out when it was expanded is out again.
CollapseTriggerKeepingHover ==
  /\ sidebar.mode = "full"
  /\ sidebar' = [sidebar EXCEPT !.collapsed = ~@, !.moves = TRUE, !.heeded = "nothing"]
  /\ UNCHANGED <<narrow, pathname>>

CollapseTrigger ==
  /\ sidebar.mode = "full"
  /\ sidebar' = [sidebar EXCEPT !.collapsed = ~@, !.moves = TRUE, !.heeded = "nothing",
                                !.hover = @ /\ sidebar.collapsed]
  /\ UNCHANGED <<narrow, pathname>>

\* An expanded sidebar ignores the pointer, and so does one that is being animated.
ShouldIgnoreHover(s) == ~s.collapsed \/ s.moves

\* A mutant: the timer runs on.
PointerEnterKeepingTimer ==
  /\ sidebar.mode = "full" /\ ~sidebar.over
  /\ LET s == [sidebar EXCEPT !.over = TRUE]
     IN  sidebar' = IF ShouldIgnoreHover(s) THEN s
                    ELSE WithHover([s EXCEPT !.heeded = "enter"], TRUE)
  /\ UNCHANGED <<narrow, pathname>>

PointerEnter ==
  /\ sidebar.mode = "full" /\ ~sidebar.over
  /\ LET s == [sidebar EXCEPT !.over = TRUE]
     IN  sidebar' = IF ShouldIgnoreHover(s) THEN s
                    ELSE WithHover([s EXCEPT !.timer = FALSE, !.heeded = "enter"], TRUE)
  /\ UNCHANGED <<narrow, pathname>>

\* A mutant: the timer is cleared after it was set.
PointerLeaveClearingLast ==
  /\ sidebar.mode = "full" /\ sidebar.over
  /\ LET s == [sidebar EXCEPT !.over = FALSE]
     IN  sidebar' = IF ShouldIgnoreHover(s) THEN s
                    ELSE [s EXCEPT !.timer = FALSE, !.heeded = "leave"]
  /\ UNCHANGED <<narrow, pathname>>

\* The delay is short where the pointer has left into the page.
PointerLeave ==
  /\ sidebar.mode = "full" /\ sidebar.over
  /\ LET s == [sidebar EXCEPT !.over = FALSE]
     IN  sidebar' = IF ShouldIgnoreHover(s) THEN s
                    ELSE [s EXCEPT !.timer = TRUE, !.heeded = "leave"]
  /\ UNCHANGED <<narrow, pathname>>

\* Whatever has become of the sidebar since.
TimerFires ==
  /\ sidebar.timer
  /\ sidebar' = LET s == WithHover([sidebar EXCEPT !.timer = FALSE], FALSE)
                IN  [s EXCEPT !.moves = @ /\ s.mode = "full"]
  /\ UNCHANGED <<narrow, pathname>>

SidebarSettles ==
  /\ sidebar.moves
  /\ sidebar' = [sidebar EXCEPT !.moves = FALSE]
  /\ UNCHANGED <<narrow, pathname>>

(***************************************************************************)
(* The tree and the pages.                                                 *)
(***************************************************************************)
\* The folders new are opened, and their content is mounted.
Opened(s, new) ==
  [s EXCEPT !.folders = @ \cup new, !.panels = @ \cup new, !.shut = @ \ new]

\* A mutant: the folders in it are mounted closed.
MountedAlone(folder) == {folder}

\* What is open when a folder's content is mounted: the folder, and those in it that are so at
\* first.
MountedOpen(folder) == {folder} \cup (Inside(folder) \cap OpenAtFirst(pathname))

\* The trigger of a folder is there when the content of the folders around it is mounted.
FolderTrigger(folder) ==
  /\ sidebar.mode = "full" \/ ContentShown(sidebar)
  /\ Around[folder] \subseteq sidebar.panels
  /\ \/ /\ folder \in sidebar.folders
        /\ sidebar' = [sidebar EXCEPT !.folders = @ \ {folder}, !.shut = @ \cup {folder}]
     \/ /\ folder \in sidebar.panels \ sidebar.folders
        /\ sidebar' = Opened(sidebar, {folder})
     \/ /\ folder \notin sidebar.panels
        /\ sidebar' = Opened(sidebar, MountedOpen(folder))
  /\ UNCHANGED <<narrow, pathname>>

\* The transition of closing ends: the content is unmounted, and what the folders in it
\* remembered is lost.
PanelCloses(folder) ==
  /\ folder \in sidebar.panels \ sidebar.folders
  /\ sidebar' = [sidebar EXCEPT !.panels = @ \ ({folder} \cup Inside(folder)),
                                !.folders = @ \ Inside(folder), !.shut = @ \ Inside(folder)]
  /\ UNCHANGED <<narrow, pathname>>

\* By a link of the tree, the footer or the page, the search, or the browser's
\* buttons. Another path closes the drawer; the same path changes nothing.
Navigate(path) ==
  /\ path # pathname
  /\ pathname' = path
  /\ sidebar' = Opened(WithOpen(sidebar, FALSE), OpenedBy(sidebar.panels, pathname, path))
  /\ UNCHANGED narrow

Next ==
  \/ Resize \/ UseMediaQuery
  \/ SidebarTrigger \/ ClickOverlay \/ ContentAnimationEnd \/ OverlayAnimationEnd
  \/ CollapseTrigger \/ PointerEnter \/ PointerLeave \/ TimerFires \/ SidebarSettles
  \/ \E folder \in Folders : FolderTrigger(folder) \/ PanelCloses(folder)
  \/ \E path \in Paths : Navigate(path)

\* The browser ends animations and fires timers.
Fairness ==
  /\ WF_vars(ContentAnimationEnd)
  /\ WF_vars(OverlayAnimationEnd)
  /\ WF_vars(TimerFires)

Spec == Init /\ [][Next]_vars /\ Fairness

(***************************************************************************)
(* Properties.                                                             *)
(***************************************************************************)
\* Among the types: nothing is animated that is not mounted.
TypeOK ==
  /\ narrow \in BOOLEAN
  /\ pathname \in Paths
  /\ sidebar \in Sidebars
  /\ sidebar.contentMoves => sidebar.mode = "drawer"
  /\ sidebar.overlayMoves => sidebar.mode = "drawer" /\ ~sidebar.overlayHidden

\* A drawer that is open can be seen, whichever of its animations were cut
\* short, whatever the window did meanwhile.
OpenIsVisible == sidebar.open => ~sidebar.contentHidden /\ ~sidebar.overlayHidden

\* The tree marks one item, the page that is shown, with or without a slash
\* behind its path; and the footer's next page leads back here.
CurrentIsMarked ==
  /\ ActiveItems(pathname) = {pathname.page}
  /\ LET next == Footer(pathname).next
     IN  next # NoPage => Footer([page |-> next, slash |-> FALSE]).previous = pathname.page

\* A collapsed sidebar is out for a reason: the pointer is known to have come
\* since it was collapsed, and if it is known to have left, a timer runs.
OutForAReason ==
  sidebar.collapsed /\ sidebar.hover =>
    sidebar.heeded = "enter" \/ (sidebar.heeded = "leave" /\ sidebar.timer)

\* A sidebar the pointer has come back to is not pulled away by the timer of
\* the time before.
NeverPulledAway ==
  [][sidebar.hover /\ ~sidebar'.hover /\ sidebar.collapsed => sidebar.heeded # "enter"]_vars

\* A folder that holds the page shown is open unless the reader has folded it, or
\* one around it, since the tree was mounted: however folders were folded, unmounted and
\* opened again, and wherever the reader went meanwhile, none stays closed by itself.
OnlyReaderFolds ==
  \A f \in TreePath(pathname) :
    f \in sidebar.folders \/ ({f} \cup Around[f]) \cap sidebar.shut # {}

\* A drawer that was closed, by its button, the overlay or a link, goes away
\* with its overlay, unless it is opened again.
DrawerGoesAway ==
  (sidebar.mode = "drawer" /\ ~sidebar.open) ~>
    (sidebar.mode = "full" \/ sidebar.open \/ (sidebar.contentHidden /\ sidebar.overlayHidden))

\* A collapsed sidebar that has noticed the pointer's leaving is put away.
PutAway ==
  (sidebar.heeded = "leave") ~> (sidebar.heeded # "leave" \/ ~sidebar.hover)
=============================================================================
