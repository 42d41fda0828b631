------------------------- MODULE DocsSidebarProofs -------------------------
(***************************************************************************)
(* The invariants of the sidebar of the documentation site, for every tree *)
(* of pages.                                                               *)
(***************************************************************************)
EXTENDS DocsSidebar, FiniteSetTheorems, TLAPS

\* A timer that runs was set when the pointer was last heeded, or before the
\* sidebar was collapsed.
TimerInvariant == sidebar.timer => sidebar.heeded # "enter"

Invariant == TypeOK /\ OpenIsVisible /\ OutForAReason /\ TimerInvariant

\* What is remembered of the folders, of the sidebar s and the open-by-default of path:
\* an open folder's content is mounted, inside mounted content, and stays mounted
\* for a while after the reader has folded it.
Mounted(s) ==
  /\ s.folders \subseteq s.panels
  /\ s.panels \ s.folders \subseteq s.shut
  /\ \A f \in s.panels : Around[f] \subseteq s.panels

\* A folder that should be open is, or was folded; if it is not mounted, the reader has
\* folded one around it whose content has gone.
Explained(s, f) ==
  /\ Around[f] \subseteq s.panels => f \in s.folders \cup s.shut
  /\ ~(Around[f] \subseteq s.panels) => \E g \in Around[f] \ s.panels : g \in s.shut

FoldersOK(s, path) == Mounted(s) /\ \A f \in OpenAtFirst(path) : Explained(s, f)

FolderInvariant == FoldersOK(sidebar, pathname)

\* The parts of the invariant that are about the sidebar alone.
SidebarOK(s) ==
  /\ s \in Sidebars
  /\ s.contentMoves => s.mode = "drawer"
  /\ s.overlayMoves => s.mode = "drawer" /\ ~s.overlayHidden
  /\ s.open => ~s.contentHidden /\ ~s.overlayHidden
  /\ s.collapsed /\ s.hover => s.heeded = "enter" \/ (s.heeded = "leave" /\ s.timer)
  /\ s.timer => s.heeded # "enter"

LEMMA InvariantByParts ==
  Invariant <=> narrow \in BOOLEAN /\ pathname \in Paths /\ SidebarOK(sidebar)
  BY DEF Invariant, TypeOK, OpenIsVisible, OutForAReason, TimerInvariant, SidebarOK

(***************************************************************************)
(* The tree.                                                               *)
(***************************************************************************)
LEMMA PathIsActive == \A p \in Pages : \A path \in Paths : IsActive(p, path) <=> p = path.page
<1> SUFFICES ASSUME NEW p \in Pages, NEW path \in Paths PROVE IsActive(p, path) <=> p = path.page
  OBVIOUS
<1>1. Normalize(path) = [page |-> path.page, slash |-> FALSE]
  <2>1. Normalize(path) \in Paths
    BY DEF Normalize, Paths
  <2>2. PICK page \in Pages, slash \in BOOLEAN : Normalize(path) = [page |-> page, slash |-> slash]
    BY <2>1 DEF Paths
  <2>3. Normalize(path).page = path.page /\ Normalize(path).slash = FALSE
    BY DEF Normalize, Paths
  <2> QED  BY <2>2, <2>3
<1>2. [page |-> p, slash |-> FALSE].page = p /\ Normalize(path).page = path.page
  BY <1>1
<1> QED  BY <1>1, <1>2 DEF IsActive

LEMMA PlaceOfPage ==
  ASSUME NEW path \in Paths
  PROVE  Place(path) \in DOMAIN PageList /\ PageList[Place(path)] = path.page
<1>1. PICK i \in DOMAIN PageList : PageList[i] = path.page
  BY DEF Paths, Pages
<1>2. PageList[i] \in Pages /\ IsActive(PageList[i], path)
  BY <1>1, PathIsActive DEF Pages
<1>3. Place(path) \in DOMAIN PageList /\ IsActive(PageList[Place(path)], path)
  BY <1>2 DEF Place
<1>4. PageList[Place(path)] \in Pages
  BY <1>3 DEF Pages
<1> QED  BY <1>3, <1>4, PathIsActive

\* One item is marked, and the footer of the next page leads back.
LEMMA MarkedAndBack ==
  ASSUME NEW path \in Paths,
         LET next == Footer(path).next IN next # NoPage
  PROVE  Footer([page |-> Footer(path).next, slash |-> FALSE]).previous = path.page
<1> DEFINE i == Place(path)
           next == PageList[i + 1]
           nextPath == [page |-> next, slash |-> FALSE]
<1>1. i \in DOMAIN PageList /\ PageList[i] = path.page
  BY PlaceOfPage
<1>2. i + 1 \in DOMAIN PageList /\ Footer(path).next = next
  BY DEF Footer, PageAt
<1>3. nextPath \in Paths
  BY <1>2 DEF Paths, Pages
<1>4. Place(nextPath) \in DOMAIN PageList /\ PageList[Place(nextPath)] = next
  BY <1>3, PlaceOfPage
<1>5. Place(nextPath) = i + 1
  BY <1>2, <1>4, TreeAssumption
<1>6. i \in Int
  BY <1>1, TreeAssumption
<1>7. Footer(nextPath).previous = PageAt(i)
  BY <1>5, <1>6 DEF Footer
<1> QED  BY <1>1, <1>2, <1>7 DEF PageAt

(***************************************************************************)
(* The steps.                                                              *)
(***************************************************************************)
\* Rendering puts right what an animation that has ended says of a drawer that
\* was opened again, and changes nothing else.
LEMMA RenderedIsOK ==
  ASSUME NEW s \in Sidebars,
         s.contentMoves => s.mode = "drawer",
         s.overlayMoves => s.mode = "drawer" /\ ~s.overlayHidden,
         s.collapsed /\ s.hover => s.heeded = "enter" \/ (s.heeded = "leave" /\ s.timer),
         s.timer => s.heeded # "enter"
  PROVE  SidebarOK(Rendered(s))
<1> DEFINE ch == s.contentHidden /\ ~s.open
           oh == s.overlayHidden /\ ~s.open
           r == [s EXCEPT !.contentHidden = ch, !.overlayHidden = oh]
<1>1. /\ ch \in BOOLEAN /\ (ch => s.contentHidden /\ ~s.open)
      /\ oh \in BOOLEAN /\ (oh => s.overlayHidden /\ ~s.open)
  OBVIOUS
<1>2. Rendered(s) = r
  BY DEF Rendered
<1> HIDE DEF ch, oh
<1>3. r \in Sidebars /\ r.contentHidden = ch /\ r.overlayHidden = oh
  BY <1>1 DEF Sidebars
<1>4. /\ r.open = s.open /\ r.mode = s.mode
      /\ r.contentMoves = s.contentMoves /\ r.overlayMoves = s.overlayMoves
      /\ r.collapsed = s.collapsed /\ r.hover = s.hover
      /\ r.heeded = s.heeded /\ r.timer = s.timer
  BY DEF Sidebars
<1> HIDE DEF r
<1>5. SidebarOK(r)
  BY <1>1, <1>3, <1>4 DEF SidebarOK
<1> QED  BY <1>2, <1>5

LEMMA WithOpenIsOK ==
  ASSUME NEW s, SidebarOK(s), NEW value \in BOOLEAN
  PROVE  /\ SidebarOK(WithOpen(s, value))
         /\ WithOpen(s, value).folders = s.folders
         /\ WithOpen(s, value).panels = s.panels
         /\ WithOpen(s, value).shut = s.shut
<1> DEFINE r == Rendered([s EXCEPT !.open = value])
           v == [r EXCEPT !.contentMoves = r.mode = "drawer", !.overlayMoves = OverlayShown(r)]
           t == [s EXCEPT !.open = value]
           q == [t EXCEPT !.contentHidden = t.contentHidden /\ ~t.open,
                          !.overlayHidden = t.overlayHidden /\ ~t.open]
<1>0. /\ t \in Sidebars /\ t.folders = s.folders /\ t.panels = s.panels /\ t.shut = s.shut
      /\ t.collapsed = s.collapsed /\ t.hover = s.hover /\ t.heeded = s.heeded /\ t.timer = s.timer
  BY DEF SidebarOK, Sidebars
<1>a. r = q
  BY DEF Rendered
<1> HIDE DEF t, r
<1>b. /\ q \in Sidebars /\ q.folders = t.folders /\ q.panels = t.panels /\ q.shut = t.shut
      /\ q.collapsed = t.collapsed /\ q.hover = t.hover /\ q.heeded = t.heeded /\ q.timer = t.timer
  BY <1>0, ZenonT(60) DEF Sidebars
<1>c. q.open => ~q.contentHidden /\ ~q.overlayHidden
  BY <1>0 DEF Sidebars
<1>1. /\ r \in Sidebars /\ r.folders = s.folders /\ r.panels = s.panels /\ r.shut = s.shut
      /\ r.open => ~r.contentHidden /\ ~r.overlayHidden
      /\ r.collapsed = s.collapsed /\ r.hover = s.hover /\ r.heeded = s.heeded /\ r.timer = s.timer
  BY <1>0, <1>a, <1>b, <1>c
<1> HIDE DEF r
<1>2. SidebarOK(v) /\ v.folders = s.folders /\ v.panels = s.panels /\ v.shut = s.shut
  BY <1>1 DEF SidebarOK, OverlayShown, Sidebars
<1>3. WithOpen(s, value) = s \/ WithOpen(s, value) = v
  BY DEF WithOpen, r
<1> HIDE DEF v
<1> QED  BY <1>2, <1>3

\* Opening folders touches nothing else.
LEMMA OpenedIsOK ==
  ASSUME NEW s, SidebarOK(s), NEW new \in SUBSET Folders
  PROVE  /\ SidebarOK(Opened(s, new))
         /\ Opened(s, new).hover = s.hover
         /\ Opened(s, new).folders = s.folders \cup new
         /\ Opened(s, new).panels = s.panels \cup new
         /\ Opened(s, new).shut = s.shut \ new
<1> DEFINE folders == s.folders \cup new
           panels == s.panels \cup new
           shut == s.shut \ new
           t == [s EXCEPT !.folders = folders, !.panels = panels, !.shut = shut]
<1>1. folders \in SUBSET Folders /\ panels \in SUBSET Folders /\ shut \in SUBSET Folders
  BY DEF SidebarOK, Sidebars
<1>2. Opened(s, new) = t
  BY DEF Opened
<1> HIDE DEF folders, panels, shut
<1>3. t \in Sidebars /\ t.folders = folders /\ t.panels = panels /\ t.shut = shut
  BY <1>1 DEF SidebarOK, Sidebars
<1>4. SidebarOK(t) /\ t.hover = s.hover
  BY <1>1, <1>3 DEF SidebarOK, Sidebars
<1> HIDE DEF t
<1> QED  BY <1>2, <1>3, <1>4 DEF folders, panels, shut

LEMMA OpenAtFirstAreFolders == \A path \in Paths : OpenAtFirst(path) \in SUBSET Folders
  BY DEF OpenAtFirst

LEMMA InitIsOK == Init => Invariant
  BY OpenAtFirstAreFolders, InvariantByParts DEF Init, SidebarOK, Sidebars, Pointing

LEMMA NextIsOK == Invariant /\ [Next]_vars => Invariant'
<1> SUFFICES ASSUME Invariant, [Next]_vars PROVE Invariant'
  OBVIOUS
<1>0. narrow \in BOOLEAN /\ pathname \in Paths /\ SidebarOK(sidebar)
  BY InvariantByParts
<1> DEFINE Goal == narrow' \in BOOLEAN /\ pathname' \in Paths /\ SidebarOK(sidebar')
<1>1. Goal => Invariant'
  BY DEF SidebarOK, Invariant, TypeOK, OpenIsVisible, OutForAReason, TimerInvariant
<1> SUFFICES Goal
  BY <1>1
<1> USE DEF Sidebars, Pointing
<1>2. CASE Resize
  BY <1>0, <1>2 DEF Resize
<1>3. CASE UseMediaQuery
  BY <1>0, <1>3, OpenAtFirstAreFolders, ZenonT(60) DEF UseMediaQuery, SidebarOK, OverlayShown
<1>4. CASE SidebarTrigger
  BY <1>0, <1>4, WithOpenIsOK DEF SidebarTrigger, SidebarOK
<1>5. CASE ClickOverlay
  BY <1>0, <1>5, WithOpenIsOK DEF ClickOverlay
<1>6. CASE ContentAnimationEnd
  <2> DEFINE s == [sidebar EXCEPT !.contentMoves = FALSE, !.contentHidden = @ \/ ~sidebar.open]
  <2>1. /\ s \in Sidebars /\ ~s.contentMoves /\ s.open = sidebar.open /\ s.mode = sidebar.mode
        /\ s.contentMoves => sidebar.contentMoves
        /\ s.overlayMoves => sidebar.overlayMoves /\ s.overlayHidden = sidebar.overlayHidden
        /\ s.collapsed = sidebar.collapsed /\ s.hover = sidebar.hover
        /\ s.heeded = sidebar.heeded /\ s.timer = sidebar.timer
    BY <1>0 DEF SidebarOK
  <2>2. sidebar' = Rendered(s)
    BY <1>6 DEF ContentAnimationEnd
  <2> HIDE DEF s
  <2>3. SidebarOK(Rendered(s))
    BY <1>0, <2>1, RenderedIsOK DEF SidebarOK
  <2> QED  BY <1>0, <1>6, <2>2, <2>3 DEF ContentAnimationEnd
<1>7. CASE OverlayAnimationEnd
  <2> DEFINE s == [sidebar EXCEPT !.overlayMoves = FALSE, !.overlayHidden = @ \/ ~sidebar.open]
  <2>1. /\ s \in Sidebars /\ ~s.overlayMoves /\ s.open = sidebar.open /\ s.mode = sidebar.mode
        /\ s.contentMoves => sidebar.contentMoves
        /\ s.overlayMoves => sidebar.overlayMoves /\ s.overlayHidden = sidebar.overlayHidden
        /\ s.collapsed = sidebar.collapsed /\ s.hover = sidebar.hover
        /\ s.heeded = sidebar.heeded /\ s.timer = sidebar.timer
    BY <1>0 DEF SidebarOK
  <2>2. sidebar' = Rendered(s)
    BY <1>7 DEF OverlayAnimationEnd
  <2> HIDE DEF s
  <2>3. SidebarOK(Rendered(s))
    BY <1>0, <2>1, RenderedIsOK DEF SidebarOK
  <2> QED  BY <1>0, <1>7, <2>2, <2>3 DEF OverlayAnimationEnd
<1>8. CASE CollapseTrigger
  BY <1>0, <1>8, ZenonT(60) DEF CollapseTrigger, SidebarOK
<1>9. CASE PointerEnter
  BY <1>0, <1>9 DEF PointerEnter, ShouldIgnoreHover, WithHover, SidebarOK
<1>10. CASE PointerLeave
  BY <1>0, <1>10 DEF PointerLeave, ShouldIgnoreHover, SidebarOK
<1>11. CASE TimerFires
  BY <1>0, <1>11, ZenonT(60) DEF TimerFires, WithHover, SidebarOK
<1>12. CASE SidebarSettles
  BY <1>0, <1>12 DEF SidebarSettles, SidebarOK
<1>13. ASSUME NEW folder \in Folders, FolderTrigger(folder) PROVE Goal
  <2>1. MountedOpen(folder) \in SUBSET Folders
    BY DEF MountedOpen, Inside
  <2>2. CASE sidebar' = Opened(sidebar, {folder}) \/ sidebar' = Opened(sidebar, MountedOpen(folder))
    BY <1>0, <1>13, <2>1, <2>2, OpenedIsOK DEF FolderTrigger
  <2>3. CASE sidebar' = [sidebar EXCEPT !.folders = @ \ {folder}, !.shut = @ \cup {folder}]
    BY <1>0, <1>13, <2>3 DEF FolderTrigger, SidebarOK
  <2> QED  BY <1>13, <2>2, <2>3 DEF FolderTrigger
<1>14. ASSUME NEW path \in Paths, Navigate(path) PROVE Goal
  <2>1. OpenedBy(sidebar.panels, pathname, path) \in SUBSET Folders
    BY DEF OpenedBy, OpenAtFirst
  <2>2. SidebarOK(WithOpen(sidebar, FALSE))
    BY <1>0, WithOpenIsOK
  <2> QED  BY <1>0, <1>14, <2>1, <2>2, OpenedIsOK DEF Navigate
<1>16. ASSUME NEW folder \in Folders, PanelCloses(folder) PROVE Goal
  <2> DEFINE panels == sidebar.panels \ ({folder} \cup Inside(folder))
             folders == sidebar.folders \ Inside(folder)
             shut == sidebar.shut \ Inside(folder)
  <2>1. panels \in SUBSET Folders /\ folders \in SUBSET Folders /\ shut \in SUBSET Folders
    BY <1>0 DEF SidebarOK
  <2>2. sidebar' = [sidebar EXCEPT !.panels = panels, !.folders = folders, !.shut = shut]
    BY <1>16 DEF PanelCloses
  <2> HIDE DEF panels, folders, shut
  <2> QED  BY <1>0, <1>16, <2>1, <2>2 DEF PanelCloses, SidebarOK
<1>15. CASE UNCHANGED vars
  BY <1>0, <1>15 DEF vars
<1> QED
  BY <1>2, <1>3, <1>4, <1>5, <1>6, <1>7, <1>8, <1>9, <1>10, <1>11, <1>12, <1>13, <1>14, <1>15,
     <1>16 DEF Next

THEOREM SidebarInvariant == Spec => []Invariant
<1>1. Init => Invariant
  BY InitIsOK
<1>2. Invariant /\ [Next]_vars => Invariant'
  BY NextIsOK
<1> QED  BY <1>1, <1>2, PTL DEF Spec

(***************************************************************************)
(* What it implies.                                                        *)
(***************************************************************************)
\* The state keeps its type, and what is not mounted is not animated
\* (base.tsx:188, 206).
THEOREM TypeCorrect == Spec => []TypeOK
  BY SidebarInvariant, PTL DEF Invariant

\* An open drawer is never hidden, however openings, closings and the ends of
\* their animations follow each other (base.tsx:187, 205).
THEOREM OpenDrawerVisible == Spec => []OpenIsVisible
  BY SidebarInvariant, PTL DEF Invariant

\* A collapsed sidebar that is out was entered, or is about to be put away
\* (base.tsx:149).
THEOREM NeverOutUncalled == Spec => []OutForAReason
  BY SidebarInvariant, PTL DEF Invariant

\* In every tree, exactly the item of the current page is marked, and next and
\* previous are inverse (page-tree.tsx:92, footer.tsx:31).
THEOREM MarkedInEveryTree == Spec => []CurrentIsMarked
<1>1. Invariant => CurrentIsMarked
  <2> SUFFICES ASSUME Invariant PROVE CurrentIsMarked
    OBVIOUS
  <2>1. pathname \in Paths
    BY InvariantByParts
  <2>2. ActiveItems(pathname) = {pathname.page}
    BY <2>1, PathIsActive DEF ActiveItems, Paths
  <2> QED  BY <2>1, <2>2, MarkedAndBack DEF CurrentIsMarked
<1> QED  BY <1>1, SidebarInvariant, PTL

\* No timer of an earlier visit pulls the sidebar away from under the pointer
\* (base.tsx:166).
THEOREM TimerNeverPulls == Spec => NeverPulledAway
<1>1. Invariant /\ [Next]_vars =>
        [sidebar.hover /\ ~sidebar'.hover /\ sidebar.collapsed => sidebar.heeded # "enter"]_vars
  <2> SUFFICES ASSUME Invariant, Next, sidebar.hover, ~sidebar'.hover, sidebar.collapsed
               PROVE  sidebar.heeded # "enter"
    OBVIOUS
  <2>0. sidebar \in Sidebars
    BY DEF Invariant, TypeOK
  <2>1. CASE TimerFires
    BY <2>1 DEF TimerFires, Invariant, TimerInvariant
  <2>2. CASE ~TimerFires
    <3>1. WithOpen(sidebar, TRUE).hover = sidebar.hover /\ WithOpen(sidebar, FALSE).hover = sidebar.hover
      BY <2>0 DEF WithOpen, Rendered, Sidebars
    <3>2. SidebarOK(sidebar) /\ SidebarOK(WithOpen(sidebar, FALSE))
      BY WithOpenIsOK, InvariantByParts
    <3>3. sidebar'.hover = sidebar.hover \/ PointerEnter \/ CollapseTrigger
      <4>1. CASE SidebarTrigger
        <5>1. (~sidebar.open) = TRUE \/ (~sidebar.open) = FALSE
          OBVIOUS
        <5> QED  BY <4>1, <5>1, <3>1 DEF SidebarTrigger
      <4>2. CASE ClickOverlay
        BY <4>2, <3>1 DEF ClickOverlay
      <4>3. ASSUME NEW path \in Paths, Navigate(path) PROVE sidebar'.hover = sidebar.hover
        <5>1. OpenedBy(sidebar.panels, pathname, path) \in SUBSET Folders
          BY DEF OpenedBy, OpenAtFirst
        <5> QED  BY <4>3, <5>1, <3>1, <3>2, OpenedIsOK DEF Navigate
      <4>4. CASE Resize \/ UseMediaQuery \/ SidebarSettles \/ PointerLeave
        BY <2>0, <4>4 DEF Resize, UseMediaQuery, SidebarSettles, PointerLeave, Sidebars
      <4>5. CASE ContentAnimationEnd \/ OverlayAnimationEnd
        BY <2>0, <4>5 DEF ContentAnimationEnd, OverlayAnimationEnd, Rendered, Sidebars
      <4>6. ASSUME NEW folder \in Folders, FolderTrigger(folder) PROVE sidebar'.hover = sidebar.hover
        <5>1. MountedOpen(folder) \in SUBSET Folders
          BY DEF MountedOpen, Inside
        <5>2. Opened(sidebar, {folder}).hover = sidebar.hover
          BY <3>2, OpenedIsOK
        <5>3. Opened(sidebar, MountedOpen(folder)).hover = sidebar.hover
          BY <3>2, <5>1, OpenedIsOK
        <5> QED  BY <2>0, <4>6, <5>2, <5>3 DEF FolderTrigger, Sidebars
      <4>7. ASSUME NEW folder \in Folders, PanelCloses(folder) PROVE sidebar'.hover = sidebar.hover
        BY <2>0, <4>7 DEF PanelCloses, Sidebars
      <4> QED  BY <2>2, <4>1, <4>2, <4>3, <4>4, <4>5, <4>6, <4>7 DEF Next
    <3>4. ~PointerEnter
      BY <2>0 DEF PointerEnter, WithHover, Sidebars
    <3>5. ~CollapseTrigger
      BY <2>0 DEF CollapseTrigger, Sidebars
    <3> QED  BY <3>3, <3>4, <3>5
  <2> QED  BY <2>1, <2>2
<1> QED  BY <1>1, SidebarInvariant, PTL DEF Spec, NeverPulledAway

(***************************************************************************)
(* The folders.                                                            *)
(***************************************************************************)
\* What is open by default lies in folders that are: they hold the page, too, and
\* are less deep.
LEMMA DefaultOpenUpwards ==
  ASSUME NEW path \in Paths, NEW f \in OpenAtFirst(path)
  PROVE  Around[f] \subseteq OpenAtFirst(path)
<1> SUFFICES ASSUME NEW g \in Around[f] PROVE g \in OpenAtFirst(path)
  OBVIOUS
<1>1. f \in Folders /\ g \in Folders /\ DefaultOpen(f, path)
  BY TreeAssumption DEF OpenAtFirst
<1>2. CASE f \in TreePath(path)
  BY <1>1, <1>2, TreeAssumption DEF TreePath, OpenAtFirst, DefaultOpen
<1>3. CASE DefaultOpenLevel >= Depth(f)
  <2>1. IsFiniteSet(Around[f]) /\ Around[g] \subseteq Around[f]
    BY <1>1, TreeAssumption, FS_Subset
  <2>2. IsFiniteSet(Around[g]) /\ Cardinality(Around[g]) <= Cardinality(Around[f])
    BY <2>1, FS_Subset
  <2>3. Cardinality(Around[f]) \in Nat /\ Cardinality(Around[g]) \in Nat
    BY <2>1, <2>2, FS_CardinalityType
  <2>4. DefaultOpenLevel >= Depth(g)
    BY <1>3, <2>2, <2>3, TreeAssumption DEF Depth
  <2> QED  BY <1>1, <2>4 DEF OpenAtFirst, DefaultOpen
<1> QED  BY <1>1, <1>2, <1>3 DEF DefaultOpen

\* A reader who folds a folder accounts for it.
LEMMA FoldingKeeps ==
  ASSUME NEW s, NEW t, NEW path \in Paths, NEW f \in Folders, FoldersOK(s, path),
         t.folders = s.folders \ {f}, t.panels = s.panels, t.shut = s.shut \cup {f}
  PROVE  FoldersOK(t, path)
  BY DEF FoldersOK, Mounted, Explained

\* Opening a folder whose content is still there.
LEMMA ReopeningKeeps ==
  ASSUME NEW s, NEW t, NEW path \in Paths, NEW f \in s.panels, FoldersOK(s, path),
         t.folders = s.folders \cup {f}, t.panels = s.panels \cup {f}, t.shut = s.shut \ {f}
  PROVE  FoldersOK(t, path)
  BY DEF FoldersOK, Mounted, Explained

\* Opening a folder whose content is mounted anew.
LEMMA MountingKeeps ==
  ASSUME NEW s, NEW t, NEW path \in Paths, NEW f \in Folders, NEW new, FoldersOK(s, path),
         s.panels \subseteq Folders, Around[f] \subseteq s.panels, f \notin s.panels,
         new = {f} \cup (Inside(f) \cap OpenAtFirst(path)),
         t.folders = s.folders \cup new, t.panels = s.panels \cup new, t.shut = s.shut \ new
  PROVE  FoldersOK(t, path)
<1>1. \A g \in new : Around[g] \subseteq s.panels \cup new
  <2> SUFFICES ASSUME NEW g \in new, NEW h \in Around[g] PROVE h \in s.panels \cup new
    OBVIOUS
  <2>1. CASE g = f
    BY <2>1
  <2>2. CASE g \in Inside(f) \cap OpenAtFirst(path)
    <3>1. g \in Folders /\ h \in Folders /\ f \in Around[g] /\ h \in OpenAtFirst(path)
      BY <2>2, DefaultOpenUpwards, TreeAssumption DEF Inside
    <3>2. h = f \/ h \in Around[f] \/ f \in Around[h]
      BY <3>1, TreeAssumption
    <3> QED  BY <3>1, <3>2 DEF Inside
  <2> QED  BY <2>1, <2>2
<1>2. Mounted(t)
  BY <1>1 DEF FoldersOK, Mounted
<1>3. ASSUME NEW g \in OpenAtFirst(path) PROVE Explained(t, g)
  <2>0. g \in Folders /\ Explained(s, g)
    BY DEF OpenAtFirst, FoldersOK
  <2>1. CASE Around[g] \subseteq s.panels
    BY <2>0, <2>1 DEF Explained
  <2>2. CASE ~(Around[g] \subseteq s.panels)
    <3>1. PICK h \in Around[g] \ s.panels : h \in s.shut
      BY <2>0, <2>2 DEF Explained
    <3>2. CASE h \notin new
      BY <3>1, <3>2 DEF Explained
    <3>3. CASE h \in new
      <4>1. f \in Around[g]
        BY <2>0, <3>1, <3>3, TreeAssumption DEF Inside
      <4>2. g \in new
        BY <2>0, <4>1 DEF Inside
      <4> QED  BY <1>1, <4>2 DEF Explained
    <3> QED  BY <3>2, <3>3
  <2> QED  BY <2>1, <2>2
<1> QED  BY <1>2, <1>3 DEF FoldersOK

\* Unmounting the content of a folder that was folded.
LEMMA UnmountingKeeps ==
  ASSUME NEW s, NEW t, NEW path \in Paths, NEW f \in Folders, FoldersOK(s, path),
         s.panels \subseteq Folders, f \in s.panels \ s.folders,
         t.panels = s.panels \ ({f} \cup Inside(f)),
         t.folders = s.folders \ Inside(f), t.shut = s.shut \ Inside(f)
  PROVE  FoldersOK(t, path)
<1>1. f \in t.shut
  BY TreeAssumption DEF FoldersOK, Mounted, Inside
<1>2. ASSUME NEW g \in Folders, g \notin Inside(f)
      PROVE  Around[g] \cap ({f} \cup Inside(f)) = {}
  BY <1>2, TreeAssumption DEF Inside
<1>3. Mounted(t)
  <2>1. t.folders \subseteq t.panels /\ t.panels \ t.folders \subseteq t.shut
    BY DEF FoldersOK, Mounted
  <2>2. ASSUME NEW g \in t.panels PROVE Around[g] \subseteq t.panels
    BY <1>2, <2>2 DEF FoldersOK, Mounted
  <2> QED  BY <2>1, <2>2 DEF Mounted
<1>4. ASSUME NEW g \in OpenAtFirst(path) PROVE Explained(t, g)
  <2>0. g \in Folders /\ Explained(s, g)
    BY DEF OpenAtFirst, FoldersOK
  <2>1. CASE g \in Inside(f)
    BY <1>1, <2>1 DEF Inside, Explained
  <2>2. CASE g \notin Inside(f)
    <3>1. Around[g] \cap ({f} \cup Inside(f)) = {}
      BY <1>2, <2>0, <2>2
    <3> QED  BY <2>0, <2>2, <3>1 DEF Explained
  <2> QED  BY <2>1, <2>2
<1> QED  BY <1>3, <1>4 DEF FoldersOK

\* Going to another page opens what becomes open by default, except inside what is
\* folded.
LEMMA NavigatingKeeps ==
  ASSUME NEW s, NEW t, NEW old \in Paths, NEW path \in Paths, NEW new, FoldersOK(s, old),
         new = OpenedBy(s.panels, old, path),
         t.folders = s.folders \cup new, t.panels = s.panels \cup new, t.shut = s.shut \ new
  PROVE  FoldersOK(t, path)
<1> DEFINE becoming == OpenAtFirst(path) \ OpenAtFirst(old)
<1>0. /\ new = {f \in becoming : Around[f] \subseteq s.panels \cup becoming}
      /\ \A f \in OpenAtFirst(path) \cup OpenAtFirst(old) : f \in Folders
  BY DEF OpenedBy, OpenAtFirst
<1>1. ASSUME NEW f \in new PROVE Around[f] \subseteq t.panels
  <2> SUFFICES ASSUME NEW g \in Around[f], g \notin s.panels PROVE g \in new
    OBVIOUS
  <2>1. f \in Folders /\ g \in becoming
    BY <1>0
  <2>2. Around[g] \subseteq Around[f]
    BY <2>1, TreeAssumption
  <2> QED  BY <1>0, <2>1, <2>2
<1>2. Mounted(t)
  BY <1>1 DEF FoldersOK, Mounted
<1>3. ASSUME NEW f \in OpenAtFirst(old), NEW g \in Around[f] PROVE g \notin becoming
  BY <1>3, DefaultOpenUpwards
<1>4. ASSUME NEW f \in OpenAtFirst(path) PROVE Explained(t, f)
  <2>1. CASE f \in OpenAtFirst(old)
    BY <1>0, <1>3, <2>1 DEF FoldersOK, Explained
  <2>2. CASE f \in new
    BY <1>1, <2>2 DEF Explained
  <2>3. CASE f \in becoming \ new
    <3>1. PICK g \in Around[f] : g \notin s.panels \cup becoming
      BY <1>0, <2>3
    <3>2. g \in OpenAtFirst(old)
      BY <3>1, DefaultOpenUpwards
    <3>3. PICK h \in {g} \cup Around[g] : h \notin s.panels /\ h \in s.shut
      BY <3>1, <3>2 DEF FoldersOK, Mounted, Explained
    <3>4. h \notin new
      BY <1>0, <1>3, <3>1, <3>2, <3>3
    <3>5. h \in Around[f]
      BY <1>0, <3>1, <3>3, TreeAssumption
    <3> QED  BY <3>3, <3>4, <3>5 DEF Explained
  <2> QED  BY <2>1, <2>2, <2>3
<1> QED  BY <1>2, <1>4 DEF FoldersOK

LEMMA FoldersAtFirst ==
  ASSUME NEW s, NEW path \in Paths,
         s.folders = OpenAtFirst(path), s.panels = OpenAtFirst(path), s.shut = {}
  PROVE  FoldersOK(s, path)
  BY DefaultOpenUpwards DEF FoldersOK, Mounted, Explained

LEMMA FoldersNext == Invariant /\ FolderInvariant /\ [Next]_vars => FolderInvariant'
<1> SUFFICES ASSUME Invariant, FolderInvariant, [Next]_vars PROVE FolderInvariant'
  OBVIOUS
<1> USE DEF FolderInvariant
<1>0. sidebar \in Sidebars /\ pathname \in Paths /\ SidebarOK(sidebar)
  BY InvariantByParts DEF SidebarOK
<1>1. CASE UseMediaQuery
  <2>1. /\ sidebar'.folders = OpenAtFirst(pathname) /\ sidebar'.panels = OpenAtFirst(pathname)
        /\ sidebar'.shut = {} /\ pathname' = pathname
    BY <1>0, <1>1 DEF UseMediaQuery, Sidebars
  <2> QED  BY <1>0, <2>1, FoldersAtFirst
<1>2. ASSUME NEW folder \in Folders, FolderTrigger(folder) PROVE FolderInvariant'
  <2>0. pathname' = pathname /\ Around[folder] \subseteq sidebar.panels
    BY <1>2 DEF FolderTrigger
  <2>1. CASE folder \in sidebar.folders
    <3>1. sidebar' = [sidebar EXCEPT !.folders = @ \ {folder}, !.shut = @ \cup {folder}]
      BY <1>2, <2>1 DEF FolderTrigger, FoldersOK, Mounted
    <3>2. /\ sidebar'.folders = sidebar.folders \ {folder} /\ sidebar'.panels = sidebar.panels
          /\ sidebar'.shut = sidebar.shut \cup {folder}
      BY <1>0, <3>1 DEF Sidebars
    <3> QED  BY <1>0, <2>0, <3>2, FoldingKeeps
  <2>2. CASE folder \in sidebar.panels \ sidebar.folders
    <3>1. sidebar' = Opened(sidebar, {folder})
      BY <1>2, <2>2 DEF FolderTrigger
    <3>2. /\ sidebar'.folders = sidebar.folders \cup {folder}
          /\ sidebar'.panels = sidebar.panels \cup {folder}
          /\ sidebar'.shut = sidebar.shut \ {folder}
      BY <1>0, <3>1, OpenedIsOK
    <3> QED  BY <1>0, <2>0, <2>2, <3>2, ReopeningKeeps
  <2>3. CASE folder \notin sidebar.panels
    <3>1. sidebar' = Opened(sidebar, MountedOpen(folder))
      BY <1>2, <2>3 DEF FolderTrigger, FoldersOK, Mounted
    <3>2. MountedOpen(folder) \in SUBSET Folders /\ sidebar.panels \subseteq Folders
      BY <1>0 DEF MountedOpen, Inside, Sidebars
    <3>3. /\ sidebar'.folders = sidebar.folders \cup MountedOpen(folder)
          /\ sidebar'.panels = sidebar.panels \cup MountedOpen(folder)
          /\ sidebar'.shut = sidebar.shut \ MountedOpen(folder)
      BY <1>0, <3>1, <3>2, OpenedIsOK
    <3> QED  BY <1>0, <2>0, <2>3, <3>2, <3>3, MountingKeeps DEF MountedOpen
  <2> QED  BY <2>1, <2>2, <2>3
<1>3. ASSUME NEW folder \in Folders, PanelCloses(folder) PROVE FolderInvariant'
  <2>1. /\ folder \in sidebar.panels \ sidebar.folders /\ pathname' = pathname
        /\ sidebar'.panels = sidebar.panels \ ({folder} \cup Inside(folder))
        /\ sidebar'.folders = sidebar.folders \ Inside(folder)
        /\ sidebar'.shut = sidebar.shut \ Inside(folder)
    BY <1>0, <1>3 DEF PanelCloses, Sidebars
  <2>2. sidebar.panels \subseteq Folders
    BY <1>0 DEF Sidebars
  <2> QED  BY <1>0, <2>1, <2>2, UnmountingKeeps
<1>4. ASSUME NEW path \in Paths, Navigate(path) PROVE FolderInvariant'
  <2> DEFINE w == WithOpen(sidebar, FALSE)
             new == OpenedBy(sidebar.panels, pathname, path)
  <2>1. /\ SidebarOK(w) /\ w.folders = sidebar.folders
        /\ w.panels = sidebar.panels /\ w.shut = sidebar.shut
    BY <1>0, WithOpenIsOK
  <2>2. new \in SUBSET Folders
    BY DEF OpenedBy, OpenAtFirst
  <2>3. sidebar' = Opened(w, new) /\ pathname' = path
    BY <1>4 DEF Navigate
  <2> HIDE DEF w, new
  <2>4. /\ sidebar'.folders = sidebar.folders \cup new
        /\ sidebar'.panels = sidebar.panels \cup new /\ sidebar'.shut = sidebar.shut \ new
    BY <2>1, <2>2, <2>3, OpenedIsOK
  <2> QED  BY <1>0, <2>3, <2>4, NavigatingKeeps DEF new
<1>5. CASE /\ pathname' = pathname /\ sidebar'.folders = sidebar.folders
           /\ sidebar'.panels = sidebar.panels /\ sidebar'.shut = sidebar.shut
  BY <1>5 DEF FoldersOK, Mounted, Explained
<1>6. CASE SidebarTrigger \/ ClickOverlay
  <2>1. sidebar.open \in BOOLEAN
    BY <1>0 DEF Sidebars
  <2>2. PICK value \in BOOLEAN : sidebar' = WithOpen(sidebar, value)
    BY <1>6, <2>1 DEF SidebarTrigger, ClickOverlay
  <2>3. pathname' = pathname
    BY <1>6 DEF SidebarTrigger, ClickOverlay
  <2> QED  BY <1>0, <1>5, <2>2, <2>3, WithOpenIsOK
<1>7. CASE ContentAnimationEnd \/ OverlayAnimationEnd
  BY <1>0, <1>5, <1>7 DEF ContentAnimationEnd, OverlayAnimationEnd, Rendered, Sidebars
<1>8. CASE Resize \/ CollapseTrigger \/ SidebarSettles
  BY <1>0, <1>5, <1>8 DEF Resize, CollapseTrigger, SidebarSettles, Sidebars
<1>9. CASE PointerEnter \/ PointerLeave \/ TimerFires
  BY <1>0, <1>5, <1>9 DEF PointerEnter, PointerLeave, TimerFires, WithHover, Sidebars
<1> QED  BY <1>1, <1>2, <1>3, <1>4, <1>5, <1>6, <1>7, <1>8, <1>9 DEF Next, vars

\* In every tree, a folder around the page shown is closed only because the reader has
\* folded it or one around it, through unmounting and remounting (base.tsx:285-294,
\* page-tree.tsx:64, collapsible.tsx:16).
THEOREM FoldedByReader == Spec => []OnlyReaderFolds
<1>1. Init => FolderInvariant
  BY FoldersAtFirst DEF Init, FolderInvariant
<1>2. Invariant /\ FolderInvariant /\ [Next]_vars => FolderInvariant'
  BY FoldersNext
<1>3. FolderInvariant => OnlyReaderFolds
  BY DEF FolderInvariant, FoldersOK, Explained, OnlyReaderFolds, TreePath, OpenAtFirst, DefaultOpen
<1> QED  BY <1>1, <1>2, <1>3, SidebarInvariant, PTL DEF Spec
=============================================================================
