-------------------------- MODULE TableOfContents --------------------------
(***************************************************************************)
(* The headings beside a page of the documentation, with a track along the *)
(* ones that are being read. The track is drawn for the positions the list *)
(* was last printed with; the list is printed again only when it is told   *)
(* that its size has changed. On smaller screens the headings are in a     *)
(* popover at the top, whose trigger tells what is being read.             *)
(***************************************************************************)
EXTENDS Integers, FiniteSetsExt

CONSTANTS
  Headings,   \* how many headings the page has
  Heights     \* the heights the list can have; 0 when it is not displayed

ASSUME HeadingsAssumption ==
  /\ Headings \in Nat \ {0}
  /\ Heights \subseteq Nat /\ 0 \in Heights

VARIABLES toc, popover

Items == 1..Headings

\* No heading was being read yet, or the list was not drawn.
NoThumb == [startIdx |-> 0, endIdx |-> 0, isUp |-> FALSE]
Thumbs == {NoThumb} \cup [startIdx : Items, endIdx : Items, isUp : BOOLEAN]

\* height: of the list. observed: the height the observer was last told.
\* printed: the height the positions are those of, 0 when there are none.
\* active: the headings in view. thumb: what the track was last calculated
\* from, and the direction it went; track: the heights of its positions, 0 for none.
Tocs ==
  [height : Heights, observed : Heights, printed : Heights, active : SUBSET Items,
   thumb : Thumbs, track : Heights]

\* Printed when it is mounted; not, if it is not displayed.
MountedToc(height) ==
  [height |-> height, observed |-> height, printed |-> height, active |-> {},
   thumb |-> NoThumb, track |-> 0]

\* A mutant: the direction is forgotten when nothing has moved.
IsUpNow(prev, startIdx, endIdx) ==
  prev # NoThumb /\ (prev.startIdx > startIdx \/ prev.endIdx > endIdx)

\* A track that has not moved keeps its direction.
IsUp(prev, startIdx, endIdx) ==
  /\ prev # NoThumb
  /\ \/ prev.startIdx > startIdx
     \/ prev.endIdx > endIdx
     \/ prev.startIdx = startIdx /\ prev.endIdx = endIdx /\ prev.isUp

\* A mutant: the first heading in view is looked for from below, the last from above.
CalculatedFromBelow(t) ==
  LET startIdx == Max(t.active)
      endIdx == Min(t.active)
  IN  IF t.printed = 0 \/ t.active = {} THEN t
      ELSE [t EXCEPT !.thumb = [startIdx |-> startIdx, endIdx |-> endIdx,
                                isUp |-> IsUp(t.thumb, startIdx, endIdx)],
                     !.track = t.printed]

\* Done when the list is drawn, and whenever other headings come into view.
Calculated(t) ==
  LET startIdx == Min(t.active)
      endIdx == Max(t.active)
  IN  IF t.printed = 0 \/ t.active = {} THEN t
      ELSE [t EXCEPT !.thumb = [startIdx |-> startIdx, endIdx |-> endIdx,
                                isUp |-> IsUp(t.thumb, startIdx, endIdx)],
                     !.track = t.printed]

\* The dot sits at the upper end of the track when the reader went up.
DotAt(t) == IF t.thumb.isUp THEN t.thumb.startIdx ELSE t.thumb.endIdx

\* The window, or a list of headings that is displayed or no longer displayed.
Relayout(height) ==
  /\ height # toc.height
  /\ toc' = [toc EXCEPT !.height = height]

\* A mutant: what was printed once is printed.
OnPrintOnce ==
  /\ toc.observed # toc.height
  /\ toc' = [toc EXCEPT !.observed = toc.height]

\* A list that is not displayed is not printed, and keeps its positions.
OnPrint ==
  /\ toc.observed # toc.height
  /\ LET t == [toc EXCEPT !.observed = toc.height]
     IN  toc' = IF toc.height = 0 THEN t ELSE Calculated([t EXCEPT !.printed = toc.height])

\* A mutant: the track waits for the next drawing.
ScrollUnheard(active) ==
  /\ active # toc.active
  /\ toc' = [toc EXCEPT !.active = active]

Scroll(active) ==
  /\ active # toc.active
  /\ toc' = Calculated([toc EXCEPT !.active = active])

(***************************************************************************)
(* The popover.                                                            *)
(***************************************************************************)
\* The trigger names the first heading in view, while the popover is closed,
\* and shows how far down the last one is.
PopoverTrigger ==
  [title |-> IF toc.active = {} \/ popover THEN 0 ELSE Min(toc.active),
   progress |-> IF toc.active = {} THEN 0 ELSE Max(toc.active)]

TogglePopover == popover' = ~popover
ClickItem == popover /\ popover' = FALSE

\* A click on an icon is not taken for one outside: its target is no HTML element.
ClickOutside(onIcon) == popover' = (popover /\ onIcon)
=============================================================================
