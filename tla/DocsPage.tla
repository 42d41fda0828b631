------------------------------ MODULE DocsPage ------------------------------
(***************************************************************************)
(* A page of the documentation: its table of contents, and the button that *)
(* copies it. Every click beside the popover of the table of contents      *)
(* closes it, the one on the button included.                              *)
(***************************************************************************)
EXTENDS TableOfContents, MarkdownCopy

tocVars == <<toc, popover>>
copyVars == <<clipboard, cache, button, copies>>
vars == <<toc, popover, clipboard, cache, button, copies>>

Init ==
  /\ toc \in {MountedToc(height) : height \in Heights}
  /\ popover = FALSE
  /\ clipboard \in Clipboards
  /\ cache = [promise |-> "none", fetched |-> 0]
  /\ button = MountedButton
  /\ copies = {}

TocStep ==
  /\ \/ \E height \in Heights : Relayout(height)
     \/ OnPrint
     \/ \E active \in SUBSET Items : Scroll(active)
  /\ UNCHANGED <<popover, copyVars>>

PopoverStep ==
  /\ \/ TogglePopover
     \/ ClickItem
     \/ \E onIcon \in BOOLEAN : popover /\ ClickOutside(onIcon)
  /\ UNCHANGED <<toc, copyVars>>

ClickCopy ==
  /\ Copy
  /\ \E onIcon \in BOOLEAN : ClickOutside(onIcon)
  /\ UNCHANGED toc

CopyEnds ==
  /\ \E copy \in copies, ok \in BOOLEAN : WriteEnds(copy, ok) \/ WriteTextEnds(copy, ok)
  /\ UNCHANGED tocVars

CopyStep ==
  /\ FetchSettles \/ CheckmarkGoes
  /\ UNCHANGED tocVars

\* The cache is all that stays.
Navigate ==
  /\ toc' = MountedToc(toc.height)
  /\ popover' = FALSE
  /\ Remount

Next == TocStep \/ PopoverStep \/ ClickCopy \/ CopyEnds \/ CopyStep \/ Navigate

\* The browser tells the observer of every change of size, requests are
\* answered or fail, and what has all it waits for ends.
Fairness ==
  /\ WF_vars(OnPrint /\ UNCHANGED <<popover, copyVars>>)
  /\ WF_vars(FetchSettles /\ UNCHANGED tocVars)
  /\ WF_vars(CopyEnds)

Spec == Init /\ [][Next]_vars /\ Fairness

(***************************************************************************)
(* Properties.                                                             *)
(***************************************************************************)
\* Among the types: a track is drawn only where there are positions, and it is
\* drawn from a heading to one that is not above it.
TypeOK ==
  /\ toc \in Tocs
  /\ popover \in BOOLEAN
  /\ clipboard \in Clipboards
  /\ cache \in Caches
  /\ button \in Buttons
  /\ copies \subseteq Copies
  /\ toc.track # 0 => toc.printed # 0 /\ toc.thumb # NoThumb
  /\ toc.thumb.startIdx <= toc.thumb.endIdx

\* The track and the popover's trigger, which find out by themselves what is
\* being read, tell the same.
TrackAgreesWithTrigger ==
  toc.printed # 0 /\ toc.active # {} =>
    /\ PopoverTrigger.title \in {0, toc.thumb.startIdx}
    /\ PopoverTrigger.progress = toc.thumb.endIdx

\* The page is requested once, however often and through however many buttons
\* it is copied.
FetchedOnce == cache.fetched <= 1

\* There is no check mark for a request that failed or was not answered yet.
CheckedIsCopied == button.checked => cache.promise \in Texts

\* To be drawn anew does not turn the dot round: it changes its end of the
\* track only when other headings are in view.
DotStays ==
  [][toc'.active = toc.active /\ toc.track # 0 /\ toc'.track # 0 => DotAt(toc') = DotAt(toc)]_vars

\* A list that keeps a size for long enough is drawn for that size.
PositionsCatchUp ==
  \A height \in Heights \ {0} : (toc.height = height) ~> (toc.height # height \/ toc.printed = height)

\* The button can be used again, whatever the server and the browser say.
LoadingEnds == button.isLoading ~> ~button.isLoading
=============================================================================
