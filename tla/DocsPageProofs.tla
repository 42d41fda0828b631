--------------------------- MODULE DocsPageProofs ---------------------------
(***************************************************************************)
(* The invariants of a page of the documentation, for every number of      *)
(* headings and all the heights their list can have.                       *)
(***************************************************************************)
EXTENDS DocsPage, WellFoundedInduction, TLAPS

(***************************************************************************)
(* The first and the last of some headings.                                *)
(***************************************************************************)
LEMMA SomeLeast ==
  ASSUME NEW S \in SUBSET Nat, S # {}
  PROVE  \E x \in S : \A y \in S : x <= y
<1>1. PICK x \in S : \A y \in S : ~(<<y, x>> \in OpToRel(<, Nat))
  BY WFMin, NatLessThanWellFounded
<1>2. ASSUME NEW y \in S PROVE x <= y
  <2>1. OpToRel(<, Nat) = {ss \in Nat \X Nat : ss[1] < ss[2]}
    BY DEF OpToRel
  <2>2. <<y, x>> \in Nat \X Nat /\ <<y, x>>[1] = y /\ <<y, x>>[2] = x
    OBVIOUS
  <2>3. ~(y < x)
    BY <1>1, <2>1, <2>2
  <2> QED  BY <2>2, <2>3
<1> QED  BY <1>2

LEMMA MinMax ==
  ASSUME NEW active \in SUBSET Items, active # {}
  PROVE  /\ Min(active) \in active /\ \A i \in active : Min(active) <= i
         /\ Max(active) \in active /\ \A i \in active : i <= Max(active)
<1> USE HeadingsAssumption DEF Items
<1>1. active \in SUBSET Nat
  OBVIOUS
<1>2. \E x \in active : \A y \in active : x <= y
  BY <1>1, SomeLeast
<1>3. \E x \in active : \A y \in active : x >= y
  <2> DEFINE S == {Headings - i : i \in active}
  <2>1. S \in SUBSET Nat /\ S # {}
    <3>1. \A i \in active : Headings - i \in Nat
      OBVIOUS
    <3> QED  BY <3>1
  <2>2. PICK d \in S : \A e \in S : d <= e
    BY <2>1, SomeLeast
  <2>3. PICK x \in active : d = Headings - x
    OBVIOUS
  <2>4. ASSUME NEW y \in active PROVE x >= y
    <3>1. d <= Headings - y
      BY <2>2
    <3> QED  BY <2>3, <3>1
  <2> QED  BY <2>4
<1> QED  BY <1>2, <1>3 DEF Min, Max

(***************************************************************************)
(* The table of contents.                                                  *)
(***************************************************************************)
TocTyped(t) ==
  /\ t \in Tocs
  /\ t.track # 0 => t.printed # 0 /\ t.thumb # NoThumb
  /\ t.thumb.startIdx <= t.thumb.endIdx

\* Where there are positions, the track is that of the headings in view.
TocAgrees(t) ==
  t.printed # 0 /\ t.active # {} =>
    /\ t.thumb # NoThumb
    /\ t.thumb.startIdx = Min(t.active)
    /\ t.thumb.endIdx = Max(t.active)

LEMMA MountedTocIsOK ==
  ASSUME NEW height \in Heights
  PROVE  TocTyped(MountedToc(height)) /\ TocAgrees(MountedToc(height))
  BY HeadingsAssumption DEF TocTyped, TocAgrees, MountedToc, Tocs, Thumbs, NoThumb

LEMMA CalculatedIsOK ==
  ASSUME NEW t, TocTyped(t)
  PROVE  TocTyped(Calculated(t)) /\ TocAgrees(Calculated(t))
<1> DEFINE first == Min(t.active)
           last == Max(t.active)
           up == IsUp(t.thumb, first, last)
           thumb == [startIdx |-> first, endIdx |-> last, isUp |-> up]
           u == [t EXCEPT !.thumb = thumb, !.track = t.printed]
<1>1. CASE t.printed = 0 \/ t.active = {}
  <2>1. Calculated(t) = t
    BY <1>1 DEF Calculated
  <2> QED  BY <1>1, <2>1 DEF TocAgrees
<1>2. CASE t.printed # 0 /\ t.active # {}
  <2>1. Calculated(t) = u
    BY <1>2 DEF Calculated
  <2>2. t.active \in SUBSET Items
    BY DEF TocTyped, Tocs
  <2>3. first \in Items /\ last \in Items /\ first <= last
    <3> HIDE DEF first, last
    <3>1. first \in t.active /\ last \in t.active /\ first <= last
      BY <1>2, <2>2, MinMax DEF first, last
    <3> QED  BY <2>2, <3>1
  <2>4. up \in BOOLEAN
    BY DEF IsUp
  <2> HIDE DEF first, last, up
  <2>5. /\ thumb \in Thumbs /\ thumb # NoThumb
        /\ thumb.startIdx = first /\ thumb.endIdx = last
    <3>1. thumb.startIdx # NoThumb.startIdx
      BY <2>3 DEF NoThumb, Items
    <3> QED  BY <2>3, <2>4, <3>1 DEF Thumbs
  <2> HIDE DEF thumb
  <2>6. /\ u \in Tocs
        /\ u.thumb = thumb /\ u.printed = t.printed /\ u.active = t.active
    BY <2>5 DEF TocTyped, Tocs
  <2>7. TocTyped(u)
    BY <1>2, <2>3, <2>5, <2>6 DEF TocTyped
  <2>8. TocAgrees(u)
    BY <2>5, <2>6 DEF TocAgrees, first, last
  <2> QED  BY <2>1, <2>7, <2>8
<1> QED  BY <1>1, <1>2

LEMMA TocStepIsOK ==
  ASSUME TocTyped(toc), TocAgrees(toc), TocStep
  PROVE  TocTyped(toc') /\ TocAgrees(toc')
<1>1. ASSUME NEW height \in Heights, Relayout(height) PROVE TocTyped(toc') /\ TocAgrees(toc')
  BY <1>1 DEF Relayout, TocTyped, TocAgrees, Tocs
<1>2. CASE OnPrint
  <2> DEFINE t == [toc EXCEPT !.observed = toc.height]
             s == [t EXCEPT !.printed = toc.height]
  <2>1. CASE toc.height = 0
    <3>1. toc' = t
      BY <1>2, <2>1 DEF OnPrint
    <3> QED  BY <3>1 DEF TocTyped, TocAgrees, Tocs
  <2>2. CASE toc.height # 0
    <3>1. toc' = Calculated(s)
      BY <1>2, <2>2 DEF OnPrint
    <3>2. TocTyped(s)
      BY <2>2 DEF TocTyped, Tocs
    <3> QED  BY <3>1, <3>2, CalculatedIsOK
  <2> QED  BY <2>1, <2>2
<1>3. ASSUME NEW active \in SUBSET Items, Scroll(active) PROVE TocTyped(toc') /\ TocAgrees(toc')
  <2>1. TocTyped([toc EXCEPT !.active = active])
    BY DEF TocTyped, Tocs
  <2> QED  BY <1>3, <2>1, CalculatedIsOK DEF Scroll
<1> QED  BY <1>1, <1>2, <1>3 DEF TocStep

(***************************************************************************)
(* The button.                                                             *)
(***************************************************************************)
\* Nothing but a request takes the promise from none, and nothing but an
\* answer with a text leads to a check mark.
CopyOK ==
  /\ clipboard \in Clipboards
  /\ cache \in Caches
  /\ button \in Buttons
  /\ copies \subseteq Copies
  /\ cache.promise = "none" => cache.fetched = 0
  /\ cache.fetched <= 1
  /\ button.checked => cache.promise \in Texts

LEMMA ClickCopyIsOK ==
  ASSUME CopyOK, Copy
  PROVE  CopyOK'
<1>1. /\ clipboard' = clipboard /\ clipboard \in Clipboards
      /\ cache \in Caches /\ button \in Buttons /\ copies \subseteq Copies
      /\ ~button.isLoading
  BY DEF CopyOK, Copy
<1>2. \A kind \in {"write", "writeText"} : copies \cup {[kind |-> kind, mine |-> TRUE]} \subseteq Copies
  <2>1. \A kind \in {"write", "writeText"} : [kind |-> kind, mine |-> TRUE] \in Copies
    BY DEF Copies
  <2> QED  BY <1>1, <2>1
<1>3. CASE cache.promise # "none"
  <2>1. UNCHANGED <<cache, button>> /\ copies' \subseteq Copies
    BY <1>2, <1>3 DEF Copy
  <2> QED  BY <1>1, <2>1 DEF CopyOK
<1>4. CASE cache.promise = "none"
  <2>1. cache' = [promise |-> "pending", fetched |-> 1]
    <3>1. cache' = Requested /\ cache.fetched = 0
      BY <1>4 DEF Copy, CopyOK
    <3> QED  BY <3>1 DEF Requested
  <2>2. cache' \in Caches /\ cache'.fetched = 1 /\ cache'.promise = "pending"
    BY <2>1 DEF Caches, Promises
  <2>3. button.checked = FALSE
    BY <1>1, <1>4 DEF CopyOK, Texts, Buttons
  <2>4. copies' \subseteq Copies
    <3>1. copies' = copies \/ copies' = copies \cup {[kind |-> "write", mine |-> TRUE]}
      BY <1>4 DEF Copy
    <3> QED  BY <1>1, <1>2, <3>1
  <2>5. button' \in Buttons /\ button'.checked = FALSE
    <3>1. button' = button \/ button' = [button EXCEPT !.isLoading = TRUE]
      BY <1>4 DEF Copy
    <3> QED  BY <1>1, <2>3, <3>1 DEF Buttons
  <2> QED  BY <1>1, <2>2, <2>4, <2>5 DEF CopyOK
<1> QED  BY <1>3, <1>4

LEMMA CopyEndsIsOK ==
  ASSUME CopyOK, CopyEnds
  PROVE  CopyOK'
<1>1. PICK copy \in copies, ok \in BOOLEAN : WriteEnds(copy, ok) \/ WriteTextEnds(copy, ok)
  BY DEF CopyEnds
<1>2. /\ button' = Finally(copy, ok) /\ copies' = copies \ {copy}
      /\ UNCHANGED <<clipboard, cache>> /\ (ok => CanSucceed)
  BY <1>1 DEF WriteEnds, WriteTextEnds
<1>3. button' \in Buttons /\ (button'.checked => button.checked \/ ok)
  BY <1>2 DEF Finally, CopyOK, Buttons, Copies
<1> QED  BY <1>2, <1>3 DEF CopyOK, CanSucceed

LEMMA OtherCopyStepIsOK ==
  ASSUME CopyOK, FetchSettles \/ CheckmarkGoes \/ Remount
  PROVE  CopyOK'
<1>1. CASE FetchSettles
  BY <1>1 DEF FetchSettles, CopyOK, Caches, Buttons, Promises, Texts
<1>2. CASE CheckmarkGoes
  BY <1>2 DEF CheckmarkGoes, CopyOK, Buttons
<1>3. CASE Remount
  BY <1>3 DEF Remount, CopyOK, Buttons, Copies, MountedButton
<1> QED  BY <1>1, <1>2, <1>3

(***************************************************************************)
(* The invariant.                                                          *)
(***************************************************************************)
Invariant == popover \in BOOLEAN /\ TocTyped(toc) /\ TocAgrees(toc) /\ CopyOK

LEMMA InitIsOK == Init => Invariant
<1> SUFFICES ASSUME Init PROVE Invariant
  OBVIOUS
<1>1. TocTyped(toc) /\ TocAgrees(toc)
  BY MountedTocIsOK DEF Init
<1>2. CopyOK
  BY DEF Init, CopyOK, Caches, Buttons, Promises, MountedButton
<1> QED  BY <1>1, <1>2 DEF Init, Invariant

LEMMA NextIsOK == Invariant /\ [Next]_vars => Invariant'
<1> SUFFICES ASSUME Invariant, [Next]_vars PROVE Invariant'
  OBVIOUS
<1>0. popover \in BOOLEAN /\ TocTyped(toc) /\ TocAgrees(toc) /\ CopyOK
  BY DEF Invariant
<1> DEFINE Goal == popover' \in BOOLEAN /\ TocTyped(toc') /\ TocAgrees(toc') /\ CopyOK'
<1> SUFFICES Goal
  BY DEF Invariant, TocTyped, TocAgrees
<1>1. UNCHANGED copyVars => CopyOK'
  BY <1>0 DEF CopyOK, copyVars
<1>2. CASE TocStep
  BY <1>0, <1>1, <1>2, TocStepIsOK DEF TocStep
<1>3. CASE PopoverStep
  BY <1>0, <1>1, <1>3 DEF PopoverStep, TogglePopover, ClickItem, ClickOutside
<1>4. CASE ClickCopy
  BY <1>0, <1>4, ClickCopyIsOK DEF ClickCopy, ClickOutside
<1>5. CASE CopyEnds
  BY <1>0, <1>5, CopyEndsIsOK DEF CopyEnds, tocVars
<1>6. CASE CopyStep
  BY <1>0, <1>6, OtherCopyStepIsOK DEF CopyStep, tocVars
<1>7. CASE Navigate
  <2>1. toc.height \in Heights
    BY <1>0 DEF TocTyped, Tocs
  <2> QED  BY <1>0, <1>7, <2>1, MountedTocIsOK, OtherCopyStepIsOK DEF Navigate
<1>8. CASE UNCHANGED vars
  BY <1>0, <1>1, <1>8 DEF vars, copyVars
<1> QED  BY <1>2, <1>3, <1>4, <1>5, <1>6, <1>7, <1>8 DEF Next

THEOREM PageInvariant == Spec => []Invariant
<1>1. Init => Invariant
  BY InitIsOK
<1>2. Invariant /\ [Next]_vars => Invariant'
  BY NextIsOK
<1> QED  BY <1>1, <1>2, PTL DEF Spec

(***************************************************************************)
(* What it implies.                                                        *)
(***************************************************************************)
\* The state keeps its type, and every track runs downwards between positions
\* that were printed (default.tsx:173).
THEOREM TypeCorrect == Spec => []TypeOK
<1>1. Invariant => TypeOK
  BY DEF Invariant, TocTyped, CopyOK, TypeOK
<1> QED  BY <1>1, PageInvariant, PTL

\* However many headings the page has, the track and the trigger of the popover
\* tell the same (default.tsx:175, toc.tsx:205).
THEOREM TrackAndTriggerAgree == Spec => []TrackAgreesWithTrigger
<1>1. Invariant => TrackAgreesWithTrigger
  <2> SUFFICES ASSUME Invariant, toc.printed # 0, toc.active # {}
               PROVE  /\ PopoverTrigger.title \in {0, toc.thumb.startIdx}
                      /\ PopoverTrigger.progress = toc.thumb.endIdx
    BY DEF TrackAgreesWithTrigger
  <2>1. toc.thumb.startIdx = Min(toc.active) /\ toc.thumb.endIdx = Max(toc.active)
    BY DEF Invariant, TocAgrees
  <2> QED  BY <2>1 DEF PopoverTrigger
<1> QED  BY <1>1, PageInvariant, PTL

\* The page is never requested twice (page-actions.tsx:28).
THEOREM RequestedOnce == Spec => []FetchedOnce
<1>1. Invariant => FetchedOnce
  BY DEF Invariant, CopyOK, FetchedOnce
<1> QED  BY <1>1, PageInvariant, PTL

\* There is no check mark without a text (page-actions.tsx:27).
THEOREM NoEmptyCheckmark == Spec => []CheckedIsCopied
<1>1. Invariant => CheckedIsCopied
  BY DEF Invariant, CopyOK, CheckedIsCopied
<1> QED  BY <1>1, PageInvariant, PTL

\* The dot stays at its end of the track while the same headings are in view,
\* however often the list is drawn (default.tsx:187).
THEOREM DotKeepsItsEnd == Spec => DotStays
<1>1. Invariant /\ [Next]_vars =>
        [toc'.active = toc.active /\ toc.track # 0 /\ toc'.track # 0 => DotAt(toc') = DotAt(toc)]_vars
  <2> SUFFICES ASSUME Invariant, Next, toc'.active = toc.active, toc.track # 0, toc'.track # 0
               PROVE  DotAt(toc') = DotAt(toc)
    OBVIOUS
  <2>0. TocTyped(toc) /\ TocAgrees(toc) /\ toc \in Tocs
    BY DEF Invariant, TocTyped
  <2>1. CASE UNCHANGED toc
    BY <2>1 DEF DotAt
  <2>2. ASSUME NEW height \in Heights, Relayout(height) PROVE DotAt(toc') = DotAt(toc)
    BY <2>0, <2>2 DEF Relayout, DotAt, Tocs
  <2>3. CASE OnPrint
    <3> DEFINE t == [toc EXCEPT !.observed = toc.height]
               s == [t EXCEPT !.printed = toc.height]
    <3>1. s \in Tocs /\ s.thumb = toc.thumb /\ s.active = toc.active /\ t.thumb = toc.thumb
      BY <2>0 DEF Tocs
    <3>2. CASE toc.height = 0
      BY <2>3, <3>1, <3>2 DEF OnPrint, DotAt
    <3>3. CASE toc.height # 0
      <4>1. toc' = Calculated(s)
        BY <2>3, <3>3 DEF OnPrint
      <4>2. CASE s.printed = 0 \/ s.active = {}
        <5>1. toc' = s
          BY <4>1, <4>2 DEF Calculated
        <5> QED  BY <3>1, <5>1 DEF DotAt
      <4>3. CASE s.printed # 0 /\ s.active # {}
        <5> DEFINE first == Min(s.active)
                   last == Max(s.active)
        <5>1. /\ toc.thumb # NoThumb /\ toc.thumb.startIdx = first /\ toc.thumb.endIdx = last
              /\ toc.thumb.isUp \in BOOLEAN /\ first \in Items /\ last \in Items
          BY <2>0, <3>1, <4>3 DEF TocTyped, TocAgrees, Tocs, Thumbs
        <5> HIDE DEF first, last
        <5>2. IsUp(s.thumb, first, last) = toc.thumb.isUp
          <6>1. ~(first > first) /\ ~(last > last)
            BY <5>1, HeadingsAssumption DEF Items
          <6> QED  BY <3>1, <5>1, <6>1, Zenon DEF IsUp
        <5>3. toc'.thumb = [startIdx |-> first, endIdx |-> last,
                            isUp |-> IsUp(s.thumb, first, last)]
          BY <3>1, <4>1, <4>3 DEF Calculated, Tocs, first, last
        <5> QED  BY <5>1, <5>2, <5>3 DEF DotAt
      <4> QED  BY <4>2, <4>3
    <3> QED  BY <3>2, <3>3
  <2>4. ASSUME NEW active \in SUBSET Items, Scroll(active) PROVE DotAt(toc') = DotAt(toc)
    <3> DEFINE s == [toc EXCEPT !.active = active]
    <3>1. s.active = active /\ s \in Tocs
      BY <2>0, <2>4 DEF Tocs
    <3>2. Calculated(s).active = s.active
      BY <3>1 DEF Calculated, Tocs
    <3> QED  BY <2>4, <3>1, <3>2 DEF Scroll
  <2>5. CASE Navigate
    BY <2>5 DEF Navigate, MountedToc
  <2> QED
    BY <2>1, <2>2, <2>3, <2>4, <2>5
       DEF Next, TocStep, PopoverStep, ClickCopy, CopyEnds, CopyStep, tocVars
<1> QED  BY <1>1, PageInvariant, PTL DEF Spec, DotStays
=============================================================================
