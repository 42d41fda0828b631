------------------------------- MODULE Paging -------------------------------
(***************************************************************************)
(* Cutting a list into pages, and the numbers a pager offers. Pages are    *)
(* counted from 0.                                                         *)
(***************************************************************************)
EXTENDS Integers, Sequences

Least(a, b) == IF a < b THEN a ELSE b
Greatest(a, b) == IF a < b THEN b ELSE a

\* Even an empty list has a page.
PageCount(items, pageSize) == Greatest(1, (items + pageSize - 1) \div pageSize)

\* A mutant: the page asked for, even if there is none.
CurrentPageAsAsked(page, totalPages) == page

\* The page asked for, or the last one when the list has become shorter.
CurrentPage(page, totalPages) == Least(page, totalPages - 1)

\* A mutant: a page ends with the first item of the next.
PageOfOneMore(list, page, pageSize) ==
  SubSeq(list, page * pageSize + 1, Least((page + 1) * pageSize + 1, Len(list)))

PageOf(list, page, pageSize) ==
  SubSeq(list, page * pageSize + 1, Least((page + 1) * pageSize, Len(list)))

\* "Showing 11-20 of 24": positions counted from 1.
RangeShown(page, pageSize, items) ==
  [start |-> page * pageSize + 1, end |-> Least((page + 1) * pageSize, items)]

(***************************************************************************)
(* The numbers of the pager: all of up to seven pages; else the first, the *)
(* last, the current one and its neighbours, with an ellipsis for a gap.   *)
(***************************************************************************)
Ellipsis == -1

Span(first, last) == [i \in 1..(last - first + 1) |-> first + i - 1]

\* A mutant: an ellipsis where nothing is left out.
GetPageRangeEarlyGap(current, totalPages) ==
  LET first == Greatest(1, current - 1)
      last == Least(totalPages - 2, current + 1)
      gap(missing) == IF missing THEN <<Ellipsis>> ELSE <<>>
  IN  IF totalPages <= 7
      THEN Span(0, totalPages - 1)
      ELSE <<0>> \o gap(current > 1) \o Span(first, last)
           \o gap(current < totalPages - 3) \o <<totalPages - 1>>

GetPageRange(current, totalPages) ==
  LET first == Greatest(1, current - 1)
      last == Least(totalPages - 2, current + 1)
      gap(missing) == IF missing THEN <<Ellipsis>> ELSE <<>>
  IN  IF totalPages <= 7
      THEN Span(0, totalPages - 1)
      ELSE <<0>> \o gap(current > 2) \o Span(first, last)
           \o gap(current < totalPages - 3) \o <<totalPages - 1>>

\* What the pager's three kinds of buttons ask for.
PreviousPage(current) == Greatest(0, current - 1)
NextPage(current, totalPages) == Least(totalPages - 1, current + 1)
PageLinks(current, totalPages) ==
  LET range == GetPageRange(current, totalPages)
  IN  {range[i] : i \in DOMAIN range} \ {Ellipsis}

(***************************************************************************)
(* What a pager should tell: the first page, the last and the current one, *)
(* pages in their order, and an ellipsis exactly where pages are left out. *)
(***************************************************************************)
PagerTellsPages(current, totalPages) ==
  LET range == GetPageRange(current, totalPages)
  IN  /\ {0, current, totalPages - 1} \subseteq PageLinks(current, totalPages)
      /\ PageLinks(current, totalPages) \subseteq 0..totalPages - 1
      /\ \A i \in 1..Len(range) - 1 :
           range[i] # Ellipsis /\ range[i + 1] # Ellipsis => range[i + 1] = range[i] + 1
      /\ \A i \in DOMAIN range : range[i] = Ellipsis =>
           /\ i - 1 \in DOMAIN range /\ i + 1 \in DOMAIN range
           /\ range[i - 1] # Ellipsis /\ range[i - 1] + 1 < range[i + 1]
=============================================================================
