------------------------------- MODULE Lists -------------------------------
(***************************************************************************)
(* What the list views of the platform have in common: sets of selected    *)
(* filter values, sorting as Array.prototype.sort does it (stable), and    *)
(* how long ago something happened.                                        *)
(***************************************************************************)
EXTENDS Integers, Sequences, FiniteSets

\* The elements of a list, and the position of one of them.
Elements(s) == {s[i] : i \in DOMAIN s}
Position(s, x) == CHOOSE i \in DOMAIN s : s[i] = x

\* The elements at the positions in keep, in their order.
Selected(s, keep) ==
  [k \in 1..Cardinality(keep) |->
     s[CHOOSE i \in keep : Cardinality({j \in keep : j < i}) + 1 = k]]

\* The elements that Keep holds of (Array.filter).
Filter(s, Keep(_)) == Selected(s, {i \in DOMAIN s : Keep(s[i])})

\* Picking a filter value that is picked already drops it.
Toggled(selected, value) ==
  IF value \in selected THEN selected \ {value} ELSE selected \cup {value}

\* A mutant: a group in which nothing is selected lets nothing pass.
PassesOnlySelected(selected, value) == value \in selected

\* A group of filters in which nothing is selected lets everything pass.
Passes(selected, value) == selected = {} \/ value \in selected

(***************************************************************************)
(* The list in the order of keys[i], what its element i is sorted by.      *)
(* Descending negates the comparison; equal keys keep their order in both  *)
(* directions.                                                             *)
(***************************************************************************)
SortedBy(s, keys, direction) ==
  LET comesFirst(i, j) ==
        \/ keys[i] = keys[j] /\ i < j
        \/ keys[i] < keys[j] /\ direction = "asc"
        \/ keys[j] < keys[i] /\ direction = "desc"
      place(i) == Cardinality({j \in DOMAIN s : comesFirst(j, i)}) + 1
  IN  [k \in DOMAIN s |-> s[CHOOSE i \in DOMAIN s : place(i) = k]]

\* The arrow in the header of a column that can be sorted by.
SortArrow(field, sortField, sortDirection) ==
  IF sortField # field THEN "both"
  ELSE IF sortDirection = "asc" THEN "up" ELSE "down"

(***************************************************************************)
(* A time is a number of minutes; Never is the null of a resource that was *)
(* never synced or seen. The pages measure ages against a fixed now.       *)
(***************************************************************************)
Never == 0
At(day, hour, minute) == (day * 24 + hour) * 60 + minute
Now == At(30, 9, 20)

\* Nothing is shown more precisely than its largest unit.
FormatRelativeTime(at) ==
  LET age == Now - at
  IN  IF at = Never THEN <<"Never">>
      ELSE IF age < 1 THEN <<"Just now">>
      ELSE IF age < 60 THEN <<age, "m">>
      ELSE IF age < 24 * 60 THEN <<age \div 60, "h">>
      ELSE <<age \div (24 * 60), "d">>
=============================================================================
