--------------------------- MODULE DeploymentView ---------------------------
(***************************************************************************)
(* The list of deployments: a search, four groups of filters, a sort       *)
(* order, pages, and two drawers beside the list in which filters and sort *)
(* order can be chosen too. ui is the state of the mounted view.           *)
(***************************************************************************)
EXTENDS Deployments, Paging

CONSTANTS
  Occurs,            \* for each text one may type, the names it occurs in
  PageSizeOptions,   \* the sizes the pager offers
  DefaultPageSize,
  MaxFilters         \* bound: so many filters are selected at once

VARIABLE ui

SortFields == {"name", "syncStatus", "healthStatus", "targetCluster", "lastSyncAt"}

\* What the filter drawer offers, by the attribute it restricts.
Options ==
  [syncStatus |-> Elements(SyncStatuses), healthStatus |-> Elements(HealthStatuses),
   targetCluster |-> Elements(TargetClusters), project |-> Elements(Projects)]

NoFilters == [g \in DOMAIN Options |-> {}]

\* The state of a view that was just mounted; its effect has yet to run.
Mounted ==
  [viewMode |-> "card", search |-> "", sortField |-> "name", sortDirection |-> "asc",
   page |-> 0, pageSize |-> DefaultPageSize, pageSizeOpen |-> FALSE,
   filterOpen |-> FALSE, sortOpen |-> FALSE, filters |-> NoFilters, resetPending |-> TRUE]

ActiveFilterCount(v) ==
  Cardinality(v.filters.syncStatus) + Cardinality(v.filters.healthStatus)
  + Cardinality(v.filters.targetCluster) + Cardinality(v.filters.project)

(***************************************************************************)
(* What is listed.                                                         *)
(***************************************************************************)
SearchTexts(d) ==
  {d.name, d.namespace, d.project} \cup {c.name : c \in Elements(d.components)}

Matches(v, d) ==
  /\ v.search = "" \/ SearchTexts(d) \cap Occurs[v.search] # {}
  /\ \A g \in DOMAIN Options : Passes(v.filters[g], d[g])

Matching(v) == Filter(MockDeployments, LAMBDA d : Matches(v, d))

SyncOrder == <<"Synced", "Syncing", "OutOfSync", "Unknown">>
HealthOrder == <<"Healthy", "Progressing", "Degraded", "Missing", "Unknown">>

SortKey(field, d) ==
  CASE field \in {"name", "targetCluster"} -> Position(Collation, d[field])
    [] field = "syncStatus" -> Position(SyncOrder, d.syncStatus)
    [] field = "healthStatus" -> Position(HealthOrder, d.healthStatus)
    [] field = "lastSyncAt" -> d.lastSyncAt

Filtered(v) ==
  LET matching == Matching(v)
  IN  SortedBy(matching, [i \in DOMAIN matching |-> SortKey(v.sortField, matching[i])],
               v.sortDirection)

TotalPages(v) == PageCount(Len(Matching(v)), v.pageSize)
Current(v) == CurrentPage(v.page, TotalPages(v))
Paged(v) == PageOf(Filtered(v), Current(v), v.pageSize)

(***************************************************************************)
(* What is on the screen.                                                  *)
(***************************************************************************)
QuickFilters ==
  ({"syncStatus"} \X {"Synced", "Syncing", "OutOfSync"})
  \cup ({"healthStatus"} \X {"Healthy", "Degraded"})

\* The number on a chip counts all deployments, whatever is selected.
ChipCount(group, value) ==
  Cardinality({i \in DOMAIN MockDeployments : MockDeployments[i][group] = value})

ShowsClearAll(v) == ActiveFilterCount(v) > 0
ShowsClearFilters(v) == Matching(v) = <<>> /\ (ActiveFilterCount(v) > 0 \/ v.search # "")
ShowsPager(v) == Matching(v) # <<>>

\* A card shows at most three components by name; a row shows the count.
Card(d) ==
  [href |-> d.id, sync |-> d.syncStatus, health |-> d.healthStatus,
   resources |-> GetDeploymentResourceCount(d), synced |-> FormatRelativeTime(d.lastSyncAt),
   names |-> SubSeq(d.components, 1, Least(3, Len(d.components))),
   more |-> Greatest(0, Len(d.components) - 3)]

Row(d) ==
  [href |-> d.id, sync |-> d.syncStatus, health |-> d.healthStatus,
   resources |-> GetDeploymentResourceCount(d), synced |-> FormatRelativeTime(d.lastSyncAt),
   components |-> Len(d.components)]

\* Columns of the table that can be sorted by, with their arrows.
Headers(v) ==
  [f \in SortFields |-> SortArrow(f, v.sortField, v.sortDirection)]

Links(v) ==
  {IF v.viewMode = "card" THEN Card(d).href ELSE Row(d).href : d \in Elements(Paged(v))}

(***************************************************************************)
(* Handlers. While the menu of page sizes is open it takes all clicks.     *)
(***************************************************************************)
Idle == ~ui.resetPending /\ ~ui.pageSizeOpen

SearchFor(text) ==
  /\ Idle
  /\ text # ui.search
  /\ ui' = [ui EXCEPT !.search = text, !.resetPending = TRUE]

\* A mutant: every value is put into the first group.
ToggleFilterInFirstGroup(group, value) ==
  LET filters == [ui.filters EXCEPT !.syncStatus = Toggled(@, value)]
  IN  /\ ActiveFilterCount([ui EXCEPT !.filters = filters]) <= MaxFilters
      /\ ui' = [ui EXCEPT !.filters = filters, !.resetPending = TRUE]

\* Toggling makes a new set, so the effect runs.
ToggleFilter(group, value) ==
  LET filters == [ui.filters EXCEPT ![group] = Toggled(@, value)]
  IN  /\ ActiveFilterCount([ui EXCEPT !.filters = filters]) <= MaxFilters
      /\ ui' = [ui EXCEPT !.filters = filters, !.resetPending = TRUE]

ClickChip(group, value) ==
  Idle /\ <<group, value>> \in QuickFilters /\ ToggleFilter(group, value)

ClearAllFilters ==
  /\ Idle
  /\ ShowsClearAll(ui)
  /\ ui' = [ui EXCEPT !.filters = NoFilters, !.resetPending = TRUE]

ClearFilters ==
  /\ Idle
  /\ ShowsClearFilters(ui)
  /\ ui' = [ui EXCEPT !.filters = NoFilters, !.search = "", !.resetPending = TRUE]

OpenDrawer(drawer) ==
  /\ Idle
  /\ drawer \in {"filterOpen", "sortOpen"}
  /\ ui' = [ui EXCEPT ![drawer] = TRUE]

CloseDrawer(drawer) ==
  /\ Idle
  /\ drawer \in {"filterOpen", "sortOpen"} /\ ui[drawer]
  /\ ui' = [ui EXCEPT ![drawer] = FALSE]

ChooseView(mode) ==
  /\ Idle
  /\ mode \in {"card", "list"}
  /\ ui' = [ui EXCEPT !.viewMode = mode]

HandleSort(v, field) ==
  IF v.sortField = field
  THEN [v EXCEPT !.sortDirection = IF @ = "asc" THEN "desc" ELSE "asc"]
  ELSE [v EXCEPT !.sortField = field, !.sortDirection = "asc"]

\* The headers are there only in the table. The page stays the same.
ClickHeader(field) ==
  /\ Idle
  /\ ui.viewMode = "list" /\ ShowsPager(ui)
  /\ field \in SortFields
  /\ ui' = HandleSort(ui, field)

\* Checkboxes of the filter drawer, and its Clear button.
TickFilter(group, value) ==
  /\ Idle
  /\ ui.filterOpen
  /\ group \in DOMAIN Options /\ value \in Options[group]
  /\ ToggleFilter(group, value)

\* The sort drawer: another field sorts ascending, Reset is by name.
ChooseSort(field, direction) ==
  /\ Idle
  /\ ui.sortOpen
  /\ \/ field \in SortFields /\ direction = "asc"
     \/ field = ui.sortField /\ direction \in {"asc", "desc"}
  /\ ui' = [ui EXCEPT !.sortField = field, !.sortDirection = direction]

GoToPage(page) ==
  /\ Idle
  /\ ShowsPager(ui)
  /\ page \in PageLinks(Current(ui), TotalPages(ui))
               \cup {PreviousPage(Current(ui)), NextPage(Current(ui), TotalPages(ui))}
  /\ ui' = [ui EXCEPT !.page = page]

OpenPageSizes ==
  /\ Idle
  /\ ShowsPager(ui)
  /\ ui' = [ui EXCEPT !.pageSizeOpen = TRUE]

\* A mutant: the effect does not depend on the size.
ChoosePageSizeKeepingPage(size) ==
  /\ ui.pageSizeOpen
  /\ size \in PageSizeOptions \cup {ui.pageSize}
  /\ ui' = [ui EXCEPT !.pageSize = size, !.pageSizeOpen = FALSE]

\* Choosing a size closes the menu; so does a click elsewhere.
ChoosePageSize(size) ==
  /\ ui.pageSizeOpen
  /\ size \in PageSizeOptions \cup {ui.pageSize}
  /\ ui' = [ui EXCEPT !.pageSize = size, !.pageSizeOpen = FALSE,
                      !.resetPending = size # ui.pageSize]

\* The effect on the search, the filters and the page size. Until it runs,
\* the page asked for is the old one.
ResetPage ==
  /\ ui.resetPending
  /\ ui' = [ui EXCEPT !.page = 0, !.resetPending = FALSE]

DeploymentViewNext ==
  \/ \E text \in DOMAIN Occurs \cup {""} : SearchFor(text)
  \/ \E chip \in QuickFilters : ClickChip(chip[1], chip[2])
  \/ ClearAllFilters
  \/ ClearFilters
  \/ \E drawer \in {"filterOpen", "sortOpen"} : OpenDrawer(drawer) \/ CloseDrawer(drawer)
  \/ \E mode \in {"card", "list"} : ChooseView(mode)
  \/ \E field \in SortFields : ClickHeader(field)
  \/ \E group \in DOMAIN Options : \E value \in Options[group] : TickFilter(group, value)
  \/ \E field \in SortFields, direction \in {"asc", "desc"} : ChooseSort(field, direction)
  \/ \E page \in 0..Len(MockDeployments) : GoToPage(page)
  \/ OpenPageSizes
  \/ \E size \in PageSizeOptions : ChoosePageSize(size)
  \/ ResetPage
=============================================================================
