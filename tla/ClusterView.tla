---------------------------- MODULE ClusterView ----------------------------
(***************************************************************************)
(* The list of clusters: a search, two groups of filters, a sort order,    *)
(* pages and two drawers. ui is the state of the mounted view.             *)
(***************************************************************************)
EXTENDS Clusters, Paging

CONSTANTS
  Occurs,            \* for each text one may type, the names it occurs in
  PageSizeOptions,   \* the sizes the pager offers
  DefaultPageSize,
  MaxFilters         \* bound: so many filters are selected at once

VARIABLE ui

SortFields == {"name", "status", "region", "nodeCount", "lastSeen"}
StatusOrder == <<"Connected", "Unknown", "Error", "Disconnected">>
QuickFilters == {"Connected", "Error"}

Options ==
  [status |-> Elements(ClusterStatuses), provider |-> Elements(ClusterProviders)]

NoFilters == [g \in DOMAIN Options |-> {}]

Mounted ==
  [viewMode |-> "card", search |-> "", sortField |-> "name", sortDirection |-> "asc",
   page |-> 0, pageSize |-> DefaultPageSize, pageSizeOpen |-> FALSE,
   filterOpen |-> FALSE, sortOpen |-> FALSE, filters |-> NoFilters, resetPending |-> TRUE]

ActiveFilterCount(v) == Cardinality(v.filters.status) + Cardinality(v.filters.provider)

(***************************************************************************)
(* What is listed, and what is on the screen.                              *)
(***************************************************************************)
SearchTexts(c) == {c.name, c.serverUrl, c.region}

Matches(v, c) ==
  /\ v.search = "" \/ SearchTexts(c) \cap Occurs[v.search] # {}
  /\ Passes(v.filters.status, c.status)
  /\ Passes(v.filters.provider, c.provider)

Matching(v) == Filter(MockClusters, LAMBDA c : Matches(v, c))

SortKey(field, c) ==
  CASE field \in {"name", "region"} -> Position(ClusterCollation, c[field])
    [] field = "status" -> Position(StatusOrder, c.status)
    [] field \in {"nodeCount", "lastSeen"} -> c[field]

Filtered(v) ==
  LET matching == Matching(v)
  IN  SortedBy(matching, [i \in DOMAIN matching |-> SortKey(v.sortField, matching[i])],
               v.sortDirection)

TotalPages(v) == PageCount(Len(Matching(v)), v.pageSize)
Current(v) == CurrentPage(v.page, TotalPages(v))
Paged(v) == PageOf(Filtered(v), Current(v), v.pageSize)

StatusCount(status) ==
  Cardinality({i \in DOMAIN MockClusters : MockClusters[i].status = status})

ShowsClearAll(v) == ActiveFilterCount(v) > 0
ShowsClearFilters(v) == Matching(v) = <<>> /\ (ActiveFilterCount(v) > 0 \/ v.search # "")
ShowsPager(v) == Matching(v) # <<>>
Headers(v) == [f \in SortFields |-> SortArrow(f, v.sortField, v.sortDirection)]

\* The load of a cluster is known only while it is connected.
UsageColor(value) == IF value > 80 THEN "red" ELSE IF value > 60 THEN "yellow" ELSE "green"

StatusColor(status) ==
  CASE status = "Connected" -> "green"
    [] status = "Disconnected" -> "muted"
    [] status = "Error" -> "red"
    [] status = "Unknown" -> "yellow"

\* How long ago the cluster was seen, in the words of the cards and rows.
SinceSeen(c) == FormatRelativeTime(c.lastSeen)

Card(c) ==
  [name |-> c.name, color |-> StatusColor(c.status), nodes |-> c.nodeCount,
   healthy |-> c.healthyDeployments, all |-> c.deploymentCount,
   bars |-> IF c.status = "Connected"
            THEN <<UsageColor(c.cpuUsage), UsageColor(c.memoryUsage)>> ELSE <<>>,
   seen |-> SinceSeen(c)]

Row(c) ==
  [name |-> c.name, color |-> StatusColor(c.status), nodes |-> c.nodeCount,
   healthy |-> c.healthyDeployments, all |-> c.deploymentCount,
   usage |-> IF c.status = "Connected" THEN <<c.cpuUsage, c.memoryUsage>> ELSE <<>>,
   seen |-> SinceSeen(c)]

Shown(v) == [i \in DOMAIN Paged(v) |->
               IF v.viewMode = "card" THEN Card(Paged(v)[i]) ELSE Row(Paged(v)[i])]

(***************************************************************************)
(* Handlers. While the menu of page sizes is open it takes all clicks.     *)
(***************************************************************************)
Idle == ~ui.resetPending /\ ~ui.pageSizeOpen

SearchFor(text) ==
  /\ Idle
  /\ text # ui.search
  /\ ui' = [ui EXCEPT !.search = text, !.resetPending = TRUE]

ToggleFilter(group, value) ==
  LET filters == [ui.filters EXCEPT ![group] = Toggled(@, value)]
  IN  /\ ActiveFilterCount([ui EXCEPT !.filters = filters]) <= MaxFilters
      /\ ui' = [ui EXCEPT !.filters = filters, !.resetPending = TRUE]

ClickChip(status) == Idle /\ status \in QuickFilters /\ ToggleFilter("status", status)

ClearAllFilters ==
  /\ Idle
  /\ ShowsClearAll(ui)
  /\ ui' = [ui EXCEPT !.filters = NoFilters, !.resetPending = TRUE]

ClearFilters ==
  /\ Idle
  /\ ShowsClearFilters(ui)
  /\ ui' = [ui EXCEPT !.filters = NoFilters, !.search = "", !.resetPending = TRUE]

OpenDrawer(drawer) ==
  /\ Idle
  /\ drawer \in {"filterOpen", "sortOpen"}
  /\ ui' = [ui EXCEPT ![drawer] = TRUE]

CloseDrawer(drawer) ==
  /\ Idle
  /\ drawer \in {"filterOpen", "sortOpen"} /\ ui[drawer]
  /\ ui' = [ui EXCEPT ![drawer] = FALSE]

ChooseView(mode) ==
  /\ Idle
  /\ mode \in {"card", "list"}
  /\ ui' = [ui EXCEPT !.viewMode = mode]

HandleSort(v, field) ==
  IF v.sortField = field
  THEN [v EXCEPT !.sortDirection = IF @ = "asc" THEN "desc" ELSE "asc"]
  ELSE [v EXCEPT !.sortField = field, !.sortDirection = "asc"]

ClickHeader(field) ==
  /\ Idle
  /\ ui.viewMode = "list" /\ ShowsPager(ui)
  /\ field \in SortFields
  /\ ui' = HandleSort(ui, field)

TickFilter(group, value) ==
  /\ Idle
  /\ ui.filterOpen
  /\ group \in DOMAIN Options /\ value \in Options[group]
  /\ ToggleFilter(group, value)

ChooseSort(field, direction) ==
  /\ Idle
  /\ ui.sortOpen
  /\ \/ field \in SortFields /\ direction = "asc"
     \/ field = ui.sortField /\ direction \in {"asc", "desc"}
  /\ ui' = [ui EXCEPT !.sortField = field, !.sortDirection = direction]

GoToPage(page) ==
  /\ Idle
  /\ ShowsPager(ui)
  /\ page \in PageLinks(Current(ui), TotalPages(ui))
               \cup {PreviousPage(Current(ui)), NextPage(Current(ui), TotalPages(ui))}
  /\ ui' = [ui EXCEPT !.page = page]

OpenPageSizes ==
  /\ Idle
  /\ ShowsPager(ui)
  /\ ui' = [ui EXCEPT !.pageSizeOpen = TRUE]

ChoosePageSize(size) ==
  /\ ui.pageSizeOpen
  /\ size \in PageSizeOptions \cup {ui.pageSize}
  /\ ui' = [ui EXCEPT !.pageSize = size, !.pageSizeOpen = FALSE,
                      !.resetPending = size # ui.pageSize]

ResetPage ==
  /\ ui.resetPending
  /\ ui' = [ui EXCEPT !.page = 0, !.resetPending = FALSE]

ClusterViewNext ==
  \/ \E text \in DOMAIN Occurs \cup {""} : SearchFor(text)
  \/ \E status \in QuickFilters : ClickChip(status)
  \/ ClearAllFilters
  \/ ClearFilters
  \/ \E drawer \in {"filterOpen", "sortOpen"} : OpenDrawer(drawer) \/ CloseDrawer(drawer)
  \/ \E mode \in {"card", "list"} : ChooseView(mode)
  \/ \E field \in SortFields : ClickHeader(field)
  \/ \E group \in DOMAIN Options : \E value \in Options[group] : TickFilter(group, value)
  \/ \E field \in SortFields, direction \in {"asc", "desc"} : ChooseSort(field, direction)
  \/ \E page \in 0..Len(MockClusters) : GoToPage(page)
  \/ OpenPageSizes
  \/ \E size \in PageSizeOptions : ChoosePageSize(size)
  \/ ResetPage
=============================================================================
