-------------------------- MODULE DeploymentDetail --------------------------
(***************************************************************************)
(* The components of one deployment: a search, two groups of filters, a    *)
(* sort order and two drawers; no pages. ui is the state of the mounted    *)
(* view, with the deployment it was given.                                 *)
(***************************************************************************)
EXTENDS Deployments

CONSTANTS
  Occurs,            \* for each text one may type, the names it occurs in
  MaxFilters         \* bound: so many filters are selected at once

VARIABLE ui

SortFields == {"name", "syncStatus", "healthStatus", "lastSyncAt"}

\* What the filter drawer offers.
Options ==
  [syncStatus |-> Elements(SyncStatuses), healthStatus |-> Elements(HealthStatuses)]

NoFilters == [g \in DOMAIN Options |-> {}]

Mounted(id) ==
  [deployment |-> id, viewMode |-> "card", search |-> "", sortField |-> "name",
   sortDirection |-> "asc", filterOpen |-> FALSE, sortOpen |-> FALSE, filters |-> NoFilters]

ActiveFilterCount(v) ==
  Cardinality(v.filters.syncStatus) + Cardinality(v.filters.healthStatus)

(***************************************************************************)
(* What is listed, and what is on the screen.                              *)
(***************************************************************************)
Components(v) == GetDeployment(v.deployment)[1].components

SearchTexts(c) == {c.name, c.namespace, c.branch}

Matches(v, c) ==
  /\ v.search = "" \/ SearchTexts(c) \cap Occurs[v.search] # {}
  /\ \A g \in DOMAIN Options : Passes(v.filters[g], c[g])

Matching(v) == Filter(Components(v), LAMBDA c : Matches(v, c))

SyncOrder == <<"Synced", "Syncing", "OutOfSync", "Unknown">>
HealthOrder == <<"Healthy", "Progressing", "Degraded", "Missing", "Unknown">>

SortKey(field, c) ==
  CASE field = "name" -> Position(Collation, c.name)
    [] field = "syncStatus" -> Position(SyncOrder, c.syncStatus)
    [] field = "healthStatus" -> Position(HealthOrder, c.healthStatus)
    [] field = "lastSyncAt" -> c.lastSyncAt

Filtered(v) ==
  LET matching == Matching(v)
  IN  SortedBy(matching, [i \in DOMAIN matching |-> SortKey(v.sortField, matching[i])],
               v.sortDirection)

QuickFilters ==
  ({"syncStatus"} \X {"Synced", "Syncing", "OutOfSync"})
  \cup ({"healthStatus"} \X {"Healthy", "Degraded"})

\* The number on a chip counts the components of this deployment.
ChipCount(v, group, value) ==
  Cardinality({i \in DOMAIN Components(v) : Components(v)[i][group] = value})

ShowsClearAll(v) == ActiveFilterCount(v) > 0
ShowsClearFilters(v) == Matching(v) = <<>> /\ (ActiveFilterCount(v) > 0 \/ v.search # "")
Headers(v) == [f \in SortFields |-> SortArrow(f, v.sortField, v.sortDirection)]

\* A mutant: the link is built from the ids in the wrong order.
CardLinkingBackwards(v, c) ==
  [href |-> <<c.id, v.deployment>>, sync |-> c.syncStatus, health |-> c.healthStatus,
   resources |-> Len(c.resources), synced |-> FormatRelativeTime(c.lastSyncAt),
   autoSync |-> c.autoSync]

Card(v, c) ==
  [href |-> <<v.deployment, c.id>>, sync |-> c.syncStatus, health |-> c.healthStatus,
   resources |-> Len(c.resources), synced |-> FormatRelativeTime(c.lastSyncAt),
   autoSync |-> c.autoSync]

Row(v, c) ==
  [href |-> <<v.deployment, c.id>>, sync |-> c.syncStatus, health |-> c.healthStatus,
   resources |-> Len(c.resources), synced |-> FormatRelativeTime(c.lastSyncAt),
   branch |-> c.branch]

Links(v) ==
  {IF v.viewMode = "card" THEN Card(v, c).href ELSE Row(v, c).href : c \in Elements(Matching(v))}

(***************************************************************************)
(* Handlers.                                                               *)
(***************************************************************************)
SearchFor(text) ==
  /\ text # ui.search
  /\ ui' = [ui EXCEPT !.search = text]

ToggleFilter(group, value) ==
  LET filters == [ui.filters EXCEPT ![group] = Toggled(@, value)]
  IN  /\ ActiveFilterCount([ui EXCEPT !.filters = filters]) <= MaxFilters
      /\ ui' = [ui EXCEPT !.filters = filters]

ClickChip(group, value) == <<group, value>> \in QuickFilters /\ ToggleFilter(group, value)

ClearAllFilters ==
  /\ ShowsClearAll(ui)
  /\ ui' = [ui EXCEPT !.filters = NoFilters]

ClearFilters ==
  /\ ShowsClearFilters(ui)
  /\ ui' = [ui EXCEPT !.filters = NoFilters, !.search = ""]

OpenDrawer(drawer) ==
  /\ drawer \in {"filterOpen", "sortOpen"}
  /\ ui' = [ui EXCEPT ![drawer] = TRUE]

CloseDrawer(drawer) ==
  /\ drawer \in {"filterOpen", "sortOpen"} /\ ui[drawer]
  /\ ui' = [ui EXCEPT ![drawer] = FALSE]

ChooseView(mode) ==
  /\ mode \in {"card", "list"}
  /\ ui' = [ui EXCEPT !.viewMode = mode]

\* The headers are there only in the table, and the table only with rows.
ClickHeader(field) ==
  /\ ui.viewMode = "list" /\ Matching(ui) # <<>>
  /\ field \in SortFields
  /\ ui' = IF ui.sortField = field
           THEN [ui EXCEPT !.sortDirection = IF @ = "asc" THEN "desc" ELSE "asc"]
           ELSE [ui EXCEPT !.sortField = field, !.sortDirection = "asc"]

TickFilter(group, value) ==
  /\ ui.filterOpen
  /\ group \in DOMAIN Options /\ value \in Options[group]
  /\ ToggleFilter(group, value)

ChooseSort(field, direction) ==
  /\ ui.sortOpen
  /\ \/ field \in SortFields /\ direction = "asc"
     \/ field = ui.sortField /\ direction \in {"asc", "desc"}
  /\ ui' = [ui EXCEPT !.sortField = field, !.sortDirection = direction]

DeploymentDetailNext ==
  \/ \E text \in DOMAIN Occurs \cup {""} : SearchFor(text)
  \/ \E chip \in QuickFilters : ClickChip(chip[1], chip[2])
  \/ ClearAllFilters
  \/ ClearFilters
  \/ \E drawer \in {"filterOpen", "sortOpen"} : OpenDrawer(drawer) \/ CloseDrawer(drawer)
  \/ \E mode \in {"card", "list"} : ChooseView(mode)
  \/ \E field \in SortFields : ClickHeader(field)
  \/ \E group \in DOMAIN Options : \E value \in Options[group] : TickFilter(group, value)
  \/ \E field \in SortFields, direction \in {"asc", "desc"} : ChooseSort(field, direction)
=============================================================================
