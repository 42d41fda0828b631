--------------------------- MODULE PlatformProofs ---------------------------
(***************************************************************************)
(* What holds of every tab the platform is shown in, whatever is typed     *)
(* into its address bar and its searches, and whatever sizes of pages are  *)
(* offered.                                                                *)
(***************************************************************************)
EXTENDS Platform, ListProofs

(***************************************************************************)
(* The inductive invariant: the state of the view each page shows.         *)
(***************************************************************************)
ListUi(filters, sortFields, lastPage) ==
  [viewMode : {"card", "list"}, search : DOMAIN Occurs \cup {""}, sortField : sortFields,
   sortDirection : {"asc", "desc"}, page : 0..lastPage, pageSize : PageSizeOptions,
   pageSizeOpen : BOOLEAN, filterOpen : BOOLEAN, sortOpen : BOOLEAN, filters : filters,
   resetPending : BOOLEAN]

DeploymentFilters ==
  [syncStatus : SUBSET DeploymentList!Options.syncStatus,
   healthStatus : SUBSET DeploymentList!Options.healthStatus,
   targetCluster : SUBSET DeploymentList!Options.targetCluster,
   project : SUBSET DeploymentList!Options.project]

ClusterFilters ==
  [status : SUBSET ClusterList!Options.status, provider : SUBSET ClusterList!Options.provider]

\* While the menu of page sizes is open the effects have run: a choice in it
\* decides alone whether they run again.
DeploymentsInv(v) ==
  /\ v \in ListUi(DeploymentFilters, DeploymentList!SortFields, Len(DeploymentList!MockDeployments))
  /\ v.pageSizeOpen => ~v.resetPending
  /\ ~v.resetPending => v.page < DeploymentList!TotalPages(v)

ClustersInv(v) ==
  /\ v \in ListUi(ClusterFilters, ClusterList!SortFields, Len(ClusterList!MockClusters))
  /\ v.pageSizeOpen => ~v.resetPending
  /\ ~v.resetPending => v.page < ClusterList!TotalPages(v)

DeploymentInv(url, v) ==
  v \in [deployment : {url[2]}, viewMode : {"card", "list"}, search : DOMAIN Occurs \cup {""},
         sortField : OneDeployment!SortFields, sortDirection : {"asc", "desc"},
         filterOpen : BOOLEAN, sortOpen : BOOLEAN,
         filters : [syncStatus : SUBSET OneDeployment!Options.syncStatus,
                    healthStatus : SUBSET OneDeployment!Options.healthStatus]]

\* Only editors that exist have left the comparison.
ComponentInv(url, v) ==
  /\ v \in [deployment : {url[2]}, component : {url[3]}, graphOpen : BOOLEAN,
            podsOpen : BOOLEAN, yamlOpen : BOOLEAN,
            selectedResource : {v.selectedResource}, manifestMode : {v.manifestMode}]
  /\ v.manifestMode \subseteq {r.id : r \in OneComponent!Editors(v)}

PageInv(url, v) ==
  /\ Page(url) = "deployments" => DeploymentsInv(v)
  /\ Page(url) = "clusters" => ClustersInv(v)
  /\ Page(url) = "deployment" => DeploymentInv(url, v)
  /\ Page(url) = "component" => ComponentInv(url, v)

PlatformInv == PageInv(route, ui)

(***************************************************************************)
(* The list of deployments.                                                *)
(***************************************************************************)

\* The view has the lists and pages of Lists and Paging.
LEMMA DeploymentsLists ==
  /\ \A items, size : DeploymentList!PageCount(items, size) = PageCount(items, size)
  /\ \A page, total : DeploymentList!CurrentPage(page, total) = CurrentPage(page, total)
  /\ \A list, page, size : DeploymentList!PageOf(list, page, size) = PageOf(list, page, size)
  /\ \A page, size, items : DeploymentList!RangeShown(page, size, items)
       = RangeShown(page, size, items)
  /\ \A page, total : DeploymentList!PageLinks(page, total) = PageLinks(page, total)
  /\ \A page : DeploymentList!PreviousPage(page) = PreviousPage(page)
  /\ \A page, total : DeploymentList!NextPage(page, total) = NextPage(page, total)
  /\ \A S : DeploymentList!Cardinality(S) = Cardinality(S)
  /\ \A list, keep : DeploymentList!Selected(list, keep) = Selected(list, keep)
  /\ \A list, keys, direction : DeploymentList!SortedBy(list, keys, direction)
       = SortedBy(list, keys, direction)
  /\ \A list : DeploymentList!Elements(list) = Elements(list)
<1>1. \A items, size : DeploymentList!PageCount(items, size) = PageCount(items, size)
  BY DEF PageCount, Greatest, DeploymentList!PageCount, DeploymentList!Greatest
<1>2. \A page, total : DeploymentList!CurrentPage(page, total) = CurrentPage(page, total)
  BY DEF CurrentPage, Least, DeploymentList!CurrentPage, DeploymentList!Least
<1>3. \A list, page, size : DeploymentList!PageOf(list, page, size) = PageOf(list, page, size)
  BY DEF PageOf, Least, DeploymentList!PageOf, DeploymentList!Least
<1>4. \A page, size, items : DeploymentList!RangeShown(page, size, items)
        = RangeShown(page, size, items)
  BY DEF RangeShown, Least, DeploymentList!RangeShown, DeploymentList!Least
<1>5. \A page, total : DeploymentList!PageLinks(page, total) = PageLinks(page, total)
  BY DEF PageLinks, GetPageRange, Span, Ellipsis, Least, Greatest, DeploymentList!PageLinks,
     DeploymentList!GetPageRange, DeploymentList!Span, DeploymentList!Ellipsis,
     DeploymentList!Least, DeploymentList!Greatest
<1>6. \A page : DeploymentList!PreviousPage(page) = PreviousPage(page)
  BY DEF PreviousPage, Greatest, DeploymentList!PreviousPage, DeploymentList!Greatest
<1>7. \A page, total : DeploymentList!NextPage(page, total) = NextPage(page, total)
  BY DEF NextPage, Least, DeploymentList!NextPage, DeploymentList!Least
<1>8. \A S : DeploymentList!Cardinality(S) = Cardinality(S)
  BY DEF Cardinality, DeploymentList!Cardinality
<1>9. \A list, keep : DeploymentList!Selected(list, keep) = Selected(list, keep)
  BY Zenon DEF Selected, Cardinality, DeploymentList!Selected, DeploymentList!Cardinality
<1>10. \A list, keys, direction : DeploymentList!SortedBy(list, keys, direction)
         = SortedBy(list, keys, direction)
  BY Zenon DEF SortedBy, Cardinality, DeploymentList!SortedBy, DeploymentList!Cardinality
<1>11. \A list : DeploymentList!Elements(list) = Elements(list)
  BY DEF Elements, DeploymentList!Elements
<1> QED  BY <1>1, <1>2, <1>3, <1>4, <1>5, <1>6, <1>7, <1>8, <1>9, <1>10, <1>11

\* What is listed is what matches; how many depends on the search and the
\* filters alone.
LEMMA DeploymentsMatchAlike ==
  ASSUME NEW v, NEW w, v.search = w.search, v.filters = w.filters
  PROVE  DeploymentList!Matching(v) = DeploymentList!Matching(w)
BY DEF DeploymentList!Matching, DeploymentList!Matches, DeploymentList!Filter

LEMMA DeploymentsData ==
  /\ Len(DeploymentList!MockDeployments) = 6 /\ DOMAIN DeploymentList!MockDeployments = 1..6
  /\ \A i, j \in 1..6 : DeploymentList!MockDeployments[i].id
       = DeploymentList!MockDeployments[j].id => i = j
<1>1. Len(DeploymentList!MockDeployments) = 6 /\ DOMAIN DeploymentList!MockDeployments = 1..6
  BY DEF DeploymentList!MockDeployments
<1>2. DeploymentList!MockDeployments[1].id = "1" /\ DeploymentList!MockDeployments[2].id = "2"
        /\ DeploymentList!MockDeployments[3].id = "3"
      /\ DeploymentList!MockDeployments[4].id = "4" /\ DeploymentList!MockDeployments[5].id = "5"
           /\ DeploymentList!MockDeployments[6].id = "6"
  BY DEF DeploymentList!MockDeployments, DeploymentList!Dep
<1> QED  BY <1>1, <1>2

LEMMA DeploymentsMatching ==
  ASSUME NEW v
  PROVE  /\ IsFiniteSet({i \in 1..6 : DeploymentList!Matches(v, DeploymentList!MockDeployments[i])})
         /\ Len(DeploymentList!Matching(v)) = Cardinality({i \in 1..6 : DeploymentList!Matches(v, DeploymentList!MockDeployments[i])})
         /\ Len(DeploymentList!Matching(v)) \in 0..6
         /\ \E place :
              /\ Numbers(place, Len(DeploymentList!Matching(v)),
                   {i \in 1..6 : DeploymentList!Matches(v, DeploymentList!MockDeployments[i])})
              /\ DeploymentList!Matching(v)
                   = [k \in 1..Len(DeploymentList!Matching(v))
                     |-> DeploymentList!MockDeployments[place[k]]]
<1> DEFINE keep == {i \in 1..6 : DeploymentList!Matches(v, DeploymentList!MockDeployments[i])}
<1>1. DeploymentList!Matching(v) = Selected(DeploymentList!MockDeployments, keep)
  BY DeploymentsLists, DeploymentsData DEF DeploymentList!Matching, DeploymentList!Filter
<1>2. keep \in SUBSET (1..6) /\ 6 \in Nat
  OBVIOUS
<1> HIDE DEF keep
<1>3. IsSelection(DeploymentList!Matching(v), DeploymentList!MockDeployments, 6, keep)
  BY <1>1, <1>2, SelectedAre
<1>4. IsFiniteSet(keep) /\ Cardinality(keep) \in 0..6
  BY <1>3 DEF IsSelection
<1>5. Len(DeploymentList!Matching(v)) = Cardinality(keep)
  BY <1>3, <1>4 DEF IsSelection
<1> QED  BY <1>3, <1>4, <1>5 DEF keep, IsSelection

\* There is a page, and the one shown is among those there are.
LEMMA DeploymentsPagesExist ==
  ASSUME NEW v, v.pageSize \in Nat \ {0}
  PROVE  /\ DeploymentList!TotalPages(v) = PageCount(Len(DeploymentList!Matching(v)), v.pageSize)
         /\ DeploymentList!TotalPages(v) \in Nat \ {0}
         /\ v.page \in Nat =>
              /\ DeploymentList!Current(v) \in 0..(DeploymentList!TotalPages(v) - 1)
              /\ v.page < DeploymentList!TotalPages(v) => DeploymentList!Current(v) = v.page
<1>1. Len(DeploymentList!Matching(v)) \in Nat
  BY DeploymentsMatching
<1>2. DeploymentList!TotalPages(v) = PageCount(Len(DeploymentList!Matching(v)), v.pageSize)
  BY DeploymentsLists DEF DeploymentList!TotalPages
<1>3. DeploymentList!TotalPages(v) \in Nat \ {0}
  BY <1>1, <1>2, PagesSuffice
<1>4. DeploymentList!Current(v) = CurrentPage(v.page, DeploymentList!TotalPages(v))
  BY DeploymentsLists DEF DeploymentList!Current
<1> QED  BY <1>2, <1>3, <1>4 DEF CurrentPage, Least

\* A filter that is ticked or dropped is one of those on offer.
LEMMA DeploymentsFilters ==
  /\ DeploymentList!NoFilters \in DeploymentFilters
  /\ \A f \in DeploymentFilters : \A g \in DOMAIN DeploymentList!Options : \A value \in DeploymentList!Options[g] :
       [f EXCEPT ![g] = DeploymentList!Toggled(f[g], value)] \in DeploymentFilters
<1>1. DOMAIN DeploymentList!Options = {"syncStatus", "healthStatus", "targetCluster", "project"}
  BY DEF DeploymentList!Options
<1>2. DeploymentList!NoFilters \in DeploymentFilters
  BY <1>1 DEF DeploymentList!NoFilters, DeploymentFilters
<1>3. ASSUME NEW f \in DeploymentFilters, NEW g \in DOMAIN DeploymentList!Options,
             NEW value \in DeploymentList!Options[g]
      PROVE  [f EXCEPT ![g] = DeploymentList!Toggled(f[g], value)] \in DeploymentFilters
  <2>1. f[g] \in SUBSET DeploymentList!Options[g]
    BY <1>1 DEF DeploymentFilters
  <2>2. PICK set \in SUBSET DeploymentList!Options[g] : set = DeploymentList!Toggled(f[g], value)
    BY <2>1 DEF DeploymentList!Toggled
  <2>3. [f EXCEPT ![g] = set] \in DeploymentFilters
    BY <1>1 DEF DeploymentFilters
  <2> QED  BY <2>2, <2>3
<1> QED  BY <1>2, <1>3

LEMMA DeploymentsMounted == DeploymentsInv(DeploymentList!Mounted)
<1>1. DefaultPageSize \in PageSizeOptions
  BY PageSizeAssumption
<1> QED  BY <1>1, DeploymentsFilters DEF DeploymentsInv, ListUi, DeploymentList!Mounted,
            DeploymentList!SortFields

\* Nothing the pager asks for is out of range, and only the search, the
\* filters and the size, which have the effects run, change what there is.
LEMMA DeploymentsStep ==
  ASSUME DeploymentsInv(ui), DeploymentList!DeploymentViewNext
  PROVE  DeploymentsInv(ui')
<1> DEFINE Ui == ListUi(DeploymentFilters, DeploymentList!SortFields,
             Len(DeploymentList!MockDeployments))
<1>1. /\ ui \in Ui /\ (ui.pageSizeOpen => ~ui.resetPending)
      /\ ~ui.resetPending => ui.page < DeploymentList!TotalPages(ui)
  BY DEF DeploymentsInv
<1>2. ui.pageSize \in Nat \ {0} /\ ui.page \in Nat
  <2>1. ui.pageSize \in PageSizeOptions /\ ui.page \in 0..Len(DeploymentList!MockDeployments)
    BY <1>1 DEF ListUi
  <2>2. Len(DeploymentList!MockDeployments) \in Nat
    BY DeploymentsData
  <2>3. ui.page \in Nat
    BY <2>1, <2>2
  <2>4. ui.pageSize \in Nat \ {0}
    <3>1. PageSizeOptions \subseteq Nat \ {0}
      BY PageSizeAssumption
    <3> QED  BY <2>1, <3>1
  <2> QED  BY <2>3, <2>4
<1>3. ASSUME NEW w \in Ui, w.resetPending, ~w.pageSizeOpen PROVE DeploymentsInv(w)
  BY <1>3 DEF DeploymentsInv
<1>4. ASSUME NEW w \in Ui, w.search = ui.search, w.filters = ui.filters,
             w.pageSize = ui.pageSize, w.page < DeploymentList!TotalPages(ui),
             w.pageSizeOpen => ~w.resetPending
      PROVE  DeploymentsInv(w)
  <2>1. DeploymentList!Matching(w) = DeploymentList!Matching(ui)
    BY <1>4, DeploymentsMatchAlike
  <2>2. DeploymentList!TotalPages(w) = DeploymentList!TotalPages(ui)
    BY <1>4, <2>1 DEF DeploymentList!TotalPages
  <2> QED  BY <1>4, <2>2 DEF DeploymentsInv
<1>5. ASSUME NEW text \in DOMAIN Occurs \cup {""}, DeploymentList!SearchFor(text)
      PROVE  DeploymentsInv(ui')
  <2>1. ui' \in Ui /\ ui'.resetPending /\ ~ui'.pageSizeOpen
    BY <1>1, <1>5 DEF ListUi, DeploymentList!SearchFor, DeploymentList!Idle
  <2> QED  BY <1>3, <2>1
<1>6. ASSUME NEW group \in DOMAIN DeploymentList!Options, NEW value \in DeploymentList!Options[group],
             DeploymentList!Idle, DeploymentList!ToggleFilter(group, value)
      PROVE  DeploymentsInv(ui')
  <2>1. PICK filters \in DeploymentFilters : ui'
               = [ui EXCEPT !.filters = filters, !.resetPending = TRUE]
    <3>1. ui.filters \in DeploymentFilters
      BY <1>1 DEF ListUi
    <3>2. [ui.filters EXCEPT ![group] = DeploymentList!Toggled(ui.filters[group], value)]
            \in DeploymentFilters
      BY <3>1, DeploymentsFilters
    <3> QED  BY <1>6, <3>2 DEF DeploymentList!ToggleFilter
  <2>2. ui' \in Ui /\ ui'.resetPending /\ ~ui'.pageSizeOpen
    BY <1>1, <1>6, <2>1 DEF ListUi, DeploymentList!Idle
  <2> QED  BY <1>3, <2>2
<1>7. ASSUME DeploymentList!ClearAllFilters \/ DeploymentList!ClearFilters PROVE DeploymentsInv(ui')
  <2>1. PICK filters \in DeploymentFilters : filters = DeploymentList!NoFilters
    BY DeploymentsFilters
  <2>2. ui' \in Ui /\ ui'.resetPending /\ ~ui'.pageSizeOpen
    BY <1>1, <1>7, <2>1 DEF ListUi, DeploymentList!ClearAllFilters, DeploymentList!ClearFilters,
       DeploymentList!Idle
  <2> QED  BY <1>3, <2>2
<1>8. ASSUME NEW drawer \in {"filterOpen", "sortOpen"},
             DeploymentList!OpenDrawer(drawer) \/ DeploymentList!CloseDrawer(drawer)
      PROVE  DeploymentsInv(ui')
  <2>1. /\ ui' \in Ui /\ ui'.search = ui.search /\ ui'.filters = ui.filters
        /\ ui'.pageSize = ui.pageSize /\ ui'.page = ui.page /\ ~ui'.resetPending /\ ~ui.resetPending
    BY <1>1, <1>8 DEF ListUi, DeploymentList!OpenDrawer, DeploymentList!CloseDrawer,
       DeploymentList!Idle
  <2> QED  BY <1>1, <1>4, <2>1
<1>9. ASSUME NEW mode, DeploymentList!ChooseView(mode) PROVE DeploymentsInv(ui')
  <2>1. /\ ui' \in Ui /\ ui'.search = ui.search /\ ui'.filters = ui.filters
        /\ ui'.pageSize = ui.pageSize /\ ui'.page = ui.page /\ ~ui'.resetPending /\ ~ui.resetPending
    BY <1>1, <1>9 DEF ListUi, DeploymentList!ChooseView, DeploymentList!Idle
  <2> QED  BY <1>1, <1>4, <2>1
<1>10. ASSUME NEW field, DeploymentList!ClickHeader(field) PROVE DeploymentsInv(ui')
  <2>1. /\ ui' \in Ui /\ ui'.search = ui.search /\ ui'.filters = ui.filters
        /\ ui'.pageSize = ui.pageSize /\ ui'.page = ui.page /\ ~ui'.resetPending /\ ~ui.resetPending
    BY <1>1, <1>10 DEF ListUi, DeploymentList!ClickHeader, DeploymentList!HandleSort,
       DeploymentList!Idle
  <2> QED  BY <1>1, <1>4, <2>1
<1>11. ASSUME NEW field, NEW direction, DeploymentList!ChooseSort(field, direction)
       PROVE  DeploymentsInv(ui')
  <2>1. /\ ui' \in Ui /\ ui'.search = ui.search /\ ui'.filters = ui.filters
        /\ ui'.pageSize = ui.pageSize /\ ui'.page = ui.page /\ ~ui'.resetPending /\ ~ui.resetPending
    BY <1>1, <1>11 DEF ListUi, DeploymentList!ChooseSort, DeploymentList!Idle
  <2> QED  BY <1>1, <1>4, <2>1
<1>12. ASSUME NEW page \in 0..Len(DeploymentList!MockDeployments), DeploymentList!GoToPage(page)
       PROVE  DeploymentsInv(ui')
  <2> DEFINE total == DeploymentList!TotalPages(ui)
             current == DeploymentList!Current(ui)
  <2>1. total \in Nat \ {0} /\ current \in 0..(total - 1)
    BY <1>2, DeploymentsPagesExist
  <2>2. page \in PageLinks(current, total) \cup {PreviousPage(current), NextPage(current, total)}
    BY <1>12, DeploymentsLists DEF DeploymentList!GoToPage
  <2> HIDE DEF total, current
  <2>3. PageLinks(current, total) \subseteq 0..(total - 1)
    BY <2>1, PagerTellsAll DEF PagerTellsPages
  <2>4. page < total
    BY <2>1, <2>2, <2>3 DEF PreviousPage, NextPage, Greatest, Least
  <2>5. /\ ui' \in Ui /\ ui'.search = ui.search /\ ui'.filters = ui.filters
        /\ ui'.pageSize = ui.pageSize /\ ui'.page = page /\ ~ui'.resetPending
    BY <1>1, <1>12 DEF ListUi, DeploymentList!GoToPage, DeploymentList!Idle
  <2> QED  BY <1>4, <2>4, <2>5 DEF total
<1>13. ASSUME DeploymentList!OpenPageSizes PROVE DeploymentsInv(ui')
  <2>1. /\ ui' \in Ui /\ ui'.search = ui.search /\ ui'.filters = ui.filters
        /\ ui'.pageSize = ui.pageSize /\ ui'.page = ui.page /\ ~ui'.resetPending /\ ~ui.resetPending
    BY <1>1, <1>13 DEF ListUi, DeploymentList!OpenPageSizes, DeploymentList!Idle
  <2> QED  BY <1>1, <1>4, <2>1
<1>14. ASSUME NEW size \in PageSizeOptions, DeploymentList!ChoosePageSize(size)
       PROVE  DeploymentsInv(ui')
  <2>1. /\ ui' \in Ui /\ ui'.search = ui.search /\ ui'.filters = ui.filters
        /\ ui'.pageSize = size /\ ui'.page = ui.page /\ ~ui'.pageSizeOpen
        /\ ui'.resetPending <=> size # ui.pageSize
        /\ ~ui.resetPending
    BY <1>1, <1>14 DEF ListUi, DeploymentList!ChoosePageSize
  <2>2. CASE size = ui.pageSize
    BY <1>1, <1>4, <2>1, <2>2
  <2>3. CASE size # ui.pageSize
    BY <1>3, <2>1, <2>3
  <2> QED  BY <2>2, <2>3
<1>15. ASSUME DeploymentList!ResetPage PROVE DeploymentsInv(ui')
  <2>1. DeploymentList!TotalPages(ui) \in Nat \ {0}
    BY <1>2, DeploymentsPagesExist
  <2>2. /\ ui' \in Ui /\ ui'.search = ui.search /\ ui'.filters = ui.filters
        /\ ui'.pageSize = ui.pageSize /\ ui'.page = 0 /\ ~ui'.resetPending
    <3>1. 0 \in 0..Len(DeploymentList!MockDeployments)
      BY DeploymentsData
    <3> QED  BY <1>1, <1>15, <3>1 DEF ListUi, DeploymentList!ResetPage
  <2> QED  BY <1>4, <2>1, <2>2
<1>16. ASSUME NEW group, NEW value, DeploymentList!ClickChip(group, value) PROVE DeploymentsInv(ui')
  <2>1. group \in DOMAIN DeploymentList!Options /\ value \in DeploymentList!Options[group]
    BY <1>16 DEF DeploymentList!ClickChip, DeploymentList!QuickFilters, DeploymentList!Options,
       DeploymentList!SyncStatuses, DeploymentList!HealthStatuses, DeploymentList!Elements
  <2> QED  BY <1>6, <1>16, <2>1 DEF DeploymentList!ClickChip
<1>17. ASSUME NEW group, NEW value, DeploymentList!TickFilter(group, value)
       PROVE  DeploymentsInv(ui')
  BY <1>6, <1>17 DEF DeploymentList!TickFilter
<1> QED  BY <1>5, <1>7, <1>8, <1>9, <1>10, <1>11, <1>12, <1>13, <1>14, <1>15, <1>16, <1>17
         DEF DeploymentList!DeploymentViewNext

\* Sorting the matches neither adds nor drops one.
LEMMA DeploymentsSorted ==
  ASSUME NEW v
  PROVE  /\ Len(DeploymentList!Filtered(v)) = Len(DeploymentList!Matching(v))
         /\ DeploymentList!Filtered(v) \in Seq(Elements(DeploymentList!Filtered(v)))
<1> DEFINE matching == DeploymentList!Matching(v)
           keys == [i \in DOMAIN matching |-> DeploymentList!SortKey(v.sortField, matching[i])]
<1>1. Len(matching) \in Nat /\ DOMAIN matching = 1..Len(matching)
  BY DeploymentsMatching
<1>2. DeploymentList!Filtered(v) = SortedBy(matching, keys, v.sortDirection)
  BY DeploymentsLists DEF DeploymentList!Filtered
<1> HIDE DEF matching, keys
<1>3. /\ SortedBy(matching, keys, v.sortDirection)
           \in Seq(Elements(SortedBy(matching, keys, v.sortDirection)))
      /\ Len(SortedBy(matching, keys, v.sortDirection)) = Len(matching)
  BY <1>1, SortedLength
<1> QED  BY <1>2, <1>3 DEF matching

\* Of a list that has matches the view shows some, and those the pager says.
LEMMA DeploymentsShown ==
  ASSUME NEW v, v.pageSize \in Nat \ {0}, v.page \in Nat
  PROVE  IsPageOf(DeploymentList!Paged(v), DeploymentList!Filtered(v),
                  DeploymentList!RangeShown(DeploymentList!Current(v), v.pageSize,
                    Len(DeploymentList!Matching(v))))
<1> DEFINE list == DeploymentList!Filtered(v)
           p == DeploymentList!Current(v)
           n == Len(DeploymentList!Matching(v))
<1>1. list \in Seq(Elements(list)) /\ Len(list) = n
  BY DeploymentsSorted
<1>2. p \in 0..(PageCount(Len(list), v.pageSize) - 1)
  BY <1>1, DeploymentsPagesExist
<1>3. DeploymentList!Paged(v) = PageOf(list, p, v.pageSize)
  BY DeploymentsLists DEF DeploymentList!Paged
<1>4. DeploymentList!RangeShown(p, v.pageSize, n) = RangeShown(p, v.pageSize, n)
  BY DeploymentsLists
<1> HIDE DEF list, p, n
<1>5. /\ PageOf(list, p, v.pageSize)
           = SubSeq(list, p * v.pageSize + 1, Least((p + 1) * v.pageSize, Len(list)))
      /\ list # <<>> => PageOf(list, p, v.pageSize) # <<>>
  BY <1>1, <1>2, PageIs
<1>6. /\ RangeShown(p, v.pageSize, n).start = p * v.pageSize + 1
      /\ RangeShown(p, v.pageSize, n).end = Least((p + 1) * v.pageSize, n)
  BY DEF RangeShown
<1> QED  BY <1>1, <1>3, <1>4, <1>5, <1>6 DEF IsPageOf, list, p, n

\* Whatever it is sorted by, the list can be sorted.
LEMMA DeploymentsKeys ==
  ASSUME NEW i \in 1..6, NEW field \in DeploymentList!SortFields
  PROVE  DeploymentList!SortKey(field, DeploymentList!MockDeployments[i]) \in Int
<1> DEFINE d == DeploymentList!MockDeployments[i]
<1>1. /\ d.name \in DeploymentList!Elements(DeploymentList!Collation)
      /\ d.targetCluster \in DeploymentList!Elements(DeploymentList!Collation)
      /\ d.syncStatus \in DeploymentList!Elements(DeploymentList!SyncOrder)
      /\ d.healthStatus \in DeploymentList!Elements(DeploymentList!HealthOrder)
      /\ d.lastSyncAt \in Int
  <2>1. i \in {1, 2, 3, 4, 5, 6}
    OBVIOUS
  <2>0. DeploymentList!Never \in Int
          /\ \A day, hour, minute \in Int : DeploymentList!At(day, hour, minute) \in Int
    BY DEF DeploymentList!At, DeploymentList!Never
  <2> DEFINE Sortable(e) ==
        /\ e.name \in {"checkout", "catalog", "gateway", "payments", "auth", "analytics"}
        /\ e.targetCluster \in {"prod (us)", "prod-eu (eu)"}
        /\ e.syncStatus \in {"Synced", "OutOfSync", "Syncing", "Unknown"}
        /\ e.healthStatus \in {"Healthy", "Degraded", "Progressing", "Unknown"}
        /\ e.lastSyncAt \in Int
  <2>2. Sortable(d)
    <3>1. Sortable(DeploymentList!MockDeployments[1])
      <4>1. DeploymentList!MockDeployments[1].lastSyncAt = DeploymentList!At(30, 6, 12)
        BY DEF DeploymentList!MockDeployments, DeploymentList!Dep
      <4>2. DeploymentList!MockDeployments[1].lastSyncAt \in Int
        BY <2>0, <4>1
      <4> QED  BY <4>2 DEF DeploymentList!MockDeployments, DeploymentList!Dep
    <3>2. Sortable(DeploymentList!MockDeployments[2])
      <4>1. DeploymentList!MockDeployments[2].lastSyncAt = DeploymentList!At(30, 4, 30)
        BY DEF DeploymentList!MockDeployments, DeploymentList!Dep
      <4>2. DeploymentList!MockDeployments[2].lastSyncAt \in Int
        BY <2>0, <4>1
      <4> QED  BY <4>2 DEF DeploymentList!MockDeployments, DeploymentList!Dep
    <3>3. Sortable(DeploymentList!MockDeployments[3])
      <4>1. DeploymentList!MockDeployments[3].lastSyncAt = DeploymentList!At(29, 22, 15)
        BY DEF DeploymentList!MockDeployments, DeploymentList!Dep
      <4>2. DeploymentList!MockDeployments[3].lastSyncAt \in Int
        BY <2>0, <4>1
      <4> QED  BY <4>2 DEF DeploymentList!MockDeployments, DeploymentList!Dep
    <3>4. Sortable(DeploymentList!MockDeployments[4])
      <4>1. DeploymentList!MockDeployments[4].lastSyncAt = DeploymentList!At(30, 7, 45)
        BY DEF DeploymentList!MockDeployments, DeploymentList!Dep
      <4>2. DeploymentList!MockDeployments[4].lastSyncAt \in Int
        BY <2>0, <4>1
      <4> QED  BY <4>2 DEF DeploymentList!MockDeployments, DeploymentList!Dep
    <3>5. Sortable(DeploymentList!MockDeployments[5])
      <4>1. DeploymentList!MockDeployments[5].lastSyncAt = DeploymentList!At(30, 9, 0)
        BY DEF DeploymentList!MockDeployments, DeploymentList!Dep
      <4>2. DeploymentList!MockDeployments[5].lastSyncAt \in Int
        BY <2>0, <4>1
      <4> QED  BY <4>2 DEF DeploymentList!MockDeployments, DeploymentList!Dep
    <3>6. Sortable(DeploymentList!MockDeployments[6])
      <4>1. DeploymentList!MockDeployments[6].lastSyncAt = DeploymentList!Never
        BY DEF DeploymentList!MockDeployments, DeploymentList!Dep
      <4>2. DeploymentList!MockDeployments[6].lastSyncAt \in Int
        BY <2>0, <4>1
      <4> QED  BY <4>2 DEF DeploymentList!MockDeployments, DeploymentList!Dep
    <3> HIDE DEF Sortable
    <3> QED  BY <2>1, <3>1, <3>2, <3>3, <3>4, <3>5, <3>6
  <2>3. \A s : \A k \in DOMAIN s : s[k] \in DeploymentList!Elements(s)
    BY DEF DeploymentList!Elements
  <2>4. {"checkout", "catalog", "gateway", "payments", "auth", "analytics", "prod (us)",
          "prod-eu (eu)"}
          \subseteq DeploymentList!Elements(DeploymentList!Collation)
    <3> DEFINE s == DeploymentList!Collation
    <3>1. {1, 4, 6, 9, 12, 15, 16, 17} \subseteq DOMAIN s
      BY DEF DeploymentList!Collation
    <3>2. /\ s[1] = "analytics" /\ s[4] = "auth" /\ s[6] = "catalog" /\ s[9] = "checkout"
          /\ s[12] = "gateway" /\ s[15] = "payments" /\ s[16] = "prod (us)"
               /\ s[17] = "prod-eu (eu)"
      BY DEF DeploymentList!Collation
    <3> HIDE DEF s
    <3> QED  BY <2>3, <3>1, <3>2, ZenonT(60) DEF s
  <2>5. {"Synced", "OutOfSync", "Syncing", "Unknown"}
          \subseteq DeploymentList!Elements(DeploymentList!SyncOrder)
    BY DEF DeploymentList!Elements, DeploymentList!SyncOrder
  <2>6. {"Healthy", "Degraded", "Progressing", "Unknown"}
          \subseteq DeploymentList!Elements(DeploymentList!HealthOrder)
    BY DEF DeploymentList!Elements, DeploymentList!HealthOrder
  <2> HIDE DEF d
  <2> QED  BY <2>2, <2>4, <2>5, <2>6
<1>2. \A s, x : DOMAIN s \subseteq Int /\ x \in DeploymentList!Elements(s)
        => DeploymentList!Position(s, x) \in Int
  BY DEF DeploymentList!Elements, DeploymentList!Position
<1>3. /\ DOMAIN DeploymentList!Collation \subseteq Int
           /\ DOMAIN DeploymentList!SyncOrder \subseteq Int
      /\ DOMAIN DeploymentList!HealthOrder \subseteq Int
  BY DEF DeploymentList!Collation, DeploymentList!SyncOrder, DeploymentList!HealthOrder
<1> HIDE DEF d
<1>4. DeploymentList!SortKey(field, d) \in Int
  BY <1>1, <1>2, <1>3 DEF DeploymentList!SortKey, DeploymentList!SortFields
<1> QED  BY <1>4 DEF d

\* The matches are sorted, each of them in one place.
LEMMA DeploymentsOrdered ==
  ASSUME NEW v, v.sortField \in DeploymentList!SortFields, v.sortDirection \in {"asc", "desc"}
  PROVE  /\ DeploymentList!Filtered(v) \in Seq(Elements(DeploymentList!Matching(v)))
         /\ Len(DeploymentList!Filtered(v)) = Len(DeploymentList!Matching(v))
         /\ Elements(DeploymentList!Filtered(v)) = Elements(DeploymentList!Matching(v))
         /\ \A i, j \in 1..Len(DeploymentList!Filtered(v)) :
              DeploymentList!Filtered(v)[i] = DeploymentList!Filtered(v)[j] => i = j
<1> DEFINE matching == DeploymentList!Matching(v)
           n == Len(matching)
           keys == [i \in 1..n |-> DeploymentList!SortKey(v.sortField, matching[i])]
           keep == {i \in 1..6 : DeploymentList!Matches(v, DeploymentList!MockDeployments[i])}
<1>1. PICK place : /\ Numbers(place, n, keep)
                   /\ matching = [k \in 1..n |-> DeploymentList!MockDeployments[place[k]]]
  BY DeploymentsMatching
<1>2. n \in Nat /\ DOMAIN matching = 1..n
  BY DeploymentsMatching, <1>1
<1>3. \A k \in 1..n : place[k] \in 1..6 /\ matching[k] = DeploymentList!MockDeployments[place[k]]
  BY <1>1 DEF Numbers
<1>4. \A k, l \in 1..n : matching[k] = matching[l] => k = l
  BY <1>1, <1>3, DeploymentsData, SMTT(30) DEF Numbers
<1>5. DeploymentList!Filtered(v) = SortedBy(matching, keys, v.sortDirection)
  BY <1>2, DeploymentsLists DEF DeploymentList!Filtered
<1> HIDE DEF matching, n
<1>6. keys \in [1..n -> Int]
  BY <1>3, DeploymentsKeys
<1> HIDE DEF keys
<1>7. IsSorting(DeploymentList!Filtered(v), matching, n, keys, v.sortDirection)
  BY <1>2, <1>5, <1>6, SortedIs
<1> DEFINE list == DeploymentList!Filtered(v)
<1> HIDE DEF list
<1>8. IsSorting(list, matching, n, keys, v.sortDirection)
  BY <1>7 DEF list
<1>9. /\ list \in Seq(Elements(matching)) /\ Len(list) = n
      /\ Elements(list) = Elements(matching)
      /\ \A i, j \in 1..n : list[i] = list[j] => i = j
  BY <1>2, <1>4, <1>8, SortedElements
<1> QED  BY <1>9 DEF list, matching, n

DeploymentsLeaves(v) ==
  [p \in 0..(DeploymentList!TotalPages(v) - 1)
    |-> DeploymentList!PageOf(DeploymentList!Filtered(v), p, v.pageSize)]

\* Leafing through the pages shows every match once.
LEMMA DeploymentsOnce ==
  ASSUME NEW v, v.sortField \in DeploymentList!SortFields, v.sortDirection \in {"asc", "desc"},
         v.pageSize \in Nat \ {0}
  PROVE  EachOnOnePage(DeploymentList!Matching(v), DeploymentsLeaves(v))
<1> DEFINE list == DeploymentList!Filtered(v)
           T == Elements(DeploymentList!Matching(v))
<1>1. /\ list \in Seq(T) /\ Elements(list) = T
      /\ Len(list) = Len(DeploymentList!Matching(v))
      /\ \A i, j \in 1..Len(list) : list[i] = list[j] => i = j
  BY DeploymentsOrdered
<1>2. DeploymentsLeaves(v) = PagesOf(list, v.pageSize)
  BY <1>1, DeploymentsLists, DeploymentsPagesExist DEF PagesOf, DeploymentsLeaves
<1> HIDE DEF list, T
<1>3. EachOnOnePage(list, PagesOf(list, v.pageSize))
  BY <1>1, OnOnePageOnly
<1>4. Elements(list) = Elements(DeploymentList!Matching(v))
  BY <1>1 DEF T
<1> QED  BY <1>2, <1>3, <1>4 DEF EachOnOnePage

(***************************************************************************)
(* The list of clusters.                                                   *)
(***************************************************************************)

\* The view has the lists and pages of Lists and Paging.
LEMMA ClustersLists ==
  /\ \A items, size : ClusterList!PageCount(items, size) = PageCount(items, size)
  /\ \A page, total : ClusterList!CurrentPage(page, total) = CurrentPage(page, total)
  /\ \A list, page, size : ClusterList!PageOf(list, page, size) = PageOf(list, page, size)
  /\ \A page, size, items : ClusterList!RangeShown(page, size, items)
       = RangeShown(page, size, items)
  /\ \A page, total : ClusterList!PageLinks(page, total) = PageLinks(page, total)
  /\ \A page : ClusterList!PreviousPage(page) = PreviousPage(page)
  /\ \A page, total : ClusterList!NextPage(page, total) = NextPage(page, total)
  /\ \A S : ClusterList!Cardinality(S) = Cardinality(S)
  /\ \A list, keep : ClusterList!Selected(list, keep) = Selected(list, keep)
  /\ \A list, keys, direction : ClusterList!SortedBy(list, keys, direction)
       = SortedBy(list, keys, direction)
  /\ \A list : ClusterList!Elements(list) = Elements(list)
<1>1. \A items, size : ClusterList!PageCount(items, size) = PageCount(items, size)
  BY DEF PageCount, Greatest, ClusterList!PageCount, ClusterList!Greatest
<1>2. \A page, total : ClusterList!CurrentPage(page, total) = CurrentPage(page, total)
  BY DEF CurrentPage, Least, ClusterList!CurrentPage, ClusterList!Least
<1>3. \A list, page, size : ClusterList!PageOf(list, page, size) = PageOf(list, page, size)
  BY DEF PageOf, Least, ClusterList!PageOf, ClusterList!Least
<1>4. \A page, size, items : ClusterList!RangeShown(page, size, items)
        = RangeShown(page, size, items)
  BY DEF RangeShown, Least, ClusterList!RangeShown, ClusterList!Least
<1>5. \A page, total : ClusterList!PageLinks(page, total) = PageLinks(page, total)
  BY DEF PageLinks, GetPageRange, Span, Ellipsis, Least, Greatest, ClusterList!PageLinks,
     ClusterList!GetPageRange, ClusterList!Span, ClusterList!Ellipsis, ClusterList!Least,
     ClusterList!Greatest
<1>6. \A page : ClusterList!PreviousPage(page) = PreviousPage(page)
  BY DEF PreviousPage, Greatest, ClusterList!PreviousPage, ClusterList!Greatest
<1>7. \A page, total : ClusterList!NextPage(page, total) = NextPage(page, total)
  BY DEF NextPage, Least, ClusterList!NextPage, ClusterList!Least
<1>8. \A S : ClusterList!Cardinality(S) = Cardinality(S)
  BY DEF Cardinality, ClusterList!Cardinality
<1>9. \A list, keep : ClusterList!Selected(list, keep) = Selected(list, keep)
  BY Zenon DEF Selected, Cardinality, ClusterList!Selected, ClusterList!Cardinality
<1>10. \A list, keys, direction : ClusterList!SortedBy(list, keys, direction)
         = SortedBy(list, keys, direction)
  BY Zenon DEF SortedBy, Cardinality, ClusterList!SortedBy, ClusterList!Cardinality
<1>11. \A list : ClusterList!Elements(list) = Elements(list)
  BY DEF Elements, ClusterList!Elements
<1> QED  BY <1>1, <1>2, <1>3, <1>4, <1>5, <1>6, <1>7, <1>8, <1>9, <1>10, <1>11

\* What is listed is what matches; how many depends on the search and the
\* filters alone.
LEMMA ClustersMatchAlike ==
  ASSUME NEW v, NEW w, v.search = w.search, v.filters = w.filters
  PROVE  ClusterList!Matching(v) = ClusterList!Matching(w)
BY DEF ClusterList!Matching, ClusterList!Matches, ClusterList!Filter

LEMMA ClustersData ==
  /\ Len(ClusterList!MockClusters) = 7 /\ DOMAIN ClusterList!MockClusters = 1..7
  /\ \A i, j \in 1..7 : ClusterList!MockClusters[i].id = ClusterList!MockClusters[j].id => i = j
<1>1. Len(ClusterList!MockClusters) = 7 /\ DOMAIN ClusterList!MockClusters = 1..7
  BY DEF ClusterList!MockClusters
<1>2. ClusterList!MockClusters[1].id = "1" /\ ClusterList!MockClusters[2].id = "2"
        /\ ClusterList!MockClusters[3].id = "3"
      /\ ClusterList!MockClusters[4].id = "4" /\ ClusterList!MockClusters[5].id = "5"
           /\ ClusterList!MockClusters[6].id = "6" /\ ClusterList!MockClusters[7].id = "7"
  BY DEF ClusterList!MockClusters, ClusterList!Cluster
<1> QED  BY <1>1, <1>2

LEMMA ClustersMatching ==
  ASSUME NEW v
  PROVE  /\ IsFiniteSet({i \in 1..7 : ClusterList!Matches(v, ClusterList!MockClusters[i])})
         /\ Len(ClusterList!Matching(v))
              = Cardinality({i \in 1..7 : ClusterList!Matches(v, ClusterList!MockClusters[i])})
         /\ Len(ClusterList!Matching(v)) \in 0..7
         /\ \E place :
              /\ Numbers(place, Len(ClusterList!Matching(v)),
                   {i \in 1..7 : ClusterList!Matches(v, ClusterList!MockClusters[i])})
              /\ ClusterList!Matching(v)
                   = [k \in 1..Len(ClusterList!Matching(v)) |-> ClusterList!MockClusters[place[k]]]
<1> DEFINE keep == {i \in 1..7 : ClusterList!Matches(v, ClusterList!MockClusters[i])}
<1>1. ClusterList!Matching(v) = Selected(ClusterList!MockClusters, keep)
  BY ClustersLists, ClustersData DEF ClusterList!Matching, ClusterList!Filter
<1>2. keep \in SUBSET (1..7) /\ 7 \in Nat
  OBVIOUS
<1> HIDE DEF keep
<1>3. IsSelection(ClusterList!Matching(v), ClusterList!MockClusters, 7, keep)
  BY <1>1, <1>2, SelectedAre
<1>4. IsFiniteSet(keep) /\ Cardinality(keep) \in 0..7
  BY <1>3 DEF IsSelection
<1>5. Len(ClusterList!Matching(v)) = Cardinality(keep)
  BY <1>3, <1>4 DEF IsSelection
<1> QED  BY <1>3, <1>4, <1>5 DEF keep, IsSelection

\* There is a page, and the one shown is among those there are.
LEMMA ClustersPagesExist ==
  ASSUME NEW v, v.pageSize \in Nat \ {0}
  PROVE  /\ ClusterList!TotalPages(v) = PageCount(Len(ClusterList!Matching(v)), v.pageSize)
         /\ ClusterList!TotalPages(v) \in Nat \ {0}
         /\ v.page \in Nat =>
              /\ ClusterList!Current(v) \in 0..(ClusterList!TotalPages(v) - 1)
              /\ v.page < ClusterList!TotalPages(v) => ClusterList!Current(v) = v.page
<1>1. Len(ClusterList!Matching(v)) \in Nat
  BY ClustersMatching
<1>2. ClusterList!TotalPages(v) = PageCount(Len(ClusterList!Matching(v)), v.pageSize)
  BY ClustersLists DEF ClusterList!TotalPages
<1>3. ClusterList!TotalPages(v) \in Nat \ {0}
  BY <1>1, <1>2, PagesSuffice
<1>4. ClusterList!Current(v) = CurrentPage(v.page, ClusterList!TotalPages(v))
  BY ClustersLists DEF ClusterList!Current
<1> QED  BY <1>2, <1>3, <1>4 DEF CurrentPage, Least

\* A filter that is ticked or dropped is one of those on offer.
LEMMA ClustersFilters ==
  /\ ClusterList!NoFilters \in ClusterFilters
  /\ \A f \in ClusterFilters : \A g \in DOMAIN ClusterList!Options : \A value \in ClusterList!Options[g] :
       [f EXCEPT ![g] = ClusterList!Toggled(f[g], value)] \in ClusterFilters
<1>1. DOMAIN ClusterList!Options = {"status", "provider"}
  BY DEF ClusterList!Options
<1>2. ClusterList!NoFilters \in ClusterFilters
  BY <1>1 DEF ClusterList!NoFilters, ClusterFilters
<1>3. ASSUME NEW f \in ClusterFilters, NEW g \in DOMAIN ClusterList!Options,
             NEW value \in ClusterList!Options[g]
      PROVE  [f EXCEPT ![g] = ClusterList!Toggled(f[g], value)] \in ClusterFilters
  <2>1. f[g] \in SUBSET ClusterList!Options[g]
    BY <1>1 DEF ClusterFilters
  <2>2. PICK set \in SUBSET ClusterList!Options[g] : set = ClusterList!Toggled(f[g], value)
    BY <2>1 DEF ClusterList!Toggled
  <2>3. [f EXCEPT ![g] = set] \in ClusterFilters
    BY <1>1 DEF ClusterFilters
  <2> QED  BY <2>2, <2>3
<1> QED  BY <1>2, <1>3

LEMMA ClustersMounted == ClustersInv(ClusterList!Mounted)
<1>1. DefaultPageSize \in PageSizeOptions
  BY PageSizeAssumption
<1> QED  BY <1>1, ClustersFilters DEF ClustersInv, ListUi, ClusterList!Mounted,
            ClusterList!SortFields

\* Nothing the pager asks for is out of range, and only the search, the
\* filters and the size, which have the effects run, change what there is.
LEMMA ClustersStep ==
  ASSUME ClustersInv(ui), ClusterList!ClusterViewNext
  PROVE  ClustersInv(ui')
<1> DEFINE Ui == ListUi(ClusterFilters, ClusterList!SortFields, Len(ClusterList!MockClusters))
<1>1. /\ ui \in Ui /\ (ui.pageSizeOpen => ~ui.resetPending)
      /\ ~ui.resetPending => ui.page < ClusterList!TotalPages(ui)
  BY DEF ClustersInv
<1>2. ui.pageSize \in Nat \ {0} /\ ui.page \in Nat
  <2>1. ui.pageSize \in PageSizeOptions /\ ui.page \in 0..Len(ClusterList!MockClusters)
    BY <1>1 DEF ListUi
  <2>2. Len(ClusterList!MockClusters) \in Nat
    BY ClustersData
  <2>3. ui.page \in Nat
    BY <2>1, <2>2
  <2>4. ui.pageSize \in Nat \ {0}
    <3>1. PageSizeOptions \subseteq Nat \ {0}
      BY PageSizeAssumption
    <3> QED  BY <2>1, <3>1
  <2> QED  BY <2>3, <2>4
<1>3. ASSUME NEW w \in Ui, w.resetPending, ~w.pageSizeOpen PROVE ClustersInv(w)
  BY <1>3 DEF ClustersInv
<1>4. ASSUME NEW w \in Ui, w.search = ui.search, w.filters = ui.filters,
             w.pageSize = ui.pageSize, w.page < ClusterList!TotalPages(ui),
             w.pageSizeOpen => ~w.resetPending
      PROVE  ClustersInv(w)
  <2>1. ClusterList!Matching(w) = ClusterList!Matching(ui)
    BY <1>4, ClustersMatchAlike
  <2>2. ClusterList!TotalPages(w) = ClusterList!TotalPages(ui)
    BY <1>4, <2>1 DEF ClusterList!TotalPages
  <2> QED  BY <1>4, <2>2 DEF ClustersInv
<1>5. ASSUME NEW text \in DOMAIN Occurs \cup {""}, ClusterList!SearchFor(text)
      PROVE  ClustersInv(ui')
  <2>1. ui' \in Ui /\ ui'.resetPending /\ ~ui'.pageSizeOpen
    BY <1>1, <1>5 DEF ListUi, ClusterList!SearchFor, ClusterList!Idle
  <2> QED  BY <1>3, <2>1
<1>6. ASSUME NEW group \in DOMAIN ClusterList!Options, NEW value \in ClusterList!Options[group],
             ClusterList!Idle, ClusterList!ToggleFilter(group, value)
      PROVE  ClustersInv(ui')
  <2>1. PICK filters \in ClusterFilters : ui'
               = [ui EXCEPT !.filters = filters, !.resetPending = TRUE]
    <3>1. ui.filters \in ClusterFilters
      BY <1>1 DEF ListUi
    <3>2. [ui.filters EXCEPT ![group] = ClusterList!Toggled(ui.filters[group], value)]
            \in ClusterFilters
      BY <3>1, ClustersFilters
    <3> QED  BY <1>6, <3>2 DEF ClusterList!ToggleFilter
  <2>2. ui' \in Ui /\ ui'.resetPending /\ ~ui'.pageSizeOpen
    BY <1>1, <1>6, <2>1 DEF ListUi, ClusterList!Idle
  <2> QED  BY <1>3, <2>2
<1>7. ASSUME ClusterList!ClearAllFilters \/ ClusterList!ClearFilters PROVE ClustersInv(ui')
  <2>1. PICK filters \in ClusterFilters : filters = ClusterList!NoFilters
    BY ClustersFilters
  <2>2. ui' \in Ui /\ ui'.resetPending /\ ~ui'.pageSizeOpen
    BY <1>1, <1>7, <2>1 DEF ListUi, ClusterList!ClearAllFilters, ClusterList!ClearFilters,
       ClusterList!Idle
  <2> QED  BY <1>3, <2>2
<1>8. ASSUME NEW drawer \in {"filterOpen", "sortOpen"},
             ClusterList!OpenDrawer(drawer) \/ ClusterList!CloseDrawer(drawer)
      PROVE  ClustersInv(ui')
  <2>1. /\ ui' \in Ui /\ ui'.search = ui.search /\ ui'.filters = ui.filters
        /\ ui'.pageSize = ui.pageSize /\ ui'.page = ui.page /\ ~ui'.resetPending /\ ~ui.resetPending
    BY <1>1, <1>8 DEF ListUi, ClusterList!OpenDrawer, ClusterList!CloseDrawer, ClusterList!Idle
  <2> QED  BY <1>1, <1>4, <2>1
<1>9. ASSUME NEW mode, ClusterList!ChooseView(mode) PROVE ClustersInv(ui')
  <2>1. /\ ui' \in Ui /\ ui'.search = ui.search /\ ui'.filters = ui.filters
        /\ ui'.pageSize = ui.pageSize /\ ui'.page = ui.page /\ ~ui'.resetPending /\ ~ui.resetPending
    BY <1>1, <1>9 DEF ListUi, ClusterList!ChooseView, ClusterList!Idle
  <2> QED  BY <1>1, <1>4, <2>1
<1>10. ASSUME NEW field, ClusterList!ClickHeader(field) PROVE ClustersInv(ui')
  <2>1. /\ ui' \in Ui /\ ui'.search = ui.search /\ ui'.filters = ui.filters
        /\ ui'.pageSize = ui.pageSize /\ ui'.page = ui.page /\ ~ui'.resetPending /\ ~ui.resetPending
    BY <1>1, <1>10 DEF ListUi, ClusterList!ClickHeader, ClusterList!HandleSort, ClusterList!Idle
  <2> QED  BY <1>1, <1>4, <2>1
<1>11. ASSUME NEW field, NEW direction, ClusterList!ChooseSort(field, direction)
       PROVE  ClustersInv(ui')
  <2>1. /\ ui' \in Ui /\ ui'.search = ui.search /\ ui'.filters = ui.filters
        /\ ui'.pageSize = ui.pageSize /\ ui'.page = ui.page /\ ~ui'.resetPending /\ ~ui.resetPending
    BY <1>1, <1>11 DEF ListUi, ClusterList!ChooseSort, ClusterList!Idle
  <2> QED  BY <1>1, <1>4, <2>1
<1>12. ASSUME NEW page \in 0..Len(ClusterList!MockClusters), ClusterList!GoToPage(page)
       PROVE  ClustersInv(ui')
  <2> DEFINE total == ClusterList!TotalPages(ui)
             current == ClusterList!Current(ui)
  <2>1. total \in Nat \ {0} /\ current \in 0..(total - 1)
    BY <1>2, ClustersPagesExist
  <2>2. page \in PageLinks(current, total) \cup {PreviousPage(current), NextPage(current, total)}
    BY <1>12, ClustersLists DEF ClusterList!GoToPage
  <2> HIDE DEF total, current
  <2>3. PageLinks(current, total) \subseteq 0..(total - 1)
    BY <2>1, PagerTellsAll DEF PagerTellsPages
  <2>4. page < total
    BY <2>1, <2>2, <2>3 DEF PreviousPage, NextPage, Greatest, Least
  <2>5. /\ ui' \in Ui /\ ui'.search = ui.search /\ ui'.filters = ui.filters
        /\ ui'.pageSize = ui.pageSize /\ ui'.page = page /\ ~ui'.resetPending
    BY <1>1, <1>12 DEF ListUi, ClusterList!GoToPage, ClusterList!Idle
  <2> QED  BY <1>4, <2>4, <2>5 DEF total
<1>13. ASSUME ClusterList!OpenPageSizes PROVE ClustersInv(ui')
  <2>1. /\ ui' \in Ui /\ ui'.search = ui.search /\ ui'.filters = ui.filters
        /\ ui'.pageSize = ui.pageSize /\ ui'.page = ui.page /\ ~ui'.resetPending /\ ~ui.resetPending
    BY <1>1, <1>13 DEF ListUi, ClusterList!OpenPageSizes, ClusterList!Idle
  <2> QED  BY <1>1, <1>4, <2>1
<1>14. ASSUME NEW size \in PageSizeOptions, ClusterList!ChoosePageSize(size) PROVE ClustersInv(ui')
  <2>1. /\ ui' \in Ui /\ ui'.search = ui.search /\ ui'.filters = ui.filters
        /\ ui'.pageSize = size /\ ui'.page = ui.page /\ ~ui'.pageSizeOpen
        /\ ui'.resetPending <=> size # ui.pageSize
        /\ ~ui.resetPending
    BY <1>1, <1>14 DEF ListUi, ClusterList!ChoosePageSize
  <2>2. CASE size = ui.pageSize
    BY <1>1, <1>4, <2>1, <2>2
  <2>3. CASE size # ui.pageSize
    BY <1>3, <2>1, <2>3
  <2> QED  BY <2>2, <2>3
<1>15. ASSUME ClusterList!ResetPage PROVE ClustersInv(ui')
  <2>1. ClusterList!TotalPages(ui) \in Nat \ {0}
    BY <1>2, ClustersPagesExist
  <2>2. /\ ui' \in Ui /\ ui'.search = ui.search /\ ui'.filters = ui.filters
        /\ ui'.pageSize = ui.pageSize /\ ui'.page = 0 /\ ~ui'.resetPending
    <3>1. 0 \in 0..Len(ClusterList!MockClusters)
      BY ClustersData
    <3> QED  BY <1>1, <1>15, <3>1 DEF ListUi, ClusterList!ResetPage
  <2> QED  BY <1>4, <2>1, <2>2
<1>16. ASSUME NEW status, ClusterList!ClickChip(status) PROVE ClustersInv(ui')
  <2>1. "status" \in DOMAIN ClusterList!Options /\ status \in ClusterList!Options["status"]
    BY <1>16 DEF ClusterList!ClickChip, ClusterList!QuickFilters, ClusterList!Options,
       ClusterList!ClusterStatuses, ClusterList!Elements
  <2> QED  BY <1>6, <1>16, <2>1 DEF ClusterList!ClickChip
<1>17. ASSUME NEW group, NEW value, ClusterList!TickFilter(group, value) PROVE ClustersInv(ui')
  BY <1>6, <1>17 DEF ClusterList!TickFilter
<1> QED  BY <1>5, <1>7, <1>8, <1>9, <1>10, <1>11, <1>12, <1>13, <1>14, <1>15, <1>16, <1>17
         DEF ClusterList!ClusterViewNext

\* Sorting the matches neither adds nor drops one.
LEMMA ClustersSorted ==
  ASSUME NEW v
  PROVE  /\ Len(ClusterList!Filtered(v)) = Len(ClusterList!Matching(v))
         /\ ClusterList!Filtered(v) \in Seq(Elements(ClusterList!Filtered(v)))
<1> DEFINE matching == ClusterList!Matching(v)
           keys == [i \in DOMAIN matching |-> ClusterList!SortKey(v.sortField, matching[i])]
<1>1. Len(matching) \in Nat /\ DOMAIN matching = 1..Len(matching)
  BY ClustersMatching
<1>2. ClusterList!Filtered(v) = SortedBy(matching, keys, v.sortDirection)
  BY ClustersLists DEF ClusterList!Filtered
<1> HIDE DEF matching, keys
<1>3. /\ SortedBy(matching, keys, v.sortDirection)
           \in Seq(Elements(SortedBy(matching, keys, v.sortDirection)))
      /\ Len(SortedBy(matching, keys, v.sortDirection)) = Len(matching)
  BY <1>1, SortedLength
<1> QED  BY <1>2, <1>3 DEF matching

\* Of a list that has matches the view shows some, and those the pager says.
LEMMA ClustersShown ==
  ASSUME NEW v, v.pageSize \in Nat \ {0}, v.page \in Nat
  PROVE  IsPageOf(ClusterList!Paged(v), ClusterList!Filtered(v),
                  ClusterList!RangeShown(ClusterList!Current(v), v.pageSize,
                    Len(ClusterList!Matching(v))))
<1> DEFINE list == ClusterList!Filtered(v)
           p == ClusterList!Current(v)
           n == Len(ClusterList!Matching(v))
<1>1. list \in Seq(Elements(list)) /\ Len(list) = n
  BY ClustersSorted
<1>2. p \in 0..(PageCount(Len(list), v.pageSize) - 1)
  BY <1>1, ClustersPagesExist
<1>3. ClusterList!Paged(v) = PageOf(list, p, v.pageSize)
  BY ClustersLists DEF ClusterList!Paged
<1>4. ClusterList!RangeShown(p, v.pageSize, n) = RangeShown(p, v.pageSize, n)
  BY ClustersLists
<1> HIDE DEF list, p, n
<1>5. /\ PageOf(list, p, v.pageSize)
           = SubSeq(list, p * v.pageSize + 1, Least((p + 1) * v.pageSize, Len(list)))
      /\ list # <<>> => PageOf(list, p, v.pageSize) # <<>>
  BY <1>1, <1>2, PageIs
<1>6. /\ RangeShown(p, v.pageSize, n).start = p * v.pageSize + 1
      /\ RangeShown(p, v.pageSize, n).end = Least((p + 1) * v.pageSize, n)
  BY DEF RangeShown
<1> QED  BY <1>1, <1>3, <1>4, <1>5, <1>6 DEF IsPageOf, list, p, n

\* Whatever it is sorted by, the list can be sorted.
LEMMA ClustersKeys ==
  ASSUME NEW i \in 1..7, NEW field \in ClusterList!SortFields
  PROVE  ClusterList!SortKey(field, ClusterList!MockClusters[i]) \in Int
<1> DEFINE c == ClusterList!MockClusters[i]
<1>1. /\ c.name \in ClusterList!Elements(ClusterList!ClusterCollation)
      /\ c.region \in ClusterList!Elements(ClusterList!ClusterCollation)
      /\ c.status \in ClusterList!Elements(ClusterList!StatusOrder)
      /\ c.nodeCount \in Int /\ c.lastSeen \in Int
  BY DEF ClusterList!MockClusters, ClusterList!Cluster, ClusterList!Elements,
     ClusterList!ClusterCollation,
     ClusterList!StatusOrder, ClusterList!At, ClusterList!Never
<1>2. \A s, x : DOMAIN s \subseteq Int /\ x \in ClusterList!Elements(s)
        => ClusterList!Position(s, x) \in Int
  BY DEF ClusterList!Elements, ClusterList!Position
<1>3. DOMAIN ClusterList!ClusterCollation \subseteq Int
        /\ DOMAIN ClusterList!StatusOrder \subseteq Int
  BY DEF ClusterList!ClusterCollation, ClusterList!StatusOrder
<1> HIDE DEF c
<1>4. ClusterList!SortKey(field, c) \in Int
  BY <1>1, <1>2, <1>3 DEF ClusterList!SortKey, ClusterList!SortFields
<1> QED  BY <1>4 DEF c

\* The matches are sorted, each of them in one place.
LEMMA ClustersOrdered ==
  ASSUME NEW v, v.sortField \in ClusterList!SortFields, v.sortDirection \in {"asc", "desc"}
  PROVE  /\ ClusterList!Filtered(v) \in Seq(Elements(ClusterList!Matching(v)))
         /\ Len(ClusterList!Filtered(v)) = Len(ClusterList!Matching(v))
         /\ Elements(ClusterList!Filtered(v)) = Elements(ClusterList!Matching(v))
         /\ \A i, j \in 1..Len(ClusterList!Filtered(v)) :
              ClusterList!Filtered(v)[i] = ClusterList!Filtered(v)[j] => i = j
<1> DEFINE matching == ClusterList!Matching(v)
           n == Len(matching)
           keys == [i \in 1..n |-> ClusterList!SortKey(v.sortField, matching[i])]
           keep == {i \in 1..7 : ClusterList!Matches(v, ClusterList!MockClusters[i])}
<1>1. PICK place : /\ Numbers(place, n, keep)
                   /\ matching = [k \in 1..n |-> ClusterList!MockClusters[place[k]]]
  BY ClustersMatching
<1>2. n \in Nat /\ DOMAIN matching = 1..n
  BY ClustersMatching, <1>1
<1>3. \A k \in 1..n : place[k] \in 1..7 /\ matching[k] = ClusterList!MockClusters[place[k]]
  BY <1>1 DEF Numbers
<1>4. \A k, l \in 1..n : matching[k] = matching[l] => k = l
  BY <1>1, <1>3, ClustersData, SMTT(30) DEF Numbers
<1>5. ClusterList!Filtered(v) = SortedBy(matching, keys, v.sortDirection)
  BY <1>2, ClustersLists DEF ClusterList!Filtered
<1> HIDE DEF matching, n
<1>6. keys \in [1..n -> Int]
  BY <1>3, ClustersKeys
<1> HIDE DEF keys
<1>7. IsSorting(ClusterList!Filtered(v), matching, n, keys, v.sortDirection)
  BY <1>2, <1>5, <1>6, SortedIs
<1> DEFINE list == ClusterList!Filtered(v)
<1> HIDE DEF list
<1>8. IsSorting(list, matching, n, keys, v.sortDirection)
  BY <1>7 DEF list
<1>9. /\ list \in Seq(Elements(matching)) /\ Len(list) = n
      /\ Elements(list) = Elements(matching)
      /\ \A i, j \in 1..n : list[i] = list[j] => i = j
  BY <1>2, <1>4, <1>8, SortedElements
<1> QED  BY <1>9 DEF list, matching, n

ClustersLeaves(v) ==
  [p \in 0..(ClusterList!TotalPages(v) - 1)
    |-> ClusterList!PageOf(ClusterList!Filtered(v), p, v.pageSize)]

\* Leafing through the pages shows every match once.
LEMMA ClustersOnce ==
  ASSUME NEW v, v.sortField \in ClusterList!SortFields, v.sortDirection \in {"asc", "desc"},
         v.pageSize \in Nat \ {0}
  PROVE  EachOnOnePage(ClusterList!Matching(v), ClustersLeaves(v))
<1> DEFINE list == ClusterList!Filtered(v)
           T == Elements(ClusterList!Matching(v))
<1>1. /\ list \in Seq(T) /\ Elements(list) = T
      /\ Len(list) = Len(ClusterList!Matching(v))
      /\ \A i, j \in 1..Len(list) : list[i] = list[j] => i = j
  BY ClustersOrdered
<1>2. ClustersLeaves(v) = PagesOf(list, v.pageSize)
  BY <1>1, ClustersLists, ClustersPagesExist DEF PagesOf, ClustersLeaves
<1> HIDE DEF list, T
<1>3. EachOnOnePage(list, PagesOf(list, v.pageSize))
  BY <1>1, OnOnePageOnly
<1>4. Elements(list) = Elements(ClusterList!Matching(v))
  BY <1>1 DEF T
<1> QED  BY <1>2, <1>3, <1>4 DEF EachOnOnePage

(***************************************************************************)
(* One deployment.                                                         *)
(***************************************************************************)
ComponentFilters ==
  [syncStatus : SUBSET OneDeployment!Options.syncStatus,
   healthStatus : SUBSET OneDeployment!Options.healthStatus]

LEMMA ComponentsFilters ==
  /\ OneDeployment!NoFilters \in ComponentFilters
  /\ \A f \in ComponentFilters : \A g \in DOMAIN OneDeployment!Options :
       \A value \in OneDeployment!Options[g] :
         [f EXCEPT ![g] = OneDeployment!Toggled(f[g], value)] \in ComponentFilters
<1>1. DOMAIN OneDeployment!Options = {"syncStatus", "healthStatus"}
  BY DEF OneDeployment!Options
<1>2. OneDeployment!NoFilters \in ComponentFilters
  BY <1>1 DEF OneDeployment!NoFilters, ComponentFilters
<1>3. ASSUME NEW f \in ComponentFilters, NEW g \in DOMAIN OneDeployment!Options,
             NEW value \in OneDeployment!Options[g]
      PROVE  [f EXCEPT ![g] = OneDeployment!Toggled(f[g], value)] \in ComponentFilters
  <2>1. f[g] \in SUBSET OneDeployment!Options[g]
    BY <1>1 DEF ComponentFilters
  <2>2. PICK set \in SUBSET OneDeployment!Options[g] : set = OneDeployment!Toggled(f[g], value)
    BY <2>1 DEF OneDeployment!Toggled
  <2>3. [f EXCEPT ![g] = set] \in ComponentFilters
    BY <1>1 DEF ComponentFilters
  <2> QED  BY <2>2, <2>3
<1> QED  BY <1>2, <1>3

LEMMA DeploymentMounted ==
  ASSUME NEW url
  PROVE  DeploymentInv(url, OneDeployment!Mounted(url[2]))
BY ComponentsFilters
   DEF DeploymentInv, ComponentFilters, OneDeployment!Mounted, OneDeployment!SortFields

LEMMA DeploymentStep ==
  ASSUME DeploymentInv(route, ui), OneDeployment!DeploymentDetailNext
  PROVE  DeploymentInv(route, ui')
<1> DEFINE Ui == [deployment : {route[2]}, viewMode : {"card", "list"},
                  search : DOMAIN Occurs \cup {""}, sortField : OneDeployment!SortFields,
                  sortDirection : {"asc", "desc"}, filterOpen : BOOLEAN, sortOpen : BOOLEAN,
                  filters : ComponentFilters]
<1>1. ui \in Ui
  BY DEF DeploymentInv, ComponentFilters
<1>2. SUFFICES ui' \in Ui
  BY DEF DeploymentInv, ComponentFilters
<1>3. ASSUME NEW text \in DOMAIN Occurs \cup {""}, OneDeployment!SearchFor(text) PROVE ui' \in Ui
  BY <1>1, <1>3 DEF OneDeployment!SearchFor
<1>4. ASSUME NEW group \in DOMAIN OneDeployment!Options, NEW value \in OneDeployment!Options[group],
             OneDeployment!ToggleFilter(group, value)
      PROVE  ui' \in Ui
  <2>1. PICK filters \in ComponentFilters : ui' = [ui EXCEPT !.filters = filters]
    <3>1. ui.filters \in ComponentFilters
      BY <1>1
    <3>2. [ui.filters EXCEPT ![group] = OneDeployment!Toggled(ui.filters[group], value)]
            \in ComponentFilters
      BY <3>1, ComponentsFilters
    <3> QED  BY <1>4, <3>2 DEF OneDeployment!ToggleFilter
  <2> QED  BY <1>1, <2>1
<1>5. ASSUME OneDeployment!ClearAllFilters \/ OneDeployment!ClearFilters PROVE ui' \in Ui
  <2>1. PICK filters \in ComponentFilters : filters = OneDeployment!NoFilters
    BY ComponentsFilters
  <2> QED  BY <1>1, <1>5, <2>1 DEF OneDeployment!ClearAllFilters, OneDeployment!ClearFilters
<1>6. ASSUME NEW drawer \in {"filterOpen", "sortOpen"},
             OneDeployment!OpenDrawer(drawer) \/ OneDeployment!CloseDrawer(drawer)
      PROVE  ui' \in Ui
  BY <1>1, <1>6 DEF OneDeployment!OpenDrawer, OneDeployment!CloseDrawer
<1>7. ASSUME NEW mode, OneDeployment!ChooseView(mode) PROVE ui' \in Ui
  BY <1>1, <1>7 DEF OneDeployment!ChooseView
<1>8. ASSUME NEW field, OneDeployment!ClickHeader(field) PROVE ui' \in Ui
  BY <1>1, <1>8 DEF OneDeployment!ClickHeader
<1>9. ASSUME NEW field, NEW direction, OneDeployment!ChooseSort(field, direction) PROVE ui' \in Ui
  BY <1>1, <1>9 DEF OneDeployment!ChooseSort
<1>10. ASSUME NEW group, NEW value, OneDeployment!ClickChip(group, value) PROVE ui' \in Ui
  <2>1. group \in DOMAIN OneDeployment!Options /\ value \in OneDeployment!Options[group]
    BY <1>10 DEF OneDeployment!ClickChip, OneDeployment!QuickFilters, OneDeployment!Options,
       OneDeployment!SyncStatuses, OneDeployment!HealthStatuses, OneDeployment!Elements
  <2> QED  BY <1>4, <1>10, <2>1 DEF OneDeployment!ClickChip
<1>11. ASSUME NEW group, NEW value, OneDeployment!TickFilter(group, value) PROVE ui' \in Ui
  BY <1>4, <1>11 DEF OneDeployment!TickFilter
<1> QED  BY <1>3, <1>5, <1>6, <1>7, <1>8, <1>9, <1>10, <1>11 DEF OneDeployment!DeploymentDetailNext

(***************************************************************************)
(* One component.                                                          *)
(***************************************************************************)
LEMMA ComponentMounted ==
  ASSUME NEW url
  PROVE  ComponentInv(url, OneComponent!Mounted(url[2], url[3]))
BY DEF ComponentInv, OneComponent!Mounted

\* Which editors exist depends on the open sections and the selection alone.
LEMMA EditorsAlike ==
  ASSUME NEW v, NEW w, v.deployment = w.deployment, v.component = w.component,
         v.yamlOpen = w.yamlOpen, v.selectedResource = w.selectedResource
  PROVE  OneComponent!Editors(v) = OneComponent!Editors(w)
<1>1. OneComponent!ResourcesOf(v) = OneComponent!ResourcesOf(w)
  BY DEF OneComponent!ResourcesOf, OneComponent!Component
<1> QED  BY <1>1 DEF OneComponent!Editors, OneComponent!IsOpen

LEMMA ComponentStep ==
  ASSUME ComponentInv(route, ui), OneComponent!ComponentDetailNext
  PROVE  ComponentInv(route, ui')
<1> DEFINE Ui(v) == [deployment : {route[2]}, component : {route[3]}, graphOpen : BOOLEAN,
                     podsOpen : BOOLEAN, yamlOpen : BOOLEAN,
                     selectedResource : {v.selectedResource}, manifestMode : {v.manifestMode}]
<1>1. ui \in Ui(ui) /\ ui.manifestMode \subseteq {r.id : r \in OneComponent!Editors(ui)}
  BY DEF ComponentInv
<1>2. ASSUME NEW v, v \in Ui(v), ui' = [v EXCEPT !.manifestMode = OneComponent!Remaining(v)]
      PROVE  ComponentInv(route, ui')
  <2>1. ui' \in Ui(ui') /\ ui'.manifestMode = OneComponent!Remaining(v)
    BY <1>2
  <2>2. OneComponent!Editors(ui') = OneComponent!Editors(v)
    BY <1>2, EditorsAlike
  <2> QED  BY <2>1, <2>2 DEF ComponentInv, OneComponent!Remaining
<1>3. ASSUME NEW section, OneComponent!ToggleSection(section) PROVE ComponentInv(route, ui')
  <2>1. PICK v : v = [ui EXCEPT ![section] = ~@]
               /\ ui' = [v EXCEPT !.manifestMode = OneComponent!Remaining(v)]
    BY <1>3 DEF OneComponent!ToggleSection
  <2>2. v \in Ui(v)
    BY <1>1, <1>3, <2>1 DEF OneComponent!ToggleSection, OneComponent!Sections
  <2> QED  BY <1>2, <2>1, <2>2
<1>4. ASSUME NEW r, OneComponent!SelectResource(r) PROVE ComponentInv(route, ui')
  <2>1. PICK v : /\ v = [ui EXCEPT !.selectedResource = IF @ = r.id THEN OneComponent!None ELSE r.id]
                 /\ ui' = [v EXCEPT !.manifestMode = OneComponent!Remaining(v)]
    BY <1>4 DEF OneComponent!SelectResource
  <2>2. v \in Ui(v)
    BY <1>1, <2>1
  <2> QED  BY <1>2, <2>1, <2>2
<1>5. ASSUME NEW r, NEW mode, OneComponent!SetMode(r, mode) PROVE ComponentInv(route, ui')
  <2>1. PICK set : /\ ui' = [ui EXCEPT !.manifestMode = set]
                   /\ set \subseteq ui.manifestMode \cup {r.id}
    BY <1>5 DEF OneComponent!SetMode
  <2>2. ui' \in Ui(ui') /\ ui'.manifestMode = set
    BY <1>1, <2>1
  <2>3. OneComponent!Editors(ui') = OneComponent!Editors(ui)
    BY <1>1, <2>1, EditorsAlike
  <2>4. r \in OneComponent!Editors(ui)
    BY <1>5 DEF OneComponent!SetMode
  <2> QED  BY <1>1, <2>1, <2>2, <2>3, <2>4 DEF ComponentInv
<1> QED  BY <1>3, <1>4, <1>5 DEF OneComponent!ComponentDetailNext

(***************************************************************************)
(* The platform.                                                           *)
(***************************************************************************)

\* Every page that is shown starts in the invariant.
LEMMA PageMounted ==
  ASSUME NEW url
  PROVE  PageInv(url, MountedAt(url))
<1>1. CASE Page(url) = "deployments"
  BY <1>1, DeploymentsMounted DEF MountedAt, PageInv
<1>2. CASE Page(url) = "clusters"
  BY <1>2, ClustersMounted DEF MountedAt, PageInv
<1>3. CASE Page(url) = "deployment"
  BY <1>3, DeploymentMounted DEF MountedAt, PageInv
<1>4. CASE Page(url) = "component"
  BY <1>4, ComponentMounted DEF MountedAt, PageInv
<1> QED  BY <1>1, <1>2, <1>3, <1>4 DEF PageInv

\* What a page does stays on the page.
LEMMA PlatformStep ==
  ASSUME PlatformInv, [Next]_vars
  PROVE  PlatformInv'
<1>1. ASSUME NEW url, Follow(url) \/ Visit(url) PROVE PlatformInv'
  BY <1>1, PageMounted DEF PlatformInv, Follow, Visit
<1>2. CASE OnPage("overview") /\ Home!OverviewNext
  BY <1>2 DEF PlatformInv, PageInv, OnPage
<1>3. CASE OnPage("deployments") /\ DeploymentList!DeploymentViewNext
  BY <1>3, DeploymentsStep DEF PlatformInv, PageInv, OnPage
<1>4. CASE OnPage("clusters") /\ ClusterList!ClusterViewNext
  BY <1>4, ClustersStep DEF PlatformInv, PageInv, OnPage
<1>5. CASE OnPage("deployment") /\ OneDeployment!DeploymentDetailNext
  BY <1>5, DeploymentStep DEF PlatformInv, PageInv, OnPage, DeploymentInv
<1>6. CASE OnPage("component") /\ OneComponent!ComponentDetailNext
  BY <1>6, ComponentStep DEF PlatformInv, PageInv, OnPage, ComponentInv
<1>7. CASE UNCHANGED vars
  BY <1>7 DEF PlatformInv, PageInv, vars
<1> QED  BY <1>1, <1>2, <1>3, <1>4, <1>5, <1>6, <1>7 DEF Next

\* The state of the view a page shows is the state its handlers leave it in.
THEOREM Views == Spec => []PlatformInv
<1>1. Init => PlatformInv
  BY PageMounted DEF Init, PlatformInv
<1>2. PlatformInv /\ [Next]_vars => PlatformInv'
  BY PlatformStep
<1> QED  BY <1>1, <1>2, PTL DEF Spec

\* What is chosen in a view is on offer there, and only editors that exist show
\* something else than at first.
THEOREM TypeCorrect == Spec => []TypeOK
<1>1. PlatformInv => TypeOK
  <2> SUFFICES ASSUME PlatformInv PROVE TypeOK
    OBVIOUS
  <2>1. Len(Data!MockDeployments \o ClusterList!MockClusters) = 13
    <3>0. Len(Data!MockDeployments) = 6 /\ DOMAIN Data!MockDeployments = 1..6
      BY DEF Data!MockDeployments
    <3>1. PICK S : Data!MockDeployments \in Seq(S)
      <4>1. PICK a, b, c, x, y, z : Data!MockDeployments = <<a, b, c, x, y, z>>
        BY ZenonT(60) DEF Data!MockDeployments
      <4>2. <<a, b, c, x, y, z>> \in Seq({a, b, c, x, y, z})
        OBVIOUS
      <4> QED  BY <4>1, <4>2
    <3>2. ClusterList!MockClusters \in Seq({ClusterList!MockClusters[i] : i \in 1..7})
            /\ Len(ClusterList!MockClusters) = 7
      BY DEF ClusterList!MockClusters
    <3>3. PICK T : ClusterList!MockClusters \in Seq(T)
      BY <3>2
    <3>4. Len(Data!MockDeployments \o ClusterList!MockClusters)
            = Len(Data!MockDeployments) + Len(ClusterList!MockClusters)
      BY <3>1, <3>3
    <3> QED  BY <3>0, <3>2, <3>4
  <2>2. ASSUME Page(route) = "deployments"
        PROVE  /\ \A g \in DOMAIN ui.filters : ui.filters[g] \subseteq DeploymentList!Options[g]
               /\ ui \in PagedUi({ui.filters})
    <3>1. ui \in ListUi(DeploymentFilters, DeploymentList!SortFields, 6)
      BY <2>2, DeploymentsData DEF PlatformInv, PageInv, DeploymentsInv
    <3>2. ui.filters \in DeploymentFilters
      BY <3>1 DEF ListUi
    <3>3. \A g \in DOMAIN ui.filters : ui.filters[g] \subseteq DeploymentList!Options[g]
      BY <3>2 DEF DeploymentFilters
    <3>4. ui \in ListUi({ui.filters}, DeploymentList!SortFields \cup ClusterList!SortFields, 13)
      <4> DEFINE v == [viewMode |-> ui.viewMode, search |-> ui.search, sortField |-> ui.sortField,
                       sortDirection |-> ui.sortDirection, page |-> ui.page, pageSize
                         |-> ui.pageSize,
                       pageSizeOpen |-> ui.pageSizeOpen, filterOpen |-> ui.filterOpen,
                       sortOpen |-> ui.sortOpen, filters |-> ui.filters, resetPending
                         |-> ui.resetPending]
      <4>1. ui = v
        BY <3>1 DEF ListUi
      <4>2. /\ ui.viewMode \in {"card", "list"} /\ ui.search \in DOMAIN Occurs \cup {""}
            /\ ui.sortField \in DeploymentList!SortFields /\ ui.sortDirection \in {"asc", "desc"}
            /\ ui.page \in 0..6 /\ ui.pageSize \in PageSizeOptions
            /\ ui.pageSizeOpen \in BOOLEAN /\ ui.filterOpen \in BOOLEAN
            /\ ui.sortOpen \in BOOLEAN /\ ui.resetPending \in BOOLEAN
        BY <3>1 DEF ListUi
      <4>3. ui.page \in 0..13
        <5>1. 0..6 \subseteq 0..13
          OBVIOUS
        <5> QED  BY <4>2, <5>1
      <4>4. v \in ListUi({ui.filters}, DeploymentList!SortFields \cup ClusterList!SortFields, 13)
        BY <4>2, <4>3 DEF ListUi
      <4> HIDE DEF v
      <4> QED  BY <4>1, <4>4
    <3> QED  BY <2>1, <3>3, <3>4 DEF ListUi, PagedUi
  <2>3. ASSUME Page(route) = "clusters"
        PROVE  /\ \A g \in DOMAIN ui.filters : ui.filters[g] \subseteq ClusterList!Options[g]
               /\ ui \in PagedUi({ui.filters})
    <3>1. ui \in ListUi(ClusterFilters, ClusterList!SortFields, 7)
      BY <2>3, ClustersData DEF PlatformInv, PageInv, ClustersInv
    <3>2. ui.filters \in ClusterFilters
      BY <3>1 DEF ListUi
    <3>3. \A g \in DOMAIN ui.filters : ui.filters[g] \subseteq ClusterList!Options[g]
      BY <3>2 DEF ClusterFilters
    <3>4. ui \in ListUi({ui.filters}, DeploymentList!SortFields \cup ClusterList!SortFields, 13)
      <4> DEFINE v == [viewMode |-> ui.viewMode, search |-> ui.search, sortField |-> ui.sortField,
                       sortDirection |-> ui.sortDirection, page |-> ui.page, pageSize
                         |-> ui.pageSize,
                       pageSizeOpen |-> ui.pageSizeOpen, filterOpen |-> ui.filterOpen,
                       sortOpen |-> ui.sortOpen, filters |-> ui.filters, resetPending
                         |-> ui.resetPending]
      <4>1. ui = v
        BY <3>1 DEF ListUi
      <4>2. /\ ui.viewMode \in {"card", "list"} /\ ui.search \in DOMAIN Occurs \cup {""}
            /\ ui.sortField \in ClusterList!SortFields /\ ui.sortDirection \in {"asc", "desc"}
            /\ ui.page \in 0..7 /\ ui.pageSize \in PageSizeOptions
            /\ ui.pageSizeOpen \in BOOLEAN /\ ui.filterOpen \in BOOLEAN
            /\ ui.sortOpen \in BOOLEAN /\ ui.resetPending \in BOOLEAN
        BY <3>1 DEF ListUi
      <4>3. ui.page \in 0..13
        <5>1. 0..7 \subseteq 0..13
          OBVIOUS
        <5> QED  BY <4>2, <5>1
      <4>4. v \in ListUi({ui.filters}, DeploymentList!SortFields \cup ClusterList!SortFields, 13)
        BY <4>2, <4>3 DEF ListUi
      <4> HIDE DEF v
      <4> QED  BY <4>1, <4>4
    <3> QED  BY <2>1, <3>3, <3>4 DEF ListUi, PagedUi
  <2>4. Page(route) = "component"
          => ui.manifestMode \subseteq {r.id : r \in OneComponent!Editors(ui)}
    BY DEF PlatformInv, PageInv, ComponentInv
  <2> QED  BY <2>2, <2>3, <2>4 DEF TypeOK
<1> QED  BY <1>1, Views, PTL

\* Whatever can make a list or its pages shorter goes back to the first page
\* (deployment-view.tsx and cluster-view.tsx, the effect on page).
THEOREM PagesInRange == Spec => []PageInRange
<1>1. PlatformInv => PageInRange
  BY DEF PlatformInv, PageInv, DeploymentsInv, ClustersInv, PageInRange
<1> QED  BY <1>1, Views, PTL

\* The size and the page of a view that is shown are numbers.
LEMMA PagedNumbers ==
  ASSUME PlatformInv
  PROVE  /\ Page(route) = "deployments" =>
              /\ ui.pageSize \in Nat \ {0} /\ ui.page \in Nat
              /\ ui.sortField \in DeploymentList!SortFields /\ ui.sortDirection \in {"asc", "desc"}
         /\ Page(route) = "clusters" =>
              /\ ui.pageSize \in Nat \ {0} /\ ui.page \in Nat
              /\ ui.sortField \in ClusterList!SortFields /\ ui.sortDirection \in {"asc", "desc"}
<1>1. PageSizeOptions \subseteq Nat \ {0}
  BY PageSizeAssumption
<1>2. ASSUME Page(route) = "deployments"
      PROVE  /\ ui.pageSize \in PageSizeOptions /\ ui.page \in 0..6
             /\ ui.sortField \in DeploymentList!SortFields /\ ui.sortDirection \in {"asc", "desc"}
  BY <1>2, DeploymentsData DEF PlatformInv, PageInv, DeploymentsInv, ListUi
<1>3. ASSUME Page(route) = "clusters"
      PROVE  /\ ui.pageSize \in PageSizeOptions /\ ui.page \in 0..7
             /\ ui.sortField \in ClusterList!SortFields /\ ui.sortDirection \in {"asc", "desc"}
  BY <1>3, ClustersData DEF PlatformInv, PageInv, ClustersInv, ListUi
<1>4. 0..6 \subseteq Nat /\ 0..7 \subseteq Nat
  OBVIOUS
<1> QED  BY <1>1, <1>2, <1>3, <1>4

\* A list that has matches shows some, and exactly those its pager says, also
\* while a page is asked for that is no longer there.
THEOREM AlwaysAPage == Spec => []ShownIsAPage
<1>1. PlatformInv => ShownIsAPage
  BY PagedNumbers, DeploymentsShown, ClustersShown DEF ShownIsAPage
<1> QED  BY <1>1, Views, PTL

\* Leafing through the pages of a list shows every match once, whatever it is
\* sorted by and however large its pages are.
THEOREM EachListedOnce == Spec => []ListedOnce
<1>1. \A list : Data!Elements(list) = Elements(list)
  BY DEF Data!Elements, Elements
<1>2. ASSUME PlatformInv PROVE ListedOnce
  <2> USE <1>2
  <2>1. ASSUME Page(route) = "deployments", NEW d \in Data!Elements(DeploymentList!Matching(ui))
        PROVE  OnOnePage(d, DeploymentsLeaves(ui))
    <3>1. EachOnOnePage(DeploymentList!Matching(ui), DeploymentsLeaves(ui))
      BY <2>1, PagedNumbers, DeploymentsOnce
    <3> QED  BY <1>1, <3>1 DEF OnOnePage, EachOnOnePage
  <2>2. ASSUME Page(route) = "clusters", NEW c \in Data!Elements(ClusterList!Matching(ui))
        PROVE  OnOnePage(c, ClustersLeaves(ui))
    <3>1. EachOnOnePage(ClusterList!Matching(ui), ClustersLeaves(ui))
      BY <2>2, PagedNumbers, ClustersOnce
    <3> QED  BY <1>1, <3>1 DEF OnOnePage, EachOnOnePage
  <2> QED  BY <2>1, <2>2 DEF ListedOnce, DeploymentsLeaves, ClustersLeaves
<1> QED  BY <1>2, Views, PTL

\* The pagers of both lists are the one of Paging (numbered-pagination.tsx:36),
\* so they tell all for every number of pages that may be asked for.
THEOREM PagersAreSound == Spec => []PagerSound
<1>1. \A current, total : DeploymentList!PagerTellsPages(current, total)
                           <=> PagerTellsPages(current, total)
  BY DEF PagerTellsPages, PageLinks, GetPageRange, Span, Greatest, Least, Ellipsis,
         DeploymentList!PagerTellsPages, DeploymentList!PageLinks, DeploymentList!GetPageRange,
         DeploymentList!Span, DeploymentList!Greatest, DeploymentList!Least, DeploymentList!Ellipsis
<1>2. PagerSound
  BY <1>1, TotalsAssumption, PagerTellsAll DEF PagerSound
<1> QED  BY <1>2, PTL

(***************************************************************************)
(* The data.                                                               *)
(***************************************************************************)

\* Every view shows the deployments there are, found and filtered alike.
LEMMA DeploymentListData ==
  /\ DeploymentList!MockDeployments = Data!MockDeployments
  /\ \A c : DeploymentList!MakeComponent(c) = Data!MakeComponent(c)
  /\ \A s, keep : DeploymentList!Selected(s, keep) = Selected(s, keep)
  /\ \A s, keep : Data!Selected(s, keep) = Selected(s, keep)
  /\ \A s : Data!Elements(s) = Elements(s)
  /\ \A s : DeploymentList!Elements(s) = Elements(s)
  /\ \A id : DeploymentList!GetDeployment(id) = Data!GetDeployment(id)
  /\ \A id, componentId : DeploymentList!GetComponent(id, componentId)
       = Data!GetComponent(id, componentId)
<1>1. \A c : DeploymentList!MakeComponent(c) = Data!MakeComponent(c)
  BY ZenonT(60)
     DEF Data!MakeComponent, Data!Resources, Data!Edges, Data!Workload, Data!Pods,
         Data!Networking, Data!Settings, Data!Resource, Data!Edge, Data!PodIds, Data!Elements,
         Data!YamlDeployment, Data!YamlDeploymentLive, Data!YamlService, Data!YamlIngress,
         Data!YamlConfigMap, Data!YamlHPA, DeploymentList!MakeComponent,
         DeploymentList!Resources, DeploymentList!Edges, DeploymentList!Workload,
         DeploymentList!Pods, DeploymentList!Networking, DeploymentList!Settings,
         DeploymentList!Resource, DeploymentList!Edge, DeploymentList!PodIds,
         DeploymentList!Elements, DeploymentList!YamlDeployment,
         DeploymentList!YamlDeploymentLive, DeploymentList!YamlService,
         DeploymentList!YamlIngress, DeploymentList!YamlConfigMap, DeploymentList!YamlHPA
<1>2. \A id, name, namespace, branch, type, policy, sync, health, at, image, replicas,
        extras, pods, drift :
        DeploymentList!Comp(id, name, namespace, branch, type, policy, sync, health, at,
                  image, replicas, extras, pods, drift)
          = Data!Comp(id, name, namespace, branch, type, policy, sync, health, at,
                  image, replicas, extras, pods, drift)
  BY <1>1 DEF DeploymentList!Comp, Data!Comp
<1>3. DeploymentList!MockDeployments = Data!MockDeployments
  BY <1>2, ZenonT(60)
     DEF Data!MockDeployments, Data!Dep, Data!At, Data!Never, Data!Everything,
         DeploymentList!MockDeployments, DeploymentList!Dep, DeploymentList!At,
         DeploymentList!Never, DeploymentList!Everything
<1>4. \A s, keep : DeploymentList!Selected(s, keep) = Selected(s, keep)
        /\ Data!Selected(s, keep) = Selected(s, keep)
  BY Zenon DEF Selected, Cardinality, DeploymentList!Selected, DeploymentList!Cardinality,
     Data!Selected, Data!Cardinality
<1>5. \A s : DeploymentList!Elements(s) = Elements(s) /\ Data!Elements(s) = Elements(s)
  BY DEF DeploymentList!Elements, Data!Elements, Elements
<1>6. \A id : DeploymentList!GetDeployment(id) = Data!GetDeployment(id)
  BY <1>3, <1>4
     DEF DeploymentList!GetDeployment, Data!GetDeployment, DeploymentList!Filter, Data!Filter
<1>7. \A id, componentId : DeploymentList!GetComponent(id, componentId)
        = Data!GetComponent(id, componentId)
  BY <1>4, <1>6
     DEF DeploymentList!GetComponent, Data!GetComponent, DeploymentList!Filter, Data!Filter
<1> QED  BY <1>1, <1>3, <1>4, <1>5, <1>6, <1>7

LEMMA OneDeploymentData ==
  /\ OneDeployment!MockDeployments = Data!MockDeployments
  /\ \A c : OneDeployment!MakeComponent(c) = Data!MakeComponent(c)
  /\ \A s, keep : OneDeployment!Selected(s, keep) = Selected(s, keep)
  /\ \A s : OneDeployment!Elements(s) = Elements(s)
  /\ \A id : OneDeployment!GetDeployment(id) = Data!GetDeployment(id)
  /\ \A id, componentId : OneDeployment!GetComponent(id, componentId)
       = Data!GetComponent(id, componentId)
<1>1. \A c : OneDeployment!MakeComponent(c) = Data!MakeComponent(c)
  BY ZenonT(60)
     DEF Data!MakeComponent, Data!Resources, Data!Edges, Data!Workload, Data!Pods,
         Data!Networking, Data!Settings, Data!Resource, Data!Edge, Data!PodIds, Data!Elements,
         Data!YamlDeployment, Data!YamlDeploymentLive, Data!YamlService, Data!YamlIngress,
         Data!YamlConfigMap, Data!YamlHPA, OneDeployment!MakeComponent,
         OneDeployment!Resources, OneDeployment!Edges, OneDeployment!Workload,
         OneDeployment!Pods, OneDeployment!Networking, OneDeployment!Settings,
         OneDeployment!Resource, OneDeployment!Edge, OneDeployment!PodIds,
         OneDeployment!Elements, OneDeployment!YamlDeployment,
         OneDeployment!YamlDeploymentLive, OneDeployment!YamlService,
         OneDeployment!YamlIngress, OneDeployment!YamlConfigMap, OneDeployment!YamlHPA
<1>2. \A id, name, namespace, branch, type, policy, sync, health, at, image, replicas,
        extras, pods, drift :
        OneDeployment!Comp(id, name, namespace, branch, type, policy, sync, health, at,
                  image, replicas, extras, pods, drift)
          = Data!Comp(id, name, namespace, branch, type, policy, sync, health, at,
                  image, replicas, extras, pods, drift)
  BY <1>1 DEF OneDeployment!Comp, Data!Comp
<1>3. OneDeployment!MockDeployments = Data!MockDeployments
  BY <1>2, ZenonT(60)
     DEF Data!MockDeployments, Data!Dep, Data!At, Data!Never, Data!Everything,
         OneDeployment!MockDeployments, OneDeployment!Dep, OneDeployment!At,
         OneDeployment!Never, OneDeployment!Everything
<1>4. \A s, keep : OneDeployment!Selected(s, keep) = Selected(s, keep)
        /\ Data!Selected(s, keep) = Selected(s, keep)
  BY Zenon DEF Selected, Cardinality, OneDeployment!Selected, OneDeployment!Cardinality,
     Data!Selected, Data!Cardinality
<1>5. \A s : OneDeployment!Elements(s) = Elements(s)
  BY DEF OneDeployment!Elements, Elements
<1>6. \A id : OneDeployment!GetDeployment(id) = Data!GetDeployment(id)
  BY <1>3, <1>4
     DEF OneDeployment!GetDeployment, Data!GetDeployment, OneDeployment!Filter, Data!Filter
<1>7. \A id, componentId : OneDeployment!GetComponent(id, componentId)
        = Data!GetComponent(id, componentId)
  BY <1>4, <1>6 DEF OneDeployment!GetComponent, Data!GetComponent, OneDeployment!Filter, Data!Filter
<1> QED  BY <1>1, <1>3, <1>4, <1>5, <1>6, <1>7

LEMMA OneComponentData ==
  /\ OneComponent!MockDeployments = Data!MockDeployments
  /\ \A c : OneComponent!MakeComponent(c) = Data!MakeComponent(c)
  /\ \A s, keep : OneComponent!Selected(s, keep) = Selected(s, keep)
  /\ \A s : OneComponent!Elements(s) = Elements(s)
  /\ \A id : OneComponent!GetDeployment(id) = Data!GetDeployment(id)
  /\ \A id, componentId : OneComponent!GetComponent(id, componentId)
       = Data!GetComponent(id, componentId)
<1>1. \A c : OneComponent!MakeComponent(c) = Data!MakeComponent(c)
  BY ZenonT(60)
     DEF Data!MakeComponent, Data!Resources, Data!Edges, Data!Workload, Data!Pods,
         Data!Networking, Data!Settings, Data!Resource, Data!Edge, Data!PodIds, Data!Elements,
         Data!YamlDeployment, Data!YamlDeploymentLive, Data!YamlService, Data!YamlIngress,
         Data!YamlConfigMap, Data!YamlHPA, OneComponent!MakeComponent, OneComponent!Resources,
         OneComponent!Edges, OneComponent!Workload, OneComponent!Pods, OneComponent!Networking,
         OneComponent!Settings, OneComponent!Resource, OneComponent!Edge, OneComponent!PodIds,
         OneComponent!Elements, OneComponent!YamlDeployment, OneComponent!YamlDeploymentLive,
         OneComponent!YamlService, OneComponent!YamlIngress, OneComponent!YamlConfigMap,
         OneComponent!YamlHPA
<1>2. \A id, name, namespace, branch, type, policy, sync, health, at, image, replicas,
        extras, pods, drift :
        OneComponent!Comp(id, name, namespace, branch, type, policy, sync, health, at,
                  image, replicas, extras, pods, drift)
          = Data!Comp(id, name, namespace, branch, type, policy, sync, health, at,
                  image, replicas, extras, pods, drift)
  BY <1>1 DEF OneComponent!Comp, Data!Comp
<1>3. OneComponent!MockDeployments = Data!MockDeployments
  BY <1>2, ZenonT(60)
     DEF Data!MockDeployments, Data!Dep, Data!At, Data!Never, Data!Everything,
         OneComponent!MockDeployments, OneComponent!Dep, OneComponent!At, OneComponent!Never,
         OneComponent!Everything
<1>4. \A s, keep : OneComponent!Selected(s, keep) = Selected(s, keep)
        /\ Data!Selected(s, keep) = Selected(s, keep)
  BY Zenon DEF Selected, Cardinality, OneComponent!Selected, OneComponent!Cardinality,
     Data!Selected, Data!Cardinality
<1>5. \A s : OneComponent!Elements(s) = Elements(s)
  BY DEF OneComponent!Elements, Elements
<1>6. \A id : OneComponent!GetDeployment(id) = Data!GetDeployment(id)
  BY <1>3, <1>4 DEF OneComponent!GetDeployment, Data!GetDeployment, OneComponent!Filter, Data!Filter
<1>7. \A id, componentId : OneComponent!GetComponent(id, componentId)
        = Data!GetComponent(id, componentId)
  BY <1>4, <1>6 DEF OneComponent!GetComponent, Data!GetComponent, OneComponent!Filter, Data!Filter
<1> QED  BY <1>1, <1>3, <1>4, <1>5, <1>6, <1>7

\* Which ids lead to a deployment, and that it is one of those there are.
LEMMA Found ==
  ASSUME NEW id
  PROVE  /\ Data!GetDeployment(id) # <<>> <=> \E k \in 1..6 : Data!MockDeployments[k].id = id
         /\ Data!GetDeployment(id) # <<>> =>
              \E k \in 1..6 : Data!GetDeployment(id)[1] = Data!MockDeployments[k]
<1> DEFINE keep == {i \in 1..6 : Data!MockDeployments[i].id = id}
<1>1. DOMAIN Data!MockDeployments = 1..6
  BY DeploymentsData, DeploymentListData
<1>2. Data!GetDeployment(id) = Selected(Data!MockDeployments, keep)
  BY <1>1, DeploymentListData DEF Data!GetDeployment, Data!Filter
<1>3. keep \in SUBSET (1..6) /\ 6 \in Nat
  OBVIOUS
<1>4. IsFiltered(Data!GetDeployment(id), Data!MockDeployments, keep)
  BY <1>2, <1>3, FilteredAre
<1> QED  BY <1>4 DEF IsFiltered

\* Every deployment has components, and each is found by its own id.
LEMMA Components ==
  ASSUME NEW k \in 1..6
  PROVE  \E n \in 1..2 : DOMAIN Data!MockDeployments[k].components = 1..n
<1>1. \E a, b : Data!MockDeployments[1].components = <<a, b>>
  BY DEF Data!MockDeployments, Data!Dep
<1>2. \E a, b : Data!MockDeployments[2].components = <<a, b>>
  BY DEF Data!MockDeployments, Data!Dep
<1>3. \E a, b : Data!MockDeployments[3].components = <<a, b>>
  BY DEF Data!MockDeployments, Data!Dep
<1>4. \E a, b : Data!MockDeployments[4].components = <<a, b>>
  BY DEF Data!MockDeployments, Data!Dep
<1>5. \E a : Data!MockDeployments[5].components = <<a>>
  BY DEF Data!MockDeployments, Data!Dep
<1>6. \E a : Data!MockDeployments[6].components = <<a>>
  BY DEF Data!MockDeployments, Data!Dep
<1>7. k = 1 \/ k = 2 \/ k = 3 \/ k = 4 \/ k = 5 \/ k = 6
  OBVIOUS
<1> QED  BY <1>1, <1>2, <1>3, <1>4, <1>5, <1>6, <1>7

LEMMA FoundComponents ==
  ASSUME NEW id, Data!GetDeployment(id) # <<>>
  PROVE  \E n \in Nat : DOMAIN Data!GetDeployment(id)[1].components = 1..n
<1>1. PICK k \in 1..6 : Data!GetDeployment(id)[1] = Data!MockDeployments[k]
  BY Found
<1>2. PICK n \in 1..2 : DOMAIN Data!MockDeployments[k].components = 1..n
  BY Components
<1> QED  BY <1>1, <1>2

LEMMA FoundComponent ==
  ASSUME NEW id, NEW componentId
  PROVE  Data!GetComponent(id, componentId) # <<>> <=>
           /\ Data!GetDeployment(id) # <<>>
           /\ \E c \in Elements(Data!GetDeployment(id)[1].components) : c.id = componentId
<1>1. CASE Data!GetDeployment(id) = <<>>
  BY <1>1 DEF Data!GetComponent, Data!Filter
<1>2. CASE Data!GetDeployment(id) # <<>>
  <2>1. PICK components : components = Data!GetDeployment(id)[1].components
    OBVIOUS
  <2>2. PICK n \in Nat : DOMAIN components = 1..n
    BY <1>2, <2>1, FoundComponents
  <2>3. PICK keep : keep = {i \in 1..n : components[i].id = componentId}
    OBVIOUS
  <2>4. Data!GetComponent(id, componentId) = Selected(components, keep)
    BY <1>2, <2>1, <2>2, <2>3, DeploymentListData DEF Data!GetComponent, Data!Filter
  <2>5. IsFiltered(Data!GetComponent(id, componentId), components, keep)
    BY <2>3, <2>4, FilteredAre
  <2>6. keep # {} <=> \E c \in Elements(components) : c.id = componentId
    BY <2>2, <2>3 DEF Elements
  <2> QED  BY <1>2, <2>1, <2>5, <2>6 DEF IsFiltered
<1> QED  BY <1>1, <1>2
(***************************************************************************)
(* Chips.                                                                  *)
(***************************************************************************)
LEMMA DeploymentsChip ==
  ASSUME DeploymentsInv(ui), ui.search = "", ui.filters = DeploymentList!NoFilters,
         NEW group, NEW value, DeploymentList!ClickChip(group, value)
  PROVE  Len(DeploymentList!Matching(ui')) = DeploymentList!ChipCount(group, value)
<1> DEFINE md == DeploymentList!MockDeployments
<1>1. group \in {"syncStatus", "healthStatus"}
  BY DEF DeploymentList!ClickChip, DeploymentList!QuickFilters
<1>2. PICK D : D = DOMAIN DeploymentList!Options /\ ui.filters = [g \in D |-> {}]
  BY DEF DeploymentList!NoFilters
<1>3. ui'.search = ""
        /\ ui'.filters = [ui.filters EXCEPT ![group] = DeploymentList!Toggled(@, value)]
  BY DEF DeploymentsInv, ListUi, DeploymentList!ClickChip, DeploymentList!ToggleFilter
<1>4. ui'.filters[group] = {value}
        /\ \A g \in DOMAIN DeploymentList!Options \ {group} : ui'.filters[g] = {}
  <2>1. DeploymentList!Toggled({}, value) = {value}
    BY DEF DeploymentList!Toggled
  <2>2. group \in D
    BY <1>1, <1>2 DEF DeploymentList!Options
  <2>3. \A g \in D : ui.filters[g] = {}
    BY <1>2
  <2>4. ui'.filters = [ui.filters EXCEPT ![group] = {value}]
    BY <1>3, <2>1, <2>2, <2>3
  <2> QED  BY <1>2, <2>2, <2>3, <2>4
<1>5. group \in DOMAIN DeploymentList!Options
  BY <1>1 DEF DeploymentList!Options
<1>6. \A d : DeploymentList!Matches(ui', d) <=> d[group] = value
  BY <1>3, <1>4, <1>5 DEF DeploymentList!Matches, DeploymentList!Passes
<1>7. DOMAIN md = 1..6
  BY DeploymentsData
<1>8. Len(DeploymentList!Matching(ui'))
        = Cardinality({i \in 1..6 : DeploymentList!Matches(ui', md[i])})
  BY DeploymentsMatching
<1> HIDE DEF md
<1>9. {i \in 1..6 : DeploymentList!Matches(ui', md[i])} = {i \in DOMAIN md : md[i][group] = value}
  BY <1>6, <1>7
<1> QED  BY <1>8, <1>9, DeploymentsLists DEF md, DeploymentList!ChipCount

LEMMA ClustersChip ==
  ASSUME ClustersInv(ui), ui.search = "", ui.filters = ClusterList!NoFilters,
         NEW status, ClusterList!ClickChip(status)
  PROVE  Len(ClusterList!Matching(ui')) = ClusterList!StatusCount(status)
<1> DEFINE mc == ClusterList!MockClusters
<1>1. PICK D : ui.filters = [g \in D |-> {}] /\ "status" \in D /\ "provider" \in D
  BY DEF ClusterList!NoFilters, ClusterList!Options
<1>2. ui'.search = ""
        /\ ui'.filters = [ui.filters EXCEPT !["status"] = ClusterList!Toggled(@, status)]
  BY DEF ClustersInv, ListUi, ClusterList!ClickChip, ClusterList!ToggleFilter
<1>3. ui'.filters.status = {status} /\ ui'.filters.provider = {}
  <2>1. ClusterList!Toggled({}, status) = {status}
    BY DEF ClusterList!Toggled
  <2>2. ui.filters["status"] = {} /\ ui.filters["provider"] = {}
    BY <1>1
  <2>3. ui'.filters = [ui.filters EXCEPT !["status"] = {status}]
    BY <1>2, <2>1, <2>2
  <2> QED  BY <1>1, <2>2, <2>3
<1>4. \A c : ClusterList!Matches(ui', c) <=> c.status = status
  BY <1>2, <1>3 DEF ClusterList!Matches, ClusterList!Passes
<1>5. DOMAIN mc = 1..7
  BY ClustersData
<1>6. Len(ClusterList!Matching(ui')) = Cardinality({i \in 1..7 : ClusterList!Matches(ui', mc[i])})
  BY ClustersMatching
<1> HIDE DEF mc
<1>7. {i \in 1..7 : ClusterList!Matches(ui', mc[i])} = {i \in DOMAIN mc : mc[i].status = status}
  BY <1>4, <1>5
<1> QED  BY <1>6, <1>7, ClustersLists DEF mc, ClusterList!StatusCount

LEMMA DeploymentChip ==
  ASSUME NEW id, Data!GetDeployment(id) # <<>>, DeploymentInv(<<"", id>>, ui),
         ui.search = "", ui.filters = OneDeployment!NoFilters,
         NEW group, NEW value, OneDeployment!ClickChip(group, value)
  PROVE  Len(OneDeployment!Matching(ui')) = OneDeployment!ChipCount(ui, group, value)
<1>1. group \in {"syncStatus", "healthStatus"}
  BY DEF OneDeployment!ClickChip, OneDeployment!QuickFilters
<1>2. PICK D : D = DOMAIN OneDeployment!Options /\ ui.filters = [g \in D |-> {}]
  BY DEF OneDeployment!NoFilters
<1>3. /\ ui'.search = "" /\ ui'.deployment = id /\ ui.deployment = id
      /\ ui'.filters = [ui.filters EXCEPT ![group] = OneDeployment!Toggled(@, value)]
  BY DEF DeploymentInv, OneDeployment!ClickChip, OneDeployment!ToggleFilter
<1>4. group \in D
  BY <1>1, <1>2 DEF OneDeployment!Options
<1>5. ui'.filters[group] = {value} /\ \A g \in D \ {group} : ui'.filters[g] = {}
  <2>1. OneDeployment!Toggled({}, value) = {value}
    BY DEF OneDeployment!Toggled
  <2>2. \A g \in D : ui.filters[g] = {}
    BY <1>2
  <2>3. ui'.filters = [ui.filters EXCEPT ![group] = {value}]
    BY <1>3, <1>4, <2>1, <2>2
  <2> QED  BY <1>2, <1>4, <2>2, <2>3
<1>6. \A c : OneDeployment!Matches(ui', c) <=> c[group] = value
  BY <1>2, <1>3, <1>4, <1>5 DEF OneDeployment!Matches, OneDeployment!Passes
<1>7. PICK components : components = Data!GetDeployment(id)[1].components
  OBVIOUS
<1>8. OneDeployment!Components(ui) = components /\ OneDeployment!Components(ui') = components
  BY <1>3, <1>7, OneDeploymentData DEF OneDeployment!Components
<1>9. PICK n \in Nat : DOMAIN components = 1..n
  BY <1>7, FoundComponents
<1>10. PICK keep : keep = {i \in 1..n : components[i][group] = value}
  OBVIOUS
<1>11. PICK list : list = Selected(components, keep)
  OBVIOUS
<1>12. OneDeployment!Matching(ui') = list
  BY <1>6, <1>8, <1>9, <1>10, <1>11, OneDeploymentData
     DEF OneDeployment!Matching, OneDeployment!Filter
<1>13. Len(list) = Cardinality(keep)
  BY <1>9, <1>10, <1>11, SelectedLength
<1>14. OneDeployment!Cardinality(keep) = Cardinality(keep)
  BY Zenon DEF Cardinality, OneDeployment!Cardinality
<1> QED  BY <1>8, <1>9, <1>10, <1>12, <1>13, <1>14 DEF OneDeployment!ChipCount

\* Whoever clicks a chip sees as many as it promised, on all three pages.
THEOREM ChipsTellCounts == Spec => ChipTellsCount
<1> DEFINE A ==
      /\ Page(route) = "deployments" /\ ui.search = "" /\ ui.filters = DeploymentList!NoFilters =>
           \A chip \in DeploymentList!QuickFilters :
             DeploymentList!ClickChip(chip[1], chip[2]) =>
               Len(DeploymentList!Matching(ui')) = DeploymentList!ChipCount(chip[1], chip[2])
      /\ Page(route) = "clusters" /\ ui.search = "" /\ ui.filters = ClusterList!NoFilters =>
           \A status \in ClusterList!QuickFilters :
             ClusterList!ClickChip(status) =>
               Len(ClusterList!Matching(ui')) = ClusterList!StatusCount(status)
      /\ Page(route) = "deployment" /\ ui.search = "" /\ ui.filters = OneDeployment!NoFilters =>
           \A chip \in OneDeployment!QuickFilters :
             OneDeployment!ClickChip(chip[1], chip[2]) =>
               Len(OneDeployment!Matching(ui')) = OneDeployment!ChipCount(ui, chip[1], chip[2])
<1>1. PlatformInv => A
  <2> SUFFICES ASSUME PlatformInv PROVE A
    OBVIOUS
  <2>1. Page(route) = "deployment" => DeploymentInv(<<"", route[2]>>, ui)
    BY DEF PlatformInv, PageInv, DeploymentInv
  <2>2. Page(route) = "deployment" => Data!GetDeployment(route[2]) # <<>>
    BY DEF Page, DeploymentPage, ComponentPage
  <2> QED  BY <2>1, <2>2, DeploymentsChip, ClustersChip, DeploymentChip DEF PlatformInv, PageInv
<1>2. PlatformInv /\ [Next]_vars => [A]_vars
  BY <1>1
<1>3. ChipTellsCount <=> [][A]_vars
  BY DEF ChipTellsCount
<1> QED  BY <1>2, <1>3, Views, PTL DEF Spec

\* An editor that was not there before compares, if there is something to.
LEMMA EditorOpened ==
  ASSUME PlatformInv, [Next]_vars, Page(route) = "component", route' = route,
         NEW r \in OneComponent!Editors(ui') \ OneComponent!Editors(ui)
  PROVE  r.id \notin ui'.manifestMode
<1>1. ComponentInv(route, ui)
  BY DEF PlatformInv, PageInv
<1>2. ASSUME NEW v, ui' = [v EXCEPT !.manifestMode = OneComponent!Remaining(v)],
             v.manifestMode = ui.manifestMode, v.deployment = ui.deployment,
             v.component = ui.component, "manifestMode" \in DOMAIN v
      PROVE  r.id \notin ui'.manifestMode
  <2>1. ui'.manifestMode \subseteq {e.id : e \in OneComponent!Editors(ui)}
    BY <1>1, <1>2 DEF ComponentInv, OneComponent!Remaining
  <2>2. r \in OneComponent!ResourcesOf(ui')
    BY DEF OneComponent!Editors
  <2>3. ASSUME NEW e \in OneComponent!Editors(ui), e.id = r.id PROVE FALSE
    <3>1. ui.yamlOpen /\ ui.selectedResource \in {OneComponent!None, r.id}
      BY <2>3 DEF OneComponent!Editors, OneComponent!IsOpen
    <3>2. OneComponent!ResourcesOf(ui') = OneComponent!ResourcesOf(ui)
      BY <1>2 DEF OneComponent!ResourcesOf, OneComponent!Component
    <3> QED  BY <2>2, <3>1, <3>2 DEF OneComponent!Editors, OneComponent!IsOpen
  <2> QED  BY <2>1, <2>3
<1>3. ASSUME NEW url, url = route, Visit(url) PROVE r.id \notin ui'.manifestMode
  BY <1>3 DEF Visit, MountedAt, OneComponent!Mounted
<1>4. ASSUME NEW section, OneComponent!ToggleSection(section) PROVE r.id \notin ui'.manifestMode
  <2>1. PICK v : v = [ui EXCEPT ![section] = ~@]
               /\ ui' = [v EXCEPT !.manifestMode = OneComponent!Remaining(v)]
    BY <1>4 DEF OneComponent!ToggleSection
  <2>2. section \in {"graphOpen", "podsOpen", "yamlOpen"}
    BY <1>4 DEF OneComponent!ToggleSection, OneComponent!Sections
  <2> QED  BY <1>1, <1>2, <2>1, <2>2 DEF ComponentInv
<1>5. ASSUME NEW s, OneComponent!SelectResource(s) PROVE r.id \notin ui'.manifestMode
  <2>1. PICK v : /\ v = [ui EXCEPT !.selectedResource = IF @ = s.id THEN OneComponent!None ELSE s.id]
                 /\ ui' = [v EXCEPT !.manifestMode = OneComponent!Remaining(v)]
    BY <1>5 DEF OneComponent!SelectResource
  <2> QED  BY <1>1, <1>2, <2>1 DEF ComponentInv
<1>6. ASSUME NEW s, NEW mode, OneComponent!SetMode(s, mode) PROVE FALSE
  <2>1. PICK set : ui' = [ui EXCEPT !.manifestMode = set]
    BY <1>6 DEF OneComponent!SetMode
  <2>2. OneComponent!Editors(ui') = OneComponent!Editors(ui)
    BY <1>1, <2>1, EditorsAlike DEF ComponentInv
  <2> QED  BY <2>2
<1>7. CASE UNCHANGED vars
  BY <1>7 DEF vars
<1>8. CASE OneComponent!ComponentDetailNext
  BY <1>4, <1>5, <1>6, <1>8 DEF OneComponent!ComponentDetailNext
<1>9. CASE \E url \in Urls : Visit(url)
  BY <1>3, <1>9 DEF Visit
<1>10. ~ \E url : Follow(url)
  BY DEF Follow
<1> QED  BY <1>7, <1>8, <1>9, <1>10 DEF Next, OnPage

\* A row of manifests that opens shows the drift first, if its resource drifted.
THEOREM DriftComesFirst == Spec => DriftIsShownFirst
<1> DEFINE A == Page(route) = "component" /\ route' = route =>
      \A r \in OneComponent!Editors(ui') \ OneComponent!Editors(ui) :
        OneComponent!Drifted(r) => Len(OneComponent!YamlEditor(ui', r)) = 2
<1>1. PlatformInv /\ [Next]_vars => [A]_vars
  <2> SUFFICES ASSUME PlatformInv, [Next]_vars, Page(route) = "component", route' = route,
                      NEW r \in OneComponent!Editors(ui') \ OneComponent!Editors(ui),
                      OneComponent!Drifted(r)
               PROVE  Len(OneComponent!YamlEditor(ui', r)) = 2
    OBVIOUS
  <2>1. OneComponent!YamlEditor(ui', r) = <<r.live[1], r.manifest>>
    BY EditorOpened DEF OneComponent!YamlEditor
  <2> QED  BY <2>1
<1>2. DriftIsShownFirst <=> [][A]_vars
  BY DEF DriftIsShownFirst
<1> QED  BY <1>1, <1>2, Views, PTL DEF Spec

(***************************************************************************)
(* Links.                                                                  *)
(***************************************************************************)

\* What a page of the list shows is some of the deployments.
LEMMA DeploymentsOnPage ==
  ASSUME NEW v, v.sortField \in DeploymentList!SortFields, v.sortDirection \in {"asc", "desc"},
         v.pageSize \in Nat \ {0}, v.page \in Nat,
         NEW d \in DeploymentList!Elements(DeploymentList!Paged(v))
  PROVE  \E k \in 1..6 : d = Data!MockDeployments[k]
<1>1. PICK T : T = Elements(DeploymentList!Matching(v))
  OBVIOUS
<1>2. PICK list : list = DeploymentList!Filtered(v)
  OBVIOUS
<1>3. list \in Seq(T) /\ Elements(list) = T /\ Len(list) = Len(DeploymentList!Matching(v))
  BY <1>1, <1>2, DeploymentsOrdered
<1>4. PICK p \in 0..(PageCount(Len(list), v.pageSize) - 1) : p = DeploymentList!Current(v)
  BY <1>3, DeploymentsPagesExist
<1>5. Elements(DeploymentList!Paged(v))
        = {list[i] : i \in {i \in 1..Len(list) : p * v.pageSize < i /\ i <= (p + 1) * v.pageSize}}
  <2>1. DeploymentList!Paged(v) = PageOf(list, p, v.pageSize)
    BY <1>2, <1>4, DeploymentsLists DEF DeploymentList!Paged
  <2> QED  BY <1>3, <1>4, <2>1, PageIs
<1>6. d \in T
  <2>1. d \in Elements(DeploymentList!Paged(v))
    BY DeploymentsLists
  <2>2. PICK i \in 1..Len(list) : d = list[i]
    BY <1>5, <2>1
  <2> QED  BY <1>3, <2>2
<1>7. PICK n, place :
        /\ place \in [1..n -> 1..6]
        /\ DeploymentList!Matching(v) = [k \in 1..n |-> DeploymentList!MockDeployments[place[k]]]
  <2>1. PICK place :
          /\ Numbers(place, Len(DeploymentList!Matching(v)),
               {i \in 1..6 : DeploymentList!Matches(v, DeploymentList!MockDeployments[i])})
          /\ DeploymentList!Matching(v)
               = [k \in 1..Len(DeploymentList!Matching(v))
                 |-> DeploymentList!MockDeployments[place[k]]]
    BY DeploymentsMatching
  <2>2. place \in [1..Len(DeploymentList!Matching(v)) -> 1..6]
    BY <2>1 DEF Numbers
  <2> QED  BY <2>1, <2>2
<1>8. PICK i \in 1..n : d = DeploymentList!MockDeployments[place[i]]
  BY <1>1, <1>6, <1>7 DEF Elements
<1> QED  BY <1>7, <1>8, DeploymentListData

\* Below the list of deployments a page is found for the ids that exist.
LEMMA PagesBelow ==
  ASSUME NEW id, NEW componentId
  PROVE  /\ Page(DeploymentUrl(id)) = DeploymentPage(id)
         /\ Page(ComponentUrl(id, componentId)) = ComponentPage(id, componentId)
<1>1. PICK one, two : one = DeploymentUrl(id) /\ two = ComponentUrl(id, componentId)
  OBVIOUS
<1>2. Len(one) = 2 /\ one[1] = "deployments" /\ one[2] = id
  BY <1>1 DEF DeploymentUrl
<1>3. Len(two) = 3 /\ two[1] = "deployments" /\ two[2] = id /\ two[3] = componentId
  BY <1>1 DEF ComponentUrl
<1>4. \A url : Len(url) \in {2, 3} =>
        url \notin {<<>>, DeploymentsUrl, <<"clusters">>, <<"login">>, <<"signup">>}
  BY DEF DeploymentsUrl
<1> QED  BY <1>1, <1>2, <1>3, <1>4 DEF Page

\* Below the list of deployments the ids of the page that is shown exist.
LEMMA PagesFound ==
  /\ Page(route) = "deployment" => Data!GetDeployment(route[2]) # <<>>
  /\ Page(route) = "component" => Data!GetComponent(route[2], route[3]) # <<>>
BY DEF Page, DeploymentPage, ComponentPage

\* What the content of a page links to is a page.
LEMMA LinksLead ==
  ASSUME PlatformInv, NEW url \in ContentLinks
  PROVE  Page(url) # "not found"
<1>1. CASE url \in Breadcrumbs(route)
  <2>1. CASE url = DeploymentsUrl
    BY <2>1 DEF Page, DeploymentsUrl
  <2>2. CASE Page(route) = "component" /\ url = DeploymentUrl(route[2])
    <3>1. Data!GetDeployment(route[2]) # <<>>
      BY <2>2, PagesFound, FoundComponent
    <3> QED  BY <2>2, <3>1, PagesBelow DEF DeploymentPage
  <2> QED  BY <1>1, <2>1, <2>2 DEF Breadcrumbs
<1>2. CASE Page(route) = "overview" /\ url = DeploymentsUrl
  BY <1>2 DEF Page, DeploymentsUrl
<1>3. ASSUME Page(route) = "deployments", NEW l \in DeploymentList!Links(ui), url = DeploymentUrl(l)
      PROVE  Page(url) # "not found"
  <2>1. PICK d \in DeploymentList!Elements(DeploymentList!Paged(ui)) : l = d.id
    BY <1>3 DEF DeploymentList!Links, DeploymentList!Card, DeploymentList!Row
  <2>2. PICK k \in 1..6 : d = Data!MockDeployments[k]
    BY <1>3, <2>1, PagedNumbers, DeploymentsOnPage
  <2>3. Data!GetDeployment(l) # <<>>
    BY <2>1, <2>2, Found
  <2> QED  BY <1>3, <2>3, PagesBelow DEF DeploymentPage
<1>4. ASSUME Page(route) = "deployment", NEW l \in OneDeployment!Links(ui), url
               = ComponentUrl(l[1], l[2])
      PROVE  Page(url) # "not found"
  <2>1. ui.deployment = route[2]
    BY <1>4 DEF PlatformInv, PageInv, DeploymentInv
  <2>2. PICK c \in OneDeployment!Elements(OneDeployment!Matching(ui)) : l = <<route[2], c.id>>
    BY <1>4, <2>1 DEF OneDeployment!Links, OneDeployment!Card, OneDeployment!Row
  <2>3. Data!GetDeployment(route[2]) # <<>>
    BY <1>4, PagesFound
  <2>4. PICK components : components = Data!GetDeployment(route[2])[1].components
    OBVIOUS
  <2>5. PICK n \in Nat : DOMAIN components = 1..n
    BY <2>3, <2>4, FoundComponents
  <2>6. PICK keep : /\ keep \in SUBSET (1..n)
                    /\ OneDeployment!Matching(ui) = Selected(components, keep)
    <3>1. OneDeployment!Components(ui) = components
      BY <2>1, <2>4, OneDeploymentData DEF OneDeployment!Components
    <3> QED  BY <2>5, <3>1, OneDeploymentData DEF OneDeployment!Matching, OneDeployment!Filter
  <2>7. IsFiltered(OneDeployment!Matching(ui), components, keep)
    BY <2>5, <2>6, FilteredAre
  <2>8. c \in Elements(components)
    <3>1. c \in Elements(OneDeployment!Matching(ui))
      BY <2>2, OneDeploymentData
    <3>2. PICK k \in keep : c = components[k]
      BY <2>7, <3>1 DEF IsFiltered
    <3> QED  BY <2>5, <2>6, <3>2 DEF Elements
  <2>9. Data!GetComponent(route[2], c.id) # <<>>
    BY <2>3, <2>4, <2>8, FoundComponent
  <2> QED  BY <1>4, <2>2, <2>9, PagesBelow DEF ComponentPage
<1>5. CASE url \in LoginLinks \cup SignupLinks
  <2>1. PICK s \in {"login", "signup"} : url = <<s>>
    BY <1>5 DEF LoginLinks, SignupLinks
  <2>2. url # <<>> /\ url[1] = s
    BY <2>1
  <2>3. Page(url) = s
    BY <2>1, <2>2 DEF Page, DeploymentsUrl
  <2> QED  BY <2>3
<1> QED  BY <1>1, <1>2, <1>3, <1>4, <1>5 DEF ContentLinks

LEMMA FirstSegment ==
  ASSUME NEW url
  PROVE  SubSeq(url, 1, 1) = <<url[1]>>
<1>1. PICK segment : segment = url[1]
  OBVIOUS
<1>2. SubSeq(url, 1, 1) = [i \in 1..1 |-> url[i]]
  OBVIOUS
<1>3. [i \in 1..1 |-> url[i]] = <<segment>>
  BY <1>1
<1> QED  BY <1>1, <1>2, <1>3

\* Where there is a sidebar one item of it is lit: below the list of
\* deployments that of the list.
LEMMA OneItemLit ==
  ASSUME HasSidebar
  PROVE  \E lit \in NavItems : {item \in NavItems : IsActive(item, route)} = {lit}
<1>1. CASE route = <<>>
  <2>1. IsActive(<<>>, route)
    BY <1>1 DEF IsActive
  <2>2. \A item \in NavItems : item # <<>> => ~ IsActive(item, route)
    BY <1>1 DEF IsActive, NavItems, DeploymentsUrl
  <2> QED  BY <2>1, <2>2 DEF NavItems
<1>2. ASSUME NEW segment \in {"deployments", "clusters"}, Len(route) \in 1..3, route[1] = segment
      PROVE  \E lit \in NavItems : {item \in NavItems : IsActive(item, route)} = {lit}
  <2>1. Len(<<>>) = 0 /\ route # <<>>
    BY <1>2
  <2>2. ASSUME NEW item \in NavItems PROVE IsActive(item, route) <=> item = <<segment>>
    <3>1. CASE item = <<>>
      BY <2>1, <3>1 DEF IsActive
    <3>2. ASSUME NEW s \in {"deployments", "clusters", "secrets", "settings"}, item = <<s>>
          PROVE  IsActive(item, route) <=> item = <<segment>>
      <4>1. Len(item) = 1 /\ item # <<>>
        BY <3>2
      <4>2. SubSeq(route, 1, 1) = <<segment>>
        BY <1>2, FirstSegment
      <4> QED  BY <1>2, <4>1, <4>2 DEF IsActive
    <3> QED  BY <3>1, <3>2 DEF NavItems, DeploymentsUrl
  <2>3. <<segment>> \in NavItems
    BY DEF NavItems, DeploymentsUrl
  <2> QED  BY <2>2, <2>3
<1>3. route = <<>> \/ (Len(route) \in 1..3 /\ route[1] \in {"deployments", "clusters"})
  BY DEF HasSidebar, Page, DeploymentsUrl, DeploymentPage, ComponentPage
<1> QED  BY <1>1, <1>2, <1>3

\* No page leads astray, and one item of the sidebar says where one is.
THEOREM NavigationSound == Spec => []NavigationIsSound
<1>1. ASSUME PlatformInv PROVE NavigationIsSound
  <2>1. HasSidebar => Cardinality({i \in NavItems : IsActive(i, route)}) = 1
    BY OneItemLit, FS_Singleton
  <2> QED  BY <1>1, <2>1, LinksLead DEF NavigationIsSound
<1> QED  BY <1>1, Views, PTL

(***************************************************************************)
(* The graph of the resources of a component.                              *)
(***************************************************************************)

\* The resources rs[1], .., rs[n] have ids of their own, and the edges are
\* between them, to a later layer unless they are those of config maps.
Drawable(rs, n, edges) ==
  /\ n \in Nat /\ Len(rs) = n /\ DOMAIN rs = 1..n
  /\ \A i, j \in 1..n : rs[i].id = rs[j].id => i = j
  /\ \A e \in edges : \E i, j \in 1..n :
       /\ rs[i].id = e.source /\ rs[j].id = e.target
       /\ e.type # "config" => OneComponent!Layer(rs[i].kind) < OneComponent!Layer(rs[j].kind)

LEMMA Layers ==
  ASSUME NEW kind
  PROVE  OneComponent!Layer(kind) \in 0..99
<1>1. CASE kind \in OneComponent!Elements(OneComponent!LayerOrder)
  <2>1. PICK order : order = OneComponent!LayerOrder
    OBVIOUS
  <2>2. DOMAIN order = 1..17
    BY <2>1 DEF OneComponent!LayerOrder
  <2>3. \E i \in DOMAIN order : order[i] = kind
    BY <1>1, <2>1 DEF OneComponent!Elements
  <2>4. OneComponent!Position(order, kind) \in 1..17
    BY <2>2, <2>3 DEF OneComponent!Position
  <2> QED  BY <1>1, <2>1, <2>4 DEF OneComponent!Layer
<1> QED  BY <1>1 DEF OneComponent!Layer

\* Later layers are in columns further to the right.
LEMMA Columns ==
  ASSUME NEW rs, NEW n, NEW edges, Drawable(rs, n, edges), NEW i \in 1..n, NEW j \in 1..n
  PROVE  /\ OneComponent!Column(rs, i) \in Nat
         /\ OneComponent!Layer(rs[i].kind) < OneComponent!Layer(rs[j].kind)
              => OneComponent!Column(rs, i) < OneComponent!Column(rs, j)
         /\ OneComponent!Column(rs, i) = OneComponent!Column(rs, j)
              => OneComponent!Layer(rs[i].kind) = OneComponent!Layer(rs[j].kind)
<1> DEFINE layer(k) == OneComponent!Layer(rs[k].kind)
<1>1. PICK layers : layers = {layer(k) : k \in 1..n}
  OBVIOUS
<1>2. layers \in SUBSET (0..99)
  BY <1>1, Layers
<1>3. IsFiniteSet(layers)
  <2>1. \A m \in Nat : IsFiniteSet(0..m)
    BY FS_Interval
  <2> QED  BY <1>2, <2>1, FS_Subset
<1>4. layers = {OneComponent!Layer(r.kind) : r \in OneComponent!Elements(rs)}
  BY <1>1 DEF Drawable, OneComponent!Elements
<1>5. PICK below : below = [l \in layers |-> {m \in layers : m < l}]
  OBVIOUS
<1>6. Chain(below, layers)
  <2>1. below \in [layers -> SUBSET layers] /\ \A l \in layers : l \notin below[l]
    BY <1>2, <1>5
  <2>2. ASSUME NEW k \in layers, NEW l \in layers, k < l
        PROVE  k \in below[l] /\ below[k] \subseteq below[l]
    <3>1. below[k] = {m \in layers : m < k} /\ below[l] = {m \in layers : m < l}
      BY <1>5
    <3>2. ASSUME NEW m \in layers, m < k PROVE m < l
      <4>1. m \in Int /\ k \in Int /\ l \in Int
        BY <1>2
      <4> QED  BY <2>2, <3>2, <4>1
    <3> QED  BY <2>2, <3>1, <3>2
  <2>3. \A k, l \in layers : k # l => k < l \/ l < k
    BY <1>2
  <2> QED  BY <2>1, <2>2, <2>3 DEF Chain
<1>7. Ranked(below, layers)
  BY <1>3, <1>6, Ranks
<1>8. ASSUME NEW k \in 1..n
      PROVE  layer(k) \in layers /\ OneComponent!Column(rs, k) = Cardinality(below[layer(k)])
  <2>1. layer(k) \in layers
    BY <1>1
  <2>2. OneComponent!Column(rs, k) = OneComponent!Cardinality({l \in layers : l < layer(k)})
    BY <1>4 DEF OneComponent!Column
  <2>3. \A S : OneComponent!Cardinality(S) = Cardinality(S)
    BY Zenon DEF Cardinality, OneComponent!Cardinality
  <2> QED  BY <1>5, <2>1, <2>2, <2>3
<1> HIDE DEF layer
<1>9. layer(i) < layer(j) => layer(i) \in below[layer(j)]
  BY <1>5, <1>8
<1>10. /\ OneComponent!Column(rs, i) \in Nat
       /\ layer(i) < layer(j) => OneComponent!Column(rs, i) < OneComponent!Column(rs, j)
       /\ OneComponent!Column(rs, i) = OneComponent!Column(rs, j) => layer(i) = layer(j)
  BY <1>7, <1>8, <1>9 DEF Ranked
<1> QED  BY <1>10 DEF layer

\* In a column every resource has a row of its own.
LEMMA Rows ==
  ASSUME NEW rs, NEW n, NEW edges, Drawable(rs, n, edges), NEW i \in 1..n, NEW j \in 1..n
  PROVE  /\ OneComponent!RowOffset(rs, i) \in Int
         /\ /\ OneComponent!Layer(rs[i].kind) = OneComponent!Layer(rs[j].kind)
            /\ OneComponent!RowOffset(rs, i) = OneComponent!RowOffset(rs, j)
            => i = j
<1>1. PICK mates \in SUBSET (1..n) : mates = OneComponent!LayerMates(rs, i)
  BY DEF Drawable, OneComponent!LayerMates
<1>2. n \in Nat
  BY DEF Drawable
<1>3. IsFiniteSet(mates)
  <2>1. IsFiniteSet(1..n)
    BY <1>2, FS_Interval
  <2> QED  BY <1>1, <2>1, FS_Subset
<1>4. PICK below : below = [k \in mates |-> {l \in mates : l < k}]
  OBVIOUS
<1>5. Chain(below, mates)
  <2>1. below \in [mates -> SUBSET mates] /\ \A l \in mates : l \notin below[l]
    BY <1>2, <1>4
  <2>2. ASSUME NEW k \in mates, NEW l \in mates, k < l
        PROVE  k \in below[l] /\ below[k] \subseteq below[l]
    <3>1. below[k] = {m \in mates : m < k} /\ below[l] = {m \in mates : m < l}
      BY <1>4
    <3>2. ASSUME NEW m \in mates, m < k PROVE m < l
      <4>1. m \in Int /\ k \in Int /\ l \in Int
        BY <1>2
      <4> QED  BY <2>2, <3>2, <4>1
    <3> QED  BY <2>2, <3>1, <3>2
  <2>3. \A k, l \in mates : k # l => k < l \/ l < k
    BY <1>2
  <2> QED  BY <2>1, <2>2, <2>3 DEF Chain
<1>6. Ranked(below, mates)
  BY <1>3, <1>5, Ranks
<1>7. PICK m \in Nat : m = Cardinality(mates)
  BY <1>3, FS_CardinalityType
<1>8. ASSUME NEW k \in 1..n, OneComponent!Layer(rs[k].kind) = OneComponent!Layer(rs[i].kind)
      PROVE  k \in mates /\ OneComponent!RowOffset(rs, k) = 2 * Cardinality(below[k]) - (m - 1)
  <2>1. OneComponent!LayerMates(rs, k) = mates
    BY <1>1, <1>8 DEF OneComponent!LayerMates
  <2>2. k \in mates
    BY <1>1, <1>8 DEF OneComponent!LayerMates, Drawable
  <2>3. \A S : OneComponent!Cardinality(S) = Cardinality(S)
    BY Zenon DEF Cardinality, OneComponent!Cardinality
  <2>4. OneComponent!RowOffset(rs, k)
          = 2 * Cardinality({l \in mates : l < k}) - (Cardinality(mates) - 1)
    BY <2>1, <2>3 DEF OneComponent!RowOffset
  <2> QED  BY <1>4, <1>7, <2>2, <2>4
<1>9. \A k \in mates : Cardinality(below[k]) \in Nat
  BY <1>6 DEF Ranked
<1>10. OneComponent!RowOffset(rs, i) \in Int
  BY <1>7, <1>8, <1>9
<1>11. ASSUME OneComponent!Layer(rs[i].kind) = OneComponent!Layer(rs[j].kind),
              OneComponent!RowOffset(rs, i) = OneComponent!RowOffset(rs, j)
       PROVE  i = j
  <2>1. i \in mates /\ j \in mates
    BY <1>8, <1>11
  <2>2. Cardinality(below[i]) = Cardinality(below[j])
    BY <1>7, <1>8, <1>9, <1>11, <2>1
  <2> QED  BY <1>6, <2>1, <2>2 DEF Ranked
<1> QED  BY <1>10, <1>11

\* The graph is readable: every resource has a node in a place of its own, and
\* every edge two ends, the second further to the right but for config maps.
Readable(rs, edges) ==
  LET nodes == Data!Elements(OneComponent!Nodes(rs))
      x(id) == (CHOOSE n \in nodes : n.id = id).position.x
  IN  /\ \A m, n \in nodes : m.position = n.position => m = n
      /\ Cardinality(nodes) = Len(rs)
      /\ \A e \in edges :
           /\ {e.source, e.target} \subseteq {n.id : n \in nodes}
           /\ e.type # "config" => x(e.source) < x(e.target)

LEMMA DrawnReadably ==
  ASSUME NEW rs, NEW n, NEW edges, Drawable(rs, n, edges)
  PROVE  Readable(rs, edges)
<1> DEFINE node(i) == OneComponent!ResourceNode(rs, i)
<1>1. n \in Nat /\ Len(rs) = n /\ DOMAIN rs = 1..n
  BY DEF Drawable
<1>2. PICK nodes : nodes = Data!Elements(OneComponent!Nodes(rs))
  OBVIOUS
<1>3. nodes = {node(i) : i \in 1..n}
  BY <1>1, <1>2 DEF Data!Elements, OneComponent!Nodes
<1>4. \A i \in 1..n :
        /\ node(i).id = rs[i].id
        /\ node(i).position.x = OneComponent!Column(rs, i) * 280
        /\ node(i).position.y = (OneComponent!RowOffset(rs, i) * 90) \div 2
  BY DEF OneComponent!ResourceNode, OneComponent!Position2D, OneComponent!HSpacing,
     OneComponent!VSpacing
<1> HIDE DEF node
<1>5. \A i, j \in 1..n : node(i).id = node(j).id => i = j
  BY <1>4 DEF Drawable
<1>6. ASSUME NEW i \in 1..n, NEW j \in 1..n, node(i).position = node(j).position
      PROVE  node(i) = node(j)
  <2>1. /\ OneComponent!Column(rs, i) * 280 = OneComponent!Column(rs, j) * 280
        /\ (OneComponent!RowOffset(rs, i) * 90) \div 2 = (OneComponent!RowOffset(rs, j) * 90) \div 2
    BY <1>4, <1>6
  <2>2. OneComponent!Column(rs, i) = OneComponent!Column(rs, j)
    BY <2>1, Columns
  <2>3. OneComponent!RowOffset(rs, i) = OneComponent!RowOffset(rs, j)
    <3>1. OneComponent!RowOffset(rs, i) \in Int /\ OneComponent!RowOffset(rs, j) \in Int
      BY Rows
    <3>2. \A y \in Int : (y * 90) \div 2 = y * 45
      OBVIOUS
    <3> QED  BY <2>1, <3>1, <3>2
  <2>4. OneComponent!Layer(rs[i].kind) = OneComponent!Layer(rs[j].kind)
    BY <2>2, Columns
  <2> QED  BY <2>3, <2>4, Rows
<1>7. Cardinality(nodes) = n
  <2>1. PICK f : f = [i \in 1..n |-> node(i)]
    OBVIOUS
  <2>2. f \in [1..n -> nodes] /\ \A m \in nodes : \E i \in 1..n : f[i] = m
    BY <1>3, <2>1
  <2>3. \A i, j \in 1..n : f[i] = f[j] => i = j
    BY <1>5, <2>1
  <2>4. f \in Bijection(1..n, nodes)
    BY <2>2, <2>3 DEF Bijection, Injection, Surjection, IsInjective
  <2>5. IsFiniteSet(1..n) /\ Cardinality(1..n) = n
    BY <1>1, FS_Interval
  <2> QED  BY <2>4, <2>5, FS_Bijection DEF ExistsBijection
<1> DEFINE x(id) == (CHOOSE m \in nodes : m.id = id).position.x
<1>8. ASSUME NEW i \in 1..n PROVE x(rs[i].id) = OneComponent!Column(rs, i) * 280
  <2>1. (CHOOSE m \in nodes : m.id = rs[i].id) = node(i)
    BY <1>3, <1>4, <1>5
  <2> QED  BY <1>4, <2>1
<1>9. ASSUME NEW e \in edges
      PROVE  /\ {e.source, e.target} \subseteq {m.id : m \in nodes}
             /\ e.type # "config" => x(e.source) < x(e.target)
  <2>1. PICK i \in 1..n, j \in 1..n :
          /\ rs[i].id = e.source /\ rs[j].id = e.target
          /\ e.type # "config" => OneComponent!Layer(rs[i].kind) < OneComponent!Layer(rs[j].kind)
    BY DEF Drawable
  <2>2. {e.source, e.target} \subseteq {m.id : m \in nodes}
    BY <1>3, <1>4, <2>1
  <2>3. e.type # "config" => OneComponent!Column(rs, i) < OneComponent!Column(rs, j)
    BY <2>1, Columns
  <2>4. OneComponent!Column(rs, i) \in Nat /\ OneComponent!Column(rs, j) \in Nat
    BY Columns
  <2>5. x(e.source) = OneComponent!Column(rs, i) * 280
          /\ x(e.target) = OneComponent!Column(rs, j) * 280
    BY <1>8, <2>1
  <2> HIDE DEF x
  <2> QED  BY <2>2, <2>3, <2>4, <2>5
<1>10. \A m, k \in nodes : m.position = k.position => m = k
  BY <1>3, <1>6
<1> QED  BY <1>1, <1>2, <1>7, <1>9, <1>10 DEF Readable

\* Which layers the kinds of the resources of a component are in.
LEMMA LayersOfKinds ==
  /\ OneComponent!Layer("Ingress") = 0 /\ OneComponent!Layer("HorizontalPodAutoscaler") = 1
  /\ OneComponent!Layer("Service") = 2 /\ OneComponent!Layer("Deployment") = 3
  /\ OneComponent!Layer("ReplicaSet") = 8 /\ OneComponent!Layer("Pod") = 9
<1>1. PICK order : order = OneComponent!LayerOrder
  OBVIOUS
<1>2. /\ DOMAIN order = 1..17
      /\ order[1] = "Ingress" /\ order[2] = "HorizontalPodAutoscaler" /\ order[3] = "Service"
      /\ order[4] = "Deployment" /\ order[9] = "ReplicaSet" /\ order[10] = "Pod"
  BY <1>1 DEF OneComponent!LayerOrder
<1>3. \A i, j \in 1..17 : order[i] = order[j] => i = j
  BY <1>1 DEF OneComponent!LayerOrder
<1>4. ASSUME NEW i \in 1..17 PROVE OneComponent!Layer(order[i]) = i - 1
  <2>1. OneComponent!Position(order, order[i]) = i
    BY <1>2, <1>3 DEF OneComponent!Position
  <2>2. order[i] \in OneComponent!Elements(order)
    BY <1>2 DEF OneComponent!Elements
  <2> QED  BY <1>1, <2>1, <2>2 DEF OneComponent!Layer
<1> QED  BY <1>2, <1>4

\* Resources with ids of their own.
Distinct(s) == \A i, j \in 1..Len(s) : s[i].id = s[j].id => i = j

Apart(s, t) == \A i \in 1..Len(s), j \in 1..Len(t) : s[i].id # t[j].id

\* Two lists of them without a common id make one.
LEMMA Concatenated ==
  ASSUME NEW U, NEW s \in Seq(U), NEW t \in Seq(U), Distinct(s), Distinct(t), Apart(s, t)
  PROVE  /\ s \o t \in Seq(U) /\ Distinct(s \o t)
         /\ Elements(s \o t) = Elements(s) \cup Elements(t)
<1>1. PICK m \in Nat : m = Len(s)
  OBVIOUS
<1>2. PICK n \in Nat : n = Len(t)
  OBVIOUS
<1>3. PICK st : st = s \o t
  OBVIOUS
<1>4. DOMAIN s = 1..m /\ DOMAIN t = 1..n
  BY <1>1, <1>2
<1>5. st \in Seq(U) /\ Len(st) = m + n /\ DOMAIN st = 1..(m + n)
  BY <1>1, <1>2, <1>3
<1>6. \A i \in 1..m : st[i] = s[i]
  BY <1>1, <1>3
<1>7. \A i \in 1..n : st[m + i] = t[i]
  BY <1>1, <1>2, <1>3
<1>8. ASSUME NEW i \in 1..(m + n)
      PROVE  \/ i \in 1..m /\ st[i] = s[i]
             \/ \E k \in 1..n : i = m + k /\ st[i] = t[k]
  <2>1. CASE i <= m
    BY <1>6, <2>1
  <2>2. CASE ~ i <= m
    <3>1. PICK k : k = i - m
      OBVIOUS
    <3>2. k \in 1..n /\ i = m + k
      BY <2>2, <3>1
    <3> QED  BY <1>7, <3>2
  <2> QED  BY <2>1, <2>2
<1>9. Distinct(st)
  <2>1. \A i, j \in 1..m : s[i].id = s[j].id => i = j
    BY <1>1 DEF Distinct
  <2>2. \A i, j \in 1..n : t[i].id = t[j].id => i = j
    BY <1>2 DEF Distinct
  <2>3. \A i \in 1..m, j \in 1..n : s[i].id # t[j].id
    BY <1>1, <1>2 DEF Apart
  <2> SUFFICES ASSUME NEW i \in 1..(m + n), NEW j \in 1..(m + n), st[i].id = st[j].id
               PROVE  i = j
    BY <1>5 DEF Distinct
  <2>4. CASE i \in 1..m /\ st[i] = s[i]
    BY <1>8, <2>1, <2>3, <2>4
  <2>5. ASSUME NEW k \in 1..n, i = m + k, st[i] = t[k] PROVE i = j
    <3>1. ASSUME NEW l \in 1..n, j = m + l, st[j] = t[l] PROVE i = j
      BY <2>2, <2>5, <3>1
    <3>2. ~ (j \in 1..m /\ st[j] = s[j])
      BY <2>3, <2>5
    <3> QED  BY <1>8, <3>1, <3>2
  <2> QED  BY <1>8, <2>4, <2>5
<1>10. Elements(st) = Elements(s) \cup Elements(t)
  <2>1. Elements(st) = {st[i] : i \in 1..(m + n)}
    BY <1>5 DEF Elements
  <2>2. Elements(s) = {s[i] : i \in 1..m} /\ Elements(t) = {t[i] : i \in 1..n}
    BY <1>4 DEF Elements
  <2>3. ASSUME NEW i \in 1..(m + n) PROVE st[i] \in Elements(s) \cup Elements(t)
    BY <1>8, <2>2
  <2>4. ASSUME NEW i \in 1..m PROVE s[i] \in Elements(st)
    <3>1. i \in 1..(m + n)
      OBVIOUS
    <3> QED  BY <1>6, <2>1, <3>1
  <2>5. ASSUME NEW i \in 1..n PROVE t[i] \in Elements(st)
    <3>1. m + i \in 1..(m + n)
      OBVIOUS
    <3> QED  BY <1>7, <2>1, <3>1
  <2> QED  BY <2>1, <2>2, <2>3, <2>4, <2>5
<1> QED  BY <1>3, <1>5, <1>9, <1>10

\* A part of the resources of a component: their ids say which.
IsPart(s, U, roles) ==
  /\ s \in Seq(U) /\ Distinct(s)
  /\ \A i \in 1..Len(s) : s[i].id[2] \in roles

AreOnePart(st, s, t, U, roles) ==
  IsPart(st, U, roles) /\ Elements(st) = Elements(s) \cup Elements(t)

LEMMA PartsMakeOne ==
  ASSUME NEW U, NEW s, NEW t, NEW these, NEW those, NEW st, st = s \o t,
         these \cap those = {}, IsPart(s, U, these), IsPart(t, U, those)
  PROVE  AreOnePart(st, s, t, U, these \cup those)
<1>1. s \in Seq(U) /\ t \in Seq(U) /\ Distinct(s) /\ Distinct(t)
  BY DEF IsPart
<1>2. Apart(s, t)
  BY DEF IsPart, Apart
<1>3. PICK u : u = s \o t
  OBVIOUS
<1>4. u \in Seq(U) /\ Distinct(u) /\ Elements(u) = Elements(s) \cup Elements(t)
  BY <1>1, <1>2, <1>3, Concatenated
<1>5. ASSUME NEW i \in 1..Len(u) PROVE u[i].id[2] \in these \cup those
  <2>1. u[i] \in Elements(u)
    BY <1>4 DEF Elements
  <2>2. CASE u[i] \in Elements(s)
    <3>1. PICK k \in 1..Len(s) : u[i] = s[k]
      BY <1>1, <2>2 DEF Elements
    <3> QED  BY <3>1 DEF IsPart
  <2>3. CASE u[i] \in Elements(t)
    <3>1. PICK k \in 1..Len(t) : u[i] = t[k]
      BY <1>1, <2>3 DEF Elements
    <3> QED  BY <3>1 DEF IsPart
  <2> QED  BY <1>4, <2>1, <2>2, <2>3
<1>6. IsPart(u, U, these \cup those)
  BY <1>4, <1>5 DEF IsPart
<1> QED  BY <1>3, <1>4, <1>6 DEF AreOnePart

LEMMA NoPart ==
  ASSUME NEW U, NEW roles
  PROVE  IsPart(<<>>, U, roles) /\ Elements(<<>>) = {}
<1>1. PICK s : s = <<>>
  OBVIOUS
<1>2. s \in Seq(U) /\ Len(s) = 0 /\ DOMAIN s = {}
  BY <1>1
<1> QED  BY <1>1, <1>2 DEF IsPart, Distinct, Elements

LEMMA PartOfOne ==
  ASSUME NEW U, NEW r \in U, NEW roles, r.id[2] \in roles
  PROVE  IsPart(<<r>>, U, roles) /\ Elements(<<r>>) = {r}
<1>1. PICK s : s = <<r>>
  OBVIOUS
<1>2. s \in Seq(U) /\ Len(s) = 1 /\ DOMAIN s = 1..1 /\ s[1] = r
  BY <1>1
<1>3. Elements(s) = {r}
  BY <1>2 DEF Elements
<1>4. IsPart(s, U, roles)
  BY <1>2 DEF IsPart, Distinct
<1> QED  BY <1>1, <1>3, <1>4

\* The resources makeComponent generates for a component, and their kinds.
Has(rs, id, kind) == \E r \in Elements(rs) : r.id = id /\ r.kind = kind

Generated(c, rs) ==
  /\ \E U : IsPart(rs, U, {"deploy", "rs", "pod", "svc", "ingress", "cm", "hpa"})
  /\ Has(rs, <<c.id, "deploy">>, "Deployment") /\ Has(rs, <<c.id, "rs">>, "ReplicaSet")
  /\ \A i \in 1..c.podCount : Has(rs, <<c.id, "pod", i>>, "Pod")
  /\ Has(rs, <<c.id, "svc">>, "Service")
  /\ c.hasIngress => Has(rs, <<c.id, "ingress">>, "Ingress")
  /\ c.hasConfigMap => Has(rs, <<c.id, "cm">>, "ConfigMap")
  /\ c.hasHPA => Has(rs, <<c.id, "hpa">>, "HorizontalPodAutoscaler")

LEMMA AllGenerated ==
  ASSUME NEW c, c.podCount \in Nat
  PROVE  Generated(c, OneComponent!Resources(c))
<1> DEFINE Is(r, role, kind) == r.id = <<c.id, role>> /\ r.kind = kind
           Made(r, role, kind) == \E status, sync, manifest, live :
             r = OneComponent!Resource(<<c.id, role>>, kind, status, sync, manifest, live)
<1>1. PICK deploy, rs :
        /\ OneComponent!Workload(c) = <<deploy, rs>>
        /\ Made(deploy, "deploy", "Deployment") /\ Made(rs, "rs", "ReplicaSet")
  BY Zenon DEF OneComponent!Workload
<1>2. PICK pods : pods = OneComponent!Pods(c)
  OBVIOUS
<1>3. /\ DOMAIN pods = 1..c.podCount /\ pods = [i \in 1..c.podCount |-> pods[i]]
      /\ \A i \in 1..c.podCount : pods[i].id = <<c.id, "pod", i>> /\ pods[i].kind = "Pod"
  BY <1>2 DEF OneComponent!Pods, OneComponent!PodIds, OneComponent!Resource
<1>4. PICK svc, ingress :
        /\ OneComponent!Networking(c) = <<svc>> \o IF c.hasIngress THEN <<ingress>> ELSE <<>>
        /\ Made(svc, "svc", "Service") /\ Made(ingress, "ingress", "Ingress")
  <2>1. PICK manifest : manifest = OneComponent!YamlService(c.name, 8080)
    OBVIOUS
  <2>2. OneComponent!Networking(c) =
          << OneComponent!Resource(<<c.id, "svc">>, "Service", "Healthy", c.syncStatus, manifest,
            <<>>) >>
          \o IF c.hasIngress
             THEN << OneComponent!Resource(<<c.id, "ingress">>, "Ingress", "Healthy", c.syncStatus,
                                           OneComponent!YamlIngress(c.name, c.name), <<>>) >>
             ELSE <<>>
    BY <2>1 DEF OneComponent!Networking
  <2> QED  BY Zenon, <2>2
<1>5. PICK cm, hpa :
        /\ OneComponent!Settings(c) = (IF c.hasConfigMap THEN <<cm>> ELSE <<>>)
                                      \o IF c.hasHPA THEN <<hpa>> ELSE <<>>
        /\ Made(cm, "cm", "ConfigMap") /\ Made(hpa, "hpa", "HorizontalPodAutoscaler")
  BY Zenon DEF OneComponent!Settings
<1>6. /\ Is(deploy, "deploy", "Deployment") /\ Is(rs, "rs", "ReplicaSet")
      /\ Is(svc, "svc", "Service") /\ Is(ingress, "ingress", "Ingress")
      /\ Is(cm, "cm", "ConfigMap") /\ Is(hpa, "hpa", "HorizontalPodAutoscaler")
  <2>1. \A r, role, kind : Made(r, role, kind) => Is(r, role, kind)
    BY DEF OneComponent!Resource
  <2> HIDE DEF Made, Is
  <2> QED  BY <1>1, <1>4, <1>5, <2>1
<1>7. /\ deploy.id[2] = "deploy" /\ rs.id[2] = "rs" /\ svc.id[2] = "svc"
      /\ ingress.id[2] = "ingress" /\ cm.id[2] = "cm" /\ hpa.id[2] = "hpa"
  BY <1>6
<1> HIDE DEF Made
<1>8. PICK ingresses : ingresses = IF c.hasIngress THEN <<ingress>> ELSE <<>>
  OBVIOUS
<1>9. PICK maps : maps = IF c.hasConfigMap THEN <<cm>> ELSE <<>>
  OBVIOUS
<1>10. PICK scalers : scalers = IF c.hasHPA THEN <<hpa>> ELSE <<>>
  OBVIOUS
<1>11. OneComponent!Resources(c)
         = <<deploy, rs>> \o pods \o (<<svc>> \o ingresses) \o (maps \o scalers)
  BY <1>1, <1>2, <1>4, <1>5, <1>8, <1>9, <1>10 DEF OneComponent!Resources
<1>12. PICK U : {deploy, rs, svc, ingress, cm, hpa} \cup Elements(pods) \subseteq U
  OBVIOUS
<1>13. IsPart(<<deploy, rs>>, U, {"deploy", "rs"}) /\ Elements(<<deploy, rs>>) = {deploy, rs}
  <2>1. PICK s : s = <<deploy, rs>>
    OBVIOUS
  <2>2. s \in Seq(U) /\ Len(s) = 2 /\ DOMAIN s = 1..2 /\ s[1] = deploy /\ s[2] = rs
    BY <1>12, <2>1
  <2>3. \A i \in 1..2 : i = 1 \/ i = 2
    OBVIOUS
  <2> QED  BY <1>7, <2>1, <2>2, <2>3 DEF IsPart, Distinct, Elements
<1>14. IsPart(pods, U, {"pod"})
  <2>1. pods \in Seq(U) /\ Len(pods) = c.podCount
    BY <1>3, <1>12 DEF Elements
  <2>2. ASSUME NEW i \in 1..c.podCount PROVE pods[i].id[2] = "pod" /\ pods[i].id[3] = i
    <3>1. PICK id : id = <<c.id, "pod", i>>
      OBVIOUS
    <3>2. id[2] = "pod" /\ id[3] = i
      BY <3>1
    <3> QED  BY <1>3, <3>1, <3>2
  <2> QED  BY <2>1, <2>2 DEF IsPart, Distinct
<1>15. IsPart(<<svc>>, U, {"svc"}) /\ Elements(<<svc>>) = {svc}
  BY <1>7, <1>12, PartOfOne
<1>16. /\ IsPart(ingresses, U, {"ingress"})
       /\ c.hasIngress => ingress \in Elements(ingresses)
  <2>1. IsPart(<<ingress>>, U, {"ingress"}) /\ Elements(<<ingress>>) = {ingress}
    BY <1>7, <1>12, PartOfOne
  <2>2. IsPart(<<>>, U, {"ingress"})
    BY NoPart
  <2> QED  BY <1>8, <2>1, <2>2
<1>17. /\ IsPart(maps, U, {"cm"})
       /\ c.hasConfigMap => cm \in Elements(maps)
  <2>1. IsPart(<<cm>>, U, {"cm"}) /\ Elements(<<cm>>) = {cm}
    BY <1>7, <1>12, PartOfOne
  <2>2. IsPart(<<>>, U, {"cm"})
    BY NoPart
  <2> QED  BY <1>9, <2>1, <2>2
<1>18. /\ IsPart(scalers, U, {"hpa"})
       /\ c.hasHPA => hpa \in Elements(scalers)
  <2>1. IsPart(<<hpa>>, U, {"hpa"}) /\ Elements(<<hpa>>) = {hpa}
    BY <1>7, <1>12, PartOfOne
  <2>2. IsPart(<<>>, U, {"hpa"})
    BY NoPart
  <2> QED  BY <1>10, <2>1, <2>2
<1>19. PICK first : first = <<deploy, rs>> \o pods
  OBVIOUS
<1>20. IsPart(first, U, {"deploy", "rs", "pod"})
         /\ Elements(first) = {deploy, rs} \cup Elements(pods)
  <2>1. {"deploy", "rs"} \cap {"pod"} = {}
    OBVIOUS
  <2>2. {"deploy", "rs"} \cup {"pod"} = {"deploy", "rs", "pod"}
    OBVIOUS
  <2>3. AreOnePart(first, <<deploy, rs>>, pods, U, {"deploy", "rs"} \cup {"pod"})
    BY Zenon, <1>13, <1>14, <1>19, <2>1, PartsMakeOne
  <2> QED  BY Zenon, <1>13, <2>2, <2>3 DEF AreOnePart
<1>21. PICK second : second = <<svc>> \o ingresses
  OBVIOUS
<1>22. IsPart(second, U, {"svc", "ingress"}) /\ Elements(second) = {svc} \cup Elements(ingresses)
  <2>1. {"svc"} \cap {"ingress"} = {}
    OBVIOUS
  <2>2. {"svc"} \cup {"ingress"} = {"svc", "ingress"}
    OBVIOUS
  <2>3. AreOnePart(second, <<svc>>, ingresses, U, {"svc"} \cup {"ingress"})
    BY Zenon, <1>15, <1>16, <1>21, <2>1, PartsMakeOne
  <2> QED  BY Zenon, <1>15, <2>2, <2>3 DEF AreOnePart
<1>23. PICK third : third = maps \o scalers
  OBVIOUS
<1>24. IsPart(third, U, {"cm", "hpa"}) /\ Elements(third) = Elements(maps) \cup Elements(scalers)
  <2>1. {"cm"} \cap {"hpa"} = {}
    OBVIOUS
  <2>2. {"cm"} \cup {"hpa"} = {"cm", "hpa"}
    OBVIOUS
  <2>3. AreOnePart(third, maps, scalers, U, {"cm"} \cup {"hpa"})
    BY Zenon, <1>17, <1>18, <1>23, <2>1, PartsMakeOne
  <2> QED  BY Zenon, <2>2, <2>3 DEF AreOnePart
<1>25. PICK both : both = first \o second
  OBVIOUS
<1>26. IsPart(both, U, {"deploy", "rs", "pod", "svc", "ingress"})
         /\ Elements(both) = Elements(first) \cup Elements(second)
  <2>1. {"deploy", "rs", "pod"} \cap {"svc", "ingress"} = {}
    OBVIOUS
  <2>2. {"deploy", "rs", "pod"} \cup {"svc", "ingress"} = {"deploy", "rs", "pod", "svc", "ingress"}
    OBVIOUS
  <2>3. AreOnePart(both, first, second, U, {"deploy", "rs", "pod"} \cup {"svc", "ingress"})
    BY Zenon, <1>20, <1>22, <1>25, <2>1, PartsMakeOne
  <2> QED  BY Zenon, <2>2, <2>3 DEF AreOnePart
<1>27. PICK all : all = both \o third
  OBVIOUS
<1>28. /\ IsPart(all, U, {"deploy", "rs", "pod", "svc", "ingress", "cm", "hpa"})
       /\ Elements(all) = Elements(both) \cup Elements(third)
  <2>1. {"deploy", "rs", "pod", "svc", "ingress"} \cap {"cm", "hpa"} = {}
    OBVIOUS
  <2>2. {"deploy", "rs", "pod", "svc", "ingress"} \cup {"cm", "hpa"}
          = {"deploy", "rs", "pod", "svc", "ingress", "cm", "hpa"}
    OBVIOUS
  <2>3. AreOnePart(all, both, third, U, {"deploy", "rs", "pod", "svc", "ingress"}
          \cup {"cm", "hpa"})
    BY Zenon, <1>24, <1>26, <1>27, <2>1, PartsMakeOne
  <2> QED  BY Zenon, <2>2, <2>3 DEF AreOnePart
<1>29. OneComponent!Resources(c) = all
  BY <1>11, <1>19, <1>21, <1>23, <1>25, <1>27
<1>30. /\ {deploy, rs, svc} \cup Elements(pods) \subseteq Elements(all)
       /\ c.hasIngress => ingress \in Elements(all)
       /\ c.hasConfigMap => cm \in Elements(all)
       /\ c.hasHPA => hpa \in Elements(all)
  BY <1>16, <1>17, <1>18, <1>20, <1>22, <1>24, <1>26, <1>28
<1>31. \A i \in 1..c.podCount : Has(all, <<c.id, "pod", i>>, "Pod")
  BY <1>3, <1>30 DEF Has, Elements
<1>32. /\ Has(all, <<c.id, "deploy">>, "Deployment") /\ Has(all, <<c.id, "rs">>, "ReplicaSet")
       /\ Has(all, <<c.id, "svc">>, "Service")
       /\ c.hasIngress => Has(all, <<c.id, "ingress">>, "Ingress")
       /\ c.hasConfigMap => Has(all, <<c.id, "cm">>, "ConfigMap")
       /\ c.hasHPA => Has(all, <<c.id, "hpa">>, "HorizontalPodAutoscaler")
  BY <1>6, <1>30 DEF Has
<1> QED  BY <1>28, <1>29, <1>31, <1>32 DEF Generated

\* The graph of whatever component makeComponent makes is readable.
LEMMA ComponentsDraw ==
  ASSUME NEW c, c.podCount \in Nat
  PROVE  Readable(OneComponent!Resources(c), OneComponent!Edges(c))
<1>1. PICK rs : rs = OneComponent!Resources(c)
  OBVIOUS
<1>2. Generated(c, rs)
  BY <1>1, AllGenerated
<1>3. PICK U : rs \in Seq(U) /\ Distinct(rs)
  BY <1>2 DEF Generated, IsPart
<1>4. PICK n \in Nat : n = Len(rs) /\ DOMAIN rs = 1..n
  BY <1>3
<1>5. PICK edges : edges = OneComponent!Edges(c)
  OBVIOUS
<1> DEFINE Leads(e, from, to) ==
      /\ Has(rs, e.source, from) /\ Has(rs, e.target, to)
      /\ e.type # "config" => OneComponent!Layer(from) < OneComponent!Layer(to)
<1>6. ASSUME NEW e, NEW from, NEW to, Leads(e, from, to)
      PROVE  \E i, j \in 1..n :
               /\ rs[i].id = e.source /\ rs[j].id = e.target
               /\ e.type # "config"
                    => OneComponent!Layer(rs[i].kind) < OneComponent!Layer(rs[j].kind)
  BY <1>4, <1>6 DEF Has, Elements
<1>7. ASSUME NEW e \in edges PROVE \E from, to : Leads(e, from, to)
  <2>1. CASE e = OneComponent!Edge(<<c.id, "deploy">>, <<c.id, "rs">>, "owner")
    <3>1. Leads(e, "Deployment", "ReplicaSet")
      BY <1>2, <2>1, LayersOfKinds DEF Generated, OneComponent!Edge
    <3> QED  BY <3>1
  <2>2. ASSUME NEW p \in OneComponent!Elements(OneComponent!PodIds(c)),
               \/ e = OneComponent!Edge(<<c.id, "rs">>, p, "owner")
               \/ e = OneComponent!Edge(<<c.id, "svc">>, p, "selector")
        PROVE  \E from, to : Leads(e, from, to)
    <3>1. PICK i \in 1..c.podCount : p = <<c.id, "pod", i>>
      BY DEF OneComponent!Elements, OneComponent!PodIds
    <3>2. Has(rs, p, "Pod")
      BY <1>2, <3>1 DEF Generated
    <3>3. Leads(e, "ReplicaSet", "Pod") \/ Leads(e, "Service", "Pod")
      BY <1>2, <2>2, <3>2, LayersOfKinds DEF Generated, OneComponent!Edge
    <3> QED  BY <3>3
  <2>3. CASE c.hasIngress /\ e = OneComponent!Edge(<<c.id, "ingress">>, <<c.id, "svc">>, "ingress")
    <3>1. Leads(e, "Ingress", "Service")
      BY <1>2, <2>3, LayersOfKinds DEF Generated, OneComponent!Edge
    <3> QED  BY <3>1
  <2>4. CASE c.hasConfigMap /\ e = OneComponent!Edge(<<c.id, "cm">>, <<c.id, "deploy">>, "config")
    <3>1. Leads(e, "ConfigMap", "Deployment")
      BY <1>2, <2>4 DEF Generated, OneComponent!Edge
    <3> QED  BY <3>1
  <2>5. CASE c.hasHPA /\ e = OneComponent!Edge(<<c.id, "hpa">>, <<c.id, "deploy">>, "scaling")
    <3>1. Leads(e, "HorizontalPodAutoscaler", "Deployment")
      BY <1>2, <2>5, LayersOfKinds DEF Generated, OneComponent!Edge
    <3> QED  BY <3>1
  <2> HIDE DEF Leads
  <2> QED  BY <1>5, <2>1, <2>2, <2>3, <2>4, <2>5 DEF OneComponent!Edges
<1>8. Drawable(rs, n, edges)
  <2>1. \A i, j \in 1..n : rs[i].id = rs[j].id => i = j
    BY <1>3, <1>4 DEF Distinct
  <2> QED  BY <1>4, <1>6, <1>7, <2>1 DEF Drawable
<1>9. Readable(rs, edges)
  BY <1>8, DrawnReadably
<1> QED  BY <1>1, <1>5, <1>9

\* Every component there is was made by makeComponent.
WellMade(component) ==
  \E c : c.podCount \in Nat /\ component = Data!MakeComponent(c)

LEMMA AllWellMade ==
  ASSUME NEW k \in 1..6, NEW component \in Elements(Data!MockDeployments[k].components)
  PROVE  WellMade(component)
<1>1. \A id, name, namespace, branch, type, policy, sync, health, at, image, replicas, extras, drift :
        \A pods \in Nat :
          WellMade(Data!Comp(id, name, namespace, branch, type, policy, sync, health, at, image,
                             replicas, extras, pods, drift))
  BY DEF WellMade, Data!Comp
<1>2. WellMade(Data!MockDeployments[1].components[1])
        /\ WellMade(Data!MockDeployments[1].components[2])
  BY <1>1 DEF Data!MockDeployments, Data!Dep
<1>3. WellMade(Data!MockDeployments[2].components[1])
        /\ WellMade(Data!MockDeployments[2].components[2])
  BY <1>1 DEF Data!MockDeployments, Data!Dep
<1>4. WellMade(Data!MockDeployments[3].components[1])
        /\ WellMade(Data!MockDeployments[3].components[2])
  BY <1>1 DEF Data!MockDeployments, Data!Dep
<1>5. WellMade(Data!MockDeployments[4].components[1])
        /\ WellMade(Data!MockDeployments[4].components[2])
  BY <1>1 DEF Data!MockDeployments, Data!Dep
<1>6. WellMade(Data!MockDeployments[5].components[1])
  BY <1>1 DEF Data!MockDeployments, Data!Dep
<1>7. DOMAIN Data!MockDeployments[5].components = 1..1
  <2>1. \E a : Data!MockDeployments[5].components = <<a>>
    BY DEF Data!MockDeployments, Data!Dep
  <2> QED  BY <2>1
<1>8. WellMade(Data!MockDeployments[6].components[1])
  BY <1>1 DEF Data!MockDeployments, Data!Dep
<1>9. DOMAIN Data!MockDeployments[6].components = 1..1
  <2>1. \E a : Data!MockDeployments[6].components = <<a>>
    BY DEF Data!MockDeployments, Data!Dep
  <2> QED  BY <2>1
<1>10. k = 1 \/ k = 2 \/ k = 3 \/ k = 4 \/ k = 5 \/ k = 6
  OBVIOUS
<1>11. PICK n \in 1..2 : DOMAIN Data!MockDeployments[k].components = 1..n
  BY Components
<1>12. PICK i \in 1..n : component = Data!MockDeployments[k].components[i]
  BY <1>11 DEF Elements
<1>13. i = 1 \/ i = 2
  OBVIOUS
<1> QED  BY <1>2, <1>3, <1>4, <1>5, <1>6, <1>7, <1>8, <1>9, <1>10, <1>11, <1>12, <1>13

\* The graph of every component that is shown can be read.
THEOREM GraphsReadable == Spec => []GraphIsReadable
<1>1. ASSUME PlatformInv, Page(route) = "component"
      PROVE  \E c : c.podCount \in Nat /\ OneComponent!Component(ui) = OneComponent!MakeComponent(c)
  <2>1. PICK id, componentId : id = route[2] /\ componentId = route[3]
    OBVIOUS
  <2>2. Data!GetComponent(id, componentId) # <<>> /\ Data!GetDeployment(id) # <<>>
    BY <1>1, <2>1, PagesFound, FoundComponent
  <2>3. PICK k \in 1..6 : Data!GetDeployment(id)[1] = Data!MockDeployments[k]
    BY <2>2, Found
  <2>4. PICK components : components = Data!MockDeployments[k].components
    OBVIOUS
  <2>5. PICK n \in Nat : DOMAIN components = 1..n
    BY <2>2, <2>3, <2>4, FoundComponents
  <2>6. PICK keep \in SUBSET (1..n) : Data!GetComponent(id, componentId)
               = Selected(components, keep)
    BY <2>2, <2>3, <2>4, <2>5, DeploymentListData DEF Data!GetComponent, Data!Filter
  <2>7. IsFiltered(Data!GetComponent(id, componentId), components, keep)
    BY <2>6, FilteredAre
  <2>8. Data!GetComponent(id, componentId)[1] \in Elements(components)
    BY <2>2, <2>5, <2>7 DEF IsFiltered, Elements
  <2>9. WellMade(Data!GetComponent(id, componentId)[1])
    BY <2>4, <2>8, AllWellMade
  <2>10. ui.deployment = id /\ ui.component = componentId
    BY <1>1, <2>1 DEF PlatformInv, PageInv, ComponentInv
  <2>11. OneComponent!Component(ui) = Data!GetComponent(id, componentId)[1]
    BY <2>10, OneComponentData DEF OneComponent!Component
  <2> QED  BY <2>9, <2>11, OneComponentData DEF WellMade
<1>2. ASSUME PlatformInv, Page(route) = "component"
      PROVE  Readable(OneComponent!Component(ui).resources, OneComponent!Component(ui).edges)
  <2>1. PICK c : c.podCount \in Nat /\ OneComponent!Component(ui) = OneComponent!MakeComponent(c)
    BY <1>1, <1>2
  <2>2. /\ OneComponent!Component(ui).resources = OneComponent!Resources(c)
        /\ OneComponent!Component(ui).edges = OneComponent!Edges(c)
    BY <2>1 DEF OneComponent!MakeComponent
  <2> QED  BY <2>1, <2>2, ComponentsDraw
<1>3. PlatformInv => GraphIsReadable
  BY <1>2 DEF GraphIsReadable, Readable
<1> QED  BY <1>3, Views, PTL
=============================================================================
