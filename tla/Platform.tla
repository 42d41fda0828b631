------------------------------ MODULE Platform ------------------------------
(***************************************************************************)
(* The platform in one tab of a browser: the URL, and the state of the     *)
(* page it shows. Every page mounts its own view, so what was searched,    *)
(* filtered, sorted or opened is gone when another page is shown.          *)
(***************************************************************************)
EXTENDS Integers, Sequences, FiniteSets

CONSTANTS Occurs, PageSizeOptions, DefaultPageSize, MaxFilters,
          Urls,    \* what is typed into the address bar
          Totals   \* the numbers of pages a pager is asked to offer

\* Also an empty list has a page.
ASSUME TotalsAssumption == Totals \subseteq Nat \ {0}

\* A page holds some items, and the size a list starts with is one on offer.
ASSUME PageSizeAssumption ==
  PageSizeOptions \subseteq Nat \ {0} /\ DefaultPageSize \in PageSizeOptions

VARIABLES route, ui

vars == <<route, ui>>

Data == INSTANCE Deployments
Home == INSTANCE Overview
DeploymentList == INSTANCE DeploymentView
ClusterList == INSTANCE ClusterView
OneDeployment == INSTANCE DeploymentDetail
OneComponent == INSTANCE ComponentDetail

(***************************************************************************)
(* A URL is the sequence of its segments.                                  *)
(***************************************************************************)
DeploymentsUrl == <<"deployments">>
DeploymentUrl(id) == <<"deployments", id>>
ComponentUrl(id, componentId) == <<"deployments", id, componentId>>

\* The pages of one deployment and one component are not found for wrong ids.
DeploymentPage(id) ==
  IF Data!GetDeployment(id) = <<>> THEN "not found" ELSE "deployment"

ComponentPage(id, componentId) ==
  IF Data!GetComponent(id, componentId) = <<>> THEN "not found" ELSE "component"

\* There is no page for the secret stores and the settings.
Page(url) ==
  CASE url = <<>> -> "overview"
    [] url = DeploymentsUrl -> "deployments"
    [] url = <<"clusters">> -> "clusters"
    [] url = <<"login">> -> "login"
    [] url = <<"signup">> -> "signup"
    [] Len(url) = 2 /\ url[1] = "deployments" -> DeploymentPage(url[2])
    [] Len(url) = 3 /\ url[1] = "deployments" -> ComponentPage(url[2], url[3])
    [] OTHER -> "not found"

\* Pages without state of their own.
Static == [page |-> "static"]

MountedAt(url) ==
  CASE Page(url) = "overview" -> Home!Mounted
    [] Page(url) = "deployments" -> DeploymentList!Mounted
    [] Page(url) = "clusters" -> ClusterList!Mounted
    [] Page(url) = "deployment" -> OneDeployment!Mounted(url[2])
    [] Page(url) = "component" -> OneComponent!Mounted(url[2], url[3])
    [] OTHER -> Static

(***************************************************************************)
(* The navigation of the sidebar, and the links of the pages.              *)
(***************************************************************************)
NavItems ==
  {<<>>, DeploymentsUrl, <<"clusters">>, <<"secrets">>, <<"settings">>}

HasSidebar == Page(route) \in {"overview", "deployments", "clusters", "deployment", "component"}

\* A mutant: the overview is taken for an item like the others.
IsActivePrefix(item, url) == Len(url) >= Len(item) /\ SubSeq(url, 1, Len(item)) = item

\* An item is lit on its page and, but for the overview, on the pages below.
IsActive(item, url) ==
  IF item = <<>> THEN url = <<>>
  ELSE Len(url) >= Len(item) /\ SubSeq(url, 1, Len(item)) = item

Breadcrumbs(url) ==
  CASE Page(url) = "deployment" -> {DeploymentsUrl}
    [] Page(url) = "component" -> {DeploymentsUrl, DeploymentUrl(url[2])}
    [] OTHER -> {}

LoginLinks == {<<"signup">>}
SignupLinks == {<<"login">>}

\* The links in the content of the page.
ContentLinks ==
  Breadcrumbs(route) \cup
  CASE Page(route) = "overview" -> {DeploymentsUrl : l \in Home!Links}
    [] Page(route) = "deployments" -> {DeploymentUrl(l) : l \in DeploymentList!Links(ui)}
    [] Page(route) = "deployment" -> {ComponentUrl(l[1], l[2]) : l \in OneDeployment!Links(ui)}
    [] Page(route) = "login" -> LoginLinks
    [] Page(route) = "signup" -> SignupLinks
    [] OTHER -> {}

(***************************************************************************)
(* Behaviour.                                                              *)
(***************************************************************************)
Init ==
  /\ route \in Urls
  /\ ui = MountedAt(route)

\* A link to the page that is shown changes nothing.
Follow(url) ==
  /\ url \in ContentLinks \cup (IF HasSidebar THEN NavItems ELSE {})
  /\ url # route
  /\ route' = url
  /\ ui' = MountedAt(url)

\* The address bar loads the page anew.
Visit(url) ==
  /\ route' = url
  /\ ui' = MountedAt(url)

OnPage(page) == Page(route) = page /\ UNCHANGED route

Next ==
  \/ \E url \in ContentLinks \cup NavItems : Follow(url)
  \/ \E url \in Urls : Visit(url)
  \/ OnPage("overview") /\ Home!OverviewNext
  \/ OnPage("deployments") /\ DeploymentList!DeploymentViewNext
  \/ OnPage("clusters") /\ ClusterList!ClusterViewNext
  \/ OnPage("deployment") /\ OneDeployment!DeploymentDetailNext
  \/ OnPage("component") /\ OneComponent!ComponentDetailNext

Spec == Init /\ [][Next]_vars

(***************************************************************************)
(* Properties.                                                             *)
(***************************************************************************)
PagedUi(options) ==
  [viewMode : {"card", "list"}, search : DOMAIN Occurs \cup {""},
   sortField : DeploymentList!SortFields \cup ClusterList!SortFields,
   sortDirection : {"asc", "desc"}, page : 0..Len(Data!MockDeployments \o ClusterList!MockClusters),
   pageSize : PageSizeOptions, pageSizeOpen : BOOLEAN, filterOpen : BOOLEAN,
   sortOpen : BOOLEAN, filters : options, resetPending : BOOLEAN]

TypeOK ==
  /\ Page(route) = "deployments" =>
       /\ \A g \in DOMAIN ui.filters : ui.filters[g] \subseteq DeploymentList!Options[g]
       /\ ui \in PagedUi({ui.filters})
  /\ Page(route) = "clusters" =>
       /\ \A g \in DOMAIN ui.filters : ui.filters[g] \subseteq ClusterList!Options[g]
       /\ ui \in PagedUi({ui.filters})
  /\ Page(route) = "component" => ui.manifestMode \subseteq {r.id : r \in OneComponent!Editors(ui)}

\* Once the effects have run, the page asked for is one that exists: whatever
\* can make the list or the pages shorter also goes back to the first page.
PageInRange ==
  /\ Page(route) = "deployments" /\ ~ui.resetPending => ui.page < DeploymentList!TotalPages(ui)
  /\ Page(route) = "clusters" /\ ~ui.resetPending => ui.page < ClusterList!TotalPages(ui)

IsPageOf(shown, list, range) ==
  list # <<>> => shown # <<>> /\ shown = SubSeq(list, range.start, range.end)

\* Also before the effects have run: a list that has matches shows some, and
\* exactly those the pager's "Showing a-b of n" says.
ShownIsAPage ==
  /\ Page(route) = "deployments" =>
       IsPageOf(DeploymentList!Paged(ui), DeploymentList!Filtered(ui),
                DeploymentList!RangeShown(DeploymentList!Current(ui), ui.pageSize,
                                          Len(DeploymentList!Matching(ui))))
  /\ Page(route) = "clusters" =>
       IsPageOf(ClusterList!Paged(ui), ClusterList!Filtered(ui),
                ClusterList!RangeShown(ClusterList!Current(ui), ui.pageSize,
                                       Len(ClusterList!Matching(ui))))

OnOnePage(x, pages) == Cardinality({p \in DOMAIN pages : x \in Data!Elements(pages[p])}) = 1

\* Leafing through the pages shows every match once, in any sort order.
ListedOnce ==
  /\ Page(route) = "deployments" =>
       LET v == DeploymentList!Filtered(ui)
           pages == [p \in 0..DeploymentList!TotalPages(ui) - 1 |->
                       DeploymentList!PageOf(v, p, ui.pageSize)]
       IN  \A d \in Data!Elements(DeploymentList!Matching(ui)) : OnOnePage(d, pages)
  /\ Page(route) = "clusters" =>
       LET v == ClusterList!Filtered(ui)
           pages == [p \in 0..ClusterList!TotalPages(ui) - 1 |->
                       ClusterList!PageOf(v, p, ui.pageSize)]
       IN  \A c \in Data!Elements(ClusterList!Matching(ui)) : OnOnePage(c, pages)

\* The pager of a list of any of the lengths in Totals names the first, the
\* last and the current page, in order, with an ellipsis where pages are left
\* out and only there.
PagerSound ==
  Page(route) \in {"deployments", "clusters"} => \A total \in Totals : \A current \in 0..total - 1 :
    DeploymentList!PagerTellsPages(current, total)

\* No page leads astray: what its content links to is a page that exists, and
\* where there is a sidebar exactly one of its items is lit, also two levels
\* below the page the item leads to.
NavigationIsSound ==
  /\ \A url \in ContentLinks : Page(url) # "not found"
  /\ HasSidebar => Cardinality({i \in NavItems : IsActive(i, route)}) = 1

\* The graph of every component can be read: no node hides another, no edge
\* dangles, and all edges but those of config maps point to the right.
GraphIsReadable ==
  Page(route) = "component" =>
    LET c == OneComponent!Component(ui)
        nodes == Data!Elements(OneComponent!Nodes(c.resources))
        x(id) == (CHOOSE n \in nodes : n.id = id).position.x
    IN  /\ \A m, n \in nodes : m.position = n.position => m = n
        /\ Cardinality(nodes) = Len(c.resources)
        /\ \A e \in c.edges :
             /\ {e.source, e.target} \subseteq {n.id : n \in nodes}
             /\ e.type # "config" => x(e.source) < x(e.target)

\* A chip that is clicked when nothing else is selected lists as many as the
\* number on it says.
ChipTellsCount ==
  [][/\ Page(route) = "deployments" /\ ui.search = "" /\ ui.filters = DeploymentList!NoFilters =>
          \A chip \in DeploymentList!QuickFilters :
            DeploymentList!ClickChip(chip[1], chip[2]) =>
              Len(DeploymentList!Matching(ui')) = DeploymentList!ChipCount(chip[1], chip[2])
     /\ Page(route) = "clusters" /\ ui.search = "" /\ ui.filters = ClusterList!NoFilters =>
          \A status \in ClusterList!QuickFilters :
            ClusterList!ClickChip(status) =>
              Len(ClusterList!Matching(ui')) = ClusterList!StatusCount(status)
     /\ Page(route) = "deployment" /\ ui.search = "" /\ ui.filters = OneDeployment!NoFilters =>
          \A chip \in OneDeployment!QuickFilters :
            OneDeployment!ClickChip(chip[1], chip[2]) =>
              Len(OneDeployment!Matching(ui')) = OneDeployment!ChipCount(ui, chip[1], chip[2])]_vars

\* A row of manifests that is opened, by whatever closed and opened it, first
\* compares the manifest with the live one when the resource drifted.
DriftIsShownFirst ==
  [][Page(route) = "component" /\ route' = route =>
       \A r \in OneComponent!Editors(ui') \ OneComponent!Editors(ui) :
         OneComponent!Drifted(r) => Len(OneComponent!YamlEditor(ui', r)) = 2]_vars
=============================================================================
