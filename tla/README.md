# wardn: TLA+ models of the operator, the platform UI and the documentation site

wardn deploys applications from Git to Kubernetes. A user writes a
`GitApplication` resource; an operator pulls its repository, applies the
manifests it finds and reports in the resource's status what it did. Beside the
operator stand a server, a platform UI that so far shows fixed data, and a
documentation site. This directory holds TLA+ modules of the operator, of the
platform UI and of the documentation site, TLC configurations that check them
on small instances, and proofs, checked by TLAPS, that hold for every instance.

Contents: [the system](#the-system), [the modules](#the-modules),
[the runs](#the-runs), [fairness](#fairness), [the proofs](#the-proofs),
[where code and documentation differ](#where-code-and-documentation-differ),
[what the models of the user interfaces found](#what-the-models-of-the-user-interfaces-found),
[what is not modelled](#what-is-not-modelled).

## The system

### Components

| Component | State | Operations | Talks to |
|---|---|---|---|
| `GitApplication` (operator/api/v1alpha1) | spec, status | none of its own | stored in the API server |
| Reconciler (operator/internal/controller) | none between calls but the work queue and its timers | `Reconcile`, one call at a time per process | cached reads and status writes of the API server; Git client, parser, applier, health checker, notifier by calls |
| Git client (operator/internal/git) | a working directory per repository URL, a mutex | `CloneOrPull`, `LocalPath` | `git` processes |
| Manifest parser (operator/internal/manifest) | none | `Parse` | the working directory |
| Applier (operator/internal/k8s) | none; a placeholder | `Apply` | the target cluster |
| Health checker (operator/internal/health) | none; always Healthy | `Check` | - |
| Notifier (operator/internal/notify) | none | `Dispatch` | Slack |
| Webhook server (operator/internal/webhook) | the listed copies of a request in progress | `handleGitHub` (`handleGitLab` is a stub) | the same cached client as the reconciler: an annotation of the resource is how it triggers a reconcile |
| Operator process (operator/cmd/operator) | - | start; leader election is off unless asked for | runs controller and webhook server |
| Server (server/) | users, projects, clusters, audit log in Postgres; sessions in Redis | register, login, logout, me; list and create projects and clusters; list audit | Postgres, Redis; the application handlers are stubs, so it does not talk to the operator |
| Platform UI: lists and details (frontend/apps/platform) | per mounted page: search, filters, sort order, page, drawers, open sections, an editor's mode | the handlers of each view, and one effect that goes back to the first page | fixed data in src/lib; one page links to the next |
| Platform UI: shell (packages/ui/src/sidebar.tsx, create-wizard.tsx) | sidebar open, sheet open, what is believed of the width; the wizard's step and fields | toggle, resize, dismiss; open, next, back, close | the wizard is mounted inside the sidebar's content |
| Documentation site: navigation (apps/docs/components/docs-sidebar, layouts/notebook) | drawer, collapsed, out, a timer, two animations, open folders | click, pointer, resize, navigate, animation end, timer | the path selects item, folders and footer |
| Documentation site: page (components/toc, layouts/notebook/page, components/ai) | positions, track, popover; the cache of fetched pages, the copy button | scroll, re-layout, click, copy | the browser's observer and clipboard, the server |
| Other UI components, website, login pages | none of their own | - | - |

The operator is the core: it is the only part that acts by itself, several
processes and users write the objects it reads, it keeps nothing in memory that
survives a crash, and every one of its remote calls may fail. The components
interact through one shared object per application:

    users --edit--> [ API server: spec, status, version ] <--status-- reconciler
    Git provider --push--> webhook --annotation--^   |                    ^
                                                     +--watch--> cache ---+--> queue

The platform UI and the documentation site run in the browser. Neither talks to
the operator or the server yet. Their components interact through React: props
down, state up, and mounting and unmounting, which drops what a component
remembered. Most of what is hard in them comes from that, and from the browser
calling back (timers, animations, observers, promises) after the state it was
asked in has gone.

### What is hard, and what makes the parts correct

* **Reads are stale.** `Reconcile` works on the informer's copy. Two status
  writes of one call are made from what that copy became. The API server's
  version check is all that protects other writers.
* **Write errors are dropped** by `updateStatus` and `updateHealthStatus`
  (gitapplication_controller.go:147, :153). Only the write of line 112 is
  checked.
* **Statuses may be refused.** The markers of the types declare more than the
  controller keeps to; see `Validated` below.
* **Crashes.** A process may end between the apply and the status write.
* **Several processes.** Leader election is off by default (main.go:47).
* **Self-triggering.** The controller watches its own status writes.
* **Lists followed by updates** in the webhook, from copies that age.
* **Effects run after rendering.** A list that has become shorter is rendered
  once with the old page number (deployment-view.tsx:156); the sidebar learns of
  the window's width after the fact (use-mobile.ts).
* **State that lives in what is mounted.** The wizard lives in the sidebar, an
  editor's mode in a row, a copy of the page tree in the drawer.
* **Timers, animations and promises that outlive their cause**: the one that hides
  the documentation's sidebar, the two of its drawer, the cached fetch.

So, for the reconciler: what is called Synced was applied; a success is
announced only when stored; an application is never forgotten; after the last
disturbance status and cluster settle at the head of the branch; a deleted
application is left alone. For the webhook: a user's edit survives it. For the
status: `lastSyncAt` does not go back. For a list: what is shown is the page the
pager says, every match is on one page, and a chip lists as many as it counts.
For the shell: nothing of a wizard survives it. For the documentation: an open
drawer is visible and a closed one goes away, a sidebar is out only for a
reason, the track shows what is being read, a page is fetched once and the copy
button does not stay disabled.

PROJECT.json lists every hazard at its line with the properties that cover it.

## The modules

    GitApplication          the resource and the pure functions on its status
      ApiServer             what the code relies on of the API server (external)
        Reconciler          the controller        WebhookHandler   the webhook
          Operator          both, the users, Git, restarts; the properties
            OperatorInvariant     the inductive invariants; the refinement of SyncContract
              OperatorProofs                           theorems: types
                OperatorSafetyProofs                   what is called Synced was applied;
                                                       the refinement of SyncContract
                OperatorCacheProofs                    no application is forgotten, no
                                                       edit and no time of a sync is lost
              MCOperator                               instances for TLC
              OperatorDocs, MCOperatorDocs             claims of the documentation
    SyncContract            the abstract specification

    Lists                   filters, sorting, ages
      Deployments, Clusters       the rows the code comes with
      DeploymentView, ClusterView (with Paging)    the two lists
      DeploymentDetail                             the components of a deployment
      ComponentDetail (with ResourceGraph)         one component
      Overview                                     the first page
        Platform            the URL and the page it mounts; the properties
          MCPlatform        an instance for TLC
          PlatformProofs (with ListProofs)         theorems
    Paging                  pages of a list, and the numbers of a pager
      ListProofs (with Lists)                      theorems: any list, any pager

    Sidebar, CreateWizard   the provider and its sheet; the dialog of four steps
      AppShell              the wizard in the sidebar; the properties
        AppShellProofs                             theorems

    DocsSidebar             the tree, the drawer, the sidebar that slides out
      MCDocs                a tree for TLC
      DocsSidebarProofs                            theorems, for every tree
    TableOfContents, MarkdownCopy
      DocsPage              both on one page
        DocsPageProofs                             theorems, for any number of headings

**GitApplication** translates the types and the functions that compute a status:
`updateStatus`, `updateHealthStatus`, `updateCondition`, the history of lines
95-102, the success of lines 104-110, and the two decisions of lines 66 and 74.
A commit is an element of `Revisions`; what is parsed and applied is a manifest,
the content of one path at one revision. A time is the second it falls in
(`metav1.Time` is stored with that granularity). `status.resources` is
abstracted to which manifest it lists and the two statuses every entry has in
common, which is all the code can produce.

**ApiServer** is external. `api` is the stored object with its version, `watch`
the changes on their way to each process, `cache` what its client reads.
`Write` has the four outcomes a caller can meet: accepted, refused for a version
conflict, lost on the way, or carried out with the answer lost. An update that
changes nothing produces no event (as the API server does), which the webhook
depends on. The module also holds the clock and `left`, the budget of outside
events.

`Validated` says whether the installed resource definition validates. The types
carry markers to generate one from (types.go:160, :171), but the repository holds
none, nor the step that generates it, so both values are possible. With
`Validated` the API server refuses an entry of resources without a sync status,
which `Check` returns (health/checker.go:29-34), and a condition without a reason,
which `updateCondition` adds (gitapplication_controller.go:178): these are
`Admitted`. The safety theorems hold for both values. With TRUE there is little to
see: no status is ever stored (theorem `NothingReported`), an automated application
is applied again by every call, and nothing settles. All runs have FALSE, and
the liveness properties are claimed for it only.

**Reconciler** cuts `Reconcile` at its remote calls. `worker[o].pc` names the
next one and `worker[o].obj` is the `app` variable of the function, with the
status written so far:

| `pc` | lines | next |
|---|---|---|
| `pull` | 51-83 | `report` when pulling or parsing failed, nothing is to do, or syncing is not allowed; else `announce` |
| `report` | the ignored write of 54, 61, 69 or 78 | returns |
| `announce` | the ignored write of 83 | `apply` |
| `apply` | 85-110 | `commit`, or `reportFailure` |
| `commit` | the checked write of 112 | `notifyOk`, or returns with the error |
| `reportFailure` | the ignored write of 87 | `notifyErr` |
| `notifyOk`, `notifyErr` | 116, 88 | returns |

Returning adds the application to `timers`, whatever the delay: 30 s, 60 s or
the queue's own backoff. `queue` is a set, as the work queue is one. `live`,
`applied`, `recorded` and `notices` record what a reader outside can see: what is
deployed, and what was ever applied, stored as Synced and announced.

**WebhookHandler**: `ReceivePush` is the list of lines 60-66, `Annotate` one
round of the loop of lines 67-80.

**Operator** puts them together with users, pushes, restarts and the clock.

**SyncContract** is what a reader of the status may rely on: a revision is
claimed only after it was deployed. `OperatorInvariant!Contract` maps `deployed`
to the revisions in `applied` and `claim` to the revision of a stored status that
says Synced.

### The platform UI

**Platform** holds the URL (`route`) and the state of what is mounted there
(`ui`). `Follow` is a link, `Visit` the address bar; both mount the page anew,
as Next.js does when the route's page changes. `Page` says what each route file
renders, "not found" included. On each page the actions are those of its view.

**DeploymentView** and **ClusterView** have one action per handler. `ui` has
a field for every `useState`, and `resetPending`, which is TRUE between a change
of a dependency of the effect of lines 151-153 and the effect: what is rendered
in between can be told by `ShownIsAPage`. React runs the effect before the next
event, so the other actions wait for it (`Idle`). `Matching`, `Filtered`, `Paged` are
the `useMemo`s and what follows from them. A text in the search field is one of
`DOMAIN Occurs`, with the names that contain it. Sorting compares the positions
of names in the order of `localeCompare` (`Collation`).

**Deployments**, **Clusters** translate the rows of src/lib, which are the only
rows there are: their ids, names, statuses, times and edges as the code writes
them. A manifest is a value that says whether it differs from the live one.

**ComponentDetail**: `manifestMode` holds the resources whose editor is not in the mode
it starts with (yaml-editor.tsx:43). An editor that is unmounted drops its mode
(`Remaining`). **ResourceGraph** computes columns, rows and edges as lines
153-260 do, in half steps where the code halves.

**Sidebar** is the provider of packages/ui, with the sheet that fades out
before it is unmounted. **CreateWizard** keeps which fields of the current step
were filled. A step's fields hold their values themselves and are unmounted
with it. **AppShell** says what becomes of the wizard: when `Place` changes, the
sidebar's content is mounted anew, and the wizard with it (`KeepIfInPlace`).

### The documentation site

**DocsSidebar**: `sidebar` has the state of `SidebarProvider`, of the drawer
(`contentHidden`, `overlayHidden`, and `contentMoves`, `overlayMoves` for an
animation whose end is still to come), of the sidebar beside the page (`hover`,
`timer`, `moves` for the 250 ms in which the pointer is ignored), and of the
folders of the copy of the tree that is mounted: `folders` are open, `panels`
have their content mounted. A folder that is folded keeps its content until the
transition has ended (`PanelCloses`); then the folders in it are gone with what
they remembered (ui/collapsible.tsx does not keep what it hides), and are mounted at
their default when it is opened again (`MountedOpen`). Only a folder that is
mounted can be clicked or hear of another path (`OpenedBy`). There are two history
variables: `heeded`, what was last made of the pointer, and `shut`, the folders the
reader has folded, as far as the tree remembers. The tree is any set of folders, with
the pages in each and the folders around it (`Around`).

**TableOfContents** has the heights for which positions were printed, and what
the track was last calculated from. **MarkdownCopy** has the
promise kept for a page, the button that is mounted, and the copies under way,
each with the button it belongs to or none. **DocsPage** puts them on one page:
a click on the copy button is one outside the popover, too.

### Mutants

The operators that a comment calls a *mutant* are wrong on purpose: each is what a
plausible bug would make of the definition after it, and shows that the property
named with it in PROJECT.json notices.

## The runs

Those of the operator: all instances have one application, one repository
branch, two commits, a history limit of 2 instead of 10, and one path unless said
otherwise. One application is enough for what is checked: applications
share only the worker of a process and the budget, and the proofs cover any
number. Two commits are what it takes for a stale copy, a force push and a push
back. `Budget` says how often each kind of outside event happens; retries,
writes, reconciles and timer firings are not bounded.

| Run | Instance | Shows |
|---|---|---|
| `faults` | 1 process; a force push, 2 failures, a restart, a tick; one commit does not parse, the other is empty; Apply may fail; automated or manual | `TypeOK`, `SyncedWasApplied`, `NoticeTruthful`, `LastSyncMonotone`, and that the operator implements `SyncContract` |
| `users` | 1 process; a push forward, an edit, 2 webhook deliveries, a tick; automated or manual | `UserEditsSurvive`: a spec changes only by a user's edit; `WakeupInv`: caches catch up and the application stays scheduled; under fairness `StatusConverges` |
| `processes` | 2 processes; a push forward, a restart; automated | `StatusConverges` under fairness, when two processes write the status |
| `converge` | 1 process; 2 paths; a push forward, an edit, a deletion and a re-creation, a failure, a restart; automated | `NeverStranded` and, under fairness, `LiveConverges`, `DeletedQuiesces` |

The last three take `FairFromStart`: every branch starts at its first commit,
and every application with its first path. Nothing is lost by it: pushes only move
forward in them, so from the last commit none could come, and paths differ by name
only. They bound what may happen once, and promise what holds afterwards: the
webhook races the status writes in `users` (two deliveries in one second
included), another process in `processes`, and a crash between the apply and
the write, a lost answer and a new incarnation of the object in `converge`.

Those of the user interfaces:

| Run | Instance | Shows |
|---|---|---|
| `browse` | the code's 6 deployments and 7 clusters; page sizes 2 and 4; two texts to search for; one filter at a time; eight addresses to type; pagers of 2, 7, 8 and 10 pages | `PageInRange`, `ShownIsAPage`, `ListedOnce`, `PagerSound`, `NavigationIsSound`, `GraphIsReadable`, `ChipTellsCount`, `DriftIsShownFirst` |
| `shell` | complete: nothing is bounded | `MarksAreHonest`, `NothingCarriesOver`, `SheetIsSeparate` |
| `docs_nav` | 3 pages, 2 folders, one in the other; folders are open down to level 1, as app/layout.tsx asks | `OpenIsVisible`, `CurrentIsMarked`, `OutForAReason`, `NeverPulledAway`, `OnlyReaderFolds`; under fairness `DrawerGoesAway`, `PutAway` |
| `docs_page` | 3 headings, two heights of the list besides none | `TrackAgreesWithTrigger`, `FetchedOnce`, `CheckedIsCopied`, `DotStays`; under fairness `PositionsCatchUp`, `LoadingEnds` |

In `browse` the rows and what can be chosen are the code's own, but for the page
sizes: the code's smallest, 10, never pages 6 or 7 rows. With 2 and 4 there are up to
four pages, the last of them not full. One filter at a time suffices for the
chips and for lists of every length from none to all. A search and a filter
together are there, too. The texts occur in names of deployments, clusters and a
branch. The addresses include ids that do not exist and a component under
another deployment's id. A pager changes its form at eight pages; 7, 8 and 10 are on both
sides of that. `docs_nav` needs a folder in a folder, below the level that is open
by default, for `OnlyReaderFolds`, and a page on either side of another for the
footer; the rest does not look at the tree. (The pages of content/docs have no
folder in a folder so far; the sidebar is written for trees that do.) `docs_page` needs two heights to tell positions
that are late, and three headings so that a range can grow at both ends.

Each of these four runs also checks the type invariant of its module, which says
more than types where there was more to say: only the step shown holds values,
only what is mounted is animated, a track runs downwards, an editor's mode belongs to
an editor that exists.

Two failures matter in `faults`: one drops the Syncing write, the other the
Synced one.

`LiveConverges` is about what is deployed, and is as strong as the code allows:

* Pushes only move forward: with a force push back it is false (run `live`).
* Apply does not fail: when the Syncing write and the write of the failure both
  conflict, the stored Synced stays and line 66 never applies again.
* That the deployed manifest is the one of the path that the spec asks for is
  promised only when no spec was edited. An edit of the path alone is not noticed
  (run `path`); what stays deployed is the head's manifest of a path asked for before.
* There is one process. With two, one push suffices to break it: a process that
  has begun a call before the push may apply the old commit after the other process
  has applied and recorded the new one; its own write is refused, and line 66 finds
  the new one recorded. `StatusConverges` does hold of two processes.

## Fairness

`FairSpec` asks for weak fairness of a process's steps, of the delivery of a
change to its cache, of its timers and of the webhook's loop: the Go scheduler,
the informer and the delaying queue provide it, and no step of these waits for
anyone else. `FetchFairly` is strongly fair: the worker is idle again and again,
not continuously, and the work queue is first-in first-out, so a request that is
queued again and again is taken in the end. Users, pushes, webhook requests,
failures, restarts and the clock are not fair: nothing obliges them to happen.

For the user interfaces, `DocsSidebar` is weakly fair to the ends of the two
animations and to the timer, and `DocsPage` to the observer that reports a
change of size, to the answer or failure of a request, and to a copy that has
all it waits for. The browser provides these: it fires timers and events of
elements that are mounted, and settles promises. A user, the pointer, the
window and navigation are not fair. `Platform` and `AppShell` need no fairness,
for they promise nothing that must happen.

## The proofs

### The operator

TLAPS proves, for all values of the constants under the `ASSUME`s of
GitApplication, ApiServer and Reconciler (non-empty sets, `HistoryLimit` at
least 1, a null revision and a null manifest that are not values, `Budget` a
function to the naturals; `Operators` may be empty or infinite):

* `TypeCorrect`: `Spec => []TypeOK`. `TypeOK` contains `RevisionHeld`, without
  which it is not inductive: that `Seq(Revisions)` is kept by the history needs
  that a worker that applies holds a revision.
* `Safety`: `Spec => []SafetyInv`. `SyncedWasApplied` alone is not inductive: a
  status becomes Synced by a write of a copy, so every copy (stored, in a cache,
  on its way to a cache, in a worker) must call only applied revisions Synced
  (`StoredBacked`, `CachesBacked`, `WorkersSound`). The webhook's copies need no
  such conjunct, because `MainRevised` does not take over their status. The
  proof has one lemma per source of steps: `ReconcileSound` (one step per stage),
  `FetchSound`, `DeliverSound`, `AnnotateSound`, `UsersSound`, `RestartSound`,
  and `QuietSound` for steps that touch none of the copies. They rest on
  `WriteBacked` (a write of a backed object keeps every copy backed) and on
  `AppliedGrows` (what was applied stays applied).
* `SyncedIsApplied` and `NoticesAreTruthful` follow.
* `NothingReported`: `Spec => [](Validated => NeverReported)`. The invariant
  `SchemaInv` says that every copy in the store and the caches is without a status,
  and that what a worker is about to write has a condition, so is refused. A call
  that starts without a status never finds the application up to date, so it sets
  the condition before its first write.
* `Implementation`: `Spec => ImplementsContract`, the refinement of
  `SyncContract`. A step changes at most one stored object, and what is applied
  only without changing an object (`ApiSteps`), so it maps to one `Deploy`
  (`DeployStep`), to one `Claim` or `Withdraw` (`ClaimStep`), or to a stutter. That
  the revision claimed was deployed is `StoredBacked` after the step.
* `Wakeup`: `Spec => []WakeupInv`, from which `NoneForgotten`:
  `Spec => []NeverStranded`. `NeverStranded` alone is not inductive: a request is
  forgotten when the *cache* says the application is gone. `Tracking` says that a
  cache which is behind has a change on its way, so a request is dropped wrongly
  only when another one is about to be queued. `StoreWakes` carries it over
  writes, `ReconcileWakes`, `FetchWakes`, `DeliverWakes`, `RestartWakes` and
  `OthersWake` over the steps.
* `Versions`: `Spec => []VersionInv`, from which `EditsSurvive`
  (`Spec => UserEditsSurvive`) and `LastSyncAdvances` (`Spec => LastSyncMonotone`).
  What a write may lose depends on how old the copy is that it is made from, so the
  invariant is about copies: a cached object, one on its way to a cache and one the
  webhook has listed is the stored object or of an older version (`CachesFollow`,
  `HooksFollow`); a worker's copy, which the worker changes, is of a version at
  most the stored one, and has lost nothing of its time if it is of that version
  (`WorkersKeep`); none was synced in the future (`SyncedInThePast`). The API server
  refuses the older ones, and what it takes keeps the spec and the time. That
  a status computed now is no older than the copy's is where `SyncedInThePast` is needed.

### The user interfaces

* AppShellProofs: `ShellInvariant`, the inductive invariant, and from it
  `TypeCorrect`, `HonestMarks` (`Spec => []MarksAreHonest`), `CleanStart`
  (`Spec => []NothingCarriesOver`) and `SheetApart` (`Spec => SheetIsSeparate`).
  `MarksAreHonest` is not inductive: that a wizard is opened at its first step
  needs `WizardInvariant`, that a closed one always is at it. One lemma,
  `ShowStepIsOK`, says that showing the next step or an earlier one keeps a wizard in order.
* DocsSidebarProofs: `SidebarInvariant`, for any finite set of folders and any
  list of pages, and from it `TypeCorrect`, `OpenDrawerVisible`, `NeverOutUncalled`,
  `MarkedInEveryTree`, `TimerNeverPulls` and `FoldedByReader`
  (`Spec => []OnlyReaderFolds`). The latter needs to know what is mounted: the folders
  around mounted content have theirs mounted, an open folder has its own, and one that
  is closed with its content still there was folded (`Mounted`); a folder that is open by
  default is open or was folded, and if it is not mounted, the reader has folded one
  around it whose content is gone (`Explained`). `FoldingKeeps`,
  `ReopeningKeeps`, `MountingKeeps`, `UnmountingKeeps` and `NavigatingKeeps` carry it
  over the steps. `OutForAReason` is not
  inductive without `TimerInvariant`: while the pointer is known to be over the
  sidebar, no timer runs. That is what makes the timer harmless, and `TimerNeverPulls` is
  the same fact of a step. `RenderedIsOK` carries the drawer over both ends of animations.
* DocsPageProofs: `PageInvariant`, for any number of headings and any heights,
  and from it `TypeCorrect`, `TrackAndTriggerAgree`, `RequestedOnce`,
  `NoEmptyCheckmark` and `DotKeepsItsEnd`. The invariant adds what the track was calculated
  from (the headings in view, whenever there are positions) and that a page
  without a promise was never requested. What the minimum and the maximum of the headings in
  view are is a lemma about finite sets of numbers.
* ListProofs, about the operators of Lists and Paging, for lists of any length.
  `PagesSuffice`: the pages of a list hold all its items, and the last one is not
  empty. `PagerTellsAll`: for any number of pages and any current one,
  `PagerTellsPages` holds; a range of page numbers is three pieces joined, and
  the lemmas say where each lies. Filtering (`Filter`) keeps the order and takes
  each match once, and sorting (`SortedBy`) is a permutation when the keys are
  numbers. Both rest on `Ranks`: the elements of a finite chain are numbered 1..n by
  how many come before them.
* PlatformProofs: `Views`, `Spec => []PlatformInv`, for any searches, any sizes of
  pages (`PageSizeAssumption`: positive, the default among them, as in
  numbered-pagination.tsx:22) and any `Totals` without 0 (`TotalsAssumption`);
  `MaxFilters` and the addresses that are typed are arbitrary. From it every
  property of `browse`:
  * `TypeCorrect` and `PagesInRange`. `PageInRange` is not inductive: after a filter
    the page may be too high until the effect has run (`resetPending`), and the
    menu of page sizes changes how many pages there are without going back. That
    is harmless because an open menu means that the effect has run
    (`pageSizeOpen => ~resetPending`), and a choice makes it run again unless the
    size stays as it is; so this implication is part of the invariant.
  * `AlwaysAPage` and `EachListedOnce`: the lists and their pagers are those of
    ListProofs; what is left is that the keys of the code's rows are numbers, for every
    field one may sort by.
  * `PagersAreSound` (which the run checks for a few numbers of pages) and
    `ChipsTellCounts`: a chip counts what its filter then selects.
  * `DriftComesFirst`. An editor that was closed must have been forgotten:
    `ComponentInv` says that only editors that exist have left the comparison
    (`manifestMode`), so one that opens is in it.
  * `NavigationSound`: every component of every deployment has a page, and an item
    of the sidebar is told by the first segment of the path.
  * `GraphsReadable`. The columns of a graph are the layers that occur, in order, and
    the rows number the nodes of a column (`Columns`, `Rows`), so any list of resources
    with ids of their own can be drawn readably (`DrawnReadably`). `AllGenerated` says
    that `makeComponent` returns such a list for every number of pods and whichever of the extra
    resources there are, hence for all the components the code comes with.

### Only model-checked

The liveness properties: `StatusConverges`, `LiveConverges` and
`DeletedQuiesces` of the operator, `DrawerGoesAway`, `PutAway`, `PositionsCatchUp`
and `LoadingEnds` of the documentation. They need the fairness of the
specification, and the prover has no rule for it at hand, nor for `ENABLED`. They are
checked for one application and the budgets above. Every
invariant and every action property of a run that is expected to pass is a theorem.
The claims of OperatorDocs are false, so there is nothing to prove about them.

## Where code and documentation differ

Each of these has a run of MCOperatorDocs that is expected to find the
documentation's claim violated; PROJECT.json quotes the lines.

| Run | The documentation says | The code |
|---|---|---|
| `manual` | without `automated`, syncs are triggered manually | the second reconcile after a push syncs (line 75 reads what line 78 wrote) |
| `history` | earlier revisions are kept in `previousRevisions` | the list stays empty (line 83 overwrites what line 100 compares) |
| `live` | Synced: live matches Git | a push back after a conflict leaves another commit deployed for ever |
| `path` | resources are the managed ones | after an edit of the path, ones never applied |

Five more were met while modelling and have no run: the statuses written do not
fit the markers of the types (`Validated`, above: with a definition generated from
them, none is ever stored); a parse error sets OutOfSync
(line 61) where operator/reconciliation.mdx:70 says Unknown; a failed pull is
requeued at once by the event of its own status write (line 54), not with the
backoff of reconciliation.mdx:150; a second webhook delivery in the same second
changes nothing and triggers nothing (handler.go:73), where webhooks.mdx:10 says
immediately; and a partial apply is not retried when its status writes conflict
(reconciliation.mdx:152).

## What the models of the user interfaces found

No document promises otherwise, so these have no run; the models do what the code
does.

The platform UI:

* The search field asks to search by repository, which the search does not look
  at (deployment-view.tsx:179 against 109-113).
* The chevrons of a component's three sections point the wrong way
  (component-detail.tsx:157, 178, 239).
* The wizard forgets what was entered into a step when another step is shown, by
  Next and Back alike. It is lost, too, when the window crosses the breakpoint,
  because the sidebar that holds it is mounted anew.
* The sidebar's cookie is written and never read (sidebar.tsx). A sheet
  that was open when the window became wide is open again when it becomes narrow.
* The navigation links to /secrets and /settings, which have no page. This is
  why `NavigationIsSound` asks for existing targets of a page's content only.
* Deployment 3 is Healthy with a component that is Degraded. Pods have random
  names, so a manifest differs between the server's rendering and the browser's
  (deployments.ts:280).
* The percentages of a donut on the overview are rounded each by itself, so they may add
  up to 101.

The documentation site:

* A pointer that leaves while the sidebar is animated is ignored, so the sidebar
  stays out until the pointer comes back (base.tsx:158). `PutAway` is about a leaving that
  was noticed.
* A link to the current page does not close the drawer (base.tsx:86). A
  top-level folder the user has closed stays closed when one navigates into it
  (base.tsx:285-292), because it is open by default anywhere and nothing changes;
  a page reached that way is not seen in the tree. `OnlyReaderFolds` says that
  nobody else closes one.
* A click on an icon outside does not close the popover (toc.tsx:137).
* A request that failed is kept for as long as the tab is open, and every later
  copy fails (page-actions.tsx:35); so is an error page, which is copied.
* The stand-in for the clipboard has no `write`, so where it is in use the first copy
  of a page fails, and it does not look at whether the text was copied
  (clipboard-polyfill.ts:16-22).

## What is not modelled

Left out of the operator: what a notification says and whether Slack is
configured; request time limits; several webhook requests at once in one process;
`targetCluster`, `prune` and `selfHeal`, which no code reads to any effect; what
happens inside the Git client's working directory and inside the parser (a pull
yields the head of the branch or fails, a manifest parses or does not).
With two processes and a manual application that is behind, the two alternate
OutOfSync and Syncing without end, so `processes` uses automated applications
only. Of a resource definition that validates, `Admitted` has what the
controller's statuses run against; a spec that users write is taken as valid.

Left out of the server: all of it. Its handlers are one SQL statement or one
Redis command each, its role checks stand before no route, its application
handlers are stubs, and nothing in the repository calls it.

Left out of the platform UI: panning and zooming of the graph (React Flow), the
text of an editor (Monaco), forms without handlers (login, sign-up: only their
links are there), and parts no page uses (team switcher, project list). Left out
of the documentation site: the parts this site does not use (tabs, folders that
have a page of their own, menus of links, language and theme switches), the other style of the table of
contents, and search. The copy button is modelled though no page places it yet.
The website is one static page. Styled wrappers of third-party components keep
no state.
