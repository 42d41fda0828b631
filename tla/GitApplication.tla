--------------------------- MODULE GitApplication ---------------------------
(***************************************************************************)
(* The GitApplication custom resource: its specification, its status and   *)
(* the pure functions by which the controller computes a new status from   *)
(* an old one (operator/api/v1alpha1/gitapplication_types.go and the       *)
(* status half of operator/internal/controller/gitapplication_controller.go).*)
(*                                                                         *)
(* A commit hash is an element of Revisions, the empty string of an unset  *)
(* status.revision is NoRevision.  What Parse reads is a manifest: the     *)
(* content of one path of the repository at one revision.  A timestamp is  *)
(* the second it falls in, 0 a timestamp that was never set.               *)
(***************************************************************************)
EXTENDS Naturals, Sequences

CONSTANTS
  Revisions,     \* commit hashes
  NoRevision,    \* status.revision = ""
  Sources,       \* what spec.repoURL and spec.branch name together
  Paths,         \* what spec.path, spec.manifestType and spec.helm name together
  Automation,    \* the values of spec.syncPolicy.automated that users choose
  NoManifest,    \* nothing was parsed, or nothing was found
  HistoryLimit   \* most entries of status.previousRevisions (10 in the code)

ASSUME GitApplicationAssumption ==
  /\ NoRevision \notin Revisions
  /\ Automation \subseteq BOOLEAN /\ Automation # {}
  /\ Sources # {} /\ Paths # {}
  /\ NoManifest \notin Revisions \X Paths
  /\ HistoryLimit \in Nat \ {0}

Manifests == Revisions \X Paths

SyncStatuses == {"", "Synced", "OutOfSync", "Syncing", "Unknown"}
HealthStatuses == {"", "Healthy", "Degraded", "Progressing", "Missing", "Unknown"}

\* status.resources: which manifest it lists, and what it says of each entry
ResourceList ==
  [of : Manifests \cup {NoManifest}, sync : SyncStatuses, health : HealthStatuses]

NoResources == [of |-> NoManifest, sync |-> "", health |-> ""]

\* condition is the status of the one condition the controller ever writes,
\* SyncError ("" before it was added), and stamp its lastTransitionTime
Status ==
  [sync      : SyncStatuses,
   health    : HealthStatuses,
   revision  : Revisions \cup {NoRevision},
   history   : Seq(Revisions),
   lastSync  : Nat,
   condition : {"", "True", "False"},
   stamp     : Nat,
   resources : ResourceList]

\* a resource just created has no status: it is a subresource, which the
\* API server clears on create
EmptyStatus ==
  [sync      |-> "",
   health    |-> "",
   revision  |-> NoRevision,
   history   |-> <<>>,
   lastSync  |-> 0,
   condition |-> "",
   stamp     |-> 0,
   resources |-> NoResources]

AppSpec == [automated : Automation, source : Sources, path : Paths]

-----------------------------------------------------------------------------
(* What Check returns: every resource is reported Healthy, so the aggregate *)
(* is Healthy, and the sync status of the entries is never filled in.       *)
Checked(parsed) ==
  [of     |-> parsed,
   sync   |-> "",
   health |-> IF parsed = NoManifest THEN "" ELSE "Healthy"]

AggregateHealth(parsed) == "Healthy"

(* updateCondition stamps the transition time whether or not the condition *)
(* changes.                                                                *)
updateCondition(st, failed, now) ==
  [st EXCEPT !.condition = IF failed THEN "True" ELSE "False", !.stamp = now]

\* mutant: the two status arguments, of like types, change places
updateStatusSwapped(st, sync, health, revision, parsed, failed, now) ==
  [updateCondition(st, failed, now) EXCEPT
     !.sync = health, !.health = sync, !.revision = revision]

\* mutant: a status is built from nothing instead of changed in place
updateStatusAnew(st, sync, health, revision, parsed, failed, now) ==
  [updateCondition(EmptyStatus, failed, now) EXCEPT
     !.sync = sync, !.health = health, !.revision = revision]

(* updateStatus up to its API call.  A nil slice of resources leaves       *)
(* status.resources as it was.                                             *)
updateStatus(st, sync, health, revision, parsed, failed, now) ==
  [updateCondition(st, failed, now) EXCEPT
     !.sync = sync,
     !.health = health,
     !.revision = revision,
     !.resources = IF parsed = NoManifest
                     THEN @
                     ELSE [of |-> parsed, sync |-> sync, health |-> health]]

updateHealthStatus(st, parsed) ==
  [st EXCEPT !.health = AggregateHealth(parsed), !.resources = Checked(parsed)]

(* The oldest entry goes when the list is full, the revision the status    *)
(* held comes in when it differs from the one just synced.                 *)
PreviousRevisions(st, revision) ==
  LET kept == IF Len(st.history) >= HistoryLimit THEN Tail(st.history) ELSE st.history
  IN  IF st.revision # NoRevision /\ st.revision # revision
        THEN Append(kept, st.revision)
        ELSE kept

(* The status of a sync that succeeded. *)
SyncedStatus(st, revision, parsed, now) ==
  [st EXCEPT
     !.sync = "Synced",
     !.health = AggregateHealth(parsed),
     !.lastSync = now,
     !.revision = revision,
     !.history = PreviousRevisions(st, revision),
     !.resources = Checked(parsed)]

\* mutant: a sync that was begun is taken for one that ended
UpToDateOnceBegun(st, revision) == st.revision = revision

\* mutant: the revision is not compared
UpToDateEver(st, revision) == st.sync = "Synced"

UpToDate(st, revision) == st.revision = revision /\ st.sync = "Synced"

ShouldSync(spec, st) == spec.automated \/ st.sync \in {"", "OutOfSync"}
=============================================================================
