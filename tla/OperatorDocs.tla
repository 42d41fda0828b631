---------------------------- MODULE OperatorDocs ----------------------------
(***************************************************************************)
(* What the repository's documentation and comments say of the operator    *)
(* and the code does not do.  Each run that checks one of these is         *)
(* expected to find it violated.                                           *)
(***************************************************************************)
EXTENDS OperatorInvariant, SequencesExt

(* concepts/sync-policies.mdx:89: with automated false, syncs must be       *)
(* triggered manually.  What a manual application has deployed then never   *)
(* changes by itself.  (Line 78 of the controller writes OutOfSync, and     *)
(* line 75 takes OutOfSync for a reason to sync.)                           *)
ManualNeedsTrigger ==
  [][\A a \in Apps :
       ~api[a].spec.automated /\ live[a] # NoManifest => live'[a] = live[a]]_vars

(* guides/rollback.mdx:15: every successful sync records the revision, the  *)
(* earlier ones in previousRevisions.  (Line 83 has already put the new     *)
(* revision where line 100 looks for the old one.)                          *)
HistoryRecorded ==
  \A a \in Existing :
    api[a].status.sync = "Synced" =>
      recorded[a] \subseteq {api[a].status.revision} \cup ToSet(api[a].status.history)

(* concepts/sync-policies.mdx:18: Synced means that the live state matches  *)
(* the Git state, at least once nothing changes any more.                   *)
SyncedMatchesLive ==
  \A a \in Apps :
    <>[](Automated(a) /\ api[a].status.sync = "Synced" => live[a] = HeadManifest(a))

(* gitapplication_types.go:150: resources is the list of managed resources; *)
(* what a Synced application lists has been applied.  (Line 66 compares     *)
(* the revision only: after an edit of spec.path nothing is applied.)       *)
SyncedListsApplied ==
  \A a \in Existing :
    LET st == api[a].status
    IN  st.sync = "Synced" /\ st.resources.of # NoManifest => st.resources.of \in applied[a]
=============================================================================
