--------------------------- MODULE OperatorProofs ---------------------------
(* Theorems about Operator for all values of its constants. *)
EXTENDS OperatorInvariant, TLAPS

USE GitApplicationAssumption, ApiServerAssumption, ReconcilerAssumption

-----------------------------------------------------------------------------
(* The functions that compute a status return a status. *)

LEMMA EmptyStatusType == EmptyStatus \in Status
BY DEF EmptyStatus, Status, NoResources, ResourceList, SyncStatuses, HealthStatuses

LEMMA UpdateStatusType ==
  ASSUME NEW st \in Status, NEW sync \in SyncStatuses, NEW health \in HealthStatuses,
         NEW revision \in Revisions \cup {NoRevision},
         NEW parsed \in Manifests \cup {NoManifest},
         NEW failed \in BOOLEAN, NEW now \in Nat
  PROVE  updateStatus(st, sync, health, revision, parsed, failed, now) \in Status
BY DEF updateStatus, updateCondition, Status, ResourceList

LEMMA UpdateHealthStatusType ==
  ASSUME NEW st \in Status, NEW parsed \in Manifests \cup {NoManifest}
  PROVE  updateHealthStatus(st, parsed) \in Status
BY DEF updateHealthStatus, AggregateHealth, Checked, Status, ResourceList,
       SyncStatuses, HealthStatuses

LEMMA PreviousRevisionsType ==
  ASSUME NEW st \in Status, NEW revision \in Revisions
  PROVE  PreviousRevisions(st, revision) \in Seq(Revisions)
<1> DEFINE kept == IF Len(st.history) >= HistoryLimit THEN Tail(st.history) ELSE st.history
<1>1. st.history \in Seq(Revisions) /\ st.revision \in Revisions \cup {NoRevision}
  BY DEF Status
<1>2. kept \in Seq(Revisions)
  <2>1. CASE Len(st.history) >= HistoryLimit
    <3>1. st.history # <<>>
      BY <2>1
    <3>2. Tail(st.history) \in Seq(Revisions)
      BY <1>1, <3>1
    <3> QED BY <2>1, <3>2
  <2>2. CASE ~(Len(st.history) >= HistoryLimit)
    BY <1>1, <2>2
  <2> QED BY <2>1, <2>2
<1>3. PreviousRevisions(st, revision)
        = IF st.revision # NoRevision /\ st.revision # revision
            THEN Append(kept, st.revision) ELSE kept
  BY DEF PreviousRevisions
<1>4. st.revision # NoRevision => Append(kept, st.revision) \in Seq(Revisions)
  BY <1>1, <1>2
<1> QED BY <1>2, <1>3, <1>4

LEMMA SyncedStatusType ==
  ASSUME NEW st \in Status, NEW revision \in Revisions,
         NEW parsed \in Manifests \cup {NoManifest}, NEW now \in Nat
  PROVE  SyncedStatus(st, revision, parsed, now) \in Status
BY PreviousRevisionsType
   DEF SyncedStatus, AggregateHealth, Checked, Status, ResourceList,
       SyncStatuses, HealthStatuses

LEMMA NoObjectType == NoObject \in Object
<1>1. AppSpec # {}
  <2>1. PICK b \in Automation, s \in Sources, p \in Paths : TRUE
    OBVIOUS
  <2>2. [automated |-> b, source |-> s, path |-> p] \in AppSpec
    BY DEF AppSpec
  <2> QED BY <2>2
<1>2. (CHOOSE s \in AppSpec : TRUE) \in AppSpec
  BY <1>1
<1> QED BY <1>2, EmptyStatusType DEF NoObject, Object

LEMMA IdleType == Idle \in Worker
<1>1. (CHOOSE a \in Apps : TRUE) \in Apps
  OBVIOUS
<1> QED BY <1>1, NoObjectType DEF Idle, Worker, Stages

-----------------------------------------------------------------------------
(* The API server keeps its types. *)

LEMMA StoreType ==
  ASSUME ApiTypeOK, NEW a \in Apps, NEW new \in Object, Store(a, new)
  PROVE  api' \in [Apps -> Object] /\ watch' \in [Operators -> [Apps -> Seq(Object)]]
BY DEF Store, ApiTypeOK

LEMMA RevisedType ==
  ASSUME NEW cur \in Object, NEW new \in Object
  PROVE  Revised(cur, new) \in Object
BY DEF Revised, Object

LEMMA StatusRevisedType ==
  ASSUME ApiTypeOK, NEW a \in Apps, NEW obj \in Object
  PROVE  StatusRevised(a, obj) \in Object
<1>1. api[a] \in Object
  BY DEF ApiTypeOK
<1>2. [api[a] EXCEPT !.status = obj.status] \in Object
  BY <1>1 DEF Object
<1> QED BY <1>1, <1>2, RevisedType DEF StatusRevised

LEMMA MainRevisedType ==
  ASSUME ApiTypeOK, NEW a \in Apps, NEW obj \in Object
  PROVE  MainRevised(a, obj) \in Object
<1>1. api[a] \in Object
  BY DEF ApiTypeOK
<1>2. [api[a] EXCEPT !.spec = obj.spec, !.note = obj.note] \in Object
  BY <1>1 DEF Object
<1> QED BY <1>1, <1>2, RevisedType DEF MainRevised

LEMMA SpendType ==
  ASSUME ApiTypeOK, NEW k \in Kinds, Spend(k)
  PROVE  left' \in [Kinds -> Nat]
BY DEF Spend, ApiTypeOK

LEMMA WriteType ==
  ASSUME ApiTypeOK, NEW a \in Apps, NEW obj \in Object, NEW revised \in Object,
         NEW ok, NEW got, Write(a, obj, revised, ok, got), UNCHANGED <<cache, clock>>
  PROVE  ApiTypeOK' /\ got \in Object
<1>1. got \in Object
  BY DEF Write
<1>2. left' \in [Kinds -> Nat]
  BY SpendType DEF Write, ApiTypeOK, Kinds
<1>3. api' \in [Apps -> Object] /\ watch' \in [Operators -> [Apps -> Seq(Object)]]
  BY StoreType DEF Write, ApiTypeOK
<1> QED BY <1>1, <1>2, <1>3 DEF ApiTypeOK

-----------------------------------------------------------------------------
(* The controller keeps its types. *)

LEMMA ReturnType ==
  ASSUME ControllerTypeOK, NEW o \in Operators, Return(o)
  PROVE  worker' \in [Operators -> Worker] /\ timers' \in [Operators -> SUBSET Apps]
<1>1. worker[o].app \in Apps
  BY DEF ControllerTypeOK, Worker
<1> QED BY <1>1, IdleType DEF Return, ControllerTypeOK

LEMMA ProceedType ==
  ASSUME ControllerTypeOK, NEW o \in Operators, NEW stage \in Stages, NEW obj \in Object,
         Proceed(o, stage, obj)
  PROVE  worker' \in [Operators -> Worker]
<1>0. worker[o] \in Worker
  BY DEF ControllerTypeOK
<1>1. [worker[o] EXCEPT !.pc = stage, !.obj = obj] \in Worker
  BY <1>0 DEF Worker
<1>2. worker' = [worker EXCEPT ![o] = [worker[o] EXCEPT !.pc = stage, !.obj = obj]]
  BY DEF Proceed, ControllerTypeOK
<1> QED BY <1>1, <1>2 DEF ControllerTypeOK

LEMMA WorkerFields ==
  ASSUME ControllerTypeOK, NEW o \in Operators
  PROVE  /\ worker[o].app \in Apps
         /\ worker[o].obj \in Object
         /\ worker[o].obj.status \in Status
         /\ worker[o].obj.spec \in AppSpec
         /\ worker[o].revision \in Revisions \cup {NoRevision}
         /\ worker[o].parsed \in Manifests \cup {NoManifest}
BY DEF ControllerTypeOK, Worker, Object

LEMMA WithStatusType ==
  ASSUME NEW obj \in Object, NEW st \in Status
  PROVE  [obj EXCEPT !.status = st] \in Object
BY DEF Object

(* What the users make of an object. *)
LEMMA EditedObject ==
  ASSUME NEW obj \in Object
  PROVE  /\ \A spec \in AppSpec :
              LET new == [obj EXCEPT !.spec = spec, !.rv = @ + 1]
              IN  new \in Object /\ new.rv = obj.rv + 1 /\ new.status = obj.status
         /\ LET new == [obj EXCEPT !.exists = FALSE, !.rv = @ + 1]
            IN  /\ new \in Object /\ new.rv = obj.rv + 1 /\ new.status = obj.status
                /\ ~new.exists
<1>1. obj.rv + 1 \in Nat
  BY DEF Object
<1>2. ASSUME NEW new \in Object
      PROVE  /\ [new EXCEPT !.rv = obj.rv + 1] \in Object
             /\ [new EXCEPT !.rv = obj.rv + 1].rv = obj.rv + 1
             /\ [new EXCEPT !.rv = obj.rv + 1].status = new.status
             /\ [new EXCEPT !.rv = obj.rv + 1].exists = new.exists
  BY <1>1 DEF Object
<1>3. ASSUME NEW spec \in AppSpec
      PROVE  /\ [obj EXCEPT !.spec = spec] \in Object
             /\ [obj EXCEPT !.spec = spec].rv = obj.rv
             /\ [obj EXCEPT !.spec = spec].status = obj.status
  BY DEF Object
<1>4. /\ [obj EXCEPT !.exists = FALSE] \in Object
      /\ [obj EXCEPT !.exists = FALSE].rv = obj.rv
      /\ [obj EXCEPT !.exists = FALSE].status = obj.status
      /\ ~[obj EXCEPT !.exists = FALSE].exists
  BY DEF Object
<1> QED BY <1>2, <1>3, <1>4

LEMMA UpdateStatusStep ==
  ASSUME TypeOK, NEW o \in Operators, NEW ok, NEW got, UpdateStatus(o, ok, got),
         UNCHANGED <<cache, clock>>
  PROVE  /\ ApiTypeOK'
         /\ got \in Object
         /\ recorded' \in [Apps -> SUBSET (Revisions \cup {NoRevision})]
<1> DEFINE a == worker[o].app
           obj == worker[o].obj
<1>1. a \in Apps /\ obj \in Object
  BY WorkerFields DEF TypeOK
<1>2. StatusRevised(a, obj) \in Object
  BY <1>1, StatusRevisedType DEF TypeOK
<1>3. Write(a, obj, StatusRevised(a, obj), ok, got) /\ NoteRecorded(a)
  BY DEF UpdateStatus
<1>4. ApiTypeOK' /\ got \in Object
  BY <1>1, <1>2, <1>3, WriteType DEF TypeOK
<1>5. api'[a].status.revision \in Revisions \cup {NoRevision}
  BY <1>1, <1>4 DEF ApiTypeOK, Object, Status
<1>6. recorded' \in [Apps -> SUBSET (Revisions \cup {NoRevision})]
  BY <1>1, <1>3, <1>5 DEF NoteRecorded, TypeOK, ControllerTypeOK
<1> QED BY <1>4, <1>6

-----------------------------------------------------------------------------
(* Type correctness, one step per action. *)

LEMMA TypeInit == Init => TypeOK
<1> SUFFICES ASSUME Init PROVE TypeOK
  OBVIOUS
<1>1. ApiTypeOK
  <2>1. PICK spec \in [Apps -> AppSpec] : api = [a \in Apps |-> Created(spec[a], 1)]
    BY DEF Init, ApiInit
  <2>2. \A a \in Apps : Created(spec[a], 1) \in Object
    BY EmptyStatusType DEF Created, Object
  <2>3. api \in [Apps -> Object]
    BY <2>1, <2>2
  <2> QED BY <2>3 DEF Init, ApiInit, ApiTypeOK
<1>2. ControllerTypeOK
  <2>1. worker \in [Operators -> Worker] /\ \A o \in Operators : worker[o].pc = "idle"
    <3>1. Idle.pc = "idle"
      BY DEF Idle
    <3> QED BY <3>1, IdleType DEF Init, ControllerInit
  <2>2. RevisionHeld
    BY <2>1 DEF RevisionHeld
  <2> QED BY <2>1, <2>2 DEF Init, ControllerInit, ControllerTypeOK, Existing
<1>3. HookTypeOK
  BY NoObjectType DEF Init, HookInit, HookTypeOK, NoCopies
<1> QED BY <1>1, <1>2, <1>3 DEF TypeOK

LEMMA ReconcileStepHeld ==
  ASSUME TypeOK, NEW o \in Operators, ReconcileStep(o)
  PROVE  RevisionHeld'
<1> USE DEF TypeOK
<1> SUFFICES ASSUME NEW p \in Operators, worker'[p].pc \in {"announce", "apply"}
             PROVE  worker'[p].revision \in Revisions
  BY DEF RevisionHeld
<1>0. /\ worker \in [Operators -> Worker]
      /\ worker[p].pc \in {"announce", "apply"} => worker[p].revision \in Revisions
  BY DEF ControllerTypeOK, RevisionHeld
<1>1. ASSUME Return(o) PROVE worker'[p].revision \in Revisions
  BY <1>0, <1>1 DEF Return, Idle
<1>2. ASSUME NEW stage, NEW obj, Proceed(o, stage, obj),
             stage \in {"announce", "apply"} => worker[o].pc \in {"announce", "apply"}
      PROVE  worker'[p].revision \in Revisions
  BY <1>0, <1>2 DEF Proceed, Worker
<1>3. CASE PullFails(o)
  BY <1>2, <1>3 DEF PullFails
<1>4. CASE Pull(o)
  <2> DEFINE obj == worker[o].obj
             revision == head[obj.spec.source]
             manifest == <<revision, obj.spec.path>>
  <2>1. CASE manifest \in Unparsable
    BY <1>2, <1>4, <2>1 DEF Pull
  <2>2. CASE manifest \notin Unparsable
    <3>1. revision \in Revisions
      BY WorkerFields DEF ControllerTypeOK, AppSpec
    <3>2. worker'[o].revision = revision /\ (p # o => worker'[p] = worker[p])
      BY <1>0, <1>4, <2>2 DEF Pull
    <3> QED BY <1>0, <3>1, <3>2
  <2> QED BY <2>1, <2>2
<1>5. CASE Report(o)
  BY <1>1, <1>5 DEF Report
<1>6. CASE Announce(o)
  BY <1>2, <1>6 DEF Announce
<1>7. CASE ApplySucceeds(o)
  BY <1>2, <1>7 DEF ApplySucceeds
<1>8. CASE ApplyFails(o)
  BY <1>2, <1>8 DEF ApplyFails
<1>9. CASE ReportFailure(o)
  BY <1>2, <1>9 DEF ReportFailure
<1>10. CASE Commit(o)
  BY <1>1, <1>2, <1>10 DEF Commit
<1>11. CASE Notify(o)
  BY <1>1, <1>11 DEF Notify
<1> QED BY <1>3, <1>4, <1>5, <1>6, <1>7, <1>8, <1>9, <1>10, <1>11 DEF ReconcileStep

LEMMA ReconcileStepType ==
  ASSUME TypeOK, NEW o \in Operators, ReconcileStep(o)
  PROVE  ApiTypeOK' /\ ControllerTypeOK'
<1> DEFINE a == worker[o].app
           obj == worker[o].obj
<1> USE DEF TypeOK
<1>0. /\ a \in Apps /\ obj \in Object /\ obj.status \in Status /\ obj.spec \in AppSpec
      /\ worker[o].revision \in Revisions \cup {NoRevision}
      /\ worker[o].parsed \in Manifests \cup {NoManifest}
      /\ clock \in Nat
  BY WorkerFields DEF ApiTypeOK
<1>00. RevisionHeld'
  BY ReconcileStepHeld
<1>1. CASE PullFails(o)
  <2>1. updateStatus(obj.status, "Unknown", "Unknown", NoRevision, NoManifest, TRUE, clock)
          \in Status
    BY <1>0, UpdateStatusType DEF SyncStatuses, HealthStatuses
  <2>2. worker' \in [Operators -> Worker]
    BY <1>0, <1>1, <2>1, WithStatusType, ProceedType DEF PullFails, Stages
  <2>3. left' \in [Kinds -> Nat]
    BY <1>1, SpendType DEF PullFails, Kinds
  <2> QED BY <1>00, <1>1, <2>2, <2>3 DEF PullFails, ApiTypeOK, ControllerTypeOK
<1>2. CASE Pull(o)
  <2> DEFINE revision == head[obj.spec.source]
             manifest == <<revision, obj.spec.path>>
  <2>1. revision \in Revisions /\ manifest \in Manifests
    BY <1>0 DEF ControllerTypeOK, AppSpec, Manifests
  <2>2. worker' \in [Operators -> Worker]
    <3>1. CASE manifest \in Unparsable
      <4>1. updateStatus(obj.status, "OutOfSync", "Unknown", revision, NoManifest, TRUE, clock)
              \in Status
        BY <1>0, <2>1, UpdateStatusType DEF SyncStatuses, HealthStatuses
      <4> QED BY <1>0, <1>2, <3>1, <4>1, WithStatusType, ProceedType DEF Pull, Stages
    <3>2. CASE manifest \notin Unparsable
      <4> DEFINE next == Decision(obj, revision, Parsed(manifest))
      <4>1. Parsed(manifest) \in Manifests \cup {NoManifest}
        BY <2>1 DEF Parsed
      <4>2. /\ updateHealthStatus(obj.status, Parsed(manifest)) \in Status
            /\ updateStatus(obj.status, "OutOfSync", "Unknown", revision, Parsed(manifest),
                            FALSE, clock) \in Status
            /\ updateStatus(obj.status, "Syncing", "Progressing", revision, Parsed(manifest),
                            FALSE, clock) \in Status
        BY <1>0, <2>1, <4>1, UpdateStatusType, UpdateHealthStatusType
           DEF SyncStatuses, HealthStatuses
      <4>3. next.pc \in Stages /\ next.status \in Status
        BY <4>2 DEF Decision, Stages
      <4>4. [obj EXCEPT !.status = next.status] \in Object
        BY <1>0, <4>3, WithStatusType
      <4>5. worker' = [worker EXCEPT
              ![o] = [pc |-> next.pc, app |-> worker[o].app,
                      obj |-> [obj EXCEPT !.status = next.status],
                      revision |-> revision, parsed |-> Parsed(manifest)]]
        BY <1>2, <3>2 DEF Pull
      <4> HIDE DEF next
      <4> QED BY <1>0, <2>1, <4>1, <4>3, <4>4, <4>5 DEF ControllerTypeOK, Worker
    <3> QED BY <3>1, <3>2
  <2> QED BY <1>00, <1>2, <2>2 DEF Pull, ApiTypeOK, ControllerTypeOK, apiVars
<1>3. CASE Report(o)
  <2>1. ApiTypeOK' /\ recorded' \in [Apps -> SUBSET (Revisions \cup {NoRevision})]
    BY <1>3, UpdateStatusStep DEF Report
  <2>2. worker' \in [Operators -> Worker] /\ timers' \in [Operators -> SUBSET Apps]
    BY <1>3, ReturnType DEF Report
  <2> QED BY <1>00, <1>3, <2>1, <2>2 DEF Report, ControllerTypeOK
<1>4. CASE Announce(o)
  <2>1. PICK ok, got : UpdateStatus(o, ok, got) /\ Proceed(o, "apply", got)
    BY <1>4 DEF Announce
  <2>2. UNCHANGED <<cache, clock>>
    BY <1>4 DEF Announce
  <2>3. /\ ApiTypeOK' /\ got \in Object
        /\ recorded' \in [Apps -> SUBSET (Revisions \cup {NoRevision})]
    BY <2>1, <2>2, UpdateStatusStep
  <2>4. worker' \in [Operators -> Worker]
    BY <2>1, <2>3, ProceedType DEF Stages
  <2> QED BY <1>00, <1>4, <2>3, <2>4 DEF Announce, ControllerTypeOK
<1>5. CASE ReportFailure(o)
  <2>1. PICK ok, got : UpdateStatus(o, ok, got) /\ Proceed(o, "notifyErr", got)
    BY <1>5 DEF ReportFailure
  <2>2. UNCHANGED <<cache, clock>>
    BY <1>5 DEF ReportFailure
  <2>3. /\ ApiTypeOK' /\ got \in Object
        /\ recorded' \in [Apps -> SUBSET (Revisions \cup {NoRevision})]
    BY <2>1, <2>2, UpdateStatusStep
  <2>4. worker' \in [Operators -> Worker]
    BY <2>1, <2>3, ProceedType DEF Stages
  <2> QED BY <1>00, <1>5, <2>3, <2>4 DEF ReportFailure, ControllerTypeOK
<1>6. CASE Commit(o)
  <2>1. PICK ok, got : /\ UpdateStatus(o, ok, got)
                       /\ \/ Proceed(o, "notifyOk", got) /\ UNCHANGED timers
                          \/ Return(o)
    BY <1>6 DEF Commit
  <2>2. UNCHANGED <<cache, clock>>
    BY <1>6 DEF Commit
  <2>3. /\ ApiTypeOK' /\ got \in Object
        /\ recorded' \in [Apps -> SUBSET (Revisions \cup {NoRevision})]
    BY <2>1, <2>2, UpdateStatusStep
  <2>4. worker' \in [Operators -> Worker] /\ timers' \in [Operators -> SUBSET Apps]
    <3>1. CASE Proceed(o, "notifyOk", got) /\ UNCHANGED timers
      BY <2>3, <3>1, ProceedType DEF Stages, ControllerTypeOK
    <3>2. CASE Return(o)
      BY <3>2, ReturnType
    <3> QED BY <2>1, <3>1, <3>2
  <2> QED BY <1>00, <1>6, <2>3, <2>4 DEF Commit, ControllerTypeOK
<1>7. CASE Notify(o)
  <2>1. worker' \in [Operators -> Worker] /\ timers' \in [Operators -> SUBSET Apps]
    BY <1>7, ReturnType DEF Notify
  <2>2. obj.status.revision \in Revisions \cup {NoRevision}
    BY <1>0 DEF Status
  <2> DEFINE n == [app |-> worker[o].app, revision |-> worker[o].obj.status.revision,
                   success |-> worker[o].pc = "notifyOk"]
  <2>3. notices' \subseteq Notice
    <3>1. (worker[o].pc = "notifyOk") \in BOOLEAN
      OBVIOUS
    <3>2. n \in Notice
      BY <1>0, <2>2, <3>1, Zenon DEF Notice
    <3>3. notices' = notices \cup {n}
      BY <1>7, Zenon DEF Notify
    <3> HIDE DEF n
    <3> QED BY <3>2, <3>3 DEF ControllerTypeOK
  <2> QED BY <1>00, <1>7, <2>1, <2>3 DEF Notify, ApiTypeOK, ControllerTypeOK, apiVars
<1>8. CASE ApplySucceeds(o)
  <2>1. worker[o].revision \in Revisions
    BY <1>8 DEF ApplySucceeds, ControllerTypeOK, RevisionHeld
  <2>2. SyncedStatus(obj.status, worker[o].revision, worker[o].parsed, clock) \in Status
    BY <1>0, <2>1, SyncedStatusType
  <2>3. worker' \in [Operators -> Worker]
    BY <1>0, <1>8, <2>2, WithStatusType, ProceedType DEF ApplySucceeds, Stages
  <2>4. <<worker[o].revision, obj.spec.path>> \in Manifests
    BY <1>0, <2>1 DEF AppSpec, Manifests
  <2>5. /\ live' \in [Apps -> Manifests \cup {NoManifest}]
        /\ applied' \in [Apps -> SUBSET Manifests]
    BY <1>0, <1>8, <2>4 DEF ApplySucceeds, ControllerTypeOK
  <2> QED BY <1>00, <1>8, <2>3, <2>5 DEF ApplySucceeds, ApiTypeOK, ControllerTypeOK, apiVars
<1>9. CASE ApplyFails(o)
  <2>1. updateStatus(obj.status, "OutOfSync", "Degraded", worker[o].revision,
                     worker[o].parsed, TRUE, clock) \in Status
    BY <1>0, UpdateStatusType DEF SyncStatuses, HealthStatuses
  <2>2. worker' \in [Operators -> Worker]
    BY <1>0, <1>9, <2>1, WithStatusType, ProceedType DEF ApplyFails, Stages
  <2>3. left' \in [Kinds -> Nat]
    BY <1>9, SpendType DEF ApplyFails, Kinds
  <2>4. live' \in [Apps -> Manifests \cup {NoManifest}]
    BY <1>0, <1>9 DEF ApplyFails, ControllerTypeOK
  <2> QED BY <1>00, <1>9, <2>2, <2>3, <2>4 DEF ApplyFails, ApiTypeOK, ControllerTypeOK
<1> QED BY <1>1, <1>2, <1>3, <1>4, <1>5, <1>6, <1>7, <1>8, <1>9 DEF ReconcileStep

LEMMA ControllerType ==
  ASSUME TypeOK, NEW o \in Operators, NEW a \in Apps,
         Fetch(o, a) \/ Deliver(o, a) \/ TimerFires(o, a)
  PROVE  ApiTypeOK' /\ ControllerTypeOK'
<1> USE DEF TypeOK
<1>1. CASE Fetch(o, a)
  <2>1. cache[o][a] \in Object
    BY DEF ApiTypeOK
  <2>2. [Idle EXCEPT !.pc = "pull", !.app = a, !.obj = cache[o][a]] \in Worker
    BY <2>1, IdleType DEF Worker, Stages
  <2>3. worker' \in [Operators -> Worker] /\ RevisionHeld'
    <3>1. CASE worker' = [worker EXCEPT ![o] = [Idle EXCEPT !.pc = "pull", !.app = a,
                                                            !.obj = cache[o][a]]]
      <4>1. worker' \in [Operators -> Worker]
        BY <2>2, <3>1 DEF ControllerTypeOK
      <4>2. worker'[o].pc = "pull"
        BY <2>2, <3>1, IdleType DEF ControllerTypeOK, Worker
      <4>3. \A p \in Operators : p # o => worker'[p] = worker[p]
        BY <3>1 DEF ControllerTypeOK
      <4> QED BY <4>1, <4>2, <4>3 DEF ControllerTypeOK, RevisionHeld
    <3>2. CASE UNCHANGED worker
      BY <3>2 DEF ControllerTypeOK, RevisionHeld
    <3> QED BY <1>1, <3>1, <3>2 DEF Fetch, Forget
  <2>4. timers' \in [Operators -> SUBSET Apps] /\ queue' \in [Operators -> SUBSET Apps]
    BY <1>1 DEF Fetch, Forget, ControllerTypeOK
  <2>5. left' \in [Kinds -> Nat]
    BY <1>1, SpendType DEF Fetch, Kinds, ApiTypeOK
  <2> QED BY <1>1, <2>3, <2>4, <2>5 DEF Fetch, ApiTypeOK, ControllerTypeOK
<1>2. CASE Deliver(o, a)
  <2>1. watch[o][a] \in Seq(Object) /\ watch[o][a] # <<>>
    BY <1>2 DEF Deliver, CacheNext, ApiTypeOK
  <2>2. Head(watch[o][a]) \in Object /\ Tail(watch[o][a]) \in Seq(Object)
    BY <2>1
  <2>3. ApiTypeOK'
    BY <1>2, <2>2 DEF Deliver, CacheNext, ApiTypeOK
  <2> QED BY <1>2, <2>3 DEF Deliver, ControllerTypeOK, RevisionHeld
<1>3. CASE TimerFires(o, a)
  BY <1>3 DEF TimerFires, ApiTypeOK, ControllerTypeOK, RevisionHeld, apiVars
<1> QED BY <1>1, <1>2, <1>3

LEMMA AnnotateType ==
  ASSUME TypeOK, NEW o \in Operators, NEW a \in Apps, Annotate(o, a)
  PROVE  ApiTypeOK' /\ HookTypeOK'
<1> USE DEF TypeOK
<1> DEFINE obj == [hook[o][a] EXCEPT !.note = clock]
<1>1. obj \in Object
  <2>1. hook[o][a] \in Object /\ clock \in Nat
    BY DEF HookTypeOK, ApiTypeOK
  <2> QED BY <2>1 DEF Object
<1>2. MainRevised(a, obj) \in Object
  BY <1>1, MainRevisedType
<1>3. PICK ok, got : Write(a, obj, MainRevised(a, obj), ok, got)
  BY DEF Annotate
<1>4. ApiTypeOK'
  <2>1. UNCHANGED <<cache, clock>>
    BY DEF Annotate
  <2> QED BY <1>1, <1>2, <1>3, <2>1, WriteType
<1>5. HookTypeOK'
  BY NoObjectType DEF Annotate, HookTypeOK
<1> QED BY <1>4, <1>5

LEMMA UsersType ==
  ASSUME TypeOK, Users
  PROVE  ApiTypeOK'
<1> USE DEF TypeOK
<1>1. PICK a \in Apps : \/ \E spec \in AppSpec : EditSpec(a, spec) \/ Create(a, spec)
                        \/ Delete(a)
  BY DEF Users
<1>2. /\ api[a] \in Object
      /\ api[a].rv + 1 \in Nat
      /\ \A obj \in Object, n \in Nat : [obj EXCEPT !.rv = n] \in Object
      /\ \A obj \in Object, spec \in AppSpec : [obj EXCEPT !.spec = spec] \in Object
      /\ \A obj \in Object : [obj EXCEPT !.exists = FALSE] \in Object
  <2>1. api[a] \in Object
    BY DEF ApiTypeOK
  <2>2. api[a].rv \in Nat
    BY <2>1 DEF Object
  <2>3. \A obj \in Object, n \in Nat : [obj EXCEPT !.rv = n] \in Object
    BY DEF Object
  <2>4. \A obj \in Object, spec \in AppSpec : [obj EXCEPT !.spec = spec] \in Object
    BY DEF Object
  <2>5. \A obj \in Object : [obj EXCEPT !.exists = FALSE] \in Object
    BY DEF Object
  <2> QED BY <2>1, <2>2, <2>3, <2>4, <2>5
<1>3. ASSUME NEW spec \in AppSpec, EditSpec(a, spec) PROVE ApiTypeOK'
  <2>1. [api[a] EXCEPT !.spec = spec, !.rv = @ + 1] \in Object
    BY <1>2
  <2>2. left' \in [Kinds -> Nat]
    BY <1>3, SpendType DEF EditSpec, Kinds
  <2> QED BY <1>3, <2>1, <2>2, StoreType DEF EditSpec, ApiTypeOK
<1>4. ASSUME NEW spec \in AppSpec, Create(a, spec) PROVE ApiTypeOK'
  <2>1. Created(spec, api[a].rv + 1) \in Object
    BY <1>2, EmptyStatusType DEF Created, Object
  <2> QED BY <1>4, <2>1, StoreType DEF Create, ApiTypeOK
<1>5. CASE Delete(a)
  <2>1. [api[a] EXCEPT !.exists = FALSE, !.rv = @ + 1] \in Object
    BY <1>2
  <2>2. left' \in [Kinds -> Nat]
    BY <1>5, SpendType DEF Delete, Kinds
  <2> QED BY <1>5, <2>1, <2>2, StoreType DEF Delete, ApiTypeOK
<1> QED BY <1>1, <1>3, <1>4, <1>5

LEMMA UnchangedController ==
  ASSUME ControllerTypeOK, UNCHANGED controllerVars
  PROVE  ControllerTypeOK'
BY DEF ControllerTypeOK, RevisionHeld, controllerVars

LEMMA TypeNext == TypeOK /\ [Next]_vars => TypeOK'
<1> SUFFICES ASSUME TypeOK, [Next]_vars PROVE TypeOK'
  OBVIOUS
<1>1. ASSUME NEW o \in Operators, Controller(o) PROVE TypeOK'
  <2>1. HookTypeOK'
    BY <1>1 DEF Controller, TypeOK, HookTypeOK
  <2>2. ApiTypeOK' /\ ControllerTypeOK'
    BY <1>1, ReconcileStepType, ControllerType DEF Controller
  <2> QED BY <2>1, <2>2 DEF TypeOK
<1>2. ASSUME NEW o \in Operators, Webhook(o) PROVE TypeOK'
  <2>1. ControllerTypeOK'
    BY <1>2, UnchangedController DEF Webhook, TypeOK
  <2>2. ASSUME NEW s \in Sources, ReceivePush(o, s) PROVE ApiTypeOK' /\ HookTypeOK'
    <3>1. left' \in [Kinds -> Nat]
      BY <2>2, SpendType DEF ReceivePush, Kinds, TypeOK
    <3>2. Matching(o, s) \in [Apps -> Object]
      BY NoObjectType DEF Matching, TypeOK, ApiTypeOK
    <3> QED BY <2>2, <3>1, <3>2 DEF ReceivePush, TypeOK, ApiTypeOK, HookTypeOK
  <2>3. ASSUME NEW a \in Apps, Annotate(o, a) PROVE ApiTypeOK' /\ HookTypeOK'
    BY <2>3, AnnotateType
  <2> QED BY <1>2, <2>1, <2>2, <2>3 DEF Webhook, TypeOK
<1>3. ASSUME NEW o \in Operators, Restart(o) PROVE TypeOK'
  <2>1. left' \in [Kinds -> Nat]
    BY <1>3, SpendType DEF Restart, RestartController, Kinds, TypeOK
  <2>2. ApiTypeOK'
    BY <1>3, <2>1 DEF Restart, RestartController, CacheList, TypeOK, ApiTypeOK
  <2>3. worker' \in [Operators -> Worker] /\ RevisionHeld'
    <3>1. worker' = [worker EXCEPT ![o] = Idle]
      BY <1>3 DEF Restart, RestartController
    <3>2. Idle.pc = "idle"
      BY DEF Idle
    <3> QED BY <3>1, <3>2, IdleType DEF TypeOK, ControllerTypeOK, RevisionHeld
  <2>4. ControllerTypeOK'
    BY <1>3, <2>3 DEF Restart, RestartController, TypeOK, ControllerTypeOK, Existing
  <2>5. HookTypeOK'
    BY <1>3, NoObjectType DEF Restart, NoCopies, TypeOK, HookTypeOK
  <2> QED BY <2>2, <2>4, <2>5 DEF TypeOK
<1>4. CASE Users
  <2>1. ControllerTypeOK' /\ HookTypeOK'
    BY <1>4, UnchangedController DEF Users, TypeOK, HookTypeOK
  <2> QED BY <1>4, <2>1, UsersType DEF TypeOK
<1>5. CASE World
  <2>1. CASE Tick /\ UNCHANGED controllerVars /\ UNCHANGED hook
    <3>1. left' \in [Kinds -> Nat]
      BY <2>1, SpendType DEF Tick, Kinds, TypeOK
    <3> QED BY <2>1, <3>1, UnchangedController DEF Tick, TypeOK, ApiTypeOK, HookTypeOK
  <2>2. ASSUME NEW s \in Sources, NEW r \in Revisions, Push(s, r), UNCHANGED hook
        PROVE  TypeOK'
    <3>1. left' \in [Kinds -> Nat]
      BY <2>2, SpendType DEF Push, Kinds, TypeOK
    <3> QED BY <2>2, <3>1
            DEF Push, TypeOK, ApiTypeOK, ControllerTypeOK, RevisionHeld, HookTypeOK
  <2> QED BY <1>5, <2>1, <2>2 DEF World
<1>6. CASE UNCHANGED vars
  BY <1>6 DEF vars, TypeOK, ApiTypeOK, ControllerTypeOK, RevisionHeld, HookTypeOK
<1> QED BY <1>1, <1>2, <1>3, <1>4, <1>5, <1>6 DEF Next

(* Every variable keeps its type, for any number of applications, processes,*)
(* revisions and failures; in particular what is applied is always a        *)
(* revision that was pulled (gitapplication_controller.go:52-90).           *)
THEOREM TypeCorrect == Spec => []TypeOK
BY TypeInit, TypeNext, PTL DEF Spec
=============================================================================
