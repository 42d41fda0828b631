------------------------ MODULE OperatorSafetyProofs ------------------------
(***************************************************************************)
(* SyncedWasApplied and NoticeTruthful hold of Operator, and Operator      *)
(* implements SyncContract, for all values of the constants.               *)
(***************************************************************************)
EXTENDS OperatorProofs

-----------------------------------------------------------------------------
(* Which statuses call a revision Synced. *)

LEMMA UpdateStatusSync ==
  ASSUME NEW st \in Status, NEW sync \in SyncStatuses, NEW health \in HealthStatuses,
         NEW revision \in Revisions \cup {NoRevision}, NEW parsed \in Manifests \cup {NoManifest},
         NEW failed \in BOOLEAN, NEW now \in Nat, sync # "Synced"
  PROVE  updateStatus(st, sync, health, revision, parsed, failed, now).sync # "Synced"
BY DEF updateStatus, updateCondition, Status

LEMMA UpdateHealthStatusSync ==
  ASSUME NEW st \in Status, NEW parsed
  PROVE  /\ updateHealthStatus(st, parsed).sync = st.sync
         /\ updateHealthStatus(st, parsed).revision = st.revision
BY DEF updateHealthStatus, Status

LEMMA SyncedStatusSync ==
  ASSUME NEW st \in Status, NEW revision, NEW parsed, NEW now
  PROVE  /\ SyncedStatus(st, revision, parsed, now).sync = "Synced"
         /\ SyncedStatus(st, revision, parsed, now).revision = revision
BY DEF SyncedStatus, Status

LEMMA WithStatus ==
  ASSUME NEW obj \in Object, NEW st \in Status
  PROVE  [obj EXCEPT !.status = st].status = st
BY DEF Object

LEMMA StatusRevisedStatus ==
  ASSUME ApiTypeOK, NEW a \in Apps, NEW obj \in Object
  PROVE  StatusRevised(a, obj).status = obj.status
<1> DEFINE new == [api[a] EXCEPT !.status = obj.status]
<1>1. api[a] \in Object
  BY DEF ApiTypeOK
<1>2. new.status = obj.status /\ [new EXCEPT !.rv = api[a].rv + 1].status = obj.status
  BY <1>1 DEF Object
<1> QED BY <1>2 DEF StatusRevised, Revised

LEMMA MainRevisedStatus ==
  ASSUME ApiTypeOK, NEW a \in Apps, NEW obj
  PROVE  MainRevised(a, obj).status = api[a].status
<1> DEFINE new == [api[a] EXCEPT !.spec = obj.spec, !.note = obj.note]
<1>1. api[a] \in Object
  BY DEF ApiTypeOK
<1>2. new.status = api[a].status /\ [new EXCEPT !.rv = api[a].rv + 1].status = api[a].status
  BY <1>1 DEF Object
<1> QED BY <1>2 DEF MainRevised, Revised

-----------------------------------------------------------------------------
(* applied only grows. *)

LEMMA AppliedSteps ==
  ASSUME [Next]_vars
  PROVE  UNCHANGED applied \/ \E o \in Operators : ApplySucceeds(o)
<1>1. ASSUME NEW o \in Operators, ReconcileStep(o)
      PROVE  UNCHANGED applied \/ ApplySucceeds(o)
  BY <1>1 DEF ReconcileStep, PullFails, Pull, Report, Announce, ApplyFails, ReportFailure,
              Commit, Notify
<1>2. ASSUME NEW o \in Operators, Controller(o)
      PROVE  UNCHANGED applied \/ ApplySucceeds(o)
  BY <1>1, <1>2 DEF Controller, Fetch, Deliver, TimerFires
<1>3. ASSUME NEW o \in Operators, Webhook(o) \/ Restart(o)
      PROVE  UNCHANGED applied
  BY <1>3 DEF Webhook, Restart, RestartController, controllerVars
<1>4. Users \/ World \/ UNCHANGED vars => UNCHANGED applied
  BY DEF Users, World, Push, controllerVars, vars
<1> QED BY <1>2, <1>3, <1>4 DEF Next

LEMMA AppliedGrows ==
  ASSUME TypeOK, [Next]_vars, NEW a \in Apps
  PROVE  AppliedRevisions(a) \subseteq AppliedRevisions(a)'
<1>1. CASE UNCHANGED applied
  BY <1>1 DEF AppliedRevisions
<1>2. ASSUME NEW o \in Operators, ApplySucceeds(o)
      PROVE  AppliedRevisions(a) \subseteq AppliedRevisions(a)'
  <2>1. applied[a] \subseteq applied'[a]
    BY <1>2 DEF ApplySucceeds, TypeOK, ControllerTypeOK
  <2> QED BY <2>1 DEF AppliedRevisions
<1> QED BY <1>1, <1>2, AppliedSteps

LEMMA BackedGrows ==
  ASSUME TypeOK, [Next]_vars, NEW a \in Apps, NEW obj, Backed(a, obj)
  PROVE  obj.status.sync = "Synced" => obj.status.revision \in AppliedRevisions(a)'
BY AppliedGrows DEF Backed

LEMMA InAppliedRevisions ==
  ASSUME NEW a \in Apps, NEW r \in Revisions, NEW p \in Paths, <<r, p>> \in applied'[a]
  PROVE  r \in AppliedRevisions(a)'
BY DEF AppliedRevisions

-----------------------------------------------------------------------------
(* Writes keep the copies in the API server and in the caches backed. *)

LEMMA StoreBacked ==
  ASSUME TypeOK, [Next]_vars, StoredBacked, CachesBacked, UNCHANGED cache,
         NEW a \in Apps, NEW new \in Object, Backed(a, new), Store(a, new)
  PROVE  /\ \A b \in Apps : Backed(b, api[b])'
         /\ CachesBacked'
<1>1. ASSUME NEW b \in Apps PROVE Backed(b, api[b])'
  <2>1. api'[b] = api[b] \/ (b = a /\ api'[b] = new)
    BY DEF Store, TypeOK, ApiTypeOK
  <2> QED BY <2>1, BackedGrows DEF StoredBacked, Backed
<1>2. ASSUME NEW o \in Operators, NEW b \in Apps,
             NEW i \in 1 .. Len(watch'[o][b])
      PROVE  Backed(b, watch[o][b][i])'
  <2>1. watch[o][b] \in Seq(Object)
    BY DEF TypeOK, ApiTypeOK
  <2>2. watch'[o][b] = watch[o][b] \/ (b = a /\ watch'[o][b] = Append(watch[o][b], new))
    BY DEF Store, TypeOK, ApiTypeOK
  <2>3. \/ i \in 1 .. Len(watch[o][b]) /\ watch'[o][b][i] = watch[o][b][i]
        \/ b = a /\ watch'[o][b][i] = new
    BY <2>1, <2>2, <1>2
  <2> QED BY <2>3, BackedGrows DEF CachesBacked, Backed
<1>3. ASSUME NEW o \in Operators, NEW b \in Apps PROVE Backed(b, cache[o][b])'
  BY BackedGrows DEF CachesBacked, Backed
<1> QED BY <1>1, <1>2, <1>3 DEF CachesBacked

LEMMA WriteBacked ==
  ASSUME TypeOK, [Next]_vars, StoredBacked, CachesBacked, UNCHANGED cache,
         NEW a \in Apps, NEW obj \in Object, NEW revised \in Object, Backed(a, revised),
         NEW ok, NEW got, Write(a, obj, revised, ok, got)
  PROVE  /\ \A b \in Apps : Backed(b, api[b])'
         /\ CachesBacked'
         /\ got \in {obj, revised}
         /\ ok => api'[a] = revised
<1>1. Store(a, revised) \/ UNCHANGED <<api, watch>>
  BY DEF Write
<1>2. CASE Store(a, revised)
  BY <1>2, StoreBacked DEF Write, Store, TypeOK, ApiTypeOK
<1>3. CASE UNCHANGED <<api, watch>>
  <2>1. \A b \in Apps : Backed(b, api[b])'
    BY <1>3, BackedGrows DEF StoredBacked, Backed
  <2>2. CachesBacked'
    BY <1>3, BackedGrows DEF CachesBacked, Backed
  <2> QED BY <1>3, <2>1, <2>2 DEF Write, Store, TypeOK, ApiTypeOK
<1> QED BY <1>1, <1>2, <1>3

LEMMA UpdateStatusBacked ==
  ASSUME TypeOK, [Next]_vars, StoredBacked, CachesBacked, UNCHANGED cache,
         NEW o \in Operators, Backed(worker[o].app, worker[o].obj),
         NEW ok, NEW got, UpdateStatus(o, ok, got)
  PROVE  /\ StoredBacked' /\ CachesBacked'
         /\ got \in Object /\ got.status = worker[o].obj.status
         /\ \A b \in Apps : recorded[b] \subseteq recorded'[b]
         /\ ok /\ got.status.sync = "Synced"
              => got.status.revision \in recorded'[worker[o].app]
<1> DEFINE a == worker[o].app
           obj == worker[o].obj
           revised == StatusRevised(a, obj)
<1>1. a \in Apps /\ obj \in Object
  BY WorkerFields DEF TypeOK
<1>2. revised \in Object /\ revised.status = obj.status
  BY <1>1, StatusRevisedType, StatusRevisedStatus DEF TypeOK
<1>3. Backed(a, revised)
  BY <1>2 DEF Backed
<1>4. Write(a, obj, revised, ok, got) /\ NoteRecorded(a)
  BY DEF UpdateStatus
<1>5. /\ \A b \in Apps : Backed(b, api[b])'
      /\ CachesBacked'
      /\ got \in {obj, revised}
      /\ ok => api'[a] = revised
  <2> HIDE DEF a, obj, revised
  <2> QED BY <1>1, <1>2, <1>3, <1>4, WriteBacked
<1>6. \A b \in Apps :
        \/ recorded'[b] = recorded[b]
        \/ /\ b = a /\ api'[a].status.sync = "Synced"
           /\ recorded'[b] = recorded[b] \cup {api'[a].status.revision}
  BY <1>1, <1>4 DEF NoteRecorded, TypeOK, ControllerTypeOK
<1>7. StoredBacked'
  <2> SUFFICES ASSUME NEW b \in Apps PROVE (recorded[b] \subseteq AppliedRevisions(b))'
    BY <1>5 DEF StoredBacked
  <2>1. recorded[b] \subseteq AppliedRevisions(b)'
    BY AppliedGrows DEF StoredBacked
  <2>2. b = a /\ api'[a].status.sync = "Synced"
          => api'[a].status.revision \in AppliedRevisions(b)'
    BY <1>1, <1>5 DEF Backed
  <2> QED BY <1>6, <2>1, <2>2
<1>8. ok /\ got.status.sync = "Synced" => got.status.revision \in recorded'[a]
  <2> SUFFICES ASSUME ok, got.status.sync = "Synced"
               PROVE  got.status.revision \in recorded'[a]
    OBVIOUS
  <2>1. api'[a].status = got.status
    BY <1>2, <1>5
  <2> QED BY <1>1, <1>4, <2>1 DEF NoteRecorded, TypeOK, ControllerTypeOK
<1>9. got \in Object /\ got.status = obj.status
  BY <1>1, <1>2, <1>5
<1>10. \A b \in Apps : recorded[b] \subseteq recorded'[b]
  BY <1>6
<1> HIDE DEF a, revised
<1> QED BY <1>5, <1>7, <1>8, <1>9, <1>10 DEF a

-----------------------------------------------------------------------------
(* Steps of the reconciler. *)

LEMMA SoundKept ==
  ASSUME TypeOK, [Next]_vars, WorkersSound,
         \A b \in Apps : recorded[b] \subseteq recorded'[b],
         NEW p \in Operators, worker'[p] = worker[p]
  PROVE  Sound(worker[p])'
<1>1. worker[p].app \in Apps
  BY WorkerFields DEF TypeOK
<1> QED BY <1>1, BackedGrows DEF WorkersSound, Sound, Backed

LEMMA OneWorkerSound ==
  ASSUME TypeOK, [Next]_vars, WorkersSound,
         \A b \in Apps : recorded[b] \subseteq recorded'[b],
         NEW o \in Operators, Sound(worker[o])',
         \A p \in Operators : p # o => worker'[p] = worker[p]
  PROVE  WorkersSound'
BY SoundKept DEF WorkersSound

LEMMA CopiesKept ==
  ASSUME TypeOK, [Next]_vars, StoredBacked, CachesBacked,
         UNCHANGED <<api, watch, cache, recorded>>
  PROVE  StoredBacked' /\ CachesBacked'
<1>1. StoredBacked'
  BY AppliedGrows, BackedGrows DEF StoredBacked, Backed
<1>2. CachesBacked'
  BY BackedGrows DEF CachesBacked, Backed
<1> QED BY <1>1, <1>2

LEMMA ReturnSound ==
  ASSUME TypeOK, NEW o \in Operators, Return(o)
  PROVE  Sound(worker[o])' /\ \A p \in Operators : p # o => worker'[p] = worker[p]
<1>1. worker'[o] = Idle /\ \A p \in Operators : p # o => worker'[p] = worker[p]
  BY DEF Return, TypeOK, ControllerTypeOK
<1>2. worker'[o].pc = "idle"
  BY <1>1 DEF Idle
<1> QED BY <1>1, <1>2 DEF Sound

LEMMA ProceedWorker ==
  ASSUME TypeOK, NEW o \in Operators, NEW stage \in Stages, NEW obj \in Object, Proceed(o, stage, obj)
  PROVE  /\ worker'[o].pc = stage /\ worker'[o].obj = obj /\ worker'[o].app = worker[o].app
         /\ \A p \in Operators : p # o => worker'[p] = worker[p]
BY DEF Proceed, TypeOK, ControllerTypeOK, Worker

LEMMA ProceedStatus ==
  ASSUME TypeOK, NEW o \in Operators, NEW stage \in Stages, NEW st \in Status,
         Proceed(o, stage, [worker[o].obj EXCEPT !.status = st])
  PROVE  /\ worker'[o].pc = stage /\ worker'[o].obj.status = st
         /\ worker'[o].app = worker[o].app
         /\ \A p \in Operators : p # o => worker'[p] = worker[p]
<1> DEFINE new == [worker[o].obj EXCEPT !.status = st]
<1>1. worker[o].obj \in Object
  BY WorkerFields DEF TypeOK
<1>2. new \in Object /\ new.status = st
  BY <1>1, WithStatus, WithStatusType
<1>3. Proceed(o, stage, new)
  OBVIOUS
<1> HIDE DEF new
<1> QED BY <1>2, <1>3, ProceedWorker

LEMMA ReconcileSound ==
  ASSUME SafetyInv, [Next]_vars, NEW o \in Operators, ReconcileStep(o)
  PROVE  StoredBacked' /\ CachesBacked' /\ WorkersSound' /\ NoticeTruthful'
<1> DEFINE a == worker[o].app
           obj == worker[o].obj
<1> USE DEF SafetyInv
<1>0. /\ a \in Apps /\ obj \in Object /\ obj.status \in Status /\ clock \in Nat
      /\ worker[o].revision \in Revisions \cup {NoRevision}
      /\ worker[o].parsed \in Manifests \cup {NoManifest}
  BY WorkerFields DEF TypeOK, ApiTypeOK
<1>b. worker[o].pc # "idle" => Backed(a, obj)
  BY DEF WorkersSound, Sound
<1>1. CASE PullFails(o)
  <2> DEFINE st == updateStatus(obj.status, "Unknown", "Unknown", NoRevision, NoManifest, TRUE, clock)
  <2>1. StoredBacked' /\ CachesBacked'
    BY <1>1, CopiesKept DEF PullFails
  <2>2. st.sync # "Synced" /\ st \in Status
    <3>1. st.sync # "Synced"
      BY <1>0, UpdateStatusSync DEF SyncStatuses, HealthStatuses
    <3>2. st \in Status
      BY <1>0, UpdateStatusType DEF SyncStatuses, HealthStatuses
    <3> QED BY <3>1, <3>2
  <2>3. Proceed(o, "report", [obj EXCEPT !.status = st])
    BY <1>1, <1>0 DEF PullFails, Object
  <2> HIDE DEF st
  <2>4. Sound(worker[o])'
    BY <2>2, <2>3, ProceedStatus DEF Sound, Backed, Stages
  <2>5. WorkersSound'
    BY <1>1, <2>3, <2>4, ProceedStatus, <2>2, OneWorkerSound DEF Stages, PullFails
  <2> QED BY <1>1, <2>1, <2>5 DEF PullFails, NoticeTruthful
<1>2. CASE Pull(o)
  <2> DEFINE revision == head[obj.spec.source]
             manifest == <<revision, obj.spec.path>>
  <2>0. revision \in Revisions /\ Parsed(manifest) \in Manifests \cup {NoManifest}
    BY WorkerFields DEF TypeOK, ControllerTypeOK, AppSpec, Parsed, Manifests
  <2>1. StoredBacked' /\ CachesBacked'
    BY <1>2, CopiesKept DEF Pull, apiVars
  <2>2. /\ Sound(worker[o])'
        /\ \A p \in Operators : p # o => worker'[p] = worker[p]
    <3>1. CASE manifest \in Unparsable
      <4> DEFINE st == updateStatus(obj.status, "OutOfSync", "Unknown", revision, NoManifest, TRUE, clock)
      <4>1. st.sync # "Synced" /\ st \in Status
        <5>1. st.sync # "Synced"
          BY <1>0, <2>0, UpdateStatusSync DEF SyncStatuses, HealthStatuses
        <5>2. st \in Status
          BY <1>0, <2>0, UpdateStatusType DEF SyncStatuses, HealthStatuses
        <5> QED BY <5>1, <5>2
      <4>2. Proceed(o, "report", [obj EXCEPT !.status = st])
        BY <1>0, <1>2, <3>1 DEF Pull, Object
      <4> HIDE DEF st
      <4> QED BY <4>1, <4>2, ProceedStatus DEF Sound, Backed, Stages
    <3>2. CASE manifest \notin Unparsable
      <4> DEFINE next == Decision(obj, revision, Parsed(manifest))
                 new == [obj EXCEPT !.status = next.status]
      <4>1. /\ worker'[o] = [pc |-> next.pc, app |-> a, obj |-> new,
                             revision |-> revision, parsed |-> Parsed(manifest)]
            /\ \A p \in Operators : p # o => worker'[p] = worker[p]
        BY <1>2, <3>2 DEF Pull, TypeOK, ControllerTypeOK
      <4>2. /\ next.pc \in {"report", "announce"}
            /\ next.status.sync = "Synced" =>
                 obj.status.sync = "Synced" /\ next.status.revision = obj.status.revision
        <5>1. CASE UpToDate(obj.status, revision)
          <6>1. next = [pc |-> "report", status |-> updateHealthStatus(obj.status, Parsed(manifest))]
            BY <5>1 DEF Decision
          <6> QED BY <1>0, <6>1, UpdateHealthStatusSync
        <5>2. CASE ~UpToDate(obj.status, revision) /\ ~ShouldSync(obj.spec, obj.status)
          <6>1. next = [pc |-> "report",
                        status |-> updateStatus(obj.status, "OutOfSync", "Unknown", revision,
                                                Parsed(manifest), FALSE, clock)]
            BY <5>2 DEF Decision
          <6> DEFINE st == updateStatus(obj.status, "OutOfSync", "Unknown", revision,
                                        Parsed(manifest), FALSE, clock)
          <6>2. st.sync # "Synced"
            <7>1. "OutOfSync" \in SyncStatuses /\ "Unknown" \in HealthStatuses /\ FALSE \in BOOLEAN
              BY DEF SyncStatuses, HealthStatuses
            <7> QED BY <1>0, <2>0, <7>1, UpdateStatusSync
          <6> HIDE DEF st, next
          <6>3. next.status = st /\ next.pc \in {"report", "announce"}
            BY <6>1 DEF st
          <6> QED BY <6>2, <6>3
        <5>3. CASE ~UpToDate(obj.status, revision) /\ ShouldSync(obj.spec, obj.status)
          <6>1. next = [pc |-> "announce",
                        status |-> updateStatus(obj.status, "Syncing", "Progressing", revision,
                                                Parsed(manifest), FALSE, clock)]
            BY <5>3 DEF Decision
          <6> DEFINE st == updateStatus(obj.status, "Syncing", "Progressing", revision,
                                        Parsed(manifest), FALSE, clock)
          <6>2. st.sync # "Synced"
            <7>1. "Syncing" \in SyncStatuses /\ "Progressing" \in HealthStatuses /\ FALSE \in BOOLEAN
              BY DEF SyncStatuses, HealthStatuses
            <7> QED BY <1>0, <2>0, <7>1, UpdateStatusSync
          <6> HIDE DEF st, next
          <6>3. next.status = st /\ next.pc \in {"report", "announce"}
            BY <6>1 DEF st
          <6> QED BY <6>2, <6>3
        <5> QED BY <5>1, <5>2, <5>3
      <4>3. new.status = next.status
        BY <1>0, WithStatus
      <4>4. Backed(a, obj)
        BY <1>2, <1>b DEF Pull
      <4> HIDE DEF next, new
      <4>5. \A b \in Apps : b = a /\ new.status.sync = "Synced"
                             => new.status.revision \in AppliedRevisions(b)'
        BY <4>2, <4>3, <4>4, AppliedGrows DEF Backed
      <4>6. /\ worker'[o].pc \in {"report", "announce"}
            /\ worker'[o].app = a /\ worker'[o].obj = new
        BY <4>1, <4>2
      <4>7. Sound(worker[o])'
        BY <1>0, <4>5, <4>6 DEF Sound, Backed
      <4> QED BY <4>1, <4>7
    <3> QED BY <3>1, <3>2
  <2>3. WorkersSound'
    BY <1>2, <2>2, OneWorkerSound DEF Pull
  <2> QED BY <1>2, <2>1, <2>3 DEF Pull, NoticeTruthful
<1>3. CASE Report(o)
  <2>1. PICK ok, got : UpdateStatus(o, ok, got)
    BY <1>3 DEF Report
  <2>2. UNCHANGED cache /\ worker[o].pc # "idle" /\ UNCHANGED notices
    BY <1>3 DEF Report
  <2>3. /\ StoredBacked' /\ CachesBacked'
        /\ \A b \in Apps : recorded[b] \subseteq recorded'[b]
    BY <1>b, <2>1, <2>2, UpdateStatusBacked
  <2>4. WorkersSound'
    BY <1>3, <2>3, ReturnSound, OneWorkerSound DEF Report
  <2>5. NoticeTruthful'
    BY <2>2, <2>3 DEF NoticeTruthful, TypeOK, ControllerTypeOK, Notice
  <2> QED BY <2>3, <2>4, <2>5
<1>4. CASE Announce(o)
  <2>1. PICK ok, got : UpdateStatus(o, ok, got) /\ Proceed(o, "apply", got)
    BY <1>4 DEF Announce
  <2>2. UNCHANGED cache /\ worker[o].pc # "idle" /\ UNCHANGED notices
    BY <1>4 DEF Announce
  <2>3. /\ StoredBacked' /\ CachesBacked'
        /\ got \in Object /\ got.status = obj.status
        /\ \A b \in Apps : recorded[b] \subseteq recorded'[b]
    BY <1>b, <2>1, <2>2, UpdateStatusBacked
  <2>4. Sound(worker[o])'
    BY <1>0, <1>b, <2>1, <2>2, <2>3, ProceedWorker, AppliedGrows DEF Sound, Backed, Stages
  <2>5. WorkersSound'
    BY <2>1, <2>3, <2>4, ProceedWorker, OneWorkerSound DEF Stages
  <2>6. NoticeTruthful'
    BY <2>2, <2>3 DEF NoticeTruthful, TypeOK, ControllerTypeOK, Notice
  <2> QED BY <2>3, <2>5, <2>6
<1>9. CASE ReportFailure(o)
  <2>1. PICK ok, got : UpdateStatus(o, ok, got) /\ Proceed(o, "notifyErr", got)
    BY <1>9 DEF ReportFailure
  <2>2. UNCHANGED cache /\ worker[o].pc # "idle" /\ UNCHANGED notices
    BY <1>9 DEF ReportFailure
  <2>3. /\ StoredBacked' /\ CachesBacked'
        /\ got \in Object /\ got.status = obj.status
        /\ \A b \in Apps : recorded[b] \subseteq recorded'[b]
    BY <1>b, <2>1, <2>2, UpdateStatusBacked
  <2>4. Sound(worker[o])'
    BY <1>0, <1>b, <2>1, <2>2, <2>3, ProceedWorker, AppliedGrows DEF Sound, Backed, Stages
  <2>5. WorkersSound'
    BY <2>1, <2>3, <2>4, ProceedWorker, OneWorkerSound DEF Stages
  <2>6. NoticeTruthful'
    BY <2>2, <2>3 DEF NoticeTruthful, TypeOK, ControllerTypeOK, Notice
  <2> QED BY <2>3, <2>5, <2>6
<1>5. CASE ApplySucceeds(o)
  <2> DEFINE st == SyncedStatus(obj.status, worker[o].revision, worker[o].parsed, clock)
  <2>1. StoredBacked' /\ CachesBacked'
    BY <1>5, CopiesKept DEF ApplySucceeds, apiVars
  <2>2. st.sync = "Synced" /\ st.revision = worker[o].revision /\ st \in Status
    <3>1. worker[o].revision \in Revisions
      BY <1>5 DEF ApplySucceeds, TypeOK, ControllerTypeOK, RevisionHeld
    <3>2. st \in Status
      BY <1>0, <3>1, SyncedStatusType
    <3>3. st.sync = "Synced" /\ st.revision = worker[o].revision
      BY <1>0, SyncedStatusSync
    <3> QED BY <3>2, <3>3
  <2>3. Proceed(o, "commit", [obj EXCEPT !.status = st])
    BY <1>0, <1>5 DEF ApplySucceeds, Object
  <2>4. \A b \in Apps : b = a => worker[o].revision \in AppliedRevisions(b)'
    <3>1. worker[o].revision \in Revisions /\ obj.spec.path \in Paths
      BY <1>5, WorkerFields DEF ApplySucceeds, TypeOK, ControllerTypeOK, RevisionHeld, AppSpec
    <3>2. <<worker[o].revision, obj.spec.path>> \in applied'[a]
      BY <1>0, <1>5 DEF ApplySucceeds, TypeOK, ControllerTypeOK
    <3> QED BY <1>0, <3>1, <3>2, InAppliedRevisions
  <2> HIDE DEF st
  <2>5. Sound(worker[o])'
    <3>1. worker'[o].pc = "commit" /\ worker'[o].obj.status = st /\ worker'[o].app = a
      BY <2>2, <2>3, ProceedStatus DEF Stages
    <3> QED BY <1>0, <2>2, <2>4, <3>1 DEF Sound, Backed
  <2>6. WorkersSound'
    BY <1>5, <2>2, <2>3, <2>5, ProceedStatus, OneWorkerSound DEF Stages, ApplySucceeds
  <2> QED BY <1>5, <2>1, <2>6 DEF ApplySucceeds, NoticeTruthful
<1>6. CASE ApplyFails(o)
  <2> DEFINE st == updateStatus(obj.status, "OutOfSync", "Degraded", worker[o].revision,
                                worker[o].parsed, TRUE, clock)
  <2>1. StoredBacked' /\ CachesBacked'
    BY <1>6, CopiesKept DEF ApplyFails
  <2>2. st.sync # "Synced" /\ st \in Status
    <3>1. st.sync # "Synced"
      BY <1>0, UpdateStatusSync DEF SyncStatuses, HealthStatuses
    <3>2. st \in Status
      BY <1>0, UpdateStatusType DEF SyncStatuses, HealthStatuses
    <3> QED BY <3>1, <3>2
  <2>3. Proceed(o, "reportFailure", [obj EXCEPT !.status = st])
    BY <1>0, <1>6 DEF ApplyFails, Object
  <2> HIDE DEF st
  <2>4. Sound(worker[o])'
    BY <2>2, <2>3, ProceedStatus DEF Sound, Backed, Stages
  <2>5. WorkersSound'
    BY <1>6, <2>2, <2>3, <2>4, ProceedStatus, OneWorkerSound DEF Stages, ApplyFails
  <2> QED BY <1>6, <2>1, <2>5 DEF ApplyFails, NoticeTruthful
<1>7. CASE Commit(o)
  <2>1. PICK ok, got : /\ UpdateStatus(o, ok, got)
                       /\ \/ ok /\ Proceed(o, "notifyOk", got) /\ UNCHANGED timers
                          \/ ~ok /\ Return(o)
    BY <1>7 DEF Commit
  <2>2. UNCHANGED cache /\ worker[o].pc = "commit" /\ UNCHANGED notices
    BY <1>7 DEF Commit
  <2>3. /\ StoredBacked' /\ CachesBacked'
        /\ got \in Object /\ got.status = obj.status
        /\ \A b \in Apps : recorded[b] \subseteq recorded'[b]
        /\ ok /\ got.status.sync = "Synced" => got.status.revision \in recorded'[a]
    BY <1>b, <2>1, <2>2, UpdateStatusBacked
  <2>4. WorkersSound'
    <3>1. CASE ok /\ Proceed(o, "notifyOk", got)
      <4>1. obj.status.sync = "Synced"
        BY <2>2 DEF WorkersSound, Sound
      <4>2. Sound(worker[o])'
        BY <1>0, <1>b, <2>2, <2>3, <3>1, <4>1, ProceedWorker, AppliedGrows DEF Sound, Backed, Stages
      <4> QED BY <2>3, <3>1, <4>2, ProceedWorker, OneWorkerSound DEF Stages
    <3>2. CASE Return(o)
      BY <2>3, <3>2, ReturnSound, OneWorkerSound
    <3> QED BY <2>1, <3>1, <3>2
  <2>5. NoticeTruthful'
    BY <2>2, <2>3 DEF NoticeTruthful, TypeOK, ControllerTypeOK, Notice
  <2> QED BY <2>3, <2>4, <2>5
<1>8. CASE Notify(o)
  <2>1. StoredBacked' /\ CachesBacked'
    BY <1>8, CopiesKept DEF Notify, apiVars
  <2>2. WorkersSound'
    BY <1>8, ReturnSound, OneWorkerSound DEF Notify
  <2>3. NoticeTruthful'
    <3> SUFFICES ASSUME NEW n \in notices', n.success
                 PROVE  n.revision \in recorded[n.app]
      BY <1>8 DEF NoticeTruthful, Notify
    <3>1. CASE n \in notices
      BY <3>1 DEF NoticeTruthful
    <3>2. CASE n \notin notices
      <4>1. n = [app |-> a, revision |-> obj.status.revision, success |-> worker[o].pc = "notifyOk"]
        BY <1>8, <3>2 DEF Notify
      <4>2. worker[o].pc = "notifyOk"
        BY <4>1
      <4> QED BY <4>1, <4>2 DEF WorkersSound, Sound
    <3> QED BY <3>1, <3>2
  <2> QED BY <2>1, <2>2, <2>3
<1> QED BY <1>1, <1>2, <1>3, <1>4, <1>5, <1>6, <1>7, <1>8, <1>9 DEF ReconcileStep
-----------------------------------------------------------------------------
(* Steps of everyone else. *)

LEMMA WorkersKept ==
  ASSUME TypeOK, [Next]_vars, WorkersSound, NoticeTruthful,
         UNCHANGED <<worker, recorded, notices>>
  PROVE  WorkersSound' /\ NoticeTruthful'
<1>1. WorkersSound'
  BY SoundKept DEF WorkersSound
<1>2. NoticeTruthful'
  BY DEF NoticeTruthful
<1> QED BY <1>1, <1>2

LEMMA RecordedKept ==
  ASSUME TypeOK, [Next]_vars, StoredBacked, UNCHANGED recorded,
         \A b \in Apps : Backed(b, api[b])'
  PROVE  StoredBacked'
BY AppliedGrows DEF StoredBacked

LEMMA FetchSound ==
  ASSUME SafetyInv, [Next]_vars, NEW o \in Operators, NEW a \in Apps, Fetch(o, a)
  PROVE  StoredBacked' /\ CachesBacked' /\ WorkersSound' /\ NoticeTruthful'
<1> USE DEF SafetyInv
<1>1. StoredBacked' /\ CachesBacked'
  BY CopiesKept DEF Fetch
<1>2. CASE UNCHANGED worker
  BY <1>1, <1>2, WorkersKept DEF Fetch
<1>3. CASE worker' = [worker EXCEPT ![o] = [Idle EXCEPT !.pc = "pull", !.app = a,
                                                        !.obj = cache[o][a]]]
  <2>1. /\ worker'[o].pc = "pull" /\ worker'[o].app = a /\ worker'[o].obj = cache[o][a]
        /\ \A p \in Operators : p # o => worker'[p] = worker[p]
    BY <1>3 DEF Idle, TypeOK, ControllerTypeOK
  <2>2. Sound(worker[o])'
    BY <2>1, BackedGrows DEF CachesBacked, Sound, Backed
  <2>3. WorkersSound'
    BY <2>1, <2>2, OneWorkerSound DEF Fetch
  <2> QED BY <1>1, <2>3 DEF Fetch, NoticeTruthful
<1> QED BY <1>2, <1>3 DEF Fetch, Forget

LEMMA DeliverSound ==
  ASSUME SafetyInv, [Next]_vars, NEW o \in Operators, NEW a \in Apps, Deliver(o, a)
  PROVE  StoredBacked' /\ CachesBacked' /\ WorkersSound' /\ NoticeTruthful'
<1> USE DEF SafetyInv
<1>0. watch[o][a] \in Seq(Object) /\ watch[o][a] # <<>>
  BY DEF TypeOK, ApiTypeOK, Deliver, CacheNext
<1>1. StoredBacked'
  BY RecordedKept, BackedGrows DEF Deliver, CacheNext, StoredBacked, Backed
<1>2. ASSUME NEW p \in Operators, NEW b \in Apps PROVE Backed(b, cache[p][b])'
  <2>1. cache'[p][b] = cache[p][b] \/ (p = o /\ b = a /\ cache'[p][b] = watch[o][a][1])
    BY <1>0 DEF Deliver, CacheNext, TypeOK, ApiTypeOK
  <2>2. Backed(a, watch[o][a][1])
    BY <1>0 DEF CachesBacked
  <2> QED BY <2>1, <2>2, BackedGrows DEF CachesBacked, Backed
<1>3. ASSUME NEW p \in Operators, NEW b \in Apps, NEW i \in 1 .. Len(watch'[p][b])
      PROVE  Backed(b, watch[p][b][i])'
  <2>1. \/ watch'[p][b] = watch[p][b]
        \/ p = o /\ b = a /\ watch'[p][b] = Tail(watch[o][a])
    BY DEF Deliver, CacheNext, TypeOK, ApiTypeOK
  <2>2. watch[p][b] \in Seq(Object)
    BY DEF TypeOK, ApiTypeOK
  <2>3. \E j \in 1 .. Len(watch[p][b]) : watch'[p][b][i] = watch[p][b][j]
    <3>1. CASE watch'[p][b] = watch[p][b]
      BY <3>1, <1>3
    <3>2. CASE p = o /\ b = a /\ watch'[p][b] = Tail(watch[o][a])
      <4>1. /\ i + 1 \in 1 .. Len(watch[o][a])
            /\ Tail(watch[o][a])[i] = watch[o][a][i + 1]
        BY <1>0, <1>3, <3>2
      <4> QED BY <3>2, <4>1
    <3> QED BY <2>1, <3>1, <3>2
  <2> QED BY <2>3, BackedGrows DEF CachesBacked, Backed
<1>4. CachesBacked'
  BY <1>2, <1>3 DEF CachesBacked
<1> QED BY <1>1, <1>4, WorkersKept DEF Deliver

LEMMA QuietSound ==
  ASSUME SafetyInv, [Next]_vars,
         UNCHANGED <<api, watch, cache, worker, recorded, notices>>
  PROVE  StoredBacked' /\ CachesBacked' /\ WorkersSound' /\ NoticeTruthful'
BY CopiesKept, WorkersKept DEF SafetyInv

LEMMA AnnotateSound ==
  ASSUME SafetyInv, [Next]_vars, NEW o \in Operators, NEW a \in Apps,
         Annotate(o, a), UNCHANGED controllerVars
  PROVE  StoredBacked' /\ CachesBacked' /\ WorkersSound' /\ NoticeTruthful'
<1> USE DEF SafetyInv
<1> DEFINE obj == [hook[o][a] EXCEPT !.note = clock]
           revised == MainRevised(a, obj)
<1>1. obj \in Object
  <2>1. hook[o][a] \in Object /\ clock \in Nat
    BY DEF TypeOK, HookTypeOK, ApiTypeOK
  <2> QED BY <2>1 DEF Object
<1>2. revised \in Object /\ revised.status = api[a].status
  BY <1>1, MainRevisedType, MainRevisedStatus DEF TypeOK
<1>3. Backed(a, revised)
  BY <1>2 DEF StoredBacked, Backed
<1>4. PICK ok, got : Write(a, obj, revised, ok, got)
  BY DEF Annotate
<1>5. UNCHANGED cache
  BY DEF Annotate
<1> HIDE DEF obj, revised
<1>6. (\A b \in Apps : Backed(b, api[b])') /\ CachesBacked'
  BY <1>1, <1>2, <1>3, <1>4, <1>5, WriteBacked
<1> QED BY <1>6, RecordedKept, WorkersKept DEF controllerVars

LEMMA UsersSound ==
  ASSUME SafetyInv, [Next]_vars, Users
  PROVE  StoredBacked' /\ CachesBacked' /\ WorkersSound' /\ NoticeTruthful'
<1> USE DEF SafetyInv
<1>1. PICK a \in Apps, new \in Object :
        Store(a, new) /\ (new.status = api[a].status \/ new.status.sync # "Synced")
  <2>1. PICK a \in Apps : \/ \E spec \in AppSpec : EditSpec(a, spec) \/ Create(a, spec)
                          \/ Delete(a)
    BY DEF Users
  <2>2. api[a] \in Object
    BY DEF TypeOK, ApiTypeOK
  <2>3. CASE Delete(a)
    <3> DEFINE new == [api[a] EXCEPT !.exists = FALSE, !.rv = @ + 1]
    <3>1. new \in Object /\ new.status = api[a].status
      BY <2>2, EditedObject
    <3>2. Store(a, new)
      BY <2>3 DEF Delete
    <3> QED BY <3>1, <3>2
  <2>4. ASSUME NEW spec \in AppSpec, EditSpec(a, spec)
        PROVE  \E new \in Object : Store(a, new) /\ new.status = api[a].status
    <3> DEFINE new == [api[a] EXCEPT !.spec = spec, !.rv = @ + 1]
    <3>1. new \in Object /\ new.status = api[a].status
      BY <2>2, EditedObject
    <3>2. Store(a, new)
      BY <2>4 DEF EditSpec
    <3> QED BY <3>1, <3>2
  <2>5. ASSUME NEW spec \in AppSpec, Create(a, spec)
        PROVE  \E new \in Object : Store(a, new) /\ new.status.sync # "Synced"
    <3> DEFINE new == Created(spec, api[a].rv + 1)
    <3>1. new \in Object
      BY <2>2, EmptyStatusType DEF Object, Created
    <3>2. new.status.sync # "Synced"
      BY DEF Created, EmptyStatus
    <3>3. Store(a, new)
      BY <2>5 DEF Create
    <3> QED BY <3>1, <3>2, <3>3
  <2> QED BY <2>1, <2>3, <2>4, <2>5
<1>2. UNCHANGED cache
  BY DEF Users, EditSpec, Create, Delete
<1>3. Backed(a, new)
  BY <1>1 DEF StoredBacked, Backed
<1>4. (\A b \in Apps : Backed(b, api[b])') /\ CachesBacked'
  BY <1>1, <1>2, <1>3, StoreBacked
<1> QED BY <1>4, RecordedKept, WorkersKept DEF Users, controllerVars

LEMMA RestartSound ==
  ASSUME SafetyInv, [Next]_vars, NEW o \in Operators, Restart(o)
  PROVE  StoredBacked' /\ CachesBacked' /\ WorkersSound' /\ NoticeTruthful'
<1> USE DEF SafetyInv
<1>1. StoredBacked'
  BY RecordedKept, BackedGrows DEF Restart, RestartController, CacheList, StoredBacked, Backed
<1>2. ASSUME NEW p \in Operators, NEW b \in Apps
      PROVE  /\ Backed(b, cache[p][b])'
             /\ \A i \in 1 .. Len(watch'[p][b]) : Backed(b, watch[p][b][i])'
  <2>1. CASE p = o
    <3>1. cache'[p][b] = api[b] /\ watch'[p][b] = <<>>
      BY <2>1 DEF Restart, RestartController, CacheList, TypeOK, ApiTypeOK
    <3> QED BY <3>1, BackedGrows DEF StoredBacked, Backed
  <2>2. CASE p # o
    <3>1. cache'[p] = cache[p] /\ watch'[p] = watch[p]
      BY <2>2 DEF Restart, RestartController, CacheList, TypeOK, ApiTypeOK
    <3> QED BY <3>1, BackedGrows DEF CachesBacked, Backed
  <2> QED BY <2>1, <2>2
<1>3. CachesBacked'
  BY <1>2 DEF CachesBacked
<1>4. WorkersSound'
  <2>1. worker'[o] = Idle /\ \A p \in Operators : p # o => worker'[p] = worker[p]
    BY DEF Restart, RestartController, TypeOK, ControllerTypeOK
  <2>2. Sound(worker[o])'
    BY <2>1 DEF Sound, Idle
  <2> QED BY <2>1, <2>2, OneWorkerSound DEF Restart, RestartController
<1> QED BY <1>1, <1>3, <1>4 DEF Restart, RestartController, NoticeTruthful

-----------------------------------------------------------------------------
(* The invariant. *)

LEMMA SafetyInit == Init => SafetyInv
<1> SUFFICES ASSUME Init PROVE SafetyInv
  OBVIOUS
<1>1. TypeOK
  BY TypeInit
<1>2. \A a \in Apps : api[a].status.sync = ""
  <2>1. PICK spec \in [Apps -> AppSpec] : api = [a \in Apps |-> Created(spec[a], 1)]
    BY DEF Init, ApiInit
  <2> QED BY <2>1 DEF Created, EmptyStatus
<1>3. StoredBacked
  BY <1>2 DEF StoredBacked, Backed, Init, ControllerInit
<1>4. CachesBacked
  <2>1. cache = [o \in Operators |-> api] /\ watch = [o \in Operators |-> [a \in Apps |-> <<>>]]
    BY DEF Init, ApiInit
  <2>2. ASSUME NEW o \in Operators, NEW a \in Apps
        PROVE  cache[o][a].status.sync = "" /\ 1 .. Len(watch[o][a]) = {}
    <3>1. cache[o][a] = api[a] /\ watch[o][a] = <<>>
      BY <2>1
    <3>2. 1 .. Len(watch[o][a]) = {}
      BY <3>1
    <3> QED BY <1>2, <3>1, <3>2
  <2> QED BY <2>2 DEF CachesBacked, Backed
<1>5. WorkersSound
  <2>1. Idle.pc = "idle"
    BY DEF Idle
  <2> QED BY <2>1 DEF WorkersSound, Sound, Init, ControllerInit
<1>6. NoticeTruthful
  BY DEF NoticeTruthful, Init, ControllerInit
<1> QED BY <1>1, <1>3, <1>4, <1>5, <1>6 DEF SafetyInv

LEMMA SafetyNext == SafetyInv /\ [Next]_vars => SafetyInv'
<1> SUFFICES ASSUME SafetyInv, [Next]_vars PROVE SafetyInv'
  OBVIOUS
<1>1. TypeOK'
  BY TypeNext DEF SafetyInv
<1> SUFFICES StoredBacked' /\ CachesBacked' /\ WorkersSound' /\ NoticeTruthful'
  BY <1>1 DEF SafetyInv
<1>2. ASSUME NEW o \in Operators, Controller(o)
      PROVE  StoredBacked' /\ CachesBacked' /\ WorkersSound' /\ NoticeTruthful'
  <2>1. CASE ReconcileStep(o)
    BY <2>1, ReconcileSound
  <2>2. ASSUME NEW a \in Apps, Fetch(o, a) \/ Deliver(o, a)
        PROVE  StoredBacked' /\ CachesBacked' /\ WorkersSound' /\ NoticeTruthful'
    BY <2>2, FetchSound, DeliverSound
  <2>3. ASSUME NEW a \in Apps, TimerFires(o, a)
        PROVE  StoredBacked' /\ CachesBacked' /\ WorkersSound' /\ NoticeTruthful'
    BY <2>3, QuietSound DEF TimerFires, apiVars
  <2> QED BY <1>2, <2>1, <2>2, <2>3 DEF Controller
<1>3. ASSUME NEW o \in Operators, Webhook(o)
      PROVE  StoredBacked' /\ CachesBacked' /\ WorkersSound' /\ NoticeTruthful'
  <2>1. ASSUME NEW s \in Sources, ReceivePush(o, s)
        PROVE  StoredBacked' /\ CachesBacked' /\ WorkersSound' /\ NoticeTruthful'
    BY <1>3, <2>1, QuietSound DEF ReceivePush, Webhook, controllerVars
  <2>2. ASSUME NEW a \in Apps, Annotate(o, a)
        PROVE  StoredBacked' /\ CachesBacked' /\ WorkersSound' /\ NoticeTruthful'
    BY <1>3, <2>2, AnnotateSound DEF Webhook
  <2> QED BY <1>3, <2>1, <2>2 DEF Webhook
<1>4. ASSUME NEW o \in Operators, Restart(o)
      PROVE  StoredBacked' /\ CachesBacked' /\ WorkersSound' /\ NoticeTruthful'
  BY <1>4, RestartSound
<1>5. CASE Users
  BY <1>5, UsersSound
<1>6. CASE World
  BY <1>6, QuietSound DEF World, Tick, Push, controllerVars
<1>7. CASE UNCHANGED vars
  BY <1>7, QuietSound DEF vars
<1> QED BY <1>2, <1>3, <1>4, <1>5, <1>6, <1>7 DEF Next

(* Every state satisfies the invariant. *)
THEOREM Safety == Spec => []SafetyInv
<1>1. SafetyInv /\ [Next]_vars => SafetyInv'
  BY SafetyNext
<1> QED BY SafetyInit, <1>1, PTL DEF Spec

(* A revision the status ever called Synced had been applied in full before *)
(* (gitapplication_controller.go:82-114), for any number of processes,      *)
(* applications, failures, restarts and pushes.                             *)
THEOREM SyncedIsApplied == Spec => []SyncedWasApplied
<1>1. SafetyInv => SyncedWasApplied
  BY DEF SafetyInv, StoredBacked, AppliedRevisions, SyncedWasApplied
<1> QED BY <1>1, Safety, PTL

(* A success is notified only for a revision that was stored as Synced      *)
(* (gitapplication_controller.go:112-116).                                  *)
THEOREM NoticesAreTruthful == Spec => []NoticeTruthful
<1>1. SafetyInv => NoticeTruthful
  BY DEF SafetyInv
<1> QED BY <1>1, Safety, PTL

-----------------------------------------------------------------------------
(* A resource definition that validates refuses every status. *)

LEMMA UpdateStatusCondition ==
  ASSUME NEW st \in Status, NEW sync \in SyncStatuses, NEW health \in HealthStatuses,
         NEW revision \in Revisions \cup {NoRevision}, NEW parsed \in Manifests \cup {NoManifest},
         NEW failed \in BOOLEAN, NEW now \in Nat
  PROVE  updateStatus(st, sync, health, revision, parsed, failed, now).condition # ""
BY DEF updateStatus, updateCondition, Status

LEMMA SyncedStatusCondition ==
  ASSUME NEW st \in Status, NEW revision, NEW parsed, NEW now
  PROVE  SyncedStatus(st, revision, parsed, now).condition = st.condition
BY DEF SyncedStatus, Status

LEMMA ProceedRefused ==
  ASSUME TypeOK, NEW o \in Operators, NEW stage \in Stages, NEW st \in Status,
         Proceed(o, stage, [worker[o].obj EXCEPT !.status = st]),
         stage # "pull", st.condition # ""
  PROVE  /\ Refused(worker[o])'
         /\ \A p \in Operators : p # o => worker'[p] = worker[p]
BY ProceedStatus DEF Refused

(* The write is refused, so the worker keeps the copy it holds. *)
LEMMA UpdateStatusRefused ==
  ASSUME TypeOK, SchemaInv, Validated, NEW o \in Operators,
         worker[o].pc \notin {"idle", "pull"}, NEW ok, NEW got, UpdateStatus(o, ok, got)
  PROVE  UNCHANGED <<api, watch>> /\ ~ok /\ got = worker[o].obj
<1> DEFINE a == worker[o].app
           obj == worker[o].obj
           revised == StatusRevised(a, obj)
<1>1. a \in Apps /\ obj \in Object
  BY WorkerFields DEF TypeOK
<1>2. revised.status.condition # ""
  BY <1>1, StatusRevisedStatus DEF SchemaInv, Refused, TypeOK
<1>3. ~Accepted(a, obj, revised)
  BY <1>2 DEF Accepted, Admitted
<1>4. Write(a, obj, revised, ok, got)
  BY DEF UpdateStatus
<1> QED BY <1>3, <1>4 DEF Write

LEMMA ReconcileRefused ==
  ASSUME TypeOK, SchemaInv, Validated, NEW o \in Operators, ReconcileStep(o)
  PROVE  /\ UNCHANGED <<api, watch, cache>>
         /\ Refused(worker[o])'
         /\ \A p \in Operators : p # o => worker'[p] = worker[p]
<1> DEFINE obj == worker[o].obj
<1>0. /\ worker[o].app \in Apps /\ obj \in Object /\ obj.status \in Status /\ clock \in Nat
      /\ worker[o].revision \in Revisions \cup {NoRevision}
      /\ worker[o].parsed \in Manifests \cup {NoManifest}
  BY WorkerFields DEF TypeOK, ApiTypeOK
<1>h. /\ worker[o].pc = "pull" => obj.status = EmptyStatus
      /\ worker[o].pc \notin {"idle", "pull"} => obj.status.condition # ""
  BY DEF SchemaInv, Refused
<1>r. ASSUME Return(o)
      PROVE  /\ Refused(worker[o])'
             /\ \A p \in Operators : p # o => worker'[p] = worker[p]
  <2>1. worker'[o] = Idle /\ \A p \in Operators : p # o => worker'[p] = worker[p]
    BY <1>r DEF Return, TypeOK, ControllerTypeOK
  <2> QED BY <2>1 DEF Refused, Idle
<1>p. ASSUME NEW stage \in Stages, Proceed(o, stage, obj), stage # "pull",
             worker[o].pc \notin {"idle", "pull"}
      PROVE  /\ Refused(worker[o])'
             /\ \A p \in Operators : p # o => worker'[p] = worker[p]
  BY <1>0, <1>h, <1>p, ProceedWorker DEF Refused
<1>1. CASE PullFails(o)
  <2> DEFINE st == updateStatus(obj.status, "Unknown", "Unknown", NoRevision, NoManifest, TRUE, clock)
  <2>1. st.condition # ""
    BY <1>0, UpdateStatusCondition DEF SyncStatuses, HealthStatuses
  <2>2. st \in Status
    BY <1>0, UpdateStatusType DEF SyncStatuses, HealthStatuses
  <2>3. Proceed(o, "report", [obj EXCEPT !.status = st])
    BY <1>0, <1>1 DEF PullFails, Object
  <2> HIDE DEF st
  <2> QED BY <1>1, <2>1, <2>2, <2>3, ProceedRefused DEF PullFails, Stages
<1>2. CASE Pull(o)
  <2> DEFINE revision == head[obj.spec.source]
             manifest == <<revision, obj.spec.path>>
  <2>0. revision \in Revisions /\ Parsed(manifest) \in Manifests \cup {NoManifest}
    BY WorkerFields DEF TypeOK, ControllerTypeOK, AppSpec, Parsed, Manifests
  <2>1. CASE manifest \in Unparsable
    <3> DEFINE st == updateStatus(obj.status, "OutOfSync", "Unknown", revision, NoManifest, TRUE, clock)
    <3>1. st.condition # ""
      BY <1>0, <2>0, UpdateStatusCondition DEF SyncStatuses, HealthStatuses
    <3>2. st \in Status
      BY <1>0, <2>0, UpdateStatusType DEF SyncStatuses, HealthStatuses
    <3>3. Proceed(o, "report", [obj EXCEPT !.status = st])
      BY <1>0, <1>2, <2>1 DEF Pull, Object
    <3> HIDE DEF st
    <3> QED BY <1>2, <3>1, <3>2, <3>3, ProceedRefused DEF Pull, apiVars, Stages
  <2>2. CASE manifest \notin Unparsable
    <3> DEFINE next == Decision(obj, revision, Parsed(manifest))
               new == [obj EXCEPT !.status = next.status]
    <3>1. ~UpToDate(obj.status, revision)
      <4>1. obj.status = EmptyStatus
        BY <1>2, <1>h DEF Pull
      <4>2. EmptyStatus.sync = ""
        BY DEF EmptyStatus
      <4> QED BY <4>1, <4>2 DEF UpToDate
    <3>2. next.pc \in {"report", "announce"} /\ next.status.condition # ""
      <4> DEFINE reported == updateStatus(obj.status, "OutOfSync", "Unknown", revision,
                                          Parsed(manifest), FALSE, clock)
                 announced == updateStatus(obj.status, "Syncing", "Progressing", revision,
                                           Parsed(manifest), FALSE, clock)
      <4>1. reported.condition # "" /\ announced.condition # ""
        <5>1. {"OutOfSync", "Syncing"} \subseteq SyncStatuses
              /\ {"Unknown", "Progressing"} \subseteq HealthStatuses /\ FALSE \in BOOLEAN
          BY DEF SyncStatuses, HealthStatuses
        <5> QED BY <1>0, <2>0, <5>1, UpdateStatusCondition
      <4>2. CASE ShouldSync(obj.spec, obj.status)
        <5>1. next = [pc |-> "announce", status |-> announced]
          BY <3>1, <4>2 DEF Decision
        <5> HIDE DEF reported, announced, next
        <5> QED BY <4>1, <5>1
      <4>3. CASE ~ShouldSync(obj.spec, obj.status)
        <5>1. next = [pc |-> "report", status |-> reported]
          BY <3>1, <4>3 DEF Decision
        <5> HIDE DEF reported, announced, next
        <5> QED BY <4>1, <5>1
      <4> QED BY <4>2, <4>3
    <3>3. /\ worker'[o] = [pc |-> next.pc, app |-> worker[o].app, obj |-> new,
                           revision |-> revision, parsed |-> Parsed(manifest)]
          /\ \A p \in Operators : p # o => worker'[p] = worker[p]
      BY <1>2, <2>2 DEF Pull, TypeOK, ControllerTypeOK
    <3>4. new.status = next.status
      BY <1>0, WithStatus DEF Object
    <3> HIDE DEF next, new
    <3>5. worker'[o].pc = next.pc /\ worker'[o].obj.status = next.status
      BY <3>3, <3>4
    <3>6. Refused(worker[o])'
      BY <3>2, <3>5 DEF Refused
    <3> QED BY <1>2, <3>3, <3>6 DEF Pull, apiVars
  <2> QED BY <2>1, <2>2
<1>3. CASE Report(o)
  BY <1>3, <1>r, UpdateStatusRefused DEF Report
<1>4. CASE Announce(o)
  BY <1>4, <1>p, UpdateStatusRefused DEF Announce, Stages
<1>5. CASE ApplySucceeds(o)
  <2> DEFINE st == SyncedStatus(obj.status, worker[o].revision, worker[o].parsed, clock)
  <2>1. st.condition # ""
    <3>1. obj.status.condition # ""
      BY <1>5, <1>h DEF ApplySucceeds
    <3>2. st.condition = obj.status.condition
      BY <1>0, SyncedStatusCondition
    <3> HIDE DEF st
    <3> QED BY <3>1, <3>2
  <2>2. st \in Status
    <3>1. worker[o].revision \in Revisions
      BY <1>5 DEF ApplySucceeds, TypeOK, ControllerTypeOK, RevisionHeld
    <3> QED BY <1>0, <3>1, SyncedStatusType
  <2>3. Proceed(o, "commit", [obj EXCEPT !.status = st])
    BY <1>0, <1>5 DEF ApplySucceeds, Object
  <2> HIDE DEF st
  <2> QED BY <1>5, <2>1, <2>2, <2>3, ProceedRefused DEF ApplySucceeds, apiVars, Stages
<1>6. CASE ApplyFails(o)
  <2> DEFINE st == updateStatus(obj.status, "OutOfSync", "Degraded", worker[o].revision,
                                worker[o].parsed, TRUE, clock)
  <2>1. st.condition # ""
    BY <1>0, UpdateStatusCondition DEF SyncStatuses, HealthStatuses
  <2>2. st \in Status
    BY <1>0, UpdateStatusType DEF SyncStatuses, HealthStatuses
  <2>3. Proceed(o, "reportFailure", [obj EXCEPT !.status = st])
    BY <1>0, <1>6 DEF ApplyFails, Object
  <2> HIDE DEF st
  <2> QED BY <1>6, <2>1, <2>2, <2>3, ProceedRefused DEF ApplyFails, Stages
<1>7. CASE ReportFailure(o)
  BY <1>7, <1>p, UpdateStatusRefused DEF ReportFailure, Stages
<1>8. CASE Commit(o)
  BY <1>8, <1>r, UpdateStatusRefused DEF Commit
<1>9. CASE Notify(o)
  BY <1>9, <1>r DEF Notify, apiVars
<1> QED BY <1>1, <1>2, <1>3, <1>4, <1>5, <1>6, <1>7, <1>8, <1>9 DEF ReconcileStep

(* What is left of SchemaInv when a step leaves the workers alone, or one   *)
(* of them with an Idle or a fresh copy.                                    *)
LEMMA StoreUnreported ==
  ASSUME TypeOK, SchemaInv, Validated, NEW a \in Apps, NEW new \in Object,
         new.status = EmptyStatus, Store(a, new), UNCHANGED <<cache, worker>>
  PROVE  SchemaInv'
<1>1. NeverReported'
  BY DEF Store, SchemaInv, NeverReported, TypeOK, ApiTypeOK
<1>2. ASSUME NEW p \in Operators, NEW b \in Apps, NEW i \in 1 .. Len(watch'[p][b])
      PROVE  watch'[p][b][i].status = EmptyStatus
  <2>1. watch[p][b] \in Seq(Object)
    BY DEF TypeOK, ApiTypeOK
  <2>2. watch'[p][b] = watch[p][b] \/ (b = a /\ watch'[p][b] = Append(watch[p][b], new))
    BY DEF Store, TypeOK, ApiTypeOK
  <2>3. \/ i \in 1 .. Len(watch[p][b]) /\ watch'[p][b][i] = watch[p][b][i]
        \/ b = a /\ watch'[p][b][i] = new
    BY <1>2, <2>1, <2>2
  <2> QED BY <2>3 DEF SchemaInv
<1> QED BY <1>1, <1>2 DEF SchemaInv

LEMMA WorkersUnreported ==
  ASSUME TypeOK, SchemaInv, Validated, UNCHANGED <<api, watch, cache>>,
         NEW o \in Operators, Refused(worker[o])',
         \A p \in Operators : p # o => worker'[p] = worker[p]
  PROVE  SchemaInv'
<1>1. \A p \in Operators : Refused(worker[p])'
  BY DEF SchemaInv, Refused
<1> QED BY <1>1 DEF SchemaInv, NeverReported

LEMMA DeliverUnreported ==
  ASSUME TypeOK, SchemaInv, Validated, NEW o \in Operators, NEW a \in Apps, Deliver(o, a)
  PROVE  SchemaInv'
<1>0. watch[o][a] \in Seq(Object) /\ watch[o][a] # <<>>
  BY DEF TypeOK, ApiTypeOK, Deliver, CacheNext
<1>1. ASSUME NEW p \in Operators, NEW b \in Apps PROVE cache'[p][b].status = EmptyStatus
  <2>1. cache'[p][b] = cache[p][b] \/ cache'[p][b] = watch[o][a][1]
    BY <1>0 DEF Deliver, CacheNext, TypeOK, ApiTypeOK
  <2> QED BY <1>0, <2>1 DEF SchemaInv
<1>2. ASSUME NEW p \in Operators, NEW b \in Apps, NEW i \in 1 .. Len(watch'[p][b])
      PROVE  watch'[p][b][i].status = EmptyStatus
  <2>1. \/ watch'[p][b] = watch[p][b]
        \/ p = o /\ b = a /\ watch'[p][b] = Tail(watch[o][a])
    BY DEF Deliver, CacheNext, TypeOK, ApiTypeOK
  <2>2. CASE watch'[p][b] = watch[p][b]
    BY <1>2, <2>2 DEF SchemaInv
  <2>3. CASE watch'[p][b] = Tail(watch[o][a])
    <3>1. i + 1 \in 1 .. Len(watch[o][a]) /\ Tail(watch[o][a])[i] = watch[o][a][i + 1]
      BY <1>0, <1>2, <2>3
    <3> QED BY <2>3, <3>1 DEF SchemaInv
  <2> QED BY <2>1, <2>2, <2>3
<1>3. UNCHANGED <<api, worker>>
  BY DEF Deliver, CacheNext
<1> QED BY <1>1, <1>2, <1>3 DEF SchemaInv, NeverReported, Refused

LEMMA FetchUnreported ==
  ASSUME TypeOK, SchemaInv, Validated, NEW o \in Operators, NEW a \in Apps, Fetch(o, a)
  PROVE  SchemaInv'
<1>1. UNCHANGED <<api, watch, cache>>
  BY DEF Fetch
<1>2. CASE UNCHANGED worker
  BY <1>1, <1>2 DEF SchemaInv, NeverReported, Refused
<1>3. CASE worker' = [worker EXCEPT ![o] = [Idle EXCEPT !.pc = "pull", !.app = a,
                                                        !.obj = cache[o][a]]]
  <2>1. /\ worker'[o].pc = "pull" /\ worker'[o].obj = cache[o][a]
        /\ \A p \in Operators : p # o => worker'[p] = worker[p]
    BY <1>3 DEF Idle, TypeOK, ControllerTypeOK
  <2>2. Refused(worker[o])'
    BY <2>1 DEF SchemaInv, Refused
  <2> QED BY <1>1, <2>1, <2>2, WorkersUnreported
<1> QED BY <1>2, <1>3 DEF Fetch, Forget

LEMMA RestartUnreported ==
  ASSUME TypeOK, SchemaInv, Validated, NEW o \in Operators, Restart(o)
  PROVE  SchemaInv'
<1>1. UNCHANGED api
  BY DEF Restart, RestartController, CacheList
<1>2. ASSUME NEW p \in Operators, NEW b \in Apps
      PROVE  /\ cache'[p][b].status = EmptyStatus
             /\ \A i \in 1 .. Len(watch'[p][b]) : watch'[p][b][i].status = EmptyStatus
  <2>1. CASE p = o
    <3>1. cache'[p][b] = api[b] /\ watch'[p][b] = <<>>
      BY <2>1 DEF Restart, RestartController, CacheList, TypeOK, ApiTypeOK
    <3> QED BY <3>1 DEF SchemaInv, NeverReported
  <2>2. CASE p # o
    <3>1. cache'[p] = cache[p] /\ watch'[p] = watch[p]
      BY <2>2 DEF Restart, RestartController, CacheList, TypeOK, ApiTypeOK
    <3> QED BY <3>1 DEF SchemaInv
  <2> QED BY <2>1, <2>2
<1>3. ASSUME NEW p \in Operators PROVE Refused(worker[p])'
  <2>1. worker'[p] \in {Idle, worker[p]}
    BY DEF Restart, RestartController, TypeOK, ControllerTypeOK
  <2>2. Idle.pc = "idle"
    BY DEF Idle
  <2> QED BY <2>1, <2>2 DEF SchemaInv, Refused
<1> QED BY <1>1, <1>2, <1>3 DEF SchemaInv, NeverReported

LEMMA AnnotateUnreported ==
  ASSUME TypeOK, SchemaInv, Validated, NEW o \in Operators, NEW a \in Apps,
         Annotate(o, a), UNCHANGED worker
  PROVE  SchemaInv'
<1> DEFINE obj == [hook[o][a] EXCEPT !.note = clock]
           revised == MainRevised(a, obj)
<1>1. obj \in Object
  <2>1. hook[o][a] \in Object /\ clock \in Nat
    BY DEF TypeOK, HookTypeOK, ApiTypeOK
  <2> QED BY <2>1 DEF Object
<1>2. revised \in Object /\ revised.status = EmptyStatus
  BY <1>1, MainRevisedType, MainRevisedStatus DEF TypeOK, SchemaInv, NeverReported
<1>3. PICK ok, got : Write(a, obj, revised, ok, got)
  BY DEF Annotate
<1>4. UNCHANGED cache
  BY DEF Annotate
<1> HIDE DEF obj, revised
<1>5. CASE Store(a, revised)
  BY <1>2, <1>4, <1>5, StoreUnreported
<1>6. CASE UNCHANGED <<api, watch>>
  BY <1>4, <1>6 DEF SchemaInv, NeverReported, Refused
<1> QED BY <1>3, <1>5, <1>6 DEF Write

LEMMA UsersUnreported ==
  ASSUME TypeOK, SchemaInv, Validated, Users
  PROVE  SchemaInv'
<1>1. PICK a \in Apps : \/ \E spec \in AppSpec : EditSpec(a, spec) \/ Create(a, spec)
                        \/ Delete(a)
  BY DEF Users
<1>2. api[a] \in Object /\ api[a].status = EmptyStatus
  BY DEF TypeOK, ApiTypeOK, SchemaInv, NeverReported
<1>3. UNCHANGED <<cache, worker>>
  BY DEF Users, EditSpec, Create, Delete, controllerVars
<1>4. CASE Delete(a)
  <2> DEFINE new == [api[a] EXCEPT !.exists = FALSE, !.rv = @ + 1]
  <2>1. new \in Object /\ new.status = EmptyStatus
    BY <1>2, EditedObject
  <2>2. Store(a, new)
    BY <1>4 DEF Delete
  <2> HIDE DEF new
  <2> QED BY <1>3, <2>1, <2>2, StoreUnreported
<1>5. ASSUME NEW spec \in AppSpec, EditSpec(a, spec) PROVE SchemaInv'
  <2> DEFINE new == [api[a] EXCEPT !.spec = spec, !.rv = @ + 1]
  <2>1. new \in Object /\ new.status = EmptyStatus
    BY <1>2, EditedObject
  <2>2. Store(a, new)
    BY <1>5 DEF EditSpec
  <2> HIDE DEF new
  <2> QED BY <1>3, <2>1, <2>2, StoreUnreported
<1>6. ASSUME NEW spec \in AppSpec, Create(a, spec) PROVE SchemaInv'
  <2> DEFINE new == Created(spec, api[a].rv + 1)
  <2>1. new \in Object /\ new.status = EmptyStatus
    BY <1>2, EmptyStatusType DEF Object, Created
  <2>2. Store(a, new)
    BY <1>6 DEF Create
  <2> HIDE DEF new
  <2> QED BY <1>3, <2>1, <2>2, StoreUnreported
<1> QED BY <1>1, <1>4, <1>5, <1>6

LEMMA SchemaInit == Init => SchemaInv
<1> SUFFICES ASSUME Init PROVE SchemaInv
  OBVIOUS
<1>1. \A a \in Apps : api[a].status = EmptyStatus
  <2>1. PICK spec \in [Apps -> AppSpec] : api = [a \in Apps |-> Created(spec[a], 1)]
    BY DEF Init, ApiInit
  <2> QED BY <2>1 DEF Created
<1>2. cache = [o \in Operators |-> api] /\ watch = [o \in Operators |-> [a \in Apps |-> <<>>]]
  BY DEF Init, ApiInit
<1>3. \A o \in Operators : Refused(worker[o])
  BY DEF Init, ControllerInit, Refused, Idle
<1> QED BY <1>1, <1>2, <1>3 DEF SchemaInv, NeverReported

LEMMA SchemaNext == TypeOK /\ SchemaInv /\ [Next]_vars => SchemaInv'
<1> SUFFICES ASSUME TypeOK, SchemaInv, [Next]_vars, Validated PROVE SchemaInv'
  BY DEF SchemaInv
<1>1. ASSUME UNCHANGED <<api, watch, cache, worker>> PROVE SchemaInv'
  BY <1>1 DEF SchemaInv, NeverReported, Refused
<1>2. ASSUME NEW o \in Operators, Controller(o) PROVE SchemaInv'
  <2>1. CASE ReconcileStep(o)
    BY <2>1, ReconcileRefused, WorkersUnreported
  <2>2. ASSUME NEW a \in Apps, Fetch(o, a) \/ Deliver(o, a) PROVE SchemaInv'
    BY <2>2, FetchUnreported, DeliverUnreported
  <2>3. ASSUME NEW a \in Apps, TimerFires(o, a) PROVE SchemaInv'
    BY <1>1, <2>3 DEF TimerFires, apiVars
  <2> QED BY <1>2, <2>1, <2>2, <2>3 DEF Controller
<1>3. ASSUME NEW o \in Operators, Webhook(o) PROVE SchemaInv'
  <2>1. ASSUME NEW s \in Sources, ReceivePush(o, s) PROVE SchemaInv'
    BY <1>1, <1>3, <2>1 DEF ReceivePush, Webhook, controllerVars
  <2>2. ASSUME NEW a \in Apps, Annotate(o, a) PROVE SchemaInv'
    BY <1>3, <2>2, AnnotateUnreported DEF Webhook, controllerVars
  <2> QED BY <1>3, <2>1, <2>2 DEF Webhook
<1>4. ASSUME NEW o \in Operators, Restart(o) PROVE SchemaInv'
  BY <1>4, RestartUnreported
<1>5. CASE Users
  BY <1>5, UsersUnreported
<1>6. CASE World \/ UNCHANGED vars
  BY <1>1, <1>6 DEF World, Tick, Push, controllerVars, vars
<1> QED BY <1>2, <1>3, <1>4, <1>5, <1>6 DEF Next

(* With a resource definition that validates what the markers of the types  *)
(* declare, no application ever has a status: each one is written with a    *)
(* condition that has no reason (gitapplication_controller.go:172-181), so  *)
(* the API server refuses it, and only line 112 looks at the error.         *)
THEOREM NothingReported == Spec => [](Validated => NeverReported)
<1>1. SchemaInv => (Validated => NeverReported)
  BY DEF SchemaInv
<1>2. TypeOK /\ SchemaInv /\ [Next]_vars => SchemaInv'
  BY SchemaNext
<1> QED BY SchemaInit, TypeCorrect, <1>1, <1>2, PTL DEF Spec

-----------------------------------------------------------------------------
(* Operator implements SyncContract. *)

\* the two variables of SyncContract, as Operator implements them
deployedOf == [a \in Apps |-> AppliedRevisions(a)]
claimOf == [a \in Apps |-> IF api[a].exists /\ api[a].status.sync = "Synced"
                             THEN api[a].status.revision ELSE NoRevision]

LEMMA WriteOne ==
  ASSUME NEW a \in Apps, NEW obj, NEW revised, NEW ok, NEW got,
         Write(a, obj, revised, ok, got)
  PROVE  UNCHANGED api \/ \E new : api' = [api EXCEPT ![a] = new]
BY DEF Write, Store

(* A step changes at most one object, and what is applied only without      *)
(* changing an object.                                                      *)
LEMMA ApiSteps ==
  ASSUME TypeOK, [Next]_vars
  PROVE  \/ UNCHANGED api
         \/ UNCHANGED applied /\ \E a \in Apps : \E new : api' = [api EXCEPT ![a] = new]
<1> DEFINE Changed == UNCHANGED applied /\ \E a \in Apps : \E new : api' = [api EXCEPT ![a] = new]
<1>1. ASSUME NEW o \in Operators, NEW ok, NEW got, UpdateStatus(o, ok, got), UNCHANGED applied
      PROVE  UNCHANGED api \/ Changed
  <2>1. worker[o].app \in Apps
    BY WorkerFields DEF TypeOK
  <2> QED BY <1>1, <2>1, WriteOne DEF UpdateStatus
<1>2. ASSUME NEW o \in Operators, Report(o) PROVE UNCHANGED api \/ Changed
  BY <1>1, <1>2 DEF Report
<1>3. ASSUME NEW o \in Operators, Announce(o) PROVE UNCHANGED api \/ Changed
  BY <1>1, <1>3 DEF Announce
<1>4. ASSUME NEW o \in Operators, ReportFailure(o) PROVE UNCHANGED api \/ Changed
  BY <1>1, <1>4 DEF ReportFailure
<1>5. ASSUME NEW o \in Operators, Commit(o) PROVE UNCHANGED api \/ Changed
  BY <1>1, <1>5 DEF Commit
<1>6. ASSUME NEW o \in Operators,
             \/ PullFails(o) \/ Pull(o) \/ ApplySucceeds(o) \/ ApplyFails(o) \/ Notify(o)
      PROVE  UNCHANGED api
  BY <1>6 DEF PullFails, Pull, ApplySucceeds, ApplyFails, Notify, apiVars
<1>7. ASSUME NEW o \in Operators, Controller(o) PROVE UNCHANGED api \/ Changed
  <2>1. CASE ReconcileStep(o)
    BY <1>2, <1>3, <1>4, <1>5, <1>6, <2>1 DEF ReconcileStep
  <2>2. ASSUME NEW a \in Apps, Fetch(o, a) \/ Deliver(o, a) \/ TimerFires(o, a)
        PROVE  UNCHANGED api
    BY <2>2 DEF Fetch, Deliver, CacheNext, TimerFires, apiVars
  <2> QED BY <1>7, <2>1, <2>2 DEF Controller
<1>8. ASSUME NEW o \in Operators, Webhook(o) PROVE UNCHANGED api \/ Changed
  <2>1. ASSUME NEW a \in Apps, Annotate(o, a), UNCHANGED controllerVars
        PROVE  UNCHANGED api \/ Changed
    BY <2>1, WriteOne DEF Annotate, controllerVars
  <2> QED BY <1>8, <2>1 DEF Webhook, ReceivePush
<1>9. ASSUME NEW o \in Operators, Restart(o) PROVE UNCHANGED api
  BY <1>9 DEF Restart, RestartController, CacheList
<1>10. CASE Users
  BY <1>10 DEF Users, EditSpec, Create, Delete, Store, controllerVars
<1>11. CASE World
  BY <1>11 DEF World, Tick, Push
<1>12. CASE UNCHANGED vars
  BY <1>12 DEF vars
<1> QED BY <1>7, <1>8, <1>9, <1>10, <1>11, <1>12 DEF Next

LEMMA ContractInit == Init => Contract!Init
<1> SUFFICES ASSUME Init PROVE Contract!Init
  OBVIOUS
<1>1. \A a \in Apps : api[a].status.sync = ""
  <2>1. PICK spec \in [Apps -> AppSpec] : api = [a \in Apps |-> Created(spec[a], 1)]
    BY DEF Init, ApiInit
  <2> QED BY <2>1 DEF Created, EmptyStatus
<1>2. claimOf = [a \in Apps |-> NoRevision]
  BY <1>1 DEF claimOf
<1>3. deployedOf = [a \in Apps |-> {}]
  BY DEF deployedOf, AppliedRevisions, Init, ControllerInit
<1> QED BY <1>2, <1>3 DEF Contract!Init, claimOf, deployedOf

LEMMA DeployStep ==
  ASSUME TypeOK, NEW o \in Operators, ApplySucceeds(o)
  PROVE  \E a \in Apps, r \in Revisions :
           deployedOf' = [deployedOf EXCEPT ![a] = @ \cup {r}] /\ UNCHANGED claimOf
<1> DEFINE a == worker[o].app
           r == worker[o].revision
           p == worker[o].obj.spec.path
<1>1. a \in Apps /\ r \in Revisions /\ p \in Paths
  BY WorkerFields DEF ApplySucceeds, TypeOK, ControllerTypeOK, RevisionHeld, AppSpec
<1>2. applied' = [applied EXCEPT ![a] = @ \cup {<<r, p>>}] /\ UNCHANGED api
  BY DEF ApplySucceeds, apiVars
<1>3. applied \in [Apps -> SUBSET Manifests]
  BY DEF TypeOK, ControllerTypeOK
<1> HIDE DEF a, r, p
<1>4. ASSUME NEW b \in Apps
      PROVE  deployedOf'[b] = IF b = a THEN deployedOf[b] \cup {r} ELSE deployedOf[b]
  <2>1. CASE b = a
    <3>1. applied'[b] = applied[b] \cup {<<r, p>>}
      BY <1>1, <1>2, <1>3, <2>1
    <3> QED BY <1>1, <2>1, <3>1 DEF deployedOf, AppliedRevisions
  <2>2. CASE b # a
    <3>1. applied'[b] = applied[b]
      BY <1>2, <1>3, <2>2
    <3> QED BY <2>2, <3>1 DEF deployedOf, AppliedRevisions
  <2> QED BY <2>1, <2>2
<1>5. deployedOf' = [deployedOf EXCEPT ![a] = @ \cup {r}]
  BY <1>4 DEF deployedOf
<1>6. UNCHANGED claimOf
  BY <1>2 DEF claimOf
<1> QED BY <1>1, <1>5, <1>6

LEMMA ClaimStep ==
  ASSUME SafetyInv, SafetyInv', UNCHANGED applied,
         NEW a \in Apps, NEW new, api' = [api EXCEPT ![a] = new]
  PROVE  /\ UNCHANGED deployedOf
         /\ \E r \in Revisions \cup {NoRevision} :
              /\ claimOf' = [claimOf EXCEPT ![a] = r]
              /\ r # NoRevision => r \in deployedOf[a]
<1> DEFINE r == claimOf'[a]
<1>1. UNCHANGED deployedOf
  BY DEF deployedOf, AppliedRevisions
<1>2. r = NoRevision \/ (api'[a].status.sync = "Synced" /\ r = api'[a].status.revision)
  BY DEF claimOf
<1>3. api'[a].status.sync = "Synced" => api'[a].status.revision \in AppliedRevisions(a)
  BY DEF SafetyInv, StoredBacked, Backed, AppliedRevisions
<1>4. r \in Revisions \cup {NoRevision} /\ (r # NoRevision => r \in deployedOf[a])
  BY <1>2, <1>3 DEF deployedOf, AppliedRevisions
<1>5. \A b \in Apps : b # a => api'[b] = api[b]
  BY DEF SafetyInv, TypeOK, ApiTypeOK
<1>6. \A b \in Apps : b # a => claimOf'[b] = claimOf[b]
  BY <1>5 DEF claimOf
<1>7. claimOf' = [claimOf EXCEPT ![a] = r]
  <2>1. /\ claimOf = [b \in Apps |-> claimOf[b]]
        /\ claimOf' = [b \in Apps |-> claimOf'[b]]
    BY DEF claimOf
  <2> HIDE DEF claimOf
  <2> QED BY <1>6, <2>1
<1> QED BY <1>1, <1>4, <1>7

LEMMA ContractNext ==
  ASSUME SafetyInv, SafetyInv', [Next]_vars
  PROVE  [Contract!Next]_<<deployedOf, claimOf>>
<1> USE DEF SafetyInv
<1>1. CASE UNCHANGED api /\ UNCHANGED applied
  BY <1>1 DEF deployedOf, claimOf, AppliedRevisions
<1>2. ASSUME NEW o \in Operators, ApplySucceeds(o)
      PROVE  Contract!Next
  <2>1. PICK a \in Apps, r \in Revisions :
          deployedOf' = [deployedOf EXCEPT ![a] = @ \cup {r}] /\ UNCHANGED claimOf
    BY <1>2, DeployStep
  <2>2. Contract!Deploy(a, r)
    BY <2>1 DEF Contract!Deploy, deployedOf, claimOf
  <2> QED BY <2>2 DEF Contract!Next
<1>3. ASSUME UNCHANGED applied, NEW a \in Apps, NEW new, api' = [api EXCEPT ![a] = new]
      PROVE  Contract!Next
  <2>1. PICK r \in Revisions \cup {NoRevision} :
          /\ claimOf' = [claimOf EXCEPT ![a] = r]
          /\ r # NoRevision => r \in deployedOf[a]
    BY <1>3, ClaimStep
  <2>2. UNCHANGED deployedOf
    BY <1>3, ClaimStep
  <2>3. CASE r = NoRevision
    <3>1. Contract!Withdraw(a)
      BY <2>1, <2>2, <2>3 DEF Contract!Withdraw, deployedOf, claimOf
    <3> QED BY <3>1 DEF Contract!Next
  <2>4. CASE r # NoRevision
    <3>1. Contract!Claim(a, r)
      BY <2>1, <2>2, <2>4 DEF Contract!Claim, deployedOf, claimOf
    <3> QED BY <2>4, <3>1 DEF Contract!Next
  <2> QED BY <2>3, <2>4
<1>4. UNCHANGED applied \/ \E o \in Operators : ApplySucceeds(o)
  BY AppliedSteps
<1> QED BY <1>1, <1>2, <1>3, <1>4, ApiSteps

(* Seen through the status, the reconciler, the webhook and the API server  *)
(* only ever deploy, claim what was deployed, and withdraw                  *)
(* (gitapplication_controller.go:82-114).                                   *)
THEOREM Implementation == Spec => ImplementsContract
<1>1. SafetyInv /\ SafetyInv' /\ [Next]_vars => [Contract!Next]_<<deployedOf, claimOf>>
  BY ContractNext
<1>2. Init => Contract!Init
  BY ContractInit
<1> QED BY <1>1, <1>2, Safety, PTL DEF Spec, ImplementsContract, Contract!Spec, deployedOf, claimOf
=============================================================================
