-------------------------- MODULE OperatorCacheProofs --------------------------
(***************************************************************************)
(* What the copies of the stored objects are good for, for all values of   *)
(* Operator's constants.                                                   *)
(*                                                                         *)
(* First, no application is forgotten: whatever is stored is on its way to *)
(* every cache (Tracking), and an application is dropped from the queue    *)
(* only by a worker that takes it up, returns it to a timer or reads that  *)
(* it is gone; so WakeupInv is inductive.                                  *)
(*                                                                         *)
(* Second, no write undoes another, although everyone but the users writes *)
(* from a copy: one whose version is the stored version is the stored      *)
(* object, but for the status a worker has computed in it, and the API     *)
(* server refuses a write from any other.  VersionInv says this of every   *)
(* copy and is inductive; the action properties UserEditsSurvive and       *)
(* LastSyncMonotone follow.                                                *)
(***************************************************************************)
EXTENDS OperatorProofs

-----------------------------------------------------------------------------
(* No application is forgotten. *)

Scheduled(o, a) == a \in queue[o] \cup timers[o] \/ Busy(o, a)

\* what a step that writes to the API server does to the changes under way
Woken ==
  \A o \in Operators, b \in Apps :
    /\ watch[o][b] # <<>> => watch'[o][b] # <<>>
    /\ api'[b] = api[b] \/ watch'[o][b] # <<>>

-----------------------------------------------------------------------------
(* Writes reach the caches. *)

LEMMA StoreWakes ==
  ASSUME TypeOK, Tracking, UNCHANGED cache,
         NEW a \in Apps, NEW new \in Object, Store(a, new)
  PROVE  Tracking' /\ Woken
<1>1. api \in [Apps -> Object] /\ watch \in [Operators -> [Apps -> Seq(Object)]]
  BY DEF TypeOK, ApiTypeOK
<1>2. CASE new = api[a]
  <2>1. UNCHANGED <<api, watch>>
    BY <1>1, <1>2 DEF Store
  <2> QED BY <2>1 DEF Tracking, Woken
<1>3. CASE new # api[a]
  <2> SUFFICES ASSUME NEW o \in Operators, NEW b \in Apps
      PROVE  /\ IF watch'[o][b] = <<>> THEN cache'[o][b] = api'[b]
                                       ELSE watch'[o][b][Len(watch'[o][b])] = api'[b]
             /\ watch[o][b] # <<>> => watch'[o][b] # <<>>
             /\ api'[b] = api[b] \/ watch'[o][b] # <<>>
    BY DEF Tracking, Woken
  <2>1. CASE b = a
    <3>1. watch'[o][b] = Append(watch[o][b], new) /\ api'[b] = new
      BY <1>1, <1>3, <2>1 DEF Store
    <3>2. watch[o][b] \in Seq(Object)
      BY <1>1
    <3>3. /\ Append(watch[o][b], new) # <<>>
          /\ Append(watch[o][b], new)[Len(Append(watch[o][b], new))] = new
      BY <3>2
    <3> QED BY <3>1, <3>3
  <2>2. CASE b # a
    <3>1. watch'[o][b] = watch[o][b] /\ api'[b] = api[b]
      BY <1>1, <1>3, <2>2 DEF Store
    <3> QED BY <3>1 DEF Tracking
  <2> QED BY <2>1, <2>2
<1> QED BY <1>2, <1>3

LEMMA WriteWakes ==
  ASSUME TypeOK, Tracking, UNCHANGED cache,
         NEW a \in Apps, NEW obj, NEW revised \in Object, NEW ok, NEW got,
         Write(a, obj, revised, ok, got)
  PROVE  Tracking' /\ Woken
<1>1. CASE Store(a, revised)
  BY <1>1, StoreWakes
<1>2. CASE UNCHANGED <<api, watch>>
  BY <1>2 DEF Tracking, Woken
<1> QED BY <1>1, <1>2 DEF Write

LEMMA UpdateStatusWakes ==
  ASSUME TypeOK, Tracking, UNCHANGED cache, NEW o \in Operators, NEW ok, NEW got,
         UpdateStatus(o, ok, got)
  PROVE  Tracking' /\ Woken
<1>1. worker[o].app \in Apps /\ worker[o].obj \in Object
  BY WorkerFields DEF TypeOK
<1>2. StatusRevised(worker[o].app, worker[o].obj) \in Object
  BY <1>1, StatusRevisedType DEF TypeOK
<1> QED BY <1>1, <1>2, WriteWakes DEF UpdateStatus

LEMMA NothingWrittenWakes ==
  ASSUME Tracking, UNCHANGED <<api, watch, cache>>
  PROVE  Tracking' /\ Woken
BY DEF Tracking, Woken

LEMMA StaysScheduled ==
  ASSUME NeverStranded, Woken,
         \A o \in Operators, a \in Apps : Scheduled(o, a) => Scheduled(o, a)'
  PROVE  NeverStranded'
<1> SUFFICES ASSUME NEW o \in Operators, NEW a \in Apps, api'[a].exists
             PROVE  Scheduled(o, a)' \/ watch'[o][a] # <<>>
  BY DEF NeverStranded, Scheduled, Existing, Busy
<1>1. CASE watch'[o][a] # <<>>
  BY <1>1
<1>2. CASE api'[a] = api[a]
  <2>1. Scheduled(o, a) \/ watch[o][a] # <<>>
    BY <1>2 DEF NeverStranded, Scheduled, Existing
  <2> QED BY <2>1 DEF Woken
<1> QED BY <1>1, <1>2 DEF Woken

-----------------------------------------------------------------------------
(* The steps of a worker: it goes on, or returns its request to a timer. *)

LEMMA ReturnSchedules ==
  ASSUME TypeOK, NEW o \in Operators, Return(o), UNCHANGED queue
  PROVE  \A p \in Operators, a \in Apps : Scheduled(p, a) => Scheduled(p, a)'
BY DEF Return, Scheduled, Busy, TypeOK, ControllerTypeOK

LEMMA ProceedSchedules ==
  ASSUME TypeOK, NEW o \in Operators, NEW stage, NEW obj, Proceed(o, stage, obj),
         stage # "idle", UNCHANGED <<queue, timers>>
  PROVE  \A p \in Operators, a \in Apps : Scheduled(p, a) => Scheduled(p, a)'
BY DEF Proceed, Scheduled, Busy, TypeOK, ControllerTypeOK, Worker

LEMMA PullSchedules ==
  ASSUME TypeOK, NEW o \in Operators, Pull(o)
  PROVE  \A p \in Operators, a \in Apps : Scheduled(p, a) => Scheduled(p, a)'
<1> DEFINE obj == worker[o].obj
           revision == head[obj.spec.source]
           manifest == <<revision, obj.spec.path>>
<1>1. UNCHANGED <<queue, timers>>
  BY DEF Pull
<1>2. CASE manifest \in Unparsable
  BY <1>1, <1>2, ProceedSchedules DEF Pull
<1>3. CASE manifest \notin Unparsable
  <2> DEFINE next == Decision(obj, revision, Parsed(manifest))
  <2>1. next.pc # "idle"
    BY DEF Decision
  <2>2. /\ worker'[o].pc = next.pc /\ worker'[o].app = worker[o].app
        /\ \A p \in Operators : p # o => worker'[p] = worker[p]
    BY <1>3 DEF Pull, TypeOK, ControllerTypeOK
  <2> HIDE DEF next
  <2> QED BY <1>1, <2>1, <2>2 DEF Scheduled, Busy
<1> QED BY <1>2, <1>3

LEMMA ReconcileWakes ==
  ASSUME WakeupInv, NEW o \in Operators, ReconcileStep(o)
  PROVE  Tracking' /\ NeverStranded'
<1> USE DEF WakeupInv
<1> DEFINE Schedules == \A p \in Operators, a \in Apps : Scheduled(p, a) => Scheduled(p, a)'
<1> SUFFICES Tracking' /\ Woken /\ Schedules
  BY StaysScheduled
<1>1. CASE PullFails(o)
  BY <1>1, NothingWrittenWakes, ProceedSchedules DEF PullFails
<1>2. CASE Pull(o)
  BY <1>2, NothingWrittenWakes, PullSchedules DEF Pull, apiVars
<1>3. CASE Report(o)
  BY <1>3, UpdateStatusWakes, ReturnSchedules DEF Report
<1>4. CASE Announce(o)
  BY <1>4, UpdateStatusWakes, ProceedSchedules DEF Announce
<1>5. CASE ApplySucceeds(o)
  BY <1>5, NothingWrittenWakes, ProceedSchedules DEF ApplySucceeds, apiVars
<1>6. CASE ApplyFails(o)
  BY <1>6, NothingWrittenWakes, ProceedSchedules DEF ApplyFails
<1>7. CASE ReportFailure(o)
  BY <1>7, UpdateStatusWakes, ProceedSchedules DEF ReportFailure
<1>8. CASE Commit(o)
  <2>1. PICK ok, got : /\ UpdateStatus(o, ok, got)
                       /\ \/ Proceed(o, "notifyOk", got) /\ UNCHANGED timers
                          \/ Return(o)
    BY <1>8 DEF Commit
  <2>2. UNCHANGED <<cache, queue>>
    BY <1>8 DEF Commit
  <2>3. Schedules
    BY <2>1, <2>2, ProceedSchedules, ReturnSchedules
  <2> QED BY <2>1, <2>2, <2>3, UpdateStatusWakes
<1>9. CASE Notify(o)
  BY <1>9, NothingWrittenWakes, ReturnSchedules DEF Notify, apiVars
<1> QED BY <1>1, <1>2, <1>3, <1>4, <1>5, <1>6, <1>7, <1>8, <1>9 DEF ReconcileStep

-----------------------------------------------------------------------------
(* The other steps of a process. *)

(* A request is dropped only when the cache says the application is gone.   *)
(* If it is not, the cache is behind and a change is on its way.            *)
LEMMA FetchWakes ==
  ASSUME WakeupInv, NEW o \in Operators, NEW a \in Apps, Fetch(o, a)
  PROVE  Tracking' /\ NeverStranded'
<1> USE DEF WakeupInv
<1>1. UNCHANGED <<api, watch, cache>>
  BY DEF Fetch
<1>2. Tracking'
  BY <1>1, NothingWrittenWakes
<1>3. /\ \A p \in Operators : p # o => /\ queue'[p] = queue[p] /\ timers'[p] = timers[p]
                                       /\ worker'[p] = worker[p]
      /\ queue'[o] = queue[o] \ {a} /\ timers[o] \subseteq timers'[o]
      /\ worker[o].pc = "idle"
  BY DEF Fetch, Forget, TypeOK, ControllerTypeOK
<1>4. NeverStranded'
  <2> SUFFICES ASSUME NEW p \in Operators, NEW b \in Apps, api[b].exists
               PROVE  Scheduled(p, b)' \/ watch[p][b] # <<>>
    BY <1>1 DEF NeverStranded, Scheduled, Existing, Busy
  <2>1. Scheduled(p, b) \/ watch[p][b] # <<>>
    BY DEF NeverStranded, Scheduled, Existing
  <2>2. CASE p # o \/ b # a
    BY <1>3, <2>1, <2>2 DEF Scheduled, Busy
  <2>3. CASE p = o /\ b = a
    <3>1. CASE worker' = [worker EXCEPT ![o] = [Idle EXCEPT !.pc = "pull", !.app = a,
                                                            !.obj = cache[o][a]]]
      <4>1. worker'[o].pc = "pull" /\ worker'[o].app = a
        BY <3>1 DEF TypeOK, ControllerTypeOK, Idle
      <4> QED BY <2>3, <4>1 DEF Scheduled, Busy
    <3>2. CASE ~cache[o][a].exists
      BY <2>3, <3>2 DEF Tracking
    <3>3. CASE timers' = [timers EXCEPT ![o] = @ \cup {a}]
      BY <2>3, <3>3 DEF Scheduled, TypeOK, ControllerTypeOK
    <3> QED BY <3>1, <3>2, <3>3 DEF Fetch
  <2> QED BY <2>2, <2>3
<1> QED BY <1>2, <1>4

LEMMA DeliverWakes ==
  ASSUME WakeupInv, NEW o \in Operators, NEW a \in Apps, Deliver(o, a)
  PROVE  Tracking' /\ NeverStranded'
<1> USE DEF WakeupInv
<1>1. /\ watch[o][a] # <<>> /\ watch[o][a] \in Seq(Object)
      /\ UNCHANGED <<api, timers, worker>>
  BY DEF Deliver, CacheNext, TypeOK, ApiTypeOK
<1>2. /\ watch'[o][a] = Tail(watch[o][a]) /\ cache'[o][a] = Head(watch[o][a])
      /\ a \in queue'[o]
      /\ \A p \in Operators : queue[p] \subseteq queue'[p]
      /\ \A p \in Operators, b \in Apps :
           (p # o \/ b # a) => watch'[p][b] = watch[p][b] /\ cache'[p][b] = cache[p][b]
  BY DEF Deliver, CacheNext, TypeOK, ApiTypeOK, ControllerTypeOK
<1>3. Tracking'
  <2> SUFFICES ASSUME NEW p \in Operators, NEW b \in Apps
               PROVE  IF watch'[p][b] = <<>> THEN cache'[p][b] = api'[b]
                                             ELSE watch'[p][b][Len(watch'[p][b])] = api'[b]
    BY DEF Tracking
  <2>1. CASE p # o \/ b # a
    BY <1>1, <1>2, <2>1 DEF Tracking
  <2>2. CASE p = o /\ b = a
    <3> DEFINE w == watch[o][a]
    <3>1. w[Len(w)] = api[a]
      BY <1>1 DEF Tracking
    <3>2. /\ Tail(w) = <<>> => Head(w) = w[Len(w)]
          /\ Tail(w) # <<>> => Tail(w)[Len(Tail(w))] = w[Len(w)]
      <4> HIDE DEF w
      <4>1. w \in Seq(Object) /\ w # <<>>
        BY <1>1 DEF w
      <4>2. Len(w) \in Nat \ {0} /\ Len(Tail(w)) = Len(w) - 1 /\ Head(w) = w[1]
        BY <4>1
      <4>3. \A i \in 1 .. Len(w) - 1 : Tail(w)[i] = w[i + 1]
        BY <4>1
      <4>4. Tail(w) \in Seq(Object)
        BY <4>1
      <4>5. \A s \in Seq(Object) : s = <<>> <=> Len(s) = 0
        OBVIOUS
      <4>6. Tail(w) = <<>> <=> Len(Tail(w)) = 0
        BY <4>4, <4>5, Zenon
      <4> QED BY <4>2, <4>3, <4>6
    <3> QED BY <1>1, <1>2, <2>2, <3>1, <3>2
  <2> QED BY <2>1, <2>2
<1>4. NeverStranded'
  BY <1>1, <1>2 DEF NeverStranded, Existing, Busy
<1> QED BY <1>3, <1>4

LEMMA ControllerWakes ==
  ASSUME WakeupInv, NEW o \in Operators, Controller(o)
  PROVE  Tracking' /\ NeverStranded'
<1>1. CASE ReconcileStep(o)
  BY <1>1, ReconcileWakes
<1>2. ASSUME NEW a \in Apps, Fetch(o, a) PROVE Tracking' /\ NeverStranded'
  BY <1>2, FetchWakes
<1>3. ASSUME NEW a \in Apps, Deliver(o, a) PROVE Tracking' /\ NeverStranded'
  BY <1>3, DeliverWakes
<1>4. ASSUME NEW a \in Apps, TimerFires(o, a) PROVE Tracking' /\ NeverStranded'
  <2>1. Tracking' /\ Woken
    BY <1>4, NothingWrittenWakes DEF WakeupInv, TimerFires, apiVars
  <2>2. \A p \in Operators, b \in Apps : Scheduled(p, b) => Scheduled(p, b)'
    BY <1>4 DEF TimerFires, Scheduled, Busy, WakeupInv, TypeOK, ControllerTypeOK
  <2> QED BY <2>1, <2>2, StaysScheduled DEF WakeupInv
<1> QED BY <1>1, <1>2, <1>3, <1>4 DEF Controller

LEMMA RestartWakes ==
  ASSUME WakeupInv, NEW o \in Operators, Restart(o)
  PROVE  Tracking' /\ NeverStranded'
<1> USE DEF WakeupInv, Restart, RestartController, CacheList
<1>1. UNCHANGED api
  OBVIOUS
<1>2. /\ watch'[o] = [a \in Apps |-> <<>>] /\ cache'[o] = api /\ queue'[o] = Existing
      /\ \A p \in Operators :
           p # o => /\ watch'[p] = watch[p] /\ cache'[p] = cache[p] /\ queue'[p] = queue[p]
                    /\ timers'[p] = timers[p] /\ worker'[p] = worker[p]
  BY DEF TypeOK, ApiTypeOK, ControllerTypeOK
<1>3. Tracking'
  BY <1>1, <1>2 DEF Tracking
<1>4. NeverStranded'
  BY <1>1, <1>2 DEF NeverStranded, Existing, Busy
<1> QED BY <1>3, <1>4

-----------------------------------------------------------------------------
LEMMA OthersWake ==
  ASSUME WakeupInv, Woken, Tracking', UNCHANGED <<queue, timers, worker>>
  PROVE  Tracking' /\ NeverStranded'
<1>1. \A p \in Operators, a \in Apps : Scheduled(p, a) => Scheduled(p, a)'
  BY DEF Scheduled, Busy
<1> QED BY <1>1, StaysScheduled DEF WakeupInv

LEMMA AnnotateWakes ==
  ASSUME WakeupInv, NEW o \in Operators, NEW a \in Apps, Annotate(o, a)
  PROVE  Tracking' /\ Woken
<1> DEFINE obj == [hook[o][a] EXCEPT !.note = clock]
<1>1. obj \in Object
  <2>1. hook[o][a] \in Object /\ clock \in Nat
    BY DEF WakeupInv, TypeOK, HookTypeOK, ApiTypeOK
  <2> QED BY <2>1 DEF Object
<1>2. MainRevised(a, obj) \in Object
  BY <1>1, MainRevisedType DEF WakeupInv, TypeOK
<1>3. PICK ok, got : Write(a, obj, MainRevised(a, obj), ok, got)
  BY DEF Annotate
<1>4. UNCHANGED cache
  BY DEF Annotate
<1> HIDE DEF obj
<1> QED BY <1>2, <1>3, <1>4, WriteWakes DEF WakeupInv

LEMMA UsersWake ==
  ASSUME WakeupInv, Users
  PROVE  Tracking' /\ Woken
<1>1. ASSUME NEW a \in Apps, NEW new \in Object, Store(a, new), UNCHANGED cache
      PROVE  Tracking' /\ Woken
  BY <1>1, StoreWakes DEF WakeupInv
<1>2. ASSUME NEW a \in Apps, Delete(a) PROVE Tracking' /\ Woken
  <2>1. [api[a] EXCEPT !.exists = FALSE, !.rv = @ + 1] \in Object
    BY EditedObject DEF WakeupInv, TypeOK, ApiTypeOK
  <2> QED BY <1>1, <1>2, <2>1 DEF Delete
<1>3. ASSUME NEW a \in Apps, NEW spec \in AppSpec, EditSpec(a, spec)
      PROVE  Tracking' /\ Woken
  <2>1. [api[a] EXCEPT !.spec = spec, !.rv = @ + 1] \in Object
    BY EditedObject DEF WakeupInv, TypeOK, ApiTypeOK
  <2> QED BY <1>1, <1>3, <2>1 DEF EditSpec
<1>4. ASSUME NEW a \in Apps, NEW spec \in AppSpec, Create(a, spec)
      PROVE  Tracking' /\ Woken
  <2>1. api[a] \in Object
    BY DEF WakeupInv, TypeOK, ApiTypeOK
  <2>2. Created(spec, api[a].rv + 1) \in Object
    BY <2>1, EmptyStatusType DEF Created, Object
  <2> QED BY <1>1, <1>4, <2>2 DEF Create
<1> QED BY <1>2, <1>3, <1>4 DEF Users

LEMMA WakeupInit == Init => WakeupInv
<1> SUFFICES ASSUME Init PROVE WakeupInv
  OBVIOUS
<1>1. TypeOK
  BY TypeInit
<1>2. Tracking
  BY DEF Tracking, Init, ApiInit
<1>3. NeverStranded
  BY DEF NeverStranded, Init, ControllerInit
<1> QED BY <1>1, <1>2, <1>3 DEF WakeupInv

LEMMA WakeupNext ==
  ASSUME WakeupInv, TypeOK', [Next]_vars
  PROVE  WakeupInv'
<1> SUFFICES Tracking' /\ NeverStranded'
  BY DEF WakeupInv
<1>1. ASSUME NEW o \in Operators, Controller(o) PROVE Tracking' /\ NeverStranded'
  BY <1>1, ControllerWakes
<1>2. ASSUME NEW o \in Operators, Webhook(o) PROVE Tracking' /\ NeverStranded'
  <2>1. UNCHANGED <<queue, timers, worker>>
    BY <1>2 DEF Webhook, controllerVars
  <2>2. ASSUME NEW s \in Sources, ReceivePush(o, s) PROVE Tracking' /\ Woken
    BY <2>2, NothingWrittenWakes DEF ReceivePush, WakeupInv
  <2>3. Tracking' /\ Woken
    BY <1>2, <2>2, AnnotateWakes DEF Webhook
  <2> QED BY <2>1, <2>3, OthersWake
<1>3. ASSUME NEW o \in Operators, Restart(o) PROVE Tracking' /\ NeverStranded'
  BY <1>3, RestartWakes
<1>4. CASE Users
  <2>1. UNCHANGED <<queue, timers, worker>>
    BY <1>4 DEF Users, controllerVars
  <2> QED BY <1>4, <2>1, UsersWake, OthersWake
<1>5. CASE World
  <2>1. UNCHANGED <<api, watch, cache, queue, timers, worker>>
    BY <1>5 DEF World, Tick, Push, controllerVars
  <2> QED BY <2>1, NothingWrittenWakes, OthersWake DEF WakeupInv
<1>6. CASE UNCHANGED vars
  <2>1. UNCHANGED <<api, watch, cache, queue, timers, worker>>
    BY <1>6 DEF vars
  <2> QED BY <2>1, NothingWrittenWakes, OthersWake DEF WakeupInv
<1> QED BY <1>1, <1>2, <1>3, <1>4, <1>5, <1>6 DEF Next

(* Every cache ends up with what is stored once its changes are delivered,  *)
(* and every application that exists is on its way to a reconcile.          *)
THEOREM Wakeup == Spec => []WakeupInv
<1>1. WakeupInv /\ TypeOK' /\ [Next]_vars => WakeupInv'
  BY WakeupNext
<1> QED BY WakeupInit, <1>1, TypeCorrect, PTL DEF Spec

(* No application is ever forgotten: every return of Reconcile, with an     *)
(* error or without, brings the request back, and a request that is dropped *)
(* (gitapplication_controller.go:43-45) is for an application that is gone. *)
THEOREM NoneForgotten == Spec => []NeverStranded
<1>1. WakeupInv => NeverStranded
  BY DEF WakeupInv
<1> QED BY <1>1, Wakeup, PTL

-----------------------------------------------------------------------------
(* No write undoes another. *)

\* the object of every application stays as it is or gets a later version
Advances == \A a \in Apps : api'[a] = api[a] \/ api'[a].rv > api[a].rv

EditsKept ==
  \A a \in Apps :
    api[a].exists /\ api'[a].exists /\ api'[a].spec # api[a].spec
      => left'["edit"] < left["edit"]

LastSyncKept ==
  \A a \in Apps :
    api[a].exists /\ api'[a].exists
      => api'[a].status.lastSync >= api[a].status.lastSync

\* what a step does to the API server and the caches
Orderly ==
  /\ Advances /\ EditsKept /\ LastSyncKept
  /\ \A a \in Apps : api'[a].rv > 0
  /\ CachesFollow' /\ SyncedInThePast'

-----------------------------------------------------------------------------
LEMMA ObjectFields ==
  ASSUME NEW obj \in Object
  PROVE  obj.rv \in Nat /\ obj.status.lastSync \in Nat /\ obj.status \in Status
BY DEF Object, Status

LEMMA ApiFields ==
  ASSUME TypeOK
  PROVE  /\ clock \in Nat
         /\ \A a \in Apps : api[a] \in Object /\ api[a].rv \in Nat /\ api[a].status.lastSync \in Nat
BY ObjectFields DEF TypeOK, ApiTypeOK

LEMMA RevisedVersion ==
  ASSUME NEW cur \in Object, NEW new \in Object
  PROVE  /\ Revised(cur, new) = cur \/ Revised(cur, new).rv > cur.rv
         /\ Revised(cur, new).exists = new.exists
         /\ Revised(cur, new).spec = new.spec
         /\ Revised(cur, new).status = new.status
BY DEF Revised, Object

(* The object that becomes the stored one is followed by every copy. *)
LEMMA StoreFollowed ==
  ASSUME VersionInv, UNCHANGED <<cache, clock>>,
         NEW a \in Apps, NEW new \in Object, Store(a, new),
         new = api[a] \/ new.rv > api[a].rv,
         new.status.lastSync <= clock
  PROVE  /\ Advances /\ \A b \in Apps : api'[b].rv > 0
         /\ CachesFollow' /\ SyncedInThePast'
<1> USE DEF VersionInv
<1>1. /\ api \in [Apps -> Object] /\ watch \in [Operators -> [Apps -> Seq(Object)]]
      /\ cache \in [Operators -> [Apps -> Object]]
  BY DEF TypeOK, ApiTypeOK
<1>2. api'[a] = new /\ \A b \in Apps : b # a => api'[b] = api[b]
  BY <1>1 DEF Store
<1>3. Advances
  BY <1>2 DEF Advances
<1>4. \A b \in Apps : api'[b].rv > 0
  BY <1>2, ApiFields, ObjectFields
<1>5. ASSUME NEW o \in Operators, NEW b \in Apps
      PROVE  /\ Follows(cache'[o][b], api'[b])
             /\ cache'[o][b].status.lastSync <= clock'
             /\ \A i \in 1 .. Len(watch'[o][b]) :
                  /\ Follows(watch'[o][b][i], api'[b])
                  /\ watch'[o][b][i].status.lastSync <= clock'
  <2>1. ASSUME NEW c \in Object, Follows(c, api[b]) PROVE Follows(c, api'[b])
    BY <1>2, <2>1, ApiFields, ObjectFields DEF Follows
  <2>2. watch[o][b] \in Seq(Object) /\ cache[o][b] \in Object
    BY <1>1
  <2>3. \A i \in 1 .. Len(watch[o][b]) :
          Follows(watch[o][b][i], api'[b]) /\ watch[o][b][i].status.lastSync <= clock
    BY <2>1, <2>2 DEF CachesFollow, SyncedInThePast
  <2>4. watch'[o][b] = watch[o][b] \/ (b = a /\ watch'[o][b] = Append(watch[o][b], new))
    BY <1>1 DEF Store
  <2>5. CASE b = a /\ watch'[o][b] = Append(watch[o][b], new)
    <3>1. ASSUME NEW i \in 1 .. Len(watch'[o][b])
          PROVE  watch'[o][b][i] = new \/ (i \in 1 .. Len(watch[o][b])
                                             /\ watch'[o][b][i] = watch[o][b][i])
      BY <2>2, <2>5
    <3>2. Follows(new, api'[b])
      BY <1>2, <2>5 DEF Follows
    <3> QED BY <2>1, <2>2, <2>3, <3>1, <3>2 DEF CachesFollow, SyncedInThePast
  <2> QED BY <2>1, <2>2, <2>3, <2>4, <2>5 DEF CachesFollow, SyncedInThePast
<1>6. \A b \in Apps : api'[b].status.lastSync <= clock'
  BY <1>2 DEF SyncedInThePast
<1> QED BY <1>3, <1>4, <1>5, <1>6 DEF CachesFollow, SyncedInThePast

(* A write of the status from the copy that a worker holds. *)
LEMMA UpdateStatusOrderly ==
  ASSUME VersionInv, NEW o \in Operators, worker[o].pc # "idle",
         NEW ok, NEW got, UpdateStatus(o, ok, got), UNCHANGED <<cache, clock>>
  PROVE  Orderly /\ Keeps(got, api'[worker[o].app])
<1> USE DEF VersionInv
<1> DEFINE a == worker[o].app
           obj == worker[o].obj
           new == StatusRevised(a, obj)
<1>1. a \in Apps /\ obj \in Object /\ Keeps(obj, api[a])
  BY WorkerFields DEF TypeOK, WorkersKeep
<1>2. /\ new \in Object
      /\ new = api[a] \/ new.rv > api[a].rv
      /\ new.spec = api[a].spec /\ new.status = obj.status
  <2>1. [api[a] EXCEPT !.status = obj.status] \in Object
    BY <1>1, ApiFields, ObjectFields DEF Object
  <2>2. /\ [api[a] EXCEPT !.status = obj.status].spec = api[a].spec
        /\ [api[a] EXCEPT !.status = obj.status].status = obj.status
    BY <1>1, ApiFields DEF Object
  <2>3. api[a] \in Object
    BY <1>1, ApiFields
  <2> QED BY <2>1, <2>2, <2>3, RevisedVersion, RevisedType DEF StatusRevised
<1>3. Write(a, obj, new, ok, got)
  BY DEF UpdateStatus
<1>4. /\ api[a].rv \in Nat /\ api[a].status.lastSync \in Nat /\ clock \in Nat
      /\ obj.rv \in Nat /\ obj.status.lastSync \in Nat /\ new.rv \in Nat
  BY <1>1, <1>2, ApiFields, ObjectFields
<1>5. api \in [Apps -> Object]
  BY DEF TypeOK, ApiTypeOK
<1> HIDE DEF a, obj, new
<1>6. CASE Accepted(a, obj, new) /\ Store(a, new)
  <2>1. obj.rv = api[a].rv /\ obj.status.lastSync >= api[a].status.lastSync
    BY <1>1, <1>6 DEF Accepted, Keeps
  <2>2. new.status.lastSync <= clock
    BY <1>1, <1>2 DEF Keeps
  <2>3. /\ Advances /\ (\A b \in Apps : api'[b].rv > 0)
        /\ CachesFollow' /\ SyncedInThePast'
    BY <1>1, <1>2, <1>6, <2>2, StoreFollowed
  <2>4. api'[a] = new /\ \A b \in Apps : b # a => api'[b] = api[b]
    BY <1>1, <1>5, <1>6 DEF Store
  <2>5. EditsKept
    BY <1>2, <2>4 DEF EditsKept
  <2>6. LastSyncKept
    BY <1>2, <2>1, <2>4, ApiFields DEF LastSyncKept
  <2>7. got = obj \/ got = new
    BY <1>3 DEF Write
  <2>8. Keeps(obj, new) /\ Keeps(new, new)
    BY <1>1, <1>2, <1>4, <2>1, <2>2 DEF Keeps
  <2> QED BY <2>3, <2>4, <2>5, <2>6, <2>7, <2>8 DEF Orderly, Keeps, a
<1>7. CASE UNCHANGED <<api, watch>> /\ got = obj
  BY <1>1, <1>7, ApiFields
     DEF Orderly, Advances, EditsKept, LastSyncKept, CachesFollow, SyncedInThePast, Keeps, a
<1> QED BY <1>3, <1>6, <1>7 DEF Write

LEMMA NothingWrittenKeeps ==
  ASSUME VersionInv, UNCHANGED <<api, watch, cache, clock>>
  PROVE  Orderly
BY ApiFields
   DEF VersionInv, Orderly, Advances, EditsKept, LastSyncKept, CachesFollow, SyncedInThePast, Follows

-----------------------------------------------------------------------------
(* The steps of a worker. *)

LEMMA WorkerStays ==
  ASSUME VersionInv, Advances, TypeOK', clock' >= clock,
         NEW p \in Operators, worker'[p] = worker[p]
  PROVE  worker'[p].pc # "idle" => Keeps(worker[p].obj, api[worker[p].app])'
<1>1. /\ worker[p].app \in Apps /\ worker[p].obj \in Object
      /\ clock \in Nat /\ clock' \in Nat
  BY WorkerFields DEF VersionInv, TypeOK, ApiTypeOK
<1>2. \A a \in Apps : api[a].rv \in Nat /\ api'[a].rv \in Nat
  BY ObjectFields DEF VersionInv, TypeOK, ApiTypeOK
<1>3. worker[p].pc # "idle" => Keeps(worker[p].obj, api[worker[p].app])
  BY DEF VersionInv, WorkersKeep
<1> QED BY <1>1, <1>2, <1>3, ObjectFields DEF Keeps, Advances

LEMMA WorkersStay ==
  ASSUME VersionInv, Advances, TypeOK', clock' >= clock, NEW o \in Operators,
         \A p \in Operators : p # o => worker'[p] = worker[p],
         worker'[o].pc # "idle" => Keeps(worker[o].obj, api[worker[o].app])'
  PROVE  WorkersKeep'
<1> SUFFICES ASSUME NEW p \in Operators
             PROVE  worker'[p].pc # "idle" => Keeps(worker[p].obj, api[worker[p].app])'
  BY DEF WorkersKeep
<1> QED BY WorkerStays

LEMMA ReturnKeeps ==
  ASSUME VersionInv, Advances, TypeOK', UNCHANGED clock, NEW o \in Operators, Return(o)
  PROVE  WorkersKeep'
<1>1. worker'[o].pc = "idle" /\ \A p \in Operators : p # o => worker'[p] = worker[p]
  BY DEF Return, Idle, VersionInv, TypeOK, ControllerTypeOK
<1>2. clock' >= clock
  BY DEF VersionInv, TypeOK, ApiTypeOK
<1> QED BY <1>1, <1>2, WorkersStay

LEMMA ProceedKeeps ==
  ASSUME VersionInv, Advances, TypeOK', UNCHANGED clock,
         NEW o \in Operators, NEW stage, NEW obj, Proceed(o, stage, obj),
         Keeps(obj, api'[worker[o].app])
  PROVE  WorkersKeep'
<1>1. /\ worker'[o].obj = obj /\ worker'[o].app = worker[o].app
      /\ \A p \in Operators : p # o => worker'[p] = worker[p]
  BY DEF Proceed, VersionInv, TypeOK, ControllerTypeOK, Worker
<1>2. Keeps(worker[o].obj, api[worker[o].app])'
  BY <1>1 DEF Keeps
<1>3. clock' >= clock
  BY DEF VersionInv, TypeOK, ApiTypeOK
<1> QED BY <1>1, <1>2, <1>3, WorkersStay

LEMMA SyncedNow ==
  ASSUME NEW st \in Status, NEW revision, NEW parsed, NEW now
  PROVE  SyncedStatus(st, revision, parsed, now).lastSync = now
BY DEF SyncedStatus, Status

LEMMA WithStatus ==
  ASSUME NEW obj \in Object, NEW st
  PROVE  [obj EXCEPT !.status = st].status = st /\ [obj EXCEPT !.status = st].rv = obj.rv
BY DEF Object

(* The stages that compute a status and write nothing. *)
LEMMA ComputeKeeps ==
  ASSUME VersionInv, TypeOK', NEW o \in Operators, UNCHANGED <<api, watch, cache, clock>>,
         worker[o].pc # "idle", NEW stage, NEW st, Proceed(o, stage, [worker[o].obj EXCEPT !.status = st]),
         st.lastSync = worker[o].obj.status.lastSync \/ st.lastSync = clock
  PROVE  Orderly /\ WorkersKeep'
<1> DEFINE obj == worker[o].obj
           new == [worker[o].obj EXCEPT !.status = st]
<1>1. Orderly
  BY NothingWrittenKeeps
<1>2. worker[o].app \in Apps /\ obj \in Object
  BY WorkerFields DEF VersionInv, TypeOK
<1>3. /\ Keeps(obj, api[worker[o].app])
      /\ api[worker[o].app].status.lastSync <= clock
  BY <1>2 DEF VersionInv, WorkersKeep, SyncedInThePast
<1>4. new.rv = obj.rv /\ new.status = st
  BY <1>2, WithStatus
<1>5. clock \in Nat /\ obj.status.lastSync \in Nat
  BY <1>2, ApiFields, ObjectFields DEF VersionInv
<1>6. Keeps(new, api'[worker[o].app])
  BY <1>3, <1>4, <1>5 DEF Keeps
<1> QED BY <1>1, <1>6, ProceedKeeps DEF Orderly

LEMMA PullKeeps ==
  ASSUME VersionInv, TypeOK', NEW o \in Operators, Pull(o)
  PROVE  Orderly /\ WorkersKeep'
<1> DEFINE obj == worker[o].obj
           revision == head[obj.spec.source]
           manifest == <<revision, obj.spec.path>>
<1>1. UNCHANGED <<api, watch, cache, clock>> /\ worker[o].pc # "idle"
  BY DEF Pull, apiVars
<1>2. obj \in Object /\ obj.status \in Status
  BY WorkerFields DEF VersionInv, TypeOK
<1>3. CASE manifest \in Unparsable
  <2> DEFINE st == updateStatus(obj.status, "OutOfSync", "Unknown", revision, NoManifest,
                                TRUE, clock)
  <2>1. Proceed(o, "report", [obj EXCEPT !.status = st])
    BY <1>2, <1>3 DEF Pull, Object
  <2>2. st.lastSync = obj.status.lastSync
    BY <1>2 DEF updateStatus, updateCondition, Status
  <2> HIDE DEF st
  <2> QED BY <1>1, <2>1, <2>2, ComputeKeeps
<1>4. CASE manifest \notin Unparsable
  <2> DEFINE next == Decision(obj, revision, Parsed(manifest))
  <2>1. next.status.lastSync = obj.status.lastSync
    <3> DEFINE health == updateHealthStatus(obj.status, Parsed(manifest))
               lag == updateStatus(obj.status, "OutOfSync", "Unknown", revision,
                                   Parsed(manifest), FALSE, clock)
               start == updateStatus(obj.status, "Syncing", "Progressing", revision,
                                     Parsed(manifest), FALSE, clock)
    <3>1. /\ health.lastSync = obj.status.lastSync /\ lag.lastSync = obj.status.lastSync
          /\ start.lastSync = obj.status.lastSync
      BY <1>2 DEF updateHealthStatus, updateStatus, updateCondition, Status
    <3>2. next.status \in {health, lag, start}
      BY DEF Decision
    <3> QED BY <3>1, <3>2
  <2>2. /\ worker'[o].obj = [obj EXCEPT !.status = next.status]
        /\ worker'[o].app = worker[o].app
        /\ \A p \in Operators : p # o => worker'[p] = worker[p]
    BY <1>4, SMTT(30) DEF Pull, VersionInv, TypeOK, ControllerTypeOK
  <2> HIDE DEF next
  <2>3. worker'[o].obj.rv = obj.rv /\ worker'[o].obj.status.lastSync = obj.status.lastSync
    BY <1>2, <2>1, <2>2, WithStatus
  <2>4. Keeps(obj, api[worker[o].app])
    BY <1>1 DEF VersionInv, WorkersKeep
  <2>5. Keeps(worker[o].obj, api[worker[o].app])'
    BY <1>1, <2>2, <2>3, <2>4 DEF Keeps
  <2>6. Orderly
    BY <1>1, NothingWrittenKeeps
  <2>7. clock' >= clock
    BY <1>1, ApiFields DEF VersionInv
  <2> QED BY <2>2, <2>5, <2>6, <2>7, WorkersStay DEF Orderly
<1> QED BY <1>3, <1>4

LEMMA ReconcileKeeps ==
  ASSUME VersionInv, TypeOK', NEW o \in Operators, ReconcileStep(o)
  PROVE  Orderly /\ WorkersKeep'
<1> DEFINE obj == worker[o].obj
<1>0. obj \in Object /\ obj.status \in Status
  BY WorkerFields DEF VersionInv, TypeOK
<1>1. CASE PullFails(o)
  <2> DEFINE st == updateStatus(obj.status, "Unknown", "Unknown", NoRevision, NoManifest,
                                TRUE, clock)
  <2>1. Proceed(o, "report", [obj EXCEPT !.status = st])
    BY <1>0, <1>1 DEF PullFails, Object
  <2>2. UNCHANGED <<api, watch, cache, clock>> /\ worker[o].pc # "idle"
    BY <1>1 DEF PullFails
  <2>3. st.lastSync = obj.status.lastSync
    BY <1>0 DEF updateStatus, updateCondition, Status
  <2> HIDE DEF st
  <2> QED BY <2>1, <2>2, <2>3, ComputeKeeps
<1>2. CASE Pull(o)
  BY <1>2, PullKeeps
<1>3. CASE Report(o)
  <2>1. /\ \E ok, got : UpdateStatus(o, ok, got)
        /\ UNCHANGED <<cache, clock>> /\ worker[o].pc # "idle" /\ Return(o)
    BY <1>3 DEF Report
  <2>2. Orderly
    BY <2>1, UpdateStatusOrderly
  <2> QED BY <2>1, <2>2, ReturnKeeps DEF Orderly
<1>4. CASE Announce(o)
  <2>1. PICK ok, got : UpdateStatus(o, ok, got) /\ Proceed(o, "apply", got)
    BY <1>4 DEF Announce
  <2>2. UNCHANGED <<cache, clock>> /\ worker[o].pc # "idle"
    BY <1>4 DEF Announce
  <2>3. Orderly /\ Keeps(got, api'[worker[o].app])
    BY <2>1, <2>2, UpdateStatusOrderly
  <2> QED BY <2>1, <2>2, <2>3, ProceedKeeps DEF Orderly
<1>5. CASE ApplySucceeds(o)
  <2> DEFINE st == SyncedStatus(obj.status, worker[o].revision, worker[o].parsed, clock)
  <2>1. Proceed(o, "commit", [obj EXCEPT !.status = st])
    BY <1>0, <1>5 DEF ApplySucceeds, Object
  <2>2. UNCHANGED <<api, watch, cache, clock>> /\ worker[o].pc # "idle"
    BY <1>5 DEF ApplySucceeds, apiVars
  <2>3. st.lastSync = clock
    BY <1>0, SyncedNow
  <2> HIDE DEF st
  <2> QED BY <2>1, <2>2, <2>3, ComputeKeeps
<1>6. CASE ApplyFails(o)
  <2> DEFINE st == updateStatus(obj.status, "OutOfSync", "Degraded", worker[o].revision,
                                worker[o].parsed, TRUE, clock)
  <2>1. Proceed(o, "reportFailure", [obj EXCEPT !.status = st])
    BY <1>0, <1>6 DEF ApplyFails, Object
  <2>2. UNCHANGED <<api, watch, cache, clock>> /\ worker[o].pc # "idle"
    BY <1>6 DEF ApplyFails
  <2>3. st.lastSync = obj.status.lastSync
    BY <1>0 DEF updateStatus, updateCondition, Status
  <2> HIDE DEF st
  <2> QED BY <2>1, <2>2, <2>3, ComputeKeeps
<1>7. CASE ReportFailure(o)
  <2>1. PICK ok, got : UpdateStatus(o, ok, got) /\ Proceed(o, "notifyErr", got)
    BY <1>7 DEF ReportFailure
  <2>2. UNCHANGED <<cache, clock>> /\ worker[o].pc # "idle"
    BY <1>7 DEF ReportFailure
  <2>3. Orderly /\ Keeps(got, api'[worker[o].app])
    BY <2>1, <2>2, UpdateStatusOrderly
  <2> QED BY <2>1, <2>2, <2>3, ProceedKeeps DEF Orderly
<1>8. CASE Commit(o)
  <2>1. PICK ok, got : /\ UpdateStatus(o, ok, got)
                       /\ Proceed(o, "notifyOk", got) \/ Return(o)
    BY <1>8 DEF Commit
  <2>2. UNCHANGED <<cache, clock>> /\ worker[o].pc # "idle"
    BY <1>8 DEF Commit
  <2>3. Orderly /\ Keeps(got, api'[worker[o].app])
    BY <2>1, <2>2, UpdateStatusOrderly
  <2> QED BY <2>1, <2>2, <2>3, ProceedKeeps, ReturnKeeps DEF Orderly
<1>9. CASE Notify(o)
  <2>1. UNCHANGED <<api, watch, cache, clock>> /\ Return(o)
    BY <1>9 DEF Notify, apiVars
  <2>2. Orderly
    BY <2>1, NothingWrittenKeeps
  <2> QED BY <2>1, <2>2, ReturnKeeps DEF Orderly
<1> QED BY <1>1, <1>2, <1>3, <1>4, <1>5, <1>6, <1>7, <1>8, <1>9 DEF ReconcileStep

-----------------------------------------------------------------------------
(* The other steps of a process. *)

LEMMA FetchKeeps ==
  ASSUME VersionInv, TypeOK', NEW o \in Operators, NEW a \in Apps, Fetch(o, a)
  PROVE  Orderly /\ WorkersKeep'
<1>1. UNCHANGED <<api, watch, cache, clock>>
  BY DEF Fetch
<1>2. Orderly
  BY <1>1, NothingWrittenKeeps
<1>3. clock' >= clock
  BY <1>1, ApiFields DEF VersionInv
<1>4. CASE worker' = [worker EXCEPT ![o] = [Idle EXCEPT !.pc = "pull", !.app = a,
                                                        !.obj = cache[o][a]]]
  <2>1. /\ worker'[o].app = a /\ worker'[o].obj = cache[o][a]
        /\ \A p \in Operators : p # o => worker'[p] = worker[p]
    BY <1>4 DEF VersionInv, TypeOK, ControllerTypeOK, Idle
  <2>2. cache[o][a] \in Object /\ api[a] \in Object
    BY DEF VersionInv, TypeOK, ApiTypeOK
  <2>3. Keeps(cache[o][a], api[a])
    BY <2>2, ObjectFields DEF VersionInv, CachesFollow, SyncedInThePast, Follows, Keeps
  <2>4. Keeps(worker[o].obj, api[worker[o].app])'
    BY <1>1, <2>1, <2>3 DEF Keeps
  <2> QED BY <1>2, <1>3, <2>1, <2>4, WorkersStay DEF Orderly
<1>5. CASE UNCHANGED worker
  BY <1>2, <1>3, <1>5, WorkerStays DEF Orderly, WorkersKeep
<1> QED BY <1>4, <1>5 DEF Fetch, Forget

LEMMA DeliverOrderly ==
  ASSUME VersionInv, NEW o \in Operators, NEW a \in Apps, CacheNext(o, a)
  PROVE  Orderly
<1> USE DEF VersionInv
<1>1. /\ watch[o][a] # <<>> /\ watch[o][a] \in Seq(Object) /\ UNCHANGED <<api, clock, left>>
      /\ watch'[o][a] = Tail(watch[o][a]) /\ cache'[o][a] = Head(watch[o][a])
      /\ \A p \in Operators, b \in Apps :
           (p # o \/ b # a) => watch'[p][b] = watch[p][b] /\ cache'[p][b] = cache[p][b]
  BY DEF CacheNext, TypeOK, ApiTypeOK
<1>2. ASSUME NEW p \in Operators, NEW b \in Apps
      PROVE  /\ Follows(cache'[p][b], api'[b])
             /\ cache'[p][b].status.lastSync <= clock'
             /\ \A i \in 1 .. Len(watch'[p][b]) :
                  /\ Follows(watch'[p][b][i], api'[b])
                  /\ watch'[p][b][i].status.lastSync <= clock'
  <2>1. CASE p = o /\ b = a
    <3> DEFINE w == watch[o][a]
    <3>1. \A i \in 1 .. Len(w) : Follows(w[i], api[a]) /\ w[i].status.lastSync <= clock
      BY DEF CachesFollow, SyncedInThePast
    <3>2. Head(w) = w[1] /\ 1 \in 1 .. Len(w)
      BY <1>1
    <3>3. ASSUME NEW i \in 1 .. Len(Tail(w)) PROVE Tail(w)[i] = w[i + 1] /\ i + 1 \in 1 .. Len(w)
      BY <1>1
    <3> HIDE DEF w
    <3>4. Follows(Head(w), api[a]) /\ Head(w).status.lastSync <= clock
      BY <3>1, <3>2
    <3>5. \A i \in 1 .. Len(Tail(w)) :
            Follows(Tail(w)[i], api[a]) /\ Tail(w)[i].status.lastSync <= clock
      BY <3>1, <3>3
    <3> QED BY <1>1, <2>1, <3>4, <3>5 DEF w, Follows
  <2>2. CASE p # o \/ b # a
    BY <1>1, <2>2 DEF CachesFollow, SyncedInThePast, Follows
  <2> QED BY <2>1, <2>2
<1> QED BY <1>1, <1>2, ApiFields
        DEF Orderly, Advances, EditsKept, LastSyncKept, CachesFollow, SyncedInThePast

LEMMA RestartOrderly ==
  ASSUME VersionInv, TypeOK', NEW o \in Operators, Restart(o)
  PROVE  Orderly /\ WorkersKeep' /\ HooksFollow'
<1> USE DEF VersionInv
<1>1. UNCHANGED <<api, clock>>
  BY DEF Restart, RestartController, CacheList
<1>2. /\ watch'[o] = [a \in Apps |-> <<>>] /\ cache'[o] = api /\ worker'[o].pc = "idle"
      /\ hook'[o] = NoCopies
      /\ \A p \in Operators :
           p # o => /\ watch'[p] = watch[p] /\ cache'[p] = cache[p]
                    /\ worker'[p] = worker[p] /\ hook'[p] = hook[p]
  BY DEF Restart, RestartController, CacheList, Idle, TypeOK, ApiTypeOK, ControllerTypeOK, HookTypeOK
<1>3. CachesFollow' /\ SyncedInThePast'
  BY <1>1, <1>2 DEF CachesFollow, SyncedInThePast, Follows
<1>4. Orderly
  BY <1>1, <1>3, ApiFields DEF Orderly, Advances, EditsKept, LastSyncKept
<1>5. WorkersKeep'
  BY <1>1, <1>2, <1>4, ApiFields, WorkersStay DEF Orderly
<1>6. HooksFollow'
  BY <1>1, <1>2, ApiFields DEF HooksFollow, Follows, NoCopies, NoObject
<1> QED BY <1>4, <1>5, <1>6

-----------------------------------------------------------------------------
(* The webhook and the users. *)

(* The webhook writes back the whole of a listed copy.  A copy that is not  *)
(* the stored object is refused, so what is written has the stored spec.    *)
LEMMA AnnotateOrderly ==
  ASSUME VersionInv, NEW o \in Operators, NEW a \in Apps, Annotate(o, a)
  PROVE  Orderly
<1> USE DEF VersionInv
<1> DEFINE obj == [hook[o][a] EXCEPT !.note = clock]
           new == MainRevised(a, obj)
<1>1. /\ obj \in Object /\ obj.rv = hook[o][a].rv /\ obj.spec = hook[o][a].spec
  <2>1. hook[o][a] \in Object /\ clock \in Nat
    BY DEF TypeOK, HookTypeOK, ApiTypeOK
  <2> QED BY <2>1 DEF Object
<1>2. /\ new \in Object
      /\ new = api[a] \/ new.rv > api[a].rv
      /\ new.spec = obj.spec /\ new.status = api[a].status
  <2>1. [api[a] EXCEPT !.spec = obj.spec, !.note = obj.note] \in Object
    BY <1>1, ApiFields DEF Object
  <2>2. /\ [api[a] EXCEPT !.spec = obj.spec, !.note = obj.note].spec = obj.spec
        /\ [api[a] EXCEPT !.spec = obj.spec, !.note = obj.note].status = api[a].status
    BY <1>1, ApiFields DEF Object
  <2>3. api[a] \in Object
    BY ApiFields
  <2> QED BY <2>1, <2>2, <2>3, RevisedVersion, RevisedType DEF MainRevised
<1>3. PICK ok, got : Write(a, obj, new, ok, got)
  BY DEF Annotate
<1>4. UNCHANGED <<cache, clock>>
  BY DEF Annotate
<1>5. api \in [Apps -> Object]
  BY DEF TypeOK, ApiTypeOK
<1>6. api[a].rv \in Nat
  BY ApiFields
<1> HIDE DEF obj, new
<1>7. CASE Accepted(a, obj, new) /\ Store(a, new)
  <2>1. new.spec = api[a].spec
    <3>1. hook[o][a].rv = api[a].rv
      BY <1>1, <1>7 DEF Accepted
    <3>2. hook[o][a] = api[a]
      BY <1>6, <3>1 DEF HooksFollow, Follows
    <3> QED BY <1>1, <1>2, <3>2
  <2>2. new.status.lastSync <= clock
    BY <1>2 DEF SyncedInThePast
  <2>3. /\ Advances /\ (\A b \in Apps : api'[b].rv > 0)
        /\ CachesFollow' /\ SyncedInThePast'
    BY <1>2, <1>4, <1>7, <2>2, StoreFollowed
  <2>4. api'[a] = new /\ \A b \in Apps : b # a => api'[b] = api[b]
    BY <1>5, <1>7 DEF Store
  <2>5. EditsKept
    BY <2>1, <2>4 DEF EditsKept
  <2>6. LastSyncKept
    BY <1>2, <2>4, ApiFields DEF LastSyncKept
  <2> QED BY <2>3, <2>5, <2>6 DEF Orderly
<1>8. CASE UNCHANGED <<api, watch>>
  BY <1>4, <1>8, NothingWrittenKeeps
<1> QED BY <1>3, <1>7, <1>8 DEF Write

(* Only an edit changes the spec of an object that stays.  An object that   *)
(* is deleted and created again starts anew, one version on.                *)
LEMMA UsersOrderly ==
  ASSUME VersionInv, Users
  PROVE  Orderly
<1> USE DEF VersionInv
<1>1. api \in [Apps -> Object] /\ clock \in Nat /\ left \in [Kinds -> Nat]
  BY DEF TypeOK, ApiTypeOK
<1>2. ASSUME NEW a \in Apps, NEW new \in Object, Store(a, new), UNCHANGED <<cache, clock>>,
             new.rv = api[a].rv + 1, new.status.lastSync <= clock,
             api[a].exists /\ new.exists => /\ new.status = api[a].status
                                            /\ left'["edit"] < left["edit"]
      PROVE  Orderly
  <2>1. new.rv > api[a].rv
    BY <1>2, ApiFields
  <2>2. /\ Advances /\ (\A b \in Apps : api'[b].rv > 0)
        /\ CachesFollow' /\ SyncedInThePast'
    BY <1>2, <2>1, StoreFollowed
  <2>3. api'[a] = new /\ \A b \in Apps : b # a => api'[b] = api[b]
    BY <1>1, <1>2 DEF Store
  <2>4. EditsKept
    BY <1>2, <2>3 DEF EditsKept
  <2>5. LastSyncKept
    BY <1>2, <2>3, ApiFields DEF LastSyncKept
  <2> QED BY <2>2, <2>4, <2>5 DEF Orderly
<1>3. ASSUME NEW a \in Apps, Delete(a) PROVE Orderly
  <2> DEFINE new == [api[a] EXCEPT !.exists = FALSE, !.rv = @ + 1]
  <2>1. /\ new \in Object /\ new.rv = api[a].rv + 1 /\ ~new.exists
        /\ new.status = api[a].status
    <3>1. api[a] \in Object
      BY ApiFields
    <3> QED BY <3>1, EditedObject
  <2>2. Store(a, new) /\ UNCHANGED <<cache, clock>>
    BY <1>3 DEF Delete
  <2> HIDE DEF new
  <2> QED BY <1>2, <2>1, <2>2 DEF SyncedInThePast
<1>4. ASSUME NEW a \in Apps, NEW spec \in AppSpec, EditSpec(a, spec) PROVE Orderly
  <2> DEFINE new == [api[a] EXCEPT !.spec = spec, !.rv = @ + 1]
  <2>1. new \in Object /\ new.rv = api[a].rv + 1 /\ new.status = api[a].status
    <3>1. api[a] \in Object
      BY ApiFields
    <3> QED BY <3>1, EditedObject
  <2>2. Store(a, new) /\ UNCHANGED <<cache, clock>>
    BY <1>4 DEF EditSpec
  <2>3. left'["edit"] < left["edit"]
    BY <1>1, <1>4 DEF EditSpec, Spend, Kinds
  <2> HIDE DEF new
  <2> QED BY <1>2, <2>1, <2>2, <2>3 DEF SyncedInThePast
<1>5. ASSUME NEW a \in Apps, NEW spec \in AppSpec, Create(a, spec) PROVE Orderly
  <2> DEFINE new == Created(spec, api[a].rv + 1)
  <2>1. new \in Object /\ new.rv = api[a].rv + 1 /\ new.status.lastSync = 0
    <3>1. new.status = EmptyStatus /\ EmptyStatus.lastSync = 0 /\ new.rv = api[a].rv + 1
      BY DEF Created, EmptyStatus
    <3>2. api[a].rv \in Nat
      BY ApiFields
    <3>3. new \in Object
      BY <3>2, EmptyStatusType DEF Created, Object
    <3> QED BY <3>1, <3>3
  <2>2. Store(a, new) /\ UNCHANGED <<cache, clock>> /\ ~api[a].exists
    BY <1>5 DEF Create
  <2> HIDE DEF new
  <2> QED BY <1>1, <1>2, <2>1, <2>2
<1> QED BY <1>3, <1>4, <1>5 DEF Users

-----------------------------------------------------------------------------
LEMMA VersionInit == Init => VersionInv
<1> SUFFICES ASSUME Init PROVE VersionInv
  OBVIOUS
<1>1. PICK spec \in [Apps -> AppSpec] : api = [a \in Apps |-> Created(spec[a], 1)]
  BY DEF Init, ApiInit
<1>2. /\ \A a \in Apps : api[a].rv = 1 /\ api[a].status.lastSync = 0
      /\ watch = [o \in Operators |-> [a \in Apps |-> <<>>]]
      /\ cache = [o \in Operators |-> api] /\ clock = 1
  BY <1>1 DEF Init, ApiInit, Created, EmptyStatus
<1>3. CachesFollow /\ SyncedInThePast
  BY <1>2 DEF CachesFollow, SyncedInThePast, Follows
<1>4. HooksFollow
  BY <1>2 DEF Init, HookInit, NoCopies, NoObject, HooksFollow, Follows
<1>5. WorkersKeep
  BY DEF Init, ControllerInit, Idle, WorkersKeep
<1> QED BY <1>2, <1>3, <1>4, <1>5, TypeInit DEF VersionInv

LEMMA HooksStay ==
  ASSUME VersionInv, TypeOK', Advances, \A a \in Apps : api'[a].rv > 0,
         \A o \in Operators, a \in Apps : hook'[o][a] = hook[o][a] \/ hook'[o][a] = NoObject
  PROVE  HooksFollow'
<1> SUFFICES ASSUME NEW o \in Operators, NEW a \in Apps
             PROVE  Follows(hook'[o][a], api'[a])
  BY DEF HooksFollow
<1>1. /\ api[a].rv \in Nat /\ api'[a].rv \in Nat /\ hook[o][a].rv \in Nat
  BY ObjectFields DEF VersionInv, TypeOK, ApiTypeOK, HookTypeOK
<1>2. Follows(hook[o][a], api[a])
  BY DEF VersionInv, HooksFollow
<1>3. NoObject.rv = 0
  BY DEF NoObject
<1> QED BY <1>1, <1>2, <1>3 DEF Follows, Advances

LEMMA OthersKeep ==
  ASSUME VersionInv, TypeOK', Orderly, clock' >= clock, UNCHANGED worker
  PROVE  WorkersKeep'
BY WorkerStays DEF Orderly, WorkersKeep

LEMMA VersionNext ==
  ASSUME VersionInv, TypeOK', [Next]_vars
  PROVE  VersionInv' /\ Orderly
<1> USE DEF VersionInv
<1> SUFFICES Orderly /\ WorkersKeep' /\ HooksFollow'
  BY DEF Orderly
<1>0. clock \in Nat
  BY ApiFields
<1>1. ASSUME NEW o \in Operators, Controller(o) PROVE Orderly /\ WorkersKeep' /\ HooksFollow'
  <2>1. Orderly /\ WorkersKeep'
    <3>1. CASE ReconcileStep(o)
      BY <3>1, ReconcileKeeps
    <3>2. ASSUME NEW a \in Apps, Fetch(o, a) PROVE Orderly /\ WorkersKeep'
      BY <3>2, FetchKeeps
    <3>3. ASSUME NEW a \in Apps, Deliver(o, a) PROVE Orderly /\ WorkersKeep'
      <4>1. CacheNext(o, a) /\ UNCHANGED worker
        BY <3>3 DEF Deliver
      <4>2. UNCHANGED clock
        BY <4>1 DEF CacheNext
      <4> QED BY <1>0, <4>1, <4>2, DeliverOrderly, OthersKeep
    <3>4. ASSUME NEW a \in Apps, TimerFires(o, a) PROVE Orderly /\ WorkersKeep'
      <4>1. UNCHANGED <<api, watch, cache, clock, worker>>
        BY <3>4 DEF TimerFires, apiVars
      <4> QED BY <1>0, <4>1, NothingWrittenKeeps, OthersKeep
    <3> QED BY <1>1, <3>1, <3>2, <3>3, <3>4 DEF Controller
  <2>2. UNCHANGED hook
    BY <1>1 DEF Controller
  <2> QED BY <2>1, <2>2, HooksStay DEF Orderly
<1>2. ASSUME NEW o \in Operators, Webhook(o) PROVE Orderly /\ WorkersKeep' /\ HooksFollow'
  <2>1. UNCHANGED worker
    BY <1>2 DEF Webhook, controllerVars
  <2>2. ASSUME NEW s \in Sources, ReceivePush(o, s) PROVE Orderly /\ HooksFollow' /\ UNCHANGED clock
    <3>1. UNCHANGED <<api, watch, cache, clock>>
      BY <2>2 DEF ReceivePush
    <3>2. ASSUME NEW p \in Operators, NEW a \in Apps
          PROVE  hook'[p][a] \in {hook[p][a], NoObject, cache[p][a]}
      BY <2>2 DEF ReceivePush, Matching, TypeOK, HookTypeOK
    <3>3. \A a \in Apps : Follows(NoObject, api[a])
      BY DEF Follows, NoObject
    <3>4. HooksFollow'
      BY <3>1, <3>2, <3>3 DEF HooksFollow, CachesFollow, Follows
    <3> QED BY <3>1, <3>4, NothingWrittenKeeps
  <2>3. ASSUME NEW a \in Apps, Annotate(o, a) PROVE Orderly /\ HooksFollow' /\ UNCHANGED clock
    <3>1. Orderly
      BY <2>3, AnnotateOrderly
    <3>2. \A p \in Operators, b \in Apps : hook'[p][b] = hook[p][b] \/ hook'[p][b] = NoObject
      BY <2>3 DEF Annotate, TypeOK, HookTypeOK
    <3>3. UNCHANGED clock
      BY <2>3 DEF Annotate
    <3> QED BY <3>1, <3>2, <3>3, HooksStay DEF Orderly
  <2> QED BY <1>0, <1>2, <2>1, <2>2, <2>3, OthersKeep DEF Webhook
<1>3. ASSUME NEW o \in Operators, Restart(o) PROVE Orderly /\ WorkersKeep' /\ HooksFollow'
  BY <1>3, RestartOrderly
<1>4. CASE Users
  <2>1. UNCHANGED <<worker, hook, clock>>
    BY <1>4 DEF Users, controllerVars, EditSpec, Create, Delete
  <2>2. Orderly
    BY <1>4, UsersOrderly
  <2> QED BY <1>0, <2>1, <2>2, OthersKeep, HooksStay DEF Orderly
<1>5. CASE World
  <2>1. UNCHANGED <<api, watch, cache, worker, hook>> /\ clock' \in {clock, clock + 1}
    BY <1>5 DEF World, Tick, Push, controllerVars
  <2>2. CachesFollow' /\ Advances /\ EditsKept /\ LastSyncKept
    BY <2>1, ApiFields DEF CachesFollow, Follows, Advances, EditsKept, LastSyncKept
  <2>3. SyncedInThePast'
    <3>1. ASSUME NEW obj \in Object, obj.status.lastSync <= clock
          PROVE  obj.status.lastSync <= clock'
      BY <1>0, <2>1, <3>1, ObjectFields
    <3>2. \A a \in Apps, o \in Operators :
            /\ api[a] \in Object /\ cache[o][a] \in Object
            /\ \A i \in 1 .. Len(watch[o][a]) : watch[o][a][i] \in Object
      BY DEF TypeOK, ApiTypeOK
    <3> QED BY <2>1, <3>1, <3>2, ApiFields DEF SyncedInThePast
  <2>4. Orderly
    BY <2>1, <2>2, <2>3 DEF Orderly
  <2> QED BY <1>0, <2>1, <2>4, OthersKeep, HooksStay DEF Orderly
<1>6. CASE UNCHANGED vars
  <2>1. UNCHANGED <<api, watch, cache, clock, worker, hook>>
    BY <1>6 DEF vars
  <2>2. Orderly
    BY <2>1, NothingWrittenKeeps
  <2> QED BY <1>0, <2>1, <2>2, OthersKeep, HooksStay DEF Orderly
<1> QED BY <1>1, <1>2, <1>3, <1>4, <1>5, <1>6 DEF Next

(* Every copy that the operator may write from is of a version at most the  *)
(* stored one, and of that version only if it was not overtaken             *)
(* (gitapplication_controller.go:41, handler.go:44-80).                     *)
THEOREM Versions == Spec => []VersionInv
<1>1. VersionInv /\ TypeOK' /\ [Next]_vars => VersionInv'
  BY VersionNext
<1> QED BY VersionInit, <1>1, TypeCorrect, PTL DEF Spec

(* An edit of the spec survives: what the webhook (handler.go:66-80) and    *)
(* the status writes (gitapplication_controller.go:82-114) store has the    *)
(* spec that is stored, however old the copy they hold.                     *)
THEOREM EditsSurvive == Spec => UserEditsSurvive
<1>1. VersionInv /\ TypeOK' /\ [Next]_vars => [EditsKept]_vars
  BY VersionNext DEF Orderly
<1> QED BY <1>1, Versions, TypeCorrect, PTL DEF Spec, UserEditsSurvive, EditsKept

(* The time of the last sync never goes back and is never lost, although    *)
(* every status write replaces the whole status by one computed from a copy *)
(* (gitapplication_controller.go:82-114, 128-176).                          *)
THEOREM LastSyncAdvances == Spec => LastSyncMonotone
<1>1. VersionInv /\ TypeOK' /\ [Next]_vars => [LastSyncKept]_vars
  BY VersionNext DEF Orderly
<1> QED BY <1>1, Versions, TypeCorrect, PTL DEF Spec, LastSyncMonotone, LastSyncKept
=============================================================================
