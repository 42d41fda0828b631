----------------------------- MODULE Reconciler -----------------------------
(***************************************************************************)
(* GitApplicationReconciler (operator/internal/controller/                 *)
(* gitapplication_controller.go) in one or more operator processes.        *)
(*                                                                         *)
(* Each process has a work queue, the requeue timers of its queue and one  *)
(* worker (MaxConcurrentReconciles is left at 1).  A call of Reconcile is  *)
(* cut at its calls to the API server, to Git, to the cluster and to the   *)
(* notifier, because other processes, users and crashes come in between.   *)
(* worker[o].pc names the call that comes next:                            *)
(*                                                                         *)
(*   idle --Fetch--> pull --Pull--> report ------------Report---> idle     *)
(*                            |                                            *)
(*                            +---> announce --Announce--> apply           *)
(*   apply --Apply--> commit --Commit--> notifyOk --Notify------> idle     *)
(*                |         +--> idle (error, rate-limited requeue)        *)
(*                +---> reportFailure --ReportFailure--> notifyErr         *)
(*                                                   --Notify--> idle      *)
(***************************************************************************)
EXTENDS ApiServer

CONSTANTS
  Unparsable,     \* manifests Parse fails on
  Bare,           \* manifests without a document: Parse returns a nil slice
  Moves,          \* the pairs <<r, s>> such that a push may move a branch from
                  \* commit r to commit s: descendants, and more if forced
  ApplyOutcomes   \* what Applier.Apply may answer: {"ok"} for the placeholder
                  \* in the repository, {"ok", "err"} for its interface

ASSUME ReconcilerAssumption ==
  /\ Unparsable \subseteq Manifests
  /\ Bare \subseteq Manifests
  /\ Moves \subseteq Revisions \X Revisions
  /\ ApplyOutcomes \subseteq {"ok", "err"}

VARIABLES
  head,      \* head[s]: the commit at the head of the branch s
  queue,     \* queue[o]: apps in o's work queue
  timers,    \* timers[o]: apps o will enqueue again after some time
  worker,    \* worker[o]: the call of Reconcile in progress
  live,      \* live[a]: the manifest last applied in full
  applied,   \* applied[a]: every manifest ever applied in full
  recorded,  \* recorded[a]: every revision the API server ever stored as Synced
  notices    \* the notifications sent

controllerVars == <<head, queue, timers, worker, live, applied, recorded, notices>>

Stages == {"idle", "pull", "report", "announce", "apply", "commit",
           "reportFailure", "notifyOk", "notifyErr"}

Worker == [pc : Stages, app : Apps, obj : Object,
           revision : Revisions \cup {NoRevision}, parsed : Manifests \cup {NoManifest}]

Notice == [app : Apps, revision : Revisions \cup {NoRevision}, success : BOOLEAN]

\* what was pulled is what will be applied
RevisionHeld ==
  \A o \in Operators :
    worker[o].pc \in {"announce", "apply"} => worker[o].revision \in Revisions

ControllerTypeOK ==
  /\ head \in [Sources -> Revisions]
  /\ queue \in [Operators -> SUBSET Apps]
  /\ timers \in [Operators -> SUBSET Apps]
  /\ worker \in [Operators -> Worker]
  /\ live \in [Apps -> Manifests \cup {NoManifest}]
  /\ applied \in [Apps -> SUBSET Manifests]
  /\ recorded \in [Apps -> SUBSET (Revisions \cup {NoRevision})]
  /\ notices \subseteq Notice
  /\ RevisionHeld

Idle == [pc |-> "idle", app |-> CHOOSE a \in Apps : TRUE, obj |-> NoObject,
         revision |-> NoRevision, parsed |-> NoManifest]

Existing == {a \in Apps : api[a].exists}

(* The initial list of a process that starts enqueues what it finds. *)
ControllerInit ==
  /\ head \in [Sources -> Revisions]
  /\ queue = [o \in Operators |-> Existing]
  /\ timers = [o \in Operators |-> {}]
  /\ worker = [o \in Operators |-> Idle]
  /\ live = [a \in Apps |-> NoManifest]
  /\ applied = [a \in Apps |-> {}]
  /\ recorded = [a \in Apps |-> {}]
  /\ notices = {}

-----------------------------------------------------------------------------
Busy(o, a) == worker[o].pc # "idle" /\ worker[o].app = a

\* mutant: no RequeueAfter
ReturnForGood(o) == worker' = [worker EXCEPT ![o] = Idle] /\ UNCHANGED timers

(* Reconcile returns: with RequeueAfter, or with an error, which the queue  *)
(* answers with a rate-limited requeue.  Both come back through a timer.    *)
Return(o) ==
  /\ worker' = [worker EXCEPT ![o] = Idle]
  /\ timers' = [timers EXCEPT ![o] = @ \cup {worker[o].app}]

(* Reconcile goes on to the call that stage names, holding obj. *)
Proceed(o, stage, obj) ==
  worker' = [worker EXCEPT ![o].pc = stage, ![o].obj = obj]

(* What the status of a in the API server claims after the step. *)
NoteRecorded(a) ==
  recorded' = IF api'[a].status.sync = "Synced"
                THEN [recorded EXCEPT ![a] = @ \cup {api'[a].status.revision}]
                ELSE recorded

(* r.Status().Update(ctx, app) of the object the worker holds. *)
UpdateStatus(o, ok, got) ==
  LET a == worker[o].app  obj == worker[o].obj
  IN  /\ Write(a, obj, StatusRevised(a, obj), ok, got)
      /\ NoteRecorded(a)

-----------------------------------------------------------------------------
\* mutant: the cache is updated and nothing is enqueued
DeliverSilently(o, a) ==
  /\ CacheNext(o, a)
  /\ UNCHANGED <<head, queue, timers, worker, live, applied, recorded, notices>>

(* The informer hands the next change to the cache and enqueues the app.    *)
(* For() has no predicate: the controller's own status writes come back.    *)
Deliver(o, a) ==
  /\ CacheNext(o, a)
  /\ queue' = [queue EXCEPT ![o] = @ \cup {a}]
  /\ UNCHANGED <<head, timers, worker, live, applied, recorded, notices>>

TimerFires(o, a) ==
  /\ a \in timers[o]
  /\ timers' = [timers EXCEPT ![o] = @ \ {a}]
  /\ queue' = [queue EXCEPT ![o] = @ \cup {a}]
  /\ UNCHANGED <<head, worker, live, applied, recorded, notices>>
  /\ UNCHANGED apiVars

\* mutant: NotFound is treated as any other error
ForgetNever(o, a) == timers' = [timers EXCEPT ![o] = @ \cup {a}] /\ UNCHANGED worker

(* A request for an object that is gone is forgotten. *)
Forget(o, a) == UNCHANGED <<worker, timers>>

(* The worker takes a request and reads the object from the cache; an error *)
(* other than NotFound requeues the request.                                *)
Fetch(o, a) ==
  /\ worker[o].pc = "idle" /\ a \in queue[o]
  /\ queue' = [queue EXCEPT ![o] = @ \ {a}]
  /\ \/ /\ cache[o][a].exists
        /\ worker' = [worker EXCEPT ![o] = [Idle EXCEPT !.pc = "pull", !.app = a,
                                                        !.obj = cache[o][a]]]
        /\ UNCHANGED <<timers, left>>
     \/ /\ ~cache[o][a].exists
        /\ Forget(o, a) /\ UNCHANGED left
     \/ /\ Spend("fault")
        /\ timers' = [timers EXCEPT ![o] = @ \cup {a}]
        /\ UNCHANGED worker
  /\ UNCHANGED <<api, watch, cache, clock, head, live, applied, recorded, notices>>

(* What Parse makes of m when it does not fail. *)
Parsed(m) == IF m \in Bare THEN NoManifest ELSE m

\* mutant: Synced is announced before anything is applied
DecisionEarly(obj, revision, parsed) ==
  [pc |-> IF UpToDate(obj.status, revision) THEN "report" ELSE "announce",
   status |-> updateStatus(obj.status, "Synced", "Healthy", revision, parsed, FALSE, clock)]

(* Steps 3 and 4 of Reconcile, for a manifest that parsed: the call that    *)
(* follows and the status it will try to write.                             *)
Decision(obj, revision, parsed) ==
  CASE UpToDate(obj.status, revision) ->
         [pc |-> "report", status |-> updateHealthStatus(obj.status, parsed)]
    [] ~UpToDate(obj.status, revision) /\ ~ShouldSync(obj.spec, obj.status) ->
         [pc |-> "report",
          status |-> updateStatus(obj.status, "OutOfSync", "Unknown", revision, parsed, FALSE, clock)]
    [] OTHER ->
         [pc |-> "announce",
          status |-> updateStatus(obj.status, "Syncing", "Progressing", revision, parsed, FALSE, clock)]

(* CloneOrPull fails: the revision it returns is the empty string. *)
PullFails(o) ==
  LET obj == worker[o].obj
  IN  /\ worker[o].pc = "pull"
      /\ Spend("fault")
      /\ Proceed(o, "report",
           [obj EXCEPT !.status =
              updateStatus(@, "Unknown", "Unknown", NoRevision, NoManifest, TRUE, clock)])
      /\ UNCHANGED <<api, watch, cache, clock, head, queue, timers, live, applied,
                     recorded, notices>>

(* CloneOrPull succeeds and Parse reads the manifest of the path.  Only     *)
(* this worker touches the working directory, so nothing comes in between.  *)
Pull(o) ==
  LET obj == worker[o].obj
      revision == head[obj.spec.source]
      manifest == <<revision, obj.spec.path>>
  IN  /\ worker[o].pc = "pull"
      /\ \/ /\ manifest \in Unparsable
            /\ Proceed(o, "report",
                 [obj EXCEPT !.status =
                    updateStatus(@, "OutOfSync", "Unknown", revision, NoManifest, TRUE, clock)])
         \/ /\ manifest \notin Unparsable
            /\ LET next == Decision(obj, revision, Parsed(manifest))
               IN  worker' = [worker EXCEPT
                     ![o] = [pc |-> next.pc, app |-> worker[o].app,
                             obj |-> [obj EXCEPT !.status = next.status],
                             revision |-> revision, parsed |-> Parsed(manifest)]]
      /\ UNCHANGED <<head, queue, timers, live, applied, recorded, notices>>
      /\ UNCHANGED apiVars

(* The last status write of a call that does not sync; its error is ignored. *)
Report(o) ==
  /\ worker[o].pc = "report"
  /\ \E ok \in BOOLEAN, got \in {worker[o].obj, StatusRevised(worker[o].app, worker[o].obj)} :
       UpdateStatus(o, ok, got)
  /\ Return(o)
  /\ UNCHANGED <<cache, clock, head, queue, live, applied, notices>>

(* Step 5 announces Syncing; whether the write succeeded is not looked at. *)
Announce(o) ==
  /\ worker[o].pc = "announce"
  /\ \E ok \in BOOLEAN, got \in {worker[o].obj, StatusRevised(worker[o].app, worker[o].obj)} :
       UpdateStatus(o, ok, got) /\ Proceed(o, "apply", got)
  /\ UNCHANGED <<cache, clock, head, queue, timers, live, applied, notices>>

(* Apply succeeds and the status of the success is prepared. *)
ApplySucceeds(o) ==
  LET a == worker[o].app
      obj == worker[o].obj
      manifest == <<worker[o].revision, obj.spec.path>>
  IN  /\ worker[o].pc = "apply" /\ "ok" \in ApplyOutcomes
      /\ live' = [live EXCEPT ![a] = manifest]
      /\ applied' = [applied EXCEPT ![a] = @ \cup {manifest}]
      /\ Proceed(o, "commit",
           [obj EXCEPT !.status = SyncedStatus(@, worker[o].revision, worker[o].parsed, clock)])
      /\ UNCHANGED <<head, queue, timers, recorded, notices>>
      /\ UNCHANGED apiVars

\* mutant: the error of Apply is not looked at
ApplyFailsUnnoticed(o) ==
  LET obj == worker[o].obj
  IN  /\ worker[o].pc = "apply" /\ "err" \in ApplyOutcomes
      /\ Spend("fault")
      /\ live' = [live EXCEPT ![worker[o].app] = NoManifest]
      /\ Proceed(o, "commit",
           [obj EXCEPT !.status = SyncedStatus(@, worker[o].revision, worker[o].parsed, clock)])
      /\ UNCHANGED <<api, watch, cache, clock, head, queue, timers, applied, recorded, notices>>

(* Apply stops at a resource that is refused: what is deployed is then a    *)
(* part of the manifest.                                                    *)
ApplyFails(o) ==
  LET obj == worker[o].obj
  IN  /\ worker[o].pc = "apply" /\ "err" \in ApplyOutcomes
      /\ Spend("fault")
      /\ live' = [live EXCEPT ![worker[o].app] = NoManifest]
      /\ Proceed(o, "reportFailure",
           [obj EXCEPT !.status = updateStatus(@, "OutOfSync", "Degraded", worker[o].revision,
                                               worker[o].parsed, TRUE, clock)])
      /\ UNCHANGED <<api, watch, cache, clock, head, queue, timers, applied, recorded, notices>>

ReportFailure(o) ==
  /\ worker[o].pc = "reportFailure"
  /\ \E ok \in BOOLEAN, got \in {worker[o].obj, StatusRevised(worker[o].app, worker[o].obj)} :
       UpdateStatus(o, ok, got) /\ Proceed(o, "notifyErr", got)
  /\ UNCHANGED <<cache, clock, head, queue, timers, live, applied, notices>>

\* mutant: the error of the last status write is not looked at
CommitRegardless(o) ==
  /\ worker[o].pc = "commit"
  /\ \E ok \in BOOLEAN, got \in {worker[o].obj, StatusRevised(worker[o].app, worker[o].obj)} :
       UpdateStatus(o, ok, got) /\ Proceed(o, "notifyOk", got)
  /\ UNCHANGED <<cache, clock, head, queue, timers, live, applied, notices>>

(* Step 7: the only status write whose error ends the call. *)
Commit(o) ==
  /\ worker[o].pc = "commit"
  /\ \E ok \in BOOLEAN, got \in {worker[o].obj, StatusRevised(worker[o].app, worker[o].obj)} :
       /\ UpdateStatus(o, ok, got)
       /\ \/ ok /\ Proceed(o, "notifyOk", got) /\ UNCHANGED timers
          \/ ~ok /\ Return(o)
  /\ UNCHANGED <<cache, clock, head, queue, live, applied, notices>>

(* sendNotification; its outcome is not looked at. *)
Notify(o) ==
  /\ worker[o].pc \in {"notifyOk", "notifyErr"}
  /\ notices' = notices \cup {[app |-> worker[o].app,
                               revision |-> worker[o].obj.status.revision,
                               success |-> worker[o].pc = "notifyOk"]}
  /\ Return(o)
  /\ UNCHANGED <<head, queue, live, applied, recorded>>
  /\ UNCHANGED apiVars

-----------------------------------------------------------------------------
(* Someone pushes to the branch s. *)
Push(s, r) ==
  /\ r # head[s] /\ <<head[s], r>> \in Moves
  /\ Spend("push")
  /\ head' = [head EXCEPT ![s] = r]
  /\ UNCHANGED <<api, watch, cache, clock, queue, timers, worker, live, applied, recorded, notices>>

(* The process ends at any point and is started again: it keeps nothing but *)
(* the working directories.                                                 *)
RestartController(o) ==
  /\ Spend("restart")
  /\ CacheList(o)
  /\ queue' = [queue EXCEPT ![o] = Existing]
  /\ timers' = [timers EXCEPT ![o] = {}]
  /\ worker' = [worker EXCEPT ![o] = Idle]
  /\ UNCHANGED <<head, live, applied, recorded, notices>>

ReconcileStep(o) ==
  \/ PullFails(o) \/ Pull(o) \/ Report(o) \/ Announce(o)
  \/ ApplySucceeds(o) \/ ApplyFails(o) \/ ReportFailure(o)
  \/ Commit(o) \/ Notify(o)
=============================================================================
