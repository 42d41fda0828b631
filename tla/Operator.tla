------------------------------ MODULE Operator ------------------------------
(***************************************************************************)
(* The operator as it is deployed (operator/cmd/operator/main.go): the     *)
(* controller and the webhook server of each process, the API server they  *)
(* share, the users and the Git provider.                                  *)
(***************************************************************************)
EXTENDS Reconciler, WebhookHandler

vars == <<api, watch, cache, clock, left, head, queue, timers, worker, live,
          applied, recorded, notices, hook>>

TypeOK == ApiTypeOK /\ ControllerTypeOK /\ HookTypeOK

Init == ApiInit /\ ControllerInit /\ HookInit

(* A process that ends takes its half-done webhook request with it. *)
Restart(o) == RestartController(o) /\ hook' = [hook EXCEPT ![o] = NoCopies]

Controller(o) ==
  /\ \/ ReconcileStep(o)
     \/ \E a \in Apps : Fetch(o, a) \/ Deliver(o, a) \/ TimerFires(o, a)
  /\ UNCHANGED hook

Webhook(o) ==
  /\ \/ \E s \in Sources : ReceivePush(o, s)
     \/ \E a \in Apps : Annotate(o, a)
  /\ UNCHANGED controllerVars

Users ==
  /\ \E a \in Apps :
       \/ \E spec \in AppSpec : EditSpec(a, spec) \/ Create(a, spec)
       \/ Delete(a)
  /\ UNCHANGED controllerVars /\ UNCHANGED hook

World ==
  \/ Tick /\ UNCHANGED controllerVars /\ UNCHANGED hook
  \/ \E s \in Sources, r \in Revisions : Push(s, r) /\ UNCHANGED hook

Next ==
  \/ \E o \in Operators : Controller(o) \/ Webhook(o) \/ Restart(o)
  \/ Users
  \/ World

Spec == Init /\ [][Next]_vars

(* What the Go scheduler, the informer and the work queue give: a process   *)
(* that runs takes its next step, a pending change is delivered, a timer    *)
(* fires, and, the queue being first-in first-out, a request that is queued *)
(* again and again is eventually taken (strong fairness: the worker is idle *)
(* again and again, not continuously).  Users, pushes, webhooks, failures,  *)
(* restarts and the clock owe nothing.                                      *)
ReconcileFairly(o) == ReconcileStep(o) /\ UNCHANGED hook
DeliverFairly(o, a) == Deliver(o, a) /\ UNCHANGED hook
TimerFairly(o, a) == TimerFires(o, a) /\ UNCHANGED hook
FetchFairly(o, a) == Fetch(o, a) /\ UNCHANGED hook
AnnotateFairly(o, a) == Annotate(o, a) /\ UNCHANGED controllerVars

Fairness ==
  \A o \in Operators :
    /\ WF_vars(ReconcileFairly(o))
    /\ \A a \in Apps :
         /\ WF_vars(DeliverFairly(o, a))
         /\ WF_vars(TimerFairly(o, a))
         /\ SF_vars(FetchFairly(o, a))
         /\ WF_vars(AnnotateFairly(o, a))

FairSpec == Spec /\ Fairness

-----------------------------------------------------------------------------
(* Safety *)

(* Every revision that a status in the API server ever called Synced had    *)
(* been applied in full before, whatever failed, restarted or was written   *)
(* from a stale copy in between (gitapplication_controller.go:82-114).      *)
SyncedWasApplied ==
  \A a \in Apps : \A r \in recorded[a] : \E p \in Paths : <<r, p>> \in applied[a]

(* No application is ever forgotten: in every process an existing one is    *)
(* queued, waits for a timer, is being reconciled, or has a change on its   *)
(* way to the cache, so a reconcile always follows.                         *)
NeverStranded ==
  \A o \in Operators, a \in Existing :
    \/ a \in queue[o] \cup timers[o]
    \/ Busy(o, a)
    \/ watch[o][a] # <<>>

(* A success is notified only for a revision the API server has stored as   *)
(* Synced: the write of line 112 is the one whose error is not ignored.     *)
NoticeTruthful ==
  \A n \in notices : n.success => n.revision \in recorded[n.app]

(* The spec of an application changes only when a user edits it: neither    *)
(* the webhook, which writes a whole object back from a cached copy, nor a  *)
(* status write undoes an edit (handler.go:66-80).                          *)
UserEditsSurvive ==
  [][\A a \in Apps :
       api[a].exists /\ api'[a].exists /\ api'[a].spec # api[a].spec
         => left'["edit"] < left["edit"]]_vars

(* While an application exists, its lastSyncAt never goes back and is never *)
(* lost, although every status write replaces the whole status.             *)
LastSyncMonotone ==
  [][\A a \in Apps :
       api[a].exists /\ api'[a].exists
         => api'[a].status.lastSync >= api[a].status.lastSync]_vars

-----------------------------------------------------------------------------
(* Liveness *)

HeadManifest(a) == <<head[api[a].spec.source], api[a].spec.path>>

Automated(a) == api[a].exists /\ api[a].spec.automated /\ HeadManifest(a) \notin Unparsable

SyncedAtHead(a) ==
  api[a].status.sync = "Synced" /\ api[a].status.revision = head[api[a].spec.source]

(* Once pushes, edits, webhook deliveries, failures and restarts are over,  *)
(* the status of an automated application settles at Synced with the head   *)
(* of its branch, if the resource definition does not refuse it.            *)
StatusConverges == \A a \in Apps : <>[](Automated(a) => SyncedAtHead(a))

(* ... and what is deployed settles at that commit.  It is the manifest the *)
(* spec asks for unless the spec was edited: an edit of the path alone is   *)
(* not noticed (line 66).  This is for one process; with another one, a     *)
(* call that began earlier may apply an older commit after that.            *)
LiveConverges ==
  \A a \in Apps : <>[](Automated(a) =>
    /\ SyncedAtHead(a)
    /\ live[a] \in {head[api[a].spec.source]} \X Paths
    /\ left["edit"] = Budget["edit"] => live[a] = HeadManifest(a))

(* A deleted application stops being reconciled.                            *)
DeletedQuiesces ==
  \A a \in Apps, o \in Operators :
    <>[](~api[a].exists => a \notin queue[o] \cup timers[o] /\ ~Busy(o, a))
=============================================================================
