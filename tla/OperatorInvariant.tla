-------------------------- MODULE OperatorInvariant --------------------------
(***************************************************************************)
(* The inductive invariant behind the safety properties of Operator, and   *)
(* the mapping under which Operator implements SyncContract.               *)
(***************************************************************************)
EXTENDS Operator

AppliedRevisions(a) == {r \in Revisions : \E p \in Paths : <<r, p>> \in applied[a]}

(* A copy of a, wherever it is, calls no revision Synced that was not       *)
(* applied.                                                                 *)
Backed(a, obj) ==
  obj.status.sync = "Synced" => obj.status.revision \in AppliedRevisions(a)

StoredBacked ==
  \A a \in Apps : Backed(a, api[a]) /\ recorded[a] \subseteq AppliedRevisions(a)

CachesBacked ==
  \A o \in Operators, a \in Apps :
    /\ Backed(a, cache[o][a])
    /\ \A i \in 1 .. Len(watch[o][a]) : Backed(a, watch[o][a][i])

(* What a worker w holds between two calls. *)
Sound(w) ==
  /\ w.pc # "idle" => Backed(w.app, w.obj)
  /\ w.pc = "commit" => w.obj.status.sync = "Synced"
  /\ w.pc = "notifyOk" => w.obj.status.revision \in recorded[w.app]

WorkersSound == \A o \in Operators : Sound(worker[o])

(* The changes under way end in the object that is stored. *)
Tracking ==
  \A o \in Operators, a \in Apps :
    IF watch[o][a] = <<>> THEN cache[o][a] = api[a]
                          ELSE watch[o][a][Len(watch[o][a])] = api[a]

SafetyInv ==
  /\ TypeOK
  /\ StoredBacked
  /\ CachesBacked
  /\ WorkersSound
  /\ NoticeTruthful

(* Where the resource definition validates, no status is ever stored: the   *)
(* controller adds a condition without a reason (line 178) to every status  *)
(* it writes, and an object with no status is never up to date (line 66).   *)
NeverReported == \A a \in Apps : api[a].status = EmptyStatus

(* The status w will try to write is refused. *)
Refused(w) ==
  /\ w.pc = "pull" => w.obj.status = EmptyStatus
  /\ w.pc \notin {"idle", "pull"} => w.obj.status.condition # ""

SchemaInv ==
  Validated =>
    /\ NeverReported
    /\ \A o \in Operators, a \in Apps :
         /\ cache[o][a].status = EmptyStatus
         /\ \A i \in 1 .. Len(watch[o][a]) : watch[o][a][i].status = EmptyStatus
    /\ \A o \in Operators : Refused(worker[o])

WakeupInv == TypeOK /\ Tracking /\ NeverStranded

(* c, a copy of the stored object cur, is cur or of an older version. *)
Follows(c, cur) == c.rv < cur.rv \/ c = cur

CachesFollow ==
  \A o \in Operators, a \in Apps :
    /\ Follows(cache[o][a], api[a])
    /\ \A i \in 1 .. Len(watch[o][a]) : Follows(watch[o][a][i], api[a])

HooksFollow == \A o \in Operators, a \in Apps : Follows(hook[o][a], api[a])

(* No copy a status is computed from was synced in the future. *)
SyncedInThePast ==
  \A a \in Apps :
    /\ api[a].status.lastSync <= clock
    /\ \A o \in Operators :
         /\ cache[o][a].status.lastSync <= clock
         /\ \A i \in 1 .. Len(watch[o][a]) : watch[o][a][i].status.lastSync <= clock

(* A worker changes the copy it holds, but not its version, and takes none  *)
(* of its time away.                                                        *)
Keeps(obj, cur) ==
  /\ obj.rv <= cur.rv
  /\ obj.rv = cur.rv => obj.status.lastSync >= cur.status.lastSync
  /\ obj.status.lastSync <= clock

WorkersKeep ==
  \A o \in Operators :
    worker[o].pc # "idle" => Keeps(worker[o].obj, api[worker[o].app])

VersionInv ==
  /\ TypeOK
  /\ \A a \in Apps : api[a].rv > 0
  /\ CachesFollow
  /\ HooksFollow
  /\ SyncedInThePast
  /\ WorkersKeep

-----------------------------------------------------------------------------
Contract == INSTANCE SyncContract WITH
  deployed <- [a \in Apps |-> AppliedRevisions(a)],
  claim <- [a \in Apps |-> IF api[a].exists /\ api[a].status.sync = "Synced"
                             THEN api[a].status.revision ELSE NoRevision]

(* The operator implements SyncContract: seen through its status, the whole *)
(* of the reconciler, the webhook and the API server only ever deploys,     *)
(* claims what was deployed, and withdraws.                                 *)
ImplementsContract == Contract!Spec
=============================================================================
