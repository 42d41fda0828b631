------------------------------ MODULE ApiServer ------------------------------
(***************************************************************************)
(* What the operator's code relies on of the Kubernetes API server and of  *)
(* controller-runtime's cached client (neither is part of the repository): *)
(*   - objects carry a resource version; an update made from an older      *)
(*     version is refused (optimistic concurrency);                        *)
(*   - an update that changes nothing is accepted and produces no event;   *)
(*   - every other change is sent, in order, to the informer cache of each *)
(*     operator process, which reads are served from;                      *)
(*   - a write may fail for the caller with or without having taken place; *)
(*   - the installed resource definition may validate what is written: the *)
(*     repository has the markers to generate one from, but none itself.   *)
(* The module also holds the clock and the budget that bounds a run.       *)
(***************************************************************************)
EXTENDS GitApplication

CONSTANTS
  Apps,        \* names of GitApplications
  Operators,   \* operator processes (leader election is off by default)
  Budget,      \* how often each kind of outside event happens
  Validated    \* the resource definition validates statuses by the markers of the types

Kinds == {"push", "edit", "life", "hook", "fault", "restart", "tick"}

ASSUME ApiServerAssumption ==
  Apps # {} /\ Budget \in [Kinds -> Nat] /\ Validated \in BOOLEAN

VARIABLES
  api,     \* api[a]: the stored object
  watch,   \* watch[o][a]: the changes of a that o's cache has not seen yet
  cache,   \* cache[o][a]: a as o's cached client returns it
  clock,   \* seconds
  left     \* left[k]: how many events of kind k may still happen

apiVars == <<api, watch, cache, clock, left>>

Object == [exists : BOOLEAN, rv : Nat, spec : AppSpec, note : Nat, status : Status]

\* the object no cache holds: its spec is of no interest
NoObject ==
  [exists |-> FALSE, rv |-> 0,
   spec |-> CHOOSE s \in AppSpec : TRUE, note |-> 0, status |-> EmptyStatus]

Created(spec, rv) ==
  [exists |-> TRUE, rv |-> rv, spec |-> spec, note |-> 0, status |-> EmptyStatus]

ApiTypeOK ==
  /\ api \in [Apps -> Object]
  /\ watch \in [Operators -> [Apps -> Seq(Object)]]
  /\ cache \in [Operators -> [Apps -> Object]]
  /\ clock \in Nat \ {0}
  /\ left \in [Kinds -> Nat]

ApiInit ==
  /\ \E spec \in [Apps -> AppSpec] : api = [a \in Apps |-> Created(spec[a], 1)]
  /\ watch = [o \in Operators |-> [a \in Apps |-> <<>>]]
  /\ cache = [o \in Operators |-> api]
  /\ clock = 1
  /\ left = Budget

-----------------------------------------------------------------------------
Spend(k) == left[k] > 0 /\ left' = [left EXCEPT ![k] = @ - 1]

(* new becomes the stored object; watchers hear of it if it is a change. *)
Store(a, new) ==
  /\ api' = [api EXCEPT ![a] = new]
  /\ watch' = IF new = api[a]
                THEN watch
                ELSE [o \in Operators |-> [watch[o] EXCEPT ![a] = Append(@, new)]]

(* What a validating resource definition admits. The statuses of an entry   *)
(* of resources are enumerations without an empty value, and are written    *)
(* even when empty. A condition needs a reason, and the one the controller  *)
(* writes has none.                                                         *)
Admitted(st) ==
  /\ st.resources.of # NoManifest => st.resources.sync # "" /\ st.resources.health # ""
  /\ st.condition = ""

\* mutant: the update carries no version
AcceptedBlindly(a, obj, new) == api[a].exists

(* Optimistic concurrency: the writer must hold the latest version.  The    *)
(* object new that it would make is validated.                              *)
Accepted(a, obj, new) ==
  api[a].exists /\ api[a].rv = obj.rv /\ (Validated => Admitted(new.status))

(* cur with a new content, one version on if the content is another one. *)
Revised(cur, new) == IF new = cur THEN cur ELSE [new EXCEPT !.rv = cur.rv + 1]

(* Status().Update: only the status of obj is taken over. *)
StatusRevised(a, obj) == Revised(api[a], [api[a] EXCEPT !.status = obj.status])

(* Update: everything but the status is taken over. *)
MainRevised(a, obj) == Revised(api[a], [api[a] EXCEPT !.spec = obj.spec, !.note = obj.note])

(* One write of the object revised, made from the version obj holds.  ok is *)
(* what the caller is told, got the object it is left with: the client      *)
(* decodes the answer into it only when there was no error.                 *)
Write(a, obj, revised, ok, got) ==
  \/ /\ Accepted(a, obj, revised) /\ ok /\ got = revised
     /\ Store(a, revised)
     /\ UNCHANGED left
  \/ /\ ~Accepted(a, obj, revised) /\ ~ok /\ got = obj
     /\ UNCHANGED <<api, watch, left>>
  \/ /\ ~ok /\ got = obj
     /\ Spend("fault")                     \* the request was lost
     /\ UNCHANGED <<api, watch>>
  \/ /\ Accepted(a, obj, revised) /\ ~ok /\ got = obj
     /\ Spend("fault")                     \* the answer was lost
     /\ Store(a, revised)

-----------------------------------------------------------------------------
(* The users: kubectl edit, kubectl delete, kubectl create. *)
EditSpec(a, spec) ==
  /\ api[a].exists /\ spec # api[a].spec
  /\ Spend("edit")
  /\ Store(a, [api[a] EXCEPT !.spec = spec, !.rv = @ + 1])
  /\ UNCHANGED <<cache, clock>>

Delete(a) ==
  /\ api[a].exists
  /\ Spend("life")
  /\ Store(a, [api[a] EXCEPT !.exists = FALSE, !.rv = @ + 1])
  /\ UNCHANGED <<cache, clock>>

Create(a, spec) ==
  /\ ~api[a].exists
  /\ Store(a, Created(spec, api[a].rv + 1))
  /\ UNCHANGED <<cache, clock, left>>

Tick ==
  /\ Spend("tick")
  /\ clock' = clock + 1
  /\ UNCHANGED <<api, watch, cache>>

(* The next change of a reaches o's cache. *)
CacheNext(o, a) ==
  /\ watch[o][a] # <<>>
  /\ cache' = [cache EXCEPT ![o][a] = Head(watch[o][a])]
  /\ watch' = [watch EXCEPT ![o][a] = Tail(@)]
  /\ UNCHANGED <<api, clock, left>>

(* A process that starts lists the objects before it watches them. *)
CacheList(o) ==
  /\ cache' = [cache EXCEPT ![o] = api]
  /\ watch' = [watch EXCEPT ![o] = [a \in Apps |-> <<>>]]
  /\ UNCHANGED <<api, clock>>
=============================================================================
