--------------------------- MODULE WebhookHandler ---------------------------
(***************************************************************************)
(* The push webhook (operator/internal/webhook/handler.go), which runs in  *)
(* every operator process beside the controller and shares its cached      *)
(* client.  handleGitHub lists the applications, then updates an           *)
(* annotation of each one that follows the pushed branch, one API call     *)
(* after the other; hook[o][a] is the listed copy it has still to update.  *)
(***************************************************************************)
EXTENDS ApiServer

VARIABLE hook

HookTypeOK == hook \in [Operators -> [Apps -> Object]]

NoCopies == [a \in Apps |-> NoObject]

HookInit == hook = [o \in Operators |-> NoCopies]

(* The copies the handler will update for a push to the branch s. *)
Matching(o, s) ==
  [a \in Apps |-> IF cache[o][a].exists /\ cache[o][a].spec.source = s
                    THEN cache[o][a] ELSE NoObject]

(* A push event of the branch s arrives at o, possibly more than once, and  *)
(* the handler lists the applications.                                      *)
ReceivePush(o, s) ==
  /\ hook[o] = NoCopies
  /\ Spend("hook")
  /\ hook' = [hook EXCEPT ![o] = Matching(o, s)]
  /\ UNCHANGED <<api, watch, cache, clock>>

(* The annotation is set to the current second and the copy is written      *)
(* back; an error is logged and the loop goes on.                           *)
Annotate(o, a) ==
  /\ hook[o][a].exists
  /\ LET obj == [hook[o][a] EXCEPT !.note = clock]
     IN  \E ok \in BOOLEAN, got \in {obj, MainRevised(a, obj)} :
           Write(a, obj, MainRevised(a, obj), ok, got)
  /\ hook' = [hook EXCEPT ![o][a] = NoObject]
  /\ UNCHANGED <<cache, clock>>
=============================================================================
