---------------------------- MODULE SyncContract ----------------------------
(***************************************************************************)
(* What the operator promises the reader of a GitApplication's status: a   *)
(* revision is claimed (status.syncStatus = "Synced") only after it was    *)
(* deployed.  A claim may be withdrawn or replaced at any time.  How the   *)
(* operator finds out, retries or fails is not visible here.               *)
(***************************************************************************)
CONSTANTS Apps, Revisions, NoRevision

VARIABLES
  deployed,  \* deployed[a]: the revisions deployed so far
  claim      \* claim[a]: the revision claimed now, or NoRevision

Init ==
  /\ deployed = [a \in Apps |-> {}]
  /\ claim = [a \in Apps |-> NoRevision]

Deploy(a, r) ==
  /\ deployed' = [deployed EXCEPT ![a] = @ \cup {r}]
  /\ UNCHANGED claim

Claim(a, r) ==
  /\ r \in deployed[a]
  /\ claim' = [claim EXCEPT ![a] = r]
  /\ UNCHANGED deployed

Withdraw(a) ==
  /\ claim' = [claim EXCEPT ![a] = NoRevision]
  /\ UNCHANGED deployed

Next ==
  \E a \in Apps :
    \/ \E r \in Revisions : Deploy(a, r) \/ Claim(a, r)
    \/ Withdraw(a)

Spec == Init /\ [][Next]_<<deployed, claim>>
=============================================================================
