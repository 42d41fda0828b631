--------------------------- MODULE MCOperatorDocs ---------------------------
(* The smallest instances in which the documentation and the code part. *)
EXTENDS OperatorDocs

AnyMove == {m \in Revisions \X Revisions : m[1] # m[2]}
Nothing == {}

None == [k \in Kinds |-> 0]
BudgetPush == [None EXCEPT !["push"] = 1]
BudgetEdit == [None EXCEPT !["edit"] = 1]
BudgetPushes == [None EXCEPT !["push"] = 2, !["hook"] = 1]
=============================================================================
