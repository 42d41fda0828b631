------------------------------- MODULE MCDocs -------------------------------
(***************************************************************************)
(* A small tree: the index, a folder with a page and a folder of its own,  *)
(* whose only page lies below the level that is open by default.           *)
(***************************************************************************)
EXTENDS DocsSidebar

MCPageList == <<"index", "webhooks", "rollback">>
MCFolders == {"guides", "advanced"}
MCAround == [f \in MCFolders |-> IF f = "guides" THEN {} ELSE {"guides"}]
MCContains ==
  [f \in MCFolders |-> IF f = "guides" THEN {"webhooks", "rollback"} ELSE {"rollback"}]
=============================================================================
