----------------------------- MODULE MCOperator -----------------------------
(* Small instances of Operator for TLC. *)
EXTENDS OperatorInvariant

\* every commit may follow every other (force pushes), or only a later one
AnyMove == {m \in Revisions \X Revisions : m[1] # m[2]}
Forward == {m \in Revisions \X Revisions : m[1] < m[2]}

\* no manifest, every manifest of the last commit, every manifest of the first
Nothing == {}
LastCommit == {m \in Manifests : \A r \in Revisions : r <= m[1]}
FirstCommit == {m \in Manifests : \A r \in Revisions : r >= m[1]}

Allow(push, edit, life, hk, fault, restart, tick) ==
  [k \in Kinds |->
     CASE k = "push" -> push [] k = "edit" -> edit [] k = "life" -> life
       [] k = "hook" -> hk [] k = "fault" -> fault [] k = "restart" -> restart
       [] k = "tick" -> tick]

\* push, edit, life, hook, fault, restart, tick
BudgetFaults == Allow(1, 0, 0, 0, 2, 1, 1)
BudgetUsers == Allow(1, 1, 0, 2, 0, 0, 1)
BudgetProcesses == Allow(1, 0, 0, 0, 0, 1, 0)
BudgetConverge == Allow(1, 1, 1, 0, 1, 1, 0)

\* A branch starts at its first commit and an application with its first path: from a later
\* commit nothing is pushed forward, and another path differs by its name only.
InitFromStart ==
  /\ Init
  /\ \A s \in Sources, r \in Revisions : head[s] <= r
  /\ \A a \in Apps : api[a].spec.path = "k8s"

FairFromStart == InitFromStart /\ [][Next]_vars /\ Fairness
=============================================================================
