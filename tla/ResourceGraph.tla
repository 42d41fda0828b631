--------------------------- MODULE ResourceGraph ---------------------------
(***************************************************************************)
(* The graph of a component's resources: one column for each kind that     *)
(* occurs, in a fixed order of the kinds, and the edges between them.      *)
(***************************************************************************)
EXTENDS Deployments

LayerOrder ==
  <<"Ingress", "HorizontalPodAutoscaler", "Service", "Deployment", "StatefulSet",
    "DaemonSet", "ConfigMap", "Secret", "ReplicaSet", "Pod", "PersistentVolumeClaim",
    "ServiceAccount", "Role", "RoleBinding", "NetworkPolicy", "Job", "CronJob">>

\* A kind the order does not name comes last.
Layer(kind) ==
  IF kind \in Elements(LayerOrder) THEN Position(LayerOrder, kind) - 1 ELSE 99

\* The positions of the resources that share a layer, in their order.
LayerMates(resources, i) ==
  {j \in DOMAIN resources : Layer(resources[j].kind) = Layer(resources[i].kind)}

\* Columns are numbered by the layers that occur, without gaps.
Column(resources, i) ==
  LET layers == {Layer(r.kind) : r \in Elements(resources)}
  IN  Cardinality({l \in layers : l < Layer(resources[i].kind)})

\* A mutant: the row of a resource is forgotten.
RowOffsetWithoutRow(resources, i) == 1 - Cardinality(LayerMates(resources, i))

\* Rows are centred: in half steps, a column of n has rows 1 - n, 3 - n, ...
RowOffset(resources, i) ==
  LET mates == LayerMates(resources, i)
  IN  2 * Cardinality({j \in mates : j < i}) - (Cardinality(mates) - 1)

HSpacing == 280
VSpacing == 90

Position2D(resources, i) ==
  [x |-> Column(resources, i) * HSpacing, y |-> (RowOffset(resources, i) * VSpacing) \div 2]

\* Nodes: each resource with its place and the colour of its border and dot.
StatusColor(status) ==
  CASE status = "Healthy" -> "green"
    [] status = "Degraded" -> "red"
    [] status = "Progressing" -> "blue"
    [] status = "Missing" -> "orange"
    [] OTHER -> "gray"

ResourceNode(resources, i) ==
  [id |-> resources[i].id, position |-> Position2D(resources, i),
   color |-> StatusColor(resources[i].status),
   spins |-> resources[i].status = "Progressing"]

MiniMapColor(status) == StatusColor(status)

Nodes(resources) == [i \in DOMAIN resources |-> ResourceNode(resources, i)]

\* How the kinds of edges are drawn; an unknown kind like an owner edge.
EdgeStyle(type) ==
  [dashed |-> type \in {"selector", "ingress", "volume"},
   animated |-> type \in {"selector", "ingress"}]

FlowEdges(edges) ==
  {[source |-> e.source, target |-> e.target, style |-> EdgeStyle(e.type)] : e \in edges}

\* Nothing but a message when there are no resources.
Graph(resources, edges) ==
  IF resources = <<>> THEN <<>> ELSE <<Nodes(resources), FlowEdges(edges)>>
=============================================================================
