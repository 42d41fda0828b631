-------------------------- MODULE ComponentDetail --------------------------
(***************************************************************************)
(* One component: its resource graph, its pods and its manifests, in three *)
(* sections that open and close. Every open row of the manifests holds an  *)
(* editor; that of a resource that drifted compares the manifest with the  *)
(* live one, or shows the manifest alone. ui is the state of the view.     *)
(***************************************************************************)
EXTENDS ResourceGraph

VARIABLE ui

None == <<>>
Sections == {"graphOpen", "podsOpen", "yamlOpen"}

\* manifestMode holds the resources whose editor left the comparison.
Mounted(deployment, component) ==
  [deployment |-> deployment, component |-> component, graphOpen |-> TRUE,
   podsOpen |-> TRUE, yamlOpen |-> TRUE, selectedResource |-> None, manifestMode |-> {}]

Component(v) == GetComponent(v.deployment, v.component)[1]
ResourcesOf(v) == Elements(Component(v).resources)
PodsOf(v) == {r \in ResourcesOf(v) : r.kind = "Pod"}
Drifted(r) == r.live # <<>>
HasDiff(v) == \E r \in ResourcesOf(v) : Drifted(r)

\* Each section is told it is collapsed when it is open.
SectionHeader(collapsed) == IF collapsed THEN "right" ELSE "down"
Chevron(v, section) == SectionHeader(v[section])

\* A mutant: an editor keeps its mode when its row closes.
RemainingAlways(v) == v.manifestMode

\* A row of the manifests is open unless another one was selected.
IsOpen(v, r) == v.selectedResource \in {None, r.id}

\* The editors that exist: a row that closes drops its editor's mode.
Editors(v) == IF v.yamlOpen THEN {r \in ResourcesOf(v) : IsOpen(v, r)} ELSE {}
Remaining(v) == v.manifestMode \cap {r.id : r \in Editors(v)}

\* What an editor shows: the live manifest beside the wanted one, or one.
YamlEditor(v, r) ==
  IF Drifted(r) /\ r.id \notin v.manifestMode THEN <<r.live[1], r.manifest>> ELSE <<r.manifest>>

(***************************************************************************)
(* Handlers.                                                               *)
(***************************************************************************)
ToggleSection(section) ==
  /\ section \in Sections
  /\ LET toggled == [ui EXCEPT ![section] = ~@]
     IN  ui' = [toggled EXCEPT !.manifestMode = Remaining(toggled)]

SelectResource(r) ==
  /\ ui.yamlOpen
  /\ r \in ResourcesOf(ui)
  /\ LET selected == [ui EXCEPT !.selectedResource = IF @ = r.id THEN None ELSE r.id]
     IN  ui' = [selected EXCEPT !.manifestMode = Remaining(selected)]

SetMode(r, mode) ==
  /\ r \in Editors(ui) /\ Drifted(r)
  /\ mode \in {"diff", "manifest"}
  /\ ui' = [ui EXCEPT !.manifestMode = IF mode = "manifest" THEN @ \cup {r.id} ELSE @ \ {r.id}]

ComponentDetailNext ==
  \/ \E section \in Sections : ToggleSection(section)
  \/ \E r \in ResourcesOf(ui) : SelectResource(r)
  \/ \E r \in Editors(ui), mode \in {"diff", "manifest"} : SetMode(r, mode)
=============================================================================
