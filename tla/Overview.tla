------------------------------ MODULE Overview ------------------------------
(***************************************************************************)
(* The overview: how many deployments are in each state, the load of the   *)
(* connected clusters, what happened lately, and which deployments need    *)
(* attention. Its only state is the tab of the load card.                  *)
(***************************************************************************)
EXTENDS Deployments, Clusters

VARIABLE ui

Mounted == [resourceTab |-> "cpu"]

(***************************************************************************)
(* A donut: one segment for each state some deployment is in, with its     *)
(* share of the total, rounded half up, in percent.                        *)
(***************************************************************************)
Count(attribute, value) ==
  Cardinality({i \in DOMAIN MockDeployments : MockDeployments[i][attribute] = value})

Segments(attribute, values) ==
  {[label |-> v, value |-> Count(attribute, v)] :
     v \in {v \in Elements(values) : Count(attribute, v) > 0}}

RoundedPercent(part, total) == (200 * part + total) \div (2 * total)

DonutCard(attribute, values, center) ==
  LET counted == Cardinality({i \in DOMAIN MockDeployments :
                                MockDeployments[i][attribute] \in Elements(values)})
      total == IF counted = 0 THEN 1 ELSE counted
  IN  [center |-> center,
       rows |-> {[label |-> s.label, value |-> s.value,
                  percent |-> RoundedPercent(s.value, total)] : s \in Segments(attribute, values)}]

SyncDonut == DonutCard("syncStatus", SyncStatuses, Len(MockDeployments))
HealthDonut == DonutCard("healthStatus", HealthStatuses, Count("healthStatus", "Healthy"))

\* The load of the connected clusters, and the colour of a bar.
UsageColor(v) == IF v > 80 THEN "red" ELSE IF v > 60 THEN "yellow" ELSE "green"

LoadItems(tab) ==
  LET usage(c) == IF tab = "cpu" THEN c.cpuUsage ELSE c.memoryUsage
  IN  {[label |-> c.name, value |-> usage(c), color |-> UsageColor(usage(c))] :
         c \in {c \in Elements(MockClusters) : c.status = "Connected"}}

\* Ages are never shown in days here.
SinceThen(at) ==
  LET age == Now - at
  IN  IF age < 1 THEN <<"just now">> ELSE IF age < 60 THEN <<age, "m">> ELSE <<age \div 60, "h">>

RecentActivity ==
  LET shown == SubSeq(MockRecentActivity, 1, IF Len(MockRecentActivity) < 8
                                             THEN Len(MockRecentActivity) ELSE 8)
  IN  [i \in DOMAIN shown |-> [activity |-> shown[i], age |-> SinceThen(shown[i].at)]]

NeedsAttention ==
  LET needs(d) == d.syncStatus = "OutOfSync" \/ d.healthStatus \in {"Degraded", "Missing"}
      all == Filter(MockDeployments, needs)
  IN  SubSeq(all, 1, IF Len(all) < 5 THEN Len(all) ELSE 5)

\* Every entry of the list leads to the list of all deployments.
Links == {"/deployments" : d \in Elements(NeedsAttention)}

ChooseTab(tab) ==
  /\ tab \in {"cpu", "memory"}
  /\ ui' = [ui EXCEPT !.resourceTab = tab]

OverviewNext == \E tab \in {"cpu", "memory"} : ChooseTab(tab)
=============================================================================
