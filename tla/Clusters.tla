------------------------------ MODULE Clusters ------------------------------
(***************************************************************************)
(* The clusters and the recent activity the platform shows. Versions are   *)
(* left out, and so is the scheme of a server's address.                   *)
(***************************************************************************)
EXTENDS Lists

ClusterStatuses == <<"Connected", "Disconnected", "Error", "Unknown">>
ClusterProviders == <<"AWS", "GCP", "Azure", "On-Prem", "Kind", "Other">>

\* The order String.localeCompare gives the names and regions that are sorted.
ClusterCollation ==
  <<"asia-northeast1", "azure-prod-west", "datacenter-1", "dev-cluster",
    "edge-cluster-tokyo", "eu-west-1", "local", "onprem-cluster", "prod-cluster",
    "prod-cluster-eu", "staging-cluster", "us-east-1", "westus2">>

Cluster(id, name, serverUrl, status, provider, region, nodes, cpu, memory, all, healthy, seen) ==
  [id |-> id, name |-> name, serverUrl |-> serverUrl, status |-> status,
   provider |-> provider, region |-> region,
   nodeCount |-> nodes, cpuUsage |-> cpu, memoryUsage |-> memory,
   deploymentCount |-> all, healthyDeployments |-> healthy, lastSeen |-> seen]

MockClusters ==
  << Cluster("1", "prod-cluster", "10.0.1.10:6443", "Connected", "AWS", "us-east-1",
             8, 62, 71, 9, 8, At(30, 9, 15)),
     Cluster("2", "staging-cluster", "10.0.2.20:6443", "Connected", "AWS", "us-east-1",
             4, 34, 45, 4, 3, At(30, 9, 10)),
     Cluster("3", "prod-cluster-eu", "10.1.1.10:6443", "Connected", "AWS", "eu-west-1",
             6, 55, 68, 4, 3, At(30, 9, 18)),
     Cluster("4", "dev-cluster", "192.168.1.100:6443", "Disconnected", "Kind", "local",
             1, 0, 0, 0, 0, At(28, 18, 0)),
     Cluster("5", "edge-cluster-tokyo", "10.2.1.10:6443", "Error", "GCP", "asia-northeast1",
             3, 88, 92, 2, 0, At(30, 8, 45)),
     Cluster("6", "onprem-cluster", "172.16.0.10:6443", "Connected", "On-Prem", "datacenter-1",
             12, 48, 53, 6, 5, At(30, 9, 19)),
     Cluster("7", "azure-prod-west", "20.0.1.10:6443", "Unknown", "Azure", "westus2",
             5, 0, 0, 0, 0, Never) >>

\* What happened, to which cluster, when, and how it is coloured.
Activity(type, cluster, at, status) ==
  [type |-> type, cluster |-> cluster, at |-> at, status |-> status]

MockRecentActivity ==
  << Activity("sync", "prod-cluster", At(30, 9, 12), "success"),
     Activity("health", "prod-cluster", At(30, 8, 30), "warning"),
     Activity("sync", "staging-cluster", At(30, 9, 0), "info"),
     Activity("cluster", "edge-cluster-tokyo", At(30, 8, 45), "error"),
     Activity("sync", "prod-cluster-eu", At(30, 7, 45), "success"),
     Activity("health", "prod-cluster", At(30, 8, 30), "warning"),
     Activity("cluster", "dev-cluster", At(28, 18, 0), "error"),
     Activity("sync", "prod-cluster", At(30, 5, 0), "success") >>
=============================================================================
