---------------------------- MODULE Deployments ----------------------------
(***************************************************************************)
(* The deployments the platform shows: their components, and the resources *)
(* and edges generated for each component. Names of pods, which end in a   *)
(* random number, and other text nobody compares are left out.             *)
(***************************************************************************)
EXTENDS Lists

SyncStatuses == <<"Synced", "OutOfSync", "Syncing", "Unknown">>
HealthStatuses == <<"Healthy", "Degraded", "Progressing", "Missing", "Unknown">>
EdgeTypes == {"owner", "selector", "ingress", "config", "volume", "scaling"}
TargetClusters == <<"prod (us)", "staging (us)", "prod-eu (eu)">>
Projects == <<"prod-apps", "infra", "data">>

\* The order String.localeCompare gives the names that are sorted.
Collation ==
  <<"analytics", "analytics-pipeline", "api-gateway", "auth", "auth-service", "catalog",
    "catalog-api", "catalog-worker", "checkout", "checkout-service", "checkout-worker",
    "gateway", "payment-service", "payment-webhook", "payments", "prod (us)",
    "prod-eu (eu)", "rate-limiter", "staging (us)">>

(***************************************************************************)
(* Manifests: the wanted Deployment, and the live one of a component that  *)
(* drifted, which runs one replica more and, if the image was a v1, a v2.  *)
(***************************************************************************)
YamlDeployment(name, image, replicas) ==
  [kind |-> "Deployment", name |-> name, image |-> image, replicas |-> replicas]

YamlDeploymentLive(name, image, replicas) ==
  [YamlDeployment(name, image, replicas) EXCEPT
     !.replicas = replicas + 1,
     !.image = IF image = "v1" THEN "v2" ELSE image]

\* The other templates: what each refers to, and the bounds of the autoscaler.
YamlService(name, port) == [kind |-> "Service", selects |-> name, port |-> port]
YamlIngress(name, service) == [kind |-> "Ingress", name |-> name, backend |-> service]
YamlConfigMap(name) == [kind |-> "ConfigMap", config |-> name]
YamlHPA(name, min, max) ==
  [kind |-> "HorizontalPodAutoscaler", scales |-> name, min |-> min, max |-> max]

\* A resource; live is empty, or holds the manifest found in the cluster.
Resource(id, kind, status, syncStatus, manifest, live) ==
  [id |-> id, kind |-> kind, status |-> status, syncStatus |-> syncStatus,
   manifest |-> manifest, live |-> live]

Edge(source, target, type) == [source |-> source, target |-> target, type |-> type]
PodIds(c) == [i \in 1..c.podCount |-> <<c.id, "pod", i>>]

(***************************************************************************)
(* The parts makeComponent adds, in its order, for the arguments c.        *)
(***************************************************************************)
Workload(c) ==
  << Resource(<<c.id, "deploy">>, "Deployment", c.healthStatus,
              IF c.outOfSync THEN "OutOfSync" ELSE c.syncStatus,
              YamlDeployment(c.name, c.image, c.replicas),
              IF c.outOfSync
              THEN <<YamlDeploymentLive(c.name, c.image, c.replicas)>> ELSE <<>>),
     Resource(<<c.id, "rs">>, "ReplicaSet", c.healthStatus, c.syncStatus,
              [kind |-> "ReplicaSet", owner |-> c.name], <<>>) >>

\* Only the first pod of a degraded component is degraded.
Pods(c) ==
  [i \in 1..c.podCount |->
     Resource(PodIds(c)[i], "Pod",
              IF i = 1 /\ c.healthStatus = "Degraded" THEN "Degraded" ELSE "Healthy",
              c.syncStatus, [kind |-> "Pod", owner |-> c.name], <<>>)]

Networking(c) ==
  << Resource(<<c.id, "svc">>, "Service", "Healthy", c.syncStatus,
              YamlService(c.name, 8080), <<>>) >>
  \o IF c.hasIngress
     THEN << Resource(<<c.id, "ingress">>, "Ingress", "Healthy", c.syncStatus,
                      YamlIngress(c.name, c.name), <<>>) >>
     ELSE <<>>

Settings(c) ==
  (IF c.hasConfigMap
   THEN << Resource(<<c.id, "cm">>, "ConfigMap", "Healthy", c.syncStatus,
                    YamlConfigMap(c.name), <<>>) >>
   ELSE <<>>)
  \o IF c.hasHPA
     THEN << Resource(<<c.id, "hpa">>, "HorizontalPodAutoscaler", "Healthy", c.syncStatus,
                      YamlHPA(c.name, c.replicas, c.replicas * 4), <<>>) >>
     ELSE <<>>

Resources(c) == Workload(c) \o Pods(c) \o Networking(c) \o Settings(c)

Edges(c) ==
  {Edge(<<c.id, "deploy">>, <<c.id, "rs">>, "owner")}
  \cup {Edge(<<c.id, "rs">>, p, "owner") : p \in Elements(PodIds(c))}
  \cup {Edge(<<c.id, "svc">>, p, "selector") : p \in Elements(PodIds(c))}
  \cup {e \in {Edge(<<c.id, "ingress">>, <<c.id, "svc">>, "ingress")} : c.hasIngress}
  \cup {e \in {Edge(<<c.id, "cm">>, <<c.id, "deploy">>, "config")} : c.hasConfigMap}
  \cup {e \in {Edge(<<c.id, "hpa">>, <<c.id, "deploy">>, "scaling")} : c.hasHPA}

\* A component: its own attributes with what was generated for it.
MakeComponent(c) ==
  [id |-> c.id, name |-> c.name, namespace |-> c.namespace, branch |-> c.branch,
   manifestType |-> c.manifestType, syncPolicy |-> c.syncPolicy, autoSync |-> c.autoSync,
   syncStatus |-> c.syncStatus, healthStatus |-> c.healthStatus,
   lastSyncAt |-> c.lastSyncAt, resources |-> Resources(c), edges |-> Edges(c)]

(***************************************************************************)
(* The data. A component's last arguments say whether it has an ingress,   *)
(* an autoscaler and a config map, how many pods, and whether it drifted.  *)
(***************************************************************************)
Comp(id, name, namespace, branch, type, policy, sync, health, at, image, replicas,
     extras, pods, drift) ==
  MakeComponent([id |-> id, name |-> name, namespace |-> namespace, branch |-> branch,
    manifestType |-> type, syncPolicy |-> policy,
    autoSync |-> policy = "Automated", syncStatus |-> sync, healthStatus |-> health,
    lastSyncAt |-> at, image |-> image, replicas |-> replicas,
    hasIngress |-> "ingress" \in extras, hasHPA |-> "hpa" \in extras,
    hasConfigMap |-> "cm" \in extras, podCount |-> pods, outOfSync |-> drift])

Dep(id, name, project, cluster, sync, health, at, components) ==
  [id |-> id, name |-> name, namespace |-> name, project |-> project,
   targetCluster |-> cluster, syncStatus |-> sync, healthStatus |-> health,
   lastSyncAt |-> at, components |-> components]

Everything == {"ingress", "hpa", "cm"}

MockDeployments ==
  << Dep("1", "checkout", "prod-apps", "prod (us)", "Synced", "Healthy", At(30, 6, 12),
       << Comp("1-1", "checkout-service", "checkout", "main",
               "Raw", "Automated", "Synced", "Healthy",
               At(30, 6, 12), "v1", 3, Everything, 3, FALSE),
          Comp("1-2", "checkout-worker", "checkout", "main",
               "Raw", "Automated", "Synced", "Healthy",
               At(30, 6, 12), "v1", 2, {"cm"}, 2, FALSE) >>),
     Dep("2", "catalog", "prod-apps", "prod (us)", "OutOfSync", "Degraded", At(30, 4, 30),
       << Comp("2-1", "catalog-api", "catalog", "main",
               "Helm", "Automated", "OutOfSync", "Degraded",
               At(30, 4, 30), "v2", 3, Everything, 3, TRUE),
          Comp("2-2", "catalog-worker", "catalog", "main",
               "Helm", "Automated", "Synced", "Healthy",
               At(30, 4, 30), "v2", 2, {"cm"}, 2, FALSE) >>),
     Dep("3", "gateway", "infra", "prod (us)", "Synced", "Healthy", At(29, 22, 15),
       << Comp("3-1", "api-gateway", "gateway", "release",
               "Raw", "Manual", "Synced", "Healthy",
               At(29, 22, 15), "v3", 2, {"ingress"}, 2, FALSE),
          Comp("3-2", "rate-limiter", "gateway", "main",
               "Raw", "Manual", "Synced", "Degraded",
               At(29, 10, 0), "v1", 1, {}, 1, FALSE) >>),
     Dep("4", "payments", "prod-apps", "prod-eu (eu)", "Synced", "Healthy", At(30, 7, 45),
       << Comp("4-1", "payment-service", "payments", "main",
               "Raw", "Automated", "Synced", "Healthy",
               At(30, 7, 45), "v1", 3, Everything, 3, FALSE),
          Comp("4-2", "payment-webhook", "payments", "main",
               "Raw", "Automated", "Synced", "Healthy",
               At(30, 7, 45), "v1", 2, {"cm"}, 2, FALSE) >>),
     Dep("5", "auth", "infra", "prod (us)", "Syncing", "Progressing", At(30, 9, 0),
       << Comp("5-1", "auth-service", "auth", "main",
               "Raw", "Automated", "Syncing", "Progressing",
               At(30, 9, 0), "v2", 3, Everything, 3, FALSE) >>),
     Dep("6", "analytics", "data", "prod-eu (eu)", "Unknown", "Unknown", Never,
       << Comp("6-1", "analytics-pipeline", "analytics", "main",
               "Raw", "Automated", "Unknown", "Unknown",
               Never, "v0", 1, {}, 0, FALSE) >>) >>

(***************************************************************************)
(* Lookups. Each returns a sequence: empty for undefined.                  *)
(***************************************************************************)
GetDeployment(id) == Filter(MockDeployments, LAMBDA d : d.id = id)

GetComponent(deploymentId, componentId) ==
  LET found == GetDeployment(deploymentId)
      components == found[1].components
  IN  IF found = <<>> THEN <<>> ELSE Filter(components, LAMBDA c : c.id = componentId)

GetDeploymentResourceCount(d) ==
  LET upTo[i \in 0..Len(d.components)] ==
        IF i = 0 THEN 0 ELSE upTo[i - 1] + Len(d.components[i].resources)
  IN  upTo[Len(d.components)]
=============================================================================
