------------------------------- MODULE Workload -------------------------------
(***************************************************************************)
(* Workload control on one agent: the API handlers applyDeployment,       *)
(* applyService and DeleteManifest of internal/api/recovery.go, run by     *)
(* gin on concurrent goroutines, the scheduler of internal/scheduler       *)
(* (unnamed/part_005) and the member list of internal/cluster that         *)
(* SchedulePod draws from.  One deployment key and one service key with   *)
(* the same namespace/name, the service selecting the deployment's pods.  *)
(*                                                                         *)
(* A pod is a *types.Pod shared by the scheduler map, dep.Pods and the     *)
(* handler: podId[p] is its ID field, "gen" (generateID) or "cid" (the     *)
(* container ID written at recovery.go:285).  The scheduler map keeps the  *)
(* key it was stored under, the generated ID.  Registry endpoints are      *)
(* named by the pod ID at registration, endpointID(ns, svc, pod.ID).       *)
(* Podman calls succeed or fail; their output is not modelled.            *)
(***************************************************************************)
EXTENDS Naturals

CONSTANTS
    Node,       \* agents of the cluster
    Local,      \* this agent, GetLocalNodeName()
    Handler,    \* gin goroutines serving API requests
    Pod,        \* pod records, one per replica ever synthesized
    Dep,        \* parsed deployment records, one per applyDeployment
    Replicas,   \* dep.DesiredReplicas
    None

ASSUME Local \in Node

VARIABLES
    members,    \* cluster.nodes: names NotifyJoin added and NotifyLeave kept
    sched,      \* s.pods: pods the scheduler holds, keyed by their generated ID
    podId,      \* podId[p]: "gen" or "cid", the value of pod.ID
    podNode,    \* podNode[p]: pod.NodeName
    containers, \* pods whose podman container exists on this node
    deployment, \* a.deployments[key]: a Dep or None
    depPods,    \* depPods[d]: dep.Pods of record d
    service,    \* a.services[key] is set
    endpoints,  \* endpoint IDs <<pod, id>> this agent registered in discovery
    pc,         \* pc[g]: "idle", "replica" (loop head) or "create" (podman calls)
    cur,        \* cur[g]: the dep record g's applyDeployment works on
    left,       \* left[g]: replicas g still has to create
    pod,        \* pod[g]: the pod g is creating on this node
    dropped     \* history: pods a DeleteManifest asked the scheduler to drop

vars == <<members, sched, podId, podNode, containers, deployment, depPods,
          service, endpoints, pc, cur, left, pod, dropped>>

UsedPods == DOMAIN podNode

UsedDeps == DOMAIN depPods

\* endpointID(namespace, service, pod.ID) of the pods in s.
EndpointIds(s) == {<<p, podId[p]>> : p \in s}

\* RemovePod(pod.ID) for every pod of s: delete(s.pods, podID) hits the
\* entry only while pod.ID is still the key it was scheduled under.
RemovePods(s) == sched \ {p \in s : podId[p] = "gen"}

\* scheduler.GetAllPods: every pod of s.pods.
GetAllPods == sched

Init ==
    /\ members = {Local}
    /\ sched = {}
    /\ podId = [p \in {} |-> "gen"]
    /\ podNode = [p \in {} |-> Local]
    /\ containers = {}
    /\ deployment = None
    /\ depPods = [d \in {} |-> {}]
    /\ service = FALSE
    /\ endpoints = {}
    /\ pc = [g \in Handler |-> "idle"]
    /\ cur = [g \in Handler |-> None]
    /\ left = [g \in Handler |-> 0]
    /\ pod = [g \in Handler |-> None]
    /\ dropped = {}

\* memberlist callbacks NotifyJoin / NotifyLeave under c.mu.
NotifyJoin(n) ==
    /\ n \notin members
    /\ members' = members \cup {n}
    /\ UNCHANGED <<sched, podId, podNode, containers, deployment, depPods,
                   service, endpoints, pc, cur, left, pod, dropped>>

NotifyLeave(n) ==
    /\ n \in members \ {Local}
    /\ members' = members \ {n}
    /\ UNCHANGED <<sched, podId, podNode, containers, deployment, depPods,
                   service, endpoints, pc, cur, left, pod, dropped>>

\* applyDeployment, up to the loop: parse, a.deployments[key] = dep.
ApplyDeployment(g, d) ==
    /\ pc[g] = "idle" /\ d \notin UsedDeps
    /\ deployment' = d
    /\ depPods' = [x \in UsedDeps \cup {d} |-> IF x = d THEN {} ELSE depPods[x]]
    /\ pc' = [pc EXCEPT ![g] = IF Replicas = 0 THEN "idle" ELSE "replica"]
    /\ cur' = [cur EXCEPT ![g] = d]
    /\ left' = [left EXCEPT ![g] = Replicas]
    /\ UNCHANGED <<members, sched, podId, podNode, containers, service, endpoints, pod, dropped>>

\* One replica done: dep.Pods = append(dep.Pods, pod); the loop ends
\* after DesiredReplicas iterations.
Append(g, p) ==
    /\ depPods' = [depPods EXCEPT ![cur[g]] = @ \cup {p}]
    /\ left' = [left EXCEPT ![g] = @ - 1]
    /\ pc' = [pc EXCEPT ![g] = IF left[g] = 1 THEN "idle" ELSE "replica"]

\* A loop iteration: ExtractPodFromTemplate, pod.ID = generateID(), then
\* SchedulePod: a random member, s.pods[pod.ID] = pod.  A pod placed on
\* another agent is only recorded.
SchedulePod(g, p, n) ==
    /\ pc[g] = "replica" /\ p \notin UsedPods /\ n \in members
    /\ sched' = sched \cup {p}
    /\ podId' = [x \in UsedPods \cup {p} |-> IF x = p THEN "gen" ELSE podId[x]]
    /\ podNode' = [x \in UsedPods \cup {p} |-> IF x = p THEN n ELSE podNode[x]]
    /\ IF n = Local
          THEN /\ pc' = [pc EXCEPT ![g] = "create"]
               /\ pod' = [pod EXCEPT ![g] = p]
               /\ UNCHANGED <<depPods, left>>
          ELSE /\ Append(g, p)
               /\ UNCHANGED pod
    /\ UNCHANGED <<members, containers, deployment, service, endpoints, cur, dropped>>

\* CreatePod fails: applyDeployment returns the error, ApplyManifest a 500.
CreatePodFails(g) ==
    /\ pc[g] = "create"
    /\ pc' = [pc EXCEPT ![g] = "idle"]
    /\ UNCHANGED <<members, sched, podId, podNode, containers, deployment, depPods,
                   service, endpoints, cur, left, pod, dropped>>

\* CreatePod succeeds, pod.ID = containerID, then StartPod fails and the
\* handler returns without appending the pod.
StartPodFails(g) ==
    /\ pc[g] = "create"
    /\ containers' = containers \cup {pod[g]}
    /\ podId' = [podId EXCEPT ![pod[g]] = "cid"]
    /\ pc' = [pc EXCEPT ![g] = "idle"]
    /\ UNCHANGED <<members, sched, podNode, deployment, depPods,
                   service, endpoints, cur, left, pod, dropped>>

\* CreatePod, pod.ID = containerID, StartPod, GetPodStatus and
\* UpdatePodState(containerID), which finds no entry under that key and
\* changes nothing; then the append.
CreateAndStartPod(g) ==
    /\ pc[g] = "create"
    /\ containers' = containers \cup {pod[g]}
    /\ podId' = [podId EXCEPT ![pod[g]] = "cid"]
    /\ Append(g, pod[g])
    /\ UNCHANGED <<members, sched, podNode, deployment, service, endpoints, cur, pod, dropped>>

\* applyService: a.services[key] = svc, then RegisterService for the pods
\* of GetAllPods in map order (all match the selector).  The first one
\* stores its endpoint and panics in Broadcast; gin answers 500.
ApplyService(g) ==
    /\ pc[g] = "idle"
    /\ service' = TRUE
    /\ \/ GetAllPods = {} /\ UNCHANGED endpoints
       \/ \E p \in GetAllPods : endpoints' = endpoints \cup EndpointIds({p})
    /\ UNCHANGED <<members, sched, podId, podNode, containers, deployment, depPods,
                   pc, cur, left, pod, dropped>>

\* DeleteManifest: for the deployment, StopPod and RemovePod on the local
\* pods and scheduler.RemovePod(pod.ID) for every pod of dep.Pods, then
\* delete the key; for the service, DeregisterService for every pod
\* GetAllPods still returns, then delete the key.  DeregisterService of a
\* registered endpoint panics before its delete, so the handler aborts
\* (500) with the service key and every endpoint in place; unregistered
\* ones are no-ops.
DeleteManifest(g) ==
    /\ pc[g] = "idle"
    /\ \E gone \in {IF deployment = None THEN {} ELSE depPods[deployment]} :
       \E left1 \in {RemovePods(gone)} :
          /\ containers' = containers \ {p \in gone : podNode[p] = Local}
          /\ sched' = left1
          /\ deployment' = None
          /\ service' = service /\ EndpointIds(left1) \cap endpoints # {}
          /\ dropped' = dropped \cup gone
    /\ UNCHANGED <<members, podId, podNode, depPods, endpoints, pc, cur, left, pod>>

Next ==
    \/ \E n \in Node \ {Local} : NotifyJoin(n) \/ NotifyLeave(n)
    \/ \E g \in Handler :
          \/ \E d \in Dep : ApplyDeployment(g, d)
          \/ \E p \in Pod, n \in Node : SchedulePod(g, p, n)
          \/ CreatePodFails(g) \/ StartPodFails(g) \/ CreateAndStartPod(g)
          \/ ApplyService(g)
          \/ DeleteManifest(g)

Spec == Init /\ [][Next]_vars

(***************************************************************************)
(* Properties.                                                             *)
(***************************************************************************)
TypeOK ==
    /\ Local \in members /\ members \subseteq Node
    /\ UsedPods \subseteq Pod /\ UsedDeps \subseteq Dep
    /\ sched \subseteq UsedPods /\ containers \subseteq UsedPods
    /\ podId \in [UsedPods -> {"gen", "cid"}]
    /\ deployment \in UsedDeps \cup {None}
    /\ \A d \in UsedDeps : depPods[d] \subseteq UsedPods
    /\ pc \in [Handler -> {"idle", "replica", "create"}]

(* DeleteManifest drops the scheduling record of every pod of the deleted *)
(* deployment (spec 4.6, Delete: "drop the scheduling record              *)
(* everywhere"): no pod listed in dep.Pods when the deployment was        *)
(* deleted is still returned by scheduler.GetAllPods.                      *)
DeletedPodsUnscheduled == sched \cap dropped = {}
====
