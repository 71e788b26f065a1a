------------------------------- MODULE Lifecycle -------------------------------
(***************************************************************************)
(* A deployment across agent restarts: ApplyManifest/applyDeployment of   *)
(* internal/api/recovery.go on the API goroutine, RecoverDeployments on   *)
(* the StartStateRecovery goroutine, the podman client that creates the   *)
(* containers, and the data directory that recovery reads.  One           *)
(* deployment key; replica i is the pod and container named "<dep>-<i>". *)
(*                                                                         *)
(* Containers belong to podman, not to the agent: they outlive an agent   *)
(* crash, and an operator may remove them with podman rm.  CreatePod      *)
(* names the container pod.Name (podman.go:46), so a create of a name     *)
(* that exists on the node fails.  No API handler calls storage.Save*;    *)
(* the only write of a deployment to the store is the SaveDeployment at   *)
(* the end of recovery.  GetPodStatus feeds UpdatePodState(containerID),  *)
(* which finds no scheduler entry under that key and changes nothing.     *)
(***************************************************************************)
EXTENDS Naturals, FiniteSets

CONSTANTS
    Node,       \* agents; SchedulePod draws from GetNodes()
    Manifest,   \* spec.replicas of the deployments a user may apply, or Nil
    Nil,        \* a manifest without spec.replicas
    Outcome,    \* podman results: "ok", "createFail", "startFail"
    DataDir,    \* state.json an agent may start with: None, or a stored
                \* deployment the operator carried over (spec 4.4)
    None

MaxRep == CHOOSE r \in Manifest \ {Nil} : \A q \in Manifest \ {Nil} : q <= r

Idx == 0 .. MaxRep - 1

VARIABLES
    up,         \* the agent process runs
    stored,     \* the deployment in state.json: None or [rep, pods]
    deps,       \* a.deployments[key]: None or its DesiredReplicas
    ctr,        \* ctr[n][i]: podman container "<dep>-<i>" on n
    hpc,        \* API goroutine: "idle" or "loop" (replica loop of applyDeployment)
    hi,         \* its loop index
    hrep,       \* dep.DesiredReplicas of the dep it applies
    rpc,        \* recovery goroutine: "wait", "loop", "save" or "done"
    ri,         \* its loop index
    rpods,      \* dep.Pods recovery has appended: <<i, node>> pairs
    acked       \* history: replicas of the last apply answered with 200

vars == <<up, stored, deps, ctr, hpc, hi, hrep, rpc, ri, rpods, acked>>

NoCtr == [i \in Idx |-> "none"]

\* A stored Deployment: DesiredReplicas and dep.Pods.
Rec == [rep : Manifest \ {Nil}, pods : SUBSET (Idx \X Node)]

\* Containers of the deployment that run anywhere.
Running == {<<n, i>> \in Node \X Idx : ctr[n][i] = "running"}

\* podman CreatePod then StartPod of replica i on n with result res:
\* CreateWithSpec fails when the name is in use, or with createFail.
Podman(n, i, res) ==
    IF ctr[n][i] # "none" \/ res = "createFail" THEN ctr
    ELSE [ctr EXCEPT ![n][i] = IF res = "ok" THEN "running" ELSE "created"]

Created(n, i, res) == ctr[n][i] = "none" /\ res = "ok"

\* main: NewStorage loads the data directory, then StartStateRecovery.
Init ==
    /\ up = [n \in Node |-> TRUE]
    /\ stored \in [Node -> DataDir]
    /\ deps = [n \in Node |-> None]
    /\ ctr = [n \in Node |-> NoCtr]
    /\ hpc = [n \in Node |-> "idle"]
    /\ hi = [n \in Node |-> 0]
    /\ hrep = [n \in Node |-> 0]
    /\ rpc = [n \in Node |-> "wait"]
    /\ ri = [n \in Node |-> 0]
    /\ rpods = [n \in Node |-> {}]
    /\ acked = None

\* ApplyManifest with one Deployment: ParseManifest, then applyDeployment:
\* ParseDeployment dereferences spec.replicas, a nil pointer when it is
\* omitted (gin.Recovery answers 500); else a.deployments[key] = dep.
ApplyDeployment(n, m) ==
    /\ up[n] /\ hpc[n] = "idle"
    /\ m # Nil
    /\ deps' = [deps EXCEPT ![n] = m]
    /\ hpc' = [hpc EXCEPT ![n] = IF m = 0 THEN "idle" ELSE "loop"]
    /\ hi' = [hi EXCEPT ![n] = 0]
    /\ hrep' = [hrep EXCEPT ![n] = m]
    /\ acked' = IF m = 0 THEN m ELSE acked
    /\ UNCHANGED <<up, stored, ctr, rpc, ri, rpods>>

\* One iteration of applyDeployment's replica loop: ExtractPodFromTemplate,
\* generateID, SchedulePod to t; on this agent CreatePod, StartPod,
\* GetPodStatus.  A podman error returns from the handler (500); after the
\* last replica ApplyManifest answers 200.
ApplyReplica(n, t, res) ==
    /\ up[n] /\ hpc[n] = "loop"
    /\ LET i == hi[n]
           fail == t = n /\ ~Created(n, i, res)
           last == i + 1 = hrep[n]
       IN /\ ctr' = IF t = n THEN Podman(n, i, res) ELSE ctr
          /\ hpc' = [hpc EXCEPT ![n] = IF fail \/ last THEN "idle" ELSE "loop"]
          /\ hi' = [hi EXCEPT ![n] = i + 1]
          /\ acked' = IF last /\ ~fail THEN hrep[n] ELSE acked
    /\ UNCHANGED <<up, stored, deps, hrep, rpc, ri, rpods>>

\* StartStateRecovery, after its 5 s sleep: RecoverDeployments lists the
\* stored deployments and clears dep.Pods.
StartRecovery(n) ==
    /\ up[n] /\ rpc[n] = "wait"
    /\ rpc' = [rpc EXCEPT ![n] = IF stored[n] = None THEN "done" ELSE "loop"]
    /\ ri' = [ri EXCEPT ![n] = 0]
    /\ rpods' = [rpods EXCEPT ![n] = {}]
    /\ UNCHANGED <<up, stored, deps, ctr, hpc, hi, hrep, acked>>

\* One replica of the recovery loop: as in applyDeployment, but an error
\* counts as failed and continues without appending the pod.
RecoverReplica(n, t, res) ==
    /\ up[n] /\ rpc[n] = "loop"
    /\ LET i == ri[n]
           ok == t # n \/ Created(n, i, res)
       IN /\ ctr' = IF t = n THEN Podman(n, i, res) ELSE ctr
          /\ rpods' = IF ok THEN [rpods EXCEPT ![n] = @ \cup {<<i, t>>}] ELSE rpods
          /\ ri' = [ri EXCEPT ![n] = i + 1]
          /\ rpc' = [rpc EXCEPT ![n] = IF i + 1 = stored[n].rep THEN "save" ELSE "loop"]
    /\ UNCHANGED <<up, stored, deps, hpc, hi, hrep, acked>>

\* a.deployments[key] = dep, then SaveDeployment(dep) (persist completes:
\* see StorePersist); the stored services are re-registered (Registry).
SaveRecovered(n) ==
    /\ up[n] /\ rpc[n] = "save"
    /\ stored' = [stored EXCEPT ![n] = [rep |-> @.rep, pods |-> rpods[n]]]
    /\ deps' = [deps EXCEPT ![n] = stored[n].rep]
    /\ rpc' = [rpc EXCEPT ![n] = "done"]
    /\ UNCHANGED <<up, ctr, hpc, hi, hrep, ri, rpods, acked>>

\* The agent process dies; podman's containers and state.json stay.
Crash(n) ==
    /\ up[n]
    /\ up' = [up EXCEPT ![n] = FALSE]
    /\ deps' = [deps EXCEPT ![n] = None]
    /\ hpc' = [hpc EXCEPT ![n] = "idle"]
    /\ UNCHANGED <<stored, ctr, hi, hrep, rpc, ri, rpods, acked>>

\* main again: NewStorage loads state.json, StartStateRecovery (main.go:241).
Restart(n) ==
    /\ ~up[n]
    /\ up' = [up EXCEPT ![n] = TRUE]
    /\ rpc' = [rpc EXCEPT ![n] = "wait"]
    /\ UNCHANGED <<stored, deps, ctr, hpc, hi, hrep, ri, rpods, acked>>

\* With the agent stopped, an operator removes the deployment's
\* containers out of band (podman rm).
RemoveContainers(n) ==
    /\ ~up[n] /\ ctr[n] # NoCtr
    /\ ctr' = [ctr EXCEPT ![n] = NoCtr]
    /\ UNCHANGED <<up, stored, deps, hpc, hi, hrep, rpc, ri, rpods, acked>>

Next ==
    \E n \in Node :
       \/ \E m \in Manifest : ApplyDeployment(n, m)
       \/ \E t \in Node, res \in Outcome : ApplyReplica(n, t, res) \/ RecoverReplica(n, t, res)
       \/ StartRecovery(n) \/ SaveRecovered(n)
       \/ Crash(n) \/ Restart(n) \/ RemoveContainers(n)

Spec == Init /\ [][Next]_vars
(***************************************************************************)
(* Properties.                                                             *)
(***************************************************************************)
TypeOK ==
    /\ stored \in [Node -> Rec \cup {None}]
    /\ ctr \in [Node -> [Idx -> {"none", "created", "running"}]]
    /\ hpc \in [Node -> {"idle", "loop"}]
    /\ rpc \in [Node -> {"wait", "loop", "save", "done"}]

(* Recovery places each replica once (spec 4.4, Recovery flow: "ask the *)
(* Scheduler for a target node"): when every agent started from the same  *)
(* stored deployment and all have recovered, each of its replicas runs on *)
(* exactly one node.                                                      *)
ReplicasRunOnce ==
    (\A n \in Node : up[n] /\ rpc[n] = "done" /\ stored[n] # None /\ acked = None)
       => \A n \in Node : \A i \in 0 .. stored[n].rep - 1 :
             Cardinality({m \in Node : ctr[m][i] = "running"}) = 1

(* Recovery after restart (spec 4.4, Recovery flow, and Scenario 5): once *)
(* an agent's RecoverDeployments has finished, the last deployment the    *)
(* API acknowledged runs with all its replicas, even when its containers  *)
(* were removed while the agent was down.                                 *)
RecoveryRestoresReplicas ==
    \A n \in Node :
       (up[n] /\ rpc[n] = "done" /\ acked \notin {None})
          => Cardinality(Running) = acked
====
