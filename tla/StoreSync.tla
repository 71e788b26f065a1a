------------------------------ MODULE StoreSync ------------------------------
(***************************************************************************)
(* The cluster-state store of every agent as the program runs it: the     *)
(* Storage of internal/storage/storage.go, loaded from state.json by      *)
(* NewStorage, the 30 s state-sync ticker of internal/storage/sync.go,    *)
(* and the start-up recovery of internal/api/recovery.go that runs 5 s    *)
(* after start and saves every listed deployment back.                    *)
(*                                                                         *)
(* What the code does, not what the design says:                          *)
(*  - BroadcastState hands its snapshot to cluster.Broadcast, which calls *)
(*    memberlist's SendBestEffort(nil, msg) (cluster.go:229).  That reads  *)
(*    to.Address() of a nil *Node and panics.  The ticker goroutine has   *)
(*    no recover (sync.go:75-86), so the agent process exits; no           *)
(*    state_sync frame ever leaves, and MergeState never runs.            *)
(*  - RecoverDeployments re-registers the stored services (recovery.go:    *)
(*    78-94); RegisterService broadcasts the same way and panics on the   *)
(*    recovery goroutine, which has no recover either.                     *)
(*  - The only production write to Storage is the SaveDeployment of the   *)
(*    recovery loop (recovery.go:71).  It writes back the object it        *)
(*    listed, with new pods; at the level of entries, memory and           *)
(*    state.json keep what Load read.                                      *)
(* A restarted agent is started again by its supervisor.                   *)
(*                                                                         *)
(* Data abstraction.  The deployments map is a function from Key to the   *)
(* stored object (a member of Ver) or NoEntry; svc says whether state.json *)
(* also holds a service whose selector matches the deployments' pods.      *)
(* The lock-level behaviour of BroadcastState is the subject of           *)
(* StoreLocks; persist and Load at the level of files, of StorePersist.   *)
(***************************************************************************)
EXTENDS Naturals

CONSTANTS
    Node,       \* agents of the cluster
    Key,        \* "namespace/name" keys of stored deployments
    Ver,        \* stored deployment objects
    NoEntry,    \* the key is absent from the map
    DataDir     \* contents state.json may have when an agent first starts

VARIABLES
    store,      \* store[n]: the deployments and services of n's state.json,
                \* which are also its in-memory maps while n runs
    phase,      \* "down", "sleeping" (5 s before recovery), "recovering",
                \* "services" (the service loop), "running"
    pending     \* pending[n]: deployments listed by RecoverDeployments, not yet saved

vars == <<store, phase, pending>>

Snapshot == [dep : [Key -> Ver \cup {NoEntry}], svc : BOOLEAN]

NoPending == [k \in Key |-> NoEntry]

Up(n) == phase[n] # "down"

\* The pods recovery schedules exist, so a stored service selects some.
SelectsPods(s) == s.svc /\ \E k \in Key : s.dep[k] # NoEntry

\* main: NewStorage -> Load reads state.json; StartStateRecovery sleeps.
Init ==
    /\ store \in [Node -> DataDir]
    /\ phase = [n \in Node |-> "sleeping"]
    /\ pending = [n \in Node |-> NoPending]

\* StartStateRecovery wakes after 5 s; RecoverDeployments lists the
\* deployments (ListDeployments).
RecoverDeployments(n) ==
    /\ phase[n] = "sleeping"
    /\ pending' = [pending EXCEPT ![n] = store[n].dep]
    /\ phase' = [phase EXCEPT ![n] = IF store[n].dep = NoPending THEN "services" ELSE "recovering"]
    /\ UNCHANGED store

\* One iteration of its loop: recreate the pods, then SaveDeployment of the
\* listed object under s.mu.Lock and persist; the entry written is the one
\* listed, so the store keeps its entries whether or not persist fails.
RecoverDeployment(n, k) ==
    /\ phase[n] = "recovering"
    /\ pending[n][k] # NoEntry
    /\ pending' = [pending EXCEPT ![n][k] = NoEntry]
    /\ phase' = [phase EXCEPT ![n] = IF pending'[n] = NoPending THEN "services" ELSE "recovering"]
    /\ UNCHANGED store

\* The service loop: RegisterService for every pod a stored service selects;
\* its broadcastServiceUpdate panics in Broadcast and the process exits.
\* Without such a service, recovery ends.
RecoverServices(n) ==
    /\ phase[n] = "services"
    /\ phase' = [phase EXCEPT ![n] = IF SelectsPods(store[n]) THEN "down" ELSE "running"]
    /\ UNCHANGED <<store, pending>>

\* A tick of StartPeriodicSync: BroadcastState takes the read locks, marshals
\* GetState() and calls cluster.Broadcast, which panics at SendBestEffort(nil);
\* the process exits.  The first tick comes 30 s after start, after the
\* 5 s sleep of recovery; the read lock waits for a SaveDeployment in progress.
BroadcastState(n) ==
    /\ phase[n] \in {"recovering", "services", "running"}
    /\ phase' = [phase EXCEPT ![n] = "down"]
    /\ pending' = [pending EXCEPT ![n] = NoPending]
    /\ UNCHANGED store

\* The agent is started again: NewStorage -> Load reads the state.json its
\* last run left, and StartStateRecovery sleeps 5 s.
Restart(n) ==
    /\ phase[n] = "down"
    /\ phase' = [phase EXCEPT ![n] = "sleeping"]
    /\ UNCHANGED <<store, pending>>

Next ==
    \E n \in Node :
        \/ RecoverDeployments(n) \/ RecoverServices(n)
        \/ \E k \in Key : RecoverDeployment(n, k)
        \/ BroadcastState(n) \/ Restart(n)

(***************************************************************************)
(* Fairness.  The sync ticker and the recovery goroutine run on a live    *)
(* agent (weak fairness, one condition per goroutine).  An agent that has *)
(* exited is started again by its supervisor (weak fairness on Restart):  *)
(* the spec's agents run, and without restarts every agent is down for    *)
(* ever and agreement among live agents holds vacuously.                  *)
(***************************************************************************)
Spec ==
    /\ Init /\ [][Next]_vars
    /\ \A n \in Node :
          /\ WF_vars(BroadcastState(n)) /\ WF_vars(Restart(n))
          /\ WF_vars(RecoverDeployments(n) \/ RecoverServices(n) \/ \E k \in Key : RecoverDeployment(n, k))

(***************************************************************************)
(* Properties.                                                             *)
(***************************************************************************)
TypeOK ==
    /\ store \in [Node -> Snapshot]
    /\ phase \in [Node -> {"down", "sleeping", "recovering", "services", "running"}]
    /\ pending \in [Node -> [Key -> Ver \cup {NoEntry}]]

\* All live agents hold the same deployments and services.
Agreed == \A n, p \in Node : Up(n) /\ Up(p) => store[n] = store[p]

====
