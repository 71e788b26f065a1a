------------------------------ MODULE StoreLocks ------------------------------
(***************************************************************************)
(* The goroutines of one agent that share Storage.mu, a sync.RWMutex      *)
(* (internal/storage/storage.go): the sync ticker running BroadcastState  *)
(* (internal/storage/sync.go), and writers that take the write lock: the  *)
(* SaveDeployment calls of the recovery goroutine, the only production    *)
(* writer (MergeState would be one, but no state_sync is ever delivered). *)
(* After marshalling, BroadcastState's cluster.Broadcast panics at        *)
(* SendBestEffort(nil, ...) (cluster.go:229) and the process exits.       *)
(*                                                                         *)
(* Go's RWMutex prefers writers: Lock first excludes other writers, then  *)
(* announces itself, after which every new RLock blocks until Unlock, and *)
(* waits for the readers already inside to leave.  A goroutine that holds *)
(* a read lock and calls RLock again therefore blocks if a writer         *)
(* announced itself in between.                                            *)
(***************************************************************************)
EXTENDS Naturals

CONSTANTS
    Writer,    \* goroutines that call Lock (SaveDeployment)
    None       \* no goroutine

VARIABLES
    readers,   \* number of read locks held
    pendingW,  \* writer that has announced itself and waits for readers to leave
    owner,     \* writer holding the lock
    syncPc,    \* where the sync goroutine is in BroadcastState
    wPc        \* wPc[w]: where writer w is

vars == <<readers, pendingW, owner, syncPc, wPc>>

SyncPcs == {"idle", "outer", "inner", "got", "marshal", "exited"}

WriterPcs == {"idle", "waiting", "writing"}

\* RLock succeeds only when no writer holds or awaits the lock.
CanRLock == pendingW = None /\ owner = None

Init ==
    /\ readers = 0
    /\ pendingW = None
    /\ owner = None
    /\ syncPc = "idle"
    /\ wPc = [w \in Writer |-> "idle"]

\* sync.go:19  s.mu.RLock()
SyncRLock ==
    /\ syncPc = "idle" /\ CanRLock
    /\ readers' = readers + 1 /\ syncPc' = "outer"
    /\ UNCHANGED <<pendingW, owner, wPc>>

\* storage.go:360  GetState: s.mu.RLock() again, on the same mutex.
GetStateRLock ==
    /\ syncPc = "outer" /\ CanRLock
    /\ readers' = readers + 1 /\ syncPc' = "inner"
    /\ UNCHANGED <<pendingW, owner, wPc>>

\* storage.go:361-370  GetState builds a ClusterState holding the live maps
\* and its deferred RUnlock runs.
GetStateReturn ==
    /\ syncPc = "inner"
    /\ readers' = readers - 1 /\ syncPc' = "got"
    /\ UNCHANGED <<pendingW, owner, wPc>>

\* sync.go:21  s.mu.RUnlock()
SyncRUnlock ==
    /\ syncPc = "got"
    /\ readers' = readers - 1 /\ syncPc' = "marshal"
    /\ UNCHANGED <<pendingW, owner, wPc>>

\* sync.go:23-35  json.Marshal walks the maps, unlocked, then broadcast,
\* which panics; the ticker goroutine has no recover and the process exits.
SyncMarshal ==
    /\ syncPc = "marshal"
    /\ syncPc' = "exited"
    /\ UNCHANGED <<readers, pendingW, owner, wPc>>

\* storage.go:65 (SaveDeployment)  s.mu.Lock(): take the
\* writer mutex and announce.
Lock(w) ==
    /\ syncPc # "exited"
    /\ wPc[w] = "idle" /\ pendingW = None /\ owner = None
    /\ pendingW' = w /\ wPc' = [wPc EXCEPT ![w] = "waiting"]
    /\ UNCHANGED <<readers, owner, syncPc>>

\* ... and proceed once the readers inside have left.
LockAcquired(w) ==
    /\ syncPc # "exited"
    /\ wPc[w] = "waiting" /\ readers = 0
    /\ owner' = w /\ pendingW' = None /\ wPc' = [wPc EXCEPT ![w] = "writing"]
    /\ UNCHANGED <<readers, syncPc>>

\* The map assignments, lastModified and persist(), then the deferred Unlock.
Unlock(w) ==
    /\ syncPc # "exited"
    /\ wPc[w] = "writing"
    /\ owner' = None /\ wPc' = [wPc EXCEPT ![w] = "idle"]
    /\ UNCHANGED <<readers, pendingW, syncPc>>

Next ==
    \/ SyncRLock \/ GetStateRLock \/ GetStateReturn \/ SyncRUnlock \/ SyncMarshal
    \/ \E w \in Writer : Lock(w) \/ LockAcquired(w) \/ Unlock(w)

\* Every goroutine that can run eventually does (the Go scheduler is fair).
Spec == Init /\ [][Next]_vars /\ WF_vars(Next)
            /\ WF_vars(GetStateRLock \/ GetStateReturn \/ SyncRUnlock \/ SyncMarshal)
            /\ \A w \in Writer : WF_vars(LockAcquired(w) \/ Unlock(w))

TypeOK ==
    /\ readers \in 0..2
    /\ pendingW \in Writer \cup {None}
    /\ owner \in Writer \cup {None}
    /\ syncPc \in SyncPcs
    /\ wPc \in [Writer -> WriterPcs]

(* A BroadcastState that has taken its first read lock gets past its read *)
(* locks to the marshal: the sync ticker goroutine is never stuck on      *)
(* Storage.mu.                                                             *)
BroadcastPassesLocks == syncPc = "outer" ~> syncPc = "marshal"

(* The json.Marshal of BroadcastState, which walks the live deployments,   *)
(* services, ingresses and pods maps returned by GetState, never runs while *)
(* a writer is assigning to those maps (SaveDeployment).                   *)
NoMarshalDuringWrite == ~(syncPc = "marshal" /\ owner # None)
====
