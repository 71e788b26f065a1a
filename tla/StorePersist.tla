----------------------------- MODULE StorePersist -----------------------------
(***************************************************************************)
(* The Store of one agent at the level of its data directory              *)
(* (internal/storage/storage.go, sync.go): every Save*/Delete* mutates    *)
(* the maps and calls persist under s.mu.Lock; persist writes             *)
(* state.json.tmp with os.WriteFile and renames it over state.json;       *)
(* NewStorage runs Load on start; the backup ticker runs Backup under     *)
(* s.mu.RLock, an os.WriteFile straight to state-backup-<ts>.json.        *)
(*                                                                         *)
(* s.mu serialises all of these, so one variable pc says which of them    *)
(* holds the lock and where it is.  os.WriteFile truncates the file       *)
(* before writing it, so a file being written is Torn until the write     *)
(* returns; a crash there leaves it Torn.  The process crash is modelled; *)
(* power loss (no fsync before the rename) is not.  A failed WriteFile or *)
(* Rename returns an error to the caller; the maps keep the mutation.     *)
(***************************************************************************)
CONSTANTS
    Key,        \* "namespace/name" keys
    Ver,        \* versions an entry can hold
    NoEntry,    \* the key is absent from the map
    None,       \* the file does not exist
    Torn        \* the file exists with partial content

VARIABLES
    mem,        \* the four maps of Storage
    stateFile,  \* DataDir/state.json
    tmpFile,    \* DataDir/state.json.tmp
    backupFile, \* the latest DataDir/state-backup-<ts>.json
    pc,         \* "idle", or the step of persist/Backup holding s.mu
    up          \* the agent process is running

vars == <<mem, stateFile, tmpFile, backupFile, pc, up>>

Snap == [Key -> Ver \cup {NoEntry}]

Empty == [k \in Key |-> NoEntry]

File == Snap \cup {None, Torn}

\* NewStorage: empty maps, then Load.  A missing state.json keeps them
\* empty; a read or json.Unmarshal error is logged by NewStorage, which
\* carries on with the empty maps.
Load(f) == IF f \in Snap THEN f ELSE Empty

\* NewStorage on a fresh data directory.
Init ==
    /\ mem = Empty
    /\ stateFile = None
    /\ tmpFile = None
    /\ backupFile = None
    /\ pc = "idle"
    /\ up = TRUE

\* SaveDeployment (and SaveService, SaveIngress, SavePod, MergeState):
\* under s.mu.Lock, the entry is set, then persist starts.
Save(k, v) ==
    /\ up /\ pc = "idle"
    /\ mem' = [mem EXCEPT ![k] = v]
    /\ pc' = "write"
    /\ UNCHANGED <<stateFile, tmpFile, backupFile, up>>

\* DeleteDeployment (and its siblings): delete, then persist.
Delete(k) ==
    /\ up /\ pc = "idle"
    /\ mem' = [mem EXCEPT ![k] = NoEntry]
    /\ pc' = "write"
    /\ UNCHANGED <<stateFile, tmpFile, backupFile, up>>

\* A persist that writes state.json in place, truncating it first.
WriteStateInPlace ==
    /\ up /\ pc = "write"
    /\ stateFile' = Torn
    /\ pc' = "writing"
    /\ UNCHANGED <<mem, tmpFile, backupFile, up>>

\* persist: json.MarshalIndent of the maps, then os.WriteFile of
\* state.json.tmp, which first truncates the file.
WriteTmpBegin ==
    /\ up /\ pc = "write"
    /\ tmpFile' = Torn
    /\ pc' = "writing"
    /\ UNCHANGED <<mem, stateFile, backupFile, up>>

\* os.WriteFile returns: the whole marshalled state is in the file, or an
\* error (disk full) leaves it partial and persist returns the error.
WriteTmpEnd(ok) ==
    /\ up /\ pc = "writing"
    /\ tmpFile' = IF ok THEN mem ELSE Torn
    /\ pc' = IF ok THEN "rename" ELSE "idle"
    /\ UNCHANGED <<mem, stateFile, backupFile, up>>

\* persist: os.Rename(state.json.tmp, state.json), atomic on one file
\* system; on an error state.json is left as it was.
Rename(ok) ==
    /\ up /\ pc = "rename"
    /\ stateFile' = IF ok THEN tmpFile ELSE stateFile
    /\ tmpFile' = IF ok THEN None ELSE tmpFile
    /\ pc' = "idle"
    /\ UNCHANGED <<mem, backupFile, up>>

\* Backup, from the StartPeriodicBackup ticker: under s.mu.RLock,
\* os.WriteFile creates (or truncates) the backup file ...
BackupBegin ==
    /\ up /\ pc = "idle"
    /\ backupFile' = Torn
    /\ pc' = "backup"
    /\ UNCHANGED <<mem, stateFile, tmpFile, up>>

\* ... and returns with the whole state written, or an error.
BackupEnd(ok) ==
    /\ up /\ pc = "backup"
    /\ backupFile' = IF ok THEN mem ELSE Torn
    /\ pc' = "idle"
    /\ UNCHANGED <<mem, stateFile, tmpFile, up>>

\* The agent process dies at any point; files stay as they are.
Crash ==
    /\ up
    /\ up' = FALSE
    /\ pc' = "idle"
    /\ UNCHANGED <<mem, stateFile, tmpFile, backupFile>>

\* A restart that loads state.json.tmp instead of state.json.
RestartFromTmp ==
    /\ ~up
    /\ up' = TRUE
    /\ mem' = tmpFile
    /\ UNCHANGED <<stateFile, tmpFile, backupFile, pc>>

\* main starts again: NewStorage with Load of state.json.
Restart ==
    /\ ~up
    /\ up' = TRUE
    /\ mem' = Load(stateFile)
    /\ UNCHANGED <<stateFile, tmpFile, backupFile, pc>>

Next ==
    \/ \E k \in Key, v \in Ver : Save(k, v)
    \/ \E k \in Key : Delete(k)
    \/ WriteTmpBegin
    \/ \E ok \in BOOLEAN : WriteTmpEnd(ok) \/ Rename(ok) \/ BackupEnd(ok)
    \/ BackupBegin
    \/ Crash
    \/ Restart

Spec == Init /\ [][Next]_vars
(***************************************************************************)
(* Properties.                                                             *)
(***************************************************************************)
TypeOK ==
    /\ mem \in Snap
    /\ {stateFile, tmpFile, backupFile} \subseteq File
    /\ pc \in {"idle", "write", "writing", "rename", "backup"}
    /\ up \in BOOLEAN

\* What a restart would load: state.json, or empty maps when it is absent.
Saved == IF stateFile = None THEN Empty ELSE stateFile

(* The data directory implements the durable store of spec 4.4 ("write   *)
(* to a temp file, then rename; never leave partial files") and 8.7:     *)
(* under persist's write-then-rename, Load after any crash, at any step  *)
(* of persist or Backup, restores exactly the state of the last          *)
(* completed persist, and state.json only ever changes to the current    *)
(* maps, all at once.                                                    *)
Durable == INSTANCE DurableStore WITH mem <- mem, saved <- Saved, up <- up

DurableSpec == Durable!Spec
====
