----------------------------- MODULE DurableStore -----------------------------
(***************************************************************************)
(* What the Store of one agent promises about its data directory (spec    *)
(* 4.4, atomic write discipline, and 8.7): the in-memory maps change by   *)
(* mutations; at some point after a mutation the whole current state      *)
(* becomes the saved snapshot in one step; a crash loses memory only; a   *)
(* restart resumes from the saved snapshot, or from empty maps if none    *)
(* was ever saved.  The saved snapshot is never a partial state.          *)
(***************************************************************************)
CONSTANTS
    Key,        \* "namespace/name" keys
    Ver,        \* versions an entry can hold
    NoEntry     \* the key is absent

VARIABLES
    mem,        \* the maps in memory (meaningless while the agent is down)
    saved,      \* the snapshot a restart would load
    up          \* the agent process is running

Snap == [Key -> Ver \cup {NoEntry}]

Empty == [k \in Key |-> NoEntry]

Init ==
    /\ mem = Empty
    /\ saved = Empty
    /\ up = TRUE

\* A mutation of the maps in memory.
Mutate ==
    /\ up
    /\ mem' \in Snap
    /\ UNCHANGED <<saved, up>>

\* The current state becomes the saved snapshot, all at once.
Save ==
    /\ up
    /\ saved' = mem
    /\ UNCHANGED <<mem, up>>

Crash ==
    /\ up
    /\ up' = FALSE
    /\ UNCHANGED <<mem, saved>>

Restart ==
    /\ ~up
    /\ up' = TRUE
    /\ mem' = saved
    /\ UNCHANGED saved

Next == Mutate \/ Save \/ Crash \/ Restart

Spec == Init /\ [][Next]_<<mem, saved, up>>
====
