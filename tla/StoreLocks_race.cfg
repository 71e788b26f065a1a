\* BroadcastState marshals the live maps after releasing the read lock.
\* The nested-RLock deadlock is the subject of StoreLocks_deadlock.cfg; here
\* deadlocked states are simply not extended.
CONSTANTS
    recover = recover
    Writer <- MCWriter
    None = None
SPECIFICATION Spec
INVARIANT NoMarshalDuringWrite
CHECK_DEADLOCK FALSE
