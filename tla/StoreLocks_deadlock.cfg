\* BroadcastState's nested RLock against a writer's Lock.  The deadlocked
\* state has no successor, so deadlock is reported through the liveness
\* property rather than as a stop of the model.
CONSTANTS
    recover = recover
    Writer <- MCWriter
    None = None
SPECIFICATION Spec
PROPERTY BroadcastPassesLocks
CHECK_DEADLOCK FALSE
