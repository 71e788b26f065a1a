------------------------------- MODULE Ingress --------------------------------
(***************************************************************************)
(* The ingress controller of internal/ingress/ingress.go: HTTP requests    *)
(* served by handleRequest on gin's goroutines, and the API goroutine      *)
(* calling AddIngress and RemoveIngress, all sharing ic.mu, a Go          *)
(* sync.RWMutex (writer-preferring: see StoreLocks).  One ingress rule,    *)
(* present or not; the registry answer is a nondeterministic choice.      *)
(***************************************************************************)
EXTENDS Naturals, FiniteSets

CONSTANTS
    Request,   \* goroutines serving requests
    Api,       \* the goroutine of the API handlers
    None

VARIABLES
    readers,   \* read locks held on ic.mu
    pendingW,  \* goroutine that called Lock and waits for the readers to leave
    owner,     \* goroutine holding the write lock
    pc,        \* pc[g]: where goroutine g is
    rules      \* the ingress rule is in ic.rules

vars == <<readers, pendingW, owner, pc, rules>>

Goroutine == Request \cup {Api}

CanRLock == pendingW = None /\ owner = None

\* Lock: take the writer mutex and announce; LockAcquired follows.
Announce(g, next) ==
    /\ pendingW = None /\ owner = None
    /\ pendingW' = g /\ pc' = [pc EXCEPT ![g] = next]
    /\ UNCHANGED <<readers, owner, rules>>

\* The deferred RUnlock of handleRequest on each return path.
Return(r) ==
    /\ readers' = readers - 1 /\ pc' = [pc EXCEPT ![r] = "idle"]
    /\ UNCHANGED <<pendingW, owner, rules>>

Init ==
    /\ readers = 0 /\ pendingW = None /\ owner = None
    /\ pc = [g \in Goroutine |-> "idle"]
    /\ rules \in BOOLEAN

\* ingress.go:81  ic.mu.RLock() (deferred RUnlock at 82).
RequestRLock(r) ==
    /\ pc[r] = "idle" /\ CanRLock
    /\ readers' = readers + 1 /\ pc' = [pc EXCEPT ![r] = "match"]
    /\ UNCHANGED <<pendingW, owner, rules>>

\* ingress.go:84-111  rule lookup; 404 when nothing matches.
MatchRule(r) ==
    /\ pc[r] = "match"
    /\ IF rules THEN /\ pc' = [pc EXCEPT ![r] = "discover"]
                     /\ UNCHANGED <<readers, pendingW, owner, rules>>
                ELSE Return(r)

\* ingress.go:113-123  GetServiceEndpoints; 503 without endpoints, else
\* ic.mu.Lock() for the round-robin index while the read lock is held.
Discover(r) ==
    /\ pc[r] = "discover"
    /\ \/ Return(r)
       \/ Announce(r, "lock")

\* ... the Lock returns once no read lock is held.
RequestLockAcquired(r) ==
    /\ pc[r] = "lock" /\ readers = 0
    /\ owner' = r /\ pendingW' = None /\ pc' = [pc EXCEPT ![r] = "proxy"]
    /\ UNCHANGED <<readers, rules>>

\* ingress.go:124-164  round-robin update, Unlock, proxy lookup, ServeHTTP,
\* then the deferred RUnlock.
Proxy(r) ==
    /\ pc[r] = "proxy"
    /\ owner' = None /\ readers' = readers - 1 /\ pc' = [pc EXCEPT ![r] = "idle"]
    /\ UNCHANGED <<pendingW, rules>>

\* AddIngress / RemoveIngress: ic.mu.Lock() ...
ApiLock ==
    /\ pc[Api] = "idle"
    /\ Announce(Api, "lock")

ApiLockAcquired ==
    /\ pc[Api] = "lock" /\ readers = 0
    /\ owner' = Api /\ pendingW' = None /\ pc' = [pc EXCEPT ![Api] = "write"]
    /\ UNCHANGED <<readers, rules>>

\* ... set or delete the rule, then the deferred Unlock.
ApiWrite ==
    /\ pc[Api] = "write"
    /\ \E present \in BOOLEAN : rules' = present
    /\ owner' = None /\ pc' = [pc EXCEPT ![Api] = "idle"]
    /\ UNCHANGED <<readers, pendingW>>

Next ==
    \/ \E r \in Request :
          RequestRLock(r) \/ MatchRule(r) \/ Discover(r) \/ RequestLockAcquired(r) \/ Proxy(r)
    \/ ApiLock \/ ApiLockAcquired \/ ApiWrite

\* The Go scheduler runs every runnable goroutine.
Spec == Init /\ [][Next]_vars
            /\ \A r \in Request : WF_vars(MatchRule(r) \/ Discover(r) \/ RequestLockAcquired(r) \/ Proxy(r))
            /\ WF_vars(ApiLockAcquired \/ ApiWrite)

TypeOK ==
    /\ readers \in 0..Cardinality(Request)
    /\ pendingW \in Goroutine \cup {None}
    /\ owner \in Goroutine \cup {None}
    /\ pc \in [Goroutine -> {"idle", "match", "discover", "lock", "proxy", "write"}]
    /\ rules \in BOOLEAN

(* Every request handleRequest has started is answered: a goroutine that   *)
(* took ic.mu.RLock() returns to serve the next request.                   *)
RequestAnswered == \A r \in Request : pc[r] = "match" ~> pc[r] = "idle"
====
