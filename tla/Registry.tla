------------------------------- MODULE Registry -------------------------------
(***************************************************************************)
(* The service registry of internal/discovery (unnamed/part_007) on every *)
(* agent: RegisterService and DeregisterService called by the API of an   *)
(* agent, the 10 s healthCheck sweep and the readers (GetServiceAddresses, *)
(* GetServiceEndpoints, ListServices) with their 30 s freshness filter.   *)
(*                                                                         *)
(* Both mutators call broadcastServiceUpdate under the registry lock, and *)
(* cluster.Broadcast panics at memberlist's SendBestEffort(nil, ...)       *)
(* (cluster.go:229).  The deferred Unlock runs and gin.Recovery turns the *)
(* panic into a 500: RegisterService has stored the endpoint by then;     *)
(* DeregisterService panics before its delete.  No service_update is ever *)
(* sent, so HandleServiceUpdate never runs and every agent's registry     *)
(* holds only what its own API registered.                                 *)
(*                                                                         *)
(* Time advances in ticks of one sweep period (10 s); an endpoint keeps    *)
(* the number of ticks since its LastSeen, capped at TTL + 1, "older than *)
(* 30 s".  One service key; its endpoints are pod endpoints.               *)
(*                                                                         *)
(* The example ServiceClient (examples/service-client.go) runs its main   *)
(* against the API of one agent, cnode: GET endpoints, GET addresses and  *)
(* ConnectToService, each a separate request that reads the registry      *)
(* under its RLock; the first error ends main.                            *)
(***************************************************************************)
EXTENDS Naturals

CONSTANTS
    Node,       \* agents
    Endpoint,   \* endpoint IDs of one service (namespace-service-podID)
    TTL         \* 30 s freshness window, in ticks

VARIABLES
    reg,        \* reg[n]: endpoints in n's registry, each [age, healthy]
    live,       \* history: the latest API call on the endpoint registered it
    registrar,  \* history: agent whose API made that call
    deregAge,   \* history: ticks since the latest DeregisterService call
    cnode,      \* the agent the client calls at localhost:8080
    cpc,        \* the client's next request: "endpoints", "addresses",
                \* "connect", or "done"
    dialed      \* endpoints ConnectToService dialed: {} or {addresses[0]}

vars == <<reg, live, registrar, deregAge, cnode, cpc, dialed>>

client == <<cnode, cpc, dialed>>

Age == 0..TTL + 1

Entry == [age : Age, healthy : BOOLEAN]

Has(n, e) == e \in DOMAIN reg[n]

\* reg[n] with endpoint e set to x (added if absent).
Put(r, e, x) == [d \in DOMAIN r \cup {e} |-> IF d = e THEN x ELSE r[d]]

Cap(x) == IF x > TTL THEN TTL + 1 ELSE x

\* Ticks after a deregistration that a stale endpoint may still be returned:
\* the failed deregister deletes nothing, and the endpoint, stamped at its
\* registration before the deregister, is fresh for fewer than TTL ticks.
PhantomWindow == TTL

\* A reader that trusts the Healthy flag alone.
ResolvableHealthyOnly(n, e) == Has(n, e) /\ reg[n][e].healthy

\* The reader filter of GetServiceAddresses and GetServiceEndpoints:
\* endpoint.Healthy && time.Since(LastSeen) < 30 s.
Resolvable(n, e) == Has(n, e) /\ reg[n][e].healthy /\ reg[n][e].age < TTL

Init ==
    /\ reg = [n \in Node |-> [d \in {} |-> [age |-> 0, healthy |-> TRUE]]]
    /\ live = [e \in Endpoint |-> FALSE]
    /\ registrar = [e \in Endpoint |-> CHOOSE n \in Node : TRUE]
    /\ deregAge = [e \in Endpoint |-> PhantomWindow]
    /\ cnode \in Node
    /\ cpc = "endpoints"
    /\ dialed = {}

\* RegisterService: under the registry lock, store the endpoint Healthy with
\* LastSeen = now; then broadcastServiceUpdate panics and the API answers
\* 500.  The stored endpoint stays.
RegisterService(n, e) ==
    /\ reg' = [reg EXCEPT ![n] = Put(@, e, [age |-> 0, healthy |-> TRUE])]
    /\ live' = [live EXCEPT ![e] = TRUE]
    /\ registrar' = [registrar EXCEPT ![e] = n]
    /\ UNCHANGED <<deregAge, client>>

\* DeregisterService: an endpoint absent from n's registry is a no-op; a
\* present one is broadcast first, which panics before the delete.  Either
\* way n's registry is unchanged; only the call is recorded.
DeregisterService(n, e) ==
    /\ live' = [live EXCEPT ![e] = FALSE]
    /\ deregAge' = [deregAge EXCEPT ![e] = 0]
    /\ UNCHANGED <<reg, registrar, client>>

\* healthCheck: under the lock, mark every endpoint not seen for more than
\* 30 s unhealthy.  Nothing is removed and nothing becomes healthy again.
HealthCheck(n) ==
    /\ reg' = [reg EXCEPT ![n] = [e \in DOMAIN @ |->
                  IF @[e].age > TTL THEN [@[e] EXCEPT !.healthy = FALSE] ELSE @[e]]]
    /\ UNCHANGED <<live, registrar, deregAge, client>>

Tick ==
    /\ reg' = [n \in Node |-> [e \in DOMAIN reg[n] |->
                  [reg[n][e] EXCEPT !.age = Cap(@ + 1)]]]
    /\ deregAge' = [e \in Endpoint |-> IF deregAge[e] < PhantomWindow THEN deregAge[e] + 1 ELSE deregAge[e]]
    /\ UNCHANGED <<live, registrar, client>>

\* The endpoints the readers of agent n return: the entries of the
\* service key that are Healthy and younger than 30 s.
Fresh(n) == {e \in DOMAIN reg[n] : Resolvable(n, e)}

\* Client example 1: GetServiceEndpoints.  The route answers 404 when n has
\* no entry for the service key, which ends main; else 200 with the fresh
\* endpoints, possibly none.
ClientGetEndpoints ==
    /\ cpc = "endpoints"
    /\ cpc' = IF DOMAIN reg[cnode] = {} THEN "done" ELSE "addresses"
    /\ UNCHANGED <<reg, live, registrar, deregAge, cnode, dialed>>

\* Client example 2: GetServiceAddresses.  Discovery returns an error, and
\* the route 404, when the key is absent or no endpoint is fresh.
ClientGetAddresses ==
    /\ cpc = "addresses"
    /\ cpc' = IF Fresh(cnode) = {} THEN "done" ELSE "connect"
    /\ UNCHANGED <<reg, live, registrar, deregAge, cnode, dialed>>

\* Client example 3: ConnectToService asks for the addresses again and
\* dials addresses[0]; the inner endpoint map is ranged in Go's random
\* order, so that is any fresh endpoint.  No fresh one is an error.
ConnectToService ==
    /\ cpc = "connect"
    /\ cpc' = "done"
    /\ \/ Fresh(cnode) = {} /\ UNCHANGED dialed
       \/ \E e \in Fresh(cnode) : dialed' = {e}
    /\ UNCHANGED <<reg, live, registrar, deregAge, cnode>>

Next ==
    \/ \E n \in Node, e \in Endpoint : RegisterService(n, e) \/ DeregisterService(n, e)
    \/ \E n \in Node : HealthCheck(n)
    \/ Tick
    \/ ClientGetEndpoints \/ ClientGetAddresses \/ ConnectToService

Spec == Init /\ [][Next]_vars

(***************************************************************************)
(* Properties.                                                             *)
(***************************************************************************)
TypeOK ==
    /\ \A n \in Node : DOMAIN reg[n] \subseteq Endpoint
                       /\ \A e \in DOMAIN reg[n] : reg[n][e] \in Entry
    /\ live \in [Endpoint -> BOOLEAN]
    /\ registrar \in [Endpoint -> Node]
    /\ deregAge \in [Endpoint -> 0..PhantomWindow]
    /\ cnode \in Node
    /\ cpc \in {"endpoints", "addresses", "connect", "done"}
    /\ dialed \subseteq Endpoint

(* Stale endpoints are bounded in time: DeregisterService deletes nothing *)
(* (it panics first), so a deregistered endpoint stays in the registry of *)
(* every agent that registered it, but once PhantomWindow ticks have      *)
(* passed since the call, the 30 s freshness filter of the readers hides *)
(* it on every agent, whatever the sweeps did.                             *)
PhantomBounded ==
    \A n \in Node, e \in Endpoint :
        Resolvable(n, e) => live[e] \/ deregAge[e] < PhantomWindow

(* An endpoint stays resolvable while it is registered: the agent whose   *)
(* API registered it keeps returning it from GetServiceAddresses until a  *)
(* DeregisterService (spec 4.2: local endpoints remain fresh through the  *)
(* periodic rebroadcast).                                                  *)
RegisteredStaysResolvable ==
    \A e \in Endpoint : live[e] => Resolvable(registrar[e], e)
====
