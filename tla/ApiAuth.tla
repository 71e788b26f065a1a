-------------------------------- MODULE ApiAuth --------------------------------
(***************************************************************************)
(* API authentication of the agents: the APITokenManager of each agent   *)
(* (internal/security, unnamed/part_009), the AuthMiddleware that gin     *)
(* runs before every route (internal/api/middleware.go, SetupRoutes), the *)
(* token handlers GenerateAPIToken, ListAPITokens and RevokeAPIToken     *)
(* (internal/api/recovery.go) and the start-up token of main.go.         *)
(*                                                                         *)
(* Each agent has its own manager, in memory only: a crash loses its     *)
(* tokens, and main generates a fresh "default" token on every start.    *)
(* Every manager method runs under tm.mu, so each is one step.  Token     *)
(* values are the model values of Tok; crypto/rand never repeats one.    *)
(* Clients hold the tokens printed in the log or returned with 201, and  *)
(* the value of --api-token; they send them as "Bearer <t>", as the raw  *)
(* header, or as "bearer <t>".  Time is in seconds.  The middleware's    *)
(* decision is the operator Admit; a 401, ListAPITokens and the other    *)
(* read-only routes change no state and are not steps of their own.      *)
(***************************************************************************)
EXTENDS Naturals

CONSTANTS
    Node,           \* agents
    Tok,            \* token values crypto/rand may produce
    Forged,         \* a header value that no manager issued
    Configured,     \* the value given with --api-token
    ExpiresIn,      \* expires_in values a POST /tokens may carry
    MaxTime,        \* bound of the clock
    AuthEnabled,    \* --enable-api-auth
    APIToken,       \* TRUE when --api-token is set
    Missing,        \* no Authorization header
    None

VARIABLES
    up,         \* the agent process runs
    tokens,     \* tm.tokens of each agent: a set of [tok, exp] records
    now,        \* time.Now(), in seconds
    used,       \* token values crypto/rand has produced
    known,      \* token values the clients hold
    issued      \* history: [tok, exp] issued by the agent since it started
                \* and not revoked

vars == <<up, tokens, now, used, known, issued>>

Schemes == {"Bearer ", "bearer ", ""}

Headers == {Missing} \cup [scheme : Schemes, val : known \cup {Forged}]

\* AuthMiddleware: strip the "Bearer " prefix, else take the whole header.
Token(h) ==
    IF h = Missing THEN Missing
    ELSE IF h.scheme \in {"Bearer ", ""} THEN h.val ELSE <<h.scheme, h.val>>

\* time.Now().After(exp) for a token with an expiry.
Expired(r) == r.exp # None /\ now > r.exp

\* A ValidateToken that only looks the token up.
ValidateTokenNoExpiry(n, t) == \E r \in tokens[n] : r.tok = t

\* tm.ValidateToken under tm.mu.RLock.
ValidateToken(n, t) == \E r \in tokens[n] : r.tok = t /\ ~Expired(r)

\* AuthMiddleware for a route other than /api/v1/health.
Admit(n, h) == ~AuthEnabled \/ (h # Missing /\ ValidateToken(n, Token(h)))

Fresh == Tok \ used

\* All agents before main runs.
Init ==
    /\ up = [n \in Node |-> FALSE]
    /\ tokens = [n \in Node |-> {}]
    /\ now = 0
    /\ used = {}
    /\ known = {}
    /\ issued = [n \in Node |-> {}]

\* main: NewAPITokenManager and StartCleanupRoutine; with --api-token set,
\* GenerateToken("default", nil) and the configured value is dropped;
\* else with auth enabled GenerateToken("default", nil) and log the token.
Start(n) ==
    /\ ~up[n]
    /\ up' = [up EXCEPT ![n] = TRUE]
    /\ IF APIToken \/ AuthEnabled
          THEN \E t \in Fresh :
                  LET d == [tok |-> t, exp |-> None] IN
                  /\ tokens' = [tokens EXCEPT ![n] = {d}]
                  /\ issued' = [issued EXCEPT ![n] = {d}]
                  /\ used' = used \cup {t}
                  /\ known' = known \cup (IF APIToken THEN {Configured} ELSE {t})
          ELSE /\ tokens' = [tokens EXCEPT ![n] = {}]
               /\ issued' = [issued EXCEPT ![n] = {}]
               /\ UNCHANGED <<used, known>>
    /\ UNCHANGED now

\* The agent process dies; its tokens live only in memory.
Crash(n) ==
    /\ up[n]
    /\ Fresh # {}       \* bound: a fresh token remains for its restart
    /\ up' = [up EXCEPT ![n] = FALSE]
    /\ tokens' = [tokens EXCEPT ![n] = {}]
    /\ issued' = [issued EXCEPT ![n] = {}]
    /\ UNCHANGED <<now, used, known>>

\* A handler that tests req.ExpiresIn >= 0.
GenerateAPITokenAtZero(n, h, e) ==
    /\ up[n] /\ Admit(n, h)
    /\ \E t \in Fresh :
          LET r == [tok |-> t, exp |-> IF e >= 0 THEN now + e ELSE None] IN
          /\ tokens' = [tokens EXCEPT ![n] = @ \cup {r}]
          /\ issued' = [issued EXCEPT ![n] = @ \cup {r}]
          /\ used' = used \cup {t}
          /\ known' = known \cup {t}
    /\ UNCHANGED <<up, now>>

\* POST /api/v1/tokens past the middleware with a name (an empty one is a
\* 400 that changes nothing): expires_in > 0 gives now + expires_in,
\* GenerateToken stores the token and the handler returns it with 201.
GenerateAPIToken(n, h, e) ==
    /\ up[n] /\ Admit(n, h)
    /\ \E t \in Fresh :
          LET r == [tok |-> t, exp |-> IF e > 0 THEN now + e ELSE None] IN
          /\ tokens' = [tokens EXCEPT ![n] = @ \cup {r}]
          /\ issued' = [issued EXCEPT ![n] = @ \cup {r}]
          /\ used' = used \cup {t}
          /\ known' = known \cup {t}
    /\ UNCHANGED <<up, now>>

\* DELETE /api/v1/tokens/:token past the middleware: RevokeToken deletes
\* the token from tm.hashes and tm.tokens (200), or fails with 404.
RevokeAPIToken(n, h, v) ==
    /\ up[n] /\ Admit(n, h)
    /\ LET gone == {r \in tokens[n] : r.tok = v} IN
       /\ tokens' = [tokens EXCEPT ![n] = @ \ gone]
       /\ issued' = [issued EXCEPT ![n] = {r \in @ : r.tok # v}]
    /\ UNCHANGED <<up, now, used, known>>

\* The hourly ticker of StartCleanupRoutine: CleanupExpiredTokens.
CleanupExpiredTokens(n) ==
    /\ up[n]
    /\ tokens' = [tokens EXCEPT ![n] = {r \in @ : ~Expired(r)}]
    /\ UNCHANGED <<up, now, used, known, issued>>

\* One second passes.
Tick ==
    /\ now < MaxTime
    /\ now' = now + 1
    /\ UNCHANGED <<up, tokens, used, known, issued>>

Next ==
    \/ Tick
    \/ \E n \in Node :
          \/ Start(n) \/ Crash(n) \/ CleanupExpiredTokens(n)
          \/ \E h \in Headers :
                \/ \E e \in ExpiresIn : GenerateAPIToken(n, h, e)
                \/ \E v \in known \cup {Forged} : RevokeAPIToken(n, h, v)

Spec == Init /\ [][Next]_vars

(***************************************************************************)
(* Properties.                                                             *)
(***************************************************************************)
TypeOK ==
    /\ up \in [Node -> BOOLEAN]
    /\ now \in 0 .. MaxTime
    /\ used \subseteq Tok
    /\ tokens \in [Node -> SUBSET [tok : used, exp : (Nat \ {0}) \cup {None}]]
    /\ known \subseteq used \cup {Configured}

\* A token that agent n issued since it last started, has not revoked,
\* and whose expiry has not passed.
Live(n, t) == \E r \in issued[n] : r.tok = t /\ ~Expired(r)

(* Authentication decides by the token's history (spec: "a caller        *)
(* identity is either valid or rejected"): with auth enabled, a request   *)
(* to a route other than health passes AuthMiddleware exactly when its    *)
(* token is live at that agent: issued by it since its last start, not    *)
(* revoked, not expired.  A revoked, expired, cleaned-up, other agent's   *)
(* or pre-restart token is refused; a live one is never refused.          *)
AdmitsExactlyLive ==
    AuthEnabled =>
       \A n \in Node : \A h \in Headers :
          up[n] => (Admit(n, h) <=> Live(n, Token(h)))
====
