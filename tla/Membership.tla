------------------------------ MODULE Membership ------------------------------
(***************************************************************************)
(* Agent start-up as far as the cluster (cmd/agent/main.go), the join-    *)
(* token manager (unnamed/part_010), payload encryption (NewEncryptor,    *)
(* unnamed/part_009) and the memberlist delegate of internal/cluster.      *)
(*                                                                         *)
(* A byte string is a string of the MC module: a configured key, a token  *)
(* (its URL-safe base64 text), or Zero32, the 32 zero bytes of            *)
(* make([]byte, 32).  NewEncryptor keeps a 32-byte key and hashes any     *)
(* other with SHA-256, taken as injective.  AES-GCM is modelled by what   *)
(* matters to the receiver: Decrypt succeeds iff both ends hold the same  *)
(* key.  Memberlist itself is a black box: a join merges the seed's view  *)
(* and announces the joiner, a failed member is eventually reported by    *)
(* NotifyLeave.  No payload frame is modelled: Cluster.Broadcast panics at *)
(* SendBestEffort(nil, ...) (cluster.go:229) before encrypting anything   *)
(* it could send, so the key an agent holds matters only for what it      *)
(* would take to exchange payloads.                                        *)
(***************************************************************************)
EXTENDS FiniteSets

CONSTANTS
    Node,       \* agents
    Configs,    \* command lines an operator may start an agent with
    GenTok,     \* tokens GenerateToken may return (bounds the restarts)
    Forged,     \* join tokens no agent issued
    Base64,     \* tokens base64.URLEncoding.DecodeString accepts
    Raw32,      \* byte strings of length 32
    Zero32,
    None

VARIABLES
    phase,      \* "down", "cluster" (NewCluster returned) or "ready" (handler set)
    cfg,        \* cfg[n]: the config of n's running process
    encKey,     \* encKey[n]: cluster.encryptor.key
    keyFile,    \* keyFile[n]: DataDir/encryption.key, None or its bytes
    tokens,     \* tokens[n]: keys of n's TokenManager.tokens
    issued,     \* history: every join token an agent printed
    members     \* members[n]: memberlist view of n

vars == <<phase, cfg, encKey, keyFile, tokens, issued, members>>

Up == {n \in Node : phase[n] # "down"}

\* NewEncryptor: a key that is not 32 bytes long is hashed to 32 bytes.
NewEncryptor(b) == IF b \in Raw32 THEN <<"raw", b>> ELSE <<"sha256", b>>

\* TokenManager.ValidateToken with the manager's token set T: a token of
\* the map (GenerateToken never sets ExpiresAt); else, when it decodes, a
\* stored hash of secret+bytes (only a token of the map has one) or an
\* empty map (first-node bootstrap).
ValidateToken(T, tok) == tok \in T \/ (tok \in Base64 /\ T = {})

\* main: the encryption key.  A configured key; else, when joining with a
\* token, the token's bytes; else the key file if it exists, or the
\* generated key, make([]byte, 32), which is written to the file.
KeyBytes(n, c) ==
    IF c.key # "" THEN c.key
    ELSE IF c.seeds # {} /\ c.token # "" THEN c.token
    ELSE IF keyFile[n] # None THEN keyFile[n]
    ELSE Zero32

\* main: a first node (no seeds, no join token) generates a join token.
IsFirstNode(c) == c.seeds = {} /\ c.token = ""

WritesKeyFile(n, c) ==
    c.key = "" /\ ~(c.seeds # {} /\ c.token # "") /\ keyFile[n] = None

Init ==
    /\ phase = [n \in Node |-> "down"]
    /\ cfg = [n \in Node |-> None]
    /\ encKey = [n \in Node |-> None]
    /\ keyFile = [n \in Node |-> None]
    /\ tokens = [n \in Node |-> {}]
    /\ issued = {}
    /\ members = [n \in Node |-> {}]

(***************************************************************************)
(* main up to NewCluster: NewTokenManager, GenerateToken on a first node  *)
(* started without seeds or token, the encryption key, then NewCluster:   *)
(* with seeds, ValidateToken(JoinToken) (Fatalf on false, after the key   *)
(* file was written), list.Join (a warning when no seed answers).         *)
(***************************************************************************)
Start(n, c) ==
    /\ phase[n] = "down" /\ n \notin c.seeds
    /\ c.token \in issued \cup Forged \cup {""}
    /\ LET gen == IsFirstNode(c) IN
       \E t \in IF gen THEN GenTok \ issued ELSE {None} :
       \E T \in {IF gen THEN {t} ELSE {}} :
       \E seeds \in {{s \in c.seeds : phase[s] # "down"}} :
       \E view \in {IF seeds = {} THEN {n}
                    ELSE {n} \cup UNION {members[s] : s \in seeds}} :
          /\ keyFile' = IF WritesKeyFile(n, c)
                           THEN [keyFile EXCEPT ![n] = Zero32] ELSE keyFile
          /\ issued' = IF gen THEN issued \cup {t} ELSE issued
          /\ IF c.seeds = {} \/ c.token = "" \/ ValidateToken(T, c.token)
                THEN /\ phase' = [phase EXCEPT ![n] = "cluster"]
                     /\ cfg' = [cfg EXCEPT ![n] = c]
                     /\ encKey' = [encKey EXCEPT ![n] = NewEncryptor(KeyBytes(n, c))]
                     /\ tokens' = [tokens EXCEPT ![n] = T]
                     /\ members' = [m \in Node |->
                                      IF m = n THEN view
                                      ELSE IF m \in view THEN members[m] \cup {n}
                                      ELSE members[m]]
                ELSE UNCHANGED <<phase, cfg, encKey, tokens, members>>

\* clusterInstance.SetMessageHandler (main.go:137), after storage and
\* discovery are built.
SetMessageHandler(n) ==
    /\ phase[n] = "cluster"
    /\ phase' = [phase EXCEPT ![n] = "ready"]
    /\ UNCHANGED <<cfg, encKey, keyFile, tokens, issued, members>>

\* The process dies; the key file survives, the token map does not.
Crash(n) ==
    /\ phase[n] # "down"
    /\ phase' = [phase EXCEPT ![n] = "down"]
    /\ tokens' = [tokens EXCEPT ![n] = {}]
    /\ members' = [members EXCEPT ![n] = {}]
    /\ UNCHANGED <<cfg, encKey, keyFile, issued>>

\* delegate.NotifyLeave once memberlist declares a dead member failed.
NotifyLeave(n, m) ==
    /\ phase[n] # "down" /\ m \in members[n] /\ phase[m] = "down"
    /\ members' = [members EXCEPT ![n] = @ \ {m}]
    /\ UNCHANGED <<phase, cfg, encKey, keyFile, tokens, issued>>

Next ==
    \/ \E n \in Node, c \in Configs : Start(n, c)
    \/ \E n \in Node : SetMessageHandler(n) \/ Crash(n)
    \/ \E n, m \in Node : NotifyLeave(n, m)

Spec == Init /\ [][Next]_vars
(***************************************************************************)
(* Properties.                                                             *)
(***************************************************************************)
TypeOK ==
    /\ phase \in [Node -> {"down", "cluster", "ready"}]
    /\ \A n \in Up : cfg[n] \in Configs /\ n \in members[n] /\ members[n] \subseteq Node
    /\ issued \subseteq GenTok
    /\ \A n \in Node : tokens[n] \subseteq issued

(* Two members started with the same --encryption-key setting, or both   *)
(* none, hold the same payload key, so each can open what the other      *)
(* encrypts (spec 4.1, Encryption, and Scenario 1).  main picks the key   *)
(* from the flag, the join token or the key file (main.go:66-90).         *)
MembersShareKey ==
    \A n \in Up, m \in Up :
        (m \in members[n] /\ cfg[n].key = cfg[m].key) => encKey[n] = encKey[m]

(* A joiner enters the member list only with a token the cluster         *)
(* recognises (spec 4.1, Join authorization): when NewCluster's          *)
(* list.Join merges a joiner with running members, one of them holds     *)
(* the token it presented.                                               *)
JoinAdmitsOnlyKnownTokens ==
    [][\A n \in Node :
         (phase[n] = "down" /\ phase'[n] = "cluster" /\ members'[n] # {n})
            => cfg'[n].token \in UNION {tokens[m] : m \in members'[n] \ {n}}]_vars
====
