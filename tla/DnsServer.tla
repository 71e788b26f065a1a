------------------------------ MODULE DnsServer ------------------------------
(***************************************************************************)
(* The DNS server of one agent (unnamed/part_006): miekg/dns goroutines   *)
(* running handleDNS, each query on its own goroutine, beside the API      *)
(* handlers that change the whitelist (module DnsWhitelist).  A cluster   *)
(* name is answered locally; any other name goes through forwardQuery:     *)
(* the whitelist check, the upstreams in order, the CNAME check of a       *)
(* successful response, and SERVFAIL when no upstream gave a usable one.  *)
(* Each isWhitelistEnabled / isHostAllowed call takes s.mu.RLock on its    *)
(* own, so the whitelist may change between the checks of one query.      *)
(* An upstream exchange (UDP, then TCP on error) either fails, answers    *)
(* with a non-success RCODE, or succeeds with some CNAME targets.          *)
(***************************************************************************)
EXTENDS DnsWhitelist, DnsNames, Naturals

CONSTANTS
    Query,          \* goroutines of the DNS listeners
    QName,          \* question names queries carry
    Target,         \* CNAME targets an upstream may return
    NumUpstream,    \* len(s.upstreamDNS)
    CheckedName,    \* names on which isHostAllowed is compared with the spec
    QType,          \* question types: "A", "SRV" and any other
    Endpoints       \* GetServiceEndpoints: <<service, namespace>> -> addresses

VARIABLES
    qpc,        \* qpc[q]: where query goroutine q is in handleDNS
    qname,      \* qname[q]: r.Question[0].Name
    up,         \* up[q]: index of the upstream being tried
    cnames,     \* cnames[q]: CNAME targets of the successful response
    reply,      \* reply[q]: what q wrote last
    answer      \* answer[q]: type and records of q's last cluster reply

qvars == <<qpc, qname, up, cnames, reply, answer>>

svars == <<vars, qvars>>

Reply == {"none", "cluster", "refused", "answer", "servfail"}

\* handleAQuery: one A record per endpoint of the parsed service; no
\* record when the name does not parse or the service is unknown.
HandleAQuery(n) ==
    LET p == ParseServiceName(n) IN
    IF p.ok /\ <<p.service, p.namespace>> \in DOMAIN Endpoints
       THEN {<<"A", a>> : a \in Endpoints[<<p.service, p.namespace>>]}
       ELSE {}

\* handleSRVQuery: one SRV record per endpoint (priorities in DnsNames'
\* SrvPriorities, over Go's random map order) and a glue A record.
HandleSRVQuery(n) ==
    LET p == ParseSRVName(n) IN
    IF p.ok /\ <<p.service, p.namespace>> \in DOMAIN Endpoints
       THEN UNION {{<<"SRV", a>>, <<"A", a>>} : a \in Endpoints[<<p.service, p.namespace>>]}
       ELSE {}

\* emptyAnswer: the "0.0.0.0" stub for AAAA and other types.
EmptyAnswer == {<<"A", "0.0.0.0">>}

\* handleClusterQuery: the answer by question type.
ClusterAnswer(n, t) ==
    [qtype |-> t,
     rr |-> CASE t = "A" -> HandleAQuery(n)
              [] t = "SRV" -> HandleSRVQuery(n)
              [] OTHER -> EmptyAnswer]

\* w.WriteMsg(...) and the goroutine returns.
Write(q, kind) ==
    /\ reply' = [reply EXCEPT ![q] = kind]
    /\ qpc' = [qpc EXCEPT ![q] = "idle"]

\* Go on with the next upstream (continue).
NextUpstream(q) ==
    /\ up' = [up EXCEPT ![q] = @ + 1]
    /\ qpc' = [qpc EXCEPT ![q] = "upstream"]

ServerInit ==
    /\ Init
    /\ qpc = [q \in Query |-> "idle"]
    /\ qname = [q \in Query |-> CHOOSE n \in QName : TRUE]
    /\ up = [q \in Query |-> 1]
    /\ cnames = [q \in Query |-> {}]
    /\ reply = [q \in Query |-> "none"]
    /\ answer = [q \in Query |-> [qtype |-> "none", rr |-> {}]]

\* An API handler step of DnsWhitelist; the queries stand still.
WhitelistStep == Next /\ UNCHANGED qvars

\* handleDNS: a cluster name is answered by handleClusterQuery; others
\* go to forwardQuery.
HandleDNS(q, n, t) ==
    /\ qpc[q] = "idle"
    /\ qname' = [qname EXCEPT ![q] = n]
    /\ IF IsClusterDomainQuery(n)
          THEN /\ Write(q, "cluster")
               /\ answer' = [answer EXCEPT ![q] = ClusterAnswer(n, t)]
          ELSE /\ qpc' = [qpc EXCEPT ![q] = "enabled"]
               /\ UNCHANGED <<reply, answer>>
    /\ UNCHANGED <<up, cnames, vars>>

\* forwardQuery: if s.isWhitelistEnabled() { ... } (one RLock).
CheckEnabled(q) ==
    /\ qpc[q] = "enabled"
    /\ qpc' = [qpc EXCEPT ![q] = IF enabled THEN "allowed" ELSE "upstream"]
    /\ up' = [up EXCEPT ![q] = 1]
    /\ UNCHANGED <<qname, cnames, reply, answer, vars>>

\* ... if !s.isHostAllowed(queryName): REFUSED (a second RLock).
CheckAllowed(q) ==
    /\ qpc[q] = "allowed"
    /\ IF IsHostAllowed(qname[q], enabled, hosts)
          THEN qpc' = [qpc EXCEPT ![q] = "upstream"] /\ UNCHANGED reply
          ELSE Write(q, "refused")
    /\ UNCHANGED <<qname, up, cnames, answer, vars>>

\* An upstream loop that does not stop after the last upstream.
ExchangeUnbounded(q) ==
    /\ qpc[q] = "upstream"
    /\ \/ NextUpstream(q) /\ UNCHANGED cnames
       \/ \E t \in SUBSET Target :
             /\ cnames' = [cnames EXCEPT ![q] = t]
             /\ qpc' = [qpc EXCEPT ![q] = "cname"]
             /\ UNCHANGED up
    /\ UNCHANGED <<qname, reply, answer, vars>>

\* client.Exchange with upstream up[q]: an error on UDP and TCP or a
\* non-success RCODE tries the next one; RcodeSuccess goes to the CNAME check.
Exchange(q) ==
    /\ qpc[q] = "upstream" /\ up[q] <= NumUpstream
    /\ \/ NextUpstream(q) /\ UNCHANGED cnames
       \/ \E t \in SUBSET Target :
             /\ cnames' = [cnames EXCEPT ![q] = t]
             /\ qpc' = [qpc EXCEPT ![q] = "cname"]
             /\ UNCHANGED up
    /\ UNCHANGED <<qname, reply, answer, vars>>

\* All upstreams tried: SERVFAIL.
ServFail(q) ==
    /\ qpc[q] = "upstream" /\ up[q] > NumUpstream
    /\ Write(q, "servfail")
    /\ UNCHANGED <<qname, up, cnames, answer, vars>>

\* if s.isWhitelistEnabled() { validateCNAMERecords } else WriteMsg(resp).
CheckCnameEnabled(q) ==
    /\ qpc[q] = "cname"
    /\ IF enabled THEN qpc' = [qpc EXCEPT ![q] = "validate"] /\ UNCHANGED reply
                  ELSE Write(q, "answer")
    /\ UNCHANGED <<qname, up, cnames, answer, vars>>

\* A CNAME check that retries the same upstream instead of the next.
ValidateCNAMERecordsSameUpstream(q) ==
    /\ qpc[q] = "validate"
    /\ IF \A t \in cnames[q] : IsHostAllowed(t, enabled, hosts)
          THEN Write(q, "answer") /\ UNCHANGED up
          ELSE qpc' = [qpc EXCEPT ![q] = "upstream"] /\ UNCHANGED <<up, reply>>
    /\ UNCHANGED <<qname, cnames, answer, vars>>

\* validateCNAMERecords: every CNAME target of Answer and Extra must pass
\* isHostAllowed; otherwise this upstream counts as failed (continue).
ValidateCNAMERecords(q) ==
    /\ qpc[q] = "validate"
    /\ IF \A t \in cnames[q] : IsHostAllowed(t, enabled, hosts)
          THEN Write(q, "answer") /\ UNCHANGED up
          ELSE NextUpstream(q) /\ UNCHANGED reply
    /\ UNCHANGED <<qname, cnames, answer, vars>>

Forward(q) ==
    \/ CheckEnabled(q) \/ CheckAllowed(q) \/ Exchange(q) \/ ServFail(q)
    \/ CheckCnameEnabled(q) \/ ValidateCNAMERecords(q)

ServerNext ==
    \/ WhitelistStep
    \/ \E q \in Query : \/ \E n \in QName, t \in QType : HandleDNS(q, n, t)
                        \/ Forward(q)

\* Every runnable query goroutine is eventually scheduled.
ServerSpec == ServerInit /\ [][ServerNext]_svars /\ \A q \in Query : WF_svars(Forward(q))

(***************************************************************************)
(* Properties.                                                             *)
(***************************************************************************)
ServerTypeOK ==
    /\ TypeOK
    /\ qpc \in [Query -> {"idle", "enabled", "allowed", "upstream", "cname", "validate"}]
    /\ qname \in [Query -> QName]
    /\ up \in [Query -> 1..NumUpstream + 1]
    /\ \A q \in Query : cnames[q] \subseteq Target
    /\ reply \in [Query -> Reply]
    /\ \A q \in Query : answer[q].rr \subseteq {"SRV", "A"} \X (UNION Range(Endpoints) \cup {"0.0.0.0"})

(* isHostAllowed implements the whitelist semantics of spec 4.3 for every *)
(* whitelist the API handlers can build: a name is allowed iff the         *)
(* whitelist is disabled or some label suffix of the lowercased name,      *)
(* without its trailing dot, is a stored host (and the empty enabled       *)
(* whitelist blocks everything).                                           *)
HostAllowedMatchesSpec ==
    \A n \in CheckedName : IsHostAllowed(n, enabled, hosts) = SpecAllowed(n, enabled, hosts)

(* Every query handleDNS takes into forwardQuery gets a reply: the        *)
(* upstream loop ends with an answer, REFUSED or SERVFAIL whatever the    *)
(* upstreams return and however the whitelist changes meanwhile.          *)
QueryAnswered == \A q \in Query : qpc[q] # "idle" ~> qpc[q] = "idle"

(* A cluster A query returns exactly the addresses of the service and     *)
(* namespace its name denotes (spec 8 item 4), in the plain and the       *)
(* .svc form and in any letter case.  No run keeps it (README section 5). *)
ClusterAnswerMatchesSpec ==
    \A q \in Query : qpc[q] = "idle" /\ reply[q] = "cluster" /\ answer[q].qtype = "A" =>
        answer[q].rr = {<<"A", a>> : a \in UNION {Endpoints[k] :
                          k \in SpecServiceKeys(qname[q]) \cap DOMAIN Endpoints}}

(* handleSRVQuery gives k endpoints the priorities 10, 20, ..., 10k (spec *)
(* 4.3).  No run keeps it (README section 5).                            *)
SrvPrioritiesMatchSpec == \A k \in 0..3 : SrvPriorities(k) = SpecSrvPriorities(k)
====
