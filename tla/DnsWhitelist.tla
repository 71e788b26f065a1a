----------------------------- MODULE DnsWhitelist -----------------------------
(***************************************************************************)
(* The DNS whitelist of one agent (unnamed/part_006: SetWhitelist,         *)
(* GetWhitelist under s.mu) and the HTTP handlers that change it           *)
(* (internal/api/recovery.go: SetDNSWhitelist, AddDNSWhitelistHost,        *)
(* RemoveDNSWhitelistHost), run concurrently by gin.  Add and Remove read  *)
(* the whitelist with GetWhitelist and write it back with SetWhitelist;    *)
(* nothing is held in between.                                             *)
(*                                                                         *)
(* Hosts are raw request strings; Normalize is SetWhitelist's              *)
(* strings.ToLower(strings.TrimSuffix(host, ".")).  The map of SetWhitelist *)
(* holds each normalized host with and without the trailing dot, and       *)
(* GetWhitelist folds the two back: the model keeps the normalized set.    *)
(***************************************************************************)
EXTENDS FiniteSets, Sequences

CONSTANTS
    Handler,    \* gin goroutines serving whitelist requests
    RawHost,    \* non-empty host strings a request may carry
    Normalize   \* Normalize[h]: h lowercased, trailing dot removed

Host == {Normalize[h] : h \in RawHost}

\* Hosts read back by GetWhitelist can be sent again.
ASSUME Host \subseteq RawHost

VARIABLES
    enabled,    \* s.whitelist.Enabled
    hosts,      \* s.whitelist.Hosts, normalized
    pc,         \* pc[g]: "idle" or "got" (between GetWhitelist and SetWhitelist)
    req,        \* req[g]: the request g is serving
    snap,       \* snap[g]: what GetWhitelist returned to g
    intended    \* history: the whitelist that running the completed requests
                \* one after another, in completion order, would give

vars == <<enabled, hosts, pc, req, snap, intended>>

Request ==
    [op : {"add", "remove"}, host : RawHost] \cup [op : {"set"}, en : BOOLEAN, hosts : SUBSET RawHost]

NoRequest == [op |-> "none"]

\* SetWhitelist(enabled, hosts): replace both under s.mu.
SetWhitelist(en, hs) ==
    /\ enabled' = en
    /\ hosts' = {Normalize[h] : h \in hs}

\* The result the request should have, applied to whitelist w.
Apply(r, w) ==
    CASE r.op = "set"    -> [en |-> r.en, hosts |-> {Normalize[h] : h \in r.hosts}]
      [] r.op = "add"    -> [w EXCEPT !.hosts = @ \cup {Normalize[r.host]}]
      [] r.op = "remove" -> [w EXCEPT !.hosts = @ \ {Normalize[r.host]}]

Init ==
    /\ enabled = FALSE /\ hosts = {}
    /\ pc = [g \in Handler |-> "idle"]
    /\ req = [g \in Handler |-> NoRequest]
    /\ snap = [g \in Handler |-> [en |-> FALSE, hosts |-> {}]]
    /\ intended = [en |-> FALSE, hosts |-> {}]

\* SetDNSWhitelist: one SetWhitelist call.
SetDNSWhitelist(g, r) ==
    /\ pc[g] = "idle" /\ r.op = "set"
    /\ SetWhitelist(r.en, r.hosts)
    /\ intended' = Apply(r, intended)
    /\ UNCHANGED <<pc, req, snap>>

\* AddDNSWhitelistHost / RemoveDNSWhitelistHost, first half: GetWhitelist.
GetWhitelist(g, r) ==
    /\ pc[g] = "idle" /\ r.op \in {"add", "remove"}
    /\ pc' = [pc EXCEPT ![g] = "got"]
    /\ req' = [req EXCEPT ![g] = r]
    /\ snap' = [snap EXCEPT ![g] = [en |-> enabled, hosts |-> hosts]]
    /\ UNCHANGED <<enabled, hosts, intended>>

\* AddDNSWhitelistHost, second half: append req.Host unless found among the
\* returned hosts, then SetWhitelist(enabled, hosts) with the values read.
AddDNSWhitelistHost(g) ==
    /\ pc[g] = "got" /\ req[g].op = "add"
    /\ SetWhitelist(snap[g].en, snap[g].hosts \cup {req[g].host})
    /\ pc' = [pc EXCEPT ![g] = "idle"]
    /\ intended' = Apply(req[g], intended)
    /\ UNCHANGED <<req, snap>>

\* RemoveDNSWhitelistHost, second half: keep every returned host h with
\* h != host, comparing the raw path parameter, then SetWhitelist.
RemoveDNSWhitelistHost(g) ==
    /\ pc[g] = "got" /\ req[g].op = "remove"
    /\ SetWhitelist(snap[g].en, snap[g].hosts \ {req[g].host})
    /\ pc' = [pc EXCEPT ![g] = "idle"]
    /\ intended' = Apply(req[g], intended)
    /\ UNCHANGED <<req, snap>>

Next ==
    \E g \in Handler :
        \/ \E r \in Request : SetDNSWhitelist(g, r) \/ GetWhitelist(g, r)
        \/ AddDNSWhitelistHost(g)
        \/ RemoveDNSWhitelistHost(g)

Spec == Init /\ [][Next]_vars

TypeOK ==
    /\ enabled \in BOOLEAN /\ hosts \subseteq Host
    /\ pc \in [Handler -> {"idle", "got"}]
    /\ \A g \in Handler : pc[g] = "got" => req[g] \in Request
    /\ \A g \in Handler : snap[g].hosts \subseteq Host
    /\ intended.en \in BOOLEAN /\ intended.hosts \subseteq Host

(* The whitelist is what the completed API calls asked for: a host added  *)
(* is allowed, a host removed is refused, and enabled keeps the last      *)
(* SetDNSWhitelist value, as if the calls ran one at a time in the order  *)
(* they returned (spec 4.3, whitelist get/put/add/remove).                 *)
WhitelistMatchesCalls == enabled = intended.en /\ hosts = intended.hosts
====
