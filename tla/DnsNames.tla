------------------------------- MODULE DnsNames -------------------------------
(***************************************************************************)
(* The name handling of the DNS server (unnamed/part_006).  A DNS name is *)
(* the sequence of its labels, strings.Split(name, "."): the name "a.com." *)
(* is <<"a", "com", "">> and the empty name is <<"">>.  A string suffix   *)
(* "."+d is then a label suffix d with at least one label before it.      *)
(* Lower is strings.ToLower on single labels.                              *)
(***************************************************************************)
EXTENDS Sequences, SequencesExt

CONSTANTS
    Lower,      \* Lower[l]: the label l in lower case
    Zone,       \* s.clusterDomain as labels, <<"cluster", "local">>
    Underscored \* labels l with strings.HasPrefix(l, "_")

\* strings.TrimSuffix(name, "."): drops one trailing empty label.
TrimDot(n) == IF Len(n) > 1 /\ Last(n) = "" THEN Front(n) ELSE n

ToLower(n) == [i \in DOMAIN n |-> Lower[n[i]]]

\* strings.HasSuffix(n, "." + d).
HasDotSuffix(n, d) == Len(n) > Len(d) /\ IsSuffix(d, n)

\* strings.TrimSuffix(n, "." + d).
TrimDotSuffix(n, d) == IF HasDotSuffix(n, d) THEN SubSeq(n, 1, Len(n) - Len(d)) ELSE n

\* name + "."
WithDot(n) == n \o <<"">>

\* The lookup key after strings.ToLower(strings.TrimSuffix(name, ".")).
Normal(n) == ToLower(TrimDot(n))

\* isClusterDomainQuery for a one-question message.
IsClusterDomainQuery(n) ==
    LET m == Normal(n) IN HasDotSuffix(m, Zone) \/ m = Zone

\* The Hosts map that SetWhitelist builds from the normalized hosts H:
\* every host with and without its trailing dot.
HostsMap(H) == H \cup {WithDot(h) : h \in H}

\* isHostAllowed with a loop that stops one label early.
IsHostAllowedNoApex(n, en, H) ==
    \/ ~en
    \/ LET m == Normal(n) IN
          \/ m \in HostsMap(H) \/ WithDot(m) \in HostsMap(H)
          \/ \E i \in 1..Len(m) - 1 : SubSeq(m, i, Len(m)) \in HostsMap(H)
                                      \/ WithDot(SubSeq(m, i, Len(m))) \in HostsMap(H)

\* isHostAllowed: everything when disabled; else the normalized name, or
\* any of its label suffixes parts[i:], with or without the trailing dot.
IsHostAllowed(n, en, H) ==
    \/ ~en
    \/ LET m == Normal(n) IN
          \/ m \in HostsMap(H) \/ WithDot(m) \in HostsMap(H)
          \/ \E i \in 1..Len(m) : SubSeq(m, i, Len(m)) \in HostsMap(H)
                                  \/ WithDot(SubSeq(m, i, Len(m))) \in HostsMap(H)

\* parseServiceName: trim ".", then "."+zone, then ".svc."+zone; the last
\* label is the namespace, the labels before it the service name.
ParseServiceName(n) ==
    LET parts == TrimDotSuffix(TrimDotSuffix(TrimDot(n), Zone), <<"svc">> \o Zone)
    IN IF Len(parts) < 2 THEN [ok |-> FALSE]
       ELSE [ok |-> TRUE, service |-> Front(parts), namespace |-> Last(parts)]

\* parseSRVName: the same trims; at least four labels, the first two
\* starting with "_"; the labels between them and the last form the
\* service name.
ParseSRVName(n) ==
    LET parts == TrimDotSuffix(TrimDotSuffix(TrimDot(n), Zone), <<"svc">> \o Zone)
    IN IF Len(parts) < 4 \/ parts[1] \notin Underscored \/ parts[2] \notin Underscored
          THEN [ok |-> FALSE]
          ELSE [ok |-> TRUE, service |-> SubSeq(parts, 3, Len(parts) - 1),
                namespace |-> Last(parts)]

\* The priority loop of handleSRVQuery over k endpoints: priority starts
\* at 10 (uint16) and is raised by 10 after endpoint i only when i > 0.
RECURSIVE SrvLoop(_, _, _)
SrvLoop(i, k, prio) ==
    IF i = k THEN <<>>
    ELSE <<prio>> \o SrvLoop(i + 1, k, IF i > 0 THEN (prio + 10) % 65536 ELSE prio)

SrvPriorities(k) == SrvLoop(0, k, 10)

(***************************************************************************)
(* The spec's rules (spec 4.3), the references the code is checked        *)
(* against.                                                                *)
(***************************************************************************)

\* Whitelist semantics: disabled allows all; otherwise some label suffix of
\* the normalized name is a stored host.
SpecAllowed(n, en, H) == ~en \/ (Suffixes(Normal(n)) \ {<<>>}) \cap H # {}

\* Cluster A names: <service>.<namespace>.<zone> or
\* <service>.<namespace>.svc.<zone>, case-insensitive (spec 4.3); the
\* service/namespace pairs a name denotes.
SpecServiceKeys(n) ==
    LET m == Normal(n)
        forms == {Zone, <<"svc">> \o Zone}
    IN {<<SubSeq(m, 1, i - 1), m[i]>> :
          i \in {j \in 2..Len(m) : \E z \in forms : SubSeq(m, j + 1, Len(m)) = z}}

\* SRV priorities start at 10 and grow by 10 per further endpoint (4.3).
SpecSrvPriorities(k) == [i \in 1..k |-> 10 * i]
====
