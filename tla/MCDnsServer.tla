----------------------------- MODULE MCDnsServer ------------------------------
(* Names are label sequences.  Whitelist hosts: a.com and com; CNAME      *)
(* target b.com; questions: an upper-case external name with a trailing   *)
(* dot, a subdomain, a cluster A name and a cluster SRV name.  The      *)
(* service web in default has two endpoint addresses.                    *)
EXTENDS DnsServer

CONSTANTS g1, q1

Label == {"", "a", "A", "b", "x", "com", "web", "default", "svc", "cluster", "local", "_http", "_tcp", "WEB"}

MCLower == [l \in Label |-> CASE l = "A" -> "a" [] l = "WEB" -> "web" [] OTHER -> l]

MCZone == <<"cluster", "local">>

WlHost == {<<"a", "com">>, <<"com">>}

\* strings.ToLower(strings.TrimSuffix(h, ".")) on the whitelist hosts.
WlNormalize == [h \in WlHost |-> Normal(h)]

MCUnderscored == {"_http", "_tcp"}

MCQType == {"A", "SRV", "AAAA"}

MCEndpoints == <<<<"web">>, "default">> :> {"10.0.1.1", "10.0.1.2"}

MCQName == {<<"A", "com", "">>, <<"x", "b", "com">>, <<"web", "default", "cluster", "local">>,
            <<"_http", "_tcp", "web", "default", "cluster", "local">>}

\* The other spellings of the cluster A name: the .svc form, upper case.
FormQName == {<<"web", "default", "svc", "cluster", "local">>,
              <<"WEB", "default", "cluster", "local", "">>}

MCTarget == {<<"b", "com">>}

\* Names of one or two labels from a, A, x, com, with and without the
\* trailing dot.
MCCheckedName ==
    LET base == UNION {[1..k -> {"a", "A", "x", "com"}] : k \in 1..2}
    IN base \cup {n \o <<"">> : n \in base}

MCHandler == {g1}

MCQuery == {q1}
====
