---------------------------- MODULE MCDnsWhitelist ----------------------------
(* Request hosts: two domains, and one of them spelled in upper case.      *)
EXTENDS DnsWhitelist

CONSTANTS g1, g2

MCHandler == {g1, g2}

LowerHost == {"a.com", "b.com"}

MixedHost == {"a.com", "A.com", "b.com"}

\* strings.ToLower(strings.TrimSuffix(h, ".")) on these strings.
MCNormalize == [h \in MixedHost |-> IF h = "A.com" THEN "a.com" ELSE h]
====
