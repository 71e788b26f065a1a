---------------------------- MODULE MCStorePersist ----------------------------
(* Model-checking instance of StorePersist: two keys, two versions.       *)
EXTENDS StorePersist

CONSTANTS k1, k2

MCKey == {k1, k2}
MCVer == {1, 2}
====
