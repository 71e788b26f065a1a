----------------------------- MODULE MCStoreLocks -----------------------------
(* One agent: the sync ticker and the recovery goroutine running          *)
(* SaveDeployment.                                                         *)
EXTENDS StoreLocks

CONSTANTS recover

MCWriter == {recover}
====
