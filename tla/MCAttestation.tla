--------------------------- MODULE MCAttestation ---------------------------
(* Two executors, so that a task can land on the one that holds no session *)
(* or the session of an earlier attempt; the one or two partitions are     *)
(* given by the configurations.                                            *)
EXTENDS Attestation

MCExecutors == {"e1", "e2"}
=============================================================================
