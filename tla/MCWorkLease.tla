---------------------------- MODULE MCWorkLease ----------------------------
(* Two activations that contend for one conversation.  Safety and liveness  *)
(* are checked together, so no symmetry is used.                            *)
EXTENDS WorkLease
============================================================================
