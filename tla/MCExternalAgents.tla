------------------------- MODULE MCExternalAgents -------------------------
(***************************************************************************)
(* Instances of ExternalAgents for TLC: the ids are strings, because the   *)
(* id of maintenance and that of the query are.                            *)
(***************************************************************************)
EXTENDS ExternalAgents
===========================================================================
