----------------------------- MODULE MCPipeline -----------------------------
(***************************************************************************)
(* Pipeline for TLC: two origins, a success, a client and a server error.  *)
(***************************************************************************)
EXTENDS Pipeline

CONSTANTS o1, o2

MCOrigins == {o1, o2}

MCStatuses == {200, 429, 500}

=============================================================================
