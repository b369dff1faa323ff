---------------------------- MODULE MCLifecycle ----------------------------
(* Two runs over one database, two requests, a table and an index.          *)
EXTENDS Lifecycle

CONSTANTS p1, p2, r1, r2
MCRuns == {p1, p2}
MCRequests == {r1, r2}
MCSchema == {"user", "idx_user_phone_number"}

=============================================================================
