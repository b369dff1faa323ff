--------------------------- MODULE MCLoginLimits ---------------------------
(***************************************************************************)
(* LoginLimits for TLC, with the requests of MCLoginService.  Sends come   *)
(* from any addresses, logins from one of these and with one code: whether *)
(* it is right depends on the row they find.                               *)
(***************************************************************************)
EXTENDS MCLoginService, LoginLimits

MCLimitedInit ==
    /\ MCInit /\ LimitedInit
    /\ \A r, q \in Logins : IP(r) = IP(q) /\ input[r].code = input[q].code
    /\ \A r \in Logins : \E q \in Sends : IP(r) = IP(q)

MCLimitedSpec == MCLimitedInit /\ [][LimitedNext]_limitedVars

=============================================================================
