--------------------------- MODULE MCRateLimiter ---------------------------
(***************************************************************************)
(* RateLimiter for TLC: a key with limit 2 and a window of 2 ticks, a key  *)
(* whose configured limit is 0 and whose window is 3 ticks, and a key with *)
(* a negative window, which lets every call pass.                          *)
(***************************************************************************)
EXTENDS RateLimiter

CONSTANT MaxFree        \* bound on the passes of the key that is not limited

MCKeys == {"login", "verify", "off"}
MCLimitOf == [k \in MCKeys |-> IF k = "login" THEN 2 ELSE 0]
MCWindowOf == [k \in MCKeys |-> CASE k = "login"  -> 2
                                  [] k = "verify" -> 3
                                  [] k = "off"    -> -1]

MCNext ==
    /\ Next
    /\ Len(cooled'["off"]) + Len(allowed'["off"]) <= MaxFree

MCSpec == Init /\ [][MCNext]_vars

=============================================================================
