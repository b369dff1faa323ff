---------------------------- MODULE LoginLimits ----------------------------
(***************************************************************************)
(* The login service on top of the rate limiter.  LoginService inlines the *)
(* decisions of MemoryLimiter and splits its two maps by key prefix; here  *)
(* the passes of its requests are recorded, and with them the service is   *)
(* shown to be a user of the limiter that RateLimiter models on its own.   *)
(***************************************************************************)
EXTENDS LoginService

VARIABLE passed         \* history: times at which each key was let pass

limitedVars == <<vars, passed>>

\* The keys the handlers build: a prefix, and whom it is about.
LimiterKeys ==
    ({"send:ip", "login:ip"} \X IPs)
        \cup ({"send:phone", "verify_fail:phone"} \X Phones)

\* The limiter has let a key pass if the handler of a request goes on.
Passes(k) ==
    \E r \in Requests :
        \/ k = <<"send:ip", IP(r)>>
           /\ pc[r] = "new" /\ pc'[r] = "cool_phone"
        \/ k = <<"send:phone", Phone(r)>>
           /\ pc[r] = "cool_phone" /\ pc'[r] = "make_code"
        \/ k = <<"login:ip", IP(r)>>
           /\ pc[r] = "new" /\ pc'[r] = "get_user"
        \/ k = <<"verify_fail:phone", Phone(r)>>
           /\ pc[r] = "verify_fail" /\ pc'[r] = "invalid_argument"

Record ==
    passed' = [k \in LimiterKeys |->
                 CASE restarts' # restarts -> <<>>
                   [] restarts' = restarts /\ Passes(k) ->
                         Append(passed[k], now)
                   [] OTHER -> passed[k]]

LimitedInit == Init /\ passed = [k \in LimiterKeys |-> <<>>]

LimitedNext == Next /\ Record

LimitedSpec == LimitedInit /\ [][LimitedNext]_limitedVars

-----------------------------------------------------------------------------
(* The limiter as the four kinds of keys show it, with the limits and the   *)
(* windows their callers pass.                                              *)
IsCooldown(k) == k[1] \in {"send:ip", "send:phone"}

LimiterWindow ==
    [k \in LimiterKeys |->
        CASE k[1] = "login:ip"            -> LoginIPRateWindow
          [] k[1] = "verify_fail:phone"   -> VerifyWindow
          [] OTHER                        -> SendCodeCooldown]

LimiterLimit ==
    [k \in LimiterKeys |->
        CASE k[1] = "login:ip"            -> LoginIPRateLimit
          [] k[1] = "verify_fail:phone"   -> MaxVerifyAttempts
          [] OTHER                        -> 0]

LimiterLast ==
    [k \in LimiterKeys |->
        CASE k[1] = "send:ip"             -> sendIP[k[2]]
          [] k[1] = "send:phone"          -> sendPhone[k[2]]
          [] OTHER                        -> Never]

LimiterCounters ==
    [k \in LimiterKeys |->
        CASE k[1] = "login:ip"            -> loginIP[k[2]]
          [] k[1] = "verify_fail:phone"   -> verifyFail[k[2]]
          [] OTHER                        -> NoCounter]

Cooled == [k \in LimiterKeys |-> IF IsCooldown(k) THEN passed[k] ELSE <<>>]
Allowed == [k \in LimiterKeys |-> IF IsCooldown(k) THEN <<>> ELSE passed[k]]

Limits == INSTANCE RateLimiter WITH
    Keys <- LimiterKeys, LimitOf <- LimiterLimit, WindowOf <- LimiterWindow,
    last <- LimiterLast, counters <- LimiterCounters,
    cooled <- Cooled, allowed <- Allowed

(* The handlers use the limiter as it is meant to be used: each step of a   *)
(* request, with everything that interrupts it, is one call of the limiter  *)
(* or none; a request goes on exactly when that call has let it; no key is  *)
(* ever touched by another's call, and only a restart empties the limiter   *)
(* (service.go:94, 150 and 244).                                            *)
KeepsLimiter == Limits!Spec

(* So what the limiter guarantees holds of the service as a whole: no       *)
(* interval of a window holds more sends, logins or counted failures than   *)
(* the limiter's bound, and a request that it would refuse now is one that  *)
(* passes of the trailing window have used the limit up for.  A send that   *)
(* the phone's cooldown refuses costs its address no more than a cooldown   *)
(* from that moment, and a refused one prolongs nothing (service.go:94).    *)
LimitsHold ==
    /\ Limits!CooldownSpacing
    /\ Limits!BurstBound
    /\ Limits!NoEarlyRefusal

=============================================================================
