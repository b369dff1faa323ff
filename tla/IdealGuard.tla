----------------------------- MODULE IdealGuard -----------------------------
(***************************************************************************)
(* What the nonce store stands for: a guard that decides in one step and   *)
(* remembers every envelope it has let through since the process started.  *)
(* It forgets nothing, so it has no TTL, no collection and no way from a   *)
(* timestamp check to a look-up.  ReplayGuard implements it.               *)
(***************************************************************************)
EXTENDS Integers

CONSTANTS Requests, Envelopes, TimestampWindow, TTL, MaxDuration

VARIABLES
    now,
    carries,            \* the envelope each request carries
    passed,             \* nonce and timestamp of what has passed in this run
    verdict             \* what became of each request

ideal == <<now, carries, passed, verdict>>

Init ==
    /\ now = 0
    /\ carries \in [Requests -> Envelopes]
    /\ passed = {}
    /\ verdict = [r \in Requests |-> "open"]

Mark(e) == [nonce |-> e.nonce, ts |-> e.ts]

Decide(r, answer) ==
    /\ verdict[r] = "open"
    /\ verdict' = [verdict EXCEPT ![r] = answer]
    /\ UNCHANGED <<now, carries>>

\* What passes is new and not older than TTL.  It is not further ahead of the
\* clock than the window, unless it is so far ahead that the distance overflows.
Pass(r) ==
    /\ Decide(r, "passed")
    /\ Mark(carries[r]) \notin passed
    /\ now - carries[r].ts <= TTL
    /\ \/ carries[r].ts - now <= TimestampWindow
       \/ carries[r].ts - now > MaxDuration - (TTL - TimestampWindow)
    /\ passed' = passed \cup {Mark(carries[r])}

\* Only a nonce that has passed is held against a request, and only as long
\* as what passed with it is not older than TTL.
RefuseUsed(r) ==
    /\ Decide(r, "used")
    /\ \E e \in passed : e.nonce = carries[r].nonce /\ now - e.ts <= TTL
    /\ UNCHANGED passed

RefuseUntimely(r) ==
    /\ Decide(r, "untimely")
    /\ \/ now - carries[r].ts > TimestampWindow
       \/ /\ carries[r].ts - now > TimestampWindow
          /\ carries[r].ts - now <= MaxDuration
    /\ UNCHANGED passed

Tick ==
    /\ now' = now + 1
    /\ UNCHANGED <<carries, passed, verdict>>

\* A new process knows nothing of what the old one let through.
Restart ==
    /\ passed' = {}
    /\ UNCHANGED <<now, carries, verdict>>

Next ==
    \/ \E r \in Requests : Pass(r) \/ RefuseUsed(r) \/ RefuseUntimely(r)
    \/ Tick \/ Restart

Spec == Init /\ [][Next]_ideal

=============================================================================
