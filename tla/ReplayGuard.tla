---------------------------- MODULE ReplayGuard ----------------------------
(***************************************************************************)
(* internal/security: how decryptInbound lets a request envelope through   *)
(* once.  A request is a goroutine; the timestamp check reads the clock on *)
(* its own, Remember reads it again under the mutex of the nonce store.    *)
(* The same envelope may arrive any number of times, because a client, a   *)
(* proxy or the network repeats it.  Times are in units of the clock.      *)
(***************************************************************************)
EXTENDS Integers

CONSTANTS
    Requests,
    Envelopes,          \* records [nonce, ts, encrypted]: what can arrive
    TimestampWindow,    \* accepted distance between ts and the clock
    TTL,                \* nonceStore.ttl
    MaxDuration,        \* the longest time.Duration, about 292 years
    MaxDelay,           \* bound on the time from the check to Remember
    MaxClock,           \* bound on the clock
    MaxRestarts         \* bound on restarts

(* middleware.go:37-39 fixes TTL to twice the window.  That Remember        *)
(* runs within TTL - TimestampWindow (5 minutes) of the check is the one    *)
(* thing the guard needs from the scheduler.                                *)
ASSUME WindowAssumption ==
    /\ TimestampWindow \in Nat /\ TTL \in Nat /\ MaxDelay \in Nat
    /\ TimestampWindow + MaxDelay <= TTL
    /\ MaxDuration \in Nat /\ TimestampWindow < MaxDuration
    /\ MaxClock \in Nat /\ MaxRestarts \in Nat

ASSUME EnvelopesAssumption ==
    \A e \in Envelopes : e.ts \in Int /\ e.encrypted \in BOOLEAN

VARIABLES
    now,                \* the wall clock
    entries,            \* inboundNonceStore.entries, as pairs [nonce, ts]
    run,                \* number of the current run of the process
    env,                \* the envelope each request carries
    pc,
    checkedAt,          \* when the request's timestamp was checked
    remembered          \* history: the run in which Remember let it pass

vars == <<now, entries, run, env, pc, checkedAt, remembered>>

PCs == {"new", "remember", "decrypt", "handler", "plain",
        "ts_out_of_window", "nonce_used", "decrypt_failed", "dropped"}

TypeOK ==
    /\ now \in Nat /\ run \in Nat
    /\ entries \subseteq [nonce : {e.nonce : e \in Envelopes}, ts : Int]
    /\ env \in [Requests -> Envelopes]
    /\ pc \in [Requests -> PCs]
    /\ checkedAt \in [Requests -> Nat]
    /\ remembered \in [Requests -> Nat]

Init ==
    /\ now = 0 /\ run = 1
    /\ entries = {}
    /\ env \in [Requests -> Envelopes]
    /\ pc = [r \in Requests |-> "new"]
    /\ checkedAt = [r \in Requests |-> 0]
    /\ remembered = [r \in Requests |-> 0]

Goto(r, there) == pc' = [pc EXCEPT ![r] = there]

\* A body that is no envelope goes to the handler as it is.
ReadPlain(r) ==
    /\ pc[r] = "new"
    /\ Goto(r, "plain")
    /\ UNCHANGED <<now, entries, run, env, checkedAt, remembered>>

MinDuration == -MaxDuration - 1

\* time.Since of a timestamp without a monotonic reading stops at the ends of
\* the type.
Since(ts) ==
    CASE now - ts > MaxDuration -> MaxDuration
      [] now - ts < MinDuration -> MinDuration
      [] OTHER -> now - ts

\* The negative of MinDuration is MinDuration again.
Abs(d) == IF d < 0 /\ d # MinDuration THEN -d ELSE d

\* Mutant: without the absolute value any time in the future will do.
InWindowOfPast(ts) == Since(ts) <= TimestampWindow

InWindow(ts) == Abs(Since(ts)) <= TimestampWindow

CheckTimestamp(r) ==
    /\ pc[r] = "new"
    /\ checkedAt' = [checkedAt EXCEPT ![r] = now]
    /\ Goto(r, IF InWindow(env[r].ts) THEN "remember" ELSE "ts_out_of_window")
    /\ UNCHANGED <<now, entries, run, env, remembered>>

\* Mutant: entries are dropped as soon as their timestamp leaves the window.
FreshTooShort == {e \in entries : e.ts >= now - TimestampWindow}

\* nonceStore.gc
Fresh == {e \in entries : e.ts >= now - TTL}

Known(nonce) == \E e \in Fresh : e.nonce = nonce

\* Mutant: entries past their time still count.
RememberNoGC(r) ==
    /\ pc[r] = "remember"
    /\ IF \E e \in entries : e.nonce = env[r].nonce
       THEN /\ UNCHANGED <<entries, remembered>>
            /\ Goto(r, "nonce_used")
       ELSE /\ entries' = entries \cup
                            {[nonce |-> env[r].nonce, ts |-> env[r].ts]}
            /\ remembered' = [remembered EXCEPT ![r] = run]
            /\ Goto(r, "decrypt")
    /\ UNCHANGED <<now, run, env, checkedAt>>

\* nonceStore.Remember: gc, look-up and insertion under one lock
Remember(r) ==
    /\ pc[r] = "remember"
    /\ IF Known(env[r].nonce)
       THEN /\ entries' = Fresh
            /\ UNCHANGED remembered
            /\ Goto(r, "nonce_used")
       ELSE /\ entries' = Fresh \cup
                            {[nonce |-> env[r].nonce, ts |-> env[r].ts]}
            /\ remembered' = [remembered EXCEPT ![r] = run]
            /\ Goto(r, "decrypt")
    /\ UNCHANGED <<now, run, env, checkedAt>>

\* Unwrapping the key and decrypting the data may fail; the nonce stays spent.
Decrypt(r) ==
    /\ pc[r] = "decrypt"
    /\ \/ Goto(r, "handler")
       \/ env[r].encrypted /\ Goto(r, "decrypt_failed")
    /\ UNCHANGED <<now, entries, run, env, checkedAt, remembered>>

Tick ==
    /\ now < MaxClock
    /\ \A r \in Requests : pc[r] = "remember" => now < checkedAt[r] + MaxDelay
    /\ now' = now + 1
    /\ UNCHANGED <<entries, run, env, pc, checkedAt, remembered>>

\* The store lives in memory only.
Restart ==
    /\ run <= MaxRestarts
    /\ run' = run + 1
    /\ entries' = {}
    /\ pc' = [r \in Requests |-> IF pc[r] \in {"remember", "decrypt"}
                                 THEN "dropped" ELSE pc[r]]
    /\ UNCHANGED <<now, env, checkedAt, remembered>>

Next ==
    \/ \E r \in Requests :
          ReadPlain(r) \/ CheckTimestamp(r) \/ Remember(r) \/ Decrypt(r)
    \/ Tick
    \/ Restart

Spec == Init /\ [][Next]_vars

-----------------------------------------------------------------------------
(* Within one run of the process an envelope gets past the nonce store at   *)
(* most once, however often, how close together or how late it arrives: an  *)
(* entry is collected only when the timestamp check no longer lets its      *)
(* envelope through (middleware.go:102-107, 261-285).                       *)
AtMostOncePerRun ==
    \A r, q \in Requests :
        /\ env[r].nonce = env[q].nonce /\ env[r].ts = env[q].ts
        /\ remembered[r] = remembered[q] /\ remembered[r] # 0
        => r = q

(* A nonce is refused only when some other request used it in this run of   *)
(* the process and its entry has not outlived TTL: a client that draws a    *)
(* fresh nonce is never refused (middleware.go:261-285).                    *)
NonceRefusedForCause ==
    [][ \A r \in Requests : pc[r] = "remember" /\ pc'[r] = "nonce_used" =>
          \E q \in Requests \ {r} :
              /\ remembered[q] = run
              /\ env[q].nonce = env[r].nonce
              /\ now <= env[q].ts + TTL ]_vars

(* What has passed in this run, and what has become of each request.        *)
Passed ==
    {[nonce |-> env[r].nonce, ts |-> env[r].ts] :
        r \in {q \in Requests : remembered[q] = run}}

Verdicts ==
    [r \in Requests |->
        CASE remembered[r] # 0 -> "passed"
          [] remembered[r] = 0 /\ pc[r] = "nonce_used" -> "used"
          [] remembered[r] = 0 /\ pc[r] = "ts_out_of_window" -> "untimely"
          [] OTHER -> "open"]

Ideal == INSTANCE IdealGuard WITH
    carries <- env, passed <- Passed, verdict <- Verdicts

(* The store with its TTL, its collection and its two readings of the clock *)
(* decides like one that never forgets: nobody can tell from what passes    *)
(* and what is refused that entries are dropped (middleware.go:37-39,       *)
(* 102-107, 260-285).                                                       *)
KeepsIdeal == Ideal!Spec

-----------------------------------------------------------------------------
(* The inductive invariant: the store holds exactly what this run let pass, *)
(* except what is too old, and a request on its way from the check to       *)
(* Remember carries a timestamp that is not.                                *)
Timely ==
    \A r \in Requests : pc[r] = "remember" =>
        /\ checkedAt[r] <= now /\ now <= checkedAt[r] + MaxDelay
        /\ checkedAt[r] <= env[r].ts + TimestampWindow
        /\ \/ env[r].ts <= checkedAt[r] + TimestampWindow
           \/ env[r].ts > checkedAt[r] + MaxDuration

StoreComplete ==
    \A r \in Requests : remembered[r] = run =>
        \/ [nonce |-> env[r].nonce, ts |-> env[r].ts] \in entries
        \/ now > env[r].ts + TTL

StoreSound ==
    \A e \in entries : \E r \in Requests :
        /\ remembered[r] = run
        /\ env[r].nonce = e.nonce /\ env[r].ts = e.ts

RunsOrdered ==
    /\ run >= 1
    /\ \A r \in Requests :
          /\ remembered[r] <= run
          /\ pc[r] \in {"new", "remember"} => remembered[r] = 0

IInv ==
    /\ TypeOK /\ Timely /\ StoreComplete /\ StoreSound /\ RunsOrdered
    /\ AtMostOncePerRun

=============================================================================
