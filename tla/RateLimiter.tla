---------------------------- MODULE RateLimiter ----------------------------
(***************************************************************************)
(* internal/service/ratelimit.MemoryLimiter as a state machine: any number *)
(* of goroutines call Cooldown and Allow on the process-wide limiter, in   *)
(* any order, while the clock goes on.  `last` and `counters` are the maps *)
(* of the code; `cooled` and `allowed` record, for the properties only,    *)
(* the times of the calls that this limiter has let pass.                  *)
(***************************************************************************)
EXTENDS Limiter, Sequences

CONSTANTS
    Keys,               \* limiter keys, e.g. "login:ip:1.2.3.4"
    LimitOf,            \* the limit each key's callers pass to Allow
    WindowOf,           \* the window each key's callers pass: the
                        \* configuration may make it zero or negative
    MaxClock            \* bound: the clock stops here

ASSUME ConstantsAssumption ==
    /\ LimitOf \in [Keys -> Int]
    /\ WindowOf \in [Keys -> Int]
    /\ MaxClock \in Nat

VARIABLES
    now,                \* the monotonic clock, read under the mutex
    last,               \* map key -> time of the last pass of Cooldown
    counters,           \* map key -> fixed window of Allow
    cooled,             \* history: times at which Cooldown passed, per key
    allowed             \* history: times at which Allow passed, per key

vars == <<now, last, counters, cooled, allowed>>

TypeOK ==
    /\ now \in Nat
    /\ last \in [Keys -> Nat \cup {Never}]
    /\ counters \in [Keys -> [start : Nat, count : Nat]]
    /\ cooled \in [Keys -> Seq(Nat)]
    /\ allowed \in [Keys -> Seq(Nat)]

\* NewMemoryLimiter: two empty maps.
Empty(entries, windows) ==
    /\ entries = [k \in Keys |-> Never]
    /\ windows = [k \in Keys |-> NoCounter]

Init ==
    /\ now = 0
    /\ Empty(last, counters)
    /\ cooled = [k \in Keys |-> <<>>]
    /\ allowed = [k \in Keys |-> <<>>]

Tick ==
    /\ now < MaxClock
    /\ now' = now + 1
    /\ UNCHANGED <<last, counters, cooled, allowed>>

\* Mutant: a pass of Cooldown is not recorded once the key has an entry.
CooldownPassKeepsFirst(k) ==
    /\ CooldownPasses(last[k], now, WindowOf[k])
    /\ last' = [last EXCEPT ![k] = IF @ = Never THEN now ELSE @]
    /\ cooled' = [cooled EXCEPT ![k] = Append(@, now)]
    /\ UNCHANGED <<now, counters, allowed>>

\* A call of Cooldown that passes.
CooldownPass(k) ==
    /\ CooldownPasses(last[k], now, WindowOf[k])
    /\ last' = [last EXCEPT ![k] = now]
    /\ cooled' = [cooled EXCEPT ![k] = Append(@, now)]
    /\ UNCHANGED <<now, counters, allowed>>

\* A call of Allow that passes.
AllowPass(k) ==
    /\ AllowPasses(counters[k], now, LimitOf[k], WindowOf[k])
    /\ counters' = [counters EXCEPT ![k] = AfterAllow(@, now, WindowOf[k])]
    /\ allowed' = [allowed EXCEPT ![k] = Append(@, now)]
    /\ UNCHANGED <<now, last, cooled>>

\* A call that is refused answers false and leaves the limiter as it was.
Refuse(k) ==
    /\ \/ ~CooldownPasses(last[k], now, WindowOf[k])
       \/ ~AllowPasses(counters[k], now, LimitOf[k], WindowOf[k])
    /\ UNCHANGED vars

\* The server restarts: its new process makes a new limiter.
Restart ==
    /\ Empty(last', counters')
    /\ cooled' = [k \in Keys |-> <<>>]
    /\ allowed' = [k \in Keys |-> <<>>]
    /\ UNCHANGED now

Next ==
    \/ Tick
    \/ Restart
    \/ \E k \in Keys : CooldownPass(k) \/ AllowPass(k) \/ Refuse(k)

Spec == Init /\ [][Next]_vars

-----------------------------------------------------------------------------
\* A limit below one still lets the first call of every window pass.
Effective(k) == IF LimitOf[k] >= 1 THEN LimitOf[k] ELSE 1

(* Two passes of Cooldown on one key are at least a window apart, whoever   *)
(* made them and however they interleave (ratelimit.go:39-49).              *)
CooldownSpacing ==
    \A k \in Keys : \A i, j \in DOMAIN cooled[k] :
        i < j => cooled[k][j] - cooled[k][i] >= WindowOf[k]

(* What the fixed window of Allow really guarantees: no interval shorter    *)
(* than the window holds 2*limit passes, since a burst at the end of a      *)
(* window can be followed by one at the start of the next, of which the     *)
(* first pass of the earlier window is never part (ratelimit.go:51-65).     *)
BurstBound ==
    \A k \in Keys : \A i, j \in DOMAIN allowed[k] :
        j - i = 2 * Effective(k) - 1
            => allowed[k][j] - allowed[k][i] >= WindowOf[k]

(* No call is refused early.  When Allow would refuse now, the limit has    *)
(* been used up by passes of the trailing window; when Cooldown would, it   *)
(* has let a call pass within the window.  Calls that were refused count    *)
(* for nothing: a caller that has waited a whole window since the last pass *)
(* is let through, however often it was refused meanwhile, and a window     *)
(* that is not positive refuses nobody (ratelimit.go:43-48 and 55-64).      *)
AllowRefusesForCause(k) ==
    ~AllowPasses(counters[k], now, LimitOf[k], WindowOf[k]) =>
        LET n == Len(allowed[k]) IN
        /\ n >= Effective(k)
        /\ now - allowed[k][n - Effective(k) + 1] < WindowOf[k]

CooldownRefusesForCause(k) ==
    ~CooldownPasses(last[k], now, WindowOf[k]) =>
        LET n == Len(cooled[k]) IN
        n > 0 /\ now - cooled[k][n] < WindowOf[k]

NoEarlyRefusal ==
    \A k \in Keys : AllowRefusesForCause(k) /\ CooldownRefusesForCause(k)

-----------------------------------------------------------------------------
(* The inductive invariant behind BurstBound and NoEarlyRefusal, per key:   *)
(* the counter describes the tail of the history.  Its window starts with   *)
(* the count-th event from the end, and every event at least a limit's      *)
(* worth of positions before that one is at least a window older.           *)
First(k) == Len(allowed[k]) - counters[k].count + 1

CounterInv(k) ==
    /\ counters[k].count <= Effective(k)
    /\ counters[k].count <= Len(allowed[k])
    /\ counters[k].count = 0 <=> Len(allowed[k]) = 0
    /\ counters[k].count > 0 =>
         /\ counters[k].start = allowed[k][First(k)]
         /\ \A i \in DOMAIN allowed[k] :
               i + Effective(k) <= First(k)
                   => allowed[k][First(k)] - allowed[k][i] >= WindowOf[k]

CooldownInv(k) ==
    /\ Len(cooled[k]) = 0 <=> last[k] = Never
    /\ Len(cooled[k]) > 0 => last[k] = cooled[k][Len(cooled[k])]

\* The histories are ordered and lie in the past.
Ordered(h) ==
    /\ \A i \in DOMAIN h : h[i] <= now
    /\ \A i, j \in DOMAIN h : i <= j => h[i] <= h[j]

IInv ==
    /\ TypeOK
    /\ \A k \in Keys : CounterInv(k) /\ CooldownInv(k)
    /\ \A k \in Keys : Ordered(allowed[k]) /\ Ordered(cooled[k])
    /\ CooldownSpacing
    /\ BurstBound

=============================================================================
