------------------------ MODULE RateLimiterProofs ------------------------
(***************************************************************************)
(* What the limiter guarantees for every set of keys, limits and windows.  *)
(***************************************************************************)
EXTENDS RateLimiter, TLAPS

USE DEF Never

(* Effective is at least one: even a non-positive limit lets one call of    *)
(* every window pass.                                                       *)
LEMMA EffectivePositive ==
    \A k \in Keys : Effective(k) \in Nat /\ Effective(k) >= 1
BY ConstantsAssumption DEF Effective

(* What Append does to a history: one more element, the old ones in place.  *)
LEMMA AppendHistory ==
    ASSUME NEW h \in Seq(Nat), NEW t \in Nat
    PROVE  /\ Append(h, t) \in Seq(Nat)
           /\ Len(Append(h, t)) = Len(h) + 1
           /\ DOMAIN Append(h, t) = 1 .. Len(h) + 1
           /\ DOMAIN h = 1 .. Len(h)
           /\ Len(h) \in Nat
           /\ \A i \in 1 .. Len(h) : Append(h, t)[i] = h[i] /\ h[i] \in Nat
           /\ Append(h, t)[Len(h) + 1] = t
OBVIOUS

(* A history stays ordered when the present time is added at its end.       *)
LEMMA AppendOrdered ==
    ASSUME NEW h \in Seq(Nat), now \in Nat, Ordered(h)
    PROVE  Ordered(Append(h, now))
BY AppendHistory DEF Ordered

(* The initial state satisfies the inductive invariant.                     *)
LEMMA InitIInv == Init => IInv
BY ConstantsAssumption, EffectivePositive
DEF Init, Empty, IInv, TypeOK, CounterInv, CooldownInv, Ordered, CooldownSpacing,
    BurstBound, NoCounter, First

(* The clock disturbs no part of the invariant.                             *)
LEMMA TickIInv == ASSUME IInv, Tick PROVE IInv'
<1> USE DEF IInv, Tick
<1>1. TypeOK'
  BY DEF TypeOK
<1>2. \A k \in Keys : CounterInv(k)' /\ CooldownInv(k)'
  BY ConstantsAssumption DEF CounterInv, CooldownInv, First, Effective
<1>3. ASSUME NEW h \in Seq(Nat), Ordered(h), now' = now + 1, now \in Nat
      PROVE  Ordered(h)'
  BY <1>3 DEF Ordered
<1>4. \A k \in Keys : Ordered(allowed[k])' /\ Ordered(cooled[k])'
  BY <1>3 DEF TypeOK, Ordered
<1>5. CooldownSpacing' /\ BurstBound'
  BY DEF CooldownSpacing, BurstBound, Effective
<1> QED
  BY <1>1, <1>2, <1>4, <1>5

(* A limiter that is new has let nothing pass, so nothing binds it.         *)
LEMMA RestartIInv == ASSUME IInv, Restart PROVE IInv'
BY ConstantsAssumption, EffectivePositive
DEF Restart, Empty, IInv, TypeOK, CounterInv, CooldownInv, Ordered,
    CooldownSpacing, BurstBound, NoCounter, First

(* A pass of Cooldown keeps the spacing of the key's passes.                *)
LEMMA CooldownPassIInv ==
    ASSUME IInv, NEW k \in Keys, CooldownPass(k) PROVE IInv'
<1> USE DEF IInv, CooldownPass
<1>1. /\ TypeOK
      /\ cooled[k] \in Seq(Nat) /\ now \in Nat
      /\ cooled' = [cooled EXCEPT ![k] = Append(cooled[k], now)]
      /\ cooled'[k] = Append(cooled[k], now)
      /\ last' = [last EXCEPT ![k] = now] /\ last'[k] = now
      /\ \A q \in Keys \ {k} : cooled'[q] = cooled[q] /\ last'[q] = last[q]
      /\ UNCHANGED <<now, counters, allowed>>
  BY DEF TypeOK
<1>2. TypeOK'
  BY <1>1, AppendHistory DEF TypeOK
<1>3. \A q \in Keys : CounterInv(q)' /\ Ordered(allowed[q])'
  BY <1>1 DEF CounterInv, First, Effective, Ordered
<1>4. \A q \in Keys : CooldownInv(q)'
  BY <1>1, AppendHistory DEF CooldownInv
<1>5. \A q \in Keys : Ordered(cooled[q])'
  <2>1. Ordered(Append(cooled[k], now))
    BY <1>1, AppendOrdered
  <2> QED
    BY <1>1, <2>1 DEF Ordered
<1>6. CooldownSpacing'
  <2>1. \A i \in 1 .. Len(cooled[k]) : now - cooled[k][i] >= WindowOf[k]
    <3> SUFFICES ASSUME NEW i \in 1 .. Len(cooled[k])
                 PROVE  now - cooled[k][i] >= WindowOf[k]
      OBVIOUS
    <3>1. /\ last[k] = cooled[k][Len(cooled[k])] /\ last[k] # Never
          /\ last[k] \in Nat /\ cooled[k][i] \in Nat
      BY <1>1, AppendHistory DEF CooldownInv, TypeOK
    <3>2. cooled[k][i] <= last[k]
      BY <1>1, <3>1, AppendHistory DEF Ordered
    <3> QED
      BY <1>1, <3>1, <3>2, ConstantsAssumption, SMTT(30) DEF CooldownPasses
  <2>2. ASSUME NEW i \in DOMAIN cooled'[k], NEW j \in DOMAIN cooled'[k], i < j
        PROVE  cooled'[k][j] - cooled'[k][i] >= WindowOf[k]
    <3>1. i \in 1 .. Len(cooled[k]) /\ j \in 1 .. Len(cooled[k]) + 1
      BY <1>1, <2>2, AppendHistory
    <3> QED
      BY <1>1, <2>1, <2>2, <3>1, AppendHistory DEF CooldownSpacing
  <2> QED
    BY <1>1, <2>2 DEF CooldownSpacing
<1>7. BurstBound'
  BY <1>1 DEF BurstBound, Effective
<1> QED
  BY <1>2, <1>3, <1>4, <1>5, <1>6, <1>7

(* A pass of Allow keeps the counter in step with the tail of the history,  *)
(* and the burst bound with it.                                             *)
LEMMA AllowPassIInv ==
    ASSUME IInv, NEW k \in Keys, AllowPass(k) PROVE IInv'
<1> USE DEF IInv, AllowPass
<1> DEFINE h == allowed[k]
           c == counters[k]
           n == Len(allowed[k])
           L == Effective(k)
           W == WindowOf[k]
<1>1. /\ TypeOK /\ TypeOK'
      /\ h \in Seq(Nat) /\ now \in Nat /\ n \in Nat /\ W \in Int
      /\ c.count \in Nat /\ c.start \in Nat
      /\ allowed'[k] = Append(h, now)
      /\ counters'[k] = AfterAllow(c, now, W)
      /\ \A q \in Keys \ {k} :
            allowed'[q] = allowed[q] /\ counters'[q] = counters[q]
      /\ UNCHANGED <<now, last, cooled>>
  <2>6. /\ now \in Nat /\ h \in Seq(Nat) /\ W \in Int
        /\ c \in [start : Nat, count : Nat]
    BY ConstantsAssumption DEF TypeOK
  <2>1. /\ now \in Nat /\ h \in Seq(Nat) /\ n \in Nat /\ W \in Int
        /\ c \in [start : Nat, count : Nat]
    BY <2>6, AppendHistory
  <2>2. AfterAllow(c, now, W) \in [start : Nat, count : Nat]
    <3>1. [start |-> now, count |-> 1] \in [start : Nat, count : Nat]
      BY <2>1
    <3>2. [c EXCEPT !.count = c.count + 1] \in [start : Nat, count : Nat]
      BY <2>1
    <3> QED
      BY <3>1, <3>2 DEF AfterAllow
  <2>3. /\ allowed' = [allowed EXCEPT ![k] = Append(h, now)]
        /\ counters' = [counters EXCEPT ![k] = AfterAllow(c, now, W)]
        /\ UNCHANGED <<now, last, cooled>>
    OBVIOUS
  <2>5. Append(h, now) \in Seq(Nat)
    BY <2>1, AppendHistory
  <2> HIDE DEF h, c, W
  <2>4. TypeOK /\ TypeOK'
    BY <2>1, <2>2, <2>3, <2>5 DEF TypeOK
  <2> QED
    BY <2>1, <2>2, <2>3, <2>4 DEF TypeOK, h, c
<1>2. /\ DOMAIN h = 1 .. n
      /\ Len(allowed'[k]) = n + 1
      /\ DOMAIN allowed'[k] = 1 .. n + 1
      /\ allowed'[k][n + 1] = now
      /\ \A i \in 1 .. n : allowed'[k][i] = h[i] /\ h[i] \in Nat
  BY <1>1, AppendHistory
<1>3. L \in Nat /\ L >= 1 /\ Effective(k)' = L
  BY EffectivePositive DEF Effective
<1>4. /\ c.count <= L /\ c.count <= n /\ (c.count = 0 <=> n = 0)
      /\ c.count > 0 =>
            /\ c.start = h[n - c.count + 1]
            /\ \A i \in 1 .. n : i + L <= n - c.count + 1
                                   => h[n - c.count + 1] - h[i] >= W
  BY <1>2 DEF CounterInv, First
<1>11. /\ \A i, j \in 1 .. n : i <= j => h[i] <= h[j]
       /\ \A i \in 1 .. n : h[i] <= now
  BY <1>2 DEF Ordered
<1>12. \A i, j \in 1 .. n : j - i = 2 * L - 1 => h[j] - h[i] >= W
  BY <1>2 DEF BurstBound
<1>13. /\ n \in Nat /\ W \in Int /\ now \in Nat
       /\ c.count \in Nat /\ c.start \in Nat
       /\ L \in Nat /\ L >= 1
  BY <1>1, <1>3
<1> HIDE DEF h, c, n, L, W
<1>5. \* the event that is at least a limit before a new window is too old
      /\ CounterInv(k)'
      /\ \A i \in 1 .. n : i + 2 * L - 1 = n + 1 => now - h[i] >= W
  <2>1. CASE NewWindow(c, now, W)
    <3>1. counters'[k] = [start |-> now, count |-> 1]
      BY <1>1, <2>1 DEF AfterAllow
    <3>2. \A i \in 1 .. n : i + L <= n + 1 => now - h[i] >= W
      <4> SUFFICES ASSUME NEW i \in 1 .. n, i + L <= n + 1
                   PROVE  now - h[i] >= W
        OBVIOUS
      <4>1. c.count > 0 /\ now - c.start >= W
        BY <1>13, <1>4, <2>1 DEF NewWindow
      <4> DEFINE f == n - c.count + 1
      <4>2. c.count <= L /\ c.count <= n
        BY <1>4
      <4>3. f \in 1 .. n /\ i <= f
        BY <1>13, <4>1, <4>2, SMTT(30)
      <4>4. c.start = h[f]
        BY <1>4, <4>1
      <4> HIDE DEF f
      <4>5. h[i] <= h[f] /\ h[i] \in Nat
        BY <1>2, <1>11, <4>3
      <4> QED
        BY <1>13, <4>1, <4>4, <4>5
    <3>3. CounterInv(k)'
      BY <1>1, <1>2, <1>3, <3>1, <3>2, SMTT(30) DEF CounterInv, First, L, W
    <3> QED
      BY <1>1, <1>3, <3>2, <3>3
  <2>2. CASE ~NewWindow(c, now, W)
    <3>1. /\ c.count > 0 /\ c.count < LimitOf[k]
          /\ counters'[k].count = c.count + 1 /\ counters'[k].start = c.start
      BY <1>1, <2>2 DEF AfterAllow, NewWindow, AllowPasses, c, W, TypeOK
    <3>2. c.count + 1 <= L
      BY <1>1, <3>1, ConstantsAssumption DEF Effective, L
    <3> DEFINE f == n - c.count + 1
    <3>3. f \in 1 .. n /\ f = (n + 1) - (c.count + 1) + 1
      <4>1. c.count <= n
        BY <1>4
      <4> QED
        BY <1>13, <3>1, <4>1
    <3>4. /\ c.start = h[f]
          /\ \A i \in 1 .. n : i + L <= f => h[f] - h[i] >= W
      BY <1>4, <3>1
    <3> HIDE DEF f
    <3>5. CounterInv(k)'
      <4>1. First(k)' = f
        BY <1>2, <3>1, <3>3 DEF First
      <4>2. \A i \in 1 .. n + 1 : i + L <= f => i \in 1 .. n
        BY <1>13, <3>3
      <4>3. c.count + 1 <= n + 1 /\ c.count + 1 > 0 /\ n + 1 # 0
        BY <1>13, <1>4
      <4>4. /\ allowed'[k][f] = c.start
            /\ \A i \in DOMAIN allowed'[k] :
                  i + L <= f => allowed'[k][f] - allowed'[k][i] >= W
        BY <1>2, <3>3, <3>4, <4>2
      <4> QED
        <5>1. counters'[k].count <= Effective(k)'
          BY <1>3, <3>1, <3>2
        <5>2. /\ counters'[k].count <= Len(allowed'[k])
              /\ counters'[k].count > 0 /\ Len(allowed'[k]) # 0
              /\ counters'[k].count # 0
          BY <1>2, <1>13, <3>1, <4>3
        <5>3. /\ counters'[k].start = allowed'[k][First(k)']
              /\ \A i \in DOMAIN allowed'[k] :
                    i + Effective(k)' <= First(k)'
                      => allowed'[k][First(k)'] - allowed'[k][i] >= WindowOf[k]
          BY <1>3, <3>1, <4>1, <4>4 DEF W
        <5> QED
          BY <5>1, <5>2, <5>3 DEF CounterInv
    <3>6. ASSUME NEW i \in 1 .. n, i + 2 * L - 1 = n + 1
          PROVE  now - h[i] >= W
      <4>1. i + L <= f
        BY <1>13, <3>2, <3>3, <3>6
      <4>2. h[f] - h[i] >= W /\ h[f] <= now
        BY <1>11, <3>3, <3>4, <4>1
      <4>3. h[i] \in Nat /\ h[f] \in Nat
        BY <1>2, <3>3
      <4> QED
        BY <1>13, <4>2, <4>3
    <3> QED
      BY <3>5, <3>6
  <2> QED
    BY <2>1, <2>2
<1>6. ASSUME NEW q \in Keys PROVE CounterInv(q)'
  <2>1. CASE q = k
    BY <1>5, <2>1
  <2>2. CASE q # k
    BY <1>1, <2>2 DEF CounterInv, First, Effective
  <2> QED
    BY <2>1, <2>2
<1>7. \A q \in Keys : CooldownInv(q)' /\ Ordered(cooled[q])'
  BY <1>1 DEF CooldownInv, Ordered
<1>8. \A q \in Keys : Ordered(allowed[q])'
  <2>1. Ordered(Append(allowed[k], now))
    BY <1>1, AppendOrdered DEF h
  <2> QED
    BY <1>1, <2>1 DEF Ordered, h
<1>9. CooldownSpacing'
  BY <1>1 DEF CooldownSpacing
<1>10. BurstBound'
  <2>1. ASSUME NEW i \in DOMAIN allowed'[k], NEW j \in DOMAIN allowed'[k],
               j - i = 2 * L - 1
        PROVE  allowed'[k][j] - allowed'[k][i] >= W
    <3>1. i \in 1 .. n
      BY <1>1, <1>2, <1>3, <2>1
    <3>2. CASE j \in 1 .. n
      BY <1>2, <1>12, <2>1, <3>1, <3>2
    <3>3. CASE j = n + 1
      <4>1. i + 2 * L - 1 = n + 1
        BY <1>13, <2>1, <3>1, <3>3
      <4> QED
        BY <1>2, <1>5, <3>1, <3>3, <4>1
    <3>4. j \in 1 .. n \/ j = n + 1
      BY <1>2, <1>13
    <3> QED
      BY <3>2, <3>3, <3>4
  <2>2. ASSUME NEW q \in Keys, q # k,
               NEW i \in DOMAIN allowed'[q], NEW j \in DOMAIN allowed'[q],
               j - i = 2 * Effective(q)' - 1
        PROVE  allowed'[q][j] - allowed'[q][i] >= WindowOf[q]
    BY <1>1, <2>2 DEF BurstBound, Effective
  <2> QED
    BY <1>3, <2>1, <2>2 DEF BurstBound, W
<1> QED
  BY <1>1, <1>6, <1>7, <1>8, <1>9, <1>10

(* The inductive invariant holds in every reachable state.                  *)
THEOREM Invariance == Spec => []IInv
<1>1. IInv /\ [Next]_vars => IInv'
  <2> SUFFICES ASSUME IInv, [Next]_vars PROVE IInv'
    OBVIOUS
  <2>1. CASE Tick
    BY <2>1, TickIInv
  <2>2. ASSUME NEW k \in Keys, CooldownPass(k) PROVE IInv'
    BY <2>2, CooldownPassIInv
  <2>3. ASSUME NEW k \in Keys, AllowPass(k) PROVE IInv'
    BY <2>3, AllowPassIInv
  <2>4. CASE Restart
    BY <2>4, RestartIInv
  <2>5. CASE UNCHANGED vars
    BY <2>5 DEF vars, IInv, TypeOK, CounterInv, CooldownInv, First, Effective,
                Ordered, CooldownSpacing, BurstBound
  <2> QED
    BY <2>1, <2>2, <2>3, <2>4, <2>5 DEF Next, Refuse
<1> QED
  BY <1>1, InitIInv, PTL DEF Spec

(* Cooldown never lets two calls of one key pass within a window.           *)
THEOREM CooldownCorrect == Spec => []CooldownSpacing
BY Invariance, PTL DEF IInv

(* No interval of one window's length ever holds 2*limit passes of Allow.   *)
THEOREM BurstBounded == Spec => []BurstBound
BY Invariance, PTL DEF IInv

(* The invariant says what a refusal tells about the passes before it.      *)
LEMMA RefusalCause == IInv => NoEarlyRefusal
<1> SUFFICES ASSUME IInv, NEW k \in Keys
             PROVE  AllowRefusesForCause(k) /\ CooldownRefusesForCause(k)
  BY DEF NoEarlyRefusal
<1>1. ASSUME ~AllowPasses(counters[k], now, LimitOf[k], WindowOf[k])
      PROVE  LET n == Len(allowed[k]) IN
             /\ n >= Effective(k)
             /\ now - allowed[k][n - Effective(k) + 1] < WindowOf[k]
  <2>1. /\ counters[k].count > 0 /\ counters[k].count >= LimitOf[k]
        /\ now - counters[k].start < WindowOf[k]
        /\ counters[k].count \in Nat /\ LimitOf[k] \in Int
    BY <1>1, ConstantsAssumption DEF IInv, TypeOK, AllowPasses, NewWindow
  <2>2. counters[k].count = Effective(k)
    BY <2>1, EffectivePositive DEF IInv, CounterInv, Effective
  <2> QED
    BY <2>1, <2>2 DEF IInv, CounterInv, First
<1>2. ASSUME ~CooldownPasses(last[k], now, WindowOf[k])
      PROVE  LET n == Len(cooled[k]) IN
             n > 0 /\ now - cooled[k][n] < WindowOf[k]
  <2>1. /\ last[k] # Never /\ last[k] \in Nat /\ now \in Nat
        /\ now - last[k] < WindowOf[k]
    BY <1>2, ConstantsAssumption DEF IInv, TypeOK, CooldownPasses
  <2>2. cooled[k] \in Seq(Nat)
    BY DEF IInv, TypeOK
  <2> QED
    BY <2>1, <2>2 DEF IInv, CooldownInv
<1> QED
  BY <1>1, <1>2 DEF AllowRefusesForCause, CooldownRefusesForCause

(* A caller that is refused has used up its limit within the last window,   *)
(* and no refusal prolongs the next.                                        *)
THEOREM RefusalJustified == Spec => []NoEarlyRefusal
BY RefusalCause, Invariance, PTL

=============================================================================
