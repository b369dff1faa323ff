------------------------- MODULE ReplayGuardProofs -------------------------
(***************************************************************************)
(* An envelope passes the nonce store at most once per run of the process, *)
(* for any requests, envelopes and times that satisfy the assumptions.     *)
(***************************************************************************)
EXTENDS ReplayGuard, TLAPS

(* An entry the collector drops belongs to a timestamp that is too old, and *)
(* one it keeps was in the store.                                           *)
LEMMA FreshFacts ==
    ASSUME TypeOK
    PROVE  /\ Fresh \subseteq entries
           /\ \A e \in entries : e \in Fresh \/ now > e.ts + TTL
           /\ \A e \in Fresh : now <= e.ts + TTL
BY WindowAssumption DEF TypeOK, Fresh

(* The timestamp check passes what lies within the window, and what is so   *)
(* far ahead that its distance overflows (middleware.go:102, 241-246).      *)
LEMMA InWindowFacts ==
    ASSUME now \in Int, NEW ts \in Int
    PROVE  InWindow(ts) <=> /\ now - ts <= TimestampWindow
                            /\ \/ ts - now <= TimestampWindow
                               \/ ts - now > MaxDuration
<1> USE WindowAssumption DEF InWindow, Abs, MinDuration
<1>1. CASE now - ts > MaxDuration
  BY <1>1 DEF Since
<1>2. CASE now - ts < -MaxDuration - 1
  <2>1. Since(ts) = -MaxDuration - 1
    BY <1>2 DEF Since
  <2> QED
    BY <1>2, <2>1
<1>3. CASE now - ts <= MaxDuration /\ now - ts >= -MaxDuration - 1
  <2>1. Since(ts) = now - ts
    BY <1>3 DEF Since
  <2> QED
    BY <1>3, <2>1
<1> QED
  BY <1>1, <1>2, <1>3

(* The initial states satisfy the invariant.                                *)
LEMMA InitIInv == Init => IInv
BY DEF Init, IInv, TypeOK, PCs, Timely, StoreComplete, StoreSound,
       RunsOrdered, AtMostOncePerRun

(* Requests that skip or fail the checks, and those past the store, leave   *)
(* the store and the record of who passed it alone.                         *)
LEMMA OtherStepsIInv ==
    ASSUME IInv, NEW r \in Requests,
           ReadPlain(r) \/ CheckTimestamp(r) \/ Decrypt(r)
    PROVE  IInv'
<1> USE DEF IInv
<1>1. /\ UNCHANGED <<now, entries, run, env, remembered>>
      /\ pc \in [Requests -> PCs]
      /\ \A q \in Requests : q # r => pc'[q] = pc[q]
  BY DEF ReadPlain, CheckTimestamp, Decrypt, Goto, TypeOK
<1>2. TypeOK'
  <2>1. pc' \in [Requests -> PCs]
    BY DEF ReadPlain, CheckTimestamp, Decrypt, Goto, TypeOK, PCs
  <2>2. checkedAt' \in [Requests -> Nat]
    BY DEF ReadPlain, CheckTimestamp, Decrypt, TypeOK
  <2> QED
    BY <1>1, <2>1, <2>2 DEF TypeOK
<1>3. Timely'
  <2>1. CASE ReadPlain(r) \/ Decrypt(r)
    BY <1>1, <2>1 DEF Timely, ReadPlain, Decrypt, Goto, TypeOK
  <2>2. CASE CheckTimestamp(r)
    <3>1. /\ checkedAt'[r] = now /\ now \in Nat /\ env[r].ts \in Int
          /\ pc'[r] = "remember" => InWindow(env[r].ts)
          /\ \A q \in Requests : q # r => checkedAt'[q] = checkedAt[q]
      BY <2>2, EnvelopesAssumption DEF CheckTimestamp, Goto, TypeOK
    <3>2. pc'[r] = "remember" => /\ checkedAt'[r] <= now
                                 /\ now <= checkedAt'[r] + MaxDelay
                                 /\ checkedAt'[r] <= env[r].ts + TimestampWindow
                                 /\ \/ env[r].ts <= checkedAt'[r] + TimestampWindow
                                    \/ env[r].ts > checkedAt'[r] + MaxDuration
      <4> SUFFICES ASSUME pc'[r] = "remember"
                   PROVE  /\ now - env[r].ts <= TimestampWindow
                          /\ \/ env[r].ts - now <= TimestampWindow
                             \/ env[r].ts - now > MaxDuration
        BY <3>1, WindowAssumption
      <4> QED
        BY <3>1, InWindowFacts
    <3> QED
      BY <1>1, <3>1, <3>2 DEF Timely
  <2> QED
    BY <2>1, <2>2
<1>4. StoreComplete' /\ StoreSound' /\ AtMostOncePerRun'
  BY <1>1 DEF StoreComplete, StoreSound, AtMostOncePerRun
<1>5. RunsOrdered'
  <2>1. pc'[r] = "remember" => pc[r] = "new"
    BY DEF ReadPlain, CheckTimestamp, Decrypt, Goto, TypeOK
  <2>2. pc'[r] # "new"
    BY DEF ReadPlain, CheckTimestamp, Decrypt, Goto, TypeOK
  <2> QED
    BY <1>1, <2>1, <2>2 DEF RunsOrdered
<1> QED
  BY <1>2, <1>3, <1>4, <1>5

(* The clock makes entries old; it may not outrun a request that has been   *)
(* checked.                                                                 *)
LEMMA TickIInv == ASSUME IInv, Tick PROVE IInv'
<1> USE DEF IInv, Tick
<1>1. TypeOK'
  BY DEF TypeOK
<1>2. Timely'
  BY WindowAssumption DEF Timely, TypeOK
<1>3. StoreComplete'
  BY WindowAssumption, EnvelopesAssumption DEF StoreComplete, TypeOK
<1>4. StoreSound' /\ RunsOrdered' /\ AtMostOncePerRun'
  BY DEF StoreSound, RunsOrdered, AtMostOncePerRun
<1> QED
  BY <1>1, <1>2, <1>3, <1>4

(* A new run starts with an empty store and nobody in it has passed yet.    *)
LEMMA RestartIInv == ASSUME IInv, Restart PROVE IInv'
<1> USE DEF IInv, Restart
<1>1. \A r \in Requests : pc'[r] = "new" <=> pc[r] = "new"
  BY DEF TypeOK
<1>2. \A r \in Requests : pc'[r] # "remember"
  BY DEF TypeOK
<1>3. \A r \in Requests : remembered'[r] # run'
  BY DEF RunsOrdered, TypeOK
<1>4. TypeOK'
  BY DEF TypeOK, PCs
<1>5. RunsOrdered'
  BY <1>1, <1>2 DEF RunsOrdered, TypeOK
<1> QED
  BY <1>2, <1>3, <1>4, <1>5
  DEF Timely, StoreComplete, StoreSound, AtMostOncePerRun

(* Remember lets a request through only if nobody with its envelope has     *)
(* been let through in this run.                                            *)
LEMMA RememberIInv ==
    ASSUME IInv, NEW r \in Requests, Remember(r) PROVE IInv'
<1> USE DEF IInv
<1> DEFINE mine == [nonce |-> env[r].nonce, ts |-> env[r].ts]
<1>1. /\ TypeOK /\ pc[r] = "remember" /\ UNCHANGED <<now, run, env, checkedAt>>
      /\ env[r] \in Envelopes /\ now \in Nat /\ run \in Nat
      /\ \A q \in Requests : q # r => pc'[q] = pc[q]
      /\ pc'[r] \in {"nonce_used", "decrypt"}
      /\ pc' \in [Requests -> PCs]
  BY DEF Remember, Goto, TypeOK, PCs
<1>2. /\ \A q \in Requests : env[q].ts \in Int
      /\ mine \in [nonce : {e.nonce : e \in Envelopes}, ts : Int]
  BY EnvelopesAssumption DEF TypeOK
<1>3. now <= env[r].ts + TTL
  BY <1>1, <1>2, WindowAssumption DEF Timely, TypeOK
<1>4. Timely'
  BY <1>1 DEF Timely
<1>5. CASE Known(env[r].nonce)
  <2>1. entries' = Fresh /\ UNCHANGED remembered
    BY <1>5 DEF Remember
  <2>2. TypeOK'
    BY <1>1, <2>1, FreshFacts DEF TypeOK
  <2>3. StoreComplete'
    <3> SUFFICES ASSUME NEW q \in Requests, remembered[q] = run
                 PROVE  \/ [nonce |-> env[q].nonce, ts |-> env[q].ts] \in Fresh
                        \/ now > env[q].ts + TTL
      BY <1>1, <2>1 DEF StoreComplete
    <3> QED
      BY FreshFacts DEF StoreComplete
  <2>4. StoreSound'
    BY <1>1, <2>1, FreshFacts DEF StoreSound
  <2>5. RunsOrdered' /\ AtMostOncePerRun'
    BY <1>1, <2>1 DEF RunsOrdered, AtMostOncePerRun
  <2> QED
    BY <1>4, <2>2, <2>3, <2>4, <2>5
<1>6. CASE ~Known(env[r].nonce)
  <2>1. /\ entries' = Fresh \cup {mine}
        /\ remembered' = [remembered EXCEPT ![r] = run]
        /\ pc'[r] = "decrypt"
    BY <1>6 DEF Remember, Goto, TypeOK
  <2>2. /\ remembered'[r] = run
        /\ \A q \in Requests : q # r => remembered'[q] = remembered[q]
        /\ remembered' \in [Requests -> Nat]
    BY <1>1, <2>1 DEF TypeOK
  <2>3. TypeOK'
    BY <1>1, <1>2, <2>1, <2>2, FreshFacts DEF TypeOK
  <2>4. StoreComplete'
    <3> SUFFICES ASSUME NEW q \in Requests, remembered'[q] = run
                 PROVE  \/ [nonce |-> env[q].nonce, ts |-> env[q].ts]
                              \in Fresh \cup {mine}
                        \/ now > env[q].ts + TTL
      BY <1>1, <2>1 DEF StoreComplete
    <3>1. CASE q = r
      BY <3>1
    <3>2. CASE q # r
      BY <2>2, <3>2, FreshFacts DEF StoreComplete
    <3> QED
      BY <3>1, <3>2
  <2>5. StoreSound'
    <3> SUFFICES ASSUME NEW e \in Fresh \cup {mine}
                 PROVE  \E q \in Requests :
                            /\ remembered'[q] = run
                            /\ env[q].nonce = e.nonce /\ env[q].ts = e.ts
      BY <1>1, <2>1 DEF StoreSound
    <3>1. CASE e = mine
      BY <2>2, <3>1
    <3>2. CASE e \in Fresh
      <4>1. PICK q \in Requests : /\ remembered[q] = run
                                  /\ env[q].nonce = e.nonce /\ env[q].ts = e.ts
        BY <3>2, FreshFacts DEF StoreSound
      <4> QED
        BY <2>2, <4>1
    <3> QED
      BY <3>1, <3>2
  <2>6. RunsOrdered'
    BY <1>1, <2>1, <2>2 DEF RunsOrdered
  <2>7. \A q \in Requests : remembered[q] = run =>
            env[q].nonce # env[r].nonce \/ env[q].ts # env[r].ts
    <3> SUFFICES ASSUME NEW q \in Requests, remembered[q] = run,
                        env[q].nonce = env[r].nonce, env[q].ts = env[r].ts
                 PROVE  FALSE
      OBVIOUS
    <3>1. mine \in entries
      BY <1>2, <1>3, WindowAssumption DEF StoreComplete, TypeOK
    <3>2. mine \in Fresh
      BY <1>1, <1>3, <3>1, FreshFacts, WindowAssumption, <1>2
    <3> QED
      BY <1>6, <3>2 DEF Known
  <2>8. remembered[r] = 0 /\ run >= 1
    BY <1>1 DEF RunsOrdered
  <2>9. AtMostOncePerRun'
    BY <1>1, <2>2, <2>7, <2>8 DEF AtMostOncePerRun
  <2> QED
    BY <1>4, <2>3, <2>4, <2>5, <2>6, <2>9
<1> QED
  BY <1>5, <1>6

(* The store's invariant holds in every reachable state.                    *)
THEOREM Invariance == Spec => []IInv
<1>1. IInv /\ [Next]_vars => IInv'
  <2> SUFFICES ASSUME IInv, [Next]_vars PROVE IInv'
    OBVIOUS
  <2>1. ASSUME NEW r \in Requests,
               ReadPlain(r) \/ CheckTimestamp(r) \/ Decrypt(r)
        PROVE  IInv'
    BY <2>1, OtherStepsIInv
  <2>2. ASSUME NEW r \in Requests, Remember(r) PROVE IInv'
    BY <2>2, RememberIInv
  <2>3. CASE Tick
    BY <2>3, TickIInv
  <2>4. CASE Restart
    BY <2>4, RestartIInv
  <2>5. CASE UNCHANGED vars
    BY <2>5 DEF vars, IInv, TypeOK, Timely, StoreComplete, StoreSound,
                RunsOrdered, AtMostOncePerRun
  <2> QED
    BY <2>1, <2>2, <2>3, <2>4, <2>5 DEF Next
<1> QED
  BY <1>1, InitIInv, PTL DEF Spec

(* An envelope passes the store at most once in a run of the process.       *)
THEOREM EnvelopeOnce == Spec => []AtMostOncePerRun
BY Invariance, PTL DEF IInv

(* A nonce is refused only because another request of this run used it less *)
(* than TTL ago.                                                            *)
THEOREM RefusalHasCause == Spec => NonceRefusedForCause
<1>1. IInv /\ [Next]_vars =>
        [ \A r \in Requests : pc[r] = "remember" /\ pc'[r] = "nonce_used" =>
            \E q \in Requests \ {r} :
                /\ remembered[q] = run
                /\ env[q].nonce = env[r].nonce
                /\ now <= env[q].ts + TTL ]_vars
  <2> SUFFICES ASSUME IInv, [Next]_vars, NEW r \in Requests,
                      pc[r] = "remember", pc'[r] = "nonce_used"
               PROVE  \E q \in Requests \ {r} :
                          /\ remembered[q] = run
                          /\ env[q].nonce = env[r].nonce
                          /\ now <= env[q].ts + TTL
    OBVIOUS
  <2>1. Remember(r)
    BY DEF Next, vars, ReadPlain, CheckTimestamp, Remember, Decrypt, Tick,
           Restart, Goto, IInv, TypeOK
  <2>2. PICK e \in Fresh : e.nonce = env[r].nonce
    BY <2>1 DEF Remember, Known, Goto, IInv, TypeOK
  <2>3. e \in entries /\ now <= e.ts + TTL
    BY FreshFacts DEF IInv
  <2>4. PICK q \in Requests : /\ remembered[q] = run
                              /\ env[q].nonce = e.nonce /\ env[q].ts = e.ts
    BY <2>3 DEF IInv, StoreSound
  <2>5. q # r
    BY <2>4 DEF IInv, RunsOrdered
  <2> QED
    BY <2>2, <2>3, <2>4, <2>5
<1> QED
  BY <1>1, Invariance, PTL DEF Spec, NonceRefusedForCause

-----------------------------------------------------------------------------
(* The refinement.  Passed and Verdicts change only for the request that    *)
(* moves, or not at all.                                                    *)
LEMMA MapFacts ==
    ASSUME IInv
    PROVE  /\ \A r \in Requests : remembered[r] = run =>
                  Ideal!Mark(env[r]) \in Passed
           /\ \A e \in Passed : \E r \in Requests :
                  remembered[r] = run /\ e = Ideal!Mark(env[r])
           /\ \A r \in Requests : pc[r] \in {"new", "remember"} =>
                  Verdicts[r] = "open"
BY DEF Passed, Verdicts, Ideal!Mark, IInv, RunsOrdered

(* A request that is checked is refused for its timestamp or goes on.       *)
LEMMA CheckMaps ==
    ASSUME IInv, NEW r \in Requests,
           ReadPlain(r) \/ CheckTimestamp(r) \/ Decrypt(r)
    PROVE  [Ideal!Next]_(Ideal!ideal)
<1>1. /\ UNCHANGED <<now, entries, run, env, remembered>>
      /\ pc' = [pc EXCEPT ![r] = pc'[r]] /\ pc \in [Requests -> PCs]
  BY DEF ReadPlain, CheckTimestamp, Decrypt, Goto, IInv, TypeOK
<1>2. Passed' = Passed
  BY <1>1 DEF Passed
<1>3. CASE pc'[r] = "ts_out_of_window"
  <2>1. CheckTimestamp(r) /\ pc[r] = "new" /\ ~InWindow(env[r].ts)
    BY <1>1, <1>3 DEF ReadPlain, CheckTimestamp, Decrypt, Goto
  <2>2. remembered[r] = 0
    BY <2>1 DEF IInv, RunsOrdered
  <2>3. Verdicts' = [Verdicts EXCEPT ![r] = "untimely"]
    BY <1>1, <1>3, <2>2 DEF Verdicts
  <2>4. Ideal!RefuseUntimely(r)
    <3>1. /\ now \in Int /\ env[r].ts \in Int
          /\ TimestampWindow \in Int /\ MaxDuration \in Int
      BY EnvelopesAssumption, WindowAssumption DEF IInv, TypeOK
    <3>2. \/ now - env[r].ts > TimestampWindow
          \/ /\ env[r].ts - now > TimestampWindow
             /\ env[r].ts - now <= MaxDuration
      BY <2>1, <3>1, InWindowFacts
    <3> QED
      BY <1>1, <1>2, <2>1, <2>3, <3>2, MapFacts
      DEF Ideal!RefuseUntimely, Ideal!Decide
  <2> QED
    BY <2>4 DEF Ideal!Next
<1>4. CASE pc'[r] # "ts_out_of_window"
  <2>1. pc'[r] # "nonce_used" /\ pc[r] \notin {"nonce_used", "ts_out_of_window"}
    BY <1>1 DEF ReadPlain, CheckTimestamp, Decrypt, Goto
  <2>2. Verdicts' = Verdicts
    BY <1>1, <1>4, <2>1 DEF Verdicts
  <2> QED
    BY <1>1, <1>2, <2>2 DEF Ideal!ideal
<1> QED
  BY <1>3, <1>4

(* Remember passes exactly what the ideal guard may pass and refuses what   *)
(* it may refuse: what was collected would not have got here.               *)
LEMMA RememberMaps ==
    ASSUME IInv, NEW r \in Requests, Remember(r)
    PROVE  Ideal!Next
<1> DEFINE mine == Ideal!Mark(env[r])
<1>1. /\ pc[r] = "remember" /\ UNCHANGED <<now, run, env, checkedAt>>
      /\ remembered[r] = 0 /\ run >= 1 /\ run \in Nat
      /\ now \in Nat /\ env[r].ts \in Int
      /\ \A q \in Requests : env[q].ts \in Int
  BY EnvelopesAssumption DEF Remember, IInv, TypeOK, RunsOrdered
<1>2. /\ now - env[r].ts <= TTL
      /\ \/ env[r].ts - now <= TimestampWindow
         \/ env[r].ts - now > MaxDuration - (TTL - TimestampWindow)
  BY <1>1, WindowAssumption DEF IInv, Timely, TypeOK
<1>3. CASE Known(env[r].nonce)
  <2>1. UNCHANGED remembered /\ pc' = [pc EXCEPT ![r] = "nonce_used"]
    BY <1>3 DEF Remember, Goto
  <2>2. Passed' = Passed
    BY <1>1, <2>1 DEF Passed
  <2>3. Verdicts' = [Verdicts EXCEPT ![r] = "used"]
    BY <1>1, <2>1 DEF Verdicts, IInv, TypeOK
  <2>4. \E e \in Passed : e.nonce = env[r].nonce /\ now - e.ts <= TTL
    <3>1. PICK e \in Fresh : e.nonce = env[r].nonce
      BY <1>3 DEF Known
    <3>2. e \in entries /\ now <= e.ts + TTL
      BY <3>1, FreshFacts DEF IInv
    <3>3. PICK q \in Requests : /\ remembered[q] = run
                                /\ env[q].nonce = e.nonce /\ env[q].ts = e.ts
      BY <3>2 DEF IInv, StoreSound
    <3>4. Ideal!Mark(env[q]) \in Passed
      BY <3>3, MapFacts
    <3>5. now - env[q].ts <= TTL
      BY <1>1, <3>2, <3>3, WindowAssumption
    <3> QED
      BY <3>1, <3>3, <3>4, <3>5 DEF Ideal!Mark
  <2>5. Ideal!RefuseUsed(r)
    BY <1>1, <2>2, <2>3, <2>4, MapFacts DEF Ideal!RefuseUsed, Ideal!Decide
  <2> QED
    BY <2>5 DEF Ideal!Next
<1>4. CASE ~Known(env[r].nonce)
  <2>1. /\ remembered' = [remembered EXCEPT ![r] = run]
        /\ pc' = [pc EXCEPT ![r] = "decrypt"]
    BY <1>4 DEF Remember, Goto
  <2>2. mine \notin Passed
    <3> SUFFICES ASSUME mine \in Passed PROVE FALSE
      OBVIOUS
    <3>1. PICK q \in Requests : remembered[q] = run /\ mine = Ideal!Mark(env[q])
      BY MapFacts
    <3>2. mine \in entries \/ now > env[r].ts + TTL
      BY <3>1 DEF IInv, StoreComplete, Ideal!Mark
    <3>3. mine \in Fresh
      BY <1>1, <1>2, <3>2, FreshFacts, WindowAssumption DEF IInv, Ideal!Mark
    <3> QED
      BY <1>4, <3>3 DEF Known, Ideal!Mark
  <2>3. Passed' = Passed \cup {mine}
    BY <1>1, <2>1 DEF Passed, Ideal!Mark, IInv, TypeOK
  <2>4. Verdicts' = [Verdicts EXCEPT ![r] = "passed"]
    <3>1. remembered'[r] # 0
      BY <1>1, <2>1 DEF IInv, TypeOK
    <3>2. \A q \in Requests : q # r =>
              remembered'[q] = remembered[q] /\ pc'[q] = pc[q]
      BY <2>1 DEF IInv, TypeOK
    <3> QED
      BY <3>1, <3>2 DEF Verdicts
  <2>5. Ideal!Pass(r)
    BY <1>1, <1>2, <2>2, <2>3, <2>4, MapFacts DEF Ideal!Pass, Ideal!Decide
  <2> QED
    BY <2>5 DEF Ideal!Next
<1> QED
  BY <1>3, <1>4

(* The nonce store decides like a guard that never forgets.                 *)
THEOREM ImplementsIdeal == Spec => KeepsIdeal
<1>1. Init => Ideal!Init
  BY DEF Init, Ideal!Init, Passed, Verdicts
<1>2. IInv /\ [Next]_vars => [Ideal!Next]_(Ideal!ideal)
  <2> SUFFICES ASSUME IInv, [Next]_vars PROVE [Ideal!Next]_(Ideal!ideal)
    OBVIOUS
  <2>1. ASSUME NEW r \in Requests,
               ReadPlain(r) \/ CheckTimestamp(r) \/ Decrypt(r)
        PROVE  [Ideal!Next]_(Ideal!ideal)
    BY <2>1, CheckMaps
  <2>2. ASSUME NEW r \in Requests, Remember(r) PROVE Ideal!Next
    BY <2>2, RememberMaps
  <2>3. CASE Tick
    <3>1. Passed' = Passed /\ Verdicts' = Verdicts
      BY <2>3 DEF Tick, Passed, Verdicts
    <3> QED
      BY <2>3, <3>1 DEF Tick, Ideal!Next, Ideal!Tick
  <2>4. CASE Restart
    <3>1. Passed' = {}
      BY <2>4 DEF Restart, Passed, IInv, TypeOK, RunsOrdered
    <3>2. \A r \in Requests : /\ pc'[r] = "nonce_used" <=> pc[r] = "nonce_used"
                              /\ pc'[r] = "ts_out_of_window"
                                   <=> pc[r] = "ts_out_of_window"
      BY <2>4 DEF Restart
    <3>3. Verdicts' = Verdicts
      BY <2>4, <3>2 DEF Restart, Verdicts
    <3> QED
      BY <2>4, <3>1, <3>3 DEF Restart, Ideal!Next, Ideal!Restart
  <2>5. CASE UNCHANGED vars
    BY <2>5 DEF vars, Ideal!ideal, Passed, Verdicts
  <2> QED
    BY <2>1, <2>2, <2>3, <2>4, <2>5 DEF Next
<1> QED
  BY <1>1, <1>2, Invariance, PTL DEF Spec, KeepsIdeal, Ideal!Spec

=============================================================================
