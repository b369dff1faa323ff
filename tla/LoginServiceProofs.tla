------------------------ MODULE LoginServiceProofs ------------------------
(***************************************************************************)
(* The safety properties of LoginService for every set of requests, phones *)
(* and codes, every configuration, and any number of database errors and   *)
(* restarts (MaxClock, MaxFaults and MaxRestarts are arbitrary).  Each     *)
(* property rests on an inductive part of its own; all parts rest on the   *)
(* type invariant and on what a step does to the tables.                   *)
(***************************************************************************)
EXTENDS LoginService, TLAPS

USE DEF Never

AllPCs == {"new"} \cup SendPCs \cup LoginPCs \cup EndPCs

(* What an update of one element does to a sequence.                        *)
LEMMA UpdateOne ==
    ASSUME NEW T, NEW s \in Seq(T), NEW i, NEW v, i \in DOMAIN s => v \in T
    PROVE  /\ [s EXCEPT ![i] = v] \in Seq(T)
           /\ DOMAIN [s EXCEPT ![i] = v] = DOMAIN s
           /\ Len([s EXCEPT ![i] = v]) = Len(s)
           /\ \A j \in DOMAIN s :
                 [s EXCEPT ![i] = v][j] = IF j = i THEN v ELSE s[j]
<1>1. s \in [1 .. Len(s) -> T] /\ Len(s) \in Nat
  OBVIOUS
<1>2. [s EXCEPT ![i] = v] \in [1 .. Len(s) -> T]
  BY <1>1
<1>3. [s EXCEPT ![i] = v] \in Seq(T)
  BY <1>1, <1>2
<1>4. Len([s EXCEPT ![i] = v]) = Len(s)
  BY <1>1, <1>2, <1>3
<1> QED
  BY <1>1, <1>3, <1>4

(* What Append does to a sequence.                                          *)
LEMMA AddOne ==
    ASSUME NEW T, NEW s \in Seq(T), NEW v \in T
    PROVE  /\ Append(s, v) \in Seq(T)
           /\ Len(s) \in Nat /\ DOMAIN s = 1 .. Len(s)
           /\ DOMAIN Append(s, v) = 1 .. Len(s) + 1
           /\ \A j \in DOMAIN s : Append(s, v)[j] = s[j]
           /\ Append(s, v)[Len(s) + 1] = v
OBVIOUS

(* A row that is unlocked is a row, with the same phone.                    *)
LEMMA EmptyLockTime ==
    \A u \in UserRow :
       LET v == [u EXCEPT !.status = "active", !.lockTime = Never] IN
       v \in UserRow /\ v.phone = u.phone /\ v.status = "active"
<1> SUFFICES ASSUME NEW u \in UserRow
             PROVE  LET v == [u EXCEPT !.status = "active",
                                       !.lockTime = Never] IN
                    v \in UserRow /\ v.phone = u.phone /\ v.status = "active"
  OBVIOUS
<1>1. Never \in Int
  OBVIOUS
<1> HIDE DEF Never
<1> QED
  BY <1>1 DEF UserRow

\* The steps of one request.
RequestStep(r) ==
    Arrive(r) \/ SendStep(r) \/ LoginStep(r) \/ DatabaseError(r)

(* The rows of the two tables are only ever added to and changed in place:  *)
(* a row keeps its phone, a code keeps its value and stays used.            *)
TablesGrow ==
    /\ DOMAIN users \subseteq DOMAIN users'
    /\ \A i \in DOMAIN users : users'[i].phone = users[i].phone
    /\ DOMAIN codes \subseteq DOMAIN codes'
    /\ \A i \in DOMAIN codes : /\ codes'[i].phone = codes[i].phone
                               /\ codes'[i].code = codes[i].code
                               /\ codes[i].used => codes'[i].used

(* Every statement keeps the tables well-typed and grows them.              *)
LEMMA StatementTables ==
    ASSUME TypeOK, NEW r \in Requests,
           \/ Statement(r)
           \/ UNCHANGED <<tables, relocked>>
    PROVE  /\ users' \in Seq(UserRow) /\ codes' \in Seq(CodeRow)
           /\ relocked' \in [Requests -> BOOLEAN]
           /\ TablesGrow
<1>1. /\ users \in Seq(UserRow) /\ codes \in Seq(CodeRow)
      /\ Phone(r) \in Phones /\ loc[r] \in Locals
      /\ relocked \in [Requests -> BOOLEAN] /\ restarts \in Nat
  BY DEF TypeOK, Phone, Inputs
<1>2. /\ \A i \in DOMAIN users : users[i] \in UserRow
      /\ \A i \in DOMAIN codes : codes[i] \in CodeRow
  BY <1>1
<1>3. CASE InsertCode(r)
  <2>1. [phone |-> Phone(r), code |-> loc[r].code,
         expireAt |-> loc[r].until, used |-> FALSE,
         run |-> restarts, at |-> loc[r].at] \in CodeRow
    BY <1>1 DEF CodeRow, Locals
  <2> QED
    BY <1>1, <1>3, <2>1, AddOne DEF InsertCode, TablesGrow
<1>4. CASE InsertUser(r)
  <2>1. [phone |-> Phone(r), status |-> "active", lockTime |-> Never]
           \in UserRow
    BY <1>1 DEF UserRow
  <2> QED
    BY <1>1, <1>4, <2>1, AddOne DEF InsertUser, TablesGrow
<1>5. CASE MarkUsed(r)
  <2> DEFINE i == loc[r].vc
             v == [codes[i] EXCEPT !.used = TRUE]
  <2>1. codes' = [codes EXCEPT ![i] = v]
    BY <1>5 DEF MarkUsed
  <2>2. i \in DOMAIN codes => /\ v \in CodeRow /\ v.phone = codes[i].phone
                              /\ v.code = codes[i].code /\ v.used = TRUE
    BY <1>2 DEF CodeRow
  <2> HIDE DEF i, v
  <2>4. /\ codes' \in Seq(CodeRow) /\ DOMAIN codes' = DOMAIN codes
        /\ \A j \in DOMAIN codes : codes'[j] = IF j = i THEN v ELSE codes[j]
    BY <1>1, <2>1, <2>2, UpdateOne
  <2> QED
    BY <1>1, <1>5, <2>2, <2>4 DEF MarkUsed, TablesGrow
<1>6. CASE UpdateLoginMeta(r)
  <2> DEFINE i == loc[r].uid
             v == [users[i] EXCEPT !.status = "active", !.lockTime = Never]
  <2>1. users' = [users EXCEPT ![i] = v]
    BY <1>1, <1>6 DEF UpdateLoginMeta
  <2>2. i \in DOMAIN users => v \in UserRow /\ v.phone = users[i].phone
    BY <1>2, EmptyLockTime
  <2> HIDE DEF i, v
  <2>4. /\ users' \in Seq(UserRow) /\ DOMAIN users' = DOMAIN users
        /\ \A j \in DOMAIN users : users'[j] = IF j = i THEN v ELSE users[j]
    BY <1>1, <2>1, <2>2, UpdateOne
  <2> QED
    BY <1>1, <1>6, <2>2, <2>4 DEF UpdateLoginMeta, TablesGrow
<1>7. CASE Lock(r)
  <2> DEFINE i == loc[r].uid
             v == [users[i] EXCEPT !.status = "locked",
                                   !.lockTime = loc[r].until]
  <2>1. users' = [users EXCEPT ![i] = v]
    BY <1>1, <1>7 DEF Lock
  <2>2. i \in DOMAIN users => v \in UserRow /\ v.phone = users[i].phone
    BY <1>1, <1>2, ZenonT(30) DEF UserRow, Locals
  <2>3. relocked' \in [Requests -> BOOLEAN]
    BY <1>1, <1>7 DEF Lock
  <2> HIDE DEF i, v
  <2>4. /\ users' \in Seq(UserRow) /\ DOMAIN users' = DOMAIN users
        /\ \A j \in DOMAIN users : users'[j] = IF j = i THEN v ELSE users[j]
    BY <1>1, <2>1, <2>2, UpdateOne
  <2> QED
    BY <1>1, <1>7, <2>2, <2>3, <2>4 DEF Lock, TablesGrow
<1>8. CASE UNCHANGED <<tables, relocked>>
  BY <1>1, <1>8 DEF tables, TablesGrow
<1> QED
  BY <1>3, <1>4, <1>5, <1>6, <1>7, <1>8 DEF Statement

-----------------------------------------------------------------------------
(* Type correctness.                                                        *)

(* An Allow that passes leaves a counter.                                   *)
LEMMA CounterType ==
    ASSUME NEW c \in [start : Nat, count : Nat], NEW t \in Nat, NEW w
    PROVE  AfterAllow(c, t, w) \in [start : Nat, count : Nat]
<1>1. [start |-> t, count |-> 1] \in [start : Nat, count : Nat]
  OBVIOUS
<1>2. [c EXCEPT !.count = c.count + 1] \in [start : Nat, count : Nat]
  OBVIOUS
<1> QED
  BY <1>1, <1>2 DEF AfterAllow

(* A request moves to a step of its handler.                                *)
LEMMA GotoType ==
    ASSUME TypeOK, NEW r \in Requests, NEW there \in AllPCs, Goto(r, there)
    PROVE  /\ pc' \in [Requests -> AllPCs] /\ pc'[r] = there
           /\ \A q \in Requests : q # r => pc'[q] = pc[q]
BY DEF TypeOK, Goto, AllPCs

(* A handler changes its own locals.                                        *)
LEMMA LocalsType ==
    ASSUME TypeOK, NEW r \in Requests, NEW v \in Locals,
           loc' = [loc EXCEPT ![r] = v]
    PROVE  /\ loc' \in [Requests -> Locals] /\ loc'[r] = v
           /\ \A q \in Requests : q # r => loc'[q] = loc[q]
BY DEF TypeOK

(* The values a handler gives its locals.                                   *)
LEMMA LocalsValues ==
    ASSUME NEW l \in Locals
    PROVE  /\ [l EXCEPT !.status = "active"] \in Locals
           /\ \A c \in Codes, t \in Int :
                 [l EXCEPT !.code = c, !.until = t] \in Locals
           /\ \A t \in Int : [l EXCEPT !.until = t] \in Locals
           /\ \A t \in Nat : [l EXCEPT !.at = t] \in Locals
           /\ \A id \in Nat : [l EXCEPT !.vc = id] \in Locals
           /\ \A id \in Nat, s \in {"active", "locked"},
                 t \in Int :
                 [l EXCEPT !.uid = id, !.status = s, !.lockTime = t] \in Locals
<1>1. [l EXCEPT !.status = "active"] \in Locals
  BY DEF Locals
<1>2. ASSUME NEW c \in Codes, NEW t \in Int
      PROVE  [l EXCEPT !.code = c, !.until = t] \in Locals
  BY DEF Locals
<1>3. ASSUME NEW t \in Int
      PROVE  [l EXCEPT !.until = t] \in Locals
  BY DEF Locals
<1>4. ASSUME NEW id \in Nat
      PROVE  [l EXCEPT !.vc = id] \in Locals
  BY DEF Locals
<1>6. ASSUME NEW t \in Nat
      PROVE  [l EXCEPT !.at = t] \in Locals
  BY DEF Locals
<1>5. ASSUME NEW id \in Nat, NEW s \in {"active", "locked"},
             NEW t \in Int
      PROVE  [l EXCEPT !.uid = id, !.status = s, !.lockTime = t] \in Locals
  BY DEF Locals
<1> QED
  BY <1>1, <1>2, <1>3, <1>4, <1>5, <1>6

(* Arriving requests touch the limiter only.                                *)
LEMMA ArriveType ==
    ASSUME TypeOK, NEW r \in Requests, Arrive(r)
    PROVE  TypeOK'
<1> USE DEF AllPCs, SendPCs, LoginPCs, EndPCs
<1>1. /\ input[r] \in Inputs /\ Phone(r) \in Phones /\ IP(r) \in IPs
      /\ now \in Nat
  BY DEF TypeOK, Inputs, Phone, IP
<1>2. CASE RejectInput(r)
  <2>1. pc' \in [Requests -> AllPCs]
    BY <1>2, GotoType DEF RejectInput
  <2> QED
    BY <1>2, <2>1
    DEF TypeOK, RejectInput, tables, limiter, environment, histories
<1>3. CASE SendAdmit(r)
  <2>1. pc' \in [Requests -> AllPCs]
    BY <1>3, GotoType DEF SendAdmit
  <2>2. sendIP' \in [IPs -> Nat \cup {Never}]
    BY <1>1, <1>3 DEF SendAdmit, TypeOK
  <2> QED
    BY <1>3, <2>1, <2>2
    DEF TypeOK, SendAdmit, tables, environment, histories
<1>4. CASE LoginAdmit(r)
  <2>1. pc' \in [Requests -> AllPCs]
    BY <1>4, GotoType DEF LoginAdmit
  <2>2. loginIP' \in [IPs -> [start : Nat, count : Nat]]
    <3>1. loginIP[IP(r)] \in [start : Nat, count : Nat]
      BY <1>1 DEF TypeOK
    <3>2. AfterAllow(loginIP[IP(r)], now, LoginIPRateWindow)
             \in [start : Nat, count : Nat]
      BY <1>1, <3>1, CounterType
    <3> QED
      BY <1>1, <1>4, <3>2 DEF LoginAdmit, TypeOK
  <2>3. TokenCodes \in SUBSET Nat
    BY DEF TokenCodes, TypeOK, Locals
  <2>4. spent' \in [Requests -> SUBSET Nat]
    BY <1>4, <2>3 DEF LoginAdmit, TypeOK
  <2> QED
    BY <1>4, <2>1, <2>2, <2>4 DEF TypeOK, LoginAdmit, tables, environment
<1> QED
  BY <1>2, <1>3, <1>4 DEF Arrive

(* The steps that issue a write statement.                                  *)
WriteStep(r) ==
    Insert(r) \/ Create(r) \/ Unlock(r) \/ LockUser(r) \/ ConsumeCode(r)
        \/ IssueToken(r) \/ DatabaseError(r)

LEMMA WriteIsStatement ==
    ASSUME NEW r \in Requests, WriteStep(r)
    PROVE  Statement(r) \/ UNCHANGED <<tables, relocked>>
BY DEF WriteStep, Statement, Insert, Create, Unlock, LockUser, ConsumeCode,
       IssueToken, DatabaseError

(* What the writing steps do besides the statement.                         *)
LEMMA WriteType ==
    ASSUME TypeOK, NEW r \in Requests, WriteStep(r)
    PROVE  TypeOK'
<1> USE DEF AllPCs, SendPCs, LoginPCs, EndPCs
<1>1. /\ users' \in Seq(UserRow) /\ codes' \in Seq(CodeRow)
      /\ relocked' \in [Requests -> BOOLEAN]
  BY WriteIsStatement, StatementTables
<1>2. pc' \in [Requests -> AllPCs]
  <2>1. AfterError(r) \in AllPCs
    BY DEF AfterError
  <2> QED
    BY <2>1, GotoType
    DEF WriteStep, Insert, Create, Unlock, LockUser, ConsumeCode, IssueToken,
        DatabaseError
<1>3. loc' \in [Requests -> Locals]
  <2>1. [loc EXCEPT ![r].status = "active"] \in [Requests -> Locals]
    <3>1. loc[r] \in Locals /\ loc \in [Requests -> Locals]
      BY DEF TypeOK
    <3>2. [loc[r] EXCEPT !.status = "active"] \in Locals
      BY <3>1, LocalsValues
    <3> QED
      BY <3>1, <3>2
  <2> QED
    BY <2>1
    DEF TypeOK, WriteStep, Insert, Create, Unlock, LockUser, ConsumeCode,
        IssueToken, DatabaseError
<1>4. /\ UNCHANGED <<now, limiter, input, restarts, spent, fails>>
      /\ faults' \in Nat
  BY DEF TypeOK, environment, WriteStep, Insert, Create, Unlock, LockUser,
         ConsumeCode, IssueToken, DatabaseError
<1> QED
  BY <1>1, <1>2, <1>3, <1>4 DEF TypeOK, limiter

(* The steps that read the database, the clock or the limiter.              *)
ReadStep(r) ==
    CoolPhone(r) \/ MakeCode(r) \/ ReadUser(r) \/ UserMissing(r)
        \/ CheckLock(r) \/ LatestActive(r) \/ VerifyFail(r)

LEMMA ReadType ==
    ASSUME TypeOK, NEW r \in Requests, ReadStep(r)
    PROVE  TypeOK'
<1> USE DEF AllPCs, SendPCs, LoginPCs, EndPCs
<1>1. /\ Phone(r) \in Phones /\ now \in Nat /\ loc[r] \in Locals
      /\ users \in Seq(UserRow) /\ codes \in Seq(CodeRow)
  BY DEF TypeOK, Inputs, Phone
<1>2. CASE CoolPhone(r)
  <2>1. pc' \in [Requests -> AllPCs]
    BY <1>2, GotoType DEF CoolPhone
  <2>2. sendPhone' \in [Phones -> Nat \cup {Never}]
    BY <1>1, <1>2 DEF CoolPhone, TypeOK
  <2>3. loc' \in [Requests -> Locals]
    <3> DEFINE v == [loc[r] EXCEPT !.at = now]
    <3>1. UNCHANGED loc \/ loc' = [loc EXCEPT ![r] = v]
      BY <1>2 DEF CoolPhone, TypeOK
    <3>2. v \in Locals
      BY <1>1, LocalsValues
    <3> HIDE DEF v
    <3> QED
      BY <3>1, <3>2, LocalsType DEF TypeOK
  <2> QED
    BY <1>2, <2>1, <2>2, <2>3
    DEF TypeOK, CoolPhone, tables, environment, histories
<1>8. CASE MakeCode(r)
  <2>1. pc' \in [Requests -> AllPCs]
    BY <1>8, GotoType DEF MakeCode
  <2>2. loc' \in [Requests -> Locals]
    <3>1. PICK c \in Codes : loc' = [loc EXCEPT ![r].code = c,
                                            ![r].until = now + CodeTTL]
      BY <1>8 DEF MakeCode
    <3> DEFINE v == [loc[r] EXCEPT !.code = c, !.until = now + CodeTTL]
    <3>2. loc' = [loc EXCEPT ![r] = v]
      BY <3>1 DEF TypeOK
    <3>3. now + CodeTTL \in Int
      BY <1>1, ConfigAssumption
    <3>4. v \in Locals
      BY <1>1, <3>3, LocalsValues
    <3> HIDE DEF v
    <3> QED
      BY <3>2, <3>4, LocalsType
  <2> QED
    BY <1>8, <2>1, <2>2
    DEF TypeOK, MakeCode, tables, limiter, environment, histories
<1>3. CASE ReadUser(r)
  <2>1. PICK id \in UsersOf(Phone(r)) :
           /\ loc' = [loc EXCEPT ![r].uid = id,
                                 ![r].status = users[id].status,
                                 ![r].lockTime = users[id].lockTime]
           /\ Goto(r, IF users[id].status = "locked" THEN "check_lock"
                                                     ELSE "latest")
    BY <1>3 DEF ReadUser
  <2>2. pc' \in [Requests -> AllPCs]
    BY <2>1, GotoType
  <2>3. id \in Nat /\ users[id] \in UserRow
    BY <1>1 DEF UsersOf
  <2>4. loc' \in [Requests -> Locals]
    <3> DEFINE v == [loc[r] EXCEPT !.uid = id, !.status = users[id].status,
                                   !.lockTime = users[id].lockTime]
    <3>1. loc' = [loc EXCEPT ![r] = v]
      BY <2>1 DEF TypeOK
    <3>2. /\ users[id].status \in {"active", "locked"}
          /\ users[id].lockTime \in Int
      BY <2>3 DEF UserRow
    <3>3. v \in Locals
      BY <1>1, <2>3, <3>2, LocalsValues
    <3> HIDE DEF v
    <3> QED
      BY <3>1, <3>3, LocalsType
  <2>5. relocked' \in [Requests -> BOOLEAN]
    BY <1>3 DEF ReadUser, TypeOK
  <2> QED
    BY <1>3, <2>2, <2>4, <2>5
    DEF TypeOK, ReadUser, tables, limiter, environment
<1>4. CASE UserMissing(r)
  <2>1. pc' \in [Requests -> AllPCs]
    BY <1>4, GotoType DEF UserMissing
  <2> QED
    BY <1>4, <2>1
    DEF TypeOK, UserMissing, tables, limiter, environment, histories
<1>5. CASE CheckLock(r)
  <2>1. pc' \in [Requests -> AllPCs]
    BY <1>5, GotoType DEF CheckLock
  <2> QED
    BY <1>5, <2>1
    DEF TypeOK, CheckLock, tables, limiter, environment, histories
<1>6. CASE LatestActive(r)
  <2>1. pc' \in [Requests -> AllPCs]
    BY <1>6, GotoType DEF LatestActive
  <2>2. ActiveCodes(Phone(r), now) \subseteq Nat
    BY <1>1 DEF ActiveCodes
  <2>3. loc' \in [Requests -> Locals]
    <3>1. CASE UNCHANGED loc
      BY <3>1 DEF TypeOK
    <3>2. CASE ~UNCHANGED loc
      <4>1. PICK id \in ActiveCodes(Phone(r), now) :
               loc' = [loc EXCEPT ![r].vc = id]
        BY <1>6, <3>2 DEF LatestActive
      <4> DEFINE v == [loc[r] EXCEPT !.vc = id]
      <4>2. loc' = [loc EXCEPT ![r] = v]
        BY <4>1 DEF TypeOK
      <4>3. v \in Locals
        BY <1>1, <2>2, LocalsValues
      <4> HIDE DEF v
      <4> QED
        BY <4>2, <4>3, LocalsType
    <3> QED
      BY <3>1, <3>2
  <2> QED
    BY <1>6, <2>1, <2>3
    DEF TypeOK, LatestActive, tables, limiter, environment, histories
<1>7. CASE VerifyFail(r)
  <2>1. pc' \in [Requests -> AllPCs]
    BY <1>7, GotoType DEF VerifyFail
  <2>2. verifyFail' \in [Phones -> [start : Nat, count : Nat]]
    <3>1. AfterAllow(verifyFail[Phone(r)], now, VerifyWindow)
             \in [start : Nat, count : Nat]
      BY <1>1, CounterType DEF TypeOK
    <3> QED
      BY <1>1, <1>7, <3>1 DEF VerifyFail, TypeOK
  <2>3. loc' \in [Requests -> Locals]
    <3> DEFINE v == [loc[r] EXCEPT !.until = now + LockDuration]
    <3>1. UNCHANGED loc \/ loc' = [loc EXCEPT ![r] = v]
      BY <1>7 DEF VerifyFail, TypeOK
    <3>2. now + LockDuration \in Int
      BY <1>1, ConfigAssumption
    <3>3. v \in Locals
      BY <1>1, <3>2, LocalsValues
    <3> HIDE DEF v
    <3>4. CASE UNCHANGED loc
      BY <3>4 DEF TypeOK
    <3>5. CASE loc' = [loc EXCEPT ![r] = v]
      BY <3>3, <3>5, LocalsType
    <3> QED
      BY <3>1, <3>4, <3>5
  <2>4. fails' \in [Phones -> Seq(Nat)]
    BY <1>1, <1>7 DEF VerifyFail, TypeOK
  <2> QED
    BY <1>7, <2>1, <2>2, <2>3, <2>4 DEF TypeOK, VerifyFail, tables, environment
<1> QED
  BY <1>2, <1>3, <1>4, <1>5, <1>6, <1>7, <1>8 DEF ReadStep

(* A request's step is an arrival, a write or a read.                       *)
LEMMA RequestStepCases ==
    ASSUME NEW r \in Requests, RequestStep(r)
    PROVE  Arrive(r) \/ WriteStep(r) \/ ReadStep(r)
BY DEF RequestStep, SendStep, LoginStep, WriteStep, ReadStep

LEMMA TypeStep == TypeOK /\ [Next]_vars => TypeOK'
<1> SUFFICES ASSUME TypeOK, [Next]_vars PROVE TypeOK'
  OBVIOUS
<1>1. ASSUME NEW r \in Requests, RequestStep(r) PROVE TypeOK'
  BY <1>1, RequestStepCases, ArriveType, WriteType, ReadType
<1>2. CASE Restart
  BY <1>2 DEF Restart, TypeOK, tables, histories, SendPCs, LoginPCs, EndPCs,
              NoCounter
<1>3. CASE Tick
  BY <1>3 DEF Tick, TypeOK, tables, limiter, environment, histories
<1>4. CASE UNCHANGED vars
  BY <1>4 DEF vars, TypeOK, tables, limiter, environment, histories
<1> QED
  BY <1>1, <1>2, <1>3, <1>4 DEF Next, RequestStep

(* Every variable stays in its domain.                                      *)
THEOREM TypeCorrect == Spec => []TypeOK
<1>1. Init => TypeOK
  BY DEF Init, TypeOK, EmptyLimiter, NoCounter, Locals, Inputs, SendPCs,
         LoginPCs, EndPCs
<1> QED
  BY <1>1, TypeStep, PTL DEF Spec

-----------------------------------------------------------------------------
(* Codes and tokens.                                                        *)

(* A request touches nobody else's locals, and nothing but the clock moves  *)
(* the clock.                                                               *)
LEMMA Frame ==
    ASSUME TypeOK, NEW r \in Requests, RequestStep(r)
    PROVE  /\ \A q \in Requests : q # r =>
                 pc'[q] = pc[q] /\ loc'[q] = loc[q] /\ spent'[q] = spent[q]
           /\ UNCHANGED <<now, input, restarts>>
           /\ TablesGrow
<1>1. CASE Arrive(r)
  BY <1>1 DEF Arrive, RejectInput, SendAdmit, LoginAdmit, Goto, TypeOK, tables,
              environment, histories, TablesGrow
<1>2. CASE WriteStep(r)
  <2>1. TablesGrow
    BY <1>2, WriteIsStatement, StatementTables
  <2> QED
    BY <1>2, <2>1
    DEF WriteStep, Insert, Create, Unlock, LockUser, ConsumeCode, IssueToken,
        DatabaseError, Goto, TypeOK, environment
<1>3. CASE ReadStep(r)
  BY <1>3 DEF ReadStep, CoolPhone, MakeCode, ReadUser, UserMissing, CheckLock,
              LatestActive, VerifyFail, Goto, TypeOK, tables, environment,
              histories, TablesGrow
<1> QED
  BY <1>1, <1>2, <1>3, RequestStepCases

(* How a request comes by a code, burns it and gets its token.              *)
LEMMA CodeSteps ==
    ASSUME TypeOK, NEW r \in Requests, RequestStep(r)
    PROVE  /\ pc'[r] = "mark_used" =>
                 /\ loc'[r].vc \in ActiveCodes(Phone(r), now)
                 /\ codes[loc'[r].vc].code = input[r].code
                 /\ spent'[r] = spent[r]
           /\ pc'[r] = "meta" =>
                 /\ pc[r] = "mark_used" /\ MarkUsed(r)
                 /\ spent'[r] = spent[r]
           /\ pc'[r] = "ok" =>
                 /\ pc[r] = "meta" /\ UNCHANGED codes
                 /\ spent'[r] = spent[r]
           /\ pc[r] \in Verified =>
                 pc'[r] \in Verified /\ loc'[r].vc = loc[r].vc
           /\ spent'[r] = spent[r] \/ spent'[r] = TokenCodes
           /\ \/ UNCHANGED codes
              \/ InsertCode(r)
              \/ pc[r] = "mark_used" /\ MarkUsed(r)
<1> USE DEF Verified
<1>1. CASE Arrive(r)
  BY <1>1 DEF Arrive, RejectInput, SendAdmit, LoginAdmit, Goto, TypeOK, tables,
              environment, histories
<1>2. CASE WriteStep(r)
  <2>1. CASE Insert(r) \/ Create(r) \/ LockUser(r) \/ ConsumeCode(r)
                \/ IssueToken(r)
    BY <2>1 DEF Insert, Create, LockUser, ConsumeCode, IssueToken, Goto,
                TypeOK, InsertUser, Lock, UpdateLoginMeta
  <2>2. CASE Unlock(r)
    BY <2>2 DEF Unlock, Goto, TypeOK, UpdateLoginMeta
  <2>3. CASE DatabaseError(r)
    <3>1. /\ pc'[r] = AfterError(r) /\ UNCHANGED spent
          /\ pc[r] # "unlock" => loc' = loc
      BY <2>3 DEF DatabaseError, Goto, TypeOK
    <3>2. /\ pc'[r] \in {"latest", "invalid_argument", "internal_error"}
          /\ pc[r] \in Verified => pc'[r] = "internal_error"
      BY <3>1 DEF AfterError
    <3>3. \/ UNCHANGED codes
          \/ InsertCode(r)
          \/ pc[r] = "mark_used" /\ MarkUsed(r)
      BY <2>3 DEF DatabaseError, Statement, InsertUser, UpdateLoginMeta, Lock,
                  tables
    <3> QED
      BY <3>1, <3>2, <3>3
  <2> QED
    BY <1>2, <2>1, <2>2, <2>3 DEF WriteStep
<1>3. CASE ReadStep(r)
  <2>1. CASE LatestActive(r)
    <3>1. UNCHANGED <<codes, spent>> /\ pc[r] = "latest"
      BY <2>1 DEF LatestActive, tables, histories
    <3>2. CASE pc'[r] = "mark_used"
      <4>1. PICK id \in ActiveCodes(Phone(r), now) :
               /\ loc' = [loc EXCEPT ![r].vc = id]
               /\ Goto(r, IF Hash(Phone(r), input[r].code)
                                = Hash(codes[id].phone, codes[id].code)
                          THEN "mark_used" ELSE "verify_fail")
        BY <2>1, <3>2 DEF LatestActive, Goto, TypeOK
      <4>2. loc'[r].vc = id
        BY <4>1 DEF TypeOK, Locals
      <4>3. Hash(Phone(r), input[r].code)
               = Hash(codes[id].phone, codes[id].code)
        BY <3>2, <4>1 DEF Goto, TypeOK
      <4>4. codes[id].code = input[r].code
        BY <4>3 DEF Hash
      <4> QED
        BY <3>1, <3>2, <4>2, <4>4
    <3>3. CASE pc'[r] # "mark_used"
      BY <2>1, <3>1, <3>3 DEF LatestActive, Goto, TypeOK
    <3> QED
      BY <3>2, <3>3
  <2>2. CASE CoolPhone(r) \/ MakeCode(r) \/ ReadUser(r) \/ UserMissing(r)
                \/ CheckLock(r) \/ VerifyFail(r)
    BY <2>2 DEF CoolPhone, MakeCode, ReadUser, UserMissing, CheckLock,
                VerifyFail, Goto,
                TypeOK, tables, histories
  <2> QED
    BY <1>3, <2>1, <2>2 DEF ReadStep
<1> QED
  BY <1>1, <1>2, <1>3, RequestStepCases

(* A step of a request keeps the code part.                                 *)
LEMMA CodeStep ==
    ASSUME TypeOK, CodeInv, NEW r \in Requests, RequestStep(r)
    PROVE  CodeInv'
<1>1. /\ codes \in Seq(CodeRow) /\ loc[r].vc \in Nat
      /\ codes' \in Seq(CodeRow)
  <2>1. TypeOK'
    BY RequestStepCases, ArriveType, WriteType, ReadType
  <2> QED
    BY <2>1 DEF TypeOK, Locals
<1>2. \A q \in Requests : Phone(q)' = Phone(q) /\ input'[q] = input[q]
  BY Frame DEF Phone
<1>3. /\ \A q \in Requests, id \in DOMAIN codes : Matches(q, id) => Matches(q, id)'
      /\ DOMAIN codes \subseteq DOMAIN codes'
      /\ \A id \in DOMAIN codes : codes[id].used => codes'[id].used
  BY <1>2, Frame DEF Matches, TablesGrow
<1>4. pc[r] = "mark_used" /\ Matches(r, loc[r].vc) /\ MarkUsed(r) =>
          /\ codes'[loc[r].vc].used
          /\ DOMAIN codes' = DOMAIN codes
          /\ \A id \in DOMAIN codes :
                id # loc[r].vc => codes'[id] = codes[id]
  <2> SUFFICES ASSUME Matches(r, loc[r].vc), MarkUsed(r)
               PROVE  /\ codes'[loc[r].vc].used
                      /\ DOMAIN codes' = DOMAIN codes
                      /\ \A id \in DOMAIN codes :
                            id # loc[r].vc => codes'[id] = codes[id]
    OBVIOUS
  <2> DEFINE v == [codes[loc[r].vc] EXCEPT !.used = TRUE]
  <2>1. codes' = [codes EXCEPT ![loc[r].vc] = v] /\ loc[r].vc \in DOMAIN codes
    BY DEF MarkUsed, Matches
  <2>2. v \in CodeRow /\ v.used = TRUE
    BY <1>1, <2>1 DEF CodeRow
  <2> HIDE DEF v
  <2> QED
    BY <1>1, <2>1, <2>2, UpdateOne
<1>5. \A q \in Requests : pc'[q] \in {"mark_used", "meta", "ok"} =>
         Matches(q, loc[q].vc)' /\ loc'[q].vc \notin spent'[q]
  <2>1. ASSUME NEW q \in Requests, q # r,
               pc'[q] \in {"mark_used", "meta", "ok"}
        PROVE  Matches(q, loc[q].vc)' /\ loc'[q].vc \notin spent'[q]
    <3>1. /\ pc'[q] = pc[q] /\ loc'[q] = loc[q] /\ spent'[q] = spent[q]
          /\ Matches(q, loc[q].vc) /\ loc[q].vc \notin spent[q]
      BY <2>1, Frame DEF CodeInv
    <3> QED
      BY <1>2, <3>1, Frame DEF Matches, TablesGrow
  <2>2. ASSUME pc'[r] = "mark_used"
        PROVE  Matches(r, loc[r].vc)' /\ loc'[r].vc \notin spent'[r]
    <3>1. /\ loc'[r].vc \in ActiveCodes(Phone(r), now)
          /\ codes[loc'[r].vc].code = input[r].code /\ spent'[r] = spent[r]
      BY <2>2, CodeSteps
    <3>2. loc'[r].vc \notin spent[r]
      BY <3>1 DEF ActiveCodes, CodeInv
    <3> QED
      BY <1>2, <3>1, <3>2, Frame DEF Matches, ActiveCodes, TablesGrow
  <2>3. ASSUME pc'[r] \in {"meta", "ok"}
        PROVE  Matches(r, loc[r].vc)' /\ loc'[r].vc \notin spent'[r]
    <3>1. /\ pc[r] \in {"mark_used", "meta"} /\ spent'[r] = spent[r]
          /\ loc'[r].vc = loc[r].vc
      BY <2>3, CodeSteps DEF Verified
    <3>2. Matches(r, loc[r].vc) /\ loc[r].vc \notin spent[r]
      BY <3>1 DEF CodeInv
    <3> QED
      BY <1>2, <3>1, <3>2, Frame DEF Matches, TablesGrow
  <2> QED
    BY <2>1, <2>2, <2>3
<1>6. \A q \in Requests : pc'[q] \in {"meta", "ok"} => codes'[loc'[q].vc].used
  <2>1. ASSUME NEW q \in Requests, q # r, pc'[q] \in {"meta", "ok"}
        PROVE  codes'[loc'[q].vc].used
    <3>1. /\ pc'[q] = pc[q] /\ loc'[q] = loc[q]
          /\ loc[q].vc \in DOMAIN codes /\ codes[loc[q].vc].used
      BY <2>1, Frame DEF CodeInv, Matches
    <3> QED
      BY <1>3, <3>1
  <2>2. ASSUME pc'[r] = "meta" PROVE codes'[loc'[r].vc].used
    <3>1. pc[r] = "mark_used" /\ MarkUsed(r) /\ loc'[r].vc = loc[r].vc
      BY <2>2, CodeSteps DEF Verified
    <3> QED
      BY <1>4, <3>1 DEF CodeInv
  <2>3. ASSUME pc'[r] = "ok" PROVE codes'[loc'[r].vc].used
    <3>1. pc[r] = "meta" /\ UNCHANGED codes /\ loc'[r].vc = loc[r].vc
      BY <2>3, CodeSteps DEF Verified
    <3> QED
      BY <3>1 DEF CodeInv
  <2> QED
    BY <2>1, <2>2, <2>3
<1>7. \A q \in Requests : \A id \in spent'[q] :
         id \in DOMAIN codes' /\ codes'[id].used
  <2>1. ASSUME NEW id \in TokenCodes PROVE id \in DOMAIN codes /\ codes[id].used
    BY <2>1 DEF TokenCodes, CodeInv, Matches
  <2>2. \A q \in Requests : spent'[q] = spent[q] \/ spent'[q] = TokenCodes
    BY Frame, CodeSteps
  <2> QED
    BY <1>3, <2>1, <2>2 DEF CodeInv
<1>8. \A id \in DOMAIN codes' : codes'[id].used =>
         \E q \in Requests :
            pc'[q] \in Verified /\ loc'[q].vc = id /\ Matches(q, id)'
  <2> SUFFICES ASSUME NEW id \in DOMAIN codes', codes'[id].used
               PROVE  \E q \in Requests :
                         /\ pc'[q] \in Verified /\ loc'[q].vc = id
                         /\ Matches(q, id)'
    OBVIOUS
  <2>1. ASSUME id \in DOMAIN codes, codes[id].used
        PROVE  \E q \in Requests :
                  pc'[q] \in Verified /\ loc'[q].vc = id /\ Matches(q, id)'
    <3>1. PICK q \in Requests :
             pc[q] \in Verified /\ loc[q].vc = id /\ Matches(q, id)
      BY <2>1 DEF CodeInv
    <3>2. pc'[q] \in Verified /\ loc'[q].vc = id
      BY <3>1, Frame, CodeSteps
    <3> QED
      BY <1>3, <2>1, <3>1, <3>2
  <2>2. CASE UNCHANGED codes
    BY <2>1, <2>2
  <2>3. CASE InsertCode(r)
    <3> DEFINE row == [phone |-> Phone(r), code |-> loc[r].code,
                       expireAt |-> loc[r].until, used |-> FALSE,
                       run |-> restarts, at |-> loc[r].at]
    <3>1. row \in CodeRow /\ row.used = FALSE
      BY DEF TypeOK, CodeRow, Locals, Phone, Inputs
    <3>2. codes' = Append(codes, row)
      BY <2>3 DEF InsertCode
    <3> HIDE DEF row
    <3>3. /\ DOMAIN codes' = 1 .. Len(codes) + 1 /\ DOMAIN codes = 1 .. Len(codes)
          /\ codes'[Len(codes) + 1] = row /\ Len(codes) \in Nat
          /\ \A j \in DOMAIN codes : codes'[j] = codes[j]
      BY <1>1, <3>1, <3>2, AddOne
    <3>4. id \in DOMAIN codes
      BY <3>1, <3>3
    <3> QED
      BY <2>1, <3>3, <3>4
  <2>4. CASE pc[r] = "mark_used" /\ MarkUsed(r)
    <3>1. Matches(r, loc[r].vc)
      BY <2>4 DEF CodeInv
    <3>2. CASE id = loc[r].vc
      <4>1. pc'[r] \in Verified /\ loc'[r].vc = id
        BY <2>4, <3>2, CodeSteps DEF Verified
      <4>2. Matches(r, id)'
        BY <1>3, <3>1, <3>2 DEF Matches
      <4> QED
        BY <4>1, <4>2
    <3>3. CASE id # loc[r].vc
      BY <1>4, <2>1, <2>4, <3>1, <3>3
    <3> QED
      BY <3>2, <3>3
  <2> QED
    BY <2>2, <2>3, <2>4, CodeSteps
<1> QED
  BY <1>5, <1>6, <1>7, <1>8 DEF CodeInv

(* Neither the clock nor a restart touches codes and tokens.                *)
LEMMA CodeEnvironment ==
    ASSUME TypeOK, CodeInv, Restart \/ Tick \/ UNCHANGED vars
    PROVE  CodeInv'
<1>1. /\ UNCHANGED <<codes, loc, spent, input>>
      /\ \A r \in Requests : pc'[r] = pc[r] \/ pc'[r] = "dropped"
      /\ \A r \in Requests : pc[r] \in Verified => pc'[r] \in Verified
  BY DEF Restart, Tick, vars, tables, histories, TypeOK, Verified
<1> QED
  BY <1>1 DEF CodeInv, Matches, Phone

(* The code part holds in every reachable state.                            *)
LEMMA CodeInvariance == Spec => []CodeInv
<1>1. Init => CodeInv
  BY DEF Init, CodeInv
<1>2. TypeOK /\ CodeInv /\ [Next]_vars => CodeInv'
  BY CodeStep, CodeEnvironment DEF Next, RequestStep
<1> QED
  BY <1>1, <1>2, TypeCorrect, PTL DEF Spec

(* A token stands for a code generated for its phone, entered by its client *)
(* and burnt.                                                               *)
THEOREM TokensBacked == Spec => []TokenBacked
<1>1. CodeInv => TokenBacked
  BY DEF CodeInv, TokenBacked, Matches
<1> QED
  BY <1>1, CodeInvariance, PTL

(* Only a request that presented the code burns it.                         *)
THEOREM CodesBurntByMatch == Spec => []BurntOnlyByMatch
<1>1. CodeInv => BurntOnlyByMatch
  BY DEF CodeInv, BurntOnlyByMatch, Matches, Verified
<1> QED
  BY <1>1, CodeInvariance, PTL

(* No request gets a token for a code whose token was out when it came.     *)
THEOREM CodesOneTimeInSequence == Spec => []NoSecondTokenLater
<1>1. CodeInv => NoSecondTokenLater
  BY DEF CodeInv, NoSecondTokenLater
<1> QED
  BY <1>1, CodeInvariance, PTL

-----------------------------------------------------------------------------
(* Accounts.                                                                *)

\* Steps at which a request works on an account it has read.
AccountPCs == {"check_lock", "unlock", "latest", "verify_fail", "lock",
               "mark_used", "meta", "ok"}

(* How a request comes by an account, and who changes the table.            *)
LEMMA AccountSteps ==
    ASSUME TypeOK, NEW r \in Requests, RequestStep(r)
    PROVE  /\ pc'[r] \in AccountPCs =>
                 \/ pc[r] \in AccountPCs /\ loc'[r].uid = loc[r].uid
                 \/ ReadUser(r) /\ loc'[r].uid \in UsersOf(Phone(r))
           /\ \/ UNCHANGED users
              \/ InsertUser(r)
              \/ pc[r] \in {"unlock", "meta"} /\ UpdateLoginMeta(r)
              \/ pc[r] = "lock" /\ Lock(r)
<1> USE DEF AccountPCs
<1>1. CASE Arrive(r)
  BY <1>1 DEF Arrive, RejectInput, SendAdmit, LoginAdmit, Goto, TypeOK, tables
<1>2. CASE WriteStep(r)
  <2>1. CASE Insert(r) \/ Create(r) \/ LockUser(r) \/ ConsumeCode(r)
                \/ IssueToken(r)
    BY <2>1 DEF Insert, Create, LockUser, ConsumeCode, IssueToken, Goto,
                TypeOK, InsertCode, MarkUsed
  <2>2. CASE Unlock(r)
    BY <2>2 DEF Unlock, Goto, TypeOK, Locals
  <2>3. CASE DatabaseError(r)
    <3>1. /\ pc'[r] = AfterError(r)
          /\ pc[r] # "unlock" => loc' = loc
          /\ pc[r] = "unlock" => loc'[r].uid = loc[r].uid
      BY <2>3 DEF DatabaseError, Goto, TypeOK, Locals
    <3>2. pc'[r] \in AccountPCs => pc[r] = "unlock"
      BY <3>1 DEF AfterError
    <3>3. \/ UNCHANGED users
          \/ InsertUser(r)
          \/ pc[r] \in {"unlock", "meta"} /\ UpdateLoginMeta(r)
          \/ pc[r] = "lock" /\ Lock(r)
      BY <2>3 DEF DatabaseError, Statement, InsertCode, MarkUsed, tables
    <3> QED
      BY <3>1, <3>2, <3>3
  <2> QED
    BY <1>2, <2>1, <2>2, <2>3 DEF WriteStep
<1>3. CASE ReadStep(r)
  <2>1. CASE ReadUser(r)
    <3>1. PICK id \in UsersOf(Phone(r)) :
             loc' = [loc EXCEPT ![r].uid = id,
                                ![r].status = users[id].status,
                                ![r].lockTime = users[id].lockTime]
      BY <2>1 DEF ReadUser
    <3>2. loc'[r].uid = id
      BY <3>1 DEF TypeOK, Locals
    <3> QED
      BY <2>1, <3>2 DEF ReadUser, tables
  <2>2. CASE LatestActive(r)
    <3>1. /\ pc[r] = "latest" /\ UNCHANGED users
          /\ \/ UNCHANGED loc
             \/ \E id \in ActiveCodes(Phone(r), now) :
                   loc' = [loc EXCEPT ![r].vc = id]
      BY <2>2 DEF LatestActive, tables
    <3>2. loc'[r].uid = loc[r].uid
      BY <3>1 DEF TypeOK, Locals
    <3> QED
      BY <3>1, <3>2
  <2>3. CASE VerifyFail(r)
    <3>1. /\ pc[r] = "verify_fail" /\ UNCHANGED users
          /\ \/ UNCHANGED loc
             \/ loc' = [loc EXCEPT ![r].until = now + LockDuration]
      BY <2>3 DEF VerifyFail, tables
    <3>2. loc'[r].uid = loc[r].uid
      BY <3>1 DEF TypeOK, Locals
    <3> QED
      BY <3>1, <3>2
  <2>4. CASE CoolPhone(r) \/ MakeCode(r) \/ UserMissing(r) \/ CheckLock(r)
    BY <2>4 DEF CoolPhone, MakeCode, UserMissing, CheckLock, Goto, TypeOK,
                tables
  <2> QED
    BY <1>3, <2>1, <2>2, <2>3, <2>4 DEF ReadStep
<1> QED
  BY <1>1, <1>2, <1>3, RequestStepCases

(* What each of the three statements does to the accounts.                  *)
LEMMA UserWrites ==
    ASSUME TypeOK, NEW r \in Requests
    PROVE  /\ InsertUser(r) =>
                 /\ \A i \in DOMAIN users : users'[i] = users[i]
                 /\ \A i \in DOMAIN users' \ DOMAIN users :
                       /\ users'[i].status = "active"
                       /\ users'[i].phone = Phone(r)
                       /\ UsersOf(Phone(r)) = {}
                       /\ DOMAIN users' = DOMAIN users \cup {i}
           /\ UpdateLoginMeta(r) =>
                 /\ DOMAIN users' = DOMAIN users
                 /\ \A i \in DOMAIN users :
                       IF i = loc[r].uid THEN users'[i].status = "active"
                                         ELSE users'[i] = users[i]
           /\ Lock(r) =>
                 /\ DOMAIN users' = DOMAIN users
                 /\ \A i \in DOMAIN users :
                       IF i = loc[r].uid
                       THEN /\ users'[i].status = "locked"
                            /\ users'[i].lockTime = loc[r].until
                       ELSE users'[i] = users[i]
<1>1. /\ users \in Seq(UserRow) /\ Phone(r) \in Phones /\ loc[r] \in Locals
      /\ \A i \in DOMAIN users : users[i] \in UserRow
  BY DEF TypeOK, Phone, Inputs
<1>2. ASSUME InsertUser(r)
      PROVE  /\ \A i \in DOMAIN users : users'[i] = users[i]
             /\ \A i \in DOMAIN users' \ DOMAIN users :
                   /\ users'[i].status = "active"
                   /\ users'[i].phone = Phone(r)
                   /\ UsersOf(Phone(r)) = {}
                   /\ DOMAIN users' = DOMAIN users \cup {i}
  <2> DEFINE v == [phone |-> Phone(r), status |-> "active",
                   lockTime |-> Never]
  <2>1. v \in UserRow /\ v.phone = Phone(r) /\ v.status = "active"
    BY <1>1 DEF UserRow
  <2>2. users' = users \/ (UsersOf(Phone(r)) = {} /\ users' = Append(users, v))
    BY <1>2 DEF InsertUser
  <2> HIDE DEF v
  <2>3. CASE users' = users
    BY <2>3
  <2>4. CASE UsersOf(Phone(r)) = {} /\ users' = Append(users, v)
    <3>1. /\ DOMAIN users' = 1..(Len(users) + 1)
          /\ DOMAIN users = 1..Len(users)
          /\ \A i \in DOMAIN users : users'[i] = users[i]
          /\ users'[Len(users) + 1] = v
      BY <1>1, <2>1, <2>4
    <3>2. Len(users) \in Nat
      BY <1>1
    <3>3. \A i \in DOMAIN users' \ DOMAIN users : i = Len(users) + 1
      BY <3>1, <3>2
    <3>4. DOMAIN users' = DOMAIN users \cup {Len(users) + 1}
      BY <3>1, <3>2
    <3> QED
      BY <2>1, <2>4, <3>1, <3>3, <3>4
  <2> QED
    BY <2>2, <2>3, <2>4
<1>3. ASSUME UpdateLoginMeta(r)
      PROVE  /\ DOMAIN users' = DOMAIN users
             /\ \A i \in DOMAIN users :
                   IF i = loc[r].uid THEN users'[i].status = "active"
                                     ELSE users'[i] = users[i]
  <2> DEFINE i == loc[r].uid
             v == [users[i] EXCEPT !.status = "active", !.lockTime = Never]
  <2>1. users' = [users EXCEPT ![i] = v]
    BY <1>1, <1>3 DEF UpdateLoginMeta
  <2>2. i \in DOMAIN users => v \in UserRow /\ v.status = "active"
    BY <1>1, EmptyLockTime
  <2> HIDE DEF v
  <2>3. /\ DOMAIN users' = DOMAIN users
        /\ \A j \in DOMAIN users : users'[j] = IF j = i THEN v ELSE users[j]
    BY <1>1, <2>1, <2>2, UpdateOne
  <2> QED
    BY <2>2, <2>3
<1>4. ASSUME Lock(r)
      PROVE  /\ DOMAIN users' = DOMAIN users
             /\ \A i \in DOMAIN users :
                   IF i = loc[r].uid
                   THEN /\ users'[i].status = "locked"
                        /\ users'[i].lockTime = loc[r].until
                   ELSE users'[i] = users[i]
  <2> DEFINE i == loc[r].uid
             v == [users[i] EXCEPT !.status = "locked",
                                   !.lockTime = loc[r].until]
  <2>1. users' = [users EXCEPT ![i] = v]
    BY <1>1, <1>4 DEF Lock
  <2>2. i \in DOMAIN users => /\ v \in UserRow /\ v.status = "locked"
                              /\ v.lockTime = loc[r].until
    BY <1>1 DEF UserRow, Locals
  <2> HIDE DEF v
  <2>3. /\ DOMAIN users' = DOMAIN users
        /\ \A j \in DOMAIN users : users'[j] = IF j = i THEN v ELSE users[j]
    BY <1>1, <2>1, <2>2, UpdateOne
  <2> QED
    BY <2>2, <2>3
<1> QED
  BY <1>2, <1>3, <1>4

(* One account per phone is inductive by itself.                            *)
LEMMA AccountStep ==
    ASSUME TypeOK, OneAccountPerPhone, NEW r \in Requests, RequestStep(r)
    PROVE  OneAccountPerPhone'
<1>1. \A i, j \in DOMAIN users' : users'[i].phone = users'[j].phone => i = j
  <2>1. CASE DOMAIN users' = DOMAIN users
    BY <2>1, Frame DEF TablesGrow, OneAccountPerPhone
  <2>2. CASE InsertUser(r)
    <3> SUFFICES ASSUME NEW i \in DOMAIN users', NEW j \in DOMAIN users',
                        users'[i].phone = users'[j].phone
                 PROVE  i = j
      OBVIOUS
    <3>1. /\ \A k \in DOMAIN users : users'[k] = users[k]
          /\ \A k \in DOMAIN users' \ DOMAIN users :
                /\ users'[k].phone = Phone(r)
                /\ \A m \in DOMAIN users : users[m].phone # Phone(r)
                /\ DOMAIN users' = DOMAIN users \cup {k}
      BY <2>2, UserWrites DEF UsersOf
    <3>2. CASE i \in DOMAIN users /\ j \in DOMAIN users
      BY <3>1, <3>2 DEF OneAccountPerPhone
    <3>3. CASE i \notin DOMAIN users \/ j \notin DOMAIN users
      BY <3>1, <3>3, ZenonT(30)
    <3> QED
      BY <3>2, <3>3
  <2> QED
    BY <2>1, <2>2, AccountSteps, UserWrites
<1>2. ASSUME NEW q \in Requests, pc'[q] \in AccountPCs
      PROVE  loc'[q].uid \in UsersOf(Phone(q))'
  <2>1. loc'[q].uid \in UsersOf(Phone(q))
    BY <1>2, Frame, AccountSteps DEF OneAccountPerPhone, AccountPCs
  <2> QED
    BY <2>1, Frame DEF UsersOf, TablesGrow, Phone
<1> QED
  BY <1>1, <1>2 DEF OneAccountPerPhone, AccountPCs

(* However logins, errors and restarts interleave, a phone has one account. *)
THEOREM AccountsUnique == Spec => []OneAccountPerPhone
<1>1. Init => OneAccountPerPhone
  BY DEF Init, OneAccountPerPhone
<1>2. ASSUME TypeOK, OneAccountPerPhone, Restart \/ Tick \/ UNCHANGED vars
      PROVE  OneAccountPerPhone'
  <2>1. /\ UNCHANGED <<users, loc, input>>
        /\ \A r \in Requests : pc'[r] = pc[r] \/ pc'[r] = "dropped"
    BY <1>2 DEF Restart, Tick, vars, tables, TypeOK
  <2> QED
    BY <1>2, <2>1 DEF OneAccountPerPhone, UsersOf, Phone
<1>3. TypeOK /\ OneAccountPerPhone /\ [Next]_vars => OneAccountPerPhone'
  BY <1>2, AccountStep DEF Next, RequestStep
<1> QED
  BY <1>1, <1>3, TypeCorrect, PTL DEF Spec

-----------------------------------------------------------------------------
(* Locks.                                                                   *)

(* Who learns of a lock: every request that read the account before.        *)
LEMMA Relocks ==
    ASSUME TypeOK, NEW r \in Requests, RequestStep(r), NEW q \in Requests
    PROVE  /\ ~relocked'[q] => ~relocked[q] \/ (ReadUser(r) /\ q = r)
           /\ Lock(r) /\ loc[q].uid = loc[r].uid => relocked'[q]
<1>1. UNCHANGED relocked \/ Lock(r) \/ ReadUser(r)
  <2>1. CASE Arrive(r)
    BY <2>1 DEF Arrive, RejectInput, SendAdmit, LoginAdmit, histories
  <2>2. CASE WriteStep(r)
    BY <2>2, WriteIsStatement
    DEF Statement, InsertCode, InsertUser, UpdateLoginMeta, MarkUsed
  <2>3. CASE ReadStep(r)
    BY <2>3 DEF ReadStep, CoolPhone, MakeCode, UserMissing, CheckLock,
                LatestActive,
                VerifyFail, histories
  <2> QED
    BY <2>1, <2>2, <2>3, RequestStepCases
<1>2. relocked \in [Requests -> BOOLEAN]
  BY DEF TypeOK
<1>3. Lock(r) => relocked'[q] = (relocked[q] \/ loc[q].uid = loc[r].uid)
  BY DEF Lock
<1>4. ReadUser(r) /\ q # r => relocked'[q] = relocked[q]
  BY <1>2 DEF ReadUser
<1>5. CASE Lock(r)
  BY <1>3, <1>5, Zenon
<1>6. CASE ~Lock(r)
  BY <1>1, <1>4, <1>6, Zenon
<1> QED
  BY <1>5, <1>6, Zenon

(* Who goes past the lock, and how.                                         *)
LEMMA LockSteps ==
    ASSUME TypeOK, NEW r \in Requests, RequestStep(r)
    PROVE  /\ pc'[r] = "check_lock" =>
                 /\ ReadUser(r)
                 /\ loc'[r].lockTime = users[loc'[r].uid].lockTime
           /\ pc'[r] \in PassedLock =>
                 \/ ReadUser(r) /\ users[loc'[r].uid].status # "locked"
                 \/ /\ CheckLock(r)
                    /\ loc[r].lockTime = Never \/ now > loc[r].lockTime
                 \/ /\ pc[r] \in PassedLock /\ ~ReadUser(r)
                    /\ loc'[r].uid = loc[r].uid
           /\ pc[r] \in {"unlock", "meta"} => pc'[r] # pc[r]
<1> USE DEF PassedLock
<1>1. CASE Arrive(r)
  <2>1. /\ pc[r] = "new"
        /\ pc'[r] \in {"invalid_argument", "rate_limited", "cool_phone",
                       "get_user"}
    BY <1>1 DEF Arrive, RejectInput, SendAdmit, LoginAdmit, Goto, TypeOK
  <2> QED
    BY <2>1
<1>2. CASE ReadUser(r)
  <2>1. PICK id \in UsersOf(Phone(r)) :
           /\ loc' = [loc EXCEPT ![r].uid = id,
                                 ![r].status = users[id].status,
                                 ![r].lockTime = users[id].lockTime]
           /\ Goto(r, IF users[id].status = "locked" THEN "check_lock"
                                                     ELSE "latest")
    BY <1>2 DEF ReadUser
  <2>2. loc'[r].uid = id /\ loc'[r].lockTime = users[id].lockTime
    BY <2>1 DEF TypeOK, Locals
  <2>3. pc'[r] = IF users[id].status = "locked" THEN "check_lock"
                                                ELSE "latest"
    BY <2>1 DEF Goto, TypeOK
  <2>4. pc[r] \in {"get_user", "ensure_get", "reread"}
    BY <1>2 DEF ReadUser
  <2> QED
    BY <1>2, <2>2, <2>3, <2>4
<1>3. CASE CheckLock(r)
  <2>1. /\ pc[r] = "check_lock"
        /\ pc'[r] = IF loc[r].lockTime = Never \/ now > loc[r].lockTime
                    THEN "unlock" ELSE "account_locked"
    BY <1>3 DEF CheckLock, Goto, TypeOK
  <2> QED
    BY <1>3, <2>1
<1>4. CASE LatestActive(r)
  <2>1. /\ pc[r] = "latest"
        /\ pc'[r] \in {"code_expired", "mark_used", "verify_fail"}
        /\ \/ UNCHANGED loc
           \/ \E id \in ActiveCodes(Phone(r), now) :
                 loc' = [loc EXCEPT ![r].vc = id]
    BY <1>4 DEF LatestActive, Goto, TypeOK
  <2>2. loc'[r].uid = loc[r].uid
    BY <2>1 DEF TypeOK, Locals
  <2>3. ~ReadUser(r)
    BY <2>1 DEF ReadUser
  <2> QED
    BY <2>1, <2>2, <2>3
<1>5. CASE VerifyFail(r) \/ CoolPhone(r) \/ MakeCode(r) \/ UserMissing(r)
  <2>1. /\ pc'[r] \notin PassedLock \cup {"check_lock"}
        /\ pc[r] \notin {"unlock", "meta"}
    BY <1>5 DEF VerifyFail, CoolPhone, MakeCode, UserMissing, Goto, TypeOK
  <2> QED
    BY <2>1
<1>6. CASE WriteStep(r)
  <2>1. pc[r] \in ReadPCs \cup WritePCs /\ (pc[r] # "unlock" => loc' = loc)
    BY <1>6 DEF WriteStep, Insert, Create, Unlock, LockUser, ConsumeCode,
                IssueToken, DatabaseError, ReadPCs, WritePCs
  <2>2. \/ pc'[r] = AfterError(r)
        \/ pc[r] = "insert" /\ pc'[r] = "sent"
        \/ pc[r] = "create" /\ pc'[r] = "reread"
        \/ pc[r] = "unlock" /\ pc'[r] = "latest"
        \/ pc[r] = "lock" /\ pc'[r] = "invalid_argument"
        \/ pc[r] = "mark_used" /\ pc'[r] = "meta"
        \/ pc[r] = "meta" /\ pc'[r] = "ok"
    <3>1. DatabaseError(r) => pc'[r] = AfterError(r)
      BY DEF DatabaseError, Goto, TypeOK
    <3>2. CASE ~DatabaseError(r)
      BY <1>6, <3>2 DEF WriteStep, Insert, Create, Unlock, LockUser,
                        ConsumeCode, IssueToken, Goto, TypeOK
    <3> QED
      BY <3>1, <3>2
  <2>3. CASE pc[r] = "unlock"
    <3>1. loc' = [loc EXCEPT ![r].status = "active"]
      BY <1>6, <2>3 DEF WriteStep, Insert, Create, Unlock, LockUser,
                        ConsumeCode, IssueToken, DatabaseError
    <3>2. loc'[r].uid = loc[r].uid
      BY <3>1 DEF TypeOK, Locals
    <3>3. pc'[r] = "latest" /\ ~ReadUser(r)
      BY <2>2, <2>3 DEF AfterError, ReadUser
    <3> QED
      BY <2>3, <3>2, <3>3
  <2>4. CASE pc[r] = "mark_used"
    BY <2>1, <2>2, <2>4 DEF AfterError, ReadUser
  <2>5. CASE pc[r] \notin {"unlock", "mark_used"}
    BY <1>6, <2>1, <2>2, <2>5 DEF AfterError, ReadPCs, WritePCs
  <2> QED
    BY <2>3, <2>4, <2>5
<1> QED
  BY <1>1, <1>2, <1>3, <1>4, <1>5, <1>6, RequestStepCases DEF ReadStep

(* A request that does not read its account learns nothing, and the row it  *)
(* works on is either left alone or unlocked unless it is told so.          *)
LEMMA RowKept ==
    ASSUME TypeOK, NEW r \in Requests, RequestStep(r), NEW q \in Requests,
           ~(ReadUser(r) /\ q = r), ~relocked'[q],
           loc[q].uid \in DOMAIN users
    PROVE  /\ ~relocked[q]
           /\ \/ users'[loc[q].uid] = users[loc[q].uid]
              \/ users'[loc[q].uid].status = "active"
<1>1. ~relocked[q] /\ ~(Lock(r) /\ loc[q].uid = loc[r].uid)
  BY Relocks
<1>2. \/ UNCHANGED users \/ InsertUser(r) \/ UpdateLoginMeta(r) \/ Lock(r)
  BY AccountSteps
<1> QED
  BY <1>1, <1>2, UserWrites

LEMMA LockStep ==
    ASSUME TypeOK, OneAccountPerPhone, LockInv,
           NEW r \in Requests, RequestStep(r)
    PROVE  LockInv'
<1> SUFFICES ASSUME NEW q \in Requests, ~relocked'[q]
             PROVE  /\ pc'[q] = "check_lock" =>
                          \/ users'[loc'[q].uid].status = "active"
                          \/ users'[loc'[q].uid].lockTime = loc'[q].lockTime
                    /\ pc'[q] \in PassedLock => ~LockedNow(loc[q].uid)'
  BY DEF LockInv
<1>1. now' = now /\ now \in Nat
  BY Frame DEF TypeOK
<1>2. pc[q] \in AccountPCs => loc[q].uid \in DOMAIN users
  BY DEF OneAccountPerPhone, AccountPCs, UsersOf
<1>3. CASE q = r /\ ReadUser(r)
  <2>1. UNCHANGED users
    BY <1>3 DEF ReadUser, tables
  <2> QED
    BY <1>3, <2>1, LockSteps DEF LockedNow, CheckLock, ReadUser, PassedLock
<1>4. CASE q = r /\ CheckLock(r)
  <2>1. UNCHANGED <<users, loc, relocked>> /\ pc[r] = "check_lock"
    BY <1>4 DEF CheckLock, tables, histories
  <2>2. ~ReadUser(r)
    BY <2>1 DEF ReadUser
  <2>3. \/ users[loc[r].uid].status = "active"
        \/ users[loc[r].uid].lockTime = loc[r].lockTime
    BY <1>4, <2>1 DEF LockInv
  <2>4. users[loc[r].uid].lockTime \in Int
    <3>1. \A i \in DOMAIN users : users[i] \in UserRow
      BY DEF TypeOK
    <3> QED
      BY <1>2, <1>4, <2>1, <3>1 DEF AccountPCs, UserRow
  <2> QED
    BY <1>1, <1>4, <2>1, <2>2, <2>3, <2>4, LockSteps
    DEF LockedNow, PassedLock
<1>5. CASE ~(q = r /\ (ReadUser(r) \/ CheckLock(r)))
  <2>1. /\ pc'[q] = "check_lock" => q # r
        /\ pc'[q] \in PassedLock =>
              pc[q] \in PassedLock /\ loc'[q].uid = loc[q].uid
        /\ q # r => pc'[q] = pc[q] /\ loc'[q] = loc[q]
    BY <1>5, LockSteps, Frame
  <2>2. CASE pc'[q] \in PassedLock \cup {"check_lock"}
    <3>1. loc[q].uid \in DOMAIN users /\ loc'[q].uid = loc[q].uid
      BY <1>2, <2>1, <2>2 DEF AccountPCs, PassedLock
    <3>2. /\ ~relocked[q]
          /\ \/ users'[loc[q].uid] = users[loc[q].uid]
             \/ users'[loc[q].uid].status = "active"
      BY <1>5, <3>1, RowKept
    <3> QED
      BY <1>1, <2>1, <2>2, <3>1, <3>2 DEF LockInv, LockedNow, PassedLock
  <2> QED
    BY <2>2
<1> QED
  BY <1>3, <1>4, <1>5

LEMMA LockInvariance == Spec => []LockInv
<1>1. Init => LockInv
  BY DEF Init, LockInv, PassedLock
<1>2. ASSUME TypeOK, OneAccountPerPhone, LockInv,
             Restart \/ Tick \/ UNCHANGED vars
      PROVE  LockInv'
  <2>1. /\ UNCHANGED <<users, loc, relocked>>
        /\ now' \in {now, now + 1}
        /\ \A r \in Requests : pc'[r] = pc[r] \/ pc'[r] = "dropped"
    BY <1>2 DEF Restart, Tick, vars, tables, histories, TypeOK
  <2>2. ASSUME NEW id \in DOMAIN users, LockedNow(id)' PROVE LockedNow(id)
    <3>1. users[id].lockTime \in Int /\ now \in Nat
      <4>1. users[id] \in UserRow
        BY <1>2 DEF TypeOK
      <4> QED
        BY <1>2, <4>1 DEF TypeOK, UserRow
    <3> QED
      BY <2>1, <2>2, <3>1 DEF LockedNow
  <2>3. ASSUME NEW r \in Requests, pc'[r] \in PassedLock
        PROVE  loc[r].uid \in DOMAIN users
    BY <1>2, <2>1, <2>3 DEF OneAccountPerPhone, PassedLock, UsersOf
  <2> QED
    BY <1>2, <2>1, <2>2, <2>3 DEF LockInv, PassedLock
<1>3. TypeOK /\ OneAccountPerPhone /\ LockInv /\ [Next]_vars => LockInv'
  BY <1>2, LockStep DEF Next, RequestStep
<1> QED
  BY <1>1, <1>3, TypeCorrect, AccountsUnique, PTL DEF Spec

(* A lock that runs is taken off only by a request that read the account    *)
(* before the lock was set (UpdateLoginMeta does not look at the row).      *)
THEOREM NewcomersStayOut == Spec => LockStopsNewcomers
<1>1. ASSUME TypeOK, LockInv, [Next]_vars,
             NEW id \in DOMAIN users, LockedNow(id),
             users'[id].status = "active"
      PROVE  \E r \in Requests :
                /\ pc[r] \in {"unlock", "meta"} /\ pc'[r] # pc[r]
                /\ loc[r].uid = id /\ relocked[r]
  <2>1. users' # users
    BY <1>1 DEF LockedNow
  <2>2. PICK r \in Requests : RequestStep(r)
    BY <1>1, <2>1 DEF Next, RequestStep, Restart, Tick, vars, tables
  <2>3. /\ pc[r] \in {"unlock", "meta"} /\ UpdateLoginMeta(r)
        /\ loc[r].uid = id
    BY <1>1, <2>1, <2>2, AccountSteps, UserWrites DEF LockedNow
  <2>4. pc'[r] # pc[r]
    BY <1>1, <2>2, <2>3, LockSteps
  <2>5. relocked[r]
    BY <1>1, <2>3 DEF LockInv, PassedLock
  <2> QED
    BY <2>3, <2>4, <2>5
<1>2. TypeOK /\ LockInv /\ [Next]_vars =>
         [ \A id \in DOMAIN users :
             LockedNow(id) /\ users'[id].status = "active" =>
               \E r \in Requests :
                   /\ pc[r] \in {"unlock", "meta"} /\ pc'[r] # pc[r]
                   /\ loc[r].uid = id /\ relocked[r] ]_vars
  BY <1>1
<1> QED
  BY <1>2, TypeCorrect, LockInvariance, PTL DEF Spec, LockStopsNewcomers

-----------------------------------------------------------------------------
(* Failures.                                                                *)

(* Who counts a failure, and who is sent to lock the account.               *)
LEMMA FailSteps ==
    ASSUME TypeOK, NEW r \in Requests, RequestStep(r)
    PROVE  /\ VerifyFail(r) \/ UNCHANGED <<verifyFail, fails>>
           /\ pc'[r] = "lock" => VerifyFail(r)
<1>1. CASE Arrive(r)
  BY <1>1 DEF Arrive, RejectInput, SendAdmit, LoginAdmit, Goto, TypeOK,
              limiter, histories
<1>2. CASE WriteStep(r)
  <2>1. UNCHANGED <<verifyFail, fails>>
    BY <1>2 DEF WriteStep, Insert, Create, Unlock, LockUser, ConsumeCode,
                IssueToken, DatabaseError, limiter
  <2>2. DatabaseError(r) => pc'[r] # "lock"
    BY DEF DatabaseError, AfterError, Goto, TypeOK
  <2>3. CASE ~DatabaseError(r)
    BY <1>2, <2>1, <2>3 DEF WriteStep, Insert, Create, Unlock, LockUser,
                            ConsumeCode, IssueToken, Goto, TypeOK
  <2> QED
    BY <2>1, <2>2, <2>3
<1>3. CASE ReadUser(r)
  <2>1. /\ pc'[r] \in {"check_lock", "latest"}
        /\ UNCHANGED <<verifyFail, fails>>
    BY <1>3 DEF ReadUser, Goto, TypeOK, limiter
  <2> QED
    BY <2>1
<1>4. CASE LatestActive(r)
  <2>1. /\ pc'[r] \in {"code_expired", "mark_used", "verify_fail"}
        /\ UNCHANGED <<verifyFail, fails>>
    BY <1>4 DEF LatestActive, Goto, TypeOK, limiter, histories
  <2> QED
    BY <2>1
<1>5. CASE CoolPhone(r) \/ MakeCode(r) \/ UserMissing(r) \/ CheckLock(r)
  BY <1>5 DEF CoolPhone, MakeCode, UserMissing, CheckLock, Goto, TypeOK,
              limiter,
              histories
<1>6. CASE VerifyFail(r)
  BY <1>6
<1> QED
  BY <1>1, <1>2, <1>3, <1>4, <1>5, <1>6, RequestStepCases DEF ReadStep

(* Failures are only ever added.                                            *)
LEMMA FailsGrow ==
    ASSUME TypeOK, NEW r \in Requests, RequestStep(r), NEW p \in Phones,
           NEW t, FailedTooOften(p, t)
    PROVE  FailedTooOften(p, t)'
<1>1. PICK i \in DOMAIN fails[p], j \in DOMAIN fails[p] :
         /\ j - i = Attempts /\ fails[p][j] - fails[p][i] < VerifyWindow
         /\ t >= fails[p][j] + LockDuration
  BY DEF FailedTooOften
<1>2. fails[p] \in Seq(Nat) /\ now \in Nat
  BY DEF TypeOK
<1>3. fails'[p] = fails[p] \/ fails'[p] = Append(fails[p], now)
  BY FailSteps DEF VerifyFail, TypeOK
<1>4. /\ i \in DOMAIN fails'[p] /\ j \in DOMAIN fails'[p]
      /\ fails'[p][i] = fails[p][i] /\ fails'[p][j] = fails[p][j]
  <2>1. CASE fails'[p] = Append(fails[p], now)
    <3>1. /\ DOMAIN fails[p] = 1 .. Len(fails[p]) /\ Len(fails[p]) \in Nat
          /\ DOMAIN fails'[p] = 1 .. Len(fails[p]) + 1
          /\ \A k \in DOMAIN fails[p] : fails'[p][k] = fails[p][k]
      BY <1>2, <2>1, AddOne, SMTT(30)
    <3> QED
      BY <3>1
  <2> QED
    BY <1>3, <2>1
<1> QED
  BY <1>1, <1>4 DEF FailedTooOften, Attempts

(* A failure that passes Allow is counted; one that does not pass is the    *)
(* last of Attempts + 1 failures in less than a window.                     *)
LEMMA VerifyFailCounts ==
    ASSUME TypeOK, NEW r \in Requests, VerifyFail(r),
           NEW p \in Phones, p = Phone(r), Counts(p)
    PROVE  /\ Counts(p)'
           /\ pc'[r] = "lock" =>
                 \A t : t = loc'[r].until => FailedTooOften(p, t)'
<1> DEFINE c == verifyFail[p]
           s == fails[p]
<1>1. /\ now \in Nat /\ c \in [start : Nat, count : Nat]
      /\ c.start \in Nat /\ c.count \in Nat
      /\ s \in Seq(Nat) /\ Len(s) \in Nat
      /\ \A k \in DOMAIN s : s[k] \in Nat
  BY DEF TypeOK
<1>2. /\ Attempts \in Nat \ {0} /\ Attempts >= MaxVerifyAttempts
      /\ Attempts' = Attempts
      /\ MaxVerifyAttempts \in Int /\ VerifyWindow \in Int
  BY ConfigAssumption DEF Attempts
<1>3. /\ c.start <= now /\ c.count <= Attempts /\ c.count <= Len(s)
      /\ \A k \in DOMAIN s : k > Len(s) - c.count => s[k] >= c.start
  BY DEF Counts
<1>4. now' = now
  BY DEF VerifyFail
<1>5. fails'[p] = Append(s, now)
  BY <1>1 DEF VerifyFail, TypeOK
<1>6. /\ Len(fails'[p]) = Len(s) + 1 /\ DOMAIN fails'[p] = 1 .. Len(s) + 1
      /\ DOMAIN s = 1 .. Len(s)
      /\ \A k \in DOMAIN s : fails'[p][k] = s[k]
      /\ fails'[p][Len(s) + 1] = now
  BY <1>1, <1>5, AddOne
<1>7. CASE AllowPasses(c, now, MaxVerifyAttempts, VerifyWindow)
  <2>1. /\ verifyFail'[p] = AfterAllow(c, now, VerifyWindow)
        /\ pc'[r] = "invalid_argument"
    BY <1>1, <1>7 DEF VerifyFail, TypeOK, Goto
  <2>2. CASE NewWindow(c, now, VerifyWindow)
    <3>1. verifyFail'[p].start = now /\ verifyFail'[p].count = 1
      BY <2>1, <2>2 DEF AfterAllow
    <3> HIDE DEF c, s
    <3>2. ASSUME NEW k \in DOMAIN fails'[p], k > Len(fails'[p]) - 1
          PROVE  fails'[p][k] >= now
      BY <1>1, <1>6, <3>2
    <3>3. Counts(p)'
      BY <1>1, <1>2, <1>4, <1>6, <3>1, <3>2 DEF Counts
    <3> QED
      BY <2>1, <3>3
  <2>3. CASE ~NewWindow(c, now, VerifyWindow)
    <3>1. verifyFail'[p].start = c.start /\ verifyFail'[p].count = c.count + 1
      BY <1>1, <2>1, <2>3 DEF AfterAllow
    <3>2. c.count < MaxVerifyAttempts
      BY <1>7, <2>3 DEF AllowPasses
    <3> HIDE DEF c, s
    <3>3. ASSUME NEW k \in DOMAIN fails'[p],
                 k > Len(fails'[p]) - (c.count + 1)
          PROVE  fails'[p][k] >= c.start
      <4>1. CASE k = Len(s) + 1
        BY <1>3, <1>6, <4>1
      <4>2. CASE k # Len(s) + 1
        <5>1. k \in DOMAIN s /\ k > Len(s) - c.count
          BY <1>1, <1>6, <3>3, <4>2
        <5> QED
          BY <1>3, <1>6, <5>1
      <4> QED
        BY <4>1, <4>2
    <3>4. Counts(p)'
      BY <1>1, <1>2, <1>3, <1>4, <1>6, <3>1, <3>2, <3>3 DEF Counts
    <3> QED
      BY <2>1, <3>4
  <2> QED
    BY <2>2, <2>3
<1>8. CASE ~AllowPasses(c, now, MaxVerifyAttempts, VerifyWindow)
  <2>1. verifyFail' = verifyFail
    BY <1>8 DEF VerifyFail
  <2>2. c.count = Attempts /\ now - c.start < VerifyWindow
    BY <1>1, <1>2, <1>3, <1>8 DEF AllowPasses, NewWindow, Attempts
  <2>6. loc'[r].until = now + LockDuration
    <3>1. loc' = [loc EXCEPT ![r].until = now + LockDuration]
      BY <1>8 DEF VerifyFail
    <3>2. loc \in [Requests -> Locals]
      BY DEF TypeOK
    <3> QED
      BY <3>1, <3>2 DEF Locals
  <2> HIDE DEF c, s
  <2>3. ASSUME NEW k \in DOMAIN fails'[p], k > Len(fails'[p]) - c.count
        PROVE  fails'[p][k] >= c.start
    <3>1. CASE k = Len(s) + 1
      BY <1>3, <1>6, <3>1
    <3>2. CASE k # Len(s) + 1
      <4>1. k \in DOMAIN s /\ k > Len(s) - c.count
        BY <1>1, <1>6, <2>3, <3>2
      <4> QED
        BY <1>1, <1>3, <1>6, <4>1
    <3> QED
      BY <3>1, <3>2
  <2>4. Counts(p)'
    BY <1>1, <1>3, <1>4, <1>6, <2>1, <2>3 DEF Counts, Attempts, c
  <2>5. ASSUME NEW t, t = loc'[r].until PROVE FailedTooOften(p, t)'
    <3> DEFINE i == Len(s) + 1 - Attempts
               j == Len(s) + 1
    <3>1. /\ i \in DOMAIN s /\ i > Len(s) - c.count /\ j - i = Attempts
          /\ i \in DOMAIN fails'[p] /\ j \in DOMAIN fails'[p]
      BY <1>1, <1>2, <1>3, <1>6, <2>2
    <3>2. fails'[p][j] - fails'[p][i] < VerifyWindow
      <4>1. fails'[p][j] = now /\ fails'[p][i] = s[i] /\ s[i] \in Nat
        BY <1>1, <1>6, <3>1
      <4>2. s[i] >= c.start
        BY <1>3, <3>1
      <4> QED
        BY <1>1, <1>2, <2>2, <4>1, <4>2, SMTT(30)
    <3>3. t >= fails'[p][j] + LockDuration
      BY <1>1, <1>6, <2>6, <2>5, ConfigAssumption
    <3> HIDE DEF i, j
    <3> QED
      BY <1>2, <3>1, <3>2, <3>3 DEF FailedTooOften
  <2> QED
    BY <2>4, <2>5
<1> QED
  BY <1>7, <1>8

LEMMA FailStep ==
    ASSUME TypeOK, OneAccountPerPhone, FailInv,
           NEW r \in Requests, RequestStep(r)
    PROVE  FailInv'
<1>1. /\ now' = now /\ UNCHANGED input
      /\ \A q \in Requests : Phone(q) \in Phones /\ Phone(q)' = Phone(q)
  BY Frame DEF TypeOK, Phone, Inputs
<1>2. ASSUME NEW p \in Phones PROVE Counts(p)'
  <2>1. CASE VerifyFail(r) /\ p = Phone(r)
    BY <2>1, VerifyFailCounts DEF FailInv
  <2>2. CASE ~(VerifyFail(r) /\ p = Phone(r))
    <3>1. fails'[p] = fails[p] /\ verifyFail'[p] = verifyFail[p]
      <4>1. CASE VerifyFail(r) /\ p # Phone(r)
        BY <4>1 DEF VerifyFail, TypeOK
      <4> QED
        BY <2>2, <4>1, FailSteps
    <3> QED
      BY <1>1, <3>1 DEF FailInv, Counts, Attempts
  <2> QED
    BY <2>1, <2>2
<1>3. ASSUME NEW q \in Requests, pc'[q] = "lock",
             NEW p \in Phones, p = Phone(q), NEW t, t = loc'[q].until
      PROVE  FailedTooOften(p, t)'
  <2>1. CASE q = r
    BY <1>3, <2>1, FailSteps, VerifyFailCounts DEF FailInv
  <2>2. CASE q # r
    <3>1. pc[q] = "lock" /\ t = loc[q].until
      BY <1>3, <2>2, Frame
    <3> QED
      BY <1>3, <3>1, FailsGrow DEF FailInv, LockedOnlyForFailures
  <2> QED
    BY <2>1, <2>2
<1>4. ASSUME NEW id \in DOMAIN users', users'[id].status = "locked",
             NEW p \in Phones, p = users'[id].phone,
             NEW t, t = users'[id].lockTime
      PROVE  FailedTooOften(p, t)'
  <2>1. /\ id \in DOMAIN users /\ p = users[id].phone
        /\ \/ users[id].status = "locked" /\ t = users[id].lockTime
           \/ pc[r] = "lock" /\ id = loc[r].uid /\ t = loc[r].until
    <3>1. /\ id \in DOMAIN users
          /\ \/ users[id].status = "locked" /\ t = users[id].lockTime
             \/ pc[r] = "lock" /\ id = loc[r].uid /\ t = loc[r].until
      BY <1>4, AccountSteps, UserWrites, ZenonT(30)
    <3> QED
      BY <1>4, <3>1, Frame DEF TablesGrow
  <2>2. FailedTooOften(p, t)
    BY <2>1 DEF FailInv, LockedOnlyForFailures, OneAccountPerPhone, UsersOf
  <2> QED
    BY <2>2, FailsGrow
<1>5. \A id \in DOMAIN users' : users'[id].phone \in Phones
  <2>1. users' \in Seq(UserRow)
    BY TypeStep DEF TypeOK, Next, RequestStep
  <2>2. \A id \in DOMAIN users' : users'[id] \in UserRow
    BY <2>1
  <2> QED
    BY <2>2 DEF UserRow
<1>6. /\ \A id \in DOMAIN users' : users'[id].status = "locked" =>
            FailedTooOften(users[id].phone, users[id].lockTime)'
      /\ \A q \in Requests :
            pc'[q] = "lock" => FailedTooOften(Phone(q), loc[q].until)'
  BY <1>1, <1>3, <1>4, <1>5 DEF FailedTooOften
<1> QED
  BY <1>2, <1>6 DEF FailInv, LockedOnlyForFailures

LEMMA FailInvariance == Spec => []FailInv
<1>1. Init => FailInv
  <2>1. Attempts >= 0
    BY ConfigAssumption DEF Attempts
  <2> QED
    BY <2>1, ConfigAssumption
    DEF Init, FailInv, LockedOnlyForFailures, Counts, EmptyLimiter, NoCounter
<1>2. ASSUME TypeOK, FailInv, Restart \/ Tick \/ UNCHANGED vars
      PROVE  FailInv'
  <2>1. /\ UNCHANGED <<users, input, fails, loc>>
        /\ now \in Nat /\ now' \in {now, now + 1}
        /\ \A r \in Requests : pc'[r] = pc[r] \/ pc'[r] = "dropped"
        /\ \A p \in Phones :
              verifyFail'[p] = verifyFail[p] \/ verifyFail'[p] = NoCounter
    BY <1>2 DEF Restart, Tick, vars, tables, limiter, histories, TypeOK
  <2>2. LockedOnlyForFailures'
    BY <1>2, <2>1 DEF FailInv, LockedOnlyForFailures, FailedTooOften, Phone,
                      Attempts
  <2>3. ASSUME NEW p \in Phones PROVE Counts(p)'
    <3>1. /\ verifyFail[p].start \in Nat /\ verifyFail[p].count \in Nat
          /\ fails[p] \in Seq(Nat) /\ Len(fails[p]) \in Nat
          /\ \A k \in DOMAIN fails[p] : fails[p][k] \in Nat
          /\ DOMAIN fails[p] = 1 .. Len(fails[p])
      BY <1>2 DEF TypeOK
    <3>2. Attempts >= 0
      BY ConfigAssumption DEF Attempts
    <3>3. CASE verifyFail'[p] = verifyFail[p]
      BY <1>2, <2>1, <3>1, <3>3 DEF FailInv, Counts, Attempts
    <3>4. CASE verifyFail'[p] = NoCounter
      BY <2>1, <3>1, <3>2, <3>4 DEF Counts, Attempts, NoCounter
    <3> QED
      BY <2>1, <3>3, <3>4
  <2> QED
    BY <2>2, <2>3 DEF FailInv
<1>3. TypeOK /\ OneAccountPerPhone /\ FailInv /\ [Next]_vars => FailInv'
  BY <1>2, FailStep DEF Next, RequestStep
<1> QED
  BY <1>1, <1>3, TypeCorrect, AccountsUnique, PTL DEF Spec

(* No account is locked, or about to be, for fewer than Attempts + 1        *)
(* failures of its phone in less than a window, or for less than            *)
(* LockDuration from the last of them (handleVerifyFailure): two failing    *)
(* logins may write their lock times in either order, and neither shortens  *)
(* the lock that the code promises.                                         *)
THEOREM LocksHaveCause == Spec => []LockedOnlyForFailures
<1>1. FailInv => LockedOnlyForFailures
  BY DEF FailInv
<1> QED
  BY <1>1, FailInvariance, PTL

-----------------------------------------------------------------------------
(* The codes of a phone.                                                    *)

\* The second cooldown lets the request pass.
PassesPhone(r) ==
    /\ CooldownPasses(sendPhone[Phone(r)], now, SendCodeCooldown)
    /\ sendPhone' = [sendPhone EXCEPT ![Phone(r)] = now]
    /\ loc'[r].at = now
    /\ UNCHANGED codes

(* A request starts to wait for its row by passing the second cooldown, and *)
(* stops waiting with the statement that may add it.                        *)
LEMMA SpacingSteps ==
    ASSUME TypeOK, NEW r \in Requests, RequestStep(r)
    PROVE  /\ \/ PassesPhone(r)
              \/ /\ UNCHANGED sendPhone
                 /\ Pending(r)' => Pending(r) /\ loc'[r].at = loc[r].at
           /\ \/ UNCHANGED codes
              \/ Pending(r) /\ ~Pending(r)' /\ InsertCode(r)
              \/ MarkUsed(r)
<1> USE DEF Pending
<1>0. /\ loc \in [Requests -> Locals] /\ loc[r] \in Locals
      /\ pc \in [Requests -> {"new"} \cup SendPCs \cup LoginPCs \cup EndPCs]
  BY DEF TypeOK
<1>1. CASE Arrive(r)
  BY <1>0, <1>1 DEF Arrive, RejectInput, SendAdmit, LoginAdmit, Goto, tables,
                    limiter
<1>2. CASE WriteStep(r)
  <2>1. UNCHANGED sendPhone /\ ~Pending(r)'
    <3>1. AfterError(r) \in {"latest", "invalid_argument", "internal_error"}
      BY DEF AfterError
    <3> QED
      BY <1>0, <1>2, <3>1 DEF WriteStep, Insert, Create, Unlock, LockUser,
             ConsumeCode, IssueToken, DatabaseError, Goto, limiter
  <2>2. \/ pc[r] = "insert" /\ InsertCode(r)
        \/ MarkUsed(r)
        \/ UNCHANGED codes
    BY <1>2 DEF WriteStep, Insert, Create, Unlock, LockUser, ConsumeCode,
                IssueToken, DatabaseError, Statement, InsertUser,
                UpdateLoginMeta, Lock, tables
  <2> QED
    BY <2>1, <2>2
<1>3. CASE CoolPhone(r)
  BY <1>0, <1>3 DEF CoolPhone, Goto, PassesPhone, tables, Locals
<1>4. CASE MakeCode(r)
  <2>1. PICK c \in Codes : loc' = [loc EXCEPT ![r].code = c,
                                          ![r].until = now + CodeTTL]
    BY <1>4 DEF MakeCode
  <2>2. loc'[r].at = loc[r].at
    BY <1>0, <2>1 DEF Locals
  <2> QED
    BY <1>4, <2>2 DEF MakeCode, tables, limiter
<1>5. CASE ReadUser(r) \/ UserMissing(r) \/ CheckLock(r) \/ LatestActive(r)
              \/ VerifyFail(r)
  <2>1. UNCHANGED <<codes, sendPhone>>
    BY <1>5 DEF ReadUser, UserMissing, CheckLock, LatestActive, VerifyFail,
                tables, limiter
  <2>2. ~Pending(r)'
    BY <1>0, <1>5 DEF ReadUser, UserMissing, CheckLock, LatestActive,
                      VerifyFail, Goto
  <2> QED
    BY <2>1, <2>2
<1> QED
  BY <1>1, <1>2, <1>3, <1>4, <1>5, RequestStepCases DEF ReadStep

(* The types the argument needs.                                            *)
LEMMA SpacingTypes ==
    ASSUME TypeOK
    PROVE  /\ now \in Nat /\ restarts \in Nat /\ codes \in Seq(CodeRow)
           /\ \A p \in Phones : sendPhone[p] \in Nat \cup {Never}
           /\ \A r \in Requests : loc[r].at \in Nat /\ Phone(r) \in Phones
           /\ \A id \in DOMAIN codes :
                 /\ codes[id].phone \in Phones /\ codes[id].at \in Nat
                 /\ codes[id].run \in Nat
<1>1. /\ \A id \in DOMAIN codes : codes[id] \in CodeRow
      /\ \A r \in Requests : loc[r] \in Locals /\ input[r] \in Inputs
  BY DEF TypeOK
<1> QED
  BY <1>1 DEF TypeOK, CodeRow, Locals, Inputs, Phone

(* A row that is marked keeps what the argument reads.                      *)
LEMMA MarkKeeps ==
    ASSUME TypeOK, NEW r \in Requests, MarkUsed(r)
    PROVE  /\ DOMAIN codes' = DOMAIN codes
           /\ \A id \in DOMAIN codes :
                 /\ codes'[id].phone = codes[id].phone
                 /\ codes'[id].run = codes[id].run
                 /\ codes'[id].at = codes[id].at
<1>1. /\ codes \in Seq(CodeRow)
      /\ \A id \in DOMAIN codes : codes[id] \in CodeRow
  BY DEF TypeOK
<1> QED
  BY <1>1 DEF MarkUsed, CodeRow

(* The first half of a step: the limiter and the requests that wait.        *)
LEMMA PassesKnown ==
    ASSUME TypeOK, SpacedInv, NEW r \in Requests, RequestStep(r)
    PROVE  /\ \A p \in Phones, t \in Nat :
                 PassedSince(p, t) => PassedSince(p, t)'
           /\ \A p \in Phones : sendPhone'[p] <= now'
           /\ \A q \in Requests : Pending(q)' =>
                 /\ PassedSince(Phone(q), loc[q].at)'
                 /\ \A o \in Requests :
                       o # q /\ Pending(o)' /\ Phone(o) = Phone(q) =>
                          Apart(loc'[o].at, loc'[q].at)
                 /\ \A id \in DOMAIN codes :
                       codes[id].run = restarts /\ codes[id].phone = Phone(q)
                          => Apart(codes[id].at, loc'[q].at)
<1>1. /\ UNCHANGED <<now, input, restarts>>
      /\ \A q \in Requests : Phone(q)' = Phone(q)
      /\ \A q \in Requests \ {r} :
            loc'[q] = loc[q] /\ (Pending(q)' => Pending(q))
  BY Frame DEF Phone, Pending
<1>2. SendCodeCooldown \in Int
  BY ConfigAssumption
<1>3. CASE PassesPhone(r)
  <2> DEFINE p == Phone(r)
  <2>1. /\ sendPhone'[p] = now /\ now \in Nat /\ p \in Phones
        /\ \A o \in Phones \ {p} : sendPhone'[o] = sendPhone[o]
        /\ loc'[r].at = now
        /\ \A o \in Phones : sendPhone[o] <= now
    BY <1>3, SpacingTypes DEF PassesPhone, TypeOK, SpacedInv
  <2>2. \A t \in Nat : PassedSince(p, t) => now - t >= SendCodeCooldown
    BY <1>2, <1>3, <2>1, SpacingTypes
    DEF PassesPhone, CooldownPasses, PassedSince
  <2> HIDE DEF p
  <2>3. ASSUME NEW o \in Phones, NEW t \in Nat, PassedSince(o, t)
        PROVE  PassedSince(o, t)'
    <3>1. CASE o = p
      BY <2>1, <2>3, <3>1, SpacingTypes DEF PassedSince
    <3>2. CASE o # p
      BY <2>1, <2>3, <3>2 DEF PassedSince
    <3> QED
      BY <3>1, <3>2
  <2>4. \A q \in Requests \ {r} : Pending(q) =>
           /\ PassedSince(Phone(q), loc[q].at)
           /\ loc[q].at \in Nat /\ Phone(q) \in Phones
    BY SpacingTypes DEF SpacedInv
  <2>5. \A q \in Requests \ {r} : Pending(q)' /\ Phone(q) = p =>
           Apart(loc'[q].at, loc'[r].at) /\ Apart(loc'[r].at, loc'[q].at)
    BY <1>1, <2>1, <2>2, <2>4 DEF Apart
  <2>6. \A id \in DOMAIN codes :
           codes[id].run = restarts /\ codes[id].phone = p =>
              Apart(codes[id].at, loc'[r].at)
    BY <2>1, <2>2, SpacingTypes DEF Apart, SpacedInv
  <2>7. \A q \in Requests \ {r} : Pending(q)' =>
           PassedSince(Phone(q), loc[q].at)'
    BY <1>1, <2>3, <2>4 DEF PassedSince
  <2>8. \A q \in Requests \ {r}, o \in Requests \ {r} :
           Pending(q)' /\ Pending(o)' /\ o # q /\ Phone(o) = Phone(q) =>
              Apart(loc'[o].at, loc'[q].at)
    BY <1>1 DEF SpacedInv
  <2>9. \A q \in Requests \ {r}, id \in DOMAIN codes :
            /\ Pending(q)' /\ codes[id].run = restarts
            /\ codes[id].phone = Phone(q)
            => Apart(codes[id].at, loc'[q].at)
    BY <1>1 DEF SpacedInv
  <2>10. PassedSince(Phone(r), loc[r].at)'
    BY <1>1, <2>1 DEF PassedSince, p
  <2>11. \A o \in Phones : sendPhone'[o] <= now'
    BY <1>1, <2>1
  <2> QED
    BY <1>1, <2>3, <2>5, <2>6, <2>7, <2>8, <2>9, <2>10, <2>11 DEF p
<1>4. CASE UNCHANGED sendPhone /\ (Pending(r)' => /\ Pending(r)
                                                  /\ loc'[r].at = loc[r].at)
  <2>1. \A q \in Requests :
           Pending(q)' => Pending(q) /\ loc'[q].at = loc[q].at
    BY <1>1, <1>4
  <2>2. \A p \in Phones, t \in Nat : PassedSince(p, t) => PassedSince(p, t)'
    BY <1>4 DEF PassedSince
  <2>3. ASSUME NEW q \in Requests, Pending(q)'
        PROVE  PassedSince(Phone(q), loc[q].at)'
    <3>1. PassedSince(Phone(q), loc[q].at)
      BY <2>1, <2>3 DEF SpacedInv
    <3> QED
      BY <1>1, <1>4, <2>1, <2>3, <3>1 DEF PassedSince
  <2> QED
    BY <1>1, <1>4, <2>1, <2>2, <2>3 DEF SpacedInv
<1> QED
  BY <1>3, <1>4, SpacingSteps

(* The second half: the rows.                                               *)
LEMMA SpacedStep ==
    ASSUME TypeOK, SpacedInv, NEW r \in Requests, RequestStep(r)
    PROVE  SpacedInv'
<1>1. /\ UNCHANGED <<now, input, restarts>>
      /\ \A q \in Requests : Phone(q)' = Phone(q)
      /\ \A q \in Requests \ {r} : loc'[q] = loc[q]
  BY Frame DEF Phone
<1>2. CASE UNCHANGED codes \/ MarkUsed(r)
  <2>1. /\ DOMAIN codes' = DOMAIN codes
        /\ \A id \in DOMAIN codes :
              /\ codes'[id].phone = codes[id].phone
              /\ codes'[id].run = codes[id].run
              /\ codes'[id].at = codes[id].at
    BY <1>2, MarkKeeps
  <2>2. CodesSpaced'
    BY <2>1 DEF SpacedInv, CodesSpaced, Apart
  <2>3. \A id \in DOMAIN codes' : codes'[id].run = restarts' =>
           PassedSince(codes[id].phone, codes[id].at)'
    <3>1. \A id \in DOMAIN codes : codes[id].run = restarts =>
             PassedSince(codes[id].phone, codes[id].at)'
      <4>1. \A id \in DOMAIN codes : codes[id].run = restarts =>
               sendPhone'[codes[id].phone] # Never
                  /\ codes[id].at <= sendPhone'[codes[id].phone]
        BY PassesKnown, SpacingTypes DEF SpacedInv, PassedSince
      <4> QED
        BY <2>1, <4>1 DEF PassedSince
    <3> QED
      BY <1>1, <2>1, <3>1
  <2>4. \A q \in Requests : Pending(q)' =>
           \A id \in DOMAIN codes' :
              codes'[id].run = restarts' /\ codes'[id].phone = Phone(q)' =>
                 Apart(codes[id].at, loc[q].at)'
    BY <1>1, <2>1, PassesKnown DEF Apart
  <2>5. \A q \in Requests : Pending(q)' =>
           \A o \in Requests :
              o # q /\ Pending(o)' /\ Phone(o)' = Phone(q)' =>
                 Apart(loc[o].at, loc[q].at)'
    BY <1>1, PassesKnown DEF Apart
  <2> QED
    BY <1>1, <2>1, <2>2, <2>3, <2>4, <2>5, PassesKnown DEF SpacedInv
<1>3. CASE Pending(r) /\ ~Pending(r)' /\ InsertCode(r)
  <2> DEFINE row == [phone |-> Phone(r), code |-> loc[r].code,
                     expireAt |-> loc[r].until, used |-> FALSE,
                     run |-> restarts, at |-> loc[r].at]
             n == Len(codes) + 1
  <2>1. /\ row \in CodeRow /\ codes' = Append(codes, row)
        /\ codes \in Seq(CodeRow)
    BY <1>3, SpacingTypes DEF InsertCode, CodeRow, TypeOK, Locals
  <2>2. /\ row.phone = Phone(r) /\ row.run = restarts /\ row.at = loc[r].at
    OBVIOUS
  <2> HIDE DEF row
  <2>3. /\ DOMAIN codes' = DOMAIN codes \cup {n} /\ n \notin DOMAIN codes
        /\ codes'[n] = row
        /\ \A id \in DOMAIN codes : codes'[id] = codes[id]
    BY <2>1, AddOne
  <2> HIDE DEF n
  <2>4. /\ PassedSince(Phone(r), loc[r].at)
        /\ \A id \in DOMAIN codes :
              codes[id].run = restarts /\ codes[id].phone = Phone(r) =>
                 Apart(codes[id].at, loc[r].at) /\ Apart(loc[r].at, codes[id].at)
        /\ \A q \in Requests \ {r} : Pending(q) /\ Phone(q) = Phone(r) =>
              Apart(loc[r].at, loc[q].at)
    BY <1>3 DEF SpacedInv, Apart
  <2>5. CodesSpaced'
    <3>1. \A i, j \in DOMAIN codes' :
             codes'[i].phone = codes'[j].phone /\ codes'[i].run = codes'[j].run
                /\ i # j => Apart(codes'[i].at, codes'[j].at)
      BY <2>2, <2>3, <2>4 DEF SpacedInv, CodesSpaced
    <3> QED
      BY <3>1 DEF CodesSpaced, Apart
  <2>6. \A id \in DOMAIN codes' :
           /\ codes'[id].run <= restarts
           /\ codes'[id].run = restarts =>
                 PassedSince(codes[id].phone, codes[id].at)'
    <3>1. sendPhone' = sendPhone
      <4>1. CASE PassesPhone(r)
        BY <2>1, <2>3, <4>1 DEF PassesPhone
      <4> QED
        BY <4>1, SpacingSteps
    <3>2. restarts \in Nat
      BY SpacingTypes
    <3> QED
      BY <2>2, <2>3, <2>4, <3>1, <3>2 DEF SpacedInv, PassedSince
  <2>7. \A q \in Requests : Pending(q)' => q # r /\ Pending(q)
    BY <1>3, Frame DEF Pending
  <2>8. \A q \in Requests : Pending(q)' =>
           \A id \in DOMAIN codes' :
              codes'[id].run = restarts' /\ codes'[id].phone = Phone(q)' =>
                 Apart(codes[id].at, loc[q].at)'
    BY <1>1, <2>2, <2>3, <2>4, <2>7, PassesKnown DEF Apart
  <2>9. \A q \in Requests : Pending(q)' =>
           \A o \in Requests :
              o # q /\ Pending(o)' /\ Phone(o)' = Phone(q)' =>
                 Apart(loc[o].at, loc[q].at)'
    BY <1>1, PassesKnown DEF Apart
  <2> QED
    BY <1>1, <2>5, <2>6, <2>8, <2>9, PassesKnown DEF SpacedInv
<1> QED
  BY <1>2, <1>3, SpacingSteps

LEMMA SpacedInvariance == Spec => []SpacedInv
<1>1. Init => SpacedInv
  BY DEF Init, EmptyLimiter, SpacedInv, CodesSpaced, Pending
<1>2. ASSUME TypeOK, SpacedInv, Restart
      PROVE  SpacedInv'
  <2>1. /\ \A q \in Requests : ~Pending(q)'
        /\ UNCHANGED codes /\ restarts' = restarts + 1
    BY <1>2 DEF Restart, TypeOK, tables, InFlight, SendPCs, Pending
  <2>2. \A id \in DOMAIN codes : codes[id].run < restarts'
    BY <1>2, <2>1, SpacingTypes DEF SpacedInv
  <2>3. \A p \in Phones : sendPhone'[p] <= now'
    BY <1>2, SpacingTypes DEF Restart
  <2> QED
    BY <1>2, <2>1, <2>2, <2>3, SpacingTypes DEF SpacedInv, CodesSpaced, Apart
<1>3. ASSUME TypeOK, SpacedInv, Tick \/ UNCHANGED vars
      PROVE  SpacedInv'
  <2>1. UNCHANGED <<codes, restarts, sendPhone, pc, loc, input>>
    BY <1>3 DEF Tick, vars, tables, limiter, environment
  <2>2. \A p \in Phones : sendPhone'[p] <= now'
    BY <1>3, <2>1, SpacingTypes DEF SpacedInv, Tick, vars
  <2> QED
    BY <1>3, <2>1, <2>2 DEF SpacedInv, CodesSpaced, Apart, Pending,
                            PassedSince, Phone
<1>4. TypeOK /\ SpacedInv /\ [Next]_vars => SpacedInv'
  BY <1>2, <1>3, SpacedStep DEF Next, RequestStep
<1> QED
  BY <1>1, <1>4, TypeCorrect, PTL DEF Spec

(* The codes one run of the server texts to a phone are let pass            *)
(* SendCodeCooldown apart, however many sends run side by side, however     *)
(* long each takes, and whatever fails (Service.SendCode).                  *)
THEOREM CodesAreSpaced == Spec => []CodesSpaced
<1>1. SpacedInv => CodesSpaced
  BY DEF SpacedInv
<1> QED
  BY <1>1, SpacedInvariance, PTL

(* The parts together: the invariant that all of the above rests on.        *)
THEOREM Invariance == Spec => []IInv
BY TypeCorrect, AccountsUnique, CodeInvariance, LockInvariance,
   FailInvariance, SpacedInvariance, PTL DEF IInv

=============================================================================
