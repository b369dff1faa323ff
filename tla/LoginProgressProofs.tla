------------------------ MODULE LoginProgressProofs ------------------------
(***************************************************************************)
(* Every request that the server has taken up ends, for every set of       *)
(* requests and every configuration.  The provers know nothing of ENABLED: *)
(* that a request is never stuck is a hypothesis, an invariant TLC checks. *)
(***************************************************************************)
EXTENDS LoginServiceProofs

(* Of what a step waits for, only the row behind a registration is not      *)
(* there for every handler as a matter of course: a request reads it back   *)
(* when its own INSERT, or the one it ran into, has gone through (Create,   *)
(* dao/user.go:41-46).                                                      *)
RowToReadBack ==
    \A r \in Requests : pc[r] = "reread" => UsersOf(Phone(r)) # {}

(* A request that reads its account back after Create finds it.             *)
THEOREM ReadsBack == Spec => []RowToReadBack
<1>1. Init => RowToReadBack
  BY DEF Init, RowToReadBack
<1>2. ASSUME TypeOK, RowToReadBack, NEW r \in Requests, RequestStep(r)
      PROVE  RowToReadBack'
  <2> SUFFICES ASSUME NEW q \in Requests, pc'[q] = "reread"
               PROVE  UsersOf(Phone(q))' # {}
    BY DEF RowToReadBack
  <2>1. Phone(q)' = Phone(q) /\ TablesGrow
    BY <1>2, Frame DEF Phone
  <2>2. CASE UsersOf(Phone(q)) # {}
    BY <2>1, <2>2 DEF TablesGrow, UsersOf
  <2>3. CASE UsersOf(Phone(q)) = {}
    <3>1. q = r
      BY <1>2, <2>3, Frame DEF RowToReadBack
    <3>2. Create(r)
      <4>0. pc \in [Requests -> {"new"} \cup SendPCs \cup LoginPCs \cup EndPCs]
        BY <1>2 DEF TypeOK
      <4>1. CASE DatabaseError(r)
        <5>1. AfterError(r) # "reread"
          BY DEF AfterError
        <5> QED
          BY <3>1, <4>0, <4>1, <5>1 DEF DatabaseError, Goto
      <4> QED
        BY <1>2, <3>1, <4>0, <4>1, RequestStepCases
        DEF Arrive, RejectInput, SendAdmit, LoginAdmit, WriteStep, Insert,
            Unlock, LockUser, ConsumeCode, IssueToken, ReadStep, CoolPhone,
            MakeCode, ReadUser, UserMissing, CheckLock, LatestActive,
            VerifyFail, Goto
    <3> DEFINE row == [phone |-> Phone(r), status |-> "active",
                       lockTime |-> Never]
    <3>3. users' = Append(users, row) /\ users \in Seq(UserRow)
      BY <1>2, <2>3, <3>1, <3>2 DEF Create, InsertUser, TypeOK
    <3>4. row \in UserRow /\ row.phone = Phone(r)
      <4>1. Never \in Int /\ Phone(r) \in Phones
        BY <1>2 DEF TypeOK, Phone, Inputs, Never
      <4> QED
        BY <4>1 DEF UserRow
    <3> HIDE DEF row
    <3>5. /\ Len(users) + 1 \in DOMAIN users'
          /\ users'[Len(users) + 1].phone = Phone(r)
      BY <3>3, <3>4, AddOne
    <3> QED
      BY <2>1, <3>1, <3>5 DEF UsersOf
  <2> QED
    BY <2>2, <2>3
<1>3. ASSUME RowToReadBack, Restart \/ Tick \/ UNCHANGED vars
      PROVE  RowToReadBack'
  <2>1. /\ UNCHANGED <<users, input>>
        /\ \A r \in Requests : pc'[r] = "reread" => pc[r] = "reread"
    BY <1>3 DEF Restart, Tick, vars, tables
  <2> QED
    BY <1>3, <2>1 DEF RowToReadBack, UsersOf, Phone
<1>4. TypeOK /\ RowToReadBack /\ [Next]_vars => RowToReadBack'
  BY <1>2, <1>3 DEF Next, RequestStep
<1> QED
  BY <1>1, <1>4, TypeCorrect, PTL DEF Spec

(* How many steps a request has still to take at most: no handler has a     *)
(* loop.                                                                    *)
Left(r) ==
    CASE pc[r] = "get_user"    -> 9
      [] pc[r] = "ensure_get"  -> 8
      [] pc[r] = "create"      -> 7
      [] pc[r] = "reread"      -> 6
      [] pc[r] = "check_lock"  -> 5
      [] pc[r] = "unlock"      -> 4
      [] pc[r] \in {"cool_phone", "latest"}                  -> 3
      [] pc[r] \in {"make_code", "mark_used", "verify_fail"} -> 2
      [] pc[r] \in {"insert", "meta", "lock"}                -> 1
      [] OTHER -> 0

(* A request is in flight as long as it has steps left.                     *)
LEMMA LeftInFlight ==
    ASSUME TypeOK, NEW r \in Requests
    PROVE  /\ Left(r) \in 0 .. 9
           /\ InFlight(r) <=> Left(r) # 0
           /\ pc[r] # "new" => (Left(r) = 0 <=> pc[r] \in EndPCs)
           /\ Left(r) # 0 => pc[r] # "new"
<1>1. pc[r] \in {"new"} \cup SendPCs \cup LoginPCs \cup EndPCs
  BY DEF TypeOK
<1>2. Left(r) \in 0 .. 9
  BY DEF Left
<1>3. pc[r] \in SendPCs \cup LoginPCs <=> Left(r) # 0
  BY <1>1 DEF Left, SendPCs, LoginPCs, EndPCs
<1>4. "new" \notin SendPCs \cup LoginPCs
  BY DEF SendPCs, LoginPCs
<1>5. EndPCs \cap (SendPCs \cup LoginPCs) = {}
  BY DEF SendPCs, LoginPCs, EndPCs
<1> QED
  BY <1>1, <1>2, <1>3, <1>4, <1>5 DEF InFlight

(* Whatever a request in flight does next, a failing statement included, it *)
(* has fewer steps left.                                                    *)
LEMMA Forward ==
    ASSUME TypeOK, NEW r \in Requests, InFlight(r), RequestStep(r)
    PROVE  Left(r)' < Left(r)
<1>0. /\ pc \in [Requests -> {"new"} \cup SendPCs \cup LoginPCs \cup EndPCs]
      /\ pc[r] # "new"
  BY DEF TypeOK, InFlight, SendPCs, LoginPCs
<1>1. CASE SendStep(r)
  BY <1>0, <1>1 DEF SendStep, CoolPhone, MakeCode, Insert, Goto, Left
<1>2. CASE ReadUser(r)
  <2>1. /\ pc[r] \in {"get_user", "ensure_get", "reread"}
        /\ pc'[r] \in {"check_lock", "latest"}
    BY <1>0, <1>2 DEF ReadUser, Goto
  <2> QED
    BY <2>1 DEF Left
<1>3. CASE UserMissing(r) \/ Create(r) \/ CheckLock(r) \/ Unlock(r)
  BY <1>0, <1>3 DEF UserMissing, Create, CheckLock, Unlock, Goto, Left
<1>4. CASE LatestActive(r)
  <2>1. /\ pc[r] = "latest"
        /\ pc'[r] \in {"code_expired", "mark_used", "verify_fail"}
    BY <1>0, <1>4 DEF LatestActive, Goto
  <2> QED
    BY <2>1 DEF Left
<1>5. CASE VerifyFail(r) \/ LockUser(r) \/ ConsumeCode(r) \/ IssueToken(r)
  BY <1>0, <1>5 DEF VerifyFail, LockUser, ConsumeCode, IssueToken, Goto, Left
<1>6. CASE DatabaseError(r)
  <2>1. pc'[r] = AfterError(r) /\ pc[r] \in ReadPCs \cup WritePCs
    BY <1>0, <1>6 DEF DatabaseError, Goto
  <2> QED
    BY <2>1 DEF AfterError, ReadPCs, WritePCs, Left
<1> QED
  BY <1>0, <1>1, <1>2, <1>3, <1>4, <1>5, <1>6
  DEF RequestStep, Arrive, RejectInput, SendAdmit, LoginAdmit, LoginStep

(* Nobody sets a request in flight back.                                    *)
LEMMA NeverBack ==
    ASSUME TypeOK, NEW r \in Requests, InFlight(r), [Next]_vars
    PROVE  Left(r)' <= Left(r)
<1>1. Left(r) \in 0 .. 9 /\ Left(r)' \in 0 .. 9
  BY DEF Left
<1>2. ASSUME NEW q \in Requests, RequestStep(q)
      PROVE  Left(r)' <= Left(r)
  <2>1. CASE q = r
    BY <1>1, <1>2, <2>1, Forward
  <2>2. CASE q # r
    BY <1>1, <1>2, <2>2, Frame DEF Left
  <2> QED
    BY <2>1, <2>2
<1>3. CASE Restart
  <2>1. pc'[r] = "dropped"
    BY <1>3 DEF Restart
  <2> QED
    BY <1>1, <2>1 DEF Left
<1>4. CASE Tick \/ UNCHANGED vars
  BY <1>1, <1>4 DEF Tick, vars, Left
<1> QED
  BY <1>2, <1>3, <1>4 DEF Next, RequestStep

(* A request arrives once.                                                  *)
LEMMA NeverNew ==
    ASSUME TypeOK, NEW r \in Requests, pc[r] # "new", [Next]_vars
    PROVE  pc'[r] # "new"
<1>0. pc \in [Requests -> {"new"} \cup SendPCs \cup LoginPCs \cup EndPCs]
  BY DEF TypeOK
<1>1. ASSUME NEW q \in Requests, RequestStep(q)
      PROVE  pc'[r] # "new"
  <2>1. pc'[q] # "new"
    <3>1. AfterError(q) # "new"
      BY DEF AfterError
    <3> QED
      BY <1>0, <1>1, <3>1
      DEF RequestStep, Arrive, RejectInput, SendAdmit, LoginAdmit, SendStep,
          CoolPhone, MakeCode, Insert, LoginStep, ReadUser, UserMissing,
          Create, CheckLock, Unlock, LatestActive, VerifyFail, LockUser,
          ConsumeCode, IssueToken, DatabaseError, Goto
  <2> QED
    BY <1>1, <2>1, Frame
<1>2. CASE Restart \/ Tick \/ UNCHANGED vars
  BY <1>2 DEF Restart, Tick, vars
<1> QED
  BY <1>1, <1>2 DEF Next, RequestStep

Falls(r, k) == Left(r) = k ~> Left(r) < k

EndsFrom(r, k) == Left(r) <= k ~> Left(r) = 0

(* A request with k steps left has fewer in the end: fairness makes it move *)
(* as long as it is not stuck, and every move is forward.                   *)
LEMMA Advance ==
    ASSUME NEW r \in Requests, NEW k \in 1 .. 9
    PROVE  FairSpec /\ []NeverStuck => Falls(r, k)
<1> DEFINE Here == Left(r) = k
           Beyond == Left(r) < k
<1>1. TypeOK /\ Here /\ [Next]_vars => Here' \/ Beyond'
  <2>1. Left(r) \in 0 .. 9 /\ Left(r)' \in 0 .. 9
    BY DEF Left
  <2> QED
    BY <2>1, LeftInFlight, NeverBack
<1>2. TypeOK /\ Here /\ <<SendStep(r) \/ LoginStep(r)>>_vars => Beyond'
  BY LeftInFlight, Forward DEF RequestStep
<1>3. TypeOK /\ NeverStuck /\ Here => ENABLED <<SendStep(r) \/ LoginStep(r)>>_vars
  BY LeftInFlight DEF NeverStuck
<1>4. FairSpec => WF_vars(SendStep(r) \/ LoginStep(r))
  <2>1. FairSpec => KeepsGoing(r)
    BY DEF FairSpec, Fairness
  <2> QED
    BY <2>1, PTL DEF KeepsGoing
<1>5. FairSpec => []TypeOK /\ [][Next]_vars
  BY TypeCorrect DEF FairSpec, Spec
<1> HIDE DEF Here, Beyond
<1>6. FairSpec /\ []NeverStuck => (Here ~> Beyond)
  BY <1>1, <1>2, <1>3, <1>4, <1>5, PTL
<1> QED
  BY <1>6 DEF Here, Beyond, Falls

(* One more step: if from k steps on a request ends, it does from k + 1.    *)
LEMMA OneMore ==
    ASSUME NEW r \in Requests, NEW k \in 0 .. 8, NEW m, m = k + 1
    PROVE  FairSpec /\ []NeverStuck /\ EndsFrom(r, k) => EndsFrom(r, m)
<1>1. FairSpec /\ []NeverStuck => (Left(r) = m ~> Left(r) < m)
  <2>1. m \in 1 .. 9
    OBVIOUS
  <2>2. FairSpec /\ []NeverStuck => Falls(r, m)
    BY <2>1, Advance
  <2> QED
    BY <2>2 DEF Falls
<1>2. Left(r) \in 0 .. 9
  BY DEF Left
<1>3. (Left(r) <= m => Left(r) <= k \/ Left(r) = m)
         /\ (Left(r) < m => Left(r) <= k)
  BY <1>2
<1>4. FairSpec /\ []NeverStuck /\ (Left(r) <= k ~> Left(r) = 0)
         => (Left(r) <= m ~> Left(r) = 0)
  BY <1>1, <1>3, PTL
<1> QED
  BY <1>4 DEF EndsFrom

(* No request has more than nine steps left.                                *)
LEMMA EndsFromAnywhere ==
    ASSUME NEW r \in Requests
    PROVE  FairSpec /\ []NeverStuck => EndsFrom(r, 9)
<1>0. FairSpec /\ []NeverStuck => EndsFrom(r, 0)
  <2>1. Left(r) <= 0 => Left(r) = 0
    BY DEF Left
  <2> QED
    BY <2>1, PTL DEF EndsFrom
<1>1. FairSpec /\ []NeverStuck => EndsFrom(r, 1)
  BY <1>0, OneMore
<1>2. FairSpec /\ []NeverStuck => EndsFrom(r, 2)
  BY <1>1, OneMore
<1>3. FairSpec /\ []NeverStuck => EndsFrom(r, 3)
  BY <1>2, OneMore
<1>4. FairSpec /\ []NeverStuck => EndsFrom(r, 4)
  BY <1>3, OneMore
<1>5. FairSpec /\ []NeverStuck => EndsFrom(r, 5)
  BY <1>4, OneMore
<1>6. FairSpec /\ []NeverStuck => EndsFrom(r, 6)
  BY <1>5, OneMore
<1>7. FairSpec /\ []NeverStuck => EndsFrom(r, 7)
  BY <1>6, OneMore
<1>8. FairSpec /\ []NeverStuck => EndsFrom(r, 8)
  BY <1>7, OneMore
<1>9. FairSpec /\ []NeverStuck => EndsFrom(r, 9)
  BY <1>8, OneMore
<1> QED
  BY <1>9

(* ... and one that has arrived and has none left has ended.                *)
LEMMA RequestEnds ==
    ASSUME NEW r \in Requests
    PROVE  FairSpec /\ []NeverStuck => (InFlight(r) ~> pc[r] \in EndPCs)
<1> DEFINE Old == pc[r] # "new"
           Out == Left(r) = 0
           Low == Left(r) <= 9
           Ended == pc[r] \in EndPCs
<1>1. FairSpec /\ []NeverStuck => (Low ~> Out)
  BY EndsFromAnywhere DEF EndsFrom
<1>2. TypeOK /\ InFlight(r) => Old /\ Low
  BY LeftInFlight
<1>3. TypeOK /\ Old /\ [Next]_vars => Old'
  BY NeverNew
<1>4. TypeOK /\ Old /\ Out => Ended
  BY LeftInFlight
<1>5. FairSpec => []TypeOK /\ [][Next]_vars
  BY TypeCorrect DEF FairSpec, Spec
<1> HIDE DEF Old, Out, Low, Ended
<1>6. FairSpec /\ []NeverStuck => (InFlight(r) ~> Ended)
  BY <1>1, <1>2, <1>3, <1>4, <1>5, PTL
<1> QED
  BY <1>6 DEF Ended

(* Every request that the server has taken up is answered or cut off by a   *)
(* restart, for any number of requests, faults and restarts, if no request  *)
(* is ever without a step of its own.                                       *)
THEOREM RequestsEnd == FairSpec /\ []NeverStuck => EveryRequestEnds
<1> SUFFICES ASSUME FairSpec /\ []NeverStuck, NEW r \in Requests
             PROVE  InFlight(r) ~> pc[r] \in EndPCs
  BY DEF EveryRequestEnds
<1> QED
  BY RequestEnds

=============================================================================
