----------------------- MODULE LoginRefinementProofs -----------------------
(***************************************************************************)
(* LoginService implements CodeLedger and is a user of RateLimiter, for    *)
(* every set of requests, phones, addresses and codes and every            *)
(* configuration: each step of a request, a failing statement and a        *)
(* restart included, is a step of the ledger or leaves it alone, and a     *)
(* call of the limiter, its renewal, or none.                              *)
(***************************************************************************)
EXTENDS LoginServiceProofs, LoginLimits

-----------------------------------------------------------------------------
(* The ledger of codes.                                                     *)

\* The steps of a request before it has looked at a code.
BeforeLook == {"new", "cool_phone", "make_code", "insert", "get_user",
               "ensure_get", "create", "reread", "check_lock", "unlock",
               "latest"}

(* The inductive part: only a request that has looked at a code holds one,  *)
(* and what it holds is a row; the expiry a send has computed is CodeTTL    *)
(* after a time that has passed.                                            *)
LedgerInv ==
    \A r \in Requests :
       /\ pc[r] \in BeforeLook => loc[r].vc = 0
       /\ loc[r].vc # 0 => loc[r].vc \in DOMAIN codes
       /\ pc[r] = "insert" => loc[r].until - CodeTTL \in 0 .. now

Looks(r) ==
    /\ pc[r] = "latest" /\ pc'[r] \in {"mark_used", "verify_fail"}
    /\ \E id \in ActiveCodes(Phone(r), now) :
          /\ \A other \in ActiveCodes(Phone(r), now) : other <= id
          /\ loc' = [loc EXCEPT ![r].vc = id]

(* What a step of a request means to the ledger.                            *)
LEMMA LedgerSteps ==
    ASSUME TypeOK, NEW r \in Requests, RequestStep(r)
    PROVE  /\ pc[r] # "ok"
           /\ pc'[r] = "ok" => pc[r] = "meta"
           /\ pc'[r] \in BeforeLook => pc[r] \in BeforeLook
           /\ \/ UNCHANGED codes
              \/ pc[r] = "insert" /\ InsertCode(r)
              \/ pc[r] = "mark_used" /\ MarkUsed(r)
           /\ loc'[r].vc = loc[r].vc \/ (Looks(r) /\ UNCHANGED codes)
           /\ pc'[r] = "insert" => loc'[r].until = now + CodeTTL
<1> USE DEF BeforeLook
<1>0. /\ loc \in [Requests -> Locals] /\ loc[r] \in Locals
      /\ pc \in [Requests -> {"new"} \cup SendPCs \cup LoginPCs \cup EndPCs]
  BY DEF TypeOK
<1>1. CASE Arrive(r)
  BY <1>0, <1>1 DEF Arrive, RejectInput, SendAdmit, LoginAdmit, Goto, tables,
                    environment, histories
<1>2. CASE WriteStep(r)
  <2>1. CASE Insert(r) \/ Create(r) \/ LockUser(r) \/ ConsumeCode(r)
                \/ IssueToken(r)
    BY <1>0, <2>1 DEF Insert, Create, LockUser, ConsumeCode, IssueToken, Goto,
                InsertUser, Lock, UpdateLoginMeta
  <2>2. CASE Unlock(r)
    BY <1>0, <2>2 DEF Unlock, Goto, UpdateLoginMeta, Locals
  <2>3. CASE DatabaseError(r)
    <3>1. /\ pc'[r] = AfterError(r) /\ pc[r] \in ReadPCs \cup WritePCs
          /\ loc'[r].vc = loc[r].vc
      BY <1>0, <2>3 DEF DatabaseError, Goto, Locals
    <3>2. /\ pc'[r] \in {"latest", "invalid_argument", "internal_error"}
          /\ pc'[r] = "latest" => pc[r] = "unlock"
      BY <3>1 DEF AfterError
    <3>3. \/ UNCHANGED codes
          \/ pc[r] = "insert" /\ InsertCode(r)
          \/ pc[r] = "mark_used" /\ MarkUsed(r)
      BY <2>3 DEF DatabaseError, Statement, InsertUser, UpdateLoginMeta, Lock,
                  tables
    <3> QED
      BY <3>1, <3>2, <3>3 DEF ReadPCs, WritePCs
  <2> QED
    BY <1>2, <2>1, <2>2, <2>3 DEF WriteStep
<1>3. CASE ReadStep(r)
  <2>1. CASE LatestActive(r)
    <3>1. UNCHANGED codes /\ pc[r] = "latest"
      BY <2>1 DEF LatestActive, tables
    <3>2. CASE pc'[r] = "code_expired" /\ UNCHANGED loc
      BY <3>1, <3>2
    <3>3. CASE Looks(r)
      BY <3>1, <3>3 DEF Looks
    <3>4. (pc'[r] = "code_expired" /\ UNCHANGED loc) \/ Looks(r)
      BY <1>0, <2>1 DEF LatestActive, Goto, Looks
    <3> QED
      BY <3>2, <3>3, <3>4
  <2>2. CASE CoolPhone(r)
    <3>1. /\ pc[r] = "cool_phone" /\ UNCHANGED codes
          /\ pc'[r] \in {"make_code", "rate_limited"}
      BY <1>0, <2>2 DEF CoolPhone, Goto, tables
    <3>2. loc'[r].vc = loc[r].vc
      BY <1>0, <2>2 DEF CoolPhone, Locals
    <3> QED
      BY <3>1, <3>2
  <2>6. CASE MakeCode(r)
    <3>1. PICK code \in Codes : loc' = [loc EXCEPT ![r].code = code,
                                               ![r].until = now + CodeTTL]
      BY <2>6 DEF MakeCode
    <3>2. loc'[r].vc = loc[r].vc /\ loc'[r].until = now + CodeTTL
      BY <1>0, <3>1 DEF Locals
    <3>3. pc[r] = "make_code" /\ pc'[r] = "insert" /\ UNCHANGED codes
      BY <1>0, <2>6 DEF MakeCode, Goto, tables
    <3> QED
      BY <3>2, <3>3
  <2>3. CASE ReadUser(r)
    <3>1. PICK id \in UsersOf(Phone(r)) :
             loc' = [loc EXCEPT ![r].uid = id,
                                ![r].status = users[id].status,
                                ![r].lockTime = users[id].lockTime]
      BY <2>3 DEF ReadUser
    <3>2. loc'[r].vc = loc[r].vc
      BY <1>0, <3>1 DEF Locals
    <3>3. /\ pc[r] \in {"get_user", "ensure_get", "reread"}
          /\ pc'[r] \in {"check_lock", "latest"} /\ UNCHANGED codes
      BY <1>0, <2>3 DEF ReadUser, Goto, tables
    <3> QED
      BY <3>2, <3>3
  <2>4. CASE VerifyFail(r)
    <3>1. /\ pc[r] = "verify_fail" /\ UNCHANGED codes
          /\ pc'[r] \in {"invalid_argument", "lock"}
      BY <1>0, <2>4 DEF VerifyFail, Goto, tables
    <3>2. loc'[r].vc = loc[r].vc
      BY <1>0, <2>4 DEF VerifyFail, Locals
    <3> QED
      BY <3>1, <3>2
  <2>5. CASE UserMissing(r) \/ CheckLock(r)
    BY <1>0, <2>5 DEF UserMissing, CheckLock, Goto, tables, histories
  <2> QED
    BY <1>3, <2>1, <2>2, <2>3, <2>4, <2>5, <2>6 DEF ReadStep
<1> QED
  BY <1>1, <1>2, <1>3, RequestStepCases


(* A row stays where it is, and only a statement adds or changes one.       *)
LEMMA CodesKept ==
    ASSUME TypeOK, NEW r \in Requests, RequestStep(r)
    PROVE  /\ codes \in Seq(CodeRow) /\ DOMAIN codes = 1 .. Len(codes)
           /\ Len(codes) \in Nat /\ DOMAIN codes \subseteq DOMAIN codes'
BY Frame DEF TypeOK, TablesGrow

(* Every step keeps the inductive part.                                     *)
LEMMA LedgerStep == TypeOK /\ LedgerInv /\ [Next]_vars => LedgerInv'
<1> SUFFICES ASSUME TypeOK, LedgerInv, [Next]_vars PROVE LedgerInv'
  OBVIOUS
<1>0. /\ loc \in [Requests -> Locals] /\ now \in Nat /\ CodeTTL \in Int
      /\ pc \in [Requests -> {"new"} \cup SendPCs \cup LoginPCs \cup EndPCs]
  BY ConfigAssumption DEF TypeOK
<1>1. ASSUME NEW r \in Requests, RequestStep(r) PROVE LedgerInv'
  <2>1. /\ DOMAIN codes \subseteq DOMAIN codes' /\ UNCHANGED now
        /\ \A q \in Requests : q # r => pc'[q] = pc[q] /\ loc'[q] = loc[q]
    BY <1>1, Frame, CodesKept
  <2>2. ASSUME NEW q \in Requests, q # r
        PROVE  /\ pc'[q] \in BeforeLook => loc'[q].vc = 0
               /\ loc'[q].vc # 0 => loc'[q].vc \in DOMAIN codes'
               /\ pc'[q] = "insert" =>
                     loc'[q].until - CodeTTL \in 0 .. now'
    BY <2>1, <2>2 DEF LedgerInv
  <2>3. /\ pc'[r] \in BeforeLook => loc'[r].vc = 0
        /\ loc'[r].vc # 0 => loc'[r].vc \in DOMAIN codes'
    <3>1. CASE Looks(r)
      <4>1. PICK id \in ActiveCodes(Phone(r), now) :
               loc' = [loc EXCEPT ![r].vc = id]
        BY <3>1 DEF Looks
      <4>2. loc'[r].vc = id /\ id \in DOMAIN codes
        BY <1>0, <4>1 DEF Locals, ActiveCodes
      <4>3. pc'[r] \notin BeforeLook
        BY <3>1 DEF Looks, BeforeLook
      <4> QED
        BY <2>1, <4>2, <4>3
    <3>2. CASE loc'[r].vc = loc[r].vc
      BY <1>1, <2>1, <3>2, LedgerSteps DEF LedgerInv
    <3> QED
      BY <1>1, <3>1, <3>2, LedgerSteps
  <2>4. pc'[r] = "insert" => loc'[r].until - CodeTTL \in 0 .. now'
    BY <1>0, <1>1, <2>1, LedgerSteps
  <2> QED
    BY <2>2, <2>3, <2>4 DEF LedgerInv
<1>2. CASE Restart
  <2>1. UNCHANGED <<now, loc, codes>>
    BY <1>2 DEF Restart, tables
  <2>2. \A r \in Requests : pc'[r] = pc[r] \/ pc'[r] = "dropped"
    BY <1>2 DEF Restart
  <2> QED
    BY <2>1, <2>2 DEF LedgerInv, BeforeLook
<1>3. CASE Tick
  <2>1. UNCHANGED <<pc, loc, codes>> /\ now' = now + 1
    BY <1>3 DEF Tick, tables
  <2>2. \A r \in Requests : loc[r].until \in Int
    BY <1>0 DEF Locals
  <2> QED
    BY <1>0, <2>1, <2>2 DEF LedgerInv
<1>4. CASE UNCHANGED vars
  BY <1>4 DEF vars, tables, LedgerInv
<1> QED
  BY <1>1, <1>2, <1>3, <1>4 DEF Next, RequestStep

LEMMA LedgerInvariance == Spec => []LedgerInv
<1>1. Init => LedgerInv
  BY DEF Init, LedgerInv
<1> QED
  BY <1>1, TypeCorrect, LedgerStep, PTL DEF Spec

-----------------------------------------------------------------------------
(* The mapping.                                                             *)

\* The codes a table of rows shows.
Shown(s) ==
    [id \in DOMAIN s |-> [phone |-> s[id].phone, code |-> s[id].code,
                          expireAt |-> s[id].expireAt]]

(* A row appended to the table is a code appended to the ledger.            *)
LEMMA AppendKept ==
    ASSUME NEW s \in Seq(CodeRow), NEW row \in CodeRow
    PROVE  Shown(Append(s, row)) =
             Append(Shown(s), [phone |-> row.phone, code |-> row.code,
                               expireAt |-> row.expireAt])
<1> DEFINE t == Append(s, row)
           n == Len(s)
           f(x) == [phone |-> x.phone, code |-> x.code, expireAt |-> x.expireAt]
           m == [id \in 1 .. n |-> f(s[id])]
<1>1. n \in Nat /\ DOMAIN s = 1 .. n /\ t[n + 1] = row
      /\ DOMAIN t = 1 .. n + 1 /\ \A j \in 1 .. n : t[j] = s[j]
  BY AddOne
<1>2. m \in [1 .. n -> {f(s[id]) : id \in 1 .. n}]
  OBVIOUS
<1>3. m \in Seq({f(s[id]) : id \in 1 .. n}) /\ Len(m) = n
  BY <1>1, <1>2
<1>4. Append(m, f(row)) = [id \in 1 .. n + 1 |-> IF id = n + 1 THEN f(row)
                                                 ELSE m[id]]
  BY <1>1, <1>3
<1>5. [id \in 1 .. n + 1 |-> f(t[id])] = Append(m, f(row))
  BY <1>1, <1>4
<1> QED
  BY <1>1, <1>5 DEF Shown

(* What the tables show of an issued code moves only with the tables.       *)
LEMMA LedgerRows ==
    ASSUME TypeOK, NEW r \in Requests
    PROVE  /\ UNCHANGED codes => UNCHANGED <<Issued, Spent>>
           /\ InsertCode(r) =>
                /\ Issued' = Append(Issued, [phone |-> Phone(r),
                                             code |-> loc[r].code,
                                             expireAt |-> loc[r].until])
                /\ UNCHANGED Spent
           /\ MarkUsed(r) /\ loc[r].vc \in DOMAIN codes =>
                /\ UNCHANGED Issued
                /\ Spent' = Spent \cup {loc[r].vc}
<1>0. /\ codes \in Seq(CodeRow) /\ loc[r] \in Locals /\ Phone(r) \in Phones
      /\ \A id \in DOMAIN codes : codes[id] \in CodeRow
      /\ restarts \in Nat
  BY DEF TypeOK, Phone, Inputs
<1>1. UNCHANGED codes => UNCHANGED <<Issued, Spent>>
  BY DEF Issued, Spent
<1>2. ASSUME InsertCode(r)
      PROVE  /\ Issued' = Append(Issued, [phone |-> Phone(r),
                                          code |-> loc[r].code,
                                          expireAt |-> loc[r].until])
             /\ UNCHANGED Spent
  <2> DEFINE row == [phone |-> Phone(r), code |-> loc[r].code,
                     expireAt |-> loc[r].until, used |-> FALSE,
                     run |-> restarts, at |-> loc[r].at]
  <2>1. row \in CodeRow /\ codes' = Append(codes, row)
    BY <1>0, <1>2 DEF InsertCode, CodeRow, Locals
  <2>2. /\ row.phone = Phone(r) /\ row.code = loc[r].code
        /\ row.expireAt = loc[r].until /\ row.used = FALSE
    OBVIOUS
  <2> HIDE DEF row
  <2>3. Issued' = Append(Issued, [phone |-> row.phone, code |-> row.code,
                                  expireAt |-> row.expireAt])
    <3>1. Issued = Shown(codes) /\ Issued' = Shown(codes')
      BY DEF Issued, Shown
    <3> QED
      BY <1>0, <2>1, <3>1, AppendKept
  <2>4. /\ Len(codes) \in Nat /\ DOMAIN codes = 1 .. Len(codes)
        /\ DOMAIN codes' = 1 .. Len(codes) + 1
        /\ codes'[Len(codes) + 1] = row
        /\ \A id \in DOMAIN codes : codes'[id] = codes[id]
    BY <1>0, <2>1, AddOne
  <2>5. UNCHANGED Spent
    BY <2>2, <2>4 DEF Spent
  <2> QED
    BY <2>2, <2>3, <2>5
<1>3. ASSUME MarkUsed(r), loc[r].vc \in DOMAIN codes
      PROVE  UNCHANGED Issued /\ Spent' = Spent \cup {loc[r].vc}
  <2>1. /\ DOMAIN codes' = DOMAIN codes
        /\ \A id \in DOMAIN codes :
              /\ codes'[id].phone = codes[id].phone
              /\ codes'[id].code = codes[id].code
              /\ codes'[id].expireAt = codes[id].expireAt
              /\ codes'[id].used = (id = loc[r].vc \/ codes[id].used)
    BY <1>0, <1>3 DEF MarkUsed, CodeRow
  <2>2. UNCHANGED Issued
    BY <2>1 DEF Issued
  <2>3. Spent' = Spent \cup {loc[r].vc}
    BY <1>3, <2>1 DEF Spent
  <2> QED
    BY <2>2, <2>3
<1> QED
  BY <1>1, <1>2, <1>3

(* A claim stands as long as the request keeps the row it has looked at.    *)
LEMMA ClaimKept ==
    ASSUME TypeOK, LedgerInv, NEW q \in Requests,
           DOMAIN codes \subseteq DOMAIN codes',
           \A id \in DOMAIN codes : codes'[id].code = codes[id].code,
           UNCHANGED input, loc'[q].vc = loc[q].vc
    PROVE  Claims'[q] = Claims[q]
BY DEF LedgerInv, Claims

(* What a client presents never changes.                                    *)
LEMMA PresentedKept == UNCHANGED input => UNCHANGED Presented
BY DEF Presented, Phone

(* Every step of a request is a step of the ledger, or none.                *)
LEMMA RequestMaps ==
    ASSUME TypeOK, TypeOK', CodeInv, LedgerInv,
           NEW r \in Requests, RequestStep(r)
    PROVE  [Ledger!Next]_(Ledger!ledger)
<1>0. /\ loc \in [Requests -> Locals] /\ now \in Nat /\ CodeTTL \in Int
      /\ pc \in [Requests -> {"new"} \cup SendPCs \cup LoginPCs \cup EndPCs]
      /\ loc' \in [Requests -> Locals]
      /\ pc' \in [Requests -> {"new"} \cup SendPCs \cup LoginPCs \cup EndPCs]
      /\ loc[r] \in Locals /\ Phone(r) \in Phones
  BY ConfigAssumption DEF TypeOK, Phone, Inputs
<1>1. /\ UNCHANGED <<now, input, Presented>>
      /\ DOMAIN codes \subseteq DOMAIN codes'
      /\ \A id \in DOMAIN codes : codes'[id].code = codes[id].code
      /\ \A q \in Requests : q # r => pc'[q] = pc[q] /\ loc'[q] = loc[q]
  BY Frame, PresentedKept DEF TablesGrow
<1>2. \A q \in Requests : q # r => Claims'[q] = Claims[q]
  BY <1>1, ClaimKept
<1>3. pc'[r] # "ok" => UNCHANGED Holders
  BY <1>0, <1>1, LedgerSteps DEF Holders
<1>4. CASE loc'[r].vc = loc[r].vc
  <2>1. Claims'[r] = Claims[r]
    BY <1>1, <1>4, ClaimKept
  <2>2. UNCHANGED Claims
    BY <1>2, <2>1 DEF Claims
  <2>3. CASE pc[r] = "insert" /\ InsertCode(r)
    <3>1. pc'[r] # "ok"
      BY <2>3, LedgerSteps
    <3> DEFINE made == loc[r].until - CodeTTL
    <3>2. /\ made \in 0 .. now /\ loc[r].until = made + CodeTTL
          /\ loc[r].code \in Codes
      BY <1>0, <2>3 DEF LedgerInv, Locals
    <3> HIDE DEF made
    <3>3. Ledger!Issue
      BY <1>0, <1>1, <1>3, <2>2, <2>3, <3>1, <3>2, LedgerRows
      DEF Ledger!Issue
    <3> QED
      BY <3>3 DEF Ledger!Next
  <2>4. CASE pc[r] = "mark_used" /\ MarkUsed(r)
    <3>1. pc'[r] # "ok"
      BY <2>4, LedgerSteps
    <3>2. Matches(r, loc[r].vc)
      BY <2>4 DEF CodeInv
    <3>3. loc[r].vc # 0
      BY <1>0, <3>2 DEF Matches, TypeOK
    <3>4. Claims[r] = loc[r].vc
      BY <3>2, <3>3 DEF Claims, Matches
    <3>5. Ledger!Spend(r)
      BY <1>1, <1>3, <2>2, <2>4, <3>1, <3>2, <3>3, <3>4, LedgerRows
      DEF Ledger!Spend, Matches
    <3> QED
      BY <3>5 DEF Ledger!Next
  <2>5. CASE UNCHANGED codes
    <3>1. UNCHANGED <<Issued, Spent>>
      BY <2>5, LedgerRows
    <3>2. CASE pc'[r] = "ok"
      <4>1. pc[r] = "meta"
        BY <3>2, LedgerSteps
      <4>2. Matches(r, loc[r].vc) /\ codes[loc[r].vc].used
        BY <4>1 DEF CodeInv
      <4>3. loc[r].vc # 0
        BY <4>2 DEF Matches, TypeOK
      <4>4. Claims[r] \in Spent
        BY <4>2, <4>3 DEF Claims, Spent, Matches
      <4>5. r \notin Holders /\ Holders' = Holders \cup {r}
        BY <1>0, <1>1, <3>2, <4>1 DEF Holders
      <4>6. Ledger!Grant(r)
        BY <1>1, <2>2, <3>1, <4>4, <4>5 DEF Ledger!Grant
      <4> QED
        BY <4>6 DEF Ledger!Next
    <3>3. CASE pc'[r] # "ok"
      BY <1>1, <1>3, <2>2, <3>1, <3>3 DEF Ledger!ledger
    <3> QED
      BY <3>2, <3>3
  <2> QED
    BY <2>3, <2>4, <2>5, LedgerSteps
<1>5. CASE Looks(r) /\ UNCHANGED codes
  <2>1. UNCHANGED <<Issued, Spent, Holders>>
    BY <1>3, <1>5, LedgerRows DEF Looks
  <2>2. PICK id \in ActiveCodes(Phone(r), now) :
           /\ \A other \in ActiveCodes(Phone(r), now) : other <= id
           /\ loc' = [loc EXCEPT ![r].vc = id]
    BY <1>5 DEF Looks
  <2>3. loc'[r].vc = id /\ id \in DOMAIN codes /\ id # 0
    <3>1. DOMAIN codes = 1 .. Len(codes) /\ Len(codes) \in Nat
      BY CodesKept
    <3>2. id \in DOMAIN codes
      BY <2>2 DEF ActiveCodes
    <3>3. loc'[r].vc = id
      BY <1>0, <2>2 DEF Locals
    <3> QED
      BY <3>1, <3>2, <3>3
  <2>4. Claims[r] = 0
    BY <1>5 DEF LedgerInv, Looks, BeforeLook, Claims
  <2>5. Ledger!Live(Presented[r].phone) = ActiveCodes(Phone(r), now)
    BY DEF Ledger!Live, Presented, Issued, Spent, ActiveCodes
  <2>6. CASE codes[id].code = input[r].code
    <3>1. Claims'[r] = id
      BY <1>1, <1>5, <2>3, <2>6 DEF Claims
    <3>2. Claims' = [Claims EXCEPT ![r] = id]
      <4>1. [Claims EXCEPT ![r] = id] =
              [q \in Requests |-> IF q = r THEN id ELSE Claims[q]]
        BY DEF Claims
      <4>2. Claims' = [q \in Requests |-> Claims'[q]]
        BY DEF Claims
      <4> QED
        BY <1>2, <3>1, <4>1, <4>2
    <3>3. Issued[id].code = Presented[r].code
      BY <2>3, <2>6 DEF Issued, Presented
    <3>4. Ledger!Claim(r)
      BY <1>1, <2>1, <2>2, <2>4, <2>5, <3>2, <3>3 DEF Ledger!Claim
    <3> QED
      BY <3>4 DEF Ledger!Next
  <2>7. CASE codes[id].code # input[r].code
    <3>1. Claims'[r] = 0
      BY <1>1, <1>5, <2>3, <2>7 DEF Claims
    <3>2. UNCHANGED Claims
      BY <1>2, <2>4, <3>1 DEF Claims
    <3> QED
      BY <1>1, <2>1, <3>2 DEF Ledger!ledger
  <2> QED
    BY <2>6, <2>7
<1> QED
  BY <1>4, <1>5, LedgerSteps

(* So is every step of the clock, and a restart is none.                    *)
LEMMA StepMaps ==
    TypeOK /\ TypeOK' /\ CodeInv /\ LedgerInv /\ [Next]_vars
       => [Ledger!Next]_(Ledger!ledger)
<1> SUFFICES ASSUME TypeOK, TypeOK', CodeInv, LedgerInv, [Next]_vars
             PROVE  [Ledger!Next]_(Ledger!ledger)
  OBVIOUS
<1>0. pc \in [Requests -> {"new"} \cup SendPCs \cup LoginPCs \cup EndPCs]
  BY DEF TypeOK
<1>1. ASSUME NEW r \in Requests, RequestStep(r)
      PROVE  [Ledger!Next]_(Ledger!ledger)
  BY <1>1, RequestMaps
<1>2. ASSUME UNCHANGED <<codes, loc, input>>, Holders' = Holders
      PROVE  UNCHANGED <<Issued, Spent, Presented, Claims, Holders>>
  BY <1>2, PresentedKept DEF Issued, Spent, Claims
<1>3. CASE Restart
  <2>1. UNCHANGED <<now, codes, loc, input>>
    BY <1>3 DEF Restart, tables
  <2>2. \A r \in Requests : pc'[r] = "ok" <=> pc[r] = "ok"
    BY <1>0, <1>3 DEF Restart, InFlight, SendPCs, LoginPCs
  <2>3. Holders' = Holders
    BY <2>2 DEF Holders
  <2> QED
    BY <1>2, <2>1, <2>3 DEF Ledger!ledger
<1>4. CASE Tick
  <2>1. UNCHANGED <<codes, loc, input, pc>> /\ now' = now + 1
    BY <1>4 DEF Tick, tables
  <2>2. Holders' = Holders
    BY <2>1 DEF Holders
  <2>3. Ledger!Tick
    BY <1>2, <2>1, <2>2 DEF Ledger!Tick
  <2> QED
    BY <2>3 DEF Ledger!Next
<1>5. CASE UNCHANGED vars
  <2>1. UNCHANGED <<now, codes, loc, input, pc>>
    BY <1>5 DEF vars, tables
  <2>2. Holders' = Holders
    BY <2>1 DEF Holders
  <2> QED
    BY <1>2, <2>1, <2>2 DEF Ledger!ledger
<1> QED
  BY <1>1, <1>3, <1>4, <1>5 DEF Next, RequestStep

(* The requests keep the ledger of codes, whatever fails and whenever the   *)
(* server restarts.                                                         *)
THEOREM ImplementsLedger == Spec => KeepsLedger
<1>1. Init => Ledger!Init
  <2> SUFFICES ASSUME Init PROVE Ledger!Init
    OBVIOUS
  <2>1. Issued = <<>> /\ Spent = {}
    BY DEF Init, Issued, Spent
  <2>2. Presented \in [Requests -> [phone : Phones, code : Codes]]
    BY DEF Init, Presented, Phone, Inputs
  <2>3. Claims = [r \in Requests |-> 0] /\ Holders = {}
    BY DEF Init, Claims, Holders
  <2> QED
    BY <2>1, <2>2, <2>3 DEF Init, Ledger!Init
<1> QED
  BY <1>1, TypeCorrect, CodeInvariance, LedgerInvariance, StepMaps, PTL
  DEF Spec, KeepsLedger, Ledger!Spec

-----------------------------------------------------------------------------
(* The limiter.                                                             *)

\* What is proved of RateLimiter, with the limiter of the login service.
Proved == INSTANCE RateLimiterProofs WITH
    Keys <- LimiterKeys, LimitOf <- LimiterLimit, WindowOf <- LimiterWindow,
    last <- LimiterLast, counters <- LimiterCounters,
    cooled <- Cooled, allowed <- Allowed

(* The keys, limits and windows of the login service are ones that          *)
(* RateLimiter is about.                                                    *)
LEMMA LimiterConstants == Proved!ConstantsAssumption
<1>1. LimiterLimit \in [LimiterKeys -> Int]
  BY ConfigAssumption DEF LimiterLimit
<1>2. LimiterWindow \in [LimiterKeys -> Int]
  BY ConfigAssumption DEF LimiterWindow
<1> QED
  BY <1>1, <1>2, ConfigAssumption DEF Proved!ConstantsAssumption

(* The keys of one prefix, and what the maps say of them.                   *)
LEMMA KeyShape ==
    /\ \A ip \in IPs :
          /\ <<"send:ip", ip>> \in LimiterKeys
          /\ <<"login:ip", ip>> \in LimiterKeys
          /\ IsCooldown(<<"send:ip", ip>>)
          /\ ~IsCooldown(<<"login:ip", ip>>)
          /\ LimiterWindow[<<"send:ip", ip>>] = SendCodeCooldown
          /\ LimiterWindow[<<"login:ip", ip>>] = LoginIPRateWindow
          /\ LimiterLimit[<<"login:ip", ip>>] = LoginIPRateLimit
          /\ LimiterLast[<<"send:ip", ip>>] = sendIP[ip]
          /\ LimiterCounters[<<"login:ip", ip>>] = loginIP[ip]
    /\ \A p \in Phones :
          /\ <<"send:phone", p>> \in LimiterKeys
          /\ <<"verify_fail:phone", p>> \in LimiterKeys
          /\ IsCooldown(<<"send:phone", p>>)
          /\ ~IsCooldown(<<"verify_fail:phone", p>>)
          /\ LimiterWindow[<<"send:phone", p>>] = SendCodeCooldown
          /\ LimiterWindow[<<"verify_fail:phone", p>>] = VerifyWindow
          /\ LimiterLimit[<<"verify_fail:phone", p>>] = MaxVerifyAttempts
          /\ LimiterLast[<<"send:phone", p>>] = sendPhone[p]
          /\ LimiterCounters[<<"verify_fail:phone", p>>] = verifyFail[p]
BY DEF LimiterKeys, IsCooldown, LimiterWindow, LimiterLimit, LimiterLast,
       LimiterCounters

\* The four ways in which a step of a request is let pass.
PassSendIP(r) ==
    /\ pc[r] = "new" /\ pc'[r] = "cool_phone"
    /\ CooldownPasses(sendIP[IP(r)], now, SendCodeCooldown)
    /\ sendIP' = [sendIP EXCEPT ![IP(r)] = now]
    /\ UNCHANGED <<sendPhone, loginIP, verifyFail>>

PassSendPhone(r) ==
    /\ pc[r] = "cool_phone" /\ pc'[r] = "make_code"
    /\ CooldownPasses(sendPhone[Phone(r)], now, SendCodeCooldown)
    /\ sendPhone' = [sendPhone EXCEPT ![Phone(r)] = now]
    /\ UNCHANGED <<sendIP, loginIP, verifyFail>>

PassLogin(r) ==
    /\ pc[r] = "new" /\ pc'[r] = "get_user"
    /\ AllowPasses(loginIP[IP(r)], now, LoginIPRateLimit, LoginIPRateWindow)
    /\ loginIP' = [loginIP EXCEPT ![IP(r)] =
                      AfterAllow(@, now, LoginIPRateWindow)]
    /\ UNCHANGED <<sendIP, sendPhone, verifyFail>>

PassVerifyFail(r) ==
    /\ pc[r] = "verify_fail" /\ pc'[r] = "invalid_argument"
    /\ AllowPasses(verifyFail[Phone(r)], now, MaxVerifyAttempts, VerifyWindow)
    /\ verifyFail' = [verifyFail EXCEPT ![Phone(r)] =
                         AfterAllow(@, now, VerifyWindow)]
    /\ UNCHANGED <<sendIP, sendPhone, loginIP>>

\* The step of a request lets no key pass.
PassNothing(r) ==
    /\ UNCHANGED limiter
    /\ ~(pc[r] = "new" /\ pc'[r] \in {"cool_phone", "get_user"})
    /\ ~(pc[r] = "cool_phone" /\ pc'[r] = "make_code")
    /\ ~(pc[r] = "verify_fail" /\ pc'[r] = "invalid_argument")

(* A step of a request is one call of the limiter, or none.                 *)
LEMMA LimiterCalls ==
    ASSUME TypeOK, NEW r \in Requests, RequestStep(r)
    PROVE  \/ PassSendIP(r) \/ PassSendPhone(r) \/ PassLogin(r)
           \/ PassVerifyFail(r) \/ PassNothing(r)
<1>0. pc \in [Requests -> {"new"} \cup SendPCs \cup LoginPCs \cup EndPCs]
  BY DEF TypeOK
<1>1. CASE Arrive(r)
  <2>1. CASE RejectInput(r)
    BY <1>0, <2>1 DEF RejectInput, Goto, PassNothing
  <2>2. CASE SendAdmit(r)
    BY <1>0, <2>2 DEF SendAdmit, Goto, PassNothing, PassSendIP, limiter
  <2>3. CASE LoginAdmit(r)
    BY <1>0, <2>3 DEF LoginAdmit, Goto, PassNothing, PassLogin, limiter
  <2> QED
    BY <1>1, <2>1, <2>2, <2>3 DEF Arrive
<1>2. CASE WriteStep(r)
  <2>1. /\ UNCHANGED limiter
        /\ pc[r] \in WritePCs \cup ReadPCs
    BY <1>2 DEF WriteStep, Insert, Create, Unlock, LockUser, ConsumeCode,
                IssueToken, DatabaseError, WritePCs, ReadPCs
  <2> QED
    BY <2>1 DEF PassNothing, WritePCs, ReadPCs
<1>3. CASE CoolPhone(r)
  BY <1>0, <1>3 DEF CoolPhone, Goto, PassNothing, PassSendPhone, limiter
<1>4. CASE VerifyFail(r)
  BY <1>0, <1>4 DEF VerifyFail, Goto, PassNothing, PassVerifyFail, limiter
<1>5. CASE MakeCode(r) \/ ReadUser(r) \/ UserMissing(r) \/ CheckLock(r)
              \/ LatestActive(r)
  BY <1>0, <1>5 DEF MakeCode, ReadUser, UserMissing, CheckLock, LatestActive,
                    PassNothing
<1> QED
  BY <1>1, <1>2, <1>3, <1>4, <1>5, RequestStepCases DEF ReadStep

\* Exactly the given keys have been let pass since the last state.
PassedExactly(S) ==
    \A k \in LimiterKeys :
       passed'[k] = IF k \in S THEN Append(passed[k], now) ELSE passed[k]

(* What Record notes of a step of a request.                                *)
LEMMA RecordOfStep ==
    ASSUME TypeOK, NEW r \in Requests, RequestStep(r), Record
    PROVE  /\ PassSendIP(r) => PassedExactly({<<"send:ip", IP(r)>>})
           /\ PassSendPhone(r) => PassedExactly({<<"send:phone", Phone(r)>>})
           /\ PassLogin(r) => PassedExactly({<<"login:ip", IP(r)>>})
           /\ PassVerifyFail(r) =>
                 PassedExactly({<<"verify_fail:phone", Phone(r)>>})
           /\ PassNothing(r) => PassedExactly({})
<1>1. /\ \A q \in Requests : q # r => pc'[q] = pc[q]
      /\ restarts' = restarts
  BY Frame
<1>2. \A k \in LimiterKeys :
         passed'[k] = IF Passes(k) THEN Append(passed[k], now) ELSE passed[k]
  BY <1>1 DEF Record
<1>3. \A k : Passes(k) <=>
         \/ k = <<"send:ip", IP(r)>> /\ pc[r] = "new" /\ pc'[r] = "cool_phone"
         \/ /\ k = <<"send:phone", Phone(r)>>
            /\ pc[r] = "cool_phone" /\ pc'[r] = "make_code"
         \/ k = <<"login:ip", IP(r)>> /\ pc[r] = "new" /\ pc'[r] = "get_user"
         \/ /\ k = <<"verify_fail:phone", Phone(r)>>
            /\ pc[r] = "verify_fail" /\ pc'[r] = "invalid_argument"
  BY <1>1 DEF Passes
<1> QED
  BY <1>2, <1>3 DEF PassedExactly, PassSendIP, PassSendPhone, PassLogin,
                    PassVerifyFail, PassNothing

(* A key of Cooldown that passes, with all others left alone, is a call of  *)
(* Cooldown that passes.                                                    *)
LEMMA CooldownCall ==
    ASSUME NEW key \in LimiterKeys, IsCooldown(key),
           CooldownPasses(LimiterLast[key], now, LimiterWindow[key]),
           \A k \in LimiterKeys :
              LimiterLast'[k] = IF k = key THEN now ELSE LimiterLast[k],
           UNCHANGED <<now, LimiterCounters>>,
           PassedExactly({key})
    PROVE  Limits!CooldownPass(key)
<1>1. LimiterLast' = [LimiterLast EXCEPT ![key] = now]
  BY DEF LimiterLast
<1>2. Cooled' = [Cooled EXCEPT ![key] = Append(Cooled[key], now)]
  BY DEF Cooled, PassedExactly
<1>3. UNCHANGED Allowed
  BY DEF Allowed, PassedExactly
<1> QED
  BY <1>1, <1>2, <1>3 DEF Limits!CooldownPass, Limits!CooldownPasses,
                          CooldownPasses, Limits!Never, Never

(* Likewise for Allow.                                                      *)
LEMMA AllowCall ==
    ASSUME NEW key \in LimiterKeys, ~IsCooldown(key),
           AllowPasses(LimiterCounters[key], now, LimiterLimit[key],
                       LimiterWindow[key]),
           \A k \in LimiterKeys :
              LimiterCounters'[k] =
                 IF k = key
                 THEN AfterAllow(LimiterCounters[k], now, LimiterWindow[k])
                 ELSE LimiterCounters[k],
           UNCHANGED <<now, LimiterLast>>,
           PassedExactly({key})
    PROVE  Limits!AllowPass(key)
<1>1. LimiterCounters' =
         [LimiterCounters EXCEPT ![key] =
             AfterAllow(LimiterCounters[key], now, LimiterWindow[key])]
  BY DEF LimiterCounters
<1>2. Allowed' = [Allowed EXCEPT ![key] = Append(Allowed[key], now)]
  BY DEF Allowed, PassedExactly
<1>3. UNCHANGED Cooled
  BY DEF Cooled, PassedExactly
<1> QED
  BY <1>1, <1>2, <1>3
  DEF Limits!AllowPass, Limits!AllowPasses, AllowPasses, Limits!NewWindow,
      NewWindow, Limits!AfterAllow, AfterAllow

(* So every step of a request is a step of the limiter, or none.            *)
LEMMA RequestCalls ==
    ASSUME TypeOK, NEW r \in Requests, RequestStep(r), Record
    PROVE  [Limits!Next]_(Limits!vars)
<1>1. /\ UNCHANGED now /\ IP(r) \in IPs /\ Phone(r) \in Phones
      /\ sendIP \in [IPs -> Nat \cup {Never}]
      /\ sendPhone \in [Phones -> Nat \cup {Never}]
      /\ loginIP \in [IPs -> [start : Nat, count : Nat]]
      /\ verifyFail \in [Phones -> [start : Nat, count : Nat]]
  BY Frame DEF TypeOK, IP, Phone, Inputs
<1>2. CASE PassSendIP(r)
  <2> DEFINE key == <<"send:ip", IP(r)>>
  <2>1. /\ key \in LimiterKeys /\ IsCooldown(key)
        /\ CooldownPasses(LimiterLast[key], now, LimiterWindow[key])
    BY <1>1, <1>2, KeyShape DEF PassSendIP
  <2>2. \A k \in LimiterKeys :
           LimiterLast'[k] = IF k = key THEN now ELSE LimiterLast[k]
    BY <1>1, <1>2 DEF PassSendIP, LimiterLast, LimiterKeys
  <2>3. UNCHANGED LimiterCounters
    BY <1>2 DEF PassSendIP, LimiterCounters
  <2>4. PassedExactly({key})
    BY <1>2, RecordOfStep
  <2> HIDE DEF key
  <2>5. Limits!CooldownPass(key)
    BY <1>1, <2>1, <2>2, <2>3, <2>4, CooldownCall
  <2> QED
    BY <2>1, <2>5 DEF Limits!Next
<1>3. CASE PassSendPhone(r)
  <2> DEFINE key == <<"send:phone", Phone(r)>>
  <2>1. /\ key \in LimiterKeys /\ IsCooldown(key)
        /\ CooldownPasses(LimiterLast[key], now, LimiterWindow[key])
    BY <1>1, <1>3, KeyShape DEF PassSendPhone
  <2>2. \A k \in LimiterKeys :
           LimiterLast'[k] = IF k = key THEN now ELSE LimiterLast[k]
    BY <1>1, <1>3 DEF PassSendPhone, LimiterLast, LimiterKeys
  <2>3. UNCHANGED LimiterCounters
    BY <1>3 DEF PassSendPhone, LimiterCounters
  <2>4. PassedExactly({key})
    BY <1>3, RecordOfStep
  <2> HIDE DEF key
  <2>5. Limits!CooldownPass(key)
    BY <1>1, <2>1, <2>2, <2>3, <2>4, CooldownCall
  <2> QED
    BY <2>1, <2>5 DEF Limits!Next
<1>4. CASE PassLogin(r)
  <2> DEFINE key == <<"login:ip", IP(r)>>
  <2>1. /\ key \in LimiterKeys /\ ~IsCooldown(key)
        /\ AllowPasses(LimiterCounters[key], now, LimiterLimit[key],
                       LimiterWindow[key])
    BY <1>1, <1>4, KeyShape DEF PassLogin
  <2>2. \A k \in LimiterKeys :
           LimiterCounters'[k] =
              IF k = key
              THEN AfterAllow(LimiterCounters[k], now, LimiterWindow[k])
              ELSE LimiterCounters[k]
    <3>1. loginIP'[IP(r)] =
             AfterAllow(loginIP[IP(r)], now, LoginIPRateWindow)
      BY <1>1, <1>4 DEF PassLogin
    <3>2. LimiterCounters'[key] = loginIP'[IP(r)]
      BY <1>1, KeyShape DEF LimiterCounters
    <3>3. \A k \in LimiterKeys \ {key} :
             LimiterCounters'[k] = LimiterCounters[k]
      BY <1>1, <1>4 DEF PassLogin, LimiterCounters, LimiterKeys
    <3> QED
      BY <1>1, <3>1, <3>2, <3>3, KeyShape
  <2>3. UNCHANGED LimiterLast
    BY <1>4 DEF PassLogin, LimiterLast
  <2>4. PassedExactly({key})
    BY <1>4, RecordOfStep
  <2> HIDE DEF key
  <2>5. Limits!AllowPass(key)
    BY <1>1, <2>1, <2>2, <2>3, <2>4, AllowCall
  <2> QED
    BY <2>1, <2>5 DEF Limits!Next
<1>5. CASE PassVerifyFail(r)
  <2> DEFINE key == <<"verify_fail:phone", Phone(r)>>
  <2>1. /\ key \in LimiterKeys /\ ~IsCooldown(key)
        /\ AllowPasses(LimiterCounters[key], now, LimiterLimit[key],
                       LimiterWindow[key])
    BY <1>1, <1>5, KeyShape DEF PassVerifyFail
  <2>2. \A k \in LimiterKeys :
           LimiterCounters'[k] =
              IF k = key
              THEN AfterAllow(LimiterCounters[k], now, LimiterWindow[k])
              ELSE LimiterCounters[k]
    <3>1. verifyFail'[Phone(r)] =
             AfterAllow(verifyFail[Phone(r)], now, VerifyWindow)
      BY <1>1, <1>5 DEF PassVerifyFail
    <3>2. LimiterCounters'[key] = verifyFail'[Phone(r)]
      BY <1>1, KeyShape DEF LimiterCounters
    <3>3. \A k \in LimiterKeys \ {key} :
             LimiterCounters'[k] = LimiterCounters[k]
      BY <1>1, <1>5 DEF PassVerifyFail, LimiterCounters, LimiterKeys
    <3> QED
      BY <1>1, <3>1, <3>2, <3>3, KeyShape
  <2>3. UNCHANGED LimiterLast
    BY <1>5 DEF PassVerifyFail, LimiterLast
  <2>4. PassedExactly({key})
    BY <1>5, RecordOfStep
  <2> HIDE DEF key
  <2>5. Limits!AllowPass(key)
    BY <1>1, <2>1, <2>2, <2>3, <2>4, AllowCall
  <2> QED
    BY <2>1, <2>5 DEF Limits!Next
<1>6. CASE PassNothing(r)
  <2>1. PassedExactly({})
    BY <1>6, RecordOfStep
  <2>2. UNCHANGED <<Cooled, Allowed>>
    BY <2>1 DEF PassedExactly, Cooled, Allowed
  <2>3. UNCHANGED <<LimiterLast, LimiterCounters>>
    BY <1>6 DEF PassNothing, limiter, LimiterLast, LimiterCounters
  <2> QED
    BY <1>1, <2>2, <2>3 DEF Limits!vars
<1> QED
  BY <1>2, <1>3, <1>4, <1>5, <1>6, LimiterCalls

(* The clock is the limiter's clock, and a restart renews the limiter.      *)
LEMMA LimitedStepMaps ==
    TypeOK /\ [LimitedNext]_limitedVars => [Limits!Next]_(Limits!vars)
<1> SUFFICES ASSUME TypeOK, [LimitedNext]_limitedVars
             PROVE  [Limits!Next]_(Limits!vars)
  OBVIOUS
<1>1. ASSUME NEW r \in Requests, RequestStep(r), Record
      PROVE  [Limits!Next]_(Limits!vars)
  BY <1>1, RequestCalls
<1>2. CASE Restart /\ Record
  <2>1. restarts' # restarts
    BY <1>2 DEF Restart, TypeOK
  <2>2. passed' = [k \in LimiterKeys |-> <<>>]
    BY <1>2, <2>1 DEF Record
  <2>3. /\ Cooled' = [k \in LimiterKeys |-> <<>>]
        /\ Allowed' = [k \in LimiterKeys |-> <<>>]
    BY <2>2 DEF Cooled, Allowed
  <2>4. /\ LimiterLast' = [k \in LimiterKeys |-> Limits!Never]
        /\ LimiterCounters' = [k \in LimiterKeys |-> Limits!NoCounter]
    BY <1>2 DEF Restart, LimiterLast, LimiterCounters, LimiterKeys,
                Limits!Never, Limits!NoCounter, Never, NoCounter
  <2>5. UNCHANGED now
    BY <1>2 DEF Restart
  <2> QED
    BY <2>3, <2>4, <2>5 DEF Limits!Next, Limits!Restart, Limits!Empty
<1>3. ASSUME UNCHANGED <<limiter, passed>>
      PROVE  UNCHANGED <<LimiterLast, LimiterCounters, Cooled, Allowed>>
  BY <1>3 DEF limiter, LimiterLast, LimiterCounters, Cooled, Allowed
<1>4. CASE Tick /\ Record
  <2>1. /\ UNCHANGED <<pc, limiter, restarts>>
        /\ now < MaxClock /\ now' = now + 1
    BY <1>4 DEF Tick, environment
  <2>2. \A k : ~Passes(k)
    BY <2>1 DEF Passes
  <2>3. \A k \in LimiterKeys : passed'[k] = passed[k]
    BY <1>4, <2>1, <2>2 DEF Record
  <2>4. UNCHANGED <<Cooled, Allowed>>
    BY <2>3 DEF Cooled, Allowed
  <2>5. UNCHANGED <<LimiterLast, LimiterCounters>>
    BY <2>1 DEF limiter, LimiterLast, LimiterCounters
  <2>6. Limits!Tick
    BY <2>1, <2>4, <2>5 DEF Limits!Tick
  <2> QED
    BY <2>6 DEF Limits!Next
<1>5. CASE UNCHANGED limitedVars
  BY <1>3, <1>5 DEF limitedVars, vars, Limits!vars
<1> QED
  BY <1>1, <1>2, <1>4, <1>5 DEF LimitedNext, Next, RequestStep

(* With its passes recorded the service is the service: all that is proved  *)
(* of it holds.                                                             *)
LEMMA LimitedIsService == LimitedSpec => Spec
<1>1. LimitedInit => Init
  BY DEF LimitedInit
<1>2. [LimitedNext]_limitedVars => [Next]_vars
  BY DEF LimitedNext, limitedVars
<1> QED
  BY <1>1, <1>2, PTL DEF LimitedSpec, Spec

(* The handlers use the limiter as it is meant to be used, whatever fails   *)
(* and whenever the server restarts (service.go:94, 150 and 244).           *)
THEOREM UsesLimiter == LimitedSpec => KeepsLimiter
<1>1. LimitedInit => Limits!Init
  <2> SUFFICES ASSUME LimitedInit PROVE Limits!Init
    OBVIOUS
  <2>1. /\ LimiterLast = [k \in LimiterKeys |-> Limits!Never]
        /\ LimiterCounters = [k \in LimiterKeys |-> Limits!NoCounter]
    BY DEF LimitedInit, Init, EmptyLimiter, LimiterLast, LimiterCounters,
           LimiterKeys, Limits!Never, Limits!NoCounter, Never, NoCounter
  <2>2. /\ Cooled = [k \in LimiterKeys |-> <<>>]
        /\ Allowed = [k \in LimiterKeys |-> <<>>]
    BY DEF LimitedInit, Cooled, Allowed
  <2> QED
    BY <2>1, <2>2 DEF LimitedInit, Init, Limits!Init, Limits!Empty
<1> QED
  BY <1>1, LimitedIsService, TypeCorrect, LimitedStepMaps, PTL
  DEF LimitedSpec, KeepsLimiter, Limits!Spec

(* The bounds of the limiter hold of the service: nothing but what is       *)
(* proved of RateLimiter on its own is used here.                           *)
THEOREM ServiceLimited == LimitedSpec => []LimitsHold
<1>1. Proved!ConstantsAssumption
  BY LimiterConstants
<1>2. /\ Proved!Spec => []Proved!CooldownSpacing
      /\ Proved!Spec => []Proved!BurstBound
      /\ Proved!Spec => []Proved!NoEarlyRefusal
  BY <1>1, Proved!CooldownCorrect, Proved!BurstBounded,
     Proved!RefusalJustified
<1>3. KeepsLimiter => Proved!Spec
  BY DEF KeepsLimiter, Limits!Spec, Limits!Init, Limits!Empty, Limits!Next,
         Limits!vars, Limits!Tick, Limits!Restart, Limits!CooldownPass,
         Limits!AllowPass, Limits!Refuse, Limits!CooldownPasses,
         Limits!AllowPasses, Limits!NewWindow, Limits!AfterAllow,
         Limits!Never, Limits!NoCounter,
         Proved!Spec, Proved!Init, Proved!Empty, Proved!Next,
         Proved!vars, Proved!Tick, Proved!Restart, Proved!CooldownPass,
         Proved!AllowPass, Proved!Refuse, Proved!CooldownPasses,
         Proved!AllowPasses, Proved!NewWindow, Proved!AfterAllow,
         Proved!Never, Proved!NoCounter
<1>4. Proved!CooldownSpacing /\ Proved!BurstBound /\ Proved!NoEarlyRefusal
         => LimitsHold
  BY DEF LimitsHold, Limits!CooldownSpacing, Limits!BurstBound,
         Limits!NoEarlyRefusal, Limits!AllowRefusesForCause,
         Limits!CooldownRefusesForCause, Limits!Effective,
         Limits!AllowPasses, Limits!NewWindow, Limits!CooldownPasses,
         Limits!Never,
         Proved!CooldownSpacing, Proved!BurstBound,
         Proved!NoEarlyRefusal, Proved!AllowRefusesForCause,
         Proved!CooldownRefusesForCause, Proved!Effective,
         Proved!AllowPasses, Proved!NewWindow, Proved!CooldownPasses,
         Proved!Never
<1> QED
  BY <1>2, <1>3, <1>4, UsesLimiter, PTL

=============================================================================
