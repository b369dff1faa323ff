---------------------------- MODULE LoginService ----------------------------
(***************************************************************************)
(* internal/app/admin-user: sending verification codes and logging in with *)
(* them.  Every request is a goroutine of its own; a step of a request is  *)
(* one call that touches shared state: a call of the rate limiter (atomic  *)
(* under its mutex), one SQL statement, or a decision on the clock.        *)
(* Between two steps of a request, the others, the clock, a failing        *)
(* database and a restart of the server may act.                           *)
(***************************************************************************)
EXTENDS Limiter, Sequences

CONSTANTS
    Requests,           \* the requests the server receives
    Phones,             \* phone_number values that pass IsValidPhone
    IPs,                \* values of handler.clientIP
    Codes,              \* six-digit codes
    SendCodeCooldown, CodeTTL, LoginIPRateLimit, LoginIPRateWindow,
    MaxVerifyAttempts, LockDuration,    \* config.AuthConfig
    VerifyWindow,       \* the 10 minutes of handleVerifyFailure
    MaxClock,           \* bound on the clock
    MaxFaults,          \* bound on failing database calls
    MaxRestarts         \* bound on restarts of the server

\* The configuration takes any number, zero and negative ones too.
ASSUME ConfigAssumption ==
    /\ SendCodeCooldown \in Int /\ CodeTTL \in Int
    /\ LoginIPRateLimit \in Int /\ LoginIPRateWindow \in Int
    /\ MaxVerifyAttempts \in Int /\ LockDuration \in Int
    /\ VerifyWindow \in Int
    /\ MaxClock \in Nat /\ MaxFaults \in Nat /\ MaxRestarts \in Nat

Inputs == [kind : {"send", "login"}, phone : Phones, ip : IPs, code : Codes]

VARIABLES
    now,                \* the clock, shared by the server and the database
    users,              \* table user, the index is the primary key
    codes,              \* table verification_code, likewise
    sendIP, sendPhone, loginIP, verifyFail,  \* MemoryLimiter, by key prefix
    input,              \* what each client sends, fixed when it sends it
    pc,                 \* the next step of each request
    loc,                \* the locals of the handler of each request
    faults, restarts,   \* how often the environment has failed so far
    spent, relocked, fails           \* history, see below

(* Histories that only the properties read:                                 *)
(*   spent[r]     the codes for which a token was out when r was admitted   *)
(*   relocked[r]  r's account was locked since r last read its row          *)
(*   fails[p]     the times at which a code was found wrong for phone p     *)
tables == <<users, codes>>
limiter == <<sendIP, sendPhone, loginIP, verifyFail>>
environment == <<faults, restarts>>
histories == <<spent, relocked, fails>>
vars == <<now, tables, limiter, input, pc, loc, environment, histories>>

\* Never, a time long past, stands for an empty lock_time: both locks are over.
UserRow == [phone : Phones, status : {"active", "locked"}, lockTime : Int]

\* run and at are histories: the run of the server that inserted the row, and
\* the time at which the limiter let its request pass.
CodeRow == [phone : Phones, code : Codes, expireAt : Int, used : BOOLEAN,
            run : Nat, at : Nat]

(* The locals: the code a send generated, the user row as it was read, the  *)
(* id of the code row under verification and the time a write stores; at is *)
(* a history, see CodeRow.                                                  *)
Locals == [code : Codes, uid : Nat, status : {"active", "locked"},
           lockTime : Int, vc : Nat, until : Int, at : Nat]

SendPCs == {"cool_phone", "make_code", "insert"}
LoginPCs == {"get_user", "ensure_get", "create", "reread", "check_lock",
             "unlock", "latest", "verify_fail", "lock", "mark_used", "meta"}
EndPCs == {"sent", "ok", "invalid_argument", "rate_limited",
           "account_locked", "code_expired", "internal_error", "dropped"}

InFlight(r) == pc[r] \in SendPCs \cup LoginPCs

TypeOK ==
    /\ now \in Nat
    /\ users \in Seq(UserRow) /\ codes \in Seq(CodeRow)
    /\ sendIP \in [IPs -> Nat \cup {Never}]
    /\ sendPhone \in [Phones -> Nat \cup {Never}]
    /\ loginIP \in [IPs -> [start : Nat, count : Nat]]
    /\ verifyFail \in [Phones -> [start : Nat, count : Nat]]
    /\ input \in [Requests -> Inputs]
    /\ pc \in [Requests -> {"new"} \cup SendPCs \cup LoginPCs \cup EndPCs]
    /\ loc \in [Requests -> Locals]
    /\ faults \in Nat /\ restarts \in Nat
    /\ spent \in [Requests -> SUBSET Nat]
    /\ relocked \in [Requests -> BOOLEAN]
    /\ fails \in [Phones -> Seq(Nat)]

Phone(r) == input[r].phone
IP(r) == input[r].ip

UsersOf(p) == {id \in DOMAIN users : users[id].phone = p}

\* Mutant: the query forgets the column `used`.
ActiveCodesUsedToo(p, t) ==
    {id \in DOMAIN codes : codes[id].phone = p /\ codes[id].expireAt > t}

\* Mutant: the query forgets the expiry.
ActiveCodesExpired(p, t) ==
    {id \in DOMAIN codes : codes[id].phone = p /\ ~codes[id].used}

\* The rows LatestActive selects from at time t.
ActiveCodes(p, t) ==
    {id \in DOMAIN codes : /\ codes[id].phone = p
                           /\ ~codes[id].used
                           /\ codes[id].expireAt > t}

\* hashCode mixes the phone number into the digest of a code.
Hash(phone, code) == <<phone, code>>

TokenCodes == {loc[r].vc : r \in {q \in Requests : pc[q] = "ok"}}

EmptyLimiter ==
    /\ sendIP = [ip \in IPs |-> Never]
    /\ sendPhone = [p \in Phones |-> Never]
    /\ loginIP = [ip \in IPs |-> NoCounter]
    /\ verifyFail = [p \in Phones |-> NoCounter]

Init ==
    /\ now = 0
    /\ users = <<>> /\ codes = <<>>
    /\ EmptyLimiter
    /\ input \in [Requests -> Inputs]
    /\ pc = [r \in Requests |-> "new"]
    /\ loc = [r \in Requests |->
                [code |-> input[r].code, uid |-> 0, status |-> "active",
                 lockTime |-> Never, vc |-> 0, until |-> 0, at |-> 0]]
    /\ faults = 0 /\ restarts = 0
    /\ spent = [r \in Requests |-> {}]
    /\ relocked = [r \in Requests |-> FALSE]
    /\ fails = [p \in Phones |-> <<>>]

Goto(r, there) == pc' = [pc EXCEPT ![r] = there]

-----------------------------------------------------------------------------
(* The SQL statements the DAOs issue.  Each is atomic in the database.      *)

\* VerificationCodeDAO.Insert
InsertCode(r) ==
    /\ codes' = Append(codes, [phone |-> Phone(r), code |-> loc[r].code,
                               expireAt |-> loc[r].until, used |-> FALSE,
                               run |-> restarts, at |-> loc[r].at])
    /\ UNCHANGED <<users, relocked>>

\* Mutant: the table has no unique index.
InsertUserAgain(r) ==
    /\ users' = Append(users, [phone |-> Phone(r), status |-> "active",
                               lockTime |-> Never])
    /\ UNCHANGED <<codes, relocked>>

\* UserDAO.Create: INSERT ... ON CONFLICT DO NOTHING
InsertUser(r) ==
    /\ users' = IF UsersOf(Phone(r)) = {}
                THEN Append(users, [phone |-> Phone(r), status |-> "active",
                                    lockTime |-> Never])
                ELSE users
    /\ UNCHANGED <<codes, relocked>>

\* VerificationCodeDAO.MarkUsed: whatever the row's state is by now
MarkUsed(r) ==
    /\ codes' = [codes EXCEPT ![loc[r].vc].used = TRUE]
    /\ UNCHANGED <<users, relocked>>

\* UserDAO.UpdateLoginMeta: whatever the row's state is by now
UpdateLoginMeta(r) ==
    /\ users' = [users EXCEPT ![loc[r].uid].status = "active",
                              ![loc[r].uid].lockTime = Never]
    /\ UNCHANGED <<codes, relocked>>

\* UserDAO.Lock
Lock(r) ==
    /\ users' = [users EXCEPT ![loc[r].uid].status = "locked",
                              ![loc[r].uid].lockTime = loc[r].until]
    /\ relocked' = [q \in Requests |->
                      relocked[q] \/ loc[q].uid = loc[r].uid]
    /\ UNCHANGED codes

\* The write statement of the step a request is at.
Statement(r) ==
    \/ pc[r] = "insert" /\ InsertCode(r)
    \/ pc[r] = "create" /\ InsertUser(r)
    \/ pc[r] \in {"unlock", "meta"} /\ UpdateLoginMeta(r)
    \/ pc[r] = "lock" /\ Lock(r)
    \/ pc[r] = "mark_used" /\ MarkUsed(r)

WritePCs == {"insert", "create", "unlock", "lock", "mark_used", "meta"}
ReadPCs == {"get_user", "ensure_get", "reread", "latest"}

-----------------------------------------------------------------------------
(* A malformed body, phone number or code is refused before any state is    *)
(* touched.                                                                 *)
RejectInput(r) ==
    /\ pc[r] = "new"
    /\ Goto(r, "invalid_argument")
    /\ UNCHANGED <<now, tables, limiter, input, loc, environment, histories>>

\* Service.SendCode: Cooldown("send:ip:...") comes first ...
SendAdmit(r) ==
    /\ pc[r] = "new" /\ input[r].kind = "send"
    /\ IF CooldownPasses(sendIP[IP(r)], now, SendCodeCooldown)
       THEN /\ sendIP' = [sendIP EXCEPT ![IP(r)] = now]
            /\ Goto(r, "cool_phone")
       ELSE /\ UNCHANGED sendIP
            /\ Goto(r, "rate_limited")
    /\ UNCHANGED <<now, tables, sendPhone, loginIP, verifyFail, input, loc,
                   environment, histories>>

\* Mutant: the pass of the second cooldown is not recorded.
CoolPhoneForgets(r) ==
    /\ pc[r] = "cool_phone"
    /\ IF CooldownPasses(sendPhone[Phone(r)], now, SendCodeCooldown)
       THEN /\ loc' = [loc EXCEPT ![r].at = now]
            /\ Goto(r, "make_code")
       ELSE /\ UNCHANGED loc
            /\ Goto(r, "rate_limited")
    /\ UNCHANGED <<now, tables, limiter, input, environment, histories>>

\* ... then Cooldown("send:phone:...") ...
CoolPhone(r) ==
    /\ pc[r] = "cool_phone"
    /\ IF CooldownPasses(sendPhone[Phone(r)], now, SendCodeCooldown)
       THEN /\ sendPhone' = [sendPhone EXCEPT ![Phone(r)] = now]
            /\ loc' = [loc EXCEPT ![r].at = now]
            /\ Goto(r, "make_code")
       ELSE /\ UNCHANGED <<sendPhone, loc>>
            /\ Goto(r, "rate_limited")
    /\ UNCHANGED <<now, tables, sendIP, loginIP, verifyFail, input,
                   environment, histories>>

\* ... then the code is drawn, and its expiry computed from a clock read anew.
MakeCode(r) ==
    /\ pc[r] = "make_code"
    /\ \E code \in Codes :
          loc' = [loc EXCEPT ![r].code = code, ![r].until = now + CodeTTL]
    /\ Goto(r, "insert")
    /\ UNCHANGED <<now, tables, limiter, input, environment, histories>>

\* The row is in the table; a failure of the SMS provider is only logged.
Insert(r) ==
    /\ pc[r] = "insert"
    /\ InsertCode(r)
    /\ Goto(r, "sent")
    /\ UNCHANGED <<now, limiter, input, loc, environment, spent, fails>>

\* Service.Login: Allow("login:ip:...")
LoginAdmit(r) ==
    /\ pc[r] = "new" /\ input[r].kind = "login"
    /\ IF AllowPasses(loginIP[IP(r)], now, LoginIPRateLimit, LoginIPRateWindow)
       THEN /\ loginIP' = [loginIP EXCEPT ![IP(r)] =
                               AfterAllow(@, now, LoginIPRateWindow)]
            /\ Goto(r, "get_user")
       ELSE /\ UNCHANGED loginIP
            /\ Goto(r, "rate_limited")
    /\ spent' = [spent EXCEPT ![r] = TokenCodes]
    /\ UNCHANGED <<now, tables, sendIP, sendPhone, verifyFail, input, loc,
                   environment, relocked, fails>>

\* GetByPhone in Login, in EnsureUser and at the end of Create
ReadUser(r) ==
    /\ pc[r] \in {"get_user", "ensure_get", "reread"}
    /\ \E id \in UsersOf(Phone(r)) :
        /\ \A other \in UsersOf(Phone(r)) : id <= other
        /\ loc' = [loc EXCEPT ![r].uid = id,
                              ![r].status = users[id].status,
                              ![r].lockTime = users[id].lockTime]
        /\ Goto(r, IF users[id].status = "locked" THEN "check_lock"
                                                  ELSE "latest")
    /\ relocked' = [relocked EXCEPT ![r] = FALSE]
    /\ UNCHANGED <<now, tables, limiter, input, environment, spent, fails>>

\* Mutant: a user that is missing is looked up again and again.
UserMissingRetry(r) ==
    /\ UsersOf(Phone(r)) = {}
    /\ \/ pc[r] = "get_user" /\ Goto(r, "ensure_get")
       \/ pc[r] = "ensure_get" /\ Goto(r, "get_user")
    /\ UNCHANGED <<now, tables, limiter, input, loc, environment, histories>>

\* ErrUserNotFound: EnsureUser looks once more, then creates the user.
UserMissing(r) ==
    /\ UsersOf(Phone(r)) = {}
    /\ \/ pc[r] = "get_user" /\ Goto(r, "ensure_get")
       \/ pc[r] = "ensure_get" /\ Goto(r, "create")
    /\ UNCHANGED <<now, tables, limiter, input, loc, environment, histories>>

Create(r) ==
    /\ pc[r] = "create"
    /\ InsertUser(r)
    /\ Goto(r, "reread")
    /\ UNCHANGED <<now, limiter, input, loc, environment, spent, fails>>

\* Mutant: the lock is over at its last instant.
CheckLockEarly(r) ==
    /\ pc[r] = "check_lock"
    /\ Goto(r, IF loc[r].lockTime = Never \/ now >= loc[r].lockTime
               THEN "unlock" ELSE "account_locked")
    /\ UNCHANGED <<now, tables, limiter, input, loc, environment, histories>>

\* The lock is judged by the row as it was read and by the time it is now.
CheckLock(r) ==
    /\ pc[r] = "check_lock"
    /\ Goto(r, IF loc[r].lockTime = Never \/ now > loc[r].lockTime
               THEN "unlock" ELSE "account_locked")
    /\ UNCHANGED <<now, tables, limiter, input, loc, environment, histories>>

\* UpdateLoginMeta before the code is looked at: its error is ignored.
Unlock(r) ==
    /\ pc[r] = "unlock"
    /\ UpdateLoginMeta(r)
    /\ loc' = [loc EXCEPT ![r].status = "active"]
    /\ Goto(r, "latest")
    /\ UNCHANGED <<now, limiter, input, environment, spent, fails>>

\* Mutant: the hashes are not compared.
LatestActiveAnyCode(r) ==
    /\ pc[r] = "latest"
    /\ LET active == ActiveCodes(Phone(r), now) IN
       \/ /\ active = {}
          /\ Goto(r, "code_expired")
          /\ UNCHANGED loc
       \/ \E id \in active :
            /\ \A other \in active : other <= id
            /\ loc' = [loc EXCEPT ![r].vc = id]
            /\ Goto(r, "mark_used")
    /\ UNCHANGED <<now, tables, limiter, input, environment, histories>>

\* LatestActive and the comparison of the hashes
LatestActive(r) ==
    /\ pc[r] = "latest"
    /\ LET active == ActiveCodes(Phone(r), now) IN
       \/ /\ active = {}
          /\ Goto(r, "code_expired")
          /\ UNCHANGED loc
       \/ \E id \in active :
            /\ \A other \in active : other <= id
            /\ loc' = [loc EXCEPT ![r].vc = id]
            /\ Goto(r, IF Hash(Phone(r), input[r].code)
                             = Hash(codes[id].phone, codes[id].code)
                       THEN "mark_used" ELSE "verify_fail")
    /\ UNCHANGED <<now, tables, limiter, input, environment, histories>>

\* Mutant: the answer of Allow is read the other way round.
VerifyFailInverted(r) ==
    /\ pc[r] = "verify_fail"
    /\ LET p == Phone(r) IN
       /\ IF AllowPasses(verifyFail[p], now, MaxVerifyAttempts, VerifyWindow)
          THEN /\ verifyFail' = [verifyFail EXCEPT ![p] =
                                     AfterAllow(@, now, VerifyWindow)]
               /\ loc' = [loc EXCEPT ![r].until = now + LockDuration]
               /\ Goto(r, "lock")
          ELSE /\ UNCHANGED <<verifyFail, loc>>
               /\ Goto(r, "invalid_argument")
       /\ fails' = [fails EXCEPT ![p] = Append(@, now)]
    /\ UNCHANGED <<now, tables, sendIP, sendPhone, loginIP, input,
                   environment, spent, relocked>>

\* handleVerifyFailure: Allow counts the failure; a refusal leads to the lock.
VerifyFail(r) ==
    /\ pc[r] = "verify_fail"
    /\ LET p == Phone(r) IN
       /\ IF AllowPasses(verifyFail[p], now, MaxVerifyAttempts, VerifyWindow)
          THEN /\ verifyFail' = [verifyFail EXCEPT ![p] =
                                     AfterAllow(@, now, VerifyWindow)]
               /\ Goto(r, "invalid_argument")
               /\ UNCHANGED loc
          ELSE /\ UNCHANGED verifyFail
               /\ loc' = [loc EXCEPT ![r].until = now + LockDuration]
               /\ Goto(r, "lock")
       /\ fails' = [fails EXCEPT ![p] = Append(@, now)]
    /\ UNCHANGED <<now, tables, sendIP, sendPhone, loginIP, input,
                   environment, spent, relocked>>

LockUser(r) ==
    /\ pc[r] = "lock"
    /\ Lock(r)
    /\ Goto(r, "invalid_argument")
    /\ UNCHANGED <<now, limiter, input, loc, environment, spent, fails>>

ConsumeCode(r) ==
    /\ pc[r] = "mark_used"
    /\ MarkUsed(r)
    /\ Goto(r, "meta")
    /\ UNCHANGED <<now, limiter, input, loc, environment, spent, fails>>

\* UpdateLoginMeta, then Issuer.Issue signs the token (in memory).
IssueToken(r) ==
    /\ pc[r] = "meta"
    /\ UpdateLoginMeta(r)
    /\ Goto(r, "ok")
    /\ UNCHANGED <<now, limiter, input, loc, environment, spent, fails>>

-----------------------------------------------------------------------------
\* Mutant: the error of Create is dropped like the one of the early unlock.
AfterErrorCreateDropped(r) ==
    CASE pc[r] = "unlock" -> "latest"
      [] pc[r] = "create" -> "reread"
      [] pc[r] = "lock"   -> "invalid_argument"
      [] OTHER            -> "internal_error"

\* Mutant: the error of MarkUsed is only logged.
AfterErrorMarkDropped(r) ==
    CASE pc[r] = "unlock"    -> "latest"
      [] pc[r] = "mark_used" -> "meta"
      [] pc[r] = "lock"      -> "invalid_argument"
      [] OTHER               -> "internal_error"

(* What a request answers when its database call returns an error: Lock's   *)
(* is only logged, the one of the early UpdateLoginMeta is dropped.         *)
AfterError(r) ==
    CASE pc[r] = "unlock" -> "latest"
      [] pc[r] = "lock"   -> "invalid_argument"
      [] OTHER            -> "internal_error"

(* A database call fails: the client is gone, the connection breaks.  A     *)
(* write may have been committed all the same.                              *)
DatabaseError(r) ==
    /\ faults < MaxFaults
    /\ pc[r] \in ReadPCs \cup WritePCs
    /\ Statement(r) \/ UNCHANGED <<tables, relocked>>
    /\ Goto(r, AfterError(r))
    /\ loc' = IF pc[r] = "unlock"
              THEN [loc EXCEPT ![r].status = "active"] ELSE loc
    /\ faults' = faults + 1
    /\ UNCHANGED <<now, limiter, input, restarts, spent, fails>>

\* The process goes down and comes up again: the limiter is new, the requests
\* in flight are cut off, the database keeps what was committed.
Restart ==
    /\ restarts < MaxRestarts
    /\ restarts' = restarts + 1
    /\ sendIP' = [ip \in IPs |-> Never]
    /\ sendPhone' = [p \in Phones |-> Never]
    /\ loginIP' = [ip \in IPs |-> NoCounter]
    /\ verifyFail' = [p \in Phones |-> NoCounter]
    /\ pc' = [r \in Requests |-> IF InFlight(r) THEN "dropped" ELSE pc[r]]
    /\ UNCHANGED <<now, tables, input, loc, faults, histories>>

Tick ==
    /\ now < MaxClock
    /\ now' = now + 1
    /\ UNCHANGED <<tables, limiter, input, pc, loc, environment, histories>>

SendStep(r) == CoolPhone(r) \/ MakeCode(r) \/ Insert(r)

LoginStep(r) ==
    \/ ReadUser(r) \/ UserMissing(r) \/ Create(r)
    \/ CheckLock(r) \/ Unlock(r)
    \/ LatestActive(r) \/ VerifyFail(r) \/ LockUser(r)
    \/ ConsumeCode(r) \/ IssueToken(r)

Arrive(r) == RejectInput(r) \/ SendAdmit(r) \/ LoginAdmit(r)

Next ==
    \/ \E r \in Requests :
          Arrive(r) \/ SendStep(r) \/ LoginStep(r) \/ DatabaseError(r)
    \/ Restart
    \/ Tick

(* A goroutine that is not blocked goes on, and every SQL statement answers *)
(* in the end; clients, the clock, faults and restarts owe nothing.         *)
KeepsGoing(r) == WF_vars(SendStep(r) \/ LoginStep(r))

Fairness == \A r \in Requests : KeepsGoing(r)

Spec == Init /\ [][Next]_vars
FairSpec == Spec /\ Fairness

-----------------------------------------------------------------------------
LockedNow(id) == users[id].status = "locked" /\ now <= users[id].lockTime

(* However many first logins of a phone run at once, one account comes of   *)
(* it, and every request that got past its registration works on that       *)
(* account (EnsureUser, UserDAO.Create).                                    *)
OneAccountPerPhone ==
    /\ \A i, j \in DOMAIN users : users[i].phone = users[j].phone => i = j
    /\ \A r \in Requests :
          pc[r] \in {"check_lock", "unlock", "latest", "verify_fail", "lock",
                     "mark_used", "meta", "ok"}
             => loc[r].uid \in UsersOf(Phone(r))

(* However sends run side by side, from whichever addresses, and however    *)
(* late each row gets into the table: the codes that one run of the server  *)
(* inserts for a phone, and texts to it, were let pass SendCodeCooldown     *)
(* apart (service.go:92-110).                                               *)
Apart(t, u) == t - u >= SendCodeCooldown \/ u - t >= SendCodeCooldown

CodesSpaced ==
    \A i, j \in DOMAIN codes :
        codes[i].phone = codes[j].phone /\ codes[i].run = codes[j].run /\ i # j
            => Apart(codes[i].at, codes[j].at)

(* A token stands for a code: the one that was generated for this very      *)
(* phone, that the client entered, and that is burnt by now, whatever       *)
(* failed on the way (service.go:186-199).                                  *)
TokenBacked ==
    \A r \in Requests : pc[r] = "ok" =>
        /\ loc[r].vc \in DOMAIN codes
        /\ codes[loc[r].vc].phone = Phone(r)
        /\ codes[loc[r].vc].code = input[r].code
        /\ codes[loc[r].vc].used

(* A code is burnt only by a request that presented it: a wrong guess or    *)
(* somebody else's login never costs a user the code (service.go:186-193).  *)
BurntOnlyByMatch ==
    \A id \in DOMAIN codes : codes[id].used =>
        \E r \in Requests :
            /\ loc[r].vc = id /\ pc[r] # "new"
            /\ Phone(r) = codes[id].phone /\ input[r].code = codes[id].code

(* One code, one login, for requests that follow one another: a request     *)
(* that is admitted when a token is already out for a code gets no second   *)
(* token for it (LatestActive skips used rows, MarkUsed comes before the    *)
(* token, verification_code.go:28-46).                                      *)
NoSecondTokenLater ==
    \A r \in Requests : pc[r] = "ok" => loc[r].vc \notin spent[r]

(* A verification attempt that leads to a lock is the last of more than     *)
(* MaxVerifyAttempts failures of that phone within one VerifyWindow, and    *)
(* the lock lasts for LockDuration from that failure: no account is ever    *)
(* locked for less or for a shorter time, in whatever order the statements  *)
(* of failing logins reach the table (service.go:237-251).                  *)
Attempts == IF MaxVerifyAttempts >= 1 THEN MaxVerifyAttempts ELSE 1

FailedTooOften(p, until) ==
    \E i, j \in DOMAIN fails[p] :
        /\ j - i = Attempts /\ fails[p][j] - fails[p][i] < VerifyWindow
        /\ until >= fails[p][j] + LockDuration

LockedOnlyForFailures ==
    /\ \A id \in DOMAIN users :
          users[id].status = "locked"
             => FailedTooOften(users[id].phone, users[id].lockTime)
    /\ \A r \in Requests :
          pc[r] = "lock" => FailedTooOften(Phone(r), loc[r].until)

(* A lock that has not run out is taken off only by a request that read the *)
(* account before the lock was set: no request that starts under a lock     *)
(* gets past it (service.go:168-176, dao/user.go:49-58).                    *)
LockStopsNewcomers ==
    [][ \A id \in DOMAIN users :
          LockedNow(id) /\ users'[id].status = "active" =>
            \E r \in Requests :
                /\ pc[r] \in {"unlock", "meta"} /\ pc'[r] # pc[r]
                /\ loc[r].uid = id /\ relocked[r] ]_vars

(* The row a request reads back after Create is there, and so is every row  *)
(* its later steps work on: whatever the others, failing statements and a   *)
(* restart have done to the tables and to the limiter, the next call of a   *)
(* request has an outcome from which its handler goes on.  A row that is    *)
(* missing would make the handler answer 500 for a registration that        *)
(* succeeded (dao/user.go:41-46).                                           *)
NeverStuck ==
    \A r \in Requests :
        InFlight(r) => ENABLED <<SendStep(r) \/ LoginStep(r)>>_vars

(* A request that the server has taken up is answered or cut off by a       *)
(* restart, whatever the others do to the rows it works on.                 *)
EveryRequestEnds == \A r \in Requests : InFlight(r) ~> pc[r] \in EndPCs

(* The ledger of codes as the tables and the requests show it.              *)
Issued == [id \in DOMAIN codes |->
              [phone |-> codes[id].phone, code |-> codes[id].code,
               expireAt |-> codes[id].expireAt]]

Spent == {id \in DOMAIN codes : codes[id].used}

Presented == [r \in Requests |-> [phone |-> Phone(r), code |-> input[r].code]]

Claims ==
    [r \in Requests |->
        IF loc[r].vc # 0 /\ codes[loc[r].vc].code = input[r].code
        THEN loc[r].vc ELSE 0]

Holders == {r \in Requests : pc[r] = "ok"}

Ledger == INSTANCE CodeLedger WITH
    issued <- Issued, spent <- Spent, presented <- Presented,
    claim <- Claims, granted <- Holders

(* The requests, with everything that interrupts them, keep the ledger of   *)
(* codes: no expired or superseded code is ever accepted, none is extended  *)
(* or revived, only a claimed one is spent, and a token follows its spent   *)
(* claim (service.go:102-130 and 178-206, dao/verification_code.go).        *)
KeepsLedger == Ledger!Spec

-----------------------------------------------------------------------------
(* The inductive invariant, in parts: who holds which code, which lock a    *)
(* request is up against, what the failure counters count, and which passes *)
(* of the send cooldown the limiter knows.                                  *)

\* A request that has found its code right, until the end.
Verified == {"mark_used", "meta", "ok", "internal_error", "dropped"}

Matches(r, id) ==
    /\ id \in DOMAIN codes
    /\ codes[id].phone = Phone(r) /\ codes[id].code = input[r].code

(* Who is past the comparison holds a matching row that was not spent when  *)
(* it was admitted, who is past MarkUsed a used one; the spent codes are    *)
(* used; a used row has a request that verified it.                         *)
CodeInv ==
    /\ \A r \in Requests :
          /\ pc[r] \in {"mark_used", "meta", "ok"} =>
                Matches(r, loc[r].vc) /\ loc[r].vc \notin spent[r]
          /\ pc[r] \in {"meta", "ok"} => codes[loc[r].vc].used
          /\ \A id \in spent[r] : id \in DOMAIN codes /\ codes[id].used
    /\ \A id \in DOMAIN codes : codes[id].used =>
          \E r \in Requests :
             pc[r] \in Verified /\ loc[r].vc = id /\ Matches(r, id)

\* Steps of a request that found no lock on its account.
PassedLock == {"unlock", "latest", "mark_used", "meta"}

(* Unless the account was locked anew since the request read it, a lock     *)
(* found then is the one the row still has, and a request that went past    *)
(* the check is not facing a lock.                                          *)
LockInv ==
    \A r \in Requests : ~relocked[r] =>
        /\ pc[r] = "check_lock" =>
              \/ users[loc[r].uid].status = "active"
              \/ users[loc[r].uid].lockTime = loc[r].lockTime
        /\ pc[r] \in PassedLock => ~LockedNow(loc[r].uid)

(* The counter of a phone never exceeds the limit and counts failures of    *)
(* this phone, the latest ones, all of its own window.                      *)
Counts(p) ==
    /\ verifyFail[p].start <= now
    /\ verifyFail[p].count <= Attempts
    /\ verifyFail[p].count <= Len(fails[p])
    /\ \A k \in DOMAIN fails[p] :
          k > Len(fails[p]) - verifyFail[p].count
             => fails[p][k] >= verifyFail[p].start

FailInv == LockedOnlyForFailures /\ \A p \in Phones : Counts(p)

\* The cooldowns have let the request pass, its row is not in the table yet.
Pending(r) == pc[r] \in {"make_code", "insert"}

\* The last pass of phone p that the limiter knows is at t or later.
PassedSince(p, t) == sendPhone[p] # Never /\ t <= sendPhone[p]

(* The limiter of this run knows of every pass whose row is of this run or  *)
(* still to come, and these passes are apart from one another; rows of      *)
(* earlier runs are apart among themselves.                                 *)
SpacedInv ==
    /\ \A id \in DOMAIN codes :
          /\ codes[id].run <= restarts
          /\ codes[id].run = restarts =>
                PassedSince(codes[id].phone, codes[id].at)
    /\ \A r \in Requests : Pending(r) =>
          /\ PassedSince(Phone(r), loc[r].at)
          /\ \A q \in Requests : q # r /\ Pending(q) /\ Phone(q) = Phone(r) =>
                Apart(loc[q].at, loc[r].at)
          /\ \A id \in DOMAIN codes :
                codes[id].run = restarts /\ codes[id].phone = Phone(r) =>
                   Apart(codes[id].at, loc[r].at)
    /\ \A p \in Phones : sendPhone[p] <= now
    /\ CodesSpaced

(* What requests in flight hold and what the tables, the limiter and the    *)
(* failures so far say of them agree, whatever is interleaved: the parts    *)
(* above in one (service.go:92-130 and 143-206).                            *)
IInv ==
    /\ TypeOK /\ OneAccountPerPhone
    /\ CodeInv /\ LockInv /\ FailInv /\ SpacedInv

-----------------------------------------------------------------------------
(* What the comments of the code promise.                                   *)

(* service.go:5, a code is good for one login: no two tokens share one.     *)
OneTimeCode ==
    \A r, q \in Requests :
        pc[r] = "ok" /\ pc[q] = "ok" /\ r # q => loc[r].vc # loc[q].vc

(* service.go:7, a locked account stays locked for LockDuration.            *)
LockHeld ==
    [][ \A id \in DOMAIN users :
          LockedNow(id) => users'[id].status = "locked" ]_vars

=============================================================================
