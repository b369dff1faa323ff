# TLA+ models of yintu_server

yintu_server (Go module `spring-slumber-server`) is a small HTTP backend: users
log in with a phone number and a verification code, every `/api/v1` request may
travel in an encrypted, timestamped envelope, and a process-wide limiter stands
in front of both code delivery and login. This directory holds the TLA+
specifications of that program, the TLC configurations that model-check them,
and TLAPS proofs of their safety, refinement and, but for what the provers
cannot see, liveness properties. `PROJECT.json` lists the
components, runs, mutants, findings, hazards and theorems, and maps each
definition to the source lines it stands for.

## 1. The system

| component | source | state it keeps | operations |
|---|---|---|---|
| rate limiter | `internal/service/ratelimit` | `last` (key -> time), `counters` (key -> window start, count), one mutex | `Cooldown`, `Allow` |
| login service | `internal/app/admin-user` | tables `user` and `verification_code`; locals of each request | `SendCode`, `Login`, `EnsureUser`, `handleVerifyFailure`, the DAO statements |
| replay guard | `internal/security/middleware.go` | `inboundNonceStore.entries` (nonce -> timestamp), one mutex | timestamp check, `Remember` with `gc`, decryption |
| middleware pipeline, CORS | `internal/httpserver`, `internal/security/middleware.go` | per request: index into the chain, response, buffered writer, session | Recoverer, RequestLogger, RequestID, locale, CORS, security, ClientMarker, handler |
| keys | `internal/security/keys.go`, `cmd/keygen` | the server's RSA pair, files written by keygen | load, generate, resolve the public half, publish |
| configuration | `internal/config` | process environment | four dotenv layers under a protected snapshot, typed getters with fallbacks |
| lifecycle | `cmd/server`, `internal/httpserver/server.go`, `internal/db`, `internal/app/app.go` | pool, listener, `errCh`, signal context | start, migrate, serve, graceful shutdown, close |
| canonical JSON | `internal/security/canonicaljson.go` | none | ordering of object keys for the signature input |
| locale | `internal/app/i18n/locale` | none | choice of a language |
| routes, SMS, health, generated docs | rest | none | constant answers |

How they interact: a request passes Recoverer, RequestLogger, RequestID, locale
and CORS; below `/api/v1` the security middleware reads the whole body, runs the
replay guard and decrypts, and puts a buffered writer in place of the response
writer; the handler validates the body and calls the login service; the service
calls the limiter (shared by all requests, in memory) and issues single SQL
statements through its DAOs (no transaction spans two of them); on the way out
the security middleware wraps the buffered body into a signed envelope. The
limiter and the nonce store vanish when the process goes down; the tables stay.

What is hard here:

* **Concurrency without transactions.** A login reads the account, reads the
  newest live code, compares, marks the code used, and updates the account, in
  separate statements. Any other request, and the clock, act in between. The
  `WHERE` clauses name only the primary key, so a write decided on an old row
  lands on whatever the row has become.
* **Failure in the middle.** Each statement may fail, and may have been
  committed although it reports an error; some errors are returned, some only
  logged, one is dropped.
* **Restart.** Cooldowns, failure counts and nonces start from nothing next to
  tables that remember locks and codes.
* **Two exits from a chain.** Abort and panic leave gin's handler chain in
  different ways: after an abort the outer handlers still run what follows their
  `Next`, after a panic they do not, and gin goes on with the next handler. The
  buffered writer stays in place in both cases.
* **Processes side by side.** An instance migrates a database that another one
  migrates, a signal meets a listener that fails, the deferred `Close` meets
  handlers that hang, and keygen writes the file that a starting server reads.
* **Edges of windows.** Fixed windows that open with their first event, `>`
  against `>=`, a timestamp that may lie in the future when it is accepted, a
  duration that saturates and an absolute value that overflows, a limit of zero.

What makes each component correct:

* rate limiter: passes of `Cooldown` are spaced; `Allow` bounds a burst; neither
  ever refuses early.
* login service: one account per phone; a token stands for a matching, burnt
  code; codes are burnt only by a match; no token for a code that has given one
  to an earlier login; the codes of a phone are a cooldown apart; a lock has its
  cause, lasts as long as it should and stops newcomers; every request ends; the
  limiter's guarantees hold of the requests, since they use it as it is meant to be.
* replay guard: an envelope passes once per run; a refusal has a cause; nobody
  can tell that the store forgets.
* pipeline: one answer at most, in the wrapping its request asks for; a refused
  body reaches no handler; every request without a panic is logged with what
  was sent; every response carries the right CORS headers; a panic leaves no half
  answer.
* configuration: the documented precedence of the layers, whatever is written
  while they are read.
* keys: keygen's block takes effect; the published half belongs to the one in
  use; a client's key outlives the run it came from.
* lifecycle: nothing is served before the schema is complete; no statement meets
  a closed pool and nobody is cut off without a cause; the exit code is true; a
  process that is told to stop stops.

## 2. Modules

| module | role |
|---|---|
| `Limiter` | the pure decisions of `Cooldown` and `Allow`, shared by `RateLimiter` and `LoginService` |
| `RateLimiter` | the limiter alone under any number of callers and keys |
| `RateLimiterProofs` | TLAPS proofs about it |
| `LoginService` | SendCode and Login as concurrent requests |
| `LoginServiceProofs` | TLAPS proofs about it |
| `CodeLedger` | abstract: what a verification code stands for |
| `LoginLimits` | `LoginService` composed with `RateLimiter` |
| `LoginRefinementProofs` | TLAPS proofs that `LoginService` implements `CodeLedger` and uses the limiter as `RateLimiter` says |
| `LoginProgressProofs` | TLAPS proof that the requests of `LoginService` end |
| `ReplayGuard` | inbound envelopes, nonce store, restart |
| `IdealGuard` | abstract: a replay guard that forgets nothing |
| `ReplayGuardProofs` | TLAPS proofs about `ReplayGuard`, that it implements `IdealGuard` among them |
| `Pipeline` | one request through gin's handler chain |
| `PipelineProofs` | TLAPS proofs about it |
| `Lifecycle` | runs of the program over one database, from start to exit |
| `LifecycleProofs` | TLAPS proofs about it |
| `DotEnv` | the dotenv parser, the layers and the reading of the key pair, as operators |
| `Keys` | runs of the server, keygen, the operator and clients over the files |
| `KeysProofs` | TLAPS proofs about both |
| `MCRateLimiter`, `MCLoginService`, `MCLoginLimits`, `MCReplayGuard`, `MCPipeline`, `MCLifecycle`, `MCKeys` | constants, symmetry and initial states for TLC |

Operators called `...Late`, `...OneMore`, `...Forgets` and the like, introduced by
a comment "Mutant:", are deliberate errors. None of them is used by a
specification. Substituted for the definition that follows them, they show that
the property named in `PROJECT.json` notices the error.

### Limiter, RateLimiter

`last` and `counters` are the two maps of `MemoryLimiter`; the mutex makes each
call one step (`CooldownPass`, `AllowPass`, `Refuse`). `Never` and `NoCounter`
are absent entries; a window may be zero or negative, as the configuration may
make it, and then every call passes. `Restart` is the new limiter of a new process,
which starts with two empty maps. The first call for a key and the first call after the window
open a new window and pass whatever the limit is, so a limit below one acts as
one (`Effective`). `cooled` and `allowed` are histories of passes; only
properties read them. The limit and the window are fixed per key, as every
caller in the code passes constants for its prefix. `NoEarlyRefusal` covers both
calls: what is refused has been used up by passes of the trailing window, and calls
that were refused count for nothing.

### LoginService

A request is an element of `Requests` with an `input` (kind, phone, IP, code), a
program counter `pc`, and the locals of its handler `loc`. One action stands for
one call that touches shared state, together with the local work around it:

| action | code |
|---|---|
| `RejectInput` | body, phone or code refused before any state is touched |
| `SendAdmit`, `CoolPhone` | the two `Cooldown` calls of `SendCode`, IP first |
| `MakeCode` | the code is drawn and its expiry computed, from a clock read anew |
| `Insert` | `VerificationCodeDAO.Insert`; the SMS result is only logged |
| `LoginAdmit` | `Allow("login:ip:...")` |
| `ReadUser`, `UserMissing` | `GetByPhone` in `Login`, `EnsureUser`, and after `Create` |
| `Create` | `INSERT ... ON CONFLICT DO NOTHING` |
| `CheckLock`, `Unlock` | the test of `lock_time` and the early `UpdateLoginMeta` |
| `LatestActive` | the newest unused, unexpired row, and the comparison of the hashes |
| `VerifyFail`, `LockUser` | `handleVerifyFailure`: `Allow`, then `UserDAO.Lock` |
| `ConsumeCode`, `IssueToken` | `MarkUsed`, then `UpdateLoginMeta` and the JWT |
| `DatabaseError` | the statement at hand fails, with or without having been committed |
| `Restart`, `Tick` | the environment |

Rows are never deleted, so a table is a sequence and its index the primary key.
A code is a model value, and `Hash` the pair of phone and code: the salted digest
is equal exactly when both are, so a row of another phone would not match even if
the query returned it. `spent`, `relocked` and `fails` are histories for the
properties, and so are `run` and `at` of a code row, which say in which run of the
server, and when, the cooldown of the phone let its request pass; no guard reads
them.

Left out or merged: `last_login_at`, the nickname, logging, and the bytes of the
JWT (signing is in memory and cannot fail with HMAC); the several readings of
the clock within one action (in `LatestActive` the parameter of the query and
its execution, in `VerifyFail` the count and the lock time) count as
one; the clock does not go back, and server and database share it.

### LoginLimits

`LoginService` inlines the limiter: it applies the operators of `Limiter` to four
maps, one per prefix of the keys (`sendIP`, `sendPhone`, `loginIP`, `verifyFail`).
`LoginLimits` puts the two components back together. `LimiterKeys` are the pairs of
a prefix and an address or a phone; `LimiterLast` and `LimiterCounters` join the four
maps into the two of the code; `LimiterLimit` and `LimiterWindow` are what each
caller passes. The history `passed` is recorded from the requests' progress, not from
the limiter's answers: a key has passed if the handler of a request goes on where
the code goes on after `true` (`Passes`), and a restart empties it.

| prefix | caller | the request goes on |
|---|---|---|
| `send:ip` | `Cooldown`, `SendCode` (`service.go:94`) | to the phone's cooldown |
| `send:phone` | `Cooldown`, `SendCode` (`service.go:94`) | to the drawing of a code |
| `login:ip` | `Allow`, `Login` (`service.go:150`) | to the look-up of the account |
| `verify_fail:phone` | `Allow`, `handleVerifyFailure` (`service.go:244`) | to its refusal, without a lock |

`KeepsLimiter` is the specification of `RateLimiter` under this mapping: each step
of the service is one pass of one key, a refused call or another step that leaves
the limiter alone, a `Tick` or a `Restart`, and a request goes on exactly when the
limiter has let it. `LimitsHold` are the three properties of `RateLimiter` for the
service: it bounds what gets through (sends, logins, counted failures), and says
that whoever is refused owes it to passes of the own key within the window. A send
that the phone's cooldown refuses has consumed that of its address (`service.go:94`):
it costs one cooldown and no more.

### CodeLedger

The abstract specification knows no requests in progress: codes are issued for at
most `CodeTTL`, claimed by whoever presents the newest live one of a phone, spent
on a claim, and a token is granted on a spent claim. `KeepsLedger` is its
specification under the refinement mapping at the end of `LoginService`:

| ledger | LoginService |
|---|---|
| `issued`, `spent` | `Issued`, `Spent`: the rows of `verification_code`, without and by their `used` column |
| `presented` | `Presented`: what the request's body holds |
| `claim` | `Claims`: the row a request found, once it has compared equal |
| `granted` | `Holders`: the requests that end with a token |

`Insert` implements `Issue`, `LatestActive` with a matching code `Claim`,
`ConsumeCode` `Spend` (also when an error is reported after the commit),
`IssueToken` `Grant`; everything else, a restart included, is a stutter or a
`Tick`. `Issue` allows every expiry that is `CodeTTL` after some time that has
passed, because `LoginService` computes it before the insertion. The ledger does allow
two claims on one code, as the code does (finding `one_time_code`).

### ReplayGuard

`entries` is the map of `nonceStore` as pairs. `CheckTimestamp` reads the clock,
`Remember` reads it again and does `gc`, look-up and insertion under one mutex,
`Decrypt` may fail and leaves the nonce spent. An envelope may be carried by any
number of requests. `remembered` is a history: the run of the process in which
the envelope passed. A body that does not look like an envelope goes through
untouched (`ReadPlain`), as in the code.

The distance of a timestamp is computed in the 64 bits of `time.Duration`:
`Since` saturates at `MaxDuration` and `MinDuration`, about 292 years, and `Abs`
of the least duration is that duration, below every window. So the check accepts
what lies further ahead than the type reaches (`InWindow`); a client that sends
microseconds for milliseconds is one. Such an entry is collected only when its
time comes. `MaxDuration` is a constant that is larger than the window.

`IdealGuard` is what the store stands for: a guard that decides in one step and
remembers everything it has let through since the process started. `KeepsIdeal`
is its specification under the mapping at the end of `ReplayGuard`: `passed` is
what the requests carry that `Remember` let through in this run (not the entries:
the ones that were collected are still in it), and `verdict` follows each request
through its two checks. `CheckTimestamp` implements `RefuseUntimely` or, when the
timestamp is right, nothing; `Remember` implements `Pass` or `RefuseUsed`;
`Decrypt` and `ReadPlain` are stutters. `Pass` bounds the age by TTL and not by
the window, since the clock may go on between the two checks; the timestamps
beyond the longest duration that the code lets pass are let pass by it too.

### Pipeline

A request has a route (of `/api/v1`, of one of its subgroups, public, none, or a
preflight, for which no route exists either), an Origin header and a form of
body. `Engine` and `Group` are the chains `newRouter` builds. gin itself is
modelled from how the code uses it: `index` is `gin.Context.index` counted from
one, `open` the positions of the handlers that are inside their `Next` call.
A step is the code of one handler up to its `Next` (`PassThrough`, `RequestID`,
`CORS`, `Admit`, `RefuseInbound`, `Handler`), or, once the index is past the end,
the rest of the innermost open one (`ResumePassThrough`, `WriteLog`,
`EncryptOutbound`, `EncryptFails`), and at last what gin still sends (`Finish`).

| operator | code |
|---|---|
| `Respond` | `c.JSON` through gin's writer or through `bufferWriter`, which keeps the body and passes the status on |
| `Refuse` | `abortError`, which writes around the buffer |
| `WithStatus`, `Sent` | gin's writer: the first bytes send the status and the headers |
| `Panic` | the stack is dropped down to `Recoverer`; its callback answers through `c.Writer`, whatever that is by then, and does not abort, so gin's loop calls the handler after the one that panicked; a further panic has no `Recoverer` below it and net/http drops the connection |
| `DecryptPanics` | `AESDecrypt` with an IV of another length than 12 (`gcm.Open` panics) |

The policy `cors` is any `CORSConfig`; `CORSConfig.AllowedOrigins` is split into
`all` (it holds `"*"`) and `origins`. A body is one of five forms, by what
`decryptInbound` does with it; which envelope the replay guard refuses, and why,
is `ReplayGuard`'s matter. `saw`, `said` and `panicked` are histories.

Left out: the `Skipper` (false for every path below `/api/v1`), `EncryptDisabled`
and `SignDisabled` (`config.go:175` fixes the first to false, nothing sets the
second), transport errors while reading or writing, gin's redirect of a path with
a trailing slash (no middleware runs), handlers that panic after they have
answered, and the constant CORS headers. A request runs in one goroutine and
shares nothing with others but the nonce store, so one request is the system.

### Lifecycle

A run is one process of `cmd/server`; several may exist at once over one
database and one port. `main` is where its main goroutine is; a step goes to the
next point at which somebody else can act.

| action | code |
|---|---|
| `Launch`, `LoadConfig` | `config.Load`, `LoadKeyPair` with its panic |
| `OpenPostgres` | `openPostgres`: no configuration, a pool, or an error and `os.Exit` |
| `HasElement`, `CreateElement`, `MigrateFails` | `app.New`, `migrate`; gorm's AutoMigrate from its use: per table or index a query of the catalogue, then a `CREATE` of its own if it is missing |
| `StartListener`, `Notify` | `go server.Start()`, and only then `signal.NotifyContext` |
| `Listen`, `ListenerFails`, `Accept`, `Handle` | `ListenAndServe` and the handlers, each with a first and a last statement |
| `Signal` | SIGINT or SIGTERM: caught between `NotifyContext` and the deferred `stop`, deadly elsewhere |
| `SelectSignal`, `SelectError` | the two cases of the `select` |
| `ShutdownReturns` | `Shutdown`: no handler is left, or its ten seconds are over |
| `ClosePool`, `Return` | the deferred `Close` of `main`, and the end of the process |

`End` is the end of a process: the handlers that still run are cut off.
`CarriedOut` is the `CREATE` that takes effect although it reports an error, or
although the process that has sent it is killed meanwhile; that it takes effect
some time after the death is the same as a later death. `os.Exit`
runs no deferred call, so it does not close the pool. `timedOut`, `beaten` and
`creator` are histories. Merged or left out: pool sizes, the slog adapter of gorm,
the error of `Shutdown` (it is only logged), connections without a request.
`Handle` may never be taken: a handler may hang.

### DotEnv, Keys

`DotEnv` holds the pure part. Of all settings it follows `SIGN_PRIVATE_KEY` and
`SIGN_PUBLIC_KEY`; a value is the key it encodes and a form, `text` for what the
parser of that half accepts and `raw` for what it does not. That is what
`trimQuotes` decides: a PEM block is folded to one line by keygen, and only a
double-quoted value is unfolded again; a line torn while it was written keeps its
opening quote, which is given and is no key, even alone (`Given`). `AfterFile` is `loadDotEnv` on one file, `Layers` the order of the
calls in `Load`, `PairOf` is `LoadOrGenerateKeyPair`, `Block` and `Written` what
keygen appends and what of it is in the file after a part of the write.

`Keys` puts it in motion. `Launch`, `LoadLayer` (one call of `loadDotEnv`; a file
is read in one step), `BuildPair` and `Stop` are a run of the server;
`KeygenStart`, `KeygenWrite` and `KeygenEnd` are keygen, which may end with its
block written in part (a full disk, a kill); `Edit` is the operator; `Fetch` is
`GET /security/public-key`. A process's environment lives as long as the process,
so `Stop` forgets it. `read` records what `Load` found in each file, `stale` and
`lasting` are histories.

Left out: comments and lines without `=`, the bytes of PEM and DER, an unreadable
file (as good as empty), `SECURITY_ENCRYPT_ENABLED` (keygen writes it, nothing
reads it), and the settings other than the pair, which go through the same layers.

## 3. Runs

| run | instance | shows |
|---|---|---|
| `rate_limiter` | three keys: limit 2 with window 2, limit 0 with window 3, limit 0 with window -1 (at most 2 passes); clock to 3; restarts | spacing, burst bound, no early refusal; the invariant of the proofs is an invariant |
| `login_concurrent` | 1 send, 3 logins, 1 phone, 2 codes, clock to 2, 1 database error | no second token for later logins, locks have a cause and their full length, locks stop newcomers |
| `login_limits` | `LoginLimits` with 2 sends from any of 2 addresses and 2 logins from one of theirs with one code, 1 phone, 2 codes; limits, cooldown and windows 1; clock to 1, 1 restart | the invariant of the proofs, spacing of the codes of a phone; the refinement of `RateLimiter` and what follows for the service |
| `login_live` | 1 send, 2 logins, 2 phones, 2 codes, clock to 1, 1 error, 1 restart, no symmetry | one account per phone, what a token stands for, codes burnt only by a match; no request is ever stuck, every request ends; the refinement of `CodeLedger` across an error and the restart |
| `replay_guard` | 3 requests over 4 envelopes with 2 nonces, one of them beyond the longest duration (6) at first; window 2, TTL 4; clock to 8; 1 restart | once per run, refusal for cause; the invariant of the proofs; the refinement of `IdealGuard` |
| `pipeline` | every route, body and policy over 2 origins; handlers answer 200, 429 or 500; panics wherever the code can panic | wrapping, refusal, access log, CORS, what a panic leaves; the invariant of the proofs |
| `lifecycle` | 2 runs over one database, 2 requests, a table and an index | migration side by side, stop, closing of the pool, exits; the invariant of the proofs; no run is stuck, and one that is told to stop ends |
| `keys` | 2 runs, keygen and 1 edit over three files, 2 generated keys, 1 client, 6 process environments | precedence, keygen's effect, matching halves, keys that outlive a run; the invariant of the proofs |
| `one_time_code` | 2 logins, 1 code | violated |
| `lock_held` | 3 logins, limit 1 | violated |
| `panic_answered` | as `pipeline` | violated |
| `status_kept` | as `pipeline` | violated |

Why the bounds are enough. A limiter clock of 3 takes each window past its edge,
where the interesting cases lie (the window of 3 opens anew at 3, that of 2
holds its `2 * limit` passes around its edge); the key that nothing limits needs
only enough passes to show that (`MaxFree`). In `login_limits` every kind of key
refuses somebody: a send its address, a send its phone after another address has
been consumed, a login its address, a failure its counter; behind the tick the
same keys let pass again, and so they do behind the restart, next to locks and
codes of the run before. That both logins enter one code leaves them to match or
fail by the row they find. It has no errors, which `login_live` and
`login_concurrent` have: `KeepsLimiter` under errors is in the proof
(`UsesLimiter`). In `login_live` the inputs are fixed up to the symmetry that
liveness has to do without: the send and the first login are about the first
phone, and the first login enters the first code (`MCLiveInit`); the second
login has either phone and either code. It has one send, so a superseded row is
not met there; for any number of sends there is the proof (`ImplementsLedger`).
Three logins are the least with which one is under way while a second fails and
a third meets the lock; a limit of 1 makes the lock come with the second
failure, which the fixed window of `Allow` needs to refuse; clock 2 with
`LockDuration` 1 lets a lock run out and be judged at its last instant and after
it. Two codes let a login meet a row that does not match, two phones
(`login_live`) registrations and codes of another user. `MaxVerifyAttempts` 0 is
a configuration the code accepts (it acts as 1). In `replay_guard`, clock 8
takes the early timestamp out of its window and its entry out of the store while
the late one is still to come; the timestamp 10 overflows until the clock reads
4, is refused then, and is in the window from 8 on. `pipeline` needs no bound on
behaviours, since a request takes at most some twenty steps; an allowed origin
and one that is not are the two cases, and three statuses are one that
encryptOutbound's 200 repeats and two that it hides. Two runs are the least that
can race for the schema or the port, and a run that starts after another has
ended covers the restart; a table and an index are the two kinds of element, of
which only the first makes its loser fail; of two requests one can hang while
the other ends. In `keys` the second run meets what changed after the first;
three files give a layer below, one above and the one that tests skip, `.env`
being one more below; the lines an operator writes are the ones that go wrong (a
lone half, a quoted empty value, a stray quote), and the process environments
the same (nothing, a lone half, both, both with the block still folded, an empty
value for either). With three keys two blocks of keygen meet in two files, or in
one behind what is left of a torn one, and a pair of the process meets a block
in a file. `MaxClock`, `MaxFaults`, `MaxRestarts`, `MaxKeys`, `MaxStarts`,
`MaxEdits`, `MaxFree` and `Writable` are the only bounds put on behaviours; the
proofs hold for every value of them. Symmetry is used for safety and action
properties only, over requests of one kind, phones and codes, which no
definition tells apart; the liveness run uses none.

The runs stop when every request has ended and the bounds are used up, hence
`CHECK_DEADLOCK FALSE` in those with a bounded number of requests, `pipeline`
with its single one included; a run of
the program ends for good in `lifecycle`, and `keys` has its three bounds. In
`rate_limiter` a refused call is a step, so deadlock is checked.

Fairness (`login_live`): weak fairness of each request's own steps. A goroutine
that is not blocked is run by the scheduler, the limiter's mutex is held for a
few instructions, and each SQL statement returns or fails. Arrivals, the clock,
errors and restarts owe nothing.

Fairness (`lifecycle`): weak fairness of each main goroutine. It is scheduled,
its statements answer (the ping has a time-out, the server's answer to a
`CREATE` is taken for granted), and the ten seconds of `Shutdown` pass, which is
why `ShutdownReturns` stays enabled while a handler hangs. Handlers, the
listener, arrivals and signals owe nothing.

## 4. Findings

* **A code can give two tokens** (`one_time_code`). `MarkUsed` neither requires
  `used = false` nor looks at the number of affected rows, so two concurrent logins
  that both read the code before either marks it both succeed.
  `NoSecondTokenLater` states what does hold.
* **A fresh lock can be taken off** (`lock_held`). A successful login writes
  `active` on the strength of a row it read before wrong attempts locked the
  account. `LockStopsNewcomers` states what does hold.
* **A panic below `/api/v1` is not answered as documented** (`panic_answered`).
  `Recoverer`'s error body goes into the buffer that nobody sends, so the client
  gets an empty 500; and after a panic inside `decryptInbound` the handler is
  called all the same, with the body as it was sent, and its answer is lost.
  `PanicContained` states what does hold: never a half answer, neither bare nor
  wrapped.
* **Statuses become 200** (`status_kept`). `encryptOutbound` writes 200 over the
  status the handler set, against the statuses the handlers document.

Comments that differ from the code without a run of their own:

* `ratelimit.go:3` and `config.go:89` speak of a sliding count; `Allow` counts in
  a fixed window that its first event opens, so up to `2 * limit - 1` calls pass
  within one window's length. `BurstBound` states what holds.
* `service.go:7` and `handler.go:79` speak of consecutive failures; a successful
  login does not reset the counter, and the lock comes with the failure after the
  limit. `LockedOnlyForFailures` states what holds.
* `router.go:40` gives the chain as CORS, Recoverer, RequestLogger, RequestID,
  Security, while `newRouter` puts CORS inside the other three; `middleware.go:54`
  says that preflights do not reach the access log, while, in the order of
  `newRouter`, they do (`AccessLogged` holds for them too).
* `dotenv.go:15` says that empty values are skipped; a quoted empty value is not,
  and clears what a lower layer had set (`Speaks`, `PrecedenceKept`).
* `middleware.go:35` gives the window as five minutes to both sides; a timestamp
  some 292 years ahead passes the check as well, since `abs` (`middleware.go:241`)
  overflows (`InWindow`). The nonce is spent once all the same (`AtMostOncePerRun`).
* `.env.example:88` and `config.go:173` describe `SECURITY_ENCRYPT_ENABLED`;
  `config.go:175` sets the field to true and nothing reads the variable.

## 5. Proofs

All theorems hold for every value of the constants under the named assumptions:
`ConstantsAssumption` (limits and windows are integers), `ConfigAssumption` (so
are all limits and durations of the login service, zero and negative ones
included, which `config.go:245` accepts), `WindowAssumption` and
`EnvelopesAssumption`, `OriginsAssumption` (no origin is `"*"` or the missing
header), `StatusesAssumption`, `NobodyAssumption` (the mark for no run is not a
run) and `KeysAssumption` (types). Only one of these asks for more than types
and distinct names: `WindowAssumption` has `TimestampWindow + MaxDelay <= TTL`,
that is, a request reaches `Remember` within five minutes of its timestamp
check; without it a delayed twin could find its entry collected. It also has
`TimestampWindow < MaxDuration`, five minutes against 292 years.

* **RateLimiterProofs**: `Invariance` (`IInv`), hence `CooldownCorrect`,
  `BurstBounded` and `RefusalJustified`. `CooldownSpacing` and `BurstBound` speak
  of histories and are not inductive; `CounterInv` ties the counter to the tail of
  the history (its window starts with the `count`-th pass from the end, and passes
  a limit's worth of positions earlier are a window older), `CooldownInv` does so
  for `last`, and `Ordered` makes the differences of times monotone.
* **ReplayGuardProofs**: `Invariance`, hence `EnvelopeOnce`, and
  `RefusalHasCause`. `StoreComplete` says that the store misses only what is too
  old, `Timely` that nobody on the way to `Remember` carries something that
  old, and that what is further ahead than the window is beyond the longest
  duration (`InWindowFacts`), `StoreSound` that every entry was put there by a request of this run,
  `RunsOrdered` that a request that has not remembered has no mark.
  `ImplementsIdeal` is the refinement of `IdealGuard`, from the same invariant:
  when `Remember` finds nothing, `StoreComplete` and `Timely` say that nothing
  was collected that would have stood in the way, and when it refuses,
  `StoreSound` names the request that passed. Each action maps to a step of the
  ideal guard or to a stutter (`CheckMaps`, `RememberMaps`, `MapFacts`).
* **LoginServiceProofs**: `TypeCorrect` first, then five layers, each inductive
  on top of it, and together the invariant `IInv` (`Invariance`) that TLC checks in
  `login_limits`.
  - *Codes* (`CodeInv`): who is past the comparison holds a matching row that was
    not spent when it was admitted; who is past `MarkUsed` holds a used one; spent
    codes are used; a used row has a request that verified it. This gives
    `TokensBacked`, `CodesBurntByMatch`, and `CodesOneTimeInSequence`.
  - *Accounts*: `OneAccountPerPhone` is inductive by itself, because its second
    part says which row each request in flight works on (`AccountsUnique`).
  - *Locks* (`LockInv`): unless its account was locked anew since it was read, a
    request at the check has the lock time the row has, and one past the check
    faces no lock. With *Accounts* this gives `NewcomersStayOut`.
  - *Failures* (`FailInv`): the counter of a phone counts its latest failures,
    all of them in the counter's window, and does not exceed the limit; so the
    refused one is the last of `Attempts + 1` in less than a window. The lock
    time is computed with that failure and written later, perhaps over a later
    one; each of those that may be written is `LockDuration` after a failure that
    justifies it. This gives `LocksHaveCause`.
  - *Spacing* (`SpacedInv`): rows of the table and requests on their way to
    `Insert` (`Pending`) are one population. Two of them with one phone and one
    run are a cooldown apart, and the limiter's `last` of the phone lies in the past
    (which a negative cooldown would not say by itself) and not before any of this run, so the next that passes is a cooldown after all of them.
    A restart clears the limiter, ends the requests and raises `run` together.
    This gives `CodesAreSpaced`.

  Lemmas `Frame`, `StatementTables`, `UserWrites`, `AccountSteps`, `LockSteps`,
  `FailSteps` say what one step of one request can change, so that each layer
  looks only at the steps that matter to it.

* **PipelineProofs**: `Invariance` (`IInv`), hence `AnswersAreWrapped`,
  `RefusedStopped`, `AccessIsLogged`, `OriginsCorrect` and `PanicsContained`, for
  every set of origins, policy and set of statuses. The properties look at the
  response only; the invariant says where in the chain the request is. `OpenInv`:
  without a panic the open calls are an initial piece of the chain, up to the
  handler before the index until the end is reached; after a panic at most the
  ClientMarker is open. `HeadersInv` ties headers and log to the index,
  `InboundInv` says that nothing has been sent on the way in and when the buffer
  is in place, `OutboundInv` what has been sent and what Security has still to
  send, `PanicInv` what a panic has left. The lemmas `ChainShape`, `ChainNames`,
  `CallPositions` and `OpenPositions` turn names of handlers into positions,
  `SentFacts` and its neighbours say what each operator does to the response, and
  `TypeStep`, `OpenStep`, `HeadersStep`, `InboundStep`, `OutboundStep` and
  `PanicStep` are the parts of the inductive step.

* **LoginRefinementProofs**: `ImplementsLedger`. Three facts about `LoginService`
  carry the step simulation besides its type invariant: a code row's phone, code
  and expiry never change and `used` is never taken back; a request that has
  found a matching row keeps it; and the expiry a send carries to its insertion is
  `CodeTTL` after a time that has passed (`LedgerInv`). Each concrete step is then
  a step of the ledger or leaves its six variables alone.
  `UsesLimiter` is the refinement of `RateLimiter`: `LimiterCalls` sorts the steps
  of a request into the four passes and those that leave the limiter alone,
  `RecordOfStep` says what `passed` records of each, `CooldownCall` and `AllowCall`
  turn them into steps of `RateLimiter`, and `LimitedStepMaps` adds the clock,
  errors and restarts. `ServiceLimited` adds no argument of its own: it instantiates
  `RateLimiterProofs` with the mapping and cites its theorems (`Proved!...`), whose
  assumption `LimiterConstants` discharges. So the invariant of the limiter is proved
  once, and used for the component and for the system it is part of.
* **LifecycleProofs**: `Invariance` (`IInv`), hence `SchemaComplete`, `RaceWon`,
  `CutHasCause`, `PoolClosedLast` and `ExitHonest`, for any number of runs,
  requests and elements. `StageInv` ties pool and listener to the stage of `main`,
  `HandlerInv` the handlers to that of their run, `SchemaInv` says that what is
  there, being created or still to be looked at is all there is, `StopInv` what
  `Shutdown` leaves, `RaceInv` that the last creator has seen everything.
* **KeysProofs**: `Invariance` (`IInv`), hence `OrderKept`, `KeygenCounts`,
  `HalvesAgree` and `ClientsKept`, for any files, lines and environments.
  `LayersRead` is the precedence over the layers read so far, with nothing in
  those above; `PairBuilt` says of what the pair is made; `Repeats` that a run
  goes through the environments the files amount to as long as they stay, and
  `Lasts` that a client's key is what they amount to. `LastLine` and
  `LastIsUnique` justify the `CHOOSE` in `AfterFile`, `BlockIsLast` says that a file
  that ends with a block of keygen speaks with it whatever is above, torn lines
  included. `HalvesMatch` has the hypotheses the code needs: a lone half of the
  process environment, or of the highest file, is paired with whatever half lies
  below it and published without a comparison.

* **Liveness** (`RequestsEnd` in LoginProgressProofs, `RunsStop` in
  LifecycleProofs). Both have the form `FairSpec /\ []NeverStuck => ...`, with
  the fairness of the model and one hypothesis. `NeverStuck` says that a request, or
  a main goroutine, that has not ended has a step it can take. It speaks of
  ENABLED, of which the provers know nothing: it is opaque to them, and
  TLC checks it as an invariant of the runs `login_live` and `lifecycle`. The
  rest of the argument is proved, for any number of requests, runs, errors and
  restarts. `Left` gives a request, and `ToGo` a run, a natural number by its
  place in the code, which every step of its own lowers (`Falls`) and no step of
  another one, error or restart raises (`NeverBack`, `GoesForward`): there is no
  cycle through the retried look-up of the account, nor between the stages of
  `main`. Fairness makes the number fall as long as it is positive (`Advance`),
  and since it is nine at most for a request and five for a run that serves, as
  many steps in temporal logic (`OneMore`) bring it to zero (`EndsFrom`). That a hanging handler does not matter is in
  `ToGo`: only `main` is counted. `ReadsBack` proves the one guard of `NeverStuck`
  that does not hold by the form of the code: the look-up after a `Create`, of
  its own or of a competitor, finds a row.

Only model-checked: the two invariants `NeverStuck`, since they speak of ENABLED.
The violated properties are refuted by TLC's counterexamples.

## 6. Not modelled

* **The ciphers** (`crypto.go`, `envelope.go`): stateless wrappers of `crypto/rsa`
  and AES-GCM. What their outcome decides is in `ReplayGuard` (decryption fails),
  `Pipeline` (it panics) and `Keys` (the key is another one).
* **Canonical JSON**: its only caller gives it one fixed struct with ASCII keys
  (`envelope.go:59`), so neither the order of UTF-16 against bytes nor the number
  and error paths are met by the program.
* **Locale**: a pure function whose result nobody reads (`FromGin` and
  `FromContext` have no callers).
* **Configuration, the rest**: the typed getters, the defaults and the text of the
  Postgres DSN. The getters fall back on what does not parse and accept what does,
  negative numbers included; what those do to limits and durations is in
  `RateLimiter` and `LoginService`.
* Gin, GORM and net/http themselves (modelled where used, see section 2), the SMS
  provider (a mock that logs), constant handlers, generated Swagger files.

What a next step could add: `Pipeline` together with `ReplayGuard` for several
requests, so that a repeated envelope is followed from its arrival to both
answers; phone numbers in more than one spelling (`service.go:258`); the
settings of the database under the layers (`config.go:181`).
