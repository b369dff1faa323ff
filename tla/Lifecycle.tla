----------------------------- MODULE Lifecycle -----------------------------
(***************************************************************************)
(* cmd/server/main.go: runs of the server, one after the other or side by  *)
(* side over one database, from config.Load to their exit.  A step of a    *)
(* run is what its main goroutine does up to the next point at which the   *)
(* listener's goroutine, a handler, a signal, the database or another run  *)
(* can act.                                                                *)
(***************************************************************************)
EXTENDS Integers

CONSTANTS
    Runs,               \* runs of the program
    Requests,           \* requests that reach a handler
    Schema,             \* the tables and indexes AutoMigrate looks after
    Nobody              \* the run of a request that has not arrived

ASSUME NobodyAssumption == Nobody \notin Runs

VARIABLES
    main,               \* where each main goroutine is
    configured,         \* PostgresConfig.Enabled, per run
    pool,               \* the *db.Postgres of each run
    left, item,         \* what a run has still to look for, and the one it misses
    schema,             \* what the database has
    listener,           \* the goroutine in server.Start
    errCh,              \* errCh holds an error
    signalled,          \* ctx is done
    exit,               \* how a run ended
    at, handler,        \* the run and the progress of each request
    timedOut, beaten, creator   \* history, see below

(* Histories that only the properties read: timedOut[p], Shutdown gave up   *)
(* at p; beaten[p], p ended because what it was creating was there already; *)
(* creator, the run that created last.                                      *)
process == <<main, exit>>
database == <<left, item, schema, beaten, creator>>
traffic == <<at, handler>>
vars == <<process, configured, pool, database, listener, errCh, signalled,
          traffic, timedOut>>

MainPCs == {"down", "config", "open", "has", "create", "start", "notify",
            "select", "shutdown", "close", "return", "ended"}

InFlight(r) == handler[r] \in {"entered", "half"}

Init ==
    /\ main = [p \in Runs |-> "down"]
    /\ configured \in [Runs -> BOOLEAN]
    /\ pool = [p \in Runs |-> "none"]
    /\ left = [p \in Runs |-> {}] /\ item = [p \in Runs |-> {}]
    /\ schema \in SUBSET Schema
    /\ listener = [p \in Runs |-> "none"]
    /\ errCh = [p \in Runs |-> FALSE] /\ signalled = [p \in Runs |-> FALSE]
    /\ exit = [p \in Runs |-> "none"]
    /\ at = [r \in Requests |-> Nobody]
    /\ handler = [r \in Requests |-> "none"]
    /\ timedOut = [p \in Runs |-> FALSE]
    /\ beaten = [p \in Runs |-> FALSE] /\ creator = Nobody

Goto(p, there) == main' = [main EXCEPT ![p] = there]

\* The process is gone, and with it its listener and its handlers.
End(p, code) ==
    /\ Goto(p, "ended")
    /\ exit' = [exit EXCEPT ![p] = code]
    /\ listener' = [listener EXCEPT ![p] = "closed"]
    /\ handler' = [r \in Requests |-> IF at[r] = p /\ InFlight(r)
                                      THEN "cut" ELSE handler[r]]

-----------------------------------------------------------------------------
(* Start-up.                                                                *)
Launch(p) ==
    /\ main[p] = "down" /\ Goto(p, "config")
    /\ UNCHANGED <<exit, configured, pool, database, listener, errCh,
                   signalled, traffic, timedOut>>

\* config.Load and LoadKeyPair, which panics on a key it cannot parse.
LoadConfig(p) ==
    /\ main[p] = "config"
    /\ \/ Goto(p, "open") /\ UNCHANGED <<exit, listener, handler>>
       \/ End(p, "panic")
    /\ UNCHANGED <<configured, pool, database, errCh, signalled, at, timedOut>>

\* OpenPostgres: without a configuration there is no pool and no module, and
\* nothing to migrate; a ping that fails ends the run.
OpenPostgres(p) ==
    /\ main[p] = "open"
    /\ \/ /\ ~configured[p] /\ Goto(p, "start")
          /\ UNCHANGED <<exit, pool, left, listener, handler>>
       \/ /\ configured[p] /\ Goto(p, "has")
          /\ pool' = [pool EXCEPT ![p] = "open"]
          /\ left' = [left EXCEPT ![p] = Schema]
          /\ UNCHANGED <<exit, listener, handler>>
       \/ configured[p] /\ End(p, "failure") /\ UNCHANGED <<pool, left>>
    /\ UNCHANGED <<configured, item, schema, beaten, creator, errCh, signalled,
                   at, timedOut>>

\* Mutant: every table is created, whether it is there or not.
HasElementNever(p) ==
    /\ main[p] = "has"
    /\ IF left[p] = {}
       THEN Goto(p, "start") /\ UNCHANGED <<left, item>>
       ELSE \E e \in left[p] :
               /\ left' = [left EXCEPT ![p] = @ \ {e}]
               /\ Goto(p, "create") /\ item' = [item EXCEPT ![p] = {e}]
    /\ UNCHANGED <<exit, configured, pool, schema, beaten, creator, listener,
                   errCh, signalled, traffic, timedOut>>

\* AutoMigrate asks the catalogue for each table and index ...
HasElement(p) ==
    /\ main[p] = "has"
    /\ IF left[p] = {}
       THEN Goto(p, "start") /\ UNCHANGED <<left, item>>
       ELSE \E e \in left[p] :
               /\ left' = [left EXCEPT ![p] = @ \ {e}]
               /\ IF e \in schema
                  THEN UNCHANGED <<main, item>>
                  ELSE Goto(p, "create") /\ item' = [item EXCEPT ![p] = {e}]
    /\ UNCHANGED <<exit, configured, pool, schema, beaten, creator, listener,
                   errCh, signalled, traffic, timedOut>>

\* ... and creates it in a statement of its own, before which another run may
\* have created it: CREATE TABLE then fails, an index with IF NOT EXISTS not.
CreateElement(p) ==
    /\ main[p] = "create"
    /\ item' = [item EXCEPT ![p] = {}]
    /\ \/ /\ item[p] \cap schema = {}
          /\ schema' = schema \cup item[p] /\ creator' = p
          /\ Goto(p, "has")
          /\ UNCHANGED <<exit, beaten, listener, handler>>
       \/ /\ item[p] \subseteq schema /\ Goto(p, "has")
          /\ UNCHANGED <<exit, schema, beaten, creator, listener, handler>>
       \/ /\ item[p] \subseteq schema /\ End(p, "failure")
          /\ beaten' = [beaten EXCEPT ![p] = TRUE]
          /\ UNCHANGED <<schema, creator>>
    /\ UNCHANGED <<configured, pool, left, errCh, signalled, at, timedOut>>

\* Mutant: the error of AutoMigrate is only logged.
MigrateFailsSilently(p) ==
    /\ main[p] \in {"has", "create"}
    /\ Goto(p, "start")
    /\ UNCHANGED <<exit, configured, pool, database, listener, errCh,
                   signalled, traffic, timedOut>>

\* The statement that a run has sent when it ends may still be carried out.
CarriedOut(p) ==
    \/ UNCHANGED <<schema, creator>>
    \/ /\ main[p] = "create" /\ item[p] \cap schema = {}
       /\ schema' = schema \cup item[p] /\ creator' = p

\* A statement fails: app.New returns the error and os.Exit skips the Close.
MigrateFails(p) ==
    /\ main[p] \in {"has", "create"}
    /\ End(p, "failure") /\ CarriedOut(p)
    /\ UNCHANGED <<configured, pool, left, item, beaten, errCh, signalled, at,
                   timedOut>>

\* go server.Start(); only then NotifyContext.
StartListener(p) ==
    /\ main[p] = "start" /\ Goto(p, "notify")
    /\ listener' = [listener EXCEPT ![p] = "starting"]
    /\ UNCHANGED <<exit, configured, pool, database, errCh, signalled,
                   traffic, timedOut>>

Notify(p) ==
    /\ main[p] = "notify" /\ Goto(p, "select")
    /\ UNCHANGED <<exit, configured, pool, database, listener, errCh,
                   signalled, traffic, timedOut>>

-----------------------------------------------------------------------------
(* The listener and the handlers.                                           *)

ShuttingDown(p) == main[p] \in {"shutdown", "close", "return"}

\* ListenAndServe: another run has the port, something else is wrong with the
\* address, or Shutdown was faster.
Listen(p) ==
    /\ listener[p] = "starting"
    /\ \/ /\ ~ShuttingDown(p) /\ \A q \in Runs : listener[q] # "listening"
          /\ listener' = [listener EXCEPT ![p] = "listening"]
          /\ UNCHANGED errCh
       \/ /\ ~ShuttingDown(p)
          /\ listener' = [listener EXCEPT ![p] = "closed"]
          /\ errCh' = [errCh EXCEPT ![p] = TRUE]
       \/ /\ ShuttingDown(p)
          /\ listener' = [listener EXCEPT ![p] = "closed"]
          /\ UNCHANGED errCh
    /\ UNCHANGED <<process, configured, pool, database, signalled, traffic,
                   timedOut>>

\* Accept returns an error that is not temporary; handlers go on.
ListenerFails(p) ==
    /\ listener[p] = "listening"
    /\ listener' = [listener EXCEPT ![p] = "closed"]
    /\ errCh' = [errCh EXCEPT ![p] = TRUE]
    /\ UNCHANGED <<process, configured, pool, database, signalled, traffic,
                   timedOut>>

Accept(r, p) ==
    /\ handler[r] = "none" /\ listener[p] = "listening"
    /\ at' = [at EXCEPT ![r] = p]
    /\ handler' = [handler EXCEPT ![r] = "entered"]
    /\ UNCHANGED <<process, configured, pool, database, listener, errCh,
                   signalled, timedOut>>

\* A handler of a business route issues a first and a last statement; without
\* a pool no such route is mounted, and on a closed one a statement fails.
Handle(r) ==
    /\ InFlight(r)
    /\ handler' = [handler EXCEPT ![r] =
                      CASE pool[at[r]] = "closed" -> "failed"
                        [] pool[at[r]] = "open" /\ @ = "entered" -> "half"
                        [] OTHER -> "done"]
    /\ UNCHANGED <<process, configured, pool, database, listener, errCh,
                   signalled, at, timedOut>>

-----------------------------------------------------------------------------
(* The end.                                                                 *)

\* SIGINT or SIGTERM.  Before NotifyContext and after its stop it kills; in
\* between it ends ctx, and a further one is swallowed.
Signal(p) ==
    /\ main[p] \notin {"down", "ended"}
    /\ IF main[p] \in {"select", "shutdown"}
       THEN /\ signalled' = [signalled EXCEPT ![p] = TRUE]
            /\ UNCHANGED <<process, listener, handler, schema, creator>>
       ELSE End(p, "killed") /\ CarriedOut(p) /\ UNCHANGED signalled
    /\ UNCHANGED <<configured, pool, left, item, beaten, errCh, at, timedOut>>

\* Mutant: the pool is closed when the signal arrives.
SelectSignalCloses(p) ==
    /\ main[p] = "select" /\ signalled[p]
    /\ Goto(p, "shutdown")
    /\ listener' = [listener EXCEPT ![p] =
                        IF @ = "listening" THEN "closed" ELSE @]
    /\ pool' = [pool EXCEPT ![p] = IF @ = "open" THEN "closed" ELSE @]
    /\ UNCHANGED <<exit, configured, database, errCh, signalled, traffic,
                   timedOut>>

\* The select of runHTTPServer takes either channel that is ready.
SelectSignal(p) ==
    /\ main[p] = "select" /\ signalled[p]
    /\ Goto(p, "shutdown")
    /\ listener' = [listener EXCEPT ![p] =
                        IF @ = "listening" THEN "closed" ELSE @]
    /\ UNCHANGED <<exit, configured, pool, database, errCh, signalled,
                   traffic, timedOut>>

\* Mutant: the error is logged and main returns.
SelectErrorReturns(p) ==
    /\ main[p] = "select" /\ errCh[p]
    /\ Goto(p, "close")
    /\ UNCHANGED <<exit, configured, pool, database, listener, errCh,
                   signalled, traffic, timedOut>>

SelectError(p) ==
    /\ main[p] = "select" /\ errCh[p]
    /\ End(p, "failure")
    /\ UNCHANGED <<configured, pool, database, errCh, signalled, at, timedOut>>

\* Mutant: Shutdown gets a context without a deadline.
ShutdownReturnsDone(p) ==
    /\ main[p] = "shutdown"
    /\ \A r \in Requests : at[r] = p => ~InFlight(r)
    /\ Goto(p, "close")
    /\ UNCHANGED <<exit, configured, pool, database, listener, errCh,
                   signalled, traffic, timedOut>>

\* Mutant: the listener is closed and the handlers are left alone.
ShutdownReturnsAtOnce(p) ==
    /\ main[p] = "shutdown" /\ Goto(p, "close")
    /\ UNCHANGED <<exit, configured, pool, database, listener, errCh,
                   signalled, traffic, timedOut>>

\* Shutdown returns when no handler runs, or after ten seconds; then the
\* deferred stop.
ShutdownReturns(p) ==
    /\ main[p] = "shutdown" /\ Goto(p, "close")
    /\ \/ /\ \A r \in Requests : at[r] = p => ~InFlight(r)
          /\ UNCHANGED timedOut
       \/ timedOut' = [timedOut EXCEPT ![p] = TRUE]
    /\ UNCHANGED <<exit, configured, pool, database, listener, errCh,
                   signalled, traffic>>

\* The deferred Close of main ...
ClosePool(p) ==
    /\ main[p] = "close" /\ Goto(p, "return")
    /\ pool' = [pool EXCEPT ![p] = IF @ = "open" THEN "closed" ELSE @]
    /\ UNCHANGED <<exit, configured, database, listener, errCh, signalled,
                   traffic, timedOut>>

\* ... and its return, which ends the process and every handler.
Return(p) ==
    /\ main[p] = "return" /\ End(p, "success")
    /\ UNCHANGED <<configured, pool, database, errCh, signalled, at, timedOut>>

StartStep(p) ==
    \/ LoadConfig(p) \/ OpenPostgres(p)
    \/ HasElement(p) \/ CreateElement(p) \/ MigrateFails(p)
    \/ StartListener(p) \/ Notify(p)

StopStep(p) ==
    \/ SelectSignal(p) \/ SelectError(p)
    \/ ShutdownReturns(p) \/ ClosePool(p) \/ Return(p)

Next ==
    \/ \E p \in Runs :
          Launch(p) \/ StartStep(p) \/ Listen(p) \/ ListenerFails(p)
            \/ Signal(p) \/ StopStep(p)
    \/ \E r \in Requests : Handle(r) \/ \E p \in Runs : Accept(r, p)

(* The main goroutine is scheduled, ten seconds pass, and every statement   *)
(* answers; handlers and signals owe nothing.                               *)
KeepsGoing(p) == WF_vars(StartStep(p) \/ StopStep(p))

Fairness == \A p \in Runs : KeepsGoing(p)

Spec == Init /\ [][Next]_vars
FairSpec == Spec /\ Fairness

-----------------------------------------------------------------------------
TypeOK ==
    /\ main \in [Runs -> MainPCs] /\ configured \in [Runs -> BOOLEAN]
    /\ pool \in [Runs -> {"none", "open", "closed"}]
    /\ left \in [Runs -> SUBSET Schema] /\ item \in [Runs -> SUBSET Schema]
    /\ schema \in SUBSET Schema
    /\ listener \in [Runs -> {"none", "starting", "listening", "closed"}]
    /\ errCh \in [Runs -> BOOLEAN] /\ signalled \in [Runs -> BOOLEAN]
    /\ exit \in [Runs -> {"none", "success", "failure", "panic", "killed"}]
    /\ at \in [Requests -> Runs \cup {Nobody}]
    /\ handler \in [Requests -> {"none", "entered", "half", "done", "failed",
                                 "cut"}]
    /\ timedOut \in [Runs -> BOOLEAN] /\ beaten \in [Runs -> BOOLEAN]
    /\ creator \in Runs \cup {Nobody}

(* The inductive part: what each stage of main implies for the pool, the    *)
(* listener and the handlers of its run ...                                 *)
Serving == {"notify", "select", "shutdown", "close", "return"}

StageInv ==
    \A p \in Runs :
       /\ main[p] \in {"down", "config", "open", "has", "create", "start"} =>
             listener[p] = "none" /\ \A r \in Requests : at[r] # p
       /\ main[p] \in {"down", "config", "open"} => pool[p] = "none"
       /\ listener[p] = "starting" => main[p] \in Serving
       /\ listener[p] = "listening" => main[p] \in {"notify", "select"}
       /\ pool[p] = "closed" => main[p] \in {"return", "ended"}
       /\ main[p] = "return" => pool[p] # "open"
       /\ exit[p] # "none" => main[p] = "ended"

HandlerInv ==
    \A r \in Requests :
       /\ handler[r] # "none" => at[r] \in Runs
       /\ InFlight(r) => main[at[r]] \in Serving
       /\ handler[r] = "cut" => main[at[r]] = "ended"

(* ... what a run has migrated, looked for and still to look for is all     *)
(* there is ...                                                             *)
SchemaInv ==
    \A p \in Runs :
       /\ main[p] \in {"has", "create"} => schema \cup left[p] \cup item[p] = Schema
       /\ main[p] \in {"down", "config", "open", "has"} => item[p] = {}
       /\ main[p] \in Serving \cup {"start"} /\ pool[p] # "none" =>
             schema = Schema

(* ... behind Shutdown no handler runs, unless it timed out ...             *)
StopInv ==
    \A p \in Runs :
       /\ main[p] \in {"shutdown", "close", "return"} => signalled[p]
       /\ signalled[p] =>
             main[p] \in {"select", "shutdown", "close", "return", "ended"}
       /\ main[p] \in {"close", "return"} =>
             timedOut[p] \/ \A r \in Requests : at[r] = p => ~InFlight(r)

(* ... and nothing was created since the last creator looked.               *)
RaceInv ==
    \A p \in Runs :
       /\ beaten[p] => main[p] = "ended"
       /\ main[p] = "create" => item[p] # {}
       /\ main[p] = "create" /\ creator \in {p, Nobody} =>
             item[p] \cap schema = {}

(* No handler with a pool runs before the database has everything the       *)
(* services rely on, the unique index on phone_number included, although    *)
(* runs migrate side by side and statements fail (app.go:41-46, 88-101).    *)
ServesMigrated ==
    \A r \in Requests :
        InFlight(r) /\ pool[at[r]] # "none" => schema = Schema

(* However many runs migrate one database at once, they cannot all lose the *)
(* race between the look at the catalogue and the CREATE: the one that      *)
(* created last never does (app.go:88-101).                                 *)
RaceHasWinner ==
    \A p \in Runs : beaten[p] => creator \in Runs /\ ~beaten[creator]

(* A run that was told to stop and listened loses no request: one is cut    *)
(* off only if Shutdown's ten seconds were not enough, if the listener had  *)
(* failed as well, or if no signal was ever caught (main.go:79-97).         *)
CutForCause ==
    \A r \in Requests : handler[r] = "cut" =>
        LET p == at[r] IN timedOut[p] \/ errCh[p] \/ ~signalled[p]

(* No statement meets a closed pool unless Shutdown has given up on its     *)
(* handler: the deferred Close comes after everything (main.go:44-50, 86).  *)
PoolOutlivesHandlers ==
    \A r \in Requests : handler[r] = "failed" => timedOut[at[r]]

(* What the supervisor of the process sees is true: success only after a    *)
(* signal, with the pool given back, and a failure of a run that has served *)
(* only after an error of its listener (main.go:86-97).                     *)
ExitTellsTruth ==
    \A p \in Runs :
        /\ exit[p] = "success" => signalled[p] /\ pool[p] # "open"
        /\ exit[p] = "failure" /\ (\E r \in Requests : at[r] = p) => errCh[p]

IInv ==
    /\ TypeOK /\ StageInv /\ HandlerInv /\ SchemaInv /\ StopInv /\ RaceInv
    /\ RaceHasWinner /\ CutForCause /\ PoolOutlivesHandlers /\ ExitTellsTruth

(* Only the select waits for somebody else: whatever the other run does to  *)
(* the schema, and whatever the handlers do, the main goroutine can go on,  *)
(* in the select once there is a signal or an error (main.go:86-97).        *)
NeverStuck ==
    \A p \in Runs :
        /\ main[p] \notin {"down", "ended"}
        /\ main[p] = "select" => signalled[p] \/ errCh[p]
        => ENABLED <<StartStep(p) \/ StopStep(p)>>_vars

(* A run that has caught a signal or whose listener has failed comes to its *)
(* end, even if handlers hang (main.go:86-97).                              *)
StopsInTheEnd ==
    \A p \in Runs : signalled[p] \/ errCh[p] ~> main[p] = "ended"

=============================================================================
