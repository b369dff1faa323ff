-------------------------- MODULE LifecycleProofs --------------------------
(***************************************************************************)
(* The safety properties of Lifecycle, for any number of runs, requests,   *)
(* tables and indexes.  Every conjunct of the invariant has a lemma of its *)
(* own; the steps are taken in groups: those that move main alone, those   *)
(* that end the run, and the rest one by one.                              *)
(***************************************************************************)
EXTENDS Lifecycle, TLAPS

\* main goes on to its next stage.
Moves(p) ==
    \/ Launch(p) \/ StartListener(p) \/ Notify(p)
    \/ SelectSignal(p) \/ ShutdownReturns(p) \/ ClosePool(p)

\* The run is over.
Ends(p) == LoadConfig(p) \/ MigrateFails(p) \/ SelectError(p) \/ Return(p)

\* server.Start goes on.
Listens(p) == Listen(p) \/ ListenerFails(p)

LEMMA StepCases ==
    ASSUME [Next]_vars
    PROVE  \/ \E p \in Runs :
                 \/ Moves(p) \/ Ends(p) \/ Listens(p) \/ OpenPostgres(p)
                 \/ HasElement(p) \/ CreateElement(p) \/ Signal(p)
           \/ \E r \in Requests : Handle(r) \/ \E p \in Runs : Accept(r, p)
           \/ UNCHANGED vars
BY DEF Next, StartStep, StopStep, Moves, Ends, Listens

(* A statement carried out behind the end of its run only adds to the schema. *)
LEMMA CarriedOutAdds ==
    ASSUME TypeOK, NEW p \in Runs, CarriedOut(p)
    PROVE  /\ schema \subseteq schema' /\ schema' \in SUBSET Schema
           /\ creator' \in Runs \cup {Nobody}
           /\ \/ schema' = schema /\ creator' = creator
              \/ main[p] = "create" /\ creator' = p
BY DEF TypeOK, CarriedOut

(* Every variable stays in its domain.                                      *)
LEMMA TypeStep ==
    TypeOK /\ [Next]_vars
       => TypeOK'
<1> SUFFICES ASSUME TypeOK,
                    [Next]_vars
             PROVE  TypeOK'
  OBVIOUS
<1> USE DEF TypeOK, MainPCs
<1>1. ASSUME NEW p \in Runs, Moves(p) PROVE TypeOK'
  BY <1>1, NobodyAssumption, ZenonT(30)
  DEF Moves, Launch, StartListener, Notify, SelectSignal,
         ShutdownReturns, ClosePool, Goto, process, database, traffic
<1>2. ASSUME NEW p \in Runs, Ends(p) PROVE TypeOK'
  BY <1>2, CarriedOutAdds, NobodyAssumption
  DEF Ends, LoadConfig, MigrateFails, SelectError, Return,
         End, Goto, process, database, traffic
<1>3. ASSUME NEW p \in Runs, Listens(p) PROVE TypeOK'
  BY <1>3, NobodyAssumption, ZenonT(30)
  DEF Listens, Listen, ListenerFails, ShuttingDown, process, database, traffic
<1>4. ASSUME NEW p \in Runs, OpenPostgres(p) PROVE TypeOK'
  BY <1>4, NobodyAssumption
  DEF OpenPostgres, End, Goto, process, database, traffic
<1>5. ASSUME NEW p \in Runs, HasElement(p) PROVE TypeOK'
  BY <1>5, NobodyAssumption
  DEF HasElement, Goto, process, database, traffic
<1>6. ASSUME NEW p \in Runs, CreateElement(p) PROVE TypeOK'
  <2>1. item'[p] = {} /\ schema' \in SUBSET Schema
    BY <1>6 DEF CreateElement
  <2>2. item' \in [Runs -> SUBSET Schema]
    BY <1>6 DEF CreateElement
  <2>3. CASE Goto(p, "has") /\ UNCHANGED <<exit, listener, handler>>
    BY <1>6, <2>1, <2>2, <2>3 DEF CreateElement, Goto
  <2>4. CASE End(p, "failure")
    BY <1>6, <2>1, <2>2, <2>4 DEF CreateElement, End, Goto
  <2> QED
    BY <1>6, <2>3, <2>4 DEF CreateElement
<1>7. ASSUME NEW p \in Runs, Signal(p) PROVE TypeOK'
  <2>1. CASE main[p] \in {"select", "shutdown"}
    BY <1>7, <2>1 DEF Signal, process, database, traffic
  <2>2. CASE main[p] \notin {"select", "shutdown"}
    BY <1>7, <2>2, CarriedOutAdds
    DEF Signal, End, Goto, process, database, traffic
  <2> QED
    BY <2>1, <2>2
<1>8. ASSUME NEW r \in Requests, Handle(r) PROVE TypeOK'
  BY <1>8 DEF Handle, process, database, traffic
<1>9. ASSUME NEW r \in Requests, NEW p \in Runs, Accept(r, p)
      PROVE  TypeOK'
  BY <1>9, NobodyAssumption DEF Accept, process, database, traffic
<1>10. CASE UNCHANGED vars
  BY <1>10 DEF vars, process, database, traffic
<1> QED
  BY <1>1, <1>2, <1>3, <1>4, <1>5, <1>6,
     <1>7, <1>8, <1>9, <1>10, StepCases

(* What a stage of main says of its pool, listener and handlers.            *)
LEMMA StageStep ==
    TypeOK /\ StageInv /\ [Next]_vars
       => StageInv'
<1> SUFFICES ASSUME TypeOK, StageInv,
                    [Next]_vars
             PROVE  StageInv'
  OBVIOUS
<1> USE DEF TypeOK, MainPCs, StageInv, Serving
<1>1. ASSUME NEW p \in Runs, Moves(p) PROVE StageInv'
  BY <1>1, NobodyAssumption
  DEF Moves, Launch, StartListener, Notify, SelectSignal,
         ShutdownReturns, ClosePool, Goto, process, database, traffic
<1>2. ASSUME NEW p \in Runs, Ends(p) PROVE StageInv'
  BY <1>2, NobodyAssumption
  DEF Ends, LoadConfig, MigrateFails, SelectError, Return,
         End, Goto, process, database, traffic
<1>3. ASSUME NEW p \in Runs, Listens(p) PROVE StageInv'
  BY <1>3, NobodyAssumption
  DEF Listens, Listen, ListenerFails, ShuttingDown, process, database, traffic
<1>4. ASSUME NEW p \in Runs, OpenPostgres(p) PROVE StageInv'
  BY <1>4, NobodyAssumption
  DEF OpenPostgres, End, Goto, process, database, traffic
<1>5. ASSUME NEW p \in Runs, HasElement(p) PROVE StageInv'
  BY <1>5, NobodyAssumption
  DEF HasElement, Goto, process, database, traffic
<1>6. ASSUME NEW p \in Runs, CreateElement(p) PROVE StageInv'
  BY <1>6, NobodyAssumption
  DEF CreateElement, End, Goto, process, database, traffic
<1>7. ASSUME NEW p \in Runs, Signal(p) PROVE StageInv'
  BY <1>7, NobodyAssumption
  DEF Signal, End, Goto, process, database, traffic
<1>8. ASSUME NEW r \in Requests, Handle(r) PROVE StageInv'
  BY <1>8 DEF Handle, process, database, traffic
<1>9. ASSUME NEW r \in Requests, NEW p \in Runs, Accept(r, p)
      PROVE  StageInv'
  BY <1>9, NobodyAssumption DEF Accept, process, database, traffic
<1>10. CASE UNCHANGED vars
  BY <1>10 DEF vars, process, database, traffic
<1> QED
  BY <1>1, <1>2, <1>3, <1>4, <1>5, <1>6,
     <1>7, <1>8, <1>9, <1>10, StepCases

(* Handlers run in a run that serves, and are cut with it.                  *)
LEMMA HandlerStep ==
    TypeOK /\ StageInv /\ HandlerInv /\ [Next]_vars
       => HandlerInv'
<1> SUFFICES ASSUME TypeOK, StageInv, HandlerInv,
                    [Next]_vars
             PROVE  HandlerInv'
  OBVIOUS
<1> USE DEF TypeOK, MainPCs, StageInv, HandlerInv, InFlight, Serving
<1>1. ASSUME NEW p \in Runs, Moves(p) PROVE HandlerInv'
  BY <1>1, NobodyAssumption
  DEF Moves, Launch, StartListener, Notify, SelectSignal,
         ShutdownReturns, ClosePool, Goto, process, database, traffic
<1>2. ASSUME NEW p \in Runs, Ends(p) PROVE HandlerInv'
  BY <1>2, NobodyAssumption
  DEF Ends, LoadConfig, MigrateFails, SelectError, Return,
         End, Goto, process, database, traffic
<1>3. ASSUME NEW p \in Runs, Listens(p) PROVE HandlerInv'
  BY <1>3, NobodyAssumption
  DEF Listens, Listen, ListenerFails, ShuttingDown, process, database, traffic
<1>4. ASSUME NEW p \in Runs, OpenPostgres(p) PROVE HandlerInv'
  BY <1>4, NobodyAssumption
  DEF OpenPostgres, End, Goto, process, database, traffic
<1>5. ASSUME NEW p \in Runs, HasElement(p) PROVE HandlerInv'
  BY <1>5, NobodyAssumption
  DEF HasElement, Goto, process, database, traffic
<1>6. ASSUME NEW p \in Runs, CreateElement(p) PROVE HandlerInv'
  BY <1>6, NobodyAssumption
  DEF CreateElement, End, Goto, process, database, traffic
<1>7. ASSUME NEW p \in Runs, Signal(p) PROVE HandlerInv'
  BY <1>7, NobodyAssumption
  DEF Signal, End, Goto, process, database, traffic
<1>8. ASSUME NEW r \in Requests, Handle(r) PROVE HandlerInv'
  BY <1>8 DEF Handle, process, database, traffic
<1>9. ASSUME NEW r \in Requests, NEW p \in Runs, Accept(r, p)
      PROVE  HandlerInv'
  BY <1>9, NobodyAssumption DEF Accept, process, database, traffic
<1>10. CASE UNCHANGED vars
  BY <1>10 DEF vars, process, database, traffic
<1> QED
  BY <1>1, <1>2, <1>3, <1>4, <1>5, <1>6,
     <1>7, <1>8, <1>9, <1>10, StepCases

(* Nothing is forgotten by a migration, and nothing dropped after it.       *)
LEMMA SchemaStep ==
    TypeOK /\ StageInv /\ SchemaInv /\ [Next]_vars
       => SchemaInv'
<1> SUFFICES ASSUME TypeOK, StageInv, SchemaInv,
                    [Next]_vars
             PROVE  SchemaInv'
  OBVIOUS
<1> USE DEF TypeOK, MainPCs, StageInv, SchemaInv, Serving
<1>0. ASSUME NEW p \in Runs, schema \subseteq schema', schema' \in SUBSET Schema,
             main' = [main EXCEPT ![p] = "ended"],
             UNCHANGED <<left, item, pool>>
      PROVE  SchemaInv'
  <2>1. \A q \in Runs : schema \cup left[q] \cup item[q] = Schema
           => schema' \cup left[q] \cup item[q] = Schema
    BY <1>0
  <2>2. schema = Schema => schema' = Schema
    BY <1>0
  <2> QED BY <1>0, <2>1, <2>2
<1>1. ASSUME NEW p \in Runs, Moves(p) PROVE SchemaInv'
  BY <1>1, NobodyAssumption
  DEF Moves, Launch, StartListener, Notify, SelectSignal,
         ShutdownReturns, ClosePool, Goto, process, database, traffic
<1>2. ASSUME NEW p \in Runs, Ends(p) PROVE SchemaInv'
  <2>1. CASE MigrateFails(p)
    BY <1>0, <2>1, CarriedOutAdds DEF MigrateFails, End, Goto
  <2>2. CASE LoadConfig(p) \/ SelectError(p) \/ Return(p)
    BY <2>2 DEF LoadConfig, SelectError, Return, End, Goto, database
  <2> QED
    BY <1>2, <2>1, <2>2 DEF Ends
<1>3. ASSUME NEW p \in Runs, Listens(p) PROVE SchemaInv'
  BY <1>3, NobodyAssumption
  DEF Listens, Listen, ListenerFails, ShuttingDown, process, database, traffic
<1>4. ASSUME NEW p \in Runs, OpenPostgres(p) PROVE SchemaInv'
  BY <1>4, NobodyAssumption
  DEF OpenPostgres, End, Goto, process, database, traffic
<1>5. ASSUME NEW p \in Runs, HasElement(p) PROVE SchemaInv'
  <2>1. CASE left[p] = {}
    <3>1. /\ Goto(p, "start") /\ main[p] = "has"
          /\ UNCHANGED <<left, item, schema, pool>>
      BY <1>5, <2>1 DEF HasElement, process, database, traffic
    <3>2. schema \cup left[p] \cup item[p] = Schema /\ item[p] = {}
      BY <3>1
    <3>3. schema = Schema
      BY <2>1, <3>2
    <3> QED
      BY <3>1, <3>3 DEF Goto
  <2>2. ASSUME NEW e \in left[p], left' = [left EXCEPT ![p] = @ \ {e}],
               IF e \in schema
               THEN UNCHANGED <<main, item>>
               ELSE Goto(p, "create") /\ item' = [item EXCEPT ![p] = {e}]
        PROVE  SchemaInv'
    <3>1. UNCHANGED <<schema, pool>> /\ main[p] = "has"
      BY <1>5 DEF HasElement, process, database, traffic
    <3>2. left[p] \in SUBSET Schema /\ schema \cup left[p] = Schema
      BY <3>1
    <3>3. schema \cup left'[p] \cup item'[p] = Schema
      BY <2>2, <3>1, <3>2
    <3> QED
      BY <2>2, <3>1, <3>3 DEF Goto
  <2> QED
    BY <1>5, <2>1, <2>2 DEF HasElement
<1>6. ASSUME NEW p \in Runs, CreateElement(p) PROVE SchemaInv'
  <2>1. /\ main[p] = "create" /\ UNCHANGED <<left, pool>>
        /\ item' = [item EXCEPT ![p] = {}]
        /\ main' = [main EXCEPT ![p] = "has"] \/ main' = [main EXCEPT ![p] = "ended"]
    BY <1>6 DEF CreateElement, End, Goto, process, database, traffic
  <2>2. schema \cup left[p] \cup item[p] = Schema /\ schema \subseteq Schema
    BY <2>1
  <2>3. CASE schema' = schema \cup item[p]
    <3>1. schema' \cup left'[p] \cup item'[p] = Schema
      BY <2>1, <2>2, <2>3
    <3>2. \A q \in Runs : schema \cup left[q] \cup item[q] = Schema
             => schema' \cup left[q] \cup item[q] = Schema
      BY <2>2, <2>3
    <3>3. schema = Schema => schema' = Schema
      BY <2>2, <2>3
    <3> QED
      BY <2>1, <3>1, <3>2, <3>3
  <2>4. CASE schema' = schema /\ main'[p] = "ended"
    BY <2>1, <2>4
  <2>5. CASE schema' = schema /\ item[p] \subseteq schema
    <3>1. schema' \cup left'[p] \cup item'[p] = Schema
      BY <2>1, <2>2, <2>5
    <3> QED
      BY <2>1, <2>5, <3>1
  <2> QED
    BY <1>6, <2>3, <2>4, <2>5 DEF CreateElement
<1>7. ASSUME NEW p \in Runs, Signal(p) PROVE SchemaInv'
  <2>1. CASE main[p] \in {"select", "shutdown"}
    BY <1>7, <2>1 DEF Signal, process
  <2>2. CASE main[p] \notin {"select", "shutdown"}
    BY <1>0, <1>7, <2>2, CarriedOutAdds DEF Signal, End, Goto
  <2> QED
    BY <2>1, <2>2
<1>8. ASSUME NEW r \in Requests, Handle(r) PROVE SchemaInv'
  BY <1>8 DEF Handle, process, database, traffic
<1>9. ASSUME NEW r \in Requests, NEW p \in Runs, Accept(r, p)
      PROVE  SchemaInv'
  BY <1>9, NobodyAssumption DEF Accept, process, database, traffic
<1>10. CASE UNCHANGED vars
  BY <1>10 DEF vars, process, database, traffic
<1> QED
  BY <1>1, <1>2, <1>3, <1>4, <1>5, <1>6,
     <1>7, <1>8, <1>9, <1>10, StepCases

(* Behind Shutdown no handler runs that was not given up.                   *)
LEMMA StopStepKeeps ==
    TypeOK /\ StageInv /\ StopInv /\ [Next]_vars
       => StopInv'
<1> SUFFICES ASSUME TypeOK, StageInv, StopInv,
                    [Next]_vars
             PROVE  StopInv'
  OBVIOUS
<1> USE DEF TypeOK, MainPCs, StageInv, StopInv, InFlight
<1>1. ASSUME NEW p \in Runs, Moves(p) PROVE StopInv'
  BY <1>1, NobodyAssumption
  DEF Moves, Launch, StartListener, Notify, SelectSignal,
         ShutdownReturns, ClosePool, Goto, process, database, traffic
<1>2. ASSUME NEW p \in Runs, Ends(p) PROVE StopInv'
  BY <1>2, NobodyAssumption
  DEF Ends, LoadConfig, MigrateFails, SelectError, Return,
         End, Goto, process, database, traffic
<1>3. ASSUME NEW p \in Runs, Listens(p) PROVE StopInv'
  BY <1>3, NobodyAssumption
  DEF Listens, Listen, ListenerFails, ShuttingDown, process, database, traffic
<1>4. ASSUME NEW p \in Runs, OpenPostgres(p) PROVE StopInv'
  BY <1>4, NobodyAssumption
  DEF OpenPostgres, End, Goto, process, database, traffic
<1>5. ASSUME NEW p \in Runs, HasElement(p) PROVE StopInv'
  BY <1>5, NobodyAssumption
  DEF HasElement, Goto, process, database, traffic
<1>6. ASSUME NEW p \in Runs, CreateElement(p) PROVE StopInv'
  BY <1>6, NobodyAssumption
  DEF CreateElement, End, Goto, process, database, traffic
<1>7. ASSUME NEW p \in Runs, Signal(p) PROVE StopInv'
  BY <1>7, NobodyAssumption
  DEF Signal, End, Goto, process, database, traffic
<1>8. ASSUME NEW r \in Requests, Handle(r) PROVE StopInv'
  BY <1>8 DEF Handle, process, database, traffic
<1>9. ASSUME NEW r \in Requests, NEW p \in Runs, Accept(r, p)
      PROVE  StopInv'
  BY <1>9, NobodyAssumption DEF Accept, process, database, traffic
<1>10. CASE UNCHANGED vars
  BY <1>10 DEF vars, process, database, traffic
<1> QED
  BY <1>1, <1>2, <1>3, <1>4, <1>5, <1>6,
     <1>7, <1>8, <1>9, <1>10, StepCases

(* Whoever created last has seen all that was created before.               *)
LEMMA RaceStep ==
    TypeOK /\ RaceInv /\ RaceHasWinner /\ [Next]_vars
       => RaceInv'
<1> SUFFICES ASSUME TypeOK, RaceInv, RaceHasWinner,
                    [Next]_vars
             PROVE  RaceInv'
  OBVIOUS
<1> USE DEF TypeOK, MainPCs, RaceInv, RaceHasWinner
<1>1. ASSUME NEW p \in Runs, Moves(p) PROVE RaceInv'
  BY <1>1, NobodyAssumption
  DEF Moves, Launch, StartListener, Notify, SelectSignal,
         ShutdownReturns, ClosePool, Goto, process, database, traffic
<1>2. ASSUME NEW p \in Runs, Ends(p) PROVE RaceInv'
  BY <1>2, CarriedOutAdds, NobodyAssumption
  DEF Ends, LoadConfig, MigrateFails, SelectError, Return,
         End, Goto, process, database, traffic
<1>3. ASSUME NEW p \in Runs, Listens(p) PROVE RaceInv'
  BY <1>3, NobodyAssumption
  DEF Listens, Listen, ListenerFails, ShuttingDown, process, database, traffic
<1>4. ASSUME NEW p \in Runs, OpenPostgres(p) PROVE RaceInv'
  BY <1>4, NobodyAssumption
  DEF OpenPostgres, End, Goto, process, database, traffic
<1>5. ASSUME NEW p \in Runs, HasElement(p) PROVE RaceInv'
  <2>1. CASE left[p] = {}
    BY <1>5, <2>1 DEF HasElement, Goto, process, database, traffic
  <2>2. ASSUME NEW e \in left[p], left' = [left EXCEPT ![p] = @ \ {e}],
               IF e \in schema
               THEN UNCHANGED <<main, item>>
               ELSE Goto(p, "create") /\ item' = [item EXCEPT ![p] = {e}]
        PROVE  RaceInv'
    <3>1. UNCHANGED <<schema, beaten, creator>> /\ main[p] = "has"
      BY <1>5 DEF HasElement, process, database, traffic
    <3>2. CASE e \in schema
      BY <2>2, <3>1, <3>2
    <3>3. CASE e \notin schema
      BY <2>2, <3>1, <3>3, SMTT(30) DEF Goto
    <3> QED
      BY <3>2, <3>3
  <2> QED
    BY <1>5, <2>1, <2>2 DEF HasElement
<1>6. ASSUME NEW p \in Runs, CreateElement(p) PROVE RaceInv'
  BY <1>6, NobodyAssumption
  DEF CreateElement, End, Goto, process, database, traffic
<1>7. ASSUME NEW p \in Runs, Signal(p) PROVE RaceInv'
  BY <1>7, CarriedOutAdds, NobodyAssumption
  DEF Signal, End, Goto, process, database, traffic
<1>8. ASSUME NEW r \in Requests, Handle(r) PROVE RaceInv'
  BY <1>8 DEF Handle, process, database, traffic
<1>9. ASSUME NEW r \in Requests, NEW p \in Runs, Accept(r, p)
      PROVE  RaceInv'
  BY <1>9, NobodyAssumption DEF Accept, process, database, traffic
<1>10. CASE UNCHANGED vars
  BY <1>10 DEF vars, process, database, traffic
<1> QED
  BY <1>1, <1>2, <1>3, <1>4, <1>5, <1>6,
     <1>7, <1>8, <1>9, <1>10, StepCases

(* The run that created last is not beaten.                                 *)
LEMMA WinnerStep ==
    TypeOK /\ RaceInv /\ RaceHasWinner /\ [Next]_vars
       => RaceHasWinner'
<1> SUFFICES ASSUME TypeOK, RaceInv, RaceHasWinner,
                    [Next]_vars
             PROVE  RaceHasWinner'
  OBVIOUS
<1> USE DEF TypeOK, MainPCs, RaceInv, RaceHasWinner
<1>1. ASSUME NEW p \in Runs, Moves(p) PROVE RaceHasWinner'
  BY <1>1, NobodyAssumption
  DEF Moves, Launch, StartListener, Notify, SelectSignal,
         ShutdownReturns, ClosePool, Goto, process, database, traffic
<1>2. ASSUME NEW p \in Runs, Ends(p) PROVE RaceHasWinner'
  BY <1>2, CarriedOutAdds, NobodyAssumption
  DEF Ends, LoadConfig, MigrateFails, SelectError, Return,
         End, Goto, process, database, traffic
<1>3. ASSUME NEW p \in Runs, Listens(p) PROVE RaceHasWinner'
  BY <1>3, NobodyAssumption
  DEF Listens, Listen, ListenerFails, ShuttingDown, process, database, traffic
<1>4. ASSUME NEW p \in Runs, OpenPostgres(p) PROVE RaceHasWinner'
  BY <1>4, NobodyAssumption
  DEF OpenPostgres, End, Goto, process, database, traffic
<1>5. ASSUME NEW p \in Runs, HasElement(p) PROVE RaceHasWinner'
  BY <1>5, NobodyAssumption
  DEF HasElement, Goto, process, database, traffic
<1>6. ASSUME NEW p \in Runs, CreateElement(p) PROVE RaceHasWinner'
  BY <1>6, NobodyAssumption
  DEF CreateElement, End, Goto, process, database, traffic
<1>7. ASSUME NEW p \in Runs, Signal(p) PROVE RaceHasWinner'
  BY <1>7, CarriedOutAdds, NobodyAssumption
  DEF Signal, End, Goto, process, database, traffic
<1>8. ASSUME NEW r \in Requests, Handle(r) PROVE RaceHasWinner'
  BY <1>8 DEF Handle, process, database, traffic
<1>9. ASSUME NEW r \in Requests, NEW p \in Runs, Accept(r, p)
      PROVE  RaceHasWinner'
  BY <1>9, NobodyAssumption DEF Accept, process, database, traffic
<1>10. CASE UNCHANGED vars
  BY <1>10 DEF vars, process, database, traffic
<1> QED
  BY <1>1, <1>2, <1>3, <1>4, <1>5, <1>6,
     <1>7, <1>8, <1>9, <1>10, StepCases

(* What cuts a handler: no signal was caught, no time was left, or an error.*)
LEMMA CutStep ==
    TypeOK /\ StageInv /\ HandlerInv /\ StopInv /\ CutForCause /\ [Next]_vars
       => CutForCause'
<1> SUFFICES ASSUME TypeOK, StageInv, HandlerInv, StopInv, CutForCause,
                    [Next]_vars
             PROVE  CutForCause'
  OBVIOUS
<1> USE DEF TypeOK, MainPCs, StageInv, HandlerInv, StopInv, InFlight, Serving,
           CutForCause
<1>1. ASSUME NEW p \in Runs, Moves(p) PROVE CutForCause'
  BY <1>1, NobodyAssumption
  DEF Moves, Launch, StartListener, Notify, SelectSignal,
         ShutdownReturns, ClosePool, Goto, process, database, traffic
<1>2. ASSUME NEW p \in Runs, Ends(p) PROVE CutForCause'
  BY <1>2, NobodyAssumption
  DEF Ends, LoadConfig, MigrateFails, SelectError, Return,
         End, Goto, process, database, traffic
<1>3. ASSUME NEW p \in Runs, Listens(p) PROVE CutForCause'
  BY <1>3, NobodyAssumption
  DEF Listens, Listen, ListenerFails, ShuttingDown, process, database, traffic
<1>4. ASSUME NEW p \in Runs, OpenPostgres(p) PROVE CutForCause'
  BY <1>4, NobodyAssumption
  DEF OpenPostgres, End, Goto, process, database, traffic
<1>5. ASSUME NEW p \in Runs, HasElement(p) PROVE CutForCause'
  BY <1>5, NobodyAssumption
  DEF HasElement, Goto, process, database, traffic
<1>6. ASSUME NEW p \in Runs, CreateElement(p) PROVE CutForCause'
  BY <1>6, NobodyAssumption
  DEF CreateElement, End, Goto, process, database, traffic
<1>7. ASSUME NEW p \in Runs, Signal(p) PROVE CutForCause'
  <2>1. CASE main[p] \in {"select", "shutdown"}
    BY <1>7, <2>1 DEF Signal, process, database, traffic
  <2>2. CASE main[p] \notin {"select", "shutdown"}
    BY <1>7, <2>2 DEF Signal, End, Goto, process, database, traffic
  <2> QED
    BY <2>1, <2>2
<1>8. ASSUME NEW r \in Requests, Handle(r) PROVE CutForCause'
  BY <1>8 DEF Handle, process, database, traffic
<1>9. ASSUME NEW r \in Requests, NEW p \in Runs, Accept(r, p)
      PROVE  CutForCause'
  BY <1>9, NobodyAssumption DEF Accept, process, database, traffic
<1>10. CASE UNCHANGED vars
  BY <1>10 DEF vars, process, database, traffic
<1> QED
  BY <1>1, <1>2, <1>3, <1>4, <1>5, <1>6,
     <1>7, <1>8, <1>9, <1>10, StepCases

(* Only a handler that Shutdown has given up meets a closed pool.           *)
LEMMA FailedStep ==
    TypeOK /\ StageInv /\ HandlerInv /\ StopInv /\ PoolOutlivesHandlers /\ [Next]_vars
       => PoolOutlivesHandlers'
<1> SUFFICES ASSUME TypeOK, StageInv, HandlerInv, StopInv, PoolOutlivesHandlers,
                    [Next]_vars
             PROVE  PoolOutlivesHandlers'
  OBVIOUS
<1> USE DEF TypeOK, MainPCs, StageInv, HandlerInv, StopInv, InFlight, Serving,
           PoolOutlivesHandlers
<1>1. ASSUME NEW p \in Runs, Moves(p) PROVE PoolOutlivesHandlers'
  BY <1>1, NobodyAssumption
  DEF Moves, Launch, StartListener, Notify, SelectSignal,
         ShutdownReturns, ClosePool, Goto, process, database, traffic
<1>2. ASSUME NEW p \in Runs, Ends(p) PROVE PoolOutlivesHandlers'
  BY <1>2, NobodyAssumption
  DEF Ends, LoadConfig, MigrateFails, SelectError, Return,
         End, Goto, process, database, traffic
<1>3. ASSUME NEW p \in Runs, Listens(p) PROVE PoolOutlivesHandlers'
  BY <1>3, NobodyAssumption
  DEF Listens, Listen, ListenerFails, ShuttingDown, process, database, traffic
<1>4. ASSUME NEW p \in Runs, OpenPostgres(p) PROVE PoolOutlivesHandlers'
  BY <1>4, NobodyAssumption
  DEF OpenPostgres, End, Goto, process, database, traffic
<1>5. ASSUME NEW p \in Runs, HasElement(p) PROVE PoolOutlivesHandlers'
  BY <1>5, NobodyAssumption
  DEF HasElement, Goto, process, database, traffic
<1>6. ASSUME NEW p \in Runs, CreateElement(p) PROVE PoolOutlivesHandlers'
  BY <1>6, NobodyAssumption
  DEF CreateElement, End, Goto, process, database, traffic
<1>7. ASSUME NEW p \in Runs, Signal(p) PROVE PoolOutlivesHandlers'
  BY <1>7, NobodyAssumption
  DEF Signal, End, Goto, process, database, traffic
<1>8. ASSUME NEW r \in Requests, Handle(r) PROVE PoolOutlivesHandlers'
  BY <1>8 DEF Handle, process, database, traffic
<1>9. ASSUME NEW r \in Requests, NEW p \in Runs, Accept(r, p)
      PROVE  PoolOutlivesHandlers'
  BY <1>9, NobodyAssumption DEF Accept, process, database, traffic
<1>10. CASE UNCHANGED vars
  BY <1>10 DEF vars, process, database, traffic
<1> QED
  BY <1>1, <1>2, <1>3, <1>4, <1>5, <1>6,
     <1>7, <1>8, <1>9, <1>10, StepCases

(* The ways in which a run comes to its end.                                *)
LEMMA ExitStep ==
    TypeOK /\ StageInv /\ StopInv /\ ExitTellsTruth /\ [Next]_vars
       => ExitTellsTruth'
<1> SUFFICES ASSUME TypeOK, StageInv, StopInv, ExitTellsTruth,
                    [Next]_vars
             PROVE  ExitTellsTruth'
  OBVIOUS
<1> USE DEF TypeOK, MainPCs, StageInv, StopInv, ExitTellsTruth
<1>1. ASSUME NEW p \in Runs, Moves(p) PROVE ExitTellsTruth'
  BY <1>1, NobodyAssumption
  DEF Moves, Launch, StartListener, Notify, SelectSignal,
         ShutdownReturns, ClosePool, Goto, process, database, traffic
<1>2. ASSUME NEW p \in Runs, Ends(p) PROVE ExitTellsTruth'
  BY <1>2, NobodyAssumption
  DEF Ends, LoadConfig, MigrateFails, SelectError, Return,
         End, Goto, process, database, traffic
<1>3. ASSUME NEW p \in Runs, Listens(p) PROVE ExitTellsTruth'
  BY <1>3, NobodyAssumption
  DEF Listens, Listen, ListenerFails, ShuttingDown, process, database, traffic
<1>4. ASSUME NEW p \in Runs, OpenPostgres(p) PROVE ExitTellsTruth'
  BY <1>4, NobodyAssumption
  DEF OpenPostgres, End, Goto, process, database, traffic
<1>5. ASSUME NEW p \in Runs, HasElement(p) PROVE ExitTellsTruth'
  BY <1>5, NobodyAssumption
  DEF HasElement, Goto, process, database, traffic
<1>6. ASSUME NEW p \in Runs, CreateElement(p) PROVE ExitTellsTruth'
  BY <1>6, NobodyAssumption
  DEF CreateElement, End, Goto, process, database, traffic
<1>7. ASSUME NEW p \in Runs, Signal(p) PROVE ExitTellsTruth'
  BY <1>7, NobodyAssumption
  DEF Signal, End, Goto, process, database, traffic
<1>8. ASSUME NEW r \in Requests, Handle(r) PROVE ExitTellsTruth'
  BY <1>8 DEF Handle, process, database, traffic
<1>9. ASSUME NEW r \in Requests, NEW p \in Runs, Accept(r, p)
      PROVE  ExitTellsTruth'
  BY <1>9, NobodyAssumption DEF Accept, process, database, traffic
<1>10. CASE UNCHANGED vars
  BY <1>10 DEF vars, process, database, traffic
<1> QED
  BY <1>1, <1>2, <1>3, <1>4, <1>5, <1>6,
     <1>7, <1>8, <1>9, <1>10, StepCases

-----------------------------------------------------------------------------
(* The stages of every run describe its pool, its listener, its handlers    *)
(* and the schema: the inductive invariant.                                 *)
THEOREM Invariance == Spec => []IInv
<1>1. Init => IInv
  BY NobodyAssumption
  DEF Init, IInv, TypeOK, MainPCs, StageInv, HandlerInv, SchemaInv, Serving,
      StopInv, RaceInv, InFlight, RaceHasWinner, CutForCause,
      PoolOutlivesHandlers, ExitTellsTruth
<1>2. IInv /\ [Next]_vars => IInv'
  BY TypeStep, StageStep, HandlerStep, SchemaStep, StopStepKeeps, RaceStep,
     WinnerStep, CutStep, FailedStep, ExitStep DEF IInv
<1> QED
  BY <1>1, <1>2, PTL DEF Spec

(* A handler with a pool finds a complete schema, however runs migrate side *)
(* by side and fail.                                                        *)
THEOREM SchemaComplete == Spec => []ServesMigrated
<1>1. IInv => ServesMigrated
  BY DEF IInv, TypeOK, HandlerInv, SchemaInv, InFlight, ServesMigrated
<1> QED
  BY <1>1, Invariance, PTL

(* The runs that migrate a database at once never all lose the race.        *)
THEOREM RaceWon == Spec => []RaceHasWinner
BY Invariance, PTL DEF IInv

(* A caught signal costs no request its answer unless the ten seconds ran   *)
(* out or the listener had failed.                                          *)
THEOREM CutHasCause == Spec => []CutForCause
BY Invariance, PTL DEF IInv

(* The pool is closed behind the last handler that was waited for.          *)
THEOREM PoolClosedLast == Spec => []PoolOutlivesHandlers
BY Invariance, PTL DEF IInv

(* The exit code of a run tells why it ended.                               *)
THEOREM ExitHonest == Spec => []ExitTellsTruth
BY Invariance, PTL DEF IInv

-----------------------------------------------------------------------------
(* The end.  The provers know nothing of ENABLED: that main can go on is a  *)
(* hypothesis, an invariant TLC checks.                                     *)

\* There is something for the select to take.
Told(p) == signalled[p] \/ errCh[p]

(* The listener can only have failed once it was started.                   *)
ErrorInv == \A p \in Runs : errCh[p] => main[p] \in Serving \cup {"ended"}

LEMMA ErrorStep == IInv /\ ErrorInv /\ [Next]_vars => ErrorInv'
<1> SUFFICES ASSUME IInv, ErrorInv, [Next]_vars PROVE ErrorInv'
  OBVIOUS
<1> USE DEF ErrorInv, Serving
<1>0. TypeOK /\ StageInv
  BY DEF IInv
<1> USE DEF TypeOK
<1>1. ASSUME NEW p \in Runs, Moves(p) PROVE ErrorInv'
  BY <1>0, <1>1
  DEF Moves, Launch, StartListener, Notify, SelectSignal, ShutdownReturns,
      ClosePool, Goto
<1>2. ASSUME NEW p \in Runs, Ends(p) PROVE ErrorInv'
  BY <1>0, <1>2
  DEF Ends, LoadConfig, MigrateFails, SelectError, Return, End, Goto
<1>3. ASSUME NEW p \in Runs, Listens(p) PROVE ErrorInv'
  <2>1. /\ main' = main /\ main[p] \in Serving
        /\ \A q \in Runs : errCh'[q] => errCh[q] \/ q = p
    BY <1>0, <1>3 DEF Listens, Listen, ListenerFails, StageInv, process
  <2> QED
    BY <2>1
<1>4. ASSUME NEW p \in Runs,
             OpenPostgres(p) \/ HasElement(p) \/ CreateElement(p) \/ Signal(p)
      PROVE  ErrorInv'
  BY <1>0, <1>4
  DEF OpenPostgres, HasElement, CreateElement, Signal, End, Goto, process
<1>5. ASSUME NEW r \in Requests, Handle(r) \/ \E p \in Runs : Accept(r, p)
      PROVE  ErrorInv'
  BY <1>5 DEF Handle, Accept, process
<1>6. CASE UNCHANGED vars
  BY <1>6 DEF vars, process
<1> QED
  BY <1>1, <1>2, <1>3, <1>4, <1>5, <1>6, StepCases

(* What is in a channel stays there.                                        *)
LEMMA StaysTold ==
    ASSUME TypeOK, NEW p \in Runs, Told(p), [Next]_vars
    PROVE  Told(p)'
<1>1. ASSUME NEW q \in Runs,
             Moves(q) \/ Ends(q) \/ OpenPostgres(q) \/ HasElement(q)
                \/ CreateElement(q)
      PROVE  Told(p)'
  BY <1>1 DEF Told, Moves, Launch, StartListener, Notify, SelectSignal,
     ShutdownReturns, ClosePool, Ends, LoadConfig, MigrateFails, SelectError,
     Return, OpenPostgres, HasElement, CreateElement
<1>2. ASSUME NEW q \in Runs, Listens(q) \/ Signal(q)
      PROVE  Told(p)'
  BY <1>2 DEF TypeOK, Told, Listens, Listen, ListenerFails, Signal
<1>3. ASSUME NEW r \in Requests, Handle(r) \/ \E q \in Runs : Accept(r, q)
      PROVE  Told(p)'
  BY <1>3 DEF Told, Handle, Accept
<1>4. CASE UNCHANGED vars
  BY <1>4 DEF vars, Told
<1> QED
  BY <1>1, <1>2, <1>3, <1>4, StepCases

(* How many steps main has still to take at most.                           *)
ToGo(p) ==
    CASE main[p] = "notify"   -> 5
      [] main[p] = "select"   -> 4
      [] main[p] = "shutdown" -> 3
      [] main[p] = "close"    -> 2
      [] main[p] = "return"   -> 1
      [] OTHER -> 0

Serves(p) == main[p] \in Serving \cup {"ended"}

(* Behind the start of the listener main goes forward only, its own steps   *)
(* always do.                                                               *)
LEMMA GoesForward ==
    ASSUME IInv, NEW p \in Runs, Serves(p), [Next]_vars
    PROVE  /\ Serves(p)' /\ ToGo(p)' <= ToGo(p)
           /\ ToGo(p) # 0 /\ (StartStep(p) \/ StopStep(p)) =>
                 ToGo(p)' < ToGo(p)
<1> USE DEF Serves, Serving, ToGo
<1>0. main \in [Runs -> MainPCs]
  BY DEF IInv, TypeOK
<1>1. ASSUME NEW q \in Runs, Moves(q) \/ Ends(q)
      PROVE  IF q = p THEN Serves(p)' /\ ToGo(p)' < ToGo(p)
                      ELSE main'[p] = main[p]
  BY <1>0, <1>1
  DEF Moves, Launch, StartListener, Notify, SelectSignal, ShutdownReturns,
      ClosePool, Ends, LoadConfig, MigrateFails, SelectError, Return, End, Goto
<1>2. ASSUME NEW q \in Runs,
             OpenPostgres(q) \/ HasElement(q) \/ CreateElement(q)
      PROVE  q # p /\ main'[p] = main[p]
  BY <1>0, <1>2 DEF OpenPostgres, HasElement, CreateElement, End, Goto
<1>3. ASSUME NEW q \in Runs, Signal(q)
      PROVE  main'[p] = main[p] \/ main'[p] = "ended"
  BY <1>0, <1>3 DEF Signal, End, Goto, process
<1>4. ASSUME NEW q \in Runs, Listens(q)
      PROVE  main' = main
  BY <1>4 DEF Listens, Listen, ListenerFails, process
<1>5. ASSUME NEW r \in Requests, Handle(r) \/ \E q \in Runs : Accept(r, q)
      PROVE  main' = main
  BY <1>5 DEF Handle, Accept, process
<1>6. UNCHANGED vars => main' = main
  BY DEF vars, process
<1>7. StartStep(p) \/ StopStep(p) =>
         Moves(p) \/ Ends(p) \/ OpenPostgres(p) \/ HasElement(p)
            \/ CreateElement(p)
  BY DEF StartStep, StopStep, Moves, Ends
<1>8. StartStep(p) \/ StopStep(p) => ToGo(p)' < ToGo(p)
  BY <1>1, <1>2, <1>7
<1>9. \/ main'[p] = main[p] \/ main'[p] = "ended"
      \/ Serves(p)' /\ ToGo(p)' < ToGo(p)
  BY <1>1, <1>2, <1>3, <1>4, <1>5, <1>6, StepCases
<1> QED
  BY <1>8, <1>9

Falls(p, k) == Told(p) /\ ToGo(p) = k ~> ToGo(p) < k

EndsFrom(p, k) == Told(p) /\ ToGo(p) <= k ~> ToGo(p) = 0

(* The inductive parts together, and what they say of a run that is told.   *)
LEMMA ToldServes ==
    /\ Spec => [](IInv /\ ErrorInv)
    /\ \A p \in Runs : IInv /\ ErrorInv /\ Told(p) => Serves(p)
<1>1. Init => ErrorInv
  BY DEF Init, ErrorInv
<1>2. Spec => [](IInv /\ ErrorInv)
  BY <1>1, ErrorStep, Invariance, PTL DEF Spec
<1>3. ASSUME NEW p \in Runs, IInv, ErrorInv, Told(p)
      PROVE  Serves(p)
  BY <1>3 DEF IInv, StopInv, ErrorInv, Told, Serves, Serving
<1> QED
  BY <1>2, <1>3

(* A run that is told and has k steps to go has fewer in the end.           *)
LEMMA Advance ==
    ASSUME NEW p \in Runs, NEW k \in 1 .. 5
    PROVE  FairSpec /\ []NeverStuck => Falls(p, k)
<1> DEFINE Here == Told(p) /\ ToGo(p) = k
           Beyond == ToGo(p) < k
           I == IInv /\ ErrorInv
<1>0. ToGo(p) \in 0 .. 5 /\ ToGo(p)' \in 0 .. 5
  BY DEF ToGo
<1>1. I /\ Here /\ [Next]_vars => Here' \/ Beyond'
  <2>1. I => TypeOK
    BY DEF IInv
  <2> QED
    BY <1>0, <2>1, StaysTold, GoesForward, ToldServes
<1>2. I /\ Here /\ <<StartStep(p) \/ StopStep(p)>>_vars => Beyond'
  <2>1. StartStep(p) \/ StopStep(p) => Next
    BY DEF Next
  <2> QED
    BY <1>0, <2>1, GoesForward, ToldServes
<1>3. I /\ NeverStuck /\ Here => ENABLED <<StartStep(p) \/ StopStep(p)>>_vars
  <2>1. Here => main[p] \notin {"down", "ended"}
    BY DEF ToGo
  <2> QED
    BY <2>1 DEF NeverStuck, Told
<1>4. FairSpec => WF_vars(StartStep(p) \/ StopStep(p))
  <2>1. FairSpec => KeepsGoing(p)
    BY DEF FairSpec, Fairness
  <2> QED
    BY <2>1, PTL DEF KeepsGoing
<1>5. FairSpec => []I /\ [][Next]_vars
  BY ToldServes DEF FairSpec, Spec
<1> HIDE DEF Here, Beyond, I
<1>6. FairSpec /\ []NeverStuck => (Here ~> Beyond)
  BY <1>1, <1>2, <1>3, <1>4, <1>5, PTL
<1> QED
  BY <1>6 DEF Here, Beyond, Falls

(* One more step: if from k steps on a run ends, it does from k + 1.        *)
LEMMA OneMore ==
    ASSUME NEW p \in Runs, NEW k \in 0 .. 4, NEW m, m = k + 1
    PROVE  FairSpec /\ []NeverStuck /\ EndsFrom(p, k) => EndsFrom(p, m)
<1>1. FairSpec /\ []NeverStuck
         => (Told(p) /\ ToGo(p) = m ~> ToGo(p) < m)
  <2>1. m \in 1 .. 5
    OBVIOUS
  <2>2. FairSpec /\ []NeverStuck => Falls(p, m)
    BY <2>1, Advance
  <2> QED
    BY <2>2 DEF Falls
<1>2. ToGo(p) \in 0 .. 5
  BY DEF ToGo
<1>3. (ToGo(p) <= m => ToGo(p) <= k \/ ToGo(p) = m)
         /\ (ToGo(p) < m => ToGo(p) <= k)
  BY <1>2
<1>4. TypeOK /\ Told(p) /\ [Next]_vars => Told(p)'
  BY StaysTold
<1>5. FairSpec => []TypeOK /\ [][Next]_vars
  <2>1. IInv => TypeOK
    BY DEF IInv
  <2> QED
    BY <2>1, Invariance, PTL DEF FairSpec, Spec
<1>6. FairSpec /\ []NeverStuck /\ (Told(p) /\ ToGo(p) <= k ~> ToGo(p) = 0)
         => (Told(p) /\ ToGo(p) <= m ~> ToGo(p) = 0)
  BY <1>1, <1>3, <1>4, <1>5, PTL
<1> QED
  BY <1>6 DEF EndsFrom

(* A run that is told to stop has at most five steps to go.                 *)
LEMMA RunStops ==
    ASSUME NEW p \in Runs
    PROVE  FairSpec /\ []NeverStuck
              => (signalled[p] \/ errCh[p] ~> main[p] = "ended")
<1>0. FairSpec /\ []NeverStuck => EndsFrom(p, 0)
  <2>1. ToGo(p) <= 0 => ToGo(p) = 0
    BY DEF ToGo
  <2> QED
    BY <2>1, PTL DEF EndsFrom
<1>1. FairSpec /\ []NeverStuck => EndsFrom(p, 1)
  BY <1>0, OneMore
<1>2. FairSpec /\ []NeverStuck => EndsFrom(p, 2)
  BY <1>1, OneMore
<1>3. FairSpec /\ []NeverStuck => EndsFrom(p, 3)
  BY <1>2, OneMore
<1>4. FairSpec /\ []NeverStuck => EndsFrom(p, 4)
  BY <1>3, OneMore
<1>5. FairSpec /\ []NeverStuck => EndsFrom(p, 5)
  BY <1>4, OneMore
<1>6. FairSpec /\ []NeverStuck
         => (Told(p) /\ ToGo(p) <= 5 ~> ToGo(p) = 0)
  BY <1>5 DEF EndsFrom
<1>7. ToGo(p) <= 5 /\ (ToGo(p) = 0 /\ Serves(p) => main[p] = "ended")
  BY DEF ToGo, Serves, Serving
<1>8. IInv /\ ErrorInv /\ Told(p) => Serves(p)
  BY ToldServes
<1>9. IInv /\ Told(p) /\ [Next]_vars => Told(p)'
  BY StaysTold DEF IInv
<1>10. FairSpec => [](IInv /\ ErrorInv) /\ [][Next]_vars
  BY ToldServes DEF FairSpec, Spec
<1>11. FairSpec /\ []NeverStuck => (Told(p) ~> main[p] = "ended")
  BY <1>6, <1>7, <1>8, <1>9, <1>10, PTL
<1> QED
  BY <1>11 DEF Told

(* A run that has caught a signal or whose listener has failed comes to its *)
(* end, for any number of runs, handlers and tables, if main can always go  *)
(* on.                                                                      *)
THEOREM RunsStop == FairSpec /\ []NeverStuck => StopsInTheEnd
<1> SUFFICES ASSUME FairSpec /\ []NeverStuck, NEW p \in Runs
             PROVE  signalled[p] \/ errCh[p] ~> main[p] = "ended"
  BY DEF StopsInTheEnd
<1> QED
  BY RunStops

=============================================================================
