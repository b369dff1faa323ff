--------------------------- MODULE PipelineProofs ---------------------------
(***************************************************************************)
(* Proofs about Pipeline.  First what the chains of newRouter look like,   *)
(* then what each operator does to the response, then one lemma per part   *)
(* of IInv that every step preserves it, and the theorems.                 *)
(***************************************************************************)
EXTENDS Pipeline, TLAPS

(* The chains of newRouter, position by position.                           *)
LEMMA ChainShape ==
    ASSUME NEW r \in Routes
    PROVE  /\ Len(Chain(r)) \in 5..8
           /\ Chain(r)[1] = "Recoverer" /\ Chain(r)[2] = "RequestLogger"
           /\ Chain(r)[3] = "RequestID" /\ Chain(r)[4] = "Locale"
           /\ Chain(r)[5] = "CORS"
           /\ r \in {"api", "mobile"} => Chain(r)[6] = "Security"
           /\ r = "api" => Len(Chain(r)) = 7 /\ Chain(r)[7] = "Handler"
           /\ r = "mobile" => /\ Len(Chain(r)) = 8
                              /\ Chain(r)[7] = "ClientMarker"
                              /\ Chain(r)[8] = "Handler"
           /\ r = "public" => Len(Chain(r)) = 6 /\ Chain(r)[6] = "Handler"
           /\ r \in {"none", "preflight"} => Len(Chain(r)) = 5
<1>1. CASE r = "api"
  <2>1. Chain(r) = Engine \o <<"Security", "Handler">>
    BY <1>1 DEF Chain, Group
  <2> QED  BY <1>1, <2>1 DEF Engine
<1>2. CASE r = "mobile"
  <2>1. Chain(r) = Engine \o <<"Security", "ClientMarker", "Handler">>
    BY <1>2 DEF Chain, Group
  <2> QED  BY <1>2, <2>1 DEF Engine
<1>3. CASE r = "public"
  <2>1. Chain(r) = Engine \o <<"Handler">>
    BY <1>3 DEF Chain, Group
  <2> QED  BY <1>3, <2>1 DEF Engine
<1>4. CASE r \in {"none", "preflight"}
  <2>1. Chain(r) = Engine \o << >>
    BY <1>4 DEF Chain, Group
  <2> QED  BY <1>4, <2>1 DEF Engine
<1> QED  BY <1>1, <1>2, <1>3, <1>4 DEF Routes

(* The same, read backwards: who stands at a position.                      *)
LEMMA ChainNames ==
    ASSUME NEW r \in Routes, NEW i \in 1..Len(Chain(r))
    PROVE  /\ Chain(r)[i] = "Recoverer" => i = 1
           /\ Chain(r)[i] = "RequestLogger" => i = 2
           /\ Chain(r)[i] = "RequestID" => i = 3
           /\ Chain(r)[i] = "Locale" => i = 4
           /\ Chain(r)[i] = "CORS" => i = 5
           /\ Chain(r)[i] = "Security" => i = 6 /\ r \in {"api", "mobile"}
           /\ Chain(r)[i] = "ClientMarker" => i = 7 /\ r = "mobile"
           /\ Chain(r)[i] = "Handler" => /\ i = Len(Chain(r)) /\ i \in 6..8
                                         /\ r \in {"api", "mobile", "public"}
                                         /\ i = 6 <=> r = "public"
<1> DEFINE C == Chain(r)
<1>0. /\ Len(C) \in 5..8
      /\ C[1] = "Recoverer" /\ C[2] = "RequestLogger" /\ C[3] = "RequestID"
      /\ C[4] = "Locale" /\ C[5] = "CORS"
      /\ r \in {"api", "mobile"} => C[6] = "Security"
      /\ r = "api" => Len(C) = 7 /\ C[7] = "Handler"
      /\ r = "mobile" => Len(C) = 8 /\ C[7] = "ClientMarker" /\ C[8] = "Handler"
      /\ r = "public" => Len(C) = 6 /\ C[6] = "Handler"
      /\ r \in {"none", "preflight"} => Len(C) = 5
  BY ONLY r \in Routes, ChainShape
<1>1. i \in 1..Len(C)
  OBVIOUS
<1>2. r \in {"api", "mobile", "public", "none", "preflight"}
  BY DEF Routes
<1> HIDE DEF C
<1>3. i \in {1, 2, 3, 4, 5, 6, 7, 8}
  <2>1. Len(C) \in 5..8
    BY <1>0
  <2>2. ASSUME NEW n \in 5..8, NEW j \in 1..n
        PROVE  j \in {1, 2, 3, 4, 5, 6, 7, 8}
    OBVIOUS
  <2> QED  BY ONLY <2>1, <2>2, <1>1
<1>4. CASE i \in {1, 2, 3, 4, 5}
  BY <1>0, <1>4 DEF C
<1>5. CASE i = 6
  BY <1>0, <1>1, <1>2, <1>5 DEF C
<1>6. CASE i = 7
  BY <1>0, <1>1, <1>2, <1>6 DEF C
<1>7. CASE i = 8
  BY <1>0, <1>1, <1>2, <1>7 DEF C
<1> QED  BY <1>3, <1>4, <1>5, <1>6, <1>7

(* Where in the chain each kind of handler is called.                       *)
LEMMA CallPositions ==
    ASSUME TypeOK
    PROVE  /\ Calls("RequestID") => index = 3
           /\ Calls("CORS") => index = 5
           /\ Calls("Security") => index = 6 /\ Guarded
           /\ Calls("Handler") => /\ index = Len(Chain(req.route)) /\ index \in 6..8
                                  /\ req.route \in {"api", "mobile", "public"}
                                  /\ index = 6 <=> req.route = "public"
           /\ \A h \in {"Recoverer", "RequestLogger", "Locale", "ClientMarker"} :
                Calls(h) => \/ index \in {1, 2, 4}
                            \/ index = 7 /\ req.route = "mobile"
           /\ \A h : Calls(h) => index <= Len(Chain(req.route)) /\ pc = "running"
<1>1. req.route \in Routes /\ index \in Nat \ {0} /\ Len(Chain(req.route)) \in 5..8
  BY ChainShape DEF TypeOK, AbortIndex
<1>2. \A h : Calls(h) => /\ index \in 1..Len(Chain(req.route)) /\ pc = "running"
                         /\ Chain(req.route)[index] = h
  BY <1>1 DEF Calls
<1> QED  BY <1>1, <1>2, ChainNames DEF Guarded

(* Which open handlers resume at which position.                            *)
LEMMA OpenPositions ==
    ASSUME TypeOK, OpenInv, NEW i \in open
    PROVE  /\ i \in 1..Len(Chain(req.route))
           /\ (Chain(req.route)[i] = "Recoverer") <=> i = 1
           /\ (Chain(req.route)[i] = "RequestLogger") <=> i = 2
           /\ (Chain(req.route)[i] = "Security") <=> i = 6 /\ Guarded
           /\ panicked => i = 7
<1>1. req.route \in Routes /\ panicked \in BOOLEAN
  BY DEF TypeOK
<1>2. i \in 1..Len(Chain(req.route)) /\ (panicked => i = 7)
  BY <1>1, ChainShape DEF OpenInv
<1> QED  BY <1>1, <1>2, ChainNames, ChainShape DEF Guarded

(* What gin's writer does to the response.                                  *)
LEMMA SentFacts ==
    ASSUME NEW w \in Responses, NEW s \in Nat \ {0}, NEW m \in Messages
    PROVE  /\ Sent(w, s, m) \in Responses
           /\ Sent(w, s, m).committed
           /\ Sent(w, s, m).status = IF w.committed THEN w.status ELSE s
           /\ Sent(w, s, m).body = Append(w.body, m)
           /\ Sent(w, s, m).allow = w.allow /\ Sent(w, s, m).id = w.id
<1>1. WithStatus(w, s) = [w EXCEPT !.status = IF w.committed THEN w.status ELSE s]
  BY DEF WithStatus, Responses
<1>2. /\ w.status \in Nat \ {0} /\ w.committed \in BOOLEAN /\ w.allow \in Allows
      /\ w.id \in BOOLEAN /\ w.body \in Seq(Messages)
  BY DEF Responses
<1>3. Append(w.body, m) \in Seq(Messages)
  BY <1>2
<1> QED  BY <1>1, <1>2, <1>3 DEF Sent, Responses

(* A status alone: it stays as it is once the response is on its way.       *)
LEMMA WithStatusFacts ==
    ASSUME NEW w \in Responses, NEW s \in Nat \ {0}
    PROVE  /\ WithStatus(w, s) \in Responses
           /\ WithStatus(w, s).committed = w.committed
           /\ WithStatus(w, s).status = IF w.committed THEN w.status ELSE s
           /\ WithStatus(w, s).body = w.body
           /\ WithStatus(w, s).allow = w.allow /\ WithStatus(w, s).id = w.id
<1> QED  BY DEF WithStatus, Responses

(* Bare messages are messages.                                              *)
LEMMA BareFacts == \A k \in Kinds : Bare(k) \in Messages
<1>1. << >> \in Seq(Kinds)
  OBVIOUS
<1> QED  BY <1>1 DEF Bare, Messages

(* CORS names the origin of the request or nobody in particular.            *)
LEMMA AllowFacts ==
    ASSUME TypeOK
    PROVE  /\ AllowFor(req.origin) \in Allows
           /\ (AllowFor(req.origin) # NoOrigin) <=> IsOriginAllowed(req.origin)
           /\ AllowFor(req.origin) \in {NoOrigin, "*", req.origin}
           /\ cors.credentials => AllowFor(req.origin) # "*"
<1>1. req.origin \in Origins \cup {NoOrigin}
  BY DEF TypeOK
<1>2. CASE ~IsOriginAllowed(req.origin)
  BY <1>2, OriginsAssumption DEF AllowFor, Allows
<1>3. CASE IsOriginAllowed(req.origin)
  <2>1. req.origin \in Origins /\ req.origin # NoOrigin /\ req.origin # "*"
        /\ "*" # NoOrigin
    BY <1>1, <1>3, OriginsAssumption DEF IsOriginAllowed
  <2>2. CASE cors.all /\ ~cors.credentials
    BY <1>3, <2>1, <2>2 DEF AllowFor, Allows
  <2>3. CASE ~(cors.all /\ ~cors.credentials)
    BY <1>3, <2>1, <2>3 DEF AllowFor, Allows
  <2> QED  BY <2>2, <2>3
<1> QED  BY <1>2, <1>3

(* A panic, whichever handler it comes from.                                *)
LEMMA PanicFacts ==
    ASSUME TypeOK, OpenInv, NEW w \in {"raw", "buffer"}, Panic(w),
           index \in 6..8, index <= Len(Chain(req.route))
    PROVE  /\ open' = {} /\ index' = index + 1 /\ panicked' /\ writer' = w
           /\ UNCHANGED <<req, cors, session, log, saw, said>>
           /\ \/ /\ ~panicked /\ pc' = pc
                 /\ raw' = IF w = "raw" THEN Sent(raw, 500, Bare("problem"))
                           ELSE WithStatus(raw, 500)
                 /\ buffer' = IF w = "raw" THEN buffer ELSE Append(buffer, "problem")
              \/ panicked /\ pc' = "lost" /\ UNCHANGED <<raw, buffer>>
<1> DEFINE guards == {i \in open : Chain(req.route)[i] = "Recoverer"}
<1>1. panicked => guards = {}
  BY OpenPositions
<1>2. ASSUME ~panicked
      PROVE  guards = {1}
  <2>1. req.route \in Routes
    BY DEF TypeOK
  <2>2. PICK k \in 0..Len(Chain(req.route)) : open = 1..k /\ k = index - 1
    BY <1>2 DEF OpenInv, Past
  <2>3. 1 \in open
    BY <2>2
  <2> QED  BY <2>3, OpenPositions
<1>3. open' = {i \in open : \E g \in guards : i < g}
  BY DEF Panic
<1>4. open' = {}
  <2>1. open \subseteq 1..8
    BY DEF TypeOK
  <2>2. panicked \in BOOLEAN
    BY DEF TypeOK
  <2>3. CASE panicked
    BY <1>1, <1>3, <2>3
  <2>4. CASE ~panicked
    <3>1. guards = {1}
      BY <1>2, <2>4
    <3> HIDE DEF guards
    <3>2. open' = {i \in open : i < 1}
      BY <1>3, <3>1
    <3>3. \A i \in open : ~(i < 1)
      <4>1. \A i \in 1..8 : ~(i < 1)
        OBVIOUS
      <4> QED  BY <2>1, <4>1
    <3> QED  BY <3>2, <3>3
  <2> QED  BY <2>2, <2>3, <2>4
<1>5. /\ index' = index + 1 /\ panicked' /\ writer' = w
      /\ UNCHANGED <<req, cors, session, log, saw, said>>
  BY DEF Panic
<1>6. CASE panicked
  BY <1>1, <1>4, <1>5, <1>6 DEF Panic
<1>7. CASE ~panicked
  BY <1>2, <1>4, <1>5, <1>7 DEF Panic, Respond
<1> QED  BY <1>6, <1>7

(* The three ways a handler moves the index.                                *)
LEMMA Moves ==
    ASSUME TypeOK, NEW h, Calls(h)
    PROVE  /\ index \in 1..8
           /\ CallNext => index' \in 1..(AbortIndex + 1) /\ open' \subseteq 1..8
           /\ Return => index' \in 1..(AbortIndex + 1) /\ open' \subseteq 1..8
           /\ Abort => index' \in 1..(AbortIndex + 1) /\ open' \subseteq 1..8
           /\ index + 1 \in 1..(AbortIndex + 1)
<1>1. req.route \in Routes /\ index \in Nat \ {0} /\ open \subseteq 1..8
  BY DEF TypeOK, AbortIndex
<1>2. Len(Chain(req.route)) \in 5..8
  BY <1>1, ChainShape
<1>3. index <= Len(Chain(req.route))
  BY DEF Calls
<1>4. ASSUME NEW n \in 5..8, NEW i \in Nat \ {0}, i <= n
      PROVE  i \in 1..8 /\ i + 1 \in 1..(AbortIndex + 1)
  BY <1>4 DEF AbortIndex
<1>5. index \in 1..8 /\ index + 1 \in 1..(AbortIndex + 1)
  BY ONLY <1>1, <1>2, <1>3, <1>4
<1>6. AbortIndex + 1 \in 1..(AbortIndex + 1)
  BY DEF AbortIndex
<1> QED  BY <1>1, <1>5, <1>6 DEF CallNext, Return, Abort

(* Types.                                                                   *)
LEMMA TypeStep ==
    ASSUME TypeOK, OpenInv, [Next]_vars
    PROVE  TypeOK'
<1> DEFINE Moved == index' \in 1..(AbortIndex + 1) /\ open' \subseteq 1..8
           Kept == UNCHANGED <<req, cors>>
           Context == /\ pc' \in {"running", "done", "lost"}
                      /\ writer' \in {"raw", "buffer"}
                      /\ session' \in {"as_sent", "decrypted"}
                      /\ log' \in Seq([status : Nat, id : BOOLEAN])
                      /\ saw' \in {"nothing", "as_sent", "decrypted"}
                      /\ said' \in Statuses \cup {NoStatus}
                      /\ panicked' \in BOOLEAN
           Written == raw' \in Responses /\ buffer' \in Seq(Kinds)
<1>0. SUFFICES Moved /\ Kept /\ Context /\ Written
  BY DEF TypeOK
<1> USE DEF Moved
<1>1. CASE PassThrough
  <2>1. Moved
    BY <1>1, Moves DEF PassThrough
  <2>2. Kept /\ Context /\ Written
    BY <1>1 DEF PassThrough, TypeOK
  <2> QED  BY <2>1, <2>2
<1>2. CASE RequestID
  <2>1. Moved
    BY <1>2, Moves DEF RequestID
  <2>2. Kept /\ Context
    BY <1>2 DEF RequestID, TypeOK
  <2>3. Written
    BY <1>2 DEF RequestID, TypeOK, Responses
  <2> QED  BY <2>1, <2>2, <2>3
<1>3. CASE CORS
  <2>1. Moved
    BY <1>3, Moves DEF CORS
  <2>2. Kept /\ Context
    BY <1>3 DEF CORS, TypeOK
  <2>3. [raw EXCEPT !.allow = AllowFor(req.origin)] \in Responses
    BY <1>3, AllowFacts DEF TypeOK, Responses
  <2>4. WithStatus([raw EXCEPT !.allow = AllowFor(req.origin)], 204) \in Responses
    BY <1>3, <2>3, WithStatusFacts
  <2>5. [WithStatus([raw EXCEPT !.allow = AllowFor(req.origin)], 204)
           EXCEPT !.committed = TRUE] \in Responses
    BY <1>3, <2>4 DEF Responses
  <2>6. Written
    BY <1>3, <2>3, <2>5 DEF CORS, TypeOK
  <2> QED  BY <2>1, <2>2, <2>3, <2>4, <2>5, <2>6
<1>4. CASE Admit
  <2>1. Moved
    BY <1>4, Moves DEF Admit
  <2>2. Kept /\ Context /\ Written
    BY <1>4 DEF Admit, TypeOK
  <2> QED  BY <2>1, <2>2
<1>5. CASE RefuseInbound
  <2>1. Moved
    BY <1>5, Moves DEF RefuseInbound
  <2>2. Kept /\ Context
    BY <1>5 DEF RefuseInbound, TypeOK
  <2>3. Written
    BY <1>5, SentFacts, BareFacts DEF RefuseInbound, Refuse, TypeOK, Kinds
  <2> QED  BY <2>1, <2>2, <2>3
<1>6. CASE DecryptPanics
  <2>1. Calls("Security") /\ Panic("buffer")
    BY <1>6 DEF DecryptPanics
  <2>2. index \in 6..8 /\ index <= Len(Chain(req.route)) /\ pc = "running"
    BY <1>6, <2>1, CallPositions
  <2>3. /\ open' = {} /\ index' = index + 1 /\ panicked' /\ writer' = "buffer"
        /\ UNCHANGED <<req, cors, session, log, saw, said>>
        /\ pc' = pc \/ pc' = "lost"
        /\ raw' = WithStatus(raw, 500) \/ raw' = raw
        /\ buffer' = Append(buffer, "problem") \/ buffer' = buffer
    BY <1>6, <2>1, <2>2, PanicFacts
  <2>4. Moved
    BY <1>6, <2>1, <2>3, Moves
  <2>5. panicked' \in BOOLEAN
    BY <1>6 DEF DecryptPanics, Panic
  <2>6. Kept /\ Context
    BY <1>6, <2>3, <2>5 DEF TypeOK
  <2>7. WithStatus(raw, 500) \in Responses /\ raw \in Responses
    BY <1>6, WithStatusFacts DEF TypeOK
  <2>8. "problem" \in Kinds /\ buffer \in Seq(Kinds)
    BY <1>6 DEF TypeOK, Kinds
  <2>9. Written
    BY <1>6, <2>3, <2>7, <2>8
  <2> QED  BY <2>1, <2>2, <2>3, <2>4, <2>5, <2>6, <2>7, <2>8, <2>9
<1>7. CASE Handler
  <2>1. Moved
    BY <1>7, Moves DEF Handler
  <2>2. Kept /\ Context
    BY <1>7 DEF Handler, TypeOK
  <2>3. raw \in Responses /\ buffer \in Seq(Kinds)
    BY <1>7 DEF TypeOK
  <2>4. PICK s \in Statuses : Respond(writer, s, "answer")
    BY <1>7 DEF Handler
  <2>5. s \in Nat \ {0} /\ Bare("answer") \in Messages
    BY <1>7, StatusesAssumption, BareFacts DEF Kinds
  <2>6. Written
    BY <1>7, <2>3, <2>4, <2>5, SentFacts, WithStatusFacts DEF Respond, Kinds
  <2> QED  BY <2>1, <2>2, <2>3, <2>4, <2>5, <2>6
<1>8. CASE HandlerPanics
  <2>1. Calls("Handler") /\ Panic(writer)
    BY <1>8 DEF HandlerPanics
  <2>2. index \in 6..8
    BY <1>8, <2>1, CallPositions
  <2>3. index <= Len(Chain(req.route)) /\ pc = "running"
    BY <1>8, <2>1 DEF Calls
  <2>4. writer \in {"raw", "buffer"} /\ raw \in Responses /\ buffer \in Seq(Kinds)
    BY <1>8 DEF TypeOK
  <2>5. /\ open' = {} /\ index' = index + 1 /\ panicked' /\ writer' = writer
        /\ UNCHANGED <<req, cors, session, log, saw, said>>
        /\ pc' = pc \/ pc' = "lost"
        /\ raw' \in {WithStatus(raw, 500), Sent(raw, 500, Bare("problem")), raw}
        /\ buffer' = Append(buffer, "problem") \/ buffer' = buffer
    BY <1>8, <2>1, <2>2, <2>3, <2>4, PanicFacts
  <2>6. Moved
    BY <1>8, <2>1, <2>5, Moves
  <2>7. panicked' \in BOOLEAN
    BY <1>8 DEF HandlerPanics, Panic
  <2>8. Kept /\ Context
    BY <1>8, <2>4, <2>5, <2>7 DEF TypeOK
  <2>9. Bare("problem") \in Messages /\ "problem" \in Kinds
    BY <1>8, BareFacts DEF Kinds
  <2>10. /\ WithStatus(raw, 500) \in Responses
        /\ Sent(raw, 500, Bare("problem")) \in Responses
    BY <1>8, <2>4, <2>9, WithStatusFacts, SentFacts
  <2>11. Written
    BY <1>8, <2>4, <2>5, <2>9, <2>10
  <2> QED  BY <2>1, <2>2, <2>3, <2>4, <2>5, <2>6, <2>7, <2>8, <2>9, <2>10, <2>11
<1>9. CASE ResumePassThrough
  <2>1. Moved /\ Kept /\ Context /\ Written
    BY <1>9 DEF ResumePassThrough, TypeOK
  <2> QED  BY <2>1
<1>10. CASE WriteLog
  <2>1. Moved
    BY <1>10 DEF WriteLog, TypeOK
  <2>2. [status |-> raw.status, id |-> raw.id] \in [status : Nat, id : BOOLEAN]
    BY <1>10 DEF TypeOK, Responses
  <2>3. log' \in Seq([status : Nat, id : BOOLEAN])
    BY <1>10, <2>2 DEF WriteLog, TypeOK
  <2>4. Kept /\ Context /\ Written
    BY <1>10, <2>3 DEF WriteLog, TypeOK
  <2> QED  BY <2>1, <2>2, <2>3, <2>4
<1>11. CASE EncryptOutbound
  <2>1. Moved
    BY <1>11 DEF EncryptOutbound, ResumeSecurity, TypeOK
  <2>2. Kept /\ Context
    BY <1>11 DEF EncryptOutbound, ResumeSecurity, TypeOK
  <2>3. Wrapped \in Messages
    BY <1>11 DEF TypeOK, Wrapped, Messages, Kinds
  <2>4. Written
    BY <1>11, <2>3, SentFacts DEF EncryptOutbound, ResumeSecurity, TypeOK
  <2> QED  BY <2>1, <2>2, <2>3, <2>4
<1>12. CASE EncryptFails
  <2>1. Moved
    BY <1>12 DEF EncryptFails, ResumeSecurity, TypeOK
  <2>2. Kept /\ Context
    BY <1>12 DEF EncryptFails, ResumeSecurity, TypeOK
  <2>3. Written
    BY <1>12, SentFacts, BareFacts DEF EncryptFails, ResumeSecurity, Refuse, TypeOK, Kinds
  <2> QED  BY <2>1, <2>2, <2>3
<1>13. CASE Finish
  <2>1. Moved
    BY <1>13 DEF Finish, TypeOK
  <2>2. Kept /\ Context
    BY <1>13 DEF Finish, TypeOK
  <2>3. [raw EXCEPT !.committed = TRUE] \in Responses
    BY <1>13 DEF TypeOK, Responses
  <2>4. Bare("not_found") \in Messages
    BY <1>13, BareFacts DEF Kinds
  <2>5. Sent(raw, 404, Bare("not_found")) \in Responses
    BY <1>13, <2>4, SentFacts DEF TypeOK
  <2>6. Written
    BY <1>13, <2>3, <2>5 DEF Finish, TypeOK
  <2> QED  BY <2>1, <2>2, <2>3, <2>4, <2>5, <2>6
<1>14. CASE UNCHANGED vars
  BY <1>14 DEF vars, TypeOK
<1> QED  BY <1>1, <1>2, <1>3, <1>4, <1>5, <1>6, <1>7, <1>8, <1>9, <1>10, <1>11, <1>12, <1>13, <1>14 DEF Next

(* Numbers and sets that every step below needs.                            *)
LEMMA Numbers ==
    ASSUME TypeOK
    PROVE  /\ req.route \in Routes /\ index \in Nat \ {0} /\ panicked \in BOOLEAN
           /\ Len(Chain(req.route)) \in Nat
           /\ 5 <= Len(Chain(req.route)) /\ Len(Chain(req.route)) <= 8
<1>1. req.route \in Routes /\ index \in Nat \ {0} /\ panicked \in BOOLEAN
  BY DEF TypeOK, AbortIndex
<1>2. Len(Chain(req.route)) \in 5..8
  BY <1>1, ChainShape
<1>3. \A n \in 5..8 : n \in Nat /\ 5 <= n /\ n <= 8
  OBVIOUS
<1> QED  BY <1>1, <1>2, <1>3

(* Initial pieces of the chain: adding and taking away the last element.    *)
LEMMA Interval ==
    ASSUME NEW k \in Nat
    PROVE  /\ 1..k \cup {k + 1} = 1..(k + 1)
           /\ k # 0 => 1..k \ {k} = 1..(k - 1)
           /\ \A i \in 1..k : (\A j \in 1..k : j <= i) => i = k
<1> QED  OBVIOUS

(* A handler that calls Next, returns, aborts or resumes, when nothing has  *)
(* panicked, leaves the open calls an initial piece of the chain.           *)
LEMMA EnterOpen ==
    ASSUME TypeOK, OpenInv, NEW h, Calls(h), CallNext, ~panicked,
           UNCHANGED <<req, pc, panicked>>
    PROVE  OpenInv'
<1>1. pc = "running" /\ index <= Len(Chain(req.route))
  BY DEF Calls
<1>2. PICK k \in 0..Len(Chain(req.route)) : open = 1..k /\ k = index - 1
  BY <1>1, Numbers DEF OpenInv, Past
<1>3. open' = 1..index /\ index' = index + 1
  BY <1>2, Interval, Numbers DEF CallNext
<1>4. index \in 0..Len(Chain(req.route))'
  BY <1>1, Numbers
<1> QED  BY <1>1, <1>3, <1>4, Numbers DEF OpenInv

(* A handler that returns or aborts at the end leaves the open calls alone. *)
LEMMA LeaveOpen ==
    ASSUME TypeOK, OpenInv, NEW h, Calls(h), ~panicked, UNCHANGED open,
           index' \in Nat, index' > Len(Chain(req.route)),
           UNCHANGED <<req, pc, panicked>>
    PROVE  OpenInv'
<1>1. pc = "running"
  BY DEF Calls
<1>2. PICK k \in 0..Len(Chain(req.route)) : open = 1..k
  BY DEF OpenInv
<1>3. Past'
  BY Numbers DEF Past
<1> QED  BY <1>1, <1>2, <1>3 DEF OpenInv

(* The innermost open call ends: the piece is one shorter.                  *)
LEMMA ResumeOpen ==
    ASSUME TypeOK, OpenInv, NEW i \in open, Resumes(i), open' = open \ {i},
           UNCHANGED <<req, index, pc, panicked>>
    PROVE  /\ OpenInv' /\ Past /\ Past'
           /\ ~panicked => open = 1..i /\ open' = 1..(i - 1) /\ i \in Nat \ {0}
           /\ panicked => i = 7
<1>1. pc = "running" /\ Past /\ \A j \in open : j <= i
  BY DEF Resumes, Past
<1>2. Past'
  BY <1>1 DEF Past
<1>3. CASE panicked
  BY <1>1, <1>2, <1>3, OpenPositions DEF OpenInv
<1>4. CASE ~panicked
  <2>1. PICK k \in 0..Len(Chain(req.route)) : open = 1..k
    BY <1>4 DEF OpenInv
  <2>2. k \in Nat /\ i \in Nat \ {0}
    BY <2>1, Numbers
  <2>3. i = k
    BY <1>1, <2>1, <2>2, Interval
  <2>4. open' = 1..(i - 1)
    BY <2>1, <2>2, <2>3, Interval
  <2>5. i - 1 \in 0..Len(Chain(req.route))'
    BY <2>1, <2>2, <2>3, Numbers
  <2> QED  BY <1>1, <1>2, <1>4, <2>1, <2>2, <2>3, <2>4, <2>5 DEF OpenInv
<1> QED  BY <1>3, <1>4, Numbers

(* The open calls.                                                          *)
LEMMA OpenStep ==
    ASSUME TypeOK, OpenInv, InboundInv, PanicInv, [Next]_vars
    PROVE  OpenInv'
<1>1. CASE PassThrough
  <2>1. PICK h \in {"Recoverer", "RequestLogger", "Locale", "ClientMarker"} : Calls(h)
    BY <1>1 DEF PassThrough
  <2>2. CallNext /\ UNCHANGED <<req, pc, panicked>>
    BY <1>1 DEF PassThrough
  <2>3. CASE panicked
    <3>1. pc = "running"
      BY <2>1 DEF Calls
    <3>2. index = 7 /\ req.route = "mobile" /\ open = {}
      BY <2>1, <2>3, CallPositions DEF OpenInv
    <3>3. index' = 8 /\ open' = {7} /\ panicked' /\ pc' = "running" /\ req' = req
      BY <2>2, <2>3, <3>1, <3>2 DEF CallNext
    <3> QED  BY <3>2, <3>3 DEF OpenInv
  <2> QED  BY <2>1, <2>2, <2>3, EnterOpen, Numbers
<1>2. CASE RequestID
  <2>1. ~panicked
    BY <1>2, CallPositions DEF RequestID, OpenInv
  <2> QED  BY <1>2, <2>1, EnterOpen DEF RequestID
<1>3. CASE CORS
  <2>1. ~panicked /\ Calls("CORS") /\ UNCHANGED <<req, pc, panicked>>
    BY <1>3, CallPositions DEF CORS, OpenInv
  <2>2. CASE CallNext
    BY <2>1, <2>2, EnterOpen
  <2>3. CASE Abort
    BY <2>1, <2>3, LeaveOpen, Numbers DEF Abort, AbortIndex
  <2> QED  BY <1>3, <2>2, <2>3 DEF CORS
<1>4. CASE Admit
  <2>1. ~panicked
    BY <1>4, CallPositions DEF Admit, OpenInv
  <2> QED  BY <1>4, <2>1, EnterOpen DEF Admit
<1>5. CASE RefuseInbound
  <2>1. ~panicked /\ Calls("Security") /\ UNCHANGED <<req, pc, panicked>> /\ Abort
    BY <1>5, CallPositions DEF RefuseInbound, OpenInv
  <2> QED  BY <2>1, LeaveOpen, Numbers DEF Abort, AbortIndex
<1>6. CASE DecryptPanics \/ HandlerPanics
  <2>1. PICK w \in {"raw", "buffer"} : Panic(w) /\ w = writer'
    BY <1>6 DEF DecryptPanics, HandlerPanics, Panic, TypeOK
  <2>2. index \in 6..8 /\ req.route \in {"api", "mobile", "public"}
    BY <1>6, CallPositions DEF DecryptPanics, HandlerPanics, Guarded
  <2>3. index <= Len(Chain(req.route)) /\ pc = "running"
    BY <1>6 DEF DecryptPanics, HandlerPanics, Calls
  <2>4. /\ open' = {} /\ index' = index + 1 /\ panicked' /\ UNCHANGED req
        /\ pc' = pc \/ (panicked /\ pc' = "lost")
    BY <2>1, <2>2, <2>3, PanicFacts
  <2>5. panicked => Guarded
    BY <2>3, Numbers DEF PanicInv, Past
  <2> QED  BY <2>2, <2>3, <2>4, <2>5 DEF OpenInv, Guarded
<1>7. CASE Handler
  <2>1. Calls("Handler") /\ Return /\ UNCHANGED <<req, pc, panicked>>
    BY <1>7 DEF Handler
  <2>2. index = Len(Chain(req.route)) /\ pc = "running"
    BY <2>1, CallPositions DEF Calls
  <2>3. CASE ~panicked
    BY <2>1, <2>2, <2>3, LeaveOpen, Numbers DEF Return
  <2>4. CASE panicked
    BY <2>1, <2>2, <2>4, Numbers DEF Return, OpenInv
  <2> QED  BY <2>3, <2>4
<1>8. CASE ResumePassThrough \/ WriteLog \/ EncryptOutbound \/ EncryptFails
  <2>1. PICK i \in open : Resumes(i) /\ open' = open \ {i}
    BY <1>8 DEF ResumePassThrough, WriteLog, EncryptOutbound, EncryptFails, ResumeSecurity
  <2>2. UNCHANGED <<req, index, pc, panicked>>
    BY <1>8 DEF ResumePassThrough, WriteLog, EncryptOutbound, EncryptFails, ResumeSecurity
  <2> QED  BY <2>1, <2>2, ResumeOpen
<1>9. CASE Finish
  BY <1>9 DEF Finish, OpenInv, Past
<1>10. CASE UNCHANGED vars
  BY <1>10 DEF vars, OpenInv, Past, Guarded
<1> QED  BY <1>1, <1>2, <1>3, <1>4, <1>5, <1>6, <1>7, <1>8, <1>9, <1>10 DEF Next

(* What each operation leaves in the response, field by field.              *)
LEMMA RespondFacts ==
    ASSUME TypeOK, NEW w, NEW s \in Nat \ {0}, NEW k \in Kinds, Respond(w, s, k)
    PROVE  /\ raw'.id = raw.id /\ raw'.allow = raw.allow
           /\ raw'.status = IF raw.committed THEN raw.status ELSE s
           /\ w = "raw" => /\ raw'.committed
                           /\ raw'.body = Append(raw.body, Bare(k))
                           /\ buffer' = buffer
           /\ w # "raw" => /\ raw'.committed = raw.committed
                           /\ raw'.body = raw.body
                           /\ buffer' = Append(buffer, k)
<1>1. raw \in Responses /\ Bare(k) \in Messages
  BY BareFacts DEF TypeOK
<1>2. CASE w = "raw"
  BY <1>1, <1>2, SentFacts DEF Respond
<1>3. CASE w # "raw"
  BY <1>1, <1>3, WithStatusFacts DEF Respond
<1> QED  BY <1>2, <1>3

(* abortError, whichever status it is given.                                *)
LEMMA RefuseFacts ==
    ASSUME TypeOK, NEW s \in Nat \ {0}, Refuse(s)
    PROVE  /\ raw'.id = raw.id /\ raw'.allow = raw.allow
           /\ raw'.status = IF raw.committed THEN raw.status ELSE s
           /\ raw'.committed /\ raw'.body = Append(raw.body, Bare("refusal"))
<1>1. raw \in Responses /\ Bare("refusal") \in Messages
  BY BareFacts DEF TypeOK, Kinds
<1> QED  BY <1>1, SentFacts DEF Refuse

(* What encryptOutbound sends.                                              *)
LEMMA EncryptFacts ==
    ASSUME TypeOK, EncryptOutbound
    PROVE  /\ raw'.id = raw.id /\ raw'.allow = raw.allow
           /\ buffer # <<>> => /\ raw'.committed
                               /\ raw'.body = Append(raw.body, Wrapped)
<1>1. raw \in Responses /\ Wrapped \in Messages
  BY DEF TypeOK, Wrapped, Messages, Kinds
<1>2. raw' = IF buffer = <<>> THEN raw ELSE Sent(raw, 200, Wrapped)
  BY DEF EncryptOutbound
<1> QED  BY <1>1, <1>2, SentFacts

(* What gin still sends when the chain is done.                             *)
LEMMA FinishFacts ==
    ASSUME TypeOK, Finish
    PROVE  /\ raw'.id = raw.id /\ raw'.allow = raw.allow /\ raw'.committed
           /\ raw.committed => raw' = raw
           /\ raw'.status = IF ~raw.committed /\ req.route = "none" THEN 404
                            ELSE raw.status
           /\ raw'.body = IF ~raw.committed /\ req.route = "none"
                          THEN Append(raw.body, Bare("not_found")) ELSE raw.body
<1>1. raw \in Responses /\ Bare("not_found") \in Messages
  BY BareFacts DEF TypeOK, Kinds
<1>2. CASE raw.committed
  BY <1>2 DEF Finish
<1>3. CASE ~raw.committed /\ req.route = "none"
  <2> DEFINE w == Sent(raw, 404, Bare("not_found"))
  <2>1. raw' = w
    BY <1>3 DEF Finish
  <2>2. 404 \in Nat \ {0}
    OBVIOUS
  <2>3. /\ w.id = raw.id /\ w.allow = raw.allow /\ w.committed
        /\ w.status = IF raw.committed THEN raw.status ELSE 404
        /\ w.body = Append(raw.body, Bare("not_found"))
    BY <1>1, <2>2, SentFacts
  <2> HIDE DEF w
  <2> QED  BY <1>3, <2>1, <2>3
<1>4. CASE ~raw.committed /\ req.route # "none"
  <2>1. raw' = [raw EXCEPT !.committed = TRUE]
    BY <1>4 DEF Finish
  <2> QED  BY <1>1, <1>4, <2>1 DEF Responses
<1> QED  BY <1>2, <1>3, <1>4

(* The two ways out of CORS.                                                *)
LEMMA CORSFacts ==
    ASSUME TypeOK, CORS
    PROVE  /\ raw'.id = raw.id /\ raw'.allow = AllowFor(req.origin)
           /\ raw'.body = raw.body
           /\ req.route = "preflight" => Abort /\ raw'.committed
           /\ req.route # "preflight" => /\ CallNext
                                         /\ raw'.committed = raw.committed
                                         /\ raw'.status = raw.status
<1> DEFINE w == [raw EXCEPT !.allow = AllowFor(req.origin)]
<1>1. /\ w \in Responses /\ w.id = raw.id /\ w.allow = AllowFor(req.origin)
      /\ w.body = raw.body /\ w.committed = raw.committed /\ w.status = raw.status
  BY AllowFacts DEF TypeOK, Responses
<1>2. \/ req.route = "preflight" /\ Abort
         /\ raw' = [WithStatus(w, 204) EXCEPT !.committed = TRUE]
      \/ req.route # "preflight" /\ CallNext /\ raw' = w
  BY DEF CORS
<1> HIDE DEF w
<1>3. [WithStatus(w, 204) EXCEPT !.committed = TRUE].committed
      /\ [WithStatus(w, 204) EXCEPT !.committed = TRUE].id = w.id
      /\ [WithStatus(w, 204) EXCEPT !.committed = TRUE].allow = w.allow
      /\ [WithStatus(w, 204) EXCEPT !.committed = TRUE].body = w.body
  BY <1>1, WithStatusFacts DEF Responses
<1> QED  BY <1>1, <1>2, <1>3

(* The panics, with the positions they can happen at.                       *)
LEMMA PanicSteps ==
    ASSUME TypeOK, OpenInv, DecryptPanics \/ HandlerPanics
    PROVE  /\ index \in 6..8 /\ index <= Len(Chain(req.route)) /\ pc = "running"
           /\ req.route \in {"api", "mobile", "public"}
           /\ req.route = "public" => index = Len(Chain(req.route))
           /\ open' = {} /\ index' = index + 1 /\ panicked'
           /\ UNCHANGED <<req, cors, session, log, saw, said>>
           /\ raw'.id = raw.id /\ raw'.allow = raw.allow
           /\ \/ panicked /\ pc' = "lost" /\ raw' = raw /\ buffer' = buffer
              \/ ~panicked /\ pc' = pc /\ Respond(writer', 500, "problem")
           /\ DecryptPanics => writer' = "buffer" /\ req.body = "short_iv" /\ Guarded
           /\ HandlerPanics => writer' = writer /\ Calls("Handler")
<1>1. PICK w \in {"raw", "buffer"} : Panic(w) /\ w = writer'
  BY DEF DecryptPanics, HandlerPanics, Panic, TypeOK
<1>2. /\ index \in 6..8 /\ req.route \in {"api", "mobile", "public"}
      /\ req.route = "public" => index = Len(Chain(req.route))
  <2>1. CASE DecryptPanics
    BY <2>1, CallPositions DEF DecryptPanics, Guarded
  <2>2. CASE HandlerPanics
    BY <2>2, CallPositions DEF HandlerPanics
  <2> QED  BY <2>1, <2>2
<1>3. index <= Len(Chain(req.route)) /\ pc = "running"
  BY DEF DecryptPanics, HandlerPanics, Calls
<1>4. /\ open' = {} /\ index' = index + 1 /\ panicked'
      /\ UNCHANGED <<req, cors, session, log, saw, said>>
      /\ \/ panicked /\ pc' = "lost" /\ raw' = raw /\ buffer' = buffer
         \/ ~panicked /\ pc' = pc /\ Respond(writer', 500, "problem")
  BY <1>1, <1>2, <1>3, PanicFacts DEF Respond
<1>5. raw'.id = raw.id /\ raw'.allow = raw.allow
  <2>1. "problem" \in Kinds
    BY DEF Kinds
  <2>2. CASE raw' = raw
    BY <2>2
  <2>3. CASE Respond(w, 500, "problem")
    <3>1. 500 \in Nat \ {0}
      OBVIOUS
    <3> QED  BY <2>1, <2>3, <3>1, RespondFacts
  <2> QED  BY <1>1, <1>4, <2>2, <2>3
<1>6. DecryptPanics => writer' = "buffer" /\ req.body = "short_iv" /\ Guarded
  BY CallPositions DEF DecryptPanics, Panic
<1>7. HandlerPanics => writer' = writer /\ Calls("Handler")
  BY DEF HandlerPanics, Panic
<1> QED  BY <1>2, <1>3, <1>4, <1>5, <1>6, <1>7

(* A handler that answers, through either writer.                           *)
LEMMA HandlerFacts ==
    ASSUME TypeOK, OpenInv, Handler
    PROVE  /\ index = Len(Chain(req.route)) /\ index' = index + 1 /\ pc = "running"
           /\ req.route \in {"api", "mobile", "public"} /\ index \in 6..8
           /\ index = 6 <=> req.route = "public"
           /\ UNCHANGED <<req, cors, open, pc, writer, session, log, panicked>>
           /\ raw'.id = raw.id /\ raw'.allow = raw.allow
           /\ writer = "raw" => /\ raw'.committed /\ buffer' = buffer
                                /\ raw'.body = Append(raw.body, Bare("answer"))
           /\ writer # "raw" => /\ raw'.committed = raw.committed
                                /\ raw'.body = raw.body
                                /\ buffer' = Append(buffer, "answer")
<1>1. PICK t \in Statuses : Respond(writer, t, "answer")
  BY DEF Handler
<1>2. t \in Nat \ {0} /\ "answer" \in Kinds
  BY StatusesAssumption DEF Kinds
<1>3. Calls("Handler")
  BY DEF Handler
<1>4. /\ index = Len(Chain(req.route)) /\ pc = "running" /\ index \in 6..8
      /\ req.route \in {"api", "mobile", "public"}
      /\ index = 6 <=> req.route = "public"
  BY <1>3, CallPositions
<1>5. /\ index' = index + 1
      /\ UNCHANGED <<req, cors, open, pc, writer, session, log, panicked>>
  BY DEF Handler, Return
<1> QED  BY <1>1, <1>2, <1>4, <1>5, RespondFacts

(* Headers and the access log.                                              *)
LEMMA HeadersStep ==
    ASSUME IInv, [Next]_vars
    PROVE  HeadersInv'
<1> USE DEF IInv
<1> DEFINE L == Len(Chain(req.route))
<1>0. /\ index \in Nat \ {0} /\ L \in Nat /\ 5 <= L /\ L <= 8
      /\ panicked \in BOOLEAN /\ req.route \in Routes
  BY Numbers
<1>a. ASSUME UNCHANGED <<req, cors>>
      PROVE  AllowFor(req.origin)' = AllowFor(req.origin)
  BY <1>a DEF AllowFor, IsOriginAllowed
(* A step before the end of the chain and without a panic has not logged.   *)
<1>b. ASSUME ~panicked, ~Past, UNCHANGED <<req, log, panicked>>,
             open' = open \/ open' = open \cup {index}, index' \in Nat,
             index' = index + 1 \/ index > 2
      PROVE  log' = IF panicked' \/ ~Past' \/ 2 \in open' THEN <<>>
                    ELSE <<[status |-> raw'.status, id |-> TRUE]>>
  <2>1. log' = <<>>
    BY <1>b DEF HeadersInv
  <2>2. PICK k \in 0..L : open = 1..k /\ k = index - 1
    BY <1>b DEF OpenInv
  <2>3. index > 2 => 2 \in open'
    BY <1>0, <1>b, <2>2
  <2>4. index <= 2 => ~Past'
    BY <1>0, <1>b DEF Past
  <2> QED  BY <1>0, <2>1, <2>3, <2>4
<1>1. CASE PassThrough
  <2>1. /\ index' = index + 1 /\ open' = open \cup {index}
        /\ UNCHANGED <<req, cors, raw, log, panicked>>
    BY <1>1 DEF PassThrough, CallNext
  <2>2. (index \in {1, 2, 4} \/ index = 7) /\ ~Past
    BY <1>0, <1>1, CallPositions DEF PassThrough, Past
  <2>3. CASE ~panicked
    BY <1>0, <1>a, <1>b, <2>1, <2>2, <2>3 DEF HeadersInv
  <2>4. CASE panicked
    BY <1>0, <1>a, <2>1, <2>2, <2>4 DEF HeadersInv
  <2> QED  BY <1>0, <2>3, <2>4
<1>2. CASE RequestID
  <2>1. /\ index = 3 /\ index' = 4 /\ open' = open \cup {index} /\ ~Past
        /\ UNCHANGED <<req, cors, log, panicked>> /\ ~panicked
    BY <1>0, <1>2, CallPositions DEF RequestID, CallNext, Past, OpenInv
  <2>2. raw'.id /\ raw'.allow = raw.allow
    BY <1>2 DEF RequestID, TypeOK, Responses
  <2> QED  BY <1>0, <1>a, <1>b, <2>1, <2>2 DEF HeadersInv
<1>3. CASE CORS
  <2>1. /\ index = 5 /\ ~Past /\ UNCHANGED <<req, cors, log, panicked>> /\ ~panicked
    BY <1>0, <1>3, CallPositions DEF CORS, Past, OpenInv
  <2>2. /\ index' \in Nat /\ index' > 5
        /\ open' = open \/ open' = open \cup {index}
    BY <1>3, <2>1, CORSFacts DEF CallNext, Abort, AbortIndex
  <2>3. raw'.id = raw.id /\ raw'.allow = AllowFor(req.origin)
    BY <1>3, CORSFacts
  <2> QED  BY <1>0, <1>a, <1>b, <2>1, <2>2, <2>3 DEF HeadersInv
<1>4. CASE Admit \/ RefuseInbound
  <2>1. /\ index = 6 /\ ~Past /\ UNCHANGED <<req, cors, log, panicked>> /\ ~panicked
    BY <1>0, <1>4, CallPositions DEF Admit, RefuseInbound, Past, OpenInv
  <2>2. /\ index' \in Nat /\ index' > 6
        /\ open' = open \/ open' = open \cup {index}
    BY <1>4, <2>1 DEF Admit, RefuseInbound, CallNext, Abort, AbortIndex
  <2>3. raw'.id = raw.id /\ raw'.allow = raw.allow
    BY <1>4, RefuseFacts DEF Admit, RefuseInbound
  <2> QED  BY <1>0, <1>a, <1>b, <2>1, <2>2, <2>3 DEF HeadersInv
<1>5. CASE DecryptPanics \/ HandlerPanics
  <2>1. /\ index > 5 /\ index' > 5 /\ index' \in Nat /\ panicked' /\ raw'.id = raw.id
        /\ raw'.allow = raw.allow /\ UNCHANGED <<req, cors, log>> /\ ~Past
    <3>1. /\ index \in 6..8 /\ index <= L /\ index' = index + 1
          /\ panicked' /\ raw'.id = raw.id
          /\ raw'.allow = raw.allow /\ UNCHANGED <<req, cors, log>>
      BY <1>5, PanicSteps
    <3>2. index > 5 /\ index' > 5 /\ index' \in Nat
      BY <3>1
    <3>3. ~Past
      BY <1>0, <3>1 DEF Past
    <3> QED  BY <3>1, <3>2, <3>3
  <2> QED  BY <1>0, <1>a, <2>1 DEF HeadersInv
<1>6. CASE Handler
  <2>1. /\ index > 5 /\ index' = index + 1 /\ raw'.id = raw.id
        /\ raw'.allow = raw.allow /\ UNCHANGED <<req, cors, log, open, panicked>> /\ ~Past
    BY <1>0, <1>6, HandlerFacts DEF Past
  <2>2. CASE ~panicked
    BY <1>0, <1>a, <1>b, <2>1, <2>2 DEF HeadersInv
  <2>3. CASE panicked
    BY <1>0, <1>a, <2>1, <2>3 DEF HeadersInv
  <2> QED  BY <1>0, <2>2, <2>3
<1>7. CASE ResumePassThrough
  <2>1. PICK i \in open : Resumes(i) /\ open' = open \ {i} /\ i # 2
    BY <1>7, OpenPositions DEF ResumePassThrough
  <2>2. UNCHANGED <<req, cors, index, pc, raw, log, panicked>>
    BY <1>7 DEF ResumePassThrough
  <2>3. Past /\ Past' /\ (2 \in open' <=> 2 \in open)
    BY <2>1, <2>2, ResumeOpen
  <2> QED  BY <1>a, <2>2, <2>3 DEF HeadersInv
<1>8. CASE WriteLog
  <2>1. PICK i \in open : Resumes(i) /\ open' = open \ {i} /\ i = 2
    BY <1>8, OpenPositions DEF WriteLog
  <2>2. UNCHANGED <<req, cors, index, pc, raw, panicked>>
    BY <1>8 DEF WriteLog
  <2>3. log' = Append(log, [status |-> raw.status, id |-> raw.id])
    BY <1>8 DEF WriteLog
  <2>4. Past /\ Past' /\ 2 \notin open' /\ 2 \in open /\ ~panicked
    BY <1>0, <2>1, <2>2, ResumeOpen
  <2>5. log = <<>> /\ raw.id = TRUE
    BY <1>0, <2>4 DEF HeadersInv, Past, TypeOK, Responses
  <2>6. log' = <<[status |-> raw.status, id |-> TRUE]>>
    <3>1. Append(<<>>, [status |-> raw.status, id |-> TRUE])
          = <<[status |-> raw.status, id |-> TRUE]>>
      OBVIOUS
    <3> QED  BY <2>3, <2>5, <3>1
  <2> QED  BY <1>0, <1>a, <2>2, <2>4, <2>6 DEF HeadersInv
<1>9. CASE EncryptOutbound \/ EncryptFails
  <2>1. PICK i \in open : Resumes(i) /\ open' = open \ {i} /\ i = 6
    BY <1>9, OpenPositions DEF EncryptOutbound, EncryptFails, ResumeSecurity
  <2>2. UNCHANGED <<req, cors, index, pc, log, panicked>>
    BY <1>9 DEF EncryptOutbound, EncryptFails, ResumeSecurity
  <2>3. raw'.id = raw.id /\ raw'.allow = raw.allow
    BY <1>9, EncryptFacts, RefuseFacts DEF EncryptFails
  <2>4. Past /\ 2 \in open' /\ 2 \in open
    BY <1>0, <2>1, <2>2, ResumeOpen
  <2> QED  BY <1>a, <2>2, <2>3, <2>4 DEF HeadersInv
<1>10. CASE Finish
  <2>1. /\ UNCHANGED <<req, cors, index, open, log, panicked>> /\ Past /\ Past'
        /\ open = {} /\ pc = "running"
    BY <1>10 DEF Finish, Past
  <2>2. raw'.id = raw.id /\ raw'.allow = raw.allow
    BY <1>10, FinishFacts
  <2>3. ~panicked => raw'.status = raw.status
    BY <1>10, <2>1, FinishFacts DEF OutboundInv
  <2> QED  BY <1>0, <1>a, <2>1, <2>2, <2>3 DEF HeadersInv
<1>11. CASE UNCHANGED vars
  BY <1>a, <1>11 DEF vars, HeadersInv, Past
<1> QED
  BY <1>1, <1>2, <1>3, <1>4, <1>5, <1>6, <1>7, <1>8, <1>9, <1>10, <1>11 DEF Next

(* Which steps cross the end of the chain.                                  *)
LEMMA Crossing ==
    ASSUME IInv, Next
    PROVE  /\ PassThrough => ~Past'
           /\ RequestID => ~Past'
           /\ Admit => ~Past'
           /\ CORS => (Past' <=> req.route \in {"none", "preflight"})
           /\ RefuseInbound => Past'
           /\ Handler => Past'
           /\ (ResumePassThrough \/ WriteLog \/ EncryptOutbound \/ EncryptFails \/ Finish)
                => Past /\ Past'
<1> USE DEF IInv
<1> DEFINE L == Len(Chain(req.route))
<1>0. /\ index \in Nat \ {0} /\ L \in Nat /\ 5 <= L /\ L <= 8 /\ req.route \in Routes
  BY Numbers
<1>1. /\ req.route = "api" => L = 7
      /\ req.route = "mobile" => L = 8
      /\ req.route = "public" => L = 6
      /\ req.route \in {"none", "preflight"} => L = 5
  BY <1>0, ChainShape
<1>a. ASSUME NEW n \in Nat, index' = n, UNCHANGED req
      PROVE  Past' <=> n > L
  BY <1>a DEF Past
<1>b. ASSUME NEW n \in Nat, NEW i \in Nat
      PROVE  /\ n \in {7, 8} => ~(7 > n)
             /\ n \in {6, 7, 8} => ~(6 > n)
             /\ n = 8 /\ i = 7 => i + 1 \in Nat /\ ~(i + 1 > n)
  OBVIOUS
<1>2. ASSUME PassThrough PROVE ~Past'
  <2>1. index \in {1, 2, 4} \/ (index = 7 /\ req.route = "mobile")
    <3>1. PICK h \in {"Recoverer", "RequestLogger", "Locale", "ClientMarker"} : Calls(h)
      BY <1>2 DEF PassThrough
    <3> QED  BY <3>1, CallPositions
  <2>2. index' = index + 1 /\ UNCHANGED req
    BY <1>2 DEF PassThrough, CallNext
  <2>3. index' \in Nat /\ ~(index' > L)
    <3>1. CASE index \in {1, 2, 4}
      BY <1>0, <2>2, <3>1
    <3>2. CASE index = 7 /\ req.route = "mobile"
      <4>1. L \in Nat /\ L = 8 /\ index \in Nat /\ index = 7
        BY <1>0, <1>1, <3>2
      <4>2. index + 1 \in Nat /\ ~(index + 1 > L)
        BY <1>b, <4>1
      <4> QED  BY <2>2, <4>2
    <3> QED  BY <2>1, <3>1, <3>2
  <2> QED  BY <1>0, <1>a, <2>2, <2>3
<1>3. ASSUME RequestID PROVE ~Past'
  BY <1>0, <1>3, CallPositions DEF RequestID, CallNext, Past
<1>4. ASSUME Admit PROVE ~Past'
  <2>1. index = 6 /\ Guarded
    BY <1>4, CallPositions DEF Admit
  <2>2. index' = 7 /\ UNCHANGED req
    BY <1>4, <2>1 DEF Admit, CallNext
  <2>3. 7 \in Nat /\ ~(7 > L)
    <3>1. L \in {7, 8}
      BY <1>1, <2>1 DEF Guarded
    <3> QED  BY <1>0, <1>b, <3>1
  <2> QED  BY <1>a, <2>2, <2>3
<1>5. ASSUME CORS PROVE Past' <=> req.route \in {"none", "preflight"}
  <2>1. index = 5 /\ UNCHANGED req
    BY <1>5, CallPositions DEF CORS
  <2>2. req.route = "preflight" => index' = 65
    BY <1>5, CORSFacts DEF Abort, AbortIndex
  <2>3. req.route # "preflight" => index' = 6
    BY <1>5, <2>1, CORSFacts DEF CallNext
  <2>4. CASE req.route = "preflight"
    BY <1>1, <1>a, <2>1, <2>2, <2>4
  <2>5. CASE req.route = "none"
    BY <1>1, <1>a, <2>1, <2>3, <2>5
  <2>6. CASE req.route \notin {"none", "preflight"}
    <3>1. 6 \in Nat /\ ~(6 > L)
      <4>1. L \in {6, 7, 8}
        BY <1>0, <1>1, <2>6 DEF Routes
      <4> QED  BY <1>0, <1>b, <4>1
    <3> QED  BY <1>a, <2>1, <2>3, <2>6, <3>1
  <2> QED  BY <2>4, <2>5, <2>6
<1>6. ASSUME RefuseInbound PROVE Past'
  BY <1>0, <1>6 DEF RefuseInbound, Abort, AbortIndex, Past
<1>7. ASSUME Handler PROVE Past'
  BY <1>0, <1>7, HandlerFacts DEF Past
<1>8. ASSUME ResumePassThrough \/ WriteLog \/ EncryptOutbound \/ EncryptFails \/ Finish
      PROVE  Past /\ Past'
  BY <1>8 DEF ResumePassThrough, WriteLog, EncryptOutbound, EncryptFails,
              ResumeSecurity, Resumes, Finish, Past
<1> QED  BY <1>2, <1>3, <1>4, <1>5, <1>6, <1>7, <1>8

(* Inbound.                                                                 *)
LEMMA InboundStep ==
    ASSUME IInv, [Next]_vars
    PROVE  InboundInv'
<1> USE DEF IInv
<1> DEFINE L == Len(Chain(req.route))
<1>0. /\ index \in Nat \ {0} /\ L \in Nat /\ 5 <= L /\ L <= 8 /\ req.route \in Routes
  BY Numbers
<1>1. CASE PassThrough
  <2>1. /\ index' = index + 1 /\ ~Past /\ (index \in {1, 2, 4} \/ index = 7)
        /\ UNCHANGED <<req, raw, buffer, saw, writer, session, panicked>>
    BY <1>0, <1>1, CallPositions DEF PassThrough, CallNext, Past
  <2>2. (req.route = "preflight" /\ ~Past') => index' <= 5
    <3>1. req.route = "preflight" => L = 5
      BY <1>0, ChainShape
    <3>2. index' \in Nat /\ L \in Nat
      BY <1>0, <2>1
    <3>3. ~Past' <=> ~(index' > L)
      BY <2>1, <3>2 DEF Past
    <3>4. \A i, n \in Nat : n = 5 /\ ~(i > n) => i <= 5
      OBVIOUS
    <3> QED  BY <3>1, <3>2, <3>3, <3>4
  <2> QED  BY <1>0, <2>1, <2>2 DEF InboundInv, Guarded
<1>2. CASE RequestID
  <2>1. /\ index' = 4 /\ index = 3 /\ ~Past
        /\ UNCHANGED <<req, buffer, saw, writer, session, panicked>>
    BY <1>0, <1>2, CallPositions DEF RequestID, CallNext, Past
  <2>2. /\ raw'.committed = raw.committed /\ raw'.body = raw.body
        /\ raw'.status = raw.status
    BY <1>2 DEF RequestID, TypeOK, Responses
  <2> QED  BY <2>1, <2>2 DEF InboundInv, Guarded
<1>3. CASE CORS
  <2>1. CASE req.route \in {"none", "preflight"}
    BY <1>3, <2>1, Crossing DEF Next, InboundInv
  <2>2. CASE req.route \notin {"none", "preflight"}
    <3>1. /\ index = 5 /\ index' = 6 /\ ~Past
          /\ UNCHANGED <<req, buffer, saw, writer, session, panicked>>
      BY <1>0, <1>3, <2>2, CallPositions, CORSFacts DEF CORS, CallNext, Past
    <3>2. raw'.committed = raw.committed /\ raw'.body = raw.body
      BY <1>3, <2>2, CORSFacts
    <3> QED  BY <2>2, <3>1, <3>2 DEF InboundInv, Guarded
  <2> QED  BY <2>1, <2>2
<1>4. CASE Admit
  <2>1. /\ index = 6 /\ index' = 7 /\ ~Past /\ Guarded
        /\ UNCHANGED <<req, raw, buffer, saw, panicked>>
    BY <1>0, <1>4, CallPositions DEF Admit, CallNext, Past
  <2>2. /\ writer' = "buffer" /\ req.body \in {"plain", "clear", "sealed"}
        /\ session' = IF req.body = "sealed" THEN "decrypted" ELSE session
    BY <1>4 DEF Admit
  <2>3. ~panicked => session = "as_sent"
    BY <2>1 DEF InboundInv
  <2> QED  BY <2>1, <2>2, <2>3 DEF InboundInv, Guarded
<1>5. CASE DecryptPanics \/ HandlerPanics
  BY <1>5, PanicSteps DEF InboundInv
<1>6. CASE RefuseInbound \/ Handler \/ ResumePassThrough \/ WriteLog
           \/ EncryptOutbound \/ EncryptFails \/ Finish
  <2>1. Past'
    BY <1>6, Crossing DEF Next
  <2> QED  BY <2>1 DEF InboundInv
<1>7. CASE UNCHANGED vars
  BY <1>7 DEF vars, InboundInv, Past, Guarded
<1> QED  BY <1>1, <1>2, <1>3, <1>4, <1>5, <1>6, <1>7, Crossing DEF Next

(* Outbound.                                                                *)
LEMMA OutboundStep ==
    ASSUME IInv, [Next]_vars
    PROVE  OutboundInv'
<1> USE DEF IInv
<1> DEFINE L == Len(Chain(req.route))
<1>0. /\ index \in Nat \ {0} /\ L \in Nat /\ 5 <= L /\ L <= 8 /\ req.route \in Routes
      /\ panicked \in BOOLEAN
  BY Numbers
<1>1. CASE PassThrough \/ RequestID \/ Admit
  BY <1>1, Crossing DEF Next, OutboundInv
<1>2. CASE CORS
  <2>1. /\ index = 5 /\ ~Past /\ UNCHANGED <<req, pc, buffer, saw, panicked>>
        /\ ~panicked /\ pc = "running"
    BY <1>0, <1>2, CallPositions DEF CORS, Past, OpenInv
  <2>2. raw.body = <<>> /\ ~raw.committed /\ (req.route = "none" => raw.status = 404)
    BY <2>1 DEF InboundInv
  <2>3. CASE req.route \notin {"none", "preflight"}
    BY <1>2, <2>3, Crossing DEF OutboundInv, Next
  <2>4. CASE req.route \in {"none", "preflight"}
    BY <1>2, <2>1, <2>2, <2>4, CORSFacts DEF OutboundInv, Guarded
  <2> QED  BY <2>3, <2>4
<1>3. CASE RefuseInbound
  <2>1. /\ index = 6 /\ ~Past /\ Guarded /\ req.body = "refused"
        /\ UNCHANGED <<req, pc, open, saw, panicked>> /\ Refuse(400) /\ ~panicked
    BY <1>0, <1>3, CallPositions DEF RefuseInbound, Abort, Past, OpenInv
  <2>2. raw.body = <<>> /\ ~raw.committed /\ saw = "nothing"
    BY <2>1 DEF InboundInv
  <2>3. 6 \notin open
    BY <1>0, <2>1 DEF OpenInv
  <2>4. raw'.committed /\ raw'.status = 400 /\ raw'.body = <<Bare("refusal")>>
    <3>1. Append(<<>>, Bare("refusal")) = <<Bare("refusal")>>
      OBVIOUS
    <3>2. 400 \in Nat \ {0}
      OBVIOUS
    <3> QED  BY <2>1, <2>2, <3>1, <3>2, RefuseFacts
  <2> QED  BY <2>1, <2>2, <2>3, <2>4 DEF OutboundInv, Guarded
<1>4. CASE DecryptPanics \/ HandlerPanics
  BY <1>4, PanicSteps DEF OutboundInv
<1>5. CASE Handler
  <2>1. /\ index = L /\ index' = index + 1 /\ ~Past /\ pc = "running"
        /\ req.route \in {"api", "mobile", "public"} /\ index \in 6..8
        /\ ((index = 6) <=> (req.route = "public"))
        /\ UNCHANGED <<req, open, pc, writer, session, panicked>>
    BY <1>0, <1>5, HandlerFacts DEF Past
  <2>2. CASE panicked
    BY <2>1, <2>2 DEF OutboundInv
  <2>3. CASE ~panicked /\ req.route = "public"
    <3>1. writer = "raw" /\ raw.body = <<>>
      BY <2>1, <2>3 DEF InboundInv, Guarded
    <3>2. raw'.committed /\ raw'.body = Append(<<>>, Bare("answer"))
      BY <1>5, <3>1, HandlerFacts
    <3>3. raw'.body = <<Bare("answer")>>
      BY <3>2
    <3> QED  BY <2>1, <2>3, <3>2, <3>3 DEF OutboundInv, Guarded
  <2>4. CASE ~panicked /\ Guarded
    <3>1. index > 6 /\ index \in Nat
      <4>1. index # 6
        BY <2>1, <2>4 DEF Guarded
      <4>2. \A i \in 6..8 : i # 6 => i > 6 /\ i \in Nat
        OBVIOUS
      <4> QED  BY <2>1, <4>1, <4>2
    <3>2. /\ writer = "buffer" /\ raw.body = <<>> /\ ~raw.committed /\ buffer = <<>>
          /\ req.body \notin {"refused", "short_iv"}
          /\ (session = "decrypted") <=> (req.body = "sealed")
      BY <2>1, <2>4, <3>1 DEF InboundInv
    <3>3. ~raw'.committed /\ raw'.body = <<>> /\ buffer' = Append(<<>>, "answer")
      BY <1>5, <3>2, HandlerFacts
    <3>4. buffer' = <<"answer">>
      BY <3>3
    <3>5. 6 \in open'
      BY <1>0, <2>1, <2>4, <3>1 DEF OpenInv
    <3> QED  BY <2>1, <2>4, <3>2, <3>3, <3>4, <3>5 DEF OutboundInv, Guarded
  <2> QED  BY <1>0, <2>1, <2>2, <2>3, <2>4 DEF Guarded
<1>6. CASE ResumePassThrough \/ WriteLog
  <2>1. PICK i \in open : open' = open \ {i} /\ (Guarded => i # 6)
    BY <1>6, OpenPositions DEF ResumePassThrough, WriteLog
  <2>2. Past /\ UNCHANGED <<req, pc, raw, buffer, session, saw, panicked>>
    BY <1>6, Crossing DEF ResumePassThrough, WriteLog, Next
  <2>3. Guarded => (6 \in open' <=> 6 \in open)
    BY <2>1
  <2> QED  BY <2>2, <2>3 DEF OutboundInv, Guarded
<1>7. CASE EncryptOutbound \/ EncryptFails
  <2>1. PICK i \in open : Resumes(i) /\ open' = open \ {i} /\ i = 6 /\ Guarded
    BY <1>7, OpenPositions DEF EncryptOutbound, EncryptFails, ResumeSecurity
  <2>2. UNCHANGED <<req, pc, buffer, session, saw, panicked>> /\ Past /\ ~panicked
    BY <1>0, <1>7, <2>1, Crossing, OpenPositions
    DEF EncryptOutbound, EncryptFails, ResumeSecurity, Next
  <2>3. /\ ~raw.committed /\ raw.body = <<>> /\ buffer = <<"answer">>
        /\ req.body \notin {"short_iv", "refused"}
        /\ (session = "decrypted") <=> (req.body = "sealed")
    BY <2>1, <2>2 DEF OutboundInv
  <2>4. CASE EncryptOutbound
    <3>1. buffer # <<>>
      BY <2>3
    <3>2. raw'.committed /\ raw'.body = Append(<<>>, Wrapped)
      BY <2>3, <2>4, <3>1, EncryptFacts
    <3>3. Wrapped = [kind |-> "envelope", data |-> <<"answer">>,
                     sealed |-> req.body = "sealed"]
      BY <2>3 DEF Wrapped
    <3>4. raw'.body = <<[kind |-> "envelope", data |-> <<"answer">>,
                         sealed |-> req.body = "sealed"]>>
      BY <3>2, <3>3
    <3> QED  BY <2>1, <2>2, <2>3, <3>2, <3>4 DEF OutboundInv, Guarded
  <2>5. CASE EncryptFails
    <3>1. 500 \in Nat \ {0}
      OBVIOUS
    <3>2. raw'.committed /\ raw'.body = Append(<<>>, Bare("refusal"))
      BY <2>3, <2>5, <3>1, RefuseFacts DEF EncryptFails
    <3>3. raw'.body = <<Bare("refusal")>>
      BY <3>2
    <3> QED  BY <2>1, <2>2, <2>3, <3>2, <3>3 DEF OutboundInv, Guarded
  <2> QED  BY <1>7, <2>4, <2>5
<1>8. CASE Finish
  <2>1. /\ UNCHANGED <<req, open, buffer, session, saw, panicked>> /\ Past
        /\ open = {} /\ pc = "running" /\ pc' = "done"
    BY <1>8 DEF Finish, Past
  <2>2. CASE panicked
    BY <2>1, <2>2 DEF OutboundInv
  <2>3. CASE ~panicked /\ req.route = "none"
    <3>1. raw.status = 404 /\ ~raw.committed /\ raw.body = <<>>
      BY <2>1, <2>3 DEF OutboundInv
    <3>2. raw'.status = 404 /\ raw'.body = Append(<<>>, Bare("not_found"))
      BY <1>8, <2>3, <3>1, FinishFacts
    <3>3. raw'.body = <<Bare("not_found")>>
      BY <3>2
    <3> QED  BY <2>1, <2>3, <3>2, <3>3 DEF OutboundInv, Guarded
  <2>4. CASE ~panicked /\ req.route # "none"
    <3>1. raw.committed
      BY <1>0, <2>1, <2>4 DEF OutboundInv, Guarded, Routes
    <3>2. raw' = raw
      BY <1>8, <3>1, FinishFacts
    <3> QED  BY <2>1, <2>4, <3>1, <3>2 DEF OutboundInv, Guarded
  <2> QED  BY <1>0, <2>2, <2>3, <2>4
<1>9. CASE UNCHANGED vars
  BY <1>9 DEF vars, OutboundInv, Past, Guarded
<1> QED
  BY <1>1, <1>2, <1>3, <1>4, <1>5, <1>6, <1>7, <1>8, <1>9 DEF Next

(* What Recoverer's Problem does, through the writer it finds.              *)
LEMMA ProblemFacts ==
    ASSUME TypeOK, Respond(writer', 500, "problem")
    PROVE  /\ writer' = "buffer" => raw'.body = raw.body
           /\ writer' = "raw" => /\ raw'.committed
                                 /\ raw'.status = IF raw.committed THEN raw.status
                                                  ELSE 500
                                 /\ raw'.body = Append(raw.body, Bare("problem"))
<1>1. raw \in Responses /\ Bare("problem") \in Messages
  BY BareFacts DEF TypeOK, Kinds
<1>2. 500 \in Nat \ {0}
  OBVIOUS
<1>3. CASE writer' = "raw"
  BY <1>1, <1>2, <1>3, SentFacts DEF Respond
<1>4. CASE writer' # "raw"
  BY <1>1, <1>2, <1>4, WithStatusFacts DEF Respond
<1> QED  BY <1>3, <1>4

(* After a panic.                                                           *)
LEMMA PanicStep ==
    ASSUME IInv, [Next]_vars
    PROVE  PanicInv'
<1> USE DEF IInv
<1> DEFINE L == Len(Chain(req.route))
<1>0. /\ index \in Nat \ {0} /\ L \in Nat /\ req.route \in Routes
      /\ panicked \in BOOLEAN
  BY Numbers
<1>1. CASE PassThrough
  <2>1. ~Past /\ UNCHANGED <<req, raw, writer, panicked>>
    BY <1>0, <1>1 DEF PassThrough, Calls, Past
  <2> QED  BY <2>1 DEF PanicInv, Guarded
<1>2. CASE RequestID \/ CORS \/ Admit \/ RefuseInbound
  <2>1. ~panicked /\ UNCHANGED panicked
    BY <1>0, <1>2, CallPositions DEF RequestID, CORS, Admit, RefuseInbound, OpenInv
  <2> QED  BY <2>1 DEF PanicInv
<1>3. CASE DecryptPanics \/ HandlerPanics
  <2>1. ~Past /\ index \in 6..8 /\ index <= L /\ UNCHANGED req
    BY <1>0, <1>3, PanicSteps DEF Past
  <2>2. CASE panicked
    <3>1. Guarded /\ req.body # "refused" /\ writer = "buffer" /\ raw.body = <<>>
      BY <2>1, <2>2 DEF PanicInv
    <3>2. raw' = raw /\ writer' = "buffer"
      BY <1>3, <2>2, <3>1, PanicSteps
    <3> QED  BY <2>1, <3>1, <3>2 DEF PanicInv, Guarded
  <2>3. CASE ~panicked /\ Guarded
    <3>1. raw.body = <<>>
      BY <2>1, <2>3 DEF InboundInv
    <3>2. req.body # "refused" /\ writer' = "buffer"
      <4>1. CASE DecryptPanics
        BY <4>1, PanicSteps
      <4>2. CASE HandlerPanics
        <5>1. Calls("Handler") /\ writer' = writer
          BY <4>2, PanicSteps
        <5>2. index # 6
          BY <2>3, <5>1, CallPositions DEF Guarded
        <5>3. \A i \in 6..8 : i # 6 => i > 6
          OBVIOUS
        <5>4. index > 6
          BY <2>1, <5>2, <5>3
        <5> QED  BY <2>1, <2>3, <5>1, <5>4 DEF InboundInv
      <4> QED  BY <1>3, <4>1, <4>2
    <3>3. Respond(writer', 500, "problem")
      BY <1>3, <2>3, PanicSteps
    <3>4. raw'.body = <<>>
      BY <3>1, <3>2, <3>3, ProblemFacts
    <3> QED  BY <2>1, <2>3, <3>2, <3>4 DEF PanicInv, Guarded
  <2>4. CASE ~panicked /\ ~Guarded
    <3>1. req.route = "public" /\ index = L /\ index' = index + 1
      BY <1>3, <2>4, PanicSteps DEF Guarded
    <3>2. writer' = "raw"
      <4>1. HandlerPanics /\ writer' = writer
        BY <1>3, <2>4, PanicSteps
      <4> QED  BY <2>1, <2>4, <4>1 DEF InboundInv
    <3>3. raw.body = <<>> /\ ~raw.committed
      BY <2>1, <2>4 DEF InboundInv
    <3>4. Respond(writer', 500, "problem")
      BY <1>3, <2>4, PanicSteps
    <3>5. raw'.committed /\ raw'.status = 500 /\ raw'.body = <<Bare("problem")>>
      <4>1. /\ raw'.committed /\ raw'.status = 500
            /\ raw'.body = Append(<<>>, Bare("problem"))
        BY <3>2, <3>3, <3>4, ProblemFacts
      <4>2. Append(<<>>, Bare("problem")) = <<Bare("problem")>>
        OBVIOUS
      <4> QED  BY <4>1, <4>2
    <3>6. Past'
      BY <1>0, <2>1, <3>1 DEF Past
    <3> QED  BY <2>1, <2>4, <3>5, <3>6 DEF PanicInv, Guarded
  <2> QED  BY <1>0, <2>2, <2>3, <2>4
<1>4. CASE Handler
  <2>1. ~Past /\ UNCHANGED <<req, writer, panicked>>
    BY <1>0, <1>4, HandlerFacts DEF Past
  <2>2. CASE panicked
    <3>1. Guarded /\ req.body # "refused" /\ writer = "buffer" /\ raw.body = <<>>
      BY <2>1, <2>2 DEF PanicInv
    <3>2. raw'.body = raw.body
      BY <1>4, <3>1, HandlerFacts
    <3> QED  BY <2>1, <3>1, <3>2 DEF PanicInv, Guarded
  <2> QED  BY <1>0, <2>1, <2>2 DEF PanicInv
<1>5. CASE ResumePassThrough
  <2>1. Past' /\ UNCHANGED <<req, raw, writer, panicked>>
    BY <1>5, Crossing DEF ResumePassThrough, Next
  <2> QED  BY <2>1 DEF PanicInv, Guarded
<1>6. CASE WriteLog \/ EncryptOutbound \/ EncryptFails
  <2>1. ~panicked /\ UNCHANGED panicked
    BY <1>0, <1>6, OpenPositions
    DEF WriteLog, EncryptOutbound, EncryptFails, ResumeSecurity
  <2> QED  BY <2>1 DEF PanicInv
<1>7. CASE Finish
  <2>1. Past' /\ UNCHANGED <<req, writer, panicked>>
    BY <1>7, Crossing DEF Finish, Next
  <2>2. CASE panicked /\ Guarded
    <3>1. raw'.body = raw.body
      BY <1>7, <2>2, FinishFacts DEF Guarded
    <3> QED  BY <2>1, <2>2, <3>1 DEF PanicInv, Guarded
  <2>3. CASE panicked /\ ~Guarded
    <3>1. raw' = raw
      BY <1>7, <2>3, FinishFacts DEF PanicInv
    <3> QED  BY <2>1, <2>3, <3>1 DEF PanicInv, Guarded
  <2> QED  BY <1>0, <2>1, <2>2, <2>3 DEF PanicInv
<1>8. CASE UNCHANGED vars
  BY <1>8 DEF vars, PanicInv, Past, Guarded
<1> QED
  BY <1>1, <1>2, <1>3, <1>4, <1>5, <1>6, <1>7, <1>8 DEF Next

-----------------------------------------------------------------------------
(* gin starts a request in a state the invariant admits.                    *)
LEMMA InitInv == Init => IInv
<1> SUFFICES ASSUME Init PROVE IInv
  OBVIOUS
<1>0. << >> \in Seq(Messages) /\ << >> \in Seq(Kinds)
      /\ << >> \in Seq([status : Nat, id : BOOLEAN])
  OBVIOUS
<1>1. /\ raw.status \in {200, 404} /\ ~raw.committed /\ raw.allow = NoOrigin
      /\ ~raw.id /\ raw.body = <<>>
      /\ req.route = "none" => raw.status = 404
  BY DEF Init
<1>2. raw \in Responses
  <2> DEFINE s == IF req.route \in {"none", "preflight"} THEN 404 ELSE 200
  <2>1. raw = [status |-> s, committed |-> FALSE, allow |-> NoOrigin,
               id |-> FALSE, body |-> <<>>]
    BY DEF Init
  <2>2. s \in Nat \ {0}
    OBVIOUS
  <2> HIDE DEF s
  <2> QED  BY <1>0, <2>1, <2>2 DEF Responses, Allows
<1>3. TypeOK
  <2>1. index \in 1..(AbortIndex + 1) /\ open \subseteq 1..8
    BY DEF Init, AbortIndex
  <2> QED  BY <1>0, <1>2, <2>1 DEF Init, TypeOK
<1>4. ~Past
  BY <1>3, Numbers DEF Init, Past
<1>5. OpenInv
  <2>1. 0 \in 0..Len(Chain(req.route))
    BY <1>3, Numbers
  <2>2. open = 1..0 /\ 0 = index - 1 /\ ~panicked /\ pc = "running"
    BY DEF Init
  <2> QED  BY <2>1, <2>2 DEF OpenInv
<1>6. HeadersInv
  BY <1>1, <1>4 DEF Init, HeadersInv
<1>7. InboundInv /\ OutboundInv /\ PanicInv
  BY <1>1, <1>4 DEF Init, InboundInv, OutboundInv, PanicInv
<1> QED  BY <1>3, <1>5, <1>6, <1>7 DEF IInv

(* In every request, whatever middleware it reaches, aborts in or panics in, *)
(* the open calls, headers, buffer and response are as the chain of          *)
(* newRouter leaves them.                                                    *)
THEOREM Invariance == Spec => []IInv
<1>1. IInv /\ [Next]_vars => IInv'
  BY TypeStep, OpenStep, HeadersStep, InboundStep, OutboundStep, PanicStep DEF IInv
<1> QED  BY InitInv, <1>1, PTL DEF Spec

(* security.Middleware: /api/v1 answers with one envelope around what the   *)
(* handler wrote, sealed as the request was, or with a refusal; public      *)
(* routes with neither.                                                     *)
THEOREM AnswersAreWrapped == Spec => []AnswersWrapped
<1>1. IInv => AnswersWrapped
  <2> SUFFICES ASSUME IInv PROVE AnswersWrapped
    OBVIOUS
  <2>0. panicked \in BOOLEAN /\ req.route \in Routes
    BY DEF IInv, TypeOK
  <2>1. \/ raw.body = <<>>
        \/ /\ Guarded
           /\ \/ raw.body = <<Bare("refusal")>>
              \/ raw.body = <<[kind |-> "envelope", data |-> <<"answer">>,
                               sealed |-> req.body = "sealed"]>>
        \/ /\ ~Guarded
           /\ raw.body \in {<<Bare("answer")>>, <<Bare("not_found")>>,
                            <<Bare("problem")>>}
    <3>1. CASE panicked
      BY <3>1 DEF IInv, PanicInv
    <3>2. CASE ~panicked /\ ~Past
      BY <3>2 DEF IInv, InboundInv
    <3>3. CASE ~panicked /\ Past
      BY <2>0, <3>3 DEF IInv, OutboundInv, Guarded, Routes
    <3> QED  BY <2>0, <3>1, <3>2, <3>3
  <2>2. ASSUME NEW m, raw.body = <<m>>
        PROVE  Len(raw.body) = 1 /\ \A n \in 1..Len(raw.body) : raw.body[n] = m
    BY <2>2
  <2>3. CASE raw.body = <<>>
    BY <2>3 DEF AnswersWrapped
  <2>4. CASE Guarded /\ raw.body = <<Bare("refusal")>>
    BY <2>2, <2>4 DEF AnswersWrapped, Bare
  <2>5. CASE Guarded /\ raw.body = <<[kind |-> "envelope", data |-> <<"answer">>,
                                      sealed |-> req.body = "sealed"]>>
    BY <2>2, <2>5 DEF AnswersWrapped
  <2>6. CASE ~Guarded /\ raw.body \in {<<Bare("answer")>>, <<Bare("not_found")>>,
                                       <<Bare("problem")>>}
    BY <2>2, <2>6 DEF AnswersWrapped, Bare
  <2> QED  BY <2>1, <2>3, <2>4, <2>5, <2>6
<1> QED  BY <1>1, Invariance, PTL

(* A body decryptInbound refuses never reaches a handler, also not on the   *)
(* routes of a subgroup; the client gets the refusal.                       *)
THEOREM RefusedStopped == Spec => []RefusedUntouched
<1>1. IInv => RefusedUntouched
  <2> SUFFICES ASSUME IInv, Guarded, req.body = "refused"
               PROVE  /\ saw = "nothing"
                      /\ pc = "done" => raw.status = 400 /\ raw.body = <<Bare("refusal")>>
    BY DEF RefusedUntouched
  <2>1. ~panicked
    BY DEF IInv, PanicInv
  <2>2. CASE Past
    BY <2>1, <2>2 DEF IInv, OutboundInv
  <2>3. CASE ~Past
    BY <2>1, <2>3 DEF IInv, InboundInv, OpenInv
  <2> QED  BY <2>2, <2>3
<1> QED  BY <1>1, Invariance, PTL

(* RequestLogger writes one line for every request that ran without a       *)
(* panic, with the status and the request id that were sent.                *)
THEOREM AccessIsLogged == Spec => []AccessLogged
<1>1. IInv => AccessLogged
  BY DEF IInv, AccessLogged, OpenInv, HeadersInv
<1> QED  BY <1>1, Invariance, PTL

(* CORS: every response, the one after a panic included, carries the header *)
(* of the policy and never the wildcard together with credentials.          *)
THEOREM OriginsCorrect == Spec => []OriginsAnswered
<1>1. IInv => OriginsAnswered
  <2> SUFFICES ASSUME IInv, pc = "done"
               PROVE  /\ (raw.allow # NoOrigin) <=> IsOriginAllowed(req.origin)
                      /\ raw.allow \in {NoOrigin, "*", req.origin}
                      /\ cors.credentials => raw.allow # "*"
    BY DEF OriginsAnswered
  <2>1. TypeOK /\ Past
    BY DEF IInv, OpenInv
  <2>2. index > 5
    BY <2>1, Numbers DEF Past
  <2>3. raw.allow = AllowFor(req.origin)
    BY <2>2 DEF IInv, HeadersInv
  <2> QED  BY <2>1, <2>3, AllowFacts
<1> QED  BY <1>1, Invariance, PTL

(* Recoverer: after a panic a public route answers with the uniform error   *)
(* alone, and /api/v1 sends no body.                                        *)
THEOREM PanicsContained == Spec => []PanicContained
<1>1. IInv => PanicContained
  <2> SUFFICES ASSUME IInv, panicked, pc # "running"
               PROVE  IF Guarded THEN raw.body = <<>>
                      ELSE /\ pc = "done" /\ raw.status = 500
                           /\ raw.body = <<Bare("problem")>>
    BY DEF PanicContained
  <2>1. pc \in {"done", "lost"} /\ (pc = "lost" => Guarded)
    BY DEF IInv, OpenInv, TypeOK
  <2> QED  BY <2>1 DEF IInv, PanicInv
<1> QED  BY <1>1, Invariance, PTL
=============================================================================
