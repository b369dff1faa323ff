------------------------------ MODULE Pipeline ------------------------------
(***************************************************************************)
(* internal/httpserver and internal/security: one request on its way       *)
(* through gin's handler chain.  gin keeps the chain and an index; Next     *)
(* runs chain[index], chain[index + 1], ... until the index has passed the *)
(* end, and a handler that calls Next has the rest of its code run after   *)
(* that.  Abort moves the index past every chain.  A panic drops the open  *)
(* calls down to Recoverer, which answers and does not abort.              *)
(***************************************************************************)
EXTENDS Integers, Sequences

CONSTANTS
    Origins,            \* values of the Origin header
    NoOrigin,           \* no Origin header
    Statuses            \* what a handler may answer with

ASSUME OriginsAssumption ==
    NoOrigin \notin Origins /\ "*" \notin Origins /\ NoOrigin # "*"

ASSUME StatusesAssumption == Statuses \subseteq Nat \ {0}

VARIABLES
    req,                \* route, Origin header and form of the body
    cors,               \* config.CORSConfig
    index,              \* gin.Context.index, counted from 1
    open,               \* positions of the handlers inside their Next call
    pc,
    writer,             \* c.Writer: gin's own, or the bufferWriter around it
    raw,                \* gin's writer: status, committed or not, headers, body
    buffer,             \* bufferWriter.body, write by write
    session,            \* c.Request.Body and Session: as sent, or decrypted
    log,                \* lines of the access log
    saw,                \* history: the body the handler ran on
    said,               \* history: the status the handler answered with
    panicked            \* history: something has panicked

vars == <<req, cors, index, open, pc, writer, raw, buffer, session, log,
          saw, said, panicked>>

(* A route of /api/v1, one of its client subgroup, a public one, or none.  *)
(* No route has the method OPTIONS, so a preflight has no route either.    *)
Routes == {"api", "mobile", "public", "none", "preflight"}

(* Not an envelope; an envelope that is not encrypted; one that decrypts;   *)
(* one that is refused (timestamp, nonce, key or ciphertext); one whose IV  *)
(* has not 12 bytes, on which AESDecrypt panics.                            *)
Bodies == {"plain", "clear", "sealed", "refused", "short_iv"}

NoStatus == 0

Bare(k) == [kind |-> k, data |-> <<>>, sealed |-> FALSE]

Kinds == {"answer", "problem", "refusal", "not_found", "envelope"}

Messages == [kind : Kinds, data : Seq(Kinds), sealed : BOOLEAN]

Policies == [origins : SUBSET Origins, all : BOOLEAN, credentials : BOOLEAN]

Allows == Origins \cup {NoOrigin, "*"}

Responses == [status : Nat \ {0}, committed : BOOLEAN, allow : Allows,
              id : BOOLEAN, body : Seq(Messages)]

EngineLoggerLast ==             \* Mutant: CORS outside the logger
    <<"Recoverer", "CORS", "RequestID", "Locale", "RequestLogger">>

(* newRouter: the middlewares of the engine, those of the group, and the    *)
(* handler.                                                                 *)
Engine == <<"Recoverer", "RequestLogger", "RequestID", "Locale", "CORS">>

GroupBare(route) ==             \* Mutant: the subgroup hangs on the engine
    CASE route = "api" -> <<"Security", "Handler">>
      [] route = "mobile" -> <<"ClientMarker", "Handler">>
      [] route = "public" -> <<"Handler">>
      [] OTHER -> <<>>

Group(route) ==
    CASE route = "api" -> <<"Security", "Handler">>
      [] route = "mobile" -> <<"Security", "ClientMarker", "Handler">>
      [] route = "public" -> <<"Handler">>
      [] OTHER -> <<>>

Chain(route) == Engine \o Group(route)

AbortIndex == 64

TypeOK ==
    /\ req \in [route : Routes, origin : Origins \cup {NoOrigin}, body : Bodies]
    /\ cors \in Policies
    /\ index \in 1..(AbortIndex + 1)
    /\ open \subseteq 1..8
    /\ pc \in {"running", "done", "lost"}
    /\ writer \in {"raw", "buffer"}
    /\ raw \in Responses
    /\ buffer \in Seq(Kinds)
    /\ session \in {"as_sent", "decrypted"}
    /\ log \in Seq([status : Nat, id : BOOLEAN])
    /\ saw \in {"nothing", "as_sent", "decrypted"}
    /\ said \in Statuses \cup {NoStatus}
    /\ panicked \in BOOLEAN

(* gin starts with status 200, and with 404 where it has found no route.   *)
Init ==
    /\ req \in [route : Routes, origin : Origins \cup {NoOrigin}, body : Bodies]
    /\ cors \in Policies
    /\ index = 1 /\ open = {} /\ pc = "running"
    /\ writer = "raw"
    /\ raw = [status |-> IF req.route \in {"none", "preflight"} THEN 404 ELSE 200,
              committed |-> FALSE, allow |-> NoOrigin, id |-> FALSE,
              body |-> <<>>]
    /\ buffer = <<>> /\ session = "as_sent" /\ log = <<>>
    /\ saw = "nothing" /\ said = NoStatus /\ panicked = FALSE

-----------------------------------------------------------------------------
(* gin's writer: a status that is on its way is not changed any more, and   *)
(* the first bytes of a body send status and headers.                       *)
WithStatus(w, s) == IF w.committed THEN w ELSE [w EXCEPT !.status = s]

Sent(w, s, m) ==
    [WithStatus(w, s) EXCEPT !.committed = TRUE, !.body = Append(@, m)]

(* c.JSON: the status goes through bufferWriter, the body stays in it.      *)
Respond(w, s, k) ==
    /\ raw' = IF w = "raw" THEN Sent(raw, s, Bare(k)) ELSE WithStatus(raw, s)
    /\ buffer' = IF w = "raw" THEN buffer ELSE Append(buffer, k)

(* abortError writes to the writer inside the bufferWriter.                 *)
Refuse(s) == raw' = Sent(raw, s, Bare("refusal"))

Calls(h) ==
    /\ pc = "running" /\ index <= Len(Chain(req.route))
    /\ Chain(req.route)[index] = h

(* The handler calls Next and waits for it, or returns to gin's loop.       *)
CallNext == open' = open \cup {index} /\ index' = index + 1

Return == index' = index + 1 /\ UNCHANGED open

Abort == index' = AbortIndex + 1 /\ UNCHANGED open

PassThrough ==
    /\ \E h \in {"Recoverer", "RequestLogger", "Locale", "ClientMarker"} : Calls(h)
    /\ CallNext
    /\ UNCHANGED <<req, cors, pc, writer, raw, buffer, session, log, saw, said,
                   panicked>>

RequestID ==
    /\ Calls("RequestID")
    /\ raw' = [raw EXCEPT !.id = TRUE]
    /\ CallNext
    /\ UNCHANGED <<req, cors, pc, writer, buffer, session, log, saw, said,
                   panicked>>

IsOriginAllowed(origin) ==
    origin # NoOrigin /\ (cors.all \/ origin \in cors.origins)

AllowWildcard(origin) ==        \* Mutant: the wildcard despite credentials
    IF ~IsOriginAllowed(origin) THEN NoOrigin
    ELSE IF cors.all THEN "*" ELSE origin

(* Access-Control-Allow-Origin; NoOrigin where CORS sets no header.         *)
AllowFor(origin) ==
    IF ~IsOriginAllowed(origin) THEN NoOrigin
    ELSE IF cors.all /\ ~cors.credentials THEN "*" ELSE origin

CORS ==
    /\ Calls("CORS")
    /\ LET w == [raw EXCEPT !.allow = AllowFor(req.origin)] IN
       \/ /\ req.route = "preflight"
          /\ raw' = [WithStatus(w, 204) EXCEPT !.committed = TRUE]
          /\ Abort
       \/ /\ req.route # "preflight"
          /\ raw' = w
          /\ CallNext
    /\ UNCHANGED <<req, cors, pc, writer, buffer, session, log, saw, said,
                   panicked>>

PanicDeferred(w) ==             \* Mutant: the open handlers run their rest
    /\ panicked' = TRUE /\ writer' = w
    /\ open' = open /\ index' = index + 1
    /\ Respond(w, 500, "problem")
    /\ UNCHANGED <<req, cors, pc, session, log, saw, said>>

(* A panic below the frame of Recoverer: CustomRecovery calls Problem and   *)
(* returns to the loop that had called Recoverer, which goes on with the    *)
(* handler after the one that panicked.  Without that frame net/http drops  *)
(* the connection.                                                          *)
Panic(w) ==
    LET guards == {i \in open : Chain(req.route)[i] = "Recoverer"} IN
    /\ panicked' = TRUE
    /\ writer' = w
    /\ open' = {i \in open : \E g \in guards : i < g}
    /\ index' = index + 1
    /\ \/ /\ guards # {}
          /\ Respond(w, 500, "problem")
          /\ UNCHANGED pc
       \/ /\ guards = {}
          /\ pc' = "lost"
          /\ UNCHANGED <<raw, buffer>>
    /\ UNCHANGED <<req, cors, session, log, saw, said>>

(* security.Middleware before Next.  The buffered writer is in place        *)
(* whatever decryptInbound returns.                                         *)
Admit ==
    /\ Calls("Security")
    /\ req.body \in {"plain", "clear", "sealed"}
    /\ writer' = "buffer"
    /\ session' = IF req.body = "sealed" THEN "decrypted" ELSE session
    /\ CallNext
    /\ UNCHANGED <<req, cors, pc, raw, buffer, log, saw, said, panicked>>

RefuseNoAbort ==                \* Mutant: no Abort, and Next all the same
    /\ Calls("Security")
    /\ req.body = "refused"
    /\ writer' = "buffer"
    /\ Refuse(400)
    /\ CallNext
    /\ UNCHANGED <<req, cors, pc, buffer, session, log, saw, said, panicked>>

RefuseInbound ==
    /\ Calls("Security")
    /\ req.body = "refused"
    /\ writer' = "buffer"
    /\ Refuse(400)
    /\ Abort
    /\ UNCHANGED <<req, cors, pc, buffer, session, log, saw, said, panicked>>

DecryptPanics ==
    /\ Calls("Security")
    /\ req.body = "short_iv"
    /\ Panic("buffer")

Handler ==
    /\ Calls("Handler")
    /\ \E s \in Statuses : Respond(writer, s, "answer") /\ said' = s
    /\ saw' = session
    /\ Return
    /\ UNCHANGED <<req, cors, pc, writer, session, log, panicked>>

HandlerPanics ==
    /\ Calls("Handler")
    /\ Panic(writer)

-----------------------------------------------------------------------------
(* The end of the chain is reached: the innermost open handler goes on.     *)
Resumes(i) ==
    /\ pc = "running" /\ index > Len(Chain(req.route))
    /\ i \in open /\ \A j \in open : j <= i

ResumePassThrough ==
    /\ \E i \in open : /\ Resumes(i)
                       /\ Chain(req.route)[i] \notin {"RequestLogger", "Security"}
                       /\ open' = open \ {i}
    /\ UNCHANGED <<req, cors, index, pc, writer, raw, buffer, session, log, saw,
                   said, panicked>>

WriteLog ==
    /\ \E i \in open : /\ Resumes(i)
                       /\ Chain(req.route)[i] = "RequestLogger"
                       /\ open' = open \ {i}
    /\ log' = Append(log, [status |-> raw.status, id |-> raw.id])
    /\ UNCHANGED <<req, cors, index, pc, writer, raw, buffer, session, saw, said,
                   panicked>>

ResumeSecurity ==
    /\ \E i \in open : /\ Resumes(i)
                       /\ Chain(req.route)[i] = "Security"
                       /\ open' = open \ {i}
    /\ UNCHANGED <<req, cors, index, pc, writer, buffer, session, log, saw, said,
                   panicked>>

(* The envelope around what the handler wrote, under the request's key.     *)
Wrapped ==
    [kind |-> "envelope", data |-> buffer, sealed |-> session = "decrypted"]

EncryptOutbound ==
    /\ ResumeSecurity
    /\ raw' = IF buffer = <<>> THEN raw ELSE Sent(raw, 200, Wrapped)

EncryptFails ==
    /\ ResumeSecurity
    /\ buffer # <<>>
    /\ Refuse(500)

(* handleHTTPRequest and serveError: what is left to be sent is sent.       *)
Finish ==
    /\ pc = "running" /\ index > Len(Chain(req.route)) /\ open = {}
    /\ pc' = "done"
    /\ raw' = IF raw.committed THEN raw
              ELSE IF req.route = "none" THEN Sent(raw, 404, Bare("not_found"))
              ELSE [raw EXCEPT !.committed = TRUE]
    /\ UNCHANGED <<req, cors, index, open, writer, buffer, session, log, saw,
                   said, panicked>>

Next ==
    \/ PassThrough
    \/ RequestID
    \/ CORS
    \/ Admit
    \/ RefuseInbound
    \/ DecryptPanics
    \/ Handler
    \/ HandlerPanics
    \/ ResumePassThrough
    \/ WriteLog
    \/ EncryptOutbound
    \/ EncryptFails
    \/ Finish

Spec == Init /\ [][Next]_vars

-----------------------------------------------------------------------------
Guarded == req.route \in {"api", "mobile"}

(* A client of /api/v1 never sees what a handler wrote except inside an     *)
(* envelope, sealed exactly if its own request was sealed and decrypted;    *)
(* anything else it sees is a refusal, and it gets one body at most.  Public *)
(* routes never answer with an envelope.                                    *)
AnswersWrapped ==
    /\ Len(raw.body) <= 1
    /\ \A n \in 1..Len(raw.body) :
         LET m == raw.body[n] IN
         IF Guarded
         THEN \/ m.kind = "refusal"
              \/ /\ m.kind = "envelope" /\ m.data = <<"answer">>
                 /\ m.sealed = (req.body = "sealed")
         ELSE m.kind \notin {"envelope", "refusal"}

(* A body that decryptInbound refuses reaches no handler, on any route of   *)
(* the group or of its subgroups, and the refusal is what the client gets.  *)
RefusedUntouched ==
    (Guarded /\ req.body = "refused") =>
        /\ saw = "nothing"
        /\ pc = "done" => raw.status = 400 /\ raw.body = <<Bare("refusal")>>

(* Every request that ran without a panic, the preflight and the refused    *)
(* one included, has one line in the access log, with the status and the    *)
(* request id the client got; a panic takes the line away.                  *)
AccessLogged ==
    pc = "done" =>
        log = IF panicked THEN <<>> ELSE <<[status |-> raw.status, id |-> TRUE]>>

(* Whatever became of the request - answered, refused, recovered from a     *)
(* panic, not found, preflight - the response names an allowed origin and   *)
(* no other, and never the wildcard together with credentials.              *)
OriginsAnswered ==
    pc = "done" =>
        /\ (raw.allow # NoOrigin) <=> IsOriginAllowed(req.origin)
        /\ raw.allow \in {NoOrigin, "*", req.origin}
        /\ cors.credentials => raw.allow # "*"

(* A panic leaves no half answer: on a public route the client gets the     *)
(* uniform error and nothing else, on /api/v1 no body at all, neither bare  *)
(* nor wrapped.                                                             *)
PanicContained ==
    (panicked /\ pc # "running") =>
        IF Guarded THEN raw.body = <<>>
        ELSE pc = "done" /\ raw.status = 500 /\ raw.body = <<Bare("problem")>>

-----------------------------------------------------------------------------
(* Why the properties hold.  Without a panic the open calls are the first   *)
(* ones of the chain, all before the index as long as it is inside; after a *)
(* panic only what comes after Security is open.                            *)
Past == index > Len(Chain(req.route))

OpenInv ==
    /\ ~panicked => \E k \in 0..Len(Chain(req.route)) :
                       open = 1..k /\ (~Past => k = index - 1)
    /\ panicked => /\ req.route \in {"api", "mobile", "public"}
                   /\ index > 6 /\ open \subseteq {7}
                   /\ open # {} => req.route = "mobile" /\ index > 7
    /\ pc = "lost" => panicked /\ Guarded
    /\ pc = "done" => Past /\ open = {}

(* CORS and RequestID have set their headers once the index is beyond them; *)
(* the line of the log repeats what is sent, from when RequestLogger ends.  *)
HeadersInv ==
    /\ raw.id <=> index > 3
    /\ raw.allow = IF index > 5 THEN AllowFor(req.origin) ELSE NoOrigin
    /\ log = IF panicked \/ ~Past \/ 2 \in open THEN <<>>
             ELSE <<[status |-> raw.status, id |-> TRUE]>>

(* On the way in nothing has been sent, and the buffer is put in place by   *)
(* Security.                                                                *)
InboundInv ==
    ~Past /\ ~panicked =>
        /\ ~raw.committed /\ raw.body = <<>> /\ buffer = <<>> /\ saw = "nothing"
        /\ req.route = "none" => raw.status = 404
        /\ req.route = "preflight" => index <= 5
        /\ IF Guarded /\ index > 6
           THEN /\ req.body \notin {"refused", "short_iv"} /\ writer = "buffer"
                /\ (session = "decrypted") <=> (req.body = "sealed")
           ELSE writer = "raw" /\ session = "as_sent"

(* On the way out: what has been sent, and what Security has still to send. *)
OutboundInv ==
    Past /\ ~panicked =>
        /\ req.route = "public" => raw.committed /\ raw.body = <<Bare("answer")>>
        /\ req.route = "preflight" => raw.committed /\ raw.body = <<>>
        /\ req.route = "none" =>
             /\ raw.status = 404
             /\ IF pc = "done" THEN raw.body = <<Bare("not_found")>>
                ELSE ~raw.committed /\ raw.body = <<>>
        /\ Guarded => req.body # "short_iv"
        /\ Guarded /\ req.body = "refused" =>
             /\ saw = "nothing" /\ 6 \notin open
             /\ raw.committed /\ raw.status = 400 /\ raw.body = <<Bare("refusal")>>
        /\ Guarded /\ 6 \in open =>
             /\ ~raw.committed /\ raw.body = <<>> /\ buffer = <<"answer">>
             /\ (session = "decrypted") <=> (req.body = "sealed")
        /\ Guarded /\ 6 \notin open =>
             /\ raw.committed
             /\ raw.body \in {<<Bare("refusal")>>,
                   <<[kind |-> "envelope", data |-> <<"answer">>,
                      sealed |-> req.body = "sealed"]>>}

(* After a panic.                                                           *)
PanicInv ==
    panicked =>
        IF Guarded
        THEN req.body # "refused" /\ writer = "buffer" /\ raw.body = <<>>
        ELSE Past /\ raw.committed /\ raw.status = 500
             /\ raw.body = <<Bare("problem")>>

IInv == TypeOK /\ OpenInv /\ HeadersInv /\ InboundInv /\ OutboundInv /\ PanicInv

-----------------------------------------------------------------------------
(* router.go:45 Recoverer answers every panic with 500 and the uniform      *)
(* error envelope (middleware.go:73-85).  Violated: below Security the      *)
(* error body goes into the buffer nobody sends, and after a panic in       *)
(* Security itself the handler runs on.                                     *)
PanicAnswered ==
    (panicked /\ pc # "running") =>
        /\ pc = "done" /\ raw.status = 500
        /\ raw.body = <<Bare("problem")>>

(* The status a handler of /api/v1 answers with is the one the client sees  *)
(* (handler.go:45-47, 85-88), unless wrapping failed.  Violated:            *)
(* encryptOutbound writes 200.                                              *)
StatusKept ==
    (pc = "done" /\ ~panicked /\ said # NoStatus) =>
        \/ raw.status = said
        \/ raw.body = <<Bare("refusal")>>
=============================================================================
