-------------------------------- MODULE Keys --------------------------------
(***************************************************************************)
(* Which RSA pair the server holds: config.Load reads layer after layer of *)
(* dotenv files while cmd/keygen and the operator write them, and          *)
(* LoadKeyPair makes a pair of what it finds, run after run; clients keep  *)
(* the public half they once fetched.                                      *)
(***************************************************************************)
EXTENDS DotEnv

CONSTANTS
    Clients,
    ProcessEnvs,        \* what the process environment may set
    EditLines,          \* the lines an operator writes by hand
    Writable,           \* bound on the files that are written at all
    MaxKeys,            \* bound on the keys generated
    MaxStarts,          \* bound on the runs of the server
    MaxEdits            \* bound on the edits

Files == {"base", "app", "local", "app_local"}

ASSUME KeysAssumption ==
    /\ ProcessEnvs \subseteq [Names -> Values] /\ EditLines \subseteq Lines
    /\ Writable \subseteq Files
    /\ MaxKeys \in Nat /\ MaxStarts \in Nat /\ MaxEdits \in Nat

VARIABLES
    appEnv,             \* APP_ENV
    files,              \* the lines of each file ...
    keygen,             \* ... and the write under way, if any
    penv,               \* the process environment of the run
    server, layer, env, \* Load: how many layers it has read, and the result
    pair,               \* httpserver.Deps.KeyPair
    known,              \* the public half each client holds
    next,               \* the next key that rsa.GenerateKey returns
    starts, edits,      \* how often the environment has acted
    read,               \* history: what Load found in each file
    stale, lasting      \* history, see below

(* stale: a file has changed since the run started to load; lasting[c]: the *)
(* key c holds came from the settings, whole, and they have not changed.    *)
writer == <<files, keygen>>
loader == <<server, layer, env, penv, read>>
history == <<stale, lasting>>
vars == <<appEnv, writer, loader, pair, known, next, starts, edits, history>>

Idle == [file |-> "none", key |-> Blank, parts |-> 0]

Content(f) ==
    IF keygen.file = f THEN files[f] \o Written(keygen.key, keygen.parts)
    ELSE files[f]

Protected == {name \in Names : penv[name] # Unset}

NoEnv == [name \in Names |-> Unset]

Init ==
    /\ appEnv \in {"test", "production"}
    /\ files = [f \in Files |-> <<>>] /\ keygen = Idle
    /\ penv = NoEnv /\ server = "down" /\ layer = 0
    /\ env = NoEnv /\ read = [f \in Files |-> <<>>]
    /\ pair = NoPair /\ known = [c \in Clients |-> Blank]
    /\ next = 2         \* key 1 is in the hands of the operator
    /\ starts = 0 /\ edits = 0
    /\ stale = FALSE /\ lasting = [c \in Clients |-> FALSE]

\* The settings are no longer those of any earlier run.
Changed ==
    /\ stale' = TRUE
    /\ lasting' = [c \in Clients |-> FALSE]

-----------------------------------------------------------------------------
(* A run: snapshotProcessEnv, the layers one after the other, the pair.     *)
Launch ==
    /\ server \in {"down", "panicked"} /\ starts < MaxStarts
    /\ \E values \in ProcessEnvs :
          /\ penv' = values /\ env' = values
          /\ lasting' = [c \in Clients |-> lasting[c] /\ values = penv]
    /\ server' = "loading" /\ layer' = 0
    /\ read' = [f \in Files |-> <<>>]
    /\ starts' = starts + 1 /\ stale' = FALSE
    /\ UNCHANGED <<appEnv, writer, pair, known, next, edits>>

LoadLayer ==
    /\ server = "loading" /\ layer < Len(Layers(appEnv))
    /\ LET f == Layers(appEnv)[layer + 1] IN
       /\ env' = AfterFile(env, Protected, Content(f))
       /\ read' = [read EXCEPT ![f] = Content(f)]
    /\ layer' = layer + 1
    /\ UNCHANGED <<appEnv, writer, server, penv, pair, known, next, starts,
                   edits, history>>

\* LoadKeyPair: an error of LoadOrGenerateKeyPair is a panic of main.
BuildPair ==
    /\ server = "loading" /\ layer = Len(Layers(appEnv))
    /\ Given(env[Private]) \/ next <= MaxKeys
    /\ pair' = PairOf(env, next)
    /\ server' = IF pair' = NoPair THEN "panicked" ELSE "serving"
    /\ next' = IF Given(env[Private]) THEN next ELSE next + 1
    /\ UNCHANGED <<appEnv, writer, layer, env, penv, read, known, starts,
                   edits, history>>

\* The process ends and takes all it has read with it.
Stop ==
    /\ server = "serving"
    /\ server' = "down" /\ pair' = NoPair
    /\ layer' = 0 /\ env' = NoEnv /\ read' = [f \in Files |-> <<>>]
    /\ UNCHANGED <<appEnv, writer, penv, known, next, starts, edits, history>>

-----------------------------------------------------------------------------
(* cmd/keygen -out f appends a block; a run of the server may see any part  *)
(* of it, and it may die in the middle.                                     *)
KeygenStart(f) ==
    /\ keygen = Idle /\ next <= MaxKeys
    /\ keygen' = [file |-> f, key |-> next, parts |-> 0]
    /\ next' = next + 1
    /\ UNCHANGED <<appEnv, files, loader, pair, known, starts, edits, history>>

KeygenWrite ==
    /\ keygen # Idle
    /\ \E n \in 1..4 :
          /\ keygen.parts < n
          /\ keygen' = [keygen EXCEPT !.parts = n]
    /\ Changed
    /\ UNCHANGED <<appEnv, files, loader, pair, known, next, starts, edits>>

KeygenEnd ==
    /\ keygen # Idle
    /\ files' = [f \in Files |-> Content(f)]
    /\ keygen' = Idle
    /\ UNCHANGED <<appEnv, loader, pair, known, next, starts, edits, history>>

\* The operator appends a line or empties the file.
Edit(f) ==
    /\ keygen.file # f /\ edits < MaxEdits
    /\ \/ \E line \in EditLines :
             files' = [files EXCEPT ![f] = Append(@, line)]
       \/ files' = [files EXCEPT ![f] = <<>>]
    /\ edits' = edits + 1
    /\ Changed
    /\ UNCHANGED <<appEnv, keygen, loader, pair, known, next, starts>>

-----------------------------------------------------------------------------
\* GET /security/public-key
Fetch(c) ==
    /\ server = "serving"
    /\ known' = [known EXCEPT ![c] = pair.public]
    /\ lasting' = [lasting EXCEPT ![c] =
          ~stale /\ Given(env[Private]) /\ pair.public = pair.private]
    /\ UNCHANGED <<appEnv, writer, loader, pair, next, starts, edits, stale>>

\* An envelope sealed for the key the client holds can be opened, and the
\* answer's signature verified, with the private half of that key only.
Served(c) == server = "serving" /\ known[c] = pair.private

Next ==
    \/ Launch \/ LoadLayer \/ BuildPair \/ Stop
    \/ KeygenWrite \/ KeygenEnd
    \/ \E f \in Writable : KeygenStart(f) \/ Edit(f)
    \/ \E c \in Clients : Fetch(c)

Spec == Init /\ [][Next]_vars

-----------------------------------------------------------------------------
Loaded == server \in {"serving", "panicked"}

\* The order the comment of Load gives, lowest first.
Rank == [f \in Files |-> CASE f = "base" -> 1 [] f = "app" -> 2
                           [] f = "local" -> 3 [] f = "app_local" -> 4]

\* Every setting has the value that the documented order gives it, of what
\* has been read.
Precedence ==
    \A name \in Names :
        IF penv[name] # Unset THEN env[name] = penv[name]
        ELSE /\ (\A f \in Files : Silent(read[f], name)) => env[name] = Unset
             /\ \A f \in Files : \A i \in DOMAIN read[f] :
                   /\ IsLast(read[f], i, name)
                   /\ \A g \in Files : Rank[g] > Rank[f] => Silent(read[g], name)
                   => env[name] = TrimQuotes(read[f][i])

(* Whatever was written while Load was reading, each setting it returns is  *)
(* the one the documented order gives: the process environment, an empty    *)
(* value included, before the files, .env.{APP_ENV}.local before .env.local *)
(* before .env.{APP_ENV} before .env, within a file the last line, a quoted *)
(* empty value included, and no .env.local in tests (config.go:104-120).    *)
PrecedenceKept ==
    Loaded => Precedence /\ (appEnv = "test" => read["local"] = <<>>)

(* What keygen has written to the highest file that speaks is what the      *)
(* server comes up with, whole, whatever other files and earlier lines hold *)
(* (cmd/keygen/main.go:13, keys.go:26-84, dotenv.go:49-71).                 *)
EndsWith(lines, k) ==
    \E i \in DOMAIN lines :
        i + 1 = Len(lines) /\ SubSeq(lines, i, i + 1) = Block(k)

KeygenTakesEffect ==
    Loaded /\ penv = NoEnv =>
      \A f \in Files, k \in 1..MaxKeys :
        /\ EndsWith(read[f], k)
        /\ \A g \in Files, name \in Names :
              Rank[g] > Rank[f] => Silent(read[g], name)
        => server = "serving" /\ pair = [private |-> k, public |-> k]

(* The halves are taken from their sources one by one and never compared;   *)
(* still the server publishes the key it can use as long as the process     *)
(* environment does not set a half alone and the highest file with lines    *)
(* ends with a block that keygen completed: torn blocks and lone halves     *)
(* before it and in lower files, whole pairs in several sources and halves  *)
(* set to nothing do no harm (keys.go:66-84, router.go:59-71).              *)
HalvesMatch ==
    /\ server = "serving"
    /\ penv[Private].key = penv[Public].key
    /\ \A f \in Files :
          \/ read[f] = <<>>
          \/ \E k \in 1..MaxKeys : EndsWith(read[f], k)
          \/ \E g \in Files : Rank[g] > Rank[f] /\ read[g] # <<>>
    => pair.public = pair.private

(* A client that fetched a key that came from the settings is served by     *)
(* every later run until the settings change: only a run without a private  *)
(* key, or one whose halves differ, strands its clients (keys.go:21-44).    *)
ClientsOutliveRuns ==
    \A c \in Clients : server = "serving" /\ lasting[c] => Served(c)

-----------------------------------------------------------------------------
(* The inductive invariant: Load keeps the order at every layer, the pair   *)
(* is made of what Load returns, and a run that starts from the same        *)
(* settings goes through the same environments as the one before.           *)
TypeOK ==
    /\ appEnv \in {"test", "production"}
    /\ files \in [Files -> Seq(Lines)] /\ read \in [Files -> Seq(Lines)]
    /\ keygen \in [file : Files, key : Nat, parts : 0..4] \cup {Idle}
    /\ penv \in [Names -> Values] /\ env \in [Names -> Values]
    /\ server \in {"down", "loading", "serving", "panicked"}
    /\ layer \in 0..Len(Layers(appEnv))
    /\ pair \in [private : Nat, public : Nat] /\ known \in [Clients -> Nat]
    /\ next \in Nat \ {0} /\ starts \in Nat /\ edits \in Nat
    /\ stale \in BOOLEAN /\ lasting \in [Clients -> BOOLEAN]

LayersRead ==
    server # "down" =>
      /\ Precedence
      /\ \A f \in Files :
            (\A i \in 1..layer : Layers(appEnv)[i] # f) => read[f] = <<>>

PairBuilt ==
    Loaded => /\ layer = Len(Layers(appEnv))
              /\ \E k \in 1..next : pair = PairOf(env, k)
              /\ pair = NoPair => server = "panicked"
              /\ server = "panicked" => pair = NoPair

Apply(e, i) == AfterFile(e, Protected, Content(Layers(appEnv)[i]))

\* The environment after n layers of what the files now hold.
EnvAfter(n) ==
    CASE n = 0 -> penv
      [] n = 1 -> Apply(penv, 1)
      [] n = 2 -> Apply(Apply(penv, 1), 2)
      [] n = 3 -> Apply(Apply(Apply(penv, 1), 2), 3)
      [] OTHER -> Apply(Apply(Apply(Apply(penv, 1), 2), 3), 4)

Repeats == ~stale /\ server # "down" => env = EnvAfter(layer)

Lasts ==
    \A c \in Clients : lasting[c] =>
        LET settled == EnvAfter(Len(Layers(appEnv)))[Private] IN
        ~stale /\ Given(settled) /\ known[c] = settled.key

IInv == TypeOK /\ LayersRead /\ PairBuilt /\ Repeats /\ Lasts

=============================================================================
