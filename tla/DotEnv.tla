------------------------------- MODULE DotEnv -------------------------------
(***************************************************************************)
(* internal/config/dotenv.go, the order of config.Load, and the reading of *)
(* the RSA pair in internal/security/keys.go as pure operators.  Of all    *)
(* settings only the two halves of the pair are followed.                  *)
(*                                                                         *)
(* A value is the key it encodes, or Blank, and a form: "text" is what the *)
(* parser of that half accepts, "raw" what it does not: a PEM block whose  *)
(* line breaks are still the two characters \n, or a stray quote.  A PEM   *)
(* block has several lines and a line of a file is one, so in a file it is *)
(* always folded; the public half is one line of base64.                   *)
(***************************************************************************)
EXTENDS Integers, Sequences

Private == "SIGN_PRIVATE_KEY"
Public == "SIGN_PUBLIC_KEY"
Names == {Private, Public}

Blank == 0
Unset == [key |-> Blank, form |-> "unset"]
Values == [key : Nat, form : {"text", "raw", "unset"}]

\* A line NAME=value; a torn one has an opening quote only.
Lines == [name : Names, key : Nat, quote : {"none", "single", "double", "torn"}]

\* Mutant: the file of the environment comes after the local one.
LayersSwapped(appEnv) ==
    IF appEnv = "test" THEN <<"base", "app", "app_local">>
    ELSE <<"base", "local", "app", "app_local">>

\* .env, .env.{APP_ENV}, .env.local and .env.{APP_ENV}.local, as Load reads them
Layers(appEnv) ==
    IF appEnv = "test" THEN <<"base", "app", "app_local">>
    ELSE <<"base", "app", "local", "app_local">>

\* A value that is empty before its quotes are removed is passed over.
Speaks(line, name) ==
    line.name = name /\ (line.key # Blank \/ line.quote # "none")

\* Mutant: the escapes of a double-quoted value are left as they are.
TrimQuotesLiteral(line) ==
    [key |-> line.key,
     form |-> IF /\ line.quote # "torn"
                 /\ line.key = Blank \/ line.name = Public
              THEN "text" ELSE "raw"]

\* Only within double quotes is the folded block unfolded, and an opening quote
\* without its twin stays part of the value.
TrimQuotes(line) ==
    [key |-> line.key,
     form |-> IF /\ line.quote # "torn"
                 /\ \/ line.quote = "double" \/ line.key = Blank
                    \/ line.name = Public
              THEN "text" ELSE "raw"]

IsLast(lines, i, name) ==
    /\ i \in DOMAIN lines /\ Speaks(lines[i], name)
    /\ \A j \in DOMAIN lines : Speaks(lines[j], name) => j <= i

Silent(lines, name) == \A i \in DOMAIN lines : ~Speaks(lines[i], name)

\* loadDotEnv: the last line of a name wins, and no line wins over the process.
AfterFile(env, protected, lines) ==
    [name \in Names |->
        IF name \in protected \/ Silent(lines, name) THEN env[name]
        ELSE TrimQuotes(lines[CHOOSE i \in DOMAIN lines : IsLast(lines, i, name)])]

\* envString falls back to the empty string, which counts as not given.  A
\* stray quote alone is no key, but it is given.
Given(value) == value.key # Blank \/ value.form = "raw"

NoPair == [private |-> Blank, public |-> Blank]

\* Mutant: a pair is only taken over when both halves are given.
PairOfBoth(env, fresh) ==
    IF ~Given(env[Private]) \/ ~Given(env[Public])
    THEN [private |-> fresh, public |-> fresh]
    ELSE [private |-> env[Private].key, public |-> env[Public].key]

\* Mutant: a public half that is given is published with a generated key.
PairOfPublished(env, fresh) ==
    LET private == IF Given(env[Private]) THEN env[Private].key ELSE fresh IN
    IF Given(env[Private]) /\ env[Private].form # "text" THEN NoPair
    ELSE [private |-> private,
          public |-> IF Given(env[Public]) THEN env[Public].key ELSE private]

\* LoadOrGenerateKeyPair, NoPair standing for its error.
PairOf(env, fresh) ==
    LET private == env[Private]
        public == env[Public] IN
    IF ~Given(private) THEN [private |-> fresh, public |-> fresh]
    ELSE IF \/ private.form # "text"
            \/ Given(public) /\ public.form # "text"
         THEN NoPair
         ELSE [private |-> private.key,
               public |-> IF Given(public) THEN public.key ELSE private.key]

\* The two lines of renderEnvBlock for key k.
Block(k) == << [name |-> Private, key |-> k, quote |-> "double"],
               [name |-> Public, key |-> k, quote |-> "double"] >>

\* What of it is in the file after the n-th part of the write: half of the
\* first line, the line, half of the second, all.
Written(k, n) ==
    CASE n = 0 -> <<>>
      [] n = 1 -> << [Block(k)[1] EXCEPT !.quote = "torn"] >>
      [] n = 2 -> << Block(k)[1] >>
      [] n = 3 -> << Block(k)[1], [Block(k)[2] EXCEPT !.quote = "torn"] >>
      [] OTHER -> Block(k)

=============================================================================
