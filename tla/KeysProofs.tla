----------------------------- MODULE KeysProofs -----------------------------
(***************************************************************************)
(* The properties of Keys, for any files, lines, clients and process       *)
(* environments.  First what one file does to the environment, then one    *)
(* lemma for each conjunct of the invariant.                               *)
(***************************************************************************)
EXTENDS Keys, WellFoundedInduction, TLAPS

-----------------------------------------------------------------------------
(* Lines and files.                                                         *)

(* A bounded set of numbers that is not empty has a greatest element.       *)
LEMMA Greatest ==
    ASSUME NEW n \in Nat, NEW S \in SUBSET (1..n), S # {}
    PROVE  \E x \in S : \A y \in S : y <= x
<1> DEFINE T == {n - x : x \in S}
           R == OpToRel(<, Nat)
<1>1. T \subseteq Nat /\ T # {}
  <2>1. ASSUME NEW x \in S PROVE n - x \in Nat
    <3>1. x \in 1..n
      OBVIOUS
    <3> QED BY <3>1
  <2> QED BY <2>1
<1>2. \E t \in T : \A u \in T : <<u, t>> \notin R
  <2> HIDE DEF T, R
  <2> QED BY <1>1, WFMin, NatLessThanWellFounded DEF R
<1>3. PICK x \in S : \A y \in S : ~(n - y < n - x)
  BY <1>2, <1>1 DEF OpToRel
<1> QED BY <1>3

(* A file that speaks of a name has a last line that does.                  *)
LEMMA LastLine ==
    ASSUME NEW lines \in Seq(Lines), NEW name, ~Silent(lines, name)
    PROVE  \E i \in DOMAIN lines : IsLast(lines, i, name)
<1> DEFINE S == {i \in DOMAIN lines : Speaks(lines[i], name)}
<1>1. S \in SUBSET (1..Len(lines)) /\ S # {}
  BY DEF Silent
<1>2. Len(lines) \in Nat
  OBVIOUS
<1>3. PICK i \in S : \A j \in S : j <= i
  <2> HIDE DEF S
  <2> QED BY <1>1, <1>2, Greatest
<1> QED BY <1>3 DEF IsLast

(* There is only one, so CHOOSE picks it.                                   *)
LEMMA LastIsUnique ==
    ASSUME NEW lines \in Seq(Lines), NEW name,
           NEW i \in DOMAIN lines, IsLast(lines, i, name)
    PROVE  (CHOOSE j \in DOMAIN lines : IsLast(lines, j, name)) = i
<1> DEFINE c == CHOOSE j \in DOMAIN lines : IsLast(lines, j, name)
<1>1. c \in DOMAIN lines /\ IsLast(lines, c, name)
  OBVIOUS
<1>2. c <= i /\ i <= c
  BY <1>1 DEF IsLast
<1>3. c \in Nat /\ i \in Nat
  BY <1>1
<1> HIDE DEF c
<1> QED BY <1>2, <1>3

(* What a file does to a name it may set and speaks of, ...                 *)
LEMMA FileSets ==
    ASSUME NEW e, NEW protected, NEW lines \in Seq(Lines),
           NEW name \in Names \ protected,
           NEW i \in DOMAIN lines, IsLast(lines, i, name)
    PROVE  AfterFile(e, protected, lines)[name] = TrimQuotes(lines[i])
<1>1. ~Silent(lines, name)
  BY DEF Silent, IsLast
<1> QED BY <1>1, LastIsUnique DEF AfterFile

(* ... and to any other.                                                    *)
LEMMA FileKeeps ==
    ASSUME NEW e, NEW protected, NEW lines, NEW name \in Names,
           name \in protected \/ Silent(lines, name)
    PROVE  AfterFile(e, protected, lines)[name] = e[name]
BY DEF AfterFile

(* An environment stays one.                                                *)
LEMMA FileType ==
    ASSUME NEW e \in [Names -> Values], NEW protected,
           NEW lines \in Seq(Lines)
    PROVE  AfterFile(e, protected, lines) \in [Names -> Values]
<1>1. ASSUME NEW line \in Lines PROVE TrimQuotes(line) \in Values
  BY DEF TrimQuotes, Lines, Values
<1>2. ASSUME NEW name \in Names
      PROVE  AfterFile(e, protected, lines)[name] \in Values
  <2>1. CASE name \in protected \/ Silent(lines, name)
    BY <2>1, FileKeeps
  <2>2. CASE ~(name \in protected \/ Silent(lines, name))
    <3>1. PICK i \in DOMAIN lines : IsLast(lines, i, name)
      BY <2>2, LastLine
    <3> QED BY <3>1, <2>2, <1>1, FileSets
  <2> QED BY <2>1, <2>2
<1> QED BY <1>2 DEF AfterFile

(* Any part of a block is a sequence of lines.                              *)
LEMMA WrittenType ==
    ASSUME NEW k \in Nat, NEW n PROVE Written(k, n) \in Seq(Lines)
<1> DEFINE first == [name |-> Private, key |-> k, quote |-> "double"]
           second == [name |-> Public, key |-> k, quote |-> "double"]
           torn(line) == [line EXCEPT !.quote = "torn"]
<1>1. /\ first \in Lines /\ second \in Lines
      /\ torn(first) \in Lines /\ torn(second) \in Lines
  BY DEF Lines, Names
<1>2. Block(k) = <<first, second>>
  BY DEF Block
<1>3. Block(k)[1] = first /\ Block(k)[2] = second
  BY <1>2
<1>4. Written(k, n) \in {<<>>, <<torn(first)>>, <<first>>,
                        <<first, torn(second)>>, <<first, second>>}
  BY <1>2, <1>3, Zenon DEF Written
<1>5. ASSUME NEW a \in Lines, NEW b \in Lines
      PROVE  <<>> \in Seq(Lines) /\ <<a>> \in Seq(Lines) /\ <<a, b>> \in Seq(Lines)
  OBVIOUS
<1> HIDE DEF first, second, torn
<1>6. {<<>>, <<torn(first)>>, <<first>>, <<first, torn(second)>>,
       <<first, second>>} \subseteq Seq(Lines)
  BY <1>1, <1>5, Zenon
<1> QED BY <1>4, <1>6

(* A block that has not been begun adds nothing.                            *)
LEMMA NothingWritten ==
    ASSUME NEW lines \in Seq(Lines), NEW k
    PROVE  lines \o Written(k, 0) = lines
BY DEF Written

(* Every file holds lines, and the layers are among the files.              *)
LEMMA ContentType ==
    ASSUME TypeOK, NEW f \in Files PROVE Content(f) \in Seq(Lines)
<1>1. files[f] \in Seq(Lines)
  BY DEF TypeOK
<1>2. CASE keygen.file = f
  <2>1. keygen.key \in Nat
    BY DEF TypeOK, Idle, Blank
  <2> QED BY <1>1, <1>2, <2>1, WrittenType DEF Content
<1> QED BY <1>1, <1>2 DEF Content

LEMMA LayersAreFiles ==
    ASSUME TypeOK, NEW i \in 1..Len(Layers(appEnv))
    PROVE  Layers(appEnv)[i] \in Files
BY DEF TypeOK, Layers, Files

(* The layers are read in the order of their ranks.                         *)
LEMMA LayersAreRanked ==
    ASSUME appEnv \in {"test", "production"},
           NEW i \in 1..Len(Layers(appEnv)), NEW j \in 1..Len(Layers(appEnv)),
           i < j
    PROVE  Rank[Layers(appEnv)[i]] < Rank[Layers(appEnv)[j]]
<1>1. /\ Rank["base"] = 1 /\ Rank["app"] = 2
      /\ Rank["local"] = 3 /\ Rank["app_local"] = 4
  BY DEF Rank, Files
<1>2. CASE appEnv = "test"
  <2>1. Layers(appEnv) = <<"base", "app", "app_local">>
    BY <1>2 DEF Layers
  <2> QED BY <1>1, <2>1
<1>3. CASE appEnv = "production"
  <2>1. Layers(appEnv) = <<"base", "app", "local", "app_local">>
    BY <1>3 DEF Layers
  <2> QED BY <1>1, <2>1
<1> QED BY <1>2, <1>3

LEMMA LayersTyped ==
    ASSUME TypeOK PROVE Len(Layers(appEnv)) \in 3..4
BY DEF TypeOK, Layers

-----------------------------------------------------------------------------
(* Every variable stays in its domain.                                      *)
LEMMA NoEnvType == NoEnv \in [Names -> Values]
BY DEF NoEnv, Unset, Values, Blank

LEMMA PairType ==
    ASSUME NEW e \in [Names -> Values], NEW k \in Nat
    PROVE  PairOf(e, k) \in [private : Nat, public : Nat]
<1>1. Private \in Names /\ Public \in Names
  BY DEF Names
<1>2. e[Private].key \in Nat /\ e[Public].key \in Nat
  BY <1>1 DEF Values
<1> QED BY <1>2 DEF PairOf, NoPair, Blank

LEMMA TypeStep ==
    TypeOK /\ [Next]_vars
       => TypeOK'
<1> SUFFICES ASSUME TypeOK,
                    [Next]_vars
             PROVE  TypeOK'
  OBVIOUS
<1> USE DEF writer, loader, history
<1>1. CASE Launch
  <2>1. penv' \in [Names -> Values] /\ env' \in [Names -> Values]
    BY <1>1, KeysAssumption DEF Launch
  <2>2. read' \in [Files -> Seq(Lines)]
    BY <1>1 DEF Launch
  <2>3. layer' \in 0..Len(Layers(appEnv'))
    BY <1>1, LayersTyped DEF Launch
  <2>4. lasting' \in [Clients -> BOOLEAN]
    BY <1>1 DEF Launch, TypeOK
  <2>5. /\ server' = "loading" /\ starts' \in Nat /\ stale' = FALSE
        /\ UNCHANGED <<appEnv, files, keygen, pair, known, next, edits>>
    BY <1>1 DEF Launch, TypeOK
  <2> QED BY <2>1, <2>2, <2>3, <2>4, <2>5 DEF TypeOK
<1>2. CASE LoadLayer
  <2> DEFINE f == Layers(appEnv)[layer + 1]
  <2>1. layer + 1 \in 1..Len(Layers(appEnv))
    BY <1>2, LayersTyped DEF LoadLayer, TypeOK
  <2>2. f \in Files /\ Content(f) \in Seq(Lines)
    BY <2>1, LayersAreFiles, ContentType
  <2>3. env' \in [Names -> Values]
    BY <1>2, <2>2, FileType DEF LoadLayer, TypeOK
  <2>4. read' \in [Files -> Seq(Lines)]
    BY <1>2, <2>2 DEF LoadLayer, TypeOK
  <2>5. layer' \in 0..Len(Layers(appEnv))
    BY <1>2, <2>1, LayersTyped DEF LoadLayer
  <2> HIDE DEF f
  <2> QED BY <1>2, <2>3, <2>4, <2>5 DEF LoadLayer, TypeOK
<1>3. CASE BuildPair
  <2>1. pair' \in [private : Nat, public : Nat]
    BY <1>3, PairType DEF BuildPair, TypeOK
  <2> QED BY <1>3, <2>1 DEF BuildPair, TypeOK
<1>4. CASE Stop
  <2>1. pair' \in [private : Nat, public : Nat] /\ env' \in [Names -> Values]
    BY <1>4, NoEnvType DEF Stop, NoPair, Blank
  <2>2. read' \in [Files -> Seq(Lines)]
    BY <1>4 DEF Stop
  <2> QED BY <1>4, <2>1, <2>2, LayersTyped DEF Stop, TypeOK
<1>5. ASSUME NEW f \in Files, KeygenStart(f) PROVE TypeOK'
  BY <1>5 DEF KeygenStart, TypeOK
<1>6. CASE KeygenWrite
  <2>1. keygen \in [file : Files, key : Nat, parts : 0..4]
    BY <1>6 DEF KeygenWrite, TypeOK
  <2>2. keygen' \in [file : Files, key : Nat, parts : 0..4]
    BY <1>6, <2>1 DEF KeygenWrite
  <2>3. stale' \in BOOLEAN /\ lasting' \in [Clients -> BOOLEAN]
    BY <1>6 DEF KeygenWrite, Changed
  <2> QED BY <1>6, <2>2, <2>3 DEF KeygenWrite, TypeOK
<1>7. CASE KeygenEnd
  <2>1. files' \in [Files -> Seq(Lines)]
    BY <1>7, ContentType DEF KeygenEnd
  <2> QED BY <1>7, <2>1 DEF KeygenEnd, TypeOK
<1>8. ASSUME NEW f \in Files, Edit(f) PROVE TypeOK'
  <2>1. files' \in [Files -> Seq(Lines)]
    <3>1. files[f] \in Seq(Lines) /\ <<>> \in Seq(Lines)
      BY DEF TypeOK
    <3>2. \A line \in EditLines : Append(files[f], line) \in Seq(Lines)
      BY <3>1, KeysAssumption
    <3> QED BY <1>8, <3>1, <3>2 DEF Edit, TypeOK
  <2>2. stale' \in BOOLEAN /\ lasting' \in [Clients -> BOOLEAN]
    BY <1>8 DEF Edit, Changed
  <2> QED BY <1>8, <2>1, <2>2 DEF Edit, TypeOK
<1>9. ASSUME NEW c \in Clients, Fetch(c) PROVE TypeOK'
  BY <1>9 DEF Fetch, TypeOK
<1>10. CASE UNCHANGED vars
  BY <1>10 DEF vars, TypeOK
<1> QED
  BY <1>1, <1>2, <1>3, <1>4, <1>5, <1>6, <1>7, <1>8, <1>9, <1>10,
     KeysAssumption DEF Next

-----------------------------------------------------------------------------
(* The order of the layers.                                                 *)

(* The files above the one that is read next have not been read.            *)
LEMMA LoadLayerKeepsOrder ==
    ASSUME TypeOK, LayersRead, LoadLayer PROVE LayersRead'
<1> DEFINE f == Layers(appEnv)[layer + 1]
           lines == Content(f)
<1>1. layer + 1 \in 1..Len(Layers(appEnv))
  BY LayersTyped DEF LoadLayer, TypeOK
<1>2. f \in Files /\ lines \in Seq(Lines)
  BY <1>1, LayersAreFiles, ContentType
<1>3. \A g \in Files : g = f \/ Rank[g] > Rank[f] => read[g] = <<>>
  <2> SUFFICES ASSUME NEW g \in Files, g = f \/ Rank[g] > Rank[f]
               PROVE  \A i \in 1..layer : Layers(appEnv)[i] # g
    BY DEF LayersRead, LoadLayer
  <2>1. ASSUME NEW i \in 1..layer PROVE Rank[Layers(appEnv)[i]] < Rank[f]
    <3>1. layer \in Nat /\ Len(Layers(appEnv)) \in Nat
      BY LayersTyped DEF TypeOK
    <3>2. i \in 1..Len(Layers(appEnv)) /\ i < layer + 1
      BY <1>1, <3>1
    <3> QED BY <1>1, <3>2, LayersAreRanked DEF TypeOK
  <2>2. \A h \in Files : Rank[h] \in Nat
    BY DEF Rank, Files
  <2> HIDE DEF f
  <2> QED BY <2>1, <2>2, <1>2
<1>4. /\ env' = AfterFile(env, Protected, lines)
      /\ read' = [read EXCEPT ![f] = lines]
      /\ layer' = layer + 1 /\ penv' = penv /\ appEnv' = appEnv
      /\ server = "loading" /\ server' = "loading"
  BY DEF LoadLayer, loader
<1>5. read'[f] = lines /\ \A g \in Files \ {f} : read'[g] = read[g]
  BY <1>2, <1>4 DEF TypeOK
<1> HIDE DEF f, lines
<1>6. Precedence /\ \A g \in Files :
          (\A i \in 1..layer : Layers(appEnv)[i] # g) => read[g] = <<>>
  BY <1>4 DEF LayersRead
<1>7. \A g \in Files, name \in Names :
          g = f \/ Rank[g] > Rank[f] => Silent(read[g], name) /\ DOMAIN read[g] = {}
  BY <1>3 DEF Silent
<1>8. ASSUME NEW name \in Names
      PROVE  IF penv[name] # Unset THEN env'[name] = penv[name]
             ELSE /\ (\A g \in Files : Silent(read'[g], name)) => env'[name] = Unset
                  /\ \A g \in Files : \A i \in DOMAIN read'[g] :
                        /\ IsLast(read'[g], i, name)
                        /\ \A h \in Files : Rank[h] > Rank[g] => Silent(read'[h], name)
                        => env'[name] = TrimQuotes(read'[g][i])
  <2>1. CASE penv[name] # Unset
    <3>1. name \in Protected
      BY <2>1 DEF Protected
    <3>2. env'[name] = env[name]
      BY <3>1, <1>4, FileKeeps
    <3>3. env[name] = penv[name]
      BY <2>1, <1>6 DEF Precedence
    <3> QED BY <2>1, <3>2, <3>3
  <2>2. CASE penv[name] = Unset /\ Silent(lines, name)
    <3>1. env'[name] = env[name]
      BY <2>2, <1>4, FileKeeps
    <3>2. \A g \in Files : Silent(read'[g], name) <=> Silent(read[g], name)
      BY <2>2, <1>5, <1>7
    <3>3. (\A g \in Files : Silent(read'[g], name)) => env'[name] = Unset
      BY <2>2, <3>1, <3>2, <1>6 DEF Precedence
    <3>4. ASSUME NEW g \in Files, NEW i \in DOMAIN read'[g],
                 IsLast(read'[g], i, name),
                 \A h \in Files : Rank[h] > Rank[g] => Silent(read'[h], name)
          PROVE  env'[name] = TrimQuotes(read'[g][i])
      <4>1. g # f
        BY <3>4, <2>2, <1>5 DEF IsLast, Silent
      <4>2. read'[g] = read[g]
        BY <4>1, <1>5
      <4>3. \A h \in Files : Rank[h] > Rank[g] => Silent(read[h], name)
        BY <3>4, <3>2
      <4> QED BY <2>2, <3>1, <3>4, <4>2, <4>3, <1>6 DEF Precedence
    <3> QED BY <2>2, <3>3, <3>4
  <2>3. CASE penv[name] = Unset /\ ~Silent(lines, name)
    <3>1. name \in Names \ Protected
      BY <2>3 DEF Protected
    <3>2. ~Silent(read'[f], name)
      BY <2>3, <1>5
    <3>3. ASSUME NEW g \in Files, NEW i \in DOMAIN read'[g],
                 IsLast(read'[g], i, name),
                 \A h \in Files : Rank[h] > Rank[g] => Silent(read'[h], name)
          PROVE  env'[name] = TrimQuotes(read'[g][i])
      <4>1. CASE g = f
        <5>1. i \in DOMAIN lines /\ IsLast(lines, i, name)
          BY <3>3, <4>1, <1>5
        <5> QED BY <5>1, <4>1, <3>1, <1>2, <1>4, <1>5, FileSets
      <4>2. CASE g # f
        <5>1. ~(Rank[f] > Rank[g])
          BY <3>2, <3>3, <1>2
        <5>2. Rank[g] > Rank[f]
          BY <5>1, <4>2, <1>2 DEF Rank, Files
        <5>3. DOMAIN read'[g] = {}
          BY <5>2, <4>2, <1>5, <1>7
        <5> QED BY <5>3
      <4> QED BY <4>1, <4>2
    <3> QED BY <2>3, <3>2, <3>3, <1>2
  <2> QED BY <2>1, <2>2, <2>3
<1>9. Precedence'
  BY <1>8, <1>4 DEF Precedence
<1>10. ASSUME NEW g \in Files, \A i \in 1..(layer + 1) : Layers(appEnv)[i] # g
       PROVE  read'[g] = <<>>
  <2>1. layer \in Nat
    BY DEF TypeOK
  <2>2. g # f /\ \A i \in 1..layer : Layers(appEnv)[i] # g
    BY <2>1, <1>10 DEF f
  <2> QED BY <2>2, <1>5, <1>6
<1> QED BY <1>4, <1>9, <1>10 DEF LayersRead

(* The files, the environment and what was read belong together.            *)
LEMMA LayersReadStep ==
    TypeOK /\ LayersRead /\ [Next]_vars
       => LayersRead'
<1> SUFFICES ASSUME TypeOK, LayersRead,
                    [Next]_vars
             PROVE  LayersRead'
  OBVIOUS
<1> USE DEF writer, loader, history
<1>1. CASE Launch
  <2>1. \A f \in Files : read'[f] = <<>> /\ DOMAIN read'[f] = {}
    BY <1>1 DEF Launch
  <2>2. env' = penv'
    BY <1>1 DEF Launch
  <2>3. Precedence'
    BY <2>1, <2>2 DEF Precedence
  <2> QED BY <2>1, <2>3 DEF LayersRead
<1>2. CASE LoadLayer
  BY <1>2, LoadLayerKeepsOrder
<1>3. CASE Stop
  BY <1>3 DEF Stop, LayersRead
<1>4. CASE BuildPair \/ \E c \in Clients : Fetch(c)
  BY <1>4 DEF BuildPair, Fetch, LayersRead, Precedence
<1>5. CASE KeygenWrite \/ KeygenEnd \/ \E f \in Writable : KeygenStart(f) \/ Edit(f)
  BY <1>5 DEF KeygenWrite, KeygenEnd, KeygenStart, Edit, LayersRead, Precedence
<1>6. CASE UNCHANGED vars
  BY <1>6 DEF vars, LayersRead, Precedence
<1> QED BY <1>1, <1>2, <1>3, <1>4, <1>5, <1>6 DEF Next

-----------------------------------------------------------------------------
(* The pair is made of what Load has returned.                              *)
LEMMA PairBuiltStep ==
    TypeOK /\ PairBuilt /\ [Next]_vars
       => PairBuilt'
<1> SUFFICES ASSUME TypeOK, PairBuilt,
                    [Next]_vars
             PROVE  PairBuilt'
  OBVIOUS
<1> USE DEF writer, loader, history
<1>1. CASE Launch \/ LoadLayer \/ Stop
  BY <1>1 DEF Launch, LoadLayer, Stop, PairBuilt, Loaded
<1>2. CASE BuildPair
  <2>1. next \in 1..next'
    BY <1>2 DEF BuildPair, TypeOK
  <2> QED BY <1>2, <2>1 DEF BuildPair, PairBuilt, Loaded
<1>3. ASSUME NEW f \in Writable, KeygenStart(f) PROVE PairBuilt'
  <2>1. 1..next \subseteq 1..next'
    BY <1>3 DEF KeygenStart, TypeOK
  <2> QED BY <1>3, <2>1 DEF KeygenStart, PairBuilt, Loaded
<1>4. CASE KeygenWrite \/ KeygenEnd \/ \E f \in Writable : Edit(f)
  BY <1>4 DEF KeygenWrite, KeygenEnd, Edit, PairBuilt, Loaded
<1>5. CASE UNCHANGED vars \/ \E c \in Clients : Fetch(c)
  BY <1>5 DEF vars, Fetch, PairBuilt, Loaded
<1> QED BY <1>1, <1>2, <1>3, <1>4, <1>5 DEF Next

(* The private half of a pair that did not fail is the one given, if any.   *)
LEMMA GivenIsPrivate ==
    ASSUME NEW e, NEW k, Given(e[Private]), PairOf(e, k) # NoPair
    PROVE  PairOf(e, k).private = e[Private].key
BY DEF PairOf

-----------------------------------------------------------------------------
(* Runs that start from the same settings.                                  *)

(* As long as the settings stay, so does what they amount to.               *)
LEMMA SettingsStay ==
    ASSUME TypeOK, penv' = penv, appEnv' = appEnv,
           \A f \in Files : Content(f)' = Content(f),
           NEW n \in 0..Len(Layers(appEnv))
    PROVE  EnvAfter(n)' = EnvAfter(n)
<1>1. n \in 0..4
  <2>1. PICK l \in 3..4 : l = Len(Layers(appEnv))
    BY LayersTyped
  <2>2. n \in 0..l
    BY <2>1
  <2> QED BY <2>2
<1>2. Protected' = Protected
  BY DEF Protected
<1>3. ASSUME NEW i \in 1..Len(Layers(appEnv))
      PROVE  Content(Layers(appEnv)[i])' = Content(Layers(appEnv)[i])
  BY LayersAreFiles
<1>4. \A i \in 1..4 : i <= n => i \in 1..Len(Layers(appEnv))
  BY LayersTyped
<1>5. \A e : \A i \in 1..n :
         AfterFile(e, Protected', Content(Layers(appEnv)[i])') = Apply(e, i)
  BY <1>1, <1>2, <1>3, <1>4 DEF Apply
<1>6. CASE n = 0
  BY <1>6 DEF EnvAfter
<1>7. CASE n = 1
  BY <1>5, <1>7 DEF EnvAfter, Apply
<1>8. CASE n = 2
  BY <1>5, <1>8 DEF EnvAfter, Apply
<1>9. CASE n = 3
  BY <1>5, <1>9 DEF EnvAfter, Apply
<1>10. CASE n = 4
  BY <1>5, <1>10 DEF EnvAfter, Apply
<1> QED BY <1>1, <1>6, <1>7, <1>8, <1>9, <1>10

(* Beginning a block and ending it leave every file as a reader sees it.    *)
LEMMA KeygenBounds ==
    ASSUME TypeOK, KeygenEnd \/ \E f \in Files : KeygenStart(f)
    PROVE  \A f \in Files : Content(f)' = Content(f)
<1> SUFFICES ASSUME NEW f \in Files PROVE Content(f)' = Content(f)
  OBVIOUS
<1>1. "none" \notin Files /\ Idle.file = "none"
  BY DEF Files, Idle
<1>2. CASE KeygenEnd
  <2>1. files'[f] = Content(f) /\ keygen'.file # f
    BY <1>1, <1>2 DEF KeygenEnd
  <2> QED BY <2>1 DEF Content
<1>3. ASSUME NEW g \in Files, KeygenStart(g) PROVE Content(f)' = Content(f)
  <2>1. files'[f] = files[f] /\ Content(f) = files[f]
    BY <1>1, <1>3 DEF KeygenStart, Content
  <2>2. CASE f = g
    <3>1. files[f] \in Seq(Lines) /\ files[f] \o Written(next, 0) = files[f]
      BY NothingWritten DEF TypeOK
    <3>2. keygen'.file = f /\ keygen'.key = next /\ keygen'.parts = 0
      BY <1>3, <2>2 DEF KeygenStart
    <3> QED BY <2>1, <3>1, <3>2 DEF Content
  <2>3. CASE f # g
    BY <1>3, <2>1, <2>3 DEF KeygenStart, Content
  <2> QED BY <2>2, <2>3
<1> QED BY <1>2, <1>3

(* The steps that do not touch the settings.                                *)
LEMMA SettingsKept ==
    ASSUME TypeOK,
           \/ LoadLayer \/ BuildPair \/ Stop \/ KeygenEnd \/ UNCHANGED vars
           \/ \E f \in Writable : KeygenStart(f)
           \/ \E c \in Clients : Fetch(c)
    PROVE  \A n \in 0..Len(Layers(appEnv)) : EnvAfter(n)' = EnvAfter(n)
<1> USE DEF writer, loader
<1>1. penv' = penv /\ appEnv' = appEnv
  BY DEF LoadLayer, BuildPair, Stop, KeygenEnd, KeygenStart, Fetch, vars
<1>2. CASE KeygenEnd \/ \E f \in Writable : KeygenStart(f)
  BY <1>1, <1>2, KeygenBounds, SettingsStay, KeysAssumption
<1>3. CASE UNCHANGED <<files, keygen>>
  <2>1. \A f \in Files : Content(f)' = Content(f)
    BY <1>3 DEF Content
  <2> QED BY <1>1, <2>1, SettingsStay
<1> QED BY <1>2, <1>3 DEF LoadLayer, BuildPair, Stop, Fetch, vars

(* A run goes through the environments that the files amount to.            *)
LEMMA RepeatsStep ==
    TypeOK /\ Repeats /\ [Next]_vars
       => Repeats'
<1> SUFFICES ASSUME TypeOK, Repeats,
                    [Next]_vars
             PROVE  Repeats'
  OBVIOUS
<1> USE DEF writer, loader, history
<1>0. layer \in 0..Len(Layers(appEnv))
  BY DEF TypeOK
<1>1. CASE Launch
  BY <1>1 DEF Launch, Repeats, EnvAfter
<1>2. CASE LoadLayer
  <2>1. layer + 1 \in 0..Len(Layers(appEnv)) /\ layer \in 0..3
    BY <1>0, <1>2, LayersTyped DEF LoadLayer
  <2>2. PICK n \in 0..Len(Layers(appEnv)) : n = layer + 1
    BY <2>1
  <2>3. EnvAfter(n)' = EnvAfter(n)
    BY <1>2, SettingsKept
  <2>4. EnvAfter(layer + 1) = Apply(EnvAfter(layer), layer + 1)
    BY <2>1 DEF EnvAfter
  <2>5. env' = Apply(env, layer + 1) /\ layer' = n
        /\ (~stale' => env = EnvAfter(layer))
    BY <1>2, <2>2 DEF LoadLayer, Apply, Repeats
  <2>6. ~stale' => env' = EnvAfter(n)'
    BY <2>2, <2>3, <2>4, <2>5
  <2> QED BY <2>5, <2>6 DEF Repeats
<1>3. CASE Stop \/ KeygenWrite \/ \E f \in Writable : Edit(f)
  BY <1>3 DEF Stop, KeygenWrite, Edit, Changed, Repeats
<1>4. CASE \/ BuildPair \/ KeygenEnd \/ UNCHANGED vars
           \/ \E f \in Writable : KeygenStart(f)
           \/ \E c \in Clients : Fetch(c)
  <2> QED
    BY <1>0, <1>4, SettingsKept
    DEF BuildPair, KeygenEnd, KeygenStart, Fetch, vars, Repeats
<1> QED BY <1>1, <1>2, <1>3, <1>4 DEF Next

(* What a client once fetched is what the files still amount to.            *)
LEMMA LastsStep ==
    TypeOK /\ PairBuilt /\ Repeats /\ Lasts /\ [Next]_vars
       => Lasts'
<1> SUFFICES ASSUME TypeOK, PairBuilt, Repeats, Lasts,
                    [Next]_vars
             PROVE  Lasts'
  OBVIOUS
<1> USE DEF writer, loader, history
<1>1. PICK n \in 0..Len(Layers(appEnv)) : n = Len(Layers(appEnv))
  BY LayersTyped
<1>2. ASSUME NEW c \in Clients, lasting[c]
      PROVE  ~stale /\ Given(EnvAfter(n)[Private])
             /\ known[c] = EnvAfter(n)[Private].key
  BY <1>1, <1>2 DEF Lasts
<1>3. ASSUME appEnv' = appEnv,
             \A c \in Clients : lasting'[c] =>
                ~stale' /\ Given(EnvAfter(n)'[Private])
                /\ known'[c] = EnvAfter(n)'[Private].key
      PROVE  Lasts'
  BY <1>1, <1>3 DEF Lasts
<1>4. CASE Launch
  <2>1. ASSUME NEW c \in Clients, lasting'[c]
        PROVE  lasting[c] /\ penv' = penv
    BY <1>4, <2>1 DEF Launch
  <2>2. UNCHANGED <<appEnv, files, keygen, known>> /\ stale' = FALSE
    BY <1>4 DEF Launch
  <2>3. \A f \in Files : Content(f)' = Content(f)
    BY <2>2 DEF Content
  <2>4. penv' = penv => EnvAfter(n)' = EnvAfter(n)
    BY <2>2, <2>3, SettingsStay
  <2> QED BY <1>2, <1>3, <2>1, <2>2, <2>4
<1>5. CASE KeygenWrite \/ \E f \in Writable : Edit(f)
  <2>1. \A c \in Clients : ~lasting'[c]
    BY <1>5 DEF KeygenWrite, Edit, Changed
  <2> QED BY <2>1 DEF Lasts
<1>6. CASE \/ LoadLayer \/ BuildPair \/ Stop \/ KeygenEnd \/ UNCHANGED vars
           \/ \E f \in Writable : KeygenStart(f)
  <2>1. EnvAfter(n)' = EnvAfter(n)
    BY <1>6, SettingsKept
  <2>2. UNCHANGED <<appEnv, known, stale, lasting>>
    BY <1>6 DEF LoadLayer, BuildPair, Stop, KeygenEnd, KeygenStart, vars
  <2> QED BY <1>2, <1>3, <2>1, <2>2
<1>7. ASSUME NEW c \in Clients, Fetch(c) PROVE Lasts'
  <2>1. EnvAfter(n)' = EnvAfter(n)
    BY <1>7, SettingsKept
  <2>2. UNCHANGED <<appEnv, stale>>
    BY <1>7 DEF Fetch
  <2>3. ASSUME NEW d \in Clients, d # c, lasting'[d]
        PROVE  lasting[d] /\ known'[d] = known[d]
    BY <1>7, <2>3 DEF Fetch, TypeOK
  <2>4. ASSUME lasting'[c]
        PROVE  ~stale /\ Given(EnvAfter(n)[Private])
               /\ known'[c] = EnvAfter(n)[Private].key
    <3>1. /\ server = "serving" /\ known'[c] = pair.public
          /\ ~stale /\ Given(env[Private]) /\ pair.public = pair.private
      BY <1>7, <2>4 DEF Fetch, TypeOK
    <3>2. layer = n /\ pair # NoPair /\ \E k \in 1..next : pair = PairOf(env, k)
      BY <3>1, <1>1 DEF PairBuilt, Loaded
    <3>3. env = EnvAfter(n)
      BY <3>1, <3>2 DEF Repeats
    <3>4. pair.private = env[Private].key
      BY <3>1, <3>2, GivenIsPrivate
    <3> QED BY <3>1, <3>3, <3>4
  <2> QED BY <1>2, <1>3, <2>1, <2>2, <2>3, <2>4
<1> QED BY <1>4, <1>5, <1>6, <1>7 DEF Next

-----------------------------------------------------------------------------
(* Init establishes the invariant.                                          *)
LEMMA InitInvariant == Init => IInv
<1> SUFFICES ASSUME Init PROVE IInv
  OBVIOUS
<1>1. TypeOK
  <2>1. <<>> \in Seq(Lines) /\ NoPair \in [private : Nat, public : Nat]
    BY DEF NoPair, Blank
  <2>2. layer \in 0..Len(Layers(appEnv))
    BY DEF Init, Layers
  <2>3. files \in [Files -> Seq(Lines)] /\ read \in [Files -> Seq(Lines)]
    BY <2>1 DEF Init
  <2>4. known \in [Clients -> Nat] /\ lasting \in [Clients -> BOOLEAN]
    BY DEF Init, Blank
  <2>5. penv \in [Names -> Values] /\ env \in [Names -> Values]
    BY NoEnvType DEF Init
  <2>6. /\ appEnv \in {"test", "production"}
        /\ server \in {"down", "loading", "serving", "panicked"}
        /\ next \in Nat \ {0} /\ starts \in Nat /\ edits \in Nat
    BY DEF Init
  <2>7. stale \in BOOLEAN
    BY Zenon DEF Init
  <2>8. /\ pair \in [private : Nat, public : Nat]
        /\ keygen \in [file : Files, key : Nat, parts : 0..4] \cup {Idle}
    BY <2>1 DEF Init
  <2> HIDE DEF Init
  <2> QED BY <2>8, <2>7, <2>1, <2>2, <2>3, <2>4, <2>5, <2>6 DEF TypeOK
<1> QED BY <1>1 DEF Init, IInv, LayersRead, PairBuilt, Loaded, Repeats, Lasts

(* The invariant of Keys (config.go:104-121, keys.go:26-84): Load keeps the *)
(* documented order at every layer, the pair is made of what it returns,    *)
(* and the same settings give the same pair again.                          *)
THEOREM Invariance == Spec => []IInv
<1>1. IInv /\ [Next]_vars => IInv'
  BY TypeStep, LayersReadStep, PairBuiltStep, RepeatsStep, LastsStep DEF IInv
<1> QED BY InitInvariant, <1>1, PTL DEF Spec

(* No interleaving with keygen or an editor breaks the order of precedence  *)
(* (config.go:104-121, dotenv.go:16-47).                                    *)
THEOREM OrderKept == Spec => []PrecedenceKept
<1>1. IInv => PrecedenceKept
  <2> SUFFICES ASSUME IInv, Loaded
               PROVE  Precedence /\ (appEnv = "test" => read["local"] = <<>>)
    BY DEF PrecedenceKept
  <2>1. LayersRead /\ server # "down"
    BY DEF IInv, Loaded
  <2>2. appEnv = "test" =>
          \A i \in 1..layer : i \in 1..3 /\ Layers(appEnv)[i] # "local"
    BY DEF IInv, TypeOK, Layers
  <2>3. "local" \in Files
    BY DEF Files
  <2> QED BY <2>1, <2>2, <2>3 DEF LayersRead
<1> QED BY Invariance, <1>1, PTL

(* A file that ends with a whole block has the halves as its last lines.    *)
LEMMA BlockIsLast ==
    ASSUME NEW lines \in Seq(Lines), NEW k \in Nat \ {0}, EndsWith(lines, k)
    PROVE  \E i, j \in DOMAIN lines :
             /\ IsLast(lines, i, Private) /\ IsLast(lines, j, Public)
             /\ TrimQuotes(lines[i]) = [key |-> k, form |-> "text"]
             /\ TrimQuotes(lines[j]) = [key |-> k, form |-> "text"]
<1>0. PICK i \in DOMAIN lines :
         i + 1 = Len(lines) /\ SubSeq(lines, i, i + 1) = Block(k)
  BY DEF EndsWith
<1>1. i \in Nat /\ i + 1 \in DOMAIN lines /\ Len(lines) \in Nat
      /\ DOMAIN lines = 1..Len(lines)
  BY <1>0
<1>2. lines[i] = SubSeq(lines, i, i + 1)[1] /\ lines[i + 1] = SubSeq(lines, i, i + 1)[2]
  BY <1>1
<1>3. /\ lines[i] = [name |-> Private, key |-> k, quote |-> "double"]
      /\ lines[i + 1] = [name |-> Public, key |-> k, quote |-> "double"]
  <2>1. /\ Block(k)[1] = [name |-> Private, key |-> k, quote |-> "double"]
        /\ Block(k)[2] = [name |-> Public, key |-> k, quote |-> "double"]
    BY DEF Block
  <2> QED BY <1>0, <1>2, <2>1
<1>4. Private # Public
  BY DEF Private, Public
<1>5. \A j \in DOMAIN lines : j <= i + 1 /\ (j # i + 1 => j <= i)
  BY <1>0, <1>1
<1>6. IsLast(lines, i, Private) /\ IsLast(lines, i + 1, Public)
  BY <1>1, <1>3, <1>4, <1>5 DEF IsLast, Speaks
<1>7. /\ TrimQuotes(lines[i]) = [key |-> k, form |-> "text"]
      /\ TrimQuotes(lines[i + 1]) = [key |-> k, form |-> "text"]
  BY <1>3 DEF TrimQuotes
<1> QED BY <1>1, <1>6, <1>7

(* keygen's last word is what the server uses (cmd/keygen/main.go:13,       *)
(* dotenv.go:49-71, keys.go:26-84).                                         *)
THEOREM KeygenCounts == Spec => []KeygenTakesEffect
<1>1. IInv => KeygenTakesEffect
  <2> SUFFICES ASSUME IInv, Loaded, penv = NoEnv,
                      NEW f \in Files, NEW k \in 1..MaxKeys,
                      EndsWith(read[f], k),
                      \A g \in Files, name \in Names :
                         Rank[g] > Rank[f] => Silent(read[g], name)
               PROVE  server = "serving" /\ pair = [private |-> k, public |-> k]
    BY DEF KeygenTakesEffect
  <2>1. Precedence
    BY DEF IInv, LayersRead, Loaded
  <2>2. Private \in Names /\ Public \in Names
        /\ penv[Private] = Unset /\ penv[Public] = Unset
    BY DEF Names, NoEnv
  <2>3. read[f] \in Seq(Lines) /\ k \in Nat \ {0}
    BY KeysAssumption DEF IInv, TypeOK
  <2>4. PICK i, j \in DOMAIN read[f] :
           /\ IsLast(read[f], i, Private) /\ IsLast(read[f], j, Public)
           /\ TrimQuotes(read[f][i]) = [key |-> k, form |-> "text"]
           /\ TrimQuotes(read[f][j]) = [key |-> k, form |-> "text"]
    BY <2>3, BlockIsLast
  <2>5. env[Private] = [key |-> k, form |-> "text"]
        /\ env[Public] = [key |-> k, form |-> "text"]
    BY <2>1, <2>2, <2>4 DEF Precedence
  <2>6. \A x : PairOf(env, x) = [private |-> k, public |-> k]
    BY <2>3, <2>5 DEF PairOf, Given, Blank
  <2>7. pair = [private |-> k, public |-> k] /\ pair # NoPair
    BY <2>3, <2>6 DEF IInv, PairBuilt, NoPair, Blank
  <2> QED BY <2>7 DEF IInv, PairBuilt, Loaded
<1> QED BY Invariance, <1>1, PTL

(* Clients outlive the runs they fetched their key from (keys.go:21-44).    *)
THEOREM ClientsKept == Spec => []ClientsOutliveRuns
<1>1. IInv => ClientsOutliveRuns
  <2> SUFFICES ASSUME IInv, NEW c \in Clients, server = "serving", lasting[c]
               PROVE  known[c] = pair.private
    BY DEF ClientsOutliveRuns, Served
  <2>1. layer = Len(Layers(appEnv)) /\ pair # NoPair
        /\ \E k \in 1..next : pair = PairOf(env, k)
    BY DEF IInv, PairBuilt, Loaded
  <2>2. ~stale /\ Given(EnvAfter(layer)[Private])
        /\ known[c] = EnvAfter(layer)[Private].key
    BY <2>1 DEF IInv, Lasts
  <2>3. env = EnvAfter(layer)
    BY <2>2 DEF IInv, Repeats
  <2> QED BY <2>1, <2>2, <2>3, GivenIsPrivate
<1> QED BY Invariance, <1>1, PTL

-----------------------------------------------------------------------------
(* When the highest file with lines ends with a whole block and the process *)
(* sets neither half, the halves come from that block; or no file has any.  *)
LEMMA HalvesFromOneBlock ==
    ASSUME TypeOK, Precedence,
           \A f \in Files :
              \/ read[f] = <<>>
              \/ \E k \in 1..MaxKeys : EndsWith(read[f], k)
              \/ \E g \in Files : Rank[g] > Rank[f] /\ read[g] # <<>>,
           penv[Private] = Unset, penv[Public] = Unset
    PROVE  env[Private].key = env[Public].key
<1>0. Private \in Names /\ Public \in Names
  BY DEF Names
<1>1. CASE \A f \in Files : read[f] = <<>>
  <2>1. \A f \in Files, name \in Names : Silent(read[f], name)
    BY <1>1 DEF Silent
  <2>2. env[Private] = Unset /\ env[Public] = Unset
    BY <1>0, <2>1 DEF Precedence
  <2> QED BY <2>2
<1>2. CASE \E f \in Files : read[f] # <<>>
  <2>1. PICK f \in Files :
           read[f] # <<>> /\ \A g \in Files : Rank[g] > Rank[f] => read[g] = <<>>
    <3>1. Rank["base"] = 1 /\ Rank["app"] = 2 /\ Rank["local"] = 3
          /\ Rank["app_local"] = 4
      BY DEF Rank, Files
    <3> QED BY <1>2, <3>1 DEF Files
  <2>2. \A g \in Files, name \in Names : Rank[g] > Rank[f] => Silent(read[g], name)
    BY <2>1 DEF Silent
  <2>3. PICK k \in 1..MaxKeys : EndsWith(read[f], k)
    BY <2>1
  <2>4. read[f] \in Seq(Lines) /\ k \in Nat \ {0}
    BY KeysAssumption DEF TypeOK
  <2>5. PICK i, j \in DOMAIN read[f] :
           /\ IsLast(read[f], i, Private) /\ IsLast(read[f], j, Public)
           /\ TrimQuotes(read[f][i]) = [key |-> k, form |-> "text"]
           /\ TrimQuotes(read[f][j]) = [key |-> k, form |-> "text"]
    BY <2>3, <2>4, BlockIsLast
  <2>6. /\ env[Private] = TrimQuotes(read[f][i])
        /\ env[Public] = TrimQuotes(read[f][j])
    BY <1>0, <2>2, <2>5 DEF Precedence
  <2> QED BY <2>5, <2>6
<1> QED BY <1>1, <1>2

(* The public half on offer is that of the private half in use, as long as  *)
(* the process sets both halves or none and the highest file with lines     *)
(* ends with a completed block (keys.go:66-84, router.go:59-71).            *)
THEOREM HalvesAgree == Spec => []HalvesMatch
<1>1. IInv => HalvesMatch
  <2> SUFFICES ASSUME IInv, server = "serving",
                      penv[Private].key = penv[Public].key,
                      \A f \in Files :
                         \/ read[f] = <<>>
                         \/ \E k \in 1..MaxKeys : EndsWith(read[f], k)
                         \/ \E g \in Files : Rank[g] > Rank[f] /\ read[g] # <<>>
               PROVE  pair.public = pair.private
    BY DEF HalvesMatch
  <2>1. Precedence /\ TypeOK
    BY DEF IInv, LayersRead
  <2>2. PICK k \in 1..next : pair = PairOf(env, k)
    BY DEF IInv, PairBuilt, Loaded
  <2>3. Private \in Names /\ Public \in Names
    BY DEF Names
  \* A half set to nothing is not given, or it is a stray quote and no pair is made.
  <2>4. \/ ~Given(env[Private]) \/ ~Given(env[Public])
        \/ env[Private].form # "text" \/ env[Public].form # "text"
        \/ env[Private].key = env[Public].key
    <3>1. CASE penv[Private] = Unset /\ penv[Public] = Unset
      BY <2>1, <3>1, HalvesFromOneBlock
    <3>2. CASE penv[Private] # Unset
      <4>1. env[Private] = penv[Private]
        BY <2>1, <2>3, <3>2 DEF Precedence
      <4>2. CASE penv[Public] = Unset
        BY <4>1, <4>2 DEF Given, Unset
      <4>3. CASE penv[Public] # Unset
        BY <2>1, <2>3, <4>1, <4>3 DEF Precedence
      <4> QED BY <4>2, <4>3
    <3>3. CASE penv[Private] = Unset /\ penv[Public] # Unset
      <4>1. env[Public] = penv[Public]
        BY <2>1, <2>3, <3>3 DEF Precedence
      <4> QED BY <3>3, <4>1 DEF Given, Unset
    <3> QED BY <3>1, <3>2, <3>3
  <2> QED BY <2>2, <2>4 DEF PairOf, NoPair
<1> QED BY Invariance, <1>1, PTL

=============================================================================
