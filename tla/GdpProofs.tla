------------------------------- MODULE GdpProofs -------------------------------
(***************************************************************************)
(* Theorems about kenya-gdp, for every set of indicators and figures, any  *)
(* number of editions and of runs of the two scripts.                      *)
(***************************************************************************)
EXTENDS KenyaGdp, SequenceTheorems, TLAPS

(* Only a response with data is dumped, and without a revision it is of the  *)
(* current edition.                                                          *)
Responses == fpc = "dump" => payload # 0 /\ (~revised => payload = edition)

Files == \A c \in Codes : raw[c].state = "whole" => raw[c].edition # 0

(* What a fetch without failures or revisions has left behind it.            *)
Fetched == fpc # "idle" =>
    /\ ~finished
    /\ ~reported /\ ~revised => \A k \in 1..fi - 1 :
         \/ raw[INDICATORS[k]] = Dumped(edition)
         \/ fpc = "dump" /\ INDICATORS[k] = INDICATORS[fi]

OneEdition == CleanFetch => \A c, d \in Codes : raw[c] = raw[d]

(* A build reads from files that a clean fetch left, unless it is unsettled. *)
Read == ~unsettled =>
    /\ bpc = "load" => CleanFetch /\ \A k \in 1..bi - 1 :
         loaded[INDICATORS[k]] = raw[INDICATORS[k]].edition
    /\ bpc = "write" => \A c, d \in Codes : loaded[c] = loaded[d]

(* How far the outputs are.                                                  *)
Progress ==
    /\ csv.build <= builds
    /\ bpc # "idle" => ~complete
    /\ bpc \in {"load", "write"} => csv.build < builds
    /\ bpc = "plot" => csv = OutputOf(csv.source) /\ \A k \in 1..bi - 1 : charts[k] = csv

FetchInv == Responses /\ Files /\ Fetched /\ DataKept
MixInv == OneEdition /\ Read /\ NoSilentMix
OutputInv == Progress /\ ChartsFollow
GdpInv == FetchInv /\ MixInv /\ OutputInv

-----------------------------------------------------------------------------
(* Rounding                                                                  *)

LEMMA Division ==
    ASSUME NEW n \in Int, NEW d \in Nat \ {0}
    PROVE  /\ n \div d \in Int /\ n % d \in 0..d - 1
           /\ n = d * (n \div d) + (n % d)
OBVIOUS

(* How far a rounding of n / w may be from it, times w.                      *)
Reach(w) == w * (Scale + 2 * Noise)

LEMMA Precision ==
    ASSUME NEW w \in Nat \ {0}
    PROVE  /\ w * Scale \in Nat \ {0} /\ Reach(w) \in Nat
           /\ w * Scale <= Reach(w)
           /\ 3 * Reach(w) < 4 * (w * Scale)
<1>1. Scale \in Nat \ {0} /\ Noise \in Nat /\ 6 * Noise < Scale
  BY TableAssumption DEF TableAssumption
<1> DEFINE a == w * Scale
           b == w * Noise
<1>2. a \in Nat \ {0} /\ b \in Nat
  BY <1>1
<1>3. Reach(w) = a + 2 * b
  BY <1>1 DEF Reach
<1>4. 6 * b < a
  <2>1. w * (Scale - 6 * Noise) >= 1
    BY <1>1
  <2>2. w * (Scale - 6 * Noise) = a - 6 * b
    BY <1>1
  <2> HIDE DEF a, b
  <2> QED BY <1>1, <1>2, <2>1, <2>2
<1> HIDE DEF a, b
<1>5. a \in Nat \ {0} /\ Reach(w) \in Nat /\ a <= Reach(w) /\ 3 * Reach(w) < 4 * a
  BY <1>2, <1>3, <1>4
<1> QED BY <1>5 DEF a

(* A rounding is near the exact quotient, and there is one.                  *)
LEMMA RoundingsAreNear ==
    ASSUME NEW n \in Int, NEW w \in Nat \ {0}, NEW k \in Roundings(n, w)
    PROVE  /\ k \in Int
           /\ 2 * ((w * Scale) * k) - 2 * n <= Reach(w)
           /\ 2 * n - 2 * ((w * Scale) * k) <= Reach(w)
<1> DEFINE d == w * Scale
<1>1. d \in Nat \ {0} /\ Reach(w) \in Nat
  BY Precision
<1>2. /\ k \in (n \div d)..(n \div d) + 1
      /\ 2 * (n - d * k) <= Reach(w) /\ 2 * (d * k - n) <= Reach(w)
  BY DEF Roundings, Reach
<1> HIDE DEF d
<1>3. k \in Int /\ d * k \in Int
  BY <1>1, <1>2, Division
<1>4. 2 * (d * k) - 2 * n <= Reach(w) /\ 2 * n - 2 * (d * k) <= Reach(w)
  BY <1>1, <1>2, <1>3
<1> QED BY <1>3, <1>4 DEF d

LEMMA RoundingsExist ==
    ASSUME NEW n \in Int, NEW w \in Nat \ {0}
    PROVE  Roundings(n, w) # {}
<1> DEFINE d == w * Scale
           q == n \div d
           r == n % d
<1>1. d \in Nat \ {0} /\ Reach(w) \in Nat /\ d <= Reach(w)
  BY Precision
<1>2. q \in Int /\ r \in 0..d - 1 /\ n = d * q + r
  BY <1>1, Division
<1>3. \A k \in q..q + 1 :
         2 * (n - d * k) <= Reach(w) /\ 2 * (d * k - n) <= Reach(w) => k \in Roundings(n, w)
  BY DEF Roundings, Reach
<1> HIDE DEF d, q, r
<1>4. d * q \in Int /\ d * (q + 1) = d * q + d
  BY <1>1, <1>2
<1>5. CASE 2 * r <= d
  <2>1. 2 * (n - d * q) <= Reach(w) /\ 2 * (d * q - n) <= Reach(w)
    BY <1>1, <1>2, <1>4, <1>5
  <2> QED BY <1>2, <1>3, <2>1
<1>6. CASE 2 * r > d
  <2>1. 2 * (n - d * (q + 1)) <= Reach(w) /\ 2 * (d * (q + 1) - n) <= Reach(w)
    BY <1>1, <1>2, <1>4, <1>6
  <2> QED BY <1>2, <1>3, <2>1
<1> QED BY <1>1, <1>2, <1>5, <1>6

(* An integer whose double, times d, is within three reaches of zero.        *)
LEMMA WithinOne ==
    ASSUME NEW d \in Nat \ {0}, NEW e \in Nat, NEW z \in Int, 3 * e < 4 * d,
           2 * (d * z) <= 3 * e, -(2 * (d * z)) <= 3 * e
    PROVE  z \in -1..1
<1>1. z <= 1
  <2> SUFFICES ASSUME z >= 2 PROVE FALSE
    OBVIOUS
  <2>1. d * z >= d * 2
    OBVIOUS
  <2> QED BY <2>1
<1>2. z >= -1
  <2> SUFFICES ASSUME z <= -2 PROVE FALSE
    OBVIOUS
  <2>1. d * z <= d * (-2)
    OBVIOUS
  <2> QED BY <2>1
<1> QED BY <1>1, <1>2

(* Two rounded parts and their rounded sum: three roundings miss by less     *)
(* than two thousandths together.                                            *)
LEMMA PartsReconcile ==
    ASSUME NEW i \in Int, NEW a \in Int, NEW w \in Nat \ {0},
           NEW g \in Roundings(a, w), NEW p \in Roundings(i * w - a, w),
           NEW t \in Roundings(i, 1)
    PROVE  g + p - t \in -1..1
<1> DEFINE d == w * Scale
           e == Reach(w)
           f == Reach(1)
<1>1. d \in Nat \ {0} /\ e \in Nat /\ 3 * e < 4 * d
  BY Precision
<1>2. Scale \in Nat \ {0} /\ f \in Nat /\ w * f = e
  <2>1. 1 \in Nat \ {0}
    OBVIOUS
  <2>2. f \in Nat
    BY <2>1, Precision
  <2>3. Scale \in Nat \ {0} /\ Noise \in Nat
    BY TableAssumption DEF TableAssumption
  <2>4. w * f = e
    BY <2>3 DEF Reach
  <2> QED BY <2>2, <2>3, <2>4
<1>3. g \in Int /\ 2 * (d * g) - 2 * a <= e /\ 2 * a - 2 * (d * g) <= e
  BY RoundingsAreNear
<1>4. /\ p \in Int /\ 2 * (d * p) - 2 * (i * w - a) <= e
      /\ 2 * (i * w - a) - 2 * (d * p) <= e
  <2>1. i * w - a \in Int
    OBVIOUS
  <2> QED BY <2>1, RoundingsAreNear
<1>5. t \in Int /\ 2 * (Scale * t) - 2 * i <= f /\ 2 * i - 2 * (Scale * t) <= f
  <2>1. 1 \in Nat \ {0} /\ 1 * Scale = Scale
    BY <1>2
  <2> QED BY <2>1, RoundingsAreNear
<1> HIDE DEF e, f
<1>6. w * (Scale * t) = d * t
  BY <1>2, <1>5
<1> HIDE DEF d
<1>7. d * t \in Int /\ d * g \in Int /\ d * p \in Int
  BY <1>1, <1>3, <1>4, <1>5
<1>8. 2 * (d * t) - 2 * (i * w) <= e /\ 2 * (i * w) - 2 * (d * t) <= e
  <2> DEFINE x == 2 * (Scale * t) - 2 * i
  <2>1. x \in Int /\ x <= f /\ -x <= f
    BY <1>2, <1>5
  <2>2. w * x = 2 * (d * t) - 2 * (i * w)
    <3>1. Scale * t \in Int
      BY <1>2, <1>5
    <3> QED BY <1>6, <3>1
  <2> HIDE DEF x
  <2>3. w * x <= w * f /\ w * (-x) <= w * f
    BY <1>2, <2>1
  <2>4. w * (-x) = -(w * x) /\ w * x \in Int
    BY <2>1
  <2>5. w * x <= e /\ -(w * x) <= e
    BY <1>2, <2>3, <2>4
  <2>6. 2 * (d * t) - 2 * (i * w) <= e /\ -(2 * (d * t) - 2 * (i * w)) <= e
    BY <2>2, <2>5
  <2>7. i * w \in Int
    OBVIOUS
  <2> HIDE DEF x
  <2> QED BY <1>1, <1>7, <2>6, <2>7
<1> DEFINE z == g + p - t
<1>9. z \in Int /\ d * z = d * g + d * p - d * t
  BY <1>1, <1>3, <1>4, <1>5
<1> HIDE DEF z
<1>10. 2 * (d * z) <= 3 * e /\ -(2 * (d * z)) <= 3 * e
  BY <1>1, <1>3, <1>4, <1>7, <1>8, <1>9
<1>11. z \in -1..1
  BY <1>1, <1>9, <1>10, WithinOne
<1> QED BY <1>11 DEF z

(* Two values that add up to whole thousandths, rounded one by one.          *)
LEMMA RestReconciles ==
    ASSUME NEW v \in Int, NEW m \in Int, NEW n \in Roundings(v, 1),
           NEW k \in Roundings(m * Scale - v, 1)
    PROVE  n + k - m \in -1..1
<1> DEFINE e == Reach(1)
<1>1. 1 \in Nat \ {0} /\ Scale \in Nat \ {0} /\ 1 * Scale = Scale
  BY TableAssumption DEF TableAssumption
<1>2. e \in Nat /\ 3 * e < 4 * Scale
  BY <1>1, Precision
<1>3. n \in Int /\ 2 * (Scale * n) - 2 * v <= e /\ 2 * v - 2 * (Scale * n) <= e
  BY <1>1, RoundingsAreNear
<1>4. /\ k \in Int /\ 2 * (Scale * k) - 2 * (m * Scale - v) <= e
      /\ 2 * (m * Scale - v) - 2 * (Scale * k) <= e
  <2>1. m * Scale - v \in Int
    BY <1>1
  <2> QED BY <1>1, <2>1, RoundingsAreNear
<1> HIDE DEF e
<1> DEFINE z == n + k - m
<1>5. z \in Int /\ Scale * z = Scale * n + Scale * k - m * Scale
  BY <1>1, <1>3, <1>4
<1>6. Scale * n \in Int /\ Scale * k \in Int /\ m * Scale \in Int
  BY <1>1, <1>3, <1>4
<1> HIDE DEF z
<1>7. 2 * (Scale * z) <= 3 * e /\ -(2 * (Scale * z)) <= 3 * e
  BY <1>2, <1>3, <1>4, <1>5, <1>6
<1>8. z \in -1..1
  BY <1>1, <1>2, <1>5, <1>7, WithinOne
<1> QED BY <1>8 DEF z

-----------------------------------------------------------------------------
(* Files, indicators and outputs                                             *)

LEMMA IndicatorFacts ==
    /\ N \in Nat \ {0}
    /\ \A k \in 1..N : INDICATORS[k] \in Codes
    /\ \A c \in Codes : \E k \in 1..N : INDICATORS[k] = c
<1>1. INDICATORS \in Seq(Codes) /\ C \in Codes
  BY TableAssumption DEF TableAssumption
<1>2. /\ N \in Nat /\ DOMAIN INDICATORS = 1..N
      /\ \A k \in 1..N : INDICATORS[k] \in Codes
  BY <1>1, LenProperties DEF N
<1>3. \A c \in Codes : \E k \in 1..N : INDICATORS[k] = c
  BY <1>2 DEF Codes, Range
<1> QED BY <1>1, <1>2, <1>3

LEMMA FileFacts ==
    /\ Absent \in File /\ Torn \in File
    /\ Absent.state = "absent" /\ Torn.state = "torn"
    /\ \A e \in 0..Editions : /\ Dumped(e) \in File /\ Dumped(e).edition = e
                              /\ Dumped(e).state = (IF e = 0 THEN "no data" ELSE "whole")
<1>1. Editions \in Nat \ {0}
  BY TableAssumption DEF TableAssumption
<1> QED BY <1>1 DEF Absent, Torn, Dumped, File

LEMMA ChartsAre == Charts = 1..4
BY DEF Charts, Window

(* An interrupted write keeps everything of an output but its end.           *)
LEMMA CutShort ==
    ASSUME NEW o \in Output
    PROVE  /\ [o EXCEPT !.whole = FALSE] \in Output
           /\ [o EXCEPT !.whole = FALSE].build = o.build
           /\ [o EXCEPT !.whole = FALSE].source = o.source
           /\ [o EXCEPT !.whole = FALSE].settled = o.settled
BY DEF Output

-----------------------------------------------------------------------------
(* Types                                                                     *)

LEMMA TypeInit == Init => TypeOK
<1> SUFFICES ASSUME Init PROVE TypeOK
  OBVIOUS
<1>1. Editions \in Nat \ {0} /\ MaxRuns \in Nat
  BY TableAssumption, RunsAssumption DEF TableAssumption, RunsAssumption
<1>2. raw \in [Codes -> File]
  <2>1. PICK f \in {Absent, Dumped(1)} : raw = [c \in Codes |-> f]
    BY DEF Init
  <2>2. f \in File
    <3>1. 1 \in 0..Editions
      BY <1>1
    <3> QED BY <2>1, <3>1, FileFacts
  <2> QED BY <2>1, <2>2
<1>3. csv \in Output
  <2>1. [c \in Codes |-> 1] \in [Codes -> 1..Editions]
    BY <1>1
  <2> QED BY <1>1, <2>1 DEF Init, Output, Source
<1>4. charts \in [Charts -> Output]
  BY <1>3 DEF Init
<1>5. 1 \in (1..N) \cup Charts /\ 1 \in 1..N + 1
  BY IndicatorFacts
<1>6. loaded \in [Codes -> 0..Editions]
  BY <1>1 DEF Init
<1>7. {reported, finished, revised, unsettled, complete} \subseteq BOOLEAN
  BY DEF Init
<1>8. /\ edition = 1 /\ icsd \in BOOLEAN /\ fpc = "idle" /\ fi = 1 /\ payload = 0
      /\ fetches = 0 /\ bpc = "idle" /\ bi = 1 /\ builds = 0 /\ torn = {}
  BY DEF Init
<1> QED BY <1>1, <1>2, <1>3, <1>4, <1>5, <1>6, <1>7, <1>8 DEF TypeOK

LEMMA ReviseType == TypeOK /\ Revise => TypeOK'
BY TableAssumption DEF TypeOK, Revise, buildVars, TableAssumption

LEMMA FetchType ==
    ASSUME TypeOK, StartFetch \/ GetFails \/ Get \/ Dump \/ FinishFetch \/ FetchEnds
    PROVE  TypeOK'
<1>1. Editions \in Nat \ {0} /\ MaxRuns \in Nat
  BY TableAssumption, RunsAssumption DEF TableAssumption, RunsAssumption
<1>2. CASE StartFetch
  <2>1. {reported', finished', revised', unsettled', complete'} \subseteq BOOLEAN
    BY <1>2 DEF TypeOK, StartFetch, buildVars
  <2>2. fetches' \in 0..MaxRuns /\ builds' \in 0..MaxRuns - fetches' /\ fi' \in 1..N + 1
    BY <1>1, <1>2, IndicatorFacts DEF TypeOK, StartFetch, buildVars
  <2> QED BY <1>2, <2>1, <2>2 DEF TypeOK, StartFetch, buildVars
<1>3. CASE GetFails
  <2>1. {reported', finished', revised', unsettled', complete'} \subseteq BOOLEAN
    BY <1>3 DEF TypeOK, GetFails, buildVars
  <2>2. fi' \in 1..N + 1
    <3>1. fi' = fi + 1 /\ fi <= N
      BY <1>3 DEF GetFails
    <3>2. fi \in 1..N + 1 /\ N \in Nat
      BY IndicatorFacts DEF TypeOK
    <3> QED BY <3>1, <3>2
  <2> QED BY <1>3, <2>1, <2>2 DEF TypeOK, GetFails, buildVars
<1>4. CASE Get
  <2>1. payload' \in 0..Editions
    <3>1. payload' = edition \/ payload' = 0
      BY <1>4 DEF Get
    <3> QED BY <1>1, <3>1 DEF TypeOK
  <2>2. raw' \in [Codes -> File]
    BY <1>4, FileFacts DEF Get, TypeOK
  <2> QED BY <1>1, <1>4, <2>1, <2>2 DEF TypeOK, Get, buildVars
<1>5. CASE Dump
  <2>1. raw' \in [Codes -> File]
    BY <1>5, FileFacts DEF Dump, TypeOK
  <2>2. fi' \in 1..N + 1
    BY <1>5, IndicatorFacts DEF Dump, TypeOK
  <2> QED BY <1>1, <1>5, <2>1, <2>2 DEF TypeOK, Dump, buildVars
<1>6. CASE FinishFetch
  BY <1>1, <1>6, IndicatorFacts DEF TypeOK, FinishFetch, buildVars
<1>7. CASE FetchEnds
  <2>1. torn' \subseteq Codes
    BY <1>7, IndicatorFacts DEF FetchEnds, TypeOK
  <2> QED BY <1>1, <1>7, <2>1, IndicatorFacts DEF TypeOK, FetchEnds, buildVars
<1> QED BY <1>2, <1>3, <1>4, <1>5, <1>6, <1>7

LEMMA ScriptEndsType ==
    ASSUME TypeOK, ScriptEnds
    PROVE  /\ bpc' = "idle" /\ bi' \in (1..N) \cup Charts
           /\ loaded' \in [Codes -> 0..Editions] /\ unsettled' \in BOOLEAN
<1>1. Editions \in Nat \ {0}
  BY TableAssumption DEF TableAssumption
<1>2. bpc' = "idle" /\ bi' = 1 /\ loaded' = [c \in Codes |-> 0] /\ unsettled' = FALSE
  BY DEF ScriptEnds
<1>3. loaded' \in [Codes -> 0..Editions]
  BY <1>1, <1>2
<1>4. bi' \in (1..N) \cup Charts
  BY <1>2, IndicatorFacts
<1> QED BY <1>2, <1>3, <1>4

LEMMA BuildType ==
    ASSUME TypeOK, Files,
           StartBuild \/ LoadIndicator \/ LoadRaises \/ WriteCsv \/ Plot \/ BuildEnds
    PROVE  TypeOK'
<1>1. Editions \in Nat \ {0} /\ MaxRuns \in Nat
  BY TableAssumption, RunsAssumption DEF TableAssumption, RunsAssumption
<1>2. CASE StartBuild
  <2>1. {reported', finished', revised', unsettled', complete'} \subseteq BOOLEAN
    BY <1>2 DEF TypeOK, StartBuild, CleanFetch, fetchVars
  <2>2. /\ fetches' = fetches /\ builds' \in 0..MaxRuns - fetches
        /\ bpc' = "load" /\ bi' = 1 /\ bi' \in 1..N
    BY <1>1, <1>2, IndicatorFacts DEF TypeOK, StartBuild, fetchVars
  <2> QED BY <1>2, <2>1, <2>2 DEF TypeOK, StartBuild, fetchVars
<1>3. CASE LoadIndicator
  <2> DEFINE c == INDICATORS[bi]
  <2>1. /\ bpc = "load" /\ bi \in 1..N /\ c \in Codes
        /\ loaded' = [loaded EXCEPT ![c] = raw[c].edition]
        /\ raw[c] \in File /\ raw[c].state = "whole"
    BY <1>3, IndicatorFacts, ChartsAre DEF LoadIndicator, Loads, TypeOK
  <2>2. raw[c].edition \in 0..Editions /\ raw[c].edition # 0
    BY <2>1 DEF File, Files
  <2>3. /\ loaded' \in [Codes -> 0..Editions]
        /\ \A k \in 1..bi : loaded'[INDICATORS[k]] # 0
    <3>1. \A k \in 1..bi - 1 : loaded[INDICATORS[k]] # 0
      BY <2>1 DEF TypeOK
    <3>2. \A k \in 1..bi : k \in 1..bi - 1 \/ k = bi
      BY <2>1
    <3>3. \A k \in 1..bi : INDICATORS[k] \in Codes
      BY <2>1, IndicatorFacts
    <3> HIDE DEF c
    <3>4. loaded \in [Codes -> 0..Editions]
      BY DEF TypeOK
    <3> QED BY <2>1, <2>2, <3>1, <3>2, <3>3, <3>4 DEF c
  <2>4. CASE bi < N
    <3>1. bpc' = "load" /\ bi' = bi + 1 /\ bi' \in 1..N
      BY <1>3, <2>1, <2>4, IndicatorFacts DEF LoadIndicator
    <3>2. bi' - 1 = bi
      BY <2>1, <3>1
    <3> QED BY <1>3, <2>3, <3>1, <3>2 DEF LoadIndicator, TypeOK, fetchVars
  <2>5. CASE ~(bi < N)
    <3>1. bpc' = "write" /\ bi' = 1 /\ bi' \in 1..N
      BY <1>3, <2>5, IndicatorFacts DEF LoadIndicator
    <3>2. bi = N
      BY <2>1, <2>5, IndicatorFacts
    <3>3. \A d \in Codes : loaded'[d] # 0
      BY <2>3, <3>2, IndicatorFacts
    <3> QED BY <1>3, <2>3, <3>1, <3>3 DEF LoadIndicator, TypeOK, fetchVars
  <2> QED BY <2>4, <2>5
<1>4. CASE LoadRaises
  BY <1>4, ScriptEndsType DEF TypeOK, LoadRaises, fetchVars
<1>5. CASE WriteCsv
  <2>1. loaded \in [Codes -> 1..Editions] /\ icsd \in BOOLEAN
    <3>1. loaded \in [Codes -> 0..Editions] /\ \A c \in Codes : loaded[c] # 0
      BY <1>5 DEF WriteCsv, TypeOK
    <3>2. \A c \in Codes : loaded[c] \in 1..Editions
      BY <1>1, <3>1
    <3> QED BY <3>1, <3>2 DEF TypeOK
  <2>2. [edition |-> loaded, icsd |-> icsd] \in Source
    BY <2>1 DEF Source
  <2>3. builds \in 0..MaxRuns
    BY <1>1 DEF TypeOK
  <2>4. csv' \in Output
    BY <1>5, <2>2, <2>3 DEF WriteCsv, OutputOf, Output
  <2>5. bi' \in Charts /\ bi' \in (1..N) \cup Charts /\ bpc' = "plot"
    BY <1>5, ChartsAre DEF WriteCsv
  <2> QED BY <1>5, <2>4, <2>5 DEF WriteCsv, TypeOK, fetchVars
<1>6. CASE Plot
  <2>1. csv \in Output /\ csv.source \in Source /\ builds \in 0..MaxRuns
    BY <1>1 DEF TypeOK, Output
  <2>2. OutputOf(csv.source) \in Output
    BY <2>1 DEF OutputOf, Output
  <2>3. charts' \in [Charts -> Output]
    BY <1>6, <2>2 DEF Plot, TypeOK
  <2>4. CASE bi < 4
    <3>1. bi' \in Charts
      BY <1>6, <2>4, ChartsAre DEF Plot, TypeOK
    <3>2. bi' \in (1..N) \cup Charts
      BY <3>1
    <3> QED BY <1>6, <2>3, <2>4, <3>1, <3>2 DEF Plot, TypeOK, fetchVars
  <2>5. CASE ~(bi < 4)
    <3>1. /\ bpc' = "idle" /\ bi' \in (1..N) \cup Charts
          /\ loaded' \in [Codes -> 0..Editions] /\ unsettled' \in BOOLEAN
      BY <1>6, <2>5, ScriptEndsType DEF Plot
    <3> QED BY <1>6, <2>3, <2>5, <3>1 DEF Plot, TypeOK, fetchVars
  <2> QED BY <2>4, <2>5
<1>7. CASE BuildEnds
  <2>1. csv' \in Output
    BY <1>7, CutShort DEF BuildEnds, TypeOK
  <2>2. charts' \in [Charts -> Output]
    BY <1>7, CutShort DEF BuildEnds, TypeOK
  <2> QED BY <1>7, <2>1, <2>2, ScriptEndsType DEF BuildEnds, TypeOK, fetchVars
<1> QED BY <1>2, <1>3, <1>4, <1>5, <1>6, <1>7

-----------------------------------------------------------------------------
(* What the fetches leave                                                    *)

LEMMA FetchInvFetches ==
    ASSUME TypeOK, FetchInv,
           StartFetch \/ GetFails \/ Get \/ Dump \/ FinishFetch \/ FetchEnds
    PROVE  FetchInv'
<1>1. CASE StartFetch
  <2>1. /\ fpc' = "get" /\ fi' = 1 /\ finished' = FALSE /\ raw' = raw /\ torn' = torn
        /\ fpc = "idle"
    BY <1>1 DEF StartFetch
  <2>2. 1..fi' - 1 = {}
    BY <2>1
  <2> QED BY <2>1, <2>2 DEF FetchInv, Responses, Files, Fetched, DataKept
<1>2. CASE GetFails
  <2>1. fpc = "get" /\ fpc' = fpc /\ reported' = TRUE /\ finished' = finished
        /\ raw' = raw /\ torn' = torn
    BY <1>2 DEF GetFails
  <2> QED BY <2>1 DEF FetchInv, Responses, Files, Fetched, DataKept
<1>3. CASE Get
  <2> DEFINE c == INDICATORS[fi]
  <2>1. /\ fpc = "get" /\ fpc' = "dump" /\ fi' = fi /\ fi \in 1..N /\ c \in Codes
        /\ raw' = [raw EXCEPT ![c] = Torn] /\ torn' = torn
        /\ edition' = edition /\ reported' = reported /\ revised' = revised
        /\ finished' = finished
    <3>1. /\ fpc = "get" /\ fpc' = "dump" /\ fi' = fi /\ fi <= N
          /\ raw' = [raw EXCEPT ![c] = Torn] /\ torn' = torn
          /\ edition' = edition /\ reported' = reported /\ revised' = revised
          /\ finished' = finished
      BY <1>3 DEF Get
    <3>2. fi \in 1..N
      BY <3>1, IndicatorFacts DEF TypeOK
    <3> QED BY <3>1, <3>2, IndicatorFacts
  <2>2. payload' = edition
    BY <1>3 DEF Get, Unusable
  <2>3. edition \in Nat \ {0} /\ raw \in [Codes -> File]
    BY TableAssumption DEF TypeOK, TableAssumption
  <2> HIDE DEF c
  <2>4. raw'[c] = Torn /\ Torn.state = "torn" /\ \A d \in Codes : d # c => raw'[d] = raw[d]
    BY <2>1, <2>3, FileFacts
  <2>5. Responses' /\ Files'
    BY <2>1, <2>2, <2>3, <2>4 DEF FetchInv, Responses, Files
  <2>6. Fetched'
    <3> SUFFICES ASSUME ~reported, ~revised, NEW k \in 1..fi - 1
                 PROVE  raw'[INDICATORS[k]] = Dumped(edition) \/ INDICATORS[k] = c
      BY <2>1 DEF FetchInv, Fetched, c
    <3>1. raw[INDICATORS[k]] = Dumped(edition)
      BY <2>1 DEF FetchInv, Fetched
    <3>2. INDICATORS[k] \in Codes
      BY <2>1, IndicatorFacts
    <3> QED BY <2>4, <3>1, <3>2
  <2>7. DataKept'
    BY <2>1, <2>4 DEF FetchInv, DataKept, c
  <2> QED BY <2>5, <2>6, <2>7 DEF FetchInv
<1>4. CASE Dump
  <2> DEFINE c == INDICATORS[fi]
  <2>1. /\ fpc = "dump" /\ fpc' = "get" /\ fi' = fi + 1 /\ fi \in 1..N /\ c \in Codes
        /\ raw' = [raw EXCEPT ![c] = Dumped(payload)] /\ torn' = torn \ {c}
        /\ edition' = edition /\ reported' = reported /\ revised' = revised
        /\ finished' = finished
    BY <1>4, IndicatorFacts DEF Dump, TypeOK
  <2>2. payload # 0 /\ payload \in 0..Editions /\ (~revised => payload = edition)
    BY <2>1 DEF FetchInv, Responses, TypeOK
  <2>3. raw \in [Codes -> File]
    BY DEF TypeOK
  <2> HIDE DEF c
  <2>4. /\ raw'[c] = Dumped(payload) /\ Dumped(payload).state = "whole"
        /\ Dumped(payload).edition # 0
        /\ \A d \in Codes : d # c => raw'[d] = raw[d]
    BY <2>1, <2>2, <2>3, FileFacts
  <2>5. Responses' /\ Files'
    BY <2>1, <2>4 DEF FetchInv, Responses, Files
  <2>6. Fetched'
    <3> SUFFICES ASSUME ~reported, ~revised, NEW k \in 1..fi
                 PROVE  raw'[INDICATORS[k]] = Dumped(edition)
      <4>1. fi' - 1 = fi
        BY <2>1
      <4> QED BY <2>1, <4>1 DEF FetchInv, Fetched
    <3>1. CASE INDICATORS[k] = c
      BY <2>2, <2>4, <3>1
    <3>2. CASE INDICATORS[k] # c
      <4>1. k \in 1..fi - 1
        BY <2>1, <3>2 DEF c
      <4>2. raw[INDICATORS[k]] = Dumped(edition)
        BY <2>1, <3>2, <4>1 DEF FetchInv, Fetched, c
      <4>3. INDICATORS[k] \in Codes
        BY <2>1, IndicatorFacts
      <4> QED BY <2>4, <3>2, <4>2, <4>3
    <3> QED BY <3>1, <3>2
  <2>7. DataKept'
    BY <2>1, <2>4 DEF FetchInv, DataKept, c
  <2> QED BY <2>5, <2>6, <2>7 DEF FetchInv
<1>5. CASE FinishFetch
  <2>1. fpc = "get" /\ fpc' = "idle" /\ raw' = raw /\ torn' = torn
    BY <1>5 DEF FinishFetch
  <2> QED BY <2>1 DEF FetchInv, Responses, Files, Fetched, DataKept
<1>6. CASE FetchEnds
  <2>1. /\ fpc' = "idle" /\ raw' = raw
        /\ torn' = IF fpc = "dump" THEN torn \cup {INDICATORS[fi]} ELSE torn
    BY <1>6 DEF FetchEnds
  <2> QED BY <2>1 DEF FetchInv, Responses, Files, Fetched, DataKept
<1> QED BY <1>1, <1>2, <1>3, <1>4, <1>5, <1>6

LEMMA FetchInvOthers ==
    ASSUME FetchInv, Revise \/ UNCHANGED <<edition, fetchVars>>
    PROVE  FetchInv'
<1>1. CASE Revise
  <2>1. /\ revised' = (revised \/ fpc # "idle") /\ raw' = raw /\ fpc' = fpc /\ fi' = fi
        /\ payload' = payload /\ torn' = torn /\ finished' = finished
    BY <1>1 DEF Revise
  <2> QED BY <2>1 DEF FetchInv, Responses, Files, Fetched, DataKept
<1>2. CASE UNCHANGED <<edition, fetchVars>>
  BY <1>2 DEF fetchVars, FetchInv, Responses, Files, Fetched, DataKept
<1> QED BY <1>1, <1>2

-----------------------------------------------------------------------------
(* No mix without a sign                                                     *)

LEMMA MixInvFetches ==
    ASSUME TypeOK, FetchInv, MixInv,
           StartFetch \/ GetFails \/ Get \/ Dump \/ FinishFetch \/ FetchEnds
    PROVE  MixInv'
<1>1. csv' = csv /\ bpc' = bpc /\ bi' = bi /\ loaded' = loaded
  BY DEF StartFetch, GetFails, Get, Dump, FinishFetch, FetchEnds, buildVars
<1>2. NoSilentMix'
  BY <1>1 DEF MixInv, NoSilentMix
<1>3. CASE StartFetch
  <2>1. fpc' = "get" /\ unsettled' = (unsettled \/ bpc = "load")
    BY <1>3 DEF StartFetch
  <2> QED BY <1>1, <1>2, <2>1 DEF MixInv, OneEdition, CleanFetch, Read
<1>4. ASSUME fpc # "idle", unsettled' = unsettled
      PROVE  Read'
  BY <1>1, <1>4 DEF MixInv, Read, CleanFetch
<1>5. CASE GetFails \/ Get \/ Dump
  <2>1. fpc # "idle" /\ fpc' # "idle" /\ unsettled' = unsettled
    BY <1>5 DEF GetFails, Get, Dump
  <2> QED BY <1>2, <1>4, <2>1 DEF MixInv, OneEdition, CleanFetch
<1>6. CASE FinishFetch
  <2>1. /\ fpc = "get" /\ fi = N + 1 /\ raw' = raw /\ reported' = reported
        /\ revised' = revised /\ unsettled' = unsettled
    BY <1>6 DEF FinishFetch
  <2>2. OneEdition'
    <3> SUFFICES ASSUME ~reported, ~revised, NEW c \in Codes, NEW d \in Codes
                 PROVE  raw[c] = raw[d]
      BY <2>1 DEF OneEdition, CleanFetch
    <3>1. \A k \in 1..N : raw[INDICATORS[k]] = Dumped(edition)
      <4>1. fi - 1 = N
        BY <2>1, IndicatorFacts
      <4> QED BY <2>1, <4>1 DEF FetchInv, Fetched
    <3> QED BY <3>1, IndicatorFacts
  <2> QED BY <1>2, <1>4, <2>1, <2>2 DEF MixInv
<1>7. CASE FetchEnds
  <2>1. fpc # "idle" /\ finished' = finished /\ unsettled' = unsettled
    BY <1>7 DEF FetchEnds
  <2> QED BY <1>2, <1>4, <2>1 DEF MixInv, OneEdition, CleanFetch, FetchInv, Fetched
<1> QED BY <1>3, <1>5, <1>6, <1>7

LEMMA MixInvBuilds ==
    ASSUME TypeOK, MixInv,
           \/ Revise \/ UNCHANGED vars
           \/ StartBuild \/ LoadIndicator \/ LoadRaises \/ WriteCsv \/ Plot \/ BuildEnds
    PROVE  MixInv'
<1>1. CASE Revise
  <2>1. /\ revised' = (revised \/ fpc # "idle") /\ raw' = raw /\ fpc' = fpc
        /\ finished' = finished /\ reported' = reported /\ bpc' = bpc /\ bi' = bi
        /\ loaded' = loaded /\ csv' = csv /\ unsettled' = unsettled
    BY <1>1 DEF Revise, buildVars
  <2> QED BY <2>1 DEF MixInv, OneEdition, CleanFetch, Read, NoSilentMix
<1>2. CASE UNCHANGED vars
  BY <1>2 DEF vars, fetchVars, buildVars, MixInv, OneEdition, CleanFetch, Read, NoSilentMix
<1>3. ASSUME UNCHANGED fetchVars PROVE OneEdition' /\ (CleanFetch' <=> CleanFetch) /\ raw' = raw
  BY <1>3 DEF fetchVars, MixInv, OneEdition, CleanFetch
<1>4. CASE StartBuild
  <2>1. /\ UNCHANGED fetchVars /\ csv' = csv /\ bpc' = "load" /\ bi' = 1
        /\ unsettled' = ~CleanFetch
    BY <1>4 DEF StartBuild
  <2>2. 1..bi' - 1 = {}
    BY <2>1
  <2>3. Read'
    BY <1>3, <2>1, <2>2 DEF Read
  <2> QED BY <1>3, <2>1, <2>3 DEF MixInv, NoSilentMix
<1>5. CASE LoadIndicator
  <2> DEFINE c == INDICATORS[bi]
  <2>1. /\ UNCHANGED fetchVars /\ csv' = csv /\ bpc = "load" /\ bi \in 1..N
        /\ c \in Codes /\ loaded' = [loaded EXCEPT ![c] = raw[c].edition]
        /\ unsettled' = unsettled
    BY <1>5, IndicatorFacts, ChartsAre DEF LoadIndicator, TypeOK
  <2>2. loaded \in [Codes -> 0..Editions]
    BY DEF TypeOK
  <2>3. /\ OneEdition' /\ (CleanFetch' <=> CleanFetch) /\ raw' = raw
    BY <1>3, <2>1
  <2>4. ASSUME ~unsettled
        PROVE  CleanFetch /\ \A k \in 1..bi :
                 loaded'[INDICATORS[k]] = raw[INDICATORS[k]].edition
    <3>1. CleanFetch /\ \A k \in 1..bi - 1 :
             loaded[INDICATORS[k]] = raw[INDICATORS[k]].edition
      BY <2>1, <2>4 DEF MixInv, Read
    <3>2. \A k \in 1..bi : (k \in 1..bi - 1 \/ k = bi) /\ INDICATORS[k] \in Codes
      BY <2>1, IndicatorFacts
    <3> HIDE DEF c
    <3> QED BY <2>1, <2>2, <3>1, <3>2 DEF c
  <2>5. CASE bi < N
    <3>1. bpc' = "load" /\ bi' = bi + 1 /\ bi' - 1 = bi
      BY <1>5, <2>1, <2>5 DEF LoadIndicator
    <3>2. Read'
      BY <2>1, <2>3, <2>4, <3>1 DEF Read
    <3> QED BY <2>1, <2>3, <3>2 DEF MixInv, NoSilentMix
  <2>6. CASE ~(bi < N)
    <3>1. bpc' = "write" /\ bi = N
      BY <1>5, <2>1, <2>6, IndicatorFacts DEF LoadIndicator
    <3>2. ASSUME ~unsettled, NEW d \in Codes, NEW e \in Codes
          PROVE  loaded'[d] = loaded'[e]
      <4>1. loaded'[d] = raw[d].edition /\ loaded'[e] = raw[e].edition
        BY <2>4, <3>1, <3>2, IndicatorFacts
      <4>2. raw[d] = raw[e]
        BY <2>4, <3>2 DEF MixInv, OneEdition
      <4> QED BY <4>1, <4>2
    <3>3. Read'
      BY <2>1, <3>1, <3>2 DEF Read
    <3> QED BY <2>1, <2>3, <3>3 DEF MixInv, NoSilentMix
  <2> QED BY <2>5, <2>6
<1>6. CASE LoadRaises
  <2>1. UNCHANGED fetchVars /\ csv' = csv /\ bpc' = "idle"
    BY <1>6 DEF LoadRaises, ScriptEnds
  <2> QED BY <1>3, <2>1 DEF MixInv, NoSilentMix, Read
<1>7. CASE WriteCsv
  <2>1. /\ UNCHANGED fetchVars /\ bpc = "write" /\ bpc' = "plot"
        /\ csv'.settled = ~unsettled /\ csv'.source.edition = loaded
    BY <1>7 DEF WriteCsv, OutputOf
  <2>2. ~unsettled => \A c, d \in Codes : loaded[c] = loaded[d]
    BY <2>1 DEF MixInv, Read
  <2> QED BY <1>3, <2>1, <2>2 DEF MixInv, NoSilentMix, Read
<1>8. CASE Plot
  <2>1. UNCHANGED fetchVars /\ csv' = csv /\ bpc' \in {"idle", "plot"}
    BY <1>8 DEF Plot, ScriptEnds
  <2> QED BY <1>3, <2>1 DEF MixInv, NoSilentMix, Read
<1>9. CASE BuildEnds
  <2>1. UNCHANGED fetchVars /\ bpc' = "idle"
        /\ csv' \in {csv, [csv EXCEPT !.whole = FALSE]}
    BY <1>9 DEF BuildEnds, ScriptEnds
  <2>2. csv'.source = csv.source /\ csv'.settled = csv.settled
    BY <2>1, CutShort DEF TypeOK
  <2> QED BY <1>3, <2>1, <2>2 DEF MixInv, NoSilentMix, Read
<1> QED BY <1>1, <1>2, <1>4, <1>5, <1>6, <1>7, <1>8, <1>9

-----------------------------------------------------------------------------
(* The CSV file and the charts                                               *)

LEMMA OutputFacts ==
    ASSUME TypeOK
    PROVE  /\ builds \in Nat /\ csv \in Output /\ csv.build \in Nat
           /\ \A k \in 1..4 : charts[k] \in Output /\ charts[k].build \in Nat
           /\ charts \in [1..4 -> Output]
<1>1. csv \in Output /\ charts \in [1..4 -> Output]
  BY ChartsAre DEF TypeOK
<1>2. MaxRuns \in Nat
  BY RunsAssumption DEF RunsAssumption
<1>3. \A o \in Output : o.build \in Nat
  BY <1>2 DEF Output
<1>4. builds \in Nat
  BY <1>2 DEF TypeOK
<1> QED BY <1>1, <1>3, <1>4

(* ChartsFollow chart by chart.                                              *)
LEMMA FollowFacts ==
    ASSUME TypeOK, ChartsFollow
    PROVE  /\ charts[1].build <= csv.build /\ charts[2].build <= charts[1].build
           /\ charts[3].build <= charts[2].build /\ charts[4].build <= charts[3].build
           /\ \A k \in 1..4 : charts[k].build <= csv.build
<1>1. /\ charts[1].build <= csv.build /\ charts[2].build <= charts[1].build
      /\ charts[3].build <= charts[2].build /\ charts[4].build <= charts[3].build
  BY ChartsAre DEF ChartsFollow
<1>2. /\ csv.build \in Nat /\ charts[1].build \in Nat /\ charts[2].build \in Nat
      /\ charts[3].build \in Nat /\ charts[4].build \in Nat
  BY OutputFacts
<1>3. \A k \in 1..4 : k = 1 \/ k = 2 \/ k = 3 \/ k = 4
  OBVIOUS
<1> QED BY <1>1, <1>2, <1>3

LEMMA OutputInvBuilds ==
    ASSUME TypeOK, OutputInv,
           StartBuild \/ LoadIndicator \/ LoadRaises \/ WriteCsv
    PROVE  OutputInv'
<1>1. CASE StartBuild
  <2>1. /\ bpc = "idle" /\ bpc' = "load" /\ builds' = builds + 1 /\ complete' = FALSE
        /\ csv' = csv /\ charts' = charts
    BY <1>1 DEF StartBuild
  <2>2. builds \in Nat /\ csv.build \in Nat
    BY OutputFacts
  <2>3. Progress'
    BY <2>1, <2>2 DEF OutputInv, Progress
  <2>4. ChartsFollow'
    BY <2>1 DEF OutputInv, ChartsFollow
  <2> QED BY <2>3, <2>4 DEF OutputInv
<1>2. CASE LoadIndicator
  <2>1. /\ bpc = "load" /\ bpc' \in {"load", "write"} /\ builds' = builds
        /\ complete' = complete /\ csv' = csv /\ charts' = charts
    BY <1>2 DEF LoadIndicator
  <2> QED BY <2>1 DEF OutputInv, Progress, ChartsFollow
<1>3. CASE LoadRaises
  <2>1. /\ bpc' = "idle" /\ builds' = builds
        /\ complete' = complete /\ csv' = csv /\ charts' = charts
    BY <1>3 DEF LoadRaises, ScriptEnds
  <2> QED BY <2>1 DEF OutputInv, Progress, ChartsFollow
<1>4. CASE WriteCsv
  <2> DEFINE s == [edition |-> loaded, icsd |-> icsd]
  <2>1. /\ bpc = "write" /\ bpc' = "plot" /\ bi' = 1 /\ builds' = builds
        /\ complete' = complete /\ charts' = charts /\ csv' = OutputOf(s)
        /\ unsettled' = unsettled
    BY <1>4 DEF WriteCsv
  <2> HIDE DEF s
  <2>2. csv'.build = builds /\ csv'.source = s
    BY <2>1 DEF OutputOf
  <2>3. csv' = OutputOf(csv.source)'
    BY <2>1, <2>2 DEF OutputOf
  <2>4. builds \in Nat /\ csv.build < builds /\ ~complete /\ csv.build \in Nat
    BY <2>1, OutputFacts DEF OutputInv, Progress
  <2>5. 1..bi' - 1 = {}
    BY <2>1
  <2>6. Progress'
    BY <2>1, <2>2, <2>3, <2>4, <2>5 DEF Progress
  <2>7. \A k \in 1..4 : charts[k].build < builds
    BY <2>4, FollowFacts, OutputFacts DEF OutputInv
  <2>8. ASSUME NEW k \in 1..4
        PROVE  charts'[k].build <= (IF k = 1 THEN csv ELSE charts[k - 1])'.build
    <3>1. CASE k = 1
      <4>1. charts[1].build < builds /\ charts[1].build \in Nat
        BY <2>7, OutputFacts
      <4> QED BY <2>1, <2>2, <2>4, <3>1, <4>1
    <3>2. CASE k # 1
      BY <2>1, <3>2, ChartsAre DEF OutputInv, ChartsFollow
    <3> QED BY <3>1, <3>2
  <2>9. \A k \in 1..4 : charts'[k].build # csv'.build
    BY <2>1, <2>2, <2>4, <2>7, OutputFacts
  <2>10. ChartsFollow'
    BY <2>1, <2>4, <2>8, <2>9, ChartsAre DEF ChartsFollow
  <2> QED BY <2>6, <2>10 DEF OutputInv
<1> QED BY <1>1, <1>2, <1>3, <1>4

LEMMA OutputInvPlot ==
    ASSUME TypeOK, OutputInv, Plot
    PROVE  OutputInv'
<1>1. /\ bpc = "plot" /\ bi \in 1..4 /\ builds' = builds /\ csv' = csv
      /\ charts' = [charts EXCEPT ![bi] = OutputOf(csv.source)]
  BY ChartsAre DEF Plot, TypeOK
<1>2. /\ csv = OutputOf(csv.source) /\ \A k \in 1..bi - 1 : charts[k] = csv
      /\ ~complete
  BY <1>1 DEF OutputInv, Progress
<1>3. /\ \A k \in 1..4 : k # bi => charts'[k] = charts[k]
      /\ charts'[bi] = csv /\ csv.build = builds
  <2>1. charts \in [1..4 -> Output]
    BY OutputFacts
  <2>2. charts' = [charts EXCEPT ![bi] = csv]
    BY <1>1, <1>2
  <2>3. OutputOf(csv.source).build = builds
    BY DEF OutputOf
  <2> QED BY <1>1, <1>2, <2>1, <2>2, <2>3
<1>4. \A k \in 1..bi : charts'[k] = csv
  BY <1>1, <1>2, <1>3
<1>5. ASSUME NEW k \in 1..4
      PROVE  charts'[k].build <= (IF k = 1 THEN csv ELSE charts[k - 1])'.build
  <2>1. csv.build \in Nat /\ charts[k].build \in Nat /\ charts[k].build <= csv.build
    BY FollowFacts, OutputFacts DEF OutputInv
  <2>2. CASE k <= bi
    <3>1. charts'[k] = csv
      BY <1>4, <2>2
    <3>2. k # 1 => k - 1 \in 1..bi
      BY <1>1, <2>2
    <3>3. k # 1 => charts'[k - 1] = csv
      BY <1>4, <3>2
    <3> QED BY <1>1, <2>1, <3>1, <3>3
  <2>3. CASE k = bi + 1
    <3>1. charts'[k] = charts[k] /\ charts'[k - 1] = csv /\ k # 1
      BY <1>1, <1>3, <2>3
    <3> QED BY <2>1, <3>1
  <2>4. CASE k > bi + 1
    <3>1. /\ charts'[k] = charts[k] /\ charts'[k - 1] = charts[k - 1] /\ k # 1
          /\ charts[k].build <= charts[k - 1].build
      BY <1>1, <1>3, <2>4, ChartsAre DEF OutputInv, ChartsFollow
    <3> QED BY <3>1
  <2> QED BY <1>1, <2>2, <2>3, <2>4
<1>6. \A k \in 1..4 : charts'[k].build = csv'.build => charts'[k].source = csv'.source
  BY <1>1, <1>3, ChartsAre DEF OutputInv, ChartsFollow
<1>7. CASE bi < 4
  <2>1. bi' = bi + 1 /\ bi' - 1 = bi /\ bpc' = bpc /\ complete' = complete /\ unsettled' = unsettled
    BY <1>1, <1>7 DEF Plot
  <2>2. csv' = OutputOf(csv.source)'
    BY <1>1, <1>2, <2>1 DEF OutputOf
  <2>3. Progress'
    BY <1>1, <1>2, <1>4, <2>1, <2>2 DEF OutputInv, Progress
  <2> QED BY <1>2, <1>5, <1>6, <2>1, <2>3, ChartsAre DEF OutputInv, ChartsFollow
<1>8. CASE bi = 4
  <2>1. bpc' = "idle" /\ complete' = TRUE
    BY <1>8 DEF Plot, ScriptEnds
  <2>2. csv.whole
    <3>1. OutputOf(csv.source).whole = TRUE
      BY DEF OutputOf
    <3> QED BY <1>2, <3>1
  <2>3. \A k \in 1..4 : charts'[k] = csv'
    BY <1>1, <1>4, <1>8
  <2>4. Progress'
    BY <1>1, <2>1 DEF OutputInv, Progress
  <2> QED BY <1>1, <1>5, <1>6, <2>2, <2>3, <2>4, ChartsAre DEF OutputInv, ChartsFollow
<1> QED BY <1>1, <1>7, <1>8

LEMMA OutputInvEnds ==
    ASSUME TypeOK, OutputInv, BuildEnds
    PROVE  OutputInv'
<1>1. /\ bpc # "idle" /\ bpc' = "idle" /\ builds' = builds /\ complete' = complete
  BY DEF BuildEnds, ScriptEnds
<1>2. csv'.build = csv.build /\ csv'.source = csv.source
  BY CutShort DEF BuildEnds, TypeOK
<1>3. \A k \in Charts : charts'[k].build = charts[k].build /\ charts'[k].source = charts[k].source
  <2>1. \/ charts' = charts
        \/ bi \in Charts /\ charts' = [charts EXCEPT ![bi] = [charts[bi] EXCEPT !.whole = FALSE]]
    BY DEF BuildEnds, TypeOK
  <2>2. charts \in [Charts -> Output]
    BY DEF TypeOK
  <2>3. ASSUME bi \in Charts, NEW o, o = [charts[bi] EXCEPT !.whole = FALSE],
               charts' = [charts EXCEPT ![bi] = o]
        PROVE  \A k \in Charts : charts'[k].build = charts[k].build
                                 /\ charts'[k].source = charts[k].source
    <3>1. o.build = charts[bi].build /\ o.source = charts[bi].source
      BY <2>2, <2>3, CutShort
    <3>2. \A k \in Charts : charts'[k] = IF k = bi THEN o ELSE charts[k]
      BY <2>2, <2>3
    <3> QED BY <3>1, <3>2
  <2> QED BY <2>1, <2>3
<1>4. ~complete
  BY <1>1 DEF OutputInv, Progress
<1>5. Progress'
  BY <1>1, <1>2 DEF OutputInv, Progress
<1>6. \A k \in Charts : k # 1 => k - 1 \in Charts
  BY ChartsAre
<1>7. ASSUME NEW k \in Charts
      PROVE  charts'[k].build <= (IF k = 1 THEN csv ELSE charts[k - 1])'.build
  BY <1>2, <1>3, <1>6 DEF OutputInv, ChartsFollow
<1>8. ChartsFollow'
  BY <1>1, <1>2, <1>3, <1>4, <1>7 DEF OutputInv, ChartsFollow
<1> QED BY <1>5, <1>8 DEF OutputInv

LEMMA OutputInvOthers ==
    ASSUME OutputInv, UNCHANGED <<buildVars, unsettled>> \/ (UNCHANGED buildVars /\ bpc # "plot")
    PROVE  OutputInv'
BY DEF buildVars, OutputInv, Progress, ChartsFollow, OutputOf

-----------------------------------------------------------------------------
(* Every step keeps the invariant                                            *)

LEMMA InvInit == Init => GdpInv
<1> SUFFICES ASSUME Init PROVE GdpInv
  OBVIOUS
<1>2. PICK f \in {Absent, Dumped(1)} : raw = [c \in Codes |-> f]
  BY DEF Init
<1>3. /\ f.state \in {"absent", "whole"} /\ (f.state = "whole" => f.edition # 0)
  <2>2. CASE f = Absent
    BY <2>2, FileFacts
  <2>3. CASE f = Dumped(1)
    <3>1. Dumped(1).edition = 1 /\ Dumped(1).state = "whole"
      BY DEF Dumped
    <3> QED BY <2>3, <3>1
  <2> QED BY <1>2, <2>2, <2>3
<1>4. /\ fpc = "idle" /\ bpc = "idle" /\ builds = 0 /\ complete = TRUE
      /\ csv = [build |-> 0, settled |-> TRUE, whole |-> TRUE,
                source |-> [edition |-> [c \in Codes |-> 1], icsd |-> TRUE]]
      /\ charts = [k \in Charts |-> csv]
  BY DEF Init
<1>5. FetchInv
  BY <1>2, <1>3, <1>4 DEF FetchInv, Responses, Files, Fetched, DataKept
<1>6. MixInv
  BY <1>2, <1>4 DEF MixInv, OneEdition, Read, NoSilentMix
<1>7. csv.build = 0 /\ csv.whole
  BY <1>4
<1>8. \A k \in Charts : charts[k] = csv /\ (k # 1 => k - 1 \in Charts)
  BY <1>4, ChartsAre
<1>9. ChartsFollow
  <2>1. ASSUME NEW k \in Charts
        PROVE  charts[k].build <= (IF k = 1 THEN csv ELSE charts[k - 1]).build
    <3>1. (IF k = 1 THEN csv ELSE charts[k - 1]) = csv /\ charts[k] = csv
      BY <1>8
    <3> QED BY <1>7, <3>1
  <2> QED BY <1>7, <1>8, <2>1 DEF ChartsFollow
<1>10. Progress
  BY <1>4, <1>7 DEF Progress
<1> QED BY <1>5, <1>6, <1>9, <1>10 DEF GdpInv, OutputInv

LEMMA InvStep == TypeOK /\ GdpInv /\ [Next]_vars => TypeOK' /\ GdpInv'
<1> SUFFICES ASSUME TypeOK, GdpInv, [Next]_vars PROVE TypeOK' /\ GdpInv'
  OBVIOUS
<1> USE DEF GdpInv
<1>1. CASE Revise
  <2>1. UNCHANGED <<buildVars, unsettled>>
    BY <1>1 DEF Revise
  <2> QED BY <1>1, <2>1, ReviseType, FetchInvOthers, MixInvBuilds, OutputInvOthers
<1>2. CASE StartFetch \/ GetFails \/ Get \/ Dump \/ FinishFetch \/ FetchEnds
  <2>1. UNCHANGED <<buildVars, unsettled>> \/ (UNCHANGED buildVars /\ bpc # "plot")
    <3>1. CASE StartFetch
      <4>1. UNCHANGED buildVars /\ unsettled' = (unsettled \/ bpc = "load")
        BY <3>1 DEF StartFetch
      <4>2. unsettled \in BOOLEAN
        BY DEF TypeOK
      <4>3. CASE bpc = "load"
        BY <4>1, <4>3
      <4>4. CASE bpc # "load"
        BY <4>1, <4>2, <4>4
      <4> QED BY <4>3, <4>4
    <3>2. CASE GetFails \/ Get \/ Dump \/ FinishFetch \/ FetchEnds
      BY <3>2 DEF GetFails, Get, Dump, FinishFetch, FetchEnds
    <3> QED BY <1>2, <3>1, <3>2
  <2> QED BY <1>2, <2>1, FetchType, FetchInvFetches, MixInvFetches, OutputInvOthers
<1>3. CASE StartBuild \/ LoadIndicator \/ LoadRaises \/ WriteCsv \/ Plot \/ BuildEnds
  <2>1. UNCHANGED <<edition, fetchVars>>
    BY <1>3 DEF StartBuild, LoadIndicator, LoadRaises, WriteCsv, Plot, BuildEnds
  <2>2. TypeOK'
    BY <1>3, BuildType DEF FetchInv
  <2>3. OutputInv'
    BY <1>3, OutputInvBuilds, OutputInvPlot, OutputInvEnds
  <2> QED BY <1>3, <2>1, <2>2, <2>3, FetchInvOthers, MixInvBuilds
<1>4. CASE UNCHANGED vars
  <2>1. UNCHANGED <<edition, fetchVars>> /\ UNCHANGED <<buildVars, unsettled>>
    BY <1>4 DEF vars
  <2>2. TypeOK'
    BY <1>4 DEF vars, fetchVars, buildVars, TypeOK
  <2> QED BY <1>4, <2>1, <2>2, FetchInvOthers, MixInvBuilds, OutputInvOthers
<1> QED BY <1>1, <1>2, <1>3, <1>4 DEF Next

LEMMA GdpInvariant == Spec => [](TypeOK /\ GdpInv)
<1>1. Init => TypeOK /\ GdpInv
  BY TypeInit, InvInit
<1>2. (TypeOK /\ GdpInv) /\ [Next]_vars => (TypeOK /\ GdpInv)'
  BY InvStep
<1> QED BY <1>1, <1>2, PTL DEF Spec

(* Type correctness: a build writes and plots only once it has an edition of *)
(* every indicator, in whatever order and number the scripts run.            *)
THEOREM TypeCorrect == Spec => []TypeOK
<1> QED BY GdpInvariant, PTL

(* A raw file once downloaded stays usable unless a dump was interrupted.    *)
THEOREM DataIsKept == Spec => []DataKept
<1>1. GdpInv => DataKept
  BY DEF GdpInv, FetchInv
<1> QED BY <1>1, GdpInvariant, PTL

(* The charts never run ahead of the CSV file nor of each other, and show it *)
(* when the script said that it wrote everything.                            *)
THEOREM ChartsShowTheCsv == Spec => []ChartsFollow
<1>1. GdpInv => ChartsFollow
  BY DEF GdpInv, OutputInv
<1> QED BY <1>1, GdpInvariant, PTL

(* A CSV file of two editions never comes out of a build that followed a     *)
(* fetch without failures, skips and revisions.                              *)
THEOREM MixIsSignalled == Spec => []NoSilentMix
<1>1. GdpInv => NoSilentMix
  BY DEF GdpInv, MixInv
<1> QED BY <1>1, GdpInvariant, PTL

-----------------------------------------------------------------------------
(* The rounded split                                                         *)

LEMMA CellFacts ==
    ASSUME NEW s \in Source, NEW y \in Nat
    PROVE  /\ \A c \in Codes : Cell(Observed(s, c), y) \subseteq Int
           /\ \A f, v, w : v \in Cell(f, y) /\ w \in Cell(f, y) => v = w
           /\ Share(s, y) \subseteq IcsdRow
           /\ \A g, h \in Share(s, y) : g = h
<1>1. \A c \in Codes : s.edition[c] \in 1..Editions
  BY DEF Source
<1>2. ASSUME NEW c \in Codes
      PROVE  Cell(Observed(s, c), y) \subseteq Int
  BY <1>1, TableAssumption DEF TableAssumption, Cell, Observed
<1>3. \A f, v, w : v \in Cell(f, y) /\ w \in Cell(f, y) => v = w
  BY DEF Cell
<1>4. Share(s, y) \subseteq IcsdRow
  BY TableAssumption DEF TableAssumption, Share, Cell
<1>5. \A g, h \in Share(s, y) : g = h
  BY <1>3 DEF Share
<1> QED BY <1>2, <1>3, <1>4, <1>5

LEMMA RowReconciles ==
    ASSUME NEW s \in Source, NEW y \in Nat
    PROVE  LET row == Row(s, y) IN
           /\ \A g \in row.govt, p \in row.private, i \in row.given[I] : g + p - i \in -1..1
           /\ row.govt # {} /\ row.given[I] # {} => row.private # {}
           /\ \A n \in row.identity, d \in row.discrepancy : n + d - 100000 \in -1..1
<1>1. /\ C \in Codes /\ G \in Codes /\ I \in Codes /\ FI \in Codes /\ NX \in Codes
      /\ I \notin LEVELS /\ Scale \in Nat \ {0}
  BY TableAssumption DEF TableAssumption
<1> DEFINE row == Row(s, y)
           total == Cell(Observed(s, I), y)
           fixed == Cell(Observed(s, FI), y)
<1>2. /\ row.govt = Govt(s, y) /\ row.private = Private(s, y)
      /\ row.given[I] = Percents(total)
      /\ row.identity = Percents(Identity(s, y))
      /\ row.discrepancy = Percents({100000 * Scale - v : v \in Identity(s, y)})
  BY <1>1 DEF Row
<1>3. total \subseteq Int /\ fixed \subseteq Int /\ Share(s, y) \subseteq IcsdRow
  BY <1>1, CellFacts
<1>4. /\ \A v, w \in total : v = w
      /\ \A v, w \in fixed : v = w
      /\ \A v, w \in Share(s, y) : v = w
  BY CellFacts
<1> HIDE DEF row, total, fixed
<1>5. ASSUME NEW g \in row.govt, NEW p \in row.private, NEW t \in row.given[I]
      PROVE  g + p - t \in -1..1
  <2>1. PICK f \in fixed, h \in Share(s, y) : g \in Roundings(GovtPart(f, h), Whole(h))
    BY <1>2 DEF Govt, fixed
  <2>2. PICK i \in total : t \in Roundings(i, 1)
    BY <1>2 DEF Percents
  <2>3. p \in Roundings(PrivatePart(i, f, h), Whole(h))
    <3>1. PICK j \in total, k \in fixed, m \in Share(s, y) :
             p \in Roundings(PrivatePart(j, k, m), Whole(m))
      BY <1>2 DEF Private, total, fixed
    <3>2. j = i /\ k = f /\ m = h
      BY <1>4
    <3> QED BY <3>1, <3>2
  <2>4. h.igov \in Nat \ {0} /\ h.ipriv \in Nat
    BY <1>3 DEF IcsdRow
  <2>5. /\ Whole(h) \in Nat \ {0} /\ GovtPart(f, h) \in Int
        /\ PrivatePart(i, f, h) = i * Whole(h) - GovtPart(f, h)
    BY <1>3, <2>4 DEF Whole, GovtPart, PrivatePart
  <2>6. i \in Int
    BY <1>3
  <2> QED BY <2>1, <2>2, <2>3, <2>5, <2>6, PartsReconcile
<1>6. ASSUME row.govt # {}, row.given[I] # {}
      PROVE  row.private # {}
  <2>1. PICK f \in fixed, h \in Share(s, y) : TRUE
    BY <1>2, <1>6 DEF Govt, fixed
  <2>2. PICK i \in total : TRUE
    BY <1>2, <1>6 DEF Percents
  <2>3. PrivatePart(i, f, h) \in Int /\ Whole(h) \in Nat \ {0}
    BY <1>3 DEF IcsdRow, PrivatePart, GovtPart, Whole
  <2>4. PICK p : p \in Roundings(PrivatePart(i, f, h), Whole(h))
    BY <2>3, RoundingsExist
  <2>5. p \in row.private
    BY <1>2, <2>4 DEF Private, total, fixed
  <2> QED BY <2>5
<1>7. ASSUME NEW n \in row.identity, NEW d \in row.discrepancy
      PROVE  n + d - 100000 \in -1..1
  <2>1. PICK v \in Identity(s, y), w \in Identity(s, y) :
           n \in Roundings(v, 1) /\ d \in Roundings(100000 * Scale - w, 1)
    BY <1>2 DEF Percents
  <2>2. v = w /\ v \in Int
    <3> DEFINE A == Cell(Observed(s, C), y)
               B == Cell(Observed(s, G), y)
               D == Cell(Observed(s, NX), y)
    <3>1. A \subseteq Int /\ B \subseteq Int /\ D \subseteq Int
      BY <1>1, CellFacts
    <3>2. (\A a, b \in A : a = b) /\ (\A a, b \in B : a = b) /\ (\A a, b \in D : a = b)
      BY CellFacts
    <3>3. Identity(s, y) = {c + g + i + x : c \in A, g \in B, i \in total, x \in D}
      BY DEF Identity, total
    <3> HIDE DEF A, B, D
    <3>4. PICK c \in A, g \in B, i \in total, x \in D : v = c + g + i + x
      BY <3>3
    <3>5. PICK c1 \in A, g1 \in B, i1 \in total, x1 \in D : w = c1 + g1 + i1 + x1
      BY <3>3
    <3>6. c = c1 /\ g = g1 /\ i = i1 /\ x = x1
      BY <1>4, <3>2
    <3>7. c \in Int /\ g \in Int /\ i \in Int /\ x \in Int
      BY <1>3, <3>1
    <3> QED BY <3>4, <3>5, <3>6, <3>7
  <2> DEFINE m == 100000
  <2>3. m \in Int /\ m = 100000
    OBVIOUS
  <2> HIDE DEF m
  <2>4. n \in Roundings(v, 1) /\ d \in Roundings(m * Scale - v, 1)
    BY <2>1, <2>2, <2>3
  <2>5. n + d - m \in -1..1
    BY <2>2, <2>3, <2>4, RestReconciles
  <2> QED BY <2>3, <2>5
<1> QED BY <1>5, <1>6, <1>7 DEF row

(* README.txt, section 5: the rounded parts of investment add up to a        *)
(* thousandth and are there together, and identity and discrepancy add up to *)
(* a thousandth, for all figures and floats that are off by less than a      *)
(* sixth of one, however the ties are rounded.                               *)
THEOREM SplitAddsUp == Spec => []SplitReconciles
<1>1. TypeOK => SplitReconciles
  <2> SUFFICES ASSUME TypeOK PROVE SplitReconciles
    OBVIOUS
  <2>1. csv.source \in Source
    BY DEF TypeOK, Output
  <2>2. \A y \in TableYears(csv.source) : y \in Nat
    BY <2>1, TableAssumption DEF TableAssumption, TableYears, Observed, Source
  <2> QED BY <2>1, <2>2, RowReconciles DEF SplitReconciles
<1> QED BY <1>1, TypeCorrect, PTL
=============================================================================
