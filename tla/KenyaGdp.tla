------------------------------- MODULE KenyaGdp -------------------------------
(***************************************************************************)
(* kenya-gdp: fetch_data.py downloads one file per indicator, build_dataset *)
(* turns the files into a CSV file and four charts.  Somebody runs the two *)
(* scripts by hand, as often as they like, a fetch and a build possibly at *)
(* the same time, but no two runs of one script; each may be interrupted.  *)
(* The World Bank revises its figures now and then.                        *)
(***************************************************************************)
EXTENDS GdpTable, FiniteSets

CONSTANT MaxRuns  (* bound: runs of the two scripts                           *)
ASSUME RunsAssumption == MaxRuns \in Nat

VARIABLES
    edition,     (* the edition of the figures that the API serves            *)
    raw,         (* data/raw: the file of each indicator                      *)
    icsd,        (* data/raw: whether the IMF's file is there                 *)
    fpc, fi,     (* fetch_data.py: where it is, and at which indicator        *)
    payload,     (* the response it is about to dump                          *)
    fetches,     (* how often it was started                                  *)
    bpc, bi,     (* build_dataset.py: where it is, at which file or chart     *)
    loaded,      (* the editions it has read                                  *)
    builds,      (* how often it was started                                  *)
    csv,         (* the CSV file                                              *)
    charts,      (* the four charts                                           *)
    (* history                                                               *)
    reported,    (* the last fetch printed FAILED or skipped                  *)
    finished,    (* the last fetch printed "done"                             *)
    revised,     (* new figures came out during the last fetch                *)
    unsettled,   (* the build started on, or met, a fetch that was not clean  *)
    torn,        (* files whose dump was interrupted                          *)
    complete     (* the last build printed its last "wrote"                   *)

fetchVars == <<raw, fpc, fi, payload, fetches, reported, finished, revised, torn>>
buildVars == <<bpc, bi, loaded, builds, csv, charts, complete>>
vars == <<edition, icsd, fetchVars, buildVars, unsettled>>

N == Len(INDICATORS)
Window == <<1964, 2000, 1964, 2000>>   (* the charts' start years            *)
Charts == DOMAIN Window

File == [state : {"absent", "torn", "no data", "whole"}, edition : 0..Editions]
Absent == [state |-> "absent", edition |-> 0]
Torn == [state |-> "torn", edition |-> 0]
(* What json.dump writes of a response; edition 0 is one without data.       *)
Dumped(e) == [state |-> IF e = 0 THEN "no data" ELSE "whole", edition |-> e]

(* An output: which build wrote it, from what, and whether all was settled.  *)
Output == [build : 0..MaxRuns, source : Source, settled : BOOLEAN, whole : BOOLEAN]

TypeOK ==
    /\ edition \in 1..Editions
    /\ raw \in [Codes -> File] /\ icsd \in BOOLEAN
    /\ fpc \in {"idle", "get", "dump"} /\ fi \in 1..N + 1
    /\ payload \in 0..Editions
    /\ fetches \in 0..MaxRuns /\ builds \in 0..MaxRuns - fetches
    /\ bpc \in {"idle", "load", "write", "plot"} /\ bi \in (1..N) \cup Charts
    /\ loaded \in [Codes -> 0..Editions]
    /\ csv \in Output /\ charts \in [Charts -> Output]
    /\ torn \subseteq Codes
    /\ {reported, finished, revised, unsettled, complete} \subseteq BOOLEAN
    /\ fpc = "dump" => fi <= N
    /\ bpc = "load" => bi <= N /\ \A k \in 1..bi - 1 : loaded[INDICATORS[k]] # 0
    /\ bpc \in {"write", "plot"} => \A c \in Codes : loaded[c] # 0
    /\ bpc = "plot" => bi \in Charts

(* The repository ships a dataset of the first edition; or the raw files are *)
(* removed, to start from scratch.                                           *)
Init ==
    /\ edition = 1
    /\ \E f \in {Absent, Dumped(1)} : raw = [c \in Codes |-> f]
    /\ icsd \in BOOLEAN
    /\ fpc = "idle" /\ fi = 1 /\ payload = 0 /\ fetches = 0
    /\ bpc = "idle" /\ bi = 1 /\ loaded = [c \in Codes |-> 0] /\ builds = 0
    /\ csv = [build |-> 0, settled |-> TRUE, whole |-> TRUE,
              source |-> [edition |-> [c \in Codes |-> 1], icsd |-> TRUE]]
    /\ charts = [k \in Charts |-> csv]
    /\ reported = FALSE /\ torn = {}
    /\ finished = TRUE /\ revised = FALSE /\ unsettled = FALSE /\ complete = TRUE

Revise ==
    /\ edition < Editions
    /\ edition' = edition + 1
    /\ revised' = (revised \/ fpc # "idle")
    /\ UNCHANGED <<raw, icsd, fpc, fi, payload, fetches, reported, finished, torn,
                   buildVars, unsettled>>

-----------------------------------------------------------------------------
(* fetch_data.py                                                            *)

StartFetch ==
    /\ fpc = "idle" /\ fetches + builds < MaxRuns
    /\ fpc' = "get" /\ fi' = 1 /\ fetches' = fetches + 1
    /\ reported' = FALSE /\ finished' = FALSE /\ revised' = FALSE
    /\ unsettled' = (unsettled \/ bpc = "load")
    /\ UNCHANGED <<edition, icsd, raw, payload, torn, buildVars>>

(* Mutant: without the check of the payload.                                 *)
MutantUnusable(response) == response = "exception"

(* What main passes over: get raised, or the response has no data array.     *)
Unusable(response) == response \in {"exception", "no data"}

(* Mutant: the loop goes on without a word.                                  *)
MutantGetFails ==
    /\ fpc = "get" /\ fi <= N
    /\ \E response \in {"exception", "no data", "data"} : Unusable(response)
    /\ fi' = fi + 1
    /\ UNCHANGED <<edition, icsd, raw, fpc, payload, fetches, reported, finished, revised,
                   torn, buildVars, unsettled>>

GetFails ==
    /\ fpc = "get" /\ fi <= N
    /\ \E response \in {"exception", "no data", "data"} : Unusable(response)
    /\ reported' = TRUE
    /\ fi' = fi + 1
    /\ UNCHANGED <<edition, icsd, raw, fpc, payload, fetches, finished, revised, torn,
                   buildVars, unsettled>>

(* The file is opened for writing, which truncates it.                       *)
Get ==
    /\ fpc = "get" /\ fi <= N
    /\ \E response \in {"no data", "data"} :
        /\ ~Unusable(response)
        /\ payload' = IF response = "data" THEN edition ELSE 0
    /\ raw' = [raw EXCEPT ![INDICATORS[fi]] = Torn]
    /\ fpc' = "dump"
    /\ UNCHANGED <<edition, icsd, fi, fetches, reported, finished, revised, torn,
                   buildVars, unsettled>>

Dump ==
    /\ fpc = "dump"
    /\ raw' = [raw EXCEPT ![INDICATORS[fi]] = Dumped(payload)]
    /\ torn' = torn \ {INDICATORS[fi]}
    /\ fi' = fi + 1 /\ fpc' = "get" /\ payload' = 0
    /\ UNCHANGED <<edition, icsd, fetches, reported, finished, revised,
                   buildVars, unsettled>>

FinishFetch ==
    /\ fpc = "get" /\ fi = N + 1
    /\ fpc' = "idle" /\ fi' = 1 /\ finished' = TRUE
    /\ UNCHANGED <<edition, icsd, raw, payload, fetches, reported, revised, torn,
                   buildVars, unsettled>>

(* It is killed, or the disk is full.                                        *)
FetchEnds ==
    /\ fpc # "idle"
    /\ fpc' = "idle" /\ fi' = 1 /\ payload' = 0
    /\ torn' = IF fpc = "dump" THEN torn \cup {INDICATORS[fi]} ELSE torn
    /\ UNCHANGED <<edition, icsd, raw, fetches, reported, finished, revised,
                   buildVars, unsettled>>

-----------------------------------------------------------------------------
(* build_dataset.py                                                         *)

(* The script's variables end with it.                                       *)
ScriptEnds ==
    /\ bpc' = "idle" /\ bi' = 1 /\ loaded' = [c \in Codes |-> 0]
    /\ unsettled' = FALSE

CleanFetch == fpc = "idle" /\ finished /\ ~revised /\ ~reported

StartBuild ==
    /\ bpc = "idle" /\ fetches + builds < MaxRuns
    /\ bpc' = "load" /\ bi' = 1 /\ builds' = builds + 1
    /\ complete' = FALSE
    /\ unsettled' = ~CleanFetch
    /\ UNCHANGED <<edition, icsd, fetchVars, loaded, csv, charts>>

(* open raises for an absent file, json.load for a torn one, and the data of *)
(* a file without any cannot be iterated over.                               *)
Loads(f) == f.state = "whole"

(* Mutant: the last indicator is left out.                                   *)
MutantLoadIndicator ==
    /\ bpc = "load"
    /\ LET c == INDICATORS[bi] IN
        /\ Loads(raw[c])
        /\ loaded' = [loaded EXCEPT ![c] = raw[c].edition]
    /\ IF bi < N - 1 THEN bpc' = "load" /\ bi' = bi + 1
                     ELSE bpc' = "write" /\ bi' = 1
    /\ UNCHANGED <<edition, icsd, fetchVars, builds, csv, charts, complete, unsettled>>

LoadIndicator ==
    /\ bpc = "load"
    /\ LET c == INDICATORS[bi] IN
        /\ Loads(raw[c])
        /\ loaded' = [loaded EXCEPT ![c] = raw[c].edition]
    /\ IF bi < N THEN bpc' = "load" /\ bi' = bi + 1
                 ELSE bpc' = "write" /\ bi' = 1
    /\ UNCHANGED <<edition, icsd, fetchVars, builds, csv, charts, complete, unsettled>>

LoadRaises ==
    /\ bpc = "load" /\ ~Loads(raw[INDICATORS[bi]])
    /\ ScriptEnds
    /\ UNCHANGED <<edition, icsd, fetchVars, builds, csv, charts, complete>>

OutputOf(s) == [build |-> builds, source |-> s, settled |-> ~unsettled, whole |-> TRUE]

(* The IMF's file is looked for at the end of the loading.                   *)
WriteCsv ==
    /\ bpc = "write"
    /\ csv' = OutputOf([edition |-> loaded, icsd |-> icsd])
    /\ bpc' = "plot" /\ bi' = 1
    /\ UNCHANGED <<edition, icsd, fetchVars, loaded, builds, charts, complete, unsettled>>

(* The rows that a chart shows; without any, int(nan) raises.                *)
Shown(s, k) == {y \in TableYears(s) : y >= Window[k]}

Plot ==
    /\ bpc = "plot"
    /\ Shown(csv.source, bi) # {}
    /\ charts' = [charts EXCEPT ![bi] = OutputOf(csv.source)]
    /\ IF bi < 4 THEN bi' = bi + 1 /\ UNCHANGED <<bpc, loaded, complete, unsettled>>
                 ELSE ScriptEnds /\ complete' = TRUE
    /\ UNCHANGED <<edition, icsd, fetchVars, builds, csv>>

(* Mutant: an exception in a plot is caught, and the script goes on to say   *)
(* that it wrote everything.                                                 *)
MutantBuildEnds ==
    /\ bpc # "idle"
    /\ ScriptEnds
    /\ csv' \in IF bpc = "write" THEN {csv, [csv EXCEPT !.whole = FALSE]} ELSE {csv}
    /\ charts' \in IF bpc = "plot"
                   THEN {charts, [charts EXCEPT ![bi].whole = FALSE]} ELSE {charts}
    /\ complete' = (bpc = "plot")
    /\ UNCHANGED <<edition, icsd, fetchVars, builds>>

(* It is killed, cannot write, or has nothing to plot.                       *)
BuildEnds ==
    /\ bpc # "idle"
    /\ ScriptEnds
    /\ csv' \in IF bpc = "write" THEN {csv, [csv EXCEPT !.whole = FALSE]} ELSE {csv}
    /\ charts' \in IF bpc = "plot"
                   THEN {charts, [charts EXCEPT ![bi].whole = FALSE]} ELSE {charts}
    /\ UNCHANGED <<edition, icsd, fetchVars, builds, complete>>

Next ==
    \/ Revise
    \/ StartFetch \/ GetFails \/ Get \/ Dump \/ FinishFetch \/ FetchEnds
    \/ StartBuild \/ LoadIndicator \/ LoadRaises \/ WriteCsv \/ Plot \/ BuildEnds

Spec == Init /\ [][Next]_vars

-----------------------------------------------------------------------------
(* A CSV file that mixes editions is never made behind the user's back: a    *)
(* build that starts after a fetch which said "done" and neither FAILED nor  *)
(* skipped, which no revision and no build overlapped, reads one edition,    *)
(* whatever earlier fetches left in data/raw (the continue of lines 64, 66). *)
NoSilentMix ==
    csv.settled => \A c, d \in Codes : csv.source.edition[c] = csv.source.edition[d]

(* A raw file once downloaded stays usable: a failed get or a challenge page *)
(* never replaces it, only a dump that was cut short leaves it without data. *)
(* The shipped files can always be fallen back on (fetch_data.py:20).        *)
DataKept ==
    \A c \in Codes : raw[c].state \in {"torn", "no data"} =>
        c \in torn \/ (fpc = "dump" /\ INDICATORS[fi] = c)

(* The charts never run ahead of the CSV file nor of each other, those that  *)
(* a build made show the rows it wrote, and when the script said it wrote    *)
(* everything, CSV file and charts are whole and of the same build.          *)
ChartsFollow ==
    /\ \A k \in Charts : charts[k].build <= (IF k = 1 THEN csv ELSE charts[k - 1]).build
    /\ \A k \in Charts : charts[k].build = csv.build => charts[k].source = csv.source
    /\ complete => csv.whole /\ \A k \in Charts : charts[k] = csv

(* README.txt, section 5: though they are rounded one by one, government and *)
(* private investment add up to investment, to a thousandth; where there is  *)
(* an investment and a split there are both parts; and the identity and its  *)
(* discrepancy add up to 100 percent, again to a thousandth (at 99.9995 the  *)
(* floats give 100.000 and 0.001).                                           *)
SplitReconciles ==
    \A y \in TableYears(csv.source) :
        LET row == Row(csv.source, y) IN
        /\ \A g \in row.govt, p \in row.private, i \in row.given[I] : g + p - i \in -1..1
        /\ row.govt # {} /\ row.given[I] # {} => row.private # {}
        /\ \A n \in row.identity, d \in row.discrepancy : n + d - 100000 \in -1..1
=============================================================================
