------------------------------ MODULE SiteProofs ------------------------------
(***************************************************************************)
(* Theorems about the website and its deployment, for every set of         *)
(* versions, pages, hosts and paths and any number of deploys.             *)
(***************************************************************************)
EXTENDS Site, TLAPS

USE WebsiteAssumption, DeploysAssumption DEF WebsiteAssumption, DeploysAssumption

(* Any part of a reply is of the type of an answer.                          *)
LEMMA ReplyType ==
    ASSUME NEW to \in Locations, NEW data \in Contents
    PROVE  Reply(to, data) \in Answer
BY DEF Reply, Answer, FirstStatus, FirstLength, Contents, None

LEMMA PathType ==
    ASSUME NEW b \in Versions, NEW p \in Paths
    PROVE  NewPath(b, p) \in Locations
BY DEF NewPath, Locations

LEMMA PageType ==
    ASSUME NEW h \in Hosts, NEW p \in Paths
    PROVE  PageOf[<<Root(h), p>>] \in Pages
BY DEF Root

LEMMA DataType ==
    ASSUME NEW d \in [Files -> Versions \cup {0}], NEW f \in Files
    PROVE  Data(d, f) \in Contents
BY DEF Data, Contents

LEMMA LookupType ==
    ASSUME NEW d \in [Files -> Versions \cup {0}], NEW b \in Versions,
           NEW h \in Hosts, NEW p \in Paths
    PROVE  Lookup(d, b, h, p) \in Answer
<1>1. Found(d, PageOf[<<Root(h), p>>]) \in Files
  BY PageType DEF Found, Files
<1> QED BY <1>1, DataType, PathType, ReplyType DEF Lookup

LEMMA NotNone ==
    ASSUME NEW x, NEW y
    PROVE  <<x, y>> # None
BY DEF None

(* What a request in its handler knows.                                      *)
LEMMA Handled ==
    ASSUME WebTypeOK, pc # "idle"
    PROVE  /\ req \in Request /\ req.host \in Hosts /\ req.path \in Paths
           /\ req.bin \in Versions /\ Page \in Pages
BY PageType DEF WebTypeOK, Request, Page

(* os.Open of a file that is there.                                          *)
LEMMA OpenedFile ==
    ASSUME WebTypeOK, pc # "idle", NEW kind \in {"plain", "html", "index"}, Opened(kind)
    PROVE  /\ <<Page, kind>> \in Files
           /\ disk[<<Page, kind>>] \in Versions
           /\ Opens(kind) => /\ fd' \in Contents /\ fd' # None
                             /\ fd' = <<<<Page, kind>>, disk[<<Page, kind>>]>>
                             /\ fd'[1][2] = kind
<1>1. <<Page, kind>> \in Files
  BY Handled DEF Files
<1>2. disk[<<Page, kind>>] \in Versions
  BY <1>1 DEF Opened, WebTypeOK
<1> QED BY <1>1, <1>2, NotNone DEF Opens, Contents

-----------------------------------------------------------------------------
(* Types                                                                     *)

LEMMA FinishType ==
    ASSUME WebTypeOK, pc # "idle", NEW status \in {200, 404, 500},
           NEW announced \in Contents, NEW body \in Contents,
           Finish(status, announced, body), excused' \in BOOLEAN,
           UNCHANGED <<req, location, disk, could>>
    PROVE  WebTypeOK'
<1>1. answer' \in Answer
  BY DEF Finish, WebTypeOK, Answer, FirstStatus, FirstLength, Contents
<1> QED BY <1>1 DEF Finish, WebTypeOK, Contents

(* The handler's steps keep the types of the request.                        *)
LEMMA HandleType ==
    ASSUME WebTypeOK, Handle
    PROVE  WebTypeOK'
<1>1. None \in Contents
  BY DEF Contents
<1>2. Page' = Page \/ req' # req
  BY DEF Page
<1>a. CASE Route /\ UNCHANGED <<disk, could>>
  BY <1>a, PathType, Handled DEF Route, WebTypeOK
<1>i. OpenFails("plain") \/ OpenFails("html") \/ OpenFails("index") => excused' \in BOOLEAN
  BY DEF OpenFails, Opened, WebTypeOK
<1>b. CASE Open /\ UNCHANGED <<disk, could>>
  <2>1. CASE Opened("plain") /\ pc' = "stat" /\ Opens("plain")
    BY <1>b, <2>1, OpenedFile DEF Open, WebTypeOK, Opens
  <2>2. CASE OpenFails("plain") /\ pc' = "openHtml" /\ UNCHANGED <<fd, length, answer>>
    BY <1>b, <1>i, <2>2 DEF Open, WebTypeOK
  <2> QED BY <1>b, <2>1, <2>2 DEF Open
<1>c. CASE OpenHtml /\ UNCHANGED <<disk, could>>
  <2>1. CASE Opened("html") /\ pc' = "stat" /\ Opens("html")
    BY <1>c, <2>1, OpenedFile DEF OpenHtml, WebTypeOK, Opens
  <2>2. CASE OpenFails("html") /\ Finish(404, None, None)
    BY <1>1, <1>c, <1>i, <2>2, FinishType DEF OpenHtml
  <2> QED BY <1>c, <2>1, <2>2 DEF OpenHtml
<1>d. CASE Stat /\ UNCHANGED <<disk, could>>
  BY <1>2, <1>d DEF Stat, WebTypeOK, IsDir
<1>e. CASE OpenIndex /\ UNCHANGED <<disk, could>>
  <2>1. CASE Opened("index") /\ pc' = "stat" /\ Opens("index")
    BY <1>2, <1>e, <2>1, OpenedFile DEF OpenIndex, WebTypeOK, Opens
  <2>2. CASE OpenFails("index") /\ Finish(404, None, None)
    BY <1>1, <1>e, <1>i, <2>2, FinishType DEF OpenIndex
  <2> QED BY <1>e, <2>1, <2>2 DEF OpenIndex
<1>f. CASE Head /\ UNCHANGED <<disk, could>>
  BY <1>2, <1>f DEF Head, Length, WebTypeOK
<1>g. CASE Copy /\ UNCHANGED <<disk, could>>
  BY <1>g, FinishType DEF Copy, WebTypeOK
<1>h. CASE CopyFails \/ RoutePanics
  <2>1. None \in Locations
    BY DEF Locations
  <2> QED BY <1>1, <1>h, <2>1 DEF CopyFails, RoutePanics, Drop, WebTypeOK
<1>j. CASE StatFails /\ UNCHANGED <<disk, could>>
  BY <1>1, <1>j, FinishType DEF StatFails
<1> QED BY <1>a, <1>b, <1>c, <1>d, <1>e, <1>f, <1>g, <1>h, <1>j DEF Handle

LEMMA ArriveType ==
    ASSUME WebTypeOK, NEW b \in Versions, NEW h \in Hosts, NEW p \in Paths,
           Arrive(b, h, p)
    PROVE  WebTypeOK'
<1>1. could' \subseteq Answer
  <2>1. disk \in [Files -> Versions \cup {0}]
    BY DEF WebTypeOK
  <2>2. could' = {Lookup(disk, b, h, p)}
    BY DEF Arrive
  <2> QED BY <2>1, <2>2, LookupType
<1>2. req' \in Request
  BY DEF Arrive, Request
<1>3. /\ disk' = disk /\ pc' = "route" /\ location' = None /\ fd' = None /\ length' = None
      /\ excused' = FALSE
  BY DEF Arrive
<1> QED BY <1>1, <1>2, <1>3 DEF WebTypeOK, Locations, Contents

LEMMA PutType ==
    ASSUME WebTypeOK, NEW v \in Versions, NEW f \in Files, Put(f, v),
           f[2] = "index" => disk[<<f[1], "plain">>] # 0
    PROVE  WebTypeOK'
<1>1. disk' \in [Files -> Versions \cup {0}]
  BY DEF WebTypeOK, Put
<1>2. \A p \in Pages : disk'[<<p, "index">>] # 0 => disk'[<<p, "plain">>] # 0
  <2> SUFFICES ASSUME NEW p \in Pages, disk'[<<p, "index">>] # 0
               PROVE  disk'[<<p, "plain">>] # 0
    OBVIOUS
  <2>0. disk' = [disk EXCEPT ![f] = v] /\ disk \in [Files -> Versions \cup {0}]
    BY DEF Put, WebTypeOK
  <2>1. <<p, "index">> \in Files /\ <<p, "plain">> \in Files
    BY DEF Files
  <2>2. CASE f = <<p, "index">>
    BY <2>0, <2>1, <2>2
  <2>3. CASE f = <<p, "plain">>
    BY <2>0, <2>1, <2>3
  <2>4. CASE f # <<p, "index">> /\ f # <<p, "plain">>
    BY <2>0, <2>1, <2>4 DEF WebTypeOK
  <2> QED BY <2>2, <2>3, <2>4
<1>3. could' \subseteq Answer
  <2>1. CASE InFlight
    <3>1. Lookup(disk', req.bin, req.host, req.path) \in Answer
      BY <1>1, <2>1, Handled, LookupType DEF InFlight
    <3>2. could' = could \cup {Lookup(disk', req.bin, req.host, req.path)}
      BY <2>1 DEF Put
    <3> QED BY <3>1, <3>2 DEF WebTypeOK
  <2>2. CASE ~InFlight
    BY <2>2 DEF Put, WebTypeOK
  <2> QED BY <2>1, <2>2
<1>4. Page' = Page
  BY DEF Put, rqVars, Page
<1>5. excused' \in BOOLEAN
  BY DEF Put, WebTypeOK, InFlight
<1> QED BY <1>1, <1>2, <1>3, <1>4, <1>5 DEF WebTypeOK, Put, rqVars

LEMMA CutType ==
    ASSUME WebTypeOK, Cut, UNCHANGED disk
    PROVE  WebTypeOK' /\ ~InFlight'
<1>1. CASE Drop
  BY <1>1 DEF Drop, WebTypeOK, InFlight, Locations, Contents
<1>2. CASE ~InFlight /\ UNCHANGED <<rqVars, could, excused>>
  <2>1. Page' = Page
    BY <1>2 DEF Page, rqVars
  <2> QED BY <1>2, <2>1 DEF rqVars, WebTypeOK, InFlight
<1> QED BY <1>1, <1>2 DEF Cut

LEMMA WebStutters ==
    ASSUME WebTypeOK, UNCHANGED webVars
    PROVE  WebTypeOK' /\ (InFlight' = InFlight)
<1>1. Page' = Page
  BY DEF Page, webVars, rqVars
<1> QED BY <1>1 DEF webVars, rqVars, WebTypeOK, InFlight

(* The unit after a start: up with the binary and the key, or waiting, or    *)
(* failed.                                                                   *)
UnitTypeOK ==
    /\ state \in {"up", "waiting", "failed"}
    /\ proc \in [bin : Versions, key : 1..MaxDeploys + 1] \cup {None}
    /\ (state = "up") = (proc # None)
    /\ timer \in 0..RestartSec /\ (timer # 0 => state = "waiting")
    /\ starts \in [age : 0..Interval, count : 0..Burst]

EnvType == [site : BOOLEAN, key : 0..MaxDeploys + 1, there : BOOLEAN]

LEMMA StartType ==
    ASSUME UnitTypeOK, binary \in Versions, env \in EnvType, StartUnit(env)
    PROVE  /\ UnitTypeOK'
           /\ proc' # None => /\ proc' = [bin |-> binary, key |-> env.key]
                              /\ Complete(env)
<1>1. CASE Window.count = Burst
  <2>1. state' = "failed" /\ proc' = None /\ timer' = 0 /\ starts' = starts
    BY <1>1 DEF StartUnit
  <2> QED BY <2>1 DEF UnitTypeOK, RestartSec
<1>2. CASE Window.count # Burst
  <2>1. Window \in [age : 0..Interval, count : 0..Burst - 1]
    BY <1>2 DEF Window, Rested, UnitTypeOK, Interval, Burst
  <2>2. starts' = [Window EXCEPT !.count = @ + 1]
    BY <1>2 DEF StartUnit
  <2>3. starts' \in [age : 0..Interval, count : 0..Burst]
    BY <2>1, <2>2 DEF Interval, Burst
  <2>4. CASE Complete(env)
    <3>1. env.key \in 1..MaxDeploys + 1
      BY <2>4 DEF Complete, EnvType
    <3>2. [bin |-> binary, key |-> env.key] # None
      BY DEF None
    <3>3. state' = "up" /\ proc' = [bin |-> binary, key |-> env.key] /\ timer' = 0
      BY <1>2, <2>4 DEF StartUnit
    <3> QED BY <2>3, <2>4, <3>1, <3>2, <3>3 DEF UnitTypeOK, RestartSec
  <2>5. CASE ~Complete(env)
    <3>1. state' = "waiting" /\ proc' = None /\ timer' = RestartSec
      BY <1>2, <2>5 DEF StartUnit
    <3> QED BY <2>3, <3>1 DEF UnitTypeOK, RestartSec
  <2> QED BY <2>4, <2>5
<1> QED BY <1>1, <1>2

(* The types of what a deploy and its history keep.                          *)
DepTypeOK ==
    /\ dep \in [step : {"idle", "binary", "files", "unit", "reload", "copy", "key", "restart"},
                v : Versions, n : 1..MaxDeploys + 1]
    /\ clean \in BOOLEAN
    /\ deployed \in [bin : Versions, key : 1..MaxDeploys + 1] \cup {None}

UnitFileType == [file : Versions, loaded : Versions]

LEMMA Parts ==
    TypeOK <=> /\ WebTypeOK /\ binary \in Versions /\ env \in EnvType
               /\ UnitTypeOK /\ (InFlight => proc # None) /\ DepTypeOK
               /\ unit \in UnitFileType
BY DEF TypeOK, UnitTypeOK, EnvType, DepTypeOK, UnitFileType

(* Every step keeps the types.                                               *)
LEMMA TypeStep ==
    ASSUME TypeOK, [Next]_vars
    PROVE  TypeOK'
<1>0. /\ WebTypeOK /\ binary \in Versions /\ env \in EnvType
      /\ UnitTypeOK /\ (InFlight => proc # None) /\ DepTypeOK
      /\ unit \in UnitFileType
  BY Parts
<1>1. SUFFICES /\ WebTypeOK' /\ binary' \in Versions /\ env' \in EnvType
               /\ UnitTypeOK' /\ (InFlight' => proc' # None) /\ DepTypeOK'
               /\ unit' \in UnitFileType
  <2>1. TypeOK' <=> /\ WebTypeOK' /\ binary' \in Versions /\ env' \in EnvType
                    /\ UnitTypeOK' /\ (InFlight' => proc' # None) /\ DepTypeOK'
                    /\ unit' \in UnitFileType
    BY DEF TypeOK, UnitTypeOK, EnvType, DepTypeOK, UnitFileType
  <2> QED BY <2>1
<1>2. UNCHANGED unitVars => UnitTypeOK' /\ proc' = proc
  BY <1>0 DEF UnitTypeOK, unitVars
<1>3. UNCHANGED depVars => DepTypeOK'
  BY <1>0 DEF DepTypeOK, depVars
<1>4. UNCHANGED webVars => WebTypeOK' /\ (InFlight' = InFlight)
  BY <1>0, WebStutters
<1>5. UNCHANGED disk /\ Cut => WebTypeOK' /\ ~InFlight'
  BY <1>0, CutType
<1>6. StartUnit(env) => UnitTypeOK'
  BY <1>0, StartType
<1>7. ASSUME NEW s \in {"idle", "binary", "files", "unit", "reload", "copy",
                     "key", "restart"},
             dep' = [dep EXCEPT !.step = s], clean' \in BOOLEAN,
             deployed' \in [bin : Versions, key : 1..MaxDeploys + 1] \cup {None}
      PROVE  DepTypeOK'
  BY <1>0, <1>7 DEF DepTypeOK
<1>8. Absent \in EnvType
  BY DEF Absent, EnvType
<1>9. DeployOver /\ deployed' \in [bin : Versions, key : 1..MaxDeploys + 1] \cup {None}
        => DepTypeOK'
  BY <1>0 DEF DeployOver, DepTypeOK
<1>a. CASE Serve
  <2>1. CASE Handle
    <3>1. WebTypeOK'
      BY <1>0, <2>1, HandleType
    <3>2. InFlight' => InFlight
      BY <2>1 DEF Handle, Route, RoutePanics, Open, OpenHtml, Stat, StatFails, OpenIndex,
                  Head, Copy, CopyFails, Drop, Finish, InFlight
    <3> QED BY <1>0, <1>2, <1>3, <1>a, <3>1, <3>2 DEF Serve
  <2>2. CASE proc # None /\ \E h \in Hosts, p \in Paths : Arrive(proc.bin, h, p)
    <3>1. proc.bin \in Versions
      BY <1>0, <2>2 DEF UnitTypeOK
    <3>2. WebTypeOK'
      BY <1>0, <2>2, <3>1, ArriveType
    <3> QED BY <1>0, <1>2, <1>3, <1>a, <2>2, <3>2 DEF Serve
  <2> QED BY <1>a, <2>1, <2>2 DEF Serve
<1>b. CASE Deploy
  <2>1. CASE \E v \in Versions : StartDeploy(v)
    <3>1. PICK v \in Versions : StartDeploy(v)
      BY <2>1
    <3>2. dep.n \in 1..MaxDeploys + 1 /\ dep.n <= MaxDeploys
      BY <1>0, <3>1 DEF StartDeploy, DepTypeOK
    <3>3. dep' = [step |-> "binary", v |-> v, n |-> dep.n + 1]
      BY <3>1 DEF StartDeploy
    <3>4. DepTypeOK'
      BY <3>1, <3>2, <3>3 DEF StartDeploy, DepTypeOK
    <3> QED BY <1>0, <1>2, <1>4, <3>1, <3>4 DEF StartDeploy
  <2>2. CASE SyncBinary
    <3>1. dep.v \in Versions
      BY <1>0 DEF DepTypeOK
    <3>2. DepTypeOK'
      BY <1>0, <1>7, <2>2 DEF SyncBinary, DepTypeOK
    <3> QED BY <1>0, <1>2, <1>4, <2>2, <3>1, <3>2 DEF SyncBinary
  <2>3. CASE \E f \in Files : SyncFile(f)
    <3>1. PICK f \in Files : SyncFile(f)
      BY <2>3
    <3>2. WebTypeOK'
      BY <1>0, <3>1, PutType DEF SyncFile, DepTypeOK
    <3>3. InFlight' = InFlight
      BY <3>1 DEF SyncFile, Put, rqVars, InFlight
    <3> QED BY <1>0, <1>2, <1>3, <3>1, <3>2, <3>3 DEF SyncFile
  <2>4. CASE SyncEnds
    <3>1. DepTypeOK'
      BY <1>0, <1>7, <2>4 DEF SyncEnds, DepTypeOK
    <3> QED BY <1>0, <1>2, <1>4, <2>4, <3>1 DEF SyncEnds
  <2>5. CASE DeployEnds
    <3>1. DepTypeOK'
      BY <1>0, <1>9, <2>5 DEF DeployEnds, DepTypeOK
    <3> QED BY <1>0, <1>2, <1>4, <2>5, <3>1 DEF DeployEnds
  <2>6. CASE CopyEnv
    <3>1. DepTypeOK'
      BY <1>0, <1>7, <2>6 DEF CopyEnv, DepTypeOK
    <3>2. env' \in EnvType
      <4>1. CASE env' = [site |-> TRUE, key |-> 0, there |-> TRUE]
        BY <4>1, DeploysAssumption DEF EnvType
      <4>2. CASE UNCHANGED env
        BY <1>0, <4>2
      <4> QED BY <2>6, <4>1, <4>2 DEF CopyEnv
    <3> QED BY <1>0, <1>2, <1>4, <2>6, <3>1, <3>2 DEF CopyEnv
  <2>7. CASE AppendKey
    <3>1. DepTypeOK'
      BY <1>0, <1>7, <2>7 DEF AppendKey, DepTypeOK
    <3>2. env' \in EnvType
      <4>1. dep.n \in 0..MaxDeploys + 1
        BY <1>0 DEF DepTypeOK
      <4>2. CASE env' = [env EXCEPT !.key = dep.n, !.there = TRUE]
        BY <1>0, <4>1, <4>2 DEF EnvType
      <4>3. CASE UNCHANGED env
        BY <1>0, <4>3
      <4> QED BY <2>7, <4>2, <4>3 DEF AppendKey
    <3> QED BY <1>0, <1>2, <1>4, <2>7, <3>1, <3>2 DEF AppendKey
  <2>8. CASE RestartUnit
    <3>1. deployed' \in [bin : Versions, key : 1..MaxDeploys + 1] \cup {None}
      BY <1>0, <2>8 DEF RestartUnit, DepTypeOK
    <3>2. DepTypeOK'
      BY <1>9, <2>8, <3>1 DEF RestartUnit
    <3> QED BY <1>0, <1>5, <1>6, <2>8, <3>2 DEF RestartUnit, Restart
  <2>9. CASE CopyUnit
    <3>1. DepTypeOK'
      BY <1>0, <1>7, <2>9 DEF CopyUnit, DepTypeOK
    <3>2. unit' \in UnitFileType
      <4>1. dep.v \in Versions
        BY <1>0 DEF DepTypeOK
      <4>2. CASE unit' = [unit EXCEPT !.file = dep.v]
        BY <1>0, <4>1, <4>2 DEF UnitFileType
      <4>3. CASE UNCHANGED unit
        BY <1>0, <4>3
      <4> QED BY <2>9, <4>2, <4>3 DEF CopyUnit
    <3> QED BY <1>0, <1>2, <1>4, <2>9, <3>1, <3>2 DEF CopyUnit
  <2>10. CASE ReloadUnit
    <3>1. DepTypeOK'
      BY <1>0, <1>7, <2>10 DEF ReloadUnit, DepTypeOK
    <3>2. unit' \in UnitFileType
      BY <1>0, <2>10 DEF ReloadUnit, UnitFileType
    <3> QED BY <1>0, <1>2, <1>4, <2>10, <3>1, <3>2 DEF ReloadUnit
  <2> QED BY <1>b, <2>1, <2>2, <2>3, <2>4, <2>5, <2>6, <2>7, <2>8, <2>9, <2>10 DEF Deploy
<1>c. CASE Tick
  <2>1. UnitTypeOK'
    <3>1. starts.age \in 0..Interval /\ timer \in 0..RestartSec
      BY <1>0 DEF UnitTypeOK
    <3>2. timer' \in 0..RestartSec /\ (timer' # 0 => timer # 0)
      BY <1>c, <3>1 DEF Tick, RestartSec
    <3>3. starts' \in [age : 0..Interval, count : 0..Burst]
      BY <1>0, <1>c DEF Tick, Rested, UnitTypeOK, Interval, Burst
    <3> QED BY <1>0, <1>c, <3>2, <3>3 DEF Tick, UnitTypeOK
  <2> QED BY <1>0, <1>3, <1>4, <1>c, <2>1 DEF Tick
<1>d. CASE AutoRestart
  <2>1. ~InFlight
    BY <1>0, <1>d DEF AutoRestart, UnitTypeOK
  <2> QED BY <1>0, <1>3, <1>4, <1>6, <1>d, <2>1 DEF AutoRestart
<1>e. CASE Crash
  <2>1. UnitTypeOK'
    BY <1>0, <1>e DEF Crash, UnitTypeOK, RestartSec
  <2> QED BY <1>0, <1>3, <1>5, <1>e, <2>1 DEF Crash
<1>f. CASE CleanTmp
  <2>1. DepTypeOK'
    BY <1>0, <1>f DEF CleanTmp, DepTypeOK
  <2> QED BY <1>0, <1>2, <1>4, <1>8, <1>f, <2>1 DEF CleanTmp
<1>g. CASE Reboot
  <2>1. UnitTypeOK'
    BY <1>0, <1>g DEF Reboot, UnitTypeOK, RestartSec, Interval, Burst
  <2>2. DepTypeOK'
    BY <1>9, <1>g DEF Reboot
  <2>3. unit' \in UnitFileType
    BY <1>0, <1>g DEF Reboot, UnitFileType
  <2> QED BY <1>0, <1>5, <1>8, <1>g, <2>1, <2>2, <2>3 DEF Reboot
<1>h. CASE UNCHANGED vars
  BY <1>0, <1>2, <1>3, <1>4, <1>h DEF vars
<1> QED BY <1>a, <1>b, <1>c, <1>d, <1>e, <1>f, <1>g, <1>h DEF Next

LEMMA TypeInit == Init => TypeOK
<1> SUFFICES ASSUME Init PROVE TypeOK
  OBVIOUS
<1>1. WebTypeOK
  <2>1. disk \in [Files -> Versions \cup {0}]
    BY DEF Init, WebInit
  <2>2. \A p \in Pages : disk[<<p, "index">>] # 0 => disk[<<p, "plain">>] # 0
    BY DEF Init, WebInit, Files
  <2> QED BY <2>1, <2>2 DEF Init, WebInit, WebTypeOK, Locations, Contents
<1>2. env \in EnvType
  BY DEF Init, EnvType
<1>3. UnitTypeOK
  BY DEF Init, UnitTypeOK, Rested, None, RestartSec, Interval, Burst
<1>4. DepTypeOK
  BY DEF Init, DepTypeOK
<1>5. binary \in Versions /\ (InFlight => proc # None) /\ unit \in UnitFileType
  BY DEF Init, WebInit, InFlight, UnitFileType
<1> QED BY <1>1, <1>2, <1>3, <1>4, <1>5, Parts

(* Site.tla, TypeOK: the request is answered by a running process, a file it *)
(* opened is no directory once it is sent, an index lies in a directory.     *)
THEOREM TypeCorrect == Spec => []TypeOK
BY TypeInit, TypeStep, PTL DEF Spec

-----------------------------------------------------------------------------
(* What was deployed runs                                                    *)

(* The steps of a deploy from the first rsync to systemctl: what each of     *)
(* them has put in place stays until the last one, which trusts it.          *)
InPlace ==
    /\ dep.step \in {"files", "unit", "reload", "copy", "key", "restart"} => binary = dep.v
    /\ dep.step \in {"unit", "reload", "copy", "key", "restart"} =>
         \A f \in Tree[dep.v] : disk[f] = dep.v
    /\ dep.step = "reload" /\ clean => unit.file = dep.v
    /\ dep.step \in {"copy", "key", "restart"} /\ clean => unit.loaded = dep.v
    /\ dep.step = "restart" /\ clean /\ Complete(env) => env.key = dep.n

(* Nothing but a deploy changes the binary, and a deploy that has begun is   *)
(* no longer the last one, so the binary on the server is deployed.bin.      *)
LastDeploy ==
    deployed # None => /\ dep.step = "idle" /\ binary = deployed.bin
                       /\ Complete(env) /\ env.key = deployed.key
                       /\ unit.loaded = deployed.bin
                       /\ \A f \in Tree[deployed.bin] : disk[f] = deployed.bin
                       /\ proc # None => proc = deployed

DeployInv == InPlace /\ LastDeploy

(* A step of systemd or of the web leaves a deploy where it is.              *)
LEMMA DeployKept ==
    ASSUME DeployInv, UNCHANGED <<disk, binary, env, unit, depVars>>,
           proc' \in {None, proc}
    PROVE  DeployInv'
BY DEF DeployInv, InPlace, LastDeploy, depVars, Complete

LEMMA StartedIsDeployed ==
    ASSUME TypeOK, StartUnit(env), binary \in Versions,
           NEW d \in [bin : Versions, key : 1..MaxDeploys + 1],
           binary = d.bin, env.key = d.key
    PROVE  proc' # None => proc' = d
<1>1. proc' # None => proc' = [bin |-> binary, key |-> env.key]
  BY Parts, StartType
<1>2. d = [bin |-> d.bin, key |-> d.key]
  OBVIOUS
<1> QED BY <1>1, <1>2

LEMMA DeployStep ==
    ASSUME TypeOK, DeployInv, [Next]_vars
    PROVE  DeployInv'
<1>0. /\ env \in EnvType /\ DepTypeOK /\ binary \in Versions /\ unit \in UnitFileType
      /\ disk \in [Files -> Versions \cup {0}]
  BY Parts DEF WebTypeOK
<1>1. dep.step # "idle" => deployed = None
  BY DEF DeployInv, LastDeploy
<1>2. ASSUME NEW s \in STRING, dep' = [dep EXCEPT !.step = s]
      PROVE  dep'.step = s /\ dep'.v = dep.v /\ dep'.n = dep.n
  BY <1>0, <1>2 DEF DepTypeOK
<1>3. ~Complete(Absent)
  BY DEF Complete, Absent
<1>a. CASE Serve
  <2>1. UNCHANGED disk
    BY <1>a DEF Serve, Handle, RoutePanics, CopyFails, Arrive
  <2> QED BY <1>a, <2>1, DeployKept DEF Serve, unitVars
<1>b. CASE Deploy
  <2>1. CASE \E v \in Versions : StartDeploy(v)
    <3>1. PICK v \in Versions : StartDeploy(v)
      BY <2>1
    <3>2. dep'.step = "binary" /\ deployed' = None
      BY <3>1 DEF StartDeploy
    <3> QED BY <3>2 DEF DeployInv, InPlace, LastDeploy
  <2>2. CASE SyncBinary
    <3>1. dep'.step = "files" /\ dep'.v = dep.v /\ binary' = dep.v /\ deployed' = None
      BY <1>1, <1>2, <2>2 DEF SyncBinary
    <3> QED BY <3>1 DEF DeployInv, InPlace, LastDeploy
  <2>3. CASE \E f \in Files : SyncFile(f)
    <3>1. /\ dep.step = "files" /\ dep' = dep /\ binary' = binary /\ deployed' = None
      BY <1>1, <2>3 DEF SyncFile, depVars
    <3> QED BY <3>1 DEF DeployInv, InPlace, LastDeploy
  <2>4. CASE SyncEnds
    <3>1. /\ dep.step = "files" /\ dep'.step = "unit" /\ dep'.v = dep.v
          /\ binary' = binary /\ deployed' = None /\ disk' = disk
      BY <1>1, <1>2, <2>4 DEF SyncEnds, webVars
    <3>2. \A f \in Tree[dep.v] : disk[f] = dep.v
      BY <2>4 DEF SyncEnds, Stale
    <3> QED BY <3>1, <3>2 DEF DeployInv, InPlace, LastDeploy
  <2>5. CASE DeployEnds
    <3>1. dep'.step = "idle" /\ deployed' = None
      BY <1>1, <2>5 DEF DeployEnds, DeployOver
    <3> QED BY <3>1 DEF DeployInv, InPlace, LastDeploy
  <2>6. CASE CopyEnv
    <3>1. /\ dep.step = "copy" /\ dep'.step = "key" /\ dep'.v = dep.v
          /\ binary' = binary /\ deployed' = None /\ disk' = disk
          /\ unit' = unit /\ (clean' => clean)
      BY <1>1, <1>2, <2>6 DEF CopyEnv, webVars
    <3> QED BY <3>1 DEF DeployInv, InPlace, LastDeploy
  <2>7. CASE AppendKey
    <3>1. /\ dep.step = "key" /\ dep'.step = "restart" /\ dep'.v = dep.v /\ dep'.n = dep.n
          /\ binary' = binary /\ deployed' = None /\ disk' = disk
          /\ unit' = unit /\ (clean' => clean)
      BY <1>1, <1>2, <2>7 DEF AppendKey, webVars
    <3>2. clean' => env'.key = dep.n
      BY <1>0, <2>7 DEF AppendKey, EnvType
    <3> QED BY <3>1, <3>2 DEF DeployInv, InPlace, LastDeploy
  <2>8. CASE RestartUnit
    <3>1. /\ dep.step = "restart" /\ dep'.step = "idle" /\ StartUnit(env)
          /\ UNCHANGED <<disk, binary, env, unit>>
      BY <2>8 DEF RestartUnit, Restart, DeployOver
    <3>2. CASE ~(clean /\ Complete(env))
      <4>1. deployed' = None
        BY <2>8, <3>2 DEF RestartUnit
      <4> QED BY <3>1, <4>1 DEF DeployInv, InPlace, LastDeploy
    <3>3. CASE clean /\ Complete(env)
      <4>1. deployed' = [bin |-> dep.v, key |-> dep.n]
        BY <2>8, <3>3 DEF RestartUnit
      <4>2. deployed' \in [bin : Versions, key : 1..MaxDeploys + 1]
        BY <1>0, <4>1 DEF DepTypeOK
      <4>3. /\ binary = dep.v /\ env.key = dep.n /\ unit.loaded = dep.v
            /\ \A f \in Tree[dep.v] : disk[f] = dep.v
        BY <3>1, <3>3 DEF DeployInv, InPlace
      <4>4. proc' # None => proc' = deployed'
        BY <1>0, <3>1, <4>1, <4>2, <4>3, StartedIsDeployed
      <4>5. LastDeploy'
        BY <3>1, <3>3, <4>1, <4>3, <4>4 DEF LastDeploy, Complete
      <4> QED BY <3>1, <4>5 DEF DeployInv, InPlace
    <3> QED BY <3>2, <3>3
  <2>9. CASE CopyUnit
    <3>1. /\ dep.step = "unit" /\ dep'.step = "reload" /\ dep'.v = dep.v
          /\ binary' = binary /\ deployed' = None /\ disk' = disk
      BY <1>1, <1>2, <2>9 DEF CopyUnit, webVars
    <3>2. clean' => unit'.file = dep.v
      BY <1>0, <2>9 DEF CopyUnit, UnitFileType
    <3> QED BY <3>1, <3>2 DEF DeployInv, InPlace, LastDeploy
  <2>10. CASE ReloadUnit
    <3>1. /\ dep.step = "reload" /\ dep'.step = "copy" /\ dep'.v = dep.v
          /\ binary' = binary /\ deployed' = None /\ disk' = disk
      BY <1>1, <1>2, <2>10 DEF ReloadUnit, webVars
    <3>2. clean' => clean /\ unit'.loaded = unit.file
      BY <1>0, <2>10 DEF ReloadUnit, UnitFileType
    <3> QED BY <3>1, <3>2 DEF DeployInv, InPlace, LastDeploy
  <2> QED BY <1>b, <2>1, <2>2, <2>3, <2>4, <2>5, <2>6, <2>7, <2>8, <2>9, <2>10 DEF Deploy
<1>c. CASE Tick
  BY <1>c, DeployKept DEF Tick, webVars
<1>d. CASE AutoRestart
  <2>1. StartUnit(env) /\ UNCHANGED <<disk, binary, env, unit, dep, clean, deployed>>
    BY <1>d DEF AutoRestart, webVars, depVars
  <2>2. deployed # None => (proc' # None => proc' = deployed)
    BY <1>0, <2>1, StartedIsDeployed DEF DepTypeOK, DeployInv, LastDeploy
  <2>3. InPlace'
    BY <2>1 DEF DeployInv, InPlace, Complete
  <2> QED BY <2>1, <2>2, <2>3 DEF DeployInv, LastDeploy, Complete
<1>e. CASE Crash
  BY <1>e, DeployKept DEF Crash
<1>f. CASE CleanTmp
  <2>1. /\ env' = Absent /\ deployed' = None
        /\ UNCHANGED <<disk, binary, unit, dep, clean>>
    BY <1>f DEF CleanTmp, webVars
  <2> QED BY <1>3, <2>1 DEF DeployInv, InPlace, LastDeploy
<1>g. CASE Reboot
  <2>1. dep'.step = "idle" /\ deployed' = None
    BY <1>g DEF Reboot, DeployOver
  <2> QED BY <2>1 DEF DeployInv, InPlace, LastDeploy
<1>h. CASE UNCHANGED vars
  BY <1>h, DeployKept DEF vars, webVars, unitVars
<1> QED BY <1>a, <1>b, <1>c, <1>d, <1>e, <1>f, <1>g, <1>h DEF Next

LEMMA DeployInit == Init => DeployInv
BY DEF Init, WebInit, DeployInv, InPlace, LastDeploy, Complete, Files

(* Site.tla, DeployedRuns: whatever crashed and restarted between rsync, cp, *)
(* daemon-reload, echo and systemctl, what a deploy that worked put in place *)
(* is what runs.                                                             *)
THEOREM DeployedRunsAlways == Spec => []DeployedRuns
<1>1. Init => TypeOK /\ DeployInv
  BY TypeInit, DeployInit
<1>2. TypeOK /\ DeployInv /\ [Next]_vars => TypeOK' /\ DeployInv'
  BY TypeStep, DeployStep
<1>3. DeployInv => DeployedRuns
  BY DEF DeployInv, LastDeploy, DeployedRuns
<1> QED BY <1>1, <1>2, <1>3, PTL DEF Spec

-----------------------------------------------------------------------------
(* An answer is of one moment                                                *)

Now == Lookup(disk, req.bin, req.host, req.path)

(* The open file is that of an answer of the directory, or, when the request *)
(* is excused, the page's .html.                                             *)
FileSeen == \/ Reply(location, fd) \in could
            \/ excused /\ fd[1] = <<Page, "html">>

(* What the handler has seen so far is part of an answer that the directory  *)
(* gave: the answer with the open file, once it is no directory, and the one *)
(* with the .html, once the page as it is was missing.                       *)
Seen ==
    /\ InFlight => Now \in could
    /\ pc \notin {"idle", "route", "done"} => location = NewPath(req.bin, req.path)
    /\ pc = "openHtml" =>
         excused \/ Reply(location, Data(disk, <<Page, "html">>)) \in could
    /\ pc = "stat" /\ IsDir => disk[<<Page, "plain">>] # 0
    /\ pc = "stat" /\ ~IsDir => FileSeen
    /\ pc = "openIndex" => Page \in Dirs /\ disk[<<Page, "plain">>] # 0
    /\ pc \in {"head", "copy"} => FileSeen
    /\ pc = "copy" => length = fd
    /\ AnswersOfAMoment

LEMMA NowIs ==
    ASSUME location = NewPath(req.bin, req.path)
    PROVE  Now = Reply(location, Data(disk, Found(disk, Page)))
BY DEF Now, Lookup, Page

(* The answers that the handler writes are replies with, or without, a file. *)
LEMMA Finished ==
    ASSUME NEW body, (body = None /\ Finish(404, None, None))
                       \/ (body # None /\ Finish(200, body, body))
    PROVE  answer' = Reply(location, body)
BY DEF Finish, Reply

(* An error that is not the directory's is excused.                          *)
LEMMA FailedIsExcusable ==
    ASSUME NEW status \in {404, 500}, Finish(status, None, None), req' = req,
           location = NewPath(req.bin, req.path)
    PROVE  Excusable(answer)'
BY DEF Finish, Excusable, FirstStatus, FirstLength, None

(* So is the .html of the page.                                              *)
LEMMA HtmlIsExcusable ==
    ASSUME fd \in Contents, fd # None, fd[1] = <<Page, "html">>,
           answer' = Reply(location, fd), UNCHANGED <<req, location>>,
           location = NewPath(req.bin, req.path)
    PROVE  Excusable(answer)'
<1>1. fd = <<<<Page, "html">>, fd[2]>> /\ fd[2] \in Versions
  BY DEF Contents, None
<1>2. answer'.location = location
  BY DEF Reply
<1>3. Page' = Page
  BY DEF Page
<1> QED BY <1>1, <1>2, <1>3 DEF Excusable

LEMMA SeenHandle ==
    ASSUME WebTypeOK, Seen, Handle
    PROVE  Seen'
<1>0. ASSUME InFlight, UNCHANGED <<disk, req, could>>
      PROVE  Page' = Page /\ Now' = Now /\ Now \in could
  BY <1>0 DEF Page, Now, Seen
<1>1. ASSUME pc \notin {"idle", "route", "done"}
      PROVE  InFlight /\ Now = Reply(location, Data(disk, Found(disk, Page)))
  BY <1>1, NowIs DEF Seen, InFlight
<1>2. ASSUME NEW kind \in {"plain", "html", "index"}, Opened(kind), Opens(kind),
             pc # "idle"
      PROVE  fd' = Data(disk, <<Page, kind>>) /\ fd'[1][2] = kind
  BY <1>2, OpenedFile DEF Data, Opened, Opens
<1>3. ASSUME NEW kind \in {"plain", "html", "index"}, ~Opened(kind)
      PROVE  Data(disk, <<Page, kind>>) = None
  BY <1>3 DEF Data, Opened
<1>a. CASE Route /\ UNCHANGED <<disk, could>>
  <2>1. InFlight /\ UNCHANGED <<disk, req, could>>
    BY <1>a DEF Route, InFlight
  <2> QED BY <1>0, <1>a, <2>1 DEF Route, Seen, AnswersOfAMoment
<1>b. CASE Open /\ UNCHANGED <<disk, could>>
  <2>1. /\ InFlight /\ UNCHANGED <<disk, req, could, location>>
        /\ Page' = Page /\ Now' = Now /\ Now \in could
        /\ Now = Reply(location, Data(disk, Found(disk, Page)))
        /\ location = NewPath(req.bin, req.path)
    BY <1>0, <1>1, <1>b DEF Open, InFlight, Seen
  <2>2. CASE Opened("plain") /\ pc' = "stat" /\ Opens("plain")
    <3>1. fd' = Data(disk, <<Page, "plain">>) /\ fd'[1][2] = "plain"
      BY <1>2, <1>b, <2>2 DEF Open
    <3>2. Page \notin Dirs => Found(disk, Page) = <<Page, "plain">>
      BY <2>2 DEF Found, Opened
    <3>3. IsDir' = (Page \in Dirs)
      BY <2>1, <3>1 DEF IsDir
    <3>4. Page \notin Dirs => Reply(location', fd') \in could'
      BY <2>1, <3>1, <3>2
    <3> QED BY <2>1, <2>2, <3>3, <3>4 DEF Opened, Seen, FileSeen, AnswersOfAMoment
  <2>3. CASE OpenFails("plain") /\ pc' = "openHtml" /\ UNCHANGED <<fd, length, answer>>
    <3>1. ~Opened("plain") => Found(disk, Page) = <<Page, "html">>
      BY DEF Found, Opened
    <3>2. excused' \/ Reply(location', Data(disk', <<Page', "html">>)) \in could'
      BY <2>1, <2>3, <3>1 DEF OpenFails
    <3> QED BY <2>1, <2>3, <3>2 DEF Seen, AnswersOfAMoment
  <2> QED BY <1>b, <2>2, <2>3 DEF Open
<1>c. CASE OpenHtml /\ UNCHANGED <<disk, could>>
  <2>1. /\ InFlight /\ UNCHANGED <<disk, req, could, location>>
        /\ Page' = Page /\ Now' = Now /\ Now \in could
        /\ excused \/ Reply(location, Data(disk, <<Page, "html">>)) \in could
        /\ location = NewPath(req.bin, req.path)
    BY <1>0, <1>c DEF OpenHtml, InFlight, Seen
  <2>2. CASE Opened("html") /\ pc' = "stat" /\ Opens("html")
    <3>1. fd' = Data(disk, <<Page, "html">>) /\ fd'[1][2] = "html"
      BY <1>2, <1>c, <2>2 DEF OpenHtml
    <3>2. ~IsDir'
      BY <3>1 DEF IsDir
    <3>3. fd'[1] = <<Page, "html">> /\ excused' = excused
      BY <2>2 DEF Opens
    <3>4. FileSeen'
      BY <2>1, <3>1, <3>3 DEF FileSeen
    <3> QED BY <2>1, <2>2, <3>2, <3>4 DEF Seen, AnswersOfAMoment
  <2>3. CASE OpenFails("html") /\ Finish(404, None, None)
    <3>1. answer' = Reply(location, None) /\ pc' = "done"
      BY <2>3, Finished DEF Finish
    <3>2. excused' \/ answer' \in could'
      BY <1>3, <2>1, <2>3, <3>1 DEF OpenFails
    <3>3. Excusable(answer)'
      BY <2>1, <2>3, FailedIsExcusable
    <3>4. AnswersOfAMoment'
      BY <3>2, <3>3 DEF AnswersOfAMoment
    <3> QED BY <3>1, <3>4 DEF Seen, InFlight
  <2> QED BY <1>c, <2>2, <2>3 DEF OpenHtml
<1>d. CASE Stat /\ UNCHANGED <<disk, could>>
  <2>1. /\ InFlight /\ UNCHANGED <<disk, req, could, location, fd>>
        /\ Page' = Page /\ Now' = Now /\ Now \in could
        /\ location = NewPath(req.bin, req.path)
    BY <1>0, <1>d DEF Stat, InFlight, Seen
  <2>2. CASE IsDir
    BY <1>d, <2>1, <2>2 DEF Stat, Seen, IsDir, AnswersOfAMoment
  <2>3. CASE ~IsDir
    <3>1. FileSeen'
      BY <1>d, <2>1, <2>3 DEF Stat, Seen, FileSeen
    <3> QED BY <1>d, <2>1, <2>3, <3>1 DEF Stat, Seen, AnswersOfAMoment
  <2> QED BY <2>2, <2>3
<1>e. CASE OpenIndex /\ UNCHANGED <<disk, could>>
  <2>1. /\ InFlight /\ UNCHANGED <<disk, req, could, location>>
        /\ Page' = Page /\ Now' = Now /\ Now \in could
        /\ Now = Reply(location, Data(disk, Found(disk, Page)))
        /\ location = NewPath(req.bin, req.path)
    BY <1>0, <1>1, <1>e DEF OpenIndex, InFlight, Seen
  <2>2. Found(disk, Page) = <<Page, "index">>
    BY <1>e DEF OpenIndex, Seen, Found
  <2>3. CASE Opened("index") /\ pc' = "stat" /\ Opens("index")
    <3>1. fd' = Data(disk, <<Page, "index">>) /\ fd'[1][2] = "index"
      BY <1>2, <1>e, <2>3 DEF OpenIndex
    <3>2. ~IsDir' /\ FileSeen'
      BY <2>1, <2>2, <3>1 DEF IsDir, FileSeen
    <3> QED BY <2>1, <2>3, <3>2 DEF Seen, AnswersOfAMoment
  <2>4. CASE OpenFails("index") /\ Finish(404, None, None)
    <3>1. answer' = Reply(location, None) /\ pc' = "done"
      BY <2>4, Finished DEF Finish
    <3>2. excused' \/ answer' \in could'
      BY <1>3, <2>1, <2>2, <2>4, <3>1 DEF OpenFails
    <3>3. Excusable(answer)'
      BY <2>1, <2>4, FailedIsExcusable
    <3>4. AnswersOfAMoment'
      BY <3>2, <3>3 DEF AnswersOfAMoment
    <3> QED BY <3>1, <3>4 DEF Seen, InFlight
  <2> QED BY <1>e, <2>3, <2>4 DEF OpenIndex
<1>f. CASE Head /\ UNCHANGED <<disk, could>>
  <2>1. /\ InFlight /\ UNCHANGED <<disk, req, could, location, fd>>
        /\ Now' = Now /\ Now \in could
        /\ location = NewPath(req.bin, req.path)
    BY <1>0, <1>f DEF Head, InFlight, Seen
  <2>2. FileSeen'
    BY <1>0, <1>f, <2>1 DEF Head, Seen, FileSeen, InFlight
  <2> QED BY <1>f, <2>1, <2>2 DEF Head, Length, Seen, AnswersOfAMoment
<1>g. CASE Copy /\ UNCHANGED <<disk, could>>
  <2>1. /\ fd \in Contents /\ fd # None /\ length = fd /\ FileSeen
        /\ location = NewPath(req.bin, req.path) /\ UNCHANGED <<req, location, excused>>
    BY <1>g DEF Copy, Seen, WebTypeOK
  <2>2. answer' = Reply(location, fd) /\ pc' = "done"
    BY <1>g, <2>1, Finished DEF Copy, Finish
  <2>3. fd[1] = <<Page, "html">> => Excusable(answer)'
    BY <2>1, <2>2, HtmlIsExcusable
  <2>4. AnswersOfAMoment'
    BY <1>g, <2>1, <2>2, <2>3 DEF FileSeen, AnswersOfAMoment
  <2> QED BY <2>2, <2>4 DEF Seen, InFlight
<1>h. CASE CopyFails \/ RoutePanics
  BY <1>h DEF CopyFails, RoutePanics, Drop, Seen, InFlight, AnswersOfAMoment
<1>i. CASE StatFails /\ UNCHANGED <<disk, could>>
  <2>1. Excusable(answer)' /\ excused' /\ pc' = "done"
    BY <1>i, FailedIsExcusable DEF StatFails, Seen, Finish
  <2> QED BY <2>1 DEF Seen, InFlight, AnswersOfAMoment
<1> QED BY <1>a, <1>b, <1>c, <1>d, <1>e, <1>f, <1>g, <1>h, <1>i DEF Handle

LEMMA SeenKept ==
    ASSUME Seen, UNCHANGED <<disk, rqVars, could, excused>>
    PROVE  Seen'
<1>1. Page' = Page /\ Now' = Now /\ IsDir' = IsDir /\ (InFlight' = InFlight)
  BY DEF rqVars, Page, Now, IsDir, InFlight
<1>2. (FileSeen' = FileSeen) /\ (AnswersOfAMoment => AnswersOfAMoment')
  BY <1>1 DEF rqVars, FileSeen, AnswersOfAMoment, Excusable
<1> QED BY <1>1, <1>2 DEF rqVars, Seen

LEMMA SeenCut ==
    ASSUME Seen, Cut, UNCHANGED disk
    PROVE  Seen'
<1>1. CASE Drop
  BY <1>1 DEF Drop, Seen, InFlight, AnswersOfAMoment
<1> QED BY <1>1, SeenKept DEF Cut

LEMMA SeenArrive ==
    ASSUME NEW b, NEW h, NEW p, Arrive(b, h, p)
    PROVE  Seen'
<1>1. /\ pc' = "route" /\ req' = [host |-> h, path |-> p, bin |-> b]
      /\ could' = {Lookup(disk, b, h, p)} /\ disk' = disk
  BY DEF Arrive
<1>2. Now' = Lookup(disk, b, h, p)
  BY <1>1 DEF Now
<1> QED BY <1>1, <1>2 DEF Seen, AnswersOfAMoment

(* A page that becomes another version gives a new answer of the moment; an  *)
(* .html that appears once the page was missing is one too, or excused.      *)
LEMMA SeenPut ==
    ASSUME WebTypeOK, Seen, dep.v \in Versions,
           NEW f \in Tree[dep.v], f \in Files, Put(f, dep.v)
    PROVE  Seen'
<1>1. /\ disk' = [disk EXCEPT ![f] = dep.v] /\ disk \in [Files -> Versions \cup {0}]
      /\ UNCHANGED <<pc, req, location, fd, length, answer>>
      /\ Page' = Page /\ (InFlight' = InFlight) /\ IsDir' = IsDir
      /\ could \subseteq could' /\ (excused => excused')
  BY DEF Put, rqVars, WebTypeOK, Page, InFlight, IsDir
<1>2. InFlight => Now' \in could'
  BY DEF Put, Now, rqVars
<1>3. \A p \in Pages : disk[<<p, "plain">>] # 0 => disk'[<<p, "plain">>] # 0
  BY <1>1 DEF Files
<1>4. pc # "idle" => Page \in Pages
  BY Handled
<1>5. ASSUME pc = "openHtml"
      PROVE  excused' \/ Reply(location, Data(disk, <<Page, "html">>))' \in could'
  <2>1. InFlight /\ location = NewPath(req.bin, req.path) /\ Page \in Pages
    BY <1>4, <1>5 DEF Seen, InFlight
  <2>2. CASE f = <<Page, "html">>
    <3>1. excused' \/ disk[<<Page, "plain">>] = 0
      BY <2>1, <2>2 DEF Put
    <3> SUFFICES ASSUME disk[<<Page, "plain">>] = 0
                 PROVE  Reply(location, Data(disk, <<Page, "html">>))' \in could'
      BY <3>1
    <3>2. disk'[<<Page, "plain">>] = 0
      BY <1>1, <2>1, <2>2 DEF Files
    <3>3. Found(disk', Page') = <<Page, "html">>
      BY <1>1, <3>2 DEF Found
    <3>4. Now' = Reply(location', Data(disk', Found(disk', Page')))
      BY <1>1, <2>1 DEF Now, Lookup, Page
    <3> QED BY <1>1, <1>2, <2>1, <3>3, <3>4
  <2>3. CASE f # <<Page, "html">>
    <3>1. <<Page, "html">> \in Files
      BY <2>1 DEF Files
    <3>2. disk'[<<Page, "html">>] = disk[<<Page, "html">>]
      BY <1>1, <2>3, <3>1
    <3>3. Data(disk', <<Page', "html">>) = Data(disk, <<Page, "html">>)
      BY <1>1, <3>2 DEF Data
    <3> QED BY <1>1, <1>5, <3>3 DEF Seen
  <2> QED BY <2>2, <2>3
<1>6. FileSeen => FileSeen'
  BY <1>1 DEF FileSeen
<1>7. AnswersOfAMoment => AnswersOfAMoment'
  BY <1>1 DEF AnswersOfAMoment, Excusable
<1> QED BY <1>1, <1>2, <1>3, <1>4, <1>5, <1>6, <1>7 DEF Seen

LEMMA SeenStep ==
    ASSUME TypeOK, Seen, [Next]_vars
    PROVE  Seen'
<1>0. WebTypeOK /\ dep.v \in Versions
  BY DEF TypeOK
<1>1. UNCHANGED webVars => Seen'
  BY SeenKept DEF webVars
<1>a. CASE Serve
  <2>1. CASE Handle
    BY <1>0, <2>1, SeenHandle
  <2>2. CASE \E h \in Hosts, p \in Paths : Arrive(proc.bin, h, p)
    BY <2>2, SeenArrive
  <2> QED BY <1>a, <2>1, <2>2 DEF Serve
<1>b. CASE Deploy
  <2>1. CASE \E f \in Files : SyncFile(f)
    <3>1. PICK f \in Files : SyncFile(f)
      BY <2>1
    <3>2. f \in Tree[dep.v] /\ Put(f, dep.v)
      BY <3>1 DEF SyncFile, Stale
    <3> QED BY <1>0, <3>2, SeenPut
  <2>2. CASE RestartUnit
    BY <2>2, SeenCut DEF RestartUnit, Restart
  <2>3. CASE \E v \in Versions : StartDeploy(v)
    BY <1>1, <2>3 DEF StartDeploy
  <2>4. CASE SyncBinary \/ SyncEnds \/ DeployEnds \/ CopyUnit \/ ReloadUnit
            \/ CopyEnv \/ AppendKey
    BY <1>1, <2>4 DEF SyncBinary, SyncEnds, DeployEnds, CopyUnit, ReloadUnit,
                      CopyEnv, AppendKey
  <2> QED BY <1>b, <2>1, <2>2, <2>3, <2>4 DEF Deploy
<1>c. CASE Tick \/ AutoRestart \/ CleanTmp \/ UNCHANGED vars
  BY <1>1, <1>c DEF Tick, AutoRestart, CleanTmp, vars
<1>d. CASE Crash \/ Reboot
  BY <1>d, SeenCut DEF Crash, Reboot
<1> QED BY <1>a, <1>b, <1>c, <1>d DEF Next

LEMMA SeenInit == Init => Seen
BY DEF Init, WebInit, Seen, InFlight, AnswersOfAMoment

(* Website.tla, AnswersOfAMoment: the status, the length and the body of an  *)
(* answer belong together and to one state of the directory, whatever rsync  *)
(* replaces between the opens, the stat and the copy; after a failed system  *)
(* call they still belong together.                                          *)
THEOREM AnswersOfAMomentAlways == Spec => []AnswersOfAMoment
<1>1. Init => TypeOK /\ Seen
  BY TypeInit, SeenInit
<1>2. TypeOK /\ Seen /\ [Next]_vars => TypeOK' /\ Seen'
  BY TypeStep, SeenStep
<1>3. Seen => AnswersOfAMoment
  BY DEF Seen
<1> QED BY <1>1, <1>2, <1>3, PTL DEF Spec
=============================================================================
