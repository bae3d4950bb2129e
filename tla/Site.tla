-------------------------------- MODULE Site ---------------------------------
(***************************************************************************)
(* deploy.sh and the systemd unit around the website: rsync replaces the   *)
(* binary and the files under a running process, a remote script writes    *)
(* the environment file and restarts the unit, and systemd restarts a      *)
(* process that ended.  One tick is two seconds.                           *)
(***************************************************************************)
EXTENDS Website

CONSTANT
    MaxDeploys   (* bound: deploys after the one that set the site up        *)

ASSUME DeploysAssumption == MaxDeploys \in Nat

VARIABLES
    binary,      (* the version of the binary on the server                  *)
    env,         (* /tmp/komu_engineer_website_envs.txt                      *)
    unit,        (* the unit file: in /etc/systemd/system, and as loaded     *)
    state,       (* of the unit: "up", "waiting" or "failed"                 *)
    proc,        (* the process: the binary and the secret key it has        *)
    timer,       (* ticks to the automatic restart                           *)
    starts,      (* systemd's start limit: age of its window, starts in it   *)
    dep,         (* the deploy: its step, its version and its number         *)
    clean,       (* history: every remote step of the deploy worked          *)
    deployed     (* history: what the last deploy put in place, until        *)
                 (* something else touches the server's files                *)

unitVars == <<state, proc, timer, starts>>
depVars == <<dep, clean, deployed>>
vars == <<webVars, binary, env, unit, unitVars, depVars>>

Absent == [site |-> FALSE, key |-> 0, there |-> FALSE]
Complete(e) == e.there /\ e.site /\ e.key # 0

(* systemd's defaults: five starts in ten seconds.                           *)
Interval == 5
Burst == 5

(* Mutant: the unit without RestartSec, restarted at once.                   *)
MutantRestartSec == 0

RestartSec == 2

(* Nothing was started for that long.                                        *)
Rested == [age |-> Interval, count |-> 0]

TypeOK ==
    /\ WebTypeOK
    /\ binary \in Versions
    /\ env \in [site : BOOLEAN, key : 0..MaxDeploys + 1, there : BOOLEAN]
    /\ unit \in [file : Versions, loaded : Versions]
    /\ state \in {"up", "waiting", "failed"}
    /\ proc \in [bin : Versions, key : 1..MaxDeploys + 1] \cup {None}
    /\ (state = "up") = (proc # None) /\ (InFlight => proc # None)
    /\ timer \in 0..RestartSec /\ (timer # 0 => state = "waiting")
    /\ starts \in [age : 0..Interval, count : 0..Burst]
    /\ dep \in [step : {"idle", "binary", "files", "unit", "reload", "copy", "key", "restart"},
                v : Versions, n : 1..MaxDeploys + 1]
    /\ clean \in BOOLEAN
    /\ deployed \in [bin : Versions, key : 1..MaxDeploys + 1] \cup {None}

Init ==
    /\ WebInit
    /\ binary = 1 /\ env = [site |-> TRUE, key |-> 1, there |-> TRUE]
    /\ unit = [file |-> 1, loaded |-> 1]
    /\ state = "up" /\ proc = [bin |-> 1, key |-> 1]
    /\ timer = 0 /\ starts = Rested
    /\ dep = [step |-> "idle", v |-> 1, n |-> 1]
    /\ clean = TRUE /\ deployed = proc

-----------------------------------------------------------------------------
(* systemd starts the unit with the environment file e, unless it started it *)
(* too often.  cfg() refuses an environment without the site's variables or  *)
(* without the key; like a missing file, that counts as a start that ended.  *)
Window == IF starts = Rested THEN [age |-> 0, count |-> 0] ELSE starts

StartUnit(e) ==
    IF Window.count = Burst
    THEN /\ state' = "failed" /\ proc' = None /\ timer' = 0
         /\ UNCHANGED starts
    ELSE /\ starts' = [Window EXCEPT !.count = @ + 1]
         /\ IF Complete(e)
            THEN state' = "up" /\ proc' = [bin |-> binary, key |-> e.key] /\ timer' = 0
            ELSE state' = "waiting" /\ proc' = None /\ timer' = RestartSec

AutoRestart ==
    /\ state = "waiting" /\ timer = 0
    /\ StartUnit(env)
    /\ UNCHANGED <<webVars, binary, env, unit, depVars>>

(* The process ends by itself: a panic, a signal, no memory.                 *)
Crash ==
    /\ state = "up"
    /\ state' = "waiting" /\ proc' = None /\ timer' = RestartSec
    /\ Cut
    /\ UNCHANGED <<disk, binary, env, unit, starts, depVars>>

Tick ==
    /\ timer > 0 \/ starts # Rested
    /\ timer' = IF timer > 0 THEN timer - 1 ELSE 0
    /\ starts' = IF starts.age + 1 < Interval THEN [starts EXCEPT !.age = @ + 1] ELSE Rested
    /\ UNCHANGED <<webVars, binary, env, unit, state, proc, depVars>>

(* /tmp is cleaned up while the machine runs.                                *)
CleanTmp ==
    /\ env' = Absent /\ deployed' = None
    /\ UNCHANGED <<webVars, binary, unit, unitVars, dep, clean>>

DeployOver == dep' = [step |-> "idle", v |-> 1, n |-> dep.n] /\ clean' = TRUE

(* The machine restarts: /tmp is empty, the unit is enabled, ssh is gone.    *)
Reboot ==
    /\ env' = Absent /\ deployed' = None
    /\ state' = "waiting" /\ proc' = None /\ timer' = RestartSec
    /\ starts' = [age |-> 0, count |-> 1]
    /\ unit' = [unit EXCEPT !.loaded = unit.file]
    /\ DeployOver
    /\ Cut
    /\ UNCHANGED <<disk, binary>>

-----------------------------------------------------------------------------
(* The checks, the tests, the build and the updates of the system went well; *)
(* where one fails, or a change is not committed, nothing has changed.  Any  *)
(* version may be deployed, also one that was there before.                  *)
StartDeploy(v) ==
    /\ dep.step = "idle" /\ dep.n <= MaxDeploys
    /\ dep' = [step |-> "binary", v |-> v, n |-> dep.n + 1]
    /\ clean' = TRUE /\ deployed' = None
    /\ UNCHANGED <<webVars, binary, env, unit, unitVars>>

SyncBinary ==
    /\ dep.step = "binary"
    /\ binary' = dep.v
    /\ dep' = [dep EXCEPT !.step = "files"]
    /\ UNCHANGED <<webVars, env, unit, unitVars, clean, deployed>>

Stale == {f \in Tree[dep.v] : disk[f] # dep.v}

(* The second rsync, without --delete: a directory comes before what is in   *)
(* it, and a file that the version does not have stays.                      *)
SyncFile(f) ==
    /\ dep.step = "files" /\ f \in Stale
    /\ f[2] = "index" => disk[<<f[1], "plain">>] # 0
    /\ Put(f, dep.v)
    /\ UNCHANGED <<binary, env, unit, unitVars, depVars>>

SyncEnds ==
    /\ dep.step = "files" /\ Stale = {}
    /\ dep' = [dep EXCEPT !.step = "unit"]
    /\ UNCHANGED <<webVars, binary, env, unit, unitVars, clean, deployed>>

(* An rsync fails and set -e ends the script, or ssh is lost.                *)
DeployEnds ==
    /\ dep.step # "idle"
    /\ DeployOver
    /\ UNCHANGED <<webVars, binary, env, unit, unitVars, deployed>>

(* The commands of the remote script, which goes on when one fails.  First   *)
(* the unit file: cp of the one that rsync brought, daemon-reload, and an    *)
(* enable that finds the unit enabled.                                       *)
CopyUnit ==
    /\ dep.step = "unit"
    /\ \/ unit' = [unit EXCEPT !.file = dep.v] /\ UNCHANGED clean
       \/ UNCHANGED unit /\ clean' = FALSE
    /\ dep' = [dep EXCEPT !.step = "reload"]
    /\ UNCHANGED <<webVars, binary, env, unitVars, deployed>>

ReloadUnit ==
    /\ dep.step = "reload"
    /\ \/ unit' = [unit EXCEPT !.loaded = unit.file] /\ UNCHANGED clean
       \/ UNCHANGED unit /\ clean' = FALSE
    /\ dep' = [dep EXCEPT !.step = "copy"]
    /\ UNCHANGED <<webVars, binary, env, unitVars, deployed>>

(* Then cp and echo of the environment file.                                 *)
CopyEnv ==
    /\ dep.step = "copy"
    /\ \/ env' = [site |-> TRUE, key |-> 0, there |-> TRUE] /\ UNCHANGED clean
       \/ UNCHANGED env /\ clean' = FALSE
    /\ dep' = [dep EXCEPT !.step = "key"]
    /\ UNCHANGED <<webVars, binary, unit, unitVars, deployed>>

AppendKey ==
    /\ dep.step = "key"
    /\ \/ env' = [env EXCEPT !.key = dep.n, !.there = TRUE] /\ UNCHANGED clean
       \/ UNCHANGED env /\ clean' = FALSE
    /\ dep' = [dep EXCEPT !.step = "restart"]
    /\ UNCHANGED <<webVars, binary, unit, unitVars, deployed>>

(* Mutant: systemctl start, which leaves a running unit alone.               *)
MutantRestart == IF state = "up" THEN UNCHANGED <<unitVars, rqVars, could, excused>>
                 ELSE StartUnit(env) /\ Cut

(* systemctl restart: the process is stopped and the unit started.           *)
Restart == StartUnit(env) /\ Cut

RestartUnit ==
    /\ dep.step = "restart"
    /\ Restart
    /\ DeployOver
    /\ deployed' = IF clean /\ Complete(env) THEN [bin |-> dep.v, key |-> dep.n] ELSE None
    /\ UNCHANGED <<disk, binary, env, unit>>

Serve ==
    /\ \/ Handle
       \/ proc # None /\ \E h \in Hosts, p \in Paths : Arrive(proc.bin, h, p)
    /\ UNCHANGED <<binary, env, unit, unitVars, depVars>>

Deploy ==
    \/ \E v \in Versions : StartDeploy(v)
    \/ SyncBinary \/ \E f \in Files : SyncFile(f)
    \/ SyncEnds \/ DeployEnds \/ CopyUnit \/ ReloadUnit \/ CopyEnv \/ AppendKey \/ RestartUnit

Next == Serve \/ Deploy \/ Tick \/ AutoRestart \/ Crash \/ CleanTmp \/ Reboot

(* systemd's clock and its restarts do not stop.                             *)
Fairness == WF_vars(Tick) /\ WF_vars(AutoRestart)
Spec == Init /\ [][Next]_vars
FairSpec == Spec /\ Fairness

-----------------------------------------------------------------------------
(* From a deploy whose remote steps all worked until something else touches  *)
(* the server's files, a running process is the binary that was deployed     *)
(* with the key that was drawn, systemd knows its unit file, and the         *)
(* directory has its files, whatever restarts came between rsync, cp,        *)
(* daemon-reload, echo and systemctl.                                        *)
DeployedRuns ==
    deployed # None =>
        /\ proc # None => proc = deployed
        /\ Complete(env) /\ env.key = deployed.key
        /\ unit.loaded = deployed.bin
        /\ \A f \in Tree[deployed.bin] : disk[f] = deployed.bin

(* As long as its environment file is complete the site comes back after     *)
(* every crash, for ever: systemd waits long enough between two starts never *)
(* to reach its limit, after which it would leave the unit failed.           *)
BackUp == <>[]Complete(env) => []<>(state = "up")
=============================================================================
