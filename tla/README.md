# Verification of komu.engineer

TLA+ models, TLC runs and TLAPS proofs for the programs of this repository: a
personal website and the programs its blog posts are written about. Prose, data
and images make up most of the repository; the inventory below lists the parts
that are programs.

## Inventory

| Part | State | Operations | What is hard | What makes it correct |
|---|---|---|---|---|
| Log pipeline (`blogs/06/code`): emitter containers, a named pipe, a collector process with two coroutines, TimescaleDB | FIFO and its lines; the buffer, its semaphore, both coroutines' positions; inserts at the database | `makeFifo`, `emmit_logs`, `collect_logs`, `schedule_log_sending`, `send_log_to_remote_storage` | blocking opens, buffer used across awaits, partial failure, timeouts with a late commit, crash of the collector | no log lost silently, none stored twice, order of an emitter kept, nobody waits for ever |
| backie (`blogs/07/code`): callers, Redis, workers | lists at Redis, commands and replies in flight, the task in each worker | `delay`, `enqueue`, `dequeue`, `Worker.start` | lost replies, commands executed after the client gave up, crashes, a loop that must survive everything | each task run at most once, FIFO, acknowledged tasks accounted for, the loop never stuck |
| CASPaxos prototype (`blogs/02/consensus.html:142-262`) | promise and accepted pair of each acceptor, the proposer's state | `receive`, `send_prepare`, `send_accept`, `prepare`, `accept` | several proposers, equal ballots, a promise that is forgotten, waits that never end | a majority keeps what was answered, no stale answer, every request ends |
| Website (`main.go`) | a request in its handler; the files it opens | redirect, host routing, file lookup, status, length and body | a handler that goes on after a redirect; files replaced between its steps | an answer is of one moment, a moved address always redirects |
| Deployment (`deploy.sh`, `*.service`) | files, binary and environment file on the server; the unit, its timer and start limit | rsync of the binary and of the files, the remote script, restart, automatic restart | steps that fail or are cut off half-way, restarts between them, `/tmp` cleaned, a reboot | what was deployed runs, and comes back after every crash |
| Lambda shim (`blogs/05`) | `handle`, its child and earlier ones, two pipes each | `handle`, the Go or Nim program, reaping | reading from a child that waits, exceptions that leave a child behind, a warm container | the handler returns, its answer is its own, no child stays |
| Buffering hook (`blogs/09/code`) | `lineBuffer`, the logger's mutex | `Fire` | write errors in a flush, several goroutines, fatal entries | the context of an error is written, in order, once |
| Kenya GDP (`kenya-gdp`) | raw JSON files, the CSV file, four charts | `fetch_data.py`, `build_dataset.py` | fetches that fail for some files, interruptions, both scripts at once, revisions, rounding | no dataset of two vintages without a sign, data kept, the parts add up |
| Algorithms (`blogs/algos-n-data-structures`) | arrays, chains | insert, get, delete, ... | boundaries | not modelled, see the end |
| HTTP logger (`blogs/10`), OpenTelemetry services (`blogs/11`), error stacks (`blogs/08`), starSql, janice | none of their own | | | not modelled, see the end |

How they interact: only within a part. The emitters and the collector of
`blogs/06` share a FIFO in a docker volume, the two coroutines share
`bufferedLogs`, and the sender talks to the database. Callers and workers of
`blogs/07` share Redis lists. The deployment replaces the website's files under
the running process, and systemd starts it. The two scripts of `kenya-gdp` share
`data/raw`. A warm Lambda container keeps the children of earlier calls of
`handle`.

## Modules

```
NamedPipe      the FIFO: both sides' opens, writes, closes
 ├─ LogEmitter     my_fifo.py, log_emmiter.py
 └─ LogCollector   log_collector.py, batched_logs.py, log_sender.py, the database
     LogPipeline   = LogEmitter + LogCollector; properties
      ├─ LogDelivery        the abstract specification it implements
      ├─ MCLogPipeline      instances for TLC
      └─ LogPipelineProofs, LogPipelineLines   theorems
Broker         broker.py and the Redis lists behind it
 └─ Backie     task.py, worker.py; properties
     ├─ TaskQueue           the abstract specification it implements
     ├─ MCBackie            an instance for TLC
     └─ BackieProofs        theorems
CASPaxos       Proposer and Acceptor of the blog post; properties
 ├─ MCCASPaxos     instances, and two statements of the post
 └─ CASPaxosProofs theorems
Website        main.go: one request and the files on the disk
 └─ Site       deploy.sh and the systemd unit around it; properties
     ├─ MCSite
     └─ SiteProofs theorems
ShimChild      main.go or main.nim of blogs/05, with its pipes
 └─ LambdaShim handle of lambda.py; properties
     ├─ MCLambdaShim
     └─ ShimProofs theorems
BufferHook     hook.go under logrus's mutex; properties
 ├─ ContextLog      the abstract specification it implements
 ├─ MCBufferHook
 └─ HookProofs      theorems
GdpTable       the arithmetic of build_dataset.py, without state
 └─ KenyaGdp   the two scripts and their files; properties
     ├─ MCKenyaGdp
     └─ GdpProofs theorems
```

### The log pipeline

*NamedPipe.* `PIPE.__aenter__` opens the FIFO with a blocking `open` and only
then makes the descriptor non-blocking. So an emitter without a collector stays
in `open` ("blocked"), and a collector without an emitter too ("waiting"); each
wakes the other. A line is shorter than `PIPE_BUF`, so a write is all or
nothing: `CanWrite` says whether it is. The kernel frees unread lines when the
last descriptor is closed (`Kept`). `lost` is a history variable: the lines that
were in the pipe or the collector and are gone for a reason the model knows.

*LogEmitter.* One process per container. `makeFifo` runs at import; an `mkdir` or
`mkfifo` that fails with anything but `EEXIST` ends the process (`MakeFifoRaises`).
Then comes one call of `emmit_logs` after the other. The line is written by `close`,
which flushes twice: when the first flush fails, the buffered layer flushes again
before the descriptor is closed, and the first error is what `emmit_logs` logs.
`Write` is the first flush, `WriteAgain` the second; they are two actions because the
collector may read in between, so a log that was reported as an error may still be
delivered.

*LogCollector.* `running`, `ready` and `Dispatch` are the asyncio event loop:
one coroutine runs until it suspends. `collect_logs` suspends in `sleep(1)`,
in `sleep(-1)` after its open, and when the semaphore is taken; its blocking
open blocks the loop. A read of the pipe takes several lines at once, which
`readline` hands out one by one (`ahead`). `schedule_log_sending` keeps the
semaphore (`locked`) across the awaits of connect, `executemany` and `close`.
When it releases it, the waiting coroutine is put into the ready queue, and the
releasing one suspends. The database is external: it may apply an insert row by
row, confirm it, refuse the rest, or go on after the client timed out.

*LogPipeline* puts them together and states the properties:

| Property | Says |
|---|---|
| `NoSilentLoss` | every log built is stored, on its way, or missing with a reason somebody gave |
| `AtMostOnce` | no log is in two places, none that is stored or at the database is sent again |
| `NoOvertaking` | the logs of one emitter keep their order from the pipe to the database |
| `BatchFrozen` | the buffer is what was sent until it is cleared, so the clear after the awaits discards nothing else |
| `LockHandover` | the lock is held exactly during a send; its release makes a waiting collector run next; no wake-up is lost |
| `FifoReady` | `makeFifo` is safe under every interleaving of its callers |
| `LockGranted` | a collector that waits for the lock gets it |
| `BufferSent` | if the collector suspends again and again, every buffered log is sent or dropped |
| `Collected` | if the collector suspends again and again and does not end, what an emitter got into the pipe is stored or dropped with a reason |
| `Delivers` | the pipeline implements `LogDelivery`: accepted lines are stored once or lost, and stay so |

### backie

*Broker* is the list of each task name at Redis, the `LPUSH` commands not yet
executed (`pushes`), the replies to them (`acks`) and the `BRPOP` commands that
wait (`pops`). A client that gets an exception forgets its command, the server
may not: an `LPUSH` may be executed after `delay` raised, and a `BRPOP` of a
worker that gave up may still take a task, which nobody then receives. The
client does not repeat commands (`retry_on_timeout` is not set in `Broker`).

*Backie* is `BaseTask.delay` (serialize, push, wait for the reply, or raise) and
the loop of `Worker.start` (wait, deserialize, run, and go on after whatever
exception). Workers crash and are started again; Redis restarts without its
data. `AtMostOnce`, `NoSilentLoss`, `CallerOrder` (no later task of a caller
overtakes one that `delay` acknowledged, even when a push that was given up on
is executed late), `Served` (as long as one worker of a name stays up, its tasks
do not wait for ever) and `Queues` (it implements `TaskQueue`).

### CASPaxos

*CASPaxos* is the prototype of `blogs/02/consensus.html`. The post lets
instances stand for servers, so a call of an acceptor is one step and the calls
of several proposers interleave. `CallPrepare` and `CallAccept` are one turn of
the two `for` loops, with the acceptor's handler in it; `StartAccept` is the way
from one phase to the other: `sum` of the values found, which raises `TypeError`
for a dictionary (`ReceiveRaises`), and then the client's value over whatever
was found, so `get_highest_confirmation` has no effect. Too few confirmations
make the proposer sleep for ever, which is no action at all. `confirmed`,
`answers`, `answered`, `after` and `drawn` are history variables.

| Property | Says |
|---|---|
| `ResetIsSafe` | though `accept` sets `promise` to 0, an acceptor still knows the greatest ballot it confirmed |
| `KeptByMajority` | an answered ballot, or a greater one, stays with a majority |
| `NoStaleAnswer` | a request received after an answer is not answered with a smaller ballot |
| `GreatestAnswered` | only a request that was outbid can wait for ever; one that ends in the `TypeError` has ended |

### Website and deployment

*Website* is one request. The handler only reads, so requests do not disturb
each other and one slot stands for all of them; what disturbs it is `Put`, one
rename by rsync. `Route`, `Open`, `OpenHtml`, `Stat`, `OpenIndex`, `Head` and
`Copy` are the handler's system calls with the code between them. An open may
fail though the file is there, for want of a descriptor say (the handler does not
close the files it opens at lines 254 and 277), and is then answered like one of a
missing file; a `Stat` that fails is answered with 500 (`StatFails`); a request
without a Host panics in the router and gets no answer (`RoutePanics`). A file is a
page as it is, with `.html`, or its `index.html`; a length or a body is the name
and the version of the file it comes from. `http.Redirect` is not followed by a
`return`, so the file handler runs on the same response: the first `WriteHeader`
wins (`FirstStatus`), a length set later is not sent (`FirstLength`), and the file
is appended to the body of the redirect. `could` is a history variable: what a
directory that stands still would have answered, at every moment since the
request came; `excused` says that a system call failed, or that a deploy put a
page's `.html` beside the page, which the handler may find after it missed the
page and before it came.

*Site* adds the server. `deploy.sh` syncs the binary, then the files one by one
without `--delete` (`SyncFile`), and runs a remote script that has no `set -e`:
`CopyUnit` (the unit file), `ReloadUnit` (`daemon-reload`), `CopyEnv` and `AppendKey`
go on when they fail, and the exit code is that of `journalctl`; `enable` finds the
unit enabled. Any version may be deployed over any other, so a deploy may bring an
older one back. `DeployEnds` is a failed rsync or a lost connection at any step.
`StartUnit` is systemd and the program's own `cfg()`: a missing file, or one without
the site's variables or the key, ends the start, and the unit waits `RestartSec` for
the next one. A tick is two seconds. `starts` is systemd's start limit, five in a
window of ten seconds, after which the unit stays failed. Crashes, a cleaned `/tmp`
and reboots come at any time.

| Property | Says |
|---|---|
| `AnswersOfAMoment` | status, redirect, length and body are what the directory gave at one moment of the request; if it is excused, they are an error without a file, or the whole of the page's `.html` |
| `DeployedRuns` | after a deploy whose remote steps worked, a running process is that binary with that key, systemd has loaded its unit file, and the files are there, until something else touches them |
| `BackUp` | while the environment file is complete, the site comes back after every crash, for ever |

### The Lambda shim

*ShimChild* is a child process with its two pipes, which hold fewer pieces than a
message has. The Go program reads until its decoder has a value, the Nim program until
the newline; both end their response with a newline, so a line without one is not all
of it. `main.zig` is another program: it reads into 200 bytes that it does not
initialize, parses as many of them as it finds non-zero ones anywhere (lines 15-25),
and prints no newline (69-71). What it answers is not determined by the request, and
it is not modelled. `main.go` does not return after an error of the decoder, so it
prints the error and then an empty response (`Printed`). *LambdaShim* is `handle`, one
action per call it makes on the child, with the exceptions that each may raise. The
`except` clause binds `exc_traceback`, which keeps the frame, and so the `Popen`
object and its pipes, until a garbage collection (`held`); `__del__` then reaps the
child or leaves it in `subprocess._active` for the next `Popen`.

| Property | Says |
|---|---|
| `AnswersMatch` | an answer is the first line a child wrote about the event of this call |
| `NoStrays` | an answered call leaves no process, zombie or pipe; others only what an exception holds, and nothing runs without a SIGTERM on its way |
| `Returns` | `handle` returns, though pipes are smaller than messages and children end anywhere |

### The buffering hook

*BufferHook* is `Fire` for several goroutines. logrus 1.6.0 holds the logger's
mutex around it, which `Free` says; the buffer itself has no lock. An entry that
cannot be formatted never reaches the buffer (`FireRaises`), each write may fail
(`WriteLine`), a fatal or panic entry ends the process once its flush is over.
`Levels` is the set of levels in use; the theorems are about every subset of
logrus's seven, the runs use one that is kept, one that flushes and one that ends
the process.

| Property | Says |
|---|---|
| `ErrorInContext` | an error whose `Fire` returned is written or was reported, and everything logged before it was given to the writer (whose failure the code forgets, see Findings) |
| `EmitsContext` | the hook implements `ContextLog`: lines leave oldest first, once, and only when an error waits among them |

### The GDP dataset

*GdpTable* computes a row: the outer join by year, blanks that spread as NaN does, the
split of investment, the identity, and the rounding. The script computes with floats
and rounds with numpy (times 1000, rint, over 1000). At a half thousandth the result
depends on the last bits of the float: with C + G + I + NX = 99.9995 the identity
becomes 100.000 and the discrepancy 0.001. So the model's sums are exact, and a
rounded cell is the set of the thousandths that it may become when the float is less
than `Noise` units off (`Roundings`): one, or both beside a middle. *KenyaGdp* is the
two scripts; a fetch and a build may run at the same time (two runs of the same script
at once are not modelled) and be interrupted anywhere; opening a raw file truncates
it, so a build may meet half of one. The World Bank may publish a new edition between
two requests. History variables say whether a fetch was clean: it said "done",
reported nothing, and no revision came out during it.

| Property | Says |
|---|---|
| `NoSilentMix` | a CSV file of two editions is never the result of a clean fetch and a build after it |
| `DataKept` | a raw file once downloaded stays usable unless a write of it was cut short |
| `ChartsFollow` | charts never run ahead of the CSV file, and are of the same rows when the script said so |
| `SplitReconciles` | whichever way the floats are rounded, the two parts of investment add up to it within a thousandth, and identity and discrepancy to 100 within a thousandth; a year with investment and a government part has a private part |

## Runs

| Run | Bounds | Shows |
|---|---|---|
| `pipeline_safety` | 2 emitters, 2 logs each, 2 lines in the pipe and in a read, faults, no restart | the safety properties; 0.6 million states |
| `pipeline_liveness` | 1 emitter, 3 logs, whole-second times, 1 restart, faults | `LockGranted`, `BufferSent`, `Collected`, `Delivers`, and the safety of a restart; 0.1 million states |
| `emit_returns` | 2 emitters, 1 log each, no faults | **violated**: an emitter blocks for ever (see Findings) |
| `nothing_lost` | 2 emitters, 2 logs each, no faults | **violated**: one timestamp makes a batch be dropped |
| `backie` | 1 caller, 2 calls, 2 workers of one name, a second name without workers, faults | all properties of Backie |
| `caspaxos` | 2 proposers, 3 acceptors, 3 requests, ballots 1 to 3, a number and a dictionary | all properties of CASPaxos; 0.2 million states |
| `caspaxos_conflict` | 1 proposer, 3 acceptors, 2 requests | **violated**: a prepare below a known ballot is confirmed |
| `caspaxos_returns` | 1 proposer, 3 acceptors, 2 requests | **violated**: `receive` waits for ever |
| `site` | 2 versions, 1 deploy, 2 paths on 3 hosts, faults without bound | all properties of Website and Site; 0.8 million states |
| `shim` | 3 calls, messages of 2 pieces and a newline, pipes of 1 piece, both programs | all properties of LambdaShim; 74 thousand states |
| `hook` | 2 goroutines, 3 entries each, 3 kinds of level | all properties of BufferHook; 1 million states |
| `gdp` | 4 indicators, 2 editions, 3 runs of a script | all properties of KenyaGdp; 0.8 million states |

Why the bounds are enough. Two emitters make every interleaving of `makeFifo`,
of opens and closes and of lines in the pipe; two lines fill the pipe with one
writer left over, let a read bring more than it returns, and let a batch be
applied half-way. Three logs of one emitter are one batch at the database after
a timeout, one in the buffer and one in hand or in the pipe: every place at
once. One restart makes a process meet what its predecessor left in the pipe and
at the database. Two calls of `delay` can be acknowledged, raise, and be
executed in either order; two workers of one name compete for one list. Three
acceptors have majorities that are not everybody, three requests are one that is
answered and two that race after it, and three ballots order them in every way,
equal ones included.

Version 2 of the site redirects an address and drops its page, replaces a page, and
makes a directory of another, beside a new `.html`: every way a path can change
during one deploy. The hosts are one of each root and none at all. One deploy may
fail anywhere, and crashes, reboots and a manual restart beside the automatic ones
leave room for systemd's limit to be met; any number of deploys, in any order of
versions, is left to the theorems of `SiteProofs`. Three calls of `handle` are
one that leaves a child, one that reaps it and one that meets both; a pipe of one
piece blocks both sides. Three entries of two goroutines are a context, an error
whose flush fails, and what comes after it. Three runs are a fetch that fails, a
fetch or build beside it, and a build that uses both; two editions are enough to
differ.

`CHECK_DEADLOCK FALSE` wherever something is bounded: the emitters' logs, the calls,
the entries and the runs end, and the real pipeline does stop when its collector is
gone, since docker-compose gives it no restart policy.

## Fairness

`FairSpec` of the pipeline assumes what the event loop and the kernel give: a
ready coroutine is run, a running one goes on to its next await, timers fire,
`connect` (timeout 6 s), `executemany` (timeout 8 s) and `close` end one way or
the other, and the emitters' processes run. Nothing is assumed of the database:
`LockGranted` holds with one that never answers, because of the timeouts. Only
`HealthySpec`, for `emit_returns`, adds a database that answers. `BufferSent` and
`Collected` are conditional: `collect_logs` suspends only when the pipe is empty or
the lock is taken, so under steady traffic the sender may starve.

`FairSpec` of Backie assumes that worker loops go on, that `run` returns or
raises, that the socket's timeout fires, and that Redis serves a `BRPOP` it has a
task for. `Served` adds its own assumption, a worker that stays up. `FairSpec` of
CASPaxos assumes that a proposer that is not asleep goes on: its calls are plain
method calls. Requests need not arrive.

`FairSpec` of LambdaShim assumes that `handle` and the child are scheduled, that a
SIGTERM arrives and that the timer of `wait` fires; not that AWS calls, that
anything is collected or crashes. `FairSpec` of Site assumes that systemd's clock
and its due restarts do not stop, and nothing of requests, deploys or faults.
BufferHook and KenyaGdp state no liveness: a writer that blocks, or a script that
nobody runs, is no fault of the code.

## Proofs

`LogPipelineProofs` and `LogPipelineLines` prove, for every set of emitters and
every value of the other constants, from `PipeAssumption` and
`CollectorAssumption` only:

- `TypeCorrect`: `Spec => []TypeOK`. The emitter's clause `epc[e] = "opening" =>
  made[e] < MaxLogs` makes it inductive.
- `FifoIsReady`: `Spec => []FifoReady`, by `FifoInv`, which adds that an emitter
  about to call `mkfifo` has the directory.
- `LockIsHandedOver` and `BatchIsFrozen`, by one inductive invariant, `LockInv`.
  Neither property is inductive alone. `EventLoop` says that a coroutine is in
  the ready queue at most once, and that the sender is there or running exactly
  where it does not await something; without it a released lock might find the
  sender at the head of the queue. `Awaited` says that at most one insert at the
  database has a client and that the sender then waits for it; without it an
  answer might move a sender that is somewhere else. TLC confirmed `LockInv` on
  the instances of both passing runs before it was proved.
- `NothingIsLostSilently`, `StoredAtMostOnce` and `NothingOvertakes`: `Spec =>
  []NoSilentLoss`, `[]AtMostOnce`, `[]NoOvertaking`, and `ImplementsLogDelivery`:
  `Spec => Delivers`, by `LineInv`. Lines are numbered by their emitters (`Made`),
  and one whose second flush is to come is the newest and never was in the pipe
  (`Drafts`); without it a line might be written twice. The collector has rows only
  during a send, and they are its whole buffer (`Held`, from `LockInv`: a line
  appended during a send would be cleared unsent and unreported). Inserts at the
  database have no row in common (`InsertsApart`). That no line is in two places
  needs no invariant of its own: lines in order are different ones
  (`OrderSeparates`). A step of the collector or of the database stores one line
  that was in flight, or it leaves some, and those are lost with a reason
  (`Moves`); this gives both the refinement and the accounting. The inserts that
  outlive a timeout or a restart of the collector are part of all of this.

`CASPaxosProofs` proves, for every odd number of acceptors and any number of
proposers, ballots and requests, from `PaxosAssumption` and `OddAssumption` (the
comment above line 152 wants 2F + 1 acceptors; with an even number F + 1 is no
majority):

- `TypeCorrect` and, with it, `ForgettingIsSafe`: `Spec => []ResetIsSafe`.
- `MajorityKeeps`: `Spec => []KeptByMajority`. The strengthening, `KeptInv`,
  says of a proposer in its accept phase that it has no more confirmations than
  there are acceptors, among those it called, that keep its ballot (`Counted`);
  accepted ballots never decrease (`BallotsGrow`).
- `AnswersAreNotStale`: `Spec => []NoStaleAnswer`. A request met a majority when
  it was received (`Refused`); if its ballot is smaller, none of them confirms
  its accept, and F + 1 confirmations would not fit beside them.

`SiteProofs` proves, for every set of versions, pages, hosts and paths and any
number of deploys, from `WebsiteAssumption` and `DeploysAssumption`:

- `TypeCorrect`: `Spec => []TypeOK`.
- `DeployedRunsAlways`: `Spec => []DeployedRuns`, by `DeployInv`. `InPlace`
  says what each step of the script has put in place when the next one begins;
  at the last it gives the unit that is loaded and the key of the environment
  file. `LastDeploy` adds to the property that no deploy is going on and that the
  binary on the server is the one deployed; without it an automatic restart might
  start another.
- `AnswersOfAMomentAlways`: `Spec => []AnswersOfAMoment`. `Seen` says at each
  step of the handler which answer it is bound to give, and that the directory
  gave that answer since the request came, or that the request is excused and the
  open file is the page's `.html` (`FileSeen`). A page that was missed may come,
  and its `.html` after it: the one case in which a system that works gives an
  answer of no moment.

`BackieProofs` proves, for every set of callers, workers and queues and any
number of tasks, from `BrokerAssumption`, about `FairSpec`:

- `TypeCorrect`: `[]TypeOK`; `ImplementsTaskQueue`: `Queues`, every step of callers,
  Redis and workers is a step of `TaskQueue` or changes nothing it speaks of.
- `RunAtMostOnce`, `QueuedIsKept` and `CallersAreFifo`: `[]AtMostOnce`,
  `[]NoSilentLoss` and `[]CallerOrder`, all by `BackieInv`. `Hands` says that a
  BRPOP that Redis still holds belongs to a worker that waits and has nothing in
  hand; without it a task might be popped into a hand that already has one and
  disappear. `Apart` and `Known` say that the tasks in the lists, in replies and in
  hands are different ones and that each has been numbered by its caller. `Accounted`
  follows a task from Redis's acknowledgement on, also while the reply is under way.

`HookProofs` proves, for every set of traces and any number of entries, from
`HookAssumption`: `TypeCorrect`, `ErrorsInContext` (`Spec => []ErrorInContext`) and
`ImplementsContextLog` (`Spec => EmitsContext`). `HookInv` says what the buffer and
the loop over it hold between two writes: `OneInside`, that at most one goroutine is
in the loop; `LastIsCurrent` and `ErrorIsLast`, that it flushes for the entry fired
last and writes that one last; `Accounted`, that a line that was fired is in the
buffer or the loop, or was given to the writer. The property is about the moment
`Fire` has returned, and follows from what the loop still held before.

`GdpProofs` proves, for every set of indicators, table of values and number of runs,
from `TableAssumption` and `RunsAssumption`:

- `TypeCorrect`, `DataIsKept`, `MixIsSignalled`, `ChartsShowTheCsv`: `Spec =>
  []TypeOK`, `[]DataKept`, `[]NoSilentMix`, `[]ChartsFollow`. `GdpInv` has three
  parts: what a run of `fetch_data.py` has fetched and written, what a run of
  `build_dataset.py` has read and from which edition, and what of its output is on
  the disk.
- `SplitAddsUp`: `Spec => []SplitReconciles`. Every rounding that the floats allow
  is at most a half and a sixth of a thousandth away from the number
  (`RoundingsAreNear`), because `TableAssumption` keeps `Noise` below a sixth of a
  thousandth; three of them leave a sum less than two thousandths off, and so, being
  thousandths, at most one (`WithinOne`). That makes two parts of one total reconcile
  (`PartsReconcile`), and an amount with its rest to 100 (`RestReconciles`). A number
  has a rounding at all (`RoundingsExist`), so no column is blank for want of one.

`ShimProofs` proves, for any number of invocations and pieces of an answer, from
`ShimAssumption`: `TypeCorrect`, `AnswersAreOwn` and `StraysAreKnown` (`FairSpec =>
[]TypeOK`, `[]AnswersMatch`, `[]NoStrays`). `ShimInv` says that every pipe holds
pieces of its own call (`OwnPieces`), that a running call's child is reaped by
nobody else (`Callee`), that the children of later calls do not exist yet (`Future`),
and that the line being read does not begin with the blank one (`FirstLine`), so
that `handle` returns the answer and not what separates it from the next.

TLC confirmed each of these inductive invariants on the run's instance before it
was proved.

Only model-checked: liveness (`LockGranted`, `BufferSent`, `Collected`, `Served`,
`Returns`, `BackUp`). It rests on fairness and on which actions are enabled, which the
proof system does not reason about.

## Findings

1. `emit_returns`. `log_emmiter.py:64-67` expects an emit without a collector to
   fail with errno 6 and skips it. The open is a blocking one, so it waits, and
   with it the whole process. The run needs no fault: docker-compose starts the
   collector with the emitters, the collector opens the pipe before any emitter
   has made it, `FileNotFoundError` ends the process, nothing restarts it, and
   every emitter blocks.
2. `nothing_lost`. `log_sender.py:37` parses times with `%S.%f%z`, and
   `log_emmiter.py:36` writes `str(now)`, which has no fraction in the
   microsecond 0. Such a log raises `ValueError` while the rows are built, and
   the whole batch is cleared.
3. `caspaxos_conflict`. `consensus.html:103` says that servers return a conflict
   if they already saw a greater ballot. `accept` sets `promise` to 0 (line 260)
   and `prepare` looks at nothing else, so a smaller ballot is confirmed. The
   accept phase still refuses it (`ResetIsSafe`).
4. `caspaxos_returns`. `consensus.html:123-124` lets the server wait for a
   majority and return a response. The waits (lines 182 and 224) look at a list
   that nobody extends any more. One proposer is enough: its second ballot is
   random and may be smaller than its first.
Met while modelling, without a run: `README.md:19-21` of `blogs/06` says that a full
pipe overwrites its oldest data; a write to a full FIFO with a non-blocking descriptor
fails, so it is the newest line that is dropped (`Write`, `WriteAgain`). `task.py:42`
says "Unable to publish" of tasks that Redis has and a worker runs (`PushFails`). Two
proposers may draw the same ballot and both be answered, with different values.
`consensus.html:157` says that a request is a dictionary; `sum` at line 193 raises
`TypeError` when a confirmation brings one, so once a dictionary was accepted, every
request that a majority confirms ends in the exception (`ReceiveRaises`).
`hook.go:28-29` says that an error flushes the buffer, "thus emitting all the logs".
Line 33 overwrites the error of a write with the result of the next one: when a line
of context fails and the error itself is written, the line is cleared and `Fire`
returns nil. Only the last line, the error itself, is sure to be written or reported
(`ErrorInContext`). `delete` of `6_hashmaps.html:213` leaves a bucket pointing at the
first node of a chain that it removed. `deploy.sh:174` says that systemd will be
unable to restart without the environment file; it keeps trying, and the site is back
once a file is there. A remote step that fails does not fail the deploy, and after a
failed `cp` the file has two keys, of which the last counts. While rsync makes a
directory of a page, there is a moment without its index, and the page is not found
(`AnswersOfAMoment` allows it: the directory is like that then). Without `--delete` a
directory that becomes a page again goes on to hide the page's `.html`. `README.txt`
of `kenya-gdp` says that the parts add up to rounding, and in the shipped CSV file 15
years are off by a thousandth (`SplitReconciles` allows it); without the IMF's file,
line 187 of `build_dataset.py` makes the charts' title promise a split up to the last
year though there is none.

## Plan

Done: a model with checked properties of every part whose state outlives one
call; theorems about every one of these models.

Left: *CASPaxos* refined, as an abstract register that the answers implement. The
post's acceptors confirm a smaller ballot after an accept, so what the register
may promise is first to be found out with TLC.

## Not modelled

Payloads, wording and layout of logs and tasks; lines that are not JSON (the emitters
write none); SQL and the schema beyond the key `(time, trace_id)`; the OpenTelemetry
set-up, whose concurrency is its SDK's; the HTTP logger and the error stack, which
keep no state; the static sites, articles and data. The data structures of
`blogs/algos-n-data-structures` are sequential and a few lines each; unit tests reach
what a model would. Of the website: the middleware of `komuw/ong`, content types and
headers, how many descriptors are free, and the path clean-up beyond the page it ends
at. Of the Lambda shim: the Zig program. Of the GDP scripts: two runs of the same one
at once. Of the charts: everything but the rows they show.
