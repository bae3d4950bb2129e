-------------------------------- MODULE Backie --------------------------------
(***************************************************************************)
(* The task queue of blogs/07/code/backie: processes that call             *)
(* BaseTask.delay and processes that run Worker.start, around the broker.  *)
(***************************************************************************)
EXTENDS Broker

VARIABLES
    calls,    (* how many times each caller has called delay                *)
    sending,  (* the task that each caller's running delay has sent         *)
    queued,   (* history: tasks that delay said were succesfully queued     *)
    raised,   (* history: tasks that delay could not publish                *)
    wpc,      (* where each worker's loop is                                *)
    hand,     (* the task in the reply to a worker, then in its run         *)
    started,  (* history: tasks whose run was called                        *)
    done      (* history: tasks whose run returned                          *)

callerVars == <<calls, sending, queued, raised>>
workerVars == <<wpc, hand, started, done>>
vars == <<brokerVars, callerVars, workerVars>>

TypeOK ==
    /\ BrokerTypeOK
    /\ calls \in [Callers -> 0..MaxCalls]
    /\ sending \in [Callers -> Seq(Task)]
    /\ queued \subseteq Task /\ raised \subseteq Task
    /\ wpc \in [Workers -> {"top", "waiting", "running", "down"}]
    /\ hand \in [Workers -> Seq(Task)]
    /\ started \subseteq Task /\ done \subseteq Task
    /\ \A w \in Workers : wpc[w] = "running" => hand[w] # <<>>

Init ==
    /\ BrokerInit
    /\ calls = [c \in Callers |-> 0]
    /\ sending = [c \in Callers |-> <<>>]
    /\ queued = {} /\ raised = {}
    /\ wpc = [w \in Workers |-> "top"]
    /\ hand = [w \in Workers |-> <<>>]
    /\ started = {} /\ done = {}

-----------------------------------------------------------------------------
(* BaseTask.delay                                                           *)

(* The task is serialized and its LPUSH sent.                               *)
Delay(c, t) ==
    /\ sending[c] = <<>>
    /\ t.by = c /\ t.n = calls[c] + 1
    /\ calls' = [calls EXCEPT ![c] = @ + 1]
    /\ sending' = [sending EXCEPT ![c] = <<t>>]
    /\ pushes' = pushes \cup {t}
    /\ UNCHANGED <<queue, acks, pops, lost, queued, raised, workerVars>>

(* The arguments are not JSON, or there is no server to connect to.         *)
DelayRaises(c, t) ==
    /\ sending[c] = <<>>
    /\ t.by = c /\ t.n = calls[c] + 1
    /\ calls' = [calls EXCEPT ![c] = @ + 1]
    /\ raised' = raised \cup {t}
    /\ UNCHANGED <<brokerVars, sending, queued, workerVars>>

(* The reply of the server: "succesfully queued".                           *)
DelayReturns(c) ==
    /\ sending[c] # <<>> /\ Head(sending[c]) \in acks
    /\ queued' = queued \cup {Head(sending[c])}
    /\ acks' = acks \ {Head(sending[c])}
    /\ sending' = [sending EXCEPT ![c] = <<>>]
    /\ UNCHANGED <<queue, pushes, pops, lost, calls, raised, workerVars>>

MutantReport(t) == queued' = queued \cup {t} /\ UNCHANGED raised

(* "Unable to publish task to the broker."                                  *)
Report(t) == raised' = raised \cup {t} /\ UNCHANGED queued

(* The socket breaks or times out, before the server executes the LPUSH or  *)
(* after; if it has the command it may still execute it.                    *)
PushFails(c) ==
    /\ Faults
    /\ sending[c] # <<>>
    /\ Report(Head(sending[c]))
    /\ acks' = acks \ {Head(sending[c])}
    /\ \/ UNCHANGED pushes
       \/ /\ Head(sending[c]) \in pushes
          /\ pushes' = pushes \ {Head(sending[c])}
    /\ sending' = [sending EXCEPT ![c] = <<>>]
    /\ UNCHANGED <<queue, pops, lost, calls, workerVars>>

-----------------------------------------------------------------------------
(* Worker.start                                                             *)

(* broker.dequeue sends BRPOP.                                              *)
Dequeue(w) ==
    /\ wpc[w] = "top"
    /\ wpc' = [wpc EXCEPT ![w] = "waiting"]
    /\ pops' = pops \cup {[worker |-> w, live |-> TRUE]}
    /\ UNCHANGED <<queue, pushes, acks, lost, callerVars, hand, started, done>>

(* The reply is deserialized and run is called.                             *)
Run(w) ==
    /\ wpc[w] = "waiting" /\ hand[w] # <<>>
    /\ wpc' = [wpc EXCEPT ![w] = "running"]
    /\ started' = started \cup {Head(hand[w])}
    /\ UNCHANGED <<brokerVars, callerVars, hand, done>>

RunReturns(w) ==
    /\ wpc[w] = "running"
    /\ done' = done \cup {Head(hand[w])}
    /\ wpc' = [wpc EXCEPT ![w] = "top"]
    /\ hand' = [hand EXCEPT ![w] = <<>>]
    /\ UNCHANGED <<brokerVars, callerVars, started>>

MutantAfterException == "running"

(* "except Exception: ... continue", whatever was raised.                   *)
AfterException == "top"

(* run raises: "Unable to execute task.", and the task is not put back.     *)
RunRaises(w) ==
    /\ wpc[w] = "running"
    /\ lost' = lost \cup {Head(hand[w])}
    /\ wpc' = [wpc EXCEPT ![w] = AfterException]
    /\ hand' = [hand EXCEPT ![w] = <<>>]
    /\ UNCHANGED <<queue, pushes, acks, pops, callerVars, started, done>>

(* The worker forgets the BRPOP it sent, which the server may still have.   *)
Forget(w) ==
    pops' = {IF p.worker = w THEN [p EXCEPT !.live = FALSE] ELSE p : p \in pops}

MutantPopFails(w) ==
    /\ Faults
    /\ [worker |-> w, live |-> TRUE] \in pops
    /\ Forget(w)
    /\ wpc' = [wpc EXCEPT ![w] = AfterException]
    /\ UNCHANGED <<queue, pushes, acks, lost, callerVars, hand, started, done>>

(* BRPOP fails: the connection breaks, or socket_timeout=8.0 passes without *)
(* a reply.  A reply that was on its way takes its task with it.            *)
PopFails(w) ==
    /\ Faults
    /\ wpc[w] = "waiting"
    /\ Forget(w)
    /\ lost' = lost \cup Range(hand[w])
    /\ hand' = [hand EXCEPT ![w] = <<>>]
    /\ wpc' = [wpc EXCEPT ![w] = AfterException]
    /\ UNCHANGED <<queue, pushes, acks, callerVars, started, done>>

(* The process is killed, and the task it had is gone with it.              *)
WorkerCrash(w) ==
    /\ Faults
    /\ wpc[w] # "down"
    /\ Forget(w)
    /\ lost' = lost \cup Range(hand[w])
    /\ hand' = [hand EXCEPT ![w] = <<>>]
    /\ wpc' = [wpc EXCEPT ![w] = "down"]
    /\ UNCHANGED <<queue, pushes, acks, callerVars, started, done>>

WorkerStarts(w) ==
    /\ wpc[w] = "down"
    /\ wpc' = [wpc EXCEPT ![w] = "top"]
    /\ UNCHANGED <<brokerVars, callerVars, hand, started, done>>

-----------------------------------------------------------------------------
(* Redis answers a worker                                                   *)

PopAnswered(p) ==
    /\ Pop(p)
    /\ hand' = IF p.live
               THEN [hand EXCEPT ![p.worker] = <<Head(queue[Serves[p.worker]])>>]
               ELSE hand
    /\ UNCHANGED <<callerVars, wpc, started, done>>

(* dequeue returns None: json.loads(None) raises and the loop goes on.      *)
PopTimesOut(p) ==
    /\ PopNothing(p)
    /\ wpc' = IF p.live THEN [wpc EXCEPT ![p.worker] = AfterException] ELSE wpc
    /\ UNCHANGED <<callerVars, hand, started, done>>

-----------------------------------------------------------------------------
CallerStep(c) ==
    \/ \E t \in Task : Delay(c, t) \/ DelayRaises(c, t)
    \/ DelayReturns(c) \/ PushFails(c)

WorkerStep(w) ==
    Dequeue(w) \/ Run(w) \/ RunReturns(w) \/ RunRaises(w) \/ PopFails(w)

PopFrom(name) == \E p \in pops : Serves[p.worker] = name /\ PopAnswered(p)

BrokerStep ==
    \/ \E t \in pushes : Push(t) /\ UNCHANGED <<callerVars, workerVars>>
    \/ \E name \in TaskNames : PopFrom(name)
    \/ \E p \in pops : PopTimesOut(p)
    \/ BrokerCrash /\ UNCHANGED <<callerVars, workerVars>>

Next ==
    \/ \E c \in Callers : CallerStep(c)
    \/ \E w \in Workers : WorkerStep(w) \/ WorkerCrash(w) \/ WorkerStarts(w)
    \/ BrokerStep

(* The workers' loops go on, run returns or raises, a silent socket times   *)
(* out, and Redis executes the BRPOP commands it has a task for.            *)
Fairness ==
    /\ \A w \in Workers : WF_vars(WorkerStep(w))
    /\ \A name \in TaskNames : WF_vars(PopFrom(name))

Spec == Init /\ [][Next]_vars
FairSpec == Spec /\ Fairness

-----------------------------------------------------------------------------
Held == UNION {Range(hand[w]) : w \in Workers}
InQueue == UNION {Range(queue[name]) : name \in TaskNames}

(* No task is run twice: a task is in one place of one queue, in a reply to *)
(* one worker or in one worker's run, and one whose run was called is never *)
(* in a queue or a reply again, whoever timed out, crashed or came back.    *)
AtMostOnce ==
    /\ \A name \in TaskNames : IsInjective(queue[name])
    /\ InQueue \cap (pushes \cup Held \cup started \cup lost) = {}
    /\ \A v, w \in Workers : v # w => Range(hand[v]) \cap Range(hand[w]) = {}
    /\ \A w \in Workers : wpc[w] = "waiting" => Range(hand[w]) \cap started = {}

(* A task whose delay said "succesfully queued" is waiting, with a worker,  *)
(* done, or lost in a failure of its run, of a worker, of a socket or of    *)
(* Redis: delay never claims a task that the broker does not have.          *)
NoSilentLoss == queued \subseteq InQueue \cup Held \cup done \cup lost

(* Broker says it is a FIFO queue: once delay has said a task is queued, no *)
(* later task of the same caller and name is in front of it, whatever       *)
(* LPUSH was given up on and executed late.                                 *)
CallerOrder ==
    \A name \in TaskNames : \A i, j \in DOMAIN queue[name] :
        LET t == queue[name][i]
            u == queue[name][j]
        IN  i < j /\ t.by = u.by /\ u \in queued => t.n < u.n

(* As long as one worker of its name stays up, a task does not wait for     *)
(* ever: neither an idle minute, nor a task that raises, nor a restart of   *)
(* Redis, nor a lost reply ends or blocks the worker's loop.                *)
Served ==
    \A name \in TaskNames :
        (\E w \in Workers : Serves[w] = name /\ <>[](wpc[w] # "down")) =>
            \A t \in Task : t.name = name =>
                (t \in Range(queue[name]) ~> t \notin Range(queue[name]))

(* Backie implements TaskQueue.                                             *)
Abstract == INSTANCE TaskQueue WITH gone <- Held \cup started \cup lost
Queues == Abstract!Spec
=============================================================================
