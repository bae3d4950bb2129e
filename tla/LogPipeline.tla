----------------------------- MODULE LogPipeline -----------------------------
(***************************************************************************)
(* blogs/06 as docker-compose starts it: the emitters and the collector    *)
(* process, sharing the named pipe, and the database.                      *)
(***************************************************************************)
EXTENDS LogEmitter, LogCollector

vars == <<pipeVars, emitterVars, collectorVars>>

Init == PipeInit /\ EmitterInit /\ CollectorInit

EmittersNext == \E e \in Emitters : EmitterStep(e) /\ UNCHANGED collectorVars

Next ==
    \/ EmittersNext
    \/ CollectorNext /\ UNCHANGED emitterVars

(* The event loop runs what is ready, a running coroutine goes on, timers   *)
(* and the timeouts of asyncpg fire, and the emitters' processes run.       *)
(* Nothing is assumed of the database, of the operator or of a crash.       *)
Fairness ==
    /\ WF_vars(Dispatch /\ UNCHANGED emitterVars)
    /\ WF_vars(CollectorStep /\ UNCHANGED emitterVars)
    /\ WF_vars(SenderStep /\ UNCHANGED emitterVars)
    /\ WF_vars(WakeCollector /\ UNCHANGED emitterVars)
    /\ WF_vars(WakeSender /\ UNCHANGED emitterVars)
    /\ WF_vars(ConnectEnds /\ UNCHANGED emitterVars)
    /\ WF_vars(TimeoutFires /\ UNCHANGED emitterVars)
    /\ WF_vars(CloseEnds /\ UNCHANGED emitterVars)
    /\ \A e \in Emitters : WF_vars(EmitterStep(e) /\ UNCHANGED collectorVars)

Spec == Init /\ [][Next]_vars
FairSpec == Spec /\ Fairness

TypeOK == PipeTypeOK /\ EmitterTypeOK /\ CollectorTypeOK

-----------------------------------------------------------------------------
(* The lines on their way to the database, oldest first: what the buffer    *)
(* holds and no insert was given, the log in hand, the lines read ahead and *)
(* those in the pipe.                                                       *)
Unsent == IF rows = <<>> THEN buf ELSE <<>>
OnTheWay == Unsent \o hand \o ahead \o pipe

(* The rows given to the database that it has neither applied nor refused.  *)
AtDatabase == UNION {Range(i.left) : i \in inserts}

InFlight == Range(OnTheWay) \cup AtDatabase

(* While send_log_to_remote_storage is past the point where it read the     *)
(* buffer, the buffer is what it read: log_sender clears the buffer of the  *)
(* collector after the await, so anything appended meanwhile would vanish   *)
(* with it.  Only the lock that both coroutines take prevents that.         *)
BatchFrozen ==
    spc \in {"inserting", "inserted", "closing", "closed"} => buf = rows

(* Every log an emitter built is stored, on its way, or missing with a      *)
(* reason someone gave: an error logged by the emitter, a failed send, a    *)
(* process or a pipe that ended.  None slips between read, append, send and *)
(* clear.                                                                   *)
NoSilentLoss ==
    \A e \in Emitters : \A k \in 1..made[e] :
        \E l \in stored \cup InFlight \cup lost \cup reported \cup Range(draft[e]) :
            l.by = e /\ l.n = k

(* No log is in two places or twice in one, and none that is stored is sent *)
(* again: the insert has no conflict clause and (time, trace_id) is the     *)
(* key, so one row sent twice would make the database refuse its batch.     *)
AtMostOnce ==
    /\ IsInjective(OnTheWay)
    /\ Range(OnTheWay) \cap (stored \cup AtDatabase) = {}
    /\ AtDatabase \cap stored = {}
    /\ \A i \in inserts : IsInjective(i.left)
    /\ \A i, j \in inserts : i # j => Range(i.left) \cap Range(j.left) = {}

(* The logs of one emitter keep their order from the pipe to the database:  *)
(* an ETL trace is never sent with a later job before an earlier one that   *)
(* is still on its way, whatever waits for the lock in between.             *)
NoOvertaking ==
    /\ \A i, j \in DOMAIN OnTheWay :
         i < j /\ OnTheWay[i].by = OnTheWay[j].by => OnTheWay[i].n < OnTheWay[j].n
    /\ \A l \in Range(OnTheWay), m \in stored \cup AtDatabase :
         l.by = m.by => m.n < l.n

(* The lock is what it looks like: held exactly while the sender is in the  *)
(* middle of a send.  A collector that waits for it is not run before it is *)
(* released, and then runs next, before the sender can take it again: no    *)
(* wake-up is lost, and none is for a lock that is taken.                   *)
LockHandover ==
    /\ locked <=> spc \notin {"top", "sleeping", "down"}
    /\ cpc = "waiting" /\ locked =>
         running # "collector" /\ "collector" \notin Range(ready)
    /\ cpc = "waiting" /\ ~ locked =>
         running = "collector" \/ (running = "none" /\ ready # <<>> /\ Head(ready) = "collector")

(* A collector that waits for the lock gets it (or its process ends): every *)
(* await of the sender under the lock is bounded by a timeout.              *)
LockGranted == cpc = "waiting" ~> cpc # "waiting"

(* If the collector suspends again and again, every log in the buffer is    *)
(* sent or dropped: the sender's turn comes.                                *)
BufferSent ==
    []<>(running # "collector") =>
        \A e \in Emitters : \A k \in 1..MaxLogs :
            (\E l \in Range(buf) : l.by = e /\ l.n = k)
                ~> (\A l \in Range(buf) : l.by = e => l.n # k)

(* A line that an emitter got into the pipe is given to the database or     *)
(* dropped with a reason, unless the collector ends: readline's '' (every   *)
(* emitter has closed, or none has written yet) is no end for collect_logs, *)
(* which polls the descriptor it has, through all waits for the lock, and   *)
(* the sender takes over what it appends.  As in BufferSent the collector   *)
(* suspends again and again.                                                *)
Collected ==
    []<>(running # "collector") =>
        \A e \in Emitters : \A k \in 1..MaxLogs :
            (\E l \in Range(pipe) : l.by = e /\ l.n = k)
                ~> \/ \E l \in stored \cup AtDatabase \cup lost : l.by = e /\ l.n = k
                   \/ cpc = "down"

(* The pipeline implements LogDelivery.                                     *)
Delivery == INSTANCE LogDelivery WITH
    Line <- Log, seen <- accepted, inflight <- InFlight
Delivers == Delivery!Spec
=============================================================================
