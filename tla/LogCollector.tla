----------------------------- MODULE LogCollector -----------------------------
(***************************************************************************)
(* blogs/06/code/log_collector.py, batched_logs.py and log_sender.py: one  *)
(* process, one asyncio event loop, two coroutines.  collect_logs reads    *)
(* lines from the pipe and appends them to bufferedLogs.buf;               *)
(* schedule_log_sending sends the buffer to the database and clears it.    *)
(* Both take bufferedLogs.lock, a semaphore of value 1.  A coroutine runs  *)
(* until it suspends: collect_logs only in sleep(1) or when the lock is    *)
(* taken, the sender at each await of the database and in its sleep.       *)
(* The database is external: an insert it has received may be applied row  *)
(* by row or at once, refused, or applied after the client gave up on it.  *)
(***************************************************************************)
EXTENDS NamedPipe

CONSTANTS
    ChunkLines,   (* the lines one read of the pipe may bring at once       *)
    MaxRestarts   (* bound: the times the operator starts the process again *)

ASSUME CollectorAssumption ==
    /\ ChunkLines \in Nat \ {0}
    /\ MaxRestarts \in Nat

VARIABLES
    running,   (* the coroutine the event loop is running, or "none"        *)
    ready,     (* the event loop's ready queue                              *)
    cpc,       (* where collect_logs is                                     *)
    spc,       (* where schedule_log_sending is                             *)
    locked,    (* bufferedLogs.lock is held across a suspension             *)
    ahead,     (* lines read from the pipe that readline has not returned   *)
    hand,      (* collect_logs' log while it waits for the lock             *)
    buf,       (* bufferedLogs.buf                                          *)
    rows,      (* all_logs: what the insert in progress was given           *)
    inserts,   (* at the database: the inserts not finished yet             *)
    stored,    (* at the database: the rows of the table logs               *)
    restarts   (* how often the process was started again                   *)

memVars == <<cpc, spc, locked, ahead, hand, buf, rows>>
dbVars == <<inserts, stored>>
collectorVars == <<running, ready, memVars, dbVars, restarts>>

Tasks == {"collector", "sender"}

CollectorTypeOK ==
    /\ running \in Tasks \cup {"none"}
    /\ ready \in Seq(Tasks)
    /\ cpc \in {"start", "opening", "reading", "waiting", "sleeping", "down"}
    /\ spc \in {"top", "connecting", "connected", "inserting", "inserted", "closing",
                "closed", "failed", "sleeping", "down"}
    /\ locked \in BOOLEAN
    /\ ahead \in Seq(Log) /\ hand \in Seq(Log) /\ buf \in Seq(Log) /\ rows \in Seq(Log)
    /\ inserts \subseteq [left : Seq(Log), client : BOOLEAN]
    /\ stored \subseteq Log
    /\ restarts \in 0..MaxRestarts

(* gather() has just scheduled both coroutines, in this order.              *)
CollectorInit ==
    /\ running = "none"
    /\ ready = <<"collector", "sender">>
    /\ cpc = "start" /\ spc = "top"
    /\ locked = FALSE
    /\ ahead = <<>> /\ hand = <<>> /\ buf = <<>> /\ rows = <<>>
    /\ inserts = {} /\ stored = {}
    /\ restarts = 0

-----------------------------------------------------------------------------
(* The event loop                                                           *)

Dispatch ==
    /\ running = "none" /\ ready # <<>>
    /\ running' = Head(ready)
    /\ ready' = Tail(ready)
    /\ UNCHANGED <<pipeVars, memVars, dbVars, restarts>>

Suspend == running' = "none"

(* A timer or a socket makes a suspended coroutine ready again.             *)
Resume(task) == ready' = Append(ready, task)

(* The process ends: what it had in memory is gone, an insert the database  *)
(* has received has no client any more, and the pipe loses its reader.      *)
Exit ==
    /\ CloseRead(Range(ahead) \cup Range(hand) \cup (Range(buf) \ Range(rows)))
    /\ running' = "none" /\ ready' = <<>>
    /\ cpc' = "down" /\ spc' = "down"
    /\ locked' = FALSE
    /\ ahead' = <<>> /\ hand' = <<>> /\ buf' = <<>> /\ rows' = <<>>
    /\ inserts' = {[i EXCEPT !.client = FALSE] : i \in inserts}
    /\ UNCHANGED <<dir, fifo, stored, restarts>>

(* The container is killed.                                                 *)
Crash ==
    /\ Faults
    /\ cpc # "down"
    /\ Exit

(* docker-compose sets no restart policy: the operator starts it again.     *)
Restart ==
    /\ cpc = "down"
    /\ restarts < MaxRestarts
    /\ restarts' = restarts + 1
    /\ ready' = <<"collector", "sender">>
    /\ cpc' = "start" /\ spc' = "top"
    /\ UNCHANGED <<pipeVars, running, locked, ahead, hand, buf, rows, dbVars>>

-----------------------------------------------------------------------------
(* collect_logs                                                             *)

CollectorRuns(pc) == running = "collector" /\ cpc = pc

(* piper's open blocks the event loop until an emitter opens the pipe; when *)
(* no emitter has created it yet, FileNotFoundError leaves collect_logs,    *)
(* gather and run_until_complete, and the process exits.                    *)
OpenMissing ==
    /\ CollectorRuns("start")
    /\ ~ fifo
    /\ Exit

OpenPipe ==
    /\ CollectorRuns("start")
    /\ fifo
    /\ OpenRead
    /\ cpc' = "opening"
    /\ UNCHANGED <<dir, fifo, running, ready, spc, locked, ahead, hand, buf, rows, dbVars,
                   restarts>>

(* The open has returned and sleep(-1) lets the other coroutine run once.   *)
Opened ==
    /\ CollectorRuns("opening")
    /\ reader = "open"
    /\ Suspend
    /\ Resume("collector")
    /\ cpc' = "reading"
    /\ UNCHANGED <<pipeVars, spc, locked, ahead, hand, buf, rows, dbVars, restarts>>

MutantReadNothing ==
    /\ CollectorRuns("reading")
    /\ ahead = <<>> /\ pipe = <<>>
    /\ Suspend
    /\ UNCHANGED <<pipeVars, ready, cpc, spc, locked, ahead, hand, buf, rows, dbVars, restarts>>

(* readline returns '': every emitter has closed the pipe, or there is      *)
(* nothing to read for now.  The same descriptor is read again later.       *)
ReadNothing ==
    /\ CollectorRuns("reading")
    /\ ahead = <<>> /\ pipe = <<>>
    /\ Suspend
    /\ cpc' = "sleeping"
    /\ UNCHANGED <<pipeVars, ready, spc, locked, ahead, hand, buf, rows, dbVars, restarts>>

MutantReadLine(l) ==
    \/ /\ ahead # <<>>
       /\ l = ahead[Len(ahead)]
       /\ ahead' = SubSeq(ahead, 1, Len(ahead) - 1)
       /\ UNCHANGED pipe
    \/ /\ ahead = <<>>
       /\ \E k \in 1..Len(pipe) :
            /\ k <= ChunkLines
            /\ l = pipe[k]
            /\ ahead' = SubSeq(pipe, 1, k - 1)
            /\ pipe' = SubSeq(pipe, k + 1, Len(pipe))

(* readline takes its line from what it has read ahead, or reads the pipe.  *)
ReadLine(l) ==
    \/ /\ ahead # <<>>
       /\ l = Head(ahead)
       /\ ahead' = Tail(ahead)
       /\ UNCHANGED pipe
    \/ /\ ahead = <<>> /\ pipe # <<>>
       /\ l = Head(pipe)
       /\ \E k \in 1..Len(pipe) :
            /\ k <= ChunkLines
            /\ ahead' = SubSeq(pipe, 2, k)
            /\ pipe' = SubSeq(pipe, k + 1, Len(pipe))

MutantLockFree == TRUE

(* async with bufferedLogs.lock does not wait.                              *)
LockFree == ~ locked

(* The line is appended at once and the loop goes on without suspending.    *)
Buffer ==
    /\ CollectorRuns("reading")
    /\ LockFree
    /\ \E l \in Range(ahead) \cup Range(pipe) :
         ReadLine(l) /\ buf' = Append(buf, l)
    /\ UNCHANGED <<dir, fifo, reader, writer, lost, running, ready, cpc, spc, locked, hand,
                   rows, dbVars, restarts>>

(* The sender holds the lock: the coroutine waits with the log in hand.     *)
WaitForLock ==
    /\ CollectorRuns("reading")
    /\ ~ LockFree
    /\ \E l \in Range(ahead) \cup Range(pipe) :
         ReadLine(l) /\ hand' = <<l>>
    /\ Suspend
    /\ cpc' = "waiting"
    /\ UNCHANGED <<dir, fifo, reader, writer, lost, ready, spc, locked, buf, rows, dbVars,
                   restarts>>

(* Woken by the release, it takes the lock, appends, releases and goes on.  *)
GotLock ==
    /\ CollectorRuns("waiting")
    /\ LockFree
    /\ buf' = buf \o hand
    /\ hand' = <<>>
    /\ cpc' = "reading"
    /\ UNCHANGED <<pipeVars, running, ready, spc, locked, ahead, rows, dbVars, restarts>>

(* asyncio.sleep(1) ends.                                                   *)
WakeCollector ==
    /\ cpc = "sleeping"
    /\ cpc' = "reading"
    /\ Resume("collector")
    /\ UNCHANGED <<pipeVars, running, spc, locked, ahead, hand, buf, rows, dbVars, restarts>>

-----------------------------------------------------------------------------
(* schedule_log_sending and send_log_to_remote_storage                      *)

SenderRuns(pc) == running = "sender" /\ spc = pc

(* The lock is taken and, the buffer being empty, released at once.         *)
NothingToSend ==
    /\ SenderRuns("top")
    /\ LockFree
    /\ buf = <<>>
    /\ Suspend
    /\ spc' = "sleeping"
    /\ UNCHANGED <<pipeVars, ready, cpc, locked, ahead, hand, buf, rows, dbVars, restarts>>

(* The lock is taken and kept, and the coroutine awaits the connection.     *)
Connect ==
    /\ SenderRuns("top")
    /\ LockFree
    /\ buf # <<>>
    /\ locked' = TRUE
    /\ Suspend
    /\ spc' = "connecting"
    /\ UNCHANGED <<pipeVars, ready, cpc, ahead, hand, buf, rows, dbVars, restarts>>

(* Connected; or refused, or not within timeout=6.0.                        *)
ConnectEnds ==
    /\ spc = "connecting"
    /\ spc' \in {"connected"} \cup (IF Faults THEN {"failed"} ELSE {})
    /\ Resume("sender")
    /\ UNCHANGED <<pipeVars, running, cpc, locked, ahead, hand, buf, rows, dbVars, restarts>>

(* The time of every log fits "%Y-%m-%d %H:%M:%S.%f%z".                     *)
TimesParse == \A l \in Range(buf) : ~ l.whole

(* The rows are built from the buffer and given to executemany.             *)
Insert ==
    /\ SenderRuns("connected")
    /\ TimesParse
    /\ rows' = buf
    /\ inserts' = inserts \cup {[left |-> buf, client |-> TRUE]}
    /\ Suspend
    /\ spc' = "inserting"
    /\ UNCHANGED <<pipeVars, ready, cpc, locked, ahead, hand, buf, stored, restarts>>

(* strptime raises ValueError for one of them: nothing is sent.             *)
BadTime ==
    /\ SenderRuns("connected")
    /\ ~ TimesParse
    /\ spc' = "failed"
    /\ UNCHANGED <<pipeVars, running, ready, cpc, locked, ahead, hand, buf, rows, dbVars,
                   restarts>>

(* executemany has returned: conn.close is awaited.                         *)
CloseConnection ==
    /\ SenderRuns("inserted")
    /\ Suspend
    /\ spc' = "closing"
    /\ UNCHANGED <<pipeVars, ready, cpc, locked, ahead, hand, buf, rows, dbVars, restarts>>

(* It ends, well or with an exception or a timeout that is logged.          *)
CloseEnds ==
    /\ spc = "closing"
    /\ spc' = "closed"
    /\ Resume("sender")
    /\ UNCHANGED <<pipeVars, running, cpc, locked, ahead, hand, buf, rows, dbVars, restarts>>

MutantBufferAfterSend == IF spc = "failed" THEN buf ELSE <<>>

(* bufferedLogs.buf = [] runs whether or not the send went well.            *)
BufferAfterSend == <<>>

MutantRelease ==
    /\ locked' = FALSE
    /\ UNCHANGED ready

(* Leaving "async with" wakes the coroutine that waits for the semaphore.   *)
Release ==
    /\ locked' = FALSE
    /\ IF cpc = "waiting" THEN Resume("collector") ELSE UNCHANGED ready

(* The send is over: clear, release, sleep.  The logs of a batch that was   *)
(* never given to the database are lost here.                               *)
SendEnds ==
    /\ running = "sender" /\ spc \in {"failed", "closed"}
    /\ buf' = BufferAfterSend
    /\ rows' = <<>>
    /\ lost' = IF spc = "failed" THEN lost \cup (Range(buf) \ Range(rows)) ELSE lost
    /\ Release
    /\ Suspend
    /\ spc' = "sleeping"
    /\ UNCHANGED <<dir, fifo, pipe, reader, writer, cpc, ahead, hand, dbVars, restarts>>

(* asyncio.sleep(send_logs_every()) ends.                                   *)
WakeSender ==
    /\ spc = "sleeping"
    /\ spc' = "top"
    /\ Resume("sender")
    /\ UNCHANGED <<pipeVars, running, cpc, locked, ahead, hand, buf, rows, dbVars, restarts>>

-----------------------------------------------------------------------------
(* The database (external)                                                  *)

(* What the client of insert i sees of its end, if it still waits for it.   *)
Answer(i, pc) ==
    IF i.client
    THEN spc' = pc /\ Resume("sender")
    ELSE UNCHANGED <<spc, ready>>

DbInsertRow(i) ==
    /\ i.left # <<>>
    /\ stored' = stored \cup {Head(i.left)}
    /\ inserts' = (inserts \ {i}) \cup {[i EXCEPT !.left = Tail(@)]}
    /\ UNCHANGED <<pipeVars, running, ready, memVars, restarts>>

DbDone(i) ==
    /\ i.left = <<>>
    /\ inserts' = inserts \ {i}
    /\ Answer(i, "inserted")
    /\ UNCHANGED <<pipeVars, running, cpc, locked, ahead, hand, buf, rows, stored, restarts>>

(* The rest of the rows is refused, or cancelled, or lost with the server.  *)
DbRefuse(i) ==
    /\ Faults
    /\ i.left # <<>>
    /\ inserts' = inserts \ {i}
    /\ lost' = lost \cup Range(i.left)
    /\ Answer(i, "failed")
    /\ UNCHANGED <<dir, fifo, pipe, reader, writer, running, cpc, locked, ahead, hand, buf,
                   rows, stored, restarts>>

MutantInsertTimeout(i) == i.client /\ FALSE /\ UNCHANGED collectorVars

(* timeout=8.0 of executemany: the insert may still be applied.             *)
InsertTimeout(i) ==
    /\ Faults
    /\ i.client
    /\ inserts' = (inserts \ {i}) \cup {[i EXCEPT !.client = FALSE]}
    /\ Answer(i, "failed")
    /\ UNCHANGED <<pipeVars, running, cpc, locked, ahead, hand, buf, rows, stored, restarts>>

-----------------------------------------------------------------------------
CollectorStep ==
    \/ OpenMissing \/ OpenPipe \/ Opened
    \/ ReadNothing \/ Buffer \/ WaitForLock \/ GotLock

SenderStep ==
    \/ NothingToSend \/ Connect \/ Insert \/ BadTime \/ CloseConnection \/ SendEnds

TimeoutFires == \E i \in inserts : InsertTimeout(i)

DatabaseStep ==
    \E i \in inserts : DbInsertRow(i) \/ DbDone(i) \/ DbRefuse(i)

CollectorNext ==
    \/ Dispatch \/ CollectorStep \/ SenderStep
    \/ WakeCollector \/ WakeSender \/ ConnectEnds \/ CloseEnds
    \/ DatabaseStep \/ TimeoutFires \/ Crash \/ Restart
=============================================================================
