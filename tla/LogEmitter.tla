------------------------------ MODULE LogEmitter ------------------------------
(***************************************************************************)
(* blogs/06/code/log_emmiter.py, one process per application container.    *)
(* At import it calls makeFifo, whose mkdir or mkfifo may fail and end the *)
(* process; then it emits one log after another: open the pipe (which may  *)
(* block for ever), build the log, write it at close, sleep a second.      *)
(* Closing flushes the line twice when the first flush fails: the text     *)
(* layer's flush raises, then the buffered layer's own close flushes what  *)
(* is still pending, and the first error is what emmit_logs catches and    *)
(* logs.                                                                   *)
(***************************************************************************)
EXTENDS NamedPipe

VARIABLES
    epc,       (* where each emitter is                                     *)
    made,      (* how many logs each emitter has built                      *)
    draft,     (* the line whose first flush failed, before the second      *)
    reported,  (* history: logs for which log_emitter_error was logged      *)
    accepted   (* history: logs whose line went into the pipe               *)

emitterVars == <<epc, made, draft, reported, accepted>>

EmitterTypeOK ==
    /\ epc \in [Emitters -> {"start", "mkdir", "mkfifo", "ready", "opening", "closing",
                             "sleeping", "ended"}]
    /\ made \in [Emitters -> 0..MaxLogs]
    /\ draft \in [Emitters -> Seq(Log)]
    /\ \A e \in Emitters :
         /\ epc[e] = "opening" => made[e] < MaxLogs
         /\ epc[e] = "closing" => draft[e] # <<>>
    /\ reported \subseteq Log
    /\ accepted \subseteq Log

EmitterInit ==
    /\ epc = [e \in Emitters |-> "start"]
    /\ made = [e \in Emitters |-> 0]
    /\ draft = [e \in Emitters |-> <<>>]
    /\ reported = {}
    /\ accepted = {}

Goto(e, l) == epc' = [epc EXCEPT ![e] = l]

-----------------------------------------------------------------------------
(* makeFifo: three system calls that the emitters interleave.               *)

MutantFifoExists(e) ==
    /\ epc[e] = "start"
    /\ Goto(e, IF dir THEN "ready" ELSE "mkdir")
    /\ UNCHANGED <<pipeVars, made, draft, reported, accepted>>

FifoExists(e) ==
    /\ epc[e] = "start"
    /\ Goto(e, IF fifo THEN "ready" ELSE "mkdir")
    /\ UNCHANGED <<pipeVars, made, draft, reported, accepted>>

(* An EEXIST means another emitter, or docker, was first: carry on.         *)
Mkdir(e) ==
    /\ epc[e] = "mkdir"
    /\ dir' = TRUE
    /\ Goto(e, "mkfifo")
    /\ UNCHANGED <<fifo, pipe, reader, writer, lost, made, draft, reported, accepted>>

Mkfifo(e) ==
    /\ epc[e] = "mkfifo"
    /\ fifo' = TRUE
    /\ Goto(e, "ready")
    /\ UNCHANGED <<dir, pipe, reader, writer, lost, made, draft, reported, accepted>>

(* mkdir or mkfifo fails with another errno: the exception ends the import  *)
(* and with it the process, which nothing restarts.                         *)
MakeFifoRaises(e) ==
    /\ Faults
    /\ epc[e] \in {"mkdir", "mkfifo"}
    /\ Goto(e, "ended")
    /\ UNCHANGED <<pipeVars, made, draft, reported, accepted>>

-----------------------------------------------------------------------------
(* emmit_logs                                                               *)

(* The call starts: run() and its web_app, worker and etl jobs make one     *)
(* call after the other.                                                    *)
Open(e) ==
    /\ epc[e] = "ready"
    /\ made[e] < MaxLogs
    /\ OpenWrite(e)
    /\ Goto(e, "opening")
    /\ UNCHANGED <<dir, fifo, made, draft, reported, accepted>>

(* The line reaches the pipe and the descriptor closes.                     *)
Emit(e, l) ==
    /\ CanWrite
    /\ WriteAndClose(e, l)
    /\ accepted' = accepted \cup {l}
    /\ Goto(e, "sleeping")

(* The log is built, then the close of the file flushes it.                 *)
Write(e) ==
    /\ epc[e] = "opening" /\ writer[e] = "open"
    /\ \E w \in WholeSeconds :
         LET l == [by |-> e, n |-> made[e] + 1, whole |-> w]
         IN  \/ Emit(e, l) /\ UNCHANGED draft
             \/ /\ ~ CanWrite
                /\ draft' = [draft EXCEPT ![e] = <<l>>]
                /\ Goto(e, "closing")
                /\ UNCHANGED <<pipe, reader, writer, lost, accepted>>
    /\ made' = [made EXCEPT ![e] = @ + 1]
    /\ UNCHANGED <<dir, fifo, reported>>

MutantReport(e, l) == reported' = reported

(* emmit_logs catches the OSError of the first flush and logs it.           *)
Report(e, l) == reported' = reported \cup {l}

(* The second flush of the same line, after which the error of the first    *)
(* one is logged whether or not the line is in the pipe now.                *)
WriteAgain(e) ==
    /\ epc[e] = "closing"
    /\ LET l == Head(draft[e])
       IN  /\ \/ Emit(e, l)
              \/ ~ CanWrite /\ CloseWrite(e) /\ Goto(e, "sleeping") /\ UNCHANGED accepted
           /\ Report(e, l)
    /\ draft' = [draft EXCEPT ![e] = <<>>]
    /\ UNCHANGED <<dir, fifo, made>>

(* asyncio.sleep(1) in the finally clause ends.                             *)
SleepOver(e) ==
    /\ epc[e] = "sleeping"
    /\ Goto(e, "ready")
    /\ UNCHANGED <<pipeVars, made, draft, reported, accepted>>

EmitterStep(e) ==
    \/ FifoExists(e) \/ Mkdir(e) \/ Mkfifo(e) \/ MakeFifoRaises(e)
    \/ Open(e) \/ Write(e) \/ WriteAgain(e) \/ SleepOver(e)

-----------------------------------------------------------------------------
(* makeFifo keeps its promise under every interleaving of its callers: an   *)
(* emitter that is past it finds the FIFO, so that open(mode="w") cannot    *)
(* create a regular file of that name.                                      *)
FifoReady ==
    \A e \in Emitters : epc[e] \notin {"start", "mkdir", "mkfifo", "ended"} => dir /\ fifo
=============================================================================
