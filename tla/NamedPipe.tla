------------------------------ MODULE NamedPipe ------------------------------
(***************************************************************************)
(* The FIFO /tmp/namedPipes/komusNamedPipe that every emitter container    *)
(* shares with the collector: my_fifo.makeFifo creates it and piper.PIPE   *)
(* opens and closes it.  The FIFO itself is the Linux kernel's: an open    *)
(* for one side blocks until the other side is opened, the writes of the   *)
(* emitters (shorter than PIPE_BUF, on a non-blocking descriptor) are all  *)
(* or nothing, and unread lines vanish with the last descriptor.           *)
(***************************************************************************)
EXTENDS Naturals, Sequences, FiniteSets, Functions

CONSTANTS
    Emitters,     (* the emitter processes                                  *)
    PipeLines,    (* the lines that fit the kernel's pipe buffer            *)
    MaxLogs,      (* bound: the logs one emitter makes                      *)
    WholeSeconds, (* the outcomes explored for "the clock shows no          *)
                  (* microseconds", a subset of BOOLEAN                     *)
    Faults        (* whether system calls and the database may fail, the    *)
                  (* database be slow and the collector be killed           *)

ASSUME PipeAssumption ==
    /\ Emitters # {}
    /\ PipeLines \in Nat \ {0}
    /\ MaxLogs \in Nat
    /\ WholeSeconds \subseteq BOOLEAN
    /\ Faults \in BOOLEAN

(* One line of the pipe, log_structure's record: its emitter and position  *)
(* identify it (trace_id and time do in the code), and "whole" tells       *)
(* whether str(now) has no fraction, which strptime's %f then rejects.     *)
Log == [by : Emitters, n : 1..MaxLogs, whole : WholeSeconds]

VARIABLES
    dir,      (* the directory /tmp/namedPipes exists                       *)
    fifo,     (* the named pipe exists                                      *)
    pipe,     (* the lines in the kernel's buffer                           *)
    reader,   (* the collector's end: "closed", "waiting" in open, "open"   *)
    writer,   (* each emitter's end: "closed", "blocked" in open, "open"    *)
    lost      (* history: the lines that were in the pipe or the collector  *)
              (* and are gone with the pipe, the process or a failed send   *)

pipeVars == <<dir, fifo, pipe, reader, writer, lost>>

PipeTypeOK ==
    /\ dir \in BOOLEAN
    /\ fifo \in BOOLEAN
    /\ pipe \in Seq(Log) /\ Len(pipe) <= PipeLines
    /\ reader \in {"closed", "waiting", "open"}
    /\ writer \in [Emitters -> {"closed", "blocked", "open"}]
    /\ lost \subseteq Log

(* docker mounts a volume on the directory; outside docker nothing is there *)
PipeInit ==
    /\ dir \in BOOLEAN
    /\ fifo = FALSE
    /\ pipe = <<>>
    /\ reader = "closed"
    /\ writer = [e \in Emitters |-> "closed"]
    /\ lost = {}

-----------------------------------------------------------------------------
(* The two opens meet: each side counts as soon as its open starts.        *)

(* PIPE.__aenter__ with mode "r": wakes the emitters blocked in their open. *)
OpenRead ==
    /\ reader' = IF \E e \in Emitters : writer[e] # "closed" THEN "open" ELSE "waiting"
    /\ writer' = [e \in Emitters |-> IF writer[e] = "blocked" THEN "open" ELSE writer[e]]
    /\ UNCHANGED <<pipe, lost>>

(* PIPE.__aenter__ with mode "w": blocks the whole emitter when there is    *)
(* no collector; otherwise wakes a collector waiting in its open.           *)
OpenWrite(e) ==
    /\ writer' = [writer EXCEPT ![e] = IF reader = "closed" THEN "blocked" ELSE "open"]
    /\ reader' = IF reader = "waiting" THEN "open" ELSE reader
    /\ UNCHANGED <<pipe, lost>>

MutantCanWrite == reader # "closed"

(* The write at close succeeds: else BlockingIOError (full) or              *)
(* BrokenPipeError (no collector), and nothing is written.                  *)
CanWrite == reader # "closed" /\ Len(pipe) < PipeLines

(* The lines left when the descriptors that stay open are these.            *)
Kept(r, w) ==
    IF r = "closed" /\ \A e \in Emitters : w[e] = "closed" THEN <<>> ELSE pipe

(* The emitter's descriptor closes after its write failed for good.         *)
CloseWrite(e) ==
    /\ writer' = [writer EXCEPT ![e] = "closed"]
    /\ pipe' = Kept(reader, writer')
    /\ lost' = lost \cup (Range(pipe) \ Range(pipe'))
    /\ UNCHANGED reader

(* The emitter's close flushes line l into the pipe and closes.             *)
WriteAndClose(e, l) ==
    /\ writer' = [writer EXCEPT ![e] = "closed"]
    /\ pipe' = Append(pipe, l)
    /\ UNCHANGED <<reader, lost>>

(* The collector process ends, and the lines ls in its memory with it.      *)
CloseRead(ls) ==
    /\ reader' = "closed"
    /\ pipe' = Kept("closed", writer)
    /\ lost' = lost \cup ls \cup (Range(pipe) \ Range(pipe'))
    /\ UNCHANGED writer
=============================================================================
