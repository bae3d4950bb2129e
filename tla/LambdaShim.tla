------------------------------ MODULE LambdaShim ------------------------------
(***************************************************************************)
(* handle of blogs/05/lambda.py: AWS calls it once per request, one at a   *)
(* time in a container that stays warm between calls.  Children of earlier *)
(* calls may still be there.                                               *)
(***************************************************************************)
EXTENDS ShimChild

VARIABLES
    pc,         (* where handle is                                            *)
    call,       (* the number of the running, or of the last, call            *)
    kind,       (* the kind of its event                                      *)
    proc,       (* the child that proc stands for                             *)
    unsent,     (* pieces in the buffer of proc.stdin                         *)
    line,       (* what readline has so far                                   *)
    answer,     (* what each call returned                                    *)
    held,       (* children whose Popen the frame of a failed call holds      *)
    active      (* subprocess._active                                         *)

handleVars == <<pc, call, kind, proc, unsent, line, answer, held, active>>
vars == <<childVars, handleVars>>

Pending == [call |-> 0, text |-> "pending", last |-> TRUE]
Error == [call |-> 0, text |-> "raised", last |-> TRUE]

TypeOK ==
    /\ ChildTypeOK
    /\ pc \in {"idle", "write", "flush", "read", "close", "terminate", "wait"}
    /\ call \in 0..MaxCalls /\ kind \in Kinds /\ proc \in 0..MaxCalls
    /\ unsent \in Seq(Piece) /\ line \in Seq(OutPiece)
    /\ answer \in [Calls -> OutPiece \cup {Pending, Error}]
    /\ held \subseteq Children /\ active \subseteq Children
    /\ pc # "idle" => proc # 0 /\ child[proc] \notin {"none", "reaped"}
    /\ pc \in {"close", "terminate", "wait"} => line # <<>>
    /\ \A p \in held \cup active : child[p] \notin {"none", "reaped"}
    /\ held \cap active = {}

Init ==
    /\ ChildInit
    /\ pc = "idle" /\ call = 0 /\ kind = "string" /\ proc = 0
    /\ unsent = <<>> /\ line = <<>>
    /\ answer = [n \in Calls |-> Pending]
    /\ held = {} /\ active = {}

Return(value) ==
    /\ answer' = [answer EXCEPT ![call] = value]
    /\ pc' = "idle" /\ unsent' = <<>> /\ line' = <<>>

(* The except clause.  exc_traceback, a local variable, refers to the frame  *)
(* that it is in, so proc stays until a garbage collection.                  *)
Raise ==
    /\ Return(Error)
    /\ held' = held \cup {proc}

Request == [k \in 1..Size + 1 |-> [call |-> call, kind |-> kind, last |-> k = Size + 1]]

-----------------------------------------------------------------------------
(* Popen first reaps the children in _active that have ended.                *)
Reaped == {p \in active : child[p] = "zombie"}

Popen ==
    /\ pc = "idle" /\ call < MaxCalls
    /\ call' = call + 1 /\ proc' = call + 1
    /\ kind' \in Kinds
    /\ child' = [p \in Children |-> IF p = call + 1 THEN "reading"
                                    ELSE IF p \in Reaped THEN "reaped" ELSE child[p]]
    /\ active' = active \ Reaped
    /\ writable' = [writable EXCEPT ![call + 1] = TRUE]
    /\ readable' = [readable EXCEPT ![call + 1] = TRUE]
    /\ pc' = "write"
    /\ UNCHANGED <<program, stdin, stdout, taken, toPrint, sigterm,
                   unsent, line, answer, held>>

PopenRaises ==
    /\ pc = "idle" /\ call < MaxCalls
    /\ call' = call + 1
    /\ child' = [p \in Children |-> IF p \in Reaped THEN "reaped" ELSE child[p]]
    /\ active' = active \ Reaped
    /\ answer' = [answer EXCEPT ![call + 1] = Error]
    /\ UNCHANGED <<program, pipeVars, taken, toPrint, sigterm,
                   pc, kind, proc, unsent, line, held>>

(* Mutant: no newline after the request.                                     *)
MutantWrite ==
    /\ pc = "write"
    /\ unsent' = SubSeq(Request, 1, Size)
    /\ pc' = "flush"
    /\ UNCHANGED <<childVars, call, kind, proc, line, answer, held, active>>

Write ==
    /\ pc = "write"
    /\ unsent' = Request
    /\ pc' = "flush"
    /\ UNCHANGED <<childVars, call, kind, proc, line, answer, held, active>>

Flush ==
    /\ pc = "flush" /\ unsent # <<>>
    /\ Alive(proc) /\ Len(stdin[proc]) < Capacity
    /\ stdin' = [stdin EXCEPT ![proc] = Append(@, Head(unsent))]
    /\ unsent' = Tail(unsent)
    /\ pc' = IF Len(unsent) = 1 THEN "read" ELSE "flush"
    /\ UNCHANGED <<program, child, stdout, taken, toPrint, writable, readable, sigterm,
                   call, kind, proc, line, answer, held, active>>

BrokenPipe ==
    /\ pc = "flush" /\ ~Alive(proc)
    /\ Raise
    /\ UNCHANGED <<childVars, call, kind, proc, active>>

(* Mutant: a line with an error is skipped.                                  *)
MutantReadline ==
    /\ pc = "read" /\ stdout[proc] # <<>>
    /\ line' = IF Head(stdout[proc]).text = "error" THEN line
               ELSE Append(line, Head(stdout[proc]))
    /\ stdout' = [stdout EXCEPT ![proc] = Tail(@)]
    /\ pc' = IF line' # <<>> /\ Head(stdout[proc]).last THEN "close" ELSE "read"
    /\ UNCHANGED <<program, child, stdin, taken, toPrint, writable, readable, sigterm,
                   call, kind, proc, unsent, answer, held, active>>

Readline ==
    /\ pc = "read" /\ stdout[proc] # <<>>
    /\ line' = Append(line, Head(stdout[proc]))
    /\ stdout' = [stdout EXCEPT ![proc] = Tail(@)]
    /\ pc' = IF Head(stdout[proc]).last THEN "close" ELSE "read"
    /\ UNCHANGED <<program, child, stdin, taken, toPrint, writable, readable, sigterm,
                   call, kind, proc, unsent, answer, held, active>>

(* Mutant: an empty line is taken for a response.                            *)
MutantLoadsRaises ==
    /\ pc = "read" /\ stdout[proc] = <<>> /\ ~Alive(proc)
    /\ pc' = "close"
    /\ UNCHANGED <<childVars, call, kind, proc, unsent, line, answer, held, active>>

(* At the end of the output readline returns what it has, nothing or a part  *)
(* of a line, which is not JSON: the Go and the Nim program end a response   *)
(* with its newline, so that text without one is not all of it.              *)
LoadsRaises ==
    /\ pc = "read" /\ stdout[proc] = <<>> /\ ~Alive(proc)
    /\ Raise
    /\ UNCHANGED <<childVars, call, kind, proc, active>>

Close ==
    /\ pc = "close"
    /\ writable' = [writable EXCEPT ![proc] = FALSE]
    /\ readable' = [readable EXCEPT ![proc] = FALSE]
    /\ stdout' = [stdout EXCEPT ![proc] = <<>>]
    /\ pc' = "terminate"
    /\ UNCHANGED <<program, child, stdin, taken, toPrint, sigterm,
                   call, kind, proc, unsent, line, answer, held, active>>

Terminate ==
    /\ pc = "terminate"
    /\ sigterm' = IF Alive(proc) THEN sigterm \cup {proc} ELSE sigterm
    /\ pc' = "wait"
    /\ UNCHANGED <<program, child, pipeVars, taken, toPrint,
                   call, kind, proc, unsent, line, answer, held, active>>

(* Mutant: the child is terminated and not waited for.                       *)
MutantWait ==
    /\ pc = "wait" /\ child[proc] = "zombie"
    /\ Return(line[1])
    /\ UNCHANGED <<childVars, call, kind, proc, held, active>>

Wait ==
    /\ pc = "wait" /\ child[proc] = "zombie"
    /\ child' = [child EXCEPT ![proc] = "reaped"]
    /\ Return(line[1])
    /\ UNCHANGED <<program, pipeVars, taken, toPrint, sigterm,
                   call, kind, proc, held, active>>

(* 1.2 seconds are over: TimeoutExpired.                                     *)
WaitRaises ==
    /\ pc = "wait" /\ Alive(proc)
    /\ Raise
    /\ UNCHANGED <<childVars, call, kind, proc, active>>

-----------------------------------------------------------------------------
(* A collection closes the pipes of a failed call; __del__ reaps its child,  *)
(* or puts it into _active when it has not ended.                            *)
Collect(p) ==
    /\ p \in held
    /\ held' = held \ {p}
    /\ writable' = [writable EXCEPT ![p] = FALSE]
    /\ readable' = [readable EXCEPT ![p] = FALSE]
    /\ stdout' = [stdout EXCEPT ![p] = <<>>]
    /\ IF Alive(p) THEN active' = active \cup {p} /\ UNCHANGED child
                   ELSE child' = [child EXCEPT ![p] = "reaped"] /\ UNCHANGED active
    /\ UNCHANGED <<program, stdin, taken, toPrint, sigterm,
                   pc, call, kind, proc, unsent, line, answer>>

HandleStep ==
    \/ Write \/ Flush \/ BrokenPipe \/ Readline \/ LoadsRaises
    \/ Close \/ Terminate \/ Wait \/ WaitRaises

ChildRuns == \E p \in Children : ChildStep(p) /\ UNCHANGED handleVars

Next ==
    \/ Popen \/ PopenRaises \/ HandleStep
    \/ \E p \in Children : Collect(p)
    \/ ChildRuns
    \/ \E p \in Children : Crash(p) /\ UNCHANGED handleVars

Spec == Init /\ [][Next]_vars

(* The child's process and the shim are scheduled, a SIGTERM is delivered,   *)
(* and the timer of wait fires.  AWS need not call, a collection need not    *)
(* happen, nothing need crash.                                               *)
Fairness ==
    /\ WF_vars(HandleStep)
    /\ \A p \in Children : WF_vars(ChildStep(p) /\ UNCHANGED handleVars)

FairSpec == Spec /\ Fairness

-----------------------------------------------------------------------------
(* What a call returns without raising is the first line that a child wrote  *)
(* about the event of this very call: never the rest of an earlier response, *)
(* nor the empty response that main.go prints after an error (line 79).      *)
AnswersMatch ==
    \A n \in Calls : answer[n] \notin {Pending, Error} =>
        answer[n].call = n /\ answer[n].text # "blank"

(* A call that gave an answer leaves neither a process, nor a zombie, nor an *)
(* open pipe.  What other calls leave behind is only what the frame of an    *)
(* exception holds or subprocess will reap, and no process is left running   *)
(* without a SIGTERM on its way to it (lines 62 to 70).                      *)
NoStrays ==
    \A p \in Children : pc = "idle" \/ p # proc =>
        /\ child[p] \in {"reading", "printing", "zombie"} =>
               answer[p] = Error /\ p \in held \cup active
        /\ Alive(p) => p \in sigterm
        /\ writable[p] \/ readable[p] => p \in held

(* handle returns: newline and flush make the child answer, whatever it and  *)
(* the pipes are filled with, and a child that ends makes it raise           *)
(* (the docstring, lines 38 to 46).                                          *)
Returns == \A n \in Calls : call = n /\ pc # "idle" ~> answer[n] # Pending
=============================================================================
