------------------------------- MODULE ShimChild -------------------------------
(***************************************************************************)
(* The program behind the Lambda shim and its two pipes: blogs/05/main.go  *)
(* or main.nim.  It reads one request, prints the response and ends.       *)
(* Requests and responses come in pieces, of which a pipe holds Capacity.  *)
(* Both programs end their response with a newline.  main.zig, which does  *)
(* not, and which parses what an uninitialized buffer holds besides the    *)
(* request, is not modelled.                                               *)
(***************************************************************************)
EXTENDS Naturals, Sequences, FiniteSets

CONSTANTS
    MaxCalls,   (* bound: calls of handle, and so children                    *)
    Size,       (* pieces of a request without its newline, of a response     *)
    Capacity    (* pieces that a pipe holds                                   *)

ASSUME ShimAssumption ==
    /\ MaxCalls \in Nat \ {0} /\ Size \in Nat \ {0} /\ Capacity \in Nat \ {0}

VARIABLES
    program,    (* which program was uploaded with the shim                   *)
    child,      (* state of each child process                                *)
    stdin,      (* the pieces in its stdin, by the call that wrote them       *)
    stdout,     (* the pieces in its stdout                                   *)
    taken,      (* the pieces it has read                                     *)
    toPrint,    (* the pieces it has still to print                           *)
    writable,   (* the shim holds its end of stdin open                       *)
    readable,   (* the shim holds its end of stdout open                      *)
    sigterm     (* a SIGTERM is pending                                       *)

pipeVars == <<stdin, stdout, writable, readable>>
childVars == <<program, child, pipeVars, taken, toPrint, sigterm>>

Calls == 1..MaxCalls
Children == Calls

(* An event that is not a string does not fit the Go program's Request.      *)
Kinds == {"string", "object"}
Piece == [call : Calls, kind : Kinds, last : BOOLEAN]
(* Of the response to a request: its echo, or the error of the decoder.      *)
OutPiece == [call : 0..MaxCalls, text : {"echo", "error", "blank"}, last : BOOLEAN]

ChildTypeOK ==
    /\ program \in {"go", "nim"}
    /\ child \in [Children -> {"none", "reading", "printing", "zombie", "reaped"}]
    /\ stdin \in [Children -> Seq(Piece)]
    /\ stdout \in [Children -> Seq(OutPiece)]
    /\ taken \in [Children -> Seq(Piece)]
    /\ toPrint \in [Children -> Seq(OutPiece)]
    /\ writable \in [Children -> BOOLEAN] /\ readable \in [Children -> BOOLEAN]
    /\ sigterm \subseteq Children
    /\ \A p \in Children : Len(stdin[p]) <= Capacity /\ Len(stdout[p]) <= Capacity

ChildInit ==
    /\ program \in {"go", "nim"}
    /\ child = [p \in Children |-> "none"]
    /\ stdin = [p \in Children |-> <<>>] /\ stdout = [p \in Children |-> <<>>]
    /\ taken = [p \in Children |-> <<>>] /\ toPrint = [p \in Children |-> <<>>]
    /\ writable = [p \in Children |-> FALSE] /\ readable = [p \in Children |-> FALSE]
    /\ sigterm = {}

Alive(p) == child[p] \in {"reading", "printing"}

-----------------------------------------------------------------------------
ReadStdin(p) ==
    /\ child[p] = "reading" /\ stdin[p] # <<>>
    /\ taken' = [taken EXCEPT ![p] = Append(@, Head(stdin[p]))]
    /\ stdin' = [stdin EXCEPT ![p] = Tail(@)]
    /\ UNCHANGED <<program, child, stdout, toPrint, writable, readable, sigterm>>

(* The Go decoder ends with the value, Nim's readLine with the newline.      *)
Complete(p) == Len(taken[p]) >= (IF program = "go" THEN Size ELSE Size + 1)

Lines(call, text, n) == [k \in 1..n |-> [call |-> call, text |-> text, last |-> k = n]]

(* What the program prints.  main.go goes on after an error of the decoder:  *)
(* it prints the error and then a response without an echo.                  *)
Printed(p) ==
    LET r == taken[p][1] IN
    IF program = "go" /\ r.kind = "object"
    THEN Lines(r.call, "error", 1) \o Lines(r.call, "blank", 1)
    ELSE Lines(r.call, "echo", Size)

Decode(p) ==
    /\ child[p] = "reading" /\ Complete(p)
    /\ toPrint' = [toPrint EXCEPT ![p] = Printed(p)]
    /\ child' = [child EXCEPT ![p] = "printing"]
    /\ UNCHANGED <<program, pipeVars, taken, sigterm>>

PrintPiece(p) ==
    /\ child[p] = "printing" /\ toPrint[p] # <<>>
    /\ readable[p] /\ Len(stdout[p]) < Capacity
    /\ stdout' = [stdout EXCEPT ![p] = Append(@, Head(toPrint[p]))]
    /\ toPrint' = [toPrint EXCEPT ![p] = Tail(@)]
    /\ UNCHANGED <<program, child, stdin, taken, writable, readable, sigterm>>

(* Its end of both pipes is closed; what it has printed can still be read.   *)
Ends(p) ==
    /\ child' = [child EXCEPT ![p] = "zombie"]
    /\ stdin' = [stdin EXCEPT ![p] = <<>>]
    /\ taken' = [taken EXCEPT ![p] = <<>>]
    /\ toPrint' = [toPrint EXCEPT ![p] = <<>>]
    /\ UNCHANGED <<program, stdout, writable, readable, sigterm>>

(* It is done, it prints into a pipe nobody reads (SIGPIPE), or the SIGTERM  *)
(* arrives.  It never meets the end of its input: handle closes stdin after  *)
(* it has the answer.                                                        *)
Stop(p) ==
    /\ Alive(p)
    /\ \/ child[p] = "printing" /\ toPrint[p] = <<>>
       \/ child[p] = "printing" /\ toPrint[p] # <<>> /\ ~readable[p]
       \/ p \in sigterm
    /\ Ends(p)

Crash(p) == Alive(p) /\ Ends(p)

ChildStep(p) == ReadStdin(p) \/ Decode(p) \/ PrintPiece(p) \/ Stop(p)
=============================================================================
