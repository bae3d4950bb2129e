------------------------------ MODULE ContextLog ------------------------------
(***************************************************************************)
(* What a log that keeps quiet until something goes wrong promises: lines  *)
(* wait in the order they were logged; they leave only once an error waits *)
(* behind or among them, oldest first, each once, unless it is dropped.    *)
(***************************************************************************)
EXTENDS Sequences, Functions

CONSTANTS Line, Errors   (* the lines, and those of them that are errors       *)

VARIABLES waiting, emitted

vars == <<waiting, emitted>>

Init == waiting = <<>> /\ emitted = <<>>

Wait == \E l \in Line :
    /\ waiting' = Append(waiting, l)
    /\ UNCHANGED emitted

Due == waiting # <<>> /\ Range(waiting) \cap Errors # {}

Emit ==
    /\ Due
    /\ emitted' = Append(emitted, Head(waiting))
    /\ waiting' = Tail(waiting)

Drop ==
    /\ Due
    /\ waiting' = Tail(waiting)
    /\ UNCHANGED emitted

Next == Wait \/ Emit \/ Drop

Spec == Init /\ [][Next]_vars
=============================================================================
