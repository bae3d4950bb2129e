------------------------------ MODULE TaskQueue ------------------------------
(***************************************************************************)
(* What backie promises of a task that reached the broker: it waits in the *)
(* queue of its name, leaves it in the order of arrival, once, and does    *)
(* not come back.                                                          *)
(***************************************************************************)
EXTENDS Sequences, Functions

CONSTANTS Task, TaskNames

VARIABLES
    queue,   (* the tasks that wait, by name, the oldest first              *)
    gone     (* the tasks that have left: taken by a worker, or lost        *)

vars == <<queue, gone>>

Waiting == UNION {Range(queue[name]) : name \in TaskNames}

Init == queue = [name \in TaskNames |-> <<>>] /\ gone = {}

Put(t) ==
    /\ t \notin gone \cup Waiting
    /\ queue' = [queue EXCEPT ![t.name] = Append(@, t)]
    /\ UNCHANGED gone

Take(name) ==
    /\ queue[name] # <<>>
    /\ queue' = [queue EXCEPT ![name] = Tail(@)]
    /\ gone' = gone \cup {Head(queue[name])}

(* The broker loses everything it has.                                      *)
Lose ==
    /\ queue' = [name \in TaskNames |-> <<>>]
    /\ gone' = gone \cup Waiting

Next ==
    \/ \E t \in Task : Put(t)
    \/ \E name \in TaskNames : Take(name)
    \/ Lose

Spec == Init /\ [][Next]_vars
=============================================================================
