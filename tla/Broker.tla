-------------------------------- MODULE Broker --------------------------------
(***************************************************************************)
(* blogs/07/code/backie/broker.py and the Redis server behind it.  A task  *)
(* is enqueued with LPUSH on the list of its name and dequeued with BRPOP, *)
(* which waits three seconds for one.  A client whose socket breaks or     *)
(* stays silent for eight seconds gets an exception and forgets the        *)
(* command; the server may still execute it.                               *)
(***************************************************************************)
EXTENDS Naturals, Sequences, FiniteSets, Functions

CONSTANTS
    TaskNames,   (* the subclasses of BaseTask, by task_name                *)
    Callers,     (* the processes that call delay                           *)
    Workers,     (* the processes that run Worker.start                     *)
    Serves,      (* the task each worker was made with                      *)
    MaxCalls,    (* bound: the delay calls of one caller                    *)
    Faults       (* whether sockets, workers and the server may fail        *)

ASSUME BrokerAssumption ==
    /\ Serves \in [Workers -> TaskNames]
    /\ MaxCalls \in Nat
    /\ Faults \in BOOLEAN

(* The serialized task: its caller and position identify it (task_id does   *)
(* in the code), the arguments make no difference.                          *)
Task == [by : Callers, n : 1..MaxCalls, name : TaskNames]

VARIABLES
    queue,    (* the list of each name at the server, the oldest task first *)
    pushes,   (* tasks whose LPUSH the server has still to execute          *)
    acks,     (* tasks pushed, the reply on its way to the caller           *)
    pops,     (* the BRPOP commands that wait at the server; "live" tells   *)
              (* whether the worker still waits for the answer              *)
    lost      (* history: tasks that left the queue and were not run to the *)
              (* end: run raised, or a worker, a reply or Redis was lost    *)

brokerVars == <<queue, pushes, acks, pops, lost>>

BrokerTypeOK ==
    /\ queue \in [TaskNames -> Seq(Task)]
    /\ pushes \subseteq Task
    /\ acks \subseteq Task
    /\ pops \subseteq [worker : Workers, live : BOOLEAN]
    /\ lost \subseteq Task

BrokerInit ==
    /\ queue = [name \in TaskNames |-> <<>>]
    /\ pushes = {} /\ acks = {} /\ pops = {}
    /\ lost = {}

-----------------------------------------------------------------------------
MutantEnqueued(q, t) == <<t>> \o q

(* lpush at one end and brpop at the other: a FIFO queue.                   *)
Enqueued(q, t) == Append(q, t)

MutantRest(q) == q

Rest(q) == Tail(q)

(* The server executes an LPUSH, whether or not its caller still waits.     *)
Push(t) ==
    /\ t \in pushes
    /\ pushes' = pushes \ {t}
    /\ queue' = [queue EXCEPT ![t.name] = Enqueued(@, t)]
    /\ acks' = acks \cup {t}
    /\ UNCHANGED <<pops, lost>>

(* The server has a task for a BRPOP and removes it from the list.          *)
Pop(p) ==
    LET name == Serves[p.worker]
    IN  /\ p \in pops
        /\ queue[name] # <<>>
        /\ queue' = [queue EXCEPT ![name] = Rest(@)]
        /\ pops' = pops \ {p}
        /\ lost' = IF p.live THEN lost ELSE lost \cup {Head(queue[name])}
        /\ UNCHANGED <<pushes, acks>>

(* No task came within timeout=3: the server answers a BRPOP with nil.      *)
PopNothing(p) ==
    /\ p \in pops
    /\ queue[Serves[p.worker]] = <<>>
    /\ pops' = pops \ {p}
    /\ UNCHANGED <<queue, pushes, acks, lost>>

(* Redis starts again without what it had: the lists and the commands.      *)
BrokerCrash ==
    /\ Faults
    /\ queue' = [name \in TaskNames |-> <<>>]
    /\ lost' = lost \cup UNION {Range(queue[name]) : name \in TaskNames}
    /\ pushes' = {} /\ pops' = {}
    /\ UNCHANGED acks
=============================================================================
