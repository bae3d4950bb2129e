-------------------------- MODULE LogPipelineProofs --------------------------
(***************************************************************************)
(* Theorems about LogPipeline, for every set of emitters, pipe capacity,   *)
(* read size and number of logs and restarts: types, makeFifo, and the     *)
(* lock of the collector's two coroutines.                                 *)
(***************************************************************************)
EXTENDS LogPipeline, SequenceTheorems, TLAPS

USE PipeAssumption, CollectorAssumption

(* A line that readline returns is a log, and what stays behind is a        *)
(* shorter pipe of logs.                                                    *)
LEMMA ReadLineType ==
    ASSUME ahead \in Seq(Log), pipe \in Seq(Log), NEW l, ReadLine(l)
    PROVE  /\ l \in Log
           /\ ahead' \in Seq(Log)
           /\ pipe' \in Seq(Log)
           /\ Len(pipe') <= Len(pipe)
<1>1. CASE ahead # <<>> /\ l = Head(ahead) /\ ahead' = Tail(ahead) /\ UNCHANGED pipe
  BY <1>1, HeadTailProperties, LenProperties
<1>2. CASE /\ ahead = <<>> /\ pipe # <<>>
           /\ l = Head(pipe)
           /\ \E k \in 1..Len(pipe) :
                /\ k <= ChunkLines
                /\ ahead' = SubSeq(pipe, 2, k)
                /\ pipe' = SubSeq(pipe, k + 1, Len(pipe))
  <2>1. PICK k \in 1..Len(pipe) : /\ ahead' = SubSeq(pipe, 2, k)
                                  /\ pipe' = SubSeq(pipe, k + 1, Len(pipe))
    BY <1>2
  <2>2. Len(pipe) \in Nat /\ k \in Int /\ k + 1 \in Int
    BY LenProperties
  <2>3. \A i \in 1..Len(pipe) : pipe[i] \in Log
    BY ElementOfSeq
  <2>4. l \in Log
    BY <1>2, HeadTailProperties
  <2>5. ahead' \in Seq(Log)
    BY <2>1, <2>2, <2>3, SubSeqProperties
  <2>6. pipe' \in Seq(Log) /\ Len(pipe') <= Len(pipe)
    BY <2>1, <2>2, <2>3, SubSeqProperties
  <2> QED BY <2>4, <2>5, <2>6
<1> QED BY <1>1, <1>2 DEF ReadLine

(* The lines of a sequence of logs are logs.                                *)
LEMMA RangeType ==
    ASSUME NEW s \in Seq(Log)
    PROVE  Range(s) \subseteq Log
BY ElementOfSeq, LenProperties DEF Range

-----------------------------------------------------------------------------
(* Every variable keeps its type, whatever the emitters do.                 *)
LEMMA EmitterType ==
    ASSUME TypeOK, NEW e \in Emitters, EmitterStep(e), UNCHANGED collectorVars
    PROVE  TypeOK'
<1>0. CollectorTypeOK'
  BY DEF TypeOK, CollectorTypeOK, collectorVars, memVars, dbVars
<1> SUFFICES PipeTypeOK' /\ EmitterTypeOK'
  BY <1>0 DEF TypeOK
<1> USE DEF TypeOK, PipeTypeOK, EmitterTypeOK
<1>1. CASE FifoExists(e)
  BY <1>1 DEF FifoExists, Goto, pipeVars
<1>2. CASE Mkdir(e)
  BY <1>2 DEF Mkdir, Goto
<1>3. CASE Mkfifo(e)
  BY <1>3 DEF Mkfifo, Goto
<1>4. CASE Open(e)
  BY <1>4 DEF Open, OpenWrite, Goto
<1>5. CASE Write(e)
  <2>1. PICK w \in WholeSeconds :
          LET l == [by |-> e, n |-> made[e] + 1, whole |-> w]
          IN  \/ Emit(e, l) /\ UNCHANGED draft
              \/ /\ ~ CanWrite
                 /\ draft' = [draft EXCEPT ![e] = <<l>>]
                 /\ Goto(e, "closing")
                 /\ UNCHANGED <<pipe, reader, writer, lost, accepted>>
    BY <1>5 DEF Write
  <2> DEFINE l == [by |-> e, n |-> made[e] + 1, whole |-> w]
  <2>2. l \in Log
    <3>1. made[e] \in Nat /\ made[e] < MaxLogs
      BY <1>5 DEF Write
    <3>2. made[e] + 1 \in 1..MaxLogs
      BY <3>1 DEF PipeAssumption
    <3> QED BY <3>2 DEF Log
  <2> HIDE DEF l
  <2>3. CASE Emit(e, l) /\ UNCHANGED draft
    BY <1>5, <2>2, <2>3, AppendProperties DEF Emit, CanWrite, WriteAndClose, Goto, Write
  <2>4. CASE /\ draft' = [draft EXCEPT ![e] = <<l>>]
             /\ Goto(e, "closing")
             /\ UNCHANGED <<pipe, reader, writer, lost, accepted>>
    BY <1>5, <2>2, <2>4 DEF Goto, Write
  <2> QED BY <2>1, <2>3, <2>4 DEF l
<1>6. CASE WriteAgain(e)
  <2> DEFINE l == Head(draft[e])
  <2>1. l \in Log
    BY <1>6, HeadTailProperties DEF WriteAgain
  <2>2. reported' \subseteq Log /\ draft' = [draft EXCEPT ![e] = <<>>]
    BY <1>6, <2>1 DEF WriteAgain, Report
  <2> HIDE DEF l
  <2>3. CASE Emit(e, l)
    BY <1>6, <2>1, <2>2, <2>3, AppendProperties
       DEF Emit, CanWrite, WriteAndClose, Goto, WriteAgain
  <2>4. CASE CloseWrite(e) /\ Goto(e, "sleeping") /\ UNCHANGED accepted
    <3>1. pipe' \in Seq(Log) /\ Len(pipe') <= PipeLines
      BY <2>4, EmptySeq DEF CloseWrite, Kept, PipeAssumption
    <3>2. lost' \subseteq Log
      BY <2>4, RangeType DEF CloseWrite
    <3>3. UNCHANGED <<dir, fifo, made, accepted>>
      BY <1>6, <2>4 DEF WriteAgain
    <3>4. PipeTypeOK'
      BY <2>4, <3>1, <3>2, <3>3 DEF CloseWrite
    <3>5. EmitterTypeOK'
      BY <2>2, <2>4, <3>3 DEF Goto
    <3> QED BY <3>4, <3>5
  <2> QED BY <1>6, <2>3, <2>4 DEF WriteAgain, l
<1>7. CASE SleepOver(e)
  BY <1>7 DEF SleepOver, Goto, pipeVars
<1>8. CASE MakeFifoRaises(e)
  BY <1>8 DEF MakeFifoRaises, Goto, pipeVars
<1> QED BY <1>1, <1>2, <1>3, <1>4, <1>5, <1>6, <1>7, <1>8 DEF EmitterStep

(* Every variable keeps its type when the collector's process ends.         *)
LEMMA ExitType ==
    ASSUME PipeTypeOK, CollectorTypeOK, Exit
    PROVE  PipeTypeOK' /\ CollectorTypeOK'
<1> USE DEF PipeTypeOK, CollectorTypeOK
<1>1. \A s \in {ahead, hand, buf, pipe} : Range(s) \subseteq Log
  BY RangeType
<1>2. pipe' \in Seq(Log) /\ Len(pipe') <= PipeLines
  BY EmptySeq DEF Exit, CloseRead, Kept, PipeAssumption
<1>3. lost' \subseteq Log
  BY <1>1 DEF Exit, CloseRead
<1>4. inserts' \subseteq [left : Seq(Log), client : BOOLEAN]
  <2>1. \A i \in inserts : [i EXCEPT !.client = FALSE] \in [left : Seq(Log), client : BOOLEAN]
    OBVIOUS
  <2> QED BY <2>1 DEF Exit
<1>5. PipeTypeOK'
  BY <1>2, <1>3 DEF Exit, CloseRead
<1>6. CollectorTypeOK'
  BY <1>4, EmptySeq DEF Exit
<1> QED BY <1>5, <1>6

(* Every variable keeps its type, whatever the collector and the database   *)
(* do.                                                                      *)
LEMMA CollectorType ==
    ASSUME TypeOK, CollectorNext, UNCHANGED emitterVars
    PROVE  TypeOK'
<1>0. EmitterTypeOK'
  BY DEF TypeOK, EmitterTypeOK, emitterVars
<1> SUFFICES PipeTypeOK' /\ CollectorTypeOK'
  BY <1>0 DEF TypeOK
<1> USE DEF TypeOK, PipeTypeOK, CollectorTypeOK, pipeVars, memVars, dbVars
<1>1. \A t \in Tasks : Append(ready, t) \in Seq(Tasks)
  BY AppendProperties
<1>2. CASE Dispatch
  BY <1>2, HeadTailProperties DEF Dispatch
<1>3. CASE CollectorStep
  <2>1. CASE OpenMissing
    BY <2>1, ExitType DEF OpenMissing
  <2>2. CASE OpenPipe
    BY <2>2 DEF OpenPipe, OpenRead
  <2>3. CASE Opened
    BY <2>3, <1>1 DEF Opened, Suspend, Resume, Tasks
  <2>4. CASE ReadNothing
    BY <2>4 DEF ReadNothing, Suspend
  <2>5. CASE Buffer
    <3>1. PICK l : ReadLine(l) /\ buf' = Append(buf, l)
      BY <2>5 DEF Buffer
    <3>2. l \in Log /\ ahead' \in Seq(Log) /\ pipe' \in Seq(Log) /\ Len(pipe') <= Len(pipe)
      BY <3>1, ReadLineType
    <3>3. buf' \in Seq(Log)
      BY <3>1, <3>2, AppendProperties
    <3>4. Len(pipe') <= PipeLines
      BY <3>2, LenProperties DEF PipeAssumption
    <3> QED BY <2>5, <3>2, <3>3, <3>4 DEF Buffer
  <2>6. CASE WaitForLock
    <3>1. PICK l : ReadLine(l) /\ hand' = <<l>>
      BY <2>6 DEF WaitForLock
    <3>2. l \in Log /\ ahead' \in Seq(Log) /\ pipe' \in Seq(Log) /\ Len(pipe') <= Len(pipe)
      BY <3>1, ReadLineType
    <3>3. hand' \in Seq(Log)
      BY <3>1, <3>2
    <3>4. Len(pipe') <= PipeLines
      BY <3>2, LenProperties DEF PipeAssumption
    <3> QED BY <2>6, <3>2, <3>3, <3>4 DEF WaitForLock, Suspend
  <2>7. CASE GotLock
    <3>1. buf' \in Seq(Log) /\ hand' \in Seq(Log)
      BY <2>7, ConcatProperties, EmptySeq DEF GotLock
    <3> QED BY <2>7, <3>1 DEF GotLock
  <2> QED BY <1>3, <2>1, <2>2, <2>3, <2>4, <2>5, <2>6, <2>7 DEF CollectorStep
<1>4. CASE SenderStep
  <2>1. CASE NothingToSend
    BY <2>1 DEF NothingToSend, Suspend
  <2>2. CASE Connect
    BY <2>2 DEF Connect, Suspend
  <2>3. CASE Insert
    <3>1. inserts' \subseteq [left : Seq(Log), client : BOOLEAN]
      <4>1. [left |-> buf, client |-> TRUE] \in [left : Seq(Log), client : BOOLEAN]
        OBVIOUS
      <4>2. inserts' = inserts \cup {[left |-> buf, client |-> TRUE]}
        BY <2>3 DEF Insert
      <4> QED BY <4>1, <4>2
    <3> QED BY <2>3, <3>1 DEF Insert, Suspend
  <2>4. CASE BadTime
    BY <2>4 DEF BadTime
  <2>5. CASE CloseConnection
    BY <2>5 DEF CloseConnection, Suspend
  <2>6. CASE SendEnds
    <3>1. lost' \subseteq Log
      BY <2>6, RangeType DEF SendEnds
    <3>2. ready' \in Seq(Tasks)
      BY <2>6, <1>1 DEF SendEnds, Release, Resume, Tasks
    <3> QED BY <2>6, <3>1, <3>2, EmptySeq DEF SendEnds, BufferAfterSend, Release, Suspend
  <2> QED BY <1>4, <2>1, <2>2, <2>3, <2>4, <2>5, <2>6 DEF SenderStep
<1>5. CASE WakeCollector
  BY <1>5, <1>1 DEF WakeCollector, Resume, Tasks
<1>6. CASE WakeSender
  BY <1>6, <1>1 DEF WakeSender, Resume, Tasks
<1>7. CASE ConnectEnds
  BY <1>7, <1>1 DEF ConnectEnds, Resume, Tasks
<1>8. CASE CloseEnds
  BY <1>8, <1>1 DEF CloseEnds, Resume, Tasks
<1>9. CASE DatabaseStep \/ TimeoutFires
  <2>1. PICK i \in inserts : DbInsertRow(i) \/ DbDone(i) \/ DbRefuse(i) \/ InsertTimeout(i)
    BY <1>9 DEF DatabaseStep, TimeoutFires
  <2>2. i \in [left : Seq(Log), client : BOOLEAN]
    OBVIOUS
  <2>3. CASE DbInsertRow(i)
    <3>1. Head(i.left) \in Log /\ Tail(i.left) \in Seq(Log)
      BY <2>2, <2>3, HeadTailProperties DEF DbInsertRow
    <3>2. inserts' \subseteq [left : Seq(Log), client : BOOLEAN]
      <4>1. [i EXCEPT !.left = Tail(i.left)] \in [left : Seq(Log), client : BOOLEAN]
        BY <2>2, <3>1
      <4>2. inserts' = (inserts \ {i}) \cup {[i EXCEPT !.left = Tail(i.left)]}
        BY <2>3 DEF DbInsertRow
      <4> QED BY <4>1, <4>2
    <3>3. stored' \subseteq Log
      BY <2>3, <3>1 DEF DbInsertRow
    <3>4. /\ UNCHANGED <<dir, fifo, pipe, reader, writer, lost, running, ready, cpc, spc>>
          /\ UNCHANGED <<locked, ahead, hand, buf, rows, restarts>>
      BY <2>3 DEF DbInsertRow
    <3> QED BY <3>2, <3>3, <3>4
  <2>4. CASE DbDone(i)
    <3>1. ready' \in Seq(Tasks) /\ spc' \in {spc, "inserted"}
      BY <2>4, <1>1 DEF DbDone, Answer, Resume, Tasks
    <3>2. inserts' \subseteq [left : Seq(Log), client : BOOLEAN]
      BY <2>4 DEF DbDone
    <3> QED BY <2>4, <3>1, <3>2 DEF DbDone
  <2>5. CASE DbRefuse(i)
    <3>1. lost' \subseteq Log
      BY <2>2, <2>5, RangeType DEF DbRefuse
    <3>2. ready' \in Seq(Tasks) /\ spc' \in {spc, "failed"}
      BY <2>5, <1>1 DEF DbRefuse, Answer, Resume, Tasks
    <3>3. inserts' \subseteq [left : Seq(Log), client : BOOLEAN]
      BY <2>5 DEF DbRefuse
    <3> QED BY <2>5, <3>1, <3>2, <3>3 DEF DbRefuse
  <2>6. CASE InsertTimeout(i)
    <3>1. inserts' \subseteq [left : Seq(Log), client : BOOLEAN]
      <4>1. [i EXCEPT !.client = FALSE] \in [left : Seq(Log), client : BOOLEAN]
        BY <2>2
      <4>2. inserts' = (inserts \ {i}) \cup {[i EXCEPT !.client = FALSE]}
        BY <2>6 DEF InsertTimeout
      <4> QED BY <4>1, <4>2
    <3>2. ready' \in Seq(Tasks) /\ spc' \in {spc, "failed"}
      BY <2>6, <1>1 DEF InsertTimeout, Answer, Resume, Tasks
    <3> QED BY <2>6, <3>1, <3>2 DEF InsertTimeout
  <2> QED BY <2>1, <2>3, <2>4, <2>5, <2>6
<1>10. CASE Crash
  BY <1>10, ExitType DEF Crash
<1>11. CASE Restart
  <2>1. ready' \in Seq(Tasks)
    BY <1>11 DEF Restart, Tasks
  <2>2. restarts' \in 0..MaxRestarts
    BY <1>11 DEF Restart, CollectorAssumption
  <2> QED BY <1>11, <2>1, <2>2 DEF Restart
<1> QED BY <1>2, <1>3, <1>4, <1>5, <1>6, <1>7, <1>8, <1>9, <1>10, <1>11 DEF CollectorNext

(* Every variable of the pipeline always has its type; in particular the    *)
(* pipe never holds more than the kernel's buffer and every row of the      *)
(* table is a log that an emitter could build.                              *)
THEOREM TypeCorrect == Spec => []TypeOK
<1>1. Init => TypeOK
  <2> SUFFICES ASSUME Init PROVE PipeTypeOK /\ EmitterTypeOK /\ CollectorTypeOK
    BY DEF TypeOK
  <2>1. <<>> \in Seq(Log) /\ Len(<<>>) = 0
    BY EmptySeq
  <2>2. PipeTypeOK
    <3>1. Len(pipe) <= PipeLines
      BY <2>1 DEF Init, PipeInit, PipeAssumption
    <3> QED BY <2>1, <3>1 DEF Init, PipeInit, PipeTypeOK
  <2>3. EmitterTypeOK
    BY <2>1 DEF Init, EmitterInit, EmitterTypeOK, PipeAssumption
  <2>4. ready \in Seq(Tasks)
    BY DEF Init, CollectorInit, Tasks
  <2>5. CollectorTypeOK
    <3>1. restarts \in 0..MaxRestarts
      BY DEF Init, CollectorInit, CollectorAssumption
    <3> QED BY <2>1, <2>4, <3>1 DEF Init, CollectorInit, CollectorTypeOK
  <2> QED BY <2>2, <2>3, <2>5
<1>2. TypeOK /\ [Next]_vars => TypeOK'
  <2>1. CASE Next
    BY <2>1, EmitterType, CollectorType DEF Next, EmittersNext
  <2>2. CASE UNCHANGED vars
    BY <2>2 DEF vars, TypeOK, PipeTypeOK, EmitterTypeOK, CollectorTypeOK, pipeVars,
       emitterVars, collectorVars, memVars, dbVars
  <2> QED BY <2>1, <2>2
<1> QED BY <1>1, <1>2, PTL DEF Spec
-----------------------------------------------------------------------------
(* What FifoReady needs to be inductive: makeFifo calls mkdir first.        *)
FifoInv ==
    /\ FifoReady
    /\ fifo => dir
    /\ \A e \in Emitters : epc[e] = "mkfifo" => dir

(* An emitter that is past makeFifo finds the FIFO, whatever the other      *)
(* emitters' calls of makeFifo do in between.                               *)
THEOREM FifoIsReady == Spec => []FifoReady
<1>1. Init => FifoInv
  BY DEF Init, PipeInit, EmitterInit, FifoInv, FifoReady
<1>2. TypeOK /\ FifoInv /\ [Next]_vars => FifoInv'
  <2> SUFFICES ASSUME TypeOK, FifoInv, [Next]_vars
               PROVE  FifoInv'
    OBVIOUS
  <2> USE DEF FifoInv, FifoReady
  <2>1. ASSUME NEW e \in Emitters, EmitterStep(e)
        PROVE  FifoInv'
    <3> USE DEF TypeOK, EmitterTypeOK
    <3>1. CASE FifoExists(e)
      BY <3>1 DEF FifoExists, Goto, pipeVars
    <3>2. CASE Mkdir(e)
      BY <3>2 DEF Mkdir, Goto
    <3>3. CASE Mkfifo(e)
      BY <3>3 DEF Mkfifo, Goto
    <3>4. CASE Open(e) \/ Write(e) \/ WriteAgain(e) \/ SleepOver(e)
      <4>1. UNCHANGED <<dir, fifo>> /\ epc[e] \in {"ready", "opening", "closing", "sleeping"}
        BY <3>4 DEF Open, Write, WriteAgain, SleepOver, pipeVars
      <4>2. epc' \in {[epc EXCEPT ![e] = "opening"], [epc EXCEPT ![e] = "closing"],
                      [epc EXCEPT ![e] = "sleeping"], [epc EXCEPT ![e] = "ready"]}
        BY <3>4 DEF Open, Write, WriteAgain, SleepOver, Emit, Goto
      <4> QED BY <4>1, <4>2
    <3>5. CASE MakeFifoRaises(e)
      BY <3>5 DEF MakeFifoRaises, Goto, pipeVars
    <3> QED BY <2>1, <3>1, <3>2, <3>3, <3>4, <3>5 DEF EmitterStep
  <2>2. CASE UNCHANGED <<dir, fifo, epc>>
    BY <2>2
  <2>3. CollectorNext => UNCHANGED <<dir, fifo>>
    BY DEF CollectorNext, CollectorStep, SenderStep, DatabaseStep, TimeoutFires, Dispatch,
       OpenMissing, Exit, OpenPipe, Opened, ReadNothing, Buffer, WaitForLock, GotLock,
       WakeCollector, WakeSender, NothingToSend, Connect, ConnectEnds, Insert, BadTime,
       CloseConnection, CloseEnds, SendEnds, DbInsertRow, DbDone, DbRefuse, InsertTimeout,
       Crash, Restart, pipeVars
  <2> QED BY <2>1, <2>2, <2>3 DEF Next, EmittersNext, vars, emitterVars, pipeVars
<1>3. FifoInv => FifoReady
  BY DEF FifoInv
<1> QED BY <1>1, <1>2, <1>3, TypeCorrect, PTL DEF Spec

-----------------------------------------------------------------------------
(* The event loop and the lock of the collector's two coroutines             *)

(* The event loop's ready queue holds each coroutine at most once.          *)
Queues ==
    {<<>>, <<"collector">>, <<"sender">>, <<"collector", "sender">>, <<"sender", "collector">>}

Runnable(task) == running = task \/ task \in Range(ready)

(* A coroutine is queued or running exactly where it can go on by itself,   *)
(* never both, and a process that is down has neither.                      *)
EventLoop ==
    /\ ready \in Queues
    /\ running \notin Range(ready)
    /\ running = "collector" => cpc \in {"start", "opening", "reading", "waiting"}
    /\ "collector" \in Range(ready) => cpc \in {"start", "reading", "waiting"}
    /\ Runnable("sender") <=> spc \in {"top", "connected", "inserted", "closed", "failed"}
    /\ cpc = "down" <=> spc = "down"
    /\ cpc = "down" => running = "none" /\ ready = <<>>

(* At most one insert has a client, and then the sender waits for it.       *)
Awaited ==
    /\ \A i \in inserts : i.client => spc = "inserting"
    /\ \A i, j \in inserts : i.client /\ j.client => i = j

LockInv == EventLoop /\ Awaited /\ LockHandover /\ BatchFrozen

-----------------------------------------------------------------------------
(* What the queues hold.                                                    *)
LEMMA QueueRanges ==
    /\ Range(<<>>) = {}
    /\ \A t : Range(<<t>>) = {t}
    /\ \A t, u : Range(<<t, u>>) = {t, u}
<1>1. DOMAIN <<>> = {}
  OBVIOUS
<1>2. \A t : DOMAIN <<t>> = {1} /\ <<t>>[1] = t
  OBVIOUS
<1>3. \A t, u : DOMAIN <<t, u>> = {1, 2} /\ <<t, u>>[1] = t /\ <<t, u>>[2] = u
  OBVIOUS
<1> QED BY <1>1, <1>2, <1>3 DEF Range

(* A second element after the first.                                        *)
LEMMA AppendToOne ==
    ASSUME NEW S, NEW a \in S, NEW b \in S
    PROVE  Append(<<a>>, b) = <<a, b>>
<1> DEFINE s == Append(<<a>>, b)
           t == <<a, b>>
<1>1. <<a>> \in Seq(S) /\ t \in Seq(S) /\ Len(<<a>>) = 1 /\ <<a>>[1] = a
  OBVIOUS
<1>2. s \in Seq(S) /\ Len(s) = 2 /\ s[1] = a /\ s[2] = b
  BY <1>1, AppendProperties
<1>3. Len(t) = 2 /\ t[1] = a /\ t[2] = b
  OBVIOUS
<1> HIDE DEF s, t
<1>4. \A i \in 1..Len(s) : s[i] = t[i]
  BY <1>2, <1>3
<1>5. s = t
  BY <1>1, <1>2, <1>3, <1>4, SeqEqual
<1> QED BY <1>5 DEF s, t

(* What Resume does to the ready queue.                                     *)
LEMMA Resumed ==
    ASSUME ready \in Queues, NEW task \in Tasks, task \notin Range(ready), Resume(task)
    PROVE  /\ ready' \in Queues
           /\ Range(ready') = Range(ready) \cup {task}
           /\ ready' # <<>>
           /\ Head(ready') = IF ready = <<>> THEN task ELSE Head(ready)
<1> USE QueueRanges
<1>0. "collector" \in Tasks /\ "sender" \in Tasks
  BY DEF Tasks
<1>1. CASE ready = <<>>
  <2>1. ready' = <<task>>
    BY <1>1 DEF Resume
  <2> QED BY <1>1, <2>1 DEF Queues, Tasks
<1>2. CASE ready = <<"collector">>
  <2>1. task = "sender"
    BY <1>2 DEF Tasks
  <2>2. Append(<<"collector">>, "sender") = <<"collector", "sender">>
    BY AppendToOne, <1>0
  <2>3. ready' = <<"collector", "sender">>
    BY <1>2, <2>1, <2>2 DEF Resume
  <2> QED BY <1>2, <2>1, <2>3 DEF Queues
<1>3. CASE ready = <<"sender">>
  <2>1. task = "collector"
    BY <1>3 DEF Tasks
  <2>2. Append(<<"sender">>, "collector") = <<"sender", "collector">>
    BY AppendToOne, <1>0
  <2>3. ready' = <<"sender", "collector">>
    BY <1>3, <2>1, <2>2 DEF Resume
  <2> QED BY <1>3, <2>1, <2>3 DEF Queues
<1>4. ASSUME ready \in {<<"collector", "sender">>, <<"sender", "collector">>}
      PROVE  FALSE
  BY <1>4 DEF Tasks
<1> QED BY <1>1, <1>2, <1>3, <1>4 DEF Queues

(* What Dispatch does to it.                                                *)
LEMMA Dispatched ==
    ASSUME ready \in Queues, ready # <<>>, ready' = Tail(ready)
    PROVE  /\ ready' \in Queues
           /\ Head(ready) \in Range(ready)
           /\ Head(ready) \in Tasks
           /\ Range(ready') = Range(ready) \ {Head(ready)}
<1> USE QueueRanges
<1>0. "collector" \in Tasks /\ "sender" \in Tasks
  BY DEF Tasks
<1>1. CASE ready = <<"collector">>
  BY <1>1 DEF Queues, Tasks
<1>2. CASE ready = <<"sender">>
  BY <1>2 DEF Queues, Tasks
<1>3. CASE ready = <<"collector", "sender">>
  <2>1. ready' = <<"sender">> /\ Head(ready) = "collector"
    BY <1>3
  <2> QED BY <1>3, <2>1 DEF Queues, Tasks
<1>4. CASE ready = <<"sender", "collector">>
  <2>1. ready' = <<"collector">> /\ Head(ready) = "sender"
    BY <1>4
  <2> QED BY <1>4, <2>1 DEF Queues, Tasks
<1> QED BY <1>1, <1>2, <1>3, <1>4 DEF Queues
-----------------------------------------------------------------------------
(* The invariant is about the collector's process alone.                    *)
LEMMA LockUnchanged ==
    ASSUME LockInv, UNCHANGED collectorVars
    PROVE  LockInv'
BY DEF LockInv, EventLoop, Runnable, Awaited, LockHandover, BatchFrozen, collectorVars,
       memVars, dbVars

(* It holds when the process starts.                                        *)
LEMMA LockInit ==
    ASSUME Init
    PROVE  LockInv
<1>1. ready = <<"collector", "sender">> /\ Range(ready) = {"collector", "sender"}
  BY QueueRanges DEF Init, CollectorInit
<1>2. EventLoop
  BY <1>1 DEF Init, CollectorInit, EventLoop, Runnable, Queues
<1>3. Awaited
  BY DEF Init, CollectorInit, Awaited
<1>4. LockHandover /\ BatchFrozen
  BY DEF Init, CollectorInit, LockHandover, BatchFrozen
<1> QED BY <1>2, <1>3, <1>4 DEF LockInv

(* It holds when the process has been started again.                        *)
LEMMA LockRestart ==
    ASSUME LockInv, Restart
    PROVE  LockInv'
<1>1. ready' = <<"collector", "sender">> /\ Range(ready') = {"collector", "sender"}
  BY QueueRanges DEF Restart
<1>2. spc = "down" /\ running = "none" /\ ~ locked
  BY DEF LockInv, EventLoop, LockHandover, Restart
<1>3. EventLoop'
  BY <1>1, <1>2 DEF Restart, EventLoop, Runnable, Queues
<1>4. Awaited'
  BY <1>2 DEF LockInv, Restart, Awaited, dbVars
<1>5. LockHandover' /\ BatchFrozen'
  BY <1>2 DEF Restart, LockHandover, BatchFrozen
<1> QED BY <1>3, <1>4, <1>5 DEF LockInv

(* It holds when the process has ended, wherever it was.                    *)
LEMMA LockExit ==
    ASSUME CollectorTypeOK, Exit
    PROVE  LockInv'
<1>1. ready' = <<>> /\ Range(ready') = {}
  BY QueueRanges DEF Exit
<1>2. EventLoop'
  BY <1>1 DEF Exit, EventLoop, Runnable, Queues
<1>3. \A i \in inserts' : ~ i.client
  <2>1. \A i \in inserts : ~ [i EXCEPT !.client = FALSE].client
    BY DEF CollectorTypeOK
  <2> QED BY <2>1 DEF Exit
<1>4. Awaited'
  BY <1>3 DEF Awaited
<1>5. LockHandover' /\ BatchFrozen'
  BY DEF Exit, LockHandover, BatchFrozen
<1> QED BY <1>2, <1>4, <1>5 DEF LockInv

(* The event loop runs the next coroutine: a collector that waits for the   *)
(* lock is at the head of the queue only when the lock is free.             *)
LEMMA LockDispatch ==
    ASSUME LockInv, Dispatch
    PROVE  LockInv'
<1> USE DEF LockInv, Dispatch, memVars, dbVars
<1>1. /\ ready' \in Queues
      /\ Head(ready) \in Range(ready)
      /\ Head(ready) \in Tasks
      /\ Range(ready') = Range(ready) \ {Head(ready)}
      /\ running' = Head(ready)
  BY Dispatched DEF EventLoop
<1>2. EventLoop'
  BY <1>1 DEF EventLoop, Runnable, Tasks
<1>3. LockHandover'
  BY <1>1 DEF LockHandover
<1>4. Awaited' /\ BatchFrozen'
  BY DEF Awaited, BatchFrozen
<1> QED BY <1>2, <1>3, <1>4

(* The steps of collect_logs: it changes the buffer only when the lock is   *)
(* free, and suspends when it is not.                                       *)
LEMMA LockCollectorStep ==
    ASSUME LockInv, TypeOK, CollectorStep
    PROVE  LockInv'
<1> USE DEF LockInv, CollectorRuns, memVars, dbVars
<1>0. running = "collector" /\ "collector" \notin Range(ready) /\ ready \in Queues
  BY DEF CollectorStep, OpenMissing, OpenPipe, Opened, ReadNothing, Buffer, WaitForLock,
         GotLock, EventLoop
<1>1. CASE OpenMissing
  BY <1>1, LockExit DEF OpenMissing, TypeOK
<1>2. CASE OpenPipe
  BY <1>2 DEF OpenPipe, EventLoop, Runnable, Awaited, LockHandover, BatchFrozen
<1>3. CASE Opened
  <2>1. ready' \in Queues /\ Range(ready') = Range(ready) \cup {"collector"}
    BY <1>0, <1>3, Resumed DEF Opened, Tasks
  <2>2. running' = "none" /\ cpc' = "reading" /\ UNCHANGED <<spc, locked, buf, rows, inserts>>
    BY <1>3 DEF Opened, Suspend
  <2>3. "none" \notin Range(ready')
    BY <2>1 DEF Queues, Range
  <2>4. EventLoop'
    BY <1>0, <1>3, <2>1, <2>2, <2>3 DEF Opened, EventLoop, Runnable
  <2> QED BY <2>2, <2>4 DEF Awaited, LockHandover, BatchFrozen
<1>4. CASE ReadNothing
  <2>1. "none" \notin Range(ready)
    BY <1>0 DEF Queues, Range
  <2>2. EventLoop'
    BY <1>0, <1>4, <2>1 DEF ReadNothing, Suspend, EventLoop, Runnable
  <2> QED BY <1>4, <2>2 DEF ReadNothing, Awaited, LockHandover, BatchFrozen
<1>5. CASE Buffer
  <2>1. BatchFrozen'
    BY <1>5 DEF Buffer, LockFree, LockHandover, BatchFrozen
  <2> QED BY <1>5, <2>1 DEF Buffer, EventLoop, Runnable, Awaited, LockHandover
<1>6. CASE WaitForLock
  <2>1. "none" \notin Range(ready)
    BY <1>0 DEF Queues, Range
  <2>2. EventLoop'
    BY <1>0, <1>6, <2>1 DEF WaitForLock, Suspend, EventLoop, Runnable
  <2>3. LockHandover'
    BY <1>0, <1>6 DEF WaitForLock, LockFree, Suspend, LockHandover
  <2> QED BY <1>6, <2>2, <2>3 DEF WaitForLock, Awaited, BatchFrozen
<1>7. CASE GotLock
  <2>1. BatchFrozen'
    BY <1>7 DEF GotLock, LockFree, LockHandover, BatchFrozen
  <2> QED BY <1>7, <2>1 DEF GotLock, EventLoop, Runnable, Awaited, LockHandover
<1> QED BY <1>1, <1>2, <1>3, <1>4, <1>5, <1>6, <1>7 DEF CollectorStep

(* The steps of the sender between two awaits: it takes the lock before the *)
(* first and gives it back, to a collector that waits, after the last.      *)
LEMMA LockSenderStep ==
    ASSUME LockInv, TypeOK, SenderStep
    PROVE  LockInv'
<1> USE DEF LockInv, SenderRuns, Suspend, memVars, dbVars
<1>0. /\ running = "sender" /\ "sender" \notin Range(ready) /\ ready \in Queues
      /\ "none" \notin Range(ready) /\ cpc # "down"
  <2>1. running = "sender" /\ spc # "down"
    BY DEF SenderStep, NothingToSend, Connect, Insert, BadTime, CloseConnection, SendEnds
  <2> QED BY <2>1 DEF EventLoop, Queues, Range
<1>1. CASE NothingToSend
  BY <1>0, <1>1 DEF NothingToSend, LockFree, EventLoop, Runnable, Awaited, LockHandover,
     BatchFrozen
<1>2. CASE Connect
  <2>1. ~ (cpc = "waiting")
    BY <1>0, <1>2 DEF Connect, LockFree, LockHandover
  <2> QED BY <1>0, <1>2, <2>1 DEF Connect, EventLoop, Runnable, Awaited, LockHandover,
     BatchFrozen
<1>3. CASE Insert
  <2>1. \A i \in inserts : ~ i.client
    BY <1>3 DEF Insert, Awaited
  <2>2. Awaited'
    BY <1>3, <2>1 DEF Insert, Awaited
  <2>3. EventLoop'
    BY <1>0, <1>3 DEF Insert, EventLoop, Runnable
  <2> QED BY <1>0, <1>3, <2>2, <2>3 DEF Insert, LockHandover, BatchFrozen
<1>4. CASE BadTime
  BY <1>0, <1>4 DEF BadTime, EventLoop, Runnable, Awaited, LockHandover, BatchFrozen
<1>5. CASE CloseConnection
  BY <1>0, <1>5 DEF CloseConnection, EventLoop, Runnable, Awaited, LockHandover, BatchFrozen
<1>6. CASE SendEnds
  <2> USE <1>6 DEF SendEnds
  <2>1. locked /\ running' = "none" /\ spc' = "sleeping" /\ ~ locked'
    BY DEF LockHandover, Release
  <2>2. CASE cpc = "waiting"
    <3>1. "collector" \notin Range(ready)
      BY <2>1, <2>2 DEF LockHandover
    <3>2. ready = <<>>
      BY <1>0, <3>1, QueueRanges DEF Queues
    <3>3. /\ ready' \in Queues /\ Range(ready') = Range(ready) \cup {"collector"}
          /\ ready' # <<>> /\ Head(ready') = "collector"
      BY <1>0, <2>2, <3>1, <3>2, Resumed DEF Release, Tasks
    <3>4. EventLoop'
      BY <1>0, <2>1, <2>2, <3>3 DEF EventLoop, Runnable
    <3> QED BY <2>1, <2>2, <3>3, <3>4 DEF Awaited, LockHandover, BatchFrozen
  <2>3. CASE cpc # "waiting"
    <3>1. ready' = ready
      BY <2>3 DEF Release
    <3>2. EventLoop'
      BY <1>0, <2>1, <3>1 DEF EventLoop, Runnable
    <3> QED BY <2>1, <2>3, <3>2 DEF Awaited, LockHandover, BatchFrozen
  <2> QED BY <2>2, <2>3
<1> QED BY <1>1, <1>2, <1>3, <1>4, <1>5, <1>6 DEF SenderStep

(* The end of an await of the sender queues it, behind a collector that was *)
(* woken for the lock.                                                      *)
LEMMA SenderResumed ==
    ASSUME EventLoop, LockHandover, Resume("sender"), UNCHANGED <<running, cpc, locked>>,
           \/ spc \in {"connecting", "inserting", "closing"}
              /\ spc' \in {"connected", "inserted", "closed", "failed"}
           \/ spc = "sleeping" /\ spc' = "top"
    PROVE  EventLoop' /\ LockHandover'
<1>1. running # "sender" /\ "sender" \notin Range(ready) /\ ready \in Queues
  BY DEF EventLoop, Runnable
<1>2. /\ ready' \in Queues /\ Range(ready') = Range(ready) \cup {"sender"}
      /\ ready' # <<>> /\ (ready # <<>> => Head(ready') = Head(ready))
  BY <1>1, Resumed DEF Tasks
<1>3. EventLoop'
  BY <1>1, <1>2 DEF EventLoop, Runnable
<1>4. LockHandover'
  BY <1>1, <1>2 DEF LockHandover
<1> QED BY <1>3, <1>4

(* The timers and sockets on which the two coroutines wait.                 *)
LEMMA LockWakes ==
    ASSUME LockInv, WakeCollector \/ WakeSender \/ ConnectEnds \/ CloseEnds
    PROVE  LockInv'
<1> USE DEF LockInv, memVars, dbVars
<1>1. CASE WakeCollector
  <2>1. "collector" \notin Range(ready) /\ running # "collector" /\ ready \in Queues
    BY <1>1 DEF WakeCollector, EventLoop
  <2>2. ready' \in Queues /\ Range(ready') = Range(ready) \cup {"collector"}
    BY <1>1, <2>1, Resumed DEF WakeCollector, Tasks
  <2>3. EventLoop'
    BY <1>1, <2>1, <2>2 DEF WakeCollector, EventLoop, Runnable
  <2> QED BY <1>1, <2>3 DEF WakeCollector, Awaited, LockHandover, BatchFrozen
<1>2. CASE WakeSender
  <2>1. EventLoop' /\ LockHandover'
    BY <1>2, SenderResumed DEF WakeSender
  <2> QED BY <1>2, <2>1 DEF WakeSender, Awaited, BatchFrozen
<1>3. CASE ConnectEnds
  <2>1. spc' \in {"connected", "failed"}
    BY <1>3 DEF ConnectEnds
  <2>2. EventLoop' /\ LockHandover'
    BY <1>3, <2>1, SenderResumed DEF ConnectEnds
  <2> QED BY <1>3, <2>1, <2>2 DEF ConnectEnds, Awaited, BatchFrozen
<1>4. CASE CloseEnds
  <2>1. EventLoop' /\ LockHandover'
    BY <1>4, SenderResumed DEF CloseEnds
  <2> QED BY <1>4, <2>1 DEF CloseEnds, Awaited, BatchFrozen
<1> QED BY <1>1, <1>2, <1>3, <1>4

(* The database's answer to the insert that has a client, or the client's   *)
(* timeout: the sender goes on, and no client is left.                      *)
LEMMA LockAnswer ==
    ASSUME LockInv, NEW i \in inserts, NEW pc \in {"inserted", "failed"}, Answer(i, pc),
           UNCHANGED <<running, cpc, locked, buf, rows>>,
           \A j \in inserts' : j.client => j \in inserts \ {i}
    PROVE  LockInv'
<1> USE DEF LockInv
<1>1. CASE i.client
  <2>1. spc = "inserting" /\ spc' = pc /\ Resume("sender")
    BY <1>1 DEF Awaited, Answer
  <2>2. EventLoop' /\ LockHandover'
    BY <2>1, SenderResumed
  <2>3. Awaited'
    BY <1>1 DEF Awaited
  <2> QED BY <2>1, <2>2, <2>3 DEF BatchFrozen
<1>2. CASE ~ i.client
  <2>1. UNCHANGED <<spc, ready>>
    BY <1>2 DEF Answer
  <2>2. Awaited'
    BY <2>1 DEF Awaited
  <2> QED BY <2>1, <2>2 DEF EventLoop, Runnable, LockHandover, BatchFrozen
<1> QED BY <1>1, <1>2

(* The database's steps and the client's timeout: one insert at most        *)
(* answers.                                                                 *)
LEMMA LockDatabase ==
    ASSUME LockInv, TypeOK, DatabaseStep \/ TimeoutFires
    PROVE  LockInv'
<1> USE DEF memVars, dbVars
<1>1. PICK i \in inserts : DbInsertRow(i) \/ DbDone(i) \/ DbRefuse(i) \/ InsertTimeout(i)
  BY DEF DatabaseStep, TimeoutFires
<1>2. i \in [left : Seq(Log), client : BOOLEAN]
  BY DEF TypeOK, CollectorTypeOK
<1>3. CASE DbInsertRow(i)
  <2> DEFINE r == [i EXCEPT !.left = Tail(i.left)]
  <2>1. inserts' = (inserts \ {i}) \cup {r} /\ r.client = i.client
    BY <1>2, <1>3 DEF DbInsertRow
  <2> HIDE DEF r
  <2>2. Awaited'
    BY <1>3, <2>1 DEF LockInv, Awaited, DbInsertRow
  <2> QED BY <1>3, <2>2 DEF DbInsertRow, LockInv, EventLoop, Runnable, LockHandover, BatchFrozen
<1>4. CASE DbDone(i)
  BY <1>4, LockAnswer DEF DbDone
<1>5. CASE DbRefuse(i)
  BY <1>5, LockAnswer DEF DbRefuse
<1>6. CASE InsertTimeout(i)
  <2> DEFINE r == [i EXCEPT !.client = FALSE]
  <2>1. inserts' = (inserts \ {i}) \cup {r} /\ ~ r.client
    BY <1>2, <1>6 DEF InsertTimeout
  <2> HIDE DEF r
  <2>2. \A j \in inserts' : j.client => j \in inserts \ {i}
    BY <2>1
  <2> QED BY <1>6, <2>2, LockAnswer DEF InsertTimeout
<1> QED BY <1>1, <1>3, <1>4, <1>5, <1>6

(* The inductive step.                                                      *)
LEMMA LockNext ==
    ASSUME TypeOK, LockInv, [Next]_vars
    PROVE  LockInv'
<1>1. CASE EmittersNext
  BY <1>1, LockUnchanged DEF EmittersNext
<1>2. CASE UNCHANGED vars
  BY <1>2, LockUnchanged DEF vars
<1>3. CASE CollectorNext
  <2>1. CASE Dispatch
    BY <2>1, LockDispatch
  <2>2. CASE CollectorStep
    BY <2>2, LockCollectorStep
  <2>3. CASE SenderStep
    BY <2>3, LockSenderStep
  <2>4. CASE WakeCollector \/ WakeSender \/ ConnectEnds \/ CloseEnds
    BY <2>4, LockWakes
  <2>5. CASE DatabaseStep \/ TimeoutFires
    BY <2>5, LockDatabase
  <2>6. CASE Crash
    BY <2>6, LockExit DEF Crash, TypeOK
  <2>7. CASE Restart
    BY <2>7, LockRestart
  <2> QED BY <1>3, <2>1, <2>2, <2>3, <2>4, <2>5, <2>6, <2>7 DEF CollectorNext
<1> QED BY <1>1, <1>2, <1>3 DEF Next

(* The invariant of the event loop, the lock and the batch in progress.     *)
LEMMA LockInvariant == Spec => []LockInv
<1>1. Init => LockInv
  BY LockInit
<1>2. TypeOK /\ LockInv /\ [Next]_vars => LockInv'
  BY LockNext
<1> QED BY <1>1, <1>2, TypeCorrect, PTL DEF Spec

(* The lock is held exactly during a send, and a collector that waits for   *)
(* it runs next once it is released and never before: for every number of   *)
(* emitters, every traffic and every behaviour of the database.             *)
THEOREM LockIsHandedOver == Spec => []LockHandover
<1>1. LockInv => LockHandover
  BY DEF LockInv
<1> QED BY <1>1, LockInvariant, PTL

(* What the sender gave the database is what the buffer holds until it is   *)
(* cleared: clearing it after the await discards no other log.              *)
THEOREM BatchIsFrozen == Spec => []BatchFrozen
<1>1. LockInv => BatchFrozen
  BY DEF LockInv
<1> QED BY <1>1, LockInvariant, PTL
=============================================================================
