----------------------------- MODULE BackieProofs -----------------------------
(***************************************************************************)
(* Theorems about backie, for every set of callers, workers and task names *)
(* and any number of calls: no task is run twice or lost without a sign,   *)
(* the order of a caller is kept, and Backie implements TaskQueue.         *)
(***************************************************************************)
EXTENDS Backie, SequenceTheorems, TLAPS

USE BrokerAssumption DEF BrokerAssumption

(* Where a task can be.                                                      *)
Queued == \A name \in TaskNames :
    /\ IsInjective(queue[name])
    /\ \A t \in Range(queue[name]) : t.name = name

(* A reply brings one task; a live BRPOP belongs to a worker that waits      *)
(* for it and has none yet.                                                  *)
Hands ==
    /\ \A w \in Workers :
         /\ hand[w] = <<>> \/ \E t \in Task : hand[w] = <<t>>
         /\ wpc[w] \in {"top", "down"} => hand[w] = <<>>
         /\ wpc[w] = "waiting" => Range(hand[w]) \cap started = {}
         /\ wpc[w] = "running" => Range(hand[w]) \subseteq started
         /\ [worker |-> w, live |-> TRUE] \in pops => wpc[w] = "waiting" /\ hand[w] = <<>>
    /\ \A v, w \in Workers : v # w => Range(hand[v]) \cap Range(hand[w]) = {}

(* A task is with its caller's LPUSH, in the queue, or beyond it.            *)
Apart ==
    /\ pushes \cap (InQueue \cup Held \cup started \cup lost) = {}
    /\ InQueue \cap (Held \cup started \cup lost) = {}
    /\ done \subseteq started

Known == pushes \cup acks \cup queued \cup InQueue \cup Held \cup started \cup lost

(* Callers number their tasks, and wait for the reply to the last one.       *)
Sent ==
    /\ \A t \in Known : t.n <= calls[t.by]
    /\ \A c \in Callers : sending[c] # <<>> =>
         \E t \in Task : sending[c] = <<t>> /\ t.by = c /\ t.n = calls[c]

(* What the broker said, or is about to say, it has.                         *)
Accounted == queued \cup acks \subseteq InQueue \cup Held \cup done \cup lost

BackieInv == Queued /\ Hands /\ Apart /\ Sent /\ Accounted /\ CallerOrder

-----------------------------------------------------------------------------
(* Sequences and what they hold                                              *)

LEMMA RangeOfOne ==
    /\ Range(<<>>) = {}
    /\ \A t : Range(<<t>>) = {t} /\ Head(<<t>>) = t /\ <<t>> # <<>>
<1>1. DOMAIN <<>> = {}
  OBVIOUS
<1>2. \A t : DOMAIN <<t>> = {1} /\ <<t>>[1] = t
  OBVIOUS
<1> QED BY <1>1, <1>2 DEF Range

LEMMA RangeOfAppend ==
    ASSUME NEW S, NEW s \in Seq(S), NEW t \in S
    PROVE  Range(Append(s, t)) = Range(s) \cup {t}
<1> DEFINE a == Append(s, t)
<1>1. /\ a \in Seq(S) /\ Len(a) = Len(s) + 1 /\ Len(s) \in Nat
      /\ \A i \in 1..Len(s) : a[i] = s[i]
      /\ a[Len(s) + 1] = t
  BY AppendProperties, LenProperties
<1>2. DOMAIN s = 1..Len(s) /\ DOMAIN a = 1..Len(s) + 1
  BY <1>1, LenProperties
<1> HIDE DEF a
<1>3. \A i \in 1..Len(s) + 1 : i \in 1..Len(s) \/ i = Len(s) + 1
  BY <1>1
<1>4. \A i \in 1..Len(s) : i \in 1..Len(s) + 1
  BY <1>1
<1>5. Len(s) + 1 \in 1..Len(s) + 1
  BY <1>1
<1> QED BY <1>1, <1>2, <1>3, <1>4, <1>5 DEF Range

LEMMA RangeOfTail ==
    ASSUME NEW S, NEW s \in Seq(S), s # <<>>
    PROVE  /\ Range(s) = Range(Tail(s)) \cup {Head(s)}
           /\ IsInjective(s) => IsInjective(Tail(s)) /\ Head(s) \notin Range(Tail(s))
<1> DEFINE r == Tail(s)
<1>1. /\ r \in Seq(S) /\ Len(r) = Len(s) - 1 /\ Len(s) \in Nat \ {0}
      /\ \A i \in 1..Len(r) : r[i] = s[i + 1]
  BY HeadTailProperties, LenProperties, EmptySeq
<1>2. DOMAIN s = 1..Len(s) /\ DOMAIN r = 1..Len(s) - 1 /\ Head(s) = s[1]
  BY <1>1, LenProperties
<1> HIDE DEF r
<1>3. \A i \in 1..Len(s) : i = 1 \/ (i - 1 \in 1..Len(s) - 1 /\ (i - 1) + 1 = i)
  BY <1>1
<1>4. \A i \in 1..Len(s) - 1 : i + 1 \in 1..Len(s) /\ i + 1 # 1
  BY <1>1
<1>5. 1 \in 1..Len(s)
  BY <1>1
<1>6. Range(s) = Range(r) \cup {Head(s)}
  <2>1. ASSUME NEW i \in 1..Len(s)
        PROVE  s[i] \in Range(r) \cup {Head(s)}
    <3>1. CASE i = 1
      BY <1>2, <3>1
    <3>2. CASE i # 1
      <4>1. i - 1 \in 1..Len(r) /\ r[i - 1] = s[i]
        BY <1>1, <1>3, <3>2
      <4> QED BY <1>1, <1>2, <4>1 DEF Range
    <3> QED BY <3>1, <3>2
  <2>2. ASSUME NEW i \in 1..Len(s) - 1
        PROVE  r[i] \in Range(s)
    <3>1. i + 1 \in 1..Len(s) /\ r[i] = s[i + 1]
      BY <1>1, <1>4
    <3> QED BY <1>2, <3>1 DEF Range
  <2> QED BY <1>2, <1>5, <2>1, <2>2 DEF Range
<1>7. ASSUME IsInjective(s)
      PROVE  IsInjective(r) /\ Head(s) \notin Range(r)
  <2>1. \A i, j \in 1..Len(s) : s[i] = s[j] => i = j
    BY <1>2, <1>7 DEF IsInjective
  <2>2. IsInjective(r)
    <3> SUFFICES ASSUME NEW i \in 1..Len(s) - 1, NEW j \in 1..Len(s) - 1, r[i] = r[j]
                 PROVE  i = j
      BY <1>2 DEF IsInjective
    <3>1. s[i + 1] = s[j + 1]
      BY <1>1
    <3>2. i + 1 = j + 1
      BY <1>4, <2>1, <3>1
    <3> QED BY <3>2
  <2>3. Head(s) \notin Range(r)
    <3> SUFFICES ASSUME NEW i \in 1..Len(s) - 1, r[i] = s[1]
                 PROVE  FALSE
      BY <1>2 DEF Range
    <3>1. s[i + 1] = s[1]
      BY <1>1
    <3> QED BY <1>4, <1>5, <2>1, <3>1
  <2> QED BY <2>2, <2>3
<1> QED BY <1>6, <1>7 DEF r

LEMMA InjectiveAppend ==
    ASSUME NEW S, NEW s \in Seq(S), NEW t \in S, IsInjective(s), t \notin Range(s)
    PROVE  IsInjective(Append(s, t))
<1> DEFINE a == Append(s, t)
<1>1. /\ a \in Seq(S) /\ Len(a) = Len(s) + 1 /\ Len(s) \in Nat
      /\ \A i \in 1..Len(s) : a[i] = s[i]
      /\ a[Len(s) + 1] = t
  BY AppendProperties, LenProperties
<1>2. DOMAIN s = 1..Len(s) /\ DOMAIN a = 1..Len(s) + 1
  BY <1>1, LenProperties
<1> HIDE DEF a
<1>3. \A i, j \in 1..Len(s) : s[i] = s[j] => i = j
  BY <1>2 DEF IsInjective
<1>4. \A i \in 1..Len(s) : s[i] # t
  BY <1>2 DEF Range
<1> SUFFICES ASSUME NEW i \in 1..Len(s) + 1, NEW j \in 1..Len(s) + 1, a[i] = a[j]
             PROVE  i = j
  BY <1>2 DEF IsInjective, a
<1>5. CASE i \in 1..Len(s) /\ j \in 1..Len(s)
  BY <1>1, <1>3, <1>5
<1>6. CASE i = Len(s) + 1 \/ j = Len(s) + 1
  BY <1>1, <1>4, <1>6
<1> QED BY <1>1, <1>5, <1>6

-----------------------------------------------------------------------------
(* Types                                                                     *)

LEMMA TypeInit == Init => TypeOK
BY DEF Init, BrokerInit, TypeOK, BrokerTypeOK

LEMMA CallerType ==
    ASSUME TypeOK, NEW c \in Callers, CallerStep(c)
    PROVE  TypeOK'
<1>1. ASSUME sending[c] # <<>>
      PROVE  Head(sending[c]) \in Task
  BY <1>1, HeadTailProperties DEF TypeOK
<1>2. ASSUME NEW t \in Task, t.by = c, t.n = calls[c] + 1
      PROVE  calls[c] + 1 \in 0..MaxCalls
  BY <1>2 DEF Task
<1>a. ASSUME NEW t \in Task, Delay(c, t)
      PROVE  TypeOK'
  <2>1. calls' \in [Callers -> 0..MaxCalls]
    BY <1>2, <1>a DEF Delay, TypeOK
  <2> QED BY <1>a, <2>1 DEF Delay, TypeOK, BrokerTypeOK, workerVars
<1>b. ASSUME NEW t \in Task, DelayRaises(c, t)
      PROVE  TypeOK'
  <2>1. calls' \in [Callers -> 0..MaxCalls]
    BY <1>2, <1>b DEF DelayRaises, TypeOK
  <2> QED BY <1>b, <2>1 DEF DelayRaises, TypeOK, BrokerTypeOK, brokerVars, workerVars
<1>c. CASE DelayReturns(c)
  BY <1>1, <1>c DEF DelayReturns, TypeOK, BrokerTypeOK, workerVars
<1>d. CASE PushFails(c)
  BY <1>1, <1>d DEF PushFails, Report, TypeOK, BrokerTypeOK, workerVars
<1> QED BY <1>a, <1>b, <1>c, <1>d DEF CallerStep

LEMMA ForgetType ==
    ASSUME TypeOK, NEW w \in Workers, Forget(w)
    PROVE  pops' \subseteq [worker : Workers, live : BOOLEAN]
BY DEF Forget, TypeOK, BrokerTypeOK

LEMMA WorkerType ==
    ASSUME TypeOK, NEW w \in Workers, WorkerStep(w) \/ WorkerCrash(w) \/ WorkerStarts(w)
    PROVE  TypeOK'
<1>1. Range(hand[w]) \subseteq Task
  BY RangeOfSeq DEF TypeOK
<1>2. ASSUME hand[w] # <<>>
      PROVE  Head(hand[w]) \in Task
  BY <1>2, HeadTailProperties DEF TypeOK
<1>3. wpc[w] = "running" => hand[w] # <<>>
  BY DEF TypeOK
<1>a. CASE Dequeue(w)
  <2>1. [worker |-> w, live |-> TRUE] \in [worker : Workers, live : BOOLEAN]
    OBVIOUS
  <2>2. pops' \subseteq [worker : Workers, live : BOOLEAN]
    BY <1>a, <2>1 DEF Dequeue, TypeOK, BrokerTypeOK
  <2> QED BY <1>a, <2>2 DEF Dequeue, TypeOK, BrokerTypeOK, callerVars
<1>b. CASE Run(w)
  BY <1>2, <1>b DEF Run, TypeOK, BrokerTypeOK, brokerVars, callerVars
<1>c. CASE RunReturns(w)
  BY <1>2, <1>3, <1>c DEF RunReturns, TypeOK, BrokerTypeOK, brokerVars, callerVars
<1>d. CASE RunRaises(w)
  BY <1>2, <1>3, <1>d DEF RunRaises, AfterException, TypeOK, BrokerTypeOK, callerVars
<1>e. CASE PopFails(w)
  BY <1>1, <1>e, ForgetType DEF PopFails, AfterException, TypeOK, BrokerTypeOK, callerVars
<1>f. CASE WorkerCrash(w)
  BY <1>1, <1>f, ForgetType DEF WorkerCrash, TypeOK, BrokerTypeOK, callerVars
<1>g. CASE WorkerStarts(w)
  BY <1>g DEF WorkerStarts, TypeOK, BrokerTypeOK, brokerVars, callerVars
<1> QED BY <1>a, <1>b, <1>c, <1>d, <1>e, <1>f, <1>g DEF WorkerStep

LEMMA BrokerType ==
    ASSUME TypeOK, BrokerStep
    PROVE  TypeOK'
<1>1. ASSUME NEW name \in TaskNames, queue[name] # <<>>
      PROVE  Head(queue[name]) \in Task /\ Tail(queue[name]) \in Seq(Task)
  BY <1>1, HeadTailProperties DEF TypeOK, BrokerTypeOK
<1>2. \A name \in TaskNames : Range(queue[name]) \subseteq Task
  BY RangeOfSeq DEF TypeOK, BrokerTypeOK
<1>a. ASSUME NEW t \in pushes, Push(t), UNCHANGED <<callerVars, workerVars>>
      PROVE  TypeOK'
  <2>1. t \in Task /\ t.name \in TaskNames
    BY DEF TypeOK, BrokerTypeOK, Task
  <2>2. Append(queue[t.name], t) \in Seq(Task)
    BY <2>1, AppendProperties DEF TypeOK, BrokerTypeOK
  <2>3. queue' \in [TaskNames -> Seq(Task)]
    BY <1>a, <2>1, <2>2 DEF Push, Enqueued, TypeOK, BrokerTypeOK
  <2> QED BY <1>a, <2>1, <2>3 DEF Push, TypeOK, BrokerTypeOK, callerVars, workerVars
<1>b. ASSUME NEW p \in pops, PopAnswered(p)
      PROVE  TypeOK'
  <2>1. p.worker \in Workers /\ Serves[p.worker] \in TaskNames
    BY DEF TypeOK, BrokerTypeOK
  <2>2. queue[Serves[p.worker]] # <<>>
    BY <1>b DEF PopAnswered, Pop
  <2>3. queue' \in [TaskNames -> Seq(Task)]
    BY <1>1, <1>b, <2>1, <2>2 DEF PopAnswered, Pop, Rest, TypeOK, BrokerTypeOK
  <2>4. lost' \subseteq Task /\ hand' \in [Workers -> Seq(Task)]
    BY <1>1, <1>b, <2>1, <2>2 DEF PopAnswered, Pop, TypeOK, BrokerTypeOK
  <2>5. \A w \in Workers : wpc[w] = "running" => hand'[w] # <<>>
    BY <1>b, <2>1 DEF PopAnswered, TypeOK
  <2> QED BY <1>b, <2>3, <2>4, <2>5 DEF PopAnswered, Pop, TypeOK, BrokerTypeOK, callerVars
<1>c. ASSUME NEW p \in pops, PopTimesOut(p)
      PROVE  TypeOK'
  <2>1. p.worker \in Workers
    BY DEF TypeOK, BrokerTypeOK
  <2> QED BY <1>c, <2>1 DEF PopTimesOut, PopNothing, AfterException, TypeOK, BrokerTypeOK,
                            callerVars
<1>d. CASE BrokerCrash /\ UNCHANGED <<callerVars, workerVars>>
  BY <1>2, <1>d DEF BrokerCrash, TypeOK, BrokerTypeOK, callerVars, workerVars
<1> QED BY <1>a, <1>b, <1>c, <1>d DEF BrokerStep, PopFrom

LEMMA TypeStep == TypeOK /\ [Next]_vars => TypeOK'
<1> SUFFICES ASSUME TypeOK, [Next]_vars PROVE TypeOK'
  OBVIOUS
<1>1. CASE UNCHANGED vars
  BY <1>1 DEF vars, brokerVars, callerVars, workerVars, TypeOK, BrokerTypeOK
<1> QED BY <1>1, CallerType, WorkerType, BrokerType DEF Next

(* Backie.tla, TypeOK: a worker that runs has the task it runs.              *)
THEOREM TypeCorrect == FairSpec => []TypeOK
BY TypeInit, TypeStep, PTL DEF Spec, FairSpec

-----------------------------------------------------------------------------
(* What a change of one queue or of one hand does to all of them             *)

LEMMA QueueGrows ==
    ASSUME TypeOK, Queued, NEW t \in Task, t \notin InQueue,
           queue' = [queue EXCEPT ![t.name] = Append(@, t)]
    PROVE  InQueue' = InQueue \cup {t} /\ Queued'
<1>1. t.name \in TaskNames /\ queue \in [TaskNames -> Seq(Task)]
  BY DEF TypeOK, BrokerTypeOK, Task
<1>2. Range(queue'[t.name]) = Range(queue[t.name]) \cup {t}
  BY <1>1, RangeOfAppend
<1>3. IsInjective(queue'[t.name])
  <2>1. t \notin Range(queue[t.name])
    BY <1>1 DEF InQueue
  <2> QED BY <1>1, <2>1, InjectiveAppend DEF Queued
<1>4. \A name \in TaskNames \ {t.name} : queue'[name] = queue[name]
  BY <1>1
<1>5. InQueue' = InQueue \cup {t}
  BY <1>1, <1>2, <1>4 DEF InQueue
<1>6. Queued'
  BY <1>1, <1>2, <1>3, <1>4 DEF Queued
<1> QED BY <1>5, <1>6

LEMMA QueueShrinks ==
    ASSUME TypeOK, Queued, NEW name \in TaskNames, queue[name] # <<>>,
           queue' = [queue EXCEPT ![name] = Tail(@)]
    PROVE  /\ Head(queue[name]) \in InQueue
           /\ InQueue' = InQueue \ {Head(queue[name])}
           /\ Queued'
<1> DEFINE h == Head(queue[name])
<1>1. queue \in [TaskNames -> Seq(Task)]
  BY DEF TypeOK, BrokerTypeOK
<1>2. /\ Range(queue[name]) = Range(queue'[name]) \cup {h}
      /\ IsInjective(queue'[name]) /\ h \notin Range(queue'[name])
  BY <1>1, RangeOfTail DEF Queued
<1>3. \A m \in TaskNames \ {name} : queue'[m] = queue[m]
  BY <1>1
<1>4. \A m \in TaskNames \ {name} : h \notin Range(queue[m])
  BY <1>2 DEF Queued
<1> HIDE DEF h
<1>5. h \in InQueue
  BY <1>2 DEF InQueue
<1>6. InQueue' = InQueue \ {h}
  BY <1>2, <1>3, <1>4 DEF InQueue
<1>7. Queued'
  BY <1>2, <1>3 DEF Queued
<1> QED BY <1>5, <1>6, <1>7 DEF h

LEMMA QueuesEmpty ==
    ASSUME queue' = [name \in TaskNames |-> <<>>]
    PROVE  InQueue' = {} /\ Queued'
<1>1. \A name \in TaskNames : queue'[name] = <<>> /\ Range(queue'[name]) = {}
  BY RangeOfOne
<1>2. IsInjective(<<>>)
  BY DEF IsInjective
<1> QED BY <1>1, <1>2 DEF InQueue, Queued

LEMMA QueuesKept ==
    ASSUME Queued, queue' = queue
    PROVE  InQueue' = InQueue /\ Queued'
BY DEF InQueue, Queued

LEMMA HandChanges ==
    ASSUME TypeOK, Hands, NEW w \in Workers, NEW s,
           hand' = [hand EXCEPT ![w] = s]
    PROVE  Held' = (Held \ Range(hand[w])) \cup Range(s)
<1>1. hand'[w] = s /\ \A v \in Workers \ {w} : hand'[v] = hand[v]
  BY DEF TypeOK
<1>2. \A v \in Workers \ {w} : Range(hand[v]) \cap Range(hand[w]) = {}
  BY DEF Hands
<1> QED BY <1>1, <1>2 DEF Held

LEMMA HeldKept ==
    ASSUME hand' = hand
    PROVE  Held' = Held
BY DEF Held

LEMMA InHand ==
    ASSUME Hands, NEW w \in Workers, hand[w] # <<>>
    PROVE  /\ hand[w] = <<Head(hand[w])>> /\ Range(hand[w]) = {Head(hand[w])}
           /\ Head(hand[w]) \in Held
<1>1. PICK t \in Task : hand[w] = <<t>>
  BY DEF Hands
<1>2. Head(hand[w]) = t /\ Range(hand[w]) = {t}
  BY <1>1, RangeOfOne
<1>3. t \in Held
  BY <1>2 DEF Held
<1> QED BY <1>1, <1>2, <1>3

LEMMA Forgotten ==
    ASSUME TypeOK, NEW w \in Workers, Forget(w)
    PROVE  /\ [worker |-> w, live |-> TRUE] \notin pops'
           /\ \A v \in Workers : [worker |-> v, live |-> TRUE] \in pops' =>
                                     [worker |-> v, live |-> TRUE] \in pops
<1>1. ASSUME NEW v \in Workers, [worker |-> v, live |-> TRUE] \in pops'
      PROVE  v # w /\ [worker |-> v, live |-> TRUE] \in pops
  <2>1. PICK p \in pops : [worker |-> v, live |-> TRUE] =
                            IF p.worker = w THEN [p EXCEPT !.live = FALSE] ELSE p
    BY <1>1 DEF Forget
  <2>2. p \in [worker : Workers, live : BOOLEAN]
    BY DEF TypeOK, BrokerTypeOK
  <2>3. p.worker # w
    BY <2>1, <2>2
  <2>4. p = [worker |-> v, live |-> TRUE]
    BY <2>1, <2>3
  <2> QED BY <2>3, <2>4
<1> QED BY <1>1

-----------------------------------------------------------------------------
(* A step of a caller                                                        *)

LEMMA CallerInv ==
    ASSUME TypeOK, Queued, Hands, Apart, Sent, Accounted, NEW c \in Callers, CallerStep(c)
    PROVE  Queued' /\ Hands' /\ Apart' /\ Sent' /\ Accounted'
<1>0. /\ queue' = queue /\ pops' = pops /\ lost' = lost /\ UNCHANGED workerVars
  BY DEF CallerStep, Delay, DelayRaises, DelayReturns, PushFails, brokerVars
<1>1. /\ InQueue' = InQueue /\ Held' = Held /\ Queued'
      /\ started' = started /\ done' = done /\ wpc' = wpc /\ hand' = hand
  BY <1>0, QueuesKept, HeldKept DEF workerVars
<1>2. Hands'
  BY <1>0, <1>1 DEF Hands
<1>3. calls \in [Callers -> 0..MaxCalls] /\ sending \in [Callers -> Seq(Task)]
  BY DEF TypeOK
<1>4. \A t \in Known : t \in Task /\ t.by \in Callers /\ t.n \in Nat
  <2>1. \A name \in TaskNames : Range(queue[name]) \subseteq Task
    BY RangeOfSeq DEF TypeOK, BrokerTypeOK
  <2>2. \A w \in Workers : Range(hand[w]) \subseteq Task
    BY RangeOfSeq DEF TypeOK
  <2>3. Known \subseteq Task
    BY <2>1, <2>2 DEF Known, InQueue, Held, TypeOK, BrokerTypeOK
  <2> QED BY <2>3 DEF Task
<1>5. ASSUME sending[c] # <<>>
      PROVE  sending[c] = <<Head(sending[c])>> /\ Head(sending[c]).by = c
  BY <1>5, RangeOfOne DEF Sent
<1>a. ASSUME NEW t \in Task, Delay(c, t)
      PROVE  Apart' /\ Sent' /\ Accounted'
  <2>1. t.by = c /\ t.n = calls[c] + 1 /\ calls' = [calls EXCEPT ![c] = @ + 1]
    BY <1>a DEF Delay
  <2>2. t \notin Known
    BY <1>3, <2>1 DEF Sent
  <2>3. /\ pushes' = pushes \cup {t} /\ acks' = acks /\ queued' = queued
        /\ sending' = [sending EXCEPT ![c] = <<t>>]
    BY <1>a DEF Delay
  <2>4. Apart'
    BY <1>0, <1>1, <2>2, <2>3 DEF Apart, Known
  <2>5. Known' = Known \cup {t}
    BY <1>0, <1>1, <2>3 DEF Known
  <2>6. \A u \in Known' : u.n <= calls'[u.by]
    BY <1>3, <1>4, <2>1, <2>5 DEF Sent
  <2>7. \A d \in Callers : sending'[d] # <<>> =>
          \E u \in Task : sending'[d] = <<u>> /\ u.by = d /\ u.n = calls'[d]
    BY <1>3, <2>1, <2>3 DEF Sent
  <2>8. Accounted'
    BY <1>0, <1>1, <2>3 DEF Accounted
  <2> QED BY <2>4, <2>6, <2>7, <2>8 DEF Sent
<1>b. ASSUME NEW t \in Task, DelayRaises(c, t)
      PROVE  Apart' /\ Sent' /\ Accounted'
  <2>1. /\ pushes' = pushes /\ acks' = acks /\ queued' = queued /\ sending' = sending
        /\ calls' = [calls EXCEPT ![c] = @ + 1] /\ sending[c] = <<>>
    BY <1>b DEF DelayRaises, brokerVars
  <2>2. Known' = Known
    BY <1>0, <1>1, <2>1 DEF Known
  <2>3. \A u \in Known' : u.n <= calls'[u.by]
    BY <1>3, <1>4, <2>1, <2>2 DEF Sent
  <2>4. \A d \in Callers : sending'[d] # <<>> =>
          \E u \in Task : sending'[d] = <<u>> /\ u.by = d /\ u.n = calls'[d]
    BY <1>3, <2>1 DEF Sent
  <2> QED BY <1>0, <1>1, <2>1, <2>3, <2>4 DEF Apart, Sent, Accounted
<1>c. ASSUME DelayReturns(c) \/ PushFails(c)
      PROVE  Apart' /\ Sent' /\ Accounted'
  <2>1. /\ pushes' \subseteq pushes /\ acks' \subseteq acks
        /\ queued' \subseteq queued \cup acks
        /\ calls' = calls /\ sending' = [sending EXCEPT ![c] = <<>>]
    BY <1>c DEF DelayReturns, PushFails, Report
  <2>2. Known' \subseteq Known
    BY <1>0, <1>1, <2>1 DEF Known
  <2>3. \A d \in Callers : sending'[d] # <<>> => sending'[d] = sending[d]
    BY <1>3, <2>1
  <2>4. Sent'
    BY <2>1, <2>2, <2>3 DEF Sent
  <2> QED BY <1>0, <1>1, <2>1, <2>4 DEF Apart, Accounted
<1> QED BY <1>1, <1>2, <1>a, <1>b, <1>c DEF CallerStep

-----------------------------------------------------------------------------
(* A step of a worker                                                        *)

(* Workers do not touch the queues nor the callers' commands: what a worker  *)
(* had in hand stays in hand, was run to the end or is lost.                 *)
LEMMA WorkerInv ==
    ASSUME TypeOK, Queued, Hands, Apart, Sent, Accounted, NEW w \in Workers,
           WorkerStep(w) \/ WorkerCrash(w) \/ WorkerStarts(w)
    PROVE  Queued' /\ Hands' /\ Apart' /\ Sent' /\ Accounted'
<1>0. UNCHANGED <<queue, pushes, acks, calls, sending, queued>>
  BY DEF WorkerStep, Dequeue, Run, RunReturns, RunRaises, PopFails, WorkerCrash,
         WorkerStarts, brokerVars, callerVars
<1>1. InQueue' = InQueue /\ Queued'
  BY <1>0, QueuesKept
<1>2. wpc \in [Workers -> {"top", "waiting", "running", "down"}] /\ hand \in [Workers -> Seq(Task)]
  BY DEF TypeOK
<1>3. Range(hand[w]) \subseteq Held
  BY DEF Held
<1>4. ASSUME (Held \cup started \cup lost)' = Held \cup started \cup lost,
             done' \subseteq started', done \subseteq done',
             Held \subseteq (Held \cup done \cup lost)', lost \subseteq lost'
      PROVE  Apart' /\ Sent' /\ Accounted'
  <2>1. Apart'
    BY <1>0, <1>1, <1>4 DEF Apart
  <2>2. Known' = Known
    BY <1>0, <1>1, <1>4 DEF Known
  <2>3. Sent'
    BY <1>0, <2>2 DEF Sent
  <2>4. Accounted'
    BY <1>0, <1>1, <1>4 DEF Accounted
  <2> QED BY <2>1, <2>3, <2>4
<1>5. ASSUME hand[w] # <<>>
      PROVE  /\ Range(hand[w]) = {Head(hand[w])} /\ Head(hand[w]) \in Held
             /\ \A v \in Workers \ {w} : Head(hand[w]) \notin Range(hand[v])
  BY <1>5, InHand DEF Hands
<1>6. wpc[w] = "running" => hand[w] # <<>> /\ Range(hand[w]) \subseteq started
  BY DEF TypeOK, Hands
<1>7. ASSUME NEW v \in Workers \ {w}, wpc'[v] = wpc[v], hand'[v] = hand[v],
             [worker |-> v, live |-> TRUE] \in pops' => [worker |-> v, live |-> TRUE] \in pops,
             Range(hand[v]) \cap started' = Range(hand[v]) \cap started
      PROVE  /\ hand'[v] = <<>> \/ \E t \in Task : hand'[v] = <<t>>
             /\ wpc'[v] \in {"top", "down"} => hand'[v] = <<>>
             /\ wpc'[v] = "waiting" => Range(hand'[v]) \cap started' = {}
             /\ wpc'[v] = "running" => Range(hand'[v]) \subseteq started'
             /\ [worker |-> v, live |-> TRUE] \in pops' => wpc'[v] = "waiting" /\ hand'[v] = <<>>
  BY <1>7 DEF Hands
<1>8. ASSUME hand' = [hand EXCEPT ![w] = <<>>]
      PROVE  /\ Held' = Held \ Range(hand[w])
             /\ Range(hand'[w]) = {} /\ hand'[w] = <<>>
             /\ \A v \in Workers \ {w} : hand'[v] = hand[v]
             /\ \A u, v \in Workers : u # v => Range(hand'[u]) \cap Range(hand'[v]) = {}
  <2>1. hand'[w] = <<>> /\ \A v \in Workers \ {w} : hand'[v] = hand[v]
    BY <1>2, <1>8
  <2>2. \A u, v \in Workers : u # v => Range(hand[u]) \cap Range(hand[v]) = {}
    BY DEF Hands
  <2>3. Range(hand'[w]) = {}
    BY <2>1, RangeOfOne
  <2>4. Held' = (Held \ Range(hand[w])) \cup Range(<<>>)
    BY <1>8, HandChanges
  <2>5. Held' = Held \ Range(hand[w])
    BY <2>4, RangeOfOne
  <2>6. \A u, v \in Workers : u # v => Range(hand'[u]) \cap Range(hand'[v]) = {}
    BY <2>1, <2>2, <2>3
  <2> QED BY <2>1, <2>3, <2>5, <2>6
<1>a. CASE Dequeue(w)
  <2>1. /\ UNCHANGED <<hand, started, done, lost>> /\ Held' = Held
        /\ wpc[w] = "top" /\ wpc' = [wpc EXCEPT ![w] = "waiting"]
        /\ pops' = pops \cup {[worker |-> w, live |-> TRUE]}
    BY <1>a, HeldKept DEF Dequeue
  <2>2. hand[w] = <<>> /\ Range(hand[w]) = {}
    BY <2>1, RangeOfOne DEF Hands
  <2>3. \A v \in Workers \ {w} : [worker |-> v, live |-> TRUE] # [worker |-> w, live |-> TRUE]
    OBVIOUS
  <2>4. \A v \in Workers \ {w} : wpc'[v] = wpc[v]
    BY <1>2, <2>1
  <2>5. Hands'
    BY <1>2, <2>1, <2>2, <2>3, <2>4 DEF Hands
  <2>6. Apart' /\ Sent' /\ Accounted'
    BY <1>4, <2>1 DEF Apart
  <2> QED BY <1>1, <2>5, <2>6
<1>b. CASE Run(w)
  <2>1. /\ UNCHANGED <<hand, done, lost, pops>> /\ Held' = Held
        /\ wpc[w] = "waiting" /\ hand[w] # <<>> /\ wpc' = [wpc EXCEPT ![w] = "running"]
        /\ started' = started \cup {Head(hand[w])}
    BY <1>b, HeldKept DEF Run, brokerVars
  <2>2. \A v \in Workers \ {w} : /\ wpc'[v] = wpc[v]
                                 /\ Range(hand[v]) \cap started' = Range(hand[v]) \cap started
    BY <1>2, <1>5, <2>1
  <2>3. [worker |-> w, live |-> TRUE] \notin pops
    BY <2>1 DEF Hands
  <2>4. wpc'[w] = "running" /\ Range(hand'[w]) \subseteq started'
    BY <1>2, <1>5, <2>1
  <2>5. Hands'
    BY <1>7, <2>1, <2>2, <2>3, <2>4 DEF Hands
  <2>6. Apart' /\ Sent' /\ Accounted'
    BY <1>4, <1>5, <2>1 DEF Apart
  <2> QED BY <1>1, <2>5, <2>6
<1>c. CASE RunReturns(w) \/ RunRaises(w)
  <2>1. /\ wpc[w] = "running" /\ wpc' = [wpc EXCEPT ![w] = "top"]
        /\ hand' = [hand EXCEPT ![w] = <<>>] /\ UNCHANGED <<pops, started>>
        /\ \/ done' = done \cup {Head(hand[w])} /\ lost' = lost
           \/ done' = done /\ lost' = lost \cup {Head(hand[w])}
    BY <1>c DEF RunReturns, RunRaises, AfterException, brokerVars
  <2>2. [worker |-> w, live |-> TRUE] \notin pops
    BY <2>1 DEF Hands
  <2>3. \A v \in Workers \ {w} : wpc'[v] = wpc[v]
    BY <1>2, <2>1
  <2>4. wpc'[w] = "top"
    BY <1>2, <2>1
  <2>5. Hands'
    BY <1>7, <1>8, <2>1, <2>2, <2>3, <2>4 DEF Hands
  <2>6. Range(hand[w]) = {Head(hand[w])} /\ Head(hand[w]) \in started
    BY <1>5, <1>6, <2>1
  <2>7. Held' = Held \ {Head(hand[w])}
    BY <1>8, <2>1, <2>6
  <2>8. Apart' /\ Sent' /\ Accounted'
    BY <1>4, <2>1, <2>6, <2>7, <1>3 DEF Apart
  <2> QED BY <1>1, <2>5, <2>8
<1>d. CASE PopFails(w) \/ WorkerCrash(w)
  <2>1. /\ wpc' \in {[wpc EXCEPT ![w] = "top"], [wpc EXCEPT ![w] = "down"]}
        /\ hand' = [hand EXCEPT ![w] = <<>>] /\ UNCHANGED <<started, done>>
        /\ lost' = lost \cup Range(hand[w]) /\ Forget(w)
    BY <1>d DEF PopFails, WorkerCrash, AfterException
  <2>2. \A v \in Workers \ {w} : wpc'[v] = wpc[v]
    BY <1>2, <2>1
  <2>3. wpc'[w] \in {"top", "down"}
    BY <1>2, <2>1
  <2>4. Hands'
    BY <1>7, <1>8, <2>1, <2>2, <2>3, Forgotten DEF Hands
  <2>5. Held' = Held \ Range(hand[w])
    BY <1>8, <2>1
  <2>6. Apart' /\ Sent' /\ Accounted'
    BY <1>3, <1>4, <2>1, <2>5 DEF Apart
  <2> QED BY <1>1, <2>4, <2>6
<1>e. CASE WorkerStarts(w)
  <2>1. /\ UNCHANGED <<hand, started, done, lost, pops>> /\ Held' = Held
        /\ wpc[w] = "down" /\ wpc' = [wpc EXCEPT ![w] = "top"]
    BY <1>e, HeldKept DEF WorkerStarts, brokerVars
  <2>2. \A v \in Workers \ {w} : wpc'[v] = wpc[v]
    BY <1>2, <2>1
  <2>3. Hands'
    BY <1>2, <2>1, <2>2 DEF Hands
  <2>4. Apart' /\ Sent' /\ Accounted'
    BY <1>4, <2>1 DEF Apart
  <2> QED BY <1>1, <2>3, <2>4
<1> QED BY <1>a, <1>b, <1>c, <1>d, <1>e DEF WorkerStep

-----------------------------------------------------------------------------
(* A step of Redis                                                           *)

LEMMA PushInv ==
    ASSUME TypeOK, Queued, Hands, Apart, Sent, Accounted, NEW t \in pushes, Push(t),
           UNCHANGED <<callerVars, workerVars>>
    PROVE  Queued' /\ Hands' /\ Apart' /\ Sent' /\ Accounted'
<1>1. /\ t \in Task /\ t \notin InQueue
      /\ queue' = [queue EXCEPT ![t.name] = Append(@, t)]
      /\ pushes' = pushes \ {t} /\ acks' = acks \cup {t} /\ UNCHANGED <<pops, lost>>
  BY DEF Push, Enqueued, Apart, TypeOK, BrokerTypeOK
<1>2. UNCHANGED <<calls, sending, queued, wpc, hand, started, done>>
  BY DEF callerVars, workerVars
<1>3. InQueue' = InQueue \cup {t} /\ Queued' /\ Held' = Held
  BY <1>1, <1>2, QueueGrows, HeldKept
<1>4. Hands'
  BY <1>1, <1>2 DEF Hands
<1>5. Apart'
  BY <1>1, <1>2, <1>3 DEF Apart
<1>6. Known' = Known
  BY <1>1, <1>2, <1>3 DEF Known
<1>7. Sent'
  BY <1>2, <1>6 DEF Sent
<1>8. Accounted'
  BY <1>1, <1>2, <1>3 DEF Accounted
<1> QED BY <1>3, <1>4, <1>5, <1>7, <1>8

LEMMA PopInv ==
    ASSUME TypeOK, Queued, Hands, Apart, Sent, Accounted, NEW p \in pops, PopAnswered(p)
    PROVE  Queued' /\ Hands' /\ Apart' /\ Sent' /\ Accounted'
<1> DEFINE name == Serves[p.worker]
           h == Head(queue[name])
<1>1. p \in [worker : Workers, live : BOOLEAN] /\ name \in TaskNames
  BY DEF TypeOK, BrokerTypeOK
<1>2. /\ queue[name] # <<>> /\ queue' = [queue EXCEPT ![name] = Tail(@)]
      /\ pops' = pops \ {p} /\ UNCHANGED <<pushes, acks>>
      /\ lost' = IF p.live THEN lost ELSE lost \cup {h}
      /\ hand' = IF p.live THEN [hand EXCEPT ![p.worker] = <<h>>] ELSE hand
  BY DEF PopAnswered, Pop, Rest
<1>3. UNCHANGED <<calls, sending, queued, wpc, started, done>>
  BY DEF PopAnswered, callerVars
<1>4. h \in Task
  BY <1>1, <1>2, HeadTailProperties DEF TypeOK, BrokerTypeOK
<1>5. h \in InQueue /\ InQueue' = InQueue \ {h} /\ Queued'
  BY <1>1, <1>2, QueueShrinks
<1> HIDE DEF h, name
<1>6. h \notin Held \cup started \cup lost \cup pushes
  BY <1>5 DEF Apart
<1>7. /\ Hands'
      /\ Held' \cup lost' = Held \cup lost \cup {h}
  <2>1. CASE p.live
    <3> DEFINE w == p.worker
    <3>1. p = [worker |-> w, live |-> TRUE]
      BY <1>1, <2>1
    <3>2. w \in Workers /\ wpc[w] = "waiting" /\ hand[w] = <<>>
      BY <1>1, <3>1 DEF Hands
    <3>3. lost' = lost /\ hand' = [hand EXCEPT ![w] = <<h>>]
      BY <1>2, <2>1
    <3> HIDE DEF w
    <3>4. hand'[w] = <<h>> /\ \A v \in Workers \ {w} : hand'[v] = hand[v]
      BY <3>2, <3>3 DEF TypeOK
    <3>5. Range(hand'[w]) = {h} /\ Range(hand[w]) = {} /\ Range(<<h>>) = {h}
      BY <3>2, <3>4, RangeOfOne
    <3>6. Held' = Held \cup {h}
      <4>1. Held' = (Held \ Range(hand[w])) \cup Range(<<h>>)
        BY <3>2, <3>3, HandChanges
      <4> QED BY <3>5, <4>1
    <3>7. \A v \in Workers : h \notin Range(hand[v])
      BY <1>6 DEF Held
    <3>8. \A u, v \in Workers : u # v => Range(hand'[u]) \cap Range(hand'[v]) = {}
      BY <3>4, <3>5, <3>7 DEF Hands
    <3>9. ASSUME NEW v \in Workers
          PROVE  /\ hand'[v] = <<>> \/ \E t \in Task : hand'[v] = <<t>>
                 /\ wpc'[v] \in {"top", "down"} => hand'[v] = <<>>
                 /\ wpc'[v] = "waiting" => Range(hand'[v]) \cap started' = {}
                 /\ wpc'[v] = "running" => Range(hand'[v]) \subseteq started'
                 /\ [worker |-> v, live |-> TRUE] \in pops' =>
                      wpc'[v] = "waiting" /\ hand'[v] = <<>>
      <4>1. CASE v = w
        <5>1. [worker |-> v, live |-> TRUE] \notin pops'
          BY <1>2, <3>1, <4>1
        <5> QED BY <1>3, <1>4, <1>6, <3>2, <3>4, <3>5, <4>1, <5>1
      <4>2. CASE v # w
        BY <1>2, <1>3, <3>4, <4>2 DEF Hands
      <4> QED BY <4>1, <4>2
    <3>10. Hands'
      BY <3>8, <3>9 DEF Hands
    <3> QED BY <3>3, <3>6, <3>10
  <2>2. CASE ~p.live
    <3>1. lost' = lost \cup {h} /\ hand' = hand /\ Held' = Held
      BY <1>2, <2>2, HeldKept
    <3>2. Hands'
      BY <1>2, <1>3, <3>1 DEF Hands
    <3> QED BY <3>1, <3>2
  <2> QED BY <2>1, <2>2
<1>8. Apart'
  BY <1>2, <1>3, <1>5, <1>6, <1>7 DEF Apart
<1>9. Known' = Known
  BY <1>2, <1>3, <1>5, <1>7 DEF Known
<1>10. Sent'
  BY <1>3, <1>9 DEF Sent
<1>11. Accounted'
  BY <1>2, <1>3, <1>5, <1>7 DEF Accounted
<1> QED BY <1>5, <1>7, <1>8, <1>10, <1>11

LEMMA TimeOutInv ==
    ASSUME TypeOK, Queued, Hands, Apart, Sent, Accounted, NEW p \in pops, PopTimesOut(p)
    PROVE  Queued' /\ Hands' /\ Apart' /\ Sent' /\ Accounted'
<1>1. p \in [worker : Workers, live : BOOLEAN]
  BY DEF TypeOK, BrokerTypeOK
<1>2. /\ UNCHANGED <<queue, pushes, acks, lost, calls, sending, queued, hand, started, done>>
      /\ pops' = pops \ {p}
      /\ wpc' = IF p.live THEN [wpc EXCEPT ![p.worker] = "top"] ELSE wpc
  BY DEF PopTimesOut, PopNothing, AfterException, callerVars
<1>3. InQueue' = InQueue /\ Held' = Held /\ Queued'
  BY <1>2, QueuesKept, HeldKept
<1>4. Hands'
  <2>1. CASE p.live
    <3> DEFINE w == p.worker
    <3>1. p = [worker |-> w, live |-> TRUE]
      BY <1>1, <2>1
    <3>2. w \in Workers /\ hand[w] = <<>>
      BY <1>1, <3>1 DEF Hands
    <3>3. wpc' = [wpc EXCEPT ![w] = "top"]
      BY <1>2, <2>1
    <3> HIDE DEF w
    <3>4. wpc'[w] = "top" /\ \A v \in Workers \ {w} : wpc'[v] = wpc[v]
      BY <3>2, <3>3 DEF TypeOK
    <3>5. [worker |-> w, live |-> TRUE] \notin pops'
      BY <1>2, <3>1
    <3> QED BY <1>2, <3>2, <3>4, <3>5 DEF Hands
  <2>2. CASE ~p.live
    BY <1>2, <2>2 DEF Hands
  <2> QED BY <2>1, <2>2
<1>5. Known' = Known
  BY <1>2, <1>3 DEF Known
<1> QED BY <1>2, <1>3, <1>4, <1>5 DEF Apart, Sent, Accounted

LEMMA CrashInv ==
    ASSUME TypeOK, Queued, Hands, Apart, Sent, Accounted, BrokerCrash,
           UNCHANGED <<callerVars, workerVars>>
    PROVE  Queued' /\ Hands' /\ Apart' /\ Sent' /\ Accounted'
<1>1. /\ queue' = [name \in TaskNames |-> <<>>] /\ lost' = lost \cup InQueue
      /\ pushes' = {} /\ pops' = {} /\ acks' = acks
  BY DEF BrokerCrash, InQueue
<1>2. UNCHANGED <<calls, sending, queued, wpc, hand, started, done>>
  BY DEF callerVars, workerVars
<1>3. InQueue' = {} /\ Queued' /\ Held' = Held
  BY <1>1, <1>2, QueuesEmpty, HeldKept
<1>4. Hands'
  BY <1>1, <1>2 DEF Hands
<1>5. Known' \subseteq Known
  BY <1>1, <1>2, <1>3 DEF Known
<1>6. Sent'
  BY <1>2, <1>5 DEF Sent
<1> QED BY <1>1, <1>2, <1>3, <1>4, <1>6 DEF Apart, Accounted

-----------------------------------------------------------------------------
(* The order of a caller                                                     *)

LEMMA OrderKept ==
    ASSUME CallerOrder, queue' = queue, queued' = queued
    PROVE  CallerOrder'
BY DEF CallerOrder

(* A task that becomes queued is the last one its caller has sent.           *)
LEMMA OrderReturns ==
    ASSUME TypeOK, BackieInv, NEW c \in Callers, DelayReturns(c)
    PROVE  CallerOrder'
<1> DEFINE u == Head(sending[c])
<1>1. u \in Task /\ u.by = c /\ u.n = calls[c]
  BY RangeOfOne DEF DelayReturns, BackieInv, Sent
<1>2. queue' = queue /\ queued' = queued \cup {u}
  BY DEF DelayReturns
<1> HIDE DEF u
<1> SUFFICES ASSUME NEW name \in TaskNames,
                    NEW i \in DOMAIN queue[name], NEW j \in DOMAIN queue[name], i < j,
                    queue[name][i].by = queue[name][j].by, queue[name][j] \in queued \cup {u}
             PROVE  queue[name][i].n < queue[name][j].n
  BY <1>2 DEF CallerOrder
<1>3. CASE queue[name][j] \in queued
  BY <1>3 DEF BackieInv, CallerOrder
<1>4. CASE queue[name][j] = u
  <2> DEFINE t == queue[name][i]
  <2>1. queue[name] \in Seq(Task) /\ DOMAIN queue[name] = 1..Len(queue[name])
    BY LenProperties DEF TypeOK, BrokerTypeOK
  <2>2. t \in Task /\ t \in Range(queue[name]) /\ u \in Range(queue[name])
    BY <1>4, <2>1, ElementOfSeq DEF Range
  <2>3. t.name = u.name /\ t # u
    <3>1. i # j
      BY <2>1
    <3> QED BY <1>4, <2>2, <3>1 DEF BackieInv, Queued, IsInjective
  <2>4. t \in Known
    BY <2>2 DEF Known, InQueue
  <2> HIDE DEF t
  <2>5. t.n <= calls[t.by]
    BY <2>4 DEF BackieInv, Sent
  <2>6. t.by = u.by
    BY <1>4 DEF t
  <2>7. t.n \in Nat /\ u.n \in Nat /\ t.n <= u.n
    BY <1>1, <2>2, <2>5, <2>6 DEF Task
  <2>8. t.n # u.n
    <3>1. /\ t = [by |-> t.by, n |-> t.n, name |-> t.name]
          /\ u = [by |-> u.by, n |-> u.n, name |-> u.name]
      BY <1>1, <2>2 DEF Task
    <3> QED BY <2>3, <2>6, <3>1
  <2> QED BY <1>4, <2>7, <2>8 DEF t
<1> QED BY <1>3, <1>4

(* A task that an LPUSH brings, early or late, is not queued yet.            *)
LEMMA OrderPush ==
    ASSUME TypeOK, BackieInv, NEW t \in pushes, Push(t), queued' = queued
    PROVE  CallerOrder'
<1>1. t \in Task /\ t.name \in TaskNames /\ t \notin queued
  BY DEF BackieInv, Apart, Accounted, TypeOK, BrokerTypeOK, Task
<1>2. /\ queue \in [TaskNames -> Seq(Task)]
      /\ queue' = [queue EXCEPT ![t.name] = Append(@, t)]
  BY DEF Push, Enqueued, TypeOK, BrokerTypeOK
<1> SUFFICES ASSUME NEW name \in TaskNames,
                    NEW i \in DOMAIN queue'[name], NEW j \in DOMAIN queue'[name], i < j,
                    queue'[name][i].by = queue'[name][j].by, queue'[name][j] \in queued
             PROVE  queue'[name][i].n < queue'[name][j].n
  BY DEF CallerOrder
<1>3. CASE name # t.name
  <2>1. queue'[name] = queue[name]
    BY <1>1, <1>2, <1>3
  <2> QED BY <2>1 DEF BackieInv, CallerOrder
<1>4. CASE name = t.name
  <2> DEFINE s == queue[name]
             a == queue'[name]
  <2>1. s \in Seq(Task) /\ a = Append(s, t)
    BY <1>2, <1>4
  <2>2. /\ Len(s) \in Nat /\ DOMAIN s = 1..Len(s) /\ DOMAIN a = 1..Len(s) + 1
        /\ \A k \in 1..Len(s) : a[k] = s[k]
        /\ a[Len(s) + 1] = t
    BY <1>1, <2>1, AppendProperties, LenProperties
  <2>3. i \in 1..Len(s) /\ j \in 1..Len(s)
    BY <1>1, <2>2
  <2>4. a[i] = s[i] /\ a[j] = s[j]
    BY <2>2, <2>3
  <2> QED BY <2>2, <2>3, <2>4 DEF BackieInv, CallerOrder
<1> QED BY <1>3, <1>4

LEMMA OrderPop ==
    ASSUME TypeOK, CallerOrder, NEW m \in TaskNames, queue[m] # <<>>,
           queue' = [queue EXCEPT ![m] = Tail(@)], queued' = queued
    PROVE  CallerOrder'
<1>1. queue \in [TaskNames -> Seq(Task)]
  BY DEF TypeOK, BrokerTypeOK
<1> SUFFICES ASSUME NEW name \in TaskNames,
                    NEW i \in DOMAIN queue'[name], NEW j \in DOMAIN queue'[name], i < j,
                    queue'[name][i].by = queue'[name][j].by, queue'[name][j] \in queued
             PROVE  queue'[name][i].n < queue'[name][j].n
  BY DEF CallerOrder
<1>2. CASE name # m
  <2>1. queue'[name] = queue[name]
    BY <1>1, <1>2
  <2> QED BY <2>1 DEF CallerOrder
<1>3. CASE name = m
  <2> DEFINE s == queue[name]
             r == queue'[name]
  <2>1. s \in Seq(Task) /\ s # <<>> /\ r = Tail(s)
    BY <1>1, <1>3
  <2> HIDE DEF s, r
  <2>2. /\ r \in Seq(Task) /\ Len(r) = Len(s) - 1 /\ Len(s) \in Nat \ {0}
        /\ \A k \in 1..Len(r) : r[k] = s[k + 1]
    BY <2>1, HeadTailProperties, LenProperties, EmptySeq
  <2>3. DOMAIN s = 1..Len(s) /\ DOMAIN r = 1..Len(s) - 1
    BY <2>1, <2>2, LenProperties
  <2>4. i \in DOMAIN r /\ j \in DOMAIN r
    BY DEF r
  <2>5. /\ i + 1 \in DOMAIN s /\ j + 1 \in DOMAIN s /\ i + 1 < j + 1
        /\ r[i] = s[i + 1] /\ r[j] = s[j + 1]
    BY <2>2, <2>3, <2>4
  <2> USE DEF s, r
  <2> QED BY <2>5, <1>3 DEF CallerOrder
<1> QED BY <1>2, <1>3

LEMMA OrderEmpty ==
    ASSUME queue' = [name \in TaskNames |-> <<>>]
    PROVE  CallerOrder'
<1>1. \A name \in TaskNames : queue'[name] = <<>> /\ DOMAIN queue'[name] = {}
  OBVIOUS
<1> QED BY <1>1 DEF CallerOrder

-----------------------------------------------------------------------------
(* Every step keeps the invariant                                            *)

LEMMA InvInit == Init => BackieInv
<1> SUFFICES ASSUME Init PROVE BackieInv
  OBVIOUS
<1>1. \A name \in TaskNames : queue[name] = <<>> /\ Range(queue[name]) = {}
                              /\ DOMAIN queue[name] = {}
  BY RangeOfOne DEF Init, BrokerInit
<1>2. \A w \in Workers : hand[w] = <<>> /\ Range(hand[w]) = {} /\ wpc[w] = "top"
  BY RangeOfOne DEF Init
<1>3. InQueue = {} /\ Held = {}
  <2>1. \A x : x \notin InQueue
    BY <1>1 DEF InQueue
  <2>2. \A x : x \notin Held
    BY <1>2 DEF Held
  <2> QED BY <2>1, <2>2
<1>4. /\ pushes = {} /\ acks = {} /\ pops = {} /\ lost = {} /\ queued = {}
      /\ started = {} /\ done = {}
      /\ sending = [c \in Callers |-> <<>>]
  BY DEF Init, BrokerInit
<1>5. Queued /\ CallerOrder
  BY <1>1 DEF Queued, CallerOrder, IsInjective
<1>6. Hands
  BY <1>2, <1>4 DEF Hands
<1>7. Apart /\ Sent /\ Accounted
  BY <1>3, <1>4 DEF Apart, Sent, Known, Accounted
<1> QED BY <1>5, <1>6, <1>7 DEF BackieInv

LEMMA InvStep ==
    ASSUME TypeOK, BackieInv, [Next]_vars
    PROVE  BackieInv'
<1>0. Queued /\ Hands /\ Apart /\ Sent /\ Accounted /\ CallerOrder
  BY DEF BackieInv
<1>a. ASSUME NEW c \in Callers, CallerStep(c)
      PROVE  BackieInv'
  <2>1. CASE DelayReturns(c)
    BY <2>1, OrderReturns, <1>0, <1>a, CallerInv DEF BackieInv
  <2>2. CASE ~DelayReturns(c)
    <3>1. queue' = queue /\ queued' = queued
      BY <1>a, <2>2 DEF CallerStep, Delay, DelayRaises, PushFails, Report, brokerVars
    <3> QED BY <1>0, <1>a, <3>1, OrderKept, CallerInv DEF BackieInv
  <2> QED BY <2>1, <2>2
<1>b. ASSUME NEW w \in Workers, WorkerStep(w) \/ WorkerCrash(w) \/ WorkerStarts(w)
      PROVE  BackieInv'
  <2>1. queue' = queue /\ queued' = queued
    BY <1>b DEF WorkerStep, Dequeue, Run, RunReturns, RunRaises, PopFails, WorkerCrash,
                WorkerStarts, brokerVars, callerVars
  <2> QED BY <1>0, <1>b, <2>1, OrderKept, WorkerInv DEF BackieInv
<1>c. CASE BrokerStep
  <2>1. ASSUME NEW t \in pushes, Push(t), UNCHANGED <<callerVars, workerVars>>
        PROVE  BackieInv'
    <3>1. queued' = queued
      BY <2>1 DEF callerVars
    <3> QED BY <1>0, <2>1, <3>1, OrderPush, PushInv DEF BackieInv
  <2>2. ASSUME NEW p \in pops, PopAnswered(p)
        PROVE  BackieInv'
    <3>1. Serves[p.worker] \in TaskNames
      BY DEF TypeOK, BrokerTypeOK
    <3>2. /\ queue[Serves[p.worker]] # <<>> /\ queued' = queued
          /\ queue' = [queue EXCEPT ![Serves[p.worker]] = Tail(@)]
      BY <2>2 DEF PopAnswered, Pop, Rest, callerVars
    <3>3. CallerOrder'
      BY <1>0, <3>1, <3>2, OrderPop
    <3> QED BY <1>0, <2>2, <3>3, PopInv DEF BackieInv
  <2>3. ASSUME NEW p \in pops, PopTimesOut(p)
        PROVE  BackieInv'
    <3>1. queue' = queue /\ queued' = queued
      BY <2>3 DEF PopTimesOut, PopNothing, callerVars
    <3> QED BY <1>0, <2>3, <3>1, OrderKept, TimeOutInv DEF BackieInv
  <2>4. CASE BrokerCrash /\ UNCHANGED <<callerVars, workerVars>>
    <3>1. CallerOrder'
      BY <2>4, OrderEmpty DEF BrokerCrash
    <3> QED BY <1>0, <2>4, <3>1, CrashInv DEF BackieInv
  <2> QED BY <1>c, <2>1, <2>2, <2>3, <2>4 DEF BrokerStep, PopFrom
<1>d. CASE UNCHANGED vars
  <2>1. /\ UNCHANGED <<queue, pushes, acks, pops, lost, calls, sending, queued, wpc, hand,
                       started, done>>
    BY <1>d DEF vars, brokerVars, callerVars, workerVars
  <2>2. InQueue' = InQueue /\ Held' = Held /\ Queued' /\ CallerOrder'
    BY <1>0, <2>1, QueuesKept, HeldKept, OrderKept
  <2>3. Known' = Known
    BY <2>1, <2>2 DEF Known
  <2> QED BY <1>0, <2>1, <2>2, <2>3 DEF BackieInv, Hands, Apart, Sent, Accounted
<1> QED BY <1>a, <1>b, <1>c, <1>d DEF Next

LEMMA BackieInvariant == FairSpec => [](TypeOK /\ BackieInv)
<1>1. Init => TypeOK /\ BackieInv
  BY TypeInit, InvInit
<1>2. TypeOK /\ BackieInv /\ [Next]_vars => TypeOK' /\ BackieInv'
  BY TypeStep, InvStep
<1> QED BY <1>1, <1>2, PTL DEF Spec, FairSpec

(* Backie.tla, AtMostOnce: no run of one task twice, whichever LPUSH was     *)
(* executed after its caller gave up and whichever BRPOP after its worker.   *)
THEOREM RunAtMostOnce == FairSpec => []AtMostOnce
<1>1. BackieInv => AtMostOnce
  BY DEF BackieInv, Queued, Hands, Apart, AtMostOnce
<1> QED BY <1>1, BackieInvariant, PTL

(* Backie.tla, NoSilentLoss: a task that delay reported as queued is known   *)
(* to somebody, or was lost in a failure that the code or its operator saw.  *)
THEOREM QueuedIsKept == FairSpec => []NoSilentLoss
<1>1. BackieInv => NoSilentLoss
  BY DEF BackieInv, Accounted, NoSilentLoss
<1> QED BY <1>1, BackieInvariant, PTL

(* Backie.tla, CallerOrder: tasks of a caller that were queued keep the      *)
(* order of their delay calls.                                               *)
THEOREM CallersAreFifo == FairSpec => []CallerOrder
<1>1. BackieInv => CallerOrder
  BY DEF BackieInv
<1> QED BY <1>1, BackieInvariant, PTL

-----------------------------------------------------------------------------
(* Backie implements TaskQueue                                               *)

Gone == Held \cup started \cup lost

LEMMA AbstractStep ==
    ASSUME TypeOK, BackieInv, [Next]_vars
    PROVE  [Abstract!Next]_(Abstract!vars)
<1>0. Queued /\ Hands /\ Apart
  BY DEF BackieInv
<1>1. Abstract!Waiting = InQueue
  BY DEF Abstract!Waiting, Abstract!Range, InQueue, Range
<1>2. ASSUME queue' = queue, Gone' = Gone
      PROVE  UNCHANGED Abstract!vars
  BY <1>2 DEF Gone, Abstract!vars
<1>a. ASSUME NEW c \in Callers, CallerStep(c)
      PROVE  UNCHANGED Abstract!vars
  <2>1. queue' = queue /\ lost' = lost /\ UNCHANGED workerVars
    BY <1>a DEF CallerStep, Delay, DelayRaises, DelayReturns, PushFails, brokerVars
  <2>2. Gone' = Gone
    BY <2>1 DEF Gone, Held, workerVars
  <2> QED BY <1>2, <2>1, <2>2
<1>b. ASSUME NEW w \in Workers, WorkerStep(w) \/ WorkerCrash(w) \/ WorkerStarts(w)
      PROVE  UNCHANGED Abstract!vars
  <2>1. queue' = queue
    BY <1>b DEF WorkerStep, Dequeue, Run, RunReturns, RunRaises, PopFails, WorkerCrash,
                WorkerStarts, brokerVars
  <2>2. Range(hand[w]) \subseteq Held
    BY DEF Held
  <2>3. CASE UNCHANGED <<hand, started, lost>>
    BY <1>2, <2>1, <2>3, HeldKept DEF Gone
  <2>4. CASE Run(w)
    <3>1. /\ hand' = hand /\ lost' = lost /\ started' = started \cup {Head(hand[w])}
          /\ hand[w] # <<>>
      BY <2>4 DEF Run, brokerVars
    <3>2. Gone' = Gone
      BY <1>0, <3>1, InHand, HeldKept DEF Gone
    <3> QED BY <1>2, <2>1, <3>2
  <2>5. ASSUME hand' = [hand EXCEPT ![w] = <<>>], started' = started,
               \/ lost' = lost \cup Range(hand[w])
               \/ lost' = lost /\ Range(hand[w]) \subseteq started
        PROVE  UNCHANGED Abstract!vars
    <3>1. Held' = (Held \ Range(hand[w])) \cup Range(<<>>)
      BY <1>0, <2>5, HandChanges
    <3>2. Held' = Held \ Range(hand[w])
      BY <3>1, RangeOfOne
    <3>3. Gone' = Gone
      BY <2>2, <2>5, <3>2 DEF Gone
    <3> QED BY <1>2, <2>1, <3>3
  <2>6. CASE RunReturns(w)
    <3>1. /\ hand' = [hand EXCEPT ![w] = <<>>] /\ started' = started /\ lost' = lost
          /\ Range(hand[w]) \subseteq started
      BY <1>0, <2>6 DEF RunReturns, brokerVars, Hands
    <3> QED BY <2>5, <3>1
  <2>7. CASE RunRaises(w)
    <3>1. /\ hand' = [hand EXCEPT ![w] = <<>>] /\ started' = started
          /\ lost' = lost \cup {Head(hand[w])} /\ hand[w] # <<>>
      BY <2>7 DEF RunRaises, TypeOK
    <3>2. Range(hand[w]) = {Head(hand[w])}
      BY <1>0, <3>1, InHand
    <3> QED BY <2>5, <3>1, <3>2
  <2>8. CASE PopFails(w) \/ WorkerCrash(w)
    BY <2>5, <2>8 DEF PopFails, WorkerCrash
  <2>9. CASE Dequeue(w) \/ WorkerStarts(w)
    BY <2>3, <2>9 DEF Dequeue, WorkerStarts, brokerVars
  <2> QED BY <1>b, <2>4, <2>6, <2>7, <2>8, <2>9 DEF WorkerStep
<1>c. CASE BrokerStep
  <2>1. ASSUME NEW t \in pushes, Push(t), UNCHANGED <<callerVars, workerVars>>
        PROVE  Abstract!Put(t) /\ t \in Task
    <3>1. t \notin Gone \cup InQueue /\ t \in Task
      BY <1>0 DEF Apart, Gone, TypeOK, BrokerTypeOK
    <3>2. queue' = [queue EXCEPT ![t.name] = Append(@, t)] /\ Gone' = Gone
      BY <2>1, HeldKept DEF Push, Enqueued, workerVars, Gone
    <3> QED BY <1>1, <3>1, <3>2 DEF Abstract!Put, Gone
  <2>2. ASSUME NEW p \in pops, PopAnswered(p)
        PROVE  \E name \in TaskNames : Abstract!Take(name)
    <3> DEFINE name == Serves[p.worker]
               h == Head(queue[name])
    <3>1. p \in [worker : Workers, live : BOOLEAN] /\ name \in TaskNames
      BY DEF TypeOK, BrokerTypeOK
    <3>2. /\ queue[name] # <<>> /\ queue' = [queue EXCEPT ![name] = Tail(@)]
          /\ lost' = IF p.live THEN lost ELSE lost \cup {h}
          /\ hand' = IF p.live THEN [hand EXCEPT ![p.worker] = <<h>>] ELSE hand
          /\ started' = started
      BY <2>2 DEF PopAnswered, Pop, Rest
    <3> HIDE DEF h, name
    <3>3. Gone' = Gone \cup {h}
      <4>1. CASE p.live
        <5>1. p = [worker |-> p.worker, live |-> TRUE]
          BY <3>1, <4>1
        <5>2. p.worker \in Workers /\ hand[p.worker] = <<>>
          BY <1>0, <3>1, <5>1 DEF Hands
        <5>3. Held' = (Held \ Range(hand[p.worker])) \cup Range(<<h>>)
          BY <1>0, <3>2, <4>1, <5>2, HandChanges
        <5>4. Held' = Held \cup {h}
          BY <5>2, <5>3, RangeOfOne
        <5> QED BY <3>2, <4>1, <5>4 DEF Gone
      <4>2. CASE ~p.live
        BY <3>2, <4>2, HeldKept DEF Gone
      <4> QED BY <4>1, <4>2
    <3>4. Abstract!Take(name)
      BY <3>2, <3>3 DEF Abstract!Take, Gone, h
    <3> QED BY <3>1, <3>4
  <2>3. ASSUME NEW p \in pops, PopTimesOut(p)
        PROVE  UNCHANGED Abstract!vars
    <3>1. queue' = queue /\ UNCHANGED <<hand, started, lost>>
      BY <2>3 DEF PopTimesOut, PopNothing
    <3> QED BY <1>2, <3>1, HeldKept DEF Gone
  <2>4. CASE BrokerCrash /\ UNCHANGED <<callerVars, workerVars>>
    <3>1. queue' = [name \in TaskNames |-> <<>>] /\ Gone' = Gone \cup InQueue
      BY <2>4, HeldKept DEF BrokerCrash, InQueue, workerVars, Gone
    <3>2. Abstract!Lose
      BY <1>1, <3>1 DEF Abstract!Lose, Gone
    <3> QED BY <3>2 DEF Abstract!Next
  <2> QED BY <1>c, <2>1, <2>2, <2>3, <2>4 DEF BrokerStep, PopFrom, Abstract!Next
<1>d. CASE UNCHANGED vars
  <2>1. queue' = queue /\ UNCHANGED <<hand, started, lost>>
    BY <1>d DEF vars, brokerVars, workerVars
  <2> QED BY <1>2, <2>1, HeldKept DEF Gone
<1> QED BY <1>a, <1>b, <1>c, <1>d DEF Next

(* Backie.tla, Queues: every behaviour of callers, workers and Redis is one  *)
(* of TaskQueue: a task waits in the queue of its name, leaves it in order   *)
(* of arrival, once, and does not come back.                                 *)
THEOREM ImplementsTaskQueue == FairSpec => Queues
<1>1. Init => Abstract!Init
  <2> SUFFICES ASSUME Init PROVE Abstract!Init
    OBVIOUS
  <2>1. \A w \in Workers : Range(hand[w]) = {}
    BY RangeOfOne DEF Init
  <2>2. Held \cup started \cup lost = {}
    BY <2>1 DEF Init, BrokerInit, Held
  <2> QED BY <2>2 DEF Abstract!Init, Init, BrokerInit
<1>2. TypeOK /\ BackieInv /\ [Next]_vars => [Abstract!Next]_(Abstract!vars)
  BY AbstractStep
<1> QED BY <1>1, <1>2, BackieInvariant, PTL DEF Spec, FairSpec, Queues, Abstract!Spec
=============================================================================
