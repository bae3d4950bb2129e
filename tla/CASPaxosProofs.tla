---------------------------- MODULE CASPaxosProofs ----------------------------
(***************************************************************************)
(* Theorems about CASPaxos, for every odd number of acceptors and any      *)
(* number of proposers, values, ballots and requests.                      *)
(***************************************************************************)
EXTENDS CASPaxos, SequenceTheorems, FiniteSetTheorems, TLAPS

USE PaxosAssumption

(* What each step does to the variables' types.                             *)
LEMMA StepType ==
    ASSUME TypeOK, NEW p \in Proposers, Receive(p) \/ Continue(p)
    PROVE  TypeOK'
<1> USE DEF TypeOK, acceptorVars, callVars, answerVars, Acceptors, Ballots
<1>1. CASE Receive(p)
  BY <1>1 DEF Receive, Draws, Greater
<1>2. CASE CallPrepare(p)
  <2>0. next[p] \in Acceptors /\ ballot[p] \in Ballots
    BY <1>2 DEF CallPrepare
  <2>1. accepted[next[p]] \in Accepted /\ confirmations[p] \in Seq(Accepted)
    BY <2>0
  <2>2. confirmations' \in [Proposers -> Seq(Accepted)]
    <3>1. Append(confirmations[p], accepted[next[p]]) \in Seq(Accepted)
      BY <2>1, AppendProperties
    <3> QED BY <1>2, <3>1 DEF CallPrepare
  <2>3. promise' \in [Acceptors -> Ballots \cup {0}]
    BY <1>2, <2>0 DEF CallPrepare
  <2>4. confirmed' \in [Acceptors -> Ballots \cup {0}]
    BY <1>2, <2>0 DEF CallPrepare, Confirm, Greater
  <2>5. next' \in [Proposers -> 1..(N + 1)]
    BY <1>2 DEF CallPrepare
  <2> QED BY <1>2, <2>2, <2>3, <2>4, <2>5 DEF CallPrepare
<1>3. CASE StartAccept(p)
  <2>1. <<>> \in Seq(Accepted)
    BY EmptySeq
  <2>2. confirmations' \in [Proposers -> Seq(Accepted)]
    BY <1>3, <2>1 DEF StartAccept
  <2>3. /\ pc' = [pc EXCEPT ![p] = "accepting"]
        /\ next' = [next EXCEPT ![p] = 1]
        /\ acceptations' = [acceptations EXCEPT ![p] = 0]
        /\ pc[p] = "preparing"
    BY <1>3 DEF StartAccept, Prepared
  <2> QED BY <1>3, <2>2, <2>3 DEF StartAccept
<1>4. CASE ReceiveRaises(p)
  BY <1>4, EmptySeq DEF ReceiveRaises, End
<1>5. CASE CallAccept(p)
  <2>0. next[p] \in Acceptors /\ ballot[p] \in Ballots /\ request[p] \in Values
    BY <1>5 DEF CallAccept
  <2>1. promise' \in [Acceptors -> Ballots \cup {0}]
    BY <1>5 DEF CallAccept, Forgets
  <2>2. accepted' \in [Acceptors -> Accepted]
    <3>1. [value |-> request[p], ballot |-> ballot[p]] \in Accepted
      BY <2>0 DEF Accepted
    <3> QED BY <1>5, <3>1 DEF CallAccept
  <2>3. confirmed' \in [Acceptors -> Ballots \cup {0}]
    BY <1>5, <2>0 DEF CallAccept, Confirm, Greater
  <2>4. next' = [next EXCEPT ![p] = next[p] + 1] /\ next[p] <= N
    BY <1>5 DEF CallAccept
  <2>5. acceptations' \in [Proposers -> 0..N] /\ acceptations'[p] < next'[p]
    <3>1. acceptations[p] < next[p] /\ acceptations[p] \in Nat /\ next[p] \in Nat
      BY <1>5 DEF CallAccept
    <3> QED BY <1>5, <2>4, <3>1 DEF CallAccept
  <2>6. next' \in [Proposers -> 1..(N + 1)]
    BY <2>4
  <2> QED BY <1>5, <2>1, <2>2, <2>3, <2>4, <2>5, <2>6 DEF CallAccept
<1>6. CASE Return(p)
  BY <1>6, EmptySeq DEF Return, End, Greater, Answer
<1> QED BY <1>1, <1>2, <1>3, <1>4, <1>5, <1>6 DEF Continue

(* Every variable keeps its type; a proposer past its prepare phase has a   *)
(* drawn ballot, and more calls than confirmations.                         *)
THEOREM TypeCorrect == Spec => []TypeOK
<1>1. Init => TypeOK
  BY EmptySeq DEF Init, TypeOK, Accepted, Acceptors, Ballots
<1>2. TypeOK /\ [Next]_vars => TypeOK'
  <2> SUFFICES ASSUME TypeOK, [Next]_vars PROVE TypeOK'
    OBVIOUS
  <2>1. CASE Next
    BY <2>1, StepType DEF Next
  <2>2. CASE UNCHANGED vars
    BY <2>2 DEF vars, acceptorVars, callVars, answerVars, TypeOK
  <2> QED BY <2>1, <2>2
<1> QED BY <1>1, <1>2, PTL DEF Spec

-----------------------------------------------------------------------------
(* accept forgets the promise, and is right to: ResetIsSafe is inductive.   *)
THEOREM ForgettingIsSafe == Spec => []ResetIsSafe
<1>1. Init => ResetIsSafe
  BY DEF Init, ResetIsSafe, Greater
<1>2. TypeOK /\ ResetIsSafe /\ [Next]_vars => ResetIsSafe'
  <2> SUFFICES ASSUME TypeOK, ResetIsSafe, [Next]_vars PROVE ResetIsSafe'
    OBVIOUS
  <2>1. CASE UNCHANGED acceptorVars
    BY <2>1 DEF ResetIsSafe, acceptorVars
  <2>2. ASSUME NEW p \in Proposers, CallPrepare(p) \/ CallAccept(p), ~ UNCHANGED acceptorVars
        PROVE  ResetIsSafe'
    <3> DEFINE b == ballot[p]
    <3>0. next[p] \in Acceptors /\ b \in Nat
      BY <2>2 DEF CallPrepare, CallAccept, TypeOK, Acceptors, Ballots
    <3>1. \A a \in Acceptors : promise[a] \in Nat /\ accepted[a].ballot \in Nat
      BY DEF TypeOK, Accepted, Ballots
    <3>2. CASE CallPrepare(p)
      <4>1. /\ promise[next[p]] <= b
            /\ promise' = [promise EXCEPT ![next[p]] = b]
            /\ confirmed' = [confirmed EXCEPT ![next[p]] = Greater(@, b)]
            /\ accepted' = accepted
        BY <2>2, <3>2 DEF CallPrepare, Prepares, Confirm, acceptorVars
      <4> QED BY <3>0, <3>1, <4>1 DEF ResetIsSafe, Greater, TypeOK
    <3>3. CASE CallAccept(p)
      <4>1. /\ promise[next[p]] <= b /\ accepted[next[p]].ballot <= b
            /\ promise' = [promise EXCEPT ![next[p]] = 0]
            /\ confirmed' = [confirmed EXCEPT ![next[p]] = Greater(@, b)]
            /\ accepted' = [accepted EXCEPT
                              ![next[p]] = [value |-> request[p], ballot |-> b]]
        BY <2>2, <3>3 DEF CallAccept, Accepts, Forgets, Confirm, acceptorVars
      <4>2. \A a \in Acceptors :
              accepted'[a].ballot = IF a = next[p] THEN b ELSE accepted[a].ballot
        BY <4>1 DEF TypeOK
      <4> QED BY <3>0, <3>1, <4>1, <4>2 DEF ResetIsSafe, Greater, TypeOK
    <3> QED BY <2>2, <3>2, <3>3
  <2>3. CASE Next
    <3>1. PICK p \in Proposers : Receive(p) \/ Continue(p)
      BY <2>3 DEF Next
    <3>2. Receive(p) \/ StartAccept(p) \/ ReceiveRaises(p) \/ Return(p)
             => UNCHANGED acceptorVars
      BY DEF Receive, StartAccept, ReceiveRaises, Return
    <3> QED BY <2>1, <2>2, <3>1, <3>2 DEF Continue
  <2>4. CASE UNCHANGED vars
    BY <2>1, <2>4 DEF vars
  <2> QED BY <2>3, <2>4
<1> QED BY <1>1, <1>2, TypeCorrect, PTL DEF Spec

-----------------------------------------------------------------------------
(* Majorities                                                               *)

Majority(S) == 2 * Cardinality(S) > N

(* The acceptors whose accepted ballot is at least b.                       *)
Kept(b) == {a \in Acceptors : accepted[a].ballot >= b}

(* Sets of acceptors are finite.                                            *)
LEMMA AcceptorsFinite ==
    ASSUME NEW S \in SUBSET Acceptors
    PROVE  IsFiniteSet(S) /\ Cardinality(S) \in Nat /\ Cardinality(S) <= N
<1>1. IsFiniteSet(Acceptors) /\ Cardinality(Acceptors) = N
  BY FS_Interval DEF Acceptors
<1> QED BY <1>1, FS_Subset, FS_CardinalityType

(* A larger set has at least as many members.                               *)
LEMMA LargerSet ==
    ASSUME NEW T \in SUBSET Acceptors, NEW S \in SUBSET T
    PROVE  Cardinality(S) <= Cardinality(T) /\ (Majority(S) => Majority(T))
<1>1. IsFiniteSet(T) /\ S \in SUBSET Acceptors
  BY AcceptorsFinite
<1>2. Cardinality(S) <= Cardinality(T)
  BY <1>1, FS_Subset
<1>3. Cardinality(S) \in Nat /\ Cardinality(T) \in Nat
  BY <1>1, AcceptorsFinite
<1> QED BY <1>2, <1>3 DEF Majority

(* One acceptor more counts for one if it is a member, and else for nothing. *)
LEMMA NextOfPrefix ==
    ASSUME NEW S \in SUBSET Acceptors, NEW a \in Acceptors
    PROVE  Cardinality(S \cap 1..a)
             = Cardinality(S \cap 1..(a - 1)) + (IF a \in S THEN 1 ELSE 0)
<1> DEFINE L == S \cap 1..(a - 1)
<1>1. a \in Nat \ {0}
  BY DEF Acceptors
<1>2. IsFiniteSet(L) /\ Cardinality(L) \in Nat
  BY AcceptorsFinite
<1>3. a \notin L /\ 1..a = 1..(a - 1) \cup {a}
  BY <1>1
<1>4. CASE a \in S
  <2>1. S \cap 1..a = L \cup {a}
    BY <1>3, <1>4
  <2> QED BY <2>1, <1>2, <1>3, <1>4, FS_AddElement
<1>5. CASE a \notin S
  <2>1. S \cap 1..a = L
    BY <1>3, <1>5
  <2> QED BY <2>1, <1>2, <1>5
<1> QED BY <1>4, <1>5

(* F + 1 of 2F + 1 are a majority.                                          *)
LEMMA EnoughIsMajority ==
    ASSUME NEW n \in Nat, Enough(n)
    PROVE  2 * n > N
BY OddAssumption DEF Enough, F

(* The ballot an acceptor has accepted never decreases.                     *)
LEMMA BallotsGrow ==
    ASSUME TypeOK, [Next]_vars, NEW a \in Acceptors
    PROVE  accepted'[a].ballot >= accepted[a].ballot
<1>1. accepted[a].ballot \in Nat
  BY DEF TypeOK, Accepted, Ballots
<1>2. ASSUME NEW p \in Proposers, CallAccept(p), accepted' # accepted
      PROVE  accepted'[a].ballot >= accepted[a].ballot
  <2>1. /\ accepted[next[p]].ballot <= ballot[p]
        /\ accepted' = [accepted EXCEPT
                          ![next[p]] = [value |-> request[p], ballot |-> ballot[p]]]
    BY <1>2 DEF CallAccept, Accepts, acceptorVars
  <2>2. accepted'[a].ballot = IF a = next[p] THEN ballot[p] ELSE accepted[a].ballot
    BY <2>1 DEF TypeOK
  <2> QED BY <1>1, <2>1, <2>2
<1>3. ASSUME NEW p \in Proposers,
             Receive(p) \/ CallPrepare(p) \/ StartAccept(p) \/ ReceiveRaises(p) \/ Return(p)
      PROVE  accepted' = accepted
  BY <1>3 DEF Receive, CallPrepare, StartAccept, ReceiveRaises, Return, acceptorVars
<1>4. UNCHANGED vars => accepted' = accepted
  BY DEF vars, acceptorVars
<1>5. CASE accepted' = accepted
  BY <1>1, <1>5
<1> QED BY <1>2, <1>3, <1>4, <1>5 DEF Next, Continue

(* So the acceptors that keep a ballot stay, and so does a majority of them. *)
LEMMA KeptGrows ==
    ASSUME TypeOK, [Next]_vars, NEW b \in Nat
    PROVE  /\ Kept(b) \subseteq Kept(b)'
           /\ Majority(Kept(b)) => Majority(Kept(b)')
<1>1. \A a \in Acceptors : accepted[a].ballot \in Nat
  BY DEF TypeOK, Accepted, Ballots
<1>2. TypeOK'
  <2>1. CASE Next
    BY <2>1, StepType DEF Next
  <2>2. CASE UNCHANGED vars
    BY <2>2 DEF vars, acceptorVars, callVars, answerVars, TypeOK
  <2> QED BY <2>1, <2>2
<1>3. \A a \in Acceptors : accepted'[a].ballot \in Nat
  BY <1>2 DEF TypeOK, Accepted, Ballots
<1>4. \A a \in Acceptors : accepted'[a].ballot >= accepted[a].ballot
  BY BallotsGrow
<1>5. Kept(b) \subseteq Kept(b)'
  BY <1>1, <1>3, <1>4 DEF Kept
<1>6. Kept(b)' \subseteq Acceptors
  BY DEF Kept
<1> QED BY <1>5, <1>6, LargerSet

-----------------------------------------------------------------------------
(* An accept call that is confirmed leaves its ballot with its acceptor: a   *)
(* proposer has no more confirmations than acceptors that keep its ballot,  *)
(* among those it has called.                                               *)
Counted(p) ==
    pc[p] = "accepting" =>
        acceptations[p] <= Cardinality(Kept(ballot[p]) \cap 1..(next[p] - 1))

KeptInv ==
    /\ \A p \in Proposers : Counted(p)
    /\ \A r \in answers : Majority(Kept(r.ballot))
    /\ Majority(Kept(answered))

(* The accept calls keep the count.                                         *)
LEMMA CallIsCounted ==
    ASSUME TypeOK, NEW p \in Proposers, CallAccept(p), Counted(p)
    PROVE  Counted(p)'
<1>1. PICK b \in Nat : ballot[p] = b /\ ballot'[p] = b
  BY DEF CallAccept, TypeOK, callVars, Ballots
<1>2. PICK a \in Acceptors : next[p] = a /\ next'[p] = a + 1 /\ a \in Nat
  BY DEF CallAccept, TypeOK, Acceptors
<1> DEFINE K == Kept(b)
           M == Kept(b)'
<1>3. K \subseteq Acceptors /\ M \subseteq Acceptors
  BY DEF Kept
<1>4. K \subseteq M
  <2>1. [Next]_vars
    BY DEF Next, Continue
  <2> QED BY <2>1, KeptGrows
<1>5. acceptations[p] <= Cardinality(K \cap 1..(a - 1)) /\ acceptations[p] \in Nat
  BY <1>1, <1>2 DEF Counted, CallAccept, TypeOK
<1>6. acceptations'[p] = acceptations[p] \/ (acceptations'[p] = acceptations[p] + 1 /\ a \in M)
  <2>1. CASE Accepts(a, b)
    <3>1. /\ accepted' = [accepted EXCEPT ![a] = [value |-> request[p], ballot |-> b]]
          /\ acceptations' = [acceptations EXCEPT ![p] = @ + 1]
      BY <1>1, <1>2, <2>1 DEF CallAccept
    <3>2. accepted'[a].ballot = b
      BY <3>1 DEF TypeOK
    <3> QED BY <3>1, <3>2 DEF Kept, TypeOK
  <2>2. CASE ~ Accepts(a, b)
    BY <1>1, <1>2, <2>2 DEF CallAccept
  <2> QED BY <2>1, <2>2
<1>7. Cardinality(K \cap 1..(a - 1)) <= Cardinality(M \cap 1..(a - 1))
  <2>1. K \cap 1..(a - 1) \in SUBSET (M \cap 1..(a - 1)) /\ M \cap 1..(a - 1) \in SUBSET Acceptors
    BY <1>3, <1>4
  <2> QED BY <2>1, LargerSet
<1>8. Cardinality(M \cap 1..a) = Cardinality(M \cap 1..(a - 1)) + (IF a \in M THEN 1 ELSE 0)
  BY <1>3, NextOfPrefix
<1>9. /\ Cardinality(K \cap 1..(a - 1)) \in Nat
      /\ Cardinality(M \cap 1..(a - 1)) \in Nat
      /\ Cardinality(M \cap 1..a) \in Nat
  <2>1. /\ K \cap 1..(a - 1) \in SUBSET Acceptors
        /\ M \cap 1..(a - 1) \in SUBSET Acceptors
        /\ M \cap 1..a \in SUBSET Acceptors
    BY <1>3
  <2> QED BY <2>1, AcceptorsFinite
<1> HIDE DEF K
<1>10. acceptations'[p] <= Cardinality(M \cap 1..a)
  <2> HIDE DEF M
  <2> QED BY <1>5, <1>6, <1>7, <1>8, <1>9
<1>11. M = Kept(ballot[p])' /\ 1..a = 1..(next'[p] - 1)
  BY <1>1, <1>2 DEF Kept
<1> QED BY <1>10, <1>11 DEF Counted

(* A proposer that does nothing keeps its count, whatever others do.        *)
LEMMA OthersCounted ==
    ASSUME TypeOK, [Next]_vars, NEW q \in Proposers, Counted(q),
           pc'[q] = "accepting" => pc[q] = "accepting",
           acceptations'[q] = acceptations[q], next'[q] = next[q], ballot'[q] = ballot[q]
    PROVE  Counted(q)'
<1> SUFFICES ASSUME pc'[q] = "accepting"
             PROVE  acceptations[q] <= Cardinality(Kept(ballot[q])' \cap 1..(next[q] - 1))
  BY DEF Counted, Kept
<1>1. PICK b \in Nat : ballot[q] = b /\ ballot'[q] = b
  BY DEF TypeOK, Ballots
<1> DEFINE K == Kept(b) \cap 1..(next[q] - 1)
           M == Kept(b)' \cap 1..(next[q] - 1)
<1>2. K \in SUBSET M /\ M \in SUBSET Acceptors
  BY KeptGrows DEF Kept
<1>3. Cardinality(K) <= Cardinality(M) /\ Cardinality(K) \in Nat /\ Cardinality(M) \in Nat
  BY <1>2, LargerSet, AcceptorsFinite
<1>4. acceptations[q] <= Cardinality(K) /\ acceptations[q] \in Nat
  BY <1>1 DEF Counted, TypeOK
<1>5. M = Kept(ballot[q])' \cap 1..(next[q] - 1)
  BY <1>1 DEF Kept
<1> HIDE DEF K, M
<1>6. acceptations[q] <= Cardinality(M)
  BY <1>3, <1>4
<1> QED BY <1>5, <1>6

(* The step that answers has a majority that keeps its ballot.              *)
LEMMA AnswerKept ==
    ASSUME TypeOK, NEW p \in Proposers, Return(p), Counted(p)
    PROVE  Majority(Kept(ballot[p]))
<1>1. next[p] - 1 = N /\ acceptations[p] \in Nat /\ 2 * acceptations[p] > N
  BY EnoughIsMajority DEF Return, TypeOK
<1>2. Kept(ballot[p]) \cap 1..N = Kept(ballot[p])
  BY DEF Kept, Acceptors
<1>3. acceptations[p] <= Cardinality(Kept(ballot[p]))
  BY <1>1, <1>2 DEF Counted, Return
<1>4. Cardinality(Kept(ballot[p])) \in Nat
  BY AcceptorsFinite DEF Kept
<1> QED BY <1>1, <1>3, <1>4 DEF Majority

(* The count and the majorities are kept by every step.                     *)
LEMMA KeptStep == TypeOK /\ KeptInv /\ [Next]_vars => KeptInv'
<1> SUFFICES ASSUME TypeOK, KeptInv, [Next]_vars PROVE KeptInv'
  OBVIOUS
<1>1. TypeOK'
  BY StepType DEF Next, vars, acceptorVars, callVars, answerVars, TypeOK
<1>2. ASSUME NEW b \in Nat, Majority(Kept(b)) PROVE Majority(Kept(b)')
  BY <1>2, KeptGrows
<1>3. ASSUME NEW q \in Proposers PROVE Counted(q)'
  <2>1. Counted(q)
    BY DEF KeptInv
  <2>2. CASE \E p \in Proposers : CallAccept(p)
    <3>1. PICK p \in Proposers : CallAccept(p)
      BY <2>2
    <3>2. CASE p = q
      BY <2>1, <3>1, <3>2, CallIsCounted
    <3>3. CASE p # q
      <4>1. /\ pc' = pc /\ ballot' = ballot
            /\ acceptations'[q] = acceptations[q] /\ next'[q] = next[q]
        BY <3>1, <3>3 DEF CallAccept, callVars, TypeOK
      <4> QED BY <2>1, <4>1, OthersCounted
    <3> QED BY <3>2, <3>3
  <2>3. CASE \E p \in Proposers : StartAccept(p)
    <3>1. PICK p \in Proposers : StartAccept(p)
      BY <2>3
    <3>2. CASE p = q
      <4>1. acceptations'[q] = 0 /\ next'[q] = 1
        BY <3>1, <3>2 DEF StartAccept, TypeOK
      <4>2. Kept(ballot[q])' \cap 1..0 = {}
        OBVIOUS
      <4>3. Cardinality(Kept(ballot[q])' \cap 1..0) = 0
        BY <4>2, FS_EmptySet
      <4> QED BY <4>1, <4>3 DEF Counted
    <3>3. CASE p # q
      <4>1. /\ pc'[q] = pc[q] /\ ballot' = ballot
            /\ acceptations'[q] = acceptations[q] /\ next'[q] = next[q]
        BY <3>1, <3>3 DEF StartAccept, callVars, TypeOK
      <4> QED BY <2>1, <4>1, OthersCounted
    <3> QED BY <3>2, <3>3
  <2>4. ASSUME NEW p \in Proposers,
               Receive(p) \/ CallPrepare(p) \/ ReceiveRaises(p) \/ Return(p)
        PROVE  Counted(q)'
    <3>1. CASE p = q
      <4>1. pc'[q] # "accepting"
        BY <2>4, <3>1 DEF Receive, CallPrepare, ReceiveRaises, Return, End, TypeOK
      <4> QED BY <4>1 DEF Counted
    <3>2. CASE p # q
      <4>1. /\ pc'[q] = pc[q] /\ ballot'[q] = ballot[q]
            /\ acceptations'[q] = acceptations[q] /\ next'[q] = next[q]
        BY <2>4, <3>2
           DEF Receive, CallPrepare, ReceiveRaises, Return, End, callVars, TypeOK
      <4> QED BY <2>1, <4>1, OthersCounted
    <3> QED BY <3>1, <3>2
  <2>5. CASE UNCHANGED vars
    BY <2>1, <2>5, OthersCounted DEF vars, callVars
  <2> QED BY <2>2, <2>3, <2>4, <2>5 DEF Next, Continue
<1>4. \A r \in answers : r.ballot \in Nat /\ Majority(Kept(r.ballot)')
  BY <1>2 DEF KeptInv, TypeOK, Answer, Ballots
<1>5. PICK last \in Nat : last = answered /\ Majority(Kept(last)')
  <2>1. PICK b \in Nat : b = answered
    BY DEF TypeOK, Ballots
  <2>2. Majority(Kept(b))
    BY <2>1 DEF KeptInv
  <2> QED BY <1>2, <2>1, <2>2 DEF Kept
<1>6. /\ \A r \in answers' : Majority(Kept(r.ballot)')
      /\ Majority(Kept(answered)')
  <2>1. CASE \E p \in Proposers : Return(p)
    <3>1. PICK p \in Proposers : Return(p)
      BY <2>1
    <3>2. PICK b \in Nat : b = ballot[p]
      BY DEF TypeOK, Ballots
    <3>3. Majority(Kept(b)')
      <4>1. Counted(p) /\ Kept(ballot[p]) = Kept(b)
        BY <3>2 DEF KeptInv
      <4> QED BY <1>2, <3>1, <4>1, AnswerKept
    <3>4. \A r \in answers' : r \in answers \/ r.ballot = b
      BY <3>1, <3>2 DEF Return
    <3>5. answered' = answered \/ answered' = b
      BY <3>1, <3>2 DEF Return, Greater
    <3> QED BY <1>4, <1>5, <3>3, <3>4, <3>5 DEF Kept
  <2>2. CASE UNCHANGED answerVars
    BY <1>4, <1>5, <2>2 DEF answerVars, Kept
  <2>3. ASSUME NEW p \in Proposers,
               Receive(p) \/ CallPrepare(p) \/ StartAccept(p) \/ ReceiveRaises(p) \/ CallAccept(p)
        PROVE  UNCHANGED answerVars
    BY <2>3 DEF Receive, CallPrepare, StartAccept, ReceiveRaises, CallAccept, answerVars
  <2>4. UNCHANGED vars => UNCHANGED answerVars
    BY DEF vars
  <2> QED BY <2>1, <2>2, <2>3, <2>4 DEF Next, Continue
<1> QED BY <1>3, <1>6 DEF KeptInv

(* Before anything is answered every acceptor keeps the ballot 0.           *)
LEMMA KeptInit == Init => KeptInv
<1> SUFFICES ASSUME Init PROVE KeptInv
  OBVIOUS
<1>1. Kept(answered) = Acceptors
  BY DEF Init, Kept
<1>2. Cardinality(Acceptors) = N
  BY FS_Interval DEF Acceptors
<1> QED BY <1>1, <1>2 DEF Init, KeptInv, Counted, Majority

(* An answered ballot stays with a majority of the acceptors.               *)
THEOREM MajorityKeeps == Spec => []KeptByMajority
<1>1. KeptInv => KeptByMajority
  BY DEF KeptInv, KeptByMajority, Majority, Kept
<1> QED BY <1>1, KeptInit, KeptStep, TypeCorrect, PTL DEF Spec

-----------------------------------------------------------------------------
(* A request received after an answer meets a majority that keeps the       *)
(* answered ballot; if its own ballot is smaller, none of these confirms.   *)
Refused(p) ==
    pc[p] # "idle" =>
        \E Q \in SUBSET Kept(after[p]) :
            /\ Majority(Q)
            /\ pc[p] = "accepting" /\ ballot[p] < after[p] =>
                 acceptations[p] + Cardinality(Q \cap 1..(next[p] - 1)) < next[p]

(* A confirmed accept call is not one of these acceptors'.                   *)
LEMMA CallIsRefused ==
    ASSUME TypeOK, NEW p \in Proposers, CallAccept(p), Refused(p)
    PROVE  Refused(p)'
<1>1. PICK b \in Nat : after[p] = b /\ after'[p] = b
  BY DEF CallAccept, TypeOK, callVars, Ballots
<1>2. PICK a \in Acceptors : next[p] = a /\ next'[p] = a + 1 /\ a \in Nat
  BY DEF CallAccept, TypeOK, Acceptors
<1>3. /\ ballot[p] \in Nat /\ ballot'[p] = ballot[p]
      /\ pc[p] = "accepting" /\ acceptations[p] \in Nat
  BY DEF CallAccept, callVars, TypeOK, Ballots
<1>4. PICK Q \in SUBSET Kept(b) :
           /\ Majority(Q)
           /\ ballot[p] < b => acceptations[p] + Cardinality(Q \cap 1..(a - 1)) < a
  BY <1>1, <1>2, <1>3 DEF Refused
<1>5. Q \in SUBSET Acceptors
  BY <1>4 DEF Kept
<1>6. Q \in SUBSET Kept(b)'
  <2>1. [Next]_vars
    BY DEF Next, Continue
  <2> QED BY <1>4, <2>1, KeptGrows
<1>7. ASSUME ballot[p] < b
      PROVE  acceptations'[p] + Cardinality(Q \cap 1..a) < a + 1
  <2>1. /\ Cardinality(Q \cap 1..a)
              = Cardinality(Q \cap 1..(a - 1)) + (IF a \in Q THEN 1 ELSE 0)
        /\ Cardinality(Q \cap 1..(a - 1)) \in Nat
    <3>1. Q \cap 1..(a - 1) \in SUBSET Acceptors
      BY <1>5
    <3> QED BY <1>5, <3>1, NextOfPrefix, AcceptorsFinite
  <2>2. CASE Accepts(a, ballot[p])
    <3>1. a \notin Q
      <4>1. accepted[a].ballot <= ballot[p] /\ accepted[a].ballot \in Nat
        BY <2>2 DEF Accepts, TypeOK, Accepted, Ballots
      <4>2. ~ (accepted[a].ballot >= b)
        BY <1>3, <1>7, <4>1
      <4> QED BY <1>4, <4>2 DEF Kept
    <3>2. acceptations'[p] = acceptations[p] + 1
      BY <1>2, <2>2 DEF CallAccept, TypeOK
    <3> QED BY <1>2, <1>3, <1>4, <1>7, <2>1, <3>1, <3>2
  <2>3. CASE ~ Accepts(a, ballot[p])
    <3>1. acceptations'[p] = acceptations[p]
      BY <1>2, <2>3 DEF CallAccept
    <3> QED BY <1>2, <1>3, <1>4, <1>7, <2>1, <3>1
  <2> QED BY <2>2, <2>3
<1>8. 1..(next'[p] - 1) = 1..a
  BY <1>2
<1>9. Q \in SUBSET Kept(after[p])'
  BY <1>1, <1>6 DEF Kept
<1>10. ballot'[p] < after'[p] =>
         acceptations'[p] + Cardinality(Q \cap 1..(next'[p] - 1)) < next'[p]
  BY <1>1, <1>2, <1>3, <1>7, <1>8
<1> QED BY <1>4, <1>9, <1>10 DEF Refused, Majority

(* A proposer that does nothing, or goes on to another phase.               *)
LEMMA OthersRefused ==
    ASSUME TypeOK, [Next]_vars, NEW q \in Proposers, Refused(q),
           pc[q] # "idle", after'[q] = after[q],
           \/ pc'[q] # "accepting"
           \/ /\ pc'[q] = pc[q] /\ ballot'[q] = ballot[q]
              /\ acceptations'[q] = acceptations[q] /\ next'[q] = next[q]
           \/ acceptations'[q] = 0 /\ next'[q] = 1
    PROVE  Refused(q)'
<1>1. PICK b \in Nat : after[q] = b /\ after'[q] = b
  BY DEF TypeOK, Ballots
<1>2. PICK Q \in SUBSET Kept(b) :
           /\ Majority(Q)
           /\ pc[q] = "accepting" /\ ballot[q] < b =>
                acceptations[q] + Cardinality(Q \cap 1..(next[q] - 1)) < next[q]
  BY <1>1 DEF Refused
<1>3. Q \in SUBSET Kept(after[q])'
  <2>1. Kept(b) \subseteq Kept(b)'
    BY KeptGrows
  <2> QED BY <1>1, <1>2, <2>1 DEF Kept
<1>4. ASSUME pc'[q] = "accepting", ballot'[q] < after'[q]
      PROVE  acceptations'[q] + Cardinality(Q \cap 1..(next'[q] - 1)) < next'[q]
  <2>1. CASE acceptations'[q] = 0 /\ next'[q] = 1
    <3>1. Q \cap 1..(1 - 1) = {}
      OBVIOUS
    <3> QED BY <2>1, <3>1, FS_EmptySet
  <2>2. CASE /\ pc'[q] = pc[q] /\ ballot'[q] = ballot[q]
             /\ acceptations'[q] = acceptations[q] /\ next'[q] = next[q]
    BY <1>1, <1>2, <1>4, <2>2
  <2> QED BY <1>4, <2>1, <2>2
<1> QED BY <1>2, <1>3, <1>4 DEF Refused, Majority

(* So a smaller ballot never gets F + 1 confirmations.                      *)
LEMMA AnswerIsNotStale ==
    ASSUME TypeOK, NEW p \in Proposers, Return(p), Refused(p)
    PROVE  ballot[p] >= after[p]
<1>1. /\ next[p] = N + 1 /\ pc[p] = "accepting"
      /\ acceptations[p] \in Nat /\ 2 * acceptations[p] > N
      /\ ballot[p] \in Nat /\ after[p] \in Nat
  BY EnoughIsMajority DEF Return, TypeOK, Ballots
<1>2. ASSUME ballot[p] < after[p]
      PROVE  FALSE
  <2>1. PICK Q \in SUBSET Kept(after[p]) :
             /\ Majority(Q)
             /\ acceptations[p] + Cardinality(Q \cap 1..(next[p] - 1)) < next[p]
    BY <1>1, <1>2 DEF Refused
  <2>2. Q \in SUBSET Acceptors
    BY <2>1 DEF Kept
  <2>3. Q \cap 1..(next[p] - 1) = Q
    <3>1. next[p] - 1 = N
      BY <1>1
    <3>2. Q \cap 1..N = Q
      BY <2>2 DEF Acceptors
    <3> QED BY <3>1, <3>2
  <2>4. acceptations[p] + Cardinality(Q) < N + 1 /\ Cardinality(Q) \in Nat
    BY <1>1, <2>1, <2>2, <2>3, AcceptorsFinite
  <2>5. 2 * Cardinality(Q) > N
    BY <2>1 DEF Majority
  <2> QED BY <1>1, <2>4, <2>5
<1> QED BY <1>1, <1>2

(* And so are the refusing majority and the order of answers.               *)
LEMMA RefusedStep ==
    TypeOK /\ KeptInv /\ (\A p \in Proposers : Refused(p)) /\ NoStaleAnswer /\ [Next]_vars
      => (\A p \in Proposers : Refused(p))' /\ NoStaleAnswer'
<1> SUFFICES ASSUME TypeOK, KeptInv, \A p \in Proposers : Refused(p), NoStaleAnswer,
                    [Next]_vars
             PROVE  (\A p \in Proposers : Refused(p)') /\ NoStaleAnswer'
  OBVIOUS
<1>1. ASSUME NEW q \in Proposers PROVE Refused(q)'
  <2>0. Refused(q)
    OBVIOUS
  <2>1. CASE pc'[q] = "idle"
    BY <2>1 DEF Refused
  <2>2. CASE Receive(q)
    <3>1. PICK b \in Nat : b = answered
      BY DEF TypeOK, Ballots
    <3>2. after'[q] = b /\ pc'[q] = "preparing"
      BY <2>2, <3>1 DEF Receive, TypeOK
    <3>3. Majority(Kept(b)) /\ Kept(b)' = Kept(after[q])'
      BY <3>1, <3>2 DEF KeptInv, Kept
    <3>4. Majority(Kept(b)')
      BY <3>3, KeptGrows
    <3>5. Kept(after[q])' \in SUBSET Kept(after[q])' /\ Majority(Kept(after[q])')
      BY <3>3, <3>4
    <3> QED BY <3>2, <3>5 DEF Refused, Majority
  <2>3. CASE CallAccept(q)
    BY <2>0, <2>3, CallIsRefused
  <2>4. CASE CallPrepare(q)
    <3>1. pc[q] # "idle" /\ after' = after /\ pc'[q] # "accepting"
      BY <2>4 DEF CallPrepare, callVars
    <3> QED BY <2>0, <3>1, OthersRefused
  <2>5. CASE StartAccept(q)
    <3>1. pc[q] # "idle" /\ after' = after /\ acceptations'[q] = 0 /\ next'[q] = 1
      BY <2>5 DEF StartAccept, Prepared, callVars, TypeOK
    <3> QED BY <2>0, <3>1, OthersRefused
  <2>6. CASE ReceiveRaises(q) \/ Return(q)
    <3>1. pc'[q] = "idle"
      BY <2>6 DEF ReceiveRaises, Return, End, TypeOK
    <3> QED BY <2>1, <3>1
  <2>7. ASSUME NEW p \in Proposers, p # q, Receive(p) \/ Continue(p)
        PROVE  /\ pc'[q] = pc[q] /\ ballot'[q] = ballot[q] /\ after'[q] = after[q]
               /\ acceptations'[q] = acceptations[q] /\ next'[q] = next[q]
    BY <2>7 DEF Receive, Continue, CallPrepare, StartAccept, ReceiveRaises, CallAccept,
                Return, End, callVars, TypeOK
  <2>8. CASE /\ pc'[q] = pc[q] /\ ballot'[q] = ballot[q] /\ after'[q] = after[q]
             /\ acceptations'[q] = acceptations[q] /\ next'[q] = next[q]
    BY <2>0, <2>1, <2>8, OthersRefused
  <2>9. CASE UNCHANGED vars
    BY <2>8, <2>9 DEF vars, callVars
  <2> QED BY <2>2, <2>3, <2>4, <2>5, <2>6, <2>7, <2>8, <2>9 DEF Next, Continue
<1>2. NoStaleAnswer'
  <2>1. CASE answers' = answers
    BY <2>1 DEF NoStaleAnswer
  <2>2. ASSUME NEW p \in Proposers, Return(p) PROVE NoStaleAnswer'
    <3>1. ballot[p] >= after[p]
      BY <2>2, AnswerIsNotStale
    <3> QED BY <2>2, <3>1 DEF Return, NoStaleAnswer
  <2>3. ASSUME NEW p \in Proposers,
               Receive(p) \/ CallPrepare(p) \/ StartAccept(p) \/ ReceiveRaises(p) \/ CallAccept(p)
        PROVE  answers' = answers
    BY <2>3 DEF Receive, CallPrepare, StartAccept, ReceiveRaises, CallAccept, answerVars
  <2>4. UNCHANGED vars => answers' = answers
    BY DEF vars, answerVars
  <2> QED BY <2>1, <2>2, <2>3, <2>4 DEF Next, Continue
<1> QED BY <1>1, <1>2

(* A later request is not answered with a smaller ballot.                   *)
THEOREM AnswersAreNotStale == Spec => []NoStaleAnswer
<1> DEFINE I == KeptInv /\ (\A p \in Proposers : Refused(p)) /\ NoStaleAnswer
<1>1. Init => I
  <2> SUFFICES ASSUME Init PROVE I
    OBVIOUS
  <2>1. KeptInv
    BY KeptInit
  <2> QED BY <2>1 DEF Init, Refused, NoStaleAnswer
<1>2. TypeOK /\ I /\ [Next]_vars => I'
  BY KeptStep, RefusedStep
<1>3. I => NoStaleAnswer
  OBVIOUS
<1> HIDE DEF I
<1> QED BY <1>1, <1>2, <1>3, TypeCorrect, PTL DEF Spec
=============================================================================
