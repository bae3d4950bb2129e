------------------------------ MODULE ShimProofs ------------------------------
(***************************************************************************)
(* Theorems about the Lambda shim, for any number of calls, any size of    *)
(* the messages and any capacity of the pipes.                             *)
(***************************************************************************)
EXTENDS LambdaShim, SequenceTheorems, TLAPS

USE ShimAssumption DEF ShimAssumption

PieceOf(p) == {x \in Piece : x.call = p}
OutPieceOf(p) == {x \in OutPiece : x.call = p}

(* Whatever is in a pipe, in a child or in a buffer is of its own call.      *)
OwnPieces ==
    /\ \A p \in Children :
         /\ stdin[p] \in Seq(PieceOf(p)) /\ taken[p] \in Seq(PieceOf(p))
         /\ stdout[p] \in Seq(OutPieceOf(p)) /\ toPrint[p] \in Seq(OutPieceOf(p))
    /\ pc = "flush" => unsent \in Seq(PieceOf(call))
    /\ pc # "idle" => line \in Seq(OutPieceOf(call))

(* A running call waits for its own child, which nobody else can reap.       *)
Callee == pc # "idle" => proc = call /\ call # 0 /\ proc \notin held \cup active

Future == \A p \in Children : p > call =>
    /\ child[p] = "none" /\ ~writable[p] /\ ~readable[p]
    /\ stdin[p] = <<>> /\ taken[p] = <<>> /\ stdout[p] = <<>> /\ toPrint[p] = <<>>

(* The line that is read, or that will be read first, is not the blank one.  *)
StartsWell(p) ==
    IF stdout[p] # <<>> THEN stdout[p][1].text # "blank"
    ELSE toPrint[p] # <<>> => toPrint[p][1].text # "blank"

FirstLine ==
    /\ pc \in {"idle", "write", "flush"} => line = <<>>
    /\ line # <<>> => line[1].text # "blank"
    /\ pc # "idle" /\ line = <<>> => StartsWell(proc)

Closing ==
    /\ pc \in {"terminate", "wait"} => ~writable[proc] /\ ~readable[proc]
    /\ pc = "wait" /\ Alive(proc) => proc \in sigterm

ShimInv ==
    /\ OwnPieces /\ Callee /\ Future /\ FirstLine /\ Closing
    /\ AnswersMatch /\ NoStrays

-----------------------------------------------------------------------------
(* Sequences                                                                 *)

LEMMA ASeq ==
    ASSUME NEW S, NEW n \in Nat, NEW f \in [1..n -> S]
    PROVE  f \in Seq(S) /\ Len(f) = n
OBVIOUS

LEMMA AppendFacts ==
    ASSUME NEW S, NEW s \in Seq(S), NEW x \in S
    PROVE  /\ Append(s, x) \in Seq(S) /\ Append(s, x) # <<>>
           /\ Len(s) \in Nat /\ Len(Append(s, x)) = Len(s) + 1
           /\ Append(s, x)[1] = IF s = <<>> THEN x ELSE s[1]
<1>1. /\ Append(s, x) \in Seq(S) /\ Append(s, x) # <<>>
      /\ Len(s) \in Nat /\ Len(Append(s, x)) = Len(s) + 1
      /\ \A i \in 1..Len(s) : Append(s, x)[i] = s[i]
      /\ Append(s, x)[Len(s) + 1] = x
  BY AppendProperties, LenProperties
<1>2. s = <<>> => Len(s) = 0
  BY EmptySeq
<1>3. s # <<>> => 1 \in 1..Len(s)
  BY <1>1, EmptySeq
<1>4. s = <<>> => Append(s, x)[1] = x
  BY <1>1, <1>2
<1>5. s # <<>> => Append(s, x)[1] = s[1]
  BY <1>1, <1>3
<1> QED BY <1>1, <1>4, <1>5

LEMMA HeadFacts ==
    ASSUME NEW S, NEW s \in Seq(S), s # <<>>
    PROVE  /\ Head(s) \in S /\ Head(s) = s[1] /\ Tail(s) \in Seq(S)
           /\ Len(s) \in Nat \ {0} /\ Len(Tail(s)) = Len(s) - 1
BY HeadTailProperties, EmptySeq

LEMMA LinesFacts ==
    ASSUME NEW p \in Children, NEW text \in {"echo", "error", "blank"}, NEW n \in Nat \ {0}
    PROVE  /\ Lines(p, text, n) \in Seq(OutPieceOf(p)) /\ Len(Lines(p, text, n)) = n
           /\ Lines(p, text, n)[1].text = text
<1> DEFINE e(k) == [call |-> p, text |-> text, last |-> k = n]
<1>1. \A k \in 1..n : e(k) \in OutPieceOf(p)
  BY DEF OutPieceOf, OutPiece, Children, Calls
<1>2. Lines(p, text, n) = [k \in 1..n |-> e(k)]
  BY DEF Lines
<1>3. [k \in 1..n |-> e(k)] \in [1..n -> OutPieceOf(p)]
  BY <1>1
<1>4. 1 \in 1..n /\ e(1).text = text
  OBVIOUS
<1>5. Lines(p, text, n)[1].text = text
  BY <1>2, <1>4
<1> DEFINE f == [k \in 1..n |-> e(k)]
<1>6. f \in [1..n -> OutPieceOf(p)]
  BY <1>3
<1> HIDE DEF f
<1>7. f \in Seq(OutPieceOf(p)) /\ Len(f) = n
  BY <1>6, ASeq
<1>8. Lines(p, text, n) = f
  BY <1>2 DEF f
<1> QED BY <1>5, <1>7, <1>8

LEMMA PrintedFacts ==
    ASSUME TypeOK, OwnPieces, NEW p \in Children, Complete(p)
    PROVE  /\ Printed(p) \in Seq(OutPieceOf(p)) /\ Printed(p) # <<>>
           /\ Printed(p)[1].text # "blank"
<1>1. taken[p] \in Seq(PieceOf(p)) /\ Len(taken[p]) >= 1
  BY LenProperties DEF Complete, OwnPieces
<1>2. taken[p][1] \in PieceOf(p)
  BY <1>1, LenProperties
<1>3. taken[p][1].call = p
  BY <1>2 DEF PieceOf
<1>4. CASE program = "go" /\ taken[p][1].kind = "object"
  <2> DEFINE s == Lines(p, "error", 1)
             t == Lines(p, "blank", 1)
  <2>1. s \in Seq(OutPieceOf(p)) /\ t \in Seq(OutPieceOf(p)) /\ Len(s) = 1 /\ s[1].text = "error"
    <3>1. 1 \in Nat \ {0} /\ "error" \in {"echo", "error", "blank"}
          /\ "blank" \in {"echo", "error", "blank"}
      OBVIOUS
    <3>2. s \in Seq(OutPieceOf(p)) /\ Len(s) = 1 /\ s[1].text = "error"
      BY <3>1, LinesFacts
    <3>3. t \in Seq(OutPieceOf(p))
      BY <3>1, LinesFacts
    <3> QED BY <3>2, <3>3
  <2> HIDE DEF s, t
  <2>2. s \o t \in Seq(OutPieceOf(p)) /\ (s \o t)[1] = s[1] /\ Len(s \o t) = Len(s) + Len(t)
    BY <2>1, ConcatProperties
  <2>3. s \o t # <<>>
    BY <2>1, <2>2, ConcatEqualIffEmpty, EmptySeq
  <2>4. Printed(p) = s \o t
    BY <1>3, <1>4 DEF Printed, s, t
  <2> QED BY <2>1, <2>2, <2>3, <2>4
<1>5. CASE ~(program = "go" /\ taken[p][1].kind = "object")
  <2> DEFINE s == Lines(p, "echo", Size)
  <2>1. s \in Seq(OutPieceOf(p)) /\ Len(s) = Size /\ s[1].text = "echo"
    BY LinesFacts
  <2>2. Printed(p) = s
    BY <1>3, <1>5 DEF Printed
  <2> HIDE DEF s
  <2>3. s # <<>>
    BY <2>1, EmptySeq
  <2> QED BY <2>1, <2>2, <2>3
<1> QED BY <1>4, <1>5

(* The pieces of one call are pieces.                                        *)
LEMMA PieceTypes ==
    ASSUME NEW p \in Children
    PROVE  /\ Seq(PieceOf(p)) \subseteq Seq(Piece)
           /\ Seq(OutPieceOf(p)) \subseteq Seq(OutPiece)
<1>1. ASSUME NEW S, NEW T, S \subseteq T, NEW f \in Seq(S)
      PROVE  f \in Seq(T)
  <2>1. f \in [1..Len(f) -> S] /\ Len(f) \in Nat
    BY LenProperties
  <2>2. f \in [1..Len(f) -> T]
    BY <1>1, <2>1
  <2> QED BY <2>1, <2>2
<1>2. PieceOf(p) \subseteq Piece /\ OutPieceOf(p) \subseteq OutPiece
  BY DEF PieceOf, OutPieceOf
<1> QED BY <1>1, <1>2

-----------------------------------------------------------------------------
(* The children                                                              *)

(* What a step of a child may change, and what it may not.                   *)
ChildEffect(p) ==
    /\ UNCHANGED <<program, writable, readable, sigterm, handleVars>>
    /\ Alive(p)
    /\ child' \in [Children -> {"none", "reading", "printing", "zombie", "reaped"}]
    /\ child'[p] \in {"reading", "printing", "zombie"}
    /\ stdin' \in [Children -> Seq(Piece)] /\ stdout' \in [Children -> Seq(OutPiece)]
    /\ taken' \in [Children -> Seq(Piece)] /\ toPrint' \in [Children -> Seq(OutPiece)]
    /\ stdin'[p] \in Seq(PieceOf(p)) /\ taken'[p] \in Seq(PieceOf(p))
    /\ stdout'[p] \in Seq(OutPieceOf(p)) /\ toPrint'[p] \in Seq(OutPieceOf(p))
    /\ Len(stdin'[p]) <= Capacity /\ Len(stdout'[p]) <= Capacity
    /\ StartsWell(p) => StartsWell(p)'
    /\ \A q \in Children : q # p =>
         /\ child'[q] = child[q] /\ stdin'[q] = stdin[q] /\ stdout'[q] = stdout[q]
         /\ taken'[q] = taken[q] /\ toPrint'[q] = toPrint[q]

LEMMA ChildEffects ==
    ASSUME TypeOK, OwnPieces, NEW p \in Children,
           ChildStep(p) \/ Crash(p), UNCHANGED handleVars
    PROVE  ChildEffect(p)
<1>1. /\ stdin[p] \in Seq(PieceOf(p)) /\ taken[p] \in Seq(PieceOf(p))
      /\ stdout[p] \in Seq(OutPieceOf(p)) /\ toPrint[p] \in Seq(OutPieceOf(p))
  BY DEF OwnPieces
<1>2. /\ child \in [Children -> {"none", "reading", "printing", "zombie", "reaped"}]
      /\ stdin \in [Children -> Seq(Piece)] /\ stdout \in [Children -> Seq(OutPiece)]
      /\ taken \in [Children -> Seq(Piece)] /\ toPrint \in [Children -> Seq(OutPiece)]
      /\ Len(stdin[p]) <= Capacity /\ Len(stdout[p]) <= Capacity
  BY DEF TypeOK, ChildTypeOK
<1>3. CASE ReadStdin(p)
  <2>1. /\ child[p] = "reading" /\ stdin[p] # <<>>
        /\ taken' = [taken EXCEPT ![p] = Append(taken[p], Head(stdin[p]))]
        /\ stdin' = [stdin EXCEPT ![p] = Tail(stdin[p])]
        /\ UNCHANGED <<program, child, stdout, toPrint, writable, readable, sigterm>>
    BY <1>3 DEF ReadStdin
  <2>2. /\ Head(stdin[p]) \in PieceOf(p) /\ Tail(stdin[p]) \in Seq(PieceOf(p))
        /\ Len(stdin[p]) \in Nat /\ Len(Tail(stdin[p])) = Len(stdin[p]) - 1
    BY <1>1, <2>1, HeadFacts
  <2>3. Append(taken[p], Head(stdin[p])) \in Seq(PieceOf(p))
    BY <1>1, <2>2, AppendFacts
  <2>4. /\ taken'[p] = Append(taken[p], Head(stdin[p])) /\ stdin'[p] = Tail(stdin[p])
        /\ \A q \in Children : q # p => taken'[q] = taken[q] /\ stdin'[q] = stdin[q]
    BY <1>2, <2>1
  <2>5. stdin' \in [Children -> Seq(Piece)] /\ taken' \in [Children -> Seq(Piece)]
    BY <1>2, <2>1, <2>2, <2>3, PieceTypes
  <2>6. Len(stdin'[p]) <= Capacity
    BY <1>2, <2>2, <2>4
  <2>7. StartsWell(p)' <=> StartsWell(p)
    BY <2>1 DEF StartsWell
  <2> QED BY <1>1, <1>2, <2>1, <2>2, <2>3, <2>4, <2>5, <2>6, <2>7 DEF ChildEffect, Alive
<1>4. CASE Decode(p)
  <2>1. /\ child[p] = "reading" /\ Complete(p)
        /\ toPrint' = [toPrint EXCEPT ![p] = Printed(p)]
        /\ child' = [child EXCEPT ![p] = "printing"]
        /\ UNCHANGED <<program, pipeVars, taken, sigterm>>
    BY <1>4 DEF Decode
  <2>2. Printed(p) \in Seq(OutPieceOf(p)) /\ Printed(p)[1].text # "blank"
    BY <2>1, PrintedFacts
  <2>3. /\ toPrint'[p] = Printed(p) /\ child'[p] = "printing"
        /\ \A q \in Children : q # p => toPrint'[q] = toPrint[q] /\ child'[q] = child[q]
    BY <1>2, <2>1
  <2>4. /\ toPrint' \in [Children -> Seq(OutPiece)]
        /\ child' \in [Children -> {"none", "reading", "printing", "zombie", "reaped"}]
    BY <1>2, <2>1, <2>2, PieceTypes
  <2>5. StartsWell(p) => StartsWell(p)'
    BY <2>1, <2>2, <2>3 DEF StartsWell, pipeVars
  <2> QED BY <1>1, <1>2, <2>1, <2>2, <2>3, <2>4, <2>5 DEF ChildEffect, Alive, pipeVars
<1>5. CASE PrintPiece(p)
  <2>1. /\ child[p] = "printing" /\ toPrint[p] # <<>> /\ Len(stdout[p]) < Capacity
        /\ stdout' = [stdout EXCEPT ![p] = Append(stdout[p], Head(toPrint[p]))]
        /\ toPrint' = [toPrint EXCEPT ![p] = Tail(toPrint[p])]
        /\ UNCHANGED <<program, child, stdin, taken, writable, readable, sigterm>>
    BY <1>5 DEF PrintPiece
  <2>2. /\ Head(toPrint[p]) \in OutPieceOf(p) /\ Tail(toPrint[p]) \in Seq(OutPieceOf(p))
        /\ Head(toPrint[p]) = toPrint[p][1]
    BY <1>1, <2>1, HeadFacts
  <2> DEFINE a == Append(stdout[p], Head(toPrint[p]))
  <2>3. /\ a \in Seq(OutPieceOf(p)) /\ a # <<>>
        /\ Len(stdout[p]) \in Nat /\ Len(a) = Len(stdout[p]) + 1
        /\ a[1] = IF stdout[p] = <<>> THEN toPrint[p][1] ELSE stdout[p][1]
    BY <1>1, <2>2, AppendFacts
  <2> HIDE DEF a
  <2>4. /\ stdout'[p] = a /\ toPrint'[p] = Tail(toPrint[p])
        /\ \A q \in Children : q # p => stdout'[q] = stdout[q] /\ toPrint'[q] = toPrint[q]
    BY <1>2, <2>1 DEF a
  <2>5. stdout' \in [Children -> Seq(OutPiece)] /\ toPrint' \in [Children -> Seq(OutPiece)]
    BY <1>2, <2>1, <2>2, <2>3, PieceTypes DEF a
  <2>6. Len(stdout'[p]) <= Capacity
    BY <2>1, <2>3, <2>4
  <2>7. StartsWell(p) => StartsWell(p)'
    BY <2>1, <2>3, <2>4 DEF StartsWell
  <2> QED BY <1>1, <1>2, <2>1, <2>2, <2>3, <2>4, <2>5, <2>6, <2>7 DEF ChildEffect, Alive
<1>6. CASE Stop(p) \/ Crash(p)
  <2>1. /\ Alive(p) /\ child' = [child EXCEPT ![p] = "zombie"]
        /\ stdin' = [stdin EXCEPT ![p] = <<>>] /\ taken' = [taken EXCEPT ![p] = <<>>]
        /\ toPrint' = [toPrint EXCEPT ![p] = <<>>]
        /\ UNCHANGED <<program, stdout, writable, readable, sigterm>>
    BY <1>6 DEF Stop, Crash, Ends
  <2>2. /\ <<>> \in Seq(Piece) /\ <<>> \in Seq(OutPiece)
        /\ <<>> \in Seq(PieceOf(p)) /\ <<>> \in Seq(OutPieceOf(p)) /\ Len(<<>>) = 0
    BY EmptySeq
  <2>3. /\ child'[p] = "zombie" /\ stdin'[p] = <<>> /\ taken'[p] = <<>> /\ toPrint'[p] = <<>>
        /\ \A q \in Children : q # p =>
             /\ child'[q] = child[q] /\ stdin'[q] = stdin[q]
             /\ taken'[q] = taken[q] /\ toPrint'[q] = toPrint[q]
    BY <1>2, <2>1
  <2>4. /\ stdin' \in [Children -> Seq(Piece)] /\ taken' \in [Children -> Seq(Piece)]
        /\ toPrint' \in [Children -> Seq(OutPiece)]
        /\ child' \in [Children -> {"none", "reading", "printing", "zombie", "reaped"}]
    BY <1>2, <2>1, <2>2
  <2>5. StartsWell(p) => StartsWell(p)'
    BY <2>1, <2>3 DEF StartsWell
  <2> QED BY <1>1, <1>2, <2>1, <2>2, <2>3, <2>4, <2>5 DEF ChildEffect
<1> QED BY <1>3, <1>4, <1>5, <1>6 DEF ChildStep

LEMMA ChildInv ==
    ASSUME TypeOK, ShimInv, NEW p \in Children, ChildEffect(p)
    PROVE  TypeOK' /\ ShimInv'
<1>1. /\ program' = program /\ writable' = writable /\ readable' = readable
      /\ sigterm' = sigterm
      /\ pc' = pc /\ call' = call /\ kind' = kind /\ proc' = proc /\ unsent' = unsent
      /\ line' = line /\ answer' = answer /\ held' = held /\ active' = active
  BY DEF ChildEffect, handleVars
<1>2. /\ Alive(p) /\ child'[p] \in {"reading", "printing", "zombie"}
      /\ \A q \in Children : q # p =>
           /\ child'[q] = child[q] /\ stdin'[q] = stdin[q] /\ stdout'[q] = stdout[q]
           /\ taken'[q] = taken[q] /\ toPrint'[q] = toPrint[q]
  BY DEF ChildEffect
<1>3. \A q \in Children : child[q] \notin {"none", "reaped"} => child'[q] \notin {"none", "reaped"}
  BY <1>2
<1>4. pc # "idle" => proc \in Children
  BY DEF TypeOK, ShimInv, Callee, Children, Calls
<1>5. ChildTypeOK'
  <2>1. \A q \in Children : Len(stdin'[q]) <= Capacity /\ Len(stdout'[q]) <= Capacity
    BY <1>2 DEF ChildEffect, TypeOK, ChildTypeOK
  <2> QED BY <1>1, <2>1 DEF ChildEffect, TypeOK, ChildTypeOK
<1>6. TypeOK'
  BY <1>1, <1>3, <1>4, <1>5 DEF TypeOK
<1>7. OwnPieces'
  <2>1. ASSUME NEW q \in Children
        PROVE  /\ stdin'[q] \in Seq(PieceOf(q)) /\ taken'[q] \in Seq(PieceOf(q))
               /\ stdout'[q] \in Seq(OutPieceOf(q)) /\ toPrint'[q] \in Seq(OutPieceOf(q))
    BY <1>2 DEF ChildEffect, ShimInv, OwnPieces
  <2> QED BY <1>1, <2>1 DEF ShimInv, OwnPieces
<1>8. Callee' /\ AnswersMatch'
  BY <1>1 DEF ShimInv, Callee, AnswersMatch
<1>9. Future'
  <2>1. p <= call
    BY <1>2 DEF Alive, ShimInv, Future, TypeOK, Children, Calls
  <2>2. \A q \in Children : q > call => q # p
    BY <2>1 DEF TypeOK, Children, Calls
  <2> QED BY <1>1, <1>2, <2>2 DEF ShimInv, Future
<1>10. FirstLine'
  <2>1. ASSUME pc # "idle", StartsWell(proc) PROVE StartsWell(proc)'
    <3>1. CASE proc = p
      <4>1. StartsWell(p) => StartsWell(p)'
        BY DEF ChildEffect
      <4> QED BY <1>1, <2>1, <3>1, <4>1 DEF StartsWell
    <3>2. CASE proc # p
      <4>1. stdout'[proc] = stdout[proc] /\ toPrint'[proc] = toPrint[proc]
        BY <1>2, <1>4, <2>1, <3>2
      <4> QED BY <1>1, <2>1, <4>1 DEF StartsWell
    <3> QED BY <3>1, <3>2
  <2> QED BY <1>1, <2>1 DEF ShimInv, FirstLine
<1>11. \A q \in Children : Alive(q)' => Alive(q)
  BY <1>2 DEF Alive
<1>12. Closing'
  BY <1>1, <1>4, <1>11 DEF ShimInv, Closing, Alive
<1>13. NoStrays'
  <2> SUFFICES ASSUME NEW q \in Children, pc = "idle" \/ q # proc
               PROVE  /\ child'[q] \in {"reading", "printing", "zombie"} =>
                             answer[q] = Error /\ q \in held \cup active
                      /\ Alive(q)' => q \in sigterm
                      /\ writable[q] \/ readable[q] => q \in held
    BY <1>1 DEF NoStrays
  <2>1. /\ child[q] \in {"reading", "printing", "zombie"} =>
             answer[q] = Error /\ q \in held \cup active
        /\ Alive(q) => q \in sigterm
        /\ writable[q] \/ readable[q] => q \in held
    BY DEF ShimInv, NoStrays
  <2>2. child'[q] \in {"reading", "printing", "zombie"} =>
           child[q] \in {"reading", "printing", "zombie"}
    BY <1>2 DEF Alive
  <2> QED BY <1>11, <2>1, <2>2
<1> QED BY <1>6, <1>7, <1>8, <1>9, <1>10, <1>12, <1>13 DEF ShimInv

-----------------------------------------------------------------------------
(* handle, up to the answer                                                  *)

LEMMA RequestFacts ==
    ASSUME TypeOK, call # 0
    PROVE  Request \in Seq(PieceOf(call)) /\ Request \in Seq(Piece)
<1> DEFINE e(k) == [call |-> call, kind |-> kind, last |-> k = Size + 1]
<1>1. call \in Children
  BY DEF TypeOK, Children, Calls
<1>2. \A k \in 1..Size + 1 : e(k) \in PieceOf(call)
  BY <1>1 DEF TypeOK, PieceOf, Piece, Children
<1>3. Request = [k \in 1..Size + 1 |-> e(k)]
  BY DEF Request
<1>4. [k \in 1..Size + 1 |-> e(k)] \in [1..Size + 1 -> PieceOf(call)]
  BY <1>2
<1>5. Size + 1 \in Nat
  OBVIOUS
<1>6. Request \in Seq(PieceOf(call))
  BY <1>3, <1>4, <1>5, ASeq
<1> QED BY <1>1, <1>6, PieceTypes

LEMMA WriteInv ==
    ASSUME TypeOK, ShimInv, Write
    PROVE  TypeOK' /\ ShimInv'
<1>1. /\ pc = "write" /\ pc' = "flush" /\ unsent' = Request
      /\ UNCHANGED <<childVars, call, kind, proc, line, answer, held, active>>
  BY DEF Write
<1>2. Request \in Seq(PieceOf(call)) /\ Request \in Seq(Piece)
  BY <1>1, RequestFacts DEF ShimInv, Callee
<1>3. ChildTypeOK'
  BY <1>1 DEF childVars, pipeVars, TypeOK, ChildTypeOK
<1>4. TypeOK'
  BY <1>1, <1>2, <1>3 DEF childVars, TypeOK
<1>5. OwnPieces'
  BY <1>1, <1>2 DEF childVars, pipeVars, ShimInv, OwnPieces
<1>6. Callee' /\ Future' /\ Closing' /\ AnswersMatch'
  BY <1>1 DEF childVars, pipeVars, ShimInv, Callee, Future, Closing, AnswersMatch
<1>7. FirstLine'
  BY <1>1 DEF childVars, pipeVars, ShimInv, FirstLine, StartsWell
<1>8. NoStrays'
  BY <1>1 DEF childVars, pipeVars, ShimInv, NoStrays, Alive
<1> QED BY <1>4, <1>5, <1>6, <1>7, <1>8 DEF ShimInv

LEMMA FlushInv ==
    ASSUME TypeOK, ShimInv, Flush
    PROVE  TypeOK' /\ ShimInv'
<1>1. /\ pc = "flush" /\ unsent # <<>> /\ Len(stdin[proc]) < Capacity
      /\ stdin' = [stdin EXCEPT ![proc] = Append(stdin[proc], Head(unsent))]
      /\ unsent' = Tail(unsent) /\ pc' \in {"read", "flush"}
      /\ UNCHANGED <<program, child, stdout, taken, toPrint, writable, readable, sigterm,
                     call, kind, proc, line, answer, held, active>>
  BY DEF Flush
<1>2. proc = call /\ proc \in Children
  BY <1>1 DEF ShimInv, Callee, TypeOK, Children, Calls
<1>3. /\ Head(unsent) \in PieceOf(proc) /\ Tail(unsent) \in Seq(PieceOf(proc))
  BY <1>1, <1>2, HeadFacts DEF ShimInv, OwnPieces
<1> DEFINE a == Append(stdin[proc], Head(unsent))
<1>4. a \in Seq(PieceOf(proc)) /\ Len(a) = Len(stdin[proc]) + 1 /\ Len(stdin[proc]) \in Nat
  BY <1>2, <1>3, AppendFacts DEF ShimInv, OwnPieces
<1>5. stdin \in [Children -> Seq(Piece)]
  BY DEF TypeOK, ChildTypeOK
<1> HIDE DEF a
<1>6. stdin'[proc] = a /\ \A q \in Children : q # proc => stdin'[q] = stdin[q]
  BY <1>1, <1>2, <1>5 DEF a
<1>7. stdin' \in [Children -> Seq(Piece)] /\ unsent' \in Seq(Piece)
  BY <1>1, <1>2, <1>3, <1>4, <1>5, PieceTypes DEF a
<1>8. ChildTypeOK'
  <2>1. \A q \in Children : Len(stdin'[q]) <= Capacity
    BY <1>1, <1>4, <1>6 DEF TypeOK, ChildTypeOK
  <2> QED BY <1>1, <1>7, <2>1 DEF TypeOK, ChildTypeOK
<1>9. TypeOK'
  BY <1>1, <1>7, <1>8 DEF TypeOK
<1>10. OwnPieces'
  <2>1. \A q \in Children : stdin'[q] \in Seq(PieceOf(q))
    BY <1>4, <1>6 DEF ShimInv, OwnPieces
  <2> QED BY <1>1, <1>2, <1>3, <2>1 DEF ShimInv, OwnPieces
<1>11. Future'
  <2>1. \A q \in Children : q > call => q # proc
    BY <1>2 DEF TypeOK, Children, Calls
  <2> QED BY <1>1, <1>6, <2>1 DEF ShimInv, Future
<1>12. Callee' /\ Closing' /\ AnswersMatch'
  BY <1>1 DEF ShimInv, Callee, Closing, AnswersMatch
<1>13. FirstLine' /\ NoStrays'
  BY <1>1 DEF ShimInv, FirstLine, StartsWell, NoStrays, Alive
<1> QED BY <1>9, <1>10, <1>11, <1>12, <1>13 DEF ShimInv

LEMMA ReadlineInv ==
    ASSUME TypeOK, ShimInv, Readline
    PROVE  TypeOK' /\ ShimInv'
<1>1. /\ pc = "read" /\ stdout[proc] # <<>>
      /\ line' = Append(line, Head(stdout[proc]))
      /\ stdout' = [stdout EXCEPT ![proc] = Tail(stdout[proc])]
      /\ pc' \in {"read", "close"}
      /\ UNCHANGED <<program, child, stdin, taken, toPrint, writable, readable, sigterm,
                     call, kind, proc, unsent, answer, held, active>>
  BY DEF Readline
<1>2. proc = call /\ proc \in Children
  BY <1>1 DEF ShimInv, Callee, TypeOK, Children, Calls
<1>3. /\ Head(stdout[proc]) \in OutPieceOf(proc) /\ Tail(stdout[proc]) \in Seq(OutPieceOf(proc))
      /\ Head(stdout[proc]) = stdout[proc][1]
      /\ Len(stdout[proc]) \in Nat /\ Len(Tail(stdout[proc])) = Len(stdout[proc]) - 1
  BY <1>1, <1>2, HeadFacts DEF ShimInv, OwnPieces
<1>4. /\ line' \in Seq(OutPieceOf(proc)) /\ line' # <<>>
      /\ line'[1] = IF line = <<>> THEN stdout[proc][1] ELSE line[1]
  BY <1>1, <1>2, <1>3, AppendFacts DEF ShimInv, OwnPieces
<1>5. stdout \in [Children -> Seq(OutPiece)]
  BY DEF TypeOK, ChildTypeOK
<1>6. /\ stdout'[proc] = Tail(stdout[proc])
      /\ \A q \in Children : q # proc => stdout'[q] = stdout[q]
  BY <1>1, <1>2, <1>5
<1>7. stdout' \in [Children -> Seq(OutPiece)] /\ line' \in Seq(OutPiece)
  BY <1>1, <1>2, <1>3, <1>4, <1>5, PieceTypes
<1>8. ChildTypeOK'
  <2>1. \A q \in Children : Len(stdout[q]) <= Capacity
    BY DEF TypeOK, ChildTypeOK
  <2>2. Len(stdout'[proc]) <= Capacity
    BY <1>2, <1>3, <1>6, <2>1
  <2>3. \A q \in Children : Len(stdout'[q]) <= Capacity
    BY <1>6, <2>1, <2>2
  <2> QED BY <1>1, <1>7, <2>3 DEF TypeOK, ChildTypeOK
<1>9. TypeOK'
  BY <1>1, <1>4, <1>7, <1>8 DEF TypeOK
<1>10. OwnPieces'
  <2>1. \A q \in Children : stdout'[q] \in Seq(OutPieceOf(q))
    BY <1>3, <1>6 DEF ShimInv, OwnPieces
  <2> QED BY <1>1, <1>2, <1>4, <2>1 DEF ShimInv, OwnPieces
<1>11. Future'
  <2>1. \A q \in Children : q > call => q # proc
    BY <1>2 DEF TypeOK, Children, Calls
  <2> QED BY <1>1, <1>6, <2>1 DEF ShimInv, Future
<1>12. Callee' /\ Closing' /\ AnswersMatch' /\ NoStrays'
  BY <1>1 DEF ShimInv, Callee, Closing, AnswersMatch, NoStrays, Alive
<1>13. FirstLine'
  BY <1>1, <1>4 DEF ShimInv, FirstLine, StartsWell
<1> QED BY <1>9, <1>10, <1>11, <1>12, <1>13 DEF ShimInv

-----------------------------------------------------------------------------
(* handle, after the answer or an exception                                  *)

(* What a call may return.                                                   *)
LEMMA ReturnFacts ==
    ASSUME TypeOK, ShimInv, pc # "idle", NEW v \in OutPiece \cup {Pending, Error},
           v \in {Pending, Error} \/ (v.call = call /\ v.text # "blank"),
           Return(v), call' = call
    PROVE  /\ AnswersMatch' /\ answer' \in [Calls -> OutPiece \cup {Pending, Error}]
           /\ answer'[call] = v /\ \A n \in Calls : n # call => answer'[n] = answer[n]
           /\ pc' = "idle" /\ unsent' = <<>> /\ line' = <<>>
           /\ unsent' \in Seq(Piece) /\ line' \in Seq(OutPiece)
<1>1. /\ answer' = [answer EXCEPT ![call] = v]
      /\ pc' = "idle" /\ unsent' = <<>> /\ line' = <<>>
  BY DEF Return
<1>2. call \in Calls /\ answer \in [Calls -> OutPiece \cup {Pending, Error}]
  BY DEF ShimInv, Callee, TypeOK, Calls
<1>3. /\ answer' \in [Calls -> OutPiece \cup {Pending, Error}]
      /\ answer'[call] = v /\ \A n \in Calls : n # call => answer'[n] = answer[n]
  BY <1>1, <1>2
<1>4. AnswersMatch'
  BY <1>3 DEF ShimInv, AnswersMatch
<1>5. <<>> \in Seq(Piece) /\ <<>> \in Seq(OutPiece)
  BY EmptySeq
<1> QED BY <1>1, <1>3, <1>4, <1>5

LEMMA RaiseInv ==
    ASSUME TypeOK, ShimInv, pc # "idle", Alive(proc) => proc \in sigterm,
           Raise, UNCHANGED <<childVars, call, kind, proc, active>>
    PROVE  TypeOK' /\ ShimInv'
<1>1. proc = call /\ proc \in Children /\ proc \notin held \cup active
      /\ child[proc] \notin {"none", "reaped"}
  BY DEF ShimInv, Callee, TypeOK, Children, Calls
<1>2. /\ held' = held \cup {proc} /\ active' = active
      /\ program' = program /\ child' = child /\ stdin' = stdin /\ stdout' = stdout
      /\ taken' = taken /\ toPrint' = toPrint /\ writable' = writable
      /\ readable' = readable /\ sigterm' = sigterm
      /\ call' = call /\ kind' = kind /\ proc' = proc
  BY DEF Raise, childVars, pipeVars
<1>3. /\ AnswersMatch' /\ answer' \in [Calls -> OutPiece \cup {Pending, Error}]
      /\ answer'[call] = Error /\ \A n \in Calls : n # call => answer'[n] = answer[n]
      /\ pc' = "idle" /\ unsent' = <<>> /\ line' = <<>>
      /\ unsent' \in Seq(Piece) /\ line' \in Seq(OutPiece)
  BY <1>2, ReturnFacts DEF Raise
<1>4. ChildTypeOK'
  BY <1>2 DEF TypeOK, ChildTypeOK
<1>5. TypeOK'
  BY <1>1, <1>2, <1>3, <1>4 DEF TypeOK
<1>6. OwnPieces' /\ Callee' /\ Future' /\ Closing'
  BY <1>2, <1>3 DEF ShimInv, OwnPieces, Callee, Future, Closing
<1>7. FirstLine'
  BY <1>3 DEF FirstLine
<1>8. NoStrays'
  <2> SUFFICES ASSUME NEW q \in Children
               PROVE  /\ child[q] \in {"reading", "printing", "zombie"} =>
                             answer'[q] = Error /\ q \in held' \cup active
                      /\ Alive(q) => q \in sigterm
                      /\ writable[q] \/ readable[q] => q \in held'
    BY <1>2 DEF NoStrays, Alive
  <2>1. CASE q = proc
    BY <1>1, <1>2, <1>3, <2>1
  <2>2. CASE q # proc
    BY <1>1, <1>2, <1>3, <2>2 DEF ShimInv, NoStrays, Children
  <2> QED BY <2>1, <2>2
<1> QED BY <1>3, <1>5, <1>6, <1>7, <1>8 DEF ShimInv

LEMMA CloseInv ==
    ASSUME TypeOK, ShimInv, Close
    PROVE  TypeOK' /\ ShimInv'
<1>1. /\ pc = "close" /\ pc' = "terminate"
      /\ writable' = [writable EXCEPT ![proc] = FALSE]
      /\ readable' = [readable EXCEPT ![proc] = FALSE]
      /\ stdout' = [stdout EXCEPT ![proc] = <<>>]
      /\ UNCHANGED <<program, child, stdin, taken, toPrint, sigterm,
                     call, kind, proc, unsent, line, answer, held, active>>
  BY DEF Close
<1>2. proc \in Children /\ line # <<>>
  BY <1>1 DEF ShimInv, Callee, TypeOK, Children, Calls
<1>3. /\ <<>> \in Seq(OutPiece) /\ Len(<<>>) = 0
      /\ \A q \in Children : <<>> \in Seq(OutPieceOf(q))
  BY EmptySeq
<1>4. /\ writable \in [Children -> BOOLEAN] /\ readable \in [Children -> BOOLEAN]
      /\ stdout \in [Children -> Seq(OutPiece)]
  BY DEF TypeOK, ChildTypeOK
<1>5. /\ ~writable'[proc] /\ ~readable'[proc] /\ stdout'[proc] = <<>>
      /\ \A q \in Children : q # proc =>
           writable'[q] = writable[q] /\ readable'[q] = readable[q] /\ stdout'[q] = stdout[q]
  BY <1>1, <1>2, <1>4
<1>6. ChildTypeOK'
  <2>1. /\ writable' \in [Children -> BOOLEAN] /\ readable' \in [Children -> BOOLEAN]
        /\ stdout' \in [Children -> Seq(OutPiece)]
    BY <1>1, <1>3, <1>4
  <2>2. ASSUME NEW q \in Children
        PROVE  Len(stdout'[q]) <= Capacity
    <3>1. CASE q = proc
      <4>1. Len(stdout'[q]) = 0
        BY <1>3, <1>5, <3>1
      <4> QED BY <4>1
    <3>2. CASE q # proc
      BY <1>5, <3>2 DEF TypeOK, ChildTypeOK
    <3> QED BY <3>1, <3>2
  <2> QED BY <1>1, <2>1, <2>2 DEF TypeOK, ChildTypeOK
<1>7. TypeOK'
  BY <1>1, <1>6 DEF TypeOK
<1>8. OwnPieces'
  <2>1. \A q \in Children : stdout'[q] \in Seq(OutPieceOf(q))
    BY <1>3, <1>5 DEF ShimInv, OwnPieces
  <2> QED BY <1>1, <2>1 DEF ShimInv, OwnPieces
<1>9. Callee' /\ AnswersMatch'
  BY <1>1 DEF ShimInv, Callee, AnswersMatch
<1>10. Future'
  BY <1>1, <1>5 DEF ShimInv, Future
<1>11. FirstLine' /\ Closing'
  BY <1>1, <1>2, <1>5 DEF ShimInv, FirstLine, Closing
<1>12. NoStrays'
  BY <1>1, <1>5 DEF ShimInv, NoStrays, Alive
<1> QED BY <1>7, <1>8, <1>9, <1>10, <1>11, <1>12 DEF ShimInv

LEMMA TerminateInv ==
    ASSUME TypeOK, ShimInv, Terminate
    PROVE  TypeOK' /\ ShimInv'
<1>1. /\ pc = "terminate" /\ pc' = "wait"
      /\ sigterm' = IF Alive(proc) THEN sigterm \cup {proc} ELSE sigterm
      /\ program' = program /\ child' = child /\ stdin' = stdin /\ stdout' = stdout
      /\ taken' = taken /\ toPrint' = toPrint /\ writable' = writable
      /\ readable' = readable
      /\ UNCHANGED <<call, kind, proc, unsent, line, answer, held, active>>
  BY DEF Terminate, pipeVars
<1>2. proc \in Children /\ line # <<>>
  BY <1>1 DEF ShimInv, Callee, TypeOK, Children, Calls
<1>3. sigterm' \subseteq Children
  BY <1>1, <1>2 DEF TypeOK, ChildTypeOK
<1>4. ChildTypeOK'
  BY <1>1, <1>3 DEF TypeOK, ChildTypeOK
<1>5. TypeOK'
  BY <1>1, <1>4 DEF TypeOK
<1>6. OwnPieces' /\ Callee' /\ AnswersMatch' /\ Future'
  BY <1>1 DEF ShimInv, OwnPieces, Callee, AnswersMatch, Future
<1>7. FirstLine' /\ Closing'
  BY <1>1, <1>2 DEF ShimInv, FirstLine, Closing, Alive
<1>8. NoStrays'
  BY <1>1 DEF ShimInv, NoStrays, Alive
<1> QED BY <1>5, <1>6, <1>7, <1>8 DEF ShimInv

LEMMA WaitInv ==
    ASSUME TypeOK, ShimInv, Wait
    PROVE  TypeOK' /\ ShimInv'
<1>1. /\ pc = "wait" /\ child[proc] = "zombie" /\ Return(line[1])
      /\ child' = [child EXCEPT ![proc] = "reaped"]
      /\ program' = program /\ stdin' = stdin /\ stdout' = stdout
      /\ taken' = taken /\ toPrint' = toPrint /\ writable' = writable
      /\ readable' = readable /\ sigterm' = sigterm
      /\ UNCHANGED <<call, kind, proc, held, active>>
  BY DEF Wait, pipeVars
<1>2. proc = call /\ proc \in Children /\ proc \notin held \cup active /\ line # <<>>
  BY <1>1 DEF ShimInv, Callee, TypeOK, Children, Calls
<1>3. line[1] \in OutPieceOf(call)
  BY <1>1, <1>2, HeadFacts DEF ShimInv, OwnPieces
<1>4. line[1] \in OutPiece /\ line[1].call = call /\ line[1].text # "blank"
  BY <1>2, <1>3 DEF OutPieceOf, ShimInv, FirstLine
<1>5. /\ AnswersMatch' /\ answer' \in [Calls -> OutPiece \cup {Pending, Error}]
      /\ \A n \in Calls : n # call => answer'[n] = answer[n]
      /\ pc' = "idle" /\ unsent' = <<>> /\ line' = <<>>
      /\ unsent' \in Seq(Piece) /\ line' \in Seq(OutPiece)
  BY <1>1, <1>4, ReturnFacts
<1>6. child \in [Children -> {"none", "reading", "printing", "zombie", "reaped"}]
  BY DEF TypeOK, ChildTypeOK
<1>7. child'[proc] = "reaped" /\ \A q \in Children : q # proc => child'[q] = child[q]
  BY <1>1, <1>2, <1>6
<1>8. child' \in [Children -> {"none", "reading", "printing", "zombie", "reaped"}]
  BY <1>1, <1>6
<1>9. ChildTypeOK'
  BY <1>1, <1>8 DEF TypeOK, ChildTypeOK
<1>10. TypeOK'
  BY <1>1, <1>2, <1>5, <1>7, <1>9 DEF TypeOK
<1>11. OwnPieces' /\ Callee' /\ Closing'
  BY <1>1, <1>5 DEF ShimInv, OwnPieces, Callee, Closing
<1>12. Future'
  <2>1. \A q \in Children : q > call => q # proc
    BY <1>2 DEF TypeOK, Children, Calls
  <2> QED BY <1>1, <1>7, <2>1 DEF ShimInv, Future
<1>13. FirstLine'
  BY <1>5 DEF FirstLine
<1>14. NoStrays'
  <2> SUFFICES ASSUME NEW q \in Children
               PROVE  /\ child'[q] \in {"reading", "printing", "zombie"} =>
                             answer'[q] = Error /\ q \in held \cup active
                      /\ child'[q] \in {"reading", "printing"} => q \in sigterm
                      /\ writable[q] \/ readable[q] => q \in held
    BY <1>1 DEF NoStrays, Alive
  <2>1. CASE q = proc
    BY <1>1, <1>7, <2>1 DEF ShimInv, Closing
  <2>2. CASE q # proc
    BY <1>2, <1>5, <1>7, <2>2 DEF ShimInv, NoStrays, Alive, Children
  <2> QED BY <2>1, <2>2
<1> QED BY <1>5, <1>10, <1>11, <1>12, <1>13, <1>14 DEF ShimInv

-----------------------------------------------------------------------------
(* New children and collected ones                                           *)

LEMMA PopenInv ==
    ASSUME TypeOK, ShimInv, Popen
    PROVE  TypeOK' /\ ShimInv'
<1> DEFINE new == call + 1
<1>1. /\ pc = "idle" /\ pc' = "write" /\ call' = new /\ proc' = new /\ kind' \in Kinds
      /\ child' = [p \in Children |-> IF p = new THEN "reading"
                                      ELSE IF p \in Reaped THEN "reaped" ELSE child[p]]
      /\ active' = active \ Reaped
      /\ writable' = [writable EXCEPT ![new] = TRUE]
      /\ readable' = [readable EXCEPT ![new] = TRUE]
      /\ UNCHANGED <<program, stdin, stdout, taken, toPrint, sigterm,
                     unsent, line, answer, held>>
  BY DEF Popen
<1>2. new \in Children /\ call \in Nat /\ new > call /\ new # 0 /\ new \in 0..MaxCalls
  BY DEF Popen, TypeOK, Children, Calls
<1>3. /\ child[new] = "none" /\ ~writable[new] /\ ~readable[new]
      /\ stdin[new] = <<>> /\ taken[new] = <<>> /\ stdout[new] = <<>> /\ toPrint[new] = <<>>
  BY <1>2 DEF ShimInv, Future
<1>4. new \notin held \cup active
  BY <1>3 DEF TypeOK
<1>5. \A q \in Children : q > new => q > call /\ q # new
  BY <1>2 DEF Children, Calls
<1> HIDE DEF new
<1>6. /\ child \in [Children -> {"none", "reading", "printing", "zombie", "reaped"}]
      /\ writable \in [Children -> BOOLEAN] /\ readable \in [Children -> BOOLEAN]
  BY DEF TypeOK, ChildTypeOK
<1>7. /\ child'[new] = "reading" /\ writable'[new] /\ readable'[new]
      /\ \A q \in Children : q # new =>
           /\ child'[q] = IF q \in Reaped THEN "reaped" ELSE child[q]
           /\ writable'[q] = writable[q] /\ readable'[q] = readable[q]
  BY <1>1, <1>2, <1>6
<1>8. \A q \in Reaped : q \in active /\ q \notin held /\ child[q] = "zombie"
  BY DEF Reaped, TypeOK
<1>9. ChildTypeOK'
  <2>1. /\ child' \in [Children -> {"none", "reading", "printing", "zombie", "reaped"}]
        /\ writable' \in [Children -> BOOLEAN] /\ readable' \in [Children -> BOOLEAN]
    BY <1>1, <1>6
  <2> QED BY <1>1, <2>1 DEF TypeOK, ChildTypeOK
<1>10. TypeOK'
  <2>1. \A q \in held' \cup active' : child'[q] \notin {"none", "reaped"}
    BY <1>1, <1>4, <1>7, <1>8 DEF TypeOK
  <2>2. child'[proc'] \notin {"none", "reaped"} /\ proc' # 0
    BY <1>1, <1>2, <1>7
  <2>3. held' \subseteq Children /\ active' \subseteq Children /\ held' \cap active' = {}
    BY <1>1 DEF TypeOK
  <2>4. /\ call' \in 0..MaxCalls /\ proc' \in 0..MaxCalls /\ unsent' \in Seq(Piece)
        /\ line' \in Seq(OutPiece) /\ answer' \in [Calls -> OutPiece \cup {Pending, Error}]
    BY <1>1, <1>2 DEF TypeOK
  <2> QED BY <1>1, <1>9, <2>1, <2>2, <2>3, <2>4 DEF TypeOK
<1>11. OwnPieces'
  <2>1. line' = <<>> /\ <<>> \in Seq(OutPieceOf(new))
    BY <1>1, EmptySeq DEF ShimInv, FirstLine
  <2> QED BY <1>1, <2>1 DEF ShimInv, OwnPieces
<1>12. Callee'
  BY <1>1, <1>2, <1>4 DEF Callee
<1>13. Future'
  BY <1>1, <1>5, <1>7, <1>8 DEF ShimInv, Future
<1>14. FirstLine' /\ Closing' /\ AnswersMatch'
  BY <1>1, <1>3 DEF ShimInv, FirstLine, StartsWell, Closing, AnswersMatch
<1>15. NoStrays'
  <2> SUFFICES ASSUME NEW q \in Children, q # new
               PROVE  /\ child'[q] \in {"reading", "printing", "zombie"} =>
                             answer[q] = Error /\ q \in held \cup active'
                      /\ child'[q] \in {"reading", "printing"} => q \in sigterm
                      /\ writable'[q] \/ readable'[q] => q \in held
    BY <1>1 DEF NoStrays, Alive
  <2>1. CASE q \in Reaped
    BY <1>1, <1>7, <1>8, <2>1 DEF ShimInv, NoStrays
  <2>2. CASE q \notin Reaped
    BY <1>1, <1>7, <2>2 DEF ShimInv, NoStrays, Alive
  <2> QED BY <2>1, <2>2
<1> QED BY <1>10, <1>11, <1>12, <1>13, <1>14, <1>15 DEF ShimInv

LEMMA PopenRaisesInv ==
    ASSUME TypeOK, ShimInv, PopenRaises
    PROVE  TypeOK' /\ ShimInv'
<1> DEFINE new == call + 1
<1>1. /\ pc = "idle" /\ call' = new
      /\ child' = [p \in Children |-> IF p \in Reaped THEN "reaped" ELSE child[p]]
      /\ active' = active \ Reaped
      /\ answer' = [answer EXCEPT ![new] = Error]
      /\ program' = program /\ stdin' = stdin /\ stdout' = stdout
      /\ taken' = taken /\ toPrint' = toPrint /\ writable' = writable
      /\ readable' = readable /\ sigterm' = sigterm
      /\ UNCHANGED <<pc, kind, proc, unsent, line, held>>
  BY DEF PopenRaises, pipeVars
<1>2. new \in Calls /\ call \in Nat /\ new > call /\ new \in 0..MaxCalls
  BY DEF PopenRaises, TypeOK, Calls
<1>3. \A q \in Children : q > new => q > call
  BY <1>2 DEF Children, Calls
<1>4. child[new] = "none"
  BY <1>2 DEF ShimInv, Future, Children
<1> HIDE DEF new
<1>5. /\ child \in [Children -> {"none", "reading", "printing", "zombie", "reaped"}]
      /\ answer \in [Calls -> OutPiece \cup {Pending, Error}]
  BY DEF TypeOK, ChildTypeOK
<1>6. /\ \A q \in Children : child'[q] = IF q \in Reaped THEN "reaped" ELSE child[q]
      /\ answer'[new] = Error /\ \A n \in Calls : n # new => answer'[n] = answer[n]
  BY <1>1, <1>2, <1>5
<1>7. \A q \in Reaped : q \in active /\ q \notin held /\ child[q] = "zombie"
  BY DEF Reaped, TypeOK
<1>8. ChildTypeOK'
  <2>1. child' \in [Children -> {"none", "reading", "printing", "zombie", "reaped"}]
    BY <1>1, <1>5
  <2> QED BY <1>1, <2>1 DEF TypeOK, ChildTypeOK
<1>9. TypeOK'
  <2>1. \A q \in held' \cup active' : child'[q] \notin {"none", "reaped"}
    BY <1>1, <1>6, <1>7 DEF TypeOK
  <2>2. held' \subseteq Children /\ active' \subseteq Children /\ held' \cap active' = {}
    BY <1>1 DEF TypeOK
  <2>3. call' \in 0..MaxCalls /\ answer' \in [Calls -> OutPiece \cup {Pending, Error}]
    BY <1>1, <1>2, <1>5
  <2> QED BY <1>1, <1>8, <2>1, <2>2, <2>3 DEF TypeOK
<1>10. OwnPieces' /\ Callee' /\ Closing'
  BY <1>1 DEF ShimInv, OwnPieces, Callee, Closing
<1>11. Future'
  BY <1>1, <1>3, <1>6, <1>7 DEF ShimInv, Future
<1>12. FirstLine'
  BY <1>1 DEF ShimInv, FirstLine
<1>13. AnswersMatch'
  BY <1>6 DEF ShimInv, AnswersMatch
<1>14. NoStrays'
  <2> SUFFICES ASSUME NEW q \in Children
               PROVE  /\ child'[q] \in {"reading", "printing", "zombie"} =>
                             answer'[q] = Error /\ q \in held \cup active'
                      /\ child'[q] \in {"reading", "printing"} => q \in sigterm
                      /\ writable[q] \/ readable[q] => q \in held
    BY <1>1 DEF NoStrays, Alive
  <2>1. CASE q \in Reaped
    BY <1>1, <1>6, <1>7, <2>1 DEF ShimInv, NoStrays
  <2>2. CASE q \notin Reaped
    BY <1>1, <1>4, <1>6, <2>2 DEF ShimInv, NoStrays, Alive, Children
  <2> QED BY <2>1, <2>2
<1> QED BY <1>9, <1>10, <1>11, <1>12, <1>13, <1>14 DEF ShimInv

LEMMA CollectInv ==
    ASSUME TypeOK, ShimInv, NEW p \in Children, Collect(p)
    PROVE  TypeOK' /\ ShimInv'
<1>1. /\ p \in held /\ held' = held \ {p}
      /\ writable' = [writable EXCEPT ![p] = FALSE]
      /\ readable' = [readable EXCEPT ![p] = FALSE]
      /\ stdout' = [stdout EXCEPT ![p] = <<>>]
      /\ UNCHANGED <<program, stdin, taken, toPrint, sigterm,
                     pc, call, kind, proc, unsent, line, answer>>
  BY DEF Collect
<1>2. \/ Alive(p) /\ active' = active \cup {p} /\ child' = child
      \/ ~Alive(p) /\ child' = [child EXCEPT ![p] = "reaped"] /\ active' = active
  BY DEF Collect
<1>3. child[p] \notin {"none", "reaped"} /\ p \notin active /\ (pc # "idle" => proc # p)
  BY <1>1 DEF TypeOK, ShimInv, Callee
<1>4. /\ child \in [Children -> {"none", "reading", "printing", "zombie", "reaped"}]
      /\ writable \in [Children -> BOOLEAN] /\ readable \in [Children -> BOOLEAN]
      /\ stdout \in [Children -> Seq(OutPiece)]
  BY DEF TypeOK, ChildTypeOK
<1>5. /\ <<>> \in Seq(OutPiece) /\ Len(<<>>) = 0
      /\ \A q \in Children : <<>> \in Seq(OutPieceOf(q))
  BY EmptySeq
<1>6. /\ ~writable'[p] /\ ~readable'[p] /\ stdout'[p] = <<>>
      /\ \A q \in Children : q # p =>
           /\ writable'[q] = writable[q] /\ readable'[q] = readable[q]
           /\ stdout'[q] = stdout[q] /\ child'[q] = child[q]
  BY <1>1, <1>2, <1>4
<1>7. /\ child' \in [Children -> {"none", "reading", "printing", "zombie", "reaped"}]
      /\ \/ child'[p] = child[p] /\ Alive(p) /\ active' = active \cup {p}
         \/ child'[p] = "reaped" /\ active' = active
  BY <1>2, <1>4
<1>8. ChildTypeOK'
  <2>1. /\ writable' \in [Children -> BOOLEAN] /\ readable' \in [Children -> BOOLEAN]
        /\ stdout' \in [Children -> Seq(OutPiece)]
    BY <1>1, <1>4, <1>5
  <2>2. ASSUME NEW q \in Children
        PROVE  Len(stdout'[q]) <= Capacity
    <3>1. CASE q = p
      <4>1. Len(stdout'[q]) = 0
        BY <1>5, <1>6, <3>1
      <4> QED BY <4>1
    <3>2. CASE q # p
      BY <1>6, <3>2 DEF TypeOK, ChildTypeOK
    <3> QED BY <3>1, <3>2
  <2> QED BY <1>1, <1>7, <2>1, <2>2 DEF TypeOK, ChildTypeOK
<1>9. TypeOK'
  <2>1. \A q \in held' \cup active' : child'[q] \notin {"none", "reaped"}
    BY <1>1, <1>3, <1>6, <1>7 DEF TypeOK
  <2>2. held' \subseteq Children /\ active' \subseteq Children /\ held' \cap active' = {}
    BY <1>1, <1>7 DEF TypeOK
  <2>3. pc # "idle" => proc # 0 /\ child'[proc] \notin {"none", "reaped"}
    <3>1. pc # "idle" => proc \in Children
      BY DEF TypeOK, Children, Calls
    <3> QED BY <1>3, <1>6, <3>1 DEF TypeOK
  <2> QED BY <1>1, <1>8, <2>1, <2>2, <2>3 DEF TypeOK
<1>10. OwnPieces'
  <2>1. \A q \in Children : stdout'[q] \in Seq(OutPieceOf(q))
    BY <1>5, <1>6 DEF ShimInv, OwnPieces
  <2> QED BY <1>1, <2>1 DEF ShimInv, OwnPieces
<1>11. Callee'
  BY <1>1, <1>3, <1>7 DEF ShimInv, Callee
<1>12. Future'
  <2>1. \A q \in Children : q > call => q # p
    BY <1>3 DEF ShimInv, Future
  <2> QED BY <1>1, <1>6, <2>1 DEF ShimInv, Future
<1>13. pc # "idle" =>
         /\ writable'[proc] = writable[proc] /\ readable'[proc] = readable[proc]
         /\ stdout'[proc] = stdout[proc] /\ child'[proc] = child[proc]
  BY <1>3, <1>6 DEF TypeOK, Children, Calls
<1>14. FirstLine' /\ Closing' /\ AnswersMatch'
  BY <1>1, <1>13 DEF ShimInv, FirstLine, StartsWell, Closing, AnswersMatch, Alive
<1>15. NoStrays'
  <2> SUFFICES ASSUME NEW q \in Children, pc = "idle" \/ q # proc
               PROVE  /\ child'[q] \in {"reading", "printing", "zombie"} =>
                             answer[q] = Error /\ q \in held' \cup active'
                      /\ child'[q] \in {"reading", "printing"} => q \in sigterm
                      /\ writable'[q] \/ readable'[q] => q \in held'
    BY <1>1 DEF NoStrays, Alive
  <2>1. CASE q = p
    BY <1>6, <1>7, <2>1 DEF ShimInv, NoStrays, Alive
  <2>2. CASE q # p
    BY <1>1, <1>6, <1>7, <2>2 DEF ShimInv, NoStrays, Alive
  <2> QED BY <2>1, <2>2
<1> QED BY <1>9, <1>10, <1>11, <1>12, <1>14, <1>15 DEF ShimInv

-----------------------------------------------------------------------------
(* Every step keeps the invariant                                            *)

LEMMA ShimInit == Init => TypeOK /\ ShimInv
<1> SUFFICES ASSUME Init PROVE TypeOK /\ ShimInv
  OBVIOUS
<1>1. /\ <<>> \in Seq(Piece) /\ <<>> \in Seq(OutPiece) /\ Len(<<>>) = 0
      /\ \A p \in Children : <<>> \in Seq(PieceOf(p)) /\ <<>> \in Seq(OutPieceOf(p))
  BY EmptySeq
<1>2. \A p \in Children :
        /\ child[p] = "none" /\ ~writable[p] /\ ~readable[p]
        /\ stdin[p] = <<>> /\ taken[p] = <<>> /\ stdout[p] = <<>> /\ toPrint[p] = <<>>
  BY DEF Init, ChildInit
<1>3. /\ pc = "idle" /\ call = 0 /\ kind = "string" /\ proc = 0
      /\ unsent = <<>> /\ line = <<>> /\ answer = [n \in Calls |-> Pending]
      /\ held = {} /\ active = {} /\ sigterm = {} /\ program \in {"go", "nim"}
  BY DEF Init, ChildInit
<1>4. ChildTypeOK
  <2>1. /\ stdin \in [Children -> Seq(Piece)] /\ stdout \in [Children -> Seq(OutPiece)]
        /\ taken \in [Children -> Seq(Piece)] /\ toPrint \in [Children -> Seq(OutPiece)]
    BY <1>1 DEF Init, ChildInit
  <2>2. /\ child \in [Children -> {"none", "reading", "printing", "zombie", "reaped"}]
        /\ writable \in [Children -> BOOLEAN] /\ readable \in [Children -> BOOLEAN]
    BY DEF Init, ChildInit
  <2>3. ASSUME NEW p \in Children
        PROVE  Len(stdin[p]) <= Capacity /\ Len(stdout[p]) <= Capacity
    <3>1. Len(stdin[p]) = 0 /\ Len(stdout[p]) = 0
      BY <1>1, <1>2
    <3> QED BY <3>1
  <2> QED BY <1>3, <2>1, <2>2, <2>3 DEF ChildTypeOK
<1>5. TypeOK
  BY <1>1, <1>3, <1>4 DEF TypeOK, Kinds
<1>6. OwnPieces
  BY <1>1, <1>2, <1>3 DEF OwnPieces
<1>7. Callee /\ Future /\ FirstLine /\ Closing
  BY <1>2, <1>3 DEF Callee, Future, FirstLine, Closing
<1>8. AnswersMatch /\ NoStrays
  BY <1>2, <1>3 DEF AnswersMatch, NoStrays, Alive
<1> QED BY <1>5, <1>6, <1>7, <1>8 DEF ShimInv

LEMMA ShimStep == TypeOK /\ ShimInv /\ [Next]_vars => TypeOK' /\ ShimInv'
<1> SUFFICES ASSUME TypeOK, ShimInv, [Next]_vars PROVE TypeOK' /\ ShimInv'
  OBVIOUS
<1>1. CASE Popen \/ PopenRaises
  BY <1>1, PopenInv, PopenRaisesInv
<1>2. CASE Write \/ Flush \/ Readline
  BY <1>2, WriteInv, FlushInv, ReadlineInv
<1>3. CASE BrokenPipe \/ LoadsRaises
  <2>1. /\ pc # "idle" /\ ~Alive(proc) /\ Raise
        /\ UNCHANGED <<childVars, call, kind, proc, active>>
    BY <1>3 DEF BrokenPipe, LoadsRaises
  <2> QED BY <2>1, RaiseInv
<1>4. CASE WaitRaises
  <2>1. /\ pc = "wait" /\ Alive(proc) /\ Raise
        /\ UNCHANGED <<childVars, call, kind, proc, active>>
    BY <1>4 DEF WaitRaises
  <2>2. proc \in sigterm
    BY <2>1 DEF ShimInv, Closing
  <2> QED BY <2>1, <2>2, RaiseInv
<1>5. CASE Close \/ Terminate \/ Wait
  BY <1>5, CloseInv, TerminateInv, WaitInv
<1>6. ASSUME NEW p \in Children, Collect(p)
      PROVE  TypeOK' /\ ShimInv'
  BY <1>6, CollectInv
<1>7. ASSUME NEW p \in Children, ChildStep(p) \/ Crash(p), UNCHANGED handleVars
      PROVE  TypeOK' /\ ShimInv'
  <2>1. ChildEffect(p)
    BY <1>7, ChildEffects DEF ShimInv
  <2> QED BY <2>1, ChildInv
<1>8. CASE UNCHANGED vars
  <2>1. ChildTypeOK'
    BY <1>8 DEF vars, childVars, pipeVars, TypeOK, ChildTypeOK
  <2>2. TypeOK'
    BY <1>8, <2>1 DEF vars, childVars, handleVars, TypeOK
  <2>3. OwnPieces' /\ Callee' /\ Future'
    BY <1>8 DEF vars, childVars, pipeVars, handleVars, ShimInv, OwnPieces, Callee, Future
  <2>4. FirstLine' /\ Closing'
    BY <1>8 DEF vars, childVars, pipeVars, handleVars, ShimInv, FirstLine, StartsWell,
                Closing, Alive
  <2>5. AnswersMatch' /\ NoStrays'
    BY <1>8 DEF vars, childVars, pipeVars, handleVars, ShimInv, AnswersMatch, NoStrays, Alive
  <2> QED BY <2>2, <2>3, <2>4, <2>5 DEF ShimInv
<1> QED BY <1>1, <1>2, <1>3, <1>4, <1>5, <1>6, <1>7, <1>8 DEF Next, HandleStep, ChildRuns

LEMMA ShimInvariant == FairSpec => [](TypeOK /\ ShimInv)
<1>1. Init => TypeOK /\ ShimInv
  BY ShimInit
<1>2. (TypeOK /\ ShimInv) /\ [Next]_vars => (TypeOK /\ ShimInv)'
  BY ShimStep
<1> QED BY <1>1, <1>2, PTL DEF Spec, FairSpec

(* Type correctness: a running call has a child that nobody has reaped, an   *)
(* answer is taken from a line that was read, and no pipe holds too much.    *)
THEOREM TypeCorrect == FairSpec => []TypeOK
<1> QED BY ShimInvariant, PTL

(* What a call returns is the first line that its own child wrote about its  *)
(* own event, and never the blank response after an error of the decoder.    *)
THEOREM AnswersAreOwn == FairSpec => []AnswersMatch
<1>1. ShimInv => AnswersMatch
  BY DEF ShimInv
<1> QED BY <1>1, ShimInvariant, PTL

(* Only an exception leaves a child, a zombie or an open pipe behind, and no *)
(* child is left running without a SIGTERM.                                  *)
THEOREM StraysAreKnown == FairSpec => []NoStrays
<1>1. ShimInv => NoStrays
  BY DEF ShimInv
<1> QED BY <1>1, ShimInvariant, PTL
=============================================================================
