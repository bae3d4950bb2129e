--------------------------- MODULE LogPipelineLines ---------------------------
(***************************************************************************)
(* What the pipeline does to the lines, for every value of the constants:  *)
(* none is lost without a sign, doubled or overtaken, and LogPipeline      *)
(* implements LogDelivery.                                                 *)
(***************************************************************************)
EXTENDS LogPipelineProofs

(* Of one emitter, the lines of A are older than those of B.                *)
Older(A, B) == \A a \in A, b \in B : a.by = b.by => a.n < b.n

(* A sequence of lines that keeps the order of every emitter.               *)
Ordered(s) == \A i, j \in DOMAIN s : i < j /\ s[i].by = s[j].by => s[i].n < s[j].n

Sending == {"inserting", "inserted", "closing", "closed", "failed"}

Known == InFlight \cup stored \cup accepted

(* A line whose second flush is to come is its emitter's newest, and has    *)
(* not been in the pipe.                                                    *)
Drafts == \A e \in Emitters : draft[e] # <<>> =>
    /\ epc[e] = "closing"
    /\ \E l \in Log : draft[e] = <<l>> /\ l.by = e /\ l.n = made[e]
    /\ \A m \in Known : m.by = e => m.n < made[e]

(* Emitters number their lines.                                             *)
Made == \A l \in Known : l.n <= made[l.by]

(* The collector has rows only during a send, those of its buffer, and a    *)
(* log in hand only while it waits for the lock.                            *)
Held ==
    /\ rows # <<>> => spc \in Sending /\ buf = rows
    /\ hand # <<>> => cpc = "waiting"

(* The inserts at the database have no row in common and none twice.        *)
InsertsApart ==
    /\ AtDatabase \cap stored = {}
    /\ \A i \in inserts : IsInjective(i.left)
    /\ \A i, j \in inserts : i # j => Range(i.left) \cap Range(j.left) = {}

LineInv == Drafts /\ Made /\ Held /\ NoOvertaking /\ InsertsApart /\ NoSilentLoss

-----------------------------------------------------------------------------
(* Sequences of lines                                                        *)

LEMMA ConcatRange ==
    ASSUME NEW S, NEW s \in Seq(S), NEW t \in Seq(S)
    PROVE  Range(s \o t) = Range(s) \cup Range(t)
<1> DEFINE c == s \o t
<1>1. /\ c \in Seq(S) /\ Len(c) = Len(s) + Len(t) /\ Len(s) \in Nat /\ Len(t) \in Nat
      /\ \A i \in 1..Len(s) + Len(t) : c[i] = IF i <= Len(s) THEN s[i] ELSE t[i - Len(s)]
  BY ConcatProperties, LenProperties
<1>2. DOMAIN s = 1..Len(s) /\ DOMAIN t = 1..Len(t) /\ DOMAIN c = 1..Len(s) + Len(t)
  BY <1>1, LenProperties
<1> HIDE DEF c
<1>3. ASSUME NEW i \in 1..Len(s) + Len(t)
      PROVE  c[i] \in Range(s) \cup Range(t)
  <2>1. CASE i <= Len(s)
    <3>1. i \in 1..Len(s) /\ c[i] = s[i]
      BY <1>1, <2>1
    <3> QED BY <1>2, <3>1 DEF Range
  <2>2. CASE ~(i <= Len(s))
    <3>1. i - Len(s) \in 1..Len(t) /\ c[i] = t[i - Len(s)]
      BY <1>1, <2>2
    <3> QED BY <1>2, <3>1 DEF Range
  <2> QED BY <2>1, <2>2
<1>4. ASSUME NEW i \in 1..Len(s)
      PROVE  s[i] \in Range(c)
  <2>1. i \in 1..Len(s) + Len(t) /\ c[i] = s[i]
    BY <1>1
  <2> QED BY <1>2, <2>1 DEF Range
<1>5. ASSUME NEW i \in 1..Len(t)
      PROVE  t[i] \in Range(c)
  <2>1. /\ i + Len(s) \in 1..Len(s) + Len(t) /\ ~(i + Len(s) <= Len(s))
        /\ (i + Len(s)) - Len(s) = i
    BY <1>1
  <2>2. c[i + Len(s)] = t[i]
    BY <1>1, <2>1
  <2> QED BY <1>2, <2>1, <2>2 DEF Range
<1>6. Range(c) \subseteq Range(s) \cup Range(t)
  BY <1>2, <1>3 DEF Range
<1>7. Range(s) \subseteq Range(c) /\ Range(t) \subseteq Range(c)
  BY <1>2, <1>4, <1>5 DEF Range
<1> QED BY <1>6, <1>7 DEF c

LEMMA ConcatOrdered ==
    ASSUME NEW s \in Seq(Log), NEW t \in Seq(Log)
    PROVE  Ordered(s \o t) <=> Ordered(s) /\ Ordered(t) /\ Older(Range(s), Range(t))
<1> DEFINE c == s \o t
<1>1. /\ c \in Seq(Log) /\ Len(c) = Len(s) + Len(t) /\ Len(s) \in Nat /\ Len(t) \in Nat
      /\ \A i \in 1..Len(s) + Len(t) : c[i] = IF i <= Len(s) THEN s[i] ELSE t[i - Len(s)]
  BY ConcatProperties, LenProperties
<1>2. DOMAIN s = 1..Len(s) /\ DOMAIN t = 1..Len(t) /\ DOMAIN c = 1..Len(s) + Len(t)
  BY <1>1, LenProperties
<1> HIDE DEF c
<1>3. ASSUME NEW i \in 1..Len(s)
      PROVE  i \in 1..Len(s) + Len(t) /\ c[i] = s[i]
  BY <1>1
<1>4. ASSUME NEW i \in 1..Len(t)
      PROVE  i + Len(s) \in 1..Len(s) + Len(t) /\ c[i + Len(s)] = t[i]
  <2>1. /\ i + Len(s) \in 1..Len(s) + Len(t) /\ ~(i + Len(s) <= Len(s))
        /\ (i + Len(s)) - Len(s) = i
    BY <1>1
  <2> QED BY <1>1, <2>1
<1>5. ASSUME Ordered(c)
      PROVE  Ordered(s) /\ Ordered(t) /\ Older(Range(s), Range(t))
  <2>0. \A i, j \in 1..Len(s) + Len(t) : i < j /\ c[i].by = c[j].by => c[i].n < c[j].n
    BY <1>2, <1>5 DEF Ordered
  <2>1. Ordered(s)
    BY <1>2, <1>3, <2>0 DEF Ordered
  <2>2. Ordered(t)
    <3> SUFFICES ASSUME NEW i \in 1..Len(t), NEW j \in 1..Len(t), i < j, t[i].by = t[j].by
                 PROVE  t[i].n < t[j].n
      BY <1>2 DEF Ordered
    <3>1. i + Len(s) < j + Len(s)
      BY <1>1
    <3> QED BY <1>4, <2>0, <3>1
  <2>3. Older(Range(s), Range(t))
    <3> SUFFICES ASSUME NEW i \in 1..Len(s), NEW j \in 1..Len(t), s[i].by = t[j].by
                 PROVE  s[i].n < t[j].n
      BY <1>2 DEF Older, Range
    <3>1. i < j + Len(s)
      BY <1>1
    <3> QED BY <1>3, <1>4, <2>0, <3>1
  <2> QED BY <2>1, <2>2, <2>3
<1>6. ASSUME Ordered(s), Ordered(t), Older(Range(s), Range(t))
      PROVE  Ordered(c)
  <2> SUFFICES ASSUME NEW i \in 1..Len(s) + Len(t), NEW j \in 1..Len(s) + Len(t), i < j,
                      c[i].by = c[j].by
               PROVE  c[i].n < c[j].n
    BY <1>2 DEF Ordered
  <2>1. CASE j <= Len(s)
    <3>1. i \in 1..Len(s) /\ j \in 1..Len(s) /\ c[i] = s[i] /\ c[j] = s[j]
      BY <1>1, <2>1
    <3> QED BY <1>2, <1>6, <3>1 DEF Ordered
  <2>2. CASE ~(j <= Len(s)) /\ i <= Len(s)
    <3>1. i \in 1..Len(s) /\ j - Len(s) \in 1..Len(t) /\ c[i] = s[i] /\ c[j] = t[j - Len(s)]
      BY <1>1, <2>2
    <3>2. c[i] \in Range(s) /\ c[j] \in Range(t)
      BY <1>2, <3>1 DEF Range
    <3> QED BY <1>6, <3>2 DEF Older
  <2>3. CASE ~(i <= Len(s))
    <3>1. /\ i - Len(s) \in 1..Len(t) /\ j - Len(s) \in 1..Len(t)
          /\ i - Len(s) < j - Len(s)
          /\ c[i] = t[i - Len(s)] /\ c[j] = t[j - Len(s)]
      BY <1>1, <2>3
    <3> QED BY <1>2, <1>6, <3>1 DEF Ordered
  <2> QED BY <2>1, <2>2, <2>3
<1> QED BY <1>5, <1>6 DEF c

(* Three sequences in one, joined from the left or from the right.           *)
FromLeft(s, t, u)  == (s \o t) \o u
FromRight(s, t, u) == s \o (t \o u)

LEMMA Regroup == \A s, t, u \in Seq(Log) : FromLeft(s, t, u) = FromRight(s, t, u)
<1> SUFFICES ASSUME NEW s \in Seq(Log), NEW t \in Seq(Log), NEW u \in Seq(Log)
             PROVE  (s \o t) \o u = s \o (t \o u)
  BY DEF FromLeft, FromRight
<1> QED BY ConcatAssociative

(* The four parts of the way of a line.                                      *)
Way(u, h, a, p) == u \o h \o a \o p

LEMMA PartsType == \A u, h, a, p \in Seq(Log) : Way(u, h, a, p) \in Seq(Log)
<1> SUFFICES ASSUME NEW u \in Seq(Log), NEW h \in Seq(Log), NEW a \in Seq(Log), NEW p \in Seq(Log)
             PROVE  ((u \o h) \o a) \o p \in Seq(Log)
  BY DEF Way
<1> DEFINE uh == u \o h
           uha == uh \o a
<1>1. uh \in Seq(Log)
  BY ConcatProperties
<1>2. uha \in Seq(Log)
  <2> HIDE DEF uh
  <2> QED BY <1>1, ConcatProperties
<1> HIDE DEF uha
<1>3. uha \o p \in Seq(Log)
  BY <1>2, ConcatProperties
<1> QED BY <1>3 DEF uha, uh

LEMMA PartsRange ==
    \A u, h, a, p \in Seq(Log) :
        Range(Way(u, h, a, p)) = Range(u) \cup Range(h) \cup Range(a) \cup Range(p)
<1> SUFFICES ASSUME NEW u \in Seq(Log), NEW h \in Seq(Log), NEW a \in Seq(Log), NEW p \in Seq(Log)
             PROVE  Range(((u \o h) \o a) \o p)
                        = Range(u) \cup Range(h) \cup Range(a) \cup Range(p)
  BY DEF Way
<1> DEFINE uh == u \o h
           uha == uh \o a
<1>1. uh \in Seq(Log) /\ Range(uh) = Range(u) \cup Range(h)
  BY ConcatRange, ConcatProperties
<1>2. uha \in Seq(Log) /\ Range(uha) = Range(uh) \cup Range(a)
  <2> HIDE DEF uh
  <2>1. uh \o a \in Seq(Log)
    BY <1>1, ConcatProperties
  <2>2. Range(uh \o a) = Range(uh) \cup Range(a)
    BY <1>1, ConcatRange
  <2> QED BY <2>1, <2>2
<1> HIDE DEF uha
<1>3. Range(uha \o p) = Range(uha) \cup Range(p)
  BY <1>2, ConcatRange
<1> HIDE DEF uh
<1>4. Range(uha \o p) = Range(u) \cup Range(h) \cup Range(a) \cup Range(p)
  BY <1>1, <1>2, <1>3
<1> QED BY <1>4 DEF uha, uh

LEMMA PartsOrdered ==
    \A u, h, a, p \in Seq(Log) :
        Ordered(Way(u, h, a, p)) <=>
            /\ Ordered(u) /\ Ordered(h) /\ Ordered(a) /\ Ordered(p)
            /\ Older(Range(u), Range(h))
            /\ Older(Range(u) \cup Range(h), Range(a))
            /\ Older(Range(u) \cup Range(h) \cup Range(a), Range(p))
<1> SUFFICES ASSUME NEW u \in Seq(Log), NEW h \in Seq(Log), NEW a \in Seq(Log), NEW p \in Seq(Log)
             PROVE  Ordered(((u \o h) \o a) \o p) <=>
                        /\ Ordered(u) /\ Ordered(h) /\ Ordered(a) /\ Ordered(p)
                        /\ Older(Range(u), Range(h))
                        /\ Older(Range(u) \cup Range(h), Range(a))
                        /\ Older(Range(u) \cup Range(h) \cup Range(a), Range(p))
  BY DEF Way
<1> DEFINE uh == u \o h
           uha == uh \o a
<1>1. /\ uh \in Seq(Log) /\ Range(uh) = Range(u) \cup Range(h)
      /\ Ordered(uh) <=> Ordered(u) /\ Ordered(h) /\ Older(Range(u), Range(h))
  BY ConcatRange, ConcatOrdered, ConcatProperties
<1>2. /\ uha \in Seq(Log) /\ Range(uha) = Range(uh) \cup Range(a)
      /\ Ordered(uha) <=> Ordered(uh) /\ Ordered(a) /\ Older(Range(uh), Range(a))
  <2> HIDE DEF uh
  <2>1. uh \o a \in Seq(Log)
    BY <1>1, ConcatProperties
  <2>2. Range(uh \o a) = Range(uh) \cup Range(a)
    BY <1>1, ConcatRange
  <2>3. Ordered(uh \o a) <=> Ordered(uh) /\ Ordered(a) /\ Older(Range(uh), Range(a))
    BY <1>1, ConcatOrdered
  <2> QED BY <2>1, <2>2, <2>3
<1> HIDE DEF uha
<1>3. Ordered(uha \o p) <=> Ordered(uha) /\ Ordered(p) /\ Older(Range(uha), Range(p))
  BY <1>2, ConcatOrdered
<1> HIDE DEF uh
<1>4. Ordered(uha \o p) <=>
          /\ Ordered(u) /\ Ordered(h) /\ Ordered(a) /\ Ordered(p)
          /\ Older(Range(u), Range(h))
          /\ Older(Range(u) \cup Range(h), Range(a))
          /\ Older(Range(u) \cup Range(h) \cup Range(a), Range(p))
  BY <1>1, <1>2, <1>3
<1> QED BY <1>4 DEF uha, uh

(* The way is the first part and the rest of it.                             *)
FirstAndRest(u, h, a, p) == u \o (h \o (a \o p))

LEMMA PartsRight ==
    \A u, h, a, p \in Seq(Log) : Way(u, h, a, p) = FirstAndRest(u, h, a, p)
<1> SUFFICES ASSUME NEW u \in Seq(Log), NEW h \in Seq(Log), NEW a \in Seq(Log), NEW p \in Seq(Log)
             PROVE  ((u \o h) \o a) \o p = u \o (h \o (a \o p))
  BY DEF Way, FirstAndRest
<1> DEFINE uh == u \o h
           ap == a \o p
<1>1. uh \in Seq(Log) /\ ap \in Seq(Log)
  BY ConcatProperties
<1> HIDE DEF uh, ap
<1>2. FromLeft(u, h, ap) = FromRight(u, h, ap)
  BY <1>1, Regroup
<1>3. FromLeft(uh, a, p) = FromRight(uh, a, p)
  BY <1>1, Regroup
<1>4. uh \o ap = u \o (h \o ap)
  BY <1>2 DEF FromLeft, FromRight, uh
<1>5. (uh \o a) \o p = uh \o ap
  BY <1>3 DEF FromLeft, FromRight, ap
<1> QED BY <1>4, <1>5 DEF uh, ap

LEMMA WithoutHand ==
    \A u, a, p \in Seq(Log) : Way(u, <<>>, a, p) = FromRight(u, a, p)
<1> SUFFICES ASSUME NEW u \in Seq(Log), NEW a \in Seq(Log), NEW p \in Seq(Log)
             PROVE  Way(u, <<>>, a, p) = u \o (a \o p)
  BY DEF FromRight
<1> DEFINE ap == a \o p
<1>1. ap \in Seq(Log)
  BY ConcatProperties
<1>2. <<>> \o ap = ap
  <2> HIDE DEF ap
  <2> QED BY <1>1, ConcatEmptySeq
<1>3. Way(u, <<>>, a, p) = u \o (<<>> \o (a \o p))
  <2> DEFINE none == <<>>
  <2>1. none \in Seq(Log)
    BY EmptySeq
  <2> HIDE DEF none
  <2>2. Way(u, none, a, p) = FirstAndRest(u, none, a, p)
    BY <2>1, PartsRight
  <2> QED BY <2>2 DEF FirstAndRest, none
<1> QED BY <1>2, <1>3

LEMMA OnTheWayIs ==
    /\ OnTheWay = Way(Unsent, hand, ahead, pipe)
    /\ OnTheWay' = Way(Unsent', hand', ahead', pipe')
BY DEF OnTheWay, Way

LEMMA OneLine ==
    ASSUME NEW l \in Log
    PROVE  <<l>> \in Seq(Log) /\ Range(<<l>>) = {l} /\ Ordered(<<l>>)
<1>1. DOMAIN <<l>> = {1} /\ <<l>>[1] = l
  OBVIOUS
<1> QED BY <1>1 DEF Range, Ordered

LEMMA NoLine == <<>> \in Seq(Log) /\ Range(<<>>) = {} /\ Ordered(<<>>)
<1>1. DOMAIN <<>> = {}
  OBVIOUS
<1> QED BY <1>1, EmptySeq DEF Range, Ordered

LEMMA OrderedInjective ==
    ASSUME NEW s \in Seq(Log), Ordered(s)
    PROVE  IsInjective(s)
<1>0. \A i \in 1..Len(s) : s[i] \in Log
  BY ElementOfSeq
<1>1. DOMAIN s = 1..Len(s) /\ Len(s) \in Nat /\ \A i \in 1..Len(s) : s[i].n \in Nat
  BY <1>0, LenProperties DEF Log
<1> SUFFICES ASSUME NEW i \in 1..Len(s), NEW j \in 1..Len(s), s[i] = s[j], i # j
             PROVE  FALSE
  BY <1>1 DEF IsInjective
<1>2. i < j \/ j < i
  BY <1>1
<1> QED BY <1>1, <1>2 DEF Ordered

LEMMA HeadAndTail ==
    ASSUME NEW s \in Seq(Log), s # <<>>
    PROVE  /\ Head(s) \in Log /\ Tail(s) \in Seq(Log) /\ s = <<Head(s)>> \o Tail(s)
           /\ Range(s) = {Head(s)} \cup Range(Tail(s))
           /\ IsInjective(s) => IsInjective(Tail(s)) /\ Head(s) \notin Range(Tail(s))
<1> DEFINE r == Tail(s)
<1>1. /\ r \in Seq(Log) /\ Len(r) = Len(s) - 1 /\ Len(s) \in Nat \ {0} /\ Head(s) \in Log
      /\ \A i \in 1..Len(r) : r[i] = s[i + 1]
  BY HeadTailProperties, LenProperties, EmptySeq
<1>2. DOMAIN s = 1..Len(s) /\ DOMAIN r = 1..Len(s) - 1 /\ Head(s) = s[1]
  BY <1>1, LenProperties
<1>3. s = <<Head(s)>> \o r
  <2>1. 1 \in 1..Len(s) /\ Len(s) \in 1..Len(s)
    BY <1>1
  <2>2. SubSeq(s, 1, Len(s)) = <<s[1]>> \o SubSeq(s, 1 + 1, Len(s))
    BY <2>1, SubSeqRecursiveFirst
  <2>3. SubSeq(s, 1, Len(s)) = s /\ r = SubSeq(s, 2, Len(s))
    BY SubSeqFull, TailIsSubSeq
  <2> QED BY <1>2, <2>2, <2>3
<1>4. Range(s) = {Head(s)} \cup Range(r)
  <2> DEFINE h == <<Head(s)>>
  <2>1. h \in Seq(Log) /\ Range(h) = {Head(s)}
    BY <1>1, OneLine
  <2> HIDE DEF h, r
  <2>2. Range(h \o r) = Range(h) \cup Range(r)
    BY <1>1, <2>1, ConcatRange
  <2> QED BY <1>3, <2>1, <2>2 DEF h
<1> HIDE DEF r
<1>5. ASSUME IsInjective(s)
      PROVE  IsInjective(r) /\ Head(s) \notin Range(r)
  <2>0. \A i \in 1..Len(s) - 1 : i + 1 \in 1..Len(s) /\ i + 1 # 1 /\ r[i] = s[i + 1]
    BY <1>1
  <2>1. \A i, j \in 1..Len(s) : s[i] = s[j] => i = j
    BY <1>2, <1>5 DEF IsInjective
  <2>2. ASSUME NEW i \in 1..Len(s) - 1, NEW j \in 1..Len(s) - 1, r[i] = r[j]
        PROVE  i = j
    <3>1. i + 1 = j + 1
      BY <2>0, <2>1, <2>2
    <3> QED BY <3>1
  <2>3. ASSUME NEW i \in 1..Len(s) - 1
        PROVE  r[i] # s[1]
    <3>1. 1 \in 1..Len(s)
      BY <1>1
    <3> QED BY <2>0, <2>1, <3>1
  <2> QED BY <1>2, <2>2, <2>3 DEF IsInjective, Range
<1> QED BY <1>1, <1>3, <1>4, <1>5 DEF r

(* readline takes the first line of what is ahead of it.                     *)
LEMMA ReadLineFirst ==
    ASSUME ahead \in Seq(Log), pipe \in Seq(Log), NEW l, ReadLine(l)
    PROVE  /\ l \in Log /\ ahead' \in Seq(Log) /\ pipe' \in Seq(Log)
           /\ ahead \o pipe = <<l>> \o (ahead' \o pipe')
<1>0. l \in Log /\ ahead' \in Seq(Log) /\ pipe' \in Seq(Log)
  BY ReadLineType
<1>1. <<l>> \in Seq(Log)
  BY <1>0, OneLine
<1>2. CASE ahead # <<>> /\ l = Head(ahead) /\ ahead' = Tail(ahead) /\ pipe' = pipe
  <2>1. ahead = <<l>> \o ahead'
    BY <1>2, HeadAndTail
  <2>2. (<<l>> \o ahead') \o pipe' = <<l>> \o (ahead' \o pipe')
    <3> DEFINE h == <<l>>
    <3> HIDE DEF h
    <3>1. h \in Seq(Log)
      BY <1>1 DEF h
    <3>2. FromLeft(h, ahead', pipe') = FromRight(h, ahead', pipe')
      BY <1>0, <3>1, Regroup
    <3> QED BY <3>2 DEF FromLeft, FromRight, h
  <2> QED BY <1>0, <1>2, <2>1, <2>2
<1>3. CASE /\ ahead = <<>> /\ pipe # <<>> /\ l = Head(pipe)
           /\ \E k \in 1..Len(pipe) :
                ahead' = SubSeq(pipe, 2, k) /\ pipe' = SubSeq(pipe, k + 1, Len(pipe))
  <2>1. PICK k \in 1..Len(pipe) :
               ahead' = SubSeq(pipe, 2, k) /\ pipe' = SubSeq(pipe, k + 1, Len(pipe))
    BY <1>3
  <2>2. Len(pipe) \in Nat /\ k \in 1..Len(pipe) /\ 2 \in 1..Len(pipe) + 1
        /\ k \in 2 - 1..Len(pipe) /\ Len(pipe) \in k..Len(pipe)
    BY LenProperties
  <2>3. ahead' \o pipe' = SubSeq(pipe, 2, Len(pipe))
    BY <2>1, <2>2, ConcatAdjacentSubSeq
  <2>4. SubSeq(pipe, 2, Len(pipe)) = Tail(pipe)
    BY <1>3, TailIsSubSeq
  <2>5. pipe = <<l>> \o Tail(pipe)
    BY <1>3, HeadAndTail
  <2>6. ahead \o pipe = pipe
    BY <1>3, ConcatEmptySeq
  <2> QED BY <1>0, <2>3, <2>4, <2>5, <2>6
<1> QED BY <1>0, <1>2, <1>3 DEF ReadLine

-----------------------------------------------------------------------------
(* The way of the lines                                                      *)

(* What a step of the collector or of the database does to the lines: it    *)
(* stores one that was in flight, or it leaves some, and these are lost.    *)
Moves ==
    /\ NoOvertaking' /\ InsertsApart'
    /\ InFlight \cup stored \cup lost \subseteq InFlight' \cup stored' \cup lost'
    /\ \/ stored' = stored /\ InFlight' \subseteq InFlight
       \/ \E l \in InFlight : stored' = stored \cup {l} /\ InFlight' = InFlight \ {l}

LEMMA WayType ==
    ASSUME TypeOK
    PROVE  /\ Unsent \in Seq(Log) /\ hand \in Seq(Log) /\ ahead \in Seq(Log)
           /\ pipe \in Seq(Log)
           /\ OnTheWay \in Seq(Log)
           /\ Range(OnTheWay) = Range(Unsent) \cup Range(hand) \cup Range(ahead) \cup Range(pipe)
<1>1. /\ Unsent \in Seq(Log) /\ hand \in Seq(Log) /\ ahead \in Seq(Log)
      /\ pipe \in Seq(Log)
  BY NoLine DEF TypeOK, PipeTypeOK, CollectorTypeOK, Unsent
<1>2. Way(Unsent, hand, ahead, pipe) \in Seq(Log)
  BY <1>1, PartsType
<1>3. Range(Way(Unsent, hand, ahead, pipe))
          = Range(Unsent) \cup Range(hand) \cup Range(ahead) \cup Range(pipe)
  BY <1>1, PartsRange
<1>4. OnTheWay = Way(Unsent, hand, ahead, pipe)
  BY OnTheWayIs
<1> QED BY <1>1, <1>2, <1>3, <1>4

(* Everything the invariant speaks of is a line.                            *)
LEMMA LinesType ==
    ASSUME TypeOK
    PROVE  /\ Range(OnTheWay) \subseteq Log /\ AtDatabase \subseteq Log
           /\ InFlight \subseteq Log /\ Known \subseteq Log
           /\ \A l \in Log : l.n \in Nat /\ l.by \in Emitters
<1>1. Range(OnTheWay) \subseteq Log
  BY WayType, RangeType
<1>2. \A i \in inserts : i.left \in Seq(Log)
  BY DEF TypeOK, CollectorTypeOK
<1>3. \A i \in inserts : Range(i.left) \subseteq Log
  BY <1>2, RangeType
<1>4. AtDatabase \subseteq Log
  BY <1>3 DEF AtDatabase
<1>5. stored \subseteq Log /\ accepted \subseteq Log
  BY DEF TypeOK, CollectorTypeOK, EmitterTypeOK
<1> QED BY <1>1, <1>4, <1>5 DEF InFlight, Known, Log

LEMMA OvertakingIs ==
    /\ NoOvertaking <=>
         Ordered(OnTheWay) /\ Older(stored \cup AtDatabase, Range(OnTheWay))
    /\ NoOvertaking' <=>
         Ordered(OnTheWay') /\ Older(stored' \cup AtDatabase', Range(OnTheWay'))
BY DEF NoOvertaking, Ordered, Older

(* In order means apart.                                                    *)
LEMMA OrderSeparates ==
    ASSUME TypeOK, NoOvertaking
    PROVE  Range(OnTheWay) \cap (stored \cup AtDatabase) = {} /\ IsInjective(OnTheWay)
<1>1. \A l \in Range(OnTheWay) : l.n \in Nat
  BY LinesType
<1>2. Range(OnTheWay) \cap (stored \cup AtDatabase) = {}
  BY <1>1 DEF NoOvertaking
<1> QED BY <1>2, WayType, OrderedInjective, OvertakingIs

(* The lines that are on the way stay there.                                *)
LEMMA WayKept ==
    ASSUME LineInv, OnTheWay' = OnTheWay, UNCHANGED <<inserts, stored, lost>>
    PROVE  Moves
BY DEF LineInv, Moves, NoOvertaking, InsertsApart, InFlight, AtDatabase

(* Some parts of the way are emptied.                                       *)
LEMMA WayThinned ==
    ASSUME TypeOK, NoOvertaking,
           Unsent' \in {Unsent, <<>>}, hand' \in {hand, <<>>}, ahead' \in {ahead, <<>>},
           pipe' \in {pipe, <<>>}, stored' = stored, AtDatabase' \subseteq AtDatabase
    PROVE  /\ NoOvertaking'
           /\ Range(OnTheWay')
                = Range(Unsent') \cup Range(hand') \cup Range(ahead') \cup Range(pipe')
           /\ InFlight' \subseteq InFlight
<1>1. /\ Unsent \in Seq(Log) /\ hand \in Seq(Log) /\ ahead \in Seq(Log) /\ pipe \in Seq(Log)
      /\ Range(OnTheWay) = Range(Unsent) \cup Range(hand) \cup Range(ahead) \cup Range(pipe)
  BY WayType
<1>2. Unsent' \in Seq(Log) /\ hand' \in Seq(Log) /\ ahead' \in Seq(Log) /\ pipe' \in Seq(Log)
  BY <1>1, NoLine
<1>3. /\ Range(Unsent') \subseteq Range(Unsent) /\ Range(hand') \subseteq Range(hand)
      /\ Range(ahead') \subseteq Range(ahead) /\ Range(pipe') \subseteq Range(pipe)
  BY NoLine
<1>4. Range(OnTheWay') = Range(Unsent') \cup Range(hand') \cup Range(ahead') \cup Range(pipe')
  BY <1>2, PartsRange, OnTheWayIs
<1>5. Ordered(OnTheWay) /\ Older(stored \cup AtDatabase, Range(OnTheWay))
  BY OvertakingIs
<1>6. /\ Ordered(Unsent) /\ Ordered(hand) /\ Ordered(ahead) /\ Ordered(pipe)
      /\ Older(Range(Unsent), Range(hand))
      /\ Older(Range(Unsent) \cup Range(hand), Range(ahead))
      /\ Older(Range(Unsent) \cup Range(hand) \cup Range(ahead), Range(pipe))
  BY <1>1, <1>5, PartsOrdered, OnTheWayIs
<1>7. Ordered(Unsent') /\ Ordered(hand') /\ Ordered(ahead') /\ Ordered(pipe')
  BY <1>6, NoLine
<1>8. /\ Older(Range(Unsent'), Range(hand'))
      /\ Older(Range(Unsent') \cup Range(hand'), Range(ahead'))
      /\ Older(Range(Unsent') \cup Range(hand') \cup Range(ahead'), Range(pipe'))
  BY <1>3, <1>6 DEF Older
<1>9. Ordered(OnTheWay')
  BY <1>2, <1>7, <1>8, PartsOrdered, OnTheWayIs
<1>10. Range(OnTheWay') \subseteq Range(OnTheWay)
  BY <1>1, <1>3, <1>4
<1>11. Older(stored' \cup AtDatabase', Range(OnTheWay'))
  BY <1>5, <1>10 DEF Older
<1> QED BY <1>4, <1>9, <1>10, <1>11, OvertakingIs DEF InFlight

(* The process ends: its memory and perhaps the pipe are lost, the inserts  *)
(* stay at the database.                                                    *)
LEMMA ExitMoves ==
    ASSUME TypeOK, LineInv, Exit
    PROVE  Moves
<1>1. /\ rows' = <<>> /\ buf' = <<>> /\ hand' = <<>> /\ ahead' = <<>> /\ stored' = stored
      /\ inserts' = {[i EXCEPT !.client = FALSE] : i \in inserts}
  BY DEF Exit
<1>2. Unsent' = <<>> /\ pipe' \in {pipe, <<>>}
  BY <1>1 DEF Unsent, Exit, CloseRead, Kept
<1>3. lost' = lost \cup (Range(ahead) \cup Range(hand) \cup (Range(buf) \ Range(rows)))
                   \cup (Range(pipe) \ Range(pipe'))
  BY DEF Exit, CloseRead
<1>4. \A i \in inserts : [i EXCEPT !.client = FALSE].left = i.left
  BY DEF TypeOK, CollectorTypeOK
<1>5. AtDatabase' = AtDatabase
  <2>1. ASSUME NEW i \in inserts
        PROVE  Range(i.left) \subseteq AtDatabase'
    <3>1. [i EXCEPT !.client = FALSE] \in inserts' /\ [i EXCEPT !.client = FALSE].left = i.left
      BY <1>1, <1>4
    <3> QED BY <3>1 DEF AtDatabase
  <2>2. ASSUME NEW j \in inserts'
        PROVE  Range(j.left) \subseteq AtDatabase
    <3>1. PICK i \in inserts : j = [i EXCEPT !.client = FALSE]
      BY <1>1
    <3>2. j.left = i.left
      BY <1>4, <3>1
    <3> QED BY <3>2 DEF AtDatabase
  <2>3. AtDatabase' \subseteq AtDatabase
    BY <2>2 DEF AtDatabase
  <2>4. AtDatabase \subseteq AtDatabase'
    BY <2>1 DEF AtDatabase
  <2> QED BY <2>3, <2>4
<1>6. InsertsApart'
  <2>1. \A j \in inserts' : \E i \in inserts : j = [i EXCEPT !.client = FALSE] /\ j.left = i.left
    BY <1>1, <1>4
  <2>2. \A i \in inserts' : IsInjective(i.left)
    BY <2>1 DEF LineInv, InsertsApart
  <2>3. \A i, j \in inserts' : i # j => Range(i.left) \cap Range(j.left) = {}
    <3> SUFFICES ASSUME NEW i \in inserts', NEW j \in inserts', i # j
                 PROVE  Range(i.left) \cap Range(j.left) = {}
      OBVIOUS
    <3>1. PICK k \in inserts : i = [k EXCEPT !.client = FALSE] /\ i.left = k.left
      BY <2>1
    <3>2. PICK m \in inserts : j = [m EXCEPT !.client = FALSE] /\ j.left = m.left
      BY <2>1
    <3> QED BY <3>1, <3>2 DEF LineInv, InsertsApart
  <2> QED BY <1>1, <1>5, <2>2, <2>3 DEF LineInv, InsertsApart
<1>7. /\ NoOvertaking' /\ InFlight' \subseteq InFlight
      /\ Range(OnTheWay') = Range(Unsent') \cup Range(hand') \cup Range(ahead') \cup Range(pipe')
  BY <1>1, <1>2, <1>5, WayThinned DEF LineInv
<1>8. Range(Unsent) \subseteq Range(buf) \ Range(rows)
  BY NoLine DEF Unsent
<1>9. Range(OnTheWay) = Range(Unsent) \cup Range(hand) \cup Range(ahead) \cup Range(pipe)
  BY WayType
<1>10. InFlight \cup stored \cup lost \subseteq InFlight' \cup stored' \cup lost'
  BY <1>1, <1>3, <1>5, <1>7, <1>8, <1>9 DEF InFlight
<1> QED BY <1>1, <1>6, <1>7, <1>10 DEF Moves

(* While the lock is free nothing was given to the database that is still   *)
(* in the buffer, and while the collector reads it has no log in hand.      *)
LEMMA FreeBuffer ==
    ASSUME LineInv, LockInv
    PROVE  /\ ~locked => rows = <<>>
           /\ cpc # "waiting" => hand = <<>>
           /\ spc \notin Sending => rows = <<>>
BY DEF LineInv, Held, LockInv, LockHandover, Sending

LEMMA BufferMoves ==
    ASSUME TypeOK, LineInv, LockInv, Buffer
    PROVE  Moves
<1>1. PICK l : ReadLine(l) /\ buf' = Append(buf, l)
  BY DEF Buffer
<1>2. rows = <<>> /\ rows' = <<>> /\ hand = <<>> /\ hand' = <<>>
  BY FreeBuffer DEF Buffer, LockFree, CollectorRuns
<1>3. buf \in Seq(Log) /\ ahead \in Seq(Log) /\ pipe \in Seq(Log)
  BY DEF TypeOK, CollectorTypeOK, PipeTypeOK
<1>4. /\ l \in Log /\ ahead' \in Seq(Log) /\ pipe' \in Seq(Log)
      /\ ahead \o pipe = <<l>> \o (ahead' \o pipe')
  BY <1>1, <1>3, ReadLineFirst
<1> DEFINE r == ahead' \o pipe'
           b == <<l>>
<1>5. r \in Seq(Log) /\ ahead \o pipe \in Seq(Log) /\ b \in Seq(Log)
  BY <1>3, <1>4, ConcatProperties, OneLine
<1>6. buf' = buf \o b /\ buf' \in Seq(Log)
  BY <1>1, <1>3, <1>4, AppendIsConcat, AppendProperties
<1>7. OnTheWay = buf \o (ahead \o pipe)
  <2>1. OnTheWay = Way(buf, <<>>, ahead, pipe)
    BY <1>2, OnTheWayIs DEF Unsent
  <2>2. Way(buf, <<>>, ahead, pipe) = FromRight(buf, ahead, pipe)
    BY <1>3, WithoutHand
  <2> QED BY <2>1, <2>2 DEF FromRight
<1>8. OnTheWay' = buf' \o r
  <2>1. OnTheWay' = Way(buf', <<>>, ahead', pipe')
    BY <1>2, OnTheWayIs DEF Unsent
  <2>2. Way(buf', <<>>, ahead', pipe') = FromRight(buf', ahead', pipe')
    BY <1>4, <1>6, WithoutHand
  <2> QED BY <2>1, <2>2 DEF FromRight
<1> HIDE DEF r, b
<1>9. (buf \o b) \o r = buf \o (b \o r)
  <2>1. FromLeft(buf, b, r) = FromRight(buf, b, r)
    BY <1>3, <1>5, Regroup
  <2> QED BY <2>1 DEF FromLeft, FromRight
<1>10. ahead \o pipe = b \o r
  BY <1>4 DEF b, r
<1>11. OnTheWay' = OnTheWay
  BY <1>6, <1>7, <1>8, <1>9, <1>10
<1> QED BY <1>11, WayKept DEF Buffer, dbVars

LEMMA WaitForLockMoves ==
    ASSUME TypeOK, LineInv, LockInv, WaitForLock
    PROVE  Moves
<1>1. PICK l : ReadLine(l) /\ hand' = <<l>>
  BY DEF WaitForLock
<1>2. hand = <<>> /\ Unsent' = Unsent
  BY FreeBuffer DEF WaitForLock, CollectorRuns, Unsent
<1>3. Unsent \in Seq(Log) /\ ahead \in Seq(Log) /\ pipe \in Seq(Log)
  BY WayType
<1>4. /\ l \in Log /\ ahead' \in Seq(Log) /\ pipe' \in Seq(Log)
      /\ ahead \o pipe = <<l>> \o (ahead' \o pipe')
  BY <1>1, <1>3, ReadLineFirst
<1>5. hand' \in Seq(Log) /\ Unsent' \in Seq(Log)
  BY <1>1, <1>2, <1>3, <1>4, OneLine
<1>6. OnTheWay = Unsent \o (ahead \o pipe)
  <2>1. OnTheWay = Way(Unsent, <<>>, ahead, pipe)
    BY <1>2, OnTheWayIs
  <2>2. Way(Unsent, <<>>, ahead, pipe) = FromRight(Unsent, ahead, pipe)
    BY <1>3, WithoutHand
  <2> QED BY <2>1, <2>2 DEF FromRight
<1>7. OnTheWay' = Unsent' \o (hand' \o (ahead' \o pipe'))
  <2>1. Way(Unsent', hand', ahead', pipe') = FirstAndRest(Unsent', hand', ahead', pipe')
    BY <1>4, <1>5, PartsRight
  <2> QED BY <2>1, OnTheWayIs DEF FirstAndRest
<1>8. hand' \o (ahead' \o pipe') = ahead \o pipe
  BY <1>1, <1>4
<1>9. OnTheWay' = OnTheWay
  BY <1>2, <1>6, <1>7, <1>8
<1> QED BY <1>9, WayKept DEF WaitForLock, dbVars

LEMMA GotLockMoves ==
    ASSUME TypeOK, LineInv, LockInv, GotLock
    PROVE  Moves
<1>1. /\ rows = <<>> /\ rows' = <<>> /\ buf' = buf \o hand /\ hand' = <<>>
      /\ ahead' = ahead /\ pipe' = pipe
  BY FreeBuffer DEF GotLock, LockFree, pipeVars
<1>2. buf \in Seq(Log) /\ hand \in Seq(Log) /\ ahead \in Seq(Log) /\ pipe \in Seq(Log)
  BY DEF TypeOK, CollectorTypeOK, PipeTypeOK
<1> DEFINE r == ahead \o pipe
<1>3. buf' \in Seq(Log) /\ r \in Seq(Log)
  BY <1>1, <1>2, ConcatProperties
<1>4. OnTheWay = buf \o (hand \o r)
  <2>1. OnTheWay = Way(buf, hand, ahead, pipe)
    BY <1>1, OnTheWayIs DEF Unsent
  <2>2. Way(buf, hand, ahead, pipe) = FirstAndRest(buf, hand, ahead, pipe)
    BY <1>2, PartsRight
  <2> QED BY <2>1, <2>2 DEF FirstAndRest
<1>5. OnTheWay' = buf' \o r
  <2>1. OnTheWay' = Way(buf', <<>>, ahead, pipe)
    BY <1>1, OnTheWayIs DEF Unsent
  <2>2. Way(buf', <<>>, ahead, pipe) = FromRight(buf', ahead, pipe)
    BY <1>2, <1>3, WithoutHand
  <2> QED BY <2>1, <2>2 DEF FromRight
<1> HIDE DEF r
<1>6. buf \in Seq(Log) /\ hand \in Seq(Log) /\ r \in Seq(Log)
  BY <1>2, <1>3
<1>7. (buf \o hand) \o r = buf \o (hand \o r)
  <2>1. FromLeft(buf, hand, r) = FromRight(buf, hand, r)
    BY <1>6, Regroup
  <2> QED BY <2>1 DEF FromLeft, FromRight
<1>8. OnTheWay' = OnTheWay
  BY <1>1, <1>4, <1>5, <1>7
<1> QED BY <1>8, WayKept DEF GotLock, pipeVars, dbVars

(* The rows of the buffer go to the database, all of them ahead of the rest *)
(* of the way.                                                              *)
LEMMA InsertMoves ==
    ASSUME TypeOK, LineInv, LockInv, Insert
    PROVE  Moves
<1> DEFINE new == [left |-> buf, client |-> TRUE]
<1>1. /\ rows' = buf /\ buf' = buf /\ hand' = hand /\ ahead' = ahead /\ pipe' = pipe
      /\ stored' = stored /\ lost' = lost /\ inserts' = inserts \cup {new}
  BY DEF Insert, pipeVars
<1>2. rows = <<>> /\ Unsent = buf
  <2>1. spc = "connected"
    BY DEF Insert, SenderRuns
  <2>2. rows = <<>>
    BY <2>1, FreeBuffer DEF Sending
  <2> QED BY <2>2 DEF Unsent
<1>3. Unsent' = <<>>
  BY <1>1 DEF Unsent
<1>4. new.left = buf
  OBVIOUS
<1> HIDE DEF new
<1>5. AtDatabase' = AtDatabase \cup Range(buf)
  <2>1. AtDatabase' \subseteq AtDatabase \cup Range(buf)
    BY <1>1, <1>4 DEF AtDatabase
  <2>2. AtDatabase \subseteq AtDatabase' /\ Range(buf) \subseteq AtDatabase'
    BY <1>1, <1>4 DEF AtDatabase
  <2> QED BY <2>1, <2>2
<1>6. /\ buf \in Seq(Log) /\ hand \in Seq(Log) /\ ahead \in Seq(Log) /\ pipe \in Seq(Log)
      /\ Range(OnTheWay) = Range(buf) \cup Range(hand) \cup Range(ahead) \cup Range(pipe)
  BY <1>2, WayType
<1>7. Ordered(OnTheWay) /\ Older(stored \cup AtDatabase, Range(OnTheWay))
  BY OvertakingIs DEF LineInv
<1>8. OnTheWay = Way(buf, hand, ahead, pipe)
  BY <1>2, OnTheWayIs
<1>9. /\ Ordered(buf) /\ Ordered(hand) /\ Ordered(ahead) /\ Ordered(pipe)
      /\ Older(Range(buf), Range(hand))
      /\ Older(Range(buf) \cup Range(hand), Range(ahead))
      /\ Older(Range(buf) \cup Range(hand) \cup Range(ahead), Range(pipe))
  BY <1>6, <1>7, <1>8, PartsOrdered
<1>10. OnTheWay' = Way(<<>>, hand, ahead, pipe)
  BY <1>1, <1>3, OnTheWayIs
<1>11. Range(OnTheWay') = Range(hand) \cup Range(ahead) \cup Range(pipe)
  <2>1. Unsent' \in Seq(Log) /\ Range(Unsent') = {}
    BY <1>3, NoLine
  <2>2. Range(Way(Unsent', hand, ahead, pipe))
            = Range(Unsent') \cup Range(hand) \cup Range(ahead) \cup Range(pipe)
    BY <1>6, <2>1, PartsRange
  <2> QED BY <1>3, <1>10, <2>1, <2>2
<1>12. Ordered(OnTheWay')
  <2>1. /\ Older(Range(<<>>), Range(hand)) /\ Older(Range(<<>>) \cup Range(hand), Range(ahead))
        /\ Older(Range(<<>>) \cup Range(hand) \cup Range(ahead), Range(pipe))
    BY <1>9, NoLine DEF Older
  <2> QED BY <1>6, <1>9, <1>10, <2>1, NoLine, PartsOrdered
<1>13. Older(stored' \cup AtDatabase', Range(OnTheWay'))
  <2>1. Older(Range(buf), Range(OnTheWay'))
    BY <1>9, <1>11 DEF Older
  <2>2. Older(stored \cup AtDatabase, Range(OnTheWay'))
    BY <1>6, <1>7, <1>11 DEF Older
  <2> QED BY <1>1, <1>5, <2>1, <2>2 DEF Older
<1>14. NoOvertaking'
  BY <1>12, <1>13, OvertakingIs
<1>15. InsertsApart'
  <2>1. Range(buf) \cap stored = {} /\ Range(buf) \cap AtDatabase = {}
    BY <1>6, OrderSeparates DEF LineInv
  <2>2. AtDatabase' \cap stored' = {}
    BY <1>1, <1>5, <2>1 DEF LineInv, InsertsApart
  <2>3. IsInjective(buf)
    BY <1>6, <1>9, OrderedInjective
  <2>4. \A i \in inserts : Range(i.left) \cap Range(buf) = {}
    BY <2>1 DEF AtDatabase
  <2>5. \A i, j \in inserts' : i # j => Range(i.left) \cap Range(j.left) = {}
    BY <1>1, <1>4, <2>4 DEF LineInv, InsertsApart
  <2>6. \A i \in inserts' : IsInjective(i.left)
    BY <1>1, <1>4, <2>3 DEF LineInv, InsertsApart
  <2> QED BY <2>2, <2>5, <2>6 DEF InsertsApart
<1>16. InFlight' = InFlight
  BY <1>5, <1>6, <1>11 DEF InFlight
<1> QED BY <1>1, <1>14, <1>15, <1>16 DEF Moves

(* The buffer is cleared: what the database was not given is lost.          *)
LEMMA SendEndsMoves ==
    ASSUME TypeOK, LineInv, LockInv, SendEnds
    PROVE  Moves
<1>1. /\ rows' = <<>> /\ buf' = <<>> /\ hand' = hand /\ ahead' = ahead /\ pipe' = pipe
      /\ stored' = stored /\ inserts' = inserts
      /\ lost' = IF spc = "failed" THEN lost \cup (Range(buf) \ Range(rows)) ELSE lost
      /\ spc \in {"failed", "closed"}
  BY DEF SendEnds, BufferAfterSend, dbVars
<1>2. Unsent' = <<>>
  BY <1>1 DEF Unsent
<1>3. AtDatabase' = AtDatabase
  BY <1>1 DEF AtDatabase
<1>4. InsertsApart'
  BY <1>1, <1>3 DEF LineInv, InsertsApart
<1>5. /\ NoOvertaking' /\ InFlight' \subseteq InFlight
      /\ Range(OnTheWay') = Range(Unsent') \cup Range(hand') \cup Range(ahead') \cup Range(pipe')
  BY <1>1, <1>2, <1>3, WayThinned DEF LineInv
<1>6. Range(OnTheWay) = Range(Unsent) \cup Range(hand) \cup Range(ahead) \cup Range(pipe)
  BY WayType
<1>7. Range(Unsent) \subseteq lost'
  <2>1. CASE rows # <<>>
    BY <2>1, NoLine DEF Unsent
  <2>2. CASE rows = <<>> /\ spc = "failed"
    BY <1>1, <2>2, NoLine DEF Unsent
  <2>3. CASE rows = <<>> /\ spc = "closed"
    BY <2>3, NoLine DEF Unsent, LockInv, BatchFrozen
  <2> QED BY <1>1, <2>1, <2>2, <2>3
<1>8. lost \subseteq lost'
  BY <1>1
<1>9. InFlight \cup stored \cup lost \subseteq InFlight' \cup stored' \cup lost'
  BY <1>1, <1>3, <1>5, <1>6, <1>7, <1>8 DEF InFlight
<1> QED BY <1>1, <1>4, <1>5, <1>9 DEF Moves

-----------------------------------------------------------------------------
(* An insert at the database                                                 *)

(* The way of the lines is not the database's business.                     *)
LEMMA DatabaseWay ==
    ASSUME LineInv, OnTheWay' = OnTheWay,
           stored' \cup AtDatabase' \subseteq stored \cup AtDatabase
    PROVE  NoOvertaking'
BY OvertakingIs DEF LineInv, Older

(* An insert leaves the database.                                           *)
LEMMA InsertGone ==
    ASSUME LineInv, OnTheWay' = OnTheWay, stored' = stored, NEW i \in inserts,
           inserts' = inserts \ {i}, lost \cup Range(i.left) \subseteq lost'
    PROVE  Moves
<1>1. AtDatabase' \subseteq AtDatabase /\ AtDatabase \subseteq AtDatabase' \cup Range(i.left)
  BY DEF AtDatabase
<1>2. NoOvertaking'
  BY <1>1, DatabaseWay
<1>3. InsertsApart'
  BY <1>1 DEF LineInv, InsertsApart
<1> QED BY <1>1, <1>2, <1>3 DEF Moves, InFlight

(* An insert goes on with what it has left, none or one row less.           *)
LEMMA InsertKept ==
    ASSUME LineInv, NEW i \in inserts, NEW r, IsInjective(r.left),
           Range(r.left) \subseteq Range(i.left),
           inserts' = (inserts \ {i}) \cup {r},
           stored' = stored \cup (Range(i.left) \ Range(r.left))
    PROVE  /\ InsertsApart'
           /\ AtDatabase' = AtDatabase \ (Range(i.left) \ Range(r.left))
<1> DEFINE taken == Range(i.left) \ Range(r.left)
<1>1. /\ AtDatabase \cap stored = {}
      /\ \A j \in inserts : IsInjective(j.left)
      /\ \A j, k \in inserts : j # k => Range(j.left) \cap Range(k.left) = {}
  BY DEF LineInv, InsertsApart
<1>2. \A j \in inserts \ {i} : Range(j.left) \cap Range(i.left) = {}
  BY <1>1
<1>3. AtDatabase' \subseteq AtDatabase \ taken
  BY <1>2 DEF AtDatabase
<1>4. AtDatabase \ taken \subseteq AtDatabase'
  BY DEF AtDatabase
<1>5. AtDatabase' = AtDatabase \ taken /\ taken \subseteq AtDatabase
  BY <1>3, <1>4 DEF AtDatabase
<1>6. AtDatabase' \cap stored' = {}
  BY <1>1, <1>5
<1>7. \A j \in inserts' : IsInjective(j.left)
  BY <1>1
<1>8. \A j, k \in inserts' : j # k => Range(j.left) \cap Range(k.left) = {}
  BY <1>1, <1>2
<1> QED BY <1>5, <1>6, <1>7, <1>8 DEF InsertsApart

LEMMA DatabaseMoves ==
    ASSUME TypeOK, LineInv, DatabaseStep \/ TimeoutFires
    PROVE  Moves
<1>1. PICK i \in inserts : DbInsertRow(i) \/ DbDone(i) \/ DbRefuse(i) \/ InsertTimeout(i)
  BY DEF DatabaseStep, TimeoutFires
<1>2. i \in [left : Seq(Log), client : BOOLEAN]
  BY DEF TypeOK, CollectorTypeOK
<1>3. i.left \in Seq(Log) /\ IsInjective(i.left) /\ Range(i.left) \subseteq AtDatabase
  BY <1>2 DEF LineInv, InsertsApart, AtDatabase
<1>4. UNCHANGED <<pipe, ahead, hand, buf, rows>>
  BY <1>1 DEF DbInsertRow, DbDone, DbRefuse, InsertTimeout, pipeVars, memVars
<1>5. OnTheWay' = OnTheWay
  BY <1>4 DEF OnTheWay, Unsent
<1>6. CASE DbInsertRow(i)
  <2> DEFINE l == Head(i.left)
             r == [i EXCEPT !.left = Tail(i.left)]
  <2>1. /\ i.left # <<>> /\ stored' = stored \cup {l} /\ lost' = lost
        /\ inserts' = (inserts \ {i}) \cup {r}
    BY <1>6 DEF DbInsertRow, pipeVars
  <2>2. r.left = Tail(i.left)
    BY <1>2
  <2>3. /\ Range(i.left) = {l} \cup Range(r.left) /\ IsInjective(r.left)
        /\ l \notin Range(r.left)
    <3>1. /\ Range(i.left) = {l} \cup Range(Tail(i.left))
          /\ IsInjective(Tail(i.left)) /\ l \notin Range(Tail(i.left))
      BY <1>3, <2>1, HeadAndTail
    <3> QED BY <2>2, <3>1
  <2> HIDE DEF l, r
  <2>4. Range(i.left) \ Range(r.left) = {l}
    BY <2>3
  <2>5. InsertsApart' /\ AtDatabase' = AtDatabase \ {l}
    BY <2>1, <2>3, <2>4, InsertKept
  <2>6. l \in AtDatabase /\ l \notin Range(OnTheWay)
    BY <1>3, <2>3, OrderSeparates DEF LineInv
  <2>7. NoOvertaking'
    BY <1>5, <2>1, <2>5, <2>6, DatabaseWay
  <2>8. InFlight' = InFlight \ {l} /\ l \in InFlight
    BY <1>5, <2>5, <2>6 DEF InFlight
  <2> QED BY <2>1, <2>5, <2>7, <2>8 DEF Moves
<1>7. CASE DbDone(i)
  <2>1. /\ i.left = <<>> /\ inserts' = inserts \ {i} /\ stored' = stored /\ lost' = lost
    BY <1>7 DEF DbDone, pipeVars
  <2>2. Range(i.left) = {}
    BY <2>1, NoLine
  <2> QED BY <1>5, <2>1, <2>2, InsertGone
<1>8. CASE DbRefuse(i)
  BY <1>5, <1>8, InsertGone DEF DbRefuse
<1>9. CASE InsertTimeout(i)
  <2> DEFINE r == [i EXCEPT !.client = FALSE]
  <2>1. inserts' = (inserts \ {i}) \cup {r} /\ stored' = stored /\ lost' = lost
    BY <1>9 DEF InsertTimeout, pipeVars
  <2>2. r.left = i.left
    BY <1>2
  <2> HIDE DEF r
  <2>3. stored' = stored \cup (Range(i.left) \ Range(r.left))
    BY <2>1, <2>2
  <2>4. InsertsApart' /\ AtDatabase' = AtDatabase \ (Range(i.left) \ Range(r.left))
    BY <1>3, <2>1, <2>2, <2>3, InsertKept
  <2>5. AtDatabase' = AtDatabase
    BY <2>2, <2>4
  <2>6. NoOvertaking'
    BY <1>5, <2>1, <2>5, DatabaseWay
  <2> QED BY <1>5, <2>1, <2>4, <2>5, <2>6 DEF Moves, InFlight
<1> QED BY <1>1, <1>6, <1>7, <1>8, <1>9

-----------------------------------------------------------------------------
(* Every step of the collector's process and of the database                *)

LEMMA CollectorMoves ==
    ASSUME TypeOK, LineInv, LockInv, CollectorNext
    PROVE  Moves
<1>1. ASSUME UNCHANGED <<pipe, ahead, hand, buf, rows, inserts, stored, lost>>
      PROVE  Moves
  BY <1>1, WayKept DEF OnTheWay, Unsent
<1>2. CASE Dispatch
  BY <1>1, <1>2 DEF Dispatch, pipeVars, memVars, dbVars
<1>3. CASE OpenMissing \/ Crash
  BY <1>3, ExitMoves DEF OpenMissing, Crash
<1>4. CASE OpenPipe \/ Opened \/ ReadNothing
  BY <1>1, <1>4 DEF OpenPipe, OpenRead, Opened, ReadNothing, pipeVars, dbVars
<1>5. CASE Buffer \/ WaitForLock \/ GotLock
  BY <1>5, BufferMoves, WaitForLockMoves, GotLockMoves
<1>6. CASE NothingToSend \/ Connect \/ BadTime \/ CloseConnection
  BY <1>1, <1>6 DEF NothingToSend, Connect, BadTime, CloseConnection, pipeVars, dbVars
<1>7. CASE Insert \/ SendEnds
  BY <1>7, InsertMoves, SendEndsMoves
<1>8. CASE WakeCollector \/ WakeSender \/ ConnectEnds \/ CloseEnds \/ Restart
  BY <1>1, <1>8 DEF WakeCollector, WakeSender, ConnectEnds, CloseEnds, Restart, pipeVars, dbVars
<1>9. CASE DatabaseStep \/ TimeoutFires
  BY <1>9, DatabaseMoves
<1> QED BY <1>2, <1>3, <1>4, <1>5, <1>6, <1>7, <1>8, <1>9
        DEF CollectorNext, CollectorStep, SenderStep

(* A coroutine drops what it holds when it leaves the place where it may    *)
(* hold it.                                                                 *)
LEMMA HeldNext ==
    ASSUME TypeOK, LineInv, LockInv, CollectorNext
    PROVE  Held'
<1> USE DEF Held
<1>0. Held /\ (~locked => rows = <<>>) /\ (spc \notin Sending => rows = <<>>)
  BY FreeBuffer DEF LineInv
<1>1. CASE Exit
  BY <1>1 DEF Exit
<1>2. CASE Dispatch \/ Restart
  <2>1. UNCHANGED <<hand, buf, rows>>
    BY <1>2 DEF Dispatch, Restart, memVars
  <2>2. CASE Dispatch
    BY <1>0, <2>1, <2>2 DEF Dispatch, memVars
  <2>3. CASE Restart
    <3>1. cpc = "down" /\ spc = "down"
      BY <2>3 DEF Restart, LockInv, EventLoop
    <3> QED BY <1>0, <2>1, <3>1 DEF Sending
  <2> QED BY <1>2, <2>2, <2>3
<1>3. CASE OpenPipe \/ Opened \/ ReadNothing
  BY <1>0, <1>3 DEF OpenPipe, Opened, ReadNothing, CollectorRuns
<1>4. CASE Buffer
  BY <1>0, <1>4 DEF Buffer, LockFree
<1>5. CASE WaitForLock
  BY <1>0, <1>5 DEF WaitForLock
<1>6. CASE GotLock
  BY <1>0, <1>6 DEF GotLock, LockFree
<1>7. CASE NothingToSend \/ Connect \/ BadTime
  BY <1>0, <1>7 DEF NothingToSend, Connect, BadTime, SenderRuns, Sending
<1>8. CASE CloseConnection \/ CloseEnds \/ ConnectEnds \/ WakeSender
  BY <1>0, <1>8 DEF CloseConnection, CloseEnds, ConnectEnds, WakeSender, SenderRuns, Sending
<1>9. CASE Insert
  BY <1>0, <1>9 DEF Insert, Sending
<1>10. CASE SendEnds
  BY <1>0, <1>10 DEF SendEnds
<1>11. CASE WakeCollector
  BY <1>0, <1>11 DEF WakeCollector
<1>12. CASE DatabaseStep \/ TimeoutFires
  <2>1. PICK i \in inserts : DbInsertRow(i) \/ DbDone(i) \/ DbRefuse(i) \/ InsertTimeout(i)
    BY <1>12 DEF DatabaseStep, TimeoutFires
  <2>2. UNCHANGED <<cpc, hand, buf, rows>>
    BY <2>1 DEF DbInsertRow, DbDone, DbRefuse, InsertTimeout, memVars
  <2>3. spc' = spc \/ spc' \in Sending
    BY <2>1 DEF DbInsertRow, DbDone, DbRefuse, InsertTimeout, memVars, Answer, Sending
  <2> QED BY <1>0, <2>2, <2>3
<1> QED BY <1>1, <1>2, <1>3, <1>4, <1>5, <1>6, <1>7, <1>8, <1>9, <1>10, <1>11, <1>12
        DEF CollectorNext, CollectorStep, SenderStep, OpenMissing, Crash

LEMMA CollectorLines ==
    ASSUME TypeOK, LineInv, LockInv, CollectorNext, UNCHANGED emitterVars
    PROVE  LineInv'
<1>1. Moves /\ Held'
  BY CollectorMoves, HeldNext
<1>2. UNCHANGED <<epc, made, draft, reported, accepted>>
  BY DEF emitterVars
<1>3. Known' \subseteq Known
  BY <1>1, <1>2 DEF Moves, Known
<1>4. Drafts'
  BY <1>2, <1>3 DEF LineInv, Drafts
<1>5. Made'
  BY <1>2, <1>3 DEF LineInv, Made
<1>6. NoSilentLoss'
  <2> SUFFICES ASSUME NEW e \in Emitters, NEW k \in 1..made[e]
               PROVE  \E l \in stored' \cup InFlight' \cup lost' \cup reported'
                           \cup Range(draft'[e]) :
                        l.by = e /\ l.n = k
    BY <1>2 DEF NoSilentLoss
  <2>1. PICK l \in stored \cup InFlight \cup lost \cup reported \cup Range(draft[e]) :
                l.by = e /\ l.n = k
    BY DEF LineInv, NoSilentLoss
  <2> QED BY <1>1, <1>2, <2>1 DEF Moves
<1> QED BY <1>1, <1>4, <1>5, <1>6 DEF LineInv, Moves

-----------------------------------------------------------------------------
(* The emitters                                                              *)

(* A new line of the emitter that goes into the pipe goes behind its others.*)
LEMMA EmitWay ==
    ASSUME TypeOK, LineInv, NEW e \in Emitters, NEW l \in Log, l.by = e,
           \A m \in Known : m.by = e => m.n < l.n,
           pipe' = Append(pipe, l), UNCHANGED collectorVars
    PROVE  /\ InFlight' = InFlight \cup {l} /\ l \notin Known
           /\ Held' /\ NoOvertaking' /\ InsertsApart'
<1>1. UNCHANGED <<spc, cpc, ahead, hand, buf, rows, inserts, stored>>
  BY DEF collectorVars, memVars, dbVars
<1>2. Unsent' = Unsent /\ AtDatabase' = AtDatabase
  BY <1>1 DEF Unsent, AtDatabase
<1>3. pipe \in Seq(Log) /\ OnTheWay \in Seq(Log)
  BY WayType
<1> DEFINE f == Unsent \o hand \o ahead
           b == <<l>>
<1>4. b \in Seq(Log) /\ Range(b) = {l} /\ Ordered(b)
  BY OneLine
<1>5. f \in Seq(Log)
  BY WayType, ConcatProperties
<1>6. OnTheWay = f \o pipe /\ OnTheWay' = f \o Append(pipe, l)
  BY <1>1, <1>2 DEF OnTheWay
<1>7. Append(pipe, l) = pipe \o b
  BY <1>3, AppendIsConcat
<1> HIDE DEF f, b
<1>8. OnTheWay' = OnTheWay \o b
  <2>1. (f \o pipe) \o b = f \o (pipe \o b)
    <3>1. FromLeft(f, pipe, b) = FromRight(f, pipe, b)
      BY <1>3, <1>4, <1>5, Regroup
    <3> QED BY <3>1 DEF FromLeft, FromRight
  <2> QED BY <1>6, <1>7, <2>1
<1>9. Range(OnTheWay') = Range(OnTheWay) \cup {l}
  BY <1>3, <1>4, <1>8, ConcatRange
<1>10. Ordered(OnTheWay) /\ Older(stored \cup AtDatabase, Range(OnTheWay))
  BY OvertakingIs DEF LineInv
<1>11. Older(Range(OnTheWay), {l}) /\ Older(stored \cup AtDatabase, {l})
  BY DEF Older, Known, InFlight
<1>12. Ordered(OnTheWay')
  BY <1>3, <1>4, <1>8, <1>10, <1>11, ConcatOrdered
<1>13. Older(stored' \cup AtDatabase', Range(OnTheWay'))
  BY <1>1, <1>2, <1>9, <1>10, <1>11 DEF Older
<1>14. l \notin Known
  BY DEF Log
<1> QED BY <1>1, <1>2, <1>9, <1>12, <1>13, <1>14, OvertakingIs
        DEF InFlight, LineInv, Held, InsertsApart

(* Unread lines may go with the pipe when an emitter closes it.             *)
LEMMA CloseWriteMoves ==
    ASSUME TypeOK, LineInv, NEW e \in Emitters, CloseWrite(e), UNCHANGED collectorVars
    PROVE  Moves /\ Held'
<1>1. /\ UNCHANGED <<spc, cpc, ahead, hand, buf, rows, inserts, stored>>
      /\ pipe' \in {pipe, <<>>} /\ lost' = lost \cup (Range(pipe) \ Range(pipe'))
  BY DEF collectorVars, memVars, dbVars, CloseWrite, Kept
<1>2. Unsent' = Unsent /\ AtDatabase' = AtDatabase
  BY <1>1 DEF Unsent, AtDatabase
<1>3. /\ NoOvertaking' /\ InFlight' \subseteq InFlight
      /\ Range(OnTheWay') = Range(Unsent') \cup Range(hand') \cup Range(ahead') \cup Range(pipe')
  BY <1>1, <1>2, WayThinned DEF LineInv
<1>4. Range(OnTheWay) = Range(Unsent) \cup Range(hand) \cup Range(ahead) \cup Range(pipe)
  BY WayType
<1>5. InFlight \cup stored \cup lost \subseteq InFlight' \cup stored' \cup lost'
  BY <1>1, <1>2, <1>3, <1>4 DEF InFlight
<1>6. InsertsApart' /\ Held'
  BY <1>1, <1>2 DEF LineInv, InsertsApart, Held
<1> QED BY <1>1, <1>3, <1>5, <1>6 DEF Moves

(* The steps of the abstract specification, in terms of this one.           *)
LEMMA Mapped ==
    ASSUME \/ /\ stored' = stored /\ accepted' = accepted /\ InFlight' \subseteq InFlight
           \/ /\ accepted' = accepted
              /\ \E l \in InFlight : stored' = stored \cup {l} /\ InFlight' = InFlight \ {l}
           \/ /\ stored' = stored
              /\ \E l \in Log \ accepted :
                   accepted' = accepted \cup {l} /\ InFlight' = InFlight \cup {l},
           InFlight \subseteq Log
    PROVE  Delivery!Next
<1>1. CASE stored' = stored /\ accepted' = accepted /\ InFlight' \subseteq InFlight
  <2> DEFINE ls == InFlight \ InFlight'
  <2>1. ls \in SUBSET InFlight /\ InFlight' = InFlight \ ls
    BY <1>1
  <2> HIDE DEF ls
  <2>2. Delivery!Lose(ls)
    BY <1>1, <2>1 DEF Delivery!Lose
  <2> QED BY <2>1, <2>2 DEF Delivery!Next
<1>2. CASE /\ accepted' = accepted
           /\ \E l \in InFlight : stored' = stored \cup {l} /\ InFlight' = InFlight \ {l}
  BY <1>2 DEF Delivery!Next, Delivery!Store
<1>3. CASE /\ stored' = stored
           /\ \E l \in Log \ accepted :
                accepted' = accepted \cup {l} /\ InFlight' = InFlight \cup {l}
  BY <1>3 DEF Delivery!Next, Delivery!Accept
<1> QED BY <1>1, <1>2, <1>3

(* The steps of an emitter that touch no line.                              *)
LEMMA EmitterIdles ==
    ASSUME TypeOK, LineInv, NEW e \in Emitters,
           FifoExists(e) \/ Mkdir(e) \/ Mkfifo(e) \/ MakeFifoRaises(e) \/ Open(e)
             \/ SleepOver(e),
           UNCHANGED collectorVars
    PROVE  LineInv' /\ Delivery!Next
<1>1. /\ UNCHANGED <<pipe, lost, made, draft, reported, accepted>>
      /\ epc[e] # "closing" /\ \A d \in Emitters : d # e => epc'[d] = epc[d]
  BY DEF FifoExists, Mkdir, Mkfifo, MakeFifoRaises, Open, OpenWrite, SleepOver, Goto,
         pipeVars, TypeOK, EmitterTypeOK
<1>2. UNCHANGED <<spc, cpc, ahead, hand, buf, rows, inserts, stored>>
  BY DEF collectorVars, memVars, dbVars
<1>3. OnTheWay' = OnTheWay /\ AtDatabase' = AtDatabase
  BY <1>1, <1>2 DEF OnTheWay, Unsent, AtDatabase
<1>4. InFlight' = InFlight /\ Known' = Known
  BY <1>1, <1>2, <1>3 DEF InFlight, Known
<1>5. Drafts'
  BY <1>1, <1>4 DEF LineInv, Drafts
<1>6. Made' /\ Held' /\ NoSilentLoss'
  BY <1>1, <1>2, <1>4 DEF LineInv, Made, Held, NoSilentLoss
<1>7. NoOvertaking' /\ InsertsApart'
  BY <1>2, <1>3, OvertakingIs DEF LineInv, InsertsApart
<1>8. Delivery!Next
  BY <1>1, <1>2, <1>4, LinesType, Mapped
<1> QED BY <1>5, <1>6, <1>7, <1>8 DEF LineInv

(* A new log goes into the pipe, or is kept for the second flush.           *)
LEMMA WriteLines ==
    ASSUME TypeOK, LineInv, NEW e \in Emitters, Write(e), UNCHANGED collectorVars
    PROVE  LineInv' /\ Delivery!Next
<1>1. PICK w \in WholeSeconds :
        LET l == [by |-> e, n |-> made[e] + 1, whole |-> w]
        IN  \/ Emit(e, l) /\ UNCHANGED draft
            \/ /\ ~ CanWrite
               /\ draft' = [draft EXCEPT ![e] = <<l>>]
               /\ Goto(e, "closing")
               /\ UNCHANGED <<pipe, reader, writer, lost, accepted>>
  BY DEF Write
<1> DEFINE l == [by |-> e, n |-> made[e] + 1, whole |-> w]
<1>2. made[e] \in Nat /\ made[e] < MaxLogs /\ epc[e] = "opening" /\ draft[e] = <<>>
  BY DEF Write, TypeOK, EmitterTypeOK, LineInv, Drafts
<1>3. l \in Log /\ l.by = e /\ l.n = made[e] + 1
  <2>1. made[e] + 1 \in 1..MaxLogs
    BY <1>2, PipeAssumption DEF PipeAssumption
  <2> QED BY <2>1 DEF Log
<1>4. \/ Emit(e, l) /\ UNCHANGED draft
      \/ /\ draft' = [draft EXCEPT ![e] = <<l>>]
         /\ Goto(e, "closing")
         /\ UNCHANGED <<pipe, reader, writer, lost, accepted>>
  BY <1>1
<1> HIDE DEF l
<1>5. /\ made'[e] = made[e] + 1 /\ \A d \in Emitters : d # e => made'[d] = made[d]
      /\ reported' = reported
  BY DEF Write, TypeOK, EmitterTypeOK
<1>6. \A m \in Known : m \in Log /\ m.by \in Emitters /\ m.n \in Nat /\ m.n <= made[m.by]
  BY LinesType DEF LineInv, Made
<1>7. \A m \in Known : m.by = e => m.n < l.n
  BY <1>2, <1>3, <1>6
<1>8. UNCHANGED <<spc, cpc, ahead, hand, buf, rows, inserts, stored>>
  BY DEF collectorVars, memVars, dbVars
<1>9. CASE Emit(e, l) /\ UNCHANGED draft
  <2>1. /\ pipe' = Append(pipe, l) /\ accepted' = accepted \cup {l} /\ lost' = lost
        /\ \A d \in Emitters : d # e => epc'[d] = epc[d]
    BY <1>9 DEF Emit, WriteAndClose, Goto, TypeOK, EmitterTypeOK
  <2>2. /\ InFlight' = InFlight \cup {l} /\ l \notin Known
        /\ Held' /\ NoOvertaking' /\ InsertsApart'
    BY <1>3, <1>7, <2>1, EmitWay
  <2>3. Known' = Known \cup {l}
    BY <1>8, <2>1, <2>2 DEF Known
  <2>4. Drafts'
    BY <1>2, <1>3, <1>5, <1>9, <2>1, <2>3 DEF LineInv, Drafts
  <2>5. Made'
    <3> SUFFICES ASSUME NEW m \in Known' PROVE m.n <= made'[m.by]
      BY DEF Made
    <3>1. CASE m = l
      BY <1>2, <1>3, <1>5, <3>1
    <3>2. CASE m \in Known
      BY <1>2, <1>5, <1>6, <3>2
    <3> QED BY <2>3, <3>1, <3>2
  <2>6. NoSilentLoss'
    <3> SUFFICES ASSUME NEW d \in Emitters, NEW k \in 1..made'[d]
                 PROVE  \E m \in stored' \cup InFlight' \cup lost' \cup reported'
                             \cup Range(draft'[d]) :
                          m.by = d /\ m.n = k
      BY DEF NoSilentLoss
    <3>1. CASE d = e /\ k = made[e] + 1
      BY <1>3, <2>2, <3>1
    <3>2. CASE k \in 1..made[d]
      BY <1>5, <1>8, <1>9, <2>1, <2>2, <3>2 DEF LineInv, NoSilentLoss
    <3>3. k \in 1..made[d] \/ (d = e /\ k = made[e] + 1)
      BY <1>2, <1>5
    <3> QED BY <3>1, <3>2, <3>3
  <2>7. Delivery!Next
    <3>1. l \in Log \ accepted
      BY <1>3, <2>2 DEF Known
    <3> QED BY <1>8, <2>1, <2>2, <3>1, LinesType, Mapped
  <2> QED BY <2>2, <2>4, <2>5, <2>6, <2>7 DEF LineInv
<1>10. CASE /\ draft' = [draft EXCEPT ![e] = <<l>>]
            /\ Goto(e, "closing")
            /\ UNCHANGED <<pipe, reader, writer, lost, accepted>>
  <2>1. /\ draft'[e] = <<l>> /\ epc'[e] = "closing"
        /\ \A d \in Emitters : d # e => epc'[d] = epc[d] /\ draft'[d] = draft[d]
    BY <1>10 DEF Goto, TypeOK, EmitterTypeOK
  <2>2. OnTheWay' = OnTheWay /\ AtDatabase' = AtDatabase
    BY <1>8, <1>10 DEF OnTheWay, Unsent, AtDatabase
  <2>3. InFlight' = InFlight /\ Known' = Known
    BY <1>8, <1>10, <2>2 DEF InFlight, Known
  <2>4. Drafts'
    <3> SUFFICES ASSUME NEW d \in Emitters, draft'[d] # <<>>
                 PROVE  /\ epc'[d] = "closing"
                        /\ \E m \in Log : draft'[d] = <<m>> /\ m.by = d /\ m.n = made'[d]
                        /\ \A m \in Known : m.by = d => m.n < made'[d]
      BY <2>3 DEF Drafts
    <3>1. CASE d = e
      BY <1>3, <1>5, <1>7, <2>1, <3>1
    <3>2. CASE d # e
      BY <1>5, <2>1, <3>2 DEF LineInv, Drafts
    <3> QED BY <3>1, <3>2
  <2>5. Made'
    BY <1>2, <1>5, <1>6, <2>3 DEF Made
  <2>6. NoSilentLoss'
    <3> SUFFICES ASSUME NEW d \in Emitters, NEW k \in 1..made'[d]
                 PROVE  \E m \in stored' \cup InFlight' \cup lost' \cup reported'
                             \cup Range(draft'[d]) :
                          m.by = d /\ m.n = k
      BY DEF NoSilentLoss
    <3>1. CASE d = e /\ k = made[e] + 1
      BY <1>3, <2>1, <3>1, OneLine
    <3>2. CASE k \in 1..made[d]
      <4>1. Range(draft[d]) \subseteq Range(draft'[d])
        BY <1>2, <2>1, NoLine
      <4> QED BY <1>5, <1>8, <1>10, <2>3, <3>2, <4>1 DEF LineInv, NoSilentLoss
    <3>3. k \in 1..made[d] \/ (d = e /\ k = made[e] + 1)
      BY <1>2, <1>5
    <3> QED BY <3>1, <3>2, <3>3
  <2>7. Held' /\ NoOvertaking' /\ InsertsApart'
    BY <1>8, <2>2, OvertakingIs DEF LineInv, Held, InsertsApart
  <2>8. Delivery!Next
    BY <1>8, <1>10, <2>3, LinesType, Mapped
  <2> QED BY <2>4, <2>5, <2>6, <2>7, <2>8 DEF LineInv
<1> QED BY <1>4, <1>9, <1>10

(* The second flush succeeds, or the line is reported and gone.             *)
LEMMA WriteAgainLines ==
    ASSUME TypeOK, LineInv, NEW e \in Emitters, WriteAgain(e), UNCHANGED collectorVars
    PROVE  LineInv' /\ Delivery!Next
<1>1. epc[e] = "closing" /\ draft[e] # <<>>
  BY DEF WriteAgain, TypeOK, EmitterTypeOK
<1>2. PICK l \in Log : draft[e] = <<l>> /\ l.by = e /\ l.n = made[e]
  BY <1>1 DEF LineInv, Drafts
<1>3. \A m \in Known : m.by = e => m.n < l.n
  BY <1>1, <1>2 DEF LineInv, Drafts
<1>4. Head(draft[e]) = l /\ Range(draft[e]) = {l}
  BY <1>2, OneLine
<1>5. /\ Emit(e, l) \/ (CloseWrite(e) /\ Goto(e, "sleeping") /\ UNCHANGED accepted)
      /\ reported' = reported \cup {l}
      /\ draft' = [draft EXCEPT ![e] = <<>>] /\ made' = made
  BY <1>4 DEF WriteAgain, Report
<1>6. /\ draft'[e] = <<>> /\ \A d \in Emitters : d # e => draft'[d] = draft[d]
      /\ \A d \in Emitters : d # e => epc'[d] = epc[d]
  BY <1>5 DEF Emit, Goto, TypeOK, EmitterTypeOK
<1>7. UNCHANGED <<spc, cpc, ahead, hand, buf, rows, inserts, stored>>
  BY DEF collectorVars, memVars, dbVars
<1>8. \A d \in Emitters : Range(draft[d]) \subseteq Range(draft'[d]) \cup reported'
  BY <1>4, <1>5, <1>6
<1>9. ASSUME InFlight \cup stored \cup lost \subseteq InFlight' \cup stored' \cup lost'
      PROVE  NoSilentLoss'
  <2> SUFFICES ASSUME NEW d \in Emitters, NEW k \in 1..made[d]
               PROVE  \E m \in stored' \cup InFlight' \cup lost' \cup reported'
                           \cup Range(draft'[d]) :
                        m.by = d /\ m.n = k
    BY <1>5 DEF NoSilentLoss
  <2>1. PICK m \in stored \cup InFlight \cup lost \cup reported \cup Range(draft[d]) :
                m.by = d /\ m.n = k
    BY DEF LineInv, NoSilentLoss
  <2>2. m \in stored' \cup InFlight' \cup lost' \cup reported' \cup Range(draft'[d])
    BY <1>5, <1>8, <1>9, <2>1
  <2> QED BY <2>1, <2>2
<1>10. CASE Emit(e, l)
  <2>1. pipe' = Append(pipe, l) /\ accepted' = accepted \cup {l} /\ lost' = lost
    BY <1>10 DEF Emit, WriteAndClose
  <2>2. /\ InFlight' = InFlight \cup {l} /\ l \notin Known
        /\ Held' /\ NoOvertaking' /\ InsertsApart'
    BY <1>2, <1>3, <2>1, EmitWay
  <2>3. Known' = Known \cup {l}
    BY <1>7, <2>1, <2>2 DEF Known
  <2>4. Drafts'
    BY <1>2, <1>5, <1>6, <2>3 DEF LineInv, Drafts
  <2>5. Made'
    <3>1. made[e] \in Nat
      BY DEF TypeOK, EmitterTypeOK
    <3> QED BY <1>2, <1>5, <2>3, <3>1 DEF LineInv, Made
  <2>6. NoSilentLoss'
    BY <1>7, <1>9, <2>1, <2>2
  <2>7. Delivery!Next
    <3>1. l \in Log \ accepted
      BY <2>2 DEF Known
    <3> QED BY <1>7, <2>1, <2>2, <3>1, LinesType, Mapped
  <2> QED BY <2>2, <2>4, <2>5, <2>6, <2>7 DEF LineInv
<1>11. CASE CloseWrite(e) /\ Goto(e, "sleeping") /\ UNCHANGED accepted
  <2>1. Moves /\ Held'
    BY <1>11, CloseWriteMoves
  <2>2. /\ Known' \subseteq Known /\ NoOvertaking' /\ InsertsApart'
        /\ InFlight \cup stored \cup lost \subseteq InFlight' \cup stored' \cup lost'
    BY <1>11, <2>1 DEF Moves, Known
  <2>3. Drafts'
    BY <1>5, <1>6, <2>2 DEF LineInv, Drafts
  <2>4. Made'
    BY <1>5, <2>2 DEF LineInv, Made
  <2>5. Delivery!Next
    BY <1>11, <2>1, LinesType, Mapped DEF Moves
  <2> QED BY <1>9, <2>1, <2>2, <2>3, <2>4, <2>5 DEF LineInv
<1> QED BY <1>5, <1>10, <1>11

-----------------------------------------------------------------------------
LEMMA LineInit == Init => LineInv
<1> SUFFICES ASSUME Init PROVE LineInv
  OBVIOUS
<1>1. /\ pipe = <<>> /\ ahead = <<>> /\ hand = <<>> /\ buf = <<>> /\ rows = <<>>
      /\ inserts = {} /\ stored = {} /\ accepted = {}
      /\ draft = [e \in Emitters |-> <<>>] /\ made = [e \in Emitters |-> 0]
  BY DEF Init, PipeInit, EmitterInit, CollectorInit
<1>2. OnTheWay = <<>> /\ AtDatabase = {}
  <2>1. \A s \in Seq(Log) : <<>> \o s = s
    BY ConcatEmptySeq
  <2> QED BY <1>1, <2>1, NoLine DEF OnTheWay, Unsent, AtDatabase
<1>3. Known = {} /\ InFlight = {}
  BY <1>1, <1>2, NoLine DEF Known, InFlight
<1>4. Drafts /\ Made /\ Held /\ NoSilentLoss
  BY <1>1, <1>3 DEF Drafts, Made, Held, NoSilentLoss
<1>5. NoOvertaking /\ InsertsApart
  BY <1>1, <1>2, NoLine, OvertakingIs DEF InsertsApart, Older
<1> QED BY <1>4, <1>5 DEF LineInv

LEMMA LineNext ==
    ASSUME TypeOK, LineInv, LockInv, [Next]_vars
    PROVE  LineInv' /\ [Delivery!Next]_Delivery!vars
<1>1. CASE EmittersNext
  <2>1. PICK e \in Emitters : EmitterStep(e) /\ UNCHANGED collectorVars
    BY <1>1 DEF EmittersNext
  <2> QED BY <2>1, EmitterIdles, WriteLines, WriteAgainLines DEF EmitterStep
<1>2. CASE CollectorNext /\ UNCHANGED emitterVars
  <2>1. LineInv' /\ Moves /\ accepted' = accepted
    BY <1>2, CollectorLines, CollectorMoves DEF emitterVars
  <2> QED BY <2>1, LinesType, Mapped DEF Moves
<1>3. CASE UNCHANGED vars
  <2>1. /\ UNCHANGED <<pipe, ahead, hand, buf, rows, inserts, stored, lost, cpc, spc>>
        /\ UNCHANGED <<epc, made, draft, reported, accepted>>
    BY <1>3 DEF vars, pipeVars, emitterVars, collectorVars, memVars, dbVars
  <2>2. OnTheWay' = OnTheWay /\ AtDatabase' = AtDatabase
    BY <2>1 DEF OnTheWay, Unsent, AtDatabase
  <2>3. InFlight' = InFlight /\ Known' = Known
    BY <2>1, <2>2 DEF InFlight, Known
  <2>4. Drafts' /\ Made' /\ Held' /\ NoSilentLoss'
    BY <2>1, <2>3 DEF LineInv, Drafts, Made, Held, NoSilentLoss
  <2>5. NoOvertaking' /\ InsertsApart'
    BY <2>1, <2>2, OvertakingIs DEF LineInv, InsertsApart
  <2> QED BY <2>1, <2>3, <2>4, <2>5 DEF LineInv, Delivery!vars
<1> QED BY <1>1, <1>2, <1>3 DEF Next

(* The invariant of the lines.                                              *)
LEMMA LineInvariant == Spec => []LineInv
<1>1. Init => LineInv
  BY LineInit
<1>2. TypeOK /\ LineInv /\ LockInv /\ [Next]_vars => LineInv'
  BY LineNext
<1> QED BY <1>1, <1>2, TypeCorrect, LockInvariant, PTL DEF Spec

(* Every log an emitter built is stored, on its way, or missing with a      *)
(* reason that someone gave, whatever is killed, refused, late or full.     *)
THEOREM NothingIsLostSilently == Spec => []NoSilentLoss
<1>1. LineInv => NoSilentLoss
  BY DEF LineInv
<1> QED BY <1>1, LineInvariant, PTL

(* No log is in two places, twice in one, or sent again once it is stored,  *)
(* also when an insert is applied after the client gave up on it.           *)
THEOREM StoredAtMostOnce == Spec => []AtMostOnce
<1>1. TypeOK /\ LineInv => AtMostOnce
  BY OrderSeparates DEF LineInv, InsertsApart, AtMostOnce
<1> QED BY <1>1, LineInvariant, TypeCorrect, PTL

(* The logs of one emitter keep their order from the pipe to the database.  *)
THEOREM NothingOvertakes == Spec => []NoOvertaking
<1>1. LineInv => NoOvertaking
  BY DEF LineInv
<1> QED BY <1>1, LineInvariant, PTL

(* Seen from its two ends, the pipeline stores each accepted line once or   *)
(* loses it, and nothing else: LogPipeline implements LogDelivery.          *)
THEOREM ImplementsLogDelivery == Spec => Delivers
<1>1. Init => Delivery!Init
  <2>1. Init => /\ pipe = <<>> /\ ahead = <<>> /\ hand = <<>> /\ buf = <<>> /\ rows = <<>>
                /\ inserts = {} /\ stored = {} /\ accepted = {}
    BY DEF Init, PipeInit, EmitterInit, CollectorInit
  <2>2. \A s \in Seq(Log) : <<>> \o s = s
    BY ConcatEmptySeq
  <2>3. Init => OnTheWay = <<>> /\ AtDatabase = {}
    BY <2>1, <2>2, NoLine DEF OnTheWay, Unsent, AtDatabase
  <2> QED BY <2>1, <2>3, NoLine DEF Delivery!Init, InFlight
<1>2. TypeOK /\ LineInv /\ LockInv /\ [Next]_vars => [Delivery!Next]_Delivery!vars
  BY LineNext
<1> QED
  BY <1>1, <1>2, LineInvariant, LockInvariant, TypeCorrect, PTL
  DEF Spec, Delivers, Delivery!Spec
=============================================================================
