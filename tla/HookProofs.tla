------------------------------ MODULE HookProofs ------------------------------
(***************************************************************************)
(* Theorems about the buffering hook, for every set of goroutines and any  *)
(* number of entries: an error comes with its context, and the hook        *)
(* implements ContextLog.                                                  *)
(***************************************************************************)
EXTENDS BufferHook, SequenceTheorems, FiniteSetTheorems, TLAPS

USE HookAssumption DEF HookAssumption

(* logrus's mutex.                                                           *)
OneInside == mu = {} \/ \E t \in Traces : mu = {t}

(* A trace numbers its lines, so a line is appended once.                    *)
Numbered ==
    /\ \A k \in DOMAIN fired : fired[k].n <= logged[fired[k].trace]
    /\ \A j, k \in DOMAIN fired :
         fired[j].trace = fired[k].trace /\ fired[j].n = fired[k].n => j = k

(* A trace in Fire is logging the line appended last, an error.              *)
LastIsCurrent == \A t \in mu :
    /\ Len(fired) > 0
    /\ fired[Len(fired)].trace = t
    /\ fired[Len(fired)].n = logged[t]
    /\ Severe(fired[Len(fired)])

(* The loop writes that error last; writeError is about it at the end.       *)
ErrorIsLast == \A t \in mu :
    IF rest[t] = <<>>
    THEN writeError[t] \/ fired[Len(fired)] \in Range(written)
    ELSE rest[t][Len(rest[t])] = fired[Len(fired)]

(* A line is still to be written, was given to the writer, or both.          *)
Accounted == \A k \in DOMAIN fired :
    fired[k] \in Range(written) \cup failed \cup Range(Remaining)

HookInv ==
    /\ OneInside /\ Numbered /\ LastIsCurrent /\ ErrorIsLast /\ Accounted
    /\ ErrorInContext

-----------------------------------------------------------------------------
(* Sequences and the chosen element                                          *)

LEMMA RangeOfEmpty == Range(<<>>) = {}
<1>1. DOMAIN <<>> = {}
  OBVIOUS
<1> QED BY <1>1 DEF Range

LEMMA AppendFacts ==
    ASSUME NEW S, NEW s \in Seq(S), NEW x \in S
    PROVE  /\ Append(s, x) \in Seq(S) /\ Append(s, x) # <<>>
           /\ Len(s) \in Nat /\ Len(Append(s, x)) = Len(s) + 1
           /\ DOMAIN s = 1..Len(s) /\ DOMAIN Append(s, x) = 1..Len(s) + 1
           /\ \A i \in 1..Len(s) : Append(s, x)[i] = s[i]
           /\ Append(s, x)[Len(s) + 1] = x
           /\ Range(Append(s, x)) = Range(s) \cup {x}
<1> DEFINE a == Append(s, x)
<1>1. /\ a \in Seq(S) /\ Len(a) = Len(s) + 1 /\ Len(s) \in Nat /\ a # <<>>
      /\ \A i \in 1..Len(s) : a[i] = s[i]
      /\ a[Len(s) + 1] = x
  BY AppendProperties, LenProperties
<1>2. DOMAIN s = 1..Len(s) /\ DOMAIN a = 1..Len(s) + 1
  BY <1>1, LenProperties
<1> HIDE DEF a
<1>3. \A i : i \in 1..Len(s) + 1 <=> i \in 1..Len(s) \/ i = Len(s) + 1
  BY <1>1
<1>4. Range(a) = Range(s) \cup {x}
  BY <1>1, <1>2, <1>3 DEF Range
<1> QED BY <1>1, <1>2, <1>4 DEF a

LEMMA TailFacts ==
    ASSUME NEW S, NEW s \in Seq(S), s # <<>>
    PROVE  /\ Head(s) \in S /\ Tail(s) \in Seq(S)
           /\ Len(s) \in Nat \ {0} /\ Len(Tail(s)) = Len(s) - 1
           /\ s[Len(s)] \in Range(s)
           /\ Range(s) = Range(Tail(s)) \cup {Head(s)}
           /\ Tail(s) = <<>> => Head(s) = s[Len(s)]
           /\ Tail(s) # <<>> => Tail(s)[Len(Tail(s))] = s[Len(s)]
<1> DEFINE r == Tail(s)
<1>1. /\ r \in Seq(S) /\ Len(r) = Len(s) - 1 /\ Len(s) \in Nat \ {0}
      /\ \A i \in 1..Len(r) : r[i] = s[i + 1]
      /\ Head(s) \in S
  BY HeadTailProperties, LenProperties, EmptySeq
<1>2. DOMAIN s = 1..Len(s) /\ DOMAIN r = 1..Len(s) - 1 /\ Head(s) = s[1]
  BY <1>1, LenProperties
<1>3. r = <<>> <=> Len(r) = 0
  BY <1>1, EmptySeq
<1> HIDE DEF r
<1>4. 1 \in 1..Len(s) /\ Len(s) \in 1..Len(s)
  BY <1>1
<1>5. Range(s) = Range(r) \cup {Head(s)}
  <2>1. ASSUME NEW i \in 1..Len(s)
        PROVE  s[i] \in Range(r) \cup {Head(s)}
    <3>1. CASE i = 1
      BY <1>2, <3>1
    <3>2. CASE i # 1
      <4>1. i - 1 \in 1..Len(s) - 1 /\ r[i - 1] = s[i]
        BY <1>1, <3>2
      <4> QED BY <1>2, <4>1 DEF Range
    <3> QED BY <3>1, <3>2
  <2>2. ASSUME NEW i \in 1..Len(s) - 1
        PROVE  i + 1 \in 1..Len(s) /\ r[i] = s[i + 1]
    BY <1>1
  <2>3. \A y \in Range(s) : y \in Range(r) \cup {Head(s)}
    BY <1>2, <2>1 DEF Range
  <2>4. \A y \in Range(r) : y \in Range(s)
    BY <1>2, <2>2 DEF Range
  <2>5. Head(s) \in Range(s)
    BY <1>2, <1>4 DEF Range
  <2> QED BY <2>3, <2>4, <2>5
<1>6. s[Len(s)] \in Range(s)
  BY <1>2, <1>4 DEF Range
<1>7. r # <<>> => r[Len(r)] = s[Len(s)]
  BY <1>1, <1>3
<1>8. r = <<>> => Head(s) = s[Len(s)]
  BY <1>1, <1>2, <1>3
<1> QED BY <1>1, <1>5, <1>6, <1>7, <1>8 DEF r

LEMMA OneChosen == ASSUME NEW t PROVE (CHOOSE u \in {t} : TRUE) = t
OBVIOUS

-----------------------------------------------------------------------------
(* Each action keeps the invariant                                           *)

(* The line that a trace in Fire is logging is the one appended last.        *)
LEMMA CurrentIsLast ==
    ASSUME TypeOK, HookInv, NEW t \in mu
    PROVE  /\ mu = {t} /\ Remaining = rest[t] /\ t \in Traces
           /\ Current(t) = fired[Len(fired)] /\ Len(fired) \in DOMAIN fired
           /\ Current(t) \in Line /\ Severe(Current(t))
<1>1. mu = {t} /\ t \in Traces
  BY DEF HookInv, OneInside
<1>2. Remaining = rest[t]
  BY <1>1, OneChosen DEF Remaining
<1>3. fired \in Seq(Line) /\ Len(fired) \in Nat /\ DOMAIN fired = 1..Len(fired)
  BY LenProperties DEF TypeOK
<1>4. /\ Len(fired) \in DOMAIN fired /\ fired[Len(fired)].trace = t
      /\ fired[Len(fired)].n = logged[t] /\ Severe(fired[Len(fired)])
  BY <1>3 DEF HookInv, LastIsCurrent
<1> DEFINE last == fired[Len(fired)]
<1>5. last \in Range(fired) /\ last \in Line
  BY <1>3, <1>4, ElementOfSeq DEF Range
<1>6. \A l \in Range(fired) : l.trace = t /\ l.n = logged[t] => l = last
  BY <1>4 DEF HookInv, Numbered, Range
<1>7. Current(t) = last
  BY <1>4, <1>5, <1>6 DEF Current
<1> QED BY <1>1, <1>2, <1>4, <1>5, <1>7

LEMMA HookInit == Init => TypeOK /\ HookInv
<1> SUFFICES ASSUME Init PROVE TypeOK /\ HookInv
  OBVIOUS
<1>1. <<>> \in Seq(Line) /\ DOMAIN <<>> = {} /\ Cardinality({}) = 0
  BY EmptySeq, FS_EmptySet
<1>2. TypeOK
  <2>1. \A k \in DOMAIN lineBuffer : ~Severe(lineBuffer[k])
    BY <1>1 DEF Init
  <2>2. logged \in [Traces -> 0..MaxEntries] /\ rest \in [Traces -> Seq(Line)]
    BY <1>1 DEF Init
  <2>3. Cardinality(mu) <= 1
    BY <1>1 DEF Init
  <2> QED BY <1>1, <2>1, <2>2, <2>3 DEF Init, TypeOK
<1>3. HookInv
  BY <1>1 DEF Init, HookInv, OneInside, Numbered, LastIsCurrent, ErrorIsLast, Accounted,
              ErrorInContext
<1> QED BY <1>2, <1>3

LEMMA LineFacts ==
    ASSUME TypeOK, NEW k \in DOMAIN fired
    PROVE  fired[k].trace \in Traces /\ fired[k].n \in Nat
<1>1. fired \in [1..Len(fired) -> Line] /\ DOMAIN fired = 1..Len(fired)
  BY LenProperties DEF TypeOK
<1>2. fired[k] \in Line
  BY <1>1
<1> QED BY <1>2 DEF Line

(* An entry that is not kept changes nothing of the buffer.                  *)
LEMMA RaisesInv ==
    ASSUME TypeOK, HookInv, NEW t \in Traces, NEW l \in Line, FireRaises(t, l)
    PROVE  TypeOK' /\ HookInv'
<1>1. /\ mu = {} /\ l.n \in 1..MaxEntries /\ l.n = logged[t] + 1 /\ logged[t] < MaxEntries
      /\ logged' = [logged EXCEPT ![t] = l.n]
      /\ told' = told \cup {l} /\ exited' \in BOOLEAN
      /\ mu' = mu /\ lineBuffer' = lineBuffer /\ rest' = rest /\ writeError' = writeError
      /\ fired' = fired /\ written' = written /\ failed' = failed
  BY DEF FireRaises, Free, Entry, Ends, Line
<1>2. TypeOK'
  BY <1>1 DEF TypeOK
<1>3. \A u \in Traces : logged[u] \in Nat /\ logged'[u] \in Nat /\ logged[u] <= logged'[u]
  BY <1>1 DEF TypeOK
<1>4. \A k \in DOMAIN fired : fired[k].trace \in Traces /\ fired[k].n \in Nat
  BY LineFacts
<1>5. Numbered'
  BY <1>1, <1>3, <1>4 DEF HookInv, Numbered
<1>6. OneInside' /\ LastIsCurrent' /\ ErrorIsLast'
  BY <1>1 DEF OneInside, LastIsCurrent, ErrorIsLast
<1>7. Remaining' = Remaining
  BY <1>1 DEF Remaining
<1>8. Accounted'
  BY <1>1, <1>7 DEF HookInv, Accounted
<1>9. ErrorInContext'
  BY <1>1 DEF HookInv, ErrorInContext
<1> QED BY <1>2, <1>5, <1>6, <1>8, <1>9 DEF HookInv

(* A new line is the last one, and no other has its number.                  *)
LEMMA AppendsInv ==
    ASSUME TypeOK, HookInv, NEW t \in Traces, NEW l \in Line,
           mu = {}, Entry(t, l), fired' = Append(fired, l)
    PROVE  /\ Numbered' /\ fired' \in Seq(Line) /\ logged' \in [Traces -> 0..MaxEntries]
           /\ Len(fired') > 0 /\ fired'[Len(fired')] = l
           /\ l.trace = t /\ l.n = logged'[t]
           /\ DOMAIN fired' = DOMAIN fired \cup {Len(fired')}
           /\ \A k \in DOMAIN fired :
                /\ fired'[k] = fired[k] /\ 1..k \subseteq DOMAIN fired
                /\ fired[k].trace = t => fired[k].n < logged'[t]
<1>1. /\ l.n \in 1..MaxEntries /\ l.n = logged[t] + 1 /\ logged[t] < MaxEntries
      /\ l.trace = t /\ logged' = [logged EXCEPT ![t] = l.n]
  BY DEF Entry, Line
<1>2. logged' \in [Traces -> 0..MaxEntries] /\ logged'[t] = l.n /\ logged[t] \in Nat
  BY <1>1 DEF TypeOK
<1>3. \A u \in Traces : logged[u] \in Nat /\ logged'[u] \in Nat /\ logged[u] <= logged'[u]
  BY <1>1 DEF TypeOK
<1>4. /\ fired' \in Seq(Line) /\ Len(fired) \in Nat /\ Len(fired') = Len(fired) + 1
      /\ DOMAIN fired = 1..Len(fired) /\ DOMAIN fired' = 1..Len(fired) + 1
      /\ \A i \in 1..Len(fired) : fired'[i] = fired[i]
      /\ fired'[Len(fired) + 1] = l
  BY AppendFacts DEF TypeOK
<1>5. \A k \in DOMAIN fired : fired[k].trace \in Traces /\ fired[k].n \in Nat
  BY LineFacts
<1>6. \A k \in DOMAIN fired : fired[k].trace = t => fired[k].n < logged'[t]
  BY <1>1, <1>2, <1>5 DEF HookInv, Numbered
<1>7. \A k \in DOMAIN fired' : k \in DOMAIN fired \/ k = Len(fired) + 1
  BY <1>4
<1>8. \A k \in DOMAIN fired' : fired'[k].n <= logged'[fired'[k].trace]
  <2> SUFFICES ASSUME NEW k \in DOMAIN fired' PROVE fired'[k].n <= logged'[fired'[k].trace]
    OBVIOUS
  <2>1. CASE k \in DOMAIN fired
    <3>1. fired'[k] = fired[k] /\ fired[k].n <= logged[fired[k].trace]
      BY <1>4, <2>1 DEF HookInv, Numbered
    <3> QED BY <1>3, <1>5, <2>1, <3>1
  <2>2. CASE k = Len(fired) + 1
    BY <1>1, <1>2, <1>4, <2>2
  <2> QED BY <1>7, <2>1, <2>2
<1>9. ASSUME NEW j \in DOMAIN fired', NEW k \in DOMAIN fired',
             fired'[j].trace = fired'[k].trace, fired'[j].n = fired'[k].n
      PROVE  j = k
  <2>1. CASE j \in DOMAIN fired /\ k \in DOMAIN fired
    BY <1>4, <1>9, <2>1 DEF HookInv, Numbered
  <2>2. CASE j \in DOMAIN fired /\ k = Len(fired) + 1
    BY <1>1, <1>2, <1>4, <1>5, <1>6, <1>9, <2>2
  <2>3. CASE j = Len(fired) + 1 /\ k \in DOMAIN fired
    BY <1>1, <1>2, <1>4, <1>5, <1>6, <1>9, <2>3
  <2> QED BY <1>7, <2>1, <2>2, <2>3
<1>10. \A k \in DOMAIN fired : 1..k \subseteq DOMAIN fired
  BY <1>4
<1>11. DOMAIN fired' = DOMAIN fired \cup {Len(fired')}
  BY <1>4
<1> QED BY <1>1, <1>2, <1>4, <1>6, <1>8, <1>9, <1>10, <1>11 DEF Numbered

LEMMA KeepsInv ==
    ASSUME TypeOK, HookInv, NEW t \in Traces, NEW l \in Line, FireKeeps(t, l)
    PROVE  TypeOK' /\ HookInv' /\ mu = {} /\ Remaining' = Append(Remaining, l)
<1>1. /\ mu = {} /\ Entry(t, l) /\ ~Severe(l)
      /\ lineBuffer' = Append(lineBuffer, l) /\ fired' = Append(fired, l)
      /\ mu' = mu /\ rest' = rest /\ writeError' = writeError /\ exited' = exited
      /\ written' = written /\ failed' = failed /\ told' = told
  BY DEF FireKeeps, Free
<1>2. /\ Numbered' /\ fired' \in Seq(Line) /\ logged' \in [Traces -> 0..MaxEntries]
      /\ fired'[Len(fired')] = l
      /\ DOMAIN fired' = DOMAIN fired \cup {Len(fired')}
      /\ \A k \in DOMAIN fired : fired'[k] = fired[k] /\ 1..k \subseteq DOMAIN fired
  BY <1>1, AppendsInv
<1>3. /\ lineBuffer' \in Seq(Line) /\ Range(lineBuffer') = Range(lineBuffer) \cup {l}
      /\ \A k \in DOMAIN lineBuffer' :
           \/ k \in DOMAIN lineBuffer /\ lineBuffer'[k] = lineBuffer[k]
           \/ lineBuffer'[k] = l
  BY <1>1, AppendFacts DEF TypeOK
<1>4. TypeOK'
  BY <1>1, <1>2, <1>3 DEF TypeOK
<1>5. OneInside' /\ LastIsCurrent' /\ ErrorIsLast'
  BY <1>1 DEF OneInside, LastIsCurrent, ErrorIsLast
<1>6. Remaining' = lineBuffer' /\ Remaining = lineBuffer
  BY <1>1 DEF Remaining
<1>7. Accounted'
  BY <1>1, <1>2, <1>3, <1>6 DEF HookInv, Accounted
<1>8. ErrorInContext'
  BY <1>1, <1>2 DEF HookInv, ErrorInContext
<1> QED BY <1>1, <1>2, <1>4, <1>5, <1>6, <1>7, <1>8 DEF HookInv

LEMMA FlushesInv ==
    ASSUME TypeOK, HookInv, NEW t \in Traces, NEW l \in Line, FireFlushes(t, l)
    PROVE  TypeOK' /\ HookInv' /\ Remaining' = Append(Remaining, l)
<1>1. /\ mu = {} /\ Entry(t, l) /\ Severe(l)
      /\ lineBuffer' = Append(lineBuffer, l) /\ fired' = Append(fired, l)
      /\ mu' = {t} /\ rest' = [rest EXCEPT ![t] = lineBuffer']
      /\ writeError' = [writeError EXCEPT ![t] = FALSE] /\ exited' = exited
      /\ written' = written /\ failed' = failed /\ told' = told
  BY DEF FireFlushes, Free
<1>2. /\ Numbered' /\ fired' \in Seq(Line) /\ logged' \in [Traces -> 0..MaxEntries]
      /\ Len(fired') > 0 /\ fired'[Len(fired')] = l
      /\ l.trace = t /\ l.n = logged'[t]
      /\ DOMAIN fired' = DOMAIN fired \cup {Len(fired')}
      /\ \A k \in DOMAIN fired :
           /\ fired'[k] = fired[k] /\ 1..k \subseteq DOMAIN fired
           /\ fired[k].trace = t => fired[k].n < logged'[t]
  BY <1>1, AppendsInv
<1>3. /\ lineBuffer' \in Seq(Line) /\ Range(lineBuffer') = Range(lineBuffer) \cup {l}
      /\ lineBuffer' # <<>> /\ lineBuffer'[Len(lineBuffer')] = l
  <2>1. lineBuffer \in Seq(Line)
    BY DEF TypeOK
  <2>2. /\ lineBuffer' \in Seq(Line) /\ Range(lineBuffer') = Range(lineBuffer) \cup {l}
        /\ lineBuffer' # <<>> /\ Len(lineBuffer') = Len(lineBuffer) + 1
        /\ lineBuffer'[Len(lineBuffer) + 1] = l
    BY <1>1, <2>1, AppendFacts
  <2> QED BY <2>2
<1>4. TypeOK'
  <2>1. Cardinality(mu') <= 1
    <3>1. Cardinality({t}) = 1
      BY FS_Singleton
    <3> QED BY <1>1, <3>1
  <2>2. rest' \in [Traces -> Seq(Line)] /\ \A u \in Traces : u # t => rest'[u] = <<>>
    BY <1>1, <1>3 DEF TypeOK
  <2>3. writeError' \in [Traces -> BOOLEAN]
    BY <1>1 DEF TypeOK
  <2> QED BY <1>1, <1>2, <1>3, <2>1, <2>2, <2>3 DEF TypeOK
<1>5. rest'[t] = lineBuffer'
  BY <1>1 DEF TypeOK
<1>6. OneInside' /\ LastIsCurrent'
  BY <1>1, <1>2 DEF OneInside, LastIsCurrent
<1>7. ErrorIsLast'
  BY <1>1, <1>2, <1>3, <1>5 DEF ErrorIsLast
<1>8. Remaining' = lineBuffer' /\ Remaining = lineBuffer
  BY <1>1, <1>5, OneChosen DEF Remaining
<1>9. Accounted'
  BY <1>1, <1>2, <1>3, <1>8 DEF HookInv, Accounted
<1>10. ErrorInContext'
  <2> SUFFICES ASSUME NEW k \in DOMAIN fired', Severe(fired'[k]),
                      fired'[k].trace \in mu' => fired'[k].n < logged'[fired'[k].trace]
               PROVE  /\ fired'[k] \in told' \cup Range(written')
                      /\ \A j \in 1..k : fired'[j] \in Range(written') \cup failed'
    BY DEF ErrorInContext
  <2>1. k \in DOMAIN fired
    <3>1. k # Len(fired')
      <4> SUFFICES ASSUME k = Len(fired') PROVE FALSE
        OBVIOUS
      <4>1. fired'[k].trace \in mu' /\ fired'[k].n = logged'[fired'[k].trace]
        BY <1>1, <1>2
      <4>2. logged'[t] \in Nat
        BY <1>2
      <4> QED BY <1>1, <1>2, <4>1, <4>2
    <3> QED BY <1>2, <3>1
  <2>2. fired'[k] = fired[k] /\ \A j \in 1..k : j \in DOMAIN fired /\ fired'[j] = fired[j]
    BY <1>2, <2>1
  <2> QED BY <1>1, <2>1, <2>2 DEF HookInv, ErrorInContext
<1> QED BY <1>1, <1>2, <1>4, <1>6, <1>7, <1>8, <1>9, <1>10 DEF HookInv

LEMMA WriteInv ==
    ASSUME TypeOK, HookInv, NEW t \in Traces, WriteLine(t)
    PROVE  /\ TypeOK' /\ HookInv'
           /\ Remaining # <<>> /\ Remaining' = Tail(Remaining)
           /\ \E l \in Range(Remaining) : Severe(l) /\ l \in Line
           /\ \/ written' = Append(written, Head(Remaining))
              \/ written' = written
<1>1. /\ t \in mu /\ rest[t] # <<>> /\ rest' = [rest EXCEPT ![t] = Tail(@)]
      /\ logged' = logged /\ mu' = mu /\ lineBuffer' = lineBuffer /\ exited' = exited
      /\ fired' = fired /\ told' = told
  BY DEF WriteLine
<1> DEFINE head == Head(rest[t])
<1>2. \/ /\ written' = Append(written, head)
         /\ writeError' = [writeError EXCEPT ![t] = FALSE]
         /\ failed' = failed
      \/ /\ failed' = failed \cup {head}
         /\ writeError' = [writeError EXCEPT ![t] = TRUE]
         /\ written' = written
  BY DEF WriteLine
<1>3. /\ mu = {t} /\ Remaining = rest[t] /\ Current(t) = fired[Len(fired)]
      /\ Current(t) \in Line /\ Severe(Current(t))
  BY <1>1, CurrentIsLast
<1>4. rest[t] \in Seq(Line) /\ rest'[t] = Tail(rest[t])
  BY <1>1 DEF TypeOK
<1>5. /\ head \in Line /\ rest'[t] \in Seq(Line)
      /\ rest[t][Len(rest[t])] \in Range(rest[t])
      /\ Range(rest[t]) = Range(rest'[t]) \cup {head}
      /\ rest'[t] = <<>> => head = rest[t][Len(rest[t])]
      /\ rest'[t] # <<>> => rest'[t][Len(rest'[t])] = rest[t][Len(rest[t])]
  BY <1>1, <1>4, TailFacts
<1>6. rest[t][Len(rest[t])] = fired[Len(fired)]
  BY <1>1, <1>3 DEF HookInv, ErrorIsLast
<1> HIDE DEF head
<1>7. /\ written' \in Seq(Line)
      /\ Range(written) \subseteq Range(written')
      /\ failed \subseteq failed' /\ failed' \subseteq Line
      /\ head \in Range(written') \cup failed'
      /\ writeError' \in [Traces -> BOOLEAN]
      /\ writeError'[t] \/ head \in Range(written')
  <2>1. CASE written' = Append(written, head)
    <3>1. written' \in Seq(Line) /\ Range(written') = Range(written) \cup {head}
      BY <1>5, <2>1, AppendFacts DEF TypeOK
    <3> QED BY <1>2, <1>5, <3>1 DEF TypeOK
  <2>2. CASE written' # Append(written, head)
    BY <1>1, <1>2, <1>5, <2>2 DEF TypeOK
  <2> QED BY <2>1, <2>2
<1>8. TypeOK'
  <2>1. rest' \in [Traces -> Seq(Line)] /\ \A u \in Traces : u # t => rest'[u] = rest[u]
    BY <1>1, <1>5 DEF TypeOK
  <2> QED BY <1>1, <1>3, <1>7, <2>1 DEF TypeOK
<1>9. OneInside' /\ Numbered' /\ LastIsCurrent'
  BY <1>1 DEF HookInv, OneInside, Numbered, LastIsCurrent
<1>10. ErrorIsLast'
  BY <1>1, <1>3, <1>5, <1>6, <1>7 DEF ErrorIsLast
<1>11. Remaining' = rest'[t]
  BY <1>1, <1>3, OneChosen DEF Remaining
<1>12. Accounted'
  BY <1>1, <1>3, <1>5, <1>7, <1>11 DEF HookInv, Accounted
<1>13. ErrorInContext'
  BY <1>1, <1>7 DEF HookInv, ErrorInContext
<1>14. \E l \in Range(Remaining) : Severe(l) /\ l \in Line
  BY <1>3, <1>5, <1>6
<1>15. written' = Append(written, Head(Remaining)) \/ written' = written
  BY <1>2, <1>3 DEF head
<1> QED BY <1>1, <1>3, <1>4, <1>8, <1>9, <1>10, <1>11, <1>12, <1>13, <1>14, <1>15 DEF HookInv

LEMMA ReturnsInv ==
    ASSUME TypeOK, HookInv, NEW t \in Traces, FireReturns(t)
    PROVE  TypeOK' /\ HookInv' /\ Remaining' = Remaining /\ written' = written
<1>1. /\ t \in mu /\ rest[t] = <<>> /\ lineBuffer' = <<>>
      /\ told' = IF writeError[t] THEN told \cup {Current(t)} ELSE told
      /\ mu' = mu \ {t} /\ exited' \in BOOLEAN
      /\ logged' = logged /\ rest' = rest /\ writeError' = writeError
      /\ fired' = fired /\ written' = written /\ failed' = failed
  BY DEF FireReturns, Ends
<1>2. /\ mu = {t} /\ Remaining = <<>> /\ Current(t) = fired[Len(fired)]
      /\ Current(t) \in Line /\ Len(fired) \in DOMAIN fired
  BY <1>1, CurrentIsLast
<1>3. mu' = {} /\ Remaining' = <<>>
  BY <1>1, <1>2 DEF Remaining
<1>4. TypeOK'
  <2>1. Cardinality(mu') <= 1
    BY <1>3, FS_EmptySet
  <2>2. <<>> \in Seq(Line) /\ DOMAIN <<>> = {}
    BY EmptySeq
  <2> QED BY <1>1, <1>2, <1>3, <2>1, <2>2 DEF TypeOK
<1>5. OneInside' /\ Numbered' /\ LastIsCurrent' /\ ErrorIsLast'
  BY <1>1, <1>3 DEF HookInv, OneInside, Numbered, LastIsCurrent, ErrorIsLast
<1>6. Accounted'
  BY <1>1, <1>2, <1>3 DEF HookInv, Accounted
<1>7. \A k \in DOMAIN fired : fired[k] \in Range(written) \cup failed
  BY <1>2, RangeOfEmpty DEF HookInv, Accounted
<1>8. ErrorInContext'
  <2> SUFFICES ASSUME NEW k \in DOMAIN fired, Severe(fired[k])
               PROVE  /\ fired[k] \in told' \cup Range(written)
                      /\ \A j \in 1..k : fired[j] \in Range(written) \cup failed
    BY <1>1 DEF ErrorInContext
  <2>1. 1..k \subseteq DOMAIN fired
    <3>1. DOMAIN fired = 1..Len(fired) /\ Len(fired) \in Nat
      BY LenProperties DEF TypeOK
    <3> QED BY <3>1
  <2>2. CASE fired[k].trace \in mu => fired[k].n < logged[fired[k].trace]
    BY <1>1, <1>7, <2>1, <2>2 DEF HookInv, ErrorInContext
  <2>3. CASE fired[k].trace = t /\ fired[k].n >= logged[t]
    <3>1. fired[k].n = logged[t]
      BY <1>2, <2>3, LineFacts DEF HookInv, Numbered, TypeOK
    <3>2. fired[k] = fired[Len(fired)]
      BY <1>2, <1>1, <2>3, <3>1 DEF HookInv, Numbered, LastIsCurrent
    <3>3. writeError[t] \/ fired[Len(fired)] \in Range(written)
      BY <1>1 DEF HookInv, ErrorIsLast
    <3>4. fired[k] \in told' \cup Range(written)
      BY <1>1, <1>2, <3>2, <3>3
    <3> QED BY <1>7, <2>1, <3>4
  <2>4. fired[k].n \in Nat /\ logged[t] \in Nat
    BY LineFacts DEF TypeOK
  <2> QED BY <1>2, <2>2, <2>3, <2>4
<1> QED BY <1>1, <1>2, <1>3, <1>4, <1>5, <1>6, <1>8 DEF HookInv

-----------------------------------------------------------------------------
(* Every step keeps the invariant                                            *)

LEMMA HookStep == TypeOK /\ HookInv /\ [Next]_vars => TypeOK' /\ HookInv'
<1> SUFFICES ASSUME TypeOK, HookInv, [Next]_vars PROVE TypeOK' /\ HookInv'
  OBVIOUS
<1>1. CASE Next
  <2>1. PICK t \in Traces :
          \/ \E l \in Line : FireRaises(t, l) \/ FireKeeps(t, l) \/ FireFlushes(t, l)
          \/ WriteLine(t) \/ FireReturns(t)
    BY <1>1 DEF Next
  <2>2. ASSUME NEW l \in Line, FireRaises(t, l) PROVE TypeOK' /\ HookInv'
    BY <2>2, RaisesInv
  <2>3. ASSUME NEW l \in Line, FireKeeps(t, l) PROVE TypeOK' /\ HookInv'
    BY <2>3, KeepsInv
  <2>4. ASSUME NEW l \in Line, FireFlushes(t, l) PROVE TypeOK' /\ HookInv'
    BY <2>4, FlushesInv
  <2>5. CASE WriteLine(t)
    BY <2>5, WriteInv
  <2>6. CASE FireReturns(t)
    BY <2>6, ReturnsInv
  <2> QED BY <2>1, <2>2, <2>3, <2>4, <2>5, <2>6
<1>2. CASE vars' = vars
  <2>1. Remaining' = Remaining
    BY <1>2 DEF vars, Remaining
  <2>2. OneInside' /\ Numbered' /\ LastIsCurrent' /\ ErrorIsLast'
    BY <1>2 DEF vars, HookInv, OneInside, Numbered, LastIsCurrent, ErrorIsLast
  <2>3. Accounted' /\ ErrorInContext'
    BY <1>2, <2>1 DEF vars, HookInv, Accounted, ErrorInContext
  <2>4. TypeOK'
    BY <1>2 DEF vars, TypeOK
  <2> QED BY <2>2, <2>3, <2>4 DEF HookInv
<1> QED BY <1>1, <1>2

LEMMA HookInvariant == Spec => [](TypeOK /\ HookInv)
<1>1. Init => TypeOK /\ HookInv
  BY HookInit
<1>2. (TypeOK /\ HookInv) /\ [Next]_vars => (TypeOK /\ HookInv)'
  BY HookStep
<1> QED BY <1>1, <1>2, PTL DEF Spec

(* Type correctness: one trace at a time is past the append of Fire, only    *)
(* that one has lines to write, and between calls no error is buffered.      *)
THEOREM TypeCorrect == Spec => []TypeOK
<1> QED BY HookInvariant, PTL

(* Once Fire has returned for an error, that error is written or reported by *)
(* logrus, and every line logged before it was given to the writer.          *)
THEOREM ErrorsInContext == Spec => []ErrorInContext
<1>1. HookInv => ErrorInContext
  BY DEF HookInv
<1> QED BY <1>1, HookInvariant, PTL

-----------------------------------------------------------------------------
(* The hook implements ContextLog                                            *)

LEMMA ContextInit == Init => Context!Init
BY DEF Init, Context!Init, Remaining

LEMMA ContextStep ==
    TypeOK /\ HookInv /\ [Next]_vars => [Context!Next]_(Context!vars)
<1> SUFFICES ASSUME TypeOK, HookInv, [Next]_vars PROVE [Context!Next]_(Context!vars)
  OBVIOUS
<1>1. CASE Next
  <2>1. PICK t \in Traces :
          \/ \E l \in Line : FireRaises(t, l) \/ FireKeeps(t, l) \/ FireFlushes(t, l)
          \/ WriteLine(t) \/ FireReturns(t)
    BY <1>1 DEF Next
  <2>2. ASSUME NEW l \in Line, FireRaises(t, l) PROVE Context!vars' = Context!vars
    BY <2>2 DEF FireRaises, Context!vars, Remaining
  <2>3. ASSUME NEW l \in Line, FireKeeps(t, l) \/ FireFlushes(t, l) PROVE Context!Wait
    <3>1. Remaining' = Append(Remaining, l)
      BY <2>3, KeepsInv, FlushesInv
    <3>2. written' = written
      BY <2>3 DEF FireKeeps, FireFlushes
    <3> QED BY <3>1, <3>2 DEF Context!Wait
  <2>4. CASE WriteLine(t)
    <3>1. /\ Remaining # <<>> /\ Remaining' = Tail(Remaining)
          /\ \E l \in Range(Remaining) : Severe(l) /\ l \in Line
          /\ written' = Append(written, Head(Remaining)) \/ written' = written
      BY <2>4, WriteInv
    <3>2. Context!Due
      BY <3>1 DEF Context!Due, Range, Context!Range
    <3>3. Context!Emit \/ Context!Drop
      BY <3>1, <3>2 DEF Context!Emit, Context!Drop
    <3> QED BY <3>3 DEF Context!Next
  <2>5. CASE FireReturns(t)
    BY <2>5, ReturnsInv DEF Context!vars
  <2> QED BY <2>1, <2>2, <2>3, <2>4, <2>5 DEF Context!Next
<1>2. CASE vars' = vars
  BY <1>2 DEF vars, Context!vars, Remaining
<1> QED BY <1>1, <1>2

(* The hook implements ContextLog: what no error follows stays unwritten,    *)
(* and the rest leaves the buffer once, in order, whichever traces logged it. *)
THEOREM ImplementsContextLog == Spec => EmitsContext
<1>1. Init => Context!Init
  BY ContextInit
<1>2. (TypeOK /\ HookInv) /\ [Next]_vars => [Context!Next]_(Context!vars)
  BY ContextStep
<1> QED BY <1>1, <1>2, HookInvariant, PTL DEF Spec, EmitsContext, Context!Spec
=============================================================================
