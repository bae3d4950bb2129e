------------------------------ MODULE BufferHook ------------------------------
(***************************************************************************)
(* The logrus hook of blogs/09/code: Fire keeps every line and writes them *)
(* when an error is logged.  Several goroutines, the traces, log through   *)
(* one logger; logrus 1.6.0 holds the logger's mutex around Fire.          *)
(***************************************************************************)
EXTENDS Naturals, Sequences, FiniteSets, Functions

CONSTANTS
    Traces,      (* the goroutines                                            *)
    Levels,      (* the levels at which they log and the logger fires hooks   *)
    MaxEntries   (* bound: entries of a trace                                 *)

AllLevels == {"trace", "debug", "info", "warning", "error", "fatal", "panic"}

ASSUME HookAssumption ==
    /\ Levels \subseteq AllLevels
    /\ MaxEntries \in Nat

VARIABLES
    logged,      (* how many entries each trace has logged                    *)
    mu,          (* the traces that are in Fire, past its append              *)
    lineBuffer,  (* h.lineBuffer                                              *)
    rest,        (* the lines that the loop of each trace has still to write  *)
    writeError,  (* whether its last write failed                             *)
    exited,      (* logrus ended the process after a fatal or panic entry     *)
    (* history                                                               *)
    fired,       (* the lines in the order of their append                    *)
    written,     (* what the writer got                                       *)
    failed,      (* lines whose write failed                                  *)
    told         (* entries of which logrus printed "Failed to fire hook"     *)

vars == <<logged, mu, lineBuffer, rest, writeError, exited, fired, written, failed, told>>

Line == [trace : Traces, n : 1..MaxEntries, level : Levels]

(* entry.Level <= logrus.ErrorLevel                                          *)
Severe(l) == l.level \in {"error", "fatal", "panic"}

TypeOK ==
    /\ logged \in [Traces -> 0..MaxEntries]
    /\ mu \subseteq Traces /\ Cardinality(mu) <= 1
    /\ lineBuffer \in Seq(Line) /\ fired \in Seq(Line) /\ written \in Seq(Line)
    /\ rest \in [Traces -> Seq(Line)]
    /\ writeError \in [Traces -> BOOLEAN] /\ exited \in BOOLEAN
    /\ failed \subseteq Line /\ told \subseteq Line
    /\ \A t \in Traces : t \notin mu => rest[t] = <<>>
    /\ mu = {} => \A k \in DOMAIN lineBuffer : ~Severe(lineBuffer[k])

Init ==
    /\ logged = [t \in Traces |-> 0]
    /\ mu = {} /\ lineBuffer = <<>>
    /\ rest = [t \in Traces |-> <<>>]
    /\ writeError = [t \in Traces |-> FALSE]
    /\ exited = FALSE
    /\ fired = <<>> /\ written = <<>> /\ failed = {} /\ told = {}

-----------------------------------------------------------------------------
(* Mutant: the mutex is not held around Fire.                                *)
MutantFree(t) == t \notin mu

Free(t) == mu = {}

Entry(t, l) ==
    /\ ~exited /\ logged[t] < MaxEntries
    /\ l.trace = t /\ l.n = logged[t] + 1
    /\ logged' = [logged EXCEPT ![t] = l.n]

(* Fatal calls os.Exit, Panic panics in a program that recovers nowhere.     *)
Ends(l) == exited' = (l.level \in {"fatal", "panic"})

(* The entry cannot be formatted: Fire returns before the append.            *)
FireRaises(t, l) ==
    /\ Free(t) /\ Entry(t, l)
    /\ told' = told \cup {l}
    /\ Ends(l)
    /\ UNCHANGED <<mu, lineBuffer, rest, writeError, fired, written, failed>>

FireKeeps(t, l) ==
    /\ Free(t) /\ Entry(t, l) /\ ~Severe(l)
    /\ lineBuffer' = Append(lineBuffer, l)
    /\ fired' = Append(fired, l)
    /\ UNCHANGED <<mu, rest, writeError, exited, written, failed, told>>

(* The loop ranges over the slice as it is now.                              *)
FireFlushes(t, l) ==
    /\ Free(t) /\ Entry(t, l) /\ Severe(l)
    /\ lineBuffer' = Append(lineBuffer, l)
    /\ fired' = Append(fired, l)
    /\ mu' = mu \cup {t}
    /\ rest' = [rest EXCEPT ![t] = lineBuffer']
    /\ writeError' = [writeError EXCEPT ![t] = FALSE]
    /\ UNCHANGED <<exited, written, failed, told>>

(* A write that fails does not end the loop, and the next one overwrites     *)
(* writeError.                                                               *)
WriteLine(t) ==
    /\ t \in mu /\ rest[t] # <<>>
    /\ rest' = [rest EXCEPT ![t] = Tail(@)]
    /\ \/ /\ written' = Append(written, Head(rest[t]))
          /\ writeError' = [writeError EXCEPT ![t] = FALSE]
          /\ UNCHANGED failed
       \/ /\ failed' = failed \cup {Head(rest[t])}
          /\ writeError' = [writeError EXCEPT ![t] = TRUE]
          /\ UNCHANGED written
    /\ UNCHANGED <<logged, mu, lineBuffer, exited, fired, told>>

(* The entry that the trace is logging: its last one.                        *)
Current(t) ==
    CHOOSE l \in Range(fired) : l.trace = t /\ l.n = logged[t]

(* Mutant: the buffer is not cleared.                                       *)
MutantFireReturns(t) ==
    /\ t \in mu /\ rest[t] = <<>>
    /\ told' = IF writeError[t] THEN told \cup {Current(t)} ELSE told
    /\ mu' = mu \ {t}
    /\ Ends(Current(t))
    /\ UNCHANGED <<logged, lineBuffer, rest, writeError, fired, written, failed>>

FireReturns(t) ==
    /\ t \in mu /\ rest[t] = <<>>
    /\ lineBuffer' = <<>>
    /\ told' = IF writeError[t] THEN told \cup {Current(t)} ELSE told
    /\ mu' = mu \ {t}
    /\ Ends(Current(t))
    /\ UNCHANGED <<logged, rest, writeError, fired, written, failed>>

Next == \E t \in Traces :
    \/ \E l \in Line : FireRaises(t, l) \/ FireKeeps(t, l) \/ FireFlushes(t, l)
    \/ WriteLine(t) \/ FireReturns(t)

Spec == Init /\ [][Next]_vars

-----------------------------------------------------------------------------
(* hook.go:19-30: when Fire has returned for an error, that error is written *)
(* or logrus said so, and whatever any trace had logged before it was given  *)
(* to the writer, whatever became of earlier flushes.                        *)
ErrorInContext ==
    \A k \in DOMAIN fired :
        Severe(fired[k]) /\ (fired[k].trace \in mu => fired[k].n < logged[fired[k].trace]) =>
            /\ fired[k] \in told \cup Range(written)
            /\ \A j \in 1..k : fired[j] \in Range(written) \cup failed

(* The hook is a ContextLog: lines that no error follows stay unwritten      *)
(* (main_test.go:38), those that one follows are written once and in the     *)
(* order of their append, whichever traces logged them.                      *)
Remaining ==
    IF mu = {} THEN lineBuffer ELSE rest[CHOOSE t \in mu : TRUE]

Context == INSTANCE ContextLog WITH
    Errors <- {l \in Line : Severe(l)}, waiting <- Remaining, emitted <- written

EmitsContext == Context!Spec
=============================================================================
