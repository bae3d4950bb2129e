---------------------------- MODULE MCLogPipeline ----------------------------
(***************************************************************************)
(* LogPipeline on small instances for TLC, and two statements the          *)
(* repository makes of it that the code does not keep.                     *)
(***************************************************************************)
EXTENDS LogPipeline

(* A database that answers: it applies the rows it has and confirms them.   *)
HealthySpec == FairSpec /\ WF_vars(DatabaseStep /\ UNCHANGED emitterVars)

(* log_emmiter.py:64-67 expects an emit without a collector to fail with    *)
(* ENXIO and to be skipped, so that every emit_logs call that starts to     *)
(* open the pipe gets past it.  The open is a blocking one.                 *)
EmitReturns == \A e \in Emitters : epc[e] = "opening" ~> epc[e] # "opening"

(* timescaleDB-for-logs.html:126, "you should not lose logs", and :440, "we *)
(* now take log events from the in memory buffer every X seconds and send   *)
(* them to timescaleDB/postgres": when neither the process nor the database *)
(* fails, no line that reached the pipe is lost.                            *)
NothingLost == lost = {}
=============================================================================
