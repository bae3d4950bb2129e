----------------------------- MODULE MCBufferHook -----------------------------
(***************************************************************************)
(* BufferHook on small instances for TLC.  A level of each kind is enough: *)
(* one that is only kept, one that flushes, one that flushes and ends the  *)
(* process.                                                                *)
(***************************************************************************)
EXTENDS BufferHook
=============================================================================
