---------------------------- MODULE MCWaitableEvent ----------------------------
(* WaitableEvent for TLC. *)
EXTENDS WaitableEvent
=============================================================================
