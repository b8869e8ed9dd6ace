---------------------------- MODULE MCWsSession ----------------------------
(***************************************************************************)
(* WsSession for TLC.  The frame constants are scaled down: 125 becomes    *)
(* CtrlMax, the 2^7 values of payloadLen become LenModulus.                *)
(***************************************************************************)
EXTENDS WsSession
=============================================================================
