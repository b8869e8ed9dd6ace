------------------------------- MODULE WsClient -------------------------------
(***************************************************************************)
(* net/ws_cli/session.cpp: a Session holds one implementation, impl_,      *)
(* chosen when the program is built, and hands every call to it.  A        *)
(* behaviour is one of the libevent client (WsSession) or of the libuv     *)
(* client (WsUvSession), or follows the payload of one text message byte   *)
(* by byte (WsPayload), which WsSession abstracts to the validator's       *)
(* verdict.  The variables of the others keep their values.                *)
(***************************************************************************)
EXTENDS WsSession

CONSTANTS Lengths, Masks, MaxWrites, Bytes, MaxChunk, MaxText

VARIABLES impl_, uvLoop, uvSocket, connect_handler_, write_, written, text, utf8State

ASSUME WsClientAssumption ==
  /\ Lengths \subseteq Nat
  /\ Masks \subseteq [1..4 -> 0..255]
  /\ Bytes \subseteq 0..255
  /\ MaxChunk \in Nat

Uv == INSTANCE WsUvSession
Payload == INSTANCE WsPayload

uvVars == <<uvLoop, uvSocket, connect_handler_, write_, written>>
textVars == <<text, utf8State>>

ClientInit ==
  /\ impl_ \in {"SessionImplEV", "SessionImplUV", "payload"}
  /\ Init /\ Uv!UvInit /\ Payload!TextInit

ClientNext ==
  \/ impl_ = "SessionImplEV" /\ Next /\ UNCHANGED <<impl_, uvVars, textVars>>
  \/ impl_ = "SessionImplUV" /\ Uv!UvNext /\ UNCHANGED <<impl_, vars, textVars>>
  \/ impl_ = "payload" /\ Payload!TextNext /\ UNCHANGED <<impl_, vars, uvVars>>

ClientSpec ==
  /\ ClientInit /\ [][ClientNext]_<<impl_, vars, uvVars, textVars>>
  /\ Fairness /\ Uv!UvFairness

-----------------------------------------------------------------------------
(* What the libuv client writes: see WsUvSession. *)
HeadersDecode == impl_ = "SessionImplUV" => Uv!HeadersDecode

(* The libuv client's DoConnect returns: see WsUvSession. *)
UvConnectReturns == Uv!UvConnectReturns

(* ValidateUtf8 against RFC 3629: see WsPayload. *)
Utf8Agrees == impl_ = "payload" => Payload!Utf8Agrees

(* EncodeBase64 and DecodeBase64: see WsPayload. *)
Base64RoundTrip == impl_ = "payload" => Payload!Base64RoundTrip
=============================================================================
