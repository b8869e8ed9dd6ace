------------------------------- MODULE WsSession -------------------------------
(***************************************************************************)
(* The libevent WebSocket client, net/ws_cli/implement/ev: connecting, the *)
(* HTTP upgrade, reading frames, the closing handshake and its timeout,    *)
(* reconnecting.  Everything runs on the thread that is inside DoConnect,  *)
(* in callbacks of event_base_dispatch, so an action is one callback, or   *)
(* one turn of a loop that a callback runs over buffered input: how many   *)
(* turns one callback makes depends only on how the input was cut up.      *)
(*                                                                         *)
(* ws holds the members of SessionImplEV.  A handler is an operator from   *)
(* ws to ws, so that a handler that calls another is their composition.    *)
(* The members are zero when DoInit is called: the session is              *)
(* value-initialised by make_shared.                                       *)
(***************************************************************************)
EXTENDS Integers, Sequences

CONSTANTS CtrlMax,          \* WS_CONTROL_MAX_PAYLOAD_LEN
          LenModulus,       \* values of WSHeader::payloadLen, a 7-bit field
          SizeModulus,      \* values of size_t
          MaxLen,           \* bound: payload length of a server frame
          MaxFrames,        \* bound: frames the server sends in one behaviour
          MaxBytes,         \* bound: payload bytes counted towards one frame
          MaxConnections    \* bound: calls of DoConnect that connect

ASSUME WsSessionAssumption ==
  /\ CtrlMax \in Nat /\ CtrlMax >= 2
  /\ LenModulus \in Nat /\ LenModulus > CtrlMax
  /\ MaxLen \in Nat /\ MaxFrames \in Nat /\ MaxBytes \in Nat /\ MaxConnections \in Nat
  /\ SizeModulus \in Nat /\ SizeModulus > MaxBytes + LenModulus

VARIABLES ws,           \* the session
          loop,         \* "dispatch" inside event_base_dispatch, "eof" inside ReadWebsocket,
                        \* called by OnEofEvent, else "idle"
          loopexit,     \* event_base_loopexit was called
          connections   \* connections started so far

vars == <<ws, loop, loopexit, connections>>

Required == {"Upgrade", "Connection", "Sec-WebSocket-Accept"}
Opcode == {"continuation", "text", "binary", "close", "ping", "pong", "reserved"}
Header == [opcode : Opcode, fin : BOOLEAN, len : 0..MaxLen]
NoFrame == [opcode |-> "reserved", fin |-> FALSE, len |-> 0]
Utf8 == {"accept", "partial", "reject"}
(* What the application's onConnect_ and onMessage_ handlers may do. *)
Reaction == {"nothing", "send", "close"}

IsControlOpcode(opcode) == opcode \in {"close", "ping", "pong"}

(* WTF_CHECK fails, or a null pointer is used: the process ends. *)
Abort(s, where) == [s EXCEPT !.aborted = where]

-----------------------------------------------------------------------------
(* Sending and closing. *)

ShutDown(s) == [s EXCEPT !.connectTimeoutEvent_ = "null", !.bev_ = "null"]

(* wsHeader_ is used for sending, too, before SendData finds out whether    *)
(* there is a bufferevent.                                                  *)
SendFrameRaw(s, opcode, len) ==
  [s EXCEPT !.wsHeader_ = [opcode |-> opcode, fin |-> TRUE, len |-> len % LenModulus],
            !.sent = IF s.bev_ = "null" THEN @ ELSE Append(@, opcode)]

(* maxFrameSize_ is 0, so SendMsgEx never fragments.  Messages have length 1. *)
DoSendMsg(s) ==
  IF s.state_ # "CONNECTED" THEN Abort(s, "SendMsgEx") ELSE SendFrameRaw(s, "text", 1)

CloseAgain(s, reasonLen) ==
  LET closing == SendFrameRaw([s EXCEPT !.state_ = "CLOSING"], "close", reasonLen + 2)
  IN  IF s.bev_ = "null"
      THEN ShutDown([closing EXCEPT !.closeTimeoutEvent_ = "null"])
      ELSE [closing EXCEPT !.sentCloseFlag_ = TRUE, !.closeTimeoutEvent_ = "pending"]

CloseWithoutTimeout(s, reasonLen) ==
  LET closing == [s EXCEPT !.state_ = "CLOSING"]
  IN  IF s.sentCloseFlag_ THEN closing
      ELSE [SendFrameRaw(closing, "close", reasonLen + 2) EXCEPT !.sentCloseFlag_ = TRUE]

CloseWithStatusReason(s, reasonLen) ==
  LET closing == [s EXCEPT !.state_ = "CLOSING"]
      told    == IF s.sentCloseFlag_ THEN closing
                 ELSE SendFrameRaw(closing, "close", reasonLen + 2)
  IN  IF ~s.sentCloseFlag_ /\ s.bev_ = "null"
      THEN ShutDown([told EXCEPT !.closeTimeoutEvent_ = "null"])
      ELSE [told EXCEPT !.sentCloseFlag_ = TRUE, !.closeTimeoutEvent_ = "pending"]

CloseWithStatus(s) == CloseWithStatusReason(s, 0)

React(s, reaction) ==
  CASE reaction = "send"    -> DoSendMsg(s)
    [] reaction = "close"   -> CloseWithStatus(s)
    [] reaction = "nothing" -> s

-----------------------------------------------------------------------------
(* Receiving. *)

(* payloadLen has 7 bits: an extended length does not fit. *)
UnpackHeader(h) == [h EXCEPT !.len = @ % LenModulus]

ValidateHeader(s, h) ==
  /\ h.opcode # "reserved"      \* stands for the reserved bits as well
  /\ IsControlOpcode(h.opcode) => h.fin
  /\ ~(h.opcode = "continuation" /\ s.inMsgFlag_)
  /\ s.inMsgFlag_ => h.opcode = "continuation" \/ IsControlOpcode(h.opcode)

HandleFrameBegin(s) ==
  IF IsControlOpcode(s.wsHeader_.opcode)
  THEN [s EXCEPT !.recvFrameLen_ = 0, !.ctrlLen_ = 0]
  ELSE [s EXCEPT !.recvFrameLen_ = 0, !.frameData_ = TRUE, !.inMsgFlag_ = TRUE, !.msg_ = TRUE,
                 !.utf8State_ = IF s.inMsgFlag_ THEN @ ELSE "accept"]

(* badBody: the status is none a peer may send, or the reason is not UTF-8.  *)
(* The 0 written behind a reason that fills ctrlPayload_ is one byte past its *)
(* end: 125 bytes behind a uint64_t, it falls into the padding that aligns   *)
(* ctrlLen_, and changes no member.                                          *)
(* utf8State_, which the reason is validated with, is not tracked here: no   *)
(* message is delivered in state CLOSING, and the next one starts it afresh. *)
HandleCloseFrameNoEcho(s, badBody) ==
  [s EXCEPT !.closeTimeoutEvent_ = "null", !.state_ = "CLOSING", !.receivedCloseFlag_ = TRUE]

HandleCloseFrame(s, badBody) ==
  LET reasonLen == IF s.ctrlLen_ >= 2 THEN s.ctrlLen_ - 2 ELSE s.serverReasonLen_
      closing   == [s EXCEPT !.closeTimeoutEvent_ = "null", !.state_ = "CLOSING",
                             !.receivedCloseFlag_ = TRUE, !.serverReasonLen_ = reasonLen]
  IN  IF s.ctrlLen_ = 1 \/ (s.ctrlLen_ >= 2 /\ badBody) THEN CloseWithStatus(closing)
      ELSE IF s.sentCloseFlag_ THEN closing
      ELSE CloseWithStatusReason(closing, reasonLen)

(* onPing_ and onPong_ are never set. *)
HandleControlFrame(s, badBody) ==
  IF s.wsHeader_.opcode = "close" THEN HandleCloseFrame(s, badBody)
  ELSE Abort(s, "HandlePingFrame")

OnRecvMsgEndAlways(s, reaction) ==
  [React([s EXCEPT !.delivered = @ \cup {[utf8 |-> s.utf8State_, begun |-> s.wire # NoFrame]}],
         reaction)
     EXCEPT !.msg_ = FALSE]

OnRecvMsgEnd(s, reaction) ==
  LET told == IF s.state_ = "CLOSING" THEN s
              ELSE React([s EXCEPT !.delivered = @ \cup
                            {[utf8 |-> s.utf8State_, begun |-> s.wire # NoFrame]}], reaction)
  IN  [told EXCEPT !.msg_ = FALSE]

HandleFrameEnd(s, reaction, badBody) ==
  LET ended  == [s EXCEPT !.hasHeader_ = FALSE,
                          !.misframed = s.recvFrameLen_ # s.wire.len]
      framed == [ended EXCEPT !.frameData_ = FALSE]
  IN  CASE IsControlOpcode(s.wsHeader_.opcode) -> HandleControlFrame(ended, badBody)
        [] OTHER ->
             IF ~s.frameData_ \/ ~s.msg_ THEN Abort(s, "OnMsgFrameEnd")
             ELSE IF s.wsHeader_.fin
             THEN [OnRecvMsgEnd(framed, reaction) EXCEPT !.inMsgFlag_ = FALSE]
             ELSE framed

(* CloseWithStatus may have replaced wsHeader_ by the header it sent. *)
HandleFrameData(s, k, reaction, badBody) ==
  LET control == IsControlOpcode(s.wsHeader_.opcode)
      taken   == IF control THEN [s EXCEPT !.ctrlLen_ = @ + k] ELSE s
  IN  IF control /\ s.ctrlLen_ + k > CtrlMax
      THEN [CloseWithStatus(s) EXCEPT !.ctrlLen_ = CtrlMax]
      ELSE IF ~control /\ ~s.frameData_ THEN Abort(s, "OnMsgFrameData")
      ELSE IF s.recvFrameLen_ = s.wsHeader_.len THEN HandleFrameEnd(taken, reaction, badBody)
      ELSE taken

(* k bytes of payload; utf8 is where they leave the UTF-8 automaton.        *)
(* msgIsBinary is never set, so binary messages are validated, too.         *)
ReceivePayload(s, k, utf8, reaction, badBody) ==
  LET counted == [s EXCEPT !.recvFrameLen_ = @ + k]
      decoded == [counted EXCEPT !.utf8State_ = utf8]
      checked == IF IsControlOpcode(s.wsHeader_.opcode) THEN counted
                 ELSE IF utf8 = "reject" \/ (utf8 = "partial" /\ s.wsHeader_.fin)
                 THEN CloseWithStatus(decoded)
                 ELSE decoded
  IN  HandleFrameData(checked, k, reaction, badBody)

Remaining(s) == (s.wsHeader_.len - s.recvFrameLen_) % SizeModulus

-----------------------------------------------------------------------------
(* The callbacks. *)

Init ==
  /\ ws = [state_ |-> "CLOSED_CLEANLY", connectState_ |-> "NONE", bev_ |-> "null",
           connectTimeoutEvent_ |-> "null", closeTimeoutEvent_ |-> "null",
           httpHeaderFlags_ |-> {}, hasHeader_ |-> FALSE, wsHeader_ |-> NoFrame,
           recvFrameLen_ |-> 0, ctrlLen_ |-> 0, serverReasonLen_ |-> 0,
           inMsgFlag_ |-> FALSE, msg_ |-> FALSE, frameData_ |-> FALSE,
           utf8State_ |-> "accept", sentCloseFlag_ |-> FALSE, receivedCloseFlag_ |-> FALSE,
           aborted |-> "no",        \* where the process ended
           badInput |-> FALSE,      \* a rejected header is at the front of the input
           frames |-> 0,            \* headers accepted so far
           wire |-> NoFrame,        \* the last header accepted on this connection, as sent
           misframed |-> FALSE,     \* the last frame ended before or after its last byte
           sent |-> <<>>,           \* frames sent on this connection
           delivered |-> {}]        \* messages given to onMessage_ on this connection
  /\ loop = "idle" /\ loopexit = FALSE /\ connections = 0

Dispatching == loop = "dispatch" /\ ws.aborted = "no"
AtEof == loop = "eof" /\ ws.aborted = "no"
Idle == loop = "idle" /\ ws.aborted = "no"

(* connectState_, hasHeader_ and closeTimeoutEvent_ keep their values.       *)
DoConnect ==
  /\ Idle /\ ws.state_ \in {"CLOSED_CLEANLY", "CLOSED_UNCLEANLY"}
  /\ connections < MaxConnections
  /\ ws' = [ws EXCEPT !.receivedCloseFlag_ = FALSE, !.sentCloseFlag_ = FALSE,
                      !.inMsgFlag_ = FALSE, !.bev_ = "connecting", !.state_ = "CONNECTING",
                      !.connectTimeoutEvent_ = "pending",
                      !.badInput = FALSE, !.wire = NoFrame, !.misframed = FALSE,
                      !.sent = <<>>, !.delivered = {}]
  /\ loop' = "dispatch" /\ connections' = connections + 1
  /\ UNCHANGED loopexit

(* The application closes the session while it is not connected. *)
DoClose ==
  /\ Idle /\ ws' = CloseWithStatus(ws)
  /\ UNCHANGED <<loop, loopexit, connections>>

Callback(s) ==
  /\ Dispatching /\ ws' = s
  /\ UNCHANGED <<loop, loopexit, connections>>

SendHandshake(s) == [s EXCEPT !.connectState_ = "SENT_REQ"]

OnConnectEvent ==
  /\ ws.bev_ = "connecting"
  /\ Callback(SendHandshake([ws EXCEPT !.bev_ = "connected"]))

ReadHttpStatus ==
  /\ ws.bev_ = "connected" /\ ws.connectState_ = "SENT_REQ"
  /\ Callback([ws EXCEPT !.httpHeaderFlags_ = {}, !.connectState_ = "PARSED_STATUS"])

(* A required header may come once.  Any other one changes nothing, or is an *)
(* error.                                                                    *)
ValidateHttpHeaders(s, name) == name \notin s.httpHeaderFlags_

ReadHttpHeaders(name) ==
  /\ ws.bev_ = "connected" /\ ws.connectState_ = "PARSED_STATUS"
  /\ ValidateHttpHeaders(ws, name)
  /\ Callback([ws EXCEPT !.httpHeaderFlags_ = @ \cup {name}])

HandshakeCompletesUnchecked(reaction) ==
  /\ ws.bev_ = "connected" /\ ws.connectState_ = "PARSED_STATUS"
  /\ Callback(React([ws EXCEPT !.connectState_ = "HANDSHAKE_COMPLETE",
                               !.state_ = "CONNECTED"], reaction))

HandshakeCompletes(reaction) ==
  /\ ws.bev_ = "connected" /\ ws.connectState_ = "PARSED_STATUS"
  /\ ws.httpHeaderFlags_ = Required
  /\ Callback(React([ws EXCEPT !.connectState_ = "HANDSHAKE_COMPLETE",
                               !.state_ = "CONNECTED"], reaction))

(* A bad status, a bad or repeated header, or a required one missing: OnRead *)
(* frees the bufferevent and goes on to ReadWebsocket, which checks for it.  *)
HandshakeError ==
  /\ ws.bev_ = "connected" /\ ws.connectState_ \in {"SENT_REQ", "PARSED_STATUS"}
  /\ Callback(Abort(ShutDown(ws), "ReadWebsocket"))

(* ReadWebsocket is called by OnRead, once the handshake is complete, and by  *)
(* OnEofEvent for what is left: if it is not complete, what there is of the   *)
(* HTTP reply is read as frames.                                              *)
ReadingFrames ==
  /\ ws.bev_ = "connected"
  /\ IF ws.connectState_ = "HANDSHAKE_COMPLETE" THEN Dispatching ELSE AtEof

(* One turn of its loop. *)
Turn(s) == ws' = s /\ UNCHANGED <<loop, loopexit, connections>>

ReadHeader(h, reaction, badBody) ==
  /\ ReadingFrames /\ ~ws.hasHeader_ /\ ~ws.badInput
  /\ ws.frames < MaxFrames /\ ValidateHeader(ws, h)
  /\ LET begun == HandleFrameBegin([ws EXCEPT !.hasHeader_ = TRUE, !.frames = @ + 1, !.wire = h,
                                              !.wsHeader_ = UnpackHeader(h)])
     IN  Turn(IF begun.wsHeader_.len = 0 THEN HandleFrameEnd(begun, reaction, badBody)
              ELSE begun)

(* Any header that is not valid; there always is one.  It is not drained:   *)
(* every later OnRead meets it again.                                        *)
ReadBadHeader ==
  /\ ReadingFrames /\ ~ws.hasHeader_
  /\ Turn([CloseWithStatus(ws) EXCEPT !.badInput = TRUE])

ReadPayload(k, utf8, reaction, badBody) ==
  /\ ReadingFrames /\ ws.hasHeader_
  /\ k \in 1..Remaining(ws) /\ ws.recvFrameLen_ + k =< MaxBytes
  /\ ws.utf8State_ = "reject" => utf8 = "reject"
  /\ Turn(ReceivePayload(ws, k, utf8, reaction, badBody))

(* Met only when wsHeader_ was replaced, or the frame's end was not acted on. *)
ReadFrameEnd(reaction, badBody) ==
  /\ ReadingFrames /\ ws.hasHeader_ /\ Remaining(ws) = 0
  /\ Turn(HandleFrameEnd(ws, reaction, badBody))

(* EOF, and OnRead has left part of the HTTP reply.  hasHeader_ may be left  *)
(* over from an earlier connection.                                          *)
OnEofReads ==
  /\ Dispatching /\ ws.bev_ = "connected" /\ ws.connectState_ # "HANDSHAKE_COMPLETE"
  /\ loop' = "eof"
  /\ UNCHANGED <<ws, loopexit, connections>>

(* The rest of it, at once if nothing is left, or the beginning of a header, *)
(* or a rejected header: to reject that again changes nothing.               *)
OnEofEvent ==
  /\ (Dispatching /\ ws.bev_ = "connected") \/ AtEof
  /\ LET read == ShutDown(ws)
     IN  ws' = IF read.receivedCloseFlag_ THEN read
               ELSE [read EXCEPT !.state_ = "CLOSED_UNCLEANLY"]
  /\ loop' = "dispatch" /\ loopexit' = TRUE
  /\ UNCHANGED connections

(* OnEvent does nothing on an error; libevent reports no more events. *)
OnErrorEvent ==
  /\ ws.bev_ \in {"connecting", "connected"}
  /\ Callback([ws EXCEPT !.bev_ = "failed"])

OnCloseTimeout ==
  /\ ws.closeTimeoutEvent_ = "pending"
  /\ LET fired == [ws EXCEPT !.closeTimeoutEvent_ = "fired"]
     IN  Callback(IF ws.sentCloseFlag_ THEN ShutDown(fired) ELSE Abort(fired, "OnCloseTimeout"))

(* Only logs, also when the connection was made long ago. *)
OnConnectionTimeout ==
  /\ ws.connectTimeoutEvent_ = "pending"
  /\ Callback([ws EXCEPT !.connectTimeoutEvent_ = "fired"])

(* event_base_dispatch returns after loopexit, or when no event is left;    *)
(* the events of evdns, which are not modelled, may keep it from the latter. *)
DispatchReturns ==
  /\ Dispatching /\ loopexit
  /\ loop' = "idle" /\ loopexit' = FALSE
  /\ UNCHANGED <<ws, connections>>

DispatchRunsDry ==
  /\ Dispatching /\ ws.bev_ \in {"null", "failed"}
  /\ ws.closeTimeoutEvent_ # "pending" /\ ws.connectTimeoutEvent_ # "pending"
  /\ loop' = "idle" /\ loopexit' = FALSE
  /\ UNCHANGED <<ws, connections>>

Next ==
  \/ DoConnect
  \/ DoClose
  \/ OnConnectEvent
  \/ ReadHttpStatus
  \/ \E name \in Required : ReadHttpHeaders(name)
  \/ \E reaction \in Reaction : HandshakeCompletes(reaction)
  \/ HandshakeError
  \/ \E h \in Header, reaction \in Reaction, badBody \in BOOLEAN :
        ReadHeader(h, reaction, badBody)
  \/ ReadBadHeader
  \/ \E k \in 1..MaxLen, utf8 \in Utf8, reaction \in Reaction, badBody \in BOOLEAN :
        ReadPayload(k, utf8, reaction, badBody)
  \/ \E reaction \in Reaction, badBody \in BOOLEAN : ReadFrameEnd(reaction, badBody)
  \/ OnEofReads
  \/ OnEofEvent
  \/ OnErrorEvent
  \/ OnCloseTimeout
  \/ OnConnectionTimeout
  \/ DispatchReturns
  \/ DispatchRunsDry

Spec == Init /\ [][Next]_vars

(* libevent runs a timer that has expired, and leaves dispatch when told to. *)
(* What is left at EOF is finite.  Nothing is assumed of the server.         *)
Fairness == WF_vars(OnCloseTimeout) /\ WF_vars(AtEof /\ OnEofEvent) /\ WF_vars(DispatchReturns)

FairSpec == Spec /\ Fairness

-----------------------------------------------------------------------------
TypeOK ==
  /\ ws.state_ \in {"CLOSED_CLEANLY", "CLOSED_UNCLEANLY", "CONNECTING", "CONNECTED", "CLOSING"}
  /\ ws.connectState_ \in {"NONE", "SENT_REQ", "PARSED_STATUS", "HANDSHAKE_COMPLETE"}
  /\ ws.bev_ \in {"null", "connecting", "connected", "failed"}
  /\ ws.connectTimeoutEvent_ \in {"null", "pending", "fired"}
  /\ ws.closeTimeoutEvent_ \in {"null", "pending", "fired"}
  /\ ws.httpHeaderFlags_ \subseteq Required
  /\ ws.wsHeader_ \in [opcode : Opcode, fin : BOOLEAN, len : 0..(LenModulus - 1)]
  /\ ws.recvFrameLen_ \in 0..MaxBytes
  /\ ws.ctrlLen_ \in 0..CtrlMax
  /\ ws.serverReasonLen_ \in 0..CtrlMax
  /\ ws.utf8State_ \in Utf8
  /\ loop \in {"idle", "dispatch", "eof"} /\ loopexit \in BOOLEAN
  /\ connections \in 0..MaxConnections

(* The closing handshake, from our side: a connection carries at most one     *)
(* Close frame and nothing after it, though CloseWithStatusReason is called    *)
(* again for every further error, by the application, by an echo and at EOF.   *)
CloseIsLastFrame == \A i \in 1..(Len(ws.sent) - 1) : ws.sent[i] # "close"

(* "If an endpoint receives a Close frame and did not previously send a Close  *)
(* frame, the endpoint MUST send a Close frame in response" (HandleCloseFrame): *)
(* whenever receivedCloseFlag_ is set, a Close frame went out on this           *)
(* connection, whichever side began and whatever the frame's body was.          *)
CloseIsAnswered ==
  ws.receivedCloseFlag_ => ws.sent # <<>> /\ ws.sent[Len(ws.sent)] = "close"

(* A message whose frames began on this connection reaches onMessage_ only     *)
(* when all of it was valid UTF-8: an error found in one frame closes the       *)
(* session, but reading goes on, and the rest of the message must be dropped.   *)
DeliveredIsValid == \A m \in ws.delivered : m.begun => m.utf8 = "accept"

(* onConnect_ runs, and the session is CONNECTED, only after the reply to this *)
(* connection's request had each of the required headers.                       *)
ConnectedAfterHandshake ==
  ws.state_ = "CONNECTED" =>
    ws.connectState_ = "HANDSHAKE_COMPLETE" /\ ws.httpHeaderFlags_ = Required

(* What the checks and the pointers rely on.  No more than CtrlMax bytes are   *)
(* copied to ctrlPayload_.  SendMsgEx, which wants state CONNECTED, may be      *)
(* called in every handler, except for one: onMessage_ for a message that       *)
(* OnEofEvent finds in an HTTP reply that is not complete.  On the first        *)
(* connection the close timeout finds sentCloseFlag_, and payload and the end   *)
(* of a frame find the buffers that the frame's beginning made, though sending  *)
(* replaces the header that reading goes on with.  Later connections are left   *)
(* out: DoConnect keeps the timer and hasHeader_ of the one before.             *)
ChecksHold ==
  /\ ws.ctrlLen_ =< CtrlMax
  /\ ws.aborted = "SendMsgEx" => loop = "eof" /\ ws.connectState_ # "HANDSHAKE_COMPLETE"
  /\ connections =< 1 =>
       ws.aborted \notin {"OnCloseTimeout", "OnMsgFrameData", "OnMsgFrameEnd"}

(* A close that the server does not answer ends: once a Close frame was sent,  *)
(* the bufferevent is freed by OnCloseTimeout or by EOF, unless a Close frame   *)
(* arrives or dispatch is left.  Needs a server that stops sending at some      *)
(* time: each rejected frame re-arms the timer (frames are bounded here, and    *)
(* a rejected header is met again only when more input arrives).                *)
UnansweredCloseEnds ==
  (loop # "idle" /\ ws.sentCloseFlag_ /\ ~ws.receivedCloseFlag_ /\ ws.bev_ # "null")
    ~> (ws.bev_ = "null" \/ ws.receivedCloseFlag_ \/ loop = "idle" \/ ws.aborted # "no")

(* CloseWithStatusReason: "Give the server time to initiate the closing of the *)
(* TCP session. Otherwise we'll force an unclean shutdown ourselves."           *)
CloseAlwaysEnds ==
  (loop # "idle" /\ ws.sentCloseFlag_ /\ ws.bev_ # "null")
    ~> (ws.bev_ = "null" \/ loop = "idle" \/ ws.aborted # "no")

(* OnCloseTimeout: "This callback should only ever be called after sending a   *)
(* close frame."                                                                *)
CloseTimeoutAfterClose == ws.aborted # "OnCloseTimeout"

(* WSHeader::payloadLen is the "Length of the payload": after the handshake, a  *)
(* frame ends with the last byte of its payload.                                *)
FrameEndsWithPayload == ws.connectState_ = "HANDSHAKE_COMPLETE" => ~ws.misframed
=============================================================================
