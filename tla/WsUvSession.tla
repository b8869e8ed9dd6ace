----------------------------- MODULE WsUvSession -----------------------------
(***************************************************************************)
(* The libuv WebSocket client, net/ws_cli/implement/uv: DoConnect          *)
(* resolves, connects and sends the upgrade request; everything that       *)
(* arrives goes to http_parser, and connect_handler_ is called after each  *)
(* chunk of it.  Messages are sent from that handler.  Everything runs     *)
(* inside uv_run, one callback at a time; the network and the server are   *)
(* arbitrary.  The members are zero at first: the session is               *)
(* value-initialised, so sendState_ is NONE and maxFrameSize_ is 0.        *)
(***************************************************************************)
EXTENDS WsCodec

CONSTANTS Lengths,      \* lengths of messages the application sends
          Masks,        \* masks that GetRandomMask yields
          MaxWrites     \* bound: calls of Write on one connection

VARIABLES
  uvLoop,         \* "idle", "running" inside uv_run, "aborted", or "undefined": write_, or
                  \* a socket that is no stream, is handed to libuv
  uvSocket,       \* "none", "resolving", "connecting", "open", "failed" or "closed"
  connect_handler_,
  write_,         \* "free", or "queued": libuv has not finished with the write request
  written         \* what was written on this connection: the request and frame headers

uvVars == <<uvLoop, uvSocket, connect_handler_, write_, written>>

UvInit ==
  /\ uvLoop = "idle" /\ uvSocket = "none" /\ connect_handler_ = FALSE
  /\ write_ = "free" /\ written = <<>>

UvRunning == uvLoop = "running"

(* uv_write writes at once, or keeps a pointer to the data and queues write_;  *)
(* there is one write_ for all writes.  Data on the stack of the caller is     *)
(* gone by the time a queued write is done.                                    *)
Write(item, onStack, atOnce) ==
  IF write_ = "queued"
  THEN uvLoop' = "undefined" /\ UNCHANGED <<write_, written>>
  ELSE /\ write_' = IF atOnce THEN "free" ELSE "queued"
       /\ written' = Append(written, IF onStack /\ ~atOnce THEN [item EXCEPT !.bytes = <<>>] ELSE item)
       /\ UNCHANGED uvLoop

-----------------------------------------------------------------------------
UvSetHandler ==
  /\ uvLoop = "idle" /\ uvSocket = "none" /\ connect_handler_' = TRUE
  /\ UNCHANGED <<uvLoop, uvSocket, write_, written>>

(* written starts anew with each connection. *)
UvDoConnect ==
  /\ uvLoop = "idle"
  /\ uvLoop' = "running" /\ uvSocket' = "resolving" /\ written' = <<>>
  /\ UNCHANGED <<connect_handler_, write_>>

(* A name that does not resolve is only logged. *)
UvOnResolved(found) ==
  /\ UvRunning /\ uvSocket = "resolving"
  /\ uvSocket' = IF found THEN "connecting" ELSE "failed"
  /\ UNCHANGED <<uvLoop, connect_handler_, write_, written>>

(* The request is a member, not on the stack. *)
DoHandshake(atOnce) == Write([kind |-> "request", bytes |-> <<>>], FALSE, atOnce)

(* status is not looked at; without a connection, uv_read_start and uv_write   *)
(* fail.                                                                       *)
UvOnConnect(connected, atOnce) ==
  /\ UvRunning /\ uvSocket = "connecting"
  /\ uvSocket' = IF connected THEN "open" ELSE "failed"
  /\ IF connected THEN DoHandshake(atOnce)
     ELSE UNCHANGED <<uvLoop, write_, written>>
  /\ UNCHANGED connect_handler_

(* A text frame: the header is written, the payload is masked in the buffer of *)
(* the caller and not written.  A text frame is never too long for its         *)
(* opcode, and sendState_ stays NONE.                                          *)
TextHeader(len, mask) ==
  [fin |-> 1, rsv1 |-> 0, rsv2 |-> 0, rsv3 |-> 0, opcode |-> 1, maskBit |-> 1,
   payloadLen |-> PayloadLen(len), mask |-> mask]

SendFrameRaw(len, mask, atOnce) ==
  Write([kind |-> "frame", bytes |-> PackHeader(TextHeader(len, mask)), len |-> len, mask |-> mask],
        TRUE, atOnce)

(* connect_handler_, if it was set, runs for this chunk, and sends a message   *)
(* or does not.  Close is DoClose, which does nothing.                         *)
ConnectHandler(sends, len, mask, atOnce) ==
  IF connect_handler_ /\ sends THEN SendFrameRaw(len, mask, atOnce)
  ELSE UNCHANGED <<uvLoop, write_, written>>

(* A chunk that http_parser takes: any part of an HTTP response, whatever its  *)
(* status and headers are.                                                     *)
UvOnRead(sends, len, mask, atOnce) ==
  /\ UvRunning /\ uvSocket = "open"
  /\ sends => Len(written) < MaxWrites
  /\ ConnectHandler(sends, len, mask, atOnce)
  /\ UNCHANGED <<uvSocket, connect_handler_>>

(* A chunk with anything else, like a frame that the server sends after its    *)
(* reply: WTF_CHECK(nparsed == nread) fails.                                   *)
UvOnReadRest ==
  /\ UvRunning /\ uvSocket = "open"
  /\ uvLoop' = "aborted"
  /\ UNCHANGED <<uvSocket, connect_handler_, write_, written>>

UvOnReadEndKeepsSocket ==
  /\ UvRunning /\ uvSocket = "open"
  /\ write_' = "free"
  /\ UNCHANGED <<uvLoop, uvSocket, connect_handler_, written>>

(* nread =< 0: uv_close, which cancels what is queued. *)
UvOnReadEnd ==
  /\ UvRunning /\ uvSocket = "open"
  /\ uvSocket' = "closed" /\ write_' = "free"
  /\ UNCHANGED <<uvLoop, connect_handler_, written>>

OnWrite ==
  /\ UvRunning /\ uvSocket = "open" /\ write_ = "queued"
  /\ write_' = "free"
  /\ UNCHANGED <<uvLoop, uvSocket, connect_handler_, written>>

(* There is no check that the session is connected: before the first           *)
(* connection, uv_write is called on a handle that was never initialised.      *)
(* Between connections it fails.                                               *)
UvDoSendMsg ==
  /\ uvLoop = "idle" /\ uvSocket = "none"
  /\ uvLoop' = "undefined"
  /\ UNCHANGED <<uvSocket, connect_handler_, write_, written>>

UvReturns ==
  /\ UvRunning /\ uvSocket \in {"failed", "closed"}
  /\ uvLoop' = "idle"
  /\ UNCHANGED <<uvSocket, connect_handler_, write_, written>>

UvNext ==
  \/ UvSetHandler
  \/ UvDoConnect
  \/ \E found \in BOOLEAN : UvOnResolved(found)
  \/ \E connected, atOnce \in BOOLEAN : UvOnConnect(connected, atOnce)
  \/ \E sends, atOnce \in BOOLEAN, len \in Lengths, mask \in Masks :
        UvOnRead(sends, len, mask, atOnce)
  \/ UvOnReadRest
  \/ UvOnReadEnd
  \/ OnWrite
  \/ UvDoSendMsg
  \/ UvReturns

(* libuv reports the outcome of a lookup and of an attempt to connect, and     *)
(* uv_run returns when nothing is left.  The server ends the connection: the   *)
(* client cannot, as DoClose does nothing.                                     *)
UvFairness ==
  /\ WF_uvVars(\E found \in BOOLEAN : UvOnResolved(found))
  /\ WF_uvVars(\E connected, atOnce \in BOOLEAN : UvOnConnect(connected, atOnce))
  /\ WF_uvVars(UvOnReadEnd)
  /\ WF_uvVars(UvReturns)

-----------------------------------------------------------------------------
(* On a connection of the libuv client the request comes first, and every      *)
(* frame header that is written at once reads, with the client's own           *)
(* UnpackHeader, as one final text frame with the mask and, up to the 127 that  *)
(* payloadLen can hold, the length of the message: 125, 126 and 127 sit at the  *)
(* ends of the encodings.                                                       *)
HeadersDecode ==
  \A i \in DOMAIN written :
    /\ written[i].kind = "request" <=> i = 1
    /\ written[i].kind = "frame" /\ written[i].bytes # <<>> =>
         LET h == UnpackHeader(written[i].bytes)
         IN  /\ h = TextHeader(written[i].len, written[i].mask)
             /\ written[i].len <= 127 => h.payloadLen = written[i].len

(* DoConnect returns, or the process ends, if the peer ends the connection. *)
UvConnectReturns == uvLoop = "running" ~> uvLoop # "running"
=============================================================================
