---------------------------- MODULE WsClientProofs ----------------------------
(***************************************************************************)
(* Proofs about the WebSocket clients, for any number of frames,           *)
(* connections and payload bytes.  For the libevent client: its closing    *)
(* handshake, its opening one, what it delivers, and that its checks hold; *)
(* handlers are operators on the session, so most lemmas say what a        *)
(* handler keeps of a session it is given.  For the libuv client: what it  *)
(* writes.  The text payload is the subject of WsPayloadProofs.            *)
(***************************************************************************)
EXTENDS WsClient, SequenceTheorems, TLAPS

-----------------------------------------------------------------------------
Members ==
  {"state_", "connectState_", "bev_", "connectTimeoutEvent_", "closeTimeoutEvent_",
   "httpHeaderFlags_", "hasHeader_", "wsHeader_", "recvFrameLen_", "ctrlLen_",
   "serverReasonLen_", "inMsgFlag_", "msg_", "frameData_", "utf8State_", "sentCloseFlag_",
   "receivedCloseFlag_", "aborted", "badInput", "frames", "wire", "misframed", "sent",
   "delivered"}

EndsWithClose(q) == q # <<>> /\ q[Len(q)] = "close"

(* The frames of a connection: Close is the last one, and sentCloseFlag_ says *)
(* whether it was sent.                                                     *)
FramesInv(q, closed) ==
  /\ q \in Seq(Opcode)
  /\ \A i \in 1..(Len(q) - 1) : q[i] # "close"
  /\ closed <=> EndsWithClose(q)

(* What every handler keeps: the frames are in order, a Close frame from the *)
(* server was answered, and only a session that has completed its handshake, *)
(* and sent no Close frame, is CONNECTED.                                   *)
Sound(s) ==
  /\ DOMAIN s = Members
  /\ s.sentCloseFlag_ \in BOOLEAN /\ s.receivedCloseFlag_ \in BOOLEAN
  /\ FramesInv(s.sent, s.sentCloseFlag_)
  /\ s.receivedCloseFlag_ => s.sentCloseFlag_
  /\ s.state_ = "CONNECTED" =>
       /\ ~s.sentCloseFlag_
       /\ s.connectState_ = "HANDSHAKE_COMPLETE" /\ s.httpHeaderFlags_ = Required

(* t follows s: a handler was applied that does not touch the connection. *)
Follows(s, t) ==
  /\ Sound(t)
  /\ t.bev_ = s.bev_ /\ t.connectState_ = s.connectState_

(* The members Sound and Follows speak of. *)
Alike(s, t) ==
  /\ DOMAIN t = Members
  /\ t.sentCloseFlag_ = s.sentCloseFlag_ /\ t.receivedCloseFlag_ = s.receivedCloseFlag_
  /\ t.sent = s.sent /\ t.state_ = s.state_ /\ t.connectState_ = s.connectState_
  /\ t.httpHeaderFlags_ = s.httpHeaderFlags_ /\ t.bev_ = s.bev_

(* Changing other members changes nothing. *)
LEMMA AlikeFollows == ASSUME NEW s, NEW t, Sound(s), Alike(s, t) PROVE Follows(s, t)
BY DEF Alike, Follows, Sound

(* Handlers compose. *)
LEMMA FollowsTwice ==
  ASSUME NEW s, NEW t, NEW u, Follows(s, t), Follows(t, u) PROVE Follows(s, u)
BY DEF Follows

(* A frame is sent after frames none of which is a Close frame. *)
LEMMA FrameAppended ==
  ASSUME NEW q, FramesInv(q, FALSE), NEW opcode \in Opcode
  PROVE  FramesInv(Append(q, opcode), opcode = "close")
<1>1. /\ q \in Seq(Opcode) /\ Len(q) \in Nat
      /\ Append(q, opcode) \in Seq(Opcode) /\ Len(Append(q, opcode)) = Len(q) + 1
      /\ \A i \in 1..Len(q) : Append(q, opcode)[i] = q[i]
      /\ Append(q, opcode)[Len(q) + 1] = opcode
  BY AppendProperties, LenProperties DEF FramesInv
<1>2. \A i \in 1..Len(q) : q[i] # "close"
  <2> SUFFICES ASSUME NEW i \in 1..Len(q) PROVE q[i] # "close"
    OBVIOUS
  <2>1. CASE i = Len(q)
    <3>1. q # <<>>
      BY <1>1, EmptySeq
    <3> QED  BY <2>1, <3>1 DEF FramesInv, EndsWithClose
  <2>2. CASE i # Len(q)
    BY <1>1, <2>2 DEF FramesInv
  <2> QED  BY <2>1, <2>2
<1>3. Append(q, opcode) # <<>>
  BY <1>1, EmptySeq
<1> DEFINE r == Append(q, opcode)
<1> HIDE DEF r
<1>4. /\ r \in Seq(Opcode) /\ Len(r) = Len(q) + 1 /\ r[Len(q) + 1] = opcode /\ r # <<>>
      /\ \A i \in 1..Len(q) : r[i] # "close"
  BY <1>1, <1>2, <1>3 DEF r
<1>5. FramesInv(r, opcode = "close")
  BY <1>1, <1>4 DEF FramesInv, EndsWithClose
<1> QED  BY <1>5 DEF r

-----------------------------------------------------------------------------
(* Sending and closing. *)

(* CloseWithStatusReason sends a Close frame if none was sent and it can. *)
LEMMA CloseKeeps ==
  ASSUME NEW s, Sound(s), NEW n
  PROVE  /\ Follows(s, CloseWithStatusReason(s, n))
         /\ s.bev_ # "null" => CloseWithStatusReason(s, n).sentCloseFlag_
         /\ CloseWithStatusReason(s, n).receivedCloseFlag_ = s.receivedCloseFlag_
<1> DEFINE t == CloseWithStatusReason(s, n)
<1>1. CASE s.sentCloseFlag_
  <2>1. /\ DOMAIN t = Members /\ t.sentCloseFlag_ = TRUE /\ t.sent = s.sent
        /\ t.receivedCloseFlag_ = s.receivedCloseFlag_ /\ t.state_ = "CLOSING"
        /\ t.connectState_ = s.connectState_ /\ t.bev_ = s.bev_
    BY <1>1 DEF CloseWithStatusReason, Sound, Members
  <2> HIDE DEF t
  <2>2. Sound(t)
    BY <1>1, <2>1, Zenon DEF Sound
  <2> QED  BY <2>1, <2>2 DEF Follows, t
<1>2. CASE ~s.sentCloseFlag_ /\ s.bev_ = "null"
  <2>1. /\ DOMAIN t = Members /\ t.sentCloseFlag_ = s.sentCloseFlag_ /\ t.sent = s.sent
        /\ t.receivedCloseFlag_ = s.receivedCloseFlag_ /\ t.state_ = "CLOSING"
        /\ t.connectState_ = s.connectState_ /\ t.bev_ = s.bev_
    BY <1>2 DEF CloseWithStatusReason, SendFrameRaw, ShutDown, Sound, Members
  <2> HIDE DEF t
  <2>2. Sound(t)
    BY <1>2, <2>1 DEF Sound
  <2> QED  BY <1>2, <2>1, <2>2 DEF Follows, t
<1>3. CASE ~s.sentCloseFlag_ /\ s.bev_ # "null"
  <2>1. /\ DOMAIN t = Members /\ t.sentCloseFlag_ = TRUE /\ t.sent = Append(s.sent, "close")
        /\ t.receivedCloseFlag_ = s.receivedCloseFlag_ /\ t.state_ = "CLOSING"
        /\ t.connectState_ = s.connectState_ /\ t.bev_ = s.bev_
    BY <1>3 DEF CloseWithStatusReason, SendFrameRaw, Sound, Members
  <2>2. FramesInv(Append(s.sent, "close"), TRUE)
    <3>1. FramesInv(s.sent, FALSE) /\ "close" \in Opcode
      BY <1>3, Zenon DEF Sound, Opcode
    <3>2. FramesInv(Append(s.sent, "close"), "close" = "close")
      BY <3>1, FrameAppended, Zenon
    <3> QED  BY <3>2, Zenon
  <2> HIDE DEF t
  <2>3. Sound(t)
    BY <1>3, <2>1, <2>2, Zenon DEF Sound
  <2> QED  BY <2>1, <2>3 DEF Follows, t
<1> QED  BY <1>1, <1>2, <1>3

(* The reactions of the application's handlers. *)
LEMMA ReactKeeps ==
  ASSUME NEW s, Sound(s), NEW reaction \in Reaction
  PROVE  /\ Follows(s, React(s, reaction))
         /\ React(s, reaction).receivedCloseFlag_ = s.receivedCloseFlag_
<1>0. Follows(s, s)
  BY DEF Follows
<1>1. CASE reaction = "send"
  <2> DEFINE t == DoSendMsg(s)
  <2>0. React(s, reaction) = t
    BY <1>1 DEF React
  <2>1. CASE s.state_ # "CONNECTED"
    <3>1. Alike(s, t)
      BY <2>1 DEF DoSendMsg, Abort, Alike, Sound, Members
    <3> QED  BY <2>0, <3>1, AlikeFollows DEF Alike
  <2>2. CASE s.state_ = "CONNECTED"
    <3>1. /\ DOMAIN t = Members /\ t.sentCloseFlag_ = s.sentCloseFlag_
          /\ t.sent = IF s.bev_ = "null" THEN s.sent ELSE Append(s.sent, "text")
          /\ t.receivedCloseFlag_ = s.receivedCloseFlag_ /\ t.state_ = s.state_
          /\ t.connectState_ = s.connectState_ /\ t.bev_ = s.bev_
          /\ t.httpHeaderFlags_ = s.httpHeaderFlags_
      BY <2>2 DEF DoSendMsg, SendFrameRaw, Sound, Members
    <3>2. FramesInv(Append(s.sent, "text"), FALSE)
      <4>1. FramesInv(s.sent, FALSE) /\ "text" \in Opcode
        BY <2>2, Zenon DEF Sound, Opcode
      <4>2. FramesInv(Append(s.sent, "text"), "text" = "close")
        BY <4>1, FrameAppended, Zenon
      <4> QED  BY <4>2, Zenon
    <3> HIDE DEF t
    <3>3. FramesInv(t.sent, t.sentCloseFlag_)
      BY <2>2, <3>1, <3>2, Zenon DEF Sound
    <3>4. Sound(t)
      BY <3>1, <3>3 DEF Sound
    <3> QED  BY <2>0, <3>1, <3>4 DEF Follows
  <2> QED  BY <2>1, <2>2
<1>2. CASE reaction = "close"
  BY <1>2, CloseKeeps DEF React, CloseWithStatus
<1>3. CASE reaction = "nothing"
  BY <1>0, <1>3 DEF React
<1> QED  BY <1>1, <1>2, <1>3 DEF Reaction

-----------------------------------------------------------------------------
(* Receiving, with a bufferevent. *)

(* A Close frame is answered, if it was not the answer. *)
LEMMA CloseFrameKeeps ==
  ASSUME NEW s, Sound(s), s.bev_ # "null", NEW badBody \in BOOLEAN
  PROVE  Follows(s, HandleCloseFrame(s, badBody))
<1> DEFINE n == IF s.ctrlLen_ >= 2 THEN s.ctrlLen_ - 2 ELSE s.serverReasonLen_
           closing == [s EXCEPT !.closeTimeoutEvent_ = "null", !.state_ = "CLOSING",
                                !.receivedCloseFlag_ = TRUE, !.serverReasonLen_ = n]
<1>1. \E m : \/ HandleCloseFrame(s, badBody) = CloseWithStatusReason(closing, m)
             \/ s.sentCloseFlag_ /\ HandleCloseFrame(s, badBody) = closing
  BY DEF HandleCloseFrame, CloseWithStatus
<1>2. /\ DOMAIN closing = Members /\ closing.sentCloseFlag_ = s.sentCloseFlag_
      /\ closing.sent = s.sent /\ closing.receivedCloseFlag_ = TRUE
      /\ closing.state_ = "CLOSING" /\ closing.connectState_ = s.connectState_
      /\ closing.bev_ = s.bev_
  BY DEF Sound, Members
<1> HIDE DEF closing, n
<1>3. CASE s.sentCloseFlag_
  <2>1. Follows(s, closing)
    BY <1>2, <1>3, Zenon DEF Sound, Follows
  <2>2. \A m : Follows(closing, CloseWithStatusReason(closing, m))
    BY <2>1, CloseKeeps DEF Follows
  <2> QED  BY <1>1, <2>1, <2>2, FollowsTwice
<1>4. ASSUME ~s.sentCloseFlag_, NEW m PROVE Follows(s, CloseWithStatusReason(closing, m))
  <2> DEFINE t == CloseWithStatusReason(closing, m)
  <2>1. /\ DOMAIN t = Members /\ t.sentCloseFlag_ = TRUE /\ t.sent = Append(s.sent, "close")
        /\ t.receivedCloseFlag_ = TRUE /\ t.state_ = "CLOSING"
        /\ t.connectState_ = s.connectState_ /\ t.bev_ = s.bev_
    BY <1>2, <1>4 DEF CloseWithStatusReason, SendFrameRaw, Members
  <2>2. FramesInv(Append(s.sent, "close"), TRUE)
    <3>1. FramesInv(s.sent, FALSE) /\ "close" \in Opcode
      BY <1>4, Zenon DEF Sound, Opcode
    <3>2. FramesInv(Append(s.sent, "close"), "close" = "close")
      BY <3>1, FrameAppended, Zenon
    <3> QED  BY <3>2, Zenon
  <2> HIDE DEF t
  <2>3. Sound(t)
    BY <2>1, <2>2, Zenon DEF Sound
  <2> QED  BY <2>1, <2>3 DEF Follows, t
<1> QED  BY <1>1, <1>3, <1>4

(* The end of a frame, with the delivery of its message. *)
LEMMA FrameEndKeeps ==
  ASSUME NEW s, Sound(s), s.bev_ # "null", NEW reaction \in Reaction, NEW badBody \in BOOLEAN
  PROVE  Follows(s, HandleFrameEnd(s, reaction, badBody))
<1> DEFINE t == HandleFrameEnd(s, reaction, badBody)
           ended == [s EXCEPT !.hasHeader_ = FALSE,
                              !.misframed = s.recvFrameLen_ # s.wire.len]
           framed == [ended EXCEPT !.frameData_ = FALSE]
           last == OnRecvMsgEnd(framed, reaction)
<1>1. Alike(s, ended) /\ Alike(s, framed)
  BY DEF Alike, Sound, Members
<1>2. Follows(s, ended) /\ Follows(s, framed)
  BY <1>1, AlikeFollows
<1>3. \/ t = HandleCloseFrame(ended, badBody) \/ t = Abort(ended, "HandlePingFrame")
      \/ t = Abort(s, "OnMsgFrameEnd") \/ t = framed
      \/ t = [last EXCEPT !.inMsgFlag_ = FALSE]
  BY DEF HandleFrameEnd, HandleControlFrame
<1> HIDE DEF t, ended, framed
<1>4. Follows(s, HandleCloseFrame(ended, badBody))
  <2>1. Sound(ended) /\ ended.bev_ # "null"
    BY <1>2 DEF Follows
  <2>2. Follows(ended, HandleCloseFrame(ended, badBody))
    BY <2>1, CloseFrameKeeps
  <2> QED  BY <1>2, <2>2, FollowsTwice
<1>5. Follows(s, Abort(ended, "HandlePingFrame")) /\ Follows(s, Abort(s, "OnMsgFrameEnd"))
  <2>1. Alike(s, Abort(ended, "HandlePingFrame")) /\ Alike(s, Abort(s, "OnMsgFrameEnd"))
    BY <1>1 DEF Abort, Alike, Sound, Members
  <2> QED  BY <2>1, AlikeFollows
<1>6. Follows(s, [last EXCEPT !.inMsgFlag_ = FALSE])
  <2> DEFINE given == [framed EXCEPT !.delivered = @ \cup
                         {[utf8 |-> framed.utf8State_, begun |-> framed.wire # NoFrame]}]
             told == IF framed.state_ = "CLOSING" THEN framed ELSE React(given, reaction)
  <2>1. Sound(framed)
    BY <1>2 DEF Follows
  <2>2. Alike(framed, given)
    BY <2>1 DEF Alike, Sound, Members
  <2> HIDE DEF given
  <2>3. Follows(framed, given)
    BY <2>1, <2>2, AlikeFollows
  <2>4. Follows(given, React(given, reaction))
    BY <2>3, ReactKeeps DEF Follows
  <2>5. Follows(framed, told)
    <3>1. Follows(framed, framed)
      BY <2>1 DEF Follows
    <3> QED  BY <3>1, <2>3, <2>4, FollowsTwice
  <2>6. [last EXCEPT !.inMsgFlag_ = FALSE] = [[told EXCEPT !.msg_ = FALSE] EXCEPT !.inMsgFlag_ = FALSE]
    BY DEF OnRecvMsgEnd, given
  <2> HIDE DEF told, last
  <2>7. Sound(told)
    BY <2>5 DEF Follows
  <2>8. Alike(told, [[told EXCEPT !.msg_ = FALSE] EXCEPT !.inMsgFlag_ = FALSE])
    BY <2>7 DEF Alike, Sound, Members
  <2>9. Follows(told, [last EXCEPT !.inMsgFlag_ = FALSE])
    BY <2>6, <2>7, <2>8, AlikeFollows
  <2> QED  BY <1>2, <2>5, <2>9, FollowsTwice
<1>7. Follows(s, t)
  BY <1>2, <1>3, <1>4, <1>5, <1>6, Zenon
<1> QED  BY <1>7 DEF t

(* Payload of a frame, up to the limit for control frames. *)
LEMMA FrameDataKeeps ==
  ASSUME NEW s, Sound(s), s.bev_ # "null", NEW k, NEW reaction \in Reaction,
         NEW badBody \in BOOLEAN
  PROVE  Follows(s, HandleFrameData(s, k, reaction, badBody))
<1> DEFINE t == HandleFrameData(s, k, reaction, badBody)
           taken == IF IsControlOpcode(s.wsHeader_.opcode) THEN [s EXCEPT !.ctrlLen_ = @ + k] ELSE s
           closed == CloseWithStatus(s)
<1>1. Alike(s, taken) /\ Alike(s, Abort(s, "OnMsgFrameData"))
  BY DEF Abort, Alike, Sound, Members
<1>2. \/ t = [closed EXCEPT !.ctrlLen_ = CtrlMax] \/ t = Abort(s, "OnMsgFrameData")
      \/ t = HandleFrameEnd(taken, reaction, badBody) \/ t = taken
  BY DEF HandleFrameData
<1> HIDE DEF t, taken
<1>3. Follows(s, taken) /\ Follows(s, Abort(s, "OnMsgFrameData"))
  BY <1>1, AlikeFollows
<1>4. Follows(s, HandleFrameEnd(taken, reaction, badBody))
  <2>1. Sound(taken) /\ taken.bev_ # "null"
    BY <1>3 DEF Follows
  <2>2. Follows(taken, HandleFrameEnd(taken, reaction, badBody))
    BY <2>1, FrameEndKeeps
  <2> QED  BY <1>3, <2>2, FollowsTwice
<1>5. Follows(s, [closed EXCEPT !.ctrlLen_ = CtrlMax])
  <2>1. Follows(s, closed)
    BY CloseKeeps DEF CloseWithStatus
  <2> HIDE DEF closed
  <2>2. Sound(closed)
    BY <2>1 DEF Follows
  <2>3. Alike(closed, [closed EXCEPT !.ctrlLen_ = CtrlMax])
    BY <2>2 DEF Alike, Sound, Members
  <2> QED  BY <2>1, <2>2, <2>3, AlikeFollows, FollowsTwice
<1>6. Follows(s, t)
  BY <1>2, <1>3, <1>4, <1>5
<1> QED  BY <1>6 DEF t

(* The same with the validation of text before it. *)
LEMMA PayloadKeeps ==
  ASSUME NEW s, Sound(s), s.bev_ # "null", NEW k, NEW utf8, NEW reaction \in Reaction,
         NEW badBody \in BOOLEAN
  PROVE  Follows(s, ReceivePayload(s, k, utf8, reaction, badBody))
<1> DEFINE counted == [s EXCEPT !.recvFrameLen_ = @ + k]
           decoded == [counted EXCEPT !.utf8State_ = utf8]
           checked == IF IsControlOpcode(s.wsHeader_.opcode) THEN counted
                      ELSE IF utf8 = "reject" \/ (utf8 = "partial" /\ s.wsHeader_.fin)
                      THEN CloseWithStatus(decoded)
                      ELSE decoded
<1>1. Alike(s, counted) /\ Alike(s, decoded)
  BY DEF Alike, Sound, Members
<1>2. ReceivePayload(s, k, utf8, reaction, badBody) = HandleFrameData(checked, k, reaction, badBody)
  BY DEF ReceivePayload
<1> HIDE DEF counted, decoded
<1>3. Follows(s, counted) /\ Follows(s, decoded)
  BY <1>1, AlikeFollows
<1>4. Follows(s, CloseWithStatus(decoded))
  <2>1. Follows(decoded, CloseWithStatus(decoded))
    BY <1>3, CloseKeeps DEF Follows, CloseWithStatus
  <2> QED  BY <1>3, <2>1, FollowsTwice
<1>5. Follows(s, checked)
  BY <1>3, <1>4
<1> HIDE DEF checked
<1>6. Sound(checked) /\ checked.bev_ # "null"
  BY <1>5 DEF Follows
<1>7. Follows(checked, HandleFrameData(checked, k, reaction, badBody))
  BY <1>6, FrameDataKeeps
<1> QED  BY <1>2, <1>5, <1>7, FollowsTwice

-----------------------------------------------------------------------------
(* The callbacks. *)

(* The handshake of the connection is under way, and the server has not ended *)
(* it.                                                                       *)
Opening ==
  /\ loop # "eof"
  /\ \/ ws.bev_ = "connecting"
     \/ ws.bev_ = "connected" /\ ws.connectState_ \in {"SENT_REQ", "PARSED_STATUS"}

(* Nothing was closed during a handshake, and outside of dispatch there is no *)
(* bufferevent that could connect.                                          *)
IInv ==
  /\ Sound(ws)
  /\ Opening => ws.state_ = "CONNECTING" /\ ~ws.sentCloseFlag_
  /\ loop = "idle" => ws.bev_ \in {"null", "failed"} /\ ~loopexit
  /\ loopexit => ws.bev_ = "null"

(* A callback of a connection past its handshake. *)
LEMMA HandlerStep ==
  ASSUME IInv, NEW t, Follows(ws, t), ~Opening, ws' = t, UNCHANGED <<loop, loopexit>>
  PROVE  IInv'
BY DEF IInv, Follows, Opening

(* A callback that changes none of the members the invariant is about. *)
LEMMA AlikeStep ==
  ASSUME IInv, NEW t, Alike(ws, t), ws' = t, UNCHANGED <<loop, loopexit>>
  PROVE  IInv'
<1>1. Sound(t)
  BY AlikeFollows DEF IInv, Follows
<1> QED  BY <1>1 DEF IInv, Alike, Opening

(* It holds initially. *)
LEMMA InitHolds == ASSUME Init PROVE IInv
<1>1. <<>> \in Seq(Opcode) /\ Len(<<>>) = 0
  OBVIOUS
<1>2. FramesInv(<<>>, FALSE)
  BY <1>1 DEF FramesInv, EndsWithClose
<1>3. DOMAIN ws = Members
  BY DEF Init, Members
<1>4. /\ ws.sentCloseFlag_ = FALSE /\ ws.receivedCloseFlag_ = FALSE /\ ws.sent = <<>>
      /\ ws.state_ = "CLOSED_CLEANLY" /\ ws.bev_ = "null" /\ loopexit = FALSE
  BY DEF Init
<1>5. Sound(ws)
  BY <1>2, <1>3, <1>4, Zenon DEF Sound
<1> QED  BY <1>4, <1>5 DEF IInv, Opening

(* Connecting, and the opening handshake. *)
LEMMA OpeningKeeps ==
  ASSUME IInv,
         \/ DoConnect \/ OnConnectEvent \/ ReadHttpStatus \/ HandshakeError
         \/ \E name \in Required : ReadHttpHeaders(name)
         \/ \E reaction \in Reaction : HandshakeCompletes(reaction)
  PROVE  IInv'
<1>1. CASE DoConnect
  <2>1. /\ DOMAIN ws' = Members /\ ws'.sent = <<>> /\ ws'.sentCloseFlag_ = FALSE
        /\ ws'.receivedCloseFlag_ = FALSE /\ ws'.state_ = "CONNECTING"
        /\ ws'.bev_ = "connecting" /\ loop' = "dispatch" /\ loopexit' = loopexit
    BY <1>1 DEF DoConnect, IInv, Sound, Members
  <2>2. FramesInv(<<>>, FALSE)
    <3>1. <<>> \in Seq(Opcode) /\ Len(<<>>) = 0
      OBVIOUS
    <3> QED  BY <3>1 DEF FramesInv, EndsWithClose
  <2>3. Sound(ws')
    BY <2>1, <2>2, Zenon DEF Sound
  <2>4. ~loopexit
    BY <1>1 DEF DoConnect, Idle, IInv
  <2> QED  BY <2>1, <2>3, <2>4 DEF IInv
<1>2. CASE OnConnectEvent
  <2>1. /\ ws.bev_ = "connecting" /\ UNCHANGED <<loop, loopexit>> /\ loop = "dispatch"
        /\ DOMAIN ws' = Members /\ ws'.bev_ = "connected" /\ ws'.state_ = ws.state_
        /\ ws'.sentCloseFlag_ = ws.sentCloseFlag_ /\ ws'.sent = ws.sent
        /\ ws'.receivedCloseFlag_ = ws.receivedCloseFlag_
    BY <1>2 DEF OnConnectEvent, SendHandshake, Callback, Dispatching, IInv, Sound, Members
  <2>2. ws.state_ = "CONNECTING" /\ ~ws.sentCloseFlag_
    BY <2>1 DEF IInv, Opening
  <2>3. Sound(ws')
    BY <2>1, <2>2 DEF IInv, Sound
  <2> QED  BY <2>1, <2>2, <2>3 DEF IInv
<1>3. CASE ReadHttpStatus \/ \E name \in Required : ReadHttpHeaders(name)
  <2>1. /\ ws.bev_ = "connected" /\ ws.connectState_ \in {"SENT_REQ", "PARSED_STATUS"}
        /\ UNCHANGED <<loop, loopexit>> /\ loop = "dispatch"
        /\ DOMAIN ws' = Members /\ ws'.bev_ = "connected" /\ ws'.state_ = ws.state_
        /\ ws'.sentCloseFlag_ = ws.sentCloseFlag_ /\ ws'.sent = ws.sent
        /\ ws'.receivedCloseFlag_ = ws.receivedCloseFlag_
    BY <1>3, Zenon DEF ReadHttpStatus, ReadHttpHeaders, Callback, Dispatching, IInv, Sound, Members
  <2>2. ws.state_ = "CONNECTING" /\ ~ws.sentCloseFlag_
    BY <2>1 DEF IInv, Opening
  <2>3. Sound(ws')
    BY <2>1, <2>2 DEF IInv, Sound
  <2> QED  BY <2>1, <2>2, <2>3 DEF IInv
<1>4. CASE HandshakeError
  <2>1. /\ UNCHANGED <<loop, loopexit>> /\ DOMAIN ws' = Members /\ ws'.bev_ = "null"
        /\ ws'.state_ = ws.state_ /\ ws'.connectState_ = ws.connectState_
        /\ ws'.sentCloseFlag_ = ws.sentCloseFlag_ /\ ws'.sent = ws.sent
        /\ ws'.receivedCloseFlag_ = ws.receivedCloseFlag_
        /\ ws'.httpHeaderFlags_ = ws.httpHeaderFlags_
    BY <1>4 DEF HandshakeError, ShutDown, Abort, Callback, IInv, Sound, Members
  <2>2. Sound(ws')
    BY <2>1 DEF IInv, Sound
  <2> QED  BY <2>1, <2>2 DEF IInv, Opening
<1>5. ASSUME NEW reaction \in Reaction, HandshakeCompletes(reaction) PROVE IInv'
  <2> DEFINE done == [ws EXCEPT !.connectState_ = "HANDSHAKE_COMPLETE", !.state_ = "CONNECTED"]
  <2>1. /\ ws' = React(done, reaction) /\ UNCHANGED <<loop, loopexit>> /\ loop = "dispatch"
        /\ ws.bev_ = "connected" /\ ws.connectState_ = "PARSED_STATUS"
        /\ ws.httpHeaderFlags_ = Required
    BY <1>5 DEF HandshakeCompletes, Callback, Dispatching
  <2>2. /\ DOMAIN done = Members /\ done.bev_ = ws.bev_ /\ done.state_ = "CONNECTED"
        /\ done.connectState_ = "HANDSHAKE_COMPLETE" /\ done.httpHeaderFlags_ = Required
        /\ done.sentCloseFlag_ = ws.sentCloseFlag_ /\ done.sent = ws.sent
        /\ done.receivedCloseFlag_ = ws.receivedCloseFlag_
    BY <2>1 DEF IInv, Sound, Members
  <2> HIDE DEF done
  <2>3. ~ws.sentCloseFlag_
    BY <2>1 DEF IInv, Opening
  <2>4. Sound(done)
    BY <2>2, <2>3 DEF IInv, Sound
  <2>5. Follows(done, ws')
    BY <2>1, <2>4, ReactKeeps
  <2> QED  BY <2>1, <2>2, <2>5 DEF IInv, Follows, Opening
<1> QED  BY <1>1, <1>2, <1>3, <1>4, <1>5

(* Reading frames. *)
LEMMA ReadingKeeps ==
  ASSUME IInv,
         \/ \E h \in Header, reaction \in Reaction, badBody \in BOOLEAN :
              ReadHeader(h, reaction, badBody)
         \/ ReadBadHeader
         \/ \E k \in 1..MaxLen, utf8 \in Utf8, reaction \in Reaction, badBody \in BOOLEAN :
              ReadPayload(k, utf8, reaction, badBody)
         \/ \E reaction \in Reaction, badBody \in BOOLEAN : ReadFrameEnd(reaction, badBody)
  PROVE  IInv'
<1>0. ReadingFrames /\ UNCHANGED <<loop, loopexit>>
  BY Zenon DEF ReadHeader, ReadBadHeader, ReadPayload, ReadFrameEnd, Turn
<1>1. ~Opening /\ Sound(ws) /\ ws.bev_ # "null"
  BY <1>0 DEF ReadingFrames, AtEof, Opening, IInv
<1>2. ASSUME NEW h \in Header, NEW reaction \in Reaction, NEW badBody \in BOOLEAN,
             ReadHeader(h, reaction, badBody)
      PROVE  IInv'
  <2> DEFINE read == [ws EXCEPT !.hasHeader_ = TRUE, !.frames = @ + 1, !.wire = h,
                                !.wsHeader_ = UnpackHeader(h)]
             begun == HandleFrameBegin(read)
  <2>1. \/ ws' = HandleFrameEnd(begun, reaction, badBody)
        \/ ws' = begun
    BY <1>2, Zenon DEF ReadHeader, Turn
  <2>2. Alike(ws, read)
    BY <1>1 DEF Alike, Sound, Members
  <2> HIDE DEF read
  <2>3. Alike(ws, begun)
    BY <2>2 DEF HandleFrameBegin, Alike, Members
  <2> HIDE DEF begun
  <2>4. Follows(ws, begun)
    BY <1>1, <2>3, AlikeFollows
  <2>5. Sound(begun) /\ begun.bev_ # "null"
    BY <1>1, <2>4 DEF Follows
  <2>6. Follows(ws, HandleFrameEnd(begun, reaction, badBody))
    BY <2>4, <2>5, FrameEndKeeps, FollowsTwice
  <2>7. Follows(ws, ws')
    BY <2>1, <2>4, <2>6
  <2> QED  BY <1>0, <1>1, <2>7, HandlerStep
<1>3. CASE ReadBadHeader
  <2> DEFINE closed == CloseWithStatus(ws)
  <2>1. ws' = [closed EXCEPT !.badInput = TRUE]
    BY <1>3 DEF ReadBadHeader, Turn
  <2>2. Follows(ws, closed)
    BY <1>1, CloseKeeps DEF CloseWithStatus
  <2> HIDE DEF closed
  <2>3. Sound(closed)
    BY <2>2 DEF Follows
  <2>4. Alike(closed, [closed EXCEPT !.badInput = TRUE])
    BY <2>3 DEF Alike, Sound, Members
  <2>5. Follows(ws, ws')
    BY <2>1, <2>2, <2>3, <2>4, AlikeFollows, FollowsTwice
  <2> QED  BY <1>0, <1>1, <2>5, HandlerStep
<1>4. ASSUME NEW k \in 1..MaxLen, NEW utf8 \in Utf8, NEW reaction \in Reaction,
             NEW badBody \in BOOLEAN, ReadPayload(k, utf8, reaction, badBody)
      PROVE  IInv'
  <2>1. ws' = ReceivePayload(ws, k, utf8, reaction, badBody)
    BY <1>4 DEF ReadPayload, Turn
  <2>2. Follows(ws, ws')
    BY <1>1, <2>1, PayloadKeeps
  <2> QED  BY <1>0, <1>1, <2>2, HandlerStep
<1>5. ASSUME NEW reaction \in Reaction, NEW badBody \in BOOLEAN, ReadFrameEnd(reaction, badBody)
      PROVE  IInv'
  <2>1. ws' = HandleFrameEnd(ws, reaction, badBody)
    BY <1>5 DEF ReadFrameEnd, Turn
  <2>2. Follows(ws, ws')
    BY <1>1, <2>1, FrameEndKeeps
  <2> QED  BY <1>0, <1>1, <2>2, HandlerStep
<1> QED  BY <1>2, <1>3, <1>4, <1>5

(* The end of the connection. *)
LEMMA EofKeeps == ASSUME IInv, OnEofReads \/ OnEofEvent PROVE IInv'
<1>1. CASE OnEofReads
  BY <1>1 DEF OnEofReads, IInv, Opening
<1>2. CASE OnEofEvent
  <2>1. /\ DOMAIN ws' = Members /\ ws'.bev_ = "null" /\ ws'.sent = ws.sent
        /\ ws'.sentCloseFlag_ = ws.sentCloseFlag_
        /\ ws'.receivedCloseFlag_ = ws.receivedCloseFlag_
        /\ ws'.connectState_ = ws.connectState_ /\ ws'.httpHeaderFlags_ = ws.httpHeaderFlags_
        /\ ws'.state_ \in {ws.state_, "CLOSED_UNCLEANLY"} /\ loop' = "dispatch"
    BY <1>2 DEF OnEofEvent, ShutDown, IInv, Sound, Members
  <2>2. Sound(ws')
    BY <2>1 DEF IInv, Sound
  <2> QED  BY <2>1, <2>2 DEF IInv, Opening
<1> QED  BY <1>1, <1>2

(* The other events, and the application's DoClose. *)
LEMMA EventKeeps ==
  ASSUME IInv,
         \/ DoClose \/ OnErrorEvent \/ OnCloseTimeout \/ OnConnectionTimeout
         \/ DispatchReturns \/ DispatchRunsDry
  PROVE  IInv'
<1>1. CASE DoClose
  <2>1. ws' = CloseWithStatus(ws) /\ UNCHANGED <<loop, loopexit>> /\ loop = "idle"
    BY <1>1 DEF DoClose, Idle
  <2>2. Follows(ws, ws') /\ ~Opening
    BY <2>1, CloseKeeps DEF CloseWithStatus, IInv, Opening
  <2> QED  BY <2>1, <2>2, HandlerStep
<1>2. CASE OnErrorEvent
  <2>1. /\ UNCHANGED <<loop, loopexit>> /\ DOMAIN ws' = Members /\ ws'.bev_ = "failed"
        /\ ws.bev_ # "null"
        /\ ws'.state_ = ws.state_ /\ ws'.connectState_ = ws.connectState_
        /\ ws'.sentCloseFlag_ = ws.sentCloseFlag_ /\ ws'.sent = ws.sent
        /\ ws'.receivedCloseFlag_ = ws.receivedCloseFlag_
        /\ ws'.httpHeaderFlags_ = ws.httpHeaderFlags_
    BY <1>2 DEF OnErrorEvent, Callback, IInv, Sound, Members
  <2>2. Sound(ws')
    BY <2>1 DEF IInv, Sound
  <2> QED  BY <2>1, <2>2 DEF IInv, Opening
<1>3. CASE OnCloseTimeout
  <2>1. /\ UNCHANGED <<loop, loopexit>> /\ DOMAIN ws' = Members /\ ws'.bev_ \in {ws.bev_, "null"}
        /\ ws'.state_ = ws.state_ /\ ws'.connectState_ = ws.connectState_
        /\ ws'.sentCloseFlag_ = ws.sentCloseFlag_ /\ ws'.sent = ws.sent
        /\ ws'.receivedCloseFlag_ = ws.receivedCloseFlag_
        /\ ws'.httpHeaderFlags_ = ws.httpHeaderFlags_
    BY <1>3 DEF OnCloseTimeout, ShutDown, Abort, Callback, IInv, Sound, Members
  <2>2. Sound(ws')
    BY <2>1 DEF IInv, Sound
  <2> QED  BY <2>1, <2>2 DEF IInv, Opening
<1>4. CASE OnConnectionTimeout
  <2>1. Alike(ws, ws') /\ UNCHANGED <<loop, loopexit>>
    BY <1>4 DEF OnConnectionTimeout, Callback, Alike, IInv, Sound, Members
  <2> QED  BY <2>1, AlikeStep
<1>5. CASE DispatchReturns \/ DispatchRunsDry
  BY <1>5 DEF DispatchReturns, DispatchRunsDry, Dispatching, Opening, IInv
<1> QED  BY <1>1, <1>2, <1>3, <1>4, <1>5

(* Every step keeps the inductive invariant. *)
LEMMA Inductive == ASSUME IInv, [Next]_vars PROVE IInv'
<1>1. CASE UNCHANGED vars
  BY <1>1 DEF vars, Opening, IInv
<1> QED  BY <1>1, OpeningKeeps, ReadingKeeps, EofKeeps, EventKeeps DEF Next

(* The inductive invariant of the libevent WebSocket client holds. *)
THEOREM Invariance == Spec => []IInv
<1>1. Init => IInv
  BY InitHolds
<1>2. IInv /\ [Next]_vars => IInv'
  BY Inductive
<1> QED  BY <1>1, <1>2, PTL DEF Spec

(* However many errors, calls and echoes lead to CloseWithStatusReason, a     *)
(* connection carries one Close frame and nothing after it.                  *)
THEOREM CloseLast == Spec => []CloseIsLastFrame
<1>1. IInv => CloseIsLastFrame
  BY DEF IInv, Sound, FramesInv, CloseIsLastFrame
<1> QED  BY <1>1, Invariance, PTL

(* HandleCloseFrame answers every Close frame, unless one was sent before.    *)
THEOREM CloseAnswered == Spec => []CloseIsAnswered
<1>1. IInv => CloseIsAnswered
  BY DEF IInv, Sound, FramesInv, EndsWithClose, CloseIsAnswered
<1> QED  BY <1>1, Invariance, PTL

(* A session is CONNECTED, on its first connection or a later one, only after *)
(* the handshake of that connection.                                         *)
THEOREM ConnectedHandshaken == Spec => []ConnectedAfterHandshake
<1>1. IInv => ConnectedAfterHandshake
  BY DEF IInv, Sound, ConnectedAfterHandshake
<1> QED  BY <1>1, Invariance, PTL

-----------------------------------------------------------------------------
(* Messages and UTF-8. *)

(* A message that may still be delivered has only text that decoded, or its  *)
(* last frame is yet to come.                                               *)
Decoded(s) ==
  s.wire # NoFrame /\ ~IsControlOpcode(s.wsHeader_.opcode) /\ s.state_ # "CLOSING" =>
    s.utf8State_ = "accept" \/ ~s.wsHeader_.fin

ValidMessages(s) == \A m \in s.delivered : m.begun => m.utf8 = "accept"

Valid(s) ==
  /\ DOMAIN s = Members /\ ValidMessages(s)
  /\ s.hasHeader_ /\ s.bev_ # "null" => Decoded(s)

(* t is s after a handler, with the messages still valid. *)
Keeps(s, t) == Valid(t) /\ t.bev_ = s.bev_ /\ t.connectState_ = s.connectState_

(* A session that closes or reacts delivers nothing. *)
LEMMA CloseDelivers ==
  ASSUME NEW s, DOMAIN s = Members, NEW n
  PROVE  LET t == CloseWithStatusReason(s, n)
         IN  /\ DOMAIN t = Members /\ t.delivered = s.delivered /\ t.state_ = "CLOSING"
             /\ t.bev_ = s.bev_ /\ t.connectState_ = s.connectState_ /\ t.wire = s.wire
             /\ t.hasHeader_ = s.hasHeader_
BY DEF CloseWithStatusReason, SendFrameRaw, ShutDown, Members

LEMMA ReactDelivers ==
  ASSUME NEW s, DOMAIN s = Members, NEW reaction \in Reaction
  PROVE  LET t == React(s, reaction)
         IN  /\ DOMAIN t = Members /\ t.delivered = s.delivered
             /\ t.bev_ = s.bev_ /\ t.connectState_ = s.connectState_ /\ t.wire = s.wire
             /\ t.hasHeader_ = s.hasHeader_
<1>1. CASE reaction = "send"
  BY <1>1 DEF React, DoSendMsg, SendFrameRaw, Abort, Members
<1>2. CASE reaction = "close"
  BY <1>2, CloseDelivers DEF React, CloseWithStatus
<1>3. CASE reaction = "nothing"
  BY <1>3 DEF React
<1> QED  BY <1>1, <1>2, <1>3 DEF Reaction

(* The message of a frame that ends is delivered if its text decoded. *)
LEMMA FrameEndDelivers ==
  ASSUME NEW s, DOMAIN s = Members, ValidMessages(s), Decoded(s), NEW reaction \in Reaction,
         NEW badBody \in BOOLEAN
  PROVE  Keeps(s, HandleFrameEnd(s, reaction, badBody))
<1> DEFINE t == HandleFrameEnd(s, reaction, badBody)
           ended == [s EXCEPT !.hasHeader_ = FALSE,
                              !.misframed = s.recvFrameLen_ # s.wire.len]
           framed == [ended EXCEPT !.frameData_ = FALSE]
           last == OnRecvMsgEnd(framed, reaction)
<1>1. \/ t = HandleCloseFrame(ended, badBody) \/ t = Abort(ended, "HandlePingFrame")
      \/ t = Abort(s, "OnMsgFrameEnd") \/ t = framed
      \/ /\ ~IsControlOpcode(s.wsHeader_.opcode) /\ s.wsHeader_.fin
         /\ t = [last EXCEPT !.inMsgFlag_ = FALSE]
  BY DEF HandleFrameEnd, HandleControlFrame
<1>2. \A u \in {ended, framed} :
        /\ DOMAIN u = Members /\ u.hasHeader_ = FALSE /\ u.delivered = s.delivered
        /\ u.bev_ = s.bev_ /\ u.connectState_ = s.connectState_ /\ u.wire = s.wire
        /\ u.state_ = s.state_ /\ u.utf8State_ = s.utf8State_
  <2>1. /\ DOMAIN ended = Members /\ ended.hasHeader_ = FALSE /\ ended.delivered = s.delivered
        /\ ended.bev_ = s.bev_ /\ ended.connectState_ = s.connectState_ /\ ended.wire = s.wire
        /\ ended.state_ = s.state_ /\ ended.utf8State_ = s.utf8State_
    BY DEF Members
  <2> HIDE DEF ended
  <2>2. /\ DOMAIN framed = Members /\ framed.hasHeader_ = FALSE
        /\ framed.delivered = s.delivered /\ framed.bev_ = s.bev_
        /\ framed.connectState_ = s.connectState_ /\ framed.wire = s.wire
        /\ framed.state_ = s.state_ /\ framed.utf8State_ = s.utf8State_
    BY <2>1 DEF Members
  <2> HIDE DEF framed
  <2> QED  BY <2>1, <2>2
<1> HIDE DEF t, ended, framed
<1>3. Keeps(s, framed)
  BY <1>2 DEF Keeps, Valid, ValidMessages
<1>4. Keeps(s, Abort(ended, "HandlePingFrame")) /\ Keeps(s, Abort(s, "OnMsgFrameEnd"))
  <2>1. Keeps(s, Abort(ended, "HandlePingFrame"))
    BY <1>2 DEF Abort, Keeps, Valid, ValidMessages, Members
  <2>2. Keeps(s, Abort(s, "OnMsgFrameEnd"))
    BY DEF Abort, Keeps, Valid, ValidMessages, Decoded, Members
  <2> QED  BY <2>1, <2>2
<1>5. Keeps(s, HandleCloseFrame(ended, badBody))
  <2> DEFINE n == IF ended.ctrlLen_ >= 2 THEN ended.ctrlLen_ - 2 ELSE ended.serverReasonLen_
             closing == [ended EXCEPT !.closeTimeoutEvent_ = "null", !.state_ = "CLOSING",
                                      !.receivedCloseFlag_ = TRUE, !.serverReasonLen_ = n]
             u == HandleCloseFrame(ended, badBody)
  <2>1. u = closing \/ \E m : u = CloseWithStatusReason(closing, m)
    BY DEF HandleCloseFrame, CloseWithStatus
  <2>2. /\ DOMAIN closing = Members /\ closing.hasHeader_ = FALSE
        /\ closing.delivered = s.delivered /\ closing.bev_ = s.bev_
        /\ closing.connectState_ = s.connectState_
    BY <1>2 DEF Members
  <2> HIDE DEF closing, u
  <2>3. /\ DOMAIN u = Members /\ u.hasHeader_ = FALSE /\ u.delivered = s.delivered
        /\ u.bev_ = s.bev_ /\ u.connectState_ = s.connectState_
    BY <2>1, <2>2, CloseDelivers
  <2>4. Keeps(s, u)
    BY <2>3 DEF Keeps, Valid, ValidMessages
  <2> QED  BY <2>4 DEF u
<1>6. ASSUME ~IsControlOpcode(s.wsHeader_.opcode), s.wsHeader_.fin
      PROVE  Keeps(s, [last EXCEPT !.inMsgFlag_ = FALSE])
  <2> DEFINE message == [utf8 |-> framed.utf8State_, begun |-> framed.wire # NoFrame]
             given == [framed EXCEPT !.delivered = @ \cup {message}]
             told == IF framed.state_ = "CLOSING" THEN framed ELSE React(given, reaction)
  <2>1. [last EXCEPT !.inMsgFlag_ = FALSE] = [[told EXCEPT !.msg_ = FALSE] EXCEPT !.inMsgFlag_ = FALSE]
    BY DEF OnRecvMsgEnd
  <2>2. s.state_ # "CLOSING" => (message.begun => message.utf8 = "accept")
    BY <1>2, <1>6, Zenon DEF Decoded
  <2>3. /\ DOMAIN given = Members /\ given.hasHeader_ = FALSE
        /\ given.delivered = s.delivered \cup {message}
        /\ given.bev_ = s.bev_ /\ given.connectState_ = s.connectState_
    BY <1>2 DEF Members
  <2> HIDE DEF message, given, last
  <2>4. /\ DOMAIN told = Members /\ told.hasHeader_ = FALSE
        /\ told.bev_ = s.bev_ /\ told.connectState_ = s.connectState_
        /\ told.delivered = IF s.state_ = "CLOSING" THEN s.delivered
                            ELSE s.delivered \cup {message}
    <3>1. CASE s.state_ = "CLOSING"
      <4>1. told = framed
        BY <1>2, <3>1
      <4> HIDE DEF told
      <4> QED  BY <1>2, <3>1, <4>1
    <3>2. CASE s.state_ # "CLOSING"
      <4>1. told = React(given, reaction)
        BY <1>2, <3>2
      <4> HIDE DEF told
      <4> QED  BY <2>3, <3>2, <4>1, ReactDelivers
    <3> QED  BY <3>1, <3>2, Zenon
  <2> HIDE DEF told
  <2>5. ValidMessages(told)
    BY <2>2, <2>4 DEF ValidMessages
  <2> DEFINE u == [[told EXCEPT !.msg_ = FALSE] EXCEPT !.inMsgFlag_ = FALSE]
  <2>6. /\ DOMAIN u = Members /\ u.hasHeader_ = FALSE /\ u.delivered = told.delivered
        /\ u.bev_ = s.bev_ /\ u.connectState_ = s.connectState_
    BY <2>4 DEF Members
  <2> HIDE DEF u
  <2>7. Keeps(s, u)
    BY <2>5, <2>6 DEF Keeps, Valid, ValidMessages
  <2> QED  BY <2>1, <2>7 DEF u
<1>7. Keeps(s, t)
  BY <1>1, <1>3, <1>4, <1>5, <1>6, Zenon
<1> QED  BY <1>7 DEF t

(* A session closed in the middle of a frame delivers nothing more. *)
LEMMA ClosedKeeps ==
  ASSUME NEW s, DOMAIN s = Members, ValidMessages(s)
  PROVE  LET t == CloseWithStatus(s)
         IN  Keeps(s, t) /\ Decoded(t) /\ t.wire = s.wire
<1> DEFINE t == CloseWithStatus(s)
<1>1. /\ DOMAIN t = Members /\ t.delivered = s.delivered /\ t.state_ = "CLOSING"
      /\ t.bev_ = s.bev_ /\ t.connectState_ = s.connectState_ /\ t.wire = s.wire
  BY CloseDelivers DEF CloseWithStatus
<1> HIDE DEF t
<1>2. Decoded(t)
  BY <1>1 DEF Decoded
<1>3. Valid(t)
  BY <1>1, <1>2 DEF Valid, ValidMessages
<1> QED  BY <1>1, <1>2, <1>3 DEF Keeps, t

(* Payload of a frame. *)
LEMMA FrameDataDelivers ==
  ASSUME NEW s, DOMAIN s = Members, ValidMessages(s), Decoded(s), NEW k,
         NEW reaction \in Reaction, NEW badBody \in BOOLEAN
  PROVE  Keeps(s, HandleFrameData(s, k, reaction, badBody))
<1> DEFINE t == HandleFrameData(s, k, reaction, badBody)
           taken == IF IsControlOpcode(s.wsHeader_.opcode) THEN [s EXCEPT !.ctrlLen_ = @ + k] ELSE s
           closed == CloseWithStatus(s)
<1>1. \/ t = [closed EXCEPT !.ctrlLen_ = CtrlMax] \/ t = Abort(s, "OnMsgFrameData")
      \/ t = HandleFrameEnd(taken, reaction, badBody) \/ t = taken
  BY DEF HandleFrameData
<1>2. \A u \in {taken, Abort(s, "OnMsgFrameData")} :
        /\ DOMAIN u = Members /\ u.delivered = s.delivered /\ u.wire = s.wire
        /\ u.state_ = s.state_ /\ u.utf8State_ = s.utf8State_ /\ u.wsHeader_ = s.wsHeader_
        /\ u.bev_ = s.bev_ /\ u.connectState_ = s.connectState_
  BY DEF Abort, Members
<1> HIDE DEF t, taken
<1>3. \A u \in {taken, Abort(s, "OnMsgFrameData")} :
        DOMAIN u = Members /\ ValidMessages(u) /\ Decoded(u) /\ Keeps(s, u)
  BY <1>2 DEF Keeps, Valid, ValidMessages, Decoded
<1>4. Keeps(s, HandleFrameEnd(taken, reaction, badBody))
  <2>1. Keeps(taken, HandleFrameEnd(taken, reaction, badBody))
    BY <1>3, FrameEndDelivers
  <2> QED  BY <1>2, <2>1 DEF Keeps
<1>5. Keeps(s, [closed EXCEPT !.ctrlLen_ = CtrlMax])
  <2>1. Keeps(s, closed) /\ Decoded(closed)
    BY ClosedKeeps
  <2> HIDE DEF closed
  <2> QED  BY <2>1 DEF Keeps, Valid, ValidMessages, Decoded, Members
<1>6. Keeps(s, t)
  BY <1>1, <1>3, <1>4, <1>5
<1> QED  BY <1>6 DEF t

(* Text that does not decode closes the session before its frame can end. *)
LEMMA PayloadDelivers ==
  ASSUME NEW s, DOMAIN s = Members, ValidMessages(s), NEW k, NEW utf8 \in Utf8,
         NEW reaction \in Reaction, NEW badBody \in BOOLEAN
  PROVE  Keeps(s, ReceivePayload(s, k, utf8, reaction, badBody))
<1> DEFINE counted == [s EXCEPT !.recvFrameLen_ = @ + k]
           decoded == [counted EXCEPT !.utf8State_ = utf8]
           bad == utf8 = "reject" \/ (utf8 = "partial" /\ s.wsHeader_.fin)
           checked == IF IsControlOpcode(s.wsHeader_.opcode) THEN counted
                      ELSE IF bad THEN CloseWithStatus(decoded) ELSE decoded
<1>1. ReceivePayload(s, k, utf8, reaction, badBody) = HandleFrameData(checked, k, reaction, badBody)
  BY DEF ReceivePayload
<1>2. /\ \A u \in {counted, decoded} :
           /\ DOMAIN u = Members /\ u.delivered = s.delivered /\ u.wsHeader_ = s.wsHeader_
           /\ u.bev_ = s.bev_ /\ u.connectState_ = s.connectState_
      /\ decoded.utf8State_ = utf8
  BY DEF Members
<1> HIDE DEF counted, decoded
<1>3. ValidMessages(counted) /\ ValidMessages(decoded)
  BY <1>2 DEF ValidMessages
<1>4. /\ DOMAIN checked = Members /\ ValidMessages(checked) /\ Decoded(checked)
      /\ checked.bev_ = s.bev_ /\ checked.connectState_ = s.connectState_
  <2>1. CASE IsControlOpcode(s.wsHeader_.opcode)
    BY <1>2, <1>3, <2>1 DEF Decoded
  <2>2. CASE ~IsControlOpcode(s.wsHeader_.opcode) /\ bad
    <3>1. checked = CloseWithStatus(decoded)
      BY <2>2
    <3>2. Keeps(decoded, CloseWithStatus(decoded)) /\ Decoded(CloseWithStatus(decoded))
      BY <1>2, <1>3, ClosedKeeps
    <3> QED  BY <1>2, <3>1, <3>2 DEF Keeps, Valid
  <2>3. CASE ~IsControlOpcode(s.wsHeader_.opcode) /\ ~bad
    <3>1. checked = decoded /\ (utf8 = "accept" \/ ~s.wsHeader_.fin)
      BY <2>3 DEF Utf8
    <3> HIDE DEF checked
    <3> QED  BY <1>2, <1>3, <3>1 DEF Decoded
  <2> QED  BY <2>1, <2>2, <2>3
<1> HIDE DEF checked
<1>5. Keeps(checked, HandleFrameData(checked, k, reaction, badBody))
  BY <1>4, FrameDataDelivers
<1> QED  BY <1>1, <1>4, <1>5 DEF Keeps

(* A frame read in this connection belongs to a connection past its handshake. *)
ValidInv == Valid(ws) /\ (Opening => ws.wire = NoFrame)

(* A callback past the handshake. *)
LEMMA KeepsStep == ASSUME ~Opening, Keeps(ws, ws'), UNCHANGED loop PROVE ValidInv'
BY DEF ValidInv, Keeps, Opening

(* Reading frames. *)
LEMMA ReadingDelivers ==
  ASSUME ValidInv,
         \/ \E h \in Header, reaction \in Reaction, badBody \in BOOLEAN :
              ReadHeader(h, reaction, badBody)
         \/ ReadBadHeader
         \/ \E k \in 1..MaxLen, utf8 \in Utf8, reaction \in Reaction, badBody \in BOOLEAN :
              ReadPayload(k, utf8, reaction, badBody)
         \/ \E reaction \in Reaction, badBody \in BOOLEAN : ReadFrameEnd(reaction, badBody)
  PROVE  ValidInv'
<1>0. ReadingFrames /\ UNCHANGED loop
  BY Zenon DEF ReadHeader, ReadBadHeader, ReadPayload, ReadFrameEnd, Turn
<1>1. ~Opening /\ DOMAIN ws = Members /\ ValidMessages(ws) /\ ws.bev_ # "null"
  BY <1>0 DEF ReadingFrames, AtEof, Opening, ValidInv, Valid
<1>2. ASSUME NEW h \in Header, NEW reaction \in Reaction, NEW badBody \in BOOLEAN,
             ReadHeader(h, reaction, badBody)
      PROVE  ValidInv'
  <2> DEFINE read == [ws EXCEPT !.hasHeader_ = TRUE, !.frames = @ + 1, !.wire = h,
                                !.wsHeader_ = UnpackHeader(h)]
             begun == HandleFrameBegin(read)
  <2>1. ws' = HandleFrameEnd(begun, reaction, badBody) \/ ws' = begun
    BY <1>2, Zenon DEF ReadHeader, Turn
  <2>2. /\ DOMAIN read = Members /\ read.delivered = ws.delivered /\ read.bev_ = ws.bev_
        /\ read.connectState_ = ws.connectState_ /\ read.inMsgFlag_ = ws.inMsgFlag_
        /\ read.wsHeader_.opcode = h.opcode
    BY <1>1 DEF UnpackHeader, Header, Members
  <2>3. IsControlOpcode(h.opcode) \/ ~ws.inMsgFlag_
    BY <1>2, Zenon DEF ReadHeader, ValidateHeader
  <2> HIDE DEF read
  <2>4. /\ DOMAIN begun = Members /\ begun.delivered = ws.delivered /\ begun.bev_ = ws.bev_
        /\ begun.connectState_ = ws.connectState_ /\ begun.wsHeader_.opcode = h.opcode
        /\ IsControlOpcode(h.opcode) \/ begun.utf8State_ = "accept"
    BY <2>2, <2>3 DEF HandleFrameBegin, Members
  <2> HIDE DEF begun
  <2>5. ValidMessages(begun) /\ Decoded(begun)
    BY <1>1, <2>4 DEF ValidMessages, Decoded
  <2>6. Keeps(ws, begun)
    BY <2>4, <2>5 DEF Keeps, Valid
  <2>7. Keeps(ws, HandleFrameEnd(begun, reaction, badBody))
    <3>1. Keeps(begun, HandleFrameEnd(begun, reaction, badBody))
      BY <2>4, <2>5, FrameEndDelivers
    <3> QED  BY <2>4, <3>1 DEF Keeps
  <2> QED  BY <1>0, <1>1, <2>1, <2>6, <2>7, KeepsStep
<1>3. CASE ReadBadHeader
  <2> DEFINE closed == CloseWithStatus(ws)
  <2>1. ws' = [closed EXCEPT !.badInput = TRUE]
    BY <1>3 DEF ReadBadHeader, Turn
  <2>2. Keeps(ws, closed) /\ Decoded(closed)
    BY <1>1, ClosedKeeps
  <2> HIDE DEF closed
  <2>3. Keeps(ws, ws')
    BY <2>1, <2>2 DEF Keeps, Valid, ValidMessages, Decoded, Members
  <2> QED  BY <1>0, <1>1, <2>3, KeepsStep
<1>4. ASSUME NEW k \in 1..MaxLen, NEW utf8 \in Utf8, NEW reaction \in Reaction,
             NEW badBody \in BOOLEAN, ReadPayload(k, utf8, reaction, badBody)
      PROVE  ValidInv'
  <2>1. ws' = ReceivePayload(ws, k, utf8, reaction, badBody)
    BY <1>4 DEF ReadPayload, Turn
  <2>2. Keeps(ws, ws')
    BY <1>1, <2>1, PayloadDelivers
  <2> QED  BY <1>0, <1>1, <2>2, KeepsStep
<1>5. ASSUME NEW reaction \in Reaction, NEW badBody \in BOOLEAN, ReadFrameEnd(reaction, badBody)
      PROVE  ValidInv'
  <2>1. ws' = HandleFrameEnd(ws, reaction, badBody) /\ ws.hasHeader_
    BY <1>5 DEF ReadFrameEnd, Turn
  <2>2. Decoded(ws)
    BY <1>1, <2>1 DEF ValidInv, Valid
  <2>3. Keeps(ws, ws')
    BY <1>1, <2>1, <2>2, FrameEndDelivers
  <2> QED  BY <1>0, <1>1, <2>3, KeepsStep
<1> QED  BY <1>2, <1>3, <1>4, <1>5

(* The end of the connection. *)
LEMMA EofDelivers == ASSUME ValidInv, OnEofReads \/ OnEofEvent PROVE ValidInv'
<1>1. CASE OnEofReads
  BY <1>1 DEF OnEofReads, ValidInv, Opening
<1>2. CASE OnEofEvent
  <2>1. DOMAIN ws' = Members /\ ws'.bev_ = "null" /\ ws'.delivered = ws.delivered
    BY <1>2 DEF OnEofEvent, ShutDown, ValidInv, Valid, Members
  <2> QED  BY <2>1 DEF ValidInv, Valid, ValidMessages, Opening
<1> QED  BY <1>1, <1>2

(* The handshake, and the other events. *)
LEMMA OthersDeliver ==
  ASSUME ValidInv, IInv,
         \/ DoConnect \/ DoClose \/ OnConnectEvent \/ ReadHttpStatus \/ HandshakeError
         \/ \E name \in Required : ReadHttpHeaders(name)
         \/ \E reaction \in Reaction : HandshakeCompletes(reaction)
         \/ OnErrorEvent \/ OnCloseTimeout \/ OnConnectionTimeout
         \/ DispatchReturns \/ DispatchRunsDry
  PROVE  ValidInv'
<1>0. DOMAIN ws = Members /\ ValidMessages(ws)
  BY DEF ValidInv, Valid
<1>1. ASSUME DOMAIN ws' = Members, ws'.delivered = ws.delivered \/ ws'.delivered = {},
             ws'.wire = NoFrame \/ (ws'.bev_ = "null")
      PROVE  ValidInv'
  BY <1>0, <1>1 DEF ValidInv, Valid, ValidMessages, Decoded, Opening
<1>2. CASE DoConnect \/ HandshakeError
  <2>1. /\ DOMAIN ws' = Members
        /\ ws'.delivered = ws.delivered \/ ws'.delivered = {}
        /\ ws'.wire = NoFrame \/ ws'.bev_ = "null"
    BY <1>0, <1>2, Zenon DEF DoConnect, HandshakeError, ShutDown, Abort, Callback, Members
  <2> QED  BY <1>1, <2>1
<1>3. CASE OnConnectEvent \/ ReadHttpStatus \/ \E name \in Required : ReadHttpHeaders(name)
  <2>1. /\ DOMAIN ws' = Members /\ ws'.delivered = ws.delivered /\ ws'.wire = ws.wire /\ Opening
    BY <1>0, <1>3, Zenon DEF OnConnectEvent, ReadHttpStatus, ReadHttpHeaders, SendHandshake, Callback,
       Dispatching, Opening, Members
  <2> QED  BY <1>1, <2>1 DEF ValidInv
<1>4. ASSUME NEW reaction \in Reaction, HandshakeCompletes(reaction) PROVE ValidInv'
  <2> DEFINE done == [ws EXCEPT !.connectState_ = "HANDSHAKE_COMPLETE", !.state_ = "CONNECTED"]
  <2>1. ws' = React(done, reaction) /\ Opening
    BY <1>4 DEF HandshakeCompletes, Callback, Dispatching, Opening
  <2>2. DOMAIN done = Members /\ done.delivered = ws.delivered /\ done.wire = ws.wire
    BY <1>0 DEF Members
  <2> HIDE DEF done
  <2>3. DOMAIN ws' = Members /\ ws'.delivered = ws.delivered /\ ws'.wire = ws.wire
    BY <2>1, <2>2, ReactDelivers
  <2> QED  BY <1>1, <2>1, <2>3 DEF ValidInv
<1>5. CASE DoClose
  <2>1. ws' = CloseWithStatus(ws) /\ ~Opening /\ UNCHANGED loop
    BY <1>5 DEF DoClose, Idle, IInv, Opening
  <2> QED  BY <1>0, <2>1, ClosedKeeps, KeepsStep
<1>6. CASE OnErrorEvent \/ OnCloseTimeout \/ OnConnectionTimeout
  <2>1. /\ DOMAIN ws' = Members /\ ws'.delivered = ws.delivered /\ ws'.wire = ws.wire
        /\ ws'.state_ = ws.state_ /\ ws'.utf8State_ = ws.utf8State_
        /\ ws'.wsHeader_ = ws.wsHeader_ /\ ws'.hasHeader_ = ws.hasHeader_
        /\ ws'.connectState_ = ws.connectState_ /\ loop' = loop
        /\ ws'.bev_ = ws.bev_ \/ ws'.bev_ = "null" \/ (ws'.bev_ = "failed" /\ ws.bev_ # "null")
    <3>1. CASE OnErrorEvent
      BY <1>0, <3>1 DEF OnErrorEvent, Callback, Members
    <3>2. CASE OnCloseTimeout
      BY <1>0, <3>2 DEF OnCloseTimeout, ShutDown, Abort, Callback, Members
    <3>3. CASE OnConnectionTimeout
      BY <1>0, <3>3 DEF OnConnectionTimeout, Callback, Members
    <3> QED  BY <1>6, <3>1, <3>2, <3>3
  <2>2. Valid(ws')
    BY <2>1 DEF ValidInv, Valid, ValidMessages, Decoded
  <2>3. Opening' => Opening
    BY <2>1 DEF Opening
  <2> QED  BY <2>1, <2>2, <2>3 DEF ValidInv
<1>7. CASE DispatchReturns \/ DispatchRunsDry
  BY <1>7 DEF DispatchReturns, DispatchRunsDry, Dispatching, Opening, ValidInv
<1> QED  BY <1>2, <1>3, <1>4, <1>5, <1>6, <1>7

(* A message that began on this connection reaches onMessage_ only when all    *)
(* of its text decoded, however its payload was cut up.                      *)
THEOREM DeliveredValid == Spec => []DeliveredIsValid
<1>1. Init => ValidInv
  BY DEF Init, ValidInv, Valid, ValidMessages, Opening, Members
<1>2. ValidInv /\ IInv /\ [Next]_vars => ValidInv'
  <2> SUFFICES ASSUME ValidInv, IInv, [Next]_vars PROVE ValidInv'
    OBVIOUS
  <2>1. CASE UNCHANGED vars
    BY <2>1 DEF vars, Opening, ValidInv
  <2> QED  BY <2>1, ReadingDelivers, EofDelivers, OthersDeliver DEF Next
<1>3. ValidInv => DeliveredIsValid
  BY DEF ValidInv, Valid, ValidMessages, DeliveredIsValid
<1> QED  BY <1>1, <1>2, <1>3, Invariance, PTL DEF Spec
-----------------------------------------------------------------------------
(* Types: in particular, what is taken of a control frame fits ctrlPayload_. *)
Typed(s) ==
  /\ DOMAIN s = Members
  /\ s.state_ \in {"CLOSED_CLEANLY", "CLOSED_UNCLEANLY", "CONNECTING", "CONNECTED", "CLOSING"}
  /\ s.connectState_ \in {"NONE", "SENT_REQ", "PARSED_STATUS", "HANDSHAKE_COMPLETE"}
  /\ s.bev_ \in {"null", "connecting", "connected", "failed"}
  /\ s.connectTimeoutEvent_ \in {"null", "pending", "fired"}
  /\ s.closeTimeoutEvent_ \in {"null", "pending", "fired"}
  /\ s.httpHeaderFlags_ \subseteq Required
  /\ s.wsHeader_ \in [opcode : Opcode, fin : BOOLEAN, len : 0..(LenModulus - 1)]
  /\ s.recvFrameLen_ \in 0..MaxBytes
  /\ s.ctrlLen_ \in 0..CtrlMax
  /\ s.serverReasonLen_ \in 0..CtrlMax
  /\ s.utf8State_ \in Utf8

(* The header of a frame that is sent: its length is cut to the field. *)
LEMMA SentHeader ==
  ASSUME NEW opcode \in Opcode, NEW n \in Nat
  PROVE  [opcode |-> opcode, fin |-> TRUE, len |-> n % LenModulus]
           \in [opcode : Opcode, fin : BOOLEAN, len : 0..(LenModulus - 1)]
<1>1. LenModulus \in Nat /\ LenModulus > 0
  BY WsSessionAssumption
<1>2. n % LenModulus \in 0..(LenModulus - 1)
  BY <1>1
<1> QED  BY <1>2

LEMMA CloseTyped ==
  ASSUME NEW s, Typed(s), NEW n \in Nat PROVE Typed(CloseWithStatusReason(s, n))
<1> DEFINE t == CloseWithStatusReason(s, n)
           header == [opcode |-> "close", fin |-> TRUE, len |-> (n + 2) % LenModulus]
<1>1. /\ DOMAIN t = Members /\ t.state_ = "CLOSING" /\ t.connectState_ = s.connectState_
      /\ t.bev_ \in {s.bev_, "null"} /\ t.connectTimeoutEvent_ \in {s.connectTimeoutEvent_, "null"}
      /\ t.closeTimeoutEvent_ \in {"null", "pending"} /\ t.httpHeaderFlags_ = s.httpHeaderFlags_
      /\ t.recvFrameLen_ = s.recvFrameLen_ /\ t.ctrlLen_ = s.ctrlLen_
      /\ t.serverReasonLen_ = s.serverReasonLen_ /\ t.utf8State_ = s.utf8State_
      /\ t.wsHeader_ \in {s.wsHeader_, header}
  BY DEF CloseWithStatusReason, SendFrameRaw, ShutDown, Typed, Members
<1>2. header \in [opcode : Opcode, fin : BOOLEAN, len : 0..(LenModulus - 1)]
  <2>1. "close" \in Opcode /\ n + 2 \in Nat
    BY DEF Opcode
  <2> QED  BY <2>1, SentHeader
<1> HIDE DEF t, header
<1>3. Typed(t)
  BY <1>1, <1>2 DEF Typed
<1> QED  BY <1>3 DEF t

LEMMA CloseStatusTyped == ASSUME NEW s, Typed(s) PROVE Typed(CloseWithStatus(s))
<1>1. 0 \in Nat
  OBVIOUS
<1> QED  BY <1>1, CloseTyped DEF CloseWithStatus

LEMMA ReactTyped ==
  ASSUME NEW s, Typed(s), NEW reaction \in Reaction PROVE Typed(React(s, reaction))
<1>1. CASE reaction = "send"
  <2> DEFINE t == DoSendMsg(s)
             header == [opcode |-> "text", fin |-> TRUE, len |-> 1 % LenModulus]
  <2>1. /\ DOMAIN t = Members /\ t.state_ = s.state_ /\ t.connectState_ = s.connectState_
        /\ t.bev_ = s.bev_ /\ t.connectTimeoutEvent_ = s.connectTimeoutEvent_
        /\ t.closeTimeoutEvent_ = s.closeTimeoutEvent_ /\ t.httpHeaderFlags_ = s.httpHeaderFlags_
        /\ t.recvFrameLen_ = s.recvFrameLen_ /\ t.ctrlLen_ = s.ctrlLen_
        /\ t.serverReasonLen_ = s.serverReasonLen_ /\ t.utf8State_ = s.utf8State_
        /\ t.wsHeader_ \in {s.wsHeader_, header}
    BY DEF DoSendMsg, SendFrameRaw, Abort, Typed, Members
  <2>2. header \in [opcode : Opcode, fin : BOOLEAN, len : 0..(LenModulus - 1)]
    <3>1. "text" \in Opcode /\ 1 \in Nat
      BY DEF Opcode
    <3> QED  BY <3>1, SentHeader
  <2>3. React(s, reaction) = t
    BY <1>1 DEF React
  <2> HIDE DEF t, header
  <2> QED  BY <2>1, <2>2, <2>3 DEF Typed
<1>2. CASE reaction = "close"
  BY <1>2, CloseTyped DEF React, CloseWithStatus
<1>3. CASE reaction = "nothing"
  BY <1>3 DEF React
<1> QED  BY <1>1, <1>2, <1>3 DEF Reaction

LEMMA CloseFrameTyped ==
  ASSUME NEW s, Typed(s), NEW badBody \in BOOLEAN PROVE Typed(HandleCloseFrame(s, badBody))
<1> DEFINE n == IF s.ctrlLen_ >= 2 THEN s.ctrlLen_ - 2 ELSE s.serverReasonLen_
           closing == [s EXCEPT !.closeTimeoutEvent_ = "null", !.state_ = "CLOSING",
                                !.receivedCloseFlag_ = TRUE, !.serverReasonLen_ = n]
<1>1. n \in Nat /\ n =< CtrlMax
  BY WsSessionAssumption DEF Typed
<1>2. \/ HandleCloseFrame(s, badBody) = CloseWithStatusReason(closing, 0)
      \/ HandleCloseFrame(s, badBody) = CloseWithStatusReason(closing, n)
      \/ HandleCloseFrame(s, badBody) = closing
  BY DEF HandleCloseFrame, CloseWithStatus
<1> HIDE DEF n
<1>3. /\ DOMAIN closing = Members /\ closing.state_ = "CLOSING"
      /\ closing.connectState_ = s.connectState_ /\ closing.bev_ = s.bev_
      /\ closing.connectTimeoutEvent_ = s.connectTimeoutEvent_
      /\ closing.closeTimeoutEvent_ = "null" /\ closing.httpHeaderFlags_ = s.httpHeaderFlags_
      /\ closing.recvFrameLen_ = s.recvFrameLen_ /\ closing.ctrlLen_ = s.ctrlLen_
      /\ closing.serverReasonLen_ = n /\ closing.utf8State_ = s.utf8State_
      /\ closing.wsHeader_ = s.wsHeader_
  BY DEF Typed, Members
<1> HIDE DEF closing
<1>4. n \in 0..CtrlMax
  BY <1>1, WsSessionAssumption
<1>5. Typed(closing)
  BY <1>3, <1>4 DEF Typed
<1>6. 0 \in Nat
  OBVIOUS
<1> QED  BY <1>1, <1>2, <1>5, <1>6, CloseTyped

(* Members that TypeOK does not speak of may take any value. *)
Similar(s, t) ==
  /\ DOMAIN t = Members
  /\ \A f \in {"state_", "connectState_", "bev_", "connectTimeoutEvent_", "closeTimeoutEvent_",
               "httpHeaderFlags_", "wsHeader_", "recvFrameLen_", "ctrlLen_", "serverReasonLen_",
               "utf8State_"} : t[f] = s[f]

LEMMA SimilarTyped == ASSUME NEW s, NEW t, Typed(s), Similar(s, t) PROVE Typed(t)
BY DEF Typed, Similar

LEMMA FrameEndTyped ==
  ASSUME NEW s, Typed(s), NEW reaction \in Reaction, NEW badBody \in BOOLEAN
  PROVE  Typed(HandleFrameEnd(s, reaction, badBody))
<1> DEFINE t == HandleFrameEnd(s, reaction, badBody)
           ended == [s EXCEPT !.hasHeader_ = FALSE,
                              !.misframed = s.recvFrameLen_ # s.wire.len]
           framed == [ended EXCEPT !.frameData_ = FALSE]
           given == [framed EXCEPT !.delivered = @ \cup
                       {[utf8 |-> framed.utf8State_, begun |-> framed.wire # NoFrame]}]
           told == IF framed.state_ = "CLOSING" THEN framed ELSE React(given, reaction)
           last == [[told EXCEPT !.msg_ = FALSE] EXCEPT !.inMsgFlag_ = FALSE]
<1>1. \/ t = HandleCloseFrame(ended, badBody) \/ t = Abort(ended, "HandlePingFrame")
      \/ t = Abort(s, "OnMsgFrameEnd") \/ t = framed \/ t = last
  BY DEF HandleFrameEnd, HandleControlFrame, OnRecvMsgEnd
<1>2. Similar(s, ended) /\ Similar(ended, framed) /\ Similar(framed, given)
      /\ Similar(ended, Abort(ended, "HandlePingFrame")) /\ Similar(s, Abort(s, "OnMsgFrameEnd"))
  BY DEF Typed, Similar, Abort, Members
<1> HIDE DEF t, ended, framed, given, last
<1>3. Typed(ended) /\ Typed(Abort(s, "OnMsgFrameEnd"))
  BY <1>2, SimilarTyped
<1>4. Typed(framed) /\ Typed(Abort(ended, "HandlePingFrame"))
  BY <1>2, <1>3, SimilarTyped
<1>5. Typed(given)
  BY <1>2, <1>4, SimilarTyped
<1>6. Typed(told)
  BY <1>4, <1>5, ReactTyped
<1> HIDE DEF told
<1>7. Similar(told, last)
  BY <1>6 DEF Typed, Similar, Members, last
<1>8. Typed(t)
  BY <1>1, <1>3, <1>4, <1>6, <1>7, SimilarTyped, CloseFrameTyped
<1> QED  BY <1>8 DEF t

(* HandleFrameData takes no more of a control frame than fits. *)
LEMMA FrameDataTyped ==
  ASSUME NEW s, Typed(s), NEW k \in Nat, NEW reaction \in Reaction, NEW badBody \in BOOLEAN
  PROVE  Typed(HandleFrameData(s, k, reaction, badBody))
<1> DEFINE t == HandleFrameData(s, k, reaction, badBody)
           control == IsControlOpcode(s.wsHeader_.opcode)
           more == [s EXCEPT !.ctrlLen_ = @ + k]
           taken == IF control THEN more ELSE s
           closed == CloseWithStatus(s)
           full == [closed EXCEPT !.ctrlLen_ = CtrlMax]
<1>0. CtrlMax \in Nat /\ s.ctrlLen_ \in 0..CtrlMax
  BY WsSessionAssumption DEF Typed
<1>1. Typed(closed)
  BY CloseStatusTyped
<1>2. Typed(Abort(s, "OnMsgFrameData"))
  <2>1. Similar(s, Abort(s, "OnMsgFrameData"))
    BY DEF Typed, Similar, Abort, Members
  <2> QED  BY <2>1, SimilarTyped
<1>3. \/ t = full \/ t = Abort(s, "OnMsgFrameData")
      \/ /\ control => ~(s.ctrlLen_ + k > CtrlMax)
         /\ t = HandleFrameEnd(taken, reaction, badBody) \/ t = taken
  BY DEF HandleFrameData
<1> HIDE DEF t, closed, control
<1>4. Typed(full)
  <2>1. /\ DOMAIN full = Members /\ full.ctrlLen_ = CtrlMax
        /\ \A f \in Members : f # "ctrlLen_" => full[f] = closed[f]
    BY <1>1 DEF Typed, Members
  <2>2. CtrlMax \in 0..CtrlMax
    BY <1>0
  <2> HIDE DEF full
  <2> QED  BY <1>1, <2>1, <2>2 DEF Typed, Members
<1>5. ASSUME ~(s.ctrlLen_ + k > CtrlMax) PROVE Typed(more)
  <2>1. s.ctrlLen_ + k \in 0..CtrlMax
    BY <1>0, <1>5
  <2>2. /\ DOMAIN more = Members /\ more.ctrlLen_ = s.ctrlLen_ + k
        /\ \A f \in Members : f # "ctrlLen_" => more[f] = s[f]
    BY DEF Typed, Members
  <2> HIDE DEF more
  <2> QED  BY <2>1, <2>2 DEF Typed, Members
<1> HIDE DEF more, full
<1>6. Typed(t)
  BY <1>2, <1>3, <1>4, <1>5, FrameEndTyped
<1> QED  BY <1>6 DEF t

LEMMA PayloadTyped ==
  ASSUME NEW s, Typed(s), NEW k \in Nat, s.recvFrameLen_ + k =< MaxBytes, NEW utf8 \in Utf8,
         NEW reaction \in Reaction, NEW badBody \in BOOLEAN
  PROVE  Typed(ReceivePayload(s, k, utf8, reaction, badBody))
<1> DEFINE counted == [s EXCEPT !.recvFrameLen_ = @ + k]
           decoded == [counted EXCEPT !.utf8State_ = utf8]
           checked == IF IsControlOpcode(s.wsHeader_.opcode) THEN counted
                      ELSE IF utf8 = "reject" \/ (utf8 = "partial" /\ s.wsHeader_.fin)
                      THEN CloseWithStatus(decoded) ELSE decoded
<1>1. ReceivePayload(s, k, utf8, reaction, badBody) = HandleFrameData(checked, k, reaction, badBody)
  BY DEF ReceivePayload
<1>2. Typed(counted)
  <2>1. s.recvFrameLen_ + k \in 0..MaxBytes
    BY WsSessionAssumption DEF Typed
  <2>2. /\ DOMAIN counted = Members /\ counted.recvFrameLen_ = s.recvFrameLen_ + k
        /\ \A f \in Members : f # "recvFrameLen_" => counted[f] = s[f]
    BY DEF Typed, Members
  <2> HIDE DEF counted
  <2> QED  BY <2>1, <2>2 DEF Typed, Members
<1> HIDE DEF counted
<1>3. Typed(decoded)
  <2>1. /\ DOMAIN decoded = Members /\ decoded.utf8State_ = utf8
        /\ \A f \in Members : f # "utf8State_" => decoded[f] = counted[f]
    BY <1>2 DEF Typed, Members
  <2> HIDE DEF decoded
  <2> QED  BY <1>2, <2>1 DEF Typed, Members
<1> HIDE DEF decoded
<1>4. Typed(CloseWithStatus(decoded))
  BY <1>3, CloseStatusTyped
<1>5. Typed(checked)
  BY <1>2, <1>3, <1>4
<1> HIDE DEF checked
<1> QED  BY <1>1, <1>5, FrameDataTyped

(* Connecting and the handshake. *)
LEMMA OpeningTyped ==
  ASSUME Typed(ws),
         \/ DoConnect \/ OnConnectEvent \/ ReadHttpStatus \/ HandshakeError
         \/ \E name \in Required : ReadHttpHeaders(name)
         \/ \E reaction \in Reaction : HandshakeCompletes(reaction)
  PROVE  Typed(ws')
<1>1. CASE DoConnect
  BY <1>1 DEF DoConnect, Typed, Members
<1>2. CASE OnConnectEvent
  BY <1>2 DEF OnConnectEvent, SendHandshake, Callback, Typed, Members
<1>3. CASE ReadHttpStatus
  BY <1>3 DEF ReadHttpStatus, Callback, Typed, Members
<1>4. CASE HandshakeError
  BY <1>4 DEF HandshakeError, ShutDown, Abort, Callback, Typed, Members
<1>5. ASSUME NEW name \in Required, ReadHttpHeaders(name) PROVE Typed(ws')
  BY <1>5 DEF ReadHttpHeaders, Callback, Typed, Members
<1>6. ASSUME NEW reaction \in Reaction, HandshakeCompletes(reaction) PROVE Typed(ws')
  <2> DEFINE done == [ws EXCEPT !.connectState_ = "HANDSHAKE_COMPLETE", !.state_ = "CONNECTED"]
  <2>1. ws' = React(done, reaction)
    BY <1>6 DEF HandshakeCompletes, Callback
  <2>2. Typed(done)
    BY DEF Typed, Members
  <2> HIDE DEF done
  <2> QED  BY <2>1, <2>2, ReactTyped
<1> QED  BY <1>1, <1>2, <1>3, <1>4, <1>5, <1>6

(* Reading frames: the length is cut to its field as a header is read. *)
LEMMA ReadingTyped ==
  ASSUME Typed(ws),
         \/ \E h \in Header, reaction \in Reaction, badBody \in BOOLEAN :
              ReadHeader(h, reaction, badBody)
         \/ ReadBadHeader
         \/ \E k \in 1..MaxLen, utf8 \in Utf8, reaction \in Reaction, badBody \in BOOLEAN :
              ReadPayload(k, utf8, reaction, badBody)
         \/ \E reaction \in Reaction, badBody \in BOOLEAN : ReadFrameEnd(reaction, badBody)
  PROVE  Typed(ws')
<1>1. ASSUME NEW h \in Header, NEW reaction \in Reaction, NEW badBody \in BOOLEAN,
             ReadHeader(h, reaction, badBody)
      PROVE  Typed(ws')
  <2> DEFINE read == [ws EXCEPT !.hasHeader_ = TRUE, !.frames = @ + 1, !.wire = h,
                                !.wsHeader_ = UnpackHeader(h)]
             begun == HandleFrameBegin(read)
  <2>1. ws' = HandleFrameEnd(begun, reaction, badBody) \/ ws' = begun
    BY <1>1, Zenon DEF ReadHeader, Turn
  <2>2. UnpackHeader(h) \in [opcode : Opcode, fin : BOOLEAN, len : 0..(LenModulus - 1)]
    <3>1. LenModulus \in Nat /\ LenModulus > 0 /\ h.len \in Nat
      BY WsSessionAssumption DEF Header
    <3>2. h.len % LenModulus \in 0..(LenModulus - 1)
      BY <3>1
    <3> QED  BY <3>2 DEF UnpackHeader, Header
  <2>3. /\ DOMAIN read = Members /\ read.wsHeader_ = UnpackHeader(h)
        /\ \A f \in Members \ {"hasHeader_", "frames", "wire", "wsHeader_"} : read[f] = ws[f]
    BY Zenon DEF Typed, Members
  <2> HIDE DEF read
  <2>4. Typed(read)
    BY <2>2, <2>3 DEF Typed, Members
  <2>5. /\ DOMAIN begun = Members /\ begun.recvFrameLen_ = 0
        /\ begun.ctrlLen_ \in {read.ctrlLen_, 0} /\ begun.utf8State_ \in {read.utf8State_, "accept"}
        /\ \A f \in Members \ {"recvFrameLen_", "ctrlLen_", "utf8State_", "frameData_",
                               "inMsgFlag_", "msg_"} : begun[f] = read[f]
    BY <2>4, Zenon DEF HandleFrameBegin, Typed, Members
  <2>6. 0 \in 0..MaxBytes /\ 0 \in 0..CtrlMax /\ "accept" \in Utf8
    BY WsSessionAssumption DEF Utf8
  <2> HIDE DEF begun
  <2>7. Typed(begun)
    BY <2>4, <2>5, <2>6, SMTT(20) DEF Typed, Members
  <2> QED  BY <2>1, <2>7, FrameEndTyped
<1>2. CASE ReadBadHeader
  <2> DEFINE closed == CloseWithStatus(ws)
  <2>1. ws' = [closed EXCEPT !.badInput = TRUE]
    BY <1>2 DEF ReadBadHeader, Turn
  <2>2. Typed(closed)
    BY CloseStatusTyped
  <2> HIDE DEF closed
  <2>3. Similar(closed, ws')
    BY <2>1, <2>2 DEF Similar, Typed, Members
  <2> QED  BY <2>2, <2>3, SimilarTyped
<1>3. ASSUME NEW k \in 1..MaxLen, NEW utf8 \in Utf8, NEW reaction \in Reaction,
             NEW badBody \in BOOLEAN, ReadPayload(k, utf8, reaction, badBody)
      PROVE  Typed(ws')
  <2>1. ws' = ReceivePayload(ws, k, utf8, reaction, badBody) /\ ws.recvFrameLen_ + k =< MaxBytes
    BY <1>3 DEF ReadPayload, Turn
  <2>2. k \in Nat
    BY WsSessionAssumption
  <2> QED  BY <2>1, <2>2, PayloadTyped
<1>4. ASSUME NEW reaction \in Reaction, NEW badBody \in BOOLEAN, ReadFrameEnd(reaction, badBody)
      PROVE  Typed(ws')
  <2>1. ws' = HandleFrameEnd(ws, reaction, badBody)
    BY <1>4 DEF ReadFrameEnd, Turn
  <2> QED  BY <2>1, FrameEndTyped
<1> QED  BY <1>1, <1>2, <1>3, <1>4

(* The end of the connection. *)
LEMMA EofTyped == ASSUME Typed(ws), OnEofReads \/ OnEofEvent PROVE Typed(ws')
<1>1. CASE OnEofReads
  BY <1>1 DEF OnEofReads
<1>2. CASE OnEofEvent
  BY <1>2 DEF OnEofEvent, ShutDown, Typed, Members
<1> QED  BY <1>1, <1>2

(* The other events. *)
LEMMA EventTyped ==
  ASSUME Typed(ws),
         \/ DoClose \/ OnErrorEvent \/ OnCloseTimeout \/ OnConnectionTimeout
         \/ DispatchReturns \/ DispatchRunsDry
  PROVE  Typed(ws')
<1>1. CASE DoClose
  BY <1>1, CloseStatusTyped DEF DoClose
<1>2. CASE OnErrorEvent
  BY <1>2 DEF OnErrorEvent, Callback, Typed, Members
<1>3. CASE OnCloseTimeout
  BY <1>3 DEF OnCloseTimeout, ShutDown, Abort, Callback, Typed, Members
<1>4. CASE OnConnectionTimeout
  BY <1>4 DEF OnConnectionTimeout, Callback, Typed, Members
<1>5. CASE DispatchReturns \/ DispatchRunsDry
  BY <1>5 DEF DispatchReturns, DispatchRunsDry, Typed
<1> QED  BY <1>1, <1>2, <1>3, <1>4, <1>5

LoopTyped ==
  loop \in {"idle", "dispatch", "eof"} /\ loopexit \in BOOLEAN /\ connections \in 0..MaxConnections

LEMMA LoopStep == ASSUME LoopTyped, [Next]_vars PROVE LoopTyped'
<1>1. \/ UNCHANGED <<loop, loopexit, connections>>
      \/ /\ loop' = "dispatch" /\ connections < MaxConnections /\ connections' = connections + 1
         /\ UNCHANGED loopexit
      \/ loop' = "eof" /\ UNCHANGED <<loopexit, connections>>
      \/ loop' = "dispatch" /\ loopexit' = TRUE /\ UNCHANGED connections
      \/ loop' = "idle" /\ loopexit' = FALSE /\ UNCHANGED connections
  BY Zenon DEF Next, vars, DoConnect, DoClose, OnConnectEvent, ReadHttpStatus, ReadHttpHeaders,
     HandshakeCompletes, HandshakeError, ReadHeader, ReadBadHeader, ReadPayload, ReadFrameEnd,
     OnEofReads, OnEofEvent, OnErrorEvent, OnCloseTimeout, OnConnectionTimeout, DispatchReturns,
     DispatchRunsDry, Callback, Turn
<1>2. loop' \in {"idle", "dispatch", "eof"} /\ loopexit' \in BOOLEAN
  BY ONLY <1>1, LoopTyped, Zenon DEF LoopTyped
<1>3. connections' \in 0..MaxConnections
  <2>1. MaxConnections \in Nat /\ connections \in 0..MaxConnections
    BY WsSessionAssumption DEF LoopTyped
  <2>2. \/ connections' = connections
        \/ connections < MaxConnections /\ connections' = connections + 1
    BY <1>1
  <2> QED  BY <2>1, <2>2
<1> QED  BY <1>2, <1>3 DEF LoopTyped

(* Every member keeps its range: the bytes taken of a control frame never pass *)
(* the end of ctrlPayload_, whatever lengths the server announces and however  *)
(* its input is cut up.                                                      *)
THEOREM TypeCorrect == Spec => []TypeOK
<1> DEFINE TInv == Typed(ws) /\ LoopTyped
<1>1. Init => TInv
  <2>1. /\ 0 \in 0..MaxBytes /\ 0 \in 0..CtrlMax /\ 0 \in 0..MaxConnections
        /\ 0 \in 0..(LenModulus - 1)
    BY WsSessionAssumption
  <2>2. NoFrame \in [opcode : Opcode, fin : BOOLEAN, len : 0..(LenModulus - 1)]
    BY <2>1 DEF NoFrame, Opcode
  <2>3. Init => Typed(ws)
    <3>1. ASSUME Init
          PROVE  /\ DOMAIN ws = Members /\ ws.state_ = "CLOSED_CLEANLY"
                 /\ ws.connectState_ = "NONE" /\ ws.bev_ = "null"
                 /\ ws.connectTimeoutEvent_ = "null" /\ ws.closeTimeoutEvent_ = "null"
                 /\ ws.httpHeaderFlags_ = {} /\ ws.wsHeader_ = NoFrame /\ ws.recvFrameLen_ = 0
                 /\ ws.ctrlLen_ = 0 /\ ws.serverReasonLen_ = 0 /\ ws.utf8State_ = "accept"
      BY <3>1 DEF Init, Members
    <3> QED  BY <2>1, <2>2, <3>1 DEF Typed, Utf8
  <2>4. Init => LoopTyped
    BY <2>1, Zenon DEF Init, LoopTyped
  <2> QED  BY <2>3, <2>4
<1>2. TInv /\ [Next]_vars => TInv'
  <2> SUFFICES ASSUME Typed(ws), LoopTyped, [Next]_vars PROVE Typed(ws') /\ LoopTyped'
    BY DEF Typed
  <2>1. CASE UNCHANGED vars
    BY <2>1 DEF vars, LoopTyped
  <2>2. CASE Next
    BY <2>2, OpeningTyped, ReadingTyped, EofTyped, EventTyped, LoopStep DEF Next
  <2> QED  BY <2>1, <2>2
<1>3. TInv => TypeOK
  BY DEF Typed, LoopTyped, TypeOK
<1> QED  BY <1>1, <1>2, <1>3, PTL DEF Spec

-----------------------------------------------------------------------------
(* The checks that never fail. *)

Live(s) == s.state_ \in {"CONNECTED", "CLOSING"}

(* What holds on the first connection: payload has its buffers unless the     *)
(* header was replaced by one that was sent, and the timer its reason.        *)
Upright(s) ==
  /\ s.hasHeader_ /\ ~IsControlOpcode(s.wsHeader_.opcode) => s.frameData_ /\ s.msg_
  /\ s.closeTimeoutEvent_ = "pending" => s.sentCloseFlag_
  /\ s.aborted \notin {"OnCloseTimeout", "OnMsgFrameData", "OnMsgFrameEnd"}

(* t is s after a handler: it may send if s is live. *)
Handled(s, t) ==
  /\ DOMAIN t = Members /\ t.bev_ = s.bev_ /\ t.connectState_ = s.connectState_
  /\ t.aborted = "SendMsgEx" => ~Live(s)
  /\ Live(s) => Live(t)
  /\ t.hasHeader_ => s.hasHeader_
  /\ Upright(s) => Upright(t)

(* A handler runs in a process that has not ended. *)
Running(s) == DOMAIN s = Members /\ s.aborted = "no"

(* Closing replaces the header by that of a control frame, or not at all. *)
LEMMA CloseHandled ==
  ASSUME NEW s, Running(s), NEW n
  PROVE  LET t == CloseWithStatusReason(s, n)
         IN  /\ Handled(s, t) /\ Running(t) /\ Live(t) /\ t.hasHeader_ = s.hasHeader_
             /\ s.bev_ = "null" /\ ~s.sentCloseFlag_ =>
                  t.closeTimeoutEvent_ = "null" /\ ~t.sentCloseFlag_
<1> DEFINE t == CloseWithStatusReason(s, n)
<1>1. /\ DOMAIN t = Members /\ t.bev_ = s.bev_ /\ t.connectState_ = s.connectState_
      /\ t.state_ = "CLOSING" /\ t.hasHeader_ = s.hasHeader_
  BY CloseDelivers DEF Running
<1>2. /\ t.aborted = s.aborted /\ t.frameData_ = s.frameData_ /\ t.msg_ = s.msg_
      /\ t.closeTimeoutEvent_ = "pending" => t.sentCloseFlag_
      /\ s.bev_ = "null" /\ ~s.sentCloseFlag_ =>
           t.closeTimeoutEvent_ = "null" /\ ~t.sentCloseFlag_
  BY DEF CloseWithStatusReason, SendFrameRaw, ShutDown, Running, Members
<1>3. t.wsHeader_ = s.wsHeader_ \/ t.wsHeader_.opcode = "close"
  BY DEF CloseWithStatusReason, SendFrameRaw, ShutDown, Running, Members
<1> HIDE DEF t
<1>4. Upright(s) => Upright(t)
  BY <1>1, <1>2, <1>3 DEF Upright, IsControlOpcode
<1>5. Handled(s, t) /\ Running(t) /\ Live(t)
  BY <1>1, <1>2, <1>4 DEF Handled, Running, Live
<1> QED  BY <1>1, <1>2, <1>5 DEF t

(* The same without a reason. *)
LEMMA CloseStatusHandled ==
  ASSUME NEW s, Running(s)
  PROVE  LET t == CloseWithStatus(s)
         IN  Handled(s, t) /\ Running(t) /\ Live(t) /\ t.hasHeader_ = s.hasHeader_
BY CloseHandled DEF CloseWithStatus

(* The application may send where the session is CONNECTED.  What it sends     *)
(* replaces the header when no frame is being read.                           *)
LEMMA ReactHandled ==
  ASSUME NEW s, Running(s), NEW reaction \in Reaction
  PROVE  LET t == React(s, reaction)
         IN  /\ DOMAIN t = Members /\ t.bev_ = s.bev_ /\ t.connectState_ = s.connectState_
             /\ t.aborted = "no" \/ (t.aborted = "SendMsgEx" /\ s.state_ # "CONNECTED")
             /\ t.hasHeader_ = s.hasHeader_ /\ (Live(s) => Live(t))
             /\ ~s.hasHeader_ /\ Upright(s) => Upright(t)
<1> DEFINE t == React(s, reaction)
<1>1. CASE reaction = "send"
  <2>1. t = IF s.state_ # "CONNECTED" THEN Abort(s, "SendMsgEx") ELSE SendFrameRaw(s, "text", 1)
    BY <1>1 DEF React, DoSendMsg
  <2>2. /\ DOMAIN t = Members /\ t.bev_ = s.bev_ /\ t.connectState_ = s.connectState_
        /\ t.aborted = s.aborted \/ (t.aborted = "SendMsgEx" /\ s.state_ # "CONNECTED")
        /\ t.hasHeader_ = s.hasHeader_ /\ t.state_ = s.state_
        /\ t.closeTimeoutEvent_ = s.closeTimeoutEvent_ /\ t.sentCloseFlag_ = s.sentCloseFlag_
    BY <2>1 DEF SendFrameRaw, Abort, Running, Members
  <2> HIDE DEF t
  <2>3. ~s.hasHeader_ /\ Upright(s) => Upright(t)
    BY <2>2 DEF Upright
  <2> QED  BY <2>2, <2>3 DEF Running, Live, t
<1>2. CASE reaction = "close"
  BY <1>2, CloseStatusHandled DEF React, Handled, Running
<1>3. CASE reaction = "nothing"
  BY <1>3 DEF React, Running
<1> QED  BY <1>1, <1>2, <1>3 DEF Reaction

(* A Close frame. *)
LEMMA CloseFrameHandled ==
  ASSUME NEW s, Running(s), ~s.hasHeader_, NEW badBody \in BOOLEAN
  PROVE  Handled(s, HandleCloseFrame(s, badBody))
<1> DEFINE n == IF s.ctrlLen_ >= 2 THEN s.ctrlLen_ - 2 ELSE s.serverReasonLen_
           closing == [s EXCEPT !.closeTimeoutEvent_ = "null", !.state_ = "CLOSING",
                                !.receivedCloseFlag_ = TRUE, !.serverReasonLen_ = n]
           t == HandleCloseFrame(s, badBody)
<1>1. t = closing \/ \E m : t = CloseWithStatusReason(closing, m)
  BY DEF HandleCloseFrame, CloseWithStatus
<1>2. /\ DOMAIN closing = Members /\ closing.aborted = s.aborted /\ closing.bev_ = s.bev_
      /\ closing.connectState_ = s.connectState_ /\ closing.hasHeader_ = s.hasHeader_
      /\ closing.state_ = "CLOSING" /\ closing.closeTimeoutEvent_ = "null"
  BY DEF Running, Members
<1> HIDE DEF closing, t
<1>3. Handled(s, closing) /\ Running(closing)
  BY <1>2 DEF Handled, Running, Live, Upright
<1>4. Handled(s, t)
  <2>1. Handled(closing, t) \/ t = closing
    BY <1>1, <1>3, CloseHandled
  <2> QED  BY <1>3, <2>1 DEF Handled
<1> QED  BY <1>4 DEF t

(* The end of a frame. *)
LEMMA FrameEndHandled ==
  ASSUME NEW s, Running(s), s.hasHeader_, NEW reaction \in Reaction, NEW badBody \in BOOLEAN
  PROVE  Handled(s, HandleFrameEnd(s, reaction, badBody))
<1> DEFINE t == HandleFrameEnd(s, reaction, badBody)
           ended == [s EXCEPT !.hasHeader_ = FALSE,
                              !.misframed = s.recvFrameLen_ # s.wire.len]
           framed == [ended EXCEPT !.frameData_ = FALSE]
           given == [framed EXCEPT !.delivered = @ \cup
                       {[utf8 |-> framed.utf8State_, begun |-> framed.wire # NoFrame]}]
           told == IF framed.state_ = "CLOSING" THEN framed ELSE React(given, reaction)
           last == [[told EXCEPT !.msg_ = FALSE] EXCEPT !.inMsgFlag_ = FALSE]
<1>1. \/ t = HandleCloseFrame(ended, badBody) \/ t = Abort(ended, "HandlePingFrame")
      \/ /\ t = Abort(s, "OnMsgFrameEnd") /\ ~IsControlOpcode(s.wsHeader_.opcode)
         /\ ~s.frameData_ \/ ~s.msg_
      \/ t = framed \/ t = last
  BY DEF HandleFrameEnd, HandleControlFrame, OnRecvMsgEnd
<1>2. /\ DOMAIN ended = Members /\ ended.hasHeader_ = FALSE /\ ended.bev_ = s.bev_
      /\ ended.connectState_ = s.connectState_ /\ ended.state_ = s.state_
      /\ ended.aborted = s.aborted /\ ended.closeTimeoutEvent_ = s.closeTimeoutEvent_
      /\ ended.sentCloseFlag_ = s.sentCloseFlag_
  BY DEF Running, Members
<1> HIDE DEF ended
<1>3. /\ DOMAIN framed = Members /\ framed.hasHeader_ = FALSE /\ framed.bev_ = s.bev_
      /\ framed.connectState_ = s.connectState_ /\ framed.state_ = s.state_
      /\ framed.aborted = s.aborted /\ framed.closeTimeoutEvent_ = s.closeTimeoutEvent_
      /\ framed.sentCloseFlag_ = s.sentCloseFlag_
  BY <1>2 DEF Members
<1> HIDE DEF framed
<1>4. /\ DOMAIN given = Members /\ given.hasHeader_ = FALSE /\ given.bev_ = s.bev_
      /\ given.connectState_ = s.connectState_ /\ given.state_ = s.state_
      /\ given.aborted = s.aborted /\ given.closeTimeoutEvent_ = s.closeTimeoutEvent_
      /\ given.sentCloseFlag_ = s.sentCloseFlag_
  BY <1>3 DEF Members
<1> HIDE DEF given
<1>5. /\ Running(ended) /\ Handled(s, ended) /\ Running(framed) /\ Handled(s, framed)
      /\ Running(given) /\ Handled(s, given)
  BY <1>2, <1>3, <1>4 DEF Running, Handled, Live, Upright
<1>6. ASSUME t = HandleCloseFrame(ended, badBody) PROVE Handled(s, t)
  <2>1. Handled(ended, t)
    BY <1>2, <1>5, <1>6, CloseFrameHandled
  <2> QED  BY <1>5, <2>1 DEF Handled
<1>7. ASSUME t = Abort(ended, "HandlePingFrame") PROVE Handled(s, t)
  <2>1. /\ DOMAIN t = Members /\ t.hasHeader_ = FALSE /\ t.bev_ = s.bev_
        /\ t.connectState_ = s.connectState_ /\ t.state_ = s.state_
        /\ t.aborted = "HandlePingFrame" /\ t.closeTimeoutEvent_ = s.closeTimeoutEvent_
        /\ t.sentCloseFlag_ = s.sentCloseFlag_
    BY <1>2, <1>7 DEF Abort, Members
  <2> QED  BY <2>1 DEF Handled, Live, Upright
<1>8. ASSUME t = Abort(s, "OnMsgFrameEnd"), ~IsControlOpcode(s.wsHeader_.opcode),
             ~s.frameData_ \/ ~s.msg_
      PROVE  Handled(s, t)
  <2>1. /\ DOMAIN t = Members /\ t.bev_ = s.bev_ /\ t.connectState_ = s.connectState_
        /\ t.state_ = s.state_ /\ t.aborted = "OnMsgFrameEnd"
    BY <1>8 DEF Abort, Running, Members
  <2>2. ~Upright(s)
    BY <1>8 DEF Upright
  <2> QED  BY <2>1, <2>2 DEF Handled, Live
<1>9. ASSUME t = last PROVE Handled(s, t)
  <2>1. /\ DOMAIN told = Members /\ told.bev_ = s.bev_ /\ told.connectState_ = s.connectState_
        /\ told.aborted = "no" \/ (told.aborted = "SendMsgEx" /\ ~Live(s))
        /\ told.hasHeader_ = FALSE /\ (Live(s) => Live(told))
        /\ Upright(s) => Upright(told)
    <3>1. CASE s.state_ = "CLOSING"
      <4>1. told = framed
        BY <1>3, <3>1
      <4> HIDE DEF told
      <4> QED  BY <1>3, <1>5, <4>1 DEF Handled, Running
    <3>2. CASE s.state_ # "CLOSING"
      <4>1. told = React(given, reaction)
        BY <1>3, <3>2
      <4>2. given.state_ # "CONNECTED" => ~Live(s)
        BY <1>4, <3>2 DEF Live
      <4> HIDE DEF told
      <4> QED  BY <1>4, <1>5, <4>1, <4>2, ReactHandled DEF Handled
    <3> QED  BY <3>1, <3>2, Zenon
  <2> HIDE DEF told
  <2>2. /\ DOMAIN last = Members /\ last.bev_ = s.bev_ /\ last.connectState_ = s.connectState_
        /\ last.aborted = told.aborted /\ last.hasHeader_ = FALSE /\ last.state_ = told.state_
        /\ last.closeTimeoutEvent_ = told.closeTimeoutEvent_
        /\ last.sentCloseFlag_ = told.sentCloseFlag_
    BY <2>1 DEF Members
  <2> HIDE DEF last
  <2> QED  BY <1>9, <2>1, <2>2 DEF Handled, Live, Upright
<1>10. Handled(s, t)
  <2> HIDE DEF t, last
  <2> QED  BY <1>1, <1>5, <1>6, <1>7, <1>8, <1>9
<1> QED  BY <1>10

(* Steps between two handlers that touch none of this. *)
Untouched(s, t) ==
  /\ DOMAIN t = Members /\ t.bev_ = s.bev_ /\ t.connectState_ = s.connectState_
  /\ t.aborted = s.aborted /\ t.state_ = s.state_ /\ t.hasHeader_ = s.hasHeader_
  /\ t.wsHeader_ = s.wsHeader_ /\ t.frameData_ = s.frameData_ /\ t.msg_ = s.msg_
  /\ t.closeTimeoutEvent_ = s.closeTimeoutEvent_ /\ t.sentCloseFlag_ = s.sentCloseFlag_

(* Such a step is a handler that does nothing. *)
LEMMA UntouchedHandled ==
  ASSUME NEW s, NEW t, Running(s), Untouched(s, t)
  PROVE  Handled(s, t) /\ Running(t) /\ (t.hasHeader_ <=> s.hasHeader_)
BY DEF Untouched, Handled, Running, Live, Upright

(* A handler that calls another. *)
LEMMA HandledTwice ==
  ASSUME NEW s, NEW t, NEW u, Handled(s, t), Handled(t, u) PROVE Handled(s, u)
BY DEF Handled

(* Payload of a frame. *)
LEMMA FrameDataHandled ==
  ASSUME NEW s, Running(s), s.hasHeader_, NEW k, NEW reaction \in Reaction,
         NEW badBody \in BOOLEAN
  PROVE  Handled(s, HandleFrameData(s, k, reaction, badBody))
<1> DEFINE t == HandleFrameData(s, k, reaction, badBody)
           counted == [s EXCEPT !.ctrlLen_ = @ + k]
           taken == IF IsControlOpcode(s.wsHeader_.opcode) THEN counted ELSE s
           closed == CloseWithStatus(s)
<1>1. \/ t = [closed EXCEPT !.ctrlLen_ = CtrlMax]
      \/ t = Abort(s, "OnMsgFrameData") /\ ~IsControlOpcode(s.wsHeader_.opcode) /\ ~s.frameData_
      \/ t = HandleFrameEnd(taken, reaction, badBody) \/ t = taken
  BY Zenon DEF HandleFrameData
<1>2. Untouched(s, counted) /\ Untouched(s, s)
  BY Zenon DEF Untouched, Running, Members
<1>3. Untouched(s, taken)
  BY <1>2
<1>4. Handled(s, closed) /\ Running(closed)
  BY CloseStatusHandled
<1> HIDE DEF t, counted, taken, closed
<1>5. Handled(s, taken) /\ Running(taken) /\ taken.hasHeader_
  BY <1>3, UntouchedHandled
<1>6. ASSUME t = [closed EXCEPT !.ctrlLen_ = CtrlMax] PROVE Handled(s, t)
  <2>1. Untouched(closed, t)
    BY <1>4, <1>6 DEF Untouched, Running, Members
  <2> QED  BY <1>4, <2>1, UntouchedHandled, HandledTwice
<1>7. ASSUME t = Abort(s, "OnMsgFrameData"), ~IsControlOpcode(s.wsHeader_.opcode), ~s.frameData_
      PROVE  Handled(s, t)
  <2>1. /\ DOMAIN t = Members /\ t.bev_ = s.bev_ /\ t.connectState_ = s.connectState_
        /\ t.state_ = s.state_ /\ t.aborted = "OnMsgFrameData"
    BY <1>7 DEF Abort, Running, Members
  <2>2. ~Upright(s)
    BY <1>7 DEF Upright
  <2> QED  BY <2>1, <2>2 DEF Handled, Live
<1>8. ASSUME t = HandleFrameEnd(taken, reaction, badBody) PROVE Handled(s, t)
  BY <1>5, <1>8, FrameEndHandled, HandledTwice
<1>9. Handled(s, t)
  BY <1>1, <1>5, <1>6, <1>7, <1>8
<1> QED  BY <1>9 DEF t

(* Payload that is validated first. *)
LEMMA PayloadHandled ==
  ASSUME NEW s, Running(s), s.hasHeader_, NEW k, NEW utf8 \in Utf8, NEW reaction \in Reaction,
         NEW badBody \in BOOLEAN
  PROVE  Handled(s, ReceivePayload(s, k, utf8, reaction, badBody))
<1> DEFINE counted == [s EXCEPT !.recvFrameLen_ = @ + k]
           decoded == [counted EXCEPT !.utf8State_ = utf8]
           checked == IF IsControlOpcode(s.wsHeader_.opcode) THEN counted
                      ELSE IF utf8 = "reject" \/ (utf8 = "partial" /\ s.wsHeader_.fin)
                      THEN CloseWithStatus(decoded)
                      ELSE decoded
<1>1. ReceivePayload(s, k, utf8, reaction, badBody) = HandleFrameData(checked, k, reaction, badBody)
  BY Zenon DEF ReceivePayload
<1>2. Untouched(s, counted)
  BY Zenon DEF Untouched, Running, Members
<1>3. Running(counted)
  BY <1>2, UntouchedHandled
<1> HIDE DEF counted
<1>4. Untouched(counted, decoded)
  BY <1>3 DEF Untouched, Running, Members
<1>5. Untouched(s, decoded)
  BY <1>2, <1>4, Zenon DEF Untouched
<1> HIDE DEF decoded
<1>6. /\ Handled(s, counted) /\ counted.hasHeader_
      /\ Handled(s, decoded) /\ Running(decoded) /\ decoded.hasHeader_
  BY <1>2, <1>5, UntouchedHandled
<1>7. /\ Handled(s, CloseWithStatus(decoded)) /\ Running(CloseWithStatus(decoded))
      /\ CloseWithStatus(decoded).hasHeader_
  BY <1>6, CloseStatusHandled, HandledTwice
<1>8. Handled(s, checked) /\ Running(checked) /\ checked.hasHeader_
  BY <1>3, <1>6, <1>7
<1> HIDE DEF checked
<1> QED  BY <1>1, <1>8, FrameDataHandled, HandledTwice

(* After the handshake, frames are read while the session is CONNECTED or      *)
(* CLOSING.  The first connection begins without a frame and without the      *)
(* timer.                                                                     *)
CheckInv ==
  /\ DOMAIN ws = Members /\ connections \in Nat
  /\ ws.aborted = "SendMsgEx" => loop = "eof" /\ ws.connectState_ # "HANDSHAKE_COMPLETE"
  /\ ws.bev_ = "connected" /\ ws.connectState_ = "HANDSHAKE_COMPLETE" => Live(ws)
  /\ connections = 0 =>
       /\ ws.bev_ = "null" /\ ~ws.hasHeader_
       /\ ~ws.sentCloseFlag_ /\ ws.closeTimeoutEvent_ # "pending"
  /\ connections =< 1 => Upright(ws) /\ (Opening => ~ws.hasHeader_)

(* A callback that is one handler, on a connection. *)
LEMMA HandledStep ==
  ASSUME CheckInv, Handled(ws, ws'), UNCHANGED <<loop, connections>>,
         \/ Live(ws) \/ ws'.aborted # "SendMsgEx"
         \/ loop = "eof" /\ ws.connectState_ # "HANDSHAKE_COMPLETE",
         connections = 0 => ~ws'.sentCloseFlag_ /\ ws'.closeTimeoutEvent_ # "pending"
  PROVE  CheckInv'
BY DEF CheckInv, Handled, Opening

(* A callback that touches none of this. *)
LEMMA UntouchedStep ==
  ASSUME CheckInv, Untouched(ws, ws'), UNCHANGED <<loop, connections>> PROVE CheckInv'
BY DEF CheckInv, Untouched, Opening, Live, Upright

(* Reading frames. *)
LEMMA ReadingChecks ==
  ASSUME CheckInv,
         \/ \E h \in Header, reaction \in Reaction, badBody \in BOOLEAN :
              ReadHeader(h, reaction, badBody)
         \/ ReadBadHeader
         \/ \E k \in 1..MaxLen, utf8 \in Utf8, reaction \in Reaction, badBody \in BOOLEAN :
              ReadPayload(k, utf8, reaction, badBody)
         \/ \E reaction \in Reaction, badBody \in BOOLEAN : ReadFrameEnd(reaction, badBody)
  PROVE  CheckInv'
<1>0. ReadingFrames /\ Running(ws) /\ UNCHANGED <<loop, connections>>
  BY Zenon DEF ReadHeader, ReadBadHeader, ReadPayload, ReadFrameEnd, ReadingFrames, Dispatching,
     AtEof, Turn, CheckInv, Running
<1>1. /\ connections # 0 /\ ~Opening
      /\ Live(ws) \/ (loop = "eof" /\ ws.connectState_ # "HANDSHAKE_COMPLETE")
  BY <1>0 DEF ReadingFrames, AtEof, Opening, CheckInv
<1>2. ASSUME NEW h \in Header, NEW reaction \in Reaction, NEW badBody \in BOOLEAN,
             ReadHeader(h, reaction, badBody)
      PROVE  CheckInv'
  <2> DEFINE read == [ws EXCEPT !.hasHeader_ = TRUE, !.frames = @ + 1, !.wire = h,
                                !.wsHeader_ = UnpackHeader(h)]
             begun == HandleFrameBegin(read)
  <2>1. ws' = HandleFrameEnd(begun, reaction, badBody) \/ ws' = begun
    BY <1>2, Zenon DEF ReadHeader, Turn
  <2>2. /\ DOMAIN read = Members /\ read.bev_ = ws.bev_ /\ read.connectState_ = ws.connectState_
        /\ read.aborted = ws.aborted /\ read.state_ = ws.state_ /\ read.hasHeader_ = TRUE
        /\ read.closeTimeoutEvent_ = ws.closeTimeoutEvent_
        /\ read.sentCloseFlag_ = ws.sentCloseFlag_
    BY <1>0 DEF Running, Members
  <2> HIDE DEF read
  <2>3. /\ DOMAIN begun = Members /\ begun.bev_ = ws.bev_
        /\ begun.connectState_ = ws.connectState_
        /\ begun.aborted = ws.aborted /\ begun.state_ = ws.state_ /\ begun.hasHeader_ = TRUE
        /\ begun.closeTimeoutEvent_ = ws.closeTimeoutEvent_
        /\ begun.sentCloseFlag_ = ws.sentCloseFlag_
        /\ IsControlOpcode(begun.wsHeader_.opcode) \/ (begun.frameData_ /\ begun.msg_)
    BY <2>2 DEF HandleFrameBegin, Members
  <2> HIDE DEF begun
  <2>4. /\ Running(begun) /\ (Live(begun) <=> Live(ws)) /\ (Upright(ws) => Upright(begun))
    BY <1>0, <1>1, <2>3 DEF Running, Live, Upright
  <2>5. ASSUME ws' = begun PROVE CheckInv'
    BY <1>0, <1>1, <2>3, <2>4, <2>5 DEF CheckInv, Opening, Running
  <2>6. ASSUME ws' = HandleFrameEnd(begun, reaction, badBody) PROVE CheckInv'
    <3>1. Handled(begun, ws')
      BY <2>3, <2>4, <2>6, FrameEndHandled
    <3> QED  BY <1>0, <1>1, <2>3, <2>4, <3>1 DEF CheckInv, Opening, Handled
  <2> QED  BY <2>1, <2>5, <2>6
<1>3. CASE ReadBadHeader
  <2> DEFINE closed == CloseWithStatus(ws)
  <2>1. ws' = [closed EXCEPT !.badInput = TRUE]
    BY <1>3 DEF ReadBadHeader, Turn
  <2>2. Handled(ws, closed) /\ Running(closed)
    BY <1>0, CloseStatusHandled
  <2> HIDE DEF closed
  <2>3. Untouched(closed, ws')
    BY <2>1, <2>2 DEF Untouched, Running, Members
  <2>4. Handled(ws, ws')
    BY <2>2, <2>3, UntouchedHandled, HandledTwice
  <2> QED  BY <1>0, <1>1, <2>4, HandledStep
<1>4. ASSUME NEW k \in 1..MaxLen, NEW utf8 \in Utf8, NEW reaction \in Reaction,
             NEW badBody \in BOOLEAN, ReadPayload(k, utf8, reaction, badBody)
      PROVE  CheckInv'
  <2>1. ws' = ReceivePayload(ws, k, utf8, reaction, badBody) /\ ws.hasHeader_
    BY <1>4 DEF ReadPayload, Turn
  <2>2. Handled(ws, ws')
    BY <1>0, <1>1, <2>1, PayloadHandled
  <2> QED  BY <1>0, <1>1, <2>2, HandledStep
<1>5. ASSUME NEW reaction \in Reaction, NEW badBody \in BOOLEAN, ReadFrameEnd(reaction, badBody)
      PROVE  CheckInv'
  <2>1. ws' = HandleFrameEnd(ws, reaction, badBody) /\ ws.hasHeader_
    BY <1>5 DEF ReadFrameEnd, Turn
  <2>2. Handled(ws, ws')
    BY <1>0, <1>1, <2>1, FrameEndHandled
  <2> QED  BY <1>0, <1>1, <2>2, HandledStep
<1> QED  BY <1>2, <1>3, <1>4, <1>5

(* The end of the connection. *)
LEMMA EofChecks == ASSUME CheckInv, OnEofReads \/ OnEofEvent PROVE CheckInv'
<1>1. CASE OnEofReads
  BY <1>1 DEF OnEofReads, Dispatching, Opening, CheckInv
<1>2. CASE OnEofEvent
  <2>1. /\ DOMAIN ws' = Members /\ ws'.bev_ = "null" /\ ws'.aborted = "no"
        /\ ws'.hasHeader_ = ws.hasHeader_
        /\ ws'.wsHeader_ = ws.wsHeader_ /\ ws'.frameData_ = ws.frameData_
        /\ ws'.msg_ = ws.msg_ /\ ws'.closeTimeoutEvent_ = ws.closeTimeoutEvent_
        /\ ws'.sentCloseFlag_ = ws.sentCloseFlag_ /\ UNCHANGED connections
    BY <1>2 DEF OnEofEvent, Dispatching, AtEof, ShutDown, CheckInv, Members
  <2>2. Upright(ws) => Upright(ws')
    BY <2>1 DEF Upright
  <2> QED  BY <2>1, <2>2 DEF CheckInv, Opening
<1> QED  BY <1>1, <1>2

(* The handshake, and the other events. *)
LEMMA OthersCheck ==
  ASSUME CheckInv,
         \/ DoConnect \/ DoClose \/ OnConnectEvent \/ ReadHttpStatus \/ HandshakeError
         \/ \E name \in Required : ReadHttpHeaders(name)
         \/ \E reaction \in Reaction : HandshakeCompletes(reaction)
         \/ OnErrorEvent \/ OnCloseTimeout \/ OnConnectionTimeout
         \/ DispatchReturns \/ DispatchRunsDry
  PROVE  CheckInv'
<1>0. DOMAIN ws = Members
  BY DEF CheckInv
<1>1. CASE DoConnect
  <2>1. /\ DOMAIN ws' = Members /\ ws'.aborted = ws.aborted /\ ws'.bev_ = "connecting"
        /\ ws'.connectState_ = ws.connectState_ /\ ws'.hasHeader_ = ws.hasHeader_
        /\ ws'.closeTimeoutEvent_ = ws.closeTimeoutEvent_ /\ connections' = connections + 1
    BY <1>0, <1>1, Zenon DEF DoConnect, Members
  <2>2. connections \in Nat
    BY DEF CheckInv
  <2>3. ws.aborted = "no"
    BY <1>1 DEF DoConnect, Idle
  <2> QED  BY <2>1, <2>2, <2>3 DEF CheckInv, Upright
<1>2. CASE DoClose
  <2>1. /\ ws' = CloseWithStatusReason(ws, 0) /\ Running(ws)
        /\ UNCHANGED <<loop, connections>>
    BY <1>0, <1>2, Zenon DEF DoClose, Idle, CloseWithStatus, Running
  <2>2. /\ Handled(ws, ws') /\ Running(ws')
        /\ ws.bev_ = "null" /\ ~ws.sentCloseFlag_ =>
             ws'.closeTimeoutEvent_ = "null" /\ ~ws'.sentCloseFlag_
    BY <2>1, CloseHandled
  <2>3. connections = 0 => ~ws'.sentCloseFlag_ /\ ws'.closeTimeoutEvent_ # "pending"
    BY <2>2 DEF CheckInv
  <2> QED  BY <2>1, <2>2, <2>3, HandledStep DEF Running
<1>3. CASE OnConnectEvent \/ ReadHttpStatus
  <2>1. /\ DOMAIN ws' = Members /\ ws'.aborted = ws.aborted /\ ws'.bev_ = "connected"
        /\ ws'.connectState_ \in {"SENT_REQ", "PARSED_STATUS"}
        /\ ws'.hasHeader_ = ws.hasHeader_ /\ UNCHANGED connections
        /\ ws'.closeTimeoutEvent_ = ws.closeTimeoutEvent_
        /\ ws'.sentCloseFlag_ = ws.sentCloseFlag_
        /\ Opening /\ ws.aborted = "no"
    <3>1. CASE OnConnectEvent
      <4> DEFINE up == [ws EXCEPT !.bev_ = "connected"]
      <4>1. /\ ws' = [up EXCEPT !.connectState_ = "SENT_REQ"] /\ ws.bev_ = "connecting"
            /\ UNCHANGED connections /\ Opening /\ ws.aborted = "no"
        BY <3>1 DEF OnConnectEvent, SendHandshake, Callback, Dispatching, Opening
      <4>2. /\ DOMAIN up = Members /\ up.aborted = ws.aborted /\ up.bev_ = "connected"
            /\ up.hasHeader_ = ws.hasHeader_ /\ up.sentCloseFlag_ = ws.sentCloseFlag_
            /\ up.closeTimeoutEvent_ = ws.closeTimeoutEvent_
        BY <1>0 DEF Members
      <4> HIDE DEF up
      <4> QED  BY <4>1, <4>2 DEF Members
    <3>2. CASE ReadHttpStatus
      BY <1>0, <3>2 DEF ReadHttpStatus, Callback, Dispatching, Opening, Members
    <3> QED  BY <1>3, <3>1, <3>2
  <2> QED  BY <2>1 DEF CheckInv, Opening, Upright
<1>4. ASSUME NEW name \in Required, ReadHttpHeaders(name) PROVE CheckInv'
  <2>1. Untouched(ws, ws') /\ UNCHANGED <<loop, connections>>
    BY <1>0, <1>4 DEF ReadHttpHeaders, Callback, Untouched, Members
  <2> QED  BY <2>1, UntouchedStep
<1>5. ASSUME NEW reaction \in Reaction, HandshakeCompletes(reaction) PROVE CheckInv'
  <2> DEFINE done == [ws EXCEPT !.connectState_ = "HANDSHAKE_COMPLETE", !.state_ = "CONNECTED"]
  <2>1. /\ ws' = React(done, reaction) /\ UNCHANGED connections /\ ws.aborted = "no"
        /\ ws.bev_ = "connected" /\ ws.connectState_ = "PARSED_STATUS" /\ loop = "dispatch"
    BY <1>5, Zenon DEF HandshakeCompletes, Callback, Dispatching
  <2>2. /\ DOMAIN done = Members /\ done.bev_ = ws.bev_ /\ done.aborted = ws.aborted
        /\ done.connectState_ = "HANDSHAKE_COMPLETE" /\ done.state_ = "CONNECTED"
        /\ done.hasHeader_ = ws.hasHeader_ /\ done.wsHeader_ = ws.wsHeader_
        /\ done.closeTimeoutEvent_ = ws.closeTimeoutEvent_
        /\ done.sentCloseFlag_ = ws.sentCloseFlag_
    BY <1>0 DEF Members
  <2> HIDE DEF done
  <2>3. Running(done) /\ Live(done)
    BY <2>1, <2>2 DEF Running, Live
  <2>4. /\ DOMAIN ws' = Members /\ ws'.bev_ = ws.bev_ /\ ws'.connectState_ = "HANDSHAKE_COMPLETE"
        /\ ws'.aborted = "no" /\ Live(ws') /\ (~ws.hasHeader_ /\ Upright(done) => Upright(ws'))
    BY <2>1, <2>2, <2>3, ReactHandled
  <2>5. connections =< 1 => ~ws.hasHeader_ /\ Upright(done)
    BY <2>1, <2>2 DEF CheckInv, Opening, Upright
  <2>6. connections # 0
    BY <2>1 DEF CheckInv
  <2> QED  BY <2>1, <2>4, <2>5, <2>6 DEF CheckInv, Opening
<1>6. CASE HandshakeError \/ OnErrorEvent \/ OnCloseTimeout
  <2>1. /\ DOMAIN ws' = Members /\ ws'.connectState_ = ws.connectState_
        /\ ws'.bev_ \in {"null", "failed"} \/ ws'.aborted = "OnCloseTimeout"
        /\ ws'.bev_ # "connecting" \/ ws'.bev_ = ws.bev_
        /\ ws'.state_ = ws.state_ /\ ws'.hasHeader_ = ws.hasHeader_
        /\ ws'.wsHeader_ = ws.wsHeader_ /\ ws'.frameData_ = ws.frameData_ /\ ws'.msg_ = ws.msg_
        /\ ws'.sentCloseFlag_ = ws.sentCloseFlag_
        /\ ws'.closeTimeoutEvent_ \in {ws.closeTimeoutEvent_, "fired"}
        /\ ws'.bev_ \in {ws.bev_, "null", "failed"}
        /\ \/ ws'.aborted \in {ws.aborted, "ReadWebsocket"}
           \/ /\ ws'.aborted = "OnCloseTimeout" /\ ~ws.sentCloseFlag_
              /\ ws.closeTimeoutEvent_ = "pending"
        /\ ws'.bev_ = "failed" => ws.bev_ # "null"
        /\ ws.aborted = "no" /\ UNCHANGED <<loop, connections>>
    <3>1. CASE HandshakeError
      BY <1>0, <3>1 DEF HandshakeError, ShutDown, Abort, Callback, Dispatching, Members
    <3>2. CASE OnErrorEvent
      BY <1>0, <3>2 DEF OnErrorEvent, Callback, Dispatching, Members
    <3>3. CASE OnCloseTimeout
      BY <1>0, <3>3 DEF OnCloseTimeout, ShutDown, Abort, Callback, Dispatching, Members
    <3> QED  BY <1>6, <3>1, <3>2, <3>3
  <2>2. connections =< 1 => Upright(ws')
    BY <2>1 DEF CheckInv, Upright
  <2> QED  BY <2>1, <2>2 DEF CheckInv, Opening, Live
<1>7. CASE OnConnectionTimeout
  <2>1. Untouched(ws, ws') /\ UNCHANGED <<loop, connections>>
    BY <1>0, <1>7 DEF OnConnectionTimeout, Callback, Untouched, Members
  <2> QED  BY <2>1, UntouchedStep
<1>8. CASE DispatchReturns \/ DispatchRunsDry
  BY <1>8 DEF DispatchReturns, DispatchRunsDry, Dispatching, CheckInv, Opening
<1> QED  BY <1>1, <1>2, <1>3, <1>4, <1>5, <1>6, <1>7, <1>8

(* Whatever server and application do, in any order: SendMsgEx meets a         *)
(* session that is not CONNECTED only in a message that OnEofEvent finds in an *)
(* incomplete HTTP reply, and on the first connection neither the close        *)
(* timeout nor a frame meets the state its check or pointer rules out.         *)
THEOREM ChecksNeverFail == Spec => []ChecksHold
<1>1. Init => CheckInv
  <2> SUFFICES ASSUME Init PROVE CheckInv
    OBVIOUS
  <2>1. DOMAIN ws = Members
    BY Zenon DEF Init, Members
  <2>2. /\ ws.aborted = "no" /\ ws.bev_ = "null" /\ ws.connectState_ = "NONE"
        /\ ws.sentCloseFlag_ = FALSE /\ ws.closeTimeoutEvent_ = "null"
        /\ ws.hasHeader_ = FALSE /\ connections = 0
    BY DEF Init
  <2> QED  BY <2>1, <2>2 DEF CheckInv, Upright, Opening
<1>2. CheckInv /\ [Next]_vars => CheckInv'
  <2> SUFFICES ASSUME CheckInv, [Next]_vars PROVE CheckInv'
    OBVIOUS
  <2>1. CASE UNCHANGED vars
    BY <2>1 DEF vars, CheckInv, Opening
  <2> QED  BY <2>1, ReadingChecks, EofChecks, OthersCheck DEF Next
<1>3. CheckInv /\ TypeOK => ChecksHold
  BY WsSessionAssumption DEF CheckInv, Upright, TypeOK, ChecksHold
<1> QED  BY <1>1, <1>2, <1>3, TypeCorrect, PTL DEF Spec

-----------------------------------------------------------------------------
(* Frame headers.  The fields of WSHeader; a header without a mask has four   *)
(* zeros there.                                                               *)
Byte == 0..255
Mask == [1..4 -> Byte]

WSHeaders ==
  [fin : 0..1, rsv1 : 0..1, rsv2 : 0..1, rsv3 : 0..1, opcode : 0..15, maskBit : 0..1,
   payloadLen : 0..127, mask : Mask]

(* The five fields of the first byte of a header. *)
FirstFields(x, h) ==
  /\ x \div 128 = h.fin /\ (x \div 64) % 2 = h.rsv1 /\ (x \div 32) % 2 = h.rsv2
  /\ (x \div 16) % 2 = h.rsv3 /\ x % 16 = h.opcode

(* The bytes of a header: the first one, those of the length, those of the    *)
(* mask.                                                                      *)
Parts(b, x, len, m) ==
  /\ b \in Seq(Byte) /\ Len(b) = 1 + Len(len) + Len(m) /\ b[1] = x
  /\ \A i \in 1..Len(len) : b[1 + i] = len[i]
  /\ \A i \in 1..Len(m) : b[1 + Len(len) + i] = m[i]

LEMMA HeaderBytes ==
  ASSUME NEW x \in Byte, NEW len \in Seq(Byte), NEW m \in Seq(Byte)
  PROVE  Parts(<<x>> \o (len \o m), x, len, m)
<1> DEFINE b == <<x>> \o (len \o m)
<1>1. /\ len \o m \in Seq(Byte) /\ Len(len \o m) = Len(len) + Len(m)
      /\ \A i \in 1..(Len(len) + Len(m)) : (len \o m)[i] = IF i <= Len(len) THEN len[i] ELSE m[i - Len(len)]
  BY ConcatProperties
<1>2. <<x>> \in Seq(Byte) /\ Len(<<x>>) = 1 /\ <<x>>[1] = x
  OBVIOUS
<1> DEFINE r == len \o m
<1> HIDE DEF r
<1>3. /\ b \in Seq(Byte) /\ Len(b) = 1 + Len(r)
      /\ \A i \in 1..(1 + Len(r)) : b[i] = IF i <= 1 THEN <<x>>[i] ELSE r[i - 1]
  BY <1>1, <1>2, ConcatProperties DEF r
<1> HIDE DEF b
<1>4. Len(len) \in Nat /\ Len(m) \in Nat
  BY LenProperties
<1>5. \A i \in 1..Len(len) : b[1 + i] = r[i] /\ r[i] = len[i]
  BY <1>1, <1>3, <1>4 DEF r
<1>6. \A i \in 1..Len(m) : b[1 + Len(len) + i] = r[Len(len) + i] /\ r[Len(len) + i] = m[i]
  BY <1>1, <1>3, <1>4 DEF r
<1>7. Parts(b, x, len, m)
  BY <1>1, <1>2, <1>3, <1>4, <1>5, <1>6 DEF Parts, r
<1> QED  BY <1>7 DEF b

(* A mask is a sequence of four bytes. *)
LEMMA FourBytes == ASSUME NEW m \in Mask PROVE m \in Seq(Byte) /\ Len(m) = 4
<1>1. Mask \in {[1..n -> Byte] : n \in Nat}
  BY Zenon DEF Mask
<1>2. m \in Seq(Byte)
  BY <1>1, SeqDef
<1>3. DOMAIN m = 1..4 /\ Len(m) \in Nat /\ DOMAIN m = 1..Len(m)
  BY <1>2, LenProperties, Zenon DEF Mask
<1> QED  BY <1>2, <1>3

(* Four bytes at the end of a buffer. *)
LEMMA MaskAt ==
  ASSUME NEW b, NEW k \in Nat, NEW m \in Mask, \A i \in 1..4 : b[k + i] = m[i]
  PROVE  SubSeq(b, k + 1, k + 4) = m
<1>1. m \in Seq(Byte) /\ Len(m) = 4
  BY FourBytes
<1>2. \A i \in (k + 1)..(k + 4) : b[i] \in Byte
  <2> TAKE i \in (k + 1)..(k + 4)
  <2>1. i - k \in 1..4 /\ k + (i - k) = i
    OBVIOUS
  <2> QED  BY <2>1 DEF Mask
<1>3. /\ SubSeq(b, k + 1, k + 4) \in Seq(Byte)
      /\ Len(SubSeq(b, k + 1, k + 4)) = 4
      /\ \A i \in 1..4 : SubSeq(b, k + 1, k + 4)[i] = b[k + i]
  <2>1. k + 1 \in Int /\ k + 4 \in Int /\ (k + 4) - (k + 1) + 1 = 4 /\ k + 1 <= k + 4
    OBVIOUS
  <2>2. /\ SubSeq(b, k + 1, k + 4) \in Seq(Byte)
        /\ Len(SubSeq(b, k + 1, k + 4)) = IF k + 1 <= k + 4 THEN (k + 4) - (k + 1) + 1 ELSE 0
        /\ \A i \in 1..((k + 4) - (k + 1) + 1) : SubSeq(b, k + 1, k + 4)[i] = b[(k + 1) + i - 1]
    BY <1>2, <2>1, SubSeqProperties
  <2> QED  BY <2>1, <2>2
<1> QED  BY <1>1, <1>3, SeqEqual

(* A buffer whose length takes up k bytes, and what UnpackHeader reads in it. *)
Layout(b, x, y, k, n, mask) ==
  /\ b[1] = x /\ b[2] = y /\ Len(b) \in Nat /\ Len(b) >= 1 + k
  /\ y >= 128 => \A i \in 1..4 : b[(1 + k) + i] = mask[i]
  /\ y < 128 => mask = <<0, 0, 0, 0>>
  /\ \/ k = 1 /\ y % 128 = n /\ n <= 125
     \/ k = 3 /\ y % 128 = 126 /\ b[4] = n

Fields(x, y, n, mask) ==
  [fin |-> x \div 128, rsv1 |-> (x \div 64) % 2, rsv2 |-> (x \div 32) % 2,
   rsv3 |-> (x \div 16) % 2, opcode |-> x % 16, maskBit |-> y \div 128,
   payloadLen |-> n, mask |-> mask]

LEMMA UnpackBytes ==
  ASSUME NEW b, NEW x \in Byte, NEW y \in Byte, NEW k \in {1, 3}, NEW n \in 0..127,
         NEW mask \in Mask, Layout(b, x, y, k, n, mask)
  PROVE  Uv!UnpackHeader(b) = Fields(x, y, n, mask)
<1> USE DEF Layout
<1> DEFINE e == Uv!ExtraBytes(b[2] % 128)
           p == IF e = 0 THEN b[2] % 128 ELSE Uv!PayloadLen(b[2 + e])
           q == IF b[2] >= 128 THEN SubSeq(b, 3 + e, 6 + e) ELSE <<0, 0, 0, 0>>
<1>1. e = k - 1
  <2>1. CASE k = 1 /\ y % 128 = n /\ n <= 125
    BY <2>1 DEF Uv!ExtraBytes
  <2>2. CASE k = 3 /\ y % 128 = 126
    BY <2>2 DEF Uv!ExtraBytes
  <2> QED  BY <2>1, <2>2
<1> HIDE DEF e
<1>2. p = n
  <2>1. n % 128 = n
    BY ONLY n \in 0..127
  <2>2. CASE k = 1
    BY <1>1, <2>2
  <2>3. CASE k = 3
    <3>1. b[2 + e] = n
      BY <1>1, <2>3
    <3> QED  BY <1>1, <2>1, <2>3, <3>1 DEF Uv!PayloadLen
  <2> QED  BY <2>2, <2>3
<1>3. q = mask
  <2>1. y >= 128 => SubSeq(b, (1 + k) + 1, (1 + k) + 4) = mask
    <3> HAVE y >= 128
    <3>1. 1 + k \in Nat /\ \A i \in 1..4 : b[(1 + k) + i] = mask[i]
      BY DEF Byte
    <3> QED  BY ONLY <3>1, mask \in Mask, MaskAt
  <2>2. (1 + k) + 1 = 3 + e /\ (1 + k) + 4 = 6 + e
    BY <1>1
  <2>3. CASE y >= 128
    BY <2>1, <2>2, <2>3, Zenon
  <2>4. CASE y < 128
    BY <2>4 DEF Byte
  <2> QED  BY <2>3, <2>4 DEF Byte
<1>4. ~(Len(b) < 2 \/ Len(b) < 2 + e)
  BY <1>1
<1>5. Uv!UnpackHeader(b) =
        IF Len(b) < 2 \/ Len(b) < 2 + e THEN Uv!NEED_MORE
        ELSE [fin |-> b[1] \div 128, rsv1 |-> (b[1] \div 64) % 2, rsv2 |-> (b[1] \div 32) % 2,
              rsv3 |-> (b[1] \div 16) % 2, opcode |-> b[1] % 16, maskBit |-> b[2] \div 128,
              payloadLen |-> p, mask |-> q]
  BY ONLY TRUE DEF Uv!UnpackHeader, e
<1> HIDE DEF p, q
<1>6. b[1] = x /\ b[2] = y
  OBVIOUS
<1> QED  BY ONLY <1>2, <1>3, <1>4, <1>5, <1>6 DEF Fields

(* What PackHeader writes for a length: k bytes, of which y is the first. *)
IsLength(len, y, k, maskBit, n) ==
  /\ y \div 128 = maskBit /\ (y >= 128 <=> maskBit = 1)
  /\ len \in Seq(Byte) /\ Len(len) = k /\ len[1] = y
  /\ \/ k = 1 /\ y % 128 = n /\ n <= 125
     \/ k = 3 /\ y % 128 = 126 /\ len[3] = n

LEMMA LengthBytesAre ==
  ASSUME NEW h, h.maskBit \in 0..1, h.payloadLen \in 0..127
  PROVE  \E y \in Byte, k \in {1, 3} : IsLength(Uv!LengthBytes(h), y, k, h.maskBit, h.payloadLen)
<1>1. PICK maskBit \in 0..1, n \in 0..127 : maskBit = h.maskBit /\ n = h.payloadLen
  OBVIOUS
<1>2. CASE n <= 125
  <2>1. Uv!LengthBytes(h) = <<128 * maskBit + n>>
    BY ONLY <1>1, <1>2 DEF Uv!LengthBytes
  <2>2. PICK y \in Byte : y = 128 * maskBit + n
    BY ONLY maskBit \in 0..1, n \in 0..127 DEF Byte
  <2>3. y \div 128 = maskBit /\ (y >= 128 <=> maskBit = 1) /\ y % 128 = n
    BY ONLY maskBit \in 0..1, n \in 0..127, <2>2
  <2>4. <<y>> \in Seq(Byte) /\ Len(<<y>>) = 1 /\ <<y>>[1] = y
    BY ONLY y \in Byte
  <2>5. IsLength(<<y>>, y, 1, maskBit, n)
    BY ONLY <1>2, <2>3, <2>4 DEF IsLength
  <2> QED  BY ONLY y \in Byte, <1>1, <2>1, <2>2, <2>5
<1>3. CASE ~(n <= 125)
  <2>0. n <= 65535
    BY ONLY n \in 0..127
  <2>1. Uv!LengthBytes(h) = <<128 * maskBit + 126, n \div 256, n % 256>>
    BY ONLY <1>1, <1>3, <2>0 DEF Uv!LengthBytes
  <2>2. PICK y \in Byte : y = 128 * maskBit + 126
    BY ONLY maskBit \in 0..1 DEF Byte
  <2>3. y \div 128 = maskBit /\ (y >= 128 <=> maskBit = 1) /\ y % 128 = 126
    BY ONLY maskBit \in 0..1, <2>2
  <2>4. PICK z \in Byte : z = n \div 256
    BY ONLY n \in 0..127 DEF Byte
  <2>5. n % 256 = n
    BY ONLY n \in 0..127
  <2>6. <<y, z, n>> \in Seq(Byte) /\ Len(<<y, z, n>>) = 3 /\ <<y, z, n>>[1] = y /\ <<y, z, n>>[3] = n
    BY ONLY y \in Byte, z \in Byte, n \in 0..127 DEF Byte
  <2>7. IsLength(<<y, z, n>>, y, 3, maskBit, n)
    BY ONLY <2>3, <2>6 DEF IsLength
  <2>8. Uv!LengthBytes(h) = <<y, z, n>>
    BY ONLY <2>1, <2>2, <2>4, <2>5, Zenon
  <2> QED  BY ONLY y \in Byte, <1>1, <2>7, <2>8, Zenon
<1> QED  BY ONLY <1>2, <1>3

(* UnpackHeader reads what PackHeader writes: every field of every header,    *)
(* with a length in the second byte or in two more, with and without a mask.  *)
THEOREM HeaderRoundTrip ==
  ASSUME NEW h \in WSHeaders, h.maskBit = 0 => h.mask = <<0, 0, 0, 0>>
  PROVE  Uv!UnpackHeader(Uv!PackHeader(h)) = h
<1>1. /\ h.fin \in 0..1 /\ h.rsv1 \in 0..1 /\ h.rsv2 \in 0..1 /\ h.rsv3 \in 0..1 /\ h.opcode \in 0..15
      /\ h.maskBit \in 0..1 /\ h.payloadLen \in 0..127 /\ h.mask \in Mask
  BY DEF WSHeaders
<1>2. h = [fin |-> h.fin, rsv1 |-> h.rsv1, rsv2 |-> h.rsv2, rsv3 |-> h.rsv3, opcode |-> h.opcode,
           maskBit |-> h.maskBit, payloadLen |-> h.payloadLen, mask |-> h.mask]
  BY DEF WSHeaders
<1>3. PICK x \in Byte : x = Uv!PackHeaderFirstByte(h) /\ FirstFields(x, h)
  <2>1. PICK fin \in 0..1, rsv1 \in 0..1, rsv2 \in 0..1, rsv3 \in 0..1, opcode \in 0..15 :
          /\ fin = h.fin /\ rsv1 = h.rsv1 /\ rsv2 = h.rsv2 /\ rsv3 = h.rsv3 /\ opcode = h.opcode
    BY ONLY <1>1
  <2> DEFINE x == 128 * fin + 64 * rsv1 + 32 * rsv2 + 16 * rsv3 + (opcode % 16)
  <2>2. /\ x \in Byte
        /\ x \div 128 = fin /\ (x \div 64) % 2 = rsv1 /\ (x \div 32) % 2 = rsv2
        /\ (x \div 16) % 2 = rsv3 /\ x % 16 = opcode
    BY ONLY fin \in 0..1, rsv1 \in 0..1, rsv2 \in 0..1, rsv3 \in 0..1, opcode \in 0..15, SMTT(20) DEF Byte
  <2>3. x = Uv!PackHeaderFirstByte(h)
    BY ONLY <2>1 DEF Uv!PackHeaderFirstByte
  <2> HIDE DEF x
  <2>4. FirstFields(x, h)
    BY ONLY <2>1, <2>2 DEF FirstFields
  <2> QED  BY ONLY <2>2, <2>3, <2>4
<1>4. PICK y \in Byte, k \in {1, 3} : IsLength(Uv!LengthBytes(h), y, k, h.maskBit, h.payloadLen)
  BY ONLY <1>1, LengthBytesAre
<1> DEFINE len == Uv!LengthBytes(h)
           m == Uv!MaskBytes(h)
           b == Uv!PackHeader(h)
<1> HIDE DEF len, m, b
<1>5. IsLength(len, y, k, h.maskBit, h.payloadLen)
  BY ONLY <1>4 DEF len
<1>6. m \in Seq(Byte) /\ (h.maskBit = 1 => m = h.mask /\ Len(m) = 4)
  <2>1. CASE h.maskBit = 1
    <3>1. m = h.mask
      BY ONLY <2>1 DEF m, Uv!MaskBytes
    <3> QED  BY ONLY <1>1, <3>1, FourBytes
  <2>2. CASE h.maskBit # 1
    <3>1. m = <<>>
      BY ONLY <2>2 DEF m, Uv!MaskBytes
    <3> QED  BY ONLY <2>2, <3>1
  <2> QED  BY ONLY <2>1, <2>2
<1>7. Parts(b, x, len, m)
  <2>1. b = <<x>> \o (len \o m)
    BY ONLY <1>3 DEF Uv!PackHeader, Uv!PackHeaderRest, len, m, b
  <2>2. len \in Seq(Byte)
    BY ONLY <1>5 DEF IsLength
  <2>3. Parts(<<x>> \o (len \o m), x, len, m)
    BY ONLY x \in Byte, <1>6, <2>2, HeaderBytes
  <2> QED  BY ONLY <2>1, <2>3
<1>8. Layout(b, x, y, k, h.payloadLen, h.mask)
  <2> USE k \in {1, 3}
  <2>1. Len(len) = k /\ Len(m) \in Nat
    BY ONLY <1>5, <1>6, LenProperties DEF IsLength
  <2>2. b[1 + 1] = len[1] /\ (k = 3 => b[1 + 3] = len[3])
    <3>1. 1 \in 1..Len(len) /\ (k = 3 => 3 \in 1..Len(len))
      BY ONLY <2>1, k \in {1, 3}
    <3> QED  BY ONLY <1>7, <3>1, Zenon DEF Parts
  <2>3. b[1] = x /\ b[2] = y /\ Len(b) \in Nat /\ Len(b) >= 1 + k
    BY ONLY <1>5, <1>7, <2>1, <2>2 DEF Parts, IsLength
  <2>4. y >= 128 => \A i \in 1..4 : b[(1 + k) + i] = h.mask[i]
    BY ONLY <1>5, <1>6, <1>7, <2>1 DEF Parts, IsLength
  <2>5. y < 128 => h.mask = <<0, 0, 0, 0>>
    <3> HAVE y < 128
    <3>1. h.maskBit = 0
      BY ONLY <1>1, <1>5, y \in Byte, y < 128 DEF IsLength, Byte
    <3> QED  BY <3>1
  <2>6. \/ k = 1 /\ y % 128 = h.payloadLen /\ h.payloadLen <= 125
        \/ k = 3 /\ y % 128 = 126 /\ b[4] = h.payloadLen
    BY ONLY <1>5, <2>2 DEF IsLength
  <2> QED  BY ONLY <2>3, <2>4, <2>5, <2>6 DEF Layout
<1>9. Uv!UnpackHeader(b) = Fields(x, y, h.payloadLen, h.mask)
  BY ONLY <1>1, x \in Byte, y \in Byte, k \in {1, 3}, <1>8, UnpackBytes
<1>10. y \div 128 = h.maskBit
  BY ONLY <1>5 DEF IsLength
<1> QED  BY ONLY <1>2, <1>3, <1>9, <1>10 DEF b, Fields, FirstFields

-----------------------------------------------------------------------------
(* A step of the client leaves the variables of the libuv client to it. *)
LEMMA ClientSimulatesUv ==
  ASSUME [ClientNext]_<<impl_, vars, uvVars, textVars>>
  PROVE  [Uv!UvNext]_uvVars
BY DEF ClientNext

(* What the libuv client may write.  A header whose write is queued is gone   *)
(* by the time it is sent.                                                    *)
Request == [kind |-> "request", bytes |-> <<>>]
Frame(len, mask, bytes) == [kind |-> "frame", bytes |-> bytes, len |-> len, mask |-> mask]
Packed(len, mask) == Uv!PackHeader(Uv!TextHeader(len, mask))
Frames == {Frame(len, mask, <<>>) : len \in Lengths, mask \in Masks}
            \cup {Frame(len, mask, Packed(len, mask)) : len \in Lengths, mask \in Masks}

WellWritten(w) ==
  /\ w \in Seq({Request} \cup Frames)
  /\ \A i \in 1..Len(w) : w[i] \in IF i = 1 THEN {Request} ELSE Frames

(* The inductive invariant of the libuv client.  The request is the first     *)
(* thing that is written on a connection, because nothing can be queued       *)
(* before a connection is open, and nothing is sent before the reply.         *)
UvInv ==
  /\ WellWritten(written)
  /\ uvSocket \in {"none", "resolving", "connecting"} => written = <<>>
  /\ uvSocket = "open" => written # <<>>
  /\ write_ = "queued" => uvSocket = "open" /\ uvLoop # "idle"

(* Nothing is written yet. *)
LEMMA EmptyWellWritten == WellWritten(<<>>)
<1>1. <<>> \in Seq({Request} \cup Frames) /\ Len(<<>>) = 0
  OBVIOUS
<1> QED  BY <1>1 DEF WellWritten

(* One more item. *)
LEMMA AppendWellWritten ==
  ASSUME NEW w, WellWritten(w), NEW item, item \in IF w = <<>> THEN {Request} ELSE Frames
  PROVE  WellWritten(Append(w, item)) /\ Append(w, item) # <<>>
<1> DEFINE S == {Request} \cup Frames
<1>1. w \in Seq(S) /\ item \in S
  BY DEF WellWritten
<1> HIDE DEF S
<1>2. /\ Append(w, item) \in Seq(S) /\ Len(Append(w, item)) = Len(w) + 1 /\ Len(w) \in Nat
      /\ \A i \in 1..Len(w) : Append(w, item)[i] = w[i]
      /\ Append(w, item)[Len(w) + 1] = item
  BY <1>1, AppendProperties, LenProperties
<1>3. w = <<>> <=> Len(w) = 0
  BY <1>1, EmptySeq
<1>4. ASSUME NEW i \in 1..(Len(w) + 1)
      PROVE  Append(w, item)[i] \in IF i = 1 THEN {Request} ELSE Frames
  <2>1. CASE i \in 1..Len(w)
    BY <1>2, <2>1 DEF WellWritten
  <2>2. CASE i = Len(w) + 1
    BY <1>2, <1>3, <2>2
  <2> QED  BY <1>2, <2>1, <2>2
<1>5. Append(w, item) # <<>>
  BY <1>2
<1> QED  BY <1>2, <1>4, <1>5 DEF WellWritten, S

(* Write, when the item is one that may come next. *)
LEMMA WriteKeeps ==
  ASSUME NEW item, NEW onStack, NEW atOnce, UvInv, uvLoop = "running", Uv!Write(item, onStack, atOnce),
         item \in IF written = <<>> THEN {Request} ELSE Frames,
         onStack => [item EXCEPT !.bytes = <<>>] \in IF written = <<>> THEN {Request} ELSE Frames,
         uvSocket' = "open", written # <<>> \/ write_ # "queued"
  PROVE  UvInv'
<1>1. CASE write_ = "queued"
  BY <1>1 DEF Uv!Write, UvInv
<1>2. CASE write_ # "queued"
  <2>1. PICK it \in IF written = <<>> THEN {Request} ELSE Frames : written' = Append(written, it)
    BY <1>2 DEF Uv!Write
  <2>2. WellWritten(written') /\ written' # <<>>
    BY <2>1, AppendWellWritten DEF UvInv
  <2>3. uvLoop' = uvLoop
    BY <1>2 DEF Uv!Write
  <2> QED  BY <2>2, <2>3 DEF UvInv
<1> QED  BY <1>1, <1>2

(* Every step of the libuv client preserves it. *)
LEMMA UvInductive == ASSUME UvInv, [Uv!UvNext]_uvVars PROVE UvInv'
<1>1. CASE UNCHANGED uvVars
  BY <1>1 DEF UvInv, uvVars
<1>2. CASE Uv!UvSetHandler
  BY <1>2 DEF UvInv, Uv!UvSetHandler
<1>3. CASE Uv!UvDoConnect
  BY <1>3, EmptyWellWritten DEF UvInv, Uv!UvDoConnect
<1>4. ASSUME NEW found \in BOOLEAN, Uv!UvOnResolved(found) PROVE UvInv'
  BY <1>4 DEF UvInv, Uv!UvOnResolved
<1>5. ASSUME NEW connected \in BOOLEAN, NEW atOnce \in BOOLEAN, Uv!UvOnConnect(connected, atOnce)
      PROVE  UvInv'
  <2>1. CASE connected
    <3>1. /\ uvLoop = "running" /\ uvSocket' = "open" /\ written = <<>> /\ write_ # "queued"
          /\ Uv!Write(Request, FALSE, atOnce)
      BY <1>5, <2>1, Zenon DEF UvInv, Uv!UvOnConnect, Uv!UvRunning, Uv!DoHandshake, Request
    <3> QED  BY <3>1, WriteKeeps, Zenon
  <2>2. CASE ~connected
    BY <1>5, <2>2 DEF UvInv, Uv!UvOnConnect
  <2> QED  BY <2>1, <2>2
<1>6. ASSUME NEW sends \in BOOLEAN, NEW atOnce \in BOOLEAN, NEW len \in Lengths, NEW mask \in Masks,
             Uv!UvOnRead(sends, len, mask, atOnce)
      PROVE  UvInv'
  <2>0. /\ uvLoop = "running" /\ uvSocket = "open" /\ uvSocket' = "open" /\ written # <<>>
        /\ Uv!ConnectHandler(sends, len, mask, atOnce)
    BY <1>6 DEF UvInv, Uv!UvOnRead, Uv!UvRunning
  <2>1. CASE connect_handler_ /\ sends
    <3> DEFINE item == Frame(len, mask, Packed(len, mask))
    <3>1. Uv!Write(item, TRUE, atOnce)
      BY <2>0, <2>1, Zenon DEF Uv!ConnectHandler, Uv!SendFrameRaw, Frame, Packed
    <3>2. item \in Frames /\ Frame(len, mask, <<>>) \in Frames
      BY DEF Frames
    <3>3. [item EXCEPT !.bytes = <<>>] = Frame(len, mask, <<>>)
      BY DEF Frame
    <3> HIDE DEF item
    <3> QED  BY <2>0, <3>1, <3>2, <3>3, WriteKeeps, Zenon
  <2>2. CASE ~(connect_handler_ /\ sends)
    <3>1. UNCHANGED <<uvLoop, write_, written>>
      BY <2>0, <2>2, Zenon DEF Uv!ConnectHandler
    <3> QED  BY <2>0, <3>1 DEF UvInv
  <2> QED  BY <2>1, <2>2
<1>7. CASE Uv!UvOnReadRest
  BY <1>7 DEF UvInv, Uv!UvOnReadRest
<1>8. CASE Uv!UvOnReadEnd
  BY <1>8 DEF UvInv, Uv!UvOnReadEnd
<1>9. CASE Uv!OnWrite
  BY <1>9 DEF UvInv, Uv!OnWrite
<1>10. CASE Uv!UvDoSendMsg
  BY <1>10 DEF UvInv, Uv!UvDoSendMsg
<1>11. CASE Uv!UvReturns
  BY <1>11 DEF UvInv, Uv!UvReturns
<1> QED
  BY <1>1, <1>2, <1>3, <1>4, <1>5, <1>6, <1>7, <1>8, <1>9, <1>10, <1>11 DEF Uv!UvNext

(* A text frame's header is one that packs and unpacks. *)
LEMMA TextHeaderUnpacks ==
  ASSUME NEW len \in Lengths, NEW mask \in Masks
  PROVE  /\ Uv!UnpackHeader(Packed(len, mask)) = Uv!TextHeader(len, mask)
         /\ len <= 127 => Uv!TextHeader(len, mask).payloadLen = len
<1>1. len \in Nat /\ mask \in Mask
  BY WsClientAssumption DEF Mask, Byte
<1>2. len % 128 \in 0..127 /\ (len <= 127 => len % 128 = len)
  BY ONLY <1>1
<1>3. Uv!TextHeader(len, mask) \in WSHeaders /\ Uv!TextHeader(len, mask).maskBit = 1
  BY <1>1, <1>2, SMTT(20) DEF WSHeaders, Uv!TextHeader, Uv!PayloadLen
<1>4. Uv!UnpackHeader(Packed(len, mask)) = Uv!TextHeader(len, mask)
  BY <1>3, HeaderRoundTrip DEF Packed
<1> QED  BY <1>2, <1>4 DEF Uv!TextHeader, Uv!PayloadLen

(* Whatever lengths and masks the messages have, and however libuv takes the  *)
(* writes: the request comes first, and every header that is sent at once     *)
(* reads as the text frame that it was made from.                             *)
THEOREM HeadersUnpack == ClientSpec => []HeadersDecode
<1>1. ClientInit => UvInv
  BY EmptyWellWritten DEF ClientInit, Uv!UvInit, UvInv
<1>2. UvInv /\ [ClientNext]_<<impl_, vars, uvVars, textVars>> => UvInv'
  BY UvInductive, ClientSimulatesUv
<1>3. ASSUME UvInv PROVE HeadersDecode
  <2>1. DOMAIN written = 1..Len(written)
    BY <1>3, LenProperties DEF UvInv, WellWritten
  <2>2. ASSUME NEW i \in 1..Len(written)
        PROVE  /\ written[i].kind = "request" <=> i = 1
               /\ written[i].kind = "frame" /\ written[i].bytes # <<>> =>
                    /\ Uv!UnpackHeader(written[i].bytes) = Uv!TextHeader(written[i].len, written[i].mask)
                    /\ written[i].len <= 127 =>
                         Uv!UnpackHeader(written[i].bytes).payloadLen = written[i].len
    <3>1. CASE i = 1
      <4>1. written[i] = Request
        BY ONLY <1>3, <2>2, <3>1, Zenon DEF UvInv, WellWritten
      <4>2. written[i].kind = "request"
        BY ONLY <4>1 DEF Request
      <4> QED  BY ONLY <3>1, <4>2
    <3>2. CASE i # 1
      <4>1. PICK len \in Lengths, mask \in Masks :
              \/ written[i] = Frame(len, mask, <<>>) \/ written[i] = Frame(len, mask, Packed(len, mask))
        <5>1. written[i] \in Frames
          BY <1>3, <3>2 DEF UvInv, WellWritten
        <5>2. \/ \E len \in Lengths, mask \in Masks : written[i] = Frame(len, mask, <<>>)
              \/ \E len \in Lengths, mask \in Masks : written[i] = Frame(len, mask, Packed(len, mask))
          BY ONLY <5>1 DEF Frames
        <5> QED  BY ONLY <5>2
      <4>2. CASE written[i] = Frame(len, mask, <<>>)
        <5>1. written[i].kind = "frame" /\ written[i].bytes = <<>>
          BY ONLY <4>2 DEF Frame
        <5> QED  BY ONLY <3>2, <5>1
      <4>3. CASE written[i] = Frame(len, mask, Packed(len, mask))
        <5>1. /\ written[i].kind = "frame" /\ written[i].bytes = Packed(len, mask)
              /\ written[i].len = len /\ written[i].mask = mask
          BY ONLY <4>3 DEF Frame
        <5>2. /\ Uv!UnpackHeader(Packed(len, mask)) = Uv!TextHeader(len, mask)
              /\ len <= 127 => Uv!UnpackHeader(Packed(len, mask)).payloadLen = len
          BY ONLY <4>1, TextHeaderUnpacks, Zenon
        <5>3. written[i].kind # "request"
          BY ONLY <5>1
        <5> QED  BY ONLY <3>2, <5>1, <5>2, <5>3, Zenon
      <4> QED  BY <4>1, <4>2, <4>3
    <3> QED  BY <3>1, <3>2
  <2>3. Uv!HeadersDecode
    BY <2>1, <2>2 DEF Uv!HeadersDecode
  <2> QED  BY <2>3 DEF HeadersDecode
<1> QED  BY <1>1, <1>2, <1>3, PTL DEF ClientSpec

-----------------------------------------------------------------------------
(* session.cpp hands every call to impl_, so a client is one of the           *)
(* implementations: what is proved of WsSession holds of the client.          *)
THEOREM ClientImplements == ClientSpec => Spec
<1>1. ClientInit => Init
  BY DEF ClientInit
<1>2. [ClientNext]_<<impl_, vars, uvVars, textVars>> => [Next]_vars
  BY DEF ClientNext
<1> QED  BY <1>1, <1>2, PTL DEF ClientSpec, Spec

(* The safety of the libevent client, for the client that holds it. *)
THEOREM ClientSafe ==
  ClientSpec => [](/\ TypeOK /\ CloseIsLastFrame /\ CloseIsAnswered
                   /\ ConnectedAfterHandshake /\ DeliveredIsValid /\ ChecksHold)
BY ClientImplements, TypeCorrect, CloseLast, CloseAnswered, ConnectedHandshaken, DeliveredValid,
   ChecksNeverFail, PTL

-----------------------------------------------------------------------------
(* Text payloads.  Payload and TextProofs are two instances of the same       *)
(* definitions, which are equal once they are expanded.                       *)
TextProofs == INSTANCE WsPayloadProofs

(* What is proved of WsPayload holds of the client. *)
LEMMA ClientReceivesText == ClientSpec => TextProofs!TextSpec
<1>1. ClientInit => TextProofs!TextInit
  BY DEF ClientInit, Payload!TextInit, TextProofs!TextInit, Payload!WS_UTF8_ACCEPT, TextProofs!WS_UTF8_ACCEPT
<1>2. Payload!TextNext <=> TextProofs!TextNext
  BY DEF Payload!TextNext, TextProofs!TextNext, Payload!ReceiveText, TextProofs!ReceiveText,
     Payload!WS_UTF8_ACCEPT, TextProofs!WS_UTF8_ACCEPT, Payload!WS_UTF8_REJECT,
     TextProofs!WS_UTF8_REJECT, Payload!ValidateUtf8, TextProofs!ValidateUtf8,
     Payload!Utf8States, TextProofs!Utf8States, Payload!utf8d, TextProofs!utf8d,
     Payload!ByteType, TextProofs!ByteType, Payload!FirstByte, TextProofs!FirstByte,
     Payload!LaterTypes, TextProofs!LaterTypes, Payload!LaterState, TextProofs!LaterState
<1>3. [ClientNext]_<<impl_, vars, uvVars, textVars>> => [Payload!TextNext]_(TextProofs!textVars)
  BY DEF ClientNext, textVars, TextProofs!textVars
<1>4. [ClientNext]_<<impl_, vars, uvVars, textVars>> => [TextProofs!TextNext]_(TextProofs!textVars)
  BY ONLY <1>2, <1>3
<1> QED  BY <1>1, <1>4, PTL DEF ClientSpec, TextProofs!TextSpec

(* The bytes that arrive are bytes. *)
LEMMA TextAssumption == Bytes \subseteq TextProofs!Byte /\ MaxChunk \in Nat
BY WsClientAssumption DEF TextProofs!Byte

(* However a message is cut into chunks, utf8State_ of the client is ACCEPT   *)
(* exactly when what has arrived is UTF-8, and REJECT exactly when nothing    *)
(* can complete it.                                                           *)
THEOREM ClientValidatesUtf8 == ClientSpec => []Utf8Agrees
<1>1. TextProofs!TextSpec => []TextProofs!Utf8Agrees
  BY TextAssumption, TextProofs!Utf8Validated
<1>2. TextProofs!Utf8Agrees <=> Payload!Utf8Agrees
  BY DEF Payload!Utf8Agrees, TextProofs!Utf8Agrees, Payload!WS_UTF8_ACCEPT,
     TextProofs!WS_UTF8_ACCEPT, Payload!WS_UTF8_REJECT, TextProofs!WS_UTF8_REJECT,
     Payload!Completions, TextProofs!Completions, Payload!WellFormed, TextProofs!WellFormed,
     Payload!WellFormedUpTo, TextProofs!WellFormedUpTo, Payload!IsChar, TextProofs!IsChar,
     Payload!NeedsBytes, TextProofs!NeedsBytes, Payload!CodePoint, TextProofs!CodePoint,
     Payload!CharLen, TextProofs!CharLen
<1>3. Payload!Utf8Agrees => Utf8Agrees
  BY DEF Utf8Agrees
<1> QED  BY <1>1, <1>2, <1>3, ClientReceivesText, PTL

(* Whatever has arrived, in whatever chunks, its base64 code is right and     *)
(* decodes to it.                                                             *)
THEOREM ClientBase64 == ClientSpec => []Base64RoundTrip
<1>1. TextProofs!TextSpec => []TextProofs!Base64RoundTrip
  BY TextAssumption, TextProofs!Base64Kept
<1>2. TextProofs!Base64RoundTrip <=> Payload!Base64RoundTrip
  <2>1. TextProofs!EncodeBase64(text) = Payload!EncodeBase64(text)
    BY DEF Payload!EncodeBase64, TextProofs!EncodeBase64, Payload!EncodeTriple,
       TextProofs!EncodeTriple, Payload!EncodeRest, TextProofs!EncodeRest, Payload!Pad,
       TextProofs!Pad, Payload!Equals, TextProofs!Equals, Payload!base64_chars,
       TextProofs!base64_chars
  <2> DEFINE code == Payload!EncodeBase64(text)
  <2>2. TextProofs!DecodeBase64(code) = Payload!DecodeBase64(code)
    <3> HIDE DEF code
    <3> QED
      BY DEF Payload!DecodeBase64, TextProofs!DecodeBase64, Payload!DecodeGroup,
         TextProofs!DecodeGroup, Payload!DecodeRest, TextProofs!DecodeRest, Payload!DecodeFirst,
         TextProofs!DecodeFirst, Payload!DecodeSecond, TextProofs!DecodeSecond,
         Payload!DecodeThird, TextProofs!DecodeThird, Payload!Find, TextProofs!Find,
         Payload!Equals, TextProofs!Equals, Payload!base64_chars, TextProofs!base64_chars
  <2>3. /\ TextProofs!Base64RoundTrip <=> (text # <<>> => TextProofs!RoundTrips(text))
        /\ Payload!Base64RoundTrip <=> (text # <<>> => Payload!RoundTrips(text))
    BY DEF Payload!Base64RoundTrip, TextProofs!Base64RoundTrip
  <2>4. TextProofs!RoundTrips(text) <=> Payload!RoundTrips(text)
    BY <2>1, <2>2 DEF Payload!RoundTrips, TextProofs!RoundTrips, Payload!Bits, TextProofs!Bits,
       Payload!PowersOf2, TextProofs!PowersOf2, Payload!Find, TextProofs!Find, Payload!Equals,
       TextProofs!Equals, Payload!base64_chars, TextProofs!base64_chars
  <2> QED  BY <2>3, <2>4
<1>3. Payload!Base64RoundTrip => Base64RoundTrip
  BY DEF Base64RoundTrip
<1> QED  BY <1>1, <1>2, <1>3, ClientReceivesText, PTL
===============================================================================
