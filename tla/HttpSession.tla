------------------------------ MODULE HttpSession ------------------------------
(***************************************************************************)
(* The libuv HTTP client, net/http_cli/implement/uv: DoRequest resolves,   *)
(* connects, for https runs the TLS handshake through two memory BIOs,     *)
(* sends the request and collects the body until the connection ends.      *)
(* Everything runs inside uv_run, one callback at a time; the network and  *)
(* the server are arbitrary.  The body is a sequence of units that arrive  *)
(* in chunks of any size.  A session may be used for several requests: it  *)
(* keeps its SSL object, its BIOs and bodyStream_.                         *)
(***************************************************************************)
EXTENDS Integers, Sequences

CONSTANTS MaxRequests,      \* bound: calls of DoRequest
          MaxUnits          \* bound: body units the server sends in one behaviour

ASSUME HttpSessionAssumption == MaxRequests \in Nat /\ MaxUnits \in Nat

VARIABLES
  loop,           \* "idle", "running" inside uv_run, "aborted" after LOG(FATAL)
  https,          \* request_.url.IsHttps()
  socket_,        \* "none", "resolving", "connecting", "open", "failed" or "closed"
  ssl_,           \* "new", "handshake" or "finished"
  read_bio_,      \* decrypted units that SSL_read has not returned yet
  bodyStream_,
  asked,          \* what the server got on this connection: "nothing", "hello" or "request"
  wire,           \* units the server sent that the client has not received
  sent,           \* units the server sent so far, over all connections
  received,       \* units the client's sockets received
  bodyStart,      \* the length of bodyStream_ when the request began
  requests, opened, responses     \* requests, connections made, handler calls

netVars == <<asked, wire, sent>>
vars == <<loop, https, socket_, ssl_, read_bio_, bodyStream_, netVars, received, bodyStart,
          requests, opened, responses>>

Running == loop = "running"

-----------------------------------------------------------------------------
(* Get or Head, with a Url; Resolve. *)
DoRequest(tls) ==
  /\ loop = "idle" /\ requests < MaxRequests
  /\ loop' = "running" /\ https' = tls /\ socket_' = "resolving"
  /\ requests' = requests + 1
  /\ asked' = "nothing" /\ wire' = <<>> /\ bodyStart' = Len(bodyStream_)
  /\ UNCHANGED <<ssl_, read_bio_, bodyStream_, sent, received, opened, responses>>

(* A name that does not resolve is only logged. *)
OnResolved(found) ==
  /\ Running /\ socket_ = "resolving"
  /\ socket_' = IF found THEN "connecting" ELSE "failed"
  /\ UNCHANGED <<loop, https, ssl_, read_bio_, bodyStream_, netVars, received, bodyStart,
                 requests, opened, responses>>

(* status is not looked at: without a connection, uv_read_start and uv_write *)
(* fail, and their results are ignored or logged.  The SSL object says hello *)
(* once: when it is used again, SSL_do_handshake sends nothing.              *)
OnConnect(connected) ==
  /\ Running /\ socket_ = "connecting"
  /\ socket_' = IF connected THEN "open" ELSE "failed"
  /\ opened' = IF connected THEN opened + 1 ELSE opened
  /\ ssl_' = IF https /\ ssl_ = "new" THEN "handshake" ELSE ssl_
  /\ asked' = CASE connected /\ ~https               -> "request"
                [] connected /\ https /\ ssl_ = "new" -> "hello"
                [] OTHER                              -> "nothing"
  /\ UNCHANGED <<loop, https, read_bio_, bodyStream_, wire, sent, received,
                 bodyStart, requests, responses>>

(* The answers to the hello that leave the handshake unfinished change       *)
(* nothing here; the last one makes SSL_connect succeed and the request is    *)
(* written.                                                                   *)
ReadFromSSLHandshake ==
  /\ Running /\ socket_ = "open" /\ https /\ ssl_ = "handshake" /\ asked = "hello"
  /\ ssl_' = "finished" /\ asked' = "request"
  /\ UNCHANGED <<loop, https, socket_, read_bio_, bodyStream_, wire, sent,
                 received, bodyStart, requests, opened, responses>>

Receive(k) ==
  /\ Running /\ socket_ = "open" /\ k =< Len(wire)
  /\ wire' = SubSeq(wire, k + 1, Len(wire))
  /\ received' = received \cup {wire[i] : i \in 1..k}
  /\ UNCHANGED <<loop, https, socket_, ssl_, asked, sent, bodyStart, requests, opened,
                 responses>>

OnReadPlain(k) ==
  /\ ~https /\ Receive(k)
  /\ bodyStream_' = bodyStream_ \o SubSeq(wire, 1, k)
  /\ UNCHANGED read_bio_

ReadFromSSLTwice(k, j) ==
  /\ https /\ ssl_ = "finished" /\ Receive(k)
  /\ LET bio == read_bio_ \o SubSeq(wire, 1, k)
     IN  /\ bio # <<>> /\ j =< Len(bio)
         /\ bodyStream_' = bodyStream_ \o SubSeq(bio, 1, j) \o SubSeq(bio, 1, j)
         /\ read_bio_' = SubSeq(bio, j + 1, Len(bio))

(* One SSL_read for each OnRead: it returns at most one TLS record, and no   *)
(* more bytes than this chunk had, so j of the units that are there.  k is 0  *)
(* when the chunk completes no record, or brings a TLS alert.                 *)
ReadFromSSL(k, j) ==
  /\ https /\ ssl_ = "finished" /\ Receive(k)
  /\ LET bio == read_bio_ \o SubSeq(wire, 1, k)
     IN  /\ bio # <<>> /\ j =< Len(bio)
         /\ bodyStream_' = bodyStream_ \o SubSeq(bio, 1, j)
         /\ read_bio_' = SubSeq(bio, j + 1, Len(bio))

(* The reply is not HTTP, or not TLS: WTF_CHECK fails, or HandleError finds  *)
(* an error other than SSL_ERROR_WANT_READ.                                  *)
OnReadGarbage ==
  /\ Running /\ socket_ = "open" /\ asked # "nothing"
  /\ loop' = "aborted"
  /\ UNCHANGED <<https, socket_, ssl_, read_bio_, bodyStream_, netVars, received, bodyStart,
                 requests, opened, responses>>

OnReadEndKeepsSocket ==
  /\ Running /\ socket_ = "open"
  /\ responses' = responses + 1
  /\ UNCHANGED <<loop, https, socket_, ssl_, read_bio_, bodyStream_, netVars, received,
                 bodyStart, requests, opened>>

OnReadEndForgetsSocket ==
  /\ Running /\ socket_ = "open" /\ responses < opened
  /\ responses' = responses + 1
  /\ UNCHANGED <<loop, https, socket_, ssl_, read_bio_, bodyStream_, netVars, received,
                 bodyStart, requests, opened>>

(* nread =< 0: the end of the stream, an error, or nothing to read just now. *)
(* Each is taken as the end of the response, and the handler is called.      *)
OnReadEnd ==
  /\ Running /\ socket_ = "open"
  /\ responses' = responses + 1 /\ socket_' = "closed"
  /\ UNCHANGED <<loop, https, ssl_, read_bio_, bodyStream_, netVars, received, bodyStart,
                 requests, opened>>

(* uv_run returns when no request is pending and no handle is active. *)
UvRunReturns ==
  /\ Running /\ socket_ \in {"failed", "closed"}
  /\ loop' = "idle"
  /\ UNCHANGED <<https, socket_, ssl_, read_bio_, bodyStream_, netVars, received, bodyStart,
                 requests, opened, responses>>

-----------------------------------------------------------------------------
(* The server. *)
ServerSends ==
  /\ Running /\ socket_ = "open" /\ asked = "request" /\ sent < MaxUnits
  /\ sent' = sent + 1 /\ wire' = Append(wire, sent + 1)
  /\ UNCHANGED <<loop, https, socket_, ssl_, read_bio_, bodyStream_, asked,
                 received, bodyStart, requests, opened, responses>>

Init ==
  /\ loop = "idle" /\ https = FALSE /\ socket_ = "none" /\ ssl_ = "new"
  /\ read_bio_ = <<>> /\ bodyStream_ = <<>>
  /\ asked = "nothing" /\ wire = <<>> /\ sent = 0 /\ received = {} /\ bodyStart = 0
  /\ requests = 0 /\ opened = 0 /\ responses = 0

Next ==
  \/ \E tls \in BOOLEAN : DoRequest(tls)
  \/ \E found \in BOOLEAN : OnResolved(found)
  \/ \E connected \in BOOLEAN : OnConnect(connected)
  \/ ReadFromSSLHandshake
  \/ \E k \in 1..MaxUnits : OnReadPlain(k)
  \/ \E k \in 0..MaxUnits, j \in 1..MaxUnits : ReadFromSSL(k, j)
  \/ OnReadGarbage
  \/ OnReadEnd
  \/ UvRunReturns
  \/ ServerSends

Spec == Init /\ [][Next]_vars

(* libuv delivers the outcome of a lookup and of a connection attempt, and    *)
(* uv_run returns when nothing is left.  That the connection ends is up to    *)
(* the server: the client never closes it first, not even when the parser     *)
(* reports the end of the message.                                            *)
Fairness ==
  /\ WF_vars(\E found \in BOOLEAN : OnResolved(found))
  /\ WF_vars(\E connected \in BOOLEAN : OnConnect(connected))
  /\ WF_vars(OnReadEnd)
  /\ WF_vars(UvRunReturns)

FairSpec == Spec /\ Fairness

-----------------------------------------------------------------------------
TypeOK ==
  /\ loop \in {"idle", "running", "aborted"}
  /\ https \in BOOLEAN
  /\ socket_ \in {"none", "resolving", "connecting", "open", "failed", "closed"}
  /\ ssl_ \in {"new", "handshake", "finished"}
  /\ asked \in {"nothing", "hello", "request"}
  /\ \A s \in {read_bio_, bodyStream_, wire} : s \in Seq(1..MaxUnits)
  /\ received \subseteq 1..MaxUnits
  /\ bodyStart \in 0..Len(bodyStream_)
  /\ sent \in 0..MaxUnits
  /\ requests \in 0..MaxRequests
  /\ opened \in 0..MaxRequests
  /\ responses \in 0..MaxRequests

(* The response handler is called once for every connection that was made,    *)
(* by the time DoRequest returns, and never again: OnRead calls it for each    *)
(* nread =< 0 and relies on uv_close to be the last one.                       *)
AnsweredOnce ==
  /\ responses =< opened
  /\ loop = "idle" => responses = opened

(* What the parser was given and what still sits in the BIO are, together,     *)
(* exactly what the sockets of this session received, and the parser gets the  *)
(* units of one request in the order they were sent: no chunking, and no       *)
(* re-use of the session, loses, repeats or reorders them on their way.        *)
BodyConserved ==
  LET held == bodyStream_ \o read_bio_
  IN  /\ {held[i] : i \in 1..Len(held)} = received
      /\ \A i, j \in 1..Len(held) : i # j => held[i] # held[j]
      /\ \A i, j \in (bodyStart + 1)..Len(bodyStream_) : i < j => bodyStream_[i] < bodyStream_[j]

(* DoRequest returns, or the process ends, if the peer ends the connection. *)
RequestReturns == loop = "running" ~> loop # "running"
=============================================================================
