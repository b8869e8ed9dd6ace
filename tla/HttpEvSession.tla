---------------------------- MODULE HttpEvSession ----------------------------
(***************************************************************************)
(* The libevent HTTP client, net/http_cli/implement/ev: one evhttp request *)
(* object, made by DoInit; DoRequest hands it to a new evhttp connection   *)
(* and dispatches until libevent is done with it.  libevent connects,      *)
(* retries failed attempts up to retries_ times, calls VerifyCertCallback  *)
(* during a TLS handshake, calls HandleResponse or OnError, and frees the  *)
(* request.  The network, the server and its certificate are arbitrary.    *)
(***************************************************************************)
EXTENDS Integers, Sequences, HostCheck

CONSTANTS Hosts,        \* host names of urls
          Certs,        \* certificates a server may show
          MaxRetries    \* bound: argument of SetRetries

VARIABLES
  evLoop,         \* "idle", "dispatch", "aborted", or "undefined": memory is used that was freed
  evReq_,         \* "null", "new", "queued" on the connection, or "freed"
  url_,           \* the url's scheme and host, or NoUrl
  retries_,
  responseHandler_,
  evConn_,        \* "none", "connecting", "handshake", "requested" or "done"
  retriesLeft,    \* attempts that libevent may repeat; negative means any number
  peer,           \* what the server showed in the last handshake, and the verdict on it
  evResponses     \* responses given to responseHandler_

evVars == <<evLoop, evReq_, url_, retries_, responseHandler_, evConn_, retriesLeft, peer, evResponses>>

NoUrl == [https |-> FALSE, host |-> <<>>]
NoPeer == [verdict |-> "none"]

EvInit ==
  /\ evLoop = "idle" /\ evReq_ = "null" /\ url_ = NoUrl /\ retries_ = 0
  /\ responseHandler_ = FALSE /\ evConn_ = "none" /\ retriesLeft = 0
  /\ peer = NoPeer /\ evResponses = <<>>

-----------------------------------------------------------------------------
(* The application.  DoInit is called once, before anything else. *)
EvDoInit ==
  /\ evLoop = "idle" /\ evReq_ = "null"
  /\ evReq_' = "new"
  /\ UNCHANGED <<evLoop, url_, retries_, responseHandler_, evConn_, retriesLeft, peer, evResponses>>

(* Bound: options are set before the first request.  They are of no use      *)
(* after it, see EvDoRequest.                                                 *)
Configure == evReq_ = "new" /\ UNCHANGED <<evLoop, evReq_, evConn_, retriesLeft, peer, evResponses>>

(* The url is one that evhttp_uri_parse accepts.  Its port is left out: a     *)
(* port that is given is not stored, and url_.port is then indeterminate.     *)
SetUrl(https, host) ==
  /\ Configure
  /\ url_' = [https |-> https, host |-> host]
  /\ UNCHANGED <<retries_, responseHandler_>>

(* A number of 2^31 or more, which the int that libevent takes would make     *)
(* negative, is left out.                                                     *)
SetRetries(n) ==
  /\ Configure
  /\ retries_' = n
  /\ UNCHANGED <<url_, responseHandler_>>

SetHandler ==
  /\ Configure
  /\ responseHandler_' = TRUE
  /\ UNCHANGED <<url_, retries_>>

(* The headers are those of evReq_, which libevent frees with the first      *)
(* response: neither a header nor a request can follow it.                   *)
SetHeader ==
  /\ evLoop = "idle" /\ evReq_ # "null"
  /\ evLoop' = IF evReq_ = "freed" THEN "undefined" ELSE evLoop
  /\ UNCHANGED <<evReq_, url_, retries_, responseHandler_, evConn_, retriesLeft, peer, evResponses>>

InitEventConnectLimit == evConn_' = "connecting" /\ retriesLeft' = retries_ - 1

(* A new connection.  OpenSSL's failures are only logged; retries_, when it    *)
(* is not 0, is given to the connection, which repeats nothing otherwise.      *)
InitEventConnect ==
  /\ evConn_' = "connecting"
  /\ retriesLeft' = IF retries_ > 0 THEN retries_ ELSE 0

(* WTF_CHECK(!url_.url.empty()), then the connection, then the request. *)
EvDoRequest ==
  /\ evLoop = "idle" /\ evReq_ # "null"
  /\ evLoop' = IF url_ = NoUrl THEN "aborted"
               ELSE IF evReq_ = "freed" THEN "undefined" ELSE "dispatch"
  /\ IF evLoop' = "dispatch"
     THEN InitEventConnect /\ evReq_' = "queued"
     ELSE UNCHANGED <<evReq_, evConn_, retriesLeft>>
  /\ UNCHANGED <<url_, retries_, responseHandler_, peer, evResponses>>

-----------------------------------------------------------------------------
(* libevent, inside event_base_dispatch. *)
Dispatching == evLoop = "dispatch"

(* A responseHandler_ that was not set is called to no effect. *)
OnResponse(ok) ==
  /\ evResponses' = IF responseHandler_
                    THEN Append(evResponses, [ok |-> ok, https |-> url_.https]) ELSE evResponses
  /\ UNCHANGED evLoop

Settled == evReq_' = "freed" /\ evConn_' = "done" /\ UNCHANGED <<url_, retries_, responseHandler_>>

(* HandleResponse with response code 0.  It asks the session, cast to a      *)
(* bufferevent, for its OpenSSL errors: it may find none, find some and call *)
(* no handler, or crash.                                                     *)
HandleResponseFailed ==
  /\ \/ OnResponse(FALSE)
     \/ evLoop' \in {"dispatch", "undefined"} /\ UNCHANGED evResponses
  /\ Settled /\ UNCHANGED retriesLeft

AttemptFails ==
  IF retriesLeft # 0
  THEN /\ retriesLeft' = (IF retriesLeft > 0 THEN retriesLeft - 1 ELSE retriesLeft)
       /\ evConn_' = "connecting"
       /\ UNCHANGED <<evLoop, evReq_, url_, retries_, responseHandler_, evResponses>>
  ELSE HandleResponseFailed

(* No address, no connection, or none in time. *)
ConnectFails ==
  /\ Dispatching /\ evConn_ = "connecting"
  /\ AttemptFails /\ UNCHANGED peer

Connected ==
  /\ Dispatching /\ evConn_ = "connecting"
  /\ evConn_' = IF url_.https THEN "handshake" ELSE "requested"
  /\ peer' = NoPeer
  /\ UNCHANGED <<evLoop, evReq_, url_, retries_, responseHandler_, retriesLeft, evResponses>>

(* chainOk is what X509_verify_cert says of the chain. *)
VerifyCertCallback(chainOk, host, cert) == chainOk /\ ValidateHostname(host, cert) = "MatchFound"

Handshake(chainOk, cert) ==
  /\ Dispatching /\ evConn_ = "handshake"
  /\ LET accepted == VerifyCertCallback(chainOk, url_.host, cert)
     IN  /\ peer' = [verdict |-> IF accepted THEN "accepted" ELSE "refused",
                     host |-> url_.host, chainOk |-> chainOk, cert |-> cert]
         /\ IF accepted
            THEN /\ evConn_' = "requested"
                 /\ UNCHANGED <<evLoop, evReq_, url_, retries_, responseHandler_, retriesLeft, evResponses>>
            ELSE AttemptFails

(* The handshake ends for another reason. *)
HandshakeFails ==
  /\ Dispatching /\ evConn_ = "handshake"
  /\ AttemptFails /\ UNCHANGED peer

(* The body is left out: a chunk of it is taken as a C string that nothing     *)
(* ends, so that what the handler gets of it is indeterminate.                 *)
HandleResponse ==
  /\ Dispatching /\ evConn_ = "requested"
  /\ OnResponse(TRUE) /\ Settled /\ UNCHANGED <<retriesLeft, peer>>

(* The request fails, or times out, on a connection that was made:           *)
(* WTF_CHECK(!that) ends the process.                                        *)
OnError ==
  /\ Dispatching /\ evConn_ = "requested"
  /\ evLoop' = "aborted" /\ Settled /\ UNCHANGED <<retriesLeft, peer, evResponses>>

DispatchReturns ==
  /\ Dispatching /\ evConn_ = "done"
  /\ evLoop' = "idle"
  /\ UNCHANGED <<evReq_, url_, retries_, responseHandler_, evConn_, retriesLeft, peer, evResponses>>

EvNext ==
  \/ EvDoInit
  \/ \E https \in BOOLEAN, host \in Hosts : SetUrl(https, host)
  \/ \E n \in 0..MaxRetries : SetRetries(n)
  \/ SetHandler
  \/ SetHeader
  \/ EvDoRequest
  \/ ConnectFails
  \/ Connected
  \/ \E chainOk \in BOOLEAN, cert \in Certs : Handshake(chainOk, cert)
  \/ HandshakeFails
  \/ HandleResponse
  \/ OnError
  \/ DispatchReturns

(* libevent's timeouts, which it has without SetTimeout, too, end what the    *)
(* network and the server leave open: an attempt, a handshake, a request.     *)
(* dispatch returns when the connection has nothing left to do.               *)
EvFairness ==
  /\ WF_evVars(ConnectFails)
  /\ WF_evVars(HandshakeFails)
  /\ WF_evVars(OnError)
  /\ WF_evVars(DispatchReturns)

-----------------------------------------------------------------------------
(* VerifyCertCallback accepts a certificate only if its chain is good and     *)
(* one of its well-formed names is the host of the url by the rules of RFC     *)
(* 6125 that hostmatch and ValidateHostname cite, and accepts each such        *)
(* certificate without malformed names.  (One that has a malformed name too is *)
(* refused or accepted by the order of its names, where the comments of        *)
(* openssl_hostname_validation.cpp:57 and 107 would have it refused.)  And a   *)
(* response that came over TLS was sent on a connection whose last handshake   *)
(* was accepted, whatever attempts, with other certificates, went before.      *)
IdentityChecked ==
  /\ peer # NoPeer =>
       LET named == peer.chainOk /\ CertNamesHost(peer.cert, peer.host)
       IN  /\ peer.verdict = "accepted" => named
           /\ named /\ WellFormed(peer.cert) => peer.verdict = "accepted"
  /\ \A i \in DOMAIN evResponses :
       evResponses[i].ok /\ evResponses[i].https => peer.verdict = "accepted"

(* DoRequest returns, or the process ends, even when every attempt to connect *)
(* fails: InitEventConnect gives libevent a limit on the attempts it repeats,  *)
(* with and without SetRetries, and it gives the request up after them.        *)
EvRequestReturns == evLoop = "dispatch" ~> evLoop # "dispatch"
=============================================================================
