------------------------------ MODULE HttpClient ------------------------------
(***************************************************************************)
(* net/http_cli/session.cpp: a Session holds one implementation, impl_,    *)
(* chosen when the program is built, and hands every call to it.  A        *)
(* behaviour is one of the libuv client (HttpSession), of the libevent     *)
(* client (HttpEvSession) or of the Beast client (HttpBeastSession); the   *)
(* variables of the others keep their values.                              *)
(***************************************************************************)
EXTENDS HttpSession

CONSTANTS Hosts, Certs, MaxRetries, MaxRedirects

VARIABLES impl_,
  evLoop, evReq_, url_, retries_, responseHandler_, evConn_, retriesLeft, peer, evResponses,
  ioc_, tls, stream_, stale, gracefulTimer, leftOver, followNextRedirect, numberOfRedirects

(* Host names are C strings, names in certificates are not. *)
ASSUME HttpClientAssumption ==
  /\ Hosts \subseteq Seq(1..255)
  /\ Certs \subseteq [san : Seq(Seq([dns : BOOLEAN, name : Seq(0..255)])), cn : Seq(Seq(0..255))]

Ev == INSTANCE HttpEvSession
Beast == INSTANCE HttpBeastSession

evVars == <<evLoop, evReq_, url_, retries_, responseHandler_, evConn_, retriesLeft, peer, evResponses>>
beastVars == <<ioc_, tls, stream_, stale, gracefulTimer, leftOver, followNextRedirect, numberOfRedirects>>

ClientInit ==
  /\ impl_ \in {"SessionImplUV", "SessionImplEV", "SessionImplBeast"}
  /\ Init /\ Ev!EvInit /\ Beast!BeastInit

ClientNext ==
  \/ impl_ = "SessionImplUV" /\ Next /\ UNCHANGED <<impl_, evVars, beastVars>>
  \/ impl_ = "SessionImplEV" /\ Ev!EvNext /\ UNCHANGED <<impl_, vars, beastVars>>
  \/ impl_ = "SessionImplBeast" /\ Beast!BeastNext /\ UNCHANGED <<impl_, vars, evVars>>

ClientSpec ==
  /\ ClientInit /\ [][ClientNext]_<<impl_, vars, evVars, beastVars>>
  /\ Fairness /\ Ev!EvFairness /\ Beast!BeastFairness

-----------------------------------------------------------------------------
(* The libevent client takes only certificates that name the host: see        *)
(* HttpEvSession.                                                             *)
IdentityChecked == Ev!IdentityChecked

(* The libevent client's DoRequest returns: see HttpEvSession. *)
EvRequestReturns == Ev!EvRequestReturns

(* The Beast client's DoRequest returns or throws: see HttpBeastSession. *)
BeastRequestReturns == Beast!BeastRequestReturns

(* The Beast client's shutdown timer stops no later run of its DoRequest: see  *)
(* HttpBeastSession.                                                           *)
TimerOfThisStream == Beast!TimerOfThisStream
=============================================================================
