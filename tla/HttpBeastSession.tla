--------------------------- MODULE HttpBeastSession ---------------------------
(***************************************************************************)
(* The Boost.Beast HTTP client, net/http_cli/implement/beast: DoRequest    *)
(* runs one request after another, each on a new stream and in a run of    *)
(* the io_context of its own, as long as the answers redirect it.  A TLS   *)
(* stream is shut down in the background, against a timer of 500 ms that   *)
(* stops the io_context.                                                   *)
(*                                                                         *)
(* The setters are empty, but for SetUrl.  responseHandler_ is never set,  *)
(* and to call it does nothing: a request that fails leaves its stream,    *)
(* and the run ends for want of work.  onResponse is never set either, but *)
(* is a bare std::function: an answer that is no redirect throws           *)
(* std::bad_function_call out of run() and DoRequest, and what it had      *)
(* started stays in the io_context for the next DoRequest to find.         *)
(* timeout_ stays 0, so that timeouter is never armed.                     *)
(***************************************************************************)
EXTENDS Integers

CONSTANTS MaxRedirects      \* the first value of numberOfRedirects, INT32_MAX in the code

VARIABLES
  ioc_,                 \* "idle" outside DoRequest, "running", "stopped" by a handler, or "undefined"
  tls,                  \* url_ has the scheme https
  stream_,              \* the operation under way on it: "resolving", "connecting", "handshake",
                        \* "writing", "reading", "shutdown"; or "answered", or "none"
  stale,                \* the operation of a replaced stream whose handler is queued, or "none"
  gracefulTimer,        \* the waits on timeouterForGracefulShutdown, a subset of {"armed", "expired"}
  leftOver,             \* this DoRequest found such a wait of an earlier one
  followNextRedirect, numberOfRedirects

redirects == <<followNextRedirect, numberOfRedirects>>
beastVars == <<ioc_, tls, stream_, stale, gracefulTimer, leftOver, redirects>>

BeastInit ==
  /\ ioc_ = "idle" /\ tls = FALSE /\ stream_ = "none" /\ stale = "none"
  /\ gracefulTimer = {} /\ leftOver = FALSE
  /\ followNextRedirect = FALSE /\ numberOfRedirects = MaxRedirects

(* stream_ is TLS when url_ was https as the request began; url_ changes only  *)
(* when the stream is answered, or between requests.                           *)
SetUrl(https) ==
  /\ ioc_ = "idle"
  /\ tls' = https
  /\ UNCHANGED <<ioc_, stream_, stale, gracefulTimer, leftOver, redirects>>

(* Starts the lookup, unless the host name cannot be put into the TLS hello:   *)
(* then there is nothing to run.                                               *)
PrepareRequest(prepared) ==
  /\ prepared \/ tls
  /\ stream_' = IF prepared THEN "resolving" ELSE "none"

Busy == stream_ \notin {"none", "answered"}

(* The old stream is destroyed: an operation under way on it is aborted, and    *)
(* its handler queued.                                                          *)
DoOneRequest(prepared) ==
  /\ stale' = IF Busy THEN stream_ ELSE "none"
  /\ PrepareRequest(prepared)
  /\ ioc_' = "running" /\ followNextRedirect' = FALSE
  /\ UNCHANGED <<tls, gracefulTimer, numberOfRedirects>>

DoRequest(prepared) ==
  /\ ioc_ = "idle"
  /\ leftOver' = (gracefulTimer # {})
  /\ DoOneRequest(prepared)

-----------------------------------------------------------------------------
(* Handlers that the io_context runs.  What was queued before the run comes    *)
(* first.                                                                      *)
Handles(phase) == ioc_ = "running" /\ stale = "none" /\ stream_ = phase

OnFail == stream_' = "none"

Step(phase, ok, next) ==
  /\ Handles(phase)
  /\ IF ok THEN stream_' = next ELSE OnFail
  /\ UNCHANGED <<ioc_, tls, stale, gracefulTimer, leftOver, redirects>>

OnResolve(ok) == Step("resolving", ok, "connecting")
OnConnect(ok) == Step("connecting", ok, IF tls THEN "handshake" ELSE "writing")
OnHandShake(ok) == Step("handshake", ok, "writing")
OnWrite(ok) == Step("writing", ok, "reading")

OnReadFails ==
  /\ Handles("reading") /\ OnFail
  /\ UNCHANGED <<ioc_, tls, stale, gracefulTimer, leftOver, redirects>>

(* A plain stream is shut down at once, by OnShutdown, which cancels the timer. *)
(* For a TLS stream the timer is set anew, which aborts a wait that is armed.   *)
(* A wait that has expired is too late to be cancelled.                         *)
CloseGracefully ==
  IF tls THEN stream_' = "shutdown" /\ gracefulTimer' = gracefulTimer \cup {"armed"}
  ELSE stream_' = "answered" /\ gracefulTimer' = gracefulTimer \ {"armed"}

(* No Location: onResponse throws, after the shutdown was started. *)
OnReadThrows ==
  /\ Handles("reading") /\ CloseGracefully
  /\ ioc_' = "idle"
  /\ UNCHANGED <<tls, stale, leftOver, redirects>>

OnReadRedirectUncounted(https) ==
  /\ Handles("reading") /\ CloseGracefully
  /\ tls' = https
  /\ followNextRedirect' = TRUE
  /\ UNCHANGED <<ioc_, stale, leftOver, numberOfRedirects>>

(* The answer has a Location: url_ becomes the location, and a redirect that is *)
(* left is used up.                                                             *)
OnReadRedirect(https) ==
  /\ Handles("reading") /\ CloseGracefully
  /\ tls' = https
  /\ IF numberOfRedirects > 0
     THEN numberOfRedirects' = numberOfRedirects - 1 /\ followNextRedirect' = TRUE
     ELSE UNCHANGED redirects
  /\ UNCHANGED <<ioc_, stale, leftOver>>

OnShutdownStops ==
  /\ Handles("shutdown")
  /\ stream_' = "answered" /\ ioc_' = "stopped"
  /\ UNCHANGED <<tls, stale, gracefulTimer, leftOver, redirects>>

OnShutdown ==
  /\ Handles("shutdown")
  /\ stream_' = "answered"
  /\ gracefulTimer' = gracefulTimer \ {"armed"}
  /\ UNCHANGED <<ioc_, tls, stale, leftOver, redirects>>

(* Its handler is queued. *)
GracefulTimerExpires ==
  /\ ioc_ = "running" /\ "armed" \in gracefulTimer /\ "expired" \notin gracefulTimer
  /\ gracefulTimer' = {"expired"}
  /\ UNCHANGED <<ioc_, tls, stream_, stale, leftOver, redirects>>

(* ioc_.stop(), and the socket of stream_ is closed, whichever stream that is   *)
(* by now.                                                                      *)
OnTooLongAsyncShutdown ==
  /\ ioc_ = "running" /\ stale = "none" /\ "expired" \in gracefulTimer
  /\ gracefulTimer' = gracefulTimer \ {"expired"} /\ ioc_' = "stopped"
  /\ UNCHANGED <<tls, stream_, stale, leftOver, redirects>>

(* The handler of an aborted operation works on the storage of a stream that    *)
(* DoOneRequest has destroyed.  Either it comes through, to OnShutdown, which   *)
(* cancels the timer, or to OnFail, which does nothing; or anything happens.    *)
StaleHandler ==
  /\ ioc_ = "running" /\ stale # "none"
  /\ \/ ioc_' = "undefined" /\ UNCHANGED <<stale, gracefulTimer>>
     \/ /\ stale' = "none"
        /\ gracefulTimer' = IF stale = "shutdown" THEN gracefulTimer \ {"armed"} ELSE gracefulTimer
        /\ UNCHANGED ioc_
  /\ UNCHANGED <<tls, stream_, leftOver, redirects>>

(* ioc_.run() returns when it was stopped or has no work left. *)
RunEnds ==
  \/ ioc_ = "stopped"
  \/ ioc_ = "running" /\ ~Busy /\ stale = "none" /\ gracefulTimer = {}

Redirected(prepared) ==
  /\ RunEnds /\ followNextRedirect
  /\ DoOneRequest(prepared)
  /\ UNCHANGED leftOver

DoRequestReturns ==
  /\ RunEnds /\ ~followNextRedirect
  /\ ioc_' = "idle"
  /\ UNCHANGED <<tls, stream_, stale, gracefulTimer, leftOver, redirects>>

Handler ==
  \/ \E ok \in BOOLEAN : OnResolve(ok) \/ OnConnect(ok) \/ OnHandShake(ok) \/ OnWrite(ok)
  \/ OnReadFails
  \/ OnReadThrows
  \/ \E https \in BOOLEAN : OnReadRedirect(https)
  \/ OnShutdown
  \/ GracefulTimerExpires
  \/ OnTooLongAsyncShutdown
  \/ StaleHandler
  \/ \E prepared \in BOOLEAN : Redirected(prepared)
  \/ DoRequestReturns

BeastNext ==
  \/ \E https \in BOOLEAN : SetUrl(https)
  \/ \E prepared \in BOOLEAN : DoRequest(prepared)
  \/ Handler

(* The io_context runs what is ready.  A peer answers, or its connection ends:  *)
(* there is no timeout that would end it.                                       *)
BeastFairness == WF_beastVars(Handler)

-----------------------------------------------------------------------------
(* DoRequest returns or throws, whatever the servers redirect it to and however *)
(* the requests fail: redirects are counted down, over all requests of the      *)
(* session.                                                                     *)
BeastRequestReturns == ioc_ \in {"running", "stopped"} ~> ioc_ \notin {"running", "stopped"}

(* Within a DoRequest, no timer of an earlier stream can stop the run of a      *)
(* later one, however its expiry and the end of the shutdown are ordered: the   *)
(* run of a redirected request ends with the timer cancelled or spent.  A timer *)
(* that the exception of an earlier DoRequest left behind (leftOver) does stop  *)
(* a later run, and closes its socket: OnReadThrows cancels nothing.            *)
TimerOfThisStream ==
  ~leftOver /\ gracefulTimer # {} => stream_ \in {"shutdown", "answered"}
=============================================================================
