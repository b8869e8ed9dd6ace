# TLA+ models of the task runner, pipeline and network clients

This directory models the concurrent and event-driven parts of the repository:
the message loop and threads of `src/wtf`, the `Pipeline` template, and the
WebSocket and HTTP clients of `src/net` on libevent, libuv and Boost.Beast. TLC
checks the models on small instances. TLAPS proves every safety
property they check, for every value of their constants. Paths below are relative to the
repository's `src/`.

## The system

| Part | State | Operations | What makes it hard |
|---|---|---|---|
| Message loop (`wtf/task_runner/message_loop*`, `platform/win`) | priority queue, `order_`, one waitable timer, `terminated_`, `running_`, observers | PostTask, Run, flush, observe, Terminate, dispose | posts race the wait; one timer serves tasks and Terminate; `terminated_` is tested without the lock |
| Queue registry (`message_loop_task_queues`, `task_runner_checker`) | `instance`, `queue_entries_`, id counter | GetInstance, Create, SetWakeable, Dispose, Owns | unprotected first use; answers made of two lookups |
| `wtf::Thread` | constructor locals, `task_runner_`, `joined_` | construct, Join, destroy | locals and a thread-local loop used from another thread |
| Waitable event (`wtf/sync/waitable_event`) | `signaled_`, waiters | Signal, Reset, Wait, WaitWithTimeout | `notify_one`, spurious wake-ups, timeouts |
| Pipeline (`pipeline/pipeline.h`) | two semaphores, deque, `inflight_` | Produce, ProduceIfEmpty, Complete, Consume | push and announcement are separate steps |
| WebSocket client on libevent (`net/ws_cli/implement/ev`) | session members, two timers | connect, upgrade, frames, close, EOF, timeouts | arbitrary chunking; close from both sides; reconnecting |
| WebSocket client on libuv (`net/ws_cli/implement/uv`) | socket, one write request, handler | connect, handshake, send, read | one request object for all writes; length encodings |
| WebSocket codecs (`ws_header.cpp`, `util.cpp`, `utf8_utils.cpp`, `base64.cpp`) | none | pack, unpack, validate, encode, decode | boundaries of lengths and byte ranges; text cut anywhere |
| HTTP client on libuv (`net/http_cli/implement/uv`) | socket, SSL object, BIO, body stream | request, lookup, connect, read, end | failures at each step; state kept between requests |
| HTTP client on libevent (`net/http_cli/implement/ev`) | request object, connection, url, retries | set up, request, retry, handshake, response, error | ownership of the request; when the certificate is checked |
| HTTP client on Beast (`net/http_cli/implement/beast`) | io_context, stream, two flags of redirection, a shutdown timer | request, handlers, redirect, shutdown | a timer and a shutdown that outlive their request |

`Thread` owns a loop and waits for it with a waitable event. The pipeline uses
the semaphores of `wtf/sync`. The clients run on one thread each, in callbacks
of their network library. `net/*/session.cpp` chooses one implementation with
macros (`__USE_BEAST__`, `USE_HTTP_BEAST`, `__USE_LIBEVENT__`) and hands every
call to it. Both WebSocket clients and the libevent HTTP client include headers
under `core/` that the tree does not have. They are modelled as they are written.

## Modules

| Module | Models | State and steps |
|---|---|---|
| `MessageLoop` | one loop, its queue, its posters | A step is one critical section of `queue_mutex_`, one timer operation or one test of a flag. PostTask's test of `terminated_` and its RegisterTask are two steps. `ran`, `owed`, `since`, `heard` are history. |
| `TaskQueues` | registry and same-thread checks | GetInstance is split at its unprotected test. `Concurrent` says whether first uses may overlap. |
| `WaitableEvent` | `OneOffWaitableEvent` | Threads are parked, awake or timed out. The counters record what became of each signal. |
| `ThreadLifecycle` | `wtf::Thread` | Composes instances of `MessageLoop` and `WaitableEvent`. In `Spec` only Join's task calls Terminate; in `SelfTerminatingSpec` any task may, and then Join's PostTask may be refused. |
| `Pipeline` | `Pipeline<R>` and its continuations | Each semaphore operation, locked section and update of `inflight_` is a step. |
| `BoundedChannel` | what the pipeline promises | A FIFO of at most `Depth` items. `Pipeline` refines it. |
| `WsSession` | `SessionImplEV` of `ws_cli` | One record holds the members. A handler is an operator on it, so nested calls compose. At EOF, `OnEofReads` and `OnEofEvent` read what is left of the input. Payloads are lengths with a UTF-8 verdict. |
| `WsPayload` | text payload, byte by byte | The loop of ReadWebsocket over a text frame cut into chunks. `WsSession` keeps only its verdict. |
| `WsCodec` | header packing and unpacking, UTF-8 table, Base64 | Operators on byte sequences. |
| `WsUvSession` | `SessionImplUV` of `ws_cli` | One action for each callback. `written` is what went to the wire. |
| `WsClient` | `ws_cli/session.cpp` | `impl_` picks `WsSession`, `WsUvSession` or `WsPayload` at the start. |
| `HttpSession` | `SessionImplUV` of `http_cli` | Body data are numbered units. A chunk or TLS record is any number of them. |
| `HostCheck` | `host_check.cpp`, `openssl_hostname_validation.cpp` | Operators on names as byte sequences. |
| `HttpEvSession` | `SessionImplEV` of `http_cli` | The setters, DoRequest, and what libevent does with a request. `peer` is the server's certificate. |
| `HttpBeastSession` | `SessionImplBeast` | One action for each handler of the io_context. `stream_` holds the step that is pending. Failures end the run; `onResponse` is never set and throws out of DoRequest (`OnReadThrows`), which leaves a pending shutdown and its timer behind (`leftOver`). |
| `HttpClient` | `http_cli/session.cpp` | `impl_` picks one of the three clients at the start. |

`MC*` modules and `.cfg` files give instances. `*Proofs` modules hold theorems.
Operators named like a variant of an action (`SignalWithoutNotify`,
`CloseAgain`) are faulty forms that show each property can fail.

Where the code uses memory that was freed, hands libuv an object that is in use,
or runs the handler of a destroyed stream, the models go to a state `undefined`
and stop there. Where a WTF_CHECK fails they go to `aborted`.

## Runs

| Run | Bounds | Shows |
|---|---|---|
| `message_loop` | 2 posters, 1 observer, 3 tasks, 4 instants, timer unit 2 | No wake-up is lost; order and due times hold; due tasks run before disposal; observers hear each task; every task settles; Terminate ends the loop. |
| `pipeline` | 2 producers, 1 consumer, depth 3, 4 items | FIFO refinement; slot and in-flight accounts; no pop from an empty deque; MoreAvailable stays true; items are consumed. |
| `waitable_event` | 2 plain and 2 timed waiters, a resetter, 4 signals | Nobody is stranded; no signal wakes two threads; the flag does not stay up while a thread waits. A wait that times out may lose a signal. |
| `task_queues` | 3 threads, 4 queues | Entries follow loops; ids are unique; same-thread answers are right, or the call throws about a loop that ended since it began. |
| `task_queues_race` | 2 threads, overlapping first use | Violation: two registries, one id twice. |
| `thread_lifecycle` | owner, 1 user, 3 tasks, 3 instants, timer unit 2 | The constructor's locals outlive their uses; Join's own PostTask finds the loop; Join completes. The user may post at any time. |
| `thread_post_races_join` | owner, 1 user, 2 tasks, 2 instants | Violation: the loop is destroyed under a PostTask. |
| `ws_session` | libevent: 2 connections, 2 frames, lengths to 3. libuv: 3 writes, lengths 0, 1, 125 to 128, 2 masks. Payload: 4 bytes of 18 values | Close is sent once, last, and answered; only valid text is delivered; CONNECTED follows a full handshake; sending from a handler fails its check at most for a message found at EOF in an incomplete reply; on a first connection the close timer and frames fail no check; an unanswered close ends. What libuv is given to write decodes to the message's header; libuv's DoConnect returns. The UTF-8 table and Base64 agree with their definitions. |
| `ws_close_never_ends` | 1 connection, 1 frame | Violation: an answered close has no timeout left. |
| `ws_stale_close_timer` | 2 connections, 1 frame | Violation: an old close timeout aborts a new connection. |
| `ws_frame_length` | 1 connection, 1 frame, lengths to 4 | Violation: a length that does not fit 7 bits. |
| `http_session` | libuv: 3 requests, 4 body units. libevent: 1 retry, names of each shape. Beast: 2 redirects | libuv: one handler call for each connection, body units conserved in order. libevent: certificates are accepted only if they name the host, and always if they do and have no malformed name; a response over TLS comes only from a server that was accepted. Beast: within a DoRequest, the shutdown timer that runs belongs to the current stream. Each leaves DoRequest. |

The bounds let each interesting case happen. Two posters and a posting task race
for one timer. A timer unit of 2 instants makes truncation visible. Three
pipeline slots and four items let slots be used again. In `WsSession`,
`LenModulus` 4 stands for 2^7 and `CtrlMax` 2 for the control payload limit, so
lengths fall on both sides of `CtrlMax`. A length of 4 would be cut to 0. Such a
frame is read as an empty one followed by other bytes, which the server may send
anyway, so `ws_session` stops at 3 and `ws_frame_length` has the cut itself. Two
connections show state that survives a reconnect. The 18 byte values are both
ends of each range that the UTF-8 table tells apart, and 4 bytes are the longest
sequence. The names of `MCHttpSession` have a wildcard in each place that
hostmatch tests, an internationalised label, other case, too few labels and a
zero byte. The `pipeline` run has one consumer, which the class comment asks
for; the proofs cover any number.

Deadlock is not checked where the system may stop: a loop that has ended, a
session that is closed, a client with no more requests.

### Fairness

- Threads of the message loop, of `Thread` and of the pipeline run, calls that
  have begun finish, tasks and callbacks return, and the clock advances.
- A consumer keeps calling Consume. Without it nothing is promised.
- A thread woken by the condition variable gets the mutex again.
- libevent runs expired timers, ends the handling of an EOF that it began, and
  leaves dispatch when told. Nothing is
  assumed of the WebSocket server. Its frames are bounded, and the close timer
  has no duration, so `UnansweredCloseEnds` does not speak of a server that
  keeps postponing the timer.
- libuv reports lookups and connection attempts. `RequestReturns` and
  `UvConnectReturns` also assume that the server ends the connection: these
  clients never do so first.
- libevent's HTTP layer has timeouts of its own, so an attempt to connect, a
  handshake and a request each end (`EvFairness`).
- The io_context runs what is ready, and its peer answers or ends
  (`BeastFairness`).

## Disagreements found

- `GetInstance` can build two registries, so queue ids are not unique.
- A PostTask that overlaps Join may use a loop that is already destroyed.
- An answered Close has its timeout freed and not armed again.
- The close timeout survives a reconnect and aborts the process.
- Extended payload lengths are cut to 7 bits.

`PROJECT.json` quotes the comment or declaration each one contradicts.

The models show more of the kind, for which there is no run:

- WaitWithTimeout clears the flag when it times out, so a Signal in between is
  lost. `waitable_event_unittest.cpp:96` says that each Signal should wake exactly
  one thread. `SignalWakesOne` states it; it is proved where nobody waits with a
  timeout.
- A task that calls Terminate ends the loop before Join, and Join then posts to a
  loop that may be gone (`SelfTerminatingSpec`).
- Comments of `openssl_hostname_validation.cpp` (lines 57 and 107) say that a
  certificate is malformed if any of its names has a zero byte. In the code the
  first name that matches or is malformed decides.
- The exception that ends a DoRequest of the Beast client leaves its shutdown
  timer, which can stop the run of the next DoRequest.
- At EOF in the HTTP reply, the WebSocket client on libevent reads what is left
  as frames. A handler that answers such a message fails the check of SendMsgEx.
- HandleCloseFrame ends the reason with a zero byte, which for a full frame is
  one past `ctrlPayload_` (`session_impl_ev.cpp:1226`). It lands in the padding
  before the next member, and the model changes no member there.

Other weak points are listed in `PROJECT.json` as hazards. Some have no property,
and say why.

## Proofs

Most theorems have the form `Spec => []P` (or a refinement), for any constants
that satisfy the module's named assumption. The assumptions are that bounds are
natural numbers and sets of threads finite, and those named below. The others
say what a function of the code computes, for every input.

Every invariant that a passing run checks is proved.

- `MessageLoopProofs`: types, `NoLostWakeUp`, `RunsInOrder`, `NeverEarly`,
  `DueTasksRunBeforeDisposal`, `ObserversHearEveryTask`. `NoLostWakeUp` rests on
  two lemmas: truncation never moves a wake-up past the time asked for, and
  RegisterTask arms the timer for the top of the queue. `OrderInv` adds that
  `order_` is above every order given out, and that a queued task registered
  before one that has run has a later target time. `EarlyInv` adds that the flush's
  clock sample is not ahead of the clock. `OwedInv` adds that, while
  the loop drains, an owed task is queued or has run and is due at the flush's
  sample. `ObserverInv` adds that `ran` is not empty inside a task, and that an
  observer that was not added has heard nothing.
- `PipelineProofs`: types, `PopNeverEmpty`, `SlotsAccounted`,
  `InflightAccounted`, `IfEmptyOnlyInFront`, `MoreAvailableMeansQueued` and the
  refinement of `BoundedChannel`. The invariant adds that each thread is at one
  place of a call, and that announced, taken and unannounced items make up the
  queue. `Counted` adds, where there is one consumer, that the queue is not
  empty from the time Consume counted what is left until the next pop.
- `WaitableEventProofs`: types, `NoStrandedWaiter`, `SignalWakesAtMostOne`, and
  `SignalWakesOne` for `TimedWaiters = {}`.
- `TaskQueuesProofs`: types, `EntriesMatchLoops`, `QueueIdsUnique`,
  `RunsTasksAnswersRight`, for first uses that do not overlap (`~Concurrent`;
  `task_queues_race` shows why). `InstanceInv` says that only one registry was
  ever made, `EntriesInv` that its entries are those of the loops with ids below
  the counter, `CheckInv` that the loop of the thread that asks still exists and
  has another id than the one asked about, `AskedInv` that ids asked about were
  given out before. The loop asked about may end during the call.
- `ThreadLifecycleProofs`: `ConstructorOutlivesLocals`, `JoinFindsLoop` and
  `JoinDrainsDueTasks`, for `Spec`, whatever users post meanwhile. `LatchInv`
  ties the constructor's place to the latch. `ThreadInv` says which tasks are
  posted or run, which flags are set and how far Join is, as the thread goes
  through its life. `DrainInv` adds that a task runs in a flush that began at or
  after its time, Join's among them, and that after the last flush what is left
  of the tasks before Join's is later than that flush; users may still register
  tasks, but with a higher order. `JoinDrainsDueTasks` is not repeated by a run.
- `ThreadLifecycleProofs`, on the parts of a Thread, for `SelfTerminatingSpec`,
  where any task may call Terminate: `ThreadRunsLoop` and `ThreadUsesLatch` say
  that every step is one of the loop or leaves it alone, and the same for the
  latch. `MessageLoopProofs` and `WaitableEventProofs` are instantiated with a
  Thread's constants, so their invariants hold inside a Thread
  (`ThreadLoopSafe`, `ThreadLatchSafe`).
- `WsClientProofs`, on the libevent client: types, `CloseIsLastFrame`, `CloseIsAnswered`,
  `ConnectedAfterHandshake`, `DeliveredIsValid`, `ChecksHold`. The control payload limit is at
  least 2 and below the range of the length field, and `size_t` holds a frame's
  length. `IInv` says of the session that a Close frame was sent, as the last one,
  exactly when `sentCloseFlag_` is set, that a received Close was answered, and
  that CONNECTED means a handshake and no Close; and that a connection whose
  handshake is not over is CONNECTING. Each handler keeps this, so their
  compositions do. `ValidInv` adds that a message that may still be delivered has
  only text that decoded, or its last frame is yet to come. The type theorem
  includes that what is taken of a control frame fits `ctrlPayload_`. `CheckInv`
  says that after the handshake frames are read in state CONNECTED or CLOSING,
  and of the first connection that a header being read has its buffers unless a
  sent control header replaced it, that no header is being read before the
  handshake is over, and that the close timer is pending only after a Close
  frame. What it says of the first connection fails on later ones, as
  `ws_stale_close_timer` shows for the timer, so `ChecksHold` does not claim it there.
  `ClientImplements` carries all of it over to the client of `session.cpp`.
- `WsClientProofs`, on the libuv client: `HeaderRoundTrip` says that UnpackHeader
  gives back every field of any header PackHeader wrote, by following where each
  byte lies for the two forms of the length (the third needs a length that the
  7-bit field cannot hold) and with or without a mask. `HeadersDecode` follows
  from `UvInv`: the request is the first thing written, and everything after it
  is a frame whose header was packed from its message or whose header bytes were
  gone when they were sent. Assumed: lengths are natural numbers, a mask is four
  bytes.
- `WsPayloadProofs`: `Utf8Correct` and `Base64Correct` for strings of any length,
  and from them `Utf8Agrees` and `Base64RoundTrip` for a message in chunks
  (`TextSpec`). `WsClientProofs` instantiates the module: a client's payload is
  such a behaviour (`ClientReceivesText`), which gives `ClientValidatesUtf8` and
  `ClientBase64`.
  Assumed: what arrives are bytes. For UTF-8, the run of the automaton over a
  string is shown to exist and be unique, by induction; a run that ends in
  ACCEPT was in ACCEPT one character earlier, and every character leads from
  ACCEPT to ACCEPT. So ACCEPT means a sequence of characters. A state
  that is neither ACCEPT nor REJECT can be led to ACCEPT by the bytes 80 and bf,
  and REJECT is never left. `TextInv` says that `utf8State_` is what ValidateUtf8
  would say of all that arrived at once; it is inductive because a run over two
  strings is a run over one that goes on over the other. For Base64, a string of
  3 f + r bytes is followed through the triples, the rest and the padding; a bit
  has the same place counted in sextets as in bytes.
- `HttpClientProofs`, on the libuv client: types, `AnsweredOnce`,
  `BodyConserved`. `AnswerInv` says that the open connection was not answered and
  the earlier ones were. `UnitsInv` says that the units on the wire and in the
  BIO are in order, that those on the wire are newer than those received, that
  parser and BIO hold each received unit once, and that with TLS the parser's are
  older than the BIO's. `ClientAnswered` and `ClientBodyKept` carry this over to
  the client of `session.cpp`.
- `HttpClientProofs`, on the Beast client: `TimerOfThisStream`. `TimerInv` adds
  that the timer is gone from an io_context that was stopped and is not armed
  twice, so that the request after a redirect does not inherit one. Timers that
  an exception of an earlier DoRequest left behind are excepted (`leftOver`).
- `HttpClientProofs`, on the libevent client: `HostnameChecked` says that
  ValidateHostname answers MatchFound only when a well-formed name of the
  certificate names the host (`CertNamesHost`), and always when that is so and no
  name is malformed. The scans for a zero byte, a dot or a
  star and the loops of Curl_raw_equal are least elements of sets of positions;
  hostmatch is compared with `NamesHost` case by case. Assumed: a host name has no
  zero byte, which a C string cannot have; certificates may. `IdentityChecked`
  follows from `IdentityInv`: what VerifyCertCallback said of `peer` agrees with
  that definition, a request is on a TLS connection only after its
  handshake was accepted, and a response frees the request, after which no
  handshake can replace `peer`.

`MessageLoop`, `Pipeline`, `WaitableEvent`, `TaskQueues`, `WsSession` and `HttpSession` have
their type invariants proved, and no run repeats them.

Induction over data is done with sets: a non-empty set of natural numbers has a
least element (`NatMin`), so the set of the numbers for which a claim fails is
empty. Recursive functions are shown to satisfy their equation in this way.

Only model-checked: the liveness properties `EveryTaskSettles`,
`TerminateEndsLoop`, `EveryItemConsumed`, `SignalTakenByWaiter`, `JoinCompletes`,
`UnansweredCloseEnds`, `UvConnectReturns`, `RequestReturns`, `EvRequestReturns`
and `BeastRequestReturns`. They need fairness and ENABLED, which are outside the
prover.

## Not modelled

- Masking of payloads and the choice of masks. Masks go through the header
  codec as data.
- Of the libevent HTTP client: the request's body, the certificate store, the
  empty setters, and numbers of retries from 2^31, which libevent would take
  for no limit. SetTimeout only changes how long libevent waits.
- Of the Beast client: the empty setters, and what they make unreachable
  (OnTimeout, HandleFail has no caller).
- What libuv does with a write request or stack buffer that is reused, beyond
  "undefined".
- Reflection (templates and a registry that no target compiles), tracing, log
  output, time arithmetic, URL parsing: single-threaded data conversion or
  output.
- Wrap-around of `order_`, which needs 2^31 tasks, and concurrent Join calls.
- The platform objects behind the semaphore.

## Plan

1. Properties for the hazards that have none: alignment after a reconnect,
   fragmentation.
2. Masking, as an operator next to `WsCodec`.
3. The class registry of `reflect`.
