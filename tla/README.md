# A verification of tinycore

tinycore is an asynchronous network library in C++: an event loop over
`boost::asio`, buffered streams (plain and SSL) on that loop, and an HTTP server,
an HTTP client, WebSockets and a small web framework on those streams.  The
implementation is `src/src/tinycore` (about 15,000 lines), the tests are
`src/test`; `src/dep` holds third-party code.  This directory holds TLA+ models
of the library, the TLC runs that check them, and theorems checked by TLAPS.

## The system

Everything runs on one thread.  A program posts functions, timers and socket
operations to an `IOLoop`; the loop takes ready handlers from a FIFO and runs each
to its end.  Inside a handler all calls are synchronous.  The hard behaviour is
therefore not shared memory but *what is waiting*: completions already queued
when a stream is closed, callbacks posted and not yet run, timers cancelled after
they expired, members an earlier call left set, and handlers that re-enter the
object that called them.

| Part | State it keeps | Operations | Talks to | What makes it correct | Modelled by |
|---|---|---|---|---|---|
| `BaseIOStream`, `IOStream`, `SSLIOStream` (`asyncio/iostream`) | read buffer, write queue, one callback per kind, S_READ/S_WRITE, count of posted callbacks, closing/closed | `start`, `connect`, `readBytes`, `readUntil`, `readUntilRegex`, `readUntilClose`, `write`, `setCloseCallback`, `close`; completion handlers | the reactor (operations out, completions in); callbacks to the application through `runCallback` | bytes in order and once; a read answered once and never forgotten; a write callback only when the bytes have left; one operation of a kind at a time; the close callback once and last | `IOStream` |
| `IOLoop`, `_Timeout`, `_SignalSet`, `PeriodicCallback` (`asyncio/ioloop`) | stop flag, handler queue, timers, signal callbacks | `start`, `stop`, `addTimeout`, `removeTimeout`, `addCallback`, `runSync`, `signal`; `PeriodicCallback::start/stop` | every other part | a stop is never lost; a cancelled timer that has not expired never fires; one chain of timeouts per periodic callback | `IOLoop` |
| `StackContext` (`asyncio/stackcontext`) | the current list of contexts | `wrap`, the scope guards, `handleException` | wrapped callbacks everywhere | an exception reaches the innermost handler that accepts it | in `RequestHandler` (one context), as the route of exceptions in `HTTPClient` |
| `TCPServer` (`asyncio/tcpserver`) | acceptors | `listen`, `onAccept` | streams | goes on accepting | a successful accept only |
| `HTTPServer`, `HTTPConnection`, `HTTPServerRequest` (`asyncio/httpserver`) | the request being read or answered, write and finish flags, keep-alive | header and body callbacks, `write`, `finish`, `onWriteComplete`, close | a stream below, the application above | one request at a time, the next read started only when the answer has left, closed when it must be | `HTTPConnection` |
| `HTTPClient`, `_HTTPConnection` (`asyncio/httpclient`) | the pending final callback, timers, the stream, headers and chunks | `fetch`, connect, headers, body, chunks, redirects, timeouts, close | a stream, the loop's timers | the callback of a fetch is called exactly once | `HTTPClient`, `Fetch` |
| WebSockets (`asyncio/websocket`) | handshake, fragment buffer, termination flags, the waiting timer; the client's read queue | accept, `onMessage`, `close`, `ping`, client `readMessage` | the HTTP request's stream | messages whole and in order; the closing handshake ends | `WebSocket`, `Session`; lengths in `Codecs` |
| `RequestHandler`, `Application`, transforms (`asyncio/web`) | headers written, finished, write buffer, transforms | `execute`, `write`, `flush`, `finish`, `sendError`, `redirect` | `HTTPServerRequest` | one well-framed response per request | `RequestHandler` |
| `AsyncTestCase` (`asyncio/testing`) | stopped, running, failure, the time limit | `wait`, `stop`, `handleException` | the loop | `wait` returns once per `stop` or fails at its limit | not modelled |
| `MessageBuffer`, `ObjectManager`, `Singleton` (`utilities`), `Watcher` (`debugging`) | byte ranges; objects destroyed at exit; counters | small methods, some under a mutex | all parts | positions stay in range | positions in `IOStream` |
| `httputils`, `httputil` | none | parsing and encoding | | functions of their input | two algorithms in `Codecs` |
| `compress`, `configuration`, `logging`, `crypto`, `common` | start-up state, or that of zlib, OpenSSL, boost | wrappers | | | not modelled |

`PROJECT.json` lists the same parts with their status, and under `hazards` the
places of the code where an order of events, a stale member or a boundary can go
wrong, with the properties that speak of them.

## The modules

| Module | What it is |
|---|---|
| `IOStream` | one stream with its reactor and FIFO; the base of the next four; implements `Delivery` |
| `StreamCalls` | the read calls as the classes above a stream make them |
| `HTTPConnection` | EXTENDS `StreamCalls`: a server connection as the user of the stream |
| `HTTPClient` | EXTENDS `StreamCalls`: a fetch as the user of the stream; implements `Fetch` |
| `WebSocket` | EXTENDS `StreamCalls`: a WebSocket connection of a server; implements `Session` |
| `Delivery`, `Fetch`, `Session` | abstract specifications: what the application that uses a stream, the caller of a fetch, and the handler of a WebSocket are promised |
| `RequestHandler` | a handler of the web framework above `HTTPServerRequest` |
| `IOLoop` | the loop, its timers, signals and a periodic callback |
| `Codecs` | three stateless algorithms against what their input was made from |
| `MC*` | values of the constants for TLC |
| `IOStreamProofs`, `IOStreamOrder`, `IOStreamOperations`, `HTTPConnectionProofs`, `HTTPClientProofs`, `WebSocketProofs`, `RequestHandlerProofs`, `IOLoopProofs` | theorems |

The three users of the stream are composed with it, not with an abstraction of it:
their handlers are the callbacks `IOStream` posts, and the FIFO is one, so that
their timeouts and posted functions fall between completions in every order the
loop allows.  `RequestHandler` stands apart, connected by an assumption and a
guarantee: `FinishEnds` of `HTTPConnection` holds for applications that write before
they finish, and `WellFramed` shows that a `RequestHandler` gives its connection
nothing but headers, a body and then `finish`.

## The stream

`IOStream.tla` models one stream object, with `Secure` choosing the subclass.

*Shape.*  A C++ helper is a function from a stream record to a stream record, with
the helper's name; an action is one handler, with its whole call chain, in one
step.  The record `stream` holds the members of `BaseIOStream` (callbacks as the
number of the call that set them, 0 for none), the flags of `_state`, the pending
count, and two parts of the loop: `kernel`, the operations the reactor holds, and
`queue`, the FIFO of ready handlers.  `running` is the callback being executed;
`finished`, `handed`, `closeSets` and `closeRuns` are history for the properties.

*Actions.*  `Start`, `Connect`, `ReadBytes`, `ReadUntil`, `ReadUntilClose`,
`Write`, `SetCloseCallback`, `ResetCloseCallback` and `CloseCall` are the calls of
the application.  They are possible whenever no completion handler is half-way,
inside a callback of the stream or outside one, since other handlers of the same
loop may call the stream too.  `Complete(op)` is the reactor putting a completion
in the queue; `HandleCompletion` runs `onRead`, `onWrite`, `onConnect`,
`onHandshake` or `onShutdown` (a successful connect that finds its socket closed ends
where `non_blocking` throws); `BeginCallback`, `CallbackReturns` and
`CallbackThrows` are the wrapper that `runCallback` posts, split where it calls the
application so that the calls above can happen in between.

*Data.*  Bytes are positions in the peer's data and in the outgoing data, so a
range `lo+1..hi` is a buffer's content and order and loss can be told apart.
A delimiter and a regular expression are the sets of positions at which they
match (`MarkAt`).  Filling the read buffer to its limit is the result `overflow`,
possible for any read: the size of the buffer itself is not modelled.  Contents,
logging and the `StackContext` of callbacks are left out.

*The reactor.*  `boost::asio` is modelled from the way the code uses it: a started
operation completes once, with success or an error, in any order relative to
other operations; closing the socket turns what is still outstanding into
`operation_aborted` completions, reads first.  asio tries an operation when it is
started, so a success may already be queued when the close comes: this is
`Complete` before `CloseCall`.  The model lets every operation complete at any
time; that is an over-approximation only in timing.  Popping an emptied write
queue is undefined behaviour: the model records it in `undefined`, takes both
outcomes a build can produce, and the loop's fairness does not extend past it.

*The abstract specification* is `Delivery.tla`.  It has no queue, no operations and
no members: only the calls still to be answered (`owed`, `waiting`), the bytes that
arrived and were given, and whether the close callback is set (`watched`) or already
taken (`notice`).  `Settle` is all a stream may do between callbacks: receive bytes,
close, give up a read on a closed stream, give up a write callback, and take the close
callback when nothing is left to be answered.  Each callback is an action of its own:
`Answer` gives the oldest owed read the bytes that follow those given before,
`Written` calls the oldest write callback, `Tell` is the one call of a close callback
taken once.  `Delivers` is `Delivery!Spec` under the mapping `Promise`, where a call is
owed while a member names it or a posted handler carries it.  `Connected`, `NoWrite`
and `LostRead` are what is left of the code in it: the connect callback, and the two
calls of an empty function, the second on closed streams only.

*Not modelled.*  `start` or `connect` a second time, `connect` on a closed stream,
`_error`, the IOCP variants of the same handlers (`BOOST_ASIO_HAS_IOCP`), the
destructor of a `Wrapper` dropped without having run, `getRemoteAddress`.

### What the runs check

| Run | Instance | Shows |
|---|---|---|
| `stream_reads` | plain, accepted; 3 bytes, delimiter ending at 1 and 3, regex at 2; 2 reads, 1 write; close callback set twice; callbacks throw | `TypeOK`; one read and one writing operation at a time, of which the flags of the state say the truth (`OneOperation`); bytes in order, each once (`BytesInOrder`); one answer per read (`AnsweredOnce`); nothing owed follows the close callback (`CloseComesLast`); an idle open stream listens (`NeverDeaf`); the application gets what `Delivery` promises (`Delivers`) |
| `stream_writes` | plain, connecting; 2 writes of up to 2 one-byte packets, 1 read, throwing callbacks | the pending count is exact (`PendingIsPosted`); queued bytes are never forgotten (`NoForgottenWrite`); a write callback means its bytes left (`WrittenMeansSent`); an emptied write queue is popped, and an empty function called for a read, only after a close (`BrokenOnlyWhenClosed`) |
| `stream_ssl` | SSL, connecting; 1 byte, 2 reads, 1 write; fair loop | a waiting read is served also around the handshake and during the shutdown (`NoForgottenRead`); a stream that closes with only callbacks and aborted operations waiting runs its close callback (`CloseCallbackDeliveredAfterAborts`) |
| `stream_lost_close` | plain, accepted, 1 byte; fair loop | **violated**: a close callback can be lost (see Findings) |

*Bounds.*  Two reads are the least that show what one read leaves behind for the
next; three bytes let a read end before, at and after the delimiter and the regex,
with and without streaming; two packets in a write are the least that can leave in
part, and two writes the least that share the queue; two settings of the close
callback show a second setting after the first was spent.  Every property is about
neighbouring operations, so a third read or write adds length and not a new case.

*Fairness.*  `FairSpec` assumes weak fairness of the loop (`Loop`: the handlers it
holds are run, a callback returns or throws) and nothing of the peer or the
application: a stream whose peer is silent may wait for ever.  The loop's `run`
returns only when stopped, and runs its handlers in order.  Undefined behaviour
ends the obligation.  The runs do not check for deadlock: a program that has made
all its calls and closed its stream is finished.

### What is proved

`IOStreamProofs.tla`, for every value of the constants that satisfies
`BoundsAssumption` (any number of bytes, reads, writes, any packet size, both
subclasses):

- `TypeCorrect`: `Spec => []TypeOK`;
- `ReadNeverForgotten`: `Spec => []NoForgottenRead`: a read that waits on an open
  stream always has a read operation, or the handshake that leads to one.

`NoForgottenRead` is not inductive.  `onRead` with `operation_aborted`, and an
aborted handshake, clear the flag that serves the read and start nothing; that is
right only because such a completion exists on closed streams alone.  The
inductive invariant `IInv` therefore adds (`Sound`) that the queue of a stream that
is not closed holds no aborted completion.  The proof follows the call graph: for
each helper one lemma says that it keeps a stream `Sound` and what it does to the
five members of `Core` (`Drops`: it may only drop the waiting read; `Keeps` and
`Serving`: it keeps the read and leaves an operation behind), then one lemma per
action, then `StepInv` and the theorems.  The argument uses no property of the
external code beyond its modelled outcomes.

`IOStreamOrder.tla` proves, under the same assumption, what the stream owes the
application and in which order it pays: `PendingCounted` (`[]PendingIsPosted`),
`ReadAnsweredOnce` (`[]AnsweredOnce`), `CloseIsLast` (`[]CloseComesLast`),
`CloseRunsOnce` (`[]ClosedOnce`: the close callback runs at most once per setting, which
in the run is a part of `Delivers`), `WriteWaitsForBytes` (`[]WrittenMeansSent`),
`BytesKeepOrder` (`[]BytesInOrder`), `WriteNeverForgotten` (`[]NoForgottenWrite`) and
`AlwaysListens` (`[]NeverDeaf`).

- *Moves.*  Every helper is a chain of a few moves: operations start, end or are
  aborted (`Waits`), members are dropped (`Forgets`), one callback is posted from the
  member that held it, bytes are sent.  A set of streams every move keeps (`Kept`) is
  kept by every helper; that is proved once, helper by helper, so that each part of
  the invariant below is shown for the moves alone, and then for the calls of the
  application and for the loop taking the handler at the head.
- *Owed.*  None of the properties of the queue is inductive: whether a read can be
  answered a second time depends on the member that still names it, whether the close
  callback comes last on the pending count at the moment it was posted, whether bytes
  are in order on `consumed` and on the last range in the queue.  `Owes` relates the
  three places a callback can be (set in a member, posted, run or running) for reads,
  writes and the close callback, and adds that the ranges in the queue follow one
  another and end at what has been consumed, and that a posted write callback belongs
  to bytes that were sent.  `OInv` is `IInv` with `Owes`.
- *Progress.*  `Alert` adds to `OInv` that a stream with queued bytes has an operation,
  or the connect or the handshake before one (`Flows`), and that a started stream has
  somebody to hear from (`Heard`), with the cases in which a handler is half-way.
- *Promised.*  `PromiseKept`, `Spec => Delivers`, is the refinement of `Delivery` for all
  constants.  `Owes` does not imply it: that the posted callbacks of one kind are in the
  order of their calls, all older than the call in the member (`Numbered`), that the
  range of each lies within what had arrived (`Filled`), and that a close callback was
  posted with none before it (`CloseFirst`) are three more sets that the moves keep;
  with the exact count they are `Ready`, and `DInv` is `OInv` with `Ready`
  (`StaysReady`).  `Settles` states `Settle` of two streams; every move does it, and it is
  transitive, so the streams a start can settle into are a kept set, and every helper
  settles (`GoesSettles`).  A step of the application or of the loop is then a change of
  the members (`Opens`, `CallsRead`, `CallsWrite`, `Taken`) from which helpers go on
  (`GoesTo`), and `StepAsPromised` maps it to one action of `Delivery`.  `BeginCallback`
  is mapped by the callback at the head: `Chain` says where its bytes begin, `Filled`
  that they had arrived, `Numbered` that its call is the oldest of its kind,
  `CloseFirst` that no close callback is behind it if it carries data.

`IOStreamOperations.tla` proves `OneOperationPerSide` (`[]OneOperation`) and `BreaksOnlyClosed`
(`[]BrokenOnlyWhenClosed`).  An operation is outstanding (`Out`) from `Arm` to the
handler of its completion, whether the reactor holds it or the FIFO.  `Fine` says that
each is outstanding once and that a handshake's completion lies behind the connect's;
`Flagged` says what `S_READ`, `S_WRITE`, `_sslAccepting` and `_sslAccepted` know of them.
The flags of the handshake are needed because its handler clears `S_WRITE`, which is
right only if no connect, write or shutdown is outstanding then: a connect cannot be,
for its handler ran before, and the others start only when `_sslAccepted` is set.
`Flagged` also holds that a write operation of an open stream has bytes to send, so
that `front()` after it is defined.  Before a stream is opened nothing is outstanding
(`Unopened`), which is what lets `connect` arm without asking.  A helper that starts
nothing is `Quiet`; `Leads` composes the others.

With these every safety property of the stream's runs is proved for all constants;
what needs fairness is model-checked only.

## The loop

`IOLoop.tla` models an `IOLoop` with its `_Timeout`s, its `_SignalSet` and one
`PeriodicCallback`, and a program that starts the loop again and again.

*Shape.*  The record `loop` holds `inside` (`start()` is executing `run()`), the
flag `_stopped`, `halted` (the io_service has been stopped), the FIFO of ready
handlers, the timers and the signal set.  The C++ functions are functions from such
a record to another.  `current` is the handler whose callback is executing: `Run`
takes a handler and, unless the code of the library settles it alone (`Quiet`: an
aborted timer, a deadline, an interrupt), calls the program's callback, which then
makes any of the calls (`Stop`, `AddCallback`, `AddTimeoutCall`,
`RemoveTimeoutCall`, `Signal`, `PeriodicStart`, `PeriodicStop`) before
`HandlerReturns` or `HandlerThrows`.  `Start` and `RunSync` enter the loop; `Return`
leaves it.  A timer is a slot that is free again when the handler owning its
`_Timeout` is destroyed, which is when a weak reference to it (`sync`,
`periodic.timeout`) expires.

*The reactor.*  `Expire`, `Deliver` and `Raise` are asio and the operating system:
an armed timer may expire and a raised signal be delivered between two handlers of
a running loop.  A handler in the FIFO can no longer be cancelled; a stopped
io_service keeps its FIFO for the next `start()`.

*Not modelled.*  A `start()` inside a handler, several periodic callbacks, clocks
and durations, a signal callback that changes its own registration (it would
destroy the function that is executing).

| Run | Instance | Shows |
|---|---|---|
| `loop` | 2 timers, 2 posted functions, 2 starts of the periodic callback, an interrupting and a user signal; callbacks throw; fair loop | `TypeOK`; a `stop()` is never swallowed while the loop goes on (`StopIsHeard`); a timer has exactly one handler while it is due (`OneHandlerPerTimer`); a started periodic callback goes on (`KeepsTicking`) and has at most one chain per start (`OneChainPerStart`); registered signals are waited for, through stops, restarts, removals and handlers (`SignalsAreHeard`); a `runSync` with a deadline comes back (`DeadlineReturns`) |

*Bounds.*  Two timers hold a deadline and a periodic timer, or the two chains of two
starts; a third chain would need a third timer and be caught by the same count.
Two posted functions are enough to stand in front of an expired timer and behind
it; the FIFO itself also holds every aborted and expired handler and is not cut
off.  One signal interrupts the loop and one does not.

*Fairness.*  `FairSpec` gives weak fairness to the loop (its handlers run and end)
and strong fairness to `Expire` and `Deliver`: the reactor is polled between
handlers and the FIFO serves what it finds in turn, so a timer that stays armed
expires although each moment of it can be interrupted by a handler.

*What exceptions may be thrown* is the constant `Throws`.  The runs let posted
functions and timeouts throw anything, a periodic callback a `std::exception`, and
signal callbacks nothing.  The last two are preconditions of `KeepsTicking` and
`SignalsAreHeard`: another exception skips `scheduleNext` (`ioloop.cpp:241`), and an
exception of a signal callback skips the renewal of the wait (`ioloop.cpp:43-50`).
`OneChainPerStart` is the most that holds: `stop(); start()` in the periodic
callback itself, or while its handler is queued, leaves two chains.

*Proved* (`IOLoopProofs.tla`), for all constants: every safety property of the run.

- `StopAlwaysHeard`, `Spec => []StopIsHeard`.  The invariant is `Heard(loop)`: the
  flags are there, and a running loop whose `_stopped` is set is halted.  `_stopped`
  and the io_service's own flag are set and cleared by different functions; one lemma
  per function of the loop shows that it keeps `Heard`, then one step per action.
- `TypeCorrect`, `Spec => []TypeOK`, and `TimersHaveOneHandler`,
  `Spec => []OneHandlerPerTimer`.  `LoopInv` says that the loop is `Tidy`: each queued
  timer has one handler, in the FIFO or executing, of the timer's own kind, and no
  deadline ever executes a callback of the program.  The kinds are what the weak
  references rest on: a handler that destroys its `_Timeout` cannot be the one
  `runSync` refers to.
- `ChainsComeFromStarts`, `Spec => []OneChainPerStart`, and `TicksGoOn`,
  `Spec => []KeepsTicking` if the periodic callback throws nothing but a
  `std::exception`.  `ChainStep` lists what a step can do to the set of timers that
  will call `run()`: nothing, less after a `stop()`, one more with a `start()`, one
  exchanged for the next, or one lost to another exception.
- `SignalsHeard`, `Spec => []SignalsAreHeard` if a signal's callback throws nothing
  that `start()` survives.  The two hypotheses on `Throws` are the preconditions
  named above; the other theorems hold for every `Throws`.

`DeadlineReturns` needs fairness and is model-checked only.

## The HTTP server connection

`HTTPConnection.tla` EXTENDS `StreamCalls`, and through it `IOStream`: the stream, its reactor and its FIFO are the
ones above, and `conn`, an `HTTPConnection` with the request it serves, takes the
application's place as the caller of the stream.

*Shape.*  `Accept` is `TCPServer::onAccept` up to the first `readUntil`.  A callback of
the stream runs in two steps: the connection's handler up to the place where it calls
the application (`RunHeaders`, `RunBody`, `RunWrite`, `RunClose`), and what it does
after that (`Returns`, or `Throws` if the application threw).  In between, and
between handlers, the application calls `AppWrite`, `AppFinish` and
`AppSetCloseCallback`, so that a request may be answered at once, later, or from a
write callback.  `Settle` is the destructor of a `WriteCallbackWrapper`: a stream
that drops a write callback without running it clears the connection's
`_writeCallback`.  What a header block says (malformed, bad length, body or none,
`Expect`, keep alive or not) is chosen when it is parsed; where it ends is `MarkAt`.
A handler may throw before it reaches the application, at a length that is no number
or at the arguments of a body (`Escapes`).

*Not modelled.*  The contents of requests, `X-` headers, a request that the
application drops without finishing it, accept errors, several connections (they
share nothing but the loop).

| Run | Instance | Shows |
|---|---|---|
| `http` | 3 bytes, so up to three pipelined requests or one with a body; 2 writes; the application may throw or finish without having written; fair loop | while a request is answered no other is read (`OneAtATime`), which also keeps `setReadCallback`'s "Already reading" assertion from failing; the next read starts when the answer has left (`AnswerLeftFirst`); a write completion belongs to the request in progress (`CompletionIsCurrent`); a connection that is to be closed is closed after the answer has left (`DisconnectsAfterAnswer`) and hands no further request over (`NoRequestAfterLast`); a finished answer does not wait for ever (`FinishEnds`) |
| `http_body` | 2 bytes, no answers | **violated**: a body can arrive after its request is gone (see Findings) |

*Bounds.*  Two requests and two writes are the least with which a write of one
request can be confused with one of the next; the third byte is a body, or a third
request that must not be read.

*Fairness.*  `FairServerSpec` adds to the loop's weak fairness that of
`ServerComplete("write")`: a write to the peer is completed by the reactor, with
success or an error.  `FinishEnds` speaks of applications that have written before
they finish (`conn.wrote`), as `RequestHandler` does with its headers: with nothing
but the `100 Continue` line in flight `finish()` would wait for a write callback
that does not exist.

*Proved* (`HTTPConnectionProofs.tla`), for all constants: the five safety properties
of the run, `OneAtATime` (`OneRequestAtATime`), `AnswerLeftFirst` (`AnswersLeaveFirst`),
`CompletionIsCurrent` (`CompletionsAreCurrent`), `DisconnectsAfterAnswer`
(`DisconnectsWhenAnswered`) and `NoRequestAfterLast` (`LastRequestIsLast`).  None is
inductive: whether a read may be in flight depends on what `onHeaders`, `finish` and
`onWriteComplete` have started on the stream, and whether an answer has left on the
write queue at the moment the next read was started.  The inductive invariant `HInv`
(`ServesInOrder`) says of the stream that at most one read is in flight, that a write
in flight belongs to the request in progress, and that behind a read of headers nothing
waits to be sent and no write callback is still to come (`Calm`); and of the connection
that a request is with the application or finished, not both, and that no read is in
flight then, nor after the last (`Engaged`).  The argument is in two layers.  No move of
a stream (those of `IOStreamOrder`) starts a read or a write of the application, so every
helper keeps `Calm`; the calls that do start one, `ReadHeaders`, `ReadBody` and the
writes, are shown to find the connection in the state that allows them.  Then each
handler is a step between such calls.  `FinishEnds` needs fairness and is model-checked
only.

## The HTTP client

`HTTPClient.tla` EXTENDS `StreamCalls`, and so `IOStream`: `client` is the
`_HTTPConnection` of one `HTTPClient::fetch`, and its handlers are the callbacks of a
connecting stream.  (`StreamCalls.tla` holds the read calls as the two HTTP classes
make them from their own handlers.)

*Shape.*  A handler runs in one step (`RunConnect`, `RunRead`, `RunClose`,
`RunTimeout`): the client calls no code of the application from it but header and
streaming callbacks, which return or throw.  All its callbacks are wrapped in the
`ExceptionStackContext` of `start()`, so that whatever a handler throws goes to
`handleException` (`Fails`) and never reaches the stream, except for an empty
function, which the stream itself calls (`RunEmpty`).  What makes a handler throw is
a choice.  The final callback is not called by the handler but posted to the loop
(`Post`, `RunAnswer`).  The FIFO of the stream is that of the loop: it also holds
the posted answer and the handlers of expired timeouts, which is what lets a
timeout run behind the handler that has just removed it.

*The abstract specification* is `Fetch.tla`: a fetch waits, its answer is due, the
callback is called; or the callback is passed on to the fetch of a redirect.
`CalledOnce` is `Fetch!Spec` under the mapping `Stage`, which counts the posted
answers, the calls and the hand-overs.

*Not modelled.*  What requests and responses contain, SSL options, the fetch of a
redirect beyond its start, a `_HTTPConnection` without an `HTTPClient`.

| Run | Instance | Shows |
|---|---|---|
| `client_fetch` | SSL; 5 bytes: a 1xx block, the header block, a chunk's length, its data and the last chunk; bodies of 0 to 2 bytes; both timeouts; fair loop | the callback is called once or passed on once (`CalledOnce`); the connection is closed with it (`AnswerCloses`); a fetch that is over leaves no timeout armed (`NoStrayTimer`); a fetch with its timeouts ends (`FetchEnds`) |

*Bounds.*  Five bytes are the shortest response that passes through every handler;
with fewer the others are cut off in the middle, as by a close.

*Fairness.*  The loop runs its handlers, `start()` is called, and an armed timeout
expires (`Expire`).  Nothing is assumed of the server or the network, so the run shows
that the timeouts alone bring a fetch to its end, even where the close callback is
lost (Findings).  `NoStrayTimer` excepts one case (`late`): the connect timeout may
be queued behind `onConnect`; its handler then drops `_timeout`, which by now refers
to the request's timeout, fails the fetch, and leaves that timeout armed.

*Proved* (`HTTPClientProofs.tla`), for all constants: `FetchRefines`,
`ClientSpec => CalledOnce`, the refinement of `Fetch`; and `AnswerAlwaysCloses`,
`ClientSpec => []AnswerCloses`.  The invariant `FetchInv` says that the fetch is in
one of the four stages of `Fetch`, each stated of the callback, the two counts and
the answers in the FIFO (`Waits`, `IsDue`, `IsAnswered`, `IsRedirected`), and that a
fetch without its callback has closed its stream.  It rests on two facts:
whatever helper of the stream is applied, a closed stream stays closed and no answer
enters or leaves its FIFO but by the client (`Later`, one lemma per
helper, for queues that hold handlers of other objects), and no handler gives the
callback away without closing.  `GoodTo` states the second for one change of stream
and client; it composes (`GoodTransitive`), so each handler is proved as the sequence
of its calls.  `RunAnswer` is the one step that is not `GoodTo`: it takes the answer
from the FIFO, which is `Fetch!CallBack`.

`TimersRemoved`, `ClientSpec => []NoStrayTimer`, strengthens `FetchInv` to `TimerInv`:
of the timeouts of a fetch only the one in `_timeout` is armed, but for the excepted
case, and a fetch that was not started holds none.  Each handler that ends a fetch
goes through `removeTimeout` before anything else can arm one.  `FetchEnds` needs
fairness and is model-checked only.

## WebSockets

`WebSocket.tla` EXTENDS `StreamCalls`: the stream below, and `ws`, a
`WebSocketHandler` with the protocol object of its connection, above.  `draft` is
the version the client asked for: 13, or the old draft 76 that an application may
allow.

*Shape.*  A callback of the stream runs in one step, from the upgrade (`RunUpgrade`,
`RunChallenge`) through the parts of a frame (`RunFrameStart`, `RunFrameLength`,
`RunMaskingKey`, `RunFrameData`; `RunFrameType` and `RunLengthIndicator` for 76) to
the end (`RunClose`, `RunWaiting`).  What the socket takes of a write at once and
what the application does in `onOpen`, `onMessage` and `onPong` (nothing, write,
close, throw) are choices, so a method of the protocol has a set of results.
`AppMessage` and `AppClose` are the application's calls from other handlers.  `live`
is the ownership of the protocol object: `onConnectionClose` frees it, and a read or
timeout that still refers to it is undefined behaviour (`RunReadFreed`,
`RunWaiting`).  `frames` and `torn` are history: the bytes of the frames of the
message so far, and whether a message was given with others.

*The abstract specification* is `Session.tla`: `onOpen` before every message,
`onClose` once and last, no message after the client or an abort has ended the
connection.  `SeesSession` is `Session!Spec` under the mapping `Stage`.

*Not modelled.*  The contents of headers, sub-protocols and keys, a ping of the
application, and the client side (`WebSocketClientConnection`, whose protocol class
repeats that of the server).

| Run | Instance | Shows |
|---|---|---|
| `websocket` | drafts 13 and 76; a request of one byte and three bytes of frames, fields of one byte, payloads of up to one; a message of the application; fair loop | the handler sees a session (`SeesSession`); a message is the payload of its frames whatever comes between them (`MessagesWhole`); while both sides are open a frame is awaited (`WaitsForFrames`); no timeout is armed for a freed object (`NoStrayWaiting`); a connection the server has ended is closed in the end (`CloseEnds`) |
| `websocket_buffered` | the same without messages of the application | **violated**: a frame may be handled by a freed object (see Findings) |

*Bounds.*  Three bytes are two frames without payload and a part of a third, or a
frame with a payload and one more: a fragment, an empty fragment or a control frame
and what follows it.  The state of the protocol between two frames is the buffer,
empty or not, and two flags, all of which two frames reach.  Fields of one byte keep
the order of reads; their true lengths are checked in `Codecs`.

*Fairness.*  `FairWebSocketSpec`: the loop runs its handlers and the closing timeout
expires; nothing of the client.  Undefined behaviour ends the obligation.

*Proved* (`WebSocketProofs.tla`), for all constants: `NoWaitingOutlives`,
`WebSocketSpec => []NoStrayWaiting`.  What a method of the protocol does to `live`,
`Lives`, is proved per method; `onConnectionClose` alone clears it, and its abort
has taken the timeout back before.  `MessagesAreWhole`,
`WebSocketSpec => []MessagesWhole`, adds `Intact`: the buffer of a message is empty or
holds the payload of exactly the frames that came for it.  It holds because a frame
out of order aborts before it touches the buffer, and because a control frame goes
past it.  `CloseEnds`, a liveness property, is model-checked only.

`FramesAwaited`, `WebSocketSpec => []WaitsForFrames`, and the refinement `SessionSeen`,
`WebSocketSpec => SeesSession`, rest on one invariant of the protocol and its stream,
`SessionInv`.  It says that at most one read is called or answered at a time; that a
completion of an aborted read waits in the loop only behind a closed stream; that a
request is read once, so that no second upgrade opens the handler again; and that a
connection being served, neither terminated nor closed, has its one read.  The proof
goes along the calls: what a call of the stream keeps (`Keeps`, `Calm`, `Answers`: a
pending read stays pending or its answer is posted, and none is added but by a read),
then what a method of the protocol does from that (`Goes`, `AsksFor`, `Tells`: it asks
for the next frame exactly once, or aborts, or has begun to close), then one lemma for
each action.  The step of the session is read off the stage before and behind it.

## The web framework

`RequestHandler.tla` models a `RequestHandler` from the dispatch of its request by the
`Application` to its end, with `GZipContentEncoding`, `ChunkedTransferEncoding`, the
etag, and the `StackContext` that brings an exception of an asynchronous callback
back to the handler.

*Shape.*  `phase` says where the thread is: in `prepare`, in the method of the
request, in a callback, or in the loop.  In the first three the application may call
`write`, `flush`, `finish`, `redirect`, `sendError`, set a status or a length, make
itself asynchronous, post a callback, or throw: each is an action, so that they come
in every order.  A method of the handler is a function from `x` (the handler, the
`wire` of items given to the connection, an exception) to the set of what it may
lead to.  `context` is whether the current context is the handler's; a posted
callback keeps the one it was wrapped in.

*Not modelled.*  `FallbackHandler`, the contents of headers, cookies, arguments and
patterns, `reverseURL`, nested contexts of several owners, a `logFunction` that
throws.  Assertions throw, as they do without `NDEBUG`.

| Run | Instance | Shows |
|---|---|---|
| `web` | GET, HEAD and POST; with and without HTTP/1.1, gzip and a matching etag; up to 3 bytes, 2 flushes, 2 callbacks; errors 304 and 500; gzip from 2 bytes | one response: the head first and once, a body framed as it says, `finish` last, no body for HEAD and 304 (`WellFramed`); every handler that is not asynchronous, or that failed, has finished or lost its stream when the loop goes on (`NoneUnanswered`) |

*Bounds.*  Three bytes pass the threshold of gzip from below and above in two writes;
with two flushes there is a first, a middle and a last part of a body; two callbacks
are one inside the context and one outside.

*Exceptions of the properties.*  A `Content-Length` the application sets itself, and
status 304 where the code does not support it: a flush with 304 leaves chunking on
unannounced, and an error page of status 304 fails the assertion of `finish` in
`writeError` and again in `sendError`.

*Proved* (`RequestHandlerProofs.tla`), for all constants: `NoRequestUnanswered`,
`HandlerSpec => []NoneUnanswered`.  `Done` says that a method that ends a request
ends it, or threw the assertion of 304; it is proved of `finish`, `sendError`,
`handleRequestException` and `redirect`, and `Keeps` of everything else an
application can call.  The invariant adds that a handler fails only after its
dispatch.

`AnswersAreFramed`, `HandlerSpec => []WellFramed`: the handler and its wire are always
`Framed`.  Before the headers nothing is on the wire, and only the application can
have set a `Content-Length`; behind a flush the transform agrees with the head on the
wire (`Flushed`: chunking exactly when the head announced it); `finish` turns either
into a `Whole` answer, which no method touches again.  The lemmas follow the code:
what the transforms make of a chunk (`IsBody`), what `flush` puts behind the wire, what
`finish` completes.  `Whole` says that a body the headers give a length is one item, so
the sum in `WellFramed` has one summand and needs no induction.

## Codecs

`Codecs.tla` states three algorithms as recursive operators on sequences: the
parameters of a header (`parseParam`, `parseHeader`), the path of a relative
reference (`urlJoin`), and the frames of draft 13, written and read.  Each is run on
every input of a set and compared with what the input was made from, or with a
definition of its own (RFC 3986).

| Run | Instance | Shows |
|---|---|---|
| `codecs` | one or two parameters with values of up to 4 letters, quotes, backslashes and semicolons; base paths of up to 3 directories with references of up to 4 segments; pairs of frames with lengths 0, 1, 125, 126, 127, 65535 and 65536 | `ParamsParsed`, `JoinResolves`, `FramesUnderstood` |

*Bounds.*  Four characters hold a quote, what escapes it and what it hides, in every
order.  Four segments hold two names and two `..` in every order.  The lengths are
those around which the format of a frame changes.

*Exceptions.*  The properties leave out what the code does not get right and no
document promises: a semicolon in a quoted value, or a backslash at its end, before
the last parameter; references that climb over the root; masked frames without a
payload, which are sent without the key that their mask bit announces.  The split of
a URL before its path is not modelled: `urlSplit` takes what stands before a colon
for a scheme.

The module uses RECURSIVE operators, so nothing is proved of it.

## Findings

- **A close callback can be lost** (`stream_lost_close`, `iostream.cpp:219`).  While
  a posted callback is pending, the stream is closed (by that callback or before
  it); a read that had already succeeded is queued behind it.
  `maybeRunCloseCallback` waits for the pending callback; the callback's
  `maybeAddErrorListener` does nothing because S_READ is still set; `onRead` then
  returns at `if (closed()) return;`.  No handler is left to try the close callback
  again.  `onWrite` has the same shape at line 250.  The tests expect a deferred
  close callback to arrive (`src/test/iostream_test/iostream_test.cpp:331-345`).
- **A body without its request** (`http_body`, `httpserver.cpp:218`).  The write of
  `100 Continue` fails and closes the stream, whose close callback is posted; the
  body, already in the buffer, is posted behind it.  `onConnectionClose` clears
  `_request`, and `onRequestBody` dereferences it.  `test100Continue` expects the body
  to be answered (`src/test/httpserver_test/httpserver_test.cpp:161`).
- **A frame without its protocol** (`websocket_buffered`, `websocket.cpp:547`).  A write
  fails in `onMessage`, or behind the 101 response, and closes the stream, whose
  close callback is posted; `receiveFrame` then finds the next frame in the buffer and
  posts `onFrameStart` behind it.  `onConnectionClose` frees the protocol object; the
  callback holds the handler but uses the raw object.  The test
  `testWebSocketCloseBufferedData` has a server read messages of a client that is
  gone and expects an orderly end (`src/test/websocket_test/websocket_test.cpp:179`).

Other behaviour that a reader of the code may not expect contradicts no document; it
is named at the property that excepts it and under `hazards`: a `runSync` deadline
that expired behind the handler that called `stop()` stops the next `runSync`;
`stop(); start()` of a `PeriodicCallback` in its own callback leaves two chains; a
late connect timeout leaves the request's armed; text frames of draft 76 throw, as
the delimiter's string is made with its arguments swapped.

## What is not modelled, and why

- `src/dep` (fmt, rapidjson): third-party code that the library calls for text.
- `AsyncTestCase` and the loop's `current()`: the harness of the tests.
- The WebSocket client: its protocol class repeats the server's; its connection is a
  `_HTTPConnection` without an `HTTPClient`.
- `TCPServer::listen`, `bind` and failing accepts, `Resolver`, `SSLOption`: calls into
  asio and OpenSSL with no state of their own.
- The contents of headers, multipart bodies, cookies, arguments and queries; the
  options and log configuration: text read once, with no order of events.
- The growth of `MessageBuffer`, `ObjectManager` and the mutex of `Watcher`.
- IOCP variants of the handlers, which compile only on Windows.

Three things are model-checked because they cannot be proved here: liveness, what
recursive operators compute (the properties of `Codecs`), and what `ENABLED` says.
Every other invariant and action property of the passing runs, and each of the three
refinements they check, is the statement of a theorem.

## What could follow

In order of weight: the WebSocket client as a user of `HTTPClient`'s connection;
`AsyncTestCase` over `IOLoop`; the classes above a stream over `Delivery` instead of
`IOStream`, with fairness added to it.
