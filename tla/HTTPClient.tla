------------------------------ MODULE HTTPClient ------------------------------
(***************************************************************************)
(* src/src/tinycore/asyncio/httpclient.{h,cpp}: one HTTPClient::fetch, its *)
(* _HTTPConnection over the stream of IOStream (a client's: ~Accepted),    *)
(* and its two timeouts.                                                   *)
(*                                                                         *)
(* The FIFO of the stream is the FIFO of the loop: it also holds the       *)
(* handlers of expired timeouts and the answers posted by runCallback.     *)
(*                                                                         *)
(* Every callback is wrapped in the ExceptionStackContext of start(), so   *)
(* an exception of a handler, or of a header or streaming callback it      *)
(* calls, goes to handleException and the callback returns normally.  What *)
(* makes a handler throw (a malformed response, a missing Location, bad    *)
(* gzip, the application) is a choice.                                     *)
(*                                                                         *)
(* A header block ends at a position of MarkAt["regex"], a chunk's length  *)
(* line at one of MarkAt["delim"]; what they say is chosen when they are   *)
(* parsed.                                                                 *)
(***************************************************************************)
EXTENDS StreamCalls

CONSTANTS
    ConnectTimeout,  \* the request has a connect timeout
    RequestTimeout,  \* the request has a request timeout
    BodyLengths,     \* the lengths a response may announce
    ChunkLengths     \* the lengths a chunk may have, with its CRLF

ASSUME ClientAssumption ==
    /\ ~Accepted /\ ConnectTimeout \in BOOLEAN /\ RequestTimeout \in BOOLEAN
    /\ BodyLengths \subseteq Nat /\ ChunkLengths \subseteq Nat \ {0}

VARIABLE client    \* the _HTTPConnection of the fetch

history == <<finished, handed, closeSets, closeRuns>>
clientVars == <<vars, client>>

Timers == {"connect", "request"}
NoTimer == "none"

Clients ==
    [cb       : BOOLEAN,                              \* _callback
     timeout  : Timers \cup {NoTimer},                \* what _timeout refers to
     timer    : [Timers -> {"off", "armed", "queued"}],
     next     : {"headers", "body", "length", "data"}, \* the handler of the last read
     redirect : BOOLEAN,  \* the response is a redirect that is to be followed
     late     : BOOLEAN,  \* history: the connect timeout ran after onConnect
     answers  : Nat,      \* history: calls of the final callback
     passed   : Nat]      \* history: fetches the callback was passed on to

ClientInit ==
    /\ Init
    /\ client = [cb |-> TRUE, timeout |-> NoTimer, timer |-> [t \in Timers |-> "off"],
                 next |-> "headers", redirect |-> FALSE, late |-> FALSE,
                 answers |-> 0, passed |-> 0]

-----------------------------------------------------------------------------
\* Timeouts and answers

AddTimeout(c, t) == [c EXCEPT !.timer[t] = "armed", !.timeout = t]

\* IOLoop::removeTimeout cannot take back a handler that is already queued.
RemoveTimeout(c) ==
    [c EXCEPT !.timer = [t \in Timers |->
                            IF t = c.timeout /\ @[t] = "armed" THEN "off" ELSE @[t]],
              !.timeout = NoTimer]

\* runCallback posts the answer, if the callback is still there.
Post(s, c) == IF c.cb THEN [s EXCEPT !.queue = Append(@, [answer |-> TRUE])] ELSE s

\* Mutant: handleException leaves the timeout armed.
FailClientArmed(c) == [c EXCEPT !.cb = FALSE]

\* handleException
FailStream(s, c) == IF c.cb THEN Close(Post(s, c)) ELSE s
FailClient(c) == IF c.cb THEN [RemoveTimeout(c) EXCEPT !.cb = FALSE] ELSE c

\* A callback of the stream ends: its wrapper looks for an error listener.
Done(s, c) == stream' = MaybeAddErrorListener(s) /\ client' = c

\* It ends by throwing.
Fails(s, c) == Done(FailStream(s, c), FailClient(c))

-----------------------------------------------------------------------------
\* start(), up to the exceptions it throws before and after the timeout is set

WithConnectTimeout == IF ConnectTimeout /\ RequestTimeout THEN AddTimeout(client, "connect") ELSE client

FetchStart ==
    /\ ~stream.opened /\ client.cb
    /\ \/ \E c \in {client, WithConnectTimeout} :
            /\ client' = FailClient(c)
            /\ stream' = Post(stream, client)
       \/ \E resolved \in BOOLEAN :
            /\ client' = WithConnectTimeout
            /\ stream' = RealConnect([stream EXCEPT !.opened = TRUE, !.connecting = TRUE,
                                        !.connectCb = TRUE, !.closeCb = TRUE], resolved)
    /\ UNCHANGED <<running, history>>

-----------------------------------------------------------------------------
\* Callbacks of the stream

Calls(run) ==
    /\ Dispatches /\ IsRun(NextHandler) /\ NextHandler.run = run
    /\ UNCHANGED <<running, history>>

\* The handler has set up the read s, and waits for it or gets its exception.
Awaits(s, c, next) ==
    IF Refused(s) THEN Fails(TryInlineRead(s), c)
    ELSE Done(TryInlineRead(s), [c EXCEPT !.next = next])

AwaitHeaders(s, c) == Awaits(BeginReadUntil(s, "regex"), c, "headers")
AwaitLength(s, c) == Awaits(BeginReadUntil(s, "delim"), c, "length")

\* Mutant: the connection is made and no timeout watches the request.
ConnectedUnwatched(c) == RemoveTimeout(c)

\* onConnect removes the connect timeout and, while the answer is wanted, sets
\* that of the request.
Connected(c) ==
    LET d == RemoveTimeout(c)
    IN  IF d.cb /\ RequestTimeout THEN AddTimeout(d, "request") ELSE d

\* onConnect
RunConnect ==
    /\ Calls("connect")
    /\ LET c == Connected(client)
           s == Enqueue(Begun, 1, 0)
       IN  \/ ~c.cb /\ Done(Begun, c)
           \/ c.cb /\ Fails(Begun, c)
           \/ c.cb /\ ~Closed(Begun) /\ \E o \in Outcomes(s) : AwaitHeaders(Flush(s, o), c)

\* Mutant: the stream is left open for another request.
EndRequestOpen(s) == s

\* onEndRequest
EndRequest(s) == Close(s)

\* Mutant: the callback is copied into the redirect's fetch.
RedirectedCopy(c) == [c EXCEPT !.passed = IF c.cb THEN @ + 1 ELSE @]

\* The fetch of the redirect takes the callback with it.
Redirected(c) == [c EXCEPT !.cb = FALSE, !.passed = IF c.cb THEN @ + 1 ELSE @]

\* onBody
OnBody(s, d) ==
    LET c == RemoveTimeout(d)
    IN  \/ Fails(s, c)
        \/ c.redirect /\ Done(EndRequest(s), Redirected(c))
        \/ ~c.redirect /\ Done(EndRequest(Post(s, c)), [c EXCEPT !.cb = FALSE])

\* onHeaders: malformed; 1xx; a response without a body, or one that is in
\* chunks, has a length, or ends with the connection.
OnHeaders(s) ==
    \/ Fails(s, client)
    \/ AwaitHeaders(s, client)
    \/ \E redirect \in BOOLEAN :
         LET c == [client EXCEPT !.redirect = redirect]
         IN  \/ OnBody(s, c)
             \/ AwaitLength(s, c)
             \/ \E n \in BodyLengths : Awaits(BeginReadBytes(s, n), c, "body")
             \/ Done(CallReadUntilClose(s), [c EXCEPT !.next = "body"])

OnChunkLength(s) ==
    \/ Fails(s, client)
    \/ OnBody(s, client)
    \/ \E n \in ChunkLengths : Awaits(BeginReadBytes(s, n), client, "data")

OnChunkData(s) == Fails(s, client) \/ AwaitLength(s, client)

RunRead ==
    /\ Calls("read")
    /\ CASE client.next = "headers" -> OnHeaders(Begun)
         [] client.next = "body"    -> OnBody(Begun, client)
         [] client.next = "length"  -> OnChunkLength(Begun)
         [] OTHER                   -> OnChunkData(Begun)

\* onClose throws if the answer is still wanted.
RunClose == Calls("close") /\ Fails(Begun, client)

\* A callback that is an empty function throws past handleException.
RunEmpty ==
    /\ \E run \in Empty : Calls(run)
    /\ stream' = Close(Begun) /\ UNCHANGED client

-----------------------------------------------------------------------------
\* Other handlers of the loop

Expire(t) ==
    /\ client.timer[t] = "armed"
    /\ client' = [client EXCEPT !.timer[t] = "queued"]
    /\ stream' = [stream EXCEPT !.queue = Append(@, [timer |-> t])]
    /\ UNCHANGED <<running, history>>

\* onTimeout: it drops the reference of _timeout, whichever timeout that is.
RunTimeout ==
    /\ Dispatches /\ "timer" \in DOMAIN NextHandler
    /\ LET t == NextHandler.timer
           c == [client EXCEPT !.timer[t] = "off", !.timeout = NoTimer,
                               !.late = @ \/ client.timeout # t]
       IN  stream' = FailStream(Taken, c) /\ client' = FailClient(c)
    /\ UNCHANGED <<running, history>>

\* The callback of the application
RunAnswer ==
    /\ Dispatches /\ "answer" \in DOMAIN NextHandler
    /\ stream' = Taken
    /\ client' = [client EXCEPT !.answers = @ + 1]
    /\ UNCHANGED <<running, history>>

ClientCompletion ==
    /\ Dispatches /\ "op" \in DOMAIN NextHandler
    /\ HandleCompletion /\ UNCHANGED client

ClientStep ==
    \/ ClientCompletion \/ RunConnect \/ RunRead \/ RunClose \/ RunEmpty
    \/ RunTimeout \/ RunAnswer

ClientComplete(op) == Complete(op) /\ UNCHANGED client

ClientNext ==
    \/ FetchStart
    \/ \E op \in Operations : ClientComplete(op)
    \/ \E t \in Timers : Expire(t)
    \/ ClientStep

ClientSpec == ClientInit /\ [][ClientNext]_clientVars

\* The loop runs its handlers and a timeout that stays armed expires; nothing is
\* assumed of the server.
FairClientSpec ==
    /\ ClientSpec
    /\ WF_clientVars(~stream.undefined /\ ClientStep)
    /\ WF_clientVars(FetchStart)
    /\ \A t \in Timers : WF_clientVars(~stream.undefined /\ Expire(t))

-----------------------------------------------------------------------------
\* Properties

\* The fetch implements Fetch: its callback is called once or passed on once,
\* never both, whatever timeout, close, redirect or exception it meets.
Due == {i \in DOMAIN stream.queue : "answer" \in DOMAIN stream.queue[i]}

Stage ==
    LET uses == Cardinality(Due) + client.answers + client.passed
    IN  CASE client.cb /\ uses = 0                -> "waiting"
          [] ~client.cb /\ uses = 1 /\ Due # {}   -> "due"
          [] ~client.cb /\ uses = 1 /\ client.answers = 1 -> "answered"
          [] ~client.cb /\ uses = 1 /\ client.passed = 1  -> "redirected"
          [] OTHER -> "broken"

F == INSTANCE Fetch WITH fetch <- Stage

CalledOnce == F!Spec

\* Once the answer is posted or the callback passed on the connection is closed.
AnswerCloses == stream.opened /\ ~client.cb => Closed(stream)

\* A fetch that is over leaves no timeout armed (which would keep the connection
\* alive), unless a late connect timeout made it forget the request's.
NoStrayTimer == ~client.cb /\ ~client.late => \A t \in Timers : client.timer[t] # "armed"

\* A fetch with its timeouts comes to an end.
FetchEnds == client.cb ~> client.answers = 1 \/ client.passed = 1 \/ stream.undefined
=============================================================================
