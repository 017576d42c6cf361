------------------------------- MODULE WebSocket -------------------------------
(***************************************************************************)
(* The server side of src/src/tinycore/asyncio/websocket.{h,cpp}: a        *)
(* WebSocketHandler, the protocol object of its connection (draft 13, or   *)
(* 76 where the application allows it) and the stream of IOStream below.   *)
(*                                                                         *)
(* A callback of the stream runs to its end in one step.  The methods are  *)
(* functions of x = [s |-> the stream, p |-> the protocol, thrown |-> an   *)
(* exception leaves the callback]; one that writes, or calls the           *)
(* application, has a set of results, for what the socket takes at once    *)
(* and for what the application does: nothing, write, close or throw.      *)
(*                                                                         *)
(* What a frame says is chosen when it is parsed; its bytes are positions  *)
(* of the peer's data, so a message is the set of the positions of its     *)
(* bytes.  A header, an extended length, a key and a challenge have        *)
(* FieldSize bytes each; how lengths are encoded is in Codecs.             *)
(***************************************************************************)
EXTENDS StreamCalls

CONSTANTS
    Drafts,      \* the versions a client may ask for: a subset of {13, 76}
    FieldSize,   \* bytes of a field of a frame
    MaxPayload   \* bound: bytes of a frame's payload

ASSUME WebSocketAssumption ==
    Accepted /\ Drafts \subseteq {13, 76} /\ FieldSize \in Nat \ {0} /\ MaxPayload \in Nat

VARIABLE ws

history == <<finished, handed, closeSets, closeRuns>>
wsVars == <<vars, ws>>

Opcodes == {"more", "data", "reserved", "close", "ping", "pong"}
Controls == {"close", "ping", "pong"}

Protocols ==
    [draft      : {13, 76},
     live       : BOOLEAN,             \* _wsConnection
     clientTerm : BOOLEAN,             \* _clientTerminated
     serverTerm : BOOLEAN,             \* _serverTerminated
     waiting    : {"off", "armed", "queued"},  \* the timeout of _waiting
     next       : {"request", "challenge", "type", "indicator",
                   "start", "length", "key", "payload"},  \* what the last read is for
     extended   : BOOLEAN,             \* the frame has an extended length
     buffer     : SUBSET (1..MaxBytes),  \* _fragmentedMessageBuffer
     bufferOp   : Opcodes,             \* _fragmentedMessageOpcode
     opens      : Nat,                 \* history: calls of onOpen, onMessage, onClose
     messages   : Nat,
     closes     : Nat,
     frames     : SUBSET (1..MaxBytes),  \* history: the payload of the message's frames
     torn       : BOOLEAN]               \* history: a message was given with other bytes

WebSocketInit ==
    /\ Init
    /\ \E d \in Drafts :
         ws = [draft |-> d, live |-> FALSE, clientTerm |-> FALSE, serverTerm |-> FALSE,
               waiting |-> "off", next |-> "request", extended |-> FALSE,
               buffer |-> {}, bufferOp |-> "data", opens |-> 0, messages |-> 0,
               closes |-> 0, frames |-> {}, torn |-> FALSE]

-----------------------------------------------------------------------------
\* Ending a connection

\* Mutant: the timeout stays with the loop.
RemoveWaitingArmed(p) == p

\* removeTimeout(_waiting) cannot take back a handler that is already queued.
RemoveWaiting(p) == [p EXCEPT !.waiting = IF @ = "armed" THEN "off" ELSE @]

\* WebSocketProtocol::abort; its close() finds both sides terminated.
Abort(x) ==
    [x EXCEPT !.s = Close(@),
              !.p = RemoveWaiting([@ EXCEPT !.clientTerm = TRUE, !.serverTerm = TRUE])]

\* writeFrame on an open stream
Sent(x) ==
    LET t == Enqueue(x.s, 1, 0) IN {[x EXCEPT !.s = Flush(t, o)] : o \in Outcomes(t)}

\* Mutant: a close that cannot send its frame does not wait for the peer's.
AwaitCloseSentOnly(x) ==
    IF x.p.clientTerm THEN [x EXCEPT !.p = RemoveWaiting(@), !.s = Close(@)]
    ELSE IF x.s.sWrite THEN x ELSE [x EXCEPT !.p.waiting = "armed"]

\* The end of close(): the peer has said its last, or has five seconds to do so.
AwaitClose(x) ==
    IF x.p.clientTerm THEN [x EXCEPT !.p = RemoveWaiting(@), !.s = Close(@)]
    ELSE IF x.p.waiting = "off" THEN [x EXCEPT !.p.waiting = "armed"] ELSE x

\* close()
CloseProtocol(x) ==
    LET said == IF x.p.serverTerm \/ Closed(x.s) THEN {x} ELSE Sent(x)
    IN  {AwaitClose([y EXCEPT !.p.serverTerm = TRUE]) : y \in said}

\* A call of writeMessage; on a closed stream draft 13 aborts and 76 throws.
WriteMessage(x) ==
    IF ~Closed(x.s) THEN Sent(x) ELSE {IF x.p.draft = 13 THEN Abort(x) ELSE x}

\* open(), onMessage and onPong of the application, in WEBSOCKET_ASYNC: what it
\* throws, writing to a terminated connection included, aborts.
HandlerCall(x) ==
    {x, Abort(x)} \cup IF x.p.serverTerm THEN {} ELSE WriteMessage(x) \cup CloseProtocol(x)

-----------------------------------------------------------------------------
\* Reading

Throw(x) == [x EXCEPT !.thrown = TRUE]

\* readBytes; on a closed stream that cannot serve it from the buffer it throws.
ReadNext(x, n, next) ==
    LET t == BeginReadBytes(x.s, n)
        y == [x EXCEPT !.s = TryInlineRead(t), !.p.next = next]
    IN  IF Refused(t) THEN Throw(y) ELSE y

\* Draft 13 catches that and aborts; draft 76 does not.
Read(x, n, next) ==
    LET y == ReadNext(x, n, next)
    IN  IF y.thrown THEN Abort([y EXCEPT !.thrown = FALSE]) ELSE y

ReceiveFrame(x) == Read([x EXCEPT !.p.extended = FALSE], FieldSize, "start")

\* onMessage gets the data of a message.
Deliver(x, data) ==
    HandlerCall([x EXCEPT !.p.messages = @ + 1, !.p.torn = @ \/ data # x.p.frames,
                          !.p.frames = {}])

\* Mutant: what arrives behind an abort is still handled.
HandleMessageAlways(x, op, data) ==
    CASE op = "data"     -> Deliver(x, data)
      [] op = "close"    -> CloseProtocol([x EXCEPT !.p.clientTerm = TRUE])
      [] op = "ping"     -> IF Closed(x.s) THEN {Throw(x)} ELSE Sent(x)
      [] op = "pong"     -> HandlerCall(x)
      [] OTHER           -> {Abort(x)}

\* handleMessage; a ping on a closed stream throws.
HandleMessage(x, op, data) ==
    IF x.p.clientTerm THEN {x}
    ELSE CASE op = "data"     -> Deliver(x, data)
           [] op = "close"    -> CloseProtocol([x EXCEPT !.p.clientTerm = TRUE])
           [] op = "ping"     -> IF Closed(x.s) THEN {Throw(x)} ELSE Sent(x)
           [] op = "pong"     -> HandlerCall(x)
           [] OTHER           -> {Abort(x)}

\* Mutant: a message is given with the data of its last frame.
AssembleLast(x, fin, op, data) ==
    LET all == IF op = "more" THEN x.p.buffer \cup data ELSE data
        y == IF op \in Controls THEN x
             ELSE [x EXCEPT !.p.frames = IF op = "more" THEN @ \cup data ELSE data,
                            !.p.buffer = IF fin THEN {} ELSE all,
                            !.p.bufferOp = IF op = "more" THEN @ ELSE op]
    IN  [x |-> y, op |-> IF op = "more" THEN x.p.bufferOp ELSE op, data |-> data]

\* The first part of onFrameData: x with the frame taken in, and the opcode and
\* data of the message that a final frame completes.
Assemble(x, fin, op, data) ==
    LET all == IF op = "more" THEN x.p.buffer \cup data ELSE data
        y == IF op \in Controls THEN x
             ELSE [x EXCEPT !.p.frames = IF op = "more" THEN @ \cup data ELSE data,
                            !.p.buffer = IF fin THEN {} ELSE all,
                            !.p.bufferOp = IF op = "more" THEN @ ELSE op]
    IN  [x |-> y, op |-> IF op = "more" THEN x.p.bufferOp ELSE op, data |-> all]

\* A control frame is not fragmented; an empty buffer is how the code knows that
\* there is no message to continue, and that a new one may begin.
InOrder(p, fin, op) ==
    CASE op \in Controls -> fin
      [] op = "more"     -> p.buffer # {}
      [] OTHER           -> p.buffer = {}

\* Mutant: the next frame is asked for only behind a whole message.
ContinueFinal(x, fin) == IF x.p.clientTerm \/ x.thrown \/ ~fin THEN x ELSE ReceiveFrame(x)

Continue(x, fin) == IF x.p.clientTerm \/ x.thrown THEN x ELSE ReceiveFrame(x)

\* onFrameData
FrameData(x, fin, op, data) ==
    LET a == Assemble(x, fin, op, data)
    IN  IF ~InOrder(x.p, fin, op) THEN {Abort(x)}
        ELSE {Continue(y, fin) : y \in IF fin THEN HandleMessage(a.x, a.op, a.data) ELSE {a.x}}

-----------------------------------------------------------------------------
\* Callbacks of the stream

\* TCPServer::onAccept and HTTPConnection::start, as in HTTPConnection
AcceptSocket ==
    /\ ~stream.opened
    /\ stream' = TryInlineRead(BeginReadUntil(
                     [MaybeAddErrorListener([stream EXCEPT !.opened = TRUE])
                          EXCEPT !.closeCb = TRUE], "delim"))
    /\ UNCHANGED <<running, history, ws>>

Calls(run) ==
    /\ Dispatches /\ IsRun(NextHandler) /\ NextHandler.run = run
    /\ UNCHANGED <<running, history>>

Current == [s |-> Begun, p |-> ws, thrown |-> FALSE]

\* The wrapper of runCallback: the error listener, or a close on an exception.
CallbackEnds(x) ==
    /\ stream' = IF x.thrown THEN Close(x.s) ELSE MaybeAddErrorListener(x.s)
    /\ ws' = x.p

\* A read is answered that was made for "next".
Reads(next) == Calls("read") /\ ws.next = next /\ (ws.live \/ next = "request")

\* The 101 response is written and the application told.
Opened(x) == UNION {HandlerCall([y EXCEPT !.p.opens = @ + 1]) : y \in Sent(x)}

\* WebSocketHandler::execute: malformed headers, of which no more comes than the
\* object, selectSubProtocol of the application throws, the stream is closed, the
\* request is no upgrade and is refused, or it is accepted.
RunUpgrade ==
    /\ Reads("request")
    /\ LET x == Current
           y == [x EXCEPT !.p.live = TRUE]
       IN  \/ CallbackEnds(Abort(y))
           \/ CallbackEnds(Throw(y))
           \/ Closed(x.s) /\ CallbackEnds(Throw(x))
           \/ /\ ~Closed(x.s)
              /\ \/ \E z \in Sent(x) : CallbackEnds([z EXCEPT !.s = Close(@)])
                 \/ x.p.draft = 13 /\ \E z \in Opened(y) : CallbackEnds(ReceiveFrame(z))
                 \/ x.p.draft = 76 /\ \E z \in Sent(y) :
                                       CallbackEnds(ReadNext(z, FieldSize, "challenge"))

\* onFrameStart: refused (reserved bits, an extended control frame), or a header
\* that announces an extended length, a key or the payload.
RunFrameStart ==
    /\ Reads("start")
    /\ \/ CallbackEnds(Abort(Current))
       \/ CallbackEnds(Read([Current EXCEPT !.p.extended = TRUE], FieldSize, "length"))
       \/ CallbackEnds(Read(Current, FieldSize, "key"))
       \/ \E n \in 0..MaxPayload : CallbackEnds(Read(Current, n, "payload"))

\* onFrameLength16, onFrameLength64
RunFrameLength ==
    /\ Reads("length")
    /\ \/ CallbackEnds(Read(Current, FieldSize, "key"))
       \/ \E n \in 0..MaxPayload : CallbackEnds(Read(Current, n, "payload"))

RunMaskingKey ==
    /\ Reads("key")
    /\ \E n \in 0..MaxPayload : CallbackEnds(Read(Current, n, "payload"))

RunFrameData ==
    /\ Reads("payload")
    /\ \E fin \in BOOLEAN, op \in Opcodes \ IF ws.extended THEN Controls ELSE {} :
         \E x \in FrameData(Current, fin, op, (NextHandler.lo + 1)..NextHandler.hi) :
            CallbackEnds(x)

\* Draft 76: handleChallenge, writeResponse
RunChallenge ==
    /\ Reads("challenge")
    /\ \/ CallbackEnds(Abort(Current))
       \/ Closed(Begun) /\ CallbackEnds(Throw(Current))
       \/ ~Closed(Begun) /\ \E x \in Opened(Current) :
                               CallbackEnds(ReadNext(x, FieldSize, "type"))

\* onFrameType: an unknown type; a text frame, for which the string of the
\* delimiter cannot be made (its arguments are swapped); a close frame.
RunFrameType ==
    /\ Reads("type")
    /\ \E x \in {Abort(Current), Throw(Current), ReadNext(Current, FieldSize, "indicator")} :
         CallbackEnds(x)

\* onLengthIndicator
RunLengthIndicator ==
    /\ Reads("indicator")
    /\ \/ CallbackEnds(Abort(Current))
       \/ \E x \in CloseProtocol([Current EXCEPT !.p.clientTerm = TRUE]) : CallbackEnds(x)

RunRead ==
    \/ RunUpgrade
    \/ RunFrameStart \/ RunFrameLength \/ RunMaskingKey \/ RunFrameData
    \/ RunChallenge \/ RunFrameType \/ RunLengthIndicator

\* The callback holds the handler, not the protocol object it belongs to.
RunReadFreed ==
    /\ Calls("read") /\ ~ws.live /\ ws.next # "request"
    /\ stream' = [Begun EXCEPT !.undefined = TRUE] /\ UNCHANGED ws

Dropped(p) == [p EXCEPT !.live = FALSE, !.closes = @ + 1]

\* WebSocketHandler::onConnectionClose
RunClose ==
    /\ Calls("close")
    /\ LET x == Abort(Current)
       IN  CallbackEnds(IF ws.live THEN [x EXCEPT !.p = Dropped(@)] ELSE Current)

\* A callback that is an empty function throws at once.
RunEmpty ==
    /\ \E run \in Empty : Calls(run)
    /\ CallbackEnds([Current EXCEPT !.thrown = TRUE])

ExpireWaiting ==
    /\ ws.waiting = "armed"
    /\ ws' = [ws EXCEPT !.waiting = "queued"]
    /\ stream' = [stream EXCEPT !.queue = Append(@, [timer |-> "close"])]
    /\ UNCHANGED <<running, history>>

\* The timeout aborts; like a read it does not hold the protocol object.
RunWaiting ==
    /\ Dispatches /\ "timer" \in DOMAIN NextHandler
    /\ LET x == [s |-> Taken, p |-> [ws EXCEPT !.waiting = "off"], thrown |-> FALSE]
           y == IF ws.live THEN Abort(x) ELSE [x EXCEPT !.s.undefined = TRUE]
       IN  stream' = y.s /\ ws' = y.p
    /\ UNCHANGED <<running, history>>

RunCompletion ==
    /\ Dispatches /\ "op" \in DOMAIN NextHandler
    /\ HandleCompletion /\ UNCHANGED ws

-----------------------------------------------------------------------------
\* The application, from another handler of the loop

AppCall ==
    /\ ws.opens > 0 /\ ws.live /\ ~ws.serverTerm
    /\ UNCHANGED <<running, history>>

AppMessage ==
    /\ AppCall /\ stream.writes < MaxWrites
    /\ \E y \in WriteMessage([s |-> [stream EXCEPT !.writes = @ + 1], p |-> ws]) :
         stream' = y.s /\ ws' = y.p

AppClose ==
    /\ AppCall
    /\ \E y \in CloseProtocol([s |-> stream, p |-> ws]) : stream' = y.s /\ ws' = y.p

-----------------------------------------------------------------------------

WebSocketStep == RunRead \/ RunReadFreed \/ RunClose \/ RunEmpty \/ RunWaiting \/ RunCompletion

WebSocketComplete(op) == Complete(op) /\ UNCHANGED ws

WebSocketNext ==
    \/ AcceptSocket
    \/ \E op \in Operations : WebSocketComplete(op)
    \/ ExpireWaiting
    \/ WebSocketStep
    \/ AppMessage \/ AppClose

WebSocketSpec == WebSocketInit /\ [][WebSocketNext]_wsVars

\* The loop runs its handlers, unless undefined behaviour has killed the process,
\* and an armed timeout expires; nothing is assumed of the peer.
FairWebSocketSpec ==
    /\ WebSocketSpec
    /\ WF_wsVars(~stream.undefined /\ WebSocketStep)
    /\ WF_wsVars(~stream.undefined /\ ExpireWaiting)

-----------------------------------------------------------------------------
\* Properties

\* The handler sees a Session: onOpen before every message, onClose once and last,
\* and no message behind an abort or a close frame of the client, however timeouts,
\* aborts and frames already in the buffer or the loop fall.
Stage ==
    IF ws.opens > 1 \/ ws.closes > 1 THEN "broken"
    ELSE IF ws.closes = 1 THEN "closed"
    ELSE IF ws.clientTerm THEN "ended"
    ELSE IF ws.opens = 1 THEN "open" ELSE "upgrading"

S == INSTANCE Session WITH session <- [stage |-> Stage, messages |-> ws.messages]

SeesSession == S!Spec

\* A message is the payload of its frames, from the first fragment to the last,
\* with nothing of the frames between or before them.
MessagesWhole == ~ws.torn

\* While both sides are open the server waits for the next frame: no frame, empty,
\* fragment or control, leaves the connection unread.
WaitsForFrames ==
    ws.live /\ ~ws.clientTerm /\ ~Closed(stream) =>
        stream.readCb # 0
        \/ \E i \in RunIndices : stream.queue[i].run = "read"

\* A protocol object that is gone has no timeout armed, which would call it.
NoStrayWaiting == ~ws.live => ws.waiting # "armed"

\* A connection that the server has ended is closed in the end, whether or not
\* the client ever answers the close frame.
CloseEnds == ws.serverTerm ~> Closed(stream) \/ stream.undefined

\* Every frame that is read finds the protocol object it was read for.
FrameFindsProtocol ==
    ~ws.live /\ ws.closes > 0 => \A i \in RunIndices : stream.queue[i].run # "read"
=============================================================================
