---------------------------- MODULE HTTPConnection ----------------------------
(***************************************************************************)
(* src/src/tinycore/asyncio/httpserver.{h,cpp}: an HTTPConnection over the *)
(* stream of IOStream, the requests it reads one after the other, and the  *)
(* application that answers them through HTTPServerRequest.                *)
(*                                                                         *)
(* The stream is the one of IOStream, with its reactor and its FIFO; only  *)
(* its calls now come from the connection.  A stream callback runs in two  *)
(* steps: the handler of the connection (RunHeaders, RunBody, RunWrite,    *)
(* RunClose), up to the place where it calls the application, and Returns, *)
(* what the handler does after that.  In between, and between callbacks,   *)
(* the application writes to the request and finishes it.                  *)
(*                                                                         *)
(* A header block ends at a position of MarkAt["delim"]; what it says is   *)
(* chosen when it is parsed.                                               *)
(***************************************************************************)
EXTENDS StreamCalls

CONSTANTS
    NoKeepAlive,     \* the server closes after every request
    ContentLengths,  \* the lengths a request may announce
    Expects          \* TRUE: clients send "Expect: 100-continue"

ASSUME ServerAssumption ==
    /\ Accepted /\ NoKeepAlive \in BOOLEAN /\ Expects \in BOOLEAN
    /\ ContentLengths \subseteq Nat

VARIABLE conn    \* the HTTPConnection and the request it serves

history == <<finished, handed, closeSets, closeRuns>>
serverVars == <<vars, conn>>

Connections ==
    [id       : Nat,      \* requests parsed so far
     open     : BOOLEAN,  \* the application has the request and has not finished it
     held     : BOOLEAN,  \* _request
     last     : BOOLEAN,  \* the headers of the request ask to disconnect
     finished : BOOLEAN,  \* _requestFinished
     writeCb  : BOOLEAN,  \* _writeCallback
     closeCb  : BOOLEAN,  \* _closeCallback
     wrapper  : Nat,      \* the stream write whose callback is a WriteCallbackWrapper
     body     : Nat,      \* the stream read that is for a body
     wrote    : BOOLEAN,  \* history: the application wrote to this request
     first    : Nat,      \* history: the first stream write of this request
     gone     : BOOLEAN,  \* history: the connection decided to disconnect
     inApp    : BOOLEAN]  \* the running handler has called the application

-----------------------------------------------------------------------------
\* Stream calls

\* readUntil of the next header block, readBytes of a body.  OneAtATime is why
\* setReadCallback's assertion holds.
ReadHeaders(s) == TryInlineRead(BeginReadUntil(s, "delim"))
ReadBody(s, n) == TryInlineRead(BeginReadBytes(s, n))

\* ~WriteCallbackWrapper: the stream dropped the callback without running it.
Settle(c, s) ==
    IF /\ c.wrapper # 0 /\ s.writeCb # c.wrapper
       /\ \A i \in DOMAIN s.queue :
              ~(IsRun(s.queue[i]) /\ s.queue[i].run = "write" /\ s.queue[i].id = c.wrapper)
    THEN [c EXCEPT !.writeCb = FALSE, !.wrapper = 0]
    ELSE c

-----------------------------------------------------------------------------
\* The connection

\* Mutant: the request stays finished for the next one.
ClearRequestStateFinished(c) ==
    [c EXCEPT !.held = FALSE, !.writeCb = FALSE, !.closeCb = FALSE]

ClearRequestState(c) ==
    [c EXCEPT !.held = FALSE, !.finished = FALSE, !.writeCb = FALSE, !.closeCb = FALSE]

Disconnects(c) == NoKeepAlive \/ ~c.held \/ c.last

\* Mutant: the next request is read whatever the headers say.
FinishRequestAlive(s, c) == ReadHeaders(s)

\* finishRequest; a StreamClosedError of readUntil ends in close(), which finds
\* the stream closed.
FinishRequest(s, c) == IF Disconnects(c) THEN Close(s) ELSE ReadHeaders(s)

RequestFinished(c) ==
    [ClearRequestState(c) EXCEPT !.gone = @ \/ Disconnects(c)]

\* The request is created and kept in _request.
Parsed(c, last) ==
    [c EXCEPT !.id = @ + 1, !.held = TRUE, !.last = last, !.wrote = FALSE,
              !.first = stream.writes + 1]

\* _requestCallback(std::move(_request))
HandOver(c) == [c EXCEPT !.held = FALSE, !.open = TRUE, !.inApp = TRUE]

ServerInit ==
    /\ Init
    /\ conn = [id |-> 0, open |-> FALSE, held |-> FALSE, last |-> FALSE, finished |-> FALSE,
               writeCb |-> FALSE, closeCb |-> FALSE, wrapper |-> 0, body |-> 0,
               wrote |-> FALSE, first |-> 0, gone |-> FALSE, inApp |-> FALSE]

\* TCPServer::onAccept starts the stream, HTTPConnection::start reads from it.
Accept ==
    /\ ~stream.opened
    /\ stream' = ReadHeaders([MaybeAddErrorListener([stream EXCEPT !.opened = TRUE])
                                  EXCEPT !.closeCb = TRUE])
    /\ UNCHANGED <<running, history, conn>>

-----------------------------------------------------------------------------
\* Callbacks of the stream

Runs1(run) == Dispatches /\ IsRun(NextHandler) /\ NextHandler.run = run /\ UNCHANGED history

\* The handler throws before it has reached the application: the wrapper closes
\* the stream and passes the exception on to the loop.
Escapes(s, c) ==
    /\ stream' = Close(s)
    /\ conn' = Settle(c, stream')
    /\ running' = Idle

\* readBytes at the end of onHeaders
AskForBody(s, c, n) ==
    IF Refused(BeginReadBytes(s, n))
    THEN Escapes(ReadBody(s, n), c)
    ELSE /\ stream' = ReadBody(s, n)
         /\ conn' = Settle(c, stream')
         /\ running' = NextHandler

RunHeaders ==
    /\ Runs1("read") /\ NextHandler.id # conn.body
    /\ \/ \* a malformed request is answered by close()
          /\ stream' = Close(Begun)
          /\ conn' = Settle(ClearRequestState(conn), stream')
          /\ running' = NextHandler
       \/ \* Content-Length is not a number
          \E last \in BOOLEAN : Escapes(Begun, Parsed(conn, last))
       \/ \* no body
          \E last \in BOOLEAN :
             /\ stream' = Begun
             /\ conn' = Settle(HandOver(Parsed(conn, last)), stream')
             /\ running' = NextHandler
       \/ \* a body, after "100 Continue" if the client expects it
          \E last \in BOOLEAN, expect \in {FALSE, Expects}, n \in ContentLengths :
             LET c == [Parsed(conn, last) EXCEPT !.body = stream.reads + 1]
                 t == Enqueue(Begun, 1, 0)
             IN  \/ ~expect /\ AskForBody(Begun, c, n)
                 \/ expect /\ Closed(Begun) /\ Escapes(Begun, c)
                 \/ /\ expect /\ ~Closed(Begun)
                    /\ \E o \in Outcomes(t) : AskForBody(Flush(t, o), c, n)

\* onRequestBody; it dereferences _request.  Parsing the arguments of the body
\* may throw before the application is reached, with the request still held.
RunBody ==
    /\ Runs1("read") /\ NextHandler.id = conn.body
    /\ \/ /\ conn.held
          /\ stream' = Begun
          /\ conn' = Settle(HandOver(conn), stream')
          /\ running' = NextHandler
       \/ conn.held /\ Escapes(Begun, conn)
       \/ /\ ~conn.held
          /\ stream' = [Begun EXCEPT !.undefined = TRUE]
          /\ UNCHANGED <<conn, running>>

\* onWriteComplete up to the callback of the application
RunWrite ==
    /\ Runs1("write")
    /\ stream' = Begun
    /\ conn' = Settle([conn EXCEPT !.inApp = conn.writeCb, !.writeCb = FALSE,
                           !.wrapper = IF @ = NextHandler.id THEN 0 ELSE @], stream')
    /\ running' = NextHandler

\* onConnectionClose up to the callback of the application
RunClose ==
    /\ Runs1("close")
    /\ stream' = Begun
    /\ conn' = Settle([conn EXCEPT !.inApp = conn.closeCb, !.closeCb = FALSE], stream')
    /\ running' = NextHandler

\* A callback that is an empty function throws at once.
RunEmpty ==
    /\ \E run \in Empty : Runs1(run)
    /\ Escapes(Begun, conn)

\* Mutant: nothing is ever in the way of finishing.
WritingNever == FALSE

\* _stream->writing()
Writing == stream.wq # <<>>

\* Mutant: onWriteComplete does not ask whether more is being written.
AnsweredUnsent == running.run = "write" /\ conn.finished

\* The end of onWriteComplete
Answered == running.run = "write" /\ conn.finished /\ ~Writing

\* The handler goes on after the application and returns to the stream.
Returns ==
    /\ running # Idle
    /\ LET c == CASE Answered -> RequestFinished(conn)
                  [] running.run = "close" -> ClearRequestState(conn)
                  [] OTHER -> conn
       IN  /\ stream' = MaybeAddErrorListener(
                            IF Answered THEN FinishRequest(stream, conn) ELSE stream)
           /\ conn' = Settle([c EXCEPT !.inApp = FALSE], stream')
    /\ running' = Idle
    /\ UNCHANGED history

Throws ==
    /\ conn.inApp
    /\ CallbackThrows
    /\ conn' = Settle([conn EXCEPT !.inApp = FALSE], stream')

-----------------------------------------------------------------------------
\* The application, through HTTPServerRequest

AppCalls == (running = Idle \/ conn.inApp) /\ conn.open /\ UNCHANGED <<running, history>>

\* Mutant: the stream gets a callback only when the application gave one.
OnWriteCompleteIfAsked(id, callback) == IF callback THEN id ELSE 0

\* The stream's write callback is onWriteComplete, with or without one of the
\* application behind it.
OnWriteComplete(id, callback) == id

\* HTTPConnection::write; it does nothing on a closed stream.
AppWrite ==
    /\ AppCalls /\ ~Closed(stream) /\ stream.writes < MaxWrites
    /\ \E len \in 0..MaxLength, callback \in BOOLEAN :
         LET id == stream.writes + 1
             s == Enqueue([stream EXCEPT !.writes = id], len, OnWriteComplete(id, callback))
         IN  \E o \in Outcomes(s) :
               /\ stream' = Flush(s, o)
               /\ LET c == Settle([conn EXCEPT !.wrote = TRUE, !.writeCb = callback], stream')
                  IN  conn' = Settle([c EXCEPT !.wrapper = IF callback THEN id ELSE 0], stream')

\* HTTPServerRequest::finish gives its connection up, so this is its last call.
AppFinish ==
    /\ AppCalls
    /\ LET c == [conn EXCEPT !.open = FALSE, !.held = TRUE, !.finished = TRUE]
       IN  IF Writing
           THEN conn' = c /\ UNCHANGED stream
           ELSE /\ stream' = FinishRequest(stream, c)
                /\ conn' = Settle(RequestFinished(c), stream')

AppSetCloseCallback ==
    /\ AppCalls
    /\ conn' = [conn EXCEPT !.closeCb = TRUE]
    /\ UNCHANGED stream

-----------------------------------------------------------------------------

ServerStep ==
    \/ HandleCompletion /\ conn' = Settle(conn, stream')
    \/ RunHeaders \/ RunBody \/ RunWrite \/ RunClose \/ RunEmpty \/ Returns \/ Throws

ServerComplete(op) == Complete(op) /\ UNCHANGED conn

App == AppWrite \/ AppFinish \/ AppSetCloseCallback

ServerNext ==
    \/ Accept
    \/ \E op \in Operations : ServerComplete(op)
    \/ ServerStep
    \/ App

ServerSpec == ServerInit /\ [][ServerNext]_serverVars

\* The loop runs its handlers, unless undefined behaviour has killed the process,
\* and a write to the peer succeeds or fails in the end.
FairServerSpec ==
    /\ ServerSpec
    /\ WF_serverVars(~stream.undefined /\ ServerStep)
    /\ WF_serverVars(ServerComplete("write"))

-----------------------------------------------------------------------------
\* Properties

Posted(run) == {i \in RunIndices : stream.queue[i].run = run}

\* Requests are served one at a time, in the order they came: while one is being
\* answered no other is read, however many are in the buffer.  It is also what
\* keeps setReadCallback's "Already reading" assertion from failing.
OneAtATime ==
    conn.open \/ conn.finished => stream.readCb = 0 /\ Posted("read") = {}

\* A waiting or posted read of the next header block means that the answer to the
\* request before has left.
AnswerLeftFirst ==
    /\ ~Closed(stream)
    /\ stream.readCb \notin {0, conn.body}
         \/ \E i \in Posted("read") : stream.queue[i].id # conn.body
    => stream.sent = stream.written

\* When the connection is closed because the request says so, its answer has left.
DisconnectsAfterAnswer ==
    [][conn'.gone /\ ~conn.gone /\ ~Closed(stream) => stream.sent = stream.written]_serverVars

\* Once the connection has decided to disconnect it hands no request over, even
\* if one is already in the buffer.
NoRequestAfterLast == [][conn.gone => conn'.id = conn.id]_serverVars

\* A body that arrives finds its request: _request is not cleared by a close
\* between the headers and the body.
BodyFindsRequest ==
    \A i \in Posted("read") :
        conn.body # 0 /\ stream.queue[i].id = conn.body => conn.held

\* onWriteComplete runs for a write of the request in progress, never for one of
\* a request before it, whose callback it would take for its own.
CompletionIsCurrent ==
    running.run = "write" => running.id >= conn.first

\* A finished answer does not wait for ever: when what was written has left, the
\* next request is read or the stream closed.
FinishEnds ==
    conn.finished /\ conn.wrote ~> ~conn.finished \/ Closed(stream) \/ stream.undefined
=============================================================================
