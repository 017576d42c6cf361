---------------------------- MODULE RequestHandler ----------------------------
(***************************************************************************)
(* A RequestHandler of src/src/tinycore/asyncio/web.{h,cpp} from its       *)
(* creation by the Application to the end of its request, with the output  *)
(* transforms, and the stack contexts of stackcontext.{h,cpp} that bring   *)
(* an exception of an asynchronous callback back to it.                    *)
(*                                                                         *)
(* The application's calls are actions of their own, in prepare, in the    *)
(* method of the request (onGet and its kin) and in callbacks.  The        *)
(* methods of the handler are functions of x = [h |-> the handler,         *)
(* wire |-> what the connection was given, thrown |-> the status of an     *)
(* exception that leaves, or 0]; those that call the application back have *)
(* a set of results.  Bodies are numbers of bytes.                         *)
(*                                                                         *)
(* Left out: FallbackHandler, what requests, cookies and headers other     *)
(* than the ones named below contain, and a logFunction that throws.       *)
(* Assertions throw, as they do in builds without NDEBUG.                  *)
(***************************************************************************)
EXTENDS Integers, Sequences, SequencesExt

CONSTANTS
    MinLength,     \* GZipContentEncoding::_minLength
    Codes,         \* statuses of the errors an application throws or sends
    MaxBody,       \* bound: bytes the application writes
    MaxFlushes,    \* bound: flushes of the application
    MaxCallbacks   \* bound: callbacks the application posts in all

ASSUME HandlerAssumption ==
    /\ MinLength \in Nat \ {0}
    /\ Codes \subseteq {304, 404, 500}
    /\ MaxBody \in Nat /\ MaxFlushes \in Nat /\ MaxCallbacks \in Nat

VARIABLES
    handler,  \* the handler and what it knows of its request
    wire,     \* what HTTPServerRequest::write and finish were given
    phase,    \* "waiting", "prepare", "method", "callback" or, in the loop, "idle"
    context,  \* the handler is in StackContext::_state.contexts
    posted,   \* callbacks waiting in the loop, by the context they were wrapped in
    closed    \* the stream is closed

vars == <<handler, wire, phase, context, posted, closed>>

NoLength == -1

Handlers ==
    [method         : {"GET", "HEAD", "POST"},
     matches        : BOOLEAN,     \* If-None-Match names the body's etag
     headersWritten : BOOLEAN,
     finished       : BOOLEAN,     \* also: the request has given its connection up
     autoFinish     : BOOLEAN,
     closeCb        : BOOLEAN,     \* the connection's _closeCallback is the handler's
     status         : Nat,
     length         : Int,         \* the Content-Length header
     etag           : BOOLEAN,     \* the Etag header
     typed          : BOOLEAN,     \* the Content-Type header, a compressible one
     buffer         : Nat,         \* _writeBuffer
     gzipping       : BOOLEAN,
     chunking       : BOOLEAN,
     own            : BOOLEAN,     \* history: the application set Content-Length itself
     failed         : BOOLEAN,     \* history: handleRequestException was called
     written        : Nat,         \* for the bounds
     flushes        : Nat,
     posts          : Nat]

HandlerInit ==
    /\ \E method \in {"GET", "HEAD", "POST"}, matches, gzip, http11 \in BOOLEAN :
         handler = [method |-> method, matches |-> matches, headersWritten |-> FALSE,
                    finished |-> FALSE, autoFinish |-> TRUE, closeCb |-> TRUE,
                    status |-> 200, length |-> NoLength, etag |-> FALSE, typed |-> TRUE,
                    buffer |-> 0, gzipping |-> gzip /\ http11, chunking |-> http11,
                    own |-> FALSE, failed |-> FALSE, written |-> 0, flushes |-> 0, posts |-> 0]
    /\ wire = <<>> /\ phase = "waiting" /\ context = FALSE
    /\ posted = [c \in BOOLEAN |-> 0] /\ closed = FALSE

-----------------------------------------------------------------------------
\* Output transforms and flush

Item(is, n) == [is |-> is, n |-> n]
Data(is, n) == IF n = 0 THEN <<>> ELSE <<Item(is, n)>>

\* gzip adds a header to the first bytes and a trailer to the last.
Zipped(n, first, last) == n + (IF first THEN 1 ELSE 0) + (IF last THEN 1 ELSE 0)

\* ChunkedTransferEncoding::transformChunk
Chunked(n, last) == Data("block", n) \o IF last THEN <<Item("last", 0)>> ELSE <<>>

\* GZipContentEncoding::transformFirstChunk
Zips(h, last) ==
    /\ h.gzipping /\ h.typed
    /\ IF last THEN h.buffer >= MinLength ELSE h.length = NoLength

\* Mutant: Content-Length keeps the size of the body before its compression.
FirstChunkUnsized(h, last) ==
    LET zip == Zips(h, last)
        n == IF zip THEN Zipped(h.buffer, TRUE, last) ELSE h.buffer
        chunk == h.chunking /\ h.status # 304 /\ h.length = NoLength
    IN  [h |-> [h EXCEPT !.headersWritten = TRUE, !.buffer = 0, !.gzipping = zip,
                         !.chunking = @ /\ (h.status = 304 \/ chunk)],
         head |-> IF chunk THEN Item("chunked", 0)
                  ELSE IF h.length = NoLength THEN Item("open", 0) ELSE Item("sized", h.length),
         body |-> IF chunk THEN Chunked(n, last) ELSE Data("raw", n)]

\* The first flush: the transforms one after the other, and the headers.
FirstChunk(h, last) ==
    LET zip == Zips(h, last)
        n == IF zip THEN Zipped(h.buffer, TRUE, last) ELSE h.buffer
        length == IF zip /\ h.length # NoLength THEN n ELSE h.length
        chunk == h.chunking /\ h.status # 304 /\ length = NoLength
    IN  [h |-> [h EXCEPT !.headersWritten = TRUE, !.buffer = 0, !.gzipping = zip,
                         !.length = length, !.chunking = @ /\ (h.status = 304 \/ chunk)],
         head |-> IF chunk THEN Item("chunked", 0)
                  ELSE IF length = NoLength THEN Item("open", 0) ELSE Item("sized", length),
         body |-> IF chunk THEN Chunked(n, last) ELSE Data("raw", n)]

NextChunk(h, last) ==
    LET n == IF h.gzipping THEN Zipped(h.buffer, FALSE, last) ELSE h.buffer
    IN  IF h.chunking THEN Chunked(n, last) ELSE Data("raw", n)

Throw(x) == [x EXCEPT !.thrown = 500]

\* flush: behind finish the request has no connection to write to, which throws.
Flush(x, last) ==
    IF x.h.finished
    THEN IF x.h.method = "HEAD" THEN x ELSE Throw(x)
    ELSE IF ~x.h.headersWritten
    THEN LET f == FirstChunk(x.h, last)
         IN  [x EXCEPT !.h = f.h,
                       !.wire = Append(@, f.head)
                                    \o IF f.h.method = "HEAD" THEN <<>> ELSE f.body]
    ELSE [x EXCEPT !.h.buffer = 0,
                   !.wire = @ \o IF x.h.method = "HEAD" THEN <<>> ELSE NextChunk(x.h, last)]

-----------------------------------------------------------------------------
\* Finishing

\* computeEtag of an application may have no etag to offer.
WithEtag(h) ==
    IF h.status = 200 /\ h.method \in {"GET", "HEAD"} /\ ~h.etag
    THEN {h, IF h.matches THEN [h EXCEPT !.etag = TRUE, !.buffer = 0, !.status = 304]
                          ELSE [h EXCEPT !.etag = TRUE]}
    ELSE {h}

\* clearHeadersFor304, or a Content-Length if there is none
Sized(h) ==
    IF h.status = 304 THEN [h EXCEPT !.length = NoLength, !.typed = FALSE]
    ELSE IF h.length = NoLength THEN [h EXCEPT !.length = h.buffer] ELSE h

\* flush(true), HTTPServerRequest::finish and onFinish, which may throw
Finished(x) ==
    LET y == Flush([x EXCEPT !.h.closeCb = FALSE], TRUE)
        z == [y EXCEPT !.h.finished = TRUE, !.wire = Append(@, Item("finish", 0))]
    IN  {z, Throw(z)}

\* finish(); a body with status 304 fails its assertion.
Finish(x) ==
    IF x.h.finished THEN {Throw(x)}
    ELSE IF x.h.headersWritten THEN Finished(x)
    ELSE UNION {IF h.status = 304 /\ h.buffer > 0
                THEN {Throw([x EXCEPT !.h = h])}
                ELSE Finished([x EXCEPT !.h = Sized(h)]) : h \in WithEtag(x.h)}

-----------------------------------------------------------------------------
\* Errors

\* clear() resets the headers; it leaves _writeBuffer as it is.
Clear(h, status) ==
    [h EXCEPT !.status = status, !.length = NoLength, !.own = FALSE, !.etag = FALSE,
              !.typed = TRUE]

Caught(x) == [x EXCEPT !.thrown = 0]

Page(x) == [x EXCEPT !.h.buffer = @ + MinLength]

\* writeError writes a page and finishes; that of an application may leave the
\* second to sendError, or throw.
WriteError(x) == Finish(Page(x)) \cup {Page(x), Throw(x), Throw(Page(x))}

\* Mutant: nothing is done when the headers have left.
SendErrorUnwritten(x, status) ==
    IF x.h.headersWritten THEN {x}
    ELSE UNION {IF y.h.finished THEN {Caught(y)} ELSE Finish(Caught(y)) :
                    y \in WriteError([x EXCEPT !.h = Clear(@, status)])}

\* sendError swallows what writeError throws.
SendError(x, status) ==
    IF x.h.headersWritten THEN IF x.h.finished THEN {x} ELSE Finish(x)
    ELSE UNION {IF y.h.finished THEN {Caught(y)} ELSE Finish(Caught(y)) :
                    y \in WriteError([x EXCEPT !.h = Clear(@, status)])}

HandleRequestException(x) ==
    LET y == [Caught(x) EXCEPT !.h.failed = TRUE]
    IN  IF y.h.finished THEN {y} ELSE SendError(y, x.thrown)

\* redirect
Redirect(x) ==
    IF x.h.headersWritten THEN {Throw(x)} ELSE Finish([x EXCEPT !.h.status = 302])

-----------------------------------------------------------------------------
\* The framework

Current == [h |-> handler, wire |-> wire, thrown |-> 0]

Becomes(x) == handler' = x.h /\ wire' = x.wire

\* execute has caught what prepare or the method threw; what handling it throws
\* in turn reaches the stream, which is closed.
ExecuteEnds(x) ==
    \E y \in IF x.thrown = 0 THEN {x} ELSE HandleRequestException(x) :
        /\ Becomes(y) /\ phase' = "idle" /\ context' = FALSE
        /\ closed' = (closed \/ y.thrown # 0)

\* The wrapper of a callback gives an exception to the handler of its context;
\* without one, or when that throws too, it reaches the stream or the loop, of
\* which only the stream closes.
CallbackEnds(x) ==
    /\ phase' = "idle" /\ context' = FALSE
    /\ \E y \in IF x.thrown = 0 \/ ~context THEN {x} ELSE HandleRequestException(x) :
         /\ Becomes(y)
         /\ closed' \in IF y.thrown # 0 THEN {closed, TRUE} ELSE {closed}

Ends(x) == IF phase = "callback" THEN CallbackEnds(x) ELSE ExecuteEnds(x)

\* Application::operator(): the handler of a URL, or of none (ErrorHandler, and
\* RedirectHandler when no host matches).  A method that is not supported is
\* refused before prepare.
Dispatch ==
    /\ phase = "waiting" /\ UNCHANGED posted
    /\ \/ /\ phase' = "prepare" /\ UNCHANGED <<handler, wire, context, closed>>
       \/ \E status \in {404, 405} : ExecuteEnds([Current EXCEPT !.thrown = status])
       \/ /\ handler.method = "GET"
          /\ \E x \in Redirect(Current) : ExecuteEnds(x)

\* An asynchronous prepare leaves the method out.
PrepareReturns ==
    /\ phase = "prepare" /\ UNCHANGED <<handler, wire, posted, closed>>
    /\ phase' = IF handler.autoFinish /\ ~handler.finished THEN "method" ELSE "idle"
    /\ context' = FALSE

\* executeFinish
MethodReturns ==
    /\ phase = "method" /\ UNCHANGED posted
    /\ \E x \in IF handler.autoFinish /\ ~handler.finished THEN Finish(Current) ELSE {Current} :
         ExecuteEnds(x)

CallbackReturns == phase = "callback" /\ CallbackEnds(Current) /\ UNCHANGED posted

RunCallback ==
    /\ phase = "idle"
    /\ \E c \in BOOLEAN :
         /\ posted[c] > 0
         /\ posted' = [posted EXCEPT ![c] = @ - 1]
         /\ context' = c
    /\ phase' = "callback"
    /\ UNCHANGED <<handler, wire, closed>>

\* HTTPConnection::onConnectionClose calls onConnectionClose of the handler.
StreamCloses ==
    /\ phase = "idle" /\ ~closed /\ closed' = TRUE
    /\ phase' = IF handler.closeCb THEN "callback" ELSE "idle"
    /\ handler' = [handler EXCEPT !.closeCb = FALSE]
    /\ UNCHANGED <<wire, context, posted>>

-----------------------------------------------------------------------------
\* The application's calls

InApplication == phase \in {"prepare", "method", "callback"} /\ UNCHANGED posted

\* A call returns to the application, or its exception leaves it.
Call(results) ==
    \E x \in results :
        IF x.thrown # 0 THEN Ends(x)
        ELSE Becomes(x) /\ UNCHANGED <<phase, context, closed>>

AppWrite ==
    /\ InApplication
    /\ \E n \in 1..(MaxBody - handler.written) :
         Call({IF handler.finished THEN Throw(Current)
               ELSE [Current EXCEPT !.h.buffer = @ + n, !.h.written = @ + n]})

AppFlush ==
    /\ InApplication /\ handler.flushes < MaxFlushes
    /\ Call({Flush([Current EXCEPT !.h.flushes = @ + 1], FALSE)})

AppFinish == InApplication /\ Call(Finish(Current))
AppRedirect == InApplication /\ Call(Redirect(Current))
AppSendError == InApplication /\ \E status \in Codes : Call(SendError(Current, status))
AppThrow == InApplication /\ \E status \in Codes : Ends([Current EXCEPT !.thrown = status])

\* What is set behind the headers is never sent.
AppSetStatus ==
    /\ InApplication /\ ~handler.headersWritten
    /\ Call({[Current EXCEPT !.h.status = 304]})

AppSetLength ==
    /\ InApplication /\ ~handler.headersWritten
    /\ \E n \in 0..MaxBody : Call({[Current EXCEPT !.h.length = n, !.h.own = TRUE]})

\* The macro Asynchronous: its context ends with the function it stands in.
AppAsynchronous ==
    /\ InApplication /\ phase # "callback" /\ ~context
    /\ handler' = [handler EXCEPT !.autoFinish = FALSE] /\ context' = TRUE
    /\ UNCHANGED <<wire, phase, closed>>

\* A callback is wrapped in the current context.
AppPost ==
    /\ phase \in {"prepare", "method", "callback"} /\ handler.posts < MaxCallbacks
    /\ posted' = [posted EXCEPT ![context] = @ + 1]
    /\ handler' = [handler EXCEPT !.posts = @ + 1]
    /\ UNCHANGED <<wire, phase, context, closed>>

-----------------------------------------------------------------------------

Framework ==
    \/ Dispatch \/ PrepareReturns \/ MethodReturns
    \/ RunCallback \/ CallbackReturns \/ StreamCloses

App ==
    \/ AppWrite \/ AppFlush \/ AppFinish \/ AppRedirect \/ AppSendError \/ AppThrow
    \/ AppSetStatus \/ AppSetLength \/ AppAsynchronous \/ AppPost

HandlerNext == Framework \/ App

HandlerSpec == HandlerInit /\ [][HandlerNext]_vars

-----------------------------------------------------------------------------
\* Properties

Heads == {"chunked", "sized", "open"}
Said(kind) == \E i \in DOMAIN wire : wire[i].is = kind
RawBytes ==
    MapThenSumSet(LAMBDA i : wire[i].n, {i \in DOMAIN wire : wire[i].is = "raw"})

\* What the connection is given is one response, whatever the application calls
\* and throws: headers first and once, then a body framed as they say, and finish
\* last; no body for HEAD and 304.  It is what FinishEnds of HTTPConnection
\* assumes.  Two things an application can do are excepted: a Content-Length of
\* its own, and a flush with status 304, behind which finish sends a last chunk.
WellFramed ==
    LET head == wire[1].is
        early == handler.status = 304 /\ handler.flushes > 0
        bare == handler.method = "HEAD" \/ handler.status = 304
    IN  wire # <<>> =>
          /\ \A i \in DOMAIN wire : wire[i].is \in Heads <=> i = 1
          /\ \A i \in DOMAIN wire :
                 /\ wire[i].is = "finish" => i = Len(wire)
                 /\ wire[i].is = "last" => \A j \in (i + 1)..Len(wire) : wire[j].is = "finish"
          /\ head = "chunked" => ~Said("raw")
          /\ head # "chunked" /\ ~early => ~Said("block") /\ ~Said("last")
          /\ bare /\ ~early => ~Said("raw") /\ ~Said("block") /\ ~Said("last")
          /\ head = "chunked" /\ ~bare => (Said("finish") => Said("last"))
          /\ head = "sized" /\ ~bare /\ ~handler.own /\ Said("finish") => RawBytes = wire[1].n

\* No request is left without an answer: when the loop goes on, a handler that is
\* not asynchronous has finished, and so has one whose prepare, method or callback
\* threw, or the stream is closed.  An error of status 304 in a callback is
\* excepted: its page fails the assertion of finish, twice.
NoneUnanswered ==
    phase = "idle" /\ (handler.autoFinish \/ (handler.failed /\ handler.status # 304)) =>
        handler.finished \/ closed
=============================================================================
