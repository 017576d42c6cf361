------------------------------- MODULE IOStream -------------------------------
(***************************************************************************)
(* One stream of src/src/tinycore/asyncio/iostream.{h,cpp}: BaseIOStream   *)
(* with its two subclasses, IOStream (Secure = FALSE) and SSLIOStream      *)
(* (Secure = TRUE).                                                        *)
(*                                                                         *)
(* The C++ is single threaded: every method runs inside one handler of the *)
(* io_service and calls its helpers synchronously.  The helpers are        *)
(* therefore functions from a stream to a stream, named as in the source,  *)
(* and an action applies the whole call chain of one handler in one step.  *)
(* What a handler starts and does not finish is explicit: "kernel" is the  *)
(* set of operations the reactor holds, "queue" is the FIFO of handlers    *)
(* ready to run, holding the completions of those operations and the       *)
(* callbacks posted by runCallback.                                        *)
(*                                                                         *)
(* An operation is completed into the queue at any time (Complete) and     *)
(* aborted by a close only while the reactor still holds it: asio tries a  *)
(* read or write once when it is started, and a success found then is      *)
(* queued behind the handlers already there, past the reach of a close.    *)
(*                                                                         *)
(* Bytes are positions.  The peer's data is 1..MaxBytes; the read buffer   *)
(* holds consumed+1..received; MarkAt[m] are the positions at which a      *)
(* match of mark m ("delim" or "regex") ends.  A packet of the write queue *)
(* is the position of its last byte in the outgoing stream.                *)
(***************************************************************************)
EXTENDS Integers, Sequences, FiniteSets

CONSTANTS
    Secure,      \* which subclass: FALSE for IOStream, TRUE for SSLIOStream
    Accepted,    \* TRUE: a server's stream, connected; FALSE: connect first
    MaxBytes,    \* bound: bytes the peer sends
    MarkAt,      \* [{"delim", "regex"} -> SUBSET (1..MaxBytes)]
    MaxReads,    \* bound: read calls made by the application
    MaxWrites,   \* bound: write calls made by the application
    MaxLength,   \* bound: length of one write
    ChunkSize,   \* WRITE_BUFFER_CHUNK_SIZE of write()
    MaxSets,     \* bound: calls of setCloseCallback
    Throwing     \* TRUE: the application's callbacks may throw

Marks == {"delim", "regex"}

ASSUME BoundsAssumption ==
    /\ Secure \in BOOLEAN
    /\ Accepted \in BOOLEAN
    /\ MaxBytes \in Nat
    /\ MarkAt \in [Marks -> SUBSET (1..MaxBytes)]
    /\ MaxReads \in Nat
    /\ MaxWrites \in Nat
    /\ MaxLength \in Nat
    /\ ChunkSize \in Nat \ {0}
    /\ MaxSets \in Nat
    /\ Throwing \in BOOLEAN

VARIABLES
    stream,      \* the stream object, its reactor operations, its handlers
    running,     \* the callback the loop is executing, or Idle
    finished,    \* history: read calls whose final callback has been run
    handed,      \* history: position up to which bytes were handed over
    closeSets,   \* history: calls of setCloseCallback with a callback
    closeRuns    \* history: runs of the close callback

vars == <<stream, running, finished, handed, closeSets, closeRuns>>

None == -1       \* an unset boost::optional
Idle == [run |-> "idle", id |-> 0, lo |-> 0, hi |-> 0]

\* A member can be empty when runCallback takes it: "lostRead" and "noWrite"
\* are posted calls of an empty std::function, which throw bad_function_call.
Empty == {"lostRead", "noWrite"}
Callbacks == {"connect", "read", "stream", "write", "close"} \cup Empty
Operations == {"read", "connect", "handshake", "write", "shutdown"}
Results == {"ok", "overflow", "error", "aborted"}

\* A handler posted by runCallback: which callback, the call it belongs to,
\* and the bytes lo+1..hi it is given (for "write": hi is the last byte that
\* must have left before the callback may run).
Runs == [run : Callbacks, id : Nat, lo : Nat, hi : Nat]
\* The completion handler of a reactor operation; n is transferredBytes.
Completions == [op : Operations, res : Results, n : Nat]

IsRun(h) == "run" \in DOMAIN h

-----------------------------------------------------------------------------
\* Queries

Closed(s) == s.closing \/ s.closed
Active(s) == s.received - s.consumed

-----------------------------------------------------------------------------
\* runCallback: count the callback as pending and post it to the loop.
RunCallback(s, cb, id, lo, hi) ==
    [s EXCEPT !.pending = @ + 1,
              !.queue = Append(@, [run |-> cb, id |-> id, lo |-> lo, hi |-> hi])]

ClearCallbacks(s) ==
    [s EXCEPT !.readCb = 0, !.streamCb = 0, !.writeCb = 0, !.closeCb = FALSE,
              !.connectCb = FALSE, !.sslConnectCb = FALSE]

\* Mutant: the callbacks of the application survive the close callback.
MaybeRunCloseCallbackKeeping(s) ==
    IF s.closeCb
    THEN IF s.closed /\ s.pending = 0
         THEN [RunCallback(s, "close", s.reads, 0, 0) EXCEPT !.closeCb = FALSE, !.wq = <<>>]
         ELSE s
    ELSE s

\* Mutant: the member is not cleared when the close callback is taken from it.
MaybeRunCloseCallbackTwice(s) ==
    IF s.closeCb /\ s.closed /\ s.pending = 0
    THEN [ClearCallbacks(RunCallback(s, "close", s.reads, 0, 0)) EXCEPT !.closeCb = TRUE]
    ELSE s

\* The id of a "close" run is the last read call made before it was posted.
MaybeRunCloseCallback(s) ==
    IF s.closeCb
    THEN IF s.closed /\ s.pending = 0
         THEN [ClearCallbacks(RunCallback(s, "close", s.reads, 0, 0))
                   EXCEPT !.wq = <<>>]
         ELSE [s EXCEPT !.readCb = 0, !.writeCb = 0, !.wq = <<>>]
    ELSE IF s.pending = 0 THEN ClearCallbacks(s) ELSE s

\* Start an asynchronous operation; on a closed socket it fails at once, which
\* the loop reports through the queue.
Arm(s, op) ==
    IF s.closed THEN [s EXCEPT !.queue = Append(@, [op |-> op, res |-> "error", n |-> 0])]
    ELSE [s EXCEPT !.kernel = @ \cup {op}]

\* async_read_some; the SSL stream starts its handshake instead until accepted.
DoHandshake(s) ==
    IF s.sslAccepted \/ s.sslAccepting THEN s
    ELSE [Arm(s, "handshake") EXCEPT !.sslAccepting = TRUE, !.sWrite = TRUE]

DoRead(s) == [Arm(s, "read") EXCEPT !.sRead = TRUE]

ReadFromSocket(s) == IF Secure /\ ~s.sslAccepted THEN DoHandshake(s) ELSE DoRead(s)

MaybeAddErrorListener(s) ==
    IF s.sRead \/ s.sWrite \/ s.pending # 0 THEN s
    ELSE IF Closed(s) THEN MaybeRunCloseCallback(s) ELSE ReadFromSocket(s)

-----------------------------------------------------------------------------
\* Closing

\* socket.close() completes every operation of the reactor with
\* operation_aborted, the read queue first.
Aborted(s, op) ==
    IF op \in s.kernel THEN <<[op |-> op, res |-> "aborted", n |-> 0]>> ELSE <<>>

AbortOperations(s) ==
    [s EXCEPT !.kernel = {},
              !.queue = @ \o Aborted(s, "read") \o Aborted(s, "connect")
                          \o Aborted(s, "handshake") \o Aborted(s, "write")
                          \o Aborted(s, "shutdown")]

OnClose(s) == MaybeRunCloseCallback([s EXCEPT !.closing = FALSE, !.closed = TRUE])

DoClose(s) == OnClose(AbortOperations(s))

CloseSocket(s) ==
    IF Secure /\ s.sslAccepted /\ ~s.sWrite
    THEN [Arm(s, "shutdown") EXCEPT !.sWrite = TRUE]
    ELSE DoClose(s)

\* What close() hands to a pending readUntilClose: the buffered bytes, to the
\* streaming callback when there is one, then the final callback.
FinishUntilClose(s) ==
    LET t == IF s.streamCb # 0 /\ Active(s) > 0
             THEN [RunCallback(s, "stream", s.streamCb, s.consumed, s.received)
                       EXCEPT !.consumed = s.received]
             ELSE s
    IN  [RunCallback(t, IF t.readCb = 0 THEN "lostRead" ELSE "read", t.readCb,
                     t.consumed, t.received)
             EXCEPT !.consumed = t.received, !.readCb = 0, !.untilClose = FALSE]

Close(s) ==
    IF Closed(s) THEN s
    ELSE LET t == IF s.untilClose THEN FinishUntilClose(s) ELSE s
         IN  CloseSocket([t EXCEPT !.closing = TRUE])

-----------------------------------------------------------------------------
\* Reading

\* The positions at which the current read may end.  _readBytes is tried
\* first, then the delimiter, then the regex; the members are independent,
\* and one left behind by an earlier call takes part.
Least(S) == CHOOSE p \in S : \A q \in S : p <= q

Matches(s, m) ==
    IF m \in s.marks THEN {p \in MarkAt[m] : s.consumed < p /\ p <= s.received} ELSE {}

Source(s) ==
    CASE s.readBytes # None /\ Active(s) >= s.readBytes -> "bytes"
      [] OTHER -> IF "delim" \in s.marks THEN "delim" ELSE "regex"

Ends(s) ==
    IF Source(s) = "bytes" THEN {s.consumed + s.readBytes} ELSE Matches(s, Source(s))

\* First part of readFromBuffer: whatever is buffered goes to the streaming
\* callback, up to the bytes the read still wants.
Streamed(s) ==
    IF s.streamCb = 0 \/ Active(s) = 0 THEN s
    ELSE LET n == IF s.readBytes # None /\ s.readBytes < Active(s)
                  THEN s.readBytes ELSE Active(s)
         IN  [RunCallback(s, "stream", s.streamCb, s.consumed, s.consumed + n)
                  EXCEPT !.consumed = @ + n,
                         !.readBytes = IF @ = None THEN None ELSE @ - n]

\* Mutant: the callback is copied, not moved, out of _readCallback.
DeliveredCopy(s) ==
    LET end == Least(Ends(s))
    IN  [RunCallback(s, IF s.readCb = 0 THEN "lostRead" ELSE "read", s.readCb, s.consumed, end)
             EXCEPT !.consumed = end, !.streamCb = 0,
                    !.readBytes = IF Source(s) = "bytes" THEN None ELSE @,
                    !.marks = @ \ {Source(s)}]

\* Mutant: what was delivered is counted off _readBytes instead of resetting it.
DeliveredCounting(s) ==
    LET end == Least(Ends(s))
    IN  [RunCallback(s, IF s.readCb = 0 THEN "lostRead" ELSE "read", s.readCb, s.consumed, end)
             EXCEPT !.consumed = end, !.readCb = 0, !.streamCb = 0,
                    !.readBytes = IF Source(s) = "bytes" THEN @ - Active(s) ELSE @,
                    !.marks = @ \ {Source(s)}]

\* Second part: the read is complete, its callback is posted.
Delivered(s) ==
    LET end == Least(Ends(s))
    IN  [RunCallback(s, IF s.readCb = 0 THEN "lostRead" ELSE "read", s.readCb,
                     s.consumed, end)
             EXCEPT !.consumed = end, !.readCb = 0, !.streamCb = 0,
                    !.readBytes = IF Source(s) = "bytes" THEN None ELSE @,
                    !.marks = @ \ {Source(s)}]

\* readFromBuffer returns true when the read was completed from the buffer.
Completes(s) == Ends(Streamed(s)) # {}
ReadFromBuffer(s) == IF Completes(s) THEN Delivered(Streamed(s)) ELSE Streamed(s)

\* Mutant: S_READ is not consulted.
TryInlineReadAgain(s) ==
    IF Completes(s) \/ Closed(s) THEN ReadFromBuffer(s)
    ELSE ReadFromSocket([ReadFromBuffer(s) EXCEPT
             !.queue = IF s.sRead THEN Append(@, [op |-> "read", res |-> "error", n |-> 0]) ELSE @])

\* tryInlineRead; on a closed stream checkClosed throws after the buffer was
\* tried, and the members set by the caller stay set.
TryInlineRead(s) ==
    IF Completes(s) \/ Closed(s) \/ s.sRead THEN ReadFromBuffer(s)
    ELSE ReadFromSocket(ReadFromBuffer(s))

\* Mutant: an aborted read is ignored, as an aborted handshake is.
OnReadIgnoringAbort(s, res, n) ==
    LET t == [s EXCEPT !.sRead = FALSE]
        u == [t EXCEPT !.received = @ + n]
        v == ReadFromBuffer(u)
    IN  CASE res = "aborted"  -> t
          [] res = "error"    -> Close(t)
          [] res = "overflow" -> Close(u)
          [] res = "ok"       ->
               IF Completes(u) \/ Closed(u) THEN v
               ELSE IF v.readCb # 0 THEN ReadFromSocket(v) ELSE MaybeAddErrorListener(v)

OnRead(s, res, n) ==
    LET t == [s EXCEPT !.sRead = FALSE]
        u == [t EXCEPT !.received = @ + n]
        v == ReadFromBuffer(u)
    IN  CASE res = "aborted"  -> MaybeRunCloseCallback(t)
          [] res = "error"    -> Close(t)
          [] res = "overflow" -> Close(u)
          [] OTHER            ->
               IF Completes(u) \/ Closed(u) THEN v
               ELSE IF v.readCb # 0 THEN ReadFromSocket(v) ELSE MaybeAddErrorListener(v)

-----------------------------------------------------------------------------
\* Writing

\* What the socket does with the write queue at once: it takes all of it,
\* fails, takes nothing and reports no error, or stops at position "to" after
\* k whole packets and would block.  A closed socket fails.
Outcomes(s) ==
    LET At(kind) == [kind |-> kind, k |-> 0, to |-> s.sent]
        From(k) == IF k = 0 THEN s.sent ELSE s.wq[k]
        Blocks == UNION {[kind : {"block"}, k : {k}, to : From(k)..(s.wq[k + 1] - 1)] :
                            k \in 0..(Len(s.wq) - 1)}
    IN  IF s.closed \/ Secure \/ s.wq = <<>> THEN {At("error")}
        ELSE {At("all"), At("error"), At("zero")} \cup Blocks

\* onWrite with an error.  The stream closes, so what of the queue had left
\* before the error is not tracked.
WriteFailed(s, res) ==
    LET t == [s EXCEPT !.sWrite = FALSE, !.writeCb = 0]
    IN  IF res = "error" THEN Close(t) ELSE MaybeRunCloseCallback(t)

\* onWrite with an empty queue.
WriteDrained(s) ==
    LET t == [s EXCEPT !.sWrite = FALSE]
    IN  IF t.writeCb # 0
        THEN [RunCallback(t, "write", t.writeCb, 0, t.writeEnd) EXCEPT !.writeCb = 0]
        ELSE IF Closed(t) THEN t ELSE MaybeAddErrorListener(t)

\* async_write_some of the front packet.  The SSL stream first joins the whole
\* queue into one packet.
ArmWrite(s) == [Arm(s, "write") EXCEPT !.sWrite = TRUE]

DoWrite(s) == ArmWrite([s EXCEPT !.wq = <<s.wq[Len(s.wq)]>>])

\* Mutant: a packet sent in part is popped.
WriteToSocketPopping(s, o) ==
    IF Secure THEN IF s.sslAccepted THEN DoWrite(s) ELSE DoHandshake(s)
    ELSE CASE o.kind = "all"   -> WriteDrained([s EXCEPT !.wq = <<>>, !.sent = s.written])
           [] o.kind = "error" -> WriteFailed(s, "error")
           [] o.kind = "zero"  -> Close(s)
           [] o.kind = "block" ->
                ArmWrite([s EXCEPT !.wq = SubSeq(@, o.k + 2, Len(@)), !.sent = o.to])

WriteToSocket(s, o) ==
    IF Secure THEN IF s.sslAccepted THEN DoWrite(s) ELSE DoHandshake(s)
    ELSE CASE o.kind = "all"   -> WriteDrained([s EXCEPT !.wq = <<>>, !.sent = s.written])
           [] o.kind = "error" -> WriteFailed(s, "error")
           [] o.kind = "zero"  -> Close(s)
           [] o.kind = "block" ->
                ArmWrite([s EXCEPT !.wq = SubSeq(@, o.k + 1, Len(@)), !.sent = o.to])

\* _writeQueue.front() on a queue that maybeRunCloseCallback has emptied is
\* undefined; the build either survives it or corrupts the deque and dies.
\* Here it is recorded, and Spec lets the process stop at any such state.
TakeFront(s, n) ==
    IF s.wq = <<>> THEN [s EXCEPT !.undefined = TRUE]
    ELSE [s EXCEPT !.sent = @ + n,
                   !.wq = IF s.sent + n = Head(@) THEN Tail(@) ELSE @]

\* Mutant: the write callback runs after the first packet.
OnWriteEarly(s, res, n, o) ==
    LET t == TakeFront([s EXCEPT !.sWrite = FALSE], n)
    IN  IF res # "ok" THEN WriteFailed(s, res)
        ELSE IF t.wq = <<>> \/ t.writeCb # 0 THEN WriteDrained(t)
        ELSE IF Closed(t) THEN t
        ELSE WriteToSocket(t, o)

OnWrite(s, res, n, o) ==
    LET t == TakeFront([s EXCEPT !.sWrite = FALSE], n)
    IN  IF res # "ok" THEN WriteFailed(s, res)
        ELSE IF t.wq = <<>> THEN WriteDrained(t)
        ELSE IF Closed(t) THEN t
        ELSE WriteToSocket(t, o)

\* The packets write() cuts a payload into.
Packets(from, len) ==
    [i \in 1..((len + ChunkSize - 1) \div ChunkSize) |->
        IF i * ChunkSize < len THEN from + i * ChunkSize ELSE from + len]

Enqueue(s, len, cb) ==
    [s EXCEPT !.wq = @ \o Packets(s.written, len), !.written = @ + len,
              !.writeCb = cb, !.writeEnd = s.written + len]

\* The end of write(): an empty queue runs the callback, given or not.
Flush(s, o) ==
    IF s.connecting THEN s
    ELSE IF s.wq = <<>>
         THEN [RunCallback(s, IF s.writeCb = 0 THEN "noWrite" ELSE "write",
                           s.writeCb, 0, s.writeEnd) EXCEPT !.writeCb = 0]
         ELSE IF s.sWrite THEN s ELSE WriteToSocket(s, o)

-----------------------------------------------------------------------------
\* Connecting

ConnectFailed(s, res) ==
    LET t == [s EXCEPT !.sWrite = FALSE, !.connectCb = FALSE]
    IN  IF res = "error" THEN Close(t) ELSE MaybeRunCloseCallback(t)

\* Mutant: what was written while connecting is not sent.
OnConnectForgetting(s, res, o) ==
    LET t == [s EXCEPT !.sWrite = FALSE]
        u == IF t.connectCb
             THEN [RunCallback(t, "connect", 0, 0, 0) EXCEPT !.connectCb = FALSE] ELSE t
        v == [u EXCEPT !.connecting = FALSE]
    IN  IF res # "ok" THEN ConnectFailed(s, res)
        ELSE IF s.closed THEN u
        ELSE MaybeAddErrorListener(v)

\* On a socket closed behind a connect that had succeeded, non_blocking throws to
\* the loop: the connect callback is posted, the rest is skipped.
OnConnect(s, res, o) ==
    LET t == [s EXCEPT !.sWrite = FALSE]
        u == IF t.connectCb
             THEN [RunCallback(t, "connect", 0, 0, 0) EXCEPT !.connectCb = FALSE] ELSE t
        v == [u EXCEPT !.connecting = FALSE]
    IN  IF res # "ok" THEN ConnectFailed(s, res)
        ELSE IF s.closed THEN u
        ELSE IF v.wq # <<>> THEN WriteToSocket(v, o)
        ELSE IF v.writeCb # 0
             THEN [RunCallback(v, "write", v.writeCb, 0, v.writeEnd) EXCEPT !.writeCb = 0]
             ELSE MaybeAddErrorListener(v)

RealConnect(s, resolved) ==
    IF ~resolved THEN ConnectFailed(s, "error")
    ELSE [Arm(s, "connect") EXCEPT !.sWrite = TRUE,
                                   !.sslConnectCb = Secure /\ s.connectCb,
                                   !.connectCb = ~Secure /\ @]

\* Mutant: a read called during the handshake is not started.
OnHandshakeForgetting(s, res) ==
    LET t == [s EXCEPT !.sWrite = FALSE, !.sslAccepting = FALSE]
        u == [t EXCEPT !.sslAccepted = TRUE]
        v == IF u.sslConnectCb
             THEN [RunCallback(u, "connect", 0, 0, 0) EXCEPT !.sslConnectCb = FALSE] ELSE u
        w == IF v.wq # <<>> THEN DoWrite(v) ELSE v
    IN  CASE res = "aborted" -> t
          [] res = "error"   -> Close(t)
          [] OTHER           -> MaybeAddErrorListener(w)

OnHandshake(s, res) ==
    LET t == [s EXCEPT !.sWrite = FALSE, !.sslAccepting = FALSE]
        u == [t EXCEPT !.sslAccepted = TRUE]
        v == IF u.sslConnectCb
             THEN [RunCallback(u, "connect", 0, 0, 0) EXCEPT !.sslConnectCb = FALSE] ELSE u
        w == IF v.wq # <<>> THEN DoWrite(v) ELSE v
        x == IF w.readCb # 0 THEN DoRead(w) ELSE w
    IN  CASE res = "aborted" -> t
          [] res = "error"   -> Close(t)
          [] OTHER           -> MaybeAddErrorListener(x)

OnShutdown(s) == DoClose([s EXCEPT !.sWrite = FALSE])

-----------------------------------------------------------------------------
\* Calls of the application, from a callback of this stream or from any other
\* handler of the loop.

Fresh ==
    [readCb |-> 0, streamCb |-> 0, writeCb |-> 0, closeCb |-> FALSE,
     connectCb |-> FALSE, sslConnectCb |-> FALSE,
     readBytes |-> None, marks |-> {}, untilClose |-> FALSE,
     opened |-> FALSE, connecting |-> FALSE, closing |-> FALSE, closed |-> FALSE,
     sslAccepting |-> FALSE, sslAccepted |-> FALSE,
     sRead |-> FALSE, sWrite |-> FALSE, pending |-> 0,
     consumed |-> 0, received |-> 0,
     wq |-> <<>>, sent |-> 0, written |-> 0, writeEnd |-> 0,
     reads |-> 0, writes |-> 0, undefined |-> FALSE,
     kernel |-> {}, queue |-> <<>>]

Init ==
    /\ stream = Fresh
    /\ running = Idle
    /\ finished = {}
    /\ handed = 0
    /\ closeSets = 0
    /\ closeRuns = 0

Calling == running.run \notin Empty /\ UNCHANGED <<running, finished, handed, closeRuns>>

\* TCPServer starts an accepted stream before it hands it out.
Start ==
    /\ Accepted /\ ~stream.opened
    /\ stream' = MaybeAddErrorListener([stream EXCEPT !.opened = TRUE])
    /\ UNCHANGED closeSets /\ Calling

Connect ==
    /\ ~Accepted /\ ~stream.opened /\ ~Closed(stream)
    /\ \E resolved \in BOOLEAN, callback \in BOOLEAN :
         stream' = RealConnect([stream EXCEPT !.opened = TRUE, !.connecting = TRUE,
                                              !.connectCb = callback], resolved)
    /\ UNCHANGED closeSets /\ Calling

\* setReadCallback asserts that no read is outstanding.
Reading(id) ==
    [stream EXCEPT !.reads = id, !.readCb = id]

ReadCall ==
    /\ stream.opened /\ stream.readCb = 0 /\ stream.reads < MaxReads
    /\ UNCHANGED closeSets /\ Calling

ReadBytes ==
    /\ ReadCall
    /\ \E n \in 0..MaxBytes, streaming \in BOOLEAN :
         LET id == stream.reads + 1
         IN  stream' = TryInlineRead([Reading(id) EXCEPT
                           !.readBytes = n, !.streamCb = IF streaming THEN id ELSE 0])

\* readUntil and readUntilRegex
ReadUntil ==
    /\ ReadCall
    /\ \E m \in Marks :
         /\ MarkAt[m] # {}
         /\ stream' = TryInlineRead([Reading(stream.reads + 1) EXCEPT !.marks = @ \cup {m}])

\* Mutant: the streamed bytes are given to the final callback again.
ReadRestTwice(s) ==
    LET t == IF s.streamCb = 0 THEN s
             ELSE RunCallback(s, "stream", s.streamCb, s.consumed, s.received)
    IN  [RunCallback(t, "read", t.readCb, t.consumed, t.received)
             EXCEPT !.consumed = t.received, !.readCb = 0, !.streamCb = 0]

\* On a closed stream the buffer is handed over at once: all of it to the
\* streaming callback if there is one, then the rest to the final callback.
ReadRest(s) ==
    LET t == IF s.streamCb = 0 THEN s
             ELSE [RunCallback(s, "stream", s.streamCb, s.consumed, s.received)
                       EXCEPT !.consumed = s.received]
    IN  [RunCallback(t, "read", t.readCb, t.consumed, t.received)
             EXCEPT !.consumed = t.received, !.readCb = 0, !.streamCb = 0]

ReadUntilClose ==
    /\ ReadCall
    /\ \E streaming \in BOOLEAN :
         LET id == stream.reads + 1
             s == [Reading(id) EXCEPT !.streamCb = IF streaming THEN id ELSE 0]
         IN  stream' = IF Closed(s) THEN ReadRest(s)
                       ELSE TryInlineRead([s EXCEPT !.untilClose = TRUE])

\* checkClosed makes write() throw on a closed stream.
Write ==
    /\ stream.opened /\ ~Closed(stream) /\ stream.writes < MaxWrites
    /\ \E len \in 0..MaxLength, callback \in BOOLEAN :
         LET id == stream.writes + 1
             s == Enqueue([stream EXCEPT !.writes = id], len, IF callback THEN id ELSE 0)
         IN  \E o \in Outcomes(s) : stream' = Flush(s, o)
    /\ UNCHANGED closeSets /\ Calling

SetCloseCallback ==
    /\ stream.opened \/ ~Accepted
    /\ closeSets < MaxSets
    /\ stream' = [stream EXCEPT !.closeCb = TRUE]
    /\ closeSets' = closeSets + 1
    /\ Calling

ResetCloseCallback ==
    /\ stream.closeCb
    /\ stream' = [stream EXCEPT !.closeCb = FALSE]
    /\ UNCHANGED closeSets /\ Calling

CloseCall ==
    /\ stream.opened \/ ~Accepted
    /\ ~Closed(stream)
    /\ stream' = Close(stream)
    /\ UNCHANGED closeSets /\ Calling

-----------------------------------------------------------------------------
\* The reactor completes an operation and queues its handler.  A handshake
\* needs the connection.

\* The last byte of the packet a write operation was given.
Front == IF stream.wq = <<>> THEN stream.written ELSE Head(stream.wq)

Complete(op) ==
    /\ op \in stream.kernel
    /\ op = "handshake" => "connect" \notin stream.kernel
    /\ \E res \in Results \ {"aborted"}, n \in 0..MaxBytes + MaxLength * MaxWrites :
         /\ CASE op = "read" /\ res # "error"  -> n \in 1..(MaxBytes - stream.received)
              [] op = "write" /\ res = "ok"    -> n \in 1..(Front - stream.sent)
              [] OTHER                          -> n = 0 /\ res # "overflow"
         /\ stream' = [stream EXCEPT !.kernel = @ \ {op},
                            !.queue = Append(@, [op |-> op, res |-> res, n |-> n])]
    /\ UNCHANGED <<running, finished, handed, closeSets, closeRuns>>

-----------------------------------------------------------------------------
\* The loop runs the handlers in order.

Taken == [stream EXCEPT !.queue = Tail(@)]
NextHandler == Head(stream.queue)
Dispatches == running = Idle /\ stream.queue # <<>>

\* A completion handler runs to its end.
HandleCompletion ==
    /\ Dispatches /\ ~IsRun(NextHandler)
    /\ LET s == Taken
           h == NextHandler
       IN  CASE h.op = "read"      -> stream' = OnRead(s, h.res, h.n)
             [] h.op = "connect"   -> \E o \in Outcomes(s) : stream' = OnConnect(s, h.res, o)
             [] h.op = "handshake" -> stream' = OnHandshake(s, h.res)
             [] h.op = "shutdown"  -> stream' = OnShutdown(s)
             [] OTHER              ->  \* "write"
                  \E o \in Outcomes(TakeFront(s, h.n)) : stream' = OnWrite(s, h.res, h.n, o)
    /\ UNCHANGED <<running, finished, handed, closeSets, closeRuns>>

\* Mutant: the wrapper never leaves the pending count.
BeginCallbackLeaking ==
    /\ Dispatches /\ IsRun(NextHandler)
    /\ stream' = Taken
    /\ running' = NextHandler
    /\ UNCHANGED <<finished, handed, closeSets, closeRuns>>

\* The wrapper posted by runCallback: it leaves the pending count, then calls
\* the callback, which runs until CallbackReturns or CallbackThrows.
BeginCallback ==
    /\ Dispatches /\ IsRun(NextHandler)
    /\ stream' = [Taken EXCEPT !.pending = @ - 1]
    /\ running' = NextHandler
    /\ finished' = IF NextHandler.run = "read" THEN finished \cup {NextHandler.id} ELSE finished
    /\ handed' = IF NextHandler.run \in {"read", "stream", "lostRead"} THEN NextHandler.hi ELSE handed
    /\ closeRuns' = IF NextHandler.run = "close" THEN closeRuns + 1 ELSE closeRuns
    /\ UNCHANGED closeSets

\* Mutant: a callback returns without the error listener.
CallbackReturnsDeaf ==
    /\ running # Idle /\ running.run \notin Empty
    /\ running' = Idle
    /\ UNCHANGED <<stream, finished, handed, closeSets, closeRuns>>

CallbackReturns ==
    /\ running # Idle /\ running.run \notin Empty
    /\ stream' = MaybeAddErrorListener(stream)
    /\ running' = Idle
    /\ UNCHANGED <<finished, handed, closeSets, closeRuns>>

\* A std::exception is thrown on to the loop and skips the listener; anything
\* else is swallowed.  Calling an empty std::function throws the former.
CallbackThrows ==
    /\ running # Idle
    /\ \E standard \in BOOLEAN :
         /\ IF running.run \in Empty THEN standard ELSE Throwing
         /\ stream' = IF standard THEN Close(stream) ELSE MaybeAddErrorListener(Close(stream))
    /\ running' = Idle
    /\ UNCHANGED <<finished, handed, closeSets, closeRuns>>

Application ==
    \/ Start \/ Connect \/ ReadBytes \/ ReadUntil \/ ReadUntilClose \/ Write
    \/ SetCloseCallback \/ ResetCloseCallback \/ CloseCall

Next ==
    \/ Application
    \/ \E op \in Operations : Complete(op)
    \/ HandleCompletion \/ BeginCallback \/ CallbackReturns \/ CallbackThrows

Spec == Init /\ [][Next]_vars

\* The loop runs the handlers it holds and callbacks come to an end, unless
\* undefined behaviour has killed the process.  Nothing is assumed of the peer
\* (Complete) or of the application.
Loop == HandleCompletion \/ BeginCallback \/ CallbackReturns \/ CallbackThrows

FairSpec == Spec /\ WF_vars(~stream.undefined /\ Loop)

-----------------------------------------------------------------------------
\* Properties

StreamType ==
    [readCb : Nat, streamCb : Nat, writeCb : Nat, closeCb : BOOLEAN,
     connectCb : BOOLEAN, sslConnectCb : BOOLEAN,
     readBytes : Nat \cup {None}, marks : SUBSET Marks, untilClose : BOOLEAN,
     opened : BOOLEAN, connecting : BOOLEAN, closing : BOOLEAN, closed : BOOLEAN,
     sslAccepting : BOOLEAN, sslAccepted : BOOLEAN,
     sRead : BOOLEAN, sWrite : BOOLEAN, pending : Int,
     consumed : Nat, received : Nat,
     wq : Seq(Nat), sent : Nat, written : Nat, writeEnd : Nat,
     reads : Nat, writes : Nat, undefined : BOOLEAN,
     kernel : SUBSET Operations, queue : Seq(Runs \cup Completions)]

\* Every member has its type.
TypeOK ==
    /\ stream \in StreamType
    /\ running \in Runs \cup {Idle}
    /\ finished \in SUBSET Nat
    /\ handed \in Nat
    /\ closeSets \in Nat
    /\ closeRuns \in Nat

Indices(P(_)) == {i \in DOMAIN stream.queue : P(stream.queue[i])}

RunIndices == Indices(IsRun)
CompletionIndices(op) == Indices(LAMBDA h : ~IsRun(h) /\ h.op = op)

Outstanding(op) ==
    Cardinality(CompletionIndices(op)) + (IF op \in stream.kernel THEN 1 ELSE 0)

\* The pending count is the number of posted callbacks: a leak would hold the
\* close callback back for ever, an undercount would let it overtake one.
PendingIsPosted == stream.pending = Cardinality(RunIndices)

\* One operation at most uses each side of the socket: S_READ is set exactly while
\* a read is with the reactor or its handler is waiting (two at once would write
\* into the same buffer space), and S_WRITE is never clear while a connect, write
\* or shutdown is outstanding.
OneOperation ==
    LET writing == Outstanding("connect") + Outstanding("write") + Outstanding("shutdown")
    IN  /\ Outstanding("read") = (IF stream.sRead THEN 1 ELSE 0)
        /\ writing <= 1 /\ (writing = 1 => stream.sWrite)

\* A read the application waits for is never forgotten: while the stream is
\* open an operation is outstanding that will serve it or close the stream.
NoForgottenRead ==
    stream.readCb # 0 /\ ~Closed(stream) => stream.sRead \/ stream.sslAccepting

\* Queued bytes are never forgotten either.
NoForgottenWrite ==
    stream.wq # <<>> /\ ~Closed(stream) =>
        stream.sWrite \/ stream.connecting \/ stream.sslAccepting

\* Between callbacks an open stream always listens, or will when the callbacks
\* already posted have run: the peer's close cannot go unnoticed.
NeverDeaf ==
    stream.opened /\ ~Closed(stream) /\ running = Idle =>
        stream.sRead \/ stream.sWrite \/ stream.sslAccepting \/ stream.pending > 0

IsData(h) == IsRun(h) /\ h.run \in {"read", "stream", "lostRead"}

\* The posted callbacks carry the received bytes in order, each byte once.
BytesInOrder ==
    LET q == stream.queue
        D == Indices(IsData)
        Before(i) == {j \in D : j < i}
        Last(I) == CHOOSE i \in I : \A j \in I : j <= i
    IN  /\ \A i \in D : q[i].lo = IF Before(i) = {} THEN handed ELSE q[Last(Before(i))].hi
        /\ stream.consumed = IF D = {} THEN handed ELSE q[Last(D)].hi

\* A read call is answered once: its final callback is not posted twice, and
\* not again after it has run.
AnsweredOnce ==
    \A i \in DOMAIN stream.queue :
        LET h == stream.queue[i]
        IN  IsRun(h) /\ h.run = "read" =>
                /\ h.id \notin finished
                /\ h.id # stream.readCb
                /\ \A j \in DOMAIN stream.queue :
                     j # i /\ IsRun(stream.queue[j]) /\ stream.queue[j].run = "read" =>
                         stream.queue[j].id # h.id

\* A write callback is posted when every byte queued before and by its call
\* has been taken by the socket.
WrittenMeansSent ==
    \A i \in RunIndices : stream.queue[i].run = "write" => stream.queue[i].hi <= stream.sent

\* Behind a posted close callback come only reads called after it was posted:
\* nothing the application was still owed is delivered after the news.
CloseComesLast ==
    \A i, j \in RunIndices :
        i < j /\ stream.queue[i].run = "close" =>
            IsData(stream.queue[j]) /\ (stream.queue[j].id > stream.queue[i].id
                                           \/ stream.queue[j].run = "lostRead")

\* The close callback runs at most once for each time it was set.
ClosedOnce == closeRuns <= closeSets

\* The calls that are still to be answered: the one in the member, and those whose
\* callback is posted.
CallsPosted(s, run) ==
    {s.queue[i].id : i \in {i \in DOMAIN s.queue : IsRun(s.queue[i]) /\ s.queue[i].run = run}}
OwedReads(s) == CallsPosted(s, "read") \cup ({s.readCb} \ {0})
OwedWrites(s) == CallsPosted(s, "write") \cup ({s.writeCb} \ {0})

Promise == INSTANCE Delivery WITH
    asked <- stream.reads, owed <- OwedReads(stream),
    written <- stream.writes, waiting <- OwedWrites(stream),
    arrived <- stream.received, handed <- handed,
    watched <- stream.closeCb, notice <- CallsPosted(stream, "close") # {},
    closed <- Closed(stream), news <- running

\* The application that uses a stream gets what Delivery promises, in whatever
\* order reads, writes, completions, aborts and closes come.
Delivers == Promise!Spec

\* Only a stream that is closed calls an empty read callback, or finds the write
\* queue empty behind a completed write.
BrokenOnlyWhenClosed ==
    /\ stream.undefined => Closed(stream)
    /\ \A i \in RunIndices : stream.queue[i].run = "lostRead" => Closed(stream)

\* What setCloseCallback promises: a close callback set on an open stream is
\* run (or withdrawn by the application) once the stream is closed.
CloseCallbackDelivered ==
    [](stream.closeCb /\ ~Closed(stream) => [](stream.closed => <>~stream.closeCb))

\* The promise is kept whenever the stream closes with nothing but callbacks
\* and aborted operations waiting in the loop: no completed operation and no
\* aborted handshake, whose handlers do not try the close callback.
Harmless(h) ==
    IF IsRun(h) THEN h.run \notin Empty ELSE h.res = "aborted" /\ h.op # "handshake"

CloseCallbackDeliveredAfterAborts ==
    ( /\ stream.closed /\ stream.closeCb /\ ~stream.undefined
      /\ stream.queue # <<>> \/ running # Idle
      /\ running.run \notin Empty
      /\ \A i \in DOMAIN stream.queue : Harmless(stream.queue[i]) ) ~> ~stream.closeCb
=============================================================================
