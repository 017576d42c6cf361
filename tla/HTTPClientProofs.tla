--------------------------- MODULE HTTPClientProofs ----------------------------
(***************************************************************************)
(* Proofs that a fetch implements Fetch, so that its callback is called or *)
(* passed on once (HTTPClient!CalledOnce), and that its connection is      *)
(* closed by the step that does so (HTTPClient!AnswerCloses), and that no  *)
(* timeout outlives its connection (HTTPClient!NoStrayTimer).              *)
(*                                                                         *)
(* A handler changes the stream and the connection several times.  Each    *)
(* change is GoodTo: the stream stays closed if it was, the callback goes  *)
(* only if the stream is then closed, and the fetch Leads from its stage   *)
(* to the same or a later one.  GoodTo composes, so each handler is proved *)
(* as the sequence of its calls.                                           *)
(*                                                                         *)
(* Of the timeouts only the one in _timeout is armed, and a fetch that has *)
(* not been started holds none (TimerInv); whatever ends a fetch removes   *)
(* what _timeout holds.                                                    *)
(***************************************************************************)
EXTENDS HTTPClient, FiniteSetTheorems, TLAPS

-----------------------------------------------------------------------------
\* What a stream keeps, whatever helper of IOStream is applied to it: closed
\* (closing or closed) it stays closed, opened it stays opened, and the answers
\* the client has posted stay in its queue.  Close closes it.

\* A queue of handlers, in which what is an answer is nothing else.
IsFifo(q) ==
    \E T : q \in Seq(T) /\ \A h \in T : "answer" \in DOMAIN h => DOMAIN h = {"answer"}

\* Where in a queue the answers are that runCallback of an HTTPClient has posted.
AnswersIn(q) == {i \in DOMAIN q : "answer" \in DOMAIN q[i]}

HasState(s) == {"opened", "closing", "closed", "queue"} \subseteq DOMAIN s /\ IsFifo(s.queue)

\* What any step of a stream keeps.
Later(s, r) ==
    /\ HasState(r) /\ r.opened = s.opened /\ (Closed(s) => Closed(r))
    /\ AnswersIn(r.queue) = AnswersIn(s.queue)

\* The three members are untouched, and no answer comes or goes.
SameState(s, r) ==
    /\ HasState(r) /\ r.opened = s.opened /\ r.closing = s.closing /\ r.closed = s.closed
    /\ AnswersIn(r.queue) = AnswersIn(s.queue)

LEMMA LaterReflexive ==
    ASSUME NEW s, HasState(s)
    PROVE  Later(s, s)
BY DEF Later

LEMMA LaterTransitive ==
    ASSUME NEW s, NEW t, NEW r, Later(s, t), Later(t, r)
    PROVE  Later(s, r)
BY DEF Later

LEMMA SameIsLater ==
    ASSUME NEW s, NEW r, SameState(s, r)
    PROVE  Later(s, r)
BY DEF Later, SameState, Closed

-----------------------------------------------------------------------------
\* The queue

LEMMA AppendKeeps ==
    ASSUME NEW q, IsFifo(q), NEW h, "answer" \notin DOMAIN h
    PROVE  IsFifo(Append(q, h)) /\ AnswersIn(Append(q, h)) = AnswersIn(q)
<1>1. PICK T : q \in Seq(T) /\ \A g \in T : "answer" \in DOMAIN g => DOMAIN g = {"answer"}
  BY DEF IsFifo
<1>2. Append(q, h) \in Seq(T \cup {h})
  <2>1. q \in Seq(T \cup {h})
    BY <1>1
  <2> QED BY <2>1
<1>3. /\ DOMAIN Append(q, h) = DOMAIN q \cup {Len(q) + 1}
      /\ \A i \in DOMAIN q : Append(q, h)[i] = q[i]
      /\ Append(q, h)[Len(q) + 1] = h
  BY <1>1
<1>4. \A g \in T \cup {h} : "answer" \in DOMAIN g => DOMAIN g = {"answer"}
  BY <1>1
<1>5. IsFifo(Append(q, h))
  BY <1>2, <1>4 DEF IsFifo
<1>6. \A i : i \in AnswersIn(Append(q, h)) <=> i \in AnswersIn(q)
  <2>1. Len(q) + 1 \notin DOMAIN q
    BY <1>1
  <2> QED BY <1>3, <2>1 DEF AnswersIn
<1> QED BY <1>5, <1>6

LEMMA AbortedKeeps ==
    ASSUME NEW q, IsFifo(q), NEW s, NEW op
    PROVE  IsFifo(q \o Aborted(s, op)) /\ AnswersIn(q \o Aborted(s, op)) = AnswersIn(q)
<1> DEFINE h == [op |-> op, res |-> "aborted", n |-> 0]
<1>1. \E T : q \in Seq(T)
  BY DEF IsFifo
<1>2. Aborted(s, op) \in {<<h>>, <<>>}
  BY DEF Aborted
<1>3. q \o <<>> = q /\ q \o <<h>> = Append(q, h)
  BY <1>1
<1>4. "answer" \notin DOMAIN h
  OBVIOUS
<1> HIDE DEF h
<1> QED BY <1>2, <1>3, <1>4, AppendKeeps

\* Taking the next handler takes an answer only if it is one.
LEMMA TailKeeps ==
    ASSUME NEW q, IsFifo(q), q # <<>>
    PROVE  /\ IsFifo(Tail(q))
           /\ AnswersIn(q) = {} => AnswersIn(Tail(q)) = {}
           /\ \A i : AnswersIn(q) = {i} =>
                IF "answer" \in DOMAIN Head(q) THEN AnswersIn(Tail(q)) = {}
                ELSE AnswersIn(Tail(q)) = {i - 1}
           /\ "answer" \in DOMAIN Head(q) => AnswersIn(q) # {} /\ DOMAIN Head(q) = {"answer"}
<1>1. PICK T : q \in Seq(T) /\ \A h \in T : "answer" \in DOMAIN h => DOMAIN h = {"answer"}
  BY DEF IsFifo
<1>2. /\ Len(q) \in Nat \ {0} /\ DOMAIN q = 1..Len(q) /\ Head(q) = q[1]
      /\ Tail(q) \in Seq(T) /\ DOMAIN Tail(q) = 1..(Len(q) - 1)
      /\ \A i \in 1..(Len(q) - 1) : Tail(q)[i] = q[i + 1]
  BY <1>1
<1>3. AnswersIn(Tail(q)) = {i \in 1..(Len(q) - 1) : i + 1 \in AnswersIn(q)}
  BY <1>2 DEF AnswersIn
<1>4. 1 \in AnswersIn(q) <=> "answer" \in DOMAIN Head(q)
  BY <1>2 DEF AnswersIn
<1>5. AnswersIn(q) \subseteq 1..Len(q)
  BY <1>2 DEF AnswersIn
<1>6. ASSUME NEW i, AnswersIn(q) = {i}, "answer" \notin DOMAIN Head(q)
      PROVE  AnswersIn(Tail(q)) = {i - 1}
  <2>1. i \in 2..Len(q)
    BY <1>2, <1>4, <1>5, <1>6
  <2> QED BY <1>2, <1>3, <1>6, <2>1
<1>7. ASSUME NEW i, AnswersIn(q) = {i}, "answer" \in DOMAIN Head(q)
      PROVE  AnswersIn(Tail(q)) = {}
  <2>1. i = 1
    BY <1>4, <1>7
  <2> QED BY <1>2, <1>3, <1>7, <2>1
<1>8. AnswersIn(q) = {} => AnswersIn(Tail(q)) = {}
  BY <1>3
<1>9. IsFifo(Tail(q))
  BY <1>1, <1>2 DEF IsFifo
<1>10. "answer" \in DOMAIN Head(q) => DOMAIN Head(q) = {"answer"}
  BY <1>1, <1>2
<1> QED BY <1>4, <1>6, <1>7, <1>8, <1>9, <1>10

-----------------------------------------------------------------------------
\* Callbacks and operations

LEMMA RunCallbackKeeps ==
    ASSUME NEW s, HasState(s), NEW cb, NEW id, NEW lo, NEW hi
    PROVE  SameState(s, RunCallback(s, cb, id, lo, hi))
<1> DEFINE h == [run |-> cb, id |-> id, lo |-> lo, hi |-> hi]
<1>1. "answer" \notin DOMAIN h
  OBVIOUS
<1>2. RunCallback(s, cb, id, lo, hi) = [s EXCEPT !.pending = @ + 1, !.queue = Append(@, h)]
  BY DEF RunCallback
<1> HIDE DEF h
<1>3. IsFifo(Append(s.queue, h)) /\ AnswersIn(Append(s.queue, h)) = AnswersIn(s.queue)
  BY <1>1, AppendKeeps DEF HasState
<1> QED BY <1>2, <1>3 DEF HasState, SameState

LEMMA ClearCallbacksKeeps ==
    ASSUME NEW s, HasState(s)
    PROVE  SameState(s, ClearCallbacks(s))
BY DEF HasState, SameState, ClearCallbacks

LEMMA MaybeRunCloseCallbackKeeps ==
    ASSUME NEW s, HasState(s)
    PROVE  SameState(s, MaybeRunCloseCallback(s))
<1> DEFINE p == RunCallback(s, "close", s.reads, 0, 0)
           c == ClearCallbacks(p)
<1>1. SameState(s, p)
  BY RunCallbackKeeps
<1>2. MaybeRunCloseCallback(s) \in
        {[c EXCEPT !.wq = <<>>], [s EXCEPT !.readCb = 0, !.writeCb = 0, !.wq = <<>>],
         ClearCallbacks(s), s}
  BY DEF MaybeRunCloseCallback
<1> HIDE DEF p
<1>3. SameState(p, c)
  BY <1>1, ClearCallbacksKeeps DEF SameState
<1> HIDE DEF c
<1>4. SameState(s, [c EXCEPT !.wq = <<>>])
  BY <1>1, <1>3 DEF SameState, HasState
<1>5. SameState(s, [s EXCEPT !.readCb = 0, !.writeCb = 0, !.wq = <<>>]) /\ SameState(s, s)
  BY DEF SameState, HasState
<1> QED BY <1>2, <1>4, <1>5, ClearCallbacksKeeps

LEMMA ArmKeeps ==
    ASSUME NEW s, HasState(s), NEW op
    PROVE  SameState(s, Arm(s, op))
<1> DEFINE h == [op |-> op, res |-> "error", n |-> 0]
<1>1. "answer" \notin DOMAIN h
  OBVIOUS
<1>2. Arm(s, op) \in {[s EXCEPT !.queue = Append(@, h)], [s EXCEPT !.kernel = @ \cup {op}]}
  BY DEF Arm
<1> HIDE DEF h
<1>3. IsFifo(Append(s.queue, h)) /\ AnswersIn(Append(s.queue, h)) = AnswersIn(s.queue)
  BY <1>1, AppendKeeps DEF HasState
<1> QED BY <1>2, <1>3 DEF HasState, SameState

LEMMA ReadFromSocketKeeps ==
    ASSUME NEW s, HasState(s)
    PROVE  SameState(s, ReadFromSocket(s)) /\ SameState(s, DoHandshake(s)) /\ SameState(s, DoRead(s))
<1> DEFINE h == Arm(s, "handshake")
           r == Arm(s, "read")
<1>1. SameState(s, h) /\ SameState(s, r)
  BY ArmKeeps
<1>2. /\ DoHandshake(s) \in {s, [h EXCEPT !.sslAccepting = TRUE, !.sWrite = TRUE]}
      /\ DoRead(s) = [r EXCEPT !.sRead = TRUE]
  BY DEF DoHandshake, DoRead
<1> HIDE DEF h, r
<1>3. SameState(s, DoHandshake(s)) /\ SameState(s, DoRead(s))
  BY <1>1, <1>2 DEF SameState, HasState
<1> QED BY <1>3 DEF ReadFromSocket

LEMMA ListenerKeeps ==
    ASSUME NEW s, HasState(s)
    PROVE  SameState(s, MaybeAddErrorListener(s))
<1>1. SameState(s, s)
  BY DEF SameState
<1> QED BY <1>1, MaybeRunCloseCallbackKeeps, ReadFromSocketKeeps DEF MaybeAddErrorListener

-----------------------------------------------------------------------------
\* Closing

LEMMA AbortOperationsKeeps ==
    ASSUME NEW s, HasState(s)
    PROVE  SameState(s, AbortOperations(s))
<1> DEFINE q1 == s.queue \o Aborted(s, "read")
           q2 == q1 \o Aborted(s, "connect")
           q3 == q2 \o Aborted(s, "handshake")
           q4 == q3 \o Aborted(s, "write")
           q5 == q4 \o Aborted(s, "shutdown")
<1>1. AbortOperations(s) = [s EXCEPT !.kernel = {}, !.queue = q5]
  BY DEF AbortOperations
<1>2. IsFifo(q1) /\ AnswersIn(q1) = AnswersIn(s.queue)
  BY AbortedKeeps DEF HasState
<1> HIDE DEF q1
<1>3. IsFifo(q2) /\ AnswersIn(q2) = AnswersIn(q1)
  BY <1>2, AbortedKeeps
<1> HIDE DEF q2
<1>4. IsFifo(q3) /\ AnswersIn(q3) = AnswersIn(q2)
  BY <1>3, AbortedKeeps
<1> HIDE DEF q3
<1>5. IsFifo(q4) /\ AnswersIn(q4) = AnswersIn(q3)
  BY <1>4, AbortedKeeps
<1> HIDE DEF q4
<1>6. IsFifo(q5) /\ AnswersIn(q5) = AnswersIn(q4)
  BY <1>5, AbortedKeeps
<1> HIDE DEF q5
<1> QED BY <1>1, <1>2, <1>3, <1>4, <1>5, <1>6 DEF HasState, SameState

LEMMA DoCloseCloses ==
    ASSUME NEW s, HasState(s)
    PROVE  LET r == DoClose(s) IN Later(s, r) /\ Closed(r)
<1> DEFINE t == AbortOperations(s)
           u == [t EXCEPT !.closing = FALSE, !.closed = TRUE]
<1>1. SameState(s, t)
  BY AbortOperationsKeeps
<1>2. DoClose(s) = MaybeRunCloseCallback(u)
  BY DEF DoClose, OnClose
<1> HIDE DEF t
<1>3. /\ HasState(u) /\ u.opened = s.opened /\ u.closed
      /\ AnswersIn(u.queue) = AnswersIn(s.queue)
  BY <1>1 DEF SameState, HasState
<1> HIDE DEF u
<1> QED BY <1>2, <1>3, MaybeRunCloseCallbackKeeps DEF SameState, Later, Closed

LEMMA FinishUntilCloseKeeps ==
    ASSUME NEW s, HasState(s)
    PROVE  SameState(s, FinishUntilClose(s))
<1> DEFINE p == RunCallback(s, "stream", s.streamCb, s.consumed, s.received)
           t == IF s.streamCb # 0 /\ Active(s) > 0 THEN [p EXCEPT !.consumed = s.received] ELSE s
           u == RunCallback(t, IF t.readCb = 0 THEN "lostRead" ELSE "read", t.readCb,
                            t.consumed, t.received)
<1>1. SameState(s, p)
  BY RunCallbackKeeps
<1> HIDE DEF p
<1>2. SameState(s, t)
  BY <1>1 DEF SameState, HasState
<1>3. FinishUntilClose(s) = [u EXCEPT !.consumed = t.received, !.readCb = 0, !.untilClose = FALSE]
  BY DEF FinishUntilClose, p
<1> HIDE DEF t
<1>4. SameState(t, u)
  BY <1>2, RunCallbackKeeps DEF SameState
<1> HIDE DEF u
<1> QED BY <1>2, <1>3, <1>4 DEF SameState, HasState

LEMMA CloseCloses ==
    ASSUME NEW s, HasState(s)
    PROVE  LET r == Close(s) IN Later(s, r) /\ Closed(r)
<1>1. CASE Closed(s)
  BY <1>1 DEF Close, Later
<1>2. CASE ~Closed(s)
  <2> DEFINE t == IF s.untilClose THEN FinishUntilClose(s) ELSE s
             u == [t EXCEPT !.closing = TRUE]
             a == Arm(u, "shutdown")
  <2>1. HasState(t) /\ t.opened = s.opened /\ AnswersIn(t.queue) = AnswersIn(s.queue)
    BY FinishUntilCloseKeeps DEF SameState
  <2>2. Close(s) = CloseSocket(u)
    BY <1>2 DEF Close
  <2> HIDE DEF t
  <2>3. /\ HasState(u) /\ u.opened = s.opened /\ u.closing
        /\ AnswersIn(u.queue) = AnswersIn(s.queue)
    BY <2>1 DEF HasState
  <2> HIDE DEF u
  <2>4. SameState(u, a)
    BY <2>3, ArmKeeps
  <2>5. CloseSocket(u) \in {[a EXCEPT !.sWrite = TRUE], DoClose(u)}
    BY DEF CloseSocket
  <2> HIDE DEF a
  <2>6. SameState(u, [a EXCEPT !.sWrite = TRUE])
    BY <2>4 DEF SameState, HasState
  <2> QED BY <2>2, <2>3, <2>5, <2>6, DoCloseCloses DEF SameState, Later, Closed
<1> QED BY <1>1, <1>2

LEMMA CloseIsLater ==
    ASSUME NEW s, HasState(s)
    PROVE  Later(s, Close(s)) /\ Later(s, DoClose(s))
BY CloseCloses, DoCloseCloses DEF Later

-----------------------------------------------------------------------------
\* Reading

LEMMA ReadFromBufferKeeps ==
    ASSUME NEW s, HasState(s)
    PROVE  SameState(s, ReadFromBuffer(s))
<1>1. ASSUME NEW r, HasState(r)
      PROVE  SameState(r, Delivered(r))
  <2> DEFINE p == RunCallback(r, IF r.readCb = 0 THEN "lostRead" ELSE "read", r.readCb,
                              r.consumed, Least(Ends(r)))
  <2>1. SameState(r, p)
    BY <1>1, RunCallbackKeeps
  <2>2. Delivered(r) =
          [p EXCEPT !.consumed = Least(Ends(r)), !.readCb = 0, !.streamCb = 0,
                    !.readBytes = IF Source(r) = "bytes" THEN None ELSE p.readBytes,
                    !.marks = p.marks \ {Source(r)}]
    BY DEF Delivered
  <2> HIDE DEF p
  <2> QED BY <2>1, <2>2 DEF SameState, HasState
<1>2. SameState(s, Streamed(s))
  <2> DEFINE n == IF s.readBytes # None /\ s.readBytes < Active(s) THEN s.readBytes ELSE Active(s)
             p == RunCallback(s, "stream", s.streamCb, s.consumed, s.consumed + n)
  <2>1. SameState(s, p)
    BY RunCallbackKeeps
  <2>2. Streamed(s) \in
          {s, [p EXCEPT !.consumed = p.consumed + n,
                        !.readBytes = IF p.readBytes = None THEN None ELSE p.readBytes - n]}
    BY DEF Streamed
  <2> HIDE DEF p, n
  <2> QED BY <2>1, <2>2 DEF SameState, HasState
<1> HIDE DEF SameState, HasState
<1>3. SameState(Streamed(s), Delivered(Streamed(s)))
  BY <1>1, <1>2 DEF SameState
<1>4. SameState(s, Delivered(Streamed(s)))
  BY <1>2, <1>3 DEF SameState
<1> QED BY <1>2, <1>4 DEF ReadFromBuffer

LEMMA TryInlineReadKeeps ==
    ASSUME NEW s, HasState(s)
    PROVE  SameState(s, TryInlineRead(s))
<1>1. SameState(s, ReadFromBuffer(s))
  BY ReadFromBufferKeeps
<1>2. SameState(ReadFromBuffer(s), ReadFromSocket(ReadFromBuffer(s)))
  BY <1>1, ReadFromSocketKeeps DEF SameState
<1> QED BY <1>1, <1>2 DEF TryInlineRead, SameState

LEMMA StartReadKeeps ==
    ASSUME NEW s, HasState(s)
    PROVE  /\ SameState(s, StartRead(s))
           /\ \A m : SameState(s, BeginReadUntil(s, m))
           /\ \A n : SameState(s, BeginReadBytes(s, n))
<1>1. SameState(s, StartRead(s))
  BY DEF SameState, HasState, StartRead
<1> HIDE DEF StartRead
<1> QED BY <1>1 DEF SameState, HasState, BeginReadUntil, BeginReadBytes

LEMMA CallReadUntilCloseKeeps ==
    ASSUME NEW s, HasState(s)
    PROVE  SameState(s, CallReadUntilClose(s))
<1>1. ASSUME NEW r, HasState(r)
      PROVE  SameState(r, ReadRest(r))
  <2> DEFINE p == RunCallback(r, "stream", r.streamCb, r.consumed, r.received)
             t == IF r.streamCb = 0 THEN r ELSE [p EXCEPT !.consumed = r.received]
             u == RunCallback(t, "read", t.readCb, t.consumed, t.received)
  <2>1. SameState(r, p)
    BY <1>1, RunCallbackKeeps
  <2> HIDE DEF p
  <2>2. SameState(r, t)
    BY <1>1, <2>1 DEF SameState, HasState
  <2>3. ReadRest(r) = [u EXCEPT !.consumed = t.received, !.readCb = 0, !.streamCb = 0]
    BY DEF ReadRest, p
  <2> HIDE DEF t
  <2>4. SameState(t, u)
    BY <2>2, RunCallbackKeeps DEF SameState
  <2> HIDE DEF u
  <2> QED BY <2>2, <2>3, <2>4 DEF SameState, HasState
<1> DEFINE b == StartRead(s)
           w == [b EXCEPT !.untilClose = TRUE]
<1>2. SameState(s, b)
  BY StartReadKeeps
<1>3. CallReadUntilClose(s) \in {ReadRest(b), TryInlineRead(w)}
  BY DEF CallReadUntilClose
<1> HIDE DEF b
<1>4. SameState(s, w)
  BY <1>2 DEF SameState, HasState
<1> HIDE DEF w
<1>5. SameState(b, ReadRest(b)) /\ SameState(w, TryInlineRead(w))
  BY <1>1, <1>2, <1>4, TryInlineReadKeeps DEF SameState
<1> QED BY <1>2, <1>3, <1>4, <1>5 DEF SameState

LEMMA OnReadLater ==
    ASSUME NEW s, HasState(s), NEW res, NEW n
    PROVE  Later(s, OnRead(s, res, n))
<1> DEFINE t == [s EXCEPT !.sRead = FALSE]
           u == [t EXCEPT !.received = @ + n]
           v == ReadFromBuffer(u)
<1>1. SameState(s, t)
  BY DEF SameState, HasState
<1>2. OnRead(s, res, n) \in {MaybeRunCloseCallback(t), Close(t), Close(u), v,
                             ReadFromSocket(v), MaybeAddErrorListener(v)}
  BY DEF OnRead
<1> HIDE DEF t
<1>3. SameState(s, u)
  BY <1>1 DEF SameState, HasState
<1> HIDE DEF u
<1>4. SameState(s, v)
  BY <1>3, ReadFromBufferKeeps DEF SameState
<1> HIDE DEF v
<1>5. /\ SameState(t, MaybeRunCloseCallback(t))
      /\ SameState(v, ReadFromSocket(v)) /\ SameState(v, MaybeAddErrorListener(v))
  BY <1>1, <1>4, MaybeRunCloseCallbackKeeps, ReadFromSocketKeeps, ListenerKeeps DEF SameState
<1>6. Later(t, Close(t)) /\ Later(u, Close(u))
  BY <1>1, <1>3, CloseIsLater DEF SameState
<1> QED BY <1>1, <1>2, <1>3, <1>4, <1>5, <1>6, SameIsLater, LaterTransitive

-----------------------------------------------------------------------------
\* Writing and connecting

LEMMA WriteFailedLater ==
    ASSUME NEW s, HasState(s), NEW res
    PROVE  Later(s, WriteFailed(s, res))
<1> DEFINE t == [s EXCEPT !.sWrite = FALSE, !.writeCb = 0]
<1>1. SameState(s, t)
  BY DEF SameState, HasState
<1>2. WriteFailed(s, res) \in {Close(t), MaybeRunCloseCallback(t)}
  BY DEF WriteFailed
<1> HIDE DEF t
<1>3. Later(t, Close(t)) /\ Later(t, MaybeRunCloseCallback(t))
  BY <1>1, CloseIsLater, MaybeRunCloseCallbackKeeps, SameIsLater DEF SameState
<1> QED BY <1>1, <1>2, <1>3, SameIsLater, LaterTransitive

LEMMA WriteDrainedLater ==
    ASSUME NEW s, HasState(s)
    PROVE  Later(s, WriteDrained(s))
<1> DEFINE t == [s EXCEPT !.sWrite = FALSE]
           p == RunCallback(t, "write", t.writeCb, 0, t.writeEnd)
<1>1. SameState(s, t)
  BY DEF SameState, HasState
<1>2. WriteDrained(s) \in {[p EXCEPT !.writeCb = 0], t, MaybeAddErrorListener(t)}
  BY DEF WriteDrained
<1> HIDE DEF t
<1>3. SameState(t, p) /\ SameState(t, MaybeAddErrorListener(t))
  BY <1>1, RunCallbackKeeps, ListenerKeeps DEF SameState
<1> HIDE DEF p
<1>4. SameState(t, [p EXCEPT !.writeCb = 0])
  BY <1>3 DEF SameState, HasState
<1> QED BY <1>1, <1>2, <1>3, <1>4, SameIsLater, LaterTransitive

LEMMA DoWriteKeeps ==
    ASSUME NEW s, HasState(s)
    PROVE  SameState(s, ArmWrite(s)) /\ SameState(s, DoWrite(s))
<1>1. ASSUME NEW r, HasState(r)
      PROVE  SameState(r, ArmWrite(r))
  <2> DEFINE a == Arm(r, "write")
  <2>1. SameState(r, a)
    BY <1>1, ArmKeeps
  <2> HIDE DEF a
  <2>2. SameState(r, [a EXCEPT !.sWrite = TRUE])
    BY <2>1 DEF SameState, HasState
  <2> QED BY <2>2 DEF ArmWrite, a
<1> DEFINE w == [s EXCEPT !.wq = <<s.wq[Len(s.wq)]>>]
<1>2. SameState(s, w)
  BY DEF SameState, HasState
<1>3. DoWrite(s) = ArmWrite(w)
  BY DEF DoWrite
<1> HIDE DEF w
<1>4. SameState(w, ArmWrite(w))
  BY <1>1, <1>2 DEF SameState
<1> QED BY <1>1, <1>2, <1>3, <1>4 DEF SameState

LEMMA WriteToSocketLater ==
    ASSUME NEW s, HasState(s), NEW o, o.kind \in {"all", "error", "zero", "block"}
    PROVE  Later(s, WriteToSocket(s, o))
<1> DEFINE d == [s EXCEPT !.wq = <<>>, !.sent = s.written]
           b == [s EXCEPT !.wq = SubSeq(@, o.k + 1, Len(@)), !.sent = o.to]
<1>1. SameState(s, d) /\ SameState(s, b)
  BY DEF SameState, HasState
<1>2. WriteToSocket(s, o) \in {DoWrite(s), DoHandshake(s), WriteDrained(d),
                               WriteFailed(s, "error"), Close(s), ArmWrite(b)}
  BY DEF WriteToSocket
<1> HIDE DEF d, b
<1>3. SameState(s, DoWrite(s)) /\ SameState(s, DoHandshake(s)) /\ SameState(b, ArmWrite(b))
  BY <1>1, DoWriteKeeps, ReadFromSocketKeeps DEF SameState
<1>4. Later(d, WriteDrained(d)) /\ Later(s, WriteFailed(s, "error")) /\ Later(s, Close(s))
  BY <1>1, WriteDrainedLater, WriteFailedLater, CloseIsLater DEF SameState
<1> QED BY <1>1, <1>2, <1>3, <1>4, SameIsLater, LaterTransitive

LEMMA OutcomeKinds ==
    ASSUME NEW s, NEW o \in Outcomes(s)
    PROVE  o.kind \in {"all", "error", "zero", "block"}
BY DEF Outcomes

LEMMA OnWriteLater ==
    ASSUME NEW s, HasState(s), NEW res, NEW n, NEW o \in Outcomes(TakeFront(s, n))
    PROVE  Later(s, OnWrite(s, res, n, o))
<1> DEFINE u == [s EXCEPT !.sWrite = FALSE]
           t == TakeFront(u, n)
<1>1. SameState(s, u)
  BY DEF SameState, HasState
<1>2. OnWrite(s, res, n, o) \in {WriteFailed(s, res), WriteDrained(t), t, WriteToSocket(t, o)}
  BY DEF OnWrite
<1> HIDE DEF u
<1>3. SameState(s, t)
  BY <1>1 DEF SameState, HasState, TakeFront
<1> HIDE DEF t
<1>4. /\ Later(s, WriteFailed(s, res)) /\ Later(t, WriteDrained(t))
      /\ Later(t, WriteToSocket(t, o)) /\ Later(t, t)
  BY <1>3, WriteFailedLater, WriteDrainedLater, WriteToSocketLater, OutcomeKinds, LaterReflexive
     DEF SameState
<1> QED BY <1>2, <1>3, <1>4, SameIsLater, LaterTransitive

LEMMA FlushLater ==
    ASSUME NEW s, HasState(s), NEW o \in Outcomes(s)
    PROVE  Later(s, Flush(s, o))
<1> DEFINE p == RunCallback(s, IF s.writeCb = 0 THEN "noWrite" ELSE "write", s.writeCb, 0, s.writeEnd)
<1>1. SameState(s, p)
  BY RunCallbackKeeps
<1>2. Flush(s, o) \in {s, [p EXCEPT !.writeCb = 0], WriteToSocket(s, o)}
  BY DEF Flush
<1> HIDE DEF p
<1>3. SameState(s, [p EXCEPT !.writeCb = 0])
  BY <1>1 DEF SameState, HasState
<1> QED BY <1>2, <1>3, WriteToSocketLater, OutcomeKinds, SameIsLater, LaterReflexive

LEMMA EnqueueKeeps ==
    ASSUME NEW s, HasState(s), NEW len, NEW cb
    PROVE  SameState(s, Enqueue(s, len, cb))
BY DEF SameState, HasState, Enqueue

LEMMA ConnectFailedLater ==
    ASSUME NEW s, HasState(s), NEW res
    PROVE  Later(s, ConnectFailed(s, res))
<1> DEFINE t == [s EXCEPT !.sWrite = FALSE, !.connectCb = FALSE]
<1>1. SameState(s, t)
  BY DEF SameState, HasState
<1>2. ConnectFailed(s, res) \in {Close(t), MaybeRunCloseCallback(t)}
  BY DEF ConnectFailed
<1> HIDE DEF t
<1>3. Later(t, Close(t)) /\ Later(t, MaybeRunCloseCallback(t))
  BY <1>1, CloseIsLater, MaybeRunCloseCallbackKeeps, SameIsLater DEF SameState
<1> QED BY <1>1, <1>2, <1>3, SameIsLater, LaterTransitive

LEMMA RealConnectLater ==
    ASSUME NEW s, HasState(s), NEW resolved
    PROVE  Later(s, RealConnect(s, resolved))
<1> DEFINE a == Arm(s, "connect")
<1>1. SameState(s, a)
  BY ArmKeeps
<1>2. RealConnect(s, resolved) \in
        {ConnectFailed(s, "error"),
         [a EXCEPT !.sWrite = TRUE, !.sslConnectCb = Secure /\ s.connectCb,
                   !.connectCb = ~Secure /\ @]}
  BY DEF RealConnect
<1> HIDE DEF a
<1>3. SameState(s, [a EXCEPT !.sWrite = TRUE, !.sslConnectCb = Secure /\ s.connectCb,
                             !.connectCb = ~Secure /\ @])
  BY <1>1 DEF SameState, HasState
<1> QED BY <1>2, <1>3, ConnectFailedLater, SameIsLater

\* onConnect and onHandshake post the connect callback before anything else.
LEMMA PostConnectKeeps ==
    ASSUME NEW s, HasState(s)
    PROVE  LET p == RunCallback(s, "connect", 0, 0, 0)
           IN  /\ SameState(s, [p EXCEPT !.connectCb = FALSE])
               /\ SameState(s, [p EXCEPT !.sslConnectCb = FALSE])
<1> DEFINE p == RunCallback(s, "connect", 0, 0, 0)
<1>1. SameState(s, p)
  BY RunCallbackKeeps
<1> HIDE DEF p
<1>2. SameState(s, [p EXCEPT !.connectCb = FALSE]) /\ SameState(s, [p EXCEPT !.sslConnectCb = FALSE])
  BY <1>1 DEF SameState, HasState
<1> QED BY <1>2 DEF p

LEMMA OnConnectLater ==
    ASSUME NEW s, HasState(s), NEW res, NEW o, o.kind \in {"all", "error", "zero", "block"}
    PROVE  Later(s, OnConnect(s, res, o))
<1> DEFINE t == [s EXCEPT !.sWrite = FALSE]
           u == IF t.connectCb
                THEN [RunCallback(t, "connect", 0, 0, 0) EXCEPT !.connectCb = FALSE] ELSE t
           v == [u EXCEPT !.connecting = FALSE]
           p == RunCallback(v, "write", v.writeCb, 0, v.writeEnd)
<1>1. SameState(s, t)
  BY DEF SameState, HasState
<1>2. OnConnect(s, res, o) \in {ConnectFailed(s, res), u, WriteToSocket(v, o),
                                [p EXCEPT !.writeCb = 0], MaybeAddErrorListener(v)}
  BY DEF OnConnect
<1> HIDE DEF t
<1>3. SameState(s, u)
  BY <1>1, PostConnectKeeps DEF SameState
<1> HIDE DEF u
<1>4. SameState(s, v)
  BY <1>3 DEF SameState, HasState
<1> HIDE DEF v
<1>5. SameState(v, p) /\ SameState(v, MaybeAddErrorListener(v))
  BY <1>4, RunCallbackKeeps, ListenerKeeps DEF SameState
<1> HIDE DEF p
<1>6. SameState(v, [p EXCEPT !.writeCb = 0])
  BY <1>5 DEF SameState, HasState
<1>7. Later(s, ConnectFailed(s, res)) /\ Later(v, WriteToSocket(v, o))
  BY <1>4, ConnectFailedLater, WriteToSocketLater DEF SameState
<1> QED BY <1>2, <1>3, <1>4, <1>5, <1>6, <1>7, SameIsLater, LaterTransitive

LEMMA OnHandshakeLater ==
    ASSUME NEW s, HasState(s), NEW res
    PROVE  Later(s, OnHandshake(s, res))
<1> DEFINE t == [s EXCEPT !.sWrite = FALSE, !.sslAccepting = FALSE]
           u == [t EXCEPT !.sslAccepted = TRUE]
           v == IF u.sslConnectCb
                THEN [RunCallback(u, "connect", 0, 0, 0) EXCEPT !.sslConnectCb = FALSE] ELSE u
           w == IF v.wq # <<>> THEN DoWrite(v) ELSE v
           x == IF w.readCb # 0 THEN DoRead(w) ELSE w
<1>1. SameState(s, t)
  BY DEF SameState, HasState
<1>2. OnHandshake(s, res) \in {t, Close(t), MaybeAddErrorListener(x)}
  BY DEF OnHandshake
<1> HIDE DEF t
<1>3. SameState(s, u)
  BY <1>1 DEF SameState, HasState
<1> HIDE DEF u
<1>4. SameState(s, v)
  BY <1>3, PostConnectKeeps DEF SameState
<1> HIDE DEF v
<1>5. SameState(s, w)
  BY <1>4, DoWriteKeeps DEF SameState
<1> HIDE DEF w
<1>6. SameState(s, x)
  BY <1>5, ReadFromSocketKeeps DEF SameState
<1> HIDE DEF x
<1>7. SameState(x, MaybeAddErrorListener(x)) /\ Later(t, Close(t))
  BY <1>1, <1>6, ListenerKeeps, CloseIsLater DEF SameState
<1> QED BY <1>1, <1>2, <1>6, <1>7, SameIsLater, LaterTransitive

LEMMA OnShutdownLater ==
    ASSUME NEW s, HasState(s)
    PROVE  Later(s, OnShutdown(s))
<1> DEFINE t == [s EXCEPT !.sWrite = FALSE]
<1>1. SameState(s, t)
  BY DEF SameState, HasState
<1>2. OnShutdown(s) = DoClose(t)
  BY DEF OnShutdown
<1> HIDE DEF t
<1>3. Later(t, DoClose(t))
  BY <1>1, CloseIsLater DEF SameState
<1> QED BY <1>1, <1>2, <1>3, SameIsLater, LaterTransitive

-----------------------------------------------------------------------------
\* Steps of the loop and the reactor

\* The flags stay when the next handler is taken; of the answers, TailKeeps.
LEMMA TakenKeeps ==
    ASSUME HasState(stream), stream.queue # <<>>
    PROVE  \A r \in {Taken, Begun} :
             /\ HasState(r) /\ r.queue = Tail(stream.queue)
             /\ r.opened = stream.opened /\ r.closing = stream.closing
             /\ r.closed = stream.closed
<1>1. IsFifo(Tail(stream.queue))
  BY TailKeeps DEF HasState
<1> QED BY <1>1 DEF HasState, Taken, Begun

LEMMA HandleCompletionLater ==
    ASSUME HasState(stream), HandleCompletion
    PROVE  Later(Taken, stream')
<1> DEFINE s == Taken
           h == NextHandler
<1>1. HasState(s)
  BY TakenKeeps DEF HandleCompletion, Dispatches
<1>2. \/ stream' = OnRead(s, h.res, h.n)
      \/ \E o \in Outcomes(s) : stream' = OnConnect(s, h.res, o)
      \/ stream' = OnHandshake(s, h.res)
      \/ stream' = OnShutdown(s)
      \/ \E o \in Outcomes(TakeFront(s, h.n)) : stream' = OnWrite(s, h.res, h.n, o)
  BY DEF HandleCompletion
<1> HIDE DEF s, h
<1>3. Later(s, stream')
  BY <1>1, <1>2, OnReadLater, OnConnectLater, OnHandshakeLater, OnShutdownLater, OnWriteLater,
     OutcomeKinds
<1> QED BY <1>3 DEF s

LEMMA CompleteKeeps ==
    ASSUME HasState(stream), NEW op, Complete(op)
    PROVE  SameState(stream, stream')
<1>1. PICK res, n : stream' = [stream EXCEPT !.kernel = @ \ {op},
                        !.queue = Append(@, [op |-> op, res |-> res, n |-> n])]
  BY DEF Complete
<1> DEFINE h == [op |-> op, res |-> res, n |-> n]
<1>2. "answer" \notin DOMAIN h
  OBVIOUS
<1>3. stream' = [stream EXCEPT !.kernel = @ \ {op}, !.queue = Append(@, h)]
  BY <1>1
<1> HIDE DEF h
<1>4. IsFifo(Append(stream.queue, h)) /\ AnswersIn(Append(stream.queue, h)) = AnswersIn(stream.queue)
  BY <1>2, AppendKeeps DEF HasState
<1> QED BY <1>3, <1>4 DEF SameState, HasState

-----------------------------------------------------------------------------
\* The callback of a fetch

HasCb(c) == {"cb", "answers", "passed"} \subseteq DOMAIN c /\ c.cb \in BOOLEAN

\* Nothing has been done with the callback.
SameCall(c, d) ==
    HasCb(d) /\ d.cb = c.cb /\ d.answers = c.answers /\ d.passed = c.passed

\* The two have what the lemmas of this module need.
Has(s, c) == HasState(s) /\ HasCb(c)

NoAnswer(s) == AnswersIn(s.queue) = {}
OneAnswer(s) == \E i : AnswersIn(s.queue) = {i}

\* The stages of Fetch, for a stream and a connection.
Waits(s, c) == c.cb /\ NoAnswer(s) /\ c.answers = 0 /\ c.passed = 0
IsDue(s, c) == ~c.cb /\ OneAnswer(s) /\ c.answers = 0 /\ c.passed = 0
IsAnswered(s, c) == ~c.cb /\ NoAnswer(s) /\ c.answers = 1 /\ c.passed = 0
IsRedirected(s, c) == ~c.cb /\ NoAnswer(s) /\ c.answers = 0 /\ c.passed = 1

HasStage(s, c) == Waits(s, c) \/ IsDue(s, c) \/ IsAnswered(s, c) \/ IsRedirected(s, c)

\* What may become of a stage when no answer is taken from the queue.
Leads(s, c, r, d) ==
    /\ Waits(s, c) => Waits(r, d) \/ IsDue(r, d) \/ IsRedirected(r, d)
    /\ IsDue(s, c) => IsDue(r, d)
    /\ IsAnswered(s, c) => IsAnswered(r, d)
    /\ IsRedirected(s, c) => IsRedirected(r, d)

GoodTo(s, c, r, d) ==
    /\ Has(r, d)
    /\ r.opened = s.opened /\ (Closed(s) => Closed(r))
    /\ c.cb /\ ~d.cb => Closed(r)
    /\ Leads(s, c, r, d)

FetchInv == Has(stream, client) /\ AnswerCloses /\ HasStage(stream, client)

LEMMA GoodTransitive ==
    ASSUME NEW s, NEW c, NEW r, NEW d, NEW q, NEW e,
           GoodTo(s, c, r, d), GoodTo(r, d, q, e)
    PROVE  GoodTo(s, c, q, e)
BY DEF GoodTo, Has, HasCb, Leads

LEMMA LaterIsGood ==
    ASSUME NEW s, NEW c, NEW r, NEW d, Later(s, r), SameCall(c, d)
    PROVE  GoodTo(s, c, r, d)
<1>1. /\ Waits(s, c) => Waits(r, d)
      /\ IsDue(s, c) => IsDue(r, d)
      /\ IsAnswered(s, c) => IsAnswered(r, d)
      /\ IsRedirected(s, c) => IsRedirected(r, d)
  BY DEF Later, SameCall, Waits, IsDue, IsAnswered, IsRedirected, NoAnswer, OneAnswer
<1> QED BY <1>1 DEF GoodTo, Leads, Has, Later, SameCall

LEMMA SameIsGood ==
    ASSUME NEW s, NEW c, NEW r, NEW d, SameState(s, r), SameCall(c, d)
    PROVE  GoodTo(s, c, r, d)
BY SameIsLater, LaterIsGood

LEMMA StartsGood ==
    ASSUME NEW s, NEW c, NEW d, HasState(s), SameCall(c, d)
    PROVE  GoodTo(s, c, s, d)
BY LaterReflexive, LaterIsGood

\* A good step keeps the invariant.
LEMMA GoodKeeps ==
    ASSUME FetchInv, GoodTo(stream, client, stream', client')
    PROVE  FetchInv'
<1>1. Has(stream, client)' /\ AnswerCloses'
  BY DEF FetchInv, AnswerCloses, GoodTo, Has, HasCb
<1>2. HasStage(stream, client)'
  BY DEF FetchInv, GoodTo, Leads, HasStage
<1> QED BY <1>1, <1>2 DEF FetchInv

-----------------------------------------------------------------------------
\* Changes of the connection alone, and the posted answer

LEMMA ClientFields ==
    ASSUME NEW c, HasCb(c)
    PROVE  /\ SameCall(c, c)
           /\ \A t : SameCall(c, AddTimeout(c, t))
           /\ SameCall(c, RemoveTimeout(c))
           /\ \A n : SameCall(c, [c EXCEPT !.next = n])
           /\ \A n : SameCall(c, [c EXCEPT !.redirect = n])
BY DEF HasCb, SameCall, AddTimeout, RemoveTimeout

\* The callback is gone.
Over(c, d) == HasCb(d) /\ ~d.cb /\ d.answers = c.answers /\ d.passed = c.passed

LEMMA OverFields ==
    ASSUME NEW c, HasCb(c)
    PROVE  Over(c, [c EXCEPT !.cb = FALSE])
BY DEF HasCb, Over

LEMMA ConnectedKeeps ==
    ASSUME NEW c, HasCb(c)
    PROVE  SameCall(c, Connected(c))
<1> DEFINE d == RemoveTimeout(c)
<1>1. SameCall(c, d)
  BY ClientFields
<1>2. Connected(c) \in {AddTimeout(d, "request"), d}
  BY DEF Connected
<1> HIDE DEF d
<1>3. SameCall(d, AddTimeout(d, "request"))
  BY <1>1, ClientFields DEF SameCall
<1> QED BY <1>1, <1>2, <1>3 DEF SameCall

LEMMA FailClientOver ==
    ASSUME NEW c, HasCb(c)
    PROVE  Over(c, FailClient(c))
<1> DEFINE d == RemoveTimeout(c)
<1>1. SameCall(c, d)
  BY ClientFields
<1>2. /\ c.cb => FailClient(c) = [d EXCEPT !.cb = FALSE]
      /\ ~c.cb => FailClient(c) = c
  BY DEF FailClient
<1> HIDE DEF d
<1>3. Over(d, [d EXCEPT !.cb = FALSE])
  BY <1>1, OverFields DEF SameCall
<1> QED BY <1>1, <1>2, <1>3 DEF SameCall, Over, HasCb

\* runCallback posts the one answer of a fetch that has been waiting.
LEMMA PostLeads ==
    ASSUME NEW s, NEW c, NEW d, Has(s, c), Over(c, d)
    PROVE  /\ HasState(Post(s, c)) /\ Post(s, c).opened = s.opened
           /\ Closed(s) => Closed(Post(s, c))
           /\ Leads(s, c, Post(s, c), d)
<1>1. CASE c.cb
  <2> DEFINE h == [answer |-> TRUE]
             q == s.queue
  <2>1. PICK T : q \in Seq(T) /\ \A g \in T : "answer" \in DOMAIN g => DOMAIN g = {"answer"}
    BY DEF Has, HasState, IsFifo
  <2>2. Append(q, h) \in Seq(T \cup {h})
    <3>1. q \in Seq(T \cup {h})
      BY <2>1
    <3> QED BY <3>1
  <2>3. AnswersIn(Append(q, h)) = AnswersIn(q) \cup {Len(q) + 1}
    <3>1. "answer" \in DOMAIN h
      OBVIOUS
    <3> HIDE DEF h
    <3> QED BY <2>1, <3>1 DEF AnswersIn
  <2>4. Post(s, c) = [s EXCEPT !.queue = Append(q, h)]
    BY <1>1 DEF Post
  <2>5. DOMAIN h = {"answer"}
    OBVIOUS
  <2> HIDE DEF h
  <2>6. IsFifo(Append(q, h))
    BY <2>1, <2>2, <2>5 DEF IsFifo
  <2> HIDE DEF q
  <2>7. Post(s, c).queue = Append(q, h)
    BY <2>4 DEF Has, HasState
  <2>8. HasState(Post(s, c)) /\ Post(s, c).opened = s.opened /\ (Closed(s) => Closed(Post(s, c)))
    BY <2>4, <2>7, <2>6 DEF Has, HasState, Closed
  <2>9. NoAnswer(s) => OneAnswer(Post(s, c))
    BY <2>3, <2>7 DEF NoAnswer, OneAnswer, q
  <2> QED BY <1>1, <2>8, <2>9 DEF Leads, Waits, IsDue, IsAnswered, IsRedirected, Over
<1>2. CASE ~c.cb
  <2>1. Post(s, c) = s
    BY <1>2 DEF Post
  <2> QED BY <1>2, <2>1
          DEF Has, Leads, Waits, IsDue, IsAnswered, IsRedirected, Over, HasCb
<1> QED BY <1>1, <1>2

\* The answer is posted and the connection closed.
LEMMA EndsGood ==
    ASSUME NEW s, NEW c, NEW d, Has(s, c), Over(c, d)
    PROVE  GoodTo(s, c, Close(Post(s, c)), d)
<1> DEFINE p == Post(s, c)
           r == Close(p)
<1>1. /\ HasState(p) /\ p.opened = s.opened /\ (Closed(s) => Closed(p))
      /\ Leads(s, c, p, d)
  BY PostLeads
<1> HIDE DEF p
<1>2. Later(p, r) /\ Closed(r)
  BY <1>1, CloseCloses
<1>3. SameCall(d, d)
  BY DEF Over, SameCall
<1>4. GoodTo(p, d, r, d)
  BY <1>2, <1>3, LaterIsGood
<1> HIDE DEF r
<1>5. Leads(s, c, r, d)
  BY <1>1, <1>4 DEF GoodTo, Leads, Waits, Over
<1> QED BY <1>1, <1>2, <1>4, <1>5 DEF GoodTo, r, p

\* The callback is passed on and the connection closed.
LEMMA RedirectGood ==
    ASSUME NEW s, NEW c, Has(s, c)
    PROVE  GoodTo(s, c, Close(s), Redirected(c))
<1> DEFINE r == Close(s)
           d == Redirected(c)
<1>1. Later(s, r) /\ Closed(r)
  BY CloseCloses DEF Has
<1>2. /\ HasCb(d) /\ ~d.cb /\ d.answers = c.answers
      /\ d.passed = IF c.cb THEN c.passed + 1 ELSE c.passed
  BY DEF Has, HasCb, Redirected
<1> HIDE DEF r, d
<1>3. /\ Waits(s, c) => IsRedirected(r, d)
      /\ IsDue(s, c) => IsDue(r, d)
      /\ IsAnswered(s, c) => IsAnswered(r, d)
      /\ IsRedirected(s, c) => IsRedirected(r, d)
  BY <1>1, <1>2 DEF Later, Waits, IsDue, IsAnswered, IsRedirected, NoAnswer, OneAnswer
<1>4. GoodTo(s, c, r, d)
  BY <1>1, <1>2, <1>3 DEF GoodTo, Leads, Later, Has
<1> QED BY <1>4 DEF r, d

LEMMA FailGood ==
    ASSUME NEW s, NEW c, Has(s, c)
    PROVE  GoodTo(s, c, FailStream(s, c), FailClient(c))
<1>1. CASE c.cb
  BY <1>1, EndsGood, FailClientOver DEF Has, FailStream
<1>2. CASE ~c.cb
  BY <1>2, StartsGood, ClientFields DEF Has, FailStream, FailClient
<1> QED BY <1>1, <1>2 DEF Has, HasCb

-----------------------------------------------------------------------------
\* Ends of a handler

LEMMA DoneGood ==
    ASSUME NEW s, NEW c, Has(s, c), Done(s, c)
    PROVE  GoodTo(s, c, stream', client')
BY SameIsGood, ListenerKeeps, ClientFields DEF Done, Has

LEMMA FailsGood ==
    ASSUME NEW s, NEW c, Has(s, c), Fails(s, c)
    PROVE  GoodTo(s, c, stream', client')
<1> DEFINE r == FailStream(s, c)
           d == FailClient(c)
<1>1. GoodTo(s, c, r, d)
  BY FailGood
<1>2. Done(r, d)
  BY DEF Fails
<1> HIDE DEF r, d
<1> QED BY <1>1, <1>2, DoneGood, GoodTransitive DEF GoodTo

LEMMA AwaitsGood ==
    ASSUME NEW s, NEW c, Has(s, c), NEW next, Awaits(s, c, next)
    PROVE  GoodTo(s, c, stream', client')
<1> DEFINE r == TryInlineRead(s)
           d == [c EXCEPT !.next = next]
<1>1. SameState(s, r) /\ SameCall(c, c) /\ SameCall(c, d)
  BY TryInlineReadKeeps, ClientFields DEF Has
<1>2. Fails(r, c) \/ Done(r, d)
  BY DEF Awaits
<1> HIDE DEF r, d
<1>3. GoodTo(s, c, r, c) /\ GoodTo(s, c, r, d)
  BY <1>1, SameIsGood
<1> QED BY <1>2, <1>3, FailsGood, DoneGood, GoodTransitive DEF GoodTo

\* A read that is set up is awaited.
LEMMA ReadsGood ==
    ASSUME NEW s, NEW c, Has(s, c)
    PROVE  /\ AwaitHeaders(s, c) => GoodTo(s, c, stream', client')
           /\ AwaitLength(s, c) => GoodTo(s, c, stream', client')
           /\ \A n, next : Awaits(BeginReadBytes(s, n), c, next)
                             => GoodTo(s, c, stream', client')
<1>1. ASSUME NEW r, SameState(s, r), NEW next, Awaits(r, c, next)
      PROVE  GoodTo(s, c, stream', client')
  <2>1. GoodTo(s, c, r, c)
    BY <1>1, SameIsGood, ClientFields DEF Has
  <2>2. GoodTo(r, c, stream', client')
    BY <1>1, <2>1, AwaitsGood DEF GoodTo
  <2> QED BY <2>1, <2>2, GoodTransitive
<1>2. /\ \A m : SameState(s, BeginReadUntil(s, m))
      /\ \A n : SameState(s, BeginReadBytes(s, n))
  BY StartReadKeeps DEF Has
<1> QED BY <1>1, <1>2 DEF AwaitHeaders, AwaitLength

-----------------------------------------------------------------------------
\* The handlers of the response

LEMMA OnBodyGood ==
    ASSUME NEW s, NEW d, Has(s, d), OnBody(s, d)
    PROVE  GoodTo(s, d, stream', client')
<1> DEFINE c == RemoveTimeout(d)
           p == Close(Post(s, c))
           e == [c EXCEPT !.cb = FALSE]
           r == Close(s)
           f == Redirected(c)
<1>1. GoodTo(s, d, s, c)
  BY StartsGood, ClientFields DEF Has
<1>2. \/ Fails(s, c)
      \/ Done(r, f)
      \/ Done(p, e)
  BY DEF OnBody, EndRequest
<1> HIDE DEF c
<1>3. GoodTo(s, c, p, e) /\ GoodTo(s, c, r, f)
  BY <1>1, EndsGood, OverFields, RedirectGood DEF GoodTo, Has
<1> HIDE DEF p, e, r, f
<1>4. GoodTo(s, c, stream', client')
  BY <1>1, <1>2, <1>3, FailsGood, DoneGood, GoodTransitive DEF GoodTo
<1> QED BY <1>1, <1>4, GoodTransitive

LEMMA OnHeadersGood ==
    ASSUME NEW s, Has(s, client), OnHeaders(s)
    PROVE  GoodTo(s, client, stream', client')
<1>1. CASE Fails(s, client)
  BY <1>1, FailsGood
<1>2. CASE AwaitHeaders(s, client)
  BY <1>2, ReadsGood
<1>3. ASSUME NEW redirect \in BOOLEAN,
             LET c == [client EXCEPT !.redirect = redirect]
             IN  \/ OnBody(s, c)
                 \/ AwaitLength(s, c)
                 \/ \E n \in BodyLengths : Awaits(BeginReadBytes(s, n), c, "body")
                 \/ Done(CallReadUntilClose(s), [c EXCEPT !.next = "body"])
      PROVE  GoodTo(s, client, stream', client')
  <2> DEFINE c == [client EXCEPT !.redirect = redirect]
             d == [c EXCEPT !.next = "body"]
  <2>1. SameCall(client, c) /\ HasState(s)
    BY ClientFields DEF Has
  <2>2. \/ OnBody(s, c)
        \/ AwaitLength(s, c)
        \/ \E n \in BodyLengths : Awaits(BeginReadBytes(s, n), c, "body")
        \/ Done(CallReadUntilClose(s), d)
    BY <1>3
  <2> HIDE DEF c
  <2>3. GoodTo(s, client, s, c) /\ Has(s, c)
    BY <2>1, StartsGood DEF GoodTo
  <2>4. ASSUME Done(CallReadUntilClose(s), d)
        PROVE  GoodTo(s, c, stream', client')
    <3> DEFINE r == CallReadUntilClose(s)
    <3>1. SameState(s, r) /\ SameCall(c, d)
      BY <2>3, CallReadUntilCloseKeeps, ClientFields DEF Has
    <3>2. Done(r, d)
      BY <2>4
    <3> HIDE DEF r, d
    <3>3. GoodTo(s, c, r, d)
      BY <3>1, SameIsGood
    <3>4. GoodTo(r, d, stream', client')
      BY <3>2, <3>3, DoneGood DEF GoodTo
    <3> QED BY <3>3, <3>4, GoodTransitive
  <2>5. ASSUME NEW n, Awaits(BeginReadBytes(s, n), c, "body")
        PROVE  GoodTo(s, c, stream', client')
    BY <2>3, <2>5, ReadsGood
  <2>6. AwaitLength(s, c) => GoodTo(s, c, stream', client')
    BY <2>3, ReadsGood
  <2>7. OnBody(s, c) => GoodTo(s, c, stream', client')
    BY <2>3, OnBodyGood
  <2>8. GoodTo(s, c, stream', client')
    BY <2>2, <2>4, <2>5, <2>6, <2>7
  <2> QED BY <2>3, <2>8, GoodTransitive
<1> QED BY <1>1, <1>2, <1>3 DEF OnHeaders

-----------------------------------------------------------------------------
\* The actions

\* A handler that is not an answer has been taken from the queue.
LEMMA TakenGood ==
    ASSUME Has(stream, client), Dispatches, "answer" \notin DOMAIN NextHandler,
           NEW d, SameCall(client, d)
    PROVE  GoodTo(stream, client, Taken, d) /\ GoodTo(stream, client, Begun, d)
<1> SUFFICES ASSUME NEW r \in {Taken, Begun}
             PROVE  GoodTo(stream, client, r, d)
  OBVIOUS
<1>1. /\ HasState(r) /\ r.queue = Tail(stream.queue)
      /\ r.opened = stream.opened /\ (Closed(stream) <=> Closed(r))
  BY TakenKeeps DEF Has, Dispatches, Closed
<1>2. /\ NoAnswer(stream) => NoAnswer(r)
      /\ OneAnswer(stream) => OneAnswer(r)
  <2> DEFINE q == stream.queue
  <2>1. IsFifo(q) /\ q # <<>> /\ "answer" \notin DOMAIN Head(q)
    BY DEF Has, HasState, Dispatches, NextHandler
  <2> HIDE DEF q
  <2>2. AnswersIn(q) = {} => AnswersIn(Tail(q)) = {}
    BY <2>1, TailKeeps
  <2>3. ASSUME NEW i, AnswersIn(q) = {i}
        PROVE  AnswersIn(Tail(q)) = {i - 1}
    BY <2>1, <2>3, TailKeeps
  <2>4. (\E i : AnswersIn(q) = {i}) => \E i : AnswersIn(Tail(q)) = {i}
    BY <2>3
  <2> QED BY <1>1, <2>2, <2>4 DEF NoAnswer, OneAnswer, q
<1>3. Leads(stream, client, r, d)
  BY <1>2 DEF Leads, Waits, IsDue, IsAnswered, IsRedirected, SameCall
<1> QED BY <1>1, <1>3 DEF GoodTo, Has, SameCall

\* A handler of the stream begins.
LEMMA CallsGood ==
    ASSUME Has(stream, client), NEW run, Calls(run), NEW d, SameCall(client, d)
    PROVE  GoodTo(stream, client, Begun, d)
<1>1. "answer" \notin DOMAIN NextHandler
  BY TailKeeps DEF Calls, IsRun, Dispatches, NextHandler, Has, HasState
<1> QED BY <1>1, TakenGood DEF Calls

LEMMA RunReadGood ==
    ASSUME Has(stream, client), RunRead
    PROVE  GoodTo(stream, client, stream', client')
<1> DEFINE s == Begun
<1>1. GoodTo(stream, client, s, client) /\ Has(s, client)
  BY CallsGood, ClientFields DEF Has, GoodTo, RunRead
<1>2. OnHeaders(s) \/ OnBody(s, client) \/ OnChunkLength(s) \/ OnChunkData(s)
  BY DEF RunRead
<1> HIDE DEF s
<1>3. OnChunkLength(s) => GoodTo(s, client, stream', client')
  BY <1>1, FailsGood, OnBodyGood, ReadsGood DEF OnChunkLength
<1>4. OnChunkData(s) => GoodTo(s, client, stream', client')
  BY <1>1, FailsGood, ReadsGood DEF OnChunkData
<1>5. GoodTo(s, client, stream', client')
  BY <1>1, <1>2, <1>3, <1>4, OnHeadersGood, OnBodyGood
<1> QED BY <1>1, <1>5, GoodTransitive

LEMMA RunConnectGood ==
    ASSUME Has(stream, client), RunConnect
    PROVE  GoodTo(stream, client, stream', client')
<1> DEFINE b == Begun
           c == Connected(client)
           s == Enqueue(b, 1, 0)
<1>1. SameCall(client, c)
  BY ConnectedKeeps DEF Has
<1>2. \/ Done(b, c)
      \/ Fails(b, c)
      \/ \E o \in Outcomes(s) : AwaitHeaders(Flush(s, o), c)
  BY DEF RunConnect
<1>3. GoodTo(stream, client, b, c) /\ Has(b, c)
  <2> HIDE DEF c
  <2> QED BY <1>1, CallsGood DEF RunConnect, GoodTo
<1> HIDE DEF b, c
<1>4. SameState(b, s)
  BY <1>3, EnqueueKeeps DEF Has
<1>5. GoodTo(b, c, s, c) /\ Has(s, c)
  BY <1>3, <1>4, SameIsGood, ClientFields DEF GoodTo, Has
<1> HIDE DEF s
<1>6. ASSUME NEW o \in Outcomes(s), AwaitHeaders(Flush(s, o), c)
      PROVE  GoodTo(b, c, stream', client')
  <2> DEFINE f == Flush(s, o)
  <2>1. Later(s, f)
    BY <1>5, <1>6, FlushLater DEF Has
  <2>2. AwaitHeaders(f, c)
    BY <1>6
  <2> HIDE DEF f
  <2>3. GoodTo(s, c, f, c) /\ Has(f, c)
    BY <1>3, <2>1, LaterIsGood, ClientFields DEF GoodTo, Has
  <2>4. GoodTo(f, c, stream', client')
    BY <2>2, <2>3, ReadsGood
  <2>5. GoodTo(s, c, stream', client')
    BY <2>3, <2>4, GoodTransitive
  <2> QED BY <1>5, <2>5, GoodTransitive
<1>7. GoodTo(b, c, stream', client')
  BY <1>2, <1>3, <1>6, DoneGood, FailsGood
<1> QED BY <1>3, <1>7, GoodTransitive

LEMMA RunCloseGood ==
    ASSUME Has(stream, client), RunClose
    PROVE  GoodTo(stream, client, stream', client')
<1> DEFINE s == Begun
<1>1. GoodTo(stream, client, s, client) /\ Has(s, client)
  BY CallsGood, ClientFields DEF Has, GoodTo, RunClose
<1>2. Fails(s, client)
  BY DEF RunClose
<1> HIDE DEF s
<1> QED BY <1>1, <1>2, FailsGood, GoodTransitive

LEMMA RunEmptyGood ==
    ASSUME Has(stream, client), RunEmpty
    PROVE  GoodTo(stream, client, stream', client')
<1> DEFINE s == Begun
<1>1. GoodTo(stream, client, s, client) /\ Has(s, client)
  BY CallsGood, ClientFields DEF Has, GoodTo, RunEmpty
<1>2. stream' = Close(s) /\ client' = client
  BY DEF RunEmpty
<1> HIDE DEF s
<1>3. GoodTo(s, client, stream', client')
  BY <1>1, <1>2, CloseCloses, LaterIsGood, ClientFields DEF Has
<1> QED BY <1>1, <1>3, GoodTransitive

LEMMA RunTimeoutGood ==
    ASSUME Has(stream, client), RunTimeout
    PROVE  GoodTo(stream, client, stream', client')
<1> DEFINE s == Taken
           t == NextHandler.timer
           c == [client EXCEPT !.timer[t] = "off", !.timeout = NoTimer,
                               !.late = @ \/ client.timeout # t]
<1>1. SameCall(client, c)
  BY DEF Has, HasCb, SameCall
<1>2. stream' = FailStream(s, c) /\ client' = FailClient(c)
  BY DEF RunTimeout
<1>3. GoodTo(stream, client, s, c)
  <2>1. "answer" \notin DOMAIN NextHandler
    BY TailKeeps DEF RunTimeout, Dispatches, NextHandler, Has, HasState
  <2> HIDE DEF c
  <2> QED BY <1>1, <2>1, TakenGood DEF RunTimeout
<1> HIDE DEF s, c
<1> QED BY <1>2, <1>3, FailGood, GoodTransitive DEF GoodTo

LEMMA QuietGood ==
    ASSUME Has(stream, client)
    PROVE  /\ ClientCompletion => GoodTo(stream, client, stream', client')
           /\ \A op : ClientComplete(op) => GoodTo(stream, client, stream', client')
           /\ \A t : Expire(t) => GoodTo(stream, client, stream', client')
<1>1. ASSUME ClientCompletion
      PROVE  GoodTo(stream, client, stream', client')
  <2>1. "answer" \notin DOMAIN NextHandler
    BY <1>1, TailKeeps DEF ClientCompletion, Dispatches, NextHandler, Has, HasState
  <2>2. GoodTo(stream, client, Taken, client)
    BY <1>1, <2>1, TakenGood, ClientFields DEF ClientCompletion, Has
  <2>3. HasState(stream) /\ Later(Taken, stream') /\ client' = client
    BY <1>1, HandleCompletionLater DEF ClientCompletion, Has
  <2>4. GoodTo(Taken, client, stream', client')
    BY <2>3, LaterIsGood, ClientFields DEF Has
  <2> QED BY <2>2, <2>4, GoodTransitive
<1>2. ASSUME NEW op, ClientComplete(op)
      PROVE  GoodTo(stream, client, stream', client')
  BY <1>2, CompleteKeeps, SameIsGood, ClientFields DEF ClientComplete, Has
<1>3. ASSUME NEW t, Expire(t)
      PROVE  GoodTo(stream, client, stream', client')
  <2> DEFINE h == [timer |-> t]
             r == [stream EXCEPT !.queue = Append(@, h)]
  <2>1. "answer" \notin DOMAIN h
    OBVIOUS
  <2>2. stream' = r
    BY <1>3 DEF Expire
  <2> HIDE DEF h
  <2>3. SameState(stream, r)
    BY <2>1, AppendKeeps DEF Has, HasState, SameState
  <2>4. SameCall(client, client')
    BY <1>3 DEF Expire, Has, HasCb, SameCall
  <2> HIDE DEF r
  <2> QED BY <2>2, <2>3, <2>4, SameIsGood
<1> QED BY <1>1, <1>2, <1>3

\* fetch either never opens the stream or starts to connect it.
LEMMA FetchStartGood ==
    ASSUME Has(stream, client), FetchStart
    PROVE  /\ Has(stream, client)' /\ Leads(stream, client, stream', client')
           /\ stream'.opened => client'.cb
<1>0. ~stream.opened /\ client.cb
  BY DEF FetchStart
<1>1. SameCall(client, WithConnectTimeout)
  BY ClientFields DEF WithConnectTimeout, Has
<1>2. CASE \E c \in {client, WithConnectTimeout} :
              client' = FailClient(c) /\ stream' = Post(stream, client)
  <2>1. PICK c \in {client, WithConnectTimeout} :
              client' = FailClient(c) /\ stream' = Post(stream, client)
    BY <1>2
  <2>2. SameCall(client, c)
    BY <1>1, ClientFields DEF Has
  <2>3. Over(client, FailClient(c))
    BY <2>2, FailClientOver DEF SameCall, Over
  <2> QED BY <1>0, <2>1, <2>3, PostLeads DEF Has, Over
<1>3. ASSUME NEW resolved \in BOOLEAN,
             client' = WithConnectTimeout,
             stream' = RealConnect([stream EXCEPT !.opened = TRUE, !.connecting = TRUE,
                                        !.connectCb = TRUE, !.closeCb = TRUE], resolved)
      PROVE  /\ Has(stream, client)' /\ Leads(stream, client, stream', client')
             /\ client'.cb
  <2> DEFINE s == [stream EXCEPT !.opened = TRUE, !.connecting = TRUE,
                                 !.connectCb = TRUE, !.closeCb = TRUE]
  <2>1. HasState(s) /\ s.queue = stream.queue
    BY DEF Has, HasState
  <2>2. stream' = RealConnect(s, resolved)
    BY <1>3
  <2> HIDE DEF s
  <2>3. GoodTo(s, client, stream', client')
    BY <1>1, <1>3, <2>1, <2>2, RealConnectLater, LaterIsGood
  <2>4. Leads(stream, client, stream', client')
    BY <2>1, <2>3 DEF GoodTo, Leads, Waits, IsDue, IsAnswered, IsRedirected, NoAnswer, OneAnswer
  <2> QED BY <1>0, <1>1, <1>3, <2>3, <2>4 DEF GoodTo, Has, SameCall
<1> QED BY <1>2, <1>3 DEF FetchStart

\* The application is called when its answer was due.
LEMMA RunAnswerAnswers ==
    ASSUME Has(stream, client), HasStage(stream, client), RunAnswer
    PROVE  /\ Has(stream, client)' /\ IsDue(stream, client) /\ IsAnswered(stream, client)'
           /\ client'.cb = client.cb /\ stream'.opened = stream.opened
           /\ Closed(stream) => Closed(stream')
<1>1. /\ HasState(stream') /\ stream'.queue = Tail(stream.queue)
      /\ stream'.opened = stream.opened /\ (Closed(stream) => Closed(stream'))
  BY TakenKeeps DEF Has, RunAnswer, Dispatches, Closed
<1>2. /\ HasCb(client') /\ client'.cb = client.cb
      /\ client'.answers = client.answers + 1 /\ client'.passed = client.passed
  BY DEF RunAnswer, Has, HasCb
<1>3. ~NoAnswer(stream) /\ (OneAnswer(stream) => NoAnswer(stream'))
  BY <1>1, TailKeeps
     DEF RunAnswer, Has, HasState, Dispatches, NextHandler, NoAnswer, OneAnswer
<1>4. IsDue(stream, client)
  BY <1>3 DEF HasStage, Waits, IsAnswered, IsRedirected
<1>5. IsAnswered(stream', client')
  BY <1>2, <1>3, <1>4 DEF IsDue, IsAnswered
<1> QED BY <1>1, <1>2, <1>4, <1>5 DEF Has

-----------------------------------------------------------------------------
\* The invariant

LEMMA InitFetch == ClientInit => FetchInv
<1> SUFFICES ASSUME ClientInit PROVE FetchInv
  OBVIOUS
<1>1. stream.queue = <<>> /\ {"opened", "closing", "closed", "queue"} \subseteq DOMAIN stream
  BY DEF ClientInit, Init, Fresh
<1>2. IsFifo(<<>>) /\ AnswersIn(<<>>) = {}
  <2>1. <<>> \in Seq({}) /\ DOMAIN <<>> = {}
    OBVIOUS
  <2>2. \A h \in {} : "answer" \in DOMAIN h => DOMAIN h = {"answer"}
    OBVIOUS
  <2>3. IsFifo(<<>>)
    BY <2>1, <2>2 DEF IsFifo
  <2> QED BY <2>1, <2>3 DEF AnswersIn
<1>3. HasCb(client) /\ client.cb /\ client.answers = 0 /\ client.passed = 0
  BY DEF ClientInit, HasCb
<1> QED BY <1>1, <1>2, <1>3 DEF FetchInv, Has, HasState, AnswerCloses, HasStage, Waits, NoAnswer

\* Every step but that of the callback leads from a stage to the same or a later one.
LEMMA NextFetch ==
    ASSUME FetchInv, [ClientNext]_clientVars
    PROVE  /\ FetchInv'
           /\ \/ Leads(stream, client, stream', client')
              \/ IsDue(stream, client) /\ IsAnswered(stream, client)'
<1>0. Has(stream, client) /\ HasStage(stream, client) /\ AnswerCloses
  BY DEF FetchInv
<1>1. CASE FetchStart
  <2>1. /\ Has(stream, client)' /\ Leads(stream, client, stream', client')
        /\ stream'.opened => client'.cb
    BY <1>0, <1>1, FetchStartGood
  <2>2. HasStage(stream, client)'
    BY <1>0, <2>1 DEF HasStage, Leads
  <2> QED BY <2>1, <2>2 DEF FetchInv, AnswerCloses
<1>2. CASE RunAnswer
  BY <1>0, <1>2, RunAnswerAnswers DEF FetchInv, AnswerCloses, HasStage
<1>3. CASE UNCHANGED clientVars
  <2>1. stream' = stream /\ client' = client
    BY <1>3 DEF clientVars, vars
  <2>2. GoodTo(stream, client, stream', client')
    BY <1>0, <2>1, StartsGood, ClientFields DEF Has
  <2> QED BY <2>2, GoodKeeps DEF GoodTo
<1>4. CASE \/ \E op \in Operations : ClientComplete(op)
           \/ \E t \in Timers : Expire(t)
           \/ ClientCompletion \/ RunConnect \/ RunRead \/ RunClose \/ RunEmpty \/ RunTimeout
  <2>1. GoodTo(stream, client, stream', client')
    BY <1>0, <1>4, QuietGood, RunConnectGood, RunReadGood, RunCloseGood, RunEmptyGood,
       RunTimeoutGood
  <2> QED BY <2>1, GoodKeeps DEF GoodTo
<1> QED BY <1>1, <1>2, <1>3, <1>4 DEF ClientNext, ClientStep

-----------------------------------------------------------------------------
\* The refinement

\* A handler in the queue is an answer or not: Due is where the answers are.
LEMMA DueIsAnswers == Due = AnswersIn(stream.queue)
BY DEF Due, AnswersIn

LEMMA CountDue ==
    /\ NoAnswer(stream) => Due = {} /\ Cardinality(Due) = 0
    /\ OneAnswer(stream) => Due # {} /\ Cardinality(Due) = 1
BY DueIsAnswers, FS_EmptySet, FS_Singleton DEF NoAnswer, OneAnswer

\* Each stage of the proof is the stage the mapping shows.
LEMMA StageShown ==
    ASSUME Has(stream, client)
    PROVE  /\ Waits(stream, client) => Stage = "waiting"
           /\ IsDue(stream, client) => Stage = "due"
           /\ IsAnswered(stream, client) => Stage = "answered"
           /\ IsRedirected(stream, client) => Stage = "redirected"
BY CountDue DEF Stage, Waits, IsDue, IsAnswered, IsRedirected, Has, HasCb

LEMMA InitRefines == ClientInit => F!Init
<1>1. ClientInit => Has(stream, client) /\ Waits(stream, client)
  BY InitFetch DEF FetchInv, ClientInit, HasStage, IsDue, IsAnswered, IsRedirected
<1> QED BY <1>1, StageShown DEF F!Init

\* The same of the invariant, in one formula that may be primed.
StagesShown ==
    /\ Waits(stream, client) => Stage = "waiting"
    /\ IsDue(stream, client) => Stage = "due"
    /\ IsAnswered(stream, client) => Stage = "answered"
    /\ IsRedirected(stream, client) => Stage = "redirected"

LEMMA StageShownNext == FetchInv' => StagesShown'
<1>1. FetchInv => StagesShown
  BY StageShown DEF FetchInv, StagesShown
<1> QED BY <1>1, PTL

LEMMA NextRefines ==
    ASSUME FetchInv, [ClientNext]_clientVars
    PROVE  [F!Next]_Stage
<1>1. /\ FetchInv'
      /\ \/ Leads(stream, client, stream', client')
         \/ IsDue(stream, client) /\ IsAnswered(stream', client')
  BY NextFetch
<1>2. /\ Waits(stream, client) => Stage = "waiting"
      /\ IsDue(stream, client) => Stage = "due"
      /\ IsAnswered(stream, client) => Stage = "answered"
      /\ IsRedirected(stream, client) => Stage = "redirected"
  BY StageShown DEF FetchInv
<1>3. /\ Waits(stream', client') => Stage' = "waiting"
      /\ IsDue(stream', client') => Stage' = "due"
      /\ IsAnswered(stream', client') => Stage' = "answered"
      /\ IsRedirected(stream', client') => Stage' = "redirected"
  BY <1>1, StageShownNext DEF StagesShown
<1>4. HasStage(stream, client)
  BY DEF FetchInv
<1> HIDE DEF Stage
<1> QED BY <1>1, <1>2, <1>3, <1>4
        DEF HasStage, Leads, F!Next, F!AnswerDue, F!CallBack, F!Redirect

-----------------------------------------------------------------------------

LEMMA NextInvariant == FetchInv /\ [ClientNext]_clientVars => FetchInv'
BY NextFetch

\* Whatever timeouts, closes, exceptions, redirects and late completions a fetch
\* meets, and however long its responses are, the step of httpclient.cpp that posts
\* its answer or passes its callback on also closes its connection, and the
\* connection stays closed: no fetch that has ended holds a socket.
THEOREM AnswerAlwaysCloses == ClientSpec => []AnswerCloses
<1>1. FetchInv => AnswerCloses
  BY DEF FetchInv
<1> QED BY InitFetch, NextInvariant, <1>1, PTL DEF ClientSpec

\* The fetch of httpclient.cpp implements Fetch: its callback is called at most
\* once, or passed on once to the fetch of a redirect, and never both.
THEOREM FetchRefines == ClientSpec => CalledOnce
<1>1. FetchInv /\ [ClientNext]_clientVars => [F!Next]_Stage
  BY NextRefines
<1> QED BY InitFetch, InitRefines, NextInvariant, <1>1, PTL DEF ClientSpec, CalledOnce, F!Spec
-----------------------------------------------------------------------------
\* The timeouts

\* The one timeout that is armed is that of _timeout, and a fetch that is over
\* has none; but for a late connect timeout, which forgets the request's.
Watched(c) ==
    /\ {"cb", "late", "timeout", "timer"} \subseteq DOMAIN c
    /\ c.timer \in [Timers -> {"off", "armed", "queued"}]
    /\ ~c.late => \A t \in Timers : c.timer[t] = "armed" => c.cb /\ c.timeout = t

\* No timeout is armed.
Unwatched(c) == Watched(c) /\ (~c.late => \A t \in Timers : c.timer[t] # "armed")

LEMMA RemoveWatched ==
    ASSUME NEW c, Watched(c)
    PROVE  LET r == RemoveTimeout(c) IN Unwatched(r) /\ r.cb = c.cb /\ r.late = c.late
<1> DEFINE f == [t \in Timers |-> IF t = c.timeout /\ c.timer[t] = "armed" THEN "off" ELSE c.timer[t]]
           r == [c EXCEPT !.timer = f, !.timeout = NoTimer]
<1>1. f \in [Timers -> {"off", "armed", "queued"}]
  BY DEF Watched
<1>2. ~c.late => \A t \in Timers : f[t] # "armed"
  BY DEF Watched
<1>3. RemoveTimeout(c) = r
  BY DEF RemoveTimeout
<1> HIDE DEF f
<1>4. r.timer = f /\ r.late = c.late /\ r.cb = c.cb /\ DOMAIN r = DOMAIN c
  BY DEF Watched
<1> HIDE DEF r
<1> QED BY <1>1, <1>2, <1>3, <1>4 DEF Unwatched, Watched

LEMMA AddWatched ==
    ASSUME NEW c, Unwatched(c), c.cb, NEW t \in Timers
    PROVE  Watched(AddTimeout(c, t))
<1> DEFINE f == [c.timer EXCEPT ![t] = "armed"]
           r == [c EXCEPT !.timer = f, !.timeout = t]
<1>1. f \in [Timers -> {"off", "armed", "queued"}]
      /\ (~c.late => \A u \in Timers : f[u] = "armed" => u = t)
  BY DEF Unwatched, Watched
<1>2. AddTimeout(c, t) = r
  BY DEF AddTimeout
<1> HIDE DEF f
<1>3. r.timer = f /\ r.timeout = t /\ r.late = c.late /\ r.cb = c.cb /\ DOMAIN r = DOMAIN c
  BY DEF Unwatched, Watched
<1> HIDE DEF r
<1>4. Watched(r)
  BY <1>1, <1>3 DEF Unwatched, Watched
<1> QED BY <1>2, <1>4

\* The callback of a fetch without an armed timeout goes.
LEMMA OverWatched ==
    ASSUME NEW c, Unwatched(c)
    PROVE  Watched([c EXCEPT !.cb = FALSE]) /\ Watched(Redirected(c))
BY DEF Unwatched, Watched, Redirected

LEMMA FailWatched ==
    ASSUME NEW c, Watched(c)
    PROVE  Watched(FailClient(c)) /\ (~c.cb => FailClient(c) = c)
BY RemoveWatched, OverWatched DEF FailClient

LEMMA FieldsWatched ==
    ASSUME NEW c, Watched(c)
    PROVE  \A x : Watched([c EXCEPT !.next = x]) /\ Watched([c EXCEPT !.redirect = x])
BY DEF Watched

LEMMA ConnectedWatched ==
    ASSUME NEW c, Watched(c)
    PROVE  Watched(Connected(c))
<1> DEFINE d == RemoveTimeout(c)
<1>1. Unwatched(d)
  BY RemoveWatched
<1>2. Connected(c) = IF d.cb /\ RequestTimeout THEN AddTimeout(d, "request") ELSE d
  BY DEF Connected
<1> HIDE DEF d
<1> QED BY <1>1, <1>2, AddWatched DEF Unwatched, Timers

LEMMA FailsWatched ==
    ASSUME NEW c, Watched(c), NEW s
    PROVE  /\ Fails(s, c) => Watched(client')
           /\ \A next : Awaits(s, c, next) => Watched(client')
BY FailWatched, FieldsWatched, ZenonT(30) DEF Fails, Done, Awaits

LEMMA OnBodyWatched ==
    ASSUME NEW d, Watched(d), NEW s, OnBody(s, d)
    PROVE  Watched(client')
<1> DEFINE c == RemoveTimeout(d)
<1>1. Unwatched(c)
  BY RemoveWatched
<1>2. Fails(s, c) \/ client' = Redirected(c) \/ client' = [c EXCEPT !.cb = FALSE]
  BY DEF OnBody, Done
<1> HIDE DEF c
<1> QED BY <1>1, <1>2, OverWatched, FailsWatched DEF Unwatched

LEMMA RunReadWatched ==
    ASSUME Watched(client), RunRead
    PROVE  Watched(client')
<1> DEFINE s == Begun
<1>1. OnHeaders(s) \/ OnBody(s, client) \/ OnChunkLength(s) \/ OnChunkData(s)
  BY DEF RunRead
<1> HIDE DEF s
<1>2. OnHeaders(s) => Watched(client')
  <2>1. ASSUME NEW redirect \in BOOLEAN, NEW c, c = [client EXCEPT !.redirect = redirect],
               \/ OnBody(s, c)
               \/ AwaitLength(s, c)
               \/ \E n \in BodyLengths : Awaits(BeginReadBytes(s, n), c, "body")
               \/ Done(CallReadUntilClose(s), [c EXCEPT !.next = "body"])
        PROVE  Watched(client')
    <3>1. Watched(c)
      BY <2>1, FieldsWatched
    <3>2. Watched([c EXCEPT !.next = "body"])
      BY <3>1, FieldsWatched
    <3>3. CASE OnBody(s, c)
      BY <3>1, <3>3, OnBodyWatched
    <3>4. CASE AwaitLength(s, c)
      BY <3>1, <3>4, FailsWatched DEF AwaitLength
    <3>5. CASE \E n \in BodyLengths : Awaits(BeginReadBytes(s, n), c, "body")
      BY <3>1, <3>5, FailsWatched
    <3>6. CASE Done(CallReadUntilClose(s), [c EXCEPT !.next = "body"])
      BY <3>2, <3>6 DEF Done
    <3> QED BY <2>1, <3>3, <3>4, <3>5, <3>6
  <2> QED BY <2>1, FailsWatched DEF OnHeaders, AwaitHeaders
<1>3. OnChunkLength(s) => Watched(client')
  BY FailsWatched, OnBodyWatched DEF OnChunkLength
<1>4. OnChunkData(s) => Watched(client')
  BY FailsWatched DEF OnChunkData, AwaitLength
<1> QED BY <1>1, <1>2, <1>3, <1>4, OnBodyWatched

LEMMA RunConnectWatched ==
    ASSUME Watched(client), RunConnect
    PROVE  Watched(client')
<1> DEFINE c == Connected(client)
           b == Begun
           s == Enqueue(b, 1, 0)
<1>1. Watched(c)
  BY ConnectedWatched
<1>2. \/ Done(b, c)
      \/ Fails(b, c)
      \/ \E o \in Outcomes(s) : AwaitHeaders(Flush(s, o), c)
  BY DEF RunConnect
<1> HIDE DEF b, c, s
<1> QED BY <1>1, <1>2, FailsWatched DEF AwaitHeaders, Done

LEMMA RunTimeoutWatched ==
    ASSUME Watched(client), RunTimeout
    PROVE  Watched(client')
<1> DEFINE t == NextHandler.timer
           f == [client.timer EXCEPT ![t] = "off"]
           late == client.late \/ client.timeout # t
           c == [client EXCEPT !.timer = f, !.timeout = NoTimer, !.late = late]
<1>1. client' = FailClient(c)
  BY DEF RunTimeout
<1>2. /\ f \in [Timers -> {"off", "armed", "queued"}]
      /\ ~late => \A u \in Timers : f[u] # "armed"
  BY DEF Watched
<1> HIDE DEF f, late
<1>3. c.timer = f /\ c.late = late /\ DOMAIN c = DOMAIN client
  BY DEF Watched
<1> HIDE DEF c
<1>4. Watched(c)
  BY <1>2, <1>3 DEF Watched
<1> QED BY <1>1, <1>4, FailWatched

LEMMA ExpireWatched ==
    ASSUME Watched(client), NEW t \in Timers, Expire(t)
    PROVE  Watched(client')
<1> DEFINE f == [client.timer EXCEPT ![t] = "queued"]
           c == [client EXCEPT !.timer = f]
<1>1. client' = c
  BY DEF Expire
<1>2. /\ f \in [Timers -> {"off", "armed", "queued"}]
      /\ \A u \in Timers : f[u] = "armed" => client.timer[u] = "armed"
  BY DEF Watched
<1> HIDE DEF f
<1>3. /\ c.timer = f /\ c.late = client.late /\ c.cb = client.cb
      /\ c.timeout = client.timeout /\ DOMAIN c = DOMAIN client
  BY DEF Watched
<1> HIDE DEF c
<1> QED BY <1>1, <1>2, <1>3 DEF Watched

\* A fetch that has not been started holds nothing.
Unstarted ==
    ~stream.opened /\ client.cb =>
        stream.queue = <<>> /\ stream.kernel = {} /\ Unwatched(client) /\ ~client.late

TimerInv == FetchInv /\ Watched(client) /\ Unstarted

LEMMA FetchStartWatched ==
    ASSUME TimerInv, FetchStart
    PROVE  Watched(client') /\ Unstarted'
<1>1. ~stream.opened /\ client.cb /\ Unwatched(client) /\ Has(stream, client)
  BY DEF TimerInv, Unstarted, FetchStart, FetchInv
<1>2. Watched(WithConnectTimeout) /\ WithConnectTimeout.cb
  <2>1. AddTimeout(client, "connect").cb = client.cb
    BY <1>1, ClientFields DEF SameCall, Has
  <2> QED BY <1>1, <2>1, AddWatched DEF WithConnectTimeout, Unwatched, Timers
<1>3. CASE \E c \in {client, WithConnectTimeout} :
              client' = FailClient(c) /\ stream' = Post(stream, client)
  <2>1. PICK c \in {client, WithConnectTimeout} : client' = FailClient(c)
    BY <1>3
  <2>2. Watched(c) /\ c.cb /\ HasCb(c)
    <3>1. HasCb(client) /\ HasCb(WithConnectTimeout)
      BY <1>1, ClientFields DEF Has, WithConnectTimeout, SameCall
    <3> QED BY <1>1, <1>2, <2>1, <3>1 DEF Unwatched
  <2>3. Watched(client')
    BY <2>1, <2>2, FailWatched
  <2>4. ~client'.cb
    BY <2>1, <2>2, FailClientOver DEF Over
  <2> QED BY <2>3, <2>4 DEF Unstarted
<1>4. ASSUME NEW resolved \in BOOLEAN,
             client' = WithConnectTimeout,
             stream' = RealConnect([stream EXCEPT !.opened = TRUE, !.connecting = TRUE,
                                        !.connectCb = TRUE, !.closeCb = TRUE], resolved)
      PROVE  stream'.opened
  <2> DEFINE s == [stream EXCEPT !.opened = TRUE, !.connecting = TRUE,
                                 !.connectCb = TRUE, !.closeCb = TRUE]
  <2>1. HasState(s) /\ s.opened
    BY <1>1 DEF Has, HasState
  <2>2. stream' = RealConnect(s, resolved)
    BY <1>4
  <2> HIDE DEF s
  <2> QED BY <2>1, <2>2, RealConnectLater DEF Later
<1> QED BY <1>2, <1>3, <1>4 DEF FetchStart, Unstarted

\* A fetch that has been started stays so.
LEMMA StaysStarted ==
    ASSUME TimerInv, GoodTo(stream, client, stream', client'), stream.opened \/ ~client.cb
    PROVE  Unstarted'
<1>1. stream'.opened = stream.opened /\ Leads(stream, client, stream', client')
      /\ HasStage(stream, client)
  BY DEF TimerInv, FetchInv, GoodTo
<1>2. ~client.cb => ~client'.cb
  BY <1>1 DEF HasStage, Leads, Waits, IsDue, IsAnswered, IsRedirected
<1> QED BY <1>1, <1>2 DEF Unstarted

LEMMA NextWatched ==
    ASSUME TimerInv, [ClientNext]_clientVars
    PROVE  TimerInv'
<1>0. FetchInv' /\ Watched(client) /\ Has(stream, client) /\ Unstarted
  BY NextFetch DEF TimerInv, FetchInv
<1>1. CASE FetchStart
  BY <1>0, <1>1, FetchStartWatched DEF TimerInv, Watched
<1>2. CASE UNCHANGED clientVars
  BY <1>0, <1>2 DEF clientVars, vars, TimerInv, Unstarted, Watched, Unwatched
<1>3. CASE \/ \E op \in Operations : ClientComplete(op)
           \/ \E t \in Timers : Expire(t)
           \/ ClientStep
  <2>1. stream.opened \/ ~client.cb
    <3>1. ClientStep => stream.queue # <<>>
      BY DEF ClientStep, ClientCompletion, RunConnect, RunRead, RunClose, RunEmpty, RunTimeout,
             RunAnswer, Calls, Dispatches
    <3>2. ASSUME NEW op \in Operations, ClientComplete(op) PROVE stream.kernel # {}
      BY <3>2 DEF ClientComplete, Complete
    <3>3. ASSUME NEW t \in Timers, Expire(t) PROVE client.timer[t] = "armed"
      BY <3>3 DEF Expire
    <3> QED BY <1>0, <1>3, <3>1, <3>2, <3>3 DEF Unstarted, Unwatched
  <2>2. CASE RunAnswer
    <3>1. Watched(client')
      BY <1>0, <2>2 DEF RunAnswer, Watched
    <3>2. Unstarted'
      BY <1>0, <2>1, <2>2, RunAnswerAnswers DEF Unstarted, TimerInv, FetchInv
    <3> QED BY <1>0, <3>1, <3>2 DEF TimerInv, Watched
  <2>3. CASE ~RunAnswer
    <3>1. GoodTo(stream, client, stream', client')
      BY <1>0, <1>3, <2>3, QuietGood, RunConnectGood, RunReadGood, RunCloseGood, RunEmptyGood,
         RunTimeoutGood DEF ClientStep
    <3>2. Watched(client')
      <4>1. CASE RunClose
        BY <1>0, <4>1, FailsWatched DEF RunClose
      <4>2. CASE RunEmpty \/ ClientCompletion \/ \E op \in Operations : ClientComplete(op)
        BY <1>0, <4>2 DEF RunEmpty, ClientCompletion, ClientComplete
      <4> QED BY <1>0, <1>3, <2>3, <4>1, <4>2, RunReadWatched, RunConnectWatched,
                 RunTimeoutWatched, ExpireWatched DEF ClientStep
    <3>3. Unstarted'
      BY <2>1, <3>1, StaysStarted
    <3> QED BY <1>0, <3>2, <3>3 DEF TimerInv, Watched
  <2> QED BY <2>2, <2>3
<1> QED BY <1>1, <1>2, <1>3 DEF ClientNext

LEMMA InitWatched == ClientInit => TimerInv
<1>1. ClientInit => Watched(client) /\ Unstarted
  BY DEF ClientInit, Init, Fresh, Watched, Unwatched, Unstarted, Timers
<1> QED BY <1>1, InitFetch DEF TimerInv

\* A fetch that is over has no timeout armed, in whatever order its timeouts,
\* its connection, its response and its exceptions came: only a connect timeout
\* that ran after onConnect makes httpclient.cpp forget the request's.
THEOREM TimersRemoved == ClientSpec => []NoStrayTimer
<1>1. TimerInv => NoStrayTimer
  BY DEF TimerInv, Watched, NoStrayTimer
<1> QED BY InitWatched, NextWatched, <1>1, PTL DEF ClientSpec
=============================================================================
