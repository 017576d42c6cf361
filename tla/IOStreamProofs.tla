---------------------------- MODULE IOStreamProofs ----------------------------
(***************************************************************************)
(* Theorems about IOStream, for every value of its constants.              *)
(*                                                                         *)
(* The helpers of IOStream are functions on streams, so the proofs follow  *)
(* the call graph: one lemma per helper says that it keeps a stream Sound  *)
(* and what it does to the few members the theorems are about.             *)
(***************************************************************************)
EXTENDS IOStream, WellFoundedInduction, TLAPS

Handlers == Runs \cup Completions
Live == Runs \cup {c \in Completions : c.res # "aborted"}

\* A typed stream whose operations were aborted only by closing it.
Sound(s) == s \in StreamType /\ (~s.closed => s.queue \in Seq(Live))

\* The members the invariant is about.
Core(s) == <<s.readCb, s.closing, s.closed, s.sRead, s.sslAccepting>>

\* The members a read is taken from.
Buffer(s) == <<s.consumed, s.received, s.readBytes, s.marks, s.streamCb>>

\* A waiting read of an open stream is being served.
Serving(s) == s.sRead \/ s.sslAccepting
Served(s) == s.readCb # 0 /\ ~Closed(s) => Serving(s)

\* From s to r only closing, closed and perhaps the waiting read are kept ...
Keeps(s, r) == r.readCb = s.readCb /\ r.closing = s.closing /\ r.closed = s.closed

\* ... or a waiting read may be dropped and nothing else in Core changes.
Drops(s, r) ==
    /\ r.readCb \in {0, s.readCb}
    /\ r.closing = s.closing /\ r.closed = s.closed
    /\ r.sRead = s.sRead /\ r.sslAccepting = s.sslAccepting

LEMMA LiveIsHandler == Live \subseteq Handlers
BY DEF Live, Handlers

LEMMA EmptySequence == \A S : <<>> \in Seq(S)
OBVIOUS

-----------------------------------------------------------------------------
\* Single members of a stream

LEMMA SetQueue ==
    ASSUME NEW s, Sound(s), NEW h \in Live
    PROVE  LET r == [s EXCEPT !.queue = Append(@, h)]
           IN  Sound(r) /\ Core(r) = Core(s)
<1> DEFINE q == Append(s.queue, h)
<1>1. q \in Seq(Handlers)
  BY LiveIsHandler DEF Sound, StreamType, Handlers
<1>2. ~s.closed => q \in Seq(Live)
  BY DEF Sound
<1> HIDE DEF q
<1>3. Sound([s EXCEPT !.queue = q]) /\ Core([s EXCEPT !.queue = q]) = Core(s)
  BY <1>1, <1>2 DEF Sound, StreamType, Handlers, Core
<1> QED BY <1>3 DEF q

LEMMA ClearQueue ==
    ASSUME NEW s, Sound(s)
    PROVE  LET r == [s EXCEPT !.wq = <<>>] IN Sound(r) /\ Core(r) = Core(s)
<1>1. \A w \in Seq(Nat) : Sound([s EXCEPT !.wq = w]) /\ Core([s EXCEPT !.wq = w]) = Core(s)
  BY DEF Sound, StreamType, Core
<1> QED BY <1>1, EmptySequence

-----------------------------------------------------------------------------
\* Callbacks

LEMMA RunCallbackSound ==
    ASSUME NEW s, Sound(s), NEW cb \in Callbacks, NEW id \in Nat, NEW lo \in Nat, NEW hi \in Nat
    PROVE  LET r == RunCallback(s, cb, id, lo, hi)
           IN  Sound(r) /\ Core(r) = Core(s) /\ Buffer(r) = Buffer(s)
<1> DEFINE h == [run |-> cb, id |-> id, lo |-> lo, hi |-> hi]
           q == Append(s.queue, h)
           w == s.pending + 1
<1>1. h \in Live
  BY DEF Runs, Live
<1> HIDE DEF h
<1>2. q \in Seq(Handlers) /\ (~s.closed => q \in Seq(Live))
  BY <1>1, LiveIsHandler DEF Sound, StreamType, Handlers
<1>3. w \in Int
  BY DEF Sound, StreamType
<1> HIDE DEF q, w
<1>4. LET r == [s EXCEPT !.pending = w, !.queue = q]
      IN  Sound(r) /\ Core(r) = Core(s) /\ Buffer(r) = Buffer(s)
  BY <1>2, <1>3 DEF Sound, StreamType, Handlers, Core, Buffer
<1> QED BY <1>4 DEF RunCallback, w, q, h

LEMMA ClearCallbacksSound ==
    ASSUME NEW s, Sound(s)
    PROVE  Sound(ClearCallbacks(s)) /\ Drops(s, ClearCallbacks(s))
BY ZenonT(30) DEF Sound, StreamType, ClearCallbacks, Drops

\* Running or withholding the close callback may only drop a waiting read.
LEMMA MaybeRunCloseCallbackSound ==
    ASSUME NEW s, Sound(s)
    PROVE  Sound(MaybeRunCloseCallback(s)) /\ Drops(s, MaybeRunCloseCallback(s))
<1>1. CASE s.closeCb /\ s.closed /\ s.pending = 0
  <2> DEFINE p == RunCallback(s, "close", s.reads, 0, 0)
             t == ClearCallbacks(p)
             r == [t EXCEPT !.wq = <<>>]
  <2>1. Sound(p) /\ Core(p) = Core(s)
    <3>1. s.reads \in Nat /\ "close" \in Callbacks
      BY DEF Sound, StreamType, Callbacks
    <3> QED BY <3>1, RunCallbackSound
  <2> HIDE DEF p
  <2>2. Sound(t) /\ Drops(p, t)
    BY <2>1, ClearCallbacksSound
  <2> HIDE DEF t
  <2>3. Sound(r) /\ Core(r) = Core(t)
    BY <2>2, ClearQueue
  <2>4. MaybeRunCloseCallback(s) = r
    BY <1>1 DEF MaybeRunCloseCallback, t, p
  <2> HIDE DEF r
  <2>5. Drops(s, r)
    BY <2>1, <2>2, <2>3 DEF Core, Drops
  <2> QED BY <2>3, <2>4, <2>5
<1>2. CASE s.closeCb /\ ~(s.closed /\ s.pending = 0)
  <2>1. \A w \in Seq(Nat) :
          LET r == [s EXCEPT !.readCb = 0, !.writeCb = 0, !.wq = w]
          IN  Sound(r) /\ Drops(s, r)
    BY DEF Sound, StreamType, Drops
  <2> QED BY <1>2, <2>1, EmptySequence DEF MaybeRunCloseCallback
<1>3. CASE ~s.closeCb
  <2>1. Drops(s, s)
    BY DEF Drops
  <2> QED BY <1>3, <2>1, ClearCallbacksSound DEF MaybeRunCloseCallback
<1> QED BY <1>1, <1>2, <1>3

-----------------------------------------------------------------------------
\* Operations

LEMMA ArmSound ==
    ASSUME NEW s, Sound(s), NEW op \in Operations
    PROVE  Sound(Arm(s, op)) /\ Core(Arm(s, op)) = Core(s)
<1>1. CASE s.closed
  <2>1. [op |-> op, res |-> "error", n |-> 0] \in Live
    BY DEF Live, Completions, Results
  <2> QED BY <1>1, <2>1, SetQueue DEF Arm
<1>2. CASE ~s.closed
  <2>1. s.kernel \cup {op} \in SUBSET Operations
    BY DEF Sound, StreamType
  <2>2. \A k \in SUBSET Operations :
          Sound([s EXCEPT !.kernel = k]) /\ Core([s EXCEPT !.kernel = k]) = Core(s)
    BY DEF Sound, StreamType, Core
  <2> QED BY <1>2, <2>1, <2>2 DEF Arm
<1> QED BY <1>1, <1>2

LEMMA ArmWriteSound ==
    ASSUME NEW s, Sound(s)
    PROVE  Sound(ArmWrite(s)) /\ Core(ArmWrite(s)) = Core(s)
<1> DEFINE t == Arm(s, "write")
<1>1. Sound(t) /\ Core(t) = Core(s)
  BY ArmSound DEF Operations
<1> HIDE DEF t
<1>2. Sound([t EXCEPT !.sWrite = TRUE]) /\ Core([t EXCEPT !.sWrite = TRUE]) = Core(t)
  BY <1>1 DEF Sound, StreamType, Core
<1> QED BY <1>1, <1>2 DEF ArmWrite, t

LEMMA DoHandshakeSound ==
    ASSUME NEW s, Sound(s)
    PROVE  LET r == DoHandshake(s)
           IN  /\ Sound(r) /\ Keeps(s, r)
               /\ ~s.sslAccepted \/ Serving(s) => Serving(r)
<1>1. CASE s.sslAccepted \/ s.sslAccepting
  BY <1>1 DEF DoHandshake, Keeps, Serving
<1>2. CASE ~(s.sslAccepted \/ s.sslAccepting)
  <2> DEFINE t == Arm(s, "handshake")
             r == [t EXCEPT !.sslAccepting = TRUE, !.sWrite = TRUE]
  <2>1. Sound(t) /\ Core(t) = Core(s)
    BY ArmSound DEF Operations
  <2>2. DoHandshake(s) = r
    BY <1>2 DEF DoHandshake
  <2> HIDE DEF t
  <2>3. Sound(r) /\ Keeps(t, r) /\ Serving(r)
    BY <2>1 DEF Sound, StreamType, Keeps, Serving
  <2> HIDE DEF r
  <2>4. Keeps(s, r)
    BY <2>1, <2>3 DEF Keeps, Core
  <2> QED BY <2>2, <2>3, <2>4
<1> QED BY <1>1, <1>2

LEMMA DoReadSound ==
    ASSUME NEW s, Sound(s)
    PROVE  LET r == DoRead(s) IN Sound(r) /\ Keeps(s, r) /\ Serving(r)
<1> DEFINE t == Arm(s, "read")
           r == [t EXCEPT !.sRead = TRUE]
<1>1. Sound(t) /\ Core(t) = Core(s)
  BY ArmSound DEF Operations
<1>2. DoRead(s) = r
  BY DEF DoRead
<1> HIDE DEF t
<1>3. Sound(r) /\ Keeps(t, r) /\ Serving(r)
  BY <1>1 DEF Sound, StreamType, Keeps, Serving
<1> HIDE DEF r
<1>4. Keeps(s, r)
  BY <1>1, <1>3 DEF Keeps, Core
<1> QED BY <1>2, <1>3, <1>4

\* Reading from the socket leaves an operation that will serve a read.
LEMMA ReadFromSocketSound ==
    ASSUME NEW s, Sound(s)
    PROVE  LET r == ReadFromSocket(s) IN Sound(r) /\ Keeps(s, r) /\ Serving(r)
BY DoReadSound, DoHandshakeSound DEF ReadFromSocket

LEMMA MaybeAddErrorListenerSound ==
    ASSUME NEW s, Sound(s)
    PROVE  LET r == MaybeAddErrorListener(s)
           IN  /\ Sound(r) /\ (Served(s) => Served(r))
               /\ r.closing = s.closing /\ r.closed = s.closed
<1> DEFINE c == MaybeRunCloseCallback(s)
           r == ReadFromSocket(s)
<1>1. Sound(c) /\ Drops(s, c)
  BY MaybeRunCloseCallbackSound
<1>2. Sound(r) /\ Keeps(s, r) /\ Serving(r)
  BY ReadFromSocketSound
<1>3. MaybeAddErrorListener(s) \in {s, c, r}
  BY DEF MaybeAddErrorListener
<1> HIDE DEF c, r
<1>4. Served(s) => Served(c)
  BY <1>1 DEF Drops, Served, Serving, Closed
<1>5. Served(r)
  BY <1>2 DEF Served
<1> QED BY <1>1, <1>2, <1>3, <1>4, <1>5 DEF Drops, Keeps

-----------------------------------------------------------------------------
\* Closing

LEMMA AbortOperationsType ==
    ASSUME NEW s \in StreamType
    PROVE  AbortOperations(s) \in StreamType
<1>1. \A op \in Operations : Aborted(s, op) \in Seq(Handlers)
  <2> TAKE op \in Operations
  <2>1. [op |-> op, res |-> "aborted", n |-> 0] \in Handlers
    BY DEF Handlers, Completions, Results
  <2> QED BY <2>1, EmptySequence DEF Aborted
<1> DEFINE q == s.queue \o Aborted(s, "read") \o Aborted(s, "connect")
                  \o Aborted(s, "handshake") \o Aborted(s, "write") \o Aborted(s, "shutdown")
<1>2. q \in Seq(Handlers)
  <2>1. s.queue \in Seq(Handlers)
    BY DEF StreamType, Handlers
  <2>2. \A a, b \in Seq(Handlers) : a \o b \in Seq(Handlers)
    OBVIOUS
  <2> QED BY <1>1, <2>1, <2>2 DEF Operations
<1> HIDE DEF q
<1>3. [s EXCEPT !.kernel = {}, !.queue = q] \in StreamType
  BY <1>2 DEF StreamType, Handlers
<1> QED BY <1>3 DEF AbortOperations, q

LEMMA DoCloseSound ==
    ASSUME NEW s \in StreamType
    PROVE  Sound(DoClose(s)) /\ Closed(DoClose(s))
<1> DEFINE t == AbortOperations(s)
           u == [t EXCEPT !.closing = FALSE, !.closed = TRUE]
<1>1. t \in StreamType
  BY AbortOperationsType
<1> HIDE DEF t
<1>2. Sound(u) /\ u.closed
  BY <1>1, ZenonT(30) DEF Sound, StreamType
<1> HIDE DEF u
<1>3. DoClose(s) = MaybeRunCloseCallback(u)
  BY DEF DoClose, OnClose, u, t
<1>4. Sound(MaybeRunCloseCallback(u)) /\ Drops(u, MaybeRunCloseCallback(u))
  BY <1>2, MaybeRunCloseCallbackSound
<1> QED BY <1>2, <1>3, <1>4 DEF Closed, Drops

LEMMA CloseSocketSound ==
    ASSUME NEW s, Sound(s), s.closing
    PROVE  Sound(CloseSocket(s)) /\ Closed(CloseSocket(s))
<1>1. CASE Secure /\ s.sslAccepted /\ ~s.sWrite
  <2> DEFINE t == Arm(s, "shutdown")
  <2>1. Sound(t) /\ Core(t) = Core(s)
    BY ArmSound DEF Operations
  <2> HIDE DEF t
  <2>2. Sound([t EXCEPT !.sWrite = TRUE]) /\ Core([t EXCEPT !.sWrite = TRUE]) = Core(t)
    BY <2>1 DEF Sound, StreamType, Core
  <2> QED BY <1>1, <2>1, <2>2 DEF CloseSocket, t, Core, Closed
<1>2. CASE ~(Secure /\ s.sslAccepted /\ ~s.sWrite)
  BY <1>2, DoCloseSound DEF CloseSocket, Sound
<1> QED BY <1>1, <1>2

LEMMA FinishUntilCloseSound ==
    ASSUME NEW s, Sound(s)
    PROVE  Sound(FinishUntilClose(s))
<1> DEFINE streams == s.streamCb # 0 /\ Active(s) > 0
           p == RunCallback(s, "stream", s.streamCb, s.consumed, s.received)
           t == IF streams THEN [p EXCEPT !.consumed = s.received] ELSE s
           cb == IF t.readCb = 0 THEN "lostRead" ELSE "read"
           u == RunCallback(t, cb, t.readCb, t.consumed, t.received)
<1>0. s.streamCb \in Nat /\ s.consumed \in Nat /\ s.received \in Nat
  BY DEF Sound, StreamType
<1>1. Sound(p) /\ Core(p) = Core(s)
  <2>1. "stream" \in Callbacks
    BY DEF Callbacks
  <2> QED BY <1>0, <2>1, RunCallbackSound
<1> HIDE DEF p
<1>2. Sound(t) /\ Core(t) = Core(s)
  <2>1. \A n \in Nat : Sound([p EXCEPT !.consumed = n]) /\ Core([p EXCEPT !.consumed = n]) = Core(p)
    BY <1>1, ZenonT(30) DEF Sound, StreamType, Core
  <2> QED BY <1>0, <1>1, <2>1
<1> HIDE DEF t
<1>3. /\ t.readCb \in Nat /\ t.consumed \in Nat /\ t.received \in Nat
      /\ cb \in Callbacks
  BY <1>2 DEF Sound, StreamType, Callbacks, Empty
<1> HIDE DEF cb
<1>4. Sound(u)
  BY <1>2, <1>3, RunCallbackSound
<1> HIDE DEF u
<1>5. Sound([u EXCEPT !.consumed = t.received, !.readCb = 0, !.untilClose = FALSE])
  BY <1>3, <1>4, ZenonT(30) DEF Sound, StreamType
<1>6. FinishUntilClose(s) =
        [u EXCEPT !.consumed = t.received, !.readCb = 0, !.untilClose = FALSE]
  BY DEF FinishUntilClose, u, cb, t, p
<1> QED BY <1>5, <1>6

LEMMA CloseSound ==
    ASSUME NEW s, Sound(s)
    PROVE  Sound(Close(s)) /\ Closed(Close(s))
<1>1. CASE Closed(s)
  BY <1>1 DEF Close
<1>2. CASE ~Closed(s)
  <2> DEFINE t == IF s.untilClose THEN FinishUntilClose(s) ELSE s
             u == [t EXCEPT !.closing = TRUE]
  <2>1. Sound(t)
    BY FinishUntilCloseSound
  <2> HIDE DEF t
  <2>2. Sound(u) /\ u.closing
    BY <2>1 DEF Sound, StreamType
  <2> HIDE DEF u
  <2>3. Close(s) = CloseSocket(u)
    BY <1>2 DEF Close, u, t
  <2> QED BY <2>2, <2>3, CloseSocketSound
<1> QED BY <1>1, <1>2

-----------------------------------------------------------------------------
\* Reading

LEMMA LeastInSet ==
    ASSUME NEW S \in SUBSET Nat, S # {}
    PROVE  Least(S) \in S
<1>1. PICK p \in S : \A q \in S : <<q, p>> \notin OpToRel(<, Nat)
  BY NatLessThanWellFounded, WFMin, Zenon
<1>2. \A q \in S : ~(q < p)
  BY <1>1, Zenon DEF OpToRel
<1>3. \A q \in S : p <= q
  BY <1>2
<1> QED BY <1>3 DEF Least

LEMMA EndsAreNat ==
    ASSUME NEW s \in StreamType
    PROVE  Ends(s) \in SUBSET Nat
<1>1. \A m \in Marks : Matches(s, m) \in SUBSET Nat
  BY BoundsAssumption DEF Matches
<1>2. s.readBytes # None => s.consumed + s.readBytes \in Nat
  BY DEF StreamType
<1>3. Source(s) = "bytes" => s.readBytes # None
  BY DEF Source
<1> QED BY <1>1, <1>2, <1>3 DEF Ends, Source, Marks

LEMMA StreamedSound ==
    ASSUME NEW s, Sound(s)
    PROVE  Sound(Streamed(s)) /\ Core(Streamed(s)) = Core(s)
<1>1. CASE s.streamCb = 0 \/ Active(s) = 0
  BY <1>1 DEF Streamed
<1>2. CASE ~(s.streamCb = 0 \/ Active(s) = 0)
  <2> DEFINE n == IF s.readBytes # None /\ s.readBytes < Active(s)
                  THEN s.readBytes ELSE Active(s)
             end == s.consumed + n
             left == IF s.readBytes = None THEN None ELSE s.readBytes - n
             p == RunCallback(s, "stream", s.streamCb, s.consumed, end)
  <2>1. /\ s.streamCb \in Nat /\ s.consumed \in Nat
        /\ end \in Nat /\ left \in Nat \cup {None}
    <3>1. /\ s.streamCb \in Nat /\ s.consumed \in Nat /\ s.received \in Nat
          /\ s.readBytes \in Nat \cup {None}
      BY DEF Sound, StreamType
    <3>2. CASE s.readBytes # None /\ s.readBytes < Active(s)
      <4>1. n = s.readBytes /\ s.readBytes \in Nat
        BY <3>1, <3>2
      <4>2. end \in Nat /\ left = 0
        BY <3>1, <3>2, <4>1 DEF None
      <4> QED BY <3>1, <4>2
    <3>3. CASE ~(s.readBytes # None /\ s.readBytes < Active(s))
      <4>1. n = s.received - s.consumed
        BY <3>3 DEF Active
      <4>2. end \in Nat
        BY <3>1, <4>1
      <4>3. left \in Nat \cup {None}
        BY <3>1, <3>3, <4>1 DEF Active
      <4> QED BY <3>1, <4>2, <4>3
    <3> QED BY <3>2, <3>3
  <2> HIDE DEF end, left
  <2>2. Sound(p) /\ Core(p) = Core(s) /\ Buffer(p) = Buffer(s)
    <3>1. "stream" \in Callbacks
      BY DEF Callbacks
    <3> QED BY <2>1, <3>1, RunCallbackSound
  <2> HIDE DEF p
  <2>3. LET r == [p EXCEPT !.consumed = end, !.readBytes = left]
        IN  Sound(r) /\ Core(r) = Core(p)
    BY <2>1, <2>2 DEF Sound, StreamType, Core
  <2>4. Streamed(s) = [p EXCEPT !.consumed = @ + n,
                                !.readBytes = IF @ = None THEN None ELSE @ - n]
    BY <1>2 DEF Streamed, p, end
  <2>5. [p EXCEPT !.consumed = @ + n, !.readBytes = IF @ = None THEN None ELSE @ - n]
          = [p EXCEPT !.consumed = end, !.readBytes = left]
    BY <2>2 DEF end, left, Buffer
  <2> QED BY <2>2, <2>3, <2>4, <2>5
<1> QED BY <1>1, <1>2

LEMMA DeliveredSound ==
    ASSUME NEW s, Sound(s), Ends(s) # {}
    PROVE  LET r == Delivered(s) IN Sound(r) /\ r.readCb = 0 /\ Drops(s, r)
<1> DEFINE end == Least(Ends(s))
           cb == IF s.readCb = 0 THEN "lostRead" ELSE "read"
           p == RunCallback(s, cb, s.readCb, s.consumed, end)
           left == IF Source(s) = "bytes" THEN None ELSE p.readBytes
           marks == p.marks \ {Source(s)}
<1>1. end \in Nat
  BY EndsAreNat, LeastInSet DEF Sound
<1>2. s.readCb \in Nat /\ s.consumed \in Nat /\ cb \in Callbacks
  BY DEF Sound, StreamType, Callbacks, Empty
<1> HIDE DEF end, cb
<1>3. Sound(p) /\ Core(p) = Core(s)
  BY <1>1, <1>2, RunCallbackSound
<1> HIDE DEF p
<1>4. left \in Nat \cup {None} /\ marks \in SUBSET Marks
  BY <1>3 DEF Sound, StreamType
<1> HIDE DEF left, marks
<1>5. LET r == [p EXCEPT !.consumed = end, !.readCb = 0, !.streamCb = 0,
                         !.readBytes = left, !.marks = marks]
      IN  Sound(r) /\ r.readCb = 0 /\ Drops(p, r)
  BY <1>1, <1>3, <1>4 DEF Sound, StreamType, Drops
<1>6. Delivered(s) = [p EXCEPT !.consumed = end, !.readCb = 0, !.streamCb = 0,
                               !.readBytes = left, !.marks = marks]
  BY DEF Delivered, p, cb, end, left, marks
<1> QED BY <1>3, <1>5, <1>6 DEF Core, Drops

LEMMA ReadFromBufferSound ==
    ASSUME NEW s, Sound(s)
    PROVE  LET r == ReadFromBuffer(s)
           IN  Sound(r) /\ Drops(s, r) /\ (Completes(s) => r.readCb = 0)
<1> DEFINE t == Streamed(s)
           r == Delivered(t)
<1>1. Sound(t) /\ Core(t) = Core(s)
  BY StreamedSound
<1>2. Drops(s, t)
  BY <1>1 DEF Drops, Core
<1>3. CASE Completes(s)
  <2>1. Ends(t) # {}
    BY <1>3 DEF Completes
  <2>2. ReadFromBuffer(s) = r
    BY <1>3 DEF ReadFromBuffer
  <2> HIDE DEF t
  <2>3. Sound(r) /\ r.readCb = 0 /\ Drops(t, r)
    BY <1>1, <2>1, DeliveredSound
  <2> HIDE DEF r
  <2>4. Drops(s, r)
    BY <1>2, <2>3 DEF Drops
  <2> QED BY <2>2, <2>3, <2>4
<1>4. CASE ~Completes(s)
  <2>1. ReadFromBuffer(s) = t
    BY <1>4 DEF ReadFromBuffer
  <2> HIDE DEF t
  <2> QED BY <1>1, <1>2, <1>4, <2>1
<1> QED BY <1>3, <1>4

\* A sound stream whose waiting read is served.
Good(s) == Sound(s) /\ Served(s)

LEMMA SameCore ==
    ASSUME NEW s, NEW r, Core(r) = Core(s), Served(s)
    PROVE  Served(r)
BY DEF Core, Served, Serving, Closed

LEMMA DropsGood ==
    ASSUME NEW s, NEW r, Drops(s, r), Served(s)
    PROVE  Served(r)
BY DEF Drops, Served, Serving, Closed

LEMMA CloseGood ==
    ASSUME NEW s, Sound(s)
    PROVE  Good(Close(s))
BY CloseSound DEF Good, Served

LEMMA TryInlineReadGood ==
    ASSUME NEW s, Sound(s)
    PROVE  Good(TryInlineRead(s))
<1> DEFINE b == ReadFromBuffer(s)
           r == ReadFromSocket(b)
<1>1. Sound(b) /\ Drops(s, b) /\ (Completes(s) => b.readCb = 0)
  BY ReadFromBufferSound
<1> HIDE DEF b
<1>2. Sound(r) /\ Serving(r)
  BY <1>1, ReadFromSocketSound
<1>3. TryInlineRead(s) = IF Completes(s) \/ Closed(s) \/ s.sRead THEN b ELSE r
  BY DEF TryInlineRead, b
<1> HIDE DEF r
<1>4. Completes(s) \/ Closed(s) \/ s.sRead => Served(b)
  BY <1>1 DEF Served, Serving, Closed, Drops
<1>5. Served(r)
  BY <1>2 DEF Served
<1> QED BY <1>1, <1>2, <1>3, <1>4, <1>5 DEF Good

\* A read that was aborted has no successor; the stream is closed by then.
LEMMA OnReadGood ==
    ASSUME NEW s, Sound(s), NEW res \in Results, NEW n \in Nat, res = "aborted" => s.closed
    PROVE  Good(OnRead(s, res, n))
<1> DEFINE t == [s EXCEPT !.sRead = FALSE]
           more == s.received + n
           u == [t EXCEPT !.received = more]
           v == ReadFromBuffer(u)
           a == MaybeRunCloseCallback(t)
           r == IF v.readCb # 0 THEN ReadFromSocket(v) ELSE MaybeAddErrorListener(v)
<1>1. Sound(t) /\ t.closed = s.closed /\ t.received = s.received
  BY DEF Sound, StreamType
<1>2. OnRead(s, res, n) =
        CASE res = "aborted" -> a [] res = "error" -> Close(t) [] res = "overflow" -> Close(u)
          [] OTHER -> IF Completes(u) \/ Closed(u) THEN v ELSE r
  BY <1>1 DEF OnRead
<1>3. more \in Nat
  BY DEF Sound, StreamType
<1> HIDE DEF t, more
<1>4. Sound(u)
  BY <1>1, <1>3 DEF Sound, StreamType
<1> HIDE DEF u
<1>5. res = "aborted" => Good(a)
  <2>1. Sound(a) /\ Drops(t, a)
    BY <1>1, MaybeRunCloseCallbackSound
  <2> HIDE DEF a
  <2> QED BY <1>1, <2>1 DEF Drops, Good, Served, Closed
<1>6. Good(Close(t)) /\ Good(Close(u))
  BY <1>1, <1>4, CloseGood
<1>7. Sound(v) /\ Drops(u, v) /\ (Completes(u) => v.readCb = 0)
  BY <1>4, ReadFromBufferSound
<1> HIDE DEF v
<1>8. Completes(u) \/ Closed(u) => Good(v)
  BY <1>7 DEF Drops, Good, Served, Closed
<1>9. Good(r)
  <2>1. CASE v.readCb # 0
    <3>1. Sound(ReadFromSocket(v)) /\ Serving(ReadFromSocket(v))
      BY <1>7, ReadFromSocketSound
    <3> QED BY <2>1, <3>1 DEF Good, Served
  <2>2. CASE v.readCb = 0
    <3>1. Served(v)
      BY <2>2 DEF Served
    <3>2. Sound(MaybeAddErrorListener(v)) /\ (Served(v) => Served(MaybeAddErrorListener(v)))
      BY <1>7, MaybeAddErrorListenerSound
    <3> QED BY <2>2, <3>1, <3>2 DEF Good
  <2> QED BY <2>1, <2>2
<1> HIDE DEF r, a
<1> QED BY <1>2, <1>5, <1>6, <1>8, <1>9 DEF Results

-----------------------------------------------------------------------------
\* Writing

LEMMA ListenerGood ==
    ASSUME NEW s, Good(s)
    PROVE  Good(MaybeAddErrorListener(s))
BY MaybeAddErrorListenerSound DEF Good

\* S_WRITE and the write callback are not in Core.
LEMMA WriteFieldsGood ==
    ASSUME NEW s, Good(s)
    PROVE  /\ \A b \in BOOLEAN : Good([s EXCEPT !.sWrite = b])
           /\ \A n \in Nat : Good([s EXCEPT !.writeCb = n])
           /\ \A w \in Seq(Nat), n \in Nat : Good([s EXCEPT !.wq = w, !.sent = n])
<1>1. \A b \in BOOLEAN : Good([s EXCEPT !.sWrite = b])
  BY ZenonT(30) DEF Good, Sound, StreamType, Served, Serving, Closed
<1>2. \A n \in Nat : Good([s EXCEPT !.writeCb = n])
  BY DEF Good, Sound, StreamType, Served, Serving, Closed
<1>3. \A w \in Seq(Nat), n \in Nat : Good([s EXCEPT !.wq = w, !.sent = n])
  BY ZenonT(30) DEF Good, Sound, StreamType, Served, Serving, Closed
<1> QED BY <1>1, <1>2, <1>3

LEMMA RunCallbackGood ==
    ASSUME NEW s, Good(s), NEW cb \in Callbacks, NEW id \in Nat, NEW lo \in Nat, NEW hi \in Nat
    PROVE  Good(RunCallback(s, cb, id, lo, hi))
BY RunCallbackSound, SameCore DEF Good

LEMMA WriteFailedGood ==
    ASSUME NEW s, Good(s), NEW res
    PROVE  Good(WriteFailed(s, res))
<1> DEFINE t == [s EXCEPT !.sWrite = FALSE, !.writeCb = 0]
<1>1. Good(t)
  BY ZenonT(30) DEF Good, Sound, StreamType, Served, Serving, Closed
<1>2. WriteFailed(s, res) \in {Close(t), MaybeRunCloseCallback(t)}
  BY DEF WriteFailed
<1> HIDE DEF t
<1> QED BY <1>1, <1>2, CloseGood, MaybeRunCloseCallbackSound, DropsGood DEF Good

LEMMA WriteDrainedGood ==
    ASSUME NEW s, Good(s)
    PROVE  Good(WriteDrained(s))
<1> DEFINE t == [s EXCEPT !.sWrite = FALSE]
           p == RunCallback(t, "write", t.writeCb, 0, t.writeEnd)
<1>1. Good(t)
  BY WriteFieldsGood
<1>2. WriteDrained(s) \in {[p EXCEPT !.writeCb = 0], t, MaybeAddErrorListener(t)}
  BY DEF WriteDrained
<1> HIDE DEF t
<1>3. t.writeCb \in Nat /\ t.writeEnd \in Nat /\ 0 \in Nat /\ "write" \in Callbacks
  BY <1>1 DEF Good, Sound, StreamType, Callbacks
<1>4. Good(p)
  BY <1>1, <1>3, RunCallbackGood
<1> HIDE DEF p
<1>5. Good([p EXCEPT !.writeCb = 0])
  BY <1>3, <1>4, WriteFieldsGood
<1> QED BY <1>1, <1>2, <1>5, ListenerGood

LEMMA ArmWriteGood ==
    ASSUME NEW s, Good(s)
    PROVE  Good(ArmWrite(s))
BY ArmWriteSound, SameCore DEF Good

LEMMA DoWriteSound ==
    ASSUME NEW s, Sound(s), s.wq # <<>>
    PROVE  Sound(DoWrite(s)) /\ Core(DoWrite(s)) = Core(s)
<1> DEFINE w == <<s.wq[Len(s.wq)]>>
           t == [s EXCEPT !.wq = w]
<1>1. w \in Seq(Nat)
  BY DEF Sound, StreamType
<1>2. DoWrite(s) = ArmWrite(t)
  BY DEF DoWrite
<1> HIDE DEF w
<1>3. Sound(t) /\ Core(t) = Core(s)
  BY <1>1 DEF Sound, StreamType, Core
<1> HIDE DEF t
<1> QED BY <1>2, <1>3, ArmWriteSound

LEMMA DoWriteGood ==
    ASSUME NEW s, Good(s), s.wq # <<>>
    PROVE  Good(DoWrite(s))
BY DoWriteSound, SameCore DEF Good

LEMMA DoHandshakeGood ==
    ASSUME NEW s, Good(s)
    PROVE  Good(DoHandshake(s))
<1> DEFINE r == DoHandshake(s)
<1>1. Sound(r) /\ Keeps(s, r) /\ (Serving(s) => Serving(r))
  BY DoHandshakeSound DEF Good
<1> HIDE DEF r
<1>2. Served(r)
  BY <1>1 DEF Good, Keeps, Served, Closed
<1> QED BY <1>1, <1>2 DEF Good, r

Outcome == [kind : {"all", "error", "zero", "block"}, k : Nat, to : Nat]

LEMMA OutcomesTyped ==
    ASSUME NEW s \in StreamType
    PROVE  Outcomes(s) \subseteq Outcome
<1> DEFINE From(k) == IF k = 0 THEN s.sent ELSE s.wq[k]
           At(kind) == [kind |-> kind, k |-> 0, to |-> s.sent]
<1>1. s.sent \in Nat /\ s.wq \in Seq(Nat)
  BY DEF StreamType
<1>2. At("all") \in Outcome /\ At("error") \in Outcome /\ At("zero") \in Outcome
  BY <1>1 DEF Outcome
<1>3. ASSUME NEW k \in 0..(Len(s.wq) - 1)
      PROVE  [kind : {"block"}, k : {k}, to : From(k)..(s.wq[k + 1] - 1)] \subseteq Outcome
  <2>1. k \in Nat /\ From(k) \in Nat /\ s.wq[k + 1] \in Nat
    BY <1>1
  <2> HIDE DEF From
  <2> QED BY <2>1 DEF Outcome
<1> QED BY <1>2, <1>3 DEF Outcomes

LEMMA WriteToSocketGood ==
    ASSUME NEW s, Good(s), s.wq # <<>>, NEW o \in Outcome
    PROVE  Good(WriteToSocket(s, o))
<1>1. CASE Secure
  BY <1>1, DoWriteGood, DoHandshakeGood DEF WriteToSocket
<1>2. CASE ~Secure
  <2> DEFINE w == SubSeq(s.wq, o.k + 1, Len(s.wq))
             all == [s EXCEPT !.wq = <<>>, !.sent = s.written]
             rest == [s EXCEPT !.wq = w, !.sent = o.to]
  <2>1. w \in Seq(Nat) /\ o.to \in Nat /\ s.written \in Nat
    <3>1. s.wq \in Seq(Nat) /\ o.k \in Nat /\ o.to \in Nat /\ s.written \in Nat
      BY DEF Good, Sound, StreamType, Outcome
    <3>2. \A i \in 1..Len(s.wq) : s.wq[i] \in Nat
      BY <3>1
    <3>3. \A i \in (o.k + 1)..Len(s.wq) : s.wq[i] \in Nat
      BY <3>1, <3>2
    <3> QED BY <3>1, <3>3
  <2> HIDE DEF w
  <2>2. Good(all) /\ Good(rest)
    BY <2>1, WriteFieldsGood, EmptySequence
  <2> HIDE DEF all, rest
  <2>3. CASE o.kind = "all"
    BY <1>2, <2>2, <2>3, WriteDrainedGood DEF WriteToSocket, all
  <2>4. CASE o.kind = "error"
    BY <1>2, <2>4, WriteFailedGood DEF WriteToSocket
  <2>5. CASE o.kind = "zero"
    BY <1>2, <2>5, CloseGood DEF WriteToSocket, Good
  <2>6. CASE o.kind = "block"
    BY <1>2, <2>2, <2>6, ArmWriteGood DEF WriteToSocket, rest, w
  <2> QED BY <2>3, <2>4, <2>5, <2>6 DEF Outcome
<1> QED BY <1>1, <1>2

LEMMA TakeFrontGood ==
    ASSUME NEW s, Good(s), NEW n \in Nat
    PROVE  Good(TakeFront(s, n))
<1>1. CASE s.wq = <<>>
  BY <1>1 DEF TakeFront, Good, Sound, StreamType, Served, Serving, Closed
<1>2. CASE s.wq # <<>>
  <2> DEFINE w == IF s.sent + n = Head(s.wq) THEN Tail(s.wq) ELSE s.wq
             to == s.sent + n
  <2>1. w \in Seq(Nat) /\ to \in Nat
    BY <1>2, SMTT(30) DEF Good, Sound, StreamType
  <2> HIDE DEF w, to
  <2>2. Good([s EXCEPT !.wq = w, !.sent = to])
    BY <2>1, WriteFieldsGood
  <2>3. TakeFront(s, n) = [s EXCEPT !.wq = w, !.sent = to]
    BY <1>2 DEF TakeFront, w, to, Good, Sound, StreamType
  <2> QED BY <2>2, <2>3
<1> QED BY <1>1, <1>2

LEMMA OnWriteGood ==
    ASSUME NEW s, Good(s), NEW res, NEW n \in Nat, NEW o \in Outcome
    PROVE  Good(OnWrite(s, res, n, o))
<1> DEFINE c == [s EXCEPT !.sWrite = FALSE]
           t == TakeFront(c, n)
<1>1. Good(c)
  BY WriteFieldsGood
<1>2. OnWrite(s, res, n, o) =
        IF res # "ok" THEN WriteFailed(s, res) ELSE IF t.wq = <<>> THEN WriteDrained(t)
        ELSE IF Closed(t) THEN t ELSE WriteToSocket(t, o)
  BY DEF OnWrite
<1> HIDE DEF c
<1>3. Good(t)
  BY <1>1, TakeFrontGood
<1> HIDE DEF t
<1>4. t.wq # <<>> => Good(WriteToSocket(t, o))
  BY <1>3, WriteToSocketGood
<1> QED BY <1>2, <1>3, <1>4, WriteFailedGood, WriteDrainedGood

LEMMA PacketsType ==
    ASSUME NEW from \in Nat, NEW len \in Nat
    PROVE  Packets(from, len) \in Seq(Nat)
<1> DEFINE k == (len + ChunkSize - 1) \div ChunkSize
           P(i) == IF i * ChunkSize < len THEN from + i * ChunkSize ELSE from + len
<1>1. ChunkSize \in Nat \ {0}
  BY BoundsAssumption
<1>2. k \in Nat
  BY <1>1
<1>3. \A i \in 1..k : P(i) \in Nat
  <2> TAKE i \in 1..k
  <2> DEFINE m == i * ChunkSize
  <2>1. m \in Int
    BY <1>1, <1>2
  <2> HIDE DEF m
  <2>2. (IF m < len THEN from + m ELSE from + len) \in Int
    BY <2>1
  <2>3. i * ChunkSize >= 0
    BY <1>1, <1>2
  <2> QED BY <2>1, <2>3 DEF m
<1> HIDE DEF k, P
<1>4. [i \in 1..k |-> P(i)] \in Seq(Nat)
  BY <1>2, <1>3
<1> QED BY <1>4 DEF Packets, k, P

LEMMA EnqueueGood ==
    ASSUME NEW s, Good(s), NEW len \in Nat, NEW cb \in Nat
    PROVE  Good(Enqueue(s, len, cb))
<1> DEFINE w == s.wq \o Packets(s.written, len)
           end == s.written + len
<1>1. s.written \in Nat /\ s.wq \in Seq(Nat)
  BY DEF Good, Sound, StreamType
<1>2. w \in Seq(Nat) /\ end \in Nat
  <2>1. \A a, b \in Seq(Nat) : a \o b \in Seq(Nat)
    OBVIOUS
  <2>2. Packets(s.written, len) \in Seq(Nat)
    BY <1>1, PacketsType
  <2> QED BY <1>1, <2>1, <2>2
<1>3. Enqueue(s, len, cb) =
        [s EXCEPT !.wq = w, !.written = end, !.writeCb = cb, !.writeEnd = end]
  BY DEF Enqueue
<1> HIDE DEF w, end
<1>4. Good([s EXCEPT !.wq = w, !.written = end, !.writeCb = cb, !.writeEnd = end])
  BY <1>2 DEF Good, Sound, StreamType, Served, Serving, Closed
<1> QED BY <1>3, <1>4

LEMMA FlushGood ==
    ASSUME NEW s, Good(s), NEW o \in Outcome
    PROVE  Good(Flush(s, o))
<1> DEFINE cb == IF s.writeCb = 0 THEN "noWrite" ELSE "write"
           p == RunCallback(s, cb, s.writeCb, 0, s.writeEnd)
<1>1. /\ s.writeCb \in Nat /\ s.writeEnd \in Nat /\ 0 \in Nat
      /\ cb \in Callbacks
  BY DEF Good, Sound, StreamType, Callbacks, Empty
<1>2. Flush(s, o) =
        IF s.connecting THEN s ELSE IF s.wq = <<>> THEN [p EXCEPT !.writeCb = 0]
        ELSE IF s.sWrite THEN s ELSE WriteToSocket(s, o)
  BY DEF Flush
<1> HIDE DEF cb
<1>3. Good(p)
  BY <1>1, RunCallbackGood
<1> HIDE DEF p
<1>4. Good([p EXCEPT !.writeCb = 0])
  BY <1>1, <1>3, WriteFieldsGood
<1>5. s.wq # <<>> => Good(WriteToSocket(s, o))
  BY WriteToSocketGood
<1> QED BY <1>2, <1>4, <1>5

-----------------------------------------------------------------------------
\* Connecting

LEMMA ConnectFailedGood ==
    ASSUME NEW s, Good(s), NEW res
    PROVE  Good(ConnectFailed(s, res))
<1> DEFINE t == [s EXCEPT !.sWrite = FALSE, !.connectCb = FALSE]
<1>1. Good(t)
  BY ZenonT(30) DEF Good, Sound, StreamType, Served, Serving, Closed
<1>2. ConnectFailed(s, res) \in {Close(t), MaybeRunCloseCallback(t)}
  BY DEF ConnectFailed
<1> HIDE DEF t
<1> QED BY <1>1, <1>2, CloseGood, MaybeRunCloseCallbackSound, DropsGood DEF Good

LEMMA ConnectFieldsGood ==
    ASSUME NEW s, Good(s)
    PROVE  \A b \in BOOLEAN : /\ Good([s EXCEPT !.connectCb = b])
                              /\ Good([s EXCEPT !.sslConnectCb = b])
                              /\ Good([s EXCEPT !.connecting = b])
<1> TAKE b \in BOOLEAN
<1>1. Good([s EXCEPT !.connectCb = b])
  <2>1. LET r == [s EXCEPT !.connectCb = b] IN Sound(r) /\ Core(r) = Core(s)
    BY DEF Good, Sound, StreamType, Core
  <2> QED BY <2>1, SameCore DEF Good
<1>2. Good([s EXCEPT !.sslConnectCb = b])
  <2>1. LET r == [s EXCEPT !.sslConnectCb = b] IN Sound(r) /\ Core(r) = Core(s)
    BY DEF Good, Sound, StreamType, Core
  <2> QED BY <2>1, SameCore DEF Good
<1>3. Good([s EXCEPT !.connecting = b])
  <2>1. LET r == [s EXCEPT !.connecting = b] IN Sound(r) /\ Core(r) = Core(s)
    BY DEF Good, Sound, StreamType, Core
  <2> QED BY <2>1, SameCore DEF Good
<1> QED BY <1>1, <1>2, <1>3

\* The connect callback is posted and taken from its member.
LEMMA ConnectCallbackGood ==
    ASSUME NEW s, Good(s)
    PROVE  LET p == RunCallback(s, "connect", 0, 0, 0)
           IN  Good([p EXCEPT !.connectCb = FALSE]) /\ Good([p EXCEPT !.sslConnectCb = FALSE])
<1> DEFINE p == RunCallback(s, "connect", 0, 0, 0)
<1>1. Good(p)
  <2>1. "connect" \in Callbacks /\ 0 \in Nat
    BY DEF Callbacks
  <2> QED BY <2>1, RunCallbackGood
<1> HIDE DEF p
<1> QED BY <1>1, ConnectFieldsGood DEF p

LEMMA OnConnectGood ==
    ASSUME NEW s, Good(s), NEW res, NEW o \in Outcome
    PROVE  Good(OnConnect(s, res, o))
<1> DEFINE t == [s EXCEPT !.sWrite = FALSE]
           u == IF t.connectCb
                THEN [RunCallback(t, "connect", 0, 0, 0) EXCEPT !.connectCb = FALSE] ELSE t
           v == [u EXCEPT !.connecting = FALSE]
           p == RunCallback(v, "write", v.writeCb, 0, v.writeEnd)
<1>1. Good(t)
  BY WriteFieldsGood
<1>2. OnConnect(s, res, o) =
        IF res # "ok" THEN ConnectFailed(s, res)
        ELSE IF s.closed THEN u
        ELSE IF v.wq # <<>> THEN WriteToSocket(v, o)
        ELSE IF v.writeCb # 0 THEN [p EXCEPT !.writeCb = 0] ELSE MaybeAddErrorListener(v)
  BY DEF OnConnect
<1> HIDE DEF t
<1>3. Good(u)
  BY <1>1, ConnectCallbackGood
<1> HIDE DEF u
<1>4. Good(v)
  BY <1>3, ConnectFieldsGood
<1> HIDE DEF v
<1>5. v.writeCb \in Nat /\ v.writeEnd \in Nat /\ 0 \in Nat /\ "write" \in Callbacks
  BY <1>4 DEF Good, Sound, StreamType, Callbacks
<1>6. Good(p)
  BY <1>4, <1>5, RunCallbackGood
<1> HIDE DEF p
<1>7. Good([p EXCEPT !.writeCb = 0])
  BY <1>5, <1>6, WriteFieldsGood
<1> QED BY <1>2, <1>3, <1>4, <1>7, ConnectFailedGood, WriteToSocketGood, ListenerGood

LEMMA RealConnectGood ==
    ASSUME NEW s, Good(s), NEW resolved \in BOOLEAN
    PROVE  Good(RealConnect(s, resolved))
<1> DEFINE t == Arm(s, "connect")
           plain == ~Secure /\ t.connectCb
           ssl == Secure /\ s.connectCb
<1>1. Sound(t) /\ Core(t) = Core(s)
  BY ArmSound DEF Operations, Good
<1>2. RealConnect(s, resolved) =
        IF ~resolved THEN ConnectFailed(s, "error")
        ELSE [t EXCEPT !.sWrite = TRUE, !.sslConnectCb = ssl, !.connectCb = plain]
  BY DEF RealConnect
<1> HIDE DEF t
<1>3. plain \in BOOLEAN /\ ssl \in BOOLEAN
  OBVIOUS
<1>4. Good(t)
  BY <1>1, SameCore DEF Good
<1> HIDE DEF plain, ssl
<1>5. Good([t EXCEPT !.sWrite = TRUE, !.sslConnectCb = ssl, !.connectCb = plain])
  <2> DEFINE a == [t EXCEPT !.sWrite = TRUE]
             b == [a EXCEPT !.sslConnectCb = ssl]
  <2>1. Good(a)
    BY <1>4, WriteFieldsGood
  <2>2. [t EXCEPT !.sWrite = TRUE, !.sslConnectCb = ssl, !.connectCb = plain]
          = [b EXCEPT !.connectCb = plain]
    OBVIOUS
  <2> HIDE DEF a
  <2>3. Good(b)
    BY <1>3, <2>1, ConnectFieldsGood
  <2> HIDE DEF b
  <2> QED BY <1>3, <2>2, <2>3, ConnectFieldsGood
<1> QED BY <1>2, <1>5, ConnectFailedGood

\* A handshake is aborted only by a close; otherwise a waiting read is started
\* once the handshake is over.
LEMMA OnHandshakeGood ==
    ASSUME NEW s, Good(s), NEW res \in Results, res = "aborted" => s.closed
    PROVE  Good(OnHandshake(s, res))
<1> DEFINE t == [s EXCEPT !.sWrite = FALSE, !.sslAccepting = FALSE]
           u == [t EXCEPT !.sslAccepted = TRUE]
           p == RunCallback(u, "connect", 0, 0, 0)
           v == IF u.sslConnectCb THEN [p EXCEPT !.sslConnectCb = FALSE] ELSE u
           w == IF v.wq # <<>> THEN DoWrite(v) ELSE v
           x == IF w.readCb # 0 THEN DoRead(w) ELSE w
<1>1. OnHandshake(s, res) =
        CASE res = "aborted" -> t [] res = "error" -> Close(t)
          [] OTHER -> MaybeAddErrorListener(x)
  BY DEF OnHandshake
<1>2. Sound(t) /\ t.closed = s.closed
  BY ZenonT(30) DEF Good, Sound, StreamType
<1> HIDE DEF t
<1>3. Sound(u)
  BY <1>2 DEF Sound, StreamType
<1> HIDE DEF u
<1>4. Sound(p)
  <2>1. "connect" \in Callbacks /\ 0 \in Nat
    BY DEF Callbacks
  <2> QED BY <1>3, <2>1, RunCallbackSound
<1> HIDE DEF p
<1>5. Sound(v)
  <2>1. Sound([p EXCEPT !.sslConnectCb = FALSE])
    BY <1>4 DEF Sound, StreamType
  <2> QED BY <1>3, <2>1
<1> HIDE DEF v
<1>6. Sound(w)
  <2>1. v.wq # <<>> => Sound(DoWrite(v))
    BY <1>5, DoWriteSound
  <2> QED BY <1>5, <2>1
<1> HIDE DEF w
<1>7. Good(x)
  <2>1. CASE w.readCb # 0
    <3>1. Sound(DoRead(w)) /\ Serving(DoRead(w))
      BY <1>6, DoReadSound
    <3> QED BY <2>1, <3>1 DEF Good, Served
  <2>2. CASE w.readCb = 0
    BY <1>6, <2>2 DEF Good, Served
  <2> QED BY <2>1, <2>2
<1> HIDE DEF x
<1>8. res = "aborted" => Good(t)
  BY <1>2 DEF Good, Served, Closed
<1>9. Good(Close(t)) /\ Good(MaybeAddErrorListener(x))
  BY <1>2, <1>7, CloseGood, ListenerGood
<1> QED BY <1>1, <1>8, <1>9

LEMMA OnShutdownGood ==
    ASSUME NEW s, Sound(s)
    PROVE  Good(OnShutdown(s))
<1> DEFINE t == [s EXCEPT !.sWrite = FALSE]
<1>1. t \in StreamType
  BY DEF Sound, StreamType
<1> HIDE DEF t
<1>2. Sound(DoClose(t)) /\ Closed(DoClose(t))
  BY <1>1, DoCloseSound
<1> QED BY <1>2 DEF OnShutdown, t, Good, Served

\* readUntilClose on a closed stream
LEMMA ReadRestGood ==
    ASSUME NEW s, Sound(s)
    PROVE  Good(ReadRest(s))
<1> DEFINE p == RunCallback(s, "stream", s.streamCb, s.consumed, s.received)
           t == IF s.streamCb = 0 THEN s ELSE [p EXCEPT !.consumed = s.received]
           u == RunCallback(t, "read", t.readCb, t.consumed, t.received)
           r == [u EXCEPT !.consumed = t.received, !.readCb = 0, !.streamCb = 0]
<1>0. s.streamCb \in Nat /\ s.consumed \in Nat /\ s.received \in Nat
  BY DEF Sound, StreamType
<1>1. Sound(p)
  <2>1. "stream" \in Callbacks
    BY DEF Callbacks
  <2> QED BY <1>0, <2>1, RunCallbackSound
<1>2. ReadRest(s) = r
  BY DEF ReadRest
<1> HIDE DEF p
<1>3. Sound(t)
  <2>1. \A n \in Nat : Sound([p EXCEPT !.consumed = n])
    BY <1>1 DEF Sound, StreamType
  <2> QED BY <1>0, <1>1, <2>1
<1> HIDE DEF t
<1>4. t.readCb \in Nat /\ t.consumed \in Nat /\ t.received \in Nat /\ "read" \in Callbacks
  BY <1>3 DEF Sound, StreamType, Callbacks
<1>5. Sound(u)
  BY <1>3, <1>4, RunCallbackSound
<1> HIDE DEF u
<1>6. Sound(r) /\ r.readCb = 0
  BY <1>4, <1>5 DEF Sound, StreamType
<1> HIDE DEF r
<1> QED BY <1>2, <1>6 DEF Good, Served

-----------------------------------------------------------------------------
\* The inductive invariant and its steps

IInv ==
    /\ Good(stream)
    /\ running \in Runs \cup {Idle}
    /\ finished \in SUBSET Nat
    /\ handed \in Nat
    /\ closeSets \in Nat
    /\ closeRuns \in Nat

LEMMA InitInv == Init => IInv
<1> SUFFICES ASSUME Init PROVE IInv
  OBVIOUS
<1> DEFINE q == <<>>
<1>1. q \in Seq(Handlers) /\ q \in Seq(Live) /\ q \in Seq(Nat) /\ {} \in SUBSET Operations
  BY EmptySequence
<1> HIDE DEF q
<1>2. Good(Fresh)
  BY <1>1 DEF Good, Sound, Served, StreamType, Fresh, Handlers, None, q
<1> QED BY <1>2 DEF Init, IInv

\* What a read call sets, before the read is tried.
LEMMA ReadingSound ==
    ASSUME Sound(stream), NEW id \in Nat
    PROVE  /\ Sound(Reading(id))
           /\ \A n \in Nat, c \in Nat :
                Sound([Reading(id) EXCEPT !.readBytes = n, !.streamCb = c])
           /\ \A c \in Nat : Sound([Reading(id) EXCEPT !.streamCb = c])
           /\ \A m \in Marks : Sound([Reading(id) EXCEPT !.marks = @ \cup {m}])
<1> DEFINE s == Reading(id)
<1>1. Sound(s)
  BY DEF Reading, Sound, StreamType
<1> HIDE DEF s
<1>2. \A n \in Nat, c \in Nat : Sound([s EXCEPT !.readBytes = n, !.streamCb = c])
  BY <1>1, ZenonT(30) DEF Sound, StreamType
<1>3. \A c \in Nat : Sound([s EXCEPT !.streamCb = c])
  BY <1>1 DEF Sound, StreamType
<1>4. \A m \in Marks : Sound([s EXCEPT !.marks = @ \cup {m}])
  <2> TAKE m \in Marks
  <2> DEFINE marks == s.marks \cup {m}
  <2>1. marks \in SUBSET Marks
    BY <1>1 DEF Sound, StreamType
  <2> HIDE DEF marks
  <2>2. Sound([s EXCEPT !.marks = marks])
    BY <1>1, <2>1 DEF Sound, StreamType
  <2> QED BY <2>2 DEF marks
<1> QED BY <1>1, <1>2, <1>3, <1>4 DEF s

LEMMA ApplicationInv ==
    ASSUME IInv, Application
    PROVE  IInv'
<1> USE DEF IInv
<1>0. Good(stream) /\ Sound(stream)
  BY DEF Good
<1>1. CASE Start
  <2>1. Good([stream EXCEPT !.opened = TRUE])
    BY <1>0 DEF Good, Sound, StreamType, Served, Serving, Closed
  <2>2. Good(stream')
    BY <1>1, <2>1, ListenerGood DEF Start
  <2> QED BY <1>1, <2>2 DEF Start, Calling
<1>2. CASE Connect
  <2>1. \A b \in BOOLEAN :
          Good([stream EXCEPT !.opened = TRUE, !.connecting = TRUE, !.connectCb = b])
    <3> TAKE b \in BOOLEAN
    <3> DEFINE r == [stream EXCEPT !.opened = TRUE, !.connecting = TRUE, !.connectCb = b]
    <3>1. Sound(r) /\ Core(r) = Core(stream)
      BY <1>0, ZenonT(30) DEF Sound, StreamType, Core
    <3> QED BY <1>0, <3>1, SameCore DEF Good
  <2>2. Good(stream')
    BY <1>2, <2>1, RealConnectGood DEF Connect
  <2> QED BY <1>2, <2>2 DEF Connect, Calling
<1>3. CASE ReadBytes
  <2>1. PICK n \in 0..MaxBytes, streaming \in BOOLEAN :
          stream' = TryInlineRead([Reading(stream.reads + 1) EXCEPT
                        !.readBytes = n,
                        !.streamCb = IF streaming THEN stream.reads + 1 ELSE 0])
    BY <1>3 DEF ReadBytes
  <2> DEFINE id == stream.reads + 1
             c == IF streaming THEN id ELSE 0
  <2>2. id \in Nat /\ c \in Nat /\ n \in Nat
    BY <1>0, BoundsAssumption DEF Sound, StreamType
  <2>3. Good(stream')
    <3> HIDE DEF c
    <3>1. stream' = TryInlineRead([Reading(id) EXCEPT !.readBytes = n, !.streamCb = c])
      BY <2>1 DEF c
    <3> HIDE DEF id
    <3>2. Sound([Reading(id) EXCEPT !.readBytes = n, !.streamCb = c])
      BY <1>0, <2>2, ReadingSound
    <3> QED BY <3>1, <3>2, TryInlineReadGood
  <2> QED BY <1>3, <2>3 DEF ReadBytes, ReadCall, Calling
<1>4. CASE ReadUntil
  <2>1. PICK m \in Marks :
          stream' = TryInlineRead([Reading(stream.reads + 1) EXCEPT !.marks = @ \cup {m}])
    BY <1>4 DEF ReadUntil
  <2> DEFINE id == stream.reads + 1
  <2>2. id \in Nat
    BY <1>0 DEF Sound, StreamType
  <2>3. Sound([Reading(id) EXCEPT !.marks = @ \cup {m}])
    BY <1>0, <2>2, ReadingSound
  <2>4. Good(stream')
    BY <2>1, <2>3, TryInlineReadGood
  <2> QED BY <1>4, <2>4 DEF ReadUntil, ReadCall, Calling
<1>5. CASE ReadUntilClose
  <2>1. PICK streaming \in BOOLEAN :
          LET s == [Reading(stream.reads + 1) EXCEPT
                       !.streamCb = IF streaming THEN stream.reads + 1 ELSE 0]
          IN  stream' = IF Closed(s) THEN ReadRest(s)
                        ELSE TryInlineRead([s EXCEPT !.untilClose = TRUE])
    BY <1>5 DEF ReadUntilClose
  <2> DEFINE id == stream.reads + 1
             c == IF streaming THEN id ELSE 0
             s == [Reading(id) EXCEPT !.streamCb = c]
  <2>2. id \in Nat /\ c \in Nat
    BY <1>0 DEF Sound, StreamType
  <2>3. Sound(s)
    <3> HIDE DEF id, c
    <3> QED BY <1>0, <2>2, ReadingSound
  <2>4. stream' \in {ReadRest(s), TryInlineRead([s EXCEPT !.untilClose = TRUE])}
    BY <2>1
  <2> HIDE DEF s
  <2>5. Sound([s EXCEPT !.untilClose = TRUE])
    BY <2>3 DEF Sound, StreamType
  <2>6. Good(stream')
    BY <2>3, <2>4, <2>5, ReadRestGood, TryInlineReadGood
  <2> QED BY <1>5, <2>6 DEF ReadUntilClose, ReadCall, Calling
<1>6. CASE Write
  <2>1. PICK len \in 0..MaxLength, callback \in BOOLEAN :
          LET id == stream.writes + 1
              s == Enqueue([stream EXCEPT !.writes = id], len, IF callback THEN id ELSE 0)
          IN  \E o \in Outcomes(s) : stream' = Flush(s, o)
    BY <1>6 DEF Write
  <2> DEFINE id == stream.writes + 1
             b == [stream EXCEPT !.writes = id]
             cb == IF callback THEN id ELSE 0
             s == Enqueue(b, len, cb)
  <2>2. id \in Nat /\ cb \in Nat /\ len \in Nat
    BY <1>0, BoundsAssumption DEF Sound, StreamType
  <2>3. PICK o \in Outcomes(s) : stream' = Flush(s, o)
    BY <2>1
  <2> HIDE DEF id, cb
  <2>4. Good(b)
    BY <1>0, <2>2 DEF Good, Sound, StreamType, Served, Serving, Closed
  <2> HIDE DEF b
  <2>5. Good(s)
    BY <2>2, <2>4, EnqueueGood
  <2> HIDE DEF s
  <2>6. o \in Outcome
    BY <2>3, <2>5, OutcomesTyped DEF Good, Sound
  <2>7. Good(stream')
    BY <2>3, <2>5, <2>6, FlushGood
  <2> QED BY <1>6, <2>7 DEF Write, Calling
<1>7. CASE SetCloseCallback
  <2>1. Good([stream EXCEPT !.closeCb = TRUE])
    BY <1>0 DEF Good, Sound, StreamType, Served, Serving, Closed
  <2> QED BY <1>7, <2>1 DEF SetCloseCallback, Calling
<1>8. CASE ResetCloseCallback
  <2>1. Good([stream EXCEPT !.closeCb = FALSE])
    BY <1>0, ZenonT(30) DEF Good, Sound, StreamType, Served, Serving, Closed
  <2> QED BY <1>8, <2>1 DEF ResetCloseCallback, Calling
<1>9. CASE CloseCall
  <2>1. Good(stream')
    BY <1>0, <1>9, CloseGood DEF CloseCall
  <2> QED BY <1>9, <2>1 DEF CloseCall, Calling
<1> QED BY <1>1, <1>2, <1>3, <1>4, <1>5, <1>6, <1>7, <1>8, <1>9 DEF Application

LEMMA CompleteInv ==
    ASSUME IInv, NEW op \in Operations, Complete(op)
    PROVE  IInv'
<1> USE DEF IInv
<1>1. Sound(stream) /\ Served(stream)
  BY DEF Good
<1>2. PICK res \in Results \ {"aborted"}, n \in 0..MaxBytes + MaxLength * MaxWrites :
        stream' = [stream EXCEPT !.kernel = @ \ {op},
                       !.queue = Append(@, [op |-> op, res |-> res, n |-> n])]
  BY DEF Complete
<1> DEFINE h == [op |-> op, res |-> res, n |-> n]
           q == Append(stream.queue, h)
           k == stream.kernel \ {op}
<1>3. h \in Live
  <2>1. n \in Nat
    BY BoundsAssumption
  <2> QED BY <1>2, <2>1 DEF Live, Completions
<1> HIDE DEF h
<1>4. q \in Seq(Handlers) /\ (~stream.closed => q \in Seq(Live)) /\ k \in SUBSET Operations
  BY <1>1, <1>3, LiveIsHandler DEF Sound, StreamType, Handlers
<1> HIDE DEF q, k
<1>5. LET r == [stream EXCEPT !.kernel = k, !.queue = q] IN Sound(r) /\ Core(r) = Core(stream)
  BY <1>1, <1>4 DEF Sound, StreamType, Handlers, Core
<1>6. stream' = [stream EXCEPT !.kernel = k, !.queue = q]
  BY <1>2 DEF k, q, h
<1>7. Good(stream')
  BY <1>1, <1>5, <1>6, SameCore DEF Good
<1> QED BY <1>7 DEF Complete

\* The handler at the head of the queue, and the stream without it.
LEMMA TakenGood ==
    ASSUME IInv, stream.queue # <<>>
    PROVE  /\ Good(Taken) /\ Taken.closed = stream.closed
           /\ NextHandler \in Handlers /\ (~stream.closed => NextHandler \in Live)
<1>1. Sound(stream) /\ Served(stream)
  BY DEF IInv, Good
<1> DEFINE q == Tail(stream.queue)
<1>2. q \in Seq(Handlers) /\ (~stream.closed => q \in Seq(Live))
  BY <1>1 DEF Sound, StreamType, Handlers
<1> HIDE DEF q
<1>3. LET r == [stream EXCEPT !.queue = q]
      IN  Sound(r) /\ Core(r) = Core(stream) /\ r.closed = stream.closed
  BY <1>1, <1>2 DEF Sound, StreamType, Handlers, Core
<1>4. Good(Taken) /\ Taken.closed = stream.closed
  BY <1>1, <1>3, SameCore DEF Good, Taken, q
<1>5. NextHandler \in Handlers /\ (~stream.closed => NextHandler \in Live)
  BY <1>1 DEF Sound, StreamType, Handlers, NextHandler
<1> QED BY <1>4, <1>5

LEMMA HandlerKinds ==
    ASSUME NEW h \in Handlers
    PROVE  /\ IsRun(h) => h \in Runs
           /\ ~IsRun(h) => h \in Completions
           /\ h \in Live /\ ~IsRun(h) => h.res # "aborted"
<1>1. \A c \in Completions : ~IsRun(c)
  BY DEF Completions, IsRun
<1>2. \A r \in Runs : IsRun(r)
  BY DEF Runs, IsRun
<1> QED BY <1>1, <1>2 DEF Handlers, Live

LEMMA HandleCompletionInv ==
    ASSUME IInv, HandleCompletion
    PROVE  IInv'
<1> DEFINE s == Taken
           h == NextHandler
<1>1. /\ Good(s) /\ s.closed = stream.closed
      /\ h \in Handlers /\ (~stream.closed => h \in Live)
  BY TakenGood DEF HandleCompletion, Dispatches
<1>2. /\ h.op \in Operations /\ h.res \in Results /\ h.n \in Nat
      /\ h.res = "aborted" => s.closed
  BY <1>1, HandlerKinds DEF HandleCompletion, Completions
<1>3. /\ h.op = "read"      => stream' = OnRead(s, h.res, h.n)
      /\ h.op = "connect"   => \E o \in Outcomes(s) : stream' = OnConnect(s, h.res, o)
      /\ h.op = "handshake" => stream' = OnHandshake(s, h.res)
      /\ h.op = "shutdown"  => stream' = OnShutdown(s)
      /\ h.op = "write"     =>
           \E o \in Outcomes(TakeFront(s, h.n)) : stream' = OnWrite(s, h.res, h.n, o)
  BY <1>2 DEF HandleCompletion, Operations
<1> HIDE DEF s, h
<1>4. Outcomes(s) \subseteq Outcome /\ Outcomes(TakeFront(s, h.n)) \subseteq Outcome
  <2>1. Good(TakeFront(s, h.n))
    BY <1>1, <1>2, TakeFrontGood
  <2> QED BY <1>1, <2>1, OutcomesTyped DEF Good, Sound
<1>5. Good(stream')
  <2>1. CASE h.op = "read"
    BY <1>1, <1>2, <1>3, <2>1, OnReadGood DEF Good
  <2>2. CASE h.op = "connect"
    BY <1>1, <1>3, <1>4, <2>2, OnConnectGood
  <2>3. CASE h.op = "handshake"
    BY <1>1, <1>2, <1>3, <2>3, OnHandshakeGood
  <2>4. CASE h.op = "shutdown"
    BY <1>1, <1>3, <2>4, OnShutdownGood DEF Good
  <2>5. CASE h.op = "write"
    BY <1>1, <1>2, <1>3, <1>4, <2>5, OnWriteGood
  <2> QED BY <1>2, <2>1, <2>2, <2>3, <2>4, <2>5 DEF Operations
<1> QED BY <1>5 DEF IInv, HandleCompletion

LEMMA BeginCallbackInv ==
    ASSUME IInv, BeginCallback
    PROVE  IInv'
<1> DEFINE s == Taken
           h == NextHandler
           left == s.pending - 1
<1>1. Good(s) /\ h \in Handlers
  BY TakenGood DEF BeginCallback, Dispatches
<1>2. h \in Runs
  BY <1>1, HandlerKinds DEF BeginCallback
<1>3. left \in Int
  BY <1>1 DEF Good, Sound, StreamType
<1>4. stream' = [s EXCEPT !.pending = left]
  BY DEF BeginCallback
<1> HIDE DEF s, h, left
<1>5. LET r == [s EXCEPT !.pending = left] IN Sound(r) /\ Core(r) = Core(s)
  BY <1>1, <1>3 DEF Good, Sound, StreamType, Core
<1>6. Good(stream')
  BY <1>1, <1>4, <1>5, SameCore DEF Good
<1>7. /\ running' = h
      /\ finished' \in {finished, finished \cup {h.id}}
      /\ handed' \in {handed, h.hi}
      /\ closeRuns' \in {closeRuns, closeRuns + 1}
      /\ closeSets' = closeSets
  BY DEF BeginCallback, h
<1> QED BY <1>2, <1>6, <1>7 DEF IInv, Runs

LEMMA CallbackEndsInv ==
    ASSUME IInv, CallbackReturns \/ CallbackThrows
    PROVE  IInv'
<1>1. Good(stream) /\ Sound(stream)
  BY DEF IInv, Good
<1>2. Good(Close(stream))
  BY <1>1, CloseGood
<1>3. Good(MaybeAddErrorListener(stream)) /\ Good(MaybeAddErrorListener(Close(stream)))
  BY <1>1, <1>2, ListenerGood
<1>4. Good(stream')
  BY <1>2, <1>3 DEF CallbackReturns, CallbackThrows
<1> QED BY <1>4 DEF IInv, CallbackReturns, CallbackThrows

LEMMA StepInv ==
    ASSUME IInv, [Next]_vars
    PROVE  IInv'
<1>1. CASE Application
  BY <1>1, ApplicationInv
<1>2. ASSUME NEW op \in Operations, Complete(op)
      PROVE  IInv'
  BY <1>2, CompleteInv
<1>3. CASE HandleCompletion
  BY <1>3, HandleCompletionInv
<1>4. CASE BeginCallback
  BY <1>4, BeginCallbackInv
<1>5. CASE CallbackReturns \/ CallbackThrows
  BY <1>5, CallbackEndsInv
<1>6. CASE UNCHANGED vars
  BY <1>6 DEF vars, IInv
<1> QED BY <1>1, <1>2, <1>3, <1>4, <1>5, <1>6 DEF Next

\* The inductive invariant holds in every reachable state.
THEOREM Invariance == Spec => []IInv
BY InitInv, StepInv, PTL DEF Spec

-----------------------------------------------------------------------------
\* Theorems

\* Every member of the stream keeps its type, whatever the application, the
\* peer and the loop do.
THEOREM TypeCorrect == Spec => []TypeOK
<1>1. IInv => TypeOK
  BY DEF IInv, Good, Sound, TypeOK
<1> QED BY <1>1, Invariance, PTL

\* A read the application waits for on an open stream is always being served:
\* a read operation is outstanding (S_READ), or the SSL handshake at whose end
\* onHandshake starts one.
THEOREM ReadNeverForgotten == Spec => []NoForgottenRead
<1>1. IInv => NoForgottenRead
  BY DEF IInv, Good, Served, Serving, NoForgottenRead
<1> QED BY <1>1, Invariance, PTL
=============================================================================
