---------------------------- MODULE IOStreamOrder ----------------------------
(***************************************************************************)
(* What a stream of IOStream.tla owes the application, and in which order  *)
(* it pays: proofs of the invariants about the callbacks in the loop.      *)
(*                                                                         *)
(* Every helper of the source is a chain of moves: one posts the callback  *)
(* it takes from a member, another forgets members, another sends bytes,   *)
(* another starts or ends operations.  A set of streams that every move    *)
(* keeps (Kept) is kept by every helper, which is proved once, helper by   *)
(* helper.  The inductive invariant Owes is a conjunction of such sets; it *)
(* says what the posted callbacks, the members and the history of what has *)
(* run have to do with each other.  What is left is how the application    *)
(* sets members and how the loop takes the handler at the head.            *)
(*                                                                         *)
(* The last part shows that the stream implements Delivery.tla.            *)
(***************************************************************************)
EXTENDS IOStreamProofs, FiniteSetTheorems, FunctionTheorems, SequenceTheorems

-----------------------------------------------------------------------------
\* Moves: what one piece of a helper does to the members the application sees.

\* The results an operation can have: only a read overflows its buffer.
Ended == {c \in Completions : c.res = "overflow" => c.op = "read"}

Base(s) == Sound(s) /\ s.queue \in Seq(Runs \cup Ended)

\* How the read that is set may end.
Criteria(s) ==
    s.marks \cup (IF s.readBytes # None THEN {"bytes"} ELSE {})
            \cup (IF s.untilClose THEN {"close"} ELSE {})

\* What only the application's calls change, and with it the bytes received.
Called(s) == <<s.opened, s.reads, s.writes, s.written, s.writeEnd>>
Given(s) == <<s.opened, s.reads, s.writes, s.written, s.writeEnd, s.received>>

ReadSide(s) == <<s.readCb, s.streamCb, Criteria(s), s.consumed>>
WriteSide(s) == <<s.writeCb, s.wq, s.sent>>
CloseSide(s) == <<s.closeCb, s.closing, s.closed>>
Connects(s) == s.connectCb \/ s.sslConnectCb

\* Operations are started, end or are aborted; bytes arrive, and the stream may
\* close.
Waits(s, r) ==
    /\ Called(r) = Called(s) /\ s.received <= r.received
    /\ ReadSide(r) = ReadSide(s) /\ WriteSide(r) = WriteSide(s)
    /\ r.pending = s.pending /\ \E q \in Seq(Ended) : r.queue = s.queue \o q
    /\ r.closeCb = s.closeCb /\ (s.closed => r.closed) /\ (Closed(s) => Closed(r))
    /\ Connects(r) => Connects(s)

\* Callbacks are dropped; a read and the write queue only on a closed stream.
Forgets(s, r) ==
    /\ Given(r) = Given(s) /\ CloseSide(r) = CloseSide(s)
    /\ r.pending = s.pending /\ r.queue = s.queue
    /\ r.consumed = s.consumed /\ Criteria(r) = Criteria(s) /\ r.sent = s.sent
    /\ r.readCb \in {0, s.readCb} /\ r.streamCb \in {0, s.streamCb}
    /\ r.writeCb \in {0, s.writeCb}
    /\ r.readCb = s.readCb \/ Closed(s)
    /\ r.wq = s.wq \/ (Closed(s) /\ r.wq = <<>> /\ r.writeCb = 0)
    /\ Connects(r) => Connects(s)

Posts(s, r, run, id, lo, hi) ==
    /\ Given(r) = Given(s) /\ r.pending = s.pending + 1
    /\ r.queue = Append(s.queue, [run |-> run, id |-> id, lo |-> lo, hi |-> hi])

PostsConnect(s, r) ==
    /\ Connects(s) /\ Posts(s, r, "connect", 0, 0, 0)
    /\ ReadSide(r) = ReadSide(s) /\ WriteSide(r) = WriteSide(s) /\ CloseSide(r) = CloseSide(s)

\* A callback is given bytes that have been received.
Within(s, hi) == s.consumed <= s.received => s.consumed <= hi /\ hi <= s.received

PostsStream(s, r) ==
    /\ s.streamCb # 0
    /\ \E hi \in Nat : /\ Within(s, hi) /\ r.consumed = hi
                      /\ Posts(s, r, "stream", s.streamCb, s.consumed, hi)
    /\ r.readCb = s.readCb /\ r.streamCb = s.streamCb /\ Criteria(r) = Criteria(s)
    /\ WriteSide(r) = WriteSide(s) /\ CloseSide(r) = CloseSide(s) /\ Connects(r) = Connects(s)

PostsRead(s, r) ==
    /\ \E hi \in Nat :
         /\ Within(s, hi)
         /\ Posts(s, r, IF s.readCb = 0 THEN "lostRead" ELSE "read", s.readCb, s.consumed, hi)
         /\ r.consumed = hi
    /\ r.readCb = 0 /\ r.streamCb \in {0, s.streamCb}
    /\ \/ \E c \in Criteria(s) : Criteria(r) = Criteria(s) \ {c}
       \/ s.readCb # 0 /\ Closed(s) /\ Criteria(r) = Criteria(s)
    /\ WriteSide(r) = WriteSide(s) /\ CloseSide(r) = CloseSide(s) /\ Connects(r) = Connects(s)

PostsWrite(s, r) ==
    /\ s.wq = <<>> /\ (s.writeCb = 0 => ~Closed(s))
    /\ Posts(s, r, IF s.writeCb = 0 THEN "noWrite" ELSE "write", s.writeCb, 0, s.writeEnd)
    /\ r.writeCb = 0 /\ r.wq = s.wq /\ r.sent = s.sent
    /\ ReadSide(r) = ReadSide(s) /\ CloseSide(r) = CloseSide(s) /\ Connects(r) = Connects(s)

PostsClose(s, r) ==
    /\ s.closeCb /\ s.closed /\ s.pending = 0
    /\ Posts(s, r, "close", s.reads, 0, 0)
    /\ r.readCb = 0 /\ r.streamCb = 0 /\ r.writeCb = 0 /\ ~r.closeCb /\ ~Connects(r)
    /\ r.wq = <<>> /\ r.sent = s.sent /\ r.consumed = s.consumed /\ Criteria(r) = Criteria(s)
    /\ r.closing = s.closing /\ r.closed = s.closed

\* Bytes of the write queue leave, or its packets are joined.
Sends(s, r) ==
    /\ s.wq # <<>>
    /\ \E k \in 0..Len(s.wq) : r.wq = SubSeq(s.wq, k + 1, Len(s.wq))
    /\ \/ r.sent = s.written
       \/ \E from \in {s.sent} \cup {s.wq[i] : i \in 1..Len(s.wq)} : r.sent >= from
    /\ r.wq = <<>> => r.sent \in {s.written, s.wq[Len(s.wq)]}
    /\ Given(r) = Given(s) /\ ReadSide(r) = ReadSide(s) /\ r.writeCb = s.writeCb
    /\ CloseSide(r) = CloseSide(s) /\ Connects(r) = Connects(s)
    /\ r.pending = s.pending /\ r.queue = s.queue

Move(s, r) ==
    \/ Waits(s, r) \/ Forgets(s, r) \/ Sends(s, r)
    \/ PostsConnect(s, r) \/ PostsStream(s, r) \/ PostsRead(s, r)
    \/ PostsWrite(s, r) \/ PostsClose(s, r)

\* A set of streams that no move leaves.
Kept(S) ==
    /\ \A s \in S : Base(s)
    /\ \A s \in S, r \in StreamType : Base(r) /\ Move(s, r) => r \in S

LEMMA KeptBy ==
    ASSUME NEW S, Kept(S), NEW s \in S, NEW r, Base(r), Move(s, r)
    PROVE  r \in S
BY DEF Kept, Base, Sound

LEMMA KeptBase ==
    ASSUME NEW S, Kept(S), NEW s \in S
    PROVE  Base(s) /\ Sound(s) /\ s \in StreamType
BY DEF Kept, Base, Sound

-----------------------------------------------------------------------------
\* Members of the stream that no move is about

\* Everything the moves are about.
View(s) ==
    <<Given(s), ReadSide(s), WriteSide(s), CloseSide(s), s.pending, s.queue, Connects(s)>>

LEMMA GivenWaits ==
    ASSUME NEW s \in StreamType, NEW r, Given(r) = Given(s)
    PROVE  Called(r) = Called(s) /\ s.received <= r.received
<1>1. r.received = s.received /\ s.received \in Nat
  BY DEF Given, StreamType
<1> QED BY <1>1 DEF Given, Called

LEMMA SameView ==
    ASSUME NEW S, Kept(S), NEW s \in S, NEW r \in StreamType, View(r) = View(s)
    PROVE  r \in S
<1>1. Base(s) /\ s \in StreamType
  BY KeptBase
<1>2. r.queue = s.queue /\ r.closed = s.closed
  BY DEF View, CloseSide
<1>3. Base(r)
  BY <1>1, <1>2 DEF Base, Sound
<1>4. <<>> \in Seq(Ended) /\ s.queue \o <<>> = s.queue
  BY <1>1, EmptySequence DEF Base
<1>5. Waits(s, r)
  BY <1>1, <1>2, <1>4, GivenWaits DEF Waits, View, CloseSide, Closed
<1> QED BY <1>3, <1>5, KeptBy DEF Move

LEMMA FlagsKept ==
    ASSUME NEW S, Kept(S), NEW s \in S, NEW b \in BOOLEAN
    PROVE  /\ [s EXCEPT !.sRead = b] \in S
           /\ [s EXCEPT !.sWrite = b] \in S
           /\ [s EXCEPT !.sslAccepting = b] \in S
           /\ [s EXCEPT !.sslAccepted = b] \in S
           /\ [s EXCEPT !.connecting = b] \in S
           /\ [s EXCEPT !.undefined = b] \in S
<1>1. s \in StreamType
  BY KeptBase
<1>2. ASSUME NEW f \in {"sRead", "sWrite", "sslAccepting", "sslAccepted", "connecting", "undefined"},
             NEW r, r = [s EXCEPT ![f] = b]
      PROVE  r \in StreamType /\ View(r) = View(s)
  BY <1>1, <1>2, ZenonT(30)
     DEF StreamType, View, Given, ReadSide, Criteria, WriteSide, CloseSide, Connects
<1>3. LET r == [s EXCEPT !.sRead = b] IN r \in StreamType /\ View(r) = View(s)
  BY <1>1, ZenonT(30) DEF StreamType, View, Given, ReadSide, Criteria, WriteSide, CloseSide, Connects
<1> QED BY <1>2, SameView

-----------------------------------------------------------------------------
\* Callbacks

\* The other members of a stream whose callback was posted.
Others(s) == <<ReadSide(s), WriteSide(s), CloseSide(s), Connects(s)>>

LEMMA RunCallbackPosts ==
    ASSUME NEW s, Base(s), NEW cb \in Callbacks, NEW id \in Nat, NEW lo \in Nat, NEW hi \in Nat
    PROVE  LET r == RunCallback(s, cb, id, lo, hi)
           IN  Base(r) /\ Posts(s, r, cb, id, lo, hi) /\ Others(r) = Others(s)
<1> DEFINE h == [run |-> cb, id |-> id, lo |-> lo, hi |-> hi]
           r == RunCallback(s, cb, id, lo, hi)
<1>1. h \in Runs
  BY DEF Runs
<1>2. r = [s EXCEPT !.pending = @ + 1, !.queue = Append(@, h)]
  BY DEF RunCallback
<1>3. Sound(r)
  BY RunCallbackSound DEF Base
<1> HIDE DEF h
<1>4. r.queue = Append(s.queue, h) /\ r.pending = s.pending + 1
  BY <1>2 DEF Base, Sound, StreamType
<1>5. r.queue \in Seq(Runs \cup Ended)
  BY <1>1, <1>4 DEF Base
<1>6. Given(r) = Given(s) /\ Others(r) = Others(s)
  BY <1>2 DEF Base, Sound, StreamType, Given, Others, ReadSide, Criteria, WriteSide, CloseSide,
              Connects
<1> QED BY <1>3, <1>4, <1>5, <1>6 DEF Base, Posts, h

LEMMA ForgetsKept ==
    ASSUME NEW S, Kept(S), NEW s \in S, NEW r \in StreamType, Forgets(s, r)
    PROVE  r \in S
<1>1. Base(s)
  BY KeptBase
<1>2. r.queue = s.queue /\ r.closed = s.closed
  BY DEF Forgets, CloseSide
<1>3. Base(r)
  BY <1>1, <1>2 DEF Base, Sound
<1> QED BY <1>3, KeptBy DEF Move

LEMMA ClearCallbacksKept ==
    ASSUME NEW S, Kept(S), NEW s \in S, Closed(s), ~s.closeCb
    PROVE  ClearCallbacks(s) \in S
<1> DEFINE r == ClearCallbacks(s)
<1>1. s \in StreamType
  BY KeptBase
<1>2. r \in StreamType
  BY <1>1 DEF StreamType, ClearCallbacks
<1>3. /\ Given(r) = Given(s) /\ r.closing = s.closing /\ r.closed = s.closed
      /\ r.pending = s.pending /\ r.queue = s.queue /\ r.wq = s.wq
      /\ r.consumed = s.consumed /\ Criteria(r) = Criteria(s) /\ r.sent = s.sent
  BY <1>1 DEF StreamType, ClearCallbacks, Given, Criteria
<1>4. r.readCb = 0 /\ r.streamCb = 0 /\ r.writeCb = 0 /\ ~r.closeCb /\ ~Connects(r)
  BY <1>1 DEF StreamType, ClearCallbacks, Connects
<1>5. r.closeCb = s.closeCb
  BY <1>1, <1>2, <1>4 DEF StreamType
<1> HIDE DEF r
<1>6. Forgets(s, r)
  BY <1>3, <1>4, <1>5 DEF Forgets, CloseSide
<1> QED BY <1>2, <1>6, ForgetsKept DEF r

LEMMA MaybeRunCloseCallbackKept ==
    ASSUME NEW S, Kept(S), NEW s \in S, Closed(s)
    PROVE  MaybeRunCloseCallback(s) \in S
<1>1. Base(s) /\ s \in StreamType
  BY KeptBase
<1>2. CASE s.closeCb /\ s.closed /\ s.pending = 0
  <2> DEFINE p == RunCallback(s, "close", s.reads, 0, 0)
             r == [ClearCallbacks(p) EXCEPT !.wq = <<>>]
  <2>1. Base(p) /\ Posts(s, p, "close", s.reads, 0, 0) /\ Others(p) = Others(s)
    <3>1. s.reads \in Nat /\ "close" \in Callbacks
      BY <1>1 DEF StreamType, Callbacks
    <3> QED BY <1>1, <3>1, RunCallbackPosts
  <2>2. MaybeRunCloseCallback(s) = r
    BY <1>2 DEF MaybeRunCloseCallback
  <2> HIDE DEF p
  <2>3. \A w \in Seq(Nat) : [ClearCallbacks(p) EXCEPT !.wq = w] \in StreamType
    BY <2>1, ZenonT(30) DEF Base, Sound, StreamType, ClearCallbacks
  <2>4. r \in StreamType
    BY <2>3, EmptySequence
  <2>5. r.queue = p.queue /\ r.closed = p.closed
    BY <2>1 DEF Base, Sound, StreamType, ClearCallbacks
  <2>6. Base(r)
    BY <2>1, <2>4, <2>5 DEF Base, Sound
  <2>7. /\ r.readCb = 0 /\ r.streamCb = 0 /\ r.writeCb = 0 /\ ~r.closeCb /\ ~Connects(r)
        /\ r.wq = <<>> /\ r.sent = p.sent /\ r.consumed = p.consumed /\ Criteria(r) = Criteria(p)
        /\ r.closing = p.closing /\ r.closed = p.closed /\ Given(r) = Given(p)
        /\ r.pending = p.pending
    BY <2>1 DEF Base, Sound, StreamType, ClearCallbacks, Connects, Criteria, Given
  <2>8. PostsClose(s, r)
    BY <1>2, <2>1, <2>5, <2>7
       DEF PostsClose, Posts, Others, ReadSide, WriteSide, CloseSide
  <2> QED BY <2>2, <2>6, <2>8, KeptBy DEF Move
<1>3. CASE s.closeCb /\ ~(s.closed /\ s.pending = 0)
  <2>1. \A w \in Seq(Nat) : w = <<>> =>
          LET r == [s EXCEPT !.readCb = 0, !.writeCb = 0, !.wq = w]
          IN  r \in StreamType /\ Forgets(s, r)
    BY <1>1 DEF StreamType, Forgets, Given, CloseSide, Criteria, Connects
  <2>2. MaybeRunCloseCallback(s) = [s EXCEPT !.readCb = 0, !.writeCb = 0, !.wq = <<>>]
    BY <1>3 DEF MaybeRunCloseCallback
  <2> QED BY <2>1, <2>2, EmptySequence, ForgetsKept
<1>4. CASE ~s.closeCb
  BY <1>4, ClearCallbacksKept DEF MaybeRunCloseCallback
<1> QED BY <1>2, <1>3, <1>4

-----------------------------------------------------------------------------
\* Operations

LEMMA AppendEnded ==
    ASSUME NEW s, Base(s), NEW c \in Ended
    PROVE  Append(s.queue, c) = s.queue \o <<c>> /\ <<c>> \in Seq(Ended)
BY DEF Base

LEMMA ArmKept ==
    ASSUME NEW S, Kept(S), NEW s \in S, NEW op \in Operations
    PROVE  Arm(s, op) \in S
<1>1. Base(s) /\ s \in StreamType
  BY KeptBase
<1>2. CASE s.closed
  <2> DEFINE c == [op |-> op, res |-> "error", n |-> 0]
             r == [s EXCEPT !.queue = Append(@, c)]
             q == Append(s.queue, c)
  <2>1. c \in Ended
    BY DEF Ended, Completions, Results
  <2>2. Sound(r)
    BY <1>1, <1>2, ArmSound DEF Base, Arm
  <2> HIDE DEF c
  <2>3. q = s.queue \o <<c>> /\ <<c>> \in Seq(Ended) /\ q \in Seq(Runs \cup Ended)
    BY <1>1, <2>1, AppendEnded DEF Base
  <2> HIDE DEF q
  <2>4. r = [s EXCEPT !.queue = q]
    BY DEF q
  <2> HIDE DEF r
  <2>5. /\ Given(r) = Given(s) /\ ReadSide(r) = ReadSide(s) /\ WriteSide(r) = WriteSide(s)
        /\ r.pending = s.pending /\ r.queue = q /\ r.closeCb = s.closeCb
        /\ r.closed = s.closed /\ r.closing = s.closing /\ Connects(r) = Connects(s)
    BY <1>1, <2>4 DEF StreamType, Given, ReadSide, Criteria, WriteSide, Connects
  <2>6. Base(r) /\ Waits(s, r)
    BY <1>1, <2>2, <2>3, <2>5, GivenWaits DEF Base, Waits, Closed
  <2> QED BY <1>2, <2>6, KeptBy DEF Move, Arm, r, c
<1>3. CASE ~s.closed
  <2>1. s.kernel \cup {op} \in SUBSET Operations
    BY <1>1 DEF StreamType
  <2>2. \A k \in SUBSET Operations :
          LET r == [s EXCEPT !.kernel = k] IN r \in StreamType /\ View(r) = View(s)
    BY <1>1 DEF StreamType, View, Given, ReadSide, Criteria, WriteSide, CloseSide, Connects
  <2> QED BY <1>3, <2>1, <2>2, SameView DEF Arm
<1> QED BY <1>2, <1>3

LEMMA ArmWriteKept ==
    ASSUME NEW S, Kept(S), NEW s \in S
    PROVE  ArmWrite(s) \in S
BY ArmKept, FlagsKept DEF ArmWrite, Operations

LEMMA DoHandshakeKept ==
    ASSUME NEW S, Kept(S), NEW s \in S
    PROVE  DoHandshake(s) \in S
<1> DEFINE t == Arm(s, "handshake")
           u == [t EXCEPT !.sslAccepting = TRUE]
<1>1. DoHandshake(s) \in {s, [u EXCEPT !.sWrite = TRUE]}
  BY DEF DoHandshake
<1>2. t \in S
  BY ArmKept DEF Operations
<1> HIDE DEF t
<1>3. u \in S
  BY <1>2, FlagsKept
<1> HIDE DEF u
<1>4. [u EXCEPT !.sWrite = TRUE] \in S
  BY <1>3, FlagsKept
<1> QED BY <1>1, <1>4

LEMMA DoReadKept ==
    ASSUME NEW S, Kept(S), NEW s \in S
    PROVE  DoRead(s) \in S
BY ArmKept, FlagsKept DEF DoRead, Operations

LEMMA ReadFromSocketKept ==
    ASSUME NEW S, Kept(S), NEW s \in S
    PROVE  ReadFromSocket(s) \in S
BY DoReadKept, DoHandshakeKept DEF ReadFromSocket

LEMMA ListenerKept ==
    ASSUME NEW S, Kept(S), NEW s \in S
    PROVE  MaybeAddErrorListener(s) \in S
BY MaybeRunCloseCallbackKept, ReadFromSocketKept DEF MaybeAddErrorListener

-----------------------------------------------------------------------------
\* Closing

\* The end of an operation that socket.close() finds in the reactor.
LEMMA AbortedKept ==
    ASSUME NEW S, Kept(S), NEW s \in S, s.closed, NEW op \in Operations, NEW k
    PROVE  [s EXCEPT !.queue = s.queue \o Aborted(k, op)] \in S
<1> DEFINE a == Aborted(k, op)
           q == s.queue \o a
           r == [s EXCEPT !.queue = q]
<1>1. Base(s) /\ s \in StreamType
  BY KeptBase
<1>2. a \in Seq(Ended)
  <2>1. [op |-> op, res |-> "aborted", n |-> 0] \in Ended
    BY DEF Ended, Completions, Results
  <2> QED BY <2>1, EmptySequence DEF Aborted
<1> HIDE DEF a
<1>3. q \in Seq(Runs \cup Ended) /\ q \in Seq(Runs \cup Completions)
  <2>1. a \in Seq(Runs \cup Ended) /\ a \in Seq(Runs \cup Completions)
    BY <1>2 DEF Ended
  <2> QED BY <1>1, <2>1 DEF Base, StreamType
<1>4. \E x \in Seq(Ended) : q = s.queue \o x
  BY <1>2
<1> HIDE DEF q
<1>5. /\ Given(r) = Given(s) /\ ReadSide(r) = ReadSide(s) /\ WriteSide(r) = WriteSide(s)
      /\ r.pending = s.pending /\ r.queue = q /\ r.closeCb = s.closeCb
      /\ r.closed = s.closed /\ r.closing = s.closing /\ Connects(r) = Connects(s)
      /\ r \in StreamType
  BY <1>1, <1>3 DEF StreamType, Given, ReadSide, Criteria, WriteSide, Connects
<1> HIDE DEF r
<1>6. Base(r) /\ Waits(s, r)
  BY <1>1, <1>3, <1>4, <1>5, GivenWaits DEF Base, Sound, Waits, Closed
<1>7. r \in S
  BY <1>6, KeptBy DEF Move
<1> QED BY <1>7 DEF r, q, a

LEMMA DoCloseKept ==
    ASSUME NEW S, Kept(S), NEW s \in S
    PROVE  DoClose(s) \in S
<1> DEFINE u == [s EXCEPT !.closing = FALSE, !.closed = TRUE]
           q0 == s.queue
           q1 == q0 \o Aborted(s, "read")
           q2 == q1 \o Aborted(s, "connect")
           q3 == q2 \o Aborted(s, "handshake")
           q4 == q3 \o Aborted(s, "write")
           q5 == q4 \o Aborted(s, "shutdown")
           U(q) == [u EXCEPT !.queue = q]
           r == [U(q5) EXCEPT !.kernel = {}]
<1>1. Base(s) /\ s \in StreamType
  BY KeptBase
<1>2. u \in S /\ u.closed /\ u = U(q0)
  <2>1. /\ Given(u) = Given(s) /\ ReadSide(u) = ReadSide(s) /\ WriteSide(u) = WriteSide(s)
        /\ u.pending = s.pending /\ u.queue = s.queue /\ u.closeCb = s.closeCb
        /\ u.closed /\ Connects(u) = Connects(s) /\ u \in StreamType /\ u = U(q0)
    BY <1>1, ZenonT(30) DEF StreamType, Given, ReadSide, Criteria, WriteSide, Connects
  <2> HIDE DEF u
  <2>2. <<>> \in Seq(Ended) /\ s.queue \o <<>> = s.queue
    BY <1>1, EmptySequence DEF Base
  <2>3. Base(u) /\ Waits(s, u)
    BY <1>1, <2>1, <2>2, GivenWaits DEF Base, Sound, Waits, Closed
  <2> QED BY <2>1, <2>3, KeptBy DEF Move
<1>3. \A q, x : U(q) \in S => [U(q) EXCEPT !.queue = x] = U(x)
               /\ U(q).queue = q /\ U(q).closed
  BY <1>1 DEF StreamType
<1> HIDE DEF U
<1>4. \A q : U(q) \in S => \A op \in Operations : U(q \o Aborted(s, op)) \in S
  <2> TAKE q
  <2> HAVE U(q) \in S
  <2> TAKE op \in Operations
  <2> DEFINE w == U(q)
             x == q \o Aborted(s, op)
  <2>1. w \in S /\ w.closed /\ w.queue = q /\ [w EXCEPT !.queue = x] = U(x)
    BY <1>3
  <2> HIDE DEF w
  <2>2. [w EXCEPT !.queue = w.queue \o Aborted(s, op)] \in S
    BY <2>1, AbortedKept
  <2> QED BY <2>1, <2>2
<1>5. U(q0) \in S
  BY <1>2
<1>6. U(q1) \in S
  BY <1>4, <1>5 DEF Operations
<1>7. U(q2) \in S
  BY <1>4, <1>6 DEF Operations
<1>8. U(q3) \in S
  BY <1>4, <1>7 DEF Operations
<1>9. U(q4) \in S
  BY <1>4, <1>8 DEF Operations
<1>10. U(q5) \in S
  BY <1>4, <1>9 DEF Operations
<1>11. r \in S
  <2> HIDE DEF q5
  <2> DEFINE w == U(q5)
  <2>1. w \in StreamType /\ w \in S
    BY <1>10, KeptBase
  <2> HIDE DEF w
  <2>2. LET x == [w EXCEPT !.kernel = {}] IN x \in StreamType /\ View(x) = View(w)
    BY <2>1 DEF StreamType, View, Given, ReadSide, Criteria, WriteSide, CloseSide, Connects
  <2> QED BY <2>1, <2>2, SameView DEF w
<1>12. r = [AbortOperations(s) EXCEPT !.closing = FALSE, !.closed = TRUE]
  <2>1. AbortOperations(s) = [s EXCEPT !.kernel = {}, !.queue = q5]
    BY DEF AbortOperations
  <2> HIDE DEF q5
  <2>2. r = [[s EXCEPT !.kernel = {}, !.queue = q5] EXCEPT !.closing = FALSE, !.closed = TRUE]
    BY <1>1 DEF U, StreamType
  <2> QED BY <2>1, <2>2
<1>13. r.closed
  BY <1>10, <1>3, KeptBase DEF StreamType
<1> HIDE DEF r
<1> QED BY <1>11, <1>12, <1>13, MaybeRunCloseCallbackKept DEF DoClose, OnClose, Closed

LEMMA CloseSocketKept ==
    ASSUME NEW S, Kept(S), NEW s \in S
    PROVE  CloseSocket(s) \in S
BY ArmKept, FlagsKept, DoCloseKept DEF CloseSocket, Operations
\* A move that posts the waiting read, or an empty callback in its place.
LEMMA FinishKept ==
    ASSUME NEW S, Kept(S), NEW s \in S, ~Closed(s), s.untilClose
    PROVE  LET cb == IF s.readCb = 0 THEN "lostRead" ELSE "read"
           IN  [RunCallback(s, cb, s.readCb, s.consumed, s.received)
                    EXCEPT !.consumed = s.received, !.readCb = 0, !.untilClose = FALSE] \in S
<1> DEFINE cb == IF s.readCb = 0 THEN "lostRead" ELSE "read"
           p == RunCallback(s, cb, s.readCb, s.consumed, s.received)
           r == [p EXCEPT !.consumed = s.received, !.readCb = 0, !.untilClose = FALSE]
<1>1. Base(s) /\ s \in StreamType
  BY KeptBase
<1>2. s.readCb \in Nat /\ s.consumed \in Nat /\ s.received \in Nat /\ cb \in Callbacks
  BY <1>1 DEF StreamType, Callbacks, Empty
<1>3. Base(p) /\ Posts(s, p, cb, s.readCb, s.consumed, s.received) /\ Others(p) = Others(s)
  <2> HIDE DEF cb
  <2> QED BY <1>1, <1>2, RunCallbackPosts
<1>4. p.untilClose = s.untilClose
  BY <1>1 DEF RunCallback, StreamType
<1> HIDE DEF p
<1>5. /\ r \in StreamType /\ Given(r) = Given(p) /\ r.pending = p.pending /\ r.queue = p.queue
      /\ r.closing = p.closing /\ r.closed = p.closed /\ r.closeCb = p.closeCb
      /\ r.consumed = s.received /\ r.readCb = 0 /\ r.streamCb = p.streamCb
      /\ Connects(r) = Connects(p) /\ WriteSide(r) = WriteSide(p)
      /\ Criteria(r) = Criteria(p) \ {"close"}
  BY <1>2, <1>3, ZenonT(30) DEF Base, Sound, StreamType, Given, Connects, WriteSide, Criteria, Marks
<1>6. "close" \in Criteria(s)
  BY DEF Criteria
<1> HIDE DEF r
<1>7. Base(r)
  BY <1>3, <1>5 DEF Base, Sound
<1>8. /\ Posts(s, r, cb, s.readCb, s.consumed, s.received)
      /\ r.streamCb = s.streamCb /\ Criteria(r) = Criteria(s) \ {"close"}
      /\ WriteSide(r) = WriteSide(s) /\ CloseSide(r) = CloseSide(s)
      /\ Connects(r) = Connects(s)
  BY <1>3, <1>5 DEF Posts, Others, ReadSide, CloseSide
<1>9. PostsRead(s, r)
  <2>1. Within(s, s.received)
    BY <1>2 DEF Within
  <2> QED BY <1>2, <1>5, <1>6, <1>8, <2>1 DEF PostsRead
<1>10. r \in S
  BY <1>7, <1>9, KeptBy DEF Move
<1> QED BY <1>10 DEF r, p, cb

\* Bytes of the buffer go to the streaming callback.
LEMMA PostStreamKept ==
    ASSUME NEW S, Kept(S), NEW s \in S, s.streamCb # 0,
           NEW end \in Nat, Within(s, end),
           NEW left \in Nat \cup {None}, left = None <=> s.readBytes = None
    PROVE  [RunCallback(s, "stream", s.streamCb, s.consumed, end)
                EXCEPT !.consumed = end, !.readBytes = left] \in S
<1> DEFINE p == RunCallback(s, "stream", s.streamCb, s.consumed, end)
           r == [p EXCEPT !.consumed = end, !.readBytes = left]
<1>1. Base(s) /\ s \in StreamType
  BY KeptBase
<1>2. s.streamCb \in Nat /\ s.consumed \in Nat /\ "stream" \in Callbacks
  BY <1>1 DEF StreamType, Callbacks
<1>3. Base(p) /\ Posts(s, p, "stream", s.streamCb, s.consumed, end) /\ Others(p) = Others(s)
  BY <1>1, <1>2, RunCallbackPosts
<1>4. p.readBytes = s.readBytes
  BY <1>1 DEF RunCallback, StreamType
<1> HIDE DEF p
<1>5. /\ r \in StreamType /\ Given(r) = Given(p) /\ r.pending = p.pending /\ r.queue = p.queue
      /\ r.closing = p.closing /\ r.closed = p.closed /\ r.closeCb = p.closeCb
      /\ r.consumed = end /\ r.readCb = p.readCb /\ r.streamCb = p.streamCb
      /\ Connects(r) = Connects(p) /\ WriteSide(r) = WriteSide(p)
      /\ Criteria(r) = Criteria(p)
  BY <1>3, <1>4, ZenonT(30) DEF Base, Sound, StreamType, Given, Connects, WriteSide, Criteria
<1> HIDE DEF r
<1>6. Base(r)
  BY <1>3, <1>5 DEF Base, Sound
<1>7. PostsStream(s, r)
  BY <1>3, <1>5 DEF PostsStream, Posts, Others, ReadSide, CloseSide
<1>8. r \in S
  BY <1>6, <1>7, KeptBy DEF Move
<1> QED BY <1>8 DEF r, p

LEMMA FinishUntilCloseKept ==
    ASSUME NEW S, Kept(S), NEW s \in S, ~Closed(s), s.untilClose
    PROVE  FinishUntilClose(s) \in S
<1> DEFINE streams == s.streamCb # 0 /\ Active(s) > 0
           p == RunCallback(s, "stream", s.streamCb, s.consumed, s.received)
           x == [p EXCEPT !.consumed = s.received, !.readBytes = s.readBytes]
           t == IF streams THEN x ELSE s
           cb == IF t.readCb = 0 THEN "lostRead" ELSE "read"
           r == [RunCallback(t, cb, t.readCb, t.consumed, t.received)
                    EXCEPT !.consumed = t.received, !.readCb = 0, !.untilClose = FALSE]
<1>1. s \in StreamType
  BY KeptBase
<1>2. x = [p EXCEPT !.consumed = s.received]
  BY <1>1 DEF RunCallback, StreamType
<1>3. x.closing = s.closing /\ x.closed = s.closed /\ x.untilClose = s.untilClose
  BY <1>1 DEF RunCallback, StreamType
<1>4. t \in S
  <2>1. s.received \in Nat /\ s.readBytes \in Nat \cup {None} /\ Within(s, s.received)
    BY <1>1 DEF StreamType, Within
  <2>2. CASE streams
    BY <2>1, <2>2, PostStreamKept
  <2> QED BY <2>2
<1>5. FinishUntilClose(s) = r
  BY <1>2 DEF FinishUntilClose
<1> HIDE DEF p, x
<1>6. ~Closed(t) /\ t.untilClose
  BY <1>3 DEF Closed
<1> HIDE DEF t
<1>7. r \in S
  BY <1>4, <1>6, FinishKept
<1> QED BY <1>5, <1>7

LEMMA CloseKept ==
    ASSUME NEW S, Kept(S), NEW s \in S
    PROVE  Close(s) \in S
<1>1. CASE Closed(s)
  BY <1>1 DEF Close
<1>2. CASE ~Closed(s)
  <2> DEFINE t == IF s.untilClose THEN FinishUntilClose(s) ELSE s
             u == [t EXCEPT !.closing = TRUE]
  <2>1. t \in S
    BY <1>2, FinishUntilCloseKept
  <2> HIDE DEF t
  <2>2. Base(t) /\ t \in StreamType
    BY <2>1, KeptBase
  <2>3. /\ Given(u) = Given(t) /\ ReadSide(u) = ReadSide(t) /\ WriteSide(u) = WriteSide(t)
        /\ u.pending = t.pending /\ u.queue = t.queue /\ u.closeCb = t.closeCb
        /\ u.closed = t.closed /\ u.closing /\ Connects(u) = Connects(t) /\ u \in StreamType
    BY <2>2 DEF StreamType, Given, ReadSide, Criteria, WriteSide, Connects
  <2> HIDE DEF u
  <2>4. <<>> \in Seq(Ended) /\ t.queue \o <<>> = t.queue
    BY <2>2, EmptySequence DEF Base
  <2>5. Base(u) /\ Waits(t, u)
    BY <2>2, <2>3, <2>4, GivenWaits DEF Base, Sound, Waits, Closed
  <2>6. u \in S
    BY <2>1, <2>5, KeptBy DEF Move
  <2> QED BY <1>2, <2>6, CloseSocketKept DEF Close, u, t
<1> QED BY <1>1, <1>2
-----------------------------------------------------------------------------
\* Reading

LEMMA ReceivedKept ==
    ASSUME NEW S, Kept(S), NEW s \in S, NEW n \in Nat, s.received <= n
    PROVE  [s EXCEPT !.received = n] \in S
<1> DEFINE r == [s EXCEPT !.received = n]
<1>1. Base(s) /\ s \in StreamType
  BY KeptBase
<1>2. /\ r \in StreamType /\ Called(r) = Called(s) /\ r.received = n
      /\ ReadSide(r) = ReadSide(s) /\ WriteSide(r) = WriteSide(s) /\ CloseSide(r) = CloseSide(s)
      /\ r.pending = s.pending /\ r.queue = s.queue /\ Connects(r) = Connects(s)
  BY <1>1 DEF StreamType, Called, ReadSide, Criteria, WriteSide, CloseSide, Connects
<1> HIDE DEF r
<1>3. <<>> \in Seq(Ended) /\ s.queue \o <<>> = s.queue
  BY <1>1, EmptySequence DEF Base
<1>4. Waits(s, r)
  BY <1>2, <1>3 DEF Waits, CloseSide, Closed
<1>5. Base(r)
  BY <1>1, <1>2 DEF Base, Sound, CloseSide
<1> QED BY <1>4, <1>5, KeptBy DEF Move, r

LEMMA StreamedKept ==
    ASSUME NEW S, Kept(S), NEW s \in S
    PROVE  Streamed(s) \in S
<1>1. CASE s.streamCb = 0 \/ Active(s) = 0
  BY <1>1 DEF Streamed
<1>2. CASE ~(s.streamCb = 0 \/ Active(s) = 0)
  <2> DEFINE n == IF s.readBytes # None /\ s.readBytes < Active(s)
                  THEN s.readBytes ELSE Active(s)
             end == s.consumed + n
             left == IF s.readBytes = None THEN None ELSE s.readBytes - n
             p == RunCallback(s, "stream", s.streamCb, s.consumed, end)
  <2>0. s \in StreamType
    BY KeptBase
  <2>1. end \in Nat /\ left \in Nat \cup {None} /\ (left = None <=> s.readBytes = None)
    <3>1. s.consumed \in Nat /\ s.received \in Nat /\ s.readBytes \in Nat \cup {None}
      BY <2>0 DEF StreamType
    <3>2. CASE s.readBytes # None /\ s.readBytes < Active(s)
      <4>1. n = s.readBytes /\ s.readBytes \in Nat
        BY <3>1, <3>2
      <4>2. end \in Nat /\ left = 0
        BY <3>1, <3>2, <4>1 DEF None
      <4> QED BY <3>1, <3>2, <4>2 DEF None
    <3>3. CASE ~(s.readBytes # None /\ s.readBytes < Active(s))
      <4>1. n = s.received - s.consumed
        BY <3>3 DEF Active
      <4>2. end \in Nat
        BY <3>1, <4>1
      <4>3. left \in Nat \cup {None} /\ (left = None <=> s.readBytes = None)
        BY <3>1, <3>3, <4>1 DEF Active, None
      <4> QED BY <3>1, <4>2, <4>3
    <3> QED BY <3>2, <3>3
  <2>6. Within(s, end)
    <3>1. s.consumed \in Nat /\ s.received \in Nat /\ s.readBytes \in Nat \cup {None}
      BY <2>0 DEF StreamType
    <3>2. CASE s.readBytes # None /\ s.readBytes < Active(s)
      BY <3>1, <3>2 DEF Within, Active
    <3>3. CASE ~(s.readBytes # None /\ s.readBytes < Active(s))
      BY <3>1, <3>3 DEF Within, Active
    <3> QED BY <3>2, <3>3
  <2>2. p.consumed = s.consumed /\ p.readBytes = s.readBytes
    BY <2>0 DEF RunCallback, StreamType
  <2>3. Streamed(s) = [p EXCEPT !.consumed = @ + n,
                                !.readBytes = IF @ = None THEN None ELSE @ - n]
    BY <1>2 DEF Streamed
  <2> HIDE DEF p
  <2>4. Streamed(s) = [p EXCEPT !.consumed = end, !.readBytes = left]
    BY <2>2, <2>3
  <2> HIDE DEF end, left
  <2>5. [p EXCEPT !.consumed = end, !.readBytes = left] \in S
    BY <1>2, <2>1, <2>6, PostStreamKept DEF p
  <2> QED BY <2>4, <2>5
<1> QED BY <1>1, <1>2

LEMMA DeliveredKept ==
    ASSUME NEW S, Kept(S), NEW s \in S, Ends(s) # {}
    PROVE  Delivered(s) \in S
<1> DEFINE end == Least(Ends(s))
           src == Source(s)
           cb == IF s.readCb = 0 THEN "lostRead" ELSE "read"
           p == RunCallback(s, cb, s.readCb, s.consumed, end)
           left == IF src = "bytes" THEN None ELSE p.readBytes
           marks == p.marks \ {src}
           r == [p EXCEPT !.consumed = end, !.readCb = 0, !.streamCb = 0,
                          !.readBytes = left, !.marks = marks]
<1>1. Base(s) /\ s \in StreamType
  BY KeptBase
<1>2. end \in Nat
  BY <1>1, EndsAreNat, LeastInSet
<1>15. Within(s, end)
  <2>0. s.consumed \in Nat /\ s.received \in Nat /\ end \in Ends(s) /\ Ends(s) \in SUBSET Nat
    BY <1>1, EndsAreNat, LeastInSet DEF StreamType
  <2>1. CASE Source(s) = "bytes"
    <3>1. s.readBytes \in Nat /\ s.received - s.consumed >= s.readBytes
      BY <1>1, <2>1 DEF Source, Active, StreamType
    <3>2. end = s.consumed + s.readBytes
      BY <2>0, <2>1 DEF Ends
    <3> QED BY <2>0, <3>1, <3>2 DEF Within
  <2>2. CASE Source(s) # "bytes"
    <3>1. end \in Matches(s, Source(s))
      BY <2>0, <2>2 DEF Ends
    <3>2. s.consumed < end /\ end <= s.received
      BY <3>1 DEF Matches
    <3> QED BY <1>2, <2>0, <3>2 DEF Within
  <2> QED BY <2>1, <2>2
<1>3. src \in Criteria(s) /\ src # "close"
  <2>1. CASE src = "bytes"
    BY <2>1 DEF Source, Criteria
  <2>2. CASE src # "bytes"
    <3>1. Matches(s, src) # {}
      BY <2>2 DEF Ends
    <3> QED BY <1>1, <3>1 DEF Matches, Criteria, StreamType, Marks
  <2> QED BY <2>1, <2>2
<1> HIDE DEF src, end
<1>4. s.readCb \in Nat /\ s.consumed \in Nat /\ cb \in Callbacks
  BY <1>1 DEF StreamType, Callbacks, Empty
<1>5. Base(p) /\ Posts(s, p, cb, s.readCb, s.consumed, end) /\ Others(p) = Others(s)
  <2> HIDE DEF cb
  <2> QED BY <1>1, <1>2, <1>4, RunCallbackPosts
<1>6. p.marks = s.marks /\ p.readBytes = s.readBytes /\ p.untilClose = s.untilClose
  BY <1>1 DEF RunCallback, StreamType
<1> HIDE DEF p
<1>7. left \in Nat \cup {None} /\ marks \in SUBSET Marks
  BY <1>5 DEF Base, Sound, StreamType
<1>8. (IF left # None THEN {"bytes"} ELSE {}) = (IF p.readBytes # None THEN {"bytes"} ELSE {}) \ {src}
  OBVIOUS
<1> HIDE DEF left, marks
<1>9. /\ r \in StreamType /\ Given(r) = Given(p) /\ r.pending = p.pending /\ r.queue = p.queue
      /\ r.closing = p.closing /\ r.closed = p.closed /\ r.closeCb = p.closeCb
      /\ r.consumed = end /\ r.readCb = 0 /\ r.streamCb = 0
      /\ Connects(r) = Connects(p) /\ WriteSide(r) = WriteSide(p)
      /\ r.marks = marks /\ r.readBytes = left /\ r.untilClose = p.untilClose
  BY <1>2, <1>5, <1>7 DEF Base, Sound, StreamType, Given, Connects, WriteSide
<1> HIDE DEF r
<1>10. Base(r)
  BY <1>5, <1>9 DEF Base, Sound
<1>11. Criteria(r) = Criteria(p) \ {src}
  BY <1>3, <1>8, <1>9 DEF Criteria, marks
<1>12. /\ Posts(s, r, cb, s.readCb, s.consumed, end)
       /\ Criteria(r) = Criteria(s) \ {src}
       /\ WriteSide(r) = WriteSide(s) /\ CloseSide(r) = CloseSide(s)
       /\ Connects(r) = Connects(s)
  BY <1>5, <1>9, <1>11 DEF Posts, Others, ReadSide, CloseSide
<1>13. PostsRead(s, r)
  BY <1>2, <1>3, <1>9, <1>12, <1>15 DEF PostsRead
<1>14. r \in S
  BY <1>10, <1>13, KeptBy DEF Move
<1> QED BY <1>14 DEF Delivered, r, p, cb, end, left, marks, src

LEMMA ReadFromBufferKept ==
    ASSUME NEW S, Kept(S), NEW s \in S
    PROVE  ReadFromBuffer(s) \in S
BY StreamedKept, DeliveredKept DEF ReadFromBuffer, Completes

LEMMA TryInlineReadKept ==
    ASSUME NEW S, Kept(S), NEW s \in S
    PROVE  TryInlineRead(s) \in S
BY ReadFromBufferKept, ReadFromSocketKept DEF TryInlineRead

LEMMA ReadRestKept ==
    ASSUME NEW S, Kept(S), NEW s \in S, Closed(s), s.readCb # 0
    PROVE  ReadRest(s) \in S
<1> DEFINE p == RunCallback(s, "stream", s.streamCb, s.consumed, s.received)
           x == [p EXCEPT !.consumed = s.received, !.readBytes = s.readBytes]
           t == IF s.streamCb = 0 THEN s ELSE x
           u == RunCallback(t, "read", t.readCb, t.consumed, t.received)
           r == [u EXCEPT !.consumed = t.received, !.readCb = 0, !.streamCb = 0]
<1>1. s \in StreamType
  BY KeptBase
<1>2. x = [p EXCEPT !.consumed = s.received]
  BY <1>1 DEF RunCallback, StreamType
<1>3. x.closing = s.closing /\ x.closed = s.closed /\ x.readCb = s.readCb
  BY <1>1 DEF RunCallback, StreamType
<1>4. t \in S
  <2>1. s.received \in Nat /\ s.readBytes \in Nat \cup {None} /\ Within(s, s.received)
    BY <1>1 DEF StreamType, Within
  <2>2. CASE s.streamCb # 0
    BY <2>1, <2>2, PostStreamKept
  <2> QED BY <2>2
<1>5. ReadRest(s) = r
  BY <1>2 DEF ReadRest
<1> HIDE DEF p, x
<1>6. Closed(t) /\ t.readCb # 0
  BY <1>3 DEF Closed
<1> HIDE DEF t
<1>7. Base(t) /\ t \in StreamType
  BY <1>4, KeptBase
<1>8. t.readCb \in Nat /\ t.consumed \in Nat /\ t.received \in Nat /\ "read" \in Callbacks
  BY <1>7 DEF StreamType, Callbacks
<1>9. Base(u) /\ Posts(t, u, "read", t.readCb, t.consumed, t.received) /\ Others(u) = Others(t)
  BY <1>7, <1>8, RunCallbackPosts
<1> HIDE DEF u
<1>10. /\ r \in StreamType /\ Given(r) = Given(u) /\ r.pending = u.pending /\ r.queue = u.queue
       /\ r.closing = u.closing /\ r.closed = u.closed /\ r.closeCb = u.closeCb
       /\ r.consumed = t.received /\ r.readCb = 0 /\ r.streamCb = 0
       /\ Connects(r) = Connects(u) /\ WriteSide(r) = WriteSide(u)
       /\ Criteria(r) = Criteria(u)
  BY <1>8, <1>9 DEF Base, Sound, StreamType, Given, Connects, WriteSide, Criteria
<1> HIDE DEF r
<1>11. Base(r)
  BY <1>9, <1>10 DEF Base, Sound
<1>12. /\ Posts(t, r, "read", t.readCb, t.consumed, t.received)
       /\ Criteria(r) = Criteria(t)
       /\ WriteSide(r) = WriteSide(t) /\ CloseSide(r) = CloseSide(t)
       /\ Connects(r) = Connects(t)
  BY <1>9, <1>10 DEF Posts, Others, ReadSide, CloseSide
<1>13. PostsRead(t, r)
  <2>1. Within(t, t.received)
    BY <1>8 DEF Within
  <2> QED BY <1>6, <1>8, <1>10, <1>12, <2>1 DEF PostsRead
<1> QED BY <1>4, <1>5, <1>11, <1>13, KeptBy DEF Move

\* A read is aborted only by closing the stream.
LEMMA OnReadKept ==
    ASSUME NEW S, Kept(S), NEW s \in S, NEW res, NEW n \in Nat, res = "aborted" => s.closed
    PROVE  OnRead(s, res, n) \in S
<1> DEFINE t == [s EXCEPT !.sRead = FALSE]
           u == [t EXCEPT !.received = @ + n]
           v == ReadFromBuffer(u)
<1>1. s \in StreamType
  BY KeptBase
<1>2. t \in S
  BY FlagsKept
<1>3. t.closed = s.closed /\ t.received + n \in Nat /\ t.received <= t.received + n
  BY <1>1 DEF StreamType
<1> HIDE DEF t
<1>4. u \in S
  BY <1>2, <1>3, ReceivedKept
<1> HIDE DEF u
<1>5. v \in S
  BY <1>4, ReadFromBufferKept
<1> HIDE DEF v
<1>6. res = "aborted" => MaybeRunCloseCallback(t) \in S
  BY <1>2, <1>3, MaybeRunCloseCallbackKept DEF Closed
<1>7. Close(t) \in S /\ Close(u) \in S /\ ReadFromSocket(v) \in S /\ MaybeAddErrorListener(v) \in S
  BY <1>2, <1>4, <1>5, CloseKept, ReadFromSocketKept, ListenerKept
<1> QED BY <1>5, <1>6, <1>7 DEF OnRead, t, u, v
-----------------------------------------------------------------------------
\* Writing

\* A position at or behind one the socket has reached, or will have reached
\* when packets of the queue have left.
Reaches(s, n) == \E from \in {s.sent} \cup {s.wq[i] : i \in 1..Len(s.wq)} : n >= from

LEMMA ReachesOwn ==
    ASSUME NEW s \in StreamType, NEW n \in Nat
    PROVE  Reaches(s, s.sent) /\ Reaches(s, s.sent + n)
<1>1. s.sent \in Nat /\ s.sent \in {s.sent} \cup {s.wq[i] : i \in 1..Len(s.wq)}
  BY DEF StreamType
<1>2. s.sent >= s.sent /\ s.sent + n >= s.sent
  BY <1>1
<1> QED BY <1>1, <1>2 DEF Reaches

\* The last packets of a queue, and the last one.
LEMMA Suffixes ==
    ASSUME NEW w \in Seq(Nat), w # <<>>
    PROVE  /\ Len(w) \in Nat \ {0} /\ w[Len(w)] \in Nat
           /\ SubSeq(w, Len(w), Len(w)) = <<w[Len(w)]>>
           /\ SubSeq(w, 1, Len(w)) = w /\ SubSeq(w, 2, Len(w)) = Tail(w)
           /\ Tail(w) = <<>> => Len(w) = 1 /\ Head(w) = w[Len(w)]
           /\ SubSeq(w, Len(w) + 1, Len(w)) = <<>>
           /\ \A k \in 0..(Len(w) - 1) : SubSeq(w, k + 1, Len(w)) # <<>>
<1>1. Len(w) \in Nat \ {0} /\ w[Len(w)] \in Nat
  OBVIOUS
<1>2. SubSeq(w, Len(w), Len(w)) = <<w[Len(w)]>>
  <2> DEFINE n == Len(w)
             x == SubSeq(w, n, n)
             y == <<w[n]>>
  <2>1. n \in Int /\ n <= n /\ n - n + 1 = 1 /\ 1..1 = {1} /\ n + 1 - 1 = n
    BY <1>1
  <2>2. \A i \in n..n : w[i] \in Nat
    BY <1>1
  <2> HIDE DEF n
  <2>3. x \in Seq(Nat) /\ Len(x) = 1 /\ x[1] = w[n]
    BY <2>1, <2>2, SubSeqProperties
  <2>4. y \in Seq(Nat) /\ Len(y) = 1 /\ y[1] = w[n]
    BY <1>1 DEF n
  <2> HIDE DEF x, y
  <2>5. x = y
    BY <2>1, <2>3, <2>4, SeqEqual
  <2> QED BY <2>5 DEF x, y, n
<1>3. SubSeq(w, 1, Len(w)) = w
  BY SubSeqFull
<1>4. SubSeq(w, 2, Len(w)) = Tail(w)
  BY TailIsSubSeq
<1>5. ASSUME Tail(w) = <<>>
      PROVE  Len(w) = 1 /\ Head(w) = w[Len(w)]
  <2>1. Len(Tail(w)) = Len(w) - 1 /\ Len(Tail(w)) = 0
    BY <1>5, HeadTailProperties, EmptySeq
  <2> DEFINE n == Len(w)
             m == Len(Tail(w))
  <2>2. n \in Nat /\ m = n - 1 /\ m = 0
    BY <1>1, <2>1
  <2> HIDE DEF n, m
  <2>3. n = 1
    BY <2>2
  <2>4. Len(w) = 1
    BY <2>3 DEF n
  <2> QED BY <2>4
<1>6. SubSeq(w, Len(w) + 1, Len(w)) = <<>>
  BY <1>1, SubSeqEmpty
<1>7. ASSUME NEW k \in 0..(Len(w) - 1)
      PROVE  SubSeq(w, k + 1, Len(w)) # <<>>
  <2>1. \A i \in (k + 1)..Len(w) : w[i] \in Nat
    BY <1>1
  <2>2. k + 1 \in Int /\ Len(w) \in Int /\ k + 1 <= Len(w)
    BY <1>1
  <2>3. Len(SubSeq(w, k + 1, Len(w))) = Len(w) - (k + 1) + 1
    BY <2>1, <2>2, SubSeqProperties
  <2> DEFINE m == Len(SubSeq(w, k + 1, Len(w)))
             n == Len(w)
  <2>4. m = n - (k + 1) + 1 /\ n \in Nat /\ k \in Nat /\ k + 1 <= n
    BY <1>1, <2>2, <2>3
  <2> HIDE DEF m, n
  <2>5. m # 0
    BY <2>4
  <2> QED BY <2>5, EmptySeq DEF m
<1> QED BY <1>1, <1>2, <1>3, <1>4, <1>5, <1>6, <1>7

LEMMA SendsKept ==
    ASSUME NEW S, Kept(S), NEW s \in S, s.wq # <<>>,
           NEW k \in 0..Len(s.wq), NEW w, w = SubSeq(s.wq, k + 1, Len(s.wq)),
           NEW n \in Nat, n = s.written \/ Reaches(s, n),
           w = <<>> => n \in {s.written, s.wq[Len(s.wq)]}
    PROVE  [s EXCEPT !.wq = w, !.sent = n] \in S
<1> DEFINE r == [s EXCEPT !.wq = w, !.sent = n]
<1>1. Base(s) /\ s \in StreamType
  BY KeptBase
<1>2. w \in Seq(Nat)
  <2>1. s.wq \in Seq(Nat)
    BY <1>1 DEF StreamType
  <2>2. \A i \in (k + 1)..Len(s.wq) : s.wq[i] \in Nat
    BY <2>1
  <2> QED BY <2>1, <2>2
<1>3. /\ r \in StreamType /\ Given(r) = Given(s) /\ ReadSide(r) = ReadSide(s)
      /\ CloseSide(r) = CloseSide(s) /\ Connects(r) = Connects(s) /\ r.writeCb = s.writeCb
      /\ r.pending = s.pending /\ r.queue = s.queue /\ r.wq = w /\ r.sent = n
  BY <1>1, <1>2, ZenonT(30) DEF StreamType, Given, ReadSide, Criteria, CloseSide, Connects
<1> HIDE DEF r
<1>4. Base(r)
  BY <1>1, <1>3 DEF Base, Sound, CloseSide
<1>5. Sends(s, r)
  BY <1>3 DEF Sends, Reaches
<1>6. r \in S
  BY <1>4, <1>5, KeptBy DEF Move
<1> QED BY <1>6 DEF r

\* An operation that is not a read fails by itself or is aborted by a close.
LEMMA WriteFailedKept ==
    ASSUME NEW S, Kept(S), NEW s \in S, NEW res, res = "error" \/ s.closed
    PROVE  WriteFailed(s, res) \in S
<1> DEFINE t == [s EXCEPT !.sWrite = FALSE, !.writeCb = 0]
<1>1. s \in StreamType
  BY KeptBase
<1>2. t \in StreamType /\ Forgets(s, t) /\ t.closed = s.closed
  BY <1>1, ZenonT(30) DEF StreamType, Forgets, Given, CloseSide, Criteria, Connects
<1>3. t \in S
  BY <1>2, ForgetsKept
<1> HIDE DEF t
<1>4. Close(t) \in S /\ (t.closed => MaybeRunCloseCallback(t) \in S)
  BY <1>3, CloseKept, MaybeRunCloseCallbackKept DEF Closed
<1> QED BY <1>2, <1>4 DEF WriteFailed, t

\* An empty queue posts the write callback; on an open stream it may be empty.
LEMMA PostWriteKept ==
    ASSUME NEW S, Kept(S), NEW s \in S, s.wq = <<>>, s.writeCb = 0 => ~Closed(s)
    PROVE  LET cb == IF s.writeCb = 0 THEN "noWrite" ELSE "write"
           IN  [RunCallback(s, cb, s.writeCb, 0, s.writeEnd) EXCEPT !.writeCb = 0] \in S
<1> DEFINE cb == IF s.writeCb = 0 THEN "noWrite" ELSE "write"
           p == RunCallback(s, cb, s.writeCb, 0, s.writeEnd)
           r == [p EXCEPT !.writeCb = 0]
<1>1. Base(s) /\ s \in StreamType
  BY KeptBase
<1>2. s.writeCb \in Nat /\ s.writeEnd \in Nat /\ 0 \in Nat /\ cb \in Callbacks
  BY <1>1 DEF StreamType, Callbacks, Empty
<1>3. Base(p) /\ Posts(s, p, cb, s.writeCb, 0, s.writeEnd) /\ Others(p) = Others(s)
  <2> HIDE DEF cb
  <2> QED BY <1>1, <1>2, RunCallbackPosts
<1> HIDE DEF p
<1>4. /\ r \in StreamType /\ Given(r) = Given(p) /\ r.pending = p.pending /\ r.queue = p.queue
      /\ ReadSide(r) = ReadSide(p) /\ CloseSide(r) = CloseSide(p) /\ r.closed = p.closed
      /\ r.writeCb = 0 /\ r.wq = p.wq /\ r.sent = p.sent /\ Connects(r) = Connects(p)
  BY <1>3 DEF Base, Sound, StreamType, Given, Connects, ReadSide, CloseSide, Criteria
<1> HIDE DEF r
<1>5. Base(r)
  BY <1>3, <1>4 DEF Base, Sound
<1>6. PostsWrite(s, r)
  BY <1>3, <1>4 DEF PostsWrite, Posts, Others, WriteSide
<1>7. r \in S
  BY <1>5, <1>6, KeptBy DEF Move
<1> QED BY <1>7 DEF r, p, cb

LEMMA WriteDrainedKept ==
    ASSUME NEW S, Kept(S), NEW s \in S, s.wq = <<>>
    PROVE  WriteDrained(s) \in S
<1> DEFINE t == [s EXCEPT !.sWrite = FALSE]
<1>1. t \in S /\ t.wq = <<>>
  <2>1. s \in StreamType
    BY KeptBase
  <2> QED BY <2>1, FlagsKept DEF StreamType
<1>2. WriteDrained(s) = IF t.writeCb # 0
        THEN [RunCallback(t, "write", t.writeCb, 0, t.writeEnd) EXCEPT !.writeCb = 0]
        ELSE IF Closed(t) THEN t ELSE MaybeAddErrorListener(t)
  BY DEF WriteDrained
<1> HIDE DEF t
<1>3. t.writeCb # 0 =>
        [RunCallback(t, "write", t.writeCb, 0, t.writeEnd) EXCEPT !.writeCb = 0] \in S
  BY <1>1, PostWriteKept
<1> QED BY <1>1, <1>2, <1>3, ListenerKept

LEMMA DoWriteKept ==
    ASSUME NEW S, Kept(S), NEW s \in S, s.wq # <<>>
    PROVE  DoWrite(s) \in S
<1> DEFINE n == Len(s.wq)
           w == SubSeq(s.wq, n, n)
           t == [s EXCEPT !.wq = w]
<1>1. s \in StreamType /\ s.wq \in Seq(Nat)
  BY KeptBase, SMTT(30) DEF StreamType
<1>2. /\ w = <<s.wq[n]>> /\ n - 1 \in 0..Len(s.wq) /\ w = SubSeq(s.wq, (n - 1) + 1, Len(s.wq))
      /\ w # <<>>
  BY <1>1, Suffixes
<1>3. Reaches(s, s.sent) /\ s.sent \in Nat
  BY <1>1, ReachesOwn DEF StreamType
<1>4. DoWrite(s) = ArmWrite(t)
  BY <1>2 DEF DoWrite
<1>5. t = [s EXCEPT !.wq = w, !.sent = s.sent]
  BY <1>1 DEF StreamType
<1> HIDE DEF w
<1>6. t \in S
  BY <1>2, <1>3, <1>5, SendsKept
<1> HIDE DEF t
<1> QED BY <1>4, <1>6, ArmWriteKept

\* What an outcome of the socket can be.
LEMMA OutcomesAre ==
    ASSUME NEW s \in StreamType, NEW o \in Outcomes(s)
    PROVE  /\ o.kind \in {"all", "error", "zero", "block"}
           /\ o.kind = "block" =>
                /\ s.wq # <<>> /\ o.k \in 0..(Len(s.wq) - 1) /\ o.to \in Nat
                /\ Reaches(s, o.to)
<1> DEFINE From(k) == IF k = 0 THEN s.sent ELSE s.wq[k]
           At(kind) == [kind |-> kind, k |-> 0, to |-> s.sent]
           Blocks(k) == [kind : {"block"}, k : {k}, to : From(k)..(s.wq[k + 1] - 1)]
<1>1. s.sent \in Nat /\ s.wq \in Seq(Nat)
  BY DEF StreamType
<1>2. \/ o \in {At("all"), At("error"), At("zero")}
      \/ s.wq # <<>> /\ \E k \in 0..(Len(s.wq) - 1) : o \in Blocks(k)
  BY DEF Outcomes
<1>3. CASE o \in {At("all"), At("error"), At("zero")}
  BY <1>3
<1>4. ASSUME s.wq # <<>>, NEW k \in 0..(Len(s.wq) - 1), o \in Blocks(k)
      PROVE  o.kind = "block" /\ o.k = k /\ o.to \in Nat /\ Reaches(s, o.to)
  <2>1. From(k) \in {s.sent} \cup {s.wq[i] : i \in 1..Len(s.wq)} /\ From(k) \in Nat
    BY <1>1
  <2>2. s.wq[k + 1] \in Nat
    BY <1>1
  <2> HIDE DEF From
  <2>3. o.kind = "block" /\ o.k = k /\ o.to \in From(k)..(s.wq[k + 1] - 1)
    BY <1>4
  <2>4. o.to \in Nat /\ o.to >= From(k)
    BY <2>1, <2>2, <2>3
  <2> QED BY <2>1, <2>3, <2>4 DEF Reaches
<1> QED BY <1>2, <1>3, <1>4

LEMMA WriteToSocketKept ==
    ASSUME NEW S, Kept(S), NEW s \in S, s.wq # <<>>, NEW x \in StreamType,
           x.wq = s.wq, x.sent = s.sent, NEW o \in Outcomes(x)
    PROVE  WriteToSocket(s, o) \in S
<1>0. s \in StreamType /\ s.wq \in Seq(Nat) /\ s.written \in Nat
  <2>1. s \in StreamType
    BY KeptBase
  <2> QED BY <2>1 DEF StreamType
<1>1. CASE Secure
  BY <1>1, DoWriteKept, DoHandshakeKept DEF WriteToSocket
<1>2. CASE ~Secure
  <2> DEFINE w == SubSeq(s.wq, o.k + 1, Len(s.wq))
             none == SubSeq(s.wq, Len(s.wq) + 1, Len(s.wq))
             all == [s EXCEPT !.wq = none, !.sent = s.written]
             rest == [s EXCEPT !.wq = w, !.sent = o.to]
  <2>0. /\ o.kind \in {"all", "error", "zero", "block"}
        /\ o.kind = "block" =>
             o.k \in 0..(Len(s.wq) - 1) /\ o.to \in Nat /\ Reaches(s, o.to)
    BY OutcomesAre DEF Reaches
  <2>1. none = <<>> /\ Len(s.wq) \in 0..Len(s.wq)
    BY <1>0, Suffixes
  <2>2. CASE o.kind = "all"
    <3>1. WriteToSocket(s, o) = WriteDrained(all)
      BY <1>2, <2>1, <2>2 DEF WriteToSocket
    <3>2. all.wq = <<>>
      BY <1>0, <2>1 DEF StreamType
    <3>3. all \in S
      <4> HIDE DEF none
      <4> QED BY <1>0, <2>1, SendsKept DEF none
    <3> HIDE DEF all
    <3> QED BY <3>1, <3>2, <3>3, WriteDrainedKept
  <2>3. CASE o.kind = "error"
    BY <1>2, <2>3, WriteFailedKept DEF WriteToSocket
  <2>4. CASE o.kind = "zero"
    BY <1>2, <2>4, CloseKept DEF WriteToSocket
  <2>5. CASE o.kind = "block"
    <3>1. WriteToSocket(s, o) = ArmWrite(rest)
      BY <1>2, <2>5 DEF WriteToSocket
    <3>2. o.k \in 0..Len(s.wq) /\ o.k + 1 \in Nat /\ o.k + 1 <= Len(s.wq)
      BY <1>0, <2>0, <2>5
    <3>3. w # <<>>
      BY <1>0, <2>0, <2>5, Suffixes
    <3> HIDE DEF w
    <3>4. rest \in S
      BY <2>0, <2>5, <3>2, <3>3, SendsKept DEF w
    <3> HIDE DEF rest
    <3> QED BY <3>1, <3>4, ArmWriteKept
  <2> QED BY <2>0, <2>2, <2>3, <2>4, <2>5
<1> QED BY <1>1, <1>2

LEMMA TakeFrontKept ==
    ASSUME NEW S, Kept(S), NEW s \in S, NEW n \in Nat
    PROVE  TakeFront(s, n) \in S
<1>0. s \in StreamType /\ s.wq \in Seq(Nat) /\ s.sent \in Nat
  BY KeptBase DEF StreamType
<1>1. CASE s.wq = <<>>
  BY <1>1, FlagsKept DEF TakeFront
<1>2. CASE s.wq # <<>>
  <2> DEFINE w == IF s.sent + n = Head(s.wq) THEN Tail(s.wq) ELSE s.wq
             k == IF s.sent + n = Head(s.wq) THEN 1 ELSE 0
             to == s.sent + n
  <2>1. k \in 0..Len(s.wq) /\ w = SubSeq(s.wq, k + 1, Len(s.wq))
    <3>1. Len(s.wq) \in Nat \ {0}
      BY <1>0, <1>2, Suffixes
    <3>2. SubSeq(s.wq, 1, Len(s.wq)) = s.wq /\ SubSeq(s.wq, 2, Len(s.wq)) = Tail(s.wq)
      BY <1>0, <1>2, Suffixes
    <3>3. CASE s.sent + n = Head(s.wq)
      <4>1. k = 1 /\ w = Tail(s.wq) /\ 1 + 1 = 2
        BY <3>3
      <4> HIDE DEF k, w
      <4> QED BY <3>1, <3>2, <4>1
    <3>4. CASE s.sent + n # Head(s.wq)
      <4>1. k = 0 /\ w = s.wq /\ 0 + 1 = 1
        BY <3>4
      <4> HIDE DEF k, w
      <4> QED BY <3>1, <3>2, <4>1
    <3> QED BY <3>3, <3>4
  <2>2. to \in Nat /\ Reaches(s, to)
    BY <1>0, ReachesOwn
  <2>3. w = <<>> => to = s.wq[Len(s.wq)]
    <3> SUFFICES ASSUME w = <<>> PROVE to = s.wq[Len(s.wq)]
      OBVIOUS
    <3>1. s.sent + n = Head(s.wq) /\ Tail(s.wq) = <<>>
      BY <1>2
    <3> QED BY <1>0, <1>2, <3>1, Suffixes
  <2>4. TakeFront(s, n) = [s EXCEPT !.wq = w, !.sent = to]
    BY <1>0, <1>2 DEF TakeFront, StreamType
  <2> HIDE DEF w, to, k
  <2>5. [s EXCEPT !.wq = w, !.sent = to] \in S
    BY <1>2, <2>1, <2>2, <2>3, SendsKept
  <2> QED BY <2>4, <2>5
<1> QED BY <1>1, <1>2

LEMMA OnWriteKept ==
    ASSUME NEW S, Kept(S), NEW s \in S, NEW res, res \in {"ok", "error"} \/ s.closed,
           NEW n \in Nat, NEW o \in Outcomes(TakeFront(s, n))
    PROVE  OnWrite(s, res, n, o) \in S
<1> DEFINE c == [s EXCEPT !.sWrite = FALSE]
           t == TakeFront(c, n)
           x == TakeFront(s, n)
<1>0. s \in StreamType
  BY KeptBase
<1>1. c \in S
  BY FlagsKept
<1>2. OnWrite(s, res, n, o) =
        IF res # "ok" THEN WriteFailed(s, res) ELSE IF t.wq = <<>> THEN WriteDrained(t)
        ELSE IF Closed(t) THEN t ELSE WriteToSocket(t, o)
  BY DEF OnWrite
<1>3. t.wq = x.wq /\ t.sent = x.sent
  BY <1>0 DEF TakeFront, StreamType
<1> HIDE DEF c
<1>4. t \in S /\ x \in S /\ x \in StreamType
  BY <1>1, TakeFrontKept, KeptBase
<1> HIDE DEF t
<1>5. o \in Outcomes(x)
  OBVIOUS
<1> HIDE DEF x
<1>6. t.wq # <<>> => WriteToSocket(t, o) \in S
  BY <1>3, <1>4, <1>5, WriteToSocketKept
<1>7. t.wq = <<>> => WriteDrained(t) \in S
  BY <1>4, WriteDrainedKept
<1>8. res # "ok" => WriteFailed(s, res) \in S
  BY WriteFailedKept
<1> QED BY <1>2, <1>4, <1>6, <1>7, <1>8

LEMMA FlushKept ==
    ASSUME NEW S, Kept(S), NEW s \in S, ~Closed(s), NEW o \in Outcomes(s)
    PROVE  Flush(s, o) \in S
<1> DEFINE cb == IF s.writeCb = 0 THEN "noWrite" ELSE "write"
           r == [RunCallback(s, cb, s.writeCb, 0, s.writeEnd) EXCEPT !.writeCb = 0]
<1>1. s.wq = <<>> => r \in S
  BY PostWriteKept
<1>2. s.wq # <<>> => WriteToSocket(s, o) \in S
  BY KeptBase, WriteToSocketKept
<1> QED BY <1>1, <1>2 DEF Flush

-----------------------------------------------------------------------------
\* Connecting

LEMMA ConnectFailedKept ==
    ASSUME NEW S, Kept(S), NEW s \in S, NEW res, res = "error" \/ s.closed
    PROVE  ConnectFailed(s, res) \in S
<1> DEFINE t == [s EXCEPT !.sWrite = FALSE, !.connectCb = FALSE]
<1>1. s \in StreamType
  BY KeptBase
<1>2. t \in StreamType /\ Forgets(s, t) /\ t.closed = s.closed
  BY <1>1, ZenonT(30) DEF StreamType, Forgets, Given, CloseSide, Criteria, Connects
<1>3. t \in S
  BY <1>2, ForgetsKept
<1> HIDE DEF t
<1>4. Close(t) \in S /\ (t.closed => MaybeRunCloseCallback(t) \in S)
  BY <1>3, CloseKept, MaybeRunCloseCallbackKept DEF Closed
<1> QED BY <1>2, <1>4 DEF ConnectFailed, t

\* The connect callback is posted and taken from its member.
LEMMA PostConnectKept ==
    ASSUME NEW S, Kept(S), NEW s \in S, Connects(s)
    PROVE  LET p == RunCallback(s, "connect", 0, 0, 0)
           IN  [p EXCEPT !.connectCb = FALSE] \in S /\ [p EXCEPT !.sslConnectCb = FALSE] \in S
<1> DEFINE p == RunCallback(s, "connect", 0, 0, 0)
<1>1. Base(s) /\ s \in StreamType
  BY KeptBase
<1>2. Base(p) /\ Posts(s, p, "connect", 0, 0, 0) /\ Others(p) = Others(s)
  <2>1. 0 \in Nat /\ "connect" \in Callbacks
    BY DEF Callbacks
  <2> QED BY <1>1, <2>1, RunCallbackPosts
<1> HIDE DEF p
<1>3. LET r == [p EXCEPT !.connectCb = FALSE]
      IN  r \in StreamType /\ Given(r) = Given(p) /\ r.pending = p.pending /\ r.queue = p.queue
          /\ ReadSide(r) = ReadSide(p) /\ CloseSide(r) = CloseSide(p) /\ r.closed = p.closed
          /\ WriteSide(r) = WriteSide(p)
  BY <1>2 DEF Base, Sound, StreamType, Given, WriteSide, ReadSide, CloseSide, Criteria
<1>4. LET r == [p EXCEPT !.sslConnectCb = FALSE]
      IN  r \in StreamType /\ Given(r) = Given(p) /\ r.pending = p.pending /\ r.queue = p.queue
          /\ ReadSide(r) = ReadSide(p) /\ CloseSide(r) = CloseSide(p) /\ r.closed = p.closed
          /\ WriteSide(r) = WriteSide(p)
  BY <1>2 DEF Base, Sound, StreamType, Given, WriteSide, ReadSide, CloseSide, Criteria
<1>5. ASSUME NEW r \in StreamType, Given(r) = Given(p), r.pending = p.pending,
             r.queue = p.queue, ReadSide(r) = ReadSide(p), CloseSide(r) = CloseSide(p),
             r.closed = p.closed, WriteSide(r) = WriteSide(p)
      PROVE  r \in S
  <2>1. Base(r)
    BY <1>2, <1>5 DEF Base, Sound
  <2>2. PostsConnect(s, r)
    BY <1>2, <1>5 DEF PostsConnect, Posts, Others
  <2> QED BY <2>1, <2>2, KeptBy DEF Move
<1> QED BY <1>3, <1>4, <1>5 DEF p

LEMMA OnConnectKept ==
    ASSUME NEW S, Kept(S), NEW s \in S, NEW res, res \in {"ok", "error"} \/ s.closed,
           NEW o \in Outcomes(s)
    PROVE  OnConnect(s, res, o) \in S
<1> DEFINE t == [s EXCEPT !.sWrite = FALSE]
           c == [RunCallback(t, "connect", 0, 0, 0) EXCEPT !.connectCb = FALSE]
           u == IF t.connectCb THEN c ELSE t
           v == [u EXCEPT !.connecting = FALSE]
           w == [RunCallback(v, "write", v.writeCb, 0, v.writeEnd) EXCEPT !.writeCb = 0]
<1>0. s \in StreamType
  BY KeptBase
<1>1. t \in S
  BY FlagsKept
<1>2. OnConnect(s, res, o) =
        IF res # "ok" THEN ConnectFailed(s, res)
        ELSE IF s.closed THEN u
        ELSE IF v.wq # <<>> THEN WriteToSocket(v, o)
        ELSE IF v.writeCb # 0 THEN w ELSE MaybeAddErrorListener(v)
  BY DEF OnConnect
<1>3. v.wq = s.wq /\ v.sent = s.sent
  BY <1>0 DEF RunCallback, StreamType
<1>4. t.connectCb => c \in S
  <2> HIDE DEF t
  <2> QED BY <1>1, PostConnectKept DEF Connects
<1> HIDE DEF c
<1>5. u \in S
  BY <1>1, <1>4
<1> HIDE DEF u
<1>6. v \in S
  BY <1>5, FlagsKept
<1> HIDE DEF v
<1>7. v.wq # <<>> => WriteToSocket(v, o) \in S
  BY <1>0, <1>3, <1>6, WriteToSocketKept
<1>8. v.wq = <<>> /\ v.writeCb # 0 => w \in S
  BY <1>6, PostWriteKept
<1>9. res # "ok" => ConnectFailed(s, res) \in S
  BY ConnectFailedKept
<1> HIDE DEF w
<1> QED BY <1>2, <1>5, <1>6, <1>7, <1>8, <1>9, ListenerKept

LEMMA RealConnectKept ==
    ASSUME NEW S, Kept(S), NEW s \in S, NEW resolved \in BOOLEAN
    PROVE  RealConnect(s, resolved) \in S
<1> DEFINE t == Arm(s, "connect")
           plain == ~Secure /\ t.connectCb
           ssl == Secure /\ s.connectCb
           r == [t EXCEPT !.sWrite = TRUE, !.sslConnectCb = ssl, !.connectCb = plain]
<1>1. t \in S /\ t \in StreamType
  BY ArmKept, KeptBase DEF Operations
<1>2. t.connectCb = s.connectCb
  <2>1. s \in StreamType
    BY KeptBase
  <2> QED BY <2>1 DEF Arm, StreamType
<1>3. RealConnect(s, resolved) = IF ~resolved THEN ConnectFailed(s, "error") ELSE r
  BY DEF RealConnect
<1> HIDE DEF t
<1>4. plain \in BOOLEAN /\ ssl \in BOOLEAN /\ (plain \/ ssl => t.connectCb)
  BY <1>2
<1> HIDE DEF plain, ssl
<1>5. \A b \in BOOLEAN :
        LET x == [t EXCEPT !.sslConnectCb = b]
        IN  x \in StreamType /\ x.connectCb = t.connectCb /\ ((b => t.connectCb) => Forgets(t, x))
  BY <1>1, ZenonT(30) DEF StreamType, Forgets, Given, CloseSide, Criteria, Connects
<1> DEFINE x == [t EXCEPT !.sslConnectCb = ssl]
<1>6. x \in S /\ x \in StreamType /\ x.connectCb = t.connectCb
  BY <1>1, <1>4, <1>5, ForgetsKept
<1>7. r = [[x EXCEPT !.connectCb = plain] EXCEPT !.sWrite = TRUE]
  BY <1>1 DEF StreamType
<1> HIDE DEF x
<1>8. \A b \in BOOLEAN :
        LET y == [x EXCEPT !.connectCb = b]
        IN  y \in StreamType /\ ((b => x.connectCb) => Forgets(x, y))
  BY <1>6, ZenonT(30) DEF StreamType, Forgets, Given, CloseSide, Criteria, Connects
<1>9. [x EXCEPT !.connectCb = plain] \in S
  BY <1>4, <1>6, <1>8, ForgetsKept
<1>10. r \in S
  BY <1>7, <1>9, FlagsKept
<1> QED BY <1>3, <1>10, ConnectFailedKept

LEMMA OnHandshakeKept ==
    ASSUME NEW S, Kept(S), NEW s \in S, NEW res
    PROVE  OnHandshake(s, res) \in S
<1> DEFINE c == [s EXCEPT !.sWrite = FALSE]
           t == [c EXCEPT !.sslAccepting = FALSE]
           u == [t EXCEPT !.sslAccepted = TRUE]
           p == [RunCallback(u, "connect", 0, 0, 0) EXCEPT !.sslConnectCb = FALSE]
           v == IF u.sslConnectCb THEN p ELSE u
           w == IF v.wq # <<>> THEN DoWrite(v) ELSE v
           x == IF w.readCb # 0 THEN DoRead(w) ELSE w
<1>1. OnHandshake(s, res) =
        CASE res = "aborted" -> t [] res = "error" -> Close(t)
          [] OTHER -> MaybeAddErrorListener(x)
  BY DEF OnHandshake
<1>2. c \in S
  BY FlagsKept
<1> HIDE DEF c
<1>3. t \in S
  BY <1>2, FlagsKept
<1> HIDE DEF t
<1>4. u \in S
  BY <1>3, FlagsKept
<1> HIDE DEF u
<1>5. u.sslConnectCb => p \in S
  BY <1>4, PostConnectKept DEF Connects
<1> HIDE DEF p
<1>6. v \in S
  BY <1>4, <1>5
<1> HIDE DEF v
<1>7. w \in S
  BY <1>6, DoWriteKept
<1> HIDE DEF w
<1>8. x \in S
  BY <1>7, DoReadKept
<1> HIDE DEF x
<1> QED BY <1>1, <1>3, <1>8, CloseKept, ListenerKept

LEMMA OnShutdownKept ==
    ASSUME NEW S, Kept(S), NEW s \in S
    PROVE  OnShutdown(s) \in S
BY FlagsKept, DoCloseKept DEF OnShutdown
-----------------------------------------------------------------------------
\* What the queue owes the application: the inductive invariant

RunsAt(q) == {i \in DOMAIN q : IsRun(q[i])}
DataAt(q) == {i \in RunsAt(q) : IsData(q[i])}

\* The pending count is the number of posted callbacks.
Counted(s) == s.pending = Cardinality(RunsAt(s.queue))

\* The data callbacks of q take the bytes from position "from" to position "to":
\* the first begins at one, the last ends at the other, each begins where the
\* one before it ends.
Chain(q, from, to) ==
    LET D == DataAt(q)
    IN  /\ D = {} => to = from
        /\ \A j \in D : (\A i \in D : j <= i) => q[j].lo = from
        /\ \A j \in D : (\A i \in D : i <= j) => q[j].hi = to
        /\ \A i, j \in D : i < j /\ (\A k \in D : k <= i \/ j <= k) => q[j].lo = q[i].hi

\* Calls are numbered, and a final callback that was posted or has run, by f,
\* belongs to one that no longer waits.
Answers(s, f) ==
    /\ s.readCb <= s.reads /\ s.streamCb <= s.reads
    /\ f \subseteq 1..s.reads /\ s.readCb \notin f
    /\ \A i \in RunsAt(s.queue) : s.queue[i].run = "read" =>
         /\ s.queue[i].id \in 1..s.reads /\ s.queue[i].id # s.readCb /\ s.queue[i].id \notin f
         /\ \A j \in RunsAt(s.queue) :
              j # i /\ s.queue[j].run = "read" => s.queue[j].id # s.queue[i].id

\* Where a close callback is posted the stream is closed and holds no callback
\* but those of later reads; so do the handlers behind it.
CloseLast(s) ==
    \A i \in RunsAt(s.queue) : s.queue[i].run = "close" =>
        LET last == s.queue[i].id
        IN  /\ s.closed /\ last <= s.reads /\ s.writeCb = 0 /\ ~Connects(s)
            /\ s.readCb = 0 \/ s.readCb > last
            /\ s.streamCb = 0 \/ s.streamCb > last
            /\ \A j \in RunsAt(s.queue) : i < j =>
                 IsData(s.queue[j]) /\ (s.queue[j].id > last \/ s.queue[j].run = "lostRead")

\* The close callbacks that were set: run, posted or still in the member.
ClosePosted(q) == \E i \in RunsAt(q) : q[i].run = "close"
ClosesSet(s, runs, sets) ==
    runs + (IF ClosePosted(s.queue) THEN 1 ELSE 0) + (IF s.closeCb THEN 1 ELSE 0) <= sets

\* What is queued ends where what was written ends.
EndsWell(s) ==
    /\ s.writeEnd = s.written
    /\ s.wq # <<>> => s.wq[Len(s.wq)] = s.written
    /\ s.wq = <<>> /\ (s.writeCb # 0 \/ ~Closed(s)) => s.sent = s.written

\* No byte up to hi is still to be sent.
AllGone(hi, s) ==
    /\ hi <= s.sent /\ hi <= s.written
    /\ \A k \in 1..Len(s.wq) : hi <= s.wq[k]

\* A posted write callback waits for no byte.
Left(s) ==
    /\ EndsWell(s)
    /\ \A i \in RunsAt(s.queue) : s.queue[i].run = "write" => AllGone(s.queue[i].hi, s)

\* An open stream has one read at a time, and one way for it to end.
OneEnd(s) ==
    ~Closed(s) =>
        /\ s.readCb = 0 => Criteria(s) = {}
        /\ \A c, d \in Criteria(s) : c = d
        /\ \A i \in RunsAt(s.queue) : s.queue[i].run # "lostRead"

Owes(s, from, f, runs, sets) ==
    /\ Base(s)
    /\ Counted(s)
    /\ Chain(s.queue, from, s.consumed)
    /\ Answers(s, f)
    /\ CloseLast(s)
    /\ ClosesSet(s, runs, sets)
    /\ Left(s)
    /\ OneEnd(s)

OInv ==
    /\ IInv
    /\ Owes(stream, handed, finished, closeRuns, closeSets)
-----------------------------------------------------------------------------
\* How the posted callbacks change

\* The same callbacks are posted, in the same places.
SameRuns(q, p) == RunsAt(p) = RunsAt(q) /\ \A i \in RunsAt(q) : p[i] = q[i]

\* One more is posted, behind the others.
AddsRun(q, p, h) ==
    \E n \in Nat :
        /\ RunsAt(p) = RunsAt(q) \cup {n} /\ p[n] = h
        /\ \A i \in RunsAt(q) : i < n /\ p[i] = q[i]

LEMMA RunsTyped ==
    ASSUME NEW s, Base(s)
    PROVE  /\ RunsAt(s.queue) \subseteq 1..Len(s.queue) /\ Len(s.queue) \in Nat
           /\ IsFiniteSet(RunsAt(s.queue)) /\ Cardinality(RunsAt(s.queue)) \in Nat
           /\ \A i \in RunsAt(s.queue) : s.queue[i] \in Runs
<1> DEFINE q == s.queue
<1>1. q \in Seq(Runs \cup Ended) /\ Ended \subseteq Completions
  BY DEF Base, Ended
<1>2. /\ DOMAIN q = 1..Len(q) /\ Len(q) \in Nat
      /\ \A i \in 1..Len(q) : q[i] \in Runs \cup Ended
  BY <1>1
<1>3. IsFiniteSet(1..Len(q))
  BY <1>2, FS_Interval
<1>4. RunsAt(q) \subseteq 1..Len(q)
  BY <1>2 DEF RunsAt
<1>5. \A i \in RunsAt(q) : q[i] \in Runs
  <2>1. \A c \in Completions : ~IsRun(c)
    BY DEF Completions, IsRun
  <2> QED BY <1>1, <1>2, <2>1 DEF RunsAt
<1>6. IsFiniteSet(RunsAt(q)) /\ Cardinality(RunsAt(q)) \in Nat
  BY <1>3, <1>4, FS_Subset, FS_CardinalityType
<1> QED BY <1>2, <1>4, <1>5, <1>6

LEMMA EndedAddsNone ==
    ASSUME NEW s, Base(s), NEW x \in Seq(Ended)
    PROVE  SameRuns(s.queue, s.queue \o x)
<1> DEFINE q == s.queue
           p == q \o x
           T == Runs \cup Ended
<1>1. q \in Seq(T) /\ x \in Seq(T)
  BY DEF Base
<1> HIDE DEF T
<1>2. /\ DOMAIN q = 1..Len(q) /\ DOMAIN p = 1..(Len(q) + Len(x))
      /\ Len(q) \in Nat /\ Len(x) \in Nat
      /\ \A i \in 1..(Len(q) + Len(x)) : p[i] = IF i <= Len(q) THEN q[i] ELSE x[i - Len(q)]
  <2>1. /\ p \in Seq(T) /\ Len(p) = Len(q) + Len(x)
        /\ \A i \in 1..(Len(q) + Len(x)) : p[i] = IF i <= Len(q) THEN q[i] ELSE x[i - Len(q)]
    BY <1>1, ConcatProperties
  <2> HIDE DEF p
  <2>2. DOMAIN p = 1..Len(p)
    BY <2>1, LenProperties
  <2> QED BY <1>1, <2>1, <2>2, LenProperties
<1> HIDE DEF p, q
<1>3. \A k \in 1..Len(x) : ~IsRun(x[k])
  <2>1. \A c \in Ended : ~IsRun(c)
    BY DEF Ended, Completions, IsRun
  <2> QED BY <2>1
<1>4. \A i \in 1..(Len(q) + Len(x)) : i > Len(q) => ~IsRun(p[i])
  <2> TAKE i \in 1..(Len(q) + Len(x))
  <2> HAVE i > Len(q)
  <2>1. i - Len(q) \in 1..Len(x) /\ ~(i <= Len(q))
    BY <1>2
  <2> QED BY <1>2, <1>3, <2>1
<1>5. \A i \in 1..Len(q) : i \in 1..(Len(q) + Len(x)) /\ p[i] = q[i]
  BY <1>2
<1> QED BY <1>2, <1>4, <1>5, SMTT(30) DEF SameRuns, RunsAt, p, q

LEMMA PostsAdds ==
    ASSUME NEW s, Base(s), NEW r, NEW run \in Callbacks, NEW id \in Nat, NEW lo \in Nat,
           NEW hi \in Nat, Posts(s, r, run, id, lo, hi)
    PROVE  AddsRun(s.queue, r.queue, [run |-> run, id |-> id, lo |-> lo, hi |-> hi])
<1> DEFINE q == s.queue
           h == [run |-> run, id |-> id, lo |-> lo, hi |-> hi]
           p == Append(q, h)
           T == Runs \cup Ended
<1>1. q \in Seq(T) /\ h \in T /\ IsRun(h)
  BY DEF Base, Runs, IsRun
<1>2. r.queue = p
  BY DEF Posts
<1> HIDE DEF T, h
<1>3. /\ DOMAIN q = 1..Len(q) /\ DOMAIN p = 1..(Len(q) + 1) /\ Len(q) \in Nat
      /\ p[Len(q) + 1] = h /\ \A i \in 1..Len(q) : p[i] = q[i]
  BY <1>1
<1> HIDE DEF p, q
<1>4. RunsAt(p) = RunsAt(q) \cup {Len(q) + 1} /\ \A i \in RunsAt(q) : i < Len(q) + 1 /\ p[i] = q[i]
  BY <1>1, <1>3 DEF RunsAt
<1>5. p[Len(q) + 1] = h /\ Len(q) + 1 \in Nat
  BY <1>3
<1>6. AddsRun(q, p, h)
  BY <1>4, <1>5 DEF AddsRun
<1> QED BY <1>2, <1>6 DEF p, q, h
\* A move that posts nothing leaves the posted callbacks alone.
LEMMA QuietMoves ==
    ASSUME NEW s, Base(s), NEW r, Waits(s, r) \/ Forgets(s, r) \/ Sends(s, r)
    PROVE  SameRuns(s.queue, r.queue) /\ r.pending = s.pending /\ Called(r) = Called(s)
<1>1. CASE Waits(s, r)
  BY <1>1, EndedAddsNone DEF Waits
<1>2. CASE Forgets(s, r) \/ Sends(s, r)
  BY <1>2 DEF Forgets, Sends, SameRuns, Given, Called
<1> QED BY <1>1, <1>2

\* A move that posts a callback adds it behind those that were posted.
LEMMA PostingMoves ==
    ASSUME NEW s, Base(s), NEW r \in StreamType
    PROVE  /\ PostsConnect(s, r) =>
                AddsRun(s.queue, r.queue, [run |-> "connect", id |-> 0, lo |-> 0, hi |-> 0])
           /\ PostsStream(s, r) =>
                AddsRun(s.queue, r.queue,
                    [run |-> "stream", id |-> s.streamCb, lo |-> s.consumed, hi |-> r.consumed])
           /\ PostsRead(s, r) =>
                AddsRun(s.queue, r.queue,
                    [run |-> IF s.readCb = 0 THEN "lostRead" ELSE "read", id |-> s.readCb,
                     lo |-> s.consumed, hi |-> r.consumed])
           /\ PostsWrite(s, r) =>
                AddsRun(s.queue, r.queue,
                    [run |-> IF s.writeCb = 0 THEN "noWrite" ELSE "write", id |-> s.writeCb,
                     lo |-> 0, hi |-> s.writeEnd])
           /\ PostsClose(s, r) =>
                AddsRun(s.queue, r.queue, [run |-> "close", id |-> s.reads, lo |-> 0, hi |-> 0])
<1> DEFINE readCb == IF s.readCb = 0 THEN "lostRead" ELSE "read"
           writeCb == IF s.writeCb = 0 THEN "noWrite" ELSE "write"
<1>1. /\ s.streamCb \in Nat /\ s.consumed \in Nat /\ s.readCb \in Nat /\ s.writeCb \in Nat
      /\ s.writeEnd \in Nat /\ s.reads \in Nat /\ r.consumed \in Nat /\ 0 \in Nat
  BY DEF Base, Sound, StreamType
<1>2. /\ {"connect", "stream", "close"} \subseteq Callbacks
      /\ readCb \in Callbacks /\ writeCb \in Callbacks
  BY DEF Callbacks, Empty
<1> HIDE DEF readCb, writeCb
<1>3. ASSUME PostsConnect(s, r)
      PROVE  AddsRun(s.queue, r.queue, [run |-> "connect", id |-> 0, lo |-> 0, hi |-> 0])
  BY <1>1, <1>2, <1>3, PostsAdds DEF PostsConnect
<1>4. ASSUME PostsStream(s, r)
      PROVE  AddsRun(s.queue, r.queue,
                 [run |-> "stream", id |-> s.streamCb, lo |-> s.consumed, hi |-> r.consumed])
  BY <1>1, <1>2, <1>4, PostsAdds DEF PostsStream
<1>5. ASSUME PostsRead(s, r)
      PROVE  AddsRun(s.queue, r.queue,
                 [run |-> readCb, id |-> s.readCb, lo |-> s.consumed, hi |-> r.consumed])
  <2>1. Posts(s, r, readCb, s.readCb, s.consumed, r.consumed)
    BY <1>5 DEF PostsRead, readCb
  <2> QED BY <1>1, <1>2, <2>1, PostsAdds
<1>6. ASSUME PostsWrite(s, r)
      PROVE  AddsRun(s.queue, r.queue,
                 [run |-> writeCb, id |-> s.writeCb, lo |-> 0, hi |-> s.writeEnd])
  <2>1. Posts(s, r, writeCb, s.writeCb, 0, s.writeEnd)
    BY <1>6 DEF PostsWrite, writeCb
  <2> QED BY <1>1, <1>2, <2>1, PostsAdds
<1>7. ASSUME PostsClose(s, r)
      PROVE  AddsRun(s.queue, r.queue, [run |-> "close", id |-> s.reads, lo |-> 0, hi |-> 0])
  BY <1>1, <1>2, <1>7, PostsAdds DEF PostsClose
<1> QED BY <1>3, <1>4, <1>5, <1>6, <1>7 DEF readCb, writeCb

-----------------------------------------------------------------------------
\* Every move keeps the parts of the invariant

LEMMA CountedMoves ==
    ASSUME NEW s, Base(s), Counted(s), NEW r \in StreamType, Move(s, r)
    PROVE  Counted(r)
<1> DEFINE R == RunsAt(s.queue)
<1>1. IsFiniteSet(R) /\ Cardinality(R) \in Nat
  BY RunsTyped
<1>2. CASE Waits(s, r) \/ Forgets(s, r) \/ Sends(s, r)
  BY <1>2, QuietMoves DEF Counted, SameRuns
<1>3. ASSUME NEW h, AddsRun(s.queue, r.queue, h), r.pending = s.pending + 1
      PROVE  Counted(r)
  <2>1. PICK n \in Nat : RunsAt(r.queue) = R \cup {n} /\ \A i \in R : i < n
    BY <1>3 DEF AddsRun
  <2>2. n \notin R
    BY <2>1
  <2>3. Cardinality(R \cup {n}) = Cardinality(R) + 1
    BY <1>1, <2>2, FS_AddElement
  <2> QED BY <1>3, <2>1, <2>3 DEF Counted
<1>4. CASE PostsConnect(s, r)
  BY <1>3, <1>4, PostingMoves DEF PostsConnect, Posts
<1>5. CASE PostsStream(s, r)
  BY <1>3, <1>5, PostingMoves DEF PostsStream, Posts
<1>6. CASE PostsRead(s, r)
  BY <1>3, <1>6, PostingMoves DEF PostsRead, Posts
<1>7. CASE PostsWrite(s, r)
  BY <1>3, <1>7, PostingMoves DEF PostsWrite, Posts
<1>8. CASE PostsClose(s, r)
  BY <1>3, <1>8, PostingMoves DEF PostsClose, Posts
<1> QED BY <1>2, <1>4, <1>5, <1>6, <1>7, <1>8 DEF Move

LEMMA ChainMoves ==
    ASSUME NEW s, Base(s), NEW from \in Nat, Chain(s.queue, from, s.consumed),
           NEW r \in StreamType, Move(s, r)
    PROVE  Chain(r.queue, from, r.consumed)
<1> DEFINE q == s.queue
           p == r.queue
<1>0. RunsAt(q) \subseteq Nat
  <2>1. RunsAt(q) \subseteq 1..Len(q) /\ Len(q) \in Nat
    BY RunsTyped
  <2> HIDE DEF q
  <2> QED BY <2>1
<1>1. ASSUME SameRuns(q, p), r.consumed = s.consumed
      PROVE  Chain(p, from, r.consumed)
  <2> HIDE DEF p, q
  <2>1. DataAt(p) = DataAt(q) /\ \A i \in DataAt(q) : p[i] = q[i]
    BY <1>1 DEF SameRuns, DataAt
  <2>2. Chain(q, from, s.consumed)
    BY DEF q
  <2> QED BY <1>1, <2>1, <2>2 DEF Chain
<1>2. ASSUME NEW h, AddsRun(q, p, h), ~IsData(h), r.consumed = s.consumed
      PROVE  Chain(p, from, r.consumed)
  <2> HIDE DEF p, q
  <2>1. DataAt(p) = DataAt(q) /\ \A i \in DataAt(q) : p[i] = q[i]
    BY <1>2 DEF AddsRun, DataAt
  <2>2. Chain(q, from, s.consumed)
    BY DEF q
  <2> QED BY <1>2, <2>1, <2>2 DEF Chain
<1>3. ASSUME NEW h, AddsRun(q, p, h), IsData(h), h.lo = s.consumed, h.hi = r.consumed
      PROVE  Chain(p, from, r.consumed)
  <2> HIDE DEF p
  <2>1. PICK n \in Nat : /\ RunsAt(p) = RunsAt(q) \cup {n} /\ p[n] = h
                         /\ \A i \in RunsAt(q) : i < n /\ p[i] = q[i]
    BY <1>3 DEF AddsRun
  <2> DEFINE D == DataAt(q)
  <2>2. Chain(q, from, s.consumed)
    OBVIOUS
  <2> HIDE DEF q
  <2>3. DataAt(p) = D \cup {n} /\ D \subseteq Nat /\ \A i \in D : i < n /\ p[i] = q[i]
    BY <1>0, <1>3, <2>1 DEF DataAt
  <2>4. /\ D = {} => s.consumed = from
        /\ \A j \in D : (\A i \in D : j <= i) => q[j].lo = from
        /\ \A j \in D : (\A i \in D : i <= j) => q[j].hi = s.consumed
        /\ \A i, j \in D : i < j /\ (\A k \in D : k <= i \/ j <= k) => q[j].lo = q[i].hi
    BY <2>2 DEF Chain
  <2> HIDE DEF D
  <2>5. \A j \in D \cup {n} : (\A i \in D \cup {n} : j <= i) => p[j].lo = from
    BY <1>3, <2>1, <2>3, <2>4
  <2>6. \A j \in D \cup {n} : (\A i \in D \cup {n} : i <= j) => p[j].hi = r.consumed
    BY <1>3, <2>1, <2>3
  <2>7. ASSUME NEW i \in D \cup {n}, NEW j \in D \cup {n}, i < j,
               \A k \in D \cup {n} : k <= i \/ j <= k
        PROVE  p[j].lo = p[i].hi
    <3>1. i \in D
      BY <2>3, <2>7
    <3>2. CASE j = n
      <4>1. \A k \in D : k <= i
        BY <2>3, <2>7, <3>2
      <4> QED BY <1>3, <2>1, <2>3, <2>4, <3>1, <3>2, <4>1
    <3>3. CASE j \in D
      BY <2>3, <2>4, <2>7, <3>1, <3>3
    <3> QED BY <3>2, <3>3
  <2> QED BY <2>3, <2>5, <2>6, <2>7 DEF Chain
<1>4. CASE Waits(s, r) \/ Forgets(s, r) \/ Sends(s, r)
  BY <1>1, <1>4, QuietMoves DEF Waits, Forgets, Sends, ReadSide
<1>5. CASE PostsConnect(s, r)
  BY <1>2, <1>5, PostingMoves DEF PostsConnect, ReadSide, IsData
<1>6. CASE PostsStream(s, r)
  <2>1. IsData([run |-> "stream", id |-> s.streamCb, lo |-> s.consumed, hi |-> r.consumed])
    BY DEF IsData, IsRun
  <2> QED BY <1>3, <1>6, <2>1, PostingMoves
<1>7. CASE PostsRead(s, r)
  <2>1. IsData([run |-> IF s.readCb = 0 THEN "lostRead" ELSE "read", id |-> s.readCb,
                lo |-> s.consumed, hi |-> r.consumed])
    BY DEF IsData, IsRun
  <2> QED BY <1>3, <1>7, <2>1, PostingMoves
<1>8. CASE PostsWrite(s, r)
  BY <1>2, <1>8, PostingMoves DEF PostsWrite, ReadSide, IsData
<1>9. CASE PostsClose(s, r)
  BY <1>2, <1>9, PostingMoves DEF PostsClose, IsData
<1> QED BY <1>4, <1>5, <1>6, <1>7, <1>8, <1>9 DEF Move

LEMMA AnswersMoves ==
    ASSUME NEW s, Base(s), NEW f, Answers(s, f), NEW r \in StreamType, Move(s, r)
    PROVE  Answers(r, f)
<1> DEFINE q == s.queue
           p == r.queue
<1>0. /\ s.readCb \in Nat /\ s.streamCb \in Nat /\ s.reads \in Nat
      /\ r.readCb \in Nat /\ r.streamCb \in Nat /\ r.reads \in Nat
  BY DEF Base, Sound, StreamType
<1>1. /\ s.readCb <= s.reads /\ s.streamCb <= s.reads /\ f \subseteq 1..s.reads /\ s.readCb \notin f
      /\ \A i \in RunsAt(q) : q[i].run = "read" =>
           /\ q[i].id \in 1..s.reads /\ q[i].id # s.readCb /\ q[i].id \notin f
           /\ \A j \in RunsAt(q) : j # i /\ q[j].run = "read" => q[j].id # q[i].id
  BY DEF Answers
<1> HIDE DEF p, q
<1>2. ASSUME SameRuns(q, p), r.reads = s.reads,
             r.readCb \in {0, s.readCb}, r.streamCb \in {0, s.streamCb}
      PROVE  Answers(r, f)
  BY <1>0, <1>1, <1>2 DEF SameRuns, Answers, p
<1>3. ASSUME NEW h, AddsRun(q, p, h), h.run # "read", r.reads = s.reads,
             r.readCb \in {0, s.readCb}, r.streamCb \in {0, s.streamCb}
      PROVE  Answers(r, f)
  <2>1. PICK n \in Nat : /\ RunsAt(p) = RunsAt(q) \cup {n} /\ p[n] = h
                         /\ \A i \in RunsAt(q) : i < n /\ p[i] = q[i]
    BY <1>3 DEF AddsRun
  <2> QED BY <1>0, <1>1, <1>3, <2>1 DEF Answers, p
<1>4. ASSUME NEW h, AddsRun(q, p, h), h.run = "read", h.id = s.readCb, s.readCb # 0,
             r.reads = s.reads, r.readCb = 0, r.streamCb \in {0, s.streamCb}
      PROVE  Answers(r, f)
  <2>1. PICK n \in Nat : /\ RunsAt(p) = RunsAt(q) \cup {n} /\ p[n] = h
                         /\ \A i \in RunsAt(q) : i < n /\ p[i] = q[i]
    BY <1>4 DEF AddsRun
  <2>2. s.readCb \in 1..s.reads
    BY <1>0, <1>1, <1>4
  <2>3. \A i \in RunsAt(p) : p[i].run = "read" =>
          /\ p[i].id \in 1..s.reads /\ p[i].id # 0 /\ p[i].id \notin f
          /\ \A j \in RunsAt(p) : j # i /\ p[j].run = "read" => p[j].id # p[i].id
    BY <1>1, <1>4, <2>1, <2>2
  <2> QED BY <1>0, <1>1, <1>4, <2>3 DEF Answers, p
<1>5. CASE Waits(s, r) \/ Forgets(s, r) \/ Sends(s, r)
  BY <1>2, <1>5, QuietMoves DEF Waits, Forgets, Sends, ReadSide, Called, p, q
<1>6. CASE PostsConnect(s, r)
  <2> DEFINE h == [run |-> "connect", id |-> 0, lo |-> 0, hi |-> 0]
  <2>1. AddsRun(q, p, h)
    BY <1>6, PostingMoves DEF p, q
  <2>2. h.run # "read"
    OBVIOUS
  <2> HIDE DEF h
  <2>3. r.reads = s.reads /\ r.readCb \in {0, s.readCb} /\ r.streamCb \in {0, s.streamCb}
    BY <1>6 DEF PostsConnect, Posts, Given, ReadSide
  <2> QED BY <1>3, <2>1, <2>2, <2>3
<1>7. CASE PostsStream(s, r)
  <2> DEFINE h == [run |-> "stream", id |-> s.streamCb, lo |-> s.consumed, hi |-> r.consumed]
  <2>1. AddsRun(q, p, h)
    BY <1>7, PostingMoves DEF p, q
  <2>2. h.run # "read"
    OBVIOUS
  <2> HIDE DEF h
  <2>3. r.reads = s.reads /\ r.readCb \in {0, s.readCb} /\ r.streamCb \in {0, s.streamCb}
    BY <1>7 DEF PostsStream, Posts, Given
  <2> QED BY <1>3, <2>1, <2>2, <2>3
<1>8. CASE PostsRead(s, r)
  <2>1. r.reads = s.reads /\ r.readCb = 0 /\ r.streamCb \in {0, s.streamCb}
    BY <1>8 DEF PostsRead, Posts, Given
  <2> DEFINE h == [run |-> IF s.readCb = 0 THEN "lostRead" ELSE "read", id |-> s.readCb,
                   lo |-> s.consumed, hi |-> r.consumed]
  <2>2. AddsRun(q, p, h)
    BY <1>8, PostingMoves DEF p, q
  <2>3. h.id = s.readCb /\ (IF s.readCb = 0 THEN h.run # "read" ELSE h.run = "read")
    OBVIOUS
  <2> HIDE DEF h
  <2> QED BY <1>3, <1>4, <2>1, <2>2, <2>3
<1>9. CASE PostsWrite(s, r)
  <2> DEFINE h == [run |-> IF s.writeCb = 0 THEN "noWrite" ELSE "write", id |-> s.writeCb,
                   lo |-> 0, hi |-> s.writeEnd]
  <2>1. AddsRun(q, p, h)
    BY <1>9, PostingMoves DEF p, q
  <2>2. h.run # "read"
    OBVIOUS
  <2> HIDE DEF h
  <2>3. r.reads = s.reads /\ r.readCb \in {0, s.readCb} /\ r.streamCb \in {0, s.streamCb}
    BY <1>9 DEF PostsWrite, Posts, Given, ReadSide
  <2> QED BY <1>3, <2>1, <2>2, <2>3
<1>10. CASE PostsClose(s, r)
  <2> DEFINE h == [run |-> "close", id |-> s.reads, lo |-> 0, hi |-> 0]
  <2>1. AddsRun(q, p, h)
    BY <1>10, PostingMoves DEF p, q
  <2>2. h.run # "read"
    OBVIOUS
  <2> HIDE DEF h
  <2>3. r.reads = s.reads /\ r.readCb \in {0, s.readCb} /\ r.streamCb \in {0, s.streamCb}
    BY <1>10 DEF PostsClose, Posts, Given
  <2> QED BY <1>3, <2>1, <2>2, <2>3
<1> QED BY <1>5, <1>6, <1>7, <1>8, <1>9, <1>10 DEF Move

\* The close callback is posted last: nothing is pending then.
LEMMA NothingPosted ==
    ASSUME NEW s, Base(s), Counted(s), s.pending = 0
    PROVE  RunsAt(s.queue) = {}
BY RunsTyped, FS_EmptySet DEF Counted

LEMMA CloseLastMoves ==
    ASSUME NEW s, Base(s), Counted(s), CloseLast(s), NEW r \in StreamType, Move(s, r)
    PROVE  CloseLast(r)
<1> DEFINE q == s.queue
           p == r.queue
           Over(x, last) ==
               /\ x.closed /\ last <= x.reads /\ x.writeCb = 0 /\ ~Connects(x)
               /\ x.readCb = 0 \/ x.readCb > last
               /\ x.streamCb = 0 \/ x.streamCb > last
           Behind(h, last) == IsData(h) /\ (h.id > last \/ h.run = "lostRead")
<1>0. /\ RunsAt(q) \subseteq Nat
      /\ \A i \in RunsAt(q) : q[i].id \in Nat
  <2>1. /\ RunsAt(q) \subseteq 1..Len(q) /\ Len(q) \in Nat
        /\ \A i \in RunsAt(q) : q[i] \in Runs
    BY RunsTyped
  <2> HIDE DEF q
  <2> QED BY <2>1 DEF Runs
<1>1. \A i \in RunsAt(q) : q[i].run = "close" =>
        Over(s, q[i].id) /\ \A j \in RunsAt(q) : i < j => Behind(q[j], q[i].id)
  BY DEF CloseLast
<1> HIDE DEF p, q
<1>2. ASSUME SameRuns(q, p), \A last \in Nat : Over(s, last) => Over(r, last)
      PROVE  CloseLast(r)
  <2> HIDE DEF Over, Behind
  <2>1. \A i \in RunsAt(p) : p[i].run = "close" =>
          Over(r, p[i].id) /\ \A j \in RunsAt(p) : i < j => Behind(p[j], p[i].id)
    BY <1>0, <1>1, <1>2 DEF SameRuns
  <2> QED BY <2>1 DEF CloseLast, p, Over, Behind
<1>3. ASSUME NEW h, AddsRun(q, p, h), h.run # "close",
             \A last \in Nat : Over(s, last) => Over(r, last) /\ Behind(h, last)
      PROVE  CloseLast(r)
  <2>1. PICK n \in Nat : /\ RunsAt(p) = RunsAt(q) \cup {n} /\ p[n] = h
                         /\ \A i \in RunsAt(q) : i < n /\ p[i] = q[i]
    BY <1>3 DEF AddsRun
  <2> HIDE DEF Over, Behind
  <2>2. \A i \in RunsAt(p) : p[i].run = "close" =>
          Over(r, p[i].id) /\ \A j \in RunsAt(p) : i < j => Behind(p[j], p[i].id)
    BY <1>0, <1>1, <1>3, <2>1
  <2> QED BY <2>2 DEF CloseLast, p, Over, Behind
<1>4. CASE Waits(s, r)
  <2>1. \A last \in Nat : Over(s, last) => Over(r, last)
    BY <1>4 DEF Waits, Called, ReadSide, WriteSide
  <2> QED BY <1>2, <1>4, <2>1, QuietMoves DEF p, q
<1>5. CASE Forgets(s, r)
  <2>1. \A last \in Nat : Over(s, last) => Over(r, last)
    BY <1>5 DEF Forgets, Given, CloseSide
  <2> QED BY <1>2, <1>5, <2>1, QuietMoves DEF p, q
<1>6. CASE Sends(s, r)
  <2>1. \A last \in Nat : Over(s, last) => Over(r, last)
    BY <1>6 DEF Sends, Given, CloseSide, ReadSide
  <2> QED BY <1>2, <1>6, <2>1, QuietMoves DEF p, q
<1>7. CASE PostsConnect(s, r)
  <2> DEFINE h == [run |-> "connect", id |-> 0, lo |-> 0, hi |-> 0]
  <2>1. AddsRun(q, p, h)
    BY <1>7, PostingMoves DEF p, q
  <2>2. h.run # "close"
    OBVIOUS
  <2> HIDE DEF h
  <2>3. \A last \in Nat : ~Over(s, last)
    BY <1>7 DEF PostsConnect
  <2> QED BY <1>3, <2>1, <2>2, <2>3
<1>8. CASE PostsStream(s, r)
  <2> DEFINE h == [run |-> "stream", id |-> s.streamCb, lo |-> s.consumed, hi |-> r.consumed]
  <2>1. AddsRun(q, p, h)
    BY <1>8, PostingMoves DEF p, q
  <2>2. IsData(h) /\ h.run # "close" /\ h.id = s.streamCb
    BY DEF IsData, IsRun
  <2> HIDE DEF h
  <2>3. \A last \in Nat : Over(s, last) => Over(r, last) /\ Behind(h, last)
    BY <1>8, <2>2 DEF PostsStream, Posts, Given, CloseSide, WriteSide
  <2> QED BY <1>3, <2>1, <2>2, <2>3
<1>9. CASE PostsRead(s, r)
  <2> DEFINE h == [run |-> IF s.readCb = 0 THEN "lostRead" ELSE "read", id |-> s.readCb,
                   lo |-> s.consumed, hi |-> r.consumed]
  <2>1. AddsRun(q, p, h)
    BY <1>9, PostingMoves DEF p, q
  <2>2. IsData(h) /\ h.run # "close" /\ h.id = s.readCb /\ (s.readCb = 0 => h.run = "lostRead")
    BY DEF IsData, IsRun
  <2> HIDE DEF h
  <2>3. \A last \in Nat : Over(s, last) => Over(r, last) /\ Behind(h, last)
    BY <1>9, <2>2 DEF PostsRead, Posts, Given, CloseSide, WriteSide
  <2> QED BY <1>3, <2>1, <2>2, <2>3
<1>10. CASE PostsWrite(s, r)
  <2> DEFINE h == [run |-> IF s.writeCb = 0 THEN "noWrite" ELSE "write", id |-> s.writeCb,
                   lo |-> 0, hi |-> s.writeEnd]
  <2>1. AddsRun(q, p, h)
    BY <1>10, PostingMoves DEF p, q
  <2>2. h.run # "close"
    OBVIOUS
  <2>3. \A last \in Nat : ~Over(s, last)
    BY <1>10 DEF PostsWrite, Closed
  <2> HIDE DEF h, Over
  <2> QED BY <1>3, <2>1, <2>2, <2>3
<1>11. CASE PostsClose(s, r)
  <2> DEFINE h == [run |-> "close", id |-> s.reads, lo |-> 0, hi |-> 0]
  <2>1. RunsAt(q) = {} /\ AddsRun(q, p, h)
    BY <1>11, PostingMoves, NothingPosted DEF PostsClose, p, q
  <2>2. PICK n \in Nat : RunsAt(p) = {n} /\ p[n] = h
    BY <2>1 DEF AddsRun
  <2>3. s.reads \in Nat /\ Over(r, s.reads)
    BY <1>11 DEF PostsClose, Posts, Given, Base, Sound, StreamType
  <2> QED BY <2>2, <2>3 DEF CloseLast, p
<1> QED BY <1>4, <1>5, <1>6, <1>7, <1>8, <1>9, <1>10, <1>11 DEF Move

LEMMA ClosesSetMoves ==
    ASSUME NEW s, Base(s), Counted(s), NEW runs \in Nat, NEW sets \in Nat, ClosesSet(s, runs, sets),
           NEW r \in StreamType, Move(s, r)
    PROVE  ClosesSet(r, runs, sets)
<1> DEFINE q == s.queue
           p == r.queue
<1> HIDE DEF p, q
<1>1. ASSUME SameRuns(q, p), r.closeCb = s.closeCb
      PROVE  ClosesSet(r, runs, sets)
  BY <1>1 DEF SameRuns, ClosesSet, ClosePosted, p, q
<1>2. ASSUME NEW h, AddsRun(q, p, h), h.run # "close", r.closeCb = s.closeCb
      PROVE  ClosesSet(r, runs, sets)
  <2>1. PICK n \in Nat : /\ RunsAt(p) = RunsAt(q) \cup {n} /\ p[n] = h
                         /\ \A i \in RunsAt(q) : i < n /\ p[i] = q[i]
    BY <1>2 DEF AddsRun
  <2>2. ClosePosted(p) <=> ClosePosted(q)
    BY <1>2, <2>1 DEF ClosePosted
  <2> QED BY <1>2, <2>2 DEF ClosesSet, p, q
<1>3. CASE Waits(s, r) \/ Forgets(s, r) \/ Sends(s, r)
  BY <1>1, <1>3, QuietMoves DEF Waits, Forgets, Sends, CloseSide, p, q
<1>4. CASE PostsConnect(s, r)
  <2> DEFINE h == [run |-> "connect", id |-> 0, lo |-> 0, hi |-> 0]
  <2>1. AddsRun(q, p, h)
    BY <1>4, PostingMoves DEF p, q
  <2>2. h.run # "close"
    OBVIOUS
  <2> HIDE DEF h
  <2>3. r.closeCb = s.closeCb
    BY <1>4 DEF PostsConnect, CloseSide
  <2> QED BY <1>2, <2>1, <2>2, <2>3
<1>5. CASE PostsStream(s, r)
  <2> DEFINE h == [run |-> "stream", id |-> s.streamCb, lo |-> s.consumed, hi |-> r.consumed]
  <2>1. AddsRun(q, p, h)
    BY <1>5, PostingMoves DEF p, q
  <2>2. h.run # "close"
    OBVIOUS
  <2> HIDE DEF h
  <2>3. r.closeCb = s.closeCb
    BY <1>5 DEF PostsStream, CloseSide
  <2> QED BY <1>2, <2>1, <2>2, <2>3
<1>6. CASE PostsRead(s, r)
  <2> DEFINE h == [run |-> IF s.readCb = 0 THEN "lostRead" ELSE "read", id |-> s.readCb,
                   lo |-> s.consumed, hi |-> r.consumed]
  <2>1. AddsRun(q, p, h)
    BY <1>6, PostingMoves DEF p, q
  <2>2. h.run # "close"
    OBVIOUS
  <2> HIDE DEF h
  <2>3. r.closeCb = s.closeCb
    BY <1>6 DEF PostsRead, CloseSide
  <2> QED BY <1>2, <2>1, <2>2, <2>3
<1>7. CASE PostsWrite(s, r)
  <2> DEFINE h == [run |-> IF s.writeCb = 0 THEN "noWrite" ELSE "write", id |-> s.writeCb,
                   lo |-> 0, hi |-> s.writeEnd]
  <2>1. AddsRun(q, p, h)
    BY <1>7, PostingMoves DEF p, q
  <2>2. h.run # "close"
    OBVIOUS
  <2> HIDE DEF h
  <2>3. r.closeCb = s.closeCb
    BY <1>7 DEF PostsWrite, CloseSide
  <2> QED BY <1>2, <2>1, <2>2, <2>3
<1>8. CASE PostsClose(s, r)
  <2>1. RunsAt(q) = {} /\ s.closeCb /\ ~r.closeCb
    BY <1>8, NothingPosted DEF PostsClose, q
  <2>2. ~ClosePosted(q)
    BY <2>1 DEF ClosePosted
  <2> QED BY <2>1, <2>2 DEF ClosesSet, q
<1> QED BY <1>3, <1>4, <1>5, <1>6, <1>7, <1>8 DEF Move

LEMMA LeftMoves ==
    ASSUME NEW s, Base(s), Left(s), NEW r \in StreamType, Move(s, r)
    PROVE  Left(r)
<1> DEFINE q == s.queue
           p == r.queue
<1> USE DEF EndsWell, AllGone
<1>0. /\ s.sent \in Nat /\ s.written \in Nat /\ s.wq \in Seq(Nat)
      /\ r.sent \in Nat /\ r.written \in Nat /\ r.wq \in Seq(Nat)
  BY DEF Base, Sound, StreamType
<1>1. EndsWell(s) /\ \A i \in RunsAt(q) : q[i].run = "write" => AllGone(q[i].hi, s)
  BY DEF Left
<1>2. \A i \in RunsAt(q) : q[i].hi \in Nat
  <2>1. \A i \in RunsAt(q) : q[i] \in Runs
    BY RunsTyped
  <2> QED BY <2>1 DEF Runs
<1> HIDE DEF p, q
<1>3. ASSUME SameRuns(q, p), EndsWell(r), \A hi \in Nat : AllGone(hi, s) => AllGone(hi, r)
      PROVE  Left(r)
  <2> HIDE DEF AllGone, EndsWell
  <2>1. \A i \in RunsAt(p) : p[i].run = "write" => AllGone(p[i].hi, r)
    BY <1>1, <1>2, <1>3 DEF SameRuns
  <2> QED BY <1>3, <2>1 DEF Left, p
<1>4. ASSUME NEW h, AddsRun(q, p, h), h.run = "write" => AllGone(h.hi, r), EndsWell(r),
             \A hi \in Nat : AllGone(hi, s) => AllGone(hi, r)
      PROVE  Left(r)
  <2>1. PICK n \in Nat : /\ RunsAt(p) = RunsAt(q) \cup {n} /\ p[n] = h
                         /\ \A i \in RunsAt(q) : i < n /\ p[i] = q[i]
    BY <1>4 DEF AddsRun
  <2> HIDE DEF AllGone, EndsWell
  <2>2. \A i \in RunsAt(p) : p[i].run = "write" => AllGone(p[i].hi, r)
    BY <1>1, <1>2, <1>4, <2>1
  <2> QED BY <1>4, <2>2 DEF Left, p
<1>5. ASSUME WriteSide(r) = WriteSide(s), Called(r) = Called(s), Closed(s) => Closed(r)
      PROVE  EndsWell(r) /\ \A hi \in Nat : AllGone(hi, s) => AllGone(hi, r)
  BY <1>1, <1>5 DEF WriteSide, Called
<1>6. CASE Waits(s, r)
  BY <1>3, <1>5, <1>6, QuietMoves DEF Waits, p, q
<1>7. CASE Forgets(s, r)
  <2>1. EndsWell(r)
    BY <1>1, <1>7 DEF Forgets, Given, CloseSide, Closed
  <2>2. \A hi \in Nat : AllGone(hi, s) => AllGone(hi, r)
    <3> TAKE hi \in Nat
    <3> HAVE AllGone(hi, s)
    <3>1. r.sent = s.sent /\ r.written = s.written /\ (r.wq = s.wq \/ r.wq = <<>>)
      BY <1>7 DEF Forgets, Given
    <3>2. \A k \in 1..Len(r.wq) : hi <= r.wq[k]
      BY <3>1
    <3> QED BY <3>1, <3>2
  <2> QED BY <1>3, <1>7, <2>1, <2>2, QuietMoves DEF p, q
<1>8. CASE Sends(s, r)
  <2>1. PICK k \in 0..Len(s.wq) : r.wq = SubSeq(s.wq, k + 1, Len(s.wq))
    BY <1>8 DEF Sends
  <2>2. /\ s.wq # <<>> /\ r.writeEnd = s.writeEnd /\ r.written = s.written
        /\ \/ r.sent = s.written
           \/ r.sent >= s.sent
           \/ \E i \in 1..Len(s.wq) : r.sent >= s.wq[i]
        /\ r.wq = <<>> => r.sent \in {s.written, s.wq[Len(s.wq)]}
    BY <1>8 DEF Sends, Given
  <2>3. /\ Len(s.wq) \in Nat \ {0} /\ Len(r.wq) = Len(s.wq) - k
        /\ \A i \in 1..Len(r.wq) : r.wq[i] = s.wq[i + k]
    <3> DEFINE w == s.wq
               v == SubSeq(w, k + 1, Len(w))
               n == Len(w)
    <3>1. n \in Nat \ {0} /\ \A i \in (k + 1)..n : w[i] \in Nat
      BY <1>0, <2>2, EmptySeq
    <3>2. k + 1 \in Int /\ n \in Int /\ k \in 0..n
      BY <2>1, <3>1
    <3>3. /\ Len(v) = IF k + 1 <= n THEN n - (k + 1) + 1 ELSE 0
          /\ \A i \in 1..(n - (k + 1) + 1) : v[i] = w[(k + 1) + i - 1]
      BY <3>1, <3>2, SubSeqProperties
    <3> HIDE DEF v, n
    <3>4. n - (k + 1) + 1 = n - k /\ Len(v) = n - k
      BY <3>1, <3>2, <3>3
    <3>5. \A i \in 1..(n - k) : (k + 1) + i - 1 = i + k
      BY <3>1, <3>2
    <3>6. \A i \in 1..Len(v) : v[i] = w[i + k]
      BY <3>3, <3>4, <3>5
    <3> QED BY <2>1, <3>1, <3>4, <3>6 DEF v, n
  <2>4. r.wq # <<>> => r.wq[Len(r.wq)] = s.wq[Len(s.wq)]
    <3> HAVE r.wq # <<>>
    <3>1. Len(r.wq) \in Nat \ {0}
      BY <1>0, EmptySeq
    <3>2. Len(r.wq) \in 1..Len(r.wq) /\ Len(r.wq) + k = Len(s.wq)
      BY <2>1, <2>3, <3>1
    <3> QED BY <2>3, <3>2
  <2>5. EndsWell(r)
    BY <1>1, <2>2, <2>4
  <2>6. \A hi \in Nat : AllGone(hi, s) => AllGone(hi, r)
    <3> TAKE hi \in Nat
    <3> HAVE AllGone(hi, s)
    <3>1. hi <= r.sent
      <4>1. \A i \in 1..Len(s.wq) : s.wq[i] \in Nat
        BY <1>0
      <4> QED BY <1>0, <2>2, <4>1
    <3>2. \A i \in 1..Len(r.wq) : i + k \in 1..Len(s.wq)
      BY <1>0, <2>1, <2>3
    <3>3. \A i \in 1..Len(r.wq) : hi <= r.wq[i]
      BY <2>3, <3>2
    <3> QED BY <2>2, <3>1, <3>3
  <2> QED BY <1>3, <1>8, <2>5, <2>6, QuietMoves DEF p, q
<1>9. CASE PostsConnect(s, r)
  <2> DEFINE h == [run |-> "connect", id |-> 0, lo |-> 0, hi |-> 0]
  <2>1. AddsRun(q, p, h)
    BY <1>9, PostingMoves DEF p, q
  <2>2. h.run # "write"
    OBVIOUS
  <2> HIDE DEF h
  <2>3. EndsWell(r) /\ \A hi \in Nat : AllGone(hi, s) => AllGone(hi, r)
    BY <1>5, <1>9 DEF PostsConnect, Posts, Given, Called, CloseSide, Closed
  <2> QED BY <1>4, <2>1, <2>2, <2>3
<1>10. CASE PostsStream(s, r)
  <2> DEFINE h == [run |-> "stream", id |-> s.streamCb, lo |-> s.consumed, hi |-> r.consumed]
  <2>1. AddsRun(q, p, h)
    BY <1>10, PostingMoves DEF p, q
  <2>2. h.run # "write"
    OBVIOUS
  <2> HIDE DEF h
  <2>3. EndsWell(r) /\ \A hi \in Nat : AllGone(hi, s) => AllGone(hi, r)
    BY <1>5, <1>10 DEF PostsStream, Posts, Given, Called, CloseSide, Closed
  <2> QED BY <1>4, <2>1, <2>2, <2>3
<1>11. CASE PostsRead(s, r)
  <2> DEFINE h == [run |-> IF s.readCb = 0 THEN "lostRead" ELSE "read", id |-> s.readCb,
                   lo |-> s.consumed, hi |-> r.consumed]
  <2>1. AddsRun(q, p, h)
    BY <1>11, PostingMoves DEF p, q
  <2>2. h.run # "write"
    OBVIOUS
  <2> HIDE DEF h
  <2>3. EndsWell(r) /\ \A hi \in Nat : AllGone(hi, s) => AllGone(hi, r)
    BY <1>5, <1>11 DEF PostsRead, Posts, Given, Called, CloseSide, Closed
  <2> QED BY <1>4, <2>1, <2>2, <2>3
<1>12. CASE PostsWrite(s, r)
  <2> DEFINE h == [run |-> IF s.writeCb = 0 THEN "noWrite" ELSE "write", id |-> s.writeCb,
                   lo |-> 0, hi |-> s.writeEnd]
  <2>1. AddsRun(q, p, h)
    BY <1>12, PostingMoves DEF p, q
  <2>2. h.hi = s.writeEnd
    OBVIOUS
  <2> HIDE DEF h
  <2>3. /\ s.wq = <<>> /\ r.wq = <<>> /\ r.sent = s.sent /\ (s.writeCb = 0 => ~Closed(s))
        /\ r.written = s.written /\ r.writeEnd = s.writeEnd
    BY <1>12 DEF PostsWrite, Posts, Given
  <2>4. s.sent = s.written /\ s.writeEnd = s.written
    BY <1>1, <2>3
  <2>5. EndsWell(r)
    BY <1>1, <2>3, <2>4
  <2>6. Len(r.wq) = 0 /\ Len(s.wq) = 0 /\ s.sent <= s.sent
    BY <1>0, <2>3, EmptySeq
  <2>7. AllGone(h.hi, r) /\ \A hi \in Nat : AllGone(hi, s) => AllGone(hi, r)
    BY <1>0, <2>2, <2>3, <2>4, <2>6
  <2> HIDE DEF AllGone, EndsWell
  <2> QED BY <1>4, <2>1, <2>5, <2>7
<1>13. CASE PostsClose(s, r)
  <2> DEFINE h == [run |-> "close", id |-> s.reads, lo |-> 0, hi |-> 0]
  <2>1. AddsRun(q, p, h)
    BY <1>13, PostingMoves DEF p, q
  <2>2. h.run # "write"
    OBVIOUS
  <2> HIDE DEF h
  <2>3. /\ r.wq = <<>> /\ r.sent = s.sent /\ r.writeCb = 0 /\ r.closed = s.closed /\ s.closed
        /\ r.written = s.written /\ r.writeEnd = s.writeEnd
    BY <1>13 DEF PostsClose, Posts, Given
  <2>4. EndsWell(r)
    BY <1>1, <2>3 DEF Closed
  <2>5. Len(r.wq) = 0
    BY <2>3, EmptySeq
  <2>6. \A hi \in Nat : AllGone(hi, s) => AllGone(hi, r)
    BY <2>3, <2>5
  <2> HIDE DEF AllGone, EndsWell
  <2> QED BY <1>4, <2>1, <2>2, <2>4, <2>6
<1> QED BY <1>6, <1>7, <1>8, <1>9, <1>10, <1>11, <1>12, <1>13 DEF Move

LEMMA OneEndMoves ==
    ASSUME NEW s, Base(s), OneEnd(s), NEW r \in StreamType, Move(s, r)
    PROVE  OneEnd(r)
<1> DEFINE q == s.queue
           p == r.queue
<1> HIDE DEF p, q
<1>1. ~Closed(s) => /\ s.readCb = 0 => Criteria(s) = {}
                    /\ \A c, d \in Criteria(s) : c = d
                    /\ \A i \in RunsAt(q) : q[i].run # "lostRead"
  BY DEF OneEnd, q
<1>2. ASSUME SameRuns(q, p), Criteria(r) = Criteria(s), Closed(s) => Closed(r),
             r.readCb = s.readCb \/ Closed(s)
      PROVE  OneEnd(r)
  BY <1>1, <1>2 DEF SameRuns, OneEnd, p
<1>3. ASSUME NEW h, AddsRun(q, p, h), Closed(s) => Closed(r),
             ~Closed(s) => /\ h.run # "lostRead"
                           /\ r.readCb = 0 => Criteria(r) = {}
                           /\ \A c, d \in Criteria(r) : c = d
      PROVE  OneEnd(r)
  <2>1. PICK n \in Nat : /\ RunsAt(p) = RunsAt(q) \cup {n} /\ p[n] = h
                         /\ \A i \in RunsAt(q) : i < n /\ p[i] = q[i]
    BY <1>3 DEF AddsRun
  <2> QED BY <1>1, <1>3, <2>1 DEF OneEnd, p
<1>4. CASE Waits(s, r)
  BY <1>2, <1>4, QuietMoves DEF Waits, ReadSide, p, q
<1>5. CASE Forgets(s, r)
  BY <1>2, <1>5, QuietMoves DEF Forgets, CloseSide, Closed, p, q
<1>6. CASE Sends(s, r)
  BY <1>2, <1>6, QuietMoves DEF Sends, ReadSide, CloseSide, Closed, p, q
<1>7. CASE PostsConnect(s, r)
  <2> DEFINE h == [run |-> "connect", id |-> 0, lo |-> 0, hi |-> 0]
  <2>1. AddsRun(q, p, h)
    BY <1>7, PostingMoves DEF p, q
  <2>2. h.run # "lostRead"
    OBVIOUS
  <2> HIDE DEF h
  <2>3. r.readCb = s.readCb /\ Criteria(r) = Criteria(s) /\ (Closed(s) => Closed(r))
    BY <1>7 DEF PostsConnect, ReadSide, CloseSide, Closed
  <2> QED BY <1>1, <1>3, <2>1, <2>2, <2>3
<1>8. CASE PostsStream(s, r)
  <2> DEFINE h == [run |-> "stream", id |-> s.streamCb, lo |-> s.consumed, hi |-> r.consumed]
  <2>1. AddsRun(q, p, h)
    BY <1>8, PostingMoves DEF p, q
  <2>2. h.run # "lostRead"
    OBVIOUS
  <2> HIDE DEF h
  <2>3. r.readCb = s.readCb /\ Criteria(r) = Criteria(s) /\ (Closed(s) => Closed(r))
    BY <1>8 DEF PostsStream, CloseSide, Closed
  <2> QED BY <1>1, <1>3, <2>1, <2>2, <2>3
<1>9. CASE PostsRead(s, r)
  <2> DEFINE h == [run |-> IF s.readCb = 0 THEN "lostRead" ELSE "read", id |-> s.readCb,
                   lo |-> s.consumed, hi |-> r.consumed]
  <2>1. AddsRun(q, p, h)
    BY <1>9, PostingMoves DEF p, q
  <2>2. s.readCb # 0 => h.run # "lostRead"
    OBVIOUS
  <2> HIDE DEF h
  <2>3. /\ Closed(s) => Closed(r)
        /\ ~Closed(s) => \E c \in Criteria(s) : Criteria(r) = Criteria(s) \ {c}
    BY <1>9 DEF PostsRead, CloseSide, Closed
  <2>4. ~Closed(s) => s.readCb # 0 /\ Criteria(r) = {}
    BY <1>1, <2>3
  <2> QED BY <1>3, <2>1, <2>2, <2>3, <2>4
<1>10. CASE PostsWrite(s, r)
  <2> DEFINE h == [run |-> IF s.writeCb = 0 THEN "noWrite" ELSE "write", id |-> s.writeCb,
                   lo |-> 0, hi |-> s.writeEnd]
  <2>1. AddsRun(q, p, h)
    BY <1>10, PostingMoves DEF p, q
  <2>2. h.run # "lostRead"
    OBVIOUS
  <2> HIDE DEF h
  <2>3. r.readCb = s.readCb /\ Criteria(r) = Criteria(s) /\ (Closed(s) => Closed(r))
    BY <1>10 DEF PostsWrite, ReadSide, CloseSide, Closed
  <2> QED BY <1>1, <1>3, <2>1, <2>2, <2>3
<1>11. CASE PostsClose(s, r)
  BY <1>11 DEF PostsClose, Closed, OneEnd
<1> QED BY <1>4, <1>5, <1>6, <1>7, <1>8, <1>9, <1>10, <1>11 DEF Move

\* The streams that owe the application what the history says.
Owing(from, f, runs, sets) == {s \in StreamType : Owes(s, from, f, runs, sets)}

LEMMA OwingKept ==
    ASSUME NEW from \in Nat, NEW f, NEW runs \in Nat, NEW sets \in Nat
    PROVE  Kept(Owing(from, f, runs, sets))
<1>1. \A s \in Owing(from, f, runs, sets) : Base(s)
  BY DEF Owing, Owes
<1>2. ASSUME NEW s \in Owing(from, f, runs, sets), NEW r \in StreamType, Base(r), Move(s, r)
      PROVE  r \in Owing(from, f, runs, sets)
  <2>1. /\ Base(s) /\ Counted(s) /\ Chain(s.queue, from, s.consumed) /\ Answers(s, f)
        /\ CloseLast(s) /\ ClosesSet(s, runs, sets) /\ Left(s) /\ OneEnd(s)
    BY DEF Owing, Owes
  <2>2. Counted(r) /\ Chain(r.queue, from, r.consumed) /\ Answers(r, f)
    BY <1>2, <2>1, CountedMoves, ChainMoves, AnswersMoves
  <2>3. CloseLast(r) /\ ClosesSet(r, runs, sets)
    BY <1>2, <2>1, CloseLastMoves, ClosesSetMoves
  <2>4. Left(r) /\ OneEnd(r)
    BY <1>2, <2>1, LeftMoves, OneEndMoves
  <2> QED BY <1>2, <2>2, <2>3, <2>4 DEF Owing, Owes
<1> QED BY <1>1, <1>2 DEF Kept
-----------------------------------------------------------------------------
\* The calls of the application

LEMMA OwingBase ==
    ASSUME NEW from, NEW f, NEW runs, NEW sets, NEW s \in Owing(from, f, runs, sets)
    PROVE  /\ s \in StreamType /\ Base(s) /\ Counted(s) /\ Chain(s.queue, from, s.consumed)
           /\ Answers(s, f) /\ CloseLast(s) /\ ClosesSet(s, runs, sets) /\ Left(s) /\ OneEnd(s)
BY DEF Owing, Owes

\* The stream is opened: its connect callback is set, if at all, while it is open.
LEMMA OpenedOwes ==
    ASSUME NEW from, NEW f, NEW runs, NEW sets, NEW s \in Owing(from, f, runs, sets),
           NEW r \in StreamType, ReadSide(r) = ReadSide(s), WriteSide(r) = WriteSide(s),
           CloseSide(r) = CloseSide(s), r.queue = s.queue, r.pending = s.pending,
           r.reads = s.reads, r.written = s.written, r.writeEnd = s.writeEnd,
           Closed(s) => (Connects(r) => Connects(s))
    PROVE  r \in Owing(from, f, runs, sets)
<1>1. /\ s \in StreamType /\ Base(s) /\ Counted(s) /\ Chain(s.queue, from, s.consumed)
      /\ Answers(s, f) /\ CloseLast(s) /\ ClosesSet(s, runs, sets) /\ Left(s) /\ OneEnd(s)
  BY OwingBase
<1>2. Base(r) /\ Counted(r) /\ Chain(r.queue, from, r.consumed)
  BY <1>1 DEF Base, Sound, Counted, CloseSide, ReadSide
<1>3. Answers(r, f)
  BY <1>1 DEF Answers, ReadSide
<1>4. CloseLast(r)
  BY <1>1 DEF CloseLast, ReadSide, WriteSide, CloseSide, Closed
<1>5. ClosesSet(r, runs, sets)
  BY <1>1 DEF ClosesSet, CloseSide
<1>6. Left(r)
  BY <1>1 DEF Left, EndsWell, AllGone, WriteSide, CloseSide, Closed
<1>7. OneEnd(r)
  BY <1>1 DEF OneEnd, ReadSide, CloseSide, Closed
<1> QED BY <1>2, <1>3, <1>4, <1>5, <1>6, <1>7 DEF Owing, Owes

\* A read is called while none waits: it gets the next number.
LEMMA ReadOwes ==
    ASSUME NEW from, NEW f, NEW runs, NEW sets, NEW s \in Owing(from, f, runs, sets),
           s.readCb = 0, NEW r \in StreamType,
           r.reads = s.reads + 1, r.readCb = s.reads + 1, r.streamCb \in {0, s.reads + 1, s.streamCb},
           r.consumed = s.consumed, WriteSide(r) = WriteSide(s), CloseSide(r) = CloseSide(s),
           r.queue = s.queue, r.pending = s.pending, r.written = s.written,
           r.writeEnd = s.writeEnd, Connects(r) = Connects(s),
           NEW c, ~Closed(s) => Criteria(r) \subseteq Criteria(s) \cup {c}
    PROVE  r \in Owing(from, f, runs, sets)
<1>1. /\ s \in StreamType /\ Base(s) /\ Counted(s) /\ Chain(s.queue, from, s.consumed)
      /\ Answers(s, f) /\ CloseLast(s) /\ ClosesSet(s, runs, sets) /\ Left(s) /\ OneEnd(s)
  BY OwingBase
<1>2. s.reads \in Nat /\ s.streamCb \in Nat /\ r.streamCb \in Nat
  BY <1>1 DEF StreamType
<1>3. Base(r) /\ Counted(r) /\ Chain(r.queue, from, r.consumed)
  BY <1>1 DEF Base, Sound, Counted, CloseSide
<1>4. Answers(r, f)
  <2>1. /\ f \subseteq 1..s.reads /\ s.streamCb <= s.reads
        /\ \A i \in RunsAt(s.queue) : s.queue[i].run = "read" =>
             /\ s.queue[i].id \in 1..s.reads /\ s.queue[i].id \notin f
             /\ \A j \in RunsAt(s.queue) :
                  j # i /\ s.queue[j].run = "read" => s.queue[j].id # s.queue[i].id
    BY <1>1 DEF Answers
  <2>2. 1..s.reads \subseteq 1..(s.reads + 1) /\ s.reads + 1 \notin 1..s.reads
    BY <1>2
  <2>3. f \subseteq 1..r.reads /\ r.readCb \notin f /\ r.streamCb <= r.reads /\ r.readCb <= r.reads
    BY <1>2, <2>1, <2>2
  <2>4. \A i \in RunsAt(r.queue) : r.queue[i].run = "read" =>
          /\ r.queue[i].id \in 1..r.reads /\ r.queue[i].id # r.readCb /\ r.queue[i].id \notin f
          /\ \A j \in RunsAt(r.queue) :
               j # i /\ r.queue[j].run = "read" => r.queue[j].id # r.queue[i].id
    BY <2>1, <2>2
  <2> QED BY <2>3, <2>4 DEF Answers
<1>5. CloseLast(r)
  <2>1. \A i \in RunsAt(s.queue) : s.queue[i].id \in Nat
    <3>1. \A i \in RunsAt(s.queue) : s.queue[i] \in Runs
      BY <1>1, RunsTyped
    <3> QED BY <3>1 DEF Runs
  <2>2. r.closed = s.closed /\ r.writeCb = s.writeCb
    BY DEF WriteSide, CloseSide
  <2> QED BY <1>1, <1>2, <2>1, <2>2 DEF CloseLast
<1>6. ClosesSet(r, runs, sets)
  BY <1>1 DEF ClosesSet, CloseSide
<1>7. Left(r)
  BY <1>1 DEF Left, EndsWell, AllGone, WriteSide, CloseSide, Closed
<1>8. OneEnd(r)
  BY <1>1, <1>2 DEF OneEnd, CloseSide, Closed
<1> QED BY <1>3, <1>4, <1>5, <1>6, <1>7, <1>8 DEF Owing, Owes

\* The close callback is set or reset.
LEMMA CloseCallbackOwes ==
    ASSUME NEW from, NEW f, NEW runs \in Nat, NEW sets \in Nat,
           NEW s \in Owing(from, f, runs, sets)
    PROVE  /\ [s EXCEPT !.closeCb = TRUE] \in Owing(from, f, runs, sets + 1)
           /\ [s EXCEPT !.closeCb = FALSE] \in Owing(from, f, runs, sets)
<1>1. /\ s \in StreamType /\ Base(s) /\ Counted(s) /\ Chain(s.queue, from, s.consumed)
      /\ Answers(s, f) /\ CloseLast(s) /\ ClosesSet(s, runs, sets) /\ Left(s) /\ OneEnd(s)
  BY OwingBase
<1>2. ASSUME NEW r \in StreamType, NEW b \in BOOLEAN, r = [s EXCEPT !.closeCb = b],
             NEW m \in Nat, ClosesSet(r, runs, m)
      PROVE  r \in Owing(from, f, runs, m)
  <2>1. /\ ReadSide(r) = ReadSide(s) /\ WriteSide(r) = WriteSide(s) /\ r.closing = s.closing
        /\ r.closed = s.closed /\ r.queue = s.queue /\ r.pending = s.pending
        /\ r.reads = s.reads /\ r.written = s.written /\ r.writeEnd = s.writeEnd
        /\ Connects(r) = Connects(s)
    BY <1>1, <1>2 DEF StreamType, ReadSide, Criteria, WriteSide, Connects
  <2>2. Base(r) /\ Counted(r) /\ Chain(r.queue, from, r.consumed)
    BY <1>1, <2>1 DEF Base, Sound, Counted, ReadSide
  <2>3. Answers(r, f)
    BY <1>1, <2>1 DEF Answers, ReadSide
  <2>4. CloseLast(r)
    BY <1>1, <2>1 DEF CloseLast, ReadSide, WriteSide
  <2>5. Left(r)
    BY <1>1, <2>1 DEF Left, EndsWell, AllGone, WriteSide, Closed
  <2>6. OneEnd(r)
    BY <1>1, <2>1 DEF OneEnd, ReadSide, Closed
  <2> QED BY <1>2, <2>2, <2>3, <2>4, <2>5, <2>6 DEF Owing, Owes
<1>3. LET r == [s EXCEPT !.closeCb = TRUE]
      IN  r \in StreamType /\ r.closeCb /\ r.queue = s.queue
  BY <1>1 DEF StreamType
<1>4. LET r == [s EXCEPT !.closeCb = FALSE]
      IN  r \in StreamType /\ ~r.closeCb /\ r.queue = s.queue
  BY <1>1 DEF StreamType
<1>5. ClosesSet([s EXCEPT !.closeCb = TRUE], runs, sets + 1)
  <2> DEFINE n == IF ClosePosted(s.queue) THEN 1 ELSE 0
             m == IF s.closeCb THEN 1 ELSE 0
  <2>1. n \in {0, 1} /\ m \in {0, 1} /\ runs + n + m <= sets
    BY <1>1 DEF ClosesSet
  <2> HIDE DEF n, m
  <2>2. runs + n + 1 <= sets + 1
    BY <2>1
  <2> QED BY <1>3, <2>2 DEF ClosesSet, n
<1>6. ClosesSet([s EXCEPT !.closeCb = FALSE], runs, sets)
  <2> DEFINE n == IF ClosePosted(s.queue) THEN 1 ELSE 0
             m == IF s.closeCb THEN 1 ELSE 0
  <2>1. n \in {0, 1} /\ m \in {0, 1} /\ runs + n + m <= sets
    BY <1>1 DEF ClosesSet
  <2> HIDE DEF n, m
  <2>2. runs + n + 0 <= sets
    BY <2>1
  <2> QED BY <1>4, <2>2 DEF ClosesSet, n
<1>7. [s EXCEPT !.closeCb = TRUE] \in Owing(from, f, runs, sets + 1)
  <2> DEFINE r == [s EXCEPT !.closeCb = TRUE]
  <2>1. r \in StreamType /\ TRUE \in BOOLEAN /\ sets + 1 \in Nat
    BY <1>3
  <2>2. ClosesSet(r, runs, sets + 1)
    BY <1>5
  <2> QED BY <1>2, <2>1, <2>2
<1>8. [s EXCEPT !.closeCb = FALSE] \in Owing(from, f, runs, sets)
  <2> DEFINE r == [s EXCEPT !.closeCb = FALSE]
  <2>1. r \in StreamType /\ FALSE \in BOOLEAN
    BY <1>4
  <2>2. ClosesSet(r, runs, sets)
    BY <1>6
  <2> QED BY <1>2, <2>1, <2>2
<1> QED BY <1>7, <1>8

\* The packets of a write end where the written bytes end, and begin behind
\* those written before.
LEMMA PacketsEnds ==
    ASSUME NEW from \in Nat, NEW len \in Nat
    PROVE  LET p == Packets(from, len)
           IN  /\ p \in Seq(Nat) /\ \A i \in 1..Len(p) : from <= p[i]
               /\ p # <<>> => p[Len(p)] = from + len
               /\ p = <<>> => len = 0
<1> DEFINE k == (len + ChunkSize - 1) \div ChunkSize
           P(i) == IF i * ChunkSize < len THEN from + i * ChunkSize ELSE from + len
           p == Packets(from, len)
<1>1. ChunkSize \in Nat \ {0}
  BY BoundsAssumption
<1>2. p \in Seq(Nat)
  BY PacketsType
<1>3. k \in Nat /\ ~(k * ChunkSize < len) /\ (k = 0 => len = 0)
  <2>1. k \in Int /\ k * ChunkSize <= len + ChunkSize - 1 /\ len + ChunkSize - 1 < (k + 1) * ChunkSize
    BY <1>1
  <2>2. (k + 1) * ChunkSize = k * ChunkSize + ChunkSize
    BY <1>1, <2>1
  <2> DEFINE m == k * ChunkSize
  <2>3. m \in Int /\ len + ChunkSize - 1 < m + ChunkSize
    BY <1>1, <2>1, <2>2
  <2>4. k \in Nat
    BY <1>1
  <2>5. k = 0 => m = 0
    BY <1>1
  <2> HIDE DEF m, k
  <2>6. ~(m < len)
    BY <1>1, <2>3
  <2>7. k = 0 => len = 0
    BY <2>5, <2>6
  <2> QED BY <2>4, <2>6, <2>7 DEF m
<1>4. p = [i \in 1..k |-> P(i)]
  BY DEF Packets
<1>5. \A i \in 1..k : from <= P(i)
  <2> TAKE i \in 1..k
  <2> DEFINE m == i * ChunkSize
  <2>1. m \in Int /\ m >= 0
    BY <1>1, <1>3
  <2> HIDE DEF m
  <2>2. from <= (IF m < len THEN from + m ELSE from + len)
    BY <2>1
  <2> QED BY <2>2 DEF m
<1>6. P(k) = from + len
  BY <1>3
<1>7. Len(p) = k /\ DOMAIN p = 1..k
  <2>1. DOMAIN p = 1..Len(p) /\ Len(p) \in Nat
    BY <1>2, LenProperties
  <2>2. DOMAIN p = 1..k
    BY <1>4
  <2>3. k \in Nat
    BY <1>3
  <2>4. \A a, b \in Nat : 1..a = 1..b => a = b
    <3> TAKE a \in Nat, b \in Nat
    <3> HAVE 1..a = 1..b
    <3>1. (a # 0 => a \in 1..b) /\ (b # 0 => b \in 1..a)
      OBVIOUS
    <3> QED BY <3>1
  <2> HIDE DEF k, p
  <2> QED BY <2>1, <2>2, <2>3, <2>4
<1> HIDE DEF P, k
<1>8. \A i \in 1..Len(p) : from <= p[i]
  BY <1>4, <1>5, <1>7
<1>9. ASSUME p # <<>> PROVE p[Len(p)] = from + len
  <2>1. Len(p) # 0
    BY <1>2, <1>9, EmptySeq
  <2>2. k \in 1..k
    BY <1>3, <1>7, <2>1
  <2> HIDE DEF p
  <2> QED BY <1>4, <1>6, <1>7, <2>2
<1>10. ASSUME p = <<>> PROVE len = 0
  <2>1. Len(p) = 0
    BY <1>10, EmptySeq
  <2> QED BY <1>3, <1>7, <2>1
<1> QED BY <1>2, <1>8, <1>9, <1>10

\* A write on an open stream is queued behind those before it.
LEMMA EnqueueOwes ==
    ASSUME NEW from, NEW f, NEW runs, NEW sets, NEW s \in Owing(from, f, runs, sets),
           ~Closed(s), NEW len \in Nat, NEW cb \in Nat
    PROVE  Enqueue(s, len, cb) \in Owing(from, f, runs, sets)
<1> DEFINE a == Packets(s.written, len)
           w == s.wq \o a
           end == s.written + len
           r == Enqueue(s, len, cb)
<1>1. /\ s \in StreamType /\ Base(s) /\ Counted(s) /\ Chain(s.queue, from, s.consumed)
      /\ Answers(s, f) /\ CloseLast(s) /\ ClosesSet(s, runs, sets) /\ Left(s) /\ OneEnd(s)
  BY OwingBase
<1>2. /\ s.written \in Nat /\ s.sent \in Nat /\ s.wq \in Seq(Nat)
  BY <1>1 DEF StreamType
<1>3. /\ a \in Seq(Nat) /\ \A i \in 1..Len(a) : s.written <= a[i]
      /\ a # <<>> => a[Len(a)] = end
      /\ a = <<>> => len = 0
  BY <1>2, PacketsEnds
<1> HIDE DEF a
<1>4. /\ w \in Seq(Nat) /\ Len(w) = Len(s.wq) + Len(a)
      /\ \A i \in 1..(Len(s.wq) + Len(a)) : w[i] = IF i <= Len(s.wq) THEN s.wq[i] ELSE a[i - Len(s.wq)]
  BY <1>2, <1>3, ConcatProperties
<1>5. end \in Nat
  BY <1>2
<1>6. r = [s EXCEPT !.wq = w, !.written = end, !.writeCb = cb, !.writeEnd = end]
  BY DEF Enqueue, a
<1> HIDE DEF w, r
<1>7. /\ r \in StreamType /\ ReadSide(r) = ReadSide(s) /\ CloseSide(r) = CloseSide(s)
      /\ r.queue = s.queue /\ r.pending = s.pending /\ r.reads = s.reads
      /\ Connects(r) = Connects(s) /\ r.sent = s.sent
      /\ r.wq = w /\ r.written = end /\ r.writeEnd = end
  <2> HIDE DEF end
  <2> QED BY <1>1, <1>4, <1>5, <1>6 DEF StreamType, ReadSide, Criteria, CloseSide, Connects
<1>8. Base(r) /\ Counted(r) /\ Chain(r.queue, from, r.consumed)
  BY <1>1, <1>7 DEF Base, Sound, Counted, CloseSide, ReadSide
<1>9. Answers(r, f)
  BY <1>1, <1>7 DEF Answers, ReadSide
<1>10. CloseLast(r)
  BY <1>1, <1>7 DEF CloseLast, Closed
<1>11. ClosesSet(r, runs, sets)
  BY <1>1, <1>7 DEF ClosesSet, CloseSide
<1>12. OneEnd(r)
  BY <1>1, <1>7 DEF OneEnd, ReadSide, CloseSide, Closed
<1> DEFINE m == Len(s.wq)
           n == Len(a)
<1>13. /\ m \in Nat /\ n \in Nat /\ Len(w) \in Nat /\ (m = 0 <=> s.wq = <<>>)
       /\ (n = 0 <=> a = <<>>) /\ (Len(w) = 0 <=> w = <<>>)
  BY <1>2, <1>3, <1>4, EmptySeq
<1>14. \A i \in 1..(m + n) : w[i] = IF i <= m THEN s.wq[i] ELSE a[i - m]
  BY <1>4
<1>15. EndsWell(r)
  <2>1. ASSUME n # 0 PROVE w # <<>> /\ w[Len(w)] = end
    <3>1. Len(w) = m + n /\ a # <<>>
      BY <1>4, <1>13, <2>1
    <3> HIDE DEF m, n
    <3>2. m + n \in 1..(m + n) /\ ~(m + n <= m) /\ m + n - m = n
      BY <1>13, <2>1
    <3>3. PICK k \in 1..(m + n) : k = m + n
      BY <3>2
    <3>4. ~(k <= m) /\ k - m = n
      BY <1>13, <2>1, <3>3
    <3>5. w[k] = a[k - m]
      BY <1>14, <3>4
    <3> QED BY <1>3, <1>13, <2>1, <3>1, <3>3, <3>4, <3>5 DEF n
  <2>2. ASSUME n = 0, m # 0 PROVE w # <<>> /\ w[Len(w)] = end
    <3>1. Len(w) = m /\ len = 0 /\ s.wq # <<>>
      BY <1>3, <1>4, <1>13, <2>2
    <3> HIDE DEF m, n
    <3>2. m \in 1..(m + n) /\ m <= m
      BY <1>13, <2>2
    <3>3. w[m] = s.wq[m]
      BY <1>14, <3>2
    <3>4. s.wq[m] = s.written
      BY <1>1, <3>1 DEF Left, EndsWell, m
    <3> QED BY <1>2, <1>13, <2>2, <3>1, <3>3, <3>4
  <2>3. ASSUME n = 0, m = 0 PROVE w = <<>> /\ s.sent = end
    <3>1. s.sent = s.written /\ len = 0
      BY <1>1, <1>3, <1>13, <2>3 DEF Left, EndsWell
    <3> QED BY <1>2, <1>4, <1>13, <2>3, <3>1
  <2> QED BY <1>7, <2>1, <2>2, <2>3 DEF EndsWell
<1>16. ASSUME NEW hi \in Nat, AllGone(hi, s) PROVE AllGone(hi, r)
  <2>1. hi <= r.sent /\ hi <= r.written
    BY <1>2, <1>7, <1>16 DEF AllGone
  <2>2. ASSUME NEW k \in 1..Len(w) PROVE hi <= w[k]
    <3> HIDE DEF m, n
    <3>1. k \in 1..(m + n)
      BY <1>4 DEF m, n
    <3>2. CASE k <= m
      <4>1. k \in 1..m /\ w[k] = s.wq[k]
        BY <1>13, <1>14, <3>1, <3>2
      <4> QED BY <1>16, <4>1 DEF AllGone, m
    <3>3. CASE ~(k <= m)
      <4>1. k - m \in 1..n /\ w[k] = a[k - m]
        BY <1>13, <1>14, <3>1, <3>3
      <4>2. s.written <= a[k - m] /\ a[k - m] \in Nat
        BY <1>3, <4>1 DEF n
      <4> QED BY <1>2, <1>16, <4>1, <4>2 DEF AllGone
    <3> QED BY <3>2, <3>3
  <2> QED BY <1>7, <2>1, <2>2 DEF AllGone
<1>17. Left(r)
  <2>1. \A i \in RunsAt(s.queue) : s.queue[i].hi \in Nat
    <3>1. \A i \in RunsAt(s.queue) : s.queue[i] \in Runs
      BY <1>1, RunsTyped
    <3> QED BY <3>1 DEF Runs
  <2> QED BY <1>1, <1>7, <1>15, <1>16, <2>1 DEF Left
<1> QED BY <1>7, <1>8, <1>9, <1>10, <1>11, <1>12, <1>17 DEF Owing, Owes, r

-----------------------------------------------------------------------------
\* The first handler leaves the queue

LEMMA TailRuns ==
    ASSUME NEW s, Base(s), s.queue # <<>>
    PROVE  LET q == s.queue
               p == Tail(q)
           IN  /\ p \in Seq(Runs \cup Ended) /\ Head(q) = q[1] /\ Head(q) \in Runs \cup Ended
               /\ 1 \in RunsAt(q) <=> IsRun(Head(q))
               /\ RunsAt(q) \subseteq Nat \ {0} /\ RunsAt(p) \subseteq Nat \ {0}
               /\ \A i \in Nat \ {0} : i \in RunsAt(p) <=> i + 1 \in RunsAt(q)
               /\ \A i \in RunsAt(p) : p[i] = q[i + 1]
<1> DEFINE q == s.queue
           p == Tail(q)
           T == Runs \cup Ended
           n == Len(q)
<1>1. q \in Seq(T) /\ q # <<>>
  BY DEF Base
<1> HIDE DEF T, q
<1>2. /\ Head(q) \in T /\ p \in Seq(T) /\ Len(p) = Len(q) - 1
      /\ \A i \in 1..Len(p) : p[i] = q[i + 1]
  BY <1>1, HeadTailProperties
<1>3. Head(q) = q[1]
  BY <1>1
<1>4. n \in Nat \ {0} /\ DOMAIN q = 1..n
  BY <1>1, EmptySeq, LenProperties
<1>5. DOMAIN p = 1..(n - 1)
  <2> HIDE DEF p
  <2> QED BY <1>2, LenProperties
<1>6. \A i \in 1..(n - 1) : p[i] = q[i + 1]
  BY <1>2
<1> HIDE DEF p, n
<1>7. RunsAt(q) \subseteq Nat \ {0} /\ RunsAt(p) \subseteq Nat \ {0}
  BY <1>4, <1>5 DEF RunsAt
<1>8. \A i \in Nat \ {0} : i \in RunsAt(p) <=> i + 1 \in RunsAt(q)
  <2> TAKE i \in Nat \ {0}
  <2>1. i \in 1..(n - 1) <=> i + 1 \in 1..n
    BY <1>4
  <2> QED BY <1>4, <1>5, <1>6, <2>1 DEF RunsAt
<1>9. \A i \in RunsAt(p) : p[i] = q[i + 1]
  BY <1>5, <1>6 DEF RunsAt
<1>10. 1 \in RunsAt(q) <=> IsRun(Head(q))
  BY <1>3, <1>4 DEF RunsAt
<1> QED BY <1>2, <1>3, <1>7, <1>8, <1>9, <1>10 DEF p, q, T

\* One callback fewer is posted if the first handler was one.
LEMMA TailCounts ==
    ASSUME NEW s, Base(s), s.queue # <<>>
    PROVE  Cardinality(RunsAt(Tail(s.queue))) =
               Cardinality(RunsAt(s.queue)) - (IF IsRun(Head(s.queue)) THEN 1 ELSE 0)
<1> DEFINE q == s.queue
           p == Tail(q)
           R == RunsAt(q) \ {1}
           P == RunsAt(p)
           F == [i \in P |-> i + 1]
<1>1. /\ 1 \in RunsAt(q) <=> IsRun(Head(q))
      /\ RunsAt(q) \subseteq Nat \ {0} /\ P \subseteq Nat \ {0}
      /\ \A i \in Nat \ {0} : i \in P <=> i + 1 \in RunsAt(q)
  BY TailRuns
<1>2. IsFiniteSet(RunsAt(q)) /\ Cardinality(RunsAt(q)) \in Nat
  BY RunsTyped
<1> HIDE DEF p, q
<1>3. /\ IsFiniteSet(R)
      /\ Cardinality(R) = IF 1 \in RunsAt(q) THEN Cardinality(RunsAt(q)) - 1 ELSE Cardinality(RunsAt(q))
  BY <1>2, FS_RemoveElement
<1>4. F \in Bijection(P, R)
  <2> HIDE DEF P
  <2>1. \A i \in P : i \in Nat \ {0} /\ i + 1 \in RunsAt(q) /\ i + 1 # 1
    <3> TAKE i \in P
    <3>1. i \in Nat \ {0}
      BY <1>1
    <3>2. i + 1 \in RunsAt(q)
      BY <1>1, <3>1
    <3> QED BY <3>1, <3>2
  <2>2. F \in [P -> R]
    BY <2>1
  <2>3. \A a, b \in P : F[a] = F[b] => a = b
    BY <2>1
  <2>4. \A t \in R : \E i \in P : F[i] = t
    <3> TAKE t \in R
    <3>1. t \in Nat \ {0} /\ t # 1 /\ t \in RunsAt(q)
      BY <1>1
    <3>2. t - 1 \in Nat \ {0} /\ (t - 1) + 1 = t
      BY <3>1
    <3>3. t - 1 \in P
      BY <1>1, <3>1, <3>2
    <3> QED BY <3>2, <3>3
  <2> HIDE DEF F, R
  <2> QED BY <2>2, <2>3, <2>4, Fun_IsBij
<1>5. ExistsBijection(P, R)
  BY <1>4, Fun_ExistsBij
<1>6. Cardinality(P) = Cardinality(R)
  <2>1. ExistsBijection(R, P)
    BY <1>5, Fun_ExistsBijSymmetric
  <2> HIDE DEF P, R
  <2> QED BY <1>3, <2>1, FS_Bijection
<1> QED BY <1>1, <1>2, <1>3, <1>6 DEF p, q

\* The history once the handler h has begun.
Handed(from, h) == IF IsData(h) THEN h.hi ELSE from
AnsweredBy(f, h) == IF IsRun(h) /\ h.run = "read" THEN f \cup {h.id} ELSE f
Closes(runs, h) == IF IsRun(h) /\ h.run = "close" THEN runs + 1 ELSE runs

LEMMA TailChain ==
    ASSUME NEW s, Base(s), s.queue # <<>>, NEW from, NEW to, Chain(s.queue, from, to)
    PROVE  Chain(Tail(s.queue), Handed(from, Head(s.queue)), to)
<1> DEFINE q == s.queue
           p == Tail(q)
           D == DataAt(q)
           E == DataAt(p)
<1>1. /\ Head(q) = q[1] /\ (1 \in RunsAt(q) <=> IsRun(Head(q)))
      /\ RunsAt(q) \subseteq Nat \ {0} /\ RunsAt(p) \subseteq Nat \ {0}
      /\ \A i \in Nat \ {0} : i \in RunsAt(p) <=> i + 1 \in RunsAt(q)
      /\ \A i \in RunsAt(p) : p[i] = q[i + 1]
  BY TailRuns
<1>2. Chain(q, from, to)
  OBVIOUS
<1> HIDE DEF p, q
<1>3. \A i \in E : i \in Nat \ {0} /\ i + 1 \in D /\ p[i] = q[i + 1]
  BY <1>1 DEF DataAt
<1>4. \A k \in D : k \in Nat \ {0} /\ (k = 1 \/ k - 1 \in E)
  <2> TAKE k \in D
  <2>1. k \in Nat \ {0} /\ k \in RunsAt(q) /\ IsData(q[k])
    BY <1>1 DEF DataAt
  <2>2. ASSUME k # 1 PROVE k - 1 \in E
    <3>1. k - 1 \in Nat \ {0} /\ (k - 1) + 1 = k
      BY <2>1, <2>2
    <3>2. k - 1 \in RunsAt(p) /\ p[k - 1] = q[k]
      BY <1>1, <2>1, <3>1
    <3> QED BY <2>1, <3>2 DEF DataAt
  <2> QED BY <2>1, <2>2
<1>5. 1 \in D <=> IsData(Head(q))
  BY <1>1 DEF DataAt, IsData
<1>6. /\ D = {} => to = from
      /\ \A j \in D : (\A i \in D : j <= i) => q[j].lo = from
      /\ \A j \in D : (\A i \in D : i <= j) => q[j].hi = to
      /\ \A i, j \in D : i < j /\ (\A k \in D : k <= i \/ j <= k) => q[j].lo = q[i].hi
  BY <1>2 DEF Chain
<1> DEFINE first == Handed(from, Head(q))
<1>7. first = IF 1 \in D THEN q[1].hi ELSE from
  BY <1>1, <1>5 DEF Handed
<1> HIDE DEF D, E, first
<1>8. ASSUME E = {} PROVE to = first
  <2>1. \A k \in D : k = 1
    BY <1>4, <1>8
  <2> QED BY <1>6, <1>7, <2>1
<1>9. ASSUME NEW j \in E, \A i \in E : j <= i
      PROVE  p[j].lo = first
  <2>1. j + 1 \in D /\ p[j] = q[j + 1] /\ j \in Nat \ {0}
    BY <1>3
  <2>2. \A k \in D : k = 1 \/ j + 1 <= k
    <3> TAKE k \in D
    <3>1. k - 1 \in E => j <= k - 1
      BY <1>9
    <3> QED BY <1>4, <2>1, <3>1
  <2>3. CASE 1 \in D
    <3>1. 1 < j + 1 /\ \A k \in D : k <= 1 \/ j + 1 <= k
      BY <2>1, <2>2
    <3> QED BY <1>6, <1>7, <2>1, <2>3, <3>1
  <2>4. CASE 1 \notin D
    <3>1. \A k \in D : j + 1 <= k
      BY <2>2, <2>4
    <3> QED BY <1>6, <1>7, <2>1, <2>4, <3>1
  <2> QED BY <2>3, <2>4
<1>10. ASSUME NEW j \in E, \A i \in E : i <= j
       PROVE  p[j].hi = to
  <2>1. j + 1 \in D /\ p[j] = q[j + 1] /\ j \in Nat \ {0}
    BY <1>3
  <2>2. \A k \in D : k <= j + 1
    <3> TAKE k \in D
    <3>1. k - 1 \in E => k - 1 <= j
      BY <1>10
    <3> QED BY <1>4, <2>1, <3>1
  <2> QED BY <1>6, <2>1, <2>2
<1>11. ASSUME NEW i \in E, NEW j \in E, i < j, \A k \in E : k <= i \/ j <= k
       PROVE  p[j].lo = p[i].hi
  <2>1. /\ j + 1 \in D /\ p[j] = q[j + 1] /\ j \in Nat \ {0}
        /\ i + 1 \in D /\ p[i] = q[i + 1] /\ i \in Nat \ {0}
    BY <1>3
  <2>2. \A k \in D : k <= i + 1 \/ j + 1 <= k
    <3> TAKE k \in D
    <3>1. k - 1 \in E => k - 1 <= i \/ j <= k - 1
      BY <1>11
    <3> QED BY <1>4, <2>1, <3>1
  <2>3. i + 1 < j + 1
    BY <1>11, <2>1
  <2> QED BY <1>6, <2>1, <2>2, <2>3
<1>12. Chain(p, first, to)
  BY <1>8, <1>9, <1>10, <1>11 DEF Chain, E
<1> QED BY <1>12 DEF p, q, first

LEMMA TailOwes ==
    ASSUME NEW from \in Nat, NEW f, NEW runs \in Nat, NEW sets \in Nat,
           NEW s \in Owing(from, f, runs, sets), s.queue # <<>>,
           NEW r \in StreamType, r.queue = Tail(s.queue),
           r.pending = s.pending - (IF IsRun(Head(s.queue)) THEN 1 ELSE 0),
           ReadSide(r) = ReadSide(s), WriteSide(r) = WriteSide(s), CloseSide(r) = CloseSide(s),
           Given(r) = Given(s), Connects(r) = Connects(s)
    PROVE  LET h == Head(s.queue)
           IN  r \in Owing(Handed(from, h), AnsweredBy(f, h), Closes(runs, h), sets)
<1> DEFINE q == s.queue
           p == Tail(q)
           h == Head(q)
<1>1. /\ s \in StreamType /\ Base(s) /\ Counted(s) /\ Chain(s.queue, from, s.consumed)
      /\ Answers(s, f) /\ CloseLast(s) /\ ClosesSet(s, runs, sets) /\ Left(s) /\ OneEnd(s)
  BY OwingBase
<1>2. /\ p \in Seq(Runs \cup Ended) /\ h = q[1] /\ (1 \in RunsAt(q) <=> IsRun(h))
      /\ RunsAt(q) \subseteq Nat \ {0} /\ RunsAt(p) \subseteq Nat \ {0}
      /\ \A i \in Nat \ {0} : i \in RunsAt(p) <=> i + 1 \in RunsAt(q)
      /\ \A i \in RunsAt(p) : p[i] = q[i + 1]
  BY <1>1, TailRuns
<1>3. Base(r)
  <2>1. ~r.closed => r.queue \in Seq(Live)
    <3>1. ~s.closed => s.queue \in Seq(Live)
      BY <1>1 DEF Base, Sound
    <3>2. r.closed = s.closed
      BY DEF CloseSide
    <3>3. \A z \in Seq(Live) : z # <<>> => Tail(z) \in Seq(Live)
      OBVIOUS
    <3> QED BY <3>1, <3>2, <3>3
  <2> QED BY <1>2, <2>1 DEF Base, Sound
<1>4. Counted(r)
  BY <1>1, TailCounts DEF Counted
<1>5. Chain(r.queue, Handed(from, h), r.consumed)
  <2>1. r.consumed = s.consumed
    BY DEF ReadSide
  <2> QED BY <1>1, <2>1, TailChain
<1>6. /\ r.queue = p /\ r.reads = s.reads /\ r.written = s.written /\ r.writeEnd = s.writeEnd
      /\ r.readCb = s.readCb /\ r.streamCb = s.streamCb /\ Criteria(r) = Criteria(s)
      /\ r.writeCb = s.writeCb /\ r.wq = s.wq /\ r.sent = s.sent
      /\ r.closeCb = s.closeCb /\ r.closing = s.closing /\ r.closed = s.closed
      /\ Connects(r) = Connects(s)
  BY DEF Given, ReadSide, WriteSide, CloseSide
<1> HIDE DEF p, h
<1>7. \A i \in RunsAt(p) : i \in Nat \ {0} /\ i + 1 \in RunsAt(q) /\ p[i] = q[i + 1] /\ i + 1 # 1
  <2> TAKE i \in RunsAt(p)
  <2>1. i \in Nat \ {0}
    BY <1>2
  <2>2. i + 1 \in RunsAt(q) /\ p[i] = q[i + 1]
    BY <1>2, <2>1
  <2> QED BY <2>1, <2>2
<1> DEFINE g == AnsweredBy(f, h)
<1>8. Answers(r, g)
  <2>1. /\ s.readCb <= s.reads /\ s.streamCb <= s.reads /\ f \subseteq 1..s.reads /\ s.readCb \notin f
        /\ \A i \in RunsAt(q) : q[i].run = "read" =>
             /\ q[i].id \in 1..s.reads /\ q[i].id # s.readCb /\ q[i].id \notin f
             /\ \A j \in RunsAt(q) : j # i /\ q[j].run = "read" => q[j].id # q[i].id
    BY <1>1 DEF Answers
  <2>2. \A x \in g : x \in f \/ (1 \in RunsAt(q) /\ q[1].run = "read" /\ x = q[1].id)
    BY <1>2 DEF AnsweredBy
  <2> HIDE DEF g
  <2>3. g \subseteq 1..s.reads /\ s.readCb \notin g
    BY <2>1, <2>2
  <2>4. ASSUME NEW i \in RunsAt(p), p[i].run = "read"
        PROVE  /\ p[i].id \in 1..s.reads /\ p[i].id # s.readCb /\ p[i].id \notin g
               /\ \A j \in RunsAt(p) : j # i /\ p[j].run = "read" => p[j].id # p[i].id
    <3>1. /\ i \in Nat /\ i + 1 \in RunsAt(q) /\ p[i] = q[i + 1] /\ i + 1 # 1
          /\ q[i + 1].run = "read"
      BY <1>7, <2>4
    <3>2. \A j \in RunsAt(p) : j # i =>
            j + 1 \in RunsAt(q) /\ p[j] = q[j + 1] /\ j + 1 # i + 1
      BY <1>7, <3>1
    <3>3. p[i].id \notin g
      BY <2>1, <2>2, <3>1
    <3> QED BY <2>1, <3>1, <3>2, <3>3
  <2> QED BY <1>6, <2>1, <2>3, <2>4 DEF Answers
<1>9. CloseLast(r)
  <2>1. \A i \in RunsAt(q) : q[i].run = "close" =>
          /\ s.closed /\ q[i].id <= s.reads /\ s.writeCb = 0 /\ ~Connects(s)
          /\ s.readCb = 0 \/ s.readCb > q[i].id
          /\ s.streamCb = 0 \/ s.streamCb > q[i].id
          /\ \A j \in RunsAt(q) : i < j => IsData(q[j]) /\ (q[j].id > q[i].id \/ q[j].run = "lostRead")
    BY <1>1 DEF CloseLast
  <2>2. ASSUME NEW i \in RunsAt(p), p[i].run = "close"
        PROVE  /\ s.closed /\ p[i].id <= s.reads /\ s.writeCb = 0 /\ ~Connects(s)
               /\ s.readCb = 0 \/ s.readCb > p[i].id
               /\ s.streamCb = 0 \/ s.streamCb > p[i].id
               /\ \A j \in RunsAt(p) : i < j =>
                    IsData(p[j]) /\ (p[j].id > p[i].id \/ p[j].run = "lostRead")
    <3>1. i \in Nat /\ i + 1 \in RunsAt(q) /\ p[i] = q[i + 1] /\ q[i + 1].run = "close"
      BY <1>7, <2>2
    <3>2. \A j \in RunsAt(p) : i < j => j + 1 \in RunsAt(q) /\ p[j] = q[j + 1] /\ i + 1 < j + 1
      BY <1>7, <3>1
    <3> QED BY <2>1, <3>1, <3>2
  <2> QED BY <1>6, <2>2 DEF CloseLast
<1>10. ClosesSet(r, Closes(runs, h), sets)
  <2> DEFINE m == IF s.closeCb THEN 1 ELSE 0
             posted(z) == IF ClosePosted(z) THEN 1 ELSE 0
  <2>1. runs + posted(q) + m <= sets /\ m \in {0, 1}
    BY <1>1 DEF ClosesSet
  <2>2. ASSUME IsRun(h), h.run = "close"
        PROVE  ClosePosted(q) /\ ~ClosePosted(p)
    <3>1. 1 \in RunsAt(q) /\ q[1].run = "close"
      BY <1>2, <2>2
    <3>2. \A j \in RunsAt(q) : 1 < j => IsData(q[j])
      BY <1>1, <3>1 DEF CloseLast
    <3>3. \A j \in RunsAt(q) : 1 < j => q[j].run # "close"
      BY <3>2 DEF IsData
    <3>4. \A i \in RunsAt(p) : i + 1 \in RunsAt(q) /\ 1 < i + 1 /\ p[i] = q[i + 1]
      BY <1>7
    <3> QED BY <3>1, <3>3, <3>4 DEF ClosePosted
  <2>3. ClosePosted(p) => ClosePosted(q)
    BY <1>7 DEF ClosePosted
  <2> HIDE DEF m
  <2>4. CASE IsRun(h) /\ h.run = "close"
    <3>1. posted(q) = 1 /\ posted(p) = 0 /\ Closes(runs, h) = runs + 1
      BY <2>2, <2>4 DEF Closes
    <3>2. Closes(runs, h) + posted(p) + m <= sets
      BY <2>1, <3>1
    <3> QED BY <1>6, <3>2 DEF ClosesSet, m
  <2>5. CASE ~(IsRun(h) /\ h.run = "close")
    <3>1. Closes(runs, h) = runs /\ posted(p) <= posted(q) /\ posted(p) \in {0, 1} /\ posted(q) \in {0, 1}
      BY <2>3, <2>5 DEF Closes
    <3> HIDE DEF posted
    <3>2. Closes(runs, h) + posted(p) + m <= sets
      BY <2>1, <3>1
    <3> QED BY <1>6, <3>2 DEF ClosesSet, m, posted
  <2> QED BY <2>4, <2>5
<1>11. Left(r)
  <2>1. EndsWell(r) /\ \A hi : AllGone(hi, s) => AllGone(hi, r)
    BY <1>1, <1>6 DEF Left, EndsWell, AllGone, Closed
  <2>2. \A i \in RunsAt(p) : p[i].run = "write" => AllGone(p[i].hi, s)
    BY <1>1, <1>7 DEF Left
  <2> QED BY <1>6, <2>1, <2>2 DEF Left
<1>12. OneEnd(r)
  <2>1. Closed(r) = Closed(s)
    BY <1>6 DEF Closed
  <2>2. ~Closed(s) => \A i \in RunsAt(p) : p[i].run # "lostRead"
    BY <1>1, <1>7 DEF OneEnd
  <2> QED BY <1>1, <1>6, <2>1, <2>2 DEF OneEnd
<1> QED BY <1>3, <1>4, <1>5, <1>8, <1>9, <1>10, <1>11, <1>12 DEF Owing, Owes, h

-----------------------------------------------------------------------------
\* The steps keep what is owed

\* The streams that owe what the history of the current state says.
Due == Owing(handed, finished, closeRuns, closeSets)

LEMMA InvDue ==
    ASSUME OInv
    PROVE  /\ stream \in Due /\ Kept(Due) /\ stream \in StreamType /\ Base(stream)
           /\ handed \in Nat /\ closeRuns \in Nat /\ closeSets \in Nat
<1>1. handed \in Nat /\ closeRuns \in Nat /\ closeSets \in Nat
  BY DEF OInv, IInv
<1>2. Kept(Due)
  BY <1>1, OwingKept DEF Due
<1>3. stream \in StreamType
  BY DEF OInv, Owes, Base, Sound
<1>4. stream \in Due
  BY <1>3 DEF OInv, Owing, Due
<1> QED BY <1>1, <1>2, <1>3, <1>4, KeptBase

\* Every set of streams that the moves keep and that holds s holds r: a helper, or
\* a whole handler, goes from s to r.
GoesTo(s, r) == \A S : Kept(S) /\ s \in S => r \in S

LEMMA GoesKept ==
    ASSUME NEW S, Kept(S), NEW s \in S, NEW r, GoesTo(s, r)
    PROVE  r \in S
BY DEF GoesTo

\* The stream as a call leaves it before the helpers run: it is opened,
Opens(r) ==
    /\ r \in StreamType /\ ReadSide(r) = ReadSide(stream) /\ WriteSide(r) = WriteSide(stream)
    /\ CloseSide(r) = CloseSide(stream) /\ r.queue = stream.queue /\ r.pending = stream.pending
    /\ r.reads = stream.reads /\ r.writes = stream.writes /\ r.received = stream.received
    /\ r.written = stream.written /\ r.writeEnd = stream.writeEnd
    /\ Closed(stream) => (Connects(r) => Connects(stream))

\* has a read to answer,
CallsRead(r) ==
    /\ r \in StreamType /\ r.reads = stream.reads + 1 /\ r.readCb = stream.reads + 1
    /\ r.streamCb \in {0, stream.reads + 1, stream.streamCb}
    /\ r.consumed = stream.consumed /\ WriteSide(r) = WriteSide(stream)
    /\ CloseSide(r) = CloseSide(stream) /\ r.queue = stream.queue /\ r.pending = stream.pending
    /\ r.writes = stream.writes /\ r.received = stream.received
    /\ r.written = stream.written /\ r.writeEnd = stream.writeEnd
    /\ Connects(r) = Connects(stream)
    /\ \E c : Criteria(r) \subseteq Criteria(stream) \cup {c}

\* or bytes to write.
CallsWrite(r) ==
    /\ r \in StreamType /\ r.writes = stream.writes + 1 /\ r.writeCb \in {0, stream.writes + 1}
    /\ ReadSide(r) = ReadSide(stream) /\ CloseSide(r) = CloseSide(stream)
    /\ r.queue = stream.queue /\ r.pending = stream.pending
    /\ r.reads = stream.reads /\ r.received = stream.received

LEMMA StartGoes ==
    ASSUME OInv, Start
    PROVE  \E r : Opens(r) /\ GoesTo(r, stream')
<1> DEFINE r == [stream EXCEPT !.opened = TRUE]
<1>1. stream \in StreamType
  BY InvDue
<1>2. Opens(r)
  BY <1>1 DEF Opens, StreamType, ReadSide, Criteria, WriteSide, CloseSide, Connects
<1>3. stream' = MaybeAddErrorListener(r)
  BY DEF Start
<1> HIDE DEF r
<1>4. GoesTo(r, stream')
  BY <1>3, ListenerKept DEF GoesTo
<1> QED BY <1>2, <1>4

LEMMA ConnectGoes ==
    ASSUME OInv, Connect
    PROVE  \E r : Opens(r) /\ GoesTo(r, stream')
<1>1. stream \in StreamType /\ ~Closed(stream)
  BY InvDue DEF Connect
<1>2. PICK resolved \in BOOLEAN, callback \in BOOLEAN :
        stream' = RealConnect([stream EXCEPT !.opened = TRUE, !.connecting = TRUE,
                                             !.connectCb = callback], resolved)
  BY DEF Connect
<1> DEFINE r == [stream EXCEPT !.opened = TRUE, !.connecting = TRUE, !.connectCb = callback]
<1>3. Opens(r)
  BY <1>1, ZenonT(30) DEF Opens, StreamType, ReadSide, Criteria, WriteSide, CloseSide
<1>4. stream' = RealConnect(r, resolved)
  BY <1>2
<1> HIDE DEF r
<1>5. GoesTo(r, stream')
  BY <1>4, RealConnectKept DEF GoesTo
<1> QED BY <1>3, <1>5

LEMMA ReadBytesGoes ==
    ASSUME OInv, ReadBytes
    PROVE  \E r : CallsRead(r) /\ GoesTo(r, stream')
<1> DEFINE id == stream.reads + 1
<1>1. stream \in StreamType
  BY InvDue
<1>2. PICK n \in 0..MaxBytes, streaming \in BOOLEAN :
        stream' = TryInlineRead([Reading(id) EXCEPT
                      !.readBytes = n, !.streamCb = IF streaming THEN id ELSE 0])
  BY DEF ReadBytes
<1> DEFINE d == IF streaming THEN id ELSE 0
           r == [Reading(id) EXCEPT !.readBytes = n, !.streamCb = d]
<1>3. id \in Nat /\ d \in {0, id} /\ d \in Nat /\ n \in Nat
  BY <1>1, BoundsAssumption DEF StreamType
<1>4. stream' = TryInlineRead(r)
  BY <1>2
<1> HIDE DEF id, d
<1>5. /\ r \in StreamType /\ r.reads = id /\ r.readCb = id /\ r.streamCb = d
      /\ r.consumed = stream.consumed /\ WriteSide(r) = WriteSide(stream)
      /\ CloseSide(r) = CloseSide(stream) /\ r.queue = stream.queue
      /\ r.pending = stream.pending /\ r.written = stream.written
      /\ r.writes = stream.writes /\ r.received = stream.received
      /\ r.writeEnd = stream.writeEnd /\ Connects(r) = Connects(stream)
      /\ r.marks = stream.marks /\ r.untilClose = stream.untilClose /\ r.readBytes = n
  BY <1>1, <1>3 DEF Reading, StreamType, WriteSide, CloseSide, Connects
<1> HIDE DEF r
<1>6. Criteria(r) \subseteq Criteria(stream) \cup {"bytes"}
  BY <1>5 DEF Criteria
<1>7. CallsRead(r)
  BY <1>3, <1>5, <1>6 DEF CallsRead, id
<1>8. GoesTo(r, stream')
  BY <1>4, TryInlineReadKept DEF GoesTo
<1> QED BY <1>7, <1>8

LEMMA ReadUntilGoes ==
    ASSUME OInv, ReadUntil
    PROVE  \E r : CallsRead(r) /\ GoesTo(r, stream')
<1> DEFINE id == stream.reads + 1
<1>1. stream \in StreamType
  BY InvDue
<1>2. PICK m \in Marks : stream' = TryInlineRead([Reading(id) EXCEPT !.marks = @ \cup {m}])
  BY DEF ReadUntil
<1> DEFINE t == Reading(id)
           marks == t.marks \cup {m}
           r == [t EXCEPT !.marks = marks]
<1>3. id \in Nat
  BY <1>1 DEF StreamType
<1>4. stream' = TryInlineRead(r)
  BY <1>2
<1> HIDE DEF id
<1>5. /\ t \in StreamType /\ t.reads = id /\ t.readCb = id /\ t.streamCb = stream.streamCb
      /\ t.consumed = stream.consumed /\ WriteSide(t) = WriteSide(stream)
      /\ CloseSide(t) = CloseSide(stream) /\ t.queue = stream.queue
      /\ t.pending = stream.pending /\ t.written = stream.written
      /\ t.writes = stream.writes /\ t.received = stream.received
      /\ t.writeEnd = stream.writeEnd /\ Connects(t) = Connects(stream)
      /\ t.marks = stream.marks /\ t.untilClose = stream.untilClose
      /\ t.readBytes = stream.readBytes
  BY <1>1, <1>3 DEF Reading, StreamType, WriteSide, CloseSide, Connects
<1> HIDE DEF t
<1>6. marks \in SUBSET Marks
  BY <1>5 DEF StreamType
<1>7. marks = stream.marks \cup {m}
  BY <1>5
<1> HIDE DEF marks
<1>8. /\ r \in StreamType /\ r.reads = t.reads /\ r.readCb = t.readCb
      /\ r.streamCb = t.streamCb /\ r.consumed = t.consumed /\ WriteSide(r) = WriteSide(t)
      /\ CloseSide(r) = CloseSide(t) /\ r.queue = t.queue /\ r.pending = t.pending
      /\ r.writes = t.writes /\ r.received = t.received
      /\ r.written = t.written /\ r.writeEnd = t.writeEnd /\ Connects(r) = Connects(t)
      /\ r.marks = marks /\ r.untilClose = t.untilClose /\ r.readBytes = t.readBytes
  BY <1>5, <1>6 DEF StreamType, WriteSide, CloseSide, Connects
<1> HIDE DEF r
<1>9. Criteria(r) \subseteq Criteria(stream) \cup {m}
  BY <1>5, <1>7, <1>8 DEF Criteria
<1>10. CallsRead(r)
  BY <1>3, <1>5, <1>8, <1>9 DEF CallsRead, id
<1>11. GoesTo(r, stream')
  BY <1>4, TryInlineReadKept DEF GoesTo
<1> QED BY <1>10, <1>11

LEMMA ReadUntilCloseGoes ==
    ASSUME OInv, ReadUntilClose
    PROVE  \E r : CallsRead(r) /\ GoesTo(r, stream')
<1> DEFINE id == stream.reads + 1
<1>1. stream \in StreamType
  BY InvDue
<1>2. PICK streaming \in BOOLEAN :
        LET s == [Reading(id) EXCEPT !.streamCb = IF streaming THEN id ELSE 0]
        IN  stream' = IF Closed(s) THEN ReadRest(s)
                      ELSE TryInlineRead([s EXCEPT !.untilClose = TRUE])
  BY DEF ReadUntilClose
<1> DEFINE d == IF streaming THEN id ELSE 0
           t == [Reading(id) EXCEPT !.streamCb = d]
           r == [t EXCEPT !.untilClose = TRUE]
<1>3. id \in Nat \ {0} /\ d \in {0, id} /\ d \in Nat
  BY <1>1 DEF StreamType
<1>4. stream' = IF Closed(t) THEN ReadRest(t) ELSE TryInlineRead(r)
  BY <1>2
<1> HIDE DEF id, d
<1>5. /\ t \in StreamType /\ t.reads = id /\ t.readCb = id /\ t.streamCb = d
      /\ t.consumed = stream.consumed /\ WriteSide(t) = WriteSide(stream)
      /\ CloseSide(t) = CloseSide(stream) /\ t.queue = stream.queue
      /\ t.pending = stream.pending /\ t.written = stream.written
      /\ t.writes = stream.writes /\ t.received = stream.received
      /\ t.writeEnd = stream.writeEnd /\ Connects(t) = Connects(stream)
      /\ t.marks = stream.marks /\ t.untilClose = stream.untilClose
      /\ t.readBytes = stream.readBytes
  BY <1>1, <1>3 DEF Reading, StreamType, WriteSide, CloseSide, Connects
<1> HIDE DEF t
<1>6. /\ r \in StreamType /\ r.reads = t.reads /\ r.readCb = t.readCb
      /\ r.streamCb = t.streamCb /\ r.consumed = t.consumed /\ WriteSide(r) = WriteSide(t)
      /\ CloseSide(r) = CloseSide(t) /\ r.queue = t.queue /\ r.pending = t.pending
      /\ r.writes = t.writes /\ r.received = t.received
      /\ r.written = t.written /\ r.writeEnd = t.writeEnd /\ Connects(r) = Connects(t)
      /\ r.marks = t.marks /\ r.readBytes = t.readBytes
  BY <1>5 DEF StreamType, WriteSide, CloseSide, Connects
<1> HIDE DEF r
<1>7. Criteria(t) \subseteq Criteria(stream) \cup {"close"}
      /\ Criteria(r) \subseteq Criteria(stream) \cup {"close"}
  BY <1>5, <1>6 DEF Criteria
<1>8. CallsRead(t)
  BY <1>3, <1>5, <1>7 DEF CallsRead, id
<1>9. CallsRead(r)
  BY <1>3, <1>5, <1>6, <1>7 DEF CallsRead, id
<1>10. CASE Closed(t)
  <2>1. GoesTo(t, stream')
    BY <1>3, <1>4, <1>5, <1>10, ReadRestKept DEF GoesTo
  <2> QED BY <1>8, <2>1
<1>11. CASE ~Closed(t)
  <2>1. GoesTo(r, stream')
    BY <1>4, <1>11, TryInlineReadKept DEF GoesTo
  <2> QED BY <1>9, <2>1
<1> QED BY <1>10, <1>11

LEMMA WriteGoes ==
    ASSUME OInv, Write
    PROVE  \E r \in Due : CallsWrite(r) /\ GoesTo(r, stream')
<1> DEFINE id == stream.writes + 1
<1>1. stream \in Due /\ Kept(Due) /\ stream \in StreamType /\ ~Closed(stream)
  BY InvDue DEF Write
<1>2. PICK len \in 0..MaxLength, callback \in BOOLEAN :
        LET s == Enqueue([stream EXCEPT !.writes = id], len, IF callback THEN id ELSE 0)
        IN  \E o \in Outcomes(s) : stream' = Flush(s, o)
  BY DEF Write
<1> DEFINE b == [stream EXCEPT !.writes = id]
           cb == IF callback THEN id ELSE 0
           r == Enqueue(b, len, cb)
<1>3. PICK o \in Outcomes(r) : stream' = Flush(r, o)
  BY <1>2
<1> HIDE DEF b, r
<1>4. id \in Nat /\ cb \in {0, id} /\ cb \in Nat /\ len \in Nat
  <2>1. id \in Nat
    BY <1>1 DEF StreamType
  <2>2. cb \in {0, id} /\ cb \in Nat
    BY <2>1
  <2>3. len \in Nat
    BY BoundsAssumption
  <2> QED BY <2>1, <2>2, <2>3
<1> USE DEF b, r
<1> HIDE DEF id, cb
<1>5. b \in StreamType /\ ReadSide(b) = ReadSide(stream) /\ WriteSide(b) = WriteSide(stream)
      /\ CloseSide(b) = CloseSide(stream) /\ b.queue = stream.queue /\ b.pending = stream.pending
      /\ b.reads = stream.reads /\ b.written = stream.written /\ b.writeEnd = stream.writeEnd
      /\ b.writes = id /\ b.received = stream.received
      /\ Connects(b) = Connects(stream) /\ Closed(b) = Closed(stream)
  BY <1>1, <1>4 DEF StreamType, ReadSide, Criteria, WriteSide, CloseSide, Connects, Closed
<1> HIDE DEF b
<1>6. /\ ReadSide(r) = ReadSide(b) /\ CloseSide(r) = CloseSide(b) /\ r.queue = b.queue
      /\ r.pending = b.pending /\ r.reads = b.reads /\ r.writes = b.writes
      /\ r.received = b.received /\ r.writeCb = cb
  <2>1. \A w, n :
          LET x == [b EXCEPT !.wq = w, !.written = n, !.writeCb = cb, !.writeEnd = n]
          IN  /\ ReadSide(x) = ReadSide(b) /\ CloseSide(x) = CloseSide(b) /\ x.queue = b.queue
              /\ x.pending = b.pending /\ x.reads = b.reads /\ x.writes = b.writes
              /\ x.received = b.received /\ x.writeCb = cb
    BY <1>5 DEF StreamType, ReadSide, Criteria, CloseSide
  <2>2. r = [b EXCEPT !.wq = @ \o Packets(b.written, len), !.written = @ + len,
                      !.writeCb = cb, !.writeEnd = b.written + len]
    BY DEF Enqueue
  <2> HIDE DEF r
  <2>3. PICK w, n : r = [b EXCEPT !.wq = w, !.written = n, !.writeCb = cb, !.writeEnd = n]
    BY <2>2
  <2> DEFINE x == [b EXCEPT !.wq = w, !.written = n, !.writeCb = cb, !.writeEnd = n]
  <2>4. /\ ReadSide(x) = ReadSide(b) /\ CloseSide(x) = CloseSide(b) /\ x.queue = b.queue
        /\ x.pending = b.pending /\ x.reads = b.reads /\ x.writes = b.writes
        /\ x.received = b.received /\ x.writeCb = cb
    BY <2>1
  <2>5. r = x
    BY <2>3
  <2> HIDE DEF x
  <2> QED BY <2>4, <2>5
<1>7. Closed(r) = Closed(b)
  BY <1>6 DEF CloseSide, Closed
<1>8. b \in Due
  BY <1>1, <1>5, OpenedOwes DEF Due
<1>9. r \in Due
  BY <1>1, <1>4, <1>5, <1>8, EnqueueOwes DEF Due
<1>10. r \in StreamType
  BY <1>9 DEF Due, Owing
<1> HIDE DEF r
<1>11. CallsWrite(r)
  BY <1>4, <1>5, <1>6, <1>10 DEF CallsWrite, id
<1>12. GoesTo(r, stream')
  BY <1>1, <1>3, <1>5, <1>7, FlushKept DEF GoesTo
<1> QED BY <1>9, <1>11, <1>12

LEMMA CompleteGoes ==
    ASSUME OInv, NEW op \in Operations, Complete(op)
    PROVE  GoesTo(stream, stream')
<1>1. stream \in StreamType /\ Base(stream)
  BY InvDue
<1>2. PICK res \in Results \ {"aborted"}, n \in 0..MaxBytes + MaxLength * MaxWrites :
        /\ CASE op = "read" /\ res # "error"  -> n \in 1..(MaxBytes - stream.received)
             [] op = "write" /\ res = "ok"    -> n \in 1..(Front - stream.sent)
             [] OTHER                          -> n = 0 /\ res # "overflow"
        /\ stream' = [stream EXCEPT !.kernel = @ \ {op},
                          !.queue = Append(@, [op |-> op, res |-> res, n |-> n])]
  BY DEF Complete
<1> DEFINE h == [op |-> op, res |-> res, n |-> n]
           q == Append(stream.queue, h)
           k == stream.kernel \ {op}
           r == [stream EXCEPT !.kernel = k, !.queue = q]
<1>3. n \in Nat
  BY <1>2, BoundsAssumption
<1>4. op # "read" => res # "overflow"
  BY <1>2
<1>5. h \in Ended /\ h \in Live /\ h \in Runs \cup Completions
  BY <1>2, <1>3, <1>4 DEF Ended, Live, Completions
<1>6. stream' = r
  BY <1>2
<1> HIDE DEF h
<1>7. /\ q \in Seq(Runs \cup Completions) /\ q \in Seq(Runs \cup Ended)
      /\ ~stream.closed => q \in Seq(Live)
      /\ \E x \in Seq(Ended) : q = stream.queue \o x
  <2>1. <<h>> \in Seq(Ended) /\ q = stream.queue \o <<h>>
    BY <1>1, <1>5 DEF Base
  <2>2. \A T : \A z \in Seq(T) : h \in T => Append(z, h) \in Seq(T)
    OBVIOUS
  <2>3. stream.queue \in Seq(Runs \cup Completions) /\ (~stream.closed => stream.queue \in Seq(Live))
    BY <1>1 DEF Base, Sound, StreamType
  <2> QED BY <1>1, <1>5, <2>1, <2>2, <2>3 DEF Base
<1>8. k \in SUBSET Operations
  BY <1>1 DEF StreamType
<1> HIDE DEF q, k
<1>9. /\ r \in StreamType /\ Given(r) = Given(stream) /\ ReadSide(r) = ReadSide(stream)
      /\ WriteSide(r) = WriteSide(stream) /\ CloseSide(r) = CloseSide(stream)
      /\ r.pending = stream.pending /\ r.queue = q /\ Connects(r) = Connects(stream)
  BY <1>1, <1>7, <1>8 DEF StreamType, Given, ReadSide, Criteria, WriteSide, CloseSide, Connects
<1> HIDE DEF r
<1>10. Waits(stream, r)
  BY <1>1, <1>7, <1>9, GivenWaits DEF Waits, CloseSide, Closed
<1>11. Base(r)
  BY <1>7, <1>9 DEF Base, Sound, CloseSide
<1> QED BY <1>6, <1>10, <1>11, KeptBy DEF Move, GoesTo

LEMMA TakenOwes ==
    ASSUME OInv, stream.queue # <<>>, ~IsRun(NextHandler)
    PROVE  Taken \in Due /\ Taken.closed = stream.closed
<1>1. stream \in Due /\ stream \in StreamType /\ Base(stream)
      /\ handed \in Nat /\ closeRuns \in Nat /\ closeSets \in Nat
  BY InvDue
<1> DEFINE q == Tail(stream.queue)
           r == [stream EXCEPT !.queue = q]
<1>2. q \in Seq(Runs \cup Completions)
  BY <1>1 DEF StreamType
<1> HIDE DEF q
<1>3. /\ r \in StreamType /\ Given(r) = Given(stream) /\ ReadSide(r) = ReadSide(stream)
      /\ WriteSide(r) = WriteSide(stream) /\ CloseSide(r) = CloseSide(stream)
      /\ r.pending = stream.pending /\ r.queue = q /\ Connects(r) = Connects(stream)
      /\ r.closed = stream.closed
  BY <1>1, <1>2 DEF StreamType, Given, ReadSide, Criteria, WriteSide, CloseSide, Connects
<1> DEFINE h == Head(stream.queue)
<1>4. ~IsRun(h) /\ ~IsData(h)
  BY DEF NextHandler, IsData
<1>5. stream.pending - (IF IsRun(h) THEN 1 ELSE 0) = stream.pending
  BY <1>1, <1>4 DEF StreamType
<1>6. Handed(handed, h) = handed /\ AnsweredBy(finished, h) = finished /\ Closes(closeRuns, h) = closeRuns
  BY <1>4 DEF Handed, AnsweredBy, Closes
<1>7. Taken = r
  BY DEF Taken, q
<1> HIDE DEF r
<1>8. r \in Owing(Handed(handed, h), AnsweredBy(finished, h), Closes(closeRuns, h), closeSets)
  <2>1. r.pending = stream.pending - (IF IsRun(h) THEN 1 ELSE 0)
    BY <1>3, <1>5
  <2>2. r.queue = Tail(stream.queue)
    BY <1>3 DEF q
  <2> HIDE DEF h
  <2> QED BY <1>1, <1>3, <2>1, <2>2, TailOwes DEF Due, h
<1> HIDE DEF h
<1> QED BY <1>3, <1>6, <1>7, <1>8 DEF Due

LEMMA HandleGoes ==
    ASSUME OInv, HandleCompletion
    PROVE  GoesTo(Taken, stream')
<1> DEFINE s == Taken
           h == NextHandler
<1>1. /\ stream.queue # <<>> /\ ~IsRun(h) /\ Base(stream)
  BY InvDue DEF HandleCompletion, Dispatches
<1>2. s.closed = stream.closed
  BY <1>1, TakenOwes
<1>3. h \in Runs \cup Ended /\ (~stream.closed => h \in Live)
  <2>1. stream.queue \in Seq(Runs \cup Ended) /\ (~stream.closed => stream.queue \in Seq(Live))
    BY <1>1 DEF Base, Sound
  <2>2. \A T : \A z \in Seq(T) : z # <<>> => Head(z) \in T
    OBVIOUS
  <2> QED BY <1>1, <2>1, <2>2 DEF NextHandler
<1>4. /\ h \in Completions /\ (h.res = "overflow" => h.op = "read")
      /\ h \in Live => h.res # "aborted"
  <2>1. \A x \in Runs : IsRun(x)
    BY DEF Runs, IsRun
  <2> QED BY <1>1, <1>3, <2>1 DEF Ended, Live
<1>5. /\ h.op \in Operations /\ h.res \in Results /\ h.n \in Nat
      /\ h.res = "aborted" => s.closed
      /\ h.op # "read" => h.res \in {"ok", "error"} \/ s.closed
  BY <1>2, <1>3, <1>4 DEF Completions, Results
<1>6. /\ h.op = "read"      => stream' = OnRead(s, h.res, h.n)
      /\ h.op = "connect"   => \E o \in Outcomes(s) : stream' = OnConnect(s, h.res, o)
      /\ h.op = "handshake" => stream' = OnHandshake(s, h.res)
      /\ h.op = "shutdown"  => stream' = OnShutdown(s)
      /\ h.op = "write"     =>
           \E o \in Outcomes(TakeFront(s, h.n)) : stream' = OnWrite(s, h.res, h.n, o)
  BY <1>5 DEF HandleCompletion, Operations
<1> HIDE DEF h
<1>7. CASE h.op = "read"
  BY <1>1, <1>2, <1>5, <1>6, <1>7, OnReadKept DEF GoesTo
<1>8. CASE h.op = "connect"
  BY <1>1, <1>2, <1>5, <1>6, <1>8, OnConnectKept DEF GoesTo
<1>9. CASE h.op = "handshake"
  BY <1>1, <1>2, <1>6, <1>9, OnHandshakeKept DEF GoesTo
<1>10. CASE h.op = "shutdown"
  BY <1>1, <1>2, <1>6, <1>10, OnShutdownKept DEF GoesTo
<1>11. CASE h.op = "write"
  BY <1>1, <1>2, <1>5, <1>6, <1>11, OnWriteKept DEF GoesTo
<1> QED BY <1>5, <1>7, <1>8, <1>9, <1>10, <1>11 DEF Operations

LEMMA BeginCallbackOwes ==
    ASSUME OInv, BeginCallback
    PROVE  stream' \in Owing(handed', finished', closeRuns', closeSets')
<1>1. stream \in Due /\ stream \in StreamType /\ Base(stream)
      /\ handed \in Nat /\ closeRuns \in Nat /\ closeSets \in Nat
  BY InvDue
<1> DEFINE q == Tail(stream.queue)
           left == stream.pending - 1
           r == [stream EXCEPT !.queue = q, !.pending = left]
           h == Head(stream.queue)
<1>2. stream.queue # <<>> /\ IsRun(h)
  BY DEF BeginCallback, Dispatches, NextHandler
<1>3. q \in Seq(Runs \cup Completions) /\ left \in Int
  BY <1>1, <1>2 DEF StreamType
<1>4. stream' = r
  BY <1>1 DEF BeginCallback, Taken, StreamType
<1> HIDE DEF q, left
<1>5. /\ r \in StreamType /\ Given(r) = Given(stream) /\ ReadSide(r) = ReadSide(stream)
      /\ WriteSide(r) = WriteSide(stream) /\ CloseSide(r) = CloseSide(stream)
      /\ r.pending = left /\ r.queue = q /\ Connects(r) = Connects(stream)
  BY <1>1, <1>3 DEF StreamType, Given, ReadSide, Criteria, WriteSide, CloseSide, Connects
<1>6. /\ handed' = Handed(handed, h) /\ finished' = AnsweredBy(finished, h)
      /\ closeRuns' = Closes(closeRuns, h) /\ closeSets' = closeSets
  BY <1>2 DEF BeginCallback, Handed, AnsweredBy, Closes, IsData, NextHandler
<1> HIDE DEF r
<1>7. r \in Owing(Handed(handed, h), AnsweredBy(finished, h), Closes(closeRuns, h), closeSets)
  <2>1. r.pending = stream.pending - (IF IsRun(h) THEN 1 ELSE 0)
    BY <1>2, <1>5 DEF left
  <2>2. r.queue = Tail(stream.queue)
    BY <1>5 DEF q
  <2> HIDE DEF h
  <2> QED BY <1>1, <1>2, <1>5, <2>1, <2>2, TailOwes DEF Due, h
<1> HIDE DEF h
<1> QED BY <1>4, <1>6, <1>7

LEMMA StepOwes ==
    ASSUME OInv, [Next]_vars
    PROVE  stream' \in Owing(handed', finished', closeRuns', closeSets')
<1>1. stream \in Due /\ Kept(Due) /\ handed \in Nat /\ closeRuns \in Nat /\ closeSets \in Nat
  BY InvDue
<1>2. ASSUME stream' \in Due, UNCHANGED <<handed, finished, closeRuns, closeSets>>
      PROVE  stream' \in Owing(handed', finished', closeRuns', closeSets')
  BY <1>2 DEF Due
<1>3. CASE Start \/ Connect
  <2>1. PICK r : Opens(r) /\ GoesTo(r, stream')
    BY <1>3, StartGoes, ConnectGoes
  <2>2. r \in Due
    BY <1>1, <2>1, OpenedOwes DEF Opens, Due
  <2>3. stream' \in Due
    BY <1>1, <2>1, <2>2, GoesKept
  <2> QED BY <1>2, <1>3, <2>3 DEF Start, Connect, Calling
<1>4. CASE ReadBytes \/ ReadUntil \/ ReadUntilClose
  <2>1. PICK r : CallsRead(r) /\ GoesTo(r, stream')
    BY <1>4, ReadBytesGoes, ReadUntilGoes, ReadUntilCloseGoes
  <2>2. ReadCall
    BY <1>4 DEF ReadBytes, ReadUntil, ReadUntilClose
  <2>3. PICK c : Criteria(r) \subseteq Criteria(stream) \cup {c}
    BY <2>1 DEF CallsRead
  <2>4. r \in Due
    BY <1>1, <2>1, <2>2, <2>3, ReadOwes DEF CallsRead, ReadCall, Due
  <2>5. stream' \in Due
    BY <1>1, <2>1, <2>4, GoesKept
  <2> QED BY <1>2, <2>2, <2>5 DEF ReadCall, Calling
<1>5. CASE Write
  <2>1. stream' \in Due
    BY <1>1, <1>5, WriteGoes, GoesKept
  <2> QED BY <1>2, <1>5, <2>1 DEF Write, Calling
<1>6. CASE SetCloseCallback
  <2>1. [stream EXCEPT !.closeCb = TRUE] \in Owing(handed, finished, closeRuns, closeSets + 1)
    BY <1>1, CloseCallbackOwes DEF Due
  <2> QED BY <1>6, <2>1 DEF SetCloseCallback, Calling
<1>7. CASE ResetCloseCallback
  <2>1. [stream EXCEPT !.closeCb = FALSE] \in Owing(handed, finished, closeRuns, closeSets)
    BY <1>1, CloseCallbackOwes DEF Due
  <2> QED BY <1>7, <2>1 DEF ResetCloseCallback, Calling
<1>8. CASE CloseCall
  BY <1>1, <1>2, <1>8, CloseKept DEF CloseCall, Calling
<1>9. ASSUME NEW op \in Operations, Complete(op)
      PROVE  stream' \in Owing(handed', finished', closeRuns', closeSets')
  <2>1. stream' \in Due
    BY <1>1, <1>9, CompleteGoes, GoesKept
  <2> QED BY <1>2, <1>9, <2>1 DEF Complete
<1>10. CASE HandleCompletion
  <2>1. Taken \in Due
    BY <1>10, TakenOwes DEF HandleCompletion, Dispatches
  <2>2. stream' \in Due
    BY <1>1, <1>10, <2>1, HandleGoes, GoesKept
  <2> QED BY <1>2, <1>10, <2>2 DEF HandleCompletion
<1>11. CASE BeginCallback
  BY <1>11, BeginCallbackOwes
<1>12. CASE CallbackReturns \/ CallbackThrows
  <2>1. Close(stream) \in Due
    BY <1>1, CloseKept
  <2>2. MaybeAddErrorListener(stream) \in Due /\ MaybeAddErrorListener(Close(stream)) \in Due
    BY <1>1, <2>1, ListenerKept
  <2> QED BY <1>2, <1>12, <2>1, <2>2 DEF CallbackReturns, CallbackThrows
<1>13. CASE UNCHANGED vars
  BY <1>1, <1>2, <1>13 DEF vars
<1> QED BY <1>3, <1>4, <1>5, <1>6, <1>7, <1>8, <1>9, <1>10, <1>11, <1>12, <1>13
        DEF Next, Application

LEMMA InitOwes == Init => OInv
<1> SUFFICES ASSUME Init PROVE OInv
  OBVIOUS
<1> DEFINE q == <<>>
<1>1. /\ q \in Seq(Runs \cup Ended) /\ RunsAt(q) = {} /\ DataAt(q) = {}
      /\ ~ClosePosted(q) /\ Cardinality(RunsAt(q)) = 0
  <2>1. DOMAIN <<>> = {}
    BY EmptySeq, LenProperties
  <2>2. RunsAt(<<>>) = {}
    BY <2>1 DEF RunsAt
  <2> QED BY <2>2, EmptySequence, FS_EmptySet DEF DataAt, ClosePosted
<1>2. IInv
  BY InitInv
<1>3. /\ stream.queue = q /\ stream.pending = 0 /\ stream.consumed = 0 /\ stream.readCb = 0
      /\ stream.streamCb = 0 /\ stream.reads = 0 /\ stream.writeCb = 0 /\ ~stream.closeCb
      /\ stream.writeEnd = 0 /\ stream.written = 0 /\ stream.wq = q /\ stream.sent = 0
      /\ Criteria(stream) = {}
      /\ finished = {} /\ handed = 0 /\ closeRuns = 0 /\ closeSets = 0
  BY DEF Init, Fresh, Criteria, None
<1>4. Base(stream)
  BY <1>1, <1>2, <1>3 DEF Base, IInv, Good
<1>5. Counted(stream)
  BY <1>1, <1>3 DEF Counted
<1> HIDE DEF q
<1>6. Chain(stream.queue, handed, stream.consumed)
  BY <1>1, <1>3 DEF Chain
<1>7. Answers(stream, finished)
  BY <1>1, <1>3 DEF Answers
<1>8. CloseLast(stream)
  BY <1>1, <1>3 DEF CloseLast
<1>9. ClosesSet(stream, closeRuns, closeSets)
  BY <1>1, <1>3 DEF ClosesSet
<1>10. Left(stream)
  BY <1>1, <1>3 DEF Left, EndsWell, q
<1>11. OneEnd(stream)
  BY <1>1, <1>3 DEF OneEnd
<1> QED BY <1>2, <1>4, <1>5, <1>6, <1>7, <1>8, <1>9, <1>10, <1>11 DEF OInv, Owes

\* What the stream owes the application is what its queue and its members hold,
\* in every reachable state.
THEOREM Owed == Spec => []OInv
<1>1. ASSUME OInv, [Next]_vars PROVE OInv'
  <2>1. stream' \in Owing(handed', finished', closeRuns', closeSets')
    BY <1>1, StepOwes
  <2>2. IInv'
    BY <1>1, StepInv DEF OInv
  <2> QED BY <2>1, <2>2 DEF Owing, OInv
<1> QED BY <1>1, InitOwes, PTL DEF Spec

-----------------------------------------------------------------------------
\* Theorems

LEMMA RunIndicesAre == RunIndices = RunsAt(stream.queue)
BY DEF RunIndices, Indices, RunsAt

\* The pending count is the number of callbacks that were posted and have not
\* begun: the close callback is neither held back for ever nor let past one.
THEOREM PendingCounted == Spec => []PendingIsPosted
<1>1. OInv => PendingIsPosted
  BY RunIndicesAre DEF OInv, Owes, Counted, PendingIsPosted
<1> QED BY <1>1, Owed, PTL

\* A read call is answered once: its final callback is not posted twice, nor
\* again when it has run.
THEOREM ReadAnsweredOnce == Spec => []AnsweredOnce
<1>1. OInv => AnsweredOnce
  <2> SUFFICES ASSUME OInv PROVE AnsweredOnce
    OBVIOUS
  <2>1. Answers(stream, finished)
    BY DEF OInv, Owes
  <2>2. \A i \in DOMAIN stream.queue : IsRun(stream.queue[i]) <=> i \in RunsAt(stream.queue)
    BY DEF RunsAt
  <2> QED BY <2>1, <2>2 DEF Answers, AnsweredOnce
<1> QED BY <1>1, Owed, PTL

\* Behind a posted close callback come only the callbacks of reads called after
\* it was posted.
THEOREM CloseIsLast == Spec => []CloseComesLast
<1>1. OInv => CloseComesLast
  BY RunIndicesAre DEF OInv, Owes, CloseLast, CloseComesLast
<1> QED BY <1>1, Owed, PTL

\* The close callback runs at most once for each time it was set.
THEOREM CloseRunsOnce == Spec => []ClosedOnce
<1>1. OInv => ClosedOnce
  <2> SUFFICES ASSUME OInv PROVE ClosedOnce
    OBVIOUS
  <2>1. ClosesSet(stream, closeRuns, closeSets) /\ closeRuns \in Nat /\ closeSets \in Nat
    BY InvDue DEF OInv, Owes
  <2> DEFINE n == IF ClosePosted(stream.queue) THEN 1 ELSE 0
             m == IF stream.closeCb THEN 1 ELSE 0
  <2>2. n \in {0, 1} /\ m \in {0, 1} /\ closeRuns + n + m <= closeSets
    BY <2>1 DEF ClosesSet
  <2> HIDE DEF n, m
  <2> QED BY <2>1, <2>2 DEF ClosedOnce
<1> QED BY <1>1, Owed, PTL

\* A write callback is posted when the socket has taken every byte queued before
\* and by its call.
THEOREM WriteWaitsForBytes == Spec => []WrittenMeansSent
<1>1. OInv => WrittenMeansSent
  BY RunIndicesAre DEF OInv, Owes, Left, AllGone, WrittenMeansSent
<1> QED BY <1>1, Owed, PTL

\* A set of indices that is not empty has a last one.
LEMMA LastIndex ==
    ASSUME NEW n \in Nat, NEW I \in SUBSET (1..n), I # {}
    PROVE  \E i \in I : \A j \in I : j <= i
<1> DEFINE J == {n - i : i \in I}
<1>1. J \in SUBSET Nat /\ J # {}
  <2>1. \A i \in I : n - i \in Nat
    OBVIOUS
  <2>2. PICK i \in I : TRUE
    OBVIOUS
  <2>3. n - i \in J
    OBVIOUS
  <2> QED BY <2>1, <2>3
<1> HIDE DEF J
<1>2. PICK m \in J : \A k \in J : m <= k
  <2>1. PICK p \in J : \A q \in J : <<q, p>> \notin OpToRel(<, Nat)
    BY <1>1, NatLessThanWellFounded, WFMin, Zenon
  <2>2. \A q \in J : ~(q < p)
    BY <1>1, <2>1, Zenon DEF OpToRel
  <2> QED BY <1>1, <2>2
<1>3. PICK i \in I : m = n - i
  BY <1>2 DEF J
<1>4. \A j \in I : n - j \in J
  BY DEF J
<1> QED BY <1>2, <1>3, <1>4

\* The posted callbacks carry the received bytes in order, each byte once.
THEOREM BytesKeepOrder == Spec => []BytesInOrder
<1>1. OInv => BytesInOrder
  <2> SUFFICES ASSUME OInv PROVE BytesInOrder
    OBVIOUS
  <2> DEFINE q == stream.queue
             D == Indices(IsData)
             Before(i) == {j \in D : j < i}
             Last(I) == CHOOSE i \in I : \A j \in I : j <= i
  <2>1. Chain(q, handed, stream.consumed) /\ Base(stream)
    BY InvDue DEF OInv, Owes
  <2>2. D = DataAt(q)
    BY DEF Indices, DataAt, RunsAt, IsData
  <2>3. D \subseteq 1..Len(q) /\ Len(q) \in Nat
    BY <2>1, <2>2, RunsTyped DEF DataAt
  <2>4. /\ D = {} => stream.consumed = handed
        /\ \A j \in D : (\A i \in D : j <= i) => q[j].lo = handed
        /\ \A j \in D : (\A i \in D : i <= j) => q[j].hi = stream.consumed
        /\ \A i, j \in D : i < j /\ (\A k \in D : k <= i \/ j <= k) => q[j].lo = q[i].hi
    BY <2>1, <2>2 DEF Chain
  <2> HIDE DEF D, q
  <2>5. ASSUME NEW I \in SUBSET D, I # {}
        PROVE  Last(I) \in I /\ \A j \in I : j <= Last(I)
    BY <2>3, <2>5, LastIndex
  <2>6. ASSUME NEW i \in D
        PROVE  q[i].lo = IF Before(i) = {} THEN handed ELSE q[Last(Before(i))].hi
    <3>1. CASE Before(i) = {}
      BY <2>3, <2>4, <2>6, <3>1
    <3>2. CASE Before(i) # {}
      <4> DEFINE k == Last(Before(i))
      <4>1. Before(i) \in SUBSET D
        OBVIOUS
      <4>2. k \in Before(i) /\ \A j \in Before(i) : j <= k
        BY <2>5, <3>2, <4>1
      <4> HIDE DEF k
      <4>3. k \in D /\ k < i /\ \A j \in D : j <= k \/ i <= j
        BY <2>3, <2>6, <4>2
      <4>4. q[i].lo = q[k].hi
        BY <2>4, <2>6, <4>3
      <4> QED BY <3>2, <4>4 DEF k
    <3> QED BY <3>1, <3>2
  <2>7. stream.consumed = IF D = {} THEN handed ELSE q[Last(D)].hi
    BY <2>4, <2>5
  <2> QED BY <2>6, <2>7 DEF BytesInOrder, D, q
<1> QED BY <1>1, Owed, PTL


-----------------------------------------------------------------------------
\* An open stream always waits for something

Busy(s) == s.sRead \/ s.sWrite \/ s.sslAccepting \/ s.pending > 0
Heard(s) == ~Closed(s) => Busy(s)
Flows(s) == s.wq # <<>> /\ ~Closed(s) => s.sWrite \/ s.connecting \/ s.sslAccepting

\* A typed stream with no callback posted too few.
Sane(s) == Sound(s) /\ s.pending \in Nat

\* From s to r nothing stops that will report back, and nothing new is to be sent.
Grows(s, r) ==
    /\ Sane(r) /\ s.pending <= r.pending
    /\ s.sRead => r.sRead
    /\ s.sWrite => r.sWrite
    /\ s.sslAccepting => r.sslAccepting
    /\ s.connecting => r.connecting
    /\ r.sslAccepted = s.sslAccepted
    /\ r.wq \in {s.wq, <<>>}
    /\ Closed(s) => Closed(r)

LEMMA GrowsKeeps ==
    ASSUME NEW s, Sane(s), NEW r, Grows(s, r)
    PROVE  /\ Sane(r) /\ (Heard(s) => Heard(r)) /\ (Flows(s) => Flows(r))
           /\ Busy(s) => Busy(r)
           /\ \A x : Grows(r, x) => Grows(s, x)
<1>1. s.pending \in Nat /\ r.pending \in Nat /\ s.pending <= r.pending
  BY DEF Grows, Sane
<1>2. Busy(s) => Busy(r)
  BY <1>1 DEF Busy, Grows
<1>3. \A x : Grows(r, x) => Grows(s, x)
  BY <1>1 DEF Grows, Sane
<1> QED BY <1>2, <1>3 DEF Heard, Flows, Grows

LEMMA GrowsSame ==
    ASSUME NEW s, Sane(s), NEW r, Sound(r), r.pending = s.pending, r.sRead = s.sRead,
           r.sWrite = s.sWrite, r.sslAccepting = s.sslAccepting, r.connecting = s.connecting,
           r.sslAccepted = s.sslAccepted, r.wq = s.wq, r.closing = s.closing, r.closed = s.closed
    PROVE  Grows(s, r)
BY DEF Grows, Sane, Closed

LEMMA RunCallbackGrows ==
    ASSUME NEW s, Sane(s), NEW cb \in Callbacks, NEW id \in Nat, NEW lo \in Nat, NEW hi \in Nat
    PROVE  LET r == RunCallback(s, cb, id, lo, hi)
           IN  /\ Grows(s, r) /\ r.pending = s.pending + 1 /\ r.wq = s.wq
               /\ r.closing = s.closing /\ r.closed = s.closed
<1> DEFINE r == RunCallback(s, cb, id, lo, hi)
<1>1. Sound(r)
  BY RunCallbackSound DEF Sane
<1>2. /\ r.pending = s.pending + 1 /\ r.sRead = s.sRead
      /\ r.sWrite = s.sWrite /\ r.sslAccepting = s.sslAccepting /\ r.connecting = s.connecting
      /\ r.sslAccepted = s.sslAccepted /\ r.wq = s.wq /\ r.closing = s.closing
      /\ r.closed = s.closed /\ s.pending \in Nat
  BY DEF RunCallback, Sane, Sound, StreamType
<1> HIDE DEF r
<1> QED BY <1>1, <1>2 DEF Grows, Sane, Closed, r

LEMMA ClearCallbacksGrows ==
    ASSUME NEW s, Sane(s)
    PROVE  Grows(s, ClearCallbacks(s))
<1> DEFINE r == ClearCallbacks(s)
<1>1. Sound(r)
  BY ClearCallbacksSound DEF Sane
<1>2. /\ r.pending = s.pending /\ r.sRead = s.sRead
      /\ r.sWrite = s.sWrite /\ r.sslAccepting = s.sslAccepting /\ r.connecting = s.connecting
      /\ r.sslAccepted = s.sslAccepted /\ r.wq = s.wq /\ r.closing = s.closing
      /\ r.closed = s.closed
  BY DEF ClearCallbacks, Sane, Sound, StreamType
<1> HIDE DEF r
<1> QED BY <1>1, <1>2, GrowsSame DEF r

LEMMA EmptiedGrows ==
    ASSUME NEW s, Sane(s)
    PROVE  Grows(s, [s EXCEPT !.wq = <<>>])
           /\ Grows(s, [s EXCEPT !.readCb = 0, !.writeCb = 0, !.wq = <<>>])
<1>1. \A w \in Seq(Nat) :
        LET r == [s EXCEPT !.wq = w]
            x == [s EXCEPT !.readCb = 0, !.writeCb = 0, !.wq = w]
        IN  /\ Sane(r) /\ r.wq = w /\ r.pending = s.pending /\ r.sRead = s.sRead
            /\ r.sWrite = s.sWrite /\ r.sslAccepting = s.sslAccepting
            /\ r.connecting = s.connecting /\ r.sslAccepted = s.sslAccepted
            /\ r.closing = s.closing /\ r.closed = s.closed
            /\ Sane(x) /\ x.wq = w /\ x.pending = s.pending /\ x.sRead = s.sRead
            /\ x.sWrite = s.sWrite /\ x.sslAccepting = s.sslAccepting
            /\ x.connecting = s.connecting /\ x.sslAccepted = s.sslAccepted
            /\ x.closing = s.closing /\ x.closed = s.closed
  BY ZenonT(30) DEF Sane, Sound, StreamType
<1>2. s.pending <= s.pending
  BY DEF Sane
<1> QED BY <1>1, <1>2, EmptySequence DEF Grows, Closed

LEMMA MaybeRunCloseCallbackGrows ==
    ASSUME NEW s, Sane(s)
    PROVE  Grows(s, MaybeRunCloseCallback(s))
<1> DEFINE p == RunCallback(s, "close", s.reads, 0, 0)
           c == ClearCallbacks(p)
           r == [c EXCEPT !.wq = <<>>]
<1>1. s.reads \in Nat /\ "close" \in Callbacks
  BY DEF Sane, Sound, StreamType, Callbacks
<1>2. Grows(s, p) /\ Sane(p)
  BY <1>1, RunCallbackGrows, GrowsKeeps
<1> HIDE DEF p
<1>3. Grows(p, c) /\ Sane(c)
  BY <1>2, ClearCallbacksGrows, GrowsKeeps
<1> HIDE DEF c
<1>4. Grows(c, r)
  BY <1>3, EmptiedGrows
<1> HIDE DEF r
<1>5. Grows(s, r)
  BY <1>2, <1>3, <1>4, GrowsKeeps
<1>6. Grows(s, ClearCallbacks(s)) /\ Grows(s, [s EXCEPT !.readCb = 0, !.writeCb = 0, !.wq = <<>>])
  BY ClearCallbacksGrows, EmptiedGrows
<1>7. Grows(s, s)
  BY GrowsSame DEF Sane
<1> QED BY <1>5, <1>6, <1>7 DEF MaybeRunCloseCallback, r, c, p

LEMMA ArmGrows ==
    ASSUME NEW s, Sane(s), NEW op \in Operations
    PROVE  Grows(s, Arm(s, op))
<1> DEFINE r == Arm(s, op)
<1>1. Sound(r)
  BY ArmSound DEF Sane
<1>2. /\ r.pending = s.pending /\ r.sRead = s.sRead
      /\ r.sWrite = s.sWrite /\ r.sslAccepting = s.sslAccepting /\ r.connecting = s.connecting
      /\ r.sslAccepted = s.sslAccepted /\ r.wq = s.wq /\ r.closing = s.closing
      /\ r.closed = s.closed
  BY DEF Arm, Sane, Sound, StreamType
<1> HIDE DEF r
<1> QED BY <1>1, <1>2, GrowsSame DEF r

LEMMA FlagsGrow ==
    ASSUME NEW s, Sane(s)
    PROVE  /\ Grows(s, [s EXCEPT !.sRead = TRUE])
           /\ Grows(s, [s EXCEPT !.sWrite = TRUE])
           /\ ~s.closed => Grows(s, [s EXCEPT !.closing = TRUE])
           /\ Grows(s, [s EXCEPT !.sslAccepting = TRUE, !.sWrite = TRUE])
           /\ \A n \in Nat : Grows(s, [s EXCEPT !.received = n])
<1>0. s \in StreamType /\ s.pending \in Nat /\ s.pending <= s.pending
  BY DEF Sane, Sound
<1>1. Grows(s, [s EXCEPT !.sRead = TRUE])
  BY <1>0, ZenonT(30) DEF Grows, Sane, Sound, StreamType, Closed
<1>2. Grows(s, [s EXCEPT !.sWrite = TRUE])
  BY <1>0, ZenonT(30) DEF Grows, Sane, Sound, StreamType, Closed
<1>3. ~s.closed => Grows(s, [s EXCEPT !.closing = TRUE])
  BY <1>0 DEF Grows, Sane, Sound, StreamType, Closed
<1>4. Grows(s, [s EXCEPT !.sslAccepting = TRUE, !.sWrite = TRUE])
  BY <1>0, ZenonT(30) DEF Grows, Sane, Sound, StreamType, Closed
<1>5. \A n \in Nat : Grows(s, [s EXCEPT !.received = n])
  BY <1>0 DEF Grows, Sane, Sound, StreamType, Closed
<1> QED BY <1>1, <1>2, <1>3, <1>4, <1>5

LEMMA DoHandshakeGrows ==
    ASSUME NEW s, Sane(s)
    PROVE  LET r == DoHandshake(s)
           IN  Grows(s, r) /\ (~s.sslAccepted => r.sslAccepting)
<1> DEFINE t == Arm(s, "handshake")
           r == [t EXCEPT !.sslAccepting = TRUE, !.sWrite = TRUE]
<1>1. Grows(s, t) /\ Sane(t)
  BY ArmGrows, GrowsKeeps DEF Operations
<1> HIDE DEF t
<1>2. Grows(s, r)
  <2>1. Grows(t, r)
    BY <1>1, FlagsGrow
  <2> HIDE DEF r
  <2> QED BY <1>1, <2>1, GrowsKeeps
<1>3. r.sslAccepting
  BY <1>1 DEF Sane, Sound, StreamType
<1> HIDE DEF r
<1>4. Grows(s, s)
  BY GrowsSame DEF Sane
<1> QED BY <1>2, <1>3, <1>4 DEF DoHandshake, r, t

LEMMA DoReadGrows ==
    ASSUME NEW s, Sane(s)
    PROVE  LET r == DoRead(s) IN Grows(s, r) /\ r.sRead
<1> DEFINE t == Arm(s, "read")
           r == [t EXCEPT !.sRead = TRUE]
<1>1. Grows(s, t) /\ Sane(t)
  BY ArmGrows, GrowsKeeps DEF Operations
<1> HIDE DEF t
<1>2. Grows(s, r)
  BY <1>1, FlagsGrow, GrowsKeeps
<1>3. r.sRead
  BY <1>1 DEF Sane, Sound, StreamType
<1> HIDE DEF r
<1> QED BY <1>2, <1>3 DEF DoRead, r, t

LEMMA ReadFromSocketGrows ==
    ASSUME NEW s, Sane(s)
    PROVE  LET r == ReadFromSocket(s) IN Grows(s, r) /\ Busy(r)
BY DoReadGrows, DoHandshakeGrows DEF ReadFromSocket, Busy

LEMMA ListenerGrows ==
    ASSUME NEW s, Sane(s)
    PROVE  LET r == MaybeAddErrorListener(s) IN Grows(s, r) /\ Heard(r)
<1>1. Grows(s, s)
  BY GrowsSame DEF Sane
<1>2. s.pending # 0 => s.pending > 0
  BY DEF Sane
<1>3. Closed(s) => Closed(MaybeRunCloseCallback(s))
  BY MaybeRunCloseCallbackGrows DEF Grows
<1> QED BY <1>1, <1>2, <1>3, MaybeRunCloseCallbackGrows, ReadFromSocketGrows
        DEF MaybeAddErrorListener, Heard, Busy

\* A closed stream owes no answer.
LEMMA ClosedAlert ==
    ASSUME NEW s, Closed(s)
    PROVE  Heard(s) /\ Flows(s)
BY DEF Heard, Flows

LEMMA StreamedGrows ==
    ASSUME NEW s, Sane(s)
    PROVE  Grows(s, Streamed(s))
<1>1. Sound(Streamed(s))
  BY StreamedSound DEF Sane
<1>2. CASE s.streamCb = 0 \/ Active(s) = 0
  BY <1>2, GrowsSame DEF Streamed, Sane
<1>3. CASE ~(s.streamCb = 0 \/ Active(s) = 0)
  <2> DEFINE n == IF s.readBytes # None /\ s.readBytes < Active(s)
                  THEN s.readBytes ELSE Active(s)
             p == RunCallback(s, "stream", s.streamCb, s.consumed, s.consumed + n)
             r == [p EXCEPT !.consumed = @ + n, !.readBytes = IF @ = None THEN None ELSE @ - n]
  <2>1. /\ r.pending = s.pending + 1 /\ r.sRead = s.sRead
        /\ r.sWrite = s.sWrite /\ r.sslAccepting = s.sslAccepting /\ r.connecting = s.connecting
        /\ r.sslAccepted = s.sslAccepted /\ r.wq = s.wq /\ r.closing = s.closing
        /\ r.closed = s.closed /\ s.pending \in Nat
    <3> HIDE DEF n
    <3> QED BY DEF RunCallback, Sane, Sound, StreamType
  <2>2. Streamed(s) = r
    BY <1>3 DEF Streamed
  <2> HIDE DEF r
  <2> QED BY <1>1, <2>1, <2>2 DEF Grows, Sane, Closed
<1> QED BY <1>2, <1>3

\* A read that is complete posts a callback.
LEMMA DeliveredGrows ==
    ASSUME NEW s, Sane(s), Ends(s) # {}
    PROVE  Grows(s, Delivered(s)) /\ Delivered(s).pending > 0
<1>1. Sound(Delivered(s))
  BY DeliveredSound DEF Sane
<1> DEFINE end == Least(Ends(s))
           src == Source(s)
           cb == IF s.readCb = 0 THEN "lostRead" ELSE "read"
           p == RunCallback(s, cb, s.readCb, s.consumed, end)
           r == [p EXCEPT !.consumed = end, !.readCb = 0, !.streamCb = 0,
                          !.readBytes = IF src = "bytes" THEN None ELSE @,
                          !.marks = @ \ {src}]
<1>2. /\ r.pending = s.pending + 1 /\ r.sRead = s.sRead
      /\ r.sWrite = s.sWrite /\ r.sslAccepting = s.sslAccepting /\ r.connecting = s.connecting
      /\ r.sslAccepted = s.sslAccepted /\ r.wq = s.wq /\ r.closing = s.closing
      /\ r.closed = s.closed /\ s.pending \in Nat
  <2> HIDE DEF end, src, cb
  <2> QED BY DEF RunCallback, Sane, Sound, StreamType
<1>3. Delivered(s) = r
  BY DEF Delivered
<1> HIDE DEF r
<1> QED BY <1>1, <1>2, <1>3 DEF Grows, Sane, Closed

LEMMA ReadFromBufferGrows ==
    ASSUME NEW s, Sane(s)
    PROVE  LET r == ReadFromBuffer(s)
           IN  Grows(s, r) /\ (Completes(s) => r.pending > 0)
<1> DEFINE t == Streamed(s)
           d == Delivered(t)
<1>1. Grows(s, t) /\ Sane(t)
  BY StreamedGrows, GrowsKeeps
<1>2. Completes(s) => Ends(t) # {}
  BY DEF Completes
<1>3. ReadFromBuffer(s) = IF Completes(s) THEN d ELSE t
  BY DEF ReadFromBuffer
<1> HIDE DEF t
<1>4. Completes(s) => Grows(t, d) /\ d.pending > 0
  BY <1>1, <1>2, DeliveredGrows
<1> HIDE DEF d
<1> QED BY <1>1, <1>3, <1>4, GrowsKeeps

LEMMA TryInlineReadGrows ==
    ASSUME NEW s, Sane(s)
    PROVE  Grows(s, TryInlineRead(s))
<1> DEFINE t == ReadFromBuffer(s)
           r == ReadFromSocket(t)
<1>1. Grows(s, t) /\ Sane(t)
  BY ReadFromBufferGrows, GrowsKeeps
<1>2. TryInlineRead(s) \in {t, r}
  BY DEF TryInlineRead
<1> HIDE DEF t
<1>3. Grows(t, r)
  BY <1>1, ReadFromSocketGrows
<1> HIDE DEF r
<1> QED BY <1>1, <1>2, <1>3, GrowsKeeps

LEMMA OnReadAlert ==
    ASSUME NEW s, Sane(s), Flows(s), NEW res, NEW n \in Nat, res = "aborted" => s.closed
    PROVE  LET r == OnRead(s, res, n) IN Heard(r) /\ Flows(r)
<1> DEFINE t == [s EXCEPT !.sRead = FALSE]
           more == t.received + n
           u == [t EXCEPT !.received = @ + n]
           v == ReadFromBuffer(u)
           f == ReadFromSocket(v)
           l == MaybeAddErrorListener(v)
<1>1. Sane(t) /\ Flows(t) /\ t.closed = s.closed
  BY ZenonT(30) DEF Sane, Sound, StreamType, Flows, Closed
<1> HIDE DEF t
<1>2. more \in Nat
  <2>1. t.received \in Nat
    BY <1>1 DEF Sane, Sound, StreamType
  <2> QED BY <2>1
<1>3. u = [t EXCEPT !.received = more]
  OBVIOUS
<1> HIDE DEF more, u
<1>4. Sane(u) /\ Flows(u)
  BY <1>1, <1>2, <1>3, FlagsGrow, GrowsKeeps
<1>5. Grows(u, v) /\ Sane(v) /\ Flows(v) /\ (Completes(u) => v.pending > 0)
  BY <1>4, ReadFromBufferGrows, GrowsKeeps
<1> HIDE DEF v
<1>6. Grows(v, f) /\ Heard(f) /\ Flows(f)
  BY <1>5, ReadFromSocketGrows, GrowsKeeps DEF Heard
<1>7. Grows(v, l) /\ Heard(l) /\ Flows(l)
  BY <1>5, ListenerGrows, GrowsKeeps
<1> HIDE DEF f, l
<1>8. Completes(u) \/ Closed(u) => Heard(v)
  BY <1>5 DEF Heard, Busy, Grows
<1>9. Closed(Close(t)) /\ Closed(Close(u))
  BY <1>1, <1>4, CloseSound DEF Sane
<1>10. res = "aborted" => Closed(MaybeRunCloseCallback(t))
  BY <1>1, MaybeRunCloseCallbackGrows DEF Grows, Closed
<1>11. OnRead(s, res, n) =
         CASE res = "aborted"  -> MaybeRunCloseCallback(t)
           [] res = "error"    -> Close(t)
           [] res = "overflow" -> Close(u)
           [] OTHER            -> IF Completes(u) \/ Closed(u) THEN v
                                  ELSE IF v.readCb # 0 THEN f ELSE l
  BY DEF OnRead, t, u, v, f, l
<1> QED BY <1>5, <1>6, <1>7, <1>8, <1>9, <1>10, <1>11, ClosedAlert

-----------------------------------------------------------------------------
\* Writing

LEMMA WriteFailedAlert ==
    ASSUME NEW s, Sane(s), NEW res, res = "error" \/ s.closed
    PROVE  Closed(WriteFailed(s, res))
<1> DEFINE t == [s EXCEPT !.sWrite = FALSE, !.writeCb = 0]
<1>1. Sane(t) /\ t.closed = s.closed
  BY ZenonT(30) DEF Sane, Sound, StreamType
<1>2. WriteFailed(s, res) = IF res = "error" THEN Close(t) ELSE MaybeRunCloseCallback(t)
  BY DEF WriteFailed
<1> HIDE DEF t
<1>3. Closed(Close(t))
  BY <1>1, CloseSound DEF Sane
<1>4. s.closed => Closed(MaybeRunCloseCallback(t))
  BY <1>1, MaybeRunCloseCallbackGrows DEF Grows, Closed
<1> QED BY <1>2, <1>3, <1>4

LEMMA PostWriteAlert ==
    ASSUME NEW s, Sane(s), s.wq = <<>>, NEW cb \in Callbacks
    PROVE  LET r == [RunCallback(s, cb, s.writeCb, 0, s.writeEnd) EXCEPT !.writeCb = 0]
           IN  Heard(r) /\ Flows(r)
<1> DEFINE p == RunCallback(s, cb, s.writeCb, 0, s.writeEnd)
           r == [p EXCEPT !.writeCb = 0]
<1>1. s.writeCb \in Nat /\ s.writeEnd \in Nat /\ 0 \in Nat /\ s.pending \in Nat
  BY DEF Sane, Sound, StreamType
<1>2. Sane(p) /\ p.wq = <<>> /\ p.pending > 0
  <2>1. Grows(s, p) /\ p.pending = s.pending + 1 /\ p.wq = s.wq
    BY <1>1, RunCallbackGrows
  <2> HIDE DEF p
  <2> QED BY <1>1, <2>1 DEF Grows
<1> HIDE DEF p
<1>3. r.wq = <<>> /\ r.pending > 0
  BY <1>2 DEF Sane, Sound, StreamType
<1> HIDE DEF r
<1> QED BY <1>3 DEF Heard, Flows, Busy, r, p

LEMMA WriteDrainedAlert ==
    ASSUME NEW s, Sane(s), s.wq = <<>>
    PROVE  LET r == WriteDrained(s) IN Heard(r) /\ Flows(r)
<1> DEFINE t == [s EXCEPT !.sWrite = FALSE]
           p == [RunCallback(t, "write", t.writeCb, 0, t.writeEnd) EXCEPT !.writeCb = 0]
           l == MaybeAddErrorListener(t)
<1>1. Sane(t) /\ t.wq = <<>>
  BY DEF Sane, Sound, StreamType
<1>2. WriteDrained(s) = IF t.writeCb # 0 THEN p ELSE IF Closed(t) THEN t ELSE l
  BY DEF WriteDrained
<1> HIDE DEF t
<1>3. Heard(p) /\ Flows(p)
  BY <1>1, PostWriteAlert DEF Callbacks
<1>4. Heard(l) /\ Flows(l)
  <2>1. Flows(t)
    BY <1>1 DEF Flows
  <2> QED BY <1>1, <2>1, ListenerGrows, GrowsKeeps
<1> HIDE DEF p, l
<1> QED BY <1>2, <1>3, <1>4, ClosedAlert

LEMMA ArmWriteAlert ==
    ASSUME NEW s, Sound(s)
    PROVE  LET r == ArmWrite(s) IN Heard(r) /\ Flows(r) /\ r.sWrite
<1>1. Sound(Arm(s, "write"))
  BY ArmSound DEF Operations
<1>2. ArmWrite(s).sWrite
  BY <1>1 DEF ArmWrite, Sound, StreamType
<1> QED BY <1>2 DEF Heard, Flows, Busy

LEMMA DoWriteAlert ==
    ASSUME NEW s, Sound(s), s.wq # <<>>
    PROVE  LET r == DoWrite(s) IN Heard(r) /\ Flows(r) /\ r.sWrite
<1> DEFINE w == <<s.wq[Len(s.wq)]>>
           t == [s EXCEPT !.wq = w]
<1>1. w \in Seq(Nat)
  <2>1. s.wq \in Seq(Nat)
    BY DEF Sound, StreamType
  <2>2. Len(s.wq) \in 1..Len(s.wq)
    BY <2>1, EmptySeq
  <2>3. s.wq[Len(s.wq)] \in Nat
    BY <2>1, <2>2
  <2> QED BY <2>3
<1> HIDE DEF w
<1>2. Sound(t)
  BY <1>1 DEF Sound, StreamType
<1> HIDE DEF t
<1> QED BY <1>2, ArmWriteAlert DEF DoWrite, t, w

\* Whatever the socket does, the stream waits for it, is drained or closes.
LEMMA WriteToSocketAlert ==
    ASSUME NEW s, Sane(s), s.wq # <<>>, NEW o \in Outcome
    PROVE  LET r == WriteToSocket(s, o) IN Heard(r) /\ Flows(r)
<1>1. CASE Secure
  <2>1. LET r == DoHandshake(s) IN ~s.sslAccepted => Heard(r) /\ Flows(r)
    BY DoHandshakeGrows DEF Heard, Flows, Busy
  <2> QED BY <1>1, <2>1, DoWriteAlert DEF WriteToSocket, Sane
<1>2. CASE ~Secure
  <2> DEFINE w == SubSeq(s.wq, o.k + 1, Len(s.wq))
             z == <<>>
             all == [s EXCEPT !.wq = z, !.sent = s.written]
             rest == [s EXCEPT !.wq = w, !.sent = o.to]
  <2>1. /\ w \in Seq(Nat) /\ o.to \in Nat /\ s.written \in Nat /\ z \in Seq(Nat)
    <3>1. s.wq \in Seq(Nat) /\ o.k \in Nat /\ o.to \in Nat /\ s.written \in Nat
      BY DEF Sane, Sound, StreamType, Outcome
    <3>2. \A i \in (o.k + 1)..Len(s.wq) : s.wq[i] \in Nat
      BY <3>1
    <3> QED BY <3>1, <3>2, EmptySequence
  <2> HIDE DEF w, z
  <2>2. Sane(all) /\ all.wq = z /\ Sane(rest)
    BY <2>1 DEF Sane, Sound, StreamType
  <2>3. /\ o.kind = "all"   => WriteToSocket(s, o) = WriteDrained(all)
        /\ o.kind = "error" => WriteToSocket(s, o) = WriteFailed(s, "error")
        /\ o.kind = "zero"  => WriteToSocket(s, o) = Close(s)
        /\ o.kind = "block" => WriteToSocket(s, o) = ArmWrite(rest)
    BY <1>2 DEF WriteToSocket, w, z
  <2> HIDE DEF all, rest
  <2>4. CASE o.kind = "all"
    BY <2>2, <2>3, <2>4, WriteDrainedAlert DEF z
  <2>5. CASE o.kind = "error"
    BY <2>3, <2>5, WriteFailedAlert, ClosedAlert
  <2>6. CASE o.kind = "zero"
    BY <2>3, <2>6, CloseSound, ClosedAlert DEF Sane
  <2>7. CASE o.kind = "block"
    BY <2>2, <2>3, <2>7, ArmWriteAlert DEF Sane
  <2> QED BY <2>4, <2>5, <2>6, <2>7 DEF Outcome
<1> QED BY <1>1, <1>2

LEMMA OnWriteAlert ==
    ASSUME NEW s, Sane(s), NEW res, res \in {"ok", "error"} \/ s.closed, NEW n \in Nat,
           NEW o \in Outcome
    PROVE  LET r == OnWrite(s, res, n, o) IN Heard(r) /\ Flows(r)
<1> DEFINE c == [s EXCEPT !.sWrite = FALSE]
           w == IF c.sent + n = Head(c.wq) THEN Tail(c.wq) ELSE c.wq
           to == c.sent + n
           t == TakeFront(c, n)
<1>1. Sane(c)
  BY DEF Sane, Sound, StreamType
<1>2. OnWrite(s, res, n, o) =
        IF res # "ok" THEN WriteFailed(s, res) ELSE IF t.wq = <<>> THEN WriteDrained(t)
        ELSE IF Closed(t) THEN t ELSE WriteToSocket(t, o)
  BY DEF OnWrite
<1> HIDE DEF c
<1>3. Sane(t)
  <2>1. CASE c.wq = <<>>
    BY <1>1, <2>1 DEF TakeFront, Sane, Sound, StreamType
  <2>2. CASE c.wq # <<>>
    <3>1. w \in Seq(Nat) /\ to \in Nat
      <4>1. c.wq \in Seq(Nat) /\ c.sent \in Nat
        BY <1>1 DEF Sane, Sound, StreamType
      <4>2. Tail(c.wq) \in Seq(Nat)
        BY <2>2, <4>1
      <4>3. to \in Nat
        BY <4>1
      <4> QED BY <4>1, <4>2, <4>3
    <3> HIDE DEF w, to
    <3>2. t = [c EXCEPT !.wq = w, !.sent = to]
      BY <1>1, <2>2 DEF TakeFront, w, to, Sane, Sound, StreamType
    <3>3. Sane([c EXCEPT !.wq = w, !.sent = to])
      BY <1>1, <3>1 DEF Sane, Sound, StreamType
    <3> QED BY <3>2, <3>3
  <2> QED BY <2>1, <2>2
<1> HIDE DEF t
<1>4. res # "ok" => Closed(WriteFailed(s, res))
  BY WriteFailedAlert
<1> QED BY <1>2, <1>3, <1>4, WriteDrainedAlert, WriteToSocketAlert, ClosedAlert

LEMMA FlushAlert ==
    ASSUME NEW s, Sane(s), NEW o \in Outcome
    PROVE  LET r == Flush(s, o) IN (Heard(s) => Heard(r)) /\ Flows(r)
<1> DEFINE cb == IF s.writeCb = 0 THEN "noWrite" ELSE "write"
           r == [RunCallback(s, cb, s.writeCb, 0, s.writeEnd) EXCEPT !.writeCb = 0]
<1>1. Flush(s, o) =
        IF s.connecting THEN s ELSE IF s.wq = <<>> THEN r
        ELSE IF s.sWrite THEN s ELSE WriteToSocket(s, o)
  BY DEF Flush
<1>2. cb \in Callbacks
  BY DEF Callbacks, Empty
<1> HIDE DEF cb
<1>3. s.wq = <<>> => Heard(r) /\ Flows(r)
  BY <1>2, PostWriteAlert
<1> HIDE DEF r
<1>4. s.connecting \/ s.sWrite => Flows(s)
  BY DEF Flows
<1> QED BY <1>1, <1>3, <1>4, WriteToSocketAlert

-----------------------------------------------------------------------------
\* Connecting

LEMMA ConnectFailedAlert ==
    ASSUME NEW s, Sane(s), NEW res, res = "error" \/ s.closed
    PROVE  Closed(ConnectFailed(s, res))
<1> DEFINE t == [s EXCEPT !.sWrite = FALSE, !.connectCb = FALSE]
<1>1. Sane(t) /\ t.closed = s.closed
  BY ZenonT(30) DEF Sane, Sound, StreamType
<1>2. ConnectFailed(s, res) = IF res = "error" THEN Close(t) ELSE MaybeRunCloseCallback(t)
  BY DEF ConnectFailed
<1> HIDE DEF t
<1>3. Closed(Close(t))
  BY <1>1, CloseSound DEF Sane
<1>4. s.closed => Closed(MaybeRunCloseCallback(t))
  BY <1>1, MaybeRunCloseCallbackGrows DEF Grows, Closed
<1> QED BY <1>2, <1>3, <1>4

\* A posted connect callback.
LEMMA PostConnectSane ==
    ASSUME NEW s, Sane(s)
    PROVE  /\ Sane([RunCallback(s, "connect", 0, 0, 0) EXCEPT !.connectCb = FALSE])
           /\ Sane([RunCallback(s, "connect", 0, 0, 0) EXCEPT !.sslConnectCb = FALSE])
<1> DEFINE p == RunCallback(s, "connect", 0, 0, 0)
<1>1. "connect" \in Callbacks /\ 0 \in Nat
  BY DEF Callbacks
<1>2. Sane(p)
  BY <1>1, RunCallbackGrows DEF Grows
<1> HIDE DEF p
<1>3. Sane([p EXCEPT !.connectCb = FALSE])
  <2>1. LET r == [p EXCEPT !.connectCb = FALSE]
        IN  r \in StreamType /\ r.pending = p.pending /\ r.closed = p.closed /\ r.queue = p.queue
    BY <1>2, ZenonT(30) DEF Sane, Sound, StreamType
  <2> QED BY <1>2, <2>1 DEF Sane, Sound
<1>4. Sane([p EXCEPT !.sslConnectCb = FALSE])
  <2>1. LET r == [p EXCEPT !.sslConnectCb = FALSE]
        IN  r \in StreamType /\ r.pending = p.pending /\ r.closed = p.closed /\ r.queue = p.queue
    BY <1>2, ZenonT(30) DEF Sane, Sound, StreamType
  <2> QED BY <1>2, <2>1 DEF Sane, Sound
<1> QED BY <1>3, <1>4 DEF p

LEMMA OnConnectAlert ==
    ASSUME NEW s, Sane(s), NEW res, res \in {"ok", "error"} \/ s.closed, NEW o \in Outcome
    PROVE  LET r == OnConnect(s, res, o) IN Heard(r) /\ Flows(r)
<1> DEFINE t == [s EXCEPT !.sWrite = FALSE]
           c == [RunCallback(t, "connect", 0, 0, 0) EXCEPT !.connectCb = FALSE]
           u == IF t.connectCb THEN c ELSE t
           v == [u EXCEPT !.connecting = FALSE]
           p == [RunCallback(v, "write", v.writeCb, 0, v.writeEnd) EXCEPT !.writeCb = 0]
           l == MaybeAddErrorListener(v)
<1>1. OnConnect(s, res, o) =
        IF res # "ok" THEN ConnectFailed(s, res)
        ELSE IF s.closed THEN u
        ELSE IF v.wq # <<>> THEN WriteToSocket(v, o)
        ELSE IF v.writeCb # 0 THEN p ELSE l
  BY DEF OnConnect
<1>2. Sane(t)
  BY ZenonT(30) DEF Sane, Sound, StreamType
<1>3. t.closed = s.closed
  BY DEF Sane, Sound, StreamType
<1> HIDE DEF t
<1>4. Sane(c) /\ c.closed = t.closed
  <2>1. c.closed = t.closed
    BY <1>2 DEF Sane, Sound, StreamType, RunCallback
  <2> QED BY <1>2, <2>1, PostConnectSane
<1> HIDE DEF c
<1>5. Sane(u) /\ u.closed = s.closed
  BY <1>2, <1>3, <1>4
<1>6. s.closed => Heard(u) /\ Flows(u)
  BY <1>5, ClosedAlert DEF Closed
<1> HIDE DEF u
<1>7. Sane(v)
  BY <1>5, ZenonT(30) DEF Sane, Sound, StreamType
<1> HIDE DEF v
<1>8. v.wq = <<>> => Heard(p) /\ Flows(p)
  BY <1>7, PostWriteAlert DEF Callbacks
<1>9. v.wq = <<>> => Heard(l) /\ Flows(l)
  <2>1. v.wq = <<>> => Flows(v)
    BY DEF Flows
  <2> QED BY <1>7, <2>1, ListenerGrows, GrowsKeeps
<1> HIDE DEF p, l
<1>10. res # "ok" => Closed(ConnectFailed(s, res))
  BY ConnectFailedAlert
<1> QED BY <1>1, <1>6, <1>7, <1>8, <1>9, <1>10, WriteToSocketAlert, ClosedAlert

LEMMA RealConnectAlert ==
    ASSUME NEW s, Sane(s), NEW resolved \in BOOLEAN
    PROVE  LET r == RealConnect(s, resolved) IN Heard(r) /\ Flows(r)
<1> DEFINE t == Arm(s, "connect")
           ssl == Secure /\ s.connectCb
           r == [t EXCEPT !.sWrite = TRUE, !.sslConnectCb = ssl, !.connectCb = ~Secure /\ @]
<1>1. Sound(t)
  BY ArmSound DEF Operations, Sane
<1>2. RealConnect(s, resolved) = IF ~resolved THEN ConnectFailed(s, "error") ELSE r
  BY DEF RealConnect
<1> HIDE DEF t, ssl
<1>3. r.sWrite
  BY <1>1 DEF Sound, StreamType
<1> HIDE DEF r
<1> QED BY <1>2, <1>3, ConnectFailedAlert, ClosedAlert DEF Heard, Flows, Busy

LEMMA OnHandshakeAlert ==
    ASSUME NEW s, Sane(s), NEW res, res = "aborted" => s.closed
    PROVE  LET r == OnHandshake(s, res) IN Heard(r) /\ Flows(r)
<1> DEFINE t == [s EXCEPT !.sWrite = FALSE, !.sslAccepting = FALSE]
           u == [t EXCEPT !.sslAccepted = TRUE]
           p == [RunCallback(u, "connect", 0, 0, 0) EXCEPT !.sslConnectCb = FALSE]
           v == IF u.sslConnectCb THEN p ELSE u
           d == DoWrite(v)
           w == IF v.wq # <<>> THEN d ELSE v
           e == DoRead(w)
           x == IF w.readCb # 0 THEN e ELSE w
           l == MaybeAddErrorListener(x)
<1>1. OnHandshake(s, res) =
        CASE res = "aborted" -> t [] res = "error" -> Close(t) [] OTHER -> l
  BY DEF OnHandshake
<1>2. Sane(t) /\ t.closed = s.closed
  BY ZenonT(30) DEF Sane, Sound, StreamType
<1> HIDE DEF t
<1>3. Sane(u)
  BY <1>2 DEF Sane, Sound, StreamType
<1> HIDE DEF u
<1>4. Sane(p)
  BY <1>3, PostConnectSane
<1> HIDE DEF p
<1>5. Sane(v)
  BY <1>3, <1>4
<1> HIDE DEF v
<1>6. v.wq # <<>> => Sane(d) /\ Flows(d)
  <2>1. v.wq # <<>> => Sound(d)
    BY <1>5, DoWriteSound DEF Sane
  <2>2. d.pending = v.pending
    BY <1>5 DEF DoWrite, ArmWrite, Arm, Sane, Sound, StreamType
  <2> HIDE DEF d
  <2>3. v.wq # <<>> => Sane(d)
    BY <1>5, <2>1, <2>2 DEF Sane
  <2> QED BY <1>5, <2>3, DoWriteAlert DEF Sane, d
<1> HIDE DEF d
<1>7. Sane(w) /\ Flows(w)
  <2>1. v.wq = <<>> => Flows(v)
    BY DEF Flows
  <2> QED BY <1>5, <1>6, <2>1
<1> HIDE DEF w
<1>8. Sane(e) /\ Flows(e)
  BY <1>7, DoReadGrows, GrowsKeeps
<1> HIDE DEF e
<1>9. Sane(x) /\ Flows(x)
  BY <1>7, <1>8
<1> HIDE DEF x
<1>10. Heard(l) /\ Flows(l)
  BY <1>9, ListenerGrows, GrowsKeeps
<1> HIDE DEF l
<1>11. res = "aborted" => Closed(t)
  BY <1>2 DEF Closed
<1>12. Closed(Close(t))
  BY <1>2, CloseSound DEF Sane
<1> QED BY <1>1, <1>10, <1>11, <1>12, ClosedAlert

-----------------------------------------------------------------------------
\* The steps keep the stream alert

\* Nothing queued is forgotten, and between callbacks an open stream listens.
Alert(s, r) == Flows(s) /\ (s.opened /\ r = Idle => Heard(s))

\* The inductive invariant.
AInv == OInv /\ Alert(stream, running)

LEMMA InvSane ==
    ASSUME AInv
    PROVE  /\ Sane(stream) /\ stream \in StreamType /\ Flows(stream)
           /\ stream.opened /\ running = Idle => Heard(stream)
<1>1. Base(stream) /\ stream.pending = Cardinality(RunsAt(stream.queue))
  BY DEF AInv, OInv, Owes, Counted
<1>2. stream.pending \in Nat
  BY <1>1, RunsTyped DEF Base
<1>3. Sound(stream)
  BY <1>1 DEF Base
<1> QED BY <1>2, <1>3 DEF Sane, Sound, AInv, Alert

\* A change of members that no operation and no queued byte hangs on.
LEMMA AlertSame ==
    ASSUME AInv, NEW r \in StreamType, r.opened = stream.opened,
           r.sRead = stream.sRead, r.sWrite = stream.sWrite,
           r.sslAccepting = stream.sslAccepting, r.connecting = stream.connecting,
           r.pending = stream.pending, r.wq = stream.wq,
           r.closing = stream.closing, r.closed = stream.closed
    PROVE  Flows(r) /\ Alert(r, running) /\ (Heard(stream) => Heard(r))
BY InvSane DEF Alert, Flows, Heard, Busy, Closed

LEMMA StartAlert ==
    ASSUME AInv, Start
    PROVE  Alert(stream', running')
<1> DEFINE r == [stream EXCEPT !.opened = TRUE]
<1>1. Sane(r) /\ Flows(r)
  BY InvSane DEF Sane, Sound, StreamType, Flows, Closed
<1>2. stream' = MaybeAddErrorListener(r)
  BY DEF Start
<1> HIDE DEF r
<1> QED BY <1>1, <1>2, ListenerGrows, GrowsKeeps DEF Alert

LEMMA ConnectAlert ==
    ASSUME AInv, Connect
    PROVE  Alert(stream', running')
<1>1. PICK resolved \in BOOLEAN, callback \in BOOLEAN :
        stream' = RealConnect([stream EXCEPT !.opened = TRUE, !.connecting = TRUE,
                                             !.connectCb = callback], resolved)
  BY DEF Connect
<1> DEFINE r == [stream EXCEPT !.opened = TRUE, !.connecting = TRUE, !.connectCb = callback]
<1>2. Sane(r)
  BY InvSane, ZenonT(30) DEF Sane, Sound, StreamType
<1>3. stream' = RealConnect(r, resolved)
  BY <1>1
<1> HIDE DEF r
<1> QED BY <1>2, <1>3, RealConnectAlert DEF Alert

\* What a read call sets and tries leaves the stream as alert as it was.
LEMMA ReadingAlert ==
    ASSUME AInv, ReadCall, NEW r \in StreamType,
           r.sRead = stream.sRead, r.sWrite = stream.sWrite,
           r.sslAccepting = stream.sslAccepting, r.connecting = stream.connecting,
           r.pending = stream.pending, r.wq = stream.wq, r.opened = stream.opened,
           r.closing = stream.closing, r.closed = stream.closed, r.queue = stream.queue
    PROVE  Alert(TryInlineRead(r), running)
<1>1. Sane(r)
  BY InvSane DEF Sane, Sound
<1>2. Flows(r) /\ (running = Idle => Heard(r))
  BY AlertSame, InvSane DEF ReadCall
<1> QED BY <1>1, <1>2, TryInlineReadGrows, GrowsKeeps DEF Alert

LEMMA ReadBytesAlert ==
    ASSUME AInv, ReadBytes
    PROVE  Alert(stream', running')
<1> DEFINE id == stream.reads + 1
<1>1. stream \in StreamType /\ ReadCall /\ running' = running
  BY InvSane DEF ReadBytes, ReadCall, Calling
<1>2. PICK n \in 0..MaxBytes, streaming \in BOOLEAN :
        stream' = TryInlineRead([Reading(id) EXCEPT
                      !.readBytes = n, !.streamCb = IF streaming THEN id ELSE 0])
  BY DEF ReadBytes
<1> DEFINE d == IF streaming THEN id ELSE 0
           r == [Reading(id) EXCEPT !.readBytes = n, !.streamCb = d]
<1>3. id \in Nat /\ d \in Nat /\ n \in Nat
  BY <1>1, BoundsAssumption DEF StreamType
<1>4. stream' = TryInlineRead(r)
  BY <1>2
<1> HIDE DEF id, d
<1>5. /\ r \in StreamType /\ r.sRead = stream.sRead /\ r.sWrite = stream.sWrite
      /\ r.sslAccepting = stream.sslAccepting /\ r.connecting = stream.connecting
      /\ r.pending = stream.pending /\ r.wq = stream.wq /\ r.opened = stream.opened
      /\ r.closing = stream.closing /\ r.closed = stream.closed /\ r.queue = stream.queue
  BY <1>1, <1>3 DEF Reading, StreamType
<1> HIDE DEF r
<1> QED BY <1>1, <1>4, <1>5, ReadingAlert

LEMMA ReadUntilAlert ==
    ASSUME AInv, ReadUntil
    PROVE  Alert(stream', running')
<1> DEFINE id == stream.reads + 1
<1>1. stream \in StreamType /\ ReadCall /\ running' = running
  BY InvSane DEF ReadUntil, ReadCall, Calling
<1>2. PICK m \in Marks : stream' = TryInlineRead([Reading(id) EXCEPT !.marks = @ \cup {m}])
  BY DEF ReadUntil
<1> DEFINE t == Reading(id)
           marks == t.marks \cup {m}
           r == [t EXCEPT !.marks = marks]
<1>3. id \in Nat
  BY <1>1 DEF StreamType
<1>4. stream' = TryInlineRead(r)
  BY <1>2
<1> HIDE DEF id
<1>5. /\ t \in StreamType /\ t.sRead = stream.sRead /\ t.sWrite = stream.sWrite
      /\ t.sslAccepting = stream.sslAccepting /\ t.connecting = stream.connecting
      /\ t.pending = stream.pending /\ t.wq = stream.wq /\ t.opened = stream.opened
      /\ t.closing = stream.closing /\ t.closed = stream.closed /\ t.queue = stream.queue
  BY <1>1, <1>3 DEF Reading, StreamType
<1> HIDE DEF t
<1>6. marks \in SUBSET Marks
  BY <1>5 DEF StreamType
<1> HIDE DEF marks
<1>7. /\ r \in StreamType /\ r.sRead = t.sRead /\ r.sWrite = t.sWrite
      /\ r.sslAccepting = t.sslAccepting /\ r.connecting = t.connecting
      /\ r.pending = t.pending /\ r.wq = t.wq /\ r.opened = t.opened
      /\ r.closing = t.closing /\ r.closed = t.closed /\ r.queue = t.queue
  BY <1>5, <1>6 DEF StreamType
<1> HIDE DEF r
<1> QED BY <1>1, <1>4, <1>5, <1>7, ReadingAlert

LEMMA ReadUntilCloseAlert ==
    ASSUME AInv, ReadUntilClose
    PROVE  Alert(stream', running')
<1> DEFINE id == stream.reads + 1
<1>1. stream \in StreamType /\ ReadCall /\ running' = running
  BY InvSane DEF ReadUntilClose, ReadCall, Calling
<1>2. PICK streaming \in BOOLEAN :
        LET s == [Reading(id) EXCEPT !.streamCb = IF streaming THEN id ELSE 0]
        IN  stream' = IF Closed(s) THEN ReadRest(s)
                      ELSE TryInlineRead([s EXCEPT !.untilClose = TRUE])
  BY DEF ReadUntilClose
<1> DEFINE d == IF streaming THEN id ELSE 0
           t == [Reading(id) EXCEPT !.streamCb = d]
           r == [t EXCEPT !.untilClose = TRUE]
<1>3. id \in Nat /\ d \in Nat
  BY <1>1 DEF StreamType
<1>4. stream' = IF Closed(t) THEN ReadRest(t) ELSE TryInlineRead(r)
  BY <1>2
<1> HIDE DEF id, d
<1>5. /\ t \in StreamType /\ t.sRead = stream.sRead /\ t.sWrite = stream.sWrite
      /\ t.sslAccepting = stream.sslAccepting /\ t.connecting = stream.connecting
      /\ t.pending = stream.pending /\ t.wq = stream.wq /\ t.opened = stream.opened
      /\ t.closing = stream.closing /\ t.closed = stream.closed /\ t.queue = stream.queue
  BY <1>1, <1>3 DEF Reading, StreamType
<1> HIDE DEF t
<1>6. /\ r \in StreamType /\ r.sRead = t.sRead /\ r.sWrite = t.sWrite
      /\ r.sslAccepting = t.sslAccepting /\ r.connecting = t.connecting
      /\ r.pending = t.pending /\ r.wq = t.wq /\ r.opened = t.opened
      /\ r.closing = t.closing /\ r.closed = t.closed /\ r.queue = t.queue
  BY <1>5 DEF StreamType
<1> HIDE DEF r
<1>7. Closed(t) => Closed(ReadRest(t))
  <2> DEFINE u == IF t.streamCb = 0 THEN t
                  ELSE [RunCallback(t, "stream", t.streamCb, t.consumed, t.received)
                            EXCEPT !.consumed = t.received]
             x == [RunCallback(u, "read", u.readCb, u.consumed, u.received)
                       EXCEPT !.consumed = u.received, !.readCb = 0, !.streamCb = 0]
  <2>1. u.closing = t.closing /\ u.closed = t.closed /\ DOMAIN u = DOMAIN t
    BY <1>5 DEF RunCallback, StreamType
  <2>2. ReadRest(t) = x
    BY DEF ReadRest
  <2> HIDE DEF u
  <2>3. x.closing = u.closing /\ x.closed = u.closed
    BY <1>5, <2>1 DEF RunCallback, StreamType
  <2> QED BY <2>1, <2>2, <2>3 DEF Closed
<1> QED BY <1>1, <1>4, <1>5, <1>6, <1>7, ReadingAlert, ClosedAlert DEF Alert

LEMMA WriteAlert ==
    ASSUME AInv, Write
    PROVE  Alert(stream', running')
<1> DEFINE id == stream.writes + 1
<1>1. Sane(stream) /\ stream \in StreamType /\ (running = Idle => Heard(stream))
  BY InvSane DEF Write
<1>2. PICK len \in 0..MaxLength, callback \in BOOLEAN :
        LET s == Enqueue([stream EXCEPT !.writes = id], len, IF callback THEN id ELSE 0)
        IN  \E o \in Outcomes(s) : stream' = Flush(s, o)
  BY DEF Write
<1> DEFINE b == [stream EXCEPT !.writes = id]
           cb == IF callback THEN id ELSE 0
           w == b.wq \o Packets(b.written, len)
           n == b.written + len
           r == [b EXCEPT !.wq = w, !.written = n, !.writeCb = cb, !.writeEnd = n]
<1>3. PICK o \in Outcomes(r) : stream' = Flush(r, o)
  BY <1>2 DEF Enqueue
<1>4. id \in Nat /\ cb \in Nat /\ len \in Nat
  BY <1>1, BoundsAssumption, SMTT(30) DEF StreamType
<1> HIDE DEF id, cb
<1>5. /\ b \in StreamType /\ b.sRead = stream.sRead /\ b.sWrite = stream.sWrite
      /\ b.sslAccepting = stream.sslAccepting /\ b.pending = stream.pending
      /\ b.closing = stream.closing /\ b.closed = stream.closed /\ b.queue = stream.queue
  BY <1>1, <1>4 DEF StreamType
<1> HIDE DEF b
<1>6. w \in Seq(Nat) /\ n \in Nat
  <2>1. b.wq \in Seq(Nat) /\ b.written \in Nat
    BY <1>5 DEF StreamType
  <2>2. \A x, y \in Seq(Nat) : x \o y \in Seq(Nat)
    OBVIOUS
  <2>3. Packets(b.written, len) \in Seq(Nat)
    BY <1>4, <2>1, PacketsType
  <2> QED BY <1>4, <2>1, <2>2, <2>3
<1> HIDE DEF w, n
<1>7. /\ r \in StreamType /\ r.sRead = b.sRead /\ r.sWrite = b.sWrite
      /\ r.sslAccepting = b.sslAccepting /\ r.pending = b.pending
      /\ r.closing = b.closing /\ r.closed = b.closed /\ r.queue = b.queue
  BY <1>4, <1>5, <1>6 DEF StreamType
<1> HIDE DEF r
<1>8. Sane(r) /\ (running = Idle => Heard(r))
  BY <1>1, <1>5, <1>7 DEF Sane, Sound, Heard, Busy, Closed
<1>9. o \in Outcome
  BY <1>3, <1>7, OutcomesTyped
<1> QED BY <1>3, <1>8, <1>9, FlushAlert DEF Alert, Write, Calling

LEMMA CompleteAlert ==
    ASSUME AInv, NEW op \in Operations, Complete(op)
    PROVE  Alert(stream', running')
<1>1. PICK q, k : stream' = [stream EXCEPT !.kernel = k, !.queue = q]
  BY DEF Complete
<1>2. LET r == [stream EXCEPT !.kernel = k, !.queue = q]
      IN  /\ r.opened = stream.opened
          /\ r.sRead = stream.sRead /\ r.sWrite = stream.sWrite
          /\ r.sslAccepting = stream.sslAccepting /\ r.connecting = stream.connecting
          /\ r.pending = stream.pending /\ r.wq = stream.wq
          /\ r.closing = stream.closing /\ r.closed = stream.closed
  BY InvSane DEF StreamType
<1> QED BY <1>1, <1>2, InvSane DEF Complete, Alert, Flows, Heard, Busy, Closed

LEMMA HandleCompletionAlert ==
    ASSUME AInv, HandleCompletion
    PROVE  Alert(stream', running')
<1> DEFINE s == Taken
           h == NextHandler
<1>1. IInv /\ stream.queue # <<>> /\ ~IsRun(h) /\ Base(stream) /\ Sane(stream) /\ Flows(stream)
  BY InvSane DEF AInv, OInv, Owes, HandleCompletion, Dispatches
<1>2. Sane(s) /\ Flows(s) /\ s.closed = stream.closed
  <2>1. Sound(s) /\ s.closed = stream.closed
    BY <1>1, TakenGood DEF Good
  <2>2. /\ s.sWrite = stream.sWrite /\ s.closing = stream.closing /\ s.pending = stream.pending
        /\ s.sslAccepting = stream.sslAccepting /\ s.connecting = stream.connecting
        /\ s.wq = stream.wq
    BY <1>1 DEF Taken, Sane, Sound, StreamType
  <2> HIDE DEF s
  <2> QED BY <1>1, <2>1, <2>2 DEF Sane, Flows, Closed
<1>3. h \in Runs \cup Ended /\ (~stream.closed => h \in Live)
  <2>1. stream.queue \in Seq(Runs \cup Ended) /\ (~stream.closed => stream.queue \in Seq(Live))
    BY <1>1 DEF Base, Sound
  <2>2. \A T : \A z \in Seq(T) : z # <<>> => Head(z) \in T
    OBVIOUS
  <2> QED BY <1>1, <2>1, <2>2 DEF NextHandler
<1>4. /\ h \in Completions /\ (h.res = "overflow" => h.op = "read")
      /\ h \in Live => h.res # "aborted"
  <2>1. \A x \in Runs : IsRun(x)
    BY DEF Runs, IsRun
  <2> QED BY <1>1, <1>3, <2>1 DEF Ended, Live
<1>5. /\ h.op \in Operations /\ h.res \in Results /\ h.n \in Nat
      /\ h.res = "aborted" => s.closed
      /\ h.op # "read" => h.res \in {"ok", "error"} \/ s.closed
  BY <1>2, <1>3, <1>4 DEF Completions, Results
<1>6. /\ h.op = "read"      => stream' = OnRead(s, h.res, h.n)
      /\ h.op = "connect"   => \E o \in Outcomes(s) : stream' = OnConnect(s, h.res, o)
      /\ h.op = "handshake" => stream' = OnHandshake(s, h.res)
      /\ h.op = "shutdown"  => stream' = OnShutdown(s)
      /\ h.op = "write"     =>
           \E o \in Outcomes(TakeFront(s, h.n)) : stream' = OnWrite(s, h.res, h.n, o)
  BY <1>5 DEF HandleCompletion, Operations
<1>7. Outcomes(s) \subseteq Outcome /\ Outcomes(TakeFront(s, h.n)) \subseteq Outcome
  <2>1. Good(s)
    BY <1>1, TakenGood
  <2> HIDE DEF s, h
  <2>2. Good(TakeFront(s, h.n))
    BY <1>5, <2>1, TakeFrontGood
  <2> QED BY <2>1, <2>2, OutcomesTyped DEF Good, Sound
<1> HIDE DEF s, h
<1>8. CASE h.op = "read"
  BY <1>2, <1>5, <1>6, <1>8, OnReadAlert DEF Alert
<1>9. CASE h.op = "connect"
  BY <1>2, <1>5, <1>6, <1>7, <1>9, OnConnectAlert DEF Alert
<1>10. CASE h.op = "handshake"
  BY <1>2, <1>5, <1>6, <1>10, OnHandshakeAlert DEF Alert
<1>11. CASE h.op = "shutdown"
  <2> DEFINE t == [s EXCEPT !.sWrite = FALSE]
  <2>1. Sound(t)
    BY <1>2 DEF Sane, Sound, StreamType
  <2>4. t \in StreamType
    BY <2>1 DEF Sound
  <2>2. stream' = DoClose(t)
    BY <1>6, <1>11 DEF OnShutdown
  <2> HIDE DEF t
  <2>3. Closed(stream')
    BY <2>2, <2>4, DoCloseSound
  <2> QED BY <2>3, ClosedAlert DEF Alert
<1>12. CASE h.op = "write"
  BY <1>2, <1>5, <1>6, <1>7, <1>12, OnWriteAlert DEF Alert
<1> QED BY <1>5, <1>8, <1>9, <1>10, <1>11, <1>12 DEF Operations

LEMMA BeginCallbackAlert ==
    ASSUME AInv, BeginCallback
    PROVE  Alert(stream', running')
<1> DEFINE q == Tail(stream.queue)
           left == stream.pending - 1
           r == [stream EXCEPT !.queue = q, !.pending = left]
<1>1. stream \in StreamType /\ Flows(stream)
  BY InvSane
<1>2. stream' = r
  BY <1>1 DEF BeginCallback, Taken, StreamType
<1> HIDE DEF q, left
<1>3. /\ r.sWrite = stream.sWrite /\ r.closing = stream.closing /\ r.closed = stream.closed
      /\ r.sslAccepting = stream.sslAccepting /\ r.connecting = stream.connecting
      /\ r.wq = stream.wq
  BY <1>1 DEF StreamType
<1> HIDE DEF r
<1>4. Flows(r)
  BY <1>1, <1>3 DEF Flows, Closed
<1>5. running' # Idle
  <2>1. running' = NextHandler /\ NextHandler \in Handlers /\ IsRun(NextHandler)
    BY TakenGood DEF AInv, OInv, BeginCallback, Dispatches
  <2>2. running'.run \in Callbacks
    BY <2>1, HandlerKinds DEF Runs
  <2> QED BY <2>2 DEF Idle, Callbacks, Empty
<1> QED BY <1>2, <1>4, <1>5 DEF Alert

LEMMA StepAlert ==
    ASSUME AInv, [Next]_vars
    PROVE  Alert(stream', running')
<1>1. /\ Sane(stream) /\ stream \in StreamType /\ Flows(stream)
      /\ stream.opened /\ running = Idle => Heard(stream)
  BY InvSane
<1>2. Closed(Close(stream)) /\ Sane(Close(stream))
  <2>1. Sound(Close(stream)) /\ Closed(Close(stream))
    BY <1>1, CloseSound DEF Sane
  <2>2. Close(stream) \in Due /\ Base(Close(stream)) /\ Counted(Close(stream))
    <3>1. OInv
      BY DEF AInv
    <3>2. Close(stream) \in Due
      BY <3>1, InvDue, CloseKept
    <3> QED BY <3>2 DEF Due, Owing, Owes
  <2>3. Close(stream).pending \in Nat
    BY <2>2, RunsTyped DEF Base, Counted
  <2> QED BY <2>1, <2>3 DEF Sane
<1>3. CASE SetCloseCallback \/ ResetCloseCallback
  <2>1. PICK b \in BOOLEAN : stream' = [stream EXCEPT !.closeCb = b]
    BY <1>3 DEF SetCloseCallback, ResetCloseCallback
  <2> DEFINE r == [stream EXCEPT !.closeCb = b]
  <2>2. /\ r \in StreamType /\ r.opened = stream.opened
        /\ r.sRead = stream.sRead /\ r.sWrite = stream.sWrite
        /\ r.sslAccepting = stream.sslAccepting /\ r.connecting = stream.connecting
        /\ r.pending = stream.pending /\ r.wq = stream.wq
        /\ r.closing = stream.closing /\ r.closed = stream.closed
    BY <1>1 DEF StreamType
  <2> HIDE DEF r
  <2>3. Alert(r, running)
    BY <2>2, AlertSame
  <2> QED BY <1>3, <2>1, <2>3 DEF r, SetCloseCallback, ResetCloseCallback, Calling
<1>4. CASE CloseCall
  BY <1>2, <1>4, ClosedAlert DEF CloseCall, Alert
<1>5. CASE CallbackReturns \/ CallbackThrows
  <2>1. Alert(MaybeAddErrorListener(stream), Idle)
    BY <1>1, ListenerGrows, GrowsKeeps DEF Alert
  <2>2. Alert(Close(stream), Idle) /\ Alert(MaybeAddErrorListener(Close(stream)), Idle)
    BY <1>2, ClosedAlert, ListenerGrows, GrowsKeeps DEF Alert
  <2> QED BY <1>5, <2>1, <2>2 DEF CallbackReturns, CallbackThrows
<1>6. CASE UNCHANGED vars
  BY <1>1, <1>6 DEF vars, Alert
<1> QED BY <1>3, <1>4, <1>5, <1>6, StartAlert, ConnectAlert, ReadBytesAlert, ReadUntilAlert,
           ReadUntilCloseAlert, WriteAlert, CompleteAlert, HandleCompletionAlert,
           BeginCallbackAlert
        DEF Next, Application

\* No queued byte is forgotten and no open stream is left deaf, in every
\* reachable state.
THEOREM StaysAlert == Spec => []AInv
<1>1. Init => AInv
  <2>1. Init => Flows(stream) /\ ~stream.opened
    BY DEF Init, Fresh, Flows
  <2> QED BY <2>1, InitOwes DEF AInv, Alert
<1>2. ASSUME AInv, [Next]_vars PROVE AInv'
  <2>1. OInv'
    BY <1>2, StepOwes, StepInv DEF AInv, OInv, Owing
  <2>2. Alert(stream, running)'
    BY <1>2, StepAlert DEF Alert, Flows, Heard, Busy, Closed
  <2> QED BY <2>1, <2>2 DEF AInv
<1> QED BY <1>1, <1>2, PTL DEF Spec

\* Bytes the application has queued on an open stream are always on their way:
\* an operation that will send them is outstanding (S_WRITE), or the connect or
\* the handshake at whose end they are sent is.
THEOREM WriteNeverForgotten == Spec => []NoForgottenWrite
<1>1. AInv => NoForgottenWrite
  BY DEF AInv, Alert, Flows, NoForgottenWrite
<1> QED BY <1>1, StaysAlert, PTL

\* Between callbacks an open stream has an operation outstanding or a callback
\* posted, so it learns of the peer's close.
THEOREM AlwaysListens == Spec => []NeverDeaf
<1>1. AInv => NeverDeaf
  BY DEF AInv, Alert, Heard, Busy, NeverDeaf
<1> QED BY <1>1, StaysAlert, PTL

-----------------------------------------------------------------------------
\* What the application is promised: Delivery.tla

\* The posted callbacks of one kind belong to different calls, in the order of the
\* calls, all made before the one whose callback is in the member cb.
InTurn(q, run, cb, calls) ==
    /\ cb <= calls
    /\ \A i \in RunsAt(q) : q[i].run = run =>
         /\ q[i].id \in 1..calls /\ (cb # 0 => q[i].id < cb)
         /\ \A j \in RunsAt(q) : i < j /\ q[j].run = run => q[i].id < q[j].id

Numbered(s) ==
    /\ InTurn(s.queue, "read", s.readCb, s.reads)
    /\ InTurn(s.queue, "write", s.writeCb, s.writes)

\* A posted callback is given bytes that had been received; one that is not the
\* answer to a call has no number.
Fills(h, received) ==
    /\ IsData(h) => h.lo <= h.hi /\ h.hi <= received
    /\ h.run \in {"connect", "noWrite", "lostRead"} => h.id = 0

Filled(s) ==
    /\ s.consumed <= s.received
    /\ \A i \in RunsAt(s.queue) : Fills(s.queue[i], s.received)

\* A close callback is posted when no other callback is.
CloseFirst(s) == \A i, j \in RunsAt(s.queue) : s.queue[i].run = "close" => i <= j

Ready(s) == Base(s) /\ Counted(s) /\ Numbered(s) /\ Filled(s) /\ CloseFirst(s)

-----------------------------------------------------------------------------
\* Moves, as far as what is promised is concerned

Quietly(s, r) ==
    /\ SameRuns(s.queue, r.queue) /\ Called(r) = Called(s) /\ s.received <= r.received
    /\ r.consumed = s.consumed /\ r.closeCb = s.closeCb /\ (Closed(s) => Closed(r))
    /\ r.readCb \in {0, s.readCb} /\ (r.readCb = s.readCb \/ Closed(r))
    /\ r.writeCb \in {0, s.writeCb}

Adds(s, r, h) ==
    /\ AddsRun(s.queue, r.queue, h) /\ Given(r) = Given(s)
    /\ r.closeCb = s.closeCb /\ (Closed(s) => Closed(r)) /\ h.run # "close"
    /\ IF h.run = "read" THEN h.id = s.readCb /\ s.readCb # 0 /\ r.readCb = 0
                         ELSE r.readCb = s.readCb
    /\ IF h.run = "write" THEN h.id = s.writeCb /\ s.writeCb # 0 /\ r.writeCb = 0
                          ELSE r.writeCb = s.writeCb
    /\ IF IsData(h) THEN h.lo = s.consumed /\ h.hi = r.consumed /\ Within(s, h.hi)
                    ELSE r.consumed = s.consumed
    /\ h.run \in {"connect", "noWrite", "lostRead"} => h.id = 0

LEMMA MoveIs ==
    ASSUME NEW s, Base(s), NEW r \in StreamType, Move(s, r)
    PROVE  Quietly(s, r) \/ (\E h \in Runs : Adds(s, r, h)) \/ PostsClose(s, r)
<1>0. /\ s \in StreamType /\ s.readCb \in Nat /\ s.streamCb \in Nat /\ s.writeCb \in Nat
      /\ s.consumed \in Nat /\ r.consumed \in Nat /\ s.writeEnd \in Nat /\ s.received \in Nat
  BY DEF Base, Sound, StreamType
<1>1. CASE Waits(s, r)
  BY <1>1, QuietMoves DEF Quietly, Waits, ReadSide, WriteSide
<1>2. CASE Forgets(s, r)
  BY <1>0, <1>2, QuietMoves, GivenWaits DEF Quietly, Forgets, CloseSide, Closed
<1>3. CASE Sends(s, r)
  BY <1>0, <1>3, QuietMoves, GivenWaits DEF Quietly, Sends, ReadSide, CloseSide, Closed
<1>4. CASE PostsConnect(s, r)
  <2> DEFINE h == [run |-> "connect", id |-> 0, lo |-> 0, hi |-> 0]
  <2>1. AddsRun(s.queue, r.queue, h)
    BY <1>4, PostingMoves
  <2>2. h \in Runs /\ h.run = "connect" /\ h.id = 0 /\ ~IsData(h)
    BY DEF Runs, Callbacks, IsData
  <2> HIDE DEF h
  <2>3. Adds(s, r, h)
    BY <1>4, <2>1, <2>2 DEF Adds, PostsConnect, Posts, ReadSide, WriteSide, CloseSide, Closed
  <2> QED BY <2>2, <2>3
<1>5. CASE PostsStream(s, r)
  <2> DEFINE h == [run |-> "stream", id |-> s.streamCb, lo |-> s.consumed, hi |-> r.consumed]
  <2>1. AddsRun(s.queue, r.queue, h)
    BY <1>5, PostingMoves
  <2>2. h \in Runs /\ h.run = "stream" /\ IsData(h) /\ h.lo = s.consumed /\ h.hi = r.consumed
    BY <1>0 DEF Runs, Callbacks, IsData, IsRun
  <2> HIDE DEF h
  <2>3. Given(r) = Given(s) /\ Within(s, r.consumed)
    BY <1>5 DEF PostsStream, Posts
  <2>4. Adds(s, r, h)
    BY <1>5, <2>1, <2>2, <2>3 DEF Adds, PostsStream, WriteSide, CloseSide, Closed
  <2> QED BY <2>2, <2>4
<1>6. CASE PostsRead(s, r)
  <2> DEFINE h == [run |-> IF s.readCb = 0 THEN "lostRead" ELSE "read", id |-> s.readCb,
                   lo |-> s.consumed, hi |-> r.consumed]
  <2>1. AddsRun(s.queue, r.queue, h)
    BY <1>6, PostingMoves
  <2>2. /\ h \in Runs /\ IsData(h) /\ h.lo = s.consumed /\ h.hi = r.consumed /\ h.id = s.readCb
        /\ h.run = IF s.readCb = 0 THEN "lostRead" ELSE "read"
    BY <1>0 DEF Runs, Callbacks, Empty, IsData, IsRun
  <2> HIDE DEF h
  <2>3. Given(r) = Given(s) /\ Within(s, r.consumed) /\ r.readCb = 0
    BY <1>6 DEF PostsRead, Posts
  <2>4. Adds(s, r, h)
    BY <1>6, <2>1, <2>2, <2>3 DEF Adds, PostsRead, WriteSide, CloseSide, Closed
  <2> QED BY <2>2, <2>4
<1>7. CASE PostsWrite(s, r)
  <2> DEFINE h == [run |-> IF s.writeCb = 0 THEN "noWrite" ELSE "write", id |-> s.writeCb,
                   lo |-> 0, hi |-> s.writeEnd]
  <2>1. AddsRun(s.queue, r.queue, h)
    BY <1>7, PostingMoves
  <2>2. /\ h \in Runs /\ ~IsData(h) /\ h.id = s.writeCb
        /\ h.run = IF s.writeCb = 0 THEN "noWrite" ELSE "write"
    BY <1>0 DEF Runs, Callbacks, Empty, IsData
  <2> HIDE DEF h
  <2>3. Adds(s, r, h)
    BY <1>7, <2>1, <2>2 DEF Adds, PostsWrite, Posts, ReadSide, CloseSide, Closed
  <2> QED BY <2>2, <2>3
<1> QED BY <1>1, <1>2, <1>3, <1>4, <1>5, <1>6, <1>7 DEF Move

\* The posted close callback is alone.
LEMMA CloseAlone ==
    ASSUME NEW s, Base(s), Counted(s), NEW r \in StreamType, PostsClose(s, r)
    PROVE  /\ RunsAt(s.queue) = {}
           /\ \E n \in Nat : /\ RunsAt(r.queue) = {n}
                             /\ r.queue[n] = [run |-> "close", id |-> s.reads, lo |-> 0, hi |-> 0]
<1>1. RunsAt(s.queue) = {}
  BY NothingPosted DEF PostsClose
<1> DEFINE h == [run |-> "close", id |-> s.reads, lo |-> 0, hi |-> 0]
<1>2. AddsRun(s.queue, r.queue, h)
  BY PostingMoves
<1> HIDE DEF h
<1> QED BY <1>1, <1>2 DEF AddsRun, h

LEMMA InTurnMoves ==
    ASSUME NEW q, NEW p, NEW run, NEW cb \in Nat, NEW new \in Nat, NEW calls \in Nat,
           InTurn(q, run, cb, calls), RunsAt(q) \subseteq Nat,
           \/ SameRuns(q, p) /\ new \in {0, cb}
           \/ \E h : /\ AddsRun(q, p, h)
                     /\ IF h.run = run THEN h.id = cb /\ cb # 0 /\ new = 0 ELSE new = cb
    PROVE  InTurn(p, run, new, calls)
<1>1. CASE SameRuns(q, p) /\ new \in {0, cb}
  BY <1>1 DEF InTurn, SameRuns
<1>2. ASSUME NEW h, AddsRun(q, p, h),
             IF h.run = run THEN h.id = cb /\ cb # 0 /\ new = 0 ELSE new = cb
      PROVE  InTurn(p, run, new, calls)
  <2>1. PICK n \in Nat : /\ RunsAt(p) = RunsAt(q) \cup {n} /\ p[n] = h
                         /\ \A i \in RunsAt(q) : i < n /\ p[i] = q[i]
    BY <1>2 DEF AddsRun
  <2>2. new <= calls
    BY <1>2 DEF InTurn
  <2>3. ASSUME NEW i \in RunsAt(p), p[i].run = run
        PROVE  /\ p[i].id \in 1..calls /\ (new # 0 => p[i].id < new)
               /\ \A j \in RunsAt(p) : i < j /\ p[j].run = run => p[i].id < p[j].id
    <3>1. CASE i = n
      <4>1. \A j \in RunsAt(p) : ~(n < j)
        BY <2>1
      <4>2. cb \in 1..calls
        BY <1>2, <2>1, <2>3, <3>1 DEF InTurn
      <4> QED BY <1>2, <2>1, <2>3, <3>1, <4>1, <4>2
    <3>2. CASE i \in RunsAt(q)
      <4>1. /\ p[i] = q[i] /\ q[i].id \in 1..calls /\ (cb # 0 => q[i].id < cb)
            /\ \A j \in RunsAt(q) : i < j /\ q[j].run = run => q[i].id < q[j].id
        BY <2>1, <2>3, <3>2 DEF InTurn
      <4>2. new # 0 => p[i].id < new
        BY <1>2, <4>1
      <4>3. ASSUME NEW j \in RunsAt(p), i < j, p[j].run = run
            PROVE  p[i].id < p[j].id
        BY <1>2, <2>1, <4>1, <4>3
      <4> QED BY <4>1, <4>2, <4>3
    <3> QED BY <2>1, <3>1, <3>2
  <2> QED BY <2>2, <2>3 DEF InTurn
<1> QED BY <1>1, <1>2

LEMMA NumberedMoves ==
    ASSUME NEW s, Base(s), Counted(s), Numbered(s), NEW r \in StreamType, Move(s, r)
    PROVE  Numbered(r)
<1>0. /\ s.readCb \in Nat /\ s.writeCb \in Nat /\ s.reads \in Nat /\ s.writes \in Nat
      /\ r.readCb \in Nat /\ r.writeCb \in Nat /\ r.reads \in Nat /\ r.writes \in Nat
      /\ RunsAt(s.queue) \subseteq Nat
  <2>1. RunsAt(s.queue) \subseteq Nat
    BY RunsTyped
  <2> QED BY <2>1 DEF Base, Sound, StreamType
<1>1. CASE Quietly(s, r)
  <2>1. r.reads = s.reads /\ r.writes = s.writes
    BY <1>1 DEF Quietly, Called
  <2> QED BY <1>0, <1>1, <2>1, InTurnMoves DEF Numbered, Quietly
<1>2. ASSUME NEW h \in Runs, Adds(s, r, h)
      PROVE  Numbered(r)
  <2>1. r.reads = s.reads /\ r.writes = s.writes
    BY <1>2 DEF Adds, Given
  <2>2. InTurn(r.queue, "read", r.readCb, s.reads)
    BY <1>0, <1>2, InTurnMoves DEF Numbered, Adds
  <2>3. InTurn(r.queue, "write", r.writeCb, s.writes)
    BY <1>0, <1>2, InTurnMoves DEF Numbered, Adds
  <2> QED BY <2>1, <2>2, <2>3 DEF Numbered
<1>3. CASE PostsClose(s, r)
  <2>1. PICK n \in Nat :
          /\ RunsAt(r.queue) = {n}
          /\ r.queue[n] = [run |-> "close", id |-> s.reads, lo |-> 0, hi |-> 0]
    BY <1>3, CloseAlone
  <2>2. r.queue[n].run = "close"
    BY <2>1
  <2>3. r.readCb = 0 /\ r.writeCb = 0
    BY <1>3 DEF PostsClose
  <2> QED BY <1>0, <2>1, <2>2, <2>3 DEF Numbered, InTurn
<1> QED BY <1>1, <1>2, <1>3, MoveIs

LEMMA FilledMoves ==
    ASSUME NEW s, Base(s), Counted(s), Filled(s), NEW r \in StreamType, Move(s, r)
    PROVE  Filled(r)
<1>0. /\ s.consumed \in Nat /\ s.received \in Nat /\ r.consumed \in Nat /\ r.received \in Nat
      /\ \A i \in RunsAt(s.queue) : s.queue[i].lo \in Nat /\ s.queue[i].hi \in Nat
  <2>1. \A i \in RunsAt(s.queue) : s.queue[i] \in Runs
    BY RunsTyped
  <2> QED BY <2>1 DEF Base, Sound, StreamType, Runs
<1>1. CASE Quietly(s, r)
  <2>1. ASSUME NEW i \in RunsAt(r.queue)
        PROVE  Fills(r.queue[i], r.received)
    <3>1. i \in RunsAt(s.queue) /\ r.queue[i] = s.queue[i] /\ Fills(s.queue[i], s.received)
      BY <1>1, <2>1 DEF Quietly, SameRuns, Filled
    <3> QED BY <1>0, <1>1, <3>1 DEF Fills, Quietly
  <2> QED BY <1>0, <1>1, <2>1 DEF Filled, Quietly
<1>2. ASSUME NEW h \in Runs, Adds(s, r, h)
      PROVE  Filled(r)
  <2>1. r.received = s.received
    BY <1>2 DEF Adds, Given
  <2>2. PICK n \in Nat : /\ RunsAt(r.queue) = RunsAt(s.queue) \cup {n} /\ r.queue[n] = h
                         /\ \A i \in RunsAt(s.queue) : i < n /\ r.queue[i] = s.queue[i]
    BY <1>2 DEF Adds, AddsRun
  <2>3. Fills(h, s.received) /\ r.consumed <= s.received
    BY <1>0, <1>2 DEF Adds, Fills, Filled, Within
  <2> QED BY <2>1, <2>2, <2>3 DEF Filled
<1>3. CASE PostsClose(s, r)
  <2>1. PICK n \in Nat :
          /\ RunsAt(r.queue) = {n}
          /\ r.queue[n] = [run |-> "close", id |-> s.reads, lo |-> 0, hi |-> 0]
    BY <1>3, CloseAlone
  <2>2. Fills(r.queue[n], r.received)
    BY <2>1 DEF Fills, IsData
  <2>3. r.consumed = s.consumed /\ r.received = s.received
    BY <1>3 DEF PostsClose, Posts, Given
  <2> QED BY <2>1, <2>2, <2>3 DEF Filled
<1> QED BY <1>1, <1>2, <1>3, MoveIs

LEMMA CloseFirstMoves ==
    ASSUME NEW s, Base(s), Counted(s), CloseFirst(s), NEW r \in StreamType, Move(s, r)
    PROVE  CloseFirst(r)
<1>0. RunsAt(s.queue) \subseteq Nat
  <2>1. RunsAt(s.queue) \subseteq 1..Len(s.queue)
    BY RunsTyped
  <2> QED BY <2>1
<1>1. CASE Quietly(s, r)
  BY <1>1 DEF Quietly, SameRuns, CloseFirst
<1>2. ASSUME NEW h \in Runs, Adds(s, r, h)
      PROVE  CloseFirst(r)
  <2>1. PICK n \in Nat : /\ RunsAt(r.queue) = RunsAt(s.queue) \cup {n} /\ r.queue[n] = h
                         /\ \A i \in RunsAt(s.queue) : i < n /\ r.queue[i] = s.queue[i]
    BY <1>2 DEF Adds, AddsRun
  <2>2. h.run # "close"
    BY <1>2 DEF Adds
  <2> QED BY <1>0, <2>1, <2>2 DEF CloseFirst
<1>3. CASE PostsClose(s, r)
  <2>1. PICK n \in Nat : RunsAt(r.queue) = {n}
    BY <1>3, CloseAlone
  <2> QED BY <2>1 DEF CloseFirst
<1> QED BY <1>1, <1>2, <1>3, MoveIs

\* What a move does to the calls that are still to be answered, as Settle of
\* Delivery has it.
Settles(s, r) ==
    /\ r.reads = s.reads /\ r.writes = s.writes
    /\ s.received <= r.received
    /\ Closed(s) => Closed(r)
    /\ OwedReads(r) \subseteq OwedReads(s) /\ (OwedReads(r) = OwedReads(s) \/ Closed(r))
    /\ OwedWrites(r) \subseteq OwedWrites(s)
    /\ \/ r.closeCb = s.closeCb /\ (CallsPosted(r, "close") = {} <=> CallsPosted(s, "close") = {})
       \/ /\ s.closeCb /\ CallsPosted(s, "close") = {}
          /\ Closed(r) /\ OwedReads(r) = {} /\ OwedWrites(r) = {}
          /\ ~r.closeCb /\ CallsPosted(r, "close") # {}

LEMMA PostedIs ==
    ASSUME NEW s, NEW run, NEW x
    PROVE  x \in CallsPosted(s, run) <=>
             \E i \in RunsAt(s.queue) : s.queue[i].run = run /\ s.queue[i].id = x
BY DEF CallsPosted, RunsAt

LEMMA PostedSame ==
    ASSUME NEW s, NEW r, SameRuns(s.queue, r.queue), NEW run
    PROVE  CallsPosted(r, run) = CallsPosted(s, run)
<1>1. \A x : x \in CallsPosted(r, run) <=> x \in CallsPosted(s, run)
  BY PostedIs DEF SameRuns
<1> QED BY <1>1

LEMMA PostedAdds ==
    ASSUME NEW s, NEW r, NEW h, AddsRun(s.queue, r.queue, h), NEW run
    PROVE  CallsPosted(r, run) = CallsPosted(s, run) \cup (IF h.run = run THEN {h.id} ELSE {})
<1>1. PICK n \in Nat : /\ RunsAt(r.queue) = RunsAt(s.queue) \cup {n} /\ r.queue[n] = h
                       /\ \A i \in RunsAt(s.queue) : i < n /\ r.queue[i] = s.queue[i]
  BY DEF AddsRun
<1>2. \A x : x \in CallsPosted(r, run) <=> x \in CallsPosted(s, run) \/ (h.run = run /\ h.id = x)
  BY <1>1, PostedIs
<1> QED BY <1>2

LEMMA MoveSettles ==
    ASSUME NEW s, Base(s), Counted(s), NEW r \in StreamType, Move(s, r)
    PROVE  Settles(s, r)
<1>0. /\ s.received \in Nat /\ s.received <= s.received
      /\ s.closeCb \in BOOLEAN /\ r.closeCb \in BOOLEAN
  BY DEF Base, Sound, StreamType
<1>1. CASE Quietly(s, r)
  <2>1. \A run : CallsPosted(r, run) = CallsPosted(s, run)
    BY <1>1, PostedSame DEF Quietly
  <2>2. r.reads = s.reads /\ r.writes = s.writes
    BY <1>1 DEF Quietly, Called
  <2>3. OwedReads(r) \subseteq OwedReads(s) /\ (OwedReads(r) = OwedReads(s) \/ Closed(r))
    BY <1>1, <2>1 DEF Quietly, OwedReads
  <2>4. OwedWrites(r) \subseteq OwedWrites(s)
    BY <1>1, <2>1 DEF Quietly, OwedWrites
  <2> QED BY <1>1, <2>1, <2>2, <2>3, <2>4 DEF Settles, Quietly
<1>2. ASSUME NEW h \in Runs, Adds(s, r, h)
      PROVE  Settles(s, r)
  <2>1. \A run : CallsPosted(r, run) = CallsPosted(s, run) \cup (IF h.run = run THEN {h.id} ELSE {})
    BY <1>2, PostedAdds DEF Adds
  <2>2. r.reads = s.reads /\ r.writes = s.writes /\ r.received = s.received
    BY <1>2 DEF Adds, Given
  <2>3. OwedReads(r) = OwedReads(s)
    BY <1>2, <2>1 DEF Adds, OwedReads
  <2>4. OwedWrites(r) = OwedWrites(s)
    BY <1>2, <2>1 DEF Adds, OwedWrites
  <2>5. CallsPosted(r, "close") = CallsPosted(s, "close")
    BY <1>2, <2>1 DEF Adds
  <2> QED BY <1>0, <1>2, <2>2, <2>3, <2>4, <2>5 DEF Settles, Adds
<1>3. CASE PostsClose(s, r)
  <2>1. PICK n \in Nat :
          /\ RunsAt(s.queue) = {} /\ RunsAt(r.queue) = {n}
          /\ r.queue[n] = [run |-> "close", id |-> s.reads, lo |-> 0, hi |-> 0]
    BY <1>3, CloseAlone
  <2>2. r.queue[n].run = "close"
    BY <2>1
  <2>3. \A x : /\ x \notin CallsPosted(s, "close") /\ x \notin CallsPosted(r, "read")
               /\ x \notin CallsPosted(r, "write")
    BY <2>1, <2>2, PostedIs
  <2>4. r.queue[n].id \in CallsPosted(r, "close")
    BY <2>1, <2>2, PostedIs
  <2>5. r.readCb = 0 /\ r.writeCb = 0 /\ s.closeCb /\ ~r.closeCb /\ s.closed /\ r.closed
    BY <1>3 DEF PostsClose
  <2>6. OwedReads(r) = {} /\ OwedWrites(r) = {}
    BY <2>3, <2>5 DEF OwedReads, OwedWrites
  <2>7. r.reads = s.reads /\ r.writes = s.writes /\ r.received = s.received
    BY <1>3 DEF PostsClose, Posts, Given
  <2> QED BY <1>0, <2>3, <2>4, <2>5, <2>6, <2>7 DEF Settles, Closed
<1> QED BY <1>1, <1>2, <1>3, MoveIs

LEMMA SettlesAgain ==
    ASSUME NEW a \in StreamType, NEW s \in StreamType, NEW r \in StreamType,
           Settles(a, s), Settles(s, r)
    PROVE  Settles(a, r)
<1>1. a.received \in Nat /\ s.received \in Nat /\ r.received \in Nat
  BY DEF StreamType
<1>2. a.received <= r.received
  BY <1>1 DEF Settles
<1> QED BY <1>2 DEF Settles

\* The streams that one which settles from a becomes.
Settling(a) == {r \in StreamType : Ready(r) /\ Settles(a, r)}

LEMMA SettlingKept ==
    ASSUME NEW a \in StreamType
    PROVE  Kept(Settling(a))
<1>1. \A s \in Settling(a) : Base(s)
  BY DEF Settling, Ready
<1>2. ASSUME NEW s \in Settling(a), NEW r \in StreamType, Base(r), Move(s, r)
      PROVE  r \in Settling(a)
  <2>1. /\ s \in StreamType /\ Base(s) /\ Counted(s) /\ Numbered(s) /\ Filled(s) /\ CloseFirst(s)
        /\ Settles(a, s)
    BY DEF Settling, Ready
  <2>2. Counted(r) /\ Numbered(r) /\ Filled(r) /\ CloseFirst(r)
    BY <1>2, <2>1, CountedMoves, NumberedMoves, FilledMoves, CloseFirstMoves
  <2>3. Settles(a, r)
    BY <1>2, <2>1, MoveSettles, SettlesAgain
  <2> QED BY <1>2, <2>2, <2>3 DEF Settling, Ready
<1> QED BY <1>1, <1>2 DEF Kept

LEMMA GoesSettles ==
    ASSUME NEW s \in StreamType, Ready(s), NEW r, GoesTo(s, r)
    PROVE  r \in StreamType /\ Ready(r) /\ Settles(s, r)
<1>1. Settles(s, s)
  <2>1. s.received \in Nat
    BY DEF StreamType
  <2> QED BY <2>1 DEF Settles
<1>2. s \in Settling(s)
  BY <1>1 DEF Settling
<1>3. r \in Settling(s)
  BY <1>2, SettlingKept, GoesKept
<1> QED BY <1>3 DEF Settling

-----------------------------------------------------------------------------
\* The streams the helpers begin with

LEMMA ReadyLike ==
    ASSUME NEW s, Ready(s), NEW r, Base(r), Counted(r), r.queue = s.queue,
           r.consumed = s.consumed, r.received = s.received,
           InTurn(s.queue, "read", r.readCb, r.reads),
           InTurn(s.queue, "write", r.writeCb, r.writes)
    PROVE  Ready(r) /\ \A run : CallsPosted(r, run) = CallsPosted(s, run)
<1>1. Filled(r) /\ CloseFirst(r) /\ Numbered(r)
  BY DEF Ready, Filled, CloseFirst, Numbered
<1>2. \A run : CallsPosted(r, run) = CallsPosted(s, run)
  BY PostedSame DEF SameRuns
<1> QED BY <1>1, <1>2 DEF Ready

LEMMA OpensReady ==
    ASSUME Ready(stream), NEW r, Opens(r)
    PROVE  Ready(r) /\ \A run : CallsPosted(r, run) = CallsPosted(stream, run)
<1>1. Base(r) /\ Counted(r)
  BY DEF Opens, Ready, Base, Sound, Counted, CloseSide
<1>2. /\ r.readCb = stream.readCb /\ r.reads = stream.reads /\ r.writeCb = stream.writeCb
      /\ r.writes = stream.writes /\ r.consumed = stream.consumed
      /\ r.received = stream.received /\ r.queue = stream.queue
  BY DEF Opens, ReadSide, WriteSide
<1> QED BY <1>1, <1>2, ReadyLike DEF Ready, Numbered

LEMMA CallsReadReady ==
    ASSUME Ready(stream), NEW r, CallsRead(r)
    PROVE  Ready(r) /\ \A run : CallsPosted(r, run) = CallsPosted(stream, run)
<1>1. Base(r) /\ Counted(r)
  BY DEF CallsRead, Ready, Base, Sound, Counted, CloseSide
<1>2. /\ r.readCb = stream.reads + 1 /\ r.reads = stream.reads + 1
      /\ r.writeCb = stream.writeCb /\ r.writes = stream.writes
      /\ r.consumed = stream.consumed /\ r.received = stream.received
      /\ r.queue = stream.queue
  BY DEF CallsRead, WriteSide
<1>3. stream.reads \in Nat
  BY DEF Ready, Base, Sound, StreamType
<1>4. InTurn(stream.queue, "read", r.readCb, r.reads)
  BY <1>2, <1>3 DEF Ready, Numbered, InTurn
<1> QED BY <1>1, <1>2, <1>4, ReadyLike DEF Ready, Numbered

LEMMA CallsWriteReady ==
    ASSUME Ready(stream), NEW r, Base(r), Counted(r), CallsWrite(r)
    PROVE  Ready(r) /\ \A run : CallsPosted(r, run) = CallsPosted(stream, run)
<1>1. /\ r.readCb = stream.readCb /\ r.reads = stream.reads
      /\ r.writeCb \in {0, stream.writes + 1} /\ r.writes = stream.writes + 1
      /\ r.consumed = stream.consumed /\ r.received = stream.received
      /\ r.queue = stream.queue
  BY DEF CallsWrite, ReadSide
<1>2. stream.writes \in Nat
  BY DEF Ready, Base, Sound, StreamType
<1>3. InTurn(stream.queue, "write", r.writeCb, r.writes)
  BY <1>1, <1>2 DEF Ready, Numbered, InTurn
<1> QED BY <1>1, <1>3, ReadyLike DEF Ready, Numbered

LEMMA WatchReady ==
    ASSUME Ready(stream), NEW b \in BOOLEAN
    PROVE  LET r == [stream EXCEPT !.closeCb = b]
           IN  /\ Ready(r) /\ \A run : CallsPosted(r, run) = CallsPosted(stream, run)
               /\ OwedReads(r) = OwedReads(stream) /\ OwedWrites(r) = OwedWrites(stream)
               /\ r.closeCb = b /\ Closed(r) = Closed(stream) /\ r.reads = stream.reads
               /\ r.writes = stream.writes /\ r.received = stream.received
<1> DEFINE r == [stream EXCEPT !.closeCb = b]
<1>1. stream \in StreamType
  BY DEF Ready, Base, Sound
<1>2. /\ r \in StreamType /\ r.queue = stream.queue /\ r.pending = stream.pending
      /\ r.readCb = stream.readCb /\ r.reads = stream.reads /\ r.writeCb = stream.writeCb
      /\ r.writes = stream.writes /\ r.consumed = stream.consumed
      /\ r.received = stream.received /\ r.closed = stream.closed
      /\ r.closing = stream.closing /\ r.closeCb = b
  BY <1>1 DEF StreamType
<1> HIDE DEF r
<1>3. Base(r) /\ Counted(r)
  BY <1>2 DEF Ready, Base, Sound, Counted
<1>4. Ready(r) /\ \A run : CallsPosted(r, run) = CallsPosted(stream, run)
  BY <1>2, <1>3, ReadyLike DEF Ready, Numbered
<1>5. OwedReads(r) = OwedReads(stream) /\ OwedWrites(r) = OwedWrites(stream)
  BY <1>2, <1>4 DEF OwedReads, OwedWrites
<1> QED BY <1>2, <1>4, <1>5 DEF Closed, r

\* The handler at the head leaves the queue.
LEMMA TailReady ==
    ASSUME NEW s, Ready(s), s.queue # <<>>, NEW r, Base(r), Counted(r),
           r.queue = Tail(s.queue), r.consumed = s.consumed, r.received = s.received,
           r.readCb = s.readCb, r.reads = s.reads, r.writeCb = s.writeCb, r.writes = s.writes
    PROVE  LET h == Head(s.queue)
           IN  /\ Ready(r)
               /\ \A run : CallsPosted(s, run) = CallsPosted(r, run)
                     \cup (IF IsRun(h) /\ h.run = run THEN {h.id} ELSE {})
<1> DEFINE q == s.queue
           p == Tail(q)
           h == Head(q)
<1>1. /\ h = q[1] /\ (1 \in RunsAt(q) <=> IsRun(h))
      /\ RunsAt(q) \subseteq Nat \ {0} /\ RunsAt(p) \subseteq Nat \ {0}
      /\ \A i \in Nat \ {0} : i \in RunsAt(p) <=> i + 1 \in RunsAt(q)
      /\ \A i \in RunsAt(p) : p[i] = q[i + 1]
  BY TailRuns DEF Ready
<1>2. r.queue = p
  OBVIOUS
<1> HIDE DEF p, h
<1>3. \A i \in RunsAt(p) : i \in Nat /\ i + 1 \in RunsAt(q) /\ p[i] = q[i + 1]
  BY <1>1
<1>4. \A run, cb, calls : InTurn(q, run, cb, calls) => InTurn(p, run, cb, calls)
  <2> SUFFICES ASSUME NEW run, NEW cb, NEW calls, InTurn(q, run, cb, calls)
               PROVE  InTurn(p, run, cb, calls)
    OBVIOUS
  <2>1. cb <= calls
    BY DEF InTurn
  <2>2. ASSUME NEW i \in RunsAt(p), p[i].run = run
        PROVE  /\ p[i].id \in 1..calls /\ (cb # 0 => p[i].id < cb)
               /\ \A j \in RunsAt(p) : i < j /\ p[j].run = run => p[i].id < p[j].id
    <3>1. i \in Nat /\ i + 1 \in RunsAt(q) /\ p[i] = q[i + 1]
      BY <1>3, <2>2
    <3>2. /\ p[i].id \in 1..calls /\ (cb # 0 => p[i].id < cb)
          /\ \A j \in RunsAt(q) : i + 1 < j /\ q[j].run = run => p[i].id < q[j].id
      BY <2>2, <3>1 DEF InTurn
    <3>3. ASSUME NEW j \in RunsAt(p), i < j, p[j].run = run
          PROVE  p[i].id < p[j].id
      <4>1. j \in Nat /\ j + 1 \in RunsAt(q) /\ p[j] = q[j + 1]
        BY <1>3
      <4>2. i + 1 < j + 1
        BY <3>1, <3>3, <4>1
      <4> QED BY <3>2, <3>3, <4>1, <4>2
    <3> QED BY <3>2, <3>3
  <2> QED BY <2>1, <2>2 DEF InTurn
<1>5. Numbered(r)
  BY <1>2, <1>4 DEF Ready, Numbered
<1>6. Filled(r)
  BY <1>2, <1>3 DEF Ready, Filled
<1>7. CloseFirst(r)
  <2>1. ASSUME NEW i \in RunsAt(p), NEW j \in RunsAt(p), p[i].run = "close"
        PROVE  i <= j
    <3>1. i \in Nat /\ j \in Nat /\ i + 1 <= j + 1
      BY <1>3, <2>1 DEF Ready, CloseFirst
    <3> QED BY <3>1
  <2> QED BY <1>2, <2>1 DEF CloseFirst
<1>8. ASSUME NEW run
      PROVE  CallsPosted(s, run) = CallsPosted(r, run)
               \cup (IF IsRun(h) /\ h.run = run THEN {h.id} ELSE {})
  <2>1. ASSUME NEW x
        PROVE  x \in CallsPosted(s, run) <=>
                 x \in CallsPosted(r, run) \/ (IsRun(h) /\ h.run = run /\ h.id = x)
    <3>1. ASSUME x \in CallsPosted(s, run)
          PROVE  x \in CallsPosted(r, run) \/ (IsRun(h) /\ h.run = run /\ h.id = x)
      <4>1. PICK i \in RunsAt(q) : q[i].run = run /\ q[i].id = x
        BY <3>1, PostedIs
      <4>2. CASE i = 1
        BY <1>1, <4>1, <4>2
      <4>3. CASE i # 1
        <5>1. i - 1 \in Nat \ {0} /\ (i - 1) + 1 = i
          BY <1>1, <4>3
        <5>2. i - 1 \in RunsAt(p) /\ p[i - 1] = q[i]
          BY <1>1, <5>1
        <5> QED BY <1>2, <4>1, <5>2, PostedIs
      <4> QED BY <4>2, <4>3
    <3>2. ASSUME x \in CallsPosted(r, run)
          PROVE  x \in CallsPosted(s, run)
      <4>1. PICK i \in RunsAt(p) : p[i].run = run /\ p[i].id = x
        BY <1>2, <3>2, PostedIs
      <4> QED BY <1>3, <4>1, PostedIs
    <3>3. ASSUME IsRun(h), h.run = run, h.id = x
          PROVE  x \in CallsPosted(s, run)
      BY <1>1, <3>3, PostedIs
    <3> QED BY <3>1, <3>2, <3>3
  <2> QED BY <2>1
<1> QED BY <1>5, <1>6, <1>7, <1>8 DEF Ready, h

-----------------------------------------------------------------------------
\* A stream keeps its promise

DInv == OInv /\ Ready(stream)

\* What the helpers do, from the stream they begin with, is what the stream is
\* allowed to do of itself.
LEMMA SettlesAsPromised ==
    ASSUME NEW r, Settles(r, stream'), r.received = stream.received,
           Closed(stream) => Closed(r), r.closeCb = stream.closeCb,
           CallsPosted(r, "close") = CallsPosted(stream, "close"),
           NEW writes, OwedWrites(r) \subseteq writes
    PROVE  Promise!Settle(OwedReads(r), writes)
<1>1. /\ stream'.received >= stream.received
      /\ Closed(stream) => Closed(stream')
      /\ OwedReads(stream') \subseteq OwedReads(r)
      /\ OwedReads(stream') # OwedReads(r) => Closed(stream')
      /\ OwedWrites(stream') \subseteq writes
  BY DEF Settles
<1>2. \/ /\ stream'.closeCb = stream.closeCb
         /\ (CallsPosted(stream', "close") # {}) = (CallsPosted(stream, "close") # {})
      \/ /\ stream.closeCb /\ ~(CallsPosted(stream, "close") # {})
         /\ Closed(stream') /\ OwedReads(stream') = {} /\ OwedWrites(stream') = {}
         /\ ~stream'.closeCb /\ CallsPosted(stream', "close") # {}
  BY DEF Settles
<1> QED BY <1>1, <1>2 DEF Promise!Settle

\* The callback at the head is called.
LEMMA BeginReady ==
    ASSUME DInv, BeginCallback
    PROVE  LET h == Head(stream.queue)
           IN  /\ Ready(stream') /\ h \in Runs /\ running = Idle /\ running' = h
               /\ handed' = (IF IsData(h) THEN h.hi ELSE handed)
               /\ \A run : CallsPosted(stream, run) = CallsPosted(stream', run)
                     \cup (IF h.run = run THEN {h.id} ELSE {})
               /\ stream'.reads = stream.reads /\ stream'.writes = stream.writes
               /\ stream'.received = stream.received /\ stream'.closeCb = stream.closeCb
               /\ Closed(stream') = Closed(stream)
               /\ stream'.readCb = stream.readCb /\ stream'.writeCb = stream.writeCb
<1> DEFINE q == Tail(stream.queue)
           left == stream.pending - 1
           r == [stream EXCEPT !.queue = q, !.pending = left]
           h == Head(stream.queue)
<1>1. OInv /\ Ready(stream) /\ stream \in StreamType
  BY DEF DInv, Ready, Base, Sound
<1>2. stream.queue # <<>> /\ IsRun(h) /\ running = Idle /\ running' = h
  BY DEF BeginCallback, Dispatches, NextHandler
<1>3. q \in Seq(Runs \cup Completions) /\ left \in Int
  BY <1>1, <1>2 DEF StreamType
<1>4. stream' = r
  BY <1>1 DEF BeginCallback, Taken, StreamType
<1>5. stream' \in Owing(handed', finished', closeRuns', closeSets')
  BY <1>1, BeginCallbackOwes
<1>6. Base(stream') /\ Counted(stream')
  BY <1>5 DEF Owing, Owes
<1> HIDE DEF q, left
<1>7. /\ r.queue = q /\ r.consumed = stream.consumed /\ r.received = stream.received
      /\ r.readCb = stream.readCb /\ r.reads = stream.reads /\ r.writeCb = stream.writeCb
      /\ r.writes = stream.writes /\ r.closeCb = stream.closeCb
      /\ r.closed = stream.closed /\ r.closing = stream.closing
  BY <1>1, <1>3 DEF StreamType
<1> HIDE DEF r
<1>8. /\ Ready(stream')
      /\ \A run : CallsPosted(stream, run) = CallsPosted(stream', run)
            \cup (IF IsRun(h) /\ h.run = run THEN {h.id} ELSE {})
  <2>1. stream'.queue = Tail(stream.queue)
    BY <1>4, <1>7 DEF q
  <2> HIDE DEF h
  <2> QED BY <1>1, <1>2, <1>4, <1>6, <1>7, <2>1, TailReady DEF h
<1>9. h \in Runs
  <2>1. h \in Runs \cup Ended
    BY <1>1, <1>2, TailRuns DEF Ready
  <2>2. \A c \in Ended : ~IsRun(c)
    BY DEF Ended, Completions, IsRun
  <2> QED BY <1>2, <2>1, <2>2
<1>10. handed' = IF IsData(h) THEN h.hi ELSE handed
  BY <1>2 DEF BeginCallback, IsData, NextHandler
<1>11. Closed(stream') = Closed(stream)
  BY <1>4, <1>7 DEF Closed
<1> HIDE DEF h
<1> QED BY <1>2, <1>4, <1>7, <1>8, <1>9, <1>10, <1>11 DEF h

\* What the invariant says of the callback at the head.
LEMMA HeadIs ==
    ASSUME DInv, stream.queue # <<>>, IsRun(Head(stream.queue))
    PROVE  LET h == Head(stream.queue)
           IN  /\ IsData(h) => h.lo = handed /\ handed <= h.hi /\ h.hi <= stream.received
               /\ IsData(h) => CallsPosted(stream, "close") = {}
               /\ h.run = "lostRead" => Closed(stream)
               /\ h.run = "close" => Closed(stream)
               /\ h.run \in {"connect", "noWrite", "lostRead"} => h.id = 0
<1> DEFINE q == stream.queue
           h == Head(q)
<1>1. /\ Base(stream) /\ Ready(stream) /\ Chain(q, handed, stream.consumed)
      /\ CloseLast(stream) /\ OneEnd(stream)
  BY DEF DInv, OInv, Owes
<1>2. /\ h = q[1] /\ 1 \in RunsAt(q) /\ RunsAt(q) \subseteq Nat \ {0}
  BY <1>1, TailRuns
<1> HIDE DEF h, q
<1>3. IsData(h) => h.lo = handed
  <2>1. IsData(h) => 1 \in DataAt(q) /\ \A i \in DataAt(q) : 1 <= i
    BY <1>2 DEF DataAt
  <2> QED BY <1>1, <1>2, <2>1 DEF Chain
<1>4. Fills(h, stream.received)
  BY <1>1, <1>2 DEF Ready, Filled, q
<1>5. IsData(h) => CallsPosted(stream, "close") = {}
  <2> SUFFICES ASSUME IsData(h), NEW x \in CallsPosted(stream, "close") PROVE FALSE
    OBVIOUS
  <2>1. PICK i \in RunsAt(q) : q[i].run = "close" /\ q[i].id = x
    BY PostedIs DEF q
  <2>2. i <= 1
    BY <1>1, <1>2, <2>1 DEF Ready, CloseFirst, q
  <2>3. i = 1
    BY <1>2, <2>1, <2>2
  <2> QED BY <1>2, <2>1, <2>3 DEF IsData
<1>6. h.run = "lostRead" => Closed(stream)
  BY <1>1, <1>2 DEF OneEnd, q
<1>7. h.run = "close" => Closed(stream)
  BY <1>1, <1>2 DEF CloseLast, Closed, q
<1> QED BY <1>3, <1>4, <1>5, <1>6, <1>7 DEF Fills, h, q

\* A final callback that is called is the one of the oldest call that is still to
\* be answered.
LEMMA HeadInTurn ==
    ASSUME NEW s, Base(s), s.queue # <<>>, NEW run, NEW cb \in Nat, NEW calls,
           InTurn(s.queue, run, cb, calls), IsRun(Head(s.queue)), Head(s.queue).run = run,
           NEW r, r.queue = Tail(s.queue)
    PROVE  LET id == Head(s.queue).id
               owed == CallsPosted(r, run) \cup ({cb} \ {0})
           IN  id \notin owed /\ id \in Nat /\ \A x \in owed : id <= x
<1> DEFINE q == s.queue
           p == Tail(q)
           h == Head(q)
<1>1. /\ h = q[1] /\ 1 \in RunsAt(q)
      /\ RunsAt(p) \subseteq Nat \ {0}
      /\ \A i \in Nat \ {0} : i \in RunsAt(p) <=> i + 1 \in RunsAt(q)
      /\ \A i \in RunsAt(p) : p[i] = q[i + 1]
  BY TailRuns
<1>2. r.queue = p /\ h.run = run
  OBVIOUS
<1> HIDE DEF p, h
<1>3. /\ h.id \in Nat /\ (cb # 0 => h.id < cb)
      /\ \A j \in RunsAt(q) : 1 < j /\ q[j].run = run => q[j].id \in Nat /\ h.id < q[j].id
  BY <1>1, <1>2 DEF InTurn
<1>4. ASSUME NEW x \in CallsPosted(r, run)
      PROVE  h.id < x /\ x \in Nat
  <2>1. PICK i \in RunsAt(p) : p[i].run = run /\ p[i].id = x
    BY <1>2, PostedIs
  <2>2. i + 1 \in RunsAt(q) /\ 1 < i + 1 /\ p[i] = q[i + 1]
    BY <1>1
  <2> QED BY <1>3, <2>1, <2>2
<1>5. \A x \in CallsPosted(r, run) \cup ({cb} \ {0}) : x \in Nat /\ h.id < x
  BY <1>3, <1>4
<1>6. \A x \in CallsPosted(r, run) \cup ({cb} \ {0}) : h.id <= x /\ x # h.id
  BY <1>3, <1>5
<1> QED BY <1>3, <1>6 DEF h

LEMMA BeginAsPromised ==
    ASSUME DInv, BeginCallback
    PROVE  Promise!Next
<1> DEFINE h == Head(stream.queue)
<1>1. /\ stream.queue # <<>> /\ IsRun(h) /\ Base(stream) /\ Numbered(stream)
      /\ stream'.queue = Tail(stream.queue)
  <2>1. stream \in StreamType /\ Base(stream) /\ Numbered(stream)
    BY DEF DInv, Ready, Base, Sound
  <2>2. stream' = [Taken EXCEPT !.pending = @ - 1]
    BY DEF BeginCallback
  <2> DEFINE q == Tail(stream.queue)
  <2>3. Taken = [stream EXCEPT !.queue = q]
    BY DEF Taken
  <2> HIDE DEF q
  <2>4. stream'.queue = q
    BY <2>1, <2>2, <2>3 DEF StreamType
  <2> QED BY <2>1, <2>4 DEF BeginCallback, Dispatches, NextHandler, q
<1>2. /\ h \in Runs /\ running = Idle /\ running' = h
      /\ handed' = (IF IsData(h) THEN h.hi ELSE handed)
      /\ \A run : CallsPosted(stream, run) = CallsPosted(stream', run)
            \cup (IF h.run = run THEN {h.id} ELSE {})
      /\ stream'.reads = stream.reads /\ stream'.writes = stream.writes
      /\ stream'.received = stream.received /\ stream'.closeCb = stream.closeCb
      /\ Closed(stream') = Closed(stream)
      /\ stream'.readCb = stream.readCb /\ stream'.writeCb = stream.writeCb
  BY BeginReady
<1>3. /\ IsData(h) => h.lo = handed /\ handed <= h.hi /\ h.hi <= stream.received
      /\ IsData(h) => CallsPosted(stream, "close") = {}
      /\ h.run = "lostRead" => Closed(stream)
      /\ h.run = "close" => Closed(stream)
      /\ h.run \in {"connect", "noWrite", "lostRead"} => h.id = 0
  BY <1>1, HeadIs
<1>4. /\ h.run = "read" =>
             LET owed == CallsPosted(stream', "read") \cup ({stream.readCb} \ {0})
             IN  h.id \notin owed /\ h.id \in Nat /\ \A x \in owed : h.id <= x
      /\ h.run = "write" =>
             LET owed == CallsPosted(stream', "write") \cup ({stream.writeCb} \ {0})
             IN  h.id \notin owed /\ h.id \in Nat /\ \A x \in owed : h.id <= x
  <2>1. stream.readCb \in Nat /\ stream.writeCb \in Nat
    BY <1>1 DEF Base, Sound, StreamType
  <2> QED BY <1>1, <2>1, HeadInTurn DEF Numbered
<1> HIDE DEF h
<1>5. h = [run |-> h.run, id |-> h.id, lo |-> h.lo, hi |-> h.hi] /\ h.run \in Callbacks
  BY <1>2 DEF Runs
<1>6. Promise!Idle = Idle
  BY DEF Promise!Idle, Idle
<1>7. Promise!Calls(h.run, h.id)
  BY <1>2, <1>5, <1>6 DEF Promise!Calls
<1>8. h.run # "read" => OwedReads(stream') = OwedReads(stream)
  BY <1>2 DEF OwedReads
<1>9. h.run # "write" => OwedWrites(stream') = OwedWrites(stream)
  BY <1>2 DEF OwedWrites
<1>10. h.run # "close" => CallsPosted(stream', "close") = CallsPosted(stream, "close")
  BY <1>2
<1>11. IsData(h) => Promise!Gives
  BY <1>2, <1>3 DEF Promise!Gives
<1>12. IsData(h) <=> h.run \in {"read", "stream", "lostRead"}
  BY <1>1 DEF IsData, h
<1>13. CASE h.run = "read"
  <2>1. /\ OwedReads(stream) = OwedReads(stream') \cup {h.id} /\ h.id \notin OwedReads(stream')
        /\ h.id \in Nat /\ \A x \in OwedReads(stream') : h.id <= x
    BY <1>2, <1>4, <1>13 DEF OwedReads
  <2>2. /\ h.id \in OwedReads(stream) /\ \A x \in OwedReads(stream) : h.id <= x
        /\ OwedReads(stream') = OwedReads(stream) \ {h.id}
    BY <2>1
  <2>3. Promise!Answer
    BY <1>7, <1>9, <1>10, <1>11, <1>12, <1>13, <2>2 DEF Promise!Answer
  <2> QED BY <2>3 DEF Promise!Next
<1>14. CASE h.run = "write"
  <2>1. /\ OwedWrites(stream) = OwedWrites(stream') \cup {h.id} /\ h.id \notin OwedWrites(stream')
        /\ h.id \in Nat /\ \A x \in OwedWrites(stream') : h.id <= x
    BY <1>2, <1>4, <1>14 DEF OwedWrites
  <2>2. /\ h.id \in OwedWrites(stream) /\ \A x \in OwedWrites(stream) : h.id <= x
        /\ OwedWrites(stream') = OwedWrites(stream) \ {h.id}
    BY <2>1
  <2>3. Promise!Written
    BY <1>2, <1>7, <1>8, <1>10, <1>12, <1>14, <2>2 DEF Promise!Written
  <2> QED BY <2>3 DEF Promise!Next
<1>15. CASE h.run = "stream"
  <2>1. Promise!Stream
    BY <1>2, <1>7, <1>8, <1>9, <1>10, <1>11, <1>12, <1>15 DEF Promise!Stream
  <2> QED BY <2>1 DEF Promise!Next
<1>16. CASE h.run = "close"
  <2>1. CallsPosted(stream, "close") # {}
    BY <1>2, <1>16
  <2>2. CallsPosted(stream', "close") = {}
    <3> SUFFICES ASSUME NEW x \in CallsPosted(stream', "close") PROVE FALSE
      OBVIOUS
    <3>1. PICK i \in RunsAt(stream'.queue) : stream'.queue[i].run = "close"
      BY PostedIs
    <3>2. /\ i + 1 \in RunsAt(stream.queue) /\ stream.queue[i + 1].run = "close"
          /\ i \in Nat \ {0} /\ 1 \in RunsAt(stream.queue) /\ stream.queue[1] = h
      BY <1>1, <3>1, TailRuns DEF h
    <3>3. CloseFirst(stream)
      BY DEF DInv, Ready
    <3>4. i + 1 <= 1
      BY <3>2, <3>3 DEF CloseFirst
    <3> QED BY <3>2, <3>4
  <2>3. Promise!Tell
    BY <1>2, <1>3, <1>7, <1>8, <1>9, <1>12, <1>16, <2>1, <2>2 DEF Promise!Tell
  <2> QED BY <2>3 DEF Promise!Next
<1>17. CASE h.run = "connect"
  <2>1. Promise!Connected
    BY <1>2, <1>3, <1>7, <1>8, <1>9, <1>10, <1>12, <1>17 DEF Promise!Connected
  <2> QED BY <2>1 DEF Promise!Next
<1>18. CASE h.run = "noWrite"
  <2>1. Promise!NoWrite
    BY <1>2, <1>3, <1>7, <1>8, <1>9, <1>10, <1>12, <1>18 DEF Promise!NoWrite
  <2> QED BY <2>1 DEF Promise!Next
<1>19. CASE h.run = "lostRead"
  <2>1. Promise!LostRead
    BY <1>2, <1>3, <1>7, <1>8, <1>9, <1>10, <1>11, <1>12, <1>19 DEF Promise!LostRead
  <2> QED BY <2>1 DEF Promise!Next
<1> QED BY <1>5, <1>13, <1>14, <1>15, <1>16, <1>17, <1>18, <1>19 DEF Callbacks, Empty

\* A step in which helpers go on from a stream r that owes what the stream owes.
LEMMA WorkAsPromised ==
    ASSUME NEW r \in StreamType, Ready(r), GoesTo(r, stream'),
           \A run : CallsPosted(r, run) = CallsPosted(stream, run), r.received = stream.received,
           r.reads = stream.reads, r.writes = stream.writes, r.readCb = stream.readCb,
           r.writeCb = stream.writeCb, CloseSide(r) = CloseSide(stream),
           running' \in {running, Idle}, handed' = handed
    PROVE  Ready(stream') /\ Promise!Next
<1>1. Ready(stream') /\ Settles(r, stream')
  BY GoesSettles
<1>2. OwedReads(r) = OwedReads(stream) /\ OwedWrites(r) = OwedWrites(stream)
  BY DEF OwedReads, OwedWrites
<1>3. Promise!Settle(OwedReads(r), OwedWrites(r))
  BY <1>1, SettlesAsPromised DEF CloseSide, Closed
<1>4. Promise!Settle(OwedReads(stream), OwedWrites(stream))
  BY <1>2, <1>3
<1>5. stream'.reads = stream.reads /\ stream'.writes = stream.writes
  BY <1>1 DEF Settles
<1>6. Promise!Work
  BY <1>4, <1>5 DEF Promise!Work, Promise!Idle, Idle
<1> QED BY <1>1, <1>6 DEF Promise!Next

LEMMA ReadAsPromised ==
    ASSUME DInv, ReadBytes \/ ReadUntil \/ ReadUntilClose
    PROVE  Ready(stream') /\ Promise!Next
<1>1. PICK r : CallsRead(r) /\ GoesTo(r, stream')
  BY ReadBytesGoes, ReadUntilGoes, ReadUntilCloseGoes DEF DInv
<1>2. r \in StreamType /\ Ready(r) /\ \A run : CallsPosted(r, run) = CallsPosted(stream, run)
  BY <1>1, CallsReadReady DEF DInv, CallsRead
<1>3. Ready(stream') /\ Settles(r, stream')
  BY <1>1, <1>2, GoesSettles
<1>4. stream.readCb = 0 /\ UNCHANGED <<running, handed>>
  BY DEF ReadBytes, ReadUntil, ReadUntilClose, ReadCall, Calling
<1>5. stream.reads \in Nat
  BY DEF DInv, Ready, Base, Sound, StreamType
<1>6. /\ r.readCb = stream.reads + 1 /\ r.reads = stream.reads + 1
      /\ r.writeCb = stream.writeCb /\ r.writes = stream.writes
      /\ r.received = stream.received /\ r.closeCb = stream.closeCb
      /\ r.closed = stream.closed /\ r.closing = stream.closing
  BY <1>1 DEF CallsRead, WriteSide, CloseSide
<1>7. stream'.reads = stream.reads + 1 /\ stream'.writes = stream.writes
  BY <1>3, <1>6 DEF Settles
<1>8. /\ OwedReads(r) = OwedReads(stream) \cup {stream'.reads}
      /\ OwedWrites(r) = OwedWrites(stream)
  BY <1>2, <1>4, <1>5, <1>6, <1>7 DEF OwedReads, OwedWrites
<1>9. Promise!Settle(OwedReads(r), OwedWrites(stream))
  BY <1>2, <1>3, <1>6, <1>8, SettlesAsPromised DEF Closed
<1>10. Promise!Read
  BY <1>4, <1>7, <1>8, <1>9 DEF Promise!Read
<1> QED BY <1>3, <1>10 DEF Promise!Next

LEMMA WriteAsPromised ==
    ASSUME DInv, Write
    PROVE  Ready(stream') /\ Promise!Next
<1>1. PICK r \in Due : CallsWrite(r) /\ GoesTo(r, stream')
  BY WriteGoes DEF DInv
<1>2. r \in StreamType /\ Ready(r) /\ \A run : CallsPosted(r, run) = CallsPosted(stream, run)
  <2>1. Base(r) /\ Counted(r)
    BY OwingBase DEF Due
  <2> QED BY <1>1, <2>1, CallsWriteReady DEF DInv, CallsWrite
<1>3. Ready(stream') /\ Settles(r, stream')
  BY <1>1, <1>2, GoesSettles
<1>4. ~Closed(stream) /\ UNCHANGED <<running, handed>>
  BY DEF Write, Calling
<1>5. /\ r.writeCb \in {0, stream.writes + 1} /\ r.writes = stream.writes + 1
      /\ r.readCb = stream.readCb /\ r.reads = stream.reads
      /\ r.received = stream.received /\ r.closeCb = stream.closeCb
      /\ r.closed = stream.closed /\ r.closing = stream.closing
  BY <1>1 DEF CallsWrite, ReadSide, CloseSide
<1>6. stream'.reads = stream.reads /\ stream'.writes = stream.writes + 1
  BY <1>3, <1>5 DEF Settles
<1>7. /\ OwedReads(r) = OwedReads(stream)
      /\ OwedWrites(r) \subseteq OwedWrites(stream) \cup {stream'.writes}
  BY <1>2, <1>5, <1>6 DEF OwedReads, OwedWrites
<1>8. Promise!Settle(OwedReads(stream), OwedWrites(stream) \cup {stream'.writes})
  <2>1. Promise!Settle(OwedReads(r), OwedWrites(stream) \cup {stream'.writes})
    BY <1>2, <1>3, <1>5, <1>7, SettlesAsPromised DEF Closed
  <2> QED BY <1>7, <2>1
<1>9. Promise!Write
  BY <1>4, <1>6, <1>8 DEF Promise!Write
<1> QED BY <1>3, <1>9 DEF Promise!Next

LEMMA WatchAsPromised ==
    ASSUME DInv, SetCloseCallback \/ ResetCloseCallback
    PROVE  Ready(stream') /\ Promise!Next
<1>1. PICK b \in BOOLEAN : stream' = [stream EXCEPT !.closeCb = b]
  BY DEF SetCloseCallback, ResetCloseCallback
<1>2. /\ Ready(stream') /\ \A run : CallsPosted(stream', run) = CallsPosted(stream, run)
      /\ OwedReads(stream') = OwedReads(stream) /\ OwedWrites(stream') = OwedWrites(stream)
      /\ stream'.closeCb = b /\ Closed(stream') = Closed(stream)
      /\ stream'.reads = stream.reads /\ stream'.writes = stream.writes
      /\ stream'.received = stream.received
  BY <1>1, WatchReady DEF DInv
<1>3. UNCHANGED <<running, handed>>
  BY DEF SetCloseCallback, ResetCloseCallback, Calling
<1>4. Promise!Watch
  BY <1>2, <1>3 DEF Promise!Watch
<1> QED BY <1>2, <1>4 DEF Promise!Next

LEMMA HandleAsPromised ==
    ASSUME DInv, HandleCompletion
    PROVE  Ready(stream') /\ Promise!Next
<1> DEFINE q == Tail(stream.queue)
           r == [stream EXCEPT !.queue = q]
<1>1. OInv /\ Ready(stream) /\ stream \in StreamType
  BY DEF DInv, Ready, Base, Sound
<1>2. stream.queue # <<>> /\ ~IsRun(Head(stream.queue)) /\ UNCHANGED <<running, handed>>
  BY DEF HandleCompletion, Dispatches, NextHandler
<1>3. q \in Seq(Runs \cup Completions)
  BY <1>1, <1>2 DEF StreamType
<1>4. Taken = r
  BY DEF Taken
<1>5. Taken \in Due /\ GoesTo(Taken, stream')
  BY <1>1, <1>2, TakenOwes, HandleGoes DEF NextHandler
<1>6. Base(r) /\ Counted(r)
  BY <1>4, <1>5, OwingBase DEF Due
<1> HIDE DEF q
<1>7. /\ r \in StreamType /\ r.queue = q /\ r.consumed = stream.consumed
      /\ r.received = stream.received /\ r.readCb = stream.readCb /\ r.reads = stream.reads
      /\ r.writeCb = stream.writeCb /\ r.writes = stream.writes
      /\ CloseSide(r) = CloseSide(stream)
  BY <1>1, <1>3 DEF StreamType, CloseSide
<1> HIDE DEF r
<1>8. Ready(r) /\ \A run : CallsPosted(r, run) = CallsPosted(stream, run)
  <2> DEFINE h == Head(stream.queue)
  <2>1. /\ Ready(r)
        /\ \A run : CallsPosted(stream, run) = CallsPosted(r, run)
              \cup (IF IsRun(h) /\ h.run = run THEN {h.id} ELSE {})
    <3>1. r.queue = Tail(stream.queue)
      BY <1>7 DEF q
    <3> QED BY <1>1, <1>2, <1>6, <1>7, <3>1, TailReady
  <2>2. ~IsRun(h)
    BY <1>2
  <2> HIDE DEF h
  <2> QED BY <2>1, <2>2
<1> QED BY <1>2, <1>4, <1>5, <1>7, <1>8, WorkAsPromised

\* Every step keeps the invariant and is one that Delivery allows.
LEMMA StepAsPromised ==
    ASSUME DInv, [Next]_vars
    PROVE  Ready(stream') /\ [Promise!Next]_(Promise!vars)
<1>1. OInv /\ Ready(stream) /\ stream \in StreamType
  BY DEF DInv, Ready, Base, Sound
<1>2. ASSUME GoesTo(stream, stream'), running' \in {running, Idle}, handed' = handed
      PROVE  Ready(stream') /\ Promise!Next
  BY <1>1, <1>2, WorkAsPromised
<1>3. CASE Start \/ Connect
  <2>1. PICK r : Opens(r) /\ GoesTo(r, stream')
    BY <1>1, <1>3, StartGoes, ConnectGoes
  <2>2. Ready(r) /\ \A run : CallsPosted(r, run) = CallsPosted(stream, run)
    BY <1>1, <2>1, OpensReady
  <2>3. /\ r \in StreamType /\ r.received = stream.received /\ r.reads = stream.reads
        /\ r.writes = stream.writes /\ r.readCb = stream.readCb
        /\ r.writeCb = stream.writeCb /\ CloseSide(r) = CloseSide(stream)
    BY <2>1 DEF Opens, ReadSide, WriteSide
  <2>4. UNCHANGED <<running, handed>>
    BY <1>3 DEF Start, Connect, Calling
  <2> QED BY <2>1, <2>2, <2>3, <2>4, WorkAsPromised
<1>4. CASE CloseCall
  <2>1. stream' = Close(stream) /\ UNCHANGED <<running, handed>>
    BY <1>4 DEF CloseCall, Calling
  <2>2. GoesTo(stream, stream')
    BY <2>1, CloseKept DEF GoesTo
  <2> QED BY <1>2, <2>1, <2>2
<1>5. ASSUME NEW op \in Operations, Complete(op)
      PROVE  Ready(stream') /\ Promise!Next
  <2>1. UNCHANGED <<running, handed>>
    BY <1>5 DEF Complete
  <2> QED BY <1>1, <1>2, <1>5, <2>1, CompleteGoes
<1>6. CASE BeginCallback
  BY <1>6, BeginReady, BeginAsPromised
<1>7. CASE CallbackReturns \/ CallbackThrows
  <2>1. /\ running' = Idle /\ handed' = handed
        /\ stream' \in {Close(stream), MaybeAddErrorListener(stream),
                        MaybeAddErrorListener(Close(stream))}
    BY <1>7 DEF CallbackReturns, CallbackThrows
  <2>2. GoesTo(stream, stream')
    BY <2>1, CloseKept, ListenerKept DEF GoesTo
  <2> QED BY <1>2, <2>1, <2>2
<1>8. CASE UNCHANGED vars
  <2>1. UNCHANGED <<stream, running, handed>>
    BY <1>8 DEF vars
  <2> QED BY <1>1, <2>1 DEF Promise!vars
<1> QED BY <1>3, <1>4, <1>5, <1>6, <1>7, <1>8, ReadAsPromised, WriteAsPromised,
           WatchAsPromised, HandleAsPromised DEF Next, Application

LEMMA InitReady == Init => DInv /\ Promise!Init
<1> SUFFICES ASSUME Init PROVE DInv /\ Promise!Init
  OBVIOUS
<1>1. OInv
  BY InitOwes
<1>2. /\ stream.queue = <<>> /\ stream.consumed = 0 /\ stream.received = 0
      /\ stream.readCb = 0 /\ stream.reads = 0 /\ stream.writeCb = 0 /\ stream.writes = 0
      /\ ~stream.closeCb /\ ~Closed(stream) /\ handed = 0 /\ running = Idle
  BY DEF Init, Fresh, Closed
<1>3. RunsAt(stream.queue) = {}
  <2>1. DOMAIN <<>> = {}
    BY EmptySeq, LenProperties
  <2> QED BY <1>2, <2>1 DEF RunsAt
<1>4. Base(stream) /\ Counted(stream)
  BY <1>1 DEF OInv, Owes
<1>5. Ready(stream)
  BY <1>2, <1>3, <1>4 DEF Ready, Numbered, InTurn, Filled, CloseFirst
<1>6. \A run : CallsPosted(stream, run) = {}
  BY <1>3, PostedIs
<1>7. Promise!Init
  <2>1. stream.closeCb \in BOOLEAN /\ stream.closeCb = FALSE /\ Closed(stream) = FALSE
        /\ (CallsPosted(stream, "close") # {}) = FALSE
    BY <1>2, <1>6 DEF Init, Fresh, Closed
  <2>2. OwedReads(stream) = {} /\ OwedWrites(stream) = {}
    BY <1>2, <1>6 DEF OwedReads, OwedWrites
  <2> QED BY <1>2, <2>1, <2>2 DEF Promise!Init, Promise!Idle, Idle
<1> QED BY <1>1, <1>5, <1>7 DEF DInv

\* The posted callbacks are in the order of their calls, hold bytes that had been
\* received, and a close callback was posted with none before it, in every
\* reachable state.
THEOREM StaysReady == Spec => []DInv
<1>1. ASSUME DInv, [Next]_vars PROVE DInv'
  <2>1. Ready(stream')
    BY <1>1, StepAsPromised
  <2>2. stream' \in Owing(handed', finished', closeRuns', closeSets') /\ IInv'
    BY <1>1, StepOwes, StepInv DEF DInv, OInv
  <2> QED BY <2>1, <2>2 DEF DInv, OInv, Owing
<1> QED BY <1>1, InitReady, PTL DEF Spec

\* Whatever the order of reads, writes, completions, aborts and closes, the
\* application that uses a stream gets the callbacks that Delivery promises.
THEOREM PromiseKept == Spec => Delivers
<1>1. Init => Promise!Init
  BY InitReady
<1>2. DInv /\ [Next]_vars => [Promise!Next]_(Promise!vars)
  BY StepAsPromised
<1> QED BY <1>1, <1>2, StaysReady, PTL DEF Spec, Delivers, Promise!Spec
=============================================================================
