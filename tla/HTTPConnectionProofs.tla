------------------------ MODULE HTTPConnectionProofs ------------------------
(***************************************************************************)
(* Proofs about HTTPConnection.tla: the requests of a connection are read  *)
(* and answered one at a time.                                             *)
(*                                                                         *)
(* The handlers of the connection call the helpers of its stream, so what  *)
(* no move of a stream can do (see IOStreamOrder) no handler does: a move  *)
(* neither starts a read nor a write of the application.  The reads and    *)
(* writes in flight are then those that Accept, finishRequest, the end of  *)
(* onHeaders and HTTPConnection::write have started, which do so only when *)
(* no request is being served, and when its answer has left.               *)
(***************************************************************************)
EXTENDS IOStreamOrder, HTTPConnection

-----------------------------------------------------------------------------
\* The calls in flight

ReadsAt(q) == {i \in RunsAt(q) : q[i].run = "read"}
WritesAt(q) == {i \in RunsAt(q) : q[i].run = "write"}

\* The calls whose callback waits in the stream or is posted.
ReadIds(s) == ({s.readCb} \ {0}) \cup {s.queue[i].id : i \in ReadsAt(s.queue)}
WriteIds(s) == ({s.writeCb} \ {0}) \cup {s.queue[i].id : i \in WritesAt(s.queue)}

OneRead(s) ==
    \A i \in ReadsAt(s.queue) : s.readCb = 0 /\ \A j \in ReadsAt(s.queue) : i = j

\* While a read other than b is in flight nothing waits to be sent, and the
\* callbacks of the writes before it are in front of its own.
Clear(s, b) ==
    /\ s.readCb \notin {0, b} => s.wq = <<>> /\ s.writeCb = 0
    /\ \A i \in ReadsAt(s.queue) : s.queue[i].id # b =>
         s.wq = <<>> /\ s.writeCb = 0 /\ \A j \in WritesAt(s.queue) : j < i

\* A move that posts no callback.
LEMMA QuietFlight ==
    ASSUME NEW s, Base(s), NEW r, Base(r), SameRuns(s.queue, r.queue),
           r.readCb \in {0, s.readCb}, r.writeCb \in {0, s.writeCb},
           s.wq = <<>> => r.wq = <<>>
    PROVE  /\ ReadIds(r) \subseteq ReadIds(s) /\ WriteIds(r) \subseteq WriteIds(s)
           /\ OneRead(s) => OneRead(r)
           /\ \A b : Clear(s, b) => Clear(r, b)
<1>1. ReadsAt(r.queue) = ReadsAt(s.queue) /\ WritesAt(r.queue) = WritesAt(s.queue)
  BY DEF SameRuns, ReadsAt, WritesAt
<1>2. \A i \in ReadsAt(s.queue) : r.queue[i] = s.queue[i]
  BY DEF SameRuns, ReadsAt
<1>3. \A i \in WritesAt(s.queue) : r.queue[i] = s.queue[i]
  BY DEF SameRuns, WritesAt
<1>4. ReadIds(r) \subseteq ReadIds(s)
  BY <1>1, <1>2 DEF ReadIds
<1>5. WriteIds(r) \subseteq WriteIds(s)
  BY <1>1, <1>3 DEF WriteIds
<1>6. OneRead(s) => OneRead(r)
  BY <1>1 DEF OneRead
<1>7. \A b : Clear(s, b) => Clear(r, b)
  BY <1>1, <1>2 DEF Clear
<1> QED BY <1>4, <1>5, <1>6, <1>7

\* A move that posts the callback h: the one of the waiting read, of the last
\* write, or another.
LEMMA PostingFlight ==
    ASSUME NEW s, Base(s), NEW r, Base(r), NEW h, AddsRun(s.queue, r.queue, h),
           r.readCb \in {0, s.readCb}, r.writeCb \in {0, s.writeCb},
           s.wq = <<>> => r.wq = <<>>,
           h.run = "read" => h.id = s.readCb /\ s.readCb # 0 /\ r.readCb = 0,
           h.run = "write" => h.id = s.writeCb /\ s.writeCb # 0
    PROVE  /\ ReadIds(r) \subseteq ReadIds(s) /\ WriteIds(r) \subseteq WriteIds(s)
           /\ OneRead(s) => OneRead(r)
           /\ \A b : Clear(s, b) => Clear(r, b)
<1> DEFINE q == s.queue
           p == r.queue
<1>1. PICK n \in Nat : /\ RunsAt(p) = RunsAt(q) \cup {n} /\ p[n] = h
                       /\ \A i \in RunsAt(q) : i < n /\ p[i] = q[i]
  BY DEF AddsRun
<1>2. RunsAt(q) \subseteq Nat
  BY RunsTyped
<1> HIDE DEF p, q
<1>3. /\ \A i \in ReadsAt(p) : (i \in ReadsAt(q) /\ p[i] = q[i]) \/ (i = n /\ h.run = "read")
      /\ \A i \in WritesAt(p) : (i \in WritesAt(q) /\ p[i] = q[i]) \/ (i = n /\ h.run = "write")
  BY <1>1 DEF ReadsAt, WritesAt
<1>4. \A i \in ReadsAt(q) \cup WritesAt(q) : i \in Nat /\ i < n
  BY <1>1, <1>2 DEF ReadsAt, WritesAt
<1>5. ReadIds(r) \subseteq ReadIds(s)
  BY <1>1, <1>3 DEF ReadIds, p, q
<1>6. WriteIds(r) \subseteq WriteIds(s)
  BY <1>1, <1>3 DEF WriteIds, p, q
<1>7. ASSUME OneRead(s) PROVE OneRead(r)
  <2>1. \A i \in ReadsAt(q) : s.readCb = 0 /\ \A j \in ReadsAt(q) : i = j
    BY <1>7 DEF OneRead, q
  <2> QED BY <1>3, <2>1 DEF OneRead, p
<1>8. ASSUME NEW b, Clear(s, b) PROVE Clear(r, b)
  <2>1. /\ s.readCb \notin {0, b} => s.wq = <<>> /\ s.writeCb = 0
        /\ \A i \in ReadsAt(q) : q[i].id # b =>
             s.wq = <<>> /\ s.writeCb = 0 /\ \A j \in WritesAt(q) : j < i
    BY <1>8 DEF Clear, q
  <2>2. r.readCb \notin {0, b} => r.wq = <<>> /\ r.writeCb = 0
    BY <2>1
  <2>3. ASSUME NEW i \in ReadsAt(p), p[i].id # b
        PROVE  r.wq = <<>> /\ r.writeCb = 0 /\ \A j \in WritesAt(p) : j < i
    <3>1. CASE i \in ReadsAt(q) /\ p[i] = q[i]
      BY <1>3, <2>1, <2>3, <3>1
    <3>2. CASE i = n /\ h.run = "read"
      <4>1. s.readCb \notin {0, b} /\ s.wq = <<>> /\ s.writeCb = 0
        BY <1>1, <2>1, <2>3, <3>2
      <4> QED BY <1>3, <1>4, <3>2, <4>1
    <3> QED BY <1>3, <3>1, <3>2
  <2> QED BY <2>2, <2>3 DEF Clear, p
<1> QED BY <1>5, <1>6, <1>7, <1>8

LEMMA FlightMoves ==
    ASSUME NEW s, Base(s), NEW r, Base(r), Move(s, r)
    PROVE  /\ ReadIds(r) \subseteq ReadIds(s) /\ WriteIds(r) \subseteq WriteIds(s)
           /\ OneRead(s) => OneRead(r)
           /\ \A b : Clear(s, b) => Clear(r, b)
           /\ r.opened = s.opened /\ r.reads = s.reads /\ r.writes = s.writes
<1>0. r \in StreamType
  BY DEF Base, Sound
<1>1. Called(r) = Called(s)
  BY DEF Move, Waits, Forgets, Sends, PostsConnect, PostsStream, PostsRead, PostsWrite,
         PostsClose, Posts, Given, Called
<1>2. r.readCb \in {0, s.readCb} /\ r.writeCb \in {0, s.writeCb} /\ (s.wq = <<>> => r.wq = <<>>)
  BY DEF Move, Waits, Forgets, Sends, PostsConnect, PostsStream, PostsRead, PostsWrite,
         PostsClose, ReadSide, WriteSide
<1>3. CASE Waits(s, r) \/ Forgets(s, r) \/ Sends(s, r)
  BY <1>1, <1>2, <1>3, QuietMoves, QuietFlight DEF Called
<1>4. CASE PostsConnect(s, r)
  <2> DEFINE h == [run |-> "connect", id |-> 0, lo |-> 0, hi |-> 0]
  <2>1. AddsRun(s.queue, r.queue, h)
    BY <1>0, <1>4, PostingMoves
  <2>2. h.run # "read" /\ h.run # "write"
    OBVIOUS
  <2> HIDE DEF h
  <2> QED BY <1>1, <1>2, <2>1, <2>2, PostingFlight DEF Called
<1>5. CASE PostsStream(s, r)
  <2> DEFINE h == [run |-> "stream", id |-> s.streamCb, lo |-> s.consumed, hi |-> r.consumed]
  <2>1. AddsRun(s.queue, r.queue, h)
    BY <1>0, <1>5, PostingMoves
  <2>2. h.run # "read" /\ h.run # "write"
    OBVIOUS
  <2> HIDE DEF h
  <2> QED BY <1>1, <1>2, <2>1, <2>2, PostingFlight DEF Called
<1>6. CASE PostsRead(s, r)
  <2> DEFINE h == [run |-> IF s.readCb = 0 THEN "lostRead" ELSE "read", id |-> s.readCb,
                   lo |-> s.consumed, hi |-> r.consumed]
  <2>1. AddsRun(s.queue, r.queue, h)
    BY <1>0, <1>6, PostingMoves
  <2>2. (h.run = "read" => h.id = s.readCb /\ s.readCb # 0) /\ h.run # "write"
    OBVIOUS
  <2>3. r.readCb = 0
    BY <1>6 DEF PostsRead
  <2> HIDE DEF h
  <2> QED BY <1>1, <1>2, <2>1, <2>2, <2>3, PostingFlight DEF Called
<1>7. CASE PostsWrite(s, r)
  <2> DEFINE h == [run |-> IF s.writeCb = 0 THEN "noWrite" ELSE "write", id |-> s.writeCb,
                   lo |-> 0, hi |-> s.writeEnd]
  <2>1. AddsRun(s.queue, r.queue, h)
    BY <1>0, <1>7, PostingMoves
  <2>2. (h.run = "write" => h.id = s.writeCb /\ s.writeCb # 0) /\ h.run # "read"
    OBVIOUS
  <2> HIDE DEF h
  <2> QED BY <1>1, <1>2, <2>1, <2>2, PostingFlight DEF Called
<1>8. CASE PostsClose(s, r)
  <2> DEFINE h == [run |-> "close", id |-> s.reads, lo |-> 0, hi |-> 0]
  <2>1. AddsRun(s.queue, r.queue, h)
    BY <1>0, <1>8, PostingMoves
  <2>2. h.run # "read" /\ h.run # "write"
    OBVIOUS
  <2> HIDE DEF h
  <2> QED BY <1>1, <1>2, <2>1, <2>2, PostingFlight DEF Called
<1> QED BY <1>3, <1>4, <1>5, <1>6, <1>7, <1>8 DEF Move

\* A stream that owes what some application may be owed.
Pays(s) ==
    \E from \in Nat, f \in SUBSET Nat, runs \in Nat, sets \in Nat :
        s \in Owing(from, f, runs, sets)

\* The streams whose reads in flight are in T, whose writes in flight are not
\* before f, and that wait for nothing else while a read other than b waits.
Calm(b, f, T, given) ==
    {s \in StreamType :
        /\ Pays(s) /\ OneRead(s) /\ ReadIds(s) \subseteq T /\ Clear(s, b)
        /\ \A w \in WriteIds(s) : f <= w
        /\ <<s.opened, s.reads, s.writes>> = given}

LEMMA PaysMoves ==
    ASSUME NEW s, Pays(s), NEW r, Base(r), Move(s, r)
    PROVE  Base(s) /\ Pays(r)
<1>1. PICK from \in Nat, f \in SUBSET Nat, runs \in Nat, sets \in Nat :
        s \in Owing(from, f, runs, sets)
  BY DEF Pays
<1>2. Kept(Owing(from, f, runs, sets))
  BY OwingKept
<1>3. r \in Owing(from, f, runs, sets)
  BY <1>1, <1>2, KeptBy
<1> QED BY <1>1, <1>2, <1>3, KeptBase DEF Pays

LEMMA PaysBase ==
    ASSUME NEW s, Pays(s)
    PROVE  /\ Base(s) /\ Sound(s) /\ s \in StreamType
           /\ Left(s) /\ s.readCb <= s.reads
           /\ \A i \in ReadsAt(s.queue) : s.queue[i].id \in 1..s.reads
<1>1. PICK from \in Nat, f \in SUBSET Nat, runs \in Nat, sets \in Nat :
        s \in Owing(from, f, runs, sets)
  BY DEF Pays
<1>2. Base(s) /\ Left(s) /\ Answers(s, f)
  BY <1>1, OwingBase
<1> QED BY <1>2 DEF Base, Sound, Answers, ReadsAt

LEMMA CalmKept ==
    ASSUME NEW b, NEW f, NEW T, NEW given
    PROVE  Kept(Calm(b, f, T, given))
<1>1. \A s \in Calm(b, f, T, given) : Base(s)
  BY PaysBase DEF Calm
<1>2. ASSUME NEW s \in Calm(b, f, T, given), NEW r \in StreamType, Base(r), Move(s, r)
      PROVE  r \in Calm(b, f, T, given)
  <2>1. /\ Pays(s) /\ OneRead(s) /\ ReadIds(s) \subseteq T /\ Clear(s, b)
        /\ \A w \in WriteIds(s) : f <= w
        /\ <<s.opened, s.reads, s.writes>> = given
    BY DEF Calm
  <2>2. Pays(r)
    BY <1>2, <2>1, PaysMoves
  <2>3. /\ ReadIds(r) \subseteq ReadIds(s) /\ WriteIds(r) \subseteq WriteIds(s)
        /\ OneRead(r) /\ Clear(r, b)
        /\ r.opened = s.opened /\ r.reads = s.reads /\ r.writes = s.writes
    BY <1>1, <1>2, <2>1, FlightMoves
  <2> QED BY <2>1, <2>2, <2>3 DEF Calm
<1> QED BY <1>1, <1>2 DEF Kept

-----------------------------------------------------------------------------
\* The write callback is taken before the write queue is empty

\* From s to r no byte is sent: the queue and the callback stay, or are dropped.
Withholds(s, r) ==
    /\ r.connecting = s.connecting
    /\ \/ r.wq = s.wq /\ r.writeCb \in {0, s.writeCb}
       \/ r.wq = <<>> /\ r.writeCb = 0

\* No callback waits for a queue that is empty.
Rests(s) == ~s.connecting /\ (s.wq = <<>> => s.writeCb = 0)

LEMMA DropsRest ==
    ASSUME NEW s, NEW r, Withholds(s, r)
    PROVE  (Rests(s) => Rests(r)) /\ \A x : Withholds(r, x) => Withholds(s, x)
BY DEF Withholds, Rests

LEMMA RunCallbackDrops ==
    ASSUME NEW s \in StreamType, NEW cb, NEW id, NEW lo, NEW hi
    PROVE  LET r == RunCallback(s, cb, id, lo, hi)
           IN  /\ Withholds(s, r) /\ r.wq = s.wq /\ r.writeCb = s.writeCb
               /\ r.connecting = s.connecting
BY DEF RunCallback, StreamType, Withholds

LEMMA ClearCallbacksDrops ==
    ASSUME NEW s \in StreamType
    PROVE  Withholds(s, ClearCallbacks(s)) /\ ClearCallbacks(s).writeCb = 0
BY DEF ClearCallbacks, StreamType, Withholds

LEMMA MaybeRunCloseCallbackDrops ==
    ASSUME NEW s, Sound(s)
    PROVE  Withholds(s, MaybeRunCloseCallback(s))
<1> DEFINE p == RunCallback(s, "close", s.reads, 0, 0)
           c == ClearCallbacks(p)
           r == [c EXCEPT !.wq = <<>>]
           x == [s EXCEPT !.readCb = 0, !.writeCb = 0, !.wq = <<>>]
<1>1. s \in StreamType /\ s.reads \in Nat /\ "close" \in Callbacks
  BY DEF Sound, StreamType, Callbacks
<1>2. Sound(p) /\ p.connecting = s.connecting
  BY <1>1, RunCallbackSound, RunCallbackDrops
<1> HIDE DEF p
<1>3. Sound(c) /\ c.connecting = s.connecting /\ c.writeCb = 0
  BY <1>2, ClearCallbacksSound, ClearCallbacksDrops DEF Sound, Withholds
<1> HIDE DEF c
<1>4. \A w : LET y == [c EXCEPT !.wq = w]
             IN  y.wq = w /\ y.writeCb = c.writeCb /\ y.connecting = c.connecting
  BY <1>3 DEF Sound, StreamType
<1>5. Withholds(s, r)
  BY <1>3, <1>4 DEF Withholds
<1>6. \A w : LET y == [s EXCEPT !.readCb = 0, !.writeCb = 0, !.wq = w]
             IN  y.wq = w /\ y.writeCb = 0 /\ y.connecting = s.connecting
  BY <1>1 DEF StreamType
<1>7. Withholds(s, x)
  BY <1>6 DEF Withholds
<1> HIDE DEF r, x
<1>8. Withholds(s, s) /\ Withholds(s, ClearCallbacks(s))
  BY <1>1, ClearCallbacksDrops DEF Withholds
<1> QED BY <1>5, <1>7, <1>8 DEF MaybeRunCloseCallback, r, x, c, p

LEMMA ArmDrops ==
    ASSUME NEW s \in StreamType, NEW op
    PROVE  Withholds(s, Arm(s, op)) /\ Arm(s, op).wq = s.wq
BY DEF Arm, StreamType, Withholds

LEMMA FlagsDrop ==
    ASSUME NEW s \in StreamType, NEW b
    PROVE  /\ Withholds(s, [s EXCEPT !.sRead = b])
           /\ Withholds(s, [s EXCEPT !.sWrite = b]) /\ [s EXCEPT !.sWrite = b].wq = s.wq
           /\ Withholds(s, [s EXCEPT !.closing = b])
           /\ Withholds(s, [s EXCEPT !.sslAccepting = b, !.sWrite = TRUE])
           /\ Withholds(s, [s EXCEPT !.sWrite = FALSE, !.sslAccepting = b])
           /\ Withholds(s, [s EXCEPT !.sslAccepted = b])
           /\ Withholds(s, [s EXCEPT !.received = b])
           /\ Withholds(s, [s EXCEPT !.undefined = b])
<1>1. Withholds(s, [s EXCEPT !.sRead = b]) /\ Withholds(s, [s EXCEPT !.sWrite = b])
      /\ [s EXCEPT !.sWrite = b].wq = s.wq
  BY DEF StreamType, Withholds
<1>2. Withholds(s, [s EXCEPT !.closing = b]) /\ Withholds(s, [s EXCEPT !.sslAccepted = b])
  BY DEF StreamType, Withholds
<1>3. /\ Withholds(s, [s EXCEPT !.sslAccepting = b, !.sWrite = TRUE])
      /\ Withholds(s, [s EXCEPT !.sWrite = FALSE, !.sslAccepting = b])
  BY DEF StreamType, Withholds
<1>4. Withholds(s, [s EXCEPT !.received = b]) /\ Withholds(s, [s EXCEPT !.undefined = b])
  BY DEF StreamType, Withholds
<1> QED BY <1>1, <1>2, <1>3, <1>4

LEMMA DoHandshakeDrops ==
    ASSUME NEW s, Sound(s)
    PROVE  Withholds(s, DoHandshake(s))
<1> DEFINE t == Arm(s, "handshake")
           r == [t EXCEPT !.sslAccepting = TRUE, !.sWrite = TRUE]
<1>1. Sound(t) /\ s \in StreamType /\ Withholds(s, t) /\ Withholds(s, s)
  BY ArmSound, ArmDrops DEF Operations, Sound, Withholds
<1> HIDE DEF t
<1>2. Withholds(t, r)
  BY <1>1, FlagsDrop DEF Sound
<1> HIDE DEF r
<1>3. Withholds(s, r)
  BY <1>1, <1>2, DropsRest
<1> QED BY <1>1, <1>3 DEF DoHandshake, r, t

LEMMA DoReadDrops ==
    ASSUME NEW s, Sound(s)
    PROVE  Withholds(s, DoRead(s))
<1> DEFINE t == Arm(s, "read")
           r == [t EXCEPT !.sRead = TRUE]
<1>1. Sound(t) /\ s \in StreamType /\ Withholds(s, t)
  BY ArmSound, ArmDrops DEF Operations, Sound
<1> HIDE DEF t
<1>2. Withholds(t, r)
  BY <1>1, FlagsDrop DEF Sound
<1> HIDE DEF r
<1>3. Withholds(s, r)
  BY <1>1, <1>2, DropsRest
<1> QED BY <1>3 DEF DoRead, r, t

LEMMA ReadFromSocketDrops ==
    ASSUME NEW s, Sound(s)
    PROVE  Withholds(s, ReadFromSocket(s))
BY DoHandshakeDrops, DoReadDrops DEF ReadFromSocket

LEMMA ListenerDrops ==
    ASSUME NEW s, Sound(s)
    PROVE  Withholds(s, MaybeAddErrorListener(s))
<1>1. Withholds(s, s)
  BY DEF Withholds
<1> QED BY <1>1, ReadFromSocketDrops, MaybeRunCloseCallbackDrops DEF MaybeAddErrorListener

LEMMA DoCloseDrops ==
    ASSUME NEW s, Sound(s)
    PROVE  Withholds(s, DoClose(s))
<1> DEFINE a == AbortOperations(s)
           u == [a EXCEPT !.closing = FALSE, !.closed = TRUE]
<1>1. a \in StreamType /\ s \in StreamType
  BY AbortOperationsType DEF Sound
<1>2. \E k, q : a = [s EXCEPT !.kernel = k, !.queue = q]
  BY DEF AbortOperations
<1>3. a.wq = s.wq /\ a.writeCb = s.writeCb /\ a.connecting = s.connecting
  <2>1. \A k, q : LET y == [s EXCEPT !.kernel = k, !.queue = q]
                  IN  y.wq = s.wq /\ y.writeCb = s.writeCb /\ y.connecting = s.connecting
    BY <1>1 DEF StreamType
  <2> HIDE DEF a
  <2> QED BY <1>2, <2>1
<1> HIDE DEF a
<1>4. /\ u.wq = a.wq /\ u.writeCb = a.writeCb /\ u.connecting = a.connecting
      /\ u \in StreamType /\ u.closed
  BY <1>1, ZenonT(30) DEF StreamType
<1> HIDE DEF u
<1>5. Sound(u) /\ Withholds(s, u)
  BY <1>3, <1>4 DEF Sound, Withholds
<1>6. Withholds(u, MaybeRunCloseCallback(u))
  BY <1>5, MaybeRunCloseCallbackDrops
<1> QED BY <1>5, <1>6, DropsRest DEF DoClose, OnClose, u, a

LEMMA CloseDrops ==
    ASSUME NEW s, Sound(s)
    PROVE  Withholds(s, Close(s))
<1>1. CASE Closed(s)
  BY <1>1 DEF Close, Withholds
<1>2. CASE ~Closed(s)
  <2> DEFINE t == IF s.untilClose THEN FinishUntilClose(s) ELSE s
             u == [t EXCEPT !.closing = TRUE]
             x == Arm(u, "shutdown")
             y == [x EXCEPT !.sWrite = TRUE]
  <2>1. Sound(FinishUntilClose(s)) /\ s \in StreamType
    BY FinishUntilCloseSound DEF Sound
  <2>2. Withholds(s, FinishUntilClose(s))
    <3> DEFINE p == RunCallback(s, "stream", s.streamCb, s.consumed, s.received)
               v == IF s.streamCb # 0 /\ Active(s) > 0
                    THEN [p EXCEPT !.consumed = s.received] ELSE s
               cb == IF v.readCb = 0 THEN "lostRead" ELSE "read"
               w == RunCallback(v, cb, v.readCb, v.consumed, v.received)
               z == [w EXCEPT !.consumed = v.received, !.readCb = 0, !.untilClose = FALSE]
    <3>1. v.wq = s.wq /\ v.writeCb = s.writeCb /\ v.connecting = s.connecting
          /\ DOMAIN v = DOMAIN s
      BY <2>1 DEF RunCallback, StreamType
    <3>2. FinishUntilClose(s) = z
      BY DEF FinishUntilClose
    <3> HIDE DEF v, cb
    <3>3. z.wq = v.wq /\ z.writeCb = v.writeCb /\ z.connecting = v.connecting
      BY <2>1, <3>1 DEF RunCallback, StreamType
    <3> HIDE DEF z
    <3> QED BY <3>1, <3>2, <3>3 DEF Withholds
  <2>3. Sound(t) /\ Withholds(s, t)
    BY <2>1, <2>2 DEF Withholds
  <2>4. Close(s) = CloseSocket(u)
    BY <1>2 DEF Close
  <2> HIDE DEF t
  <2>5. Sound(u) /\ Withholds(t, u)
    <3>1. Sound(u)
      BY <2>3 DEF Sound, StreamType
    <3> QED BY <2>3, <3>1, FlagsDrop DEF Sound
  <2> HIDE DEF u
  <2>6. Withholds(u, x) /\ Sound(x)
    BY <2>5, ArmDrops, ArmSound DEF Sound, Operations
  <2> HIDE DEF x
  <2>7. Withholds(x, y)
    BY <2>6, FlagsDrop DEF Sound
  <2> HIDE DEF y
  <2>8. Withholds(u, CloseSocket(u))
    BY <2>5, <2>6, <2>7, DoCloseDrops, DropsRest DEF CloseSocket, x, y
  <2> QED BY <2>3, <2>4, <2>5, <2>8, DropsRest
<1> QED BY <1>1, <1>2

LEMMA StreamedDrops ==
    ASSUME NEW s, Sound(s)
    PROVE  Withholds(s, Streamed(s))
<1>1. CASE s.streamCb = 0 \/ Active(s) = 0
  BY <1>1 DEF Streamed, Withholds
<1>2. CASE ~(s.streamCb = 0 \/ Active(s) = 0)
  <2> DEFINE n == IF s.readBytes # None /\ s.readBytes < Active(s)
                  THEN s.readBytes ELSE Active(s)
             p == RunCallback(s, "stream", s.streamCb, s.consumed, s.consumed + n)
             r == [p EXCEPT !.consumed = @ + n, !.readBytes = IF @ = None THEN None ELSE @ - n]
  <2>1. r.wq = s.wq /\ r.writeCb = s.writeCb /\ r.connecting = s.connecting
    <3> HIDE DEF n
    <3> QED BY DEF RunCallback, Sound, StreamType
  <2>2. Streamed(s) = r
    BY <1>2 DEF Streamed
  <2> HIDE DEF r
  <2> QED BY <2>1, <2>2 DEF Withholds
<1> QED BY <1>1, <1>2

LEMMA ReadFromBufferDrops ==
    ASSUME NEW s, Sound(s)
    PROVE  Withholds(s, ReadFromBuffer(s))
<1> DEFINE t == Streamed(s)
           end == Least(Ends(t))
           src == Source(t)
           cb == IF t.readCb = 0 THEN "lostRead" ELSE "read"
           p == RunCallback(t, cb, t.readCb, t.consumed, end)
           r == [p EXCEPT !.consumed = end, !.readCb = 0, !.streamCb = 0,
                          !.readBytes = IF src = "bytes" THEN None ELSE @,
                          !.marks = @ \ {src}]
<1>1. Sound(t) /\ Withholds(s, t)
  BY StreamedSound, StreamedDrops
<1>2. ReadFromBuffer(s) \in {r, t}
  BY DEF ReadFromBuffer, Delivered
<1> HIDE DEF t, end, src, cb
<1>3. r.wq = t.wq /\ r.writeCb = t.writeCb /\ r.connecting = t.connecting
  BY <1>1 DEF RunCallback, Sound, StreamType
<1> HIDE DEF r
<1> QED BY <1>1, <1>2, <1>3 DEF Withholds

LEMMA TryInlineReadDrops ==
    ASSUME NEW s, Sound(s)
    PROVE  Withholds(s, TryInlineRead(s))
<1> DEFINE t == ReadFromBuffer(s)
           r == ReadFromSocket(t)
<1>1. Sound(t) /\ Withholds(s, t)
  BY ReadFromBufferSound, ReadFromBufferDrops
<1>2. TryInlineRead(s) \in {t, r}
  BY DEF TryInlineRead
<1> HIDE DEF t
<1>3. Withholds(t, r)
  BY <1>1, ReadFromSocketDrops
<1> HIDE DEF r
<1> QED BY <1>1, <1>2, <1>3, DropsRest

LEMMA OnReadDrops ==
    ASSUME NEW s, Sound(s), NEW res, NEW n \in Nat
    PROVE  Withholds(s, OnRead(s, res, n))
<1> DEFINE t == [s EXCEPT !.sRead = FALSE]
           more == t.received + n
           u == [t EXCEPT !.received = @ + n]
           v == ReadFromBuffer(u)
<1>1. Sound(t) /\ Withholds(s, t)
  <2>1. Sound(t)
    BY ZenonT(30) DEF Sound, StreamType
  <2> QED BY <2>1, FlagsDrop DEF Sound
<1>2. OnRead(s, res, n) \in
        {MaybeRunCloseCallback(t), Close(t), Close(u), v, ReadFromSocket(v),
         MaybeAddErrorListener(v)}
  BY DEF OnRead
<1>3. u = [t EXCEPT !.received = more]
  OBVIOUS
<1> HIDE DEF t
<1>4. more \in Nat
  <2>1. t.received \in Nat
    BY <1>1 DEF Sound, StreamType
  <2> QED BY <2>1
<1> HIDE DEF more, u
<1>5. Sound(u) /\ Withholds(t, u)
  <2>1. Sound(u)
    BY <1>1, <1>3, <1>4 DEF Sound, StreamType
  <2> QED BY <1>1, <1>3, <2>1, FlagsDrop DEF Sound
<1>6. Sound(v) /\ Withholds(u, v)
  BY <1>5, ReadFromBufferSound, ReadFromBufferDrops
<1> HIDE DEF v
<1>7. Withholds(s, u) /\ Withholds(s, v)
  BY <1>1, <1>5, <1>6, DropsRest
<1>8. /\ Withholds(t, MaybeRunCloseCallback(t)) /\ Withholds(t, Close(t)) /\ Withholds(u, Close(u))
      /\ Withholds(v, ReadFromSocket(v)) /\ Withholds(v, MaybeAddErrorListener(v))
  BY <1>1, <1>5, <1>6, MaybeRunCloseCallbackDrops, CloseDrops, ReadFromSocketDrops, ListenerDrops
<1> QED BY <1>1, <1>2, <1>7, <1>8, DropsRest

\* The same for what does send, on a stream that is connected.

LEMMA WriteFailedDrops ==
    ASSUME NEW s, Sound(s), NEW res
    PROVE  Withholds(s, WriteFailed(s, res))
<1> DEFINE t == [s EXCEPT !.sWrite = FALSE, !.writeCb = 0]
<1>1. Sound(t) /\ Withholds(s, t)
  BY ZenonT(30) DEF Sound, StreamType, Withholds
<1>2. WriteFailed(s, res) \in {Close(t), MaybeRunCloseCallback(t)}
  BY DEF WriteFailed
<1> HIDE DEF t
<1> QED BY <1>1, <1>2, CloseDrops, MaybeRunCloseCallbackDrops, DropsRest

LEMMA PostWriteRests ==
    ASSUME NEW s \in StreamType, ~s.connecting, NEW cb, NEW id, NEW hi
    PROVE  Rests([RunCallback(s, cb, id, 0, hi) EXCEPT !.writeCb = 0])
<1> DEFINE p == RunCallback(s, cb, id, 0, hi)
           r == [p EXCEPT !.writeCb = 0]
<1>1. r.writeCb = 0 /\ ~r.connecting
  BY DEF RunCallback, StreamType
<1> HIDE DEF r
<1> QED BY <1>1 DEF Rests, r, p

LEMMA WriteDrainedRests ==
    ASSUME NEW s, Sound(s), ~s.connecting
    PROVE  Rests(WriteDrained(s))
<1> DEFINE t == [s EXCEPT !.sWrite = FALSE]
<1>1. Sound(t) /\ t \in StreamType /\ ~t.connecting
  BY ZenonT(30) DEF Sound, StreamType
<1>2. WriteDrained(s) = IF t.writeCb # 0
        THEN [RunCallback(t, "write", t.writeCb, 0, t.writeEnd) EXCEPT !.writeCb = 0]
        ELSE IF Closed(t) THEN t ELSE MaybeAddErrorListener(t)
  BY DEF WriteDrained
<1> HIDE DEF t
<1>3. t.writeCb = 0 => Rests(t) /\ Rests(MaybeAddErrorListener(t))
  BY <1>1, ListenerDrops, DropsRest DEF Rests
<1> QED BY <1>1, <1>2, <1>3, PostWriteRests

LEMMA ArmWriteRests ==
    ASSUME NEW s, Sound(s), ~s.connecting, s.wq # <<>>
    PROVE  Rests(ArmWrite(s))
<1> DEFINE t == Arm(s, "write")
           r == [t EXCEPT !.sWrite = TRUE]
<1>1. t \in StreamType /\ Withholds(s, t) /\ t.wq = s.wq
  BY ArmSound, ArmDrops DEF Operations, Sound
<1> HIDE DEF t
<1>2. Withholds(t, r) /\ r.wq = t.wq
  BY <1>1, FlagsDrop
<1> HIDE DEF r
<1>3. Rests(r)
  BY <1>1, <1>2 DEF Withholds, Rests
<1> QED BY <1>3 DEF ArmWrite, r, t

LEMMA DoWriteRests ==
    ASSUME NEW s, Sound(s), ~s.connecting, s.wq # <<>>
    PROVE  Rests(DoWrite(s))
<1> DEFINE w == <<s.wq[Len(s.wq)]>>
           t == [s EXCEPT !.wq = w]
<1>1. s.wq \in Seq(Nat) /\ w \in Seq(Nat) /\ w # <<>>
  <2>1. s.wq \in Seq(Nat)
    BY DEF Sound, StreamType
  <2>2. s.wq[Len(s.wq)] \in Nat
    BY <2>1, Suffixes
  <2> QED BY <2>1, <2>2
<1>2. DoWrite(s) = ArmWrite(t)
  BY DEF DoWrite
<1> HIDE DEF w
<1>3. Sound(t) /\ ~t.connecting /\ t.wq # <<>>
  BY <1>1 DEF Sound, StreamType
<1> HIDE DEF t
<1> QED BY <1>2, <1>3, ArmWriteRests

LEMMA WriteToSocketRests ==
    ASSUME NEW s, Sound(s), ~s.connecting, s.wq # <<>>, NEW x \in StreamType,
           x.wq = s.wq, x.sent = s.sent, NEW o \in Outcomes(x)
    PROVE  Rests(WriteToSocket(s, o))
<1>0. s \in StreamType /\ s.wq \in Seq(Nat) /\ s.written \in Nat /\ Rests(s)
  BY DEF Sound, StreamType, Rests
<1>1. CASE Secure
  BY <1>0, <1>1, DoWriteRests, DoHandshakeDrops, DropsRest DEF WriteToSocket
<1>2. CASE ~Secure
  <2> DEFINE w == SubSeq(s.wq, o.k + 1, Len(s.wq))
             none == SubSeq(s.wq, Len(s.wq) + 1, Len(s.wq))
             all == [s EXCEPT !.wq = none, !.sent = s.written]
             rest == [s EXCEPT !.wq = w, !.sent = o.to]
  <2>0. /\ o.kind \in {"all", "error", "zero", "block"}
        /\ o.kind = "block" => o.k \in 0..(Len(s.wq) - 1) /\ o.to \in Nat
    BY OutcomesAre
  <2>1. none = <<>> /\ none \in Seq(Nat)
    BY <1>0, Suffixes, EmptySequence
  <2>2. CASE o.kind = "all"
    <3>1. WriteToSocket(s, o) = WriteDrained(all)
      BY <1>2, <2>1, <2>2 DEF WriteToSocket
    <3>2. none \in Seq(Nat)
      BY <2>1
    <3> HIDE DEF none
    <3>3. Sound(all) /\ ~all.connecting
      BY <1>0, <3>2 DEF Sound, StreamType
    <3> HIDE DEF all
    <3> QED BY <3>1, <3>3, WriteDrainedRests
  <2>3. CASE o.kind = "error"
    BY <1>0, <1>2, <2>3, WriteFailedDrops, DropsRest DEF WriteToSocket
  <2>4. CASE o.kind = "zero"
    BY <1>0, <1>2, <2>4, CloseDrops, DropsRest DEF WriteToSocket
  <2>5. CASE o.kind = "block"
    <3>1. WriteToSocket(s, o) = ArmWrite(rest)
      BY <1>2, <2>5 DEF WriteToSocket
    <3>2. w # <<>> /\ o.to \in Nat
      BY <1>0, <2>0, <2>5, Suffixes
    <3>3. w \in Seq(Nat)
      <4>1. o.k + 1 \in Nat \ {0}
        BY <2>0, <2>5
      <4>2. \A i \in (o.k + 1)..Len(s.wq) : s.wq[i] \in Nat
        BY <1>0, <4>1
      <4> QED BY <1>0, <4>1, <4>2
    <3> HIDE DEF w
    <3>4. Sound(rest) /\ rest.wq = w /\ ~rest.connecting
      BY <1>0, <3>2, <3>3 DEF Sound, StreamType
    <3> HIDE DEF rest
    <3> QED BY <3>1, <3>2, <3>4, ArmWriteRests
  <2> QED BY <2>0, <2>2, <2>3, <2>4, <2>5
<1> QED BY <1>1, <1>2

LEMMA OnWriteRests ==
    ASSUME NEW S, Kept(S), NEW s \in S, Rests(s), NEW res, NEW n \in Nat,
           NEW o \in Outcomes(TakeFront(s, n))
    PROVE  Rests(OnWrite(s, res, n, o))
<1> DEFINE c == [s EXCEPT !.sWrite = FALSE]
           t == TakeFront(c, n)
           x == TakeFront(s, n)
<1>0. s \in StreamType /\ Sound(s)
  BY KeptBase
<1>1. c \in S /\ ~c.connecting
  BY <1>0, FlagsKept DEF Rests, StreamType
<1>2. OnWrite(s, res, n, o) =
        IF res # "ok" THEN WriteFailed(s, res) ELSE IF t.wq = <<>> THEN WriteDrained(t)
        ELSE IF Closed(t) THEN t ELSE WriteToSocket(t, o)
  BY DEF OnWrite
<1>3. t.wq = x.wq /\ t.sent = x.sent /\ ~t.connecting
  BY <1>0 DEF TakeFront, StreamType, Rests
<1> HIDE DEF c
<1>4. t \in S /\ x \in S /\ x \in StreamType /\ Sound(t)
  BY <1>1, TakeFrontKept, KeptBase
<1> HIDE DEF t
<1>5. o \in Outcomes(x)
  OBVIOUS
<1> HIDE DEF x
<1>6. t.wq # <<>> => Rests(WriteToSocket(t, o)) /\ Rests(t)
  BY <1>3, <1>4, <1>5, WriteToSocketRests DEF Rests
<1>7. Rests(WriteDrained(t))
  BY <1>3, <1>4, WriteDrainedRests
<1>8. Rests(WriteFailed(s, res))
  BY <1>0, WriteFailedDrops, DropsRest
<1> QED BY <1>2, <1>6, <1>7, <1>8

LEMMA FlushRests ==
    ASSUME NEW s, Sound(s), ~s.connecting, NEW o \in Outcomes(s)
    PROVE  Rests(Flush(s, o))
<1> DEFINE cb == IF s.writeCb = 0 THEN "noWrite" ELSE "write"
           r == [RunCallback(s, cb, s.writeCb, 0, s.writeEnd) EXCEPT !.writeCb = 0]
<1>1. s \in StreamType
  BY DEF Sound
<1>2. Rests(r)
  BY <1>1, PostWriteRests
<1>3. s.wq # <<>> => Rests(s) /\ Rests(WriteToSocket(s, o))
  BY <1>1, WriteToSocketRests DEF Rests
<1>4. Flush(s, o) = IF s.wq = <<>> THEN r ELSE IF s.sWrite THEN s ELSE WriteToSocket(s, o)
  BY DEF Flush
<1> HIDE DEF r
<1> QED BY <1>2, <1>3, <1>4

LEMMA OnConnectRests ==
    ASSUME NEW S, Kept(S), NEW s \in S, Rests(s), NEW res, NEW o \in Outcomes(s)
    PROVE  Rests(OnConnect(s, res, o))
<1> DEFINE t == [s EXCEPT !.sWrite = FALSE]
           c == [RunCallback(t, "connect", 0, 0, 0) EXCEPT !.connectCb = FALSE]
           u == IF t.connectCb THEN c ELSE t
           v == [u EXCEPT !.connecting = FALSE]
           w == [RunCallback(v, "write", v.writeCb, 0, v.writeEnd) EXCEPT !.writeCb = 0]
           f == [s EXCEPT !.sWrite = FALSE, !.connectCb = FALSE]
<1>0. s \in StreamType /\ Sound(s)
  BY KeptBase
<1>1. t \in S
  BY FlagsKept
<1>2. OnConnect(s, res, o) =
        IF res # "ok" THEN ConnectFailed(s, res)
        ELSE IF s.closed THEN u
        ELSE IF v.wq # <<>> THEN WriteToSocket(v, o)
        ELSE IF v.writeCb # 0 THEN w ELSE MaybeAddErrorListener(v)
  BY DEF OnConnect
<1>3. v.wq = s.wq /\ v.sent = s.sent /\ v.writeCb = s.writeCb /\ ~v.connecting /\ Rests(u)
  BY <1>0 DEF RunCallback, StreamType, Rests
<1>4. t.connectCb => c \in S
  <2> HIDE DEF t
  <2> QED BY <1>1, PostConnectKept DEF Connects
<1>5. Sound(f) /\ Withholds(s, f)
  BY <1>0, ZenonT(30) DEF Sound, StreamType, Withholds
<1> HIDE DEF c, f
<1>6. u \in S
  BY <1>1, <1>4
<1> HIDE DEF u
<1>7. v \in S
  BY <1>6, FlagsKept
<1>8. v \in StreamType /\ Sound(v)
  BY <1>7, KeptBase
<1> HIDE DEF v
<1>9. v.wq # <<>> => Rests(WriteToSocket(v, o))
  BY <1>0, <1>3, <1>8, WriteToSocketRests
<1>10. Rests(w)
  BY <1>3, <1>8, PostWriteRests
<1>11. Rests(MaybeAddErrorListener(v))
  <2>1. Rests(v)
    BY <1>3 DEF Rests
  <2> QED BY <1>8, <2>1, ListenerDrops, DropsRest
<1>12. Rests(ConnectFailed(s, res))
  <2>1. Rests(Close(f)) /\ Rests(MaybeRunCloseCallback(f))
    BY <1>5, CloseDrops, MaybeRunCloseCallbackDrops, DropsRest
  <2> QED BY <2>1 DEF ConnectFailed, f
<1> HIDE DEF w
<1> QED BY <1>2, <1>3, <1>9, <1>10, <1>11, <1>12

LEMMA OnHandshakeRests ==
    ASSUME NEW S, Kept(S), NEW s \in S, Rests(s), NEW res
    PROVE  Rests(OnHandshake(s, res))
<1> DEFINE c == [s EXCEPT !.sWrite = FALSE]
           t == [c EXCEPT !.sslAccepting = FALSE]
           u == [t EXCEPT !.sslAccepted = TRUE]
           p == [RunCallback(u, "connect", 0, 0, 0) EXCEPT !.sslConnectCb = FALSE]
           v == IF u.sslConnectCb THEN p ELSE u
           w == IF v.wq # <<>> THEN DoWrite(v) ELSE v
           x == IF w.readCb # 0 THEN DoRead(w) ELSE w
<1>0. s \in StreamType
  BY KeptBase
<1>1. OnHandshake(s, res) =
        CASE res = "aborted" -> t [] res = "error" -> Close(t)
          [] OTHER -> MaybeAddErrorListener(x)
  BY DEF OnHandshake
<1>2. Rests(t) /\ Rests(u) /\ Rests(p)
  <2>1. t.wq = s.wq /\ t.writeCb = s.writeCb /\ t.connecting = s.connecting
    BY <1>0 DEF StreamType
  <2>2. u.wq = s.wq /\ u.writeCb = s.writeCb /\ u.connecting = s.connecting
    BY <1>0 DEF StreamType
  <2>3. p.wq = s.wq /\ p.writeCb = s.writeCb /\ p.connecting = s.connecting
    BY <1>0 DEF RunCallback, StreamType
  <2> HIDE DEF t, u, p
  <2> QED BY <2>1, <2>2, <2>3 DEF Rests
<1>3. c \in S
  BY FlagsKept
<1> HIDE DEF c
<1>4. t \in S
  BY <1>3, FlagsKept
<1> HIDE DEF t
<1>5. u \in S
  BY <1>4, FlagsKept
<1> HIDE DEF u
<1>6. u.sslConnectCb => p \in S
  BY <1>5, PostConnectKept DEF Connects
<1> HIDE DEF p
<1>7. v \in S /\ Rests(v)
  BY <1>2, <1>5, <1>6
<1> HIDE DEF v
<1>8. w \in S /\ Rests(w)
  BY <1>7, DoWriteKept, DoWriteRests, KeptBase DEF Rests
<1> HIDE DEF w
<1>9. x \in S /\ Rests(x)
  BY <1>8, DoReadKept, DoReadDrops, DropsRest, KeptBase
<1> HIDE DEF x
<1>10. Sound(x) /\ Sound(t)
  BY <1>4, <1>9, KeptBase
<1>11. Rests(MaybeAddErrorListener(x)) /\ Rests(Close(t))
  BY <1>2, <1>9, <1>10, ListenerDrops, CloseDrops, DropsRest
<1> QED BY <1>1, <1>2, <1>11

LEMMA OnShutdownRests ==
    ASSUME NEW s, Sound(s), Rests(s)
    PROVE  Rests(OnShutdown(s))
<1> DEFINE t == [s EXCEPT !.sWrite = FALSE]
<1>1. Sound(t) /\ Withholds(s, t)
  BY ZenonT(30) DEF Sound, StreamType, Withholds
<1>2. OnShutdown(s) = DoClose(t)
  BY DEF OnShutdown
<1> HIDE DEF t
<1> QED BY <1>1, <1>2, DoCloseDrops, DropsRest

-----------------------------------------------------------------------------
\* What the calls of the connection do to a calm stream

\* No read is in flight: it does not matter which would be for a body.
LEMMA NoReads ==
    ASSUME NEW b, NEW f, NEW given, NEW s \in Calm(b, f, {}, given)
    PROVE  s.readCb = 0 /\ ReadsAt(s.queue) = {} /\ \A x : s \in Calm(x, f, {}, given)
<1>1. s \in StreamType /\ Pays(s) /\ ReadIds(s) \subseteq {}
      /\ \A w \in WriteIds(s) : f <= w /\ <<s.opened, s.reads, s.writes>> = given
  BY DEF Calm
<1>2. s.readCb = 0 /\ ReadsAt(s.queue) = {}
  BY <1>1 DEF ReadIds
<1>3. ASSUME NEW x PROVE Clear(s, x) /\ OneRead(s)
  BY <1>2 DEF Clear, OneRead
<1> QED BY <1>2, <1>3 DEF Calm

\* A stream with the same calls in flight.
LEMMA CalmSame ==
    ASSUME NEW b, NEW f, NEW T, NEW given, NEW s \in Calm(b, f, T, given),
           NEW r \in StreamType, Pays(r), r.queue = s.queue, r.readCb = s.readCb,
           r.writeCb = s.writeCb, r.wq = s.wq
    PROVE  r \in Calm(b, f, T, <<r.opened, r.reads, r.writes>>)
<1>1. OneRead(s) /\ ReadIds(s) \subseteq T /\ Clear(s, b) /\ \A w \in WriteIds(s) : f <= w
  BY DEF Calm
<1>2. OneRead(r) /\ Clear(r, b)
  BY <1>1 DEF OneRead, Clear
<1>3. ReadIds(r) \subseteq T /\ \A w \in WriteIds(r) : f <= w
  BY <1>1 DEF ReadIds, WriteIds
<1> QED BY <1>2, <1>3 DEF Calm

\* A read is called while none is in flight: that of a body at any time, that of
\* a header block when nothing waits to be sent.
LEMMA BeginCalm ==
    ASSUME NEW b, NEW f, NEW given, NEW s \in Calm(b, f, {}, given),
           NEW r \in StreamType, Pays(r), r.queue = s.queue, r.readCb = s.reads + 1,
           r.writeCb = s.writeCb, r.wq = s.wq,
           NEW body, body = s.reads + 1 \/ (s.wq = <<>> /\ s.writeCb = 0)
    PROVE  r \in Calm(body, f, {s.reads + 1}, <<r.opened, r.reads, r.writes>>)
<1>1. \A w \in WriteIds(s) : f <= w
  BY DEF Calm
<1>2. ReadsAt(r.queue) = {}
  <2>1. ReadsAt(s.queue) = {}
    BY NoReads
  <2> QED BY <2>1
<1>3. OneRead(r) /\ Clear(r, body)
  BY <1>2 DEF OneRead, Clear
<1>4. ReadIds(r) \subseteq {s.reads + 1} /\ \A w \in WriteIds(r) : f <= w
  BY <1>1, <1>2 DEF ReadIds, WriteIds
<1> QED BY <1>3, <1>4 DEF Calm

LEMMA PaysRead ==
    ASSUME NEW s, Pays(s), s.readCb = 0, NEW r \in StreamType,
           r.reads = s.reads + 1, r.readCb = s.reads + 1, r.streamCb = s.streamCb,
           r.consumed = s.consumed, WriteSide(r) = WriteSide(s), CloseSide(r) = CloseSide(s),
           r.queue = s.queue, r.pending = s.pending, r.written = s.written,
           r.writeEnd = s.writeEnd, Connects(r) = Connects(s),
           NEW c, Criteria(r) \subseteq Criteria(s) \cup {c}
    PROVE  Pays(r)
<1>1. PICK from \in Nat, f \in SUBSET Nat, runs \in Nat, sets \in Nat :
        s \in Owing(from, f, runs, sets)
  BY DEF Pays
<1>2. r \in Owing(from, f, runs, sets)
  BY <1>1, ReadOwes
<1> QED BY <1>2 DEF Pays

LEMMA BeginReadUntilCalm ==
    ASSUME NEW b, NEW f, NEW given, NEW s \in Calm(b, f, {}, given), Rests(s),
           s.wq = <<>>, s.writeCb = 0
    PROVE  LET r == BeginReadUntil(s, "delim")
           IN  /\ r \in Calm(b, f, {s.reads + 1}, <<s.opened, s.reads + 1, s.writes>>)
               /\ Rests(r)
<1> DEFINE id == s.reads + 1
           r == [[s EXCEPT !.reads = id, !.readCb = id] EXCEPT !.marks = @ \cup {"delim"}]
<1>1. s \in StreamType /\ Pays(s) /\ s.readCb = 0
  <2>1. s.readCb = 0
    BY NoReads
  <2> QED BY <2>1 DEF Calm
<1>2. id \in Nat /\ "delim" \in Marks
  BY <1>1 DEF StreamType, Marks
<1>3. BeginReadUntil(s, "delim") = r
  BY <1>1 DEF BeginReadUntil, StartRead, StreamType
<1> HIDE DEF id
<1>4. /\ r \in StreamType /\ r.reads = id /\ r.readCb = id /\ r.streamCb = s.streamCb
      /\ r.consumed = s.consumed /\ WriteSide(r) = WriteSide(s) /\ CloseSide(r) = CloseSide(s)
      /\ r.queue = s.queue /\ r.pending = s.pending /\ r.written = s.written
      /\ r.writeEnd = s.writeEnd /\ Connects(r) = Connects(s)
  BY <1>1, <1>2 DEF StreamType, WriteSide, CloseSide, Connects
<1>5. /\ r.marks = s.marks \cup {"delim"} /\ r.readBytes = s.readBytes
      /\ r.untilClose = s.untilClose /\ r.opened = s.opened /\ r.writes = s.writes
      /\ r.connecting = s.connecting /\ r.wq = s.wq /\ r.writeCb = s.writeCb
  BY <1>1, <1>2 DEF StreamType
<1> HIDE DEF r
<1>6. Criteria(r) \subseteq Criteria(s) \cup {"delim"}
  BY <1>5 DEF Criteria
<1>7. Pays(r)
  BY <1>1, <1>4, <1>6, PaysRead DEF id
<1>8. r \in Calm(b, f, {s.reads + 1}, <<r.opened, r.reads, r.writes>>)
  BY <1>4, <1>5, <1>7, BeginCalm DEF id
<1>9. Rests(r)
  BY <1>5 DEF Rests
<1> QED BY <1>3, <1>4, <1>5, <1>8, <1>9 DEF id

LEMMA ReadHeadersCalm ==
    ASSUME NEW b, NEW f, NEW given, NEW s \in Calm(b, f, {}, given), Rests(s),
           s.wq = <<>>, s.writeCb = 0
    PROVE  /\ ReadHeaders(s) \in Calm(b, f, {s.reads + 1}, <<s.opened, s.reads + 1, s.writes>>)
           /\ Rests(ReadHeaders(s))
<1> DEFINE r == BeginReadUntil(s, "delim")
           S == Calm(b, f, {s.reads + 1}, <<s.opened, s.reads + 1, s.writes>>)
<1>1. r \in S /\ Rests(r) /\ Kept(S)
  BY BeginReadUntilCalm, CalmKept
<1>2. ReadHeaders(s) = TryInlineRead(r)
  BY DEF ReadHeaders
<1> HIDE DEF r, S
<1>3. TryInlineRead(r) \in S /\ Rests(TryInlineRead(r))
  BY <1>1, TryInlineReadKept, TryInlineReadDrops, KeptBase, DropsRest
<1> QED BY <1>2, <1>3 DEF S

LEMMA BeginReadBytesCalm ==
    ASSUME NEW b, NEW f, NEW given, NEW s \in Calm(b, f, {}, given), Rests(s), NEW n \in Nat
    PROVE  LET r == BeginReadBytes(s, n)
           IN  /\ r \in Calm(s.reads + 1, f, {s.reads + 1}, <<s.opened, s.reads + 1, s.writes>>)
               /\ Rests(r)
<1> DEFINE id == s.reads + 1
           r == [[s EXCEPT !.reads = id, !.readCb = id] EXCEPT !.readBytes = n]
<1>1. s \in StreamType /\ Pays(s) /\ s.readCb = 0
  <2>1. s.readCb = 0
    BY NoReads
  <2> QED BY <2>1 DEF Calm
<1>2. id \in Nat
  BY <1>1 DEF StreamType
<1>3. BeginReadBytes(s, n) = r
  BY <1>1 DEF BeginReadBytes, StartRead, StreamType
<1> HIDE DEF id
<1>4. /\ r \in StreamType /\ r.reads = id /\ r.readCb = id /\ r.streamCb = s.streamCb
      /\ r.consumed = s.consumed /\ WriteSide(r) = WriteSide(s) /\ CloseSide(r) = CloseSide(s)
      /\ r.queue = s.queue /\ r.pending = s.pending /\ r.written = s.written
      /\ r.writeEnd = s.writeEnd /\ Connects(r) = Connects(s)
  BY <1>1, <1>2 DEF StreamType, WriteSide, CloseSide, Connects
<1>5. /\ r.marks = s.marks /\ r.untilClose = s.untilClose /\ r.opened = s.opened
      /\ r.writes = s.writes /\ r.connecting = s.connecting /\ r.wq = s.wq
      /\ r.writeCb = s.writeCb
  BY <1>1, <1>2 DEF StreamType
<1> HIDE DEF r
<1>6. Criteria(r) \subseteq Criteria(s) \cup {"bytes"}
  BY <1>5 DEF Criteria
<1>7. Pays(r)
  BY <1>1, <1>4, <1>6, PaysRead DEF id
<1>8. r \in Calm(s.reads + 1, f, {s.reads + 1}, <<r.opened, r.reads, r.writes>>)
  BY <1>4, <1>5, <1>7, BeginCalm DEF id
<1>9. Rests(r)
  BY <1>5 DEF Rests
<1> QED BY <1>3, <1>4, <1>5, <1>8, <1>9 DEF id

LEMMA ReadBodyCalm ==
    ASSUME NEW b, NEW f, NEW given, NEW s \in Calm(b, f, {}, given), Rests(s), NEW n \in Nat
    PROVE  LET S == Calm(s.reads + 1, f, {s.reads + 1}, <<s.opened, s.reads + 1, s.writes>>)
               r == ReadBody(s, n)
           IN  r \in S /\ Rests(r) /\ Close(r) \in S /\ Rests(Close(r))
<1> DEFINE r == BeginReadBytes(s, n)
           x == TryInlineRead(r)
           S == Calm(s.reads + 1, f, {s.reads + 1}, <<s.opened, s.reads + 1, s.writes>>)
<1>1. r \in S /\ Rests(r) /\ Kept(S)
  BY BeginReadBytesCalm, CalmKept
<1>2. ReadBody(s, n) = x
  BY DEF ReadBody
<1> HIDE DEF r, S
<1>3. x \in S /\ Rests(x)
  BY <1>1, TryInlineReadKept, TryInlineReadDrops, KeptBase, DropsRest
<1> HIDE DEF x
<1>4. Close(x) \in S /\ Rests(Close(x))
  BY <1>1, <1>3, CloseKept, CloseDrops, KeptBase, DropsRest
<1> QED BY <1>2, <1>3, <1>4 DEF S

LEMMA CloseCalm ==
    ASSUME NEW b, NEW f, NEW T, NEW given, NEW s \in Calm(b, f, T, given), Rests(s)
    PROVE  /\ Close(s) \in Calm(b, f, T, given) /\ Rests(Close(s))
           /\ MaybeAddErrorListener(s) \in Calm(b, f, T, given)
           /\ Rests(MaybeAddErrorListener(s))
<1>1. Kept(Calm(b, f, T, given))
  BY CalmKept
<1> QED BY <1>1, CloseKept, ListenerKept, CloseDrops, ListenerDrops, KeptBase, DropsRest

LEMMA PaysEnqueue ==
    ASSUME NEW s, Pays(s), ~Closed(s), NEW len \in Nat, NEW cb \in Nat
    PROVE  Pays(Enqueue(s, len, cb))
<1>1. PICK from \in Nat, f \in SUBSET Nat, runs \in Nat, sets \in Nat :
        s \in Owing(from, f, runs, sets)
  BY DEF Pays
<1>2. Enqueue(s, len, cb) \in Owing(from, f, runs, sets)
  BY <1>1, EnqueueOwes
<1> QED BY <1>2 DEF Pays

\* A write of the request in progress, its own or that of "100 Continue".
LEMMA WriteCalm ==
    ASSUME NEW b, NEW f, NEW given, NEW s \in Calm(b, f, {}, given), Rests(s), ~Closed(s),
           NEW len \in Nat, NEW cb \in Nat, cb = 0 \/ f <= cb,
           NEW o \in Outcomes(Enqueue(s, len, cb))
    PROVE  LET r == Flush(Enqueue(s, len, cb), o)
           IN  r \in Calm(b, f, {}, given) /\ Rests(r)
<1> DEFINE S == Calm(b, f, {}, given)
           w == s.wq \o Packets(s.written, len)
           end == s.written + len
           e == [s EXCEPT !.wq = w, !.written = end, !.writeCb = cb, !.writeEnd = end]
<1>1. /\ s \in StreamType /\ Pays(s) /\ \A x \in WriteIds(s) : f <= x
      /\ <<s.opened, s.reads, s.writes>> = given
  BY DEF Calm
<1>2. Enqueue(s, len, cb) = e
  BY DEF Enqueue
<1>3. w \in Seq(Nat) /\ end \in Nat
  <2>1. s.written \in Nat /\ s.wq \in Seq(Nat)
    BY <1>1 DEF StreamType
  <2>2. Packets(s.written, len) \in Seq(Nat)
    BY <2>1, PacketsType
  <2> HIDE DEF end
  <2>3. w \in Seq(Nat)
    BY <2>1, <2>2, ConcatProperties
  <2>4. end \in Nat
    BY <2>1 DEF end
  <2> QED BY <2>3, <2>4
<1> HIDE DEF w, end
<1>4. /\ e \in StreamType /\ e.queue = s.queue /\ e.readCb = s.readCb /\ e.writeCb = cb
      /\ <<e.opened, e.reads, e.writes>> = given /\ e.connecting = s.connecting
      /\ Closed(e) = Closed(s)
  BY <1>1, <1>3 DEF StreamType, Closed
<1> HIDE DEF e
<1>5. Pays(e)
  BY <1>1, <1>2, PaysEnqueue
<1>6. e \in S
  <2>1. e.readCb = 0 /\ ReadsAt(e.queue) = {}
    BY <1>4, NoReads
  <2>2. OneRead(e) /\ Clear(e, b) /\ ReadIds(e) \subseteq {}
    BY <2>1 DEF OneRead, Clear, ReadIds
  <2>3. \A x \in WriteIds(e) : f <= x
    BY <1>1, <1>4 DEF WriteIds
  <2> QED BY <1>4, <1>5, <2>2, <2>3 DEF Calm
<1>7. Kept(S) /\ ~e.connecting /\ ~Closed(e) /\ o \in Outcomes(e)
  BY <1>2, <1>4, CalmKept DEF Rests
<1> HIDE DEF S
<1>8. Flush(e, o) \in S /\ Rests(Flush(e, o))
  BY <1>6, <1>7, FlushKept, FlushRests, KeptBase
<1> QED BY <1>2, <1>8 DEF S

-----------------------------------------------------------------------------
\* The next handler is taken from the queue

LEMMA PaysTail ==
    ASSUME NEW s, Pays(s), s.queue # <<>>, NEW r \in StreamType, r.queue = Tail(s.queue),
           r.pending = s.pending - (IF IsRun(Head(s.queue)) THEN 1 ELSE 0),
           ReadSide(r) = ReadSide(s), WriteSide(r) = WriteSide(s), CloseSide(r) = CloseSide(s),
           Given(r) = Given(s), Connects(r) = Connects(s)
    PROVE  Pays(r)
<1> DEFINE h == Head(s.queue)
<1>1. PICK from \in Nat, f \in SUBSET Nat, runs \in Nat, sets \in Nat :
        s \in Owing(from, f, runs, sets)
  BY DEF Pays
<1>2. r \in Owing(Handed(from, h), AnsweredBy(f, h), Closes(runs, h), sets)
  BY <1>1, TailOwes
<1>3. h \in Runs \cup Ended
  BY PaysBase, TailRuns
<1>4. IsRun(h) => h.hi \in Nat /\ h.id \in Nat
  <2>1. \A c \in Ended : ~IsRun(c)
    BY DEF Ended, Completions, IsRun
  <2> HIDE DEF h
  <2> QED BY <1>3, <2>1 DEF Runs
<1> HIDE DEF h
<1>5. Handed(from, h) \in Nat /\ AnsweredBy(f, h) \in SUBSET Nat /\ Closes(runs, h) \in Nat
  BY <1>1, <1>4 DEF Handed, AnsweredBy, Closes, IsData
<1> QED BY <1>2, <1>5 DEF Pays

\* What was in flight stays in flight, but for the handler that is taken.
LEMMA TailCalm ==
    ASSUME NEW b, NEW f, NEW T, NEW given, NEW s \in Calm(b, f, T, given), s.queue # <<>>,
           NEW r \in StreamType, Pays(r), r.queue = Tail(s.queue), r.readCb = s.readCb,
           r.writeCb = s.writeCb, r.wq = s.wq, <<r.opened, r.reads, r.writes>> = given
    PROVE  LET h == Head(s.queue)
           IN  /\ r \in Calm(b, f, T, given)
               /\ IsRun(h) /\ h.run = "write" => f <= h.id
               /\ IsRun(h) /\ h.run = "read" => r \in Calm(b, f, {}, given)
               /\ IsRun(h) /\ h.run = "read" /\ h.id # b =>
                    s.wq = <<>> /\ s.writeCb = 0 /\ \A x : r \in Calm(b, x, {}, given)
<1> DEFINE q == s.queue
           p == Tail(q)
           h == Head(q)
<1>1. /\ Pays(s) /\ OneRead(s) /\ ReadIds(s) \subseteq T /\ Clear(s, b)
      /\ \A w \in WriteIds(s) : f <= w
  BY DEF Calm
<1>2. /\ h = q[1] /\ (1 \in RunsAt(q) <=> IsRun(h))
      /\ RunsAt(q) \subseteq Nat \ {0} /\ RunsAt(p) \subseteq Nat \ {0}
      /\ \A i \in Nat \ {0} : i \in RunsAt(p) <=> i + 1 \in RunsAt(q)
      /\ \A i \in RunsAt(p) : p[i] = q[i + 1]
  BY <1>1, PaysBase, TailRuns
<1> HIDE DEF p, q, h
<1>3. /\ \A i \in ReadsAt(p) : i \in Nat \ {0} /\ i + 1 \in ReadsAt(q) /\ p[i] = q[i + 1]
      /\ \A i \in WritesAt(p) : i \in Nat \ {0} /\ i + 1 \in WritesAt(q) /\ p[i] = q[i + 1]
      /\ ReadsAt(q) \subseteq Nat \ {0} /\ WritesAt(q) \subseteq Nat \ {0}
  BY <1>2 DEF ReadsAt, WritesAt
<1>4. ReadIds(r) \subseteq ReadIds(s) /\ WriteIds(r) \subseteq WriteIds(s)
  <2>1. r.queue = p /\ s.queue = q
    BY DEF p, q
  <2>2. ReadIds(r) \subseteq ReadIds(s)
    <3>1. \A i \in ReadsAt(p) : p[i].id \in {q[j].id : j \in ReadsAt(q)}
      BY <1>3
    <3>2. ASSUME NEW x \in ReadIds(r) PROVE x \in ReadIds(s)
      <4>1. CASE x \in {r.readCb} \ {0}
        BY <4>1 DEF ReadIds
      <4>2. ASSUME NEW i \in ReadsAt(p), x = p[i].id PROVE x \in ReadIds(s)
        <5>1. x \in {q[j].id : j \in ReadsAt(q)}
          BY <3>1, <4>2
        <5> QED BY <5>1 DEF ReadIds, q
      <4> QED BY <4>1, <4>2, <3>2, <2>1 DEF ReadIds
    <3> QED BY <3>2
  <2>3. WriteIds(r) \subseteq WriteIds(s)
    <3>1. \A i \in WritesAt(p) : p[i].id \in {q[j].id : j \in WritesAt(q)}
      BY <1>3
    <3>2. ASSUME NEW x \in WriteIds(r) PROVE x \in WriteIds(s)
      <4>1. CASE x \in {r.writeCb} \ {0}
        BY <4>1 DEF WriteIds
      <4>2. ASSUME NEW i \in WritesAt(p), x = p[i].id PROVE x \in WriteIds(s)
        <5>1. x \in {q[j].id : j \in WritesAt(q)}
          BY <3>1, <4>2
        <5> QED BY <5>1 DEF WriteIds, q
      <4> QED BY <4>1, <4>2, <3>2, <2>1 DEF WriteIds
    <3> QED BY <3>2
  <2> QED BY <2>2, <2>3
<1>5. OneRead(r)
  <2>1. \A i \in ReadsAt(q) : s.readCb = 0 /\ \A j \in ReadsAt(q) : i = j
    BY <1>1 DEF OneRead, q
  <2>2. ASSUME NEW i \in ReadsAt(p) PROVE r.readCb = 0 /\ \A j \in ReadsAt(p) : i = j
    <3>1. \A j \in ReadsAt(p) : i + 1 = j + 1
      BY <1>3, <2>1
    <3> QED BY <1>3, <2>1, <3>1
  <2> QED BY <2>2 DEF OneRead, p, q
<1>6. Clear(r, b)
  <2>1. /\ s.readCb \notin {0, b} => s.wq = <<>> /\ s.writeCb = 0
        /\ \A i \in ReadsAt(q) : q[i].id # b =>
             s.wq = <<>> /\ s.writeCb = 0 /\ \A j \in WritesAt(q) : j < i
    BY <1>1 DEF Clear, q
  <2>2. ASSUME NEW i \in ReadsAt(p), p[i].id # b
        PROVE  r.wq = <<>> /\ r.writeCb = 0 /\ \A j \in WritesAt(p) : j < i
    <3>1. s.wq = <<>> /\ s.writeCb = 0 /\ \A j \in WritesAt(q) : j < i + 1
      BY <1>3, <2>1, <2>2
    <3>2. ASSUME NEW j \in WritesAt(p) PROVE j < i
      <4>1. j + 1 < i + 1
        BY <1>3, <3>1
      <4> QED BY <1>3, <4>1
    <3> QED BY <3>1, <3>2
  <2> QED BY <2>1, <2>2 DEF Clear, p, q
<1>7. r \in Calm(b, f, T, given)
  BY <1>1, <1>4, <1>5, <1>6 DEF Calm
<1>8. ASSUME IsRun(h), h.run = "write" PROVE f <= h.id
  BY <1>1, <1>2, <1>8 DEF WriteIds, WritesAt, q
<1>9. ASSUME IsRun(h), h.run = "read"
      PROVE  1 \in ReadsAt(q) /\ ReadIds(r) = {} /\ r \in Calm(b, f, {}, given)
  <2>1. 1 \in ReadsAt(q)
    BY <1>2, <1>9 DEF ReadsAt
  <2>2. s.readCb = 0 /\ \A j \in ReadsAt(q) : 1 = j
    BY <1>1, <2>1 DEF OneRead, q
  <2>3. ReadsAt(p) = {}
    <3> SUFFICES ASSUME NEW i \in ReadsAt(p) PROVE FALSE
      OBVIOUS
    <3>1. i \in Nat \ {0} /\ i + 1 = 1
      BY <1>3, <2>2
    <3> QED BY <3>1
  <2>4. ReadIds(r) = {}
    BY <2>2, <2>3 DEF ReadIds, p, q
  <2> QED BY <1>7, <2>1, <2>4 DEF Calm
<1>10. ASSUME IsRun(h), h.run = "read", h.id # b
       PROVE  s.wq = <<>> /\ s.writeCb = 0 /\ \A x : r \in Calm(b, x, {}, given)
  <2>1. s.wq = <<>> /\ s.writeCb = 0 /\ \A j \in WritesAt(q) : j < 1
    BY <1>1, <1>2, <1>9, <1>10 DEF Clear, q
  <2>2. WritesAt(p) = {}
    <3> SUFFICES ASSUME NEW i \in WritesAt(p) PROVE FALSE
      OBVIOUS
    <3>1. i \in Nat \ {0} /\ i + 1 < 1
      BY <1>3, <2>1
    <3> QED BY <3>1
  <2>3. WriteIds(r) = {}
    BY <2>1, <2>2 DEF WriteIds, p, q
  <2>4. r \in Calm(b, f, {}, given)
    BY <1>9, <1>10
  <2> QED BY <2>1, <2>3, <2>4 DEF Calm
<1> QED BY <1>7, <1>8, <1>9, <1>10 DEF p, q, h

LEMMA BegunCalm ==
    ASSUME NEW b, NEW f, NEW T, NEW given, stream \in Calm(b, f, T, given), Rests(stream),
           stream.queue # <<>>, IsRun(NextHandler)
    PROVE  /\ Begun \in Calm(b, f, T, given) /\ Rests(Begun) /\ NextHandler \in Runs
           /\ Begun.opened = stream.opened /\ Begun.reads = stream.reads
           /\ Begun.writes = stream.writes
           /\ NextHandler.run = "write" => f <= NextHandler.id
           /\ NextHandler.run = "read" => Begun \in Calm(b, f, {}, given)
           /\ NextHandler.run = "read" /\ NextHandler.id # b =>
                Begun.wq = <<>> /\ Begun.writeCb = 0 /\ \A x : Begun \in Calm(b, x, {}, given)
<1> DEFINE q == Tail(stream.queue)
           left == stream.pending - 1
           r == [stream EXCEPT !.queue = q, !.pending = left]
           h == Head(stream.queue)
<1>1. /\ stream \in StreamType /\ Pays(stream) /\ Base(stream)
      /\ <<stream.opened, stream.reads, stream.writes>> = given
  BY PaysBase DEF Calm
<1>2. q \in Seq(Runs \cup Completions) /\ left \in Int
  BY <1>1 DEF StreamType
<1>3. Begun = r /\ NextHandler = h
  BY <1>1 DEF Begun, Taken, StreamType, NextHandler
<1>4. left = stream.pending - (IF IsRun(h) THEN 1 ELSE 0)
  BY DEF NextHandler
<1>5. h \in Runs
  <2>1. h \in Runs \cup Ended
    BY <1>1, TailRuns
  <2>2. \A c \in Ended : ~IsRun(c)
    BY DEF Ended, Completions, IsRun
  <2> QED BY <1>3, <2>1, <2>2
<1> HIDE DEF left
<1>6. /\ r \in StreamType /\ Given(r) = Given(stream) /\ ReadSide(r) = ReadSide(stream)
      /\ WriteSide(r) = WriteSide(stream) /\ CloseSide(r) = CloseSide(stream)
      /\ r.pending = left /\ r.queue = Tail(stream.queue) /\ Connects(r) = Connects(stream)
      /\ r.connecting = stream.connecting
  <2> HIDE DEF q
  <2>1. /\ r \in StreamType /\ Given(r) = Given(stream) /\ ReadSide(r) = ReadSide(stream)
        /\ WriteSide(r) = WriteSide(stream) /\ CloseSide(r) = CloseSide(stream)
        /\ r.pending = left /\ r.queue = q /\ Connects(r) = Connects(stream)
        /\ r.connecting = stream.connecting
    BY <1>1, <1>2 DEF StreamType, Given, ReadSide, Criteria, WriteSide, CloseSide, Connects
  <2> QED BY <2>1 DEF q
<1> HIDE DEF r, q
<1>7. Pays(r)
  <2> HIDE DEF h
  <2> QED BY <1>1, <1>4, <1>6, PaysTail DEF h
<1>8. /\ r.readCb = stream.readCb /\ r.writeCb = stream.writeCb /\ r.wq = stream.wq
      /\ r.opened = stream.opened /\ r.reads = stream.reads /\ r.writes = stream.writes
  BY <1>6 DEF Given, ReadSide, WriteSide
<1>9. <<r.opened, r.reads, r.writes>> = given
  BY <1>1, <1>8
<1>10. Rests(r)
  BY <1>6, <1>8 DEF Rests
<1> QED BY <1>3, <1>5, <1>6, <1>7, <1>8, <1>9, <1>10, TailCalm

LEMMA TakenCalm ==
    ASSUME NEW b, NEW f, NEW T, NEW given, stream \in Calm(b, f, T, given), Rests(stream),
           stream.queue # <<>>, ~IsRun(NextHandler)
    PROVE  Taken \in Calm(b, f, T, given) /\ Rests(Taken) /\ Taken.closed = stream.closed
<1> DEFINE q == Tail(stream.queue)
           r == [stream EXCEPT !.queue = q]
           h == Head(stream.queue)
<1>1. /\ stream \in StreamType /\ Pays(stream) /\ Base(stream)
      /\ <<stream.opened, stream.reads, stream.writes>> = given
  BY PaysBase DEF Calm
<1>2. q \in Seq(Runs \cup Completions)
  BY <1>1 DEF StreamType
<1>3. Taken = r /\ NextHandler = h
  BY DEF Taken, NextHandler
<1>4. stream.pending = stream.pending - (IF IsRun(h) THEN 1 ELSE 0)
  BY <1>1 DEF NextHandler, StreamType
<1>6. /\ r \in StreamType /\ Given(r) = Given(stream) /\ ReadSide(r) = ReadSide(stream)
      /\ WriteSide(r) = WriteSide(stream) /\ CloseSide(r) = CloseSide(stream)
      /\ r.pending = stream.pending /\ r.queue = Tail(stream.queue)
      /\ Connects(r) = Connects(stream) /\ r.connecting = stream.connecting
      /\ r.closed = stream.closed
  <2> HIDE DEF q
  <2>1. /\ r \in StreamType /\ Given(r) = Given(stream) /\ ReadSide(r) = ReadSide(stream)
        /\ WriteSide(r) = WriteSide(stream) /\ CloseSide(r) = CloseSide(stream)
        /\ r.pending = stream.pending /\ r.queue = q /\ Connects(r) = Connects(stream)
        /\ r.connecting = stream.connecting /\ r.closed = stream.closed
    BY <1>1, <1>2 DEF StreamType, Given, ReadSide, Criteria, WriteSide, CloseSide, Connects
  <2> QED BY <2>1 DEF q
<1> HIDE DEF r, q
<1>7. Pays(r)
  <2> HIDE DEF h
  <2> QED BY <1>1, <1>4, <1>6, PaysTail DEF h
<1>8. /\ r.readCb = stream.readCb /\ r.writeCb = stream.writeCb /\ r.wq = stream.wq
      /\ r.opened = stream.opened /\ r.reads = stream.reads /\ r.writes = stream.writes
  BY <1>6 DEF Given, ReadSide, WriteSide
<1>9. <<r.opened, r.reads, r.writes>> = given
  BY <1>1, <1>8
<1>10. Rests(r)
  BY <1>6, <1>8 DEF Rests
<1> QED BY <1>1, <1>3, <1>6, <1>7, <1>8, <1>9, <1>10, TailCalm

-----------------------------------------------------------------------------
\* The inductive invariant

\* The members of the connection that a stream call does not touch.
Role(c) == <<c.id, c.open, c.finished, c.body, c.first, c.gone>>

\* A request is with the application, finished but not yet left, or there is none.
OnePhase(c) == ~(c.open /\ c.finished) /\ (c.gone => ~c.open /\ ~c.finished)

\* While it is there, and once it was the last, no read is in flight.
Engaged(c) == c.open \/ c.finished \/ c.gone

Orderly(s, c, r) ==
    /\ c \in Connections /\ r \in Runs \cup {Idle}
    /\ s \in Calm(c.body, c.first, ReadIds(s), <<s.opened, s.reads, s.writes>>)
    /\ Rests(s)
    /\ c.first <= s.writes + 1
    /\ r.run = "write" => c.first <= r.id
    /\ OnePhase(c)
    /\ Engaged(c) => ReadIds(s) = {}
    /\ s.opened \/ (s = Fresh /\ r = Idle /\ ~Engaged(c))

HInv == Orderly(stream, conn, running)

LEMMA SettleKeeps ==
    ASSUME NEW c \in Connections, NEW s
    PROVE  Settle(c, s) \in Connections /\ Role(Settle(c, s)) = Role(c)
BY DEF Settle, Connections, Role

\* Where a step ends.
LEMMA Serves ==
    ASSUME NEW c \in Connections, NEW T, NEW n, NEW m \in Nat,
           NEW s \in Calm(c.body, c.first, T, <<TRUE, n, m>>), Rests(s),
           NEW r \in Runs \cup {Idle}, c.first <= m + 1, r.run = "write" => c.first <= r.id,
           OnePhase(c), Engaged(c) => T = {}, NEW d \in Connections, Role(d) = Role(c)
    PROVE  Orderly(s, d, r)
<1>1. d.open = c.open /\ d.finished = c.finished /\ d.body = c.body /\ d.first = c.first
      /\ d.gone = c.gone
  BY DEF Role
<1>2. ReadIds(s) \subseteq T /\ s.opened = TRUE /\ s.reads = n /\ s.writes = m
  BY DEF Calm
<1>3. s \in Calm(d.body, d.first, ReadIds(s), <<s.opened, s.reads, s.writes>>)
  BY <1>1 DEF Calm
<1>4. OnePhase(d) /\ (Engaged(d) => ReadIds(s) = {})
  BY <1>1, <1>2 DEF OnePhase, Engaged
<1> QED BY <1>1, <1>2, <1>3, <1>4 DEF Orderly

\* A step of the stream alone.
LEMMA StreamStep ==
    ASSUME HInv, stream.opened, NEW s, Rests(s),
           s \in Calm(conn.body, conn.first, ReadIds(stream),
                      <<stream.opened, stream.reads, stream.writes>>),
           NEW d \in Connections, Role(d) = Role(conn)
    PROVE  Orderly(s, d, running) /\ Orderly(s, d, Idle)
<1>1. /\ conn \in Connections /\ running \in Runs \cup {Idle} /\ stream \in StreamType
      /\ conn.first <= stream.writes + 1 /\ (running.run = "write" => conn.first <= running.id)
      /\ OnePhase(conn) /\ (Engaged(conn) => ReadIds(stream) = {})
  BY DEF HInv, Orderly, Calm
<1>2. stream.opened = TRUE /\ stream.writes \in Nat
  BY <1>1 DEF StreamType
<1>3. Idle.run # "write"
  BY DEF Idle
<1> QED BY <1>1, <1>2, <1>3, Serves

\* What HInv says of the state a step starts from.
LEMMA Starts ==
    ASSUME HInv
    PROVE  /\ conn \in Connections /\ running \in Runs \cup {Idle} /\ stream \in StreamType
           /\ stream \in Calm(conn.body, conn.first, ReadIds(stream),
                              <<stream.opened, stream.reads, stream.writes>>)
           /\ Rests(stream) /\ Pays(stream) /\ Base(stream)
           /\ conn.first <= stream.writes + 1 /\ stream.writes \in Nat /\ stream.reads \in Nat
           /\ (running.run = "write" => conn.first <= running.id)
           /\ OnePhase(conn) /\ (Engaged(conn) => ReadIds(stream) = {})
<1>1. stream \in StreamType /\ Pays(stream)
  BY DEF HInv, Orderly, Calm
<1>2. Base(stream)
  BY <1>1, PaysBase
<1>3. stream.writes \in Nat /\ stream.reads \in Nat
  BY <1>1 DEF StreamType
<1> QED BY <1>1, <1>2, <1>3 DEF HInv, Orderly

\* A stream that is not open does nothing.
LEMMA OpenedSteps ==
    ASSUME HInv, running # Idle \/ conn.open \/ conn.finished \/ stream.queue # <<>>
                 \/ stream.kernel # {}
    PROVE  stream.opened
BY DEF HInv, Orderly, Engaged, Fresh

-----------------------------------------------------------------------------
\* The steps

LEMMA InitServes == ServerInit => HInv
<1> SUFFICES ASSUME ServerInit PROVE HInv
  OBVIOUS
<1>1. OInv /\ stream = Fresh /\ running = Idle
  BY InitOwes DEF ServerInit, Init
<1>2. Pays(stream) /\ stream \in StreamType
  <2>1. stream \in Due /\ handed \in Nat /\ closeRuns \in Nat /\ closeSets \in Nat
        /\ stream \in StreamType
    BY <1>1, InvDue
  <2>2. finished \in SUBSET Nat
    BY <1>1 DEF OInv, IInv
  <2> QED BY <2>1, <2>2 DEF Due, Pays
<1>3. /\ stream.readCb = 0 /\ stream.writeCb = 0 /\ stream.wq = <<>> /\ stream.queue = <<>>
      /\ ~stream.connecting /\ stream.writes = 0
  BY <1>1 DEF Fresh
<1>4. RunsAt(stream.queue) = {}
  <2>1. DOMAIN <<>> = {}
    OBVIOUS
  <2> QED BY <1>3, <2>1 DEF RunsAt
<1>5. ReadsAt(stream.queue) = {} /\ WritesAt(stream.queue) = {}
  BY <1>4 DEF ReadsAt, WritesAt
<1>6. ReadIds(stream) = {} /\ WriteIds(stream) = {} /\ OneRead(stream)
      /\ Clear(stream, conn.body) /\ Rests(stream)
  BY <1>3, <1>5 DEF ReadIds, WriteIds, OneRead, Clear, Rests
<1>7. /\ conn \in Connections /\ conn.first = 0 /\ ~conn.open /\ ~conn.finished /\ ~conn.gone
  BY DEF ServerInit, Connections
<1>8. Idle.run # "write"
  BY DEF Idle
<1>9. stream \in Calm(conn.body, conn.first, ReadIds(stream),
                      <<stream.opened, stream.reads, stream.writes>>)
  BY <1>2, <1>6 DEF Calm
<1>10. conn.first <= stream.writes + 1
  BY <1>3, <1>7
<1> QED BY <1>1, <1>6, <1>7, <1>8, <1>9, <1>10 DEF HInv, Orderly, OnePhase, Engaged

LEMMA PaysCloseCallback ==
    ASSUME NEW s, Pays(s)
    PROVE  Pays([s EXCEPT !.closeCb = TRUE])
<1>1. PICK from \in Nat, f \in SUBSET Nat, runs \in Nat, sets \in Nat :
        s \in Owing(from, f, runs, sets)
  BY DEF Pays
<1> DEFINE r == [s EXCEPT !.closeCb = TRUE]
<1>2. r \in Owing(from, f, runs, sets + 1)
  BY <1>1, CloseCallbackOwes
<1> HIDE DEF r
<1>3. sets + 1 \in Nat
  BY <1>1
<1>4. Pays(r)
  BY <1>1, <1>2, <1>3 DEF Pays
<1> QED BY <1>4 DEF r

LEMMA PaysOpened ==
    ASSUME NEW s, Pays(s), NEW r \in StreamType, ReadSide(r) = ReadSide(s),
           WriteSide(r) = WriteSide(s), CloseSide(r) = CloseSide(s), r.queue = s.queue,
           r.pending = s.pending, r.reads = s.reads, r.written = s.written,
           r.writeEnd = s.writeEnd, Connects(r) = Connects(s)
    PROVE  Pays(r)
<1>1. PICK from \in Nat, f \in SUBSET Nat, runs \in Nat, sets \in Nat :
        s \in Owing(from, f, runs, sets)
  BY DEF Pays
<1>2. r \in Owing(from, f, runs, sets)
  BY <1>1, OpenedOwes
<1> QED BY <1>2 DEF Pays

\* The connection starts: nothing is in flight, and it reads.
LEMMA AcceptServes ==
    ASSUME HInv, Accept
    PROVE  HInv'
<1> DEFINE b == conn.body
           f == conn.first
           o == [stream EXCEPT !.opened = TRUE]
           l == MaybeAddErrorListener(o)
           c == [l EXCEPT !.closeCb = TRUE]
<1>1. /\ stream = Fresh /\ running = Idle /\ ~Engaged(conn) /\ stream \in StreamType
      /\ conn \in Connections /\ OnePhase(conn) /\ f <= stream.writes + 1
      /\ stream \in Calm(b, f, ReadIds(stream), <<stream.opened, stream.reads, stream.writes>>)
      /\ Rests(stream) /\ Pays(stream)
  BY Starts DEF HInv, Orderly, Accept
<1>2. stream.readCb = 0 /\ stream.writeCb = 0 /\ stream.wq = <<>> /\ stream.writes = 0
      /\ stream.queue = <<>> /\ stream.reads = 0
  BY <1>1 DEF Fresh
<1>3. ReadIds(stream) = {}
  <2>1. DOMAIN <<>> = {}
    OBVIOUS
  <2>2. ReadsAt(stream.queue) = {}
    BY <1>2, <2>1 DEF ReadsAt, RunsAt
  <2> QED BY <1>2, <2>2 DEF ReadIds
<1>4. stream' = ReadHeaders(c) /\ running' = running /\ conn' = conn
  BY DEF Accept
<1>5. /\ o \in StreamType /\ ReadSide(o) = ReadSide(stream) /\ WriteSide(o) = WriteSide(stream)
      /\ CloseSide(o) = CloseSide(stream) /\ o.queue = stream.queue
      /\ o.pending = stream.pending /\ o.reads = stream.reads /\ o.written = stream.written
      /\ o.writeEnd = stream.writeEnd /\ Connects(o) = Connects(stream)
      /\ o.opened = TRUE /\ o.writes = stream.writes /\ o.connecting = stream.connecting
  BY <1>1, ZenonT(30) DEF StreamType, ReadSide, Criteria, WriteSide, CloseSide, Connects
<1> HIDE DEF o
<1>6. Pays(o)
  BY <1>1, <1>5, PaysOpened
<1>7. o.readCb = stream.readCb /\ o.writeCb = stream.writeCb /\ o.wq = stream.wq
  BY <1>5 DEF ReadSide, WriteSide
<1>8. o \in Calm(b, f, {}, <<TRUE, 0, 0>>) /\ Rests(o)
  <2>1. o \in Calm(b, f, {}, <<o.opened, o.reads, o.writes>>)
    BY <1>1, <1>3, <1>5, <1>6, <1>7, CalmSame
  <2> QED BY <1>1, <1>2, <1>5, <1>7, <2>1 DEF Rests
<1>9. l \in Calm(b, f, {}, <<TRUE, 0, 0>>) /\ Rests(l) /\ l.wq = <<>> /\ l.writeCb = 0
  <2>1. Sound(o)
    BY <1>6, PaysBase
  <2>2. Withholds(o, l)
    BY <2>1, ListenerDrops
  <2>3. l \in Calm(b, f, {}, <<TRUE, 0, 0>>) /\ Rests(l)
    BY <1>8, CloseCalm
  <2> HIDE DEF l
  <2> QED BY <1>2, <1>7, <2>2, <2>3 DEF Withholds
<1> HIDE DEF l
<1>10. l \in StreamType /\ Pays(l) /\ l.opened = TRUE /\ l.reads = 0 /\ l.writes = 0
  BY <1>9 DEF Calm
<1>11. /\ c \in StreamType /\ c.queue = l.queue /\ c.readCb = l.readCb /\ c.writeCb = l.writeCb
       /\ c.wq = l.wq /\ c.opened = l.opened /\ c.reads = l.reads /\ c.writes = l.writes
       /\ c.connecting = l.connecting
  BY <1>10 DEF StreamType
<1>12. Pays(c)
  BY <1>10, PaysCloseCallback
<1> HIDE DEF c
<1>13. c \in Calm(b, f, {}, <<TRUE, 0, 0>>) /\ Rests(c) /\ c.wq = <<>> /\ c.writeCb = 0
  <2>1. c \in Calm(b, f, {}, <<c.opened, c.reads, c.writes>>)
    BY <1>9, <1>11, <1>12, CalmSame
  <2> QED BY <1>9, <1>10, <1>11, <2>1 DEF Rests
<1>14. ReadHeaders(c) \in Calm(b, f, {c.reads + 1}, <<c.opened, c.reads + 1, c.writes>>)
       /\ Rests(ReadHeaders(c))
  BY <1>13, ReadHeadersCalm
<1>15. ReadHeaders(c) \in Calm(b, f, {c.reads + 1}, <<TRUE, c.reads + 1, 0>>)
  BY <1>10, <1>11, <1>14
<1>16. f <= 0 + 1 /\ 0 \in Nat /\ running.run # "write" /\ running \in Runs \cup {Idle}
  BY <1>1, <1>2 DEF Idle
<1>17. Orderly(stream', conn', running')
  BY <1>1, <1>4, <1>14, <1>15, <1>16, Serves
<1> QED BY <1>17 DEF HInv

LEMMA HandleCompletionServes ==
    ASSUME HInv, HandleCompletion, conn' = Settle(conn, stream')
    PROVE  HInv'
<1> DEFINE T == ReadIds(stream)
           S == Calm(conn.body, conn.first, T, <<stream.opened, stream.reads, stream.writes>>)
           s == Taken
           h == NextHandler
<1>1. /\ stream.queue # <<>> /\ ~IsRun(h) /\ running' = running /\ stream \in S
      /\ Rests(stream) /\ Base(stream) /\ stream.opened /\ conn \in Connections
  BY Starts, OpenedSteps DEF HandleCompletion, Dispatches
<1>2. s \in S /\ Rests(s) /\ s.closed = stream.closed /\ Kept(S)
  BY <1>1, TakenCalm, CalmKept
<1>3. h \in Runs \cup Ended /\ (~stream.closed => h \in Live)
  <2>1. stream.queue \in Seq(Runs \cup Ended) /\ (~stream.closed => stream.queue \in Seq(Live))
    BY <1>1 DEF Base, Sound
  <2>2. \A Z : \A z \in Seq(Z) : z # <<>> => Head(z) \in Z
    OBVIOUS
  <2> QED BY <1>1, <2>1, <2>2 DEF NextHandler
<1>4. /\ h \in Completions /\ (h.res = "overflow" => h.op = "read")
      /\ h \in Live => h.res # "aborted"
  <2>1. \A x \in Runs : IsRun(x)
    BY DEF Runs, IsRun
  <2> QED BY <1>1, <1>3, <2>1 DEF Ended, Live
<1>5. /\ h.op \in Operations /\ h.res \in Results /\ h.n \in Nat
      /\ h.res = "aborted" => s.closed
      /\ h.op # "read" => h.res \in {"ok", "error"} \/ s.closed
  BY <1>2, <1>3, <1>4 DEF Completions, Results
<1>6. /\ h.op = "read"      => stream' = OnRead(s, h.res, h.n)
      /\ h.op = "connect"   => \E o \in Outcomes(s) : stream' = OnConnect(s, h.res, o)
      /\ h.op = "handshake" => stream' = OnHandshake(s, h.res)
      /\ h.op = "shutdown"  => stream' = OnShutdown(s)
      /\ h.op = "write"     =>
           \E o \in Outcomes(TakeFront(s, h.n)) : stream' = OnWrite(s, h.res, h.n, o)
  BY <1>5 DEF HandleCompletion, Operations
<1> HIDE DEF s, h, S
<1>7. stream' \in S /\ Rests(stream')
  <2>1. CASE h.op = "read"
    BY <1>2, <1>5, <1>6, <2>1, OnReadKept, OnReadDrops, KeptBase, DropsRest
  <2>2. CASE h.op = "connect"
    BY <1>2, <1>5, <1>6, <2>2, OnConnectKept, OnConnectRests
  <2>3. CASE h.op = "handshake"
    BY <1>2, <1>6, <2>3, OnHandshakeKept, OnHandshakeRests
  <2>4. CASE h.op = "shutdown"
    BY <1>2, <1>6, <2>4, OnShutdownKept, OnShutdownRests, KeptBase
  <2>5. CASE h.op = "write"
    BY <1>2, <1>5, <1>6, <2>5, OnWriteKept, OnWriteRests
  <2> QED BY <1>5, <2>1, <2>2, <2>3, <2>4, <2>5 DEF Operations
<1>8. conn' \in Connections /\ Role(conn') = Role(conn)
  BY <1>1, SettleKeeps
<1>9. Orderly(stream', conn', running')
  BY <1>1, <1>7, <1>8, StreamStep DEF S
<1> QED BY <1>9 DEF HInv

LEMMA CompleteServes ==
    ASSUME HInv, NEW op \in Operations, ServerComplete(op)
    PROVE  HInv'
<1> DEFINE S == Calm(conn.body, conn.first, ReadIds(stream),
                     <<stream.opened, stream.reads, stream.writes>>)
<1>1. /\ stream \in S /\ Kept(S) /\ stream \in StreamType /\ Base(stream) /\ Rests(stream)
      /\ conn \in Connections
  BY Starts, CalmKept
<1>2. PICK res \in Results \ {"aborted"}, n \in 0..MaxBytes + MaxLength * MaxWrites :
        /\ CASE op = "read" /\ res # "error"  -> n \in 1..(MaxBytes - stream.received)
             [] op = "write" /\ res = "ok"    -> n \in 1..(Front - stream.sent)
             [] OTHER                          -> n = 0 /\ res # "overflow"
        /\ stream' = [stream EXCEPT !.kernel = @ \ {op},
                          !.queue = Append(@, [op |-> op, res |-> res, n |-> n])]
  BY DEF ServerComplete, Complete
<1> DEFINE h == [op |-> op, res |-> res, n |-> n]
           q == Append(stream.queue, h)
           k == stream.kernel \ {op}
           r == [stream EXCEPT !.kernel = k, !.queue = q]
<1>3. n \in Nat
  BY <1>2, BoundsAssumption
<1>4. op # "read" => res # "overflow"
  BY <1>2
<1>5. h \in Ended /\ h \in Live /\ h \in Runs \cup Completions
  BY <1>2, <1>3, <1>4 DEF Ended, Live, Completions
<1>6. stream' = r /\ op \in stream.kernel /\ conn' = conn /\ running' = running
  BY <1>2 DEF ServerComplete, Complete
<1> HIDE DEF h, S
<1>7. /\ q \in Seq(Runs \cup Completions) /\ q \in Seq(Runs \cup Ended)
      /\ ~stream.closed => q \in Seq(Live)
      /\ \E x \in Seq(Ended) : q = stream.queue \o x
  <2>1. <<h>> \in Seq(Ended) /\ q = stream.queue \o <<h>>
    BY <1>1, <1>5 DEF Base
  <2>2. \A Z : \A z \in Seq(Z) : h \in Z => Append(z, h) \in Seq(Z)
    OBVIOUS
  <2>3. stream.queue \in Seq(Runs \cup Completions) /\ (~stream.closed => stream.queue \in Seq(Live))
    BY <1>1 DEF Base, Sound, StreamType
  <2> QED BY <1>1, <1>5, <2>1, <2>2, <2>3 DEF Base
<1>8. k \in SUBSET Operations
  BY <1>1 DEF StreamType
<1> HIDE DEF q, k
<1>9. /\ r \in StreamType /\ Given(r) = Given(stream) /\ ReadSide(r) = ReadSide(stream)
      /\ WriteSide(r) = WriteSide(stream) /\ CloseSide(r) = CloseSide(stream)
      /\ r.pending = stream.pending /\ r.queue = q /\ Connects(r) = Connects(stream)
      /\ r.connecting = stream.connecting
  BY <1>1, <1>7, <1>8 DEF StreamType, Given, ReadSide, Criteria, WriteSide, CloseSide, Connects
<1> HIDE DEF r
<1>10. Waits(stream, r) /\ Base(r)
  BY <1>1, <1>7, <1>9, GivenWaits DEF Waits, CloseSide, Closed, Base, Sound
<1>11. r \in S
  BY <1>1, <1>10, KeptBy DEF Move
<1>12. Rests(r)
  BY <1>1, <1>9 DEF Rests, WriteSide
<1>13. stream.opened
  BY <1>6, OpenedSteps
<1>14. Orderly(r, conn, running)
  BY <1>1, <1>11, <1>12, <1>13, StreamStep DEF S
<1> QED BY <1>6, <1>14 DEF HInv

\* A handler begins: what it starts from.
LEMMA Begins ==
    ASSUME HInv, NEW run, Runs1(run)
    PROVE  LET given == <<TRUE, stream.reads, stream.writes>>
               T == ReadIds(stream)
           IN  /\ Begun \in Calm(conn.body, conn.first, T, given) /\ Rests(Begun)
               /\ NextHandler \in Runs /\ NextHandler.run = run /\ running = Idle
               /\ Begun.reads = stream.reads /\ Begun.writes = stream.writes
               /\ Begun.opened = TRUE
               /\ run = "write" => conn.first <= NextHandler.id
               /\ run = "read" => Begun \in Calm(conn.body, conn.first, {}, given)
               /\ run = "read" => ~Engaged(conn)
               /\ run = "read" /\ NextHandler.id # conn.body =>
                    /\ Begun.wq = <<>> /\ Begun.writeCb = 0
                    /\ \A x : Begun \in Calm(conn.body, x, {}, given)
<1>1. stream.queue # <<>> /\ IsRun(NextHandler) /\ NextHandler.run = run /\ running = Idle
  BY DEF Runs1, Dispatches
<1>2. stream.opened = TRUE
  BY <1>1, OpenedSteps, Starts DEF StreamType
<1>3. stream \in Calm(conn.body, conn.first, ReadIds(stream),
                      <<TRUE, stream.reads, stream.writes>>)
      /\ Rests(stream) /\ Base(stream) /\ (Engaged(conn) => ReadIds(stream) = {})
  BY <1>2, Starts
<1>4. ASSUME run = "read" PROVE ~Engaged(conn)
  <2>1. Head(stream.queue) = stream.queue[1]
        /\ (1 \in RunsAt(stream.queue) <=> IsRun(Head(stream.queue)))
    BY <1>1, <1>3, TailRuns
  <2>2. 1 \in ReadsAt(stream.queue)
    BY <1>1, <1>4, <2>1 DEF ReadsAt, NextHandler
  <2>3. ReadIds(stream) # {}
    BY <2>2 DEF ReadIds
  <2> QED BY <1>3, <2>3
<1> QED BY <1>1, <1>2, <1>3, <1>4, BegunCalm

\* The handler throws: the stream closes.
LEMMA EscapesServes ==
    ASSUME NEW c \in Connections, NEW T, NEW n, NEW m \in Nat, NEW s,
           s \in Calm(c.body, c.first, T, <<TRUE, n, m>>), Rests(s), c.first <= m + 1,
           OnePhase(c), Engaged(c) => T = {}, Escapes(s, c)
    PROVE  HInv'
<1>1. Close(s) \in Calm(c.body, c.first, T, <<TRUE, n, m>>) /\ Rests(Close(s))
  BY CloseCalm
<1>2. stream' = Close(s) /\ conn' = Settle(c, stream') /\ running' = Idle
  BY DEF Escapes
<1>3. conn' \in Connections /\ Role(conn') = Role(c) /\ Idle.run # "write"
  BY <1>2, SettleKeeps DEF Idle
<1>4. Orderly(Close(s), conn', Idle)
  BY <1>1, <1>3, Serves
<1> QED BY <1>2, <1>4 DEF HInv

\* The handler goes on to the application or to the end.
LEMMA RunsOn ==
    ASSUME NEW c \in Connections, NEW T, NEW n, NEW m \in Nat, NEW s,
           s \in Calm(c.body, c.first, T, <<TRUE, n, m>>), Rests(s), c.first <= m + 1,
           OnePhase(c), Engaged(c) => T = {}, NextHandler \in Runs,
           NextHandler.run = "write" => c.first <= NextHandler.id,
           stream' = s, conn' = Settle(c, stream'), running' = NextHandler
    PROVE  HInv'
<1>1. conn' \in Connections /\ Role(conn') = Role(c)
  BY SettleKeeps
<1>2. Orderly(s, conn', NextHandler)
  BY <1>1, Serves
<1> QED BY <1>2 DEF HInv

\* readBytes at the end of onHeaders: the read of the body is the only one.
LEMMA AskForBodyServes ==
    ASSUME NEW s, NEW c \in Connections, NEW b, NEW n \in Nat, NEW m \in Nat,
           s \in Calm(b, c.first, {}, <<TRUE, n, m>>), Rests(s),
           c.body = n + 1, c.first <= m + 1, ~Engaged(c),
           NEW len \in Nat, AskForBody(s, c, len),
           NextHandler \in Runs, NextHandler.run = "read"
    PROVE  HInv'
<1> DEFINE x == ReadBody(s, len)
<1>1. s.opened = TRUE /\ s.reads = n /\ s.writes = m
  BY DEF Calm
<1>2. x \in Calm(c.body, c.first, {n + 1}, <<TRUE, n + 1, m>>) /\ Rests(x)
  <2>1. /\ x \in Calm(s.reads + 1, c.first, {s.reads + 1}, <<s.opened, s.reads + 1, s.writes>>)
        /\ Rests(x)
    BY ReadBodyCalm
  <2> HIDE DEF x
  <2> QED BY <1>1, <2>1
<1>3. OnePhase(c)
  BY DEF OnePhase, Engaged
<1>4. \/ Escapes(x, c)
      \/ stream' = x /\ conn' = Settle(c, stream') /\ running' = NextHandler
  BY DEF AskForBody
<1> HIDE DEF x
<1>5. CASE Escapes(x, c)
  BY <1>2, <1>3, <1>5, EscapesServes
<1>6. CASE stream' = x /\ conn' = Settle(c, stream') /\ running' = NextHandler
  BY <1>2, <1>3, <1>6, RunsOn
<1> QED BY <1>4, <1>5, <1>6

LEMMA ParsedIs ==
    ASSUME conn \in Connections, stream.writes \in Nat, NEW last \in BOOLEAN
    PROVE  LET c == Parsed(conn, last)
           IN  /\ c \in Connections /\ c.id = conn.id + 1 /\ c.open = conn.open
               /\ c.finished = conn.finished /\ c.gone = conn.gone /\ c.body = conn.body
               /\ c.first = stream.writes + 1
<1> DEFINE i == conn.id + 1
           f == stream.writes + 1
<1>1. i \in Nat /\ f \in Nat
  BY DEF Connections
<1>2. Parsed(conn, last) = [conn EXCEPT !.id = i, !.held = TRUE, !.last = last,
                                        !.wrote = FALSE, !.first = f]
  BY DEF Parsed
<1> HIDE DEF i, f
<1>3. LET c == [conn EXCEPT !.id = i, !.held = TRUE, !.last = last, !.wrote = FALSE, !.first = f]
      IN  /\ c \in Connections /\ c.id = i /\ c.open = conn.open
          /\ c.finished = conn.finished /\ c.gone = conn.gone /\ c.body = conn.body
          /\ c.first = f
  BY <1>1 DEF Connections
<1> QED BY <1>2, <1>3 DEF i, f

LEMMA HandOverIs ==
    ASSUME NEW c \in Connections
    PROVE  LET d == HandOver(c)
           IN  /\ d \in Connections /\ d.id = c.id /\ d.open /\ d.finished = c.finished
               /\ d.gone = c.gone /\ d.body = c.body /\ d.first = c.first
BY DEF HandOver, Connections

LEMMA ClearRequestStateIs ==
    ASSUME NEW c \in Connections
    PROVE  LET d == ClearRequestState(c)
           IN  /\ d \in Connections /\ d.id = c.id /\ d.open = c.open /\ ~d.finished
               /\ d.gone = c.gone /\ d.body = c.body /\ d.first = c.first
BY DEF ClearRequestState, Connections

\* A header block has arrived: nothing of the request before it is in flight.
LEMMA RunHeadersServes ==
    ASSUME HInv, RunHeaders
    PROVE  HInv'
<1> DEFINE n == stream.reads
           m == stream.writes
           s == Begun
           given == <<TRUE, n, m>>
<1>1. /\ s \in Calm(conn.body, conn.first, {}, given) /\ Rests(s)
      /\ NextHandler \in Runs /\ NextHandler.run = "read" /\ ~Engaged(conn)
      /\ \A x : s \in Calm(conn.body, x, {}, given)
      /\ conn \in Connections /\ conn.first <= m + 1 /\ m \in Nat /\ n \in Nat
  BY Begins, Starts DEF RunHeaders
<1>2. \/ /\ stream' = Close(s)
         /\ conn' = Settle(ClearRequestState(conn), stream')
         /\ running' = NextHandler
      \/ \E last \in BOOLEAN : Escapes(s, Parsed(conn, last))
      \/ \E last \in BOOLEAN :
           /\ stream' = s
           /\ conn' = Settle(HandOver(Parsed(conn, last)), stream')
           /\ running' = NextHandler
      \/ \E last \in BOOLEAN, expect \in {FALSE, Expects}, len \in ContentLengths :
           LET c == [Parsed(conn, last) EXCEPT !.body = n + 1]
               t == Enqueue(s, 1, 0)
           IN  \/ ~expect /\ AskForBody(s, c, len)
               \/ expect /\ Closed(s) /\ Escapes(s, c)
               \/ /\ expect /\ ~Closed(s)
                  /\ \E o \in Outcomes(t) : AskForBody(Flush(t, o), c, len)
  BY DEF RunHeaders
<1> HIDE DEF s
<1>3. CASE /\ stream' = Close(s)
           /\ conn' = Settle(ClearRequestState(conn), stream')
           /\ running' = NextHandler
  <2> DEFINE c == ClearRequestState(conn)
  <2>1. /\ c \in Connections /\ c.open = conn.open /\ ~c.finished
        /\ c.gone = conn.gone /\ c.body = conn.body /\ c.first = conn.first
    BY <1>1, ClearRequestStateIs
  <2> HIDE DEF c
  <2>2. OnePhase(c) /\ ~Engaged(c)
    BY <1>1, <2>1 DEF OnePhase, Engaged
  <2>3. Close(s) \in Calm(c.body, c.first, {}, given) /\ Rests(Close(s))
    BY <1>1, <2>1, CloseCalm
  <2>4. conn' = Settle(c, stream')
    BY <1>3 DEF c
  <2> QED BY <1>1, <1>3, <2>1, <2>2, <2>3, <2>4, RunsOn
<1>4. ASSUME NEW last \in BOOLEAN, Escapes(s, Parsed(conn, last))
      PROVE  HInv'
  <2> DEFINE c == Parsed(conn, last)
  <2>1. /\ c \in Connections /\ c.open = conn.open /\ c.finished = conn.finished
        /\ c.gone = conn.gone /\ c.body = conn.body /\ c.first = m + 1
    BY <1>1, ParsedIs
  <2>2. Escapes(s, c)
    BY <1>4
  <2> HIDE DEF c
  <2>3. OnePhase(c) /\ ~Engaged(c)
    BY <1>1, <2>1 DEF OnePhase, Engaged
  <2>4. s \in Calm(c.body, c.first, {}, given) /\ c.first <= m + 1
    <3>1. m + 1 <= m + 1
      BY <1>1
    <3>2. s \in Calm(conn.body, m + 1, {}, given)
      BY <1>1
    <3> QED BY <2>1, <3>1, <3>2
  <2> QED BY <1>1, <2>1, <2>2, <2>3, <2>4, EscapesServes
<1>5. ASSUME NEW last \in BOOLEAN, stream' = s,
             conn' = Settle(HandOver(Parsed(conn, last)), stream'), running' = NextHandler
      PROVE  HInv'
  <2> DEFINE c == Parsed(conn, last)
             d == HandOver(c)
  <2>1. /\ c \in Connections /\ c.open = conn.open /\ c.finished = conn.finished
        /\ c.gone = conn.gone /\ c.body = conn.body /\ c.first = m + 1
    BY <1>1, ParsedIs
  <2>2. conn' = Settle(d, stream')
    BY <1>5
  <2> HIDE DEF c
  <2>3. /\ d \in Connections /\ d.open /\ d.finished = c.finished
        /\ d.gone = c.gone /\ d.body = c.body /\ d.first = c.first
    BY <2>1, HandOverIs
  <2> HIDE DEF d
  <2>4. OnePhase(d)
    BY <1>1, <2>1, <2>3 DEF OnePhase, Engaged
  <2>5. s \in Calm(d.body, d.first, {}, given) /\ d.first <= m + 1
    <3>1. m + 1 <= m + 1
      BY <1>1
    <3>2. s \in Calm(conn.body, m + 1, {}, given)
      BY <1>1
    <3> QED BY <2>1, <2>3, <3>1, <3>2
  <2> QED BY <1>1, <1>5, <2>2, <2>3, <2>4, <2>5, RunsOn
<1>6. ASSUME NEW last \in BOOLEAN, NEW expect \in {FALSE, Expects}, NEW len \in ContentLengths,
             LET c == [Parsed(conn, last) EXCEPT !.body = n + 1]
                 t == Enqueue(s, 1, 0)
             IN  \/ ~expect /\ AskForBody(s, c, len)
                 \/ expect /\ Closed(s) /\ Escapes(s, c)
                 \/ /\ expect /\ ~Closed(s)
                    /\ \E o \in Outcomes(t) : AskForBody(Flush(t, o), c, len)
      PROVE  HInv'
  <2> DEFINE p == Parsed(conn, last)
             c == [p EXCEPT !.body = n + 1]
             t == Enqueue(s, 1, 0)
  <2>1. /\ p \in Connections /\ p.open = conn.open /\ p.finished = conn.finished
        /\ p.gone = conn.gone /\ p.body = conn.body /\ p.first = m + 1
    BY <1>1, ParsedIs
  <2>2. \/ AskForBody(s, c, len)
        \/ Escapes(s, c)
        \/ ~Closed(s) /\ \E o \in Outcomes(t) : AskForBody(Flush(t, o), c, len)
    BY <1>6
  <2> HIDE DEF p
  <2>3. /\ c \in Connections /\ c.open = p.open /\ c.finished = p.finished
        /\ c.gone = p.gone /\ c.body = n + 1 /\ c.first = p.first
    BY <1>1, <2>1 DEF Connections
  <2> HIDE DEF c
  <2>4. OnePhase(c) /\ ~Engaged(c) /\ c.first <= m + 1 /\ len \in Nat
    BY <1>1, <2>1, <2>3, ServerAssumption DEF OnePhase, Engaged
  <2>5. s \in Calm(c.body, c.first, {}, given)
    BY <1>1, NoReads
  <2>6. CASE AskForBody(s, c, len)
    BY <1>1, <2>3, <2>4, <2>5, <2>6, AskForBodyServes
  <2>7. CASE Escapes(s, c)
    BY <1>1, <2>3, <2>4, <2>5, <2>7, EscapesServes
  <2>8. ASSUME ~Closed(s), NEW o \in Outcomes(t), AskForBody(Flush(t, o), c, len)
        PROVE  HInv'
    <3> DEFINE x == Flush(t, o)
    <3>1. x \in Calm(c.body, c.first, {}, given) /\ Rests(x)
      BY <1>1, <2>5, <2>8, WriteCalm
    <3>2. AskForBody(x, c, len)
      BY <2>8
    <3> HIDE DEF x
    <3> QED BY <1>1, <2>3, <2>4, <3>1, <3>2, AskForBodyServes
  <2> QED BY <2>2, <2>6, <2>7, <2>8
<1> QED BY <1>2, <1>3, <1>4, <1>5, <1>6

LEMMA RunBodyServes ==
    ASSUME HInv, RunBody
    PROVE  HInv'
<1> DEFINE n == stream.reads
           m == stream.writes
           s == Begun
           given == <<TRUE, n, m>>
<1>1. /\ s \in Calm(conn.body, conn.first, {}, given) /\ Rests(s)
      /\ NextHandler \in Runs /\ NextHandler.run = "read" /\ ~Engaged(conn)
      /\ conn \in Connections /\ conn.first <= m + 1 /\ m \in Nat /\ running = Idle
  BY Begins, Starts DEF RunBody
<1>2. ASSUME conn.held, stream' = s, conn' = Settle(HandOver(conn), stream'),
             running' = NextHandler
      PROVE  HInv'
  <2> DEFINE d == HandOver(conn)
  <2>1. /\ d \in Connections /\ d.open /\ d.finished = conn.finished
        /\ d.gone = conn.gone /\ d.body = conn.body /\ d.first = conn.first
    BY <1>1, HandOverIs
  <2>2. stream' = s /\ conn' = Settle(d, stream') /\ running' = NextHandler
    BY <1>2
  <2> HIDE DEF d, s
  <2>3. OnePhase(d)
    BY <1>1, <2>1 DEF OnePhase, Engaged
  <2> QED BY <1>1, <2>1, <2>2, <2>3, RunsOn
<1>3. CASE ~conn.held
  <2> DEFINE r == [s EXCEPT !.undefined = TRUE]
  <2>1. stream' = r /\ conn' = conn /\ running' = Idle
    BY <1>1, <1>3 DEF RunBody
  <2> HIDE DEF s
  <2>2. s \in StreamType /\ Pays(s) /\ <<s.opened, s.reads, s.writes>> = given
    BY <1>1 DEF Calm
  <2>3. /\ r \in StreamType /\ ReadSide(r) = ReadSide(s) /\ WriteSide(r) = WriteSide(s)
        /\ CloseSide(r) = CloseSide(s) /\ r.queue = s.queue /\ r.pending = s.pending
        /\ r.reads = s.reads /\ r.written = s.written /\ r.writeEnd = s.writeEnd
        /\ Connects(r) = Connects(s) /\ r.opened = s.opened /\ r.writes = s.writes
        /\ r.connecting = s.connecting
    BY <2>2 DEF StreamType, ReadSide, Criteria, WriteSide, CloseSide, Connects
  <2> HIDE DEF r
  <2>4. Pays(r)
    BY <2>2, <2>3, PaysOpened
  <2>5. r.readCb = s.readCb /\ r.writeCb = s.writeCb /\ r.wq = s.wq
    BY <2>3 DEF ReadSide, WriteSide
  <2>6. r \in Calm(conn.body, conn.first, {}, given)
    <3>1. r \in Calm(conn.body, conn.first, {}, <<r.opened, r.reads, r.writes>>)
      BY <1>1, <2>3, <2>4, <2>5, CalmSame
    <3> QED BY <2>2, <2>3, <3>1
  <2>7. Rests(r)
    BY <1>1, <2>3, <2>5 DEF Rests
  <2>8. OnePhase(conn) /\ Idle.run # "write"
    BY <1>1 DEF OnePhase, Engaged, Idle
  <2>9. Orderly(r, conn, Idle)
    BY <1>1, <2>6, <2>7, <2>8, Serves
  <2> QED BY <2>1, <2>9 DEF HInv
<1>4. CASE Escapes(s, conn)
  <2>1. OnePhase(conn)
    BY <1>1 DEF OnePhase, Engaged
  <2> HIDE DEF s
  <2> QED BY <1>1, <1>4, <2>1, EscapesServes
<1> QED BY <1>2, <1>3, <1>4 DEF RunBody

LEMMA RunWriteServes ==
    ASSUME HInv, RunWrite
    PROVE  HInv'
<1> DEFINE w == IF conn.wrapper = NextHandler.id THEN 0 ELSE conn.wrapper
           c == [conn EXCEPT !.inApp = conn.writeCb, !.writeCb = FALSE, !.wrapper = w]
           T == ReadIds(stream)
           given == <<TRUE, stream.reads, stream.writes>>
<1>1. /\ Begun \in Calm(conn.body, conn.first, T, given) /\ Rests(Begun)
      /\ NextHandler \in Runs /\ NextHandler.run = "write" /\ conn.first <= NextHandler.id
      /\ conn \in Connections /\ conn.first <= stream.writes + 1 /\ stream.writes \in Nat
      /\ OnePhase(conn) /\ (Engaged(conn) => T = {})
  BY Begins, Starts DEF RunWrite
<1>2. stream' = Begun /\ conn' = Settle(c, stream') /\ running' = NextHandler
  BY <1>1 DEF RunWrite, Connections
<1>3. w \in Nat
  BY <1>1 DEF Connections
<1> HIDE DEF w
<1>4. /\ c \in Connections /\ c.open = conn.open /\ c.finished = conn.finished
      /\ c.gone = conn.gone /\ c.body = conn.body /\ c.first = conn.first
  BY <1>1, <1>3 DEF Connections
<1> HIDE DEF c, T
<1>5. OnePhase(c) /\ (Engaged(c) => T = {})
  BY <1>1, <1>4 DEF OnePhase, Engaged
<1> QED BY <1>1, <1>2, <1>4, <1>5, RunsOn

LEMMA RunCloseServes ==
    ASSUME HInv, RunClose
    PROVE  HInv'
<1> DEFINE c == [conn EXCEPT !.inApp = conn.closeCb, !.closeCb = FALSE]
           T == ReadIds(stream)
           given == <<TRUE, stream.reads, stream.writes>>
<1>1. /\ Begun \in Calm(conn.body, conn.first, T, given) /\ Rests(Begun)
      /\ NextHandler \in Runs /\ NextHandler.run = "close"
      /\ conn \in Connections /\ conn.first <= stream.writes + 1 /\ stream.writes \in Nat
      /\ OnePhase(conn) /\ (Engaged(conn) => T = {})
  BY Begins, Starts DEF RunClose
<1>2. stream' = Begun /\ conn' = Settle(c, stream') /\ running' = NextHandler
  BY DEF RunClose
<1>3. /\ c \in Connections /\ c.open = conn.open /\ c.finished = conn.finished
      /\ c.gone = conn.gone /\ c.body = conn.body /\ c.first = conn.first
  BY <1>1 DEF Connections
<1> HIDE DEF c, T
<1>4. OnePhase(c) /\ (Engaged(c) => T = {})
  BY <1>1, <1>3 DEF OnePhase, Engaged
<1> QED BY <1>1, <1>2, <1>3, <1>4, RunsOn

LEMMA RunEmptyServes ==
    ASSUME HInv, RunEmpty
    PROVE  HInv'
<1> DEFINE T == ReadIds(stream)
           given == <<TRUE, stream.reads, stream.writes>>
<1>1. PICK run \in Empty : Runs1(run)
  BY DEF RunEmpty
<1>2. /\ Begun \in Calm(conn.body, conn.first, T, given) /\ Rests(Begun)
      /\ conn \in Connections /\ conn.first <= stream.writes + 1 /\ stream.writes \in Nat
      /\ OnePhase(conn) /\ (Engaged(conn) => T = {})
  BY <1>1, Begins, Starts
<1>3. Escapes(Begun, conn)
  BY DEF RunEmpty
<1> QED BY <1>2, <1>3, EscapesServes

\* finishRequest: the answer has left, and the connection closes or reads on.
LEMMA FinishRequestServes ==
    ASSUME HInv, stream.opened, Engaged(conn), ~conn.gone, stream.wq = <<>>, NEW d
    PROVE  LET s == FinishRequest(stream, d)
           IN  \E T, n : /\ s \in Calm(conn.body, conn.first, T, <<TRUE, n, stream.writes>>)
                         /\ Rests(s) /\ (Disconnects(d) => T = {})
<1>1. /\ stream.opened = TRUE /\ stream \in Calm(conn.body, conn.first, {},
                                                 <<TRUE, stream.reads, stream.writes>>)
      /\ Rests(stream) /\ stream.writeCb = 0
  BY Starts DEF StreamType, Rests
<1>2. CASE Disconnects(d)
  BY <1>1, <1>2, CloseCalm DEF FinishRequest
<1>3. CASE ~Disconnects(d)
  <2>1. /\ ReadHeaders(stream) \in Calm(conn.body, conn.first, {stream.reads + 1},
                                        <<TRUE, stream.reads + 1, stream.writes>>)
        /\ Rests(ReadHeaders(stream))
    BY <1>1, ReadHeadersCalm
  <2> QED BY <1>3, <2>1 DEF FinishRequest
<1> QED BY <1>2, <1>3

LEMMA RequestFinishedIs ==
    ASSUME NEW c \in Connections
    PROVE  LET d == RequestFinished(c)
           IN  /\ d \in Connections /\ d.id = c.id /\ d.open = c.open /\ ~d.finished
               /\ d.gone = (c.gone \/ Disconnects(c)) /\ d.body = c.body /\ d.first = c.first
<1> DEFINE g == c.gone \/ Disconnects(c)
           e == ClearRequestState(c)
           d == [e EXCEPT !.gone = g]
<1>1. g \in BOOLEAN
  BY ServerAssumption DEF Connections, Disconnects
<1>2. /\ e \in Connections /\ e.id = c.id /\ e.open = c.open /\ ~e.finished
      /\ e.gone = c.gone /\ e.body = c.body /\ e.first = c.first
  BY ClearRequestStateIs
<1>3. RequestFinished(c) = d
  BY <1>2 DEF RequestFinished, Connections
<1> HIDE DEF e, g
<1>4. /\ d \in Connections /\ d.id = e.id /\ d.open = e.open /\ d.finished = e.finished
      /\ d.gone = g /\ d.body = e.body /\ d.first = e.first
  BY <1>1, <1>2 DEF Connections
<1> HIDE DEF d
<1> QED BY <1>2, <1>3, <1>4 DEF g

LEMMA ReturnsServes ==
    ASSUME HInv, Returns
    PROVE  HInv'
<1>0. /\ conn \in Connections /\ stream.opened /\ OnePhase(conn) /\ Rests(stream)
      /\ stream.writes \in Nat /\ conn.first <= stream.writes + 1
      /\ Idle \in Runs \cup {Idle} /\ Idle.run # "write"
      /\ (Engaged(conn) => ReadIds(stream) = {})
      /\ stream \in Calm(conn.body, conn.first, ReadIds(stream),
                         <<stream.opened, stream.reads, stream.writes>>)
      /\ stream.opened \in BOOLEAN /\ running' = Idle
  BY Starts, OpenedSteps DEF Returns, Idle, StreamType
<1>1. CASE Answered
  <2> DEFINE d == RequestFinished(conn)
             x == FinishRequest(stream, conn)
             e == [d EXCEPT !.inApp = FALSE]
  <2>1. conn.finished /\ stream.wq = <<>> /\ ~conn.open /\ ~conn.gone
    BY <1>0, <1>1 DEF Answered, Writing, OnePhase
  <2>2. PICK T, n : /\ x \in Calm(conn.body, conn.first, T, <<TRUE, n, stream.writes>>)
                    /\ Rests(x) /\ (Disconnects(conn) => T = {})
    BY <1>0, <2>1, FinishRequestServes DEF Engaged
  <2>3. /\ d \in Connections /\ d.open = conn.open /\ ~d.finished
        /\ d.gone = (conn.gone \/ Disconnects(conn)) /\ d.body = conn.body /\ d.first = conn.first
    BY <1>0, RequestFinishedIs
  <2>4. stream' = MaybeAddErrorListener(x) /\ conn' = Settle(e, stream')
    <3>1. running.run # "close"
      BY <1>1 DEF Answered
    <3> QED BY <1>1, <3>1 DEF Returns
  <2> HIDE DEF d, x
  <2>5. e \in Connections /\ Role(e) = Role(d)
    BY <2>3 DEF Connections, Role
  <2> HIDE DEF e
  <2>6. conn' \in Connections /\ Role(conn') = Role(d)
    BY <2>4, <2>5, SettleKeeps
  <2>7. OnePhase(d) /\ (Engaged(d) => T = {})
    BY <2>1, <2>2, <2>3 DEF OnePhase, Engaged
  <2>8. stream' \in Calm(conn.body, conn.first, T, <<TRUE, n, stream.writes>>) /\ Rests(stream')
    BY <2>2, <2>4, CloseCalm
  <2>9. Orderly(stream', conn', Idle)
    BY <1>0, <2>3, <2>6, <2>7, <2>8, Serves
  <2> QED BY <1>0, <2>9 DEF HInv
<1>2. CASE ~Answered
  <2> DEFINE d == IF running.run = "close" THEN ClearRequestState(conn) ELSE conn
             e == [d EXCEPT !.inApp = FALSE]
             T == ReadIds(stream)
  <2>1. stream' = MaybeAddErrorListener(stream) /\ conn' = Settle(e, stream')
    BY <1>2 DEF Returns
  <2>2. /\ d \in Connections /\ d.open = conn.open /\ (d.finished => conn.finished)
        /\ d.gone = conn.gone /\ d.body = conn.body /\ d.first = conn.first
    BY <1>0, ClearRequestStateIs
  <2> HIDE DEF d
  <2>3. e \in Connections /\ Role(e) = Role(d)
    BY <2>2 DEF Connections, Role
  <2> HIDE DEF e
  <2>4. conn' \in Connections /\ Role(conn') = Role(d)
    BY <2>1, <2>3, SettleKeeps
  <2>5. OnePhase(d) /\ (Engaged(d) => T = {})
    BY <1>0, <2>2 DEF OnePhase, Engaged
  <2>6. stream.opened = TRUE
    BY <1>0
  <2> HIDE DEF T
  <2>7. /\ stream' \in Calm(conn.body, conn.first, T, <<TRUE, stream.reads, stream.writes>>)
        /\ Rests(stream')
    BY <1>0, <2>1, <2>6, CloseCalm DEF T
  <2>8. Orderly(stream', conn', Idle)
    BY <1>0, <2>2, <2>4, <2>5, <2>7, Serves
  <2> QED BY <1>0, <2>8 DEF HInv
<1> QED BY <1>1, <1>2

LEMMA ThrowsServes ==
    ASSUME HInv, Throws
    PROVE  HInv'
<1> DEFINE c == [conn EXCEPT !.inApp = FALSE]
           S == Calm(conn.body, conn.first, ReadIds(stream),
                     <<stream.opened, stream.reads, stream.writes>>)
<1>1. /\ conn \in Connections /\ stream.opened /\ stream \in S /\ Rests(stream)
      /\ running' = Idle /\ conn' = Settle(c, stream')
      /\ stream' \in {Close(stream), MaybeAddErrorListener(Close(stream))}
  BY Starts, OpenedSteps DEF Throws, CallbackThrows
<1>2. c \in Connections /\ Role(c) = Role(conn)
  BY <1>1 DEF Connections, Role
<1> HIDE DEF c
<1>3. conn' \in Connections /\ Role(conn') = Role(conn)
  BY <1>1, <1>2, SettleKeeps
<1>4. stream' \in S /\ Rests(stream')
  BY <1>1, CloseCalm
<1>5. Orderly(stream', conn', Idle)
  BY <1>1, <1>3, <1>4, StreamStep
<1> QED BY <1>1, <1>5 DEF HInv

LEMMA AppWriteServes ==
    ASSUME HInv, AppWrite
    PROVE  HInv'
<1> DEFINE m == stream.writes
           id == m + 1
           given == <<TRUE, stream.reads, id>>
<1>0. /\ conn \in Connections /\ stream.opened /\ OnePhase(conn) /\ Rests(stream)
      /\ m \in Nat /\ stream.reads \in Nat /\ conn.first <= m + 1 /\ Engaged(conn)
      /\ stream \in Calm(conn.body, conn.first, {}, <<stream.opened, stream.reads, m>>)
      /\ stream \in StreamType /\ Pays(stream)
      /\ running \in Runs \cup {Idle} /\ (running.run = "write" => conn.first <= running.id)
      /\ running' = running /\ ~Closed(stream)
  BY Starts, OpenedSteps DEF AppWrite, AppCalls, Engaged
<1>1. PICK len \in 0..MaxLength, callback \in BOOLEAN :
        LET s == Enqueue([stream EXCEPT !.writes = id], len, OnWriteComplete(id, callback))
        IN  \E o \in Outcomes(s) :
              /\ stream' = Flush(s, o)
              /\ LET c == Settle([conn EXCEPT !.wrote = TRUE, !.writeCb = callback], stream')
                 IN  conn' = Settle([c EXCEPT !.wrapper = IF callback THEN id ELSE 0], stream')
  BY DEF AppWrite
<1> DEFINE a == [stream EXCEPT !.writes = id]
           s == Enqueue(a, len, id)
           c == [conn EXCEPT !.wrote = TRUE, !.writeCb = callback]
           d == Settle(c, stream')
           w == IF callback THEN id ELSE 0
           e == [d EXCEPT !.wrapper = w]
<1>2. PICK o \in Outcomes(s) : stream' = Flush(s, o) /\ conn' = Settle(e, stream')
  BY <1>1 DEF OnWriteComplete
<1>3. id \in Nat /\ len \in Nat /\ w \in Nat /\ conn.first <= id /\ conn.first <= id + 1
  <2>1. conn.first \in Nat
    BY <1>0 DEF Connections
  <2>2. len \in Nat
    BY BoundsAssumption
  <2> QED BY <1>0, <2>1, <2>2
<1> HIDE DEF id, w
<1>4. /\ a \in StreamType /\ ReadSide(a) = ReadSide(stream) /\ WriteSide(a) = WriteSide(stream)
      /\ CloseSide(a) = CloseSide(stream) /\ a.queue = stream.queue /\ a.pending = stream.pending
      /\ a.reads = stream.reads /\ a.written = stream.written /\ a.writeEnd = stream.writeEnd
      /\ Connects(a) = Connects(stream) /\ a.opened = stream.opened /\ a.writes = id
      /\ a.connecting = stream.connecting
  BY <1>0, <1>3 DEF StreamType, ReadSide, Criteria, WriteSide, CloseSide, Connects
<1> HIDE DEF a
<1>5. Pays(a) /\ a.readCb = stream.readCb /\ a.writeCb = stream.writeCb /\ a.wq = stream.wq
      /\ ~Closed(a)
  <2>1. Pays(a)
    BY <1>0, <1>4, PaysOpened
  <2> QED BY <1>0, <1>4, <2>1 DEF ReadSide, WriteSide, CloseSide, Closed
<1>6. a \in Calm(conn.body, conn.first, {}, given) /\ Rests(a)
  <2>1. a \in Calm(conn.body, conn.first, {}, <<a.opened, a.reads, a.writes>>)
    BY <1>0, <1>4, <1>5, CalmSame
  <2>2. stream.opened = TRUE
    BY <1>0 DEF StreamType
  <2> QED BY <1>0, <1>4, <1>5, <2>1, <2>2 DEF Rests
<1>7. stream' \in Calm(conn.body, conn.first, {}, given) /\ Rests(stream')
  BY <1>2, <1>3, <1>5, <1>6, WriteCalm
<1> HIDE DEF s
<1>8. c \in Connections /\ Role(c) = Role(conn)
  BY <1>0 DEF Connections, Role
<1> HIDE DEF c
<1>9. d \in Connections /\ Role(d) = Role(conn)
  BY <1>8, SettleKeeps
<1> HIDE DEF d
<1>10. e \in Connections /\ Role(e) = Role(conn)
  BY <1>3, <1>9 DEF Connections, Role
<1> HIDE DEF e
<1>11. conn' \in Connections /\ Role(conn') = Role(conn)
  BY <1>2, <1>10, SettleKeeps
<1>12. Orderly(stream', conn', running)
  BY <1>0, <1>3, <1>7, <1>11, Serves
<1> QED BY <1>0, <1>12 DEF HInv

LEMMA AppFinishServes ==
    ASSUME HInv, AppFinish
    PROVE  HInv'
<1> DEFINE c == [conn EXCEPT !.open = FALSE, !.held = TRUE, !.finished = TRUE]
           m == stream.writes
<1>0. /\ conn \in Connections /\ stream.opened /\ Rests(stream) /\ m \in Nat
      /\ conn.first <= m + 1 /\ Engaged(conn) /\ ~conn.gone
      /\ stream \in Calm(conn.body, conn.first, {}, <<stream.opened, stream.reads, m>>)
      /\ running \in Runs \cup {Idle} /\ (running.run = "write" => conn.first <= running.id)
      /\ running' = running /\ stream.opened \in BOOLEAN
  BY Starts, OpenedSteps DEF AppFinish, AppCalls, Engaged, OnePhase, StreamType
<1>1. /\ c \in Connections /\ ~c.open /\ c.finished /\ c.gone = conn.gone
      /\ c.body = conn.body /\ c.first = conn.first
  BY <1>0 DEF Connections
<1>2. CASE Writing
  <2>1. conn' = c /\ stream' = stream
    BY <1>2 DEF AppFinish
  <2> HIDE DEF c
  <2>2. OnePhase(c)
    BY <1>0, <1>1 DEF OnePhase
  <2>3. stream \in Calm(c.body, c.first, {}, <<TRUE, stream.reads, m>>)
    BY <1>0, <1>1
  <2>4. Orderly(stream, c, running)
    BY <1>0, <1>1, <2>2, <2>3, Serves
  <2> QED BY <1>0, <2>1, <2>4 DEF HInv
<1>3. CASE ~Writing
  <2> DEFINE d == RequestFinished(c)
  <2>1. stream' = FinishRequest(stream, c) /\ conn' = Settle(d, stream')
    BY <1>3 DEF AppFinish
  <2> HIDE DEF c
  <2>2. PICK T, n : /\ stream' \in Calm(conn.body, conn.first, T, <<TRUE, n, stream.writes>>)
                    /\ Rests(stream') /\ (Disconnects(c) => T = {})
    BY <1>0, <1>3, <2>1, FinishRequestServes DEF Writing
  <2>3. /\ d \in Connections /\ d.open = c.open /\ ~d.finished
        /\ d.gone = (c.gone \/ Disconnects(c)) /\ d.body = c.body /\ d.first = c.first
    BY <1>1, RequestFinishedIs
  <2> HIDE DEF d
  <2>4. conn' \in Connections /\ Role(conn') = Role(d)
    BY <2>1, <2>3, SettleKeeps
  <2>5. OnePhase(d) /\ (Engaged(d) => T = {})
    BY <1>0, <1>1, <2>2, <2>3 DEF OnePhase, Engaged
  <2>6. stream' \in Calm(d.body, d.first, T, <<TRUE, n, m>>) /\ d.first = conn.first
    BY <1>1, <2>2, <2>3
  <2>7. Orderly(stream', conn', running)
    BY <1>0, <2>2, <2>3, <2>4, <2>5, <2>6, Serves
  <2> QED BY <1>0, <2>7 DEF HInv
<1> QED BY <1>2, <1>3

LEMMA AppSetCloseCallbackServes ==
    ASSUME HInv, AppSetCloseCallback
    PROVE  HInv'
<1> DEFINE c == [conn EXCEPT !.closeCb = TRUE]
<1>1. /\ conn \in Connections /\ stream.opened /\ Rests(stream)
      /\ stream \in Calm(conn.body, conn.first, ReadIds(stream),
                         <<stream.opened, stream.reads, stream.writes>>)
      /\ conn' = c /\ stream' = stream /\ running' = running
  BY Starts, OpenedSteps DEF AppSetCloseCallback, AppCalls
<1>2. c \in Connections /\ Role(c) = Role(conn)
  BY <1>1 DEF Connections, Role
<1> HIDE DEF c
<1>3. Orderly(stream, c, running)
  BY <1>1, <1>2, StreamStep
<1> QED BY <1>1, <1>3 DEF HInv

LEMMA StepServes ==
    ASSUME HInv, [ServerNext]_serverVars
    PROVE  HInv'
<1>1. CASE Accept
  BY <1>1, AcceptServes
<1>2. ASSUME NEW op \in Operations, ServerComplete(op) PROVE HInv'
  BY <1>2, CompleteServes
<1>3. CASE ServerStep
  BY <1>3, HandleCompletionServes, RunHeadersServes, RunBodyServes, RunWriteServes,
     RunCloseServes, RunEmptyServes, ReturnsServes, ThrowsServes DEF ServerStep
<1>4. CASE App
  BY <1>4, AppWriteServes, AppFinishServes, AppSetCloseCallbackServes DEF App
<1>5. CASE UNCHANGED serverVars
  <2>1. stream' = stream /\ conn' = conn /\ running' = running
    BY <1>5 DEF serverVars, vars
  <2> QED BY <2>1 DEF HInv
<1> QED BY <1>1, <1>2, <1>3, <1>4, <1>5 DEF ServerNext

\* The connection is that of c, but for what the stream did to its callback.
SettlesTo(c) == c \in Connections /\ \E s : conn' = Settle(c, s)

LEMMA SettlesInRole ==
    ASSUME NEW c, SettlesTo(c)
    PROVE  conn'.id = c.id /\ conn'.gone = c.gone
BY SettleKeeps DEF SettlesTo, Role

\* No step of a connection that has decided to disconnect parses a request, and
\* a step that decides it finds the write queue empty.
LEMMA StepGoes ==
    ASSUME HInv, [ServerNext]_serverVars
    PROVE  /\ conn.gone => conn'.id = conn.id
           /\ conn'.gone /\ ~conn.gone => stream.wq = <<>>
<1>0. conn \in Connections /\ stream.writes \in Nat /\ stream.reads \in Nat
  BY Starts
<1>1. CASE conn' = conn
  BY <1>1
<1>2. CASE HandleCompletion /\ conn' = Settle(conn, stream')
  BY <1>0, <1>2, SettlesInRole DEF SettlesTo
<1>3. CASE RunHeaders
  <2>1. ~conn.gone
    BY <1>3, Begins DEF RunHeaders, Engaged
  <2>2. \E c : SettlesTo(c) /\ c.gone = conn.gone
    <3> DEFINE d == ClearRequestState(conn)
    <3>1. d \in Connections /\ d.gone = conn.gone
      BY <1>0, ClearRequestStateIs
    <3>2. ASSUME NEW last \in BOOLEAN
          PROVE  LET p == Parsed(conn, last)
                     h == HandOver(p)
                     c == [p EXCEPT !.body = stream.reads + 1]
                 IN  /\ p \in Connections /\ p.gone = conn.gone
                     /\ h \in Connections /\ h.gone = conn.gone
                     /\ c \in Connections /\ c.gone = conn.gone
      <4> DEFINE p == Parsed(conn, last)
                 h == HandOver(p)
                 i == stream.reads + 1
                 c == [p EXCEPT !.body = i]
      <4>1. p \in Connections /\ p.gone = conn.gone
        BY <1>0, ParsedIs
      <4> HIDE DEF p
      <4>2. h \in Connections /\ h.gone = conn.gone
        BY <4>1, HandOverIs
      <4>3. i \in Nat
        BY <1>0
      <4> HIDE DEF i
      <4>4. c \in Connections /\ c.gone = conn.gone
        BY <4>1, <4>3 DEF Connections
      <4> QED BY <4>1, <4>2, <4>4 DEF p, i
    <3>3. \/ \E s : conn' = Settle(d, s)
          \/ \E last \in BOOLEAN :
                \E s : \/ conn' = Settle(Parsed(conn, last), s)
                       \/ conn' = Settle(HandOver(Parsed(conn, last)), s)
                       \/ conn' = Settle([Parsed(conn, last) EXCEPT
                                             !.body = stream.reads + 1], s)
      BY <1>3 DEF RunHeaders, AskForBody, Escapes
    <3> HIDE DEF d
    <3> QED BY <3>1, <3>2, <3>3 DEF SettlesTo
  <2> QED BY <2>1, <2>2, SettlesInRole
<1>4. CASE RunBody
  <2>1. ~conn.gone
    BY <1>4, Begins DEF RunBody, Engaged
  <2>2. \/ conn' = conn
        \/ \E s : conn' = Settle(HandOver(conn), s) \/ conn' = Settle(conn, s)
    BY <1>4 DEF RunBody, Escapes
  <2> QED BY <1>0, <2>1, <2>2, HandOverIs, SettlesInRole DEF SettlesTo
<1>5. CASE RunWrite \/ RunClose \/ RunEmpty \/ Throws \/ AppWrite \/ AppSetCloseCallback
  <2>1. ASSUME NEW c \in Connections, Role(c) = Role(conn), NEW s, conn' = Settle(c, s)
        PROVE  conn'.id = conn.id /\ conn'.gone = conn.gone
    BY <2>1, SettleKeeps DEF Role
  <2>2. CASE RunWrite
    <3> DEFINE w == IF conn.wrapper = NextHandler.id THEN 0 ELSE conn.wrapper
               c == [conn EXCEPT !.inApp = conn.writeCb, !.writeCb = FALSE, !.wrapper = w]
    <3>1. conn' = Settle(c, stream')
      BY <2>2, <1>0 DEF RunWrite, Connections
    <3>2. w \in Nat
      <4>1. NextHandler \in Runs /\ conn.wrapper \in Nat
        BY <1>0, <2>2, Begins DEF RunWrite, Connections
      <4> QED BY <4>1
    <3> HIDE DEF w
    <3>3. c \in Connections /\ Role(c) = Role(conn)
      BY <1>0, <3>2 DEF Connections, Role
    <3> HIDE DEF c
    <3> QED BY <2>1, <3>1, <3>3
  <2>3. CASE RunClose
    <3> DEFINE c == [conn EXCEPT !.inApp = conn.closeCb, !.closeCb = FALSE]
    <3>1. conn' = Settle(c, stream')
      BY <2>3 DEF RunClose
    <3>2. c \in Connections /\ Role(c) = Role(conn)
      BY <1>0 DEF Connections, Role
    <3> HIDE DEF c
    <3> QED BY <2>1, <3>1, <3>2
  <2>4. CASE RunEmpty
    BY <1>0, <2>1, <2>4 DEF RunEmpty, Escapes
  <2>5. CASE Throws
    <3> DEFINE c == [conn EXCEPT !.inApp = FALSE]
    <3>1. conn' = Settle(c, stream')
      BY <2>5 DEF Throws
    <3>2. c \in Connections /\ Role(c) = Role(conn)
      BY <1>0 DEF Connections, Role
    <3> HIDE DEF c
    <3> QED BY <2>1, <3>1, <3>2
  <2>6. CASE AppWrite
    <3> DEFINE id == stream.writes + 1
    <3>1. PICK callback \in BOOLEAN :
            LET c == Settle([conn EXCEPT !.wrote = TRUE, !.writeCb = callback], stream')
            IN  conn' = Settle([c EXCEPT !.wrapper = IF callback THEN id ELSE 0], stream')
      BY <2>6 DEF AppWrite
    <3> DEFINE c == [conn EXCEPT !.wrote = TRUE, !.writeCb = callback]
               d == Settle(c, stream')
               w == IF callback THEN id ELSE 0
               e == [d EXCEPT !.wrapper = w]
    <3>2. w \in Nat /\ conn' = Settle(e, stream')
      BY <1>0, <3>1
    <3> HIDE DEF w
    <3>3. c \in Connections /\ Role(c) = Role(conn)
      BY <1>0 DEF Connections, Role
    <3> HIDE DEF c
    <3>4. d \in Connections /\ Role(d) = Role(conn)
      BY <3>3, SettleKeeps
    <3> HIDE DEF d
    <3>5. e \in Connections /\ Role(e) = Role(conn)
      BY <3>2, <3>4 DEF Connections, Role
    <3> HIDE DEF e
    <3> QED BY <2>1, <3>2, <3>5
  <2>7. CASE AppSetCloseCallback
    BY <1>0, <2>7 DEF AppSetCloseCallback, Connections
  <2> QED BY <1>5, <2>2, <2>3, <2>4, <2>5, <2>6, <2>7
<1>6. CASE Returns
  <2> DEFINE d == RequestFinished(conn)
             k == ClearRequestState(conn)
  <2>1. d \in Connections /\ d.id = conn.id /\ k \in Connections /\ k.id = conn.id
        /\ k.gone = conn.gone
    BY <1>0, RequestFinishedIs, ClearRequestStateIs
  <2>2. ASSUME NEW c \in Connections, c.id = conn.id, c.gone = conn.gone \/ stream.wq = <<>>,
               conn' = Settle([c EXCEPT !.inApp = FALSE], stream')
        PROVE  /\ conn.gone => conn'.id = conn.id
               /\ conn'.gone /\ ~conn.gone => stream.wq = <<>>
    <3> DEFINE e == [c EXCEPT !.inApp = FALSE]
    <3>1. e \in Connections /\ Role(e) = Role(c) /\ conn' = Settle(e, stream')
      BY <2>2 DEF Connections, Role
    <3> HIDE DEF e
    <3>2. Role(conn') = Role(c)
      BY <3>1, SettleKeeps
    <3> QED BY <2>2, <3>2 DEF Role
  <2>3. CASE Answered
    <3>1. stream.wq = <<>> /\ running.run # "close"
      BY <2>3 DEF Answered, Writing
    <3>2. conn' = Settle([d EXCEPT !.inApp = FALSE], stream')
      BY <1>6, <2>3, <3>1 DEF Returns
    <3> HIDE DEF d
    <3> QED BY <2>1, <2>2, <3>1, <3>2
  <2>4. CASE ~Answered
    <3>1. \/ conn' = Settle([k EXCEPT !.inApp = FALSE], stream')
          \/ conn' = Settle([conn EXCEPT !.inApp = FALSE], stream')
      BY <1>6, <2>4 DEF Returns
    <3> HIDE DEF k
    <3> QED BY <1>0, <2>1, <2>2, <3>1
  <2> QED BY <2>3, <2>4
<1>7. CASE AppFinish
  <2> DEFINE c == [conn EXCEPT !.open = FALSE, !.held = TRUE, !.finished = TRUE]
             d == RequestFinished(c)
  <2>1. c \in Connections /\ c.id = conn.id /\ c.gone = conn.gone
    BY <1>0 DEF Connections
  <2>2. conn' = c \/ (stream.wq = <<>> /\ conn' = Settle(d, stream'))
    BY <1>7 DEF AppFinish, Writing
  <2> HIDE DEF c
  <2>3. d \in Connections /\ d.id = c.id
    BY <2>1, RequestFinishedIs
  <2> HIDE DEF d
  <2> QED BY <2>1, <2>2, <2>3, SettlesInRole DEF SettlesTo
<1>8. ServerNext \/ UNCHANGED serverVars =>
        \/ conn' = conn \/ (HandleCompletion /\ conn' = Settle(conn, stream'))
        \/ RunHeaders \/ RunBody \/ Returns \/ AppFinish
        \/ RunWrite \/ RunClose \/ RunEmpty \/ Throws \/ AppWrite \/ AppSetCloseCallback
  <2>1. Accept => conn' = conn
    BY DEF Accept
  <2>2. \A op \in Operations : ServerComplete(op) => conn' = conn
    BY DEF ServerComplete
  <2>3. UNCHANGED serverVars => conn' = conn
    BY DEF serverVars
  <2>4. ServerNext => Accept \/ (\E op \in Operations : ServerComplete(op)) \/ ServerStep \/ App
    BY ZenonT(30) DEF ServerNext
  <2>5. ServerNext \/ UNCHANGED serverVars => conn' = conn \/ ServerStep \/ App
    BY <2>1, <2>2, <2>3, <2>4, ZenonT(30)
  <2>6. ServerStep => \/ (HandleCompletion /\ conn' = Settle(conn, stream'))
                     \/ RunHeaders \/ RunBody \/ Returns
                     \/ RunWrite \/ RunClose \/ RunEmpty \/ Throws
    BY ZenonT(30) DEF ServerStep
  <2>7. App => AppWrite \/ AppFinish \/ AppSetCloseCallback
    BY DEF App
  <2> QED BY <2>5, <2>6, <2>7, ZenonT(30)
<1> QED BY <1>1, <1>2, <1>3, <1>4, <1>5, <1>6, <1>7, <1>8

-----------------------------------------------------------------------------
\* The theorems

\* The inductive invariant: a connection serves one request at a time, and the
\* calls in flight on its stream are those of that request.
THEOREM ServesInOrder == ServerSpec => []HInv
<1>1. ServerInit => HInv
  BY InitServes
<1>2. HInv /\ [ServerNext]_serverVars => HInv'
  BY StepServes
<1> QED BY <1>1, <1>2, PTL DEF ServerSpec

\* While a request is being answered no other is read: neither a read of the
\* stream nor its posted callback is in flight, so setReadCallback's assertion
\* holds.
THEOREM OneRequestAtATime == ServerSpec => []OneAtATime
<1>1. HInv => OneAtATime
  <2> SUFFICES ASSUME HInv, conn.open \/ conn.finished
               PROVE  stream.readCb = 0 /\ Posted("read") = {}
    BY DEF OneAtATime
  <2>1. ReadIds(stream) = {}
    BY Starts DEF Engaged
  <2>2. stream.readCb = 0 /\ ReadsAt(stream.queue) = {}
    BY <2>1 DEF ReadIds
  <2> QED BY <2>2, RunIndicesAre DEF Posted, ReadsAt
<1> QED BY <1>1, ServesInOrder, PTL

\* A read of the next header block is in flight only when every byte of the
\* answer before it has been taken by the socket.
THEOREM AnswersLeaveFirst == ServerSpec => []AnswerLeftFirst
<1>1. HInv => AnswerLeftFirst
  <2> SUFFICES ASSUME HInv, ~Closed(stream),
                      stream.readCb \notin {0, conn.body}
                        \/ \E i \in Posted("read") : stream.queue[i].id # conn.body
               PROVE  stream.sent = stream.written
    BY DEF AnswerLeftFirst
  <2>1. Clear(stream, conn.body) /\ Left(stream)
    BY Starts, PaysBase DEF Calm
  <2>2. Posted("read") = ReadsAt(stream.queue)
    BY RunIndicesAre DEF Posted, ReadsAt
  <2>3. stream.wq = <<>>
    BY <2>1, <2>2 DEF Clear
  <2> QED BY <2>1, <2>3 DEF Left, EndsWell
<1> QED BY <1>1, ServesInOrder, PTL

\* onWriteComplete runs for a write of the request in progress.
THEOREM CompletionsAreCurrent == ServerSpec => []CompletionIsCurrent
<1>1. HInv => CompletionIsCurrent
  <2> SUFFICES ASSUME HInv, running.run = "write" PROVE running.id >= conn.first
    BY DEF CompletionIsCurrent
  <2>1. conn.first <= running.id /\ conn.first \in Nat /\ running \in Runs \cup {Idle}
    BY Starts DEF Connections
  <2>2. running.id \in Nat
    BY <2>1 DEF Runs, Idle
  <2> QED BY <2>1, <2>2
<1> QED BY <1>1, ServesInOrder, PTL

\* A connection that disconnects because its request says so has sent the answer.
THEOREM DisconnectsWhenAnswered == ServerSpec => DisconnectsAfterAnswer
<1>1. HInv /\ [ServerNext]_serverVars =>
        [conn'.gone /\ ~conn.gone /\ ~Closed(stream) => stream.sent = stream.written]_serverVars
  <2> SUFFICES ASSUME HInv, [ServerNext]_serverVars,
                      conn'.gone, ~conn.gone, ~Closed(stream)
               PROVE  stream.sent = stream.written
    OBVIOUS
  <2>1. stream.wq = <<>>
    BY StepGoes
  <2>2. Left(stream)
    BY Starts, PaysBase
  <2> QED BY <2>1, <2>2 DEF Left, EndsWell
<1> QED BY <1>1, ServesInOrder, PTL DEF ServerSpec, DisconnectsAfterAnswer

\* Once the connection has decided to disconnect it parses no further request,
\* whatever the buffer holds.
THEOREM LastRequestIsLast == ServerSpec => NoRequestAfterLast
<1>1. HInv /\ [ServerNext]_serverVars => [conn.gone => conn'.id = conn.id]_serverVars
  BY StepGoes
<1> QED BY <1>1, ServesInOrder, PTL DEF ServerSpec, NoRequestAfterLast
=============================================================================
