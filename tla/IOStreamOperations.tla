------------------------- MODULE IOStreamOperations -------------------------
(***************************************************************************)
(* Proofs about the operations a stream of IOStream.tla has with the       *)
(* reactor: at most one uses each side of the socket.                      *)
(*                                                                         *)
(* An operation is outstanding from the helper that starts it (Arm) to the *)
(* handler of its completion: held by the reactor, or completed or aborted *)
(* into the FIFO.  The flags of the stream say which; each helper is shown *)
(* to start an operation only where the flags exclude another.             *)
(***************************************************************************)
EXTENDS IOStreamOrder

-----------------------------------------------------------------------------
\* Operations that are outstanding

OpsAt(q, op) == {i \in DOMAIN q : ~IsRun(q[i]) /\ q[i].op = op}
Out(s, op) == op \in s.kernel \/ OpsAt(s.queue, op) # {}

\* The operations that S_WRITE stands for.
Writers == {"connect", "write", "shutdown"}

\* Each operation is outstanding once.  A handshake ends behind the connect.
Ordered(q, k) ==
    /\ \A op \in Operations : \A i, j \in OpsAt(q, op) : i = j
    /\ \A op \in k : OpsAt(q, op) = {}
    /\ OpsAt(q, "handshake") # {} => "connect" \notin k
    /\ \A i \in OpsAt(q, "connect"), j \in OpsAt(q, "handshake") : i < j

Fine(s) == Sound(s) /\ Ordered(s.queue, s.kernel) /\ (s.closed => s.kernel = {})

\* The flags know what is outstanding.  Nothing is read or written through SSL
\* before the handshake; a write operation of an open stream has bytes to send.
Flagged(s) ==
    /\ s.sRead <=> Out(s, "read")
    /\ s.sslAccepting <=> Out(s, "handshake")
    /\ \A op \in Writers : Out(s, op) => s.sWrite /\ \A x \in Writers : Out(s, x) => x = op
    /\ s.sslAccepting => Secure /\ ~s.sslAccepted
    /\ Secure /\ ~s.sslAccepted => ~Out(s, "read") /\ ~Out(s, "write") /\ ~Out(s, "shutdown")
    /\ Out(s, "write") => s.wq # <<>> \/ Closed(s)
    /\ s.undefined => Closed(s)

Fit(s) == Fine(s) /\ Flagged(s)

\* Nothing that S_WRITE stands for is outstanding.
Free(s) == \A op \in Writers : ~Out(s, op)

\* Where a helper leads.
Leads(s, r) == Fit(r) /\ r.opened = s.opened /\ (Closed(s) => Closed(r))

LEMMA LeadsOn ==
    ASSUME NEW s, NEW t, NEW r, Leads(s, t), Leads(t, r)
    PROVE  Leads(s, r)
BY DEF Leads

LEMMA QueueIs ==
    ASSUME NEW s, Sound(s)
    PROVE  s.queue \in Seq(Handlers) /\ s.kernel \in SUBSET Operations
BY DEF Sound, StreamType, Handlers

LEMMA AppendOps ==
    ASSUME NEW q \in Seq(Handlers), NEW h \in Handlers
    PROVE  /\ Len(q) \in Nat
           /\ \A op : /\ OpsAt(q, op) \subseteq 1..Len(q)
                      /\ OpsAt(Append(q, h), op) = OpsAt(q, op) \cup
                           (IF ~IsRun(h) /\ h.op = op THEN {Len(q) + 1} ELSE {})
<1> DEFINE p == Append(q, h)
<1>1. /\ Len(q) \in Nat /\ DOMAIN q = 1..Len(q) /\ DOMAIN p = 1..(Len(q) + 1)
      /\ \A i \in 1..Len(q) : p[i] = q[i]
      /\ p[Len(q) + 1] = h
  BY AppendProperties
<1> HIDE DEF p
<1>2. 1..(Len(q) + 1) = 1..Len(q) \cup {Len(q) + 1}
  BY <1>1
<1> QED BY <1>1, <1>2 DEF OpsAt, p

LEMMA NoOpsRun ==
    /\ \A h \in Runs : IsRun(h) /\ h \in Handlers
    /\ \A c \in Completions : ~IsRun(c) /\ c \in Handlers
BY DEF Runs, Completions, IsRun, Handlers

-----------------------------------------------------------------------------
\* Steps that start and end nothing

Flags(s) ==
    <<s.sRead, s.sWrite, s.sslAccepting, s.sslAccepted, s.opened, s.closing, s.closed, s.undefined>>

Quiet(s, r) ==
    /\ Sound(r) /\ r.kernel = s.kernel
    /\ \A op \in Operations : OpsAt(r.queue, op) = OpsAt(s.queue, op)
    /\ Flags(r) = Flags(s)
    /\ r.wq = s.wq \/ Closed(s)

LEMMA QuietOn ==
    ASSUME NEW s, NEW t, NEW r, Quiet(s, t), Quiet(t, r)
    PROVE  Quiet(s, r)
BY DEF Quiet, Flags, Closed

LEMMA QuietSelf ==
    ASSUME NEW s, Sound(s)
    PROVE  Quiet(s, s)
BY DEF Quiet

LEMMA QuietFits ==
    ASSUME NEW s, Fine(s), NEW r, Quiet(s, r)
    PROVE  /\ Fine(r) /\ \A op \in Operations : Out(r, op) <=> Out(s, op)
           /\ Free(s) => Free(r)
           /\ Flagged(s) => Flagged(r) /\ Leads(s, r)
<1>1. /\ r.kernel = s.kernel /\ \A op \in Operations : OpsAt(r.queue, op) = OpsAt(s.queue, op)
      /\ Sound(r) /\ r.closed = s.closed /\ "connect" \in Operations
      /\ "handshake" \in Operations
  BY DEF Quiet, Flags, Operations
<1>2. Fine(r)
  BY <1>1 DEF Fine, Ordered, Sound, StreamType
<1>3. \A op \in Operations : Out(r, op) <=> Out(s, op)
  BY <1>1 DEF Out
<1>4. Out(r, "read") = Out(s, "read") /\ Out(r, "write") = Out(s, "write")
      /\ Out(r, "handshake") = Out(s, "handshake") /\ Out(r, "connect") = Out(s, "connect")
      /\ Out(r, "shutdown") = Out(s, "shutdown")
  BY <1>1 DEF Out, Operations
<1>5. /\ r.sRead = s.sRead /\ r.sWrite = s.sWrite /\ r.sslAccepting = s.sslAccepting
      /\ r.sslAccepted = s.sslAccepted /\ r.undefined = s.undefined /\ r.opened = s.opened
      /\ r.wq = s.wq \/ Closed(s)
      /\ Closed(r) = Closed(s)
  BY DEF Quiet, Flags, Closed
<1>6. Flagged(s) => Flagged(r)
  BY <1>4, <1>5 DEF Flagged, Writers
<1>7. Free(s) => Free(r)
  BY <1>4 DEF Free, Writers
<1> QED BY <1>2, <1>3, <1>5, <1>6, <1>7 DEF Leads, Fit

LEMMA RunCallbackQuiet ==
    ASSUME NEW s, Sound(s), NEW cb \in Callbacks, NEW id \in Nat, NEW lo \in Nat, NEW hi \in Nat
    PROVE  Quiet(s, RunCallback(s, cb, id, lo, hi)) /\ RunCallback(s, cb, id, lo, hi).wq = s.wq
<1> DEFINE r == RunCallback(s, cb, id, lo, hi)
           h == [run |-> cb, id |-> id, lo |-> lo, hi |-> hi]
<1>1. Sound(r)
  BY RunCallbackSound
<1>2. /\ r.queue = Append(s.queue, h) /\ r.kernel = s.kernel /\ Flags(r) = Flags(s)
      /\ r.wq = s.wq
  BY DEF RunCallback, Sound, StreamType, Flags
<1>3. h \in Runs
  BY DEF Runs
<1> HIDE DEF h
<1>4. \A op : OpsAt(Append(s.queue, h), op) = OpsAt(s.queue, op)
  <2>1. s.queue \in Seq(Handlers) /\ h \in Handlers /\ IsRun(h)
    BY <1>3, NoOpsRun, QueueIs
  <2>2. \A op : OpsAt(Append(s.queue, h), op) = OpsAt(s.queue, op) \cup
                   (IF ~IsRun(h) /\ h.op = op THEN {Len(s.queue) + 1} ELSE {})
    BY <2>1, AppendOps
  <2> DEFINE p == Append(s.queue, h)
  <2> HIDE DEF p
  <2> QED BY <2>1, <2>2 DEF p
<1> HIDE DEF r
<1> QED BY <1>1, <1>2, <1>4 DEF Quiet, r

LEMMA ClearCallbacksQuiet ==
    ASSUME NEW s, Sound(s)
    PROVE  Quiet(s, ClearCallbacks(s))
<1> DEFINE r == ClearCallbacks(s)
<1>1. Sound(r)
  BY ClearCallbacksSound
<1>2. r.queue = s.queue /\ r.kernel = s.kernel /\ r.wq = s.wq /\ Flags(r) = Flags(s)
  BY DEF ClearCallbacks, Sound, StreamType, Flags
<1> HIDE DEF r
<1> QED BY <1>1, <1>2 DEF Quiet, r

\* The members of the stream that stand for no operation.
LEMMA MembersQuiet ==
    ASSUME NEW s, Sound(s), NEW r, Sound(r), r.queue = s.queue, r.kernel = s.kernel,
           Flags(r) = Flags(s), r.wq = s.wq \/ Closed(s)
    PROVE  Quiet(s, r)
BY DEF Quiet

LEMMA MaybeRunCloseCallbackQuiet ==
    ASSUME NEW s, Sound(s), Closed(s)
    PROVE  Quiet(s, MaybeRunCloseCallback(s))
<1> DEFINE p == RunCallback(s, "close", s.reads, 0, 0)
           c == ClearCallbacks(p)
<1>1. s.reads \in Nat /\ "close" \in Callbacks
  BY DEF Sound, StreamType, Callbacks
<1>2. Quiet(s, p) /\ Sound(p)
  BY <1>1, RunCallbackQuiet, RunCallbackSound
<1> HIDE DEF p
<1>3. Quiet(p, c) /\ Sound(c) /\ Quiet(s, c)
  BY <1>2, ClearCallbacksQuiet, ClearCallbacksSound, QuietOn
<1> HIDE DEF c
<1>4. Closed(c)
  BY <1>3 DEF Quiet, Flags, Closed
<1>5. \A w \in Seq(Nat) :
        LET r == [c EXCEPT !.wq = w]
            x == [s EXCEPT !.readCb = 0, !.writeCb = 0, !.wq = w]
        IN  /\ Sound(r) /\ r.queue = c.queue /\ r.kernel = c.kernel /\ Flags(r) = Flags(c)
            /\ Sound(x) /\ x.queue = s.queue /\ x.kernel = s.kernel /\ Flags(x) = Flags(s)
  BY <1>3, ZenonT(30) DEF Sound, StreamType, Flags
<1>6. Quiet(s, [c EXCEPT !.wq = <<>>])
  BY <1>3, <1>4, <1>5, EmptySequence, MembersQuiet, QuietOn
<1>7. Quiet(s, [s EXCEPT !.readCb = 0, !.writeCb = 0, !.wq = <<>>])
  BY <1>5, EmptySequence, MembersQuiet
<1>8. Quiet(s, s) /\ Quiet(s, ClearCallbacks(s))
  BY QuietSelf, ClearCallbacksQuiet
<1> QED BY <1>6, <1>7, <1>8 DEF MaybeRunCloseCallback, c, p

LEMMA FinishUntilCloseQuiet ==
    ASSUME NEW s, Sound(s)
    PROVE  Quiet(s, FinishUntilClose(s))
<1> DEFINE streams == s.streamCb # 0 /\ Active(s) > 0
           p == RunCallback(s, "stream", s.streamCb, s.consumed, s.received)
           t == IF streams THEN [p EXCEPT !.consumed = s.received] ELSE s
           cb == IF t.readCb = 0 THEN "lostRead" ELSE "read"
           u == RunCallback(t, cb, t.readCb, t.consumed, t.received)
           r == [u EXCEPT !.consumed = t.received, !.readCb = 0, !.untilClose = FALSE]
<1>0. s.streamCb \in Nat /\ s.consumed \in Nat /\ s.received \in Nat /\ "stream" \in Callbacks
  BY DEF Sound, StreamType, Callbacks
<1>1. Sound(p) /\ Quiet(s, p)
  BY <1>0, RunCallbackSound, RunCallbackQuiet
<1> HIDE DEF p
<1>2. Sound(t) /\ Quiet(s, t)
  <2>1. \A n \in Nat : LET x == [p EXCEPT !.consumed = n]
                       IN  Sound(x) /\ x.queue = p.queue /\ x.kernel = p.kernel
                           /\ Flags(x) = Flags(p) /\ x.wq = p.wq
    BY <1>1 DEF Sound, StreamType, Flags
  <2>2. Sound([p EXCEPT !.consumed = s.received]) /\ Quiet(p, [p EXCEPT !.consumed = s.received])
    BY <1>0, <1>1, <2>1, MembersQuiet
  <2> QED BY <1>1, <2>2, QuietOn, QuietSelf
<1> HIDE DEF t
<1>3. t.readCb \in Nat /\ t.consumed \in Nat /\ t.received \in Nat /\ cb \in Callbacks
  BY <1>2 DEF Sound, StreamType, Callbacks, Empty
<1> HIDE DEF cb
<1>4. Sound(u) /\ Quiet(t, u)
  BY <1>2, <1>3, RunCallbackSound, RunCallbackQuiet
<1> HIDE DEF u
<1>5. /\ Sound(r) /\ r.queue = u.queue /\ r.kernel = u.kernel /\ Flags(r) = Flags(u)
      /\ r.wq = u.wq
  BY <1>3, <1>4, ZenonT(30) DEF Sound, StreamType, Flags
<1>6. FinishUntilClose(s) = r
  BY DEF FinishUntilClose, u, cb, t, p
<1> HIDE DEF r
<1>7. Quiet(u, r)
  BY <1>4, <1>5, MembersQuiet
<1> QED BY <1>2, <1>4, <1>6, <1>7, QuietOn

LEMMA StreamedQuiet ==
    ASSUME NEW s, Sound(s)
    PROVE  Quiet(s, Streamed(s))
<1>1. CASE s.streamCb = 0 \/ Active(s) = 0
  BY <1>1, QuietSelf DEF Streamed
<1>2. CASE ~(s.streamCb = 0 \/ Active(s) = 0)
  <2> DEFINE n == IF s.readBytes # None /\ s.readBytes < Active(s)
                  THEN s.readBytes ELSE Active(s)
             end == s.consumed + n
             p == RunCallback(s, "stream", s.streamCb, s.consumed, end)
             r == Streamed(s)
  <2>1. s.streamCb \in Nat /\ s.consumed \in Nat /\ end \in Nat /\ "stream" \in Callbacks
    <3>1. /\ s.streamCb \in Nat /\ s.consumed \in Nat /\ s.received \in Nat
          /\ s.readBytes \in Nat \cup {None}
      BY DEF Sound, StreamType
    <3>2. CASE s.readBytes # None /\ s.readBytes < Active(s)
      <4>1. n = s.readBytes /\ s.readBytes \in Nat
        BY <3>1, <3>2
      <4> QED BY <3>1, <4>1 DEF Callbacks
    <3>3. CASE ~(s.readBytes # None /\ s.readBytes < Active(s))
      <4>1. n = s.received - s.consumed
        BY <3>3 DEF Active
      <4> QED BY <3>1, <4>1 DEF Callbacks
    <3> QED BY <3>2, <3>3
  <2>2. Streamed(s) = [p EXCEPT !.consumed = @ + n,
                                !.readBytes = IF @ = None THEN None ELSE @ - n]
    BY <1>2 DEF Streamed, p, end
  <2> HIDE DEF end, n
  <2>3. Sound(p) /\ Quiet(s, p)
    BY <2>1, RunCallbackSound, RunCallbackQuiet
  <2> HIDE DEF p
  <2>4. r.queue = p.queue /\ r.kernel = p.kernel /\ Flags(r) = Flags(p) /\ r.wq = p.wq
    BY <2>2, <2>3 DEF Sound, StreamType, Flags
  <2>5. Sound(r)
    BY StreamedSound
  <2> HIDE DEF r
  <2>6. Quiet(p, r)
    BY <2>3, <2>4, <2>5, MembersQuiet
  <2> QED BY <2>3, <2>6, QuietOn DEF r
<1> QED BY <1>1, <1>2

LEMMA DeliveredQuiet ==
    ASSUME NEW s, Sound(s), Ends(s) # {}
    PROVE  Quiet(s, Delivered(s))
<1> DEFINE end == Least(Ends(s))
           cb == IF s.readCb = 0 THEN "lostRead" ELSE "read"
           p == RunCallback(s, cb, s.readCb, s.consumed, end)
           r == Delivered(s)
<1>1. end \in Nat
  BY EndsAreNat, LeastInSet DEF Sound
<1>2. s.readCb \in Nat /\ s.consumed \in Nat /\ cb \in Callbacks
  BY DEF Sound, StreamType, Callbacks, Empty
<1>3. r = [p EXCEPT !.consumed = end, !.readCb = 0, !.streamCb = 0,
                    !.readBytes = IF Source(s) = "bytes" THEN None ELSE @,
                    !.marks = @ \ {Source(s)}]
  BY DEF Delivered, p, cb, end
<1> HIDE DEF end, cb
<1>4. Sound(p) /\ Quiet(s, p)
  BY <1>1, <1>2, RunCallbackSound, RunCallbackQuiet
<1> HIDE DEF p
<1>5. r.queue = p.queue /\ r.kernel = p.kernel /\ Flags(r) = Flags(p) /\ r.wq = p.wq
  BY <1>3, <1>4 DEF Sound, StreamType, Flags
<1>6. Sound(r)
  BY DeliveredSound
<1> HIDE DEF r
<1>7. Quiet(p, r)
  BY <1>4, <1>5, <1>6, MembersQuiet
<1> QED BY <1>4, <1>7, QuietOn DEF r

LEMMA ReadFromBufferQuiet ==
    ASSUME NEW s, Sound(s)
    PROVE  Quiet(s, ReadFromBuffer(s))
<1> DEFINE t == Streamed(s)
<1>1. Sound(t) /\ Quiet(s, t)
  BY StreamedSound, StreamedQuiet
<1>2. Ends(t) # {} => Quiet(t, Delivered(t))
  BY <1>1, DeliveredQuiet
<1> QED BY <1>1, <1>2, QuietOn DEF ReadFromBuffer, Completes

LEMMA ReadRestQuiet ==
    ASSUME NEW s, Sound(s)
    PROVE  Quiet(s, ReadRest(s))
<1> DEFINE p == RunCallback(s, "stream", s.streamCb, s.consumed, s.received)
           t == IF s.streamCb = 0 THEN s ELSE [p EXCEPT !.consumed = s.received]
           u == RunCallback(t, "read", t.readCb, t.consumed, t.received)
           r == [u EXCEPT !.consumed = t.received, !.readCb = 0, !.streamCb = 0]
<1>0. s.streamCb \in Nat /\ s.consumed \in Nat /\ s.received \in Nat /\ "stream" \in Callbacks
  BY DEF Sound, StreamType, Callbacks
<1>1. Sound(p) /\ Quiet(s, p)
  BY <1>0, RunCallbackSound, RunCallbackQuiet
<1> HIDE DEF p
<1>2. Sound(t) /\ Quiet(s, t)
  <2>1. \A n \in Nat : LET x == [p EXCEPT !.consumed = n]
                       IN  Sound(x) /\ x.queue = p.queue /\ x.kernel = p.kernel
                           /\ Flags(x) = Flags(p) /\ x.wq = p.wq
    BY <1>1, ZenonT(30) DEF Sound, StreamType, Flags
  <2>2. Sound([p EXCEPT !.consumed = s.received]) /\ Quiet(p, [p EXCEPT !.consumed = s.received])
    BY <1>0, <1>1, <2>1, MembersQuiet
  <2> QED BY <1>1, <2>2, QuietOn, QuietSelf
<1> HIDE DEF t
<1>3. t.readCb \in Nat /\ t.consumed \in Nat /\ t.received \in Nat /\ "read" \in Callbacks
  BY <1>2 DEF Sound, StreamType, Callbacks
<1>4. Sound(u) /\ Quiet(t, u)
  BY <1>2, <1>3, RunCallbackSound, RunCallbackQuiet
<1> HIDE DEF u
<1>5. /\ Sound(r) /\ r.queue = u.queue /\ r.kernel = u.kernel /\ Flags(r) = Flags(u)
      /\ r.wq = u.wq
  BY <1>3, <1>4, ZenonT(30) DEF Sound, StreamType, Flags
<1>6. ReadRest(s) = r
  BY DEF ReadRest, u, t, p
<1> HIDE DEF r
<1>7. Quiet(u, r)
  BY <1>4, <1>5, MembersQuiet
<1> QED BY <1>2, <1>4, <1>6, <1>7, QuietOn

-----------------------------------------------------------------------------
\* Starting an operation

\* From s to r operation op was started and nothing else.
Begun(s, r, op) ==
    /\ Fine(r) /\ Out(r, op)
    /\ \A x \in Operations : x # op => (Out(r, x) <=> Out(s, x))
    /\ Flags(r) = Flags(s) /\ r.wq = s.wq

LEMMA ArmBegins ==
    ASSUME NEW s, Fine(s), NEW op \in Operations, ~Out(s, op),
           op = "connect" => ~s.closed /\ ~Out(s, "handshake")
    PROVE  Begun(s, Arm(s, op), op)
<1> DEFINE r == Arm(s, op)
           h == [op |-> op, res |-> "error", n |-> 0]
<1>1. Sound(r) /\ Sound(s)
  BY ArmSound DEF Fine
<1>2. op \notin s.kernel /\ OpsAt(s.queue, op) = {}
  BY DEF Out
<1>3. CASE s.closed
  <2> DEFINE p == Append(s.queue, h)
  <2>1. r.queue = p /\ r.kernel = s.kernel /\ Flags(r) = Flags(s) /\ r.wq = s.wq
    BY <1>1, <1>3 DEF Arm, Sound, StreamType, Flags
  <2>2. h \in Completions /\ h.op = op
    BY DEF Completions, Results
  <2> HIDE DEF h
  <2>3. /\ Len(s.queue) \in Nat
        /\ \A x : OpsAt(s.queue, x) \subseteq 1..Len(s.queue)
        /\ OpsAt(p, op) = {Len(s.queue) + 1}
        /\ \A x : x # op => OpsAt(p, x) = OpsAt(s.queue, x)
    <3>1. s.queue \in Seq(Handlers) /\ h \in Handlers /\ ~IsRun(h)
      BY <1>1, <2>2, NoOpsRun, QueueIs
    <3>2. /\ Len(s.queue) \in Nat
          /\ \A x : /\ OpsAt(s.queue, x) \subseteq 1..Len(s.queue)
                   /\ OpsAt(p, x) = OpsAt(s.queue, x) \cup
                        (IF ~IsRun(h) /\ h.op = x THEN {Len(s.queue) + 1} ELSE {})
      BY <3>1, AppendOps
    <3> HIDE DEF p
    <3> QED BY <1>2, <2>2, <3>1, <3>2
  <2> HIDE DEF p, r
  <2>4. r.kernel = {} /\ r.closed = s.closed /\ s.kernel = {}
    BY <1>3, <2>1 DEF Flags, Fine
  <2>5. \A x \in Operations : \A i, j \in OpsAt(p, x) : i = j
    <3>1. \A x \in Operations : \A i, j \in OpsAt(s.queue, x) : i = j
      BY DEF Fine, Ordered
    <3> QED BY <2>3, <3>1
  <2>6. \A i \in OpsAt(p, "connect"), j \in OpsAt(p, "handshake") : i < j
    <3>1. op # "connect"
      BY <1>3
    <3>2. CASE op = "handshake"
      <4>1. \A i \in OpsAt(p, "connect") : i \in 1..Len(s.queue)
        BY <2>3, <3>2
      <4>2. \A i \in 1..Len(s.queue) : i < Len(s.queue) + 1
        BY <2>3
      <4> QED BY <2>3, <3>2, <4>1, <4>2
    <3>3. CASE op # "handshake"
      BY <2>3, <3>1, <3>3 DEF Fine, Ordered
    <3> QED BY <3>2, <3>3
  <2>7. Fine(r)
    BY <1>1, <2>1, <2>4, <2>5, <2>6 DEF Fine, Ordered
  <2>8. Out(r, op) /\ \A x \in Operations : x # op => (Out(r, x) <=> Out(s, x))
    BY <2>1, <2>3 DEF Out
  <2> QED BY <2>1, <2>7, <2>8 DEF Begun, r
<1>4. CASE ~s.closed
  <2>1. /\ r.queue = s.queue /\ r.kernel = s.kernel \cup {op} /\ Flags(r) = Flags(s)
        /\ r.wq = s.wq
    BY <1>1, <1>4 DEF Arm, Sound, StreamType, Flags
  <2> HIDE DEF r
  <2>2. ~r.closed
    BY <1>4, <2>1 DEF Flags
  <2>3. Fine(r)
    BY <1>1, <1>2, <2>1, <2>2 DEF Fine, Ordered, Out
  <2>4. Out(r, op) /\ \A x \in Operations : x # op => (Out(r, x) <=> Out(s, x))
    BY <2>1 DEF Out
  <2> QED BY <2>1, <2>3, <2>4 DEF Begun, r
<1> QED BY <1>3, <1>4

\* The five operations, one by one.
LEMMA BegunIs ==
    ASSUME NEW s, NEW op \in Operations, NEW r, Begun(s, r, op)
    PROVE  /\ op # "read" => (Out(r, "read") <=> Out(s, "read"))
           /\ op # "connect" => (Out(r, "connect") <=> Out(s, "connect"))
           /\ op # "handshake" => (Out(r, "handshake") <=> Out(s, "handshake"))
           /\ op # "write" => (Out(r, "write") <=> Out(s, "write"))
           /\ op # "shutdown" => (Out(r, "shutdown") <=> Out(s, "shutdown"))
           /\ Out(r, op) /\ Fine(r) /\ Sound(r)
           /\ r.sRead = s.sRead /\ r.sWrite = s.sWrite /\ r.sslAccepting = s.sslAccepting
           /\ r.sslAccepted = s.sslAccepted /\ r.opened = s.opened /\ r.closing = s.closing
           /\ r.closed = s.closed /\ r.undefined = s.undefined /\ r.wq = s.wq
BY DEF Begun, Flags, Operations, Fine

\* Setting the flags of a stream.
LEMMA FlagsFine ==
    ASSUME NEW s, Fine(s), NEW r, Sound(r), r.queue = s.queue, r.kernel = s.kernel,
           r.closed = s.closed \/ s.kernel = {}
    PROVE  Fine(r) /\ \A op : Out(r, op) <=> Out(s, op)
BY DEF Fine, Out

LEMMA DoHandshakeFits ==
    ASSUME NEW s, Fit(s), Secure
    PROVE  Leads(s, DoHandshake(s))
<1>1. CASE s.sslAccepted \/ s.sslAccepting
  BY <1>1 DEF DoHandshake, Leads
<1>2. CASE ~(s.sslAccepted \/ s.sslAccepting)
  <2> DEFINE t == Arm(s, "handshake")
             r == [t EXCEPT !.sslAccepting = TRUE, !.sWrite = TRUE]
  <2>1. "handshake" \in Operations /\ ~Out(s, "handshake") /\ Fine(s) /\ Flagged(s)
    BY <1>2 DEF Operations, Fit, Flagged
  <2>2. Begun(s, t, "handshake")
    BY <2>1, ArmBegins
  <2>3. DoHandshake(s) = r
    BY <1>2 DEF DoHandshake
  <2> HIDE DEF t
  <2>4. Sound(t) /\ Fine(t)
    BY <2>1, <2>2, BegunIs
  <2>5. /\ Sound(r) /\ r.queue = t.queue /\ r.kernel = t.kernel /\ r.closed = t.closed
        /\ r.closing = t.closing /\ r.sRead = t.sRead /\ r.sWrite /\ r.sslAccepting
        /\ r.sslAccepted = t.sslAccepted /\ r.opened = t.opened /\ r.undefined = t.undefined
        /\ r.wq = t.wq
    BY <2>4 DEF Sound, StreamType
  <2> HIDE DEF r
  <2>6. Fine(r) /\ \A op : Out(r, op) <=> Out(t, op)
    BY <2>4, <2>5, FlagsFine
  <2>7. Flagged(r) /\ r.opened = s.opened /\ (Closed(s) => Closed(r))
    BY <1>2, <2>1, <2>2, <2>5, <2>6, BegunIs DEF Flagged, Writers, Closed
  <2> QED BY <2>3, <2>6, <2>7 DEF Leads, Fit
<1> QED BY <1>1, <1>2

LEMMA DoReadFits ==
    ASSUME NEW s, Fit(s), ~s.sRead, Secure => s.sslAccepted
    PROVE  Leads(s, DoRead(s))
<1> DEFINE t == Arm(s, "read")
           r == [t EXCEPT !.sRead = TRUE]
<1>1. "read" \in Operations /\ ~Out(s, "read") /\ Fine(s) /\ Flagged(s)
  BY DEF Operations, Fit, Flagged
<1>2. Begun(s, t, "read")
  BY <1>1, ArmBegins
<1>3. DoRead(s) = r
  BY DEF DoRead
<1> HIDE DEF t
<1>4. Sound(t) /\ Fine(t)
  BY <1>1, <1>2, BegunIs
<1>5. /\ Sound(r) /\ r.queue = t.queue /\ r.kernel = t.kernel /\ r.closed = t.closed
      /\ r.closing = t.closing /\ r.sRead /\ r.sWrite = t.sWrite
      /\ r.sslAccepting = t.sslAccepting
      /\ r.sslAccepted = t.sslAccepted /\ r.opened = t.opened /\ r.undefined = t.undefined
      /\ r.wq = t.wq
  BY <1>4 DEF Sound, StreamType
<1> HIDE DEF r
<1>6. Fine(r) /\ \A op : Out(r, op) <=> Out(t, op)
  BY <1>4, <1>5, FlagsFine
<1>7. Flagged(r) /\ r.opened = s.opened /\ (Closed(s) => Closed(r))
  BY <1>1, <1>2, <1>5, <1>6, BegunIs DEF Flagged, Writers, Closed
<1> QED BY <1>3, <1>6, <1>7 DEF Leads, Fit

LEMMA ReadFromSocketFits ==
    ASSUME NEW s, Fit(s), ~s.sRead
    PROVE  Leads(s, ReadFromSocket(s))
BY DoReadFits, DoHandshakeFits DEF ReadFromSocket

LEMMA ListenerFits ==
    ASSUME NEW s, Fit(s)
    PROVE  Leads(s, MaybeAddErrorListener(s))
<1>1. Sound(s) /\ Fine(s) /\ Flagged(s)
  BY DEF Fit, Fine
<1>2. Leads(s, s)
  BY DEF Leads
<1>3. Closed(s) => Leads(s, MaybeRunCloseCallback(s))
  BY <1>1, MaybeRunCloseCallbackQuiet, QuietFits
<1>4. ~s.sRead => Leads(s, ReadFromSocket(s))
  BY ReadFromSocketFits
<1> QED BY <1>2, <1>3, <1>4 DEF MaybeAddErrorListener

-----------------------------------------------------------------------------
\* Closing

\* The queue p is q when the reactor has given up an operation.
GivenUp(q, k, op, p) ==
    /\ p \in Seq(Handlers) /\ Ordered(p, k \ {op})
    /\ \A x : (x \in k \ {op} \/ OpsAt(p, x) # {}) <=> (x \in k \/ OpsAt(q, x) # {})

LEMMA AbortOne ==
    ASSUME NEW q \in Seq(Handlers), NEW k, Ordered(q, k), NEW op \in Operations,
           op = "handshake" => "connect" \notin k, NEW h \in Completions, h.op = op,
           NEW p, op \in k => p = Append(q, h), op \notin k => p = q
    PROVE  GivenUp(q, k, op, p)
<1>1. CASE op \notin k
  <2>1. p = q /\ k \ {op} = k
    BY <1>1
  <2> QED BY <2>1 DEF GivenUp
<1>2. CASE op \in k
  <2>1. p = Append(q, h) /\ h \in Handlers /\ ~IsRun(h)
    BY <1>2, NoOpsRun
  <2>2. /\ Len(q) \in Nat /\ p \in Seq(Handlers)
        /\ \A x : /\ OpsAt(q, x) \subseteq 1..Len(q)
                  /\ OpsAt(p, x) = OpsAt(q, x) \cup
                       (IF ~IsRun(h) /\ h.op = x THEN {Len(q) + 1} ELSE {})
    BY <2>1, AppendOps
  <2>3. OpsAt(q, op) = {}
    BY <1>2 DEF Ordered
  <2>4. OpsAt(p, op) = {Len(q) + 1} /\ \A x : x # op => OpsAt(p, x) = OpsAt(q, x)
    BY <2>1, <2>2, <2>3
  <2>5. \A x \in Operations : \A i, j \in OpsAt(p, x) : i = j
    <3>1. \A x \in Operations : \A i, j \in OpsAt(q, x) : i = j
      BY DEF Ordered
    <3> QED BY <2>4, <3>1
  <2>6. \A x \in k \ {op} : OpsAt(p, x) = {}
    BY <2>4 DEF Ordered
  <2>7. OpsAt(p, "handshake") # {} => "connect" \notin k \ {op}
    BY <2>4 DEF Ordered
  <2>8. \A i \in OpsAt(p, "connect"), j \in OpsAt(p, "handshake") : i < j
    <3>1. CASE op = "handshake"
      <4>1. \A i \in OpsAt(p, "connect") : i \in 1..Len(q)
        BY <2>2, <2>4, <3>1
      <4>2. \A i \in 1..Len(q) : i < Len(q) + 1
        BY <2>2
      <4> QED BY <2>4, <3>1, <4>1, <4>2
    <3>2. CASE op = "connect"
      <4>1. OpsAt(q, "handshake") = {}
        BY <1>2, <3>2 DEF Ordered
      <4> QED BY <2>4, <3>2, <4>1
    <3>3. CASE op # "handshake" /\ op # "connect"
      BY <2>4, <3>3 DEF Ordered
    <3> QED BY <3>1, <3>2, <3>3
  <2>9. Ordered(p, k \ {op})
    BY <2>5, <2>6, <2>7, <2>8 DEF Ordered
  <2> QED BY <1>2, <2>2, <2>4, <2>9 DEF GivenUp
<1> QED BY <1>1, <1>2

LEMMA AbortedIs ==
    ASSUME NEW s, NEW op \in Operations, NEW q \in Seq(Handlers), NEW k,
           op \in k <=> op \in s.kernel
    PROVE  \E h \in Completions :
             h.op = op /\ q \o Aborted(s, op) = IF op \in k THEN Append(q, h) ELSE q
<1> DEFINE h == [op |-> op, res |-> "aborted", n |-> 0]
<1>1. h \in Completions /\ h.op = op
  BY DEF Completions, Results
<1> HIDE DEF h
<1>2. CASE op \in k
  <2>1. Aborted(s, op) = <<h>>
    BY <1>2 DEF Aborted, h
  <2>2. q \o <<h>> = Append(q, h)
    OBVIOUS
  <2> QED BY <1>1, <1>2, <2>1, <2>2
<1>3. CASE op \notin k
  <2>1. Aborted(s, op) = <<>>
    BY <1>3 DEF Aborted
  <2>2. q \o <<>> = q
    OBVIOUS
  <2> QED BY <1>1, <1>3, <2>1, <2>2
<1> QED BY <1>2, <1>3

LEMMA AbortStep ==
    ASSUME NEW s, NEW op \in Operations, NEW q \in Seq(Handlers), NEW k, Ordered(q, k),
           op \in k <=> op \in s.kernel, op = "handshake" => "connect" \notin k
    PROVE  LET p == q \o Aborted(s, op)
           IN  /\ p \in Seq(Handlers) /\ Ordered(p, k \ {op})
               /\ \A x : (x \in k \ {op} \/ OpsAt(p, x) # {}) <=> (x \in k \/ OpsAt(q, x) # {})
<1>1. PICK h \in Completions :
        h.op = op /\ q \o Aborted(s, op) = IF op \in k THEN Append(q, h) ELSE q
  BY AbortedIs
<1> DEFINE p == q \o Aborted(s, op)
<1>2. (op \in k => p = Append(q, h)) /\ (op \notin k => p = q)
  BY <1>1
<1> HIDE DEF p
<1>3. GivenUp(q, k, op, p)
  <2>1. h.op = op
    BY <1>1
  <2>2. CASE op \in k
    BY <1>2, <2>1, <2>2, AbortOne
  <2>3. CASE op \notin k
    BY <1>2, <2>1, <2>3, AbortOne
  <2> QED BY <2>2, <2>3
<1> QED BY <1>3 DEF GivenUp, p

LEMMA AbortOperationsFine ==
    ASSUME NEW s, Fine(s)
    PROVE  LET r == AbortOperations(s)
           IN  /\ Ordered(r.queue, r.kernel) /\ r.kernel = {}
               /\ \A x : Out(r, x) <=> Out(s, x)
               /\ r \in StreamType /\ Flags(r) = Flags(s) /\ r.wq = s.wq
<1> DEFINE r == AbortOperations(s)
           k1 == s.kernel \ {"read"}
           k2 == k1 \ {"connect"}
           k3 == k2 \ {"handshake"}
           k4 == k3 \ {"write"}
           k5 == k4 \ {"shutdown"}
           q1 == s.queue \o Aborted(s, "read")
           q2 == q1 \o Aborted(s, "connect")
           q3 == q2 \o Aborted(s, "handshake")
           q4 == q3 \o Aborted(s, "write")
           q5 == q4 \o Aborted(s, "shutdown")
<1>1. /\ Ordered(s.queue, s.kernel) /\ s.queue \in Seq(Handlers) /\ Sound(s)
      /\ s.kernel \in SUBSET Operations /\ s \in StreamType
  BY QueueIs DEF Fine, Sound
<1>2. /\ "read" \in Operations /\ "connect" \in Operations /\ "handshake" \in Operations
      /\ "write" \in Operations /\ "shutdown" \in Operations
  BY DEF Operations
<1>3. /\ "connect" \in k1 <=> "connect" \in s.kernel
      /\ "handshake" \in k2 <=> "handshake" \in s.kernel
      /\ "connect" \notin k2
      /\ "write" \in k3 <=> "write" \in s.kernel
      /\ "shutdown" \in k4 <=> "shutdown" \in s.kernel
      /\ k5 = {}
  BY <1>1 DEF Operations
<1>4. /\ r.kernel = {} /\ r.queue = q5 /\ Flags(r) = Flags(s) /\ r.wq = s.wq
      /\ r \in StreamType
  BY <1>1, AbortOperationsType, ZenonT(30) DEF AbortOperations, StreamType, Flags
<1>5. /\ q1 \in Seq(Handlers) /\ Ordered(q1, k1)
      /\ \A x : (x \in k1 \/ OpsAt(q1, x) # {}) <=> (x \in s.kernel \/ OpsAt(s.queue, x) # {})
  <2> DEFINE q == s.queue
             k == s.kernel
  <2>1. q \in Seq(Handlers) /\ Ordered(q, k) /\ ("read" \in k <=> "read" \in s.kernel)
    BY <1>1
  <2> HIDE DEF q, k
  <2>2. LET p == q \o Aborted(s, "read")
        IN  /\ p \in Seq(Handlers) /\ Ordered(p, k \ {"read"})
            /\ \A x : (x \in k \ {"read"} \/ OpsAt(p, x) # {}) <=> (x \in k \/ OpsAt(q, x) # {})
    BY <1>2, <2>1, AbortStep
  <2> QED BY <2>2 DEF q, k
<1> HIDE DEF q1, k1, r
<1>6. /\ q2 \in Seq(Handlers) /\ Ordered(q2, k2)
      /\ \A x : (x \in k2 \/ OpsAt(q2, x) # {}) <=> (x \in k1 \/ OpsAt(q1, x) # {})
  BY <1>2, <1>3, <1>5, AbortStep
<1> HIDE DEF q2, k2
<1>7. /\ q3 \in Seq(Handlers) /\ Ordered(q3, k3)
      /\ \A x : (x \in k3 \/ OpsAt(q3, x) # {}) <=> (x \in k2 \/ OpsAt(q2, x) # {})
  BY <1>2, <1>3, <1>6, AbortStep
<1> HIDE DEF q3, k3
<1>8. /\ q4 \in Seq(Handlers) /\ Ordered(q4, k4)
      /\ \A x : (x \in k4 \/ OpsAt(q4, x) # {}) <=> (x \in k3 \/ OpsAt(q3, x) # {})
  BY <1>2, <1>3, <1>7, AbortStep
<1> HIDE DEF q4, k4
<1>9. /\ q5 \in Seq(Handlers) /\ Ordered(q5, k5)
      /\ \A x : (x \in k5 \/ OpsAt(q5, x) # {}) <=> (x \in k4 \/ OpsAt(q4, x) # {})
  BY <1>2, <1>3, <1>8, AbortStep
<1> HIDE DEF q5, k5
<1>10. \A x : Out(r, x) <=> Out(s, x)
  BY <1>3, <1>4, <1>5, <1>6, <1>7, <1>8, <1>9 DEF Out
<1> QED BY <1>3, <1>4, <1>9, <1>10 DEF r

LEMMA DoCloseFits ==
    ASSUME NEW s, Fit(s)
    PROVE  Leads(s, DoClose(s)) /\ Closed(DoClose(s))
<1> DEFINE t == AbortOperations(s)
           u == [t EXCEPT !.closing = FALSE, !.closed = TRUE]
           r == MaybeRunCloseCallback(u)
<1>1. Fine(s) /\ Flagged(s)
  BY DEF Fit
<1>2. /\ Ordered(t.queue, t.kernel) /\ t.kernel = {} /\ \A x : Out(t, x) <=> Out(s, x)
      /\ t \in StreamType /\ Flags(t) = Flags(s) /\ t.wq = s.wq
  BY <1>1, AbortOperationsFine
<1> HIDE DEF t
<1>3. /\ Sound(u) /\ u.queue = t.queue /\ u.kernel = t.kernel /\ u.closed /\ u.wq = t.wq
      /\ u.sRead = t.sRead /\ u.sWrite = t.sWrite /\ u.sslAccepting = t.sslAccepting
      /\ u.sslAccepted = t.sslAccepted /\ u.opened = t.opened /\ u.undefined = t.undefined
  BY <1>2 DEF Sound, StreamType
<1>4. r = DoClose(s)
  BY DEF DoClose, OnClose, u, t
<1> HIDE DEF u
<1>5. Fine(u)
  BY <1>2, <1>3 DEF Fine
<1>6. \A x : Out(u, x) <=> Out(s, x)
  BY <1>2, <1>3 DEF Out
<1>7. Closed(u)
  BY <1>3 DEF Closed
<1>8. Flagged(u) /\ u.opened = s.opened
  BY <1>1, <1>2, <1>3, <1>6, <1>7 DEF Flagged, Flags, Writers
<1>9. Quiet(u, r)
  BY <1>3, <1>7, MaybeRunCloseCallbackQuiet
<1> HIDE DEF r
<1>10. Leads(u, r)
  BY <1>5, <1>8, <1>9, QuietFits
<1> QED BY <1>4, <1>7, <1>8, <1>10 DEF Leads

LEMMA CloseFits ==
    ASSUME NEW s, Fit(s)
    PROVE  Leads(s, Close(s)) /\ Closed(Close(s))
<1>1. CASE Closed(s)
  BY <1>1 DEF Close, Leads
<1>2. CASE ~Closed(s)
  <2> DEFINE t == IF s.untilClose THEN FinishUntilClose(s) ELSE s
             u == [t EXCEPT !.closing = TRUE]
  <2>0. Close(s) = CloseSocket(u)
    BY <1>2 DEF Close, u, t
  <2>1. Fine(s) /\ Flagged(s) /\ Sound(s)
    BY DEF Fit, Fine
  <2>2. Quiet(s, t)
    BY <2>1, FinishUntilCloseQuiet, QuietSelf
  <2> HIDE DEF t
  <2>3. Fine(t) /\ Flagged(t) /\ t.opened = s.opened /\ ~t.closed
    BY <1>2, <2>1, <2>2, QuietFits DEF Quiet, Flags, Closed
  <2>4. /\ Sound(u) /\ u.queue = t.queue /\ u.kernel = t.kernel /\ u.closed = t.closed
        /\ u.closing /\ u.wq = t.wq /\ u.sRead = t.sRead /\ u.sWrite = t.sWrite
        /\ u.sslAccepting = t.sslAccepting /\ u.sslAccepted = t.sslAccepted
        /\ u.opened = t.opened /\ u.undefined = t.undefined
    BY <2>3 DEF Fine, Sound, StreamType
  <2> HIDE DEF u
  <2>5. Fine(u) /\ \A op : Out(u, op) <=> Out(t, op)
    BY <2>3, <2>4, FlagsFine
  <2>6. Closed(u)
    BY <2>4 DEF Closed
  <2>7. Flagged(u) /\ Fit(u)
    BY <2>3, <2>4, <2>5, <2>6 DEF Flagged, Fit, Writers
  <2>8. CASE ~(Secure /\ u.sslAccepted /\ ~u.sWrite)
    <3>1. CloseSocket(u) = DoClose(u)
      BY <2>8 DEF CloseSocket
    <3>2. Leads(u, DoClose(u)) /\ Closed(DoClose(u))
      BY <2>7, DoCloseFits
    <3> QED BY <2>0, <2>3, <2>4, <2>6, <3>1, <3>2 DEF Leads
  <2>9. CASE Secure /\ u.sslAccepted /\ ~u.sWrite
    <3> DEFINE a == Arm(u, "shutdown")
               r == [a EXCEPT !.sWrite = TRUE]
    <3>1. "shutdown" \in Operations /\ ~Out(u, "shutdown") /\ ~Out(u, "connect")
          /\ ~Out(u, "write")
      BY <2>7, <2>9 DEF Operations, Flagged, Writers
    <3>2. Begun(u, a, "shutdown")
      BY <2>5, <3>1, ArmBegins
    <3>3. CloseSocket(u) = r
      BY <2>9 DEF CloseSocket
    <3> HIDE DEF a
    <3>4. Fine(a) /\ Sound(a)
      BY <3>1, <3>2, BegunIs
    <3>5. /\ Sound(r) /\ r.queue = a.queue /\ r.kernel = a.kernel /\ r.closed = a.closed
          /\ r.closing = a.closing /\ r.wq = a.wq /\ r.sRead = a.sRead /\ r.sWrite
          /\ r.sslAccepting = a.sslAccepting /\ r.sslAccepted = a.sslAccepted
          /\ r.opened = a.opened /\ r.undefined = a.undefined
      BY <3>4 DEF Sound, StreamType
    <3> HIDE DEF r
    <3>6. Fine(r) /\ \A op : Out(r, op) <=> Out(a, op)
      BY <3>4, <3>5, FlagsFine
    <3>7. Closed(r) /\ r.opened = u.opened
      BY <2>4, <3>1, <3>2, <3>5, BegunIs DEF Closed
    <3>8. Flagged(r)
      BY <2>7, <2>9, <3>1, <3>2, <3>5, <3>6, <3>7, BegunIs DEF Flagged, Writers
    <3> QED BY <2>0, <2>3, <2>4, <3>3, <3>6, <3>7, <3>8 DEF Leads, Fit
  <2> QED BY <2>8, <2>9
<1> QED BY <1>1, <1>2

-----------------------------------------------------------------------------
\* Reading

LEMMA TryInlineReadFits ==
    ASSUME NEW s, Fit(s)
    PROVE  Leads(s, TryInlineRead(s))
<1> DEFINE b == ReadFromBuffer(s)
<1>1. Sound(s) /\ Fine(s) /\ Flagged(s)
  BY DEF Fit, Fine
<1>2. Quiet(s, b)
  BY <1>1, ReadFromBufferQuiet
<1> HIDE DEF b
<1>3. Leads(s, b) /\ Fit(b) /\ b.sRead = s.sRead
  BY <1>1, <1>2, QuietFits DEF Leads, Quiet, Flags
<1>4. ~s.sRead => Leads(s, ReadFromSocket(b))
  BY <1>3, ReadFromSocketFits, LeadsOn
<1> QED BY <1>3, <1>4 DEF TryInlineRead, b

\* The handler of a read: S_READ was that of the completed operation.
LEMMA OnReadFits ==
    ASSUME NEW s \in StreamType, Fit([s EXCEPT !.sRead = FALSE]), NEW res, NEW n \in Nat,
           res = "aborted" => Closed(s)
    PROVE  Leads(s, OnRead(s, res, n))
<1> DEFINE t == [s EXCEPT !.sRead = FALSE]
           more == t.received + n
           u == [t EXCEPT !.received = more]
           v == ReadFromBuffer(u)
<1>1. t.opened = s.opened /\ t.closing = s.closing /\ t.closed = s.closed /\ ~t.sRead
  BY DEF StreamType
<1>2. OnRead(s, res, n) =
        CASE res = "aborted" -> MaybeRunCloseCallback(t) [] res = "error" -> Close(t)
          [] res = "overflow" -> Close(u)
          [] OTHER -> IF Completes(u) \/ Closed(u) THEN v
                      ELSE IF v.readCb # 0 THEN ReadFromSocket(v) ELSE MaybeAddErrorListener(v)
  BY DEF OnRead
<1>3. Fit(t) /\ Fine(t) /\ Flagged(t) /\ Sound(t)
  BY DEF Fit, Fine
<1> HIDE DEF t
<1>4. more \in Nat
  <2>1. t \in StreamType
    BY <1>3 DEF Sound
  <2>2. t.received \in Nat
    BY <2>1 DEF StreamType
  <2> QED BY <2>2
<1> HIDE DEF more
<1>5. /\ Sound(u) /\ u.queue = t.queue /\ u.kernel = t.kernel /\ Flags(u) = Flags(t)
      /\ u.wq = t.wq
  BY <1>3, <1>4 DEF Sound, StreamType, Flags
<1> HIDE DEF u
<1>6. Quiet(t, u) /\ Quiet(u, v)
  BY <1>3, <1>5, MembersQuiet, ReadFromBufferQuiet
<1> HIDE DEF v
<1>7. Leads(t, u) /\ Leads(t, v) /\ Fit(u) /\ Fit(v) /\ ~v.sRead
  <2>1. Quiet(t, v)
    BY <1>6, QuietOn
  <2> QED BY <1>1, <1>3, <1>6, <2>1, QuietFits DEF Leads, Quiet, Flags
<1>8. Leads(t, Close(t)) /\ Leads(u, Close(u)) /\ Leads(v, ReadFromSocket(v))
      /\ Leads(v, MaybeAddErrorListener(v))
  BY <1>3, <1>7, CloseFits, ReadFromSocketFits, ListenerFits
<1>9. Closed(t) => Leads(t, MaybeRunCloseCallback(t))
  BY <1>3, MaybeRunCloseCallbackQuiet, QuietFits
<1>10. (Closed(s) <=> Closed(t)) /\ t.opened = s.opened
  BY <1>1 DEF Closed
<1>11. Leads(t, OnRead(s, res, n))
  BY <1>2, <1>7, <1>8, <1>9, <1>10, LeadsOn
<1> QED BY <1>10, <1>11 DEF Leads

-----------------------------------------------------------------------------
\* Writing

LEMMA FreeStreams ==
    ASSUME NEW s, Fit(s), ~s.sWrite
    PROVE  ~Out(s, "connect") /\ ~Out(s, "write") /\ ~Out(s, "shutdown")
BY DEF Fit, Flagged, Writers

\* The close callback of a stream on which nothing is written.
LEMMA MaybeRunCloseCallbackFits ==
    ASSUME NEW s, Fit(s), ~s.sWrite
    PROVE  Leads(s, MaybeRunCloseCallback(s))
<1>1. Sound(s) /\ Fine(s) /\ Flagged(s) /\ ~Out(s, "write")
  BY FreeStreams DEF Fit, Fine
<1>2. CASE Closed(s)
  BY <1>1, <1>2, MaybeRunCloseCallbackQuiet, QuietFits
<1>3. CASE ~Closed(s)
  <2> DEFINE w == <<>>
             r == [s EXCEPT !.readCb = 0, !.writeCb = 0, !.wq = w]
  <2>1. w \in Seq(Nat)
    BY EmptySequence
  <2>2. MaybeRunCloseCallback(s) =
          IF s.closeCb THEN r ELSE IF s.pending = 0 THEN ClearCallbacks(s) ELSE s
    BY <1>3 DEF MaybeRunCloseCallback, Closed
  <2> HIDE DEF w
  <2>3. /\ Sound(r) /\ r.queue = s.queue /\ r.kernel = s.kernel /\ Flags(r) = Flags(s)
    BY <1>1, <2>1 DEF Sound, StreamType, Flags
  <2> HIDE DEF r
  <2>4. Fine(r) /\ \A op : Out(r, op) <=> Out(s, op)
    BY <1>1, <2>3, FlagsFine DEF Flags
  <2>5. Flagged(r) /\ r.opened = s.opened
    BY <1>1, <2>3, <2>4 DEF Flagged, Flags, Writers, Closed
  <2>6. Leads(s, r) /\ Leads(s, s)
    BY <1>3, <2>4, <2>5 DEF Leads, Fit
  <2>7. Leads(s, ClearCallbacks(s))
    BY <1>1, ClearCallbacksQuiet, QuietFits
  <2> QED BY <2>2, <2>6, <2>7
<1> QED BY <1>2, <1>3

\* S_WRITE and the write callback of a stream on which nothing is written.
LEMMA WriteFailedFits ==
    ASSUME NEW s \in StreamType, Fit([s EXCEPT !.sWrite = FALSE]), NEW res
    PROVE  Leads(s, WriteFailed(s, res))
<1> DEFINE c == [s EXCEPT !.sWrite = FALSE]
           t == [s EXCEPT !.sWrite = FALSE, !.writeCb = 0]
<1>1. Sound(c) /\ Fine(c) /\ Flagged(c)
  BY DEF Fit, Fine
<1>2. /\ Sound(t) /\ t.queue = c.queue /\ t.kernel = c.kernel /\ Flags(t) = Flags(c)
      /\ t.wq = c.wq /\ t.opened = s.opened /\ t.closing = s.closing /\ t.closed = s.closed
      /\ ~t.sWrite
  BY <1>1, ZenonT(30) DEF Sound, StreamType, Flags
<1>3. WriteFailed(s, res) = IF res = "error" THEN Close(t) ELSE MaybeRunCloseCallback(t)
  BY DEF WriteFailed
<1> HIDE DEF c, t
<1>4. Fit(t)
  BY <1>1, <1>2, MembersQuiet, QuietFits DEF Fit
<1>5. Leads(t, Close(t))
  BY <1>4, CloseFits
<1>6. Leads(t, MaybeRunCloseCallback(t))
  BY <1>2, <1>4, MaybeRunCloseCallbackFits
<1>7. t.opened = s.opened /\ (Closed(s) <=> Closed(t))
  BY <1>2 DEF Closed
<1> QED BY <1>3, <1>5, <1>6, <1>7 DEF Leads

\* Posting the write callback.
LEMMA PostWriteFits ==
    ASSUME NEW s, Fit(s), NEW cb \in Callbacks
    PROVE  Leads(s, [RunCallback(s, cb, s.writeCb, 0, s.writeEnd) EXCEPT !.writeCb = 0])
<1> DEFINE p == RunCallback(s, cb, s.writeCb, 0, s.writeEnd)
           r == [p EXCEPT !.writeCb = 0]
<1>1. Sound(s) /\ Fine(s) /\ Flagged(s)
  BY DEF Fit, Fine
<1>2. s.writeCb \in Nat /\ s.writeEnd \in Nat /\ 0 \in Nat
  BY <1>1 DEF Sound, StreamType
<1>3. Sound(p) /\ Quiet(s, p)
  BY <1>1, <1>2, RunCallbackSound, RunCallbackQuiet
<1> HIDE DEF p
<1>4. Sound(r) /\ r.queue = p.queue /\ r.kernel = p.kernel /\ Flags(r) = Flags(p) /\ r.wq = p.wq
  BY <1>3 DEF Sound, StreamType, Flags
<1> HIDE DEF r
<1>5. Quiet(s, r)
  BY <1>3, <1>4, MembersQuiet, QuietOn
<1> QED BY <1>1, <1>5, QuietFits DEF r, p

LEMMA WriteDrainedFits ==
    ASSUME NEW s, Fit(s), ~s.sWrite
    PROVE  Leads(s, WriteDrained(s))
<1> DEFINE t == [s EXCEPT !.sWrite = FALSE]
<1>1. Sound(s) /\ Fine(s) /\ Flagged(s)
  BY DEF Fit, Fine
<1>2. /\ Sound(t) /\ t.queue = s.queue /\ t.kernel = s.kernel /\ Flags(t) = Flags(s)
      /\ t.wq = s.wq
  BY <1>1 DEF Sound, StreamType, Flags
<1>3. WriteDrained(s) =
        IF t.writeCb # 0
        THEN [RunCallback(t, "write", t.writeCb, 0, t.writeEnd) EXCEPT !.writeCb = 0]
        ELSE IF Closed(t) THEN t ELSE MaybeAddErrorListener(t)
  BY DEF WriteDrained
<1> HIDE DEF t
<1>4. Leads(s, t) /\ Fit(t)
  BY <1>1, <1>2, MembersQuiet, QuietFits DEF Leads
<1>5. Leads(t, [RunCallback(t, "write", t.writeCb, 0, t.writeEnd) EXCEPT !.writeCb = 0])
  BY <1>4, PostWriteFits DEF Callbacks
<1>6. Leads(t, MaybeAddErrorListener(t))
  BY <1>4, ListenerFits
<1> QED BY <1>3, <1>4, <1>5, <1>6, LeadsOn

LEMMA ArmWriteFits ==
    ASSUME NEW s, Fit(s), ~s.sWrite, s.wq # <<>>, Secure => s.sslAccepted
    PROVE  Leads(s, ArmWrite(s)) /\ ArmWrite(s).sRead = s.sRead
           /\ ArmWrite(s).sslAccepted = s.sslAccepted
<1> DEFINE t == Arm(s, "write")
           r == [t EXCEPT !.sWrite = TRUE]
<1>1. /\ "write" \in Operations /\ Fine(s) /\ Flagged(s)
      /\ ~Out(s, "write") /\ ~Out(s, "connect") /\ ~Out(s, "shutdown")
  BY FreeStreams DEF Operations, Fit
<1>2. Begun(s, t, "write")
  BY <1>1, ArmBegins
<1>3. ArmWrite(s) = r
  BY DEF ArmWrite
<1> HIDE DEF t
<1>4. Sound(t) /\ Fine(t)
  BY <1>1, <1>2, BegunIs
<1>5. /\ Sound(r) /\ r.queue = t.queue /\ r.kernel = t.kernel /\ r.closed = t.closed
      /\ r.closing = t.closing /\ r.sRead = t.sRead /\ r.sWrite
      /\ r.sslAccepting = t.sslAccepting
      /\ r.sslAccepted = t.sslAccepted /\ r.opened = t.opened /\ r.undefined = t.undefined
      /\ r.wq = t.wq
  BY <1>4 DEF Sound, StreamType
<1> HIDE DEF r
<1>6. Fine(r) /\ \A op : Out(r, op) <=> Out(t, op)
  BY <1>4, <1>5, FlagsFine
<1>7. Flagged(r) /\ r.opened = s.opened /\ (Closed(s) => Closed(r)) /\ r.sRead = s.sRead
      /\ r.sslAccepted = s.sslAccepted
  BY <1>1, <1>2, <1>5, <1>6, BegunIs DEF Flagged, Writers, Closed
<1> QED BY <1>3, <1>6, <1>7 DEF Leads, Fit

\* Packets leave, or are joined, while nothing is being written.
Queued(s, w, n) == [s EXCEPT !.wq = w, !.sent = n]
Joined(s, w) == [s EXCEPT !.wq = w]

LEMMA PacketsFit ==
    ASSUME NEW s, Fit(s), ~s.sWrite, NEW w \in Seq(Nat), NEW n \in Nat
    PROVE  /\ Leads(s, Queued(s, w, n)) /\ Flags(Queued(s, w, n)) = Flags(s)
           /\ Queued(s, w, n).wq = w
           /\ Leads(s, Joined(s, w)) /\ Flags(Joined(s, w)) = Flags(s)
           /\ Joined(s, w).wq = w
<1> DEFINE r == [s EXCEPT !.wq = w, !.sent = n]
           x == [s EXCEPT !.wq = w]
<1>1. Sound(s) /\ Fine(s) /\ Flagged(s) /\ ~Out(s, "write")
  BY FreeStreams DEF Fit, Fine
<1>2. /\ Sound(r) /\ r.queue = s.queue /\ r.kernel = s.kernel /\ Flags(r) = Flags(s)
      /\ r.wq = w
      /\ Sound(x) /\ x.queue = s.queue /\ x.kernel = s.kernel /\ Flags(x) = Flags(s)
      /\ x.wq = w
  BY <1>1 DEF Sound, StreamType, Flags
<1> HIDE DEF r, x
<1>3. ASSUME NEW y, Sound(y), y.queue = s.queue, y.kernel = s.kernel, Flags(y) = Flags(s)
      PROVE  Leads(s, y)
  <2>1. Fine(y) /\ \A op : Out(y, op) <=> Out(s, op)
    BY <1>1, <1>3, FlagsFine DEF Flags
  <2>2. Flagged(y) /\ y.opened = s.opened /\ (Closed(s) => Closed(y))
    BY <1>1, <1>3, <2>1 DEF Flagged, Flags, Writers, Closed
  <2> QED BY <2>1, <2>2 DEF Leads, Fit
<1> QED BY <1>2, <1>3 DEF r, x, Queued, Joined

LEMMA DoWriteFits ==
    ASSUME NEW s, Fit(s), ~s.sWrite, s.wq # <<>>, Secure => s.sslAccepted
    PROVE  Leads(s, DoWrite(s)) /\ DoWrite(s).sRead = s.sRead
           /\ DoWrite(s).sslAccepted = s.sslAccepted
<1> DEFINE w == <<s.wq[Len(s.wq)]>>
           t == [s EXCEPT !.wq = w]
<1>1. w \in Seq(Nat) /\ w # <<>>
  BY DEF Fit, Fine, Sound, StreamType
<1>2. DoWrite(s) = ArmWrite(t)
  BY DEF DoWrite
<1> HIDE DEF w
<1>3. Leads(s, t) /\ Flags(t) = Flags(s) /\ t.wq = w
  <2>1. 0 \in Nat
    OBVIOUS
  <2> QED BY <1>1, <2>1, PacketsFit DEF Joined
<1> HIDE DEF t
<1>4. Fit(t) /\ ~t.sWrite /\ t.wq # <<>> /\ t.sslAccepted = s.sslAccepted /\ t.sRead = s.sRead
  BY <1>1, <1>3 DEF Leads, Flags
<1>5. Leads(t, ArmWrite(t)) /\ ArmWrite(t).sRead = t.sRead
      /\ ArmWrite(t).sslAccepted = t.sslAccepted
  BY <1>4, ArmWriteFits
<1> QED BY <1>2, <1>3, <1>4, <1>5, LeadsOn

\* An outcome of one pass over the write queue of s.
Possible(s, o) ==
    /\ o.kind \in {"all", "error", "zero", "block"}
    /\ o.kind = "block" => o.k \in 0..(Len(s.wq) - 1) /\ o.to \in Nat

LEMMA WriteToSocketFits ==
    ASSUME NEW s, Fit(s), ~s.sWrite, s.wq # <<>>, NEW o, Possible(s, o)
    PROVE  Leads(s, WriteToSocket(s, o))
<1>0. Sound(s) /\ s.wq \in Seq(Nat) /\ s.written \in Nat /\ s \in StreamType
  BY DEF Fit, Fine, Sound, StreamType
<1>1. CASE Secure
  BY <1>1, DoWriteFits, DoHandshakeFits DEF WriteToSocket
<1>2. CASE ~Secure /\ o.kind = "all"
  <2> DEFINE w == <<>>
             n == s.written
             t == Queued(s, w, n)
  <2>1. w \in Seq(Nat) /\ n \in Nat
    BY <1>0, EmptySequence
  <2>2. WriteToSocket(s, o) = WriteDrained(t)
    BY <1>2 DEF WriteToSocket, Queued
  <2> HIDE DEF w, n
  <2>3. Leads(s, t) /\ Flags(t) = Flags(s)
    BY <2>1, PacketsFit
  <2> HIDE DEF t
  <2>4. Fit(t) /\ ~t.sWrite
    BY <2>3 DEF Leads, Flags
  <2> QED BY <2>2, <2>3, <2>4, WriteDrainedFits, LeadsOn
<1>3. CASE ~Secure /\ o.kind = "error"
  <2> DEFINE c == [s EXCEPT !.sWrite = FALSE]
  <2>1. c = s
    BY <1>0 DEF StreamType
  <2>2. Leads(s, WriteFailed(s, "error"))
    BY <1>0, <2>1, WriteFailedFits
  <2> QED BY <1>3, <2>2 DEF WriteToSocket
<1>4. CASE ~Secure /\ o.kind = "zero"
  BY <1>4, CloseFits DEF WriteToSocket
<1>5. CASE ~Secure /\ o.kind = "block"
  <2> DEFINE w == SubSeq(s.wq, o.k + 1, Len(s.wq))
             n == o.to
             t == Queued(s, w, n)
  <2>1. w \in Seq(Nat) /\ n \in Nat /\ w # <<>>
    <3>1. o.k \in 0..(Len(s.wq) - 1) /\ Len(s.wq) \in Nat /\ n \in Nat
      BY <1>0, <1>5 DEF Possible
    <3>2. \A i \in 1..Len(s.wq) : s.wq[i] \in Nat
      BY <1>0
    <3>3. \A i \in (o.k + 1)..Len(s.wq) : s.wq[i] \in Nat
      BY <3>1, <3>2
    <3>4. w \in Seq(Nat) /\ Len(w) = Len(s.wq) - o.k
      BY <1>0, <3>1, <3>3
    <3> HIDE DEF w
    <3>5. Len(w) > 0
      BY <3>1, <3>4
    <3>6. w # <<>>
      <4>1. Len(<<>>) = 0
        OBVIOUS
      <4> QED BY <3>5, <4>1
    <3> QED BY <3>1, <3>4, <3>6
  <2>2. WriteToSocket(s, o) = ArmWrite(t)
    BY <1>5 DEF WriteToSocket, Queued
  <2> HIDE DEF w, n
  <2>3. w \in Seq(Nat) /\ n \in Nat
    BY <2>1
  <2>6. Leads(s, t) /\ Flags(t) = Flags(s) /\ t.wq = w
    BY <2>3, PacketsFit
  <2> HIDE DEF t
  <2>4. Fit(t) /\ ~t.sWrite
    BY <2>6 DEF Leads, Flags
  <2>5. Leads(t, ArmWrite(t))
    BY <1>5, <2>1, <2>6, <2>4, ArmWriteFits
  <2> QED BY <2>2, <2>6, <2>5, LeadsOn
<1> QED BY <1>1, <1>2, <1>3, <1>4, <1>5 DEF Possible

\* A front packet is taken by the handler of the write that sent it.
LEMMA TakeFrontFits ==
    ASSUME NEW s, Fit(s), ~s.sWrite, s.wq # <<>> \/ Closed(s), NEW n \in Nat
    PROVE  Leads(s, TakeFront(s, n)) /\ TakeFront(s, n).sWrite = s.sWrite
<1>0. Sound(s) /\ Fine(s) /\ Flagged(s) /\ s.sent \in Nat /\ s.wq \in Seq(Nat)
  BY DEF Fit, Fine, Sound, StreamType
<1>1. CASE s.wq = <<>>
  <2> DEFINE r == [s EXCEPT !.undefined = TRUE]
  <2>1. /\ Sound(r) /\ r.queue = s.queue /\ r.kernel = s.kernel /\ r.wq = s.wq
        /\ r.closing = s.closing /\ r.closed = s.closed /\ r.opened = s.opened
        /\ r.sRead = s.sRead /\ r.sWrite = s.sWrite /\ r.sslAccepting = s.sslAccepting
        /\ r.sslAccepted = s.sslAccepted
    BY <1>0 DEF Sound, StreamType
  <2>2. TakeFront(s, n) = r
    BY <1>1 DEF TakeFront
  <2> HIDE DEF r
  <2>3. Fine(r) /\ \A op : Out(r, op) <=> Out(s, op)
    BY <1>0, <2>1, FlagsFine
  <2>4. Closed(s) /\ Closed(r)
    BY <1>1, <2>1 DEF Closed
  <2>5. Flagged(r)
    BY <1>0, <2>1, <2>3, <2>4 DEF Flagged, Writers
  <2> QED BY <2>1, <2>2, <2>3, <2>4, <2>5 DEF Leads, Fit
<1>2. CASE s.wq # <<>>
  <2> DEFINE w == IF s.sent + n = Head(s.wq) THEN Tail(s.wq) ELSE s.wq
             to == s.sent + n
  <2>1. w \in Seq(Nat) /\ to \in Nat
    BY <1>0, <1>2
  <2>2. TakeFront(s, n) = Queued(s, w, to)
    BY <1>0, <1>2 DEF TakeFront, Queued, Sound, StreamType
  <2> HIDE DEF w, to
  <2>3. Leads(s, Queued(s, w, to)) /\ Flags(Queued(s, w, to)) = Flags(s)
    BY <2>1, PacketsFit
  <2> QED BY <2>2, <2>3 DEF Flags
<1> QED BY <1>1, <1>2

LEMMA OnWriteFits ==
    ASSUME NEW s \in StreamType, Fit([s EXCEPT !.sWrite = FALSE]), s.wq # <<>> \/ Closed(s),
           NEW res, NEW n \in Nat,
           NEW o \in Outcomes(TakeFront(s, n))
    PROVE  Leads(s, OnWrite(s, res, n, o))
<1> DEFINE c == [s EXCEPT !.sWrite = FALSE]
           t == TakeFront(c, n)
           x == TakeFront(s, n)
<1>1. OnWrite(s, res, n, o) =
        IF res # "ok" THEN WriteFailed(s, res) ELSE IF t.wq = <<>> THEN WriteDrained(t)
        ELSE IF Closed(t) THEN t ELSE WriteToSocket(t, o)
  BY DEF OnWrite
<1>2. res # "ok" => Leads(s, WriteFailed(s, res))
  BY WriteFailedFits
<1>3. x \in StreamType /\ x.wq = t.wq
  <2>1. CASE s.wq = <<>>
    BY <2>1 DEF TakeFront, StreamType
  <2>2. CASE s.wq # <<>>
    <3> DEFINE w == IF s.sent + n = Head(s.wq) THEN Tail(s.wq) ELSE s.wq
               to == s.sent + n
    <3>1. w \in Seq(Nat) /\ to \in Nat
      BY <2>2 DEF StreamType
    <3>2. x = [s EXCEPT !.wq = w, !.sent = to] /\ t = [c EXCEPT !.wq = w, !.sent = to]
      BY <2>2 DEF TakeFront, StreamType
    <3>3. c \in StreamType
      BY DEF StreamType
    <3> HIDE DEF w, to, c, x, t
    <3>4. x \in StreamType /\ x.wq = w
      BY <3>1, <3>2 DEF StreamType
    <3>5. t.wq = w
      BY <3>1, <3>2, <3>3 DEF StreamType
    <3> QED BY <3>4, <3>5
  <2> QED BY <2>1, <2>2
<1>4. Possible(t, o)
  <2> HIDE DEF t, x
  <2>1. o \in Outcomes(x)
    BY DEF x
  <2> QED BY <1>3, <2>1, OutcomesAre DEF Possible
<1>5. Fit(c) /\ ~c.sWrite /\ (c.wq # <<>> \/ Closed(c)) /\ c.opened = s.opened
      /\ (Closed(s) => Closed(c))
  BY DEF StreamType, Closed
<1> HIDE DEF c
<1>6. Leads(c, t) /\ Fit(t) /\ ~t.sWrite
  BY <1>5, TakeFrontFits DEF Leads
<1> HIDE DEF t
<1>7. Leads(t, WriteDrained(t)) /\ (t.wq # <<>> => Leads(t, WriteToSocket(t, o)))
  BY <1>4, <1>6, WriteDrainedFits, WriteToSocketFits
<1>8. res = "ok" => Leads(c, OnWrite(s, res, n, o))
  BY <1>1, <1>6, <1>7, LeadsOn
<1> QED BY <1>1, <1>2, <1>5, <1>8 DEF Leads

LEMMA FlushFits ==
    ASSUME NEW s, Fit(s), NEW o \in Outcomes(s)
    PROVE  Leads(s, Flush(s, o))
<1> DEFINE cb == IF s.writeCb = 0 THEN "noWrite" ELSE "write"
<1>1. s \in StreamType /\ cb \in Callbacks
  BY DEF Fit, Fine, Sound, Callbacks, Empty
<1>2. Flush(s, o) =
        IF s.connecting THEN s
        ELSE IF s.wq = <<>>
             THEN [RunCallback(s, cb, s.writeCb, 0, s.writeEnd) EXCEPT !.writeCb = 0]
             ELSE IF s.sWrite THEN s ELSE WriteToSocket(s, o)
  BY DEF Flush
<1> HIDE DEF cb
<1>3. Possible(s, o)
  BY <1>1, OutcomesAre DEF Possible
<1>4. Leads(s, s)
  BY DEF Leads
<1>5. Leads(s, [RunCallback(s, cb, s.writeCb, 0, s.writeEnd) EXCEPT !.writeCb = 0])
  BY <1>1, PostWriteFits
<1>6. s.wq # <<>> /\ ~s.sWrite => Leads(s, WriteToSocket(s, o))
  BY <1>3, WriteToSocketFits
<1> QED BY <1>2, <1>4, <1>5, <1>6

-----------------------------------------------------------------------------
\* Connecting

\* As WriteFailedFits, of a connect.
LEMMA ConnectFailedFits ==
    ASSUME NEW s \in StreamType, Fit([s EXCEPT !.sWrite = FALSE]), NEW res
    PROVE  Leads(s, ConnectFailed(s, res))
<1> DEFINE c == [s EXCEPT !.sWrite = FALSE]
           t == [s EXCEPT !.sWrite = FALSE, !.connectCb = FALSE]
<1>1. Sound(c) /\ Fine(c) /\ Flagged(c)
  BY DEF Fit, Fine
<1>2. /\ Sound(t) /\ t.queue = c.queue /\ t.kernel = c.kernel /\ Flags(t) = Flags(c)
      /\ t.wq = c.wq /\ t.opened = s.opened /\ t.closing = s.closing /\ t.closed = s.closed
      /\ ~t.sWrite
  BY <1>1, ZenonT(30) DEF Sound, StreamType, Flags
<1>3. ConnectFailed(s, res) = IF res = "error" THEN Close(t) ELSE MaybeRunCloseCallback(t)
  BY DEF ConnectFailed
<1> HIDE DEF c, t
<1>4. Fit(t)
  BY <1>1, <1>2, MembersQuiet, QuietFits DEF Fit
<1>5. Leads(t, Close(t))
  BY <1>4, CloseFits
<1>6. Leads(t, MaybeRunCloseCallback(t))
  BY <1>2, <1>4, MaybeRunCloseCallbackFits
<1>7. t.opened = s.opened /\ (Closed(s) <=> Closed(t))
  BY <1>2 DEF Closed
<1> QED BY <1>3, <1>5, <1>6, <1>7 DEF Leads

\* The connect callback is posted.
LEMMA PostConnectQuiet ==
    ASSUME NEW s, Sound(s)
    PROVE  LET p == RunCallback(s, "connect", 0, 0, 0)
           IN  /\ Quiet(s, [p EXCEPT !.connectCb = FALSE])
               /\ [p EXCEPT !.connectCb = FALSE].wq = s.wq
               /\ Quiet(s, [p EXCEPT !.sslConnectCb = FALSE])
               /\ [p EXCEPT !.sslConnectCb = FALSE].wq = s.wq
<1> DEFINE p == RunCallback(s, "connect", 0, 0, 0)
           r == [p EXCEPT !.connectCb = FALSE]
           x == [p EXCEPT !.sslConnectCb = FALSE]
<1>1. Sound(p) /\ Quiet(s, p) /\ p.wq = s.wq
  <2>1. "connect" \in Callbacks /\ 0 \in Nat
    BY DEF Callbacks
  <2> QED BY <2>1, RunCallbackSound, RunCallbackQuiet
<1> HIDE DEF p
<1>2. Sound(r) /\ r.queue = p.queue /\ r.kernel = p.kernel /\ Flags(r) = Flags(p) /\ r.wq = p.wq
  BY <1>1, ZenonT(30) DEF Sound, StreamType, Flags
<1>3. Sound(x) /\ x.queue = p.queue /\ x.kernel = p.kernel /\ Flags(x) = Flags(p) /\ x.wq = p.wq
  BY <1>1, ZenonT(30) DEF Sound, StreamType, Flags
<1> HIDE DEF r, x
<1>4. Quiet(s, r) /\ Quiet(s, x)
  BY <1>1, <1>2, <1>3, MembersQuiet, QuietOn
<1> QED BY <1>1, <1>2, <1>3, <1>4 DEF r, x, p

LEMMA OnConnectFits ==
    ASSUME NEW s \in StreamType, Fit([s EXCEPT !.sWrite = FALSE]), NEW res,
           NEW o \in Outcomes(s)
    PROVE  Leads(s, OnConnect(s, res, o))
<1> DEFINE t == [s EXCEPT !.sWrite = FALSE]
           p == [RunCallback(t, "connect", 0, 0, 0) EXCEPT !.connectCb = FALSE]
           u == IF t.connectCb THEN p ELSE t
           v == [u EXCEPT !.connecting = FALSE]
<1>1. OnConnect(s, res, o) =
        IF res # "ok" THEN ConnectFailed(s, res)
        ELSE IF s.closed THEN u
        ELSE IF v.wq # <<>> THEN WriteToSocket(v, o)
        ELSE IF v.writeCb # 0
             THEN [RunCallback(v, "write", v.writeCb, 0, v.writeEnd) EXCEPT !.writeCb = 0]
             ELSE MaybeAddErrorListener(v)
  BY DEF OnConnect
<1>2. Fine(t) /\ Sound(t) /\ Flagged(t) /\ t.wq = s.wq /\ ~t.sWrite /\ t.opened = s.opened
      /\ (Closed(s) => Closed(t))
  BY DEF Fit, Fine, StreamType, Closed
<1> HIDE DEF t
<1>3. Quiet(t, p) /\ p.wq = t.wq
  BY <1>2, PostConnectQuiet
<1> HIDE DEF p
<1>4. Quiet(t, u) /\ u.wq = s.wq /\ Sound(u)
  <2>1. Quiet(t, t)
    BY <1>2, QuietSelf
  <2> QED BY <1>2, <1>3, <2>1 DEF Quiet
<1> HIDE DEF u
<1>5. Sound(v) /\ v.queue = u.queue /\ v.kernel = u.kernel /\ Flags(v) = Flags(u) /\ v.wq = u.wq
  BY <1>4, ZenonT(30) DEF Sound, StreamType, Flags
<1> HIDE DEF v
<1>6. Quiet(t, v) /\ v.wq = s.wq
  BY <1>4, <1>5, MembersQuiet, QuietOn
<1>7. Leads(t, v) /\ Fit(v) /\ ~v.sWrite
  BY <1>2, <1>6, QuietFits DEF Leads, Quiet, Flags
<1>8. Possible(v, o)
  BY <1>6, OutcomesAre DEF Possible
<1>9. v.wq # <<>> => Leads(v, WriteToSocket(v, o))
  BY <1>7, <1>8, WriteToSocketFits
<1>10. Leads(v, [RunCallback(v, "write", v.writeCb, 0, v.writeEnd) EXCEPT !.writeCb = 0])
  BY <1>7, PostWriteFits DEF Callbacks
<1>11. Leads(v, MaybeAddErrorListener(v))
  BY <1>7, ListenerFits
<1>12. Leads(s, ConnectFailed(s, res))
  BY ConnectFailedFits DEF t
<1>13. Leads(t, u)
  BY <1>2, <1>4, QuietFits DEF Leads, Quiet, Flags
<1>14. res = "ok" => Leads(t, OnConnect(s, res, o))
  BY <1>1, <1>7, <1>9, <1>10, <1>11, <1>13, LeadsOn
<1> QED BY <1>1, <1>2, <1>12, <1>14 DEF Leads

\* The handler of a handshake, whose flags are cleared.
LEMMA OnHandshakeFits ==
    ASSUME NEW s \in StreamType, Fit([s EXCEPT !.sWrite = FALSE, !.sslAccepting = FALSE]),
           ~s.sRead, NEW res
    PROVE  Leads(s, OnHandshake(s, res))
<1> DEFINE t == [s EXCEPT !.sWrite = FALSE, !.sslAccepting = FALSE]
           u == [t EXCEPT !.sslAccepted = TRUE]
           p == [RunCallback(u, "connect", 0, 0, 0) EXCEPT !.sslConnectCb = FALSE]
           v == IF u.sslConnectCb THEN p ELSE u
           w == IF v.wq # <<>> THEN DoWrite(v) ELSE v
           x == IF w.readCb # 0 THEN DoRead(w) ELSE w
<1>1. OnHandshake(s, res) = CASE res = "aborted" -> t [] res = "error" -> Close(t)
                              [] OTHER -> MaybeAddErrorListener(x)
  BY DEF OnHandshake
<1>2. /\ Sound(t) /\ Fine(t) /\ Flagged(t) /\ Fit(t)
      /\ ~t.sWrite /\ ~t.sslAccepting /\ ~t.sRead /\ t.opened = s.opened
      /\ (Closed(s) => Closed(t))
  BY DEF Fit, Fine, StreamType, Closed
<1> HIDE DEF t
<1>3. /\ Sound(u) /\ u.queue = t.queue /\ u.kernel = t.kernel /\ u.wq = t.wq /\ u.sslAccepted
      /\ u.sRead = t.sRead /\ u.sWrite = t.sWrite /\ u.sslAccepting = t.sslAccepting
      /\ u.closing = t.closing /\ u.closed = t.closed /\ u.opened = t.opened
      /\ u.undefined = t.undefined
  BY <1>2 DEF Sound, StreamType
<1> HIDE DEF u
<1>4. Fine(u) /\ \A op : Out(u, op) <=> Out(t, op)
  BY <1>2, <1>3, FlagsFine
<1>5. Flagged(u) /\ Leads(t, u)
  <2>1. Flagged(u)
    BY <1>2, <1>3, <1>4 DEF Flagged, Writers, Closed
  <2> QED BY <1>3, <1>4, <2>1 DEF Leads, Fit, Closed
<1>6. Quiet(u, p)
  BY <1>3, PostConnectQuiet
<1> HIDE DEF p
<1>7. Quiet(u, v)
  BY <1>3, <1>6, QuietSelf
<1> HIDE DEF v
<1>8. Leads(u, v) /\ Fit(v) /\ ~v.sWrite /\ ~v.sRead /\ v.sslAccepted
  BY <1>2, <1>3, <1>4, <1>5, <1>7, QuietFits DEF Leads, Quiet, Flags
<1>9. Leads(v, w) /\ Fit(w) /\ ~w.sRead /\ w.sslAccepted
  <2>1. v.wq # <<>> => Leads(v, DoWrite(v)) /\ DoWrite(v).sRead = v.sRead
                       /\ DoWrite(v).sslAccepted = v.sslAccepted
    BY <1>8, DoWriteFits
  <2>2. Leads(v, v)
    BY <1>8 DEF Leads
  <2> QED BY <1>8, <2>1, <2>2 DEF Leads
<1> HIDE DEF w
<1>10. Leads(w, x) /\ Fit(x)
  <2>1. Leads(w, DoRead(w)) /\ Leads(w, w)
    BY <1>9, DoReadFits DEF Leads
  <2> QED BY <2>1 DEF Leads
<1> HIDE DEF x
<1>11. Leads(x, MaybeAddErrorListener(x)) /\ Leads(t, Close(t)) /\ Leads(t, t)
  BY <1>2, <1>10, ListenerFits, CloseFits DEF Leads
<1>12. Leads(t, MaybeAddErrorListener(x))
  BY <1>5, <1>8, <1>9, <1>10, <1>11, LeadsOn
<1>13. Leads(t, OnHandshake(s, res))
  BY <1>1, <1>11, <1>12
<1> QED BY <1>2, <1>13 DEF Leads

LEMMA OnShutdownFits ==
    ASSUME NEW s \in StreamType, Fit([s EXCEPT !.sWrite = FALSE])
    PROVE  Leads(s, OnShutdown(s))
<1> DEFINE t == [s EXCEPT !.sWrite = FALSE]
<1>1. Fit(t) /\ t.opened = s.opened /\ (Closed(s) => Closed(t))
  BY DEF StreamType, Closed
<1>2. OnShutdown(s) = DoClose(t)
  BY DEF OnShutdown
<1> HIDE DEF t
<1> QED BY <1>1, <1>2, DoCloseFits DEF Leads

-----------------------------------------------------------------------------
\* The inductive invariant and the calls of the application

\* Before it is opened a stream has started nothing and runs nothing, unless the
\* application has closed it.
Unopened ==
    ~stream.opened =>
        \/ Closed(stream) /\ ~Accepted
        \/ stream.kernel = {} /\ stream.queue = <<>> /\ ~stream.sslAccepted /\ running = Idle

PInv == IInv /\ Fit(stream) /\ Unopened

\* A step of an opened stream, or one that closes it.
LEMMA LeadsInv ==
    ASSUME PInv, Leads(stream, stream'),
           stream.opened \/ (Closed(stream') /\ ~Accepted)
    PROVE  Fit(stream') /\ Unopened'
BY DEF Leads, Unopened, Closed

\* Other members of the stream.
LEMMA FieldsFit ==
    ASSUME NEW s, Fit(s), NEW r, Sound(r), r.queue = s.queue, r.kernel = s.kernel,
           r.sRead = s.sRead, r.sWrite = s.sWrite, r.sslAccepting = s.sslAccepting,
           r.sslAccepted = s.sslAccepted, r.closing = s.closing, r.closed = s.closed,
           r.undefined = s.undefined, s.wq # <<>> => r.wq # <<>>
    PROVE  Fit(r) /\ (r.opened = s.opened => Leads(s, r))
<1>1. Fine(s) /\ Flagged(s)
  BY DEF Fit
<1>2. Fine(r) /\ \A op : Out(r, op) <=> Out(s, op)
  BY <1>1, FlagsFine
<1>3. Flagged(r) /\ (Closed(s) <=> Closed(r))
  BY <1>1, <1>2 DEF Flagged, Writers, Closed
<1> QED BY <1>2, <1>3 DEF Leads, Fit

LEMMA EnqueueFits ==
    ASSUME NEW s, Fit(s), NEW len \in Nat, NEW cb \in Nat
    PROVE  Leads(s, Enqueue(s, len, cb))
<1> DEFINE w == s.wq \o Packets(s.written, len)
           end == s.written + len
           r == [s EXCEPT !.wq = w, !.written = end, !.writeCb = cb, !.writeEnd = end]
<1>1. s.written \in Nat /\ s.wq \in Seq(Nat) /\ Sound(s)
  BY DEF Fit, Fine, Sound, StreamType
<1>2. w \in Seq(Nat) /\ end \in Nat /\ (s.wq # <<>> => w # <<>>)
  <2>1. Packets(s.written, len) \in Seq(Nat)
    BY <1>1, PacketsType
  <2>2. \A a, b \in Seq(Nat) : a \o b \in Seq(Nat) /\ (a # <<>> => a \o b # <<>>)
    OBVIOUS
  <2> QED BY <1>1, <2>1, <2>2
<1>3. Enqueue(s, len, cb) = r
  BY DEF Enqueue
<1> HIDE DEF w, end
<1>4. /\ Sound(r) /\ r.queue = s.queue /\ r.kernel = s.kernel
      /\ r.sRead = s.sRead /\ r.sWrite = s.sWrite /\ r.sslAccepting = s.sslAccepting
      /\ r.sslAccepted = s.sslAccepted /\ r.closing = s.closing /\ r.closed = s.closed
      /\ r.undefined = s.undefined /\ r.wq = w /\ r.opened = s.opened
  BY <1>1, <1>2 DEF Sound, StreamType
<1> HIDE DEF r
<1> QED BY <1>2, <1>3, <1>4, FieldsFit

LEMMA StartFits ==
    ASSUME PInv, Start
    PROVE  Fit(stream') /\ Unopened'
<1> DEFINE r == [stream EXCEPT !.opened = TRUE]
<1>1. Fit(stream) /\ Sound(stream)
  BY DEF PInv, Fit, Fine
<1>2. /\ Sound(r) /\ r.queue = stream.queue /\ r.kernel = stream.kernel /\ r.wq = stream.wq
      /\ r.sRead = stream.sRead /\ r.sWrite = stream.sWrite
      /\ r.sslAccepting = stream.sslAccepting /\ r.sslAccepted = stream.sslAccepted
      /\ r.closing = stream.closing /\ r.closed = stream.closed
      /\ r.undefined = stream.undefined /\ r.opened
  BY <1>1 DEF Sound, StreamType
<1>3. stream' = MaybeAddErrorListener(r)
  BY DEF Start
<1> HIDE DEF r
<1>4. Fit(r)
  BY <1>1, <1>2, FieldsFit
<1>5. Leads(r, stream')
  BY <1>3, <1>4, ListenerFits
<1> QED BY <1>2, <1>5 DEF Leads, Unopened

LEMMA ConnectFits ==
    ASSUME PInv, Connect
    PROVE  Fit(stream') /\ Unopened'
<1>1. PICK resolved \in BOOLEAN, callback \in BOOLEAN :
        stream' = RealConnect([stream EXCEPT !.opened = TRUE, !.connecting = TRUE,
                                             !.connectCb = callback], resolved)
  BY DEF Connect
<1> DEFINE s == [stream EXCEPT !.opened = TRUE, !.connecting = TRUE, !.connectCb = callback]
           plain == ~Secure /\ s.connectCb
           ssl == Secure /\ s.connectCb
           t == Arm(s, "connect")
           r == [t EXCEPT !.sWrite = TRUE, !.sslConnectCb = ssl, !.connectCb = plain]
<1>2. Fit(stream) /\ Sound(stream) /\ ~Closed(stream) /\ ~stream.sslAccepted
      /\ stream.kernel = {} /\ stream.queue = <<>>
  BY DEF PInv, Fit, Fine, Connect, Unopened
<1>3. /\ Sound(s) /\ s.queue = stream.queue /\ s.kernel = stream.kernel /\ s.wq = stream.wq
      /\ s.sRead = stream.sRead /\ s.sWrite = stream.sWrite
      /\ s.sslAccepting = stream.sslAccepting /\ s.sslAccepted = stream.sslAccepted
      /\ s.closing = stream.closing /\ s.closed = stream.closed
      /\ s.undefined = stream.undefined /\ s.opened
  BY <1>2, ZenonT(30) DEF Sound, StreamType
<1>4. stream' = RealConnect(s, resolved)
  BY <1>1
<1>5. RealConnect(s, resolved) = IF ~resolved THEN ConnectFailed(s, "error") ELSE r
  <2>1. t.connectCb = s.connectCb
    BY <1>3 DEF Arm, Sound, StreamType
  <2> HIDE DEF s
  <2> QED BY <2>1 DEF RealConnect
<1>6. plain \in BOOLEAN /\ ssl \in BOOLEAN
  BY <1>3 DEF Sound, StreamType
<1> HIDE DEF s, plain, ssl
<1>7. Fit(s)
  BY <1>2, <1>3, FieldsFit
<1>8. \A op : ~Out(s, op)
  <2>1. DOMAIN <<>> = {}
    OBVIOUS
  <2> QED BY <1>2, <1>3, <2>1 DEF Out, OpsAt
<1>9. Begun(s, t, "connect")
  BY <1>2, <1>3, <1>7, <1>8, ArmBegins DEF Fit, Operations, Closed
<1> HIDE DEF t
<1>10. Sound(t) /\ Fine(t)
  BY <1>9, BegunIs DEF Operations
<1>11. /\ Sound(r) /\ r.queue = t.queue /\ r.kernel = t.kernel /\ r.closed = t.closed
       /\ r.closing = t.closing /\ r.sRead = t.sRead /\ r.sWrite
       /\ r.sslAccepting = t.sslAccepting
       /\ r.sslAccepted = t.sslAccepted /\ r.opened = t.opened /\ r.undefined = t.undefined
       /\ r.wq = t.wq
  BY <1>6, <1>10, ZenonT(30) DEF Sound, StreamType
<1> HIDE DEF r
<1>12. Fine(r) /\ \A op : Out(r, op) <=> Out(t, op)
  BY <1>10, <1>11, FlagsFine
<1>13. Fit(r) /\ r.opened
  <2>1. /\ ~Out(t, "read") /\ ~Out(t, "handshake") /\ ~Out(t, "write") /\ ~Out(t, "shutdown")
        /\ r.opened = s.opened /\ r.sRead = s.sRead /\ r.sslAccepting = s.sslAccepting
        /\ r.undefined = s.undefined
    BY <1>8, <1>9, <1>11, BegunIs DEF Operations, Begun, Flags
  <2>2. ~s.sRead /\ ~s.sslAccepting /\ ~s.undefined
    BY <1>2, <1>3, <1>7, <1>8 DEF Fit, Flagged, Closed
  <2>3. Flagged(r)
    BY <1>11, <1>12, <2>1, <2>2 DEF Flagged, Writers
  <2> QED BY <1>3, <1>12, <2>1, <2>3 DEF Fit
<1>14. Fit(ConnectFailed(s, "error")) /\ ConnectFailed(s, "error").opened
  <2> DEFINE c == [s EXCEPT !.sWrite = FALSE]
  <2>1. /\ Sound(c) /\ c.queue = s.queue /\ c.kernel = s.kernel /\ c.closed = s.closed
        /\ c.closing = s.closing /\ c.sRead = s.sRead
        /\ c.sslAccepting = s.sslAccepting
        /\ c.sslAccepted = s.sslAccepted /\ c.opened = s.opened /\ c.undefined = s.undefined
    BY <1>3, ZenonT(30) DEF Sound, StreamType
  <2> HIDE DEF c
  <2>2. Fine(c) /\ \A op : ~Out(c, op)
    BY <1>7, <1>8, <2>1, FlagsFine DEF Fit
  <2>3. Flagged(c)
    BY <1>7, <1>8, <2>1, <2>2 DEF Fit, Flagged, Writers, Closed
  <2>4. Fit(c) /\ s \in StreamType
    BY <1>3, <2>2, <2>3 DEF Fit, Sound
  <2>5. Leads(s, ConnectFailed(s, "error"))
    BY <2>4, ConnectFailedFits DEF c
  <2> QED BY <1>3, <2>5 DEF Leads
<1> QED BY <1>4, <1>5, <1>13, <1>14 DEF Unopened

LEMMA ReadBytesFits ==
    ASSUME PInv, ReadBytes
    PROVE  Fit(stream') /\ Unopened'
<1>1. PICK n \in 0..MaxBytes, streaming \in BOOLEAN :
        stream' = TryInlineRead([Reading(stream.reads + 1) EXCEPT
                      !.readBytes = n,
                      !.streamCb = IF streaming THEN stream.reads + 1 ELSE 0])
  BY DEF ReadBytes
<1> DEFINE id == stream.reads + 1
           c == IF streaming THEN id ELSE 0
           r == [stream EXCEPT !.reads = id, !.readCb = id, !.readBytes = n, !.streamCb = c]
<1>2. stream' = TryInlineRead(r)
  BY <1>1 DEF Reading
<1>3. Fit(stream) /\ Sound(stream)
  BY DEF PInv, Fit, Fine
<1>4. id \in Nat /\ c \in Nat /\ n \in Nat
  BY <1>3, BoundsAssumption DEF Sound, StreamType
<1> HIDE DEF id, c
<1>5. /\ Sound(r) /\ r.queue = stream.queue /\ r.kernel = stream.kernel /\ r.wq = stream.wq
      /\ r.sRead = stream.sRead /\ r.sWrite = stream.sWrite
      /\ r.sslAccepting = stream.sslAccepting /\ r.sslAccepted = stream.sslAccepted
      /\ r.closing = stream.closing /\ r.closed = stream.closed
      /\ r.undefined = stream.undefined /\ r.opened = stream.opened
  BY <1>3, <1>4 DEF Sound, StreamType
<1> HIDE DEF r
<1>6. Leads(stream, r) /\ Fit(r)
  BY <1>3, <1>5, FieldsFit
<1>7. Leads(stream, stream')
  BY <1>2, <1>6, TryInlineReadFits, LeadsOn
<1> QED BY <1>7, LeadsInv DEF ReadBytes, ReadCall

LEMMA ReadUntilFits ==
    ASSUME PInv, ReadUntil
    PROVE  Fit(stream') /\ Unopened'
<1>1. PICK m \in Marks :
        stream' = TryInlineRead([Reading(stream.reads + 1) EXCEPT !.marks = @ \cup {m}])
  BY DEF ReadUntil
<1> DEFINE id == stream.reads + 1
           ms == stream.marks \cup {m}
           r == [stream EXCEPT !.reads = id, !.readCb = id, !.marks = ms]
<1>3. Fit(stream) /\ Sound(stream)
  BY DEF PInv, Fit, Fine
<1>2. stream' = TryInlineRead(r)
  BY <1>1, <1>3 DEF Reading, Sound, StreamType
<1>4. id \in Nat /\ ms \in SUBSET Marks
  BY <1>3 DEF Sound, StreamType
<1> HIDE DEF id, ms
<1>5. /\ Sound(r) /\ r.queue = stream.queue /\ r.kernel = stream.kernel /\ r.wq = stream.wq
      /\ r.sRead = stream.sRead /\ r.sWrite = stream.sWrite
      /\ r.sslAccepting = stream.sslAccepting /\ r.sslAccepted = stream.sslAccepted
      /\ r.closing = stream.closing /\ r.closed = stream.closed
      /\ r.undefined = stream.undefined /\ r.opened = stream.opened
  BY <1>3, <1>4 DEF Sound, StreamType
<1> HIDE DEF r
<1>6. Leads(stream, r) /\ Fit(r)
  BY <1>3, <1>5, FieldsFit
<1>7. Leads(stream, stream')
  BY <1>2, <1>6, TryInlineReadFits, LeadsOn
<1> QED BY <1>7, LeadsInv DEF ReadUntil, ReadCall

LEMMA ReadUntilCloseFits ==
    ASSUME PInv, ReadUntilClose
    PROVE  Fit(stream') /\ Unopened'
<1>1. PICK streaming \in BOOLEAN :
        LET s == [Reading(stream.reads + 1) EXCEPT
                     !.streamCb = IF streaming THEN stream.reads + 1 ELSE 0]
        IN  stream' = IF Closed(s) THEN ReadRest(s)
                      ELSE TryInlineRead([s EXCEPT !.untilClose = TRUE])
  BY DEF ReadUntilClose
<1> DEFINE id == stream.reads + 1
           c == IF streaming THEN id ELSE 0
           r == [stream EXCEPT !.reads = id, !.readCb = id, !.streamCb = c]
           x == [r EXCEPT !.untilClose = TRUE]
<1>2. stream' = IF Closed(r) THEN ReadRest(r) ELSE TryInlineRead(x)
  BY <1>1 DEF Reading
<1>3. Fit(stream) /\ Sound(stream)
  BY DEF PInv, Fit, Fine
<1>4. id \in Nat /\ c \in Nat
  BY <1>3 DEF Sound, StreamType
<1> HIDE DEF id, c
<1>5. /\ Sound(r) /\ r.queue = stream.queue /\ r.kernel = stream.kernel /\ r.wq = stream.wq
      /\ r.sRead = stream.sRead /\ r.sWrite = stream.sWrite
      /\ r.sslAccepting = stream.sslAccepting /\ r.sslAccepted = stream.sslAccepted
      /\ r.closing = stream.closing /\ r.closed = stream.closed
      /\ r.undefined = stream.undefined /\ r.opened = stream.opened
  BY <1>3, <1>4 DEF Sound, StreamType
<1> HIDE DEF r
<1>6. /\ Sound(x) /\ x.queue = r.queue /\ x.kernel = r.kernel /\ x.wq = r.wq
      /\ x.sRead = r.sRead /\ x.sWrite = r.sWrite
      /\ x.sslAccepting = r.sslAccepting /\ x.sslAccepted = r.sslAccepted
      /\ x.closing = r.closing /\ x.closed = r.closed
      /\ x.undefined = r.undefined /\ x.opened = r.opened
  BY <1>5 DEF Sound, StreamType
<1> HIDE DEF x
<1>7. Leads(stream, r) /\ Fit(r)
  BY <1>3, <1>5, FieldsFit
<1>8. Leads(r, x) /\ Fit(x)
  BY <1>6, <1>7, FieldsFit
<1>9. Leads(r, ReadRest(r))
  BY <1>5, <1>7, ReadRestQuiet, QuietFits DEF Fit
<1>10. Leads(r, TryInlineRead(x))
  BY <1>8, TryInlineReadFits, LeadsOn
<1>11. Leads(stream, stream')
  BY <1>2, <1>7, <1>9, <1>10, LeadsOn
<1> QED BY <1>11, LeadsInv DEF ReadUntilClose, ReadCall

LEMMA WriteFits ==
    ASSUME PInv, Write
    PROVE  Fit(stream') /\ Unopened'
<1>1. PICK len \in 0..MaxLength, callback \in BOOLEAN :
        LET id == stream.writes + 1
            s == Enqueue([stream EXCEPT !.writes = id], len, IF callback THEN id ELSE 0)
        IN  \E o \in Outcomes(s) : stream' = Flush(s, o)
  BY DEF Write
<1> DEFINE id == stream.writes + 1
           r == [stream EXCEPT !.writes = id]
           cb == IF callback THEN id ELSE 0
           s == Enqueue(r, len, cb)
<1>2. PICK o \in Outcomes(s) : stream' = Flush(s, o)
  BY <1>1
<1>3. Fit(stream) /\ Sound(stream)
  BY DEF PInv, Fit, Fine
<1>4. id \in Nat /\ cb \in Nat /\ len \in Nat
  <2>1. stream.writes \in Nat
    BY <1>3 DEF Sound, StreamType
  <2>2. len \in Nat
    BY BoundsAssumption
  <2> QED BY <2>1, <2>2
<1> HIDE DEF id, cb
<1>5. /\ Sound(r) /\ r.queue = stream.queue /\ r.kernel = stream.kernel /\ r.wq = stream.wq
      /\ r.sRead = stream.sRead /\ r.sWrite = stream.sWrite
      /\ r.sslAccepting = stream.sslAccepting /\ r.sslAccepted = stream.sslAccepted
      /\ r.closing = stream.closing /\ r.closed = stream.closed
      /\ r.undefined = stream.undefined /\ r.opened = stream.opened
  BY <1>3, <1>4 DEF Sound, StreamType
<1> HIDE DEF r
<1>6. Leads(stream, r) /\ Fit(r)
  BY <1>3, <1>5, FieldsFit
<1>7. Leads(r, s) /\ Fit(s)
  BY <1>4, <1>6, EnqueueFits DEF Leads
<1> HIDE DEF s
<1>8. Leads(s, stream')
  BY <1>2, <1>7, FlushFits
<1>9. Leads(stream, stream')
  BY <1>6, <1>7, <1>8, LeadsOn
<1> QED BY <1>9, LeadsInv DEF Write

LEMMA CloseCallbackFits ==
    ASSUME PInv, SetCloseCallback \/ ResetCloseCallback
    PROVE  Fit(stream') /\ Unopened'
<1>1. PICK b \in BOOLEAN : stream' = [stream EXCEPT !.closeCb = b]
  BY DEF SetCloseCallback, ResetCloseCallback
<1> DEFINE r == [stream EXCEPT !.closeCb = b]
<1>3. Fit(stream) /\ Sound(stream)
  BY DEF PInv, Fit, Fine
<1>5. /\ Sound(r) /\ r.queue = stream.queue /\ r.kernel = stream.kernel /\ r.wq = stream.wq
      /\ r.sRead = stream.sRead /\ r.sWrite = stream.sWrite
      /\ r.sslAccepting = stream.sslAccepting /\ r.sslAccepted = stream.sslAccepted
      /\ r.closing = stream.closing /\ r.closed = stream.closed
      /\ r.undefined = stream.undefined /\ r.opened = stream.opened
  BY <1>3 DEF Sound, StreamType
<1> HIDE DEF r
<1>6. Fit(r)
  BY <1>3, <1>5, FieldsFit
<1>7. running' = running
  BY DEF SetCloseCallback, ResetCloseCallback, Calling
<1>8. stream' = r
  BY <1>1 DEF r
<1> QED BY <1>5, <1>6, <1>7, <1>8 DEF PInv, Unopened, Closed

LEMMA CloseCallFits ==
    ASSUME PInv, CloseCall
    PROVE  Fit(stream') /\ Unopened'
<1>1. Fit(stream) /\ stream' = Close(stream) /\ (stream.opened \/ ~Accepted)
  BY DEF PInv, CloseCall
<1>2. Leads(stream, stream') /\ Closed(stream')
  BY <1>1, CloseFits
<1> QED BY <1>1, <1>2, LeadsInv

-----------------------------------------------------------------------------
\* The reactor and the loop

LEMMA CompleteFits ==
    ASSUME PInv, NEW op \in Operations, Complete(op)
    PROVE  Fit(stream') /\ Unopened'
<1>1. PICK res \in Results \ {"aborted"}, n \in 0..MaxBytes + MaxLength * MaxWrites :
        stream' = [stream EXCEPT !.kernel = @ \ {op},
                       !.queue = Append(@, [op |-> op, res |-> res, n |-> n])]
  BY DEF Complete
<1> DEFINE h == [op |-> op, res |-> res, n |-> n]
           q == Append(stream.queue, h)
           k == stream.kernel \ {op}
           r == [stream EXCEPT !.kernel = k, !.queue = q]
<1>2. Fine(stream) /\ Flagged(stream) /\ Sound(stream) /\ Ordered(stream.queue, stream.kernel)
      /\ op \in stream.kernel /\ (op = "handshake" => "connect" \notin stream.kernel)
      /\ stream.queue \in Seq(Handlers)
  BY QueueIs DEF PInv, Fit, Fine, Complete
<1>3. h \in Completions /\ h \in Live /\ h.op = op
  <2>1. n \in Nat
    BY BoundsAssumption
  <2> QED BY <1>1, <2>1 DEF Live, Completions
<1>4. stream' = r
  BY <1>1, <1>2 DEF Sound, StreamType
<1> HIDE DEF h
<1>5. /\ Len(stream.queue) \in Nat
      /\ \A x : OpsAt(stream.queue, x) \subseteq 1..Len(stream.queue)
      /\ OpsAt(stream.queue, op) = {}
      /\ OpsAt(q, op) = {Len(stream.queue) + 1}
      /\ \A x : x # op => OpsAt(q, x) = OpsAt(stream.queue, x)
  <2>1. h \in Handlers /\ ~IsRun(h)
    BY <1>3, NoOpsRun
  <2>2. /\ Len(stream.queue) \in Nat
        /\ \A x : /\ OpsAt(stream.queue, x) \subseteq 1..Len(stream.queue)
                  /\ OpsAt(q, x) = OpsAt(stream.queue, x) \cup
                       (IF ~IsRun(h) /\ h.op = x THEN {Len(stream.queue) + 1} ELSE {})
    BY <1>2, <2>1, AppendOps
  <2>3. OpsAt(stream.queue, op) = {}
    BY <1>2 DEF Ordered
  <2> HIDE DEF q
  <2> QED BY <1>3, <2>1, <2>2, <2>3
<1>6. q \in Seq(Handlers) /\ (~stream.closed => q \in Seq(Live)) /\ k \in SUBSET Operations
  BY <1>2, <1>3, LiveIsHandler DEF Sound, StreamType, Handlers
<1> HIDE DEF q
<1>7. Ordered(q, k)
  <2>1. \A x \in Operations : \A i, j \in OpsAt(q, x) : i = j
    BY <1>2, <1>5 DEF Ordered
  <2>2. \A x \in k : OpsAt(q, x) = {}
    BY <1>2, <1>5 DEF Ordered
  <2>3. OpsAt(q, "handshake") # {} => "connect" \notin k
    BY <1>2, <1>5 DEF Ordered
  <2>4. \A i \in OpsAt(q, "connect"), j \in OpsAt(q, "handshake") : i < j
    <3>1. CASE op = "connect"
      BY <1>2, <1>5, <3>1 DEF Ordered
    <3>2. CASE op = "handshake"
      <4>1. \A i \in OpsAt(stream.queue, "connect") : i \in 1..Len(stream.queue)
        BY <1>5
      <4> QED BY <1>5, <3>2, <4>1
    <3>3. CASE op # "connect" /\ op # "handshake"
      BY <1>2, <1>5, <3>3 DEF Ordered
    <3> QED BY <3>1, <3>2, <3>3
  <2> QED BY <2>1, <2>2, <2>3, <2>4 DEF Ordered
<1>8. \A x : (x \in k \/ OpsAt(q, x) # {}) <=> Out(stream, x)
  BY <1>2, <1>5 DEF Out
<1> HIDE DEF k
<1>9. /\ Sound(r) /\ r.kernel = k /\ r.queue = q /\ r.wq = stream.wq
      /\ r.sRead = stream.sRead /\ r.sWrite = stream.sWrite
      /\ r.sslAccepting = stream.sslAccepting /\ r.sslAccepted = stream.sslAccepted
      /\ r.closing = stream.closing /\ r.closed = stream.closed
      /\ r.undefined = stream.undefined /\ r.opened = stream.opened
  BY <1>2, <1>6 DEF Sound, StreamType, Handlers
<1> HIDE DEF r
<1>10. Fine(r) /\ \A x : Out(r, x) <=> Out(stream, x)
  BY <1>2, <1>7, <1>8, <1>9 DEF Fine, Out
<1>11. Flagged(r) /\ (Closed(r) <=> Closed(stream))
  BY <1>2, <1>9, <1>10 DEF Flagged, Writers, Closed
<1>12. running' = running
  BY DEF Complete
<1> QED BY <1>2, <1>4, <1>9, <1>10, <1>11 DEF PInv, Unopened, Fit

\* The queue without its head.
LEMMA TailOps ==
    ASSUME NEW q \in Seq(Handlers), q # <<>>, NEW k, Ordered(q, k)
    PROVE  LET p == Tail(q)
               h == Head(q)
           IN  /\ Ordered(p, k) /\ h \in Handlers
               /\ \A x : IsRun(h) \/ h.op # x => (OpsAt(p, x) = {} <=> OpsAt(q, x) = {})
               /\ ~IsRun(h) /\ h.op \in Operations => OpsAt(q, h.op) # {} /\ OpsAt(p, h.op) = {}
               /\ ~IsRun(h) /\ h.op = "handshake" => OpsAt(q, "connect") = {}
<1> DEFINE p == Tail(q)
           h == Head(q)
<1>1. /\ Len(q) \in Nat /\ Len(q) > 0 /\ DOMAIN q = 1..Len(q) /\ DOMAIN p = 1..(Len(q) - 1)
      /\ \A i \in 1..(Len(q) - 1) : p[i] = q[i + 1]
      /\ h = q[1] /\ h \in Handlers
  OBVIOUS
<1> HIDE DEF p, h
<1>2. \A x : OpsAt(q, x) \subseteq Nat \ {0} /\ OpsAt(p, x) \subseteq Nat \ {0}
  BY <1>1 DEF OpsAt
<1>3. \A x : 1 \in OpsAt(q, x) <=> ~IsRun(h) /\ h.op = x
  BY <1>1 DEF OpsAt
<1>4. \A x : \A i \in Nat \ {0} : i \in OpsAt(p, x) <=> i + 1 \in OpsAt(q, x)
  <2> TAKE x
  <2> TAKE i \in Nat \ {0}
  <2>1. i \in DOMAIN p <=> i + 1 \in DOMAIN q
    BY <1>1
  <2>2. i \in DOMAIN p => p[i] = q[i + 1]
    BY <1>1
  <2> QED BY <2>1, <2>2 DEF OpsAt
<1>5. \A x : \A i \in OpsAt(q, x) : i # 1 => i - 1 \in OpsAt(p, x)
  <2> TAKE x
  <2> TAKE i \in OpsAt(q, x)
  <2>1. i \in Nat \ {0}
    BY <1>2
  <2> DEFINE j == i - 1
  <2>2. i # 1 => j \in Nat \ {0} /\ j + 1 = i
    BY <2>1
  <2> HIDE DEF j
  <2>3. i # 1 => j \in OpsAt(p, x)
    BY <1>4, <2>2
  <2> QED BY <2>3 DEF j
<1>6. \A x : \A i \in OpsAt(p, x) : i + 1 \in OpsAt(q, x) /\ i \in Nat /\ i + 1 # 1
  <2> TAKE x
  <2> TAKE i \in OpsAt(p, x)
  <2>1. i \in Nat \ {0}
    BY <1>2
  <2>2. i + 1 \in OpsAt(q, x)
    BY <1>4, <2>1
  <2>3. i \in Nat /\ i + 1 # 1
    BY <2>1
  <2> QED BY <2>2, <2>3
<1>7. \A x : IsRun(h) \/ h.op # x => (OpsAt(p, x) = {} <=> OpsAt(q, x) = {})
  BY <1>3, <1>5, <1>6
<1>8. ~IsRun(h) /\ h.op \in Operations => OpsAt(q, h.op) # {} /\ OpsAt(p, h.op) = {}
  BY <1>3, <1>6 DEF Ordered
<1>9. ~IsRun(h) /\ h.op = "handshake" => OpsAt(q, "connect") = {}
  <2> SUFFICES ASSUME ~IsRun(h), h.op = "handshake", NEW i \in OpsAt(q, "connect")
               PROVE  FALSE
    OBVIOUS
  <2>1. 1 \in OpsAt(q, "handshake") /\ i \in Nat \ {0}
    BY <1>2, <1>3
  <2>2. i < 1
    BY <2>1 DEF Ordered
  <2> QED BY <2>1, <2>2
<1>10. Ordered(p, k)
  <2>1. \A x \in Operations : \A i, j \in OpsAt(p, x) : i = j
    <3> TAKE x \in Operations
    <3> TAKE i, j \in OpsAt(p, x)
    <3>1. i + 1 = j + 1 /\ i \in Nat /\ j \in Nat
      BY <1>6 DEF Ordered
    <3> QED BY <3>1
  <2>2. \A x \in k : OpsAt(p, x) = {}
    BY <1>6 DEF Ordered
  <2>3. OpsAt(p, "handshake") # {} => "connect" \notin k
    BY <1>6 DEF Ordered
  <2>4. \A i \in OpsAt(p, "connect"), j \in OpsAt(p, "handshake") : i < j
    <3> TAKE i \in OpsAt(p, "connect"), j \in OpsAt(p, "handshake")
    <3>1. i + 1 < j + 1 /\ i \in Nat /\ j \in Nat
      BY <1>6 DEF Ordered
    <3> QED BY <3>1
  <2> QED BY <2>1, <2>2, <2>3, <2>4 DEF Ordered
<1> QED BY <1>1, <1>7, <1>8, <1>9, <1>10 DEF p, h

\* What Taken is.
Rest(s) ==
    /\ Sound(s) /\ Fine(s)
    /\ s.queue = Tail(stream.queue) /\ s.kernel = stream.kernel /\ s.wq = stream.wq
    /\ s.sRead = stream.sRead /\ s.sWrite = stream.sWrite
    /\ s.sslAccepting = stream.sslAccepting /\ s.sslAccepted = stream.sslAccepted
    /\ s.closing = stream.closing /\ s.closed = stream.closed
    /\ s.undefined = stream.undefined /\ s.opened = stream.opened

LEMMA TakenRest ==
    ASSUME PInv, stream.queue # <<>>
    PROVE  /\ Rest(Taken)
           /\ \A x : IsRun(NextHandler) \/ NextHandler.op # x => (Out(Taken, x) <=> Out(stream, x))
           /\ ~IsRun(NextHandler) /\ NextHandler.op \in Operations =>
                Out(stream, NextHandler.op) /\ ~Out(Taken, NextHandler.op)
           /\ ~IsRun(NextHandler) /\ NextHandler.op = "handshake" => ~Out(Taken, "connect")
<1> DEFINE q == Tail(stream.queue)
           r == [stream EXCEPT !.queue = q]
           h == NextHandler
<1>1. Fine(stream) /\ Sound(stream) /\ stream.queue \in Seq(Handlers)
      /\ Ordered(stream.queue, stream.kernel)
  BY QueueIs DEF PInv, Fit, Fine
<1>2. /\ Ordered(q, stream.kernel) /\ h \in Handlers
      /\ \A x : IsRun(h) \/ h.op # x => (OpsAt(q, x) = {} <=> OpsAt(stream.queue, x) = {})
      /\ ~IsRun(h) /\ h.op \in Operations => OpsAt(stream.queue, h.op) # {} /\ OpsAt(q, h.op) = {}
      /\ ~IsRun(h) /\ h.op = "handshake" => OpsAt(stream.queue, "connect") = {}
  BY <1>1, TailOps DEF NextHandler
<1>3. q \in Seq(Handlers) /\ (~stream.closed => q \in Seq(Live))
  BY <1>1 DEF Sound, StreamType, Handlers
<1>4. Taken = r
  BY <1>1 DEF Taken, Sound, StreamType
<1> HIDE DEF q, h
<1>5. /\ Sound(r) /\ r.kernel = stream.kernel /\ r.queue = q /\ r.wq = stream.wq
      /\ r.sRead = stream.sRead /\ r.sWrite = stream.sWrite
      /\ r.sslAccepting = stream.sslAccepting /\ r.sslAccepted = stream.sslAccepted
      /\ r.closing = stream.closing /\ r.closed = stream.closed
      /\ r.undefined = stream.undefined /\ r.opened = stream.opened
  BY <1>1, <1>3 DEF Sound, StreamType, Handlers
<1> HIDE DEF r
<1>6. Rest(r)
  BY <1>1, <1>2, <1>5 DEF Rest, Fine, q
<1>7. \A x : Out(r, x) <=> x \in stream.kernel \/ OpsAt(q, x) # {}
  BY <1>5 DEF Out
<1>8. \A x : IsRun(h) \/ h.op # x => (Out(r, x) <=> Out(stream, x))
  BY <1>2, <1>7 DEF Out
<1>9. ~IsRun(h) /\ h.op \in Operations => Out(stream, h.op) /\ ~Out(r, h.op)
  BY <1>1, <1>2, <1>7 DEF Out, Ordered
<1>10. ~IsRun(h) /\ h.op = "handshake" => ~Out(r, "connect")
  <2> SUFFICES ASSUME ~IsRun(h), h.op = "handshake" PROVE ~Out(r, "connect")
    OBVIOUS
  <2>1. OpsAt(stream.queue, "handshake") # {} /\ OpsAt(stream.queue, "connect") = {}
    BY <1>2 DEF Operations
  <2>2. "connect" \notin stream.kernel /\ OpsAt(q, "connect") = {}
    BY <1>1, <1>2, <2>1 DEF Ordered
  <2> QED BY <1>7, <2>2
<1> QED BY <1>4, <1>6, <1>8, <1>9, <1>10 DEF h

\* The flags of an operation whose handler runs are cleared.
LEMMA TakenFits ==
    ASSUME PInv, stream.queue # <<>>, ~IsRun(NextHandler), NextHandler.op \in Operations
    PROVE  LET op == NextHandler.op
           IN  /\ op = "read" => Fit([Taken EXCEPT !.sRead = FALSE])
               /\ op \in Writers => Fit([Taken EXCEPT !.sWrite = FALSE])
               /\ op = "handshake" =>
                    Fit([Taken EXCEPT !.sWrite = FALSE, !.sslAccepting = FALSE]) /\ ~Taken.sRead
               /\ op = "write" => Taken.wq # <<>> \/ Closed(Taken)
<1> DEFINE s == Taken
           op == NextHandler.op
           a == [s EXCEPT !.sRead = FALSE]
           b == [s EXCEPT !.sWrite = FALSE]
           c == [s EXCEPT !.sWrite = FALSE, !.sslAccepting = FALSE]
<1>1. /\ Rest(s) /\ Out(stream, op) /\ ~Out(s, op)
      /\ \A x : op # x => (Out(s, x) <=> Out(stream, x))
      /\ op = "handshake" => ~Out(s, "connect")
  BY TakenRest
<1> HIDE DEF s, op
<1>2. Flagged(stream)
  BY DEF PInv, Fit
<1>3. Sound(s) /\ Fine(s)
  BY <1>1 DEF Rest
<1>4. op = "read" => Fit(a)
  <2>1. /\ Sound(a) /\ a.queue = s.queue /\ a.kernel = s.kernel /\ a.wq = s.wq
        /\ ~a.sRead /\ a.sWrite = s.sWrite /\ a.sslAccepting = s.sslAccepting
        /\ a.sslAccepted = s.sslAccepted /\ a.closing = s.closing /\ a.closed = s.closed
        /\ a.undefined = s.undefined
    BY <1>3, ZenonT(30) DEF Sound, StreamType
  <2> HIDE DEF a
  <2>2. Fine(a) /\ \A x : Out(a, x) <=> Out(s, x)
    BY <1>3, <2>1, FlagsFine
  <2>3. op = "read" => Flagged(a)
    BY <1>1, <1>2, <2>1, <2>2 DEF Rest, Flagged, Writers, Closed
  <2> QED BY <2>2, <2>3 DEF Fit
<1>5. op \in Writers => Fit(b)
  <2>1. /\ Sound(b) /\ b.queue = s.queue /\ b.kernel = s.kernel /\ b.wq = s.wq
        /\ b.sRead = s.sRead /\ ~b.sWrite /\ b.sslAccepting = s.sslAccepting
        /\ b.sslAccepted = s.sslAccepted /\ b.closing = s.closing /\ b.closed = s.closed
        /\ b.undefined = s.undefined
    BY <1>3, ZenonT(30) DEF Sound, StreamType
  <2> HIDE DEF b
  <2>2. Fine(b) /\ \A x : Out(b, x) <=> Out(s, x)
    BY <1>3, <2>1, FlagsFine
  <2>3. op \in Writers => \A x \in Writers : ~Out(s, x)
    BY <1>1, <1>2 DEF Flagged
  <2>4. op \in Writers => Flagged(b)
    BY <1>1, <1>2, <2>1, <2>2, <2>3 DEF Rest, Flagged, Writers, Closed
  <2> QED BY <2>2, <2>4 DEF Fit
<1>6. op = "handshake" => Fit(c) /\ ~s.sRead
  <2>1. /\ Sound(c) /\ c.queue = s.queue /\ c.kernel = s.kernel /\ c.wq = s.wq
        /\ c.sRead = s.sRead /\ ~c.sWrite /\ ~c.sslAccepting
        /\ c.sslAccepted = s.sslAccepted /\ c.closing = s.closing /\ c.closed = s.closed
        /\ c.undefined = s.undefined
    BY <1>3, ZenonT(30) DEF Sound, StreamType
  <2> HIDE DEF c
  <2>2. Fine(c) /\ \A x : Out(c, x) <=> Out(s, x)
    BY <1>3, <2>1, FlagsFine
  <2>3. op = "handshake" =>
          /\ ~Out(s, "connect") /\ ~Out(s, "write") /\ ~Out(s, "shutdown") /\ ~Out(s, "read")
          /\ ~s.sRead
    BY <1>1, <1>2 DEF Rest, Flagged
  <2>4. op = "handshake" => Flagged(c)
    BY <1>1, <1>2, <2>1, <2>2, <2>3 DEF Rest, Flagged, Writers, Closed
  <2> QED BY <2>2, <2>3, <2>4 DEF Fit
<1>7. op = "write" => s.wq # <<>> \/ Closed(s)
  BY <1>1, <1>2 DEF Rest, Flagged, Closed
<1> QED BY <1>4, <1>5, <1>6, <1>7 DEF s, op

\* A step of a stream that has started something or is closed.
LEMMA LateInv ==
    ASSUME PInv, stream.opened \/ (Closed(stream) /\ ~Accepted),
           NEW s, s.opened = stream.opened, s.closing = stream.closing, s.closed = stream.closed,
           Leads(s, stream')
    PROVE  Fit(stream') /\ Unopened'
BY DEF Leads, Unopened, Closed

LEMMA HandleCompletionFits ==
    ASSUME PInv, HandleCompletion
    PROVE  Fit(stream') /\ Unopened'
<1> DEFINE s == Taken
           h == NextHandler
<1>0. stream.queue # <<>> /\ ~IsRun(h) /\ IInv
  BY DEF HandleCompletion, Dispatches, PInv
<1>1. Good(s) /\ s.closed = stream.closed /\ h \in Handlers /\ (~stream.closed => h \in Live)
  BY <1>0, TakenGood
<1>2. h.op \in Operations /\ h.res \in Results /\ h.n \in Nat /\ (h.res = "aborted" => s.closed)
  BY <1>0, <1>1, HandlerKinds DEF Completions
<1>3. /\ h.op = "read" => Fit([s EXCEPT !.sRead = FALSE])
      /\ h.op \in Writers => Fit([s EXCEPT !.sWrite = FALSE])
      /\ h.op = "handshake" =>
           Fit([s EXCEPT !.sWrite = FALSE, !.sslAccepting = FALSE]) /\ ~s.sRead
      /\ h.op = "write" => s.wq # <<>> \/ Closed(s)
  BY <1>0, <1>2, TakenFits
<1>4. /\ h.op = "read"      => stream' = OnRead(s, h.res, h.n)
      /\ h.op = "connect"   => \E o \in Outcomes(s) : stream' = OnConnect(s, h.res, o)
      /\ h.op = "handshake" => stream' = OnHandshake(s, h.res)
      /\ h.op = "shutdown"  => stream' = OnShutdown(s)
      /\ h.op = "write"     =>
           \E o \in Outcomes(TakeFront(s, h.n)) : stream' = OnWrite(s, h.res, h.n, o)
  BY <1>2 DEF HandleCompletion, Operations
<1>5. Rest(s)
  BY <1>0, TakenRest
<1> HIDE DEF s, h
<1>6. s \in StreamType
  BY <1>5 DEF Rest, Sound
<1>7. Leads(s, stream')
  <2>1. CASE h.op = "read"
    BY <1>2, <1>3, <1>4, <1>6, <2>1, OnReadFits DEF Closed
  <2>2. CASE h.op = "connect"
    BY <1>3, <1>4, <1>6, <2>2, OnConnectFits DEF Writers
  <2>3. CASE h.op = "handshake"
    BY <1>3, <1>4, <1>6, <2>3, OnHandshakeFits
  <2>4. CASE h.op = "shutdown"
    BY <1>3, <1>4, <1>6, <2>4, OnShutdownFits DEF Writers
  <2>5. CASE h.op = "write"
    BY <1>2, <1>3, <1>4, <1>6, <2>5, OnWriteFits DEF Writers
  <2> QED BY <1>2, <2>1, <2>2, <2>3, <2>4, <2>5 DEF Operations
<1>8. stream.opened \/ (Closed(stream) /\ ~Accepted)
  BY <1>0 DEF PInv, Unopened
<1> QED BY <1>5, <1>7, <1>8, LateInv DEF Rest

LEMMA BeginCallbackFits ==
    ASSUME PInv, BeginCallback
    PROVE  Fit(stream') /\ Unopened'
<1> DEFINE s == Taken
           left == s.pending - 1
           r == [s EXCEPT !.pending = left]
<1>0. stream.queue # <<>> /\ IsRun(NextHandler)
  BY DEF BeginCallback, Dispatches
<1>1. Rest(s) /\ \A x : Out(s, x) <=> Out(stream, x)
  BY <1>0, TakenRest
<1>2. stream' = r
  BY DEF BeginCallback
<1> HIDE DEF s
<1>3. left \in Int
  BY <1>1 DEF Rest, Sound, StreamType
<1> HIDE DEF left
<1>4. Flagged(stream)
  BY DEF PInv, Fit
<1>5. Fit(s)
  BY <1>1, <1>4 DEF Rest, Fit, Flagged, Writers, Closed
<1>6. /\ Sound(r) /\ r.queue = s.queue /\ r.kernel = s.kernel /\ r.wq = s.wq
      /\ r.sRead = s.sRead /\ r.sWrite = s.sWrite
      /\ r.sslAccepting = s.sslAccepting /\ r.sslAccepted = s.sslAccepted
      /\ r.closing = s.closing /\ r.closed = s.closed
      /\ r.undefined = s.undefined /\ r.opened = s.opened
  BY <1>1, <1>3 DEF Rest, Sound, StreamType
<1> HIDE DEF r
<1>7. Leads(s, stream')
  BY <1>2, <1>5, <1>6, FieldsFit
<1>8. stream.opened \/ (Closed(stream) /\ ~Accepted)
  BY <1>0 DEF PInv, Unopened
<1> QED BY <1>1, <1>7, <1>8, LateInv DEF Rest

LEMMA CallbackEndsFits ==
    ASSUME PInv, CallbackReturns \/ CallbackThrows
    PROVE  Fit(stream') /\ Unopened'
<1>1. Fit(stream)
  BY DEF PInv
<1>2. Leads(stream, Close(stream)) /\ Fit(Close(stream))
  BY <1>1, CloseFits DEF Leads
<1>3. Leads(stream, MaybeAddErrorListener(stream))
      /\ Leads(stream, MaybeAddErrorListener(Close(stream)))
  BY <1>1, <1>2, ListenerFits, LeadsOn
<1>4. Leads(stream, stream')
  BY <1>2, <1>3 DEF CallbackReturns, CallbackThrows
<1>5. stream.opened \/ (Closed(stream) /\ ~Accepted)
  BY DEF PInv, Unopened, CallbackReturns, CallbackThrows
<1> QED BY <1>4, <1>5, LateInv

LEMMA StepFits ==
    ASSUME PInv, [Next]_vars
    PROVE  Fit(stream') /\ Unopened'
<1>1. CASE UNCHANGED vars
  BY <1>1 DEF vars, PInv, Unopened, Closed
<1>2. CASE Application
  BY <1>2, StartFits, ConnectFits, ReadBytesFits, ReadUntilFits, ReadUntilCloseFits, WriteFits,
     CloseCallbackFits, CloseCallFits DEF Application
<1> QED BY <1>1, <1>2, CompleteFits, HandleCompletionFits, BeginCallbackFits, CallbackEndsFits
        DEF Next

LEMMA InitFits == Init => PInv
<1> SUFFICES ASSUME Init PROVE PInv
  OBVIOUS
<1>1. IInv
  BY InitInv
<1>2. /\ stream.queue = <<>> /\ stream.kernel = {} /\ ~stream.sRead /\ ~stream.sslAccepting
      /\ ~stream.sslAccepted /\ ~stream.undefined /\ running = Idle
  BY DEF Init, Fresh
<1>3. \A x : OpsAt(stream.queue, x) = {}
  <2>1. DOMAIN <<>> = {}
    OBVIOUS
  <2> QED BY <1>2, <2>1 DEF OpsAt
<1>4. Fine(stream)
  BY <1>1, <1>2, <1>3 DEF IInv, Good, Fine, Ordered
<1>5. \A x : ~Out(stream, x)
  BY <1>2, <1>3 DEF Out
<1>6. Flagged(stream)
  BY <1>2, <1>5 DEF Flagged
<1> QED BY <1>1, <1>2, <1>4, <1>6 DEF PInv, Fit, Unopened

\* The flags of the stream know its operations in every reachable state.
THEOREM FlagsAreTrue == Spec => []PInv
<1>1. Init => PInv
  BY InitFits
<1>2. ASSUME PInv, [Next]_vars PROVE PInv'
  <2>1. IInv'
    BY <1>2, StepInv DEF PInv
  <2>2. Fit(stream') /\ Unopened'
    BY <1>2, StepFits
  <2>3. Fit(stream)'
    BY <2>2 DEF Fit, Fine, Sound, Flagged, Out, Closed
  <2> QED BY <2>1, <2>2, <2>3 DEF PInv
<1> QED BY <1>1, <1>2, PTL DEF Spec

-----------------------------------------------------------------------------
\* Theorems

LEMMA AtMostOne ==
    ASSUME NEW S, \A i, j \in S : i = j
    PROVE  Cardinality(S) = IF S = {} THEN 0 ELSE 1
<1>1. CASE S = {}
  BY <1>1, FS_EmptySet
<1>2. CASE S # {}
  <2>1. PICK i \in S : TRUE
    BY <1>2
  <2>2. S = {i}
    BY <2>1
  <2> QED BY <1>2, <2>2, FS_Singleton
<1> QED BY <1>1, <1>2

LEMMA OutstandingIs ==
    ASSUME PInv, NEW op \in Operations
    PROVE  Outstanding(op) = IF Out(stream, op) THEN 1 ELSE 0
<1>1. CompletionIndices(op) = OpsAt(stream.queue, op)
  BY DEF CompletionIndices, Indices, OpsAt
<1>2. Ordered(stream.queue, stream.kernel)
  BY DEF PInv, Fit, Fine
<1>3. Cardinality(OpsAt(stream.queue, op)) = IF OpsAt(stream.queue, op) = {} THEN 0 ELSE 1
  <2> DEFINE S == OpsAt(stream.queue, op)
  <2>1. \A i, j \in S : i = j
    BY <1>2 DEF Ordered
  <2> HIDE DEF S
  <2> QED BY <2>1, AtMostOne DEF S
<1>4. op \in stream.kernel => OpsAt(stream.queue, op) = {}
  BY <1>2 DEF Ordered
<1> QED BY <1>1, <1>3, <1>4 DEF Outstanding, Out

\* At most one operation uses each side of the socket, in the reactor or in the
\* FIFO: S_READ is set exactly while a read is outstanding, and S_WRITE is set
\* while a connect, a write or a shutdown is.
THEOREM OneOperationPerSide == Spec => []OneOperation
<1>1. ASSUME PInv PROVE OneOperation
  <2> DEFINE Count(op) == IF Out(stream, op) THEN 1 ELSE 0
  <2>1. /\ Outstanding("read") = Count("read") /\ Outstanding("connect") = Count("connect")
        /\ Outstanding("write") = Count("write") /\ Outstanding("shutdown") = Count("shutdown")
    BY <1>1, OutstandingIs DEF Operations
  <2>2. /\ stream.sRead <=> Out(stream, "read")
        /\ \A op \in Writers : Out(stream, op) =>
             stream.sWrite /\ \A x \in Writers : Out(stream, x) => x = op
    BY <1>1 DEF PInv, Fit, Flagged
  <2>3. Count("read") = IF stream.sRead THEN 1 ELSE 0
    BY <2>2
  <2>4. /\ Count("connect") + Count("write") + Count("shutdown") <= 1
        /\ Count("connect") + Count("write") + Count("shutdown") = 1 => stream.sWrite
    <3>1. /\ Out(stream, "connect") => ~Out(stream, "write") /\ ~Out(stream, "shutdown")
          /\ Out(stream, "write") => ~Out(stream, "shutdown")
          /\ Out(stream, "connect") \/ Out(stream, "write") \/ Out(stream, "shutdown")
               => stream.sWrite
      BY <2>2 DEF Writers
    <3> QED BY <3>1
  <2> HIDE DEF Count
  <2> QED BY <2>1, <2>3, <2>4 DEF OneOperation
<1> QED BY <1>1, FlagsAreTrue, PTL

\* Only a closed stream finds its write queue empty behind a completed write
\* (front() of an empty deque) or posts a call of an empty read callback.
THEOREM BreaksOnlyClosed == Spec => []BrokenOnlyWhenClosed
<1>1. ASSUME PInv, OInv PROVE BrokenOnlyWhenClosed
  <2>1. stream.undefined => Closed(stream)
    BY <1>1 DEF PInv, Fit, Flagged
  <2>2. \A i \in RunIndices : stream.queue[i].run = "lostRead" => Closed(stream)
    <3>1. RunIndices = RunsAt(stream.queue)
      BY DEF RunIndices, Indices, RunsAt
    <3> QED BY <1>1, <3>1 DEF OInv, Owes, OneEnd
  <2> QED BY <2>1, <2>2 DEF BrokenOnlyWhenClosed
<1> QED BY <1>1, FlagsAreTrue, Owed, PTL
=============================================================================
