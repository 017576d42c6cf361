---------------------------- MODULE IOLoopProofs ----------------------------
(***************************************************************************)
(* Theorems about IOLoop, for every number of timers, every set of signals *)
(* and whatever handlers throw.                                            *)
(*                                                                         *)
(* StopIsHeard relates three flags that nearly every action rebuilds       *)
(* together with the rest of the IOLoop.  Heard(l) says of an IOLoop value *)
(* that the flags are there and related; every operation on an IOLoop      *)
(* keeps it.                                                               *)
(*                                                                         *)
(* The timers: an IOLoop is Tidy when each queued timer has one handler,   *)
(* in the FIFO or executing, of the timer's kind.  Every operation keeps a *)
(* loop tidy and says what it does to the chains of timeouts that will run *)
(* the PeriodicCallback; ChainStep sums that up for a step.                *)
(*                                                                         *)
(* The signals: whatever ends a wait starts the next, stops the loop, or   *)
(* is a signal's handler, which starts it when it returns (Listens).       *)
(***************************************************************************)
EXTENDS IOLoop, FiniteSetTheorems, WellFoundedInduction, SequenceTheorems, TLAPS

Fields == {"inside", "stopped", "halted", "queue", "timers", "waiting", "callbacks", "raised"}

Heard(l) ==
    /\ Fields \subseteq DOMAIN l
    /\ l.inside \in BOOLEAN /\ l.stopped \in BOOLEAN /\ l.halted \in BOOLEAN
    /\ l.inside /\ l.stopped => l.halted

\* What does not touch the flags keeps Heard: the operations on the FIFO, the
\* timers and the signal set.
LEMMA PostHeard == ASSUME NEW l, Heard(l), NEW h PROVE Heard(Post(l, h))
BY DEF Heard, Fields, Post

LEMMA Next1Heard == ASSUME NEW l, Heard(l) PROVE Heard(Next1(l))
BY DEF Heard, Fields, Next1

LEMMA WaitSignalsHeard == ASSUME NEW l, Heard(l) PROVE Heard(WaitSignals(l))
BY DEF Heard, Fields, WaitSignals

LEMMA UnregisterHeard == ASSUME NEW l, Heard(l), NEW n PROVE Heard(Unregister(l, n))
BY DEF Heard, Fields, Unregister

LEMMA AddTimeoutHeard == ASSUME NEW l, Heard(l), NEW what PROVE Heard(AddTimeout(l, what))
BY DEF Heard, Fields, AddTimeout

LEMMA RemoveTimeoutHeard == ASSUME NEW l, Heard(l), NEW t PROVE Heard(RemoveTimeout(l, t))
<1> DEFINE m == Post(l, Handler(l.timers[t].what, t, FALSE, NoSignal))
<1>1. Heard(m)
  BY PostHeard
<1>2. Heard([m EXCEPT !.timers[t].state = "queued"])
  <2> HIDE DEF m
  <2> QED BY <1>1 DEF Heard, Fields
<1> QED BY <1>2 DEF RemoveTimeout

LEMMA ReleaseHeard == ASSUME NEW l, Heard(l), NEW t PROVE Heard(Release(l, t))
BY DEF Heard, Fields, Release

\* stop() sets both flags, start() enters run() only with the flag clear, and
\* clears it when it leaves.
LEMMA StopLoopHeard == ASSUME NEW l, Heard(l) PROVE Heard(StopLoop(l))
BY DEF Heard, Fields, StopLoop

LEMMA EnterRunHeard == ASSUME NEW l, Heard(l) PROVE Heard(EnterRun(l))
<1>1. ~l.stopped => Heard([l EXCEPT !.inside = TRUE, !.halted = FALSE])
  BY DEF Heard, Fields
<1>2. l.stopped => Heard([l EXCEPT !.stopped = FALSE])
  BY DEF Heard, Fields
<1> QED BY <1>1, <1>2, WaitSignalsHeard DEF EnterRun

LEMMA LeaveHeard == ASSUME NEW l, Heard(l) PROVE Heard(Leave(l))
<1>1. Heard([l EXCEPT !.inside = FALSE, !.stopped = FALSE])
  BY DEF Heard, Fields
<1> QED BY <1>1, RemoveTimeoutHeard DEF Leave

LEMMA QuietHeard == ASSUME NEW l, Heard(l), NEW h PROVE Heard(Quiet(l, h))
<1>1. Heard(StopLoop(l))
  BY StopLoopHeard
<1>2. Heard(Release(l, h.timer)) /\ Heard(Release(StopLoop(l), h.timer))
  BY <1>1, ReleaseHeard
<1>3. Heard([Unregister(StopLoop(l), h.signal) EXCEPT !.waiting = FALSE])
  <2> DEFINE m == Unregister(StopLoop(l), h.signal)
  <2>1. Heard(m)
    BY <1>1, UnregisterHeard
  <2> HIDE DEF m
  <2>2. Heard([m EXCEPT !.waiting = FALSE])
    BY <2>1 DEF Heard, Fields
  <2> QED BY <2>2 DEF m
<1>4. Heard(WaitSignals([l EXCEPT !.waiting = FALSE]))
  <2>1. Heard([l EXCEPT !.waiting = FALSE])
    BY DEF Heard, Fields
  <2> QED BY <2>1, WaitSignalsHeard
<1> QED BY <1>2, <1>3, <1>4 DEF Quiet

-----------------------------------------------------------------------------
\* Heard is an inductive invariant.

HeardInv == Heard(loop)

LEMMA InitHeard == Init => Heard(loop)
BY DEF Init, Heard, Fields

LEMMA RunSyncHeard == ASSUME Heard(loop), RunSync PROVE Heard(loop')
<1>1. PICK deadline \in BOOLEAN :
        LET t == IF deadline THEN NewTimer(loop) ELSE 0
            l == IF deadline THEN AddTimeout(loop, "deadline") ELSE loop
            m == EnterRun(Post(l, Handler("callback", 0, TRUE, NoSignal)))
        IN  loop' = IF m.inside THEN m ELSE RemoveTimeout(m, t)
  BY DEF RunSync
<1> DEFINE t == IF deadline THEN NewTimer(loop) ELSE 0
           l == IF deadline THEN AddTimeout(loop, "deadline") ELSE loop
           m == EnterRun(Post(l, Handler("callback", 0, TRUE, NoSignal)))
<1>2. Heard(l)
  BY AddTimeoutHeard
<1>3. Heard(m)
  <2> HIDE DEF l
  <2> QED BY <1>2, PostHeard, EnterRunHeard
<1>4. Heard(RemoveTimeout(m, t))
  <2> HIDE DEF m, t
  <2> QED BY <1>3, RemoveTimeoutHeard
<1> QED BY <1>1, <1>3, <1>4

LEMMA RunHeard == ASSUME Heard(loop), Run PROVE Heard(loop')
<1> DEFINE h == Head(loop.queue)
           l == Next1(loop)
<1>1. Heard(l)
  BY Next1Heard
<1>2. \/ loop' = Quiet(l, h)
      \/ loop' = [l EXCEPT !.waiting = FALSE]
      \/ loop' = l
  BY DEF Run
<1> HIDE DEF h, l
<1>3. Heard(Quiet(l, h))
  BY <1>1, QuietHeard
<1>4. Heard([l EXCEPT !.waiting = FALSE])
  BY <1>1 DEF Heard, Fields
<1> QED BY <1>1, <1>2, <1>3, <1>4

\* What a program's callback leaves: its _Timeout is gone, and the timeout of a
\* PeriodicCallback is scheduled anew.
LEMMA EndedHeard ==
    ASSUME Heard(loop), NEW h, NEW p PROVE Heard(Ended(h)) /\ Heard(Scheduled(p, Ended(h)))
<1>1. Heard(Ended(h))
  BY ReleaseHeard DEF Ended
<1> QED BY <1>1, AddTimeoutHeard DEF Scheduled

LEMMA HandlerReturnsHeard == ASSUME Heard(loop), HandlerReturns PROVE Heard(loop')
<1>1. CASE current.what = "tick"
  BY <1>1, EndedHeard DEF HandlerReturns, EndTick
<1>2. CASE current.what = "signal"
  <2>1. PICK keep \in BOOLEAN :
          LET l == IF keep THEN loop ELSE Unregister(loop, current.signal)
          IN  loop' = IF ~loop.halted THEN WaitSignals(l) ELSE l
    BY <1>2 DEF HandlerReturns
  <2> DEFINE l == IF keep THEN loop ELSE Unregister(loop, current.signal)
  <2>2. Heard(l)
    BY UnregisterHeard
  <2>3. Heard(WaitSignals(l))
    <3> HIDE DEF l
    <3> QED BY <2>2, WaitSignalsHeard
  <2> QED BY <2>1, <2>2, <2>3
<1>3. CASE current.what # "tick" /\ current.what # "signal"
  <2>1. loop' = Ended(current)
    BY <1>3 DEF HandlerReturns
  <2> QED BY <2>1, EndedHeard
<1> QED BY <1>1, <1>2, <1>3

LEMMA HandlerThrowsHeard == ASSUME Heard(loop), HandlerThrows PROVE Heard(loop')
<1>1. \/ loop' = Scheduled(EndedPeriodic(current), Ended(current))
      \/ loop' = Leave(Ended(current))
      \/ loop' = Ended(current)
  BY DEF HandlerThrows, EndTick
<1>2. Heard(Ended(current)) /\ Heard(Scheduled(EndedPeriodic(current), Ended(current)))
  BY EndedHeard
<1>3. Heard(Leave(Ended(current)))
  BY <1>2, LeaveHeard
<1> QED BY <1>1, <1>2, <1>3

LEMMA NextHeard == ASSUME Heard(loop), [Next]_vars PROVE Heard(loop')
<1>1. CASE Start
  BY <1>1, EnterRunHeard DEF Start
<1>2. CASE RunSync
  BY <1>2, RunSyncHeard
<1>3. CASE Return
  BY <1>3, LeaveHeard DEF Return
<1>4. CASE Stop
  BY <1>4, StopLoopHeard DEF Stop
<1>5. CASE AddCallback
  BY <1>5, PostHeard DEF AddCallback
<1>6. CASE AddTimeoutCall
  BY <1>6, AddTimeoutHeard DEF AddTimeoutCall
<1>7. CASE RemoveTimeoutCall
  BY <1>7, RemoveTimeoutHeard DEF RemoveTimeoutCall
<1>8. CASE Signal
  <2>1. PICK n \in Signals \ Interrupts :
          \/ LET l == [loop EXCEPT !.callbacks = @ \cup {n}]
             IN  loop' = IF ~loop.halted THEN WaitSignals(l) ELSE l
          \/ loop' = Unregister(loop, n)
    BY <1>8 DEF Signal
  <2> DEFINE l == [loop EXCEPT !.callbacks = @ \cup {n}]
  <2>2. Heard(l)
    BY DEF Heard, Fields
  <2>3. Heard(WaitSignals(l))
    <3> HIDE DEF l
    <3> QED BY <2>2, WaitSignalsHeard
  <2> QED BY <2>1, <2>2, <2>3, UnregisterHeard
<1>9. CASE PeriodicStart
  BY <1>9, AddTimeoutHeard DEF PeriodicStart, Scheduled
<1>10. CASE PeriodicStop
  BY <1>10, RemoveTimeoutHeard DEF PeriodicStop
<1>11. ASSUME NEW t \in Timers, Expire(t) PROVE Heard(loop')
  <2> DEFINE m == Post(loop, Handler(loop.timers[t].what, t, TRUE, NoSignal))
  <2>1. Heard(m)
    BY PostHeard
  <2>2. Heard([m EXCEPT !.timers[t].state = "queued"])
    <3> HIDE DEF m
    <3> QED BY <2>1 DEF Heard, Fields
  <2> QED BY <1>11, <2>2 DEF Expire
<1>12. ASSUME NEW n \in Signals, Deliver(n) PROVE Heard(loop')
  <2> DEFINE m == Post(loop, Handler("signal", 0, TRUE, n))
  <2>1. Heard(m)
    BY PostHeard
  <2>2. Heard([m EXCEPT !.raised = @ \ {n}])
    <3> HIDE DEF m
    <3> QED BY <2>1 DEF Heard, Fields
  <2> QED BY <1>12, <2>2 DEF Deliver
<1>13. CASE Raise
  BY <1>13 DEF Raise, Heard, Fields
<1>14. CASE Run
  BY <1>14, RunHeard
<1>15. CASE HandlerReturns
  BY <1>15, HandlerReturnsHeard
<1>16. CASE HandlerThrows
  BY <1>16, HandlerThrowsHeard
<1>17. CASE UNCHANGED vars
  BY <1>17 DEF vars
<1> QED
  BY <1>1, <1>2, <1>3, <1>4, <1>5, <1>6, <1>7, <1>8, <1>9, <1>10, <1>11, <1>12, <1>13,
     <1>14, <1>15, <1>16, <1>17 DEF Next, Program, LoopStep

\* A loop that runs is never left with the flag of a stop() that its io_service
\* does not know of: no call of stop() is swallowed while the loop goes on.
THEOREM StopAlwaysHeard == Spec => []StopIsHeard
<1>1. Init => HeardInv
  BY InitHeard DEF HeardInv
<1>2. HeardInv /\ [Next]_vars => HeardInv'
  BY NextHeard DEF HeardInv
<1>3. HeardInv => StopIsHeard
  BY DEF HeardInv, Heard, StopIsHeard
<1> QED BY <1>1, <1>2, <1>3, PTL DEF Spec
-----------------------------------------------------------------------------
\* Handlers and the timers they belong to

LoopType ==
    [inside : BOOLEAN, stopped : BOOLEAN, halted : BOOLEAN, queue : Seq(Handlers),
     timers : [Timers -> [state : {"free", "armed", "queued"}, what : Kinds]],
     waiting : BOOLEAN, callbacks : SUBSET Signals, raised : SUBSET Signals]

TimerKinds == {"timeout", "deadline", "tick"}

\* A handler of a timer belongs to a queued one of its kind.
Fits(l, h) ==
    /\ h.timer = 0 <=> h.what \in {"callback", "signal"}
    /\ h.timer # 0 => l.timers[h.timer] = [state |-> "queued", what |-> h.what]

\* An IOLoop whose queued timers have one handler each, in the FIFO or as c,
\* the one that is executing.
Tidy(l, c) ==
    /\ l \in LoopType /\ c \in Handlers
    /\ \A t \in Timers : l.timers[t].what \in TimerKinds
    /\ \A i \in DOMAIN l.queue : Fits(l, l.queue[i])
    /\ \A i, j \in DOMAIN l.queue :
           l.queue[i].timer # 0 /\ l.queue[i].timer = l.queue[j].timer => i = j
    /\ Fits(l, c)
    /\ c.timer # 0 => \A i \in DOMAIN l.queue : l.queue[i].timer # c.timer
    /\ \A t \in Timers : l.timers[t].state = "queued" =>
           c.timer = t \/ \E i \in DOMAIN l.queue : l.queue[i].timer = t

\* A weak reference to a _Timeout, or none.
Refers(l, r, what) ==
    r # 0 => r \in Timers /\ l.timers[r].state # "free" /\ l.timers[r].what = what

PeriodicType == [running : BOOLEAN, timeout : 0..MaxTimers]

\* Timer t will call PeriodicCallback::run.
Chain(l, t) ==
    /\ l.timers[t].what = "tick" /\ l.timers[t].state # "free"
    /\ \A i \in DOMAIN l.queue : l.queue[i].timer = t => l.queue[i].ok

ChainsOf(l) == {t \in Timers : Chain(l, t)}

\* The timers of l are those of m, but for t.
SameTimersBut(l, m, t) ==
    \A u \in Timers \ {t} : m.timers[u] = l.timers[u]

\* What is executing is kept, but nothing is if it has no timer.
LEMMA TidyIdle ==
    ASSUME NEW l, NEW c, Tidy(l, c), c.timer = 0
    PROVE  Tidy(l, Idle)
BY DEF Tidy, Fits, Idle, Handler, Handlers, Kinds, Timers

LEMMA TidyFlags ==
    ASSUME NEW l, NEW c, Tidy(l, c), NEW m \in LoopType, m.queue = l.queue, m.timers = l.timers
    PROVE  Tidy(m, c) /\ ChainsOf(m) = ChainsOf(l)
BY DEF Tidy, Fits, ChainsOf, Chain

\* A posted function or a delivered signal.
LEMMA TidyPost ==
    ASSUME NEW l, NEW c, Tidy(l, c), NEW h \in Handlers, h.timer = 0,
           h.what \in {"callback", "signal"}
    PROVE  Tidy(Post(l, h), c) /\ ChainsOf(Post(l, h)) = ChainsOf(l)
<1> DEFINE m == Post(l, h)
<1>1. l.queue \in Seq(Handlers)
  BY DEF Tidy, LoopType
<1> DEFINE q == Append(l.queue, h)
<1>2. q \in Seq(Handlers)
  BY <1>1
<1>3. m = [l EXCEPT !.queue = q]
  BY DEF Tidy, LoopType, Post
<1>4. l \in LoopType
  BY DEF Tidy
<1> HIDE DEF m, q
<1>5. m \in LoopType /\ m.timers = l.timers /\ m.queue = q
  BY <1>2, <1>3, <1>4 DEF LoopType
<1>6. m \in LoopType /\ m.timers = l.timers /\ m.queue = Append(l.queue, h)
  BY <1>5 DEF q
<1>7. DOMAIN m.queue = DOMAIN l.queue \cup {Len(l.queue) + 1}
  BY <1>1, <1>6
<1>8. \A i \in DOMAIN l.queue : m.queue[i] = l.queue[i] /\ i # Len(l.queue) + 1
  BY <1>1, <1>6
<1>9. m.queue[Len(l.queue) + 1] = h
  BY <1>1, <1>6
<1> DEFINE n == Len(l.queue) + 1
<1> HIDE DEF n
<1>10. DOMAIN m.queue = DOMAIN l.queue \cup {n} /\ m.queue[n] = h
  BY <1>7, <1>9 DEF n
<1>11. \A i \in DOMAIN l.queue : m.queue[i] = l.queue[i]
  BY <1>8
<1>12. Tidy(m, c)
  <2>1. \A g : Fits(l, g) => Fits(m, g)
    BY <1>6 DEF Fits
  <2>2. Fits(m, h)
    BY DEF Fits
  <2>3. \A i \in DOMAIN m.queue : Fits(m, m.queue[i])
    BY <1>10, <1>11, <2>1, <2>2 DEF Tidy
  <2>4. \A i, j \in DOMAIN m.queue :
           m.queue[i].timer # 0 /\ m.queue[i].timer = m.queue[j].timer => i = j
    BY <1>10, <1>11 DEF Tidy
  <2>5. c.timer # 0 => \A i \in DOMAIN m.queue : m.queue[i].timer # c.timer
    BY <1>10, <1>11 DEF Tidy
  <2>6. \A t \in Timers : m.timers[t].state = "queued" =>
           c.timer = t \/ \E i \in DOMAIN m.queue : m.queue[i].timer = t
    BY <1>6, <1>10, <1>11 DEF Tidy
  <2> QED BY <1>6, <2>1, <2>3, <2>4, <2>5, <2>6 DEF Tidy
<1>13. \A t \in Timers : Chain(m, t) <=> Chain(l, t)
  BY <1>6, <1>10, <1>11 DEF Chain, Timers
<1> QED BY <1>12, <1>13 DEF m, ChainsOf

-----------------------------------------------------------------------------
\* Timers

LEMMA NewTimerIsFree ==
    ASSUME NEW l, FreeSlots(l) # {}
    PROVE  NewTimer(l) \in FreeSlots(l)
<1> DEFINE S == FreeSlots(l)
<1>1. S \subseteq Nat
  BY LoopAssumption DEF FreeSlots, Timers
<1>2. \E t \in S : \A u \in S : t <= u
  <2> HIDE DEF S
  <2>1. S # {}
    BY DEF S
  <2>2. PICK t \in S : \A u \in S : <<u, t>> \notin OpToRel(<, Nat)
    BY <1>1, <2>1, NatLessThanWellFounded, WFMin, Zenon
  <2>3. \A u \in S : ~(u < t)
    BY <1>1, <2>2, Zenon DEF OpToRel
  <2> QED BY <1>1, <2>3
<1> QED BY <1>2 DEF NewTimer

\* addTimeout arms a timer that was free.
Added(l, m, n, what) ==
    /\ n \in Timers /\ l.timers[n].state = "free"
    /\ m.timers[n] = [state |-> "armed", what |-> what]
    /\ SameTimersBut(l, m, n)
    /\ ChainsOf(m) = IF what = "tick" THEN ChainsOf(l) \cup {n} ELSE ChainsOf(l)

LEMMA TidyAdd ==
    ASSUME NEW l, NEW c, Tidy(l, c), FreeSlots(l) # {},
           NEW what \in TimerKinds
    PROVE  Tidy(AddTimeout(l, what), c) /\ Added(l, AddTimeout(l, what), NewTimer(l), what)
<1> DEFINE n == NewTimer(l)
           m == AddTimeout(l, what)
<1>1. n \in Timers /\ l.timers[n].state = "free"
  BY NewTimerIsFree DEF FreeSlots
<1>2. l \in LoopType /\ l.timers \in [Timers -> [state : {"free", "armed", "queued"}, what : Kinds]]
  BY DEF Tidy, LoopType
<1>3. m = [l EXCEPT !.timers = [l.timers EXCEPT ![n] = [state |-> "armed", what |-> what]]]
  BY <1>2 DEF AddTimeout, LoopType
<1> HIDE DEF n, m
<1> DEFINE ts == [l.timers EXCEPT ![n] = [state |-> "armed", what |-> what]]
<1>13. ts \in [Timers -> [state : {"free", "armed", "queued"}, what : Kinds]]
  BY <1>2 DEF Kinds, TimerKinds
<1>4. m \in LoopType /\ m.queue = l.queue
  <2> HIDE DEF ts
  <2> QED BY <1>2, <1>3, <1>13 DEF LoopType, ts
<1>5. /\ m.timers[n] = [state |-> "armed", what |-> what]
      /\ \A u \in Timers \ {n} : m.timers[u] = l.timers[u]
  BY <1>1, <1>2, <1>3 DEF LoopType
<1>6. \A h \in Handlers : Fits(l, h) => h.timer # n /\ Fits(m, h)
  BY <1>1, <1>5 DEF Fits, Handlers, Timers
<1>7. \A i \in DOMAIN l.queue : l.queue[i] \in Handlers /\ Fits(l, l.queue[i])
  BY <1>2 DEF Tidy, LoopType
<1>8. Tidy(m, c)
  BY <1>1, <1>4, <1>5, <1>6, <1>7 DEF Tidy
<1>9. \A t \in Timers \ {n} : Chain(m, t) <=> Chain(l, t)
  BY <1>4, <1>5 DEF Chain
<1>10. Chain(m, n) <=> what = "tick"
  BY <1>4, <1>5, <1>6, <1>7 DEF Chain
<1>11. ~Chain(l, n)
  BY <1>1 DEF Chain
<1>12. ChainsOf(m) = IF what = "tick" THEN ChainsOf(l) \cup {n} ELSE ChainsOf(l)
  BY <1>1, <1>9, <1>10, <1>11 DEF ChainsOf
<1> QED BY <1>1, <1>5, <1>8, <1>12 DEF Added, SameTimersBut, n, m

\* An armed timer is queued: it expires (ok) or is aborted.
Queue(l, t, ok) ==
    [Post(l, Handler(l.timers[t].what, t, ok, NoSignal)) EXCEPT !.timers[t].state = "queued"]

Kept(l, m) ==
    \A u \in Timers : m.timers[u].what = l.timers[u].what
                         /\ (m.timers[u].state = "free" <=> l.timers[u].state = "free")

LEMMA TidyQueue ==
    ASSUME NEW l, NEW c, Tidy(l, c), NEW t \in Timers, l.timers[t].state = "armed", NEW ok \in BOOLEAN
    PROVE  /\ Tidy(Queue(l, t, ok), c) /\ Kept(l, Queue(l, t, ok))
           /\ ChainsOf(Queue(l, t, ok)) = IF ok THEN ChainsOf(l) ELSE ChainsOf(l) \ {t}
<1> DEFINE h == Handler(l.timers[t].what, t, ok, NoSignal)
           m == Queue(l, t, ok)
           n == Len(l.queue) + 1
<1>1. l \in LoopType /\ l.queue \in Seq(Handlers)
      /\ l.timers \in [Timers -> [state : {"free", "armed", "queued"}, what : Kinds]]
  BY DEF Tidy, LoopType
<1>2. h \in Handlers /\ h.timer = t /\ h.what = l.timers[t].what /\ h.ok = ok /\ h.timer # 0
  BY <1>1, LoopAssumption DEF Handlers, Handler, Timers
<1>3. m = [l EXCEPT !.queue = Append(l.queue, h),
                    !.timers = [l.timers EXCEPT ![t] = [l.timers[t] EXCEPT !.state = "queued"]]]
  BY <1>1 DEF Queue, Post, LoopType
<1> DEFINE q == Append(l.queue, h)
           ts == [l.timers EXCEPT ![t] = [l.timers[t] EXCEPT !.state = "queued"]]
<1>16. ts \in [Timers -> [state : {"free", "armed", "queued"}, what : Kinds]]
  BY <1>1
<1> HIDE DEF h, m
<1>4. m \in LoopType /\ m.queue = Append(l.queue, h)
  <2>1. q \in Seq(Handlers)
    BY <1>1, <1>2
  <2>2. m = [l EXCEPT !.queue = q, !.timers = ts]
    BY <1>3
  <2> HIDE DEF q, ts
  <2>3. m \in LoopType /\ m.queue = q
    BY <1>1, <1>16, <2>1, <2>2 DEF LoopType
  <2> QED BY <2>3 DEF q
<1>5. /\ m.timers[t] = [state |-> "queued", what |-> l.timers[t].what]
      /\ \A u \in Timers \ {t} : m.timers[u] = l.timers[u]
  BY <1>1, <1>3 DEF LoopType
<1>6. DOMAIN m.queue = DOMAIN l.queue \cup {n} /\ m.queue[n] = h
      /\ \A i \in DOMAIN l.queue : m.queue[i] = l.queue[i] /\ i # n
  BY <1>1, <1>4
<1>7. \A g \in Handlers : Fits(l, g) => g.timer # t /\ Fits(m, g)
  BY <1>5 DEF Fits, Handlers, Timers
<1>8. \A i \in DOMAIN l.queue : l.queue[i] \in Handlers /\ Fits(l, l.queue[i])
  BY <1>1 DEF Tidy
<1>9. Fits(m, h) /\ \A u \in Timers : m.timers[u].what \in TimerKinds
  BY <1>2, <1>5 DEF Fits, Tidy, TimerKinds
<1> HIDE DEF n
<1>10. Tidy(m, c)
  <2>1. \A i \in DOMAIN m.queue : Fits(m, m.queue[i])
    BY <1>6, <1>7, <1>8, <1>9
  <2>2. \A i, j \in DOMAIN m.queue :
           m.queue[i].timer # 0 /\ m.queue[i].timer = m.queue[j].timer => i = j
    BY <1>2, <1>6, <1>7, <1>8 DEF Tidy
  <2>3. Fits(m, c) /\ (c.timer # 0 => \A i \in DOMAIN m.queue : m.queue[i].timer # c.timer)
    BY <1>2, <1>6, <1>7 DEF Tidy
  <2>4. \A u \in Timers : m.timers[u].state = "queued" =>
           c.timer = u \/ \E i \in DOMAIN m.queue : m.queue[i].timer = u
    BY <1>2, <1>5, <1>6 DEF Tidy
  <2> QED BY <1>4, <1>9, <2>1, <2>2, <2>3, <2>4 DEF Tidy
<1>11. Kept(l, m)
  BY <1>5 DEF Kept
<1>12. \A u \in Timers \ {t} : Chain(m, u) <=> Chain(l, u)
  BY <1>2, <1>5, <1>6 DEF Chain
<1>13. Chain(m, t) <=> l.timers[t].what = "tick" /\ ok
  BY <1>2, <1>5, <1>6, <1>7, <1>8 DEF Chain
<1>14. Chain(l, t) <=> l.timers[t].what = "tick"
  BY <1>7, <1>8 DEF Chain
<1>15. ChainsOf(m) = IF ok THEN ChainsOf(l) ELSE ChainsOf(l) \ {t}
  BY <1>12, <1>13, <1>14 DEF ChainsOf
<1> QED BY <1>10, <1>11, <1>15 DEF m

LEMMA TidyRemove ==
    ASSUME NEW l, NEW c, Tidy(l, c), NEW t \in 0..MaxTimers
    PROVE  LET m == RemoveTimeout(l, t)
           IN  /\ Tidy(m, c) /\ Kept(l, m)
               /\ ChainsOf(m) \subseteq ChainsOf(l)
               /\ (t = 0 \/ l.timers[t].what # "tick") => ChainsOf(m) = ChainsOf(l)
<1>1. CASE t = 0 \/ l.timers[t].state # "armed"
  BY <1>1 DEF RemoveTimeout, Kept
<1>2. CASE t # 0 /\ l.timers[t].state = "armed"
  <2>1. t \in Timers /\ RemoveTimeout(l, t) = Queue(l, t, FALSE)
    BY <1>2, LoopAssumption DEF Timers, RemoveTimeout, Queue
  <2>2. /\ Tidy(Queue(l, t, FALSE), c) /\ Kept(l, Queue(l, t, FALSE))
        /\ ChainsOf(Queue(l, t, FALSE)) = ChainsOf(l) \ {t}
    BY <1>2, <2>1, TidyQueue
  <2>3. l.timers[t].what # "tick" => t \notin ChainsOf(l)
    BY DEF ChainsOf, Chain
  <2> QED BY <1>2, <2>1, <2>2, <2>3
<1> QED BY <1>1, <1>2

\* The handler that was executing is destroyed, its timer is free.
Released(l, m, t) ==
    /\ SameTimersBut(l, m, t)
    /\ ChainsOf(m) = ChainsOf(l) \ {t}
    /\ t # 0 => m.timers[t].state = "free"
    /\ \A f \in {"inside", "stopped", "halted", "queue", "waiting", "callbacks"} : m[f] = l[f]

LEMMA TidyRelease ==
    ASSUME NEW l, NEW c, Tidy(l, c)
    PROVE  Tidy(Release(l, c.timer), Idle) /\ Released(l, Release(l, c.timer), c.timer)
<1> DEFINE t == c.timer
           m == Release(l, t)
<1>1. l \in LoopType /\ l.timers \in [Timers -> [state : {"free", "armed", "queued"}, what : Kinds]]
  BY DEF Tidy, LoopType
<1>2. CASE t = 0
  <2>1. 0 \notin ChainsOf(l)
    BY LoopAssumption DEF ChainsOf, Timers
  <2> QED BY <1>2, <2>1, TidyIdle DEF Release, Released, SameTimersBut
<1>3. CASE t # 0
  <2> DEFINE ts == [l.timers EXCEPT ![t] = [l.timers[t] EXCEPT !.state = "free"]]
  <2>1. t \in Timers
    BY <1>3, LoopAssumption DEF Tidy, Handlers, Timers
  <2>2. ts \in [Timers -> [state : {"free", "armed", "queued"}, what : Kinds]]
    BY <1>1, <2>1
  <2>3. m = [l EXCEPT !.timers = ts]
    BY <1>1, <1>3 DEF Release, LoopType
  <2>4. ts[t] = [l.timers[t] EXCEPT !.state = "free"] /\ ts[t].state = "free"
        /\ ts[t].what = l.timers[t].what /\ \A u \in Timers \ {t} : ts[u] = l.timers[u]
    BY <1>1, <2>1
  <2> HIDE DEF ts, m
  <2>5. /\ m \in LoopType /\ m.timers = ts /\ m.queue = l.queue
        /\ m.inside = l.inside /\ m.stopped = l.stopped /\ m.halted = l.halted
        /\ m.waiting = l.waiting /\ m.callbacks = l.callbacks
    BY <1>1, <2>2, <2>3 DEF LoopType
  <2>6. \A i \in DOMAIN m.queue : m.queue[i].timer # t
    BY <1>3, <2>5 DEF Tidy
  <2>7. \A i \in DOMAIN l.queue : l.queue[i] \in Handlers
    BY <1>1 DEF LoopType
  <2>8. \A i \in DOMAIN m.queue : Fits(m, m.queue[i])
    BY <1>3, <2>4, <2>5, <2>6, <2>7, LoopAssumption DEF Tidy, Fits, Handlers, Timers
  <2>9. Fits(m, Idle) /\ Idle \in Handlers /\ Idle.timer = 0
    BY LoopAssumption DEF Fits, Idle, Handler, Handlers, Kinds
  <2>10. \A u \in Timers : m.timers[u].state = "queued" =>
             \E i \in DOMAIN m.queue : m.queue[i].timer = u
    <3>1. \A u \in Timers : l.timers[u].state = "queued" =>
              t = u \/ \E i \in DOMAIN l.queue : l.queue[i].timer = u
      BY DEF Tidy
    <3>2. m.timers[t].state # "queued"
      BY <2>4, <2>5
    <3> QED BY <2>4, <2>5, <3>1, <3>2
  <2>16. \A u \in Timers : m.timers[u].what \in TimerKinds
    <3>1. \A u \in Timers : l.timers[u].what \in TimerKinds
      BY DEF Tidy
    <3> QED BY <2>4, <2>5, <3>1
  <2>11. Tidy(m, Idle)
    BY <2>5, <2>8, <2>9, <2>10, <2>16 DEF Tidy
  <2>12. \A u \in Timers \ {t} : Chain(m, u) <=> Chain(l, u)
    BY <2>4, <2>5 DEF Chain
  <2>13. ~Chain(m, t)
    BY <2>4, <2>5 DEF Chain
  <2>14. ChainsOf(m) = ChainsOf(l) \ {t}
    BY <2>12, <2>13 DEF ChainsOf
  <2>15. Released(l, m, t)
    BY <2>4, <2>5, <2>14 DEF Released, SameTimersBut
  <2> QED BY <2>11, <2>15 DEF m
<1> QED BY <1>2, <1>3

-----------------------------------------------------------------------------
\* The head of the FIFO

LEMMA TidyTake ==
    ASSUME NEW l, Tidy(l, Idle), l.queue # <<>>
    PROVE  LET h == Head(l.queue)
               m == Next1(l)
           IN  /\ Tidy(m, h) /\ m.timers = l.timers
               /\ h \in Handlers /\ Fits(l, h)
               /\ (h.timer = 0 \/ h.ok) => ChainsOf(m) = ChainsOf(l)
               /\ ChainsOf(m) \ {h.timer} = ChainsOf(l) \ {h.timer}
               /\ ~h.ok => h.timer \notin ChainsOf(l)
               /\ \A f \in {"inside", "stopped", "halted", "waiting", "callbacks"} : m[f] = l[f]
<1> DEFINE q == l.queue
           p == Tail(q)
           h == Head(q)
           m == Next1(l)
<1>1. l \in LoopType /\ q \in Seq(Handlers) /\ q # <<>>
  BY DEF Tidy, LoopType
<1>2. p \in Seq(Handlers) /\ h = q[1] /\ h \in Handlers /\ 1 \in DOMAIN q
      /\ \A i \in DOMAIN p : i + 1 \in DOMAIN q /\ p[i] = q[i + 1] /\ i \in Nat /\ i + 1 # 1
  BY <1>1
<1>3. \A j \in DOMAIN q : j = 1 \/ (j - 1 \in DOMAIN p /\ p[j - 1] = q[j])
  <2>1. Len(p) = Len(q) - 1 /\ \A i \in 1..(Len(q) - 1) : p[i] = q[i + 1]
    BY <1>1
  <2> QED BY <1>1, <1>2, <2>1
<1>4. m = [l EXCEPT !.queue = p]
  BY <1>1 DEF Next1, LoopType
<1>5. /\ Idle.timer = 0
      /\ \A i \in DOMAIN q : Fits(l, q[i])
      /\ \A i, j \in DOMAIN q : q[i].timer # 0 /\ q[i].timer = q[j].timer => i = j
      /\ \A t \in Timers : l.timers[t].state = "queued" => \E i \in DOMAIN q : q[i].timer = t
  BY LoopAssumption DEF Tidy, Idle, Handler, Timers
<1> HIDE DEF q, p, h, m
<1>6. /\ m \in LoopType /\ m.queue = p /\ m.timers = l.timers
      /\ m.inside = l.inside /\ m.stopped = l.stopped /\ m.halted = l.halted
      /\ m.waiting = l.waiting /\ m.callbacks = l.callbacks
  BY <1>1, <1>2, <1>4 DEF LoopType
<1>7. Fits(m, h) /\ Fits(l, h) /\ \A i \in DOMAIN p : Fits(m, p[i])
  BY <1>2, <1>5, <1>6 DEF Fits
<1>8. \A i, j \in DOMAIN p : p[i].timer # 0 /\ p[i].timer = p[j].timer => i = j
  <2> SUFFICES ASSUME NEW i \in DOMAIN p, NEW j \in DOMAIN p, p[i].timer # 0,
                      p[i].timer = p[j].timer
               PROVE  i = j
    OBVIOUS
  <2>1. i + 1 = j + 1
    BY <1>2, <1>5
  <2> QED BY <1>2, <2>1
<1>9. h.timer # 0 => \A i \in DOMAIN p : p[i].timer # h.timer
  BY <1>2, <1>5
<1>10. \A t \in Timers : m.timers[t].state = "queued" =>
           h.timer = t \/ \E i \in DOMAIN p : p[i].timer = t
  <2> SUFFICES ASSUME NEW t \in Timers, l.timers[t].state = "queued", h.timer # t
               PROVE  \E i \in DOMAIN p : p[i].timer = t
    BY <1>6
  <2>1. PICK j \in DOMAIN q : q[j].timer = t
    BY <1>5
  <2> QED BY <1>2, <1>3, <2>1
<1>11. Tidy(m, h)
  BY <1>2, <1>6, <1>7, <1>8, <1>9, <1>10 DEF Tidy
<1>12. ASSUME NEW t \in Timers, t # h.timer \/ h.ok PROVE Chain(m, t) <=> Chain(l, t)
  <2>1. (\A i \in DOMAIN p : p[i].timer = t => p[i].ok)
            <=> \A j \in DOMAIN q : q[j].timer = t => q[j].ok
    <3>1. ASSUME \A i \in DOMAIN p : p[i].timer = t => p[i].ok
          PROVE  \A j \in DOMAIN q : q[j].timer = t => q[j].ok
      BY <1>2, <1>3, <1>12, <3>1
    <3>2. ASSUME \A j \in DOMAIN q : q[j].timer = t => q[j].ok
          PROVE  \A i \in DOMAIN p : p[i].timer = t => p[i].ok
      BY <1>2, <3>2
    <3> QED BY <3>1, <3>2
  <2> QED BY <1>6, <2>1 DEF Chain, q
<1>13. ~h.ok => ~Chain(l, h.timer)
  BY <1>2 DEF Chain, q
<1>14. 0 \notin Timers
  BY LoopAssumption DEF Timers
<1>15. h.timer = 0 \/ h.ok => ChainsOf(m) = ChainsOf(l)
  BY <1>12, <1>14 DEF ChainsOf
<1>16. ChainsOf(m) \ {h.timer} = ChainsOf(l) \ {h.timer}
  BY <1>12 DEF ChainsOf
<1>17. ~h.ok => h.timer \notin ChainsOf(l)
  BY <1>13 DEF ChainsOf
<1>18. \A f \in {"inside", "stopped", "halted", "waiting", "callbacks"} : m[f] = l[f]
  BY <1>6
<1> QED BY <1>2, <1>6, <1>7, <1>11, <1>15, <1>16, <1>17, <1>18 DEF h, m, q

-----------------------------------------------------------------------------
\* What the rest of the state knows of the timers

\* The flags and the signal set change, the FIFO and the timers do not.
SameQueue(l, m) == m \in LoopType /\ m.queue = l.queue /\ m.timers = l.timers

LEMMA FlagsQueue ==
    ASSUME NEW l \in LoopType
    PROVE  /\ SameQueue(l, WaitSignals(l)) /\ SameQueue(l, StopLoop(l)) /\ SameQueue(l, EnterRun(l))
           /\ SameQueue(l, [l EXCEPT !.waiting = FALSE])
           /\ SameQueue(l, [l EXCEPT !.inside = FALSE, !.stopped = FALSE])
           /\ \A n : SameQueue(l, Unregister(l, n))
<1>1. SameQueue(l, WaitSignals(l)) /\ SameQueue(l, StopLoop(l))
  BY DEF LoopType, SameQueue, WaitSignals, StopLoop
<1>2. SameQueue(l, [l EXCEPT !.inside = TRUE, !.halted = FALSE])
      /\ SameQueue(l, [l EXCEPT !.stopped = FALSE])
      /\ SameQueue(l, [l EXCEPT !.waiting = FALSE])
      /\ SameQueue(l, [l EXCEPT !.inside = FALSE, !.stopped = FALSE])
  BY DEF LoopType, SameQueue
<1>3. ASSUME NEW m \in LoopType PROVE SameQueue(m, WaitSignals(m))
  BY DEF LoopType, SameQueue, WaitSignals
<1>4. SameQueue(l, EnterRun(l))
  <2> DEFINE m == [l EXCEPT !.inside = TRUE, !.halted = FALSE]
  <2>1. SameQueue(l, m) /\ SameQueue(m, WaitSignals(m))
    BY <1>2, <1>3 DEF SameQueue
  <2> QED BY <1>2, <2>1 DEF EnterRun, SameQueue
<1>5. \A n : SameQueue(l, Unregister(l, n))
  BY DEF LoopType, SameQueue, Unregister
<1> QED BY <1>1, <1>2, <1>4, <1>5

LEMMA TidySame ==
    ASSUME NEW l, NEW c, Tidy(l, c), NEW m, SameQueue(l, m)
    PROVE  Tidy(m, c) /\ ChainsOf(m) = ChainsOf(l) /\ Kept(l, m)
BY TidyFlags DEF SameQueue, Kept

LEMMA RefersKept ==
    ASSUME NEW l, NEW m, Kept(l, m), NEW r, NEW what, Refers(l, r, what)
    PROVE  Refers(m, r, what)
BY DEF Kept, Refers

LEMMA RefersAdded ==
    ASSUME NEW l, NEW m, NEW n, NEW k, Added(l, m, n, k), NEW r, NEW what, Refers(l, r, what)
    PROVE  Refers(m, r, what)
BY DEF Added, SameTimersBut, Refers

LEMMA RefersReleased ==
    ASSUME NEW l, NEW m, NEW t, Released(l, m, t), NEW r, NEW what, Refers(l, r, what)
    PROVE  Refers(m, Expired(r, t), what) /\ (r # t => Refers(m, r, what))
BY DEF Released, SameTimersBut, Refers, Expired

\* Leaving start() removes the deadline of the runSync around it.
LEMMA TidyLeave ==
    ASSUME NEW l, NEW c, Tidy(l, c), sync \in 0..MaxTimers, Refers(l, sync, "deadline")
    PROVE  Tidy(Leave(l), c) /\ ChainsOf(Leave(l)) = ChainsOf(l) /\ Kept(l, Leave(l))
<1> DEFINE m == [l EXCEPT !.inside = FALSE, !.stopped = FALSE]
<1>1. SameQueue(l, m)
  BY FlagsQueue DEF Tidy
<1>2. Tidy(m, c) /\ ChainsOf(m) = ChainsOf(l) /\ Kept(l, m) /\ m.timers = l.timers
  BY <1>1, TidySame DEF SameQueue
<1> HIDE DEF m
<1>3. sync # 0 => m.timers[sync].what = "deadline"
  BY <1>2 DEF Refers
<1>4. /\ Tidy(RemoveTimeout(m, sync), c) /\ Kept(m, RemoveTimeout(m, sync))
      /\ ChainsOf(RemoveTimeout(m, sync)) = ChainsOf(m)
  BY <1>2, <1>3, TidyRemove
<1> QED BY <1>2, <1>4 DEF Leave, Kept, m

-----------------------------------------------------------------------------
\* The inductive invariant: tidy, with references to timers that live.

LoopInv ==
    /\ Tidy(loop, current) /\ current.what # "deadline"
    /\ sync \in 0..MaxTimers /\ Refers(loop, sync, "deadline")
    /\ periodic \in PeriodicType /\ Refers(loop, periodic.timeout, "tick")
    /\ starts \in Nat

\* The chains of timeouts stay, end with stop(), grow with start(), or go on with
\* the next timeout; a callback that throws what run() does not catch ends its own.
ChainStep ==
    LET C == ChainsOf(loop)
        D == ChainsOf(loop')
    IN  \/ D = C /\ starts' = starts /\ (periodic'.running => periodic.running)
        \/ D \subseteq C /\ starts' = starts /\ ~periodic'.running
        \/ \E n \in Timers : D = C \cup {n} /\ starts' = starts + 1
        \/ \E t \in C, n \in Timers : D = (C \ {t}) \cup {n} /\ starts' = starts
        \/ D \subseteq C /\ starts' = starts /\ ~(Throws["tick"] \subseteq {"std"})

\* A step that changes nothing but the flags, the FIFO and the state of timers.
LEMMA QuietStep ==
    ASSUME LoopInv, Tidy(loop', current'), ChainsOf(loop') = ChainsOf(loop), Kept(loop, loop'),
           UNCHANGED <<current, sync, periodic, starts>>
    PROVE  LoopInv' /\ ChainStep
BY RefersKept DEF LoopInv, ChainStep

LEMMA InitTidy == Init => LoopInv
<1> SUFFICES ASSUME Init PROVE LoopInv
  OBVIOUS
<1>1. loop \in LoopType /\ loop.queue = <<>> /\ \A t \in Timers : loop.timers[t].state = "free"
  <2>1. loop.timers \in [Timers -> [state : {"free", "armed", "queued"}, what : Kinds]]
    BY DEF Init, Kinds
  <2>2. loop.queue \in Seq(Handlers) /\ loop.callbacks \in SUBSET Signals
    BY LoopAssumption DEF Init
  <2> QED BY <2>1, <2>2 DEF Init, LoopType
<1>2. current \in Handlers /\ current.timer = 0 /\ current.what = "callback"
  BY LoopAssumption DEF Init, Idle, Handler, Handlers, Kinds
<1>3. Tidy(loop, current)
  BY <1>1, <1>2 DEF Tidy, Fits, Init, TimerKinds
<1>4. sync \in 0..MaxTimers /\ sync = 0 /\ periodic \in PeriodicType /\ periodic.timeout = 0
      /\ starts \in Nat
  BY LoopAssumption DEF Init, PeriodicType
<1> QED BY <1>2, <1>3, <1>4 DEF LoopInv, Refers

LEMMA StartSteps == ASSUME LoopInv, Start PROVE LoopInv' /\ ChainStep
<1>1. SameQueue(loop, loop')
  BY FlagsQueue DEF Start, LoopInv, Tidy
<1>2. Tidy(loop', current) /\ ChainsOf(loop') = ChainsOf(loop) /\ Kept(loop, loop')
  BY <1>1, TidySame DEF LoopInv
<1> QED BY <1>2, QuietStep DEF Start

LEMMA StopSteps == ASSUME LoopInv, Stop PROVE LoopInv' /\ ChainStep
<1>1. SameQueue(loop, loop')
  BY FlagsQueue DEF Stop, LoopInv, Tidy
<1>2. Tidy(loop', current) /\ ChainsOf(loop') = ChainsOf(loop) /\ Kept(loop, loop')
  BY <1>1, TidySame DEF LoopInv
<1> QED BY <1>2, QuietStep DEF Stop, Calls

\* A posted handler without a timer is a handler.
LEMMA PlainHandler ==
    ASSUME NEW what \in {"callback", "signal"}, NEW n \in Signals \cup {NoSignal}
    PROVE  LET h == Handler(what, 0, TRUE, n)
           IN  h \in Handlers /\ h.timer = 0 /\ h.what = what
BY LoopAssumption DEF Handler, Handlers, Kinds

LEMMA AddCallbackSteps == ASSUME LoopInv, AddCallback PROVE LoopInv' /\ ChainStep
<1>1. loop' = Post(loop, Handler("callback", 0, TRUE, NoSignal))
  BY DEF AddCallback
<1>2. Tidy(loop', current) /\ ChainsOf(loop') = ChainsOf(loop)
  BY <1>1, PlainHandler, TidyPost DEF LoopInv
<1>3. Kept(loop, loop')
  BY <1>1 DEF Kept, Post, LoopInv, Tidy, LoopType
<1> QED BY <1>2, <1>3, QuietStep DEF AddCallback

LEMMA DeliverSteps == ASSUME LoopInv, NEW n \in Signals, Deliver(n) PROVE LoopInv' /\ ChainStep
<1> DEFINE m == Post(loop, Handler("signal", 0, TRUE, n))
<1>1. loop' = [m EXCEPT !.raised = @ \ {n}]
  BY DEF Deliver
<1>2. Tidy(m, current) /\ ChainsOf(m) = ChainsOf(loop)
  BY PlainHandler, TidyPost DEF LoopInv
<1>3. m.timers = loop.timers
  BY DEF Post, LoopInv, Tidy, LoopType
<1> HIDE DEF m
<1>4. SameQueue(m, loop')
  BY <1>1, <1>2 DEF SameQueue, Tidy, LoopType
<1>5. Tidy(loop', current) /\ ChainsOf(loop') = ChainsOf(loop) /\ Kept(loop, loop')
  BY <1>2, <1>3, <1>4, TidySame DEF Kept
<1> QED BY <1>5, QuietStep DEF Deliver, Polled

LEMMA RaiseSteps == ASSUME LoopInv, Raise PROVE LoopInv' /\ ChainStep
<1>1. SameQueue(loop, loop')
  BY DEF Raise, SameQueue, LoopInv, Tidy, LoopType
<1>2. Tidy(loop', current) /\ ChainsOf(loop') = ChainsOf(loop) /\ Kept(loop, loop')
  BY <1>1, TidySame DEF LoopInv
<1> QED BY <1>2, QuietStep DEF Raise

LEMMA SignalSteps == ASSUME LoopInv, Signal PROVE LoopInv' /\ ChainStep
<1>1. PICK n \in Signals \ Interrupts :
        \/ LET l == [loop EXCEPT !.callbacks = @ \cup {n}]
           IN  loop' = IF ~loop.halted THEN WaitSignals(l) ELSE l
        \/ loop' = Unregister(loop, n)
  BY DEF Signal
<1> DEFINE l == [loop EXCEPT !.callbacks = @ \cup {n}]
<1>2. SameQueue(loop, l) /\ loop \in LoopType
  BY DEF SameQueue, LoopInv, Tidy, LoopType
<1>3. SameQueue(l, WaitSignals(l))
  <2> HIDE DEF l
  <2> QED BY <1>2, FlagsQueue DEF SameQueue
<1>4. SameQueue(loop, WaitSignals(l)) /\ SameQueue(loop, Unregister(loop, n))
  BY <1>2, <1>3, FlagsQueue DEF SameQueue
<1> HIDE DEF l
<1>5. loop' \in {l, WaitSignals(l), Unregister(loop, n)}
  BY <1>1 DEF l
<1>6. SameQueue(loop, loop')
  BY <1>2, <1>4, <1>5
<1>7. Tidy(loop', current) /\ ChainsOf(loop') = ChainsOf(loop) /\ Kept(loop, loop')
  BY <1>6, TidySame DEF LoopInv
<1> QED BY <1>7, QuietStep DEF Signal, Calls

LEMMA AddTimeoutSteps == ASSUME LoopInv, AddTimeoutCall PROVE LoopInv' /\ ChainStep
<1>1. loop' = AddTimeout(loop, "timeout") /\ FreeSlots(loop) # {}
  BY DEF AddTimeoutCall
<1>2. Tidy(loop', current) /\ Added(loop, loop', NewTimer(loop), "timeout")
  BY <1>1, TidyAdd DEF LoopInv, TimerKinds
<1>3. ChainsOf(loop') = ChainsOf(loop)
  BY <1>2 DEF Added
<1>4. UNCHANGED <<current, sync, periodic, starts>>
  BY DEF AddTimeoutCall, Calls
<1>5. Refers(loop', sync, "deadline") /\ Refers(loop', periodic.timeout, "tick")
  BY <1>2, RefersAdded DEF LoopInv
<1> QED BY <1>2, <1>3, <1>4, <1>5 DEF LoopInv, ChainStep

LEMMA RemoveTimeoutSteps == ASSUME LoopInv, RemoveTimeoutCall PROVE LoopInv' /\ ChainStep
<1>1. PICK t \in Timers : loop.timers[t].what = "timeout" /\ loop' = RemoveTimeout(loop, t)
  BY DEF RemoveTimeoutCall
<1>2. t \in 0..MaxTimers
  BY LoopAssumption DEF Timers
<1>3. Tidy(loop', current) /\ Kept(loop, loop') /\ ChainsOf(loop') = ChainsOf(loop)
  BY <1>1, <1>2, TidyRemove DEF LoopInv
<1> QED BY <1>3, QuietStep DEF RemoveTimeoutCall, Calls

LEMMA PeriodicStartSteps == ASSUME LoopInv, PeriodicStart PROVE LoopInv' /\ ChainStep
<1> DEFINE n == NewTimer(loop)
           p == [periodic EXCEPT !.running = TRUE]
<1>1. p.running /\ p.timeout = periodic.timeout /\ p \in PeriodicType
  BY DEF LoopInv, PeriodicType
<1>2. loop' = AddTimeout(loop, "tick") /\ FreeSlots(loop) # {}
      /\ periodic' = [p EXCEPT !.timeout = n]
  BY <1>1 DEF PeriodicStart, Schedule, Scheduled
<1>3. Tidy(loop', current) /\ Added(loop, loop', n, "tick")
  BY <1>2, TidyAdd DEF LoopInv, TimerKinds
<1> HIDE DEF n, p
<1>4. n \in Timers /\ ChainsOf(loop') = ChainsOf(loop) \cup {n} /\ starts' = starts + 1
  BY <1>3 DEF Added, PeriodicStart
<1>5. periodic' \in PeriodicType /\ periodic'.timeout = n
  BY <1>1, <1>2, <1>4, LoopAssumption DEF PeriodicType, Timers
<1>6. Refers(loop', n, "tick")
  BY <1>3 DEF Added, Refers
<1>7. UNCHANGED <<current, sync>> /\ Refers(loop', sync, "deadline")
  BY <1>3, RefersAdded DEF LoopInv, PeriodicStart, Calls
<1> QED BY <1>3, <1>4, <1>5, <1>6, <1>7 DEF LoopInv, ChainStep

LEMMA PeriodicStopSteps == ASSUME LoopInv, PeriodicStop PROVE LoopInv' /\ ChainStep
<1>1. loop' = RemoveTimeout(loop, periodic.timeout) /\ starts' = starts
      /\ periodic' = [running |-> FALSE, timeout |-> 0] /\ UNCHANGED <<current, sync>>
  BY DEF PeriodicStop, Calls
<1>2. periodic.timeout \in 0..MaxTimers
  BY DEF LoopInv, PeriodicType
<1>3. Tidy(loop', current) /\ Kept(loop, loop') /\ ChainsOf(loop') \subseteq ChainsOf(loop)
  BY <1>1, <1>2, TidyRemove DEF LoopInv
<1>4. periodic' \in PeriodicType /\ periodic'.timeout = 0 /\ ~periodic'.running
  BY <1>1, LoopAssumption DEF PeriodicType
<1>5. Refers(loop', sync, "deadline") /\ Refers(loop', 0, "tick")
  BY <1>3, RefersKept DEF LoopInv, Refers
<1> QED BY <1>1, <1>3, <1>4, <1>5 DEF LoopInv, ChainStep

LEMMA ExpireSteps == ASSUME LoopInv, NEW t \in Timers, Expire(t) PROVE LoopInv' /\ ChainStep
<1>1. loop' = Queue(loop, t, TRUE) /\ loop.timers[t].state = "armed"
  BY DEF Expire, Queue
<1>2. Tidy(loop', current) /\ Kept(loop, loop') /\ ChainsOf(loop') = ChainsOf(loop)
  BY <1>1, TidyQueue DEF LoopInv
<1> QED BY <1>2, QuietStep DEF Expire, Polled

LEMMA ReturnSteps == ASSUME LoopInv, Return PROVE LoopInv' /\ ChainStep
<1>1. loop' = Leave(loop) /\ sync' = 0 /\ UNCHANGED <<current, periodic, starts>>
  BY DEF Return
<1>2. Tidy(loop', current) /\ ChainsOf(loop') = ChainsOf(loop) /\ Kept(loop, loop')
  BY <1>1, TidyLeave DEF LoopInv
<1>3. Refers(loop', 0, "deadline") /\ 0 \in 0..MaxTimers
  BY LoopAssumption DEF Refers
<1> QED BY <1>1, <1>2, <1>3, RefersKept DEF LoopInv, ChainStep

LEMMA RunSyncSteps == ASSUME LoopInv, RunSync PROVE LoopInv' /\ ChainStep
<1>1. PICK deadline \in BOOLEAN :
        /\ deadline => FreeSlots(loop) # {}
        /\ LET t == IF deadline THEN NewTimer(loop) ELSE 0
               l == IF deadline THEN AddTimeout(loop, "deadline") ELSE loop
               m == EnterRun(Post(l, Handler("callback", 0, TRUE, NoSignal)))
           IN  /\ loop' = IF m.inside THEN m ELSE RemoveTimeout(m, t)
               /\ sync' = IF m.inside THEN t ELSE 0
  BY DEF RunSync
<1> DEFINE t == IF deadline THEN NewTimer(loop) ELSE 0
           l == IF deadline THEN AddTimeout(loop, "deadline") ELSE loop
           k == Post(l, Handler("callback", 0, TRUE, NoSignal))
           m == EnterRun(k)
<1>2. deadline => Tidy(AddTimeout(loop, "deadline"), current)
                  /\ Added(loop, AddTimeout(loop, "deadline"), NewTimer(loop), "deadline")
  BY <1>1, TidyAdd DEF LoopInv, TimerKinds
<1>3. Tidy(l, current) /\ ChainsOf(l) = ChainsOf(loop)
  BY <1>2 DEF LoopInv, Added
<1>4. t \in 0..MaxTimers /\ Refers(l, t, "deadline") /\ (t # 0 => l.timers[t].what = "deadline")
  BY <1>2, LoopAssumption DEF Added, Refers, Timers
<1>5. Refers(l, periodic.timeout, "tick")
  BY <1>2, RefersAdded DEF LoopInv
<1> HIDE DEF l, t
<1>16. Tidy(k, current) /\ ChainsOf(k) = ChainsOf(l)
  <2> DEFINE h == Handler("callback", 0, TRUE, NoSignal)
  <2>1. h \in Handlers /\ h.timer = 0 /\ h.what = "callback"
    BY PlainHandler
  <2> HIDE DEF h
  <2>2. Tidy(Post(l, h), current) /\ ChainsOf(Post(l, h)) = ChainsOf(l)
    BY <1>3, <2>1, TidyPost
  <2> QED BY <2>2 DEF h
<1>6. Tidy(k, current) /\ ChainsOf(k) = ChainsOf(l) /\ k.timers = l.timers
  BY <1>3, <1>16 DEF Tidy, LoopType, Post
<1> HIDE DEF k
<1>7. SameQueue(k, m)
  BY <1>6, FlagsQueue DEF Tidy
<1>8. Tidy(m, current) /\ ChainsOf(m) = ChainsOf(k) /\ m.timers = l.timers
  BY <1>6, <1>7, TidySame DEF SameQueue
<1> HIDE DEF m
<1>9. /\ Tidy(RemoveTimeout(m, t), current) /\ Kept(m, RemoveTimeout(m, t))
      /\ ChainsOf(RemoveTimeout(m, t)) = ChainsOf(m)
  <2>1. t = 0 \/ m.timers[t].what # "tick"
    BY <1>4, <1>8
  <2> QED BY <1>4, <1>8, <2>1, TidyRemove
<1>10. loop' \in {m, RemoveTimeout(m, t)} /\ sync' \in {0, t}
  BY <1>1 DEF m, k, l, t
<1>11. Kept(l, m) /\ Kept(l, RemoveTimeout(m, t))
  BY <1>8, <1>9 DEF Kept
<1>12. Refers(loop', t, "deadline") /\ Refers(loop', 0, "deadline")
       /\ Refers(loop', periodic.timeout, "tick")
  <2>1. Kept(l, loop')
    BY <1>10, <1>11
  <2> QED BY <1>4, <1>5, <2>1, RefersKept DEF Refers
<1>13. Tidy(loop', current) /\ ChainsOf(loop') = ChainsOf(loop)
  BY <1>3, <1>6, <1>8, <1>9, <1>10
<1>14. UNCHANGED <<current, periodic, starts>>
  BY DEF RunSync
<1>15. sync' \in 0..MaxTimers /\ Refers(loop', sync', "deadline")
  BY <1>4, <1>10, <1>12, LoopAssumption
<1> QED BY <1>12, <1>13, <1>14, <1>15 DEF LoopInv, ChainStep

\* The handler that was executing is gone, with its timer; a deadline is never
\* executing.
LEMMA EndsReferences ==
    ASSUME LoopInv
    PROVE  LET l == Ended(current)
               p == EndedPeriodic(current)
           IN  /\ Tidy(l, Idle) /\ Released(loop, l, current.timer)
               /\ Refers(l, sync, "deadline")
               /\ p \in PeriodicType /\ p.running = periodic.running
               /\ Refers(l, p.timeout, "tick")
<1> DEFINE l == Ended(current)
           p == EndedPeriodic(current)
           t == current.timer
<1>1. Tidy(l, Idle) /\ Released(loop, l, t)
  BY TidyRelease DEF Ended, LoopInv
<1>2. sync = 0 \/ sync # t
  BY DEF LoopInv, Refers, Tidy, Fits
<1>3. Refers(l, sync, "deadline")
  <2> HIDE DEF l, t
  <2>1. CASE sync # t
    BY <1>1, <2>1, RefersReleased DEF LoopInv
  <2>2. CASE sync = 0
    BY <2>2 DEF Refers
  <2> QED BY <1>2, <2>1, <2>2
<1>4. p \in PeriodicType /\ p.running = periodic.running /\ p.timeout = Expired(periodic.timeout, t)
  <2>1. Expired(periodic.timeout, t) \in 0..MaxTimers
    BY LoopAssumption DEF Expired, LoopInv, PeriodicType
  <2> QED BY <2>1 DEF EndedPeriodic, LoopInv, PeriodicType
<1>5. Refers(l, p.timeout, "tick")
  <2> HIDE DEF l, t, p
  <2> QED BY <1>1, <1>4, RefersReleased DEF LoopInv
<1> QED BY <1>1, <1>3, <1>4, <1>5

\* PeriodicCallback::run ends: another timeout follows the one it came from.
LEMMA EndTickSteps ==
    ASSUME LoopInv, current.what = "tick", current' = Idle, UNCHANGED <<sync, starts>>,
           EndTick(Ended(current), EndedPeriodic(current))
    PROVE  LoopInv' /\ ChainStep
<1> DEFINE l == Ended(current)
           p == EndedPeriodic(current)
           t == current.timer
           n == NewTimer(l)
<1>1. /\ Tidy(l, Idle) /\ Released(loop, l, t) /\ Refers(l, sync, "deadline")
      /\ p \in PeriodicType /\ p.running = periodic.running /\ Refers(l, p.timeout, "tick")
  BY EndsReferences
<1>2. loop' = Scheduled(p, l) /\ periodic' = Schedule(p, l)
  BY DEF EndTick
<1>3. t \in Timers /\ t \in ChainsOf(loop)
  <2>1. Fits(loop, current) /\ current \in Handlers
    BY DEF LoopInv, Tidy
  <2>2. t # 0 /\ t \in Timers /\ loop.timers[t] = [state |-> "queued", what |-> "tick"]
    BY <2>1, LoopAssumption DEF Fits, Handlers, Timers
  <2>3. \A i \in DOMAIN loop.queue : loop.queue[i].timer # t
    BY <2>2 DEF LoopInv, Tidy
  <2> QED BY <2>2, <2>3 DEF ChainsOf, Chain
<1>4. Idle.what # "deadline" /\ starts' = starts /\ starts \in Nat /\ sync' = sync
      /\ sync \in 0..MaxTimers
  BY DEF Idle, Handler, LoopInv
<1> HIDE DEF l, p, t
<1>5. CASE ~p.running
  <2>1. loop' = l /\ periodic' = p
    BY <1>2, <1>5 DEF Schedule, Scheduled
  <2>2. ChainsOf(loop') \subseteq ChainsOf(loop)
    BY <1>1, <2>1 DEF Released
  <2> QED BY <1>1, <1>4, <1>5, <2>1, <2>2 DEF LoopInv, ChainStep
<1>6. CASE p.running
  <2>1. loop' = AddTimeout(l, "tick") /\ periodic' = [p EXCEPT !.timeout = n]
    BY <1>2, <1>6 DEF Schedule, Scheduled
  <2>2. FreeSlots(l) # {}
    BY <1>1, <1>3, LoopAssumption DEF Released, FreeSlots, Timers
  <2>3. Tidy(loop', Idle) /\ Added(l, loop', n, "tick")
    BY <1>1, <2>1, <2>2, TidyAdd DEF TimerKinds
  <2> HIDE DEF n
  <2>4. n \in Timers /\ Refers(loop', n, "tick")
    BY <2>3 DEF Added, Refers
  <2>5. periodic' \in PeriodicType /\ periodic'.timeout = n
    BY <1>1, <2>1, <2>4, LoopAssumption DEF PeriodicType, Timers
  <2>6. Refers(loop', sync, "deadline")
    BY <1>1, <2>3, RefersAdded
  <2>7. ChainsOf(loop') = (ChainsOf(loop) \ {t}) \cup {n}
    BY <1>1, <2>3 DEF Added, Released
  <2> QED BY <1>3, <1>4, <2>3, <2>4, <2>5, <2>6, <2>7 DEF LoopInv, ChainStep
<1> QED BY <1>5, <1>6

LEMMA HandlerReturnsSteps == ASSUME LoopInv, HandlerReturns PROVE LoopInv' /\ ChainStep
<1>1. current' = Idle /\ UNCHANGED <<sync, starts>>
  BY DEF HandlerReturns
<1>2. Idle.what # "deadline" /\ loop \in LoopType
  BY DEF Idle, Handler, LoopInv, Tidy
<1>3. CASE current.what = "tick"
  BY <1>1, <1>3, EndTickSteps DEF HandlerReturns
<1>4. CASE current.what = "signal"
  <2>1. PICK keep \in BOOLEAN :
          LET l == IF keep THEN loop ELSE Unregister(loop, current.signal)
          IN  loop' = IF ~loop.halted THEN WaitSignals(l) ELSE l
    BY <1>4 DEF HandlerReturns
  <2> DEFINE l == IF keep THEN loop ELSE Unregister(loop, current.signal)
  <2>2. SameQueue(loop, l)
    BY <1>2, FlagsQueue DEF SameQueue
  <2>3. loop' \in {l, WaitSignals(l)}
    BY <2>1
  <2> HIDE DEF l
  <2>4. SameQueue(l, WaitSignals(l))
    BY <2>2, FlagsQueue DEF SameQueue
  <2>5. SameQueue(loop, loop')
    BY <2>2, <2>3, <2>4 DEF SameQueue
  <2>6. Tidy(loop', current) /\ ChainsOf(loop') = ChainsOf(loop) /\ Kept(loop, loop')
    BY <2>5, TidySame DEF LoopInv
  <2>7. current.timer = 0
    BY <1>4 DEF LoopInv, Tidy, Fits
  <2>8. Tidy(loop', Idle) /\ periodic' = periodic
    BY <1>4, <2>6, <2>7, TidyIdle DEF HandlerReturns
  <2>9. Refers(loop', sync, "deadline") /\ Refers(loop', periodic.timeout, "tick")
    BY <2>6, RefersKept DEF LoopInv
  <2> QED BY <1>1, <1>2, <2>6, <2>8, <2>9 DEF LoopInv, ChainStep
<1>5. CASE current.what # "tick" /\ current.what # "signal"
  <2>1. loop' = Ended(current) /\ periodic' = EndedPeriodic(current)
    BY <1>5 DEF HandlerReturns
  <2>2. current.timer \notin ChainsOf(loop)
    BY <1>5 DEF ChainsOf, Chain, LoopInv, Tidy, Fits, Timers
  <2>3. ChainsOf(loop') = ChainsOf(loop)
    BY <2>1, <2>2, EndsReferences DEF Released
  <2> QED BY <1>1, <1>2, <2>1, <2>3, EndsReferences DEF LoopInv, ChainStep
<1> QED BY <1>3, <1>4, <1>5

LEMMA HandlerThrowsSteps == ASSUME LoopInv, HandlerThrows PROVE LoopInv' /\ ChainStep
<1>1. PICK e \in Throws[current.what] :
         IF current.what = "tick" /\ e = "std"
         THEN EndTick(Ended(current), EndedPeriodic(current)) /\ UNCHANGED sync
         ELSE /\ loop' = IF e = "exit" THEN Leave(Ended(current)) ELSE Ended(current)
              /\ periodic' = EndedPeriodic(current)
              /\ sync' = IF e = "exit" THEN 0 ELSE sync
  BY DEF HandlerThrows
<1>2. current' = Idle /\ starts' = starts /\ Idle.what # "deadline"
  BY DEF HandlerThrows, Idle, Handler
<1>3. CASE current.what = "tick" /\ e = "std"
  BY <1>1, <1>2, <1>3, EndTickSteps
<1>4. CASE ~(current.what = "tick" /\ e = "std")
  <2> DEFINE l == Ended(current)
             p == EndedPeriodic(current)
  <2>1. /\ Tidy(l, Idle) /\ Released(loop, l, current.timer) /\ Refers(l, sync, "deadline")
        /\ p \in PeriodicType /\ p.running = periodic.running /\ Refers(l, p.timeout, "tick")
    BY EndsReferences
  <2>2. loop' \in {l, Leave(l)} /\ periodic' = p /\ sync' \in {0, sync}
    BY <1>1, <1>4
  <2> HIDE DEF l, p
  <2>3. Tidy(Leave(l), Idle) /\ ChainsOf(Leave(l)) = ChainsOf(l) /\ Kept(l, Leave(l))
    BY <2>1, TidyLeave DEF LoopInv
  <2>4. Tidy(loop', Idle) /\ ChainsOf(loop') = ChainsOf(l) /\ Kept(l, loop')
    BY <2>1, <2>2, <2>3 DEF Kept
  <2>5. /\ Refers(loop', sync, "deadline") /\ Refers(loop', 0, "deadline")
        /\ Refers(loop', p.timeout, "tick")
    BY <2>1, <2>4, RefersKept DEF Refers
  <2>6. sync' \in 0..MaxTimers /\ Refers(loop', sync', "deadline")
    BY <2>2, <2>5, LoopAssumption DEF LoopInv
  <2>7. ChainsOf(loop') = ChainsOf(loop) \ {current.timer}
    BY <2>1, <2>4 DEF Released
  <2>8. current.what # "tick" => current.timer \notin ChainsOf(loop)
    BY DEF ChainsOf, Chain, LoopInv, Tidy, Fits, Timers
  <2>9. current.what = "tick" => ~(Throws["tick"] \subseteq {"std"})
    BY <1>1, <1>4
  <2>10. ChainStep
    BY <1>2, <2>1, <2>2, <2>7, <2>8, <2>9 DEF ChainStep
  <2> QED BY <1>2, <2>1, <2>2, <2>4, <2>5, <2>6, <2>10 DEF LoopInv
<1> QED BY <1>3, <1>4

LEMMA RunSteps == ASSUME LoopInv, Run PROVE LoopInv' /\ ChainStep
<1> DEFINE h == Head(loop.queue)
           l == Next1(loop)
           t == h.timer
<1>1. /\ IF IsQuiet(l, h)
         THEN /\ loop' = Quiet(l, h)
              /\ sync' = Expired(sync, t)
              /\ periodic' = [periodic EXCEPT !.timeout = Expired(@, t)]
              /\ UNCHANGED current
         ELSE /\ loop' = IF h.what = "signal" THEN [l EXCEPT !.waiting = FALSE] ELSE l
              /\ current' = h
              /\ UNCHANGED <<sync, periodic>>
      /\ starts' = starts /\ starts \in Nat
      /\ current = Idle /\ current.what # "deadline"
  BY DEF Run, LoopInv
<1>2. /\ Tidy(l, h) /\ l.timers = loop.timers /\ Fits(loop, h) /\ h \in Handlers
      /\ t = 0 \/ h.ok => ChainsOf(l) = ChainsOf(loop)
      /\ ChainsOf(l) \ {t} = ChainsOf(loop) \ {t}
      /\ ~h.ok => t \notin ChainsOf(loop)
  BY <1>1, TidyTake DEF Run, LoopInv
<1>3. Refers(l, sync, "deadline") /\ Refers(l, periodic.timeout, "tick")
  BY <1>2 DEF LoopInv, Refers
<1>4. h.what # "tick" => t \notin ChainsOf(loop)
  BY <1>2, LoopAssumption DEF ChainsOf, Chain, Fits, Timers
<1>5. l \in LoopType
  BY <1>2 DEF Tidy
<1> HIDE DEF h, l
<1>6. CASE IsQuiet(l, h)
  <2>1. sync' \in 0..MaxTimers /\ periodic' \in PeriodicType
        /\ sync' = Expired(sync, t) /\ periodic'.timeout = Expired(periodic.timeout, t)
        /\ periodic'.running = periodic.running
    BY <1>1, <1>6, LoopAssumption DEF Expired, LoopInv, PeriodicType
  <2>2. \/ t # 0 /\ ~h.ok /\ loop' = Release(l, t)
        \/ h.what = "deadline" /\ loop' = Release(StopLoop(l), t)
        \/ h.what = "tick" /\ ~periodic.running /\ loop' = Release(l, t)
        \/ t = 0 /\ loop' = [Unregister(StopLoop(l), h.signal) EXCEPT !.waiting = FALSE]
        \/ t = 0 /\ loop' = WaitSignals([l EXCEPT !.waiting = FALSE])
    BY <1>1, <1>2, <1>6 DEF IsQuiet, Quiet, Fits
  <2>3. ASSUME NEW m, SameQueue(l, m)
        PROVE  /\ Tidy(Release(m, t), Idle) /\ ChainsOf(Release(m, t)) = ChainsOf(loop) \ {t}
               /\ Refers(Release(m, t), sync', "deadline")
               /\ Refers(Release(m, t), periodic'.timeout, "tick")
    <3>1. Tidy(m, h) /\ ChainsOf(m) = ChainsOf(l) /\ Kept(l, m)
      BY <1>2, <2>3, TidySame
    <3>2. Tidy(Release(m, t), Idle) /\ Released(m, Release(m, t), t)
      BY <3>1, TidyRelease
    <3>3. Refers(m, sync, "deadline") /\ Refers(m, periodic.timeout, "tick")
      BY <1>3, <3>1, RefersKept
    <3>4. Refers(Release(m, t), sync', "deadline")
          /\ Refers(Release(m, t), periodic'.timeout, "tick")
      BY <2>1, <3>2, <3>3, RefersReleased
    <3> QED BY <1>2, <3>1, <3>2, <3>4 DEF Released
  <2>4. \E m : SameQueue(l, m) /\ loop' = Release(m, t)
    <3>1. SameQueue(l, l) /\ SameQueue(l, StopLoop(l))
      BY <1>5, FlagsQueue DEF SameQueue
    <3>2. SameQueue(l, [Unregister(StopLoop(l), h.signal) EXCEPT !.waiting = FALSE])
      <4> DEFINE k == Unregister(StopLoop(l), h.signal)
      <4>1. SameQueue(StopLoop(l), k)
        BY <3>1, FlagsQueue DEF SameQueue
      <4> HIDE DEF k
      <4>2. SameQueue(k, [k EXCEPT !.waiting = FALSE])
        BY <4>1, FlagsQueue DEF SameQueue
      <4>3. SameQueue(l, [k EXCEPT !.waiting = FALSE])
        BY <3>1, <4>1, <4>2 DEF SameQueue
      <4> QED BY <4>3 DEF k
    <3>3. SameQueue(l, WaitSignals([l EXCEPT !.waiting = FALSE]))
      <4> DEFINE k == [l EXCEPT !.waiting = FALSE]
      <4>1. SameQueue(l, k)
        BY <1>5, FlagsQueue
      <4> HIDE DEF k
      <4>2. SameQueue(k, WaitSignals(k))
        BY <4>1, FlagsQueue DEF SameQueue
      <4>3. SameQueue(l, WaitSignals(k))
        BY <4>1, <4>2 DEF SameQueue
      <4> QED BY <4>3 DEF k
    <3>4. \A m : t = 0 => Release(m, t) = m
      BY DEF Release
    <3> QED BY <2>2, <3>1, <3>2, <3>3, <3>4
  <2>5. /\ Tidy(loop', Idle) /\ ChainsOf(loop') = ChainsOf(loop) \ {t}
        /\ Refers(loop', sync', "deadline") /\ Refers(loop', periodic'.timeout, "tick")
    BY <2>3, <2>4
  <2>6. t \notin ChainsOf(loop) \/ ~periodic.running
    <3>1. t = 0 => t \notin ChainsOf(loop)
      BY LoopAssumption DEF ChainsOf, Timers
    <3> QED BY <1>2, <1>4, <2>2, <3>1
  <2> QED BY <1>1, <1>6, <2>1, <2>5, <2>6 DEF LoopInv, ChainStep
<1>7. CASE ~IsQuiet(l, h)
  <2>1. h.what # "deadline" /\ (t = 0 \/ h.ok)
    BY <1>7 DEF IsQuiet
  <2>2. SameQueue(l, loop')
    BY <1>1, <1>5, <1>7, FlagsQueue DEF SameQueue
  <2>3. Tidy(loop', h) /\ ChainsOf(loop') = ChainsOf(loop) /\ Kept(l, loop')
    BY <1>2, <2>1, <2>2, TidySame
  <2>4. Refers(loop', sync, "deadline") /\ Refers(loop', periodic.timeout, "tick")
    BY <1>3, <2>3, RefersKept
  <2> QED BY <1>1, <1>7, <2>1, <2>3, <2>4 DEF LoopInv, ChainStep
<1> QED BY <1>6, <1>7

LEMMA LoopSteps == ASSUME LoopInv, [Next]_vars PROVE LoopInv' /\ ChainStep
<1>1. CASE UNCHANGED vars
  <2>1. Kept(loop, loop)
    BY DEF Kept
  <2> QED BY <1>1, <2>1, QuietStep DEF vars, LoopInv
<1>2. CASE Next
  BY <1>2, StartSteps, RunSyncSteps, StopSteps, AddCallbackSteps, AddTimeoutSteps,
     RemoveTimeoutSteps, SignalSteps, PeriodicStartSteps, PeriodicStopSteps, ExpireSteps,
     DeliverSteps, RaiseSteps, ReturnSteps, RunSteps, HandlerReturnsSteps, HandlerThrowsSteps
  DEF Next, Program, LoopStep
<1> QED BY <1>1, <1>2

-----------------------------------------------------------------------------
\* Theorems about the timers

\* The loop is tidy in every reachable state.
THEOREM StaysTidy == Spec => []LoopInv
BY InitTidy, LoopSteps, PTL DEF Spec

\* The state is of its type, and runSync and the PeriodicCallback refer to live
\* timeouts of their own.
THEOREM TypeCorrect == Spec => []TypeOK
<1>1. LoopInv => TypeOK
  BY DEF LoopInv, Tidy, LoopType, PeriodicType, Refers, References, TypeOK
<1> QED BY <1>1, StaysTidy, PTL

\* No handler outlives its _Timeout and none is queued twice, whatever is removed,
\* expires or throws.
THEOREM TimersHaveOneHandler == Spec => []OneHandlerPerTimer
<1>1. ASSUME LoopInv PROVE OneHandlerPerTimer
  <2> SUFFICES ASSUME NEW t \in Timers
               PROVE  LET I == {i \in DOMAIN loop.queue : loop.queue[i].timer = t}
                      IN  Cardinality(I) + (IF current.timer = t THEN 1 ELSE 0)
                              = (IF loop.timers[t].state = "queued" THEN 1 ELSE 0)
    BY DEF OneHandlerPerTimer
  <2> DEFINE I == {i \in DOMAIN loop.queue : loop.queue[i].timer = t}
  <2>1. t # 0
    BY LoopAssumption DEF Timers
  <2>2. I # {} \/ current.timer = t <=> loop.timers[t].state = "queued"
    <3>1. \A h : Fits(loop, h) /\ h.timer = t => loop.timers[t].state = "queued"
      BY <2>1 DEF Fits
    <3>3. (\A i \in DOMAIN loop.queue : Fits(loop, loop.queue[i])) /\ Fits(loop, current)
      BY <1>1 DEF LoopInv, Tidy
    <3>2. loop.timers[t].state = "queued" => I # {} \/ current.timer = t
      BY <1>1 DEF LoopInv, Tidy
    <3> QED BY <3>1, <3>2, <3>3
  <2>3. current.timer = t => I = {}
    BY <1>1, <2>1 DEF LoopInv, Tidy
  <2>4. I = {} \/ \E i : I = {i}
    BY <1>1, <2>1 DEF LoopInv, Tidy
  <2> HIDE DEF I
  <2>5. Cardinality(I) = IF I = {} THEN 0 ELSE 1
    BY <2>4, FS_EmptySet, FS_Singleton
  <2> QED BY <2>2, <2>3, <2>5 DEF I
<1> QED BY <1>1, StaysTidy, PTL

LEMMA ChainsAre == Chains = ChainsOf(loop)
BY DEF Chains, ChainsOf, Chain

\* There are at most as many chains of timeouts as calls of start(), whatever the
\* callback throws, calls or removes.
FewChains == LoopInv /\ Cardinality(ChainsOf(loop)) <= starts

LEMMA TimersFinite == ASSUME NEW S \in SUBSET Timers PROVE IsFiniteSet(S) /\ Cardinality(S) \in Nat
<1>1. IsFiniteSet(Timers)
  BY FS_Interval, LoopAssumption DEF Timers
<1> QED BY <1>1, FS_Subset, FS_CardinalityType

LEMMA AtMostOneMore ==
    ASSUME NEW S, IsFiniteSet(S), Cardinality(S) \in Int, NEW n
    PROVE  Cardinality(S \cup {n}) \in Int /\ Cardinality(S \cup {n}) <= Cardinality(S) + 1
<1> DEFINE k == Cardinality(S)
           m == Cardinality(S \cup {n})
<1>1. m = IF n \in S THEN k ELSE k + 1
  BY FS_AddElement
<1> HIDE DEF k, m
<1>2. k \in Int => m \in Int /\ m <= k + 1
  BY <1>1
<1> QED BY <1>2 DEF k, m

LEMMA FewChainsStep == ASSUME FewChains, [Next]_vars PROVE FewChains'
<1> DEFINE C == ChainsOf(loop)
           D == ChainsOf(loop')
           Size(S) == Cardinality(S)
<1>1. LoopInv' /\ ChainStep
  BY LoopSteps DEF FewChains
<1>2. Cardinality(C) <= starts /\ starts \in Nat
  BY DEF FewChains, LoopInv
<1>3. C \subseteq Timers /\ D \subseteq Timers
  BY DEF ChainsOf
<1>4. IsFiniteSet(C) /\ Cardinality(C) \in Nat /\ Cardinality(D) \in Nat
  BY <1>3, TimersFinite
<1>5. \/ D \subseteq C /\ starts' = starts
      \/ \E n \in Timers : D = C \cup {n} /\ starts' = starts + 1
      \/ \E t \in C, n \in Timers : D = (C \ {t}) \cup {n} /\ starts' = starts
  BY <1>1 DEF ChainStep
<1> HIDE DEF C, D
<1>6. CASE D \subseteq C /\ starts' = starts
  <2>1. Cardinality(D) <= Cardinality(C)
    BY <1>4, <1>6, FS_Subset
  <2> QED BY <1>1, <1>2, <1>4, <1>6, <2>1 DEF FewChains, D
<1>7. CASE \E n \in Timers : D = C \cup {n} /\ starts' = starts + 1
  <2>1. PICK n \in Timers : D = C \cup {n} /\ starts' = starts + 1
    BY <1>7
  <2>2. Cardinality(D) <= Cardinality(C) + 1
    BY <1>4, <2>1, AtMostOneMore
  <2> QED BY <1>1, <1>2, <1>4, <2>1, <2>2 DEF FewChains, D
<1>8. CASE \E t \in C, n \in Timers : D = (C \ {t}) \cup {n} /\ starts' = starts
  <2>1. PICK t \in C, n \in Timers : D = (C \ {t}) \cup {n} /\ starts' = starts
    BY <1>8
  <2>2. IsFiniteSet(C \ {t}) /\ Cardinality(C \ {t}) = Cardinality(C) - 1
        /\ Cardinality(C \ {t}) \in Int
    BY <1>4, FS_RemoveElement
  <2>3. Cardinality(D) <= Cardinality(C \ {t}) + 1
    BY <1>4, <2>1, <2>2, AtMostOneMore
  <2> QED BY <1>1, <1>2, <1>4, <2>1, <2>2, <2>3 DEF FewChains, D
<1> QED BY <1>5, <1>6, <1>7, <1>8

\* PeriodicCallback::run never multiplies.
THEOREM ChainsComeFromStarts == Spec => []OneChainPerStart
<1>1. Init => FewChains
  <2> SUFFICES ASSUME Init PROVE FewChains
    OBVIOUS
  <2>1. ChainsOf(loop) = {} /\ starts = 0
    BY DEF Init, ChainsOf, Chain
  <2> QED BY <2>1, InitTidy, FS_EmptySet DEF FewChains
<1>2. FewChains => OneChainPerStart
  BY ChainsAre DEF FewChains, OneChainPerStart
<1> QED BY <1>1, <1>2, FewChainsStep, PTL DEF Spec

Ticks == LoopInv /\ (periodic.running => ChainsOf(loop) # {})

\* A periodic callback that was started and not stopped goes on, as long as its
\* function throws nothing but std::exception, which run() catches.
THEOREM TicksGoOn ==
    ASSUME Throws["tick"] \subseteq {"std"}
    PROVE  Spec => []KeepsTicking
<1>1. Init => Ticks
  BY InitTidy DEF Init, Ticks
<1>2. Ticks /\ [Next]_vars => Ticks'
  BY LoopSteps DEF Ticks, ChainStep
<1>3. Ticks => KeepsTicking
  BY ChainsAre DEF Ticks, KeepsTicking
<1> QED BY <1>1, <1>2, <1>3, PTL DEF Spec

-----------------------------------------------------------------------------
\* Signals

\* What an IOLoop waits for, with c executing.
Listens(l, c) == l.inside /\ ~l.halted /\ l.callbacks # {} /\ c.what # "signal" => l.waiting

SameWait(l, m) ==
    /\ Fields \subseteq DOMAIN m
    /\ m.inside = l.inside /\ m.halted = l.halted /\ m.callbacks = l.callbacks
    /\ m.waiting = l.waiting

\* The operations on the FIFO and the timers do not touch the signal set.
LEMMA FifoWaits ==
    ASSUME NEW l, Fields \subseteq DOMAIN l
    PROVE  /\ SameWait(l, l) /\ SameWait(l, Next1(l))
           /\ \A h : SameWait(l, Post(l, h))
           /\ \A t, ok : SameWait(l, Queue(l, t, ok))
           /\ \A what : SameWait(l, AddTimeout(l, what))
           /\ \A t : SameWait(l, RemoveTimeout(l, t))
           /\ \A t : SameWait(l, Release(l, t))
<1>1. SameWait(l, l) /\ SameWait(l, Next1(l)) /\ \A h : SameWait(l, Post(l, h))
  BY DEF Fields, SameWait, Next1, Post
<1>2. ASSUME NEW t, NEW ok PROVE SameWait(l, Queue(l, t, ok))
  <2> DEFINE m == Post(l, Handler(l.timers[t].what, t, ok, NoSignal))
  <2>1. SameWait(l, m)
    BY <1>1
  <2> HIDE DEF m
  <2>2. SameWait(m, [m EXCEPT !.timers[t].state = "queued"])
    BY <2>1 DEF Fields, SameWait
  <2> QED BY <2>1, <2>2 DEF Queue, SameWait, m
<1>3. \A what : SameWait(l, AddTimeout(l, what))
  BY DEF Fields, SameWait, AddTimeout
<1>4. \A t : SameWait(l, RemoveTimeout(l, t))
  BY <1>1, <1>2 DEF RemoveTimeout, Queue
<1>5. \A t : SameWait(l, Release(l, t))
  BY DEF Fields, SameWait, Release
<1> QED BY <1>1, <1>2, <1>3, <1>4, <1>5

LEMMA WaitsListen ==
    ASSUME NEW l, Fields \subseteq DOMAIN l, NEW c
    PROVE  /\ Listens(WaitSignals(l), c) /\ Fields \subseteq DOMAIN WaitSignals(l)
           /\ WaitSignals(l).inside = l.inside
BY DEF Listens, WaitSignals, Fields

LEMMA SameListens ==
    ASSUME NEW l, NEW m, SameWait(l, m), NEW c, NEW d, Listens(l, c), c.what # "signal" \/ c = d
    PROVE  Listens(m, d)
BY DEF SameWait, Listens

LEMMA LeaveListens ==
    ASSUME NEW l, Fields \subseteq DOMAIN l, NEW c
    PROVE  Listens(Leave(l), c)
<1> DEFINE m == [l EXCEPT !.inside = FALSE, !.stopped = FALSE]
<1>1. Fields \subseteq DOMAIN m /\ ~m.inside
  BY DEF Fields
<1> HIDE DEF m
<1>2. SameWait(m, RemoveTimeout(m, sync))
  BY <1>1, FifoWaits
<1> QED BY <1>1, <1>2 DEF Leave, SameWait, Listens, m

\* start() waits for signals, unless an earlier stop() is spent on it.
LEMMA EnterRunListens ==
    ASSUME NEW l, Fields \subseteq DOMAIN l, ~l.inside, NEW c
    PROVE  Listens(EnterRun(l), c) /\ Fields \subseteq DOMAIN EnterRun(l)
<1> DEFINE m == [l EXCEPT !.inside = TRUE, !.halted = FALSE]
<1>1. Fields \subseteq DOMAIN m
  BY DEF Fields
<1>2. CASE l.stopped
  BY <1>2 DEF EnterRun, Fields, Listens
<1>3. CASE ~l.stopped
  <2> HIDE DEF m
  <2>1. Listens(WaitSignals(m), c) /\ Fields \subseteq DOMAIN WaitSignals(m)
    BY <1>1, WaitsListen
  <2> QED BY <1>3, <2>1 DEF EnterRun, m
<1> QED BY <1>2, <1>3

ListenInv == HeardInv /\ Listens(loop, current)

LEMMA RunSyncListens == ASSUME ListenInv, RunSync PROVE Listens(loop', current')
<1>1. PICK deadline \in BOOLEAN :
        LET t == IF deadline THEN NewTimer(loop) ELSE 0
            l == IF deadline THEN AddTimeout(loop, "deadline") ELSE loop
            m == EnterRun(Post(l, Handler("callback", 0, TRUE, NoSignal)))
        IN  loop' = IF m.inside THEN m ELSE RemoveTimeout(m, t)
  BY DEF RunSync
<1> DEFINE t == IF deadline THEN NewTimer(loop) ELSE 0
           l == IF deadline THEN AddTimeout(loop, "deadline") ELSE loop
           k == Post(l, Handler("callback", 0, TRUE, NoSignal))
           m == EnterRun(k)
<1>2. Fields \subseteq DOMAIN loop /\ ~loop.inside /\ UNCHANGED current
  BY DEF ListenInv, HeardInv, Heard, RunSync
<1>3. SameWait(loop, l)
  BY <1>2, FifoWaits
<1> HIDE DEF l
<1>4. SameWait(l, k)
  BY <1>3, FifoWaits DEF SameWait
<1> HIDE DEF k
<1>5. Listens(m, current) /\ Fields \subseteq DOMAIN m
  BY <1>2, <1>3, <1>4, EnterRunListens DEF SameWait
<1> HIDE DEF m
<1>6. Listens(RemoveTimeout(m, t), current)
  BY <1>5, FifoWaits, SameListens
<1> QED BY <1>1, <1>2, <1>5, <1>6 DEF m, k, l

LEMMA RunListens == ASSUME ListenInv, Run PROVE Listens(loop', current')
<1> DEFINE h == Head(loop.queue)
           l == Next1(loop)
<1>1. /\ Fields \subseteq DOMAIN loop /\ loop.inside /\ ~loop.halted /\ ~loop.stopped
      /\ current = Idle /\ Idle.what # "signal" /\ Listens(loop, Idle)
  BY DEF ListenInv, HeardInv, Heard, Run, Idle, Handler
<1>2. SameWait(loop, l) /\ l.stopped = loop.stopped
  BY <1>1, FifoWaits DEF Next1, Fields
<1>3. IF IsQuiet(l, h) THEN loop' = Quiet(l, h) /\ current' = Idle
      ELSE loop' = (IF h.what = "signal" THEN [l EXCEPT !.waiting = FALSE] ELSE l) /\ current' = h
  BY <1>1 DEF Run
<1> HIDE DEF h, l
<1>4. Fields \subseteq DOMAIN l /\ Listens(l, Idle)
  BY <1>1, <1>2, SameListens DEF SameWait
<1>5. StopLoop(l).halted /\ Fields \subseteq DOMAIN StopLoop(l)
  BY <1>1, <1>2, <1>4 DEF StopLoop, Fields
<1>6. CASE IsQuiet(l, h)
  <2>1. \/ loop' = Release(l, h.timer)
        \/ loop' = Release(StopLoop(l), h.timer)
        \/ loop' = [Unregister(StopLoop(l), h.signal) EXCEPT !.waiting = FALSE]
        \/ loop' = WaitSignals([l EXCEPT !.waiting = FALSE])
    BY <1>3, <1>6 DEF Quiet
  <2>2. Listens(Release(l, h.timer), Idle)
    BY <1>1, <1>4, FifoWaits, SameListens
  <2>3. Listens(Release(StopLoop(l), h.timer), Idle)
    <3>1. SameWait(StopLoop(l), Release(StopLoop(l), h.timer))
      BY <1>5, FifoWaits
    <3> QED BY <1>5, <3>1 DEF SameWait, Listens
  <2>4. [Unregister(StopLoop(l), h.signal) EXCEPT !.waiting = FALSE].halted
    <3> DEFINE k == StopLoop(l)
    <3> HIDE DEF k
    <3>1. k.halted /\ Fields \subseteq DOMAIN k
      BY <1>5 DEF k
    <3>2. [Unregister(k, h.signal) EXCEPT !.waiting = FALSE].halted
      BY <3>1 DEF Unregister, Fields
    <3> QED BY <3>2 DEF k
  <2>5. Listens(WaitSignals([l EXCEPT !.waiting = FALSE]), Idle)
    <3> DEFINE k == [l EXCEPT !.waiting = FALSE]
    <3>1. Fields \subseteq DOMAIN k
      BY <1>4 DEF Fields
    <3> HIDE DEF k
    <3>2. Listens(WaitSignals(k), Idle)
      BY <3>1, WaitsListen
    <3> QED BY <3>2 DEF k
  <2> QED BY <1>3, <1>6, <2>1, <2>2, <2>3, <2>4, <2>5 DEF Listens
<1>7. CASE ~IsQuiet(l, h)
  BY <1>1, <1>3, <1>4, <1>7 DEF Listens
<1> QED BY <1>6, <1>7

LEMMA HandlerListens ==
    ASSUME ListenInv, Throws["signal"] \subseteq {"exit"}, HandlerReturns \/ HandlerThrows
    PROVE  Listens(loop', current')
<1> DEFINE l == Ended(current)
<1>1. current' = Idle /\ Fields \subseteq DOMAIN loop
  BY DEF HandlerReturns, HandlerThrows, ListenInv, HeardInv, Heard
<1>2. SameWait(loop, l)
  BY <1>1, FifoWaits DEF Ended
<1>3. ASSUME NEW p PROVE SameWait(loop, Scheduled(p, l))
  <2> HIDE DEF l
  <2>1. SameWait(l, AddTimeout(l, "tick"))
    BY <1>2, FifoWaits DEF SameWait
  <2> QED BY <1>2, <2>1 DEF Scheduled, SameWait
<1>4. Listens(Leave(l), Idle)
  BY <1>2, LeaveListens DEF SameWait
<1>5. CASE current.what # "signal"
  <2>1. ASSUME NEW m, SameWait(loop, m) PROVE Listens(m, Idle)
    BY <1>5, <2>1, SameListens DEF ListenInv
  <2>2. \/ loop' = Scheduled(EndedPeriodic(current), l)
        \/ loop' = Leave(l)
        \/ loop' = l
    BY <1>5 DEF HandlerReturns, HandlerThrows, EndTick
  <2> HIDE DEF l
  <2> QED BY <1>1, <1>2, <1>3, <1>4, <2>1, <2>2
<1>6. CASE current.what = "signal" /\ HandlerThrows
  <2>1. loop' = Leave(l)
    BY <1>6 DEF HandlerThrows
  <2> QED BY <1>1, <1>4, <2>1
<1>7. CASE current.what = "signal" /\ HandlerReturns
  <2>1. PICK keep \in BOOLEAN :
          LET k == IF keep THEN loop ELSE Unregister(loop, current.signal)
          IN  loop' = IF ~loop.halted THEN WaitSignals(k) ELSE k
    BY <1>7 DEF HandlerReturns
  <2> DEFINE k == IF keep THEN loop ELSE Unregister(loop, current.signal)
  <2>2. Fields \subseteq DOMAIN k /\ k.halted = loop.halted
    BY <1>1 DEF Unregister, Fields
  <2>3. loop' = IF ~loop.halted THEN WaitSignals(k) ELSE k
    BY <2>1
  <2> HIDE DEF k
  <2>4. Listens(WaitSignals(k), Idle)
    BY <2>2, WaitsListen
  <2> QED BY <1>1, <2>2, <2>3, <2>4 DEF Listens
<1> QED BY <1>5, <1>6, <1>7

LEMMA NextListens ==
    ASSUME ListenInv, Throws["signal"] \subseteq {"exit"}, [Next]_vars
    PROVE  Listens(loop', current')
<1>1. Fields \subseteq DOMAIN loop /\ Listens(loop, current)
  BY DEF ListenInv, HeardInv, Heard
<1>2. ASSUME SameWait(loop, loop'), UNCHANGED current PROVE Listens(loop', current')
  BY <1>1, <1>2, SameListens
<1>3. CASE Start
  BY <1>1, <1>3, EnterRunListens DEF Start
<1>4. CASE RunSync
  BY <1>4, RunSyncListens
<1>5. CASE Return
  BY <1>1, <1>5, LeaveListens DEF Return
<1>6. CASE Stop
  BY <1>1, <1>6 DEF Stop, Calls, StopLoop, Fields, Listens
<1>7. CASE AddCallback \/ AddTimeoutCall \/ RemoveTimeoutCall \/ PeriodicStart \/ PeriodicStop
  <2>1. SameWait(loop, loop')
    BY <1>1, <1>7, FifoWaits
    DEF AddCallback, AddTimeoutCall, RemoveTimeoutCall, PeriodicStart, PeriodicStop, Scheduled
  <2> QED BY <1>2, <1>7, <2>1
          DEF AddCallback, AddTimeoutCall, RemoveTimeoutCall, PeriodicStart, PeriodicStop, Calls
<1>8. CASE Signal
  <2>1. PICK n \in Signals \ Interrupts :
          \/ LET l == [loop EXCEPT !.callbacks = @ \cup {n}]
             IN  loop' = IF ~loop.halted THEN WaitSignals(l) ELSE l
          \/ loop' = Unregister(loop, n)
    BY <1>8 DEF Signal
  <2> DEFINE l == [loop EXCEPT !.callbacks = @ \cup {n}]
  <2>2. Fields \subseteq DOMAIN l /\ l.halted = loop.halted
    BY <1>1 DEF Fields
  <2>3. loop' = (IF ~loop.halted THEN WaitSignals(l) ELSE l) \/ loop' = Unregister(loop, n)
    BY <2>1
  <2> HIDE DEF l
  <2>4. Listens(WaitSignals(l), current)
    BY <2>2, WaitsListen
  <2>5. Listens(Unregister(loop, n), current)
    BY <1>1 DEF Unregister, Listens, Fields
  <2>6. current' = current
    BY <1>8 DEF Signal, Calls
  <2> QED BY <2>2, <2>3, <2>4, <2>5, <2>6 DEF Listens
<1>9. CASE \E t \in Timers : Expire(t)
  <2>1. PICK t \in Timers : Expire(t)
    BY <1>9
  <2>2. loop' = Queue(loop, t, TRUE)
    BY <2>1 DEF Expire, Queue
  <2>3. SameWait(loop, loop')
    BY <1>1, <2>2, FifoWaits
  <2> QED BY <1>2, <2>1, <2>3 DEF Expire, Polled
<1>10. CASE \E n \in Signals : Deliver(n)
  <2>1. PICK n \in Signals : Deliver(n)
    BY <1>10
  <2> DEFINE m == Post(loop, Handler("signal", 0, TRUE, n))
  <2>2. SameWait(loop, m) /\ loop' = [m EXCEPT !.raised = @ \ {n}]
    BY <1>1, <2>1, FifoWaits DEF Deliver
  <2> HIDE DEF m
  <2>3. SameWait(loop, loop')
    BY <2>2 DEF SameWait, Fields
  <2> QED BY <1>2, <2>1, <2>3 DEF Deliver, Polled
<1>11. CASE Raise
  <2>1. SameWait(loop, loop')
    BY <1>1, <1>11 DEF Raise, SameWait, Fields
  <2> QED BY <1>2, <1>11, <2>1 DEF Raise
<1>12. CASE Run
  BY <1>12, RunListens
<1>13. CASE HandlerReturns \/ HandlerThrows
  BY <1>13, HandlerListens
<1>14. CASE UNCHANGED vars
  BY <1>1, <1>14 DEF vars
<1> QED
  BY <1>3, <1>4, <1>5, <1>6, <1>7, <1>8, <1>9, <1>10, <1>11, <1>12, <1>13, <1>14
  DEF Next, Program, LoopStep

\* While the loop runs a registered signal is waited for, whatever is registered,
\* delivered or dropped, as long as a signal's callback throws nothing that
\* start() survives.
THEOREM SignalsHeard ==
    ASSUME Throws["signal"] \subseteq {"exit"}
    PROVE  Spec => []SignalsAreHeard
<1>1. Init => ListenInv
  BY InitHeard DEF ListenInv, HeardInv, Init, Listens
<1>2. ListenInv /\ [Next]_vars => ListenInv'
  BY NextHeard, NextListens DEF ListenInv, HeardInv
<1>3. ListenInv => SignalsAreHeard
  BY DEF ListenInv, Listens, SignalsAreHeard
<1> QED BY <1>1, <1>2, <1>3, PTL DEF Spec
=============================================================================
