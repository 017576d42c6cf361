-------------------------------- MODULE IOLoop --------------------------------
(***************************************************************************)
(* src/src/tinycore/asyncio/ioloop.{h,cpp}: an IOLoop with its _Timeouts,  *)
(* its _SignalSet and one PeriodicCallback, and a program that starts the  *)
(* loop again and again (start, runSync) and calls it from handlers.       *)
(*                                                                         *)
(* The io_service is a FIFO of ready handlers.  Between two handlers the   *)
(* reactor may find timers expired and signals raised; their handlers join *)
(* the FIFO.  A handler that is in the FIFO cannot be cancelled.           *)
(*                                                                         *)
(* Timers are slots: a slot is free again when the handler that owns the   *)
(* _Timeout is destroyed, and weak references to it expire then.           *)
(***************************************************************************)
EXTENDS Integers, Sequences, FiniteSets

CONSTANTS
    MaxTimers,   \* bound: timers alive at one time
    MaxQueue,    \* bound: ready handlers when the program adds a callback
    MaxStarts,   \* bound: calls of PeriodicCallback::start
    Signals,     \* the signals a program may register
    Interrupts,  \* those setupInterrupter registers, a subset of Signals
    Throws       \* [handler kind -> the kinds of exception it may throw]

Timers == 1..MaxTimers

\* What a handler runs: a posted function, the callback of addTimeout, the
\* deadline of runSync, PeriodicCallback::run, _SignalSet::onSignal.
Kinds == {"callback", "timeout", "deadline", "tick", "signal"}

\* std::exception, SystemExit, anything else
Exceptions == {"std", "exit", "other"}

ASSUME LoopAssumption ==
    /\ MaxTimers \in Nat /\ MaxQueue \in Nat /\ MaxStarts \in Nat
    /\ Interrupts \subseteq Signals
    /\ Throws \in [Kinds -> SUBSET Exceptions]

VARIABLES
    loop,        \* the IOLoop with its io_service, timers and signal set
    current,     \* the handler whose callback is executing, or Idle
    sync,        \* runSync's weak reference to its deadline; 0: none
    periodic,    \* the PeriodicCallback
    starts       \* history: calls of PeriodicCallback::start

vars == <<loop, current, sync, periodic, starts>>

NoSignal == "none"
Handler(what, t, ok, n) == [what |-> what, timer |-> t, ok |-> ok, signal |-> n]
Idle == Handler("callback", 0, FALSE, NoSignal)

Handlers ==
    [what : Kinds, timer : 0..MaxTimers, ok : BOOLEAN, signal : Signals \cup {NoSignal}]

-----------------------------------------------------------------------------
\* The io_service

Post(l, h) == [l EXCEPT !.queue = Append(@, h)]

\* IOLoop::stop
StopLoop(l) == IF l.stopped THEN l ELSE [l EXCEPT !.stopped = TRUE, !.halted = TRUE]

\* _SignalSet::start: one wait for all signals, unless one is outstanding.
WaitSignals(l) == IF l.callbacks = {} THEN l ELSE [l EXCEPT !.waiting = TRUE]

\* signal(n): what was raised of it and not delivered is dropped.
Unregister(l, n) == [l EXCEPT !.callbacks = @ \ {n}, !.raised = @ \ {n}]

-----------------------------------------------------------------------------
\* Timeouts

FreeSlots(l) == {t \in Timers : l.timers[t].state = "free"}
NewTimer(l) == CHOOSE t \in FreeSlots(l) : \A u \in FreeSlots(l) : t <= u

\* addTimeout; the caller keeps NewTimer(l) as its weak reference.
AddTimeout(l, what) ==
    [l EXCEPT !.timers[NewTimer(l)] = [state |-> "armed", what |-> what]]

\* Mutant: a timer whose handler is queued or running is aborted once more.
RemoveTimeoutAgain(l, t) ==
    IF t = 0 \/ l.timers[t].state = "free" THEN l
    ELSE [Post(l, Handler(l.timers[t].what, t, FALSE, NoSignal))
              EXCEPT !.timers[t].state = "queued"]

\* removeTimeout through a weak reference: an armed timer is aborted, one whose
\* handler is queued or running is not affected.
RemoveTimeout(l, t) ==
    IF t = 0 \/ l.timers[t].state # "armed" THEN l
    ELSE [Post(l, Handler(l.timers[t].what, t, FALSE, NoSignal))
              EXCEPT !.timers[t].state = "queued"]

\* The handler of timer t is destroyed, and the _Timeout with it.
Release(l, t) == IF t = 0 THEN l ELSE [l EXCEPT !.timers[t].state = "free"]

\* Mutant: the reference is not weak and outlives the _Timeout.
ExpiredNever(reference, t) == reference

\* A weak reference to the _Timeout destroyed with the handler of timer t.
Expired(reference, t) == IF t # 0 /\ reference = t THEN 0 ELSE reference

-----------------------------------------------------------------------------

Init ==
    /\ loop = [inside |-> FALSE, stopped |-> FALSE, halted |-> FALSE, queue |-> <<>>,
               timers |-> [t \in Timers |-> [state |-> "free", what |-> "timeout"]],
               waiting |-> Interrupts # {}, callbacks |-> Interrupts, raised |-> {}]
    /\ current = Idle
    /\ sync = 0
    /\ periodic = [running |-> FALSE, timeout |-> 0]
    /\ starts = 0

-----------------------------------------------------------------------------
\* The program outside the loop: start() and what follows it

\* Mutant: the flag is not consulted by start.
EnterRunRegardless(l) == WaitSignals([l EXCEPT !.inside = TRUE, !.halted = FALSE])

\* start(): a stop() made before it is spent on it.
EnterRun(l) ==
    IF l.stopped THEN [l EXCEPT !.stopped = FALSE]
    ELSE WaitSignals([l EXCEPT !.inside = TRUE, !.halted = FALSE])

Start ==
    /\ ~loop.inside
    /\ loop' = EnterRun(loop)
    /\ UNCHANGED <<current, sync, periodic, starts>>

\* runSync: the deadline, the function, and start().  When start() returns at
\* once so does runSync, and removes the deadline.
RunSync ==
    /\ ~loop.inside /\ Len(loop.queue) < MaxQueue
    /\ \E deadline \in BOOLEAN :
         /\ deadline => FreeSlots(loop) # {}
         /\ LET t == IF deadline THEN NewTimer(loop) ELSE 0
                l == IF deadline THEN AddTimeout(loop, "deadline") ELSE loop
                m == EnterRun(Post(l, Handler("callback", 0, TRUE, NoSignal)))
            IN  /\ loop' = IF m.inside THEN m ELSE RemoveTimeout(m, t)
                /\ sync' = IF m.inside THEN t ELSE 0
    /\ UNCHANGED <<current, periodic, starts>>

\* start() and a runSync around it return.
Leave(l) == RemoveTimeout([l EXCEPT !.inside = FALSE, !.stopped = FALSE], sync)

Return ==
    /\ loop.inside /\ current = Idle /\ loop.halted
    /\ loop' = Leave(loop)
    /\ sync' = 0
    /\ UNCHANGED <<current, periodic, starts>>

-----------------------------------------------------------------------------
\* Calls of the program, from a handler or before the loop runs

Calls == (~loop.inside \/ current # Idle) /\ UNCHANGED <<current, sync>>

Stop ==
    /\ Calls
    /\ loop' = StopLoop(loop)
    /\ UNCHANGED <<periodic, starts>>

\* Also between two handlers: the streams of the loop, left out here, post too.
AddCallback ==
    /\ Len(loop.queue) < MaxQueue
    /\ loop' = Post(loop, Handler("callback", 0, TRUE, NoSignal))
    /\ UNCHANGED <<current, sync, periodic, starts>>

AddTimeoutCall ==
    /\ Calls /\ FreeSlots(loop) # {}
    /\ loop' = AddTimeout(loop, "timeout")
    /\ UNCHANGED <<periodic, starts>>

RemoveTimeoutCall ==
    /\ Calls
    /\ \E t \in Timers : loop.timers[t].what = "timeout" /\ loop' = RemoveTimeout(loop, t)
    /\ UNCHANGED <<periodic, starts>>

\* signal(n, callback) or signal(n); not from the callback of n itself, which
\* would destroy the function that is executing.
Signal ==
    /\ Calls
    /\ \E n \in Signals \ Interrupts :
         /\ current.what = "signal" => current.signal # n
         /\ \/ LET l == [loop EXCEPT !.callbacks = @ \cup {n}]
               IN  loop' = IF ~loop.halted THEN WaitSignals(l) ELSE l
            \/ loop' = Unregister(loop, n)
    /\ UNCHANGED <<periodic, starts>>

\* scheduleNext
Schedule(p, l) == IF p.running THEN [p EXCEPT !.timeout = NewTimer(l)] ELSE p
Scheduled(p, l) == IF p.running THEN AddTimeout(l, "tick") ELSE l

PeriodicStart ==
    /\ Calls /\ starts < MaxStarts /\ FreeSlots(loop) # {}
    /\ LET p == [periodic EXCEPT !.running = TRUE]
       IN  periodic' = Schedule(p, loop) /\ loop' = Scheduled(p, loop)
    /\ starts' = starts + 1

PeriodicStop ==
    /\ Calls
    /\ periodic' = [running |-> FALSE, timeout |-> 0]
    /\ loop' = RemoveTimeout(loop, periodic.timeout)
    /\ UNCHANGED starts

-----------------------------------------------------------------------------
\* The reactor, polled between two handlers while the loop runs

Polled == loop.inside /\ current = Idle /\ ~loop.halted
                 /\ UNCHANGED <<current, sync, periodic, starts>>

Expire(t) ==
    /\ Polled /\ loop.timers[t].state = "armed"
    /\ loop' = [Post(loop, Handler(loop.timers[t].what, t, TRUE, NoSignal))
                    EXCEPT !.timers[t].state = "queued"]

\* The outstanding wait ends with one of the signals raised; "waiting" stays set
\* until its handler runs.
Deliver(n) ==
    /\ Polled /\ loop.waiting /\ n \in loop.raised
    /\ \A i \in DOMAIN loop.queue : loop.queue[i].what # "signal"
    /\ loop' = [Post(loop, Handler("signal", 0, TRUE, n)) EXCEPT !.raised = @ \ {n}]

\* The operating system raises a registered signal at any time.
Raise ==
    /\ \E n \in loop.callbacks : loop' = [loop EXCEPT !.raised = @ \cup {n}]
    /\ UNCHANGED <<current, sync, periodic, starts>>

-----------------------------------------------------------------------------
\* The loop runs a handler

Next1(l) == [l EXCEPT !.queue = Tail(@)]

\* What the handler does without calling into the program.
Quiet(l, h) ==
    IF h.timer # 0 /\ ~h.ok THEN Release(l, h.timer)
    ELSE CASE h.what = "deadline" -> Release(StopLoop(l), h.timer)
           [] h.what = "tick"     -> Release(l, h.timer)
           [] h.what = "signal" /\ h.signal \in Interrupts \cap l.callbacks ->
                [Unregister(StopLoop(l), h.signal) EXCEPT !.waiting = FALSE]
           [] OTHER -> WaitSignals([l EXCEPT !.waiting = FALSE])

IsQuiet(l, h) ==
    \/ h.timer # 0 /\ ~h.ok
    \/ h.what = "deadline"
    \/ h.what = "tick" /\ ~periodic.running
    \/ h.what = "signal" /\ (h.signal \in Interrupts \/ h.signal \notin l.callbacks)

Run ==
    /\ loop.inside /\ current = Idle /\ ~loop.halted /\ loop.queue # <<>>
    /\ LET h == Head(loop.queue)
           l == Next1(loop)
       IN  IF IsQuiet(l, h)
           THEN /\ loop' = Quiet(l, h)
                /\ sync' = Expired(sync, h.timer)
                /\ periodic' = [periodic EXCEPT !.timeout = Expired(@, h.timer)]
                /\ UNCHANGED current
           ELSE /\ loop' = IF h.what = "signal" THEN [l EXCEPT !.waiting = FALSE] ELSE l
                /\ current' = h
                /\ UNCHANGED <<sync, periodic>>
    /\ UNCHANGED starts

\* Mutant: the next timeout is scheduled twice.
EndTickTwice(l, p) ==
    LET m == Scheduled(p, l)
    IN  /\ loop' = IF FreeSlots(m) = {} THEN m ELSE Scheduled(p, m)
        /\ periodic' = Schedule(p, l)

\* The end of PeriodicCallback::run.
EndTick(l, p) ==
    /\ loop' = Scheduled(p, l)
    /\ periodic' = Schedule(p, l)

Ended(h) == Release(loop, h.timer)
EndedPeriodic(h) == [periodic EXCEPT !.timeout = Expired(@, h.timer)]

\* Mutant: a signal that was handled is not waited for again.
ReturnsDeaf ==
    /\ current # Idle
    /\ current' = Idle
    /\ loop' = Ended(current)
    /\ periodic' = EndedPeriodic(current)
    /\ UNCHANGED <<sync, starts>>

\* The program's callback returns to the handler.
HandlerReturns ==
    /\ current # Idle
    /\ current' = Idle
    /\ CASE current.what = "tick" -> EndTick(Ended(current), EndedPeriodic(current))
         [] current.what = "signal" ->
              /\ \E keep \in BOOLEAN :
                   LET l == IF keep THEN loop ELSE Unregister(loop, current.signal)
                   IN  loop' = IF ~loop.halted THEN WaitSignals(l) ELSE l
              /\ UNCHANGED periodic
         [] OTHER -> /\ loop' = Ended(current)
                     /\ periodic' = EndedPeriodic(current)
    /\ UNCHANGED <<sync, starts>>

\* Mutant: what the periodic callback throws escapes run() before scheduleNext.
HandlerThrowsOut ==
    /\ current # Idle
    /\ current' = Idle
    /\ \E e \in Throws[current.what] :
         /\ loop' = IF e = "exit" THEN Leave(Ended(current)) ELSE Ended(current)
         /\ periodic' = EndedPeriodic(current)
         /\ sync' = IF e = "exit" THEN 0 ELSE sync
    /\ UNCHANGED starts

\* PeriodicCallback::run catches std::exception.  What escapes a handler ends
\* the call of run(): start() logs it and runs on, but leaves on SystemExit.
HandlerThrows ==
    /\ current # Idle
    /\ current' = Idle
    /\ \E e \in Throws[current.what] :
         IF current.what = "tick" /\ e = "std"
         THEN EndTick(Ended(current), EndedPeriodic(current)) /\ UNCHANGED sync
         ELSE /\ loop' = IF e = "exit" THEN Leave(Ended(current)) ELSE Ended(current)
              /\ periodic' = EndedPeriodic(current)
              /\ sync' = IF e = "exit" THEN 0 ELSE sync
    /\ UNCHANGED starts

-----------------------------------------------------------------------------

Program ==
    \/ Start \/ RunSync \/ Stop \/ AddCallback \/ AddTimeoutCall \/ RemoveTimeoutCall
    \/ Signal \/ PeriodicStart \/ PeriodicStop

LoopStep == Return \/ Run \/ HandlerReturns \/ HandlerThrows

Next ==
    \/ Program
    \/ \E t \in Timers : Expire(t)
    \/ \E n \in Signals : Deliver(n)
    \/ Raise
    \/ LoopStep

Spec == Init /\ [][Next]_vars

\* The loop runs its handlers and the reactor is polled again and again, so a
\* timer expires and a raised signal is delivered while the loop keeps running.
FairSpec ==
    /\ Spec
    /\ WF_vars(LoopStep)
    /\ \A t \in Timers : SF_vars(Expire(t))
    /\ \A n \in Signals : SF_vars(Deliver(n))

-----------------------------------------------------------------------------
\* Properties

\* A weak reference that has not expired is to a _Timeout of its own kind.
References(reference, what) ==
    /\ reference \in Timers
    /\ loop.timers[reference].state # "free" /\ loop.timers[reference].what = what

\* The state is of its type and runSync and the PeriodicCallback refer to their
\* own timeouts.
TypeOK ==
    /\ loop \in [inside : BOOLEAN, stopped : BOOLEAN, halted : BOOLEAN, queue : Seq(Handlers),
                 timers : [Timers -> [state : {"free", "armed", "queued"}, what : Kinds]],
                 waiting : BOOLEAN, callbacks : SUBSET Signals, raised : SUBSET Signals]
    /\ current \in Handlers
    /\ sync # 0 => References(sync, "deadline")
    /\ periodic.running \in BOOLEAN
    /\ periodic.timeout # 0 => References(periodic.timeout, "tick")
    /\ starts \in Nat

\* While the loop runs, stop() is heard: its flag is never still set from an
\* earlier stop() that the io_service has forgotten, which would make every
\* stop() from then on a no-op.
StopIsHeard == loop.inside /\ loop.stopped => loop.halted

\* A timer has a handler in the FIFO, or runs it, exactly while it is "queued":
\* no handler outlives its _Timeout and none is queued twice.
OneHandlerPerTimer ==
    \A t \in Timers :
        Cardinality({i \in DOMAIN loop.queue : loop.queue[i].timer = t})
            + (IF current.timer = t THEN 1 ELSE 0)
                = (IF loop.timers[t].state = "queued" THEN 1 ELSE 0)

\* The timers that will call PeriodicCallback::run.
Chains ==
    {t \in Timers : /\ loop.timers[t].what = "tick" /\ loop.timers[t].state # "free"
                    /\ ~\E i \in DOMAIN loop.queue :
                          loop.queue[i].timer = t /\ ~loop.queue[i].ok}

\* A periodic callback that was started and not stopped goes on: its next run is
\* scheduled or executing.
KeepsTicking == periodic.running => Chains # {}

\* run() never multiplies: there are at most as many chains of timeouts as calls
\* of start(), whatever the callback throws or calls.
OneChainPerStart == Cardinality(Chains) <= starts

\* While the loop runs, a registered signal is waited for, unless the handler of
\* one is executing.
SignalsAreHeard ==
    loop.inside /\ ~loop.halted /\ loop.callbacks # {} /\ current.what # "signal" => loop.waiting

\* A runSync with a deadline returns, whether or not its function calls stop().
DeadlineReturns == (loop.inside /\ sync # 0) ~> ~loop.inside
==============================================================================
