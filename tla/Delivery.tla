-------------------------------- MODULE Delivery --------------------------------
(***************************************************************************)
(* What a stream of src/src/tinycore/asyncio/iostream.h promises the       *)
(* application that calls it: the callbacks come one at a time; reads are  *)
(* answered in the order of their calls, each once, with the bytes that    *)
(* follow those given before; a read is given up only when the stream is   *)
(* closed; a write callback is called once, in order; the close callback   *)
(* is called once for each time it was set, on a closed stream, when no    *)
(* call made before it was taken is still to be answered.                  *)
(***************************************************************************)
EXTENDS Naturals

VARIABLES
    asked,    \* reads called
    owed,     \* those whose final callback is still to come
    written,  \* writes called
    waiting,  \* those whose callback is still to come
    arrived,  \* position of the last byte received
    handed,   \* position of the last byte given
    watched,  \* the close callback is set
    notice,   \* it has been taken, and is still to be called
    closed,   \* the stream is closed
    news      \* the callback that runs

vars == <<asked, owed, written, waiting, arrived, handed, watched, notice, closed, news>>

Idle == [run |-> "idle", id |-> 0, lo |-> 0, hi |-> 0]

Init ==
    /\ asked = 0 /\ owed = {} /\ written = 0 /\ waiting = {}
    /\ arrived = 0 /\ handed = 0 /\ watched = FALSE /\ notice = FALSE /\ closed = FALSE
    /\ news = Idle

\* What remains of the reads and writes to be answered: bytes arrive and the
\* stream may close.  Only then a read is given up, and only when nothing is left
\* to be answered the close callback is taken.
Settle(reads, writes) ==
    /\ arrived' >= arrived
    /\ closed => closed'
    /\ owed' \subseteq reads /\ (owed' # reads => closed')
    /\ waiting' \subseteq writes
    /\ \/ UNCHANGED <<watched, notice>>
       \/ /\ watched /\ ~notice /\ closed' /\ owed' = {} /\ waiting' = {}
          /\ ~watched' /\ notice'

\* Calls of the application.  A write may replace the callback of an earlier one.
Read ==
    /\ asked' = asked + 1 /\ Settle(owed \cup {asked'}, waiting)
    /\ UNCHANGED <<written, handed, news>>

Write ==
    /\ ~closed
    /\ written' = written + 1 /\ Settle(owed, waiting \cup {written'})
    /\ UNCHANGED <<asked, handed, news>>

Watch ==
    /\ watched' \in BOOLEAN
    /\ UNCHANGED <<asked, owed, written, waiting, arrived, handed, notice, closed, news>>

\* The stream works, or a callback comes to its end.
Work ==
    /\ Settle(owed, waiting)
    /\ news' \in {news, Idle}
    /\ UNCHANGED <<asked, written, handed>>

\* A callback is called, by itself.
Calls(run, id) ==
    /\ news = Idle
    /\ news' = [run |-> run, id |-> id, lo |-> news'.lo, hi |-> news'.hi]
    /\ UNCHANGED <<asked, written, arrived, watched, closed>>

\* It is given the next bytes, before the application hears of a close.
Gives ==
    /\ ~notice
    /\ news'.lo = handed /\ news'.hi = handed'
    /\ handed \leq handed' /\ handed' \leq arrived

Answer ==
    \E r \in owed :
        /\ \A q \in owed : r \leq q
        /\ owed' = owed \ {r}
        /\ Calls("read", r) /\ Gives /\ UNCHANGED <<waiting, notice>>

Stream == Calls("stream", news'.id) /\ Gives /\ UNCHANGED <<owed, waiting, notice>>

Written ==
    \E w \in waiting :
        /\ \A v \in waiting : w \leq v
        /\ waiting' = waiting \ {w}
        /\ Calls("write", w) /\ UNCHANGED <<owed, handed, notice>>

Tell ==
    /\ notice /\ closed /\ ~notice'
    /\ Calls("close", news'.id) /\ UNCHANGED <<owed, waiting, handed>>

\* The connect callback; and two calls of a callback that was not given, which
\* break the stream: of a write, and on a closed stream of a read, whose bytes are
\* lost.
Connected == Calls("connect", 0) /\ UNCHANGED <<owed, waiting, handed, notice>>
NoWrite == Calls("noWrite", 0) /\ UNCHANGED <<owed, waiting, handed, notice>>
LostRead == closed /\ Calls("lostRead", 0) /\ Gives /\ UNCHANGED <<owed, waiting, notice>>

Next ==
    \/ Read \/ Write \/ Watch \/ Work
    \/ Answer \/ Stream \/ Written \/ Tell \/ Connected \/ NoWrite \/ LostRead

Spec == Init /\ [][Next]_vars
=============================================================================
