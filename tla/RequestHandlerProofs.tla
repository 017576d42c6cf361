------------------------- MODULE RequestHandlerProofs -------------------------
(***************************************************************************)
(* Proofs that RequestHandler leaves no request unanswered, and that what  *)
(* it gives to the connection is one answer framed as its headers say,     *)
(* whatever the application calls, flushes or throws, and for all bounds.  *)
(*                                                                         *)
(* The first argument: every way through finish, sendError and             *)
(* handleRequestException ends with the request finished, or with the      *)
(* assertion about a body of status 304 thrown (Done), and everything else *)
(* an application can call keeps what was known of the handler (Keeps).    *)
(*                                                                         *)
(* The second: the handler and its wire are always Framed.  Before the     *)
(* headers nothing is on the wire and the only Content-Length is one of    *)
(* the application; behind a flush the transform of the handler agrees     *)
(* with the head on the wire (Flushed); finish completes either of these   *)
(* to a Whole answer, which nothing changes any more.                      *)
(***************************************************************************)
EXTENDS RequestHandler, SequenceTheorems, TLAPS

Fields ==
    {"method", "matches", "headersWritten", "finished", "autoFinish", "closeCb", "status",
     "length", "etag", "typed", "buffer", "gzipping", "chunking", "own", "failed", "written",
     "flushes", "posts"}

\* A handler with all its members, and what a method returns with one.
HasFields(h) == DOMAIN h = Fields
HasResult(x) == DOMAIN x = {"h", "wire", "thrown"} /\ HasFields(x.h)

\* From x a method came to y without losing what NoneUnanswered speaks of.
Keeps(x, y) ==
    /\ HasResult(y)
    /\ y.h.autoFinish = x.h.autoFinish /\ y.h.failed = x.h.failed
    /\ x.h.finished => y.h.finished
    /\ y.h.finished \/ y.h.status = x.h.status \/ y.h.status = 304

Done(y) == y.h.finished \/ (y.thrown # 0 /\ y.h.status = 304)

\* The condition of NoneUnanswered for one handler.
Answered(h, gone) ==
    h.autoFinish \/ (h.failed /\ h.status # 304) => h.finished \/ gone

Inv ==
    /\ HasFields(handler)
    /\ phase \in {"waiting", "prepare", "method", "callback", "idle"}
    /\ phase \in {"waiting", "prepare", "method"} => ~handler.failed
    /\ phase \in {"idle", "callback"} => Answered(handler, closed)

-----------------------------------------------------------------------------
\* Methods of the handler

\* Throwing changes no member of the handler.
LEMMA ThrowKeeps ==
    ASSUME NEW x, HasResult(x)
    PROVE  Keeps(x, Throw(x)) /\ Throw(x).h = x.h /\ Throw(x).thrown # 0
BY DEF HasResult, HasFields, Fields, Keeps, Throw

\* Neither does catching.
LEMMA CaughtKeeps ==
    ASSUME NEW x, HasResult(x)
    PROVE  HasResult(Caught(x)) /\ Caught(x).h = x.h
BY DEF HasResult, HasFields, Fields, Caught

\* flush writes the headers and what is in the buffer and changes no more.
LEMMA FlushKeeps ==
    ASSUME NEW x, HasResult(x), NEW last
    PROVE  /\ HasResult(Flush(x, last))
           /\ \A f \in {"autoFinish", "failed", "finished", "status"} :
                  Flush(x, last).h[f] = x.h[f]
<1>1. CASE x.h.finished
    BY <1>1, ThrowKeeps DEF Flush, Throw, HasResult, HasFields, Fields
<1>2. CASE ~x.h.finished /\ ~x.h.headersWritten
    <2> DEFINE f == FirstChunk(x.h, last)
    <2>1. /\ HasFields(f.h)
          /\ \A m \in {"autoFinish", "failed", "finished", "status"} : f.h[m] = x.h[m]
        BY DEF FirstChunk, HasResult, HasFields, Fields
    <2> HIDE DEF f
    <2>2. \E w : Flush(x, last) = [x EXCEPT !.h = f.h, !.wire = w]
        BY <1>2 DEF Flush, f
    <2> QED BY <2>1, <2>2 DEF HasResult
<1>3. CASE ~x.h.finished /\ x.h.headersWritten
    <2>1. \E w : Flush(x, last) = [x EXCEPT !.h.buffer = 0, !.wire = w]
        BY <1>3 DEF Flush
    <2> QED BY <2>1 DEF HasResult, HasFields, Fields
<1> QED BY <1>1, <1>2, <1>3

\* Behind the headers and the last flush, the request is finished.
LEMMA FinishedIsDone ==
    ASSUME NEW x, HasResult(x), NEW y \in Finished(x)
    PROVE  Keeps(x, y) /\ y.h.finished
<1> DEFINE start == [x EXCEPT !.h.closeCb = FALSE]
           flushed == Flush(start, TRUE)
           z == [flushed EXCEPT !.h.finished = TRUE, !.wire = Append(@, Item("finish", 0))]
<1>1. /\ HasResult(start)
      /\ \A f \in {"autoFinish", "failed", "finished", "status"} : start.h[f] = x.h[f]
    BY DEF HasResult, HasFields, Fields
<1>2. y \in {z, Throw(z)}
    BY DEF Finished
<1> HIDE DEF start
<1>3. /\ HasResult(flushed)
      /\ \A f \in {"autoFinish", "failed", "finished", "status"} : flushed.h[f] = x.h[f]
    BY <1>1, FlushKeeps
<1> HIDE DEF flushed
<1>4. Keeps(x, z) /\ z.h.finished
    BY <1>3 DEF Keeps, HasResult, HasFields, Fields
<1> HIDE DEF z
<1> QED BY <1>2, <1>4, ThrowKeeps DEF Keeps

\* finish finishes, or fails the assertion about a body with status 304.
LEMMA FinishIsDone ==
    ASSUME NEW x, HasResult(x), NEW y \in Finish(x)
    PROVE  Keeps(x, y) /\ Done(y)
<1>1. CASE x.h.finished
    BY <1>1, ThrowKeeps DEF Finish, Done
<1>2. CASE ~x.h.finished /\ x.h.headersWritten
    BY <1>2, FinishedIsDone DEF Finish, Done
<1>3. CASE ~x.h.finished /\ ~x.h.headersWritten
    <2> DEFINE R(h) == IF h.status = 304 /\ h.buffer > 0
                       THEN {Throw([x EXCEPT !.h = h])}
                       ELSE Finished([x EXCEPT !.h = Sized(h)])
    <2>1. y \in UNION {R(h) : h \in WithEtag(x.h)}
        BY <1>3 DEF Finish
    <2> HIDE DEF R
    <2>2. PICK h \in WithEtag(x.h) : y \in R(h)
        BY <2>1
    <2>3. y \in IF h.status = 304 /\ h.buffer > 0 THEN {Throw([x EXCEPT !.h = h])}
                ELSE Finished([x EXCEPT !.h = Sized(h)])
        BY <2>2 DEF R
    <2>4. h \in {x.h, [x.h EXCEPT !.etag = TRUE, !.buffer = 0, !.status = 304],
                 [x.h EXCEPT !.etag = TRUE]}
        BY <2>2 DEF WithEtag
    <2>5. /\ HasFields(h) /\ (h.status = x.h.status \/ h.status = 304)
          /\ \A f \in {"autoFinish", "failed", "finished"} : h[f] = x.h[f]
        <3> DEFINE g == x.h
                   noBody == [g EXCEPT !.etag = TRUE, !.buffer = 0, !.status = 304]
                   tagged == [g EXCEPT !.etag = TRUE]
        <3>1. HasFields(g)
            BY DEF HasResult
        <3>2. h \in {g, noBody, tagged}
            BY <2>4
        <3> HIDE DEF g
        <3>3. /\ HasFields(noBody) /\ noBody.status = 304
              /\ \A f \in {"autoFinish", "failed", "finished"} : noBody[f] = g[f]
            BY <3>1 DEF HasFields, Fields
        <3>4. /\ HasFields(tagged) /\ tagged.status = g.status
              /\ \A f \in {"autoFinish", "failed", "finished"} : tagged[f] = g[f]
            BY <3>1 DEF HasFields, Fields
        <3> HIDE DEF noBody, tagged
        <3>5. /\ HasFields(h) /\ (h.status = g.status \/ h.status = 304)
              /\ \A f \in {"autoFinish", "failed", "finished"} : h[f] = g[f]
            BY <3>1, <3>2, <3>3, <3>4
        <3> QED BY <3>5 DEF g
    <2>6. CASE h.status = 304 /\ h.buffer > 0
        <3> DEFINE s == [x EXCEPT !.h = h]
        <3>1. HasResult(s) /\ s.h = h
            BY <2>5 DEF HasResult
        <3>2. y = Throw(s)
            BY <2>3, <2>6
        <3> HIDE DEF s
        <3> QED BY <2>5, <2>6, <3>1, <3>2, ThrowKeeps DEF Keeps, Done
    <2>7. CASE ~(h.status = 304 /\ h.buffer > 0)
        <3> DEFINE s == [x EXCEPT !.h = Sized(h)]
        <3>1. /\ HasResult(s) /\ s.h.status = h.status
              /\ \A f \in {"autoFinish", "failed", "finished"} : s.h[f] = h[f]
            BY <2>5 DEF Sized, HasResult, HasFields, Fields
        <3>2. y \in Finished(s)
            BY <2>3, <2>7
        <3> HIDE DEF s
        <3> QED BY <1>3, <2>5, <3>1, <3>2, FinishedIsDone DEF Keeps, Done
    <2> QED BY <2>6, <2>7
<1> QED BY <1>1, <1>2, <1>3

\* What writeError leaves for sendError to finish is the handler it was given.
LEMMA WriteErrorKeeps ==
    ASSUME NEW x, HasResult(x), NEW y \in WriteError(x)
    PROVE  Keeps(x, y)
<1>1. HasResult(Page(x)) /\ Keeps(x, Page(x))
    BY DEF Page, Keeps, HasResult, HasFields, Fields
<1>2. CASE y \in Finish(Page(x))
    BY <1>1, <1>2, FinishIsDone DEF Keeps
<1>3. CASE y = Page(x)
    BY <1>1, <1>3
<1>4. CASE y = Throw(x)
    BY <1>4, ThrowKeeps
<1>5. CASE y = Throw(Page(x))
    BY <1>1, <1>5, ThrowKeeps DEF Keeps
<1> QED BY <1>2, <1>3, <1>4, <1>5 DEF WriteError

\* sendError finishes the request or fails the same assertion.
LEMMA SendErrorIsDone ==
    ASSUME NEW x, HasResult(x), NEW status, NEW y \in SendError(x, status)
    PROVE  /\ HasResult(y) /\ Done(y)
           /\ y.h.autoFinish = x.h.autoFinish /\ y.h.failed = x.h.failed
           /\ x.h.finished => y.h.finished
<1>1. CASE x.h.headersWritten
    BY <1>1, FinishIsDone DEF SendError, Keeps, Done
<1>2. CASE ~x.h.headersWritten
    <2> DEFINE c == [x EXCEPT !.h = Clear(@, status)]
    <2>1. /\ HasResult(c)
          /\ \A f \in {"autoFinish", "failed", "finished"} : c.h[f] = x.h[f]
        BY DEF Clear, HasResult, HasFields, Fields
    <2>2. PICK w \in WriteError(c) :
              y \in IF w.h.finished THEN {Caught(w)} ELSE Finish(Caught(w))
        BY <1>2 DEF SendError
    <2> HIDE DEF c
    <2>3. Keeps(c, w) /\ HasResult(Caught(w)) /\ Caught(w).h = w.h
        BY <2>1, <2>2, WriteErrorKeeps, CaughtKeeps DEF Keeps
    <2>4. CASE w.h.finished
        <3>1. y = Caught(w) BY <2>2, <2>4
        <3> QED BY <2>1, <2>3, <2>4, <3>1 DEF Keeps, Done
    <2>5. CASE ~w.h.finished
        <3>1. y \in Finish(Caught(w)) BY <2>2, <2>5
        <3>2. Keeps(Caught(w), y) /\ Done(y) BY <2>3, <3>1, FinishIsDone
        <3> QED BY <2>1, <2>3, <3>2 DEF Keeps
    <2> QED BY <2>4, <2>5
<1> QED BY <1>1, <1>2

\* So does handling an exception.
LEMMA ExceptionIsDone ==
    ASSUME NEW x, HasResult(x), NEW y \in HandleRequestException(x)
    PROVE  /\ HasResult(y) /\ Done(y)
           /\ y.h.autoFinish = x.h.autoFinish
           /\ x.h.finished => y.h.finished
<1> DEFINE s == [Caught(x) EXCEPT !.h.failed = TRUE]
<1>1. /\ HasResult(s)
      /\ s.h.autoFinish = x.h.autoFinish /\ s.h.finished = x.h.finished
    BY CaughtKeeps DEF HasResult, HasFields, Fields
<1>2. y \in IF s.h.finished THEN {s} ELSE SendError(s, x.thrown)
    BY DEF HandleRequestException
<1> HIDE DEF s
<1>3. CASE s.h.finished
    BY <1>1, <1>2, <1>3 DEF Done
<1>4. CASE ~s.h.finished
    BY <1>1, <1>2, <1>4, SendErrorIsDone
<1> QED BY <1>3, <1>4

\* redirect finishes, or throws behind the headers.
LEMMA RedirectIsDone ==
    ASSUME NEW x, HasResult(x), NEW y \in Redirect(x)
    PROVE  Keeps(x, y) /\ (Done(y) \/ y.thrown # 0)
<1>1. CASE x.h.headersWritten
    BY <1>1, ThrowKeeps DEF Redirect
<1>2. CASE ~x.h.headersWritten
    <2> DEFINE s == [x EXCEPT !.h.status = 302]
    <2>1. /\ HasResult(s)
          /\ \A f \in {"autoFinish", "failed", "finished"} : s.h[f] = x.h[f]
          /\ s.h.status = 302
        BY DEF HasResult, HasFields, Fields
    <2>2. y \in Finish(s) BY <1>2 DEF Redirect
    <2> HIDE DEF s
    <2>3. Keeps(s, y) /\ Done(y) BY <2>1, <2>2, FinishIsDone
    <2> QED BY <2>1, <2>3 DEF Keeps, Done
<1> QED BY <1>1, <1>2

-----------------------------------------------------------------------------
\* Steps

\* A change that Keeps keeps the condition of NoneUnanswered.
LEMMA KeepsAnswered ==
    ASSUME NEW x, NEW y, NEW gone, Keeps(x, y), Answered(x.h, gone)
    PROVE  Answered(y.h, gone)
BY DEF Keeps, Answered

\* The end of prepare or of the method: what threw has been handled.
LEMMA ExecuteEndsInv ==
    ASSUME NEW x, HasResult(x), ExecuteEnds(x), ~x.h.failed,
           x.thrown = 0 => x.h.finished \/ ~x.h.autoFinish
    PROVE  Inv'
<1>1. PICK y \in IF x.thrown = 0 THEN {x} ELSE HandleRequestException(x) :
          Becomes(y) /\ phase' = "idle" /\ closed' = (closed \/ y.thrown # 0)
    BY DEF ExecuteEnds
<1>2. CASE x.thrown = 0
    BY <1>1, <1>2 DEF Inv, Answered, Becomes, HasResult
<1>3. CASE x.thrown # 0
    <2>1. HasResult(y) /\ Done(y)
        BY <1>1, <1>3, ExceptionIsDone
    <2> QED BY <1>1, <2>1 DEF Inv, Answered, Becomes, HasResult, Done
<1> QED BY <1>2, <1>3

\* The end of a callback, with or without an exception.
LEMMA CallbackEndsInv ==
    ASSUME NEW x, HasResult(x), CallbackEnds(x), Answered(x.h, closed)
    PROVE  Inv'
<1>1. PICK y \in IF x.thrown = 0 \/ ~context THEN {x} ELSE HandleRequestException(x) :
          /\ Becomes(y)
          /\ closed' \in IF y.thrown # 0 THEN {closed, TRUE} ELSE {closed}
    BY DEF CallbackEnds
<1>2. phase' = "idle" /\ (closed => closed')
    BY <1>1 DEF CallbackEnds
<1>3. CASE x.thrown = 0 \/ ~context
    BY <1>1, <1>2, <1>3 DEF Inv, Answered, Becomes, HasResult
<1>4. CASE ~(x.thrown = 0 \/ ~context)
    <2>1. /\ HasResult(y) /\ Done(y)
          /\ y.h.autoFinish = x.h.autoFinish
          /\ x.h.finished => y.h.finished
        BY <1>1, <1>4, ExceptionIsDone
    <2> QED BY <1>1, <1>2, <2>1 DEF Inv, Answered, Becomes, HasResult, Done
<1> QED BY <1>3, <1>4

\* A call of the application that Keeps.
LEMMA CallInv ==
    ASSUME Inv, phase \in {"prepare", "method", "callback"}, NEW results, Call(results),
           \A x \in results : Keeps(Current, x)
    PROVE  Inv'
<1>1. PICK x \in results :
          IF x.thrown # 0 THEN Ends(x)
          ELSE Becomes(x) /\ UNCHANGED <<phase, context, closed>>
    BY DEF Call
<1>2. Keeps(Current, x) /\ HasResult(x)
    BY <1>1 DEF Keeps
<1>3. Current.h = handler
    BY DEF Current
<1>4. CASE x.thrown = 0
    BY <1>1, <1>2, <1>3, <1>4 DEF Inv, Becomes, Keeps, HasResult, Answered
<1>5. CASE x.thrown # 0 /\ phase = "callback"
    <2>1. Answered(x.h, closed)
        BY <1>2, <1>3, <1>5, KeepsAnswered DEF Inv
    <2>2. CallbackEnds(x)
        BY <1>1, <1>5 DEF Ends
    <2> QED BY <1>2, <2>1, <2>2, CallbackEndsInv
<1>6. CASE x.thrown # 0 /\ phase # "callback"
    <2>1. ~x.h.failed
        BY <1>2, <1>3, <1>6 DEF Inv, Keeps
    <2>2. ExecuteEnds(x)
        BY <1>1, <1>6 DEF Ends
    <2> QED BY <1>2, <1>6, <2>1, <2>2, ExecuteEndsInv
<1> QED BY <1>4, <1>5, <1>6

LEMMA CurrentHasResult ==
    ASSUME Inv
    PROVE  HasResult(Current) /\ Current.h = handler /\ Current.thrown = 0
BY DEF Inv, HasResult, Current

\* The initial states.
LEMMA InitInv == HandlerInit => Inv
BY DEF HandlerInit, Inv, HasFields, Fields

\* Every step, one case for each action.
LEMMA StepInv == Inv /\ [HandlerNext]_vars => Inv'
<1> SUFFICES ASSUME Inv, [HandlerNext]_vars PROVE Inv'
    OBVIOUS
<1>0. HasResult(Current) /\ Current.h = handler /\ Current.thrown = 0
    BY CurrentHasResult
<1>1. CASE Dispatch
    <2>1. CASE phase' = "prepare" /\ UNCHANGED <<handler, wire, context, closed>>
        BY <1>1, <2>1 DEF Dispatch, Inv
    <2>2. CASE \E status \in {404, 405} : ExecuteEnds([Current EXCEPT !.thrown = status])
        <3>1. PICK status \in {404, 405} : ExecuteEnds([Current EXCEPT !.thrown = status])
            BY <2>2
        <3> DEFINE x == [Current EXCEPT !.thrown = status]
        <3>2. HasResult(x) /\ x.h = handler /\ x.thrown # 0
            BY <1>0 DEF HasResult
        <3>3. ~handler.failed
            BY <1>1 DEF Dispatch, Inv
        <3>4. ExecuteEnds(x) BY <3>1
        <3> HIDE DEF x
        <3> QED BY <3>2, <3>3, <3>4, ExecuteEndsInv
    <2>3. CASE \E x \in Redirect(Current) : ExecuteEnds(x)
        <3>1. PICK x \in Redirect(Current) : ExecuteEnds(x)
            BY <2>3
        <3>2. Keeps(Current, x) /\ (Done(x) \/ x.thrown # 0)
            BY <1>0, <3>1, RedirectIsDone
        <3>3. ~handler.failed
            BY <1>1 DEF Dispatch, Inv
        <3> QED BY <1>0, <3>1, <3>2, <3>3, ExecuteEndsInv DEF Keeps, Done
    <2> QED BY <1>1, <2>1, <2>2, <2>3 DEF Dispatch
<1>2. CASE PrepareReturns
    BY <1>2 DEF PrepareReturns, Inv, Answered
<1>3. CASE MethodReturns
    <2>1. PICK x \in IF handler.autoFinish /\ ~handler.finished THEN Finish(Current)
                     ELSE {Current} : ExecuteEnds(x)
        BY <1>3 DEF MethodReturns
    <2>2. ~handler.failed
        BY <1>3 DEF MethodReturns, Inv
    <2>3. CASE handler.autoFinish /\ ~handler.finished
        <3>1. Keeps(Current, x) /\ Done(x)
            BY <1>0, <2>1, <2>3, FinishIsDone
        <3> QED BY <1>0, <2>1, <2>2, <3>1, ExecuteEndsInv DEF Keeps, Done
    <2>4. CASE ~(handler.autoFinish /\ ~handler.finished)
        BY <1>0, <2>1, <2>2, <2>4, ExecuteEndsInv
    <2> QED BY <2>3, <2>4
<1>4. CASE RunCallback
    BY <1>4 DEF RunCallback, Inv
<1>5. CASE CallbackReturns
    BY <1>0, <1>5, CallbackEndsInv DEF CallbackReturns, Inv
<1>6. CASE StreamCloses
    BY <1>6 DEF StreamCloses, Inv, HasFields, Fields, Answered
<1>7. CASE AppWrite
    <2>1. PICK n \in 1..(MaxBody - handler.written) :
              Call({IF handler.finished THEN Throw(Current)
                    ELSE [Current EXCEPT !.h.buffer = @ + n, !.h.written = @ + n]})
        BY <1>7 DEF AppWrite
    <2>2. Keeps(Current, [Current EXCEPT !.h.buffer = @ + n, !.h.written = @ + n])
        BY <1>0 DEF Keeps, HasResult, HasFields, Fields
    <2>3. Keeps(Current, Throw(Current))
        BY <1>0, ThrowKeeps
    <2> QED BY <1>7, <2>1, <2>2, <2>3, CallInv DEF AppWrite, InApplication
<1>8. CASE AppFlush
    <2> DEFINE x == [Current EXCEPT !.h.flushes = @ + 1]
    <2>1. HasResult(x) /\ Keeps(Current, x)
        BY <1>0 DEF Keeps, HasResult, HasFields, Fields
    <2>2. Call({Flush(x, FALSE)})
        BY <1>8 DEF AppFlush
    <2> HIDE DEF x
    <2>3. Keeps(Current, Flush(x, FALSE))
        <3> DEFINE y == Flush(x, FALSE)
        <3>1. /\ HasResult(y)
              /\ \A f \in {"autoFinish", "failed", "finished", "status"} : y.h[f] = x.h[f]
            BY <2>1, FlushKeeps DEF Keeps
        <3> HIDE DEF y
        <3>2. Keeps(Current, y)
            BY <2>1, <3>1 DEF Keeps
        <3> QED BY <3>2 DEF y
    <2> QED BY <1>8, <2>2, <2>3, CallInv DEF AppFlush, InApplication
<1>9. CASE AppFinish
    BY <1>0, <1>9, FinishIsDone, CallInv DEF AppFinish, InApplication
<1>10. CASE AppRedirect
    BY <1>0, <1>10, RedirectIsDone, CallInv DEF AppRedirect, InApplication
<1>11. CASE AppSendError
    <2>1. PICK status \in Codes : Call(SendError(Current, status))
        BY <1>11 DEF AppSendError
    <2>2. \A x \in SendError(Current, status) : Keeps(Current, x)
        BY <1>0, SendErrorIsDone DEF Keeps, Done
    <2> QED BY <1>11, <2>1, <2>2, CallInv DEF AppSendError, InApplication
<1>12. CASE AppThrow
    <2>1. PICK status \in Codes : Ends([Current EXCEPT !.thrown = status])
        BY <1>12 DEF AppThrow
    <2> DEFINE x == [Current EXCEPT !.thrown = status]
    <2>2. Keeps(Current, x) /\ x.thrown # 0
        BY <1>0, HandlerAssumption DEF Keeps, HasResult
    <2>3. Call({x})
        BY <2>1, <2>2 DEF Call
    <2> HIDE DEF x
    <2> QED BY <1>12, <2>2, <2>3, CallInv DEF AppThrow, InApplication
<1>13. CASE AppSetStatus
    <2>1. Keeps(Current, [Current EXCEPT !.h.status = 304])
        BY <1>0 DEF Keeps, HasResult, HasFields, Fields
    <2> QED BY <1>13, <2>1, CallInv DEF AppSetStatus, InApplication
<1>14. CASE AppSetLength
    <2>1. PICK n \in 0..MaxBody : Call({[Current EXCEPT !.h.length = n, !.h.own = TRUE]})
        BY <1>14 DEF AppSetLength
    <2>2. Keeps(Current, [Current EXCEPT !.h.length = n, !.h.own = TRUE])
        BY <1>0 DEF Keeps, HasResult, HasFields, Fields
    <2> QED BY <1>14, <2>1, <2>2, CallInv DEF AppSetLength, InApplication
<1>15. CASE AppAsynchronous
    BY <1>15 DEF AppAsynchronous, InApplication, Inv, HasFields, Fields
<1>16. CASE AppPost
    BY <1>16 DEF AppPost, Inv, HasFields, Fields, Answered
<1>17. CASE UNCHANGED vars
    BY <1>17 DEF vars, Inv, Answered, HasFields
<1> QED BY <1>1, <1>2, <1>3, <1>4, <1>5, <1>6, <1>7, <1>8, <1>9, <1>10, <1>11, <1>12, <1>13,
           <1>14, <1>15, <1>16, <1>17 DEF HandlerNext, Framework, App

\* When the loop goes on, a handler that is not asynchronous, or one whose prepare,
\* method or callback threw, has finished its request, or the stream is closed; an
\* error of status 304 in a callback is excepted.
THEOREM NoRequestUnanswered == HandlerSpec => []NoneUnanswered
<1>1. Inv => NoneUnanswered
    BY DEF Inv, NoneUnanswered, Answered
<1> QED BY <1>1, InitInv, StepInv, PTL DEF HandlerSpec

-----------------------------------------------------------------------------
\* The framing of the answer

Items == [is : {"chunked", "sized", "open", "raw", "block", "last", "finish"}, n : Nat]

Typed(h) ==
    /\ HasFields(h)
    /\ \A f \in {"headersWritten", "finished", "typed", "gzipping", "chunking", "own"} :
           h[f] \in BOOLEAN
    /\ h.buffer \in Nat /\ h.flushes \in Nat /\ h.length \in Nat \cup {NoLength}

\* The exceptions of WellFramed.
Early(h) == h.status = 304 /\ h.flushes > 0
Bare(h) == h.method = "HEAD" \/ h.status = 304

\* What may stand behind the headers before finish.
BodyKinds(h, w) ==
    IF h.method = "HEAD" THEN {}
    ELSE IF w[1].is = "chunked" THEN {"block"}
    ELSE IF h.status = 304 THEN {"raw", "block"} ELSE {"raw"}

\* The headers have left and the answer is not finished: the application flushed.
Flushed(h, w) ==
    /\ h.flushes > 0
    /\ w[1].is \in Heads
    /\ w[1].is = "chunked" => h.chunking /\ h.status # 304
    /\ w[1].is # "chunked" /\ h.status # 304 => ~h.chunking
    /\ w[1].is = "sized" => h.own
    /\ \A i \in 2..Len(w) : w[i].is \in BodyKinds(h, w)

RawItems(w) == {i \in DOMAIN w : w[i].is = "raw"}

\* The whole answer was given to the connection.
Whole(h, w) ==
    /\ Len(w) >= 2
    /\ \A i \in 1..Len(w) : w[i].is \in Heads <=> i = 1
    /\ \A i \in 1..Len(w) : w[i].is = "finish" <=> i = Len(w)
    /\ \A i \in 1..Len(w) : w[i].is = "last" => i = Len(w) - 1
    /\ w[1].is = "chunked" => \A i \in 1..Len(w) : w[i].is # "raw"
    /\ w[1].is # "chunked" /\ ~Early(h) => \A i \in 1..Len(w) : w[i].is \notin {"block", "last"}
    /\ Bare(h) /\ ~Early(h) => Len(w) = 2
    /\ w[1].is = "chunked" /\ ~Bare(h) => w[Len(w) - 1].is = "last"
    /\ w[1].is = "sized" /\ ~Bare(h) /\ ~h.own =>
           \/ RawItems(w) = {} /\ w[1].n = 0
           \/ RawItems(w) = {2} /\ w[2].n = w[1].n

\* A handler and what it gave to the connection.
Framed(h, w) ==
    /\ Typed(h) /\ w \in Seq(Items)
    /\ ~h.headersWritten => w = <<>> /\ ~h.finished /\ (h.own \/ h.length = NoLength)
    /\ h.headersWritten => w # <<>>
    /\ h.headersWritten /\ ~h.finished => Flushed(h, w)
    /\ h.finished => Whole(h, w)

FramedResult(x) == HasResult(x) /\ Framed(x.h, x.wire)

\* What the framing looks at is the same in both, but for flushes that were counted.
SameFraming(h, g) ==
    /\ Typed(g) /\ g.flushes >= h.flushes
    /\ \A f \in {"method", "headersWritten", "finished", "status", "chunking", "own", "length"} :
           g[f] = h[f]

LEMMA SameIsFramed ==
    ASSUME NEW h, NEW g, NEW w, Framed(h, w), SameFraming(h, g)
    PROVE  Framed(g, w)
<1>1. /\ g.method = h.method /\ g.headersWritten = h.headersWritten
      /\ g.finished = h.finished /\ g.status = h.status /\ g.chunking = h.chunking
      /\ g.own = h.own /\ g.length = h.length
    BY DEF SameFraming
<1>2. h.flushes \in Nat /\ g.flushes \in Nat /\ g.flushes >= h.flushes /\ Typed(g)
    BY DEF SameFraming, Framed, Typed
<1>3. Bare(g) = Bare(h) /\ (Early(h) => Early(g))
    BY <1>1, <1>2 DEF Bare, Early
<1>4. Flushed(h, w) => Flushed(g, w)
    BY <1>1, <1>2 DEF Flushed, BodyKinds
<1>5. Whole(h, w) => Whole(g, w)
    BY <1>1, <1>3 DEF Whole
<1> QED BY <1>1, <1>2, <1>4, <1>5 DEF Framed

-----------------------------------------------------------------------------
\* What a flush gives to the connection

\* A body in chunks ends with the last chunk if the answer does.
IsBody(b, chunked, last) ==
    /\ b \in Seq(Items)
    /\ ~chunked => \A i \in 1..Len(b) : b[i].is = "raw"
    /\ chunked => \A i \in 1..Len(b) :
                      b[i].is = IF last /\ i = Len(b) THEN "last" ELSE "block"
    /\ chunked /\ last => Len(b) > 0

LEMMA ItemIsItem ==
    ASSUME NEW is \in {"chunked", "sized", "open", "raw", "block", "last", "finish"},
           NEW n \in Nat
    PROVE  Item(is, n) \in Items /\ Item(is, n).is = is /\ Item(is, n).n = n
BY DEF Item, Items

LEMMA DataIsBody ==
    ASSUME NEW n \in Nat, NEW last \in BOOLEAN
    PROVE  IsBody(Data("raw", n), FALSE, last) /\ IsBody(Chunked(n, last), TRUE, last)
<1> DEFINE raw == Item("raw", n)
           block == Item("block", n)
           end == Item("last", 0)
<1>1. /\ raw \in Items /\ raw.is = "raw" /\ block \in Items /\ block.is = "block"
      /\ end \in Items /\ end.is = "last"
    BY ItemIsItem
<1>2. Data("raw", n) \in {<<>>, <<raw>>} /\ Data("block", n) \in {<<>>, <<block>>}
    BY DEF Data
<1> DEFINE tail == IF last THEN <<end>> ELSE <<>>
<1>3. Chunked(n, last) = Data("block", n) \o tail
    BY DEF Chunked
<1> HIDE DEF raw, block, end
<1>4. \A x \in Items : <<x>> \in Seq(Items) /\ Len(<<x>>) = 1 /\ <<x>>[1] = x
    OBVIOUS
<1>5. <<>> \in Seq(Items) /\ Len(<<>>) = 0
    OBVIOUS
<1>6. IsBody(Data("raw", n), FALSE, last)
    <2> DEFINE d == Data("raw", n)
    <2>0. d \in {<<>>, <<raw>>}
        BY <1>2
    <2> HIDE DEF d
    <2>1. d \in Seq(Items) /\ Len(d) \in {0, 1} /\ (Len(d) = 1 => d[1] = raw)
        <3>1. CASE d = <<>>
            BY <1>5, <3>1
        <3>2. CASE d = <<raw>>
            BY <1>1, <1>4, <3>2
        <3> QED BY <2>0, <3>1, <3>2
    <2>2. IsBody(d, FALSE, last)
        BY <1>1, <2>1 DEF IsBody
    <2> QED BY <2>2 DEF d
<1>7. IsBody(Chunked(n, last), TRUE, last)
    <2> DEFINE d == Data("block", n)
               c == d \o tail
    <2>0. d \in {<<>>, <<block>>}
        BY <1>2
    <2> HIDE DEF d
    <2>1. d \in Seq(Items) /\ Len(d) \in {0, 1} /\ (Len(d) = 1 => d[1] = block)
        <3>1. CASE d = <<>>
            BY <1>5, <3>1
        <3>2. CASE d = <<block>>
            BY <1>1, <1>4, <3>2
        <3> QED BY <2>0, <3>1, <3>2
    <2>2. /\ tail \in Seq(Items) /\ Len(tail) = (IF last THEN 1 ELSE 0)
          /\ last => tail[1] = end
        <3>1. CASE last
            BY <1>1, <1>4, <3>1
        <3>2. CASE ~last
            BY <1>5, <3>2
        <3> QED BY <3>1, <3>2
    <2> HIDE DEF d, tail
    <2>3. c \in Seq(Items) /\ Len(c) = Len(d) + Len(tail)
        BY <2>1, <2>2, ConcatProperties
    <2>4. \A i \in 1..Len(c) : c[i] = IF i <= Len(d) THEN d[i] ELSE tail[i - Len(d)]
        BY <2>1, <2>2, <2>3, ConcatProperties
    <2> HIDE DEF c
    <2>5. IsBody(c, TRUE, last)
        BY <1>1, <2>1, <2>2, <2>3, <2>4 DEF IsBody
    <2> QED BY <1>3, <2>5 DEF c, d
<1> QED BY <1>6, <1>7

LEMMA ZippedIsNat ==
    ASSUME NEW n \in Nat, NEW first \in BOOLEAN, NEW last \in BOOLEAN
    PROVE  Zipped(n, first, last) \in Nat
BY DEF Zipped

LEMMA NextChunkIsBody ==
    ASSUME NEW h, Typed(h), NEW last \in BOOLEAN
    PROVE  IsBody(NextChunk(h, last), h.chunking, last)
<1> DEFINE n == IF h.gzipping THEN Zipped(h.buffer, FALSE, last) ELSE h.buffer
<1>1. n \in Nat /\ h.chunking \in BOOLEAN
    BY ZippedIsNat DEF Typed
<1>2. NextChunk(h, last) = IF h.chunking THEN Chunked(n, last) ELSE Data("raw", n)
    BY DEF NextChunk
<1> HIDE DEF n
<1>3. CASE h.chunking
    BY <1>1, <1>2, <1>3, DataIsBody
<1>4. CASE ~h.chunking
    BY <1>1, <1>2, <1>4, DataIsBody
<1> QED BY <1>1, <1>3, <1>4

\* The first flush: the head says how the body is framed, and chunking goes on as
\* it says.  A Content-Length is that of the application, or the length of the
\* body if the answer ends with the flush.
FirstIsFramed(h, f, last) ==
    /\ Typed(f.h) /\ f.h.headersWritten
    /\ \A m \in {"method", "finished", "status", "own", "flushes", "closeCb"} :
           f.h[m] = h[m]
    /\ f.head \in Items /\ f.head.is \in Heads
    /\ f.head.is = "chunked" => IsBody(f.body, TRUE, last)
    /\ f.head.is # "chunked" => IsBody(f.body, FALSE, last)
    /\ f.head.is = "chunked" => f.h.chunking /\ h.status # 304
    /\ f.head.is # "chunked" /\ h.status # 304 => ~f.h.chunking
    /\ f.head.is = "sized" => h.length # NoLength
    /\ h.status = 304 /\ ~h.typed /\ h.buffer = 0 => f.body = <<>>
    /\ f.head.is = "sized" /\ last /\ h.length = h.buffer =>
           f.body = Data("raw", f.head.n)

LEMMA FirstChunkIsFramed ==
    ASSUME NEW h, Typed(h), NEW last \in BOOLEAN,
           NEW f, f = FirstChunk(h, last)
    PROVE  FirstIsFramed(h, f, last)
<1> DEFINE zip == Zips(h, last)
           n == IF zip THEN Zipped(h.buffer, TRUE, last) ELSE h.buffer
           length == IF zip /\ h.length # NoLength THEN n ELSE h.length
           chunk == h.chunking /\ h.status # 304 /\ length = NoLength
           g == [h EXCEPT !.headersWritten = TRUE, !.buffer = 0, !.gzipping = zip,
                          !.length = length, !.chunking = @ /\ (h.status = 304 \/ chunk)]
           head == IF chunk THEN Item("chunked", 0)
                   ELSE IF length = NoLength THEN Item("open", 0) ELSE Item("sized", length)
           body == IF chunk THEN Chunked(n, last) ELSE Data("raw", n)
<1>1. f.h = g /\ f.head = head /\ f.body = body
    BY DEF FirstChunk
<1>2. zip \in BOOLEAN /\ n \in Nat
    BY ZippedIsNat DEF Typed, Zips
<1>3. length \in Nat \cup {NoLength} /\ chunk \in BOOLEAN
    BY <1>2 DEF Typed
<1>4. Typed(g) /\ g.headersWritten /\ g.chunking = (h.chunking /\ (h.status = 304 \/ chunk))
    <2> HIDE DEF zip, length, chunk
    <2> QED BY <1>2, <1>3 DEF Typed, HasFields, Fields
<1>5. \A m \in {"method", "finished", "status", "own", "flushes", "closeCb"} : g[m] = h[m]
    <2> HIDE DEF zip, length, chunk
    <2> QED BY DEF Typed, HasFields, Fields
<1>6. /\ head \in Items /\ head.is = IF chunk THEN "chunked"
                                     ELSE IF length = NoLength THEN "open" ELSE "sized"
      /\ ~chunk /\ length # NoLength => head.n = length
    <2>1. NoLength \notin Nat
        BY DEF NoLength
    <2> HIDE DEF zip, length, chunk
    <2> QED BY <1>3, <2>1, ItemIsItem
<1>7. IsBody(body, chunk, last)
    <2> HIDE DEF n, chunk
    <2> QED BY <1>2, <1>3, DataIsBody
<1>8. h.status = 304 /\ ~h.typed /\ h.buffer = 0 => body = <<>>
    BY DEF Zips, Data
<1>9. ~chunk /\ length # NoLength /\ last /\ h.length = h.buffer => body = Data("raw", length)
    <2>1. h.buffer # NoLength
        BY DEF Typed, NoLength
    <2> QED BY <2>1
<1>10. length # NoLength => h.length # NoLength
    OBVIOUS
<1> HIDE DEF zip, n, length, chunk, g, head, body
<1>11. (head.is = "chunked") = chunk /\ head.is \in Heads
    BY <1>3, <1>6 DEF Heads
<1>12. chunk => h.chunking /\ h.status # 304
    BY DEF chunk
<1>13. head.is = "sized" => ~chunk /\ length # NoLength
    BY <1>6
<1> QED BY <1>1, <1>4, <1>5, <1>6, <1>7, <1>8, <1>9, <1>10, <1>11, <1>12, <1>13, ZenonT(30)
       DEF FirstIsFramed

\* What flush adds behind headers that have left.
Added(h, last) == IF h.method = "HEAD" THEN <<>> ELSE NextChunk(h, last)

LEMMA AddedIsBody ==
    ASSUME NEW h, Typed(h), NEW last \in BOOLEAN
    PROVE  /\ Added(h, last) \in Seq(Items)
           /\ h.method = "HEAD" => Added(h, last) = <<>>
           /\ h.method # "HEAD" => IsBody(Added(h, last), h.chunking, last)
BY NextChunkIsBody DEF Added, IsBody

LEMMA FlushBehindHeaders ==
    ASSUME NEW x, HasResult(x), Typed(x.h), ~x.h.finished, x.h.headersWritten,
           NEW last \in BOOLEAN, NEW y, y = Flush(x, last)
    PROVE  HasResult(y) /\ y.wire = x.wire \o Added(x.h, last) /\ SameFraming(x.h, y.h)
<1> DEFINE w == x.wire \o Added(x.h, last)
<1>1. y = [x EXCEPT !.h.buffer = 0, !.wire = w]
    BY DEF Flush, Added, HasResult
<1> HIDE DEF w
<1>2. HasResult(y) /\ y.wire = w /\ y.h = [x.h EXCEPT !.buffer = 0]
    BY <1>1 DEF HasResult, HasFields, Fields
<1>3. SameFraming(x.h, [x.h EXCEPT !.buffer = 0])
    BY DEF SameFraming, Typed, HasFields, Fields
<1> QED BY <1>2, <1>3 DEF w

\* What it sends behind the headers of the same flush.
Behind(h, body) == IF h.method = "HEAD" THEN <<>> ELSE body
FirstItems(h, f) == <<f.head>> \o Behind(h, f.body)

StartsAnswer(x, f, y) == HasResult(y) /\ y.h = f.h /\ y.wire = FirstItems(x.h, f)

LEMMA FlushWithHeaders ==
    ASSUME NEW x, HasResult(x), Typed(x.h), ~x.h.finished, ~x.h.headersWritten, x.wire = <<>>,
           NEW last \in BOOLEAN, NEW y, y = Flush(x, last),
           NEW f, f = FirstChunk(x.h, last)
    PROVE  StartsAnswer(x, f, y)
<1> DEFINE tail == IF f.h.method = "HEAD" THEN <<>> ELSE f.body
           w == Append(<<>>, f.head) \o tail
<1>1. y = [x EXCEPT !.h = f.h, !.wire = w]
    BY DEF Flush
<1>2. HasFields(f.h) /\ f.h.method = x.h.method /\ f.head \in Items
    <2>0. FirstIsFramed(x.h, f, last)
        BY FirstChunkIsFramed
    <2>1. Typed(f.h) /\ f.h["method"] = x.h["method"] /\ f.head \in Items
        BY <2>0 DEF FirstIsFramed
    <2> QED BY <2>1 DEF Typed
<1>3. Append(<<>>, f.head) = <<f.head>>
    BY <1>2
<1> HIDE DEF w
<1>4. HasResult(y) /\ y.h = f.h /\ y.wire = w
    BY <1>1, <1>2 DEF HasResult
<1>5. tail = Behind(x.h, f.body)
    BY <1>2 DEF Behind
<1> HIDE DEF tail
<1> QED BY <1>3, <1>4, <1>5 DEF StartsAnswer, w, FirstItems

\* What is behind a sequence and a body that is added to it.
LEMMA AddedItems ==
    ASSUME NEW w \in Seq(Items), NEW b \in Seq(Items)
    PROVE  /\ w \o b \in Seq(Items) /\ Len(w \o b) = Len(w) + Len(b)
           /\ \A i \in 1..Len(w \o b) : (w \o b)[i] = IF i <= Len(w) THEN w[i] ELSE b[i - Len(w)]
BY ConcatProperties

LEMMA FlushIsFramed ==
    ASSUME NEW x, FramedResult(x), x.h.flushes > 0
    PROVE  FramedResult(Flush(x, FALSE))
<1> DEFINE y == Flush(x, FALSE)
<1>0. HasResult(x) /\ Framed(x.h, x.wire) /\ Typed(x.h) /\ x.wire \in Seq(Items)
    BY DEF FramedResult, Framed
<1>1. CASE x.h.finished
    <2>1. y = x \/ y = Throw(x)
        BY <1>1 DEF Flush
    <2>2. HasResult(Throw(x)) /\ Throw(x).h = x.h /\ Throw(x).wire = x.wire
        BY <1>0 DEF HasResult, Throw
    <2> QED BY <1>0, <2>1, <2>2 DEF FramedResult
<1>2. CASE ~x.h.finished /\ x.h.headersWritten
    <2> DEFINE h == x.h
               w == x.wire
               b == Added(x.h, FALSE)
               e == w \o b
    <2>1. HasResult(y) /\ y.wire = e /\ SameFraming(h, y.h)
        BY <1>0, <1>2, FlushBehindHeaders
    <2>2. /\ b \in Seq(Items) /\ (h.method = "HEAD" => b = <<>>)
          /\ h.method # "HEAD" => IsBody(b, h.chunking, FALSE)
        BY <1>0, AddedIsBody
    <2>3. w # <<>> /\ w \in Seq(Items) /\ Flushed(h, w) /\ h.chunking \in BOOLEAN
        BY <1>0, <1>2 DEF Framed, Typed
    <2> HIDE DEF h, w, b, y
    <2>4. /\ e \in Seq(Items) /\ Len(e) = Len(w) + Len(b)
          /\ \A i \in 1..Len(e) : e[i] = IF i <= Len(w) THEN w[i] ELSE b[i - Len(w)]
        BY <2>2, <2>3, AddedItems
    <2> HIDE DEF e
    <2>5. Len(w) > 0 /\ Len(w) \in Nat /\ Len(b) \in Nat /\ e[1] = w[1] /\ e # <<>>
        BY <2>2, <2>3, <2>4
    <2>6. ASSUME NEW i \in 2..Len(e)
          PROVE  e[i].is \in BodyKinds(h, e)
        <3>1. CASE i <= Len(w)
            BY <2>3, <2>4, <2>5, <3>1 DEF Flushed, BodyKinds
        <3>2. CASE i > Len(w) /\ h.method # "HEAD"
            <4>1. i - Len(w) \in 1..Len(b) /\ e[i] = b[i - Len(w)]
                BY <2>4, <2>5, <3>2
            <4>2. e[i].is = IF h.chunking THEN "block" ELSE "raw"
                BY <2>2, <2>3, <3>2, <4>1 DEF IsBody
            <4> QED BY <2>3, <2>5, <3>2, <4>2 DEF Flushed, BodyKinds
        <3>3. CASE i > Len(w) /\ h.method = "HEAD"
            BY <2>2, <2>4, <2>5, <3>3
        <3> QED BY <2>5, <3>1, <3>2, <3>3
    <2>7. Flushed(h, e)
        BY <2>3, <2>5, <2>6 DEF Flushed
    <2>8. Framed(h, e)
        BY <1>0, <1>2, <2>4, <2>5, <2>7 DEF Framed, h
    <2> QED BY <2>1, <2>8, SameIsFramed DEF FramedResult, y
<1>3. CASE ~x.h.finished /\ ~x.h.headersWritten
    <2> DEFINE h == x.h
               f == FirstChunk(h, FALSE)
               b == Behind(h, f.body)
               w == <<f.head>>
               e == w \o b
    <2>1. x.wire = <<>> /\ (h.own \/ h.length = NoLength)
        BY <1>0, <1>3 DEF Framed
    <2>2. HasResult(y) /\ y.h = f.h /\ y.wire = e
        <3> HIDE DEF y, f
        <3>1. y = Flush(x, FALSE) /\ f = FirstChunk(x.h, FALSE)
            BY DEF y, f
        <3>2. HasResult(x) /\ Typed(x.h) /\ ~x.h.finished /\ ~x.h.headersWritten /\ x.wire = <<>>
            BY <1>0, <1>3, <2>1
        <3> HIDE DEF e, w, b, h
        <3>3. StartsAnswer(x, f, y)
            BY <3>1, <3>2, FlushWithHeaders
        <3> QED BY <3>3 DEF StartsAnswer, FirstItems, e, w, b, h
    <2>3. /\ Typed(f.h) /\ f.h.headersWritten /\ ~f.h.finished
          /\ f.h.method = h.method /\ f.h.status = h.status /\ f.h.own = h.own
          /\ f.h.flushes > 0
          /\ f.head \in Items /\ f.head.is \in Heads
          /\ f.head.is = "chunked" => IsBody(f.body, TRUE, FALSE)
          /\ f.head.is # "chunked" => IsBody(f.body, FALSE, FALSE)
          /\ f.head.is = "chunked" => f.h.chunking /\ h.status # 304
          /\ f.head.is # "chunked" /\ h.status # 304 => ~f.h.chunking
          /\ f.head.is = "sized" => h.own
        <3> HIDE DEF f
        <3>0. Typed(h)
            BY <1>0
        <3>1. f = FirstChunk(h, FALSE)
            BY DEF f
        <3> HIDE DEF h
        <3>2. FirstIsFramed(h, f, FALSE)
            BY <3>0, <3>1, FirstChunkIsFramed
        <3>3. f.h.method = h.method /\ f.h.status = h.status /\ f.h.own = h.own
              /\ f.h.finished = h.finished /\ f.h.flushes = h.flushes
            BY <3>2 DEF FirstIsFramed
        <3> QED BY <1>3, <2>1, <3>2, <3>3 DEF FirstIsFramed, h
    <2> DEFINE g == f.h
    <2> HIDE DEF h, f, y
    <2>4. b \in Seq(Items) /\ w \in Seq(Items) /\ Len(w) = 1 /\ w[1] = f.head
        BY <2>3 DEF IsBody, Behind
    <2>5. h.method = "HEAD" => b = <<>>
        BY DEF Behind
    <2>6. h.method # "HEAD" => b = f.body
        BY DEF Behind
    <2> HIDE DEF b, w
    <2>7. /\ e \in Seq(Items) /\ Len(e) = Len(w) + Len(b)
          /\ \A i \in 1..Len(e) : e[i] = IF i <= Len(w) THEN w[i] ELSE b[i - Len(w)]
        BY <2>4, AddedItems
    <2> HIDE DEF e
    <2>8. Len(b) \in Nat /\ e[1] = f.head /\ e # <<>>
        BY <2>4, <2>7
    <2>9. ASSUME NEW i \in 2..Len(e)
          PROVE  e[i].is \in BodyKinds(g, e)
        <3>1. i - 1 \in 1..Len(b) /\ e[i] = b[i - 1]
            BY <2>4, <2>7, <2>8
        <3>2. h.method # "HEAD"
            BY <2>5, <3>1
        <3>3. e[i].is = IF f.head.is = "chunked" THEN "block" ELSE "raw"
            BY <2>3, <2>6, <3>1, <3>2 DEF IsBody
        <3> QED BY <2>3, <2>8, <3>2, <3>3 DEF BodyKinds
    <2>10. Flushed(g, e)
        BY <2>3, <2>8, <2>9 DEF Flushed
    <2>11. Framed(g, e)
        BY <2>3, <2>7, <2>8, <2>10 DEF Framed
    <2> QED BY <2>2, <2>11 DEF FramedResult, y
<1> QED BY <1>0, <1>1, <1>2, <1>3 DEF Typed

-----------------------------------------------------------------------------
\* Finishing an answer

\* The answer is w, a body b that ends it, and finish.
LEMMA EndingItems ==
    ASSUME NEW w \in Seq(Items), NEW b \in Seq(Items),
           NEW e, e = Append(w \o b, Item("finish", 0))
    PROVE  /\ e \in Seq(Items) /\ Len(e) = Len(w) + Len(b) + 1
           /\ \A i \in 1..Len(w) : e[i] = w[i]
           /\ \A i \in 1..Len(b) : e[Len(w) + i] = b[i]
           /\ e[Len(e)].is = "finish"
<1> DEFINE c == w \o b
           end == Item("finish", 0)
<1>1. end \in Items /\ end.is = "finish"
    BY ItemIsItem
<1>2. /\ c \in Seq(Items) /\ Len(c) = Len(w) + Len(b)
      /\ \A i \in 1..Len(c) : c[i] = IF i <= Len(w) THEN w[i] ELSE b[i - Len(w)]
    BY AddedItems
<1>3. e = Append(c, end)
    OBVIOUS
<1> HIDE DEF c, end
<1>4. /\ e \in Seq(Items) /\ Len(e) = Len(c) + 1 /\ e[Len(c) + 1] = end
      /\ \A i \in 1..Len(c) : e[i] = c[i]
    BY <1>1, <1>2, <1>3, AppendProperties
<1>5. Len(w) \in Nat /\ Len(b) \in Nat
    OBVIOUS
<1>6. \A i \in 1..Len(w) : e[i] = w[i]
    BY <1>2, <1>4, <1>5
<1>7. ASSUME NEW i \in 1..Len(b)
      PROVE  e[Len(w) + i] = b[i]
    <2>1. Len(w) + i \in 1..Len(c) /\ ~(Len(w) + i <= Len(w)) /\ (Len(w) + i) - Len(w) = i
        BY <1>2, <1>5
    <2> QED BY <1>2, <1>4, <2>1
<1> QED BY <1>1, <1>2, <1>4, <1>6, <1>7

\* An answer that the application has flushed is whole with what finish adds.
LEMMA FlushedEndsWhole ==
    ASSUME NEW h, Typed(h), NEW w \in Seq(Items), w # <<>>, Flushed(h, w),
           NEW b \in Seq(Items), h.method = "HEAD" => b = <<>>,
           h.method # "HEAD" => IsBody(b, h.chunking, TRUE),
           NEW e, e = Append(w \o b, Item("finish", 0))
    PROVE  e \in Seq(Items) /\ Whole(h, e)
<1>1. /\ b \in Seq(Items) /\ (h.method = "HEAD" => b = <<>>)
      /\ h.method # "HEAD" => IsBody(b, h.chunking, TRUE)
    OBVIOUS
<1>2. /\ e \in Seq(Items) /\ Len(e) = Len(w) + Len(b) + 1
      /\ \A i \in 1..Len(w) : e[i] = w[i]
      /\ \A i \in 1..Len(b) : e[Len(w) + i] = b[i]
      /\ e[Len(e)].is = "finish"
    BY <1>1, EndingItems, SMTT(30)
<1>3. Len(w) \in Nat /\ Len(w) > 0 /\ Len(b) \in Nat /\ e[1] = w[1]
    <2>1. Len(w) \in Nat /\ Len(w) > 0
        OBVIOUS
    <2>2. Len(b) \in Nat
        BY <1>1
    <2> QED BY <1>2, <2>1, <2>2
<1>4. h.chunking \in BOOLEAN /\ h.flushes > 0
    BY DEF Typed, Flushed
<1>5. \A i \in 1..Len(e) : i = 1 \/ i \in 2..Len(w) \/ (i - Len(w)) \in 1..Len(b) \/ i = Len(e)
    <2>1. \A m, k \in Nat : \A i \in 1..(m + k + 1) :
              i = 1 \/ i \in 2..m \/ (i - m) \in 1..k \/ i = m + k + 1
        OBVIOUS
    <2> QED BY <1>2, <1>3, <2>1
<1>6. ASSUME NEW i \in 2..Len(w)
      PROVE  e[i].is \in BodyKinds(h, e)
    BY <1>2, <1>3 DEF Flushed, BodyKinds
<1>7. ASSUME NEW i \in 1..Len(e), (i - Len(w)) \in 1..Len(b)
      PROVE  /\ h.method # "HEAD"
             /\ h.chunking => e[i].is = IF i = Len(e) - 1 THEN "last" ELSE "block"
             /\ ~h.chunking => e[i].is = "raw"
    <2> DEFINE j == i - Len(w)
    <2>1. Len(w) + j = i /\ j \in 1..Len(b) /\ (j = Len(b) <=> i = Len(e) - 1)
        <3>1. i \in Nat /\ j \in 1..Len(b)
            BY <1>3, <1>7
        <3> DEFINE m == Len(w)
                   k == Len(b)
                   l == Len(e)
        <3>2. m \in Nat /\ k \in Nat /\ l = m + k + 1
            BY <1>2, <1>3
        <3> HIDE DEF m, k, l
        <3>3. m + (i - m) = i /\ (i - m = k <=> i = l - 1)
            BY <3>1, <3>2
        <3>4. Len(w) + (i - Len(w)) = i /\ (i - Len(w) = Len(b) <=> i = Len(e) - 1)
            BY <3>3 DEF m, k, l
        <3> QED BY <3>1, <3>4
    <2> HIDE DEF j
    <2>2. e[i] = b[j] /\ h.method # "HEAD"
        BY <1>1, <1>2, <2>1
    <2> QED BY <1>1, <1>4, <2>1, <2>2 DEF IsBody
<1>8. e[1].is \in Heads /\ e[Len(e)].is = "finish"
    BY <1>2, <1>3 DEF Flushed
<1>9. \A i \in 1..Len(e) : e[i].is \in Heads <=> i = 1
    BY <1>2, <1>3, <1>4, <1>5, <1>6, <1>7, <1>8, ZenonT(30) DEF Heads, BodyKinds
<1>10. \A i \in 1..Len(e) : e[i].is = "finish" <=> i = Len(e)
    BY <1>2, <1>3, <1>4, <1>5, <1>6, <1>7, <1>8 DEF Heads, BodyKinds
<1>11. \A i \in 1..Len(e) : e[i].is = "last" => i = Len(e) - 1
    BY <1>2, <1>3, <1>4, <1>5, <1>6, <1>7, <1>8, ZenonT(30) DEF Heads, BodyKinds
<1>12. e[1].is = "chunked" => \A i \in 1..Len(e) : e[i].is # "raw"
    BY <1>2, <1>3, <1>4, <1>5, <1>6, <1>7, <1>8 DEF Heads, BodyKinds, Flushed
<1>13. e[1].is # "chunked" /\ ~Early(h) => \A i \in 1..Len(e) : e[i].is \notin {"block", "last"}
    BY <1>2, <1>3, <1>4, <1>5, <1>6, <1>7, <1>8 DEF Heads, BodyKinds, Flushed, Early
<1>14. Bare(h) /\ ~Early(h) => Len(e) = 2
    <2> SUFFICES ASSUME Bare(h), ~Early(h) PROVE Len(e) = 2
        OBVIOUS
    <2>1. h.method = "HEAD"
        BY <1>4 DEF Bare, Early
    <2>2. 2..Len(w) = {}
        BY <2>1 DEF Flushed, BodyKinds
    <2>3. Len(w) = 1
        <3>1. \A m \in Nat : m > 0 /\ m # 1 => 2 \in 2..m
            OBVIOUS
        <3> QED BY <1>3, <2>2, <3>1
    <2> QED BY <1>1, <1>2, <2>1, <2>3
<1>15. e[1].is = "chunked" /\ ~Bare(h) => e[Len(e) - 1].is = "last"
    <2> SUFFICES ASSUME e[1].is = "chunked", ~Bare(h) PROVE e[Len(e) - 1].is = "last"
        OBVIOUS
    <2>1. h.method # "HEAD" /\ h.chunking
        BY <1>3 DEF Bare, Flushed
    <2>2. Len(b) > 0
        BY <1>1, <2>1 DEF IsBody
    <2>3. (Len(e) - 1) \in 1..Len(e) /\ ((Len(e) - 1) - Len(w)) \in 1..Len(b)
        BY <1>2, <1>3, <2>2
    <2> QED BY <1>7, <2>1, <2>3
<1>16. e[1].is = "sized" => h.own
    BY <1>3 DEF Flushed
<1>17. Len(e) >= 2
    BY <1>2, <1>3
<1> QED BY <1>2, <1>9, <1>10, <1>11, <1>12, <1>13, <1>14, <1>15, <1>16, <1>17 DEF Whole

\* So is one that leaves at once, with its headers.
LEMMA FirstEndsWhole ==
    ASSUME NEW h, Typed(h), NEW f, FirstIsFramed(h, f, TRUE),
           h.status = 304 => ~h.typed /\ h.buffer = 0,
           Bare(h) \/ h.own \/ h.length = h.buffer,
           NEW e, e = Append(FirstItems(h, f), Item("finish", 0))
    PROVE  e \in Seq(Items) /\ Whole(h, e)
<1> DEFINE w == <<f.head>>
           b == Behind(h, f.body)
<1>1. /\ f.head \in Items /\ f.head.is \in Heads
      /\ f.head.is = "chunked" => IsBody(f.body, TRUE, TRUE)
      /\ f.head.is # "chunked" => IsBody(f.body, FALSE, TRUE)
      /\ f.head.is = "chunked" => h.status # 304
      /\ h.status = 304 => f.body = <<>>
      /\ f.head.is = "sized" /\ h.length = h.buffer => f.body = Data("raw", f.head.n)
    BY DEF FirstIsFramed
<1>2. b \in Seq(Items) /\ w \in Seq(Items) /\ Len(w) = 1 /\ w[1] = f.head
    BY <1>1 DEF IsBody, Behind
<1>3. (Bare(h) => b = <<>>) /\ (h.method # "HEAD" => b = f.body)
    BY <1>1 DEF Bare, Behind
<1>4. e = Append(w \o b, Item("finish", 0))
    BY DEF FirstItems
<1> HIDE DEF w, b
<1>5. /\ e \in Seq(Items) /\ Len(e) = Len(w) + Len(b) + 1
      /\ \A i \in 1..Len(w) : e[i] = w[i]
      /\ \A i \in 1..Len(b) : e[Len(w) + i] = b[i]
      /\ e[Len(e)].is = "finish"
    BY <1>2, <1>4, EndingItems
<1>6. Len(b) \in Nat /\ e[1] = f.head /\ Len(e) = Len(b) + 2
    BY <1>2, <1>5
<1>7. \A i \in 1..Len(e) : i = 1 \/ (i - 1) \in 1..Len(b) \/ i = Len(e)
    BY <1>6
<1>8. ASSUME NEW i \in 1..Len(e), (i - 1) \in 1..Len(b)
      PROVE  /\ ~Bare(h) /\ e[i] = b[i - 1]
             /\ e[1].is = "chunked" => e[i].is = IF i = Len(e) - 1 THEN "last" ELSE "block"
             /\ e[1].is # "chunked" => e[i].is = "raw"
    <2> DEFINE j == i - 1
    <2>1. Len(w) + j = i /\ j \in 1..Len(b) /\ (j = Len(b) <=> i = Len(e) - 1)
        BY <1>2, <1>6, <1>8
    <2>2. ~Bare(h)
        BY <1>3, <2>1
    <2>3. b = f.body
        BY <1>3, <2>2 DEF Bare
    <2> HIDE DEF j
    <2>4. e[i] = b[j]
        BY <1>5, <2>1
    <2>5. e[1].is = "chunked" => e[i].is = IF i = Len(e) - 1 THEN "last" ELSE "block"
        BY <1>1, <1>6, <2>1, <2>3, <2>4 DEF IsBody
    <2>6. e[1].is # "chunked" => e[i].is = "raw"
        BY <1>1, <1>6, <2>1, <2>3, <2>4 DEF IsBody
    <2> QED BY <2>2, <2>4, <2>5, <2>6 DEF j
<1>9. e[1].is \in Heads /\ e[Len(e)].is = "finish"
    BY <1>1, <1>5, <1>6
<1>10. \A i \in 1..Len(e) : e[i].is \in Heads <=> i = 1
    BY <1>6, <1>7, <1>8, <1>9 DEF Heads
<1>11. \A i \in 1..Len(e) : e[i].is = "finish" <=> i = Len(e)
    BY <1>6, <1>7, <1>8, <1>9 DEF Heads
<1>12. \A i \in 1..Len(e) : e[i].is = "last" => i = Len(e) - 1
    BY <1>6, <1>7, <1>8, <1>9 DEF Heads
<1>13. e[1].is = "chunked" => \A i \in 1..Len(e) : e[i].is # "raw"
    BY <1>6, <1>7, <1>8, <1>9 DEF Heads
<1>14. e[1].is # "chunked" => \A i \in 1..Len(e) : e[i].is \notin {"block", "last"}
    BY <1>6, <1>7, <1>8, <1>9 DEF Heads
<1>15. Bare(h) => Len(e) = 2
    BY <1>3, <1>6
<1>16. e[1].is = "chunked" /\ ~Bare(h) => e[Len(e) - 1].is = "last"
    <2> SUFFICES ASSUME e[1].is = "chunked", ~Bare(h) PROVE e[Len(e) - 1].is = "last"
        OBVIOUS
    <2>1. Len(b) > 0
        BY <1>1, <1>3, <1>6 DEF Bare, IsBody
    <2>2. (Len(e) - 1) \in 1..Len(e) /\ ((Len(e) - 1) - 1) \in 1..Len(b)
        BY <1>6, <2>1
    <2> QED BY <1>8, <2>2
<1>17. e[1].is = "sized" /\ ~Bare(h) /\ ~h.own =>
           \/ RawItems(e) = {} /\ e[1].n = 0
           \/ RawItems(e) = {2} /\ e[2].n = e[1].n
    <2> SUFFICES ASSUME e[1].is = "sized", ~Bare(h), ~h.own
                 PROVE  \/ RawItems(e) = {} /\ e[1].n = 0
                        \/ RawItems(e) = {2} /\ e[2].n = e[1].n
        OBVIOUS
    <2> DEFINE n == f.head.n
               item == Item("raw", n)
    <2>1. b = Data("raw", n)
        BY <1>1, <1>3, <1>6 DEF Bare
    <2>2. n \in Nat /\ item \in Items /\ item.n = n
        BY <1>1, ItemIsItem DEF Items
    <2>3. DOMAIN e = 1..Len(e) /\ e[1].is # "raw"
        BY <1>5
    <2>4. CASE n = 0
        <3>1. b = <<>>
            BY <2>1, <2>4 DEF Data
        <3>2. Len(e) = 2
            BY <1>6, <3>1
        <3> QED BY <1>6, <1>9, <2>3, <2>4, <3>2 DEF RawItems
    <2>5. CASE n # 0
        <3>1. b = <<item>>
            BY <2>1, <2>5 DEF Data
        <3>2. Len(b) = 1 /\ b[1] = item
            BY <2>2, <3>1
        <3>3. Len(e) = 3 /\ e[2] = item
            BY <1>2, <1>5, <1>6, <3>2
        <3>4. e[2].is = "raw"
            BY <2>2, <3>3 DEF Item
        <3> QED BY <1>6, <1>9, <2>2, <2>3, <3>3, <3>4 DEF RawItems
    <2> QED BY <2>4, <2>5
<1>18. Len(e) >= 2
    BY <1>6
<1> QED BY <1>5, <1>10, <1>11, <1>12, <1>13, <1>14, <1>15, <1>16, <1>17, <1>18 DEF Whole

LEMMA FinishedIsFramed ==
    ASSUME NEW x, HasResult(x), Typed(x.h), ~x.h.finished,
           x.wire \in Seq(Items),
           IF x.h.headersWritten THEN x.wire # <<>> /\ Flushed(x.h, x.wire)
           ELSE /\ x.wire = <<>>
                /\ x.h.status = 304 => ~x.h.typed /\ x.h.buffer = 0
                /\ Bare(x.h) \/ x.h.own \/ x.h.length = x.h.buffer,
           NEW y \in Finished(x)
    PROVE  FramedResult(y)
<1> DEFINE start == [x EXCEPT !.h.closeCb = FALSE]
           flushed == Flush(start, TRUE)
           z == [flushed EXCEPT !.h.finished = TRUE, !.wire = Append(@, Item("finish", 0))]
           h == start.h
<1>1. y \in {z, Throw(z)}
    BY DEF Finished
<1>2. /\ HasResult(start) /\ Typed(h) /\ ~h.finished /\ start.wire = x.wire
      /\ h.headersWritten = x.h.headersWritten /\ h.flushes = x.h.flushes
      /\ h.method = x.h.method /\ h.status = x.h.status /\ h.chunking = x.h.chunking
      /\ h.own = x.h.own /\ h.length = x.h.length /\ h.buffer = x.h.buffer
      /\ h.typed = x.h.typed
    BY DEF HasResult, Typed, HasFields, Fields
<1>3. /\ HasResult(flushed) /\ Typed(flushed.h) /\ flushed.h.headersWritten
      /\ flushed.h.method = h.method /\ flushed.h.status = h.status
      /\ flushed.h.own = h.own /\ flushed.h.flushes = h.flushes
      /\ Append(flushed.wire, Item("finish", 0)) \in Seq(Items)
      /\ Whole(h, Append(flushed.wire, Item("finish", 0)))
    <2>1. CASE h.headersWritten
        <3> DEFINE b == Added(h, TRUE)
                   w == start.wire
                   e == Append(w \o b, Item("finish", 0))
        <3> HIDE DEF start
        <3>1. /\ HasResult(flushed) /\ flushed.wire = w \o b
              /\ SameFraming(h, flushed.h)
            BY <1>2, <2>1, FlushBehindHeaders
        <3>2. /\ b \in Seq(Items) /\ (h.method = "HEAD" => b = <<>>)
              /\ h.method # "HEAD" => IsBody(b, h.chunking, TRUE)
            BY <1>2, AddedIsBody
        <3>3. w # <<>> /\ Flushed(h, w) /\ w \in Seq(Items)
            BY <1>2, <2>1 DEF Flushed, BodyKinds
        <3> HIDE DEF b, flushed
        <3>4. e \in Seq(Items) /\ Whole(h, e)
            BY <1>2, <3>2, <3>3, FlushedEndsWhole
        <3>5. /\ Typed(flushed.h) /\ flushed.h.headersWritten
              /\ flushed.h.method = h.method /\ flushed.h.status = h.status
              /\ flushed.h.own = h.own
            BY <2>1, <3>1 DEF SameFraming
        <3>6. flushed.h.flushes = h.flushes
            BY <1>2, <2>1 DEF flushed, Flush, HasResult, HasFields, Fields
        <3> QED BY <3>1, <3>4, <3>5, <3>6
    <2>2. CASE ~h.headersWritten
        <3> DEFINE f == FirstChunk(h, TRUE)
                   e == Append(FirstItems(h, f), Item("finish", 0))
        <3> HIDE DEF start, flushed, f
        <3>1. flushed = Flush(start, TRUE) /\ f = FirstChunk(h, TRUE)
            BY DEF flushed, f
        <3>2. start.wire = <<>>
            BY <1>2, <2>2
        <3>3. HasResult(flushed) /\ flushed.h = f.h /\ flushed.wire = FirstItems(h, f)
            <4>1. /\ HasResult(start) /\ Typed(start.h) /\ ~start.h.finished
                  /\ ~start.h.headersWritten
                  /\ flushed = Flush(start, TRUE) /\ f = FirstChunk(start.h, TRUE)
                BY <1>2, <2>2, <3>1
            <4> HIDE DEF h, e, z
            <4>2. StartsAnswer(start, f, flushed)
                BY <3>2, <4>1, FlushWithHeaders
            <4> QED BY <4>2 DEF StartsAnswer, h
        <3>4. FirstIsFramed(h, f, TRUE)
            BY <1>2, <3>1, FirstChunkIsFramed
        <3>5. /\ h.status = 304 => ~h.typed /\ h.buffer = 0
              /\ Bare(h) \/ h.own \/ h.length = h.buffer
            BY <1>2, <2>2 DEF Bare
        <3>6. e \in Seq(Items) /\ Whole(h, e)
            BY <1>2, <3>4, <3>5, FirstEndsWhole
        <3>7. /\ Typed(f.h) /\ f.h.headersWritten /\ f.h.method = h.method
              /\ f.h.status = h.status /\ f.h.own = h.own /\ f.h.flushes = h.flushes
            BY <3>4 DEF FirstIsFramed
        <3> QED BY <3>3, <3>6, <3>7
    <2> QED BY <1>2, <2>1, <2>2 DEF Typed
<1> DEFINE e == Append(flushed.wire, Item("finish", 0))
<1> HIDE DEF start, flushed
<1>4. HasResult(z) /\ z.wire = e /\ z.h = [flushed.h EXCEPT !.finished = TRUE]
    BY <1>3 DEF HasResult, HasFields, Fields
<1>5. /\ Typed(z.h) /\ z.h.headersWritten /\ z.h.finished
      /\ z.h.method = h.method /\ z.h.status = h.status /\ z.h.own = h.own
      /\ z.h.flushes = h.flushes
    <2> DEFINE g == flushed.h
    <2>1. z.h = [g EXCEPT !.finished = TRUE] /\ Typed(g)
        BY <1>3, <1>4
    <2> HIDE DEF g, z
    <2>2. Typed(z.h)
        BY <2>1 DEF Typed, HasFields, Fields
    <2>3. /\ z.h.headersWritten = g.headersWritten /\ z.h.finished /\ z.h.method = g.method
          /\ z.h.status = g.status /\ z.h.own = g.own /\ z.h.flushes = g.flushes
        BY <2>1 DEF Typed, HasFields, Fields
    <2> QED BY <1>3, <2>2, <2>3 DEF g
<1>6. e # <<>>
    BY <1>3 DEF Whole
<1> HIDE DEF z, e
<1>7. Whole(z.h, e)
    BY <1>3, <1>5 DEF Whole, Bare, Early, e
<1>8. Framed(z.h, z.wire)
    BY <1>3, <1>4, <1>5, <1>6, <1>7 DEF Framed, e
<1>9. HasResult(Throw(z)) /\ Throw(z).h = z.h /\ Throw(z).wire = z.wire
    BY <1>4 DEF HasResult, Throw
<1> QED BY <1>1, <1>4, <1>8, <1>9 DEF FramedResult

-----------------------------------------------------------------------------
\* The methods of the handler give the connection a framed answer

\* x with another handler that the framing does not tell from the one it had.
LEMMA SameResult ==
    ASSUME NEW x, FramedResult(x), NEW h, SameFraming(x.h, h),
           NEW y, HasResult(y), y.h = h, y.wire = x.wire
    PROVE  FramedResult(y)
BY SameIsFramed DEF FramedResult

LEMMA ThrowIsFramed ==
    ASSUME NEW x, FramedResult(x)
    PROVE  FramedResult(Throw(x)) /\ FramedResult(Caught(x))
<1>1. /\ HasResult(Throw(x)) /\ Throw(x).h = x.h /\ Throw(x).wire = x.wire
      /\ HasResult(Caught(x)) /\ Caught(x).h = x.h /\ Caught(x).wire = x.wire
    BY DEF FramedResult, HasResult, Throw, Caught
<1> QED BY <1>1 DEF FramedResult

\* Before the headers have left, status, length and headers are free.
LEMMA UnwrittenIsFramed ==
    ASSUME NEW x, FramedResult(x), ~x.h.headersWritten,
           NEW h, Typed(h), ~h.headersWritten, ~h.finished, h.own \/ h.length = NoLength,
           NEW y, HasResult(y), y.h = h, y.wire = x.wire
    PROVE  FramedResult(y)
BY DEF FramedResult, Framed

LEMMA FinishIsFramed ==
    ASSUME NEW x, FramedResult(x), NEW y \in Finish(x)
    PROVE  FramedResult(y)
<1>0. HasResult(x) /\ Framed(x.h, x.wire) /\ Typed(x.h) /\ x.wire \in Seq(Items)
    BY DEF FramedResult, Framed
<1>1. CASE x.h.finished
    BY <1>1, ThrowIsFramed DEF Finish
<1>2. CASE ~x.h.finished /\ x.h.headersWritten
    <2>1. y \in Finished(x)
        BY <1>2 DEF Finish
    <2>2. x.wire # <<>> /\ Flushed(x.h, x.wire)
        BY <1>0, <1>2 DEF Framed
    <2> QED BY <1>0, <1>2, <2>1, <2>2, FinishedIsFramed
<1>3. CASE ~x.h.finished /\ ~x.h.headersWritten
    <2> DEFINE R(h) == IF h.status = 304 /\ h.buffer > 0
                       THEN {Throw([x EXCEPT !.h = h])}
                       ELSE Finished([x EXCEPT !.h = Sized(h)])
    <2>1. y \in UNION {R(h) : h \in WithEtag(x.h)}
        BY <1>3 DEF Finish
    <2> HIDE DEF R
    <2>2. PICK h \in WithEtag(x.h) : y \in R(h)
        BY <2>1
    <2>3. y \in IF h.status = 304 /\ h.buffer > 0 THEN {Throw([x EXCEPT !.h = h])}
                ELSE Finished([x EXCEPT !.h = Sized(h)])
        BY <2>2 DEF R
    <2>4. x.wire = <<>> /\ (x.h.own \/ x.h.length = NoLength)
        BY <1>0, <1>3 DEF Framed
    <2>5. /\ Typed(h) /\ ~h.finished /\ ~h.headersWritten
          /\ h.own = x.h.own /\ h.length = x.h.length
        <3>1. CASE h = x.h
            BY <1>0, <1>3, <3>1
        <3>2. CASE h = [x.h EXCEPT !.etag = TRUE, !.buffer = 0, !.status = 304]
            BY <1>0, <1>3, <3>2 DEF Typed, HasFields, Fields
        <3>3. CASE h = [x.h EXCEPT !.etag = TRUE]
            BY <1>0, <1>3, <3>3 DEF Typed, HasFields, Fields
        <3> QED BY <2>2, <3>1, <3>2, <3>3 DEF WithEtag
    <2>6. CASE y = Throw([x EXCEPT !.h = h])
        <3> DEFINE v == [x EXCEPT !.h = h]
        <3>1. HasResult(v) /\ v.h = h /\ v.wire = x.wire
            BY <1>0, <2>5 DEF HasResult, Typed
        <3> HIDE DEF v
        <3>2. FramedResult(v)
            BY <1>3, <2>4, <2>5, <3>1, UnwrittenIsFramed
        <3> QED BY <2>6, <3>2, ThrowIsFramed DEF v
    <2>7. CASE /\ ~(h.status = 304 /\ h.buffer > 0)
               /\ y \in Finished([x EXCEPT !.h = Sized(h)])
        <3> DEFINE g == Sized(h)
                   v == [x EXCEPT !.h = g]
        <3>1. /\ Typed(g) /\ ~g.finished /\ ~g.headersWritten
              /\ g.status = 304 => ~g.typed /\ g.buffer = 0
              /\ Bare(g) \/ g.own \/ g.length = g.buffer
            <4>1. CASE h.status = 304
                <5>1. g = [h EXCEPT !.length = NoLength, !.typed = FALSE]
                    BY <4>1 DEF Sized
                <5>2. h.buffer = 0
                    BY <2>5, <2>7, <4>1 DEF Typed
                <5> QED BY <2>5, <4>1, <5>1, <5>2 DEF Typed, HasFields, Fields, Bare
            <4>2. CASE h.status # 304 /\ h.length = NoLength
                <5>1. g = [h EXCEPT !.length = h.buffer]
                    BY <4>2 DEF Sized
                <5> QED BY <2>5, <4>2, <5>1 DEF Typed, HasFields, Fields
            <4>3. CASE h.status # 304 /\ h.length # NoLength
                <5>1. g = h
                    BY <4>3 DEF Sized
                <5> QED BY <2>4, <2>5, <4>3, <5>1
            <4> QED BY <4>1, <4>2, <4>3
        <3> HIDE DEF g
        <3>2. HasResult(v) /\ v.h = g /\ v.wire = <<>>
            BY <1>0, <2>4, <3>1 DEF HasResult, Typed
        <3>3. y \in Finished(v)
            BY <2>7 DEF g
        <3> HIDE DEF v
        <3>4. v.wire \in Seq(Items)
            BY <3>2
        <3> QED BY <3>1, <3>2, <3>3, <3>4, FinishedIsFramed
    <2> QED BY <2>3, <2>6, <2>7
<1> QED BY <1>0, <1>1, <1>2, <1>3 DEF Typed

LEMMA PageIsFramed ==
    ASSUME NEW x, FramedResult(x)
    PROVE  FramedResult(Page(x))
<1> DEFINE h == [x.h EXCEPT !.buffer = @ + MinLength]
<1>1. HasResult(x) /\ Typed(x.h)
    BY DEF FramedResult, Framed
<1>2. HasResult(Page(x)) /\ Page(x).h = h /\ Page(x).wire = x.wire
    BY <1>1 DEF Page, HasResult, HasFields, Fields
<1>3. x.h.buffer + MinLength \in Nat
    BY <1>1, HandlerAssumption DEF Typed
<1>4. SameFraming(x.h, h)
    BY <1>1, <1>3 DEF SameFraming, Typed, HasFields, Fields
<1> HIDE DEF h
<1> QED BY <1>2, <1>4, SameResult

LEMMA WriteErrorIsFramed ==
    ASSUME NEW x, FramedResult(x), NEW y \in WriteError(x)
    PROVE  FramedResult(y)
BY PageIsFramed, FinishIsFramed, ThrowIsFramed DEF WriteError

LEMMA SendErrorIsFramed ==
    ASSUME NEW x, FramedResult(x), NEW status, NEW y \in SendError(x, status)
    PROVE  FramedResult(y)
<1>1. CASE x.h.headersWritten
    BY <1>1, FinishIsFramed DEF SendError
<1>2. CASE ~x.h.headersWritten
    <2> DEFINE h == Clear(x.h, status)
               v == [x EXCEPT !.h = Clear(@, status)]
               R(w) == IF w.h.finished THEN {Caught(w)} ELSE Finish(Caught(w))
    <2>1. HasResult(x) /\ Typed(x.h) /\ ~x.h.finished
        BY <1>2 DEF FramedResult, Framed
    <2>2. Typed(h) /\ ~h.headersWritten /\ ~h.finished /\ h.length = NoLength
        BY <1>2, <2>1 DEF Clear, Typed, HasFields, Fields
    <2>3. v.h = h /\ v.wire = x.wire /\ HasResult(v)
        BY <2>1, <2>2 DEF HasResult, Typed
    <2>4. y \in UNION {R(w) : w \in WriteError(v)}
        BY <1>2 DEF SendError
    <2> HIDE DEF h, v, R
    <2>5. FramedResult(v)
        BY <1>2, <2>2, <2>3, UnwrittenIsFramed
    <2>6. PICK w \in WriteError(v) : y \in R(w)
        BY <2>4
    <2>7. FramedResult(Caught(w))
        BY <2>5, WriteErrorIsFramed, ThrowIsFramed
    <2>8. y = Caught(w) \/ y \in Finish(Caught(w))
        BY <2>6 DEF R
    <2> QED BY <2>7, <2>8, FinishIsFramed
<1> QED BY <1>1, <1>2

LEMMA ExceptionIsFramed ==
    ASSUME NEW x, FramedResult(x), NEW y \in HandleRequestException(x)
    PROVE  FramedResult(y)
<1> DEFINE v == [Caught(x) EXCEPT !.h.failed = TRUE]
           h == [x.h EXCEPT !.failed = TRUE]
<1>1. HasResult(x) /\ Typed(x.h)
    BY DEF FramedResult, Framed
<1>2. HasResult(v) /\ v.h = h /\ v.wire = x.wire
    BY <1>1 DEF Caught, HasResult, HasFields, Fields
<1>3. SameFraming(x.h, h)
    BY <1>1 DEF SameFraming, Typed, HasFields, Fields
<1>4. y = v \/ y \in SendError(v, x.thrown)
    BY DEF HandleRequestException
<1> HIDE DEF v, h
<1>5. FramedResult(v)
    BY <1>2, <1>3, SameResult
<1> QED BY <1>4, <1>5, SendErrorIsFramed

LEMMA RedirectIsFramed ==
    ASSUME NEW x, FramedResult(x), NEW y \in Redirect(x)
    PROVE  FramedResult(y)
<1>1. CASE x.h.headersWritten
    BY <1>1, ThrowIsFramed DEF Redirect
<1>2. CASE ~x.h.headersWritten
    <2> DEFINE v == [x EXCEPT !.h.status = 302]
               h == [x.h EXCEPT !.status = 302]
    <2>1. /\ HasResult(x) /\ Typed(x.h) /\ ~x.h.finished
          /\ x.h.own \/ x.h.length = NoLength
        BY <1>2 DEF FramedResult, Framed
    <2>2. HasResult(v) /\ v.h = h /\ v.wire = x.wire
        BY <2>1 DEF HasResult, HasFields, Fields
    <2>3. Typed(h) /\ ~h.headersWritten /\ ~h.finished /\ (h.own \/ h.length = NoLength)
        BY <1>2, <2>1 DEF Typed, HasFields, Fields
    <2>4. y \in Finish(v)
        BY <1>2 DEF Redirect
    <2> HIDE DEF v, h
    <2>5. FramedResult(v)
        BY <1>2, <2>2, <2>3, UnwrittenIsFramed
    <2> QED BY <2>4, <2>5, FinishIsFramed
<1> QED BY <1>1, <1>2

-----------------------------------------------------------------------------
\* Steps

FInv == Framed(handler, wire)

LEMMA ResultFramed ==
    ASSUME NEW x, FramedResult(x), Becomes(x)
    PROVE  FInv'
BY DEF FramedResult, Becomes, FInv

LEMMA EndsFramed ==
    ASSUME NEW x, FramedResult(x), ExecuteEnds(x) \/ CallbackEnds(x)
    PROVE  FInv'
BY ExceptionIsFramed, ResultFramed DEF ExecuteEnds, CallbackEnds

LEMMA CallFramed ==
    ASSUME NEW results, \A x \in results : FramedResult(x), Call(results)
    PROVE  FInv'
BY EndsFramed, ResultFramed DEF Call, Ends

LEMMA CurrentIsFramed ==
    ASSUME FInv
    PROVE  FramedResult(Current) /\ Current.h = handler /\ Current.wire = wire
BY DEF FInv, FramedResult, Framed, Typed, HasResult, Current

LEMMA InitFramed == HandlerInit => FInv
<1> SUFFICES ASSUME HandlerInit PROVE FInv
    OBVIOUS
<1>1. wire = <<>> /\ ~handler.headersWritten /\ ~handler.finished /\ handler.length = NoLength
    BY DEF HandlerInit
<1>2. Typed(handler)
    BY DEF HandlerInit, Typed, HasFields, Fields, NoLength
<1>3. <<>> \in Seq(Items)
    OBVIOUS
<1> QED BY <1>1, <1>2, <1>3 DEF FInv, Framed

LEMMA StepFramed == FInv /\ [HandlerNext]_vars => FInv'
<1> SUFFICES ASSUME FInv, [HandlerNext]_vars PROVE FInv'
    OBVIOUS
<1>0. FramedResult(Current) /\ Current.h = handler /\ Current.wire = wire /\ Typed(handler)
      /\ HasResult(Current)
    BY CurrentIsFramed DEF FInv, Framed, FramedResult
<1>1. CASE UNCHANGED <<handler, wire>>
    BY <1>1 DEF FInv
<1>2. ASSUME NEW h, SameFraming(handler, h), handler' = h, wire' = wire
      PROVE  FInv'
    BY <1>2, SameIsFramed DEF FInv
<1>3. CASE Dispatch
    <2>1. CASE \E status \in {404, 405} : ExecuteEnds([Current EXCEPT !.thrown = status])
        <3>1. PICK status \in {404, 405} : ExecuteEnds([Current EXCEPT !.thrown = status])
            BY <2>1
        <3> DEFINE x == [Current EXCEPT !.thrown = status]
        <3>2. HasResult(x) /\ x.h = Current.h /\ x.wire = Current.wire
            BY <1>0 DEF HasResult
        <3> HIDE DEF x
        <3>3. FramedResult(x)
            BY <1>0, <3>2 DEF FramedResult
        <3> QED BY <3>1, <3>3, EndsFramed DEF x
    <2>2. CASE \E x \in Redirect(Current) : ExecuteEnds(x)
        BY <1>0, <2>2, RedirectIsFramed, EndsFramed
    <2> QED BY <1>1, <1>3, <2>1, <2>2 DEF Dispatch
<1>4. CASE MethodReturns
    <2>1. PICK x \in IF handler.autoFinish /\ ~handler.finished THEN Finish(Current)
                     ELSE {Current} : ExecuteEnds(x)
        BY <1>4 DEF MethodReturns
    <2>2. FramedResult(x)
        BY <1>0, <2>1, FinishIsFramed
    <2> QED BY <2>1, <2>2, EndsFramed
<1>5. CASE CallbackReturns
    BY <1>0, <1>5, EndsFramed DEF CallbackReturns
<1>6. CASE StreamCloses
    <2>1. SameFraming(handler, [handler EXCEPT !.closeCb = FALSE])
        BY <1>0 DEF SameFraming, Typed, HasFields, Fields
    <2> QED BY <1>2, <1>6, <2>1 DEF StreamCloses
<1>7. CASE AppWrite
    <2>1. PICK n \in 1..(MaxBody - handler.written) :
              Call({IF handler.finished THEN Throw(Current)
                    ELSE [Current EXCEPT !.h.buffer = @ + n, !.h.written = @ + n]})
        BY <1>7 DEF AppWrite
    <2> DEFINE x == [Current EXCEPT !.h.buffer = @ + n, !.h.written = @ + n]
               h == [Current.h EXCEPT !.buffer = @ + n, !.written = @ + n]
    <2>2. HasResult(x) /\ x.h = h /\ x.wire = Current.wire
        BY <1>0 DEF HasResult, HasFields, Fields
    <2>3. Current.h.buffer + n \in Nat
        <3>1. n \in 1..(MaxBody - handler.written) => n \in Int /\ n >= 1
            OBVIOUS
        <3> QED BY <1>0, <3>1 DEF Typed
    <2>4. SameFraming(Current.h, h)
        BY <1>0, <2>3 DEF SameFraming, Typed, HasFields, Fields
    <2> HIDE DEF x, h
    <2>5. FramedResult(x)
        BY <1>0, <2>2, <2>4, SameResult
    <2>6. Call({Throw(Current)}) \/ Call({x})
        BY <2>1 DEF x
    <2> QED BY <1>0, <2>5, <2>6, CallFramed, ThrowIsFramed
<1>8. CASE AppFlush
    <2> DEFINE x == [Current EXCEPT !.h.flushes = @ + 1]
               h == [Current.h EXCEPT !.flushes = @ + 1]
    <2>1. HasResult(x) /\ x.h = h /\ x.wire = Current.wire
        BY <1>0 DEF HasResult, HasFields, Fields
    <2>2. SameFraming(Current.h, h) /\ h.flushes > 0
        BY <1>0 DEF SameFraming, Typed, HasFields, Fields
    <2>3. Call({Flush(x, FALSE)})
        BY <1>8 DEF AppFlush
    <2> HIDE DEF x, h
    <2>4. FramedResult(x) /\ x.h.flushes > 0
        BY <1>0, <2>1, <2>2, SameResult
    <2> QED BY <2>3, <2>4, FlushIsFramed, CallFramed
<1>9. CASE AppFinish
    BY <1>0, <1>9, FinishIsFramed, CallFramed DEF AppFinish
<1>10. CASE AppRedirect
    BY <1>0, <1>10, RedirectIsFramed, CallFramed DEF AppRedirect
<1>11. CASE AppSendError
    BY <1>0, <1>11, SendErrorIsFramed, CallFramed DEF AppSendError
<1>12. CASE AppThrow
    <2>1. PICK status \in Codes : Ends([Current EXCEPT !.thrown = status])
        BY <1>12 DEF AppThrow
    <2> DEFINE x == [Current EXCEPT !.thrown = status]
    <2>2. HasResult(x) /\ x.h = Current.h /\ x.wire = Current.wire
        BY <1>0 DEF HasResult
    <2> HIDE DEF x
    <2>3. FramedResult(x)
        BY <1>0, <2>2 DEF FramedResult
    <2> QED BY <2>1, <2>3, EndsFramed DEF x, Ends
<1>13. CASE AppSetStatus
    <2> DEFINE x == [Current EXCEPT !.h.status = 304]
               h == [Current.h EXCEPT !.status = 304]
    <2>1. HasResult(x) /\ x.h = h /\ x.wire = Current.wire
        BY <1>0 DEF HasResult, HasFields, Fields
    <2>2. ~Current.h.headersWritten /\ Call({x})
        BY <1>0, <1>13 DEF AppSetStatus
    <2>3. ~Current.h.finished /\ (Current.h.own \/ Current.h.length = NoLength)
        BY <1>0, <2>2 DEF FramedResult, Framed
    <2>4. Typed(h) /\ ~h.headersWritten /\ ~h.finished /\ (h.own \/ h.length = NoLength)
        BY <1>0, <2>2, <2>3 DEF Typed, HasFields, Fields
    <2> HIDE DEF x, h
    <2>5. FramedResult(x)
        BY <1>0, <2>1, <2>2, <2>4, UnwrittenIsFramed
    <2> QED BY <2>2, <2>5, CallFramed
<1>14. CASE AppSetLength
    <2>1. PICK n \in 0..MaxBody : Call({[Current EXCEPT !.h.length = n, !.h.own = TRUE]})
        BY <1>14 DEF AppSetLength
    <2> DEFINE x == [Current EXCEPT !.h.length = n, !.h.own = TRUE]
               h == [Current.h EXCEPT !.length = n, !.own = TRUE]
    <2>2. HasResult(x) /\ x.h = h /\ x.wire = Current.wire
        BY <1>0 DEF HasResult, HasFields, Fields
    <2>3. ~Current.h.headersWritten /\ Call({x})
        BY <1>0, <1>14, <2>1 DEF AppSetLength
    <2>4. ~Current.h.finished
        BY <1>0, <2>3 DEF FramedResult, Framed
    <2>5. Typed(h) /\ ~h.headersWritten /\ ~h.finished /\ h.own
        BY <1>0, <2>3, <2>4 DEF Typed, HasFields, Fields
    <2> HIDE DEF x, h
    <2>6. FramedResult(x)
        BY <1>0, <2>2, <2>3, <2>5, UnwrittenIsFramed
    <2> QED BY <2>3, <2>6, CallFramed
<1>15. CASE AppAsynchronous
    <2>1. SameFraming(handler, [handler EXCEPT !.autoFinish = FALSE])
        BY <1>0 DEF SameFraming, Typed, HasFields, Fields
    <2> QED BY <1>2, <1>15, <2>1 DEF AppAsynchronous
<1>16. CASE AppPost
    <2>1. SameFraming(handler, [handler EXCEPT !.posts = @ + 1])
        BY <1>0 DEF SameFraming, Typed, HasFields, Fields
    <2> QED BY <1>2, <1>16, <2>1 DEF AppPost
<1>17. CASE PrepareReturns \/ RunCallback \/ UNCHANGED vars
    BY <1>1, <1>17 DEF PrepareReturns, RunCallback, vars
<1> QED BY <1>3, <1>4, <1>5, <1>6, <1>7, <1>8, <1>9, <1>10, <1>11, <1>12, <1>13, <1>14, <1>15,
           <1>16, <1>17 DEF HandlerNext, Framework, App

-----------------------------------------------------------------------------
\* The bytes of the body

\* The sum over no item, and over one.
Sum(w, s) == MapThenSumSet(LAMBDA i : w[i].n, s)

LEMMA SumOfNone ==
    ASSUME NEW w
    PROVE  Sum(w, {}) = 0
<1> DEFINE P(f) == f = [s \in SUBSET {} |-> IF s = {} THEN 0
                          ELSE LET x == CHOOSE x \in s : TRUE IN w[x].n + f[s \ {x}]]
           iter == CHOOSE f : P(f)
           g == [s \in SUBSET {} |-> 0]
<1>1. P(g)
    OBVIOUS
<1>2. P(iter)
    BY <1>1
<1>3. Sum(w, {}) = iter[{}]
    BY DEF Sum, MapThenSumSet, MapThenFoldSet
<1> HIDE DEF iter
<1> QED BY <1>2, <1>3

LEMMA SumOfOne ==
    ASSUME NEW w, NEW j, w[j].n \in Nat
    PROVE  Sum(w, {j}) = w[j].n
<1> DEFINE P(f) == f = [s \in SUBSET {j} |-> IF s = {} THEN 0
                          ELSE LET x == CHOOSE x \in s : TRUE IN w[x].n + f[s \ {x}]]
           iter == CHOOSE f : P(f)
           g == [s \in SUBSET {j} |-> IF s = {} THEN 0 ELSE w[j].n]
<1>1. \A s \in SUBSET {j} : s # {} => s = {j} /\ (CHOOSE x \in s : TRUE) = j /\ s \ {j} = {}
    OBVIOUS
<1>2. P(g)
    <2>1. \A s \in SUBSET {j} : s # {} =>
              (LET x == CHOOSE x \in s : TRUE IN w[x].n + g[s \ {x}]) = w[j].n
        BY <1>1
    <2> QED BY <2>1
<1>3. P(iter)
    BY <1>2
<1>4. Sum(w, {j}) = iter[{j}]
    BY DEF Sum, MapThenSumSet, MapThenFoldSet
<1>5. iter[{}] = 0 /\ iter[{j}] = w[j].n
    <2> HIDE DEF iter
    <2> QED BY <1>1, <1>3
<1> QED BY <1>4, <1>5

LEMMA FramedIsWellFramed == FInv => WellFramed
<1> SUFFICES ASSUME FInv, wire # <<>> PROVE WellFramed
    BY DEF WellFramed
<1>1. /\ Typed(handler) /\ wire \in Seq(Items) /\ handler.headersWritten
      /\ handler.finished \in BOOLEAN /\ DOMAIN wire = 1..Len(wire)
      /\ Len(wire) \in Nat /\ Len(wire) > 0
    BY DEF FInv, Framed, Typed
<1>2. CASE ~handler.finished
    <2>1. Flushed(handler, wire)
        BY <1>1, <1>2 DEF FInv, Framed
    <2>2. ASSUME NEW i \in DOMAIN wire
          PROVE  /\ wire[i].is \in Heads <=> i = 1
                 /\ wire[i].is # "finish" /\ wire[i].is # "last"
                 /\ i # 1 => wire[i].is \in BodyKinds(handler, wire)
        BY <1>1, <2>1 DEF Flushed, BodyKinds, Heads
    <2>3. handler.status = 304 => Early(handler)
        BY <2>1 DEF Flushed, Early
    <2>4. ~Said("finish") /\ ~Said("last")
        BY <2>2 DEF Said
    <2>5. wire[1].is = "chunked" => ~Said("raw")
        BY <2>2 DEF Said, BodyKinds
    <2>6. wire[1].is # "chunked" /\ ~Early(handler) => ~Said("block")
        BY <2>2, <2>3 DEF Said, BodyKinds, Heads
    <2>7. Bare(handler) /\ ~Early(handler) => ~Said("raw") /\ ~Said("block")
        BY <2>2, <2>3 DEF Said, BodyKinds, Heads, Bare
    <2> QED BY <2>2, <2>4, <2>5, <2>6, <2>7 DEF WellFramed, Bare, Early
<1>3. CASE handler.finished
    <2>1. Whole(handler, wire)
        BY <1>3 DEF FInv, Framed
    <2>2. \A i \in DOMAIN wire : wire[i].is \in Heads <=> i = 1
        BY <1>1, <2>1 DEF Whole
    <2>3. \A i \in DOMAIN wire :
              /\ wire[i].is = "finish" => i = Len(wire)
              /\ wire[i].is = "last" => \A j \in (i + 1)..Len(wire) : wire[j].is = "finish"
        <3>1. \A i \in 1..Len(wire) : wire[i].is = "finish" <=> i = Len(wire)
            BY <2>1 DEF Whole
        <3>2. \A i \in 1..Len(wire) : wire[i].is = "last" => i = Len(wire) - 1
            BY <2>1 DEF Whole
        <3>3. \A i \in 1..Len(wire) : i = Len(wire) - 1 =>
                  \A j \in (i + 1)..Len(wire) : j = Len(wire)
            <4>1. \A n \in Nat : \A i \in 1..n : i = n - 1 => \A j \in (i + 1)..n : j = n
                OBVIOUS
            <4> QED BY <1>1, <4>1
        <3>4. Len(wire) \in 1..Len(wire)
            BY <1>1
        <3> QED BY <1>1, <3>1, <3>2, <3>3, <3>4
    <2>4. wire[1].is = "chunked" => ~Said("raw")
        BY <1>1, <2>1 DEF Whole, Said
    <2>5. wire[1].is # "chunked" /\ ~Early(handler) => ~Said("block") /\ ~Said("last")
        BY <1>1, <2>1 DEF Whole, Said
    <2>6. Bare(handler) /\ ~Early(handler) => ~Said("raw") /\ ~Said("block") /\ ~Said("last")
        <3> SUFFICES ASSUME Bare(handler), ~Early(handler), NEW i \in DOMAIN wire
                     PROVE  wire[i].is \notin {"raw", "block", "last"}
            BY DEF Said
        <3>1. Len(wire) = 2
            BY <2>1 DEF Whole
        <3>2. i = 1 \/ i = Len(wire)
            BY <1>1, <3>1
        <3>3. wire[i].is \in Heads \/ wire[i].is = "finish"
            BY <1>1, <2>1, <3>2 DEF Whole
        <3> QED BY <3>3 DEF Heads
    <2>7. wire[1].is = "chunked" /\ ~Bare(handler) => Said("last")
        <3>0. Len(wire) >= 2
            BY <2>1 DEF Whole
        <3>1. (Len(wire) - 1) \in DOMAIN wire
            BY <1>1, <3>0
        <3> QED BY <2>1, <3>1 DEF Whole, Said
    <2>8. wire[1].is = "sized" /\ ~Bare(handler) /\ ~handler.own => RawBytes = wire[1].n
        <3> SUFFICES ASSUME wire[1].is = "sized", ~Bare(handler), ~handler.own
                     PROVE  RawBytes = wire[1].n
            OBVIOUS
        <3>1. RawBytes = Sum(wire, RawItems(wire))
            BY DEF Sum, RawBytes, RawItems
        <3>2. CASE RawItems(wire) = {} /\ wire[1].n = 0
            <4>1. Sum(wire, {}) = 0
                BY SumOfNone
            <4> QED BY <3>1, <3>2, <4>1
        <3>3. CASE RawItems(wire) = {2} /\ wire[2].n = wire[1].n
            <4>1. 2 \in DOMAIN wire
                BY <3>3 DEF RawItems
            <4>2. wire[2].n \in Nat
                <5>1. wire[2] \in Items
                    BY <1>1, <4>1
                <5> QED BY <5>1 DEF Items
            <4>3. Sum(wire, {2}) = wire[2].n
                BY <4>2, SumOfOne
            <4> QED BY <3>1, <3>3, <4>3
        <3> QED BY <2>1, <3>2, <3>3 DEF Whole
    <2> QED BY <2>2, <2>3, <2>4, <2>5, <2>6, <2>7, <2>8 DEF WellFramed, Bare, Early
<1> QED BY <1>1, <1>2, <1>3

\* Whatever the application writes, flushes, sends as an error or throws, the
\* connection is given one answer: headers first and once, a body framed as they say,
\* whose length is the Content-Length that the handler computed, finish last, and no
\* body for HEAD and 304.
THEOREM AnswersAreFramed == HandlerSpec => []WellFramed
BY InitFramed, StepFramed, FramedIsWellFramed, PTL DEF HandlerSpec
=============================================================================
