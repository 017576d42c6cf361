---------------------------- MODULE WebSocketProofs ----------------------------
(***************************************************************************)
(* Proofs that the timeout of a closing handshake never outlives, armed,   *)
(* the protocol object it would call, that a message is given with the     *)
(* data of all its frames, that an open connection is never left unread,   *)
(* and that a WebSocket implements Session, for all bounds and drafts.     *)
(*                                                                         *)
(* The first two use nothing of the stream.  The methods of the protocol,  *)
(* which arm the timeout in close(), never change whether the object is    *)
(* live (Lives), and run on a live one; what frees it, onConnectionClose,  *)
(* aborts before, and abort disarms.  Only onFrameData touches the message *)
(* that is being assembled, and the buffer is empty or holds what its      *)
(* frames brought (Intact), as a frame out of order aborts.                *)
(*                                                                         *)
(* The last two need that a stream answers one read at a time, and that an *)
(* open one answers or keeps every read it was asked for (Keeps, proved    *)
(* per helper of IOStream); a read that an abort would drop is one of a    *)
(* stream that is closed (Sound).  So every callback of a read finds none  *)
(* under way (Ready) and ends the session, throws, or asks for the next    *)
(* (AsksFor); and no second upgrade follows the first (Serving).           *)
(***************************************************************************)
EXTENDS WebSocket, TLAPS

ProtocolFields ==
    {"draft", "live", "clientTerm", "serverTerm", "waiting", "next", "extended", "buffer",
     "bufferOp", "opens", "messages", "closes", "frames", "torn"}

HasProtocol(x) == {"s", "p"} \subseteq DOMAIN x /\ ProtocolFields \subseteq DOMAIN x.p

\* From x a method came to y without freeing or making the object, ...
Stays(x, y) == HasProtocol(y) /\ y.p.live = x.p.live

\* ... and without touching the message that is being assembled.
Lives(x, y) ==
    /\ Stays(x, y)
    /\ y.p.buffer = x.p.buffer /\ y.p.frames = x.p.frames /\ y.p.torn = x.p.torn

\* The buffer of a message that is not complete holds the payload of its frames.
Intact(p) == ~p.torn /\ (p.buffer # {} => p.buffer = p.frames)

\* A callback runs on a live object, and nothing torn.
Working(x) == HasProtocol(x) /\ x.p.live /\ Intact(x.p)

Inv == ProtocolFields \subseteq DOMAIN ws /\ NoStrayWaiting /\ Intact(ws)

-----------------------------------------------------------------------------
\* Methods of the protocol

LEMMA LivesTransitive ==
    ASSUME NEW x, NEW y, NEW z, Lives(x, y), Lives(y, z)
    PROVE  Lives(x, z)
BY DEF Lives, Stays

LEMMA AbortLives ==
    ASSUME NEW x, HasProtocol(x)
    PROVE  Lives(x, Abort(x)) /\ Abort(x).p.waiting # "armed"
<1> DEFINE q == [x.p EXCEPT !.clientTerm = TRUE, !.serverTerm = TRUE]
<1>1. /\ ProtocolFields \subseteq DOMAIN q /\ q.live = x.p.live
      /\ q.buffer = x.p.buffer /\ q.frames = x.p.frames /\ q.torn = x.p.torn
    BY DEF HasProtocol, ProtocolFields
<1>2. Abort(x) = [x EXCEPT !.s = Close(@), !.p = RemoveWaiting(q)]
    BY DEF Abort
<1> HIDE DEF q
<1>3. /\ ProtocolFields \subseteq DOMAIN RemoveWaiting(q)
      /\ RemoveWaiting(q).live = q.live
      /\ RemoveWaiting(q).buffer = q.buffer /\ RemoveWaiting(q).frames = q.frames
      /\ RemoveWaiting(q).torn = q.torn /\ RemoveWaiting(q).waiting # "armed"
    BY <1>1 DEF RemoveWaiting, ProtocolFields
<1> HIDE DEF RemoveWaiting
<1> QED BY <1>1, <1>2, <1>3 DEF HasProtocol, Lives, Stays

LEMMA SentLives ==
    ASSUME NEW x, HasProtocol(x), NEW y \in Sent(x)
    PROVE  Lives(x, y)
<1>1. \E t : y = [x EXCEPT !.s = t]
    BY DEF Sent
<1> QED BY <1>1 DEF HasProtocol, Lives, Stays

LEMMA AwaitCloseLives ==
    ASSUME NEW x, HasProtocol(x)
    PROVE  Lives(x, AwaitClose(x))
<1>1. CASE x.p.clientTerm
    <2>1. AwaitClose(x) = [x EXCEPT !.p = RemoveWaiting(@), !.s = Close(@)]
        BY <1>1 DEF AwaitClose
    <2>2. /\ ProtocolFields \subseteq DOMAIN RemoveWaiting(x.p)
          /\ RemoveWaiting(x.p).live = x.p.live
          /\ RemoveWaiting(x.p).buffer = x.p.buffer /\ RemoveWaiting(x.p).frames = x.p.frames
          /\ RemoveWaiting(x.p).torn = x.p.torn
        BY DEF RemoveWaiting, ProtocolFields, HasProtocol
    <2> QED BY <2>1, <2>2 DEF HasProtocol, Lives, Stays
<1>2. CASE ~x.p.clientTerm
    BY <1>2 DEF AwaitClose, HasProtocol, ProtocolFields, Lives, Stays
<1> QED BY <1>1, <1>2

LEMMA CloseProtocolLives ==
    ASSUME NEW x, HasProtocol(x), NEW z \in CloseProtocol(x)
    PROVE  Lives(x, z)
<1> DEFINE said == IF x.p.serverTerm \/ Closed(x.s) THEN {x} ELSE Sent(x)
<1>1. PICK y \in said : z = AwaitClose([y EXCEPT !.p.serverTerm = TRUE])
    BY DEF CloseProtocol
<1>2. Lives(x, y)
    BY SentLives DEF Lives, Stays
<1> DEFINE w == [y EXCEPT !.p.serverTerm = TRUE]
<1>3. Lives(y, w)
    BY <1>2 DEF Lives, Stays, HasProtocol, ProtocolFields
<1>4. z = AwaitClose(w)
    BY <1>1
<1> HIDE DEF w, said
<1>5. Lives(w, z)
    BY <1>3, <1>4, AwaitCloseLives DEF Lives, Stays
<1> QED BY <1>2, <1>3, <1>5 DEF Lives, Stays

LEMMA WriteMessageLives ==
    ASSUME NEW x, HasProtocol(x), NEW y \in WriteMessage(x)
    PROVE  Lives(x, y)
BY SentLives, AbortLives DEF WriteMessage, Lives, Stays

LEMMA HandlerCallLives ==
    ASSUME NEW x, HasProtocol(x), NEW y \in HandlerCall(x)
    PROVE  Lives(x, y)
BY AbortLives, WriteMessageLives, CloseProtocolLives DEF HandlerCall, Lives, Stays

LEMMA ThrowLives ==
    ASSUME NEW x, HasProtocol(x)
    PROVE  Lives(x, Throw(x))
BY DEF HasProtocol, Lives, Stays, Throw

LEMMA ReadNextLives ==
    ASSUME NEW x, HasProtocol(x), NEW n, NEW next
    PROVE  Lives(x, ReadNext(x, n, next))
<1> DEFINE t == BeginReadBytes(x.s, n)
           y == [x EXCEPT !.s = TryInlineRead(t), !.p.next = next]
<1>1. Lives(x, y)
    BY DEF HasProtocol, ProtocolFields, Lives, Stays
<1>2. ReadNext(x, n, next) \in {y, Throw(y)}
    BY DEF ReadNext
<1> HIDE DEF y
<1> QED BY <1>1, <1>2, ThrowLives DEF Lives, Stays

LEMMA ReadLives ==
    ASSUME NEW x, HasProtocol(x), NEW n, NEW next
    PROVE  Lives(x, Read(x, n, next))
<1> DEFINE y == ReadNext(x, n, next)
           z == [y EXCEPT !.thrown = FALSE]
<1>1. Lives(x, y)
    BY ReadNextLives
<1>2. Read(x, n, next) \in {y, Abort(z)}
    BY DEF Read
<1> HIDE DEF y
<1>3. Lives(y, z)
    BY <1>1 DEF Lives, Stays, HasProtocol
<1> HIDE DEF z
<1> QED BY <1>1, <1>2, <1>3, AbortLives DEF Lives, Stays

LEMMA ReceiveFrameLives ==
    ASSUME NEW x, HasProtocol(x)
    PROVE  Lives(x, ReceiveFrame(x))
<1> DEFINE y == [x EXCEPT !.p.extended = FALSE]
<1>1. Lives(x, y)
    BY DEF HasProtocol, ProtocolFields, Lives, Stays
<1>2. ReceiveFrame(x) = Read(y, FieldSize, "start")
    BY DEF ReceiveFrame
<1> HIDE DEF y
<1> QED BY <1>1, <1>2, ReadLives DEF Lives, Stays

\* A message is delivered whole if its data is that of its frames.
LEMMA DeliverIntact ==
    ASSUME NEW x, HasProtocol(x), NEW data, NEW y \in Deliver(x, data),
           ~x.p.torn, x.p.buffer = {}, data = x.p.frames
    PROVE  Stays(x, y) /\ Intact(y.p)
<1> DEFINE w == [x EXCEPT !.p.messages = @ + 1, !.p.torn = @ \/ data # x.p.frames,
                          !.p.frames = {}]
<1>1. Stays(x, w) /\ ~w.p.torn /\ w.p.buffer = {}
    BY DEF HasProtocol, ProtocolFields, Stays
<1>2. y \in HandlerCall(w)
    BY DEF Deliver
<1> HIDE DEF w
<1> QED BY <1>1, <1>2, HandlerCallLives DEF Lives, Stays, Intact

LEMMA HandleMessageIntact ==
    ASSUME NEW x, HasProtocol(x), NEW op, NEW data, NEW y \in HandleMessage(x, op, data),
           Intact(x.p), op = "data" => x.p.buffer = {} /\ data = x.p.frames
    PROVE  Stays(x, y) /\ Intact(y.p)
<1> DEFINE w == [x EXCEPT !.p.clientTerm = TRUE]
<1>1. Lives(x, w)
    BY DEF HasProtocol, ProtocolFields, Lives, Stays
<1>2. \/ y = x \/ (op = "data" /\ y \in Deliver(x, data)) \/ y \in CloseProtocol(w)
      \/ y = Throw(x) \/ y \in Sent(x) \/ y \in HandlerCall(x) \/ y = Abort(x)
    <2>1. CASE x.p.clientTerm
        BY <2>1 DEF HandleMessage
    <2>2. CASE op = "data" /\ ~x.p.clientTerm
        BY <2>2 DEF HandleMessage
    <2>3. CASE op # "data" /\ ~x.p.clientTerm
        BY <2>3 DEF HandleMessage
    <2> QED BY <2>1, <2>2, <2>3
<1> HIDE DEF w
<1>3. CASE op = "data" /\ y \in Deliver(x, data)
    BY <1>3, DeliverIntact DEF Intact
<1>4. CASE y \in CloseProtocol(w)
    BY <1>1, <1>4, CloseProtocolLives DEF Lives, Stays, Intact
<1>5. ASSUME Lives(x, y)
      PROVE  Stays(x, y) /\ Intact(y.p)
    BY <1>5 DEF Lives, Intact
<1>6. Lives(x, x)
    BY DEF Lives, Stays
<1> QED BY <1>2, <1>3, <1>4, <1>5, <1>6, ThrowLives, SentLives, HandlerCallLives, AbortLives

LEMMA ContinueLives ==
    ASSUME NEW x, HasProtocol(x), NEW fin
    PROVE  Lives(x, Continue(x, fin))
BY ReceiveFrameLives DEF Continue, Lives, Stays

\* A frame that is in order is added to what its message has, and the data of a
\* message that it completes is that of the frames.
LEMMA AssembleIntact ==
    ASSUME NEW x, HasProtocol(x), NEW fin \in BOOLEAN, NEW op, NEW data,
           Intact(x.p), InOrder(x.p, fin, op),
           NEW a, a = Assemble(x, fin, op, data)
    PROVE  /\ Stays(x, a.x) /\ Intact(a.x.p)
           /\ fin /\ a.op = "data" => a.x.p.buffer = {} /\ a.data = a.x.p.frames
<1> DEFINE all == IF op = "more" THEN x.p.buffer \cup data ELSE data
           frames == IF op = "more" THEN x.p.frames \cup data ELSE data
           y == [x EXCEPT !.p.frames = frames,
                          !.p.buffer = IF fin THEN {} ELSE all,
                          !.p.bufferOp = IF op = "more" THEN @ ELSE op]
<1>1. CASE op \in Controls
    <2>1. a.x = x /\ a.op = op
        BY <1>1 DEF Assemble, Controls
    <2> QED BY <1>1, <2>1 DEF Stays, Controls
<1>2. CASE op \notin Controls
    <2>1. a.x = y /\ a.data = all
        BY <1>2 DEF Assemble
    <2>2. /\ Stays(x, y) /\ y.p.torn = x.p.torn /\ y.p.frames = frames
          /\ y.p.buffer = IF fin THEN {} ELSE all
        BY DEF Stays, HasProtocol, ProtocolFields
    <2>3. op = "more" => x.p.buffer = x.p.frames
        BY DEF InOrder, Intact, Controls
    <2>4. all = frames
        BY <2>3
    <2> HIDE DEF y, all, frames
    <2> QED BY <2>1, <2>2, <2>4 DEF Intact
<1> QED BY <1>1, <1>2

LEMMA FrameDataIntact ==
    ASSUME NEW x, HasProtocol(x), NEW fin \in BOOLEAN, NEW op, NEW data,
           NEW z \in FrameData(x, fin, op, data), Intact(x.p)
    PROVE  Stays(x, z) /\ Intact(z.p)
<1>1. CASE z = Abort(x)
    BY <1>1, AbortLives DEF Lives, Intact
<1>2. CASE InOrder(x.p, fin, op) /\ z # Abort(x)
    <2> DEFINE a == Assemble(x, fin, op, data)
               results == IF fin THEN HandleMessage(a.x, a.op, a.data) ELSE {a.x}
    <2>1. PICK y \in results : z = Continue(y, fin)
        BY <1>2 DEF FrameData
    <2>2. /\ Stays(x, a.x) /\ Intact(a.x.p)
          /\ fin /\ a.op = "data" => a.x.p.buffer = {} /\ a.data = a.x.p.frames
        BY <1>2, AssembleIntact
    <2> HIDE DEF a
    <2>3. Stays(x, y) /\ Intact(y.p)
        BY <2>2, HandleMessageIntact DEF Stays
    <2> QED BY <2>1, <2>3, ContinueLives DEF Lives, Stays, Intact
<1> QED BY <1>1, <1>2 DEF FrameData

LEMMA OpenedLives ==
    ASSUME NEW x, HasProtocol(x), NEW z \in Opened(x)
    PROVE  Lives(x, z)
<1>1. PICK y \in Sent(x) : z \in HandlerCall([y EXCEPT !.p.opens = @ + 1])
    BY DEF Opened
<1> DEFINE w == [y EXCEPT !.p.opens = @ + 1]
<1>2. Lives(x, y)
    BY SentLives
<1>3. Lives(y, w)
    BY <1>2 DEF HasProtocol, ProtocolFields, Lives, Stays
<1>4. z \in HandlerCall(w)
    BY <1>1
<1> HIDE DEF w
<1> QED BY <1>2, <1>3, <1>4, HandlerCallLives DEF Lives, Stays

-----------------------------------------------------------------------------
\* Steps

LEMMA CurrentHasProtocol ==
    ASSUME Inv
    PROVE  HasProtocol(Current) /\ Current.p = ws
BY DEF Inv, HasProtocol, Current

LEMMA LivesWorking ==
    ASSUME NEW x, NEW y, Working(x), Lives(x, y)
    PROVE  Working(y)
BY DEF Working, Lives, Stays, Intact

\* A callback that ends with a live object leaves nothing stray.
LEMMA EndsLive ==
    ASSUME NEW x, Working(x), CallbackEnds(x)
    PROVE  Inv'
BY DEF Working, CallbackEnds, Inv, NoStrayWaiting, Intact, HasProtocol

\* One that ends with the protocol it began with does not either.
LEMMA EndsSame ==
    ASSUME Inv, NEW x, x.p = ws, CallbackEnds(x)
    PROVE  Inv'
BY DEF CallbackEnds, Inv, NoStrayWaiting, Intact

\* The initial states.
LEMMA InitInv == WebSocketInit => Inv
BY DEF WebSocketInit, Inv, NoStrayWaiting, Intact, ProtocolFields

\* The upgrade makes the object.
LEMMA UpgradeInv ==
    ASSUME Inv, RunUpgrade
    PROVE  Inv'
<1> DEFINE x == Current
           y == [x EXCEPT !.p.live = TRUE]
<1>1. HasProtocol(x) /\ x.p = ws
    BY CurrentHasProtocol
<1>2. \/ CallbackEnds(Abort(y))
      \/ CallbackEnds(Throw(y))
      \/ CallbackEnds(Throw(x))
      \/ \E z \in Sent(x) : CallbackEnds([z EXCEPT !.s = Close(@)])
      \/ \E z \in Opened(y) : CallbackEnds(ReceiveFrame(z))
      \/ \E z \in Sent(y) : CallbackEnds(ReadNext(z, FieldSize, "challenge"))
    BY DEF RunUpgrade
<1> HIDE DEF x
<1>3. Working(y)
    BY <1>1 DEF Inv, Working, Intact, HasProtocol, ProtocolFields
<1> HIDE DEF y
<1>4. CASE CallbackEnds(Abort(y))
    BY <1>3, <1>4, AbortLives, LivesWorking, EndsLive DEF Working
<1>5. CASE CallbackEnds(Throw(y))
    BY <1>3, <1>5, ThrowLives, LivesWorking, EndsLive DEF Working
<1>6. CASE CallbackEnds(Throw(x))
    <2>1. Throw(x).p = ws
        BY <1>1 DEF Throw, HasProtocol
    <2> QED BY <1>6, <2>1, EndsSame
<1>7. CASE \E z \in Sent(x) : CallbackEnds([z EXCEPT !.s = Close(@)])
    <2>1. PICK z \in Sent(x) : CallbackEnds([z EXCEPT !.s = Close(@)])
        BY <1>7
    <2>2. PICK t : z = [x EXCEPT !.s = t]
        BY DEF Sent
    <2>3. [z EXCEPT !.s = Close(@)].p = ws
        BY <1>1, <2>2 DEF HasProtocol
    <2> QED BY <2>1, <2>3, EndsSame
<1>8. CASE \E z \in Opened(y) : CallbackEnds(ReceiveFrame(z))
    BY <1>3, <1>8, OpenedLives, ReceiveFrameLives, LivesWorking, EndsLive DEF Working
<1>9. CASE \E z \in Sent(y) : CallbackEnds(ReadNext(z, FieldSize, "challenge"))
    BY <1>3, <1>9, SentLives, ReadNextLives, LivesWorking, EndsLive DEF Working
<1> QED BY <1>2, <1>4, <1>5, <1>6, <1>7, <1>8, <1>9

\* The handlers of frames run on a live object.
LEMMA FramesInv ==
    ASSUME Inv,
           RunFrameStart \/ RunFrameLength \/ RunMaskingKey \/ RunFrameData
    PROVE  Inv'
<1>1. Working(Current)
    BY CurrentHasProtocol
       DEF Inv, Working, RunFrameStart, RunFrameLength, RunMaskingKey, RunFrameData, Reads
<1>2. CASE RunFrameStart
    <2> DEFINE y == [Current EXCEPT !.p.extended = TRUE]
    <2>1. Working(y)
        BY <1>1 DEF Working, Intact, HasProtocol, ProtocolFields
    <2>2. \/ CallbackEnds(Abort(Current))
          \/ CallbackEnds(Read(y, FieldSize, "length"))
          \/ CallbackEnds(Read(Current, FieldSize, "key"))
          \/ \E n \in 0..MaxPayload : CallbackEnds(Read(Current, n, "payload"))
        BY <1>2 DEF RunFrameStart
    <2> HIDE DEF y
    <2> QED BY <1>1, <2>1, <2>2, AbortLives, ReadLives, LivesWorking, EndsLive DEF Working
<1>3. CASE RunFrameLength
    BY <1>1, <1>3, ReadLives, LivesWorking, EndsLive DEF RunFrameLength, Working
<1>4. CASE RunMaskingKey
    BY <1>1, <1>4, ReadLives, LivesWorking, EndsLive DEF RunMaskingKey, Working
<1>5. CASE RunFrameData
    <2>1. PICK fin \in BOOLEAN : \E op, data :
              \E x \in FrameData(Current, fin, op, data) : CallbackEnds(x)
        BY <1>5 DEF RunFrameData
    <2> QED BY <1>1, <2>1, FrameDataIntact, EndsLive DEF Stays, Working
<1> QED BY <1>2, <1>3, <1>4, <1>5

\* So do those of draft 76.
LEMMA Draft76Inv ==
    ASSUME Inv, RunChallenge \/ RunFrameType \/ RunLengthIndicator
    PROVE  Inv'
<1>1. Working(Current)
    BY CurrentHasProtocol DEF Inv, Working, RunChallenge, RunFrameType, RunLengthIndicator, Reads
<1>2. CASE RunChallenge
    <2>1. CASE CallbackEnds(Abort(Current))
        BY <1>1, <2>1, AbortLives, LivesWorking, EndsLive DEF Working
    <2>2. CASE CallbackEnds(Throw(Current))
        BY <1>1, <2>2, ThrowLives, LivesWorking, EndsLive DEF Working
    <2>3. CASE \E x \in Opened(Current) : CallbackEnds(ReadNext(x, FieldSize, "type"))
        BY <1>1, <2>3, OpenedLives, ReadNextLives, LivesWorking, EndsLive DEF Working
    <2> QED BY <1>2, <2>1, <2>2, <2>3 DEF RunChallenge
<1>3. CASE RunFrameType
    BY <1>1, <1>3, AbortLives, ThrowLives, ReadNextLives, LivesWorking, EndsLive DEF RunFrameType, Working
<1>4. CASE RunLengthIndicator
    <2> DEFINE y == [Current EXCEPT !.p.clientTerm = TRUE]
    <2>1. Working(y)
        BY <1>1 DEF Working, Intact, HasProtocol, ProtocolFields
    <2>2. CallbackEnds(Abort(Current)) \/ \E x \in CloseProtocol(y) : CallbackEnds(x)
        BY <1>4 DEF RunLengthIndicator
    <2> HIDE DEF y
    <2> QED BY <1>1, <2>1, <2>2, AbortLives, CloseProtocolLives, LivesWorking, EndsLive DEF Working
<1> QED BY <1>2, <1>3, <1>4

\* Every step, one case for each action.
LEMMA StepInv == Inv /\ [WebSocketNext]_wsVars => Inv'
<1> SUFFICES ASSUME Inv, [WebSocketNext]_wsVars PROVE Inv'
    OBVIOUS
<1>0. HasProtocol(Current) /\ Current.p = ws
    BY CurrentHasProtocol
<1>1. CASE UNCHANGED ws
    BY <1>1 DEF Inv, NoStrayWaiting
<1>2. CASE ExpireWaiting
    BY <1>2 DEF ExpireWaiting, Inv, Intact, NoStrayWaiting, ProtocolFields
<1>3. CASE RunRead
    BY <1>3, UpgradeInv, FramesInv, Draft76Inv DEF RunRead
<1>4. CASE RunClose
    <2> DEFINE x == Abort(Current)
    <2>1. HasProtocol(x) /\ x.p.waiting # "armed" /\ Intact(x.p)
        BY <1>0, AbortLives DEF Lives, Stays, Inv, Intact
    <2>2. CallbackEnds(IF ws.live THEN [x EXCEPT !.p = Dropped(@)] ELSE Current)
        BY <1>4 DEF RunClose
    <2> HIDE DEF x
    <2>3. CASE ws.live
        <3> DEFINE d == Dropped(x.p)
        <3>1. ProtocolFields \subseteq DOMAIN d /\ d.waiting # "armed" /\ Intact(d)
            BY <2>1 DEF Intact, HasProtocol, ProtocolFields, Dropped
        <3>2. ws' = [x EXCEPT !.p = d].p
            BY <2>2, <2>3 DEF CallbackEnds
        <3> HIDE DEF d
        <3>3. ws' = d
            BY <2>1, <3>2 DEF HasProtocol
        <3> QED BY <3>1, <3>3 DEF Inv, NoStrayWaiting
    <2>4. CASE ~ws.live
        BY <1>0, <2>2, <2>4, EndsSame
    <2> QED BY <2>3, <2>4
<1>5. CASE RunEmpty
    <2>1. CallbackEnds([Current EXCEPT !.thrown = TRUE])
        BY <1>5 DEF RunEmpty
    <2>2. [Current EXCEPT !.thrown = TRUE].p = ws
        BY <1>0 DEF HasProtocol
    <2> QED BY <2>1, <2>2, EndsSame
<1>6. CASE RunWaiting
    <2> DEFINE x == [s |-> Taken, p |-> [ws EXCEPT !.waiting = "off"], thrown |-> FALSE]
               y == IF ws.live THEN Abort(x) ELSE [x EXCEPT !.s.undefined = TRUE]
    <2>1. HasProtocol(x) /\ x.p.waiting = "off" /\ Intact(x.p)
        BY DEF Inv, Intact, HasProtocol, ProtocolFields
    <2>2. ws' = y.p
        BY <1>6 DEF RunWaiting
    <2> HIDE DEF x
    <2>3. HasProtocol(y) /\ y.p.waiting # "armed" /\ Intact(y.p)
        BY <2>1, AbortLives DEF HasProtocol, Lives, Stays, Intact
    <2> HIDE DEF y
    <2> QED BY <2>2, <2>3 DEF Inv, NoStrayWaiting, HasProtocol
<1>7. CASE AppMessage
    <2> DEFINE x == [s |-> [stream EXCEPT !.writes = @ + 1], p |-> ws]
    <2>1. ws.live /\ \E y \in WriteMessage(x) : ws' = y.p
        BY <1>7 DEF AppMessage, AppCall
    <2>2. HasProtocol(x) /\ x.p = ws
        BY DEF Inv, HasProtocol
    <2> HIDE DEF x
    <2> QED BY <2>1, <2>2, WriteMessageLives
            DEF Lives, Stays, Inv, Intact, NoStrayWaiting, HasProtocol
<1>8. CASE AppClose
    <2> DEFINE x == [s |-> stream, p |-> ws]
    <2>1. ws.live /\ \E y \in CloseProtocol(x) : ws' = y.p
        BY <1>8 DEF AppClose, AppCall
    <2>2. HasProtocol(x) /\ x.p = ws
        BY DEF Inv, HasProtocol
    <2> HIDE DEF x
    <2> QED BY <2>1, <2>2, CloseProtocolLives DEF Lives, Stays, Inv, Intact, NoStrayWaiting,
               HasProtocol
<1>9. WebSocketNext \/ UNCHANGED wsVars =>
          \/ UNCHANGED ws \/ ExpireWaiting \/ RunRead \/ RunClose \/ RunEmpty
          \/ RunWaiting \/ AppMessage \/ AppClose
    BY DEF WebSocketNext, WebSocketStep, WebSocketComplete, AcceptSocket, RunReadFreed,
           RunCompletion, wsVars
<1> QED BY <1>1, <1>2, <1>3, <1>4, <1>5, <1>6, <1>7, <1>8, <1>9

\* A protocol object that is gone has no timeout armed that would call it, whatever
\* frames, closes, aborts and failures came before.
THEOREM NoWaitingOutlives == WebSocketSpec => []NoStrayWaiting
<1>1. Inv => NoStrayWaiting
    BY DEF Inv
<1> QED BY <1>1, InitInv, StepInv, PTL DEF WebSocketSpec

\* A message that the application gets is the payload of its frames, from the first
\* fragment to the last, whatever control frames, empty frames, aborts and closes
\* come between them.
THEOREM MessagesAreWhole == WebSocketSpec => []MessagesWhole
<1>1. Inv => MessagesWhole
    BY DEF Inv, Intact, MessagesWhole
<1> QED BY <1>1, InitInv, StepInv, PTL DEF WebSocketSpec

-----------------------------------------------------------------------------
\* What a stream keeps, whatever helper of IOStream is applied to it.  The queue
\* holds the handlers of the timeout as well, which are no callbacks.

OneKind(h) == "timer" \in DOMAIN h => "run" \notin DOMAIN h

IsFifo(q) == \E T : q \in Seq(T) /\ \A h \in T : OneKind(h)

\* A posted callback that answers a read, ...
AnswersRead(h) == "run" \in DOMAIN h /\ h.run = "read"

\* ... and a completion that an open stream can have in its queue.
Regular(h) ==
    "op" \in DOMAIN h => h.res \in {"ok", "error"} \/ (h.res = "overflow" /\ h.op = "read")

ReadsIn(q) == {i \in DOMAIN q : AnswersRead(q[i])}
AllRegular(q) == \A i \in DOMAIN q : Regular(q[i])

ReadFields == {"readCb", "opened", "closing", "closed", "queue", "reads"}

HasStream(s) ==
    /\ ReadFields \subseteq DOMAIN s
    /\ s.reads \in Nat /\ IsFifo(s.queue)

\* No read is called or waits to be answered, ...
NoRead(s) == s.readCb = 0 /\ ReadsIn(s.queue) = {}

\* ... one is at most, ...
OneRead(s) ==
    /\ s.readCb # 0 => ReadsIn(s.queue) = {}
    /\ \A i, j \in ReadsIn(s.queue) : i = j

\* ... or one is, if the stream is open.
HasRead(s) == Closed(s) \/ s.readCb # 0 \/ ReadsIn(s.queue) # {}

Sound(s) == Closed(s) \/ AllRegular(s.queue)

\* What every step of a stream keeps, ...
Calm(s, r) ==
    /\ HasStream(r) /\ r.opened = s.opened /\ (Closed(s) => Closed(r))
    /\ NoRead(s) => NoRead(r)
    /\ OneRead(s) => OneRead(r)

\* ... unless it takes up an operation that the reactor has aborted.
Keeps(s, r) ==
    /\ Calm(s, r)
    /\ Sound(s) => Sound(r)
    /\ HasRead(s) => HasRead(r)

\* The helpers that do not touch the read nor whether the stream is open, ...
Quiet(s, r) ==
    /\ HasStream(r) /\ r.opened = s.opened /\ r.closing = s.closing /\ r.closed = s.closed
    /\ r.readCb = s.readCb /\ ReadsIn(r.queue) = ReadsIn(s.queue)

Same(s, r) == Quiet(s, r) /\ (AllRegular(s.queue) => AllRegular(r.queue))

\* ... and those that answer the read.
Answers(s, r) ==
    /\ HasStream(r) /\ r.opened = s.opened /\ r.closing = s.closing /\ r.closed = s.closed
    /\ r.readCb = 0
    /\ s.readCb = 0 => ReadsIn(r.queue) = ReadsIn(s.queue)
    /\ s.readCb # 0 => \E i : ReadsIn(r.queue) = ReadsIn(s.queue) \cup {i}
    /\ AllRegular(s.queue) => AllRegular(r.queue)

LEMMA KeepsTransitive ==
    ASSUME NEW s, NEW t, NEW r, Keeps(s, t), Keeps(t, r)
    PROVE  Keeps(s, r)
BY DEF Keeps, Calm

LEMMA KeepsReflexive ==
    ASSUME NEW s, HasStream(s)
    PROVE  Keeps(s, s)
BY DEF Keeps, Calm

LEMMA SameKeeps ==
    ASSUME NEW s, NEW r, Same(s, r)
    PROVE  Keeps(s, r)
BY DEF Keeps, Calm, Same, Quiet, Closed, NoRead, OneRead, HasRead, Sound

LEMMA AnswersKeeps ==
    ASSUME NEW s, NEW r, Answers(s, r)
    PROVE  Keeps(s, r)
<1>1. CASE s.readCb = 0
  BY <1>1 DEF Keeps, Calm, Answers, Closed, NoRead, OneRead, HasRead, Sound
<1>2. CASE s.readCb # 0
  <2>1. PICK i : ReadsIn(r.queue) = ReadsIn(s.queue) \cup {i}
    BY <1>2 DEF Answers
  <2>2. OneRead(s) => ReadsIn(r.queue) = {i}
    BY <1>2, <2>1 DEF OneRead
  <2> QED BY <1>2, <2>1, <2>2 DEF Keeps, Calm, Answers, Closed, NoRead, OneRead, HasRead, Sound
<1> QED BY <1>1, <1>2

\* A stream that is closed has nothing more to keep.
LEMMA ClosedKeeps ==
    ASSUME NEW s, NEW r, Calm(s, r), Closed(r)
    PROVE  Keeps(s, r)
BY DEF Keeps, Sound, HasRead

LEMMA CalmTransitive ==
    ASSUME NEW s, NEW t, NEW r, Calm(s, t), Calm(t, r)
    PROVE  Calm(s, r)
BY DEF Calm

LEMMA SameTransitive ==
    ASSUME NEW s, NEW t, NEW r, Same(s, t)
    PROVE  /\ Same(t, r) => Same(s, r)
           /\ Answers(t, r) => Answers(s, r)
BY DEF Same, Quiet, Answers

-----------------------------------------------------------------------------
\* The queue

LEMMA AppendToFifo ==
    ASSUME NEW q, IsFifo(q), NEW h, OneKind(h)
    PROVE  /\ IsFifo(Append(q, h))
           /\ ~AnswersRead(h) => ReadsIn(Append(q, h)) = ReadsIn(q)
           /\ AnswersRead(h) => \E i : ReadsIn(Append(q, h)) = ReadsIn(q) \cup {i}
           /\ AllRegular(q) /\ Regular(h) => AllRegular(Append(q, h))
<1>1. PICK T : q \in Seq(T) /\ \A g \in T : OneKind(g)
  BY DEF IsFifo
<1>2. q \in Seq(T \cup {h}) /\ Append(q, h) \in Seq(T \cup {h})
  BY <1>1
<1>3. /\ DOMAIN Append(q, h) = DOMAIN q \cup {Len(q) + 1} /\ Len(q) + 1 \notin DOMAIN q
      /\ \A i \in DOMAIN q : Append(q, h)[i] = q[i]
      /\ Append(q, h)[Len(q) + 1] = h
  BY <1>1
<1>4. IsFifo(Append(q, h))
  BY <1>1, <1>2 DEF IsFifo
<1> DEFINE r == Append(q, h)
           k == Len(q) + 1
<1> HIDE DEF r, k
<1>5. /\ DOMAIN r = DOMAIN q \cup {k} /\ k \notin DOMAIN q
      /\ \A i \in DOMAIN q : r[i] = q[i]
      /\ r[k] = h
  BY <1>3 DEF r, k
<1>6. ~AnswersRead(h) => ReadsIn(r) = ReadsIn(q)
  BY <1>5 DEF ReadsIn
<1>7. AnswersRead(h) => ReadsIn(r) = ReadsIn(q) \cup {k}
  BY <1>5 DEF ReadsIn
<1>8. AllRegular(q) /\ Regular(h) => AllRegular(r)
  BY <1>5 DEF AllRegular
<1> QED BY <1>4, <1>6, <1>7, <1>8 DEF r

\* Taking the next handler takes the answer of a read only if it is one.
LEMMA TailOfFifo ==
    ASSUME NEW q, IsFifo(q), q # <<>>
    PROVE  /\ IsFifo(Tail(q)) /\ OneKind(Head(q))
           /\ AllRegular(q) => AllRegular(Tail(q)) /\ Regular(Head(q))
           /\ ReadsIn(q) = {} => ReadsIn(Tail(q)) = {}
           /\ AnswersRead(Head(q)) /\ (\A i, j \in ReadsIn(q) : i = j) =>
                ReadsIn(q) # {} /\ ReadsIn(Tail(q)) = {}
           /\ ~AnswersRead(Head(q)) /\ ReadsIn(q) # {} => ReadsIn(Tail(q)) # {}
           /\ (\A i, j \in ReadsIn(q) : i = j) => \A i, j \in ReadsIn(Tail(q)) : i = j
<1>1. PICK T : q \in Seq(T) /\ \A h \in T : OneKind(h)
  BY DEF IsFifo
<1>2. /\ Len(q) \in Nat \ {0} /\ DOMAIN q = 1..Len(q) /\ Head(q) = q[1]
      /\ Tail(q) \in Seq(T) /\ DOMAIN Tail(q) = 1..(Len(q) - 1)
      /\ \A i \in 1..(Len(q) - 1) : Tail(q)[i] = q[i + 1]
  BY <1>1
<1> DEFINE t == Tail(q)
           n == Len(q)
<1>3. IsFifo(t) /\ OneKind(Head(q))
  BY <1>1, <1>2 DEF IsFifo
<1> HIDE DEF t, n
<1>4. /\ n \in Nat \ {0} /\ DOMAIN q = 1..n /\ DOMAIN t = 1..(n - 1)
      /\ \A i \in 1..(n - 1) : t[i] = q[i + 1]
  BY <1>2 DEF t, n
<1>5. \A i \in 1..(n - 1) : i + 1 \in 1..n
  BY <1>4
<1>6. \A i \in ReadsIn(t) : i \in 1..(n - 1) /\ i + 1 \in ReadsIn(q)
  BY <1>4, <1>5 DEF ReadsIn
<1>7. \A i \in ReadsIn(q) : i \in 1..n /\ (i = 1 \/ (i - 1 \in ReadsIn(t)))
  <2> TAKE i \in ReadsIn(q)
  <2>1. i \in 1..n
    BY <1>4 DEF ReadsIn
  <2>2. CASE i # 1
    <3>1. i - 1 \in 1..(n - 1) /\ (i - 1) + 1 = i
      BY <1>4, <2>1, <2>2
    <3>2. t[i - 1] = q[i]
      BY <1>4, <3>1
    <3> QED BY <1>4, <2>1, <3>1, <3>2 DEF ReadsIn
  <2> QED BY <2>1, <2>2
<1>8. 1 \in DOMAIN q /\ (1 \in ReadsIn(q) <=> AnswersRead(Head(q)))
  BY <1>2, <1>4 DEF ReadsIn
<1>9. AllRegular(q) => AllRegular(t) /\ Regular(Head(q))
  BY <1>2, <1>4, <1>5, <1>8 DEF AllRegular
<1>10. ReadsIn(q) = {} => ReadsIn(t) = {}
  BY <1>6
<1>11. ASSUME \A i, j \in ReadsIn(q) : i = j, 1 \in ReadsIn(q)
       PROVE  ReadsIn(t) = {}
  <2>1. \A i \in ReadsIn(t) : i + 1 = 1
    BY <1>6, <1>11
  <2> QED BY <1>4, <1>6, <2>1
<1>12. 1 \notin ReadsIn(q) /\ ReadsIn(q) # {} => ReadsIn(t) # {}
  BY <1>7
<1>13. ASSUME \A i, j \in ReadsIn(q) : i = j
       PROVE  \A i, j \in ReadsIn(t) : i = j
  <2> TAKE i, j \in ReadsIn(t)
  <2>1. i + 1 = j + 1 /\ i \in 1..(n - 1) /\ j \in 1..(n - 1)
    BY <1>6, <1>13
  <2> QED BY <1>4, <2>1
<1> QED BY <1>3, <1>8, <1>9, <1>10, <1>11, <1>12, <1>13 DEF t

\* What is appended that answers no read changes nothing, ...
LEMMA AppendQuiet ==
    ASSUME NEW s, HasStream(s), NEW r, NEW h, ~AnswersRead(h), OneKind(h),
           ReadFields \subseteq DOMAIN r,
           r.reads = s.reads, r.opened = s.opened, r.closing = s.closing, r.closed = s.closed,
           r.readCb = s.readCb, r.queue = Append(s.queue, h)
    PROVE  Quiet(s, r) /\ (Regular(h) => Same(s, r))
BY AppendToFifo DEF ReadFields, HasStream, Quiet, Same

-----------------------------------------------------------------------------
\* Callbacks and operations

LEMMA RunCallbackSame ==
    ASSUME NEW s, HasStream(s), NEW cb, cb # "read", NEW id, NEW lo, NEW hi
    PROVE  Same(s, RunCallback(s, cb, id, lo, hi))
<1> DEFINE h == [run |-> cb, id |-> id, lo |-> lo, hi |-> hi]
           r == [s EXCEPT !.pending = @ + 1, !.queue = Append(@, h)]
<1>1. ~AnswersRead(h) /\ OneKind(h) /\ Regular(h)
  BY DEF AnswersRead, OneKind, Regular
<1>2. RunCallback(s, cb, id, lo, hi) = r
  BY DEF RunCallback
<1> HIDE DEF h
<1>3. /\ ReadFields \subseteq DOMAIN r
      /\ r.reads = s.reads /\ r.opened = s.opened /\ r.closing = s.closing /\ r.closed = s.closed
      /\ r.readCb = s.readCb /\ r.queue = Append(s.queue, h)
  BY DEF ReadFields, HasStream
<1> HIDE DEF r
<1> QED BY <1>1, <1>2, <1>3, AppendQuiet

\* The callback of a read is posted, and the member cleared.
LEMMA RunReadAnswers ==
    ASSUME NEW s, HasStream(s), NEW lo, NEW hi, NEW r,
           LET p == RunCallback(s, IF s.readCb = 0 THEN "lostRead" ELSE "read", s.readCb, lo, hi)
           IN  /\ DOMAIN r = DOMAIN p /\ r.readCb = 0
               /\ r.opened = p.opened /\ r.closing = p.closing /\ r.closed = p.closed
               /\ r.reads = p.reads /\ r.queue = p.queue
    PROVE  Answers(s, r)
<1> DEFINE h == [run |-> IF s.readCb = 0 THEN "lostRead" ELSE "read", id |-> s.readCb,
                 lo |-> lo, hi |-> hi]
           p == [s EXCEPT !.pending = @ + 1, !.queue = Append(@, h)]
<1>1. /\ Regular(h) /\ OneKind(h)
      /\ s.readCb = 0 => ~AnswersRead(h)
      /\ s.readCb # 0 => AnswersRead(h)
  BY DEF AnswersRead, OneKind, Regular
<1>2. RunCallback(s, IF s.readCb = 0 THEN "lostRead" ELSE "read", s.readCb, lo, hi) = p
  BY DEF RunCallback
<1> HIDE DEF h
<1>3. /\ ReadFields \subseteq DOMAIN p
      /\ p.reads = s.reads /\ p.opened = s.opened /\ p.closing = s.closing /\ p.closed = s.closed
      /\ p.queue = Append(s.queue, h)
  BY DEF ReadFields, HasStream
<1> HIDE DEF p
<1>4. /\ DOMAIN r = DOMAIN p /\ r.readCb = 0
      /\ r.opened = p.opened /\ r.closing = p.closing /\ r.closed = p.closed
      /\ r.reads = p.reads /\ r.queue = p.queue
  BY <1>2
<1>5. HasStream(r)
  BY <1>1, <1>3, <1>4, AppendToFifo DEF ReadFields, HasStream
<1>6. /\ s.readCb = 0 => ReadsIn(r.queue) = ReadsIn(s.queue)
      /\ s.readCb # 0 => \E i : ReadsIn(r.queue) = ReadsIn(s.queue) \cup {i}
      /\ AllRegular(s.queue) => AllRegular(r.queue)
  <2>1. IsFifo(s.queue) /\ r.queue = Append(s.queue, h)
    BY <1>3, <1>4 DEF ReadFields, HasStream
  <2>2. /\ ~AnswersRead(h) => ReadsIn(Append(s.queue, h)) = ReadsIn(s.queue)
        /\ AnswersRead(h) => \E i : ReadsIn(Append(s.queue, h)) = ReadsIn(s.queue) \cup {i}
        /\ AllRegular(s.queue) /\ Regular(h) => AllRegular(Append(s.queue, h))
    BY <1>1, <2>1, AppendToFifo
  <2>3. s.readCb = 0 => ReadsIn(r.queue) = ReadsIn(s.queue)
    BY <1>1, <2>1, <2>2
  <2>4. s.readCb # 0 => \E i : ReadsIn(r.queue) = ReadsIn(s.queue) \cup {i}
    BY <1>1, <2>1, <2>2
  <2> QED BY <1>1, <2>1, <2>2, <2>3, <2>4
<1> QED BY <1>3, <1>4, <1>5, <1>6 DEF Answers

LEMMA ClearCallbacksCalm ==
    ASSUME NEW s, HasStream(s)
    PROVE  Calm(s, ClearCallbacks(s))
BY DEF ReadFields, HasStream, Calm, Closed, NoRead, OneRead, ClearCallbacks

\* On an open stream the pending read would be dropped.
LEMMA MaybeRunCloseCallbackCalm ==
    ASSUME NEW s, HasStream(s)
    PROVE  /\ Calm(s, MaybeRunCloseCallback(s))
           /\ Closed(s) => Keeps(s, MaybeRunCloseCallback(s))
<1> DEFINE p == RunCallback(s, "close", s.reads, 0, 0)
           c == ClearCallbacks(p)
<1>1. Calm(s, p)
  BY RunCallbackSame, SameKeeps DEF Keeps
<1>2. MaybeRunCloseCallback(s) \in
        {[c EXCEPT !.wq = <<>>], [s EXCEPT !.readCb = 0, !.writeCb = 0, !.wq = <<>>],
         ClearCallbacks(s), s}
  BY DEF MaybeRunCloseCallback
<1> HIDE DEF p
<1>3. Calm(p, c)
  BY <1>1, ClearCallbacksCalm DEF Calm
<1> HIDE DEF c
<1>4. Calm(s, [c EXCEPT !.wq = <<>>])
  BY <1>1, <1>3 DEF Calm, ReadFields, HasStream, Closed, NoRead, OneRead
<1>5. Calm(s, [s EXCEPT !.readCb = 0, !.writeCb = 0, !.wq = <<>>]) /\ Calm(s, s)
  BY DEF Calm, ReadFields, HasStream, Closed, NoRead, OneRead
<1>6. Calm(s, MaybeRunCloseCallback(s))
  BY <1>2, <1>4, <1>5, ClearCallbacksCalm
<1> QED BY <1>6, ClosedKeeps DEF Calm

LEMMA ArmSame ==
    ASSUME NEW s, HasStream(s), NEW op
    PROVE  Same(s, Arm(s, op))
<1> DEFINE h == [op |-> op, res |-> "error", n |-> 0]
           r == [s EXCEPT !.queue = Append(@, h)]
           k == [s EXCEPT !.kernel = @ \cup {op}]
<1>1. ~AnswersRead(h) /\ OneKind(h) /\ Regular(h)
  BY DEF AnswersRead, OneKind, Regular
<1>2. Arm(s, op) \in {r, k}
  BY DEF Arm
<1> HIDE DEF h
<1>3. /\ ReadFields \subseteq DOMAIN r
      /\ r.reads = s.reads /\ r.opened = s.opened /\ r.closing = s.closing /\ r.closed = s.closed
      /\ r.readCb = s.readCb /\ r.queue = Append(s.queue, h)
  BY DEF ReadFields, HasStream
<1>4. Same(s, k)
  BY DEF ReadFields, HasStream, Same, Quiet
<1> HIDE DEF r, k
<1> QED BY <1>1, <1>2, <1>3, <1>4, AppendQuiet

LEMMA ReadFromSocketSame ==
    ASSUME NEW s, HasStream(s)
    PROVE  Same(s, ReadFromSocket(s)) /\ Same(s, DoHandshake(s)) /\ Same(s, DoRead(s))
<1> DEFINE h == Arm(s, "handshake")
           r == Arm(s, "read")
<1>1. Same(s, h) /\ Same(s, r) /\ Same(s, s)
  BY ArmSame DEF Same, Quiet
<1>2. /\ DoHandshake(s) \in {s, [h EXCEPT !.sslAccepting = TRUE, !.sWrite = TRUE]}
      /\ DoRead(s) = [r EXCEPT !.sRead = TRUE]
  BY DEF DoHandshake, DoRead
<1> HIDE DEF h, r
<1>3. Same(s, DoHandshake(s)) /\ Same(s, DoRead(s))
  BY <1>1, <1>2 DEF Same, Quiet, ReadFields, HasStream
<1> QED BY <1>3 DEF ReadFromSocket

LEMMA ListenerKeeps ==
    ASSUME NEW s, HasStream(s)
    PROVE  Keeps(s, MaybeAddErrorListener(s))
BY MaybeRunCloseCallbackCalm, ReadFromSocketSame, SameKeeps, KeepsReflexive
   DEF MaybeAddErrorListener

-----------------------------------------------------------------------------
\* Closing

LEMMA AbortedQuiet ==
    ASSUME NEW q, IsFifo(q), NEW s, NEW op
    PROVE  IsFifo(q \o Aborted(s, op)) /\ ReadsIn(q \o Aborted(s, op)) = ReadsIn(q)
<1> DEFINE h == [op |-> op, res |-> "aborted", n |-> 0]
<1>1. \E T : q \in Seq(T)
  BY DEF IsFifo
<1>2. Aborted(s, op) \in {<<h>>, <<>>}
  BY DEF Aborted
<1>3. q \o <<>> = q /\ q \o <<h>> = Append(q, h)
  BY <1>1
<1>4. ~AnswersRead(h) /\ OneKind(h)
  BY DEF AnswersRead, OneKind
<1> HIDE DEF h
<1> QED BY <1>2, <1>3, <1>4, AppendToFifo

LEMMA AbortOperationsQuiet ==
    ASSUME NEW s, HasStream(s)
    PROVE  Quiet(s, AbortOperations(s))
<1> DEFINE q1 == s.queue \o Aborted(s, "read")
           q2 == q1 \o Aborted(s, "connect")
           q3 == q2 \o Aborted(s, "handshake")
           q4 == q3 \o Aborted(s, "write")
           q5 == q4 \o Aborted(s, "shutdown")
<1>1. AbortOperations(s) = [s EXCEPT !.kernel = {}, !.queue = q5]
  BY DEF AbortOperations
<1>2. IsFifo(q1) /\ ReadsIn(q1) = ReadsIn(s.queue)
  BY AbortedQuiet DEF ReadFields, HasStream
<1> HIDE DEF q1
<1>3. IsFifo(q2) /\ ReadsIn(q2) = ReadsIn(q1)
  BY <1>2, AbortedQuiet
<1> HIDE DEF q2
<1>4. IsFifo(q3) /\ ReadsIn(q3) = ReadsIn(q2)
  BY <1>3, AbortedQuiet
<1> HIDE DEF q3
<1>5. IsFifo(q4) /\ ReadsIn(q4) = ReadsIn(q3)
  BY <1>4, AbortedQuiet
<1> HIDE DEF q4
<1>6. IsFifo(q5) /\ ReadsIn(q5) = ReadsIn(q4)
  BY <1>5, AbortedQuiet
<1> HIDE DEF q5
<1> QED BY <1>1, <1>2, <1>3, <1>4, <1>5, <1>6 DEF ReadFields, HasStream, Quiet

LEMMA DoCloseCloses ==
    ASSUME NEW s, HasStream(s)
    PROVE  LET r == DoClose(s) IN Calm(s, r) /\ Closed(r)
<1> DEFINE t == AbortOperations(s)
           u == [t EXCEPT !.closing = FALSE, !.closed = TRUE]
<1>1. Quiet(s, t)
  BY AbortOperationsQuiet
<1>2. DoClose(s) = MaybeRunCloseCallback(u)
  BY DEF DoClose, OnClose
<1> HIDE DEF t
<1>3. Calm(s, u) /\ Closed(u)
  BY <1>1 DEF Quiet, Calm, ReadFields, HasStream, Closed, NoRead, OneRead
<1> HIDE DEF u
<1>4. Calm(u, MaybeRunCloseCallback(u))
  BY <1>3, MaybeRunCloseCallbackCalm DEF Calm
<1> QED BY <1>2, <1>3, <1>4, CalmTransitive DEF Calm

LEMMA FinishUntilCloseAnswers ==
    ASSUME NEW s, HasStream(s)
    PROVE  Answers(s, FinishUntilClose(s))
<1> DEFINE p == RunCallback(s, "stream", s.streamCb, s.consumed, s.received)
           t == IF s.streamCb # 0 /\ Active(s) > 0 THEN [p EXCEPT !.consumed = s.received] ELSE s
           u == RunCallback(t, IF t.readCb = 0 THEN "lostRead" ELSE "read", t.readCb,
                            t.consumed, t.received)
           r == [u EXCEPT !.consumed = t.received, !.readCb = 0, !.untilClose = FALSE]
<1>1. Same(s, p)
  BY RunCallbackSame
<1> HIDE DEF p
<1>2. Same(s, t)
  BY <1>1 DEF Same, Quiet, ReadFields, HasStream
<1>3. FinishUntilClose(s) = r
  BY DEF FinishUntilClose, p
<1> HIDE DEF t
<1>4. HasStream(t)
  BY <1>2 DEF Same, Quiet
<1>5. "readCb" \in DOMAIN u
  BY <1>4 DEF ReadFields, HasStream, RunCallback
<1>6. Answers(t, r)
  <2>1. /\ DOMAIN r = DOMAIN u /\ r.readCb = 0
        /\ r.opened = u.opened /\ r.closing = u.closing /\ r.closed = u.closed
        /\ r.reads = u.reads /\ r.queue = u.queue
    <3> HIDE DEF u
    <3> QED BY <1>5
  <2> HIDE DEF r
  <2> QED BY <1>4, <2>1, RunReadAnswers
<1> HIDE DEF r
<1> QED BY <1>2, <1>3, <1>6, SameTransitive

LEMMA CloseCloses ==
    ASSUME NEW s, HasStream(s)
    PROVE  LET r == Close(s) IN Keeps(s, r) /\ Closed(r)
<1>1. CASE Closed(s)
  BY <1>1, KeepsReflexive DEF Close
<1>2. CASE ~Closed(s)
  <2> DEFINE t == IF s.untilClose THEN FinishUntilClose(s) ELSE s
             u == [t EXCEPT !.closing = TRUE]
             a == Arm(u, "shutdown")
  <2>1. Keeps(s, t)
    BY FinishUntilCloseAnswers, AnswersKeeps, KeepsReflexive
  <2>2. Close(s) = CloseSocket(u)
    BY <1>2 DEF Close
  <2> HIDE DEF t
  <2>3. Calm(s, u) /\ Closed(u)
    BY <2>1 DEF Keeps, Calm, ReadFields, HasStream, Closed, NoRead, OneRead
  <2> HIDE DEF u
  <2>4. Same(u, a)
    BY <2>3, ArmSame DEF Calm
  <2>5. CloseSocket(u) \in {[a EXCEPT !.sWrite = TRUE], DoClose(u)}
    BY DEF CloseSocket
  <2> HIDE DEF a
  <2>6. Same(u, [a EXCEPT !.sWrite = TRUE])
    BY <2>4 DEF Same, Quiet, ReadFields, HasStream
  <2>7. Calm(u, Close(s)) /\ Closed(Close(s))
    BY <2>2, <2>3, <2>5, <2>6, SameKeeps, DoCloseCloses DEF Keeps, Calm
  <2> QED BY <2>3, <2>7, CalmTransitive, ClosedKeeps
<1> QED BY <1>1, <1>2

-----------------------------------------------------------------------------
\* Reading

LEMMA ReadFromBufferKeeps ==
    ASSUME NEW s, HasStream(s)
    PROVE  Same(s, ReadFromBuffer(s)) \/ Answers(s, ReadFromBuffer(s))
<1>1. ASSUME NEW t, HasStream(t)
      PROVE  Answers(t, Delivered(t))
  <2> DEFINE p == RunCallback(t, IF t.readCb = 0 THEN "lostRead" ELSE "read", t.readCb,
                              t.consumed, Least(Ends(t)))
             r == [p EXCEPT !.consumed = Least(Ends(t)), !.readCb = 0, !.streamCb = 0,
                            !.readBytes = IF Source(t) = "bytes" THEN None ELSE p.readBytes,
                            !.marks = p.marks \ {Source(t)}]
  <2>1. Delivered(t) = r
    BY DEF Delivered
  <2>2. "readCb" \in DOMAIN p
    BY <1>1 DEF ReadFields, HasStream, RunCallback
  <2>3. /\ DOMAIN r = DOMAIN p /\ r.readCb = 0
        /\ r.opened = p.opened /\ r.closing = p.closing /\ r.closed = p.closed
        /\ r.reads = p.reads /\ r.queue = p.queue
    <3> HIDE DEF p
    <3> QED BY <2>2
  <2> HIDE DEF r
  <2> QED BY <1>1, <2>1, <2>3, RunReadAnswers
<1>2. Same(s, Streamed(s))
  <2> DEFINE n == IF s.readBytes # None /\ s.readBytes < Active(s) THEN s.readBytes ELSE Active(s)
             p == RunCallback(s, "stream", s.streamCb, s.consumed, s.consumed + n)
  <2>1. Same(s, p) /\ Same(s, s)
    BY RunCallbackSame DEF Same, Quiet
  <2>2. Streamed(s) \in
          {s, [p EXCEPT !.consumed = p.consumed + n,
                        !.readBytes = IF p.readBytes = None THEN None ELSE p.readBytes - n]}
    BY DEF Streamed
  <2> HIDE DEF p, n
  <2> QED BY <2>1, <2>2 DEF Same, Quiet, ReadFields, HasStream
<1>3. Answers(Streamed(s), Delivered(Streamed(s)))
  BY <1>1, <1>2 DEF Same, Quiet
<1> QED BY <1>2, <1>3, SameTransitive DEF ReadFromBuffer

LEMMA TryInlineReadKeeps ==
    ASSUME NEW s, HasStream(s)
    PROVE  Keeps(s, TryInlineRead(s))
<1> DEFINE b == ReadFromBuffer(s)
<1>1. Keeps(s, b)
  BY ReadFromBufferKeeps, SameKeeps, AnswersKeeps
<1>2. TryInlineRead(s) \in {b, ReadFromSocket(b)}
  BY DEF TryInlineRead
<1> HIDE DEF b
<1>3. Keeps(b, ReadFromSocket(b))
  BY <1>1, ReadFromSocketSame, SameKeeps DEF Keeps, Calm
<1> QED BY <1>1, <1>2, <1>3, KeepsTransitive

\* A read is called: it is the only one, and is waited for.
Asked(s, r) ==
    /\ HasStream(r) /\ r.opened = s.opened /\ (Closed(s) => Closed(r))
    /\ OneRead(r) /\ HasRead(r) /\ Sound(r)

LEMMA ReadBytesAsked ==
    ASSUME NEW s, HasStream(s), NoRead(s), Sound(s), NEW n
    PROVE  Asked(s, TryInlineRead(BeginReadBytes(s, n)))
<1> DEFINE t == BeginReadBytes(s, n)
<1>1. /\ HasStream(t) /\ t.opened = s.opened /\ t.closing = s.closing /\ t.closed = s.closed
      /\ t.readCb # 0 /\ t.queue = s.queue
  BY DEF ReadFields, HasStream, BeginReadBytes, StartRead
<1> HIDE DEF t
<1>2. Asked(s, t)
  BY <1>1 DEF Asked, NoRead, OneRead, HasRead, Sound, Closed
<1>3. Keeps(t, TryInlineRead(t))
  BY <1>1, TryInlineReadKeeps
<1>4. Asked(s, TryInlineRead(t))
  BY <1>2, <1>3 DEF Asked, Keeps, Calm
<1> QED BY <1>4 DEF t

LEMMA ReadUntilAsked ==
    ASSUME NEW s, HasStream(s), NoRead(s), Sound(s), NEW m
    PROVE  Asked(s, TryInlineRead(BeginReadUntil(s, m)))
<1> DEFINE t == BeginReadUntil(s, m)
<1>1. /\ HasStream(t) /\ t.opened = s.opened /\ t.closing = s.closing /\ t.closed = s.closed
      /\ t.readCb # 0 /\ t.queue = s.queue
  BY DEF ReadFields, HasStream, BeginReadUntil, StartRead
<1> HIDE DEF t
<1>2. Asked(s, t)
  BY <1>1 DEF Asked, NoRead, OneRead, HasRead, Sound, Closed
<1>3. Keeps(t, TryInlineRead(t))
  BY <1>1, TryInlineReadKeeps
<1>4. Asked(s, TryInlineRead(t))
  BY <1>2, <1>3 DEF Asked, Keeps, Calm
<1> QED BY <1>4 DEF t

\* A read is aborted only by a close.
LEMMA OnReadKeeps ==
    ASSUME NEW s, HasStream(s), NEW res, NEW n, res = "aborted" => Closed(s)
    PROVE  Keeps(s, OnRead(s, res, n))
<1> DEFINE t == [s EXCEPT !.sRead = FALSE]
           u == [t EXCEPT !.received = @ + n]
           v == ReadFromBuffer(u)
<1>1. Same(s, t)
  BY DEF Same, Quiet, ReadFields, HasStream
<1>2. \/ res = "aborted" /\ OnRead(s, res, n) = MaybeRunCloseCallback(t)
      \/ OnRead(s, res, n) \in {Close(t), Close(u), v, ReadFromSocket(v), MaybeAddErrorListener(v)}
  BY DEF OnRead
<1> HIDE DEF t
<1>3. Same(t, u)
  BY <1>1 DEF Same, Quiet, ReadFields, HasStream
<1> HIDE DEF u
<1>4. Keeps(s, t) /\ Keeps(t, u)
  BY <1>1, <1>3, SameKeeps
<1>5. Keeps(u, v)
  BY <1>4, ReadFromBufferKeeps, SameKeeps, AnswersKeeps DEF Keeps, Calm
<1> HIDE DEF v
<1>6. HasStream(t) /\ HasStream(u) /\ HasStream(v) /\ Keeps(s, u) /\ Keeps(s, v)
  BY <1>4, <1>5, KeepsTransitive DEF Keeps, Calm
<1>7. Keeps(v, ReadFromSocket(v)) /\ Keeps(v, MaybeAddErrorListener(v))
  BY <1>6, ReadFromSocketSame, SameKeeps, ListenerKeeps
<1>8. Keeps(t, Close(t)) /\ Keeps(u, Close(u))
  BY <1>6, CloseCloses
<1>9. res = "aborted" => Keeps(t, MaybeRunCloseCallback(t))
  BY <1>1, <1>6, MaybeRunCloseCallbackCalm DEF Same, Quiet, Closed
<1> QED BY <1>2, <1>4, <1>6, <1>7, <1>8, <1>9, KeepsTransitive

-----------------------------------------------------------------------------
\* Writing and connecting

\* A write or a connect fails with anything but an error only by a close.
Failing(s, res) == res \in {"ok", "error"} \/ Closed(s)

LEMMA WriteFailedKeeps ==
    ASSUME NEW s, HasStream(s), NEW res, res # "error" => Closed(s)
    PROVE  Keeps(s, WriteFailed(s, res))
<1> DEFINE t == [s EXCEPT !.sWrite = FALSE, !.writeCb = 0]
<1>1. Same(s, t)
  BY DEF Same, Quiet, ReadFields, HasStream
<1>2. \/ res # "error" /\ WriteFailed(s, res) = MaybeRunCloseCallback(t)
      \/ WriteFailed(s, res) = Close(t)
  BY DEF WriteFailed
<1> HIDE DEF t
<1>3. HasStream(t) /\ Keeps(s, t) /\ (res # "error" => Closed(t))
  BY <1>1, SameKeeps DEF Same, Quiet, Closed
<1>4. Keeps(t, Close(t)) /\ (res # "error" => Keeps(t, MaybeRunCloseCallback(t)))
  BY <1>3, CloseCloses, MaybeRunCloseCallbackCalm
<1> QED BY <1>2, <1>3, <1>4, KeepsTransitive

LEMMA WriteDrainedKeeps ==
    ASSUME NEW s, HasStream(s)
    PROVE  Keeps(s, WriteDrained(s))
<1> DEFINE t == [s EXCEPT !.sWrite = FALSE]
           p == RunCallback(t, "write", t.writeCb, 0, t.writeEnd)
<1>1. Same(s, t)
  BY DEF Same, Quiet, ReadFields, HasStream
<1>2. WriteDrained(s) \in {[p EXCEPT !.writeCb = 0], t, MaybeAddErrorListener(t)}
  BY DEF WriteDrained
<1> HIDE DEF t
<1>3. HasStream(t) /\ Keeps(s, t)
  BY <1>1, SameKeeps DEF Same, Quiet
<1>4. Same(t, p) /\ Keeps(t, MaybeAddErrorListener(t))
  BY <1>3, RunCallbackSame, ListenerKeeps
<1> HIDE DEF p
<1>5. Same(t, [p EXCEPT !.writeCb = 0])
  BY <1>4 DEF Same, Quiet, ReadFields, HasStream
<1> QED BY <1>2, <1>3, <1>4, <1>5, SameKeeps, KeepsTransitive

LEMMA DoWriteSame ==
    ASSUME NEW s, HasStream(s)
    PROVE  Same(s, ArmWrite(s)) /\ Same(s, DoWrite(s))
<1>1. ASSUME NEW r, HasStream(r)
      PROVE  Same(r, ArmWrite(r))
  <2> DEFINE a == Arm(r, "write")
  <2>1. Same(r, a)
    BY <1>1, ArmSame
  <2> HIDE DEF a
  <2>2. Same(r, [a EXCEPT !.sWrite = TRUE])
    BY <2>1 DEF Same, Quiet, ReadFields, HasStream
  <2> QED BY <2>2 DEF ArmWrite, a
<1> DEFINE w == [s EXCEPT !.wq = <<s.wq[Len(s.wq)]>>]
<1>2. Same(s, w)
  BY DEF Same, Quiet, ReadFields, HasStream
<1>3. DoWrite(s) = ArmWrite(w)
  BY DEF DoWrite
<1> HIDE DEF w
<1>4. Same(w, ArmWrite(w))
  BY <1>1, <1>2 DEF Same, Quiet
<1> QED BY <1>1, <1>2, <1>3, <1>4, SameTransitive

LEMMA WriteToSocketKeeps ==
    ASSUME NEW s, HasStream(s), NEW o, o.kind \in {"all", "error", "zero", "block"}
    PROVE  Keeps(s, WriteToSocket(s, o))
<1> DEFINE d == [s EXCEPT !.wq = <<>>, !.sent = s.written]
           b == [s EXCEPT !.wq = SubSeq(@, o.k + 1, Len(@)), !.sent = o.to]
<1>1. Same(s, d) /\ Same(s, b)
  BY DEF Same, Quiet, ReadFields, HasStream
<1>2. WriteToSocket(s, o) \in {DoWrite(s), DoHandshake(s), WriteDrained(d),
                               WriteFailed(s, "error"), Close(s), ArmWrite(b)}
  BY DEF WriteToSocket
<1> HIDE DEF d, b
<1>3. HasStream(d) /\ HasStream(b)
  BY <1>1 DEF Same, Quiet
<1>4. Same(s, DoWrite(s)) /\ Same(s, DoHandshake(s)) /\ Same(b, ArmWrite(b))
  BY <1>3, DoWriteSame, ReadFromSocketSame
<1>5. Keeps(d, WriteDrained(d)) /\ Keeps(s, WriteFailed(s, "error")) /\ Keeps(s, Close(s))
  BY <1>3, WriteDrainedKeeps, WriteFailedKeeps, CloseCloses
<1> QED BY <1>1, <1>2, <1>4, <1>5, SameKeeps, KeepsTransitive

LEMMA OutcomeKinds ==
    ASSUME NEW s, NEW o \in Outcomes(s)
    PROVE  o.kind \in {"all", "error", "zero", "block"}
BY DEF Outcomes

LEMMA OnWriteKeeps ==
    ASSUME NEW s, HasStream(s), NEW res, Failing(s, res), NEW n,
           NEW o \in Outcomes(TakeFront(s, n))
    PROVE  Keeps(s, OnWrite(s, res, n, o))
<1> DEFINE u == [s EXCEPT !.sWrite = FALSE]
           t == TakeFront(u, n)
<1>1. Same(s, u)
  BY DEF Same, Quiet, ReadFields, HasStream
<1>2. \/ res # "ok" /\ OnWrite(s, res, n, o) = WriteFailed(s, res)
      \/ OnWrite(s, res, n, o) \in {WriteDrained(t), t, WriteToSocket(t, o)}
  BY DEF OnWrite
<1> HIDE DEF u
<1>3. Same(u, t)
  BY <1>1 DEF Same, Quiet, ReadFields, HasStream, TakeFront
<1> HIDE DEF t
<1>4. HasStream(t) /\ Keeps(s, t)
  BY <1>1, <1>3, SameTransitive, SameKeeps DEF Same, Quiet
<1>5. /\ res # "ok" => Keeps(s, WriteFailed(s, res))
      /\ Keeps(t, WriteDrained(t)) /\ Keeps(t, WriteToSocket(t, o))
  BY <1>4, WriteFailedKeeps, WriteDrainedKeeps, WriteToSocketKeeps, OutcomeKinds DEF Failing
<1> QED BY <1>2, <1>4, <1>5, KeepsTransitive

LEMMA FlushKeeps ==
    ASSUME NEW s, HasStream(s), NEW o \in Outcomes(s)
    PROVE  Keeps(s, Flush(s, o))
<1> DEFINE p == RunCallback(s, IF s.writeCb = 0 THEN "noWrite" ELSE "write", s.writeCb, 0, s.writeEnd)
<1>1. Same(s, p)
  BY RunCallbackSame
<1>2. Flush(s, o) \in {s, [p EXCEPT !.writeCb = 0], WriteToSocket(s, o)}
  BY DEF Flush
<1> HIDE DEF p
<1>3. Same(s, [p EXCEPT !.writeCb = 0])
  BY <1>1 DEF Same, Quiet, ReadFields, HasStream
<1> QED BY <1>2, <1>3, WriteToSocketKeeps, OutcomeKinds, SameKeeps, KeepsReflexive

LEMMA EnqueueSame ==
    ASSUME NEW s, HasStream(s), NEW len, NEW cb
    PROVE  Same(s, Enqueue(s, len, cb))
BY DEF Same, Quiet, ReadFields, HasStream, Enqueue

LEMMA ConnectFailedKeeps ==
    ASSUME NEW s, HasStream(s), NEW res, res # "error" => Closed(s)
    PROVE  Keeps(s, ConnectFailed(s, res))
<1> DEFINE t == [s EXCEPT !.sWrite = FALSE, !.connectCb = FALSE]
<1>1. Same(s, t)
  BY DEF Same, Quiet, ReadFields, HasStream
<1>2. \/ res # "error" /\ ConnectFailed(s, res) = MaybeRunCloseCallback(t)
      \/ ConnectFailed(s, res) = Close(t)
  BY DEF ConnectFailed
<1> HIDE DEF t
<1>3. HasStream(t) /\ Keeps(s, t) /\ (res # "error" => Closed(t))
  BY <1>1, SameKeeps DEF Same, Quiet, Closed
<1>4. Keeps(t, Close(t)) /\ (res # "error" => Keeps(t, MaybeRunCloseCallback(t)))
  BY <1>3, CloseCloses, MaybeRunCloseCallbackCalm
<1> QED BY <1>2, <1>3, <1>4, KeepsTransitive

\* onConnect and onHandshake post the connect callback before anything else.
LEMMA PostConnectSame ==
    ASSUME NEW s, HasStream(s)
    PROVE  LET p == RunCallback(s, "connect", 0, 0, 0)
           IN  /\ Same(s, [p EXCEPT !.connectCb = FALSE])
               /\ Same(s, [p EXCEPT !.sslConnectCb = FALSE])
<1> DEFINE p == RunCallback(s, "connect", 0, 0, 0)
<1>1. Same(s, p)
  BY RunCallbackSame
<1> HIDE DEF p
<1>2. Same(s, [p EXCEPT !.connectCb = FALSE]) /\ Same(s, [p EXCEPT !.sslConnectCb = FALSE])
  BY <1>1 DEF Same, Quiet, ReadFields, HasStream
<1> QED BY <1>2 DEF p

LEMMA OnConnectKeeps ==
    ASSUME NEW s, HasStream(s), NEW res, Failing(s, res), NEW o,
           o.kind \in {"all", "error", "zero", "block"}
    PROVE  Keeps(s, OnConnect(s, res, o))
<1> DEFINE t == [s EXCEPT !.sWrite = FALSE]
           u == IF t.connectCb
                THEN [RunCallback(t, "connect", 0, 0, 0) EXCEPT !.connectCb = FALSE] ELSE t
           v == [u EXCEPT !.connecting = FALSE]
           p == RunCallback(v, "write", v.writeCb, 0, v.writeEnd)
<1>1. Same(s, t)
  BY DEF Same, Quiet, ReadFields, HasStream
<1>2. \/ res # "ok" /\ OnConnect(s, res, o) = ConnectFailed(s, res)
      \/ OnConnect(s, res, o) \in {u, WriteToSocket(v, o), [p EXCEPT !.writeCb = 0],
                                   MaybeAddErrorListener(v)}
  BY DEF OnConnect
<1> HIDE DEF t
<1>3. Same(s, u)
  BY <1>1, PostConnectSame, SameTransitive DEF Same, Quiet
<1> HIDE DEF u
<1>4. Same(s, v)
  BY <1>3 DEF Same, Quiet, ReadFields, HasStream
<1> HIDE DEF v
<1>5. HasStream(v) /\ Keeps(s, v)
  BY <1>4, SameKeeps DEF Same, Quiet
<1>6. Same(v, p) /\ Keeps(v, MaybeAddErrorListener(v)) /\ Keeps(v, WriteToSocket(v, o))
  BY <1>5, RunCallbackSame, ListenerKeeps, WriteToSocketKeeps
<1> HIDE DEF p
<1>7. Same(v, [p EXCEPT !.writeCb = 0])
  BY <1>6 DEF Same, Quiet, ReadFields, HasStream
<1>8. res # "ok" => Keeps(s, ConnectFailed(s, res))
  BY ConnectFailedKeeps DEF Failing
<1> QED BY <1>2, <1>3, <1>5, <1>6, <1>7, <1>8, SameKeeps, KeepsTransitive

LEMMA OnHandshakeKeeps ==
    ASSUME NEW s, HasStream(s), NEW res
    PROVE  Keeps(s, OnHandshake(s, res))
<1> DEFINE t == [s EXCEPT !.sWrite = FALSE, !.sslAccepting = FALSE]
           u == [t EXCEPT !.sslAccepted = TRUE]
           v == IF u.sslConnectCb
                THEN [RunCallback(u, "connect", 0, 0, 0) EXCEPT !.sslConnectCb = FALSE] ELSE u
           w == IF v.wq # <<>> THEN DoWrite(v) ELSE v
           x == IF w.readCb # 0 THEN DoRead(w) ELSE w
<1>1. Same(s, t)
  BY DEF Same, Quiet, ReadFields, HasStream
<1>2. OnHandshake(s, res) \in {t, Close(t), MaybeAddErrorListener(x)}
  BY DEF OnHandshake
<1> HIDE DEF t
<1>3. Same(s, u)
  BY <1>1 DEF Same, Quiet, ReadFields, HasStream
<1> HIDE DEF u
<1>4. Same(s, v)
  BY <1>3, PostConnectSame, SameTransitive DEF Same, Quiet
<1> HIDE DEF v
<1>5. Same(s, w)
  BY <1>4, DoWriteSame, SameTransitive DEF Same, Quiet
<1> HIDE DEF w
<1>6. Same(s, x)
  BY <1>5, ReadFromSocketSame, SameTransitive DEF Same, Quiet
<1> HIDE DEF x
<1>7. HasStream(t) /\ HasStream(x) /\ Keeps(s, t) /\ Keeps(s, x)
  BY <1>1, <1>6, SameKeeps DEF Same, Quiet
<1>8. Keeps(x, MaybeAddErrorListener(x)) /\ Keeps(t, Close(t))
  BY <1>7, ListenerKeeps, CloseCloses
<1> QED BY <1>2, <1>7, <1>8, KeepsTransitive

LEMMA OnShutdownKeeps ==
    ASSUME NEW s, HasStream(s)
    PROVE  Keeps(s, OnShutdown(s))
<1> DEFINE t == [s EXCEPT !.sWrite = FALSE]
<1>1. Same(s, t)
  BY DEF Same, Quiet, ReadFields, HasStream
<1>2. OnShutdown(s) = DoClose(t)
  BY DEF OnShutdown
<1> HIDE DEF t
<1>3. Keeps(s, t) /\ HasStream(t)
  BY <1>1, SameKeeps DEF Same, Quiet
<1>4. Keeps(t, DoClose(t))
  BY <1>3, DoCloseCloses, ClosedKeeps
<1> QED BY <1>2, <1>3, <1>4, KeepsTransitive

-----------------------------------------------------------------------------
\* Steps of the loop and the reactor

\* The loop takes the next handler.
LEMMA TakenKeeps ==
    ASSUME HasStream(stream), stream.queue # <<>>
    PROVE  \A r \in {Taken, Begun} :
             /\ HasStream(r) /\ r.opened = stream.opened
             /\ r.closing = stream.closing /\ r.closed = stream.closed
             /\ Sound(stream) => Sound(r)
             /\ ~AnswersRead(NextHandler) => Keeps(stream, r)
             /\ AnswersRead(NextHandler) /\ OneRead(stream) => NoRead(r)
             /\ AnswersRead(NextHandler) => ~NoRead(stream)
<1> SUFFICES ASSUME NEW r \in {Taken, Begun}
             PROVE  /\ HasStream(r) /\ r.opened = stream.opened
                    /\ r.closing = stream.closing /\ r.closed = stream.closed
                    /\ Sound(stream) => Sound(r)
                    /\ ~AnswersRead(NextHandler) => Keeps(stream, r)
                    /\ AnswersRead(NextHandler) /\ OneRead(stream) => NoRead(r)
                    /\ AnswersRead(NextHandler) => ~NoRead(stream)
  OBVIOUS
<1> DEFINE q == stream.queue
<1>1. /\ IsFifo(q) /\ q # <<>>
      /\ r.queue = Tail(q) /\ r.readCb = stream.readCb /\ r.reads = stream.reads
      /\ r.opened = stream.opened /\ r.closing = stream.closing /\ r.closed = stream.closed
      /\ ReadFields \subseteq DOMAIN r
      /\ stream.reads \in Nat
  BY DEF ReadFields, HasStream, Taken, Begun
<1>2. /\ IsFifo(Tail(q))
      /\ AllRegular(q) => AllRegular(Tail(q)) /\ Regular(Head(q))
      /\ ReadsIn(q) = {} => ReadsIn(Tail(q)) = {}
      /\ AnswersRead(Head(q)) /\ (\A i, j \in ReadsIn(q) : i = j) =>
           ReadsIn(q) # {} /\ ReadsIn(Tail(q)) = {}
      /\ ~AnswersRead(Head(q)) /\ ReadsIn(q) # {} => ReadsIn(Tail(q)) # {}
      /\ (\A i, j \in ReadsIn(q) : i = j) => \A i, j \in ReadsIn(Tail(q)) : i = j
  BY <1>1, TailOfFifo
<1>3. HasStream(r)
  BY <1>1, <1>2 DEF ReadFields, HasStream
<1>4. Sound(stream) => Sound(r)
  BY <1>1, <1>2 DEF Sound, Closed
<1>5. NextHandler = Head(q)
  BY DEF NextHandler
<1>6. ~AnswersRead(NextHandler) => Keeps(stream, r)
  <2>1. /\ NoRead(stream) => NoRead(r)
        /\ OneRead(stream) => OneRead(r)
    BY <1>1, <1>2 DEF NoRead, OneRead
  <2>2. ~AnswersRead(NextHandler) => (HasRead(stream) => HasRead(r))
    BY <1>1, <1>2, <1>5 DEF HasRead, Closed
  <2> QED BY <1>1, <1>3, <1>4, <2>1, <2>2 DEF Keeps, Calm, Closed
<1>7. AnswersRead(NextHandler) /\ OneRead(stream) => NoRead(r)
  BY <1>1, <1>2, <1>5 DEF NoRead, OneRead
<1>8. AnswersRead(NextHandler) => ReadsIn(q) # {}
  <2>1. (\A i, j \in ReadsIn(q) : i = j) \/ ReadsIn(q) # {}
    OBVIOUS
  <2> QED BY <1>2, <1>5, <2>1
<1> QED BY <1>1, <1>3, <1>4, <1>6, <1>7, <1>8 DEF NoRead

LEMMA HandleCompletionKeeps ==
    ASSUME HasStream(stream), Sound(stream), HandleCompletion, "op" \in DOMAIN NextHandler
    PROVE  Keeps(stream, stream')
<1> DEFINE s == Taken
           h == NextHandler
<1>1. stream.queue # <<>> /\ ~AnswersRead(h)
  BY DEF HandleCompletion, Dispatches, IsRun, AnswersRead
<1>2. HasStream(s) /\ Keeps(stream, s) /\ s.closing = stream.closing /\ s.closed = stream.closed
  BY <1>1, TakenKeeps
<1>3. Regular(h) \/ Closed(s)
  BY <1>1, <1>2, TailOfFifo DEF ReadFields, HasStream, Sound, Closed, NextHandler
<1>4. \/ h.op = "read" /\ stream' = OnRead(s, h.res, h.n)
      \/ h.op = "connect" /\ \E o \in Outcomes(s) : stream' = OnConnect(s, h.res, o)
      \/ stream' = OnHandshake(s, h.res)
      \/ stream' = OnShutdown(s)
      \/ h.op # "read" /\ \E o \in Outcomes(TakeFront(s, h.n)) : stream' = OnWrite(s, h.res, h.n, o)
  BY DEF HandleCompletion
<1> HIDE DEF s, h
<1>5. /\ h.res = "aborted" => Closed(s)
      /\ h.op # "read" => Failing(s, h.res)
  BY <1>3 DEF Regular, Failing, h
<1>6. Keeps(s, stream')
  BY <1>2, <1>4, <1>5, OnReadKeeps, OnConnectKeeps, OnHandshakeKeeps, OnShutdownKeeps, OnWriteKeeps,
     OutcomeKinds
<1> QED BY <1>2, <1>6, KeepsTransitive

LEMMA CompleteKeeps ==
    ASSUME HasStream(stream), NEW op, Complete(op)
    PROVE  Keeps(stream, stream')
<1>1. PICK res \in Results \ {"aborted"}, n \in 0..MaxBytes + MaxLength * MaxWrites :
        /\ res = "overflow" => op = "read"
        /\ stream' = [stream EXCEPT !.kernel = @ \ {op},
                        !.queue = Append(@, [op |-> op, res |-> res, n |-> n])]
  BY DEF Complete
<1> DEFINE h == [op |-> op, res |-> res, n |-> n]
           r == [stream EXCEPT !.kernel = @ \ {op}, !.queue = Append(@, h)]
<1>2. ~AnswersRead(h) /\ OneKind(h) /\ Regular(h)
  BY <1>1 DEF AnswersRead, OneKind, Regular, Results
<1>3. stream' = r
  BY <1>1
<1> HIDE DEF h
<1>4. /\ ReadFields \subseteq DOMAIN r
      /\ r.reads = stream.reads /\ r.opened = stream.opened /\ r.closing = stream.closing
      /\ r.closed = stream.closed
      /\ r.readCb = stream.readCb /\ r.queue = Append(stream.queue, h)
  BY DEF ReadFields, HasStream
<1> HIDE DEF r
<1> QED BY <1>2, <1>3, <1>4, AppendQuiet, SameKeeps

LEMMA ExpireKeeps ==
    ASSUME HasStream(stream), ExpireWaiting
    PROVE  Keeps(stream, stream')
<1> DEFINE h == [timer |-> "close"]
           r == [stream EXCEPT !.queue = Append(@, h)]
<1>1. ~AnswersRead(h) /\ OneKind(h) /\ Regular(h)
  BY DEF AnswersRead, OneKind, Regular
<1>2. stream' = r
  BY DEF ExpireWaiting
<1> HIDE DEF h
<1>3. /\ ReadFields \subseteq DOMAIN r
      /\ r.reads = stream.reads /\ r.opened = stream.opened /\ r.closing = stream.closing
      /\ r.closed = stream.closed
      /\ r.readCb = stream.readCb /\ r.queue = Append(stream.queue, h)
  BY DEF ReadFields, HasStream
<1> HIDE DEF r
<1> QED BY <1>1, <1>2, <1>3, AppendQuiet, SameKeeps

-----------------------------------------------------------------------------
\* What the methods of the protocol keep

SameSession(p, q) ==
    /\ q.live = p.live /\ q.next = p.next
    /\ q.opens = p.opens /\ q.messages = p.messages /\ q.closes = p.closes
    /\ p.clientTerm => q.clientTerm

\* From x a method came to y without reading and without telling the handler.
Goes(x, y) == HasProtocol(y) /\ Keeps(x.s, y.s) /\ SameSession(x.p, y.p)

HasBoth(x) == HasProtocol(x) /\ HasStream(x.s)

LEMMA GoesTransitive ==
    ASSUME NEW x, NEW y, NEW z, Goes(x, y), Goes(y, z)
    PROVE  Goes(x, z)
BY KeepsTransitive DEF Goes, SameSession

LEMMA GoesHas ==
    ASSUME NEW x, NEW y, Goes(x, y)
    PROVE  HasBoth(y)
BY DEF Goes, HasBoth, Keeps, Calm

LEMMA GoesReflexive ==
    ASSUME NEW x, HasBoth(x)
    PROVE  Goes(x, x)
BY KeepsReflexive DEF Goes, HasBoth, SameSession

LEMMA RemoveWaitingSame ==
    ASSUME NEW p, ProtocolFields \subseteq DOMAIN p
    PROVE  ProtocolFields \subseteq DOMAIN RemoveWaiting(p) /\ SameSession(p, RemoveWaiting(p))
           /\ RemoveWaiting(p).clientTerm = p.clientTerm
BY DEF RemoveWaiting, ProtocolFields, SameSession

LEMMA AbortGoes ==
    ASSUME NEW x, HasBoth(x)
    PROVE  Goes(x, Abort(x)) /\ Closed(Abort(x).s) /\ Abort(x).p.clientTerm
<1> DEFINE q == [x.p EXCEPT !.clientTerm = TRUE, !.serverTerm = TRUE]
           c == Close(x.s)
<1>1. ProtocolFields \subseteq DOMAIN q /\ SameSession(x.p, q) /\ q.clientTerm
  BY DEF HasBoth, HasProtocol, ProtocolFields, SameSession
<1>2. Keeps(x.s, c) /\ Closed(c)
  BY CloseCloses DEF HasBoth
<1>3. Abort(x) = [x EXCEPT !.s = c, !.p = RemoveWaiting(q)]
  BY DEF Abort, HasBoth, HasProtocol
<1> HIDE DEF q, c
<1>4. /\ ProtocolFields \subseteq DOMAIN RemoveWaiting(q) /\ SameSession(q, RemoveWaiting(q))
      /\ RemoveWaiting(q).clientTerm
  BY <1>1, RemoveWaitingSame
<1> HIDE DEF RemoveWaiting
<1>5. Abort(x).s = c /\ Abort(x).p = RemoveWaiting(q) /\ HasProtocol(Abort(x))
  BY <1>3, <1>4 DEF HasBoth, HasProtocol
<1> QED BY <1>1, <1>2, <1>4, <1>5 DEF Goes, SameSession

LEMMA SentGoes ==
    ASSUME NEW x, HasBoth(x), NEW y \in Sent(x)
    PROVE  Goes(x, y)
<1> DEFINE t == Enqueue(x.s, 1, 0)
<1>1. PICK o \in Outcomes(t) : y = [x EXCEPT !.s = Flush(t, o)]
  BY DEF Sent
<1>2. Keeps(x.s, t) /\ HasStream(t)
  BY EnqueueSame, SameKeeps DEF HasBoth, Same, Quiet
<1> HIDE DEF t
<1>3. Keeps(x.s, Flush(t, o))
  BY <1>2, FlushKeeps, KeepsTransitive
<1> DEFINE f == Flush(t, o)
<1> HIDE DEF f
<1>4. y = [x EXCEPT !.s = f] /\ Keeps(x.s, f)
  BY <1>1, <1>3 DEF f
<1> QED BY <1>4 DEF HasBoth, HasProtocol, Goes, SameSession

LEMMA AwaitCloseGoes ==
    ASSUME NEW x, HasBoth(x)
    PROVE  Goes(x, AwaitClose(x))
<1>1. CASE x.p.clientTerm
  <2> DEFINE c == Close(x.s)
             q == RemoveWaiting(x.p)
  <2>1. AwaitClose(x) = [x EXCEPT !.p = q, !.s = c]
    BY <1>1 DEF AwaitClose, HasBoth, HasProtocol
  <2>2. Keeps(x.s, c)
    BY CloseCloses DEF HasBoth
  <2>3. ProtocolFields \subseteq DOMAIN q /\ SameSession(x.p, q)
    BY RemoveWaitingSame DEF HasBoth, HasProtocol
  <2> HIDE DEF c, q
  <2> QED BY <2>1, <2>2, <2>3 DEF HasBoth, HasProtocol, Goes
<1>2. CASE ~x.p.clientTerm
  <2>1. AwaitClose(x) \in {x, [x EXCEPT !.p.waiting = "armed"]}
    BY <1>2 DEF AwaitClose
  <2>2. Goes(x, [x EXCEPT !.p.waiting = "armed"])
    BY KeepsReflexive DEF HasBoth, HasProtocol, ProtocolFields, Goes, SameSession
  <2> QED BY <2>1, <2>2, GoesReflexive
<1> QED BY <1>1, <1>2

LEMMA CloseProtocolGoes ==
    ASSUME NEW x, HasBoth(x), NEW z \in CloseProtocol(x)
    PROVE  Goes(x, z)
<1> DEFINE said == IF x.p.serverTerm \/ Closed(x.s) THEN {x} ELSE Sent(x)
<1>1. PICK y \in said : z = AwaitClose([y EXCEPT !.p.serverTerm = TRUE])
  BY DEF CloseProtocol
<1>2. Goes(x, y)
  BY SentGoes, GoesReflexive
<1> DEFINE w == [y EXCEPT !.p.serverTerm = TRUE]
<1>3. Goes(y, w)
  BY <1>2, GoesHas, KeepsReflexive DEF HasBoth, HasProtocol, ProtocolFields, Goes, SameSession
<1>4. z = AwaitClose(w)
  BY <1>1
<1> HIDE DEF w, said
<1>5. Goes(w, z)
  BY <1>3, <1>4, AwaitCloseGoes, GoesHas
<1> QED BY <1>2, <1>3, <1>5, GoesTransitive

LEMMA WriteMessageGoes ==
    ASSUME NEW x, HasBoth(x), NEW y \in WriteMessage(x)
    PROVE  Goes(x, y)
BY SentGoes, AbortGoes, GoesReflexive DEF WriteMessage

LEMMA HandlerCallGoes ==
    ASSUME NEW x, HasBoth(x), NEW y \in HandlerCall(x)
    PROVE  Goes(x, y)
BY AbortGoes, WriteMessageGoes, CloseProtocolGoes, GoesReflexive DEF HandlerCall

LEMMA ThrowGoes ==
    ASSUME NEW x, HasBoth(x)
    PROVE  Goes(x, Throw(x))
BY KeepsReflexive DEF HasBoth, HasProtocol, Goes, SameSession, Throw

-----------------------------------------------------------------------------
\* A callback of a read runs: nothing is read until it asks for more.

Ready(x) == HasBoth(x) /\ NoRead(x.s) /\ Sound(x.s) /\ x.s.opened

LEMMA GoesReady ==
    ASSUME NEW x, NEW y, Ready(x), Goes(x, y)
    PROVE  Ready(y)
BY GoesHas DEF Ready, Goes, Keeps, Calm

\* The next read is called, or refused by a stream that is closed.
AsksFor(x, y, next) ==
    /\ HasProtocol(y) /\ Asked(x.s, y.s)
    /\ y.p.next = next /\ SameSession([x.p EXCEPT !.next = next], y.p)

LEMMA GoesAsksFor ==
    ASSUME NEW x, NEW y, NEW z, NEW next, HasBoth(x), HasBoth(y), Goes(x, y), AsksFor(y, z, next)
    PROVE  AsksFor(x, z, next)
BY DEF HasBoth, HasProtocol, ProtocolFields, Goes, Keeps, Calm, AsksFor, Asked, SameSession

LEMMA AsksForGoes ==
    ASSUME NEW x, NEW y, NEW z, NEW next, HasBoth(x), HasBoth(y), AsksFor(x, y, next), Goes(y, z)
    PROVE  AsksFor(x, z, next)
BY DEF HasBoth, HasProtocol, ProtocolFields, Goes, Keeps, Calm, AsksFor, Asked, SameSession

LEMMA AsksForHas ==
    ASSUME NEW x, NEW y, NEW next, AsksFor(x, y, next)
    PROVE  HasBoth(y)
BY DEF AsksFor, Asked, HasBoth

LEMMA ReadNextAsks ==
    ASSUME NEW x, Ready(x), NEW n, NEW next
    PROVE  AsksFor(x, ReadNext(x, n, next), next)
<1> DEFINE t == TryInlineRead(BeginReadBytes(x.s, n))
           y == [x EXCEPT !.s = t, !.p.next = next]
<1>1. Asked(x.s, t)
  BY ReadBytesAsked DEF Ready, HasBoth
<1>2. ReadNext(x, n, next) \in {y, Throw(y)}
  BY DEF ReadNext
<1> HIDE DEF t
<1>3. AsksFor(x, y, next)
  BY <1>1 DEF Ready, HasBoth, HasProtocol, ProtocolFields, AsksFor, SameSession
<1> HIDE DEF y
<1>4. Goes(y, Throw(y))
  BY <1>3, AsksForHas, ThrowGoes
<1> QED BY <1>2, <1>3, <1>4, AsksForHas, AsksForGoes DEF Ready

LEMMA ReadAsks ==
    ASSUME NEW x, Ready(x), NEW n, NEW next
    PROVE  AsksFor(x, Read(x, n, next), next)
<1> DEFINE y == ReadNext(x, n, next)
           z == [y EXCEPT !.thrown = FALSE]
<1>1. AsksFor(x, y, next) /\ HasBoth(y)
  BY ReadNextAsks, AsksForHas
<1>2. Read(x, n, next) \in {y, Abort(z)}
  BY DEF Read
<1> HIDE DEF y
<1>3. Goes(y, z)
  BY <1>1, KeepsReflexive DEF HasBoth, HasProtocol, Goes, SameSession
<1> HIDE DEF z
<1>4. Goes(y, Abort(z))
  BY <1>3, AbortGoes, GoesHas, GoesTransitive
<1> QED BY <1>1, <1>2, <1>4, AsksForGoes DEF Ready

LEMMA ReceiveFrameAsks ==
    ASSUME NEW x, Ready(x)
    PROVE  AsksFor(x, ReceiveFrame(x), "start")
<1> DEFINE y == [x EXCEPT !.p.extended = FALSE]
<1>1. Goes(x, y)
  BY KeepsReflexive DEF Ready, HasBoth, HasProtocol, ProtocolFields, Goes, SameSession
<1>2. ReceiveFrame(x) = Read(y, FieldSize, "start")
  BY DEF ReceiveFrame
<1> HIDE DEF y
<1>3. AsksFor(y, ReceiveFrame(x), "start")
  BY <1>1, <1>2, GoesReady, ReadAsks
<1> QED BY <1>1, <1>3, GoesHas, GoesAsksFor DEF Ready

-----------------------------------------------------------------------------
\* What the handler is told

\* A message may be given, to a session that has not ended.
Tells(x, y) ==
    /\ HasProtocol(y) /\ Keeps(x.s, y.s)
    /\ y.p.live = x.p.live /\ y.p.next = x.p.next
    /\ y.p.opens = x.p.opens /\ y.p.closes = x.p.closes
    /\ x.p.clientTerm => y.p.clientTerm
    /\ y.p.messages = x.p.messages
       \/ (y.p.messages = x.p.messages + 1 /\ ~x.p.clientTerm)

LEMMA GoesTells ==
    ASSUME NEW x, NEW y, Goes(x, y)
    PROVE  Tells(x, y)
BY DEF Goes, Tells, SameSession

LEMMA DeliverTells ==
    ASSUME NEW x, HasBoth(x), ~x.p.clientTerm, NEW data, NEW y \in Deliver(x, data)
    PROVE  Tells(x, y)
<1> DEFINE w == [x EXCEPT !.p.messages = @ + 1, !.p.torn = @ \/ data # x.p.frames,
                          !.p.frames = {}]
<1>1. /\ HasBoth(w) /\ w.s = x.s /\ w.p.messages = x.p.messages + 1
      /\ w.p.live = x.p.live /\ w.p.next = x.p.next /\ w.p.opens = x.p.opens
      /\ w.p.closes = x.p.closes /\ w.p.clientTerm = x.p.clientTerm
  BY DEF HasBoth, HasProtocol, ProtocolFields
<1>2. y \in HandlerCall(w)
  BY DEF Deliver
<1> HIDE DEF w
<1>3. Goes(w, y)
  BY <1>1, <1>2, HandlerCallGoes
<1> QED BY <1>1, <1>3 DEF Goes, Tells, SameSession

LEMMA HandleMessageTells ==
    ASSUME NEW x, HasBoth(x), NEW op, NEW data, NEW y \in HandleMessage(x, op, data)
    PROVE  Tells(x, y)
<1> DEFINE w == [x EXCEPT !.p.clientTerm = TRUE]
<1>1. Goes(x, w)
  BY KeepsReflexive DEF HasBoth, HasProtocol, ProtocolFields, Goes, SameSession
<1>2. \/ y = x \/ (~x.p.clientTerm /\ y \in Deliver(x, data)) \/ y \in CloseProtocol(w)
      \/ y = Throw(x) \/ y \in Sent(x) \/ y \in HandlerCall(x) \/ y = Abort(x)
  <2>1. CASE x.p.clientTerm
    BY <2>1 DEF HandleMessage
  <2>2. CASE op = "data" /\ ~x.p.clientTerm
    BY <2>2 DEF HandleMessage
  <2>3. CASE op # "data" /\ ~x.p.clientTerm
    BY <2>3 DEF HandleMessage
  <2> QED BY <2>1, <2>2, <2>3
<1> HIDE DEF w
<1>3. y \in CloseProtocol(w) => Goes(x, y)
  BY <1>1, GoesHas, CloseProtocolGoes, GoesTransitive
<1> QED BY <1>2, <1>3, DeliverTells, GoesTells, GoesReflexive, ThrowGoes, SentGoes,
           HandlerCallGoes, AbortGoes

\* onFrameData ends the session, throws, or asks for the next frame.
LEMMA FrameDataTells ==
    ASSUME NEW x, Ready(x), NEW fin, NEW op, NEW data, NEW z \in FrameData(x, fin, op, data)
    PROVE  \E y : /\ Tells(x, y)
                  /\ \/ z = y /\ (y.p.clientTerm \/ y.thrown)
                     \/ Ready(y) /\ AsksFor(y, z, "start")
<1>1. CASE z = Abort(x)
  BY <1>1, AbortGoes, GoesTells DEF Ready
<1>2. CASE z # Abort(x)
  <2> DEFINE a == Assemble(x, fin, op, data)
             results == IF fin THEN HandleMessage(a.x, a.op, a.data) ELSE {a.x}
  <2>1. PICK y \in results : z = Continue(y, fin)
    BY <1>2 DEF FrameData
  <2>2. Goes(x, a.x)
    BY KeepsReflexive DEF Assemble, Ready, HasBoth, HasProtocol, ProtocolFields, Goes, SameSession
  <2> HIDE DEF a
  <2>3. Tells(a.x, y)
    BY <2>2, GoesHas, HandleMessageTells, GoesReflexive, GoesTells
  <2>4. Tells(x, y)
    BY <2>2, <2>3, KeepsTransitive DEF Tells, Goes, SameSession
  <2>5. Ready(y)
    BY <2>4 DEF Tells, Keeps, Calm, Ready, HasBoth
  <2> QED BY <2>1, <2>4, <2>5, ReceiveFrameAsks DEF Continue
<1> QED BY <1>1, <1>2

\* onOpen is called behind the response.
LEMMA OpenedTells ==
    ASSUME NEW x, HasBoth(x), NEW z \in Opened(x)
    PROVE  /\ HasProtocol(z) /\ Keeps(x.s, z.s)
           /\ SameSession([x.p EXCEPT !.opens = @ + 1], z.p)
<1>1. PICK y \in Sent(x) : z \in HandlerCall([y EXCEPT !.p.opens = @ + 1])
  BY DEF Opened
<1> DEFINE w == [y EXCEPT !.p.opens = @ + 1]
<1>2. Goes(x, y)
  BY SentGoes
<1>3. HasBoth(w) /\ w.s = y.s /\ SameSession([y.p EXCEPT !.opens = @ + 1], w.p)
  BY <1>2, GoesHas DEF HasBoth, HasProtocol, ProtocolFields, SameSession
<1>4. z \in HandlerCall(w)
  BY <1>1
<1> HIDE DEF w
<1>5. Goes(w, z)
  BY <1>3, <1>4, HandlerCallGoes
<1>6. HasProtocol(z) /\ Keeps(x.s, z.s)
  BY <1>2, <1>3, <1>5, KeepsTransitive DEF Goes
<1>7. SameSession([x.p EXCEPT !.opens = @ + 1], z.p)
  BY <1>2, <1>3, <1>5 DEF Goes, SameSession, HasBoth, HasProtocol, ProtocolFields
<1> QED BY <1>6, <1>7

-----------------------------------------------------------------------------
\* The session of the handler

\* The upgrade is the first read, and what follows it is read for a session that
\* was opened; onClose is called when the object is freed.
Counted(p) ==
    /\ p.opens = IF p.next \in {"request", "challenge"} THEN 0 ELSE 1
    /\ p.closes \in {0, 1} /\ (p.live => p.closes = 0)

\* One read at most is under way, and none behind an upgrade that went no further,
\* so that no second upgrade makes the object anew.
Serving(s, p) ==
    /\ HasStream(s) /\ Sound(s) /\ OneRead(s)
    /\ ~s.opened => NoRead(s) /\ ~p.live /\ p.closes = 0
    /\ Counted(p)
    /\ p.next = "request" /\ (p.live \/ p.closes = 1) => NoRead(s)

SessionInv ==
    /\ ProtocolFields \subseteq DOMAIN ws
    /\ Serving(stream, ws)
    /\ ws.live /\ ~ws.clientTerm => HasRead(stream)

\* The end of a callback: an exception closes the stream.
Served(x) ==
    /\ HasProtocol(x) /\ Serving(x.s, x.p)
    /\ x.p.live /\ ~x.p.clientTerm => HasRead(x.s) \/ x.thrown

\* What one step does to a session: nothing but end it, open it, give a message,
\* or close it.
Moves(p, q) ==
    \/ /\ q.opens = p.opens /\ q.messages = p.messages /\ q.closes = p.closes
       /\ p.clientTerm => q.clientTerm
    \/ /\ p.opens = 0 /\ q.opens = 1 /\ q.messages = p.messages
       /\ p.closes = 0 /\ q.closes = 0 /\ (p.clientTerm => q.clientTerm)
    \/ /\ p.opens = 1 /\ q.opens = 1 /\ q.messages = p.messages + 1
       /\ p.closes = 0 /\ q.closes = 0 /\ ~p.clientTerm
    \/ /\ q.opens = p.opens /\ q.messages = p.messages
       /\ p.closes = 0 /\ q.closes = 1

LEMMA SameSessionMoves ==
    ASSUME NEW p, NEW q, SameSession(p, q)
    PROVE  Moves(p, q)
BY DEF SameSession, Moves

LEMMA ServingKeeps ==
    ASSUME NEW s, NEW p, NEW r, NEW q, Serving(s, p), Keeps(s, r), SameSession(p, q)
    PROVE  Serving(r, q)
<1>1. Counted(q)
  BY DEF Serving, Counted, SameSession
<1> QED BY <1>1 DEF Serving, Keeps, Calm, SameSession

LEMMA SessionKept ==
    ASSUME SessionInv, Keeps(stream, stream'), SameSession(ws, ws'),
           ProtocolFields \subseteq DOMAIN ws'
    PROVE  SessionInv' /\ Moves(ws, ws')
<1>1. Serving(stream', ws')
  BY ServingKeeps DEF SessionInv
<1>2. ws'.live /\ ~ws'.clientTerm => HasRead(stream')
  BY DEF SessionInv, SameSession, Keeps
<1> QED BY <1>1, <1>2, SameSessionMoves DEF SessionInv

LEMMA SameSessionReflexive ==
    ASSUME NEW p
    PROVE  SameSession(p, p)
BY DEF SameSession

\* The wrapper of runCallback leaves a session as the callback did.
LEMMA EndsServed ==
    ASSUME NEW x, Served(x), Moves(ws, x.p), CallbackEnds(x)
    PROVE  SessionInv' /\ Moves(ws, ws')
<1> DEFINE r == IF x.thrown THEN Close(x.s) ELSE MaybeAddErrorListener(x.s)
<1>1. stream' = r /\ ws' = x.p
  BY DEF CallbackEnds
<1>2. Keeps(x.s, r) /\ (x.thrown => Closed(r))
  BY CloseCloses, ListenerKeeps DEF Served, Serving
<1> HIDE DEF r
<1>3. Serving(r, x.p)
  BY <1>2, ServingKeeps, SameSessionReflexive DEF Served
<1>4. x.p.live /\ ~x.p.clientTerm => HasRead(r)
  BY <1>2 DEF Served, Keeps, HasRead
<1>5. ProtocolFields \subseteq DOMAIN x.p
  BY DEF Served, HasProtocol
<1> QED BY <1>1, <1>3, <1>4, <1>5 DEF SessionInv

\* A callback that reads no more has ended, closed or thrown.
LEMMA GoesServed ==
    ASSUME NEW x, NEW y, Ready(x), Counted(x.p), Goes(x, y),
           y.p.live => y.p.clientTerm \/ Closed(y.s) \/ y.thrown
    PROVE  Served(y)
<1>1. Ready(y)
  BY GoesReady
<1>2. Counted(y.p)
  BY DEF Goes, SameSession, Counted
<1> QED BY <1>1, <1>2 DEF Served, Serving, Ready, HasBoth, NoRead, OneRead, HasRead

\* One that does has asked for what belongs to a session that was opened, or for
\* the challenge before.
LEMMA AsksForServed ==
    ASSUME NEW x, NEW y, NEW next, Ready(x), AsksFor(x, y, next), next # "request",
           x.p.opens = IF next = "challenge" THEN 0 ELSE 1, x.p.closes = 0
    PROVE  Served(y)
<1>1. /\ y.p.next = next /\ y.p.opens = x.p.opens /\ y.p.closes = x.p.closes
  BY DEF AsksFor, SameSession, Ready, HasBoth, HasProtocol, ProtocolFields
<1>2. Counted(y.p)
  BY <1>1 DEF Counted
<1> QED BY <1>1, <1>2 DEF Served, Serving, AsksFor, Asked, Ready

LEMMA AsksForMoves ==
    ASSUME NEW x, NEW y, NEW next, HasProtocol(x), AsksFor(x, y, next), NEW p, Moves(p, x.p),
           p.closes = x.p.closes
    PROVE  Moves(p, y.p)
<1>1. /\ y.p.opens = x.p.opens /\ y.p.closes = x.p.closes /\ y.p.messages = x.p.messages
      /\ x.p.clientTerm => y.p.clientTerm
  BY DEF AsksFor, SameSession, HasProtocol, ProtocolFields
<1> QED BY <1>1 DEF Moves

-----------------------------------------------------------------------------
\* Steps

\* A callback begins: that of a read finds no other, and the request's no session.
LEMMA CallBegins ==
    ASSUME SessionInv, NEW run, Calls(run)
    PROVE  /\ HasBoth(Current) /\ Current.s = Begun /\ Current.p = ws /\ ~Current.thrown
           /\ Counted(ws)
           /\ run # "read" => Keeps(stream, Begun)
           /\ run = "read" =>
                /\ Ready(Current) /\ stream.opened
                /\ ws.next = "request" => ~ws.live /\ ws.closes = 0 /\ ws.opens = 0
<1>1. stream.queue # <<>> /\ (AnswersRead(NextHandler) <=> run = "read")
  BY DEF Calls, Dispatches, IsRun, AnswersRead
<1>2. Current.s = Begun /\ Current.p = ws /\ ~Current.thrown /\ HasProtocol(Current)
  BY DEF Current, HasProtocol, SessionInv
<1>3. /\ HasStream(Begun) /\ Begun.opened = stream.opened
      /\ Sound(stream) => Sound(Begun)
      /\ ~AnswersRead(NextHandler) => Keeps(stream, Begun)
      /\ AnswersRead(NextHandler) /\ OneRead(stream) => NoRead(Begun)
      /\ AnswersRead(NextHandler) => ~NoRead(stream)
  BY <1>1, TakenKeeps DEF SessionInv, Serving
<1> QED BY <1>1, <1>2, <1>3 DEF SessionInv, Serving, Counted, Ready, HasBoth

\* The upgrade opens the session, or is told no more.
LEMMA UpgradeSession ==
    ASSUME SessionInv, RunUpgrade
    PROVE  SessionInv' /\ Moves(ws, ws')
<1> DEFINE x == Current
           y == [x EXCEPT !.p.live = TRUE]
<1>1. /\ Ready(x) /\ x.p = ws /\ Counted(ws) /\ "thrown" \in DOMAIN x
      /\ ws.next = "request" /\ ~ws.live /\ ws.closes = 0 /\ ws.opens = 0
  BY CallBegins DEF RunUpgrade, Reads, Current
<1>2. \/ CallbackEnds(Abort(y))
      \/ CallbackEnds(Throw(y))
      \/ CallbackEnds(Throw(x))
      \/ \E z \in Sent(x) : CallbackEnds([z EXCEPT !.s = Close(@)])
      \/ \E z \in Opened(y) : CallbackEnds(ReceiveFrame(z))
      \/ \E z \in Sent(y) : CallbackEnds(ReadNext(z, FieldSize, "challenge"))
  BY DEF RunUpgrade
<1> HIDE DEF x
<1>3. /\ HasProtocol(y) /\ y.s = x.s /\ "thrown" \in DOMAIN y
      /\ y.p.opens = 0 /\ y.p.closes = 0 /\ y.p.next = "request"
      /\ y.p.messages = ws.messages /\ y.p.clientTerm = ws.clientTerm
  BY <1>1 DEF Ready, HasBoth, HasProtocol, ProtocolFields
<1> HIDE DEF y
<1>4. Ready(y) /\ Counted(y.p) /\ Moves(ws, y.p)
  BY <1>1, <1>3 DEF Ready, HasBoth, Counted, Moves
<1>5. CASE CallbackEnds(Abort(y))
  <2>1. Goes(y, Abort(y)) /\ Abort(y).p.clientTerm
    BY <1>4, AbortGoes DEF Ready
  <2>2. Served(Abort(y))
    BY <1>4, <2>1, GoesServed
  <2>3. Moves(ws, Abort(y).p)
    BY <1>1, <1>3, <2>1 DEF Goes, SameSession, Moves
  <2> QED BY <1>5, <2>2, <2>3, EndsServed
<1>6. CASE CallbackEnds(Throw(y))
  <2>1. Goes(y, Throw(y)) /\ Throw(y).thrown
    BY <1>3, <1>4, ThrowGoes DEF Ready, Throw
  <2>2. Served(Throw(y))
    BY <1>4, <2>1, GoesServed
  <2>3. Moves(ws, Throw(y).p)
    BY <1>1, <1>3, <2>1 DEF Goes, SameSession, Moves
  <2> QED BY <1>6, <2>2, <2>3, EndsServed
<1>7. CASE CallbackEnds(Throw(x))
  <2>1. Goes(x, Throw(x)) /\ Throw(x).thrown
    BY <1>1, ThrowGoes DEF Ready, Throw
  <2>2. Served(Throw(x))
    BY <1>1, <2>1, GoesServed
  <2>3. Moves(ws, Throw(x).p)
    BY <1>1, <2>1, SameSessionMoves DEF Goes
  <2> QED BY <1>7, <2>2, <2>3, EndsServed
<1>8. CASE \E z \in Sent(x) : CallbackEnds([z EXCEPT !.s = Close(@)])
  <2>1. PICK z \in Sent(x) : CallbackEnds([z EXCEPT !.s = Close(@)])
    BY <1>8
  <2>2. Goes(x, z) /\ HasBoth(z)
    BY <1>1, SentGoes, GoesHas DEF Ready
  <2> DEFINE c == Close(z.s)
             w == [z EXCEPT !.s = c]
  <2>3. Keeps(z.s, c) /\ Closed(c)
    BY <2>2, CloseCloses DEF HasBoth
  <2>4. CallbackEnds(w)
    BY <2>1
  <2> HIDE DEF c
  <2>5. Goes(z, w) /\ w.s = c
    BY <2>2, <2>3 DEF HasBoth, HasProtocol, Goes, SameSession
  <2> HIDE DEF w
  <2>6. Goes(x, w)
    BY <2>2, <2>5, GoesTransitive
  <2>7. Served(w)
    BY <1>1, <2>3, <2>5, <2>6, GoesServed
  <2>8. Moves(ws, w.p)
    BY <1>1, <2>6, SameSessionMoves DEF Goes
  <2> QED BY <2>4, <2>7, <2>8, EndsServed
<1>9. CASE \E z \in Opened(y) : CallbackEnds(ReceiveFrame(z))
  <2>1. PICK z \in Opened(y) : CallbackEnds(ReceiveFrame(z))
    BY <1>9
  <2>2. /\ HasProtocol(z) /\ Keeps(y.s, z.s)
        /\ SameSession([y.p EXCEPT !.opens = @ + 1], z.p)
    BY <1>4, <2>1, OpenedTells DEF Ready
  <2>3. Ready(z)
    BY <1>4, <2>2 DEF Ready, HasBoth, Keeps, Calm
  <2>4. /\ z.p.opens = 1 /\ z.p.closes = 0 /\ z.p.messages = ws.messages
        /\ ws.clientTerm => z.p.clientTerm
    BY <1>3, <2>2 DEF SameSession, HasProtocol, ProtocolFields
  <2>5. AsksFor(z, ReceiveFrame(z), "start")
    BY <2>3, ReceiveFrameAsks
  <2>6. Served(ReceiveFrame(z))
    BY <2>3, <2>4, <2>5, AsksForServed
  <2>7. Moves(ws, z.p)
    BY <1>1, <2>4 DEF Moves
  <2>8. Moves(ws, ReceiveFrame(z).p)
    BY <1>1, <2>2, <2>4, <2>5, <2>7, AsksForMoves
  <2> QED BY <2>1, <2>6, <2>8, EndsServed
<1>10. CASE \E z \in Sent(y) : CallbackEnds(ReadNext(z, FieldSize, "challenge"))
  <2>1. PICK z \in Sent(y) : CallbackEnds(ReadNext(z, FieldSize, "challenge"))
    BY <1>10
  <2> DEFINE r == ReadNext(z, FieldSize, "challenge")
  <2>2. Goes(y, z)
    BY <1>4, SentGoes DEF Ready
  <2>3. Ready(z)
    BY <1>4, <2>2, GoesReady
  <2>4. AsksFor(z, r, "challenge")
    BY <2>3, ReadNextAsks
  <2>5. z.p.opens = 0 /\ z.p.closes = 0 /\ Moves(ws, z.p)
    BY <1>1, <1>3, <2>2 DEF Goes, SameSession, Moves
  <2> HIDE DEF r
  <2>6. Served(r)
    BY <2>3, <2>4, <2>5, AsksForServed
  <2>7. Moves(ws, r.p)
    BY <1>1, <2>2, <2>4, <2>5, AsksForMoves DEF Goes
  <2> QED BY <2>1, <2>6, <2>7, EndsServed DEF r
<1> QED BY <1>2, <1>5, <1>6, <1>7, <1>8, <1>9, <1>10

\* A read for a session that is open, or for the challenge before.
LEMMA ReadBegins ==
    ASSUME SessionInv, NEW next, Reads(next), next # "request"
    PROVE  /\ Ready(Current) /\ Current.p = ws /\ Counted(ws) /\ ws.live /\ ws.closes = 0
           /\ "thrown" \in DOMAIN Current
           /\ ws.next = next /\ ws.opens = (IF next = "challenge" THEN 0 ELSE 1)
BY CallBegins DEF Reads, Counted, Current

\* A method that ends the session in a callback.
LEMMA EndsBy ==
    ASSUME SessionInv, Ready(Current), Current.p = ws, NEW y, Goes(Current, y), CallbackEnds(y),
           y.p.clientTerm \/ Closed(y.s) \/ y.thrown
    PROVE  SessionInv' /\ Moves(ws, ws')
<1>1. Served(y)
  BY GoesServed DEF SessionInv, Serving
<1>2. Moves(ws, y.p)
  BY SameSessionMoves DEF Goes
<1> QED BY <1>1, <1>2, EndsServed

\* One that asks for the next part of a session.
LEMMA AsksBy ==
    ASSUME SessionInv, Ready(Current), Current.p = ws, NEW next, NEW y, AsksFor(Current, y, next),
           CallbackEnds(y), next \notin {"request", "challenge"}, ws.opens = 1, ws.closes = 0
    PROVE  SessionInv' /\ Moves(ws, ws')
<1>1. Served(y)
  BY AsksForServed
<1>2. Moves(ws, ws)
  BY SameSessionReflexive, SameSessionMoves
<1>3. Moves(ws, y.p)
  BY <1>2, AsksForMoves DEF Ready, HasBoth
<1> QED BY <1>1, <1>3, EndsServed

LEMMA HeaderSession ==
    ASSUME SessionInv, RunFrameStart \/ RunFrameLength \/ RunMaskingKey
    PROVE  SessionInv' /\ Moves(ws, ws')
<1> DEFINE c == Current
           y == [c EXCEPT !.p.extended = TRUE]
<1>1. Ready(c) /\ c.p = ws /\ ws.opens = 1 /\ ws.closes = 0
  <2>1. PICK next \in {"start", "length", "key"} : Reads(next)
    BY DEF RunFrameStart, RunFrameLength, RunMaskingKey
  <2> QED BY <2>1, ReadBegins
<1>2. \/ CallbackEnds(Abort(c))
      \/ CallbackEnds(Read(y, FieldSize, "length"))
      \/ CallbackEnds(Read(c, FieldSize, "key"))
      \/ \E n \in 0..MaxPayload : CallbackEnds(Read(c, n, "payload"))
  BY DEF RunFrameStart, RunFrameLength, RunMaskingKey
<1>3. Goes(c, y)
  <2> HIDE DEF c
  <2> QED BY <1>1, KeepsReflexive DEF Ready, HasBoth, HasProtocol, ProtocolFields, Goes, SameSession
<1> HIDE DEF y
<1>4. AsksFor(c, Read(y, FieldSize, "length"), "length")
  BY <1>1, <1>3, GoesReady, GoesHas, ReadAsks, GoesAsksFor DEF Ready
<1>5. Goes(c, Abort(c)) /\ Abort(c).p.clientTerm
  BY <1>1, AbortGoes DEF Ready
<1>6. /\ AsksFor(c, Read(c, FieldSize, "key"), "key")
      /\ \A n : AsksFor(c, Read(c, n, "payload"), "payload")
  BY <1>1, ReadAsks
<1>7. CASE CallbackEnds(Abort(c))
  BY <1>1, <1>5, <1>7, EndsBy
<1>8. CASE CallbackEnds(Read(y, FieldSize, "length"))
  BY <1>1, <1>4, <1>8, AsksBy
<1>9. CASE CallbackEnds(Read(c, FieldSize, "key"))
  BY <1>1, <1>6, <1>9, AsksBy
<1>10. ASSUME NEW n, CallbackEnds(Read(c, n, "payload"))
       PROVE  SessionInv' /\ Moves(ws, ws')
  BY <1>1, <1>6, <1>10, AsksBy
<1> QED BY <1>2, <1>7, <1>8, <1>9, <1>10

\* A frame may bring a message, to a session that has not ended.
LEMMA FrameSession ==
    ASSUME SessionInv, RunFrameData
    PROVE  SessionInv' /\ Moves(ws, ws')
<1> DEFINE c == Current
<1>1. Ready(c) /\ c.p = ws /\ ws.opens = 1 /\ ws.closes = 0 /\ Counted(ws)
  BY ReadBegins DEF RunFrameData
<1>2. PICK fin, op, data, z : z \in FrameData(c, fin, op, data) /\ CallbackEnds(z)
  BY DEF RunFrameData
<1> HIDE DEF c
<1>3. PICK y : /\ Tells(c, y)
               /\ \/ z = y /\ (y.p.clientTerm \/ y.thrown)
                  \/ Ready(y) /\ AsksFor(y, z, "start")
  BY <1>1, <1>2, FrameDataTells
<1>4. Ready(y)
  BY <1>1, <1>3 DEF Tells, Keeps, Calm, Ready, HasBoth
<1>5. y.p.opens = 1 /\ y.p.closes = 0 /\ Counted(y.p) /\ Moves(ws, y.p)
  BY <1>1, <1>3 DEF Tells, Counted, Moves
<1>6. Served(z) /\ Moves(ws, z.p)
  <2>1. CASE z = y /\ (y.p.clientTerm \/ y.thrown)
    BY <1>4, <1>5, <2>1, GoesServed, GoesReflexive DEF Ready
  <2>2. CASE AsksFor(y, z, "start")
    BY <1>1, <1>4, <1>5, <2>2, AsksForServed, AsksForMoves DEF Ready, HasBoth
  <2> QED BY <1>3, <2>1, <2>2
<1> QED BY <1>2, <1>6, EndsServed

\* Draft 76: the challenge opens the session; its frames bring no message.
LEMMA Draft76Session ==
    ASSUME SessionInv, RunChallenge \/ RunFrameType \/ RunLengthIndicator
    PROVE  SessionInv' /\ Moves(ws, ws')
<1> DEFINE c == Current
<1>1. /\ Ready(c) /\ c.p = ws /\ Counted(ws) /\ ws.closes = 0 /\ "thrown" \in DOMAIN c
      /\ RunChallenge => ws.opens = 0
      /\ RunFrameType \/ RunLengthIndicator => ws.opens = 1
  BY ReadBegins DEF RunChallenge, RunFrameType, RunLengthIndicator
<1>2. Goes(c, Abort(c)) /\ Abort(c).p.clientTerm
  BY <1>1, AbortGoes DEF Ready
<1>3. Goes(c, Throw(c)) /\ Throw(c).thrown
  <2> HIDE DEF c
  <2> QED BY <1>1, ThrowGoes DEF Ready, Throw
<1>4. CASE RunChallenge
  <2>1. \/ CallbackEnds(Abort(c))
        \/ CallbackEnds(Throw(c))
        \/ \E x \in Opened(c) : CallbackEnds(ReadNext(x, FieldSize, "type"))
    BY <1>4 DEF RunChallenge
  <2>2. CASE \E x \in Opened(c) : CallbackEnds(ReadNext(x, FieldSize, "type"))
    <3> HIDE DEF c
    <3>1. PICK x \in Opened(c) : CallbackEnds(ReadNext(x, FieldSize, "type"))
      BY <2>2
    <3> DEFINE r == ReadNext(x, FieldSize, "type")
    <3>2. /\ HasProtocol(x) /\ Keeps(c.s, x.s)
          /\ SameSession([c.p EXCEPT !.opens = @ + 1], x.p)
      BY <1>1, <3>1, OpenedTells DEF Ready
    <3>3. Ready(x)
      BY <1>1, <3>2 DEF Ready, HasBoth, Keeps, Calm
    <3>4. /\ x.p.opens = 1 /\ x.p.closes = 0 /\ x.p.messages = ws.messages
          /\ ws.clientTerm => x.p.clientTerm
      BY <1>1, <1>4, <3>2 DEF SameSession, Ready, HasBoth, HasProtocol, ProtocolFields
    <3>5. AsksFor(x, r, "type")
      BY <3>3, ReadNextAsks
    <3> HIDE DEF r
    <3>6. Served(r)
      BY <3>3, <3>4, <3>5, AsksForServed
    <3>7. Moves(ws, x.p)
      BY <1>1, <1>4, <3>4 DEF Moves
    <3>8. Moves(ws, r.p)
      BY <1>1, <3>2, <3>4, <3>5, <3>7, AsksForMoves
    <3> QED BY <3>1, <3>6, <3>8, EndsServed DEF r
  <2> QED BY <1>1, <1>2, <1>3, <2>1, <2>2, EndsBy
<1>5. CASE RunFrameType
  <2>1. AsksFor(c, ReadNext(c, FieldSize, "indicator"), "indicator")
    BY <1>1, ReadNextAsks
  <2>2. \/ CallbackEnds(Abort(c)) \/ CallbackEnds(Throw(c))
        \/ CallbackEnds(ReadNext(c, FieldSize, "indicator"))
    BY <1>5 DEF RunFrameType
  <2> QED BY <1>1, <1>2, <1>3, <1>5, <2>1, <2>2, EndsBy, AsksBy
<1>6. CASE RunLengthIndicator
  <2> DEFINE y == [c EXCEPT !.p.clientTerm = TRUE]
  <2>1. CallbackEnds(Abort(c)) \/ \E x \in CloseProtocol(y) : CallbackEnds(x)
    BY <1>6 DEF RunLengthIndicator
  <2>2. Goes(c, y) /\ y.p.clientTerm
    <3> HIDE DEF c
    <3> QED BY <1>1, KeepsReflexive
               DEF Ready, HasBoth, HasProtocol, ProtocolFields, Goes, SameSession
  <2> HIDE DEF y
  <2>3. \A x \in CloseProtocol(y) : Goes(c, x) /\ x.p.clientTerm
    BY <2>2, GoesHas, CloseProtocolGoes, GoesTransitive DEF Goes, SameSession
  <2> QED BY <1>1, <1>2, <2>1, <2>3, EndsBy
<1> QED BY <1>4, <1>5, <1>6

\* The object is freed by the close callback.
LEMMA CloseSession ==
    ASSUME SessionInv, RunClose
    PROVE  SessionInv' /\ Moves(ws, ws')
<1> DEFINE c == Current
           x == Abort(c)
<1>1. HasBoth(c) /\ c.s = Begun /\ c.p = ws /\ ~c.thrown /\ Keeps(stream, Begun)
  BY CallBegins DEF RunClose
<1>2. CallbackEnds(IF ws.live THEN [x EXCEPT !.p = Dropped(@)] ELSE c)
  BY DEF RunClose
<1> HIDE DEF c
<1>3. Goes(c, x)
  BY <1>1, AbortGoes
<1> HIDE DEF x
<1>4. CASE ws.live
  <2> DEFINE d == Dropped(x.p)
             y == [x EXCEPT !.p = d]
  <2>1. /\ ProtocolFields \subseteq DOMAIN d /\ ~d.live /\ d.closes = 1
        /\ d.opens = ws.opens /\ d.messages = ws.messages /\ d.next = ws.next
    BY <1>1, <1>3, <1>4
       DEF Dropped, Goes, SameSession, HasProtocol, ProtocolFields, SessionInv, Serving, Counted
  <2>2. CallbackEnds(y)
    BY <1>2, <1>3, <1>4 DEF Goes, HasProtocol
  <2> HIDE DEF d
  <2>3. y.p = d /\ y.s = x.s /\ HasProtocol(y)
    BY <1>3, <2>1 DEF Goes, HasProtocol
  <2> HIDE DEF y
  <2>4. Keeps(stream, y.s)
    BY <1>1, <1>3, <2>3, KeepsTransitive DEF Goes
  <2>5. stream.opened /\ ws.closes = 0 /\ Counted(ws) /\ (ws.next = "request" => NoRead(stream))
    BY <1>4 DEF SessionInv, Serving, Counted
  <2>6. Counted(d)
    BY <2>1, <2>5 DEF Counted
  <2>7. Serving(y.s, d)
    BY <2>1, <2>4, <2>5, <2>6 DEF SessionInv, Serving, Keeps, Calm
  <2>8. Served(y)
    BY <2>1, <2>3, <2>7 DEF Served
  <2>9. Moves(ws, y.p)
    BY <2>1, <2>3, <2>5 DEF Moves
  <2> QED BY <2>2, <2>8, <2>9, EndsServed
<1>5. CASE ~ws.live
  <2>1. Serving(c.s, c.p)
    BY <1>1, ServingKeeps, SameSessionReflexive DEF SessionInv
  <2>2. Served(c)
    BY <1>1, <1>5, <2>1 DEF Served, HasBoth
  <2>3. Moves(ws, c.p)
    BY <1>1, SameSessionReflexive, SameSessionMoves
  <2> QED BY <1>2, <1>5, <2>2, <2>3, EndsServed
<1> QED BY <1>4, <1>5

\* A callback that is an empty function, or that finds the object freed.
LEMMA EmptySession ==
    ASSUME SessionInv, RunEmpty \/ RunReadFreed
    PROVE  SessionInv' /\ Moves(ws, ws')
<1>1. CASE RunEmpty
  <2> DEFINE x == [Current EXCEPT !.thrown = TRUE]
  <2>1. PICK run \in Empty : Calls(run)
    BY <1>1 DEF RunEmpty
  <2>2. HasBoth(Current) /\ Current.s = Begun /\ Current.p = ws /\ Keeps(stream, Begun)
    BY <2>1, CallBegins DEF Empty
  <2>3. x.s = Begun /\ x.p = ws /\ x.thrown /\ HasProtocol(x)
    BY <2>2 DEF HasBoth, HasProtocol, Current
  <2>4. CallbackEnds(x)
    BY <1>1 DEF RunEmpty
  <2> HIDE DEF x
  <2>5. Serving(x.s, x.p)
    BY <2>2, <2>3, ServingKeeps, SameSessionReflexive DEF SessionInv
  <2>6. Served(x)
    BY <2>3, <2>5 DEF Served
  <2>7. Moves(ws, x.p)
    BY <2>3, SameSessionReflexive, SameSessionMoves
  <2> QED BY <2>4, <2>6, <2>7, EndsServed
<1>2. CASE RunReadFreed
  <2> DEFINE u == [Begun EXCEPT !.undefined = TRUE]
  <2>1. /\ Ready(Current) /\ Current.s = Begun /\ stream.opened /\ Counted(ws)
        /\ ~ws.live /\ ws.next # "request"
        /\ stream' = u /\ ws' = ws
    BY <1>2, CallBegins DEF RunReadFreed
  <2>2. Same(Begun, u)
    BY <2>1 DEF Ready, HasBoth, ReadFields, HasStream, Same, Quiet
  <2> HIDE DEF u
  <2>3. Keeps(Begun, u)
    BY <2>2, SameKeeps
  <2>4. HasStream(u) /\ NoRead(u) /\ Sound(u) /\ u.opened
    BY <2>1, <2>3 DEF Ready, Keeps, Calm
  <2>5. Serving(u, ws)
    BY <2>1, <2>4 DEF Serving, NoRead, OneRead
  <2>6. SessionInv'
    BY <2>1, <2>5 DEF SessionInv
  <2> QED BY <2>1, <2>6, SameSessionReflexive, SameSessionMoves
<1> QED BY <1>1, <1>2

\* The timeout of the closing handshake.
LEMMA WaitingSession ==
    ASSUME SessionInv, RunWaiting \/ ExpireWaiting
    PROVE  SessionInv' /\ Moves(ws, ws')
<1>1. CASE RunWaiting
  <2> DEFINE x == [s |-> Taken, p |-> [ws EXCEPT !.waiting = "off"], thrown |-> FALSE]
             u == [x EXCEPT !.s.undefined = TRUE]
             y == IF ws.live THEN Abort(x) ELSE u
  <2>1. stream' = y.s /\ ws' = y.p
    BY <1>1 DEF RunWaiting
  <2>2. stream.queue # <<>> /\ "timer" \in DOMAIN NextHandler
    BY <1>1 DEF RunWaiting, Dispatches
  <2>3. OneKind(NextHandler)
    BY <2>2, TailOfFifo DEF SessionInv, Serving, ReadFields, HasStream, NextHandler
  <2>4. HasStream(Taken) /\ Keeps(stream, Taken)
    BY <2>2, <2>3, TakenKeeps DEF OneKind, AnswersRead, SessionInv, Serving
  <2>5. HasBoth(x) /\ x.s = Taken /\ SameSession(ws, x.p)
    BY <2>4 DEF HasBoth, HasProtocol, ProtocolFields, SessionInv, SameSession
  <2> HIDE DEF x
  <2>6. Goes(x, u)
    <3> DEFINE t == [x.s EXCEPT !.undefined = TRUE]
    <3>1. Same(x.s, t)
      BY <2>5 DEF HasBoth, ReadFields, HasStream, Same, Quiet
    <3>2. u = [x EXCEPT !.s = t]
      BY <2>5 DEF HasBoth, HasProtocol
    <3> HIDE DEF t
    <3> QED BY <2>5, <3>1, <3>2, SameKeeps DEF HasBoth, HasProtocol, Goes, SameSession
  <2> HIDE DEF u
  <2>7. Goes(x, y)
    BY <2>5, <2>6, AbortGoes
  <2> HIDE DEF y
  <2>8. Keeps(stream, stream') /\ SameSession(ws, ws') /\ ProtocolFields \subseteq DOMAIN ws'
    BY <2>1, <2>4, <2>5, <2>7, KeepsTransitive DEF Goes, SameSession, HasProtocol
  <2> QED BY <2>8, SessionKept
<1>2. CASE ExpireWaiting
  <2>1. Keeps(stream, stream')
    BY <1>2, ExpireKeeps DEF SessionInv, Serving
  <2>2. SameSession(ws, ws') /\ ProtocolFields \subseteq DOMAIN ws'
    BY <1>2 DEF ExpireWaiting, SessionInv, ProtocolFields, SameSession
  <2> QED BY <2>1, <2>2, SessionKept
<1> QED BY <1>1, <1>2

\* The application writes or closes.
LEMMA AppSession ==
    ASSUME SessionInv, AppMessage \/ AppClose
    PROVE  SessionInv' /\ Moves(ws, ws')
<1> DEFINE t == [stream EXCEPT !.writes = @ + 1]
           x == [s |-> t, p |-> ws]
           z == [s |-> stream, p |-> ws]
<1>1. Keeps(stream, t) /\ HasStream(t) /\ HasStream(stream)
  <2>1. Same(stream, t)
    BY DEF SessionInv, Serving, ReadFields, HasStream, Same, Quiet
  <2> QED BY <2>1, SameKeeps DEF Same, Quiet, SessionInv, Serving
<1>2. (\E y \in WriteMessage(x) : stream' = y.s /\ ws' = y.p)
      \/ (\E y \in CloseProtocol(z) : stream' = y.s /\ ws' = y.p)
  BY DEF AppMessage, AppClose
<1> HIDE DEF t
<1>3. HasBoth(x) /\ x.p = ws /\ x.s = t /\ HasBoth(z) /\ z.p = ws /\ z.s = stream
  BY <1>1 DEF HasBoth, HasProtocol, SessionInv
<1> HIDE DEF x, z
<1>4. Keeps(stream, x.s) /\ Keeps(stream, z.s)
  BY <1>1, <1>3, KeepsReflexive
<1>5. PICK v \in {x, z} : \E y : Goes(v, y) /\ stream' = y.s /\ ws' = y.p
  BY <1>2, <1>3, WriteMessageGoes, CloseProtocolGoes
<1>6. Keeps(stream, stream') /\ SameSession(ws, ws') /\ ProtocolFields \subseteq DOMAIN ws'
  BY <1>3, <1>4, <1>5, KeepsTransitive DEF Goes, HasProtocol
<1> QED BY <1>6, SessionKept

\* A stream is accepted, and its first read called.
LEMMA AcceptSession ==
    ASSUME SessionInv, AcceptSocket
    PROVE  SessionInv' /\ Moves(ws, ws')
<1> DEFINE a == [stream EXCEPT !.opened = TRUE]
           b == MaybeAddErrorListener(a)
           c == [b EXCEPT !.closeCb = TRUE]
<1>1. /\ ~stream.opened /\ ws' = ws
      /\ stream' = TryInlineRead(BeginReadUntil(c, "delim"))
  BY DEF AcceptSocket
<1>2. /\ HasStream(stream) /\ Sound(stream) /\ NoRead(stream)
      /\ ~ws.live /\ ws.closes = 0 /\ Counted(ws)
  BY <1>1 DEF SessionInv, Serving
<1>3. HasStream(a) /\ Sound(a) /\ NoRead(a) /\ a.opened
  BY <1>2 DEF ReadFields, HasStream, Sound, NoRead, Closed
<1> HIDE DEF a
<1>4. Keeps(a, b)
  BY <1>3, ListenerKeeps
<1> HIDE DEF b
<1>5. HasStream(c) /\ Sound(c) /\ NoRead(c) /\ c.opened
  BY <1>3, <1>4 DEF Keeps, Calm, ReadFields, HasStream, Sound, NoRead, Closed
<1> HIDE DEF c
<1>6. Asked(c, stream')
  BY <1>1, <1>5, ReadUntilAsked
<1>7. Serving(stream', ws)
  <2> DEFINE r == stream'
  <2>1. HasStream(r) /\ Sound(r) /\ OneRead(r) /\ r.opened
    BY <1>5, <1>6 DEF Asked
  <2> HIDE DEF r
  <2>2. Serving(r, ws)
    BY <1>2, <2>1 DEF Serving
  <2> QED BY <2>2 DEF r
<1>8. SessionInv'
  BY <1>1, <1>2, <1>7 DEF SessionInv
<1> QED BY <1>1, <1>8, SameSessionReflexive, SameSessionMoves

\* Completions, in the reactor and in the loop.
LEMMA CompletionSession ==
    ASSUME SessionInv, RunCompletion \/ \E op \in Operations : WebSocketComplete(op)
    PROVE  SessionInv' /\ Moves(ws, ws')
<1>1. Keeps(stream, stream') /\ ws' = ws
  BY HandleCompletionKeeps, CompleteKeeps
     DEF RunCompletion, WebSocketComplete, SessionInv, Serving
<1> QED BY <1>1, SessionKept, SameSessionReflexive DEF SessionInv

LEMMA InitSession == WebSocketInit => SessionInv
<1> SUFFICES ASSUME WebSocketInit PROVE SessionInv
  OBVIOUS
<1>1. stream = Fresh
  BY DEF WebSocketInit, Init
<1>2. IsFifo(stream.queue) /\ stream.queue = <<>>
  <2>1. <<>> \in Seq({})
    OBVIOUS
  <2> QED BY <1>1, <2>1 DEF Fresh, IsFifo
<1>3. /\ ReadFields \subseteq DOMAIN stream
      /\ stream.reads \in Nat /\ stream.readCb = 0 /\ ~stream.opened
  BY <1>1 DEF Fresh, ReadFields
<1>4. ReadsIn(stream.queue) = {} /\ AllRegular(stream.queue)
  BY <1>2 DEF ReadsIn, AllRegular
<1>5. HasStream(stream) /\ Sound(stream) /\ NoRead(stream) /\ OneRead(stream)
  BY <1>2, <1>3, <1>4 DEF ReadFields, HasStream, Sound, NoRead, OneRead
<1>6. /\ ProtocolFields \subseteq DOMAIN ws /\ ~ws.live /\ ws.closes = 0 /\ ws.opens = 0
      /\ ws.next = "request"
  BY DEF WebSocketInit, ProtocolFields
<1>7. Counted(ws)
  BY <1>6 DEF Counted
<1> QED BY <1>3, <1>5, <1>6, <1>7 DEF SessionInv, Serving

LEMMA StepSession ==
    ASSUME SessionInv, [WebSocketNext]_wsVars
    PROVE  SessionInv' /\ Moves(ws, ws')
<1>1. CASE UNCHANGED wsVars
  <2>1. stream' = stream /\ ws' = ws
    BY <1>1 DEF wsVars, vars
  <2> QED BY <2>1, SameSessionReflexive, SameSessionMoves DEF SessionInv
<1>2. CASE RunRead
  BY <1>2, UpgradeSession, HeaderSession, FrameSession, Draft76Session DEF RunRead
<1>3. WebSocketNext =>
        \/ AcceptSocket \/ ExpireWaiting \/ AppMessage \/ AppClose
        \/ RunCompletion \/ \E op \in Operations : WebSocketComplete(op)
        \/ RunRead \/ RunReadFreed \/ RunClose \/ RunEmpty \/ RunWaiting
  BY ZenonT(30) DEF WebSocketNext, WebSocketStep
<1> QED BY <1>1, <1>2, <1>3, AcceptSession, CompletionSession, WaitingSession, AppSession,
           CloseSession, EmptySession

LEMMA SessionInvariant == SessionInv /\ [WebSocketNext]_wsVars => SessionInv'
BY StepSession

\* While both sides are open a read is called or its answer posted, whatever frames,
\* fragments and control frames have come: the connection is never left unread.
THEOREM FramesAwaited == WebSocketSpec => []WaitsForFrames
<1>1. SessionInv => WaitsForFrames
  <2> SUFFICES ASSUME SessionInv, ws.live, ~ws.clientTerm, ~Closed(stream), stream.readCb = 0
               PROVE  \E i \in RunIndices : stream.queue[i].run = "read"
    BY DEF WaitsForFrames
  <2>1. PICK i : i \in ReadsIn(stream.queue)
    BY DEF SessionInv, HasRead
  <2>2. i \in RunIndices /\ stream.queue[i].run = "read"
    BY <2>1 DEF ReadsIn, AnswersRead, RunIndices, Indices, IsRun
  <2> QED BY <2>2
<1> QED BY <1>1, InitSession, SessionInvariant, PTL DEF WebSocketSpec

-----------------------------------------------------------------------------
\* The refinement of Session

LEMMA InitSees == WebSocketInit => S!Init
BY DEF WebSocketInit, S!Init, Stage

\* The stage of a session, for its members.
StageOf(p) ==
    IF p.closes = 1 THEN "closed"
    ELSE IF p.clientTerm THEN "ended"
    ELSE IF p.opens = 1 THEN "open" ELSE "upgrading"

LEMMA StageShown == SessionInv => Stage = StageOf(ws)
BY DEF SessionInv, Serving, Counted, Stage, StageOf

LEMMA StageShownNext == SessionInv' => Stage' = StageOf(ws')
<1> DEFINE Shown == Stage = StageOf(ws)
<1>1. SessionInv => Shown
  BY StageShown
<1> HIDE DEF Shown
<1>2. SessionInv' => Shown'
  BY <1>1, PTL
<1> QED BY <1>2 DEF Shown

LEMMA MovesStage ==
    ASSUME NEW p, NEW q, Counted(p), Counted(q), Moves(p, q)
    PROVE  \/ StageOf(q) = StageOf(p) /\ q.messages = p.messages
           \/ /\ StageOf(p) \in {"upgrading", "open"} /\ StageOf(q) \in {"open", "ended"}
              /\ q.messages = p.messages
           \/ /\ StageOf(p) = "open" /\ StageOf(q) \in {"open", "ended"}
              /\ q.messages = p.messages + 1
           \/ /\ StageOf(p) # "closed" /\ StageOf(q) = "closed" /\ q.messages = p.messages
BY DEF Counted, Moves, StageOf

LEMMA MessageGiven ==
    ASSUME NEW a, NEW b, NEW m
    PROVE  [[stage |-> a, messages |-> m] EXCEPT !.stage = b, !.messages = @ + 1]
           = [stage |-> b, messages |-> m + 1]
<1> DEFINE n == m + 1
           s == [stage |-> a, messages |-> m]
           t == [s EXCEPT !.stage = b, !.messages = n]
           r == [stage |-> b, messages |-> n]
<1> HIDE DEF n
<1>1. /\ DOMAIN t = {"stage", "messages"} /\ t.stage = b /\ t.messages = n
      /\ t = [i \in {"stage", "messages"} |-> t[i]]
  OBVIOUS
<1>2. r = [i \in {"stage", "messages"} |-> r[i]] /\ r.stage = b /\ r.messages = n
  OBVIOUS
<1>3. s.messages = m
  OBVIOUS
<1> HIDE DEF t, r
<1>4. \A i \in {"stage", "messages"} : t[i] = r[i]
  BY <1>1, <1>2
<1>5. t = r
  BY <1>1, <1>2, <1>4
<1> QED BY <1>3, <1>5 DEF t, r, n

LEMMA StepSees ==
    ASSUME SessionInv, [WebSocketNext]_wsVars
    PROVE  [S!Next]_[stage |-> Stage, messages |-> ws.messages]
<1>1. SessionInv' /\ Moves(ws, ws')
  BY StepSession
<1>2. Stage = StageOf(ws) /\ Stage' = StageOf(ws')
  BY <1>1, StageShown, StageShownNext
<1>3. Counted(ws) /\ Counted(ws')
  BY <1>1 DEF SessionInv, Serving
<1>4. \/ Stage' = Stage /\ ws'.messages = ws.messages
      \/ /\ Stage \in {"upgrading", "open"} /\ Stage' \in {"open", "ended"}
         /\ ws'.messages = ws.messages
      \/ /\ Stage = "open" /\ Stage' \in {"open", "ended"}
         /\ ws'.messages = ws.messages + 1
      \/ /\ Stage # "closed" /\ Stage' = "closed" /\ ws'.messages = ws.messages
  BY <1>1, <1>2, <1>3, MovesStage
<1> HIDE DEF Stage
<1>5. CASE Stage' = Stage /\ ws'.messages = ws.messages
  BY <1>5
<1>6. CASE /\ Stage = "upgrading" /\ Stage' \in {"open", "ended"}
           /\ ws'.messages = ws.messages
  BY <1>6 DEF S!Next, S!Open
<1>7. CASE Stage = "open" /\ Stage' = "ended" /\ ws'.messages = ws.messages
  BY <1>7 DEF S!Next, S!End
<1>8. CASE /\ Stage = "open" /\ Stage' \in {"open", "ended"}
           /\ ws'.messages = ws.messages + 1
  <2> DEFINE s == [stage |-> Stage, messages |-> ws.messages]
             r == [stage |-> Stage', messages |-> ws'.messages]
  <2>1. [s EXCEPT !.stage = Stage', !.messages = @ + 1] = r
    BY <1>8, MessageGiven, ZenonT(30)
  <2> QED BY <1>8, <2>1 DEF S!Next, S!Message
<1>9. CASE Stage # "closed" /\ Stage' = "closed" /\ ws'.messages = ws.messages
  BY <1>9 DEF S!Next, S!Close
<1> QED BY <1>4, <1>5, <1>6, <1>7, <1>8, <1>9

\* The handler of websocket.cpp sees a Session: it is opened before every message and
\* told of none behind the end, and of the close once and last, however timeouts,
\* aborts and frames already in the buffer or the loop fall.
THEOREM SessionSeen == WebSocketSpec => SeesSession
<1>1. SessionInv /\ [WebSocketNext]_wsVars => [S!Next]_[stage |-> Stage, messages |-> ws.messages]
  BY StepSees
<1> QED BY InitSession, InitSees, SessionInvariant, <1>1, PTL DEF WebSocketSpec, SeesSession, S!Spec
=============================================================================
