-------------------------------- MODULE Session --------------------------------
(***************************************************************************)
(* What a WebSocketHandler of src/src/tinycore/asyncio/websocket.h sees of *)
(* one connection: onOpen at most once, messages only after it and until   *)
(* the client has ended the connection or it was aborted, onClose at most  *)
(* once and last.                                                          *)
(***************************************************************************)
EXTENDS Naturals

VARIABLE session

Init == session = [stage |-> "upgrading", messages |-> 0]

\* The application may abort what it is told of.
Open ==
    /\ session.stage = "upgrading"
    /\ \E stage \in {"open", "ended"} : session' = [session EXCEPT !.stage = stage]

Message ==
    /\ session.stage = "open"
    /\ \E stage \in {"open", "ended"} :
         session' = [session EXCEPT !.stage = stage, !.messages = @ + 1]

End ==
    /\ session.stage = "open"
    /\ session' = [session EXCEPT !.stage = "ended"]

\* A connection may close before it was upgraded.
Close ==
    /\ session.stage # "closed"
    /\ session' = [session EXCEPT !.stage = "closed"]

Next == Open \/ Message \/ End \/ Close

Spec == Init /\ [][Next]_session
=============================================================================
