--------------------------------- MODULE Fetch ---------------------------------
(***************************************************************************)
(* What HTTPClient::fetch promises its caller: the callback is called      *)
(* once.  The fetch waits until its answer (a response or the error 599)   *)
(* is due, and then calls the callback; or it passes the callback on to    *)
(* the fetch of a redirect, and never uses it again.                       *)
(***************************************************************************)
VARIABLE fetch

Stages == {"waiting", "due", "answered", "redirected"}

Init == fetch = "waiting"

AnswerDue == fetch = "waiting" /\ fetch' = "due"
CallBack == fetch = "due" /\ fetch' = "answered"
Redirect == fetch = "waiting" /\ fetch' = "redirected"

Next == AnswerDue \/ CallBack \/ Redirect

Spec == Init /\ [][Next]_fetch
=============================================================================
