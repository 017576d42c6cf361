------------------------------ MODULE MCWebSocket ------------------------------
(***************************************************************************)
(* Values of MarkAt for the runs of WebSocket.                             *)
(***************************************************************************)
EXTENDS WebSocket

\* The first byte is the upgrade request.
MCRequest == [delim |-> {1}, regex |-> {}]
=============================================================================
