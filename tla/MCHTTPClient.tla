----------------------------- MODULE MCHTTPClient -----------------------------
(***************************************************************************)
(* Values of MarkAt for the runs of HTTPClient.                            *)
(***************************************************************************)
EXTENDS HTTPClient

\* Any byte may end a header block or a length line.
MCLines == [delim |-> 1..MaxBytes, regex |-> 1..MaxBytes]
=============================================================================
