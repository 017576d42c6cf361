--------------------------- MODULE MCHTTPConnection ---------------------------
(***************************************************************************)
(* Values of MarkAt for the runs of HTTPConnection.                        *)
(***************************************************************************)
EXTENDS HTTPConnection

\* Any byte may end a header block.
MCHeaders == [delim |-> 1..MaxBytes, regex |-> {}]
=============================================================================
