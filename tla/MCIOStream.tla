----------------------------- MODULE MCIOStream -----------------------------
(***************************************************************************)
(* Values of MarkAt for the runs of IOStream.                              *)
(***************************************************************************)
EXTENDS IOStream

\* The delimiter ends with the last byte.
MCDelim == [delim |-> {MaxBytes}, regex |-> {}]

\* A delimiter that occurs twice, the second time at the end of the data, and a
\* regex that matches in between.
MCDelimAndRegex == [delim |-> {1, 3}, regex |-> {2}]
=============================================================================
