------------------------------- MODULE MCIOLoop -------------------------------
(***************************************************************************)
(* Values of Throws for the runs of IOLoop.                                *)
(***************************************************************************)
EXTENDS IOLoop

\* Posted functions and timeouts throw anything, PeriodicCallback's callback a
\* std::exception, signal callbacks nothing.
MCThrows ==
    [k \in Kinds |-> CASE k \in {"callback", "timeout"} -> Exceptions
                       [] k = "tick" -> {"std"}
                       [] OTHER -> {}]
=============================================================================
