------------------------------- MODULE MCCodecs -------------------------------
(***************************************************************************)
(* Inputs of Codecs for TLC: one or two parameters, base paths of up to    *)
(* three directories with references of up to four segments, one or two    *)
(* frames.                                                                 *)
(***************************************************************************)
EXTENDS Codecs

CONSTANTS MaxValue,    \* bound: characters of a value
          MaxSegments  \* bound: segments of a reference

Texts(chars, max) == UNION {[1..n -> chars] : n \in 0..max}

MCHeaders ==
    LET Values(chars, max) ==
            {[name |-> n, value |-> v, quoted |-> TRUE] :
                n \in {<<"m">>, <<"n">>}, v \in Texts(chars, max)}
        plain == [name : {<<"m">>, <<"n">>}, value : {<<"a">>}, quoted : {FALSE}]
        last == plain \cup Values({"a", ";", "\"", "\\"}, MaxValue)
    IN  {<<p>> : p \in last}
            \cup {<<p, q>> : p \in plain \cup Values({"a", "\"", "\\"}, 2), q \in last}

MCJoins ==
    LET bases == {<<"">> \o dirs \o <<file>> : dirs \in Texts({"a", "b"}, 3), file \in {"", "c"}}
        paths == {p \in Texts({"d", ".", "..", ""}, MaxSegments) :
                     /\ p # <<>> /\ p # <<"">>
                     /\ \A i \in DOMAIN p : p[i] = "" => i = Len(p)}
    IN  [base : bases, path : paths]

\* Text frames at the boundaries of their lengths, and control frames.
MCFrames ==
    LET texts == [fin : BOOLEAN, opcode : {1}, masked : BOOLEAN,
                  length : {0, 1, 125, 126, 127, 65535, 65536}]
        controls == [fin : {TRUE}, opcode : {8, 9}, masked : BOOLEAN, length : {0, 125}]
        short == {f \in texts \cup controls : f.length <= 127}
    IN  {<<f>> : f \in texts} \cup {<<f, g>> : f \in short, g \in short}
            \cup {<<f, g>> : f \in texts, g \in controls}
=============================================================================
