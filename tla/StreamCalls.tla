------------------------------ MODULE StreamCalls ------------------------------
(***************************************************************************)
(* The read calls of src/src/tinycore/asyncio/iostream.{h,cpp} as the HTTP *)
(* classes make them from their own handlers: without a streaming callback *)
(* and with the exception that a closed stream throws.                     *)
(*                                                                         *)
(* Begin<Call>(s) is the stream when the call has set its members; the     *)
(* call returns TryInlineRead of it or, if Refused, throws                 *)
(* StreamClosedError and leaves that stream behind.                        *)
(***************************************************************************)
EXTENDS IOStream

\* setReadCallback, whose assertion is that no read is outstanding
StartRead(s) == [s EXCEPT !.reads = @ + 1, !.readCb = s.reads + 1]

BeginReadUntil(s, m) == [StartRead(s) EXCEPT !.marks = @ \cup {m}]
BeginReadBytes(s, n) == [StartRead(s) EXCEPT !.readBytes = n]

\* checkClosed throws when the buffer could not serve the read.
Refused(s) == Closed(s) /\ ~Completes(s)

\* readUntilClose never throws: a closed stream gives what it has.
CallReadUntilClose(s) ==
    IF Closed(s) THEN ReadRest(StartRead(s))
    ELSE TryInlineRead([StartRead(s) EXCEPT !.untilClose = TRUE])

\* runCallback's wrapper has taken the next callback and is about to call it.
Begun == [Taken EXCEPT !.pending = @ - 1]
=============================================================================
