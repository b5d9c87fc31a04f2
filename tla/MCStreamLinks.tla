----------------------------- MODULE MCStreamLinks -----------------------------
(* Small instances of StreamLinks for TLC.                                 *)
EXTENDS StreamLinks

CONSTANTS m1, m2, m3    \* modules

\* Receiver, ResponseMessage, which replies, and MetaData; the writer of m1 and two
\* of the other tasks hand on, as StreamThrough.
ThreeThreads == {Reader(m1), Reader(m2), Writer(m3)}
OneReplies   == {Reader(m2)}
===============================================================================
