--------------------------- MODULE ReliableStream ---------------------------
(***************************************************************************)
(* What one direction of an mKCP conversation promises: the chunks handed  *)
(* to the sender come out at the receiver in the order they went in, each  *)
(* exactly once, and every one of them comes out unless the sending side   *)
(* is closed first.  No numbers, windows, acknowledgements or datagrams.   *)
(***************************************************************************)
EXTENDS Naturals, Sequences

CONSTANT Chunks

VARIABLES put,      \* the chunks the writer handed over
          got,      \* the chunks the reader took
          closed    \* the sending side was closed

vars == <<put, got, closed>>

Init == put = <<>> /\ got = <<>> /\ closed = FALSE

Write == /\ ~closed
         /\ \E c \in Chunks : put' = Append(put, c)
         /\ UNCHANGED <<got, closed>>

(* A read takes any number of the chunks that are still to come.           *)
Read == /\ \E n \in Len(got) + 1 .. Len(put) : got' = SubSeq(put, 1, n)
        /\ UNCHANGED <<put, closed>>

Close == closed' = TRUE /\ UNCHANGED <<put, got>>

Next == Write \/ Read \/ Close

SafeSpec == Init /\ [][Next]_vars

Spec == SafeSpec /\ WF_vars(~closed /\ Read)
=============================================================================
