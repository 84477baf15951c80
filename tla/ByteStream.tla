----------------------------- MODULE ByteStream -----------------------------
(***************************************************************************)
(* What a TcpConnection promises to the user who sends: the peer receives  *)
(* what was handed to sendData, in that order, none lost, none twice, and  *)
(* the end of the stream only after all of it.  A stream that the peer has *)
(* broken off delivers nothing more.                                       *)
(***************************************************************************)
EXTENDS Naturals, Sequences

CONSTANT Size      \* chunks in one call

VARIABLES written,   \* the chunks that were sent, numbered in the order of the calls
          read,      \* the chunks that are on their way to the peer
          closed,    \* nothing more may be sent
          ended,     \* the end of the stream is on its way, too
          broken     \* the peer has reset the connection

streamVars == <<written, read, closed, ended, broken>>

Init ==
    /\ written = <<>> /\ read = <<>>
    /\ closed = FALSE /\ ended = FALSE /\ broken = FALSE

Send ==
    /\ ~closed
    /\ written' = written \o [i \in 1..Size |-> Len(written) + i]
    /\ UNCHANGED <<read, closed, ended, broken>>

Deliver ==
    /\ ~ended /\ ~broken
    /\ Len(read) < Len(written)
    /\ read' = Append(read, written[Len(read) + 1])
    /\ UNCHANGED <<written, closed, ended, broken>>

Close ==
    /\ closed' = TRUE
    /\ ended' \in {ended, read = written \/ broken}
    /\ UNCHANGED <<written, read, broken>>

Break ==
    /\ broken' = TRUE
    /\ UNCHANGED <<written, read, closed, ended>>

Next == Send \/ Deliver \/ Close \/ Break

StreamSpec == Init /\ [][Next]_streamVars
=============================================================================
