------------------------------- MODULE Mailbox -------------------------------
(***************************************************************************)
(* What EventLoop::queueInLoop promises to the rest of budd: the functions *)
(* handed to a loop run on the loop's thread, each at most once, in the    *)
(* order in which they were handed over, and (Delivers) a function that    *)
(* the loop has been told about does run.  A function that is running may  *)
(* hand further functions to the same loop.                                *)
(*                                                                         *)
(* EventLoop is shown to implement this module; TcpServer relies on it and *)
(* gives each of its loops one such mailbox.                               *)
(***************************************************************************)
EXTENDS Naturals, Sequences

CONSTANT Tasks          \* the functions, each handed over at most once

VARIABLES submitted,    \* the functions handed to the loop, in order
          ran           \* those that have run, in the order they ran

vars == <<submitted, ran>>

Submitted == {submitted[i] : i \in DOMAIN submitted}

Init == submitted = <<>> /\ ran = <<>>

Hand(t) == submitted' = Append(submitted, t)

Submit ==
    /\ \E t \in Tasks \ Submitted : Hand(t)
    /\ UNCHANGED ran

Run ==
    /\ Len(ran) < Len(submitted)
    /\ ran' = Append(ran, submitted[Len(ran) + 1])
    /\ \/ UNCHANGED submitted
       \/ \E t \in Tasks \ Submitted : Hand(t)

Next == Submit \/ Run

Spec == Init /\ [][Next]_vars
=============================================================================
