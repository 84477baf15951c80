------------------------------- MODULE Buffer -------------------------------
(***************************************************************************)
(* base/buffer.h and buffer.cpp: the byte buffer between a socket and its  *)
(* readers, a vector with a reader and a writer index.  Before it grows it *)
(* moves what is readable to the front.                                    *)
(*                                                                         *)
(* The bytes that go in are numbered 1, 2, ...; a cell of the vector that  *)
(* was never written holds 0.  Sizes are numbers without a largest one:    *)
(* the sums in the code stay below 2^64 for what a socket can deliver.     *)
(***************************************************************************)
EXTENDS Integers

CONSTANTS Prepend,    \* PREPEND_SIZE
          Initial,    \* initialSize
          Extra,      \* the size of readFd's extraBuffer
          MaxBytes    \* bound: bytes ever put in

ASSUME BufferAssumption ==
    /\ Prepend \in Nat /\ Initial \in Nat /\ Extra \in Nat /\ MaxBytes \in Nat
    /\ Prepend <= Initial

VARIABLES buf,        \* the Buffer: m_buffer and its size, m_readerIndex, m_writerIndex
          in,         \* history: bytes put in
          out,        \* history: bytes retrieved
          peak,       \* history: the most that was ever readable
          status      \* "ok", or after a failed readv: "ended", "cut"

vars == <<buf, in, out, peak, status>>

-----------------------------------------------------------------------------
(* The operations, on a buffer b *)

Readable(b)  == b.writer - b.reader
Writeable(b) == b.size - b.writer

Grow(b, len) ==
    [size   |-> b.writer + len,
     mem    |-> [k \in 0..b.writer + len - 1 |-> IF k < b.size THEN b.mem[k] ELSE 0],
     reader |-> b.reader,
     writer |-> b.writer]

\* What is readable is copied to the front, first byte first.
MoveToFront(b) ==
    [size   |-> b.size,
     mem    |-> [k \in 0..b.size - 1 |->
                    IF Prepend <= k /\ k < Prepend + Readable(b)
                    THEN b.mem[b.reader + (k - Prepend)] ELSE b.mem[k]],
     reader |-> Prepend,
     writer |-> Prepend + Readable(b)]

\* mutants: room in front is never used; the prepended part is given away; the
\* indices move without the bytes
ReserveGrow(b, len) == Grow(b, len)
ReserveAll(b, len) ==
    IF Writeable(b) + b.reader < len THEN Grow(b, len) ELSE MoveToFront(b)
ReserveEmpty(b, len) ==
    IF Writeable(b) + b.reader < len + Prepend THEN Grow(b, len)
    ELSE [b EXCEPT !.reader = Prepend, !.writer = Prepend + Readable(b)]

Reserve(b, len) ==
    IF Writeable(b) + b.reader < len + Prepend THEN Grow(b, len) ELSE MoveToFront(b)

EnsureWriteable(b, len) == IF Writeable(b) < len THEN Reserve(b, len) ELSE b

\* The bytes first, first + 1, ... are copied behind the readable ones.
Write(b, first, len) ==
    [size   |-> b.size,
     mem    |-> [k \in 0..b.size - 1 |->
                    IF b.writer <= k /\ k < b.writer + len
                    THEN first + (k - b.writer) ELSE b.mem[k]],
     reader |-> b.reader,
     writer |-> b.writer + len]

AppendTo(b, first, len) == Write(EnsureWriteable(b, len), first, len)

\* readv fills the vector first and extraBuffer with the rest.
ReadInto(b, first, n) ==
    IF n < Writeable(b) THEN Write(b, first, n)
    ELSE AppendTo(Write(b, first, Writeable(b)), first + Writeable(b), n - Writeable(b))

RetrieveAll(b) ==
    [size |-> b.size, mem |-> b.mem, reader |-> Prepend, writer |-> Prepend]

Retrieve(b, len) ==
    IF len < Readable(b) THEN [b EXCEPT !.reader = b.reader + len] ELSE RetrieveAll(b)

-----------------------------------------------------------------------------
(* The calls *)

Fill(b, n) ==
    /\ buf' = b
    /\ in' = in + n
    /\ peak' = IF Readable(b) > peak THEN Readable(b) ELSE peak
    /\ UNCHANGED <<out, status>>

Append ==
    /\ status = "ok"
    /\ \E n \in 0..MaxBytes - in : Fill(AppendTo(buf, in + 1, n), n)

ReadFd ==
    /\ status = "ok"
    /\ \E n \in 0..MaxBytes - in :
          /\ n <= Writeable(buf) + Extra
          /\ Fill(ReadInto(buf, in + 1, n), n)

\* readv fails: readN is the largest size_t, the writer index goes to the end and
\* append is asked for 2^64 - 1 - Writeable(buf) bytes.  With less than Prepend
\* writeable, len + PREPEND_SIZE wraps, and the assert behind reserve fails.
\* Otherwise the vector is resized to one byte less than was written and the copy is
\* undefined: it ends the program, or copies nothing and the writer index wraps to
\* that size.
Cut(b) ==
    [size   |-> b.writer - 1,
     mem    |-> [k \in 0..b.writer - 2 |-> b.mem[k]],
     reader |-> b.reader,
     writer |-> b.writer - 1]

ReadFdFails ==
    /\ status = "ok"
    /\ \/ status' = "ended" /\ UNCHANGED buf
       \/ Writeable(buf) >= Prepend /\ status' = "cut" /\ buf' = Cut(buf)
    /\ UNCHANGED <<in, out, peak>>

\* retrieve, and the calls that end in it.  More than there is means all there is.
RetrieveSome ==
    /\ status = "ok"
    /\ \E len \in 0..Readable(buf) + 1 :
          /\ buf' = Retrieve(buf, len)
          /\ out' = IF len < Readable(buf) THEN out + len ELSE in
    /\ UNCHANGED <<in, peak, status>>

Init ==
    /\ buf = [size |-> Initial, mem |-> [k \in 0..Initial - 1 |-> 0],
              reader |-> Prepend, writer |-> Prepend]
    /\ in = 0 /\ out = 0 /\ peak = 0
    /\ status = "ok"

Next == Append \/ ReadFd \/ ReadFdFails \/ RetrieveSome

Spec == Init /\ [][Next]_vars

-----------------------------------------------------------------------------
(* Properties *)

\* A vector of the size the Buffer has, indices in order and behind the prepended
\* part.
IsBuffer(b) ==
    /\ b = [size |-> b.size, mem |-> b.mem, reader |-> b.reader, writer |-> b.writer]
    /\ b.size \in Nat /\ b.reader \in Nat /\ b.writer \in Nat
    /\ b.mem \in [0..b.size - 1 -> Nat]
    /\ Prepend <= b.reader /\ b.reader <= b.writer /\ b.writer <= b.size

\* The state has its type (buffer.h:39-42, buffer.cpp:35-47).
TypeOK ==
    /\ status \in {"ok", "ended", "cut"}
    /\ status # "cut" => IsBuffer(buf)
    /\ in \in Nat /\ out \in Nat /\ peak \in Nat

\* The readable bytes are first, first + 1, ...
Holds(b, first) == \A k \in 0..Readable(b) - 1 : b.mem[b.reader + k] = first + k

\* A readv that fails and leaves the program alive costs the last byte.
Lost == IF status = "cut" THEN 1 ELSE 0

\* What can be read is what went in and was not yet retrieved, in order, through
\* growing, moving to the front and the second half of a readv (buffer.cpp:15-48,
\* 50-79).
Fifo == Readable(buf) = in - out - Lost /\ Holds(buf, out + 1)

\* reserve makes the room it was asked for, as ensureWriterableBytes asserts
\* (buffer.cpp:24-31).
RoomMade ==
    status # "cut" => \A len \in 0..MaxBytes : Writeable(EnsureWriteable(buf, len)) >= len

\* The vector grows only when the readable bytes need it: it never has more than
\* twice the room for the most that was ever readable (buffer.cpp:33-48).
Bounded == buf.size <= Initial \/ buf.size < 2 * peak + Prepend
=============================================================================
