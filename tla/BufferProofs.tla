---------------------------- MODULE BufferProofs ----------------------------
(***************************************************************************)
(* Buffer keeps its bytes in order, makes the room it is asked for and     *)
(* grows no more than it must, for every size of the vector, of the        *)
(* prepended part and of the reads.                                        *)
(***************************************************************************)
EXTENDS Buffer, TLAPS

-----------------------------------------------------------------------------
(* The operations *)

\* With room for them, the bytes that are copied in follow the readable ones.
LEMMA WriteKeeps ==
    ASSUME NEW b, IsBuffer(b), NEW first \in Nat, NEW len \in Nat, len <= Writeable(b)
    PROVE  /\ IsBuffer(Write(b, first + Readable(b), len))
           /\ Write(b, first + Readable(b), len).size = b.size
           /\ Write(b, first + Readable(b), len).writer = b.writer + len
           /\ Readable(Write(b, first + Readable(b), len)) = Readable(b) + len
           /\ Holds(b, first) => Holds(Write(b, first + Readable(b), len), first)
<1> DEFINE w == Write(b, first + Readable(b), len)
<1>0. /\ b.size \in Nat /\ b.reader \in Nat /\ b.writer \in Nat
      /\ b.reader <= b.writer /\ b.writer + len <= b.size
      /\ Readable(b) \in Nat /\ b.writer = b.reader + Readable(b)
  BY DEF IsBuffer, Readable, Writeable
<1>1. /\ w.size = b.size /\ w.reader = b.reader /\ w.writer = b.writer + len
      /\ w = [size |-> w.size, mem |-> w.mem, reader |-> w.reader, writer |-> w.writer]
  BY DEF IsBuffer, Write
<1>a. w.mem = [k \in 0..b.size - 1 |->
                  IF b.writer <= k /\ k < b.writer + len
                  THEN first + Readable(b) + (k - b.writer) ELSE b.mem[k]]
  BY DEF Write
<1>b. \A j \in 0..b.size - 1 :
         w.mem[j] = IF b.writer <= j /\ j < b.writer + len
                    THEN first + Readable(b) + (j - b.writer) ELSE b.mem[j]
  BY <1>a
<1>2. Readable(b) \in Nat /\ Readable(w) = Readable(b) + len
  BY <1>1, BufferAssumption DEF IsBuffer, Readable
<1> HIDE DEF w
<1>3. w.mem \in [0..b.size - 1 -> Nat]
  <2> SUFFICES ASSUME NEW k \in 0..b.size - 1 PROVE w.mem[k] \in Nat
    BY <1>a
  <2>1. w.mem[k] = IF b.writer <= k /\ k < b.writer + len
                   THEN first + Readable(b) + (k - b.writer) ELSE b.mem[k]
    BY <1>a
  <2>2. b.mem[k] \in Nat /\ b.writer \in Nat
    BY DEF IsBuffer
  <2> QED BY <2>1, <2>2, <1>2
<1>4. IsBuffer(w)
  BY <1>1, <1>3 DEF IsBuffer, Writeable
<1>5. ASSUME Holds(b, first) PROVE Holds(w, first)
  <2> SUFFICES ASSUME NEW k \in 0..Readable(w) - 1
               PROVE  w.mem[w.reader + k] = first + k
    BY DEF Holds
  <2> DEFINE j == b.reader + k
  <2>0. /\ k \in Nat /\ k < Readable(b) + len
        /\ j \in Nat /\ j = b.reader + k /\ w.reader + k = j
    BY <1>0, <1>1, <1>2
  <2> HIDE DEF j
  <2>1. j < b.reader + Readable(b) + len /\ j < b.size
    <3>1. j < b.reader + Readable(b) + len
      BY <1>0, <2>0
    <3> QED BY <3>1, <1>0, <2>0
  <2>2. w.mem[j] = IF b.writer <= j /\ j < b.writer + len
                   THEN first + Readable(b) + (j - b.writer) ELSE b.mem[j]
    BY <2>0, <2>1, <1>0, <1>b
  <2>3. CASE k < Readable(b)
    <3>1. b.mem[j] = first + k
      BY <2>0, <2>3, <1>2, <1>5 DEF Holds
    <3>2. ~(b.writer <= j)
      BY <2>0, <2>3, <1>0
    <3> QED BY <3>1, <3>2, <2>0, <2>2
  <2>4. CASE k >= Readable(b)
    <3>1. b.writer <= j /\ j < b.writer + len
      BY <2>0, <2>4, <1>0
    <3>2. w.mem[j] = first + Readable(b) + (j - b.writer)
      BY <3>1, <2>2
    <3> QED BY <3>2, <2>0, <1>0
  <2> QED BY <2>3, <2>4, <1>2
<1> QED BY <1>1, <1>2, <1>4, <1>5 DEF w

\* ensureWriterableBytes makes room, keeps what is readable, and grows the vector
\* only when that and the new bytes need more than half of it.
LEMMA EnsureKeeps ==
    ASSUME NEW b, IsBuffer(b), NEW len \in Nat
    PROVE  /\ IsBuffer(EnsureWriteable(b, len))
           /\ Writeable(EnsureWriteable(b, len)) >= len
           /\ Readable(EnsureWriteable(b, len)) = Readable(b)
           /\ \A first \in Nat : Holds(b, first) => Holds(EnsureWriteable(b, len), first)
           /\ \/ EnsureWriteable(b, len).size = b.size
              \/ EnsureWriteable(b, len).size < 2 * (Readable(b) + len) + Prepend
<1>1. CASE Writeable(b) >= len
  BY <1>1 DEF EnsureWriteable, Writeable, IsBuffer
<1>2. CASE Writeable(b) < len /\ Writeable(b) + b.reader < len + Prepend
  <2> DEFINE g == Grow(b, len)
  <2>1. EnsureWriteable(b, len) = g
    BY <1>2 DEF EnsureWriteable, Reserve
  <2>2. /\ g.size = b.writer + len /\ g.reader = b.reader /\ g.writer = b.writer
        /\ g.mem = [k \in 0..b.writer + len - 1 |-> IF k < b.size THEN b.mem[k] ELSE 0]
        /\ g = [size |-> g.size, mem |-> g.mem, reader |-> g.reader, writer |-> g.writer]
    BY DEF Grow, IsBuffer
  <2> HIDE DEF g
  <2>3. IsBuffer(g)
    BY <2>2 DEF IsBuffer
  <2>4. Writeable(g) >= len /\ Readable(g) = Readable(b)
    BY <2>2 DEF IsBuffer, Writeable, Readable
  <2>5. ASSUME NEW first \in Nat, Holds(b, first) PROVE Holds(g, first)
    <3> SUFFICES ASSUME NEW k \in 0..Readable(b) - 1
                 PROVE  g.mem[g.reader + k] = first + k
      BY <2>4 DEF Holds
    <3>1. b.reader + k \in 0..b.writer + len - 1 /\ b.reader + k < b.size
      BY DEF IsBuffer, Readable
    <3>2. g.mem[b.reader + k] = b.mem[b.reader + k]
      BY <3>1, <2>2
    <3>3. b.mem[b.reader + k] = first + k
      BY <2>5 DEF Holds
    <3> QED BY <3>2, <3>3, <2>2
  <2>6. g.size < 2 * (Readable(b) + len) + Prepend
    <3>1. /\ b.size - b.writer < len /\ (b.size - b.writer) + b.reader < len + Prepend
          /\ b.size \in Nat /\ b.reader \in Nat /\ b.writer \in Nat
          /\ b.reader <= b.writer /\ b.writer <= b.size
      BY <1>2 DEF IsBuffer, Writeable
    <3>2. g.size = b.writer + len /\ Readable(b) = b.writer - b.reader
      BY <2>2 DEF Readable
    <3>3. b.writer + len < 2 * ((b.writer - b.reader) + len) + Prepend
      BY <3>1, BufferAssumption
    <3> QED BY <3>2, <3>3
  <2> QED BY <2>1, <2>3, <2>4, <2>5, <2>6
<1>3. CASE Writeable(b) < len /\ Writeable(b) + b.reader >= len + Prepend
  <2> DEFINE m == MoveToFront(b)
  <2>1. EnsureWriteable(b, len) = m
    BY <1>3, BufferAssumption DEF EnsureWriteable, Reserve, Writeable, IsBuffer
  <2>2. /\ m.size = b.size /\ m.reader = Prepend /\ m.writer = Prepend + Readable(b)
        /\ m.mem = [k \in 0..b.size - 1 |->
                       IF Prepend <= k /\ k < Prepend + Readable(b)
                       THEN b.mem[b.reader + (k - Prepend)] ELSE b.mem[k]]
        /\ m = [size |-> m.size, mem |-> m.mem, reader |-> m.reader, writer |-> m.writer]
    BY DEF MoveToFront, IsBuffer
  <2> HIDE DEF m
  <2>3. Readable(b) \in Nat /\ Readable(m) = Readable(b)
    BY <2>2, BufferAssumption DEF IsBuffer, Readable
  <2>4. Prepend \in Nat /\ b.size \in Nat /\ Prepend + Readable(b) <= b.size
    BY BufferAssumption DEF IsBuffer, Readable
  <2>5. m.mem \in [0..b.size - 1 -> Nat]
    <3> SUFFICES ASSUME NEW k \in 0..b.size - 1 PROVE m.mem[k] \in Nat
      BY <2>2
    <3>1. CASE Prepend <= k /\ k < Prepend + Readable(b)
      <4>1. b.reader + (k - Prepend) \in 0..b.size - 1
        BY <3>1, BufferAssumption DEF IsBuffer, Readable
      <4> QED BY <4>1, <3>1, <2>2 DEF IsBuffer
    <3>2. CASE ~(Prepend <= k /\ k < Prepend + Readable(b))
      BY <3>2, <2>2 DEF IsBuffer
    <3> QED BY <3>1, <3>2
  <2>6. IsBuffer(m) /\ Writeable(m) >= len
    <3>1. /\ m.size \in Nat /\ m.reader \in Nat /\ m.writer \in Nat
          /\ Prepend <= m.reader /\ m.reader <= m.writer /\ m.writer <= m.size
      BY <2>2, <2>3, BufferAssumption DEF IsBuffer, Readable
    <3>2. m.size - m.writer >= len
      BY <1>3, <2>2, BufferAssumption DEF IsBuffer, Writeable, Readable
    <3> QED BY <2>2, <2>5, <3>1, <3>2 DEF IsBuffer, Writeable
  <2>7. ASSUME NEW first \in Nat, Holds(b, first) PROVE Holds(m, first)
    <3> SUFFICES ASSUME NEW k \in 0..Readable(b) - 1
                 PROVE  m.mem[m.reader + k] = first + k
      BY <2>3 DEF Holds
    <3>1. /\ Prepend + k \in 0..b.size - 1 /\ (Prepend + k) - Prepend = k
          /\ Prepend <= Prepend + k /\ Prepend + k < Prepend + Readable(b)
      <4>1. k \in Int /\ 0 <= k /\ k < Readable(b)
        BY <2>3
      <4> QED BY <2>3, <2>4, <4>1
    <3>2. m.mem[Prepend + k] = b.mem[b.reader + k]
      <4> DEFINE i == Prepend + k
      <4>1. i \in 0..b.size - 1 /\ i - Prepend = k /\ Prepend <= i /\ i < Prepend + Readable(b)
        BY <3>1
      <4> HIDE DEF i
      <4>2. m.mem[i] = b.mem[b.reader + (i - Prepend)]
        BY <2>2, <4>1
      <4>3. m.mem[i] = b.mem[b.reader + k]
        BY <4>1, <4>2
      <4> QED BY <4>3 DEF i
    <3>3. b.mem[b.reader + k] = first + k
      BY <2>7 DEF Holds
    <3> QED BY <3>1, <3>2, <3>3, <2>2
  <2>8. m.size = b.size
    BY <2>2
  <2> QED BY <2>1, <2>3, <2>6, <2>7, <2>8
<1>4. Writeable(b) \in Int /\ b.reader \in Int /\ Prepend \in Int
  BY BufferAssumption DEF Writeable, IsBuffer
<1> QED BY <1>1, <1>2, <1>3, <1>4

\* append keeps what is readable and adds the new bytes behind it.
LEMMA AppendKeeps ==
    ASSUME NEW b, IsBuffer(b), NEW first \in Nat, NEW len \in Nat
    PROVE  LET a == AppendTo(b, first + Readable(b), len)
           IN  /\ IsBuffer(a)
               /\ Readable(a) = Readable(b) + len
               /\ Holds(b, first) => Holds(a, first)
               /\ a.size = b.size \/ a.size < 2 * Readable(a) + Prepend
<1> DEFINE e == EnsureWriteable(b, len)
           a == AppendTo(b, first + Readable(b), len)
<1>1. /\ IsBuffer(e) /\ Writeable(e) >= len /\ Readable(e) = Readable(b)
      /\ Holds(b, first) => Holds(e, first)
      /\ e.size = b.size \/ e.size < 2 * (Readable(b) + len) + Prepend
  BY EnsureKeeps
<1>2. a = Write(e, first + Readable(e), len)
  BY <1>1 DEF AppendTo
<1>3. len <= Writeable(e)
  BY <1>1 DEF IsBuffer, Writeable
<1> HIDE DEF e
<1>4. /\ IsBuffer(a) /\ a.size = e.size /\ Readable(a) = Readable(e) + len
      /\ Holds(e, first) => Holds(a, first)
  BY <1>1, <1>2, <1>3, WriteKeeps
<1> HIDE DEF a
<1>5. a.size = b.size \/ a.size < 2 * Readable(a) + Prepend
  BY <1>1, <1>4
<1>6. /\ IsBuffer(a) /\ Readable(a) = Readable(b) + len
      /\ Holds(b, first) => Holds(a, first)
  BY <1>1, <1>4
<1> QED BY <1>5, <1>6 DEF a

\* So does readFd, whether or not the bytes fit behind the readable ones.
LEMMA ReadKeeps ==
    ASSUME NEW b, IsBuffer(b), NEW first \in Nat, NEW n \in Nat
    PROVE  LET a == ReadInto(b, first + Readable(b), n)
           IN  /\ IsBuffer(a)
               /\ Readable(a) = Readable(b) + n
               /\ Holds(b, first) => Holds(a, first)
               /\ a.size = b.size \/ a.size < 2 * Readable(a) + Prepend
<1> DEFINE a == ReadInto(b, first + Readable(b), n)
           w == Write(b, first + Readable(b), Writeable(b))
<1>1. Readable(b) \in Nat /\ Writeable(b) \in Nat
  BY DEF IsBuffer, Readable, Writeable
<1>2. CASE n < Writeable(b)
  <2>1. a = Write(b, first + Readable(b), n) /\ n <= Writeable(b)
    BY <1>1, <1>2 DEF ReadInto
  <2> QED BY <2>1, WriteKeeps
<1>3. CASE ~(n < Writeable(b))
  <2>1. /\ IsBuffer(w) /\ w.size = b.size /\ Readable(w) = Readable(b) + Writeable(b)
        /\ Holds(b, first) => Holds(w, first)
    BY <1>1, WriteKeeps
  <2>2. first + Readable(b) + Writeable(b) = first + Readable(w)
    BY <1>1, <2>1
  <2>3. n - Writeable(b) \in Nat /\ Readable(w) + (n - Writeable(b)) = Readable(b) + n
    BY <1>1, <1>3, <2>1
  <2>4. a = AppendTo(w, first + Readable(w), n - Writeable(b))
    BY <1>3, <2>2 DEF ReadInto
  <2> HIDE DEF a, w
  <2>5. /\ IsBuffer(a) /\ Readable(a) = Readable(w) + (n - Writeable(b))
        /\ Holds(w, first) => Holds(a, first)
        /\ a.size = w.size \/ a.size < 2 * Readable(a) + Prepend
    BY <2>1, <2>3, <2>4, AppendKeeps
  <2>6. /\ IsBuffer(a) /\ Readable(a) = Readable(b) + n
        /\ Holds(b, first) => Holds(a, first)
        /\ a.size = b.size \/ a.size < 2 * Readable(a) + Prepend
    BY <2>1, <2>3, <2>5
  <2> QED BY <2>6 DEF a
<1> QED BY <1>2, <1>3

\* Retrieving leaves the rest where it is; emptied, the buffer starts anew.
LEMMA RetrieveKeeps ==
    ASSUME NEW b, IsBuffer(b), NEW first \in Nat, NEW len \in Nat
    PROVE  LET a == Retrieve(b, len)
           IN  /\ IsBuffer(a) /\ a.size = b.size
               /\ Readable(a) = IF len < Readable(b) THEN Readable(b) - len ELSE 0
               /\ Holds(b, first) => Holds(a, first + Readable(b) - Readable(a))
<1>1. CASE len < Readable(b)
  <2> DEFINE a == [b EXCEPT !.reader = b.reader + len]
  <2>1. /\ a.size = b.size /\ a.mem = b.mem /\ a.reader = b.reader + len
        /\ a.writer = b.writer
        /\ a = [size |-> a.size, mem |-> a.mem, reader |-> a.reader, writer |-> a.writer]
    BY DEF IsBuffer
  <2>2. Retrieve(b, len) = a
    BY <1>1 DEF Retrieve
  <2> HIDE DEF a
  <2>a. /\ b.size \in Nat /\ b.reader \in Nat /\ b.writer \in Nat
        /\ b.writer = b.reader + Readable(b) /\ Readable(b) \in Nat
    BY DEF IsBuffer, Readable
  <2>b. Readable(a) = Readable(b) - len
    BY <2>1, <2>a DEF Readable
  <2>3. IsBuffer(a)
    BY <1>1, <2>1, <2>a, BufferAssumption DEF IsBuffer
  <2>4. ASSUME Holds(b, first) PROVE Holds(a, first + len)
    <3> SUFFICES ASSUME NEW k \in 0..Readable(a) - 1
                 PROVE  a.mem[a.reader + k] = first + len + k
      BY DEF Holds
    <3>0. k \in Nat /\ k < Readable(b) - len
      BY <2>a, <2>b
    <3>1. /\ len + k \in 0..Readable(b) - 1
          /\ a.reader + k = b.reader + (len + k) /\ first + (len + k) = first + len + k
      BY <3>0, <2>1, <2>a
    <3> QED BY <3>1, <2>1, <2>4 DEF Holds
  <2>5. first + Readable(b) - Readable(a) = first + len
    BY <2>a, <2>b
  <2> QED BY <1>1, <2>1, <2>2, <2>3, <2>b, <2>4, <2>5
<1>2. CASE ~(len < Readable(b))
  <2> DEFINE a == RetrieveAll(b)
  <2>1. /\ a.size = b.size /\ a.mem = b.mem /\ a.reader = Prepend /\ a.writer = Prepend
        /\ a = [size |-> a.size, mem |-> a.mem, reader |-> a.reader, writer |-> a.writer]
    BY DEF RetrieveAll
  <2>2. Retrieve(b, len) = a
    BY <1>2 DEF Retrieve
  <2> HIDE DEF a
  <2>3. IsBuffer(a) /\ Readable(a) = 0
    BY <2>1, BufferAssumption DEF IsBuffer, Readable
  <2>4. Holds(a, first + Readable(b) - Readable(a))
    BY <2>3 DEF Holds
  <2> QED BY <1>2, <2>1, <2>2, <2>3, <2>4
<1> QED BY <1>1, <1>2

-----------------------------------------------------------------------------
(* The program *)

\* Fifo and Bounded hold of a step only together with the size of what is readable.
Inv == TypeOK /\ Fifo /\ Readable(buf) <= peak /\ Bounded

LEMMA InitInv == Init => Inv
<1> SUFFICES ASSUME Init PROVE Inv
  OBVIOUS
<1>1. IsBuffer(buf) /\ Readable(buf) = 0
  BY BufferAssumption DEF Init, IsBuffer, Readable
<1>2. TypeOK
  BY <1>1 DEF Init, TypeOK
<1>3. Fifo
  <2>1. \A k \in 0..Readable(buf) - 1 : FALSE
    BY <1>1
  <2>2. Holds(buf, out + 1)
    BY <2>1 DEF Holds
  <2>3. in = 0 /\ out = 0 /\ Lost = 0
    BY DEF Init, Lost
  <2> QED BY <2>2, <2>3, <1>1 DEF Fifo
<1>4. Readable(buf) <= peak /\ Bounded
  BY <1>1, BufferAssumption DEF Init, Bounded
<1> QED BY <1>2, <1>3, <1>4 DEF Inv

\* What a filling call must leave behind for the invariant to hold after it.
LEMMA FillKeeps ==
    ASSUME Inv, NEW b, NEW n \in Nat, Fill(b, n), status = "ok", status' = "ok",
           IsBuffer(b), Readable(b) = Readable(buf) + n, Holds(b, out + 1),
           b.size = buf.size \/ b.size < 2 * Readable(b) + Prepend
    PROVE  Inv'
<1>0. /\ buf' = b /\ in' = in + n /\ out' = out
      /\ peak' = IF Readable(b) > peak THEN Readable(b) ELSE peak
  BY DEF Fill
<1>a. Readable(buf)' = Readable(b)
  BY <1>0 DEF Readable
<1>b. Readable(buf) \in Nat /\ Readable(b) \in Nat /\ b.size \in Nat
  BY DEF Inv, TypeOK, IsBuffer, Readable
<1>1. /\ in \in Nat /\ out \in Nat /\ peak \in Nat /\ Readable(buf) \in Nat
      /\ Readable(buf) = in - out /\ Readable(b) \in Nat /\ b.size \in Nat
      /\ Readable(buf)' = Readable(b) /\ Lost' = 0
  BY <1>a, <1>b DEF Inv, TypeOK, Fifo, Lost
<1>2. TypeOK'
  <2>1. IsBuffer(buf)'
    BY <1>0 DEF IsBuffer
  <2> QED BY <2>1, <1>0, <1>1 DEF Inv, TypeOK
<1>3. Fifo'
  <2>1. Holds(buf, out + 1)'
    BY <1>0, <1>1 DEF Holds
  <2> QED BY <2>1, <1>0, <1>1 DEF Fifo
<1>4. Readable(buf)' <= peak' /\ peak <= peak' /\ Readable(b) <= peak'
  BY <1>0, <1>1
<1>5. Bounded'
  <2>1. b.size <= Initial \/ b.size < 2 * peak + Prepend \/ b.size < 2 * Readable(b) + Prepend
    BY DEF Inv, Bounded
  <2> QED BY <2>1, <1>0, <1>1, <1>4, BufferAssumption DEF Bounded
<1> QED BY <1>2, <1>3, <1>4, <1>5 DEF Inv

\* What the operations need to know of the state.
LEMMA Running ==
    ASSUME Inv, status = "ok"
    PROVE  /\ IsBuffer(buf) /\ in \in Nat /\ out \in Nat /\ peak \in Nat
           /\ Readable(buf) \in Nat /\ Readable(buf) = in - out
           /\ in + 1 = out + 1 + Readable(buf)
           /\ out + 1 \in Nat /\ Holds(buf, out + 1)
<1>1. IsBuffer(buf) /\ Lost = 0
  BY DEF Inv, TypeOK, Lost
<1>2. Readable(buf) \in Nat
  BY <1>1 DEF IsBuffer, Readable
<1> QED BY <1>1, <1>2 DEF Inv, TypeOK, Fifo

LEMMA StepInv == Inv /\ [Next]_vars => Inv'
<1> SUFFICES ASSUME Inv, [Next]_vars PROVE Inv'
  OBVIOUS
<1>1. CASE Append
  <2>0. /\ status = "ok" /\ status' = "ok"
        /\ IsBuffer(buf) /\ in \in Nat /\ out \in Nat /\ peak \in Nat
        /\ Readable(buf) \in Nat /\ Readable(buf) = in - out
        /\ in + 1 = out + 1 + Readable(buf)
        /\ out + 1 \in Nat /\ Holds(buf, out + 1)
    BY <1>1, Running DEF Append, Fill
  <2> PICK n \in 0..MaxBytes - in : Fill(AppendTo(buf, in + 1, n), n)
    BY <1>1 DEF Append
  <2> DEFINE b == AppendTo(buf, in + 1, n)
  <2>1. n \in Nat /\ b = AppendTo(buf, out + 1 + Readable(buf), n)
    BY <2>0, BufferAssumption
  <2>2. Fill(b, n)
    OBVIOUS
  <2>3. LET a == AppendTo(buf, out + 1 + Readable(buf), n)
        IN  /\ IsBuffer(a) /\ Readable(a) = Readable(buf) + n
            /\ Holds(buf, out + 1) => Holds(a, out + 1)
            /\ a.size = buf.size \/ a.size < 2 * Readable(a) + Prepend
    BY <2>0, <2>1, AppendKeeps
  <2> HIDE DEF b
  <2>4. /\ IsBuffer(b) /\ Readable(b) = Readable(buf) + n /\ Holds(b, out + 1)
        /\ b.size = buf.size \/ b.size < 2 * Readable(b) + Prepend
    BY <2>0, <2>1, <2>3
  <2> QED BY <2>0, <2>1, <2>2, <2>4, FillKeeps
<1>2. CASE ReadFd
  <2>0. /\ status = "ok" /\ status' = "ok"
        /\ IsBuffer(buf) /\ in \in Nat /\ out \in Nat /\ peak \in Nat
        /\ Readable(buf) \in Nat /\ Readable(buf) = in - out
        /\ in + 1 = out + 1 + Readable(buf)
        /\ out + 1 \in Nat /\ Holds(buf, out + 1)
    BY <1>2, Running DEF ReadFd, Fill
  <2> PICK n \in 0..MaxBytes - in : Fill(ReadInto(buf, in + 1, n), n)
    BY <1>2 DEF ReadFd
  <2> DEFINE b == ReadInto(buf, in + 1, n)
  <2>1. n \in Nat /\ b = ReadInto(buf, out + 1 + Readable(buf), n)
    BY <2>0, BufferAssumption
  <2>2. Fill(b, n)
    OBVIOUS
  <2>3. LET a == ReadInto(buf, out + 1 + Readable(buf), n)
        IN  /\ IsBuffer(a) /\ Readable(a) = Readable(buf) + n
            /\ Holds(buf, out + 1) => Holds(a, out + 1)
            /\ a.size = buf.size \/ a.size < 2 * Readable(a) + Prepend
    BY <2>0, <2>1, ReadKeeps
  <2> HIDE DEF b
  <2>4. /\ IsBuffer(b) /\ Readable(b) = Readable(buf) + n /\ Holds(b, out + 1)
        /\ b.size = buf.size \/ b.size < 2 * Readable(b) + Prepend
    BY <2>0, <2>1, <2>3
  <2> QED BY <2>0, <2>1, <2>2, <2>4, FillKeeps
<1>3. CASE RetrieveSome
  <2>0. /\ status = "ok" /\ status' = "ok"
        /\ IsBuffer(buf) /\ in \in Nat /\ out \in Nat /\ peak \in Nat
        /\ Readable(buf) \in Nat /\ Readable(buf) = in - out
        /\ in + 1 = out + 1 + Readable(buf)
        /\ out + 1 \in Nat /\ Holds(buf, out + 1)
    BY <1>3, Running DEF RetrieveSome
  <2> PICK len \in 0..Readable(buf) + 1 :
             /\ buf' = Retrieve(buf, len)
             /\ out' = IF len < Readable(buf) THEN out + len ELSE in
    BY <1>3 DEF RetrieveSome
  <2> DEFINE b == Retrieve(buf, len)
  <2>1. in' = in /\ peak' = peak /\ buf' = b /\ len \in Nat
    BY <1>3 DEF RetrieveSome
  <2>2. /\ IsBuffer(b) /\ b.size = buf.size
        /\ Readable(b) = IF len < Readable(buf) THEN Readable(buf) - len ELSE 0
        /\ Holds(b, out + 1 + Readable(buf) - Readable(b))
    BY <2>0, <2>1, RetrieveKeeps
  <2> HIDE DEF b
  <2>3. /\ Readable(b) \in Nat /\ Readable(b) <= Readable(buf)
        /\ out' \in Nat /\ Readable(b) = in - out'
        /\ out + 1 + Readable(buf) - Readable(b) = out' + 1
    BY <2>0, <2>1, <2>2
  <2>4. TypeOK'
    <3>1. IsBuffer(buf)'
      BY <2>1, <2>2 DEF IsBuffer
    <3> QED BY <3>1, <2>0, <2>1, <2>3 DEF TypeOK
  <2>5. Fifo'
    <3>1. Readable(buf)' = Readable(b)
      BY <2>1 DEF Readable
    <3>2. Holds(b, out' + 1)
      BY <2>2, <2>3
    <3>3. Holds(buf, out + 1)'
      BY <3>2, <3>1, <2>1 DEF Holds
    <3>4. Lost' = 0
      BY <2>0 DEF Lost
    <3> QED BY <3>1, <3>3, <3>4, <2>1, <2>3 DEF Fifo
  <2>6. (Readable(buf) <= peak)'
    BY <2>0, <2>1, <2>3 DEF Inv, Readable
  <2>7. Bounded'
    BY <2>1, <2>2 DEF Inv, Bounded
  <2> QED BY <2>4, <2>5, <2>6, <2>7 DEF Inv
<1>4. CASE ReadFdFails
  <2>0. status = "ok" /\ UNCHANGED <<in, out, peak>>
    BY <1>4 DEF ReadFdFails
  <2>1. CASE status' = "ended" /\ UNCHANGED buf
    BY <2>0, <2>1 DEF Inv, TypeOK, IsBuffer, Fifo, Holds, Readable, Bounded, Lost
  <2>2. CASE status' = "cut" /\ buf' = Cut(buf)
    <3> DEFINE b == Cut(buf)
    <3>1. /\ b.size = buf.writer - 1 /\ b.reader = buf.reader /\ b.writer = buf.writer - 1
          /\ b.mem = [k \in 0..buf.writer - 2 |-> buf.mem[k]] /\ buf' = b
      BY <2>2 DEF Cut
    <3> HIDE DEF b
    <3>2. /\ buf.size \in Nat /\ buf.reader \in Nat /\ buf.writer \in Nat
          /\ buf.writer <= buf.size /\ buf.writer = buf.reader + Readable(buf)
          /\ in \in Nat /\ out \in Nat /\ peak \in Nat
          /\ Readable(buf) \in Nat /\ Readable(buf) = in - out /\ Holds(buf, out + 1)
      BY <2>0, Running DEF IsBuffer, Readable
    <3>3. Readable(buf)' = Readable(buf) - 1
      BY <3>1, <3>2 DEF Readable
    <3>4. TypeOK'
      BY <2>0, <2>2, <3>2 DEF TypeOK
    <3>5. Fifo'
      <4>1. Lost' = 1 /\ Readable(buf)' = in' - out' - Lost'
        BY <2>0, <2>2, <3>2, <3>3 DEF Lost
      <4>2. ASSUME NEW k \in 0..Readable(buf)' - 1
            PROVE  b.mem[b.reader + k] = out + 1 + k
        <5> DEFINE j == buf.reader + k
        <5>1. /\ k \in 0..Readable(buf) - 1 /\ j \in 0..buf.writer - 2
              /\ j = buf.reader + k /\ b.reader + k = j
          BY <3>1, <3>2, <3>3
        <5> HIDE DEF j
        <5>2. b.mem[j] = buf.mem[j]
          BY <3>1, <5>1
        <5> QED BY <5>1, <5>2, <3>2 DEF Holds
      <4>3. Holds(buf, out + 1)'
        BY <4>2, <3>1, <2>0 DEF Holds
      <4> QED BY <4>1, <4>3 DEF Fifo
    <3>6. (Readable(buf) <= peak)'
      BY <2>0, <3>2, <3>3 DEF Inv
    <3>7. Bounded'
      BY <2>0, <3>1, <3>2, BufferAssumption DEF Inv, Bounded
    <3> QED BY <3>4, <3>5, <3>6, <3>7 DEF Inv
  <2> QED BY <1>4, <2>1, <2>2 DEF ReadFdFails
<1>5. CASE UNCHANGED vars
  BY <1>5 DEF vars, Inv, TypeOK, IsBuffer, Fifo, Holds, Readable, Bounded, Lost
<1> QED BY <1>1, <1>2, <1>3, <1>4, <1>5 DEF Next

LEMMA Invariant == Spec => []Inv
<1> QED BY InitInv, StepInv, PTL DEF Spec

\* The indices stay in order and inside the vector (buffer.h:39-42, buffer.cpp:35-47).
THEOREM TypeCorrect == Spec => []TypeOK
<1>1. Inv => TypeOK
  BY DEF Inv
<1> QED BY <1>1, Invariant, PTL

\* Every byte put in comes out once and in order, however the buffer grows, moves
\* its content and splits a read (buffer.cpp:15-48, 50-79).
THEOREM ByteOrder == Spec => []Fifo
<1>1. Inv => Fifo
  BY DEF Inv
<1> QED BY <1>1, Invariant, PTL

\* The vector stays below twice the room for what was ever readable at one time
\* (buffer.cpp:33-48).
THEOREM GrowthBounded == Spec => []Bounded
<1>1. Inv => Bounded
  BY DEF Inv
<1> QED BY <1>1, Invariant, PTL

\* The assert behind reserve holds, whatever the state and the request
\* (buffer.cpp:24-31).
THEOREM RoomAlwaysMade == Spec => []RoomMade
<1>1. Inv => RoomMade
  BY EnsureKeeps, BufferAssumption DEF Inv, TypeOK, RoomMade
<1> QED BY <1>1, Invariant, PTL
=============================================================================
