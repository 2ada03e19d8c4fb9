---------------------------- MODULE BufferProofs ----------------------------
(***************************************************************************)
(* What TLAPS proves of Buffer, for every size of the buffer and of the    *)
(* calls, and of the HTTP client that sits on top of it: of its URLs and   *)
(* of its request.                                                         *)
(*                                                                         *)
(* Every call that may move or resize the vector does so through           *)
(* ensureWritableBytes (EnsureWritable), so the argument is in one lemma   *)
(* about it: the state it leaves is again a good one, with room.  What a   *)
(* call then writes and how it moves an index is arithmetic on top.        *)
(*                                                                         *)
(* Of a URL the argument goes the way split goes: of a string that is put  *)
(* together with a delimiter that one of its sides does not have, find or  *)
(* find_last_of returns the place of the delimiter, and substr the sides.  *)
(* Each part of the URL is one such side.                                  *)
(***************************************************************************)
EXTENDS Buffer, HttpClient, FiniteSetTheorems, SequenceTheorems,
        WellFoundedInduction, TLAPS

\* The cells a reader sees, by their place in the vector.
LEMMA ReadableCells ==
    ASSUME TypeOK, IndicesInOrder
    PROVE  NoGarbageRead <=> \A j \in reader .. writer - 1 : buffer[j] \in Bytes
<1> DEFINE n == writer - reader
<1>1. n \in Nat
  BY DEF TypeOK, IndicesInOrder
<1>2. DOMAIN Contents = 1 .. n /\ \A i \in 1 .. n : Contents[i] = buffer[reader + i - 1]
  BY DEF Contents, readableBytes
<1>3. ASSUME NoGarbageRead, NEW j \in reader .. writer - 1 PROVE buffer[j] \in Bytes
  <2>1. j - reader + 1 \in 1 .. n /\ reader + (j - reader + 1) - 1 = j
    BY <1>1 DEF TypeOK
  <2> QED BY <1>2, <1>3, <2>1 DEF NoGarbageRead
<1>4. ASSUME \A j \in reader .. writer - 1 : buffer[j] \in Bytes,
             NEW i \in 1 .. n
      PROVE  Contents[i] \in Bytes
  <2>1. reader + i - 1 \in reader .. writer - 1
    BY <1>1 DEF TypeOK
  <2> QED BY <1>2, <1>4, <2>1
<1> QED BY <1>2, <1>3, <1>4 DEF NoGarbageRead

\* e is the state of a buffer that holds as many bytes as before, all of them
\* written, and has len free cells behind them.
Roomy(e, len) ==
    /\ e.size \in Nat /\ e.reader \in Nat /\ e.writer \in Nat
    /\ e.buffer \in [0 .. e.size - 1 -> Bytes \cup {Garbage}]
    /\ e.writer - e.reader = writer - reader
    /\ e.reader <= e.writer
    /\ e.writer + len <= e.size
    /\ CheapPrepend + InitialSize <= e.size
    /\ \/ e.size = CheapPrepend + InitialSize
       \/ e.size <= CheapPrepend + MaxReadable + 2 * MaxLen
    /\ \A j \in e.reader .. e.writer - 1 : e.buffer[j] \in Bytes

\* Whatever ensureWritableBytes does, it leaves len free cells, indices that
\* are in order, the readable bytes, and a vector within the bound.
LEMMA RoomLemma ==
    ASSUME IInv, NEW len \in 0 .. MaxLen
    PROVE  Roomy(EnsureWritable(len), len)
<1> DEFINE e == EnsureWritable(len)
<1> USE BufferAssumption
<1> DEFINE Good == \A j \in reader .. writer - 1 : buffer[j] \in Bytes
<1>0. /\ size \in Nat /\ reader \in Nat /\ writer \in Nat /\ len \in Nat
      /\ buffer \in [0 .. size - 1 -> Bytes \cup {Garbage}]
      /\ reader <= writer /\ writer <= size /\ CheapPrepend + InitialSize <= size
      /\ writer - reader <= MaxReadable /\ len <= MaxLen
      /\ size = CheapPrepend + InitialSize \/ size <= CheapPrepend + MaxReadable + 2 * MaxLen
      /\ Good
  BY ReadableCells DEF IInv, TypeOK, IndicesInOrder, ReadableBounded, CapacityBounded,
     readableBytes
<1> HIDE DEF Good
<1> SUFFICES Roomy(e, len)
  OBVIOUS
<1>1. CASE writableBytes >= len
  <2>1. e = Same
    BY <1>1 DEF EnsureWritable
  <2>2. e.buffer = buffer /\ e.size = size /\ e.reader = reader /\ e.writer = writer
    BY <2>1 DEF Same
  <2> HIDE DEF e
  <2> QED BY <1>0, <1>1, <2>2 DEF writableBytes, Good, Roomy
<1>2. CASE ~(writableBytes >= len) /\ MustGrow(len)
  <2>1. e = Grown(len)
    BY <1>2 DEF EnsureWritable
  <2> DEFINE G == [i \in 0 .. writer + len - 1 |-> IF i < size THEN buffer[i] ELSE Garbage]
  <2>2. e.size = writer + len /\ e.reader = reader /\ e.writer = writer /\ e.buffer = G
    BY <2>1 DEF Grown, Same
  <2>3. size - writer < len /\ size - writer + reader < len + CheapPrepend
    BY <1>0, <1>2 DEF MustGrow, writableBytes, prependableBytes
  <2>4. \A i \in 0 .. writer + len - 1 : G[i] \in Bytes \cup {Garbage}
    BY <1>0
  <2>5. G \in [0 .. writer + len - 1 -> Bytes \cup {Garbage}]
    BY <2>4
  <2>6. \A j \in reader .. writer - 1 : G[j] \in Bytes
    BY <1>0 DEF Good
  <2>7. writer + len <= CheapPrepend + MaxReadable + 2 * MaxLen /\ size <= writer + len
    BY <1>0, <2>3
  <2> HIDE DEF e, G
  <2> QED BY <1>0, <2>2, <2>5, <2>6, <2>7 DEF Roomy
<1>3. CASE ~(writableBytes >= len) /\ ~MustGrow(len)
  <2>1. e = Moved
    BY <1>3 DEF EnsureWritable
  <2> DEFINE B == [i \in 0 .. size - 1 |->
                    IF i \in CheapPrepend .. CheapPrepend + (writer - reader) - 1
                    THEN buffer[i - CheapPrepend + reader] ELSE buffer[i]]
  <2>2. /\ e.size = size /\ e.reader = CheapPrepend
        /\ e.writer = CheapPrepend + (writer - reader)
        /\ e.buffer = B
    BY <2>1 DEF Moved, readableBytes
  <2>3. /\ size - writer < len
        /\ len + CheapPrepend <= size - writer + reader
    BY <1>0, <1>3 DEF MustGrow, writableBytes, prependableBytes
  <2>4. CheapPrepend < reader
    BY <1>0, <2>3
  <2>5. ASSUME NEW i \in CheapPrepend .. CheapPrepend + (writer - reader) - 1
        PROVE  /\ i \in 0 .. size - 1
               /\ i - CheapPrepend + reader \in reader .. writer - 1
               /\ i - CheapPrepend + reader \in 0 .. size - 1
    BY <1>0, <2>4
  <2>6. \A i \in 0 .. size - 1 : B[i] \in Bytes \cup {Garbage}
    BY <1>0, <2>5
  <2>7. B \in [0 .. size - 1 -> Bytes \cup {Garbage}]
    BY <2>6
  <2>8. \A j \in CheapPrepend .. CheapPrepend + (writer - reader) - 1 : B[j] \in Bytes
    BY <1>0, <2>5 DEF Good
  <2>9. e.writer + len <= e.size /\ e.writer \in Nat /\ e.reader <= e.writer
    BY <1>0, <2>2, <2>3
  <2> HIDE DEF e, B
  <2> QED BY <1>0, <2>2, <2>7, <2>8, <2>9 DEF Roomy
<1> QED BY <1>1, <1>2, <1>3

\* ensureWritableBytes keeps its promise: there is room for the bytes of the
\* call, and makeSpace moves bytes only towards the front.
LEMMA RoomFollows == IInv => RoomIsMade
<1> USE BufferAssumption
<1> SUFFICES ASSUME IInv, NEW len \in 0 .. MaxLen
             PROVE  /\ EnsureWritable(len).size - EnsureWritable(len).writer >= len
                    /\ (writableBytes < len /\ ~MustGrow(len)) => CheapPrepend < reader
  BY DEF RoomIsMade
<1>1. EnsureWritable(len).size - EnsureWritable(len).writer >= len
  <2> DEFINE e == EnsureWritable(len)
  <2>1. Roomy(e, len)
    BY RoomLemma
  <2> HIDE DEF e
  <2>2. e.size - e.writer >= len
    BY <2>1 DEF Roomy
  <2> QED BY <2>2 DEF e
<1>2. (writableBytes < len /\ ~MustGrow(len)) => CheapPrepend < reader
  BY DEF MustGrow, writableBytes, prependableBytes, IInv, TypeOK
<1> QED BY <1>1, <1>2

\* The bytes of a call are a sequence of bytes, within its bound.
LEMMA DataLemma ==
    ASSUME NEW s \in Data
    PROVE  s \in Seq(Bytes) /\ Len(s) \in 0 .. MaxLen
<1>1. PICK n \in 0 .. MaxLen : s \in [1 .. n -> Bytes]
  BY DEF Data
<1>2. n \in Nat
  BY <1>1, BufferAssumption
<1> QED BY <1>1, <1>2

\* Writing keeps the vector's cells what they can be, and what is written is a
\* byte.
LEMMA WrittenLemma ==
    ASSUME NEW n \in Nat, NEW b \in [0 .. n - 1 -> Bytes \cup {Garbage}],
           NEW p \in Nat, NEW s \in Seq(Bytes)
    PROVE  /\ Written(b, p, s) \in [0 .. n - 1 -> Bytes \cup {Garbage}]
           /\ \A j \in 0 .. n - 1 :
                  Written(b, p, s)[j] \in Bytes \/ (b[j] = Written(b, p, s)[j]
                                                    /\ j \notin p .. p + Len(s) - 1)
<1> DEFINE W == [i \in 0 .. n - 1 |-> IF i \in p .. p + Len(s) - 1 THEN s[i - p + 1] ELSE b[i]]
<1>1. Written(b, p, s) = W
  BY DEF Written
<1>2. \A i \in p .. p + Len(s) - 1 : s[i - p + 1] \in Bytes
  <2> TAKE i \in p .. p + Len(s) - 1
  <2>1. i - p + 1 \in 1 .. Len(s)
    OBVIOUS
  <2> QED BY <2>1
<1>3. \A i \in 0 .. n - 1 : W[i] \in Bytes \cup {Garbage}
  BY <1>2
<1>4. W \in [0 .. n - 1 -> Bytes \cup {Garbage}]
  BY <1>3
<1>5. \A j \in 0 .. n - 1 : W[j] \in Bytes \/ (b[j] = W[j] /\ j \notin p .. p + Len(s) - 1)
  BY <1>2
<1> QED BY <1>1, <1>4, <1>5

\* Turning bytes round leaves them the bytes of a call.
LEMMA EndianLemma ==
    ASSUME NEW x \in Data
    PROVE  bit_endian(x) \in Data
<1>1. PICK n \in 0 .. MaxLen : x \in [1 .. n -> Bytes]
  BY DEF Data
<1>2. n \in Nat /\ Len(x) = n /\ DOMAIN x = 1 .. n
  BY <1>1, BufferAssumption
<1>3. [i \in 1 .. n |-> x[n + 1 - i]] \in [1 .. n -> Bytes]
  <2>1. \A i \in 1 .. n : n + 1 - i \in 1 .. n
    BY <1>2
  <2> QED BY <1>1, <2>1
<1>4. bit_endian(x) \in [1 .. n -> Bytes]
  BY <1>1, <1>2, <1>3 DEF bit_endian
<1> QED BY <1>4 DEF Data

\* A new buffer is a good one.
LEMMA FreshCells ==
    ASSUME NEW n \in Nat, NEW s \in Seq(Bytes), Len(s) <= n, Len(s) <= MaxReadable,
           n <= MaxReadable + 2 * MaxLen, Fresh(n, s)
    PROVE  /\ size' \in Nat /\ reader' = CheapPrepend /\ writer' = CheapPrepend + Len(s)
           /\ buffer' \in [0 .. size' - 1 -> Bytes \cup {Garbage}]
           /\ writer' <= size'
           /\ CheapPrepend + InitialSize <= size'
           /\ \/ size' = CheapPrepend + InitialSize
              \/ size' <= CheapPrepend + MaxReadable + 2 * MaxLen
           /\ \A j \in reader' .. writer' - 1 : buffer'[j] \in Bytes
           /\ buffer' = Written([i \in 0 .. size' - 1 |-> Garbage], CheapPrepend, s)
<1> USE BufferAssumption
<1> DEFINE z == CheapPrepend + (IF n > InitialSize THEN n ELSE InitialSize)
           F == [i \in 0 .. z - 1 |-> Garbage]
           W == Written(F, CheapPrepend, s)
<1>1. size' = z /\ buffer' = W /\ reader' = CheapPrepend /\ writer' = CheapPrepend + Len(s)
  BY DEF Fresh
<1> DEFINE m == Len(s)
<1>2. /\ z \in Nat /\ CheapPrepend + InitialSize <= z /\ CheapPrepend + m <= z
      /\ z = CheapPrepend + InitialSize \/ z <= CheapPrepend + MaxReadable + 2 * MaxLen
      /\ m \in Nat
  OBVIOUS
<1>3. F \in [0 .. z - 1 -> Bytes \cup {Garbage}]
  OBVIOUS
<1> HIDE DEF z, F
<1>4. /\ W \in [0 .. z - 1 -> Bytes \cup {Garbage}]
      /\ \A j \in 0 .. z - 1 :
             W[j] \in Bytes \/ (F[j] = W[j] /\ j \notin CheapPrepend .. CheapPrepend + m - 1)
  BY <1>2, <1>3, WrittenLemma
<1>5. buffer' = Written([i \in 0 .. size' - 1 |-> Garbage], CheapPrepend, s)
  BY <1>1 DEF F
<1> HIDE DEF W, m
<1>6. ASSUME NEW j \in CheapPrepend .. CheapPrepend + m - 1 PROVE W[j] \in Bytes
  <2>1. j \in 0 .. z - 1
    BY <1>2
  <2> QED BY <1>4, <2>1
<1>7. /\ size' = z /\ buffer' = W /\ reader' = CheapPrepend /\ writer' = CheapPrepend + m
  BY <1>1 DEF m
<1>8. \A j \in reader' .. writer' - 1 : buffer'[j] \in Bytes
  <2>1. ASSUME NEW j \in CheapPrepend .. CheapPrepend + m - 1 PROVE buffer'[j] \in Bytes
    BY <1>6, <1>7
  <2> QED BY <1>2, <1>7, <2>1
<1> QED BY <1>2, <1>4, <1>5, <1>7, <1>8 DEF m

\* The readable bytes are a sequence of bytes.
LEMMA ContentsLemma ==
    ASSUME IInv
    PROVE  /\ Contents \in Seq(Bytes)
           /\ Len(Contents) = writer - reader
           /\ writer - reader \in Nat
           /\ \A i \in 1 .. writer - reader : Contents[i] = buffer[reader + i - 1]
<1>1. writer - reader \in Nat
  BY DEF IInv, TypeOK, IndicesInOrder
<1>2. Contents \in [1 .. writer - reader -> Bytes]
  BY DEF IInv, NoGarbageRead, Contents, readableBytes
<1> QED BY <1>1, <1>2 DEF Contents, readableBytes

\* The invariant without Contents and the names of the sizes.
Cells ==
    /\ size \in Nat /\ reader \in Nat /\ writer \in Nat
    /\ buffer \in [0 .. size - 1 -> Bytes \cup {Garbage}]
    /\ reader <= writer
    /\ writer <= size
    /\ CheapPrepend + InitialSize <= size
    /\ writer - reader <= MaxReadable
    /\ size = CheapPrepend + InitialSize \/ size <= CheapPrepend + MaxReadable + 2 * MaxLen
    /\ \A j \in reader .. writer - 1 : buffer[j] \in Bytes

LEMMA CellsLemma == IInv <=> Cells
<1>1. IInv => Cells
  BY ReadableCells DEF IInv, TypeOK, IndicesInOrder, ReadableBounded, CapacityBounded,
     readableBytes, Cells
<1>2. Cells => IInv
  <2> SUFFICES ASSUME Cells PROVE IInv
    OBVIOUS
  <2>1. TypeOK /\ IndicesInOrder
    BY DEF TypeOK, IndicesInOrder, Cells
  <2>2. ReadableBounded /\ CapacityBounded
    BY DEF ReadableBounded, CapacityBounded, readableBytes, Cells
  <2>3. NoGarbageRead
    BY <2>1, ReadableCells DEF Cells
  <2> QED BY <2>1, <2>2, <2>3 DEF IInv
<1> QED BY <1>1, <1>2

LEMMA InitIInv == Init => IInv
<1> USE BufferAssumption
<1> SUFFICES ASSUME Init PROVE Cells
  BY CellsLemma
<1>1. size \in Nat /\ reader = CheapPrepend /\ writer = CheapPrepend
  BY DEF Init
<1>2. buffer \in [0 .. size - 1 -> Bytes \cup {Garbage}]
  BY <1>1 DEF Init
<1> QED BY <1>1, <1>2 DEF Init, Cells

\* Every call keeps the invariant.
LEMMA StepCells == IInv /\ [Next]_vars => Cells'
<1> USE BufferAssumption
<1> SUFFICES ASSUME IInv, [Next]_vars PROVE Cells'
  OBVIOUS
<1>0. Cells
  BY CellsLemma
<1>1. ASSUME NEW s \in Data, append(s) PROVE Cells'
  <2> DEFINE e == EnsureWritable(Len(s))
             W == Written(e.buffer, e.writer, s)
  <2>1. s \in Seq(Bytes) /\ Len(s) \in 0 .. MaxLen
    BY DataLemma
  <2>2. Roomy(e, Len(s))
    BY <2>1, RoomLemma
  <2>3. /\ buffer' = W /\ size' = e.size /\ reader' = e.reader
        /\ writer' = e.writer + Len(s)
        /\ writer - reader + Len(s) <= MaxReadable
    BY <1>1 DEF append, Become, readableBytes
  <2> DEFINE z == e.size
             r == e.reader
             w == e.writer
             b == e.buffer
  <2>4. /\ z \in Nat /\ r \in Nat /\ w \in Nat
        /\ b \in [0 .. z - 1 -> Bytes \cup {Garbage}]
        /\ w - r = writer - reader /\ r <= w /\ w + Len(s) <= z
        /\ CheapPrepend + InitialSize <= z
        /\ z = CheapPrepend + InitialSize \/ z <= CheapPrepend + MaxReadable + 2 * MaxLen
        /\ \A j \in r .. w - 1 : b[j] \in Bytes
    BY <2>2 DEF Roomy
  <2> HIDE DEF e, z, r, w, b
  <2>5. /\ W \in [0 .. z - 1 -> Bytes \cup {Garbage}]
        /\ \A j \in 0 .. z - 1 :
               W[j] \in Bytes \/ (b[j] = W[j] /\ j \notin w .. w + Len(s) - 1)
    BY <2>1, <2>4, WrittenLemma DEF b, w
  <2>6. buffer' = W /\ size' = z /\ reader' = r /\ writer' = w + Len(s)
    BY <2>3 DEF z, r, w
  <2> HIDE DEF W
  <2>7. \A j \in r .. w + Len(s) - 1 : W[j] \in Bytes
    BY <2>1, <2>4, <2>5
  <2>8. w + Len(s) - r <= MaxReadable
    BY <1>0, <2>1, <2>3, <2>4 DEF Cells
  <2> QED BY <2>1, <2>4, <2>5, <2>6, <2>7, <2>8 DEF Cells
<1>2. ASSUME NEW s \in Data, ReadFits(s) PROVE Cells'
  <2> DEFINE W == Written(buffer, writer, s)
  <2>1. s \in Seq(Bytes) /\ Len(s) \in 0 .. MaxLen
    BY DataLemma
  <2>2. /\ buffer' = W /\ size' = size /\ reader' = reader /\ writer' = writer + Len(s)
        /\ Len(s) <= size - writer
        /\ writer - reader + Len(s) <= MaxReadable
    BY <1>2 DEF ReadFits, readableBytes, writableBytes
  <2>3. /\ W \in [0 .. size - 1 -> Bytes \cup {Garbage}]
        /\ \A j \in 0 .. size - 1 :
               W[j] \in Bytes \/ (buffer[j] = W[j] /\ j \notin writer .. writer + Len(s) - 1)
    BY <1>0, <2>1, WrittenLemma DEF Cells
  <2> HIDE DEF W
  <2>4. \A j \in reader .. writer + Len(s) - 1 : W[j] \in Bytes
    BY <1>0, <2>1, <2>2, <2>3 DEF Cells
  <2> QED BY <1>0, <2>1, <2>2, <2>3, <2>4 DEF Cells
<1>3. ASSUME NEW s \in Data, prepend(s) PROVE Cells'
  <2> DEFINE W == Written(buffer, reader - Len(s), s)
  <2>1. s \in Seq(Bytes) /\ Len(s) \in 0 .. MaxLen
    BY DataLemma
  <2>2. /\ buffer' = W /\ size' = size /\ writer' = writer /\ reader' = reader - Len(s)
        /\ Len(s) <= reader
        /\ writer - reader + Len(s) <= MaxReadable
    BY <1>3 DEF prepend, readableBytes, prependableBytes
  <2>3. reader - Len(s) \in Nat
    BY <1>0, <2>1, <2>2 DEF Cells
  <2>4. /\ W \in [0 .. size - 1 -> Bytes \cup {Garbage}]
        /\ \A j \in 0 .. size - 1 :
               W[j] \in Bytes
               \/ (buffer[j] = W[j] /\ j \notin reader - Len(s) .. reader - Len(s) + Len(s) - 1)
    BY <1>0, <2>1, <2>3, WrittenLemma DEF Cells
  <2> HIDE DEF W
  <2>5. \A j \in reader - Len(s) .. writer - 1 : W[j] \in Bytes
    BY <1>0, <2>1, <2>2, <2>3, <2>4 DEF Cells
  <2> QED BY <1>0, <2>1, <2>2, <2>3, <2>4, <2>5 DEF Cells
<1>4. ASSUME NEW len \in Nat, TakeOff(len) PROVE Cells'
  <2>1. CASE len < writer - reader
    BY <1>0, <1>4, <2>1 DEF TakeOff, readableBytes, Cells
  <2>2. CASE ~(len < writer - reader)
    BY <1>0, <1>4, <2>2 DEF TakeOff, readableBytes, Cells
  <2> QED BY <2>1, <2>2
<1>5. ASSUME NEW len \in 0 .. MaxLen, unwrite(len) PROVE Cells'
  BY <1>0, <1>5 DEF unwrite, readableBytes, Cells
<1>6. ASSUME NEW len \in 0 .. MaxLen, ensureWritableBytes(len) PROVE Cells'
  <2> DEFINE e == EnsureWritable(len)
  <2>1. Roomy(e, len)
    BY RoomLemma
  <2>2. /\ buffer' = e.buffer /\ size' = e.size /\ reader' = e.reader /\ writer' = e.writer
    BY <1>6 DEF ensureWritableBytes, Become
  <2> HIDE DEF e
  <2> QED BY <1>0, <2>1, <2>2 DEF Roomy, Cells
<1>7. ASSUME NEW n \in Nat, NEW s \in Seq(Bytes), Len(s) <= n, Len(s) <= MaxReadable,
             n <= MaxReadable + 2 * MaxLen, Fresh(n, s)
      PROVE  Cells'
  <2>1. Len(s) \in Nat
    OBVIOUS
  <2>2. /\ size' \in Nat /\ reader' = CheapPrepend /\ writer' = CheapPrepend + Len(s)
        /\ buffer' \in [0 .. size' - 1 -> Bytes \cup {Garbage}]
        /\ writer' <= size'
        /\ CheapPrepend + InitialSize <= size'
        /\ \/ size' = CheapPrepend + InitialSize
           \/ size' <= CheapPrepend + MaxReadable + 2 * MaxLen
        /\ \A j \in reader' .. writer' - 1 : buffer'[j] \in Bytes
    BY <1>7, FreshCells
  <2>3. writer' \in Nat /\ reader' <= writer' /\ writer' - reader' <= MaxReadable
    BY <1>7, <2>1, <2>2
  <2>4. reader' \in Nat
    BY <2>2
  <2> QED BY <2>2, <2>3, <2>4 DEF Cells
<1>8. ASSUME NEW len \in 0 .. MaxLen, shrink(len) PROVE Cells'
  <2>1. /\ Contents \in Seq(Bytes) /\ Len(Contents) <= MaxReadable
        /\ Len(Contents) = readableBytes /\ readableBytes \in Nat
    BY <1>0, ContentsLemma DEF readableBytes, Cells
  <2>2. /\ readableBytes + len \in Nat /\ Len(Contents) <= readableBytes + len
        /\ readableBytes + len <= MaxReadable + 2 * MaxLen
    BY <2>1
  <2>3. Fresh(readableBytes + len, Contents)
    BY <1>8 DEF shrink
  <2> QED BY <1>7, <2>1, <2>2, <2>3
<1>9. ASSUME NEW s \in Data, assign(s) PROVE Cells'
  <2>1. s \in Seq(Bytes) /\ Len(s) \in 0 .. MaxLen
    BY DataLemma
  <2>2. Len(s) \in Nat /\ Len(s) <= MaxReadable + 2 * MaxLen /\ Len(s) <= MaxReadable
    BY <1>9, <2>1 DEF assign
  <2>3. Fresh(Len(s), s)
    BY <1>9 DEF assign
  <2> QED BY <1>7, <2>1, <2>2, <2>3
<1>10. ASSUME MoveAway PROVE Cells'
  <2> DEFINE s == <<>>
             n == 0
  <2>1. Fresh(n, s) /\ s \in Seq(Bytes) /\ n \in Nat
    BY <1>10 DEF MoveAway
  <2>2. Len(s) <= n /\ Len(s) <= MaxReadable /\ n <= MaxReadable + 2 * MaxLen
    OBVIOUS
  <2> HIDE DEF s, n
  <2> QED BY <1>7, <2>1, <2>2
<1>11. ASSUME NEW x \in Data, appendInt(x) \/ prependInt(x) PROVE Cells'
  <2>1. bit_endian(x) \in Data
    BY EndianLemma
  <2> QED BY <1>1, <1>3, <1>11, <2>1 DEF appendInt, prependInt
<1>12. ASSUME NEW len \in 0 .. MaxLen, retrieve(len) \/ retrieveAsString(len) PROVE Cells'
  BY <1>4, <1>12 DEF retrieve, retrieveAsString
<1>13. ASSUME readInt8 PROVE Cells'
  BY <1>4, <1>13 DEF readInt8
<1>14. CASE UNCHANGED vars
  BY <1>0, <1>14 DEF vars, Cells
<1> QED
  BY <1>1, <1>2, <1>3, <1>5, <1>6, <1>8, <1>9, <1>10, <1>11, <1>12, <1>13, <1>14 DEF Next

LEMMA Invariance == Spec => []IInv
  BY InitIInv, StepCells, CellsLemma, PTL DEF Spec

-----------------------------------------------------------------------------
(* The bytes: every call does to Contents what ByteQueue's does to bytes.  *)

\* Written leaves the cells in front of p alone, and holds s from p on.
LEMMA WrittenCells ==
    ASSUME NEW n \in Nat, NEW b \in [0 .. n - 1 -> Bytes \cup {Garbage}],
           NEW p \in Nat, NEW s \in Seq(Bytes)
    PROVE  /\ \A j \in 0 .. n - 1 : j \notin p .. p + Len(s) - 1 => Written(b, p, s)[j] = b[j]
           /\ \A i \in 1 .. Len(s) : p + i - 1 \in 0 .. n - 1 => Written(b, p, s)[p + i - 1] = s[i]
<1> DEFINE W == [i \in 0 .. n - 1 |-> IF i \in p .. p + Len(s) - 1 THEN s[i - p + 1] ELSE b[i]]
<1>1. Written(b, p, s) = W
  BY DEF Written
<1>2. \A j \in 0 .. n - 1 : j \notin p .. p + Len(s) - 1 => W[j] = b[j]
  OBVIOUS
<1>3. ASSUME NEW i \in 1 .. Len(s), p + i - 1 \in 0 .. n - 1
      PROVE  W[p + i - 1] = s[i]
  <2>1. p + i - 1 \in p .. p + Len(s) - 1 /\ (p + i - 1) - p + 1 = i
    OBVIOUS
  <2> QED BY <1>3, <2>1
<1> QED BY <1>1, <1>2, <1>3

\* Whatever ensureWritableBytes does, it leaves the readable bytes as they were.
LEMMA RoomKeepsBytes ==
    ASSUME IInv, NEW len \in 0 .. MaxLen
    PROVE  \A i \in 1 .. writer - reader :
               EnsureWritable(len).buffer[EnsureWritable(len).reader + i - 1]
                   = buffer[reader + i - 1]
<1> USE BufferAssumption
<1> DEFINE e == EnsureWritable(len)
<1>0. Cells
  BY CellsLemma
<1> SUFFICES ASSUME NEW i \in 1 .. writer - reader
             PROVE  e.buffer[e.reader + i - 1] = buffer[reader + i - 1]
  OBVIOUS
<1>1. reader + i - 1 \in 0 .. size - 1 /\ reader + i - 1 < writer
  BY <1>0 DEF Cells
<1>2. CASE writableBytes >= len
  <2>1. e.buffer = buffer /\ e.reader = reader
    BY <1>2 DEF EnsureWritable, Same
  <2> HIDE DEF e
  <2> QED BY <2>1
<1>3. CASE ~(writableBytes >= len) /\ MustGrow(len)
  <2>1. /\ e.reader = reader
        /\ e.buffer = [j \in 0 .. writer + len - 1 |-> IF j < size THEN buffer[j] ELSE Garbage]
    BY <1>3 DEF EnsureWritable, Grown, Same
  <2> HIDE DEF e
  <2>2. reader + i - 1 \in 0 .. writer + len - 1 /\ reader + i - 1 < size
    BY <1>0, <1>1 DEF Cells
  <2> QED BY <2>1, <2>2
<1>4. CASE ~(writableBytes >= len) /\ ~MustGrow(len)
  <2>1. /\ e.reader = CheapPrepend
        /\ e.buffer = [j \in 0 .. size - 1 |->
                         IF j \in CheapPrepend .. CheapPrepend + (writer - reader) - 1
                         THEN buffer[j - CheapPrepend + reader] ELSE buffer[j]]
    BY <1>4 DEF EnsureWritable, Moved, readableBytes
  <2> HIDE DEF e
  <2>2. CheapPrepend < reader
    BY <1>0, <1>4 DEF Cells, MustGrow, writableBytes, prependableBytes
  <2>3. /\ CheapPrepend + i - 1 \in CheapPrepend .. CheapPrepend + (writer - reader) - 1
        /\ CheapPrepend + i - 1 \in 0 .. size - 1
        /\ (CheapPrepend + i - 1) - CheapPrepend + reader = reader + i - 1
    BY <1>0, <1>1, <2>2 DEF Cells
  <2> QED BY <2>1, <2>3
<1> QED BY <1>2, <1>3, <1>4

\* c is the bytes in the cells r .. w - 1 of b.
Shows(c, b, r, w) ==
    /\ c \in Seq(Bytes)
    /\ Len(c) = w - r
    /\ \A i \in 1 .. w - r : c[i] = b[r + i - 1]

\* What ContentsLemma says, as a formula that can be primed.
Readable == Shows(Contents, buffer, reader, writer)

LEMMA ReadableNow == IInv => Readable
  BY ContentsLemma DEF Readable, Shows

LEMMA ReadableNext == IInv' => Readable'
  BY ReadableNow, PTL

\* Bytes s written behind the bytes c.
LEMMA BehindLemma ==
    ASSUME NEW n \in Nat, NEW b \in [0 .. n - 1 -> Bytes \cup {Garbage}],
           NEW r \in Nat, NEW w \in Nat, r <= w,
           NEW s \in Seq(Bytes), w + Len(s) <= n,
           NEW c, Shows(c, b, r, w),
           NEW d, Shows(d, Written(b, w, s), r, w + Len(s))
    PROVE  d = c \o s
<1> DEFINE m == Len(s)
           W == Written(b, w, s)
           e == c \o s
<1>0. /\ c \in Seq(Bytes) /\ Len(c) = w - r /\ \A i \in 1 .. w - r : c[i] = b[r + i - 1]
      /\ d \in Seq(Bytes) /\ Len(d) = w + m - r
      /\ \A i \in 1 .. w + m - r : d[i] = W[r + i - 1]
  BY DEF Shows
<1>1. m \in Nat
  OBVIOUS
<1>2. /\ e \in Seq(Bytes) /\ Len(e) = (w - r) + m
      /\ \A i \in 1 .. (w - r) + m : e[i] = IF i <= w - r THEN c[i] ELSE s[i - (w - r)]
  <2>1. /\ c \o s \in Seq(Bytes) /\ Len(c \o s) = Len(c) + Len(s)
        /\ \A i \in 1 .. Len(c) + Len(s) :
               (c \o s)[i] = IF i <= Len(c) THEN c[i] ELSE s[i - Len(c)]
    BY <1>0, ConcatProperties
  <2>2. Len(c) = w - r
    BY <1>0
  <2> QED BY <2>1, <2>2
<1>3. /\ \A j \in 0 .. n - 1 : j \notin w .. w + m - 1 => W[j] = b[j]
      /\ \A i \in 1 .. m : w + i - 1 \in 0 .. n - 1 => W[w + i - 1] = s[i]
  BY WrittenCells
<1>4. /\ Len(d) = (w - r) + m /\ w + m <= n
      /\ \A i \in 1 .. (w - r) + m : d[i] = W[r + i - 1]
  <2>1. w + m - r = (w - r) + m
    BY <1>1
  <2> QED BY <1>0, <1>1, <2>1
<1> HIDE DEF m, W, e
<1>5. ASSUME NEW i \in 1 .. (w - r) + m PROVE d[i] = e[i]
  <2>1. CASE i <= w - r
    <3>1. i \in 1 .. w - r /\ r + i - 1 \in 0 .. n - 1 /\ r + i - 1 \notin w .. w + m - 1
      BY <1>1, <1>4, <2>1
    <3> QED BY <1>0, <1>2, <1>3, <1>4, <2>1, <3>1
  <2>2. CASE ~(i <= w - r)
    <3>1. /\ i - (w - r) \in 1 .. m
          /\ w + (i - (w - r)) - 1 \in 0 .. n - 1
          /\ w + (i - (w - r)) - 1 = r + i - 1
      BY <1>1, <1>4, <2>2
    <3>2. W[w + (i - (w - r)) - 1] = s[i - (w - r)]
      BY <1>3, <3>1
    <3> QED BY <1>2, <1>4, <2>2, <3>1, <3>2
  <2> QED BY <2>1, <2>2
<1>6. d = e
  BY <1>0, <1>2, <1>4, <1>5, SeqEqual
<1> QED BY <1>6 DEF e

\* Bytes s written in front of the bytes c.
LEMMA InFrontLemma ==
    ASSUME NEW n \in Nat, NEW b \in [0 .. n - 1 -> Bytes \cup {Garbage}],
           NEW r \in Nat, NEW w \in Nat, r <= w, w <= n,
           NEW s \in Seq(Bytes), Len(s) <= r,
           NEW c, Shows(c, b, r, w),
           NEW d, Shows(d, Written(b, r - Len(s), s), r - Len(s), w)
    PROVE  d = s \o c
<1> DEFINE m == Len(s)
           p == r - m
           W == Written(b, p, s)
           e == s \o c
<1>0. /\ c \in Seq(Bytes) /\ Len(c) = w - r /\ \A i \in 1 .. w - r : c[i] = b[r + i - 1]
      /\ d \in Seq(Bytes) /\ Len(d) = w - p
      /\ \A i \in 1 .. w - p : d[i] = W[p + i - 1]
  BY DEF Shows
<1>1. m \in Nat /\ p \in Nat /\ p + m = r
  OBVIOUS
<1>2. /\ e \in Seq(Bytes) /\ Len(e) = m + (w - r)
      /\ \A i \in 1 .. m + (w - r) : e[i] = IF i <= m THEN s[i] ELSE c[i - m]
  <2>1. /\ s \o c \in Seq(Bytes) /\ Len(s \o c) = Len(s) + Len(c)
        /\ \A i \in 1 .. Len(s) + Len(c) :
               (s \o c)[i] = IF i <= Len(s) THEN s[i] ELSE c[i - Len(s)]
    BY <1>0, ConcatProperties
  <2>2. Len(c) = w - r
    BY <1>0
  <2> QED BY <2>1, <2>2
<1>3. /\ \A j \in 0 .. n - 1 : j \notin p .. p + m - 1 => W[j] = b[j]
      /\ \A i \in 1 .. m : p + i - 1 \in 0 .. n - 1 => W[p + i - 1] = s[i]
  BY <1>1, WrittenCells
<1>4. /\ Len(d) = m + (w - r)
      /\ \A i \in 1 .. m + (w - r) : d[i] = W[p + i - 1]
  <2>1. w - p = m + (w - r)
    BY <1>1
  <2> QED BY <1>0, <2>1
<1> HIDE DEF m, p, W, e
<1>5. ASSUME NEW i \in 1 .. m + (w - r) PROVE d[i] = e[i]
  <2>1. CASE i <= m
    <3>1. i \in 1 .. m /\ p + i - 1 \in 0 .. n - 1
      BY <1>1, <2>1
    <3> QED BY <1>2, <1>3, <1>4, <2>1, <3>1
  <2>2. CASE ~(i <= m)
    <3>1. /\ i - m \in 1 .. w - r
          /\ r + (i - m) - 1 \in 0 .. n - 1
          /\ r + (i - m) - 1 \notin p .. p + m - 1
          /\ r + (i - m) - 1 = p + i - 1
      BY <1>1, <2>2
    <3>2. W[p + i - 1] = b[r + (i - m) - 1]
      BY <1>3, <3>1
    <3>3. b[r + (i - m) - 1] = c[i - m]
      BY <1>0, <3>1
    <3> QED BY <1>2, <1>4, <2>2, <3>2, <3>3
  <2> QED BY <2>1, <2>2
<1>6. d = e
  BY <1>0, <1>2, <1>4, <1>5, SeqEqual
<1> QED BY <1>6 DEF e

\* The bytes d that are left of c when len are taken.
LEMMA DropLemma ==
    ASSUME NEW c \in Seq(Bytes), NEW d \in Seq(Bytes), NEW len \in Nat, len <= Len(c),
           Len(d) = Len(c) - len,
           \A i \in 1 .. Len(c) - len : d[i] = c[len + i]
    PROVE  d = SubSeq(c, len + 1, Len(c))
<1> DEFINE n == Len(c)
           e == SubSeq(c, len + 1, n)
<1>1. n \in Nat /\ \A i \in len + 1 .. n : c[i] \in Bytes
  BY ElementOfSeq
<1>2. /\ e \in Seq(Bytes)
      /\ Len(e) = IF len + 1 <= n THEN n - (len + 1) + 1 ELSE 0
      /\ \A i \in 1 .. n - (len + 1) + 1 : e[i] = c[(len + 1) + i - 1]
  BY <1>1, SubSeqProperties
<1>3. Len(d) = n - len /\ len <= n /\ \A i \in 1 .. n - len : d[i] = c[len + i]
  OBVIOUS
<1> HIDE DEF n, e
<1>4. Len(e) = n - len
  BY <1>1, <1>2, <1>3
<1>5. ASSUME NEW i \in 1 .. n - len PROVE d[i] = e[i]
  <2>1. i \in 1 .. n - (len + 1) + 1 /\ (len + 1) + i - 1 = len + i
    BY <1>1
  <2> QED BY <1>2, <1>3, <2>1
<1>6. d = e
  BY <1>2, <1>3, <1>4, <1>5, SeqEqual
<1> QED BY <1>6 DEF n, e

\* The bytes d that are left of c when the last len are dropped.
LEMMA CutLemma ==
    ASSUME NEW c \in Seq(Bytes), NEW d \in Seq(Bytes), NEW len \in Nat, len <= Len(c),
           Len(d) = Len(c) - len,
           \A i \in 1 .. Len(c) - len : d[i] = c[i]
    PROVE  d = SubSeq(c, 1, Len(c) - len)
<1> DEFINE k == Len(c) - len
           e == SubSeq(c, 1, k)
<1>1. k \in Nat /\ \A i \in 1 .. k : c[i] \in Bytes
  BY ElementOfSeq
<1>2. /\ e \in Seq(Bytes)
      /\ Len(e) = IF 1 <= k THEN k - 1 + 1 ELSE 0
      /\ \A i \in 1 .. k - 1 + 1 : e[i] = c[1 + i - 1]
  BY <1>1, SubSeqProperties
<1>3. Len(d) = k /\ \A i \in 1 .. k : d[i] = c[i]
  OBVIOUS
<1> HIDE DEF k, e
<1>4. Len(e) = k
  BY <1>1, <1>2
<1>5. ASSUME NEW i \in 1 .. k PROVE d[i] = e[i]
  <2>1. i \in 1 .. k - 1 + 1 /\ 1 + i - 1 = i
    BY <1>1
  <2> QED BY <1>2, <1>3, <2>1
<1>6. d = e
  BY <1>2, <1>3, <1>4, <1>5, SeqEqual
<1> QED BY <1>6 DEF k, e

\* A new buffer with s in it.
LEMMA FreshBytes ==
    ASSUME IInv', NEW n \in Nat, NEW s \in Seq(Bytes), Len(s) <= n, Len(s) <= MaxReadable,
           n <= MaxReadable + 2 * MaxLen, Fresh(n, s)
    PROVE  Contents' = s
<1> USE BufferAssumption
<1> DEFINE z == size'
           F == [i \in 0 .. z - 1 |-> Garbage]
           W == Written(F, CheapPrepend, s)
           m == Len(s)
           d == Contents'
<1>1. /\ z \in Nat /\ reader' = CheapPrepend /\ writer' = CheapPrepend + m
      /\ CheapPrepend + m <= z /\ buffer' = W
  BY FreshCells
<1>2. /\ d \in Seq(Bytes) /\ Len(d) = writer' - reader'
      /\ \A i \in 1 .. writer' - reader' : d[i] = buffer'[reader' + i - 1]
  BY ReadableNext DEF Readable, Shows
<1>3. m \in Nat
  OBVIOUS
<1>4. Len(d) = m /\ \A i \in 1 .. m : d[i] = W[CheapPrepend + i - 1]
  <2> HIDE DEF d, W, m
  <2> QED BY <1>1, <1>2, <1>3
<1>5. F \in [0 .. z - 1 -> Bytes \cup {Garbage}]
  OBVIOUS
<1> HIDE DEF z, F
<1>6. \A i \in 1 .. m : CheapPrepend + i - 1 \in 0 .. z - 1 => W[CheapPrepend + i - 1] = s[i]
  BY <1>1, <1>5, WrittenCells
<1> HIDE DEF d, W
<1>7. ASSUME NEW i \in 1 .. m PROVE d[i] = s[i]
  <2>1. CheapPrepend + i - 1 \in 0 .. z - 1
    BY <1>1, <1>3
  <2> QED BY <1>4, <1>6, <2>1
<1>8. d = s
  BY <1>2, <1>4, <1>7, SeqEqual
<1> QED BY <1>8 DEF d

\* Readable, before a step and after it.
LEMMA ReadableBoth ==
    ASSUME IInv, IInv'
    PROVE  /\ Shows(Contents, buffer, reader, writer)
           /\ Shows(Contents', buffer', reader', writer')
  BY ReadableNow, ReadableNext DEF Readable

LEMMA AppendBytes ==
    ASSUME IInv, IInv', NEW s \in Data, append(s) \/ ReadFits(s)
    PROVE  Contents' = Contents \o s
<1> USE BufferAssumption
<1> DEFINE c == Contents
           d == Contents'
<1>0. Cells
  BY CellsLemma
<1>1. s \in Seq(Bytes) /\ Len(s) \in 0 .. MaxLen
  BY DataLemma
<1>2. Shows(c, buffer, reader, writer) /\ Shows(d, buffer', reader', writer')
  BY ReadableBoth
<1> HIDE DEF c, d
<1>3. CASE append(s)
  <2> DEFINE e == EnsureWritable(Len(s))
  <2>1. Roomy(e, Len(s)) /\ \A i \in 1 .. writer - reader :
                                e.buffer[e.reader + i - 1] = buffer[reader + i - 1]
    BY <1>1, RoomLemma, RoomKeepsBytes
  <2>2. /\ buffer' = Written(e.buffer, e.writer, s)
        /\ reader' = e.reader /\ writer' = e.writer + Len(s)
    BY <1>3 DEF append, Become
  <2> DEFINE z == e.size
             r == e.reader
             w == e.writer
             b == e.buffer
  <2>3. /\ z \in Nat /\ r \in Nat /\ w \in Nat
        /\ b \in [0 .. z - 1 -> Bytes \cup {Garbage}]
        /\ w - r = writer - reader /\ r <= w /\ w + Len(s) <= z
    BY <2>1 DEF Roomy
  <2>4. buffer' = Written(b, w, s) /\ reader' = r /\ writer' = w + Len(s)
    BY <2>2
  <2>5. \A i \in 1 .. w - r : b[r + i - 1] = buffer[reader + i - 1]
    BY <2>1, <2>3
  <2> HIDE DEF e, z, r, w, b
  <2>6. Shows(c, b, r, w)
    BY <1>2, <2>3, <2>5 DEF Shows
  <2>7. Shows(d, Written(b, w, s), r, w + Len(s))
    BY <1>2, <2>4
  <2>8. d = c \o s
    BY <1>1, <2>3, <2>6, <2>7, BehindLemma
  <2> QED BY <2>8 DEF c, d
<1>4. CASE ReadFits(s)
  <2>1. /\ buffer' = Written(buffer, writer, s) /\ reader' = reader
        /\ writer' = writer + Len(s) /\ writer + Len(s) <= size
    BY <1>0, <1>1, <1>4 DEF ReadFits, writableBytes, Cells
  <2>2. Shows(d, Written(buffer, writer, s), reader, writer + Len(s))
    BY <1>2, <2>1
  <2>3. /\ size \in Nat /\ reader \in Nat /\ writer \in Nat /\ reader <= writer
        /\ buffer \in [0 .. size - 1 -> Bytes \cup {Garbage}]
    BY <1>0 DEF Cells
  <2>4. d = c \o s
    BY <1>1, <1>2, <2>1, <2>2, <2>3, BehindLemma
  <2> QED BY <2>4 DEF c, d
<1> QED BY <1>3, <1>4

LEMMA PrependBytes ==
    ASSUME IInv, IInv', NEW s \in Data, prepend(s)
    PROVE  Contents' = s \o Contents
<1> USE BufferAssumption
<1> DEFINE c == Contents
           d == Contents'
<1>0. Cells
  BY CellsLemma
<1>1. s \in Seq(Bytes) /\ Len(s) \in 0 .. MaxLen
  BY DataLemma
<1>2. Shows(c, buffer, reader, writer) /\ Shows(d, buffer', reader', writer')
  BY ReadableBoth
<1> HIDE DEF c, d
<1>3. /\ buffer' = Written(buffer, reader - Len(s), s) /\ writer' = writer
      /\ reader' = reader - Len(s) /\ Len(s) <= reader
  BY DEF prepend, prependableBytes
<1>4. Shows(d, Written(buffer, reader - Len(s), s), reader - Len(s), writer)
  BY <1>2, <1>3
<1>5. /\ size \in Nat /\ reader \in Nat /\ writer \in Nat /\ reader <= writer
      /\ writer <= size /\ buffer \in [0 .. size - 1 -> Bytes \cup {Garbage}]
  BY <1>0 DEF Cells
<1>6. d = s \o c
  BY <1>1, <1>2, <1>3, <1>4, <1>5, InFrontLemma
<1> QED BY <1>6 DEF c, d

\* What is left after len bytes are taken.
LEMMA TakeOffBytes ==
    ASSUME IInv, IInv', NEW len \in Nat, TakeOff(len)
    PROVE  /\ len <= Len(Contents)
           /\ Len(Contents') = Len(Contents) - len
           /\ \A i \in 1 .. Len(Contents) - len : Contents'[i] = Contents[len + i]
<1> USE BufferAssumption
<1> DEFINE c == Contents
           d == Contents'
<1>0. Cells
  BY CellsLemma
<1>1. /\ c \in Seq(Bytes) /\ Len(c) = writer - reader
      /\ \A i \in 1 .. writer - reader : c[i] = buffer[reader + i - 1]
      /\ d \in Seq(Bytes) /\ Len(d) = writer' - reader'
      /\ \A i \in 1 .. writer' - reader' : d[i] = buffer'[reader' + i - 1]
  BY ReadableBoth DEF Shows
<1> HIDE DEF c, d
<1>2. /\ len <= writer - reader /\ buffer' = buffer
      /\ IF len < writer - reader
         THEN reader' = reader + len /\ writer' = writer
         ELSE reader' = CheapPrepend /\ writer' = CheapPrepend
  BY DEF TakeOff, readableBytes
<1>3. reader \in Nat /\ writer \in Nat /\ reader <= writer
  BY <1>0 DEF Cells
<1>4. Len(d) = Len(c) - len
  BY <1>1, <1>2, <1>3
<1>5. ASSUME NEW i \in 1 .. Len(c) - len PROVE d[i] = c[len + i]
  <2>1. len < writer - reader /\ i \in 1 .. writer - reader - len
    BY <1>1, <1>3
  <2>2. /\ len + i \in 1 .. writer - reader
        /\ i \in 1 .. writer' - reader'
        /\ reader' + i - 1 = reader + (len + i) - 1
    BY <1>2, <1>3, <2>1
  <2> QED BY <1>1, <1>2, <2>2
<1> QED BY <1>1, <1>2, <1>4, <1>5 DEF c, d

LEMMA RetrieveBytes ==
    ASSUME IInv, IInv', NEW len \in Nat, TakeOff(len)
    PROVE  Contents' = SubSeq(Contents, len + 1, Len(Contents))
<1>1. Contents \in Seq(Bytes) /\ Contents' \in Seq(Bytes)
  BY ReadableBoth DEF Shows
<1> QED BY <1>1, TakeOffBytes, DropLemma

\* What was read and what is left are what there was.
LEMMA ReadBytes ==
    ASSUME IInv, IInv', NEW len \in Nat, TakeOff(len)
    PROVE  Contents = [i \in 1 .. len |-> buffer[reader + i - 1]] \o Contents'
<1> DEFINE c == Contents
           d == Contents'
           f == [i \in 1 .. len |-> buffer[reader + i - 1]]
           e == f \o d
<1>1. /\ c \in Seq(Bytes) /\ Len(c) = writer - reader
      /\ \A i \in 1 .. writer - reader : c[i] = buffer[reader + i - 1]
      /\ d \in Seq(Bytes)
  BY ReadableBoth DEF Shows
<1>2. /\ len <= Len(c) /\ Len(d) = Len(c) - len
      /\ \A i \in 1 .. Len(c) - len : d[i] = c[len + i]
  BY TakeOffBytes
<1>3. \A i \in 1 .. len : f[i] = buffer[reader + i - 1]
  OBVIOUS
<1>4. f \in Seq(Bytes) /\ Len(f) = len
  <2> HIDE DEF c, d
  <2>1. \A i \in 1 .. len : i \in 1 .. writer - reader /\ c[i] \in Bytes
    BY <1>1, <1>2
  <2>2. f \in [1 .. len -> Bytes]
    BY <1>1, <2>1
  <2> QED BY <2>2
<1> HIDE DEF c, d, f
<1>5. /\ e \in Seq(Bytes) /\ Len(e) = Len(f) + Len(d)
      /\ \A i \in 1 .. Len(f) + Len(d) : e[i] = IF i <= Len(f) THEN f[i] ELSE d[i - Len(f)]
  BY <1>1, <1>4, ConcatProperties
<1> HIDE DEF e
<1>6. Len(e) = Len(c) /\ Len(c) \in Nat
  BY <1>1, <1>2, <1>4, <1>5
<1>7. ASSUME NEW i \in 1 .. Len(c) PROVE c[i] = e[i]
  <2>1. CASE i <= len
    <3>1. i \in 1 .. len /\ i \in 1 .. writer - reader /\ i \in 1 .. Len(f) + Len(d)
      BY <1>1, <1>2, <1>4, <1>6, <2>1
    <3> QED BY <1>1, <1>3, <1>4, <1>5, <2>1, <3>1
  <2>2. CASE ~(i <= len)
    <3>1. i - len \in 1 .. Len(c) - len /\ len + (i - len) = i /\ i \in 1 .. Len(f) + Len(d)
      BY <1>2, <1>4, <1>6, <2>2
    <3> QED BY <1>2, <1>4, <1>5, <2>2, <3>1
  <2> QED BY <2>1, <2>2
<1>8. c = e
  BY <1>1, <1>5, <1>6, <1>7, SeqEqual
<1> QED BY <1>8 DEF c, d, e, f

LEMMA UnwriteBytes ==
    ASSUME IInv, IInv', NEW len \in 0 .. MaxLen, unwrite(len)
    PROVE  Contents' = SubSeq(Contents, 1, Len(Contents) - len)
<1> USE BufferAssumption
<1> DEFINE c == Contents
           d == Contents'
<1>0. reader \in Nat /\ writer \in Nat /\ reader <= writer
  BY CellsLemma DEF Cells
<1>1. /\ c \in Seq(Bytes) /\ Len(c) = writer - reader
      /\ \A i \in 1 .. writer - reader : c[i] = buffer[reader + i - 1]
      /\ d \in Seq(Bytes) /\ Len(d) = writer' - reader'
      /\ \A i \in 1 .. writer' - reader' : d[i] = buffer'[reader' + i - 1]
  BY ReadableBoth DEF Shows
<1> HIDE DEF c, d
<1>2. /\ len <= writer - reader /\ buffer' = buffer /\ reader' = reader
      /\ writer' = writer - len
  BY DEF unwrite, readableBytes
<1>3. len \in Nat /\ len <= Len(c) /\ Len(d) = Len(c) - len
  BY <1>0, <1>1, <1>2
<1>4. ASSUME NEW i \in 1 .. Len(c) - len PROVE d[i] = c[i]
  <2>1. i \in 1 .. writer - reader /\ i \in 1 .. writer' - reader'
    BY <1>0, <1>1, <1>2, <1>3
  <2> QED BY <1>1, <1>2, <2>1
<1>5. d = SubSeq(c, 1, Len(c) - len)
  BY <1>1, <1>3, <1>4, CutLemma
<1> QED BY <1>5 DEF c, d

LEMMA ReserveBytes ==
    ASSUME IInv, IInv', NEW len \in 0 .. MaxLen, ensureWritableBytes(len)
    PROVE  Contents' = Contents
<1> USE BufferAssumption
<1> DEFINE c == Contents
           d == Contents'
           e == EnsureWritable(len)
<1>0. Cells
  BY CellsLemma
<1>1. /\ c \in Seq(Bytes) /\ Len(c) = writer - reader
      /\ \A i \in 1 .. writer - reader : c[i] = buffer[reader + i - 1]
      /\ d \in Seq(Bytes) /\ Len(d) = writer' - reader'
      /\ \A i \in 1 .. writer' - reader' : d[i] = buffer'[reader' + i - 1]
  BY ReadableBoth DEF Shows
<1>2. e.writer - e.reader = writer - reader
  BY RoomLemma DEF Roomy
<1>3. \A i \in 1 .. writer - reader : e.buffer[e.reader + i - 1] = buffer[reader + i - 1]
  BY RoomKeepsBytes
<1>4. buffer' = e.buffer /\ reader' = e.reader /\ writer' = e.writer
  BY DEF ensureWritableBytes, Become
<1> HIDE DEF c, d, e
<1>5. Len(d) = Len(c) /\ \A i \in 1 .. Len(d) : d[i] = c[i]
  BY <1>1, <1>2, <1>3, <1>4
<1>6. d = c
  BY <1>1, <1>5, SeqEqual
<1> QED BY <1>6 DEF c, d

\* Every call is a step of the queue of bytes.
LEMMA StepQueue == IInv /\ IInv' /\ [Next]_vars => [Queue!Change]_Queue!vars
<1> USE BufferAssumption
<1> SUFFICES ASSUME IInv, IInv', [Next]_vars PROVE [Queue!Change]_Queue!vars
  OBVIOUS
<1>0. Cells
  BY CellsLemma
<1>1. ASSUME NEW s \in Data, append(s) \/ ReadFits(s) PROVE Queue!Change
  <2>1. op' = <<"append", s>>
    BY <1>1 DEF append, ReadFits
  <2> QED BY <1>1, <2>1, AppendBytes DEF Queue!Change
<1>2. ASSUME NEW s \in Data, prepend(s) PROVE Queue!Change
  <2>1. op' = <<"prepend", s>>
    BY <1>2 DEF prepend
  <2> QED BY <1>2, <2>1, PrependBytes DEF Queue!Change
<1>3. ASSUME NEW x \in Data, appendInt(x) \/ prependInt(x) PROVE Queue!Change
  <2>1. bit_endian(x) \in Data
    BY EndianLemma
  <2> QED BY <1>1, <1>2, <1>3, <2>1 DEF appendInt, prependInt
<1>4. ASSUME NEW len \in 0 .. MaxLen, retrieve(len) PROVE Queue!Change
  <2>1. op' = <<"retrieve", len>> /\ TakeOff(len) /\ len \in Nat
    BY <1>4 DEF retrieve
  <2> QED BY <2>1, RetrieveBytes DEF Queue!Change
<1>5. ASSUME NEW len \in 0 .. MaxLen, retrieveAsString(len) PROVE Queue!Change
  <2> DEFINE f == [i \in 1 .. len |-> buffer[reader + i - 1]]
  <2>1. op' = <<"read", f>> /\ TakeOff(len) /\ len \in Nat
    BY <1>5 DEF retrieveAsString
  <2>2. Contents = f \o Contents'
    BY <2>1, ReadBytes
  <2> HIDE DEF f
  <2> QED BY <2>1, <2>2 DEF Queue!Change
<1>6. ASSUME readInt8 PROVE Queue!Change
  <2> DEFINE f == [i \in 1 .. 1 |-> buffer[reader + i - 1]]
             g == <<buffer[reader]>>
  <2>1. op' = <<"read", g>> /\ TakeOff(1)
    BY <1>6 DEF readInt8
  <2>2. reader + 1 - 1 = reader
    BY <1>0 DEF Cells
  <2>3. f = g
    BY <2>2
  <2>4. Contents = f \o Contents'
    BY <2>1, ReadBytes
  <2> HIDE DEF f, g
  <2> QED BY <2>1, <2>3, <2>4 DEF Queue!Change
<1>7. ASSUME NEW len \in 0 .. MaxLen, unwrite(len) PROVE Queue!Change
  <2>1. op' = <<"unwrite", len>>
    BY <1>7 DEF unwrite
  <2> QED BY <1>7, <2>1, UnwriteBytes DEF Queue!Change
<1>8. ASSUME NEW len \in 0 .. MaxLen, ensureWritableBytes(len) PROVE Queue!Change
  <2>1. op' = <<"reserve", len>>
    BY <1>8 DEF ensureWritableBytes
  <2> QED BY <1>8, <2>1, ReserveBytes DEF Queue!Change
<1>9. ASSUME NEW len \in 0 .. MaxLen, shrink(len) PROVE Queue!Change
  <2>1. /\ Contents \in Seq(Bytes) /\ Len(Contents) <= MaxReadable
        /\ Len(Contents) = readableBytes /\ readableBytes \in Nat
    BY <1>0, ContentsLemma DEF readableBytes, Cells
  <2>2. /\ readableBytes + len \in Nat /\ Len(Contents) <= readableBytes + len
        /\ readableBytes + len <= MaxReadable + 2 * MaxLen
    BY <2>1
  <2>3. Fresh(readableBytes + len, Contents) /\ op' = <<"reserve", len>>
    BY <1>9 DEF shrink
  <2>4. Contents' = Contents
    BY <2>1, <2>2, <2>3, FreshBytes
  <2> QED BY <2>3, <2>4 DEF Queue!Change
<1>10. ASSUME NEW s \in Data, assign(s) PROVE Queue!Change
  <2>1. s \in Seq(Bytes) /\ Len(s) \in 0 .. MaxLen
    BY DataLemma
  <2>2. Len(s) \in Nat /\ Len(s) <= MaxReadable + 2 * MaxLen /\ Len(s) <= MaxReadable
    BY <1>10, <2>1 DEF assign
  <2>3. Fresh(Len(s), s) /\ op' = <<"assign", s>>
    BY <1>10 DEF assign
  <2>4. Contents' = s
    BY <2>1, <2>2, <2>3, FreshBytes
  <2> QED BY <2>3, <2>4 DEF Queue!Change
<1>11. ASSUME MoveAway PROVE Queue!Change
  <2>1. /\ Contents \in Seq(Bytes) /\ Len(Contents) = readableBytes
        /\ readableBytes \in Nat
    BY ContentsLemma DEF readableBytes
  <2> DEFINE d == <<>>
             n == 0
  <2>2. Fresh(n, d) /\ op' = <<"retrieve", readableBytes>>
    BY <1>11 DEF MoveAway
  <2>3. d \in Seq(Bytes) /\ Len(d) = 0 /\ n \in Nat /\ Len(d) <= n /\ Len(d) <= MaxReadable
        /\ n <= MaxReadable + 2 * MaxLen
    OBVIOUS
  <2> HIDE DEF d, n
  <2>4. Contents' = d
    BY <2>2, <2>3, FreshBytes
  <2>5. d = SubSeq(Contents, readableBytes + 1, Len(Contents))
    BY <2>1, <2>3, DropLemma
  <2> QED BY <2>2, <2>4, <2>5 DEF Queue!Change
<1>12. CASE UNCHANGED vars
  BY <1>12 DEF vars, Queue!vars, Contents, readableBytes
<1> QED
  BY <1>1, <1>2, <1>3, <1>4, <1>5, <1>6, <1>7, <1>8, <1>9, <1>10, <1>11, <1>12 DEF Next

-----------------------------------------------------------------------------
\* Buffer: the indices never pass each other or the end of the vector, so that
\* no size wraps around and no byte is written outside the vector.
THEOREM IndicesCorrect == Spec => []IndicesInOrder
<1>1. IInv => IndicesInOrder
  BY DEF IInv
<1> QED BY <1>1, Invariance, PTL

\* Buffer: the vector is bounded by what its callers leave in it and what they
\* write at once, however many bytes go through it.
THEOREM CapacityCorrect == Spec => []CapacityBounded
<1>1. IInv => CapacityBounded
  BY DEF IInv
<1> QED BY <1>1, Invariance, PTL

\* Buffer: the bytes the vector leaves uninitialised are never among those a
\* reader sees.
THEOREM ReadCorrect == Spec => []NoGarbageRead
<1>1. IInv => NoGarbageRead
  BY DEF IInv
<1> QED BY <1>1, Invariance, PTL

\* makeSpace: its assertion and that of ensureWritableBytes hold for every
\* length, in every state a buffer gets to.
THEOREM RoomCorrect == Spec => []RoomIsMade
<1> QED BY RoomFollows, Invariance, PTL
\* Buffer: whatever it does with its indices and its vector, its readable bytes
\* are those of a queue of bytes: what is appended, prepended, read, dropped
\* and assigned is neither lost nor doubled nor out of order.
THEOREM BufferIsByteQueue == Spec => ImplementsByteQueue
<1>1. Init => Queue!Init
  <2> SUFFICES ASSUME Init PROVE Contents = <<>> /\ op = <<"new">>
    BY DEF Queue!Init
  <2>1. writer - reader = 0
    BY BufferAssumption DEF Init
  <2> QED BY <2>1 DEF Init, Contents, readableBytes
<1> QED BY <1>1, StepQueue, Invariance, PTL DEF Spec, ImplementsByteQueue, Queue!Spec

-----------------------------------------------------------------------------
(* URL: what split makes of the parts that were put together. *)

\* The lengths and the characters of a string behind another one.
LEMMA Behind ==
    ASSUME NEW a \in String, NEW b \in String
    PROVE  /\ a \o b \in String /\ Len(a \o b) = Len(a) + Len(b)
           /\ Len(a) \in Nat /\ Len(b) \in Nat
           /\ \A i \in 1 .. Len(a) : (a \o b)[i] = a[i]
           /\ \A i \in 1 .. Len(b) : (a \o b)[Len(a) + i] = b[i]
<1>1. Len(a) \in Nat /\ Len(b) \in Nat
  BY LenProperties DEF String
<1>2. /\ a \o b \in String /\ Len(a \o b) = Len(a) + Len(b)
      /\ \A i \in 1 .. Len(a) + Len(b) :
            (a \o b)[i] = IF i <= Len(a) THEN a[i] ELSE b[i - Len(a)]
  BY ConcatProperties DEF String
<1>3. ASSUME NEW i \in 1 .. Len(b) PROVE (a \o b)[Len(a) + i] = b[i]
  <2>1. /\ Len(a) + i \in 1 .. Len(a) + Len(b) /\ ~(Len(a) + i <= Len(a))
        /\ Len(a) + i - Len(a) = i
    BY <1>1
  <2> QED BY <1>2, <2>1
<1>4. \A i \in 1 .. Len(a) : i \in 1 .. Len(a) + Len(b) /\ i <= Len(a)
  BY <1>1
<1> QED BY <1>1, <1>2, <1>3, <1>4

\* A character is a string of length one.
LEMMA Single ==
    ASSUME NEW S, NEW e \in S
    PROVE  <<e>> \in Seq(S) /\ Len(<<e>>) = 1 /\ <<e>>[1] = e
OBVIOUS

LEMMA One ==
    ASSUME NEW c \in Tokens
    PROVE  <<c>> \in String /\ Len(<<c>>) = 1 /\ <<c>>[1] = c
BY Single DEF String

\* The same for a character between two strings.
Delimited(s, a, c, b) ==
    /\ s \in String /\ Len(s) = Len(a) + 1 + Len(b)
    /\ Len(a) \in Nat /\ Len(b) \in Nat
    /\ \A i \in 1 .. Len(a) : s[i] = a[i]
    /\ s[Len(a) + 1] = c
    /\ \A i \in 1 .. Len(b) : s[Len(a) + 1 + i] = b[i]

LEMMA Around ==
    ASSUME NEW a \in String, NEW c \in Tokens, NEW b \in String
    PROVE  Delimited(a \o (<<c>> \o b), a, c, b)
<1> DEFINE t == <<c>> \o b
           s == a \o t
<1>1. <<c>> \in String /\ Len(<<c>>) = 1 /\ <<c>>[1] = c
  BY One
<1>2. /\ t \in String /\ Len(t) = 1 + Len(b) /\ Len(b) \in Nat
      /\ t[1] = c
      /\ \A i \in 1 .. Len(b) : t[1 + i] = b[i]
  <2>1. /\ t \in String /\ Len(t) = Len(<<c>>) + Len(b) /\ Len(b) \in Nat
        /\ \A i \in 1 .. Len(<<c>>) : t[i] = <<c>>[i]
        /\ \A i \in 1 .. Len(b) : t[Len(<<c>>) + i] = b[i]
    BY <1>1, Behind
  <2>2. 1 \in 1 .. Len(<<c>>)
    BY <1>1
  <2> QED BY <2>1, <2>2, <1>1
<1> HIDE DEF t
<1>3. /\ s \in String /\ Len(s) = Len(a) + Len(t) /\ Len(a) \in Nat
      /\ \A i \in 1 .. Len(a) : s[i] = a[i]
      /\ \A i \in 1 .. Len(t) : s[Len(a) + i] = t[i]
  BY <1>2, Behind
<1> HIDE DEF s
<1>4. s[Len(a) + 1] = c
  <2>1. 1 \in 1 .. Len(t)
    BY <1>2
  <2> QED BY <2>1, <1>2, <1>3
<1>5. ASSUME NEW i \in 1 .. Len(b) PROVE s[Len(a) + 1 + i] = b[i]
  <2>1. 1 + i \in 1 .. Len(t) /\ Len(a) + 1 + i = Len(a) + (1 + i)
    BY <1>2, <1>3
  <2>2. s[Len(a) + (1 + i)] = t[1 + i] /\ t[1 + i] = b[i]
    BY <2>1, <1>2, <1>3
  <2> QED BY <2>1, <2>2
<1>6. Len(s) = Len(a) + 1 + Len(b)
  BY <1>2, <1>3
<1>7. Delimited(s, a, c, b)
  BY <1>2, <1>3, <1>4, <1>5, <1>6 DEF Delimited
<1> QED BY <1>7 DEF s, t

\* Two strings with the same characters are the same.
LEMMA SameStr ==
    ASSUME NEW a \in String, NEW b \in String, Len(a) = Len(b), \A i \in 1 .. Len(a) : a[i] = b[i]
    PROVE  a = b
BY SeqEqual DEF String

\* substr of a string, place by place.
LEMMA Cut ==
    ASSUME NEW s \in String, NEW m \in Nat, NEW n \in Nat, m <= n, n <= Len(s)
    PROVE  /\ SubSeq(s, m + 1, n) \in String /\ Len(SubSeq(s, m + 1, n)) = n - m
           /\ \A i \in 1 .. n - m : SubSeq(s, m + 1, n)[i] = s[m + i]
<1>1. Len(s) \in Nat
  BY LenProperties DEF String
<1>2. \A i \in m + 1 .. n : s[i] \in Tokens
  <2>1. \A i \in m + 1 .. n : i \in 1 .. Len(s)
    BY <1>1
  <2> QED BY <2>1, ElementOfSeq DEF String
<1>3. m + 1 \in Int /\ n \in Int
  OBVIOUS
<1>4. /\ SubSeq(s, m + 1, n) \in String
      /\ Len(SubSeq(s, m + 1, n)) = IF m + 1 <= n THEN n - (m + 1) + 1 ELSE 0
      /\ \A i \in 1 .. n - (m + 1) + 1 : SubSeq(s, m + 1, n)[i] = s[m + 1 + i - 1]
  BY <1>2, <1>3, SubSeqProperties DEF String
<1>5. ASSUME NEW i \in 1 .. n - m PROVE SubSeq(s, m + 1, n)[i] = s[m + i]
  <2>1. i \in 1 .. n - (m + 1) + 1 /\ m + 1 + i - 1 = m + i
    OBVIOUS
  <2> QED BY <1>4, <2>1
<1> QED BY <1>4, <1>5

\* A string that is part of another one is what is cut out there.
LEMMA CutIs ==
    ASSUME NEW s \in String, NEW b \in String, NEW m \in Nat, m + Len(b) <= Len(s),
           \A i \in 1 .. Len(b) : s[m + i] = b[i]
    PROVE  SubSeq(s, m + 1, m + Len(b)) = b
<1>1. Len(b) \in Nat
  BY LenProperties DEF String
<1> DEFINE t == SubSeq(s, m + 1, m + Len(b))
<1>2. /\ t \in String /\ Len(t) = m + Len(b) - m
      /\ \A i \in 1 .. m + Len(b) - m : t[i] = s[m + i]
  <2>1. m + Len(b) \in Nat /\ m <= m + Len(b)
    BY <1>1
  <2> QED BY <2>1, Cut
<1>3. m + Len(b) - m = Len(b)
  BY <1>1
<1> HIDE DEF t
<1>4. t = b
  BY <1>2, <1>3, SameStr
<1> QED BY <1>4 DEF t

\* What is before place i, and what is from there on.
LEMMA CutConcat ==
    ASSUME NEW a \in String, NEW b \in String
    PROVE  Until(a \o b, Len(a)) = a /\ From(a \o b, Len(a)) = b
<1>1. /\ a \o b \in String /\ Len(a \o b) = Len(a) + Len(b)
      /\ Len(a) \in Nat /\ Len(b) \in Nat
      /\ \A i \in 1 .. Len(a) : (a \o b)[i] = a[i]
      /\ \A i \in 1 .. Len(b) : (a \o b)[Len(a) + i] = b[i]
  BY Behind
<1>2. SubSeq(a \o b, 0 + 1, 0 + Len(a)) = a
  <2>1. 0 + Len(a) <= Len(a \o b) /\ \A i \in 1 .. Len(a) : 0 + i = i
    BY <1>1
  <2> QED BY <2>1, <1>1, CutIs
<1>3. SubSeq(a \o b, Len(a) + 1, Len(a) + Len(b)) = b
  <2>1. Len(a) + Len(b) <= Len(a \o b)
    BY <1>1
  <2> QED BY <2>1, <1>1, CutIs
<1>4. Until(a \o b, Len(a)) = a
  <2>1. 0 + 1 = 1 /\ 0 + Len(a) = Len(a) /\ Len(a) # npos
    BY <1>1 DEF npos
  <2> QED BY <2>1, <1>2 DEF Until
<1> QED BY <1>1, <1>3, <1>4 DEF From

\* And around a character between the two.
LEMMA CutAround ==
    ASSUME NEW a \in String, NEW c \in Tokens, NEW b \in String
    PROVE  Until(a \o (<<c>> \o b), Len(a)) = a /\ From(a \o (<<c>> \o b), Len(a) + 1) = b
<1>1. <<c>> \in String /\ Len(<<c>>) = 1
  BY One
<1>2. <<c>> \o b \in String
  BY <1>1, Behind
<1>3. a \o <<c>> \in String /\ Len(a \o <<c>>) = Len(a) + 1
  BY <1>1, Behind
<1>4. From((a \o <<c>>) \o b, Len(a \o <<c>>)) = b
  BY <1>3, CutConcat
<1>5. (a \o <<c>>) \o b = a \o (<<c>> \o b)
  BY <1>1, ConcatAssociative DEF String
<1> QED BY <1>2, <1>3, <1>4, <1>5, CutConcat

\* find and find_last_of: a place where a character is, with none before or
\* none behind it, is the one that is found.
LEMMA FoundFirst ==
    ASSUME NEW s, NEW cs, NEW from \in Nat, NEW k \in from .. Len(s) - 1, Len(s) \in Nat,
           s[k + 1] \in cs, \A i \in from .. k - 1 : s[i + 1] \notin cs
    PROVE  Places(s, cs, from) # {} /\ Min(Places(s, cs, from)) = k
<1> DEFINE at == Places(s, cs, from)
<1>1. k \in at /\ at \subseteq Nat
  BY DEF Places
<1>2. \A i \in at : k <= i
  <2> SUFFICES ASSUME NEW i \in at, i < k PROVE FALSE
    BY <1>1
  <2>1. i \in from .. Len(s) - 1 /\ s[i + 1] \in cs
    BY DEF Places
  <2>2. i \in from .. k - 1
    BY <2>1
  <2> QED BY <2>1, <2>2
<1> HIDE DEF at
<1>3. \A x \in at : (\A y \in at : x <= y) => x = k
  BY <1>1, <1>2
<1>4. Min(at) = k
  BY <1>1, <1>2, <1>3 DEF Min
<1> QED BY <1>1, <1>4 DEF at

LEMMA FoundLast ==
    ASSUME NEW s, NEW c, Len(s) \in Nat, NEW k \in 0 .. Len(s) - 1,
           s[k + 1] = c, \A i \in k + 1 .. Len(s) - 1 : s[i + 1] # c
    PROVE  FindLast(s, c) = k
<1> DEFINE at == Places(s, {c}, 0)
<1>1. k \in at /\ at \subseteq Nat
  BY DEF Places
<1>2. \A i \in at : i <= k
  <2> SUFFICES ASSUME NEW i \in at, k < i PROVE FALSE
    BY <1>1
  <2>1. i \in 0 .. Len(s) - 1 /\ s[i + 1] = c
    BY DEF Places
  <2>2. i \in k + 1 .. Len(s) - 1
    BY <2>1
  <2> QED BY <2>1, <2>2
<1>3. FindLast(s, c) = Max(at)
  BY <1>1 DEF FindLast
<1> HIDE DEF at
<1>4. \A x \in at : (\A y \in at : x >= y) => x = k
  BY <1>1, <1>2
<1>5. Max(at) = k
  BY <1>1, <1>2, <1>4 DEF Max
<1> QED BY <1>3, <1>5

\* Where there is none, none is found.
LEMMA FoundNone ==
    ASSUME NEW s \in String, NEW cs, Without(s, cs), NEW from \in Nat
    PROVE  Places(s, cs, from) = {}
<1>1. Len(s) \in Nat /\ DOMAIN s = 1 .. Len(s)
  BY LenProperties DEF String
<1>2. \A i \in from .. Len(s) - 1 : i + 1 \in DOMAIN s
  BY <1>1
<1> QED BY <1>2 DEF Places, Without

LEMMA FoundNoChar ==
    ASSUME NEW s \in String, NEW c, Without(s, {c})
    PROVE  Find(s, c) = npos /\ FindLast(s, c) = npos
BY FoundNone DEF Find, FindLast

\* The first of its kind, and the last.
LEMMA SplitFirst ==
    ASSUME NEW a \in String, NEW c \in Tokens, NEW b \in String, Without(a, {c})
    PROVE  Find(a \o (<<c>> \o b), c) = Len(a)
<1> DEFINE s == a \o (<<c>> \o b)
<1>0. Delimited(s, a, c, b)
  BY Around
<1> HIDE DEF s
<1>1. /\ s \in String /\ Len(s) = Len(a) + 1 + Len(b)
      /\ Len(a) \in Nat /\ Len(b) \in Nat
      /\ \A i \in 1 .. Len(a) : s[i] = a[i]
      /\ s[Len(a) + 1] = c
  BY <1>0 DEF Delimited
<1>2. \A i \in 0 .. Len(a) - 1 : s[i + 1] \notin {c}
  <2> TAKE i \in 0 .. Len(a) - 1
  <2>1. i + 1 \in 1 .. Len(a)
    BY <1>1
  <2>2. i + 1 \in DOMAIN a
    BY <2>1, LenProperties DEF String
  <2> QED BY <2>1, <2>2, <1>1 DEF Without
<1>3. Len(a) \in 0 .. Len(s) - 1 /\ Len(s) \in Nat
  BY <1>1
<1>4. Places(s, {c}, 0) # {} /\ Min(Places(s, {c}, 0)) = Len(a)
  BY <1>1, <1>2, <1>3, FoundFirst
<1> QED BY <1>4 DEF Find, s

LEMMA SplitLast ==
    ASSUME NEW a \in String, NEW c \in Tokens, NEW b \in String, Without(b, {c})
    PROVE  FindLast(a \o (<<c>> \o b), c) = Len(a)
<1> DEFINE s == a \o (<<c>> \o b)
<1>0. Delimited(s, a, c, b)
  BY Around
<1> HIDE DEF s
<1>1. /\ s \in String /\ Len(s) = Len(a) + 1 + Len(b)
      /\ Len(a) \in Nat /\ Len(b) \in Nat
      /\ s[Len(a) + 1] = c
      /\ \A i \in 1 .. Len(b) : s[Len(a) + 1 + i] = b[i]
  BY <1>0 DEF Delimited
<1>2. \A i \in Len(a) + 1 .. Len(s) - 1 : s[i + 1] # c
  <2> TAKE i \in Len(a) + 1 .. Len(s) - 1
  <2>1. i - Len(a) \in 1 .. Len(b) /\ Len(a) + 1 + (i - Len(a)) = i + 1
    BY <1>1
  <2>2. i - Len(a) \in DOMAIN b
    BY <2>1, LenProperties DEF String
  <2>3. s[Len(a) + 1 + (i - Len(a))] = b[i - Len(a)]
    BY <2>1, <1>1
  <2> QED BY <2>1, <2>2, <2>3 DEF Without
<1>3. Len(a) \in 0 .. Len(s) - 1 /\ Len(s) \in Nat
  BY <1>1
<1>4. FindLast(s, c) = Len(a)
  BY <1>1, <1>2, <1>3, FoundLast
<1> QED BY <1>4 DEF s

\* A string put together from two that lack some characters lacks them.
LEMMA WithoutBoth ==
    ASSUME NEW a \in String, NEW b \in String, NEW cs, Without(a, cs), Without(b, cs)
    PROVE  Without(a \o b, cs)
<1>1. /\ a \o b \in String /\ Len(a \o b) = Len(a) + Len(b)
      /\ Len(a) \in Nat /\ Len(b) \in Nat
      /\ \A i \in 1 .. Len(a) : (a \o b)[i] = a[i]
      /\ \A i \in 1 .. Len(b) : (a \o b)[Len(a) + i] = b[i]
  BY Behind
<1>2. DOMAIN a = 1 .. Len(a) /\ DOMAIN b = 1 .. Len(b) /\ DOMAIN (a \o b) = 1 .. Len(a) + Len(b)
  <2>1. \A s \in String : DOMAIN s = 1 .. Len(s)
    BY LenProperties DEF String
  <2> QED BY <2>1, <1>1
<1> SUFFICES ASSUME NEW i \in 1 .. Len(a) + Len(b) PROVE (a \o b)[i] \notin cs
  BY <1>2 DEF Without
<1>3. CASE i \in 1 .. Len(a)
  BY <1>1, <1>2, <1>3 DEF Without
<1>4. CASE i \notin 1 .. Len(a)
  <2>1. i - Len(a) \in 1 .. Len(b) /\ Len(a) + (i - Len(a)) = i
    BY <1>1, <1>4
  <2>2. (a \o b)[Len(a) + (i - Len(a))] = b[i - Len(a)]
    BY <2>1, <1>1
  <2> QED BY <2>1, <2>2, <1>2 DEF Without
<1> QED BY <1>3, <1>4

LEMMA WithoutOne ==
    ASSUME NEW c \in Tokens, NEW cs, c \notin cs
    PROVE  Without(<<c>>, cs)
<1>1. DOMAIN <<c>> = {1}
  OBVIOUS
<1> QED BY <1>1, One DEF Without

\* The characters split looks for.
LEMMA Characters ==
    /\ ":" \in Tokens /\ "/" \in Tokens /\ "?" \in Tokens /\ "#" \in Tokens
    /\ ":" \notin {"/", "?", "#"} /\ "?" \notin {"#"}
BY DEF Tokens, Delimiters

\* What follows the path: nothing, or a delimiter and a part.
LEMMA OptionalIs ==
    ASSUME NEW c \in Tokens, NEW b \in String
    PROVE  /\ Optional(c, b) \in String
           /\ b = <<>> => Optional(c, b) = <<>>
           /\ b # <<>> => Optional(c, b) = <<c>> \o b
<1>1. <<>> \in String
  BY EmptySeq DEF String
<1>2. <<c>> \o b \in String
  BY One, Behind
<1> QED BY <1>1, <1>2 DEF Optional

LEMMA NothingBehind == ASSUME NEW a \in String PROVE a \o <<>> = a
BY ConcatEmptySeq DEF String

\* The parts with a host and a port, and with what follows them.
WithHost(parts, host, port) == [parts EXCEPT !.host = host, !.port = port]

WithTail(parts, path, query, ref) ==
    [parts EXCEPT !.ref = ref, !.query = query, !.path = path]

\* The tail of split finds the path, the query and the reference.
LEMMA TailFound ==
    ASSUME NEW parts, NEW path \in String, NEW query \in String, NEW ref \in String,
           Without(path, {"?", "#"}), Without(query, {"#"}), Without(ref, {"#"})
    PROVE  SplitTail(parts, path \o Optional("?", query) \o Optional("#", ref))
                = WithTail(parts, path, query, ref)
<1> DEFINE front == path \o Optional("?", query)
           v == front \o Optional("#", ref)
<1>1. Without(path, {"?"}) /\ Without(path, {"#"})
  BY DEF Without
<1>2. "?" \in Tokens /\ "#" \in Tokens /\ "?" \notin {"#"}
  BY Characters
<1>3. front \in String /\ Without(front, {"#"})
  <2>1. CASE query = <<>>
    BY <2>1, <1>1, <1>2, OptionalIs, NothingBehind
  <2>2. CASE query # <<>>
    <3>1. <<"?">> \in String /\ Without(<<"?">>, {"#"})
      BY <1>2, One, WithoutOne
    <3>2. <<"?">> \o query \in String /\ Without(<<"?">> \o query, {"#"})
      BY <3>1, Behind, WithoutBoth
    <3>3. path \o (<<"?">> \o query) \in String /\ Without(path \o (<<"?">> \o query), {"#"})
      BY <3>2, <1>1, Behind, WithoutBoth
    <3> QED BY <3>3, <2>2, <1>2, OptionalIs
  <2> QED BY <2>1, <2>2
<1> DEFINE mark == Find(front, "?")
<1> HIDE DEF mark
<1>4. /\ (IF mark = npos THEN <<>> ELSE From(front, mark + 1)) = query
      /\ Until(front, mark) = path
  <2>1. CASE query = <<>>
    <3>1. front = path
      BY <2>1, <1>2, OptionalIs, NothingBehind
    <3>2. mark = npos
      BY <3>1, <1>1, FoundNoChar DEF mark
    <3> QED BY <3>1, <3>2, <2>1 DEF Until
  <2>2. CASE query # <<>>
    <3>1. front = path \o (<<"?">> \o query)
      BY <2>2, <1>2, OptionalIs
    <3>2. mark = Len(path) /\ Len(path) \in Nat
      BY <3>1, <1>1, <1>2, SplitFirst, LenProperties DEF String, mark
    <3>3. Until(front, mark) = path /\ From(front, mark + 1) = query
      <4> HIDE DEF front
      <4> QED BY <3>1, <3>2, <1>2, CutAround
    <3>4. mark # npos
      BY <3>2 DEF npos
    <3> QED BY <3>3, <3>4
  <2> QED BY <2>1, <2>2
<1> HIDE DEF front
<1> DEFINE sharp == FindLast(v, "#")
<1> HIDE DEF sharp
<1>5. /\ (IF sharp = npos THEN <<>> ELSE From(v, sharp + 1)) = ref
      /\ Until(v, sharp) = front
  <2>1. CASE ref = <<>>
    <3>1. v = front
      BY <2>1, <1>2, <1>3, OptionalIs, NothingBehind
    <3>2. sharp = npos
      BY <3>1, <1>3, FoundNoChar DEF sharp
    <3> QED BY <3>1, <3>2, <2>1 DEF Until
  <2>2. CASE ref # <<>>
    <3>1. v = front \o (<<"#">> \o ref)
      BY <2>2, <1>2, OptionalIs
    <3>2. sharp = Len(front) /\ Len(front) \in Nat
      BY <3>1, <1>2, <1>3, SplitLast, LenProperties DEF String, sharp
    <3>3. Until(v, sharp) = front /\ From(v, sharp + 1) = ref
      <4> HIDE DEF v
      <4> QED BY <3>1, <3>2, <1>2, <1>3, CutAround
    <3>4. sharp # npos
      BY <3>2 DEF npos
    <3> QED BY <3>3, <3>4
  <2> QED BY <2>1, <2>2
<1>6. SplitTail(parts, v) =
        [parts EXCEPT
           !.ref = IF sharp = npos THEN <<>> ELSE From(v, sharp + 1),
           !.query = IF Find(Until(v, sharp), "?") = npos THEN <<>>
                     ELSE From(Until(v, sharp), Find(Until(v, sharp), "?") + 1),
           !.path = Until(Until(v, sharp), Find(Until(v, sharp), "?"))]
  BY DEF SplitTail, sharp
<1> HIDE DEF v
<1>7. SplitTail(parts, v) = [parts EXCEPT !.ref = ref, !.query = query, !.path = path]
  BY <1>4, <1>5, <1>6 DEF mark
<1> QED BY <1>7 DEF v, front, WithTail

\* What split makes of the part behind "//" is a question of the last colon of
\* the host and the port, for the first delimiter behind them is found.
HostCut(parts, hp, tail) ==
    LET colonIndex == FindLast(hp, ":")
    IN IF colonIndex # npos /\ ~tryHostPort(hp, colonIndex) THEN parts
       ELSE SplitTail([parts EXCEPT
                         !.host = Until(hp, colonIndex),
                         !.port = IF colonIndex = npos THEN <<>> ELSE From(hp, colonIndex + 1)],
                      tail)

LEMMA HostFound ==
    ASSUME NEW parts, NEW hp \in String, NEW tail \in String, Without(hp, {"/", "?", "#"}),
           tail # <<>> => tail[1] \in {"/", "?", "#"}
    PROVE  SplitHost(parts, <<"/", "/">> \o (hp \o tail)) = HostCut(parts, hp, tail)
<1> DEFINE cs == {"/", "?", "#"}
           slashes == <<"/", "/">>
           a == slashes \o hp
           v == a \o tail
           ends == Places(v, cs, 2)
           end == IF ends = {} THEN Len(v) ELSE Min(ends)
<1>1. slashes \in String /\ Len(slashes) = 2
  <2>1. <<"/">> \in String /\ Len(<<"/">>) = 1
    BY One, Characters
  <2>2. <<"/">> \o <<"/">> \in String
    BY <2>1, Behind
  <2>3. slashes = <<"/">> \o <<"/">>
    OBVIOUS
  <2> QED BY <2>2, <2>3
<1>2. slashes \o (hp \o tail) = v
  BY <1>1, ConcatAssociative DEF String
<1> HIDE DEF slashes
<1>3. /\ a \in String /\ Len(a) = 2 + Len(hp) /\ Len(hp) \in Nat
      /\ \A i \in 1 .. Len(hp) : a[2 + i] = hp[i]
  <2>1. /\ a \in String /\ Len(a) = Len(slashes) + Len(hp) /\ Len(hp) \in Nat
        /\ \A i \in 1 .. Len(hp) : a[Len(slashes) + i] = hp[i]
    BY <1>1, Behind
  <2> QED BY <2>1, <1>1
<1> HIDE DEF a
<1>4. /\ v \in String /\ Len(v) = Len(a) + Len(tail) /\ Len(tail) \in Nat
      /\ \A i \in 1 .. Len(a) : v[i] = a[i]
      /\ \A i \in 1 .. Len(tail) : v[Len(a) + i] = tail[i]
      /\ From(v, Len(a)) = tail
  BY <1>3, Behind, CutConcat
<1> HIDE DEF v
<1>5. \A i \in 1 .. Len(hp) : v[2 + i] = hp[i] /\ hp[i] \notin cs
  <2> TAKE i \in 1 .. Len(hp)
  <2>1. 2 + i \in 1 .. Len(a) /\ i \in DOMAIN hp
    BY <1>3, LenProperties DEF String
  <2> QED BY <2>1, <1>3, <1>4 DEF Without
<1>6. end = Len(a)
  <2>1. \A i \in 2 .. Len(a) - 1 : v[i + 1] \notin cs
    <3> TAKE i \in 2 .. Len(a) - 1
    <3>1. i - 1 \in 1 .. Len(hp) /\ 2 + (i - 1) = i + 1
      BY <1>3
    <3>2. v[2 + (i - 1)] \notin cs
      BY <3>1, <1>5
    <3> QED BY <3>1, <3>2
  <2>2. CASE tail = <<>>
    <3>1. Len(v) = Len(a)
      BY <2>2, <1>3, <1>4
    <3>2. ends = {}
      BY <3>1, <2>1 DEF Places
    <3> QED BY <3>1, <3>2
  <2>3. CASE tail # <<>>
    <3>1. Len(tail) \in Nat \ {0}
      BY <2>3, EmptySeq DEF String
    <3>2. 1 \in 1 .. Len(tail) /\ Len(a) \in 2 .. Len(v) - 1 /\ Len(v) \in Nat
      BY <3>1, <1>3, <1>4
    <3>3. v[Len(a) + 1] \in cs
      BY <3>2, <2>3, <1>4
    <3> HIDE DEF cs
    <3>4. ends # {} /\ Min(ends) = Len(a)
      BY <3>2, <3>3, <2>1, FoundFirst
    <3> QED BY <3>4
  <2> QED BY <2>2, <2>3
<1>7. SubSeq(v, 3, end) = hp
  <2>1. SubSeq(v, 2 + 1, 2 + Len(hp)) = hp
    <3>1. 2 + Len(hp) <= Len(v)
      BY <1>3, <1>4
    <3> QED BY <3>1, <1>4, <1>5, CutIs
  <2> QED BY <2>1, <1>3, <1>6
<1>8. From(v, end) = tail
  BY <1>4, <1>6
<1>9. SplitHost(parts, v) =
        LET hostport == SubSeq(v, 3, end)
            colonIndex == FindLast(hostport, ":")
        IN IF colonIndex # npos /\ ~tryHostPort(hostport, colonIndex) THEN parts
           ELSE SplitTail([parts EXCEPT
                             !.host = Until(hostport, colonIndex),
                             !.port = IF colonIndex = npos THEN <<>>
                                      ELSE From(hostport, colonIndex + 1)],
                          From(v, end))
  BY DEF SplitHost
<1> HIDE DEF end
<1>10. SplitHost(parts, v) = HostCut(parts, hp, tail)
  BY <1>7, <1>8, <1>9 DEF HostCut
<1> QED BY <1>2, <1>10 DEF slashes

\* A host that is a name or an address in brackets is accepted.
LEMMA HostAccepted ==
    ASSUME NEW host \in String,
           Without(host, Delimiters) \/ (host[1] = "[" /\ host[Len(host)] = "]")
    PROVE  checkHostname(host) \/ checkIP(host)
<1>1. CASE Without(host, Delimiters)
  BY <1>1 DEF Without, checkHostname
<1>2. CASE host = <<>>
  BY <1>2 DEF checkHostname
<1>3. CASE host # <<>> /\ host[1] = "[" /\ host[Len(host)] = "]"
  <2>1. Len(host) \in Nat \ {0}
    BY <1>3, EmptySeq DEF String
  <2>2. Find(host, "[") = 0
    <3>1. 0 \in 0 .. Len(host) - 1 /\ 0 + 1 = 1 /\ Len(host) \in Nat
      BY <2>1
    <3>2. host[0 + 1] \in {"["} /\ \A i \in 0 .. 0 - 1 : host[i + 1] \notin {"["}
      BY <1>3
    <3>3. Places(host, {"["}, 0) # {} /\ Min(Places(host, {"["}, 0)) = 0
      BY <3>1, <3>2, FoundFirst
    <3> QED BY <3>3 DEF Find
  <2>3. FindLast(host, "]") = Len(host) - 1
    <3>1. Len(host) - 1 \in 0 .. Len(host) - 1 /\ (Len(host) - 1) + 1 = Len(host) /\ Len(host) \in Nat
      BY <2>1
    <3>2. host[(Len(host) - 1) + 1] = "]"
      BY <3>1, <1>3
    <3>3. \A i \in (Len(host) - 1) + 1 .. Len(host) - 1 : host[i + 1] # "]"
      BY <2>1
    <3> QED BY <3>1, <3>2, <3>3, FoundLast
  <2> QED BY <2>1, <2>2, <2>3 DEF checkIP, npos
<1> QED BY <1>1, <1>2, <1>3

\* A port has no delimiter in it.
LEMMA PortWithout ==
    ASSUME NEW port \in String, AllOfNumber(port)
    PROVE  Without(port, {":"}) /\ Without(port, {"/", "?", "#"})
BY DEF AllOfNumber, Without, Numbers

\* The host and its port are told apart, unless the host's own colon is the last.
LEMMA HostCutIs ==
    ASSUME NEW parts, NEW host \in String, NEW port \in String, NEW tail,
           Without(host, Delimiters) \/ (host[1] = "[" /\ host[Len(host)] = "]"),
           AllOfNumber(port),
           port = <<>> => Without(host, {":"})
    PROVE  HostCut(parts, host \o Optional(":", port), tail)
                = SplitTail(WithHost(parts, host, port), tail)
<1> DEFINE hp == host \o Optional(":", port)
           colonIndex == FindLast(hp, ":")
<1>1. HostCut(parts, hp, tail) =
        IF colonIndex # npos /\ ~tryHostPort(hp, colonIndex) THEN parts
        ELSE SplitTail([parts EXCEPT
                          !.host = Until(hp, colonIndex),
                          !.port = IF colonIndex = npos THEN <<>> ELSE From(hp, colonIndex + 1)],
                       tail)
  BY DEF HostCut
<1> HIDE DEF hp, colonIndex
<1>2. ":" \in Tokens
  BY Characters
<1>3. CASE port = <<>>
  <2>1. hp = host
    BY <1>2, <1>3, OptionalIs, NothingBehind DEF hp
  <2>2. colonIndex = npos
    BY <2>1, <1>3, FoundNoChar DEF colonIndex
  <2>3. Until(hp, colonIndex) = host
    BY <2>1, <2>2 DEF Until
  <2> QED BY <1>1, <1>3, <2>2, <2>3 DEF hp, WithHost
<1>4. CASE port # <<>>
  <2>1. hp = host \o (<<":">> \o port)
    BY <1>2, <1>4, OptionalIs DEF hp
  <2>2. colonIndex = Len(host) /\ Len(host) \in Nat
    BY <2>1, <1>2, PortWithout, SplitLast, LenProperties DEF String, colonIndex
  <2>3. Until(hp, colonIndex) = host /\ From(hp, colonIndex + 1) = port
    BY <2>1, <2>2, <1>2, CutAround
  <2>4. colonIndex # npos
    BY <2>2 DEF npos
  <2>5. tryHostPort(hp, colonIndex)
    <3>1. checkHostname(host) \/ checkIP(host)
      BY HostAccepted
    <3>2. tryPort(port)
      BY <1>4 DEF tryPort
    <3> QED BY <3>1, <3>2, <2>3 DEF tryHostPort
  <2> QED BY <1>1, <2>3, <2>4, <2>5 DEF hp, WithHost
<1> QED BY <1>3, <1>4

\* A set of numbers that is bounded has a greatest one.
LEMMA GreatestOf ==
    ASSUME NEW n \in Nat, NEW S \in SUBSET (0 .. n), S # {}
    PROVE  Max(S) \in S
<1> DEFINE Lt == {ss \in Nat \X Nat : ss[1] < ss[2]}
           T == {n - x : x \in S}
<1>1. IsWellFoundedOn(Lt, Nat)
  BY NatLessThanWellFounded DEF OpToRel
<1>2. T \in SUBSET Nat /\ T # {}
  <2>1. \A x \in 0 .. n : n - x \in Nat
    OBVIOUS
  <2>2. T \subseteq Nat
    BY <2>1
  <2>3. PICK x \in S : TRUE
    OBVIOUS
  <2>4. n - x \in T
    OBVIOUS
  <2> QED BY <2>2, <2>4
<1>3. PICK y \in T : \A z \in T : ~(<<z, y>> \in Lt)
  <2> HIDE DEF T, Lt
  <2> QED BY <1>1, <1>2, WFMin
<1>4. PICK x \in S : y = n - x
  OBVIOUS
<1>5. ASSUME NEW w \in S PROVE x >= w
  <2>1. n - w \in T /\ n - w \in Nat /\ n - x \in Nat
    OBVIOUS
  <2>2. ~(n - w < n - x)
    BY <2>1, <1>3, <1>4
  <2>3. w \in Int /\ x \in Int
    OBVIOUS
  <2> QED BY <2>2, <2>3
<1> QED BY <1>5 DEF Max

\* A host with a colon and no port is not found.
LEMMA HostCutIsNot ==
    ASSUME NEW parts, NEW host \in String, NEW tail, parts.host = <<>>, ~Without(host, {":"}),
           DOMAIN parts = DOMAIN NoParts
    PROVE  HostCut(parts, host \o Optional(":", <<>>), tail).host # host
<1> DEFINE colonIndex == FindLast(host, ":")
           at == Places(host, {":"}, 0)
<1>1. host \o Optional(":", <<>>) = host
  <2>1. <<>> \in String /\ ":" \in Tokens
    BY EmptySeq, Characters DEF String
  <2> QED BY <2>1, OptionalIs, NothingBehind
<1>2. Len(host) \in Nat /\ DOMAIN host = 1 .. Len(host)
  BY LenProperties DEF String
<1>3. at \in SUBSET (0 .. Len(host)) /\ at # {}
  <2>1. PICK i \in 1 .. Len(host) : host[i] = ":"
    BY <1>2 DEF Without
  <2>2. i - 1 \in 0 .. Len(host) - 1 /\ (i - 1) + 1 = i
    BY <1>2
  <2>3. i - 1 \in at
    BY <2>1, <2>2 DEF Places
  <2>4. at \in SUBSET (0 .. Len(host))
    BY <1>2 DEF Places
  <2> QED BY <2>3, <2>4
<1>4. colonIndex \in at
  BY <1>2, <1>3, GreatestOf DEF FindLast
<1>5. colonIndex \in 0 .. Len(host) - 1
  BY <1>4 DEF Places
<1> HIDE DEF at
<1>6. colonIndex # npos /\ colonIndex \in Nat /\ colonIndex < Len(host)
  BY <1>2, <1>5 DEF npos
<1>7. Until(host, colonIndex) # host
  <2>1. 0 <= colonIndex /\ colonIndex <= Len(host) /\ 0 \in Nat /\ 0 + 1 = 1 /\ colonIndex - 0 = colonIndex
    BY <1>6, <1>2
  <2>2. Len(SubSeq(host, 0 + 1, colonIndex)) = colonIndex - 0
    BY ONLY <2>1, <1>6, host \in String, Cut
  <2>3. Until(host, colonIndex) = SubSeq(host, 1, colonIndex)
    BY <1>6 DEF Until
  <2> QED BY <2>1, <2>2, <2>3, <1>6
<1>8. host # <<>>
  BY <1>2, <1>6
<1>9. HostCut(parts, host, tail) =
        IF ~tryHostPort(host, colonIndex) THEN parts
        ELSE SplitTail([parts EXCEPT !.host = Until(host, colonIndex),
                                     !.port = From(host, colonIndex + 1)], tail)
  BY <1>6 DEF HostCut
<1> HIDE DEF colonIndex
<1>10. CASE ~tryHostPort(host, colonIndex)
  BY <1>1, <1>8, <1>9, <1>10
<1>11. CASE tryHostPort(host, colonIndex)
  <2> DEFINE found == [parts EXCEPT !.host = Until(host, colonIndex),
                                    !.port = From(host, colonIndex + 1)]
  <2>1. found.host = Until(host, colonIndex) /\ DOMAIN found = DOMAIN NoParts
    BY DEF NoParts
  <2> HIDE DEF found
  <2>2. SplitTail(found, tail).host = found.host
    BY <2>1 DEF SplitTail, NoParts
  <2> QED BY <2>1, <2>2, <1>1, <1>7, <1>9, <1>11 DEF found
<1> QED BY <1>10, <1>11

\* The parts behind the host, and where they begin.
UrlTail(u) == u.path \o Optional("?", u.query) \o Optional("#", u.ref)

\* The first character of a string that is put together.
LEMMA FirstIs ==
    ASSUME NEW a \in String, NEW b \in String, a # <<>>
    PROVE  a \o b # <<>> /\ (a \o b)[1] = a[1]
<1>1. Len(a) \in Nat \ {0}
  BY EmptySeq DEF String
<1>2. /\ Len(a \o b) = Len(a) + Len(b) /\ Len(b) \in Nat
      /\ \A i \in 1 .. Len(a) : (a \o b)[i] = a[i]
  BY Behind
<1>3. 1 \in 1 .. Len(a) /\ Len(a) + Len(b) # 0
  BY <1>1, <1>2
<1>4. a \o b # <<>>
  <2> SUFFICES ASSUME a \o b = <<>> PROVE FALSE
    OBVIOUS
  <2>1. Len(a \o b) = 0
    OBVIOUS
  <2> QED BY <2>1, <1>2, <1>3
<1> QED BY <1>2, <1>3, <1>4

LEMMA OptionalFirst ==
    ASSUME NEW c \in Tokens, NEW b \in String
    PROVE  /\ Optional(c, b) \in String
           /\ Optional(c, b) # <<>> => Optional(c, b)[1] = c
<1>1. Optional(c, b) = <<>> \/ Optional(c, b) = <<c>> \o b
  BY DEF Optional
<1>2. <<c>> \in String /\ <<c>>[1] = c /\ <<c>> # <<>>
  BY One
<1> QED BY <1>1, <1>2, FirstIs, OptionalIs

LEMMA TailFirst ==
    ASSUME NEW u, WellFormed(u), UrlTail(u) # <<>>
    PROVE  UrlTail(u)[1] \in {"/", "?", "#"}
<1> DEFINE q == Optional("?", u.query)
           r == Optional("#", u.ref)
<1>1. u.path \in String /\ u.query \in String /\ u.ref \in String
  BY DEF WellFormed, Parts
<1>2. q \in String /\ (q # <<>> => q[1] = "?") /\ r \in String /\ (r # <<>> => r[1] = "#")
  BY <1>1, Characters, OptionalFirst
<1>3. u.path # <<>> => u.path[1] = "/"
  BY DEF WellFormed
<1>4. UrlTail(u) = (u.path \o q) \o r
  BY DEF UrlTail
<1> HIDE DEF q, r
<1>5. u.path \o q \in String
  BY <1>1, <1>2, Behind
<1>6. CASE u.path # <<>>
  <2>1. u.path \o q # <<>> /\ (u.path \o q)[1] = "/"
    BY <1>1, <1>2, <1>3, <1>6, FirstIs
  <2> QED BY <2>1, <1>2, <1>4, <1>5, FirstIs
<1>7. CASE u.path = <<>> /\ q # <<>>
  <2>1. u.path \o q = q
    BY <1>2, <1>7, ConcatEmptySeq DEF String
  <2> QED BY <2>1, <1>2, <1>4, <1>7, FirstIs
<1>8. CASE u.path = <<>> /\ q = <<>>
  <2>1. u.path \o q = <<>>
    BY <1>2, <1>8, ConcatEmptySeq DEF String
  <2>2. UrlTail(u) = r
    BY <2>1, <1>2, <1>4, ConcatEmptySeq DEF String
  <2> QED BY <2>2, <1>2
<1> QED BY <1>6, <1>7, <1>8

\* Concatenation under a name of its own, which the provers leave as it is.
Cat(a, b) == a \o b

LEMMA Assoc ==
    ASSUME NEW x \in String, NEW y \in String, NEW z \in String
    PROVE  Cat(Cat(x, y), z) = Cat(x, Cat(y, z)) /\ Cat(x, y) \in String
BY ConcatAssociative, ConcatProperties DEF String, Cat

\* Grouping the pieces of a URL the other way.
LEMMA GroupFour ==
    ASSUME NEW a \in String, NEW b \in String, NEW c \in String, NEW d \in String
    PROVE  Cat(Cat(Cat(a, b), c), d) = Cat(a, Cat(b, Cat(c, d)))
BY Assoc

AllOf(protocol, colon, host, p, path, q, r) ==
    protocol \o colon \o host \o p \o path \o q \o r

Nested(protocol, colon, host, p, path, q, r) ==
    protocol \o (colon \o ((host \o p) \o ((path \o q) \o r)))

Strings(protocol, colon, host, p, path, q, r) ==
    /\ protocol \in String /\ colon \in String /\ host \in String /\ p \in String
    /\ path \in String /\ q \in String /\ r \in String

LEMMA Grouped ==
    ASSUME NEW protocol, NEW colon, NEW host, NEW p, NEW path, NEW q, NEW r,
           Strings(protocol, colon, host, p, path, q, r)
    PROVE  AllOf(protocol, colon, host, p, path, q, r)
             = Nested(protocol, colon, host, p, path, q, r)
<1> DEFINE front == Cat(protocol, Cat(colon, Cat(host, p)))
           back == Cat(Cat(path, q), r)
           h == Cat(host, p)
<1>0. /\ protocol \in String /\ colon \in String /\ host \in String /\ p \in String
      /\ path \in String /\ q \in String /\ r \in String
  BY DEF Strings
<1>1. front \in String /\ Cat(colon, h) \in String /\ h \in String /\ back \in String
  BY <1>0, Assoc
<1>2. Cat(Cat(Cat(protocol, colon), host), p) = front
  BY <1>0, GroupFour
<1> HIDE DEF front
<1>3. Cat(Cat(Cat(front, path), q), r) = Cat(front, back)
  BY <1>0, <1>1, Assoc
<1> USE DEF front
<1> HIDE DEF back, h
<1>4. Cat(Cat(protocol, Cat(colon, h)), back) = Cat(protocol, Cat(Cat(colon, h), back))
  BY <1>0, <1>1, Assoc
<1>5. Cat(Cat(colon, h), back) = Cat(colon, Cat(h, back))
  BY <1>0, <1>1, Assoc
<1>6. Cat(front, back) = Cat(protocol, Cat(colon, Cat(h, back)))
  BY ONLY <1>4, <1>5 DEF h
<1> HIDE DEF front
<1>7. Cat(Cat(Cat(Cat(Cat(Cat(protocol, colon), host), p), path), q), r)
        = Cat(protocol, Cat(colon, Cat(h, back)))
  BY ONLY <1>2, <1>3, <1>6
<1> QED BY ONLY <1>7 DEF Cat, back, h, AllOf, Nested

\* split finds the protocol and takes the part behind "//" for the host and the rest.
LEMMA ProtocolFound ==
    ASSUME NEW u, WellFormed(u)
    PROVE  split(Rendered(u)) =
             SplitHost([NoParts EXCEPT !.protocol = u.protocol],
                       <<"/", "/">> \o ((u.host \o Optional(":", u.port)) \o UrlTail(u)))
<1> DEFINE slashes == <<"/", "/">>
           hp == u.host \o Optional(":", u.port)
           tail == UrlTail(u)
           rest == slashes \o (hp \o tail)
           text == Rendered(u)
<1>1. /\ u.protocol \in String /\ u.host \in String /\ u.port \in String
      /\ u.path \in String /\ u.query \in String /\ u.ref \in String
      /\ Without(u.protocol, {":"})
  BY DEF WellFormed, Parts
<1>2. /\ slashes \in String /\ Len(slashes) = 2 /\ slashes[1] = "/" /\ slashes # <<>>
      /\ <<":">> \in String /\ <<":">> \o slashes = <<":", "/", "/">>
  <2>1. <<"/">> \in String /\ <<":">> \in String
    BY One, Characters
  <2>2. <<"/">> \o <<"/">> \in String
    BY <2>1, Behind
  <2>3. slashes = <<"/">> \o <<"/">>
    OBVIOUS
  <2>4. slashes \in String
    BY <2>2, <2>3
  <2>5. Len(slashes) = 2 /\ slashes[1] = "/"
    OBVIOUS
  <2>6. slashes # <<>>
    BY <2>4, <2>5, EmptySeq
  <2>7. <<":">> \o slashes = <<":", "/", "/">>
    <3> DEFINE colon == <<":", "/", "/">>
               both == <<":">> \o slashes
    <3>1. colon \in String /\ Len(colon) = 3
      <4>1. \A S : \A x, y, z \in S : <<x, y, z>> \in Seq(S) /\ Len(<<x, y, z>>) = 3
        OBVIOUS
      <4> QED BY <4>1, Characters DEF String
    <3>2. /\ both \in String /\ Len(both) = 1 + 2
          /\ \A i \in 1 .. 1 : both[i] = <<":">>[i]
          /\ \A i \in 1 .. 2 : both[1 + i] = slashes[i]
      <4> DEFINE one == <<":">>
      <4>1. Len(one) = 1
        OBVIOUS
      <4>2. one \in String
        BY <2>1
      <4> HIDE DEF slashes, one
      <4>3. LET b == one \o slashes IN
            /\ b \in String /\ Len(b) = 1 + 2
            /\ \A i \in 1 .. 1 : b[i] = one[i]
            /\ \A i \in 1 .. 2 : b[1 + i] = slashes[i]
        <5> DEFINE b == one \o slashes
        <5>1. /\ b \in String /\ Len(b) = Len(one) + Len(slashes)
              /\ \A i \in 1 .. Len(one) : b[i] = one[i]
              /\ \A i \in 1 .. Len(slashes) : b[Len(one) + i] = slashes[i]
          BY ONLY <4>2, <2>4, Behind
        <5> HIDE DEF b
        <5>2. Len(slashes) = 2
          BY <2>5
        <5>3. b \in String /\ Len(b) = 1 + 2 /\ (\A i \in 1 .. 1 : b[i] = one[i])
          BY <4>1, <5>1, <5>2
        <5>4. \A i \in 1 .. 2 : b[1 + i] = slashes[i]
          BY <4>1, <5>1, <5>2
        <5> QED BY ONLY <5>3, <5>4 DEF b
      <4> QED BY ONLY <4>3 DEF one
    <3>3. both[1] = ":" /\ both[2] = "/" /\ both[3] = "/"
      <4> HIDE DEF both
      <4>1. 1 \in 1 .. 1 /\ 1 \in 1 .. 2 /\ 2 \in 1 .. 2 /\ 1 + 1 = 2 /\ 1 + 2 = 3
        OBVIOUS
      <4> QED BY <3>2, <4>1
    <3>4. colon[1] = ":" /\ colon[2] = "/" /\ colon[3] = "/"
      OBVIOUS
    <3> HIDE DEF both, colon
    <3>5. \A i \in 1 .. Len(both) : both[i] = colon[i]
      BY <3>2, <3>3, <3>4
    <3>6. both = colon
      BY <3>1, <3>2, <3>5, SameStr
    <3> QED BY <3>6 DEF both, colon
  <2> QED BY <2>1, <2>4, <2>5, <2>6, <2>7
<1>3. /\ Optional(":", u.port) \in String /\ Optional("?", u.query) \in String
      /\ Optional("#", u.ref) \in String
  BY <1>1, Characters, OptionalFirst
<1>4. hp \in String /\ tail \in String /\ hp \o tail \in String
  <2>1. hp \in String
    BY <1>1, <1>3, Behind
  <2>2. u.path \o Optional("?", u.query) \in String
    BY <1>1, <1>3, Behind
  <2>3. tail \in String
    BY <2>2, <1>3, Behind DEF UrlTail
  <2> HIDE DEF hp, tail
  <2> QED BY <2>1, <2>3, Behind
<1>5. text = u.protocol \o (<<":">> \o rest)
  <2>1. <<":", "/", "/">> \in String
    BY <1>2, Behind
  <2>2. text = u.protocol \o (<<":", "/", "/">> \o (hp \o tail))
    <3> DEFINE colon == <<":", "/", "/">>
               p == Optional(":", u.port)
               q == Optional("?", u.query)
               r == Optional("#", u.ref)
    <3>1. text = u.protocol \o colon \o u.host \o p \o u.path \o q \o r
      BY DEF Rendered
    <3>2. hp = u.host \o p /\ tail = (u.path \o q) \o r
      BY DEF UrlTail
    <3>3. colon \in String /\ p \in String /\ q \in String /\ r \in String
      BY <2>1, <1>3
    <3> HIDE DEF colon, p, q, r
    <3>4. Strings(u.protocol, colon, u.host, p, u.path, q, r)
      BY <1>1, <3>3 DEF Strings
    <3>5. AllOf(u.protocol, colon, u.host, p, u.path, q, r)
            = Nested(u.protocol, colon, u.host, p, u.path, q, r)
      BY ONLY <3>4, Grouped
    <3>6. text = u.protocol \o (colon \o (hp \o tail))
      <4> HIDE DEF text, hp, tail
      <4> QED BY ONLY <3>1, <3>2, <3>5 DEF AllOf, Nested
    <3> QED BY <3>6 DEF colon
  <2> HIDE DEF slashes, hp, tail
  <2>3. (<<":">> \o slashes) \o (hp \o tail) = <<":">> \o (slashes \o (hp \o tail))
    BY <1>2, <1>4, ConcatAssociative DEF String
  <2> QED BY <2>2, <2>3, <1>2
<1> HIDE DEF slashes, hp, tail
<1>6. /\ rest \in String /\ Len(rest) = 2 + Len(hp \o tail) /\ Len(hp \o tail) \in Nat
      /\ rest # <<>> /\ rest[1] = "/" /\ Until(rest, 2) = slashes
  <2>1. rest \in String /\ Len(rest) = Len(slashes) + Len(hp \o tail) /\ Len(hp \o tail) \in Nat
    BY <1>2, <1>4, Behind
  <2>2. rest # <<>> /\ rest[1] = "/"
    BY <1>2, <1>4, FirstIs
  <2>3. Until(rest, Len(slashes)) = slashes
    BY <1>2, <1>4, CutConcat
  <2> QED BY <2>1, <2>2, <2>3, <1>2
<1> HIDE DEF rest, text
<1>7. /\ Find(text, ":") = Len(u.protocol)
      /\ Until(text, Len(u.protocol)) = u.protocol
      /\ From(text, Len(u.protocol) + 1) = rest
  BY <1>1, <1>5, <1>6, Characters, SplitFirst, CutAround
<1>8. ~tryHostPort(text, Len(u.protocol))
  <2>1. 1 \in DOMAIN rest
    <3>1. DOMAIN rest = 1 .. Len(rest)
      BY <1>6, LenProperties DEF String
    <3> QED BY <3>1, <1>6
  <2>2. ~AllOfNumber(rest)
    BY <2>1, <1>6 DEF AllOfNumber, Numbers
  <2> QED BY <2>2, <1>7 DEF tryHostPort, tryPort
<1>9. IsPrefix(slashes, rest)
  <2>1. SubSeq(rest, 1, 2) = slashes
    BY <1>6 DEF Until, npos
  <2>2. SubSeq(slashes, 1, Len(slashes)) = slashes
    BY <1>2, SubSeqFull DEF String
  <2>3. Len(slashes) <= Len(rest)
    BY <1>2, <1>6
  <2> QED BY <2>1, <2>2, <2>3, <1>2 DEF IsPrefix
<1>10. split(text) = SplitHost([NoParts EXCEPT !.protocol = u.protocol], rest)
  BY <1>7, <1>8, <1>9 DEF split, slashes
<1> QED BY <1>10 DEF text, rest, slashes, hp, tail

\* What split does with a well-formed URL.
LEMMA SplitIs ==
    ASSUME NEW u, WellFormed(u)
    PROVE  split(Rendered(u)) =
             HostCut([NoParts EXCEPT !.protocol = u.protocol],
                     u.host \o Optional(":", u.port), UrlTail(u))
<1> DEFINE hp == u.host \o Optional(":", u.port)
<1>1. /\ u.host \in String /\ u.port \in String /\ u.path \in String
      /\ u.query \in String /\ u.ref \in String
      /\ Without(u.host, {"/", "?", "#"}) /\ AllOfNumber(u.port)
  BY DEF WellFormed, Parts
<1>2. hp \in String /\ Without(hp, {"/", "?", "#"})
  <2>1. CASE u.port = <<>>
    BY <2>1, <1>1, Characters, OptionalIs, NothingBehind
  <2>2. CASE u.port # <<>>
    <3>1. Optional(":", u.port) = <<":">> \o u.port
      BY <2>2, <1>1, Characters, OptionalIs
    <3>2. <<":">> \in String /\ Without(<<":">>, {"/", "?", "#"})
      BY Characters, One, WithoutOne
    <3>3. <<":">> \o u.port \in String /\ Without(<<":">> \o u.port, {"/", "?", "#"})
      BY <3>2, <1>1, PortWithout, Behind, WithoutBoth
    <3>4. /\ u.host \o (<<":">> \o u.port) \in String
          /\ Without(u.host \o (<<":">> \o u.port), {"/", "?", "#"})
      BY <3>3, <1>1, Behind, WithoutBoth
    <3> QED BY <3>1, <3>4
  <2> QED BY <2>1, <2>2
<1>3. UrlTail(u) \in String /\ (UrlTail(u) # <<>> => UrlTail(u)[1] \in {"/", "?", "#"})
  <2>1. Optional("?", u.query) \in String /\ Optional("#", u.ref) \in String
    BY <1>1, Characters, OptionalFirst
  <2>2. u.path \o Optional("?", u.query) \in String
    BY <2>1, <1>1, Behind
  <2>3. UrlTail(u) \in String
    BY <2>1, <2>2, Behind DEF UrlTail
  <2> QED BY <2>3, TailFirst
<1> HIDE DEF hp
<1>4. SplitHost([NoParts EXCEPT !.protocol = u.protocol], <<"/", "/">> \o (hp \o UrlTail(u)))
        = HostCut([NoParts EXCEPT !.protocol = u.protocol], hp, UrlTail(u))
  BY <1>2, <1>3, HostFound
<1> QED BY <1>4, ProtocolFound DEF hp

\* A URL's parts, whatever their lengths and wherever else the delimiters occur in
\* them, are what split finds in it (URL.cpp, URL::split), unless the host has a
\* colon of its own and no port follows: then it never finds the host.
THEOREM SplitCorrect ==
    ASSUME NEW u, WellFormed(u)
    PROVE  IF HidesPort(u) THEN split(Rendered(u)).host # u.host ELSE split(Rendered(u)) = u
<1> DEFINE parts == [NoParts EXCEPT !.protocol = u.protocol]
<1>1. /\ u \in Parts /\ u.host \in String /\ u.port \in String /\ AllOfNumber(u.port)
      /\ u.path \in String /\ u.query \in String /\ u.ref \in String
      /\ Without(u.path, {"?", "#"}) /\ Without(u.query, {"#"}) /\ Without(u.ref, {"#"})
      /\ Without(u.host, Delimiters) \/ (u.host[1] = "[" /\ u.host[Len(u.host)] = "]")
  BY DEF WellFormed, Parts
<1>2. split(Rendered(u)) = HostCut(parts, u.host \o Optional(":", u.port), UrlTail(u))
  BY SplitIs
<1>3. ":" \in ToSet(u.host) <=> ~Without(u.host, {":"})
  BY DEF ToSet, Without
<1>4. CASE HidesPort(u)
  <2>1. u.port = <<>> /\ ~Without(u.host, {":"})
    BY <1>3, <1>4 DEF HidesPort
  <2>2. parts.host = <<>> /\ DOMAIN parts = DOMAIN NoParts
    BY DEF NoParts
  <2> HIDE DEF parts
  <2>3. HostCut(parts, u.host \o Optional(":", <<>>), UrlTail(u)).host # u.host
    BY <2>1, <2>2, <1>1, HostCutIsNot
  <2> QED BY <2>1, <2>3, <1>2, <1>4
<1>5. CASE ~HidesPort(u)
  <2>1. u.port = <<>> => Without(u.host, {":"})
    BY <1>3, <1>5 DEF HidesPort
  <2> DEFINE found == WithHost(parts, u.host, u.port)
  <2>2. HostCut(parts, u.host \o Optional(":", u.port), UrlTail(u)) = SplitTail(found, UrlTail(u))
    <3>1. PICK host \in String, port \in String : host = u.host /\ port = u.port
      BY <1>1
    <3>2. /\ Without(host, Delimiters) \/ (host[1] = "[" /\ host[Len(host)] = "]")
          /\ AllOfNumber(port) /\ (port = <<>> => Without(host, {":"}))
      BY <1>1, <2>1, <3>1
    <3>3. HostCut(parts, host \o Optional(":", port), UrlTail(u))
            = SplitTail(WithHost(parts, host, port), UrlTail(u))
      <4> HIDE DEF parts
      <4> QED BY <3>1, <3>2, HostCutIs
    <3> QED BY <3>1, <3>3
  <2>3. SplitTail(found, UrlTail(u)) = WithTail(found, u.path, u.query, u.ref)
    <3>1. PICK path \in String, query \in String, ref \in String :
              path = u.path /\ query = u.query /\ ref = u.ref
      BY <1>1
    <3>2. Without(path, {"?", "#"}) /\ Without(query, {"#"}) /\ Without(ref, {"#"})
      BY <1>1, <3>1
    <3>3. SplitTail(found, path \o Optional("?", query) \o Optional("#", ref))
            = WithTail(found, path, query, ref)
      <4> HIDE DEF found
      <4> QED BY <3>1, <3>2, TailFound
    <3> QED BY <3>1, <3>3 DEF UrlTail
  <2>4. WithTail(found, u.path, u.query, u.ref) = u
    BY <1>1 DEF NoParts, Parts, WithTail, WithHost
  <2> QED BY <2>2, <2>3, <2>4, <1>2, <1>5
<1> QED BY <1>4, <1>5

-----------------------------------------------------------------------------
(* The request of the HTTP client *)

\* The client keeps the user's URL until it is connected, and where it connects
\* and what it will send are what split made of it.
HttpIInv ==
    /\ state \in {"New", "Connecting", "Requested"}
    /\ state # "Requested" => url \in Urls
    /\ state = "Connecting" =>
           /\ address = AddressOf(split(Rendered(url)))
           /\ writeBuffer = RequestText(RequestFor(split(Rendered(url))))

LEMMA HttpInvariant == HttpSpec => []HttpIInv
<1>1. HttpInit => HttpIInv
  BY DEF HttpInit, HttpIInv
<1>2. HttpIInv /\ [HttpNext]_httpVars => HttpIInv'
  <2> SUFFICES ASSUME HttpIInv, [HttpNext]_httpVars PROVE HttpIInv'
    OBVIOUS
  <2>1. CASE Get
    BY <2>1 DEF Get, HttpIInv
  <2>2. CASE OnConnection
    BY <2>2 DEF OnConnection, HttpIInv
  <2>3. CASE Receive
    <3>1. state = "Requested" /\ UNCHANGED <<state, url, address, writeBuffer>>
      <4>1. PICK n \in 1 .. Len(wire) : OnMessage(n)
        BY <2>3 DEF Receive
      <4> QED BY <2>3, <4>1 DEF Receive, OnMessage
    <3> QED BY <3>1 DEF HttpIInv
  <2>4. CASE UNCHANGED httpVars
    BY <2>4 DEF httpVars, HttpIInv
  <2> QED BY <2>1, <2>2, <2>3, <2>4 DEF HttpNext
<1> QED BY <1>1, <1>2, PTL DEF HttpSpec

\* The request asks the host of the user's URL for its path, whatever the URL is,
\* unless its host hides the port (HttpClient.cpp, HttpClient::get).
THEOREM RequestCorrect == HttpSpec => []RequestAsksForUrl
<1>1. HttpIInv => RequestAsksForUrl
  <2> SUFFICES ASSUME HttpIInv, state = "Connecting", ~HidesPort(url)
               PROVE  /\ address = AddressOf(url)
                      /\ writeBuffer = RequestText(RequestFor(url))
    BY DEF RequestAsksForUrl
  <2>1. /\ url \in Urls
        /\ address = AddressOf(split(Rendered(url)))
        /\ writeBuffer = RequestText(RequestFor(split(Rendered(url))))
    BY DEF HttpIInv
  <2>2. WellFormed(url)
    BY <2>1, UrlAssumption
  <2>3. split(Rendered(url)) = url
    BY <2>2, SplitCorrect
  <2> QED BY ONLY <2>1, <2>3
<1> QED BY <1>1, HttpInvariant, PTL

=============================================================================
