------------------------------- MODULE Buffer -------------------------------
(***************************************************************************)
(* base::Buffer: the bytes between two indices of a vector, with a few     *)
(* bytes kept free in front of them.                                       *)
(*                                                                         *)
(* A call that needs room takes what is free behind the bytes, else moves  *)
(* the bytes to the front when the free room of both ends is enough, else  *)
(* lets the vector grow.  The vector leaves the bytes it adds              *)
(* uninitialised (NoInit): Garbage stands for what they hold.              *)
(*                                                                         *)
(* An integer is its bytes, in the order they have in memory.  peekInt16,  *)
(* 32 and 64 call a std::copy that does not exist, and cannot be used; of  *)
(* the integers only a byte can be read.                                   *)
(***************************************************************************)
EXTENDS Integers, Sequences

CONSTANTS
    Bytes,        \* what a byte can be
    Garbage,      \* what a byte that nobody wrote holds
    Endian,       \* the order of bytes of the class, next to the machine's
    CheapPrepend, \* kCheapPrepend
    InitialSize,  \* kInitialSize
    MaxLen,       \* bound: the bytes of one call
    MaxReadable   \* bound: the bytes the callers leave in the buffer

ASSUME BufferAssumption ==
    /\ Garbage \notin Bytes
    /\ Endian \in {"native", "other"}
    /\ CheapPrepend \in Nat
    /\ InitialSize \in Nat
    /\ MaxLen \in Nat
    /\ MaxReadable \in Nat

VARIABLES
    buffer, \* buffer_, the cells 0 .. size - 1
    size,   \* buffer_.size()
    reader, \* readerIndex_
    writer, \* writerIndex_
    op      \* history: the last call: its name, and its bytes or their number

vars == <<buffer, size, reader, writer, op>>

\* The sizes of the integers a call can be given.
IntSizes == {1, 2, 4, 8}

\* The byte strings a call can be given.
Data == UNION {[1 .. n -> Bytes] : n \in 0 .. MaxLen}

readableBytes == writer - reader
writableBytes == size - writer
prependableBytes == reader

\* toString_view
Contents == [i \in 1 .. readableBytes |-> buffer[reader + i - 1]]

Init ==
    /\ size = CheapPrepend + InitialSize
    /\ buffer = [i \in 0 .. size - 1 |-> Garbage]
    /\ reader = CheapPrepend
    /\ writer = CheapPrepend
    /\ op = <<"new">>

-----------------------------------------------------------------------------
(* ensureWritableBytes: the state after it, as a record.                   *)

Same == [buffer |-> buffer, size |-> size, reader |-> reader, writer |-> writer]

\* makeSpace: buffer_.resize(writerIndex_ + len).
Grown(len) ==
    [Same EXCEPT
        !.size = writer + len,
        !.buffer = [i \in 0 .. writer + len - 1 |-> IF i < size THEN buffer[i] ELSE Garbage]]

\* makeSpace: the bytes are copied to the front.
Moved ==
    [buffer |-> [i \in 0 .. size - 1 |->
                    IF i \in CheapPrepend .. CheapPrepend + readableBytes - 1
                    THEN buffer[i - CheapPrepend + reader] ELSE buffer[i]],
     size |-> size,
     reader |-> CheapPrepend,
     writer |-> CheapPrepend + readableBytes]

MustGrow(len) == writableBytes + prependableBytes < len + CheapPrepend

\* Mutant: makeSpace always moves the bytes.
EnsureWritable_Moves(len) == IF writableBytes >= len THEN Same ELSE Moved

\* Mutant: makeSpace always lets the vector grow.
EnsureWritable_Grows(len) == IF writableBytes >= len THEN Same ELSE Grown(len)

EnsureWritable(len) ==
    IF writableBytes >= len THEN Same ELSE IF MustGrow(len) THEN Grown(len) ELSE Moved

\* Mutant: the copy begins one cell late.
Written_Late(b, p, s) ==
    [i \in DOMAIN b |-> IF i \in p + 1 .. p + Len(s) THEN s[i - p] ELSE b[i]]

\* The bytes of s are written into b from cell p on.
Written(b, p, s) ==
    [i \in DOMAIN b |-> IF i \in p .. p + Len(s) - 1 THEN s[i - p + 1] ELSE b[i]]

-----------------------------------------------------------------------------
Become(e) == size' = e.size /\ reader' = e.reader

\* append: ensureWritableBytes, memcpy, hasWritten.
append(s) ==
    LET e == EnsureWritable(Len(s)) IN
    /\ readableBytes + Len(s) <= MaxReadable
    /\ buffer' = Written(e.buffer, e.writer, s)
    /\ writer' = e.writer + Len(s)
    /\ Become(e)
    /\ op' = <<"append", s>>

\* UnixReactor::handleRead: readv fills the room there is and the bytes that
\* are left over are appended, which may move those it has just written.
ReadFits(s) ==
    /\ Len(s) <= writableBytes
    /\ readableBytes + Len(s) <= MaxReadable
    /\ buffer' = Written(buffer, writer, s)
    /\ writer' = writer + Len(s)
    /\ op' = <<"append", s>>
    /\ UNCHANGED <<size, reader>>

\* ensureWritableBytes, called by itself.
ensureWritableBytes(len) ==
    LET e == EnsureWritable(len) IN
    /\ buffer' = e.buffer
    /\ writer' = e.writer
    /\ Become(e)
    /\ op' = <<"reserve", len>>

\* Mutant: what is left over is not told from what is taken.
TakeOff_Resets(len) ==
    /\ len <= readableBytes
    /\ reader' = CheapPrepend
    /\ writer' = IF len < readableBytes THEN writer - len ELSE CheapPrepend
    /\ UNCHANGED <<buffer, size>>

\* The indices after a retrieve, or a retrieveAll when nothing is left.
TakeOff(len) ==
    /\ len <= readableBytes
    /\ IF len < readableBytes
       THEN reader' = reader + len /\ UNCHANGED writer
       ELSE reader' = CheapPrepend /\ writer' = CheapPrepend
    /\ UNCHANGED <<buffer, size>>

\* retrieve, retrieveUntil, retrieveInt64 and its like.
retrieve(len) == TakeOff(len) /\ op' = <<"retrieve", len>>

\* retrieveAsString: the bytes, and the retrieve.
retrieveAsString(len) ==
    /\ TakeOff(len)
    /\ op' = <<"read", [i \in 1 .. len |-> buffer[reader + i - 1]]>>

\* readInt8: peekInt8, retrieveInt8.
readInt8 == TakeOff(1) /\ op' = <<"read", <<buffer[reader]>>>>

unwrite(len) ==
    /\ len <= readableBytes
    /\ writer' = writer - len
    /\ op' = <<"unwrite", len>>
    /\ UNCHANGED <<buffer, size, reader>>

prepend(s) ==
    /\ Len(s) <= prependableBytes
    /\ readableBytes + Len(s) <= MaxReadable
    /\ reader' = reader - Len(s)
    /\ buffer' = Written(buffer, reader', s)
    /\ op' = <<"prepend", s>>
    /\ UNCHANGED <<size, writer>>

\* bit_endian: the bytes are turned round for the order that is not the machine's.
bit_endian(x) ==
    IF Endian = "native" THEN x ELSE [i \in DOMAIN x |-> x[Len(x) + 1 - i]]

\* appendInt64 and its like.
appendInt(x) == Len(x) \in IntSizes /\ append(bit_endian(x))

\* prependInt64 and its like.
prependInt(x) == Len(x) \in IntSizes /\ prepend(bit_endian(x))

\* A new buffer with room for n bytes, and s in it.
Fresh(n, s) ==
    /\ size' = CheapPrepend + (IF n > InitialSize THEN n ELSE InitialSize)
    /\ buffer' = Written([i \in 0 .. size' - 1 |-> Garbage], CheapPrepend, s)
    /\ reader' = CheapPrepend
    /\ writer' = CheapPrepend + Len(s)

\* shrink: the bytes go into a new Buffer with room for reserve more.
shrink(reserve) ==
    /\ Fresh(readableBytes + reserve, Contents)
    /\ op' = <<"reserve", reserve>>

\* The move assignment: the bytes of another buffer take the place of these.
assign(s) ==
    /\ Len(s) <= MaxReadable
    /\ Fresh(Len(s), s)
    /\ op' = <<"assign", s>>

\* The move assignment of this buffer to another: it is left a new one.
MoveAway == Fresh(0, <<>>) /\ op' = <<"retrieve", readableBytes>>

Next ==
    \/ \E s \in Data :
           append(s) \/ ReadFits(s) \/ prepend(s) \/ appendInt(s) \/ prependInt(s) \/ assign(s)
    \/ \E len \in 0 .. MaxLen :
           \/ retrieve(len) \/ retrieveAsString(len) \/ unwrite(len)
           \/ ensureWritableBytes(len) \/ shrink(len)
    \/ readInt8 \/ MoveAway

Spec == Init /\ [][Next]_vars

-----------------------------------------------------------------------------
TypeOK ==
    /\ size \in Nat
    /\ buffer \in [0 .. size - 1 -> Bytes \cup {Garbage}]
    /\ reader \in Nat
    /\ writer \in Nat

\* The indices are in order, whatever was retrieved, prepended or moved, and
\* the free front is never lost for good: size() does not wrap around and
\* nothing is written past the end of the vector.
IndicesInOrder ==
    /\ reader <= writer
    /\ writer <= size
    /\ CheapPrepend + InitialSize <= size

\* The vector does not grow without end while its readers keep up: it is
\* bounded by the bytes left in it and those of one call, not by the bytes
\* that went through it.
CapacityBounded ==
    size = CheapPrepend + InitialSize \/ size <= CheapPrepend + MaxReadable + 2 * MaxLen

\* What the callers leave in the buffer stays within their bound.
ReadableBounded == readableBytes <= MaxReadable

\* A reader sees no byte that nobody wrote.
NoGarbageRead == \A i \in DOMAIN Contents : Contents[i] \in Bytes

\* The inductive invariant.
IInv == TypeOK /\ IndicesInOrder /\ ReadableBounded /\ CapacityBounded /\ NoGarbageRead

\* makeSpace moves bytes only towards the front, and there is room then: its
\* assertion holds, and that of ensureWritableBytes, for any length.
RoomIsMade ==
    \A len \in 0 .. MaxLen :
        LET e == EnsureWritable(len) IN
        /\ e.size - e.writer >= len
        /\ (writableBytes < len /\ ~MustGrow(len)) => CheapPrepend < reader

\* Whatever the buffer does with its indices, its bytes are those of a queue:
\* none is lost, doubled or out of order.
Queue == INSTANCE ByteQueue WITH bytes <- Contents

ImplementsByteQueue == Queue!Spec

-----------------------------------------------------------------------------
(* What the code says of itself and does not keep.                         *)

\* "Append int64_t using network endian": Buffer is the class of the machine's
\* own order.
AppendsNetworkOrder ==
    Endian = "native" => \A x \in Data : bit_endian(x) = [i \in DOMAIN x |-> x[Len(x) + 1 - i]]

\* append of another buffer, fresh but for s: it takes the cells from the
\* vector's beginning on, and not from the first that is readable.
AppendedBytes(s) ==
    LET other == Written([i \in 0 .. CheapPrepend + Len(s) |-> Garbage], CheapPrepend, s)
    IN [i \in 1 .. Len(s) |-> other[i - 1]]

AppendsReadable == \A s \in Data : AppendedBytes(s) = s
=============================================================================
