---------------------------- MODULE SendingProofs ----------------------------
(***************************************************************************)
(* What TLAPS proves of Sending, for any number of threads and of calls    *)
(* and in both builds: the bytes that were passed to send reach the peer   *)
(* in the order in which they reached the buffer, none of them twice.      *)
(*                                                                         *)
(* With IOCP this rests on one operation being pending at a time: the      *)
(* bytes the kernel has sent are then the first ones of the buffer, until  *)
(* the completion takes just these away.                                   *)
(***************************************************************************)
EXTENDS Sending, SequenceTheorems, TLAPS

Operation == [len : Nat, data : Nat, sent : BOOLEAN]

\* No call reaches the buffer before it was made, and those of the loop's own
\* thread reach it at once.
Counted ==
    /\ run[Loop] = calls[Loop]
    /\ \A t \in Threads : run[t] <= calls[t]

\* One operation at a time, on bytes that are still in the buffer.
Posted ==
    /\ Len(pending) <= 1
    /\ backend = "epoll" \/ ~writing => pending = <<>>
    /\ pending # <<>> => pending[1].len <= Len(sendBuffer)

\* What the peer has got is the beginning of what reached the buffer.
Got ==
    /\ Alike(received, appended)
    /\ backend = "epoll" => \A i \in DOMAIN received : received[i] # Freed

\* And what has not been sent of the buffer is the rest of it.
Rest ==
    link = "up" =>
        /\ Len(received) + Len(sendBuffer) - SentAhead = Len(appended)
        /\ \A j \in 1 .. Len(sendBuffer) :
            j > SentAhead => sendBuffer[j] = appended[Len(received) + j - SentAhead]

\* The inductive invariant.
IInv == TypeOK /\ Counted /\ Posted /\ Got /\ Rest /\ StallTakesEmptySend

-----------------------------------------------------------------------------
(* Lemmas. *)

\* There is one operation, and nothing behind it.
LEMMA OneOperation ==
    ASSUME NEW ops \in Seq(Operation), ops # <<>>, Len(ops) <= 1
    PROVE  /\ ops[1] \in Operation /\ Len(ops) = 1 /\ DOMAIN ops = {1}
           /\ Tail(ops) = <<>>
<1>1. Len(ops) = 1
  <2>1. Len(ops) \in Nat \ {0}
    BY EmptySeq
  <2> QED BY <2>1
<1>2. DOMAIN ops = {1}
  BY <1>1, LenProperties
<1>3. ops[1] \in Operation
  BY <1>1, ElementOfSeq
<1>4. Tail(ops) \in Seq(Operation) /\ Len(Tail(ops)) = 0
  BY <1>1, HeadTailProperties
<1>5. Tail(ops) = <<>>
  BY <1>4, EmptySeq
<1> QED BY <1>1, <1>2, <1>3, <1>5

\* Bytes behind other bytes.
LEMMA Joined ==
    ASSUME NEW S, NEW s \in Seq(S), NEW t \in Seq(S)
    PROVE  /\ s \o t \in Seq(S) /\ Len(s \o t) = Len(s) + Len(t)
           /\ Len(s) \in Nat /\ Len(t) \in Nat
           /\ \A j \in 1 .. Len(s) : (s \o t)[j] = s[j]
           /\ \A j \in 1 .. Len(t) : (s \o t)[Len(s) + j] = t[j]
<1>1. Len(s) \in Nat /\ Len(t) \in Nat
  BY LenProperties
<1>2. /\ s \o t \in Seq(S) /\ Len(s \o t) = Len(s) + Len(t)
      /\ \A i \in 1 .. Len(s) + Len(t) :
            (s \o t)[i] = IF i <= Len(s) THEN s[i] ELSE t[i - Len(s)]
  BY ConcatProperties
<1>3. ASSUME NEW j \in 1 .. Len(t) PROVE (s \o t)[Len(s) + j] = t[j]
  <2>1. Len(s) + j \in 1 .. Len(s) + Len(t) /\ ~(Len(s) + j <= Len(s)) /\ Len(s) + j - Len(s) = j
    BY <1>1
  <2> QED BY <1>2, <2>1
<1>4. \A j \in 1 .. Len(s) : j \in 1 .. Len(s) + Len(t) /\ j <= Len(s)
  BY <1>1
<1> QED BY <1>1, <1>2, <1>3, <1>4

\* The first n bytes and the others.
LEMMA Parted ==
    ASSUME NEW S, NEW s \in Seq(S), NEW n \in 0 .. Len(s)
    PROVE  /\ SubSeq(s, 1, n) \in Seq(S) /\ Len(SubSeq(s, 1, n)) = n
           /\ \A j \in 1 .. n : SubSeq(s, 1, n)[j] = s[j]
           /\ SubSeq(s, n + 1, Len(s)) \in Seq(S) /\ Len(SubSeq(s, n + 1, Len(s))) = Len(s) - n
           /\ \A j \in 1 .. Len(s) - n : SubSeq(s, n + 1, Len(s))[j] = s[n + j]
<1> DEFINE l == Len(s)
<1>1. l \in Nat /\ \A i \in 1 .. l : s[i] \in S
  BY LenProperties, ElementOfSeq
<1> HIDE DEF l
<1>2. /\ SubSeq(s, 1, n) \in Seq(S) /\ Len(SubSeq(s, 1, n)) = IF 1 <= n THEN n - 1 + 1 ELSE 0
      /\ \A i \in 1 .. n - 1 + 1 : SubSeq(s, 1, n)[i] = s[1 + i - 1]
  <2>1. \A i \in 1 .. n : s[i] \in S
    BY <1>1 DEF l
  <2> QED BY <1>1, <2>1, SubSeqProperties DEF l
<1>3. /\ SubSeq(s, n + 1, l) \in Seq(S)
      /\ Len(SubSeq(s, n + 1, l)) = IF n + 1 <= l THEN l - (n + 1) + 1 ELSE 0
      /\ \A i \in 1 .. l - (n + 1) + 1 : SubSeq(s, n + 1, l)[i] = s[n + 1 + i - 1]
  <2>1. \A i \in n + 1 .. l : s[i] \in S
    BY <1>1 DEF l
  <2>2. n + 1 \in Int
    BY <1>1 DEF l
  <2> QED BY <1>1, <2>1, <2>2, SubSeqProperties
<1>4. n \in 0 .. l
  BY DEF l
<1>5. ASSUME NEW j \in 1 .. n PROVE SubSeq(s, 1, n)[j] = s[j]
  <2>1. j \in 1 .. n - 1 + 1 /\ 1 + j - 1 = j
    BY <1>1, <1>4
  <2> QED BY <1>2, <2>1
<1>6. ASSUME NEW j \in 1 .. l - n PROVE SubSeq(s, n + 1, l)[j] = s[n + j]
  <2>1. j \in 1 .. l - (n + 1) + 1 /\ n + 1 + j - 1 = n + j
    BY <1>1, <1>4
  <2> QED BY <1>3, <2>1
<1>7. Len(SubSeq(s, 1, n)) = n /\ Len(SubSeq(s, n + 1, l)) = l - n
  BY <1>1, <1>2, <1>3, <1>4
<1> QED BY <1>2, <1>3, <1>5, <1>6, <1>7 DEF l

\* A place behind the first a of a + b.
LEMMA Behind ==
    ASSUME NEW a \in Nat, NEW b \in Nat, NEW i \in 1 .. a + b, i \notin 1 .. a
    PROVE  \E j \in 1 .. b : i = a + j
<1>1. i - a \in 1 .. b /\ i = a + (i - a)
  OBVIOUS
<1> QED BY <1>1

\* What is sent ahead is a number of bytes of the buffer.
LEMMA Ahead ==
    ASSUME TypeOK, Posted
    PROVE  SentAhead \in 0 .. Len(sendBuffer)
<1>1. CASE pending = <<>>
  BY <1>1 DEF SentAhead, TypeOK
<1>2. CASE pending # <<>>
  <2>1. pending[1].len \in Nat
    BY <1>2, OneOperation DEF TypeOK, Posted, Operation
  <2> QED BY <1>2, <2>1 DEF SentAhead, Posted, TypeOK
<1> QED BY <1>1, <1>2

\* The bytes of a call are bytes.
LEMMA MessageType ==
    ASSUME NEW t \in Threads, NEW k \in 1 .. MaxSends, NEW m \in Messages(t, k)
    PROVE  m \in Seq(Byte) /\ Len(m) \in Nat
<1>1. CASE m = <<>>
  BY <1>1, EmptySeq
<1>2. CASE m = << <<t, k, "first">>, <<t, k, "last">> >>
  BY <1>2 DEF Byte
<1> QED BY <1>1, <1>2 DEF Messages

\* What PostSend makes of the operations.
LEMMA PostType ==
    ASSUME NEW ops \in Seq(Operation), PostSend(ops), ops = <<>>,
           sendBuffer' \in Seq(Byte), moves' \in Nat
    PROVE  /\ pending' \in Seq(Operation)
           /\ Len(pending') <= 1
           /\ pending' # <<>> => pending'[1].len <= Len(sendBuffer') /\ ~pending'[1].sent
<1>1. CASE pending' = ops
  BY <1>1
<1>2. CASE pending' = Append(ops, [len |-> Len(sendBuffer'), data |-> moves', sent |-> FALSE])
  <2> DEFINE op == [len |-> Len(sendBuffer'), data |-> moves', sent |-> FALSE]
  <2>1. op \in Operation /\ op.len = Len(sendBuffer') /\ op.sent = FALSE
    BY DEF Operation
  <2>2. pending' = <<op>>
    BY <1>2
  <2> HIDE DEF op
  <2> QED BY <2>1, <2>2
<1> QED BY <1>1, <1>2 DEF PostSend

\* A call that reaches the buffer: its bytes come behind all that is there.
LEMMA EnqueueKeeps ==
    ASSUME IInv, NEW t \in Threads, run[t] < MaxSends, MayReach, Enqueue(t),
           UNCHANGED <<backend, received, link>>
    PROVE  /\ sendBuffer' \in Seq(Byte) /\ appended' \in Seq(Byte) /\ moves' \in Nat
           /\ pending' \in Seq(Operation) /\ writing' = TRUE
           /\ failed' \in {"no", "abort", "retrieve"} /\ hushed' \in BOOLEAN
           /\ Posted' /\ Got' /\ Rest' /\ StallTakesEmptySend'
<1>0. PICK m \in Messages(t, run[t] + 1) :
        /\ sendBuffer' = sendBuffer \o m /\ appended' = appended \o m
        /\ moves' \in IF m = <<>> THEN {moves} ELSE {moves, moves + 1}
  BY DEF Enqueue, Appended
<1>1. m \in Seq(Byte) /\ Len(m) \in Nat
  <2>1. run[t] + 1 \in 1 .. MaxSends
    BY SendingAssumption DEF IInv, TypeOK
  <2> QED BY <2>1, MessageType
<1>2. /\ sendBuffer' = sendBuffer \o m /\ appended' = appended \o m
      /\ moves' \in {moves, moves + 1} /\ writing' = TRUE
  BY <1>0 DEF Enqueue
<1>old. sendBuffer \in Seq(Byte) /\ appended \in Seq(Byte)
  BY DEF IInv, TypeOK
<1>buffer. /\ sendBuffer \o m \in Seq(Byte) /\ Len(sendBuffer \o m) = Len(sendBuffer) + Len(m)
           /\ \A j \in 1 .. Len(sendBuffer) : (sendBuffer \o m)[j] = sendBuffer[j]
           /\ \A j \in 1 .. Len(m) : (sendBuffer \o m)[Len(sendBuffer) + j] = m[j]
  <2>1. sendBuffer \in Seq(Byte) /\ m \in Seq(Byte)
    BY <1>1, <1>old
  <2> QED BY ONLY <2>1, Joined
<1>history. /\ appended \o m \in Seq(Byte) /\ Len(appended \o m) = Len(appended) + Len(m)
            /\ \A j \in 1 .. Len(appended) : (appended \o m)[j] = appended[j]
            /\ \A j \in 1 .. Len(m) : (appended \o m)[Len(appended) + j] = m[j]
  <2>1. appended \in Seq(Byte) /\ m \in Seq(Byte)
    BY <1>1, <1>old
  <2> QED BY ONLY <2>1, Joined
<1>3. /\ sendBuffer' \in Seq(Byte) /\ Len(sendBuffer') = Len(sendBuffer) + Len(m)
      /\ appended' \in Seq(Byte) /\ Len(appended') = Len(appended) + Len(m)
      /\ moves' \in Nat
  <2>1. sendBuffer' \in Seq(Byte) /\ Len(sendBuffer') = Len(sendBuffer) + Len(m)
    BY <1>1, <1>2, <1>old, <1>buffer
  <2>2. appended' \in Seq(Byte) /\ Len(appended') = Len(appended) + Len(m)
    BY <1>1, <1>2, <1>old, <1>history
  <2> QED BY <1>2, <2>1, <2>2 DEF IInv, TypeOK
<1>4. /\ \A j \in 1 .. Len(sendBuffer) : sendBuffer'[j] = sendBuffer[j]
      /\ \A j \in 1 .. Len(appended) : appended'[j] = appended[j]
      /\ \A j \in 1 .. Len(m) : /\ sendBuffer'[Len(sendBuffer) + j] = m[j]
                                /\ appended'[Len(appended) + j] = m[j]
  <2>1. /\ \A j \in 1 .. Len(sendBuffer) : sendBuffer'[j] = sendBuffer[j]
        /\ \A j \in 1 .. Len(m) : sendBuffer'[Len(sendBuffer) + j] = m[j]
    BY <1>1, <1>2, <1>buffer
  <2>2. /\ \A j \in 1 .. Len(appended) : appended'[j] = appended[j]
        /\ \A j \in 1 .. Len(m) : appended'[Len(appended) + j] = m[j]
    BY <1>1, <1>2, <1>history
  <2> QED BY <2>1, <2>2
<1>5. \/ UNCHANGED pending
      \/ backend = "iocp" /\ ~writing /\ PostSend(pending)
  BY DEF Enqueue, EnableWriting, UpdatePost
<1>6. /\ pending' \in Seq(Operation) /\ SentAhead' = SentAhead /\ Posted'
  <2>1. CASE UNCHANGED pending
    <3>1. pending # <<>> => pending[1].len \in Nat
      BY OneOperation DEF IInv, TypeOK, Posted, Operation
    <3>2. Len(sendBuffer) \in Nat
      BY LenProperties DEF IInv, TypeOK
    <3>3. pending' \in Seq(Operation)
      BY <2>1 DEF IInv, TypeOK, Operation
    <3> QED BY <1>1, <1>2, <1>3, <2>1, <3>1, <3>2, <3>3 DEF IInv, Posted, SentAhead
  <2>2. CASE backend = "iocp" /\ ~writing /\ PostSend(pending)
    <3>1. pending = <<>>
      BY <2>2 DEF IInv, Posted
    <3>2. /\ pending' \in Seq(Operation) /\ Len(pending') <= 1
          /\ pending' # <<>> => pending'[1].len <= Len(sendBuffer') /\ ~pending'[1].sent
      <4>1. pending \in Seq(Operation)
        BY DEF IInv, TypeOK, Operation
      <4> QED BY <1>3, <2>2, <3>1, <4>1, PostType
    <3> QED BY <1>2, <2>2, <3>1, <3>2 DEF Posted, SentAhead
  <2> QED BY <1>5, <2>1, <2>2
<1>7. Got'
  <2>1. Len(received) \in Nat /\ DOMAIN received = 1 .. Len(received) /\ Len(appended) \in Nat
    BY LenProperties DEF IInv, TypeOK
  <2>2. Len(received) <= Len(appended')
    BY <1>1, <1>3, <2>1 DEF IInv, Got, Alike
  <2>3. \A i \in DOMAIN received : received[i] \in {appended'[i], Freed}
    BY <1>4, <2>1 DEF IInv, Got, Alike
  <2> QED BY <2>2, <2>3 DEF IInv, Got, Alike
<1>8. Rest'
  <2>1. /\ SentAhead \in 0 .. Len(sendBuffer) /\ Len(sendBuffer) \in Nat
        /\ Len(received) \in Nat /\ Len(appended) \in Nat
    BY Ahead, LenProperties DEF IInv, TypeOK
  <2> SUFFICES ASSUME link = "up"
               PROVE  /\ Len(received) + Len(sendBuffer') - SentAhead = Len(appended')
                      /\ \A j \in 1 .. Len(sendBuffer') : j > SentAhead =>
                          sendBuffer'[j] = appended'[Len(received) + j - SentAhead]
    BY <1>6 DEF Rest
  <2>2. Len(received) + Len(sendBuffer) - SentAhead = Len(appended)
    BY DEF IInv, Rest
  <2>3. ASSUME NEW j \in 1 .. Len(sendBuffer'), j > SentAhead
        PROVE  sendBuffer'[j] = appended'[Len(received) + j - SentAhead]
    <3>1. CASE j \in 1 .. Len(sendBuffer)
      <4>1. Len(received) + j - SentAhead \in 1 .. Len(appended)
        BY <2>1, <2>2, <2>3, <3>1
      <4> QED BY <1>4, <2>3, <3>1, <4>1 DEF IInv, Rest
    <3>2. CASE j \notin 1 .. Len(sendBuffer)
      <4>1. PICK i \in 1 .. Len(m) : j = Len(sendBuffer) + i
        <5>1. Len(sendBuffer) \in Nat /\ Len(m) \in Nat /\ j \in 1 .. Len(sendBuffer) + Len(m)
          BY <1>1, <1>3, <2>1
        <5> QED BY ONLY <3>2, <5>1, Behind
      <4>2. Len(received) + j - SentAhead = Len(appended) + i
        BY <2>1, <2>2, <4>1
      <4> QED BY <1>4, <4>1, <4>2
    <3> QED BY <3>1, <3>2
  <2>4. Len(received) + Len(sendBuffer') - SentAhead = Len(appended')
    <3>1. /\ Len(sendBuffer') = Len(sendBuffer) + Len(m)
          /\ Len(appended') = Len(appended) + Len(m) /\ Len(m) \in Nat
      BY <1>1, <1>3
    <3>2. SentAhead \in Int
      BY <2>1
    <3> QED BY ONLY <2>1, <2>2, <3>1, <3>2
  <2> QED BY <2>3, <2>4
<1>9. failed' \in {"no", "abort", "retrieve"} /\ hushed' \in BOOLEAN
  BY DEF IInv, TypeOK, Enqueue, EnableWriting
<1>10. StallTakesEmptySend'
  <2> SUFFICES ASSUME backend = "iocp", link = "up", pending' = <<>> PROVE hushed'
    BY DEF StallTakesEmptySend
  <2>1. CASE writing
    BY <2>1 DEF Enqueue, IInv, StallTakesEmptySend
  <2>2. CASE ~writing
    <3>1. EnableWriting /\ pending = <<>>
      BY <2>2 DEF Enqueue, IInv, Posted
    <3>2. UpdatePost /\ hushed' = (hushed \/ sendBuffer' = <<>>)
      BY <3>1 DEF EnableWriting
    <3>3. ASSUME PostSend(pending) PROVE FALSE
      BY <3>1, <3>3 DEF PostSend
    <3>4. DOMAIN pending = {}
      BY <3>1
    <3>5. sendBuffer' = <<>>
      BY <3>2, <3>3, <3>4 DEF UpdatePost
    <3> QED BY <3>2, <3>5
  <2> QED BY <2>1, <2>2
<1> QED BY <1>2, <1>3, <1>6, <1>7, <1>8, <1>9, <1>10

-----------------------------------------------------------------------------
(* The steps. *)

LEMMA InitIInv == Init => IInv
<1> SUFFICES ASSUME Init PROVE IInv
  OBVIOUS
<1>1. <<>> \in Seq(Byte) /\ <<>> \in Seq(Byte \cup {Freed}) /\ <<>> \in Seq(Operation)
  BY EmptySeq
<1>2. TypeOK
  <2>1. 0 \in 0 .. MaxSends
    BY SendingAssumption
  <2>2. /\ calls \in [Threads -> 0 .. MaxSends] /\ run \in [Threads -> 0 .. MaxSends]
        /\ backend \in {"epoll", "iocp"} /\ moves \in Nat /\ writing \in BOOLEAN
        /\ link \in {"up", "reset", "closed"} /\ failed \in {"no", "abort", "retrieve"}
        /\ hushed \in BOOLEAN
    BY <2>1 DEF Init
  <2>3. /\ sendBuffer \in Seq(Byte) /\ received \in Seq(Byte \cup {Freed})
        /\ pending \in Seq(Operation) /\ appended \in Seq(Byte)
    BY <1>1 DEF Init
  <2> QED BY <2>2, <2>3 DEF TypeOK, Operation
<1>3. Counted /\ Posted
  BY SendingAssumption DEF Init, Counted, Posted
<1>4. SentAhead = 0
  BY DEF Init, SentAhead
<1> QED BY <1>4, <1>2, <1>3 DEF Init, IInv, Got, Rest, Alike, StallTakesEmptySend

\* What the callers do.
LEMMA CallSteps ==
    ASSUME IInv, NEW t \in Threads, SendInLoop \/ SendElsewhere(t) \/ RunTask(t)
    PROVE  IInv'
<1>1. CASE SendInLoop
  <2>1. /\ MayReach /\ calls[Loop] < MaxSends /\ Enqueue(Loop)
        /\ calls' = [calls EXCEPT ![Loop] = @ + 1] /\ UNCHANGED <<backend, received, link>>
    BY <1>1 DEF SendInLoop
  <2>2. run[Loop] < MaxSends /\ Loop \in Threads
    BY <2>1, SendingAssumption DEF IInv, Counted
  <2>3. run' = [run EXCEPT ![Loop] = @ + 1]
    BY <2>1 DEF Enqueue, Appended
  <2>4. /\ calls' \in [Threads -> 0 .. MaxSends] /\ run' \in [Threads -> 0 .. MaxSends]
        /\ Counted'
    BY <2>1, <2>2, <2>3, SendingAssumption DEF IInv, TypeOK, Counted
  <2> QED BY <2>1, <2>2, <2>4, EnqueueKeeps DEF IInv, TypeOK, Operation
<1>2. CASE SendElsewhere(t)
  <2>1. /\ t # Loop /\ calls[t] < MaxSends /\ calls' = [calls EXCEPT ![t] = @ + 1]
        /\ UNCHANGED <<backend, run, sendBuffer, moves, writing, pending, received,
                       link, failed, appended, hushed>>
    BY <1>2 DEF SendElsewhere
  <2>2. calls' \in [Threads -> 0 .. MaxSends] /\ Counted'
    BY <2>1, SendingAssumption DEF IInv, TypeOK, Counted
  <2>3. TypeOK'
    BY <2>1, <2>2 DEF IInv, TypeOK
  <2>4. Posted' /\ Got' /\ Rest' /\ StallTakesEmptySend'
    BY <2>1 DEF IInv, Posted, Got, Rest, SentAhead, Alike, StallTakesEmptySend
  <2> QED BY <2>2, <2>3, <2>4 DEF IInv
<1>3. CASE RunTask(t)
  <2>1. /\ t # Loop /\ MayReach /\ run[t] < calls[t] /\ Enqueue(t)
        /\ UNCHANGED <<backend, calls, received, link>>
    BY <1>3 DEF RunTask
  <2>2. run[t] < MaxSends
    BY <2>1, SendingAssumption DEF IInv, TypeOK
  <2>3. run' = [run EXCEPT ![t] = @ + 1]
    BY <2>1 DEF Enqueue, Appended
  <2>4. run' \in [Threads -> 0 .. MaxSends] /\ Counted'
    BY <2>1, <2>2, <2>3, SendingAssumption DEF IInv, TypeOK, Counted
  <2> QED BY <2>1, <2>2, <2>4, EnqueueKeeps DEF IInv, TypeOK, Operation
<1> QED BY <1>1, <1>2, <1>3

\* epoll: the bytes the socket takes leave the buffer and reach the peer.
LEMMA WriteStep ==
    ASSUME IInv, NEW n \in 1 .. Len(sendBuffer), HandleWrite(n)
    PROVE  IInv'
<1> DEFINE l == Len(sendBuffer)  r == Len(received)
<1>1. /\ backend = "epoll" /\ link = "up"
      /\ received' = received \o SubSeq(sendBuffer, 1, n)
      /\ sendBuffer' = SubSeq(sendBuffer, n + 1, Len(sendBuffer))
      /\ UNCHANGED <<backend, calls, run, moves, writing, pending, link, failed, appended, hushed>>
  BY DEF HandleWrite
<1>2. pending = <<>> /\ SentAhead = 0 /\ SentAhead' = 0
  BY <1>1 DEF IInv, Posted, SentAhead
<1>3. /\ l \in Nat /\ r \in Nat /\ r + l = Len(appended)
      /\ \A j \in 1 .. l : sendBuffer[j] = appended[r + j] /\ sendBuffer[j] \in Byte
  BY <1>1, <1>2 DEF IInv, Rest, TypeOK
<1>4. /\ SubSeq(sendBuffer, 1, n) \in Seq(Byte) /\ Len(SubSeq(sendBuffer, 1, n)) = n
      /\ \A j \in 1 .. n : SubSeq(sendBuffer, 1, n)[j] = sendBuffer[j]
      /\ sendBuffer' \in Seq(Byte) /\ Len(sendBuffer') = l - n
      /\ \A j \in 1 .. l - n : sendBuffer'[j] = sendBuffer[n + j]
  <2>1. n \in 0 .. Len(sendBuffer) /\ sendBuffer \in Seq(Byte)
    BY <1>3 DEF IInv, TypeOK
  <2> QED BY <1>1, <2>1, Parted
<1>5. /\ received' \in Seq(Byte \cup {Freed}) /\ Len(received') = r + n
      /\ \A j \in 1 .. r : received'[j] = received[j]
      /\ \A j \in 1 .. n : received'[r + j] = sendBuffer[j]
  <2>1. SubSeq(sendBuffer, 1, n) \in Seq(Byte \cup {Freed}) /\ received \in Seq(Byte \cup {Freed})
    BY <1>4 DEF IInv, TypeOK
  <2> DEFINE m == SubSeq(sendBuffer, 1, n)
  <2>2. /\ received \o m \in Seq(Byte \cup {Freed}) /\ Len(received \o m) = r + Len(m)
        /\ \A j \in 1 .. r : (received \o m)[j] = received[j]
        /\ \A j \in 1 .. Len(m) : (received \o m)[r + j] = m[j]
    <3>1. m \in Seq(Byte \cup {Freed}) /\ r = Len(received)
      BY <2>1 DEF r
    <3> HIDE DEF m
    <3> QED BY <2>1, <3>1, Joined
  <2> QED BY <1>1, <1>4, <2>2
<1> HIDE DEF l, r
<1>6. TypeOK' /\ Counted'
  BY <1>1, <1>4, <1>5 DEF IInv, TypeOK, Counted
<1>7. Posted' /\ StallTakesEmptySend'
  BY <1>1, <1>2 DEF IInv, Posted, StallTakesEmptySend
<1>8. Got'
  <2>1. \A i \in 1 .. r : received[i] \in {appended[i], Freed} /\ received[i] # Freed
    BY <1>1 DEF IInv, Got, Alike, TypeOK, r
  <2>2. ASSUME NEW i \in 1 .. r + n
        PROVE  received'[i] = appended[i] /\ received'[i] # Freed
    <3>1. CASE i \in 1 .. r
      BY <1>5, <2>1, <3>1
    <3>2. CASE i \notin 1 .. r
      <4>1. PICK j \in 1 .. n : i = r + j
        <5>1. r \in Nat /\ n \in Nat
          BY <1>3 DEF l
        <5> QED BY <3>2, <5>1, Behind
      <4>2. j \in 1 .. l
        BY <1>3 DEF l
      <4> QED BY <1>3, <1>5, <4>1, <4>2, SendingAssumption
    <3> QED BY <3>1, <3>2
  <2>3. r + n <= Len(appended)
    BY <1>3 DEF l
  <2> QED BY <1>1, <1>5, <2>2, <2>3 DEF Got, Alike
<1>9. Rest'
  <2>1. ASSUME NEW j \in 1 .. Len(sendBuffer')
        PROVE  sendBuffer'[j] = appended[Len(received') + j - 0]
    <3>1. n + j \in 1 .. l /\ j \in 1 .. l - n /\ r + n + j = r + (n + j)
      BY <1>3, <1>4 DEF l
    <3> QED BY <1>3, <1>4, <1>5, <3>1
  <2>2. Len(received') + Len(sendBuffer') - 0 = Len(appended)
    BY <1>3, <1>4, <1>5 DEF l
  <2> QED BY <1>1, <1>2, <2>1, <2>2 DEF Rest
<1> QED BY <1>6, <1>7, <1>8, <1>9 DEF IInv

\* A write that fails, a reset and the end change nothing that was received.
LEMMA EndSteps ==
    ASSUME IInv, HandleWriteFails \/ Reset \/ ConnectDestroyed
    PROVE  IInv'
<1>1. CASE HandleWriteFails
  <2>1. /\ link = "reset" /\ backend = "epoll" /\ sendBuffer' \in Seq(Byte)
        /\ failed' \in {"no", "abort", "retrieve"}
        /\ UNCHANGED <<backend, calls, run, moves, writing, pending, received, link, appended, hushed>>
    BY <1>1, EmptySeq DEF HandleWriteFails, IInv, TypeOK
  <2>2. TypeOK' /\ Counted' /\ Got'
    BY <2>1 DEF IInv, TypeOK, Counted, Got, Alike
  <2>3. Posted' /\ Rest' /\ StallTakesEmptySend'
    BY <2>1 DEF IInv, Posted, Rest, StallTakesEmptySend
  <2> QED BY <2>2, <2>3 DEF IInv
<1>2. CASE Reset
  <2>1. /\ link' = "reset"
        /\ UNCHANGED <<backend, calls, run, sendBuffer, moves, writing, pending,
                        received, failed, appended, hushed>>
    BY <1>2 DEF Reset
  <2>2. TypeOK'
    BY <2>1 DEF IInv, TypeOK
  <2>3. Counted' /\ Posted' /\ Got' /\ Rest' /\ StallTakesEmptySend'
    BY <2>1 DEF IInv, Counted, Posted, Got, Alike, Rest, StallTakesEmptySend
  <2> QED BY <2>2, <2>3 DEF IInv
<1>3. CASE ConnectDestroyed
  <2>1. /\ link' = "closed" /\ writing' = FALSE /\ pending' = <<>>
        /\ UNCHANGED <<backend, calls, run, sendBuffer, moves, received, failed, appended, hushed>>
    BY <1>3 DEF ConnectDestroyed
  <2>2. TypeOK'
    <3>1. <<>> \in Seq(Operation)
      BY EmptySeq
    <3> QED BY <2>1, <3>1 DEF IInv, TypeOK, Operation
  <2>3. Counted' /\ Posted' /\ Got' /\ Rest' /\ StallTakesEmptySend'
    BY <2>1 DEF IInv, Counted, Posted, Got, Alike, Rest, StallTakesEmptySend
  <2> QED BY <2>2, <2>3 DEF IInv
<1> QED BY <1>1, <1>2, <1>3

\* IOCP: the kernel sends the bytes of the one operation, which are the first of
\* the buffer, some of them perhaps no longer there.
LEMMA KernelStep ==
    ASSUME IInv, KernelSends
    PROVE  IInv'
<1> DEFINE r == Len(received)  p == pending[1]
<1>1. PICK i \in DOMAIN pending :
        /\ ~pending[i].sent
        /\ pending' = [pending EXCEPT ![i].sent = TRUE]
        /\ \/ link = "reset" /\ UNCHANGED received
           \/ link = "up" /\ \E bytes \in Sent(pending[i]) : received' = received \o bytes
  BY DEF KernelSends
<1>2. UNCHANGED <<backend, calls, run, sendBuffer, moves, writing, link, failed, appended, hushed>>
  BY DEF KernelSends
<1>3. /\ Len(pending) = 1 /\ i = 1 /\ pending = <<p>> /\ p \in Operation
      /\ p.len <= Len(sendBuffer) /\ backend = "iocp" /\ writing
  <2>1. pending \in Seq(Operation) /\ backend \in {"epoll", "iocp"}
    BY DEF IInv, TypeOK, Operation
  <2>2. pending # <<>>
    BY <1>1
  <2>3. /\ p \in Operation /\ Len(pending) = 1 /\ DOMAIN pending = {1}
    BY <2>1, <2>2, OneOperation DEF IInv, Posted
  <2>4. pending = <<p>>
    BY <2>1, <2>3
  <2> QED BY <1>1, <2>1, <2>2, <2>3, <2>4 DEF IInv, Posted
<1>4. /\ pending' \in Seq(Operation) /\ Len(pending') = 1 /\ pending' # <<>>
      /\ pending'[1].len = p.len /\ pending'[1].sent
  <2> DEFINE q == [p EXCEPT !.sent = TRUE]
  <2>1. q \in Operation /\ q.len = p.len /\ q.sent
    BY <1>3 DEF Operation
  <2>2. pending' = [pending EXCEPT ![1] = q]
    BY <1>1, <1>3
  <2>3. pending \in Seq(Operation) /\ 1 \in 1 .. Len(pending)
    BY <1>3 DEF IInv, TypeOK, Operation
  <2> HIDE DEF q
  <2>4. /\ pending' \in Seq(Operation) /\ Len(pending') = Len(pending) /\ pending'[1] = q
    BY <2>1, <2>2, <2>3, ExceptSeq
  <2>5. pending' # <<>>
    BY <1>3, <2>4
  <2> QED BY <1>3, <2>1, <2>4, <2>5
<1>5. SentAhead = 0 /\ SentAhead' = p.len
  BY <1>1, <1>3, <1>4 DEF SentAhead
<1>6. p.len \in Nat
  BY <1>3 DEF Operation
<1> HIDE DEF p
<1>7. Counted' /\ Posted' /\ StallTakesEmptySend'
  BY <1>2, <1>3, <1>4 DEF IInv, Counted, Posted, StallTakesEmptySend
<1>8. CASE link = "reset" /\ UNCHANGED received
  <2>1. TypeOK' /\ Got' /\ Rest'
    BY <1>2, <1>4, <1>8 DEF IInv, TypeOK, Operation, Got, Alike, Rest
  <2> QED BY <1>7, <2>1 DEF IInv
<1>9. CASE link = "up" /\ \E bytes \in Sent(pending[i]) : received' = received \o bytes
  <2>1. PICK bytes \in Sent(p) : received' = received \o bytes
    BY <1>3, <1>9 DEF p
  <2>2. PICK gone : bytes = [j \in 1 .. p.len |-> IF j \in gone THEN Freed ELSE sendBuffer[j]]
    BY <2>1 DEF Sent
  <2>3. /\ r \in Nat /\ r + Len(sendBuffer) = Len(appended)
        /\ \A j \in 1 .. Len(sendBuffer) :
              sendBuffer[j] = appended[r + j] /\ sendBuffer[j] \in Byte
    BY <1>5, <1>9 DEF IInv, Rest, TypeOK
  <2>4. /\ bytes \in Seq(Byte \cup {Freed}) /\ Len(bytes) = p.len
        /\ \A j \in 1 .. p.len : bytes[j] \in {sendBuffer[j], Freed}
    <3>1. \A j \in 1 .. p.len : j \in 1 .. Len(sendBuffer)
      BY <1>3, <1>6 DEF IInv, TypeOK
    <3>2. bytes \in [1 .. p.len -> Byte \cup {Freed}]
      BY <2>2, <2>3, <3>1
    <3>3. bytes \in Seq(Byte \cup {Freed}) /\ Len(bytes) = p.len
      BY <1>6, <3>2
    <3> QED BY <2>2, <3>3
  <2>5. /\ received' \in Seq(Byte \cup {Freed}) /\ Len(received') = r + p.len
        /\ \A j \in 1 .. r : received'[j] = received[j]
        /\ \A j \in 1 .. p.len : received'[r + j] = bytes[j]
    <3>1. received \in Seq(Byte \cup {Freed})
      BY DEF IInv, TypeOK
    <3>2. /\ received \o bytes \in Seq(Byte \cup {Freed})
          /\ Len(received \o bytes) = Len(received) + Len(bytes)
          /\ \A j \in 1 .. Len(received) : (received \o bytes)[j] = received[j]
          /\ \A j \in 1 .. Len(bytes) : (received \o bytes)[Len(received) + j] = bytes[j]
      <4>1. bytes \in Seq(Byte \cup {Freed})
        BY <2>4
      <4> QED BY ONLY <3>1, <4>1, Joined
    <3> QED BY <2>1, <2>4, <3>2
  <2> HIDE DEF r
  <2>6. TypeOK'
    BY <1>2, <1>4, <2>5 DEF IInv, TypeOK, Operation
  <2>7. Got'
    <3>1. \A j \in 1 .. r : received[j] \in {appended[j], Freed}
      BY DEF IInv, Got, Alike, TypeOK, r
    <3>2. ASSUME NEW j \in 1 .. r + p.len PROVE received'[j] \in {appended[j], Freed}
      <4>1. CASE j \in 1 .. r
        BY <2>5, <3>1, <4>1
      <4>2. CASE j \notin 1 .. r
        <5>1. PICK k \in 1 .. p.len : j = r + k
          <6>1. r \in Nat /\ p.len \in Nat
            BY <1>6, <2>3
          <6> QED BY <4>2, <6>1, Behind
        <5>2. k \in 1 .. Len(sendBuffer)
          BY <1>3, <1>6 DEF IInv, TypeOK
        <5>3. received'[j] \in {sendBuffer[k], Freed}
          BY <2>4, <2>5, <5>1
        <5> QED BY <2>3, <5>1, <5>2, <5>3
      <4> QED BY <4>1, <4>2
    <3>3. r + p.len <= Len(appended)
      BY <1>3, <1>6, <2>3 DEF IInv, TypeOK
    <3> QED BY <1>2, <1>3, <2>5, <3>2, <3>3 DEF Got, Alike
  <2>8. Rest'
    <3>1. Len(received') + Len(sendBuffer) - p.len = Len(appended)
      <4>1. Len(sendBuffer) \in Nat
        BY LenProperties DEF IInv, TypeOK
      <4> QED BY <1>6, <2>3, <2>5, <4>1
    <3>2. ASSUME NEW j \in 1 .. Len(sendBuffer)
          PROVE  sendBuffer[j] = appended[Len(received') + j - p.len]
      <4>1. Len(received') + j - p.len = r + j
        BY <1>6, <2>3, <2>5
      <4> QED BY <2>3, <4>1
    <3> QED BY <1>2, <1>5, <3>1, <3>2 DEF Rest
  <2> QED BY <1>7, <2>6, <2>7, <2>8 DEF IInv
<1> QED BY <1>1, <1>8, <1>9

\* IOCP: a completion takes from the buffer just the bytes that were sent ahead.
LEMMA CompletionStep ==
    ASSUME IInv, HandleCompletion
    PROVE  IInv'
<1> DEFINE n == pending[1].len  l == Len(sendBuffer)
<1>1. /\ pending # <<>> /\ pending[1].sent
      /\ sendBuffer' = SubSeq(sendBuffer, n + 1, Len(sendBuffer))
      /\ writing' = (sendBuffer' # <<>>)
      /\ UNCHANGED <<backend, calls, run, moves, received, link, failed, appended, hushed>>
  BY DEF HandleCompletion, Completed
<1>2. IF sendBuffer' = <<>> THEN pending' = Tail(pending) ELSE PostSend(Tail(pending))
  BY DEF HandleCompletion
<1>3. /\ Len(pending) = 1 /\ pending[1] \in Operation /\ Tail(pending) = <<>>
      /\ backend = "iocp"
  <2>1. pending \in Seq(Operation) /\ backend \in {"epoll", "iocp"}
    BY DEF IInv, TypeOK, Operation
  <2> QED BY <1>1, <2>1, OneOperation DEF IInv, Posted
<1>4. n \in Nat /\ n <= l /\ l \in Nat /\ SentAhead = n
  BY <1>1, <1>3 DEF IInv, TypeOK, Posted, Operation, SentAhead
<1>5. /\ sendBuffer' \in Seq(Byte) /\ Len(sendBuffer') = l - n
      /\ \A j \in 1 .. l - n : sendBuffer'[j] = sendBuffer[n + j]
  <2>1. n \in 0 .. Len(sendBuffer) /\ sendBuffer \in Seq(Byte)
    BY <1>4 DEF IInv, TypeOK
  <2> HIDE DEF n
  <2> QED BY <1>1, <2>1, Parted
<1> HIDE DEF n, l
<1>6. /\ pending' \in Seq(Operation) /\ Posted' /\ SentAhead' = 0
  <2>1. CASE sendBuffer' = <<>>
    BY <1>1, <1>2, <1>3, <2>1 DEF Posted, SentAhead
  <2>2. CASE sendBuffer' # <<>>
    <3>1. Tail(pending) \in Seq(Operation) /\ moves' \in Nat
      BY <1>1, <1>3, EmptySeq DEF IInv, TypeOK
    <3>2. /\ pending' \in Seq(Operation) /\ Len(pending') <= 1
          /\ pending' # <<>> => pending'[1].len <= Len(sendBuffer') /\ ~pending'[1].sent
      BY <1>2, <1>3, <1>5, <2>2, <3>1, PostType
    <3> QED BY <1>1, <1>3, <2>2, <3>2 DEF Posted, SentAhead
  <2> QED BY <2>1, <2>2
<1>7. TypeOK' /\ Counted' /\ Got'
  BY <1>1, <1>5, <1>6 DEF IInv, TypeOK, Operation, Counted, Got, Alike
<1>8. Rest'
  <2> SUFFICES ASSUME link = "up"
               PROVE  /\ Len(received) + Len(sendBuffer') - 0 = Len(appended)
                      /\ \A j \in 1 .. Len(sendBuffer') : j > 0 =>
                          sendBuffer'[j] = appended[Len(received) + j - 0]
    BY <1>1, <1>6 DEF Rest
  <2>1. /\ Len(received) \in Nat /\ Len(received) + l - n = Len(appended)
        /\ \A j \in 1 .. l : j > n => sendBuffer[j] = appended[Len(received) + j - n]
    BY <1>4 DEF IInv, Rest, TypeOK, l
  <2>2. ASSUME NEW j \in 1 .. Len(sendBuffer')
        PROVE  sendBuffer'[j] = appended[Len(received) + j - 0]
    <3>1. /\ j \in 1 .. l - n /\ n + j \in 1 .. l /\ n + j > n
          /\ Len(received) + (n + j) - n = Len(received) + j - 0
      BY <1>4, <1>5, <2>1
    <3> QED BY <1>5, <2>1, <3>1
  <2> QED BY <1>4, <1>5, <2>1, <2>2
<1>9. StallTakesEmptySend'
  <2> SUFFICES ASSUME link = "up", sendBuffer' # <<>> PROVE pending' # <<>>
    BY <1>1 DEF StallTakesEmptySend
  <2> QED BY <1>2, <1>3 DEF PostSend
<1> QED BY <1>6, <1>7, <1>8, <1>9 DEF IInv

LEMMA StepIInv == IInv /\ [Next]_vars => IInv'
<1> SUFFICES ASSUME IInv, [Next]_vars PROVE IInv'
  OBVIOUS
<1>1. CASE UNCHANGED vars
  BY <1>1 DEF vars, IInv, TypeOK, Counted, Posted, Got, Alike, Rest, SentAhead,
     StallTakesEmptySend
<1>2. SendInLoop => IInv'
  BY CallSteps, SendingAssumption
<1> QED BY <1>1, <1>2, CallSteps, WriteStep, EndSteps, KernelStep, CompletionStep
        DEF Next, WriteSome

LEMMA Invariance == Spec => []IInv
  BY InitIInv, StepIInv, PTL DEF Spec

\* Sending: the variables keep their types; no more calls reach the buffer than
\* were made.
THEOREM TypeCorrect == Spec => []TypeOK
  BY Invariance, PTL DEF IInv

\* Sending: no byte is lost, repeated or overtaken between send and the peer,
\* whichever threads send and however the buffer moves under the kernel.
THEOREM StreamCorrect == Spec => []StreamIntact
<1>1. ASSUME IInv PROVE StreamIntact
  <2> DEFINE rest == SubSeq(sendBuffer, SentAhead + 1, Len(sendBuffer))
             left == Len(sendBuffer) - SentAhead
  <2>1. SentAhead \in 0 .. Len(sendBuffer)
    BY <1>1, Ahead DEF IInv
  <2>2. /\ rest \in Seq(Byte) /\ Len(rest) = left
        /\ \A j \in 1 .. left : rest[j] = sendBuffer[SentAhead + j]
    BY <1>1, <2>1 DEF IInv, TypeOK
  <2>3. /\ received \o rest \in Seq(Byte \cup {Freed})
        /\ Len(received \o rest) = Len(received) + left
        /\ \A j \in 1 .. Len(received) : (received \o rest)[j] = received[j]
        /\ \A j \in 1 .. left : (received \o rest)[Len(received) + j] = rest[j]
    <3>1. received \in Seq(Byte \cup {Freed})
      BY <1>1 DEF IInv, TypeOK
    <3> HIDE DEF rest, left
    <3>2. rest \in Seq(Byte \cup {Freed})
      BY <2>2
    <3>3. \A s, t \in Seq(Byte \cup {Freed}) :
             /\ s \o t \in Seq(Byte \cup {Freed}) /\ Len(s \o t) = Len(s) + Len(t)
             /\ \A j \in 1 .. Len(s) : (s \o t)[j] = s[j]
             /\ \A j \in 1 .. Len(t) : (s \o t)[Len(s) + j] = t[j]
      BY Joined
    <3> QED BY <3>1, <3>2, <3>3, <2>2
  <2> HIDE DEF rest
  <2>4. ASSUME link = "up" PROVE Alike(received \o rest, appended)
    <3>1. Len(received) + left = Len(appended) /\ Len(received) \in Nat /\ left \in Nat
      BY <1>1, <2>1, <2>4 DEF IInv, Rest, TypeOK
    <3>2. ASSUME NEW i \in 1 .. Len(received) + left
          PROVE  (received \o rest)[i] \in {appended[i], Freed}
      <4>1. CASE i \in 1 .. Len(received)
        BY <1>1, <2>3, <4>1 DEF IInv, Got, Alike, TypeOK
      <4>2. CASE i \notin 1 .. Len(received)
        <5>1. PICK j \in 1 .. left : i = Len(received) + j
          <6>1. Len(received) \in Nat /\ left \in Nat
            BY <3>1
          <6> QED BY <4>2, <6>1, Behind
        <5>2. /\ SentAhead + j \in 1 .. Len(sendBuffer) /\ SentAhead + j > SentAhead
              /\ Len(received) + (SentAhead + j) - SentAhead = i
          BY <1>1, <2>1, <5>1 DEF IInv, TypeOK
        <5>3. sendBuffer[SentAhead + j] = appended[i]
          BY <1>1, <2>4, <5>2 DEF IInv, Rest
        <5> QED BY <2>2, <2>3, <5>1, <5>3
      <4> QED BY <4>1, <4>2
    <3> QED BY <2>3, <3>1, <3>2 DEF Alike
  <2>5. backend = "epoll" => Freed \notin ToSet(received)
    BY <1>1 DEF IInv, Got, ToSet
  <2>6. Alike(received, appended)
    BY <1>1 DEF IInv, Got
  <2>7. link = "up" => Len(received) + Len(sendBuffer) - SentAhead = Len(appended)
    BY <1>1 DEF IInv, Rest
  <2> QED BY <2>4, <2>5, <2>6, <2>7 DEF StreamIntact, rest
<1> QED BY <1>1, Invariance, PTL

\* Sending, with IOCP: the buffer is left without an operation to wait for only by an
\* empty send, whichever threads send and whatever completes between two calls.
THEOREM StallCorrect == Spec => []StallTakesEmptySend
  BY Invariance, PTL DEF IInv
=============================================================================
