--------------------------- MODULE OverlappedProofs ---------------------------
(***************************************************************************)
(* What TLAPS proves of Overlapped, for any number of connections, socket  *)
(* numbers and accept operations: a packet finds the operation it is for,  *)
(* process aborts on a loop of the pool or not at all, and the bytes of a  *)
(* connection are read in order.                                           *)
(*                                                                         *)
(* The argument follows an operation: it is with the kernel, in a packet   *)
(* of the port, or one of the steps a handler has still to do, and never   *)
(* in two of these places.                                                 *)
(***************************************************************************)
EXTENDS Overlapped, SequenceTheorems, FiniteSetTheorems, TLAPS

-----------------------------------------------------------------------------
(* The inductive invariant.                                                *)

ReadOps == {ReadOp(c) : c \in Conns}
WriteOps == {WriteOp(c, k) : c \in Conns, k \in Nat \ {0}}
ConnOps == ReadOps \cup WriteOps
Ops == AcceptOps \cup ConnOps

\* How far a connection has come: not yet established, or until its operations are
\* cancelled.
Early == {"away", "waiting", "accepted", "added"}
Live == {"created", "up", "closing"}
Stages == Early \cup Live \cup {"cancelled", "gone"}

Packets ==
    [key : Numbers \cup {Listener, None}, op : Ops, bytes : Seq(Conns) \cup Seq(Nat),
     aborted : BOOLEAN]

Steps ==
    [do : {"add", "establish", "extra", "message", "recv", "close"}, of : Conns]
    \cup [do : {"send"}, of : WriteOps] \cup [do : {"accept"}, of : AcceptOps]

Typed ==
    /\ based \in BOOLEAN
    /\ stage \in [Conns -> Stages]
    /\ number \in [Conns -> Numbers \cup {None}]
    /\ slots \in [Numbers -> Conns \cup {None}]
    /\ over \in [Conns \cup {Listener} -> Seq(Ops)]
    /\ heap \subseteq Ops /\ kernel \subseteq Ops
    /\ none \subseteq ConnOps /\ toFree \subseteq WriteOps
    /\ port \in [Loops -> Seq(Packets)]
    /\ socketOf \in [AcceptOps -> Numbers \cup {None}]
    /\ agenda \in [Loops -> Seq(Steps)]
    /\ backlog \in Seq(Conns)
    /\ sent \in [Conns -> Nat] /\ taken \in [Conns -> Nat] /\ posts \in [Conns -> Nat]
    /\ \A c \in Conns : taken[c] <= sent[c]
    /\ readBuf \in [Conns -> Seq(Nat)]
    /\ writing \in [Conns -> BOOLEAN]
    /\ sendBuf \in [Conns -> Int] /\ posted \in [Conns -> Int]

\* Who has which number.
Named ==
    /\ \A c, d \in Conns : number[c] = number[d] /\ number[c] # None => c = d
    /\ \A a, b \in AcceptOps : socketOf[a] = socketOf[b] /\ socketOf[a] # None => a = b
    /\ \A c \in Conns, a \in AcceptOps : number[c] = socketOf[a] => number[c] = None
    /\ \A n \in Numbers : slots[n] # None =>
          number[slots[n]] = n /\ stage[slots[n]] \in Live \cup {"added"}
    /\ \A c \in Conns :
          stage[c] \in Live \cup {"accepted", "added", "cancelled"} => number[c] # None

\* Who waits to be accepted waits once.
Waits ==
    /\ \A i \in DOMAIN backlog : stage[backlog[i]] = "waiting"
    /\ IsInjective(backlog)

Has(x, op) == \E i \in DOMAIN over[x] : over[x][i] = op

\* The list of a channel has its own operations, each once, and none that is to come.
Listed(c) ==
    /\ \A op \in Ops : Has(c, op) => op.of = c
    /\ stage[c] \in Early => over[c] = <<>> /\ Len(readBuf[c]) = taken[c]
    /\ stage[c] \in Live =>
        /\ IsInjective(over[c])
        /\ \A op \in WriteOps : Has(c, op) => op.nth <= posts[c]
        /\ ReadOp(c) \in heap

ListenerListed ==
    /\ \A op \in Ops : Has(Listener, op) => op \in AcceptOps
    /\ IsInjective(over[Listener])
    /\ AcceptOps \subseteq heap

\* What addFree deletes is not written any more.
Freed(op) ==
    /\ op.nth <= posts[op.of]
    /\ writing[op.of] => op.nth # posts[op.of]

\* The operation can be found, and is the one its connection reads or writes with.
Current(op) == op.kind = "write" => op.nth = posts[op.of] /\ writing[op.of]

Found(op) ==
    /\ Has(op.of, op)
    /\ op \notin none
    /\ op \in heap \ toFree
    /\ Current(op)

\* The packets of operations that were not cancelled.
Good(l) == {p \in ToSet(port[l]) : ~p.aborted}

\* It is neither with the kernel nor in a packet.
Returned(op) ==
    /\ op \notin kernel
    /\ \A l \in Loops : \A p \in Good(l) : p.op # op

InKernel(op) ==
    IF op \in AcceptOps
    THEN Has(Listener, op) /\ socketOf[op] # None
    ELSE /\ stage[op.of] \notin Early
         /\ stage[op.of] \in Live => Found(op)
         /\ op.kind = "write" => op.nth <= posts[op.of]
         /\ op.kind = "read" => Len(readBuf[op.of]) = taken[op.of]

\* A packet that tells a connection to the acceptor.
Announces(p, c) ==
    /\ p.key = Listener /\ p.bytes = <<c>>
    /\ Has(Listener, p.op) /\ socketOf[p.op] # None
    /\ stage[c] = "waiting"
    /\ \A i \in DOMAIN backlog : backlog[i] # c

\* A packet for a connection; its number may be another's by now, on the pool.
Answers(p, c) ==
    /\ p.key \in Numbers
    /\ stage[c] \notin Early
    /\ stage[c] \in Live \cup {"cancelled"} => p.key = number[c]
    /\ stage[c] \in Live => Found(p.op)
    /\ p.op.kind = "write" => p.op.nth <= posts[c]
    /\ stage[c] = "gone" /\ based => \A d \in Conns : number[d] # p.key
    /\ p.op.kind = "read" =>
        /\ p.bytes = [k \in 1 .. Len(p.bytes) |-> Len(readBuf[c]) + k]
        /\ taken[c] = Len(readBuf[c]) + Len(p.bytes)

InPort(l, p) ==
    /\ p.op \notin kernel
    /\ IF p.op \in AcceptOps
       THEN l = "base" /\ \E c \in Conns : Announces(p, c)
       ELSE l = LoopOf(p.op.of) /\ Answers(p, p.op.of)

\* Of two packets: they are of different operations, and a number that a packet gives
\* to a connection is not the key of one behind it.
InOrder(p, q) ==
    /\ p.op # q.op
    /\ p.op \in AcceptOps /\ q.op \in AcceptOps => p.bytes # q.bytes
    /\ p.op \in AcceptOps /\ q.op \notin AcceptOps => socketOf[p.op] # q.key

Ordered(l) ==
    \A i, j \in DOMAIN port[l] :
        i < j /\ port[l][i] \in Good(l) /\ port[l][j] \in Good(l) =>
            InOrder(port[l][i], port[l][j])

\* What a handler has still to do: a send is its next step and a recv its last.
ToRead(c) == Returned(ReadOp(c)) /\ Len(readBuf[c]) = taken[c] /\ stage[c] \notin Early

ToDo(l, s, i, n) ==
    /\ s.do = "accept" => l = "base" /\ i = n /\ Returned(s.of) /\ ~Has(Listener, s.of)
    /\ s.do \in {"extra", "message", "recv", "close"} => l = LoopOf(s.of)
    /\ s.do = "message" => stage[s.of] \notin Early
    /\ s.do \in {"extra", "recv"} => ToRead(s.of)
    /\ s.do = "recv" => i = n /\ (stage[s.of] \in Live => ~Has(s.of, ReadOp(s.of)))
    /\ s.do = "send" =>
        /\ l = LoopOf(s.of.of) /\ i = 1 /\ Returned(s.of) /\ stage[s.of.of] \notin Early
        /\ s.of.nth <= posts[s.of.of]
        /\ stage[s.of.of] \in Live =>
            ~Has(s.of.of, s.of) /\ Current(s.of) /\ s.of \in heap \ toFree

Planned(l) == \A i \in DOMAIN agenda[l] : ToDo(l, agenda[l][i], i, Len(agenda[l]))

Runs ==
    /\ Typed
    /\ Named
    /\ Waits
    /\ \A c \in Conns : Listed(c)
    /\ ListenerListed
    /\ \A op \in toFree : Freed(op)
    /\ \A op \in kernel : InKernel(op)
    /\ \A l \in Loops : (\A p \in Good(l) : InPort(l, p)) /\ Ordered(l)
    /\ \A l \in Loops : Planned(l)

\* What was read is in order, without a gap.
Gapless == \A c \in Conns : readBuf[c] = [i \in 1 .. Len(readBuf[c]) |-> i]

IInv == (Running => Runs) /\ ReadsInOrder /\ StalePacketTakesPool

-----------------------------------------------------------------------------
(* Lemmas: operations, steps and lists.                                    *)

LEMMA OpKinds ==
    /\ \A op \in AcceptOps : op.kind = "accept" /\ op.of = Listener
    /\ \A op \in ReadOps : op.kind = "read" /\ op.of \in Conns /\ op = ReadOp(op.of)
    /\ \A op \in WriteOps :
          /\ op.kind = "write" /\ op.of \in Conns /\ op.nth \in Nat /\ op.nth # 0
          /\ op = WriteOp(op.of, op.nth)
    /\ \A c \in Conns : ReadOp(c) \in ReadOps /\ ReadOp(c).of = c /\ ReadOp(c).kind = "read"
    /\ \A c \in Conns, k \in Nat : k # 0 =>
          /\ WriteOp(c, k) \in WriteOps /\ WriteOp(c, k).of = c
          /\ WriteOp(c, k).kind = "write" /\ WriteOp(c, k).nth = k
BY DEF AcceptOps, AcceptOp, ReadOps, ReadOp, WriteOps, WriteOp

\* What the operations are told apart by.
LEMMA Kinds ==
    /\ Ops = AcceptOps \cup ReadOps \cup WriteOps /\ ConnOps = ReadOps \cup WriteOps
    /\ \A op \in Ops :
          /\ op \in AcceptOps <=> op.kind = "accept"
          /\ op \in ReadOps <=> op.kind = "read"
          /\ op \in WriteOps <=> op.kind = "write"
          /\ op \in ConnOps <=> op \notin AcceptOps
          /\ op \in ConnOps => op.of \in Conns
          /\ op \in AcceptOps => op.of = Listener
    /\ \A op \in Ops : op.kind = "read" => op = ReadOp(op.of)
    /\ \A a \in WriteOps, b \in WriteOps : a.of = b.of /\ a.nth = b.nth => a = b
BY OpKinds DEF Ops, ConnOps

LEMMA Names ==
    /\ Listener \notin Conns /\ Listener \notin Numbers /\ None \notin Numbers
    /\ None \notin Conns /\ Listener # None
    /\ Room \in Nat /\ Room # 0
    /\ \A c \in Conns : LoopOf(c) \in Loops /\ (based => LoopOf(c) = "base")
    /\ \A c \in Conns : ~based => LoopOf(c) = "pool"
    /\ Loops = {"base", "pool"}
BY OverlappedAssumption DEF LoopOf, Loops

\* What a step is about.
LEMMA StepKinds ==
    ASSUME NEW s \in Steps
    PROVE  /\ s.do \in {"add", "establish", "extra", "message", "recv", "close"} => s.of \in Conns
           /\ s.do = "send" => s.of \in WriteOps
           /\ s.do = "accept" => s.of \in AcceptOps
           /\ s = Step(s.do, s.of)
BY DEF Steps, Step

LEMMA StepMade ==
    /\ \A do \in {"add", "establish", "extra", "message", "recv", "close"}, c \in Conns :
          Step(do, c) \in Steps /\ Step(do, c).do = do /\ Step(do, c).of = c
    /\ \A op \in WriteOps :
          Step("send", op) \in Steps /\ Step("send", op).do = "send" /\ Step("send", op).of = op
    /\ \A op \in AcceptOps :
          /\ Step("accept", op) \in Steps
          /\ Step("accept", op).do = "accept" /\ Step("accept", op).of = op
BY DEF Steps, Step

LEMMA HeadTailFacts ==
    ASSUME NEW S, NEW s \in Seq(S), s # <<>>
    PROVE  /\ Head(s) \in S /\ Head(s) = s[1] /\ Tail(s) \in Seq(S)
           /\ Len(s) \in Nat \ {0} /\ DOMAIN s = 1 .. Len(s) /\ 1 \in DOMAIN s
           /\ Len(Tail(s)) = Len(s) - 1 /\ DOMAIN Tail(s) = 1 .. Len(s) - 1
           /\ \A i \in 1 .. Len(s) - 1 : Tail(s)[i] = s[i + 1] /\ i + 1 \in DOMAIN s
<1>1. Len(s) \in Nat \ {0}
  BY EmptySeq
<1> QED BY <1>1, HeadTailProperties

LEMMA AppendFacts ==
    ASSUME NEW S, NEW s \in Seq(S), NEW e \in S
    PROVE  /\ Append(s, e) \in Seq(S)
           /\ Len(s) \in Nat /\ DOMAIN s = 1 .. Len(s)
           /\ Len(Append(s, e)) = Len(s) + 1 /\ DOMAIN Append(s, e) = 1 .. Len(s) + 1
           /\ \A i \in DOMAIN s : Append(s, e)[i] = s[i]
           /\ Append(s, e)[Len(s) + 1] = e
BY AppendProperties

\* A sequence without its i-th element.
LEMMA RemoveAtDrops ==
    ASSUME NEW S, NEW s \in Seq(S), NEW i \in DOMAIN s
    PROVE  /\ RemoveAt(s, i) \in Seq(S)
           /\ DOMAIN RemoveAt(s, i) = 1 .. Len(s) - 1
           /\ \A j \in 1 .. Len(s) - 1 : RemoveAt(s, i)[j] = IF j < i THEN s[j] ELSE s[j + 1]
<1> DEFINE a == SubSeq(s, 1, i - 1)
           b == SubSeq(s, i + 1, Len(s))
<1>1. i \in 1 .. Len(s) /\ Len(s) \in Nat /\ DOMAIN s = 1 .. Len(s)
  OBVIOUS
<1>2. /\ a \in Seq(S) /\ Len(a) = i - 1
      /\ \A j \in 1 .. i - 1 : a[j] = s[j]
  <2>1. \A j \in 1 .. i - 1 : s[j] \in S
    BY <1>1
  <2> QED BY <1>1, <2>1, SubSeqProperties
<1>3. /\ b \in Seq(S) /\ Len(b) = Len(s) - i
      /\ \A j \in 1 .. Len(s) - i : b[j] = s[i + j]
  <2>1. \A j \in i + 1 .. Len(s) : s[j] \in S
    BY <1>1
  <2>2. /\ b \in Seq(S) /\ Len(b) = IF i + 1 <= Len(s) THEN Len(s) - (i + 1) + 1 ELSE 0
        /\ \A j \in 1 .. Len(s) - (i + 1) + 1 : b[j] = s[i + 1 + j - 1]
    BY <1>1, <2>1, SubSeqProperties
  <2> QED BY <1>1, <2>2
<1>4. RemoveAt(s, i) = a \o b
  BY DEF RemoveAt
<1> HIDE DEF a, b
<1>5. /\ a \o b \in Seq(S) /\ Len(a \o b) = Len(s) - 1
      /\ \A j \in 1 .. Len(s) - 1 : (a \o b)[j] = IF j < i THEN a[j] ELSE b[j - (i - 1)]
  <2>1. /\ a \o b \in Seq(S) /\ Len(a \o b) = Len(a) + Len(b)
        /\ \A j \in 1 .. Len(a) + Len(b) :
              (a \o b)[j] = IF j <= Len(a) THEN a[j] ELSE b[j - Len(a)]
    BY <1>2, <1>3, ConcatProperties
  <2>2. Len(a) + Len(b) = Len(s) - 1 /\ \A j \in 1 .. Len(s) - 1 : j <= Len(a) <=> j < i
    BY <1>1, <1>2, <1>3
  <2> QED BY <2>1, <2>2, <1>2
<1>6. ASSUME NEW j \in 1 .. Len(s) - 1
      PROVE  (a \o b)[j] = IF j < i THEN s[j] ELSE s[j + 1]
  <2>1. CASE j < i
    <3>1. j \in 1 .. i - 1
      BY <2>1, <1>1
    <3> QED BY <3>1, <2>1, <1>2, <1>5
  <2>2. CASE ~(j < i)
    <3>1. j - (i - 1) \in 1 .. Len(s) - i /\ i + (j - (i - 1)) = j + 1
      BY <2>2, <1>1
    <3>2. b[j - (i - 1)] = s[j + 1]
      BY <3>1, <1>3
    <3> QED BY <3>2, <2>2, <1>5
  <2> QED BY <2>1, <2>2
<1> QED BY <1>4, <1>5, <1>6

\* What taking an operation out of its list changes.
LEMMA TakenOut ==
    ASSUME Typed, NEW op \in Ops, IsInjective(over[op.of]), TakeOut(op)
    PROVE  /\ over' \in [Conns \cup {Listener} -> Seq(Ops)]
           /\ \A x \in Conns \cup {Listener} : x # op.of => over'[x] = over[x]
           /\ IsInjective(over'[op.of])
           /\ \A a : Has(op.of, a)' => Has(op.of, a) /\ a # op
           /\ \A a : Has(op.of, a) /\ a # op => Has(op.of, a)'
<1>1. op.of \in Conns \cup {Listener} /\ over \in [Conns \cup {Listener} -> Seq(Ops)]
  BY Kinds DEF Typed
<1>2. PICK i \in DOMAIN over[op.of] :
        over[op.of][i] = op /\ over' = [over EXCEPT ![op.of] = RemoveAt(over[op.of], i)]
  BY DEF TakeOut
<1>3. PICK s \in Seq(Ops) : s = over[op.of]
  BY <1>1
<1>4. PICK t \in Seq(Ops) : t = RemoveAt(s, i)
  BY <1>2, <1>3, RemoveAtDrops
<1>5. /\ DOMAIN t = 1 .. Len(s) - 1
      /\ \A j \in 1 .. Len(s) - 1 : t[j] = IF j < i THEN s[j] ELSE s[j + 1]
  BY <1>2, <1>3, <1>4, RemoveAtDrops
<1>6. over'[op.of] = t /\ \A x \in Conns \cup {Listener} : x # op.of => over'[x] = over[x]
  BY <1>1, <1>2, <1>3, <1>4
<1>7. over' \in [Conns \cup {Listener} -> Seq(Ops)]
  BY <1>1, <1>2, <1>3, <1>4
<1>8. /\ i \in 1 .. Len(s) /\ s[i] = op /\ Len(s) \in Nat /\ DOMAIN s = 1 .. Len(s)
      /\ \A j, k \in 1 .. Len(s) : s[j] = s[k] => j = k
  BY <1>2, <1>3 DEF IsInjective
<1>9. \A j, k \in 1 .. Len(s) - 1 : t[j] = t[k] => j = k
  <2> SUFFICES ASSUME NEW j \in 1 .. Len(s) - 1, NEW k \in 1 .. Len(s) - 1, t[j] = t[k]
               PROVE  j = k
    OBVIOUS
  <2>1. PICK m \in 1 .. Len(s) : t[j] = s[m] /\ m = IF j < i THEN j ELSE j + 1
    BY <1>5, <1>8
  <2>2. PICK n \in 1 .. Len(s) : t[k] = s[n] /\ n = IF k < i THEN k ELSE k + 1
    BY <1>5, <1>8
  <2>3. m = n
    BY <2>1, <2>2, <1>8
  <2> QED BY <2>1, <2>2, <2>3, <1>8
<1>10. ASSUME NEW a, Has(op.of, a)' PROVE Has(op.of, a) /\ a # op
  <2>1. PICK j \in 1 .. Len(s) - 1 : t[j] = a
    BY <1>10, <1>6, <1>5 DEF Has
  <2>2. PICK m \in 1 .. Len(s) : a = s[m] /\ m # i
    BY <2>1, <1>5, <1>8
  <2>3. a # op
    BY <2>2, <1>8
  <2> QED BY <2>2, <2>3, <1>3, <1>8 DEF Has
<1>11. ASSUME NEW a, Has(op.of, a), a # op PROVE Has(op.of, a)'
  <2>1. PICK m \in 1 .. Len(s) : a = s[m] /\ m # i
    BY <1>11, <1>3, <1>8 DEF Has
  <2>2. \E j \in 1 .. Len(s) - 1 : t[j] = a
    <3>1. CASE m < i
      BY <3>1, <2>1, <1>5, <1>8
    <3>2. CASE ~(m < i)
      <4>1. m - 1 \in 1 .. Len(s) - 1 /\ ~(m - 1 < i) /\ m - 1 + 1 = m
        BY <3>2, <2>1, <1>8
      <4> QED BY <4>1, <2>1, <1>5
    <3> QED BY <3>1, <3>2
  <2> QED BY <2>2, <1>5, <1>6 DEF Has
<1>12. IsInjective(over'[op.of])
  BY <1>5, <1>6, <1>9 DEF IsInjective
<1> QED BY <1>6, <1>7, <1>10, <1>11, <1>12

\* What adding an operation to its list changes.
LEMMA AddedOver ==
    ASSUME Typed, NEW op \in Ops, AddOver(op)
    PROVE  /\ over' \in [Conns \cup {Listener} -> Seq(Ops)]
           /\ \A x \in Conns \cup {Listener} : x # op.of => over'[x] = over[x]
           /\ IsInjective(over[op.of]) /\ ~Has(op.of, op) => IsInjective(over'[op.of])
           /\ \A a : Has(op.of, a)' => Has(op.of, a) \/ a = op
           /\ \A a : Has(op.of, a) \/ a = op => Has(op.of, a)'
<1>1. op.of \in Conns \cup {Listener} /\ over \in [Conns \cup {Listener} -> Seq(Ops)]
  BY Kinds DEF Typed
<1>2. PICK s \in Seq(Ops) : s = over[op.of]
  BY <1>1
<1>3. PICK t \in Seq(Ops) : t = Append(s, op)
  BY <1>2, AppendFacts
<1>4. over' = [over EXCEPT ![op.of] = t]
  BY <1>2, <1>3 DEF AddOver
<1>5. over'[op.of] = t /\ \A x \in Conns \cup {Listener} : x # op.of => over'[x] = over[x]
  BY <1>1, <1>4
<1>6. /\ Len(s) \in Nat /\ DOMAIN s = 1 .. Len(s) /\ DOMAIN t = 1 .. Len(s) + 1
      /\ \A i \in 1 .. Len(s) : t[i] = s[i]
      /\ t[Len(s) + 1] = op
  BY <1>3, AppendFacts
<1>7. over' \in [Conns \cup {Listener} -> Seq(Ops)]
  BY <1>1, <1>4
<1>8. ASSUME IsInjective(s), ~Has(op.of, op) PROVE IsInjective(t)
  <2>1. \A i \in 1 .. Len(s) : s[i] # op
    BY <1>8, <1>2, <1>6 DEF Has
  <2>2. \A i, j \in 1 .. Len(s) : s[i] = s[j] => i = j
    BY <1>8, <1>6 DEF IsInjective
  <2>3. ASSUME NEW i \in 1 .. Len(s) + 1, NEW j \in 1 .. Len(s) + 1, t[i] = t[j] PROVE i = j
    <3>1. CASE i = Len(s) + 1 /\ j # Len(s) + 1
      BY <3>1, <2>3, <2>1, <1>6
    <3>2. CASE i # Len(s) + 1 /\ j = Len(s) + 1
      BY <3>2, <2>3, <2>1, <1>6
    <3>3. CASE i # Len(s) + 1 /\ j # Len(s) + 1
      BY <3>3, <2>3, <2>2, <1>6
    <3> QED BY <3>1, <3>2, <3>3
  <2> QED BY <2>3, <1>6 DEF IsInjective
<1>9. ASSUME NEW a, Has(op.of, a)' PROVE Has(op.of, a) \/ a = op
  <2>1. PICK i \in 1 .. Len(s) + 1 : t[i] = a
    BY <1>9, <1>5, <1>6 DEF Has
  <2>2. CASE i = Len(s) + 1
    BY <2>1, <2>2, <1>6
  <2>3. CASE i \in 1 .. Len(s)
    BY <2>1, <2>3, <1>2, <1>6 DEF Has
  <2> QED BY <2>2, <2>3, <1>6
<1>10. ASSUME NEW a, Has(op.of, a) \/ a = op PROVE Has(op.of, a)'
  <2>1. CASE a = op
    <3>1. Len(s) + 1 \in DOMAIN t /\ t[Len(s) + 1] = a
      BY <2>1, <1>6
    <3> QED BY <3>1, <1>5 DEF Has
  <2>2. CASE Has(op.of, a)
    <3>1. PICK i \in 1 .. Len(s) : s[i] = a
      BY <2>2, <1>2, <1>6 DEF Has
    <3>2. i \in DOMAIN t /\ t[i] = a
      BY <3>1, <1>6
    <3> QED BY <3>2, <1>5 DEF Has
  <2> QED BY <1>10, <2>1, <2>2
<1> QED BY <1>2, <1>5, <1>7, <1>8, <1>9, <1>10

-----------------------------------------------------------------------------
(* Lemmas: packets.                                                        *)

LEMMA GoodPackets ==
    ASSUME Typed, NEW l \in Loops
    PROVE  /\ port[l] \in Seq(Packets)
           /\ Good(l) \subseteq Packets
           /\ \A p \in Good(l) : ~p.aborted /\ p.op \in Ops
<1>1. port[l] \in Seq(Packets)
  BY DEF Typed
<1>2. ToSet(port[l]) \subseteq Packets
  BY <1>1 DEF ToSet
<1> QED BY <1>1, <1>2 DEF Good, Packets

\* A packet that comes is the last.
LEMMA PacketComes ==
    ASSUME Typed, NEW l \in Loops, NEW p \in Packets,
           port' = [port EXCEPT ![l] = Append(@, p)]
    PROVE  /\ port' \in [Loops -> Seq(Packets)]
           /\ \A k \in Loops \ {l} : Good(k)' = Good(k) /\ (Ordered(k) /\ socketOf' = socketOf => Ordered(k)')
           /\ Good(l)' = Good(l) \cup {q \in {p} : ~p.aborted}
           /\ /\ Ordered(l) /\ socketOf' = socketOf
              /\ ~p.aborted => \A q \in Good(l) : InOrder(q, p)
              => Ordered(l)'
<1>1. PICK s \in Seq(Packets) : s = port[l]
  BY DEF Typed
<1>2. PICK t \in Seq(Packets) : t = Append(s, p)
  BY AppendFacts
<1>3. port' = [port EXCEPT ![l] = t] /\ port \in [Loops -> Seq(Packets)]
  BY <1>1, <1>2 DEF Typed
<1>4. port' \in [Loops -> Seq(Packets)] /\ port'[l] = t /\ \A k \in Loops \ {l} : port'[k] = port[k]
  BY <1>3
<1>5. /\ Len(s) \in Nat /\ DOMAIN s = 1 .. Len(s) /\ DOMAIN t = 1 .. Len(s) + 1
      /\ \A i \in 1 .. Len(s) : t[i] = s[i]
      /\ t[Len(s) + 1] = p
  BY <1>2, AppendFacts
<1>6. ASSUME NEW k \in Loops \ {l}
      PROVE  Good(k)' = Good(k) /\ (Ordered(k) /\ socketOf' = socketOf => Ordered(k)')
  <2>1. port'[k] = port[k]
    BY <1>4
  <2>2. Good(k)' = Good(k)
    BY <2>1 DEF Good
  <2> QED BY <2>1, <2>2 DEF Ordered, InOrder
<1>7. ToSet(t) = ToSet(s) \cup {p}
  <2>1. ToSet(t) \subseteq ToSet(s) \cup {p}
    <3> SUFFICES ASSUME NEW i \in 1 .. Len(s) + 1 PROVE t[i] \in ToSet(s) \cup {p}
      BY <1>5 DEF ToSet
    <3>1. i \in 1 .. Len(s) \/ i = Len(s) + 1
      BY <1>5
    <3> QED BY <3>1, <1>5 DEF ToSet
  <2>2. ToSet(s) \subseteq ToSet(t)
    <3> SUFFICES ASSUME NEW i \in 1 .. Len(s) PROVE s[i] \in ToSet(t)
      BY <1>5 DEF ToSet
    <3>1. i \in DOMAIN t /\ t[i] = s[i]
      BY <1>5
    <3> QED BY <3>1 DEF ToSet
  <2>3. p \in ToSet(t)
    <3>1. Len(s) + 1 \in DOMAIN t
      BY <1>5
    <3> QED BY <3>1, <1>5 DEF ToSet
  <2> QED BY <2>1, <2>2, <2>3
<1>8. Good(l)' = Good(l) \cup {q \in {p} : ~p.aborted}
  BY <1>1, <1>4, <1>7 DEF Good
<1>9. ASSUME Ordered(l), socketOf' = socketOf, ~p.aborted => \A q \in Good(l) : InOrder(q, p)
      PROVE  Ordered(l)'
  <2> SUFFICES ASSUME NEW i \in DOMAIN t, NEW j \in DOMAIN t, i < j,
                      ~t[i].aborted, ~t[j].aborted
               PROVE  InOrder(t[i], t[j])
    BY <1>4, <1>9 DEF Ordered, InOrder, Good
  <2>1. i \in DOMAIN s /\ t[i] = s[i] /\ s[i] \in Good(l)
    BY <1>1, <1>5 DEF Good, ToSet
  <2>2. CASE j \in DOMAIN s
    <3>1. t[j] = s[j] /\ s[j] \in Good(l)
      BY <2>2, <1>1, <1>5 DEF Good, ToSet
    <3> QED BY <2>1, <2>2, <3>1, <1>1, <1>9 DEF Ordered
  <2>3. CASE j = Len(s) + 1
    BY <2>1, <2>3, <1>5, <1>9
  <2> QED BY <2>2, <2>3, <1>5
<1> QED BY <1>4, <1>6, <1>8, <1>9

\* The first packet is taken.
LEMMA PacketGoes ==
    ASSUME Typed, NEW l \in Loops, port[l] # <<>>, Ordered(l), NEW p, p = Head(port[l]),
           port' = [port EXCEPT ![l] = Tail(@)]
    PROVE  /\ p \in Packets /\ (~p.aborted => p \in Good(l))
           /\ port' \in [Loops -> Seq(Packets)]
           /\ \A k \in Loops \ {l} : port'[k] = port[k] /\ Good(k)' = Good(k)
           /\ Good(l)' \subseteq Good(l)
           /\ ~p.aborted => \A q \in Good(l)' : InOrder(p, q)
           /\ \A i, j \in DOMAIN port'[l] :
                 i < j /\ port'[l][i] \in Good(l)' /\ port'[l][j] \in Good(l)' =>
                    InOrder(port'[l][i], port'[l][j])
<1>1. PICK s \in Seq(Packets) : s = port[l]
  BY DEF Typed
<1>2. PICK t \in Seq(Packets) : t = Tail(s)
  BY <1>1, HeadTailFacts
<1>3. port' = [port EXCEPT ![l] = t] /\ port \in [Loops -> Seq(Packets)]
  BY <1>1, <1>2 DEF Typed
<1>4. port' \in [Loops -> Seq(Packets)] /\ port'[l] = t /\ \A k \in Loops \ {l} : port'[k] = port[k]
  BY <1>3
<1>5. /\ p \in Packets /\ p = s[1] /\ DOMAIN s = 1 .. Len(s) /\ 1 \in DOMAIN s
      /\ Len(s) \in Nat \ {0} /\ DOMAIN t = 1 .. Len(s) - 1
      /\ \A i \in 1 .. Len(s) - 1 : t[i] = s[i + 1] /\ i + 1 \in DOMAIN s
  BY <1>1, <1>2, HeadTailFacts
<1>6. ~p.aborted => p \in Good(l)
  BY <1>1, <1>5 DEF Good, ToSet
<1>7. \A k \in Loops \ {l} : port'[k] = port[k] /\ Good(k)' = Good(k)
  BY <1>4 DEF Good
<1>8. Good(l)' = {q \in ToSet(t) : ~q.aborted}
  BY <1>4 DEF Good
<1>9. ASSUME NEW i \in DOMAIN t, ~t[i].aborted
      PROVE  /\ i + 1 \in DOMAIN s /\ s[i + 1] = t[i] /\ s[i + 1] \in Good(l) /\ i \in Nat
             /\ ~p.aborted => InOrder(p, t[i])
  <2>1. i + 1 \in DOMAIN s /\ s[i + 1] = t[i] /\ i \in Nat /\ 1 < i + 1
    BY <1>5
  <2>2. s[i + 1] \in Good(l)
    BY <2>1, <1>1, <1>9 DEF Good, ToSet
  <2> QED BY <2>1, <2>2, <1>1, <1>5, <1>6 DEF Ordered
<1>10. Good(l)' \subseteq Good(l) /\ (~p.aborted => \A q \in Good(l)' : InOrder(p, q))
  BY <1>8, <1>9 DEF ToSet
<1>11. ASSUME NEW i \in DOMAIN t, NEW j \in DOMAIN t, i < j, ~t[i].aborted, ~t[j].aborted
       PROVE  InOrder(t[i], t[j])
  <2>1. i + 1 < j + 1
    BY <1>9, <1>11
  <2> QED BY <2>1, <1>1, <1>9, <1>11 DEF Ordered
<1> QED BY <1>4, <1>5, <1>6, <1>7, <1>8, <1>10, <1>11

-----------------------------------------------------------------------------
(* Lemmas: what does not change for a connection.                          *)

\* Its lists and its operations are as they were, and so are the bytes it has read.
\* When it was cancelled its socket may be closed.
Alike(c) ==
    /\ stage'[c] = stage[c] \/ (stage[c] = "cancelled" /\ stage'[c] = "gone")
    /\ over'[c] = over[c]
    /\ posts'[c] = posts[c] /\ writing'[c] = writing[c]
    /\ \A op \in ConnOps : op.of = c =>
        /\ op \in heap' <=> op \in heap
        /\ op \in none' <=> op \in none
        /\ op \in toFree' <=> op \in toFree

SameBytes(c) == readBuf'[c] = readBuf[c] /\ taken'[c] = taken[c]

\* A connection that ends does not begin again, and until it ends what could be found
\* can be found.
Kept(op) ==
    /\ stage[op.of] \notin Early => stage'[op.of] \notin Early
    /\ stage[op.of] \notin Early /\ stage'[op.of] \in Live => stage[op.of] \in Live
    /\ stage[op.of] \in Live /\ stage'[op.of] \in Live /\ Found(op) => Found(op)'
    /\ op.kind = "write" /\ op.nth <= posts[op.of] => op.nth <= posts'[op.of]
    /\ op.kind = "read" => SameBytes(op.of)

LEMMA AlikeListed ==
    ASSUME NEW c \in Conns, Listed(c), Alike(c), stage[c] \in Early => SameBytes(c)
    PROVE  Listed(c)'
<1>1. \A op : Has(c, op)' <=> Has(c, op)
  BY DEF Has, Alike
<1>2. ReadOp(c) \in ConnOps /\ ReadOp(c).of = c
  BY OpKinds, Kinds
<1>3. stage'[c] \in Early => stage[c] \in Early
  BY DEF Alike, Early
<1>4. stage'[c] \in Live => stage[c] \in Live
  BY DEF Alike, Live
<1> QED BY <1>1, <1>2, <1>3, <1>4 DEF Listed, Alike, SameBytes

LEMMA AlikeOps ==
    ASSUME NEW op \in ConnOps, Alike(op.of)
    PROVE  /\ Has(op.of, op)' <=> Has(op.of, op)
           /\ Current(op)' <=> Current(op)
           /\ Found(op)' <=> Found(op)
           /\ Freed(op) => Freed(op)'
           /\ (op.kind = "read" => SameBytes(op.of)) => Kept(op)
<1>1. Has(op.of, op)' <=> Has(op.of, op)
  BY DEF Has, Alike
<1>2. Current(op)' <=> Current(op)
  BY DEF Current, Alike
<1>3. Found(op)' <=> Found(op)
  BY <1>1, <1>2 DEF Found, Alike
<1> QED BY <1>1, <1>2, <1>3 DEF Freed, Alike, Kept, Early, Live

LEMMA KernelKept ==
    ASSUME NEW op \in ConnOps, Kept(op), InKernel(op)
    PROVE  InKernel(op)'
<1>1. op \notin AcceptOps
  BY OpKinds DEF ConnOps
<1> QED BY <1>1 DEF InKernel, Kept, SameBytes

LEMMA PacketKept ==
    ASSUME Typed, NEW l \in Loops, NEW p \in Packets, p.op \in ConnOps, InPort(l, p),
           Kept(p.op), p.op \notin kernel', based' = based,
           NEW c \in Conns, c = p.op.of,
           stage'[c] \in Live \cup {"cancelled"} =>
              stage[c] \in Early \cup Live \cup {"cancelled"} /\ number'[c] = number[c],
           stage'[c] = "gone" /\ based => \A d \in Conns : number'[d] # p.key
    PROVE  InPort(l, p)'
<1>1. p.op \notin AcceptOps
  BY OpKinds DEF ConnOps
<1>2. Answers(p, c) /\ l = LoopOf(c)
  BY <1>1 DEF InPort
<1>3. Answers(p, c)'
  BY <1>2 DEF Answers, Kept, SameBytes
<1> QED BY <1>1, <1>2, <1>3 DEF InPort, LoopOf

LEMMA AnnounceKept ==
    ASSUME NEW l \in Loops, NEW p \in Packets, p.op \in AcceptOps, InPort(l, p),
           p.op \notin kernel', Has(Listener, p.op) => Has(Listener, p.op)',
           socketOf'[p.op] = socketOf[p.op],
           \A c \in Conns : Announces(p, c) =>
              stage'[c] = "waiting" /\ \A i \in DOMAIN backlog' : backlog'[i] # c
    PROVE  InPort(l, p)'
<1>1. PICK c \in Conns : l = "base" /\ Announces(p, c)
  BY DEF InPort
<1>2. Announces(p, c)'
  BY <1>1 DEF Announces
<1> QED BY <1>1, <1>2 DEF InPort

\* What a handler has still to do for a connection that nothing was done to.
LEMMA StepKept ==
    ASSUME NEW l \in Loops, NEW s \in Steps, NEW i, NEW n, ToDo(l, s, i, n), based' = based,
           s.do = "accept" => Returned(s.of)' /\ (Has(Listener, s.of)' => Has(Listener, s.of)),
           s.do \in {"extra", "recv", "message"} => Alike(s.of),
           s.do \in {"extra", "recv"} => SameBytes(s.of) /\ Returned(ReadOp(s.of))',
           s.do = "send" => Alike(s.of.of) /\ Returned(s.of)'
    PROVE  ToDo(l, s, i, n)'
<1>1. s.do \in {"extra", "message", "recv", "close"} => s.of \in Conns /\ LoopOf(s.of)' = LoopOf(s.of)
  BY StepKinds DEF LoopOf
<1>2. s.do \in {"extra", "recv"} => ToRead(s.of)'
  BY DEF ToDo, ToRead, Alike, SameBytes, Early
<1>3. s.do = "message" => stage'[s.of] \notin Early
  BY DEF ToDo, Alike, Early
<1>4. s.do = "recv" => i = n /\ (stage'[s.of] \in Live => ~Has(s.of, ReadOp(s.of))')
  BY <1>1, OpKinds, AlikeOps DEF ToDo, ConnOps, Alike, Live
<1>5. ASSUME s.do = "send"
      PROVE  /\ (l = LoopOf(s.of.of))' /\ i = 1 /\ Returned(s.of)' /\ stage'[s.of.of] \notin Early
             /\ s.of.nth <= posts'[s.of.of]
             /\ stage'[s.of.of] \in Live =>
                  ~Has(s.of.of, s.of)' /\ Current(s.of)' /\ s.of \in heap' \ toFree'
  <2>1. s.of \in WriteOps
    BY <1>5, StepKinds
  <2>2. s.of \in ConnOps /\ Alike(s.of.of)
    BY <2>1, <1>5 DEF ConnOps
  <2>3. (Has(s.of.of, s.of)' <=> Has(s.of.of, s.of)) /\ (Current(s.of)' <=> Current(s.of))
    BY <2>2, AlikeOps
  <2>4. /\ stage[s.of.of] \notin Early => stage'[s.of.of] \notin Early
        /\ stage'[s.of.of] \in Live => stage[s.of.of] \in Live
        /\ s.of \in heap \ toFree => s.of \in heap' \ toFree'
        /\ posts'[s.of.of] = posts[s.of.of]
    BY <2>2 DEF Alike, Early, Live
  <2> QED BY <2>3, <2>4, <1>5 DEF ToDo, LoopOf
<1> QED BY <1>1, <1>2, <1>3, <1>4, <1>5 DEF ToDo

-----------------------------------------------------------------------------
(* Lemmas: what remains of the invariant when an action has done its part. *)

\* With the kernel before and after, or in a packet before and after.
Stays(op) ==
    \/ op \in kernel /\ op \in kernel'
    \/ \E l \in Loops : \E p \in Good(l) : p \in Good(l)' /\ p.op = op /\ op \notin kernel

LEMMA StaysPends == \A op : Stays(op) => ~Returned(op)
BY DEF Stays, Returned

\* The kernel and the packets: what was there and is there is kept, and what is new is
\* in order.
LEMMA PendingKept ==
    ASSUME Runs, based' = based, number' = number,
           \A op \in kernel' : op \in kernel \/ (op \in Ops /\ InKernel(op)'),
           \A l \in Loops : \A p \in Good(l)' :
              (p \in Good(l) /\ p.op \notin kernel') \/ InPort(l, p)',
           \A c \in Conns : stage[c] = "waiting" /\ (\A i \in DOMAIN backlog : backlog[i] # c) =>
              stage'[c] = "waiting" /\ \A i \in DOMAIN backlog' : backlog'[i] # c,
           \A c \in Conns : stage'[c] = "gone" <=> stage[c] = "gone",
           \A a \in AcceptOps : Stays(a) =>
              socketOf'[a] = socketOf[a] /\ (Has(Listener, a) => Has(Listener, a)'),
           \A op \in ConnOps : Stays(op) => Kept(op)
    PROVE  /\ \A op \in kernel' : InKernel(op)'
           /\ \A l \in Loops : \A p \in Good(l)' : InPort(l, p)'
<1>1. Typed
  BY DEF Runs
<1>2. ASSUME NEW op \in kernel', op \in kernel PROVE InKernel(op)'
  <2>1. InKernel(op) /\ op \in Ops /\ Stays(op)
    BY <1>2 DEF Runs, Typed, Stays
  <2>2. CASE op \in AcceptOps
    BY <2>1, <2>2 DEF InKernel
  <2>3. CASE op \notin AcceptOps
    BY <2>1, <2>3, KernelKept, Kinds
  <2> QED BY <2>2, <2>3
<1>3. ASSUME NEW l \in Loops, NEW p \in Good(l)', p \in Good(l), p.op \notin kernel'
      PROVE  InPort(l, p)'
  <2>1. InPort(l, p) /\ p \in Packets /\ p.op \in Ops /\ Stays(p.op)
    BY <1>1, <1>3, GoodPackets DEF Runs, Stays, InPort
  <2>2. CASE p.op \in AcceptOps
    <3>1. \A c \in Conns : Announces(p, c) =>
              stage'[c] = "waiting" /\ \A i \in DOMAIN backlog' : backlog'[i] # c
      BY DEF Announces
    <3>2. Has(Listener, p.op) /\ socketOf[p.op] # None
      BY <2>1, <2>2 DEF InPort, Announces
    <3> QED BY <2>1, <2>2, <3>1, <3>2, <1>3, AnnounceKept
  <2>3. CASE p.op \notin AcceptOps
    <3>1. p.op \in ConnOps /\ p.op.of \in Conns
      BY <2>1, <2>3, Kinds
    <3>2. PICK c \in Conns : c = p.op.of
      BY <3>1
    <3>3. Answers(p, c) /\ l = LoopOf(c)
      BY <2>1, <2>3, <3>2 DEF InPort
    <3>4. stage'[c] \in Live \cup {"cancelled"} => stage[c] \in Early \cup Live \cup {"cancelled"}
      BY <1>1 DEF Typed, Stages, Live
    <3>5. stage'[c] = "gone" /\ based => \A d \in Conns : number'[d] # p.key
      BY <3>3 DEF Answers
    <3>6. Kept(p.op)
      BY <2>1, <3>1
    <3> QED BY <2>1, <3>1, <3>2, <3>4, <3>5, <3>6, <1>1, <1>3, PacketKept
  <2> QED BY <2>2, <2>3
<1> QED BY <1>2, <1>3

\* The agenda of a loop that was not touched, nor the operations of its connections.
LEMMA PlannedKept ==
    ASSUME Typed, NEW k \in Loops, Planned(k), agenda'[k] = agenda[k], based' = based,
           \A c \in Conns : LoopOf(c) = k /\ stage[c] \notin Early => Alike(c),
           \A c \in Conns : LoopOf(c) = k /\ Returned(ReadOp(c)) =>
              SameBytes(c) /\ Returned(ReadOp(c))',
           \A op \in WriteOps : LoopOf(op.of) = k /\ Returned(op) => Returned(op)',
           k = "base" => \A a \in AcceptOps : Returned(a) /\ ~Has(Listener, a) =>
              Returned(a)' /\ ~Has(Listener, a)'
    PROVE  Planned(k)'
<1>1. PICK t \in Seq(Steps) : t = agenda[k]
  BY DEF Typed
<1>2. ASSUME NEW i \in DOMAIN t PROVE ToDo(k, t[i], i, Len(t))'
  <2>1. PICK s \in Steps : s = t[i]
    BY <1>1
  <2>2. PICK n : n = Len(t)
    OBVIOUS
  <2>3. ToDo(k, s, i, n)
    BY <1>1, <2>1, <2>2 DEF Planned
  <2>4. s.do = "accept" => Returned(s.of)' /\ (Has(Listener, s.of)' => Has(Listener, s.of))
    BY <2>3, StepKinds DEF ToDo
  <2>5. s.do \in {"extra", "recv", "message"} => Alike(s.of)
    BY <2>3, StepKinds DEF ToDo, ToRead
  <2>6. s.do \in {"extra", "recv"} => SameBytes(s.of) /\ Returned(ReadOp(s.of))'
    BY <2>3, StepKinds DEF ToDo, ToRead
  <2>7. s.do = "send" => Alike(s.of.of) /\ Returned(s.of)'
    BY <2>3, StepKinds, Kinds DEF ToDo, ConnOps
  <2>8. ToDo(k, s, i, n)'
    BY <2>3, <2>4, <2>5, <2>6, <2>7, StepKept
  <2> QED BY <2>1, <2>2, <2>8
<1>3. agenda'[k] = t
  BY <1>1
<1> QED BY <1>2, <1>3 DEF Planned

\* An action that changes none of this leaves it as it is.
LEMMA NamedKept ==
    ASSUME Typed, Named, number' = number, slots' = slots, socketOf' = socketOf,
           \A c \in Conns : stage'[c] = stage[c]
    PROVE  Named'
BY DEF Named, Typed

LEMMA WaitsKept ==
    ASSUME Waits, backlog' = backlog, backlog \in Seq(Conns),
           \A c \in Conns : stage[c] = "waiting" => stage'[c] = "waiting"
    PROVE  Waits'
BY DEF Waits

LEMMA ListenerKept ==
    ASSUME ListenerListed, over'[Listener] = over[Listener], AcceptOps \subseteq heap'
    PROVE  ListenerListed'
BY DEF ListenerListed, Has

\* Ports and lists of packets that nothing was done to.
LEMMA PortsSame ==
    ASSUME NEW l \in Loops, port'[l] = port[l]
    PROVE  /\ Good(l)' = Good(l)
           /\ Ordered(l) /\ (\A p \in Good(l) : p.op \in AcceptOps => socketOf'[p.op] = socketOf[p.op])
                => Ordered(l)'
<1>1. Good(l)' = Good(l)
  BY DEF Good
<1> QED BY <1>1 DEF Ordered, InOrder

LEMMA ReturnedKept ==
    ASSUME NEW op, Returned(op), op \notin kernel',
           \A l \in Loops : \A p \in Good(l)' : p \in Good(l) \/ p.op # op
    PROVE  Returned(op)'
BY DEF Returned

\* Where an operation is that is with the kernel or in a packet.
LEMMA Pends ==
    ASSUME Runs, NEW op \in Ops, ~Returned(op)
    PROVE  /\ op \in AcceptOps => Has(Listener, op) /\ socketOf[op] # None
           /\ op \in ConnOps =>
                /\ stage[op.of] \notin Early
                /\ stage[op.of] \in Live => Found(op)
                /\ op.kind = "write" => op.nth <= posts[op.of]
<1>1. op \in ConnOps <=> op \notin AcceptOps
  BY Kinds
<1>2. CASE op \in kernel
  BY <1>1, <1>2 DEF Runs, InKernel
<1>3. CASE op \notin kernel
  <2>5. PICK l \in Loops : \E p \in Good(l) : p.op = op
    BY <1>3 DEF Returned
  <2>1. PICK p \in Good(l) : p.op = op
    BY <2>5
  <2>2. InPort(l, p)
    BY DEF Runs
  <2>3. CASE op \in AcceptOps
    BY <2>1, <2>2, <2>3, <1>1 DEF InPort, Announces
  <2>4. CASE op \notin AcceptOps
    <3>1. Answers(p, op.of)
      BY <2>1, <2>2, <2>4 DEF InPort
    <3> QED BY <2>1, <2>4, <3>1 DEF Answers
  <2> QED BY <2>3, <2>4
<1> QED BY <1>2, <1>3

\* An action of a connection, or of its loop, which may give the kernel one operation.
Does(c, o) ==
    /\ based' = based /\ port' = port /\ backlog' = backlog /\ socketOf' = socketOf
    /\ over'[Listener] = over[Listener] /\ AcceptOps \subseteq heap'
    /\ \A d \in Conns : d # c => Alike(d) /\ SameBytes(d) /\ stage'[d] = stage[d]
    /\ stage[c] = "waiting" => stage'[c] = "waiting"
    /\ o \in ConnOps /\ o.of = c
    /\ kernel' = kernel \/ (kernel' = kernel \cup {o} /\ Returned(o) /\ InKernel(o)')
    /\ \A op \in ConnOps : op.of = c /\ ~Returned(op) => Kept(op)
    /\ \A op \in toFree' : op.of = c => Freed(op)'
    /\ Listed(c)'

LEMMA Around ==
    ASSUME Runs, Typed', NEW c \in Conns, NEW o, Does(c, o)
    PROVE  /\ Waits'
           /\ \A d \in Conns : Listed(d)'
           /\ ListenerListed'
           /\ \A op \in toFree' : Freed(op)'
           /\ \A l \in Loops : Good(l)' = Good(l) /\ Ordered(l)'
           /\ \A op : Returned(op) /\ op \notin kernel' => Returned(op)'
           /\ number' = number /\ (stage'[c] = "gone" <=> stage[c] = "gone") =>
                /\ \A op \in kernel' : InKernel(op)'
                /\ \A l \in Loops : \A p \in Good(l)' : InPort(l, p)'
           /\ \A k \in Loops : agenda'[k] = agenda[k]
                  /\ (k # LoopOf(c) \/ (Alike(c) /\ SameBytes(c) /\ kernel' = kernel)) =>
                Planned(k)'
<1> USE DEF Does
<1>1. Typed /\ backlog \in Seq(Conns) /\ toFree' \subseteq WriteOps
  BY DEF Runs, Typed
<1>2. Waits'
  <2>1. \A d \in Conns : stage[d] = "waiting" => stage'[d] = "waiting"
    OBVIOUS
  <2> QED BY <1>1, <2>1, WaitsKept DEF Runs
<1>3. \A d \in Conns : Listed(d)'
  <2>1. ASSUME NEW d \in Conns, d # c PROVE Listed(d)'
    BY <2>1, AlikeListed DEF Runs
  <2> QED BY <2>1
<1>4. ListenerListed'
  BY ListenerKept DEF Runs
<1>5. ASSUME NEW op \in toFree' PROVE Freed(op)'
  <2>1. op \in ConnOps /\ op.of \in Conns
    BY <1>1, OpKinds DEF ConnOps
  <2>2. CASE op.of # c
    <3>1. Alike(op.of) /\ op \in toFree
      BY <2>1, <2>2 DEF Alike
    <3> QED BY <2>1, <3>1, AlikeOps DEF Runs
  <2> QED BY <2>2
<1>6. \A l \in Loops : Good(l)' = Good(l) /\ Ordered(l)'
  BY PortsSame DEF Runs
<1>7. \A op : Returned(op) /\ op \notin kernel' => Returned(op)'
  BY <1>6 DEF Returned
<1>8. ASSUME number' = number, stage'[c] = "gone" <=> stage[c] = "gone"
      PROVE  /\ \A op \in kernel' : InKernel(op)'
             /\ \A l \in Loops : \A p \in Good(l)' : InPort(l, p)'
  <2>1. \A op \in kernel' : op \in kernel \/ (op \in Ops /\ InKernel(op)')
    BY Kinds
  <2>2. \A l \in Loops : \A p \in Good(l)' : p \in Good(l) /\ p.op \notin kernel'
    <3> SUFFICES ASSUME NEW l \in Loops, NEW p \in Good(l) PROVE p.op \notin kernel'
      BY <1>6
    <3>1. InPort(l, p)
      BY DEF Runs
    <3>2. p.op \notin kernel /\ ~Returned(p.op)
      BY <3>1 DEF InPort, Returned
    <3> QED BY <3>2
  <2>3. \A d \in Conns : stage[d] = "waiting" /\ (\A i \in DOMAIN backlog : backlog[i] # d) =>
              stage'[d] = "waiting" /\ \A i \in DOMAIN backlog' : backlog'[i] # d
    OBVIOUS
  <2>4. \A d \in Conns : stage'[d] = "gone" <=> stage[d] = "gone"
    BY <1>8
  <2>5. \A a \in AcceptOps : Stays(a) =>
              socketOf'[a] = socketOf[a] /\ (Has(Listener, a) => Has(Listener, a)')
    BY DEF Has
  <2>6. \A op \in ConnOps : Stays(op) => Kept(op)
    <3> SUFFICES ASSUME NEW op \in ConnOps, ~Returned(op), op.of # c PROVE Kept(op)
      BY StaysPends
    <3> QED BY AlikeOps, OpKinds DEF ConnOps
  <2> HIDE DEF ConnOps
  <2> QED BY <1>8, <2>1, <2>2, <2>3, <2>4, <2>5, <2>6, PendingKept
<1>9. ASSUME NEW k \in Loops, agenda'[k] = agenda[k],
             k # LoopOf(c) \/ (Alike(c) /\ SameBytes(c) /\ kernel' = kernel)
      PROVE  Planned(k)'
  <2>1. \A d \in Conns : LoopOf(d) = k => Alike(d) /\ SameBytes(d)
    BY <1>9
  <2>2. ASSUME NEW op \in Ops, op \in AcceptOps \/ LoopOf(op.of) = k, Returned(op)
        PROVE  Returned(op)'
    <3>1. op \notin kernel
      BY <2>2 DEF Returned
    <3>2. op # o \/ kernel' = kernel
      BY <1>9, <2>2, Kinds
    <3> QED BY <1>7, <2>2, <3>1, <3>2
  <2>3. \A d \in Conns : LoopOf(d) = k /\ Returned(ReadOp(d)) =>
              SameBytes(d) /\ Returned(ReadOp(d))'
    BY <2>1, <2>2, OpKinds, Kinds
  <2>4. \A op \in WriteOps : LoopOf(op.of) = k /\ Returned(op) => Returned(op)'
    BY <2>2, Kinds
  <2>5. \A a \in AcceptOps : Returned(a) /\ ~Has(Listener, a) =>
              Returned(a)' /\ ~Has(Listener, a)'
    BY <2>2, Kinds DEF Has
  <2>6. Planned(k)
    BY DEF Runs
  <2> QED BY <1>1, <1>9, <2>1, <2>3, <2>4, <2>5, <2>6, PlannedKept
<1> QED BY <1>2, <1>3, <1>4, <1>5, <1>6, <1>7, <1>8, <1>9

\* The invariant after such an action.
LEMMA AroundRuns ==
    ASSUME Runs, Typed', Named', NEW c \in Conns, NEW o, Does(c, o),
           number' = number, stage'[c] = "gone" <=> stage[c] = "gone",
           NEW l \in Loops, l = LoopOf(c), Planned(l)',
           \A k \in Loops : k # l => agenda'[k] = agenda[k]
    PROVE  Runs'
<1>1. \A k \in Loops : Planned(k)'
  BY Around
<1> QED BY <1>1, Around DEF Runs

\* The step a handler has to do next.
LEMMA FirstStep ==
    ASSUME Runs, NEW l \in Loops, agenda[l] # <<>>
    PROVE  Head(agenda[l]) \in Steps /\ ToDo(l, Head(agenda[l]), 1, Len(agenda[l]))
<1>1. agenda[l] \in Seq(Steps)
  BY DEF Runs, Typed
<1>2. Head(agenda[l]) \in Steps /\ Head(agenda[l]) = agenda[l][1] /\ 1 \in DOMAIN agenda[l]
  BY <1>1, HeadTailFacts
<1> QED BY <1>2 DEF Runs, Planned

\* Those behind it, which are no sends, when they move up.
LEMMA StepMoves ==
    ASSUME NEW l \in Loops, NEW s \in Steps, NEW i \in Nat \ {0}, NEW n \in Nat,
           ToDo(l, s, i + 1, n + 1), based' = based,
           s.do = "accept" => Returned(s.of)' /\ ~Has(Listener, s.of)',
           s.do \in {"extra", "recv"} => ToRead(s.of)',
           s.do \in {"message", "recv"} =>
              /\ stage[s.of] \notin Early => stage'[s.of] \notin Early
              /\ stage[s.of] \notin Early /\ stage'[s.of] \in Live => stage[s.of] \in Live,
           s.do = "recv" => (Has(s.of, ReadOp(s.of))' => Has(s.of, ReadOp(s.of)))
    PROVE  s.do # "send" /\ ToDo(l, s, i, n)' /\ ToDo(l, s, i + 1, n + 1)'
<1>1. s.do # "send"
  BY DEF ToDo
<1>2. LoopOf(s.of)' = LoopOf(s.of)
  BY DEF LoopOf
<1>3. i + 1 = n + 1 => i = n
  OBVIOUS
<1> QED BY <1>1, <1>2, <1>3 DEF ToDo, ToRead

LEMMA TailKept ==
    ASSUME Runs, NEW l \in Loops, agenda[l] # <<>>, based' = based,
           NEW todo, todo = Tail(agenda[l]),
           \A c \in Conns : LoopOf(c) = l /\ stage[c] \notin Early =>
              stage'[c] \notin Early /\ (stage'[c] \in Live => stage[c] \in Live),
           \A c \in Conns : LoopOf(c) = l /\ ToRead(c) =>
              ToRead(c)' /\ (Has(c, ReadOp(c))' => Has(c, ReadOp(c))),
           \A a \in AcceptOps : l = "base" /\ Returned(a) /\ ~Has(Listener, a) =>
              Returned(a)' /\ ~Has(Listener, a)'
    PROVE  /\ todo \in Seq(Steps)
           /\ \A i \in DOMAIN todo :
                 /\ ToDo(l, todo[i], i, Len(todo))'
                 /\ ToDo(l, todo[i], i + 1, Len(todo) + 1)'
<1>1. PICK a \in Seq(Steps) : a = agenda[l]
  BY DEF Runs, Typed
<1>2. PICK n \in Nat : n + 1 = Len(a) /\ n = Len(todo)
  <2>1. Len(a) \in Nat \ {0} /\ Len(todo) = Len(a) - 1
    BY <1>1, HeadTailFacts
  <2>2. Len(todo) \in Nat /\ Len(todo) + 1 = Len(a)
    BY <2>1
  <2> QED BY <2>2
<1>3. /\ todo \in Seq(Steps) /\ DOMAIN todo = 1 .. n
      /\ \A i \in 1 .. n : todo[i] = a[i + 1] /\ i + 1 \in DOMAIN a
  BY <1>1, <1>2, HeadTailFacts
<1>4. ASSUME NEW i \in 1 .. n
      PROVE  ToDo(l, todo[i], i, n)' /\ ToDo(l, todo[i], i + 1, n + 1)'
  <2>1. PICK s \in Steps : s = todo[i]
    BY <1>3
  <2>2. ToDo(l, s, i + 1, n + 1)
    BY <1>1, <1>2, <1>3, <2>1 DEF Runs, Planned
  <2>3. s.do = "accept" => Returned(s.of)' /\ ~Has(Listener, s.of)'
    BY <2>2, StepKinds DEF ToDo
  <2>4. s.do \in {"extra", "recv"} => ToRead(s.of)'
    BY <2>2, StepKinds DEF ToDo
  <2>5. s.do = "recv" => (Has(s.of, ReadOp(s.of))' => Has(s.of, ReadOp(s.of)))
    BY <2>2, StepKinds DEF ToDo
  <2>6. s.do \in {"message", "recv"} =>
              /\ stage[s.of] \notin Early => stage'[s.of] \notin Early
              /\ stage[s.of] \notin Early /\ stage'[s.of] \in Live => stage[s.of] \in Live
    BY <2>2, StepKinds DEF ToDo
  <2>7. ToDo(l, s, i, n)' /\ ToDo(l, s, i + 1, n + 1)'
    BY <2>2, <2>3, <2>4, <2>5, <2>6, StepMoves
  <2> QED BY <2>1, <2>7
<1> QED BY <1>2, <1>3, <1>4

LEMMA GoesOn ==
    ASSUME NEW l \in Loops, NEW todo \in Seq(Steps), agenda'[l] = todo,
           \A i \in DOMAIN todo : ToDo(l, todo[i], i, Len(todo))'
    PROVE  Planned(l)'
BY DEF Planned

\* A step before others.
LEMMA StepBefore ==
    ASSUME NEW l \in Loops, NEW s \in Steps, NEW todo \in Seq(Steps),
           NEW t, t = <<s>> \o todo, agenda'[l] = t,
           ToDo(l, s, 1, Len(todo) + 1)',
           \A i \in DOMAIN todo : ToDo(l, todo[i], i + 1, Len(todo) + 1)'
    PROVE  t \in Seq(Steps) /\ Planned(l)'
<1>1. /\ t \in Seq(Steps) /\ Len(t) = Len(todo) + 1 /\ Len(todo) \in Nat
      /\ DOMAIN t = 1 .. Len(todo) + 1 /\ DOMAIN todo = 1 .. Len(todo)
      /\ t[1] = s /\ \A i \in 1 .. Len(todo) : t[i + 1] = todo[i]
  <2>1. <<s>> \in Seq(Steps) /\ Len(<<s>>) = 1 /\ <<s>>[1] = s
    OBVIOUS
  <2>2. /\ t \in Seq(Steps) /\ Len(t) = 1 + Len(todo)
        /\ \A i \in 1 .. 1 + Len(todo) : t[i] = IF i <= 1 THEN <<s>>[i] ELSE todo[i - 1]
    BY <2>1, ConcatProperties
  <2>3. Len(todo) \in Nat /\ DOMAIN todo = 1 .. Len(todo)
    OBVIOUS
  <2>4. ASSUME NEW i \in 1 .. Len(todo) PROVE t[i + 1] = todo[i]
    <3>1. i + 1 \in 1 .. 1 + Len(todo) /\ ~(i + 1 <= 1) /\ i + 1 - 1 = i
      BY <2>3
    <3> QED BY <3>1, <2>2
  <2> QED BY <2>1, <2>2, <2>3, <2>4
<1>2. ASSUME NEW j \in 1 .. Len(todo) + 1 PROVE ToDo(l, t[j], j, Len(t))'
  <2>1. CASE j = 1
    BY <2>1, <1>1
  <2>2. CASE j # 1
    <3>1. PICK i \in 1 .. Len(todo) : j = i + 1
      BY <2>2, <1>1
    <3> QED BY <3>1, <1>1
  <2> QED BY <2>1, <2>2
<1> QED BY <1>1, <1>2, GoesOn

-----------------------------------------------------------------------------
(* The peers.                                                              *)

LEMMA PeerConnectsStep ==
    ASSUME Runs, NEW c \in Conns, PeerConnects(c)
    PROVE  Runs'
<1> USE DEF PeerConnects, lists, data, out
<1>1. Typed /\ stage \in [Conns -> Stages] /\ backlog \in Seq(Conns) /\ stage[c] = "away"
  BY DEF Runs, Typed
<1>2. Typed'
  <2>1. backlog' \in Seq(Conns)
    BY <1>1, AppendFacts
  <2>2. stage' \in [Conns -> Stages]
    BY <1>1 DEF Stages, Early
  <2> QED BY <1>1, <2>1, <2>2 DEF Typed, LoopOf
<1>3. \A d \in Conns : d # c => stage'[d] = stage[d]
  BY <1>1
<1>4. stage'[c] = "waiting"
  BY <1>1
<1>5. PICK s \in Seq(Conns) : s = backlog
  BY <1>1
<1>6. PICK t \in Seq(Conns) : t = Append(s, c)
  BY AppendFacts
<1>7. backlog' = t /\ DOMAIN s = 1 .. Len(s) /\ DOMAIN t = 1 .. Len(s) + 1 /\ Len(s) \in Nat
      /\ (\A i \in 1 .. Len(s) : t[i] = s[i]) /\ t[Len(s) + 1] = c
  BY <1>5, <1>6, AppendFacts
<1>8. \A i \in 1 .. Len(s) : s[i] \in Conns /\ stage[s[i]] = "waiting" /\ s[i] # c
  BY <1>1, <1>5, <1>7 DEF Runs, Waits
<1>9. Waits'
  <2>1. \A i, j \in 1 .. Len(s) : s[i] = s[j] => i = j
    BY <1>5, <1>7 DEF Runs, Waits, IsInjective
  <2>2. ASSUME NEW i \in 1 .. Len(s) + 1 PROVE stage'[t[i]] = "waiting"
    <3>1. CASE i = Len(s) + 1
      BY <3>1, <1>4, <1>7
    <3>2. CASE i \in 1 .. Len(s)
      BY <3>2, <1>3, <1>7, <1>8
    <3> QED BY <3>1, <3>2, <1>7
  <2>3. ASSUME NEW i \in 1 .. Len(s) + 1, NEW j \in 1 .. Len(s) + 1, t[i] = t[j] PROVE i = j
    <3>1. CASE i = Len(s) + 1 /\ j # Len(s) + 1
      BY <3>1, <2>3, <1>7, <1>8
    <3>2. CASE i # Len(s) + 1 /\ j = Len(s) + 1
      BY <3>2, <2>3, <1>7, <1>8
    <3>3. CASE i # Len(s) + 1 /\ j # Len(s) + 1
      BY <3>3, <2>1, <2>3, <1>7
    <3> QED BY <3>1, <3>2, <3>3
  <2> QED BY <1>7, <2>2, <2>3 DEF Waits, IsInjective
<1>10. Named'
  <2>1. Named
    BY DEF Runs
  <2>2. stage[c] \notin Live \cup {"accepted", "added", "cancelled"}
    BY <1>1 DEF Live
  <2>3. stage'[c] \notin Live \cup {"accepted", "added", "cancelled"}
    BY <1>4 DEF Live
  <2> QED BY <1>1, <1>3, <2>1, <2>2, <2>3 DEF Named, Typed
<1>11. \A d \in Conns : d # c => Alike(d)
  BY <1>3 DEF Alike
<1>12. \A d \in Conns : SameBytes(d)
  BY DEF SameBytes
<1>13. \A d \in Conns : Listed(d)'
  <2>1. Listed(c)'
    <3>1. stage[c] \in Early /\ stage'[c] \in Early /\ stage'[c] \notin Live
      BY <1>1, <1>4 DEF Early, Live
    <3> QED BY <3>1 DEF Runs, Listed, Has
  <2>2. ASSUME NEW d \in Conns, d # c PROVE Listed(d)'
    BY <2>2, <1>11, <1>12, AlikeListed DEF Runs
  <2> QED BY <2>1, <2>2
<1>14. ListenerListed'
  BY ListenerKept DEF Runs, ListenerListed
<1>15. \A op \in toFree' : Freed(op)'
  BY DEF Runs, Freed
<1>16. \A l \in Loops : Good(l)' = Good(l) /\ Ordered(l)'
  BY PortsSame DEF Runs
<1>17. \A op : Returned(op)' <=> Returned(op)
  BY <1>16 DEF Returned
<1>18. \A op \in ConnOps : ~Returned(op) => Kept(op)
  <2> SUFFICES ASSUME NEW op \in ConnOps, ~Returned(op) PROVE Kept(op)
    OBVIOUS
  <2>1. stage[op.of] \notin Early
    BY Pends, Kinds
  <2>2. op.of # c
    BY <2>1, <1>1 DEF Early
  <2> QED BY <2>2, <1>11, <1>12, AlikeOps, Kinds
<1>19. (\A op \in kernel' : InKernel(op)') /\ \A l \in Loops : \A p \in Good(l)' : InPort(l, p)'
  <2>1. \A l \in Loops : \A p \in Good(l)' : p \in Good(l) /\ p.op \notin kernel'
    BY <1>16 DEF Runs, InPort
  <2>2. ASSUME NEW d \in Conns, stage[d] = "waiting", \A i \in DOMAIN backlog : backlog[i] # d
        PROVE  stage'[d] = "waiting" /\ \A i \in DOMAIN backlog' : backlog'[i] # d
    <3>1. d # c
      BY <2>2, <1>1
    <3>2. \A i \in 1 .. Len(s) + 1 : t[i] # d
      BY <2>2, <3>1, <1>5, <1>7
    <3> QED BY <2>2, <3>1, <3>2, <1>3, <1>7
  <2>3. \A d \in Conns : stage'[d] = "gone" <=> stage[d] = "gone"
    BY <1>1, <1>3, <1>4
  <2>4. \A a \in AcceptOps : Has(Listener, a) => Has(Listener, a)'
    BY DEF Has
  <2> QED BY <2>1, <2>2, <2>3, <2>4, <1>18, PendingKept, StaysPends
<1>20. \A l \in Loops : Planned(l)'
  <2>1. \A d \in Conns : stage[d] \notin Early => Alike(d)
    BY <1>1, <1>11 DEF Early
  <2>2. \A a : Has(Listener, a)' <=> Has(Listener, a)
    BY DEF Has
  <2> QED BY <2>1, <2>2, <1>1, <1>12, <1>17, PlannedKept DEF Runs
<1> QED BY <1>2, <1>9, <1>10, <1>13, <1>14, <1>15, <1>16, <1>19, <1>20 DEF Runs

LEMMA PeerSendsStep ==
    ASSUME Runs, NEW c \in Conns, PeerSends(c) \/ PeerEnds(c)
    PROVE  Runs'
<1>1. /\ UNCHANGED <<based, conns, lists, kernel, port, socketOf, agenda, backlog, data>>
      /\ sent' = sent \/ (sent[c] < Bytes[c] /\ sent' = [sent EXCEPT ![c] = sent[c] + 1])
  BY DEF PeerSends, PeerEnds
<1> USE <1>1 DEF conns, lists, data, out
<1>2. Typed
  BY DEF Runs
<1>3. sent' \in [Conns -> Nat] /\ \A d \in Conns : taken[d] <= sent'[d]
  <2>1. sent \in [Conns -> Nat] /\ taken \in [Conns -> Nat] /\ \A d \in Conns : taken[d] <= sent[d]
    BY <1>2 DEF Typed
  <2>2. CASE sent' = sent
    BY <2>1, <2>2
  <2>3. CASE sent' = [sent EXCEPT ![c] = sent[c] + 1]
    <3>1. sent' \in [Conns -> Nat]
      BY <2>1, <2>3
    <3>2. \A d \in Conns : sent'[d] = IF d = c THEN sent[c] + 1 ELSE sent[d]
      BY <2>1, <2>3
    <3>3. \A d \in Conns : taken[d] \in Nat /\ sent[d] \in Nat /\ taken[d] <= sent[d]
      BY <2>1
    <3> QED BY <3>1, <3>2, <3>3
  <2> QED BY <1>1, <2>2, <2>3
<1>4. Typed'
  BY <1>2, <1>3 DEF Typed
<1>5. \A d \in Conns : Alike(d) /\ SameBytes(d)
  BY DEF Alike, SameBytes
<1>6. \A d \in Conns : Listed(d)'
  BY <1>5, AlikeListed DEF Runs
<1>7. ReadOp(c) \in ConnOps /\ ReadOp(c).of = c
  BY OpKinds DEF ConnOps
<1>8. \A op \in ConnOps : op.of = c => Kept(op)
  BY <1>5, AlikeOps
<1>9. \A op \in toFree' : op.of = c => Freed(op)'
  BY DEF Runs, Freed
<1>10. AcceptOps \subseteq heap'
  BY DEF Runs, ListenerListed
<1>11. Named'
  BY <1>2, NamedKept DEF Runs
<1> HIDE DEF conns, lists, data, out
<1>12. /\ based' = based /\ port' = port /\ backlog' = backlog /\ socketOf' = socketOf
       /\ over' = over /\ kernel' = kernel /\ stage' = stage /\ number' = number /\ agenda' = agenda
  BY DEF conns, lists
<1>13. Does(c, ReadOp(c))
  BY <1>5, <1>6, <1>7, <1>8, <1>9, <1>10, <1>12 DEF Does
<1> QED BY <1>4, <1>5, <1>11, <1>12, <1>13, Around DEF Runs

-----------------------------------------------------------------------------
(* The tasks of a loop, and the user's.                                    *)

LEMMA FreeTaskStep ==
    ASSUME Runs, NEW l \in Loops, FreeTask(l)
    PROVE  Runs'
<1>1. PICK o \in toFree : l = LoopOf(o.of) /\ toFree' = toFree \ {o} /\ heap' = heap \ {o}
  BY DEF FreeTask
<1>2. UNCHANGED <<based, conns, over, none, kernel, port, socketOf, agenda, peers, data>>
  BY DEF FreeTask
<1> USE <1>2 DEF conns, peers, data, out
<1>3. Typed /\ agenda[l] = <<>>
  BY DEF Runs, FreeTask, Idle
<1>4. PICK c \in Conns : c = o.of
  BY <1>1, <1>3, OpKinds DEF Typed
<1>5. o \in WriteOps /\ o \in ConnOps /\ o \notin AcceptOps /\ o \notin ReadOps
  BY <1>3, OpKinds DEF Typed, ConnOps
<1>6. Typed'
  BY <1>1, <1>3 DEF Typed
<1>7. \A d \in Conns : SameBytes(d) /\ (d # c => Alike(d))
  BY <1>1, <1>4 DEF Alike, SameBytes
<1>8. ASSUME NEW op \in ConnOps PROVE Kept(op)
  <2>1. Found(op) => Found(op)'
    BY <1>1 DEF Found, Has, Current
  <2> QED BY <2>1 DEF Kept, SameBytes
<1>9. Listed(c)'
  <2>1. Listed(c)
    BY DEF Runs
  <2>2. ReadOp(c) # o
    BY <1>5, OpKinds
  <2> QED BY <1>1, <2>1, <2>2 DEF Listed, Has
<1>10. \A op \in toFree' : op.of = c => Freed(op)'
  BY <1>1 DEF Runs, Freed
<1>11. AcceptOps \subseteq heap'
  BY <1>1, <1>5 DEF Runs, ListenerListed
<1>12. Named'
  BY <1>3, NamedKept DEF Runs
<1>13. Planned(l)'
  BY <1>3 DEF Planned
<1> HIDE DEF conns, peers, data, out
<1>14. /\ based' = based /\ port' = port /\ backlog' = backlog /\ socketOf' = socketOf
       /\ over' = over /\ kernel' = kernel /\ stage' = stage /\ number' = number /\ agenda' = agenda
  BY DEF conns, peers
<1>15. Does(c, o)
  BY <1>4, <1>5, <1>7, <1>8, <1>9, <1>10, <1>11, <1>14 DEF Does
<1> QED BY <1>1, <1>4, <1>6, <1>12, <1>13, <1>14, <1>15, AroundRuns

LEMMA ShutdownStep ==
    ASSUME Runs, NEW l \in Loops, Shutdown(l)
    PROVE  Runs'
<1>1. PICK c \in Closers : l = LoopOf(c) /\ Goes(l, <<Step("close", c)>>)
  BY DEF Shutdown
<1>2. UNCHANGED <<based, conns, lists, kernel, port, socketOf, peers, data>>
  BY DEF Shutdown
<1> USE <1>2 DEF conns, lists, peers, data, out
<1>3. Typed /\ c \in Conns
  BY OverlappedAssumption DEF Runs
<1>4. PICK todo \in Seq(Steps) : todo = <<Step("close", c)>>
  <2>1. Step("close", c) \in Steps
    BY <1>3, StepMade
  <2>2. <<Step("close", c)>> \in Seq(Steps)
    BY <2>1
  <2> QED BY <2>2
<1>5. agenda' = [agenda EXCEPT ![l] = todo]
  BY <1>1, <1>4 DEF Goes
<1>6. Typed'
  BY <1>3, <1>5 DEF Typed
<1>7. \A d \in Conns : SameBytes(d) /\ Alike(d)
  BY DEF Alike, SameBytes
<1>8. \A op \in ConnOps : op.of = c => Kept(op)
  BY <1>3, <1>7, AlikeOps
<1>9. Listed(c)'
  BY <1>3, <1>7, AlikeListed DEF Runs
<1>10. \A op \in toFree' : op.of = c => Freed(op)'
  BY DEF Runs, Freed
<1>11. AcceptOps \subseteq heap'
  BY DEF Runs, ListenerListed
<1>12. Named'
  BY <1>3, NamedKept DEF Runs
<1>13. Planned(l)'
  <2>1. DOMAIN todo = {1} /\ todo[1] = Step("close", c)
    BY <1>4
  <2>2. ToDo(l, Step("close", c), 1, Len(todo))'
    BY <1>1, <1>3, StepMade DEF ToDo, LoopOf
  <2>3. \A i \in DOMAIN todo : ToDo(l, todo[i], i, Len(todo))'
    BY <2>1, <2>2
  <2>4. agenda'[l] = todo
    BY <1>3, <1>5 DEF Typed
  <2> QED BY <2>3, <2>4, GoesOn
<1> HIDE DEF conns, lists, peers, data, out
<1>14. /\ based' = based /\ port' = port /\ backlog' = backlog /\ socketOf' = socketOf
       /\ over' = over /\ kernel' = kernel /\ stage' = stage /\ number' = number
       /\ \A k \in Loops : k # l => agenda'[k] = agenda[k]
  BY <1>3, <1>5 DEF conns, peers, lists, Typed
<1>15. ReadOp(c) \in ConnOps /\ ReadOp(c).of = c
  BY <1>3, OpKinds DEF ConnOps
<1>16. Does(c, ReadOp(c))
  BY <1>7, <1>8, <1>9, <1>10, <1>11, <1>14, <1>15 DEF Does
<1> QED BY <1>1, <1>3, <1>6, <1>12, <1>13, <1>14, <1>16, AroundRuns

LEMMA CloseSocketStep ==
    ASSUME Runs, NEW c \in Conns, CloseSocket(c)
    PROVE  Runs'
<1>1. /\ stage[c] = "cancelled" /\ stage' = [stage EXCEPT ![c] = "gone"]
      /\ number' = [number EXCEPT ![c] = None]
      /\ UNCHANGED <<based, slots, lists, kernel, port, socketOf, agenda, peers, data>>
  BY DEF CloseSocket
<1> USE <1>1 DEF lists, peers, data, out
<1>2. Typed
  BY DEF Runs
<1>3. stage' \in [Conns -> Stages] /\ number' \in [Conns -> Numbers \cup {None}]
  BY <1>2 DEF Typed, Stages
<1>4. Typed'
  BY <1>2, <1>3 DEF Typed
<1>5. /\ stage'[c] = "gone" /\ number'[c] = None
      /\ \A d \in Conns : d # c => stage'[d] = stage[d] /\ number'[d] = number[d]
  BY <1>2 DEF Typed
<1>6. \A d \in Conns : SameBytes(d) /\ Alike(d)
  BY <1>5 DEF Alike, SameBytes
<1>7. \A op \in ConnOps : Kept(op)
  BY <1>6, AlikeOps, OpKinds DEF ConnOps
<1>8. Listed(c)'
  BY <1>6, AlikeListed DEF Runs
<1>9. \A op \in toFree' : op.of = c => Freed(op)'
  BY DEF Runs, Freed
<1>10. AcceptOps \subseteq heap'
  BY DEF Runs, ListenerListed
<1>11. Named'
  <2>1. Named
    BY DEF Runs
  <2>2. \A n \in Numbers : slots[n] # c
    BY <2>1, <1>1, Names DEF Named, Live
  <2>3. ASSUME NEW n \in Numbers, slots[n] # None
        PROVE  number'[slots[n]] = n /\ stage'[slots[n]] \in Live \cup {"added"}
    BY <2>1, <2>2, <2>3, <1>2, <1>5 DEF Named, Typed
  <2>4. ASSUME NEW d \in Conns, stage'[d] \in Live \cup {"accepted", "added", "cancelled"}
        PROVE  number'[d] # None
    <3>1. d # c
      BY <2>4, <1>5 DEF Live
    <3> QED BY <2>1, <2>4, <3>1, <1>5 DEF Named
  <2>5. ASSUME NEW d \in Conns, NEW e \in Conns, number'[d] = number'[e], number'[d] # None
        PROVE  d = e
    BY <2>1, <2>5, <1>5 DEF Named
  <2>6. \A d \in Conns, a \in AcceptOps : number'[d] = socketOf[a] => number'[d] = None
    BY <2>1, <1>5 DEF Named
  <2>7. \A a, b \in AcceptOps : socketOf[a] = socketOf[b] /\ socketOf[a] # None => a = b
    BY <2>1 DEF Named
  <2> QED BY <2>3, <2>4, <2>5, <2>6, <2>7 DEF Named
<1> HIDE DEF lists, peers, data, out
<1>12. /\ based' = based /\ port' = port /\ backlog' = backlog /\ socketOf' = socketOf
       /\ over' = over /\ kernel' = kernel /\ agenda' = agenda
  BY <1>1 DEF lists, peers
<1>13. ReadOp(c) \in ConnOps /\ ReadOp(c).of = c
  BY OpKinds DEF ConnOps
<1>14. Does(c, ReadOp(c))
  BY <1>1, <1>5, <1>6, <1>7, <1>8, <1>9, <1>10, <1>12, <1>13 DEF Does
<1>15. ASSUME NEW op \in kernel' PROVE InKernel(op)'
  <2>1. op \in Ops /\ InKernel(op)
    BY <1>2, <1>12 DEF Runs, Typed
  <2>2. CASE op \in AcceptOps
    BY <2>1, <2>2, <1>12 DEF InKernel, Has
  <2> QED BY <2>1, <2>2, <1>7, KernelKept, Kinds
<1>16. ASSUME NEW l \in Loops, NEW p \in Good(l)' PROVE InPort(l, p)'
  <2>1. p \in Good(l) /\ InPort(l, p) /\ p \in Packets /\ p.op \in Ops /\ p.op \notin kernel'
    BY <1>2, <1>12, GoodPackets DEF Runs, Good, InPort
  <2>2. CASE p.op \in AcceptOps
    <3>1. \A d \in Conns : Announces(p, d) =>
              stage'[d] = "waiting" /\ \A i \in DOMAIN backlog' : backlog'[i] # d
      BY <1>1, <1>5, <1>12 DEF Announces
    <3> QED BY <2>1, <2>2, <3>1, <1>12, AnnounceKept DEF Has
  <2>3. CASE p.op \notin AcceptOps
    <3>1. PICK d \in Conns : d = p.op.of /\ p.op \in ConnOps
      BY <2>1, <2>3, Kinds
    <3>2. Answers(p, d) /\ \A e \in Conns : number'[e] \in {number[e], None}
      BY <2>1, <2>3, <3>1, <1>5 DEF InPort
    <3>3. p.key # None
      BY <3>2, Names DEF Answers
    <3>4. ASSUME stage'[d] = "gone", based, NEW e \in Conns PROVE number'[e] # p.key
      <4>1. CASE d = c
        <5>1. p.key = number[c]
          BY <4>1, <3>2, <1>1 DEF Answers
        <5>2. number[e] = number[c] => e = c
          BY <5>1, <3>3 DEF Runs, Named
        <5> QED BY <5>1, <5>2, <3>3, <1>5
      <4>2. CASE d # c
        <5>1. number[e] # p.key
          BY <4>2, <3>4, <3>2, <1>5 DEF Answers
        <5> QED BY <5>1, <3>2, <3>3
      <4> QED BY <4>1, <4>2
    <3>5. stage'[d] \in Live \cup {"cancelled"} =>
              stage[d] \in Early \cup Live \cup {"cancelled"} /\ number'[d] = number[d]
      BY <1>5 DEF Live
    <3>6. stage'[d] = "gone" /\ based => \A e \in Conns : number'[e] # p.key
      BY <3>4
    <3> QED BY <2>1, <3>1, <3>5, <3>6, <1>2, <1>7, <1>12, PacketKept
  <2> QED BY <2>2, <2>3
<1>17. \A k \in Loops : Planned(k)'
  BY <1>4, <1>6, <1>12, <1>14, Around
<1> QED BY <1>4, <1>11, <1>14, <1>15, <1>16, <1>17, Around DEF Runs

\* The part of Message that does not send.
LEMMA SilentStep ==
    ASSUME Runs, NEW l \in Loops, Doing(l, "message"), Goes(l, Tail(agenda[l])),
           UNCHANGED <<based, conns, lists, kernel, port, socketOf, peers, data>>
    PROVE  Runs'
<1>1. Typed /\ agenda[l] # <<>>
  BY DEF Runs, Doing
<1>2. PICK c \in Conns : c = Head(agenda[l]).of /\ l = LoopOf(c)
  BY FirstStep, StepKinds DEF Doing, ToDo
<1> USE DEF conns, lists, peers, data, out
<1>3. PICK todo \in Seq(Steps) : todo = Tail(agenda[l])
  BY <1>1, HeadTailFacts DEF Typed
<1>4. agenda' = [agenda EXCEPT ![l] = todo]
  BY <1>3 DEF Goes
<1>5. Typed'
  BY <1>1, <1>4 DEF Typed
<1>6. \A d \in Conns : SameBytes(d) /\ Alike(d)
  BY DEF Alike, SameBytes
<1>7. \A op \in ConnOps : op.of = c => Kept(op)
  BY <1>6, AlikeOps
<1>8. Listed(c)'
  BY <1>6, AlikeListed DEF Runs
<1>9. \A op \in toFree' : op.of = c => Freed(op)'
  BY DEF Runs, Freed
<1>10. AcceptOps \subseteq heap'
  BY DEF Runs, ListenerListed
<1>11. Named'
  BY <1>1, NamedKept DEF Runs
<1> HIDE DEF conns, lists, peers, data, out
<1>12. /\ based' = based /\ port' = port /\ backlog' = backlog /\ socketOf' = socketOf
       /\ over' = over /\ kernel' = kernel /\ stage' = stage /\ number' = number
       /\ agenda'[l] = todo /\ \A k \in Loops : k # l => agenda'[k] = agenda[k]
       /\ readBuf' = readBuf /\ taken' = taken
  BY <1>1, <1>4 DEF conns, peers, lists, data, Typed
<1>13. ReadOp(c) \in ConnOps /\ ReadOp(c).of = c
  BY OpKinds DEF ConnOps
<1>14. Does(c, ReadOp(c))
  BY <1>6, <1>7, <1>8, <1>9, <1>10, <1>12, <1>13 DEF Does
<1>15. Planned(l)'
  <2>1. \A op : (Returned(op) => Returned(op)') /\ \A x : (Has(x, op)' <=> Has(x, op))
    BY <1>12 DEF Returned, Good, Has
  <2>2. \A d \in Conns : ToRead(d) => ToRead(d)'
    BY <2>1, <1>12 DEF ToRead
  <2>3. \A i \in DOMAIN todo : ToDo(l, todo[i], i, Len(todo))'
    BY <2>1, <2>2, <1>1, <1>3, <1>12, TailKept
  <2> QED BY <2>3, <1>12, GoesOn
<1> QED BY <1>2, <1>5, <1>11, <1>12, <1>14, <1>15, AroundRuns

\* A send, whatever remains to be done after it.
LEMMA SendStep ==
    ASSUME Runs, NEW l \in Loops, NEW c \in Conns, l = LoopOf(c), stage[c] \notin Early,
           NEW todo \in Seq(Steps), Send(l, c, todo),
           \A i \in DOMAIN todo :
              ToDo(l, todo[i], i, Len(todo))' /\ ToDo(l, todo[i], i + 1, Len(todo) + 1)'
    PROVE  Runs'
<1>1. /\ Typed /\ posts[c] \in Nat /\ writing[c] \in BOOLEAN
      /\ posts \in [Conns -> Nat] /\ sendBuf \in [Conns -> Int]
  BY DEF Runs, Typed
<1>2. /\ UNCHANGED <<based, conns, over, none, toFree, kernel, port, socketOf, peers, taken,
                     readBuf>>
      /\ writing' = [writing EXCEPT ![c] = TRUE]
  BY DEF Send
<1> USE <1>2 DEF conns, peers
<1>3. PICK w \in WriteOps : w = WriteOp(c, posts[c] + 1)
  BY <1>1, OpKinds
<1>4. w.of = c /\ w.kind = "write" /\ w.nth = posts[c] + 1 /\ w \in Ops /\ w \in ConnOps
  BY <1>1, <1>3, OpKinds DEF Ops, ConnOps
<1>5. \/ /\ writing[c]
         /\ posts' = posts /\ heap' = heap /\ agenda' = [agenda EXCEPT ![l] = todo]
      \/ /\ ~writing[c]
         /\ posts' = [posts EXCEPT ![c] = posts[c] + 1] /\ heap' = heap \cup {w}
         /\ agenda' = [agenda EXCEPT ![l] = <<Step("send", w)>> \o todo]
  <2>1. CASE writing[c]
    BY <2>1 DEF Send, Goes
  <2>2. CASE ~writing[c]
    <3>1. posts' = [posts EXCEPT ![c] = posts[c] + 1]
      BY <2>2 DEF Send
    <3>2. posts'[c] = posts[c] + 1
      BY <3>1, <1>1 DEF Typed
    <3> QED BY <2>2, <3>1, <3>2, <1>3 DEF Send, Goes
  <2> QED BY <2>1, <2>2
<1>6. /\ writing'[c] = TRUE /\ \A d \in Conns : d # c => writing'[d] = writing[d] /\ posts'[d] = posts[d]
      /\ posts'[c] \in Nat
      /\ (writing[c] /\ posts'[c] = posts[c]) \/ (~writing[c] /\ posts'[c] = posts[c] + 1)
      /\ heap \subseteq heap' /\ heap' \subseteq heap \cup {w}
  BY <1>1, <1>5 DEF Typed
<1>7. PICK t \in Seq(Steps) : t = <<Step("send", w)>> \o todo
  <2>1. Step("send", w) \in Steps
    BY StepMade
  <2>2. <<Step("send", w)>> \in Seq(Steps)
    BY <2>1
  <2> QED BY <2>2, ConcatProperties
<1>8. Typed'
  <2>1. posts' \in [Conns -> Nat]
    BY <1>1, <1>5
  <2>4. sendBuf' \in [Conns -> Int] /\ posted' = posted
    <3>1. sendBuf' = [sendBuf EXCEPT ![c] = sendBuf[c] + 1] /\ posted' = posted
      BY DEF Send
    <3>2. sendBuf[c] + 1 \in Int
      BY <1>1
    <3> QED BY <3>1, <3>2, <1>1
  <2>2. agenda' \in [Loops -> Seq(Steps)]
    BY <1>1, <1>5, <1>7 DEF Typed
  <2>3. writing' \in [Conns -> BOOLEAN] /\ heap' \subseteq Ops
    BY <1>1, <1>4, <1>6 DEF Typed
  <2> QED BY <1>1, <2>1, <2>2, <2>3, <2>4 DEF Typed
<1>9. \A d \in Conns : SameBytes(d) /\ (d # c => Alike(d))
  BY <1>4, <1>6 DEF SameBytes, Alike
<1>10. ASSUME NEW op \in ConnOps, op.of = c PROVE Kept(op)
  <2>1. Found(op) => Found(op)'
    <3>1. Current(op) => Current(op)'
      BY <1>6, <1>10 DEF Current
    <3> QED BY <3>1, <1>6 DEF Found, Has
  <2>2. op.kind = "write" /\ op.nth <= posts[c] => op.nth <= posts'[c]
    <3>1. op.kind = "write" => op.nth \in Nat
      BY OpKinds DEF ConnOps
    <3> QED BY <3>1, <1>1, <1>6
  <2> QED BY <2>1, <2>2, <1>9, <1>10 DEF Kept
<1>11. Listed(c)'
  <2>1. Listed(c)
    BY DEF Runs
  <2>2. \A op \in WriteOps : op.nth <= posts[c] => op.nth <= posts'[c]
    BY <1>1, <1>6, OpKinds
  <2> QED BY <2>1, <2>2, <1>6 DEF Listed, Has
<1>12. ASSUME NEW op \in toFree', op.of = c PROVE Freed(op)'
  <2>1. Freed(op) /\ op.nth \in Nat
    BY <1>1, OpKinds DEF Runs, Typed
  <2> QED BY <2>1, <1>1, <1>6, <1>12 DEF Freed
<1>13. AcceptOps \subseteq heap'
  BY <1>6 DEF Runs, ListenerListed
<1>14. Named'
  BY <1>1, NamedKept DEF Runs
<1> HIDE DEF conns, peers
<1>15. /\ based' = based /\ port' = port /\ backlog' = backlog /\ socketOf' = socketOf
       /\ over' = over /\ kernel' = kernel /\ stage' = stage /\ number' = number
       /\ none' = none /\ toFree' = toFree
       /\ \A k \in Loops : k # l => agenda'[k] = agenda[k]
  BY <1>1, <1>2, <1>5 DEF conns, peers, Typed
<1>16. Does(c, w)
  BY <1>4, <1>9, <1>10, <1>11, <1>12, <1>13, <1>15 DEF Does
<1>17. Planned(l)'
  <2>1. CASE writing[c]
    <3>1. agenda'[l] = todo
      BY <2>1, <1>1, <1>5 DEF Typed
    <3> QED BY <3>1, GoesOn
  <2>2. CASE ~writing[c]
    <3>1. agenda'[l] = t /\ posts'[c] = posts[c] + 1
      BY <2>2, <1>1, <1>5, <1>6, <1>7 DEF Typed
    <3>2. ~(w.nth <= posts[c])
      BY <1>1, <1>4
    <3>3. Returned(w)
      BY <3>2, <1>4, Pends
    <3>4. Returned(w)'
      BY <3>3, <1>15 DEF Returned, Good
    <3>5. stage[c] \in Live => ~Has(c, w)
      BY <3>2, <1>3 DEF Runs, Listed
    <3>6. w \notin toFree
      BY <3>2, <1>4 DEF Runs, Freed
    <3>7. Current(w)' /\ w \in heap'
      BY <2>2, <3>1, <1>4, <1>5, <1>6 DEF Current
    <3>8. (LoopOf(w.of) = l)' /\ w.nth <= posts'[c]
      BY <1>4, <1>15, <3>1, <1>1 DEF LoopOf
    <3>9. ToDo(l, Step("send", w), 1, Len(todo) + 1)'
      BY <3>4, <3>5, <3>6, <3>7, <3>8, <1>4, <1>15, StepMade DEF ToDo, Has
    <3>10. Step("send", w) \in Steps
      BY StepMade
    <3> QED BY <3>1, <3>9, <3>10, <1>7, StepBefore
  <2> QED BY <2>1, <2>2
<1> QED BY <1>8, <1>14, <1>15, <1>16, <1>17, AroundRuns

LEMMA SendTaskStep ==
    ASSUME Runs, NEW l \in Loops, SendTask(l)
    PROVE  Runs'
<1>1. PICK c \in Conns : stage[c] \in {"up", "closing"} /\ l = LoopOf(c) /\ Send(l, c, <<>>)
  BY DEF SendTask
<1>2. PICK todo \in Seq(Steps) : todo = <<>>
  BY EmptySeq
<1>3. DOMAIN todo = {}
  BY <1>2
<1>4. stage[c] \notin Early
  BY <1>1 DEF Early
<1>5. Send(l, c, todo)
  BY <1>1, <1>2
<1> QED BY <1>1, <1>3, <1>4, <1>5, SendStep

LEMMA MessageStep ==
    ASSUME Runs, NEW l \in Loops, Message(l)
    PROVE  Runs'
<1>1. Doing(l, "message") /\ agenda[l] # <<>>
  BY DEF Message, Doing
<1>2. PICK c \in Conns : c = Head(agenda[l]).of /\ l = LoopOf(c) /\ stage[c] \notin Early
  BY <1>1, FirstStep, StepKinds DEF Doing, ToDo
<1>3. PICK todo : todo = Tail(agenda[l])
  OBVIOUS
<1>4. CASE Send(l, c, todo)
  <2>1. UNCHANGED <<based, conns, over, none, toFree, kernel, port, socketOf, peers, taken, readBuf>>
    BY <1>4 DEF Send
  <2>2. \A op : (Returned(op) => Returned(op)') /\ \A x : (Has(x, op)' <=> Has(x, op))
    BY <2>1 DEF Returned, Good, Has
  <2>3. \A d \in Conns : ToRead(d) => ToRead(d)'
    BY <2>1, <2>2 DEF ToRead, conns
  <2>4. stage' = stage /\ based' = based
    BY <2>1 DEF conns
  <2>5. /\ todo \in Seq(Steps)
        /\ \A i \in DOMAIN todo :
              ToDo(l, todo[i], i, Len(todo))' /\ ToDo(l, todo[i], i + 1, Len(todo) + 1)'
    BY <2>2, <2>3, <2>4, <1>1, <1>3, TailKept
  <2> QED BY <2>5, <1>2, <1>4, SendStep
<1>5. CASE ~Send(l, c, todo)
  <2>1. /\ Goes(l, Tail(agenda[l]))
        /\ UNCHANGED <<based, conns, lists, kernel, port, socketOf, peers, data>>
    BY <1>2, <1>3, <1>5 DEF Message
  <2> QED BY <2>1, <1>1, SilentStep
<1> QED BY <1>4, <1>5

-----------------------------------------------------------------------------
(* The handlers, step by step.                                             *)

\* An operation is posted on a connection that is established.
LEMMA PostStep ==
    ASSUME Runs, Running', NEW l \in Loops, NEW c \in Conns, l = LoopOf(c), stage[c] \notin Early,
           NEW o \in ConnOps, o.of = c, Returned(o),
           NEW more \in Seq(Steps), Post(l, o, more),
           UNCHANGED <<based, conns, heap, toFree, port, socketOf, peers, taken, readBuf,
                       posts, writing>>,
           sendBuf' \in [Conns -> Int], posted' \in [Conns -> Int],
           stage[c] \in Live => ~Has(c, o) /\ o \in heap \ toFree /\ Current(o),
           o.kind = "read" => Len(readBuf[c]) = taken[c],
           o.kind = "write" => o.nth <= posts[c],
           \A i \in DOMAIN more :
              ToDo(l, more[i], i, Len(more))' /\ ToDo(l, more[i], i + 1, Len(more) + 1)'
    PROVE  Runs'
<1> USE DEF conns, peers
<1>1. Typed /\ o \in Ops /\ o \notin AcceptOps
  BY Kinds DEF Runs, ConnOps
<1>2. /\ AddOver(o)
      /\ \/ kernel' = kernel \cup {o} /\ none' = none \ {o} /\ agenda' = [agenda EXCEPT ![l] = more]
         \/ /\ kernel' = kernel /\ none' = none \cup {o}
            /\ agenda' = [agenda EXCEPT ![l] = <<Step("close", c)>> \o more]
  BY DEF Post, Fails, Goes, Running
<1>3. PICK s : s = Step("close", c)
  OBVIOUS
<1>4. s \in Steps /\ s.do = "close" /\ s.of = c
  BY <1>3, StepMade
<1>5. PICK t \in Seq(Steps) : t = <<s>> \o more
  <2>1. <<s>> \in Seq(Steps)
    BY <1>4
  <2> QED BY <2>1, ConcatProperties
<1>6. /\ over' \in [Conns \cup {Listener} -> Seq(Ops)]
      /\ \A x \in Conns \cup {Listener} : x # c => over'[x] = over[x]
      /\ IsInjective(over[c]) /\ ~Has(c, o) => IsInjective(over'[c])
      /\ \A a : Has(c, a)' => Has(c, a) \/ a = o
      /\ \A a : Has(c, a) \/ a = o => Has(c, a)'
  BY <1>1, <1>2, AddedOver
<1>7. Typed'
  <2>1. agenda' \in [Loops -> Seq(Steps)]
    BY <1>1, <1>2, <1>3, <1>5 DEF Typed
  <2>2. kernel' \subseteq Ops /\ none' \subseteq ConnOps
    BY <1>1, <1>2 DEF Typed
  <2> QED BY <1>1, <1>6, <2>1, <2>2 DEF Typed
<1>8. \A d \in Conns : SameBytes(d) /\ (d # c => Alike(d))
  BY <1>2, <1>6 DEF SameBytes, Alike
<1>9. ASSUME NEW op \in ConnOps, op.of = c, ~Returned(op) PROVE Kept(op)
  <2>1. op # o
    BY <1>9
  <2>2. Found(op) => Found(op)'
    BY <1>2, <1>6, <1>9, <2>1 DEF Found, Current
  <2> QED BY <2>2, <1>8, <1>9 DEF Kept
<1>10. Listed(c)'
  <2>1. Listed(c)
    BY DEF Runs
  <2>2. (stage[c] \in Live /\ o.kind = "write") => o.nth <= posts[c]
    OBVIOUS
  <2>3. o \in WriteOps => o.kind = "write"
    BY OpKinds
  <2> QED BY <1>6, <2>1, <2>2, <2>3 DEF Listed
<1>11. \A op \in toFree' : op.of = c => Freed(op)'
  BY DEF Runs, Freed
<1>12. AcceptOps \subseteq heap'
  BY DEF Runs, ListenerListed
<1>13. Named'
  BY <1>1, NamedKept DEF Runs
<1>14. kernel' = kernel \/ (kernel' = kernel \cup {o} /\ InKernel(o)')
  <2>1. CASE none' = none \ {o}
    <3>1. stage[c] \in Live => Found(o)'
      BY <2>1, <1>6 DEF Found, Current
    <3>2. InKernel(o)'
      BY <3>1, <1>1 DEF InKernel
    <3> QED BY <3>2, <1>2
  <2>2. CASE none' # none \ {o}
    BY <2>2, <1>2
  <2> QED BY <2>1, <2>2
<1> HIDE DEF conns, peers
<1>15. /\ based' = based /\ port' = port /\ backlog' = backlog /\ socketOf' = socketOf
       /\ over'[Listener] = over[Listener] /\ stage' = stage /\ number' = number
       /\ \A k \in Loops : k # l => agenda'[k] = agenda[k]
  BY <1>1, <1>2, <1>6, Names DEF conns, peers, Typed
<1>16. Does(c, o)
  BY <1>8, <1>9, <1>10, <1>11, <1>12, <1>14, <1>15 DEF Does
<1>17. Planned(l)'
  <2>1. CASE agenda' = [agenda EXCEPT ![l] = more]
    <3>1. agenda'[l] = more
      BY <2>1, <1>1 DEF Typed
    <3> QED BY <3>1, GoesOn
  <2>2. CASE agenda' = [agenda EXCEPT ![l] = <<Step("close", c)>> \o more]
    <3>1. agenda'[l] = t
      BY <2>2, <1>1, <1>3, <1>5 DEF Typed
    <3>2. ToDo(l, s, 1, Len(more) + 1)'
      BY <1>4, <1>15 DEF ToDo, LoopOf
    <3> QED BY <3>1, <3>2, <1>4, <1>5, StepBefore
  <2> QED BY <2>1, <2>2, <1>2
<1> QED BY <1>7, <1>13, <1>15, <1>16, <1>17, AroundRuns

LEMMA PostRecvStep ==
    ASSUME Runs, Running', NEW l \in Loops, PostRecv(l)
    PROVE  Runs'
<1>1. Doing(l, "recv") /\ agenda[l] # <<>> /\ agenda[l] \in Seq(Steps) /\ Typed
  BY DEF PostRecv, Doing, Runs, Typed
<1>2. PICK c \in Conns : c = Head(agenda[l]).of
  BY <1>1, FirstStep, StepKinds DEF Doing
<1>3. PICK s \in Steps : s = Head(agenda[l]) /\ ToDo(l, s, 1, Len(agenda[l]))
  BY <1>1, FirstStep
<1>4. /\ l = LoopOf(c) /\ Len(agenda[l]) = 1 /\ ToRead(c)
      /\ stage[c] \in Live => ~Has(c, ReadOp(c))
  BY <1>1, <1>2, <1>3 DEF Doing, ToDo
<1>5. PICK more \in Seq(Steps) : more = Tail(agenda[l])
  BY <1>1, HeadTailFacts
<1>6. DOMAIN more = {}
  BY <1>1, <1>4, <1>5, HeadTailFacts
<1>7. ReadOp(c) \in ConnOps /\ ReadOp(c).of = c /\ ReadOp(c).kind = "read" /\ ReadOp(c) \notin WriteOps
  BY OpKinds DEF ConnOps
<1>8. stage[c] \in Live => ReadOp(c) \in heap \ toFree /\ Current(ReadOp(c))
  BY <1>1, <1>7 DEF Runs, Listed, Typed, Current
<1>9. Post(l, ReadOp(c), more)
  BY <1>2, <1>5 DEF PostRecv
<1>10. UNCHANGED <<based, conns, heap, toFree, port, socketOf, peers, taken, readBuf, posts, writing>>
  BY DEF PostRecv, data, out
<1>11. sendBuf' \in [Conns -> Int] /\ posted' \in [Conns -> Int]
  BY <1>1 DEF PostRecv, data, out, Typed
<1> QED BY <1>4, <1>6, <1>7, <1>8, <1>9, <1>10, <1>11, PostStep DEF ToRead

LEMMA PostSendStep ==
    ASSUME Runs, Running', NEW l \in Loops, PostSend(l)
    PROVE  Runs'
<1>1. Doing(l, "send") /\ agenda[l] # <<>> /\ Typed
  BY DEF PostSend, Doing, Runs
<1>2. PICK w \in WriteOps : w = Head(agenda[l]).of
  BY <1>1, FirstStep, StepKinds DEF Doing
<1>3. PICK s \in Steps : s = Head(agenda[l]) /\ ToDo(l, s, 1, Len(agenda[l]))
  BY <1>1, FirstStep
<1>4. PICK c \in Conns : c = w.of
  BY OpKinds
<1>5. /\ l = LoopOf(c) /\ Returned(w) /\ stage[c] \notin Early /\ w.nth <= posts[c]
      /\ stage[c] \in Live => ~Has(c, w) /\ Current(w) /\ w \in heap \ toFree
  BY <1>1, <1>2, <1>3, <1>4 DEF Doing, ToDo
<1>6. w \in ConnOps /\ w \in Ops /\ w.kind = "write" /\ w \notin AcceptOps
  BY OpKinds DEF ConnOps, Ops
<1>7. PICK more : more = Tail(agenda[l])
  OBVIOUS
<1>8. Post(l, w, more)
  BY <1>2, <1>7 DEF PostSend
<1>9. UNCHANGED <<based, conns, heap, toFree, port, socketOf, peers, taken, readBuf, posts, writing>>
  BY <1>2 DEF PostSend
<1>10. AddOver(w) /\ (kernel' = kernel \/ kernel' = kernel \cup {w})
  BY <1>8 DEF Post, Fails, Running
<1>11. \A op : op # w /\ Returned(op) => Returned(op)'
  BY <1>9, <1>10 DEF Returned, Good
<1>12. ASSUME NEW x \in Conns \cup {Listener}, NEW op, op # w, Has(x, op)' PROVE Has(x, op)
  <2>1. CASE x = c
    BY <2>1, <1>1, <1>4, <1>6, <1>10, <1>12, AddedOver
  <2>2. CASE x # c
    <3>1. over'[x] = over[x]
      BY <2>2, <1>1, <1>4, <1>6, <1>10, AddedOver
    <3> QED BY <3>1, <1>12 DEF Has
  <2> QED BY <2>1, <2>2
<1>13. \A d \in Conns : ReadOp(d) # w
  BY <1>6, OpKinds
<1>14. /\ more \in Seq(Steps)
       /\ \A i \in DOMAIN more :
             ToDo(l, more[i], i, Len(more))' /\ ToDo(l, more[i], i + 1, Len(more) + 1)'
  <2>1. \A d \in Conns : ToRead(d) => ToRead(d)' /\ (Has(d, ReadOp(d))' => Has(d, ReadOp(d)))
    BY <1>9, <1>11, <1>12, <1>13 DEF ToRead, conns
  <2>2. \A a \in AcceptOps : Returned(a) /\ ~Has(Listener, a) => Returned(a)' /\ ~Has(Listener, a)'
    BY <1>6, <1>11, <1>12
  <2>3. stage' = stage /\ based' = based
    BY <1>9 DEF conns
  <2> QED BY <2>1, <2>2, <2>3, <1>1, <1>7, TailKept
<1>15. sendBuf' \in [Conns -> Int] /\ posted' \in [Conns -> Int]
  <2>1. sendBuf' = sendBuf /\ posted' = [posted EXCEPT ![c] = sendBuf[c]]
    BY <1>2, <1>4 DEF PostSend
  <2> QED BY <2>1, <1>1 DEF Typed
<1> QED BY <1>4, <1>5, <1>6, <1>8, <1>9, <1>14, <1>15, PostStep

\* The bytes of a read behind those of the reads before.
LEMMA BytesFollow ==
    ASSUME NEW s \in Seq(Nat), NEW n \in Nat, NEW t, t = [i \in 1 .. n |-> Len(s) + i]
    PROVE  /\ t \in Seq(Nat) /\ Len(t) = n
           /\ s \o t \in Seq(Nat) /\ Len(s \o t) = Len(s) + n
           /\ s = [i \in 1 .. Len(s) |-> i] => s \o t = [i \in 1 .. Len(s \o t) |-> i]
<1>1. Len(s) \in Nat /\ DOMAIN s = 1 .. Len(s)
  OBVIOUS
<1>2. \A i \in 1 .. n : Len(s) + i \in Nat
  BY <1>1
<1>3. t \in [1 .. n -> Nat]
  BY <1>2
<1>4. t \in Seq(Nat)
  BY <1>3, SeqDef
<1>5. DOMAIN t = 1 .. n
  OBVIOUS
<1>6. Len(t) = n
  BY <1>4, <1>5, LenProperties
<1>7. /\ s \o t \in Seq(Nat) /\ Len(s \o t) = Len(s) + n
      /\ \A i \in 1 .. Len(s) + n : (s \o t)[i] = IF i <= Len(s) THEN s[i] ELSE t[i - Len(s)]
  BY <1>4, <1>6, ConcatProperties
<1>8. ASSUME s = [i \in 1 .. Len(s) |-> i]
      PROVE  s \o t = [i \in 1 .. Len(s) + n |-> i]
  <2>1. ASSUME NEW i \in 1 .. Len(s) + n PROVE (s \o t)[i] = i
    <3>1. CASE i <= Len(s)
      <4>1. i \in 1 .. Len(s)
        BY <3>1, <1>1
      <4>2. s[i] = i
        BY <4>1, <1>8
      <4> QED BY <4>2, <3>1, <1>7
    <3>2. CASE ~(i <= Len(s))
      <4>1. i - Len(s) \in 1 .. n
        BY <3>2, <1>1
      <4>2. t[i - Len(s)] = Len(s) + (i - Len(s))
        BY <4>1
      <4>3. Len(s) + (i - Len(s)) = i
        BY <1>1
      <4> QED BY <4>2, <4>3, <3>2, <1>7
    <3> QED BY <3>1, <3>2
  <2>2. DOMAIN (s \o t) = 1 .. Len(s) + n
    BY <1>7, LenProperties
  <2>3. s \o t = [i \in DOMAIN (s \o t) |-> (s \o t)[i]]
    BY <1>7, SeqDef
  <2> QED BY <2>1, <2>2, <2>3
<1> QED BY <1>4, <1>6, <1>7, <1>8

LEMMA ExtraReadStep ==
    ASSUME Runs, Gapless, NEW l \in Loops, ExtraRead(l)
    PROVE  Runs' /\ Gapless'
<1>1. Doing(l, "extra") /\ agenda[l] # <<>> /\ Typed
  BY DEF ExtraRead, Doing, Runs
<1>2. PICK c \in Conns : c = Head(agenda[l]).of /\ l = LoopOf(c) /\ ToRead(c)
  BY <1>1, FirstStep, StepKinds DEF Doing, ToDo
<1>3. UNCHANGED <<based, conns, lists, kernel, port, socketOf, peers, out, failed>>
  BY DEF ExtraRead
<1> USE <1>3 DEF conns, lists, peers, out
<1>4. PICK n \in Nat : n = sent[c] - taken[c]
  <2>1. sent[c] \in Nat /\ taken[c] \in Nat /\ taken[c] <= sent[c]
    BY <1>1 DEF Typed
  <2>2. sent[c] - taken[c] \in Nat
    BY <2>1
  <2> QED BY <2>2
<1>5. PICK b : b = [i \in 1 .. n |-> taken[c] + i]
  OBVIOUS
<1>6. PICK s \in Seq(Nat) : s = readBuf[c]
  BY <1>1 DEF Typed
<1>7. taken[c] = Len(s) /\ stage[c] \notin Early /\ Returned(ReadOp(c))
  BY <1>2, <1>6 DEF ToRead
<1>28. b = [i \in 1 .. n |-> Len(s) + i]
  BY <1>5, <1>7
<1>8. PICK t \in Seq(Nat) : t = s \o b
  BY <1>28, BytesFollow
<1>9. /\ Len(t) = Len(s) + n
      /\ s = [i \in 1 .. Len(s) |-> i] => t = [i \in 1 .. Len(t) |-> i]
  BY <1>28, <1>8, BytesFollow
<1>10. PICK close : close = Step("close", c)
  OBVIOUS
<1>11. close \in Steps /\ close.do = "close" /\ close.of = c
  BY <1>10, StepMade
<1>12. PICK ending \in Seq(Steps) : ending = <<close>>
  <2>1. <<close>> \in Seq(Steps)
    BY <1>11
  <2> QED BY <2>1
<1>13. PICK more \in Seq(Steps) : more = Tail(agenda[l])
  BY <1>1, HeadTailFacts DEF Typed
<1>14. \/ /\ taken' = taken /\ readBuf' = readBuf /\ agenda' = [agenda EXCEPT ![l] = ending]
       \/ /\ taken' = [taken EXCEPT ![c] = taken[c] + n] /\ readBuf' = [readBuf EXCEPT ![c] = t]
          /\ agenda' = [agenda EXCEPT ![l] = more]
  BY <1>2, <1>4, <1>5, <1>6, <1>8, <1>10, <1>12, <1>13 DEF ExtraRead, Goes
<1>15. /\ \A d \in Conns : d # c => SameBytes(d)
       /\ Len(readBuf'[c]) = taken'[c]
       /\ taken' \in [Conns -> Nat] /\ readBuf' \in [Conns -> Seq(Nat)]
       /\ taken'[c] <= sent[c]
  <2>1. taken[c] \in Nat /\ sent[c] \in Nat /\ taken[c] + n \in Nat /\ taken[c] + n <= sent[c]
        /\ taken[c] <= sent[c]
    BY <1>1, <1>4 DEF Typed
  <2>2. CASE taken' = taken /\ readBuf' = readBuf
    BY <2>1, <2>2, <1>1, <1>6, <1>7 DEF Typed, SameBytes
  <2>3. CASE taken' = [taken EXCEPT ![c] = taken[c] + n] /\ readBuf' = [readBuf EXCEPT ![c] = t]
    BY <2>1, <2>3, <1>1, <1>7, <1>9 DEF Typed, SameBytes
  <2> QED BY <2>2, <2>3, <1>14
<1>16. Typed'
  <2>1. \A d \in Conns : taken'[d] <= sent[d]
    BY <1>1, <1>15 DEF Typed, SameBytes
  <2>2. agenda' \in [Loops -> Seq(Steps)]
    BY <1>1, <1>14 DEF Typed
  <2> QED BY <1>1, <1>15, <2>1, <2>2 DEF Typed
<1>17. Gapless'
  <2>1. CASE readBuf' = readBuf
    BY <2>1 DEF Gapless
  <2>2. CASE readBuf' = [readBuf EXCEPT ![c] = t]
    <3>1. readBuf'[c] = t /\ \A d \in Conns : d # c => readBuf'[d] = readBuf[d]
      BY <2>2, <1>1 DEF Typed
    <3>2. t = [i \in 1 .. Len(t) |-> i]
      BY <1>6, <1>9 DEF Gapless
    <3> QED BY <3>1, <3>2 DEF Gapless
  <2> QED BY <2>1, <2>2, <1>14
<1>18. \A d \in Conns : Alike(d)
  BY DEF Alike
<1>19. ReadOp(c) \in ConnOps /\ ReadOp(c).of = c
  BY OpKinds DEF ConnOps
<1>20. ASSUME NEW op \in ConnOps, op.of = c, ~Returned(op) PROVE Kept(op)
  <2>1. op.kind # "read"
    BY <1>7, <1>20, Kinds
  <2> QED BY <2>1, <1>18, AlikeOps, Kinds
<1>21. Listed(c)'
  BY <1>7, <1>18, AlikeListed DEF Runs
<1>22. \A op \in toFree' : op.of = c => Freed(op)'
  BY DEF Runs, Freed
<1>23. AcceptOps \subseteq heap'
  BY DEF Runs, ListenerListed
<1>24. Named'
  BY <1>1, NamedKept DEF Runs
<1> HIDE DEF conns, lists, peers, out
<1>25. /\ based' = based /\ port' = port /\ backlog' = backlog /\ socketOf' = socketOf
       /\ over' = over /\ kernel' = kernel /\ stage' = stage /\ number' = number
       /\ \A k \in Loops : k # l => agenda'[k] = agenda[k]
  BY <1>1, <1>3, <1>14 DEF conns, lists, peers, Typed
<1>26. Does(c, ReadOp(c))
  BY <1>15, <1>18, <1>19, <1>20, <1>21, <1>22, <1>23, <1>25 DEF Does
<1>27. Planned(l)'
  <2>1. \A op : (Returned(op) => Returned(op)') /\ \A x : (Has(x, op)' <=> Has(x, op))
    BY <1>25 DEF Returned, Good, Has
  <2>2. \A d \in Conns : ToRead(d) => ToRead(d)'
    BY <2>1, <1>15, <1>25 DEF ToRead, SameBytes
  <2>3. \A i \in DOMAIN more : ToDo(l, more[i], i, Len(more))'
    BY <2>1, <2>2, <1>1, <1>13, <1>25, TailKept
  <2>4. ToDo(l, close, 1, 1)' /\ DOMAIN ending = {1} /\ ending[1] = close /\ Len(ending) = 1
    BY <1>2, <1>11, <1>12, <1>25 DEF ToDo, LoopOf
  <2>5. agenda'[l] = more \/ agenda'[l] = ending
    BY <1>1, <1>14 DEF Typed
  <2>6. CASE agenda'[l] = more
    BY <2>3, <2>6, GoesOn
  <2>7. CASE agenda'[l] = ending
    BY <2>4, <2>7, GoesOn
  <2> QED BY <2>5, <2>6, <2>7
<1> QED BY <1>2, <1>16, <1>17, <1>24, <1>25, <1>26, <1>27, AroundRuns

-----------------------------------------------------------------------------
(* The end of a connection.                                                *)

\* What the end of a channel does, but for what its loop does next.
LEMMA CancelStep ==
    ASSUME Runs, NEW c \in Conns, stage[c] \in Live, ConnectDestroyed(c),
           agenda' \in [Loops -> Seq(Steps)],
           UNCHANGED <<based, number, over, none, toFree, kernel, port, socketOf, peers,
                       taken, readBuf, sendBuf, posted, posts>>
    PROVE  /\ Typed' /\ Named' /\ Does(c, ReadOp(c))
           /\ stage'[c] = "cancelled" /\ \A d \in Conns : d # c => stage'[d] = stage[d]
<1> USE DEF peers
<1>1. Typed /\ Listed(c) /\ Named
  BY DEF Runs
<1>2. stage' = [stage EXCEPT ![c] = "cancelled"] /\ writing' = [writing EXCEPT ![c] = FALSE]
  BY DEF ConnectDestroyed
<1>3. number[c] \in Numbers
  BY <1>1, Names DEF Named, Typed
<1>4. slots' = [slots EXCEPT ![number[c]] = None]
  BY DEF ConnectDestroyed
<1>5. heap' \subseteq heap /\ \A op \in heap \ heap' : op.of = c
  <2>1. CASE over[c] = <<>>
    BY <2>1 DEF ConnectDestroyed
  <2>2. CASE over[c] # <<>>
    <3>1. over[c] \in Seq(Ops) /\ Len(over[c]) \in DOMAIN over[c]
      BY <2>2, <1>1, HeadTailFacts DEF Typed
    <3>2. Last(over[c]) = over[c][Len(over[c])]
      BY DEF Last
    <3>3. Last(over[c]) \in Ops /\ Has(c, Last(over[c]))
      BY <3>1, <3>2 DEF Has
    <3>4. Last(over[c]).of = c
      BY <3>3, <1>1 DEF Listed
    <3> QED BY <2>2, <3>4 DEF ConnectDestroyed
  <2> QED BY <2>1, <2>2
<1>6. /\ stage'[c] = "cancelled" /\ writing'[c] = FALSE
      /\ \A d \in Conns : d # c => stage'[d] = stage[d] /\ writing'[d] = writing[d]
      /\ stage' \in [Conns -> Stages] /\ writing' \in [Conns -> BOOLEAN]
  BY <1>1, <1>2 DEF Typed, Stages
<1>7. Typed'
  <2>1. slots' \in [Numbers -> Conns \cup {None}]
    BY <1>1, <1>4 DEF Typed
  <2>2. heap' \subseteq Ops
    BY <1>1, <1>5 DEF Typed
  <2> QED BY <1>1, <1>6, <2>1, <2>2 DEF Typed
<1>8. Named'
  <2>1. \A n \in Numbers : slots'[n] = IF n = number[c] THEN None ELSE slots[n]
    BY <1>1, <1>4 DEF Typed
  <2>2. ASSUME NEW n \in Numbers, slots'[n] # None
        PROVE  number[slots'[n]] = n /\ stage'[slots'[n]] \in Live \cup {"added"}
    <3>1. slots'[n] = slots[n] /\ n # number[c]
      BY <2>1, <2>2
    <3>2. slots[n] \in Conns /\ number[slots[n]] = n /\ stage[slots[n]] \in Live \cup {"added"}
      BY <3>1, <2>2, <1>1 DEF Named, Typed
    <3>3. slots[n] # c
      BY <3>1, <3>2
    <3> QED BY <3>1, <3>2, <3>3, <1>6
  <2>3. ASSUME NEW d \in Conns, stage'[d] \in Live \cup {"accepted", "added", "cancelled"}
        PROVE  number[d] # None
    BY <2>3, <1>1, <1>3, <1>6, Names DEF Named
  <2> QED BY <1>1, <2>2, <2>3 DEF Named
<1>9. \A d \in Conns : SameBytes(d) /\ (d # c => Alike(d))
  BY <1>5, <1>6 DEF SameBytes, Alike
<1>10. \A op \in ConnOps : op.of = c => Kept(op)
  BY <1>6, <1>9 DEF Kept, Early, Live
<1>11. Listed(c)'
  BY <1>1, <1>6 DEF Listed, Has, Early, Live
<1>12. \A op \in toFree' : op.of = c => Freed(op)'
  BY <1>6 DEF Runs, Freed
<1>13. AcceptOps \subseteq heap'
  BY <1>5, OpKinds, Names DEF Runs, ListenerListed
<1>14. ReadOp(c) \in ConnOps /\ ReadOp(c).of = c
  BY OpKinds DEF ConnOps
<1>15. stage[c] # "waiting"
  BY DEF Live
<1>16. Does(c, ReadOp(c))
  BY <1>6, <1>9, <1>10, <1>11, <1>12, <1>13, <1>14, <1>15 DEF Does
<1> QED BY <1>6, <1>7, <1>8, <1>16

LEMMA DestroyTaskStep ==
    ASSUME Runs, NEW l \in Loops, DestroyTask(l)
    PROVE  Runs'
<1>1. PICK c \in Conns : stage[c] = "closing" /\ l = LoopOf(c) /\ ConnectDestroyed(c)
  BY DEF DestroyTask
<1>2. UNCHANGED <<based, number, over, none, toFree, kernel, port, socketOf, agenda, peers,
                  taken, readBuf, sendBuf, posted, posts>>
  BY DEF DestroyTask
<1>3. agenda' \in [Loops -> Seq(Steps)] /\ agenda[l] = <<>>
  BY <1>2 DEF Runs, Typed, DestroyTask, Idle
<1>4. stage[c] \in Live /\ stage[c] # "gone"
  BY <1>1 DEF Live
<1>5. Typed' /\ Named' /\ Does(c, ReadOp(c)) /\ stage'[c] = "cancelled"
  BY <1>1, <1>2, <1>3, <1>4, CancelStep
<1>6. Planned(l)'
  BY <1>2, <1>3 DEF Planned
<1> QED BY <1>1, <1>2, <1>4, <1>5, <1>6, AroundRuns

LEMMA CloseStep ==
    ASSUME Runs, Running', NEW l \in Loops, Close(l)
    PROVE  Runs'
<1>1. Doing(l, "close") /\ agenda[l] # <<>> /\ Typed
  BY DEF Close, Doing, Runs
<1>2. PICK c \in Conns : c = Head(agenda[l]).of /\ l = LoopOf(c)
  BY <1>1, FirstStep, StepKinds DEF Doing, ToDo
<1>3. UNCHANGED <<based, number, over, none, toFree, kernel, port, socketOf, peers, taken,
                  readBuf, sendBuf, posted, posts>>
  BY DEF Close
<1>4. PICK more \in Seq(Steps) : more = Tail(agenda[l])
  BY <1>1, HeadTailFacts DEF Typed
<1>5. /\ agenda' = [agenda EXCEPT ![l] = more]
      /\ \/ stage[c] = "up" /\ ConnectDestroyed(c)
         \/ /\ stage[c] \in {"created", "up"} /\ stage' = [stage EXCEPT ![c] = "closing"]
            /\ UNCHANGED <<slots, heap, writing>>
  BY <1>2, <1>4 DEF Close, Fails, Goes, Running
<1>6. agenda' \in [Loops -> Seq(Steps)] /\ agenda'[l] = more
      /\ \A k \in Loops : k # l => agenda'[k] = agenda[k]
  BY <1>1, <1>5 DEF Typed
<1>7. stage[c] \in Live
  BY <1>5 DEF Live
<1>8. /\ Typed' /\ Named' /\ Does(c, ReadOp(c))
      /\ stage'[c] \in {"cancelled", "closing"} /\ \A d \in Conns : d # c => stage'[d] = stage[d]
  <2>1. CASE ConnectDestroyed(c)
    BY <2>1, <1>3, <1>6, <1>7, CancelStep
  <2>2. CASE ~ConnectDestroyed(c)
    <3> USE DEF peers
    <3>1. stage' = [stage EXCEPT ![c] = "closing"] /\ UNCHANGED <<slots, heap, writing>>
      BY <2>2, <1>5
    <3>2. /\ stage' \in [Conns -> Stages] /\ stage'[c] = "closing"
          /\ \A d \in Conns : d # c => stage'[d] = stage[d]
      BY <1>1, <3>1 DEF Typed, Stages, Live
    <3>3. Typed'
      BY <1>1, <1>3, <1>6, <3>1, <3>2 DEF Typed
    <3>4. Named'
      <4>1. Named
        BY DEF Runs
      <4>2. ASSUME NEW n \in Numbers, slots[n] # None
            PROVE  number[slots[n]] = n /\ stage'[slots[n]] \in Live \cup {"added"}
        <5>1. /\ slots[n] \in Conns /\ number[slots[n]] = n
              /\ stage[slots[n]] \in Live \cup {"added"}
          BY <4>1, <4>2, <1>1 DEF Named, Typed
        <5>2. "closing" \in Live
          BY DEF Live
        <5> QED BY <5>1, <5>2, <3>2
      <4>3. ASSUME NEW d \in Conns, stage'[d] \in Live \cup {"accepted", "added", "cancelled"}
            PROVE  number[d] # None
        BY <4>1, <4>3, <3>2, <1>7 DEF Named
      <4> QED BY <4>1, <4>2, <4>3, <3>1, <1>3 DEF Named
    <3>5. \A d \in Conns : SameBytes(d) /\ (d # c => Alike(d))
      BY <1>3, <3>1, <3>2 DEF SameBytes, Alike
    <3>6. ASSUME NEW op \in ConnOps, op.of = c PROVE Kept(op)
      <4>1. Found(op) => Found(op)'
        BY <1>3, <3>1 DEF Found, Has, Current
      <4> QED BY <4>1, <1>3, <1>7, <3>2, <3>5, <3>6 DEF Kept, Early
    <3>7. Listed(c)'
      <4>1. Listed(c)
        BY DEF Runs
      <4> QED BY <4>1, <1>3, <1>7, <3>1, <3>2 DEF Listed, Has, Early
    <3>8. \A op \in toFree' : op.of = c => Freed(op)'
      BY <1>3, <3>1 DEF Runs, Freed
    <3>9. AcceptOps \subseteq heap'
      BY <3>1 DEF Runs, ListenerListed
    <3>10. ReadOp(c) \in ConnOps /\ ReadOp(c).of = c /\ stage[c] # "waiting"
      BY <1>7, OpKinds DEF ConnOps, Live
    <3>11. Does(c, ReadOp(c))
      BY <1>3, <3>2, <3>5, <3>6, <3>7, <3>8, <3>9, <3>10 DEF Does
    <3> QED BY <3>2, <3>3, <3>4, <3>11
  <2> QED BY <2>1, <2>2
<1>9. stage[c] # "gone" /\ stage'[c] # "gone" /\ stage'[c] \notin Early
  BY <1>7, <1>8 DEF Live, Early
<1>10. Planned(l)'
  <2>1. \A op : (Returned(op) => Returned(op)') /\ \A x : (Has(x, op)' <=> Has(x, op))
    BY <1>3 DEF Returned, Good, Has
  <2>2. \A d \in Conns : stage[d] \notin Early =>
            stage'[d] \notin Early /\ (stage'[d] \in Live => stage[d] \in Live)
    BY <1>7, <1>8, <1>9
  <2>3. \A d \in Conns : ToRead(d) => ToRead(d)'
    BY <2>1, <2>2, <1>3 DEF ToRead
  <2>4. \A i \in DOMAIN more : ToDo(l, more[i], i, Len(more))'
    BY <2>1, <2>2, <2>3, <1>1, <1>3, <1>4, TailKept
  <2> QED BY <2>4, <1>6, GoesOn
<1> QED BY <1>2, <1>3, <1>6, <1>8, <1>9, <1>10, AroundRuns

-----------------------------------------------------------------------------
(* The beginning of a connection.                                          *)

\* What the loop goes on with after a step of acceptInLoop, or after a task.
LEMMA BeginsOn ==
    ASSUME Runs, NEW l \in Loops, NEW c \in Conns, l = LoopOf(c),
           based => agenda[l] # <<>>, ~based => agenda[l] = <<>>,
           based' = based, port' = port, over'[Listener] = over[Listener],
           kernel' = kernel \/ kernel' = kernel \cup {ReadOp(c)},
           stage[c] \in Early,
           \A d \in Conns : d # c => Alike(d) /\ SameBytes(d) /\ stage'[d] = stage[d],
           NEW more, more = IF based THEN Tail(agenda[l]) ELSE <<>>
    PROVE  /\ more \in Seq(Steps)
           /\ \A i \in DOMAIN more :
                 ToDo(l, more[i], i, Len(more))' /\ ToDo(l, more[i], i + 1, Len(more) + 1)'
<1>1. CASE based
  <2>1. \A op : op # ReadOp(c) /\ Returned(op) => Returned(op)'
    BY DEF Returned, Good
  <2>2. ASSUME NEW d \in Conns, ToRead(d)
        PROVE  ToRead(d)' /\ (Has(d, ReadOp(d))' => Has(d, ReadOp(d)))
    <3>1. d # c
      BY <2>2 DEF ToRead
    <3>2. ReadOp(d) # ReadOp(c)
      BY <3>1, OpKinds
    <3> QED BY <3>1, <3>2, <2>1, <2>2 DEF ToRead, Alike, SameBytes, Has, Early
  <2>3. \A a \in AcceptOps : Returned(a) /\ ~Has(Listener, a) => Returned(a)' /\ ~Has(Listener, a)'
    <3>1. ReadOp(c) \notin AcceptOps
      BY OpKinds
    <3> QED BY <3>1, <2>1 DEF Has
  <2>4. \A d \in Conns : stage[d] \notin Early =>
            stage'[d] \notin Early /\ (stage'[d] \in Live => stage[d] \in Live)
    OBVIOUS
  <2> QED BY <1>1, <2>2, <2>3, <2>4, TailKept
<1>2. CASE ~based
  <2>1. more = <<>>
    BY <1>2
  <2>2. more \in Seq(Steps)
    BY <2>1, EmptySeq
  <2>3. DOMAIN more = {}
    BY <2>1
  <2> QED BY <2>2, <2>3
<1>3. based \in BOOLEAN
  BY DEF Runs, Typed
<1> QED BY <1>1, <1>2, <1>3

LEMMA AddStep ==
    ASSUME Runs, Running', NEW l \in Loops, Add(l)
    PROVE  Runs'
<1>1. PICK c \in Conns :
        /\ stage[c] = "accepted" /\ l = LoopOf(c)
        /\ IF based THEN Doing(l, "add") ELSE Idle(l)
        /\ slots' = [slots EXCEPT ![number[c]] = c]
        /\ stage' = [stage EXCEPT ![c] = "added"]
        /\ Goes(l, IF based THEN Tail(agenda[l]) ELSE <<>>)
  BY DEF Add, Fails, Running
<1>2. UNCHANGED <<based, number, lists, kernel, port, socketOf, peers, data>>
  BY DEF Add
<1> USE <1>2 DEF lists, peers, data, out
<1>3. Typed /\ Named /\ Listed(c)
  BY DEF Runs
<1>4. number[c] \in Numbers
  BY <1>1, <1>3, Names DEF Named, Typed
<1>5. /\ stage' \in [Conns -> Stages] /\ stage'[c] = "added"
      /\ \A d \in Conns : d # c => stage'[d] = stage[d]
  BY <1>1, <1>3 DEF Typed, Stages, Early
<1>6. \A d \in Conns : SameBytes(d) /\ (d # c => Alike(d))
  BY <1>5 DEF SameBytes, Alike
<1>7. stage[c] \in Early /\ stage'[c] \in Early /\ stage'[c] \notin Live
  BY <1>1, <1>5 DEF Early, Live
<1>8. PICK more : more = IF based THEN Tail(agenda[l]) ELSE <<>>
  OBVIOUS
<1>9. /\ more \in Seq(Steps)
      /\ \A i \in DOMAIN more : ToDo(l, more[i], i, Len(more))'
  BY <1>1, <1>5, <1>6, <1>7, <1>8, BeginsOn DEF Doing, Idle
<1>10. agenda' = [agenda EXCEPT ![l] = more]
  BY <1>1, <1>8 DEF Goes
<1>11. Typed'
  <2>1. agenda' \in [Loops -> Seq(Steps)]
    BY <1>3, <1>9, <1>10 DEF Typed
  <2>2. slots' \in [Numbers -> Conns \cup {None}]
    BY <1>1, <1>3 DEF Typed
  <2> QED BY <1>3, <1>5, <2>1, <2>2 DEF Typed
<1>12. Named'
  <2>1. ASSUME NEW n \in Numbers, slots'[n] # None
        PROVE  number[slots'[n]] = n /\ stage'[slots'[n]] \in Live \cup {"added"}
    <3>1. slots'[n] = IF n = number[c] THEN c ELSE slots[n]
      BY <1>1, <1>3 DEF Typed
    <3>2. CASE n = number[c]
      BY <3>1, <3>2, <1>5
    <3>3. CASE n # number[c]
      <4>1. slots[n] \in Conns /\ number[slots[n]] = n /\ stage[slots[n]] \in Live \cup {"added"}
        BY <3>1, <3>3, <2>1, <1>3 DEF Named, Typed
      <4>2. slots[n] # c
        BY <4>1, <3>3
      <4> QED BY <3>1, <3>3, <4>1, <4>2, <1>5
    <3> QED BY <3>2, <3>3
  <2>2. ASSUME NEW d \in Conns, stage'[d] \in Live \cup {"accepted", "added", "cancelled"}
        PROVE  number[d] # None
    BY <2>2, <1>3, <1>4, <1>5, Names DEF Named
  <2> QED BY <1>3, <2>1, <2>2 DEF Named
<1>13. ASSUME NEW op \in ConnOps, op.of = c, ~Returned(op) PROVE Kept(op)
  BY <1>7, <1>13, Pends, Kinds
<1>14. Listed(c)'
  BY <1>3, <1>7 DEF Listed, Has
<1>15. \A op \in toFree' : op.of = c => Freed(op)'
  BY DEF Runs, Freed
<1>16. AcceptOps \subseteq heap'
  BY DEF Runs, ListenerListed
<1>17. ReadOp(c) \in ConnOps /\ ReadOp(c).of = c
  BY OpKinds DEF ConnOps
<1> HIDE DEF lists, peers, data, out
<1>18. /\ based' = based /\ port' = port /\ backlog' = backlog /\ socketOf' = socketOf
       /\ over' = over /\ kernel' = kernel /\ number' = number
       /\ agenda'[l] = more /\ \A k \in Loops : k # l => agenda'[k] = agenda[k]
  BY <1>2, <1>3, <1>10 DEF lists, peers, Typed
<1>19. Does(c, ReadOp(c))
  BY <1>1, <1>5, <1>6, <1>13, <1>14, <1>15, <1>16, <1>17, <1>18 DEF Does
<1>20. Planned(l)'
  BY <1>9, <1>18, GoesOn
<1> QED BY <1>1, <1>5, <1>11, <1>12, <1>18, <1>19, <1>20, AroundRuns

LEMMA EstablishStep ==
    ASSUME Runs, Running', NEW l \in Loops, Establish(l)
    PROVE  Runs'
<1>1. PICK c \in Conns :
        /\ stage[c] = "added" /\ l = LoopOf(c)
        /\ IF based THEN Doing(l, "establish") ELSE Idle(l)
        /\ Post(l, ReadOp(c), IF based THEN Tail(agenda[l]) ELSE <<>>)
        /\ stage' = [stage EXCEPT ![c] = IF ReadOp(c) \in kernel' THEN "up" ELSE "created"]
        /\ heap' = heap \cup {ReadOp(c)}
  BY DEF Establish
<1>2. UNCHANGED <<based, number, slots, toFree, port, socketOf, peers, data>>
  BY DEF Establish
<1> USE <1>2 DEF peers, data, out
<1>3. Typed /\ Named /\ Listed(c)
  BY DEF Runs
<1>4. PICK o \in ReadOps : o = ReadOp(c)
  BY OpKinds
<1>5. /\ o \in ConnOps /\ o \in Ops /\ o.of = c /\ o.kind = "read" /\ o \notin AcceptOps
      /\ o \notin WriteOps
  BY <1>4, OpKinds DEF ConnOps, Ops
<1>6. stage[c] \in Early /\ stage[c] # "gone" /\ stage[c] # "waiting"
  BY <1>1 DEF Early
<1>7. Returned(o) /\ over[c] = <<>> /\ Len(readBuf[c]) = taken[c] /\ \A a : ~Has(c, a)
  BY <1>3, <1>5, <1>6, Pends DEF Listed, Has
<1>8. PICK more : more = IF based THEN Tail(agenda[l]) ELSE <<>>
  OBVIOUS
<1>9. PICK s : s = Step("close", c)
  OBVIOUS
<1>10. /\ AddOver(o)
       /\ \/ kernel' = kernel \cup {o} /\ none' = none \ {o} /\ agenda' = [agenda EXCEPT ![l] = more]
          \/ /\ kernel' = kernel /\ none' = none \cup {o}
             /\ agenda' = [agenda EXCEPT ![l] = <<s>> \o more]
  BY <1>1, <1>4, <1>5, <1>8, <1>9 DEF Post, Fails, Goes, Running
<1>11. /\ over' \in [Conns \cup {Listener} -> Seq(Ops)]
       /\ \A x \in Conns \cup {Listener} : x # c => over'[x] = over[x]
       /\ IsInjective(over[c]) => IsInjective(over'[c])
       /\ \A a : Has(c, a)' => a = o
       /\ Has(c, o)'
  BY <1>3, <1>5, <1>7, <1>10, AddedOver
<1>12. /\ stage' \in [Conns -> Stages] /\ stage'[c] \in Live
       /\ \A d \in Conns : d # c => stage'[d] = stage[d]
  <2>1. PICK v \in Live : stage' = [stage EXCEPT ![c] = v]
    BY <1>1 DEF Live
  <2> QED BY <2>1, <1>3 DEF Typed, Stages
<1>13. \A d \in Conns : SameBytes(d) /\ (d # c => Alike(d))
  BY <1>1, <1>4, <1>5, <1>10, <1>11, <1>12 DEF SameBytes, Alike
<1>14. Listener # c /\ over'[Listener] = over[Listener]
  BY <1>11, Names
<1> HIDE DEF peers, data, out
<1>15. /\ based' = based /\ port' = port /\ backlog' = backlog /\ socketOf' = socketOf
       /\ number' = number /\ slots' = slots /\ toFree' = toFree /\ readBuf' = readBuf
       /\ taken' = taken /\ posts' = posts /\ writing' = writing /\ sent' = sent
       /\ sendBuf' = sendBuf /\ posted' = posted
  BY <1>2 DEF peers, data, out
<1>16. /\ more \in Seq(Steps)
       /\ \A i \in DOMAIN more :
             ToDo(l, more[i], i, Len(more))' /\ ToDo(l, more[i], i + 1, Len(more) + 1)'
  <2>1. kernel' = kernel \/ kernel' = kernel \cup {ReadOp(c)}
    BY <1>4, <1>10
  <2>2. (based => agenda[l] # <<>>) /\ (~based => agenda[l] = <<>>)
    BY <1>1 DEF Doing, Idle
  <2> QED BY <2>1, <2>2, <1>1, <1>6, <1>8, <1>12, <1>13, <1>14, <1>15, BeginsOn
<1>17. s \in Steps /\ s.do = "close" /\ s.of = c
  BY <1>9, StepMade
<1>18. PICK t \in Seq(Steps) : t = <<s>> \o more
  <2>1. <<s>> \in Seq(Steps)
    BY <1>17
  <2> QED BY <2>1, <1>16, ConcatProperties
<1>19. Typed'
  <2>1. agenda' \in [Loops -> Seq(Steps)]
    BY <1>3, <1>10, <1>16, <1>18 DEF Typed
  <2>2. kernel' \subseteq Ops /\ none' \subseteq ConnOps /\ heap' \subseteq Ops
    BY <1>1, <1>3, <1>4, <1>5, <1>10 DEF Typed
  <2> QED BY <1>3, <1>11, <1>12, <1>15, <2>1, <2>2 DEF Typed
<1>20. Named'
  <2>1. ASSUME NEW n \in Numbers, slots[n] # None
        PROVE  number[slots[n]] = n /\ stage'[slots[n]] \in Live \cup {"added"}
    <3>1. slots[n] \in Conns /\ number[slots[n]] = n /\ stage[slots[n]] \in Live \cup {"added"}
      BY <2>1, <1>3 DEF Named, Typed
    <3> QED BY <3>1, <1>12
  <2>2. ASSUME NEW d \in Conns, stage'[d] \in Live \cup {"accepted", "added", "cancelled"}
        PROVE  number[d] # None
    BY <2>2, <1>1, <1>3, <1>12 DEF Named
  <2> QED BY <1>3, <1>15, <2>1, <2>2 DEF Named
<1>21. ASSUME NEW op \in ConnOps, op.of = c, ~Returned(op) PROVE Kept(op)
  BY <1>6, <1>21, Pends, Kinds
<1>22. Listed(c)'
  <2>1. IsInjective(over[c])
    BY <1>7 DEF IsInjective
  <2>2. stage'[c] \notin Early
    BY <1>12 DEF Early, Live
  <2> QED BY <2>1, <2>2, <1>1, <1>4, <1>5, <1>11 DEF Listed
<1>23. \A op \in toFree' : op.of = c => Freed(op)'
  BY <1>15 DEF Runs, Freed
<1>24. AcceptOps \subseteq heap'
  BY <1>1 DEF Runs, ListenerListed
<1>25. kernel' = kernel \/ (kernel' = kernel \cup {o} /\ InKernel(o)')
  <2>1. CASE none' = none \ {o}
    <3>1. o \notin toFree' /\ o \in heap'
      BY <1>1, <1>3, <1>4, <1>5, <1>15 DEF Typed
    <3>2. Found(o)'
      BY <2>1, <3>1, <1>5, <1>11 DEF Found, Current
    <3>3. stage'[c] \notin Early
      BY <1>12 DEF Early, Live
    <3>4. InKernel(o)'
      BY <3>2, <3>3, <1>5, <1>7, <1>15 DEF InKernel
    <3> QED BY <3>4, <1>10
  <2>2. CASE none' # none \ {o}
    BY <2>2, <1>10
  <2> QED BY <2>1, <2>2
<1>26. stage'[c] # "gone" /\ \A k \in Loops : k # l => agenda'[k] = agenda[k]
  BY <1>3, <1>10, <1>12 DEF Typed, Live
<1>27. Does(c, o)
  BY <1>5, <1>6, <1>7, <1>12, <1>13, <1>14, <1>15, <1>21, <1>22, <1>23, <1>24, <1>25 DEF Does
<1>28. Planned(l)'
  <2>1. CASE agenda' = [agenda EXCEPT ![l] = more]
    <3>1. agenda'[l] = more
      BY <2>1, <1>3 DEF Typed
    <3> QED BY <3>1, <1>16, GoesOn
  <2>2. CASE agenda' = [agenda EXCEPT ![l] = <<s>> \o more]
    <3>1. agenda'[l] = t
      BY <2>2, <1>3, <1>18 DEF Typed
    <3>2. ToDo(l, s, 1, Len(more) + 1)'
      BY <1>1, <1>15, <1>17 DEF ToDo, LoopOf
    <3> QED BY <3>1, <3>2, <1>16, <1>17, <1>18, StepBefore
  <2> QED BY <2>1, <2>2, <1>10
<1> QED BY <1>1, <1>6, <1>15, <1>19, <1>20, <1>26, <1>27, <1>28, AroundRuns

-----------------------------------------------------------------------------
(* The acceptor's operations.                                              *)

LEMMA PostAcceptStep ==
    ASSUME Runs, Running', PostAccept
    PROVE  Runs'
<1>1. Doing("base", "accept") /\ agenda["base"] # <<>> /\ Typed /\ Named /\ ListenerListed
  BY DEF PostAccept, Doing, Runs
<1>2. "base" \in Loops /\ agenda["base"] \in Seq(Steps)
  BY <1>1 DEF Loops, Typed
<1>3. PICK s \in Steps : s = Head(agenda["base"]) /\ ToDo("base", s, 1, Len(agenda["base"]))
  BY <1>1, <1>2, FirstStep
<1>4. PICK a \in AcceptOps : a = s.of
  BY <1>1, <1>3, StepKinds DEF Doing
<1>5. Len(agenda["base"]) = 1 /\ Returned(a) /\ ~Has(Listener, a)
  BY <1>1, <1>3, <1>4 DEF Doing, ToDo
<1>6. PICK more \in Seq(Steps) : more = Tail(agenda["base"])
  BY <1>1, <1>2, HeadTailFacts
<1>7. DOMAIN more = {}
  BY <1>1, <1>2, <1>5, <1>6, HeadTailFacts
<1>8. PICK n \in FreeNumbers :
        /\ socketOf' = [socketOf EXCEPT ![a] = n]
        /\ agenda' = [agenda EXCEPT !["base"] = more]
        /\ (kernel' = kernel \cup {a} /\ AddOver(a)) \/ UNCHANGED <<kernel, over>>
  BY <1>3, <1>4, <1>6 DEF PostAccept, Fails, Goes, Running
<1>9. UNCHANGED <<based, conns, none, heap, toFree, port, peers, data>>
  BY DEF PostAccept
<1> USE <1>9 DEF conns, peers, data, out
<1>10. a \in Ops /\ a.of = Listener /\ a \notin ConnOps
  BY Kinds
<1>11. /\ n \in Numbers /\ n # None /\ \A d \in Conns : number[d] # n
       /\ \A b \in AcceptOps : socketOf[b] # n
  BY <1>8, Names DEF FreeNumbers
<1>12. /\ over' \in [Conns \cup {Listener} -> Seq(Ops)]
       /\ \A d \in Conns : over'[d] = over[d]
       /\ IsInjective(over'[Listener])
       /\ \A b : Has(Listener, b)' => Has(Listener, b) \/ b = a
       /\ \A b : Has(Listener, b) => Has(Listener, b)'
       /\ AddOver(a) => Has(Listener, a)'
  <2>1. CASE AddOver(a)
    BY <2>1, <1>1, <1>5, <1>10, AddedOver, Names DEF ListenerListed
  <2>2. CASE over' = over /\ ~AddOver(a)
    BY <2>2, <1>1 DEF Has, ListenerListed, Typed
  <2> QED BY <2>1, <2>2, <1>8
<1>13. socketOf'[a] = n /\ \A b \in AcceptOps : b # a => socketOf'[b] = socketOf[b]
  BY <1>1, <1>8 DEF Typed
<1>14. Typed'
  <2>1. agenda' \in [Loops -> Seq(Steps)] /\ socketOf' \in [AcceptOps -> Numbers \cup {None}]
    BY <1>1, <1>8, <1>11 DEF Typed
  <2>2. kernel' \subseteq Ops
    BY <1>1, <1>8, <1>10 DEF Typed
  <2> QED BY <1>1, <1>12, <2>1, <2>2 DEF Typed
<1>15. Named'
  <2>1. \A x, y \in AcceptOps : socketOf'[x] = socketOf'[y] /\ socketOf'[x] # None => x = y
    BY <1>1, <1>11, <1>13 DEF Named
  <2>2. \A d \in Conns, x \in AcceptOps : number[d] = socketOf'[x] => number[d] = None
    BY <1>1, <1>11, <1>13 DEF Named
  <2> QED BY <1>1, <2>1, <2>2 DEF Named
<1>16. Waits'
  BY <1>1, WaitsKept DEF Runs, Typed
<1>17. \A d \in Conns : SameBytes(d) /\ Alike(d)
  BY <1>12 DEF SameBytes, Alike
<1>18. \A d \in Conns : Listed(d)'
  BY <1>17, AlikeListed DEF Runs
<1>19. ListenerListed'
  BY <1>1, <1>12 DEF ListenerListed
<1>20. \A op \in toFree' : Freed(op)'
  BY DEF Runs, Freed
<1>21. \A op \in ConnOps : Kept(op)
  BY <1>17, AlikeOps, Kinds, OpKinds DEF ConnOps
<1> HIDE DEF conns, peers, data, out
<1>22. /\ based' = based /\ port' = port /\ backlog' = backlog /\ stage' = stage /\ number' = number
       /\ agenda'["base"] = more /\ agenda'["pool"] = agenda["pool"]
  BY <1>1, <1>8, <1>9 DEF conns, peers, Typed, Loops
<1>23. \A l \in Loops : \A p \in Good(l) : p.op # a /\ p.op \notin kernel /\ ~Returned(p.op)
  BY <1>5 DEF Returned, Runs, InPort
<1>24. \A l \in Loops : Good(l)' = Good(l) /\ Ordered(l)'
  <2> SUFFICES ASSUME NEW l \in Loops PROVE Good(l)' = Good(l) /\ Ordered(l)'
    OBVIOUS
  <2>1. \A p \in Good(l) : p.op \in AcceptOps => socketOf'[p.op] = socketOf[p.op]
    BY <1>13, <1>23
  <2> QED BY <2>1, <1>22, PortsSame DEF Runs
<1>25. \A op : op # a /\ Returned(op) => Returned(op)'
  BY <1>8, <1>24 DEF Returned
<1>26. (\A op \in kernel' : InKernel(op)') /\ \A l \in Loops : \A p \in Good(l)' : InPort(l, p)'
  <2>1. ASSUME NEW op \in kernel' PROVE op \in kernel \/ (op \in Ops /\ InKernel(op)')
    <3>1. CASE op \in kernel
      BY <3>1
    <3>2. CASE op \notin kernel
      <4>1. op = a /\ AddOver(a)
        BY <3>2, <1>8
      <4>2. Has(Listener, a)' /\ socketOf'[a] # None
        BY <4>1, <1>11, <1>12, <1>13
      <4>3. InKernel(a)'
        BY <4>2 DEF InKernel
      <4> QED BY <4>1, <4>3, <1>10
    <3> QED BY <3>1, <3>2
  <2>2. \A l \in Loops : \A p \in Good(l)' : p \in Good(l) /\ p.op \notin kernel'
    BY <1>8, <1>23, <1>24
  <2>3. \A b \in AcceptOps : ~Returned(b) =>
            socketOf'[b] = socketOf[b] /\ (Has(Listener, b) => Has(Listener, b)')
    BY <1>5, <1>12, <1>13
  <2> QED BY <2>1, <2>2, <2>3, <1>21, <1>22, PendingKept, StaysPends
<1>27. Planned("base")'
  BY <1>2, <1>7, <1>22, GoesOn
<1>28. Planned("pool")'
  <2>1. \A c \in Conns : Returned(ReadOp(c)) => Returned(ReadOp(c))'
    BY <1>10, <1>25, OpKinds DEF ConnOps
  <2>2. \A op \in WriteOps : Returned(op) => Returned(op)'
    BY <1>10, <1>25 DEF ConnOps
  <2>3. "pool" \in Loops /\ "pool" # "base" /\ Planned("pool")
    BY DEF Loops, Runs
  <2> QED BY <2>1, <2>2, <2>3, <1>1, <1>17, <1>22, PlannedKept
<1>29. \A l \in Loops : Planned(l)'
  BY <1>27, <1>28 DEF Loops
<1> QED BY <1>14, <1>15, <1>16, <1>18, <1>19, <1>20, <1>24, <1>26, <1>29 DEF Runs

-----------------------------------------------------------------------------
(* The kernel.                                                             *)

\* An operation ends with a packet that is in order.
LEMMA EndsStep ==
    ASSUME Runs, NEW l \in Loops, NEW o \in kernel, NEW p \in Packets, p.op = o,
           Completes(o, l, p), Waits',
           UNCHANGED <<based, conns, lists, socketOf, agenda, sent, readBuf, out>>,
           backlog' \in Seq(Conns), taken' \in [Conns -> Nat],
           \A c \in Conns : taken'[c] <= sent[c],
           ~p.aborted => InPort(l, p)' /\ \A q \in Good(l) : InOrder(q, p),
           \A c \in Conns : o # ReadOp(c) => SameBytes(c),
           \A c \in Conns : (\A i \in DOMAIN backlog : backlog[i] # c) =>
              \A i \in DOMAIN backlog' : backlog'[i] # c
    PROVE  Runs'
<1> USE DEF conns, lists, out
<1>1. Typed /\ o \in Ops /\ InKernel(o)
  BY DEF Runs, Typed
<1>2. kernel' = kernel \ {o} /\ port' = [port EXCEPT ![l] = Append(@, p)]
  BY DEF Completes
<1>3. /\ port' \in [Loops -> Seq(Packets)]
      /\ \A k \in Loops : Ordered(k)' /\ \A q \in Good(k)' : q \in Good(k) \/ (k = l /\ q = p /\ ~p.aborted)
      /\ \A k \in Loops : \A q \in Good(k) : q \in Good(k)'
  <2>1. /\ port' \in [Loops -> Seq(Packets)]
        /\ \A k \in Loops \ {l} : Good(k)' = Good(k) /\ (Ordered(k) => Ordered(k)')
        /\ Good(l)' = Good(l) \cup {q \in {p} : ~p.aborted}
        /\ Ordered(l) => Ordered(l)'
    BY <1>1, <1>2, PacketComes
  <2>2. \A k \in Loops : Ordered(k)
    BY DEF Runs
  <2> QED BY <2>1, <2>2
<1>4. Typed'
  BY <1>1, <1>2, <1>3 DEF Typed
<1>5. \A d \in Conns : Alike(d)
  BY DEF Alike
<1>6. Named'
  BY <1>1, NamedKept DEF Runs
<1>7. ASSUME NEW d \in Conns PROVE Listed(d)'
  <2>1. stage[d] \in Early => o # ReadOp(d)
    <3>1. ReadOp(d) \notin AcceptOps /\ ReadOp(d).of = d
      BY OpKinds
    <3> QED BY <3>1, <1>1 DEF InKernel
  <2>2. stage[d] \in Early => SameBytes(d)
    BY <2>1
  <2> QED BY <2>2, <1>5, AlikeListed DEF Runs
<1>8. ListenerListed'
  BY ListenerKept DEF Runs, ListenerListed
<1>9. \A op \in toFree' : Freed(op)'
  BY DEF Runs, Freed
<1>10. \A op : Returned(op) => Returned(op)'
  BY <1>2, <1>3 DEF Returned
<1>11. ASSUME NEW op \in ConnOps, op # o PROVE Kept(op)
  <2>1. op.of \in Conns /\ (op.kind = "read" => op = ReadOp(op.of))
    BY Kinds
  <2>2. op.kind = "read" => SameBytes(op.of)
    BY <2>1, <1>11
  <2> QED BY <2>1, <2>2, <1>5, AlikeOps
<1>12. (\A op \in kernel' : InKernel(op)') /\ \A k \in Loops : \A q \in Good(k)' : InPort(k, q)'
  <2>1. \A k \in Loops : \A q \in Good(k)' : (q \in Good(k) /\ q.op \notin kernel') \/ InPort(k, q)'
    BY <1>2, <1>3 DEF Runs, InPort
  <2>2. \A op : Stays(op) => op # o
    BY <1>2 DEF Stays
  <2>3. \A op \in kernel' : op \in kernel
    BY <1>2
  <2>4. \A a \in AcceptOps : socketOf'[a] = socketOf[a] /\ (Has(Listener, a) => Has(Listener, a)')
    BY DEF Has
  <2>5. \A op \in ConnOps : Stays(op) => Kept(op)
    BY <1>11, <2>2
  <2> QED BY <2>1, <2>3, <2>4, <2>5, PendingKept
<1>13. ASSUME NEW k \in Loops PROVE Planned(k)'
  <2>1. \A c \in Conns : Returned(ReadOp(c)) => SameBytes(c)
    BY DEF Returned
  <2>2. \A a : Has(Listener, a)' => Has(Listener, a)
    BY DEF Has
  <2> QED BY <2>1, <2>2, <1>1, <1>5, <1>10, PlannedKept DEF Runs
<1> QED BY <1>3, <1>4, <1>6, <1>7, <1>8, <1>9, <1>12, <1>13 DEF Runs

\* A packet that is not about bytes.
LEMMA KernelWritesStep ==
    ASSUME Runs, NEW c \in Conns, NEW k \in 1 .. posts[c], KernelWrites(c, k)
    PROVE  Runs'
<1>1. Typed /\ Named /\ Waits
  BY DEF Runs
<1>2. PICK o : o = WriteOp(c, k)
  OBVIOUS
<1>3. o \in WriteOps /\ o.of = c /\ o.kind = "write" /\ o.nth = k
  <2>1. posts[c] \in Nat
    BY <1>1 DEF Typed
  <2>2. k \in Nat /\ k # 0
    BY <2>1
  <2> QED BY <2>2, <1>2, OpKinds
<1>4. o \in ConnOps /\ o \in Ops /\ o \notin AcceptOps /\ o # ReadOp(c)
  BY <1>3, OpKinds DEF ConnOps, Ops
<1>5. PICK l \in Loops : l = LoopOf(c)
  BY Names
<1>6. PICK p : p = Packet(number[c], o, <<>>)
  OBVIOUS
<1>7. /\ o \in kernel /\ Open(c) /\ Completes(o, l, p)
      /\ UNCHANGED <<based, conns, lists, socketOf, agenda, peers, data>>
  BY <1>2, <1>5, <1>6 DEF KernelWrites, Completes
<1> USE <1>7 DEF conns, lists, peers, data, out
<1>8. InKernel(o) /\ stage[c] \in Live /\ Found(o) /\ number[c] \in Numbers /\ number[c] # None
  <2>1. InKernel(o)
    BY DEF Runs
  <2>2. stage[c] \in Live
    BY <2>1, <1>1, <1>3, <1>4 DEF InKernel, Open, Typed, Stages
  <2> QED BY <2>1, <2>2, <1>1, <1>3, <1>4 DEF InKernel, Named, Typed
<1>9. /\ p \in Packets /\ p.op = o /\ p.key = number[c] /\ ~p.aborted
  <2>1. p = [key |-> number[c], op |-> o, bytes |-> <<>>, aborted |-> FALSE]
    BY <1>6 DEF Packet
  <2>2. <<>> \in Seq(Nat)
    OBVIOUS
  <2> QED BY <2>1, <2>2, <1>4, <1>8 DEF Packets
<1>10. Waits'
  BY <1>1, WaitsKept DEF Typed
<1>11. ASSUME NEW q \in Good(l) PROVE InOrder(q, p)
  <2>1. InPort(l, q)
    BY DEF Runs
  <2>2. q.op # o
    BY <2>1 DEF InPort
  <2>3. q.op \in AcceptOps => socketOf[q.op] # number[c]
    BY <1>1, <1>8 DEF Named
  <2> QED BY <2>2, <2>3, <1>4, <1>9 DEF InOrder
<1>12. InPort(l, p)'
  <2>1. Found(o)' /\ (l = LoopOf(c))' /\ p.op \notin kernel'
    BY <1>5, <1>8, <1>9 DEF Found, Has, Current, LoopOf, Completes
  <2>2. Answers(p, c)'
    BY <2>1, <1>3, <1>4, <1>8, <1>9 DEF Answers, InKernel, Live
  <2> QED BY <2>1, <2>2, <1>3, <1>4, <1>9 DEF InPort
<1>13. \A d \in Conns : SameBytes(d)
  BY DEF SameBytes
<1> QED BY <1>1, <1>9, <1>10, <1>11, <1>12, <1>13, EndsStep DEF Typed

LEMMA KernelAbortsStep ==
    ASSUME Runs, NEW c \in Conns, KernelAborts(c)
    PROVE  Runs'
<1>1. Typed /\ Waits
  BY DEF Runs
<1>2. PICK o \in kernel :
        o.of = c /\ Completes(o, LoopOf(c), [Packet(None, o, <<>>) EXCEPT !.aborted = TRUE])
  BY DEF KernelAborts
<1>3. PICK l \in Loops : l = LoopOf(c)
  BY Names
<1>4. PICK p : p = [Packet(None, o, <<>>) EXCEPT !.aborted = TRUE]
  OBVIOUS
<1>5. o \in Ops
  BY <1>1 DEF Typed
<1>6. p \in Packets /\ p.op = o /\ p.aborted
  <2>1. p = [key |-> None, op |-> o, bytes |-> <<>>, aborted |-> TRUE]
    BY <1>4 DEF Packet
  <2>2. <<>> \in Seq(Nat)
    OBVIOUS
  <2> QED BY <2>1, <2>2, <1>5 DEF Packets
<1>7. UNCHANGED <<based, conns, lists, socketOf, agenda, peers, data>>
  BY DEF KernelAborts
<1> USE <1>7 DEF peers, data
<1>8. Completes(o, l, p)
  BY <1>2, <1>3, <1>4
<1>9. Waits'
  BY <1>1, WaitsKept DEF Typed, conns
<1>10. \A d \in Conns : SameBytes(d)
  BY DEF SameBytes
<1> QED BY <1>1, <1>6, <1>8, <1>9, <1>10, EndsStep DEF Typed

LEMMA KernelReadsStep ==
    ASSUME Runs, NEW c \in Conns, KernelReads(c)
    PROVE  Runs'
<1>1. Typed /\ Named /\ Waits
  BY DEF Runs
<1>2. PICK o \in ReadOps : o = ReadOp(c)
  BY OpKinds
<1>3. /\ o.of = c /\ o.kind = "read" /\ o \in ConnOps /\ o \in Ops /\ o \notin AcceptOps
      /\ o \notin WriteOps
  BY <1>2, OpKinds DEF ConnOps, Ops
<1>4. PICK l \in Loops : l = LoopOf(c)
  BY Names
<1>5. PICK a : a = IF end[c] = "reset" THEN 0 ELSE sent[c] - taken[c]
  OBVIOUS
<1>6. PICK n : n = IF a < Room THEN a ELSE Room
  OBVIOUS
<1>7. taken[c] \in Nat /\ sent[c] \in Nat /\ n \in Nat /\ taken[c] + n <= sent[c]
      /\ taken[c] + n \in Nat
  <2>1. taken[c] \in Nat /\ sent[c] \in Nat /\ taken[c] <= sent[c]
    BY <1>1 DEF Typed
  <2>2. a \in Nat /\ taken[c] + a <= sent[c]
    BY <2>1, <1>5
  <2> QED BY <2>1, <2>2, <1>6, Names
<1>8. PICK b : b = [i \in 1 .. n |-> taken[c] + i]
  OBVIOUS
<1>9. PICK p : p = Packet(number[c], o, b)
  OBVIOUS
<1>10. /\ o \in kernel /\ Open(c) /\ Completes(o, l, p)
       /\ taken' = [taken EXCEPT ![c] = taken[c] + n]
       /\ UNCHANGED <<based, conns, lists, socketOf, agenda, peers, readBuf, out>>
  BY <1>2, <1>4, <1>5, <1>6, <1>8, <1>9 DEF KernelReads, Completes
<1> USE <1>10 DEF conns, lists, peers, out
<1>11. /\ stage[c] \in Live /\ Found(o) /\ number[c] \in Numbers /\ number[c] # None
       /\ Len(readBuf[c]) = taken[c]
  <2>1. InKernel(o)
    BY DEF Runs
  <2>2. stage[c] \in Live
    BY <2>1, <1>1, <1>3 DEF InKernel, Open, Typed, Stages
  <2> QED BY <2>1, <2>2, <1>1, <1>3 DEF InKernel, Named, Typed
<1>12. PICK s \in Seq(Nat) : s = readBuf[c]
  BY <1>1 DEF Typed
<1>13. b = [i \in 1 .. n |-> Len(s) + i]
  BY <1>8, <1>11, <1>12
<1>14. b \in Seq(Nat) /\ Len(b) = n
  BY <1>7, <1>13, BytesFollow
<1>15. p \in Packets /\ p.op = o /\ p.key = number[c] /\ ~p.aborted /\ p.bytes = b
  <2>1. p = [key |-> number[c], op |-> o, bytes |-> b, aborted |-> FALSE]
    BY <1>9 DEF Packet
  <2> QED BY <2>1, <1>3, <1>11, <1>14 DEF Packets
<1>16. Waits'
  BY <1>1, WaitsKept DEF Typed
<1>17. ASSUME NEW q \in Good(l) PROVE InOrder(q, p)
  <2>1. InPort(l, q)
    BY DEF Runs
  <2>2. q.op # o
    BY <2>1 DEF InPort
  <2>3. q.op \in AcceptOps => socketOf[q.op] # number[c]
    BY <1>1, <1>11 DEF Named
  <2> QED BY <2>2, <2>3, <1>3, <1>15 DEF InOrder
<1>18. /\ taken' \in [Conns -> Nat] /\ taken'[c] = taken[c] + n
       /\ \A d \in Conns : taken'[d] <= sent[d] /\ (d # c => SameBytes(d))
  BY <1>1, <1>7 DEF Typed, SameBytes
<1>19. InPort(l, p)'
  <2>1. Found(o)' /\ (l = LoopOf(c))' /\ p.op \notin kernel'
    BY <1>4, <1>11, <1>15 DEF Found, Has, Current, LoopOf, Completes
  <2>2. p.bytes = [i \in 1 .. Len(p.bytes) |-> Len(readBuf'[c]) + i]
    BY <1>12, <1>13, <1>14, <1>15
  <2>3. taken'[c] = Len(readBuf'[c]) + Len(p.bytes)
    BY <1>11, <1>14, <1>15, <1>18
  <2>4. Answers(p, c)'
    BY <2>1, <2>2, <2>3, <1>3, <1>11, <1>15 DEF Answers, Live, Early
  <2> QED BY <2>1, <2>4, <1>3, <1>15 DEF InPort
<1>20. \A d \in Conns : o # ReadOp(d) => SameBytes(d)
  BY <1>2, <1>18
<1> QED BY <1>1, <1>15, <1>16, <1>17, <1>18, <1>19, <1>20, EndsStep DEF Typed

LEMMA KernelAcceptsStep ==
    ASSUME Runs, NEW o \in AcceptOps, KernelAccepts(o)
    PROVE  Runs'
<1>1. Typed /\ Named /\ Waits
  BY DEF Runs
<1>2. PICK s \in Seq(Conns) : s = backlog /\ s # <<>>
  BY <1>1 DEF Typed, KernelAccepts
<1>3. PICK c \in Conns : c = Head(s)
  BY <1>2, HeadTailFacts
<1>4. PICK t \in Seq(Conns) : t = Tail(s)
  BY <1>2, HeadTailFacts
<1>5. PICK p : p = Packet(Listener, o, <<c>>)
  OBVIOUS
<1>6. /\ o \in kernel /\ Completes(o, "base", p) /\ backlog' = t
      /\ UNCHANGED <<based, conns, lists, socketOf, agenda, sent, end, data>>
  BY <1>2, <1>3, <1>4, <1>5 DEF KernelAccepts, Completes
<1> USE <1>6 DEF conns, lists, data, out
<1>7. /\ Len(s) \in Nat \ {0} /\ DOMAIN s = 1 .. Len(s) /\ DOMAIN t = 1 .. Len(s) - 1
      /\ s[1] = c /\ 1 \in DOMAIN s
      /\ \A i \in 1 .. Len(s) - 1 : t[i] = s[i + 1] /\ i + 1 \in DOMAIN s
  BY <1>2, <1>3, <1>4, HeadTailFacts
<1>8. stage[c] = "waiting" /\ \A i \in DOMAIN t : t[i] # c /\ stage[t[i]] = "waiting"
  <2>1. \A i \in DOMAIN s : stage[s[i]] = "waiting" /\ s[i] \in Conns
    BY <1>1, <1>2 DEF Waits
  <2>2. ASSUME NEW i \in DOMAIN t PROVE s[i + 1] # s[1]
    <3>1. i + 1 \in DOMAIN s /\ i + 1 # 1
      BY <1>7
    <3> QED BY <3>1, <1>1, <1>2, <1>7 DEF Waits, IsInjective
  <2> QED BY <2>1, <2>2, <1>7
<1>9. Waits'
  <2>1. ASSUME NEW i \in DOMAIN t, NEW j \in DOMAIN t, t[i] = t[j] PROVE i = j
    <3>1. i + 1 \in DOMAIN s /\ j + 1 \in DOMAIN s /\ s[i + 1] = s[j + 1] /\ i \in Nat /\ j \in Nat
      BY <2>1, <1>7
    <3>2. i + 1 = j + 1
      BY <3>1, <1>1, <1>2 DEF Waits, IsInjective
    <3> QED BY <3>1, <3>2
  <2> QED BY <2>1, <1>8 DEF Waits, IsInjective
<1>10. p \in Packets /\ p.op = o /\ p.key = Listener /\ ~p.aborted /\ p.bytes = <<c>>
  <2>1. p = [key |-> Listener, op |-> o, bytes |-> <<c>>, aborted |-> FALSE]
    BY <1>5 DEF Packet
  <2>2. <<c>> \in Seq(Conns) /\ o \in Ops
    BY Kinds
  <2> QED BY <2>1, <2>2 DEF Packets
<1>11. "base" \in Loops /\ Has(Listener, o) /\ socketOf[o] # None
  BY DEF Runs, InKernel, Loops
<1>12. ASSUME NEW q \in Good("base") PROVE InOrder(q, p)
  <2>1. InPort("base", q)
    BY <1>11 DEF Runs
  <2>2. q.op # o
    BY <2>1 DEF InPort
  <2>3. ASSUME q.op \in AcceptOps PROVE q.bytes # <<c>>
    <3>1. PICK d \in Conns : Announces(q, d)
      BY <2>1, <2>3 DEF InPort
    <3>2. d # c
      BY <3>1, <1>2, <1>7 DEF Announces
    <3> QED BY <3>1, <3>2 DEF Announces
  <2> QED BY <2>2, <2>3, <1>10 DEF InOrder
<1>13. InPort("base", p)'
  <2>1. Announces(p, c)'
    BY <1>8, <1>10, <1>11 DEF Announces, Has
  <2> QED BY <2>1, <1>10 DEF InPort, Completes
<1>14. \A d \in Conns : SameBytes(d)
  BY DEF SameBytes
<1>15. ASSUME NEW d \in Conns, \A i \in DOMAIN backlog : backlog[i] # d
       PROVE  \A i \in DOMAIN backlog' : backlog'[i] # d
  BY <1>2, <1>7, <1>15
<1> QED BY <1>1, <1>9, <1>10, <1>11, <1>12, <1>13, <1>14, <1>15, EndsStep DEF Typed

-----------------------------------------------------------------------------
(* IOCPFdEventManager::process.                                            *)

\* The operation of the first packet is nowhere else.
LEMMA HeadAlone ==
    ASSUME Runs, NEW l \in Loops, port[l] # <<>>, NEW p, p = Head(port[l]),
           port' = [port EXCEPT ![l] = Tail(@)], kernel' = kernel
    PROVE  /\ port' \in [Loops -> Seq(Packets)]
           /\ \A k \in Loops : Good(k)' \subseteq Good(k) /\ (k # l => port'[k] = port[k])
           /\ \A op : Returned(op) => Returned(op)'
           /\ ~p.aborted => /\ p \in Good(l) /\ InPort(l, p) /\ Returned(p.op)'
                            /\ \A k \in Loops : \A q \in Good(k)' : q.op # p.op
                            /\ \A q \in Good(l)' : InOrder(p, q)
<1>1. Typed /\ \A k \in Loops : Ordered(k)
  BY DEF Runs
<1>2. /\ p \in Packets /\ (~p.aborted => p \in Good(l))
      /\ port' \in [Loops -> Seq(Packets)]
      /\ \A k \in Loops \ {l} : port'[k] = port[k] /\ Good(k)' = Good(k)
      /\ Good(l)' \subseteq Good(l)
      /\ ~p.aborted => \A q \in Good(l)' : InOrder(p, q)
  BY <1>1, PacketGoes
<1>3. \A k \in Loops : Good(k)' \subseteq Good(k)
  BY <1>2
<1>4. \A op : Returned(op) => Returned(op)'
  BY <1>3 DEF Returned
<1>5. ASSUME ~p.aborted
      PROVE  /\ InPort(l, p) /\ Returned(p.op)'
             /\ \A k \in Loops : \A q \in Good(k)' : q.op # p.op
  <2>1. InPort(l, p) /\ p.op \notin kernel
    BY <1>2, <1>5 DEF Runs, InPort
  <2>2. ASSUME NEW k \in Loops, NEW q \in Good(k)' PROVE q.op # p.op
    <3>1. CASE k = l
      BY <3>1, <1>2, <1>5, <2>2 DEF InOrder
    <3>2. CASE k # l
      <4>1. InPort(k, q)
        BY <1>3, <2>2 DEF Runs
      <4> QED BY <4>1, <2>1, <3>2 DEF InPort
    <3> QED BY <3>1, <3>2
  <2> QED BY <2>1, <2>2 DEF Returned
<1> QED BY <1>2, <1>3, <1>4, <1>5

\* A packet is taken, and its operation may be dealt with.
LEMMA TakesStep ==
    ASSUME Runs, NEW l \in Loops, port[l] # <<>>, NEW p, p = Head(port[l]),
           port' = [port EXCEPT ![l] = Tail(@)], Typed',
           UNCHANGED <<based, conns, heap, kernel, socketOf, backlog>>,
           over'[Listener] = over[Listener],
           \A c \in Conns : LoopOf(c) # l => Alike(c) /\ SameBytes(c),
           \A c \in Conns : Listed(c)',
           \A op \in toFree' : Freed(op)',
           \A op \in ConnOps : ~Returned(op) /\ (p.aborted \/ op # p.op) => Kept(op),
           \A k \in Loops : k # l => agenda'[k] = agenda[k],
           Planned(l)'
    PROVE  Runs'
<1> USE DEF conns
<1>1. Typed /\ Named /\ Waits
  BY DEF Runs
<1>2. /\ \A k \in Loops : Good(k)' \subseteq Good(k) /\ (k # l => port'[k] = port[k])
      /\ \A op : Returned(op) => Returned(op)'
      /\ ~p.aborted => /\ InPort(l, p) /\ p \in Good(l)
                       /\ \A k \in Loops : \A q \in Good(k)' : q.op # p.op
  BY HeadAlone
<1>3. Named'
  BY <1>1, NamedKept
<1>4. Waits'
  BY <1>1, WaitsKept DEF Typed
<1>5. ListenerListed'
  BY ListenerKept DEF Runs, ListenerListed
<1>6. ASSUME NEW k \in Loops PROVE Ordered(k)'
  <2>1. CASE k = l
    <3>1. \A i, j \in DOMAIN port'[l] :
              i < j /\ port'[l][i] \in Good(l)' /\ port'[l][j] \in Good(l)' =>
                  InOrder(port'[l][i], port'[l][j])
      BY <1>1, PacketGoes DEF Runs
    <3> QED BY <2>1, <3>1 DEF Ordered, InOrder
  <2>2. CASE k # l
    BY <2>2, <1>2, PortsSame DEF Runs
  <2> QED BY <2>1, <2>2
<1>7. (\A op \in kernel' : InKernel(op)') /\ \A k \in Loops : \A q \in Good(k)' : InPort(k, q)'
  <2>1. ASSUME NEW op, Stays(op) PROVE ~Returned(op) /\ (p.aborted \/ op # p.op)
    BY <1>2, <2>1, StaysPends DEF Stays, InPort
  <2>2. \A op \in ConnOps : Stays(op) => Kept(op)
    BY <2>1
  <2>3. \A k \in Loops : \A q \in Good(k)' : q \in Good(k) /\ q.op \notin kernel'
    BY <1>2 DEF Runs, InPort
  <2>4. \A a \in AcceptOps : Has(Listener, a) => Has(Listener, a)'
    BY DEF Has
  <2> QED BY <2>2, <2>3, <2>4, PendingKept
<1>8. ASSUME NEW k \in Loops, k # l PROVE Planned(k)'
  <2>1. \A a : Has(Listener, a)' => Has(Listener, a)
    BY DEF Has
  <2> QED BY <2>1, <1>1, <1>2, <1>8, PlannedKept DEF Runs
<1> QED BY <1>3, <1>4, <1>5, <1>6, <1>7, <1>8 DEF Runs

LEMMA PassOverStep ==
    ASSUME Runs, NEW l \in Loops, PassOver(l)
    PROVE  Runs'
<1>1. /\ port[l] # <<>> /\ agenda[l] = <<>> /\ port' = [port EXCEPT ![l] = Tail(@)]
      /\ UNCHANGED <<based, conns, lists, kernel, socketOf, agenda, peers, data>>
  BY DEF PassOver, Idle
<1> USE <1>1 DEF conns, lists, peers, data, out
<1>2. PICK p : p = Head(port[l])
  OBVIOUS
<1>3. Typed
  BY DEF Runs
<1>4. Typed'
  <2>1. port' \in [Loops -> Seq(Packets)]
    BY <1>2, HeadAlone
  <2> QED BY <1>3, <2>1 DEF Typed
<1>5. \A c \in Conns : SameBytes(c) /\ Alike(c)
  BY DEF SameBytes, Alike
<1>6. \A c \in Conns : Listed(c)'
  BY <1>5, AlikeListed DEF Runs
<1>7. \A op \in toFree' : Freed(op)'
  BY DEF Runs, Freed
<1>8. \A op \in ConnOps : Kept(op)
  BY <1>5, AlikeOps, Kinds, OpKinds DEF ConnOps
<1>9. Planned(l)'
  BY DEF Planned
<1> QED BY <1>2, <1>4, <1>5, <1>6, <1>7, <1>8, <1>9, TakesStep

\* What the first packet says when its operation is found.
LEMMA HeadFound ==
    ASSUME Runs, NEW l \in Loops, port[l] # <<>>, NEW p, p = Head(port[l]),
           Channel(p) # None, Contains(over[Channel(p)], p.op)
    PROVE  /\ p \in Good(l) /\ ~p.aborted /\ p.op \in Ops /\ InPort(l, p)
           /\ p.op \notin AcceptOps =>
                /\ p.op \in ConnOps /\ p.op.of \in Conns /\ l = LoopOf(p.op.of)
                /\ stage[p.op.of] \in Live /\ Answers(p, p.op.of)
<1>1. Typed /\ Named
  BY DEF Runs
<1>2. port[l] \in Seq(Packets)
  BY <1>1 DEF Typed
<1>3. p \in Packets /\ p = port[l][1] /\ 1 \in DOMAIN port[l]
  BY <1>2, HeadTailFacts
<1>4. ~p.aborted /\ p \in Good(l) /\ p.op \in Ops
  BY <1>3 DEF Channel, Good, ToSet, Packets
<1>5. InPort(l, p)
  BY <1>4 DEF Runs
<1>6. ASSUME p.op \notin AcceptOps
      PROVE  /\ p.op \in ConnOps /\ p.op.of \in Conns /\ l = LoopOf(p.op.of)
             /\ stage[p.op.of] \in Live /\ Answers(p, p.op.of)
  <2>1. p.op \in ConnOps /\ p.op.of \in Conns /\ l = LoopOf(p.op.of) /\ Answers(p, p.op.of)
    BY <1>4, <1>5, <1>6, Kinds DEF InPort
  <2>2. p.key \in Numbers /\ p.key # Listener
    BY <2>1, Names DEF Answers
  <2>3. PICK x \in Conns : x = Channel(p) /\ x = slots[p.key]
    BY <2>2, <1>1, <1>4 DEF Channel, Typed
  <2>4. stage[x] \in Live \cup {"added"}
    BY <2>2, <2>3, <1>1, Names DEF Named
  <2>5. over[x] \in Seq(Ops)
    BY <1>1 DEF Typed
  <2>6. Has(x, p.op) /\ over[x] # <<>>
    BY <2>3, <2>5 DEF Contains, Has
  <2>7. p.op.of = x
    BY <2>6, <1>4 DEF Runs, Listed
  <2>8. stage[x] \notin Early
    BY <2>6 DEF Runs, Listed
  <2> QED BY <2>1, <2>4, <2>7, <2>8 DEF Early
<1> QED BY <1>4, <1>5, <1>6

\* On the base loop the operation is found: a packet whose socket was closed is passed
\* over, since nobody has accepted another with its number yet.
LEMMA FoundOnBase ==
    ASSUME Runs, based, NEW l \in Loops, port[l] # <<>>, NEW p, p = Head(port[l]),
           Channel(p) # None
    PROVE  Contains(over[Channel(p)], p.op)
<1>1. Typed /\ Named
  BY DEF Runs
<1>2. port[l] \in Seq(Packets)
  BY <1>1 DEF Typed
<1>3. p \in Packets /\ p = port[l][1] /\ 1 \in DOMAIN port[l]
  BY <1>2, HeadTailFacts
<1>4. ~p.aborted /\ p \in Good(l) /\ p.op \in Ops
  BY <1>3 DEF Channel, Good, ToSet, Packets
<1>5. InPort(l, p)
  BY <1>4 DEF Runs
<1>6. PICK x \in Conns \cup {Listener} : x = Channel(p) /\ Has(x, p.op)
  <2>1. CASE p.op \in AcceptOps
    <3>1. p.key = Listener /\ Has(Listener, p.op)
      BY <2>1, <1>5 DEF InPort, Announces
    <3> QED BY <3>1, <1>4 DEF Channel
  <2>2. CASE p.op \notin AcceptOps
    <3>1. PICK c \in Conns : c = p.op.of /\ Answers(p, c)
      BY <2>2, <1>4, <1>5, Kinds DEF InPort
    <3>2. p.key \in Numbers /\ p.key # Listener /\ p.key # None
      BY <3>1, Names DEF Answers
    <3>3. PICK x \in Conns : x = Channel(p) /\ x = slots[p.key]
      BY <3>2, <1>1, <1>4 DEF Channel, Typed
    <3>4. number[x] = p.key /\ stage[x] \in Live \cup {"added"}
      BY <3>2, <3>3, <1>1, Names DEF Named
    <3>5. stage[c] \notin Early /\ stage[c] # "gone"
      BY <3>1, <3>4 DEF Answers
    <3>6. stage[c] \in Live \cup {"cancelled"}
      BY <3>5, <1>1 DEF Typed, Stages
    <3>7. x = c
      BY <3>1, <3>2, <3>4, <3>6, <1>1 DEF Answers, Named
    <3>8. stage[c] \in Live
      BY <3>4, <3>5, <3>7 DEF Early
    <3>9. Has(c, p.op)
      BY <3>1, <3>8 DEF Answers, Found
    <3> QED BY <3>3, <3>7, <3>9
  <2> QED BY <2>1, <2>2
<1>7. over[x] \in Seq(Ops)
  BY <1>1 DEF Typed
<1> QED BY <1>6, <1>7 DEF Contains, Has

LEMMA HandleWriteStep ==
    ASSUME Runs, Running', NEW l \in Loops, HandleWrite(l)
    PROVE  Runs'
<1>1. PICK p : p = Head(port[l])
  OBVIOUS
<1>2. PICK o : o = p.op
  OBVIOUS
<1>3. /\ port[l] # <<>> /\ Channel(p) # None /\ o.kind = "write"
      /\ port' = [port EXCEPT ![l] = Tail(@)]
      /\ Contains(over[Channel(p)], o) /\ TakeOut(o)
  BY <1>1, <1>2 DEF HandleWrite, Takes, Running
<1>4. Typed
  BY DEF Runs
<1>5. /\ p \in Good(l) /\ ~p.aborted /\ o \in Ops /\ o \notin AcceptOps
      /\ o \in ConnOps /\ o \in WriteOps /\ l = LoopOf(o.of)
      /\ stage[o.of] \in Live /\ Answers(p, o.of)
  BY <1>1, <1>2, <1>3, HeadFound, Kinds
<1>6. PICK c \in Conns : c = o.of
  BY <1>5, Kinds
<1>7. Found(o) /\ o.nth = posts[c] /\ writing[c]
  BY <1>2, <1>3, <1>5, <1>6 DEF Answers, Found, Current
<1>26. sendBuf[c] \in Int /\ posted[c] \in Int
  BY <1>4 DEF Typed
<1>8. PICK w \in BOOLEAN : w = (sendBuf[c] > posted[c])
  <2>1. (sendBuf[c] > posted[c]) \in BOOLEAN
    BY <1>26
  <2> QED BY <2>1, Zenon
<1>9. PICK s : s = Step("send", o)
  OBVIOUS
<1>10. s \in Steps /\ s.do = "send" /\ s.of = o
  BY <1>5, <1>9, StepMade
<1>11. PICK todo \in Seq(Steps) : todo = IF w THEN <<s>> ELSE <<>>
  <2>1. <<s>> \in Seq(Steps)
    BY <1>10
  <2>2. <<>> \in Seq(Steps)
    OBVIOUS
  <2> QED BY <2>1, <2>2
<1>12. /\ agenda' = [agenda EXCEPT ![l] = todo]
       /\ toFree' = IF w THEN toFree ELSE toFree \cup {o}
       /\ writing' = [writing EXCEPT ![c] = w]
       /\ UNCHANGED <<based, conns, none, heap, kernel, socketOf, peers, taken, readBuf, posts>>
  <2>2. writing' = [writing EXCEPT ![c] = w]
    BY <1>1, <1>2, <1>6, <1>8 DEF HandleWrite
  <2>3. agenda' = [agenda EXCEPT ![l] = todo]
    BY <1>1, <1>2, <1>3, <1>6, <1>8, <1>9, <1>11 DEF HandleWrite, Takes, Running
  <2>4. toFree' = IF w THEN toFree ELSE toFree \cup {o}
    BY <1>1, <1>2, <1>6, <1>8 DEF HandleWrite
  <2> QED BY <2>2, <2>3, <2>4 DEF HandleWrite
<1>13. Listed(c)
  BY DEF Runs
<1>14. /\ over' \in [Conns \cup {Listener} -> Seq(Ops)]
       /\ \A x \in Conns \cup {Listener} : x # c => over'[x] = over[x]
       /\ IsInjective(over'[c])
       /\ \A a : Has(c, a)' => Has(c, a) /\ a # o
       /\ \A a : Has(c, a) /\ a # o => Has(c, a)'
  <2>1. IsInjective(over[c])
    BY <1>5, <1>6, <1>13 DEF Listed
  <2> QED BY <2>1, <1>3, <1>4, <1>5, <1>6, TakenOut
<1>15. /\ port' \in [Loops -> Seq(Packets)] /\ Returned(o)'
  BY <1>1, <1>2, <1>3, <1>5, <1>12, HeadAlone
<1>16. writing'[c] = w /\ \A d \in Conns : d # c => writing'[d] = writing[d]
  BY <1>4, <1>12 DEF Typed
<1>17. Typed'
  <2>1. agenda' \in [Loops -> Seq(Steps)]
    BY <1>4, <1>12 DEF Typed
  <2>2. toFree' \subseteq WriteOps /\ writing' \in [Conns -> BOOLEAN]
    BY <1>4, <1>5, <1>12 DEF Typed
  <2>3. sendBuf' \in [Conns -> Int] /\ posted' = posted
    <3>1. sendBuf' = [sendBuf EXCEPT ![c] = sendBuf[c] - posted[c]] /\ posted' = posted
      BY <1>1, <1>2, <1>6 DEF HandleWrite
    <3>2. sendBuf[c] - posted[c] \in Int
      BY <1>26
    <3> QED BY <3>1, <3>2, <1>4 DEF Typed
  <2> QED BY <1>4, <1>12, <1>14, <1>15, <2>1, <2>2, <2>3 DEF Typed, conns, peers
<1>18. \A d \in Conns : d # c => Alike(d) /\ SameBytes(d)
  BY <1>6, <1>12, <1>14, <1>16 DEF Alike, SameBytes, conns
<1>19. stage' = stage /\ stage[c] \notin Early
  BY <1>5, <1>6, <1>12 DEF conns, Live, Early
<1>20. ASSUME NEW d \in Conns PROVE Listed(d)'
  <2>1. CASE d = c
    BY <2>1, <1>5, <1>6, <1>12, <1>13, <1>14, <1>19 DEF Listed
  <2>2. CASE d # c
    BY <2>2, <1>18, AlikeListed DEF Runs
  <2> QED BY <2>1, <2>2
<1>21. ASSUME NEW op \in toFree' PROVE Freed(op)'
  <2>1. CASE op \in toFree
    <3>1. Freed(op) /\ op.of \in Conns
      BY <2>1, <1>4, OpKinds DEF Runs, Typed
    <3> QED BY <3>1, <1>7, <1>12, <1>16 DEF Freed
  <2>2. CASE op \notin toFree
    <3>1. op = o /\ ~w
      BY <2>2, <1>12
    <3>2. posts[c] \in Nat
      BY <1>4 DEF Typed
    <3> QED BY <3>1, <3>2, <1>6, <1>7, <1>12, <1>16 DEF Freed
  <2> QED BY <2>1, <2>2
<1>22. ASSUME NEW op \in ConnOps, ~Returned(op), op # o PROVE Kept(op)
  <2>1. CASE op.of # c
    BY <2>1, <1>18, AlikeOps, Kinds
  <2>2. CASE op.of = c
    <3>1. op \in Ops /\ Found(op)
      BY <2>2, <1>5, <1>6, <1>22, Pends, Kinds
    <3>2. op \notin WriteOps
      <4>1. op.kind = "write" => op.nth = o.nth
        BY <2>2, <3>1, <1>7 DEF Found, Current
      <4> QED BY <4>1, <2>2, <3>1, <1>5, <1>6, <1>22, Kinds
    <3>3. op.kind # "write" /\ op \notin toFree'
      BY <3>1, <3>2, <1>5, <1>17, Kinds DEF Typed
    <3>4. Found(op)'
      BY <2>2, <3>1, <3>3, <1>12, <1>14, <1>22 DEF Found, Current
    <3> QED BY <2>2, <3>3, <3>4, <1>12, <1>19 DEF Kept, SameBytes
  <2> QED BY <2>1, <2>2
<1>23. Planned(l)'
  <2>1. agenda'[l] = todo
    BY <1>4, <1>12 DEF Typed
  <2>2. CASE w
    <3>1. DOMAIN todo = {1} /\ todo[1] = s
      BY <2>2, <1>11
    <3>2. /\ posts'[c] = posts[c] /\ posts[c] \in Nat /\ Current(o)' /\ ~Has(c, o)'
          /\ o \in heap' \ toFree' /\ l = LoopOf(c)' /\ stage'[c] \notin Early
      BY <2>2, <1>4, <1>5, <1>6, <1>7, <1>12, <1>14, <1>16, <1>19
      DEF Typed, Current, Found, LoopOf
    <3>3. ToDo(l, s, 1, Len(todo))'
      BY <3>2, <1>6, <1>7, <1>10, <1>15 DEF ToDo
    <3>4. \A i \in DOMAIN todo : ToDo(l, todo[i], i, Len(todo))'
      BY <3>1, <3>3
    <3> QED BY <2>1, <3>4, GoesOn
  <2>3. CASE ~w
    <3>1. DOMAIN todo = {}
      BY <2>3, <1>11
    <3> QED BY <2>1, <3>1, GoesOn
  <2> QED BY <2>2, <2>3
<1>24. /\ UNCHANGED <<based, conns, heap, kernel, socketOf, backlog>>
       /\ over'[Listener] = over[Listener] /\ \A k \in Loops : k # l => agenda'[k] = agenda[k]
  BY <1>4, <1>12, <1>14, Names DEF peers, Typed
<1>25. \A d \in Conns : LoopOf(d) # l => Alike(d) /\ SameBytes(d)
  BY <1>5, <1>6, <1>18
<1> QED BY <1>1, <1>2, <1>3, <1>5, <1>17, <1>20, <1>21, <1>22, <1>23, <1>24, <1>25, TakesStep

\* The bytes of a packet are those that follow.
LEMMA HandleReadBytes ==
    ASSUME Runs, NEW l \in Loops, HandleRead(l), NEW p, p = Head(port[l])
    PROVE  /\ p.op.of \in Conns /\ p.bytes \in Seq(Nat)
           /\ \E t \in Seq(Nat) :
                 /\ readBuf' = [readBuf EXCEPT ![p.op.of] = t]
                 /\ Len(t) = taken[p.op.of]
                 /\ Gapless => t = [i \in 1 .. Len(t) |-> i]
<1>1. port[l] # <<>> /\ Channel(p) # None /\ p.op.kind = "read"
      /\ readBuf' = [readBuf EXCEPT ![p.op.of] = @ \o p.bytes]
  BY DEF HandleRead, Takes
<1>2. Typed /\ port[l] \in Seq(Packets)
  BY DEF Runs, Typed
<1>3. p \in Packets /\ p = port[l][1] /\ 1 \in DOMAIN port[l]
  BY <1>1, <1>2, HeadTailFacts
<1>4. ~p.aborted /\ p \in Good(l) /\ p.op \in Ops
  BY <1>1, <1>3 DEF Channel, Good, ToSet, Packets
<1>5. p.op \notin AcceptOps /\ p.op.of \in Conns
  BY <1>1, <1>4, Kinds
<1>6. InPort(l, p)
  BY <1>4 DEF Runs
<1>7. PICK c \in Conns : c = p.op.of
  BY <1>5
<1>8. PICK s \in Seq(Nat) : s = readBuf[c]
  BY <1>2 DEF Typed
<1>9. PICK n : n = Len(p.bytes)
  OBVIOUS
<1>10. p.bytes = [k \in 1 .. n |-> Len(s) + k] /\ taken[c] = Len(s) + n
  BY <1>1, <1>5, <1>6, <1>7, <1>8, <1>9 DEF InPort, Answers
<1>11. n \in Nat
  BY <1>3, <1>9 DEF Packets
<1>12. PICK b : b = p.bytes
  OBVIOUS
<1>17. b = [i \in 1 .. n |-> Len(s) + i]
  BY <1>10, <1>12
<1>13. /\ b \in Seq(Nat) /\ s \o b \in Seq(Nat) /\ Len(s \o b) = Len(s) + n
       /\ s = [i \in 1 .. Len(s) |-> i] => s \o b = [i \in 1 .. Len(s \o b) |-> i]
  BY <1>11, <1>17, BytesFollow
<1>14. PICK t \in Seq(Nat) : t = s \o b
  BY <1>13
<1>15. readBuf' = [readBuf EXCEPT ![c] = t]
  BY <1>1, <1>7, <1>8, <1>12, <1>14
<1>16. Gapless => t = [i \in 1 .. Len(t) |-> i]
  BY <1>8, <1>13, <1>14 DEF Gapless
<1> QED BY <1>5, <1>7, <1>10, <1>12, <1>13, <1>14, <1>15, <1>16

LEMMA HandleReadOrder ==
    ASSUME Runs, Gapless, NEW l \in Loops, HandleRead(l)
    PROVE  Gapless'
<1>1. PICK p : p = Head(port[l])
  OBVIOUS
<1>2. PICK c \in Conns : c = p.op.of
  BY <1>1, HandleReadBytes
<1>3. PICK t \in Seq(Nat) :
        readBuf' = [readBuf EXCEPT ![c] = t] /\ t = [i \in 1 .. Len(t) |-> i]
  BY <1>1, <1>2, HandleReadBytes
<1>4. readBuf'[c] = t /\ \A d \in Conns : d # c => readBuf'[d] = readBuf[d]
  BY <1>3 DEF Runs, Typed
<1> QED BY <1>3, <1>4 DEF Gapless

LEMMA HandleReadStep ==
    ASSUME Runs, Running', NEW l \in Loops, HandleRead(l)
    PROVE  Runs'
<1>1. PICK p : p = Head(port[l])
  OBVIOUS
<1>2. PICK o : o = p.op
  OBVIOUS
<1>3. /\ port[l] # <<>> /\ Channel(p) # None /\ o.kind = "read"
      /\ port' = [port EXCEPT ![l] = Tail(@)]
      /\ Contains(over[Channel(p)], o) /\ TakeOut(o)
  BY <1>1, <1>2 DEF HandleRead, Takes, Running
<1>4. Typed
  BY DEF Runs
<1>5. /\ p \in Good(l) /\ ~p.aborted /\ o \in Ops /\ o \notin AcceptOps
      /\ o \in ConnOps /\ o \notin WriteOps /\ l = LoopOf(o.of)
      /\ stage[o.of] \in Live /\ Answers(p, o.of)
  BY <1>1, <1>2, <1>3, HeadFound, Kinds
<1>6. PICK c \in Conns : c = o.of
  BY <1>5, Kinds
<1>7. Found(o) /\ o = ReadOp(c) /\ Listed(c)
  BY <1>2, <1>3, <1>5, <1>6, Kinds DEF Answers, Runs
<1>8. PICK t \in Seq(Nat) : readBuf' = [readBuf EXCEPT ![c] = t] /\ Len(t) = taken[c]
  BY <1>1, <1>2, <1>6, HandleReadBytes
<1>9. readBuf' \in [Conns -> Seq(Nat)] /\ Len(readBuf'[c]) = taken[c]
      /\ \A d \in Conns : d # c => readBuf'[d] = readBuf[d]
  BY <1>4, <1>8 DEF Typed
<1>10. PICK close, extra, message, recv :
          /\ close = Step("close", c) /\ extra = Step("extra", c)
          /\ message = Step("message", c) /\ recv = Step("recv", c)
  OBVIOUS
<1>11. /\ close \in Steps /\ close.do = "close" /\ close.of = c
       /\ extra \in Steps /\ extra.do = "extra" /\ extra.of = c
       /\ message \in Steps /\ message.do = "message" /\ message.of = c
       /\ recv \in Steps /\ recv.do = "recv" /\ recv.of = c
  BY <1>10, StepMade
<1>12. PICK t1 \in Seq(Steps) : t1 = <<close>>
  <2>1. <<close>> \in Seq(Steps)
    BY <1>11
  <2> QED BY <2>1
<1>13. PICK t2 \in Seq(Steps) : t2 = <<message, recv>>
  <2>1. <<message, recv>> \in Seq(Steps)
    BY <1>11
  <2> QED BY <2>1
<1>14. PICK t3 \in Seq(Steps) : t3 = <<extra>> \o t2
  <2>1. <<extra>> \in Seq(Steps)
    BY <1>11
  <2> QED BY <2>1, ConcatProperties
<1>15. PICK todo \in {t1, t2, t3} : agenda' = [agenda EXCEPT ![l] = todo]
  <2>1. agenda' = [agenda EXCEPT ![l] =
                     IF Len(p.bytes) = 0 THEN <<close>>
                     ELSE (IF Len(p.bytes) = Room THEN <<extra>> ELSE <<>>) \o <<message, recv>>]
    BY <1>1, <1>2, <1>3, <1>6, <1>10 DEF HandleRead, Takes, Running
  <2>2. <<extra>> \o <<message, recv>> = t3
    BY <1>13, <1>14
  <2>3. <<>> \o <<message, recv>> = t2
    BY <1>13, ConcatEmptySeq
  <2> QED BY <2>1, <2>2, <2>3, <1>12
<1>16. UNCHANGED <<based, conns, none, heap, toFree, kernel, socketOf, peers, taken, out>>
  BY DEF HandleRead
<1>17. /\ over' \in [Conns \cup {Listener} -> Seq(Ops)]
       /\ \A x \in Conns \cup {Listener} : x # c => over'[x] = over[x]
       /\ IsInjective(over'[c])
       /\ \A a : Has(c, a)' => Has(c, a) /\ a # o
       /\ \A a : Has(c, a) /\ a # o => Has(c, a)'
  <2>1. IsInjective(over[c])
    BY <1>5, <1>6, <1>7 DEF Listed
  <2> QED BY <2>1, <1>3, <1>4, <1>5, <1>6, TakenOut
<1>18. /\ port' \in [Loops -> Seq(Packets)] /\ Returned(o)'
  BY <1>1, <1>2, <1>3, <1>5, <1>16, HeadAlone
<1>19. Typed'
  <2>1. agenda' \in [Loops -> Seq(Steps)]
    BY <1>4, <1>15 DEF Typed
  <2> QED BY <1>4, <1>9, <1>16, <1>17, <1>18, <2>1 DEF Typed, conns, peers, out
<1>20. \A d \in Conns : d # c => Alike(d) /\ SameBytes(d)
  BY <1>9, <1>16, <1>17 DEF Alike, SameBytes, conns, out
<1>21. stage' = stage /\ stage[c] \notin Early
  BY <1>5, <1>6, <1>16 DEF conns, Live, Early
<1>22. ASSUME NEW d \in Conns PROVE Listed(d)'
  <2>1. CASE d = c
    BY <2>1, <1>5, <1>6, <1>7, <1>16, <1>17, <1>21 DEF Listed, out
  <2>2. CASE d # c
    BY <2>2, <1>20, AlikeListed DEF Runs
  <2> QED BY <2>1, <2>2
<1>23. ASSUME NEW op \in toFree' PROVE Freed(op)'
  BY <1>16, <1>23 DEF Runs, Freed, out
<1>24. ASSUME NEW op \in ConnOps, op # o PROVE Kept(op)
  <2>1. CASE op.of # c
    BY <2>1, <1>20, AlikeOps, Kinds
  <2>2. CASE op.of = c
    <3>1. op.kind # "read"
      BY <2>2, <1>7, <1>24, Kinds
    <3>2. Found(op) => Found(op)'
      BY <2>2, <1>16, <1>17, <1>24 DEF Found, Current, out
    <3> QED BY <2>2, <3>1, <3>2, <1>16, <1>21 DEF Kept, out
  <2> QED BY <2>1, <2>2
<1>25. Planned(l)'
  <2>1. agenda'[l] = todo /\ todo \in Seq(Steps)
    BY <1>4, <1>15 DEF Typed
  <2>2. l = LoopOf(c)' /\ stage'[c] \notin Early /\ ToRead(c)' /\ ~Has(c, ReadOp(c))'
    BY <1>5, <1>6, <1>7, <1>9, <1>16, <1>17, <1>18, <1>21 DEF LoopOf, ToRead
  <2>3. \A i \in Nat, n \in Nat :
           /\ ToDo(l, close, i, n)' /\ ToDo(l, extra, i, n)' /\ ToDo(l, message, i, n)'
           /\ ToDo(l, recv, n, n)'
    BY <2>2, <1>11 DEF ToDo
  <2>4. CASE todo = t1
    <3>1. DOMAIN todo = {1} /\ todo[1] = close /\ Len(todo) = 1
      BY <2>4, <1>12
    <3>2. \A i \in DOMAIN todo : ToDo(l, todo[i], i, Len(todo))'
      BY <2>3, <3>1
    <3> QED BY <2>1, <3>2, GoesOn
  <2>5. CASE todo = t2
    <3>1. DOMAIN todo = {1, 2} /\ todo[1] = message /\ todo[2] = recv /\ Len(todo) = 2
      BY <2>5, <1>13
    <3>2. \A i \in DOMAIN todo : ToDo(l, todo[i], i, Len(todo))'
      BY <2>3, <3>1
    <3> QED BY <2>1, <3>2, GoesOn
  <2>6. CASE todo = t3
    <3>1. DOMAIN t2 = {1, 2} /\ t2[1] = message /\ t2[2] = recv /\ Len(t2) = 2
      BY <1>13
    <3>2. ToDo(l, extra, 1, Len(t2) + 1)'
      BY <2>3, <3>1
    <3>3. \A i \in DOMAIN t2 : ToDo(l, t2[i], i + 1, Len(t2) + 1)'
      BY <2>3, <3>1
    <3> QED BY <2>1, <2>6, <3>2, <3>3, <1>11, <1>14, StepBefore
  <2> QED BY <2>4, <2>5, <2>6
<1>26. /\ UNCHANGED <<based, conns, heap, kernel, socketOf, backlog>>
       /\ over'[Listener] = over[Listener] /\ \A k \in Loops : k # l => agenda'[k] = agenda[k]
  BY <1>4, <1>15, <1>16, <1>17, Names DEF peers, Typed
<1>27. \A d \in Conns : LoopOf(d) # l => Alike(d) /\ SameBytes(d)
  BY <1>5, <1>6, <1>20
<1> QED BY <1>1, <1>2, <1>3, <1>5, <1>19, <1>22, <1>23, <1>24, <1>25, <1>26, <1>27, TakesStep

\* An accepted connection gets the number that was the operation's.
LEMMA HandleAcceptStep ==
    ASSUME Runs, Running', HandleAccept
    PROVE  Runs'
<1>1. PICK p : p = Head(port["base"])
  OBVIOUS
<1>2. PICK a : a = p.op
  OBVIOUS
<1>3. /\ port["base"] # <<>> /\ Channel(p) # None /\ a.kind = "accept"
      /\ port' = [port EXCEPT !["base"] = Tail(@)]
      /\ Contains(over[Channel(p)], a) /\ TakeOut(a)
  BY <1>1, <1>2 DEF HandleAccept, Takes, Running
<1>4. Typed /\ Named /\ Waits /\ ListenerListed /\ "base" \in Loops
  BY DEF Runs, Loops
<1>5. /\ p \in Good("base") /\ ~p.aborted /\ a \in Ops /\ a \in AcceptOps /\ InPort("base", p)
      /\ a.of = Listener /\ a \notin ConnOps
  BY <1>1, <1>2, <1>3, <1>4, HeadFound, Kinds
<1>6. PICK c \in Conns : Announces(p, c)
  BY <1>2, <1>5 DEF InPort
<1>7. c = Head(p.bytes) /\ stage[c] = "waiting" /\ socketOf[a] # None
  BY <1>2, <1>6 DEF Announces
<1>8. PICK m \in Numbers : m = socketOf[a]
  BY <1>4, <1>5, <1>7 DEF Typed
<1>9. PICK add, est, again :
          /\ add = Step("add", c) /\ est = Step("establish", c) /\ again = Step("accept", a)
  OBVIOUS
<1>10. /\ add \in Steps /\ add.do = "add" /\ est \in Steps /\ est.do = "establish"
       /\ again \in Steps /\ again.do = "accept" /\ again.of = a
  BY <1>5, <1>9, StepMade
<1>11. PICK t1 \in Seq(Steps) : t1 = <<add, est, again>>
  <2>1. <<add, est, again>> \in Seq(Steps)
    BY <1>10
  <2> QED BY <2>1
<1>12. PICK t2 \in Seq(Steps) : t2 = <<again>>
  <2>1. <<again>> \in Seq(Steps)
    BY <1>10
  <2> QED BY <2>1
<1>13. /\ agenda' = [agenda EXCEPT !["base"] = t1] \/ agenda' = [agenda EXCEPT !["base"] = t2]
       /\ number' = [number EXCEPT ![c] = m]
       /\ socketOf' = [socketOf EXCEPT ![a] = None]
       /\ stage' = [stage EXCEPT ![c] = "accepted"]
  BY <1>1, <1>2, <1>3, <1>7, <1>8, <1>9, <1>11, <1>12 DEF HandleAccept, Takes, Running
<1>14. UNCHANGED <<based, slots, none, heap, toFree, kernel, peers, data>>
  BY DEF HandleAccept
<1> USE <1>14 DEF peers, data, out
<1>15. /\ over' \in [Conns \cup {Listener} -> Seq(Ops)]
       /\ \A d \in Conns : over'[d] = over[d]
       /\ IsInjective(over'[Listener])
       /\ \A b : Has(Listener, b)' => Has(Listener, b) /\ b # a
       /\ \A b : Has(Listener, b) /\ b # a => Has(Listener, b)'
  BY <1>3, <1>4, <1>5, TakenOut, Names DEF ListenerListed
<1>16. /\ port' \in [Loops -> Seq(Packets)] /\ Returned(a)'
       /\ \A k \in Loops : Good(k)' \subseteq Good(k) /\ (k # "base" => port'[k] = port[k])
       /\ \A op : Returned(op) => Returned(op)'
       /\ \A k \in Loops : \A q \in Good(k)' : q.op # a
       /\ \A q \in Good("base")' : InOrder(p, q)
  BY <1>1, <1>2, <1>3, <1>4, <1>5, HeadAlone
<1>17. /\ stage'[c] = "accepted" /\ number'[c] = m
       /\ \A d \in Conns : d # c => stage'[d] = stage[d] /\ number'[d] = number[d]
       /\ socketOf'[a] = None /\ \A b \in AcceptOps : b # a => socketOf'[b] = socketOf[b]
  BY <1>4, <1>5, <1>13 DEF Typed
<1>18. Typed'
  <2>1. agenda' \in [Loops -> Seq(Steps)]
    <3>1. agenda \in [Loops -> Seq(Steps)]
      BY <1>4 DEF Typed
    <3> QED BY <3>1, <1>13
  <2>2. /\ number' \in [Conns -> Numbers \cup {None}]
        /\ socketOf' \in [AcceptOps -> Numbers \cup {None}] /\ stage' \in [Conns -> Stages]
    BY <1>4, <1>13 DEF Typed, Stages, Early
  <2> QED BY <1>4, <1>15, <1>16, <2>1, <2>2 DEF Typed
<1>19. Named'
  <2>1. \A d \in Conns : number[d] # m
    BY <1>5, <1>7, <1>8, <1>4 DEF Named
  <2>2. \A b \in AcceptOps : b # a => socketOf[b] # m
    BY <1>4, <1>5, <1>7, <1>8 DEF Named
  <2>3. \A d, e \in Conns : number'[d] = number'[e] /\ number'[d] # None => d = e
    BY <2>1, <1>4, <1>17 DEF Named
  <2>4. \A x, y \in AcceptOps : socketOf'[x] = socketOf'[y] /\ socketOf'[x] # None => x = y
    BY <1>4, <1>17 DEF Named
  <2>5. \A d \in Conns, x \in AcceptOps : number'[d] = socketOf'[x] => number'[d] = None
    BY <2>2, <1>4, <1>17 DEF Named
  <2>6. ASSUME NEW n \in Numbers, slots[n] # None
        PROVE  number'[slots[n]] = n /\ stage'[slots[n]] \in Live \cup {"added"}
    <3>1. /\ slots[n] \in Conns /\ number[slots[n]] = n
          /\ stage[slots[n]] \in Live \cup {"added"}
      BY <2>6, <1>4 DEF Named, Typed
    <3>2. slots[n] # c
      BY <3>1, <1>7 DEF Live
    <3> QED BY <3>1, <3>2, <1>17
  <2>7. ASSUME NEW d \in Conns, stage'[d] \in Live \cup {"accepted", "added", "cancelled"}
        PROVE  number'[d] # None
    BY <2>7, <1>4, <1>8, <1>17, Names DEF Named
  <2> QED BY <2>3, <2>4, <2>5, <2>6, <2>7 DEF Named
<1>20. Waits'
  <2>1. \A i \in DOMAIN backlog : backlog[i] # c /\ backlog[i] \in Conns
    BY <1>4, <1>6 DEF Announces, Typed
  <2> QED BY <2>1, <1>4, <1>17 DEF Waits
<1>21. \A d \in Conns : SameBytes(d) /\ (d # c => Alike(d))
  BY <1>15, <1>17 DEF SameBytes, Alike
<1>22. ASSUME NEW d \in Conns PROVE Listed(d)'
  <2>1. CASE d = c
    <3>1. stage[c] \in Early /\ stage'[c] \in Early /\ stage'[c] \notin Live
      BY <1>7, <1>17 DEF Early, Live
    <3> QED BY <2>1, <3>1, <1>15 DEF Runs, Listed, Has
  <2>2. CASE d # c
    BY <2>2, <1>21, AlikeListed DEF Runs
  <2> QED BY <2>1, <2>2
<1>23. ListenerListed'
  BY <1>4, <1>15 DEF ListenerListed
<1>24. \A op \in toFree' : Freed(op)'
  BY DEF Runs, Freed
<1>25. ASSUME NEW op \in ConnOps, stage[op.of] \notin Early PROVE Kept(op) /\ op.of # c
  <2>1. op.of # c
    BY <1>7, <1>25 DEF Early
  <2> QED BY <2>1, <1>21, AlikeOps, Kinds
<1>26. ASSUME NEW op \in kernel PROVE InKernel(op)'
  <2>1. InKernel(op) /\ op \in Ops
    BY <1>4 DEF Runs, Typed
  <2>2. CASE op \in AcceptOps
    <3>1. op # a
      BY <1>2, <1>5 DEF InPort
    <3> QED BY <2>1, <2>2, <3>1, <1>15, <1>17 DEF InKernel
  <2>3. CASE op \notin AcceptOps
    <3>1. op \in ConnOps /\ stage[op.of] \notin Early
      BY <2>1, <2>3, Kinds DEF InKernel
    <3> QED BY <2>1, <3>1, <1>25, KernelKept
  <2> QED BY <2>2, <2>3
<1>27. ASSUME NEW k \in Loops, NEW q \in Good(k)' PROVE InPort(k, q)'
  <2>1. q \in Good(k) /\ InPort(k, q) /\ q \in Packets /\ q.op \in Ops /\ q.op # a
        /\ q.op \notin kernel'
    BY <1>4, <1>16, GoodPackets DEF Runs, InPort
  <2>2. CASE q.op \in AcceptOps
    <3>1. k = "base" /\ p.bytes # q.bytes
      BY <2>1, <2>2, <1>2, <1>5, <1>16 DEF InPort, InOrder
    <3>2. ASSUME NEW d \in Conns, Announces(q, d)
          PROVE  stage'[d] = "waiting" /\ \A i \in DOMAIN backlog' : backlog'[i] # d
      <4>1. d # c
        BY <3>1, <3>2, <1>6 DEF Announces
      <4> QED BY <4>1, <3>2, <1>17 DEF Announces
    <3> QED BY <2>1, <2>2, <3>2, <1>15, <1>17, AnnounceKept
  <2>3. CASE q.op \notin AcceptOps
    <3>1. PICK e \in Conns : e = q.op.of /\ q.op \in ConnOps /\ Answers(q, e) /\ k = LoopOf(e)
      BY <2>1, <2>3, Kinds DEF InPort
    <3>2. e # c /\ Kept(q.op)
      BY <3>1, <1>25 DEF Answers
    <3>3. ASSUME stage'[e] = "gone", based, NEW d \in Conns PROVE number'[d] # q.key
      <4>1. stage[e] = "gone" /\ number[d] # q.key
        BY <3>1, <3>2, <3>3, <1>17 DEF Answers
      <4>2. k = "base"
        BY <3>1, <3>3, Names
      <4>3. m # q.key
        BY <4>2, <2>3, <1>2, <1>5, <1>8, <1>16 DEF InOrder
      <4> QED BY <4>1, <4>3, <1>17
    <3>4. stage'[e] \in Live \cup {"cancelled"} =>
              stage[e] \in Early \cup Live \cup {"cancelled"} /\ number'[e] = number[e]
      BY <3>2, <1>17
    <3>5. stage'[e] = "gone" /\ based => \A d \in Conns : number'[d] # q.key
      BY <3>3
    <3> QED BY <2>1, <3>1, <3>2, <3>4, <3>5, <1>4, PacketKept
  <2> QED BY <2>2, <2>3
<1>28. ASSUME NEW k \in Loops PROVE Ordered(k)'
  <2>1. CASE k = "base"
    <3>1. \A i, j \in DOMAIN port'["base"] :
              i < j /\ port'["base"][i] \in Good("base")' /\ port'["base"][j] \in Good("base")' =>
                  InOrder(port'["base"][i], port'["base"][j])
      BY <1>1, <1>3, <1>4, PacketGoes DEF Runs
    <3>2. \A x, y \in Good("base")' : InOrder(x, y) => InOrder(x, y)'
      BY <1>4, <1>16, <1>17 DEF InOrder
    <3> QED BY <2>1, <3>1, <3>2 DEF Ordered
  <2>2. CASE k # "base"
    <3>1. port'[k] = port[k]
      BY <2>2, <1>16
    <3>2. Good(k)' = Good(k)
      BY <3>1, PortsSame
    <3>3. \A q \in Good(k) : q.op \in AcceptOps => socketOf'[q.op] = socketOf[q.op]
      BY <3>2, <1>16, <1>17
    <3> QED BY <3>1, <3>3, PortsSame DEF Runs
  <2> QED BY <2>1, <2>2
<1>29. Planned("base")'
  <2>1. agenda'["base"] = t1 \/ agenda'["base"] = t2
    BY <1>4, <1>13 DEF Typed
  <2>2. \A i \in Nat, n \in Nat :
           ToDo("base", add, i, n)' /\ ToDo("base", est, i, n)' /\ ToDo("base", again, n, n)'
    BY <1>10, <1>15, <1>16 DEF ToDo
  <2>3. CASE agenda'["base"] = t1
    <3>1. DOMAIN t1 = {1, 2, 3} /\ t1[1] = add /\ t1[2] = est /\ t1[3] = again /\ Len(t1) = 3
      BY <1>11
    <3>2. \A i \in DOMAIN t1 : ToDo("base", t1[i], i, Len(t1))'
      BY <2>2, <3>1
    <3> QED BY <2>3, <3>2, <1>4, GoesOn
  <2>4. CASE agenda'["base"] = t2
    <3>1. DOMAIN t2 = {1} /\ t2[1] = again /\ Len(t2) = 1
      BY <1>12
    <3>2. \A i \in DOMAIN t2 : ToDo("base", t2[i], i, Len(t2))'
      BY <2>2, <3>1
    <3> QED BY <2>4, <3>2, <1>4, GoesOn
  <2> QED BY <2>1, <2>3, <2>4
<1>30. Planned("pool")'
  <2>1. "pool" \in Loops /\ "pool" # "base" /\ Planned("pool") /\ agenda'["pool"] = agenda["pool"]
    BY <1>4, <1>13 DEF Loops, Runs, Typed
  <2>2. \A d \in Conns : stage[d] \notin Early => Alike(d)
    BY <1>7, <1>21 DEF Early
  <2> QED BY <2>1, <2>2, <1>4, <1>16, <1>21, PlannedKept
<1>31. \A l \in Loops : Planned(l)'
  BY <1>29, <1>30 DEF Loops
<1> QED BY <1>18, <1>19, <1>20, <1>22, <1>23, <1>24, <1>26, <1>27, <1>28, <1>31 DEF Runs

-----------------------------------------------------------------------------
(* The inductive invariant.                                                *)

LEMMA InitEstablishes == Init => IInv
<1> SUFFICES ASSUME Init PROVE IInv
  OBVIOUS
<1> USE DEF Init
<1>1. /\ \A i \in 1 .. Accepts : AcceptOp(i) \in AcceptOps /\ AcceptOp(i).of = Listener
      /\ \A i, j \in 1 .. Accepts : AcceptOp(i) = AcceptOp(j) => i = j
      /\ AcceptOps \subseteq Ops
  BY Kinds DEF AcceptOps, AcceptOp
<1>2. PICK listed : listed = [i \in 1 .. Accepts |-> AcceptOp(i)]
  OBVIOUS
<1>3. listed \in Seq(Ops)
  <2>1. listed \in [1 .. Accepts -> Ops] /\ Accepts \in Nat
    BY <1>1, <1>2, OverlappedAssumption
  <2> QED BY <2>1, SeqDef
<1>4. over[Listener] = listed /\ \A c \in Conns : over[c] = <<>>
  BY <1>2, Names
<1>5. Typed
  <2>1. over \in [Conns \cup {Listener} -> Seq(Ops)]
    <3>1. <<>> \in Seq(Ops)
      OBVIOUS
    <3>2. over = [x \in Conns \cup {Listener} |-> IF x = Listener THEN listed ELSE <<>>]
      BY <1>2
    <3> QED BY <3>1, <3>2, <1>3
  <2>2. socketOf \in [AcceptOps -> Numbers]
    OBVIOUS
  <2>3. stage \in [Conns -> Stages]
    BY DEF Stages, Early
  <2>4. port \in [Loops -> Seq(Packets)] /\ agenda \in [Loops -> Seq(Steps)]
        /\ backlog \in Seq(Conns) /\ readBuf \in [Conns -> Seq(Nat)]
    OBVIOUS
  <2> QED BY <2>1, <2>2, <2>3, <2>4, <1>1 DEF Typed
<1>6. Named
  <2>1. \A a, b \in AcceptOps : socketOf[a] = socketOf[b] => a = b
    <3>1. PICK f \in [AcceptOps -> Numbers] : IsInjective(f) /\ socketOf = f
      OBVIOUS
    <3> QED BY <3>1 DEF IsInjective
  <2>2. \A a \in AcceptOps : socketOf[a] # None
    BY Names
  <2> QED BY <2>1, <2>2 DEF Named, Live
<1>7. Waits
  BY DEF Waits, IsInjective
<1>8. ASSUME NEW c \in Conns PROVE Listed(c)
  <2>1. stage[c] \in Early /\ stage[c] \notin Live /\ over[c] = <<>> /\ readBuf[c] = <<>> /\ taken[c] = 0
    BY <1>4 DEF Early, Live
  <2> QED BY <2>1 DEF Listed, Has
<1>9. /\ \A op : Has(Listener, op) <=> \E i \in 1 .. Accepts : op = AcceptOp(i)
      /\ \A op : Has(Listener, op) <=> op \in AcceptOps
  BY <1>2, <1>4 DEF Has, AcceptOps
<1>10. ListenerListed
  BY <1>1, <1>2, <1>4, <1>9 DEF ListenerListed, IsInjective
<1>11. ASSUME NEW op \in kernel PROVE InKernel(op)
  BY <1>9, Names DEF InKernel
<1>12. ASSUME NEW l \in Loops PROVE (\A p \in Good(l) : InPort(l, p)) /\ Ordered(l) /\ Planned(l)
  <2>1. port[l] = <<>> /\ agenda[l] = <<>>
    OBVIOUS
  <2> QED BY <2>1 DEF Good, ToSet, Ordered, Planned
<1>13. Runs
  BY <1>5, <1>6, <1>7, <1>8, <1>10, <1>11, <1>12 DEF Runs
<1>14. ReadsInOrder
  <2>1. \A c \in Conns : readBuf[c] = <<>>
    OBVIOUS
  <2>2. <<>> = [i \in 1 .. Len(<<>>) |-> i]
    OBVIOUS
  <2> QED BY <2>1, <2>2 DEF ReadsInOrder
<1> QED BY <1>13, <1>14 DEF IInv, StalePacketTakesPool

\* What ends the process by other means than the abort of process.
Otherwise == {"freed", "socket", "slot", "erase", "model"}

\* A step that reads nothing and does not abort.
LEMMA Quiet ==
    ASSUME IInv, Running, based' = based, readBuf' = readBuf,
           failed' = failed \/ failed' \in Otherwise,
           Running' => Runs'
    PROVE  IInv'
<1>1. ReadsInOrder'
  BY DEF IInv, ReadsInOrder, Running
<1>2. StalePacketTakesPool'
  BY DEF Running, StalePacketTakesPool, Otherwise
<1> QED BY <1>1, <1>2 DEF IInv

LEMMA OutsideKeeps ==
    ASSUME IInv, PeersNext \/ KernelNext \/ \E c \in Conns : CloseSocket(c)
    PROVE  IInv'
<1>1. ASSUME NEW c \in Conns, PeerConnects(c) PROVE IInv'
  BY <1>1, PeerConnectsStep, Quiet DEF IInv, PeerConnects, data
<1>2. ASSUME NEW c \in Conns, PeerSends(c) \/ PeerEnds(c) PROVE IInv'
  BY <1>2, PeerSendsStep, Quiet DEF IInv, PeerSends, PeerEnds, data
<1>3. ASSUME NEW o \in AcceptOps, KernelAccepts(o) PROVE IInv'
  BY <1>3, KernelAcceptsStep, Quiet DEF IInv, KernelAccepts, data
<1>4. ASSUME NEW c \in Conns, KernelReads(c) PROVE IInv'
  BY <1>4, KernelReadsStep, Quiet DEF IInv, KernelReads
<1>5. ASSUME NEW c \in Conns, NEW k \in 1 .. posts[c], KernelWrites(c, k) PROVE IInv'
  BY <1>5, KernelWritesStep, Quiet DEF IInv, KernelWrites, data
<1>6. ASSUME NEW c \in Conns, KernelAborts(c) PROVE IInv'
  BY <1>6, KernelAbortsStep, Quiet DEF IInv, KernelAborts, data
<1>7. ASSUME NEW c \in Conns, CloseSocket(c) PROVE IInv'
  BY <1>7, CloseSocketStep, Quiet DEF IInv, CloseSocket, data
<1> QED BY <1>1, <1>2, <1>3, <1>4, <1>5, <1>6, <1>7 DEF PeersNext, KernelNext

\* A packet that does not find its operation is one on the pool, whatever then happens.
LEMMA StaleTakesPool ==
    ASSUME Runs, NEW l \in Loops, Stale(l)
    PROVE  ~based
<1>1. PICK p : p = Head(port[l])
  OBVIOUS
<1>2. port[l] # <<>> /\ Channel(p) # None /\ ~Contains(over[Channel(p)], p.op)
  BY <1>1 DEF Stale
<1> QED BY <1>1, <1>2, FoundOnBase

LEMMA StaleKeeps ==
    ASSUME IInv, NEW l \in Loops, Stale(l)
    PROVE  IInv'
<1>1. Running /\ Runs /\ based' = based /\ failed' \in {"abort", "mistaken"}
  BY DEF Stale, Idle, IInv
<1>2. failed' = "abort" => readBuf' = readBuf
  BY DEF Stale
<1>3. ReadsInOrder'
  BY <1>1, <1>2 DEF IInv, ReadsInOrder, Running
<1>4. StalePacketTakesPool'
  BY <1>1, StaleTakesPool DEF StalePacketTakesPool
<1> QED BY <1>1, <1>3, <1>4 DEF IInv, Running

LEMMA ProcessKeeps ==
    ASSUME IInv, NEW l \in Loops, Process(l)
    PROVE  IInv'
<1>1. CASE PassOver(l)
  BY <1>1, PassOverStep, Quiet DEF IInv, PassOver, Idle, data
<1>2. ASSUME HandleRead(l) \/ HandleWrite(l) \/ (l = "base" /\ HandleAccept)
      PROVE  IInv'
  <2>1. Running /\ Running' /\ Runs /\ failed' = failed
    BY <1>2 DEF HandleRead, HandleWrite, HandleAccept, Takes, Idle, IInv, Running
  <2>2. StalePacketTakesPool'
    BY <2>1 DEF StalePacketTakesPool, Running
  <2>3. Gapless
    BY <2>1 DEF IInv, ReadsInOrder, Gapless, Running
  <2>4. Gapless'
    <3>1. CASE HandleRead(l)
      BY <3>1, <2>1, <2>3, HandleReadOrder
    <3>2. CASE HandleWrite(l) \/ HandleAccept
      BY <3>2, <2>3 DEF Gapless, HandleWrite, HandleAccept, data
    <3> QED BY <3>1, <3>2, <1>2
  <2>5. Runs'
    BY <1>2, <2>1, HandleReadStep, HandleWriteStep, HandleAcceptStep
  <2> QED BY <2>2, <2>4, <2>5 DEF IInv, ReadsInOrder, Gapless
<1>3. CASE Stale(l)
  BY <1>3, StaleKeeps
<1> QED BY <1>1, <1>2, <1>3 DEF Process

LEMMA HandlerKeeps ==
    ASSUME IInv, NEW l \in Loops, Handler(l)
    PROVE  IInv'
<1>1. CASE ExtraRead(l)
  <2>1. Running /\ Runs /\ failed' = failed
    BY <1>1 DEF ExtraRead, Doing, IInv
  <2>4. Gapless
    BY <2>1 DEF IInv, ReadsInOrder, Gapless, Running
  <2>2. Runs' /\ ReadsInOrder'
    BY <1>1, <2>1, <2>4, ExtraReadStep DEF ReadsInOrder, Gapless
  <2>3. StalePacketTakesPool'
    BY <2>1 DEF Running, StalePacketTakesPool
  <2> QED BY <2>2, <2>3 DEF IInv
<1>2. CASE Message(l)
  <2>1. Running /\ based' = based /\ readBuf' = readBuf /\ failed' = failed
    BY <1>2 DEF Message, Doing, Send, data
  <2> QED BY <1>2, <2>1, MessageStep, Quiet DEF IInv
<1>3. CASE PostRecv(l)
  <2>1. Running /\ based' = based /\ readBuf' = readBuf /\ (failed' = failed \/ failed' \in Otherwise)
    BY <1>3 DEF PostRecv, Doing, Post, Fails, data, Otherwise
  <2> QED BY <1>3, <2>1, PostRecvStep, Quiet DEF IInv
<1>4. CASE PostSend(l)
  <2>1. Running /\ based' = based /\ readBuf' = readBuf /\ (failed' = failed \/ failed' \in Otherwise)
    BY <1>4 DEF PostSend, Doing, Post, Fails, Otherwise
  <2> QED BY <1>4, <2>1, PostSendStep, Quiet DEF IInv
<1>5. CASE Close(l)
  <2>1. Running /\ based' = based /\ readBuf' = readBuf /\ (failed' = failed \/ failed' \in Otherwise)
    BY <1>5 DEF Close, Doing, Fails, Otherwise
  <2> QED BY <1>5, <2>1, CloseStep, Quiet DEF IInv
<1>6. CASE PostAccept
  <2>1. Running /\ based' = based /\ readBuf' = readBuf /\ (failed' = failed \/ failed' \in Otherwise)
    BY <1>6 DEF PostAccept, Doing, Fails, data, Otherwise
  <2> QED BY <1>6, <2>1, PostAcceptStep, Quiet DEF IInv
<1> QED BY <1>1, <1>2, <1>3, <1>4, <1>5, <1>6 DEF Handler

LEMMA TaskKeeps ==
    ASSUME IInv, NEW l \in Loops, Task(l) \/ UserNext(l)
    PROVE  IInv'
<1>1. CASE Add(l)
  <2>1. Running /\ based' = based /\ readBuf' = readBuf /\ (failed' = failed \/ failed' \in Otherwise)
    BY <1>1 DEF Add, Doing, Idle, Fails, data, Otherwise
  <2> QED BY <1>1, <2>1, AddStep, Quiet DEF IInv
<1>2. CASE Establish(l)
  <2>1. Running /\ based' = based /\ readBuf' = readBuf /\ (failed' = failed \/ failed' \in Otherwise)
    BY <1>2 DEF Establish, Doing, Idle, Post, Fails, data, Otherwise
  <2> QED BY <1>2, <2>1, EstablishStep, Quiet DEF IInv
<1>3. CASE DestroyTask(l)
  BY <1>3, DestroyTaskStep, Quiet DEF IInv, DestroyTask, Idle
<1>4. CASE FreeTask(l)
  BY <1>4, FreeTaskStep, Quiet DEF IInv, FreeTask, Idle, data
<1>5. CASE Shutdown(l)
  BY <1>5, ShutdownStep, Quiet DEF IInv, Shutdown, Idle, data
<1>6. CASE SendTask(l)
  <2>1. Running /\ based' = based /\ readBuf' = readBuf /\ failed' = failed
    BY <1>6 DEF SendTask, Idle, Send
  <2> QED BY <1>6, <2>1, SendTaskStep, Quiet DEF IInv
<1> QED BY <1>1, <1>2, <1>3, <1>4, <1>5, <1>6 DEF Task, UserNext

LEMMA StutterKeeps ==
    ASSUME IInv, UNCHANGED vars
    PROVE  IInv'
<1> USE DEF vars, conns, lists, peers, data, out
<1>1. ASSUME Runs PROVE Runs'
  <2>1. Typed'
    BY <1>1 DEF Runs, Typed
  <2>2. Named' /\ Waits'
    BY <1>1 DEF Runs, Named, Waits
  <2>3. \A c \in Conns : Listed(c)'
    BY <1>1 DEF Runs, Listed, Has
  <2>4. ListenerListed' /\ \A op \in toFree' : Freed(op)'
    BY <1>1 DEF Runs, ListenerListed, Has, Freed
  <2>5. \A op : Found(op)' <=> Found(op)
    BY DEF Found, Has, Current
  <2>6. \A op \in kernel' : InKernel(op)'
    BY <1>1, <2>5 DEF Runs, InKernel, Has
  <2>7. \A l \in Loops : Good(l)' = Good(l)
    BY DEF Good
  <2>8. \A l \in Loops : \A p \in Good(l)' : InPort(l, p)'
    <3>1. \A p, c : Announces(p, c)' <=> Announces(p, c)
      BY DEF Announces, Has
    <3>2. ASSUME NEW p, NEW c PROVE Answers(p, c)' <=> Answers(p, c)
      <4>1. Found(p.op)' <=> Found(p.op)
        BY DEF Found, Has, Current
      <4> QED BY <4>1 DEF Answers
    <3>3. \A l, p : InPort(l, p)' <=> InPort(l, p)
      BY <3>1, <3>2 DEF InPort, LoopOf
    <3> QED BY <1>1, <2>7, <3>3 DEF Runs
  <2>9. \A l \in Loops : Ordered(l)'
    BY <1>1, <2>7 DEF Runs, Ordered, InOrder
  <2>10. \A l \in Loops : Planned(l)'
    <3>1. \A op : Returned(op)' <=> Returned(op)
      BY <2>7 DEF Returned
    <3>2. \A c : ToRead(c)' <=> ToRead(c)
      BY <3>1 DEF ToRead, ReadOp
    <3>3. /\ \A x, op : Has(x, op)' <=> Has(x, op)
          /\ \A op : Current(op)' <=> Current(op)
          /\ \A c : LoopOf(c)' = LoopOf(c)
      BY DEF Has, Current, LoopOf
    <3>4. \A l, s, i, n : ToDo(l, s, i, n)' <=> ToDo(l, s, i, n)
      BY <3>1, <3>2, <3>3 DEF ToDo
    <3>5. agenda' = agenda
      OBVIOUS
    <3> QED BY <1>1, <3>4, <3>5 DEF Runs, Planned
  <2> QED BY <2>1, <2>2, <2>3, <2>4, <2>6, <2>8, <2>9, <2>10 DEF Runs
<1>2. ReadsInOrder' /\ StalePacketTakesPool'
  BY DEF IInv, ReadsInOrder, StalePacketTakesPool
<1> QED BY <1>1, <1>2 DEF IInv, Running

\* The inductive invariant holds in every reachable state.
THEOREM Invariance == Spec => []IInv
<1>1. ASSUME IInv, [Next]_vars PROVE IInv'
  <2>1. CASE PeersNext \/ KernelNext \/ \E c \in Conns : CloseSocket(c)
    BY <1>1, <2>1, OutsideKeeps
  <2>2. ASSUME NEW l \in Loops, LoopNext(l) \/ UserNext(l) PROVE IInv'
    BY <1>1, <2>2, ProcessKeeps, HandlerKeeps, TaskKeeps DEF LoopNext
  <2>3. CASE UNCHANGED vars
    BY <1>1, <2>3, StutterKeeps
  <2> QED BY <1>1, <2>1, <2>2, <2>3 DEF Next
<1> QED BY <1>1, InitEstablishes, PTL DEF Spec

\* The packet of every operation of a living channel finds its operation: once in the
\* list, not of those that the kernel refused, and not deleted, however many
\* connections share the loops and however their numbers are used again, until on the
\* pool the memory of an operation is used again before its packet is looked at.
THEOREM FoundCorrect == Spec => []PendingIsFound
<1>1. ASSUME IInv PROVE PendingIsFound
  <2> SUFFICES ASSUME Runs, NEW op \in Pending, op.of = Listener \/ Open(op.of)
               PROVE  /\ Cardinality({i \in DOMAIN over[op.of] : over[op.of][i] = op}) = 1
                      /\ op \notin none /\ op \in heap \ toFree
    BY <1>1 DEF IInv, PendingIsFound
  <2>1. Typed
    BY DEF Runs
  <2>2. op \in Ops /\ ~Returned(op)
    <3>1. CASE op \in kernel
      BY <3>1, <2>1 DEF Returned, Typed
    <3>2. CASE op \notin kernel
      <4>1. PICK l \in Loops : \E p \in ToSet(port[l]) : ~p.aborted /\ op = p.op
        BY <3>2 DEF Pending
      <4>2. PICK p \in Good(l) : op = p.op
        BY <4>1 DEF Good
      <4> QED BY <4>2, <2>1, GoodPackets DEF Returned
    <3> QED BY <3>1, <3>2
  <2>3. Has(op.of, op) /\ IsInjective(over[op.of]) /\ op \notin none /\ op \in heap \ toFree
    <3>1. CASE op \in AcceptOps
      <4>1. Has(Listener, op) /\ op.of = Listener
        BY <3>1, <2>2, Pends, Kinds
      <4>2. op \notin ConnOps /\ op \notin WriteOps
        BY <3>1, <2>2, Kinds
      <4> QED BY <4>1, <4>2, <3>1, <2>1 DEF Runs, ListenerListed, Typed
    <3>2. CASE op \notin AcceptOps
      <4>1. PICK c \in Conns : c = op.of /\ op \in ConnOps
        BY <3>2, <2>2, Kinds
      <4>2. stage[c] \notin Early /\ (stage[c] \in Live => Found(op))
        BY <4>1, <2>2, Pends
      <4>3. Open(c)
        BY <4>1, Names
      <4>4. stage[c] \in Live
        BY <4>2, <4>3, <2>1 DEF Open, Typed, Stages
      <4>5. Listed(c)
        BY DEF Runs
      <4> QED BY <4>1, <4>2, <4>4, <4>5 DEF Listed, Found
    <3> QED BY <3>1, <3>2
  <2>4. PICK i \in DOMAIN over[op.of] : over[op.of][i] = op
    BY <2>3 DEF Has
  <2>5. {j \in DOMAIN over[op.of] : over[op.of][j] = op} = {i}
    BY <2>3, <2>4 DEF IsInjective
  <2> QED BY <2>3, <2>5, FS_Singleton
<1> QED BY <1>1, Invariance, PTL

\* process aborts, or takes a packet for another's, on a loop of the pool or not at all: on
\* the base loop a packet whose socket was closed is passed over before another socket
\* can have its number, wherever the operations are in memory.
THEOREM AbortTakesPool == Spec => []StalePacketTakesPool
<1>1. IInv => StalePacketTakesPool
  BY DEF IInv
<1> QED BY <1>1, Invariance, PTL

\* What the first read, the extra one and the next bring is appended in the order it was
\* sent, without a gap, on every connection and in every interleaving with the kernel, as
\* long as no packet was taken for another's; on the base loop none ever is.
THEOREM ReadsCorrect == Spec => []ReadsInOrder
<1>1. IInv => ReadsInOrder
  BY DEF IInv
<1> QED BY <1>1, Invariance, PTL
===============================================================================
