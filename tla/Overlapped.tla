----------------------------- MODULE Overlapped -----------------------------
(***************************************************************************)
(* The overlapped operations of a Windows server: who holds them, from     *)
(* WSARecv, WSASend and AcceptEx to the completion port, through           *)
(* IOCPFdEventManager::process to the handlers of WSAcceptProactor and     *)
(* WSProactor, and to the end of the connection that cancels them.         *)
(*                                                                         *)
(* A channel lists the operations it has posted (Channel::over).  The      *)
(* kernel queues a packet for each that ends; process looks its channel up *)
(* by the number of the socket, takes the operation out of the list and    *)
(* runs the handler.  Socket numbers are used again, and so is the memory  *)
(* of the operations, by whose addresses the list is searched.  The        *)
(* connections are on the base loop, which also accepts, or all on one     *)
(* thread of the pool.  What they send has bytes: see Sending for what     *)
(* has none.                                                               *)
(*                                                                         *)
(* What a handler has still to do is its loop's agenda: the kernel goes on *)
(* meanwhile, other events and tasks of that loop do not.                  *)
(***************************************************************************)
EXTENDS Integers, SequencesExt

CONSTANTS
    Conns,      \* the connections peers ask for
    Numbers,    \* the numbers sockets get
    Listener,   \* the acceptor's channel
    None,       \* no number, no channel
    Accepts,    \* simultaneousAccepts: 32
    Bytes,      \* Bytes[c]: how many bytes the peer of c may send
    Ends,       \* Ends[c]: how the peer of c may end
    Room,       \* the bytes one WSARecv may bring, at least MinRecvBufferSize
    Sends,      \* Sends[c]: how often the user of c sends
    Closers     \* the connections whose user calls shutdown


ASSUME OverlappedAssumption ==
    /\ Accepts \in Nat \ {0} /\ Room \in Nat \ {0}
    /\ Bytes \in [Conns -> Nat] /\ Sends \in [Conns -> Nat]
    /\ Ends \in [Conns -> SUBSET {"fin", "reset"}]
    /\ Closers \subseteq Conns
    /\ None \notin Numbers \cup Conns
    /\ Listener \notin Conns \cup Numbers \cup {None}

\* The objects derived from Proactor::Over; a connection has one for reading, and
\* a new one for each time it begins to write.
AcceptOp(i) == [kind |-> "accept", of |-> Listener, nth |-> i]
ReadOp(c) == [kind |-> "read", of |-> c, nth |-> 0]
WriteOp(c, k) == [kind |-> "write", of |-> c, nth |-> k]
AcceptOps == {AcceptOp(i) : i \in 1 .. Accepts}

Loops == {"base", "pool"}

VARIABLES
    based,    \* are the connections on the base loop?  never changes
    stage,    \* how far each connection has come
    number,   \* the number of its socket
    slots,    \* FdEventManager::channels of the connections' loop
    over,     \* Channel::over
    none,     \* the operations of type NONE: listed, but refused by the kernel
    heap,     \* the operations that were not deleted
    toFree,   \* those that tasks of addFree will delete
    kernel,   \* the operations the kernel works on
    port,     \* port[l]: the packets of the completion port of l
    socketOf, \* AcceptOverlapped::sockfd
    agenda,   \* what the handler that runs on each loop has still to do
    backlog,  \* the connections that wait to be accepted
    sent,     \* how many bytes the peer has sent
    end,      \* how the peer has ended: "no", "fin", "reset"
    taken,    \* how many of its bytes the kernel has handed out
    readBuf,  \* the bytes in recvBuffer, in order
    sendBuf,  \* the messages in sendBuffer
    posted,   \* those of them the write operation was posted with
    writing,  \* Channel::isWriting
    sends,    \* how often the user has sent
    posts,    \* how many write operations the connection has created
    failed    \* "no", or what ends the process: see the actions that set it

conns == <<stage, number, slots>>
lists == <<over, none, heap, toFree>>
peers == <<backlog, sent, end>>
out == <<sendBuf, posted, writing, sends, posts>>
data == <<taken, readBuf, out>>
vars == <<based, conns, lists, kernel, port, socketOf, agenda, peers, data, failed>>

LoopOf(c) == IF based THEN "base" ELSE "pool"

Running == failed = "no"
Idle(l) == Running /\ agenda[l] = <<>>

Step(do, of) == [do |-> do, of |-> of]
Packet(key, op, bytes) == [key |-> key, op |-> op, bytes |-> bytes, aborted |-> FALSE]

\* The numbers no socket has.
FreeNumbers ==
    Numbers \ ({number[c] : c \in Conns} \cup {socketOf[op] : op \in AcceptOps})

\* The acceptor has listened and posted its operations.
Init ==
    /\ based \in BOOLEAN
    /\ stage = [c \in Conns |-> "away"]
    /\ number = [c \in Conns |-> None]
    /\ slots = [n \in Numbers |-> None]
    /\ over = [x \in Conns \cup {Listener} |->
                IF x = Listener THEN [i \in 1 .. Accepts |-> AcceptOp(i)] ELSE <<>>]
    /\ none = {}
    /\ heap = AcceptOps
    /\ toFree = {}
    /\ kernel = AcceptOps
    /\ port = [l \in Loops |-> <<>>]
    /\ \E f \in [AcceptOps -> Numbers] : IsInjective(f) /\ socketOf = f
    /\ agenda = [l \in Loops |-> <<>>]
    /\ backlog = <<>>
    /\ sent = [c \in Conns |-> 0]
    /\ end = [c \in Conns |-> "no"]
    /\ taken = [c \in Conns |-> 0]
    /\ readBuf = [c \in Conns |-> <<>>]
    /\ sendBuf = [c \in Conns |-> 0]
    /\ posted = [c \in Conns |-> 0]
    /\ writing = [c \in Conns |-> FALSE]
    /\ sends = [c \in Conns |-> 0]
    /\ posts = [c \in Conns |-> 0]
    /\ failed = "no"

-----------------------------------------------------------------------------
(* The peers and the kernel *)

PeerConnects(c) ==
    /\ Running /\ stage[c] = "away"
    /\ stage' = [stage EXCEPT ![c] = "waiting"]
    /\ backlog' = Append(backlog, c)
    /\ UNCHANGED <<based, number, slots, lists, kernel, port, socketOf, agenda, sent, end,
                   data, failed>>

PeerSends(c) ==
    /\ Running /\ stage[c] # "away" /\ end[c] = "no"
    /\ sent[c] < Bytes[c]
    /\ sent' = [sent EXCEPT ![c] = @ + 1]
    /\ UNCHANGED <<based, conns, lists, kernel, port, socketOf, agenda, backlog, end, data,
                   failed>>

PeerEnds(c) ==
    /\ Running /\ stage[c] # "away" /\ end[c] = "no"
    /\ \E how \in Ends[c] : end' = [end EXCEPT ![c] = how]
    /\ UNCHANGED <<based, conns, lists, kernel, port, socketOf, agenda, backlog, sent, data,
                   failed>>

\* Its operations were not cancelled.
Open(c) == stage[c] \notin {"cancelled", "gone"}

\* An operation ends, and its packet is queued.
Completes(op, l, packet) ==
    /\ op \in kernel
    /\ kernel' = kernel \ {op}
    /\ port' = [port EXCEPT ![l] = Append(@, packet)]

KernelAccepts(op) ==
    /\ Running /\ backlog # <<>>
    /\ Completes(op, "base", Packet(Listener, op, <<Head(backlog)>>))
    /\ backlog' = Tail(backlog)
    /\ UNCHANGED <<based, conns, lists, socketOf, agenda, sent, end, data, failed>>

\* A read ends with the bytes there are, as many as there is room for; with none,
\* if the peer has ended.  After a reset what was not read is lost.
KernelReads(c) ==
    LET available == IF end[c] = "reset" THEN 0 ELSE sent[c] - taken[c]
        n == IF available < Room THEN available ELSE Room
    IN /\ Running /\ Open(c)
       /\ n > 0 \/ end[c] # "no"
       /\ Completes(ReadOp(c), LoopOf(c),
                    Packet(number[c], ReadOp(c), [i \in 1 .. n |-> taken[c] + i]))
       /\ taken' = [taken EXCEPT ![c] = @ + n]
       /\ UNCHANGED <<based, conns, lists, socketOf, agenda, peers, readBuf, out,
                      failed>>

KernelWrites(c, k) ==
    /\ Running /\ Open(c)
    /\ Completes(WriteOp(c, k), LoopOf(c), Packet(number[c], WriteOp(c, k), <<>>))
    /\ UNCHANGED <<based, conns, lists, socketOf, agenda, peers, data, failed>>

\* What was cancelled ends too.
KernelAborts(c) ==
    /\ Running /\ ~Open(c)
    /\ \E op \in kernel :
        /\ op.of = c
        /\ Completes(op, LoopOf(c),
                     [Packet(None, op, <<>>) EXCEPT !.aborted = TRUE])
    /\ UNCHANGED <<based, conns, lists, socketOf, agenda, peers, data, failed>>

-----------------------------------------------------------------------------
(* IOCPFdEventManager::process and the handlers *)

\* Mutant: the first of the list is taken for the operation.
TakeOut_First(op) == over' = [over EXCEPT ![op.of] = Tail(@)]

\* Removes the operation from the list, where it is met first.
TakeOut(op) ==
    \E i \in DOMAIN over[op.of] :
        /\ over[op.of][i] = op
        /\ \A j \in 1 .. i - 1 : over[op.of][j] # op
        /\ over' = [over EXCEPT ![op.of] = RemoveAt(@, i)]

\* The channel whose handler is to run for a packet, if any.
Channel(p) ==
    IF p.aborted THEN None ELSE IF p.key = Listener THEN Listener ELSE slots[p.key]

\* process: a packet of a cancelled operation, or of a channel that was cancelled,
\* is passed over.
PassOver(l) ==
    /\ Idle(l) /\ port[l] # <<>>
    /\ Channel(Head(port[l])) = None
    /\ port' = [port EXCEPT ![l] = Tail(@)]
    /\ UNCHANGED <<based, conns, lists, kernel, socketOf, agenda, peers, data, failed>>

\* process: a packet that the kernel queued for an operation its channel has
\* listed; handler(channel) begins with todo.
Takes(l, kind, todo) ==
    LET p == Head(port[l])
    IN /\ Idle(l) /\ port[l] # <<>>
       /\ p.op.kind = kind
       /\ Channel(p) # None /\ Contains(over[Channel(p)], p.op)
       /\ port' = [port EXCEPT ![l] = Tail(@)]
       /\ TakeOut(p.op)
       /\ agenda' = [agenda EXCEPT ![l] = todo]
       /\ UNCHANGED failed

\* process: a packet for an operation that its channel has not listed; it is of a
\* channel that had the number before.  process aborts, or looks at the end of an
\* empty list.  But it searches for an address: if the operation was deleted, one of
\* those that are listed may have been created in its place.  That one is taken out
\* and its handler runs, a reader's with bytes that nobody has read.  The model
\* follows the process no further.
Stale(l) ==
    LET p == Head(port[l])
        d == Channel(p)
        stray == IF p.op.kind = "write" THEN <<None>> ELSE [i \in DOMAIN p.bytes |-> None]
    IN /\ Idle(l) /\ port[l] # <<>>
       /\ d # None /\ ~Contains(over[d], p.op)
       /\ port' = [port EXCEPT ![l] = Tail(@)]
       /\ \/ /\ failed' = "abort"
             /\ UNCHANGED <<over, readBuf>>
          \/ \E op \in ToSet(over[d]) :
                /\ p.op \notin heap
                /\ failed' = "mistaken"
                /\ TakeOut(op)
                /\ readBuf' = IF op.kind = "read" THEN [readBuf EXCEPT ![d] = @ \o stray]
                              ELSE readBuf
       /\ UNCHANGED <<based, conns, none, heap, toFree, kernel, socketOf, agenda, peers, taken,
                      out>>

\* WSAcceptProactor::handleRead, as far as Acceptor::acceptInLoop: the socket of
\* the operation is the connection's.  On the base loop it is added and
\* established at once, elsewhere by two tasks.
HandleAccept ==
    LET p == Head(port["base"])
        c == Head(p.bytes)
        again == Step("accept", p.op)
    IN /\ Takes("base", "accept",
                IF based THEN <<Step("add", c), Step("establish", c), again>> ELSE <<again>>)
       /\ number' = [number EXCEPT ![c] = socketOf[p.op]]
       /\ socketOf' = [socketOf EXCEPT ![p.op] = None]
       /\ stage' = [stage EXCEPT ![c] = "accepted"]
       /\ UNCHANGED <<based, slots, none, heap, toFree, kernel, peers, data>>

\* Mutant: the next read is posted before the extra one.
HandleRead_PostsFirst(l) ==
    LET p == Head(port[l])
        c == p.op.of
        then == IF Len(p.bytes) = 0 THEN <<Step("close", c)>>
                ELSE <<Step("recv", c), Step("extra", c), Step("message", c)>>
    IN /\ Takes(l, "read", then)
       /\ readBuf' = [readBuf EXCEPT ![c] = @ \o p.bytes]
       /\ UNCHANGED <<based, conns, none, heap, toFree, kernel, socketOf, peers, taken, out>>

\* WSProactor::handleRead, its beginning: no bytes mean the end, a full buffer a
\* second read that does not wait.
HandleRead(l) ==
    LET p == Head(port[l])
        c == p.op.of
        then == IF Len(p.bytes) = 0 THEN <<Step("close", c)>>
                ELSE (IF Len(p.bytes) = Room THEN <<Step("extra", c)>> ELSE <<>>)
                        \o <<Step("message", c), Step("recv", c)>>
    IN /\ Takes(l, "read", then)
       /\ readBuf' = [readBuf EXCEPT ![c] = @ \o p.bytes]
       /\ UNCHANGED <<based, conns, none, heap, toFree, kernel, socketOf, peers, taken, out>>

\* WSProactor::handleWrite: what has come meanwhile is posted with the same
\* operation, or it is given to addFree and writing is disabled.
HandleWrite(l) ==
    LET op == Head(port[l]).op
        c == op.of
        more == sendBuf[c] > posted[c]
    IN /\ Takes(l, "write", IF more THEN <<Step("send", op)>> ELSE <<>>)
       /\ sendBuf' = [sendBuf EXCEPT ![c] = @ - posted[c]]
       /\ toFree' = IF more THEN toFree ELSE toFree \cup {op}
       /\ writing' = [writing EXCEPT ![c] = more]
       /\ UNCHANGED <<based, conns, none, heap, kernel, socketOf, peers, taken, readBuf,
                      posted, sends, posts>>

-----------------------------------------------------------------------------
(* The rest of a handler, step by step *)

\* l goes on with todo instead of its first step; after a failure with nothing.
Doing(l, do) == Running /\ agenda[l] # <<>> /\ Head(agenda[l]).do = do
Goes(l, todo) == agenda' = [agenda EXCEPT ![l] = todo]
Fails(how) == failed' = how /\ agenda' = [l \in Loops |-> <<>>]

\* Mutant: the handler returns when the extra read finds nothing.
ExtraRead_Returns(l) ==
    LET c == Head(agenda[l]).of
        n == sent[c] - taken[c]
    IN /\ Doing(l, "extra")
       /\ Goes(l, IF end[c] = "reset" THEN <<Step("close", c)>>
                  ELSE IF n = 0 THEN <<>> ELSE Tail(agenda[l]))
       /\ taken' = [taken EXCEPT ![c] = @ + n]
       /\ readBuf' = [readBuf EXCEPT ![c] = @ \o [i \in 1 .. n |-> taken[c] + i]]
       /\ UNCHANGED <<based, conns, lists, kernel, port, socketOf, peers, out, failed>>

\* handleRead: the WSARecv that does not wait takes what there is.
ExtraRead(l) ==
    LET c == Head(agenda[l]).of
        n == sent[c] - taken[c]
    IN /\ Doing(l, "extra")
       /\ IF end[c] = "reset"
          THEN /\ Goes(l, <<Step("close", c)>>)
               /\ UNCHANGED <<taken, readBuf>>
          ELSE /\ Goes(l, Tail(agenda[l]))
               /\ taken' = [taken EXCEPT ![c] = @ + n]
               /\ readBuf' = [readBuf EXCEPT ![c] = @ \o [i \in 1 .. n |-> taken[c] + i]]
       /\ UNCHANGED <<based, conns, lists, kernel, port, socketOf, peers, out, failed>>

\* TCPConnection::send on the loop: the message is appended, and WSProactor::updatePost
\* posts a new operation unless the connection is writing already.
Send(l, c, todo) ==
    /\ sends[c] < Sends[c]
    /\ sends' = [sends EXCEPT ![c] = @ + 1]
    /\ sendBuf' = [sendBuf EXCEPT ![c] = @ + 1]
    /\ writing' = [writing EXCEPT ![c] = TRUE]
    /\ posts' = IF writing[c] THEN posts ELSE [posts EXCEPT ![c] = @ + 1]
    /\ heap' = IF writing[c] THEN heap ELSE heap \cup {WriteOp(c, posts'[c])}
    /\ Goes(l, (IF writing[c] THEN <<>> ELSE <<Step("send", WriteOp(c, posts'[c]))>>) \o todo)
    /\ UNCHANGED <<based, conns, over, none, toFree, kernel, port, socketOf, peers, taken,
                   readBuf, posted, failed>>

\* messageCallback: the user may reply.
Message(l) ==
    LET c == Head(agenda[l]).of
    IN /\ Doing(l, "message")
       /\ \/ Send(l, c, Tail(agenda[l]))
          \/ /\ Goes(l, Tail(agenda[l]))
             /\ UNCHANGED <<based, conns, lists, kernel, port, socketOf, peers, data, failed>>

\* addOver: walks to the end of the list, over what may have been deleted.
ListIsAlive(x) == over[x] = <<>> \/ Last(over[x]) \in heap

\* Mutant: the list is replaced.
AddOver_Replaces(op) == over' = [over EXCEPT ![op.of] = <<op>>]

AddOver(op) == over' = [over EXCEPT ![op.of] = Append(@, op)]

\* postRecv and postSend: the operation is listed and given to the kernel, which
\* refuses it only on a connection that was reset; error then closes.  More is what
\* remains to be done in either case.
Post(l, op, more) ==
    IF ~ListIsAlive(op.of)
    THEN /\ Fails("freed")
         /\ UNCHANGED <<over, none, kernel>>
    ELSE /\ AddOver(op)
         /\ \/ /\ kernel' = kernel \cup {op}
               /\ none' = none \ {op}
               /\ Goes(l, more)
            \/ /\ end[op.of] = "reset"
               /\ none' = none \cup {op}
               /\ Goes(l, <<Step("close", op.of)>> \o more)
               /\ UNCHANGED kernel
         /\ UNCHANGED failed

PostRecv(l) ==
    /\ Doing(l, "recv")
    /\ Post(l, ReadOp(Head(agenda[l]).of), Tail(agenda[l]))
    /\ UNCHANGED <<based, conns, heap, toFree, port, socketOf, peers, data>>

PostSend(l) ==
    LET op == Head(agenda[l]).of
    IN /\ Doing(l, "send")
       /\ Post(l, op, Tail(agenda[l]))
       /\ posted' = [posted EXCEPT ![op.of] = sendBuf[op.of]]
       /\ UNCHANGED <<based, conns, heap, toFree, port, socketOf, peers, taken, readBuf,
                      sendBuf, writing, sends, posts>>

\* WSAcceptProactor::postAccept: a new socket for the operation; without one the
\* process ends.  What fails behind it loses the operation and its socket.
PostAccept ==
    LET op == Head(agenda["base"]).of
    IN /\ Doing("base", "accept")
       /\ IF FreeNumbers = {}
          THEN Fails("socket") /\ UNCHANGED <<socketOf, kernel, over>>
          ELSE /\ \E n \in FreeNumbers : socketOf' = [socketOf EXCEPT ![op] = n]
               /\ Goes("base", Tail(agenda["base"]))
               /\ \/ kernel' = kernel \cup {op} /\ AddOver(op)
                  \/ UNCHANGED <<kernel, over>>
               /\ UNCHANGED failed
       /\ UNCHANGED <<based, conns, none, heap, toFree, port, peers, data>>

\* IOCPFdEventManager::add: in the middle of acceptInLoop on the base loop, else a task.
Add(l) ==
    \E c \in Conns :
        /\ stage[c] = "accepted" /\ l = LoopOf(c)
        /\ IF based THEN Doing(l, "add") ELSE Idle(l)
        /\ IF slots[number[c]] # None
           THEN Fails("slot") /\ UNCHANGED <<slots, stage>>
           ELSE /\ slots' = [slots EXCEPT ![number[c]] = c]
                /\ stage' = [stage EXCEPT ![c] = "added"]
                /\ Goes(l, IF based THEN Tail(agenda[l]) ELSE <<>>)
                /\ UNCHANGED failed
        /\ UNCHANGED <<based, number, lists, kernel, port, socketOf, peers, data>>

\* TCPConnection::connectEstablished: the constructor of WSProactor posts the first
\* read.  Until it returns the connection has no model.
Establish(l) ==
    \E c \in Conns :
        /\ stage[c] = "added" /\ l = LoopOf(c)
        /\ IF based THEN Doing(l, "establish") ELSE Idle(l)
        /\ Post(l, ReadOp(c), IF based THEN Tail(agenda[l]) ELSE <<>>)
        /\ stage' = [stage EXCEPT ![c] = IF ReadOp(c) \in kernel' THEN "up" ELSE "created"]
        /\ heap' = heap \cup {ReadOp(c)}
        /\ UNCHANGED <<based, number, slots, toFree, port, socketOf, peers, data>>

-----------------------------------------------------------------------------
(* The end of a connection *)

\* TCPConnection::connectDestroyed and IOCPFdEventManager::cancel.  CancelIo asks
\* the kernel to end what is pending; freeOverList deletes the last of the list at
\* once and forgets the others.
ConnectDestroyed(c) ==
    /\ stage' = [stage EXCEPT ![c] = "cancelled"]
    /\ slots' = [slots EXCEPT ![number[c]] = None]
    /\ heap' = IF over[c] = <<>> THEN heap ELSE heap \ {Last(over[c])}
    /\ writing' = [writing EXCEPT ![c] = FALSE]

\* handleClose, as far as TCPServer::removeConnection: on the base loop the connection
\* is destroyed at once, on the pool when the base loop has removed it.  It must not
\* be removed twice; and a connection without a model cannot disable its events.
Close(l) ==
    LET c == Head(agenda[l]).of
        how == IF stage[c] \in {"closing", "cancelled"} THEN "erase" ELSE "model"
    IN /\ Doing(l, "close")
       /\ \/ /\ stage[c] \in {"closing", "cancelled"} \/ (based /\ stage[c] = "created")
             /\ Fails(how)
             /\ UNCHANGED <<stage, slots, heap, writing>>
          \/ /\ based /\ stage[c] = "up"
             /\ ConnectDestroyed(c)
             /\ Goes(l, Tail(agenda[l]))
             /\ UNCHANGED failed
          \/ /\ ~based /\ stage[c] \in {"created", "up"}
             /\ stage' = [stage EXCEPT ![c] = "closing"]
             /\ Goes(l, Tail(agenda[l]))
             /\ UNCHANGED <<slots, heap, writing, failed>>
       /\ UNCHANGED <<based, number, over, none, toFree, kernel, port, socketOf, peers, taken,
                      readBuf, sendBuf, posted, sends, posts>>

\* The task that the base loop sends back.
DestroyTask(l) ==
    /\ Idle(l) /\ ~based
    /\ \E c \in Conns : stage[c] = "closing" /\ l = LoopOf(c) /\ ConnectDestroyed(c)
    /\ UNCHANGED <<based, number, over, none, toFree, kernel, port, socketOf, agenda, peers,
                   taken, readBuf, sendBuf, posted, sends, posts, failed>>

\* The last reference goes, and with the channel its socket.
CloseSocket(c) ==
    /\ Running /\ stage[c] = "cancelled"
    /\ based => Idle("base")
    /\ stage' = [stage EXCEPT ![c] = "gone"]
    /\ number' = [number EXCEPT ![c] = None]
    /\ UNCHANGED <<based, slots, lists, kernel, port, socketOf, agenda, peers, data, failed>>

\* A task of TCPConnection::shutdown, which runs closeCallback.
Shutdown(l) ==
    /\ Idle(l)
    /\ \E c \in Closers :
        /\ stage[c] \in {"up", "closing"} /\ l = LoopOf(c)
        /\ Goes(l, <<Step("close", c)>>)
    /\ UNCHANGED <<based, conns, lists, kernel, port, socketOf, peers, data, failed>>

\* A task of TCPConnection::send.
SendTask(l) ==
    /\ Idle(l)
    /\ \E c \in Conns : stage[c] \in {"up", "closing"} /\ l = LoopOf(c) /\ Send(l, c, <<>>)

\* A task of Proactor::addFree.
FreeTask(l) ==
    /\ Idle(l)
    /\ \E op \in toFree :
        /\ l = LoopOf(op.of)
        /\ toFree' = toFree \ {op}
        /\ heap' = heap \ {op}
    /\ UNCHANGED <<based, conns, over, none, kernel, port, socketOf, agenda, peers, data,
                   failed>>

-----------------------------------------------------------------------------
PeersNext == \E c \in Conns : PeerConnects(c) \/ PeerSends(c) \/ PeerEnds(c)

KernelNext ==
    \/ \E op \in AcceptOps : KernelAccepts(op)
    \/ \E c \in Conns :
        \/ KernelReads(c)
        \/ \E k \in 1 .. posts[c] : KernelWrites(c, k)
        \/ KernelAborts(c)

Process(l) ==
    \/ PassOver(l) \/ HandleRead(l) \/ HandleWrite(l) \/ Stale(l)
    \/ l = "base" /\ HandleAccept

Handler(l) ==
    \/ ExtraRead(l) \/ Message(l) \/ PostRecv(l) \/ PostSend(l) \/ Close(l)
    \/ l = "base" /\ PostAccept

Task(l) == Add(l) \/ Establish(l) \/ DestroyTask(l) \/ FreeTask(l)

LoopNext(l) == Process(l) \/ Handler(l) \/ Task(l)

UserNext(l) == Shutdown(l) \/ SendTask(l)

Next ==
    \/ PeersNext
    \/ KernelNext
    \/ \E l \in Loops : LoopNext(l) \/ UserNext(l)
    \/ \E c \in Conns : CloseSocket(c)

\* The kernel ends every operation that can end, and no handler runs for ever.
Fairness ==
    /\ WF_vars(KernelNext)
    /\ \A l \in Loops : WF_vars(LoopNext(l))

Spec == Init /\ [][Next]_vars /\ Fairness

-----------------------------------------------------------------------------
(* Properties *)

\* What the kernel works on, or has a good packet for.
Pending ==
    kernel \cup {p.op : p \in UNION {{q \in ToSet(port[l]) : ~q.aborted} : l \in Loops}}

\* The packet of every operation of a living channel finds its operation: it is in
\* the list of the channel once, it can be told from one that the kernel refused, and
\* neither addFree nor anything else has deleted it.  So it is until another's packet
\* is mistaken for that of an operation, which is taken out while it is pending.
PendingIsFound ==
    Running =>
      \A op \in Pending :
        op.of = Listener \/ Open(op.of) =>
            /\ Cardinality({i \in DOMAIN over[op.of] : over[op.of][i] = op}) = 1
            /\ op \notin none
            /\ op \in heap \ toFree

\* The abort of process needs two loops, and so does a packet that is taken for that of
\* another operation: a packet whose socket was closed meets the next socket of that
\* number only if another thread has accepted it before the packet was looked at.  On
\* one loop the packet is passed over first, wherever the operations are in memory.
StalePacketTakesPool == failed \in {"abort", "mistaken"} => ~based

\* The two reads of handleRead together leave the bytes in order, without a gap, unless
\* a packet of another connection was mistaken for that of a read.
ReadsInOrder ==
    failed # "mistaken" => \A c \in Conns : readBuf[c] = [i \in 1 .. Len(readBuf[c]) |-> i]

\* What the peer has sent before it ended is read, although there is one read at a
\* time and it is posted anew by each handler; a reset, the user's shutdown and the end
\* of the process excepted.
SentIsRead ==
    \A c \in Conns \ Closers : \A k \in 1 .. Bytes[c] :
        (sent[c] = k /\ number[c] # None)
            ~> (Len(readBuf[c]) >= k \/ end[c] = "reset" \/ ~Running)

(* Known failures: none of these holds. *)

\* What the kernel works on was not deleted.
KernelMemoryAlive == Running => kernel \subseteq heap

\* An operation that neither the kernel nor a list nor a task has is deleted.
NothingLeaks ==
    \A c \in Conns : stage[c] = "gone" =>
        \A op \in heap : op.of = c => op \in toFree \/ op \in Pending

\* A reset while the first read is posted does not end the process.
FirstReadMayFail == failed # "model"

\* A reply that fails leaves nothing for the handler to use after it.
ReplyMayFail == failed # "freed"

\* A packet that comes late does no harm on any loop: it does not abort the process.
LatePacketHarmless == failed # "abort"

\* Nor is it taken for that of another connection's operation.
PacketMeetsItsOwn == failed # "mistaken"
=============================================================================
