------------------------------ MODULE Sending ------------------------------
(***************************************************************************)
(* TCPConnection::send, from the call to the bytes the peer gets, on one   *)
(* connection that is established.                                         *)
(*                                                                         *)
(* A call on another thread posts a task; the loop's thread appends the    *)
(* bytes to sendBuffer and enables writing.  With epoll the handler of the *)
(* event writes what the socket takes; writing is never disabled again.    *)
(* With IOCP enabling posts one overlapped WSASend of the bytes there are, *)
(* whose completion takes them from the buffer and posts the next one, or  *)
(* disables writing.  While it is pending the kernel reads the buffer's    *)
(* memory, and an append may move the bytes or let the vector grow.        *)
(*                                                                         *)
(* A call may pass no bytes.  With IOCP one that finds nothing in the      *)
(* buffer enables writing and posts nothing: no completion will disable it *)
(* again, and what later calls append is never posted.                     *)
(*                                                                         *)
(* The connection outlives the tasks of its senders, and they leave the    *)
(* bytes they pass alone until their task has run.                         *)
(***************************************************************************)
EXTENDS Naturals, SequencesExt

CONSTANTS
    Threads,   \* the threads that send, the loop's own among them
    Loop,      \* the loop's thread
    Freed,     \* what the kernel reads where the bytes no longer are
    MaxSends   \* bound: the calls of each thread

Byte == {<<t, k, part>> : t \in Threads, k \in 1 .. MaxSends, part \in {"first", "last"}}

ASSUME SendingAssumption ==
    /\ Loop \in Threads
    /\ MaxSends \in Nat
    /\ Freed \notin Byte

VARIABLES
    backend,    \* what the build has chosen, "epoll" or "iocp"; never changes
    calls,      \* calls[t]: how often t has called send
    run,        \* run[t]: how many of these calls have reached the buffer
    sendBuffer, \* the readable bytes of sendBuffer
    moves,      \* sendBuffer.data(), as the number of times an append changed it
    writing,    \* Channel::isWriting
    pending,    \* IOCP: the overlapped operations of type WRITE
    received,   \* the bytes the peer got
    link,       \* "up", "reset" by the peer, or "closed" (connectDestroyed)
    failed,     \* "no", or the call that ended the program
    appended,   \* history: all the bytes that reached the buffer
    hushed      \* history: an empty send has enabled writing with nothing to post

vars == <<backend, calls, run, sendBuffer, moves, writing, pending, received,
          link, failed, appended, hushed>>

\* What the k-th call of t sends: two bytes, or none.
Messages(t, k) == {<< <<t, k, "first">>, <<t, k, "last">> >>, <<>>}

Init ==
    /\ backend \in {"epoll", "iocp"}
    /\ calls = [t \in Threads |-> 0]
    /\ run = [t \in Threads |-> 0]
    /\ sendBuffer = <<>>
    /\ moves = 0
    /\ writing = FALSE
    /\ pending = <<>>
    /\ received = <<>>
    /\ link = "up"
    /\ failed = "no"
    /\ appended = <<>>
    /\ hushed = FALSE

\* The program runs on.
Running == failed = "no"

\* WSProactor::postSend: one overlapped WSASend of all the bytes there are, where
\* they are now.  On a connection that was reset it may be refused at once.
PostSend(ops) ==
    \/ pending' = Append(ops, [len |-> Len(sendBuffer'), data |-> moves', sent |-> FALSE])
    \/ link = "reset" /\ pending' = ops

\* WSProactor::updatePost: nothing to post, or one operation per address.
UpdatePost ==
    IF sendBuffer' = <<>> \/ \E i \in DOMAIN pending : pending[i].data = moves'
    THEN UNCHANGED pending ELSE PostSend(pending)

\* Channel::update once writing is enabled.  epoll_ctl fails if the channel was
\* cancelled, and epollCtl aborts.
EnableWriting ==
    \/ /\ backend = "epoll"
       /\ failed' = IF link = "closed" THEN "abort" ELSE failed
       /\ UNCHANGED <<pending, hushed>>
    \/ /\ backend = "iocp"
       /\ UpdatePost
       /\ hushed' = (hushed \/ sendBuffer' = <<>>)
       /\ UNCHANGED failed

\* Sends on a connection that was cancelled are modelled for epoll only.
MayReach == Running /\ (link = "closed" => backend = "epoll")

\* Buffer::append: of no bytes it moves nothing.
Appended(t) ==
    /\ \E m \in Messages(t, run[t] + 1) :
        /\ sendBuffer' = sendBuffer \o m
        /\ appended' = appended \o m
        /\ moves' \in IF m = <<>> THEN {moves} ELSE {moves, moves + 1}
    /\ run' = [run EXCEPT ![t] = @ + 1]

\* Mutant: every send enables writing again.
Enqueue_Enables(t) ==
    /\ Appended(t)
    /\ writing' = TRUE
    /\ EnableWriting

\* send: what runs on the loop's thread, fn.
Enqueue(t) ==
    /\ Appended(t)
    /\ writing' = TRUE
    /\ IF writing THEN UNCHANGED <<pending, failed, hushed>> ELSE EnableWriting

\* send on the loop's thread, from a handler.
SendInLoop ==
    /\ MayReach
    /\ calls[Loop] < MaxSends
    /\ calls' = [calls EXCEPT ![Loop] = @ + 1]
    /\ Enqueue(Loop)
    /\ UNCHANGED <<backend, received, link>>

\* send on another thread: queueInLoop, which keeps the order of each thread.
SendElsewhere(t) ==
    /\ t # Loop
    /\ MayReach
    /\ calls[t] < MaxSends
    /\ calls' = [calls EXCEPT ![t] = @ + 1]
    /\ UNCHANGED <<backend, run, sendBuffer, moves, writing, pending, received,
                   link, failed, appended, hushed>>

RunTask(t) ==
    /\ t # Loop
    /\ MayReach
    /\ run[t] < calls[t]
    /\ Enqueue(t)
    /\ UNCHANGED <<backend, calls, received, link>>

-----------------------------------------------------------------------------
(* epoll: UnixReactor::handleWrite *)

\* The socket takes the first n bytes; epoll reports it writable as long as
\* writing is enabled, with an empty buffer too.
HandleWrite(n) ==
    /\ backend = "epoll" /\ Running
    /\ writing
    /\ link = "up"
    /\ received' = received \o SubSeq(sendBuffer, 1, n)
    /\ sendBuffer' = SubSeq(sendBuffer, n + 1, Len(sendBuffer))
    /\ UNCHANGED <<backend, calls, run, moves, writing, pending, link, failed, appended, hushed>>

WriteSome == \E n \in 1 .. Len(sendBuffer) : HandleWrite(n)

\* The peer is gone: handleClose, and then a retrieve of -1 bytes, which fails
\* the assertion of Buffer::retrieve, or retrieves everything without it.
HandleWriteFails ==
    /\ backend = "epoll" /\ Running
    /\ writing
    /\ link = "reset"
    /\ \/ failed' = "retrieve" /\ UNCHANGED sendBuffer
       \/ sendBuffer' = <<>> /\ UNCHANGED failed
    /\ UNCHANGED <<backend, calls, run, moves, writing, pending, received, link, appended, hushed>>

-----------------------------------------------------------------------------
(* IOCP: the kernel, and WSProactor::handleWrite *)

\* What the kernel reads for an operation: its bytes, any of them gone if an
\* append has moved the buffer.
Sent(p) ==
    {[j \in 1 .. p.len |-> IF j \in gone THEN Freed ELSE sendBuffer[j]] :
        gone \in IF p.data = moves THEN {{}} ELSE SUBSET (1 .. p.len)}

\* The kernel sends the bytes; with a peer that is gone it completes the
\* operation all the same.
KernelSends ==
    /\ Running
    /\ \E i \in DOMAIN pending :
        /\ ~pending[i].sent
        /\ pending' = [pending EXCEPT ![i].sent = TRUE]
        /\ \/ link = "reset" /\ UNCHANGED received
           \/ link = "up" /\ \E bytes \in Sent(pending[i]) : received' = received \o bytes
    /\ UNCHANGED <<backend, calls, run, sendBuffer, moves, writing, link, failed, appended, hushed>>

\* Mutant: writing stays enabled on a buffer that is empty.
Completed_StaysWriting ==
    /\ Running
    /\ pending # <<>> /\ pending[1].sent
    /\ sendBuffer' = SubSeq(sendBuffer, pending[1].len + 1, Len(sendBuffer))
    /\ UNCHANGED <<backend, calls, run, moves, writing, received, link, failed, appended, hushed>>

\* The operation is over, and its bytes leave the buffer.
Completed ==
    /\ Running
    /\ pending # <<>> /\ pending[1].sent
    /\ sendBuffer' = SubSeq(sendBuffer, pending[1].len + 1, Len(sendBuffer))
    /\ writing' = (sendBuffer' # <<>>)
    /\ UNCHANGED <<backend, calls, run, moves, received, link, failed, appended, hushed>>

\* Mutant: nothing is posted for what has come meanwhile.
HandleCompletion_NoMore ==
    /\ Completed
    /\ pending' = Tail(pending)

\* handleWrite: what has come meanwhile is posted, or writing is disabled.
HandleCompletion ==
    /\ Completed
    /\ IF sendBuffer' = <<>> THEN pending' = Tail(pending) ELSE PostSend(Tail(pending))

-----------------------------------------------------------------------------
Reset ==
    /\ link = "up" /\ Running
    /\ link' = "reset"
    /\ UNCHANGED <<backend, calls, run, sendBuffer, moves, writing, pending,
                   received, failed, appended, hushed>>

\* connectDestroyed: disableAll, cancel.  It may come before the bytes are sent.
ConnectDestroyed ==
    /\ link # "closed" /\ Running
    /\ link' = "closed"
    /\ writing' = FALSE
    /\ pending' = <<>>
    /\ UNCHANGED <<backend, calls, run, sendBuffer, moves, received, failed, appended, hushed>>

Next ==
    \/ SendInLoop
    \/ \E t \in Threads : SendElsewhere(t) \/ RunTask(t)
    \/ WriteSome \/ HandleWriteFails
    \/ KernelSends \/ HandleCompletion
    \/ Reset \/ ConnectDestroyed

\* The loop goes round, the peer reads what it is sent, and the kernel completes
\* what was posted.  Nobody has to send, and no connection has to end.
Fairness ==
    /\ \A t \in Threads : WF_vars(RunTask(t))
    /\ WF_vars(WriteSome) /\ WF_vars(KernelSends) /\ WF_vars(HandleCompletion)

Spec == Init /\ [][Next]_vars /\ Fairness

-----------------------------------------------------------------------------
(* Properties *)

TypeOK ==
    /\ backend \in {"epoll", "iocp"}
    /\ calls \in [Threads -> 0 .. MaxSends]
    /\ run \in [Threads -> 0 .. MaxSends]
    /\ sendBuffer \in Seq(Byte)
    /\ moves \in Nat
    /\ writing \in BOOLEAN
    /\ pending \in Seq([len : Nat, data : Nat, sent : BOOLEAN])
    /\ received \in Seq(Byte \cup {Freed})
    /\ link \in {"up", "reset", "closed"}
    /\ failed \in {"no", "abort", "retrieve"}
    /\ appended \in Seq(Byte)
    /\ hushed \in BOOLEAN

\* Bytes of the buffer the kernel has sent already.
SentAhead == IF pending # <<>> /\ pending[1].sent THEN pending[1].len ELSE 0

\* Whatever was moved meanwhile, the bytes that were received have these places.
Alike(got, meant) ==
    /\ Len(got) <= Len(meant)
    /\ \A i \in DOMAIN got : got[i] \in {meant[i], Freed}

\* No byte is lost, repeated or overtaken between send and the peer, whoever
\* sends: what the peer got, and then what is left of the buffer, is what reached
\* the buffer.  At the end of a connection the peer has the beginning of it.
StreamIntact ==
    /\ Alike(received, appended)
    /\ link = "up" =>
        Alike(received \o SubSeq(sendBuffer, SentAhead + 1, Len(sendBuffer)), appended)
    /\ link = "up" => Len(received) + Len(sendBuffer) - SentAhead = Len(appended)
    /\ backend = "epoll" => Freed \notin ToSet(received)

\* With IOCP the buffer waits for a completion that will never come only after an
\* empty send: whatever completes, and whenever calls append meanwhile, writing is
\* enabled with an operation that is posted, or disabled with nothing left to write.
StallTakesEmptySend ==
    (backend = "iocp" /\ link = "up" /\ writing /\ pending = <<>>) => hushed

\* What was passed to send arrives, unless the connection ends before, or an empty
\* send has hushed it: writing is never left disabled, nor enabled without a write
\* to come.
AllArrives ==
    \A t \in Threads, k \in 1 .. MaxSends :
        (calls[t] >= k) ~>
            \/ link # "up" \/ hushed
            \/ /\ run[t] >= k
               /\ \A i \in DOMAIN appended : appended[i] = <<t, k, "last">> => Len(received) >= i

\* What the code does not keep.  The bytes of a pending WSASend stay where they
\* are (WSProactor::postSend hands out writeBuf->data()).
PendingStays == \A i \in DOMAIN pending : pending[i].sent \/ pending[i].data = moves

\* An empty send does nothing (WSProactor::updatePost returns, with writing enabled).
EmptySendIsHarmless == ~hushed

\* A failed write leaves the program running (UnixReactor::handleWrite, its last line).
WriteErrorIsHandled == failed # "retrieve"

\* So does a send on a connection that is closed (TCPConnection::send has no look
\* at the state).
SendAfterCloseIsIgnored == failed # "abort"
=============================================================================
