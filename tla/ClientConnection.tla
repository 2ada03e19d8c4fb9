-------------------------- MODULE ClientConnection --------------------------
(***************************************************************************)
(* TCPClient and its Connector in both builds, on one loop: a connection   *)
(* is attempted, and attempted again after a growing delay, until the      *)
(* socket is connected; then the Connector's channel becomes the           *)
(* TCPConnection's, which its peer or its user closes.                     *)
(*                                                                         *)
(* A turn of the loop handles events of the channel, then the timers, then *)
(* the tasks that are counted at that point.  With epoll it is one event   *)
(* at most, and what its handler queues runs before the next, but an event *)
(* of a connection is a read and then, since writing stays enabled, a      *)
(* write, and the peer may act between the two.  With IOCP a               *)
(* turn handles any number of them, but none when a task is counted as it  *)
(* begins.  The delay is counted in initial delays (kInitRetryDelayMs);    *)
(* how long a timer waits is not.                                          *)
(***************************************************************************)
EXTENDS Integers, Sequences

CONSTANTS
    Backends,       \* the builds: "epoll", "iocp"
    Outcomes,       \* what an attempt can come to
    PeerMayClose,   \* the peer may close the connection, or reset it
    MaxStarts,      \* bound: the calls of TCPClient::connect
    MaxDisconnects, \* bound: the calls of TCPClient::disconnect
    MaxOthers,      \* bound: the tasks other threads queue for reasons of their own
    MaxAttempts     \* bound: the sockets the Connector makes

\* "refused": connect(2), or ConnectEx, fails at once.  "accepted": it is in
\* progress and succeeds; "refusedLater", "unreachable": it is in progress and
\* fails, and needToClose tells the first from the second.
ASSUME ClientAssumption ==
    /\ Backends \subseteq {"epoll", "iocp"}
    /\ Outcomes \subseteq {"refused", "refusedLater", "unreachable", "accepted"}
    /\ PeerMayClose \in BOOLEAN
    /\ MaxStarts \in Nat
    /\ MaxDisconnects \in Nat
    /\ MaxOthers \in Nat
    /\ MaxAttempts \in Nat

\* kMaxRetryDelayMs / kInitRetryDelayMs
MaxDelay == 60

VARIABLES
    backend,    \* the build
    phase,      \* where the loop is in runOnce: "poll", "timers", "cycle"; with epoll
                \* "write" between the two handlers of one event
    todo,       \* the tasks the cycle has still to run
    outside,    \* the tasks queued by other threads
    inside,     \* the tasks queued by the loop's own thread
    state,      \* Connector::state
    retryDelay, \* Connector::retryDelay
    timers,     \* the retry timers that are set
    channel,    \* "none", "connector": Connector::channel, "connection": moved
    socket,     \* what the socket has to tell
    polled,     \* the channel is registered with epoll, or in the poller's table
    connection, \* TCPClient::connection is not null
    tstate,     \* TCPConnection::state, "none" before its constructor
    tie,        \* the channel is tied to its connection
    starts, disconnects, others, attempts, \* bounds: how many there were
    failed      \* how the process ended, "no" while it runs

connectorVars == <<state, retryDelay, timers, attempts>>
channelVars == <<channel, socket, polled>>
connVars == <<connection, tstate, tie>>
userVars == <<starts, disconnects, others>>
loopVars == <<backend, phase, todo, outside, inside>>
vars == <<loopVars, connectorVars, channelVars, connVars, userVars, failed>>

\* "disconnected": the assertion of startInLoop.  "connection": that of
\* removeConnection.  "unhandled": a callback that is not set is called.
\* "dangling": a task used a connection that was destroyed.  "null": connecting
\* used a channel that handleError had reset.  "handler": handleWrite, or handleRead,
\* went on with a size of -1.
Failures == {"disconnected", "connection", "unhandled", "dangling", "null", "handler"}

Init ==
    /\ backend \in Backends
    /\ phase = "poll"
    /\ todo = 0
    /\ outside = <<>>
    /\ inside = <<>>
    /\ state = "Disconnected"
    /\ retryDelay = 1
    /\ timers = 0
    /\ channel = "none"
    /\ socket = "none"
    /\ polled = FALSE
    /\ connection = FALSE
    /\ tstate = "none"
    /\ tie = FALSE
    /\ starts = 0
    /\ disconnects = 0
    /\ others = 0
    /\ attempts = 0
    /\ failed = "no"

Queued(task) == \E q \in {outside, inside} : \E i \in DOMAIN q : q[i] = task

\* The connection is held by the client, by its tie, or by the task that
\* destroys it; "close" is a bare `this`.
Destructed == tstate # "none" /\ ~connection /\ ~tie /\ ~Queued("destroyed")

-----------------------------------------------------------------------------
(* Threads of the user.                                                    *)

QueueOutside(task) ==
    /\ failed = "no"
    /\ outside' = Append(outside, task)
    /\ UNCHANGED <<backend, phase, todo, inside, connectorVars, channelVars, connVars, failed>>

\* TCPClient::connect: startInLoop, by way of runInLoop.
Connect ==
    /\ starts < MaxStarts
    /\ starts' = starts + 1
    /\ QueueOutside("start")
    /\ UNCHANGED <<disconnects, others>>

\* Mutant: the connection is not looked at.
Disconnect_Unchecked ==
    /\ disconnects < MaxDisconnects
    /\ disconnects' = disconnects + 1
    /\ QueueOutside("close")
    /\ UNCHANGED <<starts, others>>

\* TCPClient::disconnect: shutdown, if there is a connection.
Disconnect ==
    /\ connection
    /\ disconnects < MaxDisconnects
    /\ disconnects' = disconnects + 1
    /\ QueueOutside("close")
    /\ UNCHANGED <<starts, others>>

\* A task that has nothing to do with the client.
PostOther ==
    /\ others < MaxOthers
    /\ others' = others + 1
    /\ QueueOutside("other")
    /\ UNCHANGED <<starts, disconnects>>

-----------------------------------------------------------------------------
(* The Connector, on the loop.                                             *)

\* Mutant: no timer is set.
Retry_Never(t) ==
    /\ state' = "Disconnected"
    /\ timers' = t
    /\ retryDelay' = IF 2 * retryDelay < MaxDelay THEN 2 * retryDelay ELSE MaxDelay

\* retry, when t timers are set.
Retry(t) ==
    /\ state' = "Disconnected"
    /\ timers' = t + 1
    /\ retryDelay' = IF 2 * retryDelay < MaxDelay THEN 2 * retryDelay ELSE MaxDelay

\* Mutant: connecting() although no model was returned.
CreateFails_Connecting(t) ==
    /\ backend = "epoll"
    /\ "refused" \in Outcomes
    /\ state' = "Connecting"
    /\ timers' = t + 1
    /\ retryDelay' = IF 2 * retryDelay < MaxDelay THEN 2 * retryDelay ELSE MaxDelay
    /\ channel' = "none"
    /\ polled' = FALSE
    /\ UNCHANGED <<socket, failed>>

\* handleError, when the channel is closed.
CloseChannel ==
    /\ channel' = "none"
    /\ polled' = FALSE
    /\ socket' = "none"

\* createConnect: connect(2) fails at once and handleError, called from inside
\* it, closes the socket and retries.  No model is returned.
CreateFails(t) ==
    /\ backend = "epoll"
    /\ "refused" \in Outcomes
    /\ Retry(t)
    /\ CloseChannel
    /\ UNCHANGED failed

\* postConnect: ConnectEx fails at once, with an error of a category that
\* needToClose does not know, and handleError does the same; but it is called
\* from the constructor of a model that is returned all the same, and
\* connecting() stores Connecting and sets a callback of the channel.
PostConnectFails(t) ==
    /\ backend = "iocp"
    /\ "refused" \in Outcomes
    /\ state' = "Connecting"
    /\ timers' = t + 1
    /\ retryDelay' = IF 2 * retryDelay < MaxDelay THEN 2 * retryDelay ELSE MaxDelay
    /\ CloseChannel
    /\ failed' = "null"

\* createConnect: it is in progress; connecting().  With IOCP the channel may
\* be that of the last attempt.
CreateInProgress(t) ==
    /\ Outcomes # {"refused"}
    /\ state' = "Connecting"
    /\ channel' = "connector"
    /\ polled' = TRUE
    /\ socket' = "connecting"
    /\ timers' = t
    /\ UNCHANGED <<retryDelay, failed>>

\* startInLoop and connect, called when t timers are left.
StartInLoop(t) ==
    IF state = "Disconnected"
    THEN /\ attempts' = attempts + 1
         /\ CreateFails(t) \/ PostConnectFails(t) \/ CreateInProgress(t)
    ELSE /\ failed' = "disconnected"
         /\ timers' = t
         /\ UNCHANGED <<state, retryDelay, attempts, channel, socket, polled>>

-----------------------------------------------------------------------------
(* The socket.                                                             *)

\* The handshake ends.
SocketConnects ==
    /\ failed = "no"
    /\ socket = "connecting"
    /\ \/ "accepted" \in Outcomes /\ socket' = "open"
       \/ "refusedLater" \in Outcomes /\ socket' = "refused"
       \/ "unreachable" \in Outcomes /\ socket' = "unreachable"
    /\ UNCHANGED <<loopVars, connectorVars, channel, polled, connVars, userVars, failed>>

PeerCloses ==
    /\ failed = "no"
    /\ PeerMayClose
    /\ \/ socket = "open" /\ socket' \in {"eof", "reset"}
       \/ socket = "eof" /\ socket' = "reset"
    /\ UNCHANGED <<loopVars, connectorVars, channel, polled, connVars, userVars, failed>>

-----------------------------------------------------------------------------
(* The TCPConnection, on the loop.                                         *)

\* TCPClient::removeConnection, from closeCallback; q is the loop's own queue.
RemoveConnection(q) ==
    /\ connection' = FALSE
    /\ IF connection
       THEN inside' = Append(q, "destroyed") /\ UNCHANGED failed
       ELSE inside' = q /\ failed' = "connection"
    /\ UNCHANGED <<tstate, tie>>

\* Mutant: the channel is not cancelled.
ConnectDestroyed_StaysPolled ==
    /\ tstate' = "kDisconnected"
    /\ tie' = FALSE
    /\ UNCHANGED <<connection, channel, socket, polled>>

\* Mutant: the tie is not cleared.
ConnectDestroyed_Tied ==
    /\ tstate' = "kDisconnected"
    /\ polled' = FALSE
    /\ UNCHANGED <<connection, tie, channel, socket>>

\* TCPConnection::connectDestroyed.
ConnectDestroyed ==
    /\ tstate' = "kDisconnected"
    /\ tie' = FALSE
    /\ polled' = FALSE
    /\ UNCHANGED <<connection, channel, socket>>

-----------------------------------------------------------------------------
(* runOnce: an event, or none; the timers; the tasks.                      *)

\* An event of the channel is handled; with epoll the loop goes on at `on`.
Event(from, seen, on) ==
    /\ failed = "no"
    /\ phase = "poll"
    /\ polled
    /\ channel = from
    /\ socket \in seen
    /\ phase' \in IF backend = "epoll" THEN {on} ELSE {"poll", "timers"}
    /\ UNCHANGED <<backend, todo, outside>>

\* UnixConnectReactor::handleWrite, or that of WSConnectProactor, finds no
\* error: connected(), newConnection, connectEstablished.  That the peer has
\* closed meanwhile is not asked for; with epoll a reset is an error.
Connected ==
    /\ Event("connector", {"open", "eof"} \cup IF backend = "iocp" THEN {"reset"} ELSE {},
             "timers")
    /\ state' = "Connected"
    /\ channel' = "connection"
    /\ connection' = TRUE
    /\ tstate' = "kConnected"
    /\ tie' = TRUE
    /\ UNCHANGED <<inside, retryDelay, timers, attempts, socket, polled, userVars, failed>>

\* Reactor::handleEvent: POLLHUP without POLLIN, which is not asked for, is a
\* close, and the Connector sets no closeCallback.
ConnectRefused ==
    /\ backend = "epoll"
    /\ Event("connector", {"refused", "unreachable", "reset"}, "timers")
    /\ failed' = "unhandled"
    /\ UNCHANGED <<inside, connectorVars, channelVars, connVars, userVars>>

\* WSConnectProactor::handleWrite finds an error: handleError keeps the channel
\* of a socket that can connect again.
ConnectError ==
    /\ backend = "iocp"
    /\ Event("connector", {"refused", "unreachable"}, "timers")
    /\ Retry(timers)
    /\ IF socket = "refused" THEN socket' = "none" /\ UNCHANGED <<channel, polled>>
       ELSE CloseChannel
    /\ UNCHANGED <<inside, attempts, connVars, userVars, failed>>

\* The read handler of either build: data; messageCallback may call disconnect.
HandleMessage ==
    /\ Event("connection", {"open"}, "write")
    /\ \/ UNCHANGED <<inside, disconnects>>
       \/ /\ connection
          /\ disconnects < MaxDisconnects
          /\ disconnects' = disconnects + 1
          /\ inside' = Append(inside, "close")
    /\ UNCHANGED <<connectorVars, channelVars, connVars, starts, others, failed>>

\* The end of the file.  epoll reports it as long as it is registered, a read
\* of WSProactor completes once, and no other is posted: a reset ends it, or refuses
\* it, without bytes too.
HandleEof ==
    /\ Event("connection", {"eof"} \cup IF backend = "iocp" THEN {"reset"} ELSE {}, "write")
    /\ socket' = IF backend = "epoll" THEN "eof" ELSE "ended"
    /\ RemoveConnection(inside)
    /\ UNCHANGED <<connectorVars, channel, polled, userVars>>

\* epoll: the error is logged and the write that is enabled fails, or else readv does:
\* handleClose, and then a retrieve, or an append, of -1 bytes.
HandleReset ==
    /\ backend = "epoll"
    /\ Event("connection", {"reset"}, "timers")
    /\ failed' = IF connection THEN "handler" ELSE "connection"
    /\ UNCHANGED <<inside, connectorVars, channelVars, connVars, userVars>>

\* epoll: handleEvent goes on from the read to the write, whatever the read has found.
\* The write fails if the peer has reset the connection by now: handleClose, a second
\* time when the read found the end of the file.
WriteFails ==
    /\ failed = "no"
    /\ phase = "write"
    /\ socket = "reset"
    /\ failed' = IF connection THEN "handler" ELSE "connection"
    /\ UNCHANGED <<loopVars, connectorVars, channelVars, connVars, userVars>>

\* epoll: the write writes what there is.
EventWritten ==
    /\ failed = "no"
    /\ phase = "write"
    /\ socket # "reset"
    /\ phase' = "timers"
    /\ UNCHANGED <<backend, todo, outside, inside, connectorVars, channelVars, connVars,
                   userVars, failed>>

\* With epoll a connection is always writable, and the write event that was
\* enabled to connect stays enabled: its loop never waits.
NoEvent ==
    /\ failed = "no"
    /\ phase = "poll"
    /\ polled => \/ channel = "connector" /\ socket \in {"none", "connecting"}
                 \/ backend = "iocp" /\ socket \in {"open", "ended"}
    /\ phase' = "timers"
    /\ UNCHANGED <<backend, todo, outside, inside, connectorVars, channelVars, connVars, userVars, failed>>

\* A retry timer is due: startInLoop.
FireRetry ==
    /\ failed = "no"
    /\ phase = "timers"
    /\ timers > 0
    /\ state = "Disconnected" => attempts < MaxAttempts
    /\ StartInLoop(timers - 1)
    /\ UNCHANGED <<loopVars, connVars, userVars>>

\* The tasks that are counted: those of the loop's own thread are, one of
\* another thread may be in the queue and not be counted yet.
TimersDone ==
    /\ failed = "no"
    /\ phase = "timers"
    /\ phase' = "cycle"
    /\ todo' \in Len(inside) .. Len(inside) + Len(outside)
    /\ UNCHANGED <<backend, outside, inside, connectorVars, channelVars, connVars, userVars, failed>>

\* The task is the oldest of the loop's own, or of the others.
TakeInside(task) ==
    /\ inside # <<>>
    /\ Head(inside) = task
    /\ inside' = Tail(inside)
    /\ UNCHANGED outside

TakeOutside(task) ==
    /\ outside # <<>>
    /\ Head(outside) = task
    /\ outside' = Tail(outside)
    /\ UNCHANGED inside

Cycle ==
    /\ failed = "no"
    /\ phase = "cycle"
    /\ todo > 0
    /\ todo' = todo - 1
    /\ UNCHANGED <<backend, phase, userVars>>

RunStart ==
    /\ Cycle
    /\ TakeOutside("start")
    /\ state = "Disconnected" => attempts < MaxAttempts
    /\ StartInLoop(timers)
    /\ UNCHANGED connVars

RunOther ==
    /\ Cycle
    /\ TakeOutside("other")
    /\ UNCHANGED <<connectorVars, channelVars, connVars, failed>>

RunDestroyed ==
    /\ Cycle
    /\ TakeInside("destroyed")
    /\ ConnectDestroyed
    /\ UNCHANGED <<connectorVars, failed>>

\* shutdown's task: closeCallback on a bare `this`.
Close(q) ==
    IF Destructed
    THEN /\ failed' = "dangling"
         /\ inside' = q
         /\ UNCHANGED connVars
    ELSE RemoveConnection(q)

RunClose ==
    /\ Cycle
    /\ \/ /\ inside # <<>>
          /\ Head(inside) = "close"
          /\ Close(Tail(inside))
          /\ UNCHANGED outside
       \/ /\ outside # <<>>
          /\ Head(outside) = "close"
          /\ outside' = Tail(outside)
          /\ Close(inside)
    /\ UNCHANGED <<connectorVars, channelVars>>

\* The next turn.  With IOCP a task that is counted leaves no time for events.
CycleDone ==
    /\ failed = "no"
    /\ phase = "cycle"
    /\ todo = 0
    /\ \/ phase' = "poll" /\ (backend = "iocp" => inside = <<>>)
       \/ phase' = "timers" /\ backend = "iocp" /\ inside \o outside # <<>>
    /\ UNCHANGED <<backend, todo, outside, inside, connectorVars, channelVars, connVars,
                   userVars, failed>>

LoopStep ==
    \/ Connected \/ ConnectRefused \/ ConnectError \/ HandleMessage \/ HandleEof
    \/ HandleReset \/ WriteFails \/ EventWritten \/ NoEvent
    \/ TimersDone
    \/ RunStart \/ RunOther \/ RunDestroyed \/ RunClose \/ CycleDone

Next ==
    \/ Connect \/ Disconnect \/ PostOther
    \/ SocketConnects \/ PeerCloses
    \/ FireRetry \/ LoopStep

\* A turn that finds every queued task counted.
AllCounted == TimersDone /\ todo' = Len(inside) + Len(outside)

\* The loop turns, a retry timer gets its time, and the threads that queue a
\* task go on to count it.  Nobody has to call connect or disconnect, and the
\* peer does what it likes.
Fairness == WF_vars(LoopStep) /\ SF_vars(FireRetry) /\ SF_vars(AllCounted)

Spec == Init /\ [][Next]_vars /\ Fairness

-----------------------------------------------------------------------------
TypeOK ==
    /\ backend \in Backends
    /\ phase \in {"poll", "write", "timers", "cycle"}
    /\ todo \in Nat
    /\ outside \in Seq({"start", "close", "other"})
    /\ inside \in Seq({"close", "destroyed"})
    /\ state \in {"Disconnected", "Connecting", "Connected"}
    /\ retryDelay \in 1 .. MaxDelay
    /\ timers \in Nat
    /\ channel \in {"none", "connector", "connection"}
    /\ socket \in {"none", "connecting", "open", "eof", "ended", "reset", "refused",
                  "unreachable"}
    /\ polled \in BOOLEAN
    /\ connection \in BOOLEAN
    /\ tstate \in {"none", "kConnected", "kDisconnected"}
    /\ tie \in BOOLEAN
    /\ starts \in 0 .. MaxStarts
    /\ disconnects \in 0 .. MaxDisconnects
    /\ others \in 0 .. MaxOthers
    /\ attempts \in 0 .. MaxAttempts
    /\ failed \in Failures \cup {"no"}

\* A client that was told once to connect makes one attempt at a time: a retry
\* is due only while nothing is under way on a socket, and there is one retry.
OneAttempt ==
    starts = 1 /\ failed = "no" =>
        /\ timers <= 1
        /\ timers = 1 => state = "Disconnected" /\ channel # "connection" /\ socket = "none"

\* The poller never holds the pointer of a channel that is gone: the Connector's is
\* registered while it attempts, the connection's until it is destroyed.
PolledAlive ==
    polled => (channel = "connector" \/ (channel = "connection" /\ ~Destructed))

\* Nothing fails without one of the races it takes: connect called twice; with epoll
\* an attempt that fails late, or a peer that resets; with IOCP an attempt that fails
\* at once; two who close, or with epoll a peer that resets between the read and the
\* write of one event, or one who closes while a task that another thread has queued
\* takes the place of connectDestroyed.
FailureTakesARace ==
    /\ failed = "disconnected" => starts > 1
    /\ failed = "unhandled" => backend = "epoll" /\ socket \in {"refused", "unreachable", "reset"}
    /\ failed = "handler" => backend = "epoll" /\ socket = "reset"
    /\ failed = "null" => backend = "iocp" /\ "refused" \in Outcomes
    /\ failed = "connection" =>
           \/ disconnects > 1
           \/ socket = "reset" /\ phase = "write"
           \/ socket \in {"eof", "reset"} /\ disconnects + others + starts > 1
           \/ socket = "ended" /\ disconnects = 1
    /\ failed = "dangling" => disconnects > 1 \/ (disconnects = 1 /\ socket \in {"eof", "ended", "reset"})

\* A client that was told to connect keeps at it until it is connected or an
\* attempt hangs, or fails late.
TriesOn ==
    (starts > 0 /\ attempts < MaxAttempts)
        ~> (state # "Disconnected" \/ attempts = MaxAttempts \/ failed # "no")

\* A connection that its peer closes, or its user asks to close, goes and
\* leaves nothing behind.
ClosedIsDestructed ==
    (tstate = "kConnected" /\ (socket \in {"eof", "reset"} \/ disconnects > 0))
        ~> (Destructed \/ failed # "no")

-----------------------------------------------------------------------------
\* What the code says of itself and does not keep.

\* An attempt that fails is an error the Connector handles, by another attempt.
RefusalIsHandled == failed \notin {"unhandled", "null"}

\* start can be called at any time, in any thread.
StartFindsDisconnected == failed # "disconnected"

\* removeConnection finds the client's connection.
RemoveFindsConnection == failed # "connection"
=============================================================================
