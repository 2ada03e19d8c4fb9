-------------------------- MODULE ServerConnection --------------------------
(***************************************************************************)
(* TCPServer and its connections on Linux: a connection is accepted by the *)
(* base loop, lives on a loop of the pool, and is removed by the base loop *)
(* again when its own loop has seen it close.                              *)
(*                                                                         *)
(* Who keeps a TCPConnection alive is the matter of this module: the map   *)
(* of the server, the tie of its own channel, and the tasks that capture   *)
(* it.  A connection that none of them holds is destroyed, with its        *)
(* channel and its reactor; epoll, and a task that captured a bare `this`, *)
(* know nothing of it.  What is sent is the matter of Sending; here a send *)
(* enables writing, from messageCallback or by a task of another loop.     *)
(*                                                                         *)
(* Tasks travel as EventLoop::runInLoop has them: at once in the loop's    *)
(* own thread, else through a queue that keeps the order of each sender.   *)
(* Epoll is level-triggered: what a handler leaves as it was is reported   *)
(* again.                                                                  *)
(***************************************************************************)
EXTENDS Integers, Sequences

CONSTANTS
    Conns,     \* the connections peers make
    None,      \* no connection
    N,         \* the threads of the pool besides the base loop
    Shutdown,  \* the connections whose user calls shutdown, once
    Senders,   \* those whose user sends: in messageCallback, and once from another loop
    Asserts,   \* the build keeps its assertions (no NDEBUG)
    MaxReports \* bound: the removals a loop has on their way to the base loop

ASSUME ServerAssumption ==
    /\ None \notin Conns
    /\ N \in Nat
    /\ Shutdown \subseteq Conns /\ Senders \subseteq Conns
    /\ Asserts \in BOOLEAN
    /\ MaxReports \in Nat \ {0}

Base == 0
Loops == 0 .. N

VARIABLES
    queue,    \* queue[from][to]: the tasks from queued for the loop to
    next,     \* EventLoopThreadPool::next_
    accepted, \* the connection the base loop is inside acceptInLoop with
    loopOf,   \* loopOf[c]: TCPConnection::loop
    state,    \* state[c]: TCPConnection::state, "none" before its constructor
    map,      \* TCPServer::map
    polled,   \* the channels that are registered with their loop's epoll
    reading,  \* the channels whose flags have kReadEvent
    writing,  \* the channels whose flags have kWriteEvent
    tie,      \* the channels that are tied to their connection
    peer,     \* peer[c]: what the socket has to tell
    handling, \* handling[l]: the connection l has called handleClose of, and how the
              \* handler goes on: it "returns", does the "write" that is due as well, or
              \* has had the -1 of a failed "readv" or "retrieve"
    asked,    \* the connections whose user has called shutdown
    sent,     \* those on which another loop's user has sent
    calls,    \* history: calls[c], the states connectionCallback was called in
    destroys, \* history: destroys[c], the calls of connectDestroyed
    failed    \* how the process ended and with whom, Running while it runs

connVars == <<loopOf, state, map, polled, reading, writing, tie, calls, destroys>>
users == <<asked, sent>>
vars == <<queue, next, accepted, connVars, peer, handling, users, failed>>

TaskNames == {"add", "established", "remove", "destroyed", "close", "send"}

\* "removed": map.erase found nothing.  "unknown": epoll_ctl does not know the
\* file descriptor.  "unhandled": an event for a channel without a handler.
\* "dangling": a task used a connection that was destroyed.  "handler": a handler
\* went on after handleClose with the size of -1, or with what was destroyed.
Failures == {"removed", "unknown", "unhandled", "dangling", "handler"}

Failure(how, c) == [how |-> how, conn |-> c]

Running == Failure("no", None)

Doing(c, then) == [conn |-> c, then |-> then]

Idle == Doing(None, "returns")

Init ==
    /\ queue = [from \in Loops |-> [to \in Loops |-> <<>>]]
    /\ next = 0
    /\ accepted = None
    /\ loopOf = [c \in Conns |-> Base]
    /\ state = [c \in Conns |-> "none"]
    /\ map = {}
    /\ polled = {}
    /\ reading = {}
    /\ writing = {}
    /\ tie = {}
    /\ peer = [c \in Conns |-> "none"]
    /\ handling = [l \in Loops |-> Idle]
    /\ asked = {}
    /\ sent = {}
    /\ calls = [c \in Conns |-> <<>>]
    /\ destroys = [c \in Conns |-> 0]
    /\ failed = Running

Task(name, c) == [name |-> name, conn |-> c]

Queued(c, names) ==
    \E from, to \in Loops :
        \E i \in DOMAIN queue[from][to] :
            queue[from][to][i].conn = c /\ queue[from][to][i].name \in names

\* Someone holds c.  "add" captures the bare channel, "close" and "send" the bare `this`.
Held(c) ==
    \/ c = accepted
    \/ c \in map
    \/ c \in tie
    \/ Queued(c, {"established", "remove", "destroyed"})

Destructed(c) == state[c] # "none" /\ ~Held(c)

\* l's thread is between two handlers.
Free(l) == failed = Running /\ handling[l] = Idle /\ (l = Base => accepted = None)

Post(q, from, to, name, c) == [q EXCEPT ![from][to] = Append(@, Task(name, c))]

-----------------------------------------------------------------------------
(* TCPConnection, on its own loop.                                         *)

\* Mutant: the callback is called before setState.
ConnectEstablished_CallsFirst(c) ==
    /\ state' = [state EXCEPT ![c] = "kConnected"]
    /\ tie' = tie \cup {c}
    /\ reading' = reading \cup {c}
    /\ calls' = [calls EXCEPT ![c] = Append(@, "kConnecting")]
    /\ UNCHANGED failed

\* connectEstablished; enableReading is epoll's MOD, which aborts for a
\* channel that is not registered.
ConnectEstablished(c) ==
    /\ state' = [state EXCEPT ![c] = "kConnected"]
    /\ tie' = tie \cup {c}
    /\ reading' = reading \cup {c}
    /\ IF c \in polled
       THEN /\ calls' = [calls EXCEPT ![c] = Append(@, "kConnected")]
            /\ UNCHANGED failed
       ELSE failed' = Failure("unknown", c) /\ UNCHANGED calls

\* Mutant: the channel is not cancelled.
ConnectDestroyed_StaysPolled(c) ==
    /\ destroys' = [destroys EXCEPT ![c] = @ + 1]
    /\ state' = [state EXCEPT ![c] = "kDisconnected"]
    /\ reading' = reading \ {c}
    /\ writing' = writing \ {c}
    /\ calls' = [calls EXCEPT ![c] = Append(@, "kDisconnected")]
    /\ tie' = tie \ {c}
    /\ UNCHANGED <<polled, failed>>

\* Mutant: the tie is not cleared.
ConnectDestroyed_Tied(c) ==
    /\ destroys' = [destroys EXCEPT ![c] = @ + 1]
    /\ state' = [state EXCEPT ![c] = "kDisconnected"]
    /\ reading' = reading \ {c}
    /\ writing' = writing \ {c}
    /\ calls' = [calls EXCEPT ![c] = Append(@, "kDisconnected")]
    /\ polled' = polled \ {c}
    /\ UNCHANGED <<tie, failed>>

\* connectDestroyed: disableAll and cancel are epoll's MOD and DEL.
ConnectDestroyed(c) ==
    /\ destroys' = [destroys EXCEPT ![c] = @ + 1]
    /\ IF c \in polled
       THEN /\ state' = [state EXCEPT ![c] = "kDisconnected"]
            /\ reading' = reading \ {c}
            /\ writing' = writing \ {c}
            /\ calls' = IF state[c] = "kConnected"
                        THEN [calls EXCEPT ![c] = Append(@, "kDisconnected")]
                        ELSE calls
            /\ polled' = polled \ {c}
            /\ tie' = tie \ {c}
            /\ UNCHANGED failed
       ELSE failed' = Failure("unknown", c) /\ UNCHANGED <<state, reading, writing, calls, polled, tie>>

\* TCPServer::removeConnection, called on l with the queues q: the base loop
\* takes the connection out of the map and sends it back to its own loop.
RemoveConnection(q, l, c) ==
    IF l # Base
    THEN /\ queue' = Post(q, l, Base, "remove", c)
         /\ UNCHANGED <<connVars, failed>>
    ELSE /\ map' = map \ {c}
         /\ UNCHANGED loopOf
         /\ IF c \notin map /\ Asserts
            THEN /\ failed' = Failure("removed", c)
                 /\ queue' = q
                 /\ UNCHANGED <<state, polled, reading, writing, tie, calls, destroys>>
            ELSE IF loopOf[c] = Base
            THEN queue' = q /\ ConnectDestroyed(c)
            ELSE /\ queue' = Post(q, Base, loopOf[c], "destroyed", c)
                 /\ UNCHANGED <<state, polled, reading, writing, tie, calls, destroys, failed>>

-----------------------------------------------------------------------------
(* The base loop accepts.                                                  *)

\* Mutant: the new channel is added to no epoll.
AcceptInLoop_NotAdded(c) ==
    /\ Free(Base)
    /\ peer[c] = "none"
    /\ peer' = [peer EXCEPT ![c] = "open"]
    /\ next' = (next + 1) % (N + 1)
    /\ loopOf' = [loopOf EXCEPT ![c] = next']
    /\ accepted' = c
    /\ UNCHANGED <<queue, state, map, polled, reading, writing, tie, handling, users,
                   calls, destroys, failed>>

\* Acceptor::acceptInLoop: the next loop of the pool; its runInLoop adds the
\* new channel to its epoll, at once if it is the base loop.
AcceptInLoop(c) ==
    /\ Free(Base)
    /\ peer[c] = "none"
    /\ peer' = [peer EXCEPT ![c] = "open"]
    /\ next' = (next + 1) % (N + 1)
    /\ loopOf' = [loopOf EXCEPT ![c] = next']
    /\ accepted' = c
    /\ IF next' = Base
       THEN polled' = polled \cup {c} /\ UNCHANGED queue
       ELSE queue' = Post(queue, Base, next', "add", c) /\ UNCHANGED polled
    /\ UNCHANGED <<state, map, reading, writing, tie, handling, users, calls, destroys, failed>>

\* TCPServer::newConnection: the map's entry, and connectEstablished on the
\* connection's loop.
NewConnection ==
    LET c == accepted IN
    /\ failed = Running
    /\ c # None
    /\ accepted' = None
    /\ map' = map \cup {c}
    /\ IF loopOf[c] = Base
       THEN ConnectEstablished(c) /\ UNCHANGED queue
       ELSE /\ queue' = Post(queue, Base, loopOf[c], "established", c)
            /\ state' = [state EXCEPT ![c] = "kConnecting"]
            /\ UNCHANGED <<tie, reading, calls, failed>>
    /\ UNCHANGED <<next, loopOf, polled, writing, peer, handling, users, destroys>>

-----------------------------------------------------------------------------
(* A loop runs the oldest task of a sender.                                *)

TaskOf(from, l) == Head(queue[from][l])

Dequeued(from, l) == [queue EXCEPT ![from][l] = Tail(@)]

Runs(from, l, name) ==
    /\ Free(l)
    /\ queue[from][l] # <<>>
    /\ TaskOf(from, l).name = name
    /\ UNCHANGED <<next, accepted, peer, handling, users>>

RunAdd(from, l) ==
    /\ Runs(from, l, "add")
    /\ queue' = Dequeued(from, l)
    /\ polled' = polled \cup {TaskOf(from, l).conn}
    /\ UNCHANGED <<loopOf, state, map, reading, writing, tie, calls, destroys, failed>>

RunEstablished(from, l) ==
    /\ Runs(from, l, "established")
    /\ queue' = Dequeued(from, l)
    /\ ConnectEstablished(TaskOf(from, l).conn)
    /\ UNCHANGED <<loopOf, map, polled, writing, destroys>>

RunRemove(from, l) ==
    /\ Runs(from, l, "remove")
    /\ RemoveConnection(Dequeued(from, l), l, TaskOf(from, l).conn)

RunDestroyed(from, l) ==
    /\ Runs(from, l, "destroyed")
    /\ queue' = Dequeued(from, l)
    /\ ConnectDestroyed(TaskOf(from, l).conn)
    /\ UNCHANGED <<loopOf, map>>

\* The task of shutdown: closeCallback(shared_from_this()) on a bare `this`.
RunClose(from, l) ==
    LET c == TaskOf(from, l).conn IN
    /\ Runs(from, l, "close")
    /\ IF Destructed(c)
       THEN /\ failed' = Failure("dangling", c)
            /\ queue' = Dequeued(from, l)
            /\ UNCHANGED connVars
       ELSE RemoveConnection(Dequeued(from, l), l, c)

\* send: fn, which enables writing once; epoll's MOD.
EnableWriting(c) ==
    /\ writing' = writing \cup {c}
    /\ failed' = IF c \in writing \cup polled THEN failed ELSE Failure("unknown", c)

\* The task of send, on a bare `this`.
RunSend(from, l) ==
    LET c == TaskOf(from, l).conn IN
    /\ Runs(from, l, "send")
    /\ queue' = Dequeued(from, l)
    /\ IF Destructed(c)
       THEN failed' = Failure("dangling", c) /\ UNCHANGED writing
       ELSE EnableWriting(c)
    /\ UNCHANGED <<loopOf, state, map, polled, reading, tie, calls, destroys>>

RunTask(l) ==
    \E from \in Loops :
        \/ RunAdd(from, l) \/ RunEstablished(from, l) \/ RunRemove(from, l)
        \/ RunDestroyed(from, l) \/ RunClose(from, l) \/ RunSend(from, l)

-----------------------------------------------------------------------------
(* A loop's epoll reports an event of a channel; Reactor::handleEvent.     *)

Reports(l, c) == Free(l) /\ loopOf[c] = l /\ c \in polled

\* The handlerCallback of a channel is set in connectEstablished; an error and
\* a hangup are reported whatever the flags are.
EventUnhandled(l, c) ==
    /\ Reports(l, c)
    /\ c \notin reading
    /\ peer[c] = "reset"
    /\ failed' = Failure("unhandled", c)
    /\ UNCHANGED <<queue, next, accepted, connVars, peer, handling, users>>

\* UnixReactor::handleRead, with data; the user's messageCallback may send, or
\* call TCPConnection::shutdown.
Reply(l, c) ==
    /\ Reports(l, c)
    /\ c \in reading \cap Senders
    /\ peer[c] = "open"
    /\ EnableWriting(c)
    /\ UNCHANGED <<queue, next, accepted, loopOf, state, map, polled, reading, tie, calls,
                   destroys, peer, handling, users>>

HandleMessage(l, c) ==
    /\ Reports(l, c)
    /\ c \in reading
    /\ peer[c] = "open"
    /\ c \in Shutdown \ asked
    /\ asked' = asked \cup {c}
    /\ queue' = Post(queue, l, l, "close", c)
    /\ UNCHANGED <<next, accepted, connVars, peer, handling, sent, failed>>

\* Channel::handleClose, from a handler that has more to do.
HandleClose(l, c, then) ==
    /\ l # Base => Len(queue[l][Base]) < MaxReports
    /\ handling' = [handling EXCEPT ![l] = Doing(c, then)]
    /\ RemoveConnection(queue, l, c)
    /\ UNCHANGED <<next, accepted, users>>

\* handleEvent: POLLERR; the error is read, which clears it, and logged.  Where
\* writing is enabled the event has POLLOUT too, and the write fails.
HandleError(l, c) ==
    /\ Reports(l, c)
    /\ c \in reading
    /\ peer[c] = "reset"
    /\ peer' = [peer EXCEPT ![c] = "dead"]
    /\ IF c \in writing
       THEN HandleClose(l, c, "retrieve")
       ELSE UNCHANGED <<queue, next, accepted, connVars, handling, users, failed>>

\* UnixReactor::handleRead, at the end of the file.
HandleEof(l, c) ==
    /\ Reports(l, c)
    /\ c \in reading
    /\ peer[c] \in {"eof", "dead"}
    /\ HandleClose(l, c, IF c \in writing THEN "write" ELSE "returns")
    /\ UNCHANGED peer

\* handleRead: readv fails, since the peer was heard of after epoll_wait.
HandleReadFails(l, c) ==
    /\ Reports(l, c)
    /\ c \in reading
    /\ peer[c] = "reset"
    /\ HandleClose(l, c, "readv")
    /\ UNCHANGED peer

\* After handleClose the channel's revent is read again.  A write succeeds, into
\* the socket's buffer; without assertions a retrieve of -1 bytes takes all.
HandleEventReturns(l) ==
    LET c == handling[l].conn IN
    /\ failed = Running
    /\ \/ handling[l].then = "returns" /\ handling[l] # Idle
       \/ handling[l].then = "write" /\ Held(c) /\ peer[c] = "eof"
       \/ handling[l].then = "retrieve" /\ Held(c) /\ ~Asserts
    /\ handling' = [handling EXCEPT ![l] = Idle]
    /\ UNCHANGED <<queue, next, accepted, connVars, peer, users, failed>>

\* UnixReactor::handleWrite fails: handleClose once more.
HandleWriteFails(l) ==
    LET c == handling[l].conn IN
    /\ failed = Running
    /\ handling[l].then = "write"
    /\ Held(c)
    /\ peer[c] \in {"reset", "dead"}
    /\ peer' = [peer EXCEPT ![c] = "dead"]
    /\ HandleClose(l, c, "retrieve")

\* handleRead appends, or handleWrite retrieves, -1 bytes; or the reactor was
\* destroyed with its connection.
HandlerFails(l) ==
    LET c == handling[l].conn IN
    /\ failed = Running
    /\ \/ handling[l].then = "readv"
       \/ handling[l].then = "write" /\ ~Held(c)
       \/ handling[l].then = "retrieve" /\ (Asserts \/ ~Held(c))
    /\ failed' = Failure("handler", c)
    /\ UNCHANGED <<queue, next, accepted, connVars, peer, handling, users>>

GoesOn(l) == HandleEventReturns(l) \/ HandleWriteFails(l) \/ HandlerFails(l)

Poll(l, c) ==
    \/ EventUnhandled(l, c) \/ Reply(l, c) \/ HandleMessage(l, c)
    \/ HandleError(l, c) \/ HandleEof(l, c) \/ HandleReadFails(l, c)

-----------------------------------------------------------------------------
(* The peers, and the user on other loops.                                 *)

\* The peer ends its side of the connection, or resets it.
PeerCloses(c) ==
    /\ failed = Running
    /\ \/ peer[c] = "open" /\ peer' \in {[peer EXCEPT ![c] = p] : p \in {"eof", "reset"}}
       \/ peer[c] = "eof" /\ peer' = [peer EXCEPT ![c] = "reset"]
    /\ UNCHANGED <<queue, next, accepted, connVars, handling, users, failed>>

\* TCPConnection::send on another loop, by a user who was given the connection and
\* holds it until the call returns.
SendElsewhere(l, c) ==
    /\ Free(l)
    /\ l # loopOf[c]
    /\ c \in Senders \ sent
    /\ calls[c] # <<>>
    /\ ~Destructed(c)
    /\ sent' = sent \cup {c}
    /\ queue' = Post(queue, l, loopOf[c], "send", c)
    /\ UNCHANGED <<next, accepted, connVars, peer, handling, asked, failed>>

Next ==
    \/ NewConnection
    \/ \E l \in Loops : RunTask(l) \/ GoesOn(l)
    \/ \E l \in Loops, c \in Conns : Poll(l, c) \/ SendElsewhere(l, c)
    \/ \E c \in Conns : AcceptInLoop(c) \/ PeerCloses(c)

\* Every loop goes on polling and running its tasks.  No peer has to connect
\* or to close, and no user to send.
Fairness ==
    /\ WF_vars(NewConnection)
    /\ \A l \in Loops : WF_vars(RunTask(l)) /\ WF_vars(GoesOn(l))
    /\ \A l \in Loops, c \in Conns : WF_vars(Poll(l, c))

Spec == Init /\ [][Next]_vars /\ Fairness

-----------------------------------------------------------------------------
TypeOK ==
    /\ queue \in [Loops -> [Loops -> Seq([name : TaskNames, conn : Conns])]]
    /\ next \in Loops
    /\ accepted \in Conns \cup {None}
    /\ loopOf \in [Conns -> Loops]
    /\ state \in [Conns -> {"none", "kConnecting", "kConnected", "kDisconnected"}]
    /\ map \subseteq Conns
    /\ polled \subseteq Conns
    /\ reading \subseteq Conns
    /\ writing \subseteq Conns
    /\ tie \subseteq Conns
    /\ peer \in [Conns -> {"none", "open", "eof", "reset", "dead"}]
    /\ handling \in [Loops -> [conn : Conns, then : {"returns", "write", "readv", "retrieve"}]
                           \cup {Idle}]
    /\ asked \subseteq Shutdown
    /\ sent \subseteq Senders
    /\ calls \in [Conns -> Seq({"kConnecting", "kConnected", "kDisconnected"})]
    /\ destroys \in [Conns -> Nat]
    /\ failed \in [how : Failures, conn : Conns] \cup {Running}

\* epoll never holds the pointer of a channel that is destroyed: whoever drops
\* the last reference, the channel was cancelled before.
PolledAlive == \A c \in polled : Held(c)

\* Nothing fails without one of the races it takes.  epoll is asked about a channel it
\* does not know only by a send from another loop that is overtaken by the end of the
\* connection, or, in a build without assertions, by the second connectDestroyed of a
\* connection of the pool; a task finds its connection destroyed only
\* if it is such a send or a shutdown; a handler goes on with what it should not only
\* after a reset, or on the base loop with a write to do.  Of a connection on the base
\* loop no event comes too early, and no end is dealt with twice.
FailureTakesARace ==
    LET c == failed.conn IN
    /\ failed.how = "unknown" =>
           /\ state[c] = "kDisconnected"
           /\ c \in sent \/ (~Asserts /\ loopOf[c] # Base /\ destroys[c] > 1)
    /\ failed.how = "dangling" => c \in asked \cup sent
    /\ failed.how = "handler" =>
           peer[c] \in {"reset", "dead"} \/ (loopOf[c] = Base /\ c \in Senders)
    /\ failed.how \in {"removed", "unhandled"} => loopOf[c] # Base

\* The user is told of every connection once, and of its end at most once and
\* afterwards.
CallbackOrder ==
    \A c \in Conns :
        calls[c] \in {<<>>, <<"kConnected">>, <<"kConnected", "kDisconnected">>}

\* Nothing of a connection that the user was told is over stays behind: no
\* entry, no tie, no task keeps it.
ClosedIsDestructed ==
    \A c \in Conns :
        (peer[c] \notin {"none", "open"} /\ state[c] = "kConnected")
            ~> (Destructed(c) \/ failed # Running)

-----------------------------------------------------------------------------
\* What the code says of itself and does not keep.

\* TCPServer::removeConnection: map.erase finds the connection.
EraseFindsConnection == failed.how # "removed"

\* connectDestroyed is called once.
DestroyedOnce == \A c \in Conns : destroys[c] <= 1

\* A peer may reset the connection whenever it likes.
EventFindsHandler == failed.how # "unhandled"

\* A channel outlives the handling of its event.
HandlerKeepsConnection == \A l \in Loops : handling[l] # Idle => Held(handling[l].conn)

\* A task finds the connection it was queued for.
ShutdownFindsConnection == ~(failed.how = "dangling" /\ failed.conn \notin sent)
SendFindsConnection == ~(failed.how = "dangling" /\ failed.conn \notin asked)

\* A send on a connection that is over does nothing.
LateSendIsIgnored == failed.how # "unknown"

\* A handler survives a read or a write that fails.
ErrorIsSurvived == failed.how # "handler"
=============================================================================
