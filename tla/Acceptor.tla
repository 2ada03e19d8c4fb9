------------------------------- MODULE Acceptor -------------------------------
(***************************************************************************)
(* Acceptor on Linux, and what it needs of the process and of the poller:  *)
(* numbers of open files, of which there are few, and for each loop the    *)
(* table of its EPollFdEventManager, which has the channels by number.     *)
(*                                                                         *)
(* accept fails when all numbers are in use, and a connection that is not  *)
(* accepted is reported again for ever.  So the acceptor keeps a spare     *)
(* number, gives it up, accepts and drops the connection, and takes the    *)
(* number again, while other threads open files of their own.  At the      *)
(* limit of the system, which is another error, it does nothing.           *)
(*                                                                         *)
(* A connection is served until its peer ends, which may be reported more  *)
(* than once; what it sends and who keeps its objects alive is in Sending  *)
(* and ServerConnection.                                                   *)
(***************************************************************************)
EXTENDS FileDescriptor, SequencesExt

CONSTANTS
    Conns,   \* the connections peers ask for
    Listen,  \* Acceptor::acceptFd, later acceptChannel's
    Spare,   \* Acceptor::idleFd
    Slots,   \* the initial size of FdEventManager::channels: 1024
    Events,  \* the initial size of EPollFdEventManager::events: 128
    MaxReports \* bound: how often the end of a connection is reported

Loops == {"base", "pool"}

\* Each loop has an eventfd in LinuxFdEventManager::channel.
ASSUME AcceptorAssumption ==
    /\ Slots \in Nat \ {0, 1} /\ Events \in Nat \ {0}
    /\ Objects = Conns \cup Loops \cup {Listen, Spare}
    /\ Conns \cap Loops = {} /\ Listen # Spare /\ {Listen, Spare} \cap (Conns \cup Loops) = {}
    /\ Limit >= 4 /\ MaxReports \in Nat \ {0}

VARIABLES
    asserts,  \* the build keeps its assertions; never changes
    bound,    \* bind has succeeded; it says so to nobody
    up,       \* how far the acceptor has come: "new", "bound", "listening", or "deaf" if
              \* listen has failed, "destroyed"
    slots,    \* slots[l]: FdEventManager::channels
    epoll,    \* epoll[l]: the channels registered with the epoll of l
    reading,  \* the channels whose flags have kReadEvent
    room,     \* room[l]: events.size()
    batch,    \* batch[l]: the channels whose events l has still to handle
    handler,  \* the step the error callback of the acceptor is at, "none" outside it
    dropped,  \* the connection it has accepted, None if the accept failed
    stage,    \* how far each connection has come
    loopOf,   \* the loop of its channel
    backlog,  \* the connections that wait to be accepted
    reports,  \* reports[c]: how often handleClose has called removeConnection
    erases,   \* how often c was looked for in TCPServer::map, to be removed
    destroys, \* how often its connectDestroyed has run
    stolen,   \* history: while the spare was closed another thread opened a file, or the
              \* system was at its limit
    failed    \* "no", or what ends the process: see the actions that set it

table == <<slots, epoll, reading>>
poller == <<room, batch>>
callback == <<handler, dropped>>
ends == <<reports, erases, destroys>>
peers == <<stage, loopOf, backlog, ends>>
vars == <<asserts, bound, up, descriptors, table, poller, callback, peers, stolen, failed>>

Running == failed = "no"

\* l's thread is between two handlers, or between two batches.
Free(l) == Running /\ (l = "base" => handler = "none")
Idle(l) == Free(l) /\ batch[l] = {}

\* The numbers once every loop has its eventfd and the constructor of the acceptor has
\* opened its spare and its socket: there are enough for them.
Opened ==
    [o \in Objects |-> CASE o = "base" -> 0 [] o = "pool" -> 1
                          [] o = Spare -> 2 [] o = Listen -> 3 [] OTHER -> None]

\* LinuxFdEventManager::init has added the eventfd of each loop.
Init ==
    /\ asserts \in BOOLEAN
    /\ bound = FALSE
    /\ up = "new"
    /\ impl = Opened
    /\ files = [n \in Numbers |-> IF \E o \in Objects : impl[o] = n
                                  THEN CHOOSE o \in Objects : impl[o] = n ELSE None]
    /\ scarce = FALSE
    /\ slots = [l \in Loops |-> [n \in 0 .. Slots - 1 |-> IF n = impl[l] THEN l ELSE None]]
    /\ epoll = [l \in Loops |-> {l}]
    /\ reading = Loops
    /\ room = [l \in Loops |-> Events]
    /\ batch = [l \in Loops |-> {}]
    /\ handler = "none"
    /\ dropped = None
    /\ stage = [c \in Conns |-> "away"]
    /\ loopOf = [c \in Conns |-> "base"]
    /\ backlog = <<>>
    /\ reports = [c \in Conns |-> 0] /\ erases = reports /\ destroys = reports
    /\ stolen = FALSE
    /\ failed = "no"

-----------------------------------------------------------------------------
(* FdEventManager and EPollFdEventManager *)

\* The table, large enough for n.
Resized(t, n) ==
    IF n \in DOMAIN t THEN t
    ELSE [m \in 0 .. 2 * n - 1 |-> IF m \in DOMAIN t THEN t[m] ELSE None]

\* add: the channel is entered under its number, and registered.
Add(l, ch) ==
    LET n == impl'[ch]
        t == Resized(slots[l], n)
    IN /\ t[n] = None
       /\ slots' = [slots EXCEPT ![l] = [t EXCEPT ![n] = ch]]
       /\ epoll' = [epoll EXCEPT ![l] = @ \cup {ch}]

\* Channel::update, when some are registered: epoll does not take the new flags of a
\* channel that is not, and epollCtl ends the process.
Update(registered, ch) == failed' = IF ch \in registered THEN failed ELSE "epoll"

\* Channel::enableReading, of a channel of l.
EnableReading(l, ch) ==
    /\ reading' = reading \cup {ch}
    /\ Update(epoll'[l], ch)

\* Mutant: the slot keeps the channel.
Cancel_KeepsSlot(l, ch) ==
    /\ epoll' = [epoll EXCEPT ![l] = @ \ {ch}]
    /\ reading' = reading \ {ch}
    /\ Update(epoll[l], ch)
    /\ UNCHANGED slots

\* Channel::disableAll and cancel.
Cancel(l, ch) ==
    /\ Update(epoll[l], ch)
    /\ epoll' = [epoll EXCEPT ![l] = @ \ {ch}]
    /\ slots' = [slots EXCEPT ![l][impl[ch]] = None]
    /\ reading' = reading \ {ch}

\* What epoll has to report: a connection to accept, the end of one, a hangup of a
\* socket that does not listen; again until the channel is cancelled.
Ready(l) ==
    {ch \in epoll[l] \cap reading :
        IF ch = Listen THEN backlog # <<>> \/ up = "deaf"
        ELSE ch \in Conns /\ stage[ch] \in {"ended", "closing"} /\ reports[ch] < MaxReports}

\* process: epoll_wait returns as many of them as there is room for; a full array is
\* doubled.
Poll(l) ==
    /\ Idle(l)
    /\ \E some \in SUBSET Ready(l) :
        /\ some # {}
        /\ Cardinality(some) <= room[l]
        /\ some = Ready(l) \/ Cardinality(some) = room[l]
        /\ batch' = [batch EXCEPT ![l] = some]
        /\ room' = [room EXCEPT ![l] = IF Cardinality(some) = @ THEN 2 * @ ELSE @]
    /\ UNCHANGED <<asserts, bound, up, descriptors, table, callback, peers, stolen, failed>>

\* processEvent: the next event is ch's.
Handles(l, ch) ==
    /\ Free(l) /\ ch \in batch[l]
    /\ batch' = [batch EXCEPT ![l] = @ \ {ch}]
    /\ UNCHANGED room

-----------------------------------------------------------------------------
(* The acceptor *)

\* The constructor binds its socket; that the address is in use goes to the log.
Bind ==
    /\ Running /\ up = "new"
    /\ up' = "bound"
    /\ bound' \in BOOLEAN
    /\ UNCHANGED <<asserts, descriptors, table, poller, callback, peers, stolen, failed>>

\* FileDescriptor::listen has a condition for its errors and does not set it: that
\* another socket listens at the address is told to nobody.
Listened == {"listening", "deaf"}

\* Acceptor::listen, a task of TCPServer::start: the channel is added and enabled.
StartListen ==
    /\ Idle("base") /\ up = "bound"
    /\ up' \in Listened
    /\ UNCHANGED descriptors
    /\ Add("base", Listen)
    /\ EnableReading("base", Listen)
    /\ UNCHANGED <<asserts, bound, poller, callback, peers, stolen>>

\* Reactor::handleEvent takes the hangup of a socket that does not listen for the end of
\* a connection; the acceptor has set no closeCallback.
ListenerHangsUp ==
    /\ up = "deaf"
    /\ Handles("base", Listen)
    /\ failed' = "unhandled"
    /\ UNCHANGED <<asserts, bound, up, descriptors, table, callback, peers, stolen>>

\* UnixAcceptReactor::handleRead and acceptInLoop: the connection gets the lowest
\* number and the next loop.  On the base loop it is added and established at once.
AcceptInLoop ==
    LET c == Head(backlog)
    IN /\ Handles("base", Listen)
       /\ backlog # <<>>
       /\ Opens(c)
       /\ backlog' = Tail(backlog)
       /\ \E l \in Loops :
            /\ loopOf' = [loopOf EXCEPT ![c] = l]
            /\ stage' = [stage EXCEPT ![c] = IF l = "base" THEN "up" ELSE "accepted"]
            /\ IF l = "base" THEN Add(l, c) /\ EnableReading(l, c)
               ELSE UNCHANGED <<table, failed>>
       /\ UNCHANGED <<asserts, bound, up, callback, ends, stolen>>

\* accept fails: the connection has gone meanwhile, or the system is at its limit, which
\* is none of the errors that the error callback acts on, or the process ends for want
\* of memory.
AcceptFails ==
    /\ up = "listening"
    /\ Handles("base", Listen)
    /\ ~Exhausted
    /\ \/ (backlog = <<>> \/ scarce) /\ UNCHANGED failed
       \/ failed' = "accept"
    /\ UNCHANGED <<asserts, bound, up, descriptors, table, callback, peers, stolen>>

\* accept fails with EMFILE: the error callback is called.
TooManyFiles ==
    /\ up = "listening"
    /\ Handles("base", Listen)
    /\ Exhausted
    /\ handler' = "give up"
    /\ UNCHANGED <<asserts, bound, up, descriptors, table, dropped, peers, stolen, failed>>

Callback(from, to) == Running /\ handler = from /\ handler' = to

\* Mutant: the spare is not closed.
GiveUpSpare_Keeps ==
    /\ Callback("give up", "accept")
    /\ UNCHANGED <<asserts, bound, up, descriptors, table, poller, dropped, peers, stolen,
                   failed>>

\* The error callback: idleFd.close.
GiveUpSpare ==
    /\ Callback("give up", "accept")
    /\ Closes(Spare)
    /\ stolen' = (stolen \/ scarce)
    /\ UNCHANGED <<asserts, bound, up, table, poller, dropped, peers, failed>>

\* The error callback: accept, which may fail again.
AcceptToDrop ==
    /\ Callback("accept", "drop")
    /\ IF ~CanOpen \/ backlog = <<>>
       THEN /\ dropped' = None
            /\ UNCHANGED <<files, stage, backlog>>
       ELSE /\ dropped' = Head(backlog)
            /\ files' = [files EXCEPT ![Lowest] = Head(backlog)]
            /\ backlog' = Tail(backlog)
            /\ stage' = [stage EXCEPT ![Head(backlog)] = "gone"]
    /\ UNCHANGED <<asserts, bound, up, impl, scarce, table, poller, loopOf, ends, stolen,
                   failed>>

\* Mutant: what was accepted is not closed.
Drop_None ==
    /\ Callback("drop", "reopen")
    /\ dropped' = None
    /\ UNCHANGED <<asserts, bound, up, descriptors, table, poller, peers, stolen, failed>>

\* The error callback: close.
Drop ==
    /\ Callback("drop", "reopen")
    /\ files' = [n \in Numbers |-> IF dropped # None /\ files[n] = dropped THEN None ELSE files[n]]
    /\ dropped' = None
    /\ UNCHANGED <<asserts, bound, up, impl, scarce, table, poller, peers, stolen, failed>>

\* Mutant: the temporary object keeps the number, and closes it.
ReopenSpare_Closed ==
    /\ Callback("reopen", "none")
    /\ CanOpen
    /\ impl' = [impl EXCEPT ![Spare] = Lowest]
    /\ UNCHANGED <<asserts, bound, up, files, scarce, table, poller, dropped, peers, stolen,
                   failed>>

\* The error callback: the spare is opened again, through a second object and a swap.
\* If that fails, an assertion does, or the spare is -1.
ReopenSpare ==
    /\ Callback("reopen", "none")
    /\ \/ Opens(Spare) /\ UNCHANGED failed
       \/ ~CanOpen /\ asserts /\ failed' = "spare" /\ UNCHANGED descriptors
       \/ ~asserts /\ OpensBad(Spare) /\ UNCHANGED failed
    /\ UNCHANGED <<asserts, bound, up, table, poller, dropped, peers, stolen>>

\* ~Acceptor, on the base loop: its numbers are closed, and so epoll forgets the
\* listener; the table does not.
Destroy ==
    /\ Idle("base") /\ up \in Listened
    /\ up' = "destroyed"
    /\ files' = [n \in Numbers |-> IF n \in {impl[Listen], impl[Spare]} THEN None ELSE files[n]]
    /\ impl' = [impl EXCEPT ![Listen] = None, ![Spare] = None]
    /\ epoll' = [epoll EXCEPT !["base"] = @ \ {Listen}]
    /\ backlog' = <<>>
    /\ stage' = [c \in Conns |-> IF stage[c] = "waiting" THEN "gone" ELSE stage[c]]
    /\ UNCHANGED <<asserts, bound, scarce, slots, reading, poller, callback, loopOf, ends,
                   stolen, failed>>

-----------------------------------------------------------------------------
(* The connections *)

\* The tasks of acceptInLoop and newConnection, on the pool.
AddTask ==
    /\ Idle("pool")
    /\ \E c \in Conns :
        /\ stage[c] = "accepted"
        /\ stage' = [stage EXCEPT ![c] = "added"]
        /\ UNCHANGED descriptors
        /\ Add("pool", c)
    /\ UNCHANGED <<asserts, bound, up, reading, poller, callback, loopOf, backlog, ends,
                   stolen, failed>>

EstablishTask ==
    /\ Idle("pool")
    /\ UNCHANGED <<asserts, bound, up, descriptors, slots, epoll, poller, callback, loopOf,
                   backlog, ends, stolen>>
    /\ \E c \in Conns :
        /\ stage[c] = "added"
        /\ stage' = [stage EXCEPT ![c] = "up"]
        /\ EnableReading("pool", c)

Again(count, c, n) == [count EXCEPT ![c] = @ + n]

\* The end of the stream is read, and then a write may fail: handleClose is called once
\* or twice.  On the base loop the connection is removed and cancelled at once, and the
\* second call fails; on the pool each call queues a task of the base loop, and the end
\* is reported again until that has cancelled the connection.
HandleEnd(l, c) ==
    /\ Handles(l, c)
    /\ \E calls \in {1, 2} :
        /\ reports[c] + calls <= MaxReports
        /\ reports' = Again(reports, c, calls)
        /\ \/ /\ l = "base" /\ calls = 1
              /\ Cancel(l, c)
              /\ stage' = [stage EXCEPT ![c] = "cancelled"]
              /\ erases' = Again(erases, c, 1) /\ destroys' = Again(destroys, c, 1)
           \/ /\ l = "base" /\ calls = 2
              /\ failed' = IF asserts THEN "removed" ELSE "epoll"
              /\ UNCHANGED <<table, stage, erases, destroys>>
           \/ /\ l = "pool"
              /\ stage' = [stage EXCEPT ![c] = "closing"]
              /\ UNCHANGED <<table, erases, destroys, failed>>
    /\ UNCHANGED <<asserts, bound, up, descriptors, callback, loopOf, backlog, stolen>>

\* The task of removeConnection: the connection is erased from the map of the server,
\* where the second time an assertion misses it, and connectDestroyed is sent back.
RemoveTask ==
    /\ Idle("base")
    /\ \E c \in Conns :
        /\ erases[c] < reports[c]
        /\ erases' = Again(erases, c, 1)
        /\ failed' = IF erases[c] > 0 /\ asserts THEN "removed" ELSE failed
    /\ UNCHANGED <<asserts, bound, up, descriptors, table, poller, callback, stage, loopOf,
                   backlog, reports, destroys, stolen>>

\* connectDestroyed: the second time epoll does not know the channel.
DestroyTask ==
    /\ Idle("pool")
    /\ \E c \in Conns :
        /\ destroys[c] < erases[c]
        /\ destroys' = Again(destroys, c, 1)
        /\ Cancel("pool", c)
        /\ stage' = [stage EXCEPT ![c] = "cancelled"]
    /\ UNCHANGED <<asserts, bound, up, descriptors, poller, callback, loopOf, backlog,
                   reports, erases, stolen>>

\* The last reference goes, those of the queued tasks too, and with the channel its
\* number.
Destruct(c) ==
    /\ Running /\ stage[c] = "cancelled"
    /\ reports[c] = destroys[c]
    /\ loopOf[c] = "base" => handler = "none"
    /\ Closes(c)
    /\ stage' = [stage EXCEPT ![c] = "gone"]
    /\ UNCHANGED <<asserts, bound, up, table, poller, callback, loopOf, backlog, ends, stolen,
                   failed>>

-----------------------------------------------------------------------------
(* The peers and the other threads *)

PeerConnects(c) ==
    /\ Running /\ stage[c] = "away" /\ bound /\ up = "listening"
    /\ stage' = [stage EXCEPT ![c] = "waiting"]
    /\ backlog' = Append(backlog, c)
    /\ UNCHANGED <<asserts, bound, up, descriptors, table, poller, callback, loopOf, ends,
                   stolen, failed>>

PeerGivesUp(c) ==
    /\ Running /\ stage[c] = "waiting"
    /\ stage' = [stage EXCEPT ![c] = "gone"]
    /\ \E i \in DOMAIN backlog : backlog[i] = c /\ backlog' = RemoveAt(backlog, i)
    /\ UNCHANGED <<asserts, bound, up, descriptors, table, poller, callback, loopOf, ends,
                   stolen, failed>>

PeerEnds(c) ==
    /\ Running /\ stage[c] = "up"
    /\ stage' = [stage EXCEPT ![c] = "ended"]
    /\ UNCHANGED <<asserts, bound, up, descriptors, table, poller, callback, loopOf, backlog,
                   ends, stolen, failed>>

\* The spare is closed.
SpareIsOut == handler \in {"accept", "drop", "reopen"}

OtherThread(f) ==
    /\ Running
    /\ \/ OtherOpens(f) /\ stolen' = (stolen \/ SpareIsOut)
       \/ OtherCloses(f) /\ UNCHANGED stolen
    /\ UNCHANGED <<asserts, bound, up, table, poller, callback, peers, failed>>

OtherProcess ==
    /\ Running
    /\ SystemLimit
    /\ stolen' = (stolen \/ SpareIsOut)
    /\ UNCHANGED <<asserts, bound, up, table, poller, callback, peers, failed>>

-----------------------------------------------------------------------------
ErrorCallback == GiveUpSpare \/ AcceptToDrop \/ Drop \/ ReopenSpare

LoopNext(l) ==
    \/ Poll(l)
    \/ l = "base" /\ (StartListen \/ ListenerHangsUp \/ AcceptInLoop \/ AcceptFails
                      \/ TooManyFiles \/ ErrorCallback \/ RemoveTask)
    \/ l = "pool" /\ (AddTask \/ EstablishTask \/ DestroyTask)
    \/ \E c \in Conns : HandleEnd(l, c)

Next ==
    \/ \E l \in Loops : LoopNext(l)
    \/ Bind \/ Destroy
    \/ \E c \in Conns : Destruct(c) \/ PeerConnects(c) \/ PeerGivesUp(c) \/ PeerEnds(c)
    \/ \E f \in Others : OtherThread(f)
    \/ OtherProcess

\* The loops run; nobody else has to do anything.
Fairness == \A l \in Loops : WF_vars(LoopNext(l))

Spec == Init /\ [][Next]_vars /\ Fairness

-----------------------------------------------------------------------------
(* Properties *)

\* Types, of build and process apart.  A table has the numbers from 0 on.
TypeOK ==
    /\ DescriptorsOK
    /\ up \in {"new", "bound", "destroyed"} \cup Listened
    /\ slots = [l \in Loops |-> slots[l]]
    /\ \A l \in Loops :
          /\ DOMAIN slots[l] \subseteq Nat /\ 0 \in DOMAIN slots[l]
          /\ \A n \in DOMAIN slots[l] :
                0 .. n \subseteq DOMAIN slots[l] /\ slots[l][n] \in Objects \cup {None}
    /\ epoll \in [Loops -> SUBSET Objects]
    /\ reading \subseteq Objects
    /\ room \in [Loops -> Nat \ {0}]
    /\ batch \in [Loops -> SUBSET Objects]
    /\ handler \in {"none", "give up", "accept", "drop", "reopen"}
    /\ dropped \in Conns \cup {None}
    /\ stage \in [Conns -> {"away", "waiting", "accepted", "added", "up", "ended", "closing",
                            "cancelled", "gone"}]
    /\ loopOf \in [Conns -> Loops]
    /\ backlog \in Seq(Conns)
    /\ reports \in [Conns -> Nat] /\ erases \in [Conns -> Nat] /\ destroys \in [Conns -> Nat]

\* Every number that an object has refers to its file, and to nothing that another
\* thread has opened since; every open file of the acceptor and its connections is
\* held by an object, or is the one about to be dropped.
DescriptorsMatch ==
    Running =>
        /\ DescriptorsOK
        /\ \A o \in Objects \ {dropped}, n \in Numbers : OwnFile(o, n)

\* The table of a loop, its epoll and the batch it is in the middle of agree: each slot
\* has a channel that lives, with that number, and is registered, and no other is
\* registered or about to be handled.  Only the destructor of the acceptor leaves its
\* slot behind.  epoll is never asked about a channel it does not know, and no connection
\* is removed that the server does not have, unless the end of one is reported twice.
TableMatchesEpoll ==
    /\ failed \in {"epoll", "removed"} => \E c \in Conns : reports[c] > 1
    /\ failed = "epoll" => ~asserts
    /\ Running => \A l \in Loops :
          /\ \A n \in DOMAIN slots[l] :
              slots[l][n] # None /\ ~(slots[l][n] = Listen /\ up = "destroyed") =>
                  slots[l][n] \in epoll[l] /\ impl[slots[l][n]] = n
          /\ \A ch \in epoll[l] : impl[ch] \in DOMAIN slots[l] /\ slots[l][impl[ch]] = ch
          /\ batch[l] \subseteq epoll[l]

\* The spare is got back, unless another thread has opened a file, or the system was at
\* its limit, while the acceptor had given it up.
SpareTakesARace == failed = "spare" \/ impl[Spare] = Bad => stolen

\* Who waits to be accepted is accepted, dropped, or gone, at the limit of open files
\* too, unless the spare is lost: if in the end the system is not at its own limit, at
\* which the acceptor only looks at its listener again and again.
IsServed(c) == (stage[c] = "waiting") ~> (stage[c] # "waiting" \/ stolen \/ ~Running)

WaitingIsServed == (<>[]~scarce) => \A c \in Conns : IsServed(c)

(* Known failures: none of these holds. *)

\* At the limit of the system, too, somebody gets an answer.
SystemLimitIsServed == \A c \in Conns : IsServed(c)

\* A connection is removed once, as the assertion of removeConnection says.
EndIsRemovedOnce == failed \notin {"epoll", "removed"}

\* No slot has a channel that was destroyed.
SlotsAlive ==
    \A l \in Loops : \A n \in DOMAIN slots[l] : slots[l][n] # None => impl[slots[l][n]] # None

\* The spare is always got back.
SpareIsKept == failed # "spare" /\ impl[Spare] # Bad

\* A server that listens can be reached: a bind that fails is told to somebody.
BindFailureIsTold == up = "listening" => bound

\* A listen that fails is noticed, as the look at its condition in Acceptor::listen would.
ListenFailureIsNoticed == failed # "unhandled"

\* A shortage of memory in accept is survived.
ShortageIsSurvived == failed # "accept"
=============================================================================
