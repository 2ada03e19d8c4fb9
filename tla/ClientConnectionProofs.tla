------------------------ MODULE ClientConnectionProofs ------------------------
(***************************************************************************)
(* What TLAPS proves of ClientConnection, for both builds and any number   *)
(* of calls and attempts: the poller holds no channel that is gone, one    *)
(* connect makes one attempt at a time, and a failure takes one of the     *)
(* races that FailureTakesARace lists.                                     *)
(*                                                                         *)
(* The last is an argument about what is queued: the connection that is    *)
(* taken from the client has its connectDestroyed in the queue of the      *)
(* loop, and with epoll that runs before the next event unless another     *)
(* thread has a task in its place.                                         *)
(***************************************************************************)
EXTENDS ClientConnection, SequenceTheorems, TLAPS

-----------------------------------------------------------------------------
(* The inductive invariant.                                                *)

In(s, t) == \E i \in DOMAIN s : s[i] = t
Once(s, t) == \A i, j \in DOMAIN s : s[i] = t /\ s[j] = t => i = j

\* The socket is the Connector's until it is connected, and then the connection's.
Linked ==
    /\ state = "Connected" <=> channel = "connection"
    /\ state = "Connected" <=> tstate # "none"
    /\ state = "Connected" => socket \in {"open", "eof", "ended", "reset"}
    /\ state = "Disconnected" => socket = "none"
    /\ channel = "none" => ~polled
    /\ channel = "connector" => socket # "ended"
    /\ socket = "ended" => backend = "iocp"

\* What is left of a connection, and who has asked for it to end.
Alive ==
    /\ tie <=> tstate = "kConnected"
    /\ connection => tie
    /\ tstate = "kDisconnected" => ~polled
    /\ In(inside, "destroyed") => ~connection
    /\ tie /\ ~connection => In(inside, "destroyed")
    /\ inside # <<>> \/ In(outside, "close") => tstate # "none"
    /\ disconnects = 0 => ~In(inside, "close") /\ ~In(outside, "close")
    /\ disconnects = 1 =>
        /\ Once(inside, "close") /\ Once(outside, "close")
        /\ ~(In(inside, "close") /\ In(outside, "close"))
    /\ tstate # "none" /\ ~connection =>
        \/ socket \in (IF backend = "epoll" THEN {"eof", "reset"} ELSE {"ended"})
        \/ disconnects > 1
        \/ disconnects = 1 /\ ~In(inside, "close") /\ ~In(outside, "close")

\* A client that was told once to connect is on its way to it once.
Starts ==
    /\ starts = 0 => ~In(outside, "start") /\ timers = 0 /\ state = "Disconnected"
    /\ starts = 1 /\ failed = "no" =>
        /\ In(outside, "start") => timers = 0 /\ state = "Disconnected" /\ Once(outside, "start")
        /\ timers <= 1
        /\ timers = 1 => state = "Disconnected"
    /\ others = 0 => ~In(outside, "other")

\* Only epoll has a write to go on to, and what its handlers have queued is run in the
\* same turn if no other thread has a task.
Turns ==
    /\ phase = "write" => backend = "epoll"
    /\ backend = "epoll" /\ starts = 1 /\ disconnects = 0 /\ others = 0 /\ failed = "no"
        /\ state = "Connected" =>
          /\ phase = "poll" => inside = <<>>
          /\ phase = "cycle" => todo = Len(inside)

IInv == TypeOK /\ Linked /\ Alive /\ Starts /\ Turns /\ FailureTakesARace

-----------------------------------------------------------------------------
(* Tasks in a queue.                                                       *)

LEMMA AppendTask ==
    ASSUME NEW S, NEW s \in Seq(S), NEW t \in S
    PROVE  /\ Append(s, t) \in Seq(S) /\ Append(s, t) # <<>> /\ Len(Append(s, t)) = Len(s) + 1
           /\ \A u : In(Append(s, t), u) <=> In(s, u) \/ t = u
           /\ \A u : Once(s, u) /\ (t # u \/ ~In(s, u)) => Once(Append(s, t), u)
<1> USE DEF In, Once
<1> DEFINE a == Append(s, t)
<1>1. /\ Len(s) \in Nat /\ DOMAIN s = 1 .. Len(s) /\ DOMAIN a = 1 .. Len(s) + 1
      /\ a \in Seq(S) /\ Len(a) = Len(s) + 1
      /\ \A i \in 1 .. Len(s) : a[i] = s[i]
      /\ a[Len(s) + 1] = t
  OBVIOUS
<1>2. a # <<>>
  BY <1>1, EmptySeq
<1> HIDE DEF a
<1>3. \A u : In(a, u) <=> In(s, u) \/ t = u
  BY <1>1
<1>4. ASSUME NEW u, Once(s, u), t # u \/ ~In(s, u)
      PROVE  Once(a, u)
  BY <1>1, <1>4
<1> QED BY <1>1, <1>2, <1>3, <1>4 DEF a

LEMMA TailTask ==
    ASSUME NEW S, NEW s \in Seq(S), s # <<>>
    PROVE  /\ Tail(s) \in Seq(S) /\ Head(s) \in S /\ Len(Tail(s)) = Len(s) - 1 /\ Len(s) > 0
           /\ \A u : In(s, u) <=> In(Tail(s), u) \/ Head(s) = u
           /\ \A u : Once(s, u) => Once(Tail(s), u) /\ (Head(s) = u => ~In(Tail(s), u))
<1> USE DEF In, Once
<1> DEFINE r == Tail(s)
<1>1. /\ Len(s) \in Nat \ {0} /\ DOMAIN s = 1 .. Len(s) /\ DOMAIN r = 1 .. Len(s) - 1
      /\ r \in Seq(S) /\ Head(s) \in S /\ Len(r) = Len(s) - 1
      /\ \A i \in 1 .. Len(s) - 1 : r[i] = s[i + 1]
      /\ Head(s) = s[1]
  BY HeadTailProperties, EmptySeq
<1> HIDE DEF r
<1>2. ASSUME NEW i \in DOMAIN s, i # 1
      PROVE  i - 1 \in DOMAIN r /\ r[i - 1] = s[i]
  BY <1>1, <1>2
<1>3. ASSUME NEW i \in DOMAIN r
      PROVE  i + 1 \in DOMAIN s /\ i + 1 # 1 /\ r[i] = s[i + 1]
  BY <1>1
<1>4. 1 \in DOMAIN s
  BY <1>1
<1>5. \A u : In(s, u) <=> In(r, u) \/ s[1] = u
  BY <1>2, <1>3, <1>4
<1>6. ASSUME NEW u, Once(s, u)
      PROVE  Once(r, u) /\ (s[1] = u => ~In(r, u))
  <2>1. ASSUME NEW i \in DOMAIN r, NEW j \in DOMAIN r, r[i] = u, r[j] = u PROVE i = j
    BY <1>1, <1>3, <1>6, <2>1
  <2>2. ASSUME s[1] = u, NEW i \in DOMAIN r, r[i] = u PROVE FALSE
    BY <1>3, <1>4, <1>6, <2>2
  <2> QED BY <2>1, <2>2
<1> QED BY <1>1, <1>5, <1>6 DEF r

\* A queue is empty when it has none of the tasks it may have.
LEMMA NoTask ==
    ASSUME NEW S, NEW s \in Seq(S), \A t \in S : ~In(s, t)
    PROVE  s = <<>>
<1> SUFFICES ASSUME s # <<>> PROVE FALSE
  OBVIOUS
<1>1. Head(s) \in S /\ In(s, Head(s))
  BY TailTask
<1> QED BY <1>1

LEMMA QueuedIn ==
    ASSUME NEW task
    PROVE  Queued(task) <=> In(outside, task) \/ In(inside, task)
  BY DEF Queued, In

-----------------------------------------------------------------------------
(* The steps: the users, the peer and the socket.                          *)

Queues ==
    /\ outside \in Seq({"start", "close", "other"})
    /\ inside \in Seq({"close", "destroyed"})
    /\ Len(inside) \in Nat /\ Len(outside) \in Nat

LEMMA Parts ==
    ASSUME IInv
    PROVE  TypeOK /\ Linked /\ Alive /\ Starts /\ Turns /\ FailureTakesARace /\ Queues
<1>1. TypeOK
  BY DEF IInv
<1>2. Queues
  BY <1>1 DEF TypeOK, Queues
<1> QED BY <1>1, <1>2 DEF IInv

LEMMA ConnectKeeps ==
    ASSUME IInv, Connect
    PROVE  IInv'
<1> USE DEF Connect, QueueOutside, connectorVars, channelVars, connVars
<1>1. /\ outside' \in Seq({"start", "close", "other"})
      /\ \A u : In(outside', u) <=> In(outside, u) \/ u = "start"
      /\ \A u : Once(outside, u) /\ (u # "start" \/ ~In(outside, u)) => Once(outside', u)
  BY Parts, AppendTask DEF Queues
<1>2. TypeOK'
  BY <1>1, Parts, ClientAssumption DEF TypeOK
<1>3. Linked'
  BY Parts DEF Linked
<1>4. Alive'
  BY <1>1, Parts DEF Alive
<1>5. Starts'
  <2>1. starts \in Nat /\ starts' = starts + 1
    BY Parts DEF TypeOK
  <2>2. CASE starts = 0
    <3>1. Once(outside, "start")
      BY <2>2, Parts DEF Starts, Once, In
    <3> QED BY <1>1, <2>1, <2>2, <3>1, Parts DEF Starts
  <2>3. CASE starts # 0
    BY <1>1, <2>1, <2>3, Parts DEF Starts
  <2> QED BY <2>2, <2>3
<1>6. Turns'
  BY Parts DEF Turns, Starts, TypeOK
<1>7. FailureTakesARace'
  BY Parts DEF FailureTakesARace
<1> QED BY <1>2, <1>3, <1>4, <1>5, <1>6, <1>7 DEF IInv

LEMMA DisconnectKeeps ==
    ASSUME IInv, Disconnect
    PROVE  IInv'
<1> USE DEF Disconnect, QueueOutside, connectorVars, channelVars, connVars
<1>1. /\ outside' \in Seq({"start", "close", "other"})
      /\ \A u : In(outside', u) <=> In(outside, u) \/ u = "close"
      /\ \A u : Once(outside, u) /\ (u # "close" \/ ~In(outside, u)) => Once(outside', u)
  <2>1. outside \in Seq({"start", "close", "other"}) /\ outside' = Append(outside, "close")
    BY Parts DEF Queues
  <2> QED BY ONLY <2>1, AppendTask
<1>2. TypeOK'
  BY <1>1, Parts, ClientAssumption DEF TypeOK
<1>3. Linked'
  BY Parts DEF Linked
<1>4. Alive'
  BY <1>1, Parts DEF Alive, TypeOK, Once, In
<1>5. Starts'
  BY <1>1, Parts DEF Starts, TypeOK
<1>6. Turns'
  BY Parts DEF Turns, TypeOK
<1>7. FailureTakesARace'
  BY Parts DEF FailureTakesARace
<1> QED BY <1>2, <1>3, <1>4, <1>5, <1>6, <1>7 DEF IInv

LEMMA PostOtherKeeps ==
    ASSUME IInv, PostOther
    PROVE  IInv'
<1> USE DEF PostOther, QueueOutside, connectorVars, channelVars, connVars
<1>1. /\ outside' \in Seq({"start", "close", "other"})
      /\ \A u : In(outside', u) <=> In(outside, u) \/ u = "other"
      /\ \A u : Once(outside, u) /\ (u # "other" \/ ~In(outside, u)) => Once(outside', u)
  BY Parts, AppendTask DEF Queues
<1>2. TypeOK'
  BY <1>1, Parts, ClientAssumption DEF TypeOK
<1>3. Linked'
  BY Parts DEF Linked
<1>4. Alive'
  BY <1>1, Parts DEF Alive
<1>5. Starts'
  BY <1>1, Parts DEF Starts, TypeOK
<1>6. Turns'
  BY Parts DEF Turns, TypeOK
<1>7. FailureTakesARace'
  BY Parts DEF FailureTakesARace
<1> QED BY <1>2, <1>3, <1>4, <1>5, <1>6, <1>7 DEF IInv

LEMMA SocketConnectsKeeps ==
    ASSUME IInv, SocketConnects
    PROVE  IInv'
<1> USE DEF SocketConnects, loopVars, connectorVars, connVars, userVars
<1>1. TypeOK'
  BY Parts DEF TypeOK
<1>2. Linked'
  BY Parts DEF Linked
<1>3. Alive' /\ Starts' /\ Turns'
  BY Parts DEF Alive, Starts, Turns, Linked
<1>4. FailureTakesARace'
  BY Parts DEF FailureTakesARace
<1> QED BY <1>1, <1>2, <1>3, <1>4 DEF IInv

LEMMA PeerClosesKeeps ==
    ASSUME IInv, PeerCloses
    PROVE  IInv'
<1> USE DEF PeerCloses, loopVars, connectorVars, connVars, userVars
<1>1. TypeOK'
  BY Parts DEF TypeOK
<1>2. Linked'
  BY Parts DEF Linked
<1>3. Alive' /\ Starts' /\ Turns'
  BY Parts DEF Alive, Starts, Turns
<1>4. FailureTakesARace'
  BY Parts DEF FailureTakesARace
<1> QED BY <1>1, <1>2, <1>3, <1>4 DEF IInv

-----------------------------------------------------------------------------
(* The steps: the Connector.                                               *)

LEMMA Doubled ==
    \A d \in 1 .. 60 : (IF 2 * d < 60 THEN 2 * d ELSE 60) \in 1 .. 60
  OBVIOUS

\* connect, where a start was taken from outside or a timer was: t are left.
LEMMA StartInLoopKeeps ==
    ASSUME IInv, failed = "no", NEW t \in Nat, StartInLoop(t),
           state = "Disconnected" => attempts < MaxAttempts,
           UNCHANGED <<backend, phase, inside, connection, tstate, tie, starts, disconnects,
                       others>>,
           todo' \in Nat, backend = "epoll" /\ phase = "cycle" => todo' = todo - 1,
           outside' \in Seq({"start", "close", "other"}),
           \A u : In(outside', u) => In(outside, u),
           \A u : Once(outside, u) => Once(outside', u),
           \A u : u # "start" /\ In(outside, u) => In(outside', u),
           starts = 0 => FALSE,
           starts = 1 => t = 0 /\ state = "Disconnected" /\ ~In(outside', "start")
    PROVE  IInv'
<1>1. \/ state' = "Disconnected" /\ timers' = t + 1 /\ channel' = "none" /\ polled' = FALSE
         /\ socket' = "none" /\ failed' = "no" /\ state = "Disconnected"
         /\ attempts' = attempts + 1
      \/ state' = "Connecting" /\ timers' = t + 1 /\ channel' = "none" /\ polled' = FALSE
         /\ socket' = "none" /\ failed' = "null" /\ state = "Disconnected"
         /\ attempts' = attempts + 1 /\ backend = "iocp" /\ "refused" \in Outcomes
      \/ state' = "Connecting" /\ timers' = t /\ channel' = "connector" /\ polled' = TRUE
         /\ socket' = "connecting" /\ failed' = "no" /\ state = "Disconnected"
         /\ attempts' = attempts + 1
      \/ state # "Disconnected" /\ failed' = "disconnected" /\ timers' = t
         /\ UNCHANGED <<state, attempts, channel, socket, polled>>
  BY DEF StartInLoop, CreateFails, PostConnectFails, CreateInProgress, Retry, CloseChannel
<1>2. retryDelay' \in 1 .. MaxDelay
  <2>1. retryDelay \in 1 .. 60
    BY Parts DEF TypeOK, MaxDelay
  <2>2. \/ retryDelay' = retryDelay
        \/ retryDelay' = IF 2 * retryDelay < 60 THEN 2 * retryDelay ELSE 60
    BY DEF StartInLoop, CreateFails, PostConnectFails, CreateInProgress, Retry, MaxDelay
  <2> QED BY <2>1, <2>2, Doubled DEF MaxDelay
<1>3. TypeOK'
  <2>1. attempts \in Nat /\ attempts \in 0 .. MaxAttempts /\ MaxAttempts \in Nat
    BY Parts, ClientAssumption DEF TypeOK
  <2>2. timers' \in Nat
    BY <1>1
  <2>3. attempts' \in 0 .. MaxAttempts
    BY <1>1, <2>1
  <2> QED BY <1>1, <1>2, <2>2, <2>3, Parts DEF TypeOK, Failures
<1>4. Linked'
  BY <1>1, Parts DEF Linked
<1>5. Alive'
  BY <1>1, Parts DEF Alive, Linked
<1>6. Starts'
  BY <1>1, Parts DEF Starts, TypeOK, Linked
<1>7. Turns'
  BY <1>1, Parts DEF Turns, TypeOK
<1>8. FailureTakesARace'
  BY <1>1, Parts DEF FailureTakesARace, TypeOK, Linked
<1> QED BY <1>3, <1>4, <1>5, <1>6, <1>7, <1>8 DEF IInv

LEMMA FireRetryKeeps ==
    ASSUME IInv, FireRetry
    PROVE  IInv'
<1> USE DEF FireRetry, loopVars, connVars, userVars
<1>1. timers \in Nat \ {0} /\ todo \in Nat /\ outside \in Seq({"start", "close", "other"})
  BY Parts DEF TypeOK
<1>2. starts # 0 /\ (starts = 1 => timers - 1 = 0 /\ state = "Disconnected" /\ ~In(outside, "start"))
  BY <1>1, Parts DEF Starts
<1> QED BY <1>1, <1>2, StartInLoopKeeps

LEMMA RunStartKeeps ==
    ASSUME IInv, RunStart
    PROVE  IInv'
<1> USE DEF RunStart, Cycle, TakeOutside, connVars, userVars
<1>1. timers \in Nat /\ todo' \in Nat /\ todo' = todo - 1
  BY Parts DEF TypeOK
<1>2. /\ outside' \in Seq({"start", "close", "other"})
      /\ \A u : In(outside, u) <=> In(outside', u) \/ u = "start"
      /\ \A u : Once(outside, u) => Once(outside', u)
      /\ Once(outside, "start") => ~In(outside', "start")
  BY Parts, TailTask DEF Queues
<1>3. starts # 0 /\ (starts = 1 => timers = 0 /\ state = "Disconnected" /\ ~In(outside', "start"))
  BY <1>2, Parts DEF Starts
<1> QED BY <1>1, <1>2, <1>3, StartInLoopKeeps

-----------------------------------------------------------------------------
(* The steps: the events.                                                  *)

\* The end of a connection is seen a second time.
LEMMA SecondEnd ==
    ASSUME IInv, failed = "no", phase = "poll", polled, channel = "connection", ~connection
    PROVE  /\ backend = "epoll" => disconnects + others + starts > 1
           /\ backend = "iocp" => socket = "ended" \/ disconnects > 0
<1>1. disconnects \in Nat /\ others \in Nat /\ starts \in Nat
  BY Parts DEF TypeOK
<1>2. state = "Connected" /\ tstate # "none" /\ tie /\ starts # 0
  BY Parts DEF Linked, Alive, Starts, TypeOK
<1>3. inside # <<>>
  BY <1>2, Parts DEF Alive, In, Queues
<1>4. backend = "epoll" => disconnects # 0 \/ others # 0 \/ starts # 1
  BY <1>2, <1>3, Parts DEF Turns
<1>5. backend = "iocp" => socket = "ended" \/ disconnects > 0
  BY <1>1, <1>2, Parts DEF Alive
<1> QED BY <1>1, <1>2, <1>4, <1>5

LEMMA ConnectedKeeps ==
    ASSUME IInv, Connected
    PROVE  IInv'
<1> USE DEF Connected, Event, userVars
<1>1. tstate = "none" /\ state = "Connecting"
  BY Parts DEF Linked, TypeOK
<1>2. inside = <<>> /\ ~In(outside, "close")
  BY <1>1, Parts DEF Alive
<1>3. TypeOK'
  BY Parts DEF TypeOK
<1>4. Linked'
  BY Parts DEF Linked
<1>5. Alive'
  BY <1>1, <1>2, Parts DEF Alive, In
<1>6. Starts'
  BY <1>1, Parts DEF Starts
<1>7. Turns'
  BY Parts DEF Turns
<1>8. FailureTakesARace'
  BY Parts DEF FailureTakesARace
<1> QED BY <1>3, <1>4, <1>5, <1>6, <1>7, <1>8 DEF IInv

LEMMA ConnectRefusedKeeps ==
    ASSUME IInv, ConnectRefused
    PROVE  IInv'
<1> USE DEF ConnectRefused, Event, connectorVars, channelVars, connVars, userVars
<1>1. TypeOK'
  BY Parts DEF TypeOK, Failures
<1>2. Linked' /\ Alive' /\ Starts' /\ Turns'
  BY Parts DEF Linked, Alive, Starts, Turns
<1>3. FailureTakesARace'
  BY Parts DEF FailureTakesARace
<1> QED BY <1>1, <1>2, <1>3 DEF IInv

LEMMA ConnectErrorKeeps ==
    ASSUME IInv, ConnectError
    PROVE  IInv'
<1> USE DEF ConnectError, Event, Retry, CloseChannel, connVars, userVars
<1>1. state = "Connecting" /\ timers \in Nat /\ starts # 0
  BY Parts DEF Linked, TypeOK, Starts
<1>2. starts = 1 => timers = 0 /\ ~In(outside, "start")
  BY <1>1, Parts DEF Starts
<1>3. TypeOK'
  <2>1. retryDelay' \in 1 .. MaxDelay
    BY Parts, Doubled DEF TypeOK, MaxDelay
  <2>2. timers' \in Nat /\ state' = "Disconnected" /\ phase' \in {"poll", "timers"}
    BY <1>1
  <2>3. channel' \in {channel, "none"} /\ polled' \in {polled, FALSE} /\ socket' = "none"
    OBVIOUS
  <2>4. UNCHANGED <<backend, todo, outside, inside, attempts, connection, tstate, tie, starts,
                    disconnects, others, failed>>
    OBVIOUS
  <2> QED BY <2>1, <2>2, <2>3, <2>4, Parts DEF TypeOK
<1>4. Linked'
  BY <1>1, Parts DEF Linked
<1>5. Alive'
  BY <1>1, Parts DEF Alive, Linked
<1>6. Starts'
  BY <1>1, <1>2, Parts DEF Starts
<1>7. Turns'
  BY Parts DEF Turns
<1>8. FailureTakesARace'
  BY Parts DEF FailureTakesARace
<1> QED BY <1>3, <1>4, <1>5, <1>6, <1>7, <1>8 DEF IInv

LEMMA HandleMessageKeeps ==
    ASSUME IInv, HandleMessage
    PROVE  IInv'
<1> USE DEF HandleMessage, Event, connectorVars, channelVars, connVars
<1>1. CASE UNCHANGED <<inside, disconnects>>
  <2>1. TypeOK'
    BY <1>1, Parts DEF TypeOK
  <2>2. Linked' /\ Alive' /\ Starts' /\ Turns'
    BY <1>1, Parts DEF Linked, Alive, Starts, Turns
  <2>3. FailureTakesARace'
    BY <1>1, Parts DEF FailureTakesARace
  <2> QED BY <2>1, <2>2, <2>3 DEF IInv
<1>2. CASE /\ connection
           /\ disconnects < MaxDisconnects
           /\ disconnects' = disconnects + 1
           /\ inside' = Append(inside, "close")
  <2>1. /\ inside' \in Seq({"close", "destroyed"}) /\ inside' # <<>>
        /\ \A u : In(inside', u) <=> In(inside, u) \/ u = "close"
        /\ \A u : Once(inside, u) /\ (u # "close" \/ ~In(inside, u)) => Once(inside', u)
    <3>1. inside \in Seq({"close", "destroyed"}) /\ inside' = Append(inside, "close")
      BY <1>2, Parts DEF Queues
    <3> QED BY ONLY <3>1, AppendTask
  <2>2. TypeOK'
    BY <1>2, <2>1, Parts, ClientAssumption DEF TypeOK
  <2>3. Linked' /\ Starts'
    BY Parts DEF Linked, Starts
  <2>4. Alive'
    BY <1>2, <2>1, Parts DEF Alive, Linked, TypeOK, Once, In
  <2>5. Turns'
    BY <1>2, Parts DEF Turns, TypeOK
  <2>6. FailureTakesARace'
    BY Parts DEF FailureTakesARace
  <2> QED BY <2>2, <2>3, <2>4, <2>5, <2>6 DEF IInv
<1> QED BY <1>1, <1>2

LEMMA HandleEofKeeps ==
    ASSUME IInv, HandleEof
    PROVE  IInv'
<1> USE DEF HandleEof, Event, RemoveConnection, connectorVars, userVars
<1>1. CASE connection
  <2>1. /\ inside' \in Seq({"close", "destroyed"}) /\ inside' # <<>>
        /\ \A u : In(inside', u) <=> In(inside, u) \/ u = "destroyed"
        /\ \A u : Once(inside, u) /\ (u # "destroyed" \/ ~In(inside, u)) => Once(inside', u)
    <3>1. inside' = Append(inside, "destroyed") /\ inside \in Seq({"close", "destroyed"})
      BY <1>1, Parts DEF Queues
    <3> QED BY <3>1, AppendTask
  <2>2. TypeOK'
    BY <1>1, <2>1, Parts DEF TypeOK
  <2>3. Linked'
    BY Parts, ClientAssumption DEF Linked, TypeOK
  <2>4. Alive'
    BY <1>1, <2>1, Parts DEF Alive, Linked
  <2>5. Starts'
    BY <1>1, Parts DEF Starts
  <2>6. Turns'
    BY Parts DEF Turns
  <2>7. FailureTakesARace'
    BY <1>1, Parts DEF FailureTakesARace
  <2> QED BY <2>2, <2>3, <2>4, <2>5, <2>6, <2>7 DEF IInv
<1>2. CASE ~connection
  <2>1. TypeOK'
    BY <1>2, Parts DEF TypeOK, Failures
  <2>2. Linked'
    BY Parts, ClientAssumption DEF Linked, TypeOK
  <2>3. Alive' /\ Starts' /\ Turns'
    BY <1>2, Parts DEF Alive, Starts, Turns, Linked
  <2>4. FailureTakesARace'
    <3>1. /\ backend = "epoll" => disconnects + others + starts > 1
          /\ backend = "iocp" => disconnects > 0
      BY <1>2, SecondEnd
    <3>2. disconnects \in Nat /\ backend \in {"epoll", "iocp"}
      <4>1. disconnects \in 0 .. MaxDisconnects /\ backend \in Backends
        BY Parts DEF TypeOK
      <4> QED BY <4>1, ClientAssumption
    <3>3. CASE backend = "epoll"
      BY <1>2, <3>1, <3>3 DEF FailureTakesARace
    <3>4. CASE backend = "iocp"
      BY <1>2, <3>1, <3>2, <3>4 DEF FailureTakesARace
    <3> QED BY <3>2, <3>3, <3>4
  <2> QED BY <2>1, <2>2, <2>3, <2>4 DEF IInv
<1> QED BY <1>1, <1>2

LEMMA HandleResetKeeps ==
    ASSUME IInv, HandleReset
    PROVE  IInv'
<1> USE DEF HandleReset, Event, connectorVars, channelVars, connVars, userVars
<1>1. TypeOK'
  BY Parts DEF TypeOK, Failures
<1>2. Linked' /\ Alive' /\ Starts' /\ Turns'
  BY Parts DEF Linked, Alive, Starts, Turns
<1>3. FailureTakesARace'
  BY SecondEnd DEF FailureTakesARace
<1> QED BY <1>1, <1>2, <1>3 DEF IInv

LEMMA WriteFailsKeeps ==
    ASSUME IInv, WriteFails
    PROVE  IInv'
<1> USE DEF WriteFails, loopVars, connectorVars, channelVars, connVars, userVars
<1>1. backend = "epoll"
  BY Parts DEF Turns
<1>2. TypeOK'
  BY Parts DEF TypeOK, Failures
<1>3. Linked' /\ Alive' /\ Starts' /\ Turns'
  BY Parts DEF Linked, Alive, Starts, Turns
<1>4. FailureTakesARace'
  BY <1>1 DEF FailureTakesARace
<1> QED BY <1>2, <1>3, <1>4 DEF IInv

LEMMA EventWrittenKeeps ==
    ASSUME IInv, EventWritten
    PROVE  IInv'
<1> USE DEF EventWritten, connectorVars, channelVars, connVars, userVars
<1>1. TypeOK'
  BY Parts DEF TypeOK
<1>2. Linked' /\ Alive' /\ Starts' /\ Turns'
  BY Parts DEF Linked, Alive, Starts, Turns
<1>3. FailureTakesARace'
  BY Parts DEF FailureTakesARace
<1> QED BY <1>1, <1>2, <1>3 DEF IInv

LEMMA NoEventKeeps ==
    ASSUME IInv, NoEvent
    PROVE  IInv'
<1> USE DEF NoEvent, connectorVars, channelVars, connVars, userVars
<1>1. TypeOK'
  BY Parts DEF TypeOK
<1>2. Linked' /\ Alive' /\ Starts' /\ Turns'
  BY Parts DEF Linked, Alive, Starts, Turns
<1>3. FailureTakesARace'
  BY Parts DEF FailureTakesARace
<1> QED BY <1>1, <1>2, <1>3 DEF IInv

-----------------------------------------------------------------------------
(* The steps: the tasks.                                                   *)

LEMMA TimersDoneKeeps ==
    ASSUME IInv, TimersDone
    PROVE  IInv'
<1> USE DEF TimersDone, connectorVars, channelVars, connVars, userVars
<1>1. todo' \in Nat
  BY Parts DEF Queues
<1>2. TypeOK'
  BY <1>1, Parts DEF TypeOK
<1>3. Linked' /\ Alive' /\ Starts'
  BY Parts DEF Linked, Alive, Starts
<1>4. Turns'
  <2> SUFFICES ASSUME starts = 1, disconnects = 0, others = 0, failed = "no",
                      state = "Connected"
               PROVE  todo' = Len(inside)
    BY DEF Turns
  <2>1. \A t \in {"start", "close", "other"} : ~In(outside, t)
    BY Parts DEF Starts, Alive
  <2>2. outside = <<>>
    BY <2>1, Parts, NoTask DEF Queues
  <2>3. Len(outside) = 0
    BY <2>2
  <2> QED BY <2>3, Parts DEF Queues
<1>5. FailureTakesARace'
  BY Parts DEF FailureTakesARace
<1> QED BY <1>2, <1>3, <1>4, <1>5 DEF IInv

LEMMA RunOtherKeeps ==
    ASSUME IInv, RunOther
    PROVE  IInv'
<1> USE DEF RunOther, Cycle, TakeOutside, connectorVars, channelVars, connVars, userVars
<1>1. /\ outside' \in Seq({"start", "close", "other"})
      /\ \A u : In(outside, u) <=> In(outside', u) \/ u = "other"
      /\ \A u : Once(outside, u) => Once(outside', u)
  BY Parts, TailTask DEF Queues
<1>2. TypeOK'
  BY <1>1, Parts DEF TypeOK
<1>3. Linked' /\ Alive' /\ Starts'
  BY <1>1, Parts DEF Linked, Alive, Starts
<1>4. Turns'
  BY <1>1, Parts DEF Turns, Starts
<1>5. FailureTakesARace'
  BY Parts DEF FailureTakesARace
<1> QED BY <1>2, <1>3, <1>4, <1>5 DEF IInv

LEMMA RunDestroyedKeeps ==
    ASSUME IInv, RunDestroyed
    PROVE  IInv'
<1> USE DEF RunDestroyed, ConnectDestroyed, Cycle, TakeInside, connectorVars, userVars
<1>1. /\ inside' \in Seq({"close", "destroyed"}) /\ inside # <<>>
      /\ Len(inside') = Len(inside) - 1
      /\ \A u : In(inside, u) <=> In(inside', u) \/ u = "destroyed"
      /\ \A u : Once(inside, u) => Once(inside', u)
  BY Parts, TailTask DEF Queues
<1>2. tstate # "none" /\ ~connection
  BY <1>1, Parts DEF Alive
<1>3. TypeOK'
  <2>1. todo' \in Nat
    BY Parts DEF TypeOK
  <2> QED BY <1>1, <2>1, Parts DEF TypeOK
<1>4. Linked'
  BY <1>2, Parts DEF Linked
<1>5. Alive'
  BY <1>1, <1>2, Parts DEF Alive
<1>6. Starts'
  BY Parts DEF Starts
<1>7. Turns'
  BY <1>1, Parts DEF Turns, TypeOK, Queues
<1>8. FailureTakesARace'
  BY Parts DEF FailureTakesARace
<1> QED BY <1>3, <1>4, <1>5, <1>6, <1>7, <1>8 DEF IInv

\* A task of shutdown is taken from one of the two queues, and there is another only if
\* disconnect was called more than once.
LEMMA TakenClose ==
    ASSUME IInv, RunClose
    PROVE  \E q : /\ q \in Seq({"close", "destroyed"})
                  /\ outside' \in Seq({"start", "close", "other"})
                  /\ Close(q)
                  /\ \A u : In(q, u) => In(inside, u)
                  /\ \A u : In(outside', u) => In(outside, u)
                  /\ \A u : u # "close" /\ In(inside, u) => In(q, u)
                  /\ \A u : u # "close" /\ In(outside, u) => In(outside', u)
                  /\ \A u : Once(inside, u) => Once(q, u)
                  /\ \A u : Once(outside, u) => Once(outside', u)
                  /\ disconnects # 0 /\ tstate # "none"
                  /\ disconnects = 1 => ~In(q, "close") /\ ~In(outside', "close")
                  /\ disconnects = 1 => In(inside, "close") \/ In(outside, "close")
<1> USE DEF RunClose, Cycle
<1>1. CASE inside # <<>> /\ Head(inside) = "close" /\ Close(Tail(inside)) /\ UNCHANGED outside
  <2> DEFINE q == Tail(inside)
  <2>1. /\ q \in Seq({"close", "destroyed"})
        /\ \A u : In(inside, u) <=> In(q, u) \/ u = "close"
        /\ \A u : Once(inside, u) => Once(q, u)
        /\ Once(inside, "close") => ~In(q, "close")
    BY <1>1, Parts, TailTask DEF Queues
  <2>2. Close(q)
    BY <1>1
  <2> HIDE DEF q
  <2>3. disconnects # 0 /\ tstate # "none"
        /\ (disconnects = 1 => ~In(q, "close") /\ ~In(outside', "close"))
    BY <1>1, <2>1, Parts DEF Alive
  <2> QED BY <1>1, <2>1, <2>2, <2>3, Parts DEF Queues
<1>2. CASE outside # <<>> /\ Head(outside) = "close" /\ outside' = Tail(outside) /\ Close(inside)
  <2>1. /\ outside' \in Seq({"start", "close", "other"})
        /\ \A u : In(outside, u) <=> In(outside', u) \/ u = "close"
        /\ \A u : Once(outside, u) => Once(outside', u)
        /\ Once(outside, "close") => ~In(outside', "close")
    BY <1>2, Parts, TailTask DEF Queues
  <2>2. disconnects # 0 /\ tstate # "none"
        /\ (disconnects = 1 => ~In(inside, "close") /\ ~In(outside', "close"))
    BY <1>2, <2>1, Parts DEF Alive
  <2> QED BY <1>2, <2>1, <2>2, Parts DEF Queues
<1> QED BY <1>1, <1>2

LEMMA RunCloseKeeps ==
    ASSUME IInv, RunClose
    PROVE  IInv'
<1>1. PICK q :
        /\ q \in Seq({"close", "destroyed"})
        /\ outside' \in Seq({"start", "close", "other"})
        /\ Close(q)
        /\ \A u : In(q, u) => In(inside, u)
        /\ \A u : In(outside', u) => In(outside, u)
        /\ \A u : u # "close" /\ In(inside, u) => In(q, u)
        /\ \A u : u # "close" /\ In(outside, u) => In(outside', u)
        /\ \A u : Once(inside, u) => Once(q, u)
        /\ \A u : Once(outside, u) => Once(outside', u)
        /\ disconnects # 0 /\ tstate # "none"
        /\ disconnects = 1 => ~In(q, "close") /\ ~In(outside', "close")
        /\ disconnects = 1 => In(inside, "close") \/ In(outside, "close")
  BY TakenClose
<1>2. /\ failed = "no" /\ phase' = phase /\ phase = "cycle"
      /\ UNCHANGED <<backend, state, retryDelay, timers, attempts, channel, socket, polled,
                     starts, disconnects, others, tstate, tie>>
  BY <1>1 DEF RunClose, Cycle, Close, RemoveConnection, connectorVars, channelVars, userVars,
              connVars
<1>3. todo' \in Nat
  BY Parts DEF RunClose, Cycle, TypeOK
<1>4. disconnects \in Nat /\ starts \in Nat /\ others \in Nat /\ starts # 0
  BY <1>1, Parts DEF TypeOK, Starts, Linked
<1>5. \/ connection /\ connection' = FALSE /\ inside' = Append(q, "destroyed") /\ failed' = "no"
      \/ ~connection /\ connection' = FALSE /\ inside' = q /\ failed' \in {"dangling", "connection"}
  BY <1>1, <1>2, Parts DEF Close, RemoveConnection, Destructed, connVars, TypeOK
<1>6. CASE connection
  <2>1. /\ inside' \in Seq({"close", "destroyed"}) /\ inside' # <<>>
        /\ \A u : In(inside', u) <=> In(q, u) \/ u = "destroyed"
        /\ \A u : Once(q, u) /\ (u # "destroyed" \/ ~In(q, u)) => Once(inside', u)
    <3>1. inside' = Append(q, "destroyed") /\ q \in Seq({"close", "destroyed"})
      BY <1>1, <1>5, <1>6
    <3> QED BY <3>1, AppendTask
  <2>2. TypeOK'
    BY <1>1, <1>2, <1>3, <1>5, <1>6, <2>1, Parts DEF TypeOK
  <2>3. Linked'
    BY <1>2, Parts DEF Linked
  <2>4. Alive'
    BY <1>1, <1>2, <1>4, <1>5, <1>6, <2>1, Parts DEF Alive
  <2>5. Starts'
    BY <1>1, <1>2, <1>4, <1>5, Parts DEF Starts
  <2>6. Turns'
    BY <1>1, <1>2 DEF Turns
  <2>7. FailureTakesARace'
    BY <1>5, <1>6 DEF FailureTakesARace
  <2> QED BY <2>2, <2>3, <2>4, <2>5, <2>6, <2>7 DEF IInv
<1>7. CASE ~connection
  <2>1. TypeOK'
    <3>1. /\ connection' = FALSE /\ inside' \in Seq({"close", "destroyed"})
          /\ outside' \in Seq({"start", "close", "other"})
      BY <1>1, <1>5, <1>7
    <3>2. failed' \in Failures \cup {"no"}
      BY <1>5, <1>7 DEF Failures
    <3>3. TypeOK
      BY Parts
    <3>4. /\ backend' = backend /\ phase' = phase /\ state' = state /\ retryDelay' = retryDelay
          /\ timers' = timers /\ attempts' = attempts /\ channel' = channel /\ socket' = socket
          /\ polled' = polled /\ starts' = starts /\ disconnects' = disconnects
          /\ others' = others /\ tstate' = tstate /\ tie' = tie
      BY <1>2
    <3>5. /\ backend' \in Backends /\ phase' \in {"poll", "write", "timers", "cycle"}
          /\ state' \in {"Disconnected", "Connecting", "Connected"}
          /\ retryDelay' \in 1 .. MaxDelay /\ timers' \in Nat
          /\ channel' \in {"none", "connector", "connection"}
      BY ONLY <3>3, <3>4 DEF TypeOK
    <3>6. /\ socket' \in {"none", "connecting", "open", "eof", "ended", "reset", "refused",
                         "unreachable"}
          /\ polled' \in BOOLEAN /\ tstate' \in {"none", "kConnected", "kDisconnected"}
          /\ tie' \in BOOLEAN
      BY ONLY <3>3, <3>4 DEF TypeOK
    <3>7. /\ starts' \in 0 .. MaxStarts /\ disconnects' \in 0 .. MaxDisconnects
          /\ others' \in 0 .. MaxOthers /\ attempts' \in 0 .. MaxAttempts
      BY ONLY <3>3, <3>4 DEF TypeOK
    <3>8. connection' \in BOOLEAN
      BY ONLY <3>1
    <3> QED BY ONLY <3>1, <3>2, <3>5, <3>6, <3>7, <3>8, <1>3 DEF TypeOK
  <2>2. Linked'
    BY <1>2, Parts DEF Linked
  <2>3. disconnects > 1 \/ (disconnects = 1 /\ socket \in {"eof", "reset", "ended"})
    BY <1>1, <1>4, <1>7, Parts DEF Alive
  <2>4. Alive'
    BY <1>1, <1>2, <1>4, <1>5, <1>7, Parts DEF Alive
  <2>5. Starts'
    BY <1>1, <1>2, <1>4, <1>5, <1>7, Parts DEF Starts
  <2>6. Turns'
    BY <1>2, <1>5, <1>7 DEF Turns
  <2>7. FailureTakesARace'
    BY <1>2, <1>4, <1>5, <1>7, <2>3 DEF FailureTakesARace
  <2> QED BY <2>1, <2>2, <2>4, <2>5, <2>6, <2>7 DEF IInv
<1> QED BY <1>6, <1>7

LEMMA CycleDoneKeeps ==
    ASSUME IInv, CycleDone
    PROVE  IInv'
<1> USE DEF CycleDone, connectorVars, channelVars, connVars, userVars
<1>1. TypeOK'
  BY Parts DEF TypeOK
<1>2. Linked' /\ Alive' /\ Starts'
  BY Parts DEF Linked, Alive, Starts
<1>3. Turns'
  <2>1. Len(inside) = 0 => inside = <<>>
    BY Parts, EmptySeq DEF Queues
  <2> QED BY <2>1, Parts DEF Turns
<1>4. FailureTakesARace'
  BY Parts DEF FailureTakesARace
<1> QED BY <1>1, <1>2, <1>3, <1>4 DEF IInv

-----------------------------------------------------------------------------
(* The theorems.                                                           *)

LEMMA InitIInv == Init => IInv
<1> SUFFICES ASSUME Init PROVE IInv
  OBVIOUS
<1>1. TypeOK
  <2>1. /\ starts \in 0 .. MaxStarts /\ disconnects \in 0 .. MaxDisconnects
        /\ others \in 0 .. MaxOthers /\ attempts \in 0 .. MaxAttempts
        /\ retryDelay \in 1 .. MaxDelay
    BY ClientAssumption DEF Init, MaxDelay
  <2>2. outside \in Seq({"start", "close", "other"}) /\ inside \in Seq({"close", "destroyed"})
    BY DEF Init
  <2> QED BY <2>1, <2>2 DEF Init, TypeOK
<1>2. \A u : ~In(inside, u) /\ ~In(outside, u) /\ Once(inside, u) /\ Once(outside, u)
  BY DEF Init, In, Once
<1>3. Linked /\ Alive /\ Starts /\ Turns
  BY <1>2 DEF Init, Linked, Alive, Starts, Turns
<1>4. FailureTakesARace
  BY DEF Init, FailureTakesARace
<1> QED BY <1>1, <1>3, <1>4 DEF IInv

LEMMA NextIInv == IInv /\ [Next]_vars => IInv'
<1> SUFFICES ASSUME IInv, [Next]_vars PROVE IInv'
  OBVIOUS
<1>1. CASE LoopStep
  BY <1>1, ConnectedKeeps, ConnectRefusedKeeps, ConnectErrorKeeps, HandleMessageKeeps,
     HandleEofKeeps, HandleResetKeeps, WriteFailsKeeps, EventWrittenKeeps, NoEventKeeps,
     TimersDoneKeeps, RunStartKeeps, RunOtherKeeps, RunDestroyedKeeps, RunCloseKeeps, CycleDoneKeeps DEF LoopStep
<1>2. CASE UNCHANGED vars
  <2> USE <1>2 DEF vars, loopVars, connectorVars, channelVars, connVars, userVars
  <2>1. TypeOK'
    BY Parts DEF TypeOK
  <2>2. Linked' /\ Alive' /\ Starts' /\ Turns'
    BY Parts DEF Linked, Alive, Starts, Turns
  <2>3. FailureTakesARace'
    BY Parts DEF FailureTakesARace
  <2> QED BY <2>1, <2>2, <2>3 DEF IInv
<1> QED BY <1>1, <1>2, ConnectKeeps, DisconnectKeeps, PostOtherKeeps, SocketConnectsKeeps,
           PeerClosesKeeps, FireRetryKeeps DEF Next

\* The invariant holds of every client, in both builds, however often it is told to
\* connect and to disconnect and however many attempts it makes.
THEOREM Invariance == Spec => []IInv
<1> QED BY InitIInv, NextIInv, PTL DEF Spec

\* The channel in the poller is the Connector's while it attempts, and then that of a
\* connection that somebody holds: connectDestroyed cancels it before it clears the tie.
THEOREM PolledCorrect == Spec => []PolledAlive
<1>1. IInv => PolledAlive
  BY Parts DEF PolledAlive, TypeOK, Linked, Alive, Destructed
<1> QED BY <1>1, Invariance, PTL

\* A client that was told once to connect has one retry or one attempt, never both: each
\* way out of startInLoop uses up the task or the timer that led to it.
THEOREM OneAttemptCorrect == Spec => []OneAttempt
<1>1. IInv => OneAttempt
  BY Parts DEF OneAttempt, Starts, Linked
<1> QED BY <1>1, Invariance, PTL

\* The process ends in an assertion, an empty callback or with what was destroyed only
\* where FailureTakesARace says: with epoll one end of a connection is never seen twice
\* unless another thread has a task that delays connectDestroyed.
THEOREM FailureCorrect == Spec => []FailureTakesARace
<1>1. IInv => FailureTakesARace
  BY DEF IInv
<1> QED BY <1>1, Invariance, PTL
=============================================================================
