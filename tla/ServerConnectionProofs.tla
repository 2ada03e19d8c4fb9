------------------------ MODULE ServerConnectionProofs ------------------------
(***************************************************************************)
(* What TLAPS proves of ServerConnection, for any connections, any number  *)
(* of loops, any users and both kinds of build: no channel is polled that  *)
(* nobody holds, callbacks come in order, and a failure takes one of the   *)
(* races that FailureTakesARace lists.                                     *)
(*                                                                         *)
(* The argument follows the tasks of a connection along the queues: "add"  *)
(* goes before "established", both once, from the base loop; the others    *)
(* exist only when "established" has run.                                  *)
(***************************************************************************)
EXTENDS ServerConnection, SequenceTheorems, TLAPS

-----------------------------------------------------------------------------
(* The inductive invariant.                                                *)

In(s, t) == \E i \in DOMAIN s : s[i] = t
Once(s, t) == \A i, j \in DOMAIN s : s[i] = t /\ s[j] = t => i = j
Before(s, t, u) == \A j \in DOMAIN s : s[j] = u => \E i \in DOMAIN s : i < j /\ s[i] = t

Has(q, f, g, name, c) == In(q[f][g], Task(name, c))
Single(q, f, g, name, c) == Once(q[f][g], Task(name, c))
AddFirst(q, f, g, c) == Before(q[f][g], Task("add", c), Task("established", c))

Over == {"kConnected", "kDisconnected"}

TasksOf(c) ==
    /\ \A f, g \in Loops :
        /\ Has(queue, f, g, "add", c) =>
            /\ f = Base /\ g = loopOf[c] /\ g # Base
            /\ c \notin polled
            /\ state[c] = "kConnecting" \/ (state[c] = "none" /\ accepted = c)
        /\ Has(queue, f, g, "established", c) =>
            /\ f = Base /\ g = loopOf[c] /\ g # Base
            /\ state[c] = "kConnecting"
        /\ Has(queue, f, g, "remove", c) =>
            /\ f = loopOf[c] /\ g = Base /\ f # Base
            /\ state[c] \in Over
        /\ Has(queue, f, g, "destroyed", c) =>
            /\ f = Base /\ g = loopOf[c] /\ g # Base
            /\ c \notin map
            /\ state[c] \in Over
            /\ Asserts => state[c] = "kConnected"
        /\ Has(queue, f, g, "close", c) =>
            /\ f = g /\ g = loopOf[c]
            /\ c \in asked
            /\ state[c] \in Over
        /\ Has(queue, f, g, "send", c) =>
            /\ g = loopOf[c]
            /\ c \in sent
            /\ state[c] \in Over
    /\ Single(queue, Base, loopOf[c], "add", c)
    /\ Single(queue, Base, loopOf[c], "established", c)
    /\ Asserts => Single(queue, Base, loopOf[c], "destroyed", c)
    /\ c \notin polled => AddFirst(queue, Base, loopOf[c], c)

StateOf(c) ==
    /\ peer[c] = "none" => state[c] = "none" /\ accepted # c
    /\ accepted = c => state[c] = "none"
    /\ c \in writing => c \in Senders
    /\ state[c] = "none" =>
        /\ c \notin map /\ c \notin tie /\ c \notin reading
        /\ calls[c] = <<>>
        /\ accepted = c => c \in polled \/ Has(queue, Base, loopOf[c], "add", c)
        /\ c \in polled => accepted = c
    /\ state[c] = "kConnecting" =>
        /\ Has(queue, Base, loopOf[c], "established", c)
        /\ loopOf[c] # Base
        /\ c \in map /\ c \notin tie /\ c \notin reading
        /\ calls[c] = <<>>
    /\ state[c] = "kConnected" =>
        /\ c \in tie /\ c \in polled /\ c \in reading
        /\ loopOf[c] = Base => c \in map
        /\ calls[c] = <<"kConnected">>
    /\ state[c] = "kDisconnected" =>
        /\ c \notin map /\ c \notin tie /\ c \notin polled /\ c \notin reading
        /\ destroys[c] > 0
        /\ calls[c] = <<"kConnected", "kDisconnected">>

HandlingOf(l) ==
    LET c == handling[l].conn IN
    handling[l] # Idle =>
        /\ loopOf[c] = l
        /\ state[c] = IF l = Base THEN "kDisconnected" ELSE "kConnected"
        /\ handling[l].then \in {"readv", "retrieve"} => peer[c] \in {"reset", "dead"}
        /\ handling[l].then = "write" => c \in Senders

IInv ==
    /\ TypeOK
    /\ \A c \in Conns : TasksOf(c) /\ StateOf(c)
    /\ \A l \in Loops : HandlingOf(l)
    /\ FailureTakesARace

-----------------------------------------------------------------------------
(* Tasks in sequences.                                                     *)

\* What is in a sequence to which t was appended, how often, and behind what.
LEMMA AppendTask ==
    ASSUME NEW S, NEW s \in Seq(S), NEW t \in S
    PROVE  /\ \A u : In(Append(s, t), u) <=> In(s, u) \/ t = u
           /\ \A u : Once(s, u) /\ (t # u \/ ~In(s, u)) => Once(Append(s, t), u)
           /\ \A u, v : Before(s, u, v) /\ (t # v \/ In(s, u)) => Before(Append(s, t), u, v)
<1> USE DEF In, Once, Before
<1> DEFINE a == Append(s, t)
<1>1. /\ Len(s) \in Nat /\ DOMAIN s = 1 .. Len(s) /\ DOMAIN a = 1 .. Len(s) + 1
      /\ \A i \in 1 .. Len(s) : a[i] = s[i]
      /\ a[Len(s) + 1] = t
  OBVIOUS
<1> HIDE DEF a
<1>2. \A u : In(a, u) <=> In(s, u) \/ t = u
  BY <1>1
<1>3. ASSUME NEW u, Once(s, u), t # u \/ ~In(s, u)
      PROVE  Once(a, u)
  BY <1>1, <1>3
<1>4. ASSUME NEW u, NEW v, Before(s, u, v), t # v \/ In(s, u)
      PROVE  Before(a, u, v)
  <2>1. ASSUME NEW j \in DOMAIN a, a[j] = v
        PROVE  \E i \in DOMAIN a : i < j /\ a[i] = u
    BY <1>1, <1>4, <2>1
  <2> QED BY <2>1
<1> QED BY <1>2, <1>3, <1>4 DEF a

\* What is left when the first was taken.
LEMMA TailTask ==
    ASSUME NEW S, NEW s \in Seq(S), s # <<>>
    PROVE  /\ \A u : In(s, u) <=> In(Tail(s), u) \/ Head(s) = u
           /\ \A u : Once(s, u) => Once(Tail(s), u) /\ (Head(s) = u => ~In(Tail(s), u))
           /\ \A u, v : Before(s, u, v) /\ Head(s) # u => Before(Tail(s), u, v)
           /\ \A u, v : Before(s, u, v) => Head(s) # v
<1> USE DEF In, Once, Before
<1> DEFINE r == Tail(s)
<1>1. /\ Len(s) \in Nat \ {0} /\ DOMAIN s = 1 .. Len(s) /\ DOMAIN r = 1 .. Len(s) - 1
      /\ \A i \in 1 .. Len(s) - 1 : r[i] = s[i + 1]
      /\ Head(s) = s[1]
  BY HeadTailProperties, EmptySeq
<1> HIDE DEF r
<1>2. ASSUME NEW i \in DOMAIN s, i # 1
      PROVE  i - 1 \in DOMAIN r /\ r[i - 1] = s[i]
  BY <1>1, <1>2
<1>3. ASSUME NEW i \in DOMAIN r
      PROVE  i + 1 \in DOMAIN s /\ i + 1 # 1 /\ r[i] = s[i + 1]
  BY <1>1
<1>4. 1 \in DOMAIN s
  BY <1>1
<1>5. \A u : In(s, u) <=> In(r, u) \/ s[1] = u
  BY <1>2, <1>3, <1>4
<1>6. ASSUME NEW u, Once(s, u)
      PROVE  Once(r, u) /\ (s[1] = u => ~In(r, u))
  <2>1. ASSUME NEW i \in DOMAIN r, NEW j \in DOMAIN r, r[i] = u, r[j] = u PROVE i = j
    BY <1>1, <1>3, <1>6, <2>1
  <2>2. ASSUME s[1] = u, NEW i \in DOMAIN r, r[i] = u PROVE FALSE
    BY <1>3, <1>4, <1>6, <2>2
  <2> QED BY <2>1, <2>2
<1>7. ASSUME NEW u, NEW v, Before(s, u, v), s[1] # u
      PROVE  Before(r, u, v)
  <2>1. ASSUME NEW j \in DOMAIN r, r[j] = v
        PROVE  \E i \in DOMAIN r : i < j /\ r[i] = u
    <3>1. PICK i \in DOMAIN s : i < j + 1 /\ s[i] = u
      BY <1>3, <1>7, <2>1
    <3>2. i # 1
      BY <1>7, <3>1
    <3> QED BY <1>1, <1>2, <3>1, <3>2
  <2> QED BY <2>1
<1>8. \A u, v : Before(s, u, v) => s[1] # v
  BY <1>1
<1> QED BY <1>1, <1>5, <1>6, <1>7, <1>8 DEF r

LEMMA AppendSecond ==
    ASSUME NEW x, NEW y
    PROVE  Append(<<x>>, y) = <<x, y>>
<1> DEFINE S == {x, y}
           a == Append(<<x>>, y)
           b == <<x, y>>
<1>1. <<x>> \in Seq(S) /\ y \in S /\ b \in Seq(S)
  OBVIOUS
<1>2. a \in Seq(S) /\ Len(a) = 2 /\ a[1] = x /\ a[2] = y
  BY <1>1, AppendProperties
<1>3. Len(b) = 2 /\ b[1] = x /\ b[2] = y
  OBVIOUS
<1> HIDE DEF S, a, b
<1>4. \A i \in 1 .. 2 : a[i] = b[i]
  BY <1>2, <1>3
<1>5. a = b
  BY <1>1, <1>2, <1>3, <1>4, SeqEqual
<1> QED BY <1>5 DEF a, b

-----------------------------------------------------------------------------
(* Tasks in the queues.                                                    *)

Tasks == [name : TaskNames, conn : Conns]
Queues == [Loops -> [Loops -> Seq(Tasks)]]

LEMMA TasksDiffer ==
    \A m, n, c, d : Task(m, c) = Task(n, d) <=> m = n /\ c = d
  BY DEF Task

LEMMA PostTask ==
    ASSUME NEW q \in Queues, NEW from \in Loops, NEW to \in Loops,
           NEW name \in TaskNames, NEW c \in Conns, NEW p, p = Post(q, from, to, name, c)
    PROVE  /\ p \in Queues
           /\ \A f, g \in Loops : \A m, d :
               Has(p, f, g, m, d) <=>
                   Has(q, f, g, m, d) \/ (f = from /\ g = to /\ m = name /\ d = c)
           /\ \A f, g \in Loops : \A m, d :
               Single(q, f, g, m, d) /\ (m = name /\ d = c => ~Has(q, f, g, m, d))
                   => Single(p, f, g, m, d)
           /\ \A f, g \in Loops : \A d :
               AddFirst(q, f, g, d) /\ (name = "established" /\ d = c => Has(q, f, g, "add", d))
                   => AddFirst(p, f, g, d)
<1> DEFINE t == Task(name, c)
<1>1. t \in Tasks
  BY DEF Task, Tasks
<1>2. /\ p = [f \in Loops |-> [g \in Loops |->
                IF f = from /\ g = to THEN Append(q[f][g], t) ELSE q[f][g]]]
      /\ \A f, g \in Loops : q[f][g] \in Seq(Tasks)
  BY DEF Post, Queues
<1>3. \A s \in Seq(Tasks) :
        /\ \A u : In(Append(s, t), u) <=> In(s, u) \/ t = u
        /\ \A u : Once(s, u) /\ (t # u \/ ~In(s, u)) => Once(Append(s, t), u)
        /\ \A u, v : Before(s, u, v) /\ (t # v \/ In(s, u)) => Before(Append(s, t), u, v)
  BY <1>1, AppendTask
<1>4. \A s \in Seq(Tasks) : Append(s, t) \in Seq(Tasks)
  BY <1>1
<1>5. p \in Queues
  BY <1>2, <1>4 DEF Queues
<1>6. \A m, d : Task(m, d) = t <=> m = name /\ d = c
  BY TasksDiffer
<1> HIDE DEF t
<1>7. ASSUME NEW f \in Loops, NEW g \in Loops
      PROVE  p[f][g] = IF f = from /\ g = to THEN Append(q[f][g], t) ELSE q[f][g]
  BY <1>2
<1>8. ASSUME NEW f \in Loops, NEW g \in Loops
      PROVE  q[f][g] \in Seq(Tasks)
  BY DEF Queues
<1>9. \A f, g \in Loops : \A m, d :
        Has(p, f, g, m, d) <=> Has(q, f, g, m, d) \/ (f = from /\ g = to /\ m = name /\ d = c)
  BY <1>3, <1>6, <1>7, <1>8 DEF Has
<1>10. \A f, g \in Loops : \A m, d :
        Single(q, f, g, m, d) /\ (m = name /\ d = c => ~Has(q, f, g, m, d)) => Single(p, f, g, m, d)
  BY <1>3, <1>6, <1>7, <1>8 DEF Has, Single
<1>11. \A f, g \in Loops : \A d :
        AddFirst(q, f, g, d) /\ (name = "established" /\ d = c => Has(q, f, g, "add", d))
            => AddFirst(p, f, g, d)
  BY <1>3, <1>6, <1>7, <1>8 DEF Has, AddFirst
<1> QED BY <1>5, <1>9, <1>10, <1>11

\* The head of a queue is taken.
LEMMA DequeueTask ==
    ASSUME queue \in Queues, NEW from \in Loops, NEW l \in Loops, queue[from][l] # <<>>,
           NEW h, h = TaskOf(from, l), NEW p, p = Dequeued(from, l)
    PROVE  /\ h \in Tasks /\ p \in Queues
           /\ \A f, g \in Loops : \A m, d :
               Has(queue, f, g, m, d) <=>
                   Has(p, f, g, m, d) \/ (f = from /\ g = l /\ m = h.name /\ d = h.conn)
           /\ \A f, g \in Loops : \A m, d :
               Single(queue, f, g, m, d) =>
                   /\ Single(p, f, g, m, d)
                   /\ f = from /\ g = l /\ m = h.name /\ d = h.conn => ~Has(p, f, g, m, d)
           /\ \A f, g \in Loops : \A d :
               AddFirst(queue, f, g, d) /\ ~(f = from /\ g = l /\ h.name = "add" /\ d = h.conn)
                   => AddFirst(p, f, g, d)
           /\ \A d : AddFirst(queue, from, l, d) => ~(h.name = "established" /\ d = h.conn)
<1> DEFINE s == queue[from][l]
<1>1. s \in Seq(Tasks) /\ s # <<>> /\ h = Head(s)
  BY DEF Queues, TaskOf
<1>2. /\ p = [f \in Loops |-> [g \in Loops |->
                IF f = from /\ g = l THEN Tail(s) ELSE queue[f][g]]]
      /\ \A f, g \in Loops : queue[f][g] \in Seq(Tasks)
  BY DEF Dequeued, Queues
<1>3. /\ \A u : In(s, u) <=> In(Tail(s), u) \/ h = u
      /\ \A u : Once(s, u) => Once(Tail(s), u) /\ (h = u => ~In(Tail(s), u))
      /\ \A u, v : Before(s, u, v) /\ h # u => Before(Tail(s), u, v)
      /\ \A u, v : Before(s, u, v) => h # v
  BY <1>1, TailTask
<1>4. Tail(s) \in Seq(Tasks) /\ h \in Tasks
  BY <1>1, HeadTailProperties
<1>5. p \in Queues
  BY <1>2, <1>4 DEF Queues
<1>6. \A m, d : Task(m, d) = h <=> m = h.name /\ d = h.conn
  BY <1>4 DEF Tasks, Task
<1>7. ASSUME NEW f \in Loops, NEW g \in Loops
      PROVE  p[f][g] = IF f = from /\ g = l THEN Tail(s) ELSE queue[f][g]
  BY <1>2
<1>8. queue[from][l] = s
  OBVIOUS
<1> HIDE DEF s
<1> QED BY <1>3, <1>4, <1>5, <1>6, <1>7, <1>8 DEF Has, Single, AddFirst

-----------------------------------------------------------------------------
(* A step, as one connection sees it.                                      *)

ConnInv(c) == TasksOf(c) /\ StateOf(c)

\* The tasks of c stay as they are, or a step leaves alone all that ConnInv(c) reads.
SameTasks(c) ==
    \A f, g \in Loops :
        /\ \A m : Has(queue', f, g, m, c) <=> Has(queue, f, g, m, c)
        /\ \A m : Single(queue, f, g, m, c) => Single(queue', f, g, m, c)
        /\ AddFirst(queue, f, g, c) => AddFirst(queue', f, g, c)

SameConn(c) ==
    /\ loopOf'[c] = loopOf[c] /\ state'[c] = state[c]
    /\ calls'[c] = calls[c] /\ destroys'[c] = destroys[c]
    /\ accepted' = c <=> accepted = c
    /\ c \in map' <=> c \in map
    /\ c \in polled' <=> c \in polled
    /\ c \in tie' <=> c \in tie
    /\ c \in reading' <=> c \in reading
    /\ c \in writing' => c \in writing \cup Senders
    /\ c \in asked => c \in asked'
    /\ c \in sent => c \in sent'
    /\ peer'[c] = "none" => peer[c] = "none"

LEMMA OtherConn ==
    ASSUME TypeOK, NEW c \in Conns, ConnInv(c), SameTasks(c), SameConn(c)
    PROVE  ConnInv(c)'
<1>1. loopOf[c] \in Loops /\ Base \in Loops
  BY ServerAssumption DEF TypeOK, Loops, Base
<1>2. TasksOf(c)'
  BY <1>1 DEF ConnInv, TasksOf, SameTasks, SameConn
<1>3. StateOf(c)'
  BY <1>1 DEF ConnInv, StateOf, SameTasks, SameConn
<1> QED BY <1>2, <1>3 DEF ConnInv

\* What handling holds of a connection and its state stays true.
LEMMA OtherHandling ==
    ASSUME NEW l \in Loops, HandlingOf(l), handling'[l] = handling[l],
           handling[l] # Idle =>
               LET c == handling[l].conn IN
               /\ loopOf'[c] = loopOf[c] /\ state'[c] = state[c]
               /\ peer[c] \in {"reset", "dead"} => peer'[c] \in {"reset", "dead"}
    PROVE  HandlingOf(l)'
  BY DEF HandlingOf, Idle, Doing

LEMMA BaseLoop == Base \in Loops
  BY ServerAssumption DEF Loops, Base

LEMMA StillRunning ==
    failed' = Running => FailureTakesARace'
  BY DEF FailureTakesARace, Running, Failure

-----------------------------------------------------------------------------
(* removeConnection, whoever calls it.                                     *)

\* q has the tasks of the queues but for one of c that was taken, which is not among
\* those that establish it.
Shrunk(q, c) ==
    /\ q \in Queues
    /\ \A f, g \in Loops :
        /\ \A m, d : Has(q, f, g, m, d) => Has(queue, f, g, m, d)
        /\ \A m, d : Has(queue, f, g, m, d) /\ (d # c \/ m \in {"add", "established"})
                        => Has(q, f, g, m, d)
        /\ \A m, d : Single(queue, f, g, m, d) => Single(q, f, g, m, d)
        /\ \A d : AddFirst(queue, f, g, d) => AddFirst(q, f, g, d)

LEMMA Removal ==
    ASSUME IInv, failed = Running,
           NEW l \in Loops, NEW c \in Conns, NEW q, Shrunk(q, c),
           state[c] \in Over,
           \/ l = loopOf[c] /\ (l = Base => state[c] = "kConnected")
           \/ l = Base /\ loopOf[c] # Base,
           RemoveConnection(q, l, c),
           UNCHANGED <<next, accepted, users>>,
           handling' \in [Loops -> [conn : Conns, then : {"returns", "write", "readv", "retrieve"}]
                                   \cup {Idle}],
           peer' \in [Conns -> {"none", "open", "eof", "reset", "dead"}],
           \A d \in Conns : peer'[d] = "none" => peer[d] = "none"
    PROVE  /\ TypeOK'
           /\ \A d \in Conns : ConnInv(d)'
           /\ FailureTakesARace'
           /\ loopOf' = loopOf
           /\ \A d \in Conns : state'[d] # state[d] => d = c /\ loopOf[c] = Base /\ l = Base
           /\ l = Base /\ loopOf[c] = Base => state'[c] = "kDisconnected"
<1> USE DEF users, connVars
<1>1. /\ TypeOK /\ ConnInv(c) /\ \A d \in Conns : ConnInv(d)
      /\ Base \in Loops /\ loopOf[c] \in Loops
      /\ q \in Queues
  <2>1. TypeOK /\ \A d \in Conns : ConnInv(d)
    BY DEF IInv, ConnInv
  <2>2. loopOf[c] \in Loops
    BY <2>1 DEF TypeOK
  <2> QED BY <2>1, <2>2, BaseLoop DEF Shrunk
<1>2. ASSUME NEW d \in Conns, d # c, SameTasks(d), SameConn(d)
      PROVE  ConnInv(d)'
  BY <1>1, <1>2, OtherConn
<1>3. CASE l # Base
  <2>1. /\ queue' = Post(q, l, Base, "remove", c) /\ l = loopOf[c]
        /\ UNCHANGED <<connVars, failed>>
    BY <1>3 DEF RemoveConnection
  <2> DEFINE p == queue'
  <2>2. /\ p \in Queues
        /\ \A f, g \in Loops : \A m, d :
            Has(p, f, g, m, d) <=>
                Has(q, f, g, m, d) \/ (f = l /\ g = Base /\ m = "remove" /\ d = c)
        /\ \A f, g \in Loops : \A m, d :
            Single(q, f, g, m, d) /\ (m = "remove" /\ d = c => ~Has(q, f, g, m, d))
                => Single(p, f, g, m, d)
        /\ \A f, g \in Loops : \A d : AddFirst(q, f, g, d) => AddFirst(p, f, g, d)
    <3>1. "remove" \in TaskNames
      BY DEF TaskNames
    <3> QED BY <1>1, <2>1, <3>1, PostTask
  <2> HIDE DEF p
  <2>3. \A f, g \in Loops : \A m, d : d # c =>
            /\ Has(p, f, g, m, d) <=> Has(queue, f, g, m, d)
            /\ Single(queue, f, g, m, d) => Single(p, f, g, m, d)
            /\ AddFirst(queue, f, g, d) => AddFirst(p, f, g, d)
    BY <2>2 DEF Shrunk
  <2>4. TypeOK'
    BY <1>1, <2>1, <2>2 DEF TypeOK, Queues, Tasks, p
  <2>5. ASSUME NEW d \in Conns, d # c PROVE ConnInv(d)'
    BY <1>2, <2>1, <2>3, <2>5 DEF SameTasks, SameConn, p
  <2>6. SameConn(c)
    BY <2>1 DEF SameConn
  <2>7. /\ \A f, g \in Loops : \A m :
            /\ Has(p, f, g, m, c) => Has(queue, f, g, m, c) \/ (f = l /\ g = Base /\ m = "remove")
            /\ m \in {"add", "established"} /\ Has(queue, f, g, m, c) => Has(p, f, g, m, c)
            /\ m # "remove" /\ Single(queue, f, g, m, c) => Single(p, f, g, m, c)
        /\ \A f, g \in Loops : AddFirst(queue, f, g, c) => AddFirst(p, f, g, c)
    BY <2>2 DEF Shrunk
  <2>8. TasksOf(c)'
    BY <1>1, <1>3, <2>1, <2>6, <2>7 DEF ConnInv, TasksOf, SameConn, p
  <2>9. StateOf(c)'
    BY <1>1, <1>3, <2>1, <2>6, <2>7 DEF ConnInv, StateOf, SameConn, p
  <2> QED BY <1>3, <2>1, <2>4, <2>5, <2>8, <2>9, StillRunning DEF ConnInv
<1>4. CASE l = Base /\ c \notin map /\ Asserts
  <2>1. /\ queue' = q /\ map' = map \ {c} /\ failed' = Failure("removed", c)
        /\ UNCHANGED <<loopOf, state, polled, reading, writing, tie, calls, destroys>>
    BY <1>4 DEF RemoveConnection
  <2>2. loopOf[c] # Base
    BY <1>1, <1>4 DEF ConnInv, StateOf
  <2>3. TypeOK'
    BY <1>1, <2>1 DEF TypeOK, Queues, Tasks, Failure, Failures
  <2>4. ASSUME NEW d \in Conns, d # c PROVE ConnInv(d)'
    BY <1>2, <2>1, <2>4 DEF SameTasks, SameConn, Shrunk
  <2>5. SameConn(c)
    BY <2>1, <1>4 DEF SameConn
  <2>6. TasksOf(c)'
    BY <1>1, <1>4, <2>1, <2>5 DEF ConnInv, TasksOf, SameConn, Shrunk
  <2>7. StateOf(c)'
    BY <1>1, <1>4, <2>1, <2>5 DEF ConnInv, StateOf, SameConn, Shrunk
  <2>8. FailureTakesARace'
    BY <2>1, <2>2 DEF FailureTakesARace, Failure
  <2> QED BY <2>1, <2>2, <2>3, <2>4, <2>6, <2>7, <2>8 DEF ConnInv
<1>5. CASE l = Base /\ ~(c \notin map /\ Asserts) /\ loopOf[c] = Base
  <2>1. state[c] = "kConnected"
    BY <1>5
  <2>2. c \in polled /\ c \in tie /\ calls[c] = <<"kConnected">>
    BY <1>1, <2>1 DEF ConnInv, StateOf
  <2>3. /\ queue' = q /\ map' = map \ {c}
        /\ destroys' = [destroys EXCEPT ![c] = @ + 1]
        /\ state' = [state EXCEPT ![c] = "kDisconnected"]
        /\ reading' = reading \ {c} /\ writing' = writing \ {c}
        /\ calls' = [calls EXCEPT ![c] = Append(@, "kDisconnected")]
        /\ polled' = polled \ {c} /\ tie' = tie \ {c}
        /\ UNCHANGED <<failed, loopOf>>
    BY <1>5, <2>1, <2>2 DEF RemoveConnection, ConnectDestroyed
  <2>4. TypeOK'
    <3>1. /\ calls \in [Conns -> Seq({"kConnecting", "kConnected", "kDisconnected"})]
          /\ destroys \in [Conns -> Nat]
      BY <1>1 DEF TypeOK
    <3>2. destroys' \in [Conns -> Nat]
      BY <2>3, <3>1
    <3>3. calls' \in [Conns -> Seq({"kConnecting", "kConnected", "kDisconnected"})]
      BY <2>3, <3>1
    <3> QED BY <1>1, <2>3, <3>2, <3>3 DEF TypeOK, Queues, Tasks
  <2>5. ASSUME NEW d \in Conns, d # c PROVE ConnInv(d)'
    BY <1>1, <1>2, <2>3, <2>5 DEF SameTasks, SameConn, Shrunk, TypeOK
  <2>6. /\ state'[c] = "kDisconnected" /\ destroys'[c] > 0
        /\ calls'[c] = <<"kConnected", "kDisconnected">>
    <3>1. destroys[c] \in Nat /\ destroys'[c] = destroys[c] + 1 /\ state'[c] = "kDisconnected"
      BY <1>1, <2>3 DEF TypeOK
    <3>2. calls'[c] = Append(<<"kConnected">>, "kDisconnected")
      BY <1>1, <2>2, <2>3 DEF TypeOK
    <3> QED BY <3>1, <3>2, AppendSecond
  <2>7. \A f, g \in Loops : \A m : Has(q, f, g, m, c) => m \in {"close", "send"} \/ m \notin TaskNames
    BY <1>1, <1>5, <2>1 DEF Shrunk, ConnInv, TasksOf, TaskNames, Over
  <2>8. TasksOf(c)'
    <3>1. AddFirst(q, Base, Base, c)
      BY <1>1, <2>7 DEF AddFirst, Before, Has, In, TaskNames
    <3>2. \A m : Single(queue, Base, Base, m, c) => Single(q, Base, Base, m, c)
      BY <1>1 DEF Shrunk
    <3>3. TasksOf(c)
      BY <1>1 DEF ConnInv
    <3>4. \A f, g \in Loops : \A m : Has(q, f, g, m, c) => Has(queue, f, g, m, c)
      BY DEF Shrunk
    <3>5. loopOf'[c] = Base /\ queue' = q /\ asked' = asked /\ sent' = sent /\ state'[c] \in Over
      BY <1>5, <2>3, <2>6 DEF Over
    <3> QED BY <1>5, <2>7, <3>1, <3>2, <3>3, <3>4, <3>5 DEF TasksOf, TaskNames
  <2>9. StateOf(c)'
    BY <1>1, <1>5, <2>1, <2>3, <2>6 DEF ConnInv, StateOf
  <2> QED BY <1>1, <1>5, <2>3, <2>4, <2>5, <2>6, <2>8, <2>9, StillRunning DEF ConnInv, TypeOK
<1>6. CASE l = Base /\ ~(c \notin map /\ Asserts) /\ loopOf[c] # Base
  <2>1. /\ queue' = Post(q, Base, loopOf[c], "destroyed", c) /\ map' = map \ {c}
        /\ UNCHANGED <<loopOf, state, polled, reading, writing, tie, calls, destroys, failed>>
    BY <1>6 DEF RemoveConnection
  <2> DEFINE p == queue'
  <2>2. /\ p \in Queues
        /\ \A f, g \in Loops : \A m, d :
            Has(p, f, g, m, d) <=>
                Has(q, f, g, m, d) \/ (f = Base /\ g = loopOf[c] /\ m = "destroyed" /\ d = c)
        /\ \A f, g \in Loops : \A m, d :
            Single(q, f, g, m, d) /\ (m = "destroyed" /\ d = c => ~Has(q, f, g, m, d))
                => Single(p, f, g, m, d)
        /\ \A f, g \in Loops : \A d : AddFirst(q, f, g, d) => AddFirst(p, f, g, d)
    <3>1. "destroyed" \in TaskNames
      BY DEF TaskNames
    <3> QED BY <1>1, <2>1, <3>1, PostTask
  <2> HIDE DEF p
  <2>3. \A f, g \in Loops : \A m, d : d # c =>
            /\ Has(p, f, g, m, d) <=> Has(queue, f, g, m, d)
            /\ Single(queue, f, g, m, d) => Single(p, f, g, m, d)
            /\ AddFirst(queue, f, g, d) => AddFirst(p, f, g, d)
    BY <2>2 DEF Shrunk
  <2>4. TypeOK'
    BY <1>1, <2>1, <2>2 DEF TypeOK, Queues, Tasks, p
  <2>5. ASSUME NEW d \in Conns, d # c PROVE ConnInv(d)'
    BY <1>2, <2>1, <2>3, <2>5 DEF SameTasks, SameConn, p
  <2>6. Asserts => c \in map /\ state[c] = "kConnected"
    BY <1>1, <1>6 DEF ConnInv, StateOf, Over
  <2>7. /\ \A f, g \in Loops : \A m :
            /\ Has(p, f, g, m, c) => Has(queue, f, g, m, c)
                                     \/ (f = Base /\ g = loopOf[c] /\ m = "destroyed")
            /\ m \in {"add", "established"} /\ Has(queue, f, g, m, c) => Has(p, f, g, m, c)
            /\ (m # "destroyed" \/ Asserts) /\ Single(queue, f, g, m, c) => Single(p, f, g, m, c)
        /\ \A f, g \in Loops : AddFirst(queue, f, g, c) => AddFirst(p, f, g, c)
    BY <1>1, <2>2, <2>6 DEF Shrunk, ConnInv, TasksOf
  <2>8. TasksOf(c)'
    BY <1>1, <1>6, <2>1, <2>6, <2>7 DEF ConnInv, TasksOf, p
  <2>9. StateOf(c)'
    BY <1>1, <1>6, <2>1, <2>7 DEF ConnInv, StateOf, Over, p
  <2> QED BY <1>6, <2>1, <2>4, <2>5, <2>8, <2>9, StillRunning DEF ConnInv
<1> QED BY <1>3, <1>4, <1>5, <1>6

-----------------------------------------------------------------------------
(* The steps: the handlers of events.                                      *)

LEMMA Parts ==
    ASSUME IInv
    PROVE  /\ TypeOK /\ queue \in Queues
           /\ \A c \in Conns : ConnInv(c) /\ TasksOf(c) /\ StateOf(c)
           /\ \A l \in Loops : HandlingOf(l)
           /\ \A c \in Conns : loopOf[c] \in Loops
           /\ Base \in Loops /\ None \notin Conns
<1>1. TypeOK
  BY DEF IInv
<1>2. queue \in Queues /\ \A c \in Conns : loopOf[c] \in Loops
  BY <1>1 DEF TypeOK, Queues, Tasks
<1> QED BY <1>1, <1>2, BaseLoop, ServerAssumption DEF IInv, ConnInv

LEMMA Whole ==
    ASSUME TypeOK', \A c \in Conns : ConnInv(c)', \A l \in Loops : HandlingOf(l)',
           FailureTakesARace'
    PROVE  IInv'
  BY DEF IInv, ConnInv

\* What a loop is handling is one of its connections.
LEMMA HandledConn ==
    ASSUME IInv, NEW l \in Loops, handling[l] # Idle
    PROVE  handling[l].conn \in Conns /\ loopOf[handling[l].conn] = l
<1>1. handling[l] \in [conn : Conns, then : {"returns", "write", "readv", "retrieve"}]
  BY Parts DEF TypeOK
<1> QED BY <1>1, Parts DEF HandlingOf

\* The tasks that hold a connection.
LEMMA QueuedHas ==
    ASSUME IInv, NEW c \in Conns, NEW names, Queued(c, names)
    PROVE  \E f, g \in Loops : \E m \in names : Has(queue, f, g, m, c)
<1>0. PICK f, g \in Loops :
        \E i \in DOMAIN queue[f][g] : queue[f][g][i].conn = c /\ queue[f][g][i].name \in names
  BY DEF Queued
<1>1. PICK i \in DOMAIN queue[f][g] : queue[f][g][i].conn = c /\ queue[f][g][i].name \in names
  BY <1>0
<1>2. queue[f][g][i] \in Tasks
  <2>1. queue[f][g] \in Seq(Tasks)
    BY Parts DEF Queues
  <2> QED BY <1>1, <2>1
<1>3. queue[f][g][i] = Task(queue[f][g][i].name, c)
  BY <1>1, <1>2 DEF Tasks, Task
<1> QED BY <1>1, <1>3 DEF Has, In

\* Of a connection on the base loop nothing is left when it is over.
LEMMA OverOnBase ==
    ASSUME IInv, NEW c \in Conns, loopOf[c] = Base, state[c] = "kDisconnected"
    PROVE  ~Held(c)
<1>1. c # accepted /\ c \notin map /\ c \notin tie
  BY Parts DEF StateOf
<1>2. ~Queued(c, {"established", "remove", "destroyed"})
  <2>1. \A f, g \in Loops : \A m \in {"established", "remove", "destroyed"} :
            ~Has(queue, f, g, m, c)
    BY Parts DEF TasksOf
  <2> QED BY <2>1, QueuedHas
<1> QED BY <1>1, <1>2 DEF Held

\* A connection that is read is established.
LEMMA ReadIsConnected ==
    ASSUME IInv, NEW c \in Conns, c \in reading
    PROVE  state[c] = "kConnected"
<1>1. state[c] \in {"none", "kConnecting", "kConnected", "kDisconnected"} /\ StateOf(c)
  BY Parts DEF TypeOK
<1> QED BY <1>1 DEF StateOf

LEMMA HandleCloseKeeps ==
    ASSUME IInv, failed = Running, NEW l \in Loops, NEW c \in Conns,
           NEW then \in {"returns", "write", "readv", "retrieve"},
           HandleClose(l, c, then), loopOf[c] = l, state[c] = "kConnected",
           peer' \in [Conns -> {"none", "open", "eof", "reset", "dead"}],
           \A d \in Conns :
               /\ peer'[d] = "none" => peer[d] = "none"
               /\ peer[d] \in {"reset", "dead"} => peer'[d] \in {"reset", "dead"},
           then \in {"readv", "retrieve"} => peer'[c] \in {"reset", "dead"},
           then = "write" => c \in Senders
    PROVE  IInv'
<1>1. /\ handling' = [handling EXCEPT ![l] = Doing(c, then)]
      /\ RemoveConnection(queue, l, c)
      /\ UNCHANGED <<next, accepted, users>>
  BY DEF HandleClose
<1>2. Shrunk(queue, c) /\ state[c] \in Over
  BY Parts DEF Shrunk, Over
<1>3. handling' \in [Loops -> [conn : Conns, then : {"returns", "write", "readv", "retrieve"}]
                              \cup {Idle}]
  BY <1>1, Parts DEF TypeOK, Doing
<1>4. /\ TypeOK' /\ FailureTakesARace'
      /\ \A d \in Conns : ConnInv(d)'
      /\ loopOf' = loopOf
      /\ \A d \in Conns : state'[d] # state[d] => d = c /\ loopOf[c] = Base /\ l = Base
      /\ l = Base /\ loopOf[c] = Base => state'[c] = "kDisconnected"
  BY <1>1, <1>2, <1>3, Removal
<1>5. ASSUME NEW k \in Loops, k # l PROVE HandlingOf(k)'
  <2>1. handling'[k] = handling[k]
    BY <1>1, <1>5, Parts DEF TypeOK
  <2> QED BY <1>4, <1>5, <2>1, HandledConn, OtherHandling, Parts
<1>6. HandlingOf(l)'
  <2>1. handling'[l] = Doing(c, then)
    BY <1>1, Parts DEF TypeOK
  <2>2. state'[c] = IF l = Base THEN "kDisconnected" ELSE "kConnected"
    BY <1>4
  <2> QED BY <1>4, <2>1, <2>2 DEF HandlingOf, Doing
<1> QED BY <1>4, <1>5, <1>6, Whole

LEMMA FailureTyped ==
    \A c \in Conns : \A how \in Failures : Failure(how, c) \in [how : Failures, conn : Conns]
  BY DEF Failure

\* A step that neither moves a task nor changes a connection, but for who writes, what
\* the sockets have to tell, what is handled and how the process ends.
LEMMA QuietKeeps ==
    ASSUME IInv, TypeOK', FailureTakesARace',
           UNCHANGED <<queue, accepted, loopOf, state, map, polled, reading, tie, calls,
                       destroys, users>>,
           \A c \in Conns :
               /\ c \in writing' => c \in writing \cup Senders
               /\ peer'[c] = "none" => peer[c] = "none"
               /\ peer[c] \in {"reset", "dead"} => peer'[c] \in {"reset", "dead"},
           \A l \in Loops : handling'[l] \in {handling[l], Idle}
    PROVE  IInv'
<1>1. ASSUME NEW c \in Conns PROVE ConnInv(c)'
  BY Parts, OtherConn DEF SameTasks, SameConn, users
<1>2. ASSUME NEW l \in Loops PROVE HandlingOf(l)'
  <2>1. CASE handling'[l] = Idle
    BY <2>1 DEF HandlingOf, Idle, Doing
  <2>2. CASE handling'[l] = handling[l]
    BY <2>2, Parts, HandledConn, OtherHandling
  <2> QED BY <2>1, <2>2
<1> QED BY <1>1, <1>2, Whole

LEMMA EventUnhandledKeeps ==
    ASSUME IInv, NEW l \in Loops, NEW c \in Conns, EventUnhandled(l, c)
    PROVE  IInv'
<1> USE DEF EventUnhandled, Reports, Free
<1>1. failed' = Failure("unhandled", c)
  OBVIOUS
<1>2. loopOf[c] # Base
  BY Parts DEF ConnInv, StateOf, TypeOK
<1>3. FailureTakesARace'
  BY <1>1, <1>2 DEF FailureTakesARace, Failure, connVars
<1>4. TypeOK'
  BY <1>1, FailureTyped, Parts DEF Failures, TypeOK, connVars, users
<1> QED BY <1>3, <1>4, QuietKeeps DEF connVars

LEMMA ReplyKeeps ==
    ASSUME IInv, NEW l \in Loops, NEW c \in Conns, Reply(l, c)
    PROVE  IInv'
<1> USE DEF Reply, Reports, Free, EnableWriting
<1>1. TypeOK'
  BY Parts DEF TypeOK, users
<1> QED BY <1>1, StillRunning, QuietKeeps

LEMMA HandleErrorKeeps ==
    ASSUME IInv, NEW l \in Loops, NEW c \in Conns, HandleError(l, c)
    PROVE  IInv'
<1> USE DEF HandleError, Reports, Free
<1>1. /\ peer' = [peer EXCEPT ![c] = "dead"]
      /\ peer' \in [Conns -> {"none", "open", "eof", "reset", "dead"}]
      /\ peer'[c] = "dead"
      /\ \A d \in Conns :
            /\ peer'[d] = "none" => peer[d] = "none"
            /\ peer[d] \in {"reset", "dead"} => peer'[d] \in {"reset", "dead"}
  BY Parts DEF TypeOK
<1>2. CASE c \in writing
  BY <1>1, <1>2, HandleCloseKeeps, ReadIsConnected
<1>3. CASE c \notin writing
  <2>1. TypeOK'
    BY <1>1, <1>3, Parts DEF TypeOK, connVars, users
  <2> QED BY <1>1, <1>3, <2>1, StillRunning, QuietKeeps DEF connVars
<1> QED BY <1>2, <1>3

LEMMA HandleEofKeeps ==
    ASSUME IInv, NEW l \in Loops, NEW c \in Conns, HandleEof(l, c)
    PROVE  IInv'
<1> USE DEF HandleEof, Reports, Free
<1>1. peer' = peer /\ peer' \in [Conns -> {"none", "open", "eof", "reset", "dead"}]
  BY Parts DEF TypeOK
<1>2. c \in writing => c \in Senders
  BY Parts DEF StateOf
<1> QED BY <1>1, <1>2, HandleCloseKeeps, ReadIsConnected

LEMMA HandleReadFailsKeeps ==
    ASSUME IInv, NEW l \in Loops, NEW c \in Conns, HandleReadFails(l, c)
    PROVE  IInv'
<1> USE DEF HandleReadFails, Reports, Free
<1>1. peer' = peer /\ peer' \in [Conns -> {"none", "open", "eof", "reset", "dead"}]
  BY Parts DEF TypeOK
<1> QED BY <1>1, HandleCloseKeeps, ReadIsConnected

LEMMA HandleEventReturnsKeeps ==
    ASSUME IInv, NEW l \in Loops, HandleEventReturns(l)
    PROVE  IInv'
<1> USE DEF HandleEventReturns
<1>1. TypeOK' /\ \A k \in Loops : handling'[k] \in {handling[k], Idle}
  BY Parts DEF TypeOK, connVars, users
<1> QED BY <1>1, StillRunning, QuietKeeps DEF connVars

LEMMA HandleWriteFailsKeeps ==
    ASSUME IInv, NEW l \in Loops, HandleWriteFails(l)
    PROVE  IInv'
<1> DEFINE c == handling[l].conn
<1> USE DEF HandleWriteFails
<1>1. handling[l] # Idle /\ c \in Conns /\ loopOf[c] = l
  BY HandledConn DEF Idle, Doing
<1>2. peer' = [peer EXCEPT ![c] = "dead"] /\ Held(c) /\ HandleClose(l, c, "retrieve")
  OBVIOUS
<1>3. state[c] = "kConnected"
  BY <1>1, <1>2, Parts, OverOnBase DEF HandlingOf
<1> HIDE DEF c
<1>4. /\ peer' \in [Conns -> {"none", "open", "eof", "reset", "dead"}]
      /\ peer'[c] = "dead"
      /\ \A d \in Conns :
            /\ peer'[d] = "none" => peer[d] = "none"
            /\ peer[d] \in {"reset", "dead"} => peer'[d] \in {"reset", "dead"}
  BY <1>1, <1>2, Parts DEF TypeOK
<1> QED BY <1>1, <1>2, <1>3, <1>4, HandleCloseKeeps

LEMMA HandlerFailsKeeps ==
    ASSUME IInv, NEW l \in Loops, HandlerFails(l)
    PROVE  IInv'
<1> DEFINE c == handling[l].conn
<1> USE DEF HandlerFails
<1>1. handling[l] # Idle /\ c \in Conns /\ loopOf[c] = l
  BY HandledConn DEF Idle, Doing
<1>2. failed' = Failure("handler", c)
  OBVIOUS
<1>3. peer[c] \in {"reset", "dead"} \/ (l = Base /\ c \in Senders)
  <2>1. CASE handling[l].then = "write" /\ ~Held(c)
    <3>1. c \in Senders /\ state[c] = IF l = Base THEN "kDisconnected" ELSE "kConnected"
      BY <1>1, <2>1, Parts DEF HandlingOf
    <3>2. state[c] # "kConnected"
      BY <1>1, <2>1, Parts DEF StateOf, Held
    <3> QED BY <3>1, <3>2
  <2>2. CASE handling[l].then \in {"readv", "retrieve"}
    BY <1>1, <2>2, Parts DEF HandlingOf
  <2> QED BY <2>1, <2>2
<1>4. FailureTakesARace'
  BY <1>1, <1>2, <1>3 DEF FailureTakesARace, Failure, connVars
<1> HIDE DEF c
<1>5. TypeOK'
  BY <1>1, <1>2, FailureTyped, Parts DEF Failures, TypeOK, connVars, users
<1> QED BY <1>4, <1>5, QuietKeeps DEF connVars

-----------------------------------------------------------------------------
(* The steps: the tasks.                                                   *)

\* What is left of the tasks when l takes the one that is due.
LEMMA Taken ==
    ASSUME IInv, NEW from \in Loops, NEW l \in Loops, NEW name, Runs(from, l, name),
           NEW c, c = TaskOf(from, l).conn, NEW p, p = Dequeued(from, l)
    PROVE  /\ c \in Conns /\ p \in Queues
           /\ Has(queue, from, l, name, c)
           /\ \A f, g \in Loops : \A m, d : d # c =>
               /\ Has(p, f, g, m, d) <=> Has(queue, f, g, m, d)
               /\ Single(queue, f, g, m, d) => Single(p, f, g, m, d)
               /\ AddFirst(queue, f, g, d) => AddFirst(p, f, g, d)
           /\ \A f, g \in Loops : \A m :
               /\ Has(p, f, g, m, c) => Has(queue, f, g, m, c)
               /\ Has(queue, f, g, m, c) /\ m # name => Has(p, f, g, m, c)
               /\ Single(queue, f, g, m, c) => Single(p, f, g, m, c)
           /\ Single(queue, from, l, name, c) => ~Has(p, from, l, name, c)
           /\ name # "add" => \A f, g \in Loops : AddFirst(queue, f, g, c) => AddFirst(p, f, g, c)
           /\ AddFirst(queue, from, l, c) => name # "established"
<1> DEFINE h == TaskOf(from, l)
<1>1. queue[from][l] # <<>> /\ h.name = name /\ h.conn = c /\ queue \in Queues
  BY Parts DEF Runs
<1>2. h \in Tasks /\ p \in Queues
  BY <1>1, DequeueTask
<1>3. /\ \A f, g \in Loops : \A m, d :
            Has(queue, f, g, m, d) <=>
                Has(p, f, g, m, d) \/ (f = from /\ g = l /\ m = h.name /\ d = h.conn)
      /\ \A f, g \in Loops : \A m, d :
            Single(queue, f, g, m, d) =>
                /\ Single(p, f, g, m, d)
                /\ f = from /\ g = l /\ m = h.name /\ d = h.conn => ~Has(p, f, g, m, d)
      /\ \A f, g \in Loops : \A d :
            AddFirst(queue, f, g, d) /\ ~(f = from /\ g = l /\ h.name = "add" /\ d = h.conn)
                => AddFirst(p, f, g, d)
      /\ \A d : AddFirst(queue, from, l, d) => ~(h.name = "established" /\ d = h.conn)
  BY <1>1, DequeueTask
<1>4. c \in Conns
  BY <1>1, <1>2 DEF Tasks
<1> HIDE DEF h
<1> QED BY <1>1, <1>2, <1>3, <1>4

LEMMA TakenConn ==
    ASSUME IInv, NEW from \in Loops, NEW l \in Loops, NEW name, Runs(from, l, name)
    PROVE  \E c \in Conns : c = TaskOf(from, l).conn
<1>1. queue[from][l] # <<>> /\ queue[from][l] \in Seq(Tasks)
  BY Parts DEF Runs, Queues
<1>2. Head(queue[from][l]) \in Tasks
  BY <1>1
<1> QED BY <1>2 DEF Tasks, TaskOf

\* Where the handlers are the same, and a connection changes its state only on a loop
\* that handles nothing.
LEMMA SameHandling ==
    ASSUME IInv, UNCHANGED <<handling, loopOf, peer>>,
           \A c \in Conns : state'[c] # state[c] => handling[loopOf[c]] = Idle
    PROVE  \A l \in Loops : HandlingOf(l)'
<1> SUFFICES ASSUME NEW l \in Loops PROVE HandlingOf(l)'
  OBVIOUS
<1>1. handling[l] # Idle =>
        state'[handling[l].conn] = state[handling[l].conn] /\ loopOf[handling[l].conn] = l
  BY HandledConn
<1> QED BY <1>1, OtherHandling, Parts

LEMMA RunAddKeeps ==
    ASSUME IInv, NEW from \in Loops, NEW l \in Loops, RunAdd(from, l)
    PROVE  IInv'
<1> USE DEF RunAdd
<1>0. PICK c \in Conns : c = TaskOf(from, l).conn
  BY TakenConn
<1> DEFINE p == queue'
<1>1. /\ failed = Running /\ p = Dequeued(from, l) /\ polled' = polled \cup {c}
      /\ UNCHANGED <<next, accepted, peer, handling, users>>
      /\ UNCHANGED <<loopOf, state, map, reading, writing, tie, calls, destroys, failed>>
  BY <1>0 DEF Runs, Free
<1>2. /\ c \in Conns /\ p \in Queues
      /\ Has(queue, from, l, "add", c)
      /\ \A f, g \in Loops : \A m, d : d # c =>
          /\ Has(p, f, g, m, d) <=> Has(queue, f, g, m, d)
          /\ Single(queue, f, g, m, d) => Single(p, f, g, m, d)
          /\ AddFirst(queue, f, g, d) => AddFirst(p, f, g, d)
      /\ \A f, g \in Loops : \A m :
          /\ Has(p, f, g, m, c) => Has(queue, f, g, m, c)
          /\ Has(queue, f, g, m, c) /\ m # "add" => Has(p, f, g, m, c)
          /\ Single(queue, f, g, m, c) => Single(p, f, g, m, c)
      /\ Single(queue, from, l, "add", c) => ~Has(p, from, l, "add", c)
  BY <1>0, <1>1, Taken
<1> HIDE DEF p
<1>3. TypeOK'
  BY <1>1, <1>2, Parts DEF TypeOK, Queues, Tasks, users, p
<1>4. ASSUME NEW d \in Conns, d # c PROVE ConnInv(d)'
  BY <1>1, <1>2, <1>4, Parts, OtherConn DEF SameTasks, SameConn, users, p
<1>5. TasksOf(c) /\ StateOf(c)
  BY <1>2, Parts
<1>6. /\ from = Base /\ l = loopOf[c] /\ l # Base
      /\ c \notin polled
      /\ state[c] = "kConnecting" \/ (state[c] = "none" /\ accepted = c)
  BY <1>2, <1>5 DEF TasksOf
<1>7. \A f, g \in Loops : ~Has(p, f, g, "add", c)
  BY <1>2, <1>5, <1>6 DEF TasksOf
<1>8. TasksOf(c)'
  <2>1. Single(p, Base, loopOf[c], "add", c) /\ Single(p, Base, loopOf[c], "established", c)
    BY <1>2, <1>5, <1>6 DEF TasksOf
  <2>2. Asserts => Single(p, Base, loopOf[c], "destroyed", c)
    BY <1>2, <1>5, <1>6 DEF TasksOf
  <2>3. \A f, g \in Loops : \A m : Has(p, f, g, m, c) => Has(queue, f, g, m, c)
    BY <1>2
  <2>4. c \in polled' /\ queue' = p
    BY <1>1 DEF p
  <2> QED BY <1>1, <1>5, <1>7, <2>1, <2>2, <2>3, <2>4 DEF TasksOf, users
<1>9. StateOf(c)'
  <2>1. Has(queue, Base, loopOf[c], "established", c) => Has(p, Base, loopOf[c], "established", c)
    BY <1>2, <1>6
  <2>2. c \in polled' /\ queue' = p
    BY <1>1 DEF p
  <2> QED BY <1>1, <1>5, <1>6, <2>1, <2>2 DEF StateOf, users
<1>10. \A d \in Conns : ConnInv(d)'
  BY <1>4, <1>8, <1>9 DEF ConnInv
<1>11. \A k \in Loops : HandlingOf(k)'
  BY <1>1, SameHandling
<1>12. FailureTakesARace'
  BY <1>1, StillRunning
<1> QED BY <1>3, <1>10, <1>11, <1>12, Whole

LEMMA RunEstablishedKeeps ==
    ASSUME IInv, NEW from \in Loops, NEW l \in Loops, RunEstablished(from, l)
    PROVE  IInv'
<1> USE DEF RunEstablished
<1>0. PICK c \in Conns : c = TaskOf(from, l).conn
  BY TakenConn
<1> DEFINE p == queue'
<1>1. /\ failed = Running /\ handling[l] = Idle
      /\ p = Dequeued(from, l) /\ ConnectEstablished(c)
      /\ UNCHANGED <<next, accepted, peer, handling, users>>
      /\ UNCHANGED <<loopOf, map, polled, writing, destroys>>
  BY <1>0 DEF Runs, Free
<1>2. /\ c \in Conns /\ p \in Queues
      /\ Has(queue, from, l, "established", c)
      /\ \A f, g \in Loops : \A m, d : d # c =>
          /\ Has(p, f, g, m, d) <=> Has(queue, f, g, m, d)
          /\ Single(queue, f, g, m, d) => Single(p, f, g, m, d)
          /\ AddFirst(queue, f, g, d) => AddFirst(p, f, g, d)
      /\ \A f, g \in Loops : \A m :
          /\ Has(p, f, g, m, c) => Has(queue, f, g, m, c)
          /\ Single(queue, f, g, m, c) => Single(p, f, g, m, c)
      /\ Single(queue, from, l, "established", c) => ~Has(p, from, l, "established", c)
      /\ ~AddFirst(queue, from, l, c)
  BY <1>0, <1>1, Taken
<1> HIDE DEF p
<1>3. TasksOf(c) /\ StateOf(c)
  BY <1>2, Parts
<1>4. /\ from = Base /\ l = loopOf[c] /\ l # Base
      /\ state[c] = "kConnecting" /\ calls[c] = <<>>
  BY <1>2, <1>3 DEF TasksOf, StateOf
<1>5. c \in polled
  BY <1>2, <1>3, <1>4 DEF TasksOf
<1>6. /\ state' = [state EXCEPT ![c] = "kConnected"]
      /\ tie' = tie \cup {c} /\ reading' = reading \cup {c}
      /\ calls' = [calls EXCEPT ![c] = Append(@, "kConnected")] /\ UNCHANGED failed
  BY <1>1, <1>5 DEF ConnectEstablished
<1>7. TypeOK'
  <2>1. calls' \in [Conns -> Seq({"kConnecting", "kConnected", "kDisconnected"})]
    BY <1>2, <1>6, Parts DEF TypeOK
  <2> QED BY <1>1, <1>2, <1>6, <2>1, Parts DEF TypeOK, Queues, Tasks, users, p
<1>8. ASSUME NEW d \in Conns, d # c PROVE ConnInv(d)'
  <2>1. state'[d] = state[d] /\ calls'[d] = calls[d]
    BY <1>2, <1>6, <1>8, Parts DEF TypeOK
  <2> QED BY <1>1, <1>2, <1>6, <1>8, <2>1, Parts, OtherConn DEF SameTasks, SameConn, users, p
<1>9. state'[c] = "kConnected" /\ calls'[c] = <<"kConnected">>
  BY <1>2, <1>4, <1>6, Parts DEF TypeOK
<1>10. \A f, g \in Loops : \A m \in TaskNames : ~Has(p, f, g, m, c)
  <2>1. \A f, g \in Loops : ~Has(queue, f, g, "add", c)
    BY <1>3, <1>5 DEF TasksOf
  <2>2. \A f, g \in Loops : \A m \in {"remove", "destroyed", "close", "send"} : ~Has(queue, f, g, m, c)
    BY <1>3, <1>4 DEF TasksOf, Over
  <2>3. \A f, g \in Loops : ~Has(p, f, g, "established", c)
    BY <1>2, <1>3, <1>4 DEF TasksOf
  <2> QED BY <1>2, <2>1, <2>2, <2>3 DEF TaskNames
<1>11. TasksOf(c)'
  <2>1. \A f, g \in Loops : AddFirst(p, f, g, c) /\ \A m \in TaskNames : Single(p, f, g, m, c)
    BY <1>10 DEF AddFirst, Single, Has, Before, Once, In, TaskNames
  <2>2. queue' = p /\ loopOf'[c] \in Loops /\ Base \in Loops
    BY <1>1, <1>2, Parts DEF p
  <2> QED BY <1>10, <2>1, <2>2 DEF TasksOf, TaskNames
<1>12. StateOf(c)'
  <2>1. peer'[c] = peer[c] /\ accepted' = accepted /\ writing' = writing /\ polled' = polled
    BY <1>1
  <2>2. c \in tie' /\ c \in reading' /\ loopOf'[c] # Base
    BY <1>1, <1>4, <1>6
  <2>3. peer[c] # "none" /\ accepted # c
    BY <1>3, <1>4 DEF StateOf
  <2> QED BY <1>3, <1>5, <1>9, <2>1, <2>2, <2>3 DEF StateOf
<1>13. \A d \in Conns : ConnInv(d)'
  BY <1>8, <1>11, <1>12 DEF ConnInv
<1>14. \A k \in Loops : HandlingOf(k)'
  BY <1>1, <1>2, <1>4, <1>6, SameHandling, Parts DEF TypeOK
<1>15. FailureTakesARace'
  BY <1>1, <1>6, StillRunning
<1> QED BY <1>7, <1>13, <1>14, <1>15, Whole

LEMMA TakenShrinks ==
    ASSUME IInv, NEW from \in Loops, NEW l \in Loops, NEW name \in {"remove", "close"},
           Runs(from, l, name)
    PROVE  Shrunk(Dequeued(from, l), TaskOf(from, l).conn)
<1>1. PICK c \in Conns : c = TaskOf(from, l).conn
  BY TakenConn
<1>2. PICK q : q = Dequeued(from, l)
  OBVIOUS
<1>3. /\ q \in Queues
      /\ \A f, g \in Loops : \A m, d : d # c =>
          /\ Has(q, f, g, m, d) <=> Has(queue, f, g, m, d)
          /\ Single(queue, f, g, m, d) => Single(q, f, g, m, d)
          /\ AddFirst(queue, f, g, d) => AddFirst(q, f, g, d)
      /\ \A f, g \in Loops : \A m :
          /\ Has(q, f, g, m, c) => Has(queue, f, g, m, c)
          /\ Has(queue, f, g, m, c) /\ m # name => Has(q, f, g, m, c)
          /\ Single(queue, f, g, m, c) => Single(q, f, g, m, c)
      /\ \A f, g \in Loops : AddFirst(queue, f, g, c) => AddFirst(q, f, g, c)
  BY <1>1, <1>2, Taken
<1> QED BY <1>1, <1>2, <1>3 DEF Shrunk

LEMMA RunRemoveKeeps ==
    ASSUME IInv, NEW from \in Loops, NEW l \in Loops, RunRemove(from, l)
    PROVE  IInv'
<1> USE DEF RunRemove
<1>1. PICK c \in Conns : c = TaskOf(from, l).conn
  BY TakenConn
<1> DEFINE q == Dequeued(from, l)
<1>2. /\ failed = Running /\ handling[l] = Idle
      /\ RemoveConnection(q, l, c)
      /\ UNCHANGED <<next, accepted, peer, handling, users>>
  BY <1>1 DEF Runs, Free
<1>3. Has(queue, from, l, "remove", c) /\ Shrunk(q, c)
  BY <1>1, Taken, TakenShrinks
<1> HIDE DEF q
<1>4. state[c] \in Over /\ l = Base /\ loopOf[c] # Base
  BY <1>3, Parts DEF TasksOf
<1>5. /\ handling' \in [Loops -> [conn : Conns, then : {"returns", "write", "readv", "retrieve"}]
                              \cup {Idle}]
      /\ peer' \in [Conns -> {"none", "open", "eof", "reset", "dead"}]
  BY <1>2, Parts DEF TypeOK
<1>6. /\ TypeOK' /\ FailureTakesARace'
      /\ \A d \in Conns : ConnInv(d)'
      /\ loopOf' = loopOf
      /\ \A d \in Conns : state'[d] = state[d]
  BY <1>2, <1>3, <1>4, <1>5, Removal
<1>7. \A k \in Loops : HandlingOf(k)'
  BY <1>2, <1>6, SameHandling
<1> QED BY <1>6, <1>7, Whole

LEMMA RunCloseKeeps ==
    ASSUME IInv, NEW from \in Loops, NEW l \in Loops, RunClose(from, l)
    PROVE  IInv'
<1> USE DEF RunClose
<1>1. PICK c \in Conns : c = TaskOf(from, l).conn
  BY TakenConn
<1> DEFINE q == Dequeued(from, l)
<1>2. /\ failed = Running /\ handling[l] = Idle
      /\ UNCHANGED <<next, accepted, peer, handling, users>>
  BY DEF Runs, Free
<1>3. Has(queue, from, l, "close", c) /\ Shrunk(q, c)
  BY <1>1, Taken, TakenShrinks
<1>4. state[c] \in Over /\ l = loopOf[c] /\ c \in asked
  BY <1>3, Parts DEF TasksOf
<1>5. CASE Destructed(c)
  <2>1. failed' = Failure("dangling", c) /\ queue' = q /\ UNCHANGED connVars
    BY <1>1, <1>5
  <2>2. \A d \in Conns : SameConn(d)
    BY <1>2, <2>1 DEF SameConn, connVars, users
  <2>3. ASSUME NEW d \in Conns, d # c PROVE ConnInv(d)'
    BY <1>1, <2>1, <2>2, <2>3, Taken, OtherConn, Parts DEF SameTasks
  <2>4. /\ \A f, g \in Loops : \A m :
            /\ Has(q, f, g, m, c) => Has(queue, f, g, m, c)
            /\ Has(queue, f, g, m, c) /\ m # "close" => Has(q, f, g, m, c)
            /\ Single(queue, f, g, m, c) => Single(q, f, g, m, c)
        /\ \A f, g \in Loops : AddFirst(queue, f, g, c) => AddFirst(q, f, g, c)
    BY <1>1, Taken
  <2> HIDE DEF q
  <2>5. TasksOf(c)'
    BY <1>2, <2>1, <2>4, Parts DEF TasksOf, connVars, users
  <2>6. StateOf(c)'
    BY <1>2, <2>1, <2>4, Parts DEF StateOf, connVars
  <2>7. TypeOK'
    BY <1>2, <1>3, <2>1, Parts, FailureTyped
       DEF TypeOK, Shrunk, Queues, Tasks, connVars, users, Failures
  <2>8. FailureTakesARace'
    BY <1>2, <1>4, <2>1 DEF FailureTakesARace, Failure, users
  <2>9. \A k \in Loops : HandlingOf(k)'
    BY <1>2, <2>1, SameHandling DEF connVars
  <2> QED BY <2>3, <2>5, <2>6, <2>7, <2>8, <2>9, Whole DEF ConnInv
<1>6. CASE ~Destructed(c)
  <2>1. RemoveConnection(q, l, c)
    BY <1>1, <1>6
  <2>2. l = Base => state[c] = "kConnected"
    BY <1>4, <1>6, OverOnBase DEF Destructed, Over
  <2> HIDE DEF q
  <2>3. /\ handling' \in [Loops -> [conn : Conns, then : {"returns", "write", "readv", "retrieve"}]
                                \cup {Idle}]
        /\ peer' \in [Conns -> {"none", "open", "eof", "reset", "dead"}]
    BY <1>2, Parts DEF TypeOK
  <2>4. /\ TypeOK' /\ FailureTakesARace'
        /\ \A d \in Conns : ConnInv(d)'
        /\ loopOf' = loopOf
        /\ \A d \in Conns : state'[d] # state[d] => d = c
    BY <1>2, <1>3, <1>4, <2>1, <2>2, <2>3, Removal
  <2>5. \A k \in Loops : HandlingOf(k)'
    BY <1>2, <1>4, <2>4, SameHandling
  <2> QED BY <2>4, <2>5, Whole
<1> QED BY <1>5, <1>6

LEMMA RunDestroyedKeeps ==
    ASSUME IInv, NEW from \in Loops, NEW l \in Loops, RunDestroyed(from, l)
    PROVE  IInv'
<1> USE DEF RunDestroyed
<1>1. PICK c \in Conns : c = TaskOf(from, l).conn
  BY TakenConn
<1> DEFINE p == queue'
<1>2. /\ failed = Running /\ handling[l] = Idle
      /\ p = Dequeued(from, l) /\ ConnectDestroyed(c)
      /\ UNCHANGED <<next, accepted, peer, handling, users>>
      /\ UNCHANGED <<loopOf, map>>
  BY <1>1 DEF Runs, Free
<1>3. /\ p \in Queues
      /\ Has(queue, from, l, "destroyed", c)
      /\ \A f, g \in Loops : \A m, d : d # c =>
          /\ Has(p, f, g, m, d) <=> Has(queue, f, g, m, d)
          /\ Single(queue, f, g, m, d) => Single(p, f, g, m, d)
          /\ AddFirst(queue, f, g, d) => AddFirst(p, f, g, d)
      /\ \A f, g \in Loops : \A m :
          /\ Has(p, f, g, m, c) => Has(queue, f, g, m, c)
          /\ Single(queue, f, g, m, c) => Single(p, f, g, m, c)
      /\ Single(queue, from, l, "destroyed", c) => ~Has(p, from, l, "destroyed", c)
      /\ \A f, g \in Loops : AddFirst(queue, f, g, c) => AddFirst(p, f, g, c)
  BY <1>1, <1>2, Taken
<1> HIDE DEF p
<1>4. TasksOf(c) /\ StateOf(c)
  BY Parts
<1>5. /\ from = Base /\ l = loopOf[c] /\ l # Base
      /\ c \notin map /\ state[c] \in Over
      /\ Asserts => state[c] = "kConnected"
  BY <1>3, <1>4 DEF TasksOf
<1>6. destroys[c] \in Nat /\ destroys'[c] = destroys[c] + 1
      /\ destroys' \in [Conns -> Nat]
      /\ \A d \in Conns : d # c => destroys'[d] = destroys[d]
  <2>1. destroys' = [destroys EXCEPT ![c] = @ + 1] /\ destroys \in [Conns -> Nat]
    BY <1>2, Parts DEF ConnectDestroyed, TypeOK
  <2> QED BY <2>1
<1>7. Asserts => \A f, g \in Loops : ~Has(p, f, g, "destroyed", c)
  BY <1>3, <1>4, <1>5 DEF TasksOf
<1>8. \A f, g \in Loops : ~Has(p, f, g, "add", c) /\ ~Has(p, f, g, "established", c)
  BY <1>3, <1>4, <1>5 DEF TasksOf, Over
<1>9. \A f, g \in Loops : AddFirst(p, f, g, c)
  BY <1>8 DEF AddFirst, Has, Before, In
<1>10. CASE c \in polled
  <2>1. state[c] = "kConnected" /\ calls[c] = <<"kConnected">>
    BY <1>4, <1>5, <1>10 DEF StateOf, Over
  <2>2. /\ state' = [state EXCEPT ![c] = "kDisconnected"]
        /\ reading' = reading \ {c} /\ writing' = writing \ {c}
        /\ calls' = [calls EXCEPT ![c] = Append(@, "kDisconnected")]
        /\ polled' = polled \ {c} /\ tie' = tie \ {c} /\ UNCHANGED failed
    BY <1>2, <1>10, <2>1 DEF ConnectDestroyed
  <2>3. calls' \in [Conns -> Seq({"kConnecting", "kConnected", "kDisconnected"})]
    BY <2>2, Parts DEF TypeOK
  <2>4. TypeOK'
    BY <1>2, <1>3, <1>6, <2>2, <2>3, Parts DEF TypeOK, Queues, Tasks, users, p
  <2>5. state'[c] = "kDisconnected" /\ calls'[c] = <<"kConnected", "kDisconnected">>
    <3>1. state'[c] = "kDisconnected" /\ calls'[c] = Append(<<"kConnected">>, "kDisconnected")
      BY <2>1, <2>2, Parts DEF TypeOK
    <3> QED BY <3>1, AppendSecond
  <2>6. ASSUME NEW d \in Conns, d # c PROVE ConnInv(d)'
    <3>1. state'[d] = state[d] /\ calls'[d] = calls[d]
      BY <2>2, <2>6, Parts DEF TypeOK
    <3> QED BY <1>2, <1>3, <1>6, <2>2, <2>6, <3>1, Parts, OtherConn
            DEF SameTasks, SameConn, users, p
  <2>7. TasksOf(c)'
    <3>1. /\ queue' = p /\ loopOf'[c] = loopOf[c] /\ state'[c] \in Over /\ c \notin map'
          /\ asked' = asked /\ sent' = sent
      BY <1>2, <1>5, <2>5 DEF Over, users, p
    <3>2. \A f, g \in Loops :
              /\ \A m : Has(p, f, g, m, c) => Has(queue, f, g, m, c)
              /\ \A m : Single(queue, f, g, m, c) => Single(p, f, g, m, c)
      BY <1>3
    <3>3. loopOf[c] \in Loops /\ Base \in Loops
      BY Parts
    <3> QED BY <1>4, <1>7, <1>8, <1>9, <3>1, <3>2, <3>3 DEF TasksOf
  <2>8. StateOf(c)'
    BY <1>2, <1>4, <1>5, <1>6, <2>1, <2>2, <2>5 DEF StateOf
  <2>9. \A k \in Loops : HandlingOf(k)'
    BY <1>2, <1>5, <2>2, SameHandling, Parts DEF TypeOK
  <2> QED BY <1>2, <2>2, <2>4, <2>6, <2>7, <2>8, <2>9, StillRunning, Whole DEF ConnInv
<1>11. CASE c \notin polled
  <2>1. state[c] = "kDisconnected" /\ ~Asserts /\ destroys[c] > 0
    BY <1>4, <1>5, <1>11 DEF StateOf, Over
  <2>2. failed' = Failure("unknown", c) /\ UNCHANGED <<state, reading, writing, calls, polled, tie>>
    BY <1>2, <1>11 DEF ConnectDestroyed
  <2>3. TypeOK'
    BY <1>2, <1>3, <1>6, <2>2, Parts, FailureTyped
       DEF TypeOK, Queues, Tasks, Failures, users, p
  <2>4. ASSUME NEW d \in Conns, d # c PROVE ConnInv(d)'
    BY <1>2, <1>3, <1>6, <2>2, <2>4, Parts, OtherConn DEF SameTasks, SameConn, users, p
  <2>5. TasksOf(c)'
    <3>1. \A f, g \in Loops :
              /\ \A m : Has(p, f, g, m, c) => Has(queue, f, g, m, c)
              /\ \A m : Single(queue, f, g, m, c) => Single(p, f, g, m, c)
      BY <1>3
    <3> QED BY <1>2, <1>4, <1>8, <1>9, <2>1, <2>2, <3>1, Parts DEF TasksOf, users, p
  <2>6. StateOf(c)'
    BY <1>2, <1>4, <1>6, <2>1, <2>2 DEF StateOf
  <2>7. \A k \in Loops : HandlingOf(k)'
    BY <1>2, <2>2, SameHandling
  <2>8. FailureTakesARace'
    BY <1>2, <1>5, <1>6, <2>1, <2>2 DEF FailureTakesARace, Failure
  <2> QED BY <2>3, <2>4, <2>5, <2>6, <2>7, <2>8, Whole DEF ConnInv
<1> QED BY <1>10, <1>11

LEMMA RunSendKeeps ==
    ASSUME IInv, NEW from \in Loops, NEW l \in Loops, RunSend(from, l)
    PROVE  IInv'
<1> USE DEF RunSend
<1>1. PICK c \in Conns : c = TaskOf(from, l).conn
  BY TakenConn
<1> DEFINE p == queue'
<1>2. /\ failed = Running
      /\ p = Dequeued(from, l)
      /\ UNCHANGED <<next, accepted, peer, handling, users>>
      /\ UNCHANGED <<loopOf, state, map, polled, reading, tie, calls, destroys>>
  BY <1>1 DEF Runs, Free
<1>3. /\ p \in Queues
      /\ Has(queue, from, l, "send", c)
      /\ \A f, g \in Loops : \A m, d : d # c =>
          /\ Has(p, f, g, m, d) <=> Has(queue, f, g, m, d)
          /\ Single(queue, f, g, m, d) => Single(p, f, g, m, d)
          /\ AddFirst(queue, f, g, d) => AddFirst(p, f, g, d)
      /\ \A f, g \in Loops : \A m :
          /\ Has(p, f, g, m, c) => Has(queue, f, g, m, c)
          /\ Has(queue, f, g, m, c) /\ m # "send" => Has(p, f, g, m, c)
          /\ Single(queue, f, g, m, c) => Single(p, f, g, m, c)
      /\ \A f, g \in Loops : AddFirst(queue, f, g, c) => AddFirst(p, f, g, c)
  BY <1>1, <1>2, Taken
<1> HIDE DEF p
<1>4. TasksOf(c) /\ StateOf(c)
  BY Parts
<1>5. state[c] \in Over /\ c \in sent /\ c \in Senders
  BY <1>3, <1>4, Parts DEF TasksOf, TypeOK
<1>6. /\ writing' \subseteq writing \cup {c}
      /\ \/ failed' = Running
         \/ failed' = Failure("dangling", c)
         \/ failed' = Failure("unknown", c) /\ c \notin polled
  BY <1>1, <1>2 DEF EnableWriting
<1>7. TypeOK'
  <2>1. failed' \in [how : Failures, conn : Conns] \cup {Running}
    BY <1>6, FailureTyped DEF Failures
  <2>2. writing' \subseteq Conns
    BY <1>6, Parts DEF TypeOK
  <2> QED BY <1>2, <1>3, <2>1, <2>2, Parts DEF TypeOK, Queues, Tasks, users, p
<1>8. \A d \in Conns : SameConn(d)
  BY <1>2, <1>5, <1>6 DEF SameConn, users
<1>9. ASSUME NEW d \in Conns, d # c PROVE ConnInv(d)'
  BY <1>3, <1>8, <1>9, Parts, OtherConn DEF SameTasks, p
<1>10. TasksOf(c)'
  BY <1>2, <1>3, <1>4, Parts DEF TasksOf, users, p
<1>11. StateOf(c)'
  BY <1>2, <1>3, <1>4, <1>5, <1>6, Parts DEF StateOf, p
<1>12. FailureTakesARace'
  <2>1. c \notin polled => state[c] = "kDisconnected"
    BY <1>4, <1>5 DEF StateOf, Over
  <2> QED BY <1>2, <1>5, <1>6, <2>1 DEF FailureTakesARace, Failure, Running, users
<1>13. \A k \in Loops : HandlingOf(k)'
  BY <1>2, SameHandling
<1> QED BY <1>7, <1>9, <1>10, <1>11, <1>12, <1>13, Whole DEF ConnInv

-----------------------------------------------------------------------------
(* The steps: who posts a task, the peers and the acceptor.                *)

\* A shutdown or a send of an established connection is queued for its loop.
LEMMA PostKeeps ==
    ASSUME IInv, failed = Running, NEW from \in Loops, NEW c \in Conns, state[c] \in Over,
           NEW name, queue' = Post(queue, from, loopOf[c], name, c),
           \/ name = "close" /\ from = loopOf[c] /\ c \in asked'
           \/ name = "send" /\ c \in sent',
           asked \subseteq asked' /\ asked' \subseteq Shutdown,
           sent \subseteq sent' /\ sent' \subseteq Senders,
           UNCHANGED <<next, accepted, connVars, peer, handling, failed>>
    PROVE  IInv'
<1> USE DEF connVars
<1> DEFINE p == queue'
           to == loopOf[c]
<1>1. name \in TaskNames /\ name \in {"close", "send"}
  BY DEF TaskNames
<1>2. to \in Loops /\ queue \in Queues
  BY Parts
<1>3. /\ p \in Queues
      /\ \A f, g \in Loops : \A m, d :
          Has(p, f, g, m, d) <=>
              Has(queue, f, g, m, d) \/ (f = from /\ g = to /\ m = name /\ d = c)
      /\ \A f, g \in Loops : \A m, d :
          Single(queue, f, g, m, d) /\ (m = name /\ d = c => ~Has(queue, f, g, m, d))
              => Single(p, f, g, m, d)
      /\ \A f, g \in Loops : \A d :
          AddFirst(queue, f, g, d) /\ (name = "established" /\ d = c => Has(queue, f, g, "add", d))
              => AddFirst(p, f, g, d)
  BY <1>1, <1>2, PostTask
<1> HIDE DEF p
<1>4. /\ \A f, g \in Loops : \A m : m \notin {"close", "send"} =>
          /\ Has(p, f, g, m, c) <=> Has(queue, f, g, m, c)
          /\ Single(queue, f, g, m, c) => Single(p, f, g, m, c)
      /\ \A f, g \in Loops : AddFirst(queue, f, g, c) => AddFirst(p, f, g, c)
      /\ \A f, g \in Loops :
          Has(p, f, g, "close", c) =>
              Has(queue, f, g, "close", c) \/ (f = from /\ g = to /\ name = "close")
      /\ \A f, g \in Loops :
          Has(p, f, g, "send", c) =>
              Has(queue, f, g, "send", c) \/ (f = from /\ g = to /\ name = "send")
  BY <1>1, <1>3
<1>5. \A d \in Conns : SameConn(d)
  BY DEF SameConn
<1>6. ASSUME NEW d \in Conns, d # c PROVE ConnInv(d)'
  BY <1>3, <1>5, <1>6, Parts, OtherConn DEF SameTasks, p
<1>7. TasksOf(c) /\ StateOf(c)
  BY Parts
<1>8. TasksOf(c)'
  <2>1. queue' = p /\ loopOf' = loopOf /\ state' = state /\ accepted' = accepted
        /\ map' = map /\ polled' = polled
    BY DEF p
  <2> QED BY <1>2, <1>4, <1>7, <2>1, Parts DEF TasksOf
<1>9. StateOf(c)'
  BY <1>2, <1>4, <1>7, Parts DEF StateOf, p
<1>10. TypeOK'
  BY <1>3, Parts DEF TypeOK, Queues, Tasks, p
<1>11. \A k \in Loops : HandlingOf(k)'
  BY SameHandling
<1> QED BY <1>6, <1>8, <1>9, <1>10, <1>11, StillRunning, Whole DEF ConnInv

LEMMA HandleMessageKeeps ==
    ASSUME IInv, NEW l \in Loops, NEW c \in Conns, HandleMessage(l, c)
    PROVE  IInv'
<1> USE DEF HandleMessage, Reports, Free
<1>1. state[c] \in Over
  BY ReadIsConnected DEF Over
<1>2. asked \subseteq asked' /\ asked' \subseteq Shutdown /\ c \in asked' /\ sent' = sent
      /\ sent \subseteq Senders
  BY Parts DEF TypeOK
<1> QED BY <1>1, <1>2, PostKeeps

LEMMA SendElsewhereKeeps ==
    ASSUME IInv, NEW l \in Loops, NEW c \in Conns, SendElsewhere(l, c)
    PROVE  IInv'
<1> USE DEF SendElsewhere, Free
<1>1. state[c] \in Over
  <2>1. state[c] \in {"none", "kConnecting", "kConnected", "kDisconnected"} /\ StateOf(c)
    BY Parts DEF TypeOK
  <2> QED BY <2>1 DEF StateOf, Over
<1>2. sent \subseteq sent' /\ sent' \subseteq Senders /\ c \in sent' /\ asked' = asked
      /\ asked \subseteq Shutdown
  BY Parts DEF TypeOK
<1> QED BY <1>1, <1>2, PostKeeps

LEMMA PeerClosesKeeps ==
    ASSUME IInv, NEW c \in Conns, PeerCloses(c)
    PROVE  IInv'
<1> USE DEF PeerCloses
<1>1. PICK p \in {"eof", "reset"} : peer' = [peer EXCEPT ![c] = p] /\ peer[c] \in {"open", "eof"}
  OBVIOUS
<1>2. /\ peer' \in [Conns -> {"none", "open", "eof", "reset", "dead"}]
      /\ \A d \in Conns :
            /\ peer'[d] = "none" => peer[d] = "none"
            /\ peer[d] \in {"reset", "dead"} => peer'[d] \in {"reset", "dead"}
  BY <1>1, Parts DEF TypeOK
<1>3. TypeOK'
  BY <1>2, Parts DEF TypeOK, connVars, users
<1> QED BY <1>2, <1>3, StillRunning, QuietKeeps DEF connVars

LEMMA NewConnectionKeeps ==
    ASSUME IInv, NewConnection
    PROVE  IInv'
<1> USE DEF NewConnection
<1>1. PICK c \in Conns : c = accepted
  BY Parts DEF TypeOK
<1>2. /\ failed = Running /\ accepted' = None /\ map' = map \cup {c}
      /\ UNCHANGED <<next, loopOf, polled, writing, peer, handling, users, destroys>>
      /\ IF loopOf[c] = Base
         THEN ConnectEstablished(c) /\ UNCHANGED queue
         ELSE /\ queue' = Post(queue, Base, loopOf[c], "established", c)
              /\ state' = [state EXCEPT ![c] = "kConnecting"]
              /\ UNCHANGED <<tie, reading, calls, failed>>
  BY <1>1
<1>3. TasksOf(c) /\ StateOf(c)
  BY Parts
<1>4. /\ state[c] = "none" /\ calls[c] = <<>> /\ peer[c] # "none" /\ c \notin map
      /\ c \notin tie /\ c \notin reading
      /\ c \in polled \/ Has(queue, Base, loopOf[c], "add", c)
  BY <1>1, <1>3 DEF StateOf
<1>5. \A f, g \in Loops : \A m \in TaskNames : Has(queue, f, g, m, c) =>
          m = "add" /\ f = Base /\ g = loopOf[c] /\ g # Base /\ c \notin polled
  BY <1>3, <1>4 DEF TasksOf, TaskNames, Over
<1>6. \A d \in Conns : d # c => accepted # d /\ accepted' # d
  BY <1>1, <1>2, Parts
<1>7. ASSUME \A d \in Conns : state'[d] # state[d] => d = c
      PROVE  \A k \in Loops : HandlingOf(k)'
  <2> SUFFICES ASSUME NEW k \in Loops PROVE HandlingOf(k)'
    OBVIOUS
  <2>1. handling[k] # Idle => handling[k].conn # c
    BY <1>4, Parts DEF HandlingOf
  <2> QED BY <1>2, <1>7, <2>1, HandledConn, OtherHandling, Parts
<1>8. CASE loopOf[c] = Base
  <2>1. c \in polled /\ \A f, g \in Loops : \A m \in TaskNames : ~Has(queue, f, g, m, c)
    BY <1>4, <1>5, <1>8, Parts DEF TaskNames
  <2>2. /\ state' = [state EXCEPT ![c] = "kConnected"]
        /\ tie' = tie \cup {c} /\ reading' = reading \cup {c}
        /\ calls' = [calls EXCEPT ![c] = Append(@, "kConnected")]
        /\ UNCHANGED <<failed, queue>>
    BY <1>2, <1>8, <2>1 DEF ConnectEstablished
  <2>3. TypeOK'
    <3>1. calls' \in [Conns -> Seq({"kConnecting", "kConnected", "kDisconnected"})]
      BY <2>2, Parts DEF TypeOK
    <3> QED BY <1>2, <2>2, <3>1, Parts DEF TypeOK, Queues, Tasks, users
  <2>4. /\ state'[c] = "kConnected" /\ calls'[c] = <<"kConnected">>
        /\ \A d \in Conns : d # c => state'[d] = state[d] /\ calls'[d] = calls[d]
    BY <1>4, <2>2, Parts DEF TypeOK
  <2>5. ASSUME NEW d \in Conns, d # c PROVE ConnInv(d)'
    BY <1>2, <1>6, <2>2, <2>4, <2>5, Parts, OtherConn DEF SameTasks, SameConn, users
  <2>6. TasksOf(c)'
    BY <1>2, <1>3, <2>1, <2>2, Parts DEF TasksOf, TaskNames
  <2>7. StateOf(c)'
    BY <1>2, <1>3, <1>4, <1>8, <2>1, <2>2, <2>4, Parts DEF StateOf
  <2>8. \A k \in Loops : HandlingOf(k)'
    BY <1>7, <2>4
  <2> QED BY <1>2, <2>2, <2>3, <2>5, <2>6, <2>7, <2>8, StillRunning, Whole DEF ConnInv
<1>9. CASE loopOf[c] # Base
  <2> DEFINE p == queue'
  <2>1. /\ p = Post(queue, Base, loopOf[c], "established", c)
        /\ state' = [state EXCEPT ![c] = "kConnecting"]
        /\ UNCHANGED <<tie, reading, calls, failed>>
    BY <1>2, <1>9
  <2>2. "established" \in TaskNames /\ loopOf[c] \in Loops /\ queue \in Queues /\ Base \in Loops
    BY Parts DEF TaskNames
  <2>3. /\ p \in Queues
        /\ \A f, g \in Loops : \A m, d :
            Has(p, f, g, m, d) <=>
                Has(queue, f, g, m, d) \/ (f = Base /\ g = loopOf[c] /\ m = "established" /\ d = c)
        /\ \A f, g \in Loops : \A m, d :
            Single(queue, f, g, m, d) /\ (m = "established" /\ d = c => ~Has(queue, f, g, m, d))
                => Single(p, f, g, m, d)
        /\ \A f, g \in Loops : \A d :
            AddFirst(queue, f, g, d) /\ (d = c => Has(queue, f, g, "add", d))
                => AddFirst(p, f, g, d)
    BY <2>1, <2>2, PostTask
  <2> HIDE DEF p
  <2>4. TypeOK'
    BY <1>2, <2>1, <2>3, Parts DEF TypeOK, Queues, Tasks, users, p
  <2>5. state'[c] = "kConnecting" /\ \A d \in Conns : d # c => state'[d] = state[d]
    BY <2>1, Parts DEF TypeOK
  <2>6. ASSUME NEW d \in Conns, d # c PROVE ConnInv(d)'
    BY <1>2, <1>6, <2>1, <2>3, <2>5, <2>6, Parts, OtherConn DEF SameTasks, SameConn, users, p
  <2>7. \A f, g \in Loops : \A m \in TaskNames : Has(p, f, g, m, c) =>
            /\ f = Base /\ g = loopOf[c] /\ g # Base
            /\ m = "established" \/ (m = "add" /\ c \notin polled)
    BY <1>5, <1>9, <2>3
  <2>8. /\ Single(p, Base, loopOf[c], "add", c)
        /\ Single(p, Base, loopOf[c], "established", c)
        /\ Asserts => Single(p, Base, loopOf[c], "destroyed", c)
        /\ c \notin polled => AddFirst(p, Base, loopOf[c], c)
    BY <1>3, <1>4, <1>5, <2>2, <2>3 DEF TasksOf
  <2>9. TasksOf(c)'
    <3>1. queue' = p /\ loopOf' = loopOf /\ polled' = polled
      BY <1>2 DEF p
    <3> QED BY <2>5, <2>7, <2>8, <3>1 DEF TasksOf, TaskNames
  <2>10. StateOf(c)'
    <3>1. Has(p, Base, loopOf[c], "established", c)
      BY <2>2, <2>3
    <3>2. queue' = p /\ accepted' # c
      BY <1>2, Parts DEF p
    <3> QED BY <1>2, <1>3, <1>4, <1>9, <2>1, <2>5, <3>1, <3>2 DEF StateOf
  <2>11. \A k \in Loops : HandlingOf(k)'
    BY <1>7, <2>5
  <2> QED BY <1>2, <2>1, <2>4, <2>6, <2>9, <2>10, <2>11, StillRunning, Whole DEF ConnInv
<1> QED BY <1>8, <1>9

LEMMA Remainder ==
    \A n, m \in Nat : (n + 1) % (m + 1) \in 0 .. m
  OBVIOUS

LEMMA AcceptInLoopKeeps ==
    ASSUME IInv, NEW c \in Conns, AcceptInLoop(c)
    PROVE  IInv'
<1> USE DEF AcceptInLoop, Free
<1> DEFINE l == next'
           p == queue'
<1>1. /\ failed = Running /\ accepted = None /\ accepted' = c /\ peer[c] = "none"
      /\ peer' = [peer EXCEPT ![c] = "open"]
      /\ loopOf' = [loopOf EXCEPT ![c] = l]
      /\ UNCHANGED <<state, map, reading, writing, tie, handling, users, calls, destroys, failed>>
  OBVIOUS
<1>2. l \in Loops
  <2>1. next \in Nat /\ N \in Nat /\ l = (next + 1) % (N + 1)
    BY ServerAssumption, Parts DEF TypeOK, Loops
  <2>2. l \in 0 .. N
    BY <2>1, Remainder
  <2> QED BY <2>2 DEF Loops
<1> HIDE DEF l
<1>3. TasksOf(c) /\ StateOf(c)
  BY Parts
<1>4. state[c] = "none"
  BY <1>1, <1>3 DEF StateOf
<1>5. c \notin polled /\ c # None
  BY <1>1, <1>3, <1>4, Parts DEF StateOf
<1>6. \A f, g \in Loops : \A m \in TaskNames : ~Has(queue, f, g, m, c)
  BY <1>1, <1>3, <1>4, <1>5 DEF TasksOf, TaskNames, Over
<1>7. /\ p \in Queues
      /\ \A f, g \in Loops : \A m : \A d \in Conns : d # c =>
          /\ Has(p, f, g, m, d) <=> Has(queue, f, g, m, d)
          /\ Single(queue, f, g, m, d) => Single(p, f, g, m, d)
          /\ AddFirst(queue, f, g, d) => AddFirst(p, f, g, d)
      /\ \A f, g \in Loops : \A m \in TaskNames :
          /\ Has(p, f, g, m, c) <=> f = Base /\ g = l /\ l # Base /\ m = "add"
          /\ Single(p, f, g, m, c)
      /\ polled' = IF l = Base THEN polled \cup {c} ELSE polled
  <2>1. \A f, g \in Loops : \A m \in TaskNames : Single(queue, f, g, m, c)
    BY <1>6 DEF Single, Once, Has, In
  <2>2. CASE l = Base
    BY <1>6, <2>1, <2>2, Parts DEF l
  <2>3. CASE l # Base
    <3>1. p = Post(queue, Base, l, "add", c) /\ polled' = polled
      BY <2>3 DEF l
    <3>2. "add" \in TaskNames /\ queue \in Queues /\ Base \in Loops
      BY Parts DEF TaskNames
    <3>3. /\ p \in Queues
          /\ \A f, g \in Loops : \A m, d :
              Has(p, f, g, m, d) <=>
                  Has(queue, f, g, m, d) \/ (f = Base /\ g = l /\ m = "add" /\ d = c)
          /\ \A f, g \in Loops : \A m, d :
              Single(queue, f, g, m, d) /\ (m = "add" /\ d = c => ~Has(queue, f, g, m, d))
                  => Single(p, f, g, m, d)
          /\ \A f, g \in Loops : \A d : AddFirst(queue, f, g, d) => AddFirst(p, f, g, d)
      BY <1>2, <3>1, <3>2, PostTask
    <3> HIDE DEF p
    <3> QED BY <1>6, <2>1, <2>3, <3>1, <3>3
  <2> QED BY <2>2, <2>3
<1> HIDE DEF p
<1>8. /\ loopOf'[c] = l /\ loopOf' \in [Conns -> Loops]
      /\ peer'[c] = "open" /\ peer' \in [Conns -> {"none", "open", "eof", "reset", "dead"}]
      /\ \A d \in Conns : d # c => loopOf'[d] = loopOf[d] /\ peer'[d] = peer[d]
  <2>1. loopOf \in [Conns -> Loops] /\ peer \in [Conns -> {"none", "open", "eof", "reset", "dead"}]
    BY Parts DEF TypeOK
  <2>2. loopOf' = [loopOf EXCEPT ![c] = l] /\ peer' = [peer EXCEPT ![c] = "open"] /\ c \in Conns
    BY <1>1
  <2>3. loopOf'[c] = l /\ loopOf' \in [Conns -> Loops] /\ \A d \in Conns : d # c => loopOf'[d] = loopOf[d]
    BY ONLY <1>2, <2>1, <2>2
  <2>4. /\ peer'[c] = "open" /\ peer' \in [Conns -> {"none", "open", "eof", "reset", "dead"}]
        /\ \A d \in Conns : d # c => peer'[d] = peer[d]
    BY ONLY <2>1, <2>2
  <2> QED BY ONLY <2>3, <2>4
<1>9. TypeOK'
  BY <1>1, <1>2, <1>7, <1>8, Parts DEF TypeOK, Queues, Tasks, users, l, p
<1>10. ASSUME NEW d \in Conns, d # c PROVE ConnInv(d)'
  BY <1>1, <1>7, <1>8, <1>10, Parts, OtherConn DEF SameTasks, SameConn, users, p
<1>11. TasksOf(c)'
  <2>1. \A f, g \in Loops : AddFirst(p, f, g, c)
    BY <1>7 DEF AddFirst, Before, Has, In, TaskNames
  <2>2. queue' = p /\ state'[c] = "none" /\ accepted' = c /\ Base \in Loops
    BY <1>1, <1>4, Parts DEF p
  <2> QED BY <1>2, <1>5, <1>7, <1>8, <2>1, <2>2 DEF TasksOf, TaskNames
<1>12. StateOf(c)'
  <2>1. c \in polled' \/ Has(p, Base, l, "add", c)
    BY <1>2, <1>7, Parts DEF TaskNames
  <2>2. queue' = p /\ state'[c] = "none" /\ accepted' = c
    BY <1>1, <1>4 DEF p
  <2> QED BY <1>1, <1>3, <1>4, <1>8, <2>1, <2>2 DEF StateOf
<1>13. ASSUME NEW k \in Loops PROVE HandlingOf(k)'
  <2>1. handling[k] # Idle => handling[k].conn # c
    BY <1>4, Parts DEF HandlingOf
  <2> QED BY <1>1, <1>8, <2>1, HandledConn, OtherHandling, Parts
<1> QED BY <1>1, <1>9, <1>10, <1>11, <1>12, <1>13, StillRunning, Whole DEF ConnInv

-----------------------------------------------------------------------------
(* The theorems.                                                           *)

LEMMA InitIInv == Init => IInv
<1> SUFFICES ASSUME Init PROVE IInv
  OBVIOUS
<1> USE DEF Init
<1>1. TypeOK
  <2>1. next \in Loops
    BY BaseLoop DEF Base
  <2> QED BY <2>1, BaseLoop DEF TypeOK
<1>2. \A c \in Conns : TasksOf(c)
  <2> SUFFICES ASSUME NEW c \in Conns PROVE TasksOf(c)
    OBVIOUS
  <2>1. ASSUME NEW f \in Loops, NEW g \in Loops, NEW m
        PROVE  ~Has(queue, f, g, m, c) /\ Single(queue, f, g, m, c) /\ AddFirst(queue, f, g, c)
    <3>1. queue[f][g] = <<>>
      OBVIOUS
    <3>2. DOMAIN queue[f][g] = {}
      BY <3>1
    <3> QED BY <3>2 DEF Has, Single, AddFirst, In, Once, Before
  <2>2. loopOf[c] = Base
    OBVIOUS
  <2> HIDE DEF Init
  <2> QED BY <2>1, <2>2, BaseLoop DEF TasksOf
<1>3. \A c \in Conns : StateOf(c)
  BY ServerAssumption DEF StateOf
<1>4. \A l \in Loops : HandlingOf(l)
  BY DEF HandlingOf
<1>5. FailureTakesARace
  BY DEF FailureTakesARace, Running, Failure
<1> QED BY <1>1, <1>2, <1>3, <1>4, <1>5 DEF IInv

LEMMA NextIInv == IInv /\ [Next]_vars => IInv'
<1> SUFFICES ASSUME IInv, [Next]_vars PROVE IInv'
  OBVIOUS
<1>1. CASE NewConnection
  BY <1>1, NewConnectionKeeps
<1>2. ASSUME NEW l \in Loops, RunTask(l) PROVE IInv'
  BY <1>2, RunAddKeeps, RunEstablishedKeeps, RunRemoveKeeps, RunDestroyedKeeps,
     RunCloseKeeps, RunSendKeeps DEF RunTask
<1>3. ASSUME NEW l \in Loops, GoesOn(l) PROVE IInv'
  BY <1>3, HandleEventReturnsKeeps, HandleWriteFailsKeeps, HandlerFailsKeeps DEF GoesOn
<1>4. ASSUME NEW l \in Loops, NEW c \in Conns, Poll(l, c) PROVE IInv'
  BY <1>4, EventUnhandledKeeps, ReplyKeeps, HandleMessageKeeps, HandleErrorKeeps,
     HandleEofKeeps, HandleReadFailsKeeps DEF Poll
<1>5. ASSUME NEW l \in Loops, NEW c \in Conns, SendElsewhere(l, c) PROVE IInv'
  BY <1>5, SendElsewhereKeeps
<1>6. ASSUME NEW c \in Conns, AcceptInLoop(c) \/ PeerCloses(c) PROVE IInv'
  BY <1>6, AcceptInLoopKeeps, PeerClosesKeeps
<1>7. CASE UNCHANGED vars
  <2>1. \A c \in Conns : ConnInv(c)'
    BY <1>7, Parts, OtherConn DEF vars, connVars, users, SameTasks, SameConn
  <2>2. \A l \in Loops : HandlingOf(l)'
    BY <1>7, SameHandling DEF vars, connVars
  <2>3. TypeOK' /\ FailureTakesARace'
    BY <1>7 DEF vars, connVars, users, IInv, TypeOK, FailureTakesARace
  <2> QED BY <2>1, <2>2, <2>3, Whole
<1> QED BY <1>1, <1>2, <1>3, <1>4, <1>5, <1>6, <1>7 DEF Next

\* The invariant holds of every server: of any number of connections and loops, whoever
\* calls shutdown and send, with and without assertions.
THEOREM Invariance == Spec => []IInv
<1>1. Init => IInv
  BY InitIInv
<1>2. IInv /\ [Next]_vars => IInv'
  BY NextIInv
<1> QED BY <1>1, <1>2, PTL DEF Spec

\* No channel is left in an epoll when the last reference to its connection is dropped:
\* between acceptInLoop and newConnection the acceptor has it, then the task of
\* connectEstablished, then the tie, which connectDestroyed clears when it has cancelled
\* the channel.
THEOREM PolledCorrect == Spec => []PolledAlive
<1>1. IInv => PolledAlive
  <2> SUFFICES ASSUME IInv, NEW c \in polled PROVE Held(c)
    BY DEF PolledAlive
  <2>1. c \in Conns /\ StateOf(c)
        /\ state[c] \in {"none", "kConnecting", "kConnected", "kDisconnected"}
    BY Parts DEF TypeOK
  <2> QED BY <2>1 DEF StateOf, Held
<1> QED BY <1>1, Invariance, PTL

\* connectionCallback is called at most twice of a connection, first when it is up and
\* then when it is over, although a connection may be removed and destroyed twice.
THEOREM CallbacksCorrect == Spec => []CallbackOrder
<1>1. IInv => CallbackOrder
  <2> SUFFICES ASSUME IInv, NEW c \in Conns
               PROVE  calls[c] \in {<<>>, <<"kConnected">>, <<"kConnected", "kDisconnected">>}
    BY DEF CallbackOrder
  <2>1. StateOf(c) /\ state[c] \in {"none", "kConnecting", "kConnected", "kDisconnected"}
    BY Parts DEF TypeOK
  <2> QED BY <2>1 DEF StateOf
<1> QED BY <1>1, Invariance, PTL

\* The process ends in an abort, an assertion, or with what was destroyed only where
\* FailureTakesARace says: a connection on the base loop is never removed twice, no
\* event comes before its handler there, and connectEstablished always finds its
\* channel in the epoll.
THEOREM FailureCorrect == Spec => []FailureTakesARace
<1>1. IInv => FailureTakesARace
  BY DEF IInv
<1> QED BY <1>1, Invariance, PTL
=============================================================================
