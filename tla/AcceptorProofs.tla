---------------------------- MODULE AcceptorProofs ----------------------------
(***************************************************************************)
(* What TLAPS proves of Acceptor, for any limit of open files, any tables  *)
(* and any number of connections and of files of other threads: numbers,   *)
(* tables, registrations and batches agree, and the spare number is lost   *)
(* to another thread, to the limit of the system, or not at all; that a    *)
(* channel is missed takes an end that is reported twice.                  *)
(*                                                                         *)
(* All of it rests on what the kernel promises of the number it gives to a *)
(* file: that it was not in use.                                           *)
(***************************************************************************)
EXTENDS Acceptor, SequenceTheorems, WellFoundedInduction, TLAPS

-----------------------------------------------------------------------------
(* The inductive invariant; the counts of ends are apart, in CInv.         *)

\* What stage says of a connection's object, and of its channel.
Owning == {"accepted", "added", "up", "ended", "closing", "cancelled"}
Serving == {"added", "up", "ended", "closing"}

Staged(c) ==
    /\ impl[c] # None <=> stage[c] \in Owning
    /\ impl[c] # Bad
    /\ stage[c] \in {"accepted", "added", "closing"} => loopOf[c] = "pool"

\* Who waits to be accepted waits once.
Waits ==
    /\ \A i \in DOMAIN backlog : stage[backlog[i]] = "waiting"
    /\ \A i, j \in DOMAIN backlog : backlog[i] = backlog[j] => i = j

\* The channels a loop has registered are its own, the listener's and those of the
\* connections it serves.
Registered(l) ==
    epoll[l] = {l} \cup {ch \in {Listen} : l = "base" /\ up \in Listened}
                   \cup {c \in Conns : loopOf[c] = l /\ stage[c] \in Serving}

\* The numbers of loops and listener, which are there all the time.
Lasting ==
    /\ \A l \in Loops : impl[l] \in Numbers
    /\ up # "destroyed" => impl[Listen] \in Numbers

\* The error callback holds the place of the spare, or what it has accepted.
Calls ==
    /\ handler # "none" => up = "listening"
    /\ handler \in {"accept", "drop", "reopen"} => impl[Spare] = None
    /\ dropped # None => handler = "drop" /\ stage[dropped] = "gone"

\* As long as no other thread has opened a file, it finds a number for the spare, and the
\* system is not at its limit.
RoomIsLeft ==
    SpareIsOut /\ ~stolen =>
        /\ ~scarce
        /\ ~Exhausted \/ (dropped # None /\ \E n \in Numbers : files[n] = dropped)

\* The part of TableMatchesEpoll that is about one loop.
TableOf(l) ==
    /\ \A n \in DOMAIN slots[l] :
          slots[l][n] # None /\ ~(slots[l][n] = Listen /\ up = "destroyed") =>
              slots[l][n] \in epoll[l] /\ impl[slots[l][n]] = n
    /\ \A ch \in epoll[l] : impl[ch] \in DOMAIN slots[l] /\ slots[l][impl[ch]] = ch
    /\ batch[l] \subseteq epoll[l]

Owned(o) == \A n \in Numbers : OwnFile(o, n)

Runs ==
    /\ \A c \in Conns : Staged(c)
    /\ Waits
    /\ \A l \in Loops : Registered(l) /\ TableOf(l)
    /\ Lasting
    /\ Calls
    /\ RoomIsLeft
    /\ \A o \in Objects \ {dropped} : Owned(o)

IInv == TypeOK /\ (Running => Runs) /\ SpareTakesARace

\* The table of one loop, as TypeOK has it.
IsTable(t) ==
    /\ DOMAIN t \subseteq Nat /\ 0 \in DOMAIN t
    /\ \A n \in DOMAIN t : 0 .. n \subseteq DOMAIN t /\ t[n] \in Objects \cup {None}

-----------------------------------------------------------------------------
(* Constants, numbers and tables.                                          *)

\* What the names of the objects are told apart by.
LEMMA Names ==
    /\ Conns \subseteq Objects /\ Loops \subseteq Objects /\ Listen \in Objects /\ Spare \in Objects
    /\ Objects = Conns \cup Loops \cup {Listen, Spare}
    /\ Conns \cap Loops = {} /\ Listen # Spare /\ Listen \notin Conns \cup Loops
    /\ Spare \notin Conns \cup Loops
    /\ None \notin Objects \cup Others /\ Objects \cap Others = {}
    /\ None \notin Numbers /\ Bad \notin Numbers /\ None # Bad /\ Numbers \subseteq Nat
    /\ Loops = {"base", "pool"}
<1>1. /\ Objects = Conns \cup Loops \cup {Listen, Spare}
      /\ Conns \cap Loops = {} /\ Listen # Spare /\ {Listen, Spare} \cap (Conns \cup Loops) = {}
  BY AcceptorAssumption
<1>2. /\ None \notin Numbers /\ Bad \notin Numbers /\ None # Bad /\ Numbers \subseteq Nat
      /\ None \notin Objects \cup Others /\ Objects \cap Others = {}
  BY DescriptorAssumption DEF Numbers, Bad
<1> QED BY <1>1, <1>2 DEF Loops

\* A set of numbers that is not empty has a least one.
LEMMA Least ==
    ASSUME NEW S \in SUBSET Nat, S # {}
    PROVE  \E n \in S : \A m \in S : n <= m
<1> DEFINE Lt == {ss \in Nat \X Nat : ss[1] < ss[2]}
<1>1. IsWellFoundedOn(Lt, Nat)
  BY NatLessThanWellFounded DEF OpToRel
<1>2. PICK n \in S : \A m \in S : ~(<<m, n>> \in Lt)
  BY <1>1, WFMin
<1>3. \A m \in S : n <= m
  <2> TAKE m \in S
  <2>1. ~(m < n)
    BY <1>2
  <2> QED BY <2>1
<1> QED BY <1>3

\* A call that opens a file gets a number that was not in use.
LEMMA LowestIsUnused ==
    ASSUME ~Exhausted
    PROVE  Lowest \in Numbers /\ files[Lowest] = None
<1>1. Unused \in SUBSET Nat
  BY Names DEF Unused
<1>2. \E n \in Unused : \A m \in Unused : n <= m
  BY <1>1, Least DEF Exhausted
<1>3. Lowest \in Unused
  BY <1>2 DEF Lowest
<1> QED BY <1>3 DEF Unused

\* An object that had no number has one that was not in use, and others keep theirs.
LEMMA OpensGives ==
    ASSUME DescriptorsOK, NEW o \in Objects, Opens(o), NEW d, o # d, impl[o] = None,
           \A p \in Objects \ {d} : Owned(p)
    PROVE  /\ DescriptorsOK'
           /\ impl'[o] \in Numbers /\ files[impl'[o]] = None /\ files'[impl'[o]] = o
           /\ \A p \in Objects \ {o} : impl'[p] = impl[p]
           /\ \A n \in Numbers \ {impl'[o]} : files'[n] = files[n]
           /\ \A p \in Objects \ {d} : Owned(p)'
<1>1. Lowest \in Numbers /\ files[Lowest] = None
  BY LowestIsUnused DEF Opens, CanOpen
<1>2. /\ files' = [files EXCEPT ![Lowest] = o]
      /\ impl' = [impl EXCEPT ![o] = Lowest]
      /\ scarce \in BOOLEAN /\ UNCHANGED scarce
  BY DEF Opens, DescriptorsOK
<1>3. impl \in [Objects -> Numbers \cup {None, Bad}] /\ files \in [Numbers -> Objects \cup Others \cup {None}]
  BY DEF DescriptorsOK
<1> HIDE DEF Lowest
<1>4. DescriptorsOK'
  BY <1>1, <1>2, <1>3 DEF DescriptorsOK
<1>5. /\ impl'[o] = Lowest /\ files'[Lowest] = o
      /\ \A p \in Objects \ {o} : impl'[p] = impl[p]
      /\ \A n \in Numbers \ {Lowest} : files'[n] = files[n]
  BY <1>1, <1>2, <1>3
<1>6. ASSUME NEW p \in Objects \ {d}, NEW n \in Numbers PROVE OwnFile(p, n)'
  <2>1. OwnFile(p, n) /\ OwnFile(p, Lowest) /\ OwnFile(o, n)
    BY <1>1 DEF Owned
  <2> QED BY <2>1, <1>1, <1>5, Names DEF OwnFile
<1>7. \A p \in Objects \ {d} : Owned(p)'
  BY <1>6 DEF Owned
<1> QED BY <1>1, <1>4, <1>5, <1>7

\* An object that is closed has no number, and others keep theirs.
LEMMA ClosesTakes ==
    ASSUME DescriptorsOK, NEW o \in Objects, Closes(o), NEW d, o # d,
           \A p \in Objects \ {d} : Owned(p)
    PROVE  /\ DescriptorsOK'
           /\ impl'[o] = None
           /\ \A p \in Objects \ {o} : impl'[p] = impl[p]
           /\ \A n \in Numbers : files'[n] = files[n] \/ (n = impl[o] /\ files'[n] = None)
           /\ impl[o] \in Numbers => files'[impl[o]] = None
           /\ \A p \in Objects \ {d} : Owned(p)'
<1>1. /\ impl \in [Objects -> Numbers \cup {None, Bad}]
      /\ files \in [Numbers -> Objects \cup Others \cup {None}]
  BY DEF DescriptorsOK
<1>2. /\ files' = [n \in Numbers |-> IF n = impl[o] THEN None ELSE files[n]]
      /\ impl' = [impl EXCEPT ![o] = None]
      /\ scarce \in BOOLEAN /\ UNCHANGED scarce
  BY DEF Closes, DescriptorsOK
<1>3. DescriptorsOK'
  BY <1>1, <1>2 DEF DescriptorsOK
<1>4. /\ impl'[o] = None
      /\ \A p \in Objects \ {o} : impl'[p] = impl[p]
      /\ \A n \in Numbers : files'[n] = IF n = impl[o] THEN None ELSE files[n]
  BY <1>1, <1>2
<1>5. ASSUME NEW p \in Objects \ {d}, NEW n \in Numbers PROVE OwnFile(p, n)'
  <2>1. OwnFile(p, n) /\ OwnFile(o, n)
    BY DEF Owned
  <2> QED BY <2>1, <1>1, <1>4, Names DEF OwnFile
<1> QED BY <1>3, <1>4, <1>5 DEF Owned

\* A table that is resized has the number, and what it had.
LEMMA ResizedHasRoom ==
    ASSUME NEW t, IsTable(t), NEW n \in Nat
    PROVE  /\ IsTable(Resized(t, n)) /\ n \in DOMAIN Resized(t, n)
           /\ DOMAIN t \subseteq DOMAIN Resized(t, n)
           /\ \A m \in DOMAIN Resized(t, n) :
                Resized(t, n)[m] = IF m \in DOMAIN t THEN t[m] ELSE None
<1>1. CASE n \in DOMAIN t
  BY <1>1 DEF Resized
<1>2. CASE n \notin DOMAIN t
  <2>1. \A m \in DOMAIN t : m \in Nat /\ m < n
    <3> TAKE m \in DOMAIN t
    <3>1. m \in Nat /\ 0 .. m \subseteq DOMAIN t
      BY DEF IsTable
    <3> QED BY <3>1, <1>2
  <2>2. n # 0 /\ 0 \in DOMAIN t
    BY <1>2 DEF IsTable
  <2>3. 0 .. n \subseteq 0 .. 2 * n - 1
    BY <2>2
  <2>4. Resized(t, n) = [m \in 0 .. 2 * n - 1 |-> IF m \in DOMAIN t THEN t[m] ELSE None]
    BY <1>2 DEF Resized
  <2>5. DOMAIN t \subseteq 0 .. 2 * n - 1
    BY <2>1, <2>3
  <2>6. \A m \in 0 .. 2 * n - 1 : 0 .. m \subseteq 0 .. 2 * n - 1
    OBVIOUS
  <2>7. \A m \in DOMAIN t : t[m] \in Objects \cup {None}
    BY DEF IsTable
  <2> HIDE DEF IsTable
  <2>8. 0 .. 2 * n - 1 \subseteq Nat
    OBVIOUS
  <2>9. n \in 0 .. 2 * n - 1 /\ 0 \in 0 .. 2 * n - 1
    BY <2>2
  <2> QED BY <2>4, <2>5, <2>6, <2>7, <2>8, <2>9 DEF IsTable
<1> QED BY <1>1, <1>2

-----------------------------------------------------------------------------
(* The table of a loop.                                                    *)

\* A table whose channels keep their numbers.
LEMMA TableStays ==
    ASSUME NEW l \in Loops, TableOf(l), slots'[l] = slots[l], epoll'[l] = epoll[l],
           batch'[l] \subseteq epoll[l], \A ch \in epoll[l] : impl'[ch] = impl[ch],
           up = "destroyed" => up' = "destroyed"
    PROVE  TableOf(l)'
<1>1. batch'[l] \subseteq epoll'[l]
  OBVIOUS
<1>2. \A ch \in epoll'[l] : impl'[ch] \in DOMAIN slots'[l] /\ slots'[l][impl'[ch]] = ch
  BY DEF TableOf
<1>3. \A n \in DOMAIN slots'[l] :
          slots'[l][n] # None /\ ~(slots'[l][n] = Listen /\ up' = "destroyed") =>
              slots'[l][n] \in epoll'[l] /\ impl'[slots'[l][n]] = n
  <2> SUFFICES ASSUME NEW n \in DOMAIN slots[l], slots[l][n] # None,
                      ~(slots[l][n] = Listen /\ up' = "destroyed")
               PROVE  slots[l][n] \in epoll[l] /\ impl'[slots[l][n]] = n
    OBVIOUS
  <2>1. slots[l][n] \in epoll[l] /\ impl[slots[l][n]] = n
    BY DEF TableOf
  <2> QED BY <2>1
<1> QED BY <1>1, <1>2, <1>3 DEF TableOf

\* The types of tables and registrations.
Tables ==
    /\ slots = [l \in Loops |-> slots[l]]
    /\ \A l \in Loops : IsTable(slots[l])
    /\ epoll \in [Loops -> SUBSET Objects]

LEMMA AddEnters ==
    ASSUME Tables, NEW l \in Loops, NEW ch \in Objects, Add(l, ch),
           impl'[ch] \in Numbers, \A p \in Objects \ {ch} : impl'[p] = impl[p],
           TableOf(l), ch \notin epoll[l], batch'[l] \subseteq batch[l],
           up = "destroyed" => up' = "destroyed"
    PROVE  /\ Tables' /\ TableOf(l)' /\ epoll'[l] = epoll[l] \cup {ch}
           /\ \A k \in Loops \ {l} : slots'[k] = slots[k] /\ epoll'[k] = epoll[k]
<1>1. PICK n \in Nat : n = impl'[ch]
  BY Names
<1>2. PICK t : t = Resized(slots[l], n)
  OBVIOUS
<1>3. /\ t[n] = None
      /\ slots' = [slots EXCEPT ![l] = [t EXCEPT ![n] = ch]]
      /\ epoll' = [epoll EXCEPT ![l] = @ \cup {ch}]
  BY <1>1, <1>2 DEF Add
<1>4. IsTable(slots[l])
  BY DEF Tables
<1>5. /\ IsTable(t) /\ n \in DOMAIN t /\ DOMAIN slots[l] \subseteq DOMAIN t
      /\ \A m \in DOMAIN t : t[m] = IF m \in DOMAIN slots[l] THEN slots[l][m] ELSE None
  BY <1>2, <1>4, ResizedHasRoom
<1>6. PICK s : s = [t EXCEPT ![n] = ch]
  OBVIOUS
<1>7. DOMAIN s = DOMAIN t /\ s[n] = ch /\ \A m \in DOMAIN t \ {n} : s[m] = t[m]
  BY <1>5, <1>6
<1>8. DOMAIN slots = Loops /\ DOMAIN epoll = Loops
  BY DEF Tables
<1>9. slots'[l] = s /\ \A k \in Loops \ {l} : slots'[k] = slots[k]
  BY <1>3, <1>6, <1>8
<1>10. epoll'[l] = epoll[l] \cup {ch} /\ \A k \in Loops \ {l} : epoll'[k] = epoll[k]
  BY <1>3, <1>8
<1>11. IsTable(s)
  BY <1>5, <1>7 DEF IsTable
<1>12. Tables'
  <2>1. slots' = [k \in Loops |-> slots'[k]]
    BY <1>3, <1>8
  <2>2. \A k \in Loops : IsTable(slots'[k])
    BY <1>9, <1>11 DEF Tables
  <2>3. epoll' \in [Loops -> SUBSET Objects]
    BY <1>3 DEF Tables
  <2> QED BY <2>1, <2>2, <2>3 DEF Tables, IsTable
<1>13. TableOf(l)'
  <2>1. batch'[l] \subseteq epoll'[l]
    BY <1>10 DEF TableOf
  <2>2. \A e \in epoll'[l] : impl'[e] \in DOMAIN s /\ s[impl'[e]] = e
    <3> TAKE e \in epoll'[l]
    <3>1. CASE e = ch
      BY <3>1, <1>1, <1>5, <1>7
    <3>2. CASE e # ch
      <4>1. e \in epoll[l] /\ e \in Objects
        BY <3>2, <1>10 DEF Tables
      <4>2. impl[e] \in DOMAIN slots[l] /\ slots[l][impl[e]] = e
        BY <4>1 DEF TableOf
      <4>3. impl[e] \in DOMAIN t /\ t[impl[e]] = e /\ impl[e] # n
        BY <4>1, <4>2, <1>3, <1>5, Names
      <4> QED BY <4>1, <4>3, <1>7, <3>2
    <3> QED BY <3>1, <3>2
  <2>3. \A m \in DOMAIN s :
          s[m] # None /\ ~(s[m] = Listen /\ up' = "destroyed") =>
              s[m] \in epoll'[l] /\ impl'[s[m]] = m
    <3> SUFFICES ASSUME NEW m \in DOMAIN s, s[m] # None, ~(s[m] = Listen /\ up' = "destroyed")
                 PROVE  s[m] \in epoll'[l] /\ impl'[s[m]] = m
      OBVIOUS
    <3>1. CASE m = n
      BY <3>1, <1>1, <1>7, <1>10
    <3>2. CASE m # n
      <4>1. m \in DOMAIN slots[l] /\ s[m] = slots[l][m]
        BY <3>2, <1>5, <1>7
      <4>2. s[m] \in epoll[l] /\ impl[s[m]] = m
        BY <4>1 DEF TableOf
      <4>3. s[m] \in Objects \ {ch}
        BY <4>2 DEF Tables
      <4> QED BY <4>2, <4>3, <1>10
    <3> QED BY <3>1, <3>2
  <2>4. \A m \in DOMAIN slots'[l] :
          slots'[l][m] # None /\ ~(slots'[l][m] = Listen /\ up' = "destroyed") =>
              slots'[l][m] \in epoll'[l] /\ impl'[slots'[l][m]] = m
    BY <2>3, <1>9
  <2>5. \A e \in epoll'[l] : impl'[e] \in DOMAIN slots'[l] /\ slots'[l][impl'[e]] = e
    BY <2>2, <1>9
  <2> QED BY <2>1, <2>4, <2>5 DEF TableOf
<1> QED BY <1>9, <1>10, <1>12, <1>13

LEMMA CancelRemoves ==
    ASSUME Tables, NEW l \in Loops, NEW ch \in Objects, Cancel(l, ch), ch \in epoll[l],
           TableOf(l), UNCHANGED <<impl, up>>, batch'[l] \subseteq batch[l], ch \notin batch'[l]
    PROVE  /\ Tables' /\ TableOf(l)' /\ failed' = failed
           /\ epoll'[l] = epoll[l] \ {ch}
           /\ \A k \in Loops \ {l} : slots'[k] = slots[k] /\ epoll'[k] = epoll[k]
<1>1. /\ failed' = failed
      /\ epoll' = [epoll EXCEPT ![l] = @ \ {ch}]
      /\ slots' = [slots EXCEPT ![l][impl[ch]] = None]
  BY DEF Cancel, Update
<1>2. DOMAIN slots = Loops /\ DOMAIN epoll = Loops
  BY DEF Tables
<1>3. epoll'[l] = epoll[l] \ {ch} /\ \A k \in Loops \ {l} : epoll'[k] = epoll[k]
  BY <1>1, <1>2
<1>4. PICK n : n = impl[ch]
  OBVIOUS
<1>5. n \in DOMAIN slots[l] /\ slots[l][n] = ch
  BY <1>4 DEF TableOf
<1>6. PICK s : s = [slots[l] EXCEPT ![n] = None]
  OBVIOUS
<1>7. DOMAIN s = DOMAIN slots[l] /\ s[n] = None /\ \A m \in DOMAIN s \ {n} : s[m] = slots[l][m]
  BY <1>5, <1>6
<1>8. slots'[l] = s /\ \A k \in Loops \ {l} : slots'[k] = slots[k]
  BY <1>1, <1>2, <1>4, <1>6
<1>9. Tables'
  <2>1. slots' = [k \in Loops |-> slots'[k]]
    BY <1>1, <1>2
  <2>2. IsTable(s)
    BY <1>7 DEF Tables, IsTable
  <2>3. \A k \in Loops : IsTable(slots'[k])
    BY <2>2, <1>8 DEF Tables
  <2>4. epoll' \in [Loops -> SUBSET Objects]
    BY <1>1 DEF Tables
  <2> QED BY <2>1, <2>3, <2>4 DEF Tables, IsTable
<1>10. TableOf(l)'
  <2>1. batch'[l] \subseteq epoll'[l]
    BY <1>3 DEF TableOf
  <2>2. \A e \in epoll'[l] : impl'[e] \in DOMAIN s /\ s[impl'[e]] = e
    <3> TAKE e \in epoll'[l]
    <3>1. e # ch /\ impl[e] \in DOMAIN slots[l] /\ slots[l][impl[e]] = e
      BY <1>3 DEF TableOf
    <3>2. impl[e] # n
      BY <3>1, <1>5
    <3> QED BY <3>1, <3>2, <1>7
  <2>3. \A m \in DOMAIN s :
          s[m] # None /\ ~(s[m] = Listen /\ up' = "destroyed") =>
              s[m] \in epoll'[l] /\ impl'[s[m]] = m
    <3> SUFFICES ASSUME NEW m \in DOMAIN s, s[m] # None, ~(s[m] = Listen /\ up = "destroyed")
                 PROVE  s[m] \in epoll'[l] /\ impl[s[m]] = m
      OBVIOUS
    <3>1. m \in DOMAIN slots[l] /\ s[m] = slots[l][m] /\ m # n
      BY <1>7
    <3>2. s[m] \in epoll[l] /\ impl[s[m]] = m
      BY <3>1 DEF TableOf
    <3>3. s[m] # ch
      BY <3>1, <3>2, <1>4
    <3> QED BY <3>2, <3>3, <1>3
  <2> QED BY <2>1, <2>2, <2>3, <1>8 DEF TableOf
<1> QED BY <1>1, <1>3, <1>8, <1>9, <1>10

-----------------------------------------------------------------------------
(* What several actions have in common.                                    *)

LEMMA TypesOfTables == TypeOK <=> /\ DescriptorsOK /\ Tables
                                  /\ up \in {"new", "bound", "destroyed"} \cup Listened
                                  /\ reading \subseteq Objects
                                  /\ room \in [Loops -> Nat \ {0}]
                                  /\ batch \in [Loops -> SUBSET Objects]
                                  /\ handler \in {"none", "give up", "accept", "drop", "reopen"}
                                  /\ dropped \in Conns \cup {None}
                                  /\ stage \in [Conns -> {"away", "waiting", "accepted", "added",
                                          "up", "ended", "closing", "cancelled", "gone"}]
                                  /\ loopOf \in [Conns -> Loops]
                                  /\ backlog \in Seq(Conns)
                                  /\ reports \in [Conns -> Nat] /\ erases \in [Conns -> Nat]
                                  /\ destroys \in [Conns -> Nat]
BY DEF TypeOK, Tables, IsTable

\* Nothing but batches, the error callback and what bind has said.
LEMMA QuietRuns ==
    ASSUME TypeOK, Runs, UNCHANGED <<descriptors, slots, epoll, stage, loopOf, backlog, dropped>>,
           up' = up \/ (up = "new" /\ up' = "bound"),
           \A l \in Loops : batch'[l] \subseteq epoll[l], Calls', RoomIsLeft'
    PROVE  Runs'
<1> USE DEF descriptors
<1>1. \A c \in Conns : Staged(c)'
  BY DEF Runs, Staged
<1>2. Waits'
  BY DEF Runs, Waits
<1>3. ASSUME NEW l \in Loops PROVE Registered(l)' /\ TableOf(l)'
  <2>1. Registered(l) /\ TableOf(l)
    BY DEF Runs
  <2>2. up \in Listened <=> up' \in Listened
    BY DEF Listened
  <2>3. Registered(l)'
    BY <2>1, <2>2 DEF Registered
  <2>4. TableOf(l)'
    BY <2>1, TableStays
  <2> QED BY <2>3, <2>4
<1>4. Lasting'
  BY DEF Runs, Lasting, Numbers
<1>5. \A o \in Objects \ {dropped'} : Owned(o)'
  BY DEF Runs, Owned, OwnFile, Numbers
<1> QED BY <1>1, <1>2, <1>3, <1>4, <1>5 DEF Runs

\* A connection goes on, and owns and serves what it did before.
LEMMA StageRuns ==
    ASSUME TypeOK, Runs, NEW c \in Conns, NEW v, stage' = [stage EXCEPT ![c] = v],
           UNCHANGED <<descriptors, slots, epoll, loopOf, dropped, handler, stolen, up>>,
           stage[c] \in Owning <=> v \in Owning, stage[c] \in Serving <=> v \in Serving,
           v \in {"accepted", "added", "closing"} => loopOf[c] = "pool", stage[c] # "gone",
           \A l \in Loops : batch'[l] \subseteq epoll[l], Waits'
    PROVE  Runs'
<1> USE DEF descriptors
<1>0. stage'[c] = v /\ \A d \in Conns \ {c} : stage'[d] = stage[d]
  BY DEF TypeOK
<1>1. ASSUME NEW d \in Conns PROVE Staged(d)'
  <2>1. Staged(d) /\ Staged(c)
    BY DEF Runs
  <2> QED BY <2>1, <1>0 DEF Staged
<1>2. ASSUME NEW l \in Loops PROVE Registered(l)' /\ TableOf(l)'
  <2>1. Registered(l) /\ TableOf(l)
    BY DEF Runs
  <2>2. \A d \in Conns : stage[d] \in Serving <=> stage'[d] \in Serving
    BY <1>0
  <2>3. {d \in Conns : loopOf'[d] = l /\ stage'[d] \in Serving}
          = {d \in Conns : loopOf[d] = l /\ stage[d] \in Serving}
    BY <2>2
  <2>4. Registered(l)'
    BY <2>1, <2>3 DEF Registered
  <2>5. TableOf(l)'
    BY <2>1, TableStays
  <2> QED BY <2>4, <2>5
<1>3. Lasting'
  BY DEF Runs, Lasting, Numbers
<1>4. Calls'
  BY <1>0, Names DEF Runs, Calls, TypeOK
<1>5. RoomIsLeft'
  BY DEF Runs, RoomIsLeft, SpareIsOut, Exhausted, Unused, Numbers
<1>6. \A o \in Objects \ {dropped'} : Owned(o)'
  BY DEF Runs, Owned, OwnFile, Numbers
<1> QED BY <1>1, <1>2, <1>3, <1>4, <1>5, <1>6 DEF Runs

\* The last part of the invariant is about the spare alone.
LEMMA SpareStays ==
    ASSUME SpareTakesARace, failed' # "spare", impl'[Spare] = impl[Spare] \/ impl'[Spare] # Bad,
           stolen => stolen'
    PROVE  SpareTakesARace'
BY DEF SpareTakesARace

LEMMA BacklogTyped ==
    ASSUME TypeOK
    PROVE  backlog \in Seq(Conns) /\ \A i \in DOMAIN backlog : backlog[i] \in Conns
<1>1. backlog \in Seq(Conns)
  BY DEF TypeOK
<1> QED BY <1>1

LEMMA RemoveAtDrops ==
    ASSUME NEW S, NEW s \in Seq(S), NEW i \in DOMAIN s
    PROVE  /\ RemoveAt(s, i) \in Seq(S)
           /\ DOMAIN RemoveAt(s, i) = 1 .. Len(s) - 1
           /\ \A j \in 1 .. Len(s) - 1 : RemoveAt(s, i)[j] = IF j < i THEN s[j] ELSE s[j + 1]
<1> DEFINE a == SubSeq(s, 1, i - 1)
           b == SubSeq(s, i + 1, Len(s))
<1>1. i \in 1 .. Len(s) /\ Len(s) \in Nat /\ DOMAIN s = 1 .. Len(s)
  OBVIOUS
<1>2. /\ a \in Seq(S) /\ Len(a) = i - 1
      /\ \A j \in 1 .. i - 1 : a[j] = s[j]
  <2>1. \A j \in 1 .. i - 1 : s[j] \in S
    BY <1>1
  <2> QED BY <1>1, <2>1, SubSeqProperties
<1>3. /\ b \in Seq(S) /\ Len(b) = Len(s) - i
      /\ \A j \in 1 .. Len(s) - i : b[j] = s[i + j]
  <2>1. \A j \in i + 1 .. Len(s) : s[j] \in S
    BY <1>1
  <2>2. /\ b \in Seq(S) /\ Len(b) = IF i + 1 <= Len(s) THEN Len(s) - (i + 1) + 1 ELSE 0
        /\ \A j \in 1 .. Len(s) - (i + 1) + 1 : b[j] = s[i + 1 + j - 1]
    BY <1>1, <2>1, SubSeqProperties
  <2> QED BY <1>1, <2>2
<1>4. RemoveAt(s, i) = a \o b
  BY DEF RemoveAt
<1> HIDE DEF a, b
<1>5. /\ a \o b \in Seq(S) /\ Len(a \o b) = Len(s) - 1
      /\ \A j \in 1 .. Len(s) - 1 : (a \o b)[j] = IF j < i THEN a[j] ELSE b[j - (i - 1)]
  <2>1. /\ a \o b \in Seq(S) /\ Len(a \o b) = Len(a) + Len(b)
        /\ \A j \in 1 .. Len(a) + Len(b) :
              (a \o b)[j] = IF j <= Len(a) THEN a[j] ELSE b[j - Len(a)]
    BY <1>2, <1>3, ConcatProperties
  <2>2. Len(a) + Len(b) = Len(s) - 1 /\ \A j \in 1 .. Len(s) - 1 : j <= Len(a) <=> j < i
    BY <1>1, <1>2, <1>3
  <2> QED BY <2>1, <2>2, <1>2
<1>6. ASSUME NEW j \in 1 .. Len(s) - 1
      PROVE  (a \o b)[j] = IF j < i THEN s[j] ELSE s[j + 1]
  <2>1. CASE j < i
    <3>1. j \in 1 .. i - 1
      BY <2>1, <1>1
    <3> QED BY <3>1, <2>1, <1>2, <1>5
  <2>2. CASE ~(j < i)
    <3>1. j - (i - 1) \in 1 .. Len(s) - i /\ i + (j - (i - 1)) = j + 1
      BY <2>2, <1>1
    <3>2. b[j - (i - 1)] = s[j + 1]
      BY <3>1, <1>3
    <3> QED BY <3>2, <2>2, <1>5
  <2> QED BY <2>1, <2>2
<1> QED BY <1>4, <1>5, <1>6

-----------------------------------------------------------------------------
(* The steps of the loops that leave the numbers alone.                    *)

LEMMA PollKeeps ==
    ASSUME IInv, NEW l \in Loops, Poll(l)
    PROVE  IInv'
<1>1. Running /\ Runs /\ TypeOK
  BY DEF Poll, Idle, Free, IInv
<1>2. /\ UNCHANGED <<asserts, bound, up, descriptors, table, callback, peers, stolen, failed>>
      /\ batch' \in [Loops -> SUBSET Objects] /\ room' \in [Loops -> Nat \ {0}]
      /\ \A k \in Loops : batch'[k] \subseteq epoll[k]
  <2>1. PICK some \in SUBSET Ready(l) :
          /\ batch' = [batch EXCEPT ![l] = some]
          /\ room' = [room EXCEPT ![l] = IF Cardinality(some) = @ THEN 2 * @ ELSE @]
    BY DEF Poll
  <2>2. some \subseteq epoll[l] /\ some \subseteq Objects
    BY <1>1 DEF Ready, TypeOK
  <2>3. \A k \in Loops : batch[k] \subseteq epoll[k]
    BY <1>1 DEF Runs, TableOf
  <2>4. batch' \in [Loops -> SUBSET Objects] /\ \A k \in Loops : batch'[k] \subseteq epoll[k]
    BY <2>1, <2>2, <2>3, <1>1 DEF TypeOK
  <2>5. \A n \in Nat \ {0} : 2 * n \in Nat \ {0}
    OBVIOUS
  <2>6. room' \in [Loops -> Nat \ {0}]
    BY <2>1, <2>5, <1>1 DEF TypeOK
  <2> QED BY <2>4, <2>6 DEF Poll
<1>3. TypeOK'
  BY <1>1, <1>2 DEF TypeOK, DescriptorsOK, Numbers, descriptors, table, callback, peers, ends
<1>4. Runs'
  <2>1. Calls' /\ RoomIsLeft'
    BY <1>1, <1>2 DEF Runs, Calls, RoomIsLeft, SpareIsOut, Exhausted, Unused, Numbers,
                      descriptors, callback, peers
  <2> QED BY <2>1, <1>1, <1>2, QuietRuns DEF table, callback, peers
<1> QED BY <1>1, <1>2, <1>3, <1>4, SpareStays DEF IInv, Running, descriptors

LEMMA BindKeeps ==
    ASSUME IInv, Bind
    PROVE  IInv'
<1>1. Running /\ Runs /\ TypeOK
  BY DEF Bind, IInv
<1> USE DEF Bind, descriptors, table, poller, callback, peers, ends
<1>2. TypeOK'
  BY <1>1 DEF TypeOK, DescriptorsOK, Numbers
<1>3. Runs'
  <2>1. Calls' /\ RoomIsLeft'
    BY <1>1 DEF Runs, Calls, RoomIsLeft, SpareIsOut, Exhausted, Unused, Numbers
  <2>2. \A l \in Loops : batch'[l] \subseteq epoll[l]
    BY <1>1 DEF Runs, TableOf
  <2> QED BY <2>1, <2>2, <1>1, QuietRuns
<1> QED BY <1>1, <1>2, <1>3, SpareStays DEF IInv, Running

\* What a loop has taken from its batch.
LEMMA HandlesTakes ==
    ASSUME TypeOK, NEW l \in Loops, NEW ch, Handles(l, ch)
    PROVE  /\ ch \in batch[l] /\ batch' \in [Loops -> SUBSET Objects] /\ UNCHANGED room
           /\ \A k \in Loops : batch'[k] \subseteq batch[k]
           /\ ch \notin batch'[l]
BY DEF Handles, TypeOK

\* The listener's events that end the process or find nobody.
LEMMA ListenerFailsKeeps ==
    ASSUME IInv, ListenerHangsUp \/ AcceptFails
    PROVE  IInv'
<1>1. Running /\ Runs /\ TypeOK /\ "base" \in Loops
  BY DEF ListenerHangsUp, AcceptFails, Handles, Free, IInv, Loops
<1>2. /\ Handles("base", Listen) /\ failed' \in {failed, "unhandled", "accept"}
      /\ UNCHANGED <<asserts, bound, up, descriptors, table, callback, peers, stolen>>
  BY DEF ListenerHangsUp, AcceptFails
<1>3. batch' \in [Loops -> SUBSET Objects] /\ UNCHANGED room
      /\ \A k \in Loops : batch'[k] \subseteq batch[k]
  BY <1>1, <1>2, HandlesTakes
<1> USE DEF descriptors, table, callback, peers, ends
<1>4. TypeOK'
  BY <1>1, <1>2, <1>3 DEF TypeOK, DescriptorsOK, Numbers
<1>5. Runs'
  <2>1. Calls' /\ RoomIsLeft'
    BY <1>1, <1>2 DEF Runs, Calls, RoomIsLeft, SpareIsOut, Exhausted, Unused, Numbers
  <2>2. \A k \in Loops : batch'[k] \subseteq epoll[k]
    BY <1>1, <1>3 DEF Runs, TableOf
  <2> QED BY <2>1, <2>2, <1>1, <1>2, QuietRuns
<1>6. SpareTakesARace'
  BY <1>2 DEF IInv, SpareTakesARace
<1> QED BY <1>4, <1>5, <1>6 DEF IInv

LEMMA TooManyFilesKeeps ==
    ASSUME IInv, TooManyFiles
    PROVE  IInv'
<1>1. Running /\ Runs /\ TypeOK /\ "base" \in Loops /\ up = "listening"
  BY DEF TooManyFiles, Handles, Free, IInv, Loops
<1>2. batch' \in [Loops -> SUBSET Objects] /\ UNCHANGED room
      /\ \A k \in Loops : batch'[k] \subseteq batch[k]
  BY <1>1, HandlesTakes DEF TooManyFiles
<1>3. /\ handler' = "give up"
      /\ UNCHANGED <<asserts, bound, up, descriptors, table, dropped, peers, stolen, failed>>
  BY DEF TooManyFiles
<1>4. handler = "none"
  BY DEF TooManyFiles, Handles, Free
<1> USE DEF descriptors, table, callback, peers, ends
<1>5. TypeOK'
  BY <1>1, <1>2, <1>3 DEF TypeOK, DescriptorsOK, Numbers
<1>6. Runs'
  <2>1. Calls' /\ RoomIsLeft'
    BY <1>1, <1>3, <1>4 DEF Runs, Calls, RoomIsLeft, SpareIsOut
  <2>2. \A k \in Loops : batch'[k] \subseteq epoll[k]
    BY <1>1, <1>2 DEF Runs, TableOf
  <2> QED BY <2>1, <2>2, <1>1, <1>3, QuietRuns
<1> QED BY <1>1, <1>3, <1>5, <1>6, SpareStays DEF IInv, Running

\* A channel that a loop has registered is one it can update.
LEMMA EstablishTaskKeeps ==
    ASSUME IInv, EstablishTask
    PROVE  IInv'
<1>1. Running /\ Runs /\ TypeOK
  BY DEF EstablishTask, Idle, Free, IInv
<1>2. PICK c \in Conns : /\ stage[c] = "added" /\ stage' = [stage EXCEPT ![c] = "up"]
                         /\ EnableReading("pool", c)
  BY DEF EstablishTask
<1>3. UNCHANGED <<asserts, bound, up, descriptors, slots, epoll, poller, callback, loopOf,
                  backlog, ends, stolen>>
  BY DEF EstablishTask
<1> USE DEF descriptors, poller, callback, ends
<1>4. c \in epoll'["pool"]
  <2>1. Registered("pool") /\ Staged(c)
    BY <1>1 DEF Runs, Loops
  <2> QED BY <2>1, <1>2, <1>3 DEF Registered, Staged, Serving
<1>5. failed' = failed /\ reading' = reading \cup {c}
  BY <1>2, <1>4 DEF EnableReading, Update
<1>6. TypeOK'
  BY <1>1, <1>2, <1>3, <1>5, Names DEF TypeOK, DescriptorsOK, Numbers
<1>7. Runs'
  <2>1. Waits'
    <3>1. \A i \in DOMAIN backlog : backlog[i] \in Conns
      BY <1>1, BacklogTyped
    <3> QED BY <3>1, <1>1, <1>2, <1>3 DEF Runs, Waits, TypeOK
  <2>2. \A l \in Loops : batch'[l] \subseteq epoll[l]
    BY <1>1, <1>3 DEF Runs, TableOf
  <2>3. stage[c] \in Owning /\ stage[c] \in Serving /\ stage[c] # "gone"
    BY <1>2 DEF Owning, Serving
  <2>4. "up" \in Owning /\ "up" \in Serving
    BY DEF Owning, Serving
  <2> QED BY <2>1, <2>2, <2>3, <2>4, <1>1, <1>2, <1>3, StageRuns
<1> QED BY <1>1, <1>3, <1>5, <1>6, <1>7, SpareStays DEF IInv, Running

LEMMA PeerEndsKeeps ==
    ASSUME IInv, NEW c \in Conns, PeerEnds(c)
    PROVE  IInv'
<1>1. Running /\ Runs /\ TypeOK /\ stage[c] = "up" /\ stage' = [stage EXCEPT ![c] = "ended"]
  BY DEF PeerEnds, IInv
<1> USE DEF PeerEnds, descriptors, table, poller, callback, ends
<1>2. TypeOK'
  BY <1>1 DEF TypeOK, DescriptorsOK, Numbers
<1>3. Runs'
  <2>1. Waits'
    <3>1. \A i \in DOMAIN backlog : backlog[i] \in Conns
      BY <1>1, BacklogTyped
    <3> QED BY <3>1, <1>1 DEF Runs, Waits, TypeOK
  <2>2. \A l \in Loops : batch'[l] \subseteq epoll[l]
    BY <1>1 DEF Runs, TableOf
  <2>3. \A s \in {"up", "ended"} : s \in Owning /\ s \in Serving
    BY DEF Owning, Serving
  <2> QED BY <2>1, <2>2, <2>3, <1>1, StageRuns
<1> QED BY <1>1, <1>2, <1>3, SpareStays DEF IInv, Running

LEMMA PeerConnectsKeeps ==
    ASSUME IInv, NEW c \in Conns, PeerConnects(c)
    PROVE  IInv'
<1>1. /\ Running /\ Runs /\ TypeOK /\ stage[c] = "away"
      /\ stage' = [stage EXCEPT ![c] = "waiting"]
      /\ backlog' = Append(backlog, c)
  BY DEF PeerConnects, IInv
<1>2. backlog \in Seq(Conns) /\ backlog' \in Seq(Conns)
  <2>1. backlog \in Seq(Conns)
    BY <1>1, BacklogTyped
  <2> QED BY <2>1, <1>1
<1> USE DEF PeerConnects, descriptors, table, poller, callback, ends
<1>3. TypeOK'
  BY <1>1, <1>2 DEF TypeOK, DescriptorsOK, Numbers
<1>4. Runs'
  <2>1. Waits'
    <3>1. \A i \in DOMAIN backlog : backlog[i] \in Conns /\ backlog[i] # c
      BY <1>1, <1>2 DEF Runs, Waits
    <3>2. /\ DOMAIN backlog' = DOMAIN backlog \cup {Len(backlog) + 1}
          /\ backlog'[Len(backlog) + 1] = c
          /\ \A i \in DOMAIN backlog : backlog'[i] = backlog[i]
      BY <1>1, <1>2
    <3>3. stage'[c] = "waiting" /\ \A d \in Conns \ {c} : stage'[d] = stage[d]
      BY <1>1 DEF TypeOK
    <3>4. \A i \in DOMAIN backlog' : stage'[backlog'[i]] = "waiting"
      BY <3>1, <3>2, <3>3, <1>1 DEF Runs, Waits
    <3>5. \A i, j \in DOMAIN backlog' : backlog'[i] = backlog'[j] => i = j
      BY <3>1, <3>2, <1>1 DEF Runs, Waits
    <3> QED BY <3>4, <3>5 DEF Waits
  <2>2. \A l \in Loops : batch'[l] \subseteq epoll[l]
    BY <1>1 DEF Runs, TableOf
  <2>3. \A s \in {"away", "waiting"} : s \notin Owning /\ s \notin Serving
    BY DEF Owning, Serving
  <2> QED BY <2>1, <2>2, <2>3, <1>1, StageRuns
<1> QED BY <1>1, <1>3, <1>4, SpareStays DEF IInv, Running

LEMMA PeerGivesUpKeeps ==
    ASSUME IInv, NEW c \in Conns, PeerGivesUp(c)
    PROVE  IInv'
<1>1. /\ Running /\ Runs /\ TypeOK /\ stage[c] = "waiting"
      /\ stage' = [stage EXCEPT ![c] = "gone"]
  BY DEF PeerGivesUp, IInv
<1>2. PICK i \in DOMAIN backlog : backlog[i] = c /\ backlog' = RemoveAt(backlog, i)
  BY DEF PeerGivesUp
<1>3. /\ backlog \in Seq(Conns) /\ backlog' \in Seq(Conns)
      /\ DOMAIN backlog' = 1 .. Len(backlog) - 1
      /\ \A j \in 1 .. Len(backlog) - 1 : backlog'[j] = IF j < i THEN backlog[j] ELSE backlog[j + 1]
  <2> DEFINE shorter == RemoveAt(backlog, i)
  <2>1. backlog \in Seq(Conns)
    BY <1>1 DEF TypeOK
  <2>2. /\ shorter \in Seq(Conns)
        /\ DOMAIN shorter = 1 .. Len(backlog) - 1
        /\ \A j \in 1 .. Len(backlog) - 1 : shorter[j] = IF j < i THEN backlog[j] ELSE backlog[j + 1]
    BY ONLY <2>1, <1>2, RemoveAtDrops
  <2>3. backlog' = shorter
    BY ONLY <1>2
  <2> QED BY ONLY <2>1, <2>2, <2>3
<1> USE DEF PeerGivesUp, descriptors, table, poller, callback, ends
<1>4. TypeOK'
  BY <1>1, <1>3 DEF TypeOK, DescriptorsOK, Numbers
<1>5. Runs'
  <2>1. Waits'
    <3>1. DOMAIN backlog = 1 .. Len(backlog) /\ Len(backlog) \in Nat /\ i \in 1 .. Len(backlog)
      BY <1>3
    <3>2. \A j, k \in 1 .. Len(backlog) : backlog[j] = backlog[k] => j = k
      BY <3>1, <1>1 DEF Runs, Waits
    <3>3. \A j \in 1 .. Len(backlog) : stage[backlog[j]] = "waiting" /\ backlog[j] \in Conns
      BY <3>1, <1>1, <1>3 DEF Runs, Waits
    <3>4. ASSUME NEW j \in 1 .. Len(backlog) - 1
          PROVE  \E k \in 1 .. Len(backlog) \ {i} :
                    backlog'[j] = backlog[k] /\ k = IF j < i THEN j ELSE j + 1
      BY <1>3, <3>1
    <3>5. \A j \in DOMAIN backlog' : stage'[backlog'[j]] = "waiting"
      <4> TAKE j \in DOMAIN backlog'
      <4>1. PICK k \in 1 .. Len(backlog) \ {i} : backlog'[j] = backlog[k]
        BY <3>4, <1>3
      <4>2. backlog[k] # c
        BY <4>1, <3>1, <3>2, <1>2
      <4> QED BY <4>1, <4>2, <3>3, <1>1 DEF TypeOK
    <3>6. \A j, k \in DOMAIN backlog' : backlog'[j] = backlog'[k] => j = k
      <4> SUFFICES ASSUME NEW j \in 1 .. Len(backlog) - 1, NEW k \in 1 .. Len(backlog) - 1,
                          backlog'[j] = backlog'[k]
                   PROVE  j = k
        BY <1>3
      <4>1. PICK p \in 1 .. Len(backlog) \ {i} :
                backlog'[j] = backlog[p] /\ p = IF j < i THEN j ELSE j + 1
        BY <3>4
      <4>2. PICK q \in 1 .. Len(backlog) \ {i} :
                backlog'[k] = backlog[q] /\ q = IF k < i THEN k ELSE k + 1
        BY <3>4
      <4>3. p = q
        BY <4>1, <4>2, <3>2
      <4> QED BY <4>1, <4>2, <4>3, <3>1
    <3> QED BY <3>5, <3>6 DEF Waits
  <2>2. \A l \in Loops : batch'[l] \subseteq epoll[l]
    BY <1>1 DEF Runs, TableOf
  <2>3. \A s \in {"waiting", "gone"} : s \notin Owning /\ s \notin Serving
    BY DEF Owning, Serving
  <2> QED BY <2>1, <2>2, <2>3, <1>1, StageRuns
<1> QED BY <1>1, <1>4, <1>5, SpareStays DEF IInv, Running

-----------------------------------------------------------------------------
(* The steps that change tables.                                           *)

LEMMA StartListenKeeps ==
    ASSUME IInv, StartListen
    PROVE  IInv'
<1>1. Running /\ Runs /\ TypeOK /\ Tables /\ up = "bound" /\ "base" \in Loops
  BY TypesOfTables DEF StartListen, Idle, Free, IInv, Loops
<1>2. /\ up' \in Listened /\ Add("base", Listen) /\ EnableReading("base", Listen)
      /\ UNCHANGED <<asserts, bound, descriptors, poller, callback, peers, stolen>>
  BY DEF StartListen
<1>3. \A l \in Loops : Registered(l) /\ TableOf(l)
  BY <1>1 DEF Runs
<1> USE DEF descriptors, poller, callback, peers, ends
<1>4. Listen \notin epoll["base"] /\ impl'[Listen] \in Numbers
  <2>1. impl[Listen] \in Numbers
    BY <1>1 DEF Runs, Lasting
  <2>2. up \notin Listened
    BY <1>1 DEF Listened
  <2> QED BY <2>1, <2>2, <1>1, <1>2, <1>3, Names DEF Registered
<1>5. /\ Tables' /\ TableOf("base")' /\ epoll'["base"] = epoll["base"] \cup {Listen}
      /\ \A k \in Loops \ {"base"} : slots'[k] = slots[k] /\ epoll'[k] = epoll[k]
  BY <1>1, <1>2, <1>3, <1>4, AddEnters, Names
<1>6. failed' = failed /\ reading' \subseteq Objects
  <2>1. reading \subseteq Objects
    BY <1>1 DEF TypeOK
  <2> QED BY <2>1, <1>2, <1>5, Names DEF EnableReading, Update
<1>7. TypeOK'
  <2>1. TypeOK
    BY <1>1
  <2> QED BY <2>1, <1>2, <1>5, <1>6, TypesOfTables DEF TypeOK, DescriptorsOK, Numbers, Tables, IsTable
<1>8. Runs'
  <2>1. \A c \in Conns : Staged(c)'
    BY <1>1, <1>2 DEF Runs, Staged
  <2>2. Waits'
    BY <1>1, <1>2 DEF Runs, Waits
  <2>3. ASSUME NEW l \in Loops PROVE Registered(l)' /\ TableOf(l)'
    <3>1. CASE l = "base"
      BY <3>1, <1>1, <1>2, <1>3, <1>5 DEF Registered, Listened
    <3>2. CASE l # "base"
      <4>1. Registered(l)'
        BY <3>2, <1>2, <1>3, <1>5 DEF Registered
      <4>2. TableOf(l) /\ batch'[l] \subseteq epoll[l]
        BY <1>2, <1>3 DEF TableOf
      <4>3. TableOf(l)'
        BY <4>2, <3>2, <1>1, <1>2, <1>5, TableStays
      <4> QED BY <4>1, <4>3
    <3> QED BY <3>1, <3>2
  <2>4. Lasting'
    BY <1>1, <1>2 DEF Runs, Lasting, Numbers
  <2>5. Calls' /\ RoomIsLeft'
    BY <1>1, <1>2 DEF Runs, Calls, RoomIsLeft, SpareIsOut, Exhausted, Unused, Numbers
  <2>6. \A o \in Objects \ {dropped'} : Owned(o)'
    BY <1>1, <1>2 DEF Runs, Owned, OwnFile, Numbers
  <2> QED BY <2>1, <2>2, <2>3, <2>4, <2>5, <2>6 DEF Runs
<1>9. SpareTakesARace'
  BY <1>2, <1>6 DEF IInv, SpareTakesARace
<1> QED BY <1>6, <1>7, <1>8, <1>9 DEF IInv

LEMMA AddTaskKeeps ==
    ASSUME IInv, AddTask
    PROVE  IInv'
<1>1. Running /\ Runs /\ TypeOK /\ Tables /\ "pool" \in Loops
  BY TypesOfTables DEF AddTask, Idle, Free, IInv, Loops
<1>2. PICK c \in Conns : /\ stage[c] = "accepted" /\ stage' = [stage EXCEPT ![c] = "added"]
                         /\ UNCHANGED descriptors
                         /\ Add("pool", c)
  BY DEF AddTask
<1>3. UNCHANGED <<asserts, bound, up, reading, poller, callback, loopOf, backlog, ends, stolen,
                  failed>>
  BY DEF AddTask
<1>4. \A l \in Loops : Registered(l) /\ TableOf(l)
  BY <1>1 DEF Runs
<1>5. Staged(c) /\ c \in Objects /\ loopOf[c] = "pool"
  BY <1>1, <1>2, Names DEF Runs, Staged
<1> USE DEF descriptors, poller, callback, ends
<1>6. c \notin epoll["pool"]
  BY <1>1, <1>2, <1>4, Names DEF Registered, Serving
<1>7. impl'[c] \in Numbers
  <2>1. impl[c] # None /\ impl[c] # Bad
    BY <1>2, <1>5 DEF Staged, Owning
  <2> QED BY <2>1, <1>1, <1>2, <1>5 DEF TypeOK, DescriptorsOK
<1>8. /\ Tables' /\ TableOf("pool")' /\ epoll'["pool"] = epoll["pool"] \cup {c}
      /\ \A k \in Loops \ {"pool"} : slots'[k] = slots[k] /\ epoll'[k] = epoll[k]
  BY <1>1, <1>2, <1>3, <1>4, <1>5, <1>6, <1>7, AddEnters
<1>9. stage'[c] = "added" /\ \A d \in Conns \ {c} : stage'[d] = stage[d]
  BY <1>1, <1>2 DEF TypeOK
<1>10. TypeOK'
  <2>1. stage' \in [Conns -> {"away", "waiting", "accepted", "added", "up", "ended", "closing",
                             "cancelled", "gone"}]
    BY <1>1, <1>2 DEF TypeOK
  <2> QED BY <2>1, <1>1, <1>2, <1>3, <1>8 DEF TypeOK, DescriptorsOK, Numbers, Tables, IsTable
<1>11. Runs'
  <2>1. ASSUME NEW d \in Conns PROVE Staged(d)'
    <3>1. Staged(d)
      BY <1>1 DEF Runs
    <3> QED BY <3>1, <1>2, <1>3, <1>5, <1>9 DEF Staged, Owning
  <2>2. Waits'
    <3>1. \A i \in DOMAIN backlog : backlog[i] \in Conns
      BY <1>1, BacklogTyped
    <3> QED BY <3>1, <1>1, <1>2, <1>3, <1>9 DEF Runs, Waits
  <2>3. ASSUME NEW l \in Loops PROVE Registered(l)' /\ TableOf(l)'
    <3>1. CASE l = "pool"
      <4>1. {d \in Conns : loopOf'[d] = l /\ stage'[d] \in Serving}
              = {d \in Conns : loopOf[d] = l /\ stage[d] \in Serving} \cup {c}
        BY <3>1, <1>3, <1>5, <1>9 DEF Serving
      <4>2. Registered(l)'
        BY <4>1, <3>1, <1>3, <1>4, <1>8 DEF Registered
      <4> QED BY <4>2, <3>1, <1>8
    <3>2. CASE l # "pool"
      <4>1. {d \in Conns : loopOf'[d] = l /\ stage'[d] \in Serving}
              = {d \in Conns : loopOf[d] = l /\ stage[d] \in Serving}
        BY <3>2, <1>3, <1>5, <1>9
      <4>2. Registered(l)'
        BY <4>1, <3>2, <1>3, <1>4, <1>8 DEF Registered
      <4>3. TableOf(l) /\ batch'[l] \subseteq epoll[l]
        BY <1>3, <1>4 DEF TableOf
      <4>4. TableOf(l)'
        BY <4>3, <3>2, <1>2, <1>3, <1>8, TableStays
      <4> QED BY <4>2, <4>4
    <3> QED BY <3>1, <3>2
  <2>4. Lasting'
    BY <1>1, <1>2, <1>3 DEF Runs, Lasting, Numbers
  <2>5. Calls' /\ RoomIsLeft'
    <3>1. dropped # None => stage'[dropped] = "gone"
      <4>1. dropped # None => dropped \in Conns /\ stage[dropped] = "gone"
        BY <1>1 DEF Runs, Calls, TypeOK
      <4> QED BY <4>1, <1>2, <1>9
    <3> QED BY <3>1, <1>1, <1>2, <1>3 DEF Runs, Calls, RoomIsLeft, SpareIsOut, Exhausted, Unused, Numbers
  <2>6. \A o \in Objects \ {dropped'} : Owned(o)'
    BY <1>1, <1>2, <1>3 DEF Runs, Owned, OwnFile, Numbers
  <2> QED BY <2>1, <2>2, <2>3, <2>4, <2>5, <2>6 DEF Runs
<1> QED BY <1>1, <1>2, <1>3, <1>10, <1>11, SpareStays DEF IInv, Running

\* The end of a connection, on its own loop.
LEMMA CancelKeeps ==
    ASSUME IInv, Running, NEW l \in Loops, NEW c \in Conns, c \in epoll[l], Cancel(l, c),
           stage' = [stage EXCEPT ![c] = "cancelled"],
           UNCHANGED <<up, descriptors, callback, loopOf, backlog, stolen, room>>,
           reports' \in [Conns -> Nat], erases' \in [Conns -> Nat], destroys' \in [Conns -> Nat],
           batch' \in [Loops -> SUBSET Objects],
           \A k \in Loops : batch'[k] \subseteq batch[k], c \notin batch'[l]
    PROVE  IInv'
<1>1. Runs /\ TypeOK /\ Tables /\ c \in Objects
  BY TypesOfTables, Names DEF IInv
<1>2. \A k \in Loops : Registered(k) /\ TableOf(k)
  BY <1>1 DEF Runs
<1> USE DEF descriptors, callback
<1>3. loopOf[c] = l /\ stage[c] \in Serving
  BY <1>2, Names DEF Registered
<1>4. /\ Tables' /\ TableOf(l)' /\ failed' = failed /\ epoll'[l] = epoll[l] \ {c}
      /\ \A k \in Loops \ {l} : slots'[k] = slots[k] /\ epoll'[k] = epoll[k]
  BY <1>1, <1>2, CancelRemoves
<1>5. stage'[c] = "cancelled" /\ \A d \in Conns \ {c} : stage'[d] = stage[d]
  BY <1>1 DEF TypeOK
<1>6. TypeOK'
  <2>1. stage' \in [Conns -> {"away", "waiting", "accepted", "added", "up", "ended", "closing",
                             "cancelled", "gone"}]
    BY <1>1 DEF TypeOK
  <2>2. reading' \subseteq Objects
    BY <1>1 DEF TypeOK, Cancel
  <2> QED BY <2>1, <2>2, <1>1, <1>4 DEF TypeOK, DescriptorsOK, Numbers, Tables, IsTable
<1>7. Runs'
  <2>1. ASSUME NEW d \in Conns PROVE Staged(d)'
    <3>1. Staged(d)
      BY <1>1 DEF Runs
    <3>2. CASE d = c
      BY <3>1, <3>2, <1>3, <1>5 DEF Staged, Owning, Serving
    <3>3. CASE d # c
      BY <3>1, <3>3, <1>5 DEF Staged
    <3> QED BY <3>2, <3>3
  <2>2. Waits'
    <3>1. \A i \in DOMAIN backlog : backlog[i] \in Conns
      BY <1>1, BacklogTyped
    <3> QED BY <3>1, <1>1, <1>3, <1>5 DEF Runs, Waits, Serving
  <2>3. ASSUME NEW k \in Loops PROVE Registered(k)' /\ TableOf(k)'
    <3>1. CASE k = l
      <4>1. {d \in Conns : loopOf'[d] = k /\ stage'[d] \in Serving}
              = {d \in Conns : loopOf[d] = k /\ stage[d] \in Serving} \ {c}
        BY <1>3, <1>5 DEF Serving
      <4>2. c \notin Loops /\ c # Listen
        BY Names
      <4>3. Registered(k)'
        BY <4>1, <4>2, <3>1, <1>2, <1>4 DEF Registered
      <4> QED BY <4>3, <3>1, <1>4
    <3>2. CASE k # l
      <4>1. {d \in Conns : loopOf'[d] = k /\ stage'[d] \in Serving}
              = {d \in Conns : loopOf[d] = k /\ stage[d] \in Serving}
        BY <3>2, <1>3, <1>5
      <4>2. Registered(k)'
        BY <4>1, <3>2, <1>2, <1>4 DEF Registered
      <4>3. TableOf(k) /\ batch'[k] \subseteq epoll[k]
        BY <1>2 DEF TableOf
      <4>4. TableOf(k)'
        BY <4>3, <3>2, <1>4, TableStays
      <4> QED BY <4>2, <4>4
    <3> QED BY <3>1, <3>2
  <2>4. Lasting'
    BY <1>1 DEF Runs, Lasting, Numbers
  <2>5. Calls' /\ RoomIsLeft'
    <3>1. dropped # None => stage'[dropped] = "gone"
      <4>1. dropped # None => dropped \in Conns /\ stage[dropped] = "gone"
        BY <1>1 DEF Runs, Calls, TypeOK
      <4> QED BY <4>1, <1>3, <1>5 DEF Serving
    <3> QED BY <3>1, <1>1 DEF Runs, Calls, RoomIsLeft, SpareIsOut, Exhausted, Unused, Numbers
  <2>6. \A o \in Objects \ {dropped'} : Owned(o)'
    BY <1>1 DEF Runs, Owned, OwnFile, Numbers
  <2> QED BY <2>1, <2>2, <2>3, <2>4, <2>5, <2>6 DEF Runs
<1>8. SpareTakesARace'
  BY <1>4 DEF IInv, SpareTakesARace
<1> QED BY <1>4, <1>6, <1>7, <1>8 DEF IInv

LEMMA AgainCounts ==
    ASSUME NEW count \in [Conns -> Nat], NEW c \in Conns, NEW n \in Nat
    PROVE  /\ Again(count, c, n) \in [Conns -> Nat]
           /\ Again(count, c, n)[c] = count[c] + n
           /\ \A d \in Conns \ {c} : Again(count, c, n)[d] = count[d]
BY DEF Again

LEMMA HandleEndKeeps ==
    ASSUME IInv, NEW l \in Loops, NEW c \in Conns, HandleEnd(l, c)
    PROVE  IInv'
<1>1. Running /\ Runs /\ TypeOK
  BY DEF HandleEnd, Handles, Free, IInv
<1>2. /\ c \in batch[l] /\ batch' \in [Loops -> SUBSET Objects] /\ UNCHANGED room
      /\ \A k \in Loops : batch'[k] \subseteq batch[k]
      /\ c \notin batch'[l]
  BY <1>1, HandlesTakes DEF HandleEnd
<1>3. UNCHANGED <<asserts, bound, up, descriptors, callback, loopOf, backlog, stolen>>
  BY DEF HandleEnd
<1>4. \A k \in Loops : Registered(k) /\ batch[k] \subseteq epoll[k]
  BY <1>1 DEF Runs, TableOf
<1>5. PICK calls \in {1, 2} :
        /\ reports' = Again(reports, c, calls)
        /\ \/ /\ l = "base" /\ Cancel(l, c) /\ stage' = [stage EXCEPT ![c] = "cancelled"]
              /\ erases' = Again(erases, c, 1) /\ destroys' = Again(destroys, c, 1)
           \/ /\ failed' \in {"removed", "epoll"}
              /\ UNCHANGED <<table, stage, erases, destroys>>
           \/ /\ l = "pool" /\ stage' = [stage EXCEPT ![c] = "closing"]
              /\ UNCHANGED <<table, erases, destroys, failed>>
  BY DEF HandleEnd
<1>6. reports' \in [Conns -> Nat]
  BY <1>1, <1>5, AgainCounts DEF TypeOK
<1>7. CASE /\ l = "base" /\ Cancel(l, c) /\ stage' = [stage EXCEPT ![c] = "cancelled"]
           /\ erases' = Again(erases, c, 1) /\ destroys' = Again(destroys, c, 1)
  <2>1. erases' \in [Conns -> Nat] /\ destroys' \in [Conns -> Nat]
    BY <1>1, <1>7, AgainCounts DEF TypeOK
  <2> QED BY <2>1, <1>1, <1>2, <1>3, <1>4, <1>6, <1>7, CancelKeeps
<1>8. CASE failed' \in {"removed", "epoll"} /\ UNCHANGED <<table, stage, erases, destroys>>
  <2> USE DEF descriptors, table, callback
  <2>1. TypeOK'
    BY <1>1, <1>2, <1>3, <1>6, <1>8 DEF TypeOK, DescriptorsOK, Numbers
  <2> QED BY <2>1, <1>3, <1>8 DEF IInv, Running, SpareTakesARace
<1>9. CASE /\ l = "pool" /\ stage' = [stage EXCEPT ![c] = "closing"]
           /\ UNCHANGED <<table, erases, destroys, failed>>
  <2> USE DEF descriptors, table, callback
  <2>1. loopOf[c] = l /\ stage[c] \in Serving
    BY <1>2, <1>4, Names DEF Registered
  <2>2. TypeOK'
    BY <1>1, <1>2, <1>3, <1>6, <1>9 DEF TypeOK, DescriptorsOK, Numbers
  <2>3. Runs'
    <3>1. Waits'
      <4>1. \A i \in DOMAIN backlog : backlog[i] \in Conns
        BY <1>1, BacklogTyped
      <4> QED BY <4>1, <2>1, <1>1, <1>3, <1>9 DEF Runs, Waits, TypeOK, Serving
    <3>2. \A k \in Loops : batch'[k] \subseteq epoll[k]
      BY <1>2, <1>4
    <3>3. stage[c] \in Owning /\ stage[c] # "gone" /\ "closing" \in Owning /\ "closing" \in Serving
      BY <2>1 DEF Owning, Serving
    <3> QED BY <3>1, <3>2, <3>3, <2>1, <1>1, <1>3, <1>9, StageRuns
  <2> QED BY <2>2, <2>3, <1>1, <1>3, <1>9, SpareStays DEF IInv, Running
<1> QED BY <1>5, <1>7, <1>8, <1>9

\* The task of removeConnection leaves all but its count alone.
LEMMA RemoveTaskKeeps ==
    ASSUME IInv, RemoveTask
    PROVE  IInv'
<1>1. Running /\ Runs /\ TypeOK
  BY DEF RemoveTask, Idle, Free, IInv
<1>2. UNCHANGED <<asserts, bound, up, descriptors, table, poller, callback, stage, loopOf,
                  backlog, reports, destroys, stolen>>
  BY DEF RemoveTask
<1>3. erases' \in [Conns -> Nat] /\ failed' \in {failed, "removed"}
  <2>1. PICK c \in Conns : /\ erases' = Again(erases, c, 1)
                           /\ failed' = IF erases[c] > 0 /\ asserts THEN "removed" ELSE failed
    BY DEF RemoveTask
  <2>2. erases \in [Conns -> Nat]
    BY <1>1 DEF TypeOK
  <2>3. erases' \in [Conns -> Nat]
    BY ONLY <2>1, <2>2, AgainCounts
  <2> QED BY ONLY <2>1, <2>3
<1> USE DEF descriptors, table, poller, callback
<1>4. TypeOK'
  BY <1>1, <1>2, <1>3 DEF TypeOK, DescriptorsOK, Numbers
<1>5. Runs'
  <2>1. Calls' /\ RoomIsLeft'
    BY <1>1, <1>2 DEF Runs, Calls, RoomIsLeft, SpareIsOut, Exhausted, Unused, Numbers
  <2>2. \A l \in Loops : batch'[l] \subseteq epoll[l]
    BY <1>1, <1>2 DEF Runs, TableOf
  <2> QED BY <2>1, <2>2, <1>1, <1>2, QuietRuns
<1>6. SpareTakesARace'
  BY <1>2, <1>3 DEF IInv, SpareTakesARace
<1> QED BY <1>4, <1>5, <1>6 DEF IInv

\* Either epoll knows the channel, or the process ends.
LEMMA DestroyTaskKeeps ==
    ASSUME IInv, DestroyTask
    PROVE  IInv'
<1>1. Running /\ Runs /\ TypeOK /\ Tables /\ batch["pool"] = {} /\ "pool" \in Loops
  BY TypesOfTables DEF DestroyTask, Idle, Free, IInv, Loops
<1>2. PICK c \in Conns : /\ destroys' = Again(destroys, c, 1) /\ Cancel("pool", c)
                         /\ stage' = [stage EXCEPT ![c] = "cancelled"]
  BY DEF DestroyTask
<1>3. /\ UNCHANGED <<asserts, bound, up, descriptors, poller, callback, loopOf, backlog, stolen>>
      /\ UNCHANGED <<reports, erases>>
  BY DEF DestroyTask
<1>4. destroys' \in [Conns -> Nat]
  BY <1>1, <1>2, AgainCounts DEF TypeOK
<1>5. /\ batch' \in [Loops -> SUBSET Objects] /\ UNCHANGED room
      /\ \A k \in Loops : batch'[k] \subseteq batch[k]
      /\ c \notin batch'["pool"]
  BY <1>1, <1>3 DEF TypeOK, poller
<1>6. CASE c \in epoll["pool"]
  <2>1. /\ reports' \in [Conns -> Nat] /\ erases' \in [Conns -> Nat]
        /\ UNCHANGED <<up, descriptors, callback, loopOf, backlog, stolen, room>>
    BY <1>1, <1>3, <1>5 DEF TypeOK
  <2> QED BY ONLY <2>1, <1>1, <1>2, <1>4, <1>5, <1>6, CancelKeeps, IInv
<1>7. CASE c \notin epoll["pool"]
  <2> USE DEF descriptors, poller, callback
  <2>1. failed' = "epoll" /\ slots' = [slots EXCEPT !["pool"][impl[c]] = None]
        /\ epoll' = [epoll EXCEPT !["pool"] = @ \ {c}] /\ reading' = reading \ {c}
    BY <1>2, <1>7 DEF Cancel, Update
  <2>2. Tables'
    <3>1. IsTable(slots["pool"]) /\ DOMAIN slots = Loops
      BY <1>1 DEF Tables
    <3>2. PICK s : s = [slots["pool"] EXCEPT ![impl[c]] = None]
      OBVIOUS
    <3>3. IsTable(s)
      BY <3>1, <3>2 DEF IsTable
    <3>4. slots'["pool"] = s /\ \A k \in Loops \ {"pool"} : slots'[k] = slots[k]
      BY <3>1, <3>2, <2>1, <1>1
    <3>5. slots' = [k \in Loops |-> slots'[k]]
      BY <3>1, <2>1
    <3>6. epoll' \in [Loops -> SUBSET Objects]
      BY <2>1, <1>1 DEF Tables
    <3> QED BY <3>3, <3>4, <3>5, <3>6, <1>1 DEF Tables, IsTable
  <2>3. stage' \in [Conns -> {"away", "waiting", "accepted", "added", "up", "ended", "closing",
                             "cancelled", "gone"}]
    BY <1>1, <1>2 DEF TypeOK
  <2>4. TypeOK'
    BY <2>1, <2>2, <2>3, <1>1, <1>3, <1>4 DEF TypeOK, DescriptorsOK, Numbers, Tables, IsTable
  <2> QED BY <2>1, <2>4, <1>3 DEF IInv, Running, SpareTakesARace
<1> QED BY <1>6, <1>7

-----------------------------------------------------------------------------
(* The steps that open and close.                                          *)

LEMMA DestructKeeps ==
    ASSUME IInv, NEW c \in Conns, Destruct(c)
    PROVE  IInv'
<1>1. /\ Running /\ Runs /\ TypeOK /\ c \in Objects /\ Closes(c)
      /\ stage[c] = "cancelled" /\ stage' = [stage EXCEPT ![c] = "gone"]
      /\ UNCHANGED <<asserts, bound, up, table, poller, callback, loopOf, backlog, ends, stolen,
                     failed>>
  BY Names DEF Destruct, IInv
<1> USE DEF table, poller, callback, ends
<1>2. c # dropped /\ (dropped # None => dropped \in Conns /\ stage[dropped] = "gone")
  <2>1. dropped # None => stage[dropped] = "gone"
    BY <1>1 DEF Runs, Calls
  <2>2. dropped \in Conns \cup {None}
    BY <1>1 DEF TypeOK
  <2>3. c # None
    BY Names
  <2>4. c # dropped
    BY ONLY <2>1, <2>3, <1>1
  <2> QED BY ONLY <2>1, <2>2, <2>4
<1>3. \A l \in Loops : Registered(l) /\ TableOf(l) /\ c \notin epoll[l] /\ epoll[l] \subseteq Objects
  <2>1. \A l \in Loops : Registered(l) /\ TableOf(l)
    BY <1>1 DEF Runs
  <2>2. \A l \in Loops : epoll[l] \subseteq Objects
    <3>1. epoll \in [Loops -> SUBSET Objects]
      BY <1>1 DEF TypeOK
    <3> QED BY ONLY <3>1
  <2>3. stage[c] \notin Serving /\ c \notin Loops /\ c # Listen
    BY <1>1, Names DEF Serving
  <2>4. ASSUME NEW l \in Loops PROVE c \notin epoll[l]
    <3>1. epoll[l] = {l} \cup {ch \in {Listen} : l = "base" /\ up \in Listened}
                         \cup {d \in Conns : loopOf[d] = l /\ stage[d] \in Serving}
      BY <2>1 DEF Registered
    <3> QED BY ONLY <2>3, <2>4, <3>1
  <2> QED BY ONLY <2>1, <2>2, <2>4
<1>4. /\ DescriptorsOK' /\ impl'[c] = None
      /\ \A p \in Objects \ {c} : impl'[p] = impl[p]
      /\ \A n \in Numbers : files'[n] = files[n] \/ (n = impl[c] /\ files'[n] = None)
      /\ \A p \in Objects \ {dropped} : Owned(p)'
  BY <1>1, <1>2, ClosesTakes DEF Runs, TypeOK
<1>5. stage'[c] = "gone" /\ \A d \in Conns \ {c} : stage'[d] = stage[d]
  BY <1>1 DEF TypeOK
<1>6. TypeOK'
  BY <1>1, <1>4 DEF TypeOK
<1>7. Runs'
  <2>1. ASSUME NEW d \in Conns PROVE Staged(d)'
    <3>1. Staged(d) /\ d \in Objects
      BY <1>1, Names DEF Runs
    <3> QED BY <3>1, <1>1, <1>4, <1>5, Names DEF Staged, Owning
  <2>2. Waits'
    <3>1. \A i \in DOMAIN backlog : backlog[i] \in Conns
      BY <1>1, BacklogTyped
    <3> QED BY <3>1, <1>1, <1>5 DEF Runs, Waits
  <2>3. ASSUME NEW l \in Loops PROVE Registered(l)' /\ TableOf(l)'
    <3>1. {d \in Conns : loopOf'[d] = l /\ stage'[d] \in Serving}
            = {d \in Conns : loopOf[d] = l /\ stage[d] \in Serving}
      BY <1>1, <1>5 DEF Serving
    <3>2. Registered(l)'
      BY <3>1, <1>1, <1>3 DEF Registered
    <3>3. batch'[l] \subseteq epoll[l] /\ \A ch \in epoll[l] : impl'[ch] = impl[ch]
      BY <1>1, <1>3, <1>4 DEF TableOf
    <3>4. TableOf(l)'
      BY <3>3, <1>1, <1>3, TableStays
    <3> QED BY <3>2, <3>4
  <2>4. Lasting'
    BY <1>1, <1>4, Names DEF Runs, Lasting, Numbers
  <2>5. Calls'
    BY <1>1, <1>2, <1>4, <1>5, Names DEF Runs, Calls
  <2>6. RoomIsLeft'
    <3>1. ~Exhausted => ~Exhausted'
      BY <1>4 DEF Exhausted, Unused, Numbers
    <3>2. ASSUME NEW n \in Numbers, files[n] = dropped, dropped # None PROVE files'[n] = dropped
      <4>1. Owned(c)
        BY <1>1, <1>2 DEF Runs
      <4>2. n # impl[c]
        BY <4>1, <3>2, <1>2 DEF Owned, OwnFile
      <4> QED BY <4>2, <3>2, <1>4
    <3> QED BY <3>1, <3>2, <1>1 DEF Runs, RoomIsLeft, SpareIsOut, Numbers, Closes
  <2>7. \A o \in Objects \ {dropped'} : Owned(o)'
    BY <1>1, <1>4
  <2> QED BY <2>1, <2>2, <2>3, <2>4, <2>5, <2>6, <2>7 DEF Runs
<1>8. impl'[Spare] = impl[Spare]
  BY <1>4, Names
<1> QED BY <1>1, <1>6, <1>7, <1>8, SpareStays DEF IInv, Running

LEMMA GiveUpSpareKeeps ==
    ASSUME IInv, GiveUpSpare
    PROVE  IInv'
<1>1. /\ Running /\ Runs /\ TypeOK /\ Closes(Spare) /\ handler = "give up" /\ handler' = "accept"
      /\ stolen' = (stolen \/ scarce)
      /\ UNCHANGED <<asserts, bound, up, table, poller, dropped, peers, failed>>
  BY DEF GiveUpSpare, Callback, IInv
<1> USE DEF table, poller, peers, ends
<1>2. dropped = None
  BY <1>1 DEF Runs, Calls
<1>3. /\ DescriptorsOK' /\ impl'[Spare] = None
      /\ \A p \in Objects \ {Spare} : impl'[p] = impl[p]
      /\ impl[Spare] \in Numbers => files'[impl[Spare]] = None
      /\ \A p \in Objects \ {dropped} : Owned(p)'
  <2>1. DescriptorsOK /\ \A p \in Objects \ {dropped} : Owned(p)
    BY <1>1 DEF Runs, TypeOK
  <2>2. Spare \in Objects /\ Spare # dropped
    BY <1>2, Names
  <2> QED BY ONLY <1>1, <2>1, <2>2, ClosesTakes
<1>4. TypeOK'
  BY <1>1, <1>3 DEF TypeOK
<1>5. Runs'
  <2>1. \A d \in Conns : Staged(d)'
    BY <1>1, <1>3, Names DEF Runs, Staged
  <2>2. Waits'
    BY <1>1 DEF Runs, Waits
  <2>3. ASSUME NEW l \in Loops PROVE Registered(l)' /\ TableOf(l)'
    <3>1. Registered(l) /\ TableOf(l) /\ epoll[l] \subseteq Objects
      BY <1>1 DEF Runs, TypeOK
    <3>2. Spare \notin epoll[l]
      BY <3>1, Names DEF Registered
    <3>3. batch'[l] \subseteq epoll[l] /\ \A ch \in epoll[l] : impl'[ch] = impl[ch]
      BY <3>1, <3>2, <1>1, <1>3 DEF TableOf
    <3>4. TableOf(l)'
      BY <3>1, <3>3, <1>1, TableStays
    <3> QED BY <3>1, <3>4, <1>1 DEF Registered
  <2>4. Lasting'
    BY <1>1, <1>3, Names DEF Runs, Lasting, Numbers
  <2>5. Calls'
    BY <1>1, <1>2, <1>3 DEF Runs, Calls
  <2>6. RoomIsLeft'
    <3>1. CASE impl[Spare] \in Numbers
      BY <3>1, <1>1, <1>3 DEF RoomIsLeft, SpareIsOut, Exhausted, Unused, Numbers, Closes
    <3>2. CASE impl[Spare] = Bad
      BY <3>2, <1>1 DEF IInv, SpareTakesARace, RoomIsLeft, SpareIsOut
    <3> QED BY <3>1, <3>2, <1>1, Names DEF Closes, TypeOK, DescriptorsOK
  <2>7. \A o \in Objects \ {dropped'} : Owned(o)'
    BY <1>1, <1>3
  <2> QED BY <2>1, <2>2, <2>3, <2>4, <2>5, <2>6, <2>7 DEF Runs
<1> QED BY <1>1, <1>3, <1>4, <1>5, SpareStays, Names DEF IInv, Running

\* What the callback accepts has a file and no object.
LEMMA AcceptToDropKeeps ==
    ASSUME IInv, AcceptToDrop
    PROVE  IInv'
<1>1. /\ Running /\ Runs /\ TypeOK /\ handler = "accept" /\ handler' = "drop"
      /\ UNCHANGED <<asserts, bound, up, impl, scarce, table, poller, loopOf, ends, stolen, failed>>
  BY DEF AcceptToDrop, Callback, IInv
<1> USE DEF table, poller, ends
<1>2. /\ dropped = None /\ up = "listening" /\ impl[Spare] = None
      /\ \A o \in Objects : Owned(o)
      /\ files \in [Numbers -> Objects \cup Others \cup {None}]
      /\ RoomIsLeft
  BY <1>1, Names DEF Runs, Calls, TypeOK, DescriptorsOK
<1>3. CASE (~CanOpen \/ backlog = <<>>) /\ dropped' = None /\ UNCHANGED <<files, stage, backlog>>
  <2>1. TypeOK'
    BY <1>1, <1>3 DEF TypeOK, DescriptorsOK, Numbers
  <2>2. Runs'
    <3>1. Calls' /\ RoomIsLeft'
      BY <1>1, <1>2, <1>3 DEF Runs, Calls, RoomIsLeft, SpareIsOut, Exhausted, Unused, Numbers
    <3>2. \A l \in Loops : batch'[l] \subseteq epoll[l]
      BY <1>1 DEF Runs, TableOf
    <3> QED BY <3>1, <3>2, <1>1, <1>2, <1>3, QuietRuns DEF descriptors, peers, ends
  <2> QED BY <2>1, <2>2, <1>1, SpareStays DEF IInv, Running
<1>4. CASE ~(~CanOpen \/ backlog = <<>>)
  <2>1. backlog \in Seq(Conns) /\ backlog # <<>>
    BY <1>1, <1>4, BacklogTyped
  <2>2. PICK c \in Conns : c = Head(backlog) /\ c = backlog[1]
    BY <2>1
  <2>3. PICK n \in Numbers : n = Lowest /\ files[n] = None
    BY <1>4, LowestIsUnused DEF CanOpen
  <2>4. /\ dropped' = c /\ files' = [files EXCEPT ![n] = c]
        /\ backlog' = Tail(backlog) /\ stage' = [stage EXCEPT ![c] = "gone"]
    BY <1>4, <2>2, <2>3 DEF AcceptToDrop
  <2>5. /\ backlog' \in Seq(Conns) /\ DOMAIN backlog' = 1 .. Len(backlog) - 1
        /\ \A i \in 1 .. Len(backlog) - 1 : i + 1 \in DOMAIN backlog /\ backlog'[i] = backlog[i + 1]
        /\ 1 \in DOMAIN backlog /\ Len(backlog) \in Nat
    BY <2>1, <2>4
  <2>6. stage[c] = "waiting" /\ stage'[c] = "gone" /\ \A d \in Conns \ {c} : stage'[d] = stage[d]
    BY <2>2, <2>4, <2>5, <1>1 DEF TypeOK, Runs, Waits
  <2>7. /\ files'[n] = c /\ \A m \in Numbers \ {n} : files'[m] = files[m]
        /\ files' \in [Numbers -> Objects \cup Others \cup {None}]
    BY <2>4, <1>2, Names
  <2>8. TypeOK'
    <3>1. stage' \in [Conns -> {"away", "waiting", "accepted", "added", "up", "ended", "closing",
                               "cancelled", "gone"}]
      BY <1>1, <2>4 DEF TypeOK
    <3>2. DescriptorsOK'
      BY <1>1, <2>7 DEF TypeOK, DescriptorsOK, Numbers
    <3> QED BY <3>1, <3>2, <2>4, <2>5, <1>1 DEF TypeOK
  <2>9. Runs'
    <3>1. ASSUME NEW d \in Conns PROVE Staged(d)'
      <4>1. Staged(d)
        BY <1>1 DEF Runs
      <4> QED BY <4>1, <2>6, <1>1 DEF Staged, Owning
    <3>2. Waits'
      <4>1. \A i, j \in DOMAIN backlog : backlog[i] = backlog[j] => i = j
        BY <1>1 DEF Runs, Waits
      <4>2. \A i \in 1 .. Len(backlog) - 1 : backlog[i + 1] # c
        BY <4>1, <2>2, <2>5
      <4>3. \A i \in DOMAIN backlog : backlog[i] \in Conns /\ stage[backlog[i]] = "waiting"
        BY <1>1, BacklogTyped DEF Runs, Waits
      <4>4. \A i \in DOMAIN backlog' : stage'[backlog'[i]] = "waiting"
        BY <4>2, <4>3, <2>5, <2>6
      <4>5. \A i, j \in DOMAIN backlog' : backlog'[i] = backlog'[j] => i = j
        BY <4>1, <2>5
      <4> QED BY <4>4, <4>5 DEF Waits
    <3>3. ASSUME NEW l \in Loops PROVE Registered(l)' /\ TableOf(l)'
      <4>1. Registered(l) /\ TableOf(l)
        BY <1>1 DEF Runs
      <4>2. {d \in Conns : loopOf'[d] = l /\ stage'[d] \in Serving}
              = {d \in Conns : loopOf[d] = l /\ stage[d] \in Serving}
        BY <1>1, <2>6 DEF Serving
      <4>3. Registered(l)'
        BY <4>1, <4>2, <1>1 DEF Registered
      <4>4. TableOf(l)'
        BY <4>1, <1>1, TableStays DEF TableOf
      <4> QED BY <4>3, <4>4
    <3>4. Lasting'
      BY <1>1 DEF Runs, Lasting, Numbers
    <3>5. Calls'
      BY <1>1, <1>2, <2>4, <2>6 DEF Calls
    <3>6. RoomIsLeft'
      BY <1>1, <1>4, <2>4, <2>7, Names DEF RoomIsLeft, SpareIsOut, Numbers, CanOpen
    <3>7. ASSUME NEW o \in Objects \ {c}, NEW m \in Numbers PROVE OwnFile(o, m)'
      <4>1. OwnFile(o, m)
        BY <1>2 DEF Owned
      <4> QED BY <4>1, <2>3, <2>7, <1>1, Names DEF OwnFile
    <3>8. \A o \in Objects \ {dropped'} : Owned(o)'
      BY <3>7, <2>4 DEF Owned
    <3> QED BY <3>1, <3>2, <3>3, <3>4, <3>5, <3>6, <3>8 DEF Runs
  <2> QED BY <2>8, <2>9, <1>1, SpareStays DEF IInv, Running
<1> QED BY <1>3, <1>4 DEF AcceptToDrop

LEMMA DropKeeps ==
    ASSUME IInv, Drop
    PROVE  IInv'
<1>1. /\ Running /\ Runs /\ TypeOK /\ handler = "drop" /\ handler' = "reopen" /\ dropped' = None
      /\ files' = [n \in Numbers |-> IF dropped # None /\ files[n] = dropped THEN None ELSE files[n]]
      /\ UNCHANGED <<asserts, bound, up, impl, scarce, table, poller, peers, stolen, failed>>
  BY DEF Drop, Callback, IInv
<1> USE DEF table, poller, peers, ends
<1>2. /\ up = "listening" /\ impl[Spare] = None /\ RoomIsLeft
      /\ dropped # None => dropped \in Conns /\ impl[dropped] = None
      /\ files \in [Numbers -> Objects \cup Others \cup {None}]
  BY <1>1 DEF Runs, Calls, Staged, Owning, TypeOK, DescriptorsOK
<1>3. DescriptorsOK'
  BY <1>1, <1>2 DEF TypeOK, DescriptorsOK, Numbers
<1>4. TypeOK'
  BY <1>1, <1>3 DEF TypeOK
<1>5. Runs'
  <2>1. \A d \in Conns : Staged(d)'
    BY <1>1 DEF Runs, Staged
  <2>2. Waits'
    BY <1>1 DEF Runs, Waits
  <2>3. ASSUME NEW l \in Loops PROVE Registered(l)' /\ TableOf(l)'
    <3>1. Registered(l) /\ TableOf(l)
      BY <1>1 DEF Runs
    <3>2. TableOf(l)'
      BY <3>1, <1>1, TableStays DEF TableOf
    <3> QED BY <3>1, <3>2, <1>1 DEF Registered
  <2>4. Lasting' /\ Calls'
    BY <1>1, <1>2 DEF Runs, Lasting, Calls, Numbers
  <2>5. RoomIsLeft'
    BY <1>1, <1>2 DEF RoomIsLeft, SpareIsOut, Exhausted, Unused, Numbers
  <2>6. ASSUME NEW o \in Objects, NEW n \in Numbers PROVE OwnFile(o, n)'
    <3>1. CASE o = dropped
      BY <3>1, <1>1, <1>2, Names DEF OwnFile
    <3>2. CASE o # dropped
      <4>1. OwnFile(o, n)
        BY <3>2, <1>1 DEF Runs, Owned
      <4> QED BY <4>1, <3>2, <1>1, Names DEF OwnFile
    <3> QED BY <3>1, <3>2
  <2>7. \A o \in Objects \ {dropped'} : Owned(o)'
    BY <2>6 DEF Owned
  <2> QED BY <2>1, <2>2, <2>3, <2>4, <2>5, <2>7 DEF Runs
<1> QED BY <1>1, <1>4, <1>5, SpareStays DEF IInv, Running

\* The spare is opened again, or nobody's fault is that of another thread.
LEMMA ReopenSpareKeeps ==
    ASSUME IInv, ReopenSpare
    PROVE  IInv'
<1>1. /\ Running /\ Runs /\ TypeOK /\ handler = "reopen" /\ handler' = "none"
      /\ UNCHANGED <<asserts, bound, up, table, poller, dropped, peers, stolen>>
  BY DEF ReopenSpare, Callback, IInv
<1> USE DEF table, poller, peers, ends
<1>2. /\ dropped = None /\ impl[Spare] = None /\ (~CanOpen => stolen)
      /\ \A o \in Objects \ {dropped} : Owned(o)
  BY <1>1 DEF Runs, Calls, RoomIsLeft, SpareIsOut, CanOpen
\* The spare aside, no number changes hands.
<1>3. ASSUME DescriptorsOK', \A p \in Objects \ {Spare} : impl'[p] = impl[p],
             \A o \in Objects \ {dropped} : Owned(o)', failed' = failed
      PROVE  TypeOK' /\ Runs'
  <2>1. TypeOK'
    BY <1>1, <1>3 DEF TypeOK
  <2>2. \A d \in Conns : Staged(d)'
    BY <1>1, <1>3, Names DEF Runs, Staged
  <2>3. Waits'
    BY <1>1 DEF Runs, Waits
  <2>4. ASSUME NEW l \in Loops PROVE Registered(l)' /\ TableOf(l)'
    <3>1. Registered(l) /\ TableOf(l) /\ epoll[l] \subseteq Objects
      BY <1>1 DEF Runs, TypeOK
    <3>2. Spare \notin epoll[l]
      BY <3>1, Names DEF Registered
    <3>3. batch'[l] \subseteq epoll[l] /\ \A ch \in epoll[l] : impl'[ch] = impl[ch]
      BY <3>1, <3>2, <1>1, <1>3 DEF TableOf
    <3>4. TableOf(l)'
      BY <3>1, <3>3, <1>1, TableStays
    <3> QED BY <3>1, <3>4, <1>1 DEF Registered
  <2>5. Lasting'
    BY <1>1, <1>3, Names DEF Runs, Lasting, Numbers
  <2>6. Calls' /\ RoomIsLeft'
    BY <1>1, <1>2 DEF Calls, RoomIsLeft, SpareIsOut
  <2>7. \A o \in Objects \ {dropped'} : Owned(o)'
    BY <1>1, <1>3
  <2>8. Runs'
    BY <2>2, <2>3, <2>4, <2>5, <2>6, <2>7 DEF Runs
  <2> QED BY <2>1, <2>8, <1>3 DEF IInv
<1>4. CASE Opens(Spare) /\ UNCHANGED failed
  <2>1. /\ DescriptorsOK' /\ impl'[Spare] \in Numbers
        /\ \A p \in Objects \ {Spare} : impl'[p] = impl[p]
        /\ \A o \in Objects \ {dropped} : Owned(o)'
    <3>1. Spare \in Objects /\ Spare # dropped /\ DescriptorsOK /\ Opens(Spare)
      BY <1>1, <1>2, <1>4, Names DEF TypeOK
    <3> QED BY <3>1, <1>2, OpensGives
  <2> QED BY <2>1, <1>1, <1>3, <1>4, SpareStays, Names DEF IInv, Running
<1>5. CASE ~CanOpen /\ asserts /\ failed' = "spare" /\ UNCHANGED descriptors
  <2>1. TypeOK'
    BY <1>1, <1>5 DEF TypeOK, DescriptorsOK, Numbers, descriptors
  <2> QED BY <2>1, <1>1, <1>2, <1>5 DEF IInv, Running, SpareTakesARace
<1>6. CASE ~asserts /\ OpensBad(Spare) /\ UNCHANGED failed
  <2>1. ~CanOpen /\ files' = files /\ scarce' = scarce /\ impl' = [impl EXCEPT ![Spare] = Bad]
    BY <1>6 DEF OpensBad
  <2>2. impl \in [Objects -> Numbers \cup {None, Bad}]
        /\ files \in [Numbers -> Objects \cup Others \cup {None}]
        /\ scarce \in BOOLEAN
    BY <1>1 DEF TypeOK, DescriptorsOK
  <2>3. DescriptorsOK' /\ impl'[Spare] = Bad /\ \A p \in Objects \ {Spare} : impl'[p] = impl[p]
    BY <2>1, <2>2, Names DEF DescriptorsOK, Numbers
  <2>4. ASSUME NEW o \in Objects \ {dropped}, NEW n \in Numbers PROVE OwnFile(o, n)'
    <3>1. OwnFile(o, n)
      BY <1>2 DEF Owned
    <3> QED BY <3>1, <2>1, <2>3, <1>2, Names DEF OwnFile
  <2>5. TypeOK' /\ Runs'
    BY <2>3, <2>4, <1>3, <1>6 DEF Owned
  <2> QED BY <2>1, <2>5, <1>1, <1>2, <1>6 DEF IInv, SpareTakesARace
<1> QED BY <1>4, <1>5, <1>6 DEF ReopenSpare

LEMMA DestroyKeeps ==
    ASSUME IInv, Destroy
    PROVE  IInv'
<1>1. /\ Running /\ Runs /\ TypeOK /\ Tables /\ handler = "none" /\ batch["base"] = {}
      /\ up \in Listened /\ up' = "destroyed" /\ "base" \in Loops
      /\ files' = [n \in Numbers |-> IF n \in {impl[Listen], impl[Spare]} THEN None ELSE files[n]]
      /\ impl' = [impl EXCEPT ![Listen] = None, ![Spare] = None]
      /\ epoll' = [epoll EXCEPT !["base"] = @ \ {Listen}]
      /\ backlog' = <<>>
      /\ stage' = [c \in Conns |-> IF stage[c] = "waiting" THEN "gone" ELSE stage[c]]
      /\ UNCHANGED <<asserts, bound, scarce, slots, reading, poller, callback, loopOf, ends, stolen,
                     failed>>
  BY TypesOfTables DEF Destroy, Idle, Free, IInv, Loops
<1> USE DEF poller, callback, ends
<1>2. /\ dropped = None
      /\ \A o \in Objects : Owned(o)
      /\ files \in [Numbers -> Objects \cup Others \cup {None}]
      /\ impl \in [Objects -> Numbers \cup {None, Bad}]
      /\ scarce \in BOOLEAN
      /\ epoll \in [Loops -> SUBSET Objects]
  BY <1>1, Names DEF Runs, Calls, TypeOK, DescriptorsOK
<1>3. /\ impl'[Listen] = None /\ impl'[Spare] = None
      /\ \A o \in Objects \ {Listen, Spare} : impl'[o] = impl[o]
      /\ DescriptorsOK'
  BY <1>1, <1>2, Names DEF DescriptorsOK, Numbers
<1>4. /\ epoll'["base"] = epoll["base"] \ {Listen}
      /\ \A l \in Loops \ {"base"} : epoll'[l] = epoll[l]
      /\ epoll' \in [Loops -> SUBSET Objects]
  BY <1>1, <1>2
<1>5. \A c \in Conns : stage'[c] = IF stage[c] = "waiting" THEN "gone" ELSE stage[c]
  BY <1>1
<1>6. TypeOK'
  <2>1. stage' \in [Conns -> {"away", "waiting", "accepted", "added", "up", "ended", "closing",
                             "cancelled", "gone"}]
    BY <1>1 DEF TypeOK
  <2>2. backlog' \in Seq(Conns)
    BY <1>1
  <2> QED BY <2>1, <2>2, <1>1, <1>3, <1>4 DEF TypeOK
<1>7. Runs'
  <2>1. ASSUME NEW d \in Conns PROVE Staged(d)'
    <3>1. Staged(d) /\ impl'[d] = impl[d]
      BY <1>1, <1>3, Names DEF Runs
    <3> QED BY <3>1, <1>1, <1>5 DEF Staged, Owning
  <2>2. Waits'
    BY <1>1 DEF Waits
  <2>3. ASSUME NEW l \in Loops PROVE Registered(l)' /\ TableOf(l)'
    <3>1. Registered(l) /\ TableOf(l) /\ Spare \notin epoll[l]
      BY <1>1, Names DEF Runs, Registered
    <3>2. {d \in Conns : loopOf'[d] = l /\ stage'[d] \in Serving}
            = {d \in Conns : loopOf[d] = l /\ stage[d] \in Serving}
      BY <1>1, <1>5 DEF Serving
    <3>3. CASE l = "base"
      <4>1. Registered(l)'
        BY <3>1, <3>2, <3>3, <1>1, <1>4, Names DEF Registered, Listened
      <4>2. \A ch \in epoll'[l] : ch \in epoll[l] /\ impl'[ch] = impl[ch]
        BY <3>1, <3>3, <1>2, <1>3, <1>4
      <4>3. ASSUME NEW n \in DOMAIN slots'[l], slots'[l][n] # None, slots'[l][n] # Listen
            PROVE  slots'[l][n] \in epoll'[l] /\ impl'[slots'[l][n]] = n
        <5>1. slots[l][n] \in epoll[l] /\ impl[slots[l][n]] = n
          BY <3>1, <4>3, <1>1 DEF TableOf
        <5> QED BY <5>1, <4>2, <4>3, <3>3, <1>1, <1>4
      <4>4. \A ch \in epoll'[l] : impl'[ch] \in DOMAIN slots'[l] /\ slots'[l][impl'[ch]] = ch
        BY <3>1, <4>2, <1>1 DEF TableOf
      <4>5. TableOf(l)'
        BY <4>3, <4>4, <3>3, <1>1 DEF TableOf
      <4> QED BY <4>1, <4>5
    <3>4. CASE l # "base"
      <4>1. Registered(l)'
        BY <3>1, <3>2, <3>4, <1>4 DEF Registered
      <4>2. \A ch \in epoll[l] : impl'[ch] = impl[ch]
        BY <3>1, <3>4, <1>2, <1>3, Names DEF Registered
      <4>3. TableOf(l)'
        BY <3>1, <3>4, <4>2, <1>1, <1>4, TableStays DEF TableOf
      <4> QED BY <4>1, <4>3
    <3> QED BY <3>3, <3>4
  <2>4. Lasting'
    BY <1>1, <1>3, Names DEF Runs, Lasting, Numbers
  <2>5. Calls' /\ RoomIsLeft'
    BY <1>1, <1>2 DEF Calls, RoomIsLeft, SpareIsOut
  <2>6. ASSUME NEW o \in Objects, NEW n \in Numbers PROVE OwnFile(o, n)'
    <3>1. OwnFile(o, n) /\ OwnFile(Listen, n) /\ OwnFile(Spare, n)
      BY <1>2, Names DEF Owned
    <3>2. files'[n] = IF n \in {impl[Listen], impl[Spare]} THEN None ELSE files[n]
      BY <1>1
    <3>3. o # None /\ n # None /\ Listen # Spare
      BY Names
    <3>4. CASE o \in {Listen, Spare}
      <4>1. impl'[o] # n
        BY <3>3, <3>4, <1>3
      <4>2. files'[n] # o
        BY <3>1, <3>2, <3>3, <3>4 DEF OwnFile
      <4> QED BY <4>1, <4>2 DEF OwnFile
    <3>5. CASE o \notin {Listen, Spare}
      <4>1. impl'[o] = impl[o]
        BY <3>5, <1>3
      <4>2. files'[n] = o <=> files[n] = o
        BY <3>1, <3>2, <3>3, <3>5 DEF OwnFile
      <4> QED BY <4>1, <4>2, <3>1 DEF OwnFile
    <3> QED BY <3>4, <3>5
  <2>7. \A o \in Objects \ {dropped'} : Owned(o)'
    BY <2>6 DEF Owned
  <2> QED BY <2>1, <2>2, <2>3, <2>4, <2>5, <2>7 DEF Runs
<1> QED BY <1>1, <1>3, <1>6, <1>7, SpareStays, Names DEF IInv, Running

\* Another thread takes a number nobody has, or gives back its own.
LEMMA OtherThreadKeeps ==
    ASSUME IInv, NEW f \in Others, OtherThread(f)
    PROVE  IInv'
<1>1. /\ Running /\ Runs /\ TypeOK
      /\ UNCHANGED <<asserts, bound, up, table, poller, callback, peers, failed, impl, scarce>>
  BY DEF OtherThread, OtherOpens, OtherCloses, IInv
<1> USE DEF table, poller, callback, peers, ends
<1>2. files \in [Numbers -> Objects \cup Others \cup {None}]
  BY <1>1 DEF TypeOK, DescriptorsOK
<1>3. PICK n \in Numbers : /\ files[n] \notin Objects
                           /\ \/ /\ files' = [files EXCEPT ![n] = f]
                                 /\ stolen' = (stolen \/ SpareIsOut)
                              \/ /\ files' = [files EXCEPT ![n] = None]
                                 /\ UNCHANGED stolen
  <2>1. CASE OtherOpens(f) /\ stolen' = (stolen \/ SpareIsOut)
    <3>1. Lowest \in Numbers /\ files[Lowest] = None
      BY <2>1, LowestIsUnused DEF OtherOpens, CanOpen
    <3> QED BY <3>1, <2>1, Names DEF OtherOpens
  <2>2. CASE OtherCloses(f) /\ UNCHANGED stolen
    BY <2>2, Names DEF OtherCloses
  <2> QED BY <2>1, <2>2 DEF OtherThread
<1>4. /\ files'[n] \in {f, None} /\ \A m \in Numbers \ {n} : files'[m] = files[m]
      /\ files' \in [Numbers -> Objects \cup Others \cup {None}]
  BY <1>2, <1>3
<1>5. TypeOK'
  <2>1. DescriptorsOK'
    BY <1>1, <1>4 DEF TypeOK, DescriptorsOK, Numbers
  <2> QED BY <2>1, <1>1 DEF TypeOK
<1>6. Runs'
  <2>1. \A d \in Conns : Staged(d)'
    BY <1>1 DEF Runs, Staged
  <2>2. Waits'
    BY <1>1 DEF Runs, Waits
  <2>3. ASSUME NEW l \in Loops PROVE Registered(l)' /\ TableOf(l)'
    <3>1. Registered(l) /\ TableOf(l)
      BY <1>1 DEF Runs
    <3>2. TableOf(l)'
      BY <3>1, <1>1, TableStays DEF TableOf
    <3> QED BY <3>1, <3>2, <1>1 DEF Registered
  <2>4. Lasting' /\ Calls'
    BY <1>1 DEF Runs, Lasting, Calls, Numbers
  <2>5. RoomIsLeft'
    <3>1. SUFFICES ASSUME SpareIsOut, ~stolen'
                   PROVE  RoomIsLeft'
      BY <1>1 DEF RoomIsLeft, SpareIsOut
    <3>2. ~stolen /\ files' = [files EXCEPT ![n] = None]
      <4>1. CASE stolen' = (stolen \/ SpareIsOut)
        BY <4>1, <3>1
      <4>2. CASE files' = [files EXCEPT ![n] = None] /\ UNCHANGED stolen
        BY <4>2, <3>1
      <4> QED BY <4>1, <4>2, <1>3
    <3>3. ~Exhausted'
      BY <3>2, <1>2 DEF Exhausted, Unused, Numbers
    <3>4. ~scarce'
      BY <3>1, <3>2, <1>1 DEF Runs, RoomIsLeft
    <3> QED BY <3>3, <3>4 DEF RoomIsLeft
  <2>6. ASSUME NEW o \in Objects \ {dropped}, NEW m \in Numbers PROVE OwnFile(o, m)'
    <3>1. OwnFile(o, m)
      BY <1>1 DEF Runs, Owned
    <3> QED BY <3>1, <1>1, <1>3, <1>4, Names DEF OwnFile
  <2>7. \A o \in Objects \ {dropped'} : Owned(o)'
    BY <2>6, <1>1 DEF Owned
  <2> QED BY <2>1, <2>2, <2>3, <2>4, <2>5, <2>7 DEF Runs
<1>7. stolen => stolen'
  BY <1>3
<1> QED BY <1>1, <1>5, <1>6, <1>7, SpareStays DEF IInv, Running

\* The rest of the system reaches its limit, or leaves it.
LEMMA OtherProcessKeeps ==
    ASSUME IInv, OtherProcess
    PROVE  IInv'
<1>1. /\ Running /\ Runs /\ TypeOK /\ scarce' = ~scarce /\ stolen' = (stolen \/ SpareIsOut)
      /\ UNCHANGED <<asserts, bound, up, table, poller, callback, peers, failed, impl, files>>
  BY DEF OtherProcess, SystemLimit, IInv
<1> USE DEF table, poller, callback, peers, ends
<1>2. TypeOK'
  BY <1>1 DEF TypeOK, DescriptorsOK, Numbers
<1>3. Runs'
  <2>1. \A d \in Conns : Staged(d)'
    BY <1>1 DEF Runs, Staged
  <2>2. Waits'
    BY <1>1 DEF Runs, Waits
  <2>3. ASSUME NEW l \in Loops PROVE Registered(l)' /\ TableOf(l)'
    <3>1. Registered(l) /\ TableOf(l)
      BY <1>1 DEF Runs
    <3>2. TableOf(l)'
      BY <3>1, <1>1, TableStays DEF TableOf
    <3> QED BY <3>1, <3>2, <1>1 DEF Registered
  <2>4. Lasting' /\ Calls'
    BY <1>1 DEF Runs, Lasting, Calls, Numbers
  <2>5. RoomIsLeft'
    BY <1>1 DEF RoomIsLeft, SpareIsOut
  <2>6. \A o \in Objects \ {dropped'} : Owned(o)'
    BY <1>1 DEF Runs, Owned, OwnFile, Numbers
  <2> QED BY <2>1, <2>2, <2>3, <2>4, <2>5, <2>6 DEF Runs
<1> QED BY <1>1, <1>2, <1>3, SpareStays DEF IInv, Running

LEMMA AcceptInLoopKeeps ==
    ASSUME IInv, AcceptInLoop
    PROVE  IInv'
<1>1. /\ Running /\ Runs /\ TypeOK /\ Tables /\ handler = "none" /\ "base" \in Loops
      /\ backlog # <<>> /\ backlog \in Seq(Conns)
      /\ Handles("base", Listen) /\ backlog' = Tail(backlog)
      /\ UNCHANGED <<asserts, bound, up, callback, ends, stolen>>
  BY TypesOfTables, BacklogTyped DEF AcceptInLoop, Handles, Free, IInv, Loops
<1>2. PICK c \in Conns : c = Head(backlog) /\ c = backlog[1]
  BY <1>1
<1>3. PICK l \in Loops :
          /\ loopOf' = [loopOf EXCEPT ![c] = l]
          /\ stage' = [stage EXCEPT ![c] = IF l = "base" THEN "up" ELSE "accepted"]
          /\ IF l = "base" THEN Add(l, c) /\ EnableReading(l, c)
             ELSE UNCHANGED <<table, failed>>
  BY <1>2 DEF AcceptInLoop
<1>4. Opens(c)
  BY <1>2 DEF AcceptInLoop
<1> USE DEF callback, ends
<1>5. /\ batch' \in [Loops -> SUBSET Objects] /\ UNCHANGED room
      /\ \A k \in Loops : batch'[k] \subseteq batch[k]
  BY <1>1, HandlesTakes
<1>6. /\ backlog' \in Seq(Conns) /\ DOMAIN backlog' = 1 .. Len(backlog) - 1
      /\ \A i \in 1 .. Len(backlog) - 1 : i + 1 \in DOMAIN backlog /\ backlog'[i] = backlog[i + 1]
      /\ 1 \in DOMAIN backlog /\ Len(backlog) \in Nat
  BY <1>1
<1>7. /\ stage[c] = "waiting" /\ \A d \in Conns \ {c} : stage'[d] = stage[d] /\ loopOf'[d] = loopOf[d]
      /\ stage'[c] = (IF l = "base" THEN "up" ELSE "accepted") /\ loopOf'[c] = l
  BY <1>1, <1>2, <1>3, <1>6 DEF TypeOK, Runs, Waits
<1>8. /\ dropped = None /\ c \in Objects /\ c # dropped /\ impl[c] = None
      /\ \A k \in Loops : Registered(k) /\ TableOf(k) /\ c \notin epoll[k] /\ epoll[k] \subseteq Objects
  <2>1. dropped = None /\ Staged(c) /\ c \in Objects /\ c # None
    BY <1>1, Names DEF Runs, Calls
  <2>2. impl[c] = None
    BY <2>1, <1>7 DEF Staged, Owning
  <2>3. \A k \in Loops : Registered(k) /\ TableOf(k) /\ epoll[k] \subseteq Objects
    BY <1>1 DEF Runs, TypeOK
  <2>4. \A k \in Loops : c \notin epoll[k]
    BY <2>3, <1>7, Names DEF Registered, Serving
  <2> QED BY <2>1, <2>2, <2>3, <2>4
<1>9. /\ DescriptorsOK' /\ impl'[c] \in Numbers
      /\ \A p \in Objects \ {c} : impl'[p] = impl[p]
      /\ \A o \in Objects \ {dropped} : Owned(o)'
  BY <1>1, <1>4, <1>8, OpensGives DEF Runs, TypeOK
<1>10. /\ Tables' /\ failed' = failed /\ reading' \subseteq Objects
       /\ \A k \in Loops : TableOf(k)'
       /\ \A k \in Loops : epoll'[k] = IF k = "base" /\ l = "base" THEN epoll[k] \cup {c} ELSE epoll[k]
  <2>1. \A k \in Loops : /\ batch'[k] \subseteq epoll[k]
                         /\ \A ch \in epoll[k] : impl'[ch] = impl[ch]
    BY <1>5, <1>8, <1>9 DEF TableOf
  <2>2. reading \subseteq Objects
    BY <1>1 DEF TypeOK
  <2>3. CASE l = "base"
    <3>1. Add(l, c) /\ EnableReading(l, c)
      BY <1>3, <2>3
    <3>2. TableOf(l) /\ c \notin epoll[l]
      BY <1>8
    <3>3. /\ Tables' /\ TableOf(l)' /\ epoll'[l] = epoll[l] \cup {c}
          /\ \A k \in Loops \ {l} : slots'[k] = slots[k] /\ epoll'[k] = epoll[k]
      BY <3>1, <3>2, <1>1, <1>5, <1>8, <1>9, AddEnters
    <3>4. failed' = failed /\ reading' \subseteq Objects
      BY <3>1, <3>3, <2>2, <1>8 DEF EnableReading, Update
    <3>5. ASSUME NEW k \in Loops, k # l PROVE TableOf(k)'
      BY <3>3, <3>5, <2>1, <1>1, <1>8, TableStays
    <3> QED BY <3>3, <3>4, <3>5, <2>3
  <2>4. CASE l # "base"
    <3>1. UNCHANGED <<slots, epoll, reading, failed>>
      BY <1>3, <2>4 DEF table
    <3>2. \A k \in Loops : TableOf(k)'
      BY <3>1, <2>1, <1>1, <1>8, TableStays
    <3>3. Tables'
      BY <3>1, <1>1 DEF Tables, IsTable
    <3> QED BY <3>1, <3>2, <3>3, <2>2, <2>4
  <2> QED BY <2>3, <2>4
<1>11. TypeOK'
  <2>1. stage' \in [Conns -> {"away", "waiting", "accepted", "added", "up", "ended", "closing",
                             "cancelled", "gone"}]
        /\ loopOf' \in [Conns -> Loops]
    BY <1>1, <1>3 DEF TypeOK
  <2> QED BY <2>1, <1>1, <1>5, <1>6, <1>9, <1>10 DEF TypeOK, Tables, IsTable
<1>12. Runs'
  <2>1. ASSUME NEW d \in Conns PROVE Staged(d)'
    <3>1. Staged(d) /\ d \in Objects
      BY <1>1, Names DEF Runs
    <3>2. CASE d = c
      BY <3>2, <1>7, <1>9, Names DEF Staged, Owning, Loops
    <3>3. CASE d # c
      BY <3>1, <3>3, <1>7, <1>9 DEF Staged
    <3> QED BY <3>2, <3>3
  <2>2. Waits'
    <3>1. \A i, j \in DOMAIN backlog : backlog[i] = backlog[j] => i = j
      BY <1>1 DEF Runs, Waits
    <3>2. \A i \in 1 .. Len(backlog) - 1 : backlog[i + 1] # c
      BY <3>1, <1>2, <1>6
    <3>3. \A i \in DOMAIN backlog : backlog[i] \in Conns /\ stage[backlog[i]] = "waiting"
      BY <1>1, BacklogTyped DEF Runs, Waits
    <3>4. \A i \in DOMAIN backlog' : stage'[backlog'[i]] = "waiting"
      BY <3>2, <3>3, <1>6, <1>7
    <3>5. \A i, j \in DOMAIN backlog' : backlog'[i] = backlog'[j] => i = j
      BY <3>1, <1>6
    <3> QED BY <3>4, <3>5 DEF Waits
  <2>3. ASSUME NEW k \in Loops PROVE Registered(k)' /\ TableOf(k)'
    <3>1. {d \in Conns : loopOf'[d] = k /\ stage'[d] \in Serving}
            = {d \in Conns : loopOf[d] = k /\ stage[d] \in Serving}
                \cup {d \in {c} : k = "base" /\ l = "base"}
      BY <1>7 DEF Serving, Loops
    <3>2. Registered(k) /\ up' = up
      BY <1>1, <1>8
    <3>3. Registered(k)'
      <4>1. CASE k = "base" /\ l = "base"
        BY <4>1, <3>1, <3>2, <1>10 DEF Registered
      <4>2. CASE ~(k = "base" /\ l = "base")
        BY <4>2, <3>1, <3>2, <1>10 DEF Registered
      <4> QED BY <4>1, <4>2
    <3> QED BY <3>3, <1>10
  <2>4. Lasting'
    BY <1>1, <1>9, Names DEF Runs, Lasting, Numbers
  <2>5. Calls' /\ RoomIsLeft'
    BY <1>1, <1>8 DEF Calls, RoomIsLeft, SpareIsOut
  <2>6. \A o \in Objects \ {dropped'} : Owned(o)'
    BY <1>1, <1>9
  <2> QED BY <2>1, <2>2, <2>3, <2>4, <2>5, <2>6 DEF Runs
<1>13. impl'[Spare] = impl[Spare]
  BY <1>9, Names
<1> QED BY <1>1, <1>10, <1>11, <1>12, <1>13, SpareStays DEF IInv, Running

-----------------------------------------------------------------------------
(* The theorems.                                                           *)

LEMMA InitEstablishes ==
    ASSUME Init
    PROVE  IInv
<1>1. 0 .. 3 \subseteq Numbers /\ 0 .. 1 \subseteq 0 .. Slots - 1 /\ Slots \in Nat
  BY AcceptorAssumption, DescriptorAssumption DEF Numbers
<1>2. /\ impl \in [Objects -> Numbers \cup {None, Bad}]
      /\ impl["base"] = 0 /\ impl["pool"] = 1 /\ impl[Spare] = 2 /\ impl[Listen] = 3
      /\ \A c \in Conns : impl[c] = None
  BY <1>1, Names DEF Init, Opened
<1>3. \A o, p \in Objects : impl[o] \in Numbers /\ impl[o] = impl[p] => o = p
  BY <1>2, Names
<1>4. \A n \in Numbers : files[n] = IF \E o \in Objects : impl[o] = n
                                   THEN CHOOSE o \in Objects : impl[o] = n ELSE None
  BY DEF Init
<1>5. ASSUME NEW o \in Objects, NEW n \in Numbers PROVE OwnFile(o, n)
  <2>1. CASE \E p \in Objects : impl[p] = n
    <3>1. files[n] \in Objects /\ impl[files[n]] = n
      BY <2>1, <1>4
    <3> QED BY <3>1, <1>3 DEF OwnFile
  <2>2. CASE ~\E p \in Objects : impl[p] = n
    BY <2>2, <1>4, Names DEF OwnFile
  <2> QED BY <2>1, <2>2
<1>6. DescriptorsOK
  <2>1. files \in [Numbers -> Objects \cup {None}] /\ scarce = FALSE
    BY DEF Init
  <2> QED BY <2>1, <1>2 DEF DescriptorsOK
<1>7. /\ slots = [l \in Loops |-> slots[l]]
      /\ \A l \in Loops : /\ DOMAIN slots[l] = 0 .. Slots - 1
                          /\ \A n \in 0 .. Slots - 1 : slots[l][n] = IF n = impl[l] THEN l ELSE None
  BY DEF Init
<1>8. TypeOK
  <2>1. ASSUME NEW l \in Loops PROVE IsTable(slots[l])
    <3>1. l \in Objects
      BY Names
    <3>2. DOMAIN slots[l] \subseteq Nat /\ 0 \in DOMAIN slots[l]
      BY <1>1, <1>7
    <3>3. ASSUME NEW n \in DOMAIN slots[l]
          PROVE  0 .. n \subseteq DOMAIN slots[l] /\ slots[l][n] \in Objects \cup {None}
      BY <3>1, <1>1, <1>7
    <3> QED BY <3>2, <3>3 DEF IsTable
  <2>2. backlog \in Seq(Conns)
    BY DEF Init
  <2>3. Tables
    BY <2>1, <1>7, Names DEF Init, Tables
  <2> QED BY <2>2, <2>3, <1>6, TypesOfTables, Names, AcceptorAssumption DEF Init
<1>9. Runs
  <2>1. \A c \in Conns : Staged(c)
    BY <1>2, Names DEF Init, Staged, Owning
  <2>2. Waits /\ Calls /\ RoomIsLeft
    BY DEF Init, Waits, Calls, RoomIsLeft, SpareIsOut
  <2>3. ASSUME NEW l \in Loops PROVE Registered(l) /\ TableOf(l)
    <3>1. epoll[l] = {l} /\ batch[l] = {} /\ up = "new" /\ \A c \in Conns : stage[c] = "away"
      BY DEF Init
    <3>2. Registered(l)
      BY <3>1 DEF Registered, Listened, Serving
    <3>3. impl[l] \in 0 .. Slots - 1
      BY <1>1, <1>2, Names
    <3>4. TableOf(l)
      <4>1. /\ DOMAIN slots[l] = 0 .. Slots - 1
            /\ \A n \in 0 .. Slots - 1 : slots[l][n] = IF n = impl[l] THEN l ELSE None
        BY <1>7
      <4>2. \A n \in DOMAIN slots[l] : slots[l][n] # None =>
                slots[l][n] \in epoll[l] /\ impl[slots[l][n]] = n
        BY ONLY <3>1, <3>3, <4>1
      <4>3. \A ch \in epoll[l] : impl[ch] \in DOMAIN slots[l] /\ slots[l][impl[ch]] = ch
        BY ONLY <3>1, <3>3, <4>1
      <4>4. batch[l] \subseteq epoll[l]
        BY ONLY <3>1
      <4> QED BY ONLY <4>2, <4>3, <4>4 DEF TableOf
    <3> QED BY <3>2, <3>4
  <2>4. Lasting
    BY <1>1, <1>2, Names DEF Lasting
  <2> QED BY <2>1, <2>2, <2>3, <2>4, <1>5 DEF Runs, Owned
<1>10. SpareTakesARace
  BY <1>2 DEF Init, SpareTakesARace, Bad
<1> QED BY <1>8, <1>9, <1>10 DEF IInv

LEMMA StepKeeps ==
    ASSUME IInv, [Next]_vars
    PROVE  IInv'
<1>1. ASSUME NEW l \in Loops, LoopNext(l) PROVE IInv'
  <2>1. CASE Poll(l)
    BY <2>1, PollKeeps
  <2>2. CASE StartListen \/ ListenerHangsUp \/ AcceptInLoop \/ AcceptFails \/ TooManyFiles
             \/ RemoveTask
    BY <2>2, StartListenKeeps, ListenerFailsKeeps, AcceptInLoopKeeps, TooManyFilesKeeps,
       RemoveTaskKeeps
  <2>3. CASE ErrorCallback
    BY <2>3, GiveUpSpareKeeps, AcceptToDropKeeps, DropKeeps, ReopenSpareKeeps DEF ErrorCallback
  <2>4. CASE AddTask \/ EstablishTask \/ DestroyTask
    BY <2>4, AddTaskKeeps, EstablishTaskKeeps, DestroyTaskKeeps
  <2>5. CASE \E c \in Conns : HandleEnd(l, c)
    BY <2>5, HandleEndKeeps
  <2> QED BY <1>1, <2>1, <2>2, <2>3, <2>4, <2>5 DEF LoopNext
<1>2. CASE Bind \/ Destroy \/ OtherProcess
  BY <1>2, BindKeeps, DestroyKeeps, OtherProcessKeeps
<1>3. ASSUME NEW c \in Conns, Destruct(c) \/ PeerConnects(c) \/ PeerGivesUp(c) \/ PeerEnds(c)
      PROVE  IInv'
  BY <1>3, DestructKeeps, PeerConnectsKeeps, PeerGivesUpKeeps, PeerEndsKeeps
<1>4. ASSUME NEW f \in Others, OtherThread(f) PROVE IInv'
  BY <1>4, OtherThreadKeeps
<1>5. CASE UNCHANGED vars
  <2> USE <1>5 DEF vars, descriptors, table, poller, callback, peers, ends
  <2>1. TypeOK'
    BY DEF IInv, TypeOK, DescriptorsOK, Numbers
  <2>2. ASSUME Runs PROVE Runs'
    <3>1. Calls' /\ RoomIsLeft'
      BY <2>2 DEF Runs, Calls, RoomIsLeft, SpareIsOut, Exhausted, Unused, Numbers
    <3>2. \A l \in Loops : batch'[l] \subseteq epoll[l]
      BY <2>2 DEF Runs, TableOf
    <3> QED BY <3>1, <3>2, <2>2, QuietRuns DEF IInv
  <2> QED BY <2>1, <2>2 DEF IInv, Running, SpareTakesARace
<1> QED BY <1>1, <1>2, <1>3, <1>4, <1>5 DEF Next

\* The inductive invariant holds in every reachable state.
THEOREM Invariance == Spec => []IInv
<1>1. Init => IInv
  BY InitEstablishes
<1>2. IInv /\ [Next]_vars => IInv'
  BY StepKeeps
<1> QED BY <1>1, <1>2, PTL DEF Spec

-----------------------------------------------------------------------------
(* How often the end of a connection is reported, looked up and carried    *)
(* out.                                                                    *)

Counted(c) ==
    /\ destroys[c] <= erases[c] /\ erases[c] <= reports[c]
    /\ stage[c] \notin {"closing", "cancelled", "gone"} => reports[c] = 0
    /\ stage[c] \in Serving => destroys[c] = 0
    /\ stage[c] = "cancelled" => destroys[c] > 0
    /\ stage[c] = "gone" \/ loopOf[c] = "base" => reports[c] = destroys[c]
    /\ asserts => erases[c] <= 1

CInv ==
    /\ Running => \A c \in Conns : Counted(c)
    /\ failed \in {"epoll", "removed"} => \E c \in Conns : reports[c] > 1
    /\ failed = "epoll" => ~asserts

\* Connections that have not come to their end may go on, or be gone.
LEMMA CountsStay ==
    ASSUME TypeOK, CInv, Running, UNCHANGED <<ends, asserts>>, failed' \notin {"epoll", "removed"},
           \A c \in Conns : \/ UNCHANGED <<stage[c], loopOf[c]>>
                            \/ /\ stage[c] \notin {"closing", "cancelled", "gone"}
                               /\ stage'[c] # "cancelled"
    PROVE  CInv'
<1>1. ASSUME NEW c \in Conns PROVE Counted(c)'
  <2>1. Counted(c) /\ UNCHANGED <<reports, erases, destroys>>
    BY DEF CInv, ends
  <2>2. reports[c] \in Nat /\ erases[c] \in Nat /\ destroys[c] \in Nat
    BY DEF TypeOK
  <2>3. CASE UNCHANGED <<stage[c], loopOf[c]>>
    BY <2>1, <2>3 DEF Counted
  <2>4. CASE stage[c] \notin {"closing", "cancelled", "gone"} /\ stage'[c] # "cancelled"
    <3>1. reports[c] = 0 /\ erases[c] = 0 /\ destroys[c] = 0
      BY <2>1, <2>2, <2>4 DEF Counted
    <3> QED BY <3>1, <2>1, <2>4 DEF Counted
  <2> QED BY <2>3, <2>4
<1> QED BY <1>1 DEF CInv

\* Epoll knows the channels whose flags StartListen, EstablishTask and AcceptInLoop set.
LEMMA KnownUpdates ==
    ASSUME IInv, StartListen \/ EstablishTask \/ AcceptInLoop
    PROVE  Running /\ failed' = failed
<1>1. Running /\ Runs /\ TypeOK /\ "base" \in Loops /\ "pool" \in Loops
  BY DEF StartListen, EstablishTask, AcceptInLoop, Handles, Idle, Free, IInv, Loops
<1>2. ASSUME NEW ch, Add("base", ch), EnableReading("base", ch) PROVE failed' = failed
  <2>1. epoll \in [Loops -> SUBSET Objects]
    BY <1>1 DEF TypeOK
  <2>2. ch \in epoll'["base"]
    BY <2>1, <1>1, <1>2 DEF Add
  <2> QED BY <2>2, <1>2 DEF EnableReading, Update
<1>3. CASE StartListen
  BY <1>1, <1>2, <1>3 DEF StartListen
<1>4. CASE EstablishTask
  <2>1. PICK c \in Conns : stage[c] = "added" /\ EnableReading("pool", c) /\ UNCHANGED epoll
    BY <1>4 DEF EstablishTask
  <2>2. Registered("pool") /\ Staged(c)
    BY <1>1 DEF Runs
  <2>3. c \in epoll'["pool"]
    BY <2>1, <2>2 DEF Registered, Staged, Serving
  <2> QED BY <2>1, <2>3, <1>1 DEF EnableReading, Update
<1>5. CASE AcceptInLoop
  <2>1. PICK l \in Loops : IF l = "base" THEN Add(l, Head(backlog)) /\ EnableReading(l, Head(backlog))
                           ELSE UNCHANGED <<table, failed>>
    BY <1>5 DEF AcceptInLoop
  <2> QED BY <2>1, <1>1, <1>2
<1> QED BY <1>3, <1>4, <1>5

LEMMA CountsOfEnd ==
    ASSUME IInv, CInv, NEW l \in Loops, NEW c \in Conns, HandleEnd(l, c)
    PROVE  CInv'
<1>1. Running /\ Runs /\ TypeOK /\ \A d \in Conns : Counted(d)
  BY DEF HandleEnd, Handles, Free, IInv, CInv
<1>2. PICK calls \in {1, 2} :
        /\ reports' = Again(reports, c, calls)
        /\ \/ /\ l = "base" /\ calls = 1 /\ Cancel(l, c) /\ stage' = [stage EXCEPT ![c] = "cancelled"]
              /\ erases' = Again(erases, c, 1) /\ destroys' = Again(destroys, c, 1)
           \/ calls = 2 /\ failed' = IF asserts THEN "removed" ELSE "epoll"
           \/ /\ l = "pool" /\ stage' = [stage EXCEPT ![c] = "closing"]
              /\ UNCHANGED <<erases, destroys, failed>>
  BY DEF HandleEnd
<1>3. UNCHANGED <<asserts, loopOf>>
  BY DEF HandleEnd
<1>4. c \in epoll[l] /\ loopOf[c] = l /\ stage[c] \in Serving
  <2>1. Registered(l) /\ c \in epoll[l]
    BY <1>1 DEF Runs, TableOf, HandleEnd, Handles
  <2> QED BY <2>1, Names DEF Registered
<1>5. /\ reports \in [Conns -> Nat] /\ erases \in [Conns -> Nat] /\ destroys \in [Conns -> Nat]
      /\ stage = [d \in Conns |-> stage[d]]
  BY <1>1 DEF TypeOK
<1>6. reports'[c] = reports[c] + calls /\ \A d \in Conns \ {c} : reports'[d] = reports[d]
  BY <1>2, <1>5 DEF Again
<1>7. CASE /\ l = "base" /\ calls = 1 /\ Cancel(l, c) /\ stage' = [stage EXCEPT ![c] = "cancelled"]
           /\ erases' = Again(erases, c, 1) /\ destroys' = Again(destroys, c, 1)
  <2>1. failed' = failed
    BY <1>4, <1>7 DEF Cancel, Update
  <2>2. /\ erases'[c] = erases[c] + 1 /\ destroys'[c] = destroys[c] + 1
        /\ \A d \in Conns \ {c} : erases'[d] = erases[d] /\ destroys'[d] = destroys[d]
    BY <1>5, <1>7 DEF Again
  <2>3. stage'[c] = "cancelled" /\ \A d \in Conns \ {c} : stage'[d] = stage[d]
    BY <1>5, <1>7
  <2>4. reports[c] = 0 /\ erases[c] = 0 /\ destroys[c] = 0
    <3>1. Counted(c)
      BY <1>1
    <3> QED BY <3>1, <1>4, <1>5, <1>7 DEF Counted
  <2>5. Counted(c)'
    BY <2>2, <2>3, <2>4, <1>6, <1>7 DEF Counted, Serving
  <2>6. ASSUME NEW d \in Conns \ {c} PROVE Counted(d)'
    <3>1. Counted(d)
      BY <1>1
    <3> QED BY <3>1, <2>2, <2>3, <1>3, <1>6 DEF Counted
  <2> QED BY <2>1, <2>5, <2>6, <1>1 DEF CInv, Running
<1>8. CASE calls = 2 /\ failed' = IF asserts THEN "removed" ELSE "epoll"
  <2>1. reports'[c] > 1
    BY <1>5, <1>6, <1>8
  <2> QED BY <2>1, <1>3, <1>8 DEF CInv, Running
<1>9. CASE /\ l = "pool" /\ stage' = [stage EXCEPT ![c] = "closing"]
           /\ UNCHANGED <<erases, destroys, failed>>
  <2>1. stage'[c] = "closing" /\ \A d \in Conns \ {c} : stage'[d] = stage[d]
    BY <1>5, <1>9
  <2>2. Counted(c)'
    <3>1. Counted(c) /\ reports[c] \in Nat /\ erases[c] \in Nat
      BY <1>1, <1>5
    <3> QED BY <3>1, <2>1, <1>3, <1>4, <1>6, <1>9 DEF Counted
  <2>3. ASSUME NEW d \in Conns \ {c} PROVE Counted(d)'
    <3>1. Counted(d)
      BY <1>1
    <3> QED BY <3>1, <2>1, <1>3, <1>6, <1>9 DEF Counted
  <2> QED BY <2>2, <2>3, <1>1, <1>9 DEF CInv, Running
<1> QED BY <1>2, <1>7, <1>8, <1>9

LEMMA CountsOfRemoval ==
    ASSUME IInv, CInv, RemoveTask
    PROVE  CInv'
<1>1. Running /\ TypeOK /\ \A d \in Conns : Counted(d)
  BY DEF RemoveTask, Idle, Free, IInv, CInv
<1>2. PICK c \in Conns :
        /\ erases[c] < reports[c] /\ erases' = Again(erases, c, 1)
        /\ failed' = IF erases[c] > 0 /\ asserts THEN "removed" ELSE failed
  BY DEF RemoveTask
<1>3. UNCHANGED <<asserts, stage, loopOf, reports, destroys>>
  BY DEF RemoveTask
<1>4. reports \in [Conns -> Nat] /\ erases \in [Conns -> Nat] /\ destroys \in [Conns -> Nat]
  BY <1>1 DEF TypeOK
<1>5. erases'[c] = erases[c] + 1 /\ \A d \in Conns \ {c} : erases'[d] = erases[d]
  BY <1>2, <1>4 DEF Again
<1>6. Counted(c) /\ reports[c] \in Nat /\ erases[c] \in Nat /\ destroys[c] \in Nat
  BY <1>1, <1>4
<1>7. CASE erases[c] > 0 /\ asserts
  <2>1. reports'[c] > 1
    BY <1>2, <1>3, <1>6, <1>7
  <2> QED BY <2>1, <1>2, <1>7 DEF CInv, Running
<1>8. CASE ~(erases[c] > 0 /\ asserts)
  <2>1. failed' = failed
    BY <1>2, <1>8
  <2>2. Counted(c)'
    BY <1>2, <1>3, <1>5, <1>6, <1>8 DEF Counted
  <2>3. ASSUME NEW d \in Conns \ {c} PROVE Counted(d)'
    <3>1. Counted(d)
      BY <1>1
    <3> QED BY <3>1, <1>3, <1>5 DEF Counted
  <2> QED BY <2>1, <2>2, <2>3, <1>1 DEF CInv, Running
<1> QED BY <1>7, <1>8

LEMMA CountsOfDestroy ==
    ASSUME IInv, CInv, DestroyTask
    PROVE  CInv'
<1>1. Running /\ Runs /\ TypeOK /\ "pool" \in Loops /\ \A d \in Conns : Counted(d)
  BY DEF DestroyTask, Idle, Free, IInv, CInv, Loops
<1>2. PICK c \in Conns : /\ destroys[c] < erases[c] /\ destroys' = Again(destroys, c, 1)
                         /\ Cancel("pool", c) /\ stage' = [stage EXCEPT ![c] = "cancelled"]
  BY DEF DestroyTask
<1>3. UNCHANGED <<asserts, loopOf, reports, erases>>
  BY DEF DestroyTask
<1>4. /\ reports \in [Conns -> Nat] /\ erases \in [Conns -> Nat] /\ destroys \in [Conns -> Nat]
      /\ stage = [d \in Conns |-> stage[d]]
  BY <1>1 DEF TypeOK
<1>5. destroys'[c] = destroys[c] + 1 /\ \A d \in Conns \ {c} : destroys'[d] = destroys[d]
  BY <1>2, <1>4 DEF Again
<1>6. stage'[c] = "cancelled" /\ \A d \in Conns \ {c} : stage'[d] = stage[d]
  BY <1>2, <1>4
<1>7. Counted(c) /\ reports[c] \in Nat /\ erases[c] \in Nat /\ destroys[c] \in Nat
  BY <1>1, <1>4
\* A connection that ends for the first time is still known to epoll.
<1>8. CASE destroys[c] = 0
  <2>1. stage[c] = "closing" /\ loopOf[c] # "base"
    BY <1>2, <1>7, <1>8 DEF Counted
  <2>2. c \in epoll["pool"]
    <3>1. Registered("pool") /\ Staged(c)
      BY <1>1 DEF Runs
    <3> QED BY <3>1, <2>1 DEF Registered, Staged, Serving
  <2>3. failed' = failed
    BY <2>2, <1>2 DEF Cancel, Update
  <2>4. Counted(c)'
    BY <2>1, <1>2, <1>3, <1>5, <1>6, <1>7 DEF Counted, Serving
  <2>5. ASSUME NEW d \in Conns \ {c} PROVE Counted(d)'
    <3>1. Counted(d)
      BY <1>1
    <3> QED BY <3>1, <1>3, <1>5, <1>6 DEF Counted
  <2> QED BY <2>3, <2>4, <2>5, <1>1 DEF CInv, Running
<1>9. CASE destroys[c] > 0
  <2>1. ~asserts /\ reports'[c] > 1
    BY <1>2, <1>3, <1>7, <1>9 DEF Counted
  <2>2. c \notin epoll["pool"]
    <3>1. Registered("pool") /\ stage[c] \notin Serving
      BY <1>1, <1>7, <1>9 DEF Runs, Counted
    <3> QED BY <3>1, Names DEF Registered
  <2>3. failed' = "epoll"
    BY <2>2, <1>2 DEF Cancel, Update
  <2> QED BY <2>1, <2>3, <1>3 DEF CInv, Running
<1> QED BY <1>7, <1>8, <1>9

LEMMA CountsOfDestruct ==
    ASSUME IInv, CInv, NEW c \in Conns, Destruct(c)
    PROVE  CInv'
<1>1. Running /\ TypeOK /\ \A d \in Conns : Counted(d)
  BY DEF Destruct, IInv, CInv
<1>2. /\ reports[c] = destroys[c] /\ stage' = [stage EXCEPT ![c] = "gone"] /\ stage[c] = "cancelled"
      /\ UNCHANGED <<asserts, loopOf, reports, erases, destroys, failed>>
  BY DEF Destruct, ends
<1>3. stage'[c] = "gone" /\ \A d \in Conns \ {c} : stage'[d] = stage[d]
  BY <1>1, <1>2 DEF TypeOK
<1>4. ASSUME NEW d \in Conns PROVE Counted(d)'
  <2>1. Counted(d)
    BY <1>1
  <2> QED BY <2>1, <1>2, <1>3 DEF Counted, Serving
<1> QED BY <1>1, <1>2, <1>4 DEF CInv, Running

\* No other step is about an end.
LEMMA CountsOfOthers ==
    ASSUME IInv, CInv, Running, UNCHANGED <<ends, asserts>>, failed' \notin {"epoll", "removed"},
           \/ UNCHANGED <<stage, loopOf>>
           \/ AcceptToDrop \/ AcceptInLoop \/ AddTask \/ EstablishTask \/ Destroy
           \/ \E c \in Conns : PeerConnects(c) \/ PeerGivesUp(c) \/ PeerEnds(c)
    PROVE  CInv'
<1>1. Runs /\ TypeOK /\ stage = [d \in Conns |-> stage[d]] /\ loopOf = [d \in Conns |-> loopOf[d]]
  BY DEF IInv, TypeOK
<1>2. CASE UNCHANGED <<stage, loopOf>>
  BY <1>1, <1>2, CountsStay
<1>3. ASSUME NEW c \in Conns, NEW v, stage' = [stage EXCEPT ![c] = v], v # "cancelled",
             stage[c] \notin {"closing", "cancelled", "gone"},
             \A d \in Conns \ {c} : loopOf'[d] = loopOf[d]
      PROVE  CInv'
  <2>1. stage'[c] = v /\ \A d \in Conns \ {c} : stage'[d] = stage[d]
    BY <1>1, <1>3
  <2> QED BY <2>1, <1>1, <1>3, CountsStay
<1>4. CASE AcceptToDrop \/ AcceptInLoop
  <2>1. CASE UNCHANGED stage /\ AcceptToDrop
    BY <2>1, <1>2 DEF AcceptToDrop
  <2>2. CASE ~(UNCHANGED stage /\ AcceptToDrop)
    <3>1. backlog # <<>>
      BY <1>4, <2>2 DEF AcceptToDrop, AcceptInLoop
    <3>2. PICK c \in Conns : c = Head(backlog) /\ stage[c] = "waiting"
      <4>1. backlog \in Seq(Conns)
        BY <1>1, BacklogTyped
      <4>2. Head(backlog) = backlog[1] /\ 1 \in DOMAIN backlog /\ backlog[1] \in Conns
        BY <3>1, <4>1
      <4> QED BY <4>2, <1>1 DEF Runs, Waits
    <3>3. \A d \in Conns \ {c} : loopOf'[d] = loopOf[d]
      BY <1>1, <1>4, <3>2 DEF AcceptToDrop, AcceptInLoop
    <3>4. \E v : stage' = [stage EXCEPT ![c] = v] /\ v # "cancelled"
      BY <1>4, <2>2, <3>2 DEF AcceptToDrop, AcceptInLoop
    <3> QED BY <3>2, <3>3, <3>4, <1>3
  <2> QED BY <2>1, <2>2
<1>5. CASE AddTask \/ EstablishTask
  <2>1. PICK c \in Conns, v \in {"added", "up"} :
            /\ stage[c] \in {"accepted", "added"} /\ stage' = [stage EXCEPT ![c] = v]
            /\ UNCHANGED loopOf
    BY <1>5 DEF AddTask, EstablishTask
  <2> QED BY <2>1, <1>3
<1>6. CASE Destroy
  <2>1. UNCHANGED loopOf /\ \A c \in Conns : stage'[c] = IF stage[c] = "waiting" THEN "gone" ELSE stage[c]
    BY <1>6 DEF Destroy
  <2> QED BY <2>1, <1>1, CountsStay
<1>7. CASE \E c \in Conns : PeerConnects(c) \/ PeerGivesUp(c) \/ PeerEnds(c)
  <2>1. PICK c \in Conns, v \in {"waiting", "gone", "ended"} :
            /\ stage[c] \in {"away", "waiting", "up"} /\ stage' = [stage EXCEPT ![c] = v]
            /\ UNCHANGED loopOf
    BY <1>7 DEF PeerConnects, PeerGivesUp, PeerEnds
  <2> QED BY <2>1, <1>3
<1> QED BY <1>2, <1>4, <1>5, <1>6, <1>7

LEMMA CountsKept ==
    ASSUME IInv, CInv, [Next]_vars
    PROVE  CInv'
<1>1. CASE \E l \in Loops, c \in Conns : HandleEnd(l, c)
  BY <1>1, CountsOfEnd
<1>2. CASE RemoveTask \/ DestroyTask \/ \E c \in Conns : Destruct(c)
  BY <1>2, CountsOfRemoval, CountsOfDestroy, CountsOfDestruct
<1>3. CASE \/ \E l \in Loops : Poll(l)
           \/ Bind \/ ListenerHangsUp \/ AcceptFails \/ TooManyFiles \/ GiveUpSpare \/ Drop
           \/ ReopenSpare \/ \E f \in Others : OtherThread(f)
           \/ OtherProcess
  <2>1. /\ Running /\ failed' \in {failed, "unhandled", "accept", "spare"}
        /\ UNCHANGED <<stage, loopOf, ends, asserts>>
    BY <1>3 DEF Poll, Bind, ListenerHangsUp, AcceptFails, TooManyFiles, GiveUpSpare, Drop,
        ReopenSpare, OtherThread, OtherProcess, Callback, Handles, Idle, Free, peers
  <2> QED BY <2>1, CountsOfOthers DEF Running
<1>4. CASE StartListen \/ EstablishTask \/ AcceptInLoop
  <2>1. Running /\ failed' = failed
    BY <1>4, KnownUpdates
  <2>2. UNCHANGED <<ends, asserts>> /\ (StartListen => UNCHANGED <<stage, loopOf>>)
    BY <1>4 DEF StartListen, EstablishTask, AcceptInLoop, peers
  <2> QED BY <2>1, <2>2, <1>4, CountsOfOthers DEF Running
<1>5. CASE \/ AcceptToDrop \/ AddTask \/ Destroy
           \/ \E c \in Conns : PeerConnects(c) \/ PeerGivesUp(c) \/ PeerEnds(c)
  <2>1. Running /\ failed' = failed /\ UNCHANGED <<ends, asserts>>
    BY <1>5 DEF AcceptToDrop, AddTask, Destroy, PeerConnects, PeerGivesUp, PeerEnds, Callback,
        Idle, Free
  <2> QED BY <2>1, <1>5, CountsOfOthers DEF Running
<1>6. CASE UNCHANGED vars
  BY <1>6 DEF vars, peers, ends, CInv, Running, Counted
<1> QED BY <1>1, <1>2, <1>3, <1>4, <1>5, <1>6 DEF Next, LoopNext, ErrorCallback

\* The counts hold in every reachable state.
THEOREM CountInvariance == Spec => []CInv
<1>1. Init => CInv
  BY DEF Init, CInv, Counted, Running, Serving
<1>2. IInv /\ CInv /\ [Next]_vars => CInv'
  BY CountsKept
<1> QED BY <1>1, <1>2, Invariance, PTL DEF Spec

-----------------------------------------------------------------------------
\* An object has a number of the process, none or -1; a table has the numbers from 0 on;
\* who waits is a connection.
THEOREM TypeCorrect == Spec => []TypeOK
<1>1. IInv => TypeOK
  BY DEF IInv
<1> QED BY <1>1, Invariance, PTL

\* Whatever opens and closes beside it: a number an object has refers to its file, and a
\* file of an object is held by it or is the one the error callback is about to drop.
THEOREM DescriptorsCorrect == Spec => []DescriptorsMatch
<1>1. IInv => DescriptorsMatch
  BY DEF IInv, Runs, Owned, TypeOK, DescriptorsMatch
<1> QED BY <1>1, Invariance, PTL

\* The table of a loop, its epoll and the batch in hand agree however numbers are used
\* again; epoll is asked about a channel it does not know, and a connection removed that
\* the server does not have, only if the end of one has been reported twice.
THEOREM TableCorrect == Spec => []TableMatchesEpoll
<1>1. IInv /\ CInv => TableMatchesEpoll
  BY DEF IInv, CInv, Runs, TableOf, TableMatchesEpoll
<1> QED BY <1>1, Invariance, CountInvariance, PTL

\* The spare number is lost only when another thread has opened a file, or the system was
\* at its limit, while the error callback had it closed.
THEOREM SpareCorrect == Spec => []SpareTakesARace
<1>1. IInv => SpareTakesARace
  BY DEF IInv
<1> QED BY <1>1, Invariance, PTL
=============================================================================
