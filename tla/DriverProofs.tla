---------------------------- MODULE DriverProofs ----------------------------
(***************************************************************************)
(* Proofs about the OpenNIC driver.  First its rings, for every ring size, *)
(* refill step and budget and any number of receive queues.                *)
(*                                                                         *)
(* The indices of a ring are compared by their distance from the index     *)
(* that is cleaned next.  The invariant says in which order they lie, that *)
(* the descriptors between them hold consecutive packets, and that at most *)
(* one thread cleans the transmit ring.                                    *)
(*                                                                         *)
(* Then the ladders that set the device up and take it down, for any       *)
(* number of queues.                                                       *)
(***************************************************************************)
EXTENDS MCDriver, Integers, SequenceTheorems, TLAPS

\* The descriptors from index a on to index b, in a ring of n.
Dist(a, b, n) == IF b >= a THEN b - a ELSE b - a + n

\* The index k descriptors on from a.
Slot(a, k, n) == IF a + k < n THEN a + k ELSE a + k - n

\* The m descriptors from index a on hold the packets after packet f.
Holds(buf, a, m, f, n) == \A k \in 0 .. m - 1 : buf[Slot(a, k, n)] = f + k + 1

\* The packets 1, 2, ... in order.
Counted(s) == s = [i \in 1 .. Len(s) |-> i]
-----------------------------------------------------------------------------
(* The invariant *)

Index(n) == 0 .. n - 1
TxRing == [use : Index(TxCount), clean : Index(TxCount), buf : [Index(TxCount) -> Nat],
           busy : BOOLEAN, head : Index(TxCount), hw : Index(TxCount), wb : Index(TxCount),
           last : Nat, unpadded : SUBSET Nat]
RxRing == [use : Index(RxCount), clean : Index(RxCount), done : Index(RxCount),
           seen : Index(RxCount), work : Nat, buf : [Index(RxCount) -> Nat], last : Nat,
           cmpl : [Index(RxCount) -> Nat], len : Nat, empty : BOOLEAN,
           pidx : Index(RxCount), cidx : Index(RxCount), armed : BOOLEAN,
           napi : {"idle", "sched", "lost"}]
Label == {"idle", "clean", "free", "cleaned", "ring", "status", "loop", "arm"}

TypeOK ==
    /\ tx \in TxRing /\ batch \in BOOLEAN
    /\ sent \in Seq(Nat) /\ freed \in Seq(Nat)
    /\ rx \in [RxQueues -> RxRing] /\ out \in [RxQueues -> Seq(Nat)]
    /\ pc \in [Threads -> Label] /\ left \in [Threads -> Nat]

\* How far an index of the transmit ring is ahead of the one cleaned next.
Ahead(i) == Dist(tx.clean, i, TxCount)

\* Cleaned up to clean, written back up to wb, fetched up to hw, rung up to head and
\* stored up to use: in this order, and in step with the packets freed and sent.
TxOrder ==
    /\ Ahead(tx.wb) <= Ahead(tx.hw)
    /\ Ahead(tx.hw) <= Ahead(tx.head)
    /\ Ahead(tx.head) <= Ahead(tx.use)
    /\ Ahead(tx.hw) = Len(sent) - Len(freed)
    /\ Ahead(tx.use) = tx.last - Len(freed)
    /\ Holds(tx.buf, tx.clean, Ahead(tx.use), Len(freed), TxCount)
    /\ Counted(sent) /\ Counted(freed)

\* One thread cleans at a time, and not beyond what was written back.
OneCleaner ==
    /\ \A t \in Threads : pc[t] = "free" => tx.busy /\ left[t] <= Ahead(tx.wb)
    /\ \A t, u \in Threads : pc[t] = "free" /\ pc[u] = "free" => t = u

\* A packet below which the doorbell has not been rung is followed by another, for
\* which there is room.
Pending == tx.head # tx.use /\ pc["xmit"] # "ring" =>
               batch /\ ~Full(tx.use, tx.clean, TxCount)

\* A receive queue r of which o was delivered: the completions that a poll has seen
\* are packets it holds, and descriptors are posted for all packets not copied, and
\* never fewer than half a step of them.
Ordered(r, o, polling) ==
    LET held == Dist(r.clean, r.pidx, RxCount)
    IN  /\ r.done = r.clean
        /\ r.pidx = r.last % RxCount
        /\ held = r.last - Len(o)
        /\ held <= Dist(r.clean, r.use, RxCount)
        /\ Step \div 2 <= Dist(r.clean, r.use, RxCount)
        /\ polling => Dist(r.clean, r.seen, RxCount) <= held
        /\ Holds(r.buf, r.clean, held, Len(o), RxCount)
        /\ Counted(o)

\* A completion says what is in the buffer, and a length read from one that was there
\* is the length of the packet copied next: looking until the index is read, polling
\* while the poll has packets to copy.
Measured(r, looking, polling) ==
    /\ r.cmpl = r.buf
    /\ looking /\ ~r.empty => r.pidx # r.clean /\ r.len = r.buf[r.clean]
    /\ polling /\ r.done # r.seen /\ ~r.empty => r.len = r.buf[r.clean]

RxOrder(q) ==
    Ordered(rx[q], out[q], pc[q] = "loop")
    /\ Measured(rx[q], pc[q] = "status", pc[q] = "loop")

Inv == TypeOK /\ TxOrder /\ OneCleaner /\ \A q \in RxQueues : RxOrder(q)
-----------------------------------------------------------------------------
(* Indices that wrap *)

\* A remainder below twice the divisor.
LEMMA Wrap ==
    ASSUME NEW n \in Nat \ {0}, NEW x \in 0 .. 2 * n - 1
    PROVE  x % n = IF x < n THEN x ELSE x - n
  OBVIOUS

\* Next1, the index after i.
LEMMA NextIndex ==
    ASSUME NEW n \in Nat \ {0, 1}, NEW i \in Index(n)
    PROVE  Next1(i, n) = (IF i + 1 = n THEN 0 ELSE i + 1) /\ Next1(i, n) \in Index(n)
  BY DEF Index, Next1

\* Distances lie below the size of the ring, and tell its indices apart.
LEMMA Distances ==
    ASSUME NEW n \in Nat \ {0, 1}, NEW a \in Index(n), NEW b \in Index(n)
    PROVE  /\ Dist(a, b, n) \in 0 .. n - 1
           /\ Slot(a, Dist(a, b, n), n) = b
           /\ \A c \in Index(n) : Dist(a, b, n) = Dist(a, c, n) => b = c
           /\ (b + n - a) % n = Dist(a, b, n)
           /\ Full(b, a, n) <=> Dist(a, b, n) = n - 1
<1>1. /\ Dist(a, b, n) \in 0 .. n - 1
      /\ Slot(a, Dist(a, b, n), n) = b
      /\ \A c \in Index(n) : Dist(a, b, n) = Dist(a, c, n) => b = c
  BY DEF Dist, Slot, Index
<1>2. b + n - a \in 0 .. 2 * n - 1
  BY DEF Index
<1>3. (b + n - a) % n = Dist(a, b, n)
  <2> DEFINE x == b + n - a
  <2>1. x % n = IF x < n THEN x ELSE x - n
    <3>1. x \in 0 .. 2 * n - 1
      BY <1>2
    <3> HIDE DEF x
    <3> QED BY <3>1, Wrap
  <2> QED BY <2>1 DEF Dist, Index
<1>4. Full(b, a, n) <=> Dist(a, b, n) = n - 1
  BY NextIndex DEF Full, Next1, Dist, Index
<1> QED BY <1>1, <1>3, <1>4

\* The range of a distance alone.
LEMMA DistRange ==
    ASSUME NEW n \in Nat \ {0, 1}, NEW a \in Index(n), NEW b \in Index(n)
    PROVE  Dist(a, b, n) \in Int /\ Dist(a, a, n) = 0
  BY DEF Dist, Index

\* An index that moves on is one further from an index behind it.
LEMMA FarEndMoves ==
    ASSUME NEW n \in Nat \ {0, 1}, NEW a \in Index(n), NEW b \in Index(n),
           Dist(a, b, n) < n - 1
    PROVE  Dist(a, Next1(b, n), n) = Dist(a, b, n) + 1
  BY NextIndex DEF Dist, Index

\* When the index behind moves on, all others come one nearer.
LEMMA NearEndMoves ==
    ASSUME NEW n \in Nat \ {0, 1}, NEW a \in Index(n), NEW b \in Index(n),
           Dist(a, b, n) > 0
    PROVE  Dist(Next1(a, n), b, n) = Dist(a, b, n) - 1
  BY NextIndex DEF Dist, Index

\* An index that moves on by s, with room for it.
LEMMA Advances ==
    ASSUME NEW n \in Nat \ {0, 1}, NEW a \in Index(n), NEW b \in Index(n), NEW s \in Nat,
           Dist(a, b, n) + s <= n - 1
    PROVE  (b + s) % n \in Index(n) /\ Dist(a, (b + s) % n, n) = Dist(a, b, n) + s
<1> DEFINE x == b + s
           y == x % n
<1>1. x \in 0 .. 2 * n - 1 /\ x = b + s
  BY DEF Dist, Index
<1>2. y = IF x < n THEN x ELSE x - n
  <2> HIDE DEF x
  <2> QED BY <1>1, Wrap
<1> HIDE DEF x, y
<1>3. y \in Index(n) /\ Dist(a, y, n) = Dist(a, b, n) + s
  BY <1>1, <1>2 DEF Dist, Index
<1> QED BY <1>3 DEF x, y

\* A packet stored behind those that a ring holds.
LEMMA Stored ==
    ASSUME NEW n \in Nat \ {0, 1}, NEW a \in Index(n), NEW b \in Index(n),
           NEW buf \in [Index(n) -> Nat], NEW f \in Nat,
           Holds(buf, a, Dist(a, b, n), f, n)
    PROVE  Holds([buf EXCEPT ![b] = f + Dist(a, b, n) + 1], a, Dist(a, b, n) + 1, f, n)
<1> DEFINE m == Dist(a, b, n)
           w == [buf EXCEPT ![b] = f + m + 1]
<1> SUFFICES ASSUME NEW k \in 0 .. m
             PROVE  w[Slot(a, k, n)] = f + k + 1
  BY Distances DEF Holds
<1>1. m \in 0 .. n - 1
  BY Distances
<1>2. Slot(a, k, n) \in Index(n) /\ (Slot(a, k, n) = b <=> k = m)
  BY <1>1 DEF Slot, Dist, Index
<1>3. CASE k = m
  BY <1>2, <1>3
<1>4. CASE k # m
  <2>1. k \in 0 .. m - 1
    BY <1>1, <1>4
  <2>2. buf[Slot(a, k, n)] = f + k + 1
    BY <2>1 DEF Holds
  <2> QED BY <1>2, <1>4, <2>2
<1> QED BY <1>3, <1>4

\* The packet that leaves a ring is the oldest one it holds.
LEMMA Taken ==
    ASSUME NEW n \in Nat \ {0, 1}, NEW a \in Index(n), NEW buf, NEW f \in Nat,
           NEW m \in 1 .. n - 1, Holds(buf, a, m, f, n)
    PROVE  buf[a] = f + 1 /\ Holds(buf, Next1(a, n), m - 1, f + 1, n)
<1>1. Slot(a, 0, n) = a /\ 0 \in 0 .. m - 1
  BY DEF Slot, Index
<1>2. buf[a] = f + 1
  BY <1>1 DEF Holds
<1>3. ASSUME NEW k \in 0 .. m - 2
      PROVE  buf[Slot(Next1(a, n), k, n)] = f + 1 + k + 1
  <2>1. Slot(Next1(a, n), k, n) = Slot(a, k + 1, n) /\ k + 1 \in 0 .. m - 1
    BY NextIndex DEF Slot, Index
  <2>2. buf[Slot(a, k + 1, n)] = f + (k + 1) + 1
    BY <2>1 DEF Holds
  <2> QED BY <2>1, <2>2
<1> QED BY <1>2, <1>3 DEF Holds

\* The next packet at the end of a sequence of packets in order.
LEMMA CountedOn ==
    ASSUME NEW s \in Seq(Nat), Counted(s)
    PROVE  /\ Append(s, Len(s) + 1) \in Seq(Nat)
           /\ Len(Append(s, Len(s) + 1)) = Len(s) + 1
           /\ Counted(Append(s, Len(s) + 1))
<1> DEFINE t == Append(s, Len(s) + 1)
<1>1. t \in Seq(Nat) /\ Len(t) = Len(s) + 1
  BY AppendProperties
<1>2. \A i \in 1 .. Len(s) : s[i] = i
  BY DEF Counted
<1>3. \A i \in 1 .. Len(t) : t[i] = i
  BY <1>1, <1>2
<1>4. t = [i \in 1 .. Len(t) |-> i]
  BY <1>1, <1>3
<1> QED BY <1>1, <1>4 DEF Counted

\* Quotient and remainder after one more step.
LEMMA NextRemainder ==
    ASSUME NEW x \in Nat, NEW n \in Nat \ {0, 1}
    PROVE  x % n \in Index(n) /\ (x + 1) % n = Next1(x % n, n)
<1> DEFINE q == x \div n
           m == x % n
<1>1. q \in Nat /\ m \in 0 .. n - 1 /\ x = n * q + m
  <2>1. q \in Nat
    OBVIOUS
  <2>2. m \in 0 .. n - 1
    OBVIOUS
  <2>3. x = n * q + m
    OBVIOUS
  <2> QED BY <2>1, <2>2, <2>3
<1>2. \A k \in Nat, j \in 0 .. n - 1 : (n * k + j) % n = j
  OBVIOUS
<1>3. Next1(m, n) = IF m + 1 = n THEN 0 ELSE m + 1
  <2> HIDE DEF m
  <2> QED BY <1>1, NextIndex DEF Index
<1> HIDE DEF q, m
<1>4. CASE m + 1 < n
  <2>1. x + 1 = n * q + (m + 1) /\ m + 1 \in 0 .. n - 1
    BY <1>1, <1>4
  <2>2. (x + 1) % n = m + 1
    BY <1>1, <1>2, <2>1
  <2> QED BY <1>1, <1>3, <1>4, <2>2 DEF m, Index
<1>5. CASE m + 1 = n
  <2>1. n * q \in Nat /\ n * (q + 1) = n * q + n
    BY <1>1
  <2>2. x + 1 = n * (q + 1) + 0 /\ q + 1 \in Nat /\ 0 \in 0 .. n - 1
    BY <1>1, <1>5, <2>1
  <2>3. (x + 1) % n = 0
    BY <1>2, <2>2
  <2> QED BY <1>1, <1>3, <1>5, <2>3 DEF m, Index
<1> QED BY <1>1, <1>4, <1>5
-----------------------------------------------------------------------------
(* The sizes of the rings, and their indices *)

LEMMA Sizes == /\ TxCount \in Nat \ {0, 1} /\ RxCount \in Nat \ {0, 1}
               /\ Step \in Nat \ {0, 1} /\ Step \div 2 \in Nat \ {0}
               /\ Step + Step \div 2 <= RxCount
<1>1. Step \in Nat /\ Step > 1 /\ Step + Step \div 2 <= RxCount
      /\ TxCount \in Nat /\ TxCount > 1 /\ RxCount \in Nat
  BY RingsAssumption
<1>2. Step \div 2 \in Nat \ {0}
  BY <1>1
<1> QED BY <1>1, <1>2

LEMMA TxTypes ==
    ASSUME TypeOK
    PROVE  /\ tx.use \in Index(TxCount) /\ tx.clean \in Index(TxCount)
           /\ tx.head \in Index(TxCount) /\ tx.hw \in Index(TxCount)
           /\ tx.wb \in Index(TxCount) /\ tx.busy \in BOOLEAN
           /\ tx.buf \in [Index(TxCount) -> Nat] /\ tx.last \in Nat
           /\ Len(sent) \in Nat /\ Len(freed) \in Nat
  BY DEF TypeOK, TxRing

LEMMA RxTypes ==
    ASSUME TypeOK, NEW q \in RxQueues
    PROVE  /\ rx[q].use \in Index(RxCount) /\ rx[q].clean \in Index(RxCount)
           /\ rx[q].done \in Index(RxCount) /\ rx[q].seen \in Index(RxCount)
           /\ rx[q].pidx \in Index(RxCount) /\ rx[q].cidx \in Index(RxCount)
           /\ rx[q].work \in Nat /\ rx[q].last \in Nat
           /\ rx[q].buf \in [Index(RxCount) -> Nat]
           /\ rx[q].cmpl \in [Index(RxCount) -> Nat]
           /\ rx[q].len \in Nat /\ rx[q].empty \in BOOLEAN
           /\ rx[q].armed \in BOOLEAN /\ rx[q].napi \in {"idle", "sched", "lost"}
           /\ out[q] \in Seq(Nat) /\ Len(out[q]) \in Nat
           /\ rx[q] \in RxRing
<1>1. rx[q] \in RxRing /\ out[q] \in Seq(Nat)
  BY DEF TypeOK
<1>2. Len(out[q]) \in Nat
  BY <1>1
<1>3. \A r \in RxRing :
          /\ r.use \in Index(RxCount) /\ r.clean \in Index(RxCount)
          /\ r.done \in Index(RxCount) /\ r.seen \in Index(RxCount)
          /\ r.pidx \in Index(RxCount) /\ r.cidx \in Index(RxCount)
          /\ r.work \in Nat /\ r.last \in Nat
          /\ r.buf \in [Index(RxCount) -> Nat]
          /\ r.cmpl \in [Index(RxCount) -> Nat]
          /\ r.len \in Nat /\ r.empty \in BOOLEAN
          /\ r.armed \in BOOLEAN /\ r.napi \in {"idle", "sched", "lost"}
  BY DEF RxRing
<1> QED BY <1>1, <1>2, <1>3, Zenon

\* The rings start empty, the receive queues with one step of descriptors posted.
LEMMA InitInv == Init => Inv /\ Pending
<1> SUFFICES ASSUME Init PROVE Inv /\ Pending
  OBVIOUS
<1> USE Sizes DEF Init
<1>1. TypeOK
  <2>1. tx \in TxRing
    BY DEF TxRing, Index
  <2>2. \A q \in RxQueues : rx[q] \in RxRing
    <3>1. Step \in Index(RxCount) /\ 0 \in Index(RxCount)
      BY DEF Index
    <3>2. [i \in 0 .. RxCount - 1 |-> 0] \in [Index(RxCount) -> Nat]
      BY DEF Index
    <3> QED BY <3>1, <3>2 DEF RxRing
  <2>3. rx \in [RxQueues -> RxRing]
    BY <2>2
  <2>4. sent \in Seq(Nat) /\ freed \in Seq(Nat) /\ out \in [RxQueues -> Seq(Nat)]
    OBVIOUS
  <2> QED BY <2>1, <2>3, <2>4 DEF TypeOK, Label
<1>2. Counted(<< >>)
  BY DEF Counted
<1>3. TxOrder
  BY <1>2 DEF TxOrder, Ahead, Dist, Holds
<1>4. OneCleaner
  BY DEF OneCleaner
<1>5. ASSUME NEW q \in RxQueues PROVE RxOrder(q)
  <2>1. 0 % RxCount = 0
    OBVIOUS
  <2>2. Ordered(rx[q], out[q], pc[q] = "loop")
    BY <1>2, <2>1 DEF Ordered, Dist, Holds
  <2>3. Measured(rx[q], pc[q] = "status", pc[q] = "loop")
    BY DEF Measured, Threads
  <2> QED BY <2>2, <2>3 DEF RxOrder
<1>6. Pending
  BY DEF Pending
<1> QED BY <1>1, <1>3, <1>4, <1>5, <1>6 DEF Inv
-----------------------------------------------------------------------------
(* The transmit ring *)

\* What a step leaves alone.
LEMMA TxFrame == ASSUME TxOrder, UNCHANGED <<tx, sent, freed>> PROVE TxOrder'
  BY DEF TxOrder, Ahead

LEMMA RxFrame ==
    ASSUME NEW q \in RxQueues, RxOrder(q), rx'[q] = rx[q], out'[q] = out[q],
           pc'[q] = "loop" => pc[q] = "loop", pc'[q] = "status" => pc[q] = "status"
    PROVE  RxOrder(q)'
  BY DEF RxOrder, Ordered, Measured

\* onic_tx_clean, by whichever thread.
LEMMA CleanKeeps == ASSUME Inv, NEW t \in Threads, Clean(t) PROVE Inv'
<1> USE DEF Inv
<1>1. TypeOK /\ TxOrder /\ OneCleaner
  OBVIOUS
<1>2. UNCHANGED <<batch, rx, out, sent>>
  BY DEF Clean, CleanStart, CleanOne, CleanEnd
<1>3. pc \in [Threads -> Label] /\ left \in [Threads -> Nat] /\ tx \in TxRing
      /\ freed \in Seq(Nat)
  BY DEF TypeOK
<1>4. pc' \in [Threads -> Label] /\ \A u \in Threads : pc'[u] \in {"loop", "status"} => pc[u] = pc'[u]
  BY <1>3 DEF Clean, CleanStart, CleanOne, CleanEnd, Goto, Label
<1>5. \A q \in RxQueues : RxOrder(q)'
  <2> TAKE q \in RxQueues
  <2>1. q \in Threads
    BY DEF Threads
  <2> QED BY <1>2, <1>4, <2>1, RxFrame
<1> DEFINE n == TxCount
           a == tx.clean
<1>6. /\ n \in Nat \ {0, 1} /\ a \in Index(n) /\ tx.use \in Index(n) /\ tx.head \in Index(n)
      /\ tx.hw \in Index(n) /\ tx.wb \in Index(n)
  BY Sizes, TxTypes
<1>7. CASE CleanStart(t)
  <2>1. CASE MayClean(t)
    <3>1. /\ tx' = [tx EXCEPT !.busy = TRUE] /\ freed' = freed
          /\ left' = [left EXCEPT ![t] = (tx.wb + TxCount - tx.clean) % TxCount]
          /\ pc' = [pc EXCEPT ![t] = "free"] /\ ~tx.busy
      BY <1>7, <2>1 DEF CleanStart, Goto, MayClean
    <3>2. (tx.wb + TxCount - tx.clean) % TxCount = Ahead(tx.wb) /\ Ahead(tx.wb) \in Nat
      BY <1>6, Distances DEF Ahead
    <3>3. tx' \in TxRing /\ left' \in [Threads -> Nat]
      BY <1>3, <3>1, <3>2 DEF TxRing
    <3>4. TypeOK'
      BY <1>1, <1>2, <1>4, <3>1, <3>3 DEF TypeOK
    <3>5. /\ tx'.use = tx.use /\ tx'.clean = tx.clean /\ tx'.head = tx.head /\ tx'.hw = tx.hw
          /\ tx'.wb = tx.wb /\ tx'.buf = tx.buf /\ tx'.last = tx.last /\ tx'.busy
      BY <1>3, <3>1 DEF TxRing
    <3>6. TxOrder'
      BY <1>1, <1>2, <3>1, <3>5 DEF TxOrder, Ahead
    <3>7. \A u \in Threads : pc[u] # "free"
      BY <1>1, <3>1 DEF OneCleaner
    <3>8. \A u \in Threads : pc'[u] = "free" => u = t
      BY <1>3, <3>1, <3>7
    <3>9. OneCleaner'
      BY <1>3, <3>1, <3>2, <3>5, <3>8 DEF OneCleaner, Ahead
    <3> QED BY <1>5, <3>4, <3>6, <3>9
  <2>2. CASE ~MayClean(t)
    <3>1. UNCHANGED <<tx, left, freed>> /\ pc' = [pc EXCEPT ![t] = "cleaned"]
      BY <1>7, <2>2 DEF CleanStart, Goto
    <3>2. OneCleaner'
      BY <1>1, <1>3, <3>1 DEF OneCleaner, Ahead
    <3>3. TypeOK' /\ TxOrder'
      BY <1>1, <1>2, <1>4, <3>1, TxFrame DEF TypeOK
    <3> QED BY <1>5, <3>2, <3>3
  <2> QED BY <2>1, <2>2
<1>8. CASE CleanOne(t)
  <2>1. /\ pc[t] = "free" /\ left[t] > 0 /\ freed' = Append(freed, tx.buf[a])
        /\ tx' = [tx EXCEPT !.clean = Next1(a, n)]
        /\ left' = [left EXCEPT ![t] = @ - 1] /\ pc' = pc
    BY <1>8 DEF CleanOne
  <2>2. /\ tx'.use = tx.use /\ tx'.clean = Next1(a, n) /\ tx'.head = tx.head /\ tx'.hw = tx.hw
        /\ tx'.wb = tx.wb /\ tx'.buf = tx.buf /\ tx'.last = tx.last /\ tx'.busy = tx.busy
    BY <1>3, <2>1 DEF TxRing
  <2> DEFINE wb == Dist(a, tx.wb, n)  hw == Dist(a, tx.hw, n)
             hd == Dist(a, tx.head, n)  us == Dist(a, tx.use, n)
  <2>3. /\ wb \in 0 .. n - 1 /\ hw \in 0 .. n - 1 /\ hd \in 0 .. n - 1 /\ us \in 0 .. n - 1
        /\ wb <= hw /\ hw <= hd /\ hd <= us
    BY <1>1, <1>6, Distances DEF TxOrder, Ahead
  <2>4. left[t] \in Nat /\ left[t] <= wb
    BY <1>1, <1>3, <2>1 DEF OneCleaner, Ahead
  <2>5. wb > 0 /\ hw > 0 /\ hd > 0 /\ us > 0
    <3> HIDE DEF wb, hw, hd, us, n
    <3> QED BY <1>6, <2>1, <2>3, <2>4
  <2>6. /\ Dist(Next1(a, n), tx.wb, n) = wb - 1 /\ Dist(Next1(a, n), tx.hw, n) = hw - 1
        /\ Dist(Next1(a, n), tx.head, n) = hd - 1 /\ Dist(Next1(a, n), tx.use, n) = us - 1
    BY <1>6, <2>5, NearEndMoves
  <2>7. /\ hw = Len(sent) - Len(freed) /\ us = tx.last - Len(freed)
        /\ Holds(tx.buf, a, us, Len(freed), n) /\ Counted(sent) /\ Counted(freed)
    BY <1>1 DEF TxOrder, Ahead
  <2>8. Len(sent) \in Nat /\ Len(freed) \in Nat /\ tx.last \in Nat
    BY TxTypes
  <2>9. us \in 1 .. n - 1
    <3> HIDE DEF us, n
    <3> QED BY <1>6, <2>3, <2>5
  <2>10. tx.buf[a] = Len(freed) + 1 /\ Holds(tx.buf, Next1(a, n), us - 1, Len(freed) + 1, n)
    <3> HIDE DEF us, n, a
    <3> QED BY <1>6, <2>7, <2>8, <2>9, Taken
  <2>11. freed' \in Seq(Nat) /\ Len(freed') = Len(freed) + 1 /\ Counted(freed')
    BY <1>3, <2>1, <2>7, <2>10, CountedOn
  <2>12. TypeOK'
    <3>1. Next1(a, n) \in Index(n)
      BY <1>6, NextIndex
    <3>2. tx' \in TxRing
      BY <1>3, <2>1, <3>1 DEF TxRing
    <3>3. left' \in [Threads -> Nat]
      BY <1>3, <2>1
    <3> QED BY <1>1, <1>2, <2>1, <2>11, <3>2, <3>3 DEF TypeOK
  <2>13. TxOrder'
    <3>1. /\ Ahead(tx.wb)' = wb - 1 /\ Ahead(tx.hw)' = hw - 1
          /\ Ahead(tx.head)' = hd - 1 /\ Ahead(tx.use)' = us - 1
      BY <2>2, <2>6 DEF Ahead
    <3> HIDE DEF wb, hw, hd, us
    <3>2. Holds(tx.buf, tx.clean, Ahead(tx.use), Len(freed), TxCount)'
      <4>1. Holds(tx'.buf, tx'.clean, Ahead(tx.use)', Len(freed'), TxCount)
        BY <2>2, <2>10, <2>11, <3>1
      <4> QED BY <4>1 DEF Holds
    <3>3. /\ Ahead(tx.wb)' <= Ahead(tx.hw)' /\ Ahead(tx.hw)' <= Ahead(tx.head)'
          /\ Ahead(tx.head)' <= Ahead(tx.use)'
      BY <1>6, <2>3, <3>1
    <3>5. /\ Ahead(tx.hw)' = Len(sent)' - Len(freed)' /\ Ahead(tx.use)' = tx'.last - Len(freed)'
      <4>1. hw - 1 = Len(sent) - (Len(freed) + 1) /\ us - 1 = tx.last - (Len(freed) + 1)
        <5>1. \A x, y \in Nat : x - y - 1 = x - (y + 1)
          OBVIOUS
        <5> QED BY <2>7, <2>8, <5>1
      <4> QED BY <1>2, <2>2, <2>11, <3>1, <4>1
    <3>4. Counted(sent)' /\ Counted(freed)'
      BY <1>2, <2>7, <2>11 DEF Counted
    <3> QED BY <3>2, <3>3, <3>4, <3>5 DEF TxOrder
  <2>14. OneCleaner'
    <3>1. \A u \in Threads : pc[u] = "free" => u = t
      BY <1>1, <2>1 DEF OneCleaner
    <3>2. tx'.busy /\ left'[t] = left[t] - 1
      BY <1>1, <1>3, <2>1, <2>2 DEF OneCleaner
    <3>3. Ahead(tx.wb)' = wb - 1
      BY <2>2, <2>6 DEF Ahead
    <3>4. left'[t] <= Ahead(tx.wb)'
      <4> HIDE DEF wb
      <4> QED BY <1>6, <2>3, <2>4, <3>2, <3>3
    <3> QED BY <2>1, <3>1, <3>2, <3>4 DEF OneCleaner
  <2> QED BY <1>5, <2>12, <2>13, <2>14
<1>9. CASE CleanEnd(t)
  <2>1. /\ tx' = [tx EXCEPT !.busy = FALSE] /\ UNCHANGED <<freed, left>>
        /\ pc' = [pc EXCEPT ![t] = "cleaned"] /\ pc[t] = "free"
    BY <1>9 DEF CleanEnd, Goto
  <2>2. /\ tx'.use = tx.use /\ tx'.clean = tx.clean /\ tx'.head = tx.head /\ tx'.hw = tx.hw
        /\ tx'.wb = tx.wb /\ tx'.buf = tx.buf /\ tx'.last = tx.last /\ tx' \in TxRing
    BY <1>3, <2>1 DEF TxRing
  <2>3. TxOrder'
    BY <1>1, <1>2, <2>1, <2>2 DEF TxOrder, Ahead
  <2>4. \A u \in Threads : pc'[u] # "free"
    BY <1>1, <1>3, <2>1 DEF OneCleaner
  <2>5. OneCleaner'
    BY <2>4 DEF OneCleaner
  <2>6. TypeOK'
    BY <1>1, <1>2, <1>4, <2>1, <2>2 DEF TypeOK
  <2> QED BY <1>5, <2>3, <2>5, <2>6
<1> QED BY <1>7, <1>8, <1>9 DEF Clean

\* A step that leaves the index that is cleaned next and the receive queues alone.
LEMMA TxStepKeeps ==
    ASSUME Inv, TxOrder', tx' \in TxRing, sent' \in Seq(Nat), batch' \in BOOLEAN,
           tx'.clean = tx.clean, tx'.busy = tx.busy, Ahead(tx.wb) <= Ahead(tx.wb)',
           UNCHANGED <<freed, rx, out, left>>, pc' \in [Threads -> Label],
           \A u \in Threads : pc'[u] \in {"free", "loop", "status"} => pc[u] = pc'[u]
    PROVE  Inv'
<1> USE DEF Inv
<1>1. TypeOK'
  BY DEF TypeOK
<1>2. \A q \in RxQueues : RxOrder(q)'
  BY RxFrame DEF Threads
<1>3. Ahead(tx.wb) \in Nat /\ Ahead(tx.wb)' \in Nat
  <2>1. TxCount \in Nat \ {0, 1}
    BY Sizes
  <2>2. /\ tx.clean \in Index(TxCount) /\ tx.wb \in Index(TxCount)
        /\ tx'.clean \in Index(TxCount) /\ tx'.wb \in Index(TxCount)
    BY DEF TypeOK, TxRing
  <2> QED BY <2>1, <2>2, Distances DEF Ahead
<1>4. OneCleaner'
  <2>1. \A t \in Threads : pc'[t] = "free" => pc[t] = "free"
    OBVIOUS
  <2>2. \A t \in Threads : pc[t] = "free" => tx.busy /\ left[t] <= Ahead(tx.wb)
    BY DEF OneCleaner
  <2>3. \A t \in Threads : left[t] \in Nat
    BY DEF TypeOK
  <2>4. \A t \in Threads : pc'[t] = "free" => tx'.busy /\ left'[t] <= Ahead(tx.wb)'
    BY <1>3, <2>1, <2>2, <2>3
  <2> QED BY <2>1, <2>4 DEF OneCleaner
<1> QED BY <1>1, <1>2, <1>4

\* A step of the transmitting thread that leaves the ring alone.
LEMMA ControlKeeps ==
    ASSUME Inv, NEW t \in Threads, NEW l \in Label \ {"free", "loop", "status"},
           pc' = [pc EXCEPT ![t] = l], batch' \in BOOLEAN,
           UNCHANGED <<tx, sent, freed, rx, out, left>>
    PROVE  Inv'
<1>1. TypeOK /\ TxOrder
  BY DEF Inv
<1>2. TxOrder'
  BY <1>1, TxFrame
<1>3. /\ tx' \in TxRing /\ sent' \in Seq(Nat) /\ pc' \in [Threads -> Label]
      /\ \A u \in Threads : pc'[u] \in {"free", "loop", "status"} => pc[u] = pc'[u]
  BY <1>1 DEF TypeOK
<1>4. Ahead(tx.wb) <= Ahead(tx.wb)'
  <2>1. Ahead(tx.wb) \in Nat
    <3>1. TxCount \in Nat \ {0, 1}
      BY Sizes
    <3>2. tx.clean \in Index(TxCount) /\ tx.wb \in Index(TxCount)
      BY <1>1, TxTypes
    <3> QED BY <3>1, <3>2, Distances DEF Ahead
  <2>2. Ahead(tx.wb)' = Ahead(tx.wb)
    BY DEF Ahead
  <2> QED BY <2>1, <2>2
<1> QED BY <1>2, <1>3, <1>4, TxStepKeeps

LEMMA XmitStartKeeps == ASSUME Inv, XmitStart PROVE Inv'
<1>1. "xmit" \in Threads /\ "clean" \in Label \ {"free", "loop", "status"} /\ batch' \in BOOLEAN
  BY DEF Threads, Label, Inv, TypeOK, XmitStart
<1> QED BY <1>1, ControlKeeps DEF XmitStart, Goto

LEMMA XmitBusyKeeps == ASSUME Inv, XmitBusy PROVE Inv'
<1>1. "xmit" \in Threads /\ "idle" \in Label \ {"free", "loop", "status"} /\ batch' \in BOOLEAN
  BY DEF Threads, Label, XmitBusy
<1> QED BY <1>1, ControlKeeps DEF XmitBusy, Goto

\* The distances in the transmit ring, and what they bound.
LEMMA TxFacts ==
    ASSUME Inv
    PROVE  /\ TxCount \in Nat \ {0, 1}
           /\ Ahead(tx.wb) \in 0 .. TxCount - 1 /\ Ahead(tx.hw) \in 0 .. TxCount - 1
           /\ Ahead(tx.head) \in 0 .. TxCount - 1 /\ Ahead(tx.use) \in 0 .. TxCount - 1
           /\ Ahead(tx.wb) <= Ahead(tx.hw) /\ Ahead(tx.hw) <= Ahead(tx.head)
           /\ Ahead(tx.head) <= Ahead(tx.use)
           /\ Len(sent) = Len(freed) + Ahead(tx.hw) /\ tx.last = Len(freed) + Ahead(tx.use)
<1>1. TypeOK /\ TxOrder
  BY DEF Inv
<1>2. /\ TxCount \in Nat \ {0, 1}
      /\ Ahead(tx.wb) \in 0 .. TxCount - 1 /\ Ahead(tx.hw) \in 0 .. TxCount - 1
      /\ Ahead(tx.head) \in 0 .. TxCount - 1 /\ Ahead(tx.use) \in 0 .. TxCount - 1
  BY <1>1, Sizes, TxTypes, Distances DEF Ahead
<1>3. \A x, y \in Nat : x = y + (x - y)
  OBVIOUS
<1>4. Len(sent) = Len(freed) + Ahead(tx.hw) /\ tx.last = Len(freed) + Ahead(tx.use)
  BY <1>1, <1>3, TxTypes DEF TxOrder
<1> QED BY <1>1, <1>2, <1>4 DEF TxOrder

\* The ring is not full, so the packet goes behind those it holds.
LEMMA XmitStoreKeeps == ASSUME Inv, XmitStore PROVE Inv'
<1> PICK lost \in SUBSET ({tx.last + 1} \cap Short) :
         tx' = [tx EXCEPT !.buf[tx.use] = tx.last + 1, !.last = @ + 1,
                          !.use = Next1(@, TxCount), !.unpadded = @ \cup lost]
  BY DEF XmitStore
<1> DEFINE n == TxCount
           us == Ahead(tx.use)
<1>1. TypeOK /\ TxOrder /\ TxCount \in Nat \ {0, 1}
  BY Sizes DEF Inv
<1>2. /\ tx' = [tx EXCEPT !.buf[tx.use] = tx.last + 1, !.last = @ + 1,
                          !.use = Next1(@, TxCount), !.unpadded = @ \cup lost]
      /\ ~Full(tx.use, tx.clean, TxCount) /\ pc' = [pc EXCEPT !["xmit"] = "ring"]
      /\ UNCHANGED <<batch, sent, freed, rx, out, left>>
  BY DEF XmitStore, Goto
<1>3. tx \in TxRing /\ batch \in BOOLEAN /\ sent \in Seq(Nat) /\ pc \in [Threads -> Label]
  BY <1>1 DEF TypeOK
<1>4. /\ tx'.use = Next1(tx.use, n) /\ tx'.clean = tx.clean /\ tx'.head = tx.head
      /\ tx'.hw = tx.hw /\ tx'.wb = tx.wb /\ tx'.last = tx.last + 1 /\ tx'.busy = tx.busy
      /\ tx'.buf = [tx.buf EXCEPT ![tx.use] = tx.last + 1]
  BY <1>2, <1>3 DEF TxRing
<1>5. Ahead(tx.wb)' = Ahead(tx.wb) /\ Ahead(tx.hw)' = Ahead(tx.hw)
      /\ Ahead(tx.head)' = Ahead(tx.head)
  BY <1>4 DEF Ahead
<1>6. us < n - 1
  <2>1. us # n - 1
    BY <1>1, <1>2, TxTypes, Distances DEF Ahead
  <2> HIDE DEF us
  <2> QED BY <2>1, TxFacts DEF us
<1>7. Ahead(tx.use)' = us + 1
  BY <1>1, <1>4, <1>6, TxTypes, FarEndMoves DEF Ahead
<1>8. tx.last + 1 = Len(freed) + us + 1
  BY TxFacts, TxTypes, <1>1
<1>9. Holds(tx'.buf, tx.clean, us + 1, Len(freed), n)
  <2>1. Holds(tx.buf, tx.clean, us, Len(freed), n)
    BY <1>1 DEF TxOrder
  <2>2. Holds([tx.buf EXCEPT ![tx.use] = Len(freed) + us + 1], tx.clean, us + 1, Len(freed), n)
    BY <1>1, <2>1, TxTypes, Stored DEF Ahead
  <2> QED BY <1>4, <1>8, <2>2
<1>10. TxOrder'
  <2>1. Holds(tx.buf, tx.clean, Ahead(tx.use), Len(freed), TxCount)'
    <3>1. Holds(tx'.buf, tx'.clean, Ahead(tx.use)', Len(freed'), TxCount)
      BY <1>2, <1>4, <1>7, <1>9
    <3> QED BY <3>1 DEF Holds
  <2>2. Ahead(tx.head)' <= Ahead(tx.use)'
    <3> HIDE DEF us
    <3>1. Ahead(tx.head) <= us /\ us \in Nat /\ Ahead(tx.head) \in Nat
      BY TxFacts DEF us
    <3> QED BY <1>5, <1>7, <3>1
  <2>3. Ahead(tx.use)' = tx'.last - Len(freed')
    <3> HIDE DEF us
    <3>1. us \in Nat /\ Len(freed) \in Nat
      BY TxFacts, TxTypes, <1>1 DEF us
    <3>2. \A x, y \in Nat : x + 1 = y + x + 1 - y
      OBVIOUS
    <3> QED BY <1>2, <1>4, <1>7, <1>8, <3>1, <3>2
  <2>4. /\ Ahead(tx.wb)' <= Ahead(tx.hw)' /\ Ahead(tx.hw)' <= Ahead(tx.head)'
        /\ Ahead(tx.hw)' = Len(sent') - Len(freed') /\ Counted(sent') /\ Counted(freed')
    BY <1>1, <1>2, <1>5 DEF TxOrder
  <2>5. Counted(sent)' /\ Counted(freed)'
    BY <2>4 DEF Counted
  <2> QED BY <2>1, <2>2, <2>3, <2>4, <2>5 DEF TxOrder
<1>11. tx' \in TxRing
  <2>1. Next1(tx.use, n) \in Index(n) /\ tx.last + 1 \in Nat
    BY <1>1, TxTypes, NextIndex
  <2> DEFINE w == tx.unpadded \cup lost
             b == [tx.buf EXCEPT ![tx.use] = tx.last + 1]
             m == tx.last + 1
             u == Next1(tx.use, n)
  <2>2. w \in SUBSET Nat
    <3>1. tx.unpadded \subseteq Nat
      BY <1>3 DEF TxRing
    <3>2. lost \subseteq Short /\ Short \subseteq Nat
      BY RingsAssumption
    <3> QED BY <3>1, <3>2
  <2>3. b \in [Index(TxCount) -> Nat]
    BY <1>1, <2>1, TxTypes
  <2>4. tx' = [tx EXCEPT !.buf = b, !.last = m, !.use = u, !.unpadded = w]
    BY <1>2
  <2> HIDE DEF w, b, m, u
  <2>5. m \in Nat /\ u \in Index(TxCount)
    BY <2>1 DEF m, u
  <2> QED BY <1>3, <2>2, <2>3, <2>4, <2>5 DEF TxRing
<1>12. /\ pc' \in [Threads -> Label]
       /\ \A u \in Threads : pc'[u] \in {"free", "loop", "status"} => pc[u] = pc'[u]
  BY <1>2, <1>3 DEF Label
<1>13. Ahead(tx.wb) <= Ahead(tx.wb)'
  BY <1>5, TxFacts
<1> QED BY <1>2, <1>3, <1>4, <1>10, <1>11, <1>12, <1>13, TxStepKeeps

\* The doorbell is rung for all that the ring holds, or for nothing more.
LEMMA XmitRingKeeps == ASSUME Inv, XmitRing PROVE Inv'
<1>1. TypeOK /\ TxOrder
  BY DEF Inv
<1>2. tx \in TxRing /\ sent \in Seq(Nat) /\ pc \in [Threads -> Label]
  BY <1>1 DEF TypeOK
<1>3. /\ UNCHANGED <<sent, freed, rx, out, left>> /\ pc' = [pc EXCEPT !["xmit"] = "idle"]
      /\ batch' \in BOOLEAN
  BY DEF XmitRing, Goto
<1>4. CASE tx' = tx
  <2>1. "xmit" \in Threads /\ "idle" \in Label \ {"free", "loop", "status"}
    BY DEF Threads, Label
  <2> QED BY <1>3, <1>4, <2>1, ControlKeeps
<1>5. CASE tx' = [tx EXCEPT !.head = tx.use]
  <2>1. /\ tx'.use = tx.use /\ tx'.clean = tx.clean /\ tx'.head = tx.use /\ tx'.hw = tx.hw
        /\ tx'.wb = tx.wb /\ tx'.buf = tx.buf /\ tx'.last = tx.last /\ tx'.busy = tx.busy
        /\ tx' \in TxRing
    BY <1>2, <1>5 DEF TxRing
  <2>2. /\ Ahead(tx.wb)' = Ahead(tx.wb) /\ Ahead(tx.hw)' = Ahead(tx.hw)
        /\ Ahead(tx.head)' = Ahead(tx.use) /\ Ahead(tx.use)' = Ahead(tx.use)
    BY <2>1 DEF Ahead
  <2>3. /\ Ahead(tx.hw)' <= Ahead(tx.head)' /\ Ahead(tx.head)' <= Ahead(tx.use)'
        /\ Ahead(tx.wb) <= Ahead(tx.wb)'
    BY <2>2, TxFacts
  <2>4. TxOrder'
    <3>1. Holds(tx.buf, tx.clean, Ahead(tx.use), Len(freed), TxCount)'
      BY <1>1, <1>3, <2>1, <2>2 DEF TxOrder, Holds
    <3>2. Counted(sent)' /\ Counted(freed)'
      BY <1>1, <1>3 DEF TxOrder, Counted
    <3> QED BY <1>1, <1>3, <2>1, <2>2, <2>3, <3>1, <3>2 DEF TxOrder
  <2>5. /\ pc' \in [Threads -> Label]
        /\ \A u \in Threads : pc'[u] \in {"free", "loop", "status"} => pc[u] = pc'[u]
    BY <1>2, <1>3 DEF Label
  <2> QED BY <1>2, <1>3, <2>1, <2>3, <2>4, <2>5, TxStepKeeps
<1> QED BY <1>4, <1>5 DEF XmitRing

\* What the hardware fetches below the doorbell is the packet after the last one sent.
LEMMA FetchKeeps == ASSUME Inv, Fetch PROVE Inv'
<1> DEFINE n == TxCount
           hw == Ahead(tx.hw)
<1>1. TypeOK /\ TxOrder /\ TxCount \in Nat \ {0, 1}
  BY Sizes DEF Inv
<1>2. tx \in TxRing /\ sent \in Seq(Nat) /\ pc \in [Threads -> Label] /\ batch \in BOOLEAN
  BY <1>1 DEF TypeOK
<1>3. /\ tx.hw # tx.head /\ sent' = Append(sent, tx.buf[tx.hw])
      /\ tx' = [tx EXCEPT !.hw = Next1(@, TxCount)]
      /\ UNCHANGED <<batch, freed, rx, out, pc, left>>
  BY DEF Fetch
<1>4. /\ tx'.use = tx.use /\ tx'.clean = tx.clean /\ tx'.head = tx.head
      /\ tx'.hw = Next1(tx.hw, n) /\ tx'.wb = tx.wb /\ tx'.buf = tx.buf
      /\ tx'.last = tx.last /\ tx'.busy = tx.busy
  BY <1>2, <1>3 DEF TxRing
<1>5. tx' \in TxRing
  <2>1. Next1(tx.hw, n) \in Index(n)
    BY <1>1, TxTypes, NextIndex
  <2> QED BY <1>2, <1>3, <2>1 DEF TxRing
<1>6. hw < Ahead(tx.head)
  <2>1. hw # Ahead(tx.head)
    BY <1>1, <1>3, TxTypes, Distances DEF Ahead
  <2> HIDE DEF hw
  <2> QED BY <2>1, TxFacts DEF hw
<1>7. hw \in Nat /\ hw < n - 1 /\ hw \in 0 .. Ahead(tx.use) - 1
  <2>1. hw \in Nat /\ hw < Ahead(tx.head)
    BY <1>6, TxFacts
  <2> HIDE DEF hw
  <2> QED BY <2>1, TxFacts
<1>8. Ahead(tx.hw)' = hw + 1
  BY <1>1, <1>4, <1>7, TxTypes, FarEndMoves DEF Ahead
<1>9. tx.buf[tx.hw] = Len(sent) + 1
  <2>1. Slot(tx.clean, hw, n) = tx.hw
    <3>1. tx.clean \in Index(n) /\ tx.hw \in Index(n)
      BY <1>1, TxTypes
    <3> QED BY <1>1, <3>1, Distances DEF Ahead
  <2>2. tx.buf[Slot(tx.clean, hw, n)] = Len(freed) + hw + 1
    BY <1>1, <1>7 DEF TxOrder, Holds
  <2>3. Len(sent) = Len(freed) + hw
    BY TxFacts
  <2> QED BY <2>1, <2>2, <2>3
<1>10. sent' \in Seq(Nat) /\ Len(sent') = Len(sent) + 1 /\ Counted(sent')
  <2>1. Counted(sent)
    BY <1>1 DEF TxOrder
  <2> QED BY <1>2, <1>3, <1>9, <2>1, CountedOn
<1>11. Ahead(tx.wb)' = Ahead(tx.wb) /\ Ahead(tx.head)' = Ahead(tx.head)
       /\ Ahead(tx.use)' = Ahead(tx.use)
  BY <1>4 DEF Ahead
<1>12. Ahead(tx.wb)' <= Ahead(tx.hw)' /\ Ahead(tx.hw)' <= Ahead(tx.head)'
       /\ Ahead(tx.wb) <= Ahead(tx.wb)'
  <2>1. Ahead(tx.wb) \in Nat /\ Ahead(tx.wb) <= hw /\ Ahead(tx.head) \in Nat
    BY TxFacts
  <2> HIDE DEF hw
  <2> QED BY <1>6, <1>7, <1>8, <1>11, <2>1
<1>13. TxOrder'
  <2>1. Holds(tx.buf, tx.clean, Ahead(tx.use), Len(freed), TxCount)'
    BY <1>1, <1>3, <1>4, <1>11 DEF TxOrder, Holds
  <2>2. Counted(sent)' /\ Counted(freed)'
    BY <1>1, <1>3, <1>10 DEF TxOrder, Counted
  <2>3. Ahead(tx.hw)' = Len(sent') - Len(freed')
    <3>1. Len(sent) = Len(freed) + hw /\ Len(freed) \in Nat
      BY <1>1, TxFacts, TxTypes
    <3>2. \A x, y \in Nat : x + 1 = y + x + 1 - y
      OBVIOUS
    <3> HIDE DEF hw
    <3> QED BY <1>3, <1>7, <1>8, <1>10, <3>1, <3>2
  <2> QED BY <1>1, <1>3, <1>4, <1>11, <1>12, <2>1, <2>2, <2>3 DEF TxOrder
<1>14. /\ pc' \in [Threads -> Label]
       /\ \A u \in Threads : pc'[u] \in {"free", "loop", "status"} => pc[u] = pc'[u]
  BY <1>2, <1>3
<1> QED BY <1>2, <1>3, <1>4, <1>5, <1>10, <1>12, <1>13, <1>14, TxStepKeeps

\* The index written back is the one fetched up to.
LEMMA WriteBackKeeps == ASSUME Inv, WriteBack PROVE Inv'
<1>1. TypeOK /\ TxOrder
  BY DEF Inv
<1>2. tx \in TxRing /\ sent \in Seq(Nat) /\ pc \in [Threads -> Label] /\ batch \in BOOLEAN
  BY <1>1 DEF TypeOK
<1>3. tx' = [tx EXCEPT !.wb = tx.hw] /\ UNCHANGED <<batch, sent, freed, rx, out, pc, left>>
  BY DEF WriteBack
<1>4. /\ tx'.use = tx.use /\ tx'.clean = tx.clean /\ tx'.head = tx.head /\ tx'.hw = tx.hw
      /\ tx'.wb = tx.hw /\ tx'.buf = tx.buf /\ tx'.last = tx.last /\ tx'.busy = tx.busy
      /\ tx' \in TxRing
  BY <1>2, <1>3 DEF TxRing
<1>5. /\ Ahead(tx.wb)' = Ahead(tx.hw) /\ Ahead(tx.hw)' = Ahead(tx.hw)
      /\ Ahead(tx.head)' = Ahead(tx.head) /\ Ahead(tx.use)' = Ahead(tx.use)
  BY <1>4 DEF Ahead
<1>6. Ahead(tx.wb)' <= Ahead(tx.hw)' /\ Ahead(tx.wb) <= Ahead(tx.wb)'
  BY <1>5, TxFacts
<1>7. TxOrder'
  <2>1. Holds(tx.buf, tx.clean, Ahead(tx.use), Len(freed), TxCount)'
    BY <1>1, <1>3, <1>4, <1>5 DEF TxOrder, Holds
  <2>2. Counted(sent)' /\ Counted(freed)'
    BY <1>1, <1>3 DEF TxOrder, Counted
  <2> QED BY <1>1, <1>3, <1>4, <1>5, <1>6, <2>1, <2>2 DEF TxOrder
<1> QED BY <1>2, <1>3, <1>4, <1>6, <1>7, TxStepKeeps
-----------------------------------------------------------------------------
(* The receive queues *)

\* A step of queue q, or of its hardware.
LEMMA RxStepKeeps ==
    ASSUME Inv, NEW q \in RxQueues, NEW r \in RxRing, NEW o \in Seq(Nat),
           rx' = [rx EXCEPT ![q] = r], out' = [out EXCEPT ![q] = o],
           Ordered(r, o, pc'[q] = "loop"),
           Measured(r, pc'[q] = "status", pc'[q] = "loop"),
           UNCHANGED <<tx, batch, sent, freed, left>>,
           NEW l \in Label \ {"free"}, pc' = [pc EXCEPT ![q] = l] \/ pc' = pc
    PROVE  Inv'
<1> USE DEF Inv
<1>1. /\ rx \in [RxQueues -> RxRing] /\ out \in [RxQueues -> Seq(Nat)]
      /\ pc \in [Threads -> Label] /\ RxQueues \subseteq Threads
  BY DEF TypeOK, Threads
<1>2. /\ rx' \in [RxQueues -> RxRing] /\ out' \in [RxQueues -> Seq(Nat)]
      /\ pc' \in [Threads -> Label]
  BY <1>1
<1>3. TypeOK'
  BY <1>2 DEF TypeOK
<1>4. TxOrder'
  BY TxFrame
<1>5. OneCleaner'
  <2>1. \A t \in Threads : pc'[t] = "free" => pc[t] = "free"
    BY <1>1
  <2> QED BY <2>1 DEF OneCleaner, Ahead
<1>6. ASSUME NEW p \in RxQueues PROVE RxOrder(p)'
  <2>1. CASE p = q
    <3>1. rx'[q] = r /\ out'[q] = o
      BY <1>1
    <3> QED BY <2>1, <3>1 DEF RxOrder
  <2>2. CASE p # q
    <3>1. rx'[p] = rx[p] /\ out'[p] = out[p] /\ pc'[p] = pc[p]
      BY <1>1, <2>2
    <3> QED BY <3>1, RxFrame
  <2> QED BY <2>1, <2>2
<1> QED BY <1>3, <1>4, <1>5, <1>6

\* The indices, the descriptors and what was copied stay: so does the order.
LEMMA SameOrder ==
    ASSUME NEW r, NEW s, NEW o, NEW p \in BOOLEAN, NEW p1 \in BOOLEAN, Ordered(r, o, p),
           s.clean = r.clean, s.done = r.done, s.pidx = r.pidx, s.last = r.last,
           s.use = r.use, s.buf = r.buf,
           p1 => Dist(s.clean, s.seen, RxCount) <= Dist(s.clean, s.pidx, RxCount)
    PROVE  Ordered(s, o, p1)
  BY DEF Ordered

\* onic_q_handler takes no packet.
LEMMA InterruptKeeps ==
    ASSUME NEW r \in RxRing, NEW o, NEW l \in BOOLEAN, NEW p \in BOOLEAN,
           Ordered(r, o, p), Measured(r, l, p)
    PROVE  /\ Interrupt(r) \in RxRing
           /\ Ordered(Interrupt(r), o, p) /\ Measured(Interrupt(r), l, p)
<1> DEFINE s == Interrupt(r)
<1>1. s \in RxRing /\ s.clean = r.clean /\ s.done = r.done /\ s.pidx = r.pidx
      /\ s.last = r.last /\ s.use = r.use /\ s.buf = r.buf /\ s.seen = r.seen
      /\ s.cmpl = r.cmpl /\ s.len = r.len /\ s.empty = r.empty
  BY DEF RxRing, Interrupt
<1>2. p => Dist(s.clean, s.seen, RxCount) <= Dist(s.clean, s.pidx, RxCount)
  BY <1>1 DEF Ordered
<1> HIDE DEF s
<1>3. Ordered(s, o, p)
  BY <1>1, <1>2, SameOrder
<1>4. Measured(s, l, p)
  BY <1>1 DEF Measured
<1> QED BY <1>1, <1>3, <1>4 DEF s

\* The distances in a receive queue.
LEMMA RxFacts ==
    ASSUME NEW r \in RxRing
    PROVE  /\ RxCount \in Nat \ {0, 1}
           /\ r.clean \in Index(RxCount) /\ r.pidx \in Index(RxCount)
           /\ r.use \in Index(RxCount) /\ r.seen \in Index(RxCount)
           /\ r.buf \in [Index(RxCount) -> Nat] /\ r.last \in Nat
           /\ Dist(r.clean, r.pidx, RxCount) \in 0 .. RxCount - 1
           /\ Dist(r.clean, r.use, RxCount) \in 0 .. RxCount - 1
           /\ Dist(r.clean, r.seen, RxCount) \in 0 .. RxCount - 1
<1>1. RxCount \in Nat \ {0, 1}
  BY Sizes
<1>2. /\ r.clean \in Index(RxCount) /\ r.pidx \in Index(RxCount)
      /\ r.use \in Index(RxCount) /\ r.seen \in Index(RxCount)
      /\ r.buf \in [Index(RxCount) -> Nat] /\ r.last \in Nat
  BY DEF RxRing
<1> QED BY <1>1, <1>2, Distances

\* A packet takes the next descriptor posted, which no packet holds.
LEMMA Arrives ==
    ASSUME NEW r \in RxRing, NEW o \in Seq(Nat), NEW p \in BOOLEAN, Ordered(r, o, p),
           NEW l \in BOOLEAN, Measured(r, l, p), r.pidx # r.use, NEW s,
           s.clean = r.clean, s.done = r.done, s.use = r.use, s.seen = r.seen,
           s.pidx = Next1(r.pidx, RxCount), s.last = r.last + 1,
           s.len = r.len, s.empty = r.empty, s.cmpl = s.buf,
           s.buf = [r.buf EXCEPT ![r.pidx] = r.last + 1]
    PROVE  Ordered(s, o, p) /\ Measured(s, l, p)
<1> DEFINE n == RxCount
           a == r.clean
           held == Dist(r.clean, r.pidx, RxCount)
           post == Dist(r.clean, r.use, RxCount)
<1>1. /\ n \in Nat \ {0, 1} /\ a \in Index(n) /\ r.pidx \in Index(n) /\ r.use \in Index(n)
      /\ r.buf \in [Index(n) -> Nat] /\ r.last \in Nat /\ Len(o) \in Nat
      /\ held \in 0 .. n - 1 /\ post \in 0 .. n - 1 /\ r.seen \in Index(n)
      /\ Dist(a, r.seen, n) \in 0 .. n - 1
  BY RxFacts
<1>2. /\ r.done = a /\ r.pidx = r.last % n /\ held = r.last - Len(o) /\ held <= post
      /\ Step \div 2 <= post
      /\ p => Dist(a, r.seen, n) <= held
      /\ Holds(r.buf, a, held, Len(o), n) /\ Counted(o)
  BY DEF Ordered
<1>3. Next1(r.pidx, n) = (r.last + 1) % n /\ Next1(r.pidx, n) \in Index(n)
  BY <1>1, <1>2, NextRemainder, NextIndex
<1>7. held < post
  <2>1. held # post
    BY <1>1, <1>2, Distances
  <2> HIDE DEF held, post, n
  <2> QED BY <1>1, <1>2, <2>1
<1>8. held < n - 1
  <2> HIDE DEF held, post, n
  <2> QED BY <1>1, <1>7
<1>9. Dist(a, Next1(r.pidx, n), n) = held + 1
  BY <1>1, <1>8, FarEndMoves
<1>10. r.last + 1 = Len(o) + held + 1
  <2>1. \A x, y \in Nat : x + 1 = y + (x - y) + 1
    OBVIOUS
  <2> QED BY <1>1, <1>2, <2>1
<1>11. Holds(s.buf, a, held + 1, Len(o), n)
  <2>1. Holds([r.buf EXCEPT ![r.pidx] = Len(o) + held + 1], a, held + 1, Len(o), n)
    BY <1>1, <1>2, Stored
  <2> QED BY <1>10, <2>1
<1>12. held + 1 = (r.last + 1) - Len(o)
  <2>1. \A x, y \in Nat : (x - y) + 1 = (x + 1) - y
    OBVIOUS
  <2> QED BY <1>1, <1>2, <2>1
<1>13. held + 1 <= post /\ (p => Dist(a, r.seen, n) <= held + 1)
  <2> DEFINE se == Dist(a, r.seen, n)
  <2> HIDE DEF held, post, n, se
  <2> QED BY <1>1, <1>2, <1>7 DEF se
<1>14. Ordered(s, o, p)
  <2>1. Dist(s.clean, s.pidx, n) = held + 1 /\ Dist(s.clean, s.use, n) = post
        /\ Dist(s.clean, s.seen, n) = Dist(a, r.seen, n)
    BY <1>9
  <2>2. s.done = s.clean /\ s.pidx = s.last % n /\ held + 1 = s.last - Len(o)
    <3>1. s.done = s.clean
      BY <1>2
    <3>2. s.pidx = s.last % n
      BY <1>3, Zenon
    <3>3. held + 1 = s.last - Len(o)
      BY <1>12
    <3> QED BY <3>1, <3>2, <3>3
  <2>3. Holds(s.buf, s.clean, held + 1, Len(o), n)
    BY <1>11
  <2> HIDE DEF held, post
  <2> QED BY <1>2, <1>13, <2>1, <2>2, <2>3 DEF Ordered
<1>15. Measured(s, l, p)
  <2>1. l /\ ~r.empty => s.pidx # s.clean
    <3>1. Dist(a, a, n) = 0 /\ held + 1 # 0
      <4> HIDE DEF held, n
      <4>1. held + 1 # 0
        BY <1>1
      <4> QED BY <1>1, <4>1, DistRange
    <3> QED BY <1>9, <3>1
  <2>2. r.pidx # a => s.buf[s.clean] = r.buf[a]
    BY <1>1
  <2>3. p /\ r.done # r.seen => r.pidx # a
    <3> SUFFICES ASSUME p, r.done # r.seen, r.pidx = a PROVE FALSE
      OBVIOUS
    <3> DEFINE se == Dist(a, r.seen, n)
    <3>1. held = 0 /\ Dist(a, a, n) = 0
      BY <1>1, DistRange
    <3>2. se <= held
      BY <1>2
    <3>3. se = 0
      <4> HIDE DEF held, se, n
      <4>1. se \in 0 .. n - 1
        BY <1>1 DEF se
      <4> QED BY <1>1, <3>1, <3>2, <4>1
    <3> QED BY <1>1, <1>2, <3>1, <3>3, Distances
  <2> QED BY <2>1, <2>2, <2>3 DEF Measured
<1> QED BY <1>14, <1>15

LEMMA ArriveKeeps == ASSUME Inv, NEW q \in RxQueues, Arrive(q) PROVE Inv'
<1> DEFINE s == [rx[q] EXCEPT !.buf[rx[q].last % RxCount] = rx[q].last + 1,
                              !.cmpl[rx[q].pidx] = rx[q].last + 1,
                              !.last = @ + 1, !.pidx = Next1(@, RxCount)]
           r == IF s.armed THEN Interrupt(s) ELSE s
           l == pc[q] = "status"
           p == pc[q] = "loop"
<1>1. rx[q] \in RxRing /\ out[q] \in Seq(Nat) /\ Ordered(rx[q], out[q], p)
      /\ Measured(rx[q], l, p)
  BY DEF Inv, TypeOK, RxOrder
<1>2. rx[q].last % RxCount # rx[q].use /\ rx' = [rx EXCEPT ![q] = r]
      /\ UNCHANGED <<tx, batch, sent, freed, out, pc, left>>
  BY DEF Arrive
<1>3. p \in BOOLEAN /\ l \in BOOLEAN
  OBVIOUS
<1>4. s \in RxRing /\ Ordered(s, out[q], p) /\ Measured(s, l, p)
  <2> DEFINE v == rx[q]
             i == Next1(v.pidx, RxCount)
             b == [v.buf EXCEPT ![v.pidx] = v.last + 1]
  <2>1. v.pidx = v.last % RxCount
    BY <1>1 DEF Ordered
  <2>9. v.cmpl = v.buf
    BY <1>1 DEF Measured
  <2>2. s = [v EXCEPT !.buf = b, !.cmpl = b, !.last = v.last + 1, !.pidx = i]
    BY <2>1, <2>9
  <2>3. i \in Index(RxCount) /\ b \in [Index(RxCount) -> Nat] /\ v.last + 1 \in Nat
    BY <1>1, RxFacts, NextIndex
  <2> HIDE DEF s, l, p, v, i, b
  <2>4. v \in RxRing
    BY <1>1 DEF v
  <2>5. s \in RxRing
    BY <2>2, <2>3, <2>4 DEF RxRing
  <2>6. /\ s.clean = v.clean /\ s.done = v.done /\ s.use = v.use /\ s.seen = v.seen
        /\ s.pidx = i /\ s.last = v.last + 1 /\ s.buf = b /\ s.cmpl = b
        /\ s.len = v.len /\ s.empty = v.empty
    BY <2>2, <2>4 DEF RxRing
  <2>7. Ordered(v, out[q], p) /\ Measured(v, l, p) /\ v.pidx # v.use
    BY <1>1, <1>2, <2>1 DEF v
  <2>8. Ordered(s, out[q], p) /\ Measured(s, l, p)
    BY <1>1, <1>3, <2>4, <2>6, <2>7, Arrives DEF b, i
  <2> QED BY <2>5, <2>8
<1>5. r \in RxRing /\ Ordered(r, out[q], p) /\ Measured(r, l, p)
  <2> HIDE DEF p, l, s
  <2> QED BY <1>3, <1>4, InterruptKeeps
<1>6. out' = [out EXCEPT ![q] = out[q]]
  BY <1>2 DEF Inv, TypeOK
<1>7. /\ Ordered(r, out[q], pc'[q] = "loop") /\ "idle" \in Label \ {"free"}
      /\ Measured(r, pc'[q] = "status", pc'[q] = "loop")
  BY <1>2, <1>5 DEF Label
<1> HIDE DEF r, s
<1> QED BY <1>1, <1>2, <1>5, <1>6, <1>7, RxStepKeeps

\* The steps of a poll that copy no packet: r is the queue's new state.
LEMMA PollKeeps ==
    ASSUME Inv, NEW q \in RxQueues, NEW r \in RxRing, NEW l \in Label \ {"free"},
           rx' = [rx EXCEPT ![q] = r], pc' = [pc EXCEPT ![q] = l],
           UNCHANGED <<tx, batch, sent, freed, out, left>>,
           r.clean = rx[q].clean, r.done = rx[q].done, r.pidx = rx[q].pidx,
           r.last = rx[q].last, r.use = rx[q].use, r.buf = rx[q].buf,
           l = "loop" => r.seen = r.pidx,
           Measured(r, l = "status", l = "loop")
    PROVE  Inv'
<1> DEFINE p == pc[q] = "loop"
           p1 == pc'[q] = "loop"
<1>1. Ordered(rx[q], out[q], p) /\ out[q] \in Seq(Nat) /\ p \in BOOLEAN /\ p1 \in BOOLEAN
      /\ out \in [RxQueues -> Seq(Nat)] /\ q \in Threads /\ pc \in [Threads -> Label]
  BY DEF Inv, RxOrder, TypeOK, Threads
<1>2. p1 => Dist(r.clean, r.seen, RxCount) <= Dist(r.clean, r.pidx, RxCount)
  <2>1. p1 => r.seen = r.pidx
    BY <1>1
  <2>2. Dist(r.clean, r.pidx, RxCount) \in 0 .. RxCount - 1
    BY RxFacts
  <2> QED BY <2>1, <2>2
<1>3. Ordered(r, out[q], p1)
  BY <1>1, <1>2 DEF Ordered
<1>4. out' = [out EXCEPT ![q] = out[q]]
  BY <1>1
<1>5. Measured(r, pc'[q] = "status", p1)
  BY <1>1
<1> QED BY <1>1, <1>3, <1>4, <1>5, RxStepKeeps

\* A step that neither reads nor is between the reads.
LEMMA SameMeasure ==
    ASSUME NEW r, NEW s, NEW l, NEW p, Measured(r, l, p), s.cmpl = r.cmpl, s.buf = r.buf
    PROVE  Measured(s, FALSE, FALSE)
  BY DEF Measured

LEMMA PollStartKeeps == ASSUME Inv, NEW q \in RxQueues, PollStart(q) PROVE Inv'
<1>1. rx \in [RxQueues -> RxRing] /\ rx[q] \in RxRing /\ "clean" \in Label \ {"free"}
      /\ Measured(rx[q], FALSE, FALSE)
  BY DEF Inv, TypeOK, Label, RxOrder, Measured
<1>2. /\ rx' = [rx EXCEPT ![q] = rx[q]] /\ pc' = [pc EXCEPT ![q] = "clean"]
      /\ UNCHANGED <<tx, batch, sent, freed, out, left>>
  BY <1>1 DEF PollStart, Goto
<1> QED BY <1>1, <1>2, PollKeeps

LEMMA PollReadKeeps == ASSUME Inv, NEW q \in RxQueues, PollRead(q) PROVE Inv'
<1> DEFINE v == rx[q]
           n == v.cmpl[v.done]
           e == v.pidx = v.done
           r == [v EXCEPT !.len = n, !.empty = e]
<1>1. rx \in [RxQueues -> RxRing] /\ v \in RxRing /\ "status" \in Label \ {"free"}
      /\ v.done = v.clean /\ v.cmpl = v.buf
  BY DEF Inv, TypeOK, Label, RxOrder, Ordered, Measured
<1>2. /\ rx' = [rx EXCEPT ![q] = r] /\ pc' = [pc EXCEPT ![q] = "status"]
      /\ UNCHANGED <<tx, batch, sent, freed, out, left>>
  BY <1>1 DEF PollRead, Goto
<1>3. n \in Nat /\ e \in BOOLEAN
  <2> HIDE DEF v
  <2> QED BY <1>1 DEF RxRing
<1>4. /\ r \in RxRing /\ r.clean = v.clean /\ r.done = v.done
      /\ r.pidx = v.pidx /\ r.last = v.last /\ r.use = v.use
      /\ r.buf = v.buf /\ r.cmpl = v.cmpl /\ r.len = n /\ r.empty = e
  <2> HIDE DEF v, n, e
  <2> QED BY <1>1, <1>3 DEF RxRing
<1> HIDE DEF r
<1>5. Measured(r, TRUE, FALSE)
  BY <1>1, <1>4 DEF Measured
<1> HIDE DEF n, e
<1>6. Measured(r, "status" = "status", "status" = "loop")
  BY <1>5
<1> QED BY <1>1, <1>2, <1>4, <1>6, PollKeeps

\* What was read before is still the length of the packet that is copied next.
LEMMA PollStatusKeeps == ASSUME Inv, NEW q \in RxQueues, PollStatus(q) PROVE Inv'
<1> DEFINE v == rx[q]
           r == [v EXCEPT !.seen = v.pidx, !.work = 0]
<1>1. rx \in [RxQueues -> RxRing] /\ v \in RxRing /\ "loop" \in Label \ {"free"}
      /\ Measured(v, TRUE, FALSE)
  BY DEF Inv, TypeOK, Label, RxOrder, PollStatus, Measured
<1>2. /\ rx' = [rx EXCEPT ![q] = r] /\ pc' = [pc EXCEPT ![q] = "loop"]
      /\ UNCHANGED <<tx, batch, sent, freed, out, left>>
  BY <1>1 DEF PollStatus, Goto
<1>3. /\ r \in RxRing /\ r.clean = v.clean /\ r.done = v.done
      /\ r.pidx = v.pidx /\ r.last = v.last /\ r.use = v.use
      /\ r.buf = v.buf /\ r.seen = r.pidx
      /\ r.cmpl = v.cmpl /\ r.len = v.len /\ r.empty = v.empty
  <2> HIDE DEF v
  <2> QED BY <1>1 DEF RxRing
<1> HIDE DEF r
<1>4. Measured(r, FALSE, TRUE)
  BY <1>1, <1>3 DEF Measured
<1>5. Measured(r, "loop" = "status", "loop" = "loop")
  BY <1>4
<1> QED BY <1>1, <1>2, <1>3, <1>5, PollKeeps

\* The last steps of a poll change only the state of the context.
LEMMA PollLeaveKeeps ==
    ASSUME Inv, NEW q \in RxQueues, PollNoMemory(q) \/ PollEnd(q) PROVE Inv'
<1> PICK v \in {"idle", "lost"}, l \in {"arm", "idle"} :
           /\ rx' = [rx EXCEPT ![q].napi = v] /\ pc' = [pc EXCEPT ![q] = l]
           /\ UNCHANGED <<tx, batch, sent, freed, out, left>>
  BY DEF PollNoMemory, PollEnd, Goto
<1> DEFINE r == [rx[q] EXCEPT !.napi = v]
<1>1. rx \in [RxQueues -> RxRing] /\ rx[q] \in RxRing /\ l \in Label \ {"free"}
      /\ l \notin {"loop", "status"} /\ Measured(rx[q], pc[q] = "status", pc[q] = "loop")
  BY DEF Inv, TypeOK, Label, RxOrder
<1>2. rx' = [rx EXCEPT ![q] = r]
  BY <1>1
<1>3. /\ r \in RxRing /\ r.clean = rx[q].clean /\ r.done = rx[q].done
      /\ r.pidx = rx[q].pidx /\ r.last = rx[q].last /\ r.use = rx[q].use
      /\ r.buf = rx[q].buf /\ r.cmpl = rx[q].cmpl
  BY <1>1 DEF RxRing
<1> HIDE DEF r
<1>4. Measured(r, FALSE, FALSE)
  BY <1>1, <1>3, SameMeasure
<1>5. Measured(r, l = "status", l = "loop")
  BY <1>1, <1>4
<1> QED BY <1>1, <1>2, <1>3, <1>5, PollKeeps

\* onic_set_completion_tail, with the interrupt it may cause.
LEMMA PollArmKeeps == ASSUME Inv, NEW q \in RxQueues, PollArm(q) PROVE Inv'
<1> DEFINE r == SetTail(rx[q])
<1>1. rx \in [RxQueues -> RxRing] /\ rx[q] \in RxRing /\ "idle" \in Label \ {"free"}
      /\ Measured(rx[q], pc[q] = "status", pc[q] = "loop")
  BY DEF Inv, TypeOK, Label, RxOrder
<1>2. /\ rx' = [rx EXCEPT ![q] = r] /\ pc' = [pc EXCEPT ![q] = "idle"]
      /\ UNCHANGED <<tx, batch, sent, freed, out, left>>
  BY <1>1 DEF PollArm, Goto
<1>3. /\ r \in RxRing /\ r.clean = rx[q].clean /\ r.done = rx[q].done
      /\ r.pidx = rx[q].pidx /\ r.last = rx[q].last /\ r.use = rx[q].use
      /\ r.buf = rx[q].buf /\ r.cmpl = rx[q].cmpl
  <2> DEFINE s == [rx[q] EXCEPT !.cidx = rx[q].done, !.armed = TRUE]
  <2>1. /\ s \in RxRing /\ s.clean = rx[q].clean /\ s.done = rx[q].done
        /\ s.pidx = rx[q].pidx /\ s.last = rx[q].last /\ s.use = rx[q].use
        /\ s.buf = rx[q].buf
        /\ s.cmpl = rx[q].cmpl
    BY <1>1 DEF RxRing
  <2>2. r = s \/ r = Interrupt(s)
    BY DEF SetTail
  <2> HIDE DEF r, s
  <2>3. LET v == Interrupt(s) IN
        /\ v \in RxRing /\ v.clean = s.clean /\ v.done = s.done /\ v.pidx = s.pidx
        /\ v.last = s.last /\ v.use = s.use /\ v.buf = s.buf /\ v.cmpl = s.cmpl
    BY <2>1 DEF Interrupt, RxRing
  <2> QED BY <2>1, <2>2, <2>3
<1> HIDE DEF r
<1>4. Measured(r, FALSE, FALSE)
  BY <1>1, <1>3, SameMeasure
<1>5. Measured(r, "idle" = "status", "idle" = "loop")
  BY <1>4
<1> QED BY <1>1, <1>2, <1>3, <1>5, PollKeeps

\* A refill posts a step of descriptors, without reaching the index cleaned next.
LEMMA Refilled ==
    ASSUME NEW a \in Index(RxCount), NEW b \in Index(RxCount),
           Dist(a, b, RxCount) < Step \div 2
    PROVE  /\ (b + Step) % RxCount \in Index(RxCount)
           /\ Dist(a, b, RxCount) <= Dist(a, (b + Step) % RxCount, RxCount)
           /\ Step \div 2 <= Dist(a, (b + Step) % RxCount, RxCount)
<1> DEFINE n == RxCount
           d == Dist(a, b, n)
           h == Step \div 2
<1>1. n \in Nat \ {0, 1} /\ h \in Nat /\ Step \in Nat /\ Step + h <= n /\ d < h
  BY Sizes
<1>2. d \in 0 .. n - 1
  BY <1>1, Distances
<1>5. h <= Step
  BY Sizes
<1>3. d + Step <= n - 1 /\ d <= d + Step /\ h <= d + Step
  <2> HIDE DEF d, h, n
  <2> QED BY <1>1, <1>2, <1>5
<1>4. (b + Step) % n \in Index(n) /\ Dist(a, (b + Step) % n, n) = d + Step
  BY <1>1, <1>3, Advances
<1> QED BY <1>3, <1>4

\* A packet is copied, and its descriptor is the next one behind the queue.
LEMMA Copied ==
    ASSUME NEW r \in RxRing, NEW o \in Seq(Nat), Ordered(r, o, TRUE), r.done # r.seen,
           NEW p \in BOOLEAN, NEW s,
           s.clean = Next1(r.clean, RxCount), s.done = Next1(r.done, RxCount),
           s.pidx = r.pidx, s.last = r.last, s.seen = r.seen, s.buf = r.buf,
           s.use \in Index(RxCount), Step \div 2 <= Dist(s.clean, s.use, RxCount),
           Dist(s.clean, r.use, RxCount) <= Dist(s.clean, s.use, RxCount)
    PROVE  /\ Append(o, r.buf[r.clean]) \in Seq(Nat)
           /\ Ordered(s, Append(o, r.buf[r.clean]), p)
<1> DEFINE n == RxCount
           a == r.clean
           held == Dist(r.clean, r.pidx, RxCount)
           post == Dist(r.clean, r.use, RxCount)
           look == Dist(r.clean, r.seen, RxCount)
           o1 == Append(o, r.buf[r.clean])
<1>1. /\ n \in Nat \ {0, 1} /\ a \in Index(n) /\ r.pidx \in Index(n) /\ r.use \in Index(n)
      /\ r.buf \in [Index(n) -> Nat] /\ r.last \in Nat /\ Len(o) \in Nat
      /\ held \in 0 .. n - 1 /\ post \in 0 .. n - 1 /\ r.seen \in Index(n)
      /\ look \in 0 .. n - 1
  BY RxFacts
<1>2. /\ r.done = a /\ r.pidx = r.last % n /\ held = r.last - Len(o) /\ held <= post
      /\ look <= held /\ Holds(r.buf, a, held, Len(o), n) /\ Counted(o)
  BY DEF Ordered
<1>3. look # 0
  <2>1. Dist(a, a, n) = 0
    BY <1>1, DistRange
  <2> QED BY <1>1, <1>2, <2>1, Distances
<1>4. look > 0 /\ held > 0 /\ post > 0 /\ held \in 1 .. n - 1
  <2> HIDE DEF held, post, look, n
  <2> QED BY <1>1, <1>2, <1>3
<1>5. /\ Dist(s.clean, r.pidx, n) = held - 1 /\ Dist(s.clean, r.use, n) = post - 1
      /\ Dist(s.clean, r.seen, n) = look - 1
  BY <1>1, <1>4, NearEndMoves
<1>6. r.buf[a] = Len(o) + 1 /\ Holds(r.buf, s.clean, held - 1, Len(o) + 1, n)
  <2>1. s.clean = Next1(a, n)
    OBVIOUS
  <2> HIDE DEF a, n, held
  <2> QED BY <1>1, <1>2, <1>4, <2>1, Taken
<1>7. o1 \in Seq(Nat) /\ Len(o1) = Len(o) + 1 /\ Counted(o1)
  BY <1>2, <1>6, CountedOn
<1>8. s.clean \in Index(n)
  BY <1>1, NextIndex
<1>9. post - 1 <= Dist(s.clean, s.use, n)
  BY <1>5
<1>10. Ordered(s, o1, p)
  <2> DEFINE us == Dist(s.clean, s.use, n)
  <2>1. us \in Int
    BY <1>1, <1>8, DistRange
  <2>2. held - 1 <= us /\ look - 1 <= held - 1
    <3>1. post - 1 <= us
      BY <1>9
    <3> HIDE DEF held, post, look, us
    <3>2. held \in Int /\ post \in Int /\ look \in Int /\ held <= post /\ look <= held
      BY <1>1, <1>2
    <3> QED BY <2>1, <3>1, <3>2
  <2>3. held - 1 = s.last - Len(o1)
    <3>1. \A x, y \in Nat : (x - y) - 1 = x - (y + 1)
      OBVIOUS
    <3> QED BY <1>1, <1>2, <1>7, <3>1
  <2>4. /\ s.done = s.clean /\ s.pidx = s.last % n
        /\ Dist(s.clean, s.pidx, n) = held - 1 /\ Dist(s.clean, s.seen, n) = look - 1
    BY <1>2, <1>5
  <2>5. Holds(s.buf, s.clean, held - 1, Len(o1), n)
    BY <1>6, <1>7
  <2> HIDE DEF held, look, o1
  <2> QED BY <1>7, <2>2, <2>3, <2>4, <2>5 DEF Ordered
<1> QED BY <1>7, <1>10

LEMMA PollOneKeeps == ASSUME Inv, NEW q \in RxQueues, PollOne(q) PROVE Inv'
<1> DEFINE v == rx[q]
           a == Next1(v.clean, RxCount)
           c == [v EXCEPT !.clean = a]
           r == Refill(c)
           s == [r EXCEPT !.done = Next1(@, RxCount), !.work = @ + 1, !.empty = FALSE]
           o == Append(out[q], v.buf[v.clean])
<1>1. /\ rx \in [RxQueues -> RxRing] /\ v \in RxRing /\ out[q] \in Seq(Nat)
      /\ out \in [RxQueues -> Seq(Nat)] /\ pc[q] = "loop" /\ Ordered(v, out[q], TRUE)
      /\ v.done # v.seen /\ v.cmpl = v.buf
  <2>1. RxOrder(q) /\ TypeOK /\ pc[q] = "loop" /\ v.done # v.seen
    BY DEF Inv, PollOne
  <2>2. Ordered(v, out[q], TRUE) /\ v.cmpl = v.buf
    BY <2>1 DEF RxOrder, Ordered, Measured
  <2> QED BY <2>1, <2>2 DEF TypeOK
<1>2. RxCount \in Nat \ {0, 1} /\ a \in Index(RxCount) /\ v.use \in Index(RxCount)
  BY <1>1, RxFacts, NextIndex
<1>3. /\ c \in RxRing /\ c.clean = a /\ c.done = v.done /\ c.pidx = v.pidx
      /\ c.last = v.last /\ c.use = v.use /\ c.buf = v.buf /\ c.seen = v.seen
      /\ c.cmpl = v.cmpl
  <2> HIDE DEF v, a
  <2> QED BY <1>1, <1>2 DEF RxRing
<1>4. /\ r \in RxRing /\ r.clean = a /\ r.done = v.done /\ r.pidx = v.pidx
      /\ r.last = v.last /\ r.buf = v.buf /\ r.seen = v.seen /\ r.cmpl = v.cmpl
      /\ Dist(a, v.use, RxCount) <= Dist(a, r.use, RxCount)
      /\ Step \div 2 <= Dist(a, r.use, RxCount)
  <2>1. CASE ~HighWatermark(c)
    <3>1. r = c
      BY <2>1 DEF Refill
    <3>2. Dist(a, v.use, RxCount) \in Int
      BY <1>2, DistRange
    <3>3. Unused(c) = Dist(a, v.use, RxCount)
      <4> HIDE DEF v, a, c
      <4>1. Unused(c) = (v.use + RxCount - a) % RxCount
        BY <1>3 DEF Unused
      <4> QED BY <1>2, <4>1, Distances
    <3>4. Step \div 2 <= Dist(a, v.use, RxCount)
      <4>1. ~(Dist(a, v.use, RxCount) < Step \div 2)
        BY <2>1, <3>3 DEF HighWatermark
      <4>2. Step \div 2 \in Nat
        BY Sizes
      <4> DEFINE d == Dist(a, v.use, RxCount)  h == Step \div 2
      <4> HIDE DEF d, h
      <4>3. d \in Int /\ h \in Nat /\ ~(d < h)
        BY <3>2, <4>1, <4>2 DEF d, h
      <4>4. h <= d
        BY <4>3
      <4> QED BY <4>4 DEF d, h
    <3> HIDE DEF v, a, c, r
    <3> QED BY <1>3, <3>1, <3>2, <3>4
  <2>2. CASE HighWatermark(c)
    <3> DEFINE u == (v.use + Step) % RxCount
    <3>1. r = [c EXCEPT !.use = u]
      BY <1>3, <2>2 DEF Refill
    <3>2. Unused(c) = Dist(a, v.use, RxCount)
      <4> HIDE DEF v, a, c
      <4>1. Unused(c) = (v.use + RxCount - a) % RxCount
        BY <1>3 DEF Unused
      <4> QED BY <1>2, <4>1, Distances
    <3>3. Dist(a, v.use, RxCount) < Step \div 2
      BY <2>2, <3>2 DEF HighWatermark
    <3>4. u \in Index(RxCount) /\ Dist(a, v.use, RxCount) <= Dist(a, u, RxCount)
          /\ Step \div 2 <= Dist(a, u, RxCount)
      BY <1>2, <3>3, Refilled
    <3> HIDE DEF v, a, c, r, u
    <3>5. /\ r \in RxRing /\ r.clean = a /\ r.done = v.done /\ r.pidx = v.pidx
          /\ r.last = v.last /\ r.buf = v.buf /\ r.seen = v.seen /\ r.use = u
          /\ r.cmpl = v.cmpl
      BY <1>3, <3>1, <3>4 DEF RxRing
    <3> QED BY <3>4, <3>5
  <2> QED BY <2>1, <2>2
<1>5. Next1(v.done, RxCount) \in Index(RxCount)
  <2>1. v.done \in Index(RxCount)
    BY <1>1 DEF RxRing
  <2> QED BY <1>2, <2>1, NextIndex
<1>6. /\ s \in RxRing /\ s.clean = a /\ s.done = Next1(v.done, RxCount) /\ s.pidx = v.pidx
      /\ s.last = v.last /\ s.use = r.use /\ s.buf = v.buf /\ s.seen = v.seen
      /\ s.cmpl = v.cmpl
  <2> DEFINE d == Next1(v.done, RxCount)
             e == r.work + 1
  <2> HIDE DEF v, a, c, r
  <2>1. r.work \in Nat
    BY <1>4 DEF RxRing
  <2>2. s = [r EXCEPT !.done = d, !.work = e, !.empty = FALSE] /\ d \in Index(RxCount) /\ e \in Nat
    BY <1>4, <1>5, <2>1
  <2> HIDE DEF d, e, s
  <2>3. /\ s \in RxRing /\ s.clean = r.clean /\ s.done = d /\ s.pidx = r.pidx
        /\ s.last = r.last /\ s.use = r.use /\ s.buf = r.buf /\ s.seen = r.seen
        /\ s.cmpl = r.cmpl
    BY <1>4, <2>2 DEF RxRing
  <2> QED BY <1>4, <2>3 DEF d
<1>7. s.use \in Index(RxCount)
  <2> HIDE DEF s
  <2> QED BY <1>6 DEF RxRing
<1>8. out' = [out EXCEPT ![q] = o] /\ UNCHANGED <<tx, batch, sent, freed, left>>
  BY DEF PollOne
<1>11. /\ s.clean = Next1(v.clean, RxCount)
       /\ Dist(s.clean, v.use, RxCount) <= Dist(s.clean, s.use, RxCount)
       /\ Step \div 2 <= Dist(s.clean, s.use, RxCount) /\ s.done = s.clean
  <2> HIDE DEF s, r, c, v
  <2>1. v.done = v.clean
    BY <1>1 DEF Ordered, v
  <2> QED BY <1>4, <1>6, <2>1 DEF a
<1>9. CASE rx' = [rx EXCEPT ![q] = [s EXCEPT !.len = s.cmpl[s.done]]] /\ pc' = pc
  <2> DEFINE w == [s EXCEPT !.len = s.cmpl[s.done]]
  <2> HIDE DEF s, r, a, c
  <2>1. /\ w \in RxRing /\ w.clean = s.clean /\ w.done = s.done /\ w.pidx = s.pidx
        /\ w.last = s.last /\ w.use = s.use /\ w.buf = s.buf /\ w.seen = s.seen
        /\ w.cmpl = s.cmpl /\ w.len = s.cmpl[s.done]
    <3> DEFINE x == s.cmpl[s.done]
    <3>1. x \in Nat
      BY <1>6 DEF RxRing
    <3> HIDE DEF x
    <3>2. w = [s EXCEPT !.len = x]
      BY DEF x
    <3> HIDE DEF w
    <3> QED BY <1>6, <3>1, <3>2 DEF RxRing, x
  <2> HIDE DEF w
  <2>2. o \in Seq(Nat) /\ Ordered(w, o, TRUE)
    <3> HIDE DEF v
    <3> QED BY <1>1, <1>6, <1>7, <1>11, <2>1, Copied
  <2>3. Ordered(w, o, pc'[q] = "loop")
    BY <1>1, <1>9, <2>2 DEF Ordered
  <2>4. Measured(w, pc'[q] = "status", pc'[q] = "loop")
    <3>1. w.cmpl = w.buf /\ w.len = w.buf[w.clean]
      BY <1>1, <1>6, <1>11, <2>1
    <3> QED BY <1>1, <1>9, <3>1 DEF Measured
  <2>5. "idle" \in Label \ {"free"} /\ rx' = [rx EXCEPT ![q] = w]
    BY <1>9 DEF Label, w
  <2> HIDE DEF o
  <2> QED BY <1>8, <1>9, <2>1, <2>2, <2>3, <2>4, <2>5, RxStepKeeps
<1>10. CASE rx' = [rx EXCEPT ![q] = OutOfBudget(s)] /\ pc' = [pc EXCEPT ![q] = "idle"]
  <2> DEFINE w == OutOfBudget(s)
  <2> HIDE DEF s, r, a, c
  <2>1. /\ w \in RxRing /\ w.clean = s.clean /\ w.done = s.done /\ w.pidx = s.pidx
        /\ w.last = s.last /\ w.use = s.use /\ w.buf = s.buf /\ w.seen = s.seen
        /\ w.cmpl = s.cmpl
    BY <1>6 DEF OutOfBudget, RxRing
  <2> HIDE DEF w
  <2>2. o \in Seq(Nat) /\ Ordered(w, o, TRUE)
    <3> HIDE DEF v
    <3> QED BY <1>1, <1>6, <1>7, <1>11, <2>1, Copied
  <2>3. Ordered(w, o, pc'[q] = "loop")
    BY <2>2 DEF Ordered
  <2>4. "idle" \in Label \ {"free"} /\ rx' = [rx EXCEPT ![q] = w]
    BY <1>10 DEF Label, w
  <2>5. Measured(w, pc'[q] = "status", pc'[q] = "loop")
    <3>1. w.cmpl = w.buf /\ pc'[q] = "idle"
      <4>1. q \in Threads /\ pc \in [Threads -> Label]
        BY DEF Threads, Inv, TypeOK
      <4> QED BY <1>1, <1>6, <1>10, <2>1, <4>1
    <3> QED BY <3>1 DEF Measured
  <2> HIDE DEF o
  <2> QED BY <1>8, <1>10, <2>1, <2>2, <2>3, <2>4, <2>5, RxStepKeeps
<1> QED BY <1>9, <1>10 DEF PollOne, Goto
-----------------------------------------------------------------------------
(* The theorems *)

LEMMA NextInv == Inv /\ [Next]_vars => Inv'
<1> SUFFICES ASSUME Inv, [Next]_vars PROVE Inv'
  OBVIOUS
<1>1. CASE UNCHANGED vars
  BY <1>1 DEF vars, Inv, TypeOK, TxOrder, OneCleaner, RxOrder, Ahead
<1>2. CASE XmitStart
  BY <1>2, XmitStartKeeps
<1>3. CASE Xmit
  <2>1. "xmit" \in Threads
    BY DEF Threads
  <2> QED BY <1>3, <2>1, CleanKeeps, XmitBusyKeeps, XmitStoreKeeps, XmitRingKeeps DEF Xmit
<1>4. CASE Fetch \/ WriteBack
  BY <1>4, FetchKeeps, WriteBackKeeps
<1>5. CASE Done
  BY <1>1, <1>5 DEF Done
<1>6. ASSUME NEW q \in RxQueues, Arrive(q) \/ Poll(q) PROVE Inv'
  <2>1. q \in Threads
    BY DEF Threads
  <2> QED BY <1>6, <2>1, ArriveKeeps, CleanKeeps, PollStartKeeps, PollReadKeeps,
             PollStatusKeeps, PollOneKeeps, PollLeaveKeeps, PollArmKeeps DEF Poll
<1> QED BY <1>1, <1>2, <1>3, <1>4, <1>5, <1>6 DEF Next

\* onic_tx_clean, onic_xmit_frame and onic_rx_poll: for every ring size, refill step
\* and budget, and whichever threads clean, skbs are fetched once and in order and
\* onic_tx_clean frees them once, in order and not before; packets are delivered once
\* and in order, and each with its own length where its poll found a completion to
\* read it from; the descriptors posted include those of all packets not yet copied
\* and are never fewer than half a step.
THEOREM RingsStayExact == Spec => []RingsExact
<1>1. Inv => RingsExact
  <2> SUFFICES ASSUME Inv PROVE RingsExact
    OBVIOUS
  <2>1. Len(sent) <= tx.last /\ Len(freed) <= Len(sent)
    <3>1. Len(freed) \in Nat
      BY TxTypes DEF Inv
    <3>2. \A f, x, y \in Nat : x <= y => f + x <= f + y /\ f <= f + x
      OBVIOUS
    <3>3. Ahead(tx.hw) \in Nat /\ Ahead(tx.use) \in Nat /\ Ahead(tx.hw) <= Ahead(tx.use)
      BY TxFacts
    <3>4. Len(sent) = Len(freed) + Ahead(tx.hw) /\ tx.last = Len(freed) + Ahead(tx.use)
      BY TxFacts
    <3> QED BY <3>1, <3>2, <3>3, <3>4
  <2>2. FreedOnce
    BY <2>1 DEF FreedOnce, Upto, Inv, TxOrder, Counted
  <2>3. ASSUME NEW q \in RxQueues
        PROVE  /\ Upto(out[q], rx[q].last) /\ rx[q].last - Len(out[q]) <= Unused(rx[q])
               /\ Step \div 2 <= Unused(rx[q])
               /\ pc[q] = "loop" /\ rx[q].done # rx[q].seen =>
                     rx[q].empty \/ rx[q].len = rx[q].buf[rx[q].clean]
    <3> DEFINE r == rx[q]
               o == out[q]
               held == Dist(r.clean, r.pidx, RxCount)
    <3>1. r \in RxRing /\ o \in Seq(Nat) /\ Ordered(r, o, pc[q] = "loop")
      BY DEF Inv, TypeOK, RxOrder
    <3>2. held = r.last - Len(o) /\ held <= Dist(r.clean, r.use, RxCount) /\ Counted(o)
          /\ Step \div 2 <= Dist(r.clean, r.use, RxCount)
      BY <3>1 DEF Ordered
    <3>7. pc[q] = "loop" /\ r.done # r.seen => r.empty \/ r.len = r.buf[r.clean]
      BY DEF Inv, RxOrder, Measured
    <3> HIDE DEF r, o
    <3>3. Unused(r) = Dist(r.clean, r.use, RxCount)
      <4>1. RxCount \in Nat \ {0, 1} /\ r.clean \in Index(RxCount) /\ r.use \in Index(RxCount)
        BY <3>1, RxFacts
      <4> QED BY <4>1, Distances DEF Unused
    <3>4. held \in Nat /\ r.last \in Nat /\ Len(o) \in Nat
      BY <3>1, RxFacts
    <3>5. \A x, y \in Nat : x - y \in Nat => y <= x
      OBVIOUS
    <3>6. Len(o) <= r.last
      BY <3>2, <3>4, <3>5
    <3> QED BY <3>2, <3>3, <3>6, <3>7 DEF Upto, Counted, r, o
  <2>4. Delivered
    BY <2>3 DEF Delivered
  <2> QED BY <2>2, <2>4 DEF RingsExact
<1>2. Init => Inv
  BY InitInv
<1> QED BY <1>1, <1>2, NextInv, PTL DEF Spec

\* Cleaning makes no ring full, and no other thread moves the transmitting one.
LEMMA PendingKept ==
    ASSUME ~DmaFails, Inv, Pending, [Next]_vars
    PROVE  Pending'
<1>1. tx \in TxRing /\ pc \in [Threads -> Label] /\ "xmit" \in Threads
      /\ \A q \in RxQueues : q # "xmit"
  BY RingsAssumption DEF Inv, TypeOK, Threads
<1>2. ASSUME NEW t \in Threads, Clean(t) PROVE Pending'
  <2>1. pc'["xmit"] # "ring" => pc["xmit"] # "ring"
    BY <1>1, <1>2 DEF Clean, CleanStart, CleanOne, CleanEnd, Goto
  <2>2. batch' = batch /\ tx'.head = tx.head /\ tx'.use = tx.use
    BY <1>1, <1>2 DEF Clean, CleanStart, CleanOne, CleanEnd, TxRing
  <2>3. CASE tx'.clean = tx.clean
    BY <2>1, <2>2, <2>3 DEF Pending, Full
  <2>4. CASE CleanOne(t)
    <3> DEFINE n == TxCount
               a == Next1(tx.clean, n)
               d == Dist(tx.clean, tx.use, n)
    <3>1. /\ n \in Nat \ {0, 1} /\ tx.clean \in Index(n) /\ tx.use \in Index(n)
          /\ a \in Index(n)
      BY Sizes, TxTypes, NextIndex DEF Inv
    <3>2. tx'.clean = a /\ pc[t] = "free" /\ left[t] > 0
      BY <1>1, <2>4 DEF CleanOne, TxRing
    <3>3. d \in 0 .. n - 1 /\ d > 0
      <4>1. Ahead(tx.wb) > 0
        <5>1. left[t] <= Ahead(tx.wb) /\ left[t] \in Nat
          BY <3>2 DEF Inv, TypeOK, OneCleaner
        <5> QED BY <3>2, <5>1, TxFacts
      <4> QED BY <4>1, TxFacts DEF Ahead
    <3>4. Dist(a, tx.use, n) = d - 1
      BY <3>1, <3>3, NearEndMoves
    <3>5. Dist(a, tx.use, n) # n - 1
      <4> HIDE DEF d, n
      <4> QED BY <3>1, <3>3, <3>4
    <3>6. ~Full(tx.use, a, n)
      BY <3>1, <3>5, Distances
    <3> QED BY <2>1, <2>2, <3>2, <3>6 DEF Pending, Full
  <2> QED BY <1>1, <1>2, <2>3, <2>4 DEF Clean, CleanStart, CleanEnd, TxRing
<1>3. ASSUME UNCHANGED <<tx, batch>>, pc'["xmit"] # "ring" => pc["xmit"] # "ring"
      PROVE  Pending'
  BY <1>3 DEF Pending, Full
<1>4. CASE XmitStart
  BY <1>1, <1>3, <1>4 DEF XmitStart, Goto
<1>5. CASE XmitBusy
  <2>1. tx.head = tx.use /\ tx' = tx
    BY <1>5 DEF XmitBusy, Pending
  <2> QED BY <2>1 DEF Pending
<1>6. CASE XmitStore
  BY <1>1, <1>6 DEF XmitStore, Goto, Pending
<1>7. CASE XmitRing
  <2> PICK more \in BOOLEAN : /\ batch' = more
                            /\ tx' = IF Rings(more) THEN [tx EXCEPT !.head = tx.use] ELSE tx
    BY <1>7 DEF XmitRing
  <2>1. CASE Rings(more)
    <3>1. tx'.head = tx'.use
      BY <1>1, <2>1 DEF TxRing
    <3> QED BY <3>1 DEF Pending
  <2>2. CASE ~Rings(more)
    BY <2>2 DEF Pending, Rings, Full
  <2> QED BY <2>1, <2>2
<1>8. CASE Fetch \/ WriteBack
  <2>1. /\ tx'.head = tx.head /\ tx'.use = tx.use /\ tx'.clean = tx.clean
        /\ UNCHANGED <<batch, pc>>
    BY <1>1, <1>8 DEF Fetch, WriteBack, TxRing
  <2> QED BY <2>1 DEF Pending, Full
<1>9. CASE Done \/ UNCHANGED vars
  BY <1>3, <1>9 DEF Done, vars
<1>10. ASSUME NEW q \in RxQueues, Arrive(q) \/ Poll(q) PROVE Pending'
  <2>1. CASE Clean(q)
    BY <1>2, <2>1 DEF Threads
  <2>2. CASE ~Clean(q)
    <3>1. UNCHANGED <<tx, batch>> /\ pc'["xmit"] = pc["xmit"]
      BY <1>1, <1>10, <2>2 DEF Arrive, Poll, PollStart, PollRead, PollStatus, PollOne,
                               PollNoMemory, PollEnd, PollArm, Goto
    <3> QED BY <1>3, <3>1
  <2> QED BY <2>1, <2>2
<1> QED BY <1>1, <1>2, <1>4, <1>5, <1>6, <1>7, <1>8, <1>9, <1>10 DEF Next, Xmit

\* onic_xmit_frame: where no mapping for DMA fails, the doorbell has been rung for all
\* that the ring holds whenever the stack is not about to give another packet.
THEOREM DoorbellRung == ASSUME ~DmaFails PROVE Spec => []Rung
<1>1. Init => Inv /\ Pending
  BY InitInv
<1>2. Inv /\ Pending /\ [Next]_vars => Inv' /\ Pending'
  BY NextInv, PendingKept
<1>3. Pending => Rung
  BY DEF Pending, Rung
<1> QED BY <1>1, <1>2, <1>3, PTL DEF Spec
-----------------------------------------------------------------------------
(***************************************************************************)
(* The ladders.  Between two steps a device is described by few sets:      *)
(* the resources there is one of, the vectors held, and the rings set up,  *)
(* whose memory, pointers and contexts go together.                        *)
(***************************************************************************)
Qs == 0 .. Queues - 1

Numbered == {"irq", "vec", "tx", "rx"}

Forgotten == {"name", "page", "skb"}

Kept(one, vecs, ts, rs) ==
    (one \X {0}) \cup ({"irq", "vec"} \X vecs) \cup ({"tx"} \X ts) \cup ({"rx"} \X rs)

Contexts(ts, rs) == setup!TxContexts(ts) \cup setup!RxContexts(rs)

\* vec, bits, qdma, card and ok are the values that these fields may have.
Devices(one, vecs, ts, rs, vec, bits, qdma, card, ok) ==
    [held : {Kept(one, vecs, ts, rs)}, lost : SUBSET Forgotten, vec : vec, txq : {ts}, rxq : {rs},
     bits : bits, qdma : qdma, live : {Contexts(ts, rs)}, stuck : SUBSET MayTimeOut, card : card,
     raised : SUBSET vecs, stale : SUBSET Qs, bad : {FALSE}, ok : ok]

\* As Devices, with the receive ring of queue q set up but its pointer not yet set.
ArmedDevices(one, vecs, ts, rs, q, vec, bits, qdma, card, ok) ==
    [held : {Kept(one, vecs, ts, rs \cup {q})}, lost : SUBSET Forgotten, vec : vec, txq : {ts},
     rxq : {rs}, bits : bits, qdma : qdma, live : {Contexts(ts, rs \cup {q})},
     stuck : SUBSET MayTimeOut, card : card, raised : SUBSET vecs, stale : SUBSET Qs,
     bad : {FALSE}, ok : ok]

\* The settings of a card whose error interrupt is not armed, and of one where it is.
Disarmed == SUBSET {"csr", "cmac"}
Armed == {c \cup {"error"} : c \in Disarmed}

LEMMA BlankIsDevice == setup!Blank \in Devices({}, {}, {}, {}, {{}}, {{}}, {FALSE}, Disarmed, {TRUE})
  <1>1. Kept({}, {}, {}, {}) = {} /\ Contexts({}, {}) = {}
    BY DEF Kept, Contexts, setup!TxContexts, setup!RxContexts
  <1> QED
    BY <1>1 DEF setup!Blank, Devices, Disarmed

(* What the next probe starts from, after any device that is gone *)
LEMMA FreshIsDevice ==
  ASSUME NEW kept, NEW vec, NEW bits, NEW qdma, NEW ok,
         NEW d \in Devices(kept, {}, {}, {}, vec, bits, qdma, Disarmed, ok)
  PROVE  setup!Fresh(d) \in Devices({}, {}, {}, {}, {{}}, {{}}, {FALSE}, Disarmed, {TRUE})
  <1>1. Kept({}, {}, {}, {}) = {}
    BY DEF Kept
  <1> QED
    BY <1>1 DEF setup!Fresh, setup!Blank, Devices

(* Take and Put, of resources there is one of *)
LEMMA KeptMore ==
  ASSUME NEW one, NEW vecs, NEW ts, NEW rs, NEW what
  PROVE  Kept(one, vecs, ts, rs) \cup what \X {0} = Kept(one \cup what, vecs, ts, rs)
  BY DEF Kept

LEMMA KeptLess ==
  ASSUME NEW one, NEW vecs, NEW ts, NEW rs, NEW what, what \cap Numbered = {}
  PROVE  Kept(one, vecs, ts, rs) \ what \X {0} = Kept(one \ what, vecs, ts, rs)
  BY DEF Kept, Numbered

LEMMA TakeOne ==
  ASSUME NEW one, NEW vecs, NEW ts, NEW rs, NEW vec, NEW bits, NEW qdma, NEW card, NEW ok,
         NEW what,
         NEW d \in Devices(one, vecs, ts, rs, vec, bits, qdma, card, ok)
  PROVE  setup!Take(d, what, {0})
            \in Devices(one \cup what, vecs, ts, rs, vec, bits, qdma, card, ok)
  <1>1. Kept(one, vecs, ts, rs) \cup what \X {0} = Kept(one \cup what, vecs, ts, rs)
    BY KeptMore
  <1> QED
    BY <1>1 DEF setup!Take, Devices

LEMMA PutOne ==
  ASSUME NEW one, NEW vecs, NEW ts, NEW rs, NEW vec, NEW bits, NEW qdma, NEW card, NEW ok,
         NEW what, what \subseteq one, what \cap Numbered = {},
         NEW d \in Devices(one, vecs, ts, rs, vec, bits, qdma, card, ok)
  PROVE  setup!Put(d, what, {0})
            \in Devices(one \ what, vecs, ts, rs, vec, bits, qdma, card, ok)
  <1>1. what \X {0} \subseteq Kept(one, vecs, ts, rs)
    BY DEF Kept
  <1>2. d.held = Kept(one, vecs, ts, rs) /\ d.bad = FALSE
    BY DEF Devices
  <1>3. (d.bad \/ ~(what \X {0} \subseteq d.held)) = FALSE
    BY <1>1, <1>2
  <1>4. Kept(one, vecs, ts, rs) \ what \X {0} = Kept(one \ what, vecs, ts, rs)
    BY KeptLess
  <1>5. setup!Put(d, what, {0})
           = [d EXCEPT !.held = Kept(one \ what, vecs, ts, rs), !.bad = FALSE]
    BY <1>2, <1>3, <1>4 DEF setup!Put
  <1> QED
    BY <1>5 DEF Devices

LEMMA FailedIs ==
  ASSUME NEW one, NEW vecs, NEW ts, NEW rs, NEW vec, NEW bits, NEW qdma, NEW card, NEW ok,
         NEW d \in Devices(one, vecs, ts, rs, vec, bits, qdma, card, ok)
  PROVE  setup!Failed(d) \in Devices(one, vecs, ts, rs, vec, bits, qdma, card, {FALSE})
  BY DEF setup!Failed, Devices

(* The vectors, all of them at once *)
LEMMA VectorsTaken ==
  ASSUME NEW one, NEW ts, NEW rs, NEW bits, NEW qdma, NEW card, NEW ok,
         NEW d \in Devices(one, {}, ts, rs, {{}}, bits, qdma, card, ok)
  PROVE  setup!InitVectors(d, Qs) \in Devices(one, Qs, ts, rs, {Qs}, bits, qdma, card, ok)
  <1> DEFINE t == setup!Take(d, {"irq", "vec"}, Qs)
             l == setup!Lose(t, {"name"})
  <1>1. Kept(one, {}, ts, rs) \cup {"irq", "vec"} \X Qs = Kept(one, Qs, ts, rs)
    BY DEF Kept
  <1>2. t \in Devices(one, Qs, ts, rs, {{}}, bits, qdma, card, ok)
    BY <1>1 DEF setup!Take, Devices
  <1>3. setup!InitVectors(d, Qs) = [l EXCEPT !.vec = @ \cup Qs]
    BY DEF setup!InitVectors
  <1> HIDE DEF t
  <1>4. l \in Devices(one, Qs, ts, rs, {{}}, bits, qdma, card, ok)
    BY <1>2 DEF setup!Lose, Devices, Forgotten
  <1> HIDE DEF l
  <1>5. l.vec \cup Qs = Qs
    BY <1>4 DEF Devices
  <1>6. [l EXCEPT !.vec = Qs] \in Devices(one, Qs, ts, rs, {Qs}, bits, qdma, card, ok)
    BY <1>4 DEF Devices
  <1> QED
    BY <1>3, <1>5, <1>6

LEMMA VectorsPut ==
  ASSUME NEW one, one \cap Numbered = {}, NEW ts, NEW rs, NEW bits, NEW qdma, NEW card, NEW ok,
         NEW d \in Devices(one, Qs, ts, rs, {Qs}, bits, qdma, card, ok)
  PROVE  setup!ClearVectors(d, setup!Q) \in Devices(one, {}, ts, rs, {Qs}, bits, qdma, card, ok)
  <1>1. Kept(one, Qs, ts, rs) \ {"irq", "vec"} \X Qs = Kept(one, {}, ts, rs)
    BY DEF Kept, Numbered
  <1>2. {"irq", "vec"} \X Qs \subseteq Kept(one, Qs, ts, rs)
    BY DEF Kept
  <1>3. d.vec \cap setup!Q = Qs /\ d.held = Kept(one, Qs, ts, rs) /\ d.bad = FALSE
    BY DEF Devices, setup!Q, Qs
  <1>4. (d.bad \/ ~({"irq", "vec"} \X Qs \subseteq d.held)) = FALSE
    BY <1>2, <1>3
  <1> DEFINE p == setup!Put(d, {"irq", "vec"}, Qs)
  <1>5. p = [d EXCEPT !.held = Kept(one, {}, ts, rs), !.bad = FALSE]
    BY <1>1, <1>3, <1>4 DEF setup!Put
  <1>6. setup!ClearVectors(d, setup!Q) = [p EXCEPT !.raised = @ \ Qs]
    BY <1>3 DEF setup!ClearVectors, setup!Q, Qs
  <1>7. p.raised \ Qs = {}
    BY <1>5 DEF Devices
  <1>8. [p EXCEPT !.raised = {}] \in Devices(one, {}, ts, rs, {Qs}, bits, qdma, card, ok)
    BY <1>5 DEF Devices
  <1> HIDE DEF p
  <1> QED
    BY <1>6, <1>7, <1>8

(* The rings: what clearing and setting up queue q leaves *)
LEMMA TxCleared ==
  ASSUME NEW one, one \cap Numbered = {}, NEW vecs, NEW ts, NEW rs, NEW vec, NEW bits,
         NEW qdma, NEW card, NEW ok, NEW q, NEW miss \in SUBSET MayTimeOut,
         NEW skbs \in SUBSET {"skb"},
         NEW d \in Devices(one, vecs, ts, rs, vec, bits, qdma, card, ok)
  PROVE  setup!ClearTxQueue(d, q, miss, skbs)
            \in Devices(one, vecs, ts \ {q}, rs, vec, bits, qdma, card, ok)
  <1> DEFINE set == ts \cap {q}
             rest == ts \ {q}
             e == setup!QdmaClearTxQueue(d, set, miss)
             p == setup!Put(e, {"tx"}, set)
             l == setup!Lose(p, skbs)
             stuck == (d.stuck \ setup!TxContexts(set))
                        \cup (setup!TxContexts(set) \cap miss \cap (d.stuck \cup d.live))
             Dev(held, txq, live) ==
                [held : {held}, lost : SUBSET Forgotten, vec : vec, txq : {txq}, rxq : {rs},
                 bits : bits, qdma : qdma, live : {live}, stuck : SUBSET MayTimeOut, card : card,
                 raised : SUBSET vecs, stale : SUBSET Qs, bad : {FALSE}, ok : ok]
             before == Kept(one, vecs, ts, rs)
             held == Kept(one, vecs, rest, rs)
             live == Contexts(rest, rs)
  <1>1. d \in Dev(before, ts, Contexts(ts, rs))
    BY DEF Devices
  <1>2. ts \ set = rest
    OBVIOUS
  <1>3. before \ {"tx"} \X set = held
    BY DEF Kept, Numbered
  <1>4. {"tx"} \X set \subseteq before
    BY DEF Kept
  <1>5. Contexts(ts, rs) \ setup!TxContexts(set) = live
    BY DEF Contexts, setup!TxContexts, setup!RxContexts
  <1>6. stuck \in SUBSET MayTimeOut
    BY <1>1
  <1>7. d.live \ setup!TxContexts(set) = live
    BY <1>1, <1>5
  <1>8. e = [d EXCEPT !.live = live, !.stuck = stuck]
    BY <1>7 DEF setup!QdmaClearTxQueue, setup!Invalidate
  <1>9. setup!ClearTxQueue(d, q, miss, skbs) = [l EXCEPT !.txq = @ \ set]
    BY <1>1 DEF setup!ClearTxQueue
  <1> HIDE DEF set, rest, e, stuck, before, held, live
  <1>10. e \in Dev(before, ts, live)
    BY <1>1, <1>6, <1>8
  <1>11. (e.bad \/ ~({"tx"} \X set \subseteq e.held)) = FALSE
    BY <1>4, <1>10
  <1>12. e.held \ {"tx"} \X set = held
    BY <1>3, <1>10
  <1>13. p = [e EXCEPT !.held = held, !.bad = FALSE]
    BY <1>11, <1>12 DEF setup!Put
  <1> HIDE DEF p
  <1>14. p \in Dev(held, ts, live)
    BY <1>10, <1>13
  <1>15. l \in Dev(held, ts, live)
    BY <1>14 DEF setup!Lose, Forgotten
  <1> HIDE DEF l
  <1>16. [l EXCEPT !.txq = rest] \in Dev(held, rest, live) /\ l.txq \ set = rest
    BY <1>2, <1>15
  <1>17. setup!ClearTxQueue(d, q, miss, skbs) \in Dev(held, rest, live)
    BY <1>9, <1>16
  <1> QED
    BY <1>17 DEF Devices, held, live, rest

LEMMA TxSetUp ==
  ASSUME NEW one, one \cap Numbered = {}, NEW vecs, NEW ts, NEW rs, NEW vec, NEW bits,
         NEW qdma, NEW card, NEW ok, NEW q,
         NEW d \in Devices(one, vecs, ts, rs, vec, bits, qdma, card, ok)
  PROVE  setup!InitTxQueue(d, q)
            \in Devices(one, vecs, ts \cup {q}, rs, vec, bits, qdma, card, ok)
  <1> DEFINE rest == ts \ {q}
             all == ts \cup {q}
             c == setup!ClearTxQueue(d, q, {}, {})
             t == setup!Take(c, {"tx"}, {q})
             i == setup!QdmaInitTxQueue(t, q)
             stuck == c.stuck \ setup!TxContexts({q})
  <1>1. c \in Devices(one, vecs, rest, rs, vec, bits, qdma, card, ok)
    BY TxCleared
  <1>2. rest \cup {q} = all
    OBVIOUS
  <1>3. Kept(one, vecs, rest, rs) \cup {"tx"} \X {q} = Kept(one, vecs, all, rs)
    BY DEF Kept
  <1>4. Contexts(rest, rs) \cup setup!TxContexts({q}) = Contexts(all, rs)
    BY DEF Contexts, setup!TxContexts, setup!RxContexts
  <1>5. setup!InitTxQueue(d, q) = [i EXCEPT !.txq = @ \cup {q}]
    BY DEF setup!InitTxQueue
  <1> HIDE DEF rest, all, c
  <1>6. stuck \in SUBSET MayTimeOut
    BY <1>1 DEF Devices
  <1> HIDE DEF stuck
  <1>7. i = [c EXCEPT !.held = Kept(one, vecs, all, rs), !.live = Contexts(all, rs), !.stuck = stuck]
    BY <1>1, <1>3, <1>4 DEF setup!QdmaInitTxQueue, setup!Program, setup!Take, Devices, stuck
  <1> HIDE DEF i
  <1>8. i.txq = rest
    BY <1>1, <1>7 DEF Devices
  <1>9. setup!InitTxQueue(d, q) \in Devices(one, vecs, all, rs, vec, bits, qdma, card, ok)
    BY <1>1, <1>2, <1>5, <1>6, <1>7, <1>8 DEF Devices
  <1> QED
    BY <1>9 DEF all

LEMMA RxCleared ==
  ASSUME NEW one, one \cap Numbered = {}, NEW vecs, NEW ts, NEW rs \in SUBSET Qs, NEW vec, NEW bits,
         NEW qdma, NEW card, NEW ok, NEW q, NEW miss \in SUBSET MayTimeOut,
         NEW d \in Devices(one, vecs, ts, rs, vec, bits, qdma, card, ok)
  PROVE  setup!ClearRxQueue(d, q, miss)
            \in Devices(one, vecs, ts, rs \ {q}, vec, bits, qdma, card, ok)
  <1> DEFINE set == rs \cap {q}
             rest == rs \ {q}
             kinds == {"page" : x \in set}
             e == setup!QdmaClearRxQueue(d, set, miss)
             p == setup!Put(e, {"rx"}, set)
             l == setup!Lose(p, kinds)
             stuck == (d.stuck \ setup!RxContexts(set))
                        \cup (setup!RxContexts(set) \cap miss \cap (d.stuck \cup d.live))
             Dev(held, rxq, live) ==
                [held : {held}, lost : SUBSET Forgotten, vec : vec, txq : {ts}, rxq : {rxq},
                 bits : bits, qdma : qdma, live : {live}, stuck : SUBSET MayTimeOut, card : card,
                 raised : SUBSET vecs, stale : SUBSET Qs, bad : {FALSE}, ok : ok]
             before == Kept(one, vecs, ts, rs)
             held == Kept(one, vecs, ts, rest)
             live == Contexts(ts, rest)
  <1>1. d \in Dev(before, rs, Contexts(ts, rs))
    BY DEF Devices
  <1>2. rs \ set = rest /\ set \subseteq Qs /\ kinds \subseteq Forgotten
    BY DEF Forgotten
  <1>3. before \ {"rx"} \X set = held
    BY DEF Kept, Numbered
  <1>4. {"rx"} \X set \subseteq before
    BY DEF Kept
  <1>5. Contexts(ts, rs) \ setup!RxContexts(set) = live
    BY DEF Contexts, setup!TxContexts, setup!RxContexts
  <1>6. stuck \in SUBSET MayTimeOut
    BY <1>1
  <1>7. d.live \ setup!RxContexts(set) = live
    BY <1>1, <1>5
  <1>8. e = [d EXCEPT !.live = live, !.stuck = stuck]
    BY <1>7 DEF setup!QdmaClearRxQueue, setup!Invalidate
  <1>9. setup!ClearRxQueue(d, q, miss) = [l EXCEPT !.rxq = @ \ set, !.stale = @ \cup set]
    BY <1>1 DEF setup!ClearRxQueue
  <1> HIDE DEF set, rest, e, stuck, before, held, live, kinds
  <1>10. e \in Dev(before, rs, live)
    BY <1>1, <1>6, <1>8
  <1>11. (e.bad \/ ~({"rx"} \X set \subseteq e.held)) = FALSE
    BY <1>4, <1>10
  <1>12. e.held \ {"rx"} \X set = held
    BY <1>3, <1>10
  <1>13. p = [e EXCEPT !.held = held, !.bad = FALSE]
    BY <1>11, <1>12 DEF setup!Put
  <1> HIDE DEF p
  <1>14. p \in Dev(held, rs, live)
    BY <1>10, <1>13
  <1>15. l \in Dev(held, rs, live)
    BY <1>2, <1>14 DEF setup!Lose
  <1> HIDE DEF l
  <1>16. l.rxq \ set = rest /\ l.stale \cup set \in SUBSET Qs
    BY <1>2, <1>15
  <1> DEFINE stale == l.stale \cup set
  <1>17. setup!ClearRxQueue(d, q, miss) = [l EXCEPT !.rxq = rest, !.stale = stale]
    BY <1>9, <1>16
  <1> HIDE DEF stale
  <1>18. setup!ClearRxQueue(d, q, miss) \in Dev(held, rest, live)
    BY <1>15, <1>16, <1>17 DEF stale
  <1> QED
    BY <1>18 DEF Devices, held, live, rest

(* The receive ring of queue q, armed but not yet published *)
LEMMA RxArmed ==
  ASSUME NEW one, one \cap Numbered = {}, NEW vecs, NEW ts, NEW rs \in SUBSET Qs, NEW vec, NEW bits,
         NEW qdma, NEW card, NEW ok, NEW q, q \notin rs,
         NEW d \in Devices(one, vecs, ts, rs, vec, bits, qdma, card, ok)
  PROVE  setup!ArmRxQueue(d, q) \in ArmedDevices(one, vecs, ts, rs, q, vec, bits, qdma, card, ok)
  <1> DEFINE all == rs \cup {q}
             c == setup!ClearRxQueue(d, q, {})
             t == setup!Take(c, {"rx"}, {q})
             stuck == c.stuck \ setup!RxContexts({q})
  <1>1. rs \ {q} = rs
    OBVIOUS
  <1>2. c \in Devices(one, vecs, ts, rs \ {q}, vec, bits, qdma, card, ok)
    BY RxCleared
  <1>3. Kept(one, vecs, ts, rs) \cup {"rx"} \X {q} = Kept(one, vecs, ts, all)
    BY DEF Kept
  <1>4. Contexts(ts, rs) \cup setup!RxContexts({q}) = Contexts(ts, all)
    BY DEF Contexts, setup!TxContexts, setup!RxContexts
  <1>5. setup!ArmRxQueue(d, q) = setup!QdmaInitRxQueue(t, q)
    BY DEF setup!ArmRxQueue
  <1> HIDE DEF c, all
  <1>6. c \in Devices(one, vecs, ts, rs, vec, bits, qdma, card, ok)
    BY <1>1, <1>2
  <1>7. stuck \in SUBSET MayTimeOut
    BY <1>6 DEF Devices
  <1> HIDE DEF stuck
  <1>8. setup!ArmRxQueue(d, q)
           = [c EXCEPT !.held = Kept(one, vecs, ts, all), !.live = Contexts(ts, all), !.stuck = stuck]
    BY <1>3, <1>4, <1>5, <1>6 DEF setup!QdmaInitRxQueue, setup!Program, setup!Take, Devices, stuck
  <1>9. setup!ArmRxQueue(d, q)
           \in [held : {Kept(one, vecs, ts, all)}, lost : SUBSET Forgotten, vec : vec, txq : {ts},
                rxq : {rs}, bits : bits, qdma : qdma, live : {Contexts(ts, all)},
                stuck : SUBSET MayTimeOut, card : card, raised : SUBSET vecs, stale : SUBSET Qs,
                bad : {FALSE}, ok : ok]
    BY <1>6, <1>7, <1>8 DEF Devices
  <1> QED
    BY <1>9 DEF ArmedDevices, all

(* The card and the interrupts *)
LEMMA HardwareTaken ==
  ASSUME NEW one, NEW vecs, NEW ts, NEW rs, NEW vec, NEW bits, NEW qdma, NEW ok,
         NEW d \in Devices(one, vecs, ts, rs, vec, bits, qdma, Disarmed, ok),
         NEW fail, fail[1] \notin {"shell", "qdev", "fmap"}
  PROVE  setup!InitHardware(d, fail)
            \in Devices(one \cup {"shell", "qdev", "fmap"}, vecs, ts, rs, vec, bits, {TRUE}, Disarmed, ok)
  <1> DEFINE Dev(o) == Devices(o, vecs, ts, rs, vec, bits, qdma, Disarmed, ok)
             a == setup!Take(d, {"shell", "qdev"}, {0})
             b == setup!WriteFmap(a)
             c == setup!InitCsr(b)
             e == setup!EnableCmac(c, fail)
             all == one \cup {"shell", "qdev", "fmap"}
  <1>1. a \in Dev(one \cup {"shell", "qdev"})
    BY TakeOne
  <1>2. b \in Dev((one \cup {"shell", "qdev"}) \cup {"fmap"})
    BY <1>1, TakeOne DEF setup!WriteFmap
  <1>3. (one \cup {"shell", "qdev"}) \cup {"fmap"} = all
    OBVIOUS
  <1>4. setup!InitHardware(d, fail) = [e EXCEPT !.qdma = TRUE]
    BY DEF setup!InitHardware
  <1> HIDE DEF a, all
  <1>5. b \in Dev(all)
    BY <1>2, <1>3
  <1> HIDE DEF b
  <1>6. c \in Dev(all)
    BY <1>5 DEF setup!InitCsr, Devices, Disarmed
  <1> HIDE DEF c
  <1>7. e \in Dev(all)
    BY <1>6 DEF setup!EnableCmac, Devices, Disarmed
  <1> HIDE DEF e
  <1>8. [e EXCEPT !.qdma = TRUE]
           \in Devices(all, vecs, ts, rs, vec, bits, {TRUE}, Disarmed, ok)
    BY <1>7 DEF Devices
  <1> QED
    BY <1>4, <1>8 DEF all

LEMMA HardwarePut ==
  ASSUME NEW one, {"shell", "qdev", "fmap"} \subseteq one, NEW vecs, NEW ts, NEW rs, NEW vec,
         NEW bits, NEW card, NEW ok,
         NEW d \in Devices(one, vecs, ts, rs, vec, bits, {TRUE}, card, ok)
  PROVE  setup!ClearHardware(d)
            \in Devices(one \ {"shell", "qdev", "fmap"}, vecs, ts, rs, vec, bits, {FALSE}, card, ok)
  <1> DEFINE Dev(o) == Devices(o, vecs, ts, rs, vec, bits, {TRUE}, card, ok)
             a == setup!InvalidateFmap(d)
             b == setup!Put(a, {"qdev", "shell"}, {0})
             rest == one \ {"shell", "qdev", "fmap"}
  <1>1. a \in Dev(one \ {"fmap"})
    BY PutOne DEF setup!InvalidateFmap, Numbered
  <1>2. b \in Dev((one \ {"fmap"}) \ {"qdev", "shell"})
    BY <1>1, PutOne, {"qdev", "shell"} \subseteq one \ {"fmap"},
       {"qdev", "shell"} \cap Numbered = {} DEF Numbered
  <1>3. (one \ {"fmap"}) \ {"qdev", "shell"} = rest
    OBVIOUS
  <1>4. setup!ClearHardware(d) = [b EXCEPT !.qdma = FALSE]
    BY DEF setup!ClearHardware, Devices
  <1> HIDE DEF b, rest
  <1>5. [b EXCEPT !.qdma = FALSE] \in Devices(rest, vecs, ts, rs, vec, bits, {FALSE}, card, ok)
    BY <1>2, <1>3 DEF Devices
  <1> QED
    BY <1>4, <1>5 DEF rest

LEMMA BitsAre ==
  ASSUME NEW one, NEW vecs, NEW ts, NEW rs, NEW vec, NEW bits, NEW qdma, NEW card, NEW ok,
         NEW d \in Devices(one, vecs, ts, rs, vec, bits, qdma, card, ok), NEW b
  PROVE  [d EXCEPT !.bits = b] \in Devices(one, vecs, ts, rs, vec, {b}, qdma, card, ok)
  BY DEF Devices

LEMMA InterruptPut ==
  ASSUME NEW one, one \cap Numbered = {}, NEW ts, NEW rs, NEW b \in SUBSET {"user", "error"},
         b \subseteq one, NEW qdma, NEW ok,
         NEW d \in Devices(one, Qs, ts, rs, {Qs}, {b}, qdma,
                          IF "error" \in b THEN Armed ELSE Disarmed, ok)
  PROVE  setup!ClearInterrupt(d) \in Devices(one \ b, {}, ts, rs, {Qs}, {b}, qdma, Disarmed, ok)
  <1> DEFINE rest == one \ b
             card == IF "error" \in b THEN Armed ELSE Disarmed
             e == setup!Put(d, d.bits, {0})
             f == IF "error" \in d.bits THEN setup!DisarmError(e) ELSE e
  <1>1. d.bits = b
    BY DEF Devices
  <1>2. b \cap Numbered = {} /\ rest \cap Numbered = {}
    BY DEF Numbered
  <1>3. e \in Devices(rest, Qs, ts, rs, {Qs}, {b}, qdma, card, ok)
    BY <1>1, <1>2, PutOne
  <1>4. f \in Devices(rest, Qs, ts, rs, {Qs}, {b}, qdma, Disarmed, ok)
    <2> HIDE DEF e, rest
    <2>1. CASE "error" \in b
      <3>1. \A c \in Armed : c \ {"error"} \in Disarmed
        BY DEF Armed, Disarmed
      <3> HIDE DEF f
      <3>2. e \in Devices(rest, Qs, ts, rs, {Qs}, {b}, qdma, Armed, ok)
        BY <1>3, <2>1
      <3>3. f = [e EXCEPT !.card = @ \ {"error"}]
        BY <1>1, <2>1 DEF f, setup!DisarmError
      <3> QED
        BY <3>1, <3>2, <3>3 DEF Devices
    <2>2. CASE "error" \notin b
      BY <1>1, <1>3, <2>2
    <2> QED
      BY <2>1, <2>2
  <1>5. setup!ClearInterrupt(d) = setup!ClearVectors(f, setup!Q)
    BY DEF setup!ClearInterrupt
  <1> HIDE DEF e, f, rest
  <1>6. setup!ClearVectors(f, setup!Q) \in Devices(rest, {}, ts, rs, {Qs}, {b}, qdma, Disarmed, ok)
    BY <1>2, <1>4, VectorsPut
  <1> QED
    BY <1>5, <1>6 DEF rest

LEMMA InterruptTaken ==
  ASSUME NEW one, NEW ts, NEW rs, NEW qdma, NEW ok, NEW fail,
         fail[1] \notin {"irq", "user", "error"},
         NEW d \in Devices(one, {}, ts, rs, {{}}, {{}}, qdma, Disarmed, ok)
  PROVE  setup!InitInterrupt(d, fail)
            \in Devices(one \cup {"user", "error"}, Qs, ts, rs, {Qs}, {{"user", "error"}}, qdma, Armed, ok)
  <1> DEFINE a == setup!InitVectors(d, setup!Q)
             b == [setup!Take(a, {"user"}, {0}) EXCEPT !.bits = {"user"}]
             c == setup!Take(b, {"error"}, {0})
             all == one \cup {"user", "error"}
  <1>1. a \in Devices(one, Qs, ts, rs, {Qs}, {{}}, qdma, Disarmed, ok)
    BY VectorsTaken DEF setup!Q, Qs
  <1>2. b \in Devices(one \cup {"user"}, Qs, ts, rs, {Qs}, {{"user"}}, qdma, Disarmed, ok)
    BY <1>1, TakeOne, BitsAre
  <1>3. c \in Devices((one \cup {"user"}) \cup {"error"}, Qs, ts, rs, {Qs}, {{"user"}}, qdma, Disarmed, ok)
    BY <1>2, TakeOne
  <1>4. (one \cup {"user"}) \cup {"error"} = all
    OBVIOUS
  <1>5. setup!InitInterrupt(d, fail) = [setup!ArmError(c) EXCEPT !.bits = {"user", "error"}]
    BY DEF setup!InitInterrupt
  <1>6. \A x \in Disarmed : x \cup {"error"} \in Armed
    BY DEF Armed
  <1> HIDE DEF c, all
  <1>7. setup!ArmError(c) \in Devices(all, Qs, ts, rs, {Qs}, {{"user"}}, qdma, Armed, ok)
    BY <1>3, <1>4, <1>6 DEF setup!ArmError, Devices
  <1> DEFINE e == setup!ArmError(c)
  <1>8. [e EXCEPT !.bits = {"user", "error"}]
           \in Devices(all, Qs, ts, rs, {Qs}, {{"user", "error"}}, qdma, Armed, ok)
    <2>1. e \in Devices(all, Qs, ts, rs, {Qs}, {{"user"}}, qdma, Armed, ok)
      BY <1>7
    <2> HIDE DEF e
    <2> QED
      BY <2>1, BitsAre
  <1> QED
    BY <1>5, <1>8 DEF all

(* The labels of onic_probe: each gives back what had been taken before.  *)
(* left: the mapping that no label gives back, once it has been made.      *)
Rung1 == {"pci"}
Rung2 == Rung1 \cup {"regions"}
Rung3 == Rung2 \cup {"netdev"}
Rung4 == Rung3 \cup {"msix"}
Rung5 == Rung4 \cup {"shell", "qdev", "fmap"}
Rung6 == Rung5 \cup {"user", "error"}

LEMMA AtDisableDevice ==
  ASSUME NEW kept \in SUBSET {"nfdp"}, NEW vecs, NEW ts, NEW rs, NEW vec, NEW bits, NEW qdma,
         NEW card, NEW ok,
         NEW d \in Devices(kept \cup Rung1, vecs, ts, rs, vec, bits, qdma, card, ok)
  PROVE  setup!DisableDevice(d) \in Devices(kept, vecs, ts, rs, vec, bits, qdma, card, ok)
  <1>1. {"pci"} \subseteq kept \cup Rung1 /\ {"pci"} \cap Numbered = {}
    BY DEF Rung1, Numbered
  <1>2. setup!Put(d, {"pci"}, {0}) \in Devices((kept \cup Rung1) \ {"pci"}, vecs, ts, rs, vec, bits, qdma, card, ok)
    BY <1>1, PutOne
  <1>3. (kept \cup Rung1) \ {"pci"} = kept
    BY DEF Rung1
  <1> QED
    BY <1>2, <1>3 DEF setup!DisableDevice

LEMMA AtReleasePciMem ==
  ASSUME NEW kept \in SUBSET {"nfdp"}, NEW vecs, NEW ts, NEW rs, NEW vec, NEW bits, NEW qdma,
         NEW card, NEW ok,
         NEW d \in Devices(kept \cup Rung2, vecs, ts, rs, vec, bits, qdma, card, ok)
  PROVE  setup!ReleasePciMem(d) \in Devices(kept, vecs, ts, rs, vec, bits, qdma, card, ok)
  <1>1. {"regions"} \subseteq kept \cup Rung2 /\ {"regions"} \cap Numbered = {}
    BY DEF Rung1, Rung2, Numbered
  <1>2. setup!Put(d, {"regions"}, {0}) \in Devices((kept \cup Rung2) \ {"regions"}, vecs, ts, rs, vec, bits, qdma, card, ok)
    BY <1>1, PutOne
  <1>3. (kept \cup Rung2) \ {"regions"} = kept \cup Rung1
    BY DEF Rung1, Rung2
  <1> QED
    BY <1>2, <1>3, AtDisableDevice DEF setup!ReleasePciMem

LEMMA AtFreeNetdev ==
  ASSUME NEW kept \in SUBSET {"nfdp"}, NEW vecs, NEW ts, NEW rs, NEW vec, NEW bits, NEW qdma,
         NEW card, NEW ok,
         NEW d \in Devices(kept \cup Rung3, vecs, ts, rs, vec, bits, qdma, card, ok)
  PROVE  setup!FreeNetdev(d) \in Devices(kept, vecs, ts, rs, vec, bits, qdma, card, ok)
  <1>1. {"netdev"} \subseteq kept \cup Rung3 /\ {"netdev"} \cap Numbered = {}
    BY DEF Rung1, Rung2, Rung3, Numbered
  <1> DEFINE n == setup!Put(d, {"netdev"}, {0})
             m == [n EXCEPT !.stale = {}]
  <1>2. n \in Devices((kept \cup Rung3) \ {"netdev"}, vecs, ts, rs, vec, bits, qdma, card, ok)
    BY <1>1, PutOne
  <1> HIDE DEF n
  <1>3. (kept \cup Rung3) \ {"netdev"} = kept \cup Rung2
    BY DEF Rung1, Rung2, Rung3
  <1>4. m \in Devices(kept \cup Rung2, vecs, ts, rs, vec, bits, qdma, card, ok)
    BY <1>2, <1>3 DEF Devices
  <1>5. setup!FreeNetdev(d) = setup!ReleasePciMem(m)
    BY DEF setup!FreeNetdev, n
  <1> HIDE DEF m
  <1> QED
    BY <1>4, <1>5, AtReleasePciMem

LEMMA AtClearCapacity ==
  ASSUME NEW kept \in SUBSET {"nfdp"}, NEW vecs, NEW ts, NEW rs, NEW vec, NEW bits, NEW qdma,
         NEW card, NEW ok,
         NEW d \in Devices(kept \cup Rung4, vecs, ts, rs, vec, bits, qdma, card, ok)
  PROVE  setup!ClearCapacityL(d) \in Devices(kept, vecs, ts, rs, vec, bits, qdma, card, ok)
  <1>1. {"msix"} \subseteq kept \cup Rung4 /\ {"msix"} \cap Numbered = {}
    BY DEF Rung1, Rung2, Rung3, Rung4, Numbered
  <1>2. setup!Put(d, {"msix"}, {0}) \in Devices((kept \cup Rung4) \ {"msix"}, vecs, ts, rs, vec, bits, qdma, card, ok)
    BY <1>1, PutOne
  <1>3. (kept \cup Rung4) \ {"msix"} = kept \cup Rung3
    BY DEF Rung1, Rung2, Rung3, Rung4
  <1> QED
    BY <1>2, <1>3, AtFreeNetdev DEF setup!ClearCapacityL, setup!ClearCapacity

LEMMA AtClearHardware ==
  ASSUME NEW kept \in SUBSET {"nfdp"}, NEW vecs, NEW ts, NEW rs, NEW vec, NEW bits, NEW card, NEW ok,
         NEW d \in Devices(kept \cup Rung5, vecs, ts, rs, vec, bits, {TRUE}, card, ok)
  PROVE  setup!ClearHardwareL(d) \in Devices(kept, vecs, ts, rs, vec, bits, {FALSE}, card, ok)
  <1> DEFINE e == setup!ClearHardware(d)
  <1>1. {"shell", "qdev", "fmap"} \subseteq kept \cup Rung5
    BY DEF Rung5
  <1>2. e \in Devices((kept \cup Rung5) \ {"shell", "qdev", "fmap"}, vecs, ts, rs, vec, bits,
                     {FALSE}, card, ok)
    BY <1>1, HardwarePut
  <1>3. (kept \cup Rung5) \ {"shell", "qdev", "fmap"} = kept \cup Rung4
    BY DEF Rung1, Rung2, Rung3, Rung4, Rung5
  <1> HIDE DEF e
  <1>4. setup!ClearCapacityL(e) \in Devices(kept, vecs, ts, rs, vec, bits, {FALSE}, card, ok)
    BY <1>2, <1>3, AtClearCapacity
  <1> QED
    BY <1>4 DEF e, setup!ClearHardwareL

LEMMA AtClearInterrupt ==
  ASSUME NEW kept \in SUBSET {"nfdp"}, NEW ts, NEW rs, NEW ok,
         NEW d \in Devices(kept \cup Rung6, Qs, ts, rs, {Qs}, {{"user", "error"}}, {TRUE}, Armed, ok)
  PROVE  setup!ClearInterruptL(d)
            \in Devices(kept, {}, ts, rs, {Qs}, {{"user", "error"}}, {FALSE}, Disarmed, ok)
  <1> DEFINE e == setup!ClearInterrupt(d)
             b == {"user", "error"}
  <1>1. (kept \cup Rung6) \cap Numbered = {} /\ b \subseteq kept \cup Rung6
    BY DEF Rung1, Rung2, Rung3, Rung4, Rung5, Rung6, Numbered
  <1>2. (IF "error" \in b THEN Armed ELSE Disarmed) = Armed
    OBVIOUS
  <1>3. e \in Devices((kept \cup Rung6) \ b, {}, ts, rs, {Qs}, {b}, {TRUE}, Disarmed, ok)
    <2> HIDE DEF b
    <2>1. b \in SUBSET {"user", "error"}
      BY DEF b
    <2>2. d \in Devices(kept \cup Rung6, Qs, ts, rs, {Qs}, {b}, {TRUE},
                       IF "error" \in b THEN Armed ELSE Disarmed, ok)
      BY <1>2 DEF b
    <2> QED
      BY <1>1, <2>1, <2>2, InterruptPut
  <1>4. (kept \cup Rung6) \ b = kept \cup Rung5
    BY DEF Rung1, Rung2, Rung3, Rung4, Rung5, Rung6
  <1> HIDE DEF e, b
  <1>5. setup!ClearHardwareL(e) \in Devices(kept, {}, ts, rs, {Qs}, {b}, {FALSE}, Disarmed, ok)
    BY <1>3, <1>4, AtClearHardware
  <1> QED
    BY <1>5 DEF e, b, setup!ClearInterruptL

-----------------------------------------------------------------------------
(* The invariant: a device that is absent is gone but for what is kept;    *)
(* any other is complete, and the position of the loop says which rings    *)
(* are set up.                                                             *)
Both == {"user", "error"}
Gone(kept, ok) == Devices(kept, {}, {}, {}, SUBSET Qs, SUBSET Both, BOOLEAN, Disarmed, ok)
Complete == Rung6 \cup {"nfdp", "registered"}
Ringed(ts, rs) == Devices(Complete, Qs, ts, rs, {Qs}, {Both}, {TRUE}, Armed, BOOLEAN)
RingedArmed(ts, rs, q) ==
    ArmedDevices(Complete, Qs, ts, rs, q, {Qs}, {Both}, {TRUE}, Armed, BOOLEAN)

Opening ==
    /\ phase = "opening"
    /\ \/ at \in {"tx"} \X Qs /\ dev \in Ringed(0 .. at[2] - 1, {})
       \/ at \in {"rx"} \X Qs /\ dev \in Ringed(Qs, 0 .. at[2] - 1)
       \/ at \in {"set"} \X Qs /\ dev \in RingedArmed(Qs, 0 .. at[2] - 1, at[2])

Unwinding ==
    /\ phase = "unwinding"
    /\ at \in {"tx", "rx"} \X (1 .. Queues - 1)
    /\ \E ts, rs \in SUBSET Qs : dev \in Ringed(ts, rs)

Stopping ==
    /\ phase = "stopping"
    /\ \/ /\ at \in {"tx"} \X Qs
          /\ \E ts \in SUBSET (at[2] .. Queues - 1), rs \in SUBSET Qs : dev \in Ringed(ts, rs)
       \/ /\ at \in {"rx"} \X Qs
          /\ \E rs \in SUBSET (at[2] .. Queues - 1) : dev \in Ringed({}, rs)

SetupInv ==
    \/ phase = "absent" /\ \E kept \in SUBSET {"nfdp"} : dev \in Gone(kept, BOOLEAN)
    \/ phase = "probed" /\ dev \in Ringed({}, {})
    \/ Opening
    \/ Unwinding
    \/ phase = "open" /\ at = <<"tx", 0>> /\ dev \in Ringed(Qs, Qs)
    \/ Stopping

LEMMA GoneWhenUnset ==
  ASSUME NEW kept, NEW d \in Devices(kept, {}, {}, {}, {{}}, {{}}, {FALSE}, Disarmed, {FALSE})
  PROVE  d \in Gone(kept, {FALSE})
  BY DEF Gone, Devices, Qs, Both

LEMMA FailTypes ==
  ASSUME NEW fail \in recovers
  PROVE  /\ fail[1] \in {"none", "enable", "mask", "regions", "netdev", "msix", "shell", "user",
                         "error", "register", "align", "tx", "rx"}
         /\ fail[1] \in {"tx", "rx"} => fail[2] \in 1 .. Queues - 1
  BY DEF recovers

(* onic_probe either takes all or, when a step fails, gives back what it   *)
(* had taken but for the nfdp mapping.                                     *)
LEMMA ProbeTakesOrGives ==
  ASSUME NEW fail \in recovers,
         NEW fresh \in Devices({}, {}, {}, {}, {{}}, {{}}, {FALSE}, Disarmed, {TRUE})
  PROVE  \/ setup!ProbeDevice(fresh, fail) \in Devices(Complete, Qs, {}, {}, {Qs}, {Both}, {TRUE}, Armed, {TRUE})
         \/ \E kept \in SUBSET {"nfdp"} : setup!ProbeDevice(fresh, fail) \in Gone(kept, {FALSE})
  <1> DEFINE Bare(o, ok) == Devices(o, {}, {}, {}, {{}}, {{}}, {FALSE}, Disarmed, ok)
             Hard(o, ok) == Devices(o, {}, {}, {}, {{}}, {{}}, {TRUE}, Disarmed, ok)
             pci == setup!Take(fresh, {"pci"}, {0})
             mem == setup!Take(pci, {"regions"}, {0})
             net == setup!Take(mem, {"netdev"}, {0})
             cap == setup!InitCapacity(net, fail)
             hw  == setup!InitHardware(cap, fail)
             irq == setup!InitInterrupt(hw, fail)
             nf  == setup!Take(irq, {"nfdp"}, {0})
             P   == setup!ProbeDevice(fresh, fail)
  <1>0. \A o : {} \cup o = o
    OBVIOUS
  <1>1. pci \in Bare(Rung1, {TRUE})
    BY TakeOne, {} \cup {"pci"} = Rung1 DEF Rung1
  <1>2. mem \in Bare(Rung2, {TRUE})
    BY <1>1, TakeOne DEF Rung2
  <1>3. net \in Bare(Rung3, {TRUE})
    BY <1>2, TakeOne DEF Rung3
  <1>4. P = CASE fail[1] = "enable"   -> setup!Failed(fresh)
      [] fail[1] \in {"mask", "regions"} -> setup!Failed(setup!DisableDevice(pci))
      [] fail[1] = "netdev"   -> setup!Failed(setup!ReleasePciMem(mem))
      [] fail[1] = "msix"     -> setup!FreeNetdev(cap)
      [] fail[1] \in {"shell", "qdev", "fmap"} -> setup!ClearCapacityL(hw)
      [] fail[1] \in {"irq", "user", "error"}  -> setup!ClearHardwareL(irq)
      [] fail[1] = "nfdp"     -> setup!Failed(setup!FreeNetdev(irq))
      [] fail[1] = "register" -> setup!Failed(setup!ClearInterruptL(nf))
      [] OTHER                -> setup!Take(nf, {"registered"}, {0})
    BY DEF setup!ProbeDevice
  <1> HIDE DEF pci, mem, net, cap, hw, irq, nf, P
  <1>5. CASE fail[1] = "enable"
    <2>1. P = setup!Failed(fresh)
      BY <1>4, <1>5
    <2>2. P \in Bare({}, {FALSE})
      BY <2>1, FailedIs
    <2> QED
      BY <2>2, GoneWhenUnset DEF P
  <1>6. CASE fail[1] \in {"mask", "regions"}
    <2>1. P = setup!Failed(setup!DisableDevice(pci))
      BY <1>4, <1>6
    <2>2. setup!DisableDevice(pci) \in Bare({}, {TRUE})
      BY <1>0, <1>1, AtDisableDevice
    <2>3. P \in Bare({}, {FALSE})
      BY <2>1, <2>2, FailedIs
    <2> QED
      BY <2>3, GoneWhenUnset DEF P
  <1>7. CASE fail[1] = "netdev"
    <2>1. P = setup!Failed(setup!ReleasePciMem(mem))
      BY <1>4, <1>7
    <2>2. setup!ReleasePciMem(mem) \in Bare({}, {TRUE})
      BY <1>0, <1>2, AtReleasePciMem
    <2>3. P \in Bare({}, {FALSE})
      BY <2>1, <2>2, FailedIs
    <2> QED
      BY <2>3, GoneWhenUnset DEF P
  <1>8. CASE fail[1] = "msix"
    <2>1. cap = setup!Failed(net)
      BY <1>8 DEF cap, setup!InitCapacity
    <2>2. cap \in Bare(Rung3, {FALSE})
      BY <1>3, <2>1, FailedIs
    <2>3. P = setup!FreeNetdev(cap)
      BY <1>4, <1>8
    <2>4. P \in Bare({}, {FALSE})
      BY <1>0, <2>2, <2>3, AtFreeNetdev
    <2> QED
      BY <2>4, GoneWhenUnset DEF P
  <1>9. CASE fail[1] \notin {"enable", "mask", "regions", "netdev", "msix"}
    <2>1. cap \in Bare(Rung4, {TRUE})
      BY <1>3, <1>9, TakeOne DEF cap, setup!InitCapacity, Rung4
    <2>3. CASE fail[1] = "shell"
      <3>1. hw = setup!Failed(cap)
        BY <2>3 DEF hw, setup!InitHardware
      <3>2. hw \in Bare(Rung4, {FALSE})
        BY <2>1, <3>1, FailedIs
      <3>3. P = setup!ClearCapacityL(hw)
        BY <1>4, <2>3
      <3>4. P \in Bare({}, {FALSE})
        BY <1>0, <3>2, <3>3, AtClearCapacity
      <3> QED
        BY <3>4, GoneWhenUnset DEF P
    <2>4. CASE fail[1] \in {"none", "user", "error", "register", "align", "tx", "rx"}
      <3>1. hw \in Hard(Rung5, {TRUE})
        BY <2>1, <2>4, HardwareTaken DEF hw, Rung5
      <3> DEFINE all == setup!InitVectors(hw, setup!Q)
                 user == [setup!Take(all, {"user"}, {0}) EXCEPT !.bits = {"user"}]
      <3>3. all \in Devices(Rung5, Qs, {}, {}, {Qs}, {{}}, {TRUE}, Disarmed, {TRUE})
        BY <3>1, VectorsTaken DEF setup!Q, Qs
      <3>4. CASE fail[1] \in {"user", "error"}
        <4> DEFINE b == IF fail[1] = "user" THEN {} ELSE {"user"}
                   e == IF fail[1] = "user" THEN all ELSE user
                   f == setup!ClearInterrupt(e)
        <4>1. e \in Devices(Rung5 \cup b, Qs, {}, {}, {Qs}, {b}, {TRUE}, Disarmed, {TRUE})
          <5> HIDE DEF all
          <5>1. user \in Devices(Rung5 \cup {"user"}, Qs, {}, {}, {Qs}, {{"user"}}, {TRUE}, Disarmed, {TRUE})
            BY <3>3, TakeOne, BitsAre
          <5>2. Rung5 \cup {} = Rung5
            OBVIOUS
          <5> HIDE DEF user
          <5> QED
            BY <3>3, <5>1, <5>2, <3>4
        <4>2. irq = setup!Failed(f)
          BY <3>4 DEF irq, setup!InitInterrupt
        <4>3. /\ b \in SUBSET {"user", "error"} /\ "error" \notin b
              /\ (Rung5 \cup b) \cap Numbered = {} /\ (Rung5 \cup b) \ b = Rung5
          BY DEF Rung1, Rung2, Rung3, Rung4, Rung5, Numbered
        <4> HIDE DEF e, b
        <4>4. f \in Devices((Rung5 \cup b) \ b, {}, {}, {}, {Qs}, {b}, {TRUE}, Disarmed, {TRUE})
          <5>1. e \in Devices(Rung5 \cup b, Qs, {}, {}, {Qs}, {b}, {TRUE},
                             IF "error" \in b THEN Armed ELSE Disarmed, {TRUE})
            BY <4>1, <4>3
          <5> QED
            BY <4>3, <5>1, InterruptPut
        <4> HIDE DEF f
        <4>5. irq \in Devices(Rung5, {}, {}, {}, {Qs}, {b}, {TRUE}, Disarmed, {FALSE})
          BY <4>2, <4>3, <4>4, FailedIs
        <4>7. P = setup!ClearHardwareL(irq)
          BY <1>4, <3>4
        <4>8. P \in Devices({}, {}, {}, {}, {Qs}, {b}, {FALSE}, Disarmed, {FALSE})
          BY <1>0, <4>5, <4>7, AtClearHardware
        <4>9. P \in Gone({}, {FALSE})
          BY <4>3, <4>8 DEF Devices, Gone, Both
        <4> QED
          BY <4>9 DEF P
      <3>5. CASE fail[1] \notin {"user", "error"}
        <4>1. irq \in Devices(Rung6, Qs, {}, {}, {Qs}, {Both}, {TRUE}, Armed, {TRUE})
          BY <2>4, <3>1, <3>5, InterruptTaken DEF irq, Rung6, Both
        <4>3. nf \in Devices(Rung6 \cup {"nfdp"}, Qs, {}, {}, {Qs}, {Both}, {TRUE}, Armed, {TRUE})
          BY <4>1, TakeOne DEF nf
        <4>4. CASE fail[1] = "register"
          <5> DEFINE e == setup!ClearInterruptL(nf)
          <5>1. P = setup!Failed(e)
            BY <1>4, <4>4
          <5>2. Rung6 \cup {"nfdp"} = {"nfdp"} \cup Rung6
            OBVIOUS
          <5>3. e \in Devices({"nfdp"}, {}, {}, {}, {Qs}, {Both}, {FALSE}, Disarmed, {TRUE})
            BY <4>3, <5>2, AtClearInterrupt DEF Both
          <5> HIDE DEF e
          <5>4. P \in Devices({"nfdp"}, {}, {}, {}, {Qs}, {Both}, {FALSE}, Disarmed, {FALSE})
            BY <5>1, <5>3, FailedIs
          <5>5. P \in Gone({"nfdp"}, {FALSE})
            BY <5>4 DEF Devices, Gone
          <5> QED
            BY <5>5 DEF P
        <4>5. CASE fail[1] # "register"
          <5>1. P = setup!Take(nf, {"registered"}, {0})
            BY <1>4, <2>4, <3>5, <4>5
          <5>2. (Rung6 \cup {"nfdp"}) \cup {"registered"} = Complete
            BY DEF Complete
          <5>3. P \in Devices(Complete, Qs, {}, {}, {Qs}, {Both}, {TRUE}, Armed, {TRUE})
            BY <4>3, <5>1, <5>2, TakeOne
          <5> QED
            BY <5>3 DEF P
        <4> QED
          BY <4>4, <4>5
      <3> QED
        BY <3>4, <3>5
    <2> QED
      BY <1>9, <2>3, <2>4, FailTypes
  <1> QED
    BY <1>5, <1>6, <1>7, <1>8, <1>9

LEMMA CompletePlain == Complete \cap Numbered = {}
  BY DEF Complete, Rung1, Rung2, Rung3, Rung4, Rung5, Rung6, Numbered

(* The rings of a complete device *)
LEMMA TxGone ==
  ASSUME NEW ts, NEW rs, NEW q, NEW miss \in SUBSET MayTimeOut, NEW skbs \in SUBSET {"skb"},
         NEW d \in Ringed(ts, rs)
  PROVE  setup!ClearTxQueue(d, q, miss, skbs) \in Ringed(ts \ {q}, rs)
  BY CompletePlain, TxCleared DEF Ringed

LEMMA RxGone ==
  ASSUME NEW ts, NEW rs \in SUBSET Qs, NEW q, NEW miss \in SUBSET MayTimeOut,
         NEW d \in Ringed(ts, rs)
  PROVE  setup!ClearRxQueue(d, q, miss) \in Ringed(ts, rs \ {q})
  BY CompletePlain, RxCleared DEF Ringed

LEMMA RingedFails ==
  ASSUME NEW ts, NEW rs, NEW d \in Ringed(ts, rs)
  PROVE  setup!Failed(d) \in Ringed(ts, rs)
  BY DEF setup!Failed, Ringed, Devices

LEMMA RaisedAnyhow ==
  ASSUME SetupInv, UNCHANGED <<phase, at>>, NEW r \in SUBSET Qs, phase = "absent" => r = {},
         dev' = [dev EXCEPT !.raised = r]
  PROVE  SetupInv'
  <1>1. ASSUME NEW ts, NEW rs, dev \in Ringed(ts, rs)
        PROVE  dev' \in Ringed(ts, rs)
    BY <1>1 DEF Ringed, Devices
  <1>2. ASSUME NEW ts, NEW rs, NEW q, dev \in RingedArmed(ts, rs, q)
        PROVE  dev' \in RingedArmed(ts, rs, q)
    BY <1>2 DEF RingedArmed, ArmedDevices
  <1>3. CASE phase = "absent"
    <2>1. PICK kept \in SUBSET {"nfdp"} : dev \in Gone(kept, BOOLEAN)
      BY <1>3 DEF SetupInv, Opening, Unwinding, Stopping
    <2>2. dev' \in Gone(kept, BOOLEAN)
      BY <1>3, <2>1 DEF Gone, Devices
    <2> QED
      BY <1>3, <2>2 DEF SetupInv, Gone, Devices
  <1>4. CASE phase = "probed" /\ dev \in Ringed({}, {})
    BY <1>1, <1>4 DEF SetupInv, Ringed, Devices
  <1>5. CASE phase = "open" /\ at = <<"tx", 0>> /\ dev \in Ringed(Qs, Qs)
    BY <1>1, <1>5 DEF SetupInv, Ringed, Devices
  <1>6. CASE Opening
    <2>1. CASE at \in {"tx"} \X Qs /\ dev \in Ringed(0 .. at[2] - 1, {})
      <3>1. dev' \in Ringed(0 .. at'[2] - 1, {}) /\ at' \in {"tx"} \X Qs /\ phase' = "opening"
        BY <1>1, <1>6, <2>1 DEF Opening
      <3> QED
        BY <3>1 DEF SetupInv, Opening, Ringed, Devices
    <2>2. CASE at \in {"rx"} \X Qs /\ dev \in Ringed(Qs, 0 .. at[2] - 1)
      <3>1. dev' \in Ringed(Qs, 0 .. at'[2] - 1) /\ at' \in {"rx"} \X Qs /\ phase' = "opening"
        BY <1>1, <1>6, <2>2 DEF Opening
      <3> QED
        BY <3>1 DEF SetupInv, Opening, Ringed, Devices
    <2>3. CASE at \in {"set"} \X Qs /\ dev \in RingedArmed(Qs, 0 .. at[2] - 1, at[2])
      <3>1. /\ dev' \in RingedArmed(Qs, 0 .. at'[2] - 1, at'[2])
            /\ at' \in {"set"} \X Qs /\ phase' = "opening"
        BY <1>2, <1>6, <2>3 DEF Opening
      <3> QED
        BY <3>1 DEF SetupInv, Opening, RingedArmed, ArmedDevices
    <2> QED
      BY <1>6, <2>1, <2>2, <2>3 DEF Opening
  <1>7. CASE Unwinding
    <2>1. PICK ts, rs \in SUBSET Qs : dev \in Ringed(ts, rs)
      BY <1>7 DEF Unwinding
    <2>2. dev' \in Ringed(ts, rs)
      BY <1>1, <2>1
    <2>3. Unwinding'
      BY <1>7, <2>2 DEF Unwinding, Ringed, Devices
    <2> QED
      BY <2>3 DEF SetupInv
  <1>8. CASE Stopping
    <2>1. CASE at \in {"tx"} \X Qs
      <3>1. PICK ts \in SUBSET (at[2] .. Queues - 1), rs \in SUBSET Qs : dev \in Ringed(ts, rs)
        BY <1>8, <2>1 DEF Stopping
      <3>2. dev' \in Ringed(ts, rs) /\ ts \in SUBSET (at'[2] .. Queues - 1) /\ at' = at
        BY <1>1, <3>1
      <3>3. phase' = "stopping" /\ at' \in {"tx"} \X Qs
        BY <1>8, <2>1, <3>2 DEF Stopping
      <3>4. \E us \in SUBSET (at'[2] .. Queues - 1), ws \in SUBSET Qs : dev' \in Ringed(us, ws)
        BY <3>1, <3>2
      <3>5. Stopping'
        BY <3>3, <3>4 DEF Stopping, Ringed, Devices
      <3> QED
        BY <3>5 DEF SetupInv
    <2>2. CASE at \in {"rx"} \X Qs
      <3>1. PICK rs \in SUBSET (at[2] .. Queues - 1) : dev \in Ringed({}, rs)
        BY <1>8, <2>2 DEF Stopping
      <3>2. dev' \in Ringed({}, rs) /\ rs \in SUBSET (at'[2] .. Queues - 1) /\ at' = at
        BY <1>1, <3>1
      <3>3. phase' = "stopping" /\ at' \in {"rx"} \X Qs
        BY <1>8, <2>2, <3>2 DEF Stopping
      <3>4. \E ws \in SUBSET (at'[2] .. Queues - 1) : dev' \in Ringed({}, ws)
        BY <3>1, <3>2
      <3>5. Stopping'
        BY <3>3, <3>4 DEF Stopping, Ringed, Devices
      <3> QED
        BY <3>5 DEF SetupInv
    <2> QED
      BY <1>8, <2>1, <2>2 DEF Stopping
  <1> QED
    BY <1>3, <1>4, <1>5, <1>6, <1>7, <1>8 DEF SetupInv

\* Interrupts are raised by vectors there are.
LEMMA RaisedAre ==
  ASSUME SetupInv
  PROVE  dev.raised \subseteq Qs /\ (phase = "absent" => dev.raised = {})
  BY DEF SetupInv, Opening, Unwinding, Stopping, Gone, Ringed, RingedArmed, Devices, ArmedDevices

(* onic_probe *)
LEMMA ProbeStep ==
  ASSUME SetupInv, NEW fail \in recovers, setup!Probe(fail)
  PROVE  SetupInv'
  <1> DEFINE fresh == setup!Fresh(dev)
             P == setup!ProbeDevice(fresh, fail)
  <1>1. PICK kept \in SUBSET {"nfdp"} : dev \in Gone(kept, BOOLEAN)
    BY DEF SetupInv, Opening, Unwinding, Stopping, setup!Probe
  <1>2. dev.held = kept \X {0}
    <2>1. Kept(kept, {}, {}, {}) = kept \X {0}
      BY DEF Kept
    <2> QED
      BY <1>1, <2>1 DEF Gone, Devices
  <1>3. fresh \in Devices({}, {}, {}, {}, {{}}, {{}}, {FALSE}, Disarmed, {TRUE})
    BY <1>1, FreshIsDevice DEF Gone
  <1>4. dev' = setup!Take(P, kept, {0}) /\ phase' = IF dev'.ok THEN "probed" ELSE "absent"
    BY <1>2 DEF setup!Probe, setup!Take
  <1>5. \/ P \in Devices(Complete, Qs, {}, {}, {Qs}, {Both}, {TRUE}, Armed, {TRUE})
        \/ \E o \in SUBSET {"nfdp"} : P \in Gone(o, {FALSE})
    BY <1>3, ProbeTakesOrGives
  <1> HIDE DEF P, fresh
  <1>6. CASE P \in Devices(Complete, Qs, {}, {}, {Qs}, {Both}, {TRUE}, Armed, {TRUE})
    <2>1. Complete \cup kept = Complete
      BY DEF Complete
    <2>2. dev' \in Devices(Complete, Qs, {}, {}, {Qs}, {Both}, {TRUE}, Armed, {TRUE})
      BY <1>4, <1>6, <2>1, TakeOne
    <2>3. dev' \in Ringed({}, {}) /\ dev'.ok = TRUE
      BY <2>2 DEF Ringed, Devices
    <2> QED
      BY <1>4, <2>3 DEF SetupInv, Ringed, Devices
  <1>7. ASSUME NEW o \in SUBSET {"nfdp"}, P \in Gone(o, {FALSE})
        PROVE  SetupInv'
    <2>1. dev' \in Gone(o \cup kept, {FALSE})
      BY <1>4, <1>7, TakeOne DEF Gone
    <2>2. dev' \in Gone(o \cup kept, BOOLEAN) /\ dev'.ok = FALSE
      BY <2>1 DEF Gone, Devices
    <2>3. o \cup kept \in SUBSET {"nfdp"}
      OBVIOUS
    <2> QED
      BY <1>4, <2>2, <2>3 DEF SetupInv, Gone, Devices
  <1> QED
    BY <1>5, <1>6, <1>7

(* onic_open_netdev *)
LEMMA OpenStep ==
  ASSUME SetupInv, setup!Open
  PROVE  SetupInv'
  <1>1. dev \in Ringed({}, {}) /\ dev' = [dev EXCEPT !.ok = TRUE]
    BY DEF SetupInv, Opening, Unwinding, Stopping, setup!Open
  <1>2. dev' \in Ringed({}, {})
    BY <1>1 DEF Ringed, Devices
  <1>3. phase' = "opening" /\ at' = <<"tx", 0>> /\ 0 .. 0 - 1 = {} /\ 0 \in Qs
    BY QueuesAssumption DEF setup!Open, Qs
  <1>4. at' \in {"tx"} \X Qs /\ at'[2] = 0
    BY <1>3
  <1>5. dev' \in Ringed(0 .. at'[2] - 1, {})
    BY <1>2, <1>3, <1>4
  <1>6. Opening'
    BY <1>3, <1>4, <1>5 DEF Opening, Ringed, Devices
  <1> QED
    BY <1>6 DEF SetupInv

LEMMA OpenTxStep ==
  ASSUME SetupInv, setup!OpenTx
  PROVE  SetupInv'
  <1> DEFINE q == at[2]
  <1>1. phase = "opening" /\ at[1] = "tx" /\ dev' = setup!InitTxQueue(dev, q)
    BY DEF setup!OpenTx
  <1>2. at \in {"tx"} \X Qs /\ dev \in Ringed(0 .. q - 1, {})
    BY <1>1 DEF SetupInv, Opening, Unwinding, Stopping
  <1>3. q \in 0 .. Queues - 1 /\ (0 .. q - 1) \cup {q} = 0 .. q
    BY <1>2, QueuesAssumption DEF Qs
  <1>4. dev' \in Ringed(0 .. q, {})
    BY <1>1, <1>2, <1>3, CompletePlain, TxSetUp DEF Ringed
  <1>5. CASE q < Queues - 1
    <2>1. at' = <<"tx", q + 1>> /\ phase' = "opening"
      BY <1>1, <1>5 DEF setup!OpenTx, setup!Advance
    <2>2. q + 1 \in Qs /\ (q + 1) - 1 = q
      BY <1>3, <1>5, QueuesAssumption DEF Qs
    <2>3. at' \in {"tx"} \X Qs /\ dev' \in Ringed(0 .. at'[2] - 1, {})
      BY <1>4, <2>1, <2>2
    <2>4. Opening'
      BY <2>1, <2>3 DEF Opening, Ringed, Devices
    <2> QED
      BY <2>4 DEF SetupInv
  <1>6. CASE ~(q < Queues - 1)
    <2>1. at' = <<"rx", 0>> /\ phase' = "opening"
      BY <1>1, <1>6 DEF setup!OpenTx, setup!Advance
    <2>2. 0 .. q = Qs /\ 0 .. 0 - 1 = {} /\ 0 \in Qs
      BY <1>3, <1>6, QueuesAssumption DEF Qs
    <2>3. at' \in {"rx"} \X Qs /\ dev' \in Ringed(Qs, 0 .. at'[2] - 1)
      BY <1>4, <2>1, <2>2
    <2>4. Opening'
      BY <2>1, <2>3 DEF Opening, Ringed, Devices
    <2> QED
      BY <2>4 DEF SetupInv
  <1> QED
    BY <1>5, <1>6

LEMMA OpenRxStep ==
  ASSUME SetupInv, setup!OpenRx
  PROVE  SetupInv'
  <1> DEFINE q == at[2]
  <1>1. phase = "opening" /\ at[1] = "rx" /\ dev' = setup!ArmRxQueue(dev, q)
    BY DEF setup!OpenRx
  <1>2. at \in {"rx"} \X Qs /\ dev \in Ringed(Qs, 0 .. q - 1)
    BY <1>1 DEF SetupInv, Opening, Unwinding, Stopping
  <1>3. q \in Qs /\ q \notin 0 .. q - 1 /\ 0 .. q - 1 \in SUBSET Qs
    BY <1>2, QueuesAssumption DEF Qs
  <1>4. dev' \in RingedArmed(Qs, 0 .. q - 1, q)
    BY <1>1, <1>2, <1>3, CompletePlain, RxArmed DEF Ringed, RingedArmed
  <1>5. at' = <<"set", q>> /\ phase' = "opening"
    BY <1>1 DEF setup!OpenRx
  <1>6. at' \in {"set"} \X Qs /\ dev' \in RingedArmed(Qs, 0 .. at'[2] - 1, at'[2])
    BY <1>3, <1>4, <1>5
  <1>7. Opening'
    BY <1>5, <1>6 DEF Opening, RingedArmed, ArmedDevices
  <1> QED
    BY <1>7 DEF SetupInv

LEMMA PublishRxStep ==
  ASSUME SetupInv, setup!PublishRx
  PROVE  SetupInv'
  <1> DEFINE q == at[2]
  <1>1. phase = "opening" /\ at[1] = "set" /\ dev' = [dev EXCEPT !.rxq = @ \cup {q}]
    BY DEF setup!PublishRx
  <1>2. at \in {"set"} \X Qs /\ dev \in RingedArmed(Qs, 0 .. q - 1, q)
    BY <1>1 DEF SetupInv, Opening, Unwinding, Stopping
  <1>3. q \in 0 .. Queues - 1 /\ (0 .. q - 1) \cup {q} = 0 .. q
    BY <1>2, QueuesAssumption DEF Qs
  <1>4. dev' \in Ringed(Qs, 0 .. q)
    <2> HIDE DEF q
    <2> QED
      BY <1>1, <1>2, <1>3 DEF Ringed, RingedArmed, Devices, ArmedDevices
  <1>5. CASE q < Queues - 1
    <2>1. at' = <<"rx", q + 1>> /\ phase' = "opening"
      BY <1>1, <1>5 DEF setup!PublishRx, setup!Advance
    <2>2. q + 1 \in Qs /\ (q + 1) - 1 = q
      BY <1>3, <1>5, QueuesAssumption DEF Qs
    <2>3. at' \in {"rx"} \X Qs /\ dev' \in Ringed(Qs, 0 .. at'[2] - 1)
      BY <1>4, <2>1, <2>2
    <2>4. Opening'
      BY <2>1, <2>3 DEF Opening, Ringed, Devices
    <2> QED
      BY <2>4 DEF SetupInv
  <1>6. CASE ~(q < Queues - 1)
    <2>1. at' = <<"tx", 0>> /\ phase' = "open"
      BY <1>6 DEF setup!PublishRx, setup!Advance
    <2>2. 0 .. q = Qs
      BY <1>3, <1>6, QueuesAssumption DEF Qs
    <2> QED
      BY <1>4, <2>1, <2>2 DEF SetupInv, Ringed, Devices
  <1> QED
    BY <1>5, <1>6

LEMMA FailOpenStep ==
  ASSUME SetupInv, NEW fail \in recovers, NEW miss \in SUBSET MayTimeOut, setup!FailOpen(fail, miss)
  PROVE  SetupInv'
  <1> DEFINE q == fail[2]
  <1>1. phase = "opening" /\ phase' = "unwinding" /\ at' = at /\ at[2] = q
    BY DEF setup!FailOpen
  <1>2. \/ at[1] = "tx" /\ fail[1] = "tx" /\ dev' = setup!FailTxQueue(dev, fail, miss)
        \/ at[1] = "rx" /\ fail[1] = "rx" /\ dev' = setup!FailRxQueue(dev, fail, miss)
    BY FailTypes DEF setup!FailOpen
  <1>3. q \in 1 .. Queues - 1
    BY <1>2, FailTypes
  <1>4. 0 .. q - 1 \in SUBSET Qs /\ Qs \in SUBSET Qs /\ {} \in SUBSET Qs
    BY <1>3, QueuesAssumption DEF Qs
  <1>5. CASE at[1] = "tx"
    <2> DEFINE c == setup!ClearTxQueue(dev, q, {}, {})
    <2>1. at \in {"tx"} \X Qs /\ dev \in Ringed(0 .. q - 1, {})
      BY <1>1, <1>5 DEF SetupInv, Opening, Unwinding, Stopping
    <2>2. dev' = setup!Failed(c)
      BY <1>2, <1>5 DEF setup!FailTxQueue
    <2>3. c \in Ringed((0 .. q - 1) \ {q}, {})
      BY <2>1, TxGone
    <2> HIDE DEF c
    <2> DEFINE ts == (0 .. q - 1) \ {q}
    <2>4. dev' \in Ringed(ts, {})
      BY <2>2, <2>3, RingedFails
    <2>5. ts \in SUBSET Qs
      BY <1>4
    <2> HIDE DEF ts
    <2>6. at' \in {"tx", "rx"} \X (1 .. Queues - 1)
      BY <1>1, <1>3, <2>1
    <2>7. Unwinding'
      BY <1>1, <1>4, <2>4, <2>5, <2>6 DEF Unwinding, Ringed, Devices
    <2> QED
      BY <2>7 DEF SetupInv
  <1>6. CASE at[1] = "rx"
    <2> DEFINE c == setup!ClearRxQueue(dev, q, {})
    <2>1. at \in {"rx"} \X Qs /\ dev \in Ringed(Qs, 0 .. q - 1)
      BY <1>1, <1>6 DEF SetupInv, Opening, Unwinding, Stopping
    <2>2. dev' = setup!Failed(c)
      BY <1>2, <1>6 DEF setup!FailRxQueue
    <2>3. c \in Ringed(Qs, (0 .. q - 1) \ {q})
      BY <1>4, <2>1, RxGone
    <2> HIDE DEF c
    <2> DEFINE rs == (0 .. q - 1) \ {q}
    <2>4. dev' \in Ringed(Qs, rs)
      BY <2>2, <2>3, RingedFails
    <2>5. rs \in SUBSET Qs
      BY <1>4
    <2> HIDE DEF rs
    <2>6. at' \in {"tx", "rx"} \X (1 .. Queues - 1)
      BY <1>1, <1>3, <2>1
    <2>7. Unwinding'
      BY <1>1, <1>4, <2>4, <2>5, <2>6 DEF Unwinding, Ringed, Devices
    <2> QED
      BY <2>7 DEF SetupInv
  <1> QED
    BY <1>2, <1>5, <1>6

LEMMA UnwindStep ==
  ASSUME SetupInv, NEW miss \in SUBSET MayTimeOut, setup!Unwind(miss)
  PROVE  SetupInv'
  <1> DEFINE q == at[2]
             U == setup!Unwound(at[1], q, miss)
  <1>1. at \in {"tx", "rx"} \X (1 .. Queues - 1)
    BY DEF SetupInv, Opening, Unwinding, Stopping, setup!Unwind
  <1>2. PICK ts, rs \in SUBSET Qs : dev \in Ringed(ts, rs)
    BY DEF SetupInv, Opening, Unwinding, Stopping, setup!Unwind
  <1>3. q \in 1 .. Queues - 1 /\ at = <<at[1], q>> /\ at[1] \in {"tx", "rx"}
    BY <1>1
  <1>4. phase = "unwinding" /\ dev' = U
    BY DEF setup!Unwind
  <1>5. CASE q = 1
    <2>1. U = dev
      BY <1>5 DEF setup!Unwound
    <2>2. at' = <<"tx", 0>> /\ phase' = "stopping"
      BY <1>5 DEF setup!Unwind
    <2>3. at' \in {"tx"} \X Qs /\ ts \in SUBSET (at'[2] .. Queues - 1)
      BY <2>2, QueuesAssumption DEF Qs
    <2> HIDE DEF U
    <2>4. dev' \in Ringed(ts, rs)
      BY <1>2, <1>4, <2>1
    <2>5. Stopping'
      BY <1>2, <2>2, <2>3, <2>4 DEF Stopping, Ringed, Devices
    <2> QED
      BY <2>5 DEF SetupInv
  <1>6. CASE q # 1
    <2>1. q > 1 /\ q # 0 /\ q - 1 \in 1 .. Queues - 1
      BY <1>3, <1>6, QueuesAssumption
    <2>2. at' = <<at[1], q - 1>> /\ phase' = "unwinding"
      BY <1>4, <2>1 DEF setup!Unwind
    <2>3. at' \in {"tx", "rx"} \X (1 .. Queues - 1)
      BY <1>3, <2>1, <2>2
    <2>4. PICK us, ws \in SUBSET Qs : U \in Ringed(us, ws)
      <3>1. CASE at[1] = "tx"
        <4>1. U = setup!ClearTxQueue(dev, q - 1, miss, {})
          BY <1>6, <2>1, <3>1 DEF setup!Unwound
        <4>2. setup!ClearTxQueue(dev, q - 1, miss, {}) \in Ringed(ts \ {q - 1}, rs)
          BY <1>2, TxGone
        <4> HIDE DEF U
        <4> QED
          BY <4>1, <4>2
      <3>2. CASE at[1] = "rx"
        <4>1. U = setup!ClearRxQueue(dev, q - 1, miss)
          BY <1>6, <2>1, <3>2 DEF setup!Unwound
        <4>2. setup!ClearRxQueue(dev, q - 1, miss) \in Ringed(ts, rs \ {q - 1})
          BY <1>2, RxGone
        <4> HIDE DEF U
        <4> QED
          BY <4>1, <4>2
      <3> QED
        BY <1>3, <3>1, <3>2
    <2> HIDE DEF U
    <2>5. dev' \in Ringed(us, ws)
      BY <1>4, <2>4
    <2>6. Unwinding'
      BY <2>2, <2>3, <2>5 DEF Unwinding, Ringed, Devices
    <2> QED
      BY <2>6 DEF SetupInv
  <1> QED
    BY <1>5, <1>6

(* onic_stop_netdev *)
LEMMA StopTxStep ==
  ASSUME SetupInv, NEW miss \in SUBSET MayTimeOut, NEW skbs \in SUBSET {"skb"}, setup!StopTx(miss, skbs)
  PROVE  SetupInv'
  <1> DEFINE q == at[2]
  <1>1. phase = "stopping" /\ at[1] = "tx" /\ dev' = setup!ClearTxQueue(dev, q, miss, skbs)
    BY DEF setup!StopTx
  <1>2. PICK ts \in SUBSET (q .. Queues - 1), rs \in SUBSET Qs : dev \in Ringed(ts, rs)
    BY <1>1 DEF SetupInv, Opening, Unwinding, Stopping
  <1>3. at \in {"tx"} \X Qs
    BY <1>1 DEF SetupInv, Opening, Unwinding, Stopping
  <1>4. q \in 0 .. Queues - 1 /\ ts \ {q} \in SUBSET (q + 1 .. Queues - 1)
    <2>1. q \in 0 .. Queues - 1
      BY <1>3 DEF Qs
    <2> HIDE DEF q
    <2>2. ASSUME NEW x \in ts \ {q} PROVE x \in q + 1 .. Queues - 1
      <3>1. x \in q .. Queues - 1 /\ x # q
        BY <1>2, <2>2
      <3> QED
        BY <2>1, <3>1, QueuesAssumption
    <2> QED
      BY <2>1, <2>2
  <1>5. dev' \in Ringed(ts \ {q}, rs)
    BY <1>1, <1>2, TxGone
  <1>6. CASE q < Queues - 1
    <2>1. at' = <<"tx", q + 1>> /\ phase' = "stopping"
      BY <1>1, <1>6 DEF setup!StopTx, setup!Advance
    <2>2. q + 1 \in Qs
      BY <1>4, <1>6, QueuesAssumption DEF Qs
    <2>3. at' \in {"tx"} \X Qs /\ ts \ {q} \in SUBSET (at'[2] .. Queues - 1)
      BY <1>4, <2>1, <2>2
    <2>4. Stopping'
      BY <1>5, <2>1, <2>3 DEF Stopping, Ringed, Devices
    <2> QED
      BY <2>4 DEF SetupInv
  <1>7. CASE ~(q < Queues - 1)
    <2>1. at' = <<"rx", 0>> /\ phase' = "stopping"
      BY <1>1, <1>7 DEF setup!StopTx, setup!Advance
    <2>2. ts \ {q} = {} /\ 0 \in Qs
      BY <1>4, <1>7, QueuesAssumption DEF Qs
    <2>3. at' \in {"rx"} \X Qs /\ rs \in SUBSET (at'[2] .. Queues - 1)
      BY <2>1, <2>2 DEF Qs
    <2>4. dev' \in Ringed({}, rs)
      BY <1>5, <2>2
    <2>5. Stopping'
      BY <2>1, <2>3, <2>4 DEF Stopping, Ringed, Devices
    <2> QED
      BY <2>5 DEF SetupInv
  <1> QED
    BY <1>6, <1>7

LEMMA StopRxStep ==
  ASSUME SetupInv, NEW miss \in SUBSET MayTimeOut, setup!StopRx(miss)
  PROVE  SetupInv'
  <1> DEFINE q == at[2]
  <1>1. phase = "stopping" /\ at[1] = "rx" /\ dev' = setup!ClearRxQueue(dev, q, miss)
    BY DEF setup!StopRx
  <1>2. PICK rs \in SUBSET (q .. Queues - 1) : dev \in Ringed({}, rs)
    BY <1>1 DEF SetupInv, Opening, Unwinding, Stopping
  <1>3. at \in {"rx"} \X Qs
    BY <1>1 DEF SetupInv, Opening, Unwinding, Stopping
  <1>4. q \in 0 .. Queues - 1 /\ rs \ {q} \in SUBSET (q + 1 .. Queues - 1) /\ rs \in SUBSET Qs
    <2>1. q \in 0 .. Queues - 1
      BY <1>3 DEF Qs
    <2> HIDE DEF q
    <2>2. ASSUME NEW x \in rs \ {q} PROVE x \in q + 1 .. Queues - 1
      <3>1. x \in q .. Queues - 1 /\ x # q
        BY <1>2, <2>2
      <3> QED
        BY <2>1, <3>1, QueuesAssumption
    <2>3. ASSUME NEW x \in rs PROVE x \in Qs
      <3>1. x \in q .. Queues - 1
        BY <1>2, <2>3
      <3> QED
        BY <2>1, <3>1, QueuesAssumption DEF Qs
    <2> QED
      BY <2>1, <2>2, <2>3
  <1>5. dev' \in Ringed({}, rs \ {q})
    BY <1>1, <1>2, <1>4, RxGone
  <1>6. CASE q < Queues - 1
    <2>1. at' = <<"rx", q + 1>> /\ phase' = "stopping"
      BY <1>1, <1>6 DEF setup!StopRx, setup!Advance
    <2>2. q + 1 \in Qs
      BY <1>4, <1>6, QueuesAssumption DEF Qs
    <2>3. at' \in {"rx"} \X Qs /\ rs \ {q} \in SUBSET (at'[2] .. Queues - 1)
      BY <1>4, <2>1, <2>2
    <2>4. Stopping'
      BY <1>5, <2>1, <2>3 DEF Stopping, Ringed, Devices
    <2> QED
      BY <2>4 DEF SetupInv
  <1>7. CASE ~(q < Queues - 1)
    <2>1. phase' = "probed"
      BY <1>7 DEF setup!StopRx, setup!Advance
    <2>2. rs \ {q} = {}
      BY <1>4, <1>7, QueuesAssumption
    <2>3. dev' \in Ringed({}, {})
      BY <1>5, <2>2
    <2> QED
      BY <2>1, <2>3 DEF SetupInv, Ringed, Devices
  <1> QED
    BY <1>6, <1>7

(* onic_remove *)
LEMMA RemoveStep ==
  ASSUME SetupInv, setup!Remove
  PROVE  SetupInv'
  <1> DEFINE f == setup!Put(dev, {"registered"}, {0})
  <1>1. dev \in Ringed({}, {})
    BY DEF SetupInv, Opening, Unwinding, Stopping, setup!Remove
  <1>2. /\ {"registered"} \subseteq Complete /\ {"registered"} \cap Numbered = {}
        /\ Complete \ {"registered"} = {"nfdp"} \cup Rung6
    BY DEF Complete, Rung1, Rung2, Rung3, Rung4, Rung5, Rung6, Numbered
  <1>3. dev' = setup!ClearInterruptL(f) /\ phase' = "absent"
    BY DEF setup!Remove
  <1>4. f \in Devices(Complete \ {"registered"}, Qs, {}, {}, {Qs}, {Both}, {TRUE}, Armed, BOOLEAN)
    BY <1>1, <1>2, PutOne DEF Ringed
  <1> HIDE DEF f
  <1>5. dev' \in Devices({"nfdp"}, {}, {}, {}, {Qs}, {Both}, {FALSE}, Disarmed, BOOLEAN)
    BY <1>2, <1>3, <1>4, AtClearInterrupt DEF Both
  <1>6. dev' \in Gone({"nfdp"}, BOOLEAN)
    BY <1>5 DEF Gone, Devices
  <1> QED
    BY <1>3, <1>6 DEF SetupInv, Gone, Devices
-----------------------------------------------------------------------------
LEMMA SetupStep ==
  ASSUME SetupInv, [setup!Next]_setupVars
  PROVE  SetupInv'
  <1>1. CASE UNCHANGED setupVars
    <2> DEFINE r == dev.raised
    <2>1. dev' = [dev EXCEPT !.raised = r] /\ UNCHANGED <<phase, at>>
      BY <1>1 DEF SetupInv, Opening, Unwinding, Stopping, setupVars, Gone, Ringed, Devices,
                  RingedArmed, ArmedDevices
    <2>2. r \in SUBSET Qs /\ (phase = "absent" => r = {})
      BY RaisedAre
    <2> HIDE DEF r
    <2> QED
      BY <2>1, <2>2, RaisedAnyhow
  <1>2. ASSUME NEW v \in setup!Q, setup!Raise(v) \/ setup!QHandler(v)
        PROVE  SetupInv'
    <2>1. v \in Qs /\ UNCHANGED <<phase, at>>
      BY <1>2 DEF setup!Q, Qs, setup!Raise, setup!QHandler
    <2>2. CASE setup!QHandler(v)
      <3> DEFINE r == dev.raised \ {v}
      <3>1. dev' = [dev EXCEPT !.raised = r]
        BY <2>2 DEF setup!QHandler
      <3>2. r \in SUBSET Qs /\ (phase = "absent" => r = {})
        BY RaisedAre
      <3> HIDE DEF r
      <3> QED
        BY <2>1, <3>1, <3>2, RaisedAnyhow
    <2>3. CASE setup!Raise(v)
      <3>1. phase # "absent"
        <4> SUFFICES ASSUME phase = "absent" PROVE FALSE
          OBVIOUS
        <4>1. PICK kept \in SUBSET {"nfdp"} : dev \in Gone(kept, BOOLEAN)
          BY DEF SetupInv, Opening, Unwinding, Stopping
        <4>2. Kept(kept, {}, {}, {}) = kept \X {0}
          BY DEF Kept
        <4>3. dev.held = kept \X {0} /\ <<"irq", v>> \in dev.held
          BY <2>3, <4>1, <4>2 DEF Gone, Devices, setup!Raise
        <4>4. "irq" \in kept
          BY <4>3
        <4> QED
          BY <4>4
      <3> DEFINE r == dev.raised \cup {v}
      <3>2. dev' = [dev EXCEPT !.raised = r]
        BY <2>3 DEF setup!Raise
      <3>3. r \in SUBSET Qs
        BY <2>1, RaisedAre
      <3> HIDE DEF r
      <3> QED
        BY <2>1, <3>1, <3>2, <3>3, RaisedAnyhow
    <2> QED
      BY <1>2, <2>2, <2>3
  <1>3. ASSUME setup!Stop
        PROVE  SetupInv'
    <2>1. /\ dev \in Ringed(Qs, Qs) /\ at = <<"tx", 0>>
          /\ phase' = "stopping" /\ at' = at /\ dev' = dev
      BY <1>3 DEF SetupInv, Opening, Unwinding, Stopping, setup!Stop
    <2>2. at' \in {"tx"} \X Qs /\ Qs \in SUBSET (at'[2] .. Queues - 1) /\ dev' \in Ringed(Qs, Qs)
      BY <2>1, QueuesAssumption DEF Qs
    <2>3. Stopping'
      BY <2>1, <2>2 DEF Stopping, Ringed, Devices
    <2> QED
      BY <2>3 DEF SetupInv
  <1> QED
    BY <1>1, <1>2, <1>3, ProbeStep, OpenStep, OpenTxStep, OpenRxStep, PublishRxStep, FailOpenStep,
       UnwindStep, StopTxStep, StopRxStep, RemoveStep DEF setup!Next

(* A valid context's ring is held. *)
LEMMA ContextsHeld ==
  ASSUME NEW one, NEW vecs, NEW ts, NEW rs, NEW c \in Contexts(ts, rs)
  PROVE  <<IF c[2] = "h2c" THEN "tx" ELSE "rx", c[3]>> \in Kept(one, vecs, ts, rs)
  <1>1. CASE c \in setup!TxContexts(ts)
    <2>1. c[2] = "h2c" /\ c[3] \in ts
      BY <1>1 DEF setup!TxContexts
    <2>2. <<"tx", c[3]>> \in {"tx"} \X ts
      BY <2>1
    <2> QED
      BY <2>1, <2>2 DEF Kept
  <1>2. CASE c \in setup!RxContexts(rs)
    <2>1. c[2] = "c2h" /\ c[3] \in rs
      BY <1>2 DEF setup!RxContexts
    <2>2. <<"rx", c[3]>> \in {"rx"} \X rs
      BY <2>1
    <2> QED
      BY <2>1, <2>2 DEF Kept
  <1> QED
    BY <1>1, <1>2 DEF Contexts

LEMMA SetupSound == SetupInv => LaddersSound
  <1> SUFFICES ASSUME SetupInv PROVE LaddersSound
    OBVIOUS
  <1>1. ASSUME NEW one, NEW vecs, NEW ts, NEW rs, NEW vec, NEW bits, NEW qdma, NEW card, NEW ok,
               dev \in Devices(one, vecs, ts, rs, vec, bits, qdma, card, ok)
        PROVE  setup!NoStrayDma
    <2>1. dev.live = Contexts(ts, rs) /\ dev.held = Kept(one, vecs, ts, rs) /\ dev.bad = FALSE
      BY <1>1 DEF Devices
    <2> QED
      BY <2>1, ContextsHeld DEF setup!NoStrayDma
  <1>2. ASSUME NEW ts, NEW rs, NEW q, dev \in RingedArmed(ts, rs, q)
        PROVE  setup!NoStrayDma
    <2>1. /\ dev.live = Contexts(ts, rs \cup {q}) /\ dev.bad = FALSE
          /\ dev.held = Kept(Complete, Qs, ts, rs \cup {q})
      BY <1>2 DEF RingedArmed, ArmedDevices
    <2> QED
      BY <2>1, ContextsHeld DEF setup!NoStrayDma
  <1>3. setup!NoStrayDma
    BY <1>1, <1>2 DEF SetupInv, Opening, Unwinding, Stopping, Gone, Ringed
  <1>4. setup!Released
    <2> SUFFICES ASSUME phase = "absent"
                 PROVE  /\ dev.held \subseteq {<<"nfdp", 0>>} /\ dev.raised = {}
                        /\ "error" \notin dev.card
      BY DEF setup!Released
    <2>1. PICK kept \in SUBSET {"nfdp"} : dev \in Gone(kept, BOOLEAN)
      BY DEF SetupInv, Opening, Unwinding, Stopping
    <2>2. dev.held = Kept(kept, {}, {}, {}) /\ dev.card \in Disarmed /\ dev.raised = {}
      BY <2>1 DEF Gone, Devices
    <2>3. Kept(kept, {}, {}, {}) = kept \X {0}
      BY DEF Kept
    <2>4. kept \X {0} \subseteq {<<"nfdp", 0>>}
      <3>1. ASSUME NEW r \in kept \X {0} PROVE r = <<"nfdp", 0>>
        <4>1. r = <<r[1], r[2]>> /\ r[1] \in kept /\ r[2] \in {0}
          BY <3>1
        <4>2. r[1] = "nfdp" /\ r[2] = 0
          BY <4>1
        <4> QED
          BY <4>1, <4>2
      <3> QED
        BY <3>1
    <2> QED
      BY <2>2, <2>3, <2>4 DEF Disarmed
  <1>5. setup!PointersSet
    <2>1. CASE phase = "open"
      <3>1. dev.rxq = Qs /\ dev.txq = Qs /\ dev.raised \subseteq Qs
        BY <2>1 DEF SetupInv, Opening, Unwinding, Stopping, Ringed, Devices
      <3> QED
        BY <2>1, <3>1 DEF setup!PointersSet, setup!PollsSafe, setup!HandlersSafe, setup!Q, Qs
    <2>2. CASE phase = "opening"
      <3>1. dev.rxq = {} \/ dev.txq = Qs
        BY <2>2 DEF SetupInv, Opening, Unwinding, Stopping, Ringed, RingedArmed, Devices, ArmedDevices
      <3> QED
        BY <2>2, <3>1 DEF setup!PointersSet, setup!PollsSafe, setup!Q, Qs
    <2> QED
      BY <2>1, <2>2 DEF setup!PointersSet
  <1> QED
    BY <1>3, <1>4, <1>5 DEF LaddersSound, setup!LaddersSound

(* onic_probe, onic_remove, onic_open_netdev and onic_stop_netdev, for any *)
(* number of queues, through every failure the driver recovers from and    *)
(* with interrupts at any time: a device that is gone holds nothing but    *)
(* the nfdp mapping and what nothing points to, nothing is given back      *)
(* twice, a valid context never has a ring that was freed unless its       *)
(* invalidation timed out, and no handler or poll meets a NULL while the   *)
(* device is open.                                                         *)
THEOREM LaddersStaySound == MCSpec => []LaddersSound
  <1>1. MCInit => SetupInv
    <2> SUFFICES ASSUME MCInit PROVE SetupInv
      OBVIOUS
    <2>1. phase = "absent" /\ dev = setup!Blank
      BY DEF MCInit, setup!Init
    <2>2. dev \in Gone({}, BOOLEAN)
      BY <2>1, BlankIsDevice DEF Gone, Devices
    <2> QED
      BY <2>1, <2>2 DEF SetupInv
  <1>2. SetupInv /\ [MCNext]_<<unit, vars, setupVars>> => SetupInv'
    <2>1. [MCNext]_<<unit, vars, setupVars>> => [setup!Next]_setupVars
      BY DEF MCNext
    <2> QED
      BY <2>1, SetupStep
  <1>3. SetupInv => LaddersSound
    BY SetupSound
  <1> QED
    BY <1>1, <1>2, <1>3, PTL DEF MCSpec
=============================================================================
