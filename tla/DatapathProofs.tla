--------------------------- MODULE DatapathProofs ---------------------------
(***************************************************************************)
(* The two ends of the data path, for buffers, packets and counters of     *)
(* every size and any packets and sinks.  output_queues.v: a packet that   *)
(* it lets in is stored whole and leaves with its own metadata.            *)
(* input_arbiter.v: packets of different ports are never mixed.  Both:     *)
(* their counters account for each packet and byte inside.                 *)
(*                                                                         *)
(* The beats and the metadata of a queue are in two FIFOs, which move      *)
(* their words to their outputs at their own pace.  What keeps them        *)
(* together is that the metadata is never behind: a first beat that has    *)
(* left its memory finds that its metadata has left the other one.  A      *)
(* packet is recognised in both FIFOs by its number.                       *)
(***************************************************************************)
EXTENDS MCDatapath, CommonLemmas

Beat == [id : Nat, first : BOOLEAN, last : BOOLEAN]
Meta == [id : Nat, len : Nat]

\* The beats D of a queue, of which reader state ms has seen those before, make up
\* packets; the newest one may lack beats if it is being stored, and has number id.
Framed(D, ms, storing, id) ==
    /\ \A i \in 1 .. Len(D) - 1 :
          IF D[i].last THEN D[i+1].first ELSE ~D[i+1].first /\ D[i+1].id = D[i].id
    /\ D # << >> => (D[1].first <=> ms = "WAIT_HEADER")
    /\ D # << >> => (~D[Len(D)].last <=> storing)
    /\ D = << >> => (ms = "WAIT_EOP" <=> storing)
    /\ D # << >> /\ storing => D[Len(D)].id = id

\* The metadata M of a queue are those of the first beats in D, in the same order.
Paired(D, M, id) ==
    /\ \A i \in 1 .. Len(D) : D[i].id <= id
    /\ \A k \in 1 .. Len(M) : M[k].id <= id
    /\ \A i, j \in 1 .. Len(D) : i < j /\ D[j].first => D[i].id < D[j].id
    /\ \A k, l \in 1 .. Len(M) : k < l => M[k].id < M[l].id
    /\ \A i \in 1 .. Len(D) : D[i].first => \E k \in 1 .. Len(M) : M[k].id = D[i].id
    /\ \A k \in 1 .. Len(M) : \E i \in 1 .. Len(D) : D[i].first /\ D[i].id = M[k].id

\* Of the first beats among the oldest x beats, the metadata are among the oldest y.
NotBehind(D, M, x, y) ==
    \A i \in 1 .. Len(D), k \in 1 .. Len(M) :
        D[i].first /\ M[k].id = D[i].id /\ i <= x => k <= y

\* A queue with FIFOs d and m; left beats of packet id are to come.
QueueOK(d, m, ms, storing, id, left) ==
    /\ Sound(d, Beat) /\ Sound(m, Meta) /\ ms \in {"WAIT_HEADER", "WAIT_EOP"}
    /\ Shown(d) /\ Shown(m)
    /\ FifoDepth(d) <= BUFFER_DEPTH /\ FifoDepth(m) <= META_DEPTH
    /\ storing => FifoDepth(d) + left <= BUFFER_DEPTH
    /\ Framed(d.items, ms, storing, id)
    /\ Paired(d.items, m.items, id)
    /\ NotBehind(d.items, m.items, OutOf(d), OutOf(m))
    /\ d.dv /\ d.items[1].first => m.dv

Storing(q) == state = "WR_PKT" /\ q \in cur_queue

Shape ==
    /\ src.id \in Nat /\ src.oq \subseteq Queue /\ src.len \in 0 .. MAX_PACKET_SIZE
    /\ src.left \in 0 .. MAX_PACKET_SIZE
    /\ state \in {"IDLE", "WR_PKT", "DROP"}
    /\ state = "IDLE" <=> src.left = 0

Inv == Shape /\ \A q \in Queue :
          QueueOK(data[q], meta[q], metadata_state[q], Storing(q), src.id, src.left)
-----------------------------------------------------------------------------
(* Reading a beat, and with a first beat its metadata *)

\* The fields of the words of a queue.
LEMMA BeatFields ==
    ASSUME NEW D \in Seq(Beat)
    PROVE  /\ Len(D) \in Nat /\ (D = << >> <=> Len(D) = 0)
           /\ \A i \in 1 .. Len(D) : D[i].id \in Nat
           /\ \A i \in 1 .. Len(D) : D[i].first \in BOOLEAN /\ D[i].last \in BOOLEAN
<1>1. \A i \in 1 .. Len(D) : D[i] \in Beat
  OBVIOUS
<1>2. Len(D) \in Nat /\ (D = << >> <=> Len(D) = 0)
  OBVIOUS
<1> QED BY <1>1, <1>2 DEF Beat

LEMMA MetaFields ==
    ASSUME NEW M \in Seq(Meta)
    PROVE  /\ Len(M) \in Nat /\ (M = << >> <=> Len(M) = 0)
           /\ \A k \in 1 .. Len(M) : M[k].id \in Nat
<1>1. \A k \in 1 .. Len(M) : M[k] \in Meta
  OBVIOUS
<1>2. Len(M) \in Nat /\ (M = << >> <=> Len(M) = 0)
  OBVIOUS
<1> QED BY <1>1, <1>2 DEF Meta

LEMMA TailFields ==
    ASSUME NEW S, NEW D \in Seq(S), D # << >>
    PROVE  /\ Len(D) \in Nat /\ Len(D) >= 1 /\ Tail(D) \in Seq(S) /\ Len(Tail(D)) = Len(D) - 1
           /\ \A i \in 1 .. Len(D) - 1 : Tail(D)[i] = D[i + 1]
  OBVIOUS

\* The oldest beat leaves; the reader expects a first beat after a last one.
LEMMA ReadFramed ==
    ASSUME NEW D \in Seq(Beat), D # << >>, NEW ms, NEW storing \in BOOLEAN, NEW id,
           Framed(D, ms, storing, id),
           NEW ms1, ms1 = IF D[1].last THEN "WAIT_HEADER" ELSE "WAIT_EOP"
    PROVE  Framed(Tail(D), ms1, storing, id)
<1> DEFINE n == Len(D)
           T == Tail(D)
<1>1. /\ n \in Nat /\ n >= 1 /\ Len(T) = n - 1 /\ T \in Seq(Beat)
      /\ \A i \in 1 .. n - 1 : T[i] = D[i + 1]
  BY TailFields
<1>2. T = << >> <=> n = 1
  <2> HIDE DEF T
  <2>1. T = << >> <=> Len(T) = 0
    BY <1>1, BeatFields
  <2> QED BY <1>1, <2>1
<1>3. T # << >> => n >= 2
  BY <1>1, <1>2
<1>5. /\ \A i \in 1 .. n - 1 :
            IF D[i].last THEN D[i+1].first ELSE ~D[i+1].first /\ D[i+1].id = D[i].id
      /\ ~D[n].last <=> storing
      /\ storing => D[n].id = id
  BY DEF Framed
<1> HIDE DEF n, T
<1>6. \A i \in 1 .. Len(T) - 1 :
         IF T[i].last THEN T[i+1].first ELSE ~T[i+1].first /\ T[i+1].id = T[i].id
  <2> TAKE i \in 1 .. Len(T) - 1
  <2>1. i + 1 \in 1 .. n - 1 /\ i \in 1 .. n - 1 /\ i + 1 + 1 = i + 2
    BY <1>1
  <2>2. T[i] = D[i + 1] /\ T[i + 1] = D[i + 1 + 1]
    BY <1>1, <2>1
  <2> QED BY <1>5, <2>1, <2>2
<1>7. T # << >> => (T[1].first <=> ms1 = "WAIT_HEADER")
  <2> SUFFICES ASSUME T # << >> PROVE T[1].first <=> ms1 = "WAIT_HEADER"
    OBVIOUS
  <2>1. T[1] = D[2] /\ 1 \in 1 .. n - 1 /\ 1 + 1 = 2
    BY <1>1, <1>3
  <2> QED BY <1>5, <2>1
<1>8. T # << >> => (~T[Len(T)].last <=> storing) /\ (storing => T[Len(T)].id = id)
  <2> SUFFICES ASSUME T # << >> PROVE T[Len(T)] = D[n]
    BY <1>5
  <2>1. Len(T) \in 1 .. n - 1 /\ Len(T) + 1 = n
    BY <1>1, <1>3
  <2> QED BY <1>1, <2>1
<1>9. T = << >> => (ms1 = "WAIT_EOP" <=> storing)
  BY <1>2, <1>5
<1>10. Framed(T, ms1, storing, id)
  BY <1>6, <1>7, <1>8, <1>9 DEF Framed
<1> QED BY <1>10 DEF T

\* The oldest metadata are those of the oldest beat, if that is a first one.
LEMMA HeadsPaired ==
    ASSUME NEW D \in Seq(Beat), NEW M \in Seq(Meta), NEW id, Paired(D, M, id),
           D # << >>, D[1].first
    PROVE  M # << >> /\ M[1].id = D[1].id
<1> DEFINE n == Len(D)
           m == Len(M)
<1>1. /\ n \in Nat /\ n >= 1 /\ m \in Nat /\ 1 \in 1 .. n
      /\ \A i \in 1 .. n : D[i].id \in Nat
      /\ \A k \in 1 .. m : M[k].id \in Nat
  BY BeatFields, MetaFields
<1>2. PICK k \in 1 .. m : M[k].id = D[1].id
  BY <1>1 DEF Paired
<1>3. 1 \in 1 .. m /\ M # << >>
  BY <1>1, <1>2, MetaFields
<1>4. PICK j \in 1 .. n : D[j].first /\ D[j].id = M[1].id
  BY <1>3 DEF Paired
<1>5. CASE k = 1
  BY <1>2, <1>3, <1>5
<1>6. CASE k # 1
  <2>1. M[1].id < M[k].id
    BY <1>1, <1>3, <1>6 DEF Paired
  <2>2. D[1].id \in Nat /\ D[j].id \in Nat
    BY <1>1
  <2> HIDE DEF n, m
  <2>3. j # 1
    BY <1>2, <1>4, <2>1, <2>2
  <2>4. D[1].id < D[j].id
    BY <1>1, <1>4, <2>3 DEF Paired, n
  <2> QED BY <1>2, <1>4, <2>1, <2>2, <2>4
<1> QED BY <1>5, <1>6

\* Both FIFOs after a read.
LEMMA ReadPaired ==
    ASSUME NEW D \in Seq(Beat), NEW M \in Seq(Meta), NEW id, Paired(D, M, id),
           D # << >>, NEW N, N = IF D[1].first THEN Tail(M) ELSE M,
           NEW x \in Int, NEW y \in Int, NotBehind(D, M, x, y)
    PROVE  /\ Paired(Tail(D), N, id)
           /\ NotBehind(Tail(D), N, x - 1, IF D[1].first THEN y - 1 ELSE y)
<1> DEFINE T == Tail(D)
           n == Len(D)
           m == Len(M)
<1>1. n \in Nat /\ n >= 1 /\ m \in Nat /\ 1 \in 1 .. n
  BY BeatFields, MetaFields
<1>2. Len(T) = n - 1 /\ \A i \in 1 .. n - 1 : T[i] = D[i + 1]
  BY TailFields
<1>3. (\A i \in 1 .. n : D[i].id \in Nat) /\ (\A k \in 1 .. m : M[k].id \in Nat)
  BY BeatFields, MetaFields
<1>4. (\A i \in 1 .. n : D[i].id <= id) /\ (\A k \in 1 .. m : M[k].id <= id)
  BY DEF Paired
<1>5. \A i, j \in 1 .. n : i < j /\ D[j].first => D[i].id < D[j].id
  BY DEF Paired
<1>6. \A k, l \in 1 .. m : k < l => M[k].id < M[l].id
  BY DEF Paired
<1>7. \A i \in 1 .. n : D[i].first => \E k \in 1 .. m : M[k].id = D[i].id
  BY DEF Paired
<1>8. \A k \in 1 .. m : \E i \in 1 .. n : D[i].first /\ D[i].id = M[k].id
  BY DEF Paired
<1>9. \A i \in 1 .. n, k \in 1 .. m : D[i].first /\ M[k].id = D[i].id /\ i <= x => k <= y
  BY DEF NotBehind
<1>10. \A i \in 1 .. n - 1 : i + 1 \in 1 .. n /\ i \in 1 .. n
  BY <1>1
<1>11. \A i \in 1 .. n : i # 1 => i - 1 \in 1 .. n - 1 /\ (i - 1) + 1 = i
  BY <1>1
<1> HIDE DEF T, n, m
<1>12. \A i \in 1 .. n - 1 : T[i].id <= id
  BY <1>2, <1>4, <1>10
<1>13. \A i, j \in 1 .. n - 1 : i < j /\ T[j].first => T[i].id < T[j].id
  <2> SUFFICES ASSUME NEW i \in 1 .. n - 1, NEW j \in 1 .. n - 1, i < j, T[j].first
               PROVE  T[i].id < T[j].id
    OBVIOUS
  <2>1. i + 1 < j + 1
    BY <1>1
  <2> QED BY <1>2, <1>5, <1>10, <2>1
<1>14. CASE ~D[1].first
  <2>1. N = M
    BY <1>14
  <2>2. \A k \in 1 .. m : \E i \in 1 .. n - 1 : T[i].first /\ T[i].id = M[k].id
    <3> TAKE k \in 1 .. m
    <3>1. PICK i \in 1 .. n : D[i].first /\ D[i].id = M[k].id
      BY <1>8
    <3>2. i - 1 \in 1 .. n - 1 /\ (i - 1) + 1 = i
      BY <1>11, <1>14, <3>1
    <3>3. T[i - 1] = D[i]
      BY <1>2, <3>2
    <3> QED BY <3>1, <3>2, <3>3
  <2>3. \A i \in 1 .. n - 1 : T[i].first => \E k \in 1 .. m : M[k].id = T[i].id
    BY <1>2, <1>7, <1>10
  <2>4. Paired(T, M, id)
    BY <1>2, <1>4, <1>6, <1>12, <1>13, <2>2, <2>3 DEF Paired, m
  <2>5. NotBehind(T, M, x - 1, y)
    <3> SUFFICES ASSUME NEW i \in 1 .. n - 1, NEW k \in 1 .. m,
                        T[i].first, M[k].id = T[i].id, i <= x - 1
                 PROVE  k <= y
      BY <1>2 DEF NotBehind, m
    <3>1. i + 1 <= x
      BY <1>1
    <3> QED BY <1>2, <1>9, <1>10, <3>1
  <2> QED BY <1>14, <2>1, <2>4, <2>5 DEF T
<1>15. CASE D[1].first
  <2>1. M # << >> /\ M[1].id = D[1].id
    BY <1>15, HeadsPaired
  <2>2. N = Tail(M) /\ m >= 1 /\ Len(N) = m - 1 /\ \A k \in 1 .. m - 1 : N[k] = M[k + 1]
    BY <1>15, <2>1, TailFields DEF m
  <2>3. /\ \A k \in 1 .. m - 1 : k + 1 \in 1 .. m
        /\ \A k \in 1 .. m : k # 1 => k - 1 \in 1 .. m - 1 /\ (k - 1) + 1 = k
    BY <1>1
  <2>4. \A i \in 1 .. n - 1 : T[i].first => \E k \in 1 .. m - 1 : N[k].id = T[i].id
    <3> SUFFICES ASSUME NEW i \in 1 .. n - 1, T[i].first
                 PROVE  \E k \in 1 .. m - 1 : N[k].id = T[i].id
      OBVIOUS
    <3>1. T[i] = D[i + 1] /\ i + 1 \in 1 .. n /\ 1 < i + 1
      BY <1>1, <1>2, <1>10
    <3>2. PICK k \in 1 .. m : M[k].id = D[i + 1].id
      BY <1>7, <3>1
    <3>3. D[1].id < D[i + 1].id /\ D[1].id \in Nat /\ D[i + 1].id \in Nat
      BY <1>1, <1>3, <1>5, <3>1
    <3>4. k # 1
      BY <2>1, <3>2, <3>3
    <3>5. k - 1 \in 1 .. m - 1 /\ N[k - 1] = M[k]
      BY <2>2, <2>3, <3>4
    <3> QED BY <3>1, <3>2, <3>5
  <2>5. \A k \in 1 .. m - 1 : \E i \in 1 .. n - 1 : T[i].first /\ T[i].id = N[k].id
    <3> TAKE k \in 1 .. m - 1
    <3>1. N[k] = M[k + 1] /\ k + 1 \in 1 .. m /\ 1 \in 1 .. m /\ 1 < k + 1
      BY <1>1, <2>2, <2>3
    <3>2. PICK i \in 1 .. n : D[i].first /\ D[i].id = M[k + 1].id
      BY <1>8, <3>1
    <3>3. M[1].id < M[k + 1].id /\ M[1].id \in Nat /\ M[k + 1].id \in Nat
      BY <1>3, <1>6, <3>1
    <3>4. i # 1
      BY <2>1, <3>2, <3>3
    <3>5. i - 1 \in 1 .. n - 1 /\ T[i - 1] = D[i]
      BY <1>2, <1>11, <3>4
    <3> QED BY <3>1, <3>2, <3>5
  <2>6. /\ \A k \in 1 .. m - 1 : N[k].id <= id
        /\ \A k, l \in 1 .. m - 1 : k < l => N[k].id < N[l].id
    <3>1. \A k \in 1 .. m - 1 : N[k].id <= id
      BY <1>4, <2>2, <2>3
    <3>2. ASSUME NEW k \in 1 .. m - 1, NEW l \in 1 .. m - 1, k < l PROVE N[k].id < N[l].id
      <4>1. k + 1 < l + 1
        BY <1>1, <3>2
      <4> QED BY <1>6, <2>2, <2>3, <4>1
    <3> QED BY <3>1, <3>2
  <2>7. Paired(T, N, id)
    BY <1>2, <1>12, <1>13, <2>2, <2>4, <2>5, <2>6 DEF Paired
  <2>8. NotBehind(T, N, x - 1, y - 1)
    <3> SUFFICES ASSUME NEW i \in 1 .. n - 1, NEW k \in 1 .. m - 1,
                        T[i].first, N[k].id = T[i].id, i <= x - 1
                 PROVE  k <= y - 1
      BY <1>2, <2>2 DEF NotBehind
    <3>1. i + 1 <= x
      BY <1>1
    <3>2. k + 1 <= y
      BY <1>2, <1>9, <1>10, <2>2, <2>3, <3>1
    <3> QED BY <1>1, <3>2
  <2> QED BY <1>15, <2>7, <2>8 DEF T
<1> QED BY <1>14, <1>15
-----------------------------------------------------------------------------
(* Writing a beat, and with a first beat its metadata *)

LEMMA AppendFields ==
    ASSUME NEW S, NEW D \in Seq(S), NEW b \in S
    PROVE  /\ Append(D, b) \in Seq(S) /\ Len(Append(D, b)) = Len(D) + 1 /\ Len(D) \in Nat
           /\ Append(D, b)[Len(D) + 1] = b /\ Append(D, b) # << >>
           /\ \A i \in 1 .. Len(D) : Append(D, b)[i] = D[i]
  OBVIOUS

\* A first beat follows a last one, and another beat goes on with its packet.
LEMMA WriteFramed ==
    ASSUME NEW D \in Seq(Beat), NEW ms \in {"WAIT_HEADER", "WAIT_EOP"}, NEW id,
           NEW storing \in BOOLEAN, Framed(D, ms, storing, id), NEW b \in Beat,
           b.first <=> ~storing, ~b.first => b.id = id
    PROVE  Framed(Append(D, b), ms, ~b.last, b.id)
<1> DEFINE n == Len(D)
           A == Append(D, b)
<1>1. n \in Nat /\ Len(A) = n + 1 /\ A[n + 1] = b /\ A # << >>
      /\ \A i \in 1 .. n : A[i] = D[i]
  BY AppendFields
<1>2. b.first \in BOOLEAN /\ b.last \in BOOLEAN
  BY DEF Beat
<1>3. D = << >> <=> n = 0
  BY BeatFields
<1>4. \A i \in 1 .. n - 1 :
         IF D[i].last THEN D[i+1].first ELSE ~D[i+1].first /\ D[i+1].id = D[i].id
  BY DEF Framed
<1>5. n # 0 => (D[1].first <=> ms = "WAIT_HEADER") /\ (~D[n].last <=> storing)
               /\ (storing => D[n].id = id)
  BY <1>3 DEF Framed
<1>6. n = 0 => (ms = "WAIT_EOP" <=> storing)
  BY <1>3 DEF Framed
<1> HIDE DEF n, A
<1>7. ASSUME NEW i \in 1 .. n
      PROVE  IF A[i].last THEN A[i+1].first ELSE ~A[i+1].first /\ A[i+1].id = A[i].id
  <2>1. A[i] = D[i] /\ n # 0
    BY <1>1
  <2>2. CASE i = n
    BY <1>1, <1>2, <1>5, <2>1, <2>2
  <2>3. CASE i # n
    <3>1. i \in 1 .. n - 1 /\ i + 1 \in 1 .. n
      BY <1>1, <2>3
    <3> QED BY <1>1, <1>4, <2>1, <3>1
  <2> QED BY <2>2, <2>3
<1>8. A[1].first <=> ms = "WAIT_HEADER"
  <2>1. CASE n = 0
    BY <1>1, <1>2, <1>6, <2>1
  <2>2. CASE n # 0
    <3>1. 1 \in 1 .. n
      BY <1>1, <2>2
    <3> QED BY <1>1, <1>5, <2>2, <3>1
  <2> QED BY <2>1, <2>2
<1>9. A[Len(A)] = b /\ Len(A) - 1 = n
  BY <1>1
<1>10. Framed(A, ms, ~b.last, b.id)
  BY <1>1, <1>7, <1>8, <1>9 DEF Framed
<1> QED BY <1>10 DEF A

\* The metadata of a new packet go behind the others, as its first beat does.
LEMMA WritePaired ==
    ASSUME NEW D \in Seq(Beat), NEW M \in Seq(Meta), NEW id \in Nat, Paired(D, M, id),
           NEW b \in Beat, NEW c \in Meta, c.id = b.id,
           b.first => b.id > id, ~b.first => b.id = id,
           NEW N, N = IF b.first THEN Append(M, c) ELSE M,
           NEW x \in Int, NEW y \in Int, NotBehind(D, M, x, y), x <= Len(D)
    PROVE  Paired(Append(D, b), N, b.id) /\ NotBehind(Append(D, b), N, x, y)
<1> DEFINE A == Append(D, b)
           n == Len(D)
           m == Len(M)
<1>1. n \in Nat /\ m \in Nat /\ b.id \in Nat /\ b.first \in BOOLEAN /\ id <= b.id
  <2>1. b.id \in Nat /\ b.first \in BOOLEAN
    BY DEF Beat
  <2> QED BY <2>1, BeatFields, MetaFields
<1>2. Len(A) = n + 1 /\ A[n + 1] = b /\ \A i \in 1 .. n : A[i] = D[i]
  BY AppendFields
<1>3. (\A i \in 1 .. n : D[i].id \in Nat) /\ (\A k \in 1 .. m : M[k].id \in Nat)
  BY BeatFields, MetaFields
<1>4. (\A i \in 1 .. n : D[i].id <= id) /\ (\A k \in 1 .. m : M[k].id <= id)
  BY DEF Paired
<1>5. \A i, j \in 1 .. n : i < j /\ D[j].first => D[i].id < D[j].id
  BY DEF Paired
<1>6. \A k, l \in 1 .. m : k < l => M[k].id < M[l].id
  BY DEF Paired
<1>7. \A i \in 1 .. n : D[i].first => \E k \in 1 .. m : M[k].id = D[i].id
  BY DEF Paired
<1>8. \A k \in 1 .. m : \E i \in 1 .. n : D[i].first /\ D[i].id = M[k].id
  BY DEF Paired
<1>9. \A i \in 1 .. n, k \in 1 .. m : D[i].first /\ M[k].id = D[i].id /\ i <= x => k <= y
  BY DEF NotBehind
<1>10. \A i \in 1 .. n + 1 : i = n + 1 \/ i \in 1 .. n
  BY <1>1
<1>11. \A i \in 1 .. n : i \in 1 .. n + 1 /\ i < n + 1
  BY <1>1
<1>12. x < n + 1
  BY <1>1
<1>13. (\A i \in 1 .. n : D[i].id <= b.id) /\ (\A k \in 1 .. m : M[k].id <= b.id)
  <2>1. \A v \in Nat : v <= id => v <= b.id
    BY <1>1
  <2> QED BY <1>3, <1>4, <2>1, Zenon
<1> HIDE DEF A, n, m
<1>14. \A i \in 1 .. n + 1 : A[i].id <= b.id
  <2>1. b.id <= b.id
    BY <1>1
  <2>2. A[n + 1].id <= b.id /\ \A i \in 1 .. n : A[i].id <= b.id
    BY <1>2, <1>13, <2>1, Zenon
  <2> QED BY <1>10, <2>2, Zenon
<1>15. CASE ~b.first
  <2>1. N = M
    BY <1>15
  <2>2. \A i, j \in 1 .. n + 1 : i < j /\ A[j].first => A[i].id < A[j].id
    <3> SUFFICES ASSUME NEW i \in 1 .. n + 1, NEW j \in 1 .. n + 1, i < j, A[j].first
                 PROVE  A[i].id < A[j].id
      OBVIOUS
    <3>1. j # n + 1
      BY <1>2, <1>15
    <3>2. i \in 1 .. n /\ j \in 1 .. n
      BY <1>1, <1>10, <3>1
    <3> QED BY <1>2, <1>5, <3>2
  <2>3. \A i \in 1 .. n + 1 : A[i].first => \E k \in 1 .. m : M[k].id = A[i].id
    BY <1>2, <1>7, <1>10, <1>15
  <2>4. \A k \in 1 .. m : \E i \in 1 .. n + 1 : A[i].first /\ A[i].id = M[k].id
    BY <1>2, <1>8, <1>11
  <2>5. Paired(A, M, b.id)
    BY <1>2, <1>6, <1>13, <1>14, <2>2, <2>3, <2>4 DEF Paired, m
  <2>6. NotBehind(A, M, x, y)
    BY <1>2, <1>9, <1>10, <1>15 DEF NotBehind, m
  <2> QED BY <2>1, <2>5, <2>6 DEF A
<1>16. CASE b.first
  <2>1. N = Append(M, c) /\ Len(N) = m + 1 /\ N[m + 1] = c /\ \A k \in 1 .. m : N[k] = M[k]
    BY <1>16, AppendFields DEF m
  <2>2. /\ \A k \in 1 .. m + 1 : k = m + 1 \/ k \in 1 .. m
        /\ \A k \in 1 .. m : k \in 1 .. m + 1
        /\ m + 1 \in 1 .. m + 1 /\ n + 1 \in 1 .. n + 1
    BY <1>1
  <2>3. (\A i \in 1 .. n : D[i].id < b.id) /\ (\A k \in 1 .. m : M[k].id < b.id)
    <3>1. \A v \in Nat : v <= id => v < b.id
      BY <1>1, <1>16
    <3> QED BY <1>3, <1>4, <3>1, Zenon
  <2>4. \A i, j \in 1 .. n + 1 : i < j /\ A[j].first => A[i].id < A[j].id
    <3> SUFFICES ASSUME NEW i \in 1 .. n + 1, NEW j \in 1 .. n + 1, i < j, A[j].first
                 PROVE  A[i].id < A[j].id
      OBVIOUS
    <3>1. i \in 1 .. n
      BY <1>1
    <3> QED BY <1>2, <1>5, <1>10, <2>3, <3>1
  <2>5. \A k, l \in 1 .. m + 1 : k < l => N[k].id < N[l].id
    <3> SUFFICES ASSUME NEW k \in 1 .. m + 1, NEW l \in 1 .. m + 1, k < l
                 PROVE  N[k].id < N[l].id
      OBVIOUS
    <3>1. k \in 1 .. m
      BY <1>1
    <3> QED BY <1>6, <2>1, <2>2, <2>3, <3>1
  <2>6. \A i \in 1 .. n + 1 : A[i].first => \E k \in 1 .. m + 1 : N[k].id = A[i].id
    <3> SUFFICES ASSUME NEW i \in 1 .. n + 1, A[i].first
                 PROVE  \E k \in 1 .. m + 1 : N[k].id = A[i].id
      OBVIOUS
    <3>1. CASE i = n + 1
      BY <1>2, <2>1, <2>2, <3>1
    <3>2. CASE i \in 1 .. n
      <4>1. PICK k \in 1 .. m : M[k].id = D[i].id
        BY <1>2, <1>7, <3>2
      <4> QED BY <1>2, <2>1, <2>2, <3>2, <4>1
    <3> QED BY <1>10, <3>1, <3>2
  <2>7. \A k \in 1 .. m + 1 : \E i \in 1 .. n + 1 : A[i].first /\ A[i].id = N[k].id
    <3> TAKE k \in 1 .. m + 1
    <3>1. CASE k = m + 1
      BY <1>2, <1>16, <2>1, <2>2, <3>1
    <3>2. CASE k \in 1 .. m
      <4>1. PICK i \in 1 .. n : D[i].first /\ D[i].id = M[k].id
        BY <1>8, <3>2
      <4> QED BY <1>2, <1>11, <2>1, <3>2, <4>1
    <3> QED BY <2>2, <3>1, <3>2
  <2>8. \A k \in 1 .. m + 1 : N[k].id <= b.id
    BY <1>1, <1>13, <2>1, <2>2
  <2>9. Paired(A, N, b.id)
    BY <1>2, <1>14, <2>1, <2>4, <2>5, <2>6, <2>7, <2>8 DEF Paired
  <2>10. NotBehind(A, N, x, y)
    <3> SUFFICES ASSUME NEW i \in 1 .. n + 1, NEW k \in 1 .. m + 1,
                        A[i].first, N[k].id = A[i].id, i <= x
                 PROVE  k <= y
      BY <1>2, <2>1 DEF NotBehind
    <3>1. i \in 1 .. n
      BY <1>1, <1>12
    <3>2. A[i] = D[i] /\ D[i].id < b.id /\ D[i].id \in Nat
      BY <1>2, <1>3, <2>3, <3>1
    <3>3. k # m + 1
      BY <1>1, <2>1, <3>2
    <3> QED BY <1>9, <2>1, <2>2, <3>1, <3>2, <3>3
  <2> QED BY <2>9, <2>10 DEF A
<1> QED BY <1>15, <1>16

\* A queue that takes no beat while the source goes on.
LEMMA OtherPaired ==
    ASSUME NEW D \in Seq(Beat), NEW M \in Seq(Meta), NEW id \in Nat, NEW id1 \in Nat,
           Paired(D, M, id), id <= id1
    PROVE  Paired(D, M, id1)
<1>1. (\A i \in 1 .. Len(D) : D[i].id \in Nat) /\ (\A k \in 1 .. Len(M) : M[k].id \in Nat)
  BY BeatFields, MetaFields
<1>2. (\A i \in 1 .. Len(D) : D[i].id <= id1) /\ (\A k \in 1 .. Len(M) : M[k].id <= id1)
  BY <1>1 DEF Paired
<1> QED BY <1>2, SMTT(60) DEF Paired
-----------------------------------------------------------------------------
(* A word moves from the memory of each FIFO to its registers *)

LEMMA LoadNotBehind ==
    ASSUME NEW D \in Seq(Beat), NEW M \in Seq(Meta), NEW id, Paired(D, M, id),
           NEW x \in 0 .. 3, NEW y \in 0 .. 3, NotBehind(D, M, x, y),
           NEW dl \in 0 .. 1, NEW ml \in 0 .. 1,
           dl = 1 => x < 3, y < Len(M) /\ y < 3 => ml = 1
    PROVE  NotBehind(D, M, x + dl, y + ml)
<1> DEFINE n == Len(D)
           m == Len(M)
<1>1. n \in Nat /\ m \in Nat
  BY BeatFields, MetaFields
<1>2. (\A i \in 1 .. n : D[i].id \in Nat) /\ (\A k \in 1 .. m : M[k].id \in Nat)
  BY BeatFields, MetaFields
<1>3. \A k, l \in 1 .. m : k < l => M[k].id < M[l].id
  BY DEF Paired
<1>4. \A k \in 1 .. m : \E i \in 1 .. n : D[i].first /\ D[i].id = M[k].id
  BY DEF Paired
<1>5. \A i \in 1 .. n, k \in 1 .. m : D[i].first /\ M[k].id = D[i].id /\ i <= x => k <= y
  BY DEF NotBehind
<1>6. ASSUME NEW k \in 1 .. m, NEW l \in 1 .. m, k < l, NEW i \in 1 .. n, NEW j \in 1 .. n,
             D[i].first, D[i].id = M[l].id, D[j].first, D[j].id = M[k].id
      PROVE  j < i
  <2>1. M[k].id < M[l].id /\ M[k].id \in Nat /\ M[l].id \in Nat
    BY <1>2, <1>3, <1>6
  <2>2. i < j => D[i].id < D[j].id
    BY <1>6 DEF Paired
  <2>3. i # j /\ ~(i < j)
    BY <1>6, <2>1, <2>2
  <2> QED BY <1>1, <2>3
<1> HIDE DEF n, m
<1> SUFFICES ASSUME NEW i \in 1 .. n, NEW k \in 1 .. m, D[i].first, M[k].id = D[i].id,
                    i <= x + dl
             PROVE  k <= y + ml
  BY DEF NotBehind, n, m
<1>7. CASE i <= x
  <2>1. k <= y
    BY <1>5, <1>7
  <2> QED BY <1>1, <2>1
<1>8. CASE i > x
  <2>1. dl = 1 /\ i = x + 1 /\ x < 3
    BY <1>1, <1>8
  <2>2. k <= y + 1
    <3> SUFFICES ASSUME k > y + 1 PROVE FALSE
      BY <1>1
    <3>1. y + 1 \in 1 .. m /\ y + 1 < k
      BY <1>1
    <3>2. PICK j \in 1 .. n : D[j].first /\ D[j].id = M[y + 1].id
      BY <1>4, <3>1
    <3>3. j < i
      BY <1>6, <3>1, <3>2
    <3>4. j <= x
      BY <1>1, <2>1, <3>3
    <3>5. y + 1 <= y
      BY <1>5, <3>1, <3>2, <3>4
    <3> QED BY <3>5
  <2>3. CASE k <= y
    BY <1>1, <2>3
  <2>4. CASE k = y + 1 /\ y < 3
    <3>1. y < m
      BY <1>1, <2>4
    <3>2. ml = 1
      BY <2>4, <3>1 DEF m
    <3> QED BY <2>4, <3>2
  <2>5. CASE k = y + 1 /\ y = 3
    <3>1. 1 \in 1 .. m /\ 2 \in 1 .. m /\ 3 \in 1 .. m /\ 1 < 2 /\ 2 < 3 /\ 3 < k
      BY <1>1, <2>5
    <3>2. PICK a \in 1 .. n : D[a].first /\ D[a].id = M[1].id
      BY <1>4, <3>1
    <3>3. PICK b \in 1 .. n : D[b].first /\ D[b].id = M[2].id
      BY <1>4, <3>1
    <3>4. PICK c \in 1 .. n : D[c].first /\ D[c].id = M[3].id
      BY <1>4, <3>1
    <3>5. a < b /\ b < c /\ c < i
      BY <1>6, <3>1, <3>2, <3>3, <3>4
    <3> QED BY <1>1, <2>1, <3>5
  <2> QED BY <1>1, <2>2, <2>3, <2>4, <2>5
<1> QED BY <1>1, <1>7, <1>8
-----------------------------------------------------------------------------
(* A clock edge of one queue *)

\* How the stage drives one queue in a clock edge: r and mr read the FIFOs, w and mw
\* write beat b and metadata c, and the packet under way becomes id1 with left1 beats.
Driven(d, m, ms, storing, id, left, r, mr, ms1, w, b, mw, c, st1, id1, left1) ==
    /\ r \in BOOLEAN /\ (r => d.dv) /\ mr \in BOOLEAN /\ (mr <=> r /\ ms = "WAIT_HEADER")
    /\ ms1 = IF ~r THEN ms ELSE IF d.dout.last THEN "WAIT_HEADER" ELSE "WAIT_EOP"
    /\ w \in BOOLEAN /\ b \in Beat /\ mw \in BOOLEAN /\ c \in Meta
    /\ c.id = b.id /\ (mw <=> w /\ b.first) /\ (w => (b.first <=> ~storing))
    /\ w /\ b.first => b.id > id
    /\ w /\ ~b.first => b.id = id
    /\ st1 \in BOOLEAN /\ (st1 <=> IF w THEN ~b.last ELSE storing)
    /\ id1 \in Nat /\ id <= id1 /\ (w => id1 = b.id) /\ (~w /\ storing => id1 = id)
    /\ left1 \in Nat /\ (~w /\ storing => left1 <= left)
    /\ w => FifoDepth(d) + 1 <= BUFFER_DEPTH
    /\ w /\ st1 => FifoDepth(d) + 1 + left1 <= BUFFER_DEPTH
    /\ mw => FifoDepth(m) + 1 <= META_DEPTH

LEMMA QueueStep ==
    ASSUME BUFFER_DEPTH \in Nat, META_DEPTH \in Nat,
           NEW d, NEW m, NEW ms, NEW storing \in BOOLEAN, NEW id \in Nat, NEW left \in Nat,
           QueueOK(d, m, ms, storing, id, left),
           NEW r, NEW mr, NEW ms1, NEW w, NEW b, NEW mw, NEW c, NEW st1, NEW id1, NEW left1,
           Driven(d, m, ms, storing, id, left, r, mr, ms1, w, b, mw, c, st1, id1, left1)
    PROVE  QueueOK(Step(d, w, b, r), Step(m, mw, c, mr), ms1, st1, id1, left1)
<1>d1. r \in BOOLEAN /\ (r => d.dv) /\ mr \in BOOLEAN /\ (mr <=> r /\ ms = "WAIT_HEADER")
  BY DEF Driven
<1>d2. ms1 = IF ~r THEN ms ELSE IF d.dout.last THEN "WAIT_HEADER" ELSE "WAIT_EOP"
  BY DEF Driven
<1>d3. /\ w \in BOOLEAN /\ b \in Beat /\ mw \in BOOLEAN /\ c \in Meta
       /\ c.id = b.id /\ (mw <=> w /\ b.first) /\ (w => (b.first <=> ~storing))
       /\ w /\ b.first => b.id > id
       /\ w /\ ~b.first => b.id = id
  BY DEF Driven
<1>d4. /\ st1 \in BOOLEAN /\ (st1 <=> IF w THEN ~b.last ELSE storing)
       /\ id1 \in Nat /\ id <= id1 /\ (w => id1 = b.id) /\ (~w /\ storing => id1 = id)
       /\ left1 \in Nat /\ (~w /\ storing => left1 <= left)
  BY DEF Driven
<1>d5. /\ w => FifoDepth(d) + 1 <= BUFFER_DEPTH
       /\ w /\ st1 => FifoDepth(d) + 1 + left1 <= BUFFER_DEPTH
       /\ mw => FifoDepth(m) + 1 <= META_DEPTH
  BY DEF Driven
<1> USE <1>d1, <1>d2, <1>d3, <1>d4, <1>d5
<1> DEFINE D == d.items
           M == m.items
           D1 == IF r THEN Tail(D) ELSE D
           M1 == IF mr THEN Tail(M) ELSE M
           g == Step(d, w, b, r)
           h == Step(m, mw, c, mr)
           x == OutOf(d)
           y == OutOf(m)
           dl == Count(fifo_rd_en(d))
           ml == Count(fifo_rd_en(m))
<1>1. /\ Sound(d, Beat) /\ Sound(m, Meta) /\ ms \in {"WAIT_HEADER", "WAIT_EOP"}
      /\ Shown(d) /\ Shown(m) /\ FifoDepth(d) <= BUFFER_DEPTH /\ FifoDepth(m) <= META_DEPTH
      /\ storing => FifoDepth(d) + left <= BUFFER_DEPTH
      /\ Framed(D, ms, storing, id) /\ Paired(D, M, id) /\ NotBehind(D, M, x, y)
      /\ d.dv /\ D[1].first => m.dv
  BY DEF QueueOK
<1>2. D \in Seq(Beat) /\ M \in Seq(Meta)
  BY <1>1 DEF Sound, FifoOf
<1>3. d.dv => D # << >> /\ d.dout = D[1] /\ (D[1].first <=> ms = "WAIT_HEADER")
  BY <1>1 DEF Shown, Framed
<1>4. mr <=> r /\ D[1].first
  BY <1>3
<1>5. mr => m.dv
  BY <1>1, <1>4
\* What the FIFOs do.
<1>6. /\ Sound(g, Beat) /\ FifoDepth(g) = FifoDepth(d) + Count(w) - dl
      /\ Sound(h, Meta) /\ FifoDepth(h) = FifoDepth(m) + Count(mw) - ml
  BY <1>1, StepSound
<1>7. /\ r => D # << >>
      /\ D1 \in Seq(Beat) /\ Len(D1) = Len(D) - Count(r)
      /\ g.items = IF w THEN Append(D1, b) ELSE D1
      /\ OutOf(g) = x + dl - Count(r)
      /\ g.dv <=> x - Count(r) >= 1
      /\ Shown(g)
  <2>1. D1 \in Seq(Beat) /\ Moved(d, w, b, r, g, D1)
    BY <1>1, StepMoves
  <2> HIDE DEF g, D1
  <2> QED BY <1>3, <2>1 DEF Moved
<1>8. /\ M1 \in Seq(Meta)
      /\ h.items = IF mw THEN Append(M1, c) ELSE M1
      /\ OutOf(h) = y + ml - Count(mr)
      /\ h.dv <=> y - Count(mr) >= 1
      /\ Shown(h)
  <2>1. M1 \in Seq(Meta) /\ Moved(m, mw, c, mr, h, M1)
    BY <1>1, <1>5, StepMoves
  <2> HIDE DEF h, M1
  <2> QED BY <2>1 DEF Moved
<1>9. /\ x \in 0 .. 3 /\ y \in 0 .. 3 /\ x <= Len(D) /\ Len(D) \in Nat /\ Len(M) \in Nat
      /\ FifoDepth(d) \in Nat /\ FifoDepth(m) \in Nat
      /\ FifoDepth(d) = Len(D) - x /\ FifoDepth(m) = Len(M) - y
      /\ x = Count(d.fv) + Count(d.mv) + Count(d.dv)
      /\ y = Count(m.fv) + Count(m.mv) + Count(m.dv)
  BY <1>1, OutOfFlags
<1>10. /\ dl \in 0 .. 1 /\ ml \in 0 .. 1 /\ Count(r) \in 0 .. 1 /\ Count(mr) \in 0 .. 1
       /\ Count(w) \in 0 .. 1 /\ Count(mw) \in 0 .. 1
       /\ (r => Count(r) = 1) /\ (~r => Count(r) = 0)
       /\ (mr => Count(mr) = 1) /\ (~mr => Count(mr) = 0)
  BY DEF Count
<1>11. dl = 1 => x < 3 /\ x + 1 <= Len(D)
  <2>1. dl = 1 => x < 3 /\ x < Len(D)
    BY <1>1, LoadCondition DEF Count
  <2> QED BY <1>9, <2>1
<1>12. y < Len(M) /\ y < 3 => ml = 1
  BY <1>1, LoadCondition DEF Count
<1> HIDE DEF D, M, D1, M1, g, h, x, y, dl, ml
\* The contents: a read, then a write.
<1>13. Framed(D1, ms1, storing, id) /\ ms1 \in {"WAIT_HEADER", "WAIT_EOP"}
  <2>1. CASE ~r
    BY <1>1, <2>1 DEF D1
  <2>2. CASE r
    <3>1. D1 = Tail(D) /\ D # << >> /\ ms1 = IF D[1].last THEN "WAIT_HEADER" ELSE "WAIT_EOP"
      BY <1>3, <2>2 DEF D1
    <3> QED BY <1>1, <1>2, <3>1, ReadFramed
  <2> QED BY <2>1, <2>2
<1>14. /\ Paired(D1, M1, id)
       /\ \A u, v \in Int : NotBehind(D, M, u, v)
              => NotBehind(D1, M1, u - Count(r), v - Count(mr))
  <2>1. CASE ~r
    <3>1. D1 = D /\ M1 = M /\ Count(r) = 0 /\ Count(mr) = 0
      BY <1>10, <2>1 DEF D1, M1
    <3>2. \A u \in Int : u - 0 = u
      OBVIOUS
    <3> QED BY <1>1, <3>1, <3>2
  <2>2. CASE r
    <3>1. D1 = Tail(D) /\ D # << >> /\ M1 = IF D[1].first THEN Tail(M) ELSE M
      BY <1>3, <1>4, <2>2 DEF D1, M1
    <3>2. Count(r) = 1 /\ Count(mr) = IF D[1].first THEN 1 ELSE 0
      BY <1>4, <1>10, <2>2
    <3>3. ASSUME NEW u \in Int, NEW v \in Int, NotBehind(D, M, u, v)
          PROVE  Paired(D1, M1, id) /\ NotBehind(D1, M1, u - Count(r), v - Count(mr))
      <4>1. Paired(D1, M1, id) /\ NotBehind(D1, M1, u - 1, IF D[1].first THEN v - 1 ELSE v)
        BY <1>1, <1>2, <3>1, <3>3, ReadPaired
      <4>2. v - Count(mr) = IF D[1].first THEN v - 1 ELSE v
        BY <3>2
      <4> QED BY <3>2, <4>1, <4>2
    <3>4. x \in Int /\ y \in Int
      BY <1>9
    <3> QED BY <1>1, <3>3, <3>4
  <2> QED BY <2>1, <2>2
<1>15. /\ NotBehind(D1, M1, x - Count(r), y - Count(mr))
       /\ NotBehind(D1, M1, (x + dl) - Count(r), (y + ml) - Count(mr))
  <2>1. NotBehind(D, M, x + dl, y + ml)
    <3>1. x \in 0 .. 3 /\ y \in 0 .. 3 /\ dl \in 0 .. 1 /\ ml \in 0 .. 1
      BY <1>9, <1>10
    <3>2. Paired(D, M, id) /\ NotBehind(D, M, x, y) /\ (dl = 1 => x < 3)
      BY <1>1, <1>11
    <3> QED BY <1>2, <1>12, <3>1, <3>2, LoadNotBehind
  <2>2. x \in Int /\ y \in Int /\ dl \in Int /\ ml \in Int
    BY <1>9, <1>10
  <2>3. x + dl \in Int /\ y + ml \in Int
    BY <2>2
  <2> QED BY <1>1, <1>14, <2>1, <2>2, <2>3
<1>16. OutOf(g) = (x + dl) - Count(r) /\ OutOf(h) = (y + ml) - Count(mr)
  <2>1. OutOf(g) = x + dl - Count(r) /\ OutOf(h) = y + ml - Count(mr)
    BY <1>7, <1>8
  <2>2. x \in Int /\ y \in Int
    BY <1>9
  <2>3. dl \in Int /\ ml \in Int /\ Count(r) \in Int /\ Count(mr) \in Int
    BY <1>10
  <2> HIDE DEF g, h, x, y, dl, ml
  <2> QED BY <2>1, <2>2, <2>3
<1>17. OutOf(g) \in Int /\ OutOf(h) \in Int /\ OutOf(g) <= Len(D1) /\ Len(D1) \in Nat
  <2>1. Len(D1) \in Nat
    BY <1>7
  <2>2. x \in Int /\ y \in Int /\ dl \in 0 .. 1 /\ ml \in Int /\ Len(D) \in Int
        /\ Count(r) \in Int /\ Count(mr) \in Int
    <3>1. x \in Int /\ y \in Int /\ Len(D) \in Int
      BY <1>9
    <3> QED BY <1>10, <3>1
  <2>3. x + dl <= Len(D)
    <3>1. x <= Len(D)
      BY <1>9
    <3>2. dl = 1 => x + 1 <= Len(D)
      BY <1>11
    <3> HIDE DEF x, dl, D
    <3> QED BY <2>2, <3>1, <3>2
  <2>4. Len(D1) = Len(D) - Count(r)
    BY <1>7
  <2> QED BY <1>16, <2>1, <2>2, <2>3, <2>4
<1>18. /\ Framed(g.items, ms1, st1, id1) /\ Paired(g.items, h.items, id1)
       /\ NotBehind(g.items, h.items, OutOf(g), OutOf(h))
  <2>1. CASE w
    <3>1. g.items = Append(D1, b) /\ h.items = (IF b.first THEN Append(M1, c) ELSE M1)
          /\ id1 = b.id
      BY <1>7, <1>8, <2>1
    <3>2. b.first \in BOOLEAN /\ b.last \in BOOLEAN /\ (st1 <=> ~b.last)
      BY <2>1 DEF Beat
    <3>3. Framed(Append(D1, b), ms1, ~b.last, b.id)
      BY <1>7, <1>13, <2>1, WriteFramed
    <3>4. Framed(g.items, ms1, st1, id1)
      BY <3>1, <3>2, <3>3 DEF Framed
    <3>5. NotBehind(D1, M1, OutOf(g), OutOf(h))
      BY <1>15, <1>16
    <3>6. Paired(g.items, h.items, id1) /\ NotBehind(g.items, h.items, OutOf(g), OutOf(h))
      <4> DEFINE N == h.items  u == OutOf(g)  v == OutOf(h)
      <4>1. N = IF b.first THEN Append(M1, c) ELSE M1
        BY <3>1
      <4>2. (b.first => b.id > id) /\ (~b.first => b.id = id)
        BY <2>1
      <4>3. u \in Int /\ v \in Int /\ u <= Len(D1) /\ NotBehind(D1, M1, u, v)
        BY <1>17, <3>5
      <4> HIDE DEF N, u, v
      <4>4. D1 \in Seq(Beat) /\ M1 \in Seq(Meta) /\ Paired(D1, M1, id)
        BY <1>7, <1>8, <1>14
      <4>5. Paired(Append(D1, b), N, b.id) /\ NotBehind(Append(D1, b), N, u, v)
        BY <4>1, <4>2, <4>3, <4>4, WritePaired
      <4> QED BY <3>1, <4>5 DEF N, u, v
    <3> QED BY <3>4, <3>6
  <2>2. CASE ~w
    <3>1. g.items = D1 /\ h.items = M1 /\ (st1 <=> storing) /\ (storing => id1 = id)
      BY <1>7, <1>8, <2>2
    <3>2. Framed(D1, ms1, st1, id1)
      BY <1>13, <3>1 DEF Framed
    <3>3. Paired(D1, M1, id1)
      BY <1>7, <1>8, <1>14, OtherPaired
    <3> QED BY <1>15, <1>16, <3>1, <3>2, <3>3
  <2> QED BY <2>1, <2>2
\* A first beat that comes to the output finds its metadata there.
<1>19. g.dv /\ g.items[1].first => h.dv
  <2> SUFFICES ASSUME g.dv, g.items[1].first PROVE h.dv
    OBVIOUS
  <2>1. x - Count(r) >= 1 /\ Len(D1) >= 1
    <3>1. x - Count(r) >= 1 /\ Len(D1) = Len(D) - Count(r)
      BY <1>7, Zenon
    <3>2. x \in Int /\ x <= Len(D) /\ Len(D) \in Int /\ Count(r) \in Int
      BY <1>9, <1>10
    <3>3. \A u, v, k \in Int : u <= v /\ u - k >= 1 => v - k >= 1
      OBVIOUS
    <3> QED BY <3>1, <3>2, <3>3
  <2>2. g.items[1] = D1[1] /\ D1 # << >>
    <3>1. D1 # << >> /\ Append(D1, b)[1] = D1[1]
      BY <1>7, <2>1, AppendFields
    <3> QED BY <1>7, <3>1
  <2>3. M1 # << >> /\ M1[1].id = D1[1].id
    BY <1>7, <1>8, <1>14, <2>2, HeadsPaired
  <2>4. 1 \in 1 .. Len(D1) /\ 1 \in 1 .. Len(M1)
    BY <1>7, <1>8, <2>1, <2>3, MetaFields
  <2>5. 1 <= y - Count(mr)
    BY <1>15, <2>1, <2>2, <2>3, <2>4 DEF NotBehind
  <2> QED BY <1>8, <1>9, <1>10, <2>5
\* The room.
<1>20. /\ FifoDepth(g) <= BUFFER_DEPTH /\ FifoDepth(h) <= META_DEPTH
       /\ st1 => FifoDepth(g) + left1 <= BUFFER_DEPTH
  <2> DEFINE fd == FifoDepth(d)  fm == FifoDepth(m)  gd == FifoDepth(g)  hm == FifoDepth(h)
             kw == Count(w)  kmw == Count(mw)
  <2>1. /\ fd \in Nat /\ fm \in Nat /\ gd = fd + kw - dl /\ hm = fm + kmw - ml
        /\ kw \in 0 .. 1 /\ kmw \in 0 .. 1 /\ dl \in 0 .. 1 /\ ml \in 0 .. 1
        /\ (w => kw = 1) /\ (~w => kw = 0) /\ (mw => kmw = 1) /\ (~mw => kmw = 0)
    BY <1>6, <1>9, <1>10 DEF Count
  <2>2. /\ fd <= BUFFER_DEPTH /\ fm <= META_DEPTH /\ (storing => fd + left <= BUFFER_DEPTH)
        /\ (w => fd + 1 <= BUFFER_DEPTH) /\ (w /\ st1 => fd + 1 + left1 <= BUFFER_DEPTH)
        /\ (mw => fm + 1 <= META_DEPTH)
    BY <1>1
  <2> HIDE DEF fd, fm, gd, hm, kw, kmw
  <2>3. gd <= BUFFER_DEPTH /\ hm <= META_DEPTH
    BY <2>1, <2>2
  <2>4. CASE w /\ st1
    BY <2>1, <2>2, <2>3, <2>4 DEF gd, hm
  <2>5. CASE ~w /\ st1
    <3>1. storing /\ left1 <= left /\ gd <= fd
      BY <2>1, <2>5
    <3> QED BY <2>1, <2>2, <2>3, <3>1 DEF gd, hm
  <2> QED BY <2>3, <2>4, <2>5 DEF gd, hm
<1>21. QueueOK(g, h, ms1, st1, id1, left1)
  BY <1>6, <1>7, <1>8, <1>13, <1>18, <1>19, <1>20 DEF QueueOK
<1> QED BY <1>21 DEF g, h
-----------------------------------------------------------------------------
(* The stage: one decision for all the queues of a packet *)

LEMMA InitInv ==
    ASSUME BufferAssumption, Init
    PROVE  Inv
<1>1. NoBeat \in Beat /\ NoMeta \in Meta
  BY DEF NoBeat, NoMeta, Beat, Meta
<1>2. Shape
  BY DEF Init, Shape, BufferAssumption
<1>3. ASSUME NEW q \in Queue
      PROVE  QueueOK(data[q], meta[q], metadata_state[q], Storing(q), src.id, src.left)
  <2> DEFINE d == EmptyFifo(NoBeat)
             m == EmptyFifo(NoMeta)
  <2>1. data[q] = d /\ meta[q] = m /\ metadata_state[q] = "WAIT_HEADER" /\ ~Storing(q)
    BY <1>3 DEF Init, Storing
  <2>2. Sound(d, Beat) /\ Sound(m, Meta)
    BY <1>1, EmptySound
  <2>3. /\ d.items = << >> /\ m.items = << >> /\ ~d.dv /\ ~d.mv /\ ~m.dv /\ ~m.mv
        /\ FifoDepth(d) = 0 /\ FifoDepth(m) = 0
    BY DEF EmptyFifo, FifoDepth, Count
  <2> HIDE DEF d, m
  <2>4. Shown(d) /\ Shown(m)
    BY <2>3 DEF Shown
  <2>5. Framed(<< >>, "WAIT_HEADER", Storing(q), src.id)
    BY <2>1 DEF Framed
  <2>6. Paired(<< >>, << >>, src.id) /\ NotBehind(<< >>, << >>, OutOf(d), OutOf(m))
    BY DEF Paired, NotBehind
  <2> QED BY <2>1, <2>2, <2>3, <2>4, <2>5, <2>6 DEF QueueOK, BufferAssumption
<1> QED BY <1>2, <1>3 DEF Inv

\* The packets that can be on the bus in a clock.
OnBus(tvalid, p) ==
    /\ p.id \in Nat /\ p.oq \subseteq Queue /\ p.len \in 0 .. MAX_PACKET_SIZE
    /\ IF tvalid /\ src.left = 0 THEN p.id = src.id + 1 /\ p.len >= 1 ELSE p.id = src.id

\* A packet under way has beats to come, and the state machine knows it.
LEMMA ClockShape ==
    ASSUME BufferAssumption, Shape, NEW tvalid \in BOOLEAN, NEW p, NEW ready, NEW clear,
           OnBus(tvalid, p), Clock(tvalid, p, ready, clear)
    PROVE  Shape'
<1>1. /\ src'.id = p.id /\ src'.oq = p.oq /\ src'.len = p.len
      /\ src'.left = IF tvalid /\ src.left = 0 THEN p.len - 1
                     ELSE IF tvalid THEN src.left - 1 ELSE src.left
  BY DEF Clock, SourceStep
<1>2. state' = IF tvalid /\ (IF src.left = 0 THEN p.len = 1 ELSE src.left = 1) THEN "IDLE"
               ELSE IF tvalid /\ state = "IDLE" THEN IF Room(p.oq) THEN "WR_PKT" ELSE "DROP"
               ELSE state
  BY DEF Clock, WriteStep
<1>3. /\ src.left \in Nat /\ src.left <= MAX_PACKET_SIZE /\ MAX_PACKET_SIZE \in Nat
      /\ p.len \in Nat /\ p.len <= MAX_PACKET_SIZE
      /\ tvalid /\ src.left = 0 => p.len >= 1
      /\ p.id \in Nat /\ p.oq \subseteq Queue
  BY DEF BufferAssumption, Shape, OnBus
<1>4. state \in {"IDLE", "WR_PKT", "DROP"} /\ (state = "IDLE" <=> src.left = 0)
  BY DEF Shape
<1>5. src'.left \in 0 .. MAX_PACKET_SIZE /\ (state' = "IDLE" <=> src'.left = 0)
      /\ state' \in {"IDLE", "WR_PKT", "DROP"}
  BY <1>1, <1>2, <1>3, <1>4
<1> QED BY <1>1, <1>3, <1>5 DEF Shape

\* What the write side does to one queue: it goes on with the packet that it is
\* storing, or begins one for which there is room to its last beat.
LEMMA WriteSide ==
    ASSUME BufferAssumption, Shape, NEW tvalid \in BOOLEAN, NEW p, NEW ready, NEW clear,
           OnBus(tvalid, p), Clock(tvalid, p, ready, clear), NEW q \in Queue,
           NEW first \in BOOLEAN, first <=> src.left = 0,
           NEW last \in BOOLEAN, last <=> IF first THEN p.len = 1 ELSE src.left = 1,
           NEW w \in BOOLEAN, w <=> q \in wr_en(tvalid, p.oq),
           FifoDepth(data[q]) \in Nat, FifoDepth(meta[q]) \in Nat,
           Storing(q) => FifoDepth(data[q]) + src.left <= BUFFER_DEPTH
    PROVE  /\ (q \in metadata_wr_en(tvalid, p.oq)) <=> w /\ first
           /\ w => (first <=> ~Storing(q))
           /\ Storing(q)' <=> IF w THEN ~last ELSE Storing(q)
           /\ w => tvalid /\ FifoDepth(data[q]) + 1 <= BUFFER_DEPTH
           /\ w /\ Storing(q)' => FifoDepth(data[q]) + 1 + src'.left <= BUFFER_DEPTH
           /\ w /\ first => FifoDepth(meta[q]) + 1 <= META_DEPTH
           /\ ~w /\ Storing(q) => src'.left = src.left /\ p.id = src.id
<1>1. src'.left = IF tvalid /\ src.left = 0 THEN p.len - 1
                  ELSE IF tvalid THEN src.left - 1 ELSE src.left
  BY DEF Clock, SourceStep
<1>2. /\ state' = IF tvalid /\ last THEN "IDLE"
                  ELSE IF tvalid /\ state = "IDLE" THEN IF Room(p.oq) THEN "WR_PKT" ELSE "DROP"
                  ELSE state
      /\ cur_queue' = IF state = "IDLE" THEN p.oq ELSE cur_queue
  BY DEF Clock, WriteStep
<1>3. state \in {"IDLE", "WR_PKT", "DROP"} /\ (state = "IDLE" <=> first)
  BY DEF Shape
<1>4. w <=> tvalid /\ \/ state = "IDLE" /\ Room(p.oq) /\ q \in p.oq
                      \/ state = "WR_PKT" /\ q \in cur_queue
  BY <1>3 DEF wr_en
<1>5. (q \in metadata_wr_en(tvalid, p.oq)) <=> tvalid /\ state = "IDLE" /\ Room(p.oq) /\ q \in p.oq
  BY DEF metadata_wr_en
<1>6. Storing(q)' <=> state' = "WR_PKT" /\ q \in cur_queue'
  BY DEF Storing
<1>7. Room(p.oq) /\ q \in p.oq => /\ ~(FifoDepth(data[q]) >= BUFFER_THRESHOLD)
                                  /\ ~(FifoDepth(meta[q]) >= META_DEPTH - 1)
  BY DEF Room, nearly_full_fifo, metadata_nearly_full_fifo
<1>8. Storing(q)' <=> IF w THEN ~last ELSE Storing(q)
  BY <1>2, <1>3, <1>4, <1>6 DEF Storing
<1>9. /\ src.left \in Nat /\ MAX_PACKET_SIZE \in Nat \ {0} /\ p.len \in Nat
      /\ p.len <= MAX_PACKET_SIZE /\ (tvalid /\ first => p.len >= 1)
      /\ BUFFER_DEPTH \in Nat /\ BUFFER_THRESHOLD \in Nat /\ META_DEPTH \in Nat
      /\ BUFFER_THRESHOLD + MAX_PACKET_SIZE <= BUFFER_DEPTH
      /\ ~(tvalid /\ first) => p.id = src.id
  BY DEF BufferAssumption, Shape, OnBus
<1>10. (q \in metadata_wr_en(tvalid, p.oq)) <=> w /\ first
  BY <1>3, <1>4, <1>5
<1>11. w => tvalid /\ (first <=> ~Storing(q))
  BY <1>3, <1>4 DEF Storing
<1>12. ~w /\ Storing(q) => src'.left = src.left /\ p.id = src.id
  BY <1>1, <1>3, <1>4, <1>9 DEF Storing
<1> DEFINE fd == FifoDepth(data[q])
           fm == FifoDepth(meta[q])
<1>13. w /\ first => fd < BUFFER_THRESHOLD /\ fm < META_DEPTH - 1 /\ src'.left = p.len - 1
  BY <1>1, <1>3, <1>4, <1>7, <1>9
<1>14. w /\ ~first => src.left >= 1 /\ src'.left = src.left - 1 /\ fd + src.left <= BUFFER_DEPTH
  BY <1>1, <1>9, <1>11
<1> HIDE DEF fd, fm
<1>15. fd \in Nat /\ fm \in Nat
  BY DEF fd, fm
<1>16. w => fd + 1 <= BUFFER_DEPTH /\ fd + 1 + src'.left <= BUFFER_DEPTH
            /\ (first => fm + 1 <= META_DEPTH)
  <2>1. CASE w /\ first
    BY <1>9, <1>11, <1>13, <1>15, <2>1
  <2>2. CASE w /\ ~first
    BY <1>9, <1>14, <1>15, <2>2
  <2> QED BY <2>1, <2>2
<1> QED BY <1>8, <1>10, <1>11, <1>12, <1>16 DEF fd, fm

\* A clock edge of the stage keeps every queue.
LEMMA ClockInv ==
    ASSUME BufferAssumption, Inv, NEW tvalid \in BOOLEAN, NEW p, NEW ready, NEW clear,
           OnBus(tvalid, p), Clock(tvalid, p, ready, clear)
    PROVE  Inv'
<1> DEFINE first == src.left = 0
           last == IF first THEN p.len = 1 ELSE src.left = 1
           b == [id |-> p.id, first |-> first, last |-> last]
           c == [id |-> p.id, len |-> p.len]
<1>1. Shape /\ Shape'
  BY ClockShape DEF Inv
<1>2. ASSUME NEW q \in Queue
      PROVE  QueueOK(data[q], meta[q], metadata_state[q], Storing(q), src.id, src.left)'
  <2> DEFINE d == data[q]
             m == meta[q]
             ms == metadata_state[q]
             ms1 == metadata_state'[q]
             storing == Storing(q)
             st1 == Storing(q)'
             r == rd_en(ready, q)
             mr == metadata_rd_en(ready, q)
             w == q \in wr_en(tvalid, p.oq)
             mw == q \in metadata_wr_en(tvalid, p.oq)
  <2>1. QueueOK(d, m, ms, storing, src.id, src.left)
    BY <1>2 DEF Inv
  <2>2. /\ data'[q] = Step(d, w, b, r) /\ meta'[q] = Step(m, mw, c, mr)
        /\ ms1 = IF ~r THEN ms ELSE IF d.dout.last THEN "WAIT_HEADER" ELSE "WAIT_EOP"
    BY <1>2 DEF Clock, ReadStep
  <2>3. /\ r \in BOOLEAN /\ (r => d.dv) /\ mr \in BOOLEAN /\ (mr <=> r /\ ms = "WAIT_HEADER")
        /\ w \in BOOLEAN /\ mw \in BOOLEAN /\ storing \in BOOLEAN /\ st1 \in BOOLEAN
    BY DEF rd_en, metadata_rd_en, IsEmpty, Storing
  <2>4. src'.id = p.id /\ src.id \in Nat /\ src.left \in Nat /\ src'.left \in Nat
        /\ p.id \in Nat /\ p.len \in Nat
    <3>1. src'.id = p.id
      BY DEF Clock, SourceStep
    <3> QED BY <1>1, <3>1 DEF Shape, OnBus
  <2>5. b \in Beat /\ c \in Meta /\ b.id = p.id /\ c.id = p.id /\ b.first = first /\ b.last = last
    BY <2>4 DEF Beat, Meta
  <2>6. BUFFER_DEPTH \in Nat /\ META_DEPTH \in Nat
    BY DEF BufferAssumption
  <2>7. /\ FifoDepth(d) \in Nat /\ FifoDepth(m) \in Nat
        /\ storing => FifoDepth(d) + src.left <= BUFFER_DEPTH
    BY <2>1, OutOfFlags DEF QueueOK
  <2>8. /\ mw <=> w /\ first
        /\ w => (first <=> ~storing)
        /\ st1 <=> IF w THEN ~last ELSE storing
        /\ w => tvalid /\ FifoDepth(d) + 1 <= BUFFER_DEPTH
        /\ w /\ st1 => FifoDepth(d) + 1 + src'.left <= BUFFER_DEPTH
        /\ w /\ first => FifoDepth(m) + 1 <= META_DEPTH
        /\ ~w /\ storing => src'.left = src.left /\ p.id = src.id
    <3>1. first \in BOOLEAN /\ (first <=> src.left = 0)
      OBVIOUS
    <3>2. last \in BOOLEAN
      <4>1. CASE first
        BY <4>1
      <4>2. CASE ~first
        BY <4>2
      <4> QED BY <4>1, <4>2
    <3>3. last <=> IF first THEN p.len = 1 ELSE src.left = 1
      OBVIOUS
    <3>4. w \in BOOLEAN /\ (w <=> q \in wr_en(tvalid, p.oq))
      BY SMT
    <3> HIDE DEF first, last, w
    <3> QED BY <1>1, <1>2, <2>7, <3>1, <3>2, <3>3, <3>4, WriteSide
  <2>9. src.id <= p.id /\ (w /\ first => p.id > src.id) /\ (w /\ ~first => p.id = src.id)
    BY <2>4, <2>8 DEF OnBus
  <2>10. ~w /\ storing => src'.left <= src.left
    BY <2>4, <2>8
  <2> HIDE DEF first, last, b, c, d, m, ms, ms1, storing, st1, r, mr, w, mw
  <2>11. QueueOK(Step(d, w, b, r), Step(m, mw, c, mr), ms1, st1, src'.id, src'.left)
    <3> DEFINE id == src.id  left == src.left  id1 == src'.id  left1 == src'.left
    <3>1. id \in Nat /\ left \in Nat /\ id1 \in Nat /\ left1 \in Nat /\ id <= id1 /\ id1 = b.id
      BY <2>4, <2>5, <2>9
    <3>2. (mw <=> w /\ b.first) /\ (w => (b.first <=> ~storing)) /\ (st1 <=> IF w THEN ~b.last ELSE storing)
      BY <2>5, <2>8
    <3>3. (w /\ b.first => b.id > id) /\ (w /\ ~b.first => b.id = id)
          /\ (~w /\ storing => id1 = id /\ left1 <= left)
      BY <2>4, <2>5, <2>8, <2>9, <2>10
    <3>4. /\ w => FifoDepth(d) + 1 <= BUFFER_DEPTH
          /\ w /\ st1 => FifoDepth(d) + 1 + left1 <= BUFFER_DEPTH
          /\ mw => FifoDepth(m) + 1 <= META_DEPTH
      BY <2>8
    <3>5. QueueOK(d, m, ms, storing, id, left) /\ c.id = b.id
      BY <2>1, <2>5
    <3> HIDE DEF id, left, id1, left1
    <3>6. Driven(d, m, ms, storing, id, left, r, mr, ms1, w, b, mw, c, st1, id1, left1)
      BY <2>2, <2>3, <2>5, <3>1, <3>2, <3>3, <3>4, <3>5 DEF Driven
    <3>7. QueueOK(Step(d, w, b, r), Step(m, mw, c, mr), ms1, st1, id1, left1)
      BY <2>3, <2>6, <3>1, <3>5, <3>6, QueueStep
    <3> QED BY <3>7 DEF id1, left1
  <2> QED BY <2>2, <2>11 DEF ms1, st1
<1> QED BY <1>1, <1>2 DEF Inv

\* Every step of the stage is a clock edge with a packet that can be on the bus.
LEMMA NextClock ==
    ASSUME BufferAssumption, SourceAssumption, Shape, Next
    PROVE  \E tvalid, p, ready, clear :
               tvalid \in BOOLEAN /\ clear \in Clears /\ OnBus(tvalid, p) /\ Clock(tvalid, p, ready, clear)
<1>1. PICK ready \in SUBSET Queue, clear \in Clears :
          \/ Clock(FALSE, Under_way, ready, clear)
          \/ src.left > 0 /\ Clock(TRUE, Under_way, ready, clear)
          \/ /\ src.left = 0 /\ src.id < MaxPackets
             /\ \E k \in Kinds :
                    Clock(TRUE, [id |-> src.id + 1, oq |-> k.oq, len |-> k.len], ready, clear)
  BY DEF Next
<1>2. CASE Clock(FALSE, Under_way, ready, clear)
  <2>1. OnBus(FALSE, Under_way)
    BY DEF Shape, OnBus, Under_way
  <2> QED BY <1>2, <2>1
<1>3. CASE src.left > 0 /\ Clock(TRUE, Under_way, ready, clear)
  <2>1. OnBus(TRUE, Under_way)
    BY <1>3 DEF Shape, OnBus, Under_way
  <2> QED BY <1>3, <2>1
<1>4. ASSUME NEW k \in Kinds, src.left = 0,
             Clock(TRUE, [id |-> src.id + 1, oq |-> k.oq, len |-> k.len], ready, clear)
      PROVE  \E p : OnBus(TRUE, p) /\ Clock(TRUE, p, ready, clear)
  <2>1. k.oq \subseteq Queue /\ k.len \in 1 .. MAX_PACKET_SIZE /\ MAX_PACKET_SIZE \in Nat
    BY DEF SourceAssumption, Kind, BufferAssumption
  <2>2. OnBus(TRUE, [id |-> src.id + 1, oq |-> k.oq, len |-> k.len])
    BY <1>4, <2>1 DEF Shape, OnBus
  <2> QED BY <1>4, <2>2
<1> QED BY <1>1, <1>2, <1>3, <1>4

LEMMA NextInv ==
    ASSUME BufferAssumption, SourceAssumption, Inv, [Next]_vars
    PROVE  Inv'
<1>1. CASE Next
  <2>1. Shape
    BY DEF Inv
  <2> QED BY <1>1, <2>1, NextClock, ClockInv
<1>2. CASE UNCHANGED vars
  BY <1>2 DEF vars, Inv, Shape, Storing
<1> QED BY <1>1, <1>2

LEMMA InvIntact ==
    ASSUME Inv
    PROVE  StoredIntact
<1> SUFFICES ASSUME NEW q \in Queue
             PROVE  /\ FifoDepth(data[q]) <= BUFFER_DEPTH /\ FifoDepth(meta[q]) <= META_DEPTH
                    /\ LET s == data[q].items
                       IN  /\ \A i \in 1 .. Len(s) - 1 :
                                 IF s[i].last THEN s[i+1].first
                                 ELSE ~s[i+1].first /\ s[i+1].id = s[i].id
                           /\ s # << >> /\ ~Last(s).last =>
                                 state = "WR_PKT" /\ q \in cur_queue /\ Last(s).id = src.id
                    /\ data[q].dv =>
                          /\ data[q].dout.first <=> metadata_state[q] = "WAIT_HEADER"
                          /\ data[q].dout.first => /\ meta[q].dv
                                                   /\ meta[q].dout.id = data[q].dout.id
  BY DEF StoredIntact, NeverOverflows, WholePackets, MetadataAligned
<1> DEFINE d == data[q]
           m == meta[q]
           s == d.items
<1>1. QueueOK(d, m, metadata_state[q], Storing(q), src.id, src.left)
  BY DEF Inv
<1> HIDE DEF d, m
<1>2. /\ s \in Seq(Beat) /\ m.items \in Seq(Meta) /\ Shown(d) /\ Shown(m)
      /\ Framed(s, metadata_state[q], Storing(q), src.id) /\ Paired(s, m.items, src.id)
      /\ d.dv /\ s[1].first => m.dv
  BY <1>1 DEF QueueOK, Sound, FifoOf
<1>3. FifoDepth(d) <= BUFFER_DEPTH /\ FifoDepth(m) <= META_DEPTH
  BY <1>1 DEF QueueOK
<1>4. /\ \A i \in 1 .. Len(s) - 1 :
            IF s[i].last THEN s[i+1].first ELSE ~s[i+1].first /\ s[i+1].id = s[i].id
      /\ s # << >> /\ ~Last(s).last =>
            state = "WR_PKT" /\ q \in cur_queue /\ Last(s).id = src.id
  BY <1>2 DEF Framed, Last, Storing
<1>5. d.dv => (d.dout.first <=> metadata_state[q] = "WAIT_HEADER")
  BY <1>2 DEF Shown, Framed
<1>6. d.dv /\ d.dout.first => m.dv /\ m.dout.id = d.dout.id
  <2> SUFFICES ASSUME d.dv, d.dout.first PROVE m.dv /\ m.dout.id = d.dout.id
    OBVIOUS
  <2>1. s # << >> /\ d.dout = s[1] /\ s[1].first
    BY <1>2 DEF Shown
  <2>2. m.dv /\ m.dout = m.items[1]
    BY <1>2, <2>1 DEF Shown
  <2> HIDE DEF s
  <2>3. m.items[1].id = s[1].id
    BY <1>2, <2>1, HeadsPaired
  <2> QED BY <2>1, <2>2, <2>3
<1> QED BY <1>3, <1>4, <1>5, <1>6 DEF d, m

-----------------------------------------------------------------------------
(* Each packet and each byte counts once *)

\* The counters of a queue whose sums are conserved.
Conserved == {"pktstored", "pktdropped", "pktinqueue", "bytesstored", "bytesremoved"}

\* The bytes of the packets of which the metadata is in the queue.
Bytes(q) == SumOf([i \in DOMAIN meta[q].items |-> meta[q].items[i].len])

\* A packet begins or drops at queue q in this clock, or leaves it.
Begun(tvalid, p, q) == q \in metadata_wr_en(tvalid, p.oq)
Turned(tvalid, p, q) == tvalid /\ state = "IDLE" /\ ~Room(p.oq) /\ q \in p.oq

Counted(q) ==
    /\ \A s \in Conserved : count[s][q].n \in Int
    /\ src.addressed[q] \in Int /\ bytes_stored \in Int
    /\ PktInQueueExact(q) /\ EveryPacketCounted(q) /\ BytesConserved(q)

\* What a clock edge adds to a queue and takes from it: a packet and its length enter
\* with its first beat and leave with it.
LEMMA ClockContents ==
    ASSUME BufferAssumption, Inv, NEW tvalid \in BOOLEAN, NEW p, NEW ready, NEW clear,
           OnBus(tvalid, p), Clock(tvalid, p, ready, clear), NEW q \in Queue
    PROVE  LET in == Begun(tvalid, p, q)
               out == metadata_rd_en(ready, q)
           IN  /\ Headers(q) \in Int /\ Bytes(q) \in Int
               /\ Headers(q)' = Headers(q) + Count(in) - Count(out)
               /\ Bytes(q)' = Bytes(q) + (IF in THEN p.len ELSE 0)
                                       - (IF out THEN meta[q].dout.len ELSE 0)
               /\ out => meta[q].dout.len \in Int
<1> DEFINE d == data[q]
           m == meta[q]
           first == src.left = 0
           last == IF first THEN p.len = 1 ELSE src.left = 1
           b == [id |-> p.id, first |-> first, last |-> last]
           c == [id |-> p.id, len |-> p.len]
           w == q \in wr_en(tvalid, p.oq)
           in == Begun(tvalid, p, q)
           r == rd_en(ready, q)
           out == metadata_rd_en(ready, q)
           heads == [x \in Beat |-> Count(x.first)]
           lens == [x \in Meta |-> x.len]
<1>1. QueueOK(d, m, metadata_state[q], Storing(q), src.id, src.left) /\ Shape
  BY DEF Inv
<1>2. Sound(d, Beat) /\ Sound(m, Meta) /\ Shown(d) /\ Shown(m)
  BY <1>1 DEF QueueOK
<1>3. data'[q] = Step(d, w, b, r) /\ meta'[q] = Step(m, in, c, out)
  BY DEF Clock, Begun
<1>4. /\ w \in BOOLEAN /\ in \in BOOLEAN /\ r \in BOOLEAN /\ out \in BOOLEAN
      /\ (r => d.dv) /\ (out <=> r /\ metadata_state[q] = "WAIT_HEADER")
  BY DEF rd_en, metadata_rd_en, IsEmpty, Begun
<1>5. b \in Beat /\ c \in Meta /\ b.first = first /\ c.len = p.len /\ p.len \in Int
  <2>1. p.id \in Nat /\ p.len \in Nat
    BY DEF OnBus
  <2>2. first \in BOOLEAN
    OBVIOUS
  <2>3. last \in BOOLEAN
    <3>1. CASE first
      BY <3>1
    <3>2. CASE ~first
      BY <3>2
    <3> QED BY <3>1, <3>2
  <2> HIDE DEF first, last
  <2> QED BY <2>1, <2>2, <2>3 DEF Beat, Meta
\* The metadata goes in with a beat that is the first, and out with one that is.
<1>6. in <=> w /\ first
  <2>1. state = "IDLE" <=> first
    BY <1>1 DEF Shape
  <2> QED BY <2>1 DEF Begun, wr_en, metadata_wr_en
<1>7. d.dv => (d.dout.first <=> metadata_state[q] = "WAIT_HEADER") /\ (d.dout.first => m.dv)
  BY InvIntact DEF StoredIntact, MetadataAligned
<1>8. heads \in [Beat -> Int] /\ lens \in [Meta -> Int]
  BY DEF Beat, Meta, Count
<1>9. heads[b] = Count(first) /\ lens[c] = p.len
  BY <1>5
<1>10. d.dout \in Beat /\ m.dout \in Meta /\ d.items \in Seq(Beat) /\ m.items \in Seq(Meta)
  BY <1>2 DEF Sound, FifoOf
<1>11. heads[d.dout] = Count(d.dout.first) /\ lens[m.dout] = m.dout.len /\ m.dout.len \in Int
  BY <1>10 DEF Meta
<1> HIDE DEF b, c
<1>12. /\ Weight(heads, Step(d, w, b, r).items)
              = Weight(heads, d.items) + (IF w THEN heads[b] ELSE 0)
                                       - (IF r /\ d.dv THEN heads[d.dout] ELSE 0)
       /\ Weight(heads, d.items) \in Int
  <2> HIDE DEF d, w, r, heads
  <2> QED BY <1>2, <1>4, <1>5, <1>8, StepWeight
<1>13. /\ Weight(lens, Step(m, in, c, out).items)
              = Weight(lens, m.items) + (IF in THEN lens[c] ELSE 0)
                                      - (IF out /\ m.dv THEN lens[m.dout] ELSE 0)
       /\ Weight(lens, m.items) \in Int
  <2> HIDE DEF m, in, out, lens
  <2> QED BY <1>2, <1>4, <1>5, <1>8, StepWeight
<1>14. \A s \in Seq(Beat) : Weight(heads, s) = SumOf([i \in DOMAIN s |-> Count(s[i].first)])
  <2> TAKE s \in Seq(Beat)
  <2>1. [i \in DOMAIN s |-> heads[s[i]]] = [i \in DOMAIN s |-> Count(s[i].first)]
    OBVIOUS
  <2> QED BY <2>1 DEF Weight
<1>15. \A s \in Seq(Meta) : Weight(lens, s) = SumOf([i \in DOMAIN s |-> s[i].len])
  <2> TAKE s \in Seq(Meta)
  <2>1. [i \in DOMAIN s |-> lens[s[i]]] = [i \in DOMAIN s |-> s[i].len]
    OBVIOUS
  <2> QED BY <2>1 DEF Weight
<1>16. data'[q].items \in Seq(Beat) /\ meta'[q].items \in Seq(Meta)
  <2>1. Inv'
    BY ClockInv
  <2>2. Sound(data'[q], Beat) /\ Sound(meta'[q], Meta)
    BY <2>1 DEF Inv, QueueOK
  <2> QED BY <2>2 DEF Sound, FifoOf
<1> HIDE DEF heads, lens
<1>17. /\ Headers(q) = Weight(heads, d.items) /\ Bytes(q) = Weight(lens, m.items)
       /\ Headers(q)' = Weight(heads, data'[q].items) /\ Bytes(q)' = Weight(lens, meta'[q].items)
  BY <1>10, <1>14, <1>15, <1>16 DEF Headers, Bytes
<1> HIDE DEF d, m, w, in, r, out
<1>18. Headers(q)' = Headers(q) + Count(in) - Count(out)
  <2>1. (IF w THEN heads[b] ELSE 0) = Count(in)
    BY <1>6, <1>9 DEF Count
  <2>2. (IF r /\ d.dv THEN heads[d.dout] ELSE 0) = Count(out)
    BY <1>4, <1>7, <1>11 DEF Count
  <2> QED BY <1>3, <1>12, <1>17, <2>1, <2>2
<1>19. Bytes(q)' = Bytes(q) + (IF in THEN p.len ELSE 0) - (IF out THEN m.dout.len ELSE 0)
  <2>1. out => m.dv
    BY <1>4, <1>7
  <2> QED BY <1>3, <1>9, <1>11, <1>13, <1>17, <2>1
<1> QED BY <1>11, <1>12, <1>13, <1>17, <1>18, <1>19 DEF in, out, m

\* A clock edge in which the CPU clears none of them keeps the sums of the counters.
LEMMA ClockCounted ==
    ASSUME BufferAssumption, SourceAssumption, Inv, NEW tvalid \in BOOLEAN, NEW p,
           NEW ready, NEW clear, clear \cap Conserved = {},
           OnBus(tvalid, p), Clock(tvalid, p, ready, clear), NEW q \in Queue, Counted(q)
    PROVE  Counted(q)'
<1> DEFINE L == CountLimit
           F(s) == count[s][q].n
           in == Begun(tvalid, p, q)
           turned == Turned(tvalid, p, q)
           out == metadata_rd_en(ready, q)
           cs == Count(q \in pkt_stored)
           cd == Count(q \in pkt_dropped)
           bs == IF q \in pkt_stored THEN bytes_stored ELSE 0
           len == IF out THEN meta[q].dout.len ELSE 0
<1>1. L \in Nat \ {0}
  BY DEF SourceAssumption
<1>2. \A s \in Conserved : F(s) \in Int
  BY DEF Counted
<1>3. \A s \in Conserved : F(s)' = (F(s) + Increment(s, q, ready)) % L
  <2> SUFFICES ASSUME NEW s \in Conserved
               PROVE  F(s)' = (F(s) + Increment(s, q, ready)) % L
    OBVIOUS
  <2>1. s \in Stat /\ s \notin clear
    BY DEF Conserved, Stat
  <2> QED BY <2>1 DEF Clock, RegisterStep, CountUp
<1>4. /\ Increment("pktstored", q, ready) = cs /\ Increment("pktdropped", q, ready) = cd
      /\ Increment("pktinqueue", q, ready) = cs - Count(out)
      /\ Increment("bytesstored", q, ready) = bs /\ Increment("bytesremoved", q, ready) = len
  BY DEF Increment
\* What the registered outputs show after the clock.
<1>5. (q \in pkt_stored' <=> in) /\ (q \in pkt_dropped' <=> turned)
      /\ (in => bytes_stored' = p.len) /\ bytes_stored' \in Int /\ p.len \in Int
  <2>1. /\ pkt_stored' = IF tvalid /\ state = "IDLE" /\ Room(p.oq) THEN p.oq ELSE {}
        /\ pkt_dropped' = IF tvalid /\ state = "IDLE" /\ ~Room(p.oq) THEN p.oq ELSE {}
        /\ bytes_stored' = IF tvalid /\ state = "IDLE" /\ Room(p.oq) THEN p.len ELSE 0
    BY DEF Clock, WriteStep
  <2>2. p.len \in Int
    BY DEF OnBus
  <2> QED BY <2>1, <2>2 DEF Begun, Turned, metadata_wr_en
<1>6. src.addressed[q]' = src.addressed[q] + Count(in) + Count(turned) /\ src.addressed[q] \in Int
  <2>1. src.addressed[q]' = src.addressed[q] + Count(tvalid /\ src.left = 0 /\ q \in p.oq)
    BY DEF Clock, SourceStep
  <2>2. (state = "IDLE" <=> src.left = 0) /\ src.addressed[q] \in Int
    BY DEF Inv, Shape, Counted
  <2> QED BY <2>1, <2>2 DEF Begun, Turned, metadata_wr_en, Count
<1>7. /\ Headers(q) \in Int /\ Bytes(q) \in Int
      /\ Headers(q)' = Headers(q) + Count(in) - Count(out)
      /\ Bytes(q)' = Bytes(q) + (IF in THEN p.len ELSE 0) - len
      /\ len \in Int
  BY ClockContents
<1>8. /\ cs \in Int /\ cd \in Int /\ Count(in) \in Int /\ Count(out) \in Int
      /\ Count(turned) \in Int /\ bs \in Int
      /\ cs' = Count(in) /\ cd' = Count(turned) /\ bs' = IF in THEN p.len ELSE 0
  BY <1>5 DEF Count, Counted
<1> DEFINE e == IF in THEN p.len ELSE 0
<1>9. e \in Int
  BY <1>5
<1>10. /\ (F("pktinqueue") + cs) % L = Headers(q) % L
       /\ (F("pktstored") + cs + F("pktdropped") + cd) % L = src.addressed[q] % L
       /\ (F("bytesstored") + bs - F("bytesremoved")) % L = Bytes(q) % L
  BY DEF Counted, PktInQueueExact, EveryPacketCounted, BytesConserved, Bytes
<1>11. /\ PktInQueueExact(q)' <=> (F("pktinqueue")' + cs') % L = Headers(q)' % L
       /\ EveryPacketCounted(q)' <=>
             (F("pktstored")' + cs' + F("pktdropped")' + cd') % L = src.addressed[q]' % L
       /\ BytesConserved(q)' <=>
             (F("bytesstored")' + bs' - F("bytesremoved")') % L = Bytes(q)' % L
  BY DEF PktInQueueExact, EveryPacketCounted, BytesConserved, Bytes
<1>12. {F("pktinqueue"), F("pktstored"), F("pktdropped"), F("bytesstored"), F("bytesremoved")}
           \subseteq Int
  BY <1>2 DEF Conserved
<1>13. /\ F("pktinqueue")' = (F("pktinqueue") + (cs - Count(out))) % L
       /\ F("pktstored")' = (F("pktstored") + cs) % L
       /\ F("pktdropped")' = (F("pktdropped") + cd) % L
       /\ F("bytesstored")' = (F("bytesstored") + bs) % L
       /\ F("bytesremoved")' = (F("bytesremoved") + len) % L
  BY <1>3, <1>4 DEF Conserved
<1> DEFINE fi == F("pktinqueue")  fs == F("pktstored")  fd == F("pktdropped")
           gs == F("bytesstored")  gr == F("bytesremoved")
           ci == Count(in)  co == Count(out)  ct == Count(turned)
           H == Headers(q)  B == Bytes(q)  A == src.addressed[q]
           i1 == F("pktinqueue")'  s1 == F("pktstored")'  d1 == F("pktdropped")'
           b1 == F("bytesstored")'  r1 == F("bytesremoved")'
<1>14. /\ {fi, fs, fd, gs, gr, ci, co, ct, H, B, A, cs, cd, bs, e, len} \subseteq Int
       /\ i1 = (fi + (cs - co)) % L /\ s1 = (fs + cs) % L /\ d1 = (fd + cd) % L
       /\ b1 = (gs + bs) % L /\ r1 = (gr + len) % L
       /\ (fi + cs) % L = H % L /\ (fs + cs + fd + cd) % L = A % L /\ (gs + bs - gr) % L = B % L
  BY <1>6, <1>7, <1>8, <1>9, <1>10, <1>12, <1>13
<1> HIDE DEF L, fi, fs, fd, gs, gr, ci, co, ct, H, B, A, cs, cd, bs, e, len, i1, s1, d1, b1, r1
<1>e. /\ fi \in Int /\ fs \in Int /\ fd \in Int /\ gs \in Int /\ gr \in Int /\ H \in Int /\ B \in Int
      /\ A \in Int /\ ci \in Int /\ co \in Int /\ ct \in Int /\ cs \in Int /\ cd \in Int
      /\ bs \in Int /\ e \in Int /\ len \in Int
  BY <1>14
<1>f. /\ (fi + cs) % L = H % L /\ (fs + cs + fd + cd) % L = A % L /\ (gs + bs - gr) % L = B % L
  BY <1>14
<1>15. (i1 + ci) % L = (H + ci - co) % L
  <2>1. (((fi + (cs - co)) % L) + ci) % L = (H + ci - co) % L
    BY <1>1, <1>e, <1>f, UpDownCounted
  <2> QED BY <1>14, <2>1
<1>16. (s1 + ci + d1 + ct) % L = (A + ci + ct) % L
  <2>1. (((fs + cs) % L) + ci + ((fd + cd) % L) + ct) % L = (A + ci + ct) % L
    <3> DEFINE u == fs + cs  v == fd + cd
    <3>1. u \in Int /\ v \in Int /\ (u + v) % L = A % L
      <4>1. u + v = fs + cs + fd + cd
        BY <1>e
      <4> QED BY <1>e, <1>f, <4>1
    <3> HIDE DEF u, v
    <3> DEFINE Sums(m, n, h) == (m + n) % L = h % L
               Follow(m, n, h, x, y) == ((m % L) + x + (n % L) + y) % L = (h + x + y) % L
    <3>2. \A m, n, h, x, y \in Int : Sums(m, n, h) => Follow(m, n, h, x, y)
      <4>1. \A m, n, x, y, h \in Int : (m + n) % L = h % L =>
                ((m % L) + x + (n % L) + y) % L = (h + x + y) % L
        BY <1>1, TwoCounted
      <4> QED BY <4>1
    <3>3. Sums(u, v, A)
      BY <3>1
    <3>4. ci \in Int /\ ct \in Int /\ A \in Int
      BY <1>e
    <3>5. Follow(u, v, A, ci, ct)
      <4> HIDE DEF Sums, Follow
      <4> QED BY <3>1, <3>2, <3>3, <3>4
    <3> QED BY <3>5 DEF u, v
  <2> QED BY <1>14, <2>1
<1>17. (b1 + e - r1) % L = (B + e - len) % L
  <2>1. (((gs + bs) % L) + e - ((gr + len) % L)) % L = (B + e - len) % L
    BY <1>1, <1>e, <1>f, HeldCounted
  <2> QED BY <1>14, <2>1
<1>18. /\ H + ci - co = Headers(q)' /\ A + ci + ct = src.addressed[q]' /\ B + e - len = Bytes(q)'
       /\ cs' = ci /\ cd' = ct /\ bs' = e
  BY <1>6, <1>7, <1>8 DEF H, A, B, ci, co, ct, e, len, cs, cd, bs
<1>19. PktInQueueExact(q)' /\ EveryPacketCounted(q)' /\ BytesConserved(q)'
  BY <1>11, <1>15, <1>16, <1>17, <1>18 DEF L, i1, s1, d1, b1, r1
<1>20. /\ \A s \in Conserved : count'[s][q].n \in Int
       /\ src.addressed[q]' \in Int /\ bytes_stored' \in Int
  <2>1. \A s \in Conserved : Increment(s, q, ready) \in Int
    BY <1>4, <1>14 DEF Conserved, cs, cd, co, bs, len
  <2>2. \A x, y \in Int : (x + y) % L \in Int
    BY <1>1
  <2>3. ci \in Int /\ ct \in Int /\ A \in Int
    BY <1>14
  <2> QED BY <1>2, <1>3, <1>5, <1>18, <2>1, <2>2, <2>3
<1> QED BY <1>19, <1>20 DEF Counted

\* After reset no packet has come and every counter is zero.
LEMMA InitCounted ==
    ASSUME Init, NEW q \in Queue
    PROVE  Counted(q)
<1>1. /\ data[q].items = << >> /\ meta[q].items = << >>
      /\ src.addressed[q] = 0 /\ bytes_stored = 0 /\ pkt_stored = {} /\ pkt_dropped = {}
  BY DEF Init, EmptyFifo
<1>2. \A s \in Conserved : count[s][q].n = 0
  BY DEF Init, Zero, Conserved, Stat
<1>3. Headers(q) = 0 /\ Bytes(q) = 0
  <2>1. /\ [i \in DOMAIN data[q].items |-> Count(data[q].items[i].first)] = << >>
        /\ [i \in DOMAIN meta[q].items |-> meta[q].items[i].len] = << >>
    BY <1>1
  <2> QED BY <2>1, SumEmpty DEF Headers, Bytes
<1>4. PktInQueueExact(q)
  BY <1>1, <1>2, <1>3 DEF PktInQueueExact, Conserved, Count
<1>5. EveryPacketCounted(q)
  BY <1>1, <1>2 DEF EveryPacketCounted, Conserved, Count
<1>6. BytesConserved(q)
  BY <1>1, <1>2, <1>3 DEF BytesConserved, Bytes, Conserved
<1> QED BY <1>1, <1>2, <1>4, <1>5, <1>6 DEF Counted

LEMMA NextCounted ==
    ASSUME BufferAssumption, SourceAssumption, \A clear \in Clears : clear \cap Conserved = {},
           Inv, \A q \in Queue : Counted(q), [Next]_vars
    PROVE  \A q \in Queue : Counted(q)'
<1>1. CASE Next
  <2>1. Shape
    BY DEF Inv
  <2>2. PICK tvalid, p, ready, clear :
            tvalid \in BOOLEAN /\ clear \in Clears /\ OnBus(tvalid, p) /\ Clock(tvalid, p, ready, clear)
    BY <1>1, <2>1, NextClock
  <2>3. clear \cap Conserved = {}
    BY <2>2
  <2> QED BY <2>2, <2>3, ClockCounted
<1>2. CASE UNCHANGED vars
  BY <1>2 DEF vars, Counted, PktInQueueExact, EveryPacketCounted, BytesConserved, Headers
<1> QED BY <1>1, <1>2
-----------------------------------------------------------------------------
(* The arbiter: what its registers and FIFOs do at a clock edge             *)
(*                                                                         *)
(* In WR_PKT the arbiter believes m_axis_tlast without asking whether the  *)
(* FIFO is empty.  What makes that right is StaleNotLast: an output that   *)
(* was left behind in mid-packet shows a beat that was not the last.       *)

ArbiterShape ==
    /\ DOMAIN fifo = Queue
    /\ \A q \in Queue : Sound(fifo[q], BOOLEAN) /\ Shown(fifo[q])
    /\ a_state \in {"IDLE", "WR_PKT"}
    /\ a_cur_queue \in Queue

StaleNotLast == a_state = "WR_PKT" /\ ~fifo[a_cur_queue].dv => fifo[a_cur_queue].dout = FALSE

ArbiterInv == ArbiterShape /\ StaleNotLast /\ NoInterleaving

\* The current queue shows a beat, and the sink takes it.
Handed(tready) == fifo[a_cur_queue].dv /\ tready

\* The FIFOs of the arbiter are those of the output queues.
LEMMA SameFifo ==
    /\ \A f, w, x, r : arbiter!Step(f, w, x, r) = Step(f, w, x, r)
    /\ \A f : arbiter!IsEmpty(f) = IsEmpty(f)
    /\ \A w : arbiter!EmptyFifo(w) = EmptyFifo(w)
    /\ \A b : arbiter!Count(b) = Count(b)
    /\ \A s : arbiter!SumOf(s) = SumOf(s)
    /\ arbiter!Queue = Queue
BY DEF arbiter!Step, Step, arbiter!IsEmpty, IsEmpty, arbiter!FifoDepth, FifoDepth,
       arbiter!EmptyFifo, EmptyFifo, arbiter!Count, Count, arbiter!SumOf, SumOf,
       arbiter!SetClear, SetClear, arbiter!will_update_dout, will_update_dout,
       arbiter!will_update_middle, will_update_middle, arbiter!fifo_rd_en, fifo_rd_en,
       arbiter!Queue, Queue

\* The next queue is one of the three.
LEMMA NextQueueType == a_cur_queue \in Queue => arbiter!next_queue \in Queue
  BY DEF arbiter!next_queue, Queue

\* A beat is read exactly when it is handed over, and the state machine goes on with
\* the queue until it has handed over a last beat.
LEMMA ArbiterDecides ==
    ASSUME ArbiterInv, NEW tready \in BOOLEAN
    PROVE  LET d == arbiter!Arbitrate(tready)
               handed == Handed(tready)
           IN  /\ d.rd_en \in BOOLEAN /\ (d.rd_en <=> handed)
               /\ handed <=> arbiter!m_axis_tvalid /\ tready
               /\ IF handed
                  THEN IF fifo[a_cur_queue].dout
                       THEN d.state = "IDLE" /\ d.queue = arbiter!next_queue
                       ELSE d.state = "WR_PKT" /\ d.queue = a_cur_queue
                  ELSE /\ d.state = a_state /\ (a_state = "WR_PKT" => d.queue = a_cur_queue)
                       /\ d.queue \in {a_cur_queue, arbiter!next_queue}
<1> DEFINE cur == fifo[a_cur_queue]
<1>1. /\ cur.dv \in BOOLEAN /\ cur.dout \in BOOLEAN /\ a_state \in {"IDLE", "WR_PKT"}
  BY DEF ArbiterInv, ArbiterShape, Sound, FifoOf
<1>2. a_state = "WR_PKT" /\ ~cur.dv => cur.dout = FALSE
  BY DEF ArbiterInv, StaleNotLast
<1>3. /\ arbiter!empty(a_cur_queue) = ~cur.dv /\ arbiter!m_axis_tlast = cur.dout
      /\ arbiter!m_axis_tvalid = ~ ~cur.dv
  BY DEF arbiter!empty, arbiter!IsEmpty, arbiter!m_axis_tlast, arbiter!m_axis_tvalid
<1> HIDE DEF cur
<1> QED BY <1>1, <1>2, <1>3 DEF arbiter!Arbitrate, arbiter!Decision, Handed, cur

\* Whether a source hands in a beat, and whether it is a last one.
In(offer, q) == arbiter!Accepted(offer, q)
LastIn(offer, q) == offer[q] = "last"

\* A clock edge of the arbiter, queue by queue.
LEMMA ArbiterClock ==
    ASSUME ArbiterInv, NEW offer, NEW tready \in BOOLEAN, NEW clear,
           arbiter!Clock(offer, tready, clear)
    PROVE  /\ DOMAIN fifo' = Queue
           /\ \A q \in Queue :
                  /\ In(offer, q) \in BOOLEAN /\ LastIn(offer, q) \in BOOLEAN
                  /\ (Handed(tready) /\ q = a_cur_queue) \in BOOLEAN
                  /\ fifo'[q] = Step(fifo[q], In(offer, q), LastIn(offer, q),
                                     Handed(tready) /\ q = a_cur_queue)
           /\ a_state' = arbiter!Arbitrate(tready).state
           /\ a_cur_queue' = arbiter!Arbitrate(tready).queue
           /\ open' = IF ~Handed(tready) THEN open
                      ELSE IF fifo[a_cur_queue].dout THEN None ELSE a_cur_queue
<1> DEFINE d == arbiter!Arbitrate(tready)
<1>1. /\ fifo' = [q \in arbiter!Queue |->
                     arbiter!Step(fifo[q], arbiter!Accepted(offer, q), offer[q] = "last",
                                  d.rd_en /\ q = a_cur_queue)]
      /\ a_state' = d.state /\ a_cur_queue' = d.queue
      /\ open' = IF ~(arbiter!m_axis_tvalid /\ tready) THEN open
                 ELSE IF arbiter!m_axis_tlast THEN None ELSE a_cur_queue
  BY DEF arbiter!Clock
<1>2. d.rd_en = Handed(tready) /\ (Handed(tready) <=> arbiter!m_axis_tvalid /\ tready)
  <2>1. d.rd_en \in BOOLEAN /\ Handed(tready) \in BOOLEAN
    BY ArbiterDecides DEF Handed, ArbiterInv, ArbiterShape, Sound, FifoOf
  <2> QED BY <2>1, ArbiterDecides
<1>3. \A q \in Queue : In(offer, q) \in BOOLEAN /\ LastIn(offer, q) \in BOOLEAN
  BY DEF In, LastIn, arbiter!Accepted
<1> HIDE DEF d
<1>4. DOMAIN fifo' = Queue /\ \A q \in Queue :
          fifo'[q] = Step(fifo[q], In(offer, q), LastIn(offer, q), Handed(tready) /\ q = a_cur_queue)
  BY <1>1, <1>2, SameFifo, Zenon DEF In, LastIn
<1> QED BY <1>1, <1>2, <1>3, <1>4, Zenon DEF arbiter!m_axis_tlast, d

\* After reset nothing is under way.
LEMMA InitArbiterInv == arbiter!Init => ArbiterInv
<1> SUFFICES ASSUME arbiter!Init PROVE ArbiterInv
  OBVIOUS
<1>1. ArbiterShape
  <2>1. FALSE \in BOOLEAN
    OBVIOUS
  <2>2. Sound(EmptyFifo(FALSE), BOOLEAN)
    BY <2>1, EmptySound, Zenon
  <2>3. DOMAIN fifo = Queue /\ \A q \in Queue : fifo[q] = EmptyFifo(FALSE)
    BY SameFifo, Zenon DEF arbiter!Init
  <2>4. a_state \in {"IDLE", "WR_PKT"} /\ a_cur_queue \in Queue
    BY DEF arbiter!Init, Queue
  <2>5. Shown(EmptyFifo(FALSE))
    BY DEF Shown, EmptyFifo
  <2> QED BY <2>2, <2>3, <2>4, <2>5, Zenon DEF ArbiterShape
<1>2. StaleNotLast /\ NoInterleaving
  BY DEF arbiter!Init, StaleNotLast, NoInterleaving, arbiter!NoInterleaving
<1> QED BY <1>1, <1>2 DEF ArbiterInv

\* The FIFO of a queue after a clock edge.
LEMMA ArbiterFifo ==
    ASSUME ArbiterInv, NEW offer, NEW tready \in BOOLEAN, NEW clear,
           arbiter!Clock(offer, tready, clear), NEW q \in Queue
    PROVE  Sound(fifo'[q], BOOLEAN) /\ Shown(fifo'[q])
<1> DEFINE f == fifo[q]  w == In(offer, q)  x == LastIn(offer, q)
           r == Handed(tready) /\ q = a_cur_queue
           left == IF r THEN Tail(f.items) ELSE f.items
<1>1. Sound(f, BOOLEAN) /\ Shown(f)
  BY DEF ArbiterInv, ArbiterShape
<1>2. w \in BOOLEAN /\ x \in BOOLEAN /\ r \in BOOLEAN /\ fifo'[q] = Step(f, w, x, r)
  BY ArbiterClock
<1>3. r => f.dv
  BY DEF Handed
<1> HIDE DEF f, w, x, r
<1>4. Sound(Step(f, w, x, r), BOOLEAN)
  BY <1>1, <1>2, StepSound
<1>5. Moved(f, w, x, r, Step(f, w, x, r), left)
  BY <1>1, <1>2, <1>3, StepMoves
<1> QED BY <1>2, <1>4, <1>5 DEF Moved

\* One clock edge, whatever the sources offer and the sink does.
LEMMA ArbiterClockInv ==
    ASSUME arbiter!ArbiterAssumption, ArbiterInv, NEW offer, NEW tready \in BOOLEAN, NEW clear,
           arbiter!Clock(offer, tready, clear)
    PROVE  ArbiterInv'
<1> DEFINE d == arbiter!Arbitrate(tready)
           cur == fifo[a_cur_queue]
           handed == Handed(tready)
<1>1. /\ Sound(cur, BOOLEAN) /\ a_cur_queue \in Queue /\ a_state \in {"IDLE", "WR_PKT"}
      /\ cur.dv \in BOOLEAN /\ cur.dout \in BOOLEAN
  BY DEF ArbiterInv, ArbiterShape, Sound, FifoOf
<1>2. /\ a_state' = d.state /\ a_cur_queue' = d.queue
      /\ open' = IF ~handed THEN open ELSE IF cur.dout THEN None ELSE a_cur_queue
  BY ArbiterClock
<1>3. a_state = "WR_PKT" /\ ~cur.dv => cur.dout = FALSE
  BY DEF ArbiterInv, StaleNotLast
<1>4. IF handed
      THEN IF cur.dout THEN d.state = "IDLE" /\ d.queue = arbiter!next_queue
                       ELSE d.state = "WR_PKT" /\ d.queue = a_cur_queue
      ELSE d.state = a_state /\ (a_state = "WR_PKT" => d.queue = a_cur_queue)
                           /\ d.queue \in {a_cur_queue, arbiter!next_queue}
  BY ArbiterDecides
<1>5. handed <=> cur.dv /\ tready
  BY DEF Handed
<1>6. ArbiterShape'
  <2>1. \A q \in Queue : Sound(fifo'[q], BOOLEAN) /\ Shown(fifo'[q])
    BY ArbiterFifo
  <2>2. DOMAIN fifo' = Queue
    BY ArbiterClock
  <2>3. a_state' \in {"IDLE", "WR_PKT"} /\ a_cur_queue' \in Queue
    <3> HIDE DEF d, cur, handed
    <3> QED BY <1>1, <1>2, <1>4, NextQueueType
  <2> QED BY <2>1, <2>2, <2>3 DEF ArbiterShape
<1>7. NoInterleaving'
  <2>1. IF open = None THEN a_state = "IDLE" ELSE a_state = "WR_PKT" /\ a_cur_queue = open
    BY DEF ArbiterInv, NoInterleaving, arbiter!NoInterleaving
  <2>2. None # a_cur_queue
    BY <1>1, SameFifo DEF arbiter!ArbiterAssumption
  <2>3. IF open' = None THEN a_state' = "IDLE" ELSE a_state' = "WR_PKT" /\ a_cur_queue' = open'
    <3> HIDE DEF d, cur, handed
    <3> QED BY <1>2, <1>4, <2>1, <2>2
  <2> QED BY <2>3 DEF NoInterleaving, arbiter!NoInterleaving
<1>8. StaleNotLast'
  <2> SUFFICES ASSUME a_state' = "WR_PKT", ~fifo'[a_cur_queue'].dv
               PROVE  fifo'[a_cur_queue'].dout = FALSE
    BY DEF StaleNotLast
  <2>1. a_cur_queue' = a_cur_queue
    BY <1>2, <1>4
  <2> DEFINE w == In(offer, a_cur_queue)  l == LastIn(offer, a_cur_queue)
  <2>2. fifo'[a_cur_queue] = Step(cur, w, l, handed) /\ w \in BOOLEAN /\ l \in BOOLEAN
        /\ handed \in BOOLEAN
    <3>1. (handed /\ a_cur_queue = a_cur_queue) = handed /\ handed \in BOOLEAN
      <4>1. handed \in BOOLEAN
        BY <1>1 DEF Handed
      <4> HIDE DEF handed
      <4> QED BY <4>1
    <3> QED BY <1>1, <3>1, ArbiterClock
  <2> HIDE DEF d, cur, handed, w, l
  <2>3. ~Step(cur, w, l, handed).dv =>
            Step(cur, w, l, handed).dout = cur.dout /\ (cur.dv => handed)
    BY <1>1, <2>2, OutputHeld
  <2>4. fifo'[a_cur_queue].dout = cur.dout /\ (cur.dv => handed)
    BY <2>1, <2>2, <2>3, Zenon
  <2>5. CASE handed
    BY <1>1, <1>2, <1>4, <2>1, <2>4, <2>5
  <2>6. CASE ~handed
    \* The output was empty before, or it is held.
    BY <1>1, <1>2, <1>3, <1>4, <2>1, <2>4, <2>6
  <2> QED BY <2>5, <2>6
<1> QED BY <1>6, <1>7, <1>8 DEF ArbiterInv

LEMMA ArbiterNextInv ==
    ASSUME arbiter!ArbiterAssumption, ArbiterInv, [arbiter!Next]_arbiterVars
    PROVE  ArbiterInv'
<1>1. CASE arbiter!Next
  BY <1>1, ArbiterClockInv DEF arbiter!Next
<1>2. CASE UNCHANGED arbiterVars
  BY <1>2 DEF arbiterVars, ArbiterInv, ArbiterShape, StaleNotLast, NoInterleaving,
              arbiter!NoInterleaving, Sound, Shown
<1> QED BY <1>1, <1>2

\* The packets that wait in a queue: one more when a last beat comes in, one less when
\* it is handed over.
LEMMA ArbiterWaits ==
    ASSUME ArbiterInv, NEW offer, NEW tready \in BOOLEAN, NEW clear,
           arbiter!Clock(offer, tready, clear), arbiter!ArbiterAssumption, NEW q \in Queue
    PROVE  /\ arbiter!Waiting(q) \in Int
           /\ arbiter!Waiting(q)' = arbiter!Waiting(q) + Count(In(offer, q) /\ LastIn(offer, q))
                  - Count(Handed(tready) /\ q = a_cur_queue /\ fifo[q].dout)
<1> DEFINE f == fifo[q]  w == In(offer, q)  x == LastIn(offer, q)
           r == Handed(tready) /\ q = a_cur_queue
           ends == [b \in BOOLEAN |-> Count(b)]
<1>1. Sound(f, BOOLEAN) /\ Shown(f) /\ f.items \in Seq(BOOLEAN) /\ f.dout \in BOOLEAN
  BY DEF ArbiterInv, ArbiterShape, Sound, FifoOf
<1>2. w \in BOOLEAN /\ x \in BOOLEAN /\ r \in BOOLEAN /\ fifo'[q] = Step(f, w, x, r)
  BY ArbiterClock
<1>3. r => f.dv
  BY DEF Handed
<1>4. ends \in [BOOLEAN -> Int] /\ \A b \in BOOLEAN : ends[b] = Count(b)
  BY DEF Count
<1>5. fifo'[q].items \in Seq(BOOLEAN)
  <2>1. Sound(fifo'[q], BOOLEAN)
    BY ArbiterFifo
  <2> QED BY <2>1 DEF Sound, FifoOf
<1>6. \A s \in Seq(BOOLEAN) : Weight(ends, s) = SumOf([i \in DOMAIN s |-> Count(s[i])])
  <2> TAKE s \in Seq(BOOLEAN)
  <2>1. [i \in DOMAIN s |-> ends[s[i]]] = [i \in DOMAIN s |-> Count(s[i])]
    BY <1>4
  <2> QED BY <2>1 DEF Weight
<1>7. /\ arbiter!Waiting(q) = SumOf([i \in DOMAIN f.items |-> Count(f.items[i])])
      /\ arbiter!Waiting(q)' = SumOf([i \in DOMAIN fifo'[q].items |-> Count(fifo'[q].items[i])])
  BY SameFifo, Zenon DEF arbiter!Waiting
<1> HIDE DEF ends
<1>8. arbiter!Waiting(q) = Weight(ends, f.items) /\ arbiter!Waiting(q)' = Weight(ends, fifo'[q].items)
  BY <1>1, <1>5, <1>6, <1>7
<1> HIDE DEF f, w, x, r
<1>9. /\ Weight(ends, Step(f, w, x, r).items)
             = Weight(ends, f.items) + (IF w THEN ends[x] ELSE 0)
                                     - (IF r /\ f.dv THEN ends[f.dout] ELSE 0)
      /\ Weight(ends, f.items) \in Int
  BY <1>1, <1>2, <1>4, StepWeight
<1>10. (IF w THEN ends[x] ELSE 0) = Count(w /\ x) /\ (IF r /\ f.dv THEN ends[f.dout] ELSE 0) = Count(r /\ f.dout)
  BY <1>1, <1>2, <1>3, <1>4 DEF Count
<1>11. arbiter!Waiting(q)' = arbiter!Waiting(q) + Count(w /\ x) - Count(r /\ f.dout)
       /\ arbiter!Waiting(q) \in Int
  BY <1>2, <1>8, <1>9, <1>10
<1>12. Count(r /\ f.dout) = Count(Handed(tready) /\ q = a_cur_queue /\ fifo[q].dout)
  BY <1>1 DEF r, f, Count
<1> QED BY <1>11, <1>12 DEF w, x

ArbiterCounted ==
    /\ a_count["pktin"].n \in Int /\ a_count["pktout"].n \in Int
    /\ arbiter!CountersConserve

\* A clock edge in which the counters are not cleared keeps their difference.
LEMMA ArbiterClockCounted ==
    ASSUME ArbiterInv, ArbiterCounted, NEW offer, NEW tready \in BOOLEAN, NEW clear,
           clear \cap arbiter!Counter = {},
           arbiter!Clock(offer, tready, clear), arbiter!ArbiterAssumption
    PROVE  ArbiterCounted'
<1> DEFINE L == ArbiterLimit
           W(q) == arbiter!Waiting(q)
           in(q) == Count(In(offer, q) /\ LastIn(offer, q))
           out(q) == Count(Handed(tready) /\ q = a_cur_queue /\ fifo[q].dout)
           gone == Count(Handed(tready) /\ fifo[a_cur_queue].dout)
           m == a_count["pktin"].n
           n == a_count["pktout"].n
           k == in(0) + in(1) + in(2)
           t == W(0) + W(1) + W(2)
<1>1. L \in Nat \ {0} /\ m \in Int /\ n \in Int /\ (m - n) % L = t % L
  BY DEF arbiter!ArbiterAssumption, ArbiterCounted, arbiter!CountersConserve
<1>2. 0 \in Queue /\ 1 \in Queue /\ 2 \in Queue /\ a_cur_queue \in {0, 1, 2}
  BY DEF Queue, ArbiterInv, ArbiterShape
<1>3. \A q \in Queue : W(q) \in Int /\ W(q)' = W(q) + in(q) - out(q)
  BY ArbiterWaits
<1>4. \A q \in Queue : in(q) \in Int /\ out(q) \in Int
  BY DEF Count
<1>5. gone \in Int /\ out(0) + out(1) + out(2) = gone
  BY <1>2 DEF Count
<1>6. a_count'["pktin"].n = (m + k) % L /\ a_count'["pktout"].n = (n + gone) % L
  <2>1. "pktin" \in arbiter!Counter \ clear /\ "pktout" \in arbiter!Counter \ clear
    BY DEF arbiter!Counter
  <2>2. arbiter!RegisterStep(offer, tready, clear)
    BY DEF arbiter!Clock
  <2>3. \A q \in Queue : arbiter!Ended(offer, q) = in(q)
    BY SameFifo, Zenon DEF arbiter!Ended, In, LastIn
  <2>4. arbiter!Count(arbiter!m_axis_tvalid /\ arbiter!m_axis_tlast /\ tready) = gone
    <3>1. Handed(tready) <=> arbiter!m_axis_tvalid /\ tready
      BY ArbiterDecides
    <3>2. (arbiter!m_axis_tvalid /\ arbiter!m_axis_tlast /\ tready)
              <=> (Handed(tready) /\ fifo[a_cur_queue].dout)
      BY <3>1 DEF arbiter!m_axis_tlast
    <3> QED BY <3>2, SameFifo DEF Count
  <2>5. arbiter!Ended(offer, 0) + arbiter!Ended(offer, 1) + arbiter!Ended(offer, 2) = k
    BY <1>2, <2>3
  <2>6. \A r, i : arbiter!CountUp(r, i).n = (r.n + i) % L
    BY DEF arbiter!CountUp
  <2> HIDE DEF k, gone, L
  <2> QED BY <2>1, <2>2, <2>4, <2>5, <2>6 DEF arbiter!RegisterStep
<1>7. t' = t + k - gone /\ t \in Int /\ k \in Int
  <2>1. /\ W(0) \in Int /\ W(0)' = W(0) + in(0) - out(0) /\ in(0) \in Int /\ out(0) \in Int
        /\ W(1) \in Int /\ W(1)' = W(1) + in(1) - out(1) /\ in(1) \in Int /\ out(1) \in Int
        /\ W(2) \in Int /\ W(2)' = W(2) + in(2) - out(2) /\ in(2) \in Int /\ out(2) \in Int
    BY <1>2, <1>3, <1>4
  <2> HIDE DEF W, in, out, gone
  <2> QED BY <1>5, <2>1
<1> HIDE DEF L, m, n, k, t, gone
<1>8. (((m + k) % L) - ((n + gone) % L)) % L = (t + k - gone) % L
  <2>1. SameRest(L, m - n, t)
    BY <1>1 DEF SameRest
  <2>2. SameRest(L, ((m + k) % L) - ((n + gone) % L), t + k - gone)
    BY <1>1, <1>5, <1>7, <2>1, ApartCounted, Zenon
  <2> QED BY <2>2 DEF SameRest
<1>9. (m + k) % L \in Int /\ (n + gone) % L \in Int
  BY <1>1, <1>5, <1>7
<1>10. arbiter!CountersConserve' <=>
           (a_count'["pktin"].n - a_count'["pktout"].n) % L = t' % L
  BY DEF arbiter!CountersConserve, t, L
<1> QED BY <1>6, <1>7, <1>8, <1>9, <1>10 DEF ArbiterCounted

LEMMA ArbiterNextCounted ==
    ASSUME arbiter!ArbiterAssumption, \A clear \in ArbiterClears : clear \cap arbiter!Counter = {},
           ArbiterInv, ArbiterCounted, [arbiter!Next]_arbiterVars
    PROVE  ArbiterCounted'
<1>1. CASE arbiter!Next
  BY <1>1, ArbiterClockCounted DEF arbiter!Next
<1>2. CASE UNCHANGED arbiterVars
  BY <1>2 DEF arbiterVars, ArbiterCounted, arbiter!CountersConserve, arbiter!Waiting
<1> QED BY <1>1, <1>2

LEMMA InitArbiterCounted ==
    ASSUME arbiter!Init
    PROVE  ArbiterCounted
<1>1. a_count["pktin"].n = 0 /\ a_count["pktout"].n = 0
  BY DEF arbiter!Init, arbiter!Counter, arbiter!Zero
<1>2. ASSUME NEW q \in 0 .. 2 PROVE arbiter!Waiting(q) = 0
  <2>1. fifo[q].items = << >>
    BY <1>2 DEF arbiter!Init, arbiter!Queue, arbiter!EmptyFifo
  <2>2. [i \in DOMAIN fifo[q].items |-> arbiter!Count(fifo[q].items[i])] = << >>
    BY <2>1
  <2> QED BY <2>2, SameFifo, SumEmpty DEF arbiter!Waiting
<1>3. (0 - 0) % ArbiterLimit = (0 + 0 + 0) % ArbiterLimit
  OBVIOUS
<1>4. arbiter!CountersConserve
  <2>1. 0 \in 0 .. 2 /\ 1 \in 0 .. 2 /\ 2 \in 0 .. 2
    OBVIOUS
  <2> QED BY <1>1, <1>2, <1>3, <2>1 DEF arbiter!CountersConserve
<1> QED BY <1>1, <1>4 DEF ArbiterCounted
-----------------------------------------------------------------------------
(* The two ends in one specification, as they are model-checked             *)

\* A step of the pair is a step of each end, or leaves it as it is.
LEMMA PairSteps ==
    [MCNext]_<<unit, vars, arbiterVars>> => [Next]_vars /\ [arbiter!Next]_arbiterVars
  BY DEF MCNext

\* Packets of different ports are never mixed on the master stream of the arbiter,
\* for every set of active ports, FIFO size and packet length, whatever the sink does.
THEOREM ArbiterNeverMixes == MCSpec => []NoInterleaving
<1>1. MCInit => ArbiterInv
  BY InitArbiterInv DEF MCInit
<1>2. ArbiterInv /\ [MCNext]_<<unit, vars, arbiterVars>> => ArbiterInv'
  BY PairSteps, ArbiterNextInv, DatapathAssumption
<1>3. ArbiterInv => NoInterleaving
  BY DEF ArbiterInv
<1> QED BY <1>1, <1>2, <1>3, PTL DEF MCSpec

\* A beat of the arbiter is read from its FIFO exactly when it is handed over: none is
\* repeated and none is skipped, though WR_PKT acts on the output of an empty FIFO.
THEOREM ArbiterReadsWhatItHands == MCSpec => []arbiter!ReadIffHanded
<1>1. MCInit => ArbiterInv
  BY InitArbiterInv DEF MCInit
<1>2. ArbiterInv /\ [MCNext]_<<unit, vars, arbiterVars>> => ArbiterInv'
  BY PairSteps, ArbiterNextInv, DatapathAssumption
<1>3. ArbiterInv => arbiter!ReadIffHanded
  BY ArbiterDecides DEF arbiter!ReadIffHanded
<1> QED BY <1>1, <1>2, <1>3, PTL DEF MCSpec

\* A packet that output_queues lets in below the threshold fits to its last beat, is kept
\* whole and in order, and shows its first beat at the master port together with its own
\* metadata, for every size of the buffers that leaves a longest packet above the
\* threshold: the slave side need never be held up.
THEOREM PacketsStoredIntact == MCSpec => []StoredIntact
<1>1. MCInit => Inv
  BY InitInv, DatapathAssumption DEF MCInit
<1>2. Inv /\ [MCNext]_<<unit, vars, arbiterVars>> => Inv'
  BY PairSteps, NextInv, DatapathAssumption
<1>3. Inv => StoredIntact
  BY InvIntact
<1> QED BY <1>1, <1>2, <1>3, PTL DEF MCSpec

\* The software leaves the counters of the sums alone: it clears none of them.
LeftAlone == /\ \A clear \in Clears : clear \cap Conserved = {}
             /\ \A clear \in ArbiterClears : clear \cap arbiter!Counter = {}

\* Every packet counts once, as stored or as dropped, in each output queue it is sent to;
\* PKTINQUEUE shows the packets in the queue; the bytes counted in and not yet counted
\* out are those of the packets in the queue; and the packets the arbiter has counted in
\* and not yet out are those inside: for every width of the counters, which wrap, and
\* every size of the buffers.
THEOREM EveryPacketIsCounted == ASSUME LeftAlone PROVE MCSpec => []PacketsCounted
<1> DEFINE CInv == /\ Inv /\ \A q \in Queue : Counted(q)
                   /\ ArbiterInv /\ ArbiterCounted
<1>1. MCInit => CInv
  BY InitInv, InitCounted, InitArbiterInv, InitArbiterCounted, DatapathAssumption DEF MCInit
<1>2. CInv /\ [MCNext]_<<unit, vars, arbiterVars>> => CInv'
  <2> SUFFICES ASSUME CInv, [MCNext]_<<unit, vars, arbiterVars>> PROVE CInv'
    OBVIOUS
  <2>1. Inv' /\ \A q \in Queue : Counted(q)'
    BY PairSteps, NextInv, NextCounted, DatapathAssumption DEF LeftAlone
  <2>2. ArbiterInv' /\ ArbiterCounted'
    BY PairSteps, ArbiterNextInv, ArbiterNextCounted, DatapathAssumption DEF LeftAlone
  <2> QED BY <2>1, <2>2
<1>3. CInv => PacketsCounted
  BY DEF Counted, CountersConserve, ArbiterCounted, PacketsCounted
<1> QED BY <1>1, <1>2, <1>3, PTL DEF MCSpec
=============================================================================
