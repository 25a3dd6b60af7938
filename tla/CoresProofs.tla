----------------------------- MODULE CoresProofs ----------------------------
(***************************************************************************)
(* Proofs about small_fifo.v, about fallthrough_small_fifo.v, which puts   *)
(* two word registers behind it, and about the switch of                   *)
(* switch_lite_output_port_lookup.v, for every word set, every depth of    *)
(* the memories and every size of the table.                               *)
(***************************************************************************)
EXTENDS MCCores, CommonLemmas, SequenceTheorems, FiniteSetTheorems

\* A pointer of small_fifo.v rolls over from the last slot to slot 0.
LEMMA NextSlotRollsOver ==
    ASSUME NEW p \in Slot
    PROVE  /\ NextSlot(p) = IF p + 1 = MAX_DEPTH THEN 0 ELSE p + 1
           /\ NextSlot(p) \in Slot
  BY MaxDepthAssumption DEF Slot, NextSlot

\* The type invariant holds because the distance invariant does: a legal write
\* finds a slot and a legal read finds a word.
Inv == TypeOK /\ DepthIsPointerDistance

LEMMA InitInv == Init => Inv
  BY MaxDepthAssumption DEF Init, Inv, TypeOK, DepthIsPointerDistance, Slot

\* One clock edge of small_fifo.v, with or without reset, keeps the invariant.
LEMMA NextInv == Inv /\ [Next]_vars => Inv'
<1> SUFFICES ASSUME Inv, [Next]_vars PROVE Inv'
  OBVIOUS
<1> USE MaxDepthAssumption DEF Inv
<1>1. ASSUME NEW wr_en \in BOOLEAN, NEW rd_en \in BOOLEAN, NEW din \in Word,
             SampleData(wr_en, din, rd_en)
      PROVE  queue' \in [Slot -> Word] /\ dout' \in Word
  BY <1>1 DEF SampleData, TypeOK
<1>2. ASSUME NEW wr_en \in BOOLEAN, NEW rd_en \in BOOLEAN, NEW din \in Word,
             Clock(wr_en, din, rd_en)
      PROVE  Inv'
  <2>1. queue' \in [Slot -> Word] /\ dout' \in Word
    BY <1>1, <1>2 DEF Clock
  <2>2. wr_ptr' \in Slot /\ rd_ptr' \in Slot
    BY <1>2, NextSlotRollsOver DEF Clock, MovePointers, TypeOK
  <2>3. depth' \in 0 .. MAX_DEPTH
    BY <1>2 DEF Clock, Legal, MovePointers, TypeOK, full, empty
  <2>4. DepthIsPointerDistance'
    <3>1. NextSlot(wr_ptr) = (IF wr_ptr + 1 = MAX_DEPTH THEN 0 ELSE wr_ptr + 1)
          /\ NextSlot(rd_ptr) = (IF rd_ptr + 1 = MAX_DEPTH THEN 0 ELSE rd_ptr + 1)
      BY NextSlotRollsOver DEF TypeOK
    <3> QED
      BY <1>2, <3>1 DEF Clock, Legal, MovePointers, TypeOK,
                        DepthIsPointerDistance, Slot, full, empty
  <2> QED
    BY <2>1, <2>2, <2>3, <2>4 DEF TypeOK
<1>3. ASSUME NEW wr_en \in BOOLEAN, NEW rd_en \in BOOLEAN, NEW din \in Word,
             Reset(wr_en, din, rd_en)
      PROVE  Inv'
  <2>1. queue' \in [Slot -> Word] /\ dout' \in Word
    BY <1>1, <1>3 DEF Reset
  <2> QED
    BY <2>1, <1>3 DEF Reset, TypeOK, DepthIsPointerDistance, Slot
<1>4. CASE UNCHANGED vars
  BY <1>4 DEF vars, TypeOK, DepthIsPointerDistance
<1> QED
  BY <1>2, <1>3, <1>4 DEF Next

\* The pointers of small_fifo.v stay in the memory and its depth counter stays
\* their distance, for every depth and every sequence of legal reads and writes.
THEOREM DepthCorrect == Spec => [](TypeOK /\ DepthIsPointerDistance)
<1>1. Inv => TypeOK /\ DepthIsPointerDistance
  BY DEF Inv
<1> QED
  BY InitInv, NextInv, <1>1, PTL DEF Spec
-----------------------------------------------------------------------------
(* The refinement: the words between the pointers are the abstract queue.  *)

\* The words between the pointers form a sequence, slot by slot.
LEMMA WindowIsSequence ==
    ASSUME NEW q \in [Slot -> Word], NEW p \in Slot, NEW n \in 0 .. MAX_DEPTH
    PROVE  /\ Window(q, p, n) \in Seq(Word)
           /\ Len(Window(q, p, n)) = n
           /\ \A i \in 1 .. n : Window(q, p, n)[i] = q[SlotOf(p, i)]
<1>1. \A i \in 1 .. n : SlotOf(p, i) \in Slot
  BY MaxDepthAssumption DEF SlotOf, Slot
<1>2. Window(q, p, n) \in [1 .. n -> Word]
  BY <1>1 DEF Window
<1>3. n \in Nat
  BY MaxDepthAssumption
<1>4. Window(q, p, n) \in Seq(Word) /\ Len(Window(q, p, n)) = n
  BY <1>2, <1>3
<1> QED
  BY <1>4 DEF Window

\* What the pointers and the memory are, before and after an edge.
LEMMA StoredIsSequence ==
    ASSUME TypeOK
    PROVE  /\ Stored \in Seq(Word)
           /\ Len(Stored) = depth
           /\ \A i \in 1 .. depth : Stored[i] = queue[SlotOf(rd_ptr, i)]
  BY WindowIsSequence DEF TypeOK, Stored

LEMMA StoredIsSequenceAfter ==
    ASSUME TypeOK'
    PROVE  /\ Stored' \in Seq(Word)
           /\ Len(Stored') = depth'
           /\ \A i \in 1 .. depth' : Stored'[i] = queue'[SlotOf(rd_ptr', i)]
<1>1. queue' \in [Slot -> Word] /\ rd_ptr' \in Slot /\ depth' \in 0 .. MAX_DEPTH
  BY DEF TypeOK, Slot
<1>2. Stored' = Window(queue', rd_ptr', depth')
  BY DEF Stored, Window, SlotOf
<1> QED
  BY <1>1, <1>2, WindowIsSequence

\* An edge that writes and does not read appends din.
LEMMA WriteAppends ==
    ASSUME Inv, TypeOK', NEW din \in Word, Clock(TRUE, din, FALSE)
    PROVE  Len(Stored) < MAX_DEPTH /\ Stored' = Append(Stored, din)
<1> USE MaxDepthAssumption DEF Inv
<1>1. depth < MAX_DEPTH /\ depth' = depth + 1 /\ rd_ptr' = rd_ptr
      /\ queue' = [queue EXCEPT ![wr_ptr] = din] /\ depth \in Nat
  BY DEF Clock, Legal, full, MovePointers, SampleData, TypeOK
<1>2. \A i \in 1 .. depth : SlotOf(rd_ptr, i) # wr_ptr
  BY <1>1 DEF SlotOf, TypeOK, DepthIsPointerDistance, Slot
<1>3. SlotOf(rd_ptr, depth + 1) = wr_ptr
  BY <1>1 DEF SlotOf, TypeOK, DepthIsPointerDistance, Slot
<1>4. Append(Stored, din) \in Seq(Word) /\ Len(Append(Stored, din)) = depth + 1
  BY <1>1, StoredIsSequence
<1>5. ASSUME NEW i \in 1 .. depth + 1
      PROVE  Stored'[i] = Append(Stored, din)[i]
  <2>1. Stored'[i] = queue'[SlotOf(rd_ptr, i)]
    BY <1>1, StoredIsSequenceAfter
  <2>2. CASE i = depth + 1
    BY <2>1, <2>2, <1>1, <1>3, StoredIsSequence DEF TypeOK
  <2>3. CASE i \in 1 .. depth
    <3>1. SlotOf(rd_ptr, i) \in Slot
      BY <2>3, <1>1 DEF SlotOf, TypeOK, Slot
    <3> QED
      BY <2>1, <2>3, <3>1, <1>1, <1>2, StoredIsSequence DEF TypeOK
  <2>4. i = depth + 1 \/ i \in 1 .. depth
    BY <1>1
  <2> QED
    BY <2>2, <2>3, <2>4
<1> QED
  BY <1>1, <1>4, <1>5, SeqEqual, StoredIsSequence, StoredIsSequenceAfter

\* An edge that reads and does not write hands out the oldest word.
LEMMA ReadTakesHead ==
    ASSUME Inv, TypeOK', NEW din \in Word, Clock(FALSE, din, TRUE)
    PROVE  /\ Stored # << >>
           /\ dout' = Head(Stored)
           /\ Stored' = Tail(Stored)
<1> USE MaxDepthAssumption DEF Inv
<1>1. depth > 0 /\ depth' = depth - 1 /\ rd_ptr' = NextSlot(rd_ptr)
      /\ queue' = queue /\ dout' = queue[rd_ptr] /\ depth \in Nat
  BY DEF Clock, Legal, empty, MovePointers, SampleData, TypeOK
<1>2. Stored # << >>
  BY <1>1, StoredIsSequence
<1>3. SlotOf(rd_ptr, 1) = rd_ptr
  BY DEF SlotOf, TypeOK, Slot
<1>4. dout' = Head(Stored)
  BY <1>1, <1>2, <1>3, StoredIsSequence
<1>5. \A i \in 1 .. depth - 1 : SlotOf(NextSlot(rd_ptr), i) = SlotOf(rd_ptr, i + 1)
  <2>1. NextSlot(rd_ptr) = IF rd_ptr + 1 = MAX_DEPTH THEN 0 ELSE rd_ptr + 1
    BY NextSlotRollsOver DEF TypeOK
  <2> QED
    BY <1>1, <2>1 DEF SlotOf, TypeOK, Slot
<1>6. Tail(Stored) \in Seq(Word) /\ Len(Tail(Stored)) = depth - 1
      /\ \A i \in 1 .. depth - 1 : Tail(Stored)[i] = Stored[i + 1]
  BY <1>1, <1>2, StoredIsSequence, HeadTailProperties
<1>7. \A i \in 1 .. depth - 1 : Stored'[i] = queue[SlotOf(NextSlot(rd_ptr), i)]
  BY <1>1, StoredIsSequenceAfter
<1>8. \A i \in 1 .. depth - 1 : Stored[i + 1] = queue[SlotOf(rd_ptr, i + 1)]
  BY <1>1, StoredIsSequence
<1>9. \A i \in 1 .. depth - 1 : Stored'[i] = Tail(Stored)[i]
  BY <1>5, <1>6, <1>7, <1>8
<1>10. Stored' = Tail(Stored)
  BY <1>1, <1>6, <1>9, SeqEqual, StoredIsSequenceAfter
<1> QED
  BY <1>2, <1>4, <1>10

\* An edge that does both hands out the oldest word and appends din, also when
\* the FIFO is full and both ports meet in one slot.
LEMMA ReadWriteRotates ==
    ASSUME Inv, TypeOK', NEW din \in Word, Clock(TRUE, din, TRUE)
    PROVE  /\ Stored # << >>
           /\ dout' = Head(Stored)
           /\ Stored' = Append(Tail(Stored), din)
<1> USE MaxDepthAssumption DEF Inv
<1>1. depth > 0 /\ depth' = depth /\ rd_ptr' = NextSlot(rd_ptr)
      /\ queue' = [queue EXCEPT ![wr_ptr] = din]
      /\ dout' = queue[rd_ptr] /\ depth \in Nat
  BY DEF Clock, Legal, empty, MovePointers, SampleData, TypeOK
<1>2. Stored # << >>
  BY <1>1, StoredIsSequence
<1>3. SlotOf(rd_ptr, 1) = rd_ptr
  BY DEF SlotOf, TypeOK, Slot
<1>4. dout' = Head(Stored)
  BY <1>1, <1>2, <1>3, StoredIsSequence
<1>5. NextSlot(rd_ptr) = IF rd_ptr + 1 = MAX_DEPTH THEN 0 ELSE rd_ptr + 1
  BY NextSlotRollsOver DEF TypeOK
<1>6. Tail(Stored) \in Seq(Word) /\ Len(Tail(Stored)) = depth - 1
      /\ \A i \in 1 .. depth - 1 : Tail(Stored)[i] = Stored[i + 1]
  BY <1>1, <1>2, StoredIsSequence, HeadTailProperties
<1>7. Append(Tail(Stored), din) \in Seq(Word) /\ Len(Append(Tail(Stored), din)) = depth
  BY <1>1, <1>6
<1>8. ASSUME NEW i \in 1 .. depth
      PROVE  Stored'[i] = Append(Tail(Stored), din)[i]
  <2>1. Stored'[i] = queue'[SlotOf(NextSlot(rd_ptr), i)]
    BY <1>1, StoredIsSequenceAfter
  <2>2. CASE i = depth
    <3>1. SlotOf(NextSlot(rd_ptr), i) = wr_ptr
      BY <1>1, <1>5, <2>2 DEF SlotOf, TypeOK, DepthIsPointerDistance, Slot
    <3>2. Stored'[i] = din
      BY <1>1, <2>1, <3>1 DEF TypeOK
    <3> QED
      BY <1>1, <1>6, <2>2, <3>2
  <2>3. CASE i \in 1 .. depth - 1
    <3>1. SlotOf(NextSlot(rd_ptr), i) = SlotOf(rd_ptr, i + 1)
          /\ SlotOf(rd_ptr, i + 1) # wr_ptr /\ SlotOf(rd_ptr, i + 1) \in Slot
      BY <1>1, <1>5, <2>3 DEF SlotOf, TypeOK, DepthIsPointerDistance, Slot
    <3>2. Stored'[i] = queue[SlotOf(rd_ptr, i + 1)]
      BY <1>1, <2>1, <3>1 DEF TypeOK
    <3>3. Stored[i + 1] = queue[SlotOf(rd_ptr, i + 1)]
      BY <1>1, <2>3, StoredIsSequence
    <3> QED
      BY <1>1, <1>6, <2>3, <3>2, <3>3
  <2>4. i = depth \/ i \in 1 .. depth - 1
    BY <1>1
  <2> QED
    BY <2>2, <2>3, <2>4
<1>9. Stored' = Append(Tail(Stored), din)
  BY <1>1, <1>7, <1>8, SeqEqual, StoredIsSequenceAfter
<1> QED
  BY <1>2, <1>4, <1>9

\* small_fifo.v implements the bounded queue, whatever its depth.
THEOREM FifoRefinesQueue == Spec => ImplementsQueue
<1>1. Init => Abstract!Init
  BY MaxDepthAssumption DEF Init, Abstract!Init, Stored, Window
<1>2. Inv /\ Inv' /\ [Next]_vars => [Abstract!Next]_(Abstract!vars)
  <2> SUFFICES ASSUME Inv, Inv', [Next]_vars
               PROVE  Abstract!Next \/ UNCHANGED Abstract!vars
    BY DEF Abstract!vars
  <2>1. ASSUME NEW wr_en \in BOOLEAN, NEW rd_en \in BOOLEAN, NEW din \in Word,
               Clock(wr_en, din, rd_en)
        PROVE  Abstract!Next \/ UNCHANGED Abstract!vars
    <3>1. CASE wr_en = TRUE /\ rd_en = FALSE
      <4>1. Clock(TRUE, din, FALSE)
        BY <2>1, <3>1
      <4>2. dout' = dout
        BY <4>1 DEF Clock, SampleData
      <4>3. Abstract!Put(din)
        BY <4>1, <4>2, WriteAppends DEF Inv, Abstract!Put
      <4> QED
        BY <4>3 DEF Abstract!Next
    <3>2. CASE wr_en = FALSE /\ rd_en = TRUE
      <4>1. Clock(FALSE, din, TRUE)
        BY <2>1, <3>2
      <4>2. Abstract!Get
        BY <4>1, ReadTakesHead DEF Inv, Abstract!Get
      <4> QED
        BY <4>2 DEF Abstract!Next
    <3>3. CASE wr_en = TRUE /\ rd_en = TRUE
      <4>1. Clock(TRUE, din, TRUE)
        BY <2>1, <3>3
      <4>2. Abstract!PutGet(din)
        BY <4>1, ReadWriteRotates DEF Inv, Abstract!PutGet
      <4> QED
        BY <4>2 DEF Abstract!Next
    <3>4. CASE wr_en = FALSE /\ rd_en = FALSE
      <4>1. queue' = queue /\ rd_ptr' = rd_ptr /\ depth' = depth /\ dout' = dout
        BY <2>1, <3>4 DEF Clock, SampleData, MovePointers
      <4> QED
        BY <4>1 DEF Abstract!vars, Stored, Window, SlotOf
    <3> QED
      BY <3>1, <3>2, <3>3, <3>4
  <2>2. ASSUME NEW wr_en \in BOOLEAN, NEW rd_en \in BOOLEAN, NEW din \in Word,
               Reset(wr_en, din, rd_en)
        PROVE  Abstract!Next
    <3>1. depth' = 0 /\ dout' \in Word
      BY <2>2 DEF Reset, Inv, TypeOK
    <3>2. Stored' = << >>
      BY <3>1, StoredIsSequenceAfter DEF Inv
    <3> QED
      BY <3>1, <3>2 DEF Abstract!Next, Abstract!Reset
  <2>3. CASE UNCHANGED vars
    BY <2>3 DEF vars, Abstract!vars, Stored, Window, SlotOf
  <2> QED
    BY <2>1, <2>2, <2>3 DEF Next
<1> QED
  BY <1>1, <1>2, InitInv, NextInv, PTL DEF Spec, ImplementsQueue, Abstract!Spec
-----------------------------------------------------------------------------
(* fallthrough_small_fifo.v: the words in the registers stand before those *)
(* in the memory, and a clock edge only hands them on.                     *)

\* Word a before the words s, and the words s with din behind them if wr_en.
Push(a, s) == <<a>> \o s
Written(s, wr_en, din) == IF wr_en THEN Append(s, din) ELSE s

LEMMA PushFacts ==
    ASSUME NEW a \in Word, NEW s \in Seq(Word), NEW wr_en \in BOOLEAN, NEW din \in Word
    PROVE  /\ Push(a, s) \in Seq(Word) /\ Push(a, s) # << >> /\ Len(Push(a, s)) = Len(s) + 1
           /\ Head(Push(a, s)) = a /\ Tail(Push(a, s)) = s
           /\ Written(s, wr_en, din) \in Seq(Word)
           /\ Written(Push(a, s), wr_en, din) = Push(a, Written(s, wr_en, din))
<1>1. Push(a, s) \in Seq(Word) /\ Push(a, s) # << >> /\ Len(Push(a, s)) = Len(s) + 1
  BY DEF Push
<1>2. Head(Push(a, s)) = a /\ Tail(Push(a, s)) = s
  <2>1. Head(Push(a, s)) = a
    BY DEF Push
  <2>2. Tail(Push(a, s)) \in Seq(Word) /\ Len(Tail(Push(a, s))) = Len(s)
    BY <1>1
  <2>3. \A i \in 1 .. Len(s) : Tail(Push(a, s))[i] = s[i]
    BY DEF Push
  <2> QED BY <2>1, <2>2, <2>3, SeqEqual
<1>3. Written(s, wr_en, din) \in Seq(Word)
  BY DEF Written
<1>4. Append(Push(a, s), din) = Push(a, Append(s, din))
  BY DEF Push
<1> QED BY <1>1, <1>2, <1>3, <1>4 DEF Written

LEMMA PushHead ==
    ASSUME NEW s \in Seq(Word), s # << >>
    PROVE  Head(s) \in Word /\ Tail(s) \in Seq(Word) /\ Push(Head(s), Tail(s)) = s
  BY DEF Push

\* The words in the registers and the memory, built up from the memory.
Behind(fv, w, s) == IF fv THEN Push(w, s) ELSE s

LEMMA OneBehind ==
    ASSUME NEW s \in Seq(Word), NEW a \in Word, NEW av \in BOOLEAN
    PROVE  /\ (IF av THEN <<a>> ELSE << >>) \in Seq(Word)
           /\ (IF av THEN <<a>> ELSE << >>) \o s = Behind(av, a, s)
           /\ Behind(av, a, s) \in Seq(Word)
<1>1. << >> \o s = s /\ <<a>> \o s \in Seq(Word) /\ <<a>> \in Seq(Word) /\ << >> \in Seq(Word)
  BY ConcatEmptySeq
<1>2. CASE av
  BY <1>1, <1>2 DEF Behind, Push
<1>3. CASE ~av
  BY <1>1, <1>3 DEF Behind
<1> QED BY <1>2, <1>3

LEMMA WordsAssociative ==
    ASSUME NEW x \in Seq(Word), NEW y \in Seq(Word), NEW z \in Seq(Word)
    PROVE  (x \o y) \o z = x \o (y \o z)
  BY ConcatAssociative

Joined(av, a, bv, b, cv, c, s) ==
    (IF av THEN <<a>> ELSE << >>) \o (IF bv THEN <<b>> ELSE << >>)
       \o (IF cv THEN <<c>> ELSE << >>) \o s

LEMMA WordsBehind ==
    ASSUME NEW s \in Seq(Word), NEW a \in Word, NEW b \in Word, NEW c \in Word,
           NEW av \in BOOLEAN, NEW bv \in BOOLEAN, NEW cv \in BOOLEAN
    PROVE  Joined(av, a, bv, b, cv, c, s) = Behind(av, a, Behind(bv, b, Behind(cv, c, s)))
<1> DEFINE A == IF av THEN <<a>> ELSE << >>
           B == IF bv THEN <<b>> ELSE << >>
           C == IF cv THEN <<c>> ELSE << >>
<1>1. A \in Seq(Word) /\ B \in Seq(Word) /\ C \in Seq(Word)
  BY OneBehind
<1>2. C \o s = Behind(cv, c, s) /\ C \o s \in Seq(Word)
  BY OneBehind
<1>3. B \o Behind(cv, c, s) = Behind(bv, b, Behind(cv, c, s))
      /\ B \o Behind(cv, c, s) \in Seq(Word)
  <2>1. Behind(cv, c, s) \in Seq(Word)
    BY <1>2
  <2> QED BY <2>1, OneBehind, Zenon
<1>4. A \o Behind(bv, b, Behind(cv, c, s)) = Behind(av, a, Behind(bv, b, Behind(cv, c, s)))
  <2>1. Behind(bv, b, Behind(cv, c, s)) \in Seq(Word)
    BY <1>3
  <2> QED BY <2>1, OneBehind, Zenon
<1> HIDE DEF A, B, C
<1>5. ((A \o B) \o C) \o s = A \o (B \o (C \o s))
  <2>1. A \o B \in Seq(Word) /\ C \o s \in Seq(Word)
    BY <1>1, <1>2
  <2> DEFINE AB == A \o B
             CS == C \o s
  <2> HIDE DEF AB, CS
  <2>2. AB \in Seq(Word) /\ CS \in Seq(Word)
    BY <2>1 DEF AB, CS
  <2>3. (AB \o C) \o s = AB \o (C \o s)
    BY <1>1, <2>2, WordsAssociative, SMTT(30)
  <2>4. (A \o B) \o CS = A \o (B \o CS)
    BY <1>1, <2>2, WordsAssociative, SMTT(30)
  <2> QED BY <2>3, <2>4 DEF AB, CS
<1>6. ((A \o B) \o C) \o s = Behind(av, a, Behind(bv, b, Behind(cv, c, s)))
  BY <1>2, <1>3, <1>4, <1>5
<1> QED BY <1>6 DEF A, B, C, Joined

\* The registers are well typed and the memory is that of a small_fifo.
FallInv == /\ Inv
           /\ fifo_valid \in BOOLEAN /\ middle_valid \in BOOLEAN /\ dout_valid \in BOOLEAN
           /\ middle_dout \in Word /\ fall_dout \in Word

\* The registers follow their flags, and hand their words on in order.
LEMMA Registers ==
    ASSUME FallInv, NEW rd_en \in BOOLEAN, fall!MoveStages(rd_en)
    PROVE  /\ fifo_valid' \in BOOLEAN /\ middle_valid' \in BOOLEAN /\ dout_valid' \in BOOLEAN
           /\ middle_dout' \in Word /\ fall_dout' \in Word
  BY DEF FallInv, Inv, TypeOK, fall!MoveStages, fall!SetClear, fall!willUpdateDout,
         fall!willUpdateMiddle, fall!fifoRdEn

\* The inner FIFO is used as small_fifo.v asks for: it is never read when empty.
LEMMA InnerClock ==
    ASSUME NEW wr_en, NEW din, NEW rd_en, fall!Clock(wr_en, din, rd_en)
    PROVE  Clock(wr_en, din, fall!fifoRdEn) /\ fall!fifoRdEn \in BOOLEAN
  BY DEF fall!Clock, fall!fifoRdEn, fall!fifo!empty, fall!fifo!full, fall!fifo!SampleData,
         fall!fifo!MovePointers, fall!fifo!NextSlot, Clock, Legal, SampleData, MovePointers,
         NextSlot, empty, full

LEMMA FallInitInv == ASSUME fall!WordAssumption, fall!Init PROVE FallInv
<1>1. Init
  BY DEF fall!Init, fall!fifo!Init, fall!fifo!Slot, Init, Slot
<1> QED BY <1>1, InitInv DEF fall!Init, fall!WordAssumption, FallInv

LEMMA FallNextInv ==
    ASSUME fall!WordAssumption, FallInv, [fall!Next]_(fall!vars)
    PROVE  FallInv'
<1>1. ASSUME NEW wr_en \in BOOLEAN, NEW rd_en \in BOOLEAN, NEW din \in Word,
             fall!Clock(wr_en, din, rd_en)
      PROVE  FallInv'
  <2>1. Clock(wr_en, din, fall!fifoRdEn) /\ fall!fifoRdEn \in BOOLEAN
    BY <1>1, InnerClock
  <2>2. Inv'
    BY <1>1, <2>1, NextInv DEF Next, FallInv
  <2>3. fall!MoveStages(rd_en)
    BY <1>1 DEF fall!Clock
  <2> QED BY <1>1, <2>2, <2>3, Registers DEF FallInv
<1>2. ASSUME NEW wr_en \in BOOLEAN, NEW din \in Word, fall!Reset(wr_en, din)
      PROVE  FallInv'
  <2>1. Reset(wr_en, din, fall!fifoRdEn) /\ fall!fifoRdEn \in BOOLEAN
    BY <1>2 DEF fall!Reset, fall!fifoRdEn, fall!fifo!Reset, fall!fifo!SampleData, Reset, SampleData
  <2>2. Inv'
    BY <1>2, <2>1, NextInv DEF Next, FallInv
  <2> QED BY <1>2, <2>2 DEF fall!Reset, fall!WordAssumption, FallInv
<1>3. CASE UNCHANGED fall!vars
  <2>1. UNCHANGED vars /\ UNCHANGED stageVars
    BY <1>3 DEF fall!vars, fall!fifoVars, fall!stageVars, vars, stageVars
  <2>2. Inv'
    BY <2>1, NextInv DEF FallInv
  <2> QED BY <2>1, <2>2 DEF stageVars, FallInv
<1> QED BY <1>1, <1>2, <1>3 DEF fall!Next

\* A read of the inner FIFO puts its oldest word before the others.
LEMMA InnerMoves ==
    ASSUME Inv, TypeOK', NEW wr_en \in BOOLEAN, NEW din \in Word, NEW rd \in BOOLEAN,
           Clock(wr_en, din, rd)
    PROVE  /\ rd => Push(dout', Stored') = Written(Stored, wr_en, din)
           /\ ~rd => dout' = dout /\ Stored' = Written(Stored, wr_en, din)
<1>1. Stored \in Seq(Word)
  BY StoredIsSequence DEF Inv
<1>2. CASE rd = TRUE /\ wr_en = TRUE
  <2>1. Stored # << >> /\ dout' = Head(Stored) /\ Stored' = Append(Tail(Stored), din)
    BY <1>2, ReadWriteRotates
  <2>2. Head(Stored) \in Word /\ Tail(Stored) \in Seq(Word)
        /\ Push(Head(Stored), Tail(Stored)) = Stored
    BY <1>1, <2>1, PushHead
  <2>3. Written(Push(Head(Stored), Tail(Stored)), TRUE, din)
          = Push(Head(Stored), Written(Tail(Stored), TRUE, din))
    BY <2>2, PushFacts
  <2> QED BY <1>2, <2>1, <2>2, <2>3 DEF Written
<1>3. CASE rd = TRUE /\ wr_en = FALSE
  <2>1. Stored # << >> /\ dout' = Head(Stored) /\ Stored' = Tail(Stored)
    BY <1>3, ReadTakesHead
  <2> QED BY <1>1, <1>3, <2>1, PushHead DEF Written
<1>4. CASE rd = FALSE /\ wr_en = TRUE
  <2>1. Stored' = Append(Stored, din)
    BY <1>4, WriteAppends
  <2> QED BY <1>4, <2>1 DEF Written, Clock, SampleData
<1>5. CASE rd = FALSE /\ wr_en = FALSE
  <2>1. queue' = queue /\ rd_ptr' = rd_ptr /\ depth' = depth /\ dout' = dout
    BY <1>5 DEF Clock, SampleData, MovePointers
  <2> QED BY <1>5, <2>1 DEF Written, Stored, Window, SlotOf
<1> QED BY <1>2, <1>3, <1>4, <1>5

LEMMA BehindFacts ==
    ASSUME NEW s \in Seq(Word), NEW a \in Word, NEW av \in BOOLEAN,
           NEW wr_en \in BOOLEAN, NEW din \in Word
    PROVE  /\ Behind(av, a, s) \in Seq(Word) /\ Len(Behind(av, a, s)) = Len(s) + (IF av THEN 1 ELSE 0)
           /\ Written(Behind(av, a, s), wr_en, din) = Behind(av, a, Written(s, wr_en, din))
           /\ av => Head(Behind(av, a, s)) = a /\ Tail(Behind(av, a, s)) = s
           /\ ~av => Behind(av, a, s) = s
<1>1. CASE av
  BY <1>1, PushFacts DEF Behind
<1>2. CASE ~av
  BY <1>2, PushFacts DEF Behind
<1> QED BY <1>1, <1>2

\* A clock edge: the inner FIFO is read if rd, and the words w, m and d of the three
\* registers and S of the memory become w1, m1, d1 and S1.
Edge(S, w, m, d, fv, mv, dv, rd, wud, wum, rd_en, wr_en, din, S1, w1, m1, d1, fv1, mv1, dv1) ==
    /\ S \in Seq(Word) /\ w \in Word /\ m \in Word /\ d \in Word
    /\ fv \in BOOLEAN /\ mv \in BOOLEAN /\ dv \in BOOLEAN
    /\ rd_en \in BOOLEAN /\ wr_en \in BOOLEAN /\ din \in Word
    /\ rd \in BOOLEAN /\ (rd => ~(mv /\ dv /\ fv))
    /\ rd => Push(w1, S1) = Written(S, wr_en, din)
    /\ ~rd => w1 = w /\ S1 = Written(S, wr_en, din)
    /\ wud \in BOOLEAN /\ (wud <=> (mv \/ fv) /\ (rd_en \/ ~dv))
    /\ wum \in BOOLEAN /\ (wum <=> fv /\ (mv <=> wud))
    /\ m1 = IF wum THEN w ELSE m
    /\ d1 = IF wud THEN IF mv THEN m ELSE w ELSE d
    /\ fv1 = (rd \/ (fv /\ ~(wum \/ wud)))
    /\ mv1 = (wum \/ (mv /\ ~wud))
    /\ dv1 = (wud \/ (dv /\ ~rd_en))

\* The words before the edge, and those that a read leaves.
Left(S, w, m, d, fv, mv, dv, rd_en, items, left) ==
    /\ items = Behind(dv, d, Behind(mv, m, Behind(fv, w, S)))
    /\ left = IF rd_en /\ dv THEN Tail(items) ELSE items

\* It hands the words on in order.
LEMMA HandOn ==
    ASSUME NEW S, NEW w, NEW m, NEW d, NEW fv, NEW mv, NEW dv,
           NEW rd, NEW wud, NEW wum, NEW rd_en, NEW wr_en, NEW din,
           NEW S1, NEW w1, NEW m1, NEW d1, NEW fv1, NEW mv1, NEW dv1,
           Edge(S, w, m, d, fv, mv, dv, rd, wud, wum, rd_en, wr_en, din,
                S1, w1, m1, d1, fv1, mv1, dv1),
           NEW items, NEW left, Left(S, w, m, d, fv, mv, dv, rd_en, items, left)
    PROVE  /\ Behind(dv1, d1, Behind(mv1, m1, Behind(fv1, w1, S1))) = Written(left, wr_en, din)
           /\ d1 = IF wud THEN Head(left) ELSE d
<1>e0. /\ items = Behind(dv, d, Behind(mv, m, Behind(fv, w, S)))
       /\ left = IF rd_en /\ dv THEN Tail(items) ELSE items
  BY DEF Left
<1>t. /\ S \in Seq(Word) /\ w \in Word /\ m \in Word /\ d \in Word
      /\ fv \in BOOLEAN /\ mv \in BOOLEAN /\ dv \in BOOLEAN
      /\ rd_en \in BOOLEAN /\ wr_en \in BOOLEAN /\ din \in Word
  BY DEF Edge
<1>e1. /\ rd \in BOOLEAN /\ (rd => ~(mv /\ dv /\ fv))
       /\ rd => Push(w1, S1) = Written(S, wr_en, din)
       /\ ~rd => w1 = w /\ S1 = Written(S, wr_en, din)
  BY DEF Edge
<1>e2. /\ wud \in BOOLEAN /\ (wud <=> (mv \/ fv) /\ (rd_en \/ ~dv))
       /\ wum \in BOOLEAN /\ (wum <=> fv /\ (mv <=> wud))
       /\ m1 = (IF wum THEN w ELSE m)
       /\ d1 = (IF wud THEN IF mv THEN m ELSE w ELSE d)
  BY DEF Edge
<1>e3. /\ fv1 \in BOOLEAN /\ (fv1 <=> rd \/ (fv /\ ~(wum \/ wud)))
       /\ mv1 \in BOOLEAN /\ (mv1 <=> wum \/ (mv /\ ~wud))
       /\ dv1 \in BOOLEAN /\ (dv1 <=> wud \/ (dv /\ ~rd_en))
  BY DEF Edge
<1> USE <1>t, <1>e0, <1>e1, <1>e2, <1>e3
<1> DEFINE SW == Written(S, wr_en, din)
           W3 == Behind(fv, w, S)
           W2 == Behind(mv, m, W3)
           keep == dv /\ ~rd_en
           stay == fv /\ ~(wum \/ wud)
<1>1. /\ SW \in Seq(Word) /\ W3 \in Seq(Word) /\ Written(W3, wr_en, din) = Behind(fv, w, SW)
      /\ fv => Head(W3) = w
  BY PushFacts, BehindFacts
<1> HIDE DEF W3
<1>2. /\ W2 \in Seq(Word)
      /\ Written(W2, wr_en, din) = Behind(mv, m, Written(W3, wr_en, din))
      /\ mv => Head(W2) = m
      /\ ~mv => W2 = W3
  BY <1>1, BehindFacts
<1>3. items = Behind(dv, d, W2)
  BY DEF W3
<1> HIDE DEF W2
<1>4. /\ dv => Tail(items) = W2
      /\ Written(items, wr_en, din) = Behind(dv, d, Written(W2, wr_en, din))
      /\ ~dv => items = W2
  <2>1. W2 \in Seq(Word)
    BY <1>2
  <2>2. /\ dv => Tail(Behind(dv, d, W2)) = W2
        /\ Written(Behind(dv, d, W2), wr_en, din) = Behind(dv, d, Written(W2, wr_en, din))
        /\ ~dv => Behind(dv, d, W2) = W2
    BY <2>1, BehindFacts
  <2> QED BY <1>3, <2>2
<1>5. Written(left, wr_en, din) = Behind(keep, d, Written(W2, wr_en, din))
  <2>1. CASE keep
    BY <1>4, <2>1 DEF Behind
  <2>2. CASE ~keep
    <3>1. left = W2
      BY <1>4, <2>2
    <3> QED BY <2>2, <3>1 DEF Behind
  <2> QED BY <2>1, <2>2
<1>6. Written(left, wr_en, din) = Behind(keep, d, Behind(mv, m, Behind(fv, w, SW)))
  BY <1>1, <1>2, <1>5
<1>7. Behind(fv1, w1, S1) = Behind(stay, w, SW)
  <2>1. CASE rd
    <3>1. fv1 /\ ~stay
      BY <2>1
    <3> QED BY <2>1, <3>1 DEF Behind
  <2>2. CASE ~rd
    BY <2>2 DEF Behind
  <2> QED BY <2>1, <2>2
<1> HIDE DEF SW
<1>8. Behind(dv1, d1, Behind(mv1, m1, Behind(stay, w, SW)))
        = Behind(keep, d, Behind(mv, m, Behind(fv, w, SW)))
  BY DEF Behind
<1>9. wud => Head(left) = d1
  <2> SUFFICES ASSUME wud PROVE Head(left) = d1
    OBVIOUS
  <2>1. left = W2
    BY <1>4
  <2>2. CASE mv
    BY <1>2, <2>1, <2>2
  <2>3. CASE ~mv
    BY <1>1, <1>2, <2>1, <2>3
  <2> QED BY <2>2, <2>3
<1> QED BY <1>6, <1>7, <1>8, <1>9 DEF SW

\* The words that fallthrough_small_fifo.v holds, as a record of FwftFifo.
LEMMA ViewIs ==
    ASSUME FallInv
    PROVE  /\ fall!Words = Behind(dout_valid, fall_dout,
                              Behind(middle_valid, middle_dout, Behind(fifo_valid, dout, Stored)))
           /\ Stored \in Seq(Word) /\ Len(Stored) = depth /\ depth \in Nat
           /\ fall!FifoDepth(fall!view) = depth
<1>1. fall!fifo!Stored = Stored
  BY DEF fall!fifo!Stored, fall!fifo!Window, fall!fifo!SlotOf, Stored, Window, SlotOf
<1>2. Stored \in Seq(Word) /\ Len(Stored) = depth /\ depth \in Nat /\ dout \in Word
  BY StoredIsSequence, MaxDepthAssumption DEF FallInv, Inv, TypeOK
<1> DEFINE W3 == Behind(fifo_valid, dout, Stored)
           W2 == Behind(middle_valid, middle_dout, W3)
           W1 == Behind(dout_valid, fall_dout, W2)
<1>3. fall!Words = W1
  <2>1. fall!Words = Joined(dout_valid, fall_dout, middle_valid, middle_dout,
                            fifo_valid, dout, Stored)
    BY <1>1 DEF fall!Words, Joined
  <2> QED BY <1>2, <2>1, WordsBehind DEF FallInv
<1>4. W3 \in Seq(Word) /\ Len(W3) = depth + (IF fifo_valid THEN 1 ELSE 0)
  BY <1>2, BehindFacts DEF FallInv
<1> HIDE DEF W3
<1>5. W2 \in Seq(Word) /\ Len(W2) = Len(W3) + (IF middle_valid THEN 1 ELSE 0)
  BY <1>4, BehindFacts DEF FallInv
<1> HIDE DEF W2
<1>6. Len(W1) = Len(W2) + (IF dout_valid THEN 1 ELSE 0)
  BY <1>5, BehindFacts DEF FallInv
<1> HIDE DEF W1
<1>7. fall!FifoDepth(fall!view) = depth
  <2>1. fall!FifoDepth(fall!view) = Len(W1) - (IF fifo_valid THEN 1 ELSE 0)
           - (IF middle_valid THEN 1 ELSE 0) - (IF dout_valid THEN 1 ELSE 0)
    BY <1>3 DEF fall!FifoDepth, fall!view, fall!Count
  <2> QED BY <1>2, <1>4, <1>5, <1>6, <2>1
<1> QED BY <1>2, <1>3, <1>7 DEF W1, W2, W3

LEMMA ViewIsAfter ==
    ASSUME FallInv'
    PROVE  /\ fall!Words' = Behind(dout_valid', fall_dout',
                              Behind(middle_valid', middle_dout', Behind(fifo_valid', dout', Stored')))
           /\ Stored' \in Seq(Word)
<1>1. fall!fifo!Stored' = Stored'
  BY DEF fall!fifo!Stored, fall!fifo!Window, fall!fifo!SlotOf, Stored, Window, SlotOf
<1>2. Stored' \in Seq(Word) /\ dout' \in Word
  BY StoredIsSequenceAfter DEF FallInv, Inv, TypeOK
<1>3. fall!Words' = Joined(dout_valid', fall_dout', middle_valid', middle_dout',
                           fifo_valid', dout', Stored')
  BY <1>1 DEF fall!Words, Joined
<1> QED BY <1>2, <1>3, WordsBehind DEF FallInv

\* A clock edge of the registers is one of FwftFifo.
LEMMA ClockImplementsStep ==
    ASSUME FallInv, FallInv', NEW wr_en \in BOOLEAN, NEW rd_en \in BOOLEAN, NEW din \in Word,
           fall!Clock(wr_en, din, rd_en)
    PROVE  fall!view' = fall!Step(fall!view, wr_en, din, rd_en)
<1> DEFINE v == fall!view
           rd == fall!fifoRdEn
           wud == fall!willUpdateDout(rd_en)
           wum == fall!willUpdateMiddle(rd_en)
           left == IF rd_en /\ v.dv THEN Tail(v.items) ELSE v.items
<1>1. Clock(wr_en, din, rd) /\ rd \in BOOLEAN
  BY InnerClock
<1>2. /\ rd => Push(dout', Stored') = Written(Stored, wr_en, din)
      /\ ~rd => dout' = dout /\ Stored' = Written(Stored, wr_en, din)
  <2> HIDE DEF rd
  <2> QED BY <1>1, InnerMoves DEF FallInv, Inv
<1>3. /\ v.items = fall!Words /\ v.fv = fifo_valid /\ v.mv = middle_valid
      /\ v.dv = dout_valid /\ v.dout = fall_dout
  BY DEF fall!view
<1>4. /\ wud \in BOOLEAN /\ (wud <=> (middle_valid \/ fifo_valid) /\ (rd_en \/ ~dout_valid))
      /\ wum \in BOOLEAN /\ (wum <=> fifo_valid /\ (middle_valid <=> wud))
      /\ rd <=> depth > 0 /\ ~(middle_valid /\ dout_valid /\ fifo_valid)
  BY ViewIs DEF FallInv, fall!willUpdateDout, fall!willUpdateMiddle, fall!fifoRdEn, fall!fifo!empty
<1>5. /\ fall!will_update_dout(v, rd_en) = wud /\ fall!will_update_middle(v, rd_en) = wum
      /\ fall!fifo_rd_en(v) = rd
  <2>1. fall!will_update_dout(v, rd_en) = wud
    BY <1>3 DEF fall!will_update_dout, fall!willUpdateDout
  <2>2. fall!will_update_middle(v, rd_en) = wum
    BY <1>3, <2>1 DEF fall!will_update_middle, fall!willUpdateMiddle
  <2>3. fall!fifo_rd_en(v) <=> rd
    BY <1>3, <1>4, ViewIs DEF fall!fifo_rd_en
  <2> QED BY <1>1, <2>1, <2>2, <2>3 DEF fall!fifo_rd_en
<1>6. /\ middle_dout' = IF wum THEN dout ELSE middle_dout
      /\ fall_dout' = IF wud THEN IF middle_valid THEN middle_dout ELSE dout ELSE fall_dout
      /\ fifo_valid' = (rd \/ (fifo_valid /\ ~(wum \/ wud)))
      /\ middle_valid' = (wum \/ (middle_valid /\ ~wud))
      /\ dout_valid' = (wud \/ (dout_valid /\ ~rd_en))
  BY DEF fall!Clock, fall!MoveStages, fall!SetClear
<1>7. /\ fall!Words = Behind(dout_valid, fall_dout,
                         Behind(middle_valid, middle_dout, Behind(fifo_valid, dout, Stored)))
      /\ fall!Words' = Behind(dout_valid', fall_dout',
                         Behind(middle_valid', middle_dout', Behind(fifo_valid', dout', Stored')))
      /\ Stored \in Seq(Word) /\ Stored' \in Seq(Word) /\ dout \in Word /\ dout' \in Word
  BY ViewIs, ViewIsAfter DEF FallInv, Inv, TypeOK
<1>8. /\ fall!Words' = Written(left, wr_en, din)
      /\ fall_dout' = IF wud THEN Head(left) ELSE fall_dout
  <2>1. left = IF rd_en /\ dout_valid THEN Tail(fall!Words) ELSE fall!Words
    BY <1>3
  <2> HIDE DEF rd, wud, wum, left
  <2>2. Edge(Stored, dout, middle_dout, fall_dout, fifo_valid, middle_valid, dout_valid,
             rd, wud, wum, rd_en, wr_en, din,
             Stored', dout', middle_dout', fall_dout', fifo_valid', middle_valid', dout_valid')
    BY <1>1, <1>2, <1>4, <1>6, <1>7 DEF Edge, FallInv
  <2> DEFINE items == fall!Words
             next == Behind(dout_valid', fall_dout',
                        Behind(middle_valid', middle_dout', Behind(fifo_valid', dout', Stored')))
  <2>3. /\ Stored \in Seq(Word) /\ dout \in Word /\ middle_dout \in Word /\ fall_dout \in Word
        /\ fifo_valid \in BOOLEAN /\ middle_valid \in BOOLEAN /\ dout_valid \in BOOLEAN
    BY <1>7 DEF FallInv
  <2>4. items = Behind(dout_valid, fall_dout,
                   Behind(middle_valid, middle_dout, Behind(fifo_valid, dout, Stored)))
    BY <1>7
  <2> HIDE DEF items
  <2>5. left = IF rd_en /\ dout_valid THEN Tail(items) ELSE items
    BY <2>1 DEF items
  <2>6. /\ next = Written(left, wr_en, din)
        /\ fall_dout' = IF wud THEN Head(left) ELSE fall_dout
    <3>1. Left(Stored, dout, middle_dout, fall_dout, fifo_valid, middle_valid, dout_valid,
               rd_en, items, left)
      BY <2>4, <2>5 DEF Left
    <3>2. next = Written(left, wr_en, din)
      BY <2>2, <2>3, <3>1, HandOn
    <3>3. fall_dout' = IF wud THEN Head(left) ELSE fall_dout
      BY <2>2, <2>3, <3>1, HandOn
    <3> QED BY <3>2, <3>3
  <2> QED BY <1>7, <2>6
<1>9. fall!Step(v, wr_en, din, rd_en)
        = [items |-> Written(left, wr_en, din),
           fv |-> rd \/ (fifo_valid /\ ~(wum \/ wud)),
           mv |-> wum \/ (middle_valid /\ ~wud),
           dv |-> wud \/ (dout_valid /\ ~rd_en),
           dout |-> IF wud THEN Head(left) ELSE fall_dout]
  <2> HIDE DEF rd, wud, wum, v
  <2> QED BY <1>3, <1>5 DEF fall!Step, fall!SetClear, Written
<1>10. (IF wud THEN Head(left) ELSE fall_dout) = fall_dout'
  BY <1>8
<1>11. fall!view' = [items |-> fall!Words', fv |-> fifo_valid', mv |-> middle_valid',
                     dv |-> dout_valid', dout |-> fall_dout']
  BY DEF fall!view
<1> HIDE DEF rd, wud, wum, v, left
<1> QED BY <1>6, <1>8, <1>9, <1>10, <1>11 DEF v

LEMMA ResetEmpties ==
    ASSUME FallInv', NEW wr_en, NEW din, fall!Reset(wr_en, din)
    PROVE  fall!view' = fall!EmptyFifo(ZeroWord)
<1>1. /\ depth' = 0 /\ fifo_valid' = FALSE /\ middle_valid' = FALSE /\ dout_valid' = FALSE
      /\ fall_dout' = ZeroWord
  BY DEF fall!Reset, fall!fifo!Reset
<1>2. Stored' = << >>
  BY <1>1, StoredIsSequenceAfter DEF FallInv, Inv
<1>3. fall!Words' = << >>
  BY <1>1, <1>2, ViewIsAfter DEF Behind
<1> QED BY <1>1, <1>3 DEF fall!view, fall!EmptyFifo

\* One step of fallthrough_small_fifo.v is one of FwftFifo, or leaves its view.
LEMMA FallImplementsStep ==
    ASSUME fall!WordAssumption, FallInv, FallInv', [fall!Next]_(fall!vars)
    PROVE  fall!FwftStep \/ fall!view' = fall!view
<1>1. CASE UNCHANGED fall!vars
  BY <1>1 DEF fall!vars, fall!fifoVars, fall!stageVars, fall!view, fall!Words,
              fall!fifo!Stored, fall!fifo!Window, fall!fifo!SlotOf
<1>2. ASSUME NEW wr_en \in BOOLEAN, NEW rd_en \in BOOLEAN, NEW din \in Word,
             fall!Clock(wr_en, din, rd_en)
      PROVE  fall!view' = fall!Step(fall!view, wr_en, din, rd_en)
  BY <1>2, ClockImplementsStep
<1>3. ASSUME NEW wr_en \in BOOLEAN, NEW din \in Word, fall!Reset(wr_en, din)
      PROVE  fall!view' = fall!EmptyFifo(ZeroWord)
  BY <1>3, ResetEmpties
<1> QED BY <1>1, <1>2, <1>3 DEF fall!Next, fall!FwftStep

\* fallthrough_small_fifo.v is empty after reset.
LEMMA FallInitView ==
    ASSUME fall!WordAssumption, fall!Init
    PROVE  fall!view = fall!EmptyFifo(ZeroWord)
<1>1. /\ FallInv /\ depth = 0 /\ fall_dout = ZeroWord
      /\ fifo_valid = FALSE /\ middle_valid = FALSE /\ dout_valid = FALSE
  BY FallInitInv DEF fall!Init, fall!fifo!Init
<1>2. fall!Words = << >>
  BY <1>1, ViewIs DEF Behind
<1> QED BY <1>1, <1>2 DEF fall!view, fall!EmptyFifo

\* What runs in a step of the specification.
LEMMA UnitSteps ==
    ASSUME [MCNext]_<<unit, vars, stageVars, switchVars>>
    PROVE  /\ unit' = unit
           /\ unit = "fall" => [fall!Next]_(fall!vars)
           /\ unit = "switch" => UNCHANGED fall!vars
           /\ [switch!Next]_switchVars
<1>1. CASE MCNext
  BY <1>1 DEF MCNext, vars, stageVars, fall!vars, fall!fifoVars, fall!stageVars
<1>2. CASE UNCHANGED <<unit, vars, stageVars, switchVars>>
  BY <1>2 DEF vars, stageVars, fall!vars, fall!fifoVars, fall!stageVars
<1> QED BY <1>1, <1>2

\* fallthrough_small_fifo.v implements FwftFifo, whatever its depth and its words:
\* while its registers fill and drain in any pattern, no word is lost, repeated or
\* overtaken, and the flags and dout are those the stages rely on.
THEOREM FallthroughRefinesFwft == MCSpec => ImplementsFwft
<1> DEFINE J == unit \in {"small", "fall", "switch"} /\ (unit # "small" => FallInv)
<1>0. fall!WordAssumption
  BY CoresAssumption
<1>1. MCInit => J
  BY <1>0, FallInitInv DEF MCInit
<1>2. J /\ [MCNext]_<<unit, vars, stageVars, switchVars>> => J'
  <2> SUFFICES ASSUME J, [MCNext]_<<unit, vars, stageVars, switchVars>> PROVE J'
    OBVIOUS
  <2>1. unit # "small" => [fall!Next]_(fall!vars)
    BY UnitSteps
  <2>2. unit # "small" => FallInv'
    BY <1>0, <2>1, FallNextInv
  <2> QED BY <2>2, UnitSteps
<1>3. MCInit => fall!view = fall!EmptyFifo(ZeroWord)
  BY <1>0, FallInitView DEF MCInit
<1>4. J /\ J' /\ [MCNext]_<<unit, vars, stageVars, switchVars>>
        => [unit = "fall" => fall!FwftStep]_(fall!view)
  <2> SUFFICES ASSUME J, J', [MCNext]_<<unit, vars, stageVars, switchVars>>, unit = "fall"
               PROVE  fall!FwftStep \/ fall!view' = fall!view
    OBVIOUS
  <2>1. [fall!Next]_(fall!vars) /\ FallInv /\ FallInv'
    BY UnitSteps
  <2> QED BY <1>0, <2>1, FallImplementsStep
<1> HIDE DEF J
<1> QED BY <1>1, <1>2, <1>3, <1>4, PTL DEF MCSpec, ImplementsFwft

-----------------------------------------------------------------------------
(* The switch: each packet is given the ports that were looked up for it,  *)
(* the table is what was learned, and the ports fit into the FIFO they     *)
(* wait in.                                                                *)
(*                                                                         *)
(* The ports of a packet come a few clocks after its first beat, over the  *)
(* parser, the table and dst_port_fifo.  Together these hold one set of    *)
(* ports for each first beat in input_fifo, the packet that is being sent  *)
(* excepted, whose ports have been taken.  They are joined by order alone: *)
(* packets are numbered, and both sides hold them in the order of numbers. *)

Address == Mac \cup {NoMac}
Beat == [id : Nat, first : BOOLEAN, last : BOOLEAN, dst : Address, src : Address, port : switch!Port]
PortByte == [id : Nat, ports : SUBSET switch!Port]

LEMMA BeatFields == \A x \in Beat : x.id \in Nat /\ x.first \in BOOLEAN /\ x.last \in BOOLEAN
  BY DEF Beat

LEMMA PortByteFields == \A x \in PortByte : x.id \in Nat
  BY DEF PortByte

\* The packets of which the first beat is among the beats D.
Heads(D) == {D[i].id : i \in {j \in 1 .. Len(D) : D[j].first}}

\* The packet being sent, if its first beat has not left.
Granted(D, sending) == IF sending /\ D # << >> /\ D[1].first THEN {D[1].id} ELSE {}

\* Beats D wait, and the ports of packets W; sending says that a packet is being sent,
\* open that the newest packet, of number id, is not complete.
Paired(D, W, sending, open, id) ==
    /\ \A i \in 1 .. Len(D) - 1 :
          IF D[i].last THEN D[i + 1].first ELSE ~D[i + 1].first /\ D[i + 1].id = D[i].id
    /\ \A i, j \in 1 .. Len(D) : i < j /\ D[j].first => D[i].id < D[j].id
    /\ \A i \in 1 .. Len(D) : D[i].id <= id
    /\ D # << >> => (D[Len(D)].last <=> ~open) /\ D[Len(D)].id = id
    /\ D = << >> => (open <=> sending)
    /\ D # << >> /\ ~sending => D[1].first
    /\ Heads(D) = W \cup Granted(D, sending) /\ Granted(D, sending) \cap W = {}

\* The oldest ports are those of the oldest beat; when they are taken it may leave.
LEMMA PortsTaken ==
    ASSUME NEW D \in Seq(Beat), NEW W \in SUBSET Nat,
           NEW open, NEW id, Paired(D, W, FALSE, open, id),
           NEW w \in W, \A x \in W : w <= x
    PROVE  /\ D # << >> /\ D[1].first /\ D[1].id = w
           /\ Paired(D, W \ {w}, TRUE, open, id)
<1> USE BeatFields
<1>1. Heads(D) = W /\ Len(D) \in Nat /\ \A i \in 1 .. Len(D) : D[i].id \in Nat
  BY DEF Paired, Granted
<1>2. PICK i \in 1 .. Len(D) : D[i].first /\ D[i].id = w
  BY <1>1 DEF Heads
<1>3. D # << >> /\ D[1].first
  BY <1>2 DEF Paired
<1>4. D[1].id \in W
  BY <1>1, <1>3 DEF Heads
<1>5. D[1].id = w
  <2>1. CASE i = 1
    BY <1>2, <2>1
  <2>2. CASE i # 1
    <3>1. 1 \in 1 .. Len(D) /\ 1 < i
      BY <1>1, <2>2
    <3>2. D[1].id < D[i].id
      BY <1>2, <3>1 DEF Paired
    <3>3. w <= D[1].id /\ w \in Nat /\ D[1].id \in Nat
      BY <1>1, <1>4
    <3> QED BY <1>2, <3>2, <3>3
  <2> QED BY <2>1, <2>2
<1>6. Granted(D, TRUE) = {w}
  BY <1>3, <1>5 DEF Granted
<1>7. Heads(D) = (W \ {w}) \cup {w}
  BY <1>1
<1> QED BY <1>3, <1>5, <1>6, <1>7 DEF Paired

\* The beats behind the oldest one, with their fields.
LEMMA TailBeats ==
    ASSUME NEW D \in Seq(Beat),
           D # << >>
    PROVE  /\ Len(D) \in Nat \ {0} /\ Tail(D) \in Seq(Beat) /\ Len(Tail(D)) = Len(D) - 1
           /\ \A i \in 1 .. Len(D) - 1 : Tail(D)[i] = D[i + 1]
           /\ \A i \in 1 .. Len(D) : D[i].id \in Nat /\ D[i].first \in BOOLEAN /\ D[i].last \in BOOLEAN
<1> USE BeatFields
<1>1. Len(D) \in Nat \ {0} /\ Tail(D) \in Seq(Beat) /\ Len(Tail(D)) = Len(D) - 1
  OBVIOUS
<1>2. \A i \in 1 .. Len(D) - 1 : Tail(D)[i] = D[i + 1]
  OBVIOUS
<1>3. \A i \in 1 .. Len(D) : D[i] \in Beat
  OBVIOUS
<1> QED BY <1>1, <1>2, <1>3

\* A beat of the packet that is being sent leaves.
LEMMA BeatLeaves ==
    ASSUME NEW D \in Seq(Beat),
           NEW W \in SUBSET Nat,
           NEW open \in BOOLEAN, NEW id, Paired(D, W, TRUE, open, id), D # << >>
    PROVE  Paired(Tail(D), W, ~D[1].last, open, id)
<1> USE BeatFields
<1> DEFINE T == Tail(D)
           n == Len(D)
<1>1. /\ n \in Nat \ {0} /\ T \in Seq(Beat) /\ Len(T) = n - 1 /\ \A i \in 1 .. n - 1 : T[i] = D[i + 1]
      /\ \A i \in 1 .. n : D[i].id \in Nat /\ D[i].first \in BOOLEAN /\ D[i].last \in BOOLEAN
  BY TailBeats
<1>a. T = << >> <=> n = 1
  <2> HIDE DEF T, n
  <2>1. T = << >> <=> Len(T) = 0
    BY <1>1
  <2> QED BY <1>1, <2>1
<1>2. \A i \in 1 .. n - 1 :
          IF D[i].last THEN D[i + 1].first ELSE ~D[i + 1].first /\ D[i + 1].id = D[i].id
  BY DEF Paired
<1>3. \A i, j \in 1 .. n : i < j /\ D[j].first => D[i].id < D[j].id
  BY DEF Paired
<1>4. /\ (\A i \in 1 .. n : D[i].id <= id) /\ (D[n].last <=> ~open) /\ D[n].id = id
  BY DEF Paired
<1>5. Heads(D) = W \cup Granted(D, TRUE) /\ Granted(D, TRUE) \cap W = {}
  BY DEF Paired
<1> HIDE DEF T, n
<1>6. \A i \in 1 .. Len(T) - 1 :
          IF T[i].last THEN T[i + 1].first ELSE ~T[i + 1].first /\ T[i + 1].id = T[i].id
  <2> TAKE i \in 1 .. Len(T) - 1
  <2>1. i + 1 \in 1 .. n - 1 /\ i \in 1 .. n - 1
    BY <1>1
  <2>2. T[i] = D[i + 1] /\ T[i + 1] = D[(i + 1) + 1]
    BY <1>1, <2>1
  <2> QED BY <1>2, <2>1, <2>2
<1>7. \A i, j \in 1 .. Len(T) : i < j /\ T[j].first => T[i].id < T[j].id
  <2> SUFFICES ASSUME NEW i \in 1 .. Len(T), NEW j \in 1 .. Len(T), i < j, T[j].first
               PROVE  T[i].id < T[j].id
    OBVIOUS
  <2>1. i + 1 \in 1 .. n /\ j + 1 \in 1 .. n /\ i + 1 < j + 1 /\ T[i] = D[i + 1] /\ T[j] = D[j + 1]
    BY <1>1
  <2> QED BY <1>3, <2>1
<1>8. /\ \A i \in 1 .. Len(T) : T[i].id <= id
      /\ T # << >> => (T[Len(T)].last <=> ~open) /\ T[Len(T)].id = id
  <2>1. \A i \in 1 .. Len(T) : i + 1 \in 1 .. n /\ T[i] = D[i + 1]
    BY <1>1
  <2>2. T # << >> => Len(T) \in 1 .. Len(T) /\ Len(T) + 1 = n
    BY <1>1
  <2> QED BY <1>4, <2>1, <2>2
<1>9. /\ T = << >> => (open <=> ~D[1].last)
      /\ T # << >> => T[1] = D[2] /\ (D[1].last <=> T[1].first)
  <2>1. T = << >> => (open <=> ~D[1].last)
    BY <1>1, <1>4
  <2>2. T # << >> => T[1] = D[2] /\ (IF D[1].last THEN D[2].first ELSE ~D[2].first)
    BY <1>1, <1>2
  <2> QED BY <2>1, <2>2
<1>10. Granted(T, ~D[1].last) = {}
  BY <1>9 DEF Granted
<1>11. Heads(T) = W
  <2>1. ASSUME NEW x \in Heads(T) PROVE x \in W
    <3>1. PICK i \in 1 .. Len(T) : T[i].first /\ T[i].id = x
      BY DEF Heads
    <3>2. i + 1 \in 1 .. n /\ D[i + 1].first /\ D[i + 1].id = x
      BY <1>1, <3>1
    <3>3. x \in Heads(D)
      BY <3>2 DEF Heads, n
    <3>4. D[1].id < x
      BY <1>1, <1>3, <3>2
    <3>5. x \notin Granted(D, TRUE)
      BY <1>1, <3>4 DEF Granted
    <3> QED BY <1>5, <3>3, <3>5
  <2>2. ASSUME NEW x \in W PROVE x \in Heads(T)
    <3>1. x \in Heads(D) /\ x \notin Granted(D, TRUE)
      BY <1>5
    <3>2. PICK i \in 1 .. n : D[i].first /\ D[i].id = x
      BY <3>1 DEF Heads, n
    <3>3. i # 1
      BY <1>1, <3>1, <3>2 DEF Granted, n
    <3>4. i - 1 \in 1 .. Len(T) /\ T[i - 1] = D[i]
      BY <1>1, <3>3
    <3> QED BY <3>2, <3>4 DEF Heads
  <2> QED BY <2>1, <2>2
<1> QED BY <1>6, <1>7, <1>8, <1>9, <1>10, <1>11 DEF Paired, T

\* What beat b brings to the parser.
FirstOf(b) == IF b.first THEN {b.id} ELSE {}

\* Beat b comes next; then the newest packet is open or not.
Continues(b, open, id, after) ==
    (b.first <=> ~open) /\ b.id = (IF b.first THEN id + 1 ELSE id) /\ (b.last <=> ~after)

\* Packets W are no newer than packet id.
Upto(W, id) == W \in SUBSET Nat /\ \A x \in W : x <= id

\* A beat comes in; with the first one of a packet its header goes to the parser.
LEMMA BeatComes ==
    ASSUME NEW D \in Seq(Beat),
           NEW sending \in BOOLEAN, NEW open \in BOOLEAN, NEW id \in Nat, NEW W, Upto(W, id),
           Paired(D, W, sending, open, id),
           NEW b \in Beat, NEW after \in BOOLEAN, Continues(b, open, id, after)
    PROVE  Paired(Append(D, b), W \cup FirstOf(b), sending, after, b.id)
<1> USE BeatFields
<1> DEFINE T == Append(D, b)
           n == Len(D)
           V == W \cup FirstOf(b)
<1>u. W \in SUBSET Nat /\ \A x \in W : x <= id
  BY DEF Upto
<1>0. (b.first <=> ~open) /\ (b.first => b.id = id + 1) /\ (~b.first => b.id = id)
      /\ (b.last <=> ~after)
  BY DEF Continues
<1>1. /\ n \in Nat /\ T \in Seq(Beat) /\ Len(T) = n + 1 /\ T[n + 1] = b /\ T # << >>
      /\ \A i \in 1 .. n : T[i] = D[i]
      /\ \A i \in 1 .. n : D[i].id \in Nat /\ D[i].first \in BOOLEAN /\ D[i].last \in BOOLEAN
      /\ b.id \in Nat /\ b.first \in BOOLEAN /\ b.last \in BOOLEAN
      /\ (D = << >> <=> n = 0)
  OBVIOUS
<1>a. id <= b.id
  BY <1>0, <1>1
<1>2. /\ \A i \in 1 .. n - 1 :
            IF D[i].last THEN D[i + 1].first ELSE ~D[i + 1].first /\ D[i + 1].id = D[i].id
      /\ \A i, j \in 1 .. n : i < j /\ D[j].first => D[i].id < D[j].id
      /\ \A i \in 1 .. n : D[i].id <= id
      /\ n # 0 => (D[n].last <=> ~open) /\ D[n].id = id
      /\ n = 0 => (open <=> sending)
      /\ n # 0 /\ ~sending => D[1].first
  BY <1>1 DEF Paired
<1>3. Heads(D) = W \cup Granted(D, sending) /\ Granted(D, sending) \cap W = {}
  BY DEF Paired
<1> HIDE DEF T, n, V
<1>4. \A i \in 1 .. Len(T) - 1 :
          IF T[i].last THEN T[i + 1].first ELSE ~T[i + 1].first /\ T[i + 1].id = T[i].id
  <2> SUFFICES ASSUME NEW i \in 1 .. Len(T) - 1
               PROVE  IF T[i].last THEN T[i + 1].first ELSE ~T[i + 1].first /\ T[i + 1].id = T[i].id
    OBVIOUS
  <2>1. CASE i < n
    <3>1. i \in 1 .. n - 1 /\ i \in 1 .. n /\ i + 1 \in 1 .. n
      BY <1>1, <2>1
    <3>2. T[i] = D[i] /\ T[i + 1] = D[i + 1]
      BY <1>1, <3>1
    <3> QED BY <1>2, <3>1, <3>2
  <2>2. CASE i = n
    BY <1>0, <1>1, <1>2, <2>2
  <2> QED BY <1>1, <2>1, <2>2
<1>5. \A i, j \in 1 .. Len(T) : i < j /\ T[j].first => T[i].id < T[j].id
  <2> SUFFICES ASSUME NEW i \in 1 .. Len(T), NEW j \in 1 .. Len(T), i < j, T[j].first
               PROVE  T[i].id < T[j].id
    OBVIOUS
  <2>1. i \in 1 .. n /\ T[i] = D[i]
    BY <1>1
  <2>2. CASE j = n + 1
    BY <1>0, <1>1, <1>2, <2>1, <2>2
  <2>3. CASE j # n + 1
    BY <1>1, <1>2, <2>1, <2>3, SMTT(60)
  <2> QED BY <2>2, <2>3
<1>6. \A i \in 1 .. Len(T) : T[i].id <= b.id
  <2> SUFFICES ASSUME NEW i \in 1 .. Len(T) PROVE T[i].id <= b.id
    OBVIOUS
  <2>1. CASE i = n + 1
    BY <1>1, <2>1
  <2>2. CASE i # n + 1
    BY <1>a, <1>0, <1>1, <1>2, <2>2
  <2> QED BY <2>1, <2>2
<1>7. ~sending => T[1].first
  <2>1. CASE n = 0
    BY <1>0, <1>1, <1>2, <2>1
  <2>2. CASE n # 0
    <3>1. T[1] = D[1]
      BY <1>1, <2>2
    <3> QED BY <1>2, <2>2, <3>1
  <2> QED BY <2>1, <2>2
<1>8. Granted(T, sending) = Granted(D, sending)
  <2>1. CASE n = 0
    BY <1>0, <1>1, <1>2, <2>1 DEF Granted
  <2>2. CASE n # 0
    <3>1. T # << >> /\ D # << >> /\ T[1] = D[1]
      BY <1>1, <2>2
    <3> QED BY <3>1 DEF Granted
  <2> QED BY <2>1, <2>2
<1>9. Heads(T) = Heads(D) \cup IF b.first THEN {b.id} ELSE {}
  <2>1. Heads(T) = {T[i].id : i \in {j \in 1 .. n + 1 : T[j].first}}
    BY <1>1 DEF Heads
  <2>2. Heads(D) = {D[i].id : i \in {j \in 1 .. n : D[j].first}}
    BY DEF Heads, n
  <2>3. ASSUME NEW x \in Heads(T) PROVE x \in Heads(D) \/ (b.first /\ x = b.id)
    <3>1. PICK i \in 1 .. n + 1 : T[i].first /\ T[i].id = x
      BY <2>1
    <3>2. CASE i = n + 1
      BY <1>1, <3>1, <3>2
    <3>3. CASE i # n + 1
      <4>1. i \in 1 .. n /\ D[i].first /\ D[i].id = x
        BY <1>1, <3>1, <3>3
      <4> QED BY <2>2, <4>1
    <3> QED BY <3>2, <3>3
  <2>4. ASSUME NEW x \in Heads(D) PROVE x \in Heads(T)
    <3>1. PICK i \in 1 .. n : D[i].first /\ D[i].id = x
      BY <2>2
    <3>2. i \in 1 .. n + 1 /\ T[i].first /\ T[i].id = x
      BY <1>1, <3>1
    <3> QED BY <2>1, <3>2
  <2>5. b.first => b.id \in Heads(T)
    <3>1. n + 1 \in 1 .. n + 1 /\ T[n + 1] = b
      BY <1>1
    <3> QED BY <2>1, <3>1
  <2> QED BY <2>3, <2>4, <2>5
<1>10. Granted(D, sending) \cap V = {}
  <2>1. b.first => b.id \notin Granted(D, sending)
    <3>1. \A x \in Granted(D, sending) : x \in Nat /\ x <= id
      BY <1>1, <1>2 DEF Granted
    <3> QED BY <1>0, <3>1
  <2> QED BY <1>u, <1>3, <2>1 DEF V, FirstOf
<1>11. Heads(T) = V \cup Granted(D, sending)
  BY <1>u, <1>3, <1>9 DEF V, FirstOf
<1> QED BY <1>0, <1>1, <1>4, <1>5, <1>6, <1>7, <1>8, <1>10, <1>11 DEF Paired, T, V
-----------------------------------------------------------------------------
(* The ports on their way                                                  *)

Ids(M) == {M[k].id : k \in 1 .. Len(M)}

\* The ports of packets M wait in dst_port_fifo, those of F are found and those of P
\* looked up at this clock: each in the order of the packets, of which id is the newest.
Pipe(M, F, P, id) ==
    /\ \A k, l \in 1 .. Len(M) : k < l => M[k].id < M[l].id
    /\ \A x \in F : \A y \in Ids(M) : y < x
    /\ \A x \in P : \A y \in Ids(M) \cup F : y < x
    /\ \A x \in Ids(M) \cup F \cup P : x <= id

\* The oldest ports are the first of dst_port_fifo; without them the order is kept.
LEMMA PipeTail ==
    ASSUME NEW M \in Seq(PortByte),
           NEW F \in SUBSET Nat, NEW P \in SUBSET Nat, NEW id \in Nat, Pipe(M, F, P, id), M # << >>
    PROVE  /\ M[1].id \in Ids(M) /\ \A x \in Ids(M) \cup F \cup P : M[1].id <= x
           /\ Ids(Tail(M)) = Ids(M) \ {M[1].id} /\ M[1].id \notin F \cup P
           /\ Pipe(Tail(M), F, P, id)
<1> USE PortByteFields
<1> DEFINE n == Len(M)
           T == Tail(M)
<1>1. /\ n \in Nat \ {0} /\ T \in Seq(PortByte) /\ Len(T) = n - 1
  OBVIOUS
<1>2. \A i \in 1 .. n - 1 : T[i] = M[i + 1]
  OBVIOUS
<1>3. \A i \in 1 .. n : M[i].id \in Nat
  <2>1. \A i \in 1 .. n : M[i] \in PortByte
    OBVIOUS
  <2> QED BY <2>1
<1>4. /\ \A k, l \in 1 .. n : k < l => M[k].id < M[l].id
      /\ \A x \in F : \A y \in Ids(M) : y < x
      /\ \A x \in P : \A y \in Ids(M) \cup F : y < x
      /\ \A x \in Ids(M) \cup F \cup P : x <= id
  BY DEF Pipe
<1>5. /\ Ids(M) = {M[k].id : k \in 1 .. n} /\ Ids(T) = {T[k].id : k \in 1 .. Len(T)}
  BY DEF Ids
<1> HIDE DEF n, T
<1>6. M[1].id \in Ids(M)
  <2>1. 1 \in 1 .. n
    BY <1>1
  <2> QED BY <1>5, <2>1
<1>7. \A x \in Ids(M) \ {M[1].id} : M[1].id < x
  <2> TAKE x \in Ids(M) \ {M[1].id}
  <2>1. PICK k \in 1 .. n : M[k].id = x
    BY <1>5
  <2>2. 1 \in 1 .. n /\ 1 < k
    BY <1>1, <2>1
  <2> QED BY <1>4, <2>1, <2>2
<1>8. \A x \in F \cup P : M[1].id < x
  BY <1>4, <1>6
<1>9. Ids(M) \in SUBSET Nat /\ M[1].id \in Nat
  BY <1>3, <1>5, <1>6
<1>10. \A x \in Ids(M) \cup F \cup P : M[1].id <= x
  <2> TAKE x \in Ids(M) \cup F \cup P
  <2>1. x = M[1].id \/ M[1].id < x
    BY <1>7, <1>8
  <2>2. x \in Nat
    BY <1>9
  <2> QED BY <1>9, <2>1, <2>2
<1>11. Ids(T) = Ids(M) \ {M[1].id}
  <2>1. ASSUME NEW x \in Ids(T) PROVE x \in Ids(M) \ {M[1].id}
    <3>1. PICK k \in 1 .. Len(T) : T[k].id = x
      BY <1>5
    <3>2. k + 1 \in 1 .. n /\ T[k] = M[k + 1] /\ 1 \in 1 .. n /\ 1 < k + 1
      BY <1>1, <1>2
    <3>3. M[1].id < M[k + 1].id /\ M[k + 1].id = x
      BY <1>4, <3>1, <3>2
    <3>4. x \in Ids(M)
      BY <1>5, <3>2, <3>3
    <3> QED BY <1>9, <3>3, <3>4
  <2>2. ASSUME NEW x \in Ids(M) \ {M[1].id} PROVE x \in Ids(T)
    <3>1. PICK k \in 1 .. n : M[k].id = x
      BY <1>5
    <3>2. k # 1
      BY <3>1
    <3>3. k - 1 \in 1 .. n - 1 /\ (k - 1) + 1 = k
      BY <1>1, <3>2
    <3>4. k - 1 \in 1 .. Len(T) /\ T[k - 1].id = x
      BY <1>1, <1>2, <3>1, <3>3
    <3> QED BY <1>5, <3>4
  <2> QED BY <2>1, <2>2
<1>12. M[1].id \notin F \cup P
  BY <1>8, <1>9
<1>13. \A k, l \in 1 .. Len(T) : k < l => T[k].id < T[l].id
  <2> SUFFICES ASSUME NEW k \in 1 .. Len(T), NEW l \in 1 .. Len(T), k < l PROVE T[k].id < T[l].id
    OBVIOUS
  <2>1. k + 1 \in 1 .. n /\ l + 1 \in 1 .. n /\ k + 1 < l + 1 /\ T[k] = M[k + 1] /\ T[l] = M[l + 1]
    BY <1>1, <1>2
  <2> QED BY <1>4, <2>1
<1>14. Pipe(T, F, P, id)
  BY <1>4, <1>11, <1>13 DEF Pipe
<1> QED BY <1>6, <1>10, <1>11, <1>12, <1>14 DEF T

\* The ports that were found enter dst_port_fifo.
LEMMA PipePush ==
    ASSUME NEW M \in Seq(PortByte), NEW w \in PortByte,
           NEW P \in SUBSET Nat, NEW id \in Nat, Pipe(M, {w.id}, P, id)
    PROVE  /\ Pipe(Append(M, w), {}, P, id)
           /\ Ids(Append(M, w)) = Ids(M) \cup {w.id}
<1> USE PortByteFields
<1> DEFINE n == Len(M)
           T == Append(M, w)
<1>1. /\ \A k, l \in 1 .. n : k < l => M[k].id < M[l].id
      /\ \A y \in Ids(M) : y < w.id
      /\ \A x \in P : \A y \in Ids(M) \cup {w.id} : y < x
      /\ \A x \in Ids(M) \cup {w.id} \cup P : x <= id
      /\ Ids(M) = {M[k].id : k \in 1 .. n} /\ n \in Nat
  BY DEF Pipe, Ids
<1>2. Len(T) = n + 1 /\ T[n + 1] = w /\ \A i \in 1 .. n : T[i] = M[i]
  OBVIOUS
<1>3. Ids(T) = {T[k].id : k \in 1 .. n + 1}
  BY <1>2 DEF Ids
<1> HIDE DEF n, T
<1>4. ASSUME NEW x \in Ids(T) PROVE x \in Ids(M) \cup {w.id}
  <2>1. PICK k \in 1 .. n + 1 : T[k].id = x
    BY <1>3
  <2>2. CASE k = n + 1
    BY <1>2, <2>1, <2>2
  <2>3. CASE k # n + 1
    <3>1. k \in 1 .. n /\ T[k] = M[k]
      BY <1>1, <1>2, <2>3
    <3> QED BY <1>1, <2>1, <3>1
  <2> QED BY <2>2, <2>3
<1>5. ASSUME NEW x \in Ids(M) PROVE x \in Ids(T)
  <2>1. PICK k \in 1 .. n : M[k].id = x
    BY <1>1
  <2>2. k \in 1 .. n + 1 /\ T[k].id = x
    BY <1>1, <1>2, <2>1
  <2> QED BY <1>3, <2>2
<1>6. w.id \in Ids(T)
  <2>1. n + 1 \in 1 .. n + 1
    BY <1>1
  <2> QED BY <1>2, <1>3, <2>1
<1>7. Ids(T) = Ids(M) \cup {w.id}
  BY <1>4, <1>5, <1>6
<1>8. \A k, l \in 1 .. Len(T) : k < l => T[k].id < T[l].id
  <2> SUFFICES ASSUME NEW k \in 1 .. Len(T), NEW l \in 1 .. Len(T), k < l PROVE T[k].id < T[l].id
    OBVIOUS
  <2>1. k \in 1 .. n /\ T[k] = M[k]
    BY <1>1, <1>2
  <2>2. M[k].id \in Ids(M)
    BY <1>1, <2>1
  <2>3. CASE l = n + 1
    BY <1>1, <1>2, <2>1, <2>2, <2>3
  <2>4. CASE l # n + 1
    <3>1. l \in 1 .. n /\ T[l] = M[l]
      BY <1>1, <1>2, <2>4
    <3> QED BY <1>1, <2>1, <3>1
  <2> QED BY <2>3, <2>4
<1>9. Pipe(T, {}, P, id)
  BY <1>1, <1>7, <1>8 DEF Pipe
<1> QED BY <1>7, <1>9 DEF T

\* The lookup is done, and a header, if one has come, is the newest.
LEMMA PipeShift ==
    ASSUME NEW M, Ids(M) \in SUBSET Nat, NEW P \in SUBSET Nat, NEW Q \in SUBSET Nat,
           NEW id \in Nat, NEW new \in Nat, id <= new,
           Pipe(M, {}, P, id), \A x \in Q : x = new /\ id < new
    PROVE  Pipe(M, P, Q, new)
<1>1. \A y \in Ids(M) \cup P : y \in Nat /\ y <= id
  BY DEF Pipe
<1>2. \A x \in Q : \A y \in Ids(M) \cup P : y < x
  BY <1>1
<1>3. \A x \in Ids(M) \cup P \cup Q : x <= new
  <2>1. \A x \in Q : x <= new
    OBVIOUS
  <2>2. ASSUME NEW x \in Ids(M) \cup P PROVE x <= new
    <3>1. x \in Nat /\ x <= id
      BY <1>1
    <3> QED BY <3>1
  <2> QED BY <2>1, <2>2
<1> QED BY <1>2, <1>3 DEF Pipe

\* There are no more ports in dst_port_fifo than beats in input_fifo, if each belongs to
\* a first beat there.
LEMMA FewPorts ==
    ASSUME NEW D \in Seq(Beat), NEW M \in Seq(PortByte),
           \A k, l \in 1 .. Len(M) : k < l => M[k].id < M[l].id, Ids(M) \subseteq Heads(D)
    PROVE  Len(M) <= Len(D)
<1> USE BeatFields, PortByteFields
<1> DEFINE m == Len(M)
           n == Len(D)
           f == [k \in 1 .. m |-> CHOOSE i \in 1 .. n : D[i].id = M[k].id]
<1>1. m \in Nat /\ n \in Nat /\ \A k \in 1 .. m : M[k].id \in Nat
  <2>1. \A k \in 1 .. m : M[k] \in PortByte
    OBVIOUS
  <2> QED BY <2>1
<1>2. \A k \in 1 .. m : \E i \in 1 .. n : D[i].id = M[k].id
  <2> TAKE k \in 1 .. m
  <2>1. M[k].id \in Heads(D)
    BY DEF Ids
  <2> QED BY <2>1 DEF Heads
<1>3. f \in [1 .. m -> 1 .. n] /\ \A k \in 1 .. m : D[f[k]].id = M[k].id
  BY <1>2
<1>4. IsFiniteSet(1 .. m) /\ IsFiniteSet(1 .. n) /\ Cardinality(1 .. m) = m /\ Cardinality(1 .. n) = n
  <2> HIDE DEF m, n, f
  <2>1. 1 \in Int /\ m \in Int /\ n \in Int
    BY <1>1
  <2>2. Cardinality(1 .. m) = (IF 1 > m THEN 0 ELSE m - 1 + 1) /\ IsFiniteSet(1 .. m)
    BY <2>1, FS_Interval
  <2>3. Cardinality(1 .. n) = (IF 1 > n THEN 0 ELSE n - 1 + 1) /\ IsFiniteSet(1 .. n)
    BY <2>1, FS_Interval
  <2> QED BY <1>1, <2>2, <2>3
<1>5. \A k, l \in 1 .. m : k < l => M[k].id < M[l].id
  OBVIOUS
<1> HIDE DEF m, n, f
<1>6. SUFFICES ASSUME n < m PROVE FALSE
  BY <1>1 DEF m, n
<1>7. PICK k \in 1 .. m, l \in 1 .. m : k # l /\ f[k] = f[l]
  <2> DEFINE S == 1 .. m
             T == 1 .. n
  <2>1. f \in [S -> T] /\ IsFiniteSet(S) /\ IsFiniteSet(T) /\ Cardinality(T) < Cardinality(S)
    BY <1>3, <1>4, <1>6
  <2> HIDE DEF S, T
  <2>2. \E k, l \in S : k # l /\ f[k] = f[l]
    BY <2>1, FS_PigeonHole
  <2> QED BY <2>2 DEF S
<1>8. M[k].id = M[l].id
  BY <1>3, <1>7
<1>9. k < l \/ l < k
  BY <1>7
<1> QED BY <1>1, <1>5, <1>8, <1>9
-----------------------------------------------------------------------------
(* The state of the switch                                                 *)

Entry == [mac : Address, ports : SUBSET switch!Port]

Parsed == IF parser.eth_done THEN {parser.beat.id} ELSE {}
Found == IF found.lookup_done THEN {found.id} ELSE {}
Waits == Ids(dst_port_fifo.items) \cup Found \cup Parsed
Sending == state = "SEND_STATE"
Open == src.beats # 0

SwitchShape ==
    /\ src.id \in Nat /\ src.beats \in Nat
    /\ src.header \in [dst : Address, src : Address, port : switch!Port]
    /\ parser.state = IF Open THEN "WAIT_EOP" ELSE "READ_MAC_ADDRESSES"
    /\ parser.eth_done \in BOOLEAN /\ parser.beat \in Beat
    /\ parser.eth_done => parser.beat.src \in Mac
    /\ found \in [lookup_done : BOOLEAN, hit : BOOLEAN, id : Nat, ports : SUBSET switch!Port]
    /\ state \in {"WAIT_STATE", "SEND_STATE"}
    /\ lut \in [switch!Slot -> Entry] /\ lut_wr_addr \in switch!Slot

\* Words wait in the memory of a FIFO only behind others that wait in its registers.
Fresh(f) == FifoDepth(f) >= 2 => OutOf(f) >= 2

LEMMA StepFresh ==
    ASSUME NEW Datum, NEW f, Sound(f, Datum), Fresh(f), NEW wr_en \in BOOLEAN, NEW din,
           NEW rd_en \in BOOLEAN, NEW g, NEW left, Moved(f, wr_en, din, rd_en, g, left),
           FifoDepth(g) = FifoDepth(f) + Count(wr_en) - Count(fifo_rd_en(f))
    PROVE  Fresh(g)
<1> DEFINE d == FifoDepth(f)  o == OutOf(f)  load == fifo_rd_en(f)  e == FifoDepth(g)
           p == OutOf(g)  l == Len(f.items)
<1>1. d \in Nat /\ o \in 0 .. 3 /\ d = l - o /\ l \in Nat
  BY OutOfFlags
<1>2. load <=> o < 3 /\ o < l
  BY LoadCondition
<1>3. p = o + Count(load) - Count(rd_en)
  BY DEF Moved
<1>4. /\ Count(wr_en) \in {0, 1} /\ Count(rd_en) \in {0, 1}
      /\ Count(load) = IF o < 3 /\ o < l THEN 1 ELSE 0
  BY <1>2 DEF Count
<1>5. (d >= 2 => o >= 2) /\ e = d + Count(wr_en) - Count(load)
  BY DEF Fresh
<1> HIDE DEF d, o, load, e, p, l
<1>6. e >= 2 => p >= 2
  BY <1>1, <1>3, <1>4, <1>5
<1> QED BY <1>6 DEF e, p, Fresh

\* Both FIFOs are sound.
SwitchFifos ==
    /\ Sound(input_fifo, Beat) /\ Shown(input_fifo) /\ Fresh(input_fifo)
    /\ Sound(dst_port_fifo, PortByte) /\ Shown(dst_port_fifo) /\ Fresh(dst_port_fifo)
    /\ FifoDepth(input_fifo) <= MAX_DEPTH - 1

SwitchInv ==
    /\ SwitchShape /\ SwitchFifos
    /\ Pipe(dst_port_fifo.items, Found, Parsed, src.id)
    /\ Paired(input_fifo.items, Waits, Sending, Open, src.id)

\* The FIFOs of the switch are those of the lemmas.
LEMMA SwitchFifo ==
    /\ \A f, w, x, r : switch!Step(f, w, x, r) = Step(f, w, x, r)
    /\ \A f : switch!IsEmpty(f) = IsEmpty(f) /\ switch!FifoDepth(f) = FifoDepth(f)
    /\ \A w : switch!EmptyFifo(w) = EmptyFifo(w)
    /\ \A b : switch!Count(b) = Count(b)
BY DEF switch!Step, Step, switch!IsEmpty, IsEmpty, switch!FifoDepth, FifoDepth,
       switch!EmptyFifo, EmptyFifo, switch!Count, Count,
       switch!SetClear, SetClear, switch!will_update_dout, will_update_dout,
       switch!will_update_middle, will_update_middle, switch!fifo_rd_en, fifo_rd_en

\* A set of slots that is not empty has a last one.
LEMMA LastSlot ==
    ASSUME NEW S \in SUBSET switch!Slot, S # {}
    PROVE  switch!Max(S) \in S
<1> DEFINE T == {LUT_DEPTH - 1 - i : i \in S}
<1>1. LUT_DEPTH \in Nat \ {0} /\ \A i \in S : i \in 0 .. LUT_DEPTH - 1
  BY CoresAssumption DEF switch!SwitchAssumption, switch!Slot
<1>2. T \in SUBSET Nat /\ T # {}
  BY <1>1
<1> HIDE DEF T
<1>3. PICK x \in T : \A y \in T : x <= y
  BY <1>2, Least
<1>4. PICK i \in S : x = LUT_DEPTH - 1 - i
  BY <1>3 DEF T
<1>5. ASSUME NEW j \in S PROVE i >= j
  <2>1. LUT_DEPTH - 1 - j \in T
    BY DEF T
  <2>2. LUT_DEPTH - 1 - i <= LUT_DEPTH - 1 - j
    BY <1>3, <1>4, <2>1
  <2> QED BY <1>1, <2>2
<1> QED BY <1>5 DEF switch!Max

\* The ports found are ports.
LEMMA PortsType ==
    ASSUME lut \in [switch!Slot -> Entry], NEW h
    PROVE  switch!Ports(h) \in SUBSET switch!Port
<1> DEFINE S == switch!Matches(h.dst)
<1>1. CASE S = {}
  BY <1>1 DEF switch!Ports, switch!DEFAULT_MISS_OUTPUT_PORTS, switch!Port
<1>2. CASE S # {}
  <2>1. S \in SUBSET switch!Slot
    BY DEF switch!Matches
  <2> HIDE DEF S
  <2>2. switch!Max(S) \in switch!Slot
    BY <1>2, <2>1, LastSlot
  <2>3. lut[switch!Max(S)].ports \in SUBSET switch!Port
    BY <2>2 DEF Entry
  <2> QED BY <1>2, <2>3 DEF switch!Ports, S
<1> QED BY <1>1, <1>2

-----------------------------------------------------------------------------
(* A clock edge                                                            *)

\* What the source may offer.
Offered(b) == /\ b \in Beat /\ (b.first <=> ~Open)
              /\ b.id = IF b.first THEN src.id + 1 ELSE src.id
              /\ b.first => b.src \in Mac

\* The beat on the slave stream is taken, that of the master stream, and the ports.
TakenIn(tvalid) == tvalid /\ FifoDepth(input_fifo) < MAX_DEPTH - 1
TakenOut(tready) == input_fifo.dv /\ (Sending \/ dst_port_fifo.dv) /\ tready
PortsOut == ~Sending /\ dst_port_fifo.dv

LEMMA OfferFacts ==
    ASSUME SwitchShape, NEW b \in switch!Offers
    PROVE  Offered(b)
<1>1. PICK l \in BOOLEAN, h \in (IF src.beats = 0 THEN Headers ELSE {src.header}) :
          b = switch!beatOf(src.id + switch!Count(src.beats = 0), src.beats = 0, l, h)
  BY DEF switch!Offers
<1>2. /\ h \in [dst : Address, src : Address, port : switch!Port]
      /\ src.beats = 0 => h.src \in Mac
  BY <1>1, CoresAssumption DEF switch!SwitchAssumption, switch!Header, SwitchShape, Address
<1>3. /\ b.id = src.id + switch!Count(src.beats = 0) /\ b.first = (src.beats = 0) /\ b.last = l
      /\ b.dst = h.dst /\ b.src = h.src /\ b.port = h.port
      /\ b = [id |-> b.id, first |-> b.first, last |-> b.last, dst |-> b.dst, src |-> b.src,
              port |-> b.port]
  BY <1>1 DEF switch!beatOf
<1>4. b.id = IF b.first THEN src.id + 1 ELSE src.id
  <2>1. src.id \in Nat
    BY DEF SwitchShape
  <2>2. CASE src.beats = 0
    BY <1>3, <2>1, <2>2 DEF switch!Count
  <2>3. CASE src.beats # 0
    <3>1. b.first = FALSE /\ b.id = src.id + 0
      BY <1>3, <2>3 DEF switch!Count
    <3> QED BY <2>1, <3>1
  <2> QED BY <2>2, <2>3
<1>5. b.id \in Nat /\ b.first \in BOOLEAN /\ b.last \in BOOLEAN
  BY <1>3, <1>4 DEF SwitchShape
<1> QED BY <1>2, <1>3, <1>4, <1>5 DEF Offered, Beat, Open

\* A clock edge, register by register.
LEMMA SwitchEdge ==
    ASSUME SwitchShape, SwitchFifos, NEW tvalid \in BOOLEAN, NEW b \in Beat, tvalid => Offered(b),
           NEW tready \in BOOLEAN, NEW clear, switch!Clock(tvalid, b, tready, FALSE, clear)
    PROVE  LET in == TakenIn(tvalid)
               out == TakenOut(tready)
           IN  /\ in \in BOOLEAN /\ out \in BOOLEAN /\ PortsOut \in BOOLEAN
               /\ input_fifo' = Step(input_fifo, in, b, out)
               /\ dst_port_fifo' = Step(dst_port_fifo, found.lookup_done,
                                        [id |-> found.id, ports |-> found.ports], PortsOut)
               /\ state' \in {"WAIT_STATE", "SEND_STATE"}
               /\ Sending' <=> (Sending \/ PortsOut) /\ ~(out /\ input_fifo.dout.last)
               /\ Parsed' = IF in THEN FirstOf(b) ELSE {}
               /\ Found' = Parsed
               /\ src'.id = (IF in THEN b.id ELSE src.id)
               /\ Open' = IF in THEN ~b.last ELSE Open
<1> DEFINE in == TakenIn(tvalid)
           out == TakenOut(tready)
<1>1. /\ input_fifo.dv \in BOOLEAN /\ dst_port_fifo.dv \in BOOLEAN /\ input_fifo.dout.last \in BOOLEAN
      /\ FifoDepth(input_fifo) \in Int /\ MAX_DEPTH \in Int
  <2>1. input_fifo \in FifoOf(Beat) /\ dst_port_fifo \in FifoOf(PortByte)
    BY DEF SwitchFifos, Sound
  <2>2. FifoDepth(input_fifo) \in Int
    BY OutOfFlags DEF SwitchFifos
  <2> QED BY <2>1, <2>2, MaxDepthAssumption DEF FifoOf, Beat
<1>2. in = (tvalid /\ ~switch!in_fifo_nearly_full) /\ in \in BOOLEAN
  BY <1>1, SwitchFifo DEF TakenIn, switch!in_fifo_nearly_full
<1>3. out = switch!Sent(tready) /\ out \in BOOLEAN
  BY <1>1 DEF TakenOut, switch!Sent, switch!m_axis_tvalid, switch!send_packet, switch!IsEmpty,
              SwitchShape, Sending
<1>4. PortsOut = switch!dst_port_rd /\ PortsOut \in BOOLEAN
  BY <1>1 DEF PortsOut, switch!dst_port_rd, switch!IsEmpty, SwitchShape, Sending
<1>5. /\ input_fifo' = Step(input_fifo, in, b, out)
      /\ dst_port_fifo' = Step(dst_port_fifo, found.lookup_done,
                               [id |-> found.id, ports |-> found.ports], PortsOut)
  BY <1>2, <1>3, <1>4, SwitchFifo, Zenon DEF switch!Clock
<1>6. /\ switch!Parse(in, b) /\ switch!LookUp(FALSE) /\ switch!StateStep(tready)
      /\ src' = IF ~in THEN src
                ELSE [id |-> b.id, beats |-> IF b.last THEN 0 ELSE src.beats + 1,
                      header |-> IF b.last THEN switch!NoHeader
                                 ELSE [dst |-> b.dst, src |-> b.src, port |-> b.port]]
  BY <1>2, Zenon DEF switch!Clock
<1>7. /\ state' \in {"WAIT_STATE", "SEND_STATE"}
      /\ Sending' <=> (Sending \/ PortsOut) /\ ~(out /\ input_fifo.dout.last)
  <2>1. /\ state' = IF input_fifo.dout.last /\ out THEN "WAIT_STATE"
                    ELSE IF state = "SEND_STATE" \/ dst_port_fifo.dv THEN "SEND_STATE" ELSE state
        /\ state \in {"WAIT_STATE", "SEND_STATE"}
    BY <1>1, <1>3, <1>6 DEF switch!StateStep, switch!m_axis_tlast, switch!send_packet, switch!IsEmpty,
                       SwitchShape
  <2> HIDE DEF out
  <2> QED BY <1>1, <1>3, <2>1 DEF Sending, PortsOut
<1> HIDE DEF in, out
<1>8. Parsed' = IF in THEN FirstOf(b) ELSE {}
  <2>1. parser.state = IF Open THEN "WAIT_EOP" ELSE "READ_MAC_ADDRESSES"
    BY DEF SwitchShape
  <2>2. in => (b.first <=> ~Open)
    BY DEF TakenIn, Offered, in
  <2>3. /\ parser'.eth_done = (in /\ parser.state = "READ_MAC_ADDRESSES")
        /\ parser'.beat = IF in /\ parser.state = "READ_MAC_ADDRESSES" THEN b ELSE switch!NoBeat
    BY <1>6 DEF switch!Parse
  <2> QED BY <2>1, <2>2, <2>3 DEF Parsed, FirstOf
<1>9. Found' = Parsed
  <2>1. /\ found'.lookup_done = parser.eth_done
        /\ parser.eth_done => found'.id = parser.beat.id
    BY <1>6 DEF switch!LookUp, SwitchShape
  <2> QED BY <2>1 DEF Found, Parsed
<1>10. /\ src'.id = (IF in THEN b.id ELSE src.id)
       /\ Open' = IF in THEN ~b.last ELSE Open
  <2>1. src.beats \in Nat /\ b.last \in BOOLEAN
    BY DEF SwitchShape, Beat
  <2> QED BY <1>6, <2>1 DEF Open
<1> QED BY <1>2, <1>3, <1>4, <1>5, <1>7, <1>8, <1>9, <1>10, Zenon DEF in, out

\* A clock edge keeps the registers well typed.
LEMMA SwitchShapeNext ==
    ASSUME SwitchShape, SwitchFifos, NEW tvalid \in BOOLEAN, NEW b \in Beat, tvalid => Offered(b),
           NEW tready \in BOOLEAN, NEW clear, switch!Clock(tvalid, b, tready, FALSE, clear)
    PROVE  SwitchShape'
<1> DEFINE in == TakenIn(tvalid)
<1>1. in \in BOOLEAN /\ state' \in {"WAIT_STATE", "SEND_STATE"} /\ Open' = IF in THEN ~b.last ELSE Open
  BY SwitchEdge
<1>2. /\ switch!Parse(in, b) /\ switch!LookUp(FALSE) /\ switch!Learn(FALSE)
      /\ src' = IF ~in THEN src
                ELSE [id |-> b.id, beats |-> IF b.last THEN 0 ELSE src.beats + 1,
                      header |-> IF b.last THEN switch!NoHeader
                                 ELSE [dst |-> b.dst, src |-> b.src, port |-> b.port]]
  <2>1. in = (tvalid /\ ~switch!in_fifo_nearly_full)
    <3>1. FifoDepth(input_fifo) \in Int /\ MAX_DEPTH \in Int
      BY OutOfFlags, MaxDepthAssumption DEF SwitchFifos
    <3> QED BY <3>1, SwitchFifo DEF TakenIn, switch!in_fifo_nearly_full
  <2> QED BY <2>1, Zenon DEF switch!Clock
<1>3. in => Offered(b)
  BY DEF TakenIn
<1> HIDE DEF in
<1>4. /\ b.id \in Nat /\ b.first \in BOOLEAN /\ b.last \in BOOLEAN /\ b.dst \in Address
      /\ b.src \in Address /\ b.port \in switch!Port
  BY DEF Beat
<1>5. /\ src'.id \in Nat /\ src'.beats \in Nat
      /\ src'.header \in [dst : Address, src : Address, port : switch!Port]
  BY <1>2, <1>4 DEF SwitchShape, switch!NoHeader, switch!Port, Address
<1>6. switch!NoBeat \in Beat
  BY DEF switch!NoBeat, switch!beatOf, switch!NoHeader, Beat, Address, switch!Port
<1>7. /\ parser'.eth_done \in BOOLEAN /\ parser'.beat \in Beat
      /\ parser'.eth_done => parser'.beat.src \in Mac
      /\ parser'.state = IF Open' THEN "WAIT_EOP" ELSE "READ_MAC_ADDRESSES"
  <2>1. /\ parser.state = (IF Open THEN "WAIT_EOP" ELSE "READ_MAC_ADDRESSES")
        /\ Open \in BOOLEAN
    BY DEF SwitchShape, Open
  <2>2. /\ parser'.state = (IF ~in THEN parser.state
                            ELSE IF b.last THEN "READ_MAC_ADDRESSES" ELSE "WAIT_EOP")
        /\ parser'.eth_done = (in /\ parser.state = "READ_MAC_ADDRESSES")
        /\ parser'.beat = IF in /\ parser.state = "READ_MAC_ADDRESSES" THEN b ELSE switch!NoBeat
    BY <1>2 DEF switch!Parse
  <2>3. in => (b.first <=> ~Open) /\ (b.first => b.src \in Mac)
    BY <1>3 DEF Offered
  <2> QED BY <1>1, <1>4, <1>6, <2>1, <2>2, <2>3
<1>8. found' \in [lookup_done : BOOLEAN, hit : BOOLEAN, id : Nat, ports : SUBSET switch!Port]
  <2>1. switch!Ports(parser.beat) \in SUBSET switch!Port
    BY PortsType DEF SwitchShape
  <2>2. parser.eth_done \in BOOLEAN /\ parser.beat.id \in Nat
    BY DEF SwitchShape, Beat
  <2>3. found' = IF ~parser.eth_done THEN [found EXCEPT !.lookup_done = FALSE, !.hit = FALSE]
                 ELSE [lookup_done |-> TRUE, hit |-> switch!Matches(parser.beat.dst) # {},
                       id |-> parser.beat.id, ports |-> switch!Ports(parser.beat)]
    BY <1>2 DEF switch!LookUp
  <2> QED BY <2>1, <2>2, <2>3 DEF SwitchShape
<1>9. lut' \in [switch!Slot -> Entry] /\ lut_wr_addr' \in switch!Slot
  <2>1. /\ lut \in [switch!Slot -> Entry] /\ lut_wr_addr \in switch!Slot
        /\ parser.beat.src \in Address /\ parser.beat.port \in switch!Port
    BY DEF SwitchShape, Beat
  <2>2. [mac |-> parser.beat.src, ports |-> {parser.beat.port}] \in Entry
    BY <2>1 DEF Entry
  <2>3. (lut_wr_addr + 1) % LUT_DEPTH \in switch!Slot
    BY <2>1, CoresAssumption DEF switch!SwitchAssumption, switch!Slot
  <2> QED BY <1>2, <2>1, <2>2, <2>3 DEF switch!Learn
<1> QED BY <1>1, <1>5, <1>7, <1>8, <1>9 DEF SwitchShape, Open

\* A clock edge keeps the FIFOs sound: beats are only taken below the last word of the
\* memory, and ports that wait in the memory of dst_port_fifo have others before them.
LEMMA SwitchFifosNext ==
    ASSUME SwitchShape, SwitchFifos, NEW tvalid \in BOOLEAN, NEW b \in Beat, tvalid => Offered(b),
           NEW tready \in BOOLEAN, NEW clear, switch!Clock(tvalid, b, tready, FALSE, clear)
    PROVE  /\ SwitchFifos'
           /\ LET D == input_fifo.items
                  left == IF TakenOut(tready) THEN Tail(D) ELSE D
              IN  /\ left \in Seq(Beat)
                  /\ input_fifo'.items = IF TakenIn(tvalid) THEN Append(left, b) ELSE left
           /\ LET M == dst_port_fifo.items
                  left == IF PortsOut THEN Tail(M) ELSE M
                  w == [id |-> found.id, ports |-> found.ports]
              IN  /\ left \in Seq(PortByte) /\ w \in PortByte
                  /\ dst_port_fifo'.items = IF found.lookup_done THEN Append(left, w) ELSE left
<1> DEFINE in == TakenIn(tvalid)
           out == TakenOut(tready)
           w == [id |-> found.id, ports |-> found.ports]
<1>1. /\ in \in BOOLEAN /\ out \in BOOLEAN /\ PortsOut \in BOOLEAN
      /\ input_fifo' = Step(input_fifo, in, b, out)
      /\ dst_port_fifo' = Step(dst_port_fifo, found.lookup_done, w, PortsOut)
  BY SwitchEdge
<1>2. w \in PortByte /\ found.lookup_done \in BOOLEAN
  BY DEF SwitchShape, PortByte
<1>3. (out => input_fifo.dv) /\ (PortsOut => dst_port_fifo.dv) /\ (in => FifoDepth(input_fifo) < MAX_DEPTH - 1)
  BY DEF TakenOut, PortsOut, TakenIn
<1>4. /\ Sound(input_fifo, Beat) /\ Shown(input_fifo) /\ FifoDepth(input_fifo) <= MAX_DEPTH - 1
      /\ Sound(dst_port_fifo, PortByte) /\ Shown(dst_port_fifo)
  BY DEF SwitchFifos
<1> HIDE DEF in, out, w
<1>5. LET left == IF out THEN Tail(input_fifo.items) ELSE input_fifo.items
      IN  left \in Seq(Beat) /\ Moved(input_fifo, in, b, out, input_fifo', left)
  BY <1>1, <1>3, <1>4, StepMoves, Zenon
<1>6. LET left == IF PortsOut THEN Tail(dst_port_fifo.items) ELSE dst_port_fifo.items
      IN  left \in Seq(PortByte)
          /\ Moved(dst_port_fifo, found.lookup_done, w, PortsOut, dst_port_fifo', left)
  BY <1>1, <1>2, <1>3, <1>4, StepMoves, Zenon
<1>7. /\ Sound(input_fifo', Beat)
      /\ FifoDepth(input_fifo') = FifoDepth(input_fifo) + Count(in) - Count(fifo_rd_en(input_fifo))
  <2>1. LET g == Step(input_fifo, in, b, out)
        IN  Sound(g, Beat)
            /\ FifoDepth(g) = FifoDepth(input_fifo) + Count(in) - Count(fifo_rd_en(input_fifo))
    BY <1>1, <1>4, StepSound
  <2> QED BY <1>1, <2>1
<1>8. /\ Sound(dst_port_fifo', PortByte)
      /\ FifoDepth(dst_port_fifo') = FifoDepth(dst_port_fifo) + Count(found.lookup_done)
                                         - Count(fifo_rd_en(dst_port_fifo))
  <2>1. LET g == Step(dst_port_fifo, found.lookup_done, w, PortsOut)
        IN  Sound(g, PortByte)
            /\ FifoDepth(g) = FifoDepth(dst_port_fifo) + Count(found.lookup_done)
                                   - Count(fifo_rd_en(dst_port_fifo))
    BY <1>1, <1>2, <1>4, StepSound
  <2> QED BY <1>1, <2>1
<1>9. FifoDepth(input_fifo') <= MAX_DEPTH - 1
  <2>1. FifoDepth(input_fifo) \in Nat
    BY <1>4, OutOfFlags
  <2>2. Count(fifo_rd_en(input_fifo)) \in {0, 1} /\ Count(in) = (IF in THEN 1 ELSE 0)
    BY DEF Count
  <2>3. MAX_DEPTH \in Int
    BY MaxDepthAssumption
  <2> QED BY <1>1, <1>3, <1>4, <1>7, <2>1, <2>2, <2>3
<1>10. Fresh(input_fifo') /\ Fresh(dst_port_fifo')
  <2>1. Fresh(input_fifo) /\ Fresh(dst_port_fifo)
    BY DEF SwitchFifos
  <2>2. \A f, g, wr_en, din, rd_en, left :
            Fresh(f) /\ wr_en \in BOOLEAN /\ rd_en \in BOOLEAN /\ Moved(f, wr_en, din, rd_en, g, left)
                /\ FifoDepth(g) = FifoDepth(f) + Count(wr_en) - Count(fifo_rd_en(f))
                => /\ Sound(f, Beat) => Fresh(g)
                   /\ Sound(f, PortByte) => Fresh(g)
    BY StepFresh
  <2> QED BY <1>1, <1>2, <1>4, <1>5, <1>6, <1>7, <1>8, <2>1, <2>2, Zenon
<1>11. Shown(input_fifo') /\ Shown(dst_port_fifo')
  BY <1>5, <1>6, Zenon DEF Moved
<1>12. SwitchFifos'
  BY <1>7, <1>8, <1>9, <1>10, <1>11 DEF SwitchFifos, FifoDepth, OutOf, Shown, Fresh
<1>13. LET left == IF out THEN Tail(input_fifo.items) ELSE input_fifo.items
       IN  left \in Seq(Beat) /\ input_fifo'.items = IF in THEN Append(left, b) ELSE left
  BY <1>5 DEF Moved
<1>14. LET left == IF PortsOut THEN Tail(dst_port_fifo.items) ELSE dst_port_fifo.items
       IN  left \in Seq(PortByte)
           /\ dst_port_fifo'.items = IF found.lookup_done THEN Append(left, w) ELSE left
  BY <1>6 DEF Moved
<1> QED BY <1>2, <1>12, <1>13, <1>14, Zenon DEF in, out, w

\* The ports move on in the order of their packets.
LEMMA SwitchPipeNext ==
    ASSUME SwitchInv, NEW tvalid \in BOOLEAN, NEW b \in Beat, tvalid => Offered(b),
           NEW tready \in BOOLEAN, NEW clear, switch!Clock(tvalid, b, tready, FALSE, clear)
    PROVE  LET M == dst_port_fifo.items
           IN  /\ Pipe(dst_port_fifo'.items, Found', Parsed', src'.id)
               /\ Waits' = (Waits \ (IF PortsOut THEN {M[1].id} ELSE {}))
                               \cup (IF TakenIn(tvalid) THEN FirstOf(b) ELSE {})
               /\ PortsOut => M[1].id \in Waits /\ \A x \in Waits : M[1].id <= x
               /\ Waits \in SUBSET Nat /\ \A x \in Waits : x <= src.id
<1> DEFINE in == TakenIn(tvalid)
           M == dst_port_fifo.items
           w == [id |-> found.id, ports |-> found.ports]
           T == IF PortsOut THEN Tail(M) ELSE M
           Q == IF in THEN FirstOf(b) ELSE {}
           new == IF in THEN b.id ELSE src.id
           id == src.id
<1>1. SwitchShape /\ SwitchFifos /\ Pipe(M, Found, Parsed, id)
  BY DEF SwitchInv
<1>2. /\ in \in BOOLEAN /\ PortsOut \in BOOLEAN /\ Parsed' = Q /\ Found' = Parsed
      /\ src'.id = IF in THEN b.id ELSE id
  BY <1>1, SwitchEdge
<1>3. /\ T \in Seq(PortByte) /\ w \in PortByte
      /\ dst_port_fifo'.items = IF found.lookup_done THEN Append(T, w) ELSE T
  BY <1>1, SwitchFifosNext
<1>4. M \in Seq(PortByte) /\ (PortsOut => M # << >>)
  BY <1>1 DEF SwitchFifos, Sound, FifoOf, Shown, PortsOut
<1>5. /\ Parsed \in SUBSET Nat /\ Found \in SUBSET Nat /\ id \in Nat /\ found.lookup_done \in BOOLEAN
      /\ Found = IF found.lookup_done THEN {w.id} ELSE {}
  BY <1>1 DEF SwitchShape, Parsed, Found, Beat
<1>6. \A x \in PortByte : x.id \in Nat
  BY DEF PortByte
<1>7. in => (b.id = IF b.first THEN id + 1 ELSE id)
  BY DEF TakenIn, Offered
<1> HIDE DEF in, M, w, T, Q, id
<1>8. PortsOut => /\ M[1].id \in Ids(M) /\ \A x \in Ids(M) \cup Found \cup Parsed : M[1].id <= x
                  /\ Ids(Tail(M)) = Ids(M) \ {M[1].id} /\ M[1].id \notin Found \cup Parsed
                  /\ Pipe(Tail(M), Found, Parsed, id)
  <2> SUFFICES ASSUME PortsOut
               PROVE  /\ M[1].id \in Ids(M) /\ \A x \in Ids(M) \cup Found \cup Parsed : M[1].id <= x
                      /\ Ids(Tail(M)) = Ids(M) \ {M[1].id} /\ M[1].id \notin Found \cup Parsed
                      /\ Pipe(Tail(M), Found, Parsed, id)
    OBVIOUS
  <2>1. M # << >> /\ M \in Seq(PortByte) /\ Found \in SUBSET Nat /\ Parsed \in SUBSET Nat /\ id \in Nat
    BY <1>4, <1>5
  <2>2. Pipe(M, Found, Parsed, id)
    BY <1>1
  <2> QED BY <1>6, <2>1, <2>2, PipeTail, Zenon
<1>9. Pipe(T, Found, Parsed, id)
  BY <1>1, <1>2, <1>8 DEF T
<1>10. /\ new \in Nat /\ id <= new /\ Q \in SUBSET Nat /\ \A x \in Q : x = new /\ id < new
       /\ src'.id = new
  <2>1. b.id \in Nat /\ b.first \in BOOLEAN
    BY DEF Beat
  <2> QED BY <1>2, <1>5, <1>7, <2>1 DEF Q, new, FirstOf, id
<1> DEFINE V == dst_port_fifo'.items
<1> HIDE DEF new
<1>a. Ids(T) \in SUBSET Nat /\ Ids(V) \in SUBSET Nat
  <2>1. \A X \in Seq(PortByte) : Ids(X) \in SUBSET Nat
    <3> TAKE X \in Seq(PortByte)
    <3>1. \A k \in 1 .. Len(X) : X[k] \in PortByte
      OBVIOUS
    <3> QED BY <1>6, <3>1 DEF Ids
  <2>2. V \in Seq(PortByte)
    BY <1>3
  <2> QED BY <1>3, <2>1, <2>2
<1>b. Pipe(V, {}, Parsed, id) /\ Ids(V) = Ids(T) \cup Found
  <2>1. CASE found.lookup_done
    <3>1. V = Append(T, w) /\ Found = {w.id}
      BY <1>3, <1>5, <2>1
    <3>2. Pipe(T, {w.id}, Parsed, id)
      BY <1>9, <3>1
    <3>3. T \in Seq(PortByte) /\ w \in PortByte
      BY <1>3
    <3>4. Pipe(Append(T, w), {}, Parsed, id) /\ Ids(Append(T, w)) = Ids(T) \cup {w.id}
      BY <1>5, <1>6, <3>2, <3>3, PipePush, Zenon
    <3> QED BY <3>1, <3>4
  <2>2. CASE ~found.lookup_done
    <3>1. V = T /\ Found = {}
      BY <1>3, <1>5, <2>2
    <3> QED BY <1>9, <3>1
  <2> QED BY <1>5, <2>1, <2>2
<1> HIDE DEF V
<1>11. Pipe(V, Parsed, Q, new)
  BY <1>5, <1>10, <1>a, <1>b, PipeShift
<1>12. Waits' = Ids(V) \cup Parsed \cup Q /\ Waits = Ids(M) \cup Found \cup Parsed
  BY <1>2 DEF Waits, M, Ids, V
<1>13. Ids(T) \cup Found \cup Parsed = Waits \ (IF PortsOut THEN {M[1].id} ELSE {})
  BY <1>2, <1>8, <1>12 DEF T
<1>14. Waits' = (Waits \ (IF PortsOut THEN {M[1].id} ELSE {})) \cup Q
  BY <1>b, <1>12, <1>13
<1>15. Waits \in SUBSET Nat /\ \A x \in Waits : x <= id
  <2>1. Ids(M) \in SUBSET Nat
    <3>1. \A k \in 1 .. Len(M) : M[k] \in PortByte
      BY <1>4
    <3> QED BY <1>6, <3>1 DEF Ids
  <2> QED BY <1>1, <1>5, <1>12, <2>1 DEF Pipe
<1>16. PortsOut => M[1].id \in Waits /\ \A x \in Waits : M[1].id <= x
  BY <1>8, <1>12
<1>17. Pipe(dst_port_fifo'.items, Found', Parsed', src'.id)
  BY <1>2, <1>10, <1>11 DEF V
<1> QED BY <1>14, <1>15, <1>16, <1>17 DEF M, Q, in, id

\* Beats and ports stay joined.
LEMMA SwitchPairedNext ==
    ASSUME SwitchInv, NEW tvalid \in BOOLEAN, NEW b \in Beat, tvalid => Offered(b),
           NEW tready \in BOOLEAN, NEW clear, switch!Clock(tvalid, b, tready, FALSE, clear)
    PROVE  Paired(input_fifo'.items, Waits', Sending', Open', src'.id)
<1> DEFINE in == TakenIn(tvalid)
           out == TakenOut(tready)
           D == input_fifo.items
           M == dst_port_fifo.items
           W == Waits \ (IF PortsOut THEN {M[1].id} ELSE {})
           T == IF out THEN Tail(D) ELSE D
           id == src.id
<1>1. SwitchShape /\ SwitchFifos /\ Paired(D, Waits, Sending, Open, id)
  BY DEF SwitchInv
<1>2. /\ in \in BOOLEAN /\ out \in BOOLEAN /\ PortsOut \in BOOLEAN
      /\ Sending' <=> (Sending \/ PortsOut) /\ ~(out /\ input_fifo.dout.last)
      /\ src'.id = (IF in THEN b.id ELSE id)
      /\ Open' = IF in THEN ~b.last ELSE Open
  BY <1>1, SwitchEdge
<1>3. /\ T \in Seq(Beat)
      /\ input_fifo'.items = IF in THEN Append(T, b) ELSE T
  BY <1>1, SwitchFifosNext
<1>4. /\ Waits' = W \cup (IF in THEN FirstOf(b) ELSE {})
      /\ PortsOut => M[1].id \in Waits /\ \A x \in Waits : M[1].id <= x
      /\ Waits \in SUBSET Nat /\ \A x \in Waits : x <= id
  BY SwitchPipeNext
<1>5. /\ D \in Seq(Beat) /\ (out => D # << >> /\ input_fifo.dout = D[1] /\ (Sending \/ PortsOut))
      /\ id \in Nat
  BY <1>1 DEF SwitchFifos, Sound, FifoOf, Shown, TakenOut, PortsOut, SwitchShape
<1>6. in => (b.first <=> ~Open) /\ b.id = IF b.first THEN id + 1 ELSE id
  BY DEF TakenIn, Offered
<1>7. \A x \in Beat : x.id \in Nat /\ x.first \in BOOLEAN /\ x.last \in BOOLEAN
  BY DEF Beat
<1>8. Sending \in BOOLEAN /\ Open \in BOOLEAN /\ (PortsOut => ~Sending) /\ b.last \in BOOLEAN
      /\ Sending' \in BOOLEAN
  BY <1>7 DEF Sending, Open, PortsOut
<1> HIDE DEF in, out, D, M, W, T, id
<1>9. Paired(D, W, Sending \/ PortsOut, Open, id)
  <2>1. CASE PortsOut
    <3>1. Paired(D, Waits, FALSE, Open, id)
      <4>1. Sending = FALSE
        BY <1>8, <2>1
      <4> QED BY <1>1, <4>1
    <3>2. Paired(D, Waits \ {M[1].id}, TRUE, Open, id)
      BY <1>4, <1>5, <1>7, <2>1, <3>1, PortsTaken, Zenon
    <3>3. W = Waits \ {M[1].id} /\ (Sending \/ PortsOut) = TRUE
      BY <1>8, <2>1 DEF W
    <3> QED BY <3>2, <3>3
  <2>2. CASE ~PortsOut
    <3>1. W = Waits /\ (Sending \/ PortsOut) = Sending
      BY <1>8, <2>2 DEF W
    <3> QED BY <1>1, <3>1
  <2> QED BY <1>2, <2>1, <2>2
<1>10. Paired(T, W, Sending', Open, id)
  <2>1. CASE out
    <3>1. (Sending \/ PortsOut) = TRUE /\ T = Tail(D)
      BY <1>5, <1>8, <2>1 DEF T
    <3>2. W \in SUBSET Nat
      BY <1>4 DEF W
    <3>3. Paired(Tail(D), W, ~D[1].last, Open, id)
      BY <1>5, <1>7, <1>8, <1>9, <2>1, <3>1, <3>2, BeatLeaves, Zenon
    <3>4. D[1].last \in BOOLEAN
      BY <1>5, <1>7, <2>1
    <3>5. Sending' = ~D[1].last
      BY <1>2, <1>5, <1>8, <2>1, <3>4
    <3> QED BY <3>1, <3>3, <3>5
  <2>2. CASE ~out
    <3>1. T = D /\ Sending' = (Sending \/ PortsOut)
      BY <1>2, <1>8, <2>2 DEF T
    <3> QED BY <1>9, <3>1
  <2> QED BY <1>2, <2>1, <2>2
<1>11. CASE in
  <2>1. W \in SUBSET Nat /\ \A x \in W : x <= id
    BY <1>4 DEF W
  <2>2. Paired(Append(T, b), W \cup FirstOf(b), Sending', Open', b.id)
    <3> DEFINE sending == Sending'
               open == Open
               after == Open'
    <3>1. sending \in BOOLEAN /\ open \in BOOLEAN /\ Paired(T, W, sending, open, id)
      BY <1>8, <1>10
    <3>2. after \in BOOLEAN /\ Continues(b, open, id, after)
      BY <1>2, <1>6, <1>8, <1>11 DEF Continues
    <3> HIDE DEF sending, open, after
    <3>3. Paired(Append(T, b), W \cup FirstOf(b), sending, after, b.id)
      <4>1. T \in Seq(Beat) /\ id \in Nat
        BY <1>3, <1>5
      <4>2. b \in Beat
        OBVIOUS
      <4>3. Upto(W, id)
        BY <2>1 DEF Upto
      <4> QED BY <3>1, <3>2, <4>1, <4>2, <4>3, BeatComes, ZenonT(60)
    <3> QED BY <3>3 DEF sending, after
  <2>3. Waits' = W \cup FirstOf(b)
    BY <1>4, <1>11
  <2> QED BY <1>2, <1>3, <1>11, <2>2, <2>3
<1>12. CASE ~in
  <2>1. Waits' = W
    BY <1>4, <1>12
  <2> QED BY <1>2, <1>3, <1>10, <1>12, <2>1
<1> QED BY <1>2, <1>11, <1>12
-----------------------------------------------------------------------------
(* The steps of the switch                                                 *)

LEMMA NoBeatIsBeat == switch!NoBeat \in Beat
  BY DEF switch!NoBeat, switch!beatOf, switch!NoHeader, Beat, Address, switch!Port

\* Every step is a clock edge, with or without a beat on the slave stream.
LEMMA SwitchSteps ==
    ASSUME Resets \subseteq {FALSE}, SwitchShape, [switch!Next]_switchVars
    PROVE  \/ UNCHANGED switchVars
           \/ \E tvalid \in BOOLEAN, b \in Beat, tready \in TReady, clear \in Clears :
                  /\ (tvalid => Offered(b)) /\ tready \in BOOLEAN
                  /\ switch!Clock(tvalid, b, tready, FALSE, clear)
<1> SUFFICES ASSUME switch!Next
             PROVE  \E tvalid \in BOOLEAN, b \in Beat, tready \in TReady, clear \in Clears :
                        /\ (tvalid => Offered(b)) /\ tready \in BOOLEAN
                        /\ switch!Clock(tvalid, b, tready, FALSE, clear)
  OBVIOUS
<1>1. PICK tready \in TReady, clear \in Clears :
          \/ switch!Clock(FALSE, switch!NoBeat, tready, FALSE, clear)
          \/ \E b \in switch!Offers : switch!Clock(TRUE, b, tready, FALSE, clear)
  BY DEF switch!Next
<1>2. tready \in BOOLEAN
  BY CoresAssumption DEF switch!SwitchAssumption
<1>3. CASE switch!Clock(FALSE, switch!NoBeat, tready, FALSE, clear)
  <2>1. FALSE \in BOOLEAN /\ (FALSE => Offered(switch!NoBeat))
    OBVIOUS
  <2> QED BY <1>2, <1>3, <2>1, NoBeatIsBeat, Zenon
<1>4. CASE \E b \in switch!Offers : switch!Clock(TRUE, b, tready, FALSE, clear)
  <2>1. PICK b \in switch!Offers : switch!Clock(TRUE, b, tready, FALSE, clear)
    BY <1>4
  <2>2. Offered(b)
    BY OfferFacts
  <2>3. b \in Beat /\ TRUE \in BOOLEAN
    BY <2>2 DEF Offered
  <2> QED BY <1>2, <2>1, <2>2, <2>3, Zenon
<1> QED BY <1>1, <1>3, <1>4

LEMMA SwitchInvInit == switch!Init => SwitchInv
<1> SUFFICES ASSUME switch!Init PROVE SwitchInv
  OBVIOUS
<1> DEFINE noPorts == switch!NoPorts
<1>1. switch!NoBeat \in Beat /\ noPorts \in PortByte
  BY NoBeatIsBeat DEF switch!NoPorts, PortByte
<1>2. input_fifo = EmptyFifo(switch!NoBeat) /\ dst_port_fifo = EmptyFifo(noPorts)
  BY SwitchFifo DEF switch!Init
<1> HIDE DEF noPorts
<1>3. Sound(input_fifo, Beat) /\ Sound(dst_port_fifo, PortByte)
  BY <1>1, <1>2, EmptySound
<1>4. /\ input_fifo.items = << >> /\ dst_port_fifo.items = << >>
      /\ Shown(input_fifo) /\ Shown(dst_port_fifo)
      /\ FifoDepth(input_fifo) = 0 /\ FifoDepth(dst_port_fifo) = 0
  BY <1>2 DEF EmptyFifo, Shown, FifoDepth, Count
<1>5. SwitchFifos
  BY <1>3, <1>4, MaxDepthAssumption DEF SwitchFifos, Fresh
<1>6. SwitchShape
  <2>1. NoMac \in Address /\ 0 \in switch!Port /\ 0 \in switch!Slot
    BY CoresAssumption DEF Address, switch!Port, switch!Slot, switch!SwitchAssumption
  <2>2. switch!NoHeader \in [dst : Address, src : Address, port : switch!Port]
    BY <2>1 DEF switch!NoHeader
  <2>3. [i \in switch!Slot |-> switch!NoEntry] \in [switch!Slot -> Entry]
    BY <2>1 DEF switch!NoEntry, Entry
  <2> QED BY <1>1, <2>1, <2>2, <2>3 DEF switch!Init, SwitchShape, switch!Nothing, Open
<1>7. Parsed = {} /\ Found = {} /\ Waits = {} /\ ~Sending /\ ~Open /\ src.id = 0
  BY <1>4 DEF switch!Init, Parsed, Found, Waits, Ids, switch!Nothing, Sending, Open
<1>8. Pipe(dst_port_fifo.items, Found, Parsed, src.id)
  BY <1>4, <1>7 DEF Pipe, Ids
<1>9. Paired(input_fifo.items, Waits, Sending, Open, src.id)
  <2>1. Heads(<< >>) = {} /\ Granted(<< >>, FALSE) = {}
    BY DEF Heads, Granted
  <2>2. 1 .. Len(<< >>) = {} /\ 1 .. Len(<< >>) - 1 = {}
    OBVIOUS
  <2>3. Paired(<< >>, {}, FALSE, FALSE, 0)
    BY <2>1, <2>2 DEF Paired
  <2>4. Sending = FALSE /\ Open = FALSE
    BY <1>7 DEF Sending, Open
  <2> QED BY <1>4, <1>7, <2>3, <2>4
<1> QED BY <1>5, <1>6, <1>8, <1>9 DEF SwitchInv

LEMMA SwitchInvNext ==
    ASSUME Resets \subseteq {FALSE}, SwitchInv, [switch!Next]_switchVars
    PROVE  SwitchInv'
<1>1. SwitchShape /\ SwitchFifos
  BY DEF SwitchInv
<1>2. CASE UNCHANGED switchVars
  <2>1. /\ UNCHANGED Waits /\ UNCHANGED Found /\ UNCHANGED Parsed /\ UNCHANGED Sending /\ UNCHANGED Open
        /\ UNCHANGED SwitchShape /\ UNCHANGED SwitchFifos
    BY <1>2 DEF switchVars, Waits, Found, Parsed, Sending, Open, SwitchShape, SwitchFifos, Ids,
                Sound, Shown, FifoDepth, OutOf, Fresh
  <2>2. UNCHANGED <<input_fifo, dst_port_fifo, src>>
    BY <1>2 DEF switchVars
  <2> QED BY <1>1, <2>1, <2>2, SMTT(60) DEF SwitchInv, Pipe, Paired, Ids, Heads, Granted
<1>3. CASE ~UNCHANGED switchVars
  <2>1. PICK tvalid \in BOOLEAN, b \in Beat, tready \in TReady, clear \in Clears :
                  /\ (tvalid => Offered(b)) /\ tready \in BOOLEAN
                  /\ switch!Clock(tvalid, b, tready, FALSE, clear)
    BY <1>1, <1>3, SwitchSteps
  <2>2. SwitchShape'
    BY <1>1, <2>1, SwitchShapeNext
  <2>3. SwitchFifos'
    BY <1>1, <2>1, SwitchFifosNext
  <2>4. Pipe(dst_port_fifo'.items, Found', Parsed', src'.id)
    BY <2>1, SwitchPipeNext
  <2>5. Paired(input_fifo'.items, Waits', Sending', Open', src'.id)
    BY <2>1, SwitchPairedNext
  <2> QED BY <2>2, <2>3, <2>4, <2>5 DEF SwitchInv, Pipe, Paired, Ids, Heads, Granted
<1> QED BY <1>2, <1>3

\* A beat and a port byte that are joined belong to the same packet.
LEMMA SwitchJoins == SwitchInv => switch!OwnPorts
<1> SUFFICES ASSUME SwitchInv, state = "WAIT_STATE", switch!m_axis_tvalid
             PROVE  input_fifo.dout.first /\ dst_port_fifo.dout.id = input_fifo.dout.id
  BY DEF switch!OwnPorts
<1> DEFINE D == input_fifo.items
           M == dst_port_fifo.items
           id == src.id
<1>1. ~Sending /\ input_fifo.dv /\ dst_port_fifo.dv
  BY SwitchFifo DEF Sending, switch!m_axis_tvalid, switch!send_packet, IsEmpty
<1>2. /\ D \in Seq(Beat) /\ M \in Seq(PortByte) /\ id \in Nat
      /\ D # << >> /\ input_fifo.dout = D[1] /\ M # << >> /\ dst_port_fifo.dout = M[1]
  BY <1>1 DEF SwitchInv, SwitchFifos, SwitchShape, Sound, FifoOf, Shown
<1>3. Found \in SUBSET Nat /\ Parsed \in SUBSET Nat
  BY DEF SwitchInv, SwitchShape, Found, Parsed, Beat
<1>4. Pipe(M, Found, Parsed, id) /\ Paired(D, Waits, FALSE, Open, id)
  <2>1. Sending = FALSE
    BY <1>1 DEF Sending
  <2>2. Paired(D, Waits, Sending, Open, id) /\ Pipe(M, Found, Parsed, id)
    BY DEF SwitchInv
  <2> QED BY <2>1, <2>2
<1>5. Waits = Ids(M) \cup Found \cup Parsed
  BY DEF Waits
<1> HIDE DEF D, M, id
<1>6. M[1].id \in Ids(M) /\ \A x \in Ids(M) \cup Found \cup Parsed : M[1].id <= x
  BY <1>2, <1>3, <1>4, PipeTail, Zenon
<1>7. Waits \in SUBSET Nat
  <2>1. \A k \in 1 .. Len(M) : M[k] \in PortByte
    BY <1>2
  <2> QED BY <1>3, <1>5, <2>1, PortByteFields DEF Ids
<1>8. D[1].first /\ D[1].id = M[1].id
  <2> DEFINE w == M[1].id
  <2>1. w \in Waits /\ \A x \in Waits : w <= x
    BY <1>5, <1>6
  <2> HIDE DEF w
  <2>2. D[1].first /\ D[1].id = w
    BY <1>2, <1>4, <1>7, <2>1, PortsTaken
  <2> QED BY <2>2 DEF w
<1> QED BY <1>2, <1>8

\* There are no more ports in dst_port_fifo than beats in input_fifo.
LEMMA PortsBehindBeats ==
    ASSUME SwitchInv
    PROVE  Len(dst_port_fifo.items) <= Len(input_fifo.items)
<1> DEFINE D == input_fifo.items
           M == dst_port_fifo.items
<1>1. D \in Seq(Beat) /\ M \in Seq(PortByte)
  BY DEF SwitchInv, SwitchFifos, Sound, FifoOf
<1>2. /\ \A k, l \in 1 .. Len(M) : k < l => M[k].id < M[l].id
      /\ Ids(M) \subseteq Heads(D)
  BY DEF SwitchInv, Pipe, Paired, Waits
<1> HIDE DEF D, M
<1>3. Len(M) <= Len(D)
  BY <1>1, <1>2, FewPorts
<1> QED BY <1>3 DEF D, M
-----------------------------------------------------------------------------
(* The room for the ports                                                  *)

\* When the first beat of a packet x came, it was one of the last n beats.
Lag(D, x, n) == \A j \in 1 .. Len(D) : D[j].first /\ D[j].id = x => Len(D) - j + 1 <= n

\* A clock edge lets one beat leave and one come.
LEMMA LagGrows ==
    ASSUME NEW D \in Seq(Beat), NEW T, NEW E, NEW b, NEW in \in BOOLEAN, NEW out \in BOOLEAN,
           NEW x, NEW n \in Nat, out => D # << >>,
           T = IF out THEN Tail(D) ELSE D, E = IF in THEN Append(T, b) ELSE T,
           T \in Seq(Beat), Lag(D, x, n)
    PROVE  Lag(E, x, n + 1)
<1> SUFFICES ASSUME NEW j \in 1 .. Len(E), E[j].first, E[j].id = x PROVE Len(E) - j + 1 <= n + 1
  BY DEF Lag
<1>1. /\ Len(D) \in Nat /\ Len(T) \in Nat
      /\ Len(T) = Len(D) - Count(out) /\ \A i \in 1 .. Len(T) : T[i] = D[i + Count(out)]
  <2>1. CASE out
    <3>1. /\ T = Tail(D) /\ D # << >> /\ Count(out) = 1
      BY <2>1 DEF Count
    <3>2. \A i \in 1 .. Len(Tail(D)) : Tail(D)[i] = D[i + 1]
      OBVIOUS
    <3>3. Len(D) \in Nat /\ Len(Tail(D)) \in Nat /\ (D # << >> => Len(Tail(D)) = Len(D) - 1)
      OBVIOUS
    <3> QED BY <3>1, <3>2, <3>3
  <2>2. CASE ~out
    <3>1. T = D /\ Count(out) = 0
      BY <2>2 DEF Count
    <3>2. Len(D) \in Nat /\ \A i \in 1 .. Len(D) : i + 0 = i
      OBVIOUS
    <3> QED BY <3>1, <3>2
  <2> QED BY <2>1, <2>2
<1>2. Len(E) = Len(T) + Count(in) /\ \A i \in 1 .. Len(T) : E[i] = T[i]
  <2>1. /\ Len(Append(T, b)) = Len(T) + 1
        /\ \A i \in 1 .. Len(T) : Append(T, b)[i] = T[i]
    OBVIOUS
  <2>2. CASE in
    <3>1. E = Append(T, b) /\ Count(in) = 1
      BY <2>2 DEF Count
    <3> QED BY <2>1, <3>1
  <2>3. CASE ~in
    <3>1. E = T /\ Count(in) = 0
      BY <2>3 DEF Count
    <3> QED BY <1>1, <3>1
  <2> QED BY <2>2, <2>3
<1>3. Count(in) \in {0, 1} /\ Count(out) \in {0, 1}
  BY DEF Count
<1>4. CASE j \in 1 .. Len(T)
  <2> DEFINE i == j + Count(out)
  <2>1. E[j] = D[i] /\ i \in 1 .. Len(D)
    BY <1>1, <1>2, <1>3, <1>4
  <2>2. Len(D) - i + 1 <= n
    BY <2>1 DEF Lag
  <2> QED BY <1>1, <1>2, <1>3, <1>4, <2>2
<1>5. CASE j \notin 1 .. Len(T)
  <2>1. j = Len(E)
    BY <1>1, <1>2, <1>3, <1>5
  <2> QED BY <1>1, <1>2, <1>3, <2>1
<1> QED BY <1>4, <1>5

\* The beat that has just come is the last.
LEMMA LagStarts ==
    ASSUME NEW D \in Seq(Beat), NEW b \in Beat, b.first,
           \A i, j \in 1 .. Len(Append(D, b)) :
               i < j /\ Append(D, b)[j].first => Append(D, b)[i].id < Append(D, b)[j].id
    PROVE  Lag(Append(D, b), b.id, 1)
<1> DEFINE E == Append(D, b)
<1>1. Len(E) = Len(D) + 1 /\ Len(D) \in Nat /\ E[Len(D) + 1] = b
  OBVIOUS
<1>2. \A i, j \in 1 .. Len(E) : i < j /\ E[j].first => E[i].id < E[j].id
  OBVIOUS
<1>3. b.id \in Nat
  BY BeatFields
<1> HIDE DEF E
<1>4. ASSUME NEW j \in 1 .. Len(E), E[j].id = b.id, j < Len(E) PROVE FALSE
  <2>1. Len(E) \in 1 .. Len(E)
    BY <1>1
  <2>2. E[j].id < b.id
    BY <1>1, <1>2, <1>4, <2>1
  <2> QED BY <1>3, <1>4, <2>2
<1>5. Lag(E, b.id, 1)
  BY <1>1, <1>4 DEF Lag
<1> QED BY <1>5 DEF E

\* With a sink that is always ready, the ports of a packet are there five clocks after
\* its first beat, so that no more than five beats wait for ports.
Prompt ==
    LET D == input_fifo.items
        M == dst_port_fifo.items
    IN  /\ \A x \in Parsed : Lag(D, x, 1)
        /\ \A x \in Found : Lag(D, x, 2)
        /\ \A k \in 1 .. Len(M) : k > OutOf(dst_port_fifo) /\ OutOf(dst_port_fifo) <= 1 => Lag(D, M[k].id, 3)
        /\ \A k \in 1 .. Len(M) : ~dst_port_fifo.dv => Lag(D, M[k].id, 4)
        /\ Len(D) <= 5

LEMMA PromptInit == switch!Init => Prompt
<1> SUFFICES ASSUME switch!Init PROVE Prompt
  OBVIOUS
<1>1. input_fifo.items = << >> /\ dst_port_fifo.items = << >> /\ Parsed = {} /\ Found = {}
  BY SwitchFifo DEF switch!Init, EmptyFifo, Parsed, Found, switch!Nothing
<1>2. 1 .. Len(<< >>) = {} /\ Len(<< >>) <= 5
  OBVIOUS
<1> QED BY <1>1, <1>2 DEF Prompt

\* A FIFO shows a word unless it has two at most.
LEMMA SlowOutput ==
    ASSUME NEW Datum, NEW f, Sound(f, Datum), Shown(f), Fresh(f), ~f.dv
    PROVE  Len(f.items) <= 2 /\ OutOf(f) <= 1 /\ OutOf(f) \in Nat /\ FifoDepth(f) <= 1
<1> DEFINE o == OutOf(f)  l == Len(f.items)
<1>1. /\ o = Count(f.fv) + Count(f.mv) + Count(f.dv) /\ o \in 0 .. 3 /\ l \in Nat
      /\ FifoDepth(f) = l - o
  BY OutOfFlags
<1>2. ~f.mv /\ (FifoDepth(f) >= 2 => o >= 2)
  BY DEF Shown, Fresh
<1>3. Count(f.fv) \in {0, 1} /\ Count(f.mv) = 0 /\ Count(f.dv) = 0
  BY <1>2 DEF Count
<1> HIDE DEF o, l
<1>4. o <= 1
  BY <1>1, <1>3
<1> QED BY <1>1, <1>2, <1>4 DEF o, l

LEMMA PromptNext ==
    ASSUME SwitchInv, SwitchInv', Prompt, NEW tvalid \in BOOLEAN, NEW b \in Beat, tvalid => Offered(b),
           NEW clear, switch!Clock(tvalid, b, TRUE, FALSE, clear)
    PROVE  Prompt'
<1> DEFINE in == TakenIn(tvalid)
           out == TakenOut(TRUE)
           D == input_fifo.items
           T == IF out THEN Tail(D) ELSE D
           E == input_fifo'.items
           M == dst_port_fifo.items
           w == [id |-> found.id, ports |-> found.ports]
           L == IF PortsOut THEN Tail(M) ELSE M
           N == dst_port_fifo'.items
           o == OutOf(dst_port_fifo)
           load == fifo_rd_en(dst_port_fifo)
<1>1. SwitchShape /\ SwitchFifos
  BY DEF SwitchInv
<1>2. /\ in \in BOOLEAN /\ out \in BOOLEAN /\ PortsOut \in BOOLEAN
      /\ Parsed' = (IF in THEN FirstOf(b) ELSE {}) /\ Found' = Parsed
      /\ dst_port_fifo' = Step(dst_port_fifo, found.lookup_done, w, PortsOut)
  BY <1>1, SwitchEdge
<1>3. /\ T \in Seq(Beat) /\ E = (IF in THEN Append(T, b) ELSE T)
      /\ L \in Seq(PortByte) /\ N = (IF found.lookup_done THEN Append(L, w) ELSE L)
  BY <1>1, SwitchFifosNext
<1>4. /\ D \in Seq(Beat) /\ (out => D # << >>) /\ M \in Seq(PortByte) /\ (PortsOut => M # << >>)
  BY <1>1 DEF SwitchFifos, Sound, FifoOf, Shown, TakenOut, PortsOut
<1>5. /\ found.lookup_done \in BOOLEAN /\ w \in PortByte /\ (found.lookup_done => w.id \in Found)
  BY <1>1 DEF SwitchShape, Found, PortByte
<1>6. Moved(dst_port_fifo, found.lookup_done, w, PortsOut, dst_port_fifo', L)
  <2>1. Sound(dst_port_fifo, PortByte) /\ Shown(dst_port_fifo) /\ (PortsOut => dst_port_fifo.dv)
    BY <1>1 DEF SwitchFifos, PortsOut
  <2> HIDE DEF w
  <2> QED BY <1>2, <1>5, <2>1, StepMoves, Zenon
<1>7. /\ Sound(dst_port_fifo, PortByte) /\ Shown(dst_port_fifo) /\ Fresh(dst_port_fifo)
      /\ Sound(dst_port_fifo', PortByte) /\ Shown(dst_port_fifo') /\ Fresh(dst_port_fifo')
      /\ Sound(input_fifo, Beat) /\ Shown(input_fifo) /\ Fresh(input_fifo)
  BY DEF SwitchInv, SwitchFifos, Sound, Shown, Fresh, FifoDepth, OutOf
<1>8. /\ \A x \in Parsed : Lag(D, x, 1)
      /\ \A x \in Found : Lag(D, x, 2)
      /\ \A k \in 1 .. Len(M) : k > o /\ o <= 1 => Lag(D, M[k].id, 3)
      /\ \A k \in 1 .. Len(M) : ~dst_port_fifo.dv => Lag(D, M[k].id, 4)
      /\ Len(D) <= 5
  BY DEF Prompt
<1>9. \A x : \A n \in Nat : Lag(D, x, n) => Lag(E, x, n + 1)
  <2> HIDE DEF in, out, D, E, T
  <2>1. T = (IF out THEN Tail(D) ELSE D)
    BY DEF T
  <2> QED BY <1>2, <1>3, <1>4, <2>1, LagGrows
<1>10. \A x \in Parsed' : Lag(E, x, 1)
  <2> SUFFICES ASSUME NEW x \in Parsed' PROVE Lag(E, x, 1)
    OBVIOUS
  <2>1. in /\ b.first /\ x = b.id /\ E = Append(T, b)
    BY <1>2, <1>3 DEF FirstOf
  <2>2. \A i, j \in 1 .. Len(E) : i < j /\ E[j].first => E[i].id < E[j].id
    BY DEF SwitchInv, Paired
  <2> HIDE DEF E, T
  <2>3. Lag(Append(T, b), b.id, 1)
    BY <1>3, <2>1, <2>2, LagStarts
  <2> QED BY <2>1, <2>3
<1>11. \A x \in Found' : Lag(E, x, 2)
  <2>1. 1 \in Nat /\ 1 + 1 = 2
    OBVIOUS
  <2> QED BY <1>2, <1>8, <1>9, <2>1
<1>12. o \in 0 .. 3 /\ Len(M) \in Nat /\ (load <=> o < 3 /\ o < Len(M)) /\ (Len(M) - o >= 2 => o >= 2)
       /\ o <= Len(M)
  <2>1. FifoDepth(dst_port_fifo) = Len(M) - o
    BY <1>7, OutOfFlags
  <2> QED BY <1>7, <2>1, OutOfFlags, LoadCondition DEF Fresh
<1>13. OutOf(dst_port_fifo') = o + Count(load) - Count(PortsOut)
       /\ (dst_port_fifo'.dv <=> o - Count(PortsOut) >= 1) /\ Len(L) = Len(M) - Count(PortsOut)
  BY <1>6 DEF Moved
<1>14. \A k \in 1 .. Len(L) : k + Count(PortsOut) \in 1 .. Len(M) /\ L[k] = M[k + Count(PortsOut)]
  <2>1. CASE PortsOut
    <3>1. L = Tail(M) /\ Count(PortsOut) = 1 /\ M # << >>
      BY <1>4, <2>1 DEF Count
    <3>2. \A k \in 1 .. Len(Tail(M)) : Tail(M)[k] = M[k + 1]
      BY <1>4
    <3> QED BY <1>12, <1>13, <3>1, <3>2
  <2>2. CASE ~PortsOut
    <3>1. L = M /\ Count(PortsOut) = 0
      BY <2>2 DEF Count
    <3> HIDE DEF L, M
    <3>2. \A k \in 1 .. Len(M) : k + 0 = k
      OBVIOUS
    <3> QED BY <3>1, <3>2
  <2> QED BY <2>1, <2>2
<1>15. /\ Len(L) \in Nat
       /\ \A k \in 1 .. Len(N) : (k \in 1 .. Len(L) /\ N[k] = L[k]) \/ (found.lookup_done /\ N[k] = w)
  <2>1. /\ Len(Append(L, w)) = Len(L) + 1 /\ Len(L) \in Nat
        /\ \A k \in 1 .. Len(L) : Append(L, w)[k] = L[k]
        /\ Append(L, w)[Len(L) + 1] = w
    BY <1>3
  <2> HIDE DEF L, w, N
  <2>2. CASE found.lookup_done
    <3>1. N = Append(L, w) /\ Len(N) = Len(L) + 1
      BY <1>3, <2>1, <2>2
    <3>2. ASSUME NEW k \in 1 .. Len(N), k \notin 1 .. Len(L) PROVE k = Len(L) + 1
      BY <2>1, <3>1, <3>2
    <3> QED BY <2>1, <2>2, <3>1, <3>2
  <2>3. CASE ~found.lookup_done
    <3>1. N = L
      BY <1>3, <2>3
    <3> QED BY <2>1, <3>1
  <2> QED BY <1>5, <2>2, <2>3
<1>16. Count(load) = (IF o < 3 /\ o < Len(M) THEN 1 ELSE 0)
       /\ Count(PortsOut) = (IF PortsOut THEN 1 ELSE 0)
  BY <1>12 DEF Count
<1> DEFINE p == OutOf(dst_port_fifo')
           lag(x, n) == Lag(E, x, n)
<1>a. \A x : (Lag(D, x, 2) => lag(x, 3)) /\ (Lag(D, x, 3) => lag(x, 4))
  BY <1>9
<1> HIDE DEF in, out, D, T, E, w, L, o, load, p, lag
<1>17. ASSUME NEW k \in 1 .. Len(N), k > p, p <= 1 PROVE lag(N[k].id, 3)
  <2>1. CASE found.lookup_done /\ N[k] = w
    BY <1>5, <1>8, <1>a, <2>1
  <2>2. CASE k \in 1 .. Len(L) /\ N[k] = L[k]
    BY <1>12, <1>13, <1>16, <1>17, <2>2 DEF p
  <2> QED BY <1>15, <2>1, <2>2
<1>18. ASSUME NEW k \in 1 .. Len(N), ~dst_port_fifo'.dv PROVE lag(N[k].id, 4)
  <2>1. CASE found.lookup_done /\ N[k] = w
    <3>1. p <= 1 /\ (k > p \/ k <= p) /\ p \in Nat
      BY <1>7, <1>18, SlowOutput DEF p
    <3>2. lag(N[k].id, 3)
      BY <1>5, <1>8, <1>a, <2>1
    <3>3. Lag(E, N[k].id, 3) => Lag(E, N[k].id, 4)
      BY <1>3 DEF Lag
    <3> QED BY <3>2, <3>3 DEF lag
  <2>2. CASE k \in 1 .. Len(L) /\ N[k] = L[k]
    <3>1. L[k] = M[k + Count(PortsOut)] /\ k + Count(PortsOut) \in 1 .. Len(M)
      BY <1>14, <2>2
    <3>2. k + Count(PortsOut) > o /\ o <= 1
      BY <1>12, <1>13, <1>16, <1>18, <2>2
    <3> QED BY <1>8, <1>a, <2>2, <3>1, <3>2
  <2> QED BY <1>15, <2>1, <2>2
<1>19. Len(E) <= 5
  <2>1. Len(D) \in Nat /\ Len(T) = Len(D) - Count(out) /\ Len(E) = Len(T) + Count(in)
    <3>1. Len(Append(T, b)) = Len(T) + 1 /\ Len(D) \in Nat /\ Len(T) \in Nat
      BY <1>3, <1>4
    <3>2. D # << >> => Len(Tail(D)) = Len(D) - 1
      BY <1>4
    <3>3. Len(T) = Len(D) - Count(out)
      BY <1>2, <1>4, <3>1, <3>2 DEF Count, T
    <3>4. Len(E) = Len(T) + Count(in)
      BY <1>2, <1>3, <3>1 DEF Count
    <3> QED BY <3>1, <3>3, <3>4
  <2>2. Count(in) \in {0, 1} /\ Count(out) = (IF out THEN 1 ELSE 0)
    BY <1>2 DEF Count
  <2>3. CASE out
    BY <1>8, <2>1, <2>2, <2>3
  <2>4. CASE ~out
    <3>1. CASE ~input_fifo.dv
      <4>1. Len(D) <= 2
        BY <1>7, <3>1, SlowOutput DEF D
      <4> QED BY <2>1, <2>2, <4>1
    <3>2. CASE input_fifo.dv
      <4>1. ~Sending /\ ~dst_port_fifo.dv
        BY <2>4, <3>2 DEF out, TakenOut
      <4>2. D # << >> => D[1].first /\ D[1].id \in Waits
        <5> SUFFICES ASSUME D # << >> PROVE D[1].first /\ D[1].id \in Waits
          OBVIOUS
        <5>1. D[1].first /\ Heads(D) = Waits \cup {}
          BY <4>1 DEF SwitchInv, Paired, Granted, D
        <5>2. 1 \in 1 .. Len(D)
          BY <2>1, <1>4
        <5>3. D[1].id \in Heads(D)
          BY <5>1, <5>2 DEF Heads
        <5> QED BY <5>1, <5>3
      <4>3. D # << >> => \E n \in 1 .. 4 : Lag(D, D[1].id, n)
        <5> SUFFICES ASSUME D # << >> PROVE \E n \in 1 .. 4 : Lag(D, D[1].id, n)
          OBVIOUS
        <5>1. D[1].id \in Parsed \/ D[1].id \in Found \/ \E k \in 1 .. Len(M) : D[1].id = M[k].id
          BY <4>2 DEF Waits, Ids
        <5> QED BY <1>8, <4>1, <5>1
      <4>4. D # << >> => Len(D) <= 4
        <5> SUFFICES ASSUME D # << >> PROVE Len(D) <= 4
          OBVIOUS
        <5>1. PICK n \in 1 .. 4 : Lag(D, D[1].id, n)
          BY <4>3
        <5>2. 1 \in 1 .. Len(D)
          BY <2>1, <1>4
        <5>3. Len(D) - 1 + 1 <= n
          BY <4>2, <5>1, <5>2 DEF Lag
        <5> QED BY <2>1, <5>3
      <4>5. D = << >> => Len(D) = 0
        OBVIOUS
      <4> QED BY <2>1, <2>2, <2>4, <4>4, <4>5
    <3> QED BY <3>1, <3>2
  <2> QED BY <2>3, <2>4
<1> QED BY <1>10, <1>11, <1>17, <1>18, <1>19 DEF Prompt, p, lag, E

\* The ports fit into dst_port_fifo if its memory is as large as that of input_fifo, or,
\* with a memory of four words as in the source, if the sink is always ready, as
\* output_queues.v is.
PortsHaveRoom == MAX_DEPTH <= PORT_DEPTH \/ (TReady = {TRUE} /\ PORT_DEPTH >= 4)

LEMMA RoomForPorts ==
    ASSUME PortsHaveRoom, SwitchInv, TReady = {TRUE} => Prompt
    PROVE  switch!PortsFit
<1> DEFINE m == Len(dst_port_fifo.items)  n == Len(input_fifo.items)
           d == FifoDepth(dst_port_fifo)  o == OutOf(dst_port_fifo)
           e == FifoDepth(input_fifo)  q == OutOf(input_fifo)
<1>1. Sound(input_fifo, Beat) /\ Sound(dst_port_fifo, PortByte) /\ Fresh(dst_port_fifo) /\ e <= MAX_DEPTH - 1
  BY DEF SwitchInv, SwitchFifos
<1>2. d = m - o /\ o \in 0 .. 3 /\ d \in Nat /\ m \in Nat
  BY <1>1, OutOfFlags
<1>3. e = n - q /\ q \in 0 .. 3 /\ e \in Nat /\ n \in Nat
  BY <1>1, OutOfFlags
<1>4. m <= n
  BY PortsBehindBeats
<1>5. d >= 2 => o >= 2
  BY <1>1 DEF Fresh
<1>6. MAX_DEPTH \in Nat \ {0} /\ PORT_DEPTH \in Nat \ {0}
  BY CoresAssumption DEF switch!SwitchAssumption
<1>7. switch!PortsFit <=> d <= PORT_DEPTH
  BY SwitchFifo DEF switch!PortsFit
<1>8. n <= 5 \/ MAX_DEPTH <= PORT_DEPTH
  BY DEF PortsHaveRoom, Prompt
<1>9. MAX_DEPTH <= PORT_DEPTH \/ PORT_DEPTH >= 4
  BY DEF PortsHaveRoom
<1> HIDE DEF m, n, d, o, e, q
<1> QED BY <1>1, <1>2, <1>3, <1>4, <1>5, <1>6, <1>7, <1>8, <1>9
-----------------------------------------------------------------------------
(* The table                                                               *)

\* The station in slot s of the table, counted among the n it holds, if w is written
\* next; slots that are not in use have no station.
Pos(w, n, s) == IF s < w THEN n - w + s + 1 ELSE n - w + s + 1 - LUT_DEPTH

EntryOf(x) == [mac |-> x.mac, ports |-> {x.port}]
Station == [mac : Mac, port : switch!Port]

TableInv ==
    /\ seen \in Seq(Station) /\ Len(seen) <= LUT_DEPTH
    /\ Len(seen) < LUT_DEPTH => lut_wr_addr = Len(seen)
    /\ \A s \in switch!Slot :
          LET p == Pos(lut_wr_addr, Len(seen), s)
          IN  lut[s] = IF p >= 1 THEN EntryOf(seen[p]) ELSE switch!NoEntry
    /\ \A i, j \in 1 .. Len(seen) : seen[i].mac = seen[j].mac => i = j

\* Each station has one slot.
LEMMA Slots ==
    ASSUME NEW w \in switch!Slot, NEW n \in 0 .. LUT_DEPTH, n < LUT_DEPTH => w = n
    PROVE  /\ \A s \in switch!Slot : Pos(w, n, s) \in Int /\ Pos(w, n, s) <= n
           /\ \A i \in 1 .. n : \E s \in switch!Slot : Pos(w, n, s) = i
           /\ \A s, t \in switch!Slot : Pos(w, n, s) = Pos(w, n, t) => s = t
<1>1. LUT_DEPTH \in Nat \ {0} /\ switch!Slot = 0 .. LUT_DEPTH - 1
  BY CoresAssumption DEF switch!SwitchAssumption, switch!Slot
<1>2. ASSUME NEW i \in 1 .. n PROVE \E s \in switch!Slot : Pos(w, n, s) = i
  <2> DEFINE a == w - n + i - 1
  <2>1. CASE a >= 0
    <3>1. a \in switch!Slot /\ Pos(w, n, a) = i
      BY <1>1, <2>1 DEF Pos
    <3> QED BY <3>1
  <2>2. CASE a < 0
    <3>1. a + LUT_DEPTH \in switch!Slot /\ Pos(w, n, a + LUT_DEPTH) = i
      BY <1>1, <2>2 DEF Pos
    <3> QED BY <3>1
  <2> QED BY <1>1, <2>1, <2>2
<1>3. \A s \in switch!Slot : Pos(w, n, s) \in Int /\ Pos(w, n, s) <= n
  BY <1>1 DEF Pos
<1>4. \A s, t \in switch!Slot : Pos(w, n, s) = Pos(w, n, t) => s = t
  BY <1>1 DEF Pos
<1> QED BY <1>2, <1>3, <1>4

\* A new station takes the slot that is written next.
LEMMA SlotsNext ==
    ASSUME NEW w \in switch!Slot, NEW n \in 0 .. LUT_DEPTH, n < LUT_DEPTH => w = n
    PROVE  LET v == (w + 1) % LUT_DEPTH
               m == IF n < LUT_DEPTH THEN n + 1 ELSE n
           IN  /\ v \in switch!Slot /\ (m < LUT_DEPTH => v = m)
               /\ Pos(v, m, w) = m
               /\ \A s \in switch!Slot \ {w} :
                     IF n < LUT_DEPTH
                     THEN IF Pos(w, n, s) >= 1 THEN Pos(v, m, s) = Pos(w, n, s) ELSE Pos(v, m, s) < 1
                     ELSE Pos(v, m, s) = Pos(w, n, s) - 1 /\ Pos(v, m, s) >= 1
<1>1. LUT_DEPTH \in Nat \ {0} /\ switch!Slot = 0 .. LUT_DEPTH - 1
  BY CoresAssumption DEF switch!SwitchAssumption, switch!Slot
<1> DEFINE v == (w + 1) % LUT_DEPTH
           m == IF n < LUT_DEPTH THEN n + 1 ELSE n
<1>2. v = IF w + 1 = LUT_DEPTH THEN 0 ELSE w + 1
  BY <1>1
<1>3. m \in 0 .. LUT_DEPTH /\ (n < LUT_DEPTH => m = n + 1) /\ (n = LUT_DEPTH => m = n)
  BY <1>1
<1> HIDE DEF v, m
<1>4. v \in switch!Slot /\ (m < LUT_DEPTH => v = m)
  BY <1>1, <1>2, <1>3
<1>5. Pos(v, m, w) = m
  BY <1>1, <1>2, <1>3 DEF Pos
<1>6. ASSUME NEW s \in switch!Slot, s # w, n < LUT_DEPTH
      PROVE  IF Pos(w, n, s) >= 1 THEN Pos(v, m, s) = Pos(w, n, s) ELSE Pos(v, m, s) < 1
  BY <1>1, <1>2, <1>3, <1>6 DEF Pos
<1>7. ASSUME NEW s \in switch!Slot, s # w, ~(n < LUT_DEPTH)
      PROVE  Pos(v, m, s) = Pos(w, n, s) - 1 /\ Pos(v, m, s) >= 1
  BY <1>1, <1>2, <1>3, <1>7 DEF Pos
<1> QED BY <1>4, <1>5, <1>6, <1>7 DEF v, m

LEMMA TableInvInit == switch!Init => TableInv
<1> SUFFICES ASSUME switch!Init PROVE TableInv
  OBVIOUS
<1>1. LUT_DEPTH \in Nat \ {0} /\ switch!Slot = 0 .. LUT_DEPTH - 1
  BY CoresAssumption DEF switch!SwitchAssumption, switch!Slot
<1>2. seen = << >> /\ lut_wr_addr = 0 /\ \A s \in switch!Slot : lut[s] = switch!NoEntry
  BY DEF switch!Init
<1>3. << >> \in Seq(Station) /\ Len(<< >>) = 0 /\ 1 .. 0 = {}
  OBVIOUS
<1>4. \A s \in switch!Slot : ~(Pos(0, 0, s) >= 1)
  BY <1>1 DEF Pos
<1> QED BY <1>1, <1>2, <1>3, <1>4 DEF TableInv

\* The table is what was learned.
LEMMA TableIsExact ==
    ASSUME SwitchShape, TableInv PROVE switch!TableExact
<1> DEFINE n == Len(seen)
           w == lut_wr_addr
           pos(s) == Pos(w, n, s)
<1>1. /\ n \in 0 .. LUT_DEPTH /\ w \in switch!Slot /\ (n < LUT_DEPTH => w = n)
      /\ DOMAIN seen = 1 .. n /\ \A i \in 1 .. n : seen[i] \in Station
  <2>1. LUT_DEPTH \in Nat
    BY CoresAssumption DEF switch!SwitchAssumption
  <2> QED BY <2>1 DEF TableInv, SwitchShape
<1>2. /\ \A s \in switch!Slot : pos(s) \in Int /\ pos(s) <= n
      /\ \A i \in 1 .. n : \E s \in switch!Slot : pos(s) = i
      /\ \A s, t \in switch!Slot : pos(s) = pos(t) => s = t
  <2> HIDE DEF n, w
  <2> QED BY <1>1, Slots
<1>3. /\ \A s \in switch!Slot : lut[s] = IF pos(s) >= 1 THEN EntryOf(seen[pos(s)]) ELSE switch!NoEntry
      /\ \A i, j \in 1 .. n : seen[i].mac = seen[j].mac => i = j
  BY DEF TableInv
<1>4. /\ \A i \in 1 .. n : EntryOf(seen[i]).mac = seen[i].mac /\ seen[i].mac \in Mac
      /\ NoMac \notin Mac /\ switch!NoEntry.mac = NoMac
  BY <1>1, CoresAssumption DEF EntryOf, Station, switch!NoEntry, switch!SwitchAssumption
<1> HIDE DEF n, w, pos
<1>5. \A s \in switch!Slot : (pos(s) >= 1 <=> lut[s].mac # NoMac)
                             /\ (pos(s) >= 1 => pos(s) \in 1 .. n)
  BY <1>1, <1>2, <1>3, <1>4
<1>6. {lut[i] : i \in {j \in switch!Slot : lut[j].mac # NoMac}} = {EntryOf(seen[i]) : i \in DOMAIN seen}
  <2>1. ASSUME NEW s \in switch!Slot, lut[s].mac # NoMac
        PROVE  lut[s] \in {EntryOf(seen[i]) : i \in DOMAIN seen}
    BY <1>1, <1>3, <1>5, <2>1
  <2>2. ASSUME NEW i \in DOMAIN seen
        PROVE  EntryOf(seen[i]) \in {lut[k] : k \in {j \in switch!Slot : lut[j].mac # NoMac}}
    <3>1. PICK s \in switch!Slot : pos(s) = i
      BY <1>1, <1>2
    <3>2. lut[s] = EntryOf(seen[i]) /\ lut[s].mac # NoMac
      BY <1>1, <1>3, <1>5, <3>1
    <3> QED BY <3>2
  <2> QED BY <2>1, <2>2
<1>7. \A i, j \in switch!Slot : i # j /\ lut[i].mac = lut[j].mac => lut[i].mac = NoMac
  <2> SUFFICES ASSUME NEW i \in switch!Slot, NEW j \in switch!Slot, lut[i].mac = lut[j].mac,
                      lut[i].mac # NoMac
               PROVE  i = j
    OBVIOUS
  <2>1. pos(i) \in 1 .. n /\ pos(j) \in 1 .. n
    BY <1>5
  <2>2. lut[i] = EntryOf(seen[pos(i)]) /\ lut[j] = EntryOf(seen[pos(j)])
    BY <1>3, <2>1
  <2>3. seen[pos(i)].mac = seen[pos(j)].mac
    BY <1>4, <2>1, <2>2
  <2> QED BY <1>2, <1>3, <2>1, <2>3
<1> QED BY <1>6, <1>7 DEF switch!TableExact, EntryOf

\* A header that is looked up is learned.
LEMMA TableInvNext ==
    ASSUME SwitchShape, TableInv, switch!Learn(FALSE), switch!SeenStep(FALSE)
    PROVE  TableInv'
<1> DEFINE b == parser.beat
           here == [mac |-> b.src, port |-> b.port]
           entry == [mac |-> b.src, ports |-> {b.port}]
           n == Len(seen)
           w == lut_wr_addr
           at == {i \in 1 .. n : seen[i].mac = b.src}
           pos(s) == Pos(w, n, s)
           same == switch!Matches(b.src)
<1>1. /\ n \in 0 .. LUT_DEPTH /\ w \in switch!Slot /\ (n < LUT_DEPTH => w = n)
      /\ DOMAIN seen = 1 .. n /\ (\A i \in 1 .. n : seen[i] \in Station) /\ seen \in Seq(Station)
      /\ LUT_DEPTH \in Nat \ {0}
  <2>1. LUT_DEPTH \in Nat \ {0}
    BY CoresAssumption DEF switch!SwitchAssumption
  <2> QED BY <2>1 DEF TableInv, SwitchShape
<1>2. /\ \A s \in switch!Slot : pos(s) \in Int /\ pos(s) <= n
      /\ \A i \in 1 .. n : \E s \in switch!Slot : pos(s) = i
      /\ \A s, t \in switch!Slot : pos(s) = pos(t) => s = t
  <2> HIDE DEF n, w
  <2> QED BY <1>1, Slots
<1>3. /\ \A s \in switch!Slot : lut[s] = IF pos(s) >= 1 THEN EntryOf(seen[pos(s)]) ELSE switch!NoEntry
      /\ \A i, j \in 1 .. n : seen[i].mac = seen[j].mac => i = j
  BY DEF TableInv
<1>4. /\ \A x : EntryOf(x).mac = x.mac
      /\ NoMac \notin Mac /\ switch!NoEntry.mac = NoMac /\ EntryOf(here) = entry /\ here.mac = b.src
  BY CoresAssumption DEF EntryOf, switch!NoEntry, switch!SwitchAssumption
<1>5. CASE ~parser.eth_done
  <2>1. UNCHANGED <<lut, lut_wr_addr, seen>>
    BY <1>5 DEF switch!Learn, switch!SeenStep
  <2> QED BY <2>1 DEF TableInv, Pos
<1>6. CASE parser.eth_done
  <2>1. here \in Station /\ b.src \in Mac
    BY <1>6 DEF SwitchShape, Beat, Station
  <2>2. /\ lut' = [s \in switch!Slot |-> IF s \in same \/ (same = {} /\ s = w) THEN entry ELSE lut[s]]
        /\ lut_wr_addr' = IF same = {} THEN (w + 1) % LUT_DEPTH ELSE w
    BY <1>6 DEF switch!Learn
  <2>3. seen' = IF at # {} THEN [i \in 1 .. n |-> IF i \in at THEN here ELSE seen[i]]
                ELSE IF n < LUT_DEPTH THEN Append(seen, here)
                ELSE Append(Tail(seen), here)
    BY <1>1, <1>6 DEF switch!SeenStep
  <2>4. same = {s \in switch!Slot : lut[s].mac = b.src}
    BY DEF switch!Matches
  <2> HIDE DEF b, here, entry, n, w, at, pos, same
  <2>5. \A s \in switch!Slot : s \in same <=> pos(s) >= 1 /\ pos(s) \in at
    BY <1>1, <1>2, <1>3, <1>4, <2>1, <2>4 DEF at
  <2>6. same = {} <=> at = {}
    <3>1. same # {} => at # {}
      BY <2>4, <2>5
    <3>2. ASSUME at # {} PROVE same # {}
      <4>1. PICK i \in 1 .. n : i \in at
        BY <3>2 DEF at
      <4>2. PICK s \in switch!Slot : pos(s) = i
        BY <1>2
      <4> QED BY <1>1, <2>5, <4>1, <4>2
    <3> QED BY <3>1, <3>2
  <2>7. CASE at # {}
    <3>1. seen' = [i \in 1 .. n |-> IF i \in at THEN here ELSE seen[i]]
          /\ lut_wr_addr' = w /\ same # {}
      BY <2>2, <2>3, <2>6, <2>7
    <3>2. seen' \in Seq(Station) /\ Len(seen') = n
      BY <1>1, <2>1, <3>1
    <3>3. \A i \in 1 .. n : seen'[i] = IF i \in at THEN here ELSE seen[i]
      BY <3>1
    <3>4. \A s \in switch!Slot : lut'[s] = IF pos(s) >= 1 THEN EntryOf(seen'[pos(s)]) ELSE switch!NoEntry
      <4> TAKE s \in switch!Slot
      <4>1. lut'[s] = IF s \in same THEN entry ELSE lut[s]
        BY <2>2, <3>1
      <4>2. pos(s) >= 1 => pos(s) \in 1 .. n
        BY <1>1, <1>2
      <4> QED BY <1>3, <1>4, <2>5, <3>3, <4>1, <4>2
    <3>5. \A i, j \in 1 .. n : seen'[i].mac = seen'[j].mac => i = j
      <4>1. \A i \in 1 .. n : seen'[i].mac = seen[i].mac
        BY <1>4, <3>3 DEF at
      <4> QED BY <1>3, <4>1
    <3> QED BY <1>1, <3>1, <3>2, <3>4, <3>5 DEF TableInv, pos
  <2>8. CASE at = {}
    <3> DEFINE v == (w + 1) % LUT_DEPTH
               m == IF n < LUT_DEPTH THEN n + 1 ELSE n
    <3>1. lut_wr_addr' = v /\ same = {}
      BY <2>2, <2>6, <2>8
    <3>2. /\ v \in switch!Slot /\ (m < LUT_DEPTH => v = m) /\ Pos(v, m, w) = m
          /\ \A s \in switch!Slot \ {w} :
                IF n < LUT_DEPTH
                THEN IF pos(s) >= 1 THEN Pos(v, m, s) = pos(s) ELSE Pos(v, m, s) < 1
                ELSE Pos(v, m, s) = pos(s) - 1 /\ Pos(v, m, s) >= 1
      BY <1>1, SlotsNext DEF pos
    <3>3. /\ seen' \in Seq(Station) /\ Len(seen') = m /\ seen'[m] = here
          /\ \A i \in 1 .. m - 1 : i \in Int /\ seen'[i] = IF n < LUT_DEPTH THEN seen[i] ELSE seen[i + 1]
          /\ m \in 1 .. LUT_DEPTH
      <4>1. CASE n < LUT_DEPTH
        <5>1. seen' = Append(seen, here) /\ m = n + 1 /\ n = Len(seen)
          BY <2>3, <2>8, <4>1 DEF n
        <5>2. /\ Append(seen, here) \in Seq(Station) /\ Len(Append(seen, here)) = Len(seen) + 1
              /\ Append(seen, here)[Len(seen) + 1] = here
              /\ \A i \in 1 .. Len(seen) : Append(seen, here)[i] = seen[i]
          BY <1>1, <2>1
        <5> QED BY <1>1, <4>1, <5>1, <5>2
      <4>2. CASE ~(n < LUT_DEPTH)
        <5>1. seen' = Append(Tail(seen), here) /\ m = n /\ n = Len(seen) /\ n >= 1
          BY <1>1, <2>3, <2>8, <4>2 DEF n
        <5>2. seen # << >>
          BY <5>1
        <5>3. /\ Tail(seen) \in Seq(Station) /\ Len(Tail(seen)) = Len(seen) - 1
              /\ \A i \in 1 .. Len(seen) - 1 : Tail(seen)[i] = seen[i + 1]
          BY <1>1, <5>2
        <5> DEFINE T == Tail(seen)
        <5> HIDE DEF T
        <5>4. \A U \in Seq(Station) : /\ Append(U, here) \in Seq(Station) /\ Len(Append(U, here)) = Len(U) + 1
              /\ Append(U, here)[Len(U) + 1] = here
              /\ \A i \in 1 .. Len(U) : Append(U, here)[i] = U[i]
          BY <2>1
        <5>5. /\ Append(T, here) \in Seq(Station) /\ Len(Append(T, here)) = n
              /\ Append(T, here)[n] = here
              /\ \A i \in 1 .. n - 1 : Append(T, here)[i] = T[i]
          <6>1. T \in Seq(Station) /\ Len(T) = n - 1
            BY <5>1, <5>3 DEF T
          <6>2. /\ Append(T, here) \in Seq(Station) /\ Len(Append(T, here)) = (n - 1) + 1
                /\ Append(T, here)[(n - 1) + 1] = here
                /\ \A i \in 1 .. n - 1 : Append(T, here)[i] = T[i]
            BY <5>4, <6>1
          <6>3. (n - 1) + 1 = n
            BY <1>1
          <6> QED BY <6>2, <6>3
        <5> QED BY <1>1, <4>2, <5>1, <5>3, <5>5 DEF T
      <4> QED BY <4>1, <4>2
    <3>4. \A s \in switch!Slot : Pos(v, m, s) \in Int /\ Pos(v, m, s) <= m
      <4> HIDE DEF v, m
      <4> QED BY <3>2, <3>3, Slots
    <3>5. w \in switch!Slot /\ \A s \in switch!Slot : lut'[s] = IF s = w THEN entry ELSE lut[s]
      BY <1>1, <2>2, <3>1
    <3>6. m = IF n < LUT_DEPTH THEN n + 1 ELSE n
      OBVIOUS
    <3> HIDE DEF v, m
    <3>7. \A s \in switch!Slot :
             lut'[s] = IF Pos(v, m, s) >= 1 THEN EntryOf(seen'[Pos(v, m, s)]) ELSE switch!NoEntry
      <4> TAKE s \in switch!Slot
      <4>1. CASE s = w
        BY <1>4, <3>2, <3>3, <3>5, <4>1
      <4>2. CASE s # w /\ n < LUT_DEPTH
        <5>1. lut'[s] = lut[s] /\ (IF pos(s) >= 1 THEN Pos(v, m, s) = pos(s) ELSE Pos(v, m, s) < 1)
          BY <3>2, <3>5, <4>2
        <5>2. CASE pos(s) >= 1
          <6>1. pos(s) \in 1 .. m - 1 /\ Pos(v, m, s) = pos(s)
            BY <1>1, <1>2, <3>6, <4>2, <5>1, <5>2
          <6> QED BY <1>3, <3>3, <4>2, <5>1, <5>2, <6>1
        <5>3. CASE ~(pos(s) >= 1)
          BY <1>3, <3>4, <5>1, <5>3
        <5> QED BY <5>2, <5>3
      <4>3. CASE s # w /\ ~(n < LUT_DEPTH)
        <5> DEFINE p == Pos(v, m, s)
        <5>1. lut'[s] = lut[s] /\ p = pos(s) - 1 /\ p >= 1
          BY <3>2, <3>5, <4>3
        <5>2. p \in Int /\ pos(s) \in Int /\ pos(s) <= n /\ m = n /\ n \in Nat
          BY <1>1, <1>2, <3>4, <3>6, <4>3
        <5> HIDE DEF p
        <5>3. p \in 1 .. m - 1 /\ p + 1 = pos(s) /\ pos(s) >= 1
          BY <5>1, <5>2
        <5>4. seen'[p] = seen[pos(s)]
          BY <3>3, <4>3, <5>3
        <5> QED BY <1>3, <5>1, <5>3, <5>4 DEF p
      <4> QED BY <4>1, <4>2, <4>3
    <3>8. \A i, j \in 1 .. m : seen'[i].mac = seen'[j].mac => i = j
      <4>1. \A i \in 1 .. n : seen[i].mac # b.src
        BY <2>8 DEF at
      <4>2. \A i \in 1 .. m - 1 : \E k \in 1 .. n : seen'[i] = seen[k] /\ k = IF n < LUT_DEPTH THEN i ELSE i + 1
        <5> TAKE i \in 1 .. m - 1
        <5>1. CASE n < LUT_DEPTH
          BY <1>1, <3>3, <3>6, <5>1
        <5>2. CASE ~(n < LUT_DEPTH)
          BY <1>1, <3>3, <3>6, <5>2
        <5> QED BY <5>1, <5>2
      <4>3. \A i \in 1 .. m - 1 : seen'[i].mac # seen'[m].mac
        BY <1>4, <3>3, <4>1, <4>2
      <4>4. \A i, j \in 1 .. m - 1 : seen'[i].mac = seen'[j].mac => i = j
        <5> SUFFICES ASSUME NEW i \in 1 .. m - 1, NEW j \in 1 .. m - 1, seen'[i].mac = seen'[j].mac
                     PROVE  i = j
          OBVIOUS
        <5>1. PICK k \in 1 .. n : seen'[i] = seen[k] /\ k = IF n < LUT_DEPTH THEN i ELSE i + 1
          BY <4>2
        <5>2. PICK l \in 1 .. n : seen'[j] = seen[l] /\ l = IF n < LUT_DEPTH THEN j ELSE j + 1
          BY <4>2
        <5>3. k = l
          BY <1>3, <5>1, <5>2
        <5> QED BY <3>3, <5>1, <5>2, <5>3
      <4>5. \A i \in 1 .. m : i = m \/ i \in 1 .. m - 1
        BY <3>3
      <4> QED BY <4>3, <4>4, <4>5
    <3> QED BY <1>1, <3>1, <3>2, <3>3, <3>7, <3>8 DEF TableInv
  <2> QED BY <2>7, <2>8
<1> QED BY <1>5, <1>6
-----------------------------------------------------------------------------
(* The counters                                                            *)

Looked == count["luthit"] + count["lutmiss"]

LookupsInv == count["luthit"] \in Int /\ count["lutmiss"] \in Int /\ switch!LookupsCounted

\* No clock clears the counters of lookups.
LookupsKept == \A clear \in Clears : clear \cap {"luthit", "lutmiss"} = {}

LEMMA LookupsInvInit == switch!Init => LookupsInv
<1> SUFFICES ASSUME switch!Init PROVE LookupsInv
  OBVIOUS
<1>1. count["luthit"] = 0 /\ count["lutmiss"] = 0
  BY DEF switch!Init, switch!Counter
<1>2. src.id = 0 /\ switch!Count(parser.eth_done) = 0 /\ switch!Count(found.lookup_done) = 0
  BY DEF switch!Init, switch!Count, switch!Nothing
<1> QED BY <1>1, <1>2 DEF LookupsInv, switch!LookupsCounted

LEMMA LookupsInvNext ==
    ASSUME SwitchInv, SwitchInv', LookupsInv, LookupsKept,
           NEW tvalid \in BOOLEAN, NEW b \in Beat, tvalid => Offered(b),
           NEW tready \in BOOLEAN, NEW clear \in Clears, switch!Clock(tvalid, b, tready, FALSE, clear)
    PROVE  LookupsInv'
<1> DEFINE r == CountLimit
           hit == found.hit /\ found.lookup_done
           miss == ~found.hit /\ found.lookup_done
           u == count["luthit"] + Count(hit)
           v == count["lutmiss"] + Count(miss)
           e == Count(parser.eth_done)
           c == Count(parser'.eth_done)
           d == Count(found'.lookup_done)
           id == src.id
           in == TakenIn(tvalid)
<1>1. SwitchShape /\ SwitchFifos /\ SwitchShape'
  BY DEF SwitchInv
<1>2. /\ found.hit \in BOOLEAN /\ found.lookup_done \in BOOLEAN /\ parser.eth_done \in BOOLEAN
      /\ found'.lookup_done \in BOOLEAN /\ parser'.eth_done \in BOOLEAN
      /\ id \in Nat /\ r \in Nat \ {0}
  BY <1>1, CoresAssumption DEF SwitchShape, switch!SwitchAssumption
<1>3. count["luthit"]' = u % r /\ count["lutmiss"]' = v % r
  <2>1. "luthit" \notin clear /\ "lutmiss" \notin clear
    BY DEF LookupsKept
  <2>2. /\ "luthit" \in switch!Counter /\ "lutmiss" \in switch!Counter
    BY DEF switch!Counter
  <2>3. LET event == switch!Event((tvalid /\ ~switch!in_fifo_nearly_full) /\ b.last, tready)
        IN  count' = [x \in switch!Counter |-> IF x \in clear THEN 0
                                               ELSE (count[x] + switch!Count(event[x])) % CountLimit]
    BY Zenon DEF switch!Clock
  <2>4. \A i, t : switch!Event(i, t).luthit = hit /\ switch!Event(i, t).lutmiss = miss
    BY DEF switch!Event
  <2>5. /\ count'["luthit"] = (count["luthit"] + switch!Count(hit)) % CountLimit
        /\ count'["lutmiss"] = (count["lutmiss"] + switch!Count(miss)) % CountLimit
    BY <2>1, <2>2, <2>3, <2>4
  <2> QED BY <2>5, SwitchFifo
<1>4. u \in Int /\ v \in Int /\ e \in Int /\ c \in Int /\ d \in Int
  BY DEF LookupsInv, Count
<1>5. u + v + e = count["luthit"] + count["lutmiss"] + Count(parser.eth_done) + Count(found.lookup_done)
  <2>1. Count(hit) + Count(miss) = Count(found.lookup_done)
    BY <1>2 DEF Count
  <2>2. Count(hit) \in Int /\ Count(miss) \in Int /\ Count(found.lookup_done) \in Int
    BY DEF Count
  <2> HIDE DEF hit, miss
  <2> QED BY <1>4, <2>1, <2>2 DEF LookupsInv
<1>6. (u + v + e) % r = id % r
  BY <1>5, SwitchFifo DEF LookupsInv, switch!LookupsCounted
<1>7. d = e
  <2>1. Found' = Parsed
    BY <1>1, SwitchEdge
  <2>2. found'.lookup_done <=> parser.eth_done
    BY <2>1 DEF Found, Parsed
  <2> QED BY <1>2, <2>2
<1>8. src'.id = id + c
  <2>1. Parsed' = (IF in THEN FirstOf(b) ELSE {}) /\ src'.id = (IF in THEN b.id ELSE id)
    BY <1>1, SwitchEdge
  <2>2. parser'.eth_done <=> in /\ b.first
    BY <2>1 DEF Parsed, FirstOf
  <2>3. in => b.id = (IF b.first THEN id + 1 ELSE id)
    BY DEF TakenIn, Offered
  <2> HIDE DEF in, id
  <2> QED BY <1>2, <2>1, <2>2, <2>3 DEF Count
<1> HIDE DEF r, hit, miss, u, v, e, c, d, id, in
<1>9. (u + v) % r = (id - e) % r
  <2> DEFINE a == u + v + e  f == -e
  <2>1. a \in Int /\ f \in Int /\ id \in Int /\ r \in Nat \ {0}
    BY <1>2, <1>4
  <2>2. a % r = id % r
    BY <1>6
  <2> HIDE DEF a, f
  <2>3. \A x, y, z \in Int : x % r = y % r => (x + z) % r = (y + z) % r
    BY <2>1, SameRemainder
  <2>4. (a + f) % r = (id + f) % r
    BY <2>1, <2>2, <2>3, Zenon
  <2>5. a + f = u + v /\ id + f = id - e
    BY <1>2, <1>4 DEF a, f
  <2> QED BY <2>4, <2>5
<1>10. ((u % r) + c + (v % r) + d) % r = (id - e + c + d) % r
  <2> DEFINE h == id - e
  <2>1. h \in Int /\ (u + v) % r = h % r
    BY <1>2, <1>4, <1>9
  <2> HIDE DEF h
  <2> DEFINE Given(i, j, m) == (i + j) % r = m % r
             Follow(i, j, k, l, m) == ((i % r) + k + (j % r) + l) % r = (m + k + l) % r
  <2>2. \A i, j, k, l, m \in Int : Given(i, j, m) => Follow(i, j, k, l, m)
    <3>1. \A i, j, k, l, m \in Int :
              (i + j) % r = m % r => ((i % r) + k + (j % r) + l) % r = (m + k + l) % r
      BY <1>2, TwoCounted
    <3> QED BY <3>1
  <2>3. Given(u, v, h)
    BY <2>1
  <2> HIDE DEF Given, Follow
  <2>4. Follow(u, v, c, d, h)
    BY <1>4, <2>1, <2>2, <2>3
  <2> QED BY <2>4 DEF h, Follow
<1>11. id - e + c + d = src'.id
  BY <1>2, <1>4, <1>7, <1>8
<1>12. u % r \in Int /\ v % r \in Int
  BY <1>2, <1>4
<1>13. ((u % r) + (v % r) + c + d) % r = src'.id % r
  <2> DEFINE x == u % r  y == v % r
  <2> HIDE DEF x, y
  <2>1. x \in Int /\ y \in Int
    BY <1>12 DEF x, y
  <2>2. x + c + y + d = x + y + c + d
    BY <1>4, <2>1
  <2>3. (x + c + y + d) % r = src'.id % r
    BY <1>10, <1>11 DEF x, y
  <2>4. (x + y + c + d) % r = src'.id % r
    BY <2>2, <2>3
  <2> QED BY <2>4 DEF x, y
<1> QED BY <1>3, <1>12, <1>13, SwitchFifo DEF LookupsInv, switch!LookupsCounted, c, d, r
-----------------------------------------------------------------------------
(* The theorem                                                             *)

SwitchAll == SwitchInv /\ TableInv /\ LookupsInv /\ (TReady = {TRUE} => Prompt)

LEMMA SwitchAllNext ==
    ASSUME Resets \subseteq {FALSE}, LookupsKept, SwitchAll, [switch!Next]_switchVars
    PROVE  SwitchAll'
<1>1. SwitchInv /\ TableInv /\ LookupsInv /\ (TReady = {TRUE} => Prompt) /\ SwitchShape
  BY DEF SwitchAll, SwitchInv
<1>2. SwitchInv'
  BY <1>1, SwitchInvNext
<1>3. CASE UNCHANGED switchVars
  <2>1. /\ UNCHANGED Found /\ UNCHANGED Parsed
        /\ UNCHANGED <<input_fifo, dst_port_fifo, src, seen, lut, lut_wr_addr, count, parser, found>>
    BY <1>3 DEF switchVars, Found, Parsed
  <2>2. TableInv'
    BY <1>1, <2>1 DEF TableInv
  <2>3. LookupsInv'
    BY <1>1, <2>1 DEF LookupsInv, switch!LookupsCounted
  <2>4. TReady = {TRUE} => Prompt'
    BY <1>1, <2>1 DEF Prompt, Lag, OutOf, FifoDepth
  <2> QED BY <1>2, <2>2, <2>3, <2>4 DEF SwitchAll
<1>4. CASE ~UNCHANGED switchVars
  <2>1. PICK tvalid \in BOOLEAN, b \in Beat, tready \in TReady, clear \in Clears :
                  /\ (tvalid => Offered(b)) /\ tready \in BOOLEAN
                  /\ switch!Clock(tvalid, b, tready, FALSE, clear)
    BY <1>1, <1>4, SwitchSteps
  <2>2. switch!Learn(FALSE) /\ switch!SeenStep(FALSE)
    BY <2>1, Zenon DEF switch!Clock
  <2>3. TableInv'
    BY <1>1, <2>2, TableInvNext
  <2>4. LookupsInv'
    BY <1>1, <1>2, <2>1, LookupsInvNext
  <2>5. TReady = {TRUE} => Prompt'
    <3> SUFFICES ASSUME TReady = {TRUE} PROVE Prompt'
      OBVIOUS
    <3>1. tready = TRUE
      BY <2>1
    <3> QED BY <1>1, <1>2, <2>1, <3>1, PromptNext
  <2> QED BY <1>2, <2>3, <2>4, <2>5 DEF SwitchAll
<1> QED BY <1>3, <1>4

\* switch_lite_output_port_lookup.v, whatever the packets, their lengths and the
\* stations, however long the sink stalls, and however often a station moves or is
\* forgotten: a packet is given the ports that were looked up for its own header, the
\* ports that wait fit into dst_port_fifo, the table holds the stations learned last, each
\* once and where it was heard last, and each packet is looked up once.
THEOREM PacketsGetOwnPorts ==
    ASSUME Resets \subseteq {FALSE}, LookupsKept, PortsHaveRoom
    PROVE  MCSpec => []OwnPorts
<1>1. MCInit => SwitchAll
  BY SwitchInvInit, TableInvInit, LookupsInvInit, PromptInit DEF MCInit, SwitchAll
<1>2. SwitchAll /\ [MCNext]_<<unit, vars, stageVars, switchVars>> => SwitchAll'
  <2> SUFFICES ASSUME SwitchAll, [MCNext]_<<unit, vars, stageVars, switchVars>> PROVE SwitchAll'
    OBVIOUS
  <2>1. [switch!Next]_switchVars
    BY DEF MCNext
  <2> QED BY <2>1, SwitchAllNext
<1>3. SwitchAll => OwnPorts
  <2> SUFFICES ASSUME SwitchAll PROVE OwnPorts
    OBVIOUS
  <2>1. SwitchInv /\ TableInv /\ LookupsInv /\ (TReady = {TRUE} => Prompt) /\ SwitchShape
    BY DEF SwitchAll, SwitchInv
  <2>2. switch!OwnPorts /\ switch!PortsFit /\ switch!TableExact
    BY <2>1, SwitchJoins, RoomForPorts, TableIsExact
  <2> QED BY <2>1, <2>2 DEF OwnPorts, LookupsInv
<1> QED BY <1>1, <1>2, <1>3, PTL DEF MCSpec
=============================================================================
