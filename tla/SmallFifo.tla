----------------------------- MODULE SmallFifo -----------------------------
(***************************************************************************)
(* small_fifo.v: a synchronous FIFO in a memory of MAX_DEPTH words with a  *)
(* read pointer, a write pointer and a depth counter.  One step is one     *)
(* rising edge of clk; wr_en, din, rd_en and reset are the inputs of that  *)
(* edge.  The simulation-only checks of the source (lines 113 to 121)      *)
(* report a write to a full FIFO and a read of an empty one as errors; they *)
(* are the contract of the users and the guards of Clock.                  *)
(***************************************************************************)
EXTENDS Integers, Sequences

CONSTANTS Word,       \* the values of din and dout
          MAX_DEPTH   \* 2 ** MAX_DEPTH_BITS

ASSUME MaxDepthAssumption == MAX_DEPTH \in Nat \ {0}

VARIABLES queue,      \* the memory
          rd_ptr, wr_ptr,
          depth,
          dout        \* the output register

vars == <<queue, rd_ptr, wr_ptr, depth, dout>>

Slot == 0 .. MAX_DEPTH - 1

full == depth = MAX_DEPTH
nearly_full == depth >= MAX_DEPTH - 1
empty == depth = 0

\* A MAX_DEPTH_BITS wide pointer rolls over.
NextSlot(p) == (p + 1) % MAX_DEPTH

\* The state after reset.  Memory and dout have no reset value: any will do.
Init == /\ queue \in [Slot -> Word]
        /\ dout \in Word
        /\ rd_ptr = 0 /\ wr_ptr = 0 /\ depth = 0

\* Mutant: blocking assignments, so a read of a full FIFO in the clock of a
\* write returns the word being written.
MutantSampleData(wr_en, din, rd_en) ==
    /\ queue' = IF wr_en THEN [queue EXCEPT ![wr_ptr] = din] ELSE queue
    /\ dout' = IF rd_en THEN queue'[rd_ptr] ELSE dout

\* The data ports, clocked with and without reset.  Non-blocking assignments:
\* a read of the slot being written returns the old word.
SampleData(wr_en, din, rd_en) ==
    /\ queue' = IF wr_en THEN [queue EXCEPT ![wr_ptr] = din] ELSE queue
    /\ dout' = IF rd_en THEN queue[rd_ptr] ELSE dout

\* Mutant: a write in the clock of a read still counts up.
MutantMovePointers(wr_en, rd_en) ==
    /\ wr_ptr' = IF wr_en THEN NextSlot(wr_ptr) ELSE wr_ptr
    /\ rd_ptr' = IF rd_en THEN NextSlot(rd_ptr) ELSE rd_ptr
    /\ depth' = IF wr_en /\ ~full THEN depth + 1
                ELSE IF ~wr_en /\ rd_en THEN depth - 1 ELSE depth

MovePointers(wr_en, rd_en) ==
    /\ wr_ptr' = IF wr_en THEN NextSlot(wr_ptr) ELSE wr_ptr
    /\ rd_ptr' = IF rd_en THEN NextSlot(rd_ptr) ELSE rd_ptr
    /\ depth' = IF wr_en /\ ~rd_en THEN depth + 1
                ELSE IF ~wr_en /\ rd_en THEN depth - 1 ELSE depth

\* The two conditions the source displays as errors.
Legal(wr_en, rd_en) == /\ ~(wr_en /\ full /\ ~rd_en)
                       /\ ~(rd_en /\ empty)

Clock(wr_en, din, rd_en) ==
    /\ Legal(wr_en, rd_en)
    /\ SampleData(wr_en, din, rd_en)
    /\ MovePointers(wr_en, rd_en)

Reset(wr_en, din, rd_en) ==
    /\ SampleData(wr_en, din, rd_en)
    /\ rd_ptr' = 0 /\ wr_ptr' = 0 /\ depth' = 0

Next == \E wr_en, rd_en \in BOOLEAN, din \in Word :
            Clock(wr_en, din, rd_en) \/ Reset(wr_en, din, rd_en)

Spec == Init /\ [][Next]_vars
-----------------------------------------------------------------------------
(* Properties *)

TypeOK == /\ queue \in [Slot -> Word]
          /\ rd_ptr \in Slot
          /\ wr_ptr \in Slot
          /\ depth \in 0 .. MAX_DEPTH
          /\ dout \in Word

\* The depth counter of small_fifo.v, updated from wr_en and rd_en alone, stays
\* the distance between the two pointers, and tells full from empty where the
\* pointers are equal: the invariant behind the full and empty flags.
DepthIsPointerDistance ==
    wr_ptr = IF rd_ptr + depth < MAX_DEPTH
                THEN rd_ptr + depth
                ELSE rd_ptr + depth - MAX_DEPTH

\* The slot i words on from slot p, the oldest one being the first.
SlotOf(p, i) == IF p + i - 1 < MAX_DEPTH THEN p + i - 1 ELSE p + i - 1 - MAX_DEPTH

\* The n words that memory q holds from slot p on.
Window(q, p, n) == [i \in 1 .. n |-> q[SlotOf(p, i)]]

\* The words stored, oldest first: the refinement mapping.
Stored == Window(queue, rd_ptr, depth)

Abstract == INSTANCE BoundedFifo WITH items <- Stored, out <- dout

\* small_fifo.v with its wrapping pointers implements the bounded queue: words
\* come out once each, in the order they went in, across pointer roll-over.
ImplementsQueue == Abstract!Spec
=============================================================================
