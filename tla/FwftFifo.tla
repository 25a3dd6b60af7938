------------------------------ MODULE FwftFifo ------------------------------
(***************************************************************************)
(* What fallthrough_small_fifo.v promises, clock by clock, without its     *)
(* memory and its three word registers.  A FIFO is a record:               *)
(*   items   the words written and not yet read, oldest first              *)
(*   fv, mv, dv  the fifo_valid, middle_valid and dout_valid flags: how    *)
(*           many of the items have left the memory                        *)
(*   dout    the word at the output: the oldest item when dv holds, and    *)
(*           otherwise the word that was there last                        *)
(* The flags matter to the users: they delay a word on its way to dout and *)
(* free its place in the memory, which is what nearly_full counts.         *)
(* FallthroughFifo, the registers themselves, implements Step; the lookup  *)
(* stage, the arbiter and the output queues are built on these operators.  *)
(***************************************************************************)
EXTENDS Integers, Sequences

\* A FIFO after reset; w is the word with all bits zero.
EmptyFifo(w) == [items |-> << >>, fv |-> FALSE, mv |-> FALSE, dv |-> FALSE, dout |-> w]

Count(b) == IF b THEN 1 ELSE 0

\* The words still in the memory: the depth counter of the inner small_fifo.
FifoDepth(f) == Len(f.items) - Count(f.fv) - Count(f.mv) - Count(f.dv)

IsEmpty(f) == ~f.dv

will_update_dout(f, rd_en) == (f.mv \/ f.fv) /\ (rd_en \/ ~f.dv)

will_update_middle(f, rd_en) == f.fv /\ (f.mv = will_update_dout(f, rd_en))

fifo_rd_en(f) == FifoDepth(f) > 0 /\ ~(f.mv /\ f.dv /\ f.fv)

\* A flag that one condition sets and, failing that, another clears.
SetClear(flag, set, clear) == set \/ (flag /\ ~clear)

\* One clock edge.  A read of an empty FIFO has no effect.
Step(f, wr_en, din, rd_en) ==
    LET wud == will_update_dout(f, rd_en)
        wum == will_update_middle(f, rd_en)
        left == IF rd_en /\ f.dv THEN Tail(f.items) ELSE f.items
    IN  [items |-> IF wr_en THEN Append(left, din) ELSE left,
         fv |-> SetClear(f.fv, fifo_rd_en(f), wum \/ wud),
         mv |-> SetClear(f.mv, wum, wud),
         dv |-> SetClear(f.dv, wud, rd_en),
         dout |-> IF wud THEN Head(left) ELSE f.dout]
=============================================================================
