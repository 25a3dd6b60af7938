--------------------------- MODULE FallthroughFifo --------------------------
(***************************************************************************)
(* fallthrough_small_fifo.v: a small_fifo followed by two word registers,  *)
(* middle_dout and dout, so that the oldest word stands at dout before it   *)
(* is asked for.  The inner FIFO's output register is fifo_dout.  One step  *)
(* is one clock edge.                                                      *)
(***************************************************************************)
EXTENDS Integers, Sequences, FwftFifo

CONSTANTS Word,       \* the values of din and dout
          ZeroWord,   \* the word with all bits zero
          MAX_DEPTH   \* 2 ** MAX_DEPTH_BITS, the words of the memory

\* What the constants must be like.
WordAssumption == ZeroWord \in Word

VARIABLES queue, rd_ptr, wr_ptr, depth, fifo_dout,   \* the inner small_fifo
          fifo_valid, middle_valid, dout_valid,
          middle_dout, dout

fifoVars == <<queue, rd_ptr, wr_ptr, depth, fifo_dout>>
stageVars == <<fifo_valid, middle_valid, dout_valid, middle_dout, dout>>
vars == <<fifoVars, stageVars>>

fifo == INSTANCE SmallFifo WITH dout <- fifo_dout

Init == /\ fifo!Init
        /\ fifo_valid = FALSE /\ middle_valid = FALSE /\ dout_valid = FALSE
        /\ middle_dout = ZeroWord /\ dout = ZeroWord

empty == ~dout_valid

willUpdateDout(rd_en) == (middle_valid \/ fifo_valid) /\ (rd_en \/ ~dout_valid)

\* Mutant: the middle register also takes a word that goes straight to dout.
MutantWillUpdateMiddle(rd_en) == fifo_valid

willUpdateMiddle(rd_en) == fifo_valid /\ (middle_valid = willUpdateDout(rd_en))

\* Mutant: an empty test that is off by one.
MutantKeepsLast == depth > 1 /\ ~(middle_valid /\ dout_valid /\ fifo_valid)

fifoRdEn == ~fifo!empty /\ ~(middle_valid /\ dout_valid /\ fifo_valid)

MoveStages(rd_en) ==
    /\ middle_dout' = IF willUpdateMiddle(rd_en) THEN fifo_dout ELSE middle_dout
    /\ dout' = IF willUpdateDout(rd_en)
                  THEN IF middle_valid THEN middle_dout ELSE fifo_dout
                  ELSE dout
    /\ fifo_valid' = SetClear(fifo_valid, fifoRdEn,
                              willUpdateMiddle(rd_en) \/ willUpdateDout(rd_en))
    /\ middle_valid' = SetClear(middle_valid, willUpdateMiddle(rd_en), willUpdateDout(rd_en))
    /\ dout_valid' = SetClear(dout_valid, willUpdateDout(rd_en), rd_en)

Clock(wr_en, din, rd_en) ==
    /\ ~(wr_en /\ fifo!full /\ ~fifoRdEn)     \* the contract of small_fifo's users
    /\ fifo!SampleData(wr_en, din, fifoRdEn)
    /\ fifo!MovePointers(wr_en, fifoRdEn)
    /\ MoveStages(rd_en)

Reset(wr_en, din) ==
    /\ fifo!Reset(wr_en, din, fifoRdEn)
    /\ fifo_valid' = FALSE /\ middle_valid' = FALSE /\ dout_valid' = FALSE
    /\ middle_dout' = ZeroWord /\ dout' = ZeroWord

Next == \E wr_en, rd_en \in BOOLEAN, din \in Word :
            Clock(wr_en, din, rd_en) \/ Reset(wr_en, din)

\* The clock never stops: a register that every clock edge changes does change.
\* This asks nothing of wr_en: with no word held no edge changes the registers.
Spec == /\ Init
        /\ [][Next]_vars
        /\ WF_stageVars(\E wr_en, rd_en \in BOOLEAN, din \in Word : Clock(wr_en, din, rd_en))
-----------------------------------------------------------------------------
(* Properties *)

\* The words held, oldest first, and the record of FwftFifo they make up.
Words == (IF dout_valid THEN <<dout>> ELSE << >>)
         \o (IF middle_valid THEN <<middle_dout>> ELSE << >>)
         \o (IF fifo_valid THEN <<fifo_dout>> ELSE << >>)
         \o fifo!Stored

view == [items |-> Words, fv |-> fifo_valid, mv |-> middle_valid, dv |-> dout_valid,
         dout |-> dout]

\* What FwftFifo does at a clock edge, without and with reset.
FwftStep == \/ \E wr_en, rd_en \in BOOLEAN, din \in Word : view' = Step(view, wr_en, din, rd_en)
            \/ view' = EmptyFifo(ZeroWord)

\* fallthrough_small_fifo.v implements FwftFifo: with its three word registers
\* filling and draining in any pattern, no word is lost, repeated or overtaken.
ImplementsFwft == view = EmptyFifo(ZeroWord) /\ [][FwftStep]_view

\* A word in the FIFO comes to stand at dout, so empty does not hide it for ever.
HeadSurfaces == Words # << >> ~> (~empty \/ Words = << >>)
=============================================================================
