------------------------------ MODULE MCCores ------------------------------
(***************************************************************************)
(* The small cores, one at a time: in a behaviour one unit runs.           *)
(*   "small"   small_fifo by itself, written and read at will;             *)
(*   "fall"    fallthrough_small_fifo: small_fifo, in the same variables,   *)
(*             with the output registers behind it;                        *)
(*   "switch"  switch_lite_output_port_lookup.                             *)
(* TLC takes a memory of four words for the FIFOs (MAX_DEPTH_BITS = 2, as  *)
(* in the lookup stages) and two words, which tell an order; for the switch *)
(* a table of two entries and three stations, one of which is heard on two *)
(* ports.                                                                  *)
(***************************************************************************)
EXTENDS SmallFifo

CONSTANTS ZeroWord,                                   \* of fallthrough_small_fifo
          Mac, NoMac, Headers, LUT_DEPTH, PORT_DEPTH, \* of the switch
          CountLimit, TReady, Resets, Clears, MaxBeats, MaxPackets

VARIABLES unit,
    fifo_valid, middle_valid, dout_valid, middle_dout, fall_dout,
    input_fifo, dst_port_fifo, parser, lut, lut_wr_addr, found, state, count, src, seen

stageVars == <<fifo_valid, middle_valid, dout_valid, middle_dout, fall_dout>>
switchVars == <<input_fifo, dst_port_fifo, parser, lut, lut_wr_addr, found, state, count, src, seen>>

\* The output register of small_fifo is the first of the three that follow it.
fall == INSTANCE FallthroughFifo WITH fifo_dout <- dout, dout <- fall_dout

switch == INSTANCE SwitchLite

header(d, s, p) == [dst |-> d, src |-> s, port |-> p]
MCHeaders == {header("b", "a", 0), header("a", "b", 2), header("a", "c", 2), header("c", "a", 2)}

ASSUME CoresAssumption == fall!WordAssumption /\ switch!SwitchAssumption

MCInit == /\ fall!Init /\ switch!Init
          /\ unit \in {"small", "fall", "switch"}
          /\ unit # "small" => dout = ZeroWord /\ queue = [i \in Slot |-> ZeroWord]

MCNext == /\ UNCHANGED unit
          /\ \/ unit = "small" /\ Next /\ UNCHANGED <<stageVars, switchVars>>
             \/ unit = "fall" /\ fall!Next /\ UNCHANGED switchVars
             \/ unit = "switch" /\ switch!Next /\ UNCHANGED <<vars, stageVars>>

\* The clock does not stop.
MCSpec ==
    /\ MCInit /\ [][MCNext]_<<unit, vars, stageVars, switchVars>>
    /\ WF_(stageVars)(unit = "fall" /\ \E wr_en, rd_en \in BOOLEAN, din \in Word :
                                               fall!Clock(wr_en, din, rd_en))
    /\ WF_(switchVars)(unit = "switch" /\ switch!Next)

\* fallthrough_small_fifo.v loses, repeats and swaps no word (FallthroughFifo).
ImplementsFwft == fall!view = fall!EmptyFifo(ZeroWord)
                  /\ [][unit = "fall" => fall!FwftStep]_(fall!view)
\* A word held in fallthrough_small_fifo.v comes to stand at dout (FallthroughFifo).
HeadSurfaces == unit = "fall" => fall!HeadSurfaces
\* switch_lite_output_port_lookup.v: a packet is given the ports of its own header,
\* which do not overflow the FIFO they wait in, and the table is what was learned
\* (SwitchLite).
OwnPorts == switch!OwnPorts /\ switch!PortsFit /\ switch!TableExact /\ switch!LookupsCounted
\* switch_lite_output_port_lookup.v: every beat leaves (SwitchLite).
PacketsLeave == switch!PacketsLeave
=============================================================================
