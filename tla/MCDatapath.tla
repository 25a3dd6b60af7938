----------------------------- MODULE MCDatapath -----------------------------
(***************************************************************************)
(* The two ends of the reference data path, one at a time:                 *)
(*   "arbiter"  input_arbiter; for TLC packets of one or two beats and FIFO *)
(*              memories of two words, so that a queue both fills and runs *)
(*              dry within a packet;                                       *)
(*   "queues"   output_queues; for TLC packets of one to three words to one *)
(*              queue or two, buffers of four words that take a packet     *)
(*              below one word.                                            *)
(***************************************************************************)
EXTENDS OutputQueues

CONSTANTS Active, MaxLen, MAX_DEPTH, None,   \* of the arbiter
          ArbiterLimit, ArbiterClears        \* its CountLimit and Clears

VARIABLES unit, fifo, a_state, a_cur_queue, a_count, sent, open

arbiterVars == <<fifo, a_state, a_cur_queue, a_count, sent, open>>

arbiter == INSTANCE InputArbiter WITH
    CountLimit <- ArbiterLimit, Clears <- ArbiterClears,
    state <- a_state, cur_queue <- a_cur_queue, count <- a_count

\* Short and long packets to queue 0, and one to queues 0 and 2 together.
MCKinds == {[oq |-> {0}, len |-> 1], [oq |-> {0}, len |-> 3], [oq |-> {0, 2}, len |-> 2]}

ASSUME DatapathAssumption == BufferAssumption /\ SourceAssumption /\ arbiter!ArbiterAssumption

MCInit == Init /\ arbiter!Init /\ unit \in {"arbiter", "queues"}

MCNext == /\ UNCHANGED unit
          /\ \/ unit = "arbiter" /\ arbiter!Next /\ UNCHANGED vars
             \/ unit = "queues" /\ Next /\ UNCHANGED arbiterVars

\* The sink takes beats and sources finish their packets (InputArbiter).
MCSpec == /\ MCInit /\ [][MCNext]_<<unit, vars, arbiterVars>>
          /\ WF_arbiterVars(unit = "arbiter" /\ arbiter!Drain)
          /\ \A q \in Queue : WF_arbiterVars(unit = "arbiter" /\ arbiter!Finish(q))

\* input_arbiter.v: packets of different ports never mix (InputArbiter).
NoInterleaving == arbiter!NoInterleaving
\* input_arbiter.v: a queue that shows a beat gets its turn (InputArbiter).
NoStarvation == arbiter!NoStarvation
\* input_arbiter.v and output_queues.v: the counters account for every packet and
\* byte that is inside (CountersConserve of InputArbiter and of OutputQueues).
PacketsCounted == arbiter!CountersConserve /\ CountersConserve
=============================================================================
