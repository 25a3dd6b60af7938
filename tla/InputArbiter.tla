---------------------------- MODULE InputArbiter ----------------------------
(***************************************************************************)
(* input_arbiter.v: three input FIFOs and a round-robin state machine that *)
(* hands one whole packet after another to the master stream.  One step is *)
(* one edge of axis_aclk.  A beat is modelled by its tlast alone; the rest *)
(* of it is only carried.                                                  *)
(***************************************************************************)
EXTENDS Integers, Sequences, FwftFifo, Sums

CONSTANTS Active,       \* the queues whose sources send at all
          MaxLen,       \* the longest packet, in beats
          MAX_DEPTH,    \* of an input FIFO's memory: 2 ** IN_FIFO_DEPTH_BIT
          CountLimit,   \* 2 ** 31, the values of a counter field
          Clears,       \* the sets of counters the register file may clear in a clock
          None          \* no queue

Queue == 0 .. 2         \* NUM_QUEUES = 3
Counter == {"pktin", "pktout"}

ArbiterAssumption ==
    /\ Active \subseteq Queue
    /\ MaxLen \in Nat \ {0} /\ MAX_DEPTH \in Nat \ {0} /\ CountLimit \in Nat \ {0}
    /\ Clears \subseteq SUBSET Counter
    /\ None \notin Queue

VARIABLES fifo,         \* in_arb_fifo of each queue
          state,        \* IDLE or WR_PKT
          cur_queue,
          count,        \* pktin_reg and pktout_reg: field and overflow bit
          sent,         \* per source: beats of its current packet handed in
          open          \* the queue whose packet is under way on the master stream

vars == <<fifo, state, cur_queue, count, sent, open>>

Zero == [n |-> 0, ovf |-> FALSE]

Init == /\ fifo = [q \in Queue |-> EmptyFifo(FALSE)]
        /\ state = "IDLE"
        /\ cur_queue = 0
        /\ count = [c \in Counter |-> Zero]
        /\ sent = [q \in Queue |-> 0]
        /\ open = None
-----------------------------------------------------------------------------
(* Signals *)

nearly_full(q) == FifoDepth(fifo[q]) >= MAX_DEPTH - 1
empty(q) == IsEmpty(fifo[q])
m_axis_tlast == fifo[cur_queue].dout
m_axis_tvalid == ~empty(cur_queue)

\* Mutant: the lowest queue with a beat always wins.
MutantNextQueue == IF \E q \in Queue : ~empty(q)
                   THEN CHOOSE q \in Queue : ~empty(q) /\ \A p \in Queue : ~empty(p) => q <= p
                   ELSE (cur_queue + 1) % 3

\* The first of the other queues, then the current one, that shows a beat; the
\* next queue when none does.
next_queue == LET ahead(i) == (cur_queue + i) % 3
              IN  IF ~empty(ahead(1)) THEN ahead(1)
                  ELSE IF ~empty(ahead(2)) THEN ahead(2)
                  ELSE IF ~empty(ahead(3)) THEN ahead(3)
                  ELSE ahead(1)

\* What the state machine does in a clock: the state and the queue it goes to,
\* and whether it reads the current queue.
Decision(s, q, rd) == [state |-> s, queue |-> q, rd_en |-> rd]

\* Mutant: the packet is taken to be over when its queue runs dry.
MutantLeavesEarly(tready) ==
    IF state = "WR_PKT"
    THEN IF empty(cur_queue) \/ (tready /\ m_axis_tlast)
            THEN Decision("IDLE", next_queue, ~empty(cur_queue))
            ELSE Decision("WR_PKT", cur_queue, tready)
    ELSE IF empty(cur_queue) THEN Decision("IDLE", next_queue, FALSE)
    ELSE IF tready /\ m_axis_tlast THEN Decision("IDLE", next_queue, TRUE)
    ELSE IF tready THEN Decision("WR_PKT", cur_queue, TRUE)
    ELSE Decision("IDLE", cur_queue, FALSE)

\* In WR_PKT the source looks at m_axis_tlast without looking at empty.
Arbitrate(tready) ==
    IF state = "WR_PKT"
    THEN IF tready /\ m_axis_tlast THEN Decision("IDLE", next_queue, TRUE)
         ELSE Decision("WR_PKT", cur_queue, tready /\ ~empty(cur_queue))
    ELSE IF empty(cur_queue) THEN Decision("IDLE", next_queue, FALSE)
    ELSE IF tready /\ m_axis_tlast THEN Decision("IDLE", next_queue, TRUE)
    ELSE IF tready THEN Decision("WR_PKT", cur_queue, TRUE)
    ELSE Decision("IDLE", cur_queue, FALSE)
-----------------------------------------------------------------------------
(* A clock edge.  offer[q] says what source q puts on its stream. *)

Offers == {o \in [Queue -> {"idle", "beat", "last"}] :
              \A q \in Queue : /\ q \notin Active => o[q] = "idle"
                               /\ sent[q] = MaxLen - 1 => o[q] # "beat"}

Accepted(offer, q) == offer[q] # "idle" /\ ~nearly_full(q)

\* A counter register.  The sum is compared in 31 bits with the largest 31-bit
\* number, which it never exceeds (nor does pktin's, which adds the field twice).
CountUp(r, k) == [n |-> (r.n + k) % CountLimit,
                  ovf |-> r.ovf \/ (r.n + k) % CountLimit > CountLimit - 1]

\* Mutant: packets are counted that a full queue turns away.
MutantEnded(offer, q) == Count(offer[q] = "last")

\* A packet of source q is in with its last beat.
Ended(offer, q) == Count(Accepted(offer, q) /\ offer[q] = "last")

RegisterStep(offer, tready, clear) ==
    count' = [c \in Counter |->
        IF c \in clear THEN Zero
        ELSE CountUp(count[c], IF c = "pktin"
                               THEN Ended(offer, 0) + Ended(offer, 1) + Ended(offer, 2)
                               ELSE Count(m_axis_tvalid /\ m_axis_tlast /\ tready))]

Clock(offer, tready, clear) ==
    LET d == Arbitrate(tready)
    IN  /\ fifo' = [q \in Queue |-> Step(fifo[q], Accepted(offer, q), offer[q] = "last",
                                         d.rd_en /\ q = cur_queue)]
        /\ state' = d.state
        /\ cur_queue' = d.queue
        /\ RegisterStep(offer, tready, clear)
        /\ sent' = [q \in Queue |-> IF ~Accepted(offer, q) THEN sent[q]
                                    ELSE IF offer[q] = "last" THEN 0 ELSE sent[q] + 1]
        /\ open' = IF ~(m_axis_tvalid /\ tready) THEN open
                   ELSE IF m_axis_tlast THEN None ELSE cur_queue

Next == \E offer \in Offers, tready \in BOOLEAN, clear \in Clears :
            Clock(offer, tready, clear)

\* A source that has begun a packet goes on with it when its FIFO has room.
Finish(q) == \E offer \in Offers, tready \in BOOLEAN, clear \in Clears :
                 sent[q] > 0 /\ Accepted(offer, q) /\ Clock(offer, tready, clear)

\* The sink is ready again and again.
Drain == \E offer \in Offers, clear \in Clears : Clock(offer, TRUE, clear)

Spec == Init /\ [][Next]_vars
FairSpec == Spec /\ WF_vars(Drain) /\ \A q \in Queue : WF_vars(Finish(q))
-----------------------------------------------------------------------------
(* Properties *)

\* Packets of different ports never mix: while a packet is under way on the master
\* stream, the arbiter is in WR_PKT and on the queue it began with, also when that
\* queue runs dry in the middle.
NoInterleaving == IF open = None THEN state = "IDLE"
                  ELSE state = "WR_PKT" /\ cur_queue = open

\* A beat is read from its FIFO exactly when it is handed over: none is repeated
\* and none is skipped, though WR_PKT acts on m_axis_tlast of an empty FIFO.
ReadIffHanded == \A tready \in BOOLEAN :
                     Arbitrate(tready).rd_en <=> (m_axis_tvalid /\ tready)

\* The packets of a queue whose last beat waits inside.
Waiting(q) == SumOf([i \in DOMAIN fifo[q].items |-> Count(fifo[q].items[i])])

\* The two packet counters differ by the packets whose last beat waits inside.
CountersConserve ==
    (count["pktin"].n - count["pktout"].n) % CountLimit
        = (Waiting(0) + Waiting(1) + Waiting(2)) % CountLimit

\* No port is starved: a queue that shows a beat gets its turn, however busy the
\* other ports are.
NoStarvation == \A q \in Queue : ~empty(q) ~> cur_queue = q
=============================================================================
