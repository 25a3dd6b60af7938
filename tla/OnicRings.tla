------------------------------ MODULE OnicRings ------------------------------
(***************************************************************************)
(* The packet paths of the OpenNIC driver (onic_netdev.c): one transmit    *)
(* ring, filled by the network stack and cleaned by the stack and by the   *)
(* NAPI poll of every receive queue, and the receive queues, each with a   *)
(* descriptor ring, a completion ring and an interrupt that the driver     *)
(* arms again when it has caught up.  Packets are numbered in the order    *)
(* in which they enter a ring.                                             *)
(***************************************************************************)
EXTENDS Naturals, Sequences

CONSTANTS RxQueues,     \* the receive queues, one NAPI context each
          TxCount,      \* real_count of the transmit ring
          RxCount,      \* real_count of the descriptor and completion rings
          Step,         \* ONIC_RX_DESC_STEP
          Budget,       \* what NAPI lets one poll deliver
          MaxTx, MaxRx, \* bounds: packets sent, packets received per queue
          DmaFails,     \* whether dma_map_single may fail
          Short         \* the skbs below 60 bytes, whose padding may fail

ASSUME RingsAssumption ==
    /\ TxCount \in Nat /\ RxCount \in Nat /\ Step \in Nat /\ Budget \in Nat
    /\ MaxTx \in Nat /\ MaxRx \in Nat /\ DmaFails \in BOOLEAN
    /\ Short \subseteq Nat
    /\ Step + Step \div 2 <= RxCount
    /\ TxCount > 1 /\ Step > 1 /\ Budget > 0
    /\ "xmit" \notin RxQueues

VARIABLES
    tx,     \* the transmit ring: use, clean, buf (skb of each descriptor), busy
            \* (bit 0 of state), head (doorbell), hw, wb (written-back index),
            \* unpadded (skbs that skb_put_padto has freed)
    batch,  \* the stack promised another packet with the last one it gave
    sent,   \* packets the hardware fetched, in order
    freed,  \* skbs that onic_tx_clean gave back to the kernel, in order
    rx,     \* each receive queue, driver and hardware side: use, clean, buf of the
            \* descriptor ring; done, cmpl (packet of each completion) of the
            \* completion ring; len (packet whose length is read) and seen of a poll
    out,    \* packets delivered to the stack, per queue
    pc,     \* where each thread is
    left    \* packets each thread has yet to clean

vars == <<tx, batch, sent, freed, rx, out, pc, left>>

Threads == {"xmit"} \cup RxQueues

Init ==
    /\ tx = [use |-> 0, clean |-> 0, buf |-> [i \in 0 .. TxCount - 1 |-> 0],
             busy |-> FALSE, head |-> 0, hw |-> 0, wb |-> 0, last |-> 0, unpadded |-> {}]
    /\ rx = [q \in RxQueues |->
                [use |-> Step, clean |-> 0, done |-> 0, seen |-> 0, work |-> 0,
                 buf |-> [i \in 0 .. RxCount - 1 |-> 0], last |-> 0,
                 cmpl |-> [i \in 0 .. RxCount - 1 |-> 0], len |-> 0, empty |-> FALSE,
                 pidx |-> 0, cidx |-> 0, armed |-> TRUE, napi |-> "idle"]]
    /\ batch = FALSE
    /\ sent = <<>>
    /\ freed = <<>>
    /\ out = [q \in RxQueues |-> <<>>]
    /\ pc = [t \in Threads |-> "idle"]
    /\ left = [t \in Threads |-> 0]

Goto(t, l) == pc' = [pc EXCEPT ![t] = l]

(* onic_ring_full and the two increments. *)
Full(use, clean, count) == (use + 1) % count = clean

Next1(i, count) == (i + 1) % count

(***************************************************************************)
(* onic_tx_clean.  Whoever finds the bit set leaves the ring to the thread *)
(* that set it.                                                            *)
(***************************************************************************)

\* Mutant: the bit is not asked.
MutantMayClean(t) == TRUE

MayClean(t) == ~tx.busy

CleanStart(t) ==
    /\ pc[t] = "clean"
    /\ IF MayClean(t)
       THEN /\ tx' = [tx EXCEPT !.busy = TRUE]
            /\ left' = [left EXCEPT ![t] = (tx.wb + TxCount - tx.clean) % TxCount]
            /\ Goto(t, "free")
       ELSE Goto(t, "cleaned") /\ UNCHANGED <<tx, left>>
    /\ UNCHANGED <<batch, sent, freed, rx, out>>

CleanOne(t) ==
    /\ pc[t] = "free" /\ left[t] > 0
    /\ freed' = Append(freed, tx.buf[tx.clean])
    /\ tx' = [tx EXCEPT !.clean = Next1(@, TxCount)]
    /\ left' = [left EXCEPT ![t] = @ - 1]
    /\ UNCHANGED <<batch, sent, rx, out, pc>>

CleanEnd(t) ==
    /\ pc[t] = "free" /\ left[t] = 0
    /\ tx' = [tx EXCEPT !.busy = FALSE]
    /\ Goto(t, "cleaned")
    /\ UNCHANGED <<batch, sent, freed, rx, out, left>>

(***************************************************************************)
(* onic_xmit_frame.  The stack calls it with the queue's lock held, so one *)
(* call at a time; it may promise (xmit_more) that another follows.        *)
(***************************************************************************)
XmitStart ==
    /\ pc["xmit"] = "idle" /\ tx.last < MaxTx
    /\ Goto("xmit", "clean")
    /\ UNCHANGED <<tx, batch, sent, freed, rx, out, left>>

XmitBusy ==
    /\ pc["xmit"] = "cleaned"
    /\ Full(tx.use, tx.clean, TxCount) \/ DmaFails
    /\ batch' = FALSE
    /\ Goto("xmit", "idle")
    /\ UNCHANGED <<tx, sent, freed, rx, out, left>>

(* skb_put_padto frees an skb that it cannot pad.  The result is not       *)
(* looked at: the skb goes on the ring all the same.                       *)
XmitStore ==
    /\ pc["xmit"] = "cleaned" /\ ~Full(tx.use, tx.clean, TxCount)
    /\ \E lost \in SUBSET ({tx.last + 1} \cap Short) :
         tx' = [tx EXCEPT !.buf[tx.use] = tx.last + 1, !.last = @ + 1,
                          !.use = Next1(@, TxCount), !.unpadded = @ \cup lost]
    /\ Goto("xmit", "ring")
    /\ UNCHANGED <<batch, sent, freed, rx, out, left>>

(* The last lines: the doorbell, unless more is to come and fits. *)
(* Mutant: a full ring does not ring either. *)
MutantRings(more) == ~more

Rings(more) == Full(tx.use, tx.clean, TxCount) \/ ~more

XmitRing ==
    /\ pc["xmit"] = "ring"
    /\ \E more \in BOOLEAN :
         /\ more => tx.last < MaxTx
         /\ batch' = more
         /\ tx' = IF Rings(more) THEN [tx EXCEPT !.head = tx.use] ELSE tx
    /\ Goto("xmit", "idle")
    /\ UNCHANGED <<sent, freed, rx, out, left>>

(* The hardware fetches what lies below the doorbell and, later, writes    *)
(* its index back.                                                         *)
Fetch ==
    /\ tx.hw # tx.head
    /\ sent' = Append(sent, tx.buf[tx.hw])
    /\ tx' = [tx EXCEPT !.hw = Next1(@, TxCount)]
    /\ UNCHANGED <<batch, freed, rx, out, pc, left>>

WriteBack ==
    /\ tx.wb # tx.hw
    /\ tx' = [tx EXCEPT !.wb = tx.hw]
    /\ UNCHANGED <<batch, sent, freed, rx, out, pc, left>>

(***************************************************************************)
(* The receive side of the hardware: a packet takes the next descriptor    *)
(* below the head and one completion, and an armed queue interrupts.       *)
(* onic_q_handler schedules the poll.                                      *)
(***************************************************************************)
Interrupt(r) == IF r.napi = "idle" THEN [r EXCEPT !.armed = FALSE, !.napi = "sched"]
                                   ELSE [r EXCEPT !.armed = FALSE]

Arrive(q) ==
    /\ rx[q].last < MaxRx
    /\ rx[q].last % RxCount # rx[q].use
    /\ ~Full(rx[q].pidx, rx[q].cidx, RxCount)
    /\ LET r == [rx[q] EXCEPT !.buf[rx[q].last % RxCount] = rx[q].last + 1,
                              !.cmpl[rx[q].pidx] = rx[q].last + 1,
                              !.last = @ + 1, !.pidx = Next1(@, RxCount)]
       IN  rx' = [rx EXCEPT ![q] = IF r.armed THEN Interrupt(r) ELSE r]
    /\ UNCHANGED <<tx, batch, sent, freed, out, pc, left>>

(* onic_set_completion_tail: the hardware interrupts at once when the      *)
(* index it is given is already behind.                                    *)
SetTail(r) ==
    LET s == [r EXCEPT !.cidx = r.done, !.armed = TRUE]
    IN  IF s.pidx # s.cidx THEN Interrupt(s) ELSE s

(***************************************************************************)
(* onic_rx_poll                                                            *)
(***************************************************************************)
PollStart(q) ==
    /\ pc[q] = "idle" /\ rx[q].napi = "sched"
    /\ Goto(q, "clean")
    /\ UNCHANGED <<tx, batch, sent, freed, rx, out, left>>

(* The completion is read first, then the status with the index, and the   *)
(* card may write both in between.  empty remembers that there was no      *)
(* completion yet for the first read.                                      *)
PollRead(q) ==
    /\ pc[q] = "cleaned"
    /\ rx' = [rx EXCEPT ![q].len = rx[q].cmpl[rx[q].done], ![q].empty = (rx[q].pidx = rx[q].done)]
    /\ Goto(q, "status")
    /\ UNCHANGED <<tx, batch, sent, freed, out, left>>

PollStatus(q) ==
    /\ pc[q] = "status"
    /\ rx' = [rx EXCEPT ![q].seen = rx[q].pidx, ![q].work = 0]
    /\ Goto(q, "loop")
    /\ UNCHANGED <<tx, batch, sent, freed, out, left>>

Unused(r) == (r.use + RxCount - r.clean) % RxCount

(* Mutant: the ring is refilled a whole step sooner. *)
MutantHighWatermark(r) == Unused(r) < Step

HighWatermark(r) == Unused(r) < Step \div 2

Refill(r) == IF HighWatermark(r) THEN [r EXCEPT !.use = (@ + Step) % RxCount] ELSE r

(* Out of budget: napi_complete and napi_reschedule. *)
(* Mutant: without the reschedule. *)
MutantOutOfBudget(r) == [r EXCEPT !.napi = "idle"]

OutOfBudget(r) == [r EXCEPT !.napi = "sched"]

PollOne(q) ==
    /\ pc[q] = "loop" /\ rx[q].done # rx[q].seen
    /\ out' = [out EXCEPT ![q] = Append(@, rx[q].buf[rx[q].clean])]
    /\ LET r == Refill([rx[q] EXCEPT !.clean = Next1(@, RxCount)])
           s == [r EXCEPT !.done = Next1(@, RxCount), !.work = @ + 1, !.empty = FALSE]
       IN  IF s.work >= Budget
           THEN rx' = [rx EXCEPT ![q] = OutOfBudget(s)] /\ Goto(q, "idle")
           ELSE rx' = [rx EXCEPT ![q] = [s EXCEPT !.len = s.cmpl[s.done]]] /\ UNCHANGED pc
    /\ UNCHANGED <<tx, batch, sent, freed, left>>

(* No memory for the copy: the loop ends early.  Unless the ring has just  *)
(* wrapped, the poll returns with work left, less than its budget, and     *)
(* without napi_complete: the context stays scheduled and on no list.      *)
PollNoMemory(q) ==
    /\ pc[q] = "loop" /\ rx[q].done # rx[q].seen
    /\ IF rx[q].done = 0
       THEN rx' = [rx EXCEPT ![q].napi = "idle"] /\ Goto(q, "arm")
       ELSE rx' = [rx EXCEPT ![q].napi = "lost"] /\ Goto(q, "idle")
    /\ UNCHANGED <<tx, batch, sent, freed, out, left>>

PollEnd(q) ==
    /\ pc[q] = "loop" /\ rx[q].done = rx[q].seen
    /\ rx' = [rx EXCEPT ![q].napi = "idle"]
    /\ Goto(q, "arm")
    /\ UNCHANGED <<tx, batch, sent, freed, out, left>>

PollArm(q) ==
    /\ pc[q] = "arm"
    /\ rx' = [rx EXCEPT ![q] = SetTail(@)]
    /\ Goto(q, "idle")
    /\ UNCHANGED <<tx, batch, sent, freed, out, left>>

Clean(t) == CleanStart(t) \/ CleanOne(t) \/ CleanEnd(t)

Poll(q) ==
    \/ Clean(q)
    \/ PollStart(q) \/ PollRead(q) \/ PollStatus(q) \/ PollOne(q) \/ PollNoMemory(q)
    \/ PollEnd(q) \/ PollArm(q)

Xmit == Clean("xmit") \/ XmitBusy \/ XmitStore \/ XmitRing

Done ==
    /\ tx.last = MaxTx /\ pc["xmit"] = "idle"
    /\ \A q \in RxQueues : pc[q] = "idle" /\ (rx[q].last = MaxRx \/ rx[q].napi = "lost")
    /\ UNCHANGED vars

Next ==
    \/ XmitStart \/ Xmit \/ Fetch \/ WriteBack \/ Done
    \/ \E q \in RxQueues : Arrive(q) \/ Poll(q)

(***************************************************************************)
(* Softirqs run, the threads in a call go on, and the hardware works on    *)
(* what it has been given.  Memory comes back: not every allocation fails. *)
(***************************************************************************)
Fairness ==
    /\ WF_vars(Xmit) /\ WF_vars(Fetch) /\ WF_vars(WriteBack)
    /\ \A q \in RxQueues : WF_vars(Poll(q)) /\ SF_vars(PollOne(q))

Spec == Init /\ [][Next]_vars /\ Fairness

------------------------------------------------------------------------------
Upto(s, n) == s = [i \in 1 .. Len(s) |-> i] /\ Len(s) <= n

(* onic_tx_clean, onic_xmit_frame: the hardware fetches every skb once and *)
(* in order, and onic_tx_clean frees every skb once, in order, and never   *)
(* before the hardware has fetched it, whichever threads clean the ring.   *)
FreedOnce == Upto(sent, tx.last) /\ Upto(freed, Len(sent))

(* "frees every skb once" with what skb_put_padto frees.  It fails.        *)
PadFreedOnce == \A i \in 1 .. Len(freed) : freed[i] \notin tx.unpadded

(* onic_xmit_frame: when the stack is not about to give another packet,    *)
(* the doorbell has been rung for all that the ring holds, a full ring and *)
(* NETDEV_TX_BUSY included: no packet waits for a later one.               *)
Rung == pc["xmit"] = "idle" /\ ~batch => tx.head = tx.use

(* onic_rx_poll: the buffers are copied in the order of arrival, each      *)
(* packet once, and with the length that its own completion gives, but for *)
(* the first of a poll that found the ring empty when it read that; the    *)
(* descriptors posted include those of all packets not yet copied, and     *)
(* half a step of them: a refill never overtakes the poll and is never too *)
(* late for the card.                                                      *)
Delivered ==
    \A q \in RxQueues :
      /\ Upto(out[q], rx[q].last)
      /\ pc[q] = "loop" /\ rx[q].done # rx[q].seen =>
            rx[q].empty \/ rx[q].len = rx[q].buf[rx[q].clean]
      /\ rx[q].last - Len(out[q]) <= Unused(rx[q])
      /\ Step \div 2 <= Unused(rx[q])

(* The length without that exception.  It fails: a poll that is scheduled  *)
(* again with the ring empty reads the length, a packet arrives, and the   *)
(* index read then counts it.                                              *)
LengthsRight ==
    \A q \in RxQueues :
      pc[q] = "loop" /\ rx[q].done # rx[q].seen => rx[q].len = rx[q].buf[rx[q].clean]

(* Both rings: no descriptor is used for two packets at a time, whoever    *)
(* cleans and refills, and nothing is lost or passed on twice.             *)
RingsExact == FreedOnce /\ Delivered

(* onic_rx_poll: every packet that arrives is delivered, although the      *)
(* index is read once per poll, a poll may run out of budget and the       *)
(* interrupt is armed after the last look at the ring, unless an           *)
(* allocation fails in the middle of the ring, which loses the queue.      *)
AllDelivered ==
    \A q \in RxQueues, n \in 1 .. MaxRx :
      rx[q].last >= n ~> Len(out[q]) >= n \/ rx[q].napi = "lost"
==============================================================================
