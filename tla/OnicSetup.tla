------------------------------ MODULE OnicSetup ------------------------------
(***************************************************************************)
(* Probe, open, stop and remove of the OpenNIC driver (onic_main.c,        *)
(* onic_lib.c, onic_hardware.c, qdma_context.c): what each step takes from *)
(* the kernel and from the card, and what the error paths give back.  Open *)
(* and stop go queue by queue, while queue interrupts are raised and       *)
(* handled.  A call names the step of it that fails, or "none".  The       *)
(* function is the card's master, which sets the card up and handles its   *)
(* error interrupt.                                                        *)
(***************************************************************************)
EXTENDS Naturals

CONSTANTS Queues,      \* 1 + the last queue, vector and tx/rx ring
          Failing,     \* the steps that may fail
          MayTimeOut   \* the contexts whose invalidation may time out

VARIABLES phase,    \* "absent", "probed", "opening", "unwinding", "open", "stopping"
          at,       \* which loop of open or stop runs, and at which queue
          dev       \* the device: what is held and what the pointers say

vars == <<phase, at, dev>>

Q == 0 .. Queues - 1

(***************************************************************************)
(* held: resources taken and not given back.  lost: kinds of memory that   *)
(* nothing points to any more.  vec, txq, rxq: the pointers in             *)
(* onic_private that are not NULL.  bits: ONIC_USER_INTR and               *)
(* ONIC_ERROR_INTR.  qdma: hw->qdma is set.  live: the queue contexts      *)
(* valid in the card; stuck: those whose invalidation timed out.  card:    *)
(* the settings of the card as a whole.  raised: queue interrupts not yet  *)
(* handled.  stale: queues freed with their napi_struct on the list of the *)
(* netdev.  bad: something was freed twice or a NULL followed.             *)
(***************************************************************************)
Blank == [held |-> {}, lost |-> {}, vec |-> {}, txq |-> {}, rxq |-> {}, bits |-> {},
          qdma |-> FALSE, live |-> {}, stuck |-> {}, card |-> {}, raised |-> {}, stale |-> {},
          bad |-> FALSE, ok |-> TRUE]

Init == phase = "absent" /\ at = <<"tx", 0>> /\ dev = Blank

(* Resources are <<what, which queue or vector>>; those there is one of    *)
(* have the number 0.                                                      *)
Take(d, what, which) == [d EXCEPT !.held = @ \cup what \X which]

Put(d, what, which) ==
    [d EXCEPT !.held = @ \ what \X which, !.bad = @ \/ ~(what \X which \subseteq d.held)]

Lose(d, kinds) == [d EXCEPT !.lost = @ \cup kinds]

Fault(d) == [d EXCEPT !.bad = TRUE]

Failed(d) == [d EXCEPT !.ok = FALSE]

(***************************************************************************)
(* qdma_context.c: the contexts of the queues qs, all written under one    *)
(* mutex through the same indirect registers; a command may time out.      *)
(***************************************************************************)
TxContexts(qs) == {"sw", "hw", "cr"} \X {"h2c"} \X qs

RxContexts(qs) == {"sw", "hw", "cr", "pfch", "cmpl"} \X {"c2h"} \X qs

\* qdma_program_ctxt, to write a context or to reset it to zero
Program(d, cs) == [d EXCEPT !.live = @ \cup cs, !.stuck = @ \ cs]

\* Mutant: the completion context stays valid.
MutantInvalidate(d, cs, miss) == [d EXCEPT !.live = {c \in @ : c \notin cs \/ c[1] = "cmpl"}]

(* The commands for the contexts in miss time out; nobody looks at that. *)
Invalidate(d, cs, miss) ==
    [d EXCEPT !.live = @ \ cs, !.stuck = (@ \ cs) \cup (cs \cap miss \cap (@ \cup d.live))]

(* onic_qdma_clear_tx_queue, onic_qdma_init_tx_queue and the same for rx.  *)
(* When a context of queue q cannot be written all of that queue's are     *)
(* invalidated.                                                            *)
QdmaClearTxQueue(d, qs, miss) == Invalidate(d, TxContexts(qs), miss)
QdmaClearRxQueue(d, qs, miss) == Invalidate(d, RxContexts(qs), miss)

QdmaInitTxQueue(d, q) == Program(d, TxContexts({q}))
QdmaInitRxQueue(d, q) == Program(d, RxContexts({q}))

QdmaFailTxQueue(d, q, miss) ==
    Failed(QdmaClearTxQueue(Program(d, {<<"sw", "h2c", q>>}), {q}, miss))
QdmaFailRxQueue(d, q, miss) ==
    Failed(QdmaClearRxQueue(Program(d, {<<"sw", "c2h", q>>}), {q}, miss))

(* qdma_write_fmap_ctxt, qdma_invalidate_fmap_ctxt *)
WriteFmap(d) == Take(d, {"fmap"}, {0})
InvalidateFmap(d) == Put(d, {"fmap"}, {0})

(* onic_qdma_init_csr; onic_enable_cmac: a port whose lanes do not align   *)
(* in time is disabled again, and the result is not looked at.             *)
InitCsr(d) == [d EXCEPT !.card = @ \cup {"csr"}]
EnableCmac(d, fail) == [d EXCEPT !.card = IF fail[1] = "align" THEN @ \ {"cmac"} ELSE @ \cup {"cmac"}]

(* onic_qdma_init_error_interrupt, onic_qdma_clear_error_interrupt *)
ArmError(d) == [d EXCEPT !.card = @ \cup {"error"}]
DisarmError(d) == [d EXCEPT !.card = @ \ {"error"}]

(* onic_clear_capacity, onic_init_capacity *)
ClearCapacity(d) == Put(d, {"msix"}, {0})

InitCapacity(d, fail) == IF fail[1] = "msix" THEN Failed(d) ELSE Take(d, {"msix"}, {0})

(* onic_clear_hardware: qdma_invalidate_fmap_ctxt dereferences hw->qdma. *)
ClearHardware(d) ==
    IF d.qdma THEN [Put(InvalidateFmap(d), {"qdev", "shell"}, {0}) EXCEPT !.qdma = FALSE]
              ELSE Fault(d)

InitHardware(d, fail) ==
    CASE fail[1] = "shell" -> Failed(d)
      [] fail[1] = "qdev"  -> Failed(Take(d, {"shell"}, {0}))
      [] fail[1] = "fmap"  -> Failed(ClearHardware(Take(d, {"shell", "qdev"}, {0})))
      [] OTHER -> [EnableCmac(InitCsr(WriteFmap(Take(d, {"shell", "qdev"}, {0}))), fail)
                     EXCEPT !.qdma = TRUE]

(* onic_clear_q_vector: free_irq waits for the handler.                    *)
(* onic_init_q_vector: only the irq keeps the vmalloc'd name, and what is  *)
(* allocated before a refused irq is not freed.                            *)
ClearVectors(d, vs) == [Put(d, {"irq", "vec"}, d.vec \cap vs) EXCEPT !.raised = @ \ vs]

InitVectors(d, vs) == [Lose(Take(d, {"irq", "vec"}, vs), {"name"}) EXCEPT !.vec = @ \cup vs]

\* Mutant: the loop over the vectors stops before the first.
MutantClearInterrupt(d) == ClearVectors(Put(d, d.bits, {0}), Q \ {0})

\* onic_clear_interrupt frees the interrupts whose bits are set, then the vectors.
ClearInterrupt(d) ==
    LET e == Put(d, d.bits, {0})
    IN  ClearVectors(IF "error" \in d.bits THEN DisarmError(e) ELSE e, Q)

InitInterrupt(d, fail) ==
    LET all == InitVectors(d, Q)
        user == [Take(all, {"user"}, {0}) EXCEPT !.bits = {"user"}]
    IN  CASE fail[1] = "irq" ->
               Failed(ClearInterrupt(Take(InitVectors(d, 0 .. fail[2] - 1), {"vec"}, {fail[2]})))
          [] fail[1] = "user"  -> Failed(ClearInterrupt(all))
          [] fail[1] = "error" -> Failed(ClearInterrupt(user))
          [] OTHER -> [ArmError(Take(user, {"error"}, {0})) EXCEPT !.bits = {"user", "error"}]

(***************************************************************************)
(* onic_probe, step after step, and its ladder of labels                   *)
(***************************************************************************)
DisableDevice(d)   == Put(d, {"pci"}, {0})
ReleasePciMem(d)   == DisableDevice(Put(d, {"regions"}, {0}))
FreeNetdev(d)      == ReleasePciMem([Put(d, {"netdev"}, {0}) EXCEPT !.stale = {}])
ClearCapacityL(d)  == FreeNetdev(ClearCapacity(d))
ClearHardwareL(d)  == ClearCapacityL(ClearHardware(d))
ClearInterruptL(d) == ClearHardwareL(ClearInterrupt(d))

ProbeDevice(fresh, fail) ==
    LET pci == Take(fresh, {"pci"}, {0})
        mem == Take(pci, {"regions"}, {0})
        net == Take(mem, {"netdev"}, {0})
        cap == InitCapacity(net, fail)
        hw  == InitHardware(cap, fail)
        irq == InitInterrupt(hw, fail)
        nf  == Take(irq, {"nfdp"}, {0})
    IN  CASE fail[1] = "enable"   -> Failed(fresh)
          [] fail[1] \in {"mask", "regions"} -> Failed(DisableDevice(pci))
          [] fail[1] = "netdev"   -> Failed(ReleasePciMem(mem))
          [] fail[1] = "msix"     -> FreeNetdev(cap)
          [] fail[1] \in {"shell", "qdev", "fmap"} -> ClearCapacityL(hw)
          [] fail[1] \in {"irq", "user", "error"}  -> ClearHardwareL(irq)
          [] fail[1] = "nfdp"     -> Failed(FreeNetdev(irq))
          [] fail[1] = "register" -> Failed(ClearInterruptL(nf))
          [] OTHER                -> Take(nf, {"registered"}, {0})

(* The next probe starts from a cleared onic_private, and from the card as *)
(* it was left.                                                            *)
Fresh(d) == [Blank EXCEPT !.lost = d.lost, !.live = d.live, !.stuck = d.stuck, !.card = d.card]

Probe(fail) ==
    /\ phase = "absent"
    /\ dev' = [ProbeDevice(Fresh(dev), fail) EXCEPT !.held = @ \cup dev.held]
    /\ phase' = IF dev'.ok THEN "probed" ELSE "absent"
    /\ UNCHANGED at

(***************************************************************************)
(* The rings of one queue.  "tx" and "rx" are all that a queue's pointer   *)
(* leads to; kfree'ing the buffer array of a tx queue forgets the skbs     *)
(* still queued, that of an rx queue its pages.                            *)
(***************************************************************************)
\* Mutant: the pointer to the freed queue stays.
MutantClearTxQueue(d, q, miss, left) ==
    LET set == d.txq \cap {q}
    IN  Lose(Put(QdmaClearTxQueue(d, set, miss), {"tx"}, set), left)

ClearTxQueue(d, q, miss, left) ==
    LET set == d.txq \cap {q}
    IN  [Lose(Put(QdmaClearTxQueue(d, set, miss), {"tx"}, set), left) EXCEPT !.txq = @ \ set]

ClearRxQueue(d, q, miss) ==
    LET set == d.rxq \cap {q}
    IN  [Lose(Put(QdmaClearRxQueue(d, set, miss), {"rx"}, set), {"page" : x \in set})
            EXCEPT !.rxq = @ \ set, !.stale = @ \cup set]

(* onic_init_tx_queue, and onic_init_rx_queue up to where it arms the      *)
(* interrupt; a queue still set is cleared first.                          *)
InitTxQueue(d, q) ==
    [QdmaInitTxQueue(Take(ClearTxQueue(d, q, {}, {}), {"tx"}, {q}), q) EXCEPT !.txq = @ \cup {q}]

ArmRxQueue(d, q) == QdmaInitRxQueue(Take(ClearRxQueue(d, q, {}), {"rx"}, {q}), q)

(* When the allocation of the queue itself fails nothing is held; a later  *)
(* failure leaves what has been allocated, since the pointer is set last.  *)
FailTxQueue(d, fail, miss) ==
    LET c == ClearTxQueue(d, fail[2], {}, {})
    IN  IF fail[1] = "tx" THEN Failed(c)
                          ELSE QdmaFailTxQueue(Take(c, {"tx"}, {fail[2]}), fail[2], miss)

FailRxQueue(d, fail, miss) ==
    LET c == ClearRxQueue(d, fail[2], {})
    IN  IF fail[1] = "rx" THEN Failed(c)
                          ELSE QdmaFailRxQueue(Take(c, {"rx"}, {fail[2]}), fail[2], miss)

(***************************************************************************)
(* onic_open_netdev and onic_stop_netdev, queue by queue                   *)
(***************************************************************************)
\* The loop over the queues goes on, or to the position and phase that follow it.
Advance(loop, then, after) ==
    IF at[2] < Queues - 1 THEN at' = <<loop, at[2] + 1>> /\ UNCHANGED phase
                          ELSE at' = then /\ phase' = after

Open ==
    /\ phase = "probed"
    /\ phase' = "opening" /\ at' = <<"tx", 0>>
    /\ dev' = [dev EXCEPT !.ok = TRUE]

OpenTx ==
    /\ phase = "opening" /\ at[1] = "tx"
    /\ dev' = InitTxQueue(dev, at[2])
    /\ Advance("tx", <<"rx", 0>>, "opening")

OpenRx ==
    /\ phase = "opening" /\ at[1] = "rx"
    /\ dev' = ArmRxQueue(dev, at[2])
    /\ at' = <<"set", at[2]>>
    /\ UNCHANGED phase

(* onic_init_rx_queue ends: priv->rx_queue[qid] is set. *)
PublishRx ==
    /\ phase = "opening" /\ at[1] = "set"
    /\ dev' = [dev EXCEPT !.rxq = @ \cup {at[2]}]
    /\ Advance("rx", <<"tx", 0>>, "open")

FailOpen(fail, miss) ==
    /\ phase = "opening" /\ at[2] = fail[2]
    /\ \/ at[1] = "tx" /\ fail[1] \in {"tx", "txctx"} /\ dev' = FailTxQueue(dev, fail, miss)
       \/ at[1] = "rx" /\ fail[1] \in {"rx", "rxctx"} /\ dev' = FailRxQueue(dev, fail, miss)
    /\ phase' = "unwinding"
    /\ UNCHANGED at

(* onic_init_tx_resource, onic_init_rx_resource: "while (--qid)" leaves    *)
(* queue 0 to onic_stop_netdev, and runs below zero when queue 0 failed.   *)
Unwound(loop, q, miss) ==
    CASE q = 0 -> Fault(dev)
      [] q = 1 -> dev
      [] q > 1 /\ loop = "tx" -> ClearTxQueue(dev, q - 1, miss, {})
      [] q > 1 /\ loop = "rx" -> ClearRxQueue(dev, q - 1, miss)

Unwind(miss) ==
    /\ phase = "unwinding"
    /\ dev' = Unwound(at[1], at[2], miss)
    /\ IF at[2] > 1 THEN at' = <<at[1], at[2] - 1>> /\ UNCHANGED phase
                    ELSE at' = <<"tx", 0>> /\ phase' = "stopping"

Stop ==
    /\ phase = "open"
    /\ phase' = "stopping"
    /\ UNCHANGED <<at, dev>>

(* Only a device that was open has skbs on its rings. *)
StopTx(miss, left) ==
    /\ phase = "stopping" /\ at[1] = "tx"
    /\ left # {} => dev.ok
    /\ dev' = ClearTxQueue(dev, at[2], miss, left)
    /\ Advance("tx", <<"rx", 0>>, "stopping")

StopRx(miss) ==
    /\ phase = "stopping" /\ at[1] = "rx"
    /\ dev' = ClearRxQueue(dev, at[2], miss)
    /\ Advance("rx", <<"tx", 0>>, "probed")

(* onic_remove; unregister_netdev stops an open device first. *)
Remove ==
    /\ phase = "probed"
    /\ dev' = ClearInterruptL(Put(dev, {"registered"}, {0}))
    /\ phase' = "absent"
    /\ UNCHANGED at

(* The card raises the interrupt of a queue whose completion context is    *)
(* valid; onic_q_handler then schedules the poll of priv->rx_queue[vid].   *)
Raise(q) ==
    /\ <<"irq", q>> \in dev.held
    /\ <<"cmpl", "c2h", q>> \in dev.live \cup dev.stuck
    /\ dev' = [dev EXCEPT !.raised = @ \cup {q}]
    /\ UNCHANGED <<phase, at>>

QHandler(v) ==
    /\ v \in dev.raised
    /\ dev' = [dev EXCEPT !.raised = @ \ {v}]
    /\ UNCHANGED <<phase, at>>

Next ==
    \/ \E fail \in Failing : Probe(fail)
    \/ Open \/ OpenTx \/ OpenRx \/ PublishRx
    \/ \E fail \in Failing, miss \in SUBSET MayTimeOut : FailOpen(fail, miss)
    \/ \E miss \in SUBSET MayTimeOut :
          \/ Unwind(miss) \/ StopRx(miss)
          \/ \E left \in SUBSET {"skb"} : StopTx(miss, left)
    \/ Stop \/ Remove
    \/ \E q \in Q : Raise(q) \/ QHandler(q)

Spec == Init /\ [][Next]_vars

------------------------------------------------------------------------------
(* onic_probe, onic_remove and their ladders: whatever step fails, and     *)
(* after any number of opens and stops, a device that is gone holds        *)
(* nothing but the nfdp mapping that neither of them releases and the      *)
(* memory that nothing points to, and its error interrupt is not armed any *)
(* more.                                                                   *)
Released ==
    phase = "absent" =>
        dev.held \subseteq {<<"nfdp", 0>>} /\ dev.raised = {} /\ "error" \notin dev.card

(* Nothing is given back that is not held, hw->qdma is set when it is      *)
(* followed, and the card never has a valid context for a ring whose       *)
(* memory has been freed, but where the command to invalidate it timed     *)
(* out: no DMA goes astray.                                                *)
NoStrayDma ==
    /\ ~dev.bad
    /\ \A c \in dev.live :
         <<IF c[2] = "h2c" THEN "tx" ELSE "rx", c[3]>> \in dev.held

(* Handlers and polls meet no NULL between open and stop: from when        *)
(* onic_open_netdev begins, a poll finds the transmit queues that          *)
(* onic_rx_poll cleans, and once it has ended a handler finds its receive  *)
(* queue.                                                                  *)
PollsSafe    == dev.rxq # {} => dev.txq = Q
HandlersSafe == dev.raised \subseteq dev.rxq

PointersSet ==
    /\ phase \in {"opening", "open"} => PollsSafe
    /\ phase = "open" => HandlersSafe

(* The ladders of onic_probe, onic_open_netdev and their counterparts undo *)
(* what was done, in an order the card and the kernel survive.             *)
LaddersSound == Released /\ NoStrayDma /\ PointersSet

(* What the code does not keep to; each of these fails.                    *)

(* What is allocated is freed when the device is gone.  The nfdp mapping,  *)
(* the names of the interrupts, the pages of the receive rings and the     *)
(* skbs left on a transmit ring are not.                                   *)
NothingForgotten == phase = "absent" => dev.held = {} /\ dev.lost = {}

(* No NULL is followed while the device opens, stops, or fails to open:    *)
(* interrupts are armed before rx_queue is set, and polls still run when   *)
(* tx_queue is cleared.                                                    *)
NeverNull == PollsSafe /\ HandlersSafe

(* "free_netdev will call netif_napi_del for all napi_structs still        *)
(* associated": by then kfree(q) has freed them.                           *)
NapiListSound == dev.stale = {}

(* A context is gone when its ring is freed: also when the command timed   *)
(* out, which onic_qdma_clear_tx_queue and its counterpart do not look at. *)
NoDmaAtAll ==
    \A c \in dev.live \cup dev.stuck :
        <<IF c[2] = "h2c" THEN "tx" ELSE "rx", c[3]>> \in dev.held
==============================================================================
