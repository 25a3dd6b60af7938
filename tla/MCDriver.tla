----------------------------- MODULE MCDriver ------------------------------
(***************************************************************************)
(* The NIC driver for TLC, one part at a time:                             *)
(*   "rings"  a transmit ring of three descriptors, a receive queue of six *)
(*            refilled four at a time, polls of two packets;               *)
(*   "setup"  three queues, and the failures the driver recovers from.     *)
(***************************************************************************)
EXTENDS OnicRings

CONSTANTS Queues,     \* the queues, vectors and ring pairs of the set-up
          MayTimeOut  \* the contexts whose invalidation may time out

ASSUME QueuesAssumption == Queues \in Nat \ {0}

VARIABLES unit, phase, at, dev

setupVars == <<phase, at, dev>>

\* Every step of the ladders but those whose failure leaks (see README.md).
recovers == ({"none", "enable", "mask", "regions", "netdev", "msix", "shell", "user",
              "error", "register", "align"} \X {0})
            \cup ({"tx", "rx"} \X (1 .. Queues - 1))

\* A completion context, whose queue goes on raising interrupts, and a fetching one.
timeouts == {<<"cmpl", "c2h", 1>>, <<"sw", "h2c", 0>>}

setup == INSTANCE OnicSetup WITH Failing <- recovers

MCInit == unit \in {"rings", "setup"} /\ Init /\ setup!Init

MCNext == /\ UNCHANGED unit
          /\ \/ unit = "rings" /\ Next /\ UNCHANGED setupVars
             \/ unit = "setup" /\ setup!Next /\ UNCHANGED vars

\* The fairness of OnicRings, while it runs.
MCSpec ==
    /\ MCInit /\ [][MCNext]_<<unit, vars, setupVars>>
    /\ WF_vars(unit = "rings" /\ Xmit) /\ WF_vars(unit = "rings" /\ Fetch)
    /\ WF_vars(unit = "rings" /\ WriteBack)
    /\ \A q \in RxQueues : WF_vars(unit = "rings" /\ Poll(q)) /\ SF_vars(unit = "rings" /\ PollOne(q))

\* onic_probe, onic_remove, onic_open_netdev, onic_stop_netdev: what was done is
\* undone, in an order that leaves no stray DMA (OnicSetup).
LaddersSound == setup!LaddersSound
=============================================================================
