------------------------------ MODULE MCStack ------------------------------
(***************************************************************************)
(* Packets, memory and streams of scone for TLC, one part at a time:       *)
(*   "buffers"   a heap of eight units, chains of heap and pool buffers;   *)
(*   "nat"       words of two digits, two hosts inside, two entries;       *)
(*   "rx", "tx"  a TCP connection: the peer sends and cuts its stream, or  *)
(*               the application does.                                     *)
(* The variables of a part that is not in use are 0.                       *)
(***************************************************************************)
EXTENDS Nat
CONSTANTS RxIn, TxIn,     \* bounds: segments that reach us
          Leftovers       \* bound: buffers that pbuf_realloc frees
VARIABLES unit, ram, lfree, pbuf, held, c, wire, peer

buffersVars == <<ram, lfree, pbuf, held>>
tcpVars == <<c, wire, peer>>

buffers == INSTANCE Buffers WITH
    MEM_SIZE <- 8, HEADER <- 1, MIN_SIZE <- 0, PBUF <- 1, Roms <- 1, Offsets <- {0},
    MaxLen <- 2, MaxRef <- 2

rx == INSTANCE Tcp WITH
    TCP_MSS <- 2, TCP_WND <- 4, TCP_SND_BUF <- 4, TCP_SND_QUEUELEN <- 3,
    TCP_MAXRTX <- 1, TCP_SYNMAXRTX <- 1, Writes <- {}, MaxWritten <- 0,
    PeerBytes <- 3, PeerCuts <- {<<1, 1>>, <<2, 1>>, <<3, 1>>, <<1, 2>>, <<2, 2>>, <<4, 0>>},
    PeerWnds <- {4}, MaxIn <- RxIn

tx == INSTANCE Tcp WITH
    TCP_MSS <- 2, TCP_WND <- 4, TCP_SND_BUF <- 4, TCP_SND_QUEUELEN <- 3,
    TCP_MAXRTX <- 2, TCP_SYNMAXRTX <- 1, Writes <- {1, 2}, MaxWritten <- 3,
    PeerBytes <- 0, PeerCuts <- {<<1, 0>>}, PeerWnds <- {1, 4}, MaxIn <- TxIn

MCInit ==
    /\ unit \in {"buffers", "nat", "rx", "tx"}
    /\ IF unit = "buffers" THEN buffers!Init ELSE ram = 0 /\ lfree = 0 /\ pbuf = 0 /\ held = 0
    /\ Init
    /\ IF unit \in {"rx", "tx"} THEN rx!Init ELSE c = 0 /\ wire = 0 /\ peer = 0

MCNext ==
    /\ UNCHANGED unit
    /\ \/ unit = "buffers" /\ buffers!Next /\ UNCHANGED <<vars, tcpVars>>
       \/ unit = "nat" /\ Next /\ UNCHANGED <<buffersVars, tcpVars>>
       \/ unit = "rx" /\ rx!Next /\ UNCHANGED <<buffersVars, vars>>
       \/ unit = "tx" /\ tx!Next /\ UNCHANGED <<buffersVars, vars>>

MCSpec == MCInit /\ [][MCNext]_<<unit, buffersVars, vars, tcpVars>>

\* The heap and the chains in it are sound, and end as they began (Buffers).
BuffersSound == unit = "buffers" => buffers!BuffersSound
\* tcp_receive: the stream arrives whole and in order (Tcp).
StreamIntact == unit = "rx" => rx!StreamIntact
\* The queues keep every byte until it is acknowledged (Tcp).
QueuesComplete == unit \in {"rx", "tx"} => tx!QueuesComplete
=============================================================================
