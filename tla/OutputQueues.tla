---------------------------- MODULE OutputQueues ----------------------------
(***************************************************************************)
(* output_queues.v: one slave stream that is never held up, and three       *)
(* output queues, each with a FIFO for the beats and one for the metadata   *)
(* (tuser) of its packets.  Whether a packet is stored or dropped is        *)
(* decided at its first beat for all its queues together.  One step is one  *)
(* edge of axis_aclk.                                                      *)
(*                                                                         *)
(* A packet is [id, oq, len]: its metadata, the output queues its          *)
(* destination byte selects, and its length; a word holds one byte here, so *)
(* a packet has len beats.  A beat is [id, first, last].                   *)
(***************************************************************************)
EXTENDS Integers, Sequences, SequencesExt, FwftFifo, Sums

CONSTANTS Kinds,              \* the packets the source may send: [oq, len]
          BUFFER_DEPTH,       \* words of a data FIFO: 2 ** BUFFER_SIZE_WIDTH
          BUFFER_THRESHOLD,   \* prog_full of a data FIFO
          META_DEPTH,         \* words of a metadata FIFO
          MAX_PACKET_SIZE,    \* the longest packet
          CountLimit,         \* 2 ** 31, the values of a counter field
          Clears,             \* the sets of counters the CPU may clear in a clock
          MaxPackets          \* bound: packets the source sends

Queue == 0 .. 2
Stat == {"pktstored", "bytesstored", "pktremoved", "bytesremoved", "pktdropped",
         "bytesdropped", "pktinqueue"}
Kind == [oq : SUBSET Queue, len : 1 .. MAX_PACKET_SIZE]

\* What the constants must be like: a packet fits above the threshold.
BufferAssumption ==
    /\ BUFFER_DEPTH \in Nat /\ BUFFER_THRESHOLD \in Nat /\ MAX_PACKET_SIZE \in Nat \ {0}
    /\ BUFFER_THRESHOLD + MAX_PACKET_SIZE <= BUFFER_DEPTH
    /\ META_DEPTH \in Nat \ {0}

SourceAssumption ==
    /\ Kinds \subseteq Kind /\ CountLimit \in Nat \ {0} /\ MaxPackets \in Nat
    /\ Clears \subseteq SUBSET Stat

VARIABLES data, meta,         \* output_fifo and metadata_fifo of each queue
          metadata_state,     \* WAIT_HEADER or WAIT_EOP, per queue
          state,              \* IDLE, WR_PKT or DROP
          cur_queue,          \* the queues the packet under way is stored in
          pkt_stored, bytes_stored, pkt_dropped, bytes_dropped,   \* registered
          count,              \* the per-port counter registers
          src                 \* the source: packets begun, the one under way, beats left

vars == <<data, meta, metadata_state, state, cur_queue, pkt_stored, bytes_stored,
          pkt_dropped, bytes_dropped, count, src>>

Zero == [n |-> 0, ovf |-> FALSE]
NoBeat == [id |-> 0, first |-> FALSE, last |-> FALSE]
NoMeta == [id |-> 0, len |-> 0]

Init == /\ data = [q \in Queue |-> EmptyFifo(NoBeat)]
        /\ meta = [q \in Queue |-> EmptyFifo(NoMeta)]
        /\ metadata_state = [q \in Queue |-> "WAIT_HEADER"]
        /\ state = "IDLE" /\ cur_queue = {}
        /\ pkt_stored = {} /\ bytes_stored = 0
        /\ pkt_dropped = {} /\ bytes_dropped = 0
        /\ count = [s \in Stat |-> [q \in Queue |-> Zero]]
        /\ src = [id |-> 0, oq |-> {}, len |-> 0, left |-> 0, addressed |-> [q \in Queue |-> 0],
                  dropped |-> [q \in Queue |-> 0]]
-----------------------------------------------------------------------------
(* The write side *)

\* Mutant: prog_full one packet too late.
MutantNearlyFull(q) == FifoDepth(data[q]) >= BUFFER_THRESHOLD + 2

nearly_full_fifo(q) == FifoDepth(data[q]) >= BUFFER_THRESHOLD

metadata_nearly_full_fifo(q) == FifoDepth(meta[q]) >= META_DEPTH - 1

\* All the queues of the packet have room for one of the greatest length.
Room(oq) == \A q \in oq : ~nearly_full_fifo(q) /\ ~metadata_nearly_full_fifo(q)

\* Mutant: the room is asked for again at every beat.
MutantWrEn(tvalid, oq) ==
    IF ~tvalid THEN {}
    ELSE IF state = "IDLE" THEN IF Room(oq) THEN oq ELSE {}
    ELSE IF state = "WR_PKT" THEN {q \in cur_queue : ~nearly_full_fifo(q)} ELSE {}

wr_en(tvalid, oq) ==
    IF ~tvalid THEN {}
    ELSE IF state = "IDLE" THEN IF Room(oq) THEN oq ELSE {}
    ELSE IF state = "WR_PKT" THEN cur_queue ELSE {}

metadata_wr_en(tvalid, oq) == IF tvalid /\ state = "IDLE" /\ Room(oq) THEN oq ELSE {}

\* Mutant: a dropped packet is counted again at its last beat.
MutantWriteStep(tvalid, p, last) ==
    LET begins == tvalid /\ state = "IDLE"
    IN  /\ state' = IF tvalid /\ last THEN "IDLE"
                    ELSE IF begins THEN IF Room(p.oq) THEN "WR_PKT" ELSE "DROP"
                    ELSE state
        /\ cur_queue' = IF state = "IDLE" THEN p.oq ELSE cur_queue
        /\ pkt_stored' = IF begins /\ Room(p.oq) THEN p.oq ELSE {}
        /\ bytes_stored' = IF begins /\ Room(p.oq) THEN p.len ELSE 0
        /\ pkt_dropped' = IF tvalid /\ (begins \/ (state = "DROP" /\ last)) /\ ~Room(p.oq)
                             THEN p.oq ELSE {}
        /\ bytes_dropped' = IF begins /\ ~Room(p.oq) THEN p.len ELSE 0

\* The state machine and its registered outputs.
WriteStep(tvalid, p, last) ==
    LET begins == tvalid /\ state = "IDLE"
    IN  /\ state' = IF tvalid /\ last THEN "IDLE"
                    ELSE IF begins THEN IF Room(p.oq) THEN "WR_PKT" ELSE "DROP"
                    ELSE state
        /\ cur_queue' = IF state = "IDLE" THEN p.oq ELSE cur_queue
        /\ pkt_stored' = IF begins /\ Room(p.oq) THEN p.oq ELSE {}
        /\ bytes_stored' = IF begins /\ Room(p.oq) THEN p.len ELSE 0
        /\ pkt_dropped' = IF begins /\ ~Room(p.oq) THEN p.oq ELSE {}
        /\ bytes_dropped' = IF begins /\ ~Room(p.oq) THEN p.len ELSE 0
-----------------------------------------------------------------------------
(* The read side: the sinks of the queues in ready take a beat *)

rd_en(ready, q) == q \in ready /\ ~IsEmpty(data[q])

\* The metadata leaves, and the packet counts as removed, with the first beat.
metadata_rd_en(ready, q) == rd_en(ready, q) /\ metadata_state[q] = "WAIT_HEADER"

\* Mutant: every beat is taken for a packet of its own.
MutantReadStep(ready) ==
    metadata_state' = [q \in Queue |-> IF rd_en(ready, q) THEN "WAIT_HEADER"
                                       ELSE metadata_state[q]]

ReadStep(ready) ==
    metadata_state' = [q \in Queue |->
        IF ~rd_en(ready, q) THEN metadata_state[q]
        ELSE IF data[q].dout.last THEN "WAIT_HEADER" ELSE "WAIT_EOP"]
-----------------------------------------------------------------------------
(* The counters *)

Bit(n, i) == (n \div 2^i) % 2

\* What each counter adds.  bytes_dropped is a number, and port q adds its bit q.
Increment(s, q, ready) ==
    CASE s = "pktstored" -> Count(q \in pkt_stored)
      [] s = "bytesstored" -> IF q \in pkt_stored THEN bytes_stored ELSE 0
      [] s = "pktremoved" -> Count(metadata_rd_en(ready, q))
      [] s = "bytesremoved" -> IF metadata_rd_en(ready, q) THEN meta[q].dout.len ELSE 0
      [] s = "pktdropped" -> Count(q \in pkt_dropped)
      [] s = "bytesdropped" -> Bit(bytes_dropped, q)
      [] s = "pktinqueue" -> Count(q \in pkt_stored) - Count(metadata_rd_en(ready, q))

\* Only the sums with a 32-bit byte count can exceed 31 bits in the comparison.
CountUp(r, s, k) == [n |-> (r.n + k) % CountLimit,
                     ovf |-> r.ovf \/ (s \in {"bytesstored", "bytesremoved"}
                                       /\ r.n + k > CountLimit - 1)]

RegisterStep(ready, clear) ==
    count' = [s \in Stat |-> [q \in Queue |->
                 IF s \in clear THEN Zero ELSE CountUp(count[s][q], s, Increment(s, q, ready))]]
-----------------------------------------------------------------------------
(* A clock edge.  p is the packet on the bus: the one under way, or a new one *)
(* if the source begins it in this clock (tvalid with no beat left).          *)

SourceStep(tvalid, p) ==
    LET begins == tvalid /\ src.left = 0
        lost == begins /\ ~Room(p.oq)
    IN  src' = [id |-> p.id, oq |-> p.oq, len |-> p.len,
                left |-> IF begins THEN p.len - 1
                         ELSE IF tvalid THEN src.left - 1 ELSE src.left,
                addressed |-> [q \in Queue |-> src.addressed[q] + Count(begins /\ q \in p.oq)],
                dropped |-> [q \in Queue |-> src.dropped[q]
                                + IF lost /\ q \in p.oq THEN p.len ELSE 0]]

Clock(tvalid, p, ready, clear) ==
    LET first == src.left = 0
        last == IF first THEN p.len = 1 ELSE src.left = 1
        beat == [id |-> p.id, first |-> first, last |-> last]
    IN  /\ data' = [q \in Queue |-> Step(data[q], q \in wr_en(tvalid, p.oq), beat, rd_en(ready, q))]
        /\ meta' = [q \in Queue |-> Step(meta[q], q \in metadata_wr_en(tvalid, p.oq),
                                         [id |-> p.id, len |-> p.len], metadata_rd_en(ready, q))]
        /\ WriteStep(tvalid, p, last)
        /\ ReadStep(ready)
        /\ RegisterStep(ready, clear)
        /\ SourceStep(tvalid, p)

Under_way == [id |-> src.id, oq |-> src.oq, len |-> src.len]

\* The source pauses, goes on with its packet, or begins another one.
Next == \E ready \in SUBSET Queue, clear \in Clears :
            \/ Clock(FALSE, Under_way, ready, clear)
            \/ src.left > 0 /\ Clock(TRUE, Under_way, ready, clear)
            \/ /\ src.left = 0 /\ src.id < MaxPackets
               /\ \E k \in Kinds :
                      Clock(TRUE, [id |-> src.id + 1, oq |-> k.oq, len |-> k.len], ready, clear)

Spec == Init /\ [][Next]_vars
-----------------------------------------------------------------------------
(* Properties *)

\* The slave stream is never held up and yet no FIFO overflows: a packet let in
\* below the threshold fits to its last beat, whatever the sinks do meanwhile.
NeverOverflows == \A q \in Queue : /\ FifoDepth(data[q]) <= BUFFER_DEPTH
                                   /\ FifoDepth(meta[q]) <= META_DEPTH

\* A queue holds whole packets in order; only its newest one may lack beats, and
\* then it is the one that is being stored in this queue.
WholePackets == \A q \in Queue :
    LET s == data[q].items
    IN  /\ \A i \in 1 .. Len(s) - 1 :
              IF s[i].last THEN s[i+1].first ELSE ~s[i+1].first /\ s[i+1].id = s[i].id
        /\ s # << >> /\ ~Last(s).last =>
              state = "WR_PKT" /\ q \in cur_queue /\ Last(s).id = src.id

\* The first beat of a packet never shows at a master port without its own
\* metadata, though the two come out of different FIFOs.
MetadataAligned == \A q \in Queue : data[q].dv =>
    /\ data[q].dout.first <=> metadata_state[q] = "WAIT_HEADER"
    /\ data[q].dout.first => meta[q].dv /\ meta[q].dout.id = data[q].dout.id

\* What a packet that was let in can rely on, whatever the sinks and the packets
\* after it do: it finds room to its last beat, is kept whole and in order, and
\* leaves with its own metadata.
StoredIntact == NeverOverflows /\ WholePackets /\ MetadataAligned

Headers(q) == SumOf([i \in DOMAIN data[q].items |-> Count(data[q].items[i].first)])

\* PKTINQUEUE shows the packets in the queue whose first beat has not left.
PktInQueueExact(q) ==
    (count["pktinqueue"][q].n + Count(q \in pkt_stored)) % CountLimit = Headers(q) % CountLimit

\* Each packet counts once, as stored or as dropped, in each port it is sent to.
EveryPacketCounted(q) ==
    (count["pktstored"][q].n + Count(q \in pkt_stored)
     + count["pktdropped"][q].n + Count(q \in pkt_dropped)) % CountLimit
        = src.addressed[q] % CountLimit

\* The bytes stored and not removed are those of the packets in the queue.
BytesConserved(q) ==
    (count["bytesstored"][q].n + (IF q \in pkt_stored THEN bytes_stored ELSE 0)
     - count["bytesremoved"][q].n) % CountLimit
        = SumOf([i \in DOMAIN meta[q].items |-> meta[q].items[i].len]) % CountLimit

\* The counters account for every packet and every byte, to their width: additions
\* come a clock late and subtractions at once, and yet no packet is taken out before
\* it has been counted in, missed or counted twice.
CountersConserve == \A q \in Queue :
    PktInQueueExact(q) /\ EveryPacketCounted(q) /\ BytesConserved(q)

\* The register description of BytesDroppedPortN: "Number of bytes dropped in port
\* N output queue".
BytesDroppedCounted == pkt_dropped = {} => \A q \in Queue :
    count["bytesdropped"][q].n = src.dropped[q] % CountLimit
=============================================================================
