------------------------ MODULE NicOutputPortLookup -------------------------
(***************************************************************************)
(* nic_output_port_lookup.sv with hash.sv: the stage of the reference NIC  *)
(* that chooses the output port, counts packets for the CPU and keeps the  *)
(* count-min sketch.  One step is one edge of axis_aclk; its inputs are    *)
(* the beat offered on the slave stream, m_axis_tready and what the        *)
(* register file drives.                                                   *)
(*                                                                         *)
(* A beat is [key, src, last]: the header bits the stage extracts at fixed *)
(* offsets of tdata (from whatever beat stands at the FIFO's output), the  *)
(* source-port byte of tuser, and tlast.  The rest of the beat passes      *)
(* through the FIFO and is not modelled.                                   *)
(***************************************************************************)
EXTENDS Integers, Sequences, FiniteSetsExt, FwftFifo

CONSTANTS Key,          \* records with the fields protocol and ip_dst: a 104-bit key
          Hash,         \* hash.sv: [Key -> 0 .. WIDTH-1], the same in every row
          Beats,        \* the beats the source may offer
          ZeroBeat,     \* the beat with all bits zero
          ROWS, WIDTH, SAMPLE_RATE,
          MAX_DEPTH,    \* of the input FIFO's memory
          CountLimit,   \* 2 ** 31, the values of a counter field
          SketchLimit,  \* 2 ** 32, the values of a sketch counter
          TReady,       \* the values m_axis_tready takes
          CpuInputs,    \* what the CPU's accesses may make the register file drive
          MaxAccesses,  \* bound: accesses of the CPU
          MaxPackets,   \* bound: packets the source sends
          MaxStalls     \* bound: clocks in which the sink is not ready

Row == 0 .. ROWS - 1
Bucket == 0 .. WIDTH - 1
Counter == {"pktin", "pktout", "icmpout", "tgtipout"}
Beat == [key : Key, src : 0 .. 255, last : BOOLEAN]
\* The register file in a clock; target holds the address written, if there is one.
CpuInput == [clear_counters : BOOLEAN, reset_registers : BOOLEAN,
             reg_clear : SUBSET Counter, target : SUBSET {k.ip_dst : k \in Key}]
Quiet == [clear_counters |-> FALSE, reset_registers |-> FALSE, reg_clear |-> {}, target |-> {}]

ASSUME SketchAssumption ==
    /\ ROWS \in Nat \ {0} /\ WIDTH \in Nat \ {0} /\ SAMPLE_RATE \in Nat \ {0}
    /\ SketchLimit \in Nat \ {0}
    /\ Hash \in [Key -> Bucket]

ASSUME StreamAssumption ==
    /\ Beats \subseteq Beat /\ ZeroBeat \in Beat
    /\ TReady \subseteq BOOLEAN
    /\ MAX_DEPTH \in Nat \ {0} /\ CountLimit \in Nat \ {0}
    /\ MaxPackets \in Nat /\ MaxStalls \in Nat /\ MaxAccesses \in Nat
    /\ CpuInputs \subseteq CpuInput

VARIABLES fifo,                  \* input_fifo
          state,                 \* ModuleHeader or InPacket
          sketch, packet_sample_count, current_row,
          hash_result,           \* the output register of every row's hash unit
          count,                 \* the counter registers: field and overflow bit
          ip2cpu_tgtipaddr, cpu2ip_tgtipaddr, tgtipoutlst,
          hist                   \* what the streams carried, for the properties

vars == <<fifo, state, sketch, packet_sample_count, current_row, hash_result,
          count, ip2cpu_tgtipaddr, cpu2ip_tgtipaddr, tgtipoutlst, hist>>

Zero == [n |-> 0, ovf |-> FALSE]

\* The registers after axis_resetn.  The zero beat hashes to 0.
Init == /\ fifo = EmptyFifo(ZeroBeat)
        /\ state = "ModuleHeader"
        /\ sketch = [r \in Row |-> [b \in Bucket |-> 0]]
        /\ packet_sample_count = 0
        /\ current_row = 0
        /\ hash_result = 0
        /\ count = [c \in Counter |-> Zero]
        /\ ip2cpu_tgtipaddr = ZeroBeat.key.ip_dst
        /\ cpu2ip_tgtipaddr = ZeroBeat.key.ip_dst
        /\ tgtipoutlst = Zero
        /\ hist = [offered |-> 0, stalls |-> 0, accesses |-> 0, begun |-> 0, between |-> TRUE, samples |-> 0,
                   due |-> [r \in Row |-> [k \in Key |-> 0]],
                   seen |-> [c \in Counter |-> 0], lst |-> 0]
-----------------------------------------------------------------------------
(* Signals *)

in_fifo_nearly_full == FifoDepth(fifo) >= MAX_DEPTH - 1
m_axis_tvalid == ~IsEmpty(fifo)
key == fifo.dout.key

out_pkt_begin == m_axis_tvalid /\ state = "ModuleHeader"

out_pkt_end(tready) == fifo.dout.last /\ m_axis_tvalid /\ tready

\* The CPU's ports are the odd bits of the one-hot source port.
pkt_is_from_cpu(src) == \E i \in {1, 3, 5, 7} : (src \div 2^i) % 2 = 1

\* Mutant: both directions shift the same way.
MutantDstPort(src) == IF src = 0 THEN 1 ELSE (2 * src) % 256

\* The destination byte of the first beat of a packet.
DstPort(src) == IF src = 0 THEN 1
                ELSE IF pkt_is_from_cpu(src) THEN src \div 2
                ELSE (2 * src) % 256

\* The destination byte at the master stream; the beats come with none, 0.
m_axis_tuser_dst == IF out_pkt_begin THEN DstPort(fifo.dout.src) ELSE 0

\* The event that each counter register adds up.
Event(in_pkt_end, tready) ==
    [pktin |-> in_pkt_end,
     pktout |-> out_pkt_end(tready),
     icmpout |-> out_pkt_begin /\ key.protocol = 1,
     tgtipout |-> out_pkt_begin /\ key.ip_dst = ip2cpu_tgtipaddr]
-----------------------------------------------------------------------------
(* The parts of a clock edge *)

\* Mutant: a header beat is left behind also when nobody takes it.
MutantStateStep(tready) ==
    state' = IF out_pkt_begin /\ ~fifo.dout.last THEN "InPacket"
             ELSE IF fifo.dout.last THEN "ModuleHeader" ELSE state

StateStep(tready) ==
    state' = IF out_pkt_end(tready) THEN "ModuleHeader"
             ELSE IF out_pkt_begin /\ tready THEN "InPacket"
             ELSE state

\* Mutant: the sampling counter wraps one packet late.
MutantSketchStep ==
    /\ hash_result' = Hash[key]
    /\ IF out_pkt_begin /\ packet_sample_count = SAMPLE_RATE
       THEN /\ sketch' = [sketch EXCEPT ![current_row][hash_result] = (@ + 1) % SketchLimit]
            /\ current_row' = (current_row + 1) % ROWS
            /\ packet_sample_count' = 0
       ELSE /\ packet_sample_count' = packet_sample_count + Count(out_pkt_begin)
            /\ UNCHANGED <<sketch, current_row>>

\* The hash units register the hash of the key at dout, whatever beat that is;
\* the sketch uses the hash registered one clock before.
SketchStep ==
    /\ hash_result' = Hash[key]
    /\ IF out_pkt_begin /\ packet_sample_count = SAMPLE_RATE - 1
       THEN /\ sketch' = [sketch EXCEPT ![current_row][hash_result] = (@ + 1) % SketchLimit]
            /\ current_row' = (current_row + 1) % ROWS
            /\ packet_sample_count' = 0
       ELSE /\ packet_sample_count' = packet_sample_count + Count(out_pkt_begin)
            /\ UNCHANGED <<sketch, current_row>>

\* Mutant: the overflow bit is not sticky.
MutantCountUp(r, event) ==
    [n |-> (r.n + Count(event)) % CountLimit, ovf |-> r.n = CountLimit - 1 /\ event]

\* A counter register: the field wraps, the overflow bit stays.
CountUp(r, event) ==
    [n |-> (r.n + Count(event)) % CountLimit,
     ovf |-> r.ovf \/ (r.n = CountLimit - 1 /\ event)]

Cleared(c, cpu) == cpu.reset_registers \/ cpu.clear_counters \/ c \in cpu.reg_clear

\* Mutant: the value of the last target is taken while the target stays.
MutantRegisterStep(in_pkt_end, tready, cpu) ==
    /\ count' = [c \in Counter |-> IF Cleared(c, cpu) THEN Zero
                                   ELSE CountUp(count[c], Event(in_pkt_end, tready)[c])]
    /\ ip2cpu_tgtipaddr' = cpu2ip_tgtipaddr
    /\ tgtipoutlst' = IF ip2cpu_tgtipaddr = cpu2ip_tgtipaddr THEN count["tgtipout"]
                                                            ELSE tgtipoutlst
    /\ cpu2ip_tgtipaddr' \in IF cpu.target = {} THEN {cpu2ip_tgtipaddr} ELSE cpu.target

RegisterStep(in_pkt_end, tready, cpu) ==
    /\ count' = [c \in Counter |-> IF Cleared(c, cpu) THEN Zero
                                   ELSE CountUp(count[c], Event(in_pkt_end, tready)[c])]
    /\ ip2cpu_tgtipaddr' = IF cpu.reset_registers THEN ZeroBeat.key.ip_dst
                                                  ELSE cpu2ip_tgtipaddr
    /\ tgtipoutlst' = IF cpu.reset_registers \/ cpu.clear_counters THEN Zero
                      ELSE IF ip2cpu_tgtipaddr # cpu2ip_tgtipaddr THEN count["tgtipout"]
                      ELSE tgtipoutlst
    /\ cpu2ip_tgtipaddr' \in IF cpu.target = {} THEN {cpu2ip_tgtipaddr} ELSE cpu.target
-----------------------------------------------------------------------------
(* The history: what an observer of the two streams and of the register    *)
(* file counts.  A packet is counted when its first, or last, beat is      *)
(* handed over; no signal of the stage is used.                            *)

Handed(in_pkt_end, tready) ==
    LET sent == fifo.dv /\ tready
        first == sent /\ hist.between
    IN  [pktin |-> in_pkt_end,
         pktout |-> sent /\ fifo.dout.last,
         icmpout |-> first /\ key.protocol = 1,
         tgtipout |-> first /\ key.ip_dst = ip2cpu_tgtipaddr]

HistoryStep(in_pkt_end, tready, cpu) ==
    LET sent == fifo.dv /\ tready
        sampled == out_pkt_begin /\ packet_sample_count = SAMPLE_RATE - 1
        seen == [c \in Counter |-> hist.seen[c] + Count(Handed(in_pkt_end, tready)[c])]
    IN  hist' = [offered |-> hist.offered + Count(in_pkt_end),
                 stalls |-> hist.stalls + Count(~tready),
                 accesses |-> hist.accesses + Count(cpu # Quiet),
                 begun |-> hist.begun + Count(sent /\ hist.between),
                 between |-> IF sent THEN fifo.dout.last ELSE hist.between,
                 samples |-> hist.samples + Count(sampled),
                 due |-> IF sampled THEN [hist.due EXCEPT ![current_row][key] = @ + 1]
                                    ELSE hist.due,
                 seen |-> [c \in Counter |-> IF Cleared(c, cpu) THEN 0 ELSE seen[c]],
                 lst |-> IF cpu.reset_registers \/ cpu.clear_counters THEN 0
                         ELSE IF ip2cpu_tgtipaddr # cpu2ip_tgtipaddr THEN seen["tgtipout"]
                         ELSE hist.lst]
-----------------------------------------------------------------------------
(* One clock edge, with beat b on the slave stream if tvalid *)

Clock(tvalid, b, tready, cpu) ==
    LET accepted == tvalid /\ ~in_fifo_nearly_full
    IN  /\ fifo' = Step(fifo, accepted, b, tready /\ m_axis_tvalid)
        /\ StateStep(tready)
        /\ SketchStep
        /\ RegisterStep(accepted /\ b.last, tready, cpu)
        /\ HistoryStep(accepted /\ b.last, tready, cpu)

\* The source stops after MaxPackets packets, the sink stalls for at most MaxStalls
\* clocks and the CPU makes at most MaxAccesses accesses; the clock goes on.
Next == \E tready \in TReady, cpu \in CpuInputs \cup {Quiet} :
            /\ hist.stalls = MaxStalls => tready
            /\ hist.accesses = MaxAccesses => cpu = Quiet
            /\ \/ Clock(FALSE, ZeroBeat, tready, cpu)
               \/ /\ hist.offered < MaxPackets
                  /\ \E b \in Beats : Clock(TRUE, b, tready, cpu)

Spec == Init /\ [][Next]_vars
-----------------------------------------------------------------------------
(* Properties *)

\* A packet of a port goes to the CPU's side of the same port, one of the CPU out of
\* that port, and one without a source to port 0; the byte is written on its first
\* beat and on no other, under every pattern of back-pressure and gaps.
RoutedAcross == fifo.dv =>
    IF ~hist.between THEN m_axis_tuser_dst = 0
    ELSE IF fifo.dout.src = 0 THEN m_axis_tuser_dst = 1
    ELSE \A i \in 0 .. 7 : fifo.dout.src = 2^i =>
             m_axis_tuser_dst = IF i % 2 = 0 THEN 2^(i + 1) ELSE 2^(i - 1)

\* Sampling is exact for as long as the sink is ready, as output_queues.v always is:
\* of every SAMPLE_RATE packets that leave the stage one updates the sketch, and
\* the rows take turns.  (A first beat that is held up is sampled once per clock.)
SamplingExact == hist.stalls = 0 =>
    /\ hist.begun = SAMPLE_RATE * hist.samples + packet_sample_count
    /\ current_row = hist.samples % ROWS

\* What the stage does to a packet that passes: it goes across, and is sampled in
\* its turn.
PassesRight == RoutedAcross /\ SamplingExact

\* What a count-min sketch promises (the comment at the sketch's parameters): the
\* counter of a key is never below the number of that key's sampled packets.
CountMinBound == \A r \in Row, k \in Key : sketch[r][Hash[k]] >= hist.due[r][k]

\* Each counter register shows the packets handed over since it was cleared, to
\* its width, and its overflow bit whether that width was exceeded: those that
\* count last beats always, those that look at first beats while the sink is ready.
CountersExact == \A c \in Counter : hist.stalls = 0 \/ c \in {"pktin", "pktout"} =>
    count[c] = [n |-> hist.seen[c] % CountLimit, ovf |-> hist.seen[c] >= CountLimit]

\* TGTIPOUTLST keeps the count the last target address had reached when the CPU
\* changed it; a packet handed over in that very clock may be missing.
LastTargetWithinOne == hist.stalls = 0 =>
    tgtipoutlst.n \in {hist.lst % CountLimit, (hist.lst - 1) % CountLimit}
=============================================================================
