----------------------------- MODULE SwitchLite ------------------------------
(***************************************************************************)
(* switch_lite_output_port_lookup.v with eth_parser.v and mac_cam_lut.v:    *)
(* the learning switch.  The beats of a packet wait in input_fifo while its *)
(* header goes through the parser and the lookup table; the ports found     *)
(* come out of dst_port_fifo, and the two are joined again by order alone.  *)
(* One step is one edge of axis_aclk.                                      *)
(*                                                                         *)
(* A beat is [id, dst, src, port, first, last]: the two MAC addresses, the  *)
(* source port and tlast.  id and first tell packets apart in the           *)
(* properties; nothing in the stage looks at them.  A port byte is the set  *)
(* of its bits.                                                            *)
(***************************************************************************)
EXTENDS Integers, Sequences, FiniteSetsExt, SequencesExt, FwftFifo

CONSTANTS Mac,            \* the stations' addresses
          NoMac,          \* 48'h0, in the entries of the table after a reset
          Headers,        \* the headers the source may send: [dst, src, port]
          LUT_DEPTH,
          MAX_DEPTH,      \* of input_fifo's memory
          PORT_DEPTH,     \* of dst_port_fifo's memory
          CountLimit,     \* 2 ** 31, the values of a counter field
          TReady,         \* the values m_axis_tready takes
          Resets,         \* the values reset_tables takes
          Clears,         \* the sets of counters the register file may clear in a clock
          MaxBeats,       \* bound: beats of a packet
          MaxPackets      \* bound: packets the source sends

Port == 0 .. 7
DEFAULT_MISS_OUTPUT_PORTS == {0, 2}      \* 8'h05
Counter == {"pktin", "pktout", "luthit", "lutmiss"}
Header == [dst : Mac, src : Mac, port : Port]
Slot == 0 .. LUT_DEPTH - 1

\* What the constants must be like.
SwitchAssumption ==
    /\ NoMac \notin Mac /\ Headers \subseteq Header
    /\ LUT_DEPTH \in Nat \ {0} /\ MAX_DEPTH \in Nat \ {0} /\ PORT_DEPTH \in Nat \ {0}
    /\ CountLimit \in Nat \ {0} /\ TReady \subseteq BOOLEAN /\ Resets \subseteq BOOLEAN
    /\ Clears \subseteq SUBSET Counter
    /\ MaxBeats \in Nat \ {0} /\ MaxPackets \in Nat

VARIABLES input_fifo, dst_port_fifo,
          parser,       \* eth_parser: its state and its output registers
          lut, lut_wr_addr,
          found,        \* the output registers of mac_cam_lut
          state,        \* WAIT_STATE or SEND_STATE
          count,        \* the counter registers, without their overflow bits
          src,          \* the source: packets begun, beats of the current one
          seen          \* the stations in the order they were learned, and where

vars == <<input_fifo, dst_port_fifo, parser, lut, lut_wr_addr, found, state, count, src, seen>>

NoHeader == [dst |-> NoMac, src |-> NoMac, port |-> 0]
beatOf(id, first, last, h) == [id |-> id, first |-> first, last |-> last,
                               dst |-> h.dst, src |-> h.src, port |-> h.port]
NoBeat == beatOf(0, FALSE, FALSE, NoHeader)
NoPorts == [id |-> 0, ports |-> {}]
NoEntry == [mac |-> NoMac, ports |-> {}]
Nothing == [lookup_done |-> FALSE, hit |-> FALSE, id |-> 0, ports |-> {}]

Init == /\ input_fifo = EmptyFifo(NoBeat)
        /\ dst_port_fifo = EmptyFifo(NoPorts)
        /\ parser = [state |-> "READ_MAC_ADDRESSES", eth_done |-> FALSE, beat |-> NoBeat]
        /\ lut = [i \in Slot |-> NoEntry]
        /\ lut_wr_addr = 0
        /\ found = Nothing
        /\ state = "WAIT_STATE"
        /\ count = [c \in Counter |-> 0]
        /\ src = [id |-> 0, beats |-> 0, header |-> NoHeader]
        /\ seen = << >>
-----------------------------------------------------------------------------
(* Signals *)

in_fifo_nearly_full == FifoDepth(input_fifo) >= MAX_DEPTH - 1

\* Mutant: the packet goes on without waiting for its ports.
MutantSendPacket == TRUE

send_packet == state = "SEND_STATE" \/ ~IsEmpty(dst_port_fifo)

m_axis_tvalid == ~IsEmpty(input_fifo) /\ send_packet
m_axis_tlast == input_fifo.dout.last
Sent(tready) == m_axis_tvalid /\ tready

\* The ports are taken in the first clock they show, whether the beat leaves or not.
dst_port_rd == state = "WAIT_STATE" /\ ~IsEmpty(dst_port_fifo)
-----------------------------------------------------------------------------
(* The parts of a clock edge *)

\* Mutant: a packet of one beat also waits for its end.
MutantParse(valid, b) ==
    parser' = [state |-> IF valid THEN IF parser.state = "WAIT_EOP" /\ b.last
                                          THEN "READ_MAC_ADDRESSES" ELSE "WAIT_EOP"
                         ELSE parser.state,
               eth_done |-> valid /\ parser.state = "READ_MAC_ADDRESSES",
               beat |-> IF valid /\ parser.state = "READ_MAC_ADDRESSES" THEN b ELSE NoBeat]

\* eth_parser: the header of the first beat, for one clock.
Parse(valid, b) ==
    parser' = [state |-> IF ~valid THEN parser.state
                         ELSE IF b.last THEN "READ_MAC_ADDRESSES" ELSE "WAIT_EOP",
               eth_done |-> valid /\ parser.state = "READ_MAC_ADDRESSES",
               beat |-> IF valid /\ parser.state = "READ_MAC_ADDRESSES" THEN b ELSE NoBeat]

Matches(mac) == {i \in Slot : lut[i].mac = mac}

\* A miss floods; no packet goes back where it came from.
Ports(h) == (IF Matches(h.dst) = {} THEN DEFAULT_MISS_OUTPUT_PORTS
             ELSE lut[Max(Matches(h.dst))].ports) \ {h.port}

\* mac_cam_lut: look up the destination.
LookUp(reset) ==
    found' = IF reset THEN Nothing
             ELSE IF ~parser.eth_done
                  THEN [found EXCEPT !.lookup_done = FALSE, !.hit = FALSE]
             ELSE [lookup_done |-> TRUE, hit |-> Matches(parser.beat.dst) # {},
                   id |-> parser.beat.id, ports |-> Ports(parser.beat)]

\* Mutant: a station that has moved is given an entry of its own.
MutantLearn(reset) ==
    IF reset
    THEN lut' = [i \in Slot |-> NoEntry] /\ lut_wr_addr' = 0
    ELSE IF ~parser.eth_done THEN UNCHANGED <<lut, lut_wr_addr>>
    ELSE LET mac == parser.beat.src
             new == {i \in Matches(mac) : lut[i].ports = {parser.beat.port}} = {}
         IN  /\ lut' = IF new THEN [lut EXCEPT ![lut_wr_addr] =
                                       [mac |-> mac, ports |-> {parser.beat.port}]]
                       ELSE lut
             /\ lut_wr_addr' = IF new THEN (lut_wr_addr + 1) % LUT_DEPTH ELSE lut_wr_addr

\* mac_cam_lut: learn the source, over the oldest entry if it is new.
Learn(reset) ==
    IF reset
    THEN lut' = [i \in Slot |-> NoEntry] /\ lut_wr_addr' = 0
    ELSE IF ~parser.eth_done THEN UNCHANGED <<lut, lut_wr_addr>>
    ELSE LET mac == parser.beat.src
             new == Matches(mac) = {}
         IN  /\ lut' = [i \in Slot |-> IF i \in Matches(mac) \/ (new /\ i = lut_wr_addr)
                                       THEN [mac |-> mac, ports |-> {parser.beat.port}]
                                       ELSE lut[i]]
             /\ lut_wr_addr' = IF new THEN (lut_wr_addr + 1) % LUT_DEPTH ELSE lut_wr_addr

StateStep(tready) ==
    state' = IF m_axis_tlast /\ Sent(tready) THEN "WAIT_STATE"
             ELSE IF send_packet THEN "SEND_STATE" ELSE state

\* Mutant: every clock after a hit is counted as a miss.
MutantEvent(in_last, tready) ==
    [pktin |-> in_last, pktout |-> m_axis_tlast /\ Sent(tready),
     luthit |-> found.hit /\ found.lookup_done, lutmiss |-> ~found.hit]

Event(in_last, tready) ==
    [pktin |-> in_last, pktout |-> m_axis_tlast /\ Sent(tready),
     luthit |-> found.hit /\ found.lookup_done, lutmiss |-> ~found.hit /\ found.lookup_done]

\* The stations the table is to hold: the last LUT_DEPTH ones learned, and where
\* each was heard last.
SeenStep(reset) ==
    LET b == parser.beat
        here == [mac |-> b.src, port |-> b.port]
        at == {i \in DOMAIN seen : seen[i].mac = b.src}
    IN  seen' = IF reset THEN << >>
                ELSE IF ~parser.eth_done THEN seen
                ELSE IF at # {} THEN [i \in DOMAIN seen |-> IF i \in at THEN here ELSE seen[i]]
                ELSE IF Len(seen) < LUT_DEPTH THEN Append(seen, here)
                ELSE Append(Tail(seen), here)
-----------------------------------------------------------------------------
(* A clock edge, with beat b on the slave stream if tvalid *)

Clock(tvalid, b, tready, reset, clear) ==
    LET accepted == tvalid /\ ~in_fifo_nearly_full
        event == Event(accepted /\ b.last, tready)
    IN  /\ input_fifo' = Step(input_fifo, accepted, b, Sent(tready))
        /\ dst_port_fifo' = Step(dst_port_fifo, found.lookup_done,
                                 [id |-> found.id, ports |-> found.ports], dst_port_rd)
        /\ Parse(accepted, b)
        /\ LookUp(reset)
        /\ Learn(reset)
        /\ StateStep(tready)
        /\ count' = [c \in Counter |-> IF c \in clear THEN 0
                                       ELSE (count[c] + Count(event[c])) % CountLimit]
        /\ SeenStep(reset)
        /\ src' = IF ~accepted THEN src
                  ELSE [id |-> b.id, beats |-> IF b.last THEN 0 ELSE src.beats + 1,
                        header |-> IF b.last THEN NoHeader
                                   ELSE [dst |-> b.dst, src |-> b.src, port |-> b.port]]

\* The beats the source may put on the stream.
Offers == {b \in {beatOf(src.id + Count(src.beats = 0), src.beats = 0, l, h) :
                     l \in BOOLEAN, h \in IF src.beats = 0 THEN Headers ELSE {src.header}} :
              /\ b.id <= MaxPackets
              /\ src.beats = MaxBeats - 1 => b.last}

Next == \E tready \in TReady, reset \in Resets, clear \in Clears :
            \/ Clock(FALSE, NoBeat, tready, reset, clear)
            \/ \E b \in Offers : Clock(TRUE, b, tready, reset, clear)

Spec == Init /\ [][Next]_vars

\* The clock does not stop.
FairSpec == Spec /\ WF_vars(Next)
-----------------------------------------------------------------------------
(* Properties *)

\* The ports a packet is given were looked up for its own header: when WAIT_STATE joins
\* a beat with a port byte, both belong to the same packet.  (The comment at the state
\* machine: "Wait until the ethernet header has been decoded and the output port is
\* found, then write the module header and move the packet to the output".)
OwnPorts == (state = "WAIT_STATE" /\ m_axis_tvalid) =>
                input_fifo.dout.first /\ dst_port_fifo.dout.id = input_fifo.dout.id

\* A first beat leaves with its ports, which are on tuser in WAIT_STATE only.  False when
\* the sink is not ready in the clock in which they are taken.
PortsWritten == m_axis_tvalid /\ input_fifo.dout.first => state = "WAIT_STATE"

\* The table holds exactly the last LUT_DEPTH stations learned, each once and at
\* the port it was heard on last, however stations move and return.
TableExact ==
    /\ {lut[i] : i \in {j \in Slot : lut[j].mac # NoMac}}
           = {[mac |-> seen[i].mac, ports |-> {seen[i].port}] : i \in DOMAIN seen}
    /\ \A i, j \in Slot : i # j /\ lut[i].mac = lut[j].mac => lut[i].mac = NoMac

\* Every packet is looked up once: hits and misses add up to the packets begun,
\* but for the one in the parser and the one in the table's output register.
LookupsCounted ==
    (count["luthit"] + count["lutmiss"] + Count(parser.eth_done) + Count(found.lookup_done))
        % CountLimit = src.id % CountLimit

\* dst_port_fifo has no back-pressure (its nearly_full is not connected): what bounds
\* the ports that wait in it is the room for beats in input_fifo.
PortsFit == FifoDepth(dst_port_fifo) <= PORT_DEPTH

Holds(id) == \E i \in DOMAIN input_fifo.items : input_fifo.items[i].id = id

\* Every beat that has come in leaves: none waits for ports that never come.
PacketsLeave == \A id \in 1 .. MaxPackets : Holds(id) ~> ~Holds(id)
=============================================================================
