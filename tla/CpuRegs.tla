------------------------------- MODULE CpuRegs -------------------------------
(***************************************************************************)
(* output_port_lookup_cpu_regs.sv: the register file of the NIC lookup      *)
(* stage behind an AXI4-Lite port, with the counters and settings of the    *)
(* stage it serves.  One step is one clock edge; top.v drives clk and       *)
(* S_AXI_ACLK from one clock.                                              *)
(*                                                                         *)
(* The master is external.  It keeps a valid signal up until it is taken    *)
(* and has at most one read and one write under way (the source: "This      *)
(* design expects no outstanding transactions"), but may begin the next one *)
(* at the very edge that ends the last.                                    *)
(***************************************************************************)
EXTENDS Integers, FwftFifo

CONSTANTS Counter,      \* the registers that are cleared on read
          Setting,      \* TGTIPADDR, TGTUDPPORT: written, and read back through the stage
          ReadAddrs,    \* the registers the master reads
          Writes,       \* the writes of the master: [addr, data]
          MaxEvents,    \* bound: events of each counter
          MaxReads      \* bound: reads of each counter

Address == Counter \cup Setting \cup {"RESET"}

ASSUME CpuRegsAssumption ==
    /\ Counter \cap Setting = {} /\ "RESET" \notin Counter \cup Setting
    /\ ReadAddrs \subseteq Address
    /\ Writes \subseteq [addr : Address, data : Nat]
    /\ MaxEvents \in Nat /\ MaxReads \in Nat

VARIABLES axi_awready, axi_wready, axi_awaddr, axi_bvalid,
          axi_arready, axi_araddr, axi_rvalid, axi_rdata,
          reset_reg,          \* REG_RESET, nonzero for one clock after a write
          cpu2ip, ip2cpu,     \* the settings, and the lookup stage's copy of them
          clear, clear_d,     \* the counters whose clear, and clear_d, bits are up
          count,              \* the counter registers, in the lookup stage
          rd, wr,             \* the master's read and its write
          hist                \* for the properties

axiVars == <<axi_awready, axi_wready, axi_awaddr, axi_bvalid,
             axi_arready, axi_araddr, axi_rvalid, axi_rdata>>
vars == <<axiVars, reset_reg, cpu2ip, ip2cpu, clear, clear_d, count, rd, wr, hist>>

\* The master at rest; valid holds the channels whose valid signal is up, and wait
\* says that a request has been handed over and not been answered.
NoRead == [valid |-> {}, addr |-> "RESET", wait |-> FALSE]
NoWrite == [valid |-> {}, addr |-> "RESET", data |-> 0, wait |-> FALSE]

Init == /\ axi_awready = FALSE /\ axi_wready = FALSE /\ axi_awaddr = "RESET"
        /\ axi_bvalid = FALSE
        /\ axi_arready = FALSE /\ axi_araddr = "RESET" /\ axi_rvalid = FALSE /\ axi_rdata = 0
        /\ reset_reg = 0
        /\ cpu2ip = [s \in Setting |-> 0] /\ ip2cpu = [s \in Setting |-> 0]
        /\ clear = {} /\ clear_d = {}
        /\ count = [c \in Counter |-> 0]
        /\ rd = NoRead /\ wr = NoWrite
        /\ hist = [events |-> [c \in Counter |-> 0], unread |-> [c \in Counter |-> 0],
                   reads |-> [c \in Counter |-> 0], sent |-> [s \in Setting |-> 0],
                   snap |-> 0, calm |-> FALSE]
-----------------------------------------------------------------------------
(* Signals *)

S_AXI_ARVALID == "ar" \in rd.valid
S_AXI_AWVALID == "aw" \in wr.valid
S_AXI_WVALID == "w" \in wr.valid

reg_wren == axi_wready /\ S_AXI_WVALID /\ axi_awready /\ S_AXI_AWVALID
reg_rden == axi_arready /\ S_AXI_ARVALID /\ ~axi_rvalid

clear_counters == reset_reg % 2 = 1
reset_registers == (reset_reg \div 16) % 2 = 1

\* REG_RESET is write only: a read of it returns a default word, here 0.
reg_data_out == IF axi_araddr \in Counter THEN count[axi_araddr]
                ELSE IF axi_araddr \in Setting THEN ip2cpu[axi_araddr]
                ELSE 0
-----------------------------------------------------------------------------
(* The parts of a clock edge *)

\* Mutant: the address is taken before its data has come.
MutantWriteChannel(bready) ==
    /\ axi_awready' = (~axi_awready /\ S_AXI_AWVALID)
    /\ axi_wready' = (~axi_wready /\ S_AXI_AWVALID /\ S_AXI_WVALID)
    /\ axi_awaddr' = IF ~axi_awready /\ S_AXI_AWVALID THEN wr.addr ELSE axi_awaddr
    /\ axi_bvalid' = SetClear(axi_bvalid, reg_wren /\ ~axi_bvalid, bready)

\* Address and data are taken together.
WriteChannel(bready) ==
    LET offered == S_AXI_AWVALID /\ S_AXI_WVALID
    IN  /\ axi_awready' = (~axi_awready /\ offered)
        /\ axi_wready' = (~axi_wready /\ offered)
        /\ axi_awaddr' = IF ~axi_awready /\ offered THEN wr.addr ELSE axi_awaddr
        /\ axi_bvalid' = SetClear(axi_bvalid, reg_wren /\ ~axi_bvalid, bready)

\* Mutant: the address is latched when it is accepted, not the clock before.
MutantReadChannel(rready) ==
    /\ axi_arready' = (~axi_arready /\ S_AXI_ARVALID)
    /\ axi_araddr' = IF reg_rden THEN rd.addr ELSE axi_araddr
    /\ axi_rvalid' = SetClear(axi_rvalid, reg_rden, rready)
    /\ axi_rdata' = IF reg_rden THEN reg_data_out ELSE axi_rdata

ReadChannel(rready) ==
    /\ axi_arready' = (~axi_arready /\ S_AXI_ARVALID)
    /\ axi_araddr' = IF ~axi_arready /\ S_AXI_ARVALID THEN rd.addr ELSE axi_araddr
    /\ axi_rvalid' = SetClear(axi_rvalid, reg_rden, rready)
    /\ axi_rdata' = IF reg_rden THEN reg_data_out ELSE axi_rdata

\* The reset register falls back to 0 in a clock without a write.
WriteRegisters ==
    /\ reset_reg' = IF ~reg_wren THEN 0
                    ELSE IF axi_awaddr = "RESET" THEN wr.data ELSE reset_reg
    /\ cpu2ip' = IF reg_wren /\ axi_awaddr \in Setting
                    THEN [cpu2ip EXCEPT ![axi_awaddr] = wr.data] ELSE cpu2ip

\* Mutant: a read of any register clears the counters.
MutantClearsAll ==
    /\ clear' = clear_d
    /\ clear_d' = IF reg_rden THEN Counter ELSE {}

\* A read of a counter clears it, two registers later.
ClearOnRead ==
    /\ clear' = clear_d
    /\ clear_d' = {c \in Counter : reg_rden /\ axi_araddr = c}

\* The lookup stage: clearing beats counting, and the settings are copied.
StageRegisters(events) ==
    /\ count' = [c \in Counter |->
           IF reset_registers \/ clear_counters \/ c \in clear THEN 0
           ELSE count[c] + Count(c \in events)]
    /\ ip2cpu' = IF reset_registers THEN [s \in Setting |-> 0] ELSE cpu2ip
-----------------------------------------------------------------------------
(* The master.  nr and nw are the read and the write it begins when it can.   *)

ReadEnds(rready) == rd.wait /\ axi_rvalid /\ rready
ReadBegins(rready) == (rd.valid = {} /\ ~rd.wait) \/ ReadEnds(rready)

ReadNext(rready, nr) ==
    rd' = IF ReadBegins(rready) THEN nr
          ELSE IF axi_arready THEN [rd EXCEPT !.valid = {}, !.wait = TRUE]
          ELSE rd

\* The data of a write may come later than its address; both stay up until taken.
WriteNext(bready, late, nw) ==
    LET taken == (IF axi_awready THEN {"aw"} ELSE {}) \cup (IF axi_wready THEN {"w"} ELSE {})
        left == wr.valid \ taken
    IN  wr' = IF wr.wait
                 THEN IF axi_bvalid /\ bready THEN nw ELSE wr
              ELSE IF wr.valid = {} THEN nw
              ELSE IF left = {} THEN [wr EXCEPT !.valid = {}, !.wait = TRUE]
              ELSE [wr EXCEPT !.valid = left \cup (IF late THEN {} ELSE {"w"} \ taken)]

\* sent: the settings as the master believes them to be.  unread: events since the
\* last reset that no read has reported yet.  snap, calm: what the read under way
\* is to return if no write overlaps it.
HistoryStep(events, rready) ==
    LET read(c) == reg_rden /\ axi_araddr = c
        writing == wr.valid # {} \/ wr.wait
        sent == IF wr.wait /\ axi_bvalid /\ wr.addr \in Setting
                   THEN [hist.sent EXCEPT ![wr.addr] = wr.data] ELSE hist.sent
    IN  hist' = [events |-> [c \in Counter |-> hist.events[c] + Count(c \in events)],
                 unread |-> [c \in Counter |->
                     IF reset_registers \/ clear_counters THEN 0
                     ELSE hist.unread[c] + Count(c \in events)
                          - (IF read(c) THEN count[c] ELSE 0)],
                 reads |-> [c \in Counter |-> hist.reads[c] + Count(read(c))],
                 sent |-> sent,
                 snap |-> IF ReadBegins(rready) /\ rd'.addr \in Setting THEN sent[rd'.addr]
                          ELSE hist.snap,
                 calm |-> /\ ReadBegins(rready) \/ hist.calm
                          /\ wr'.valid = {} /\ ~wr'.wait]

Clock(events, rready, bready, late, nr, nw) ==
    /\ WriteChannel(bready)
    /\ ReadChannel(rready)
    /\ WriteRegisters
    /\ ClearOnRead
    /\ StageRegisters(events)
    /\ ReadNext(rready, nr)
    /\ WriteNext(bready, late, nw)
    /\ HistoryStep(events, rready)

ReadRequest(a) == [valid |-> {"ar"}, addr |-> a, wait |-> FALSE]
WriteRequest(w, late) == [valid |-> IF late THEN {"aw"} ELSE {"aw", "w"},
                          addr |-> w.addr, data |-> w.data, wait |-> FALSE]

Events == SUBSET {c \in Counter : hist.events[c] < MaxEvents}
Reads == {NoRead} \cup {ReadRequest(a) :
             a \in {b \in ReadAddrs : b \in Counter => hist.reads[b] < MaxReads}}
WriteBegins(bready) == wr.valid = {} /\ (wr.wait => axi_bvalid /\ bready)

\* An input that nothing looks at in this clock has one value only.
Next == \E events \in Events,
           rready \in IF axi_rvalid THEN BOOLEAN ELSE {TRUE},
           bready \in IF axi_bvalid THEN BOOLEAN ELSE {TRUE},
           late \in IF WriteBegins(TRUE) \/ wr.valid = {"aw"} THEN BOOLEAN ELSE {FALSE} :
           \E nr \in IF ReadBegins(rready) THEN Reads ELSE {NoRead},
              nw \in {NoWrite} \cup IF WriteBegins(bready)
                                    THEN {WriteRequest(w, late) : w \in Writes} ELSE {} :
               Clock(events, rready, bready, late, nr, nw)

Spec == Init /\ [][Next]_vars

\* The clock goes on and the master takes its answers.
Attentive == \E events \in Events :
                 Clock(events, TRUE, TRUE, FALSE, NoRead, NoWrite)

FairSpec == Spec /\ WF_vars(Attentive)
-----------------------------------------------------------------------------
(* Properties *)

\* No request goes unanswered and no answer is without its request: a read, or a
\* write, that has been handed over is what the rvalid, or bvalid, signal is about.
AnswersOwed == (rd.wait <=> axi_rvalid) /\ (wr.wait <=> axi_bvalid)

\* A counter that is cleared on read reports no event twice, however fast the reads
\* follow each other, and a read loses at most the events of three clocks: those of
\* the read itself and of the two registers its clear goes through.
ReportedOnce == \A c \in Counter \ (clear \cup clear_d) :
    hist.unread[c] - count[c] \in 0 .. 3 * hist.reads[c]

\* A read that overlaps no write returns the setting as last confirmed, though the
\* value comes back through the registers of the lookup stage, and also after the
\* stage's registers were reset.
ReadYourWrites == (axi_rvalid /\ axi_araddr \in Setting /\ hist.calm) => axi_rdata = hist.snap

\* What the CPU reads is true: of a setting what it wrote, of a counter what was
\* not reported before; and each answer is the answer to its request.
ReadsTrue == AnswersOwed /\ ReportedOnce /\ ReadYourWrites

\* Every read and every write of the CPU is taken and then answered, also when both
\* run at once and the next ones follow without a pause.
AccessesEnd == /\ (rd.valid # {} ~> rd.wait) /\ (rd.wait ~> ~rd.wait)
               /\ (wr.valid # {} ~> wr.wait) /\ (wr.wait ~> ~wr.wait)
=============================================================================
