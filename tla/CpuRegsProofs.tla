--------------------------- MODULE CpuRegsProofs ---------------------------
(***************************************************************************)
(* Proofs about output_port_lookup_cpu_regs.sv for every set of counters    *)
(* and settings, whatever the master reads and writes.                     *)
(***************************************************************************)
EXTENDS CpuRegs, TLAPS

Channel == {"aw", "w"}

ReadOf == [valid : SUBSET {"ar"}, addr : Address, wait : BOOLEAN]
WriteOf == [valid : SUBSET Channel, addr : Address, data : Nat, wait : BOOLEAN]
HistoryOf == [events : [Counter -> Nat], unread : [Counter -> Int], reads : [Counter -> Nat],
              sent : [Setting -> Nat], snap : Nat, calm : BOOLEAN]

TypeOK ==
    /\ axi_awready \in BOOLEAN /\ axi_wready \in BOOLEAN /\ axi_awaddr \in Address
    /\ axi_bvalid \in BOOLEAN
    /\ axi_arready \in BOOLEAN /\ axi_araddr \in Address /\ axi_rvalid \in BOOLEAN
    /\ axi_rdata \in Nat
    /\ reset_reg \in Nat
    /\ cpu2ip \in [Setting -> Nat] /\ ip2cpu \in [Setting -> Nat]
    /\ clear \in SUBSET Counter /\ clear_d \in SUBSET Counter
    /\ count \in [Counter -> Nat]
    /\ rd \in ReadOf /\ wr \in WriteOf
    /\ hist \in HistoryOf

\* A read goes through: offered, accepted (arready, with its address latched),
\* answered.  The clear of a counter starts with the answer, so it is done before
\* the next read is accepted.
ReadPhases ==
    /\ rd.wait <=> axi_rvalid
    /\ rd.wait => rd.valid = {}
    /\ axi_arready => rd.valid = {"ar"}
    /\ axi_arready \/ axi_rvalid => axi_araddr = rd.addr
    /\ clear_d # {} => axi_rvalid
    /\ clear # {} => ~axi_arready /\ clear_d = {}

\* A write goes through: offered, perhaps without its data yet, accepted, answered.
\* The reset register is up only while the write that set it is being answered.
WritePhases ==
    /\ wr.wait <=> axi_bvalid
    /\ wr.wait => wr.valid = {}
    /\ axi_awready = axi_wready
    /\ axi_awready => wr.valid = Channel /\ axi_awaddr = wr.addr
    /\ reset_reg # 0 => wr.wait

\* The settings are those confirmed, but for a write that is being answered; and a
\* read that no write overlaps finds the copy of the lookup stage up to date.
SettingsKept ==
    /\ \A s \in Setting :
          cpu2ip[s] = IF wr.wait /\ wr.addr = s THEN wr.data ELSE hist.sent[s]
    /\ hist.calm => wr.valid = {} /\ ~wr.wait
    /\ hist.calm /\ axi_arready => ip2cpu = cpu2ip
    /\ hist.calm /\ rd.addr \in Setting => hist.snap = hist.sent[rd.addr]
    /\ hist.calm /\ axi_rvalid /\ rd.addr \in Setting => axi_rdata = hist.snap

\* What a counter's register and its history owe each other on the three clocks of
\* a clear.
CountersExact == \A c \in Counter :
    /\ c \notin clear \cup clear_d => hist.unread[c] - count[c] \in 0 .. 3 * hist.reads[c]
    /\ c \in clear_d => hist.unread[c] \in 0 .. 3 * hist.reads[c] - 2
    /\ c \in clear => hist.unread[c] \in 0 .. 3 * hist.reads[c] - 1

Inv == TypeOK /\ ReadPhases /\ WritePhases /\ SettingsKept /\ CountersExact
-----------------------------------------------------------------------------
\* The registers start at rest.
LEMMA InitInv == Init => Inv
<1> SUFFICES ASSUME Init PROVE Inv
  OBVIOUS
<1> USE CpuRegsAssumption DEF Init, NoRead, NoWrite, Address
<1>1. TypeOK
  <2>1. hist \in HistoryOf
    BY DEF HistoryOf
  <2>2. rd \in ReadOf /\ wr \in WriteOf
    BY DEF ReadOf, WriteOf
  <2> QED
    BY <2>1, <2>2 DEF TypeOK
<1>2. ReadPhases /\ WritePhases
  BY DEF ReadPhases, WritePhases
<1>3. SettingsKept
  BY DEF SettingsKept
<1>4. CountersExact
  BY DEF CountersExact
<1> QED
  BY <1>1, <1>2, <1>3, <1>4 DEF Inv

\* The inputs of a clock edge: what the master may begin, and when.
Edge(events, rready, bready, late, nr, nw) ==
    /\ events \in SUBSET Counter
    /\ rready \in BOOLEAN /\ bready \in BOOLEAN /\ late \in BOOLEAN
    /\ nr = NoRead \/ \E a \in Address : nr = ReadRequest(a)
    /\ nw = NoWrite \/ \E w \in [addr : Address, data : Nat], l \in BOOLEAN :
                          nw = WriteRequest(w, l)
    /\ Clock(events, rready, bready, late, nr, nw)

LEMMA NextIsEdge ==
    ASSUME Next
    PROVE  \E events, rready, bready, late, nr, nw :
               Edge(events, rready, bready, late, nr, nw)
<1>1. PICK events \in Events,
           rready \in IF axi_rvalid THEN BOOLEAN ELSE {TRUE},
           bready \in IF axi_bvalid THEN BOOLEAN ELSE {TRUE},
           late \in IF WriteBegins(TRUE) \/ wr.valid = {"aw"} THEN BOOLEAN ELSE {FALSE} :
           \E nr \in IF ReadBegins(rready) THEN Reads ELSE {NoRead},
              nw \in {NoWrite} \cup IF WriteBegins(bready)
                                    THEN {WriteRequest(w, late) : w \in Writes} ELSE {} :
               Clock(events, rready, bready, late, nr, nw)
  BY Zenon DEF Next
<1>2. PICK nr \in IF ReadBegins(rready) THEN Reads ELSE {NoRead},
           nw \in {NoWrite} \cup IF WriteBegins(bready)
                                 THEN {WriteRequest(w, late) : w \in Writes} ELSE {} :
           Clock(events, rready, bready, late, nr, nw)
  BY <1>1
<1>3. events \in SUBSET Counter
  BY DEF Events
<1>4. rready \in BOOLEAN /\ bready \in BOOLEAN /\ late \in BOOLEAN
  OBVIOUS
<1>5. nr = NoRead \/ \E a \in Address : nr = ReadRequest(a)
  BY CpuRegsAssumption DEF Reads
<1>6. nw = NoWrite \/ \E w \in [addr : Address, data : Nat], l \in BOOLEAN :
                          nw = WriteRequest(w, l)
  BY <1>4, CpuRegsAssumption
<1> QED
  BY <1>2, <1>3, <1>4, <1>5, <1>6 DEF Edge

\* The types of a read and of a write as the master begins them.
LEMMA RequestTypes ==
    ASSUME NEW events, NEW rready, NEW bready, NEW late, NEW nr, NEW nw,
           Edge(events, rready, bready, late, nr, nw)
    PROVE  /\ nr \in ReadOf /\ nr.wait = FALSE /\ (nr.addr # "RESET" => nr.valid = {"ar"})
           /\ nw \in WriteOf /\ nw.wait = FALSE
<1>1. "RESET" \in Address
  BY DEF Address
<1>2. nr \in ReadOf /\ nr.wait = FALSE /\ (nr.addr # "RESET" => nr.valid = {"ar"})
  <2>1. CASE nr = NoRead
    BY <1>1, <2>1 DEF NoRead, ReadOf
  <2>2. CASE \E a \in Address : nr = ReadRequest(a)
    BY <2>2 DEF ReadRequest, ReadOf
  <2> QED BY <2>1, <2>2 DEF Edge
<1>3. nw \in WriteOf /\ nw.wait = FALSE
  <2>1. CASE nw = NoWrite
    BY <1>1, <2>1 DEF NoWrite, WriteOf
  <2>2. CASE \E w \in [addr : Address, data : Nat], l \in BOOLEAN : nw = WriteRequest(w, l)
    BY <2>2 DEF WriteRequest, WriteOf, Channel
  <2> QED BY <2>1, <2>2 DEF Edge
<1> QED BY <1>2, <1>3

\* A clock edge advances the history, field by field.
LEMMA HistoryAfter ==
    ASSUME TypeOK, NEW events, NEW rready, HistoryStep(events, rready)
    PROVE  /\ hist' \in HistoryOf
           /\ \A s \in Setting : hist'.sent[s] =
                 IF wr.wait /\ axi_bvalid /\ wr.addr = s THEN wr.data ELSE hist.sent[s]
           /\ \A c \in Counter : hist'.reads[c] = hist.reads[c] + Count(reg_rden /\ axi_araddr = c)
           /\ \A c \in Counter : hist'.unread[c] =
                 IF reset_registers \/ clear_counters THEN 0
                 ELSE hist.unread[c] + Count(c \in events)
                      - (IF reg_rden /\ axi_araddr = c THEN count[c] ELSE 0)
           /\ hist'.snap = IF ReadBegins(rready) /\ rd'.addr \in Setting
                              THEN hist'.sent[rd'.addr] ELSE hist.snap
           /\ hist'.calm <=> (ReadBegins(rready) \/ hist.calm) /\ wr'.valid = {} /\ ~wr'.wait
<1>1. hist.events \in [Counter -> Nat] /\ hist.unread \in [Counter -> Int]
      /\ hist.reads \in [Counter -> Nat] /\ hist.sent \in [Setting -> Nat]
      /\ hist.snap \in Nat /\ hist.calm \in BOOLEAN
  BY DEF TypeOK, HistoryOf
<1>2. wr.data \in Nat
  BY DEF TypeOK, WriteOf
<1> DEFINE sent == IF wr.wait /\ axi_bvalid /\ wr.addr \in Setting
                      THEN [hist.sent EXCEPT ![wr.addr] = wr.data] ELSE hist.sent
           begun == [c \in Counter |-> hist.events[c] + Count(c \in events)]
           unread == [c \in Counter |->
                      IF reset_registers \/ clear_counters THEN 0
                      ELSE hist.unread[c] + Count(c \in events)
                           - (IF reg_rden /\ axi_araddr = c THEN count[c] ELSE 0)]
           reads == [c \in Counter |-> hist.reads[c] + Count(reg_rden /\ axi_araddr = c)]
           snap == IF ReadBegins(rready) /\ rd'.addr \in Setting THEN sent[rd'.addr]
                   ELSE hist.snap
           calm == (ReadBegins(rready) \/ hist.calm) /\ wr'.valid = {} /\ ~wr'.wait
<1>3. sent \in [Setting -> Nat]
      /\ \A s \in Setting : sent[s] =
            IF wr.wait /\ axi_bvalid /\ wr.addr = s THEN wr.data ELSE hist.sent[s]
  BY <1>1, <1>2
<1>4. begun \in [Counter -> Nat] /\ reads \in [Counter -> Nat]
  BY <1>1 DEF Count
<1>5. unread \in [Counter -> Int]
  BY <1>1 DEF Count, TypeOK
<1>6. snap \in Nat
  BY <1>1, <1>3
<1>7. calm \in BOOLEAN
  OBVIOUS
<1>8. hist' = [events |-> begun, unread |-> unread, reads |-> reads, sent |-> sent,
               snap |-> snap, calm |-> calm]
  BY Zenon DEF HistoryStep
<1>9. /\ hist' \in HistoryOf /\ hist'.sent = sent /\ hist'.reads = reads
      /\ hist'.unread = unread /\ hist'.snap = snap /\ hist'.calm = calm
  <2> HIDE DEF sent, begun, unread, reads, snap, calm
  <2> QED BY <1>3, <1>4, <1>5, <1>6, <1>7, <1>8 DEF HistoryOf
<1>10. /\ \A c \in Counter : hist'.reads[c] = hist.reads[c] + Count(reg_rden /\ axi_araddr = c)
       /\ \A c \in Counter : hist'.unread[c] =
                 IF reset_registers \/ clear_counters THEN 0
                 ELSE hist.unread[c] + Count(c \in events)
                      - (IF reg_rden /\ axi_araddr = c THEN count[c] ELSE 0)
  BY <1>9
<1>11. \A s \in Setting : hist'.sent[s] =
           IF wr.wait /\ axi_bvalid /\ wr.addr = s THEN wr.data ELSE hist.sent[s]
  BY <1>3, <1>9
<1>12. hist'.snap = IF ReadBegins(rready) /\ rd'.addr \in Setting
                       THEN hist'.sent[rd'.addr] ELSE hist.snap
  BY <1>9
<1> QED
  BY <1>9, <1>10, <1>11, <1>12

\* A clock edge keeps the types.
LEMMA TypesKept ==
    ASSUME Inv, NEW events, NEW rready, NEW bready, NEW late, NEW nr, NEW nw,
           Edge(events, rready, bready, late, nr, nw)
    PROVE  TypeOK'
<1> USE DEF Inv
<1>1. /\ Clock(events, rready, bready, late, nr, nw)
      /\ nr \in ReadOf /\ nr.wait = FALSE /\ nw \in WriteOf /\ nw.wait = FALSE
  <2>1. Clock(events, rready, bready, late, nr, nw)
    BY DEF Edge
  <2> QED BY <2>1, RequestTypes
<1>2. /\ axi_awready' \in BOOLEAN /\ axi_wready' \in BOOLEAN /\ axi_awaddr' \in Address
      /\ axi_bvalid' \in BOOLEAN
  BY <1>1 DEF TypeOK, Clock, WriteChannel, SetClear, WriteOf
<1>3. reg_data_out \in Nat
  BY DEF TypeOK, reg_data_out
<1>4. /\ axi_arready' \in BOOLEAN /\ axi_araddr' \in Address /\ axi_rvalid' \in BOOLEAN
      /\ axi_rdata' \in Nat
  BY <1>1, <1>3 DEF TypeOK, Clock, ReadChannel, SetClear, ReadOf
<1>5. reset_reg' \in Nat /\ cpu2ip' \in [Setting -> Nat]
  BY <1>1 DEF TypeOK, Clock, WriteRegisters, WriteOf
<1>6. clear' \in SUBSET Counter /\ clear_d' \in SUBSET Counter
  BY <1>1 DEF TypeOK, Clock, ClearOnRead
<1>7. count' \in [Counter -> Nat] /\ ip2cpu' \in [Setting -> Nat]
  BY <1>1 DEF TypeOK, Clock, StageRegisters, Count
<1>8. rd' \in ReadOf
  BY <1>1 DEF TypeOK, Clock, ReadNext, ReadOf
<1>9. wr' \in WriteOf
  <2>1. wr' = wr \/ wr' = nw \/ wr' = [wr EXCEPT !.valid = {}, !.wait = TRUE]
        \/ \E v \in SUBSET Channel : wr' = [wr EXCEPT !.valid = v]
    BY <1>1 DEF Clock, WriteNext, TypeOK, WriteOf, Channel
  <2> QED BY <1>1, <2>1 DEF TypeOK, WriteOf
<1>10. hist' \in HistoryOf
  <2>1. HistoryStep(events, rready)
    BY <1>1 DEF Clock
  <2> QED BY <2>1, HistoryAfter
<1> QED
  BY <1>2, <1>4, <1>5, <1>6, <1>7, <1>8, <1>9, <1>10 DEF TypeOK

\* A clock edge keeps the phases of a read, and ends the clear of a counter before
\* it accepts the next read.
LEMMA ReadPhasesKept ==
    ASSUME Inv, NEW events, NEW rready, NEW bready, NEW late, NEW nr, NEW nw,
           Edge(events, rready, bready, late, nr, nw)
    PROVE  ReadPhases'
<1> USE DEF Inv
<1>1. nr \in ReadOf /\ nr.wait = FALSE
  BY RequestTypes
<1>2. ReadChannel(rready) /\ ReadNext(rready, nr) /\ ClearOnRead /\ rready \in BOOLEAN
  BY DEF Edge, Clock
<1>3. rd \in ReadOf /\ axi_arready \in BOOLEAN /\ axi_rvalid \in BOOLEAN
  BY DEF TypeOK
<1>4. ReadPhases
  OBVIOUS
<1>5. /\ (rd.wait <=> axi_rvalid)'
      /\ (rd.wait => rd.valid = {})'
      /\ (axi_arready => rd.valid = {"ar"})'
  BY <1>1, <1>2, <1>3, <1>4
     DEF ReadChannel, ReadNext, ReadBegins, ReadEnds, ReadPhases, ReadOf, SetClear,
         reg_rden, S_AXI_ARVALID
<1>6. (axi_arready \/ axi_rvalid => axi_araddr = rd.addr)'
  BY <1>1, <1>2, <1>3, <1>4
     DEF ReadChannel, ReadNext, ReadBegins, ReadEnds, ReadPhases, ReadOf, SetClear,
         reg_rden, S_AXI_ARVALID
<1>7. (clear_d # {} => axi_rvalid)'
  BY <1>2 DEF ReadChannel, ClearOnRead, SetClear
<1>8. (clear # {} => ~axi_arready /\ clear_d = {})'
  BY <1>2, <1>3, <1>4
     DEF ReadChannel, ClearOnRead, ReadPhases, reg_rden, S_AXI_ARVALID
<1> QED
  BY <1>5, <1>6, <1>7, <1>8 DEF ReadPhases

\* A clock edge keeps the phases of a write: address and data are taken together,
\* and the reset register falls with the answer.
LEMMA WritePhasesKept ==
    ASSUME Inv, NEW events, NEW rready, NEW bready, NEW late, NEW nr, NEW nw,
           Edge(events, rready, bready, late, nr, nw)
    PROVE  WritePhases'
<1> USE DEF Inv
<1>1. nw \in WriteOf /\ nw.wait = FALSE
  BY RequestTypes
<1>2. WriteChannel(bready) /\ WriteNext(bready, late, nw) /\ WriteRegisters
      /\ bready \in BOOLEAN
  BY DEF Edge, Clock
<1>3. wr \in WriteOf /\ axi_awready \in BOOLEAN /\ axi_wready \in BOOLEAN
      /\ axi_bvalid \in BOOLEAN
  BY DEF TypeOK
<1>4. WritePhases
  OBVIOUS
<1> USE DEF WriteOf, Channel, WritePhases, S_AXI_AWVALID, S_AXI_WVALID
<1>5. CASE wr.wait
  <2>1. ~axi_awready /\ ~axi_wready /\ axi_awready' = FALSE /\ axi_wready' = FALSE /\ ~reg_wren
    BY <1>2, <1>3, <1>4, <1>5 DEF WriteChannel, reg_wren
  <2>2. reset_reg' = 0
    BY <1>2, <2>1 DEF WriteRegisters
  <2>3. IF bready THEN wr' = nw /\ ~axi_bvalid' ELSE wr' = wr /\ axi_bvalid'
    BY <1>2, <1>3, <1>4, <1>5, <2>1 DEF WriteChannel, WriteNext, SetClear
  <2> QED BY <1>1, <1>2, <1>3, <1>4, <1>5, <2>1, <2>2, <2>3
<1>6. CASE ~wr.wait /\ axi_awready
  <2>1. wr.valid = Channel /\ reg_wren /\ axi_awready' = FALSE /\ axi_wready' = FALSE
    BY <1>2, <1>3, <1>4, <1>6 DEF WriteChannel, reg_wren
  <2>2. axi_bvalid' = TRUE
    BY <1>2, <1>3, <1>4, <1>6, <2>1 DEF WriteChannel, SetClear
  <2>3. wr' = [wr EXCEPT !.valid = {}, !.wait = TRUE]
    BY <1>2, <1>3, <1>4, <1>6, <2>1 DEF WriteNext
  <2> QED BY <1>3, <2>1, <2>2, <2>3
<1>7. CASE ~wr.wait /\ ~axi_awready
  <2>1. ~reg_wren /\ ~axi_wready /\ reset_reg' = 0 /\ ~axi_bvalid'
    BY <1>2, <1>3, <1>4, <1>7 DEF WriteChannel, WriteRegisters, SetClear, reg_wren
  <2>2. axi_awready' = axi_wready'
    BY <1>2, <1>3, <1>7, <2>1 DEF WriteChannel
  <2>3. ~wr'.wait /\ (wr.valid = Channel => wr' = wr)
    <3>1. CASE wr.valid = {}
      BY <1>1, <1>2, <1>7, <3>1 DEF WriteNext
    <3>2. CASE wr.valid # {}
      <4>1. \E v \in SUBSET Channel : wr' = [wr EXCEPT !.valid = v]
                                     /\ (wr.valid = Channel => v = Channel)
        BY <1>2, <1>3, <1>7, <2>1, <3>2 DEF WriteNext
      <4> QED BY <1>3, <1>7, <4>1
    <3> QED BY <3>1, <3>2
  <2>4. axi_awready' => wr.valid = Channel /\ axi_awaddr' = wr.addr
    BY <1>2, <1>3, <1>7 DEF WriteChannel
  <2> QED BY <2>1, <2>2, <2>3, <2>4
<1> QED BY <1>3, <1>5, <1>6, <1>7

\* A clock edge keeps the settings: a write reaches its register before it is
\* confirmed, and the lookup stage's copy follows before a read can be accepted.
LEMMA SettingsStayKept ==
    ASSUME Inv, NEW events, NEW rready, NEW bready, NEW late, NEW nr, NEW nw,
           Edge(events, rready, bready, late, nr, nw)
    PROVE  SettingsKept'
<1> USE DEF Inv
<1>1. /\ nr \in ReadOf /\ nr.wait = FALSE /\ (nr.addr # "RESET" => nr.valid = {"ar"})
      /\ nw \in WriteOf /\ nw.wait = FALSE
  BY RequestTypes
<1>2. /\ WriteChannel(bready) /\ ReadChannel(rready) /\ WriteRegisters /\ StageRegisters(events)
      /\ ReadNext(rready, nr) /\ WriteNext(bready, late, nw) /\ HistoryStep(events, rready)
  BY DEF Edge, Clock
<1>3. /\ TypeOK /\ ReadPhases /\ WritePhases /\ SettingsKept
      /\ ReadPhases' /\ WritePhases'
  BY ReadPhasesKept, WritePhasesKept
<1>4. rd \in ReadOf /\ wr \in WriteOf /\ cpu2ip \in [Setting -> Nat]
  BY DEF TypeOK
<1>5. /\ \A s \in Setting : hist'.sent[s] =
             IF wr.wait /\ axi_bvalid /\ wr.addr = s THEN wr.data ELSE hist.sent[s]
      /\ hist'.snap = IF ReadBegins(rready) /\ rd'.addr \in Setting
                         THEN hist'.sent[rd'.addr] ELSE hist.snap
      /\ hist'.calm <=> (ReadBegins(rready) \/ hist.calm) /\ wr'.valid = {} /\ ~wr'.wait
  BY <1>2, <1>3, HistoryAfter
<1>6. \A s \in Setting : cpu2ip'[s] = IF reg_wren /\ axi_awaddr = s THEN wr.data ELSE cpu2ip[s]
  BY <1>2, <1>4 DEF WriteRegisters
<1>7. reg_wren <=> axi_awready
  BY <1>3 DEF reg_wren, WritePhases, S_AXI_AWVALID, S_AXI_WVALID, Channel
<1>8. ASSUME NEW s \in Setting
      PROVE  cpu2ip'[s] = IF wr'.wait /\ wr'.addr = s THEN wr'.data ELSE hist'.sent[s]
  <2>1. CASE axi_awready
    <3>1. wr' = [wr EXCEPT !.valid = {}, !.wait = TRUE] /\ ~wr.wait /\ axi_awaddr = wr.addr
      BY <1>2, <1>3, <2>1 DEF WriteNext, WritePhases, Channel
    <3> QED BY <1>3, <1>4, <1>5, <1>6, <1>7, <2>1, <3>1 DEF SettingsKept, WriteOf
  <2>2. CASE ~axi_awready
    <3>1. cpu2ip'[s] = cpu2ip[s]
      BY <1>6, <1>7, <2>2
    <3>2. wr' = wr \/ ~wr'.wait
      BY <1>1, <1>2, <1>3, <1>4, <2>2 DEF WriteNext, WritePhases, WriteOf
    <3> QED BY <1>3, <1>5, <3>1, <3>2 DEF SettingsKept, WritePhases
  <2> QED BY <2>1, <2>2
<1>9. (hist.calm => wr.valid = {} /\ ~wr.wait)'
  BY <1>5
\* Nothing was written in the clock before the read is accepted.
<1>10. ASSUME hist'.calm, axi_arready' \/ axi_rvalid', ~ReadBegins(rready)
       PROVE  hist.calm /\ ip2cpu' = cpu2ip' /\ \A s \in Setting : hist'.sent[s] = hist.sent[s]
  <2>1. hist.calm /\ wr.valid = {} /\ ~wr.wait
    BY <1>3, <1>5, <1>10 DEF SettingsKept
  <2>2. ~reg_wren /\ reset_reg = 0
    BY <1>3, <2>1 DEF reg_wren, WritePhases, S_AXI_WVALID
  <2>3. cpu2ip' = cpu2ip /\ ~reset_registers
    BY <1>2, <2>2 DEF WriteRegisters, reset_registers
  <2> QED BY <1>2, <1>5, <2>1, <2>3 DEF StageRegisters
<1>11. axi_arready' => ~ReadBegins(rready)
  BY <1>2, <1>3 DEF ReadChannel, ReadPhases, ReadBegins, ReadEnds, S_AXI_ARVALID
<1>12. axi_rvalid' => ~ReadBegins(rready)
  BY <1>1, <1>2, <1>3 DEF ReadNext, ReadPhases
<1>13. (hist.calm /\ axi_arready => ip2cpu = cpu2ip)'
  BY <1>10, <1>11
<1>14. (hist.calm /\ rd.addr \in Setting => hist.snap = hist.sent[rd.addr])'
  <2> SUFFICES ASSUME hist'.calm, rd'.addr \in Setting
               PROVE  hist'.snap = hist'.sent[rd'.addr]
    OBVIOUS
  <2>1. CASE ReadBegins(rready)
    BY <1>5, <2>1
  <2>2. CASE ~ReadBegins(rready)
    <3>1. rd'.addr = rd.addr
      BY <1>2, <1>4, <2>2 DEF ReadNext, ReadOf
    <3>2. hist.calm /\ ~wr.wait
      BY <1>3, <1>5, <2>2 DEF SettingsKept
    <3> QED BY <1>3, <1>5, <2>2, <3>1, <3>2 DEF SettingsKept
  <2> QED BY <2>1, <2>2
<1>15. (hist.calm /\ axi_rvalid /\ rd.addr \in Setting => axi_rdata = hist.snap)'
  <2> SUFFICES ASSUME hist'.calm, axi_rvalid', rd'.addr \in Setting
               PROVE  axi_rdata' = hist'.snap
    OBVIOUS
  <2>1. ~ReadBegins(rready) /\ hist.calm /\ hist'.snap = hist.snap
    BY <1>5, <1>10, <1>12
  <2>2. rd'.addr = rd.addr
    BY <1>2, <1>4, <2>1 DEF ReadNext, ReadOf
  <2>3. CASE reg_rden
    <3>1. axi_arready /\ axi_araddr = rd.addr
      BY <1>3, <2>3 DEF reg_rden, ReadPhases
    <3>2. axi_rdata' = ip2cpu[rd.addr]
      BY <1>2, <2>2, <2>3, <3>1, CpuRegsAssumption DEF ReadChannel, reg_data_out
    <3>3. ip2cpu = cpu2ip /\ ~wr.wait /\ hist.snap = hist.sent[rd.addr]
      BY <1>3, <2>1, <2>2, <3>1 DEF SettingsKept
    <3> QED BY <1>3, <2>1, <2>2, <3>2, <3>3 DEF SettingsKept
  <2>4. CASE ~reg_rden
    BY <1>2, <1>3, <2>1, <2>2, <2>4 DEF ReadChannel, SetClear, SettingsKept
  <2> QED BY <2>3, <2>4
<1> QED
  BY <1>8, <1>9, <1>13, <1>14, <1>15 DEF SettingsKept

\* A clock edge keeps the account of every counter: a read starts the clear of its
\* counter when none is under way, and up to three events fall into the clear.
LEMMA CountersStayExact ==
    ASSUME Inv, NEW events, NEW rready, NEW bready, NEW late, NEW nr, NEW nw,
           Edge(events, rready, bready, late, nr, nw)
    PROVE  CountersExact'
<1> USE DEF Inv
<1>1. StageRegisters(events) /\ ClearOnRead /\ HistoryStep(events, rready)
  BY DEF Edge, Clock
<1>2. TypeOK /\ ReadPhases /\ CountersExact
  OBVIOUS
<1> SUFFICES ASSUME NEW c \in Counter
             PROVE  /\ c \notin clear' \cup clear_d' =>
                          hist'.unread[c] - count'[c] \in 0 .. 3 * hist'.reads[c]
                    /\ c \in clear_d' => hist'.unread[c] \in 0 .. 3 * hist'.reads[c] - 2
                    /\ c \in clear' => hist'.unread[c] \in 0 .. 3 * hist'.reads[c] - 1
  BY DEF CountersExact
<1> DEFINE read == reg_rden /\ axi_araddr = c
           reset == reset_registers \/ clear_counters
           e == Count(c \in events)
           n == count[c]  u == hist.unread[c]  r == hist.reads[c]
           n1 == count'[c]  u1 == hist'.unread[c]  r1 == hist'.reads[c]
<1>3. e \in 0 .. 1 /\ n \in Nat /\ u \in Int /\ r \in Nat
  BY DEF Count, TypeOK, HistoryOf
<1>4. /\ r1 = r + Count(read)
      /\ u1 = IF reset THEN 0 ELSE u + e - (IF read THEN n ELSE 0)
  BY <1>1, <1>2, HistoryAfter
<1>5. n1 = IF reset \/ c \in clear THEN 0 ELSE n + e
  BY <1>1 DEF StageRegisters
<1>6. (c \in clear' <=> c \in clear_d) /\ (c \in clear_d' <=> read)
  BY <1>1 DEF ClearOnRead
<1>7. /\ read => c \notin clear /\ c \notin clear_d
      /\ c \in clear => c \notin clear_d
  BY <1>2 DEF reg_rden, ReadPhases
<1>8. /\ c \notin clear /\ c \notin clear_d => u - n \in 0 .. 3 * r
      /\ c \in clear_d => u \in 0 .. 3 * r - 2
      /\ c \in clear => u \in 0 .. 3 * r - 1
  BY <1>2 DEF CountersExact
<1> HIDE DEF read, reset, e, n, u, r, n1, u1, r1
<1>9. /\ c \notin clear' /\ c \notin clear_d' => u1 - n1 \in 0 .. 3 * r1
      /\ c \in clear_d' => u1 \in 0 .. 3 * r1 - 2
      /\ c \in clear' => u1 \in 0 .. 3 * r1 - 1
  BY <1>3, <1>4, <1>5, <1>6, <1>7, <1>8 DEF Count
<1> QED
  BY <1>9 DEF n1, u1, r1
-----------------------------------------------------------------------------
LEMMA NextInv == Inv /\ [Next]_vars => Inv'
<1>1. ASSUME Inv, Next PROVE Inv'
  <2>1. PICK events, rready, bready, late, nr, nw : Edge(events, rready, bready, late, nr, nw)
    BY <1>1, NextIsEdge
  <2> QED
    BY <1>1, <2>1, TypesKept, ReadPhasesKept, WritePhasesKept, SettingsStayKept,
       CountersStayExact DEF Inv
<1>2. ASSUME Inv, UNCHANGED vars PROVE Inv'
  BY <1>2 DEF vars, axiVars, Inv, TypeOK, ReadPhases, WritePhases, SettingsKept, CountersExact
<1> QED
  BY <1>1, <1>2

\* Whatever the CPU reads and writes, and however fast: every answer has its request,
\* a setting reads back as last confirmed, and a counter that is cleared on read
\* reports no event twice and loses at most the events of three clocks per read.
THEOREM ReadsAreTrue == Spec => []ReadsTrue
<1>1. Inv => ReadsTrue
  BY DEF Inv, ReadPhases, WritePhases, SettingsKept, CountersExact, ReadsTrue, AnswersOwed,
         ReportedOnce, ReadYourWrites
<1> QED
  BY InitInv, NextInv, <1>1, PTL DEF Spec
=============================================================================
