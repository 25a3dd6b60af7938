---------------------- MODULE NicOutputPortLookupProofs ----------------------
(***************************************************************************)
(* For every sampling rate, number of rows and counter width: a packet     *)
(* goes across under any back-pressure, and for as long as the sink is     *)
(* ready one packet in SAMPLE_RATE is sampled, the rows take turns, and    *)
(* the counter registers are exact.                                        *)
(*                                                                         *)
(* The invariant behind all of it is InStep: the two-state machine of the  *)
(* stage agrees with an observer of the master stream on whether the next  *)
(* beat begins a packet, under any back-pressure.                          *)
(***************************************************************************)
EXTENDS NicOutputPortLookup, CommonLemmas

\* Quotient and remainder.
LEMMA DivMod ==
    ASSUME NEW n \in Nat, NEW r \in Nat \ {0}
    PROVE  n \div r \in Nat /\ n % r \in 0 .. r - 1 /\ n = r * (n \div r) + (n % r)
<1>1. n \div r \in Nat
  OBVIOUS
<1>2. n % r \in 0 .. r - 1
  OBVIOUS
<1>3. n = r * (n \div r) + (n % r)
  OBVIOUS
<1> QED BY <1>1, <1>2, <1>3

\* The remainder is unique.
LEMMA ModUnique ==
    ASSUME NEW q \in Nat, NEW r \in Nat \ {0}, NEW m \in 0 .. r - 1
    PROVE  (r * q + m) % r = m
  OBVIOUS

\* A remainder after one more step.
LEMMA ModSucc ==
    ASSUME NEW n \in Nat, NEW r \in Nat \ {0}
    PROVE  ((n % r) + 1) % r = (n + 1) % r
<1> DEFINE q == n \div r
           m == n % r
<1>1. q \in Nat /\ m \in 0 .. r - 1 /\ n = r * q + m
  BY DivMod
<1> HIDE DEF q, m
<1>2. CASE m + 1 < r
  <2>1. n + 1 = r * q + (m + 1) /\ m + 1 \in 0 .. r - 1
    BY <1>1, <1>2
  <2>2. (n + 1) % r = m + 1
    BY <1>1, <2>1, ModUnique
  <2>3. (m + 1) % r = m + 1
    BY <1>1, <1>2
  <2> QED BY <2>2, <2>3 DEF m
<1>3. CASE m + 1 = r
  <2>1. r * q \in Nat /\ r * (q + 1) = r * q + r
    BY <1>1
  <2>2. n + 1 = r * (q + 1) + 0 /\ q + 1 \in Nat /\ 0 \in 0 .. r - 1
    BY <1>1, <1>3, <2>1
  <2>3. (n + 1) % r = 0
    BY <2>2, ModUnique
  <2>4. (m + 1) % r = 0
    BY <1>3
  <2> QED BY <2>3, <2>4 DEF m
<1> QED BY <1>1, <1>2, <1>3

\* A number below the divisor is its own remainder.
LEMMA ModSmall ==
    ASSUME NEW n \in Nat, NEW r \in Nat \ {0}, n < r
    PROVE  n % r = n
  OBVIOUS

\* The remainder is the largest one exactly before the next multiple.
LEMMA ModLast ==
    ASSUME NEW n \in Nat, NEW r \in Nat \ {0}
    PROVE  n % r \in 0 .. r - 1 /\ (n % r = r - 1 => n + 1 >= r)
  OBVIOUS

\* A product with one more.
LEMMA MulSucc ==
    ASSUME NEW a \in Nat, NEW b \in Nat
    PROVE  a * (b + 1) = a * b + a /\ a * b \in Nat
  OBVIOUS
-----------------------------------------------------------------------------
(* The invariant *)

Streams == /\ Sound(fifo, Beat)
           /\ state \in {"ModuleHeader", "InPacket"}
           /\ hist.between \in BOOLEAN
           /\ hist.stalls \in Nat

InStep == state = "ModuleHeader" <=> hist.between

Sampling == /\ packet_sample_count \in 0 .. SAMPLE_RATE - 1
            /\ hist.begun \in Nat /\ hist.samples \in Nat
            /\ SamplingExact

Counting == /\ hist.seen \in [Counter -> Nat]
            /\ CountersExact

LastTarget == hist.lst \in Nat /\ LastTargetWithinOne

IInv == Streams /\ InStep /\ Sampling /\ Counting /\ LastTarget

\* After reset nothing has been counted.
LEMMA InitIInv == Init => IInv
<1> SUFFICES ASSUME Init PROVE IInv
  OBVIOUS
<1>1. Streams
  <2>1. Sound(EmptyFifo(ZeroBeat), Beat)
    BY EmptySound, StreamAssumption
  <2> QED BY <2>1 DEF Init, Streams
<1>2. InStep
  BY DEF Init, InStep
<1>3. Sampling
  BY SketchAssumption DEF Init, Sampling, SamplingExact
<1>4. Counting
  <2>1. 0 % CountLimit = 0 /\ (0 >= CountLimit) = FALSE
    BY StreamAssumption
  <2>2. hist.seen = [c \in Counter |-> 0] /\ count = [c \in Counter |-> Zero]
    BY DEF Init
  <2>3. [n |-> 0 % CountLimit, ovf |-> 0 >= CountLimit] = Zero
    BY <2>1, Zenon DEF Zero
  <2>4. hist.seen \in [Counter -> Nat]
    BY <2>2
  <2>5. \A c \in Counter : count[c] = Zero /\ hist.seen[c] = 0
    BY <2>2
  <2>6. CountersExact
    BY <2>3, <2>5, Zenon DEF CountersExact
  <2> QED BY <2>4, <2>6 DEF Counting
<1>5. LastTarget
  <2>1. 0 % CountLimit = 0
    BY StreamAssumption
  <2> QED BY <2>1 DEF Init, Zero, LastTarget, LastTargetWithinOne
<1> QED BY <1>1, <1>2, <1>3, <1>4, <1>5 DEF IInv

\* What an edge of the clock does to the history, field by field.
LEMMA HistoryFields ==
    ASSUME NEW e \in BOOLEAN, NEW tready \in BOOLEAN, NEW cpu \in CpuInput,
           HistoryStep(e, tready, cpu)
    PROVE  /\ hist'.stalls = hist.stalls + Count(~tready)
           /\ hist'.begun = hist.begun + Count((fifo.dv /\ tready) /\ hist.between)
           /\ hist'.between = IF fifo.dv /\ tready THEN fifo.dout.last ELSE hist.between
           /\ hist'.samples = hist.samples
                 + Count(out_pkt_begin /\ packet_sample_count = SAMPLE_RATE - 1)
           /\ hist'.seen = [c \in Counter |-> IF Cleared(c, cpu) THEN 0
                               ELSE hist.seen[c] + Count(Handed(e, tready)[c])]
           /\ hist'.lst = IF cpu.reset_registers \/ cpu.clear_counters THEN 0
                          ELSE IF ip2cpu_tgtipaddr # cpu2ip_tgtipaddr
                          THEN hist.seen["tgtipout"] + Count(Handed(e, tready)["tgtipout"])
                          ELSE hist.lst
<1>1. /\ hist'.stalls = hist.stalls + Count(~tready)
      /\ hist'.between = IF fifo.dv /\ tready THEN fifo.dout.last ELSE hist.between
  BY DEF HistoryStep
<1>2. hist'.begun = hist.begun + Count((fifo.dv /\ tready) /\ hist.between)
  BY DEF HistoryStep
<1>3. hist'.samples = hist.samples + Count(out_pkt_begin /\ packet_sample_count = SAMPLE_RATE - 1)
  BY DEF HistoryStep
<1>4. hist'.seen = [c \in Counter |-> IF Cleared(c, cpu) THEN 0
                       ELSE hist.seen[c] + Count(Handed(e, tready)[c])]
  BY DEF HistoryStep
<1>5. hist'.lst = IF cpu.reset_registers \/ cpu.clear_counters THEN 0
                  ELSE IF ip2cpu_tgtipaddr # cpu2ip_tgtipaddr
                  THEN hist.seen["tgtipout"] + Count(Handed(e, tready)["tgtipout"])
                  ELSE hist.lst
  BY DEF HistoryStep, Counter
<1> QED BY <1>1, <1>2, <1>3, <1>4, <1>5

\* A counter register and the number of events it stands for move together.
LEMMA CountUpExact ==
    ASSUME NEW seen \in Nat, NEW event \in BOOLEAN
    PROVE  CountUp([n |-> seen % CountLimit, ovf |-> seen >= CountLimit], event)
             = [n |-> (seen + Count(event)) % CountLimit,
                ovf |-> seen + Count(event) >= CountLimit]
<1> DEFINE r == [n |-> seen % CountLimit, ovf |-> seen >= CountLimit]
<1>0. CountLimit \in Nat \ {0}
  BY StreamAssumption
<1>1. CASE event
  <2>1. Count(event) = 1
    BY <1>1 DEF Count
  <2>2. ((seen % CountLimit) + 1) % CountLimit = (seen + 1) % CountLimit
    BY <1>0, ModSucc
  <2>3. (seen >= CountLimit \/ seen % CountLimit = CountLimit - 1) <=> seen + 1 >= CountLimit
    <3> DEFINE m == seen % CountLimit
    <3>1. m \in 0 .. CountLimit - 1 /\ (m = CountLimit - 1 => seen + 1 >= CountLimit)
      BY <1>0, ModLast
    <3>2. seen < CountLimit => m = seen
      BY <1>0, ModSmall
    <3> HIDE DEF m
    <3>3. (seen >= CountLimit \/ m = CountLimit - 1) <=> seen + 1 >= CountLimit
      BY <1>0, <3>1, <3>2
    <3> QED BY <3>3 DEF m
  <2>4. CountUp(r, event) = [n |-> ((seen % CountLimit) + 1) % CountLimit,
                             ovf |-> seen >= CountLimit \/ seen % CountLimit = CountLimit - 1]
    BY <1>1, <2>1 DEF CountUp
  <2> QED BY <2>1, <2>2, <2>3, <2>4
<1>2. CASE ~event
  <2>1. Count(event) = 0
    BY <1>2 DEF Count
  <2>2. ((seen % CountLimit) + 0) % CountLimit = seen % CountLimit
    <3> DEFINE m == seen % CountLimit
    <3>1. m \in 0 .. CountLimit - 1
      BY <1>0, ModLast
    <3> HIDE DEF m
    <3>2. m \in Nat /\ m < CountLimit /\ m + 0 = m
      BY <1>0, <3>1
    <3>3. (m + 0) % CountLimit = m
      BY <1>0, <3>2, ModSmall
    <3> QED BY <3>3 DEF m
  <2>3. seen + 0 = seen
    OBVIOUS
  <2>4. CountUp(r, event) = [n |-> ((seen % CountLimit) + 0) % CountLimit, ovf |-> seen >= CountLimit]
    <3>1. r.n = seen % CountLimit
      OBVIOUS
    <3>2. r.ovf = (seen >= CountLimit)
      OBVIOUS
    <3>3. (r.ovf \/ (r.n = CountLimit - 1 /\ event)) = (seen >= CountLimit)
      <4> HIDE DEF r
      <4>1. CASE seen >= CountLimit
        <5>1. r.ovf
          BY <3>2, <4>1
        <5> QED BY <4>1, <5>1
      <4>2. CASE ~(seen >= CountLimit)
        <5>1. ~r.ovf
          BY <3>2, <4>2
        <5> QED BY <1>2, <4>2, <5>1
      <4> QED BY <4>1, <4>2
    <3> QED BY <2>1, <3>1, <3>3, Zenon DEF CountUp
  <2> QED BY <2>1, <2>2, <2>3, <2>4
<1> QED BY <1>1, <1>2

\* The events that the registers add up are those an observer sees: those of last
\* beats always, and those of first beats when the sink is ready.
LEMMA EventsAgree ==
    ASSUME IInv, NEW e \in BOOLEAN, NEW tready \in BOOLEAN, NEW c \in Counter,
           tready \/ c \in {"pktin", "pktout"}
    PROVE  /\ Event(e, tready)[c] = Handed(e, tready)[c]
           /\ Event(e, tready)[c] \in BOOLEAN
<1>1. fifo.dv \in BOOLEAN /\ fifo.dout.last \in BOOLEAN
  BY DEF IInv, Streams, Sound, FifoOf, Beat
<1>2. hist.between \in BOOLEAN /\ (state = "ModuleHeader" <=> hist.between)
  BY DEF IInv, Streams, InStep
<1>3. CASE c \in {"pktin", "pktout"}
  BY <1>1, <1>3 DEF Event, Handed, out_pkt_end, m_axis_tvalid, IsEmpty
<1>4. CASE c \in {"icmpout", "tgtipout"}
  <2>1. tready
    BY <1>4
  <2>2. out_pkt_begin = ((fifo.dv /\ tready) /\ hist.between)
    BY <1>1, <1>2, <2>1 DEF out_pkt_begin, m_axis_tvalid, IsEmpty
  <2>3. CASE c = "icmpout"
    BY <2>2, <2>3, Zenon DEF Event, Handed
  <2>4. CASE c = "tgtipout"
    BY <2>2, <2>4, Zenon DEF Event, Handed
  <2> QED BY <1>4, <2>3, <2>4
<1> QED BY <1>3, <1>4 DEF Counter

\* One clock edge, whatever the source, the sink and the CPU do.
LEMMA ClockIInv ==
    ASSUME IInv, NEW tvalid \in BOOLEAN, NEW b \in Beat, NEW tready \in BOOLEAN,
           NEW cpu \in CpuInput, Clock(tvalid, b, tready, cpu)
    PROVE  IInv'
<1> DEFINE accepted == tvalid /\ ~in_fifo_nearly_full
           e == accepted /\ b.last
           sent == fifo.dv /\ tready
           taken == tready /\ m_axis_tvalid
<1>1. /\ fifo' = Step(fifo, accepted, b, taken)
      /\ StateStep(tready) /\ SketchStep
      /\ RegisterStep(e, tready, cpu) /\ HistoryStep(e, tready, cpu)
  BY DEF Clock
<1>2. /\ Sound(fifo, Beat) /\ state \in {"ModuleHeader", "InPacket"}
      /\ hist.between \in BOOLEAN /\ hist.stalls \in Nat
      /\ (state = "ModuleHeader" <=> hist.between)
  BY DEF IInv, Streams, InStep
<1>3. fifo.dv \in BOOLEAN /\ fifo.dout.last \in BOOLEAN
  BY <1>2 DEF Sound, FifoOf, Beat
<1>4. e \in BOOLEAN /\ accepted \in BOOLEAN /\ taken \in BOOLEAN
  OBVIOUS
<1>5. /\ hist'.stalls = hist.stalls + Count(~tready)
      /\ hist'.begun = hist.begun + Count(sent /\ hist.between)
      /\ hist'.between = IF sent THEN fifo.dout.last ELSE hist.between
      /\ hist'.samples = hist.samples
            + Count(out_pkt_begin /\ packet_sample_count = SAMPLE_RATE - 1)
      /\ hist'.seen = [c \in Counter |-> IF Cleared(c, cpu) THEN 0
                          ELSE hist.seen[c] + Count(Handed(e, tready)[c])]
      /\ hist'.lst = IF cpu.reset_registers \/ cpu.clear_counters THEN 0
                     ELSE IF ip2cpu_tgtipaddr # cpu2ip_tgtipaddr
                     THEN hist.seen["tgtipout"] + Count(Handed(e, tready)["tgtipout"])
                     ELSE hist.lst
  <2> HIDE DEF e
  <2> QED BY <1>1, <1>4, HistoryFields
<1>6. out_pkt_begin <=> fifo.dv /\ hist.between
  BY <1>2, <1>3 DEF out_pkt_begin, m_axis_tvalid, IsEmpty
<1>7. hist'.stalls \in Nat /\ (hist'.stalls = 0 => hist.stalls = 0 /\ tready)
  BY <1>2, <1>5 DEF Count
<1>8. Streams'
  <2>1. Sound(fifo', Beat)
    <3> HIDE DEF accepted, taken
    <3> QED BY <1>1, <1>2, <1>4, StepSound
  <2>2. state' \in {"ModuleHeader", "InPacket"}
    BY <1>1, <1>2 DEF StateStep
  <2>3. hist'.between \in BOOLEAN
    BY <1>2, <1>3, <1>5
  <2> QED BY <1>7, <2>1, <2>2, <2>3 DEF Streams
<1>9. InStep'
  <2>1. state' = IF fifo.dout.last /\ fifo.dv /\ tready THEN "ModuleHeader"
                 ELSE IF fifo.dv /\ hist.between /\ tready THEN "InPacket" ELSE state
    BY <1>1, <1>3, <1>6 DEF StateStep, out_pkt_end, m_axis_tvalid, IsEmpty
  <2> QED BY <1>2, <1>3, <1>5, <2>1 DEF InStep
<1>10. Sampling'
  <2> DEFINE full == packet_sample_count = SAMPLE_RATE - 1
  <2>1. /\ packet_sample_count \in 0 .. SAMPLE_RATE - 1
        /\ hist.begun \in Nat /\ hist.samples \in Nat
        /\ SAMPLE_RATE \in Nat \ {0} /\ ROWS \in Nat \ {0}
    BY SketchAssumption DEF IInv, Sampling
  <2>2. hist.stalls = 0 => /\ hist.begun = SAMPLE_RATE * hist.samples + packet_sample_count
                           /\ current_row = hist.samples % ROWS
    BY DEF IInv, Sampling, SamplingExact
  <2>3. hist'.begun = hist.begun \/ hist'.begun = hist.begun + 1
    BY <1>5, <2>1 DEF Count
  <2>4. CASE out_pkt_begin /\ full
    <3>1. packet_sample_count' = 0 /\ current_row' = (current_row + 1) % ROWS
      BY <1>1, <2>4 DEF SketchStep
    <3>2. hist'.samples = hist.samples + 1
      BY <1>5, <2>4 DEF Count
    <3>3. ASSUME hist'.stalls = 0
          PROVE  /\ hist'.begun = SAMPLE_RATE * hist'.samples + packet_sample_count'
                 /\ current_row' = hist'.samples % ROWS
      <4>1. hist.stalls = 0 /\ tready
        BY <1>7, <3>3
      <4>2. hist'.begun = hist.begun + 1
        BY <1>3, <1>5, <1>6, <2>4, <4>1 DEF Count
      <4>3. /\ SAMPLE_RATE * (hist.samples + 1) = SAMPLE_RATE * hist.samples + SAMPLE_RATE
            /\ SAMPLE_RATE * hist.samples \in Nat
        BY <2>1, MulSucc
      <4>4. ((hist.samples % ROWS) + 1) % ROWS = (hist.samples + 1) % ROWS
        BY <2>1, ModSucc
      <4>5. current_row' = hist'.samples % ROWS
        BY <2>2, <3>1, <3>2, <4>1, <4>4
      <4>6. hist'.begun = SAMPLE_RATE * hist'.samples + packet_sample_count'
        BY <2>1, <2>2, <2>4, <3>1, <3>2, <4>1, <4>2, <4>3
      <4> QED BY <4>5, <4>6
    <3>4. packet_sample_count' \in 0 .. SAMPLE_RATE - 1 /\ hist'.begun \in Nat /\ hist'.samples \in Nat
      BY <2>1, <2>3, <3>1, <3>2
    <3> QED BY <3>3, <3>4 DEF Sampling, SamplingExact
  <2>5. CASE ~(out_pkt_begin /\ full)
    <3>1. /\ packet_sample_count' = packet_sample_count + Count(out_pkt_begin)
          /\ current_row' = current_row
      BY <1>1, <2>5 DEF SketchStep
    <3>2. hist'.samples = hist.samples
      BY <1>5, <2>1, <2>5 DEF Count
    <3>3. ASSUME hist'.stalls = 0
          PROVE  /\ hist'.begun = SAMPLE_RATE * hist'.samples + packet_sample_count'
                 /\ current_row' = hist'.samples % ROWS
      <4>1. hist.stalls = 0 /\ tready
        BY <1>7, <3>3
      <4>2. hist'.begun = hist.begun + Count(out_pkt_begin)
        BY <1>3, <1>5, <1>6, <4>1 DEF Count
      <4>3. SAMPLE_RATE * hist.samples \in Nat /\ Count(out_pkt_begin) \in Nat
        BY <2>1, MulSucc DEF Count
      <4>4. hist'.begun = SAMPLE_RATE * hist'.samples + packet_sample_count'
        BY <2>1, <2>2, <3>1, <3>2, <4>1, <4>2, <4>3
      <4> QED BY <2>2, <3>1, <3>2, <4>1, <4>4
    <3>4. packet_sample_count' \in 0 .. SAMPLE_RATE - 1 /\ hist'.begun \in Nat /\ hist'.samples \in Nat
      BY <2>1, <2>3, <2>5, <3>1, <3>2 DEF Count
    <3> QED BY <3>3, <3>4 DEF Sampling, SamplingExact
  <2> QED BY <2>4, <2>5
<1>11. Counting'
  <2> HIDE DEF e
  <2>1. hist.seen \in [Counter -> Nat]
    BY DEF IInv, Counting
  <2>2. hist'.seen \in [Counter -> Nat]
    <3>1. \A c \in Counter : hist.seen[c] + Count(Handed(e, tready)[c]) \in Nat
      BY <2>1 DEF Count
    <3> QED BY <1>5, <3>1
  <2>3. ASSUME NEW c \in Counter, hist'.stalls = 0 \/ c \in {"pktin", "pktout"}
        PROVE  count'[c] = [n |-> hist'.seen[c] % CountLimit, ovf |-> hist'.seen[c] >= CountLimit]
    <3>1. hist.stalls = 0 \/ c \in {"pktin", "pktout"}
      BY <1>7, <2>3
    <3>2. count[c] = [n |-> hist.seen[c] % CountLimit, ovf |-> hist.seen[c] >= CountLimit]
      BY <3>1 DEF IInv, Counting, CountersExact
    <3>3. /\ Event(e, tready)[c] = Handed(e, tready)[c]
          /\ Event(e, tready)[c] \in BOOLEAN
      BY <1>4, <1>7, <2>3, EventsAgree
    <3>4. CASE Cleared(c, cpu)
      <4>1. count'[c] = Zero /\ hist'.seen[c] = 0
        BY <1>1, <1>5, <3>4 DEF RegisterStep
      <4>2. 0 % CountLimit = 0 /\ (0 >= CountLimit) = FALSE
        BY StreamAssumption
      <4> QED BY <4>1, <4>2, Zenon DEF Zero
    <3>5. CASE ~Cleared(c, cpu)
      <4>1. count'[c] = CountUp(count[c], Event(e, tready)[c])
        BY <1>1, <3>5 DEF RegisterStep
      <4>2. hist'.seen[c] = hist.seen[c] + Count(Event(e, tready)[c])
        BY <1>5, <3>3, <3>5
      <4>3. hist.seen[c] \in Nat
        BY <2>1
      <4> QED BY <3>2, <3>3, <4>1, <4>2, <4>3, CountUpExact, Zenon
    <3> QED BY <3>4, <3>5
  <2> QED BY <2>2, <2>3 DEF Counting, CountersExact
\* The register is copied a clock after the address changed, without the event of
\* that clock.
<1>12. LastTarget'
  <2> DEFINE t == "tgtipout"
             k == Count(Handed(e, tready)[t])
  <2>1. k \in 0 .. 1 /\ hist.seen[t] \in Nat /\ hist.lst \in Nat
    BY DEF Count, Counter, IInv, Counting, LastTarget
  <2>2. tgtipoutlst' = IF cpu.reset_registers \/ cpu.clear_counters THEN Zero
                       ELSE IF ip2cpu_tgtipaddr # cpu2ip_tgtipaddr THEN count[t]
                       ELSE tgtipoutlst
    BY <1>1 DEF RegisterStep
  <2>3. hist'.lst = IF cpu.reset_registers \/ cpu.clear_counters THEN 0
                    ELSE IF ip2cpu_tgtipaddr # cpu2ip_tgtipaddr THEN hist.seen[t] + k
                    ELSE hist.lst
    BY <1>5
  <2>4. hist'.lst \in Nat
    <3> HIDE DEF k
    <3> QED BY <2>1, <2>3
  <2>5. ASSUME hist'.stalls = 0
        PROVE  tgtipoutlst'.n \in {hist'.lst % CountLimit, (hist'.lst - 1) % CountLimit}
    <3>1. hist.stalls = 0
      BY <1>7, <2>5
    <3>2. count[t].n = hist.seen[t] % CountLimit
      BY <3>1 DEF IInv, Counting, CountersExact, Counter
    <3>3. tgtipoutlst.n \in {hist.lst % CountLimit, (hist.lst - 1) % CountLimit}
      BY <3>1 DEF IInv, LastTarget, LastTargetWithinOne
    <3>4. Zero.n = 0 % CountLimit
      BY StreamAssumption DEF Zero
    <3> HIDE DEF t, k
    <3>5. CASE cpu.reset_registers \/ cpu.clear_counters
      BY <2>2, <2>3, <3>4, <3>5
    <3>6. CASE ~(cpu.reset_registers \/ cpu.clear_counters) /\ ip2cpu_tgtipaddr # cpu2ip_tgtipaddr
      <4>1. tgtipoutlst'.n = hist.seen[t] % CountLimit /\ hist'.lst = hist.seen[t] + k
        BY <2>2, <2>3, <3>2, <3>6
      <4>2. hist'.lst = hist.seen[t] \/ hist'.lst - 1 = hist.seen[t]
        BY <2>1, <4>1
      <4> QED BY <4>1, <4>2
    <3>7. CASE ~(cpu.reset_registers \/ cpu.clear_counters) /\ ip2cpu_tgtipaddr = cpu2ip_tgtipaddr
      BY <2>2, <2>3, <3>3, <3>7
    <3> QED BY <3>5, <3>6, <3>7
  <2> QED BY <2>4, <2>5 DEF LastTarget, LastTargetWithinOne
<1> QED BY <1>8, <1>9, <1>10, <1>11, <1>12 DEF IInv

\* A one-hot source port: the odd bits are the CPU's ports, and the byte moves to
\* the other side of the pair without running out of its eight bits.
LEMMA PortsArePaired ==
    ASSUME NEW i \in 0 .. 7
    PROVE  DstPort(2^i) = IF i % 2 = 0 THEN 2^(i + 1) ELSE 2^(i - 1)
<1>1. ASSUME NEW src \in Nat
      PROVE  pkt_is_from_cpu(src) <=> \/ (src \div 2) % 2 = 1 \/ (src \div 8) % 2 = 1
                                      \/ (src \div 32) % 2 = 1 \/ (src \div 128) % 2 = 1
  <2>1. 2^1 = 2 /\ 2^3 = 8 /\ 2^5 = 32 /\ 2^7 = 128
    OBVIOUS
  <2> QED BY <2>1 DEF pkt_is_from_cpu
<1>2. \A src \in {1, 4, 16, 64} : DstPort(src) = 2 * src
  BY <1>1 DEF DstPort
<1>3. \A src \in {2, 8, 32, 128} : DstPort(src) = src \div 2
  BY <1>1 DEF DstPort
<1> DEFINE Across(k) == DstPort(2^k) = IF k % 2 = 0 THEN 2^(k + 1) ELSE 2^(k - 1)
<1>4. Across(0) /\ Across(2) /\ Across(4) /\ Across(6)
  BY <1>2
<1>5. Across(1) /\ Across(3) /\ Across(5) /\ Across(7)
  BY <1>3
<1>6. i = 0 \/ i = 1 \/ i = 2 \/ i = 3 \/ i = 4 \/ i = 5 \/ i = 6 \/ i = 7
  OBVIOUS
<1>7. Across(i)
  <2> HIDE DEF Across
  <2> QED BY <1>4, <1>5, <1>6, Zenon
<1> QED BY <1>7

LEMMA NextIInv == IInv /\ [Next]_vars => IInv'
<1> SUFFICES ASSUME IInv, [Next]_vars PROVE IInv'
  OBVIOUS
<1>1. CASE Next
  <2>1. PICK tready \in TReady, cpu \in CpuInputs \cup {Quiet} :
           \/ Clock(FALSE, ZeroBeat, tready, cpu)
           \/ \E b \in Beats : Clock(TRUE, b, tready, cpu)
    BY <1>1 DEF Next
  <2>2. tready \in BOOLEAN /\ ZeroBeat \in Beat /\ Beats \subseteq Beat
    BY StreamAssumption
  <2>3. cpu \in CpuInput
    <3>1. {} \in SUBSET Counter /\ {} \in SUBSET {k.ip_dst : k \in Key}
      OBVIOUS
    <3>2. Quiet \in CpuInput
      BY <3>1 DEF Quiet, CpuInput
    <3> QED BY <3>2, StreamAssumption
  <2>4. FALSE \in BOOLEAN /\ TRUE \in BOOLEAN
    OBVIOUS
  <2> QED BY <2>1, <2>2, <2>3, <2>4, ClockIInv, Zenon
<1>2. CASE UNCHANGED vars
  BY <1>2 DEF IInv, vars, Streams, InStep, Sampling, Counting, SamplingExact, CountersExact,
              LastTarget, LastTargetWithinOne
<1> QED BY <1>1, <1>2

\* For every SAMPLE_RATE, number of rows and width of the counters: the counters of
\* last beats are exact always, those of first beats while the sink is ready,
\* between any clears the CPU makes.
THEOREM LookupCountsExactly == Spec => []CountersExact
<1>1. IInv => CountersExact
  BY DEF IInv, Counting
<1> QED BY <1>1, InitIInv, NextIInv, PTL DEF Spec

\* Under any back-pressure every packet leaves with the destination byte of the
\* other side of its port, on its first beat only; and while the sink is ready one
\* packet in SAMPLE_RATE is sampled and the rows take turns.
THEOREM PacketsPassRight == Spec => []PassesRight
<1>1. IInv => RoutedAcross
  <2> SUFFICES ASSUME IInv, fifo.dv
               PROVE  IF ~hist.between THEN m_axis_tuser_dst = 0
                      ELSE IF fifo.dout.src = 0 THEN m_axis_tuser_dst = 1
                      ELSE \A i \in 0 .. 7 : fifo.dout.src = 2^i =>
                               m_axis_tuser_dst = IF i % 2 = 0 THEN 2^(i + 1) ELSE 2^(i - 1)
    BY DEF RoutedAcross
  <2>1. out_pkt_begin <=> hist.between
    BY DEF IInv, InStep, out_pkt_begin, m_axis_tvalid, IsEmpty
  <2>2. m_axis_tuser_dst = IF hist.between THEN DstPort(fifo.dout.src) ELSE 0
    BY <2>1 DEF m_axis_tuser_dst
  <2>3. DstPort(0) = 1
    BY DEF DstPort
  <2> QED BY <2>2, <2>3, PortsArePaired, Zenon
<1>2. IInv => PassesRight
  BY <1>1 DEF IInv, Sampling, PassesRight
<1> QED BY <1>2, InitIInv, NextIInv, PTL DEF Spec

\* However the CPU changes the target address, and with a ready sink, the register
\* of the last target is the count that target had reached, but for at most the
\* packet of the very clock of the change.
THEOREM LastTargetKept == Spec => []LastTargetWithinOne
<1>1. IInv => LastTargetWithinOne
  BY DEF IInv, LastTarget
<1> QED BY <1>1, InitIInv, NextIInv, PTL DEF Spec
=============================================================================
