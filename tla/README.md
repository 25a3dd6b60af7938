# A TLA+ model of FPGA-Sketch

FPGA-Sketch is a NetFPGA design for Xilinx Alveo cards. Packets come from two
100G MACs and from the host (DMA), pass a data path of stream stages on the
FPGA, and leave through the MACs or to the host. Three projects share the stages:
the reference NIC (with a count-min sketch of its traffic), the learning switch
and the router. The host runs a NIC driver and, for the router, a control
program, *scone*, with a TCP stack of its own.

This directory holds TLA+ modules of the parts that carry logic, TLC
configurations that check them on small instances, and TLAPS proofs for all
instances. `PROJECT.json` lists components, runs, mutants, findings, hazards and
theorems, and maps each definition to the lines it models.

## 1. The system

```
 MAC 0 ─┐                                                     ┌─> MAC 0
 MAC 1 ─┼─> input_arbiter ─> output_port_lookup ─> output_queues ─┼─> MAC 1
 DMA   ─┘        │          nic | switch_lite |          │     └─> DMA
                 │          switch | router              │
              cpu_regs          cpu_regs              cpu_regs
                 └──────────── AXI4-Lite ────────────────┘
                                    │
     host:   NIC driver          scone                    configuration tool
                     ┌──────────────┴───────────────┐
             packet thread   ARP, hello, LSU,   TCP stack: transport thread
             (ARP, IP, NAT,  time-out, Dijkstra,  │ mailboxes
              PWOSPF)        statistics threads   command line, web server
```

Stages are joined by AXI4-Stream handshakes (`tvalid`/`tready`), one beat a clock.
Almost every stage puts its input into a `fallthrough_small_fifo`, which is a
`small_fifo` with an output that already shows the oldest word. Each stage has a
register file which the host reads and writes over AXI4-Lite.

scone is one process. Its threads share the interface list, the routing table, the
ARP cache and queue, the list of routers and the LSU queue, each under a lock of its
own, and write the tables of the hardware through indirect registers. The command
line and the web server are applications of a small TCP stack (lwtcp) that runs as
another thread and is fed by the packet thread.

| Component | State | Operations | What makes it correct |
|---|---|---|---|
| `small_fifo` | memory, two pointers, depth, output register | write, read, both at once, reset | depth is the distance of the pointers; a bounded queue |
| `fallthrough_small_fifo` | the above, three word registers with valid flags | the same | nothing lost, repeated or reordered; the head always surfaces |
| `nic_output_port_lookup` | input FIFO, header machine, hash register, sketch, counters, target address | one clock | right output port; counters and sampling exact; the sketch never underestimates |
| `output_port_lookup_cpu_regs` | AXI4-Lite flags and latches, settings, clear-on-read pipeline | read, write, reset | each access answered once; reads see confirmed writes; no event reported twice |
| `input_arbiter` | three FIFOs, state, current queue, counters | one clock | packets never mix, no port starves |
| `output_queues` | data and metadata FIFO per port, store-or-drop machine, counters | one clock | no overflow though the input is never held up; whole packets with their metadata |
| `switch_lite_output_port_lookup` | packet FIFO, parser, learning table, port FIFO | one clock, reset of the tables | a packet leaves with the ports found for it |
| scone: ARP | cache, packet queue, hardware rows | send, reply, expire, retry, commands | no packet duplicated or kept for ever; hardware mirrors the cache |
| scone: PWOSPF | neighbours, router list, LSU queue, per router | hello, LSU, floods, time-outs, interfaces up and down, commands | lists agree; never back to older knowledge; convergence |
| scone: Dijkstra | router list, `prev_router` | recompute | shortest paths over live neighbours |
| scone: routing table | entries, TCAM rows | add, delete, activate, recompute, look up | hardware and software choose the same next hop |
| scone: hardware access | indirect registers, four tables | write and read a row, from five writers | a row is whole again after an undisturbed pass |
| scone: NAT | translation table | packets both ways, commands, maintenance | sums stay right; one entry per connection |
| scone: threads | fourteen locks, twelve threads | paths of every handler | no circle of waiting, nothing kept, no unguarded writing |
| scone: servers | socket table, request queue, workers | accept, take, serve, close | a number is in one hand and comes back |
| lwtcp: TCP | control block, `unsent`, `unacked`, `ooseq` | segments, timers, application calls | stream whole and in order; nothing forgotten before it is acknowledged |
| lwtcp: netconn, mailboxes | netconn, ring, semaphores, delta list | write, receive, delete, post, fetch, time out | calls come back; no lost wake-up |
| lwtcp: memory | heap of linked blocks, buffer chains | allocate, cut, chain, share, free | heap and chains sound, nothing leaks |
| NIC driver | rings, NAPI states, resources, queue pointers, contexts in the card | transmit, clean, poll, refill, interrupt; probe, open, stop, remove | each skb once; every packet delivered; ladders give back; no stray DMA, no NULL followed |

What is hard here, and what no unit test reaches easily:

* *Back-pressure and pauses.* A sink stalls, a source pauses in mid-packet or a
  FIFO runs dry, in any clock; several machines look at an output that may be stale.
* *Values registered at different depths* and used together: the hash of the
  sketch, the clear-on-read pipeline, ports and packets that meet by order alone.
* *Threads between lock regions:* a reply is two regions, a check of an interface
  is released before the packet is processed, a condition is signalled without its
  mutex, the TCP stack shares connections with applications without any lock.
* *Other processes at the same registers.*
* *The network:* hellos, updates and segments are lost, late, repeated, reordered
  and cut anew; routers crash and come back with sequence number 0.
* *Limits and failures:* full FIFOs, rings and tables, counters that wrap,
  allocation failures in the middle of a set-up.

Nothing is persistent. Messages between hardware stages are not lost.

## 2. Modules

| Module | Models | Uses |
|---|---|---|
| `BoundedFifo` | abstract: a bounded queue with a registered read port | |
| `SmallFifo` | `small_fifo.v`; refines `BoundedFifo` | |
| `FwftFifo` | abstract: one clock edge of a fall-through FIFO as an operator | |
| `FallthroughFifo` | `fallthrough_small_fifo.v`; refines `FwftFifo` | `SmallFifo` |
| `NicOutputPortLookup` | `nic_output_port_lookup.sv`, `hash.sv` | `FwftFifo` |
| `CpuRegs` | `output_port_lookup_cpu_regs.sv` with the registers it serves | `FwftFifo` |
| `InputArbiter`, `OutputQueues` | `input_arbiter.v`, `output_queues.v` | `FwftFifo` |
| `SwitchLite` | `switch_lite_output_port_lookup.v`, `eth_parser.v`, `mac_cam_lut.v` | `FwftFifo` |
| `ArpTables` | `or_arp.c`, `send_ip` of `or_main.c` | |
| `RouterList` | what hello, LSU and Dijkstra share: links of the router list, our advertisements | |
| `Pwospf` | `or_pwospf.c`, `iface_up`, `iface_down`: several routers and the network | `RouterList` |
| `Dijkstra` | `or_dijkstra.c` | `RouterList` |
| `Rtable` | `or_rtable.c` and the TCAM rows | |
| `HwTables` | indirect registers: `or_netfpga.c`, `or_output.c`, `sw/cli/cli.c`, `sume_reg.c` | |
| `RouterThreads` | locks and shared data on every path of every thread | |
| `Checksum`, `Nat` | Internet checksums and their adjustment; `or_nat.c` | |
| `Servers` | `or_cli.c`, `or_www.c`, `sockets.c` | |
| `TcpOutput`, `TcpInput`, `Tcp` | `tcp_output.c`, `tcp_input.c` as functions of a control block; `tcp.c`, peer and network | each other |
| `Netconn`, `Mailbox` | `api_lib.c`, `api_msg.c`; `sys_arch.c`, `sys.c`, `transport_subsys.c` | |
| `Buffers` | `mem.c`, `pbuf.c` | |
| `OnicRings`, `OnicSetup` | packet paths and set-up ladders of the OpenNIC driver | |
| `MC*` | instances for TLC | |
| `Sums` | the sum of a sequence, for counters and delta lists | |
| `CommonLemmas` | induction, recursion, sums, remainders, and lemmas about `Step` | `FwftFifo`, `Sums` |
| `CoresProofs` | proofs about the FIFOs and the switch | `MCCores`, `CommonLemmas` |
| `DatapathProofs`, `NicOutputPortLookupProofs`, `CpuRegsProofs` | proofs about the stages of the data path | `CommonLemmas`, the last excepted |
| `DriverProofs` | proofs about the driver's rings and ladders | `MCDriver` |
| `TransportProofs` | proofs about the netconn calls, mailboxes, timers and sockets | `CommonLemmas` |
| `RouterProofs` | proofs about the locks of scone's threads, the TCAM and the tables of the hardware | `MCRouter`, `CommonLemmas` |

Components interact as follows. `Pwospf` floods what `RouterList` computes;
`Dijkstra` starts from any router list that protocol can make; `Rtable` takes any set
of routes `Dijkstra` may compute; `HwTables` takes the passes of `Rtable` and
`ArpTables` apart into register accesses, with the other writers in between.
`RouterThreads` composes all threads of scone over the locks and data they share,
with their computations abstracted away. `Mailbox` is what a `Netconn` message goes
through, `Tcp` is what a `Netconn` write ends in, `Servers` calls `Netconn`
operations as single steps. A composition of these at full detail is beyond TLC; the
interfaces are small sets on both sides.

### How code becomes actions

*Hardware.* A step is one clock edge. The variables are the registers; signals
that the source computes combinationally are operators with its names; the inputs
of a clock (offered beat, `tready`, register accesses) are chosen by `\E`. All
`always` blocks of a module act in the same step. Payload is left out: a beat keeps
only what the stage looks at and, where a property needs it, an identity that the
stage does not look at. Counter fields keep their width as `CountLimit` (2^31) with
the overflow bit as the source forms it. Reset is modelled for the two FIFOs; in the
stages it is the initial state, and what the host can reset is an input.

The FIFO is modelled twice, register by register (`SmallFifo`, `FallthroughFifo`)
and as the operator `Step` of `FwftFifo`, which the stages use. `FwftFifo` keeps the
three valid flags because its users can tell: a word takes clocks to surface, an
empty output shows the previous word, `nearly_full` counts only the memory.
`small_fifo`'s error messages for reading empty and writing full are its contract;
they are guards in `SmallFifo`, and the users are shown to keep to it.

*scone.* An action is one region under locks. Where the code releases a lock and
takes it again, there are two actions, and everything else may come in between:
`Reply`/`Flush` and `Expire`/`ProcessQueue` in `ArpTables`, `Receive`/`Late` and
`Grab`/`SendLsus` in `Pwospf`. Where there is no lock, an action ends where another
thread can see the difference: `Netconn` splits each test of a pointer from its
use, `HwTables` has one action per register access, `Servers` one per access to the
table of sockets, `Mailbox` one per semaphore operation. `RouterThreads` has one
per lock operation and one per access to shared data; the paths are built with the
operator `**` from the same calls the handlers make.

*TCP.* `TcpInput` and `TcpOutput` are operators from a control block to a control
block, so that a segment that arrives, with everything it makes the stack send, is
one action of `Tcp`, as in the code, where the transport thread runs each handler to
its end, with one exception: while a handler waits for a semaphore (of the heap, of a
pool, or the mutex of a mailbox), `sys_sem_wait` (`sys.c:119`) serves timers that fall due. Those would run in the
middle of the handler; they are not modelled. Sequence numbers count from 0 and do
not wrap. A timer that runs may fire at any tick.

*Driver.* A step ends where the hardware or another CPU can see the ring: reading
the written-back index, ringing the doorbell, arming the interrupt. The poll reads the
first completion and the index in two steps. In `OnicSetup` probe and remove are one
action each, with the step that fails as a parameter: the kernel serialises the calls,
and no queue is there to interrupt. Open and stop go queue by queue (`OpenTx`, `OpenRx`,
`StopTx`, ...), since interrupts are raised and handled and polls run in between;
the pointers `priv->tx_queue` and `priv->rx_queue` are part of the state, and a receive
queue is armed one step before its pointer is set (`OpenRx`, `PublishRx`). A poll of
`OnicSetup` is not an action: `PollsSafe` says of every state whether one would find
all the transmit queues it cleans. What nothing points to any more (the name of an irq,
the pages of a receive ring, skbs on a ring that is freed) goes into `lost`, queues freed
with their `napi_struct` on the list of the netdev into `stale`, contexts whose
invalidation timed out into `stuck`.

## 3. Runs

A run that covers several components keeps them side by side in one MC module: a
variable `unit` picks one of them in the initial state, only that one moves, and the
variables of the others keep one value. The first component is extended, the
others are instantiated with the bounds next to them. This asks each component
the same questions as a run of its own.

| Run | Distinct states | Question and answer |
|---|---|---|
| `cores` | 32 thousand | `SmallFifo` refines `BoundedFifo` over roll-over and reset; `FallthroughFifo` refines `FwftFifo` and its head surfaces; `SwitchLite` joins each packet with its own ports, which fit into their FIFO, keeps its table exact, and every packet leaves. Holds. |
| `nic_lookup` | 405 thousand | Ports on the first beat under back-pressure; with a ready sink exact sampling and counters, through clears and wrap-around; a change of the target address miscounts at most one packet. Holds. |
| `nic_sketch_credit` | – | The sketch as a count-min sketch. **Violated**, see below. |
| `datapath` | 53 thousand | `InputArbiter`: no mixing, no starvation. `OutputQueues`: what is let in is kept whole with its metadata. Both: the counters account for every packet and byte. Holds. |
| `cpu_regs` | 77 thousand | Overlapping reads and writes: each answered, once, and in the end; read-your-writes; clear-on-read reports nothing twice. Holds. |
| `arp_tables` | 171 thousand | Tables, queue and hardware copy under every interleaving of the lock regions; draining and expiry. Holds. |
| `pwospf` | 697 thousand | Two routers and a stranger: the lists of a router agree, knowledge never goes back to an older update, and quiet rounds end in agreement, after losses, late packets, a crash, a cut cable or commands. Holds. |
| `router` | 1.2 million | `Dijkstra`: routes are shortest paths over live neighbours. `Rtable`: TCAM and software choose the same hop. `HwTables`: an undisturbed pass repairs torn rows. `RouterThreads`: no circle of locks, nothing kept, guarded data guarded. Holds. |
| `hello_mask` | – | Does every handler give its locks back? **Violated**, see below. |
| `stack` | 616 thousand | `Buffers`: heap and chains sound, nothing leaks, for cuts that leave one buffer over. `Nat`: the sums of packets that have one stay right, one entry per inner pair. `Tcp`: the stream arrives whole and in order unless the receive queue was torn (below), the queues keep every byte until it is acknowledged. Holds. |
| `transport` | 263 thousand | `Netconn`: calls are safe until a reset or a second end of the stream, writes report what is queued and return. `Mailbox`: order, delta times, no lost wake-up. `Servers`: socket numbers in one hand. Holds. |
| `driver` | 310 thousand | `OnicRings`: each skb fetched and freed once, the doorbell rung, every packet delivered, with its own length unless the poll found the ring empty at first. `OnicSetup`: ladders give back what they took before the card can touch freed memory, and pointers are set when interrupts and polls follow them, from open until stop. Holds. |

Every property of a passing run has a mutant in `PROJECT.json`: a plausible slip
in a modelled definition that makes the run fail.

### Bounds, and why they are enough

* *FIFOs* have memories of two or four words. Behind the three word registers that
  is five or seven places: enough to be full, empty, dry in mid-packet, and for
  the pointers to roll over several times.
* *Arbiter:* queues 0 and 2 send packets of one and two beats (a single-beat
  packet takes another path than a longer one; two queues that are not neighbours
  make the round robin skip one). A third queue that waits for two busy ones is
  not met. Counters wrap at 2. The source may pause before
  any beat.
* *NIC stage:* two rows of two counters, one packet in two sampled, four packets,
  so that row and sampling counters go round; counters that wrap at 3 with overflow;
  one CPU access (target address, clear, reset, clear-on-read) in any clock; one stall
  in any clock, and properties that need a ready sink say so. The two keys collide
  neither in port nor in hash.
* *Output queues:* a data FIFO of four words that lets a packet in below a
  threshold of one and packets of up to three words: just enough room, so that
  a threshold one too high overflows. One kind of packet goes to two queues of
  which one may be full. Four packets. Clears are off, because the
  conservation laws are about counters nobody reads meanwhile.
* *Registers:* one counter and one setting, two events, two reads of the counter;
  settings and resets are written without bound. The master keeps to AXI4-Lite and
  has one read and one write outstanding, but may start the next in the clock that
  ends the last.
* *Switch:* a table of two entries, three stations of which one moves, three
  packets of one or two beats, stalls in any clock, both FIFOs of four words. Four packets, where a station
  returns after it was evicted, take some five minutes and pass as well.
* *ARP:* two next hops, two packets whose errors travel over the other hop, one
  hardware row for two cache entries, lifetimes 0 and 1, two requests per entry
  instead of five (first and last are what differ).
* *PWOSPF:* two routers on one subnet, with a host there that speaks hello but is
  never heard again, eight ticks, one fault (loss, late packet, crash, cable or
  command) at the first of them, time-outs of one tick, and six quiet rounds until agreement
  is asked for. Sequence numbers keep their 16 bits and begin at 100, so that a
  restart at 0 is behind. Routers are interchangeable (symmetry). With one subnet no
  update reaches a router over two ways; late and reordered copies stand for that.
* *Dijkstra:* four routers with a triangle and a tail, two ways to three of the
  subnets, one neighbour on both of our interfaces, every order of updates, lost
  neighbours, interfaces down, and recomputations, so that the pointers left from an
  earlier run are met. `RoutesShortest` asks for the distance and a live neighbour of
  the interface; the interface of a direct route is asked for by `DirectHome`, which
  fails (below).
* *Routing table:* addresses of two bits, four static routes that overlap, one
  TCAM row fewer than the table may have entries.
* *Hardware tables:* one row each of four tables, four calls, two of them at a
  time: the filters are set up first, two calls disturb each other at every register
  access and may leave a torn row, and a fourth pass runs undisturbed and repairs it.
* *Threads:* all pairs of the twelve threads on every path, and three sets of three that
  share the lists and the queue of updates. A circle of two needs two threads; `NoDeadlock` looks for circles of any length
  among those that run.
* *Buffers:* a heap of eight units with headers of one: three blocks, cuts that split
  a block off (`MIN_SIZE` 0 lets small blocks split), merges on both sides; a buffer
  of the pool, two references. A cut leaves at most one buffer over
  (`Leftovers`), since `pbuf_realloc` frees a second one twice (below); `tcp_input.c` cuts segments
  that came as one buffer. Nine units with `MIN_SIZE` 1 and three units of data (some
  500 thousand states) pass as well.
* *NAT:* words of two digits in base 2 (`Digit`), so that carries fold back as they do in
  16-bit sums; two hosts inside, one remote, two entries, one port to give; TCP, UDP with and without
  a sum, echoes, errors, and a protocol NAT does not know.
* *Servers:* one client of the command line and two of the web server, two workers,
  four socket numbers.
* *TCP:* segments of two bytes, buffers of four, three segments queued; the peer
  sends three bytes in five cuts that overlap at both ends, with six arrivals (three that
  tear the queue and three that run into the tear), or acknowledges what we
  wrote (three bytes in pieces) with four. One or two retransmissions before giving up.
* *Netconn, mailbox:* two calls, writes of up to two with a buffer of two, one segment, one reset,
  the end of the stream handed up twice; a ring of
  three slots (the full-ring case cannot be met below that), five messages, two timers of periods 2 and 3.
* *Driver:* a transmit ring of three descriptors and four packets, a receive ring of six,
  refilled by four, six packets, a budget of two: every index goes round. One skb is
  short enough to be padded. Three queues in the set-up, each step that may fail and is recovered from in
  turn, and two contexts whose invalidation may time out, one that fetches and one that
  raises interrupts.

Counters that would grow for ever saturate or stop at a bound which is named in the
module (`Max...`, `Settling`, `LastFault`).

### Fairness

* *Hardware.* The clock does not stop (`WF(Next)`). For the arbiter, the sink
  is ready again and again (`Drain`) and a source that began a packet finishes it
  (`Finish`): the stages behind do so (the slave port of `output_queues` is always
  ready), and AXI4-Stream asks it of a source. For the registers, the master
  takes its answers (`Attentive`). For the fall-through FIFO, a clock edge without
  reset comes again and again; nothing is asked of its user.
* *ARP.* Time passes, `arp_thread` passes through each of its two regions again and
  again, and a reply reaches its second half. The locks are held for one action
  each. All of this is waived in a `stuck` state, in which the code holds the locks
  in an endless loop.
* *Netconn, mailbox.* A thread that can go on does. `SentTcp` is strong: a peer
  that reads acknowledges in the end, though polls come in between.
  The fetcher waits strongly for the mutex of the mailbox, which other threads take and release;
  pthread mutexes do not starve one thread for ever on the systems it runs on.
* *Driver.* Softirqs run, a thread in a call goes on, the card works on what it has
  been given. `PollOne` is strong because an allocation may fail, and does not
  fail for ever.
* *PWOSPF* needs none: agreement is a safety property after a number of quiet
  rounds.

### What the violated runs show

1. `nic_output_port_lookup.sv:148` (`nic_sketch_credit`): the sketch is updated with
   `hash_result` in the clock in which a packet begins, but `hash.sv` registers its
   result; it belongs to what stood at the output one clock before. A packet is
   credited to another key and its own counter can be too low, which a count-min
   sketch rules out.
2. `or_pwospf.c:97` (`hello_mask`): a hello packet whose mask is not the interface's
   makes the handler return with the mutex of the router list taken. The comment in
   line 182 says the caller gives the locks back; the caller gives back the two
   others only. In the passing run `Masks` is `FALSE`.

### Statements that fail and have no run

These are definitions of the modules, or settings of their constants, that say what a
comment or an assertion says, or what one would expect. The code does otherwise,
the model follows the code, and the properties of the passing runs are phrased around
it.

| Statement | Where | What happens |
|---|---|---|
| `OutputQueues!BytesDroppedCounted` | `output_queues.v:615` | port *n* adds bit *n* of the length, and for every port |
| `SwitchLite!OwnPorts` with `Resets = BOOLEAN` | `switch_lite_output_port_lookup.v:242` | a reset of the tables loses the lookup of that clock; later packets leave with the ports of their successor |
| `SwitchLite!PortsFit` with memories of 16 and 4 words, as in the source, and a sink that stalls | `switch_lite_output_port_lookup.v:226` | `nearly_full` of `dst_port_fifo` is not connected: nine packets of two beats fit into `input_fifo`, and their ports overflow the other FIFO. Here the sink is `output_queues`, which is always ready, and then they fit (section 4) |
| `SwitchLite!PortsWritten` | `switch_lite_output_port_lookup.v:256` | the ports are on `tuser` in `WAIT_STATE` only, which is left without looking at `tready`: a first beat that is not taken in that clock leaves without them. With an always ready sink it holds |
| `ArpTables!WillFreeLater` | `or_arp.c:178` | an entry deleted between the halves of a reply: one packet is lost with its entry, with two the walk never ends |
| `Pwospf!DownIsForgotten` | `iface_down` | a hello that passed the check of its interface before it went down makes a neighbour on it afterwards |
| `Dijkstra!DirectHome` | `or_dijkstra.c:124` | the interface of a route is looked up by the router id alone: with a neighbour on two of our interfaces, the route to a subnet of ours leaves by the first of them |
| `Dijkstra!NbrAsserted`, `WalkStaysListed` | `or_dijkstra.c:142` | `prev_router` of a router that is no longer reachable is left from an earlier run |
| `HwTables!RowsWhole` | the indirect registers | writers under different locks, or in another process, mix their fields in a row |
| `RouterThreads!NoRacesAtAll` | floods, commands | the interface list is read, and the router list changed, without their locks |
| `LocksSound` with `Unrouted = TRUE` | `or_ip.c:313` | `send_ip_packet` without a route returns with its locks held |
| `NoRaces` with `Pings = TRUE` | `cli_sping` | the command sends its request without the locks of the tables it looks into |
| `Nat!OutsideUnique` | `is_unique_nat_ext_port` | the comparison is in the wrong byte order; a port can be given twice |
| `Nat!BareStaysBare` | `or_nat.c:84`, `158` | a UDP packet without a checksum leaves with a wrong one |
| `Nat!EntryFirst` | `or_nat.c:147` | a packet of another protocol than TCP, UDP and ICMP has no entry, and `ne->hits++` follows the NULL |
| `Servers!InTable` | `sockets.c:87` | `get_socket` lets through -1 and `NUM_SOCKETS` |
| `SocketsOwned` with `Together = TRUE` | `sockets.c`, `alloc_socket` | two threads can be given one number |
| `Tcp!EofTold` | `tcp_input.c:952` | the FIN of a queued segment is not seen: the flags looked at are those of the arriving one |
| `Tcp!NoUseAfterFree` | `tcp_input.c:507` | `tcp_process` returns `ERR_OK` after `tcp_abort`, and `tcp_input` goes on with the freed block |
| `Tcp!StreamAlwaysIntact` | `tcp_input.c:994`, `893` | a queued segment is replaced by a longer one without a trim against the next: `rcv_nxt` passes that one, and the next trim at line 896 gives a negative length. Or a trim at the back takes the last byte and leaves the FIN. `torn` remembers both, and `StreamIntact` leaves such connections out |
| `Netconn!SafeAfterFin` | `tcp_input.c:295` | `TF_GOT_FIN` is never cleared: every later segment hands up the end again, into a mailbox that `netconn_recv` frees between the test and the post |
| `Netconn!AssertSem` | `err_tcp` | a reset while the application is about to wait for a semaphore that is being freed |
| `Mailbox!NothingLost` | `sys_arch.c` | the ring has no test for being full: the message that fills it makes it look empty |
| `Buffers!LowestFree` | `mem.c:107` | `mem_realloc` makes a free block below `lfree` and leaves `lfree` |
| `BuffersSound` with `Leftovers = 2` | `pbuf.c:445` | the loop over what is left of a chain calls `pbuf_free`, which frees the rest of the chain, and then calls it for the next one again |
| `OnicRings!PadFreedOnce` | `onic_netdev.c:724` | `skb_put_padto` frees the skb when it fails; it is queued all the same and freed again |
| `OnicRings!LengthsRight` | `onic_netdev.c:228` | a poll that is scheduled with the ring empty reads the completion, a packet arrives, and the index then counts it: it is copied with an old length |
| `Rung` with `DmaFails = TRUE` | `onic_netdev.c` | a failed mapping returns `NETDEV_TX_BUSY` in the middle of a batch, without ringing the doorbell |
| `LaddersSound` with failures `"qdev"`, `"fmap"`, `"irq"`, `"nfdp"`, `"txctx"`, `"rxctx"` | `OnicSetup` | these error paths leave something behind |
| `LaddersSound` with `<<"tx", 0>>` or `<<"rx", 0>>` | `while (--qid)` | the first queue is never cleared, and when it is the one that failed the count goes below zero |
| `OnicSetup!NothingForgotten` | `onic_lib.c:105`, `onic_netdev.c:540`, `onic_main.c:237` | names of interrupts, pages of receive rings, skbs left on a transmit ring and the nfdp mapping are never given back |
| `OnicSetup!NapiListSound` | `onic_netdev.c:451` | the comment leaves `netif_napi_del` to `free_netdev`, but the queue that holds the `napi_struct` is freed by `kfree(q)` while the netdev, and its list, live on |
| `OnicSetup!NeverNull` | `onic_netdev.c:692`, `607` | while the device stops, or open fails, polls and interrupts still run and follow pointers to queues just set to NULL; while it opens, an interrupt may come before line 609 sets its pointer |
| `OnicSetup!NoDmaAtAll` | `qdma_context.c:174` | nobody looks whether an invalidation timed out; the ring is freed, and the context stays valid |

Smaller observations from reading:

* the overflow comparison of `input_arbiter.v:376` is done in 31 bits and is never
  true, so the overflow bits stay 0 (modelled so);
* `PKTINQUEUE`, a level, is cleared on read (`output_queues_cpu_regs.v:745`);
* `TGTUDPCNT` is built from an unfinished expression (`nic_output_port_lookup.sv:417`);
* the begin-of-packet signal of the NIC stage ignores `tready`: a packet whose
  first beat is stalled is sampled and counted in every clock of the stall;
* all rows of the sketch use the same hash;
* packets without a destination bit vanish in `output_queues` and are in no counter;
* `ip arp add` does not flush the queue, and an ARP reply overwrites a static entry
  (both modelled so);
* `or_pwospf.c:706` compares `sub & sub` where a mask is meant;
* `read_hw_iface_mac` reads the registers of port 1 for ports 2 and 3 (`or_iface.c:468`);
* the SYN of an active open takes one from `snd_buf` that no acknowledgement gives back
  (`tcp_output.c:310`, `tcp_input.c:476`; `QueuesComplete` allows for that one);
* a worker of the web server that cannot enlarge its request buffer returns without
  closing its socket (`or_www.c:216`; left out: `Servers` has no failing allocations);
* `transport_subsys.c:175` frees an API message to the wrong pool;
* `or_ip.c:149` tests the TTL for being 1, so that 0 wraps;
* the command line reads the end of a connection for ever (`Servers` has it that way).

## 4. Proofs

All theorems hold for every value of the constants that meets the named
assumptions. The assumptions say what a parameter of the source is (a positive depth,
a width, a rate) and, where noted, what its default values satisfy. Each section
names the inductive invariant and what makes it necessary.

**`CommonLemmas`** – what several proofs cite.
* *Induction.* The library states induction for an operator that is a parameter, which
  the provers cannot instantiate. `LeastIn` and `Induction` say it of a set of
  numbers, from the least member of the complement (`WFMin`,
  `NatLessThanWellFounded`). From it follow that a function defined by recursion over
  `0 .. n` exists and is the only one, and what `SumOf` of a sequence is when a member
  is appended, removed or changed.
* *Edges of the abstract FIFO.* `StepSound`: the valid flags never promise more words
  than there are, so the output register is never loaded from nothing. `OutputHeld`: an
  output that is empty still shows what it showed before. `StepMoves`: what an edge
  appends and removes. `OutOfFlags`, `LoadCondition`: when the output register is loaded.

**`CoresProofs`** (`MaxDepthAssumption`: a positive memory size)
* `DepthCorrect`: `Spec => [](TypeOK /\ DepthIsPointerDistance)`. The type
  invariant alone is not inductive: that a legal write or read keeps `depth`
  within the memory needs depth to be the distance of the pointers modulo its size.
* `FifoRefinesQueue`: `Spec => ImplementsQueue`. The mapping takes the
  abstract queue to the window of `depth` slots from `rd_ptr` (`Stored`). One
  lemma per kind of access shows how the window changes over roll-over.
* `FallthroughRefinesFwft` (with `fall!WordAssumption`): `MCSpec => ImplementsFwft`,
  which justifies that all other stages are modelled over the operator `Step` of
  `FwftFifo`. `FallInv` adds to the invariant of the inner FIFO where its registered
  word is: a word that is valid nowhere else is never overwritten. `HandOn` follows the
  words of the three registers and the memory through one edge, for every combination of
  the valid flags; `ViewIs` says what the abstract FIFO sees of them.
* `PacketsGetOwnPorts` (`SwitchAssumption`): `MCSpec => []OwnPorts`, under three hypotheses: the tables are not
  reset (a reset loses a lookup, section 3), software does not clear the counters
  of hits and misses, and the ports have room (`PortsHaveRoom`): their memory is
  as large as that of the packets, or it has four words and the sink is always ready.
  The source has 16 and 4 words, and its sink is `output_queues.v`, whose line 411 holds
  `s_axis_tready` high: the second case.
  `OwnPorts` speaks of the one clock in which a packet and its ports meet. That they are
  of the same packet needs the whole way: the parser, the output register of the table
  and `dst_port_fifo` hold packets in the order of their numbers (`Pipe`), and hold
  exactly those whose first beats are in `input_fifo`, but for the one being sent
  (`Paired`, `SwitchInv`).
  That the ports fit is a count: as many sets of ports wait as first beats, and there is
  room for only so many beats (`PortsBehindBeats`). With a ready sink at most five
  beats wait at all, since ports come four clocks after their beat (`Prompt`).
  `TableInv` says for each station that it is in the table iff fewer than `LUT_DEPTH`
  stations were learned after it, and at which distance from `lut_wr_addr`; that is why
  none is in it twice. `LookupsInv` counts what is still in the parser or the table.

**`DatapathProofs`** – arbiter (`ArbiterAssumption`) and output queues (`BufferAssumption`:
the buffer holds a longest packet above the threshold; `SourceAssumption`: packets have one
word or more and at most the longest length)
* `ArbiterNeverMixes`: `MCSpec => []NoInterleaving`, and `ArbiterReadsWhatItHands`: a beat is
  read exactly when it is handed over. The invariant (`ArbiterInv`) adds `StaleNotLast`:
  in `WR_PKT` an empty output shows a beat that is not the last of a packet. Without it
  the step in which the machine believes `tlast` of an empty FIFO could end the
  packet early. `OutputHeld` carries it over a clock.
* `PacketsStoredIntact`: `MCSpec => []StoredIntact`. `StoredIntact` says nothing of
  the metadata behind the first. The invariant needs, for each queue, its whole content:
  data FIFO and metadata FIFO hold the same packets in the same order (`Paired`), the
  data is cut into packets without gaps (`Framed`), the metadata surfaces no later
  than the first beat it belongs to (`NotBehind`), and the queues that take the packet
  under way have room for what is left of it.
* `EveryPacketIsCounted`: while software clears none of the counters concerned (`LeftAlone`),
  `MCSpec => []PacketsCounted`. The fields are remainders, so the invariants (`Counted`,
  `ArbiterCounted`) carry the number of full rounds. Stored and removed bytes differ by
  the sum of the lengths in the metadata FIFO, packets in and out of the arbiter by the
  sum of the last beats in its FIFOs: `Weight` follows such a sum through an edge.
  `Shape` says that the state machine is idle just when the next beat begins a packet:
  each is stored or dropped once.

**`NicOutputPortLookupProofs`** (`SketchAssumption`, `StreamAssumption`)
* `LookupCountsExactly`: `Spec => []CountersExact`; `PacketsPassRight`:
  `Spec => []PassesRight`; `LastTargetKept`: `Spec => []LastTargetWithinOne`. One
  invariant serves them: `InStep` says the two-state machine agrees with an observer of
  the stream on whether the next beat begins a packet; the other parts are the
  counts of samples, rows, events and the last target that follow from it. The rest is
  arithmetic: quotient and remainder of a successor, for the counters that go
  round, and the eight ports of which each is paired with its neighbour.

**`CpuRegsProofs`**
* `ReadsAreTrue`: `Spec => []ReadsTrue`. `ReadPhases` and `WritePhases` say which
  combinations of ready and valid flags occur and what is owed in each.
  `SettingsKept` follows a setting through the register of the lookup stage on its way
  back. `CountersExact` splits the events that are not yet reported by the two
  registers through which a clear reaches its counter: that is where the three
  clocks of the bound come from.

**`DriverProofs`** (`RingsAssumption`; `QueuesAssumption`: one queue or more)
* `RingsStayExact`: `Spec => []RingsExact`. The orders of what was fetched, freed and
  delivered hold only since each index is a position in the ring that is a known
  distance from the others; `Wrap`, `Distances`, `NearEndMoves` and
  `FarEndMoves` say how such a distance changes when an index goes round. A
  thread that cleans or polls keeps what it read earlier (`left`, `seen`, `len`): the
  invariant bounds it by what the ring still holds, which for the transmit ring needs
  that one thread cleans at a time (`OneCleaner`); a length read with a completion
  present stays that of the packet at the tail, since the card never reuses a
  completion that is not read. Two exceptions are part of what is stated: an
  skb that `skb_put_padto` freed (`unpadded`) is freed by `onic_tx_clean` as
  well, and the first length of a poll that found the ring empty may be an old one.
* `DoorbellRung`: `~DmaFails => (Spec => []Rung)`. The invariant is what may be pending
  within the call. With a failed mapping it is false, see section 3.
* `LaddersStaySound`: `MCSpec => []LaddersSound`, for any number of queues, vectors and
  rings, every failure in `recovers` (those that leak are listed in section 3), and any
  set of contexts whose invalidation may time out. What a
  ladder may give back depends on all that was taken before, so `LaddersSound` alone says
  too little. `SetupInv` knows the device: gone but for the nfdp mapping, probed,
  or with exactly those rings that the position of the loop in open, in its failure path or
  in stop implies, where memory, pointer and contexts of a ring go together (`Devices`,
  `Ringed`), but for one receive queue that is armed before its pointer is set
  (`RingedArmed`). Each operation of the model is a lemma from one such set of devices to
  another (`TakeOne`, `PutOne`, `TxSetUp`, `RxArmed`, `RxCleared`, ...); each label of `onic_probe`
  is one that rests on the label after it (`AtClearInterrupt` down to `AtDisableDevice`).
  Nothing is claimed of what is lost: that is `NothingForgotten`, which fails.

**`TransportProofs`** (`NetconnAssumption`; `MailboxAssumption`: a ring of one slot or more,
periods that are natural numbers; `ServersAssumption`: a table with room for the two
listening sockets, different names for different things)
* `CallsAreSound`: `Spec => []CallsSound`, for two threads without a lock. Until a
  reset, or a second end of the stream (`SafeUnlessReset`), nothing freed is touched.
  Before either they take turns: what the application waits for is one request in the queue
  of the transport thread, one handler under way, or one answer in `conn->mbox`
  (`Requests`, `OneHandler`, `OneAnswer`); what still exists follows from where the
  application is in its calls (`Exists`, `Closing`), and so does what is queued and
  not reported (`Exact`). After a reset (`After`) answers may come that nobody asked
  for, but nothing more is queued. `CallsSound` says nothing of this, so no step
  of a handler could be shown to keep it by itself.
* `QueuesStayExact`: `MCSpec => []QueuesExact`, for any number of threads that post.
  `OneInside` is the mutex: one thread at a time is between taking and giving it, which
  includes the reader while it looks. Then `RingOrder` can say what the slots from
  `first` on hold, and that `last` lags by one slot while a sender has stored its message
  and not moved the index yet (`Leaving`); `Behind` counts slots over the end of the ring. All of
  this needs `peak < SYS_MBOX_SIZE`: the code has no test for a full ring (section 3).
* For the delta list, `DeltaInv` says that each timer is in it once and that the
  sum of the differences up to an entry is what that timer has left. `SameSteps` is the
  induction: two lists that go on with the same differences stay as far apart as they
  are, so that an entry put in (`SetTimer`), the head taken out (`TakeHead`) or
  shortened (`WaitedTimes`) changes exactly the times it should. `StartedExact` is an
  induction over the timers that are set one after the other when the thread starts.
* `SocketsStayOwned`: `~Together => (MCSpec => []SocketsOwned)`, for any clients, workers and
  size of the table. With connections at both servers at a time it is false (section 3).
  `OneServer` says that only one of them is engaged, so that what `alloc_socket` has
  found free still is when it takes it (`Finds`). A job is what a server makes of a connection
  and hands on through the queue to a worker, or to a thread of the command line; its
  number stands for its client (`Stands`), and no client has two jobs (`QueueJobs`,
  `WorkerJobs`, `JobsApart`). Two jobs with one number would have one client (`OneOwner`);
  that each number of the web server has a job is `NoneLost`.

**`RouterProofs`** (the locks without the three paths that break the rules, section 3:
`~Masks`, `~Unrouted`, `~Pings`; `RtableAssumption`; `HwTablesAssumption`: one row or more)
* `LocksStaySound`: `Spec => []LocksSound`, and `GuardedDataStaysApart`: `Spec => []NoRaces`,
  for any set of threads at once; TLC runs them in pairs and three larger sets. `Rank`
  numbers the locks in the order in which every thread takes them: a path that takes a
  lock has only locks of lower rank (`Below`). `Leads(P, h, k)` says that each path of
  `P`, begun with the locks `h`, takes and gives each lock soundly, touches guarded data
  only under its lock, and ends with `k`. Paths are built with `**` and `\cup`, and `Leads`
  is proved along that structure, from `SendPacket` up to the twelve threads
  (`EveryPathLeads`), so that no path is ever enumerated. The invariant
  says that what is left of each thread's path runs from what it holds to nothing, and
  that a writer is alone with its lock (`Exclusive`). Of a set of threads that all wait,
  the one that waits for the highest rank (`LastWaits`) waits for a thread that holds
  this lock and itself waits for a higher one.
* `TcamAgrees`: `MCSpec => []HwAgrees`, for any width of addresses, number of rows and
  routes. The order of `trigger_rtable_modified` lists the entries with the longest masks first
  (`OrderedLists`, `SortedDescends`), and keeping the active ones keeps their order
  (`KeptLists`); so the first row that matches is that of the longest match
  (`ImageAgrees`). The invariant is that the table is sorted and the rows are its image.
* `UndisturbedPassRepairs`: `MCSpec => []PassRepairs`, for any number of rows and of threads
  at the registers at once. A row's accesses are followed as a trace of states of registers and
  tables (`Goes`): one that fills all data registers its table takes and then gives the
  command makes the row whatever the registers held (`Fills`, `WriteMakes`), and the rows
  one after the other make the table (`AllRowsMakes`). `TablesInv`: while a table is
  calm but not yet written, one thread alone is at the registers, and what it has
  left brings the rows to what is wanted.

Only model-checked, and why:
* *Liveness*: everything with `~>` or under fairness (`NoStarvation`, `HeadSurfaces`,
  `PacketsLeave`, `AccessesEnd`, ...). TLAPS as used here does not reason about `ENABLED`.
* *Data structures walked by loops*: the walks over lists of `ArpTables`, the heap of
  `Buffers`, the queues and the stream of `Tcp`, the checksums of `Nat`.
  Their definitions are recursive in the data. `CommonLemmas` shows the way (a set of
  numbers for the induction, recursive functions instead of recursive operators), but
  each of these needs lemmas of its own for every loop.
* *Not attempted yet*: `Pwospf`, the safety of `Dijkstra`.

## 5. What is not modelled

* *Vendor cores* (asynchronous FIFOs, CAM and TCAM, MAC, DMA) and the vendored
  OpenNIC shell are not in the repository or not its own logic. With them go the
  stages whose decisions they make: the switch with a CAM, the router's lookup, the
  attachments of the MACs, the width converter. `nf_datapath` is wiring.
* *Within modelled stages:* FLIP, DEBUG, ID and VERSION registers and byte strobes,
  `TGTUDPCNT`, the PKTIN and PKTOUT totals of `output_queues`, the overflow bits of
  the switch, the reset signal in mid-flight.
* *Within scone:* the text of commands and pages, packet formats (records here), ARP
  requests of others and other handlers without an effect on state, the commands
  that change intervals, the area id and the addresses of interfaces (`ip interface`),
  the composition of ICMP messages.
* *Within lwtcp:* round-trip estimate and values of timers, several connections on
  one list, UDP, listening netconns, timers served inside `sys_sem_wait`; sequence
  numbers do not wrap. The pools of `memp.c` are abstracted to records that are
  there or not.
* *Within the driver:* statistics, ethtool, the register tables of `qdma_access`.
* *The XDP counter* is one increment of a per-CPU map entry. Tools, test bench,
  Python library and build scripts keep no state of their own.

## 6. Plan

Order: first what every packet passes, from the FIFO up; then the stages with
the host's view of them; then the control software, whose threads write tables
that the hardware reads; then what it stands on, the TCP stack and the driver. These
are done, with the runs of section 3 and the proofs of section 4.

Proofs left, in this order: `TablesAgree` of `ArpTables`, `ListsAgree` of `Pwospf`,
`RoutesShortest` of `Dijkstra`.

Models left: the router's lookup over assumed TCAM answers, the receive queue of the
MAC attachment, and arbiter, lookup and output queues composed over their
handshakes, refining a queue per destination.
