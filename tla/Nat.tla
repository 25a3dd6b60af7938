-------------------------------- MODULE Nat --------------------------------
(***************************************************************************)
(* or_nat.c: the translation of addresses and ports on the interface of    *)
(* the router that faces the outside, with the checksums that follow.      *)
(*                                                                         *)
(* An address and a port are a word each, below Digit * Digit; a word is   *)
(* two digits, which htons swaps.  nat_table is a sequence of entries; the *)
(* mutex nat_table_mutex makes a packet and a command one step each.       *)
(* The maintenance thread takes another lock, and no build starts it.      *)
(***************************************************************************)
EXTENDS Integers, Sequences, SequencesExt, FiniteSets, FiniteSetsExt, Checksum

CONSTANTS Digit,      \* half a word is below it
          Inside,     \* addresses of internal hosts
          ExtIp,      \* address of the wan interface
          Remote,     \* address of an outside host
          Ports,      \* ports the hosts use
          MinPort,    \* external ports are above it
          MaxIdle,    \* passes of the maintenance thread an idle entry stays
          MaxEntries  \* bound: entries of the table

VARIABLES table,   \* nat_table
          out      \* the last packet that was translated

vars == <<table, out>>

B == Digit * Digit
Swap(w) == (w % Digit) * Digit + (w \div Digit)   \* htons, ntohs

None == [proto |-> "none"]
Dead == [proto |-> "dead"]       \* a NULL was followed: scone is gone

\* A sum that is right for a packet with these words
Right(words) == ComputeChecksum(B, words)
Echo == 1   \* type and code of an echo, some word that is not 0
Transport(p) == p.src + p.dst + p.sport + p.dport

\* Packets: TCP, UDP with a sum and without ("bare": the sum is 0), ICMP echo,
\* whose identifier stands for both ports, ICMP errors about a TCP packet,
\* which carry the head of that packet, and any other protocol.
Packet(proto, src, sport, dst, dport) ==
    [proto |-> proto, src |-> src, sport |-> sport, dst |-> dst, dport |-> dport,
     sum |-> CASE proto = "bare" -> 0
               [] proto = "echo" -> Right(Echo + sport)
               [] OTHER -> Right(src + dst + sport + dport),
     ipsum |-> Right(src + dst), insum |-> Right(src + dst)]

Init == table = <<>> /\ out = None

----------------------------------------------------------------------------
\* Look-up

Outer(e) == <<e.eip, e.eport>>
Inner(e) == <<e.iip, e.iport>>

\* get_nat_ip_port_pair and get_nat_port_from_icmp: an error inside is about
\* a packet that came in, so its ports are looked at the other way round.
Pair(p, type) ==
    IF type = "ext"
    THEN <<p.dst, CASE p.proto = "error" -> p.sport [] p.proto = "echo" -> p.sport [] OTHER -> p.dport>>
    ELSE <<p.src, CASE p.proto = "error" -> p.dport [] OTHER -> p.sport>>

\* found_nat_table_match
Match(e, pair, type) == pair = IF type = "ext" THEN Outer(e) ELSE Inner(e)

\* get_nat_table_entry: the index of the first match, or 0
Lookup(p, type) ==
    LET I == {i \in DOMAIN table : Match(table[i], Pair(p, type), type)}
    IN IF I = {} THEN 0 ELSE Min(I)

\* is_unique_nat_ext_port: the port is as the host has it, those in the
\* table are as the network has them.
IsUnique(port) == \A i \in DOMAIN table : table[i].eport # port

\* get_src_port_number, which for an error is that of the packet inside
SrcPort(p) == p.sport

\* create_nat_table_entry, with any port that rand may give
NewEntry(p, port) ==
    [eip |-> ExtIp, eport |-> Swap(port), iip |-> p.src, iport |-> SrcPort(p),
     static |-> FALSE, hit |-> TRUE, idle |-> 0, about |-> p.proto]

----------------------------------------------------------------------------
\* Rewriting

\* The checksum of the translation, of both words, of the address alone and
\* of the port alone; e1 is what comes in, e2 what goes.
Adjust(old, e1, e2)     == NatChecksum(B, old, PairChecksum(B, e1[1], e1[2]), PairChecksum(B, e2[1], e2[2]))
AdjustIp(old, e1, e2)   == NatChecksum(B, old, IpChecksum(B, e1[1]), IpChecksum(B, e2[1]))
AdjustPort(old, e1, e2) == NatChecksum(B, old, PortChecksum(B, e1[2]), PortChecksum(B, e2[2]))
\* What is done to the sum of the IP header: the address comes in, address
\* and port go.
AdjustHeader(old, e1, e2) == NatChecksum(B, old, IpChecksum(B, e1[1]), PairChecksum(B, e2[1], e2[2]))

\* Mutant: the sum of an echo also loses the address, which it never had.
MutantSum(p, e1, e2) == IF p.proto = "error" THEN p.sum ELSE Adjust(p.sum, e1, e2)

\* The sum of a bare packet is adjusted as if it had one.
Sum(p, e1, e2) ==
    CASE p.proto = "error" -> p.sum     \* computed anew: not kept here
      [] p.proto = "echo" -> AdjustPort(p.sum, e1, e2)
      [] OTHER -> Adjust(p.sum, e1, e2)

\* populate_nat_packet, to the outside: the source, or in an error the
\* destination of the packet inside and the sum of its header.
ToExt(p, e) ==
    LET q == [p EXCEPT !.src = e.eip, !.sum = Sum(p, Outer(e), Inner(e))]
    IN CASE p.proto = "error" -> [q EXCEPT !.dport = e.eport, !.insum = AdjustIp(@, Outer(e), Inner(e))]
         [] p.proto = "echo" -> [q EXCEPT !.sport = e.eport, !.dport = e.eport]
         [] OTHER -> [q EXCEPT !.sport = e.eport]

ToInt(p, e) ==
    LET q == [p EXCEPT !.dst = e.iip, !.sum = Sum(p, Inner(e), Outer(e))]
    IN CASE p.proto = "error" -> [q EXCEPT !.sport = e.iport, !.insum = AdjustIp(@, Inner(e), Outer(e))]
         [] p.proto = "echo" -> [q EXCEPT !.sport = e.iport, !.dport = e.iport]
         [] OTHER -> [q EXCEPT !.dport = e.iport]

\* Mutant: the packet is sent with the sum the translation left.
MutantForward(p) == p

\* The end of process_ip_packet: the sum of the header is computed again.
Forward(p) == [p EXCEPT !.ipsum = Right(p.src + p.dst)]

\* Mutant: an entry is made for every packet.
MutantKnown(p) == 0
Known(p) == Lookup(p, "int")

\* process_nat_int_packet: a packet of an internal host goes out.  For another
\* protocol no entry is looked up, and ne->hits++ follows the NULL.
IntPacket(p) ==
    LET i == Known(p) IN
    \/ p.proto = "other" /\ out' = Dead /\ UNCHANGED table
    \/ /\ p.proto # "other" /\ i # 0
       /\ table' = [table EXCEPT ![i].hit = TRUE]
       /\ out' = Forward([ToExt(p, table[i]) EXCEPT !.ipsum = AdjustHeader(@, Outer(table[i]), Inner(table[i]))])
    \/ /\ p.proto # "other" /\ i = 0 /\ Len(table) < MaxEntries
       /\ \E port \in MinPort+1..B-1 :
            /\ IsUnique(port)
            /\ LET e == NewEntry(p, port) IN
               /\ table' = Append(table, e)
               /\ out' = Forward([ToExt(p, e) EXCEPT !.ipsum = AdjustHeader(@, Outer(e), Inner(e))])

\* process_nat_ext_packet: without an entry the packet stays as it is.
ExtPacket(p) ==
    LET i == Lookup(p, "ext") IN
    /\ i # 0
    /\ table' = [table EXCEPT ![i].hit = TRUE]
    /\ out' = Forward([ToInt(p, table[i]) EXCEPT !.ipsum = AdjustHeader(@, Inner(table[i]), Outer(table[i]))])

\* cli_nat_add: a static entry takes the place of one with its external pair.
CliAdd(iip, iport, eport) ==
    LET e == [eip |-> ExtIp, eport |-> Swap(eport), iip |-> iip, iport |-> Swap(iport),
              static |-> TRUE, hit |-> FALSE, idle |-> 0, about |-> "cli"]
        I == {i \in DOMAIN table : Outer(table[i]) = Outer(e)}
    IN /\ IF I # {} THEN table' = [table EXCEPT ![Min(I)] = e]
          ELSE Len(table) < MaxEntries /\ table' = Append(table, e)
       /\ out' = None

\* cli_nat_del: the first entry with the external pair
CliDel(eport) ==
    LET I == {i \in DOMAIN table : Outer(table[i]) = <<ExtIp, Swap(eport)>>}
    IN I # {} /\ table' = RemoveAt(table, Min(I)) /\ out' = None

\* cli_nat_reset
CliReset == table # <<>> /\ table' = <<>> /\ out' = None

\* A pass of nat_maintenance_thread: idle entries go, the rest is sorted by
\* their average of hits, which may be any order.
Maintain ==
    LET aged == [i \in DOMAIN table |->
                   [table[i] EXCEPT !.hit = FALSE,
                                    !.idle = IF table[i].hit THEN 0 ELSE IF @ < MaxIdle THEN @ + 1 ELSE @]]
        Stays(i) == table[i].static \/ table[i].hit \/ table[i].idle < MaxIdle
        kept == SelectSeq([i \in DOMAIN table |-> <<Stays(i), aged[i]>>], LAMBDA x : x[1])
        rows == [i \in DOMAIN kept |-> kept[i][2]]
    IN /\ table # <<>>
       /\ \E f \in {g \in [DOMAIN rows -> DOMAIN rows] : IsInjective(g)} :
            table' = [i \in DOMAIN rows |-> rows[f[i]]]
       /\ out' = None

Outgoing == {Packet(proto, s, a, Remote, b) : proto \in {"tcp", "udp", "bare"}, s \in Inside, a \in Ports, b \in Ports}
       \cup {Packet("other", s, 0, Remote, 0) : s \in Inside}
       \cup {Packet("echo", s, a, Remote, a) : s \in Inside, a \in Ports}
Errors   == {Packet("error", s, a, Remote, b) : s \in Inside, a \in Ports, b \in Ports}
Incoming == {Packet(proto, Remote, a, ExtIp, b) : proto \in {"tcp", "udp", "bare", "error"}, a \in Ports, b \in 0..B-1}
       \cup {Packet("echo", Remote, b, ExtIp, b) : b \in 0..B-1}

Next ==
    /\ out # Dead
    /\ \/ \E p \in Outgoing \cup Errors : IntPacket(p)
       \/ \E p \in Incoming : ExtPacket(p)
       \/ \E s \in Inside, a \in Ports, b \in 0..B-1 : CliAdd(s, a, b)
       \/ \E b \in 0..B-1 : CliDel(b)
       \/ CliReset \/ Maintain

Spec == Init /\ [][Next]_vars

----------------------------------------------------------------------------
\* Properties

\* Whatever is translated, in and out, by entries made by packets or by
\* commands, arrives with sums that the receiver accepts: those of the two
\* headers, and, inside an ICMP error, that of the header it quotes.  A bare
\* UDP packet is left out: it gets a wrong sum (BareStaysBare).
SumsHold ==
    out \notin {None, Dead} =>
    /\ VerifyChecksum(B, out.src + out.dst + out.ipsum)
    /\ out.proto \in {"tcp", "udp"} => VerifyChecksum(B, Transport(out) + out.sum)
    /\ out.proto = "echo" => VerifyChecksum(B, Echo + out.sport + out.sum)
    /\ out.proto = "error" => VerifyChecksum(B, out.src + out.dst + out.insum)

\* A host inside that speaks from one port is one peer to the outside: two
\* entries made by its packets never share the inner pair, unless an error it
\* sent made one.
InsideUnique ==
    \A i, j \in DOMAIN table :
        /\ table[i].about # "error" /\ table[j].about # "error"
        /\ table[i].about # "cli" /\ table[j].about # "cli"
        /\ Inner(table[i]) = Inner(table[j])
        => i = j

\* Translation is invisible to both ends: sums hold and a peer stays one peer.
TranslationSound == SumsHold /\ InsideUnique

\* Two entries never share the outer pair, so that answers find their way.
\* It fails: is_unique_nat_ext_port compares in the wrong byte order.
OutsideUnique == \A i, j \in DOMAIN table : Outer(table[i]) = Outer(table[j]) => i = j

\* A UDP packet without a sum stays without one.  It fails: the sum 0 is
\* adjusted like any other, and the receiver then drops the packet.
BareStaysBare == out.proto = "bare" => out.sum = 0

\* Whatever is forwarded over the wan interface, an entry is found or made
\* before it is counted.  It fails for other protocols than TCP, UDP and ICMP.
EntryFirst == out # Dead
=============================================================================
