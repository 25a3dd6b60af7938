----------------------- MODULE MCNicOutputPortLookup ------------------------
(***************************************************************************)
(* NicOutputPortLookup for TLC: an ICMP packet and another one, a FIFO      *)
(* memory of two words and counters that wrap early.  The target address is *)
(* 0 after reset, so the packet with the zero key is for it.               *)
(***************************************************************************)
EXTENDS NicOutputPortLookup, Bitwise

MCKey == {[protocol |-> 0, ip_dst |-> 0], [protocol |-> 1, ip_dst |-> 2]}

MCZeroBeat == [key |-> [protocol |-> 0, ip_dst |-> 0], src |-> 0, last |-> FALSE]

\* hash.sv folds the ten-bit slices of the key with exclusive or; here a key is
\* two slices and a hash has one bit.
MCHash == [k \in MCKey |-> (k.protocol ^^ k.ip_dst) % 2]

\* Packets from MAC port 1 and from CPU port 0, of one beat or more.
MCBeats == {[key |-> k, src |-> IF k.ip_dst = 0 THEN 4 ELSE 2, last |-> l] :
               k \in MCKey, l \in BOOLEAN}

\* The CPU writes the target address, clears all counters, resets the registers
\* or reads one of the counters (which clears it).
MCCpu == {[Quiet EXCEPT !.target = {2}], [Quiet EXCEPT !.clear_counters = TRUE],
          [Quiet EXCEPT !.reset_registers = TRUE], [Quiet EXCEPT !.reg_clear = {"tgtipout"}]}
=============================================================================
