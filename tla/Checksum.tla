------------------------------ MODULE Checksum ------------------------------
(***************************************************************************)
(* The one's complement arithmetic of or_ip.c, or_icmp.c and or_nat.c on   *)
(* words below b, which is 65536 in the code: sums are kept in longer      *)
(* words and their carries are added back at the end.                      *)
(***************************************************************************)
EXTENDS Integers

\* sum = (sum >> 16) + (sum & 0xFFFF)
Fold(b, sum) == (sum \div b) + (sum % b)

\* compute_ip_checksum and compute_icmp_checksum, of a header that sums to
\* sum: two folds, the second without adding what is left above, and the
\* complement.
ComputeChecksum(b, sum) ==
    LET s == Fold(b, sum) IN b - 1 - ((s + (s \div b)) % b)

\* verify_checksum: one fold; the checksum is in the sum.
VerifyChecksum(b, sum) == Fold(b, sum) = b - 1

\* nat_checksum: the word goes below zero when neg is the larger one.
NatChecksum(b, old, pos, neg) ==
    LET word == Fold(b, old + pos) - neg
    IN IF word < 0 THEN word - 1 + b ELSE word % b

\* compute_nat_checksums: of an address and a port, of each alone.  The
\* complement of the port is taken without folding.
PairChecksum(b, ip, port) == ComputeChecksum(b, ip + port)
IpChecksum(b, ip) == ComputeChecksum(b, ip)
PortChecksum(b, port) == b - 1 - port
=============================================================================
