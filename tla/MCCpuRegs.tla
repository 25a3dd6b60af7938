----------------------------- MODULE MCCpuRegs ------------------------------
(***************************************************************************)
(* CpuRegs for TLC: a counter and a setting, both read and both reset.      *)
(***************************************************************************)
EXTENDS CpuRegs

\* The target address is written, and all registers are reset.
MCWrites == {[addr |-> "TGTIPADDR", data |-> 1], [addr |-> "TGTIPADDR", data |-> 2],
             [addr |-> "RESET", data |-> 16]}
=============================================================================
