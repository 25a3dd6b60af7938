-------------------------------- MODULE Sums --------------------------------
(***************************************************************************)
(* The sum of a sequence of numbers: how the properties count what waits   *)
(* in a queue, and how sys.c adds up a list of time differences.           *)
(***************************************************************************)
EXTENDS Integers, Sequences

SumOf(s) == LET upTo[i \in 0 .. Len(s)] == IF i = 0 THEN 0 ELSE upTo[i - 1] + s[i]
            IN  upTo[Len(s)]
=============================================================================
