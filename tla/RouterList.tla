----------------------------- MODULE RouterList -----------------------------
(***************************************************************************)
(* What scone computes from pwospf_router_list: which advertisements are   *)
(* active, and how its own advertisements follow its neighbours.  A list   *)
(* is a sequence of routers, ours first; an advertisement is a pair of a   *)
(* subnet and the id of the router found there, NoRouter (0) for none.     *)
(***************************************************************************)
EXTENDS Integers, SequencesExt

CONSTANT NoRouter

(***************************************************************************)
(* determine_active_interfaces for every router in turn: an advertisement  *)
(* is active if the router it names is listed and advertises a neighbour   *)
(* on that subnet too, or if a router later in the list sets it while it   *)
(* looks for the other side of its own.                                    *)
(***************************************************************************)
Links(l) ==
    LET matched(a) == \E k \in 1..Len(l) : /\ l[k].rid = a[2]
                                           /\ \E b \in l[k].advs : b[1] = a[1] /\ b[2] # NoRouter
        setLater(j, a) == \E i \in j..Len(l) : <<a[1], l[j].rid>> \in l[i].advs
        active(j) == {a \in l[j].advs : a[2] # NoRouter /\ (matched(a) \/ setLater(j, a))}
    IN UNION { {<<l[j].rid, a>> : a \in active(j)} : j \in 1..Len(l) }

FirstIndex(own, a) == CHOOSE i \in 1..Len(own) : own[i] = a /\ \A j \in 1..i-1 : own[j] # a
OnSubnet(own, s) == SelectSeq(own, LAMBDA a : a[1] = s)

\* A hello from a new neighbour: a blank advertisement of the subnet is filled
\* in, else one is added.
Advertise(own, n) ==
    LET blank == <<n[1], NoRouter>>
    IN IF blank \in Range(own) THEN [own EXCEPT ![FirstIndex(own, blank)] = n]
                               ELSE Append(own, n)

\* Mutant: the advertisement of a neighbour that timed out is always removed.
MutantWithdraw(own, n) == IF n \in Range(own) THEN RemoveAt(own, FirstIndex(own, n)) ELSE own

\* determine_timedout_interface for one neighbour: the last advertisement of
\* the subnet is blanked, whomever it names; of several the neighbour's goes.
Withdraw(own, n) ==
    LET s == n[1] IN
    IF Len(OnSubnet(own, s)) = 1
      THEN [i \in 1..Len(own) |-> IF own[i][1] = s THEN <<s, NoRouter>> ELSE own[i]]
      ELSE IF n \in Range(own) THEN RemoveAt(own, FirstIndex(own, n)) ELSE own

\* The part of iface_down and of iface_up that changes our advertisements.
WithoutSubnet(own, s) == SelectSeq(own, LAMBDA a : a[1] # s)
WithSubnet(own, s) == IF <<s, NoRouter>> \in Range(own) THEN own ELSE Append(own, <<s, NoRouter>>)
=============================================================================
