------------------------------- MODULE Rtable -------------------------------
(***************************************************************************)
(* The routing table of the software router (or_rtable.c) and its image in *)
(* the hardware.  Every change runs under the write lock of the table,     *)
(* sorts it and writes the active entries to the rows of the TCAM, where   *)
(* the lookup takes the matching row with the smallest address.            *)
(*                                                                         *)
(* A mask is its number of leading ones: the code compares masks as        *)
(* numbers, which is the same order for masks of that form.                *)
(***************************************************************************)
EXTENDS Integers, SequencesExt, FiniteSetsExt

CONSTANTS Bits,       \* width of an address
          Statics,    \* the routes a command may add: [ip, mask, gw, iface]
          Dynamics,   \* what dijkstra_thread may compute: sets of such routes
          Ifaces,     \* interface names
          NoGw,       \* gateway 0.0.0.0
          HwRows,     \* rows of the TCAM
          MaxRoutes   \* bound: routes in the table

VARIABLES rtable,     \* the list of entries
          hw          \* the rows of the TCAM

vars == <<rtable, hw>>

Addrs == 0 .. 2^Bits - 1
Routes == [ip : Addrs, mask : 0..Bits, gw : Nat, iface : STRING]
RtableAssumption ==
    /\ Bits \in Nat /\ HwRows \in Nat /\ MaxRoutes \in Nat /\ NoGw \in Nat
    /\ Statics \subseteq Routes
    /\ \A D \in Dynamics : D \subseteq Routes /\ IsFiniteSet(D)

Matches(r, dest) == LET host == 2^(Bits - r.mask) IN r.ip \div host = dest \div host
Zero == [ip |-> 0, mask |-> 0, gw |-> NoGw, iface |-> "none"]
Row(e) == [ip |-> e.ip, mask |-> e.mask, gw |-> e.gw, iface |-> e.iface]
Entry(r, static) == [ip |-> r.ip, mask |-> r.mask, gw |-> r.gw, iface |-> r.iface,
                     active |-> TRUE, static |-> static]

Init == rtable = <<>> /\ hw = [i \in 1..HwRows |-> Zero]

----------------------------------------------------------------------------
\* get_next_hop: the first of the active matches with the longest mask.
NextHop(dest) ==
    LET M == {i \in 1..Len(rtable) : rtable[i].active /\ Matches(rtable[i], dest)}
        best == Min({i \in M : \A j \in M : rtable[j].mask <= rtable[i].mask})
    IN IF M = {} THEN <<>>
       ELSE <<IF rtable[best].gw = NoGw THEN dest ELSE rtable[best].gw, rtable[best].iface>>

\* Mutant: the sort forgets the mask.
MutantBelow(a, b) == a.ip < b.ip

\* trigger_rtable_modified swaps a with its successor b.
Below(a, b) ==
    \/ a.mask < b.mask
    \/ a.mask = b.mask /\ a.ip < b.ip
    \/ a.mask = b.mask /\ a.ip = b.ip /\ ~a.static /\ b.static

\* The members of S in the order R, which relates any two of them.
Ordered(S, R) ==
    [k \in 1..Cardinality(S) |-> CHOOSE i \in S : Cardinality({j \in S : <<j, i>> \in R}) = k - 1]

\* The bubble sort: no entry moves past an equal one.
Ahead(l, i, j) == Below(l[j], l[i]) \/ (~Below(l[i], l[j]) /\ i < j)
Sorted(l) ==
    LET D == 1..Len(l)
        from == Ordered(D, {p \in D \X D : Ahead(l, p[1], p[2])})
    IN [k \in D |-> l[from[k]]]

\* What is left of l when only the entries at S stay.
Kept(l, S) ==
    LET from == Ordered(S, {p \in S \X S : p[1] < p[2]})
    IN [k \in 1..Cardinality(S) |-> l[from[k]]]

Active(l) == Kept(l, {i \in 1..Len(l) : l[i].active})

\* write_rtable_to_hw
HwImage(l) ==
    LET active == Active(l)
    IN [i \in 1..HwRows |-> IF i <= Len(active) THEN Row(active[i]) ELSE Zero]

\* trigger_rtable_modified, which ends every change
Modified(l) == rtable' = Sorted(l) /\ hw' = HwImage(Sorted(l))

----------------------------------------------------------------------------
\* add_route, from the command line; it looks for no older equal route.
RouteAdd(r) ==
    /\ Len(rtable) < MaxRoutes
    /\ Modified(Append(rtable, Entry(r, TRUE)))

\* del_route removes static and dynamic routes alike.
RouteDel(ip, mask) ==
    Modified(Kept(rtable, {i \in 1..Len(rtable) : ~(rtable[i].ip = ip /\ rtable[i].mask = mask)}))

\* Mutant: inactive entries keep their row.
MutantDeactivate(ifc) ==
    rtable' = [i \in 1..Len(rtable) |->
                 IF rtable[i].iface = ifc THEN [rtable[i] EXCEPT !.active = FALSE] ELSE rtable[i]]
    /\ hw' = hw

\* deactivate_routes, from iface_down
Deactivate(ifc) ==
    LET kept == Kept(rtable, {i \in 1..Len(rtable) : rtable[i].iface # ifc \/ rtable[i].static})
    IN Modified([i \in 1..Len(kept) |->
                   [kept[i] EXCEPT !.active = @ /\ kept[i].iface # ifc]])

\* activate_routes, from iface_up
Activate(ifc) ==
    Modified([i \in 1..Len(rtable) |->
                [rtable[i] EXCEPT !.active = @ \/ rtable[i].iface = ifc]])

\* dijkstra_thread: the dynamic entries are replaced by the computed ones.
InstallDynamic(routes) ==
    LET static == Kept(rtable, {i \in 1..Len(rtable) : rtable[i].static})
        S == SetToSeq(routes)
    IN /\ Len(static) + Len(S) <= MaxRoutes
       /\ Modified(static \o [i \in 1..Len(S) |-> Entry(S[i], FALSE)])

Next ==
    \/ \E r \in Statics : RouteAdd(r) \/ RouteDel(r.ip, r.mask)
    \/ \E ifc \in Ifaces : Deactivate(ifc) \/ Activate(ifc)
    \/ \E D \in Dynamics : InstallDynamic(D)

Spec == Init /\ [][Next]_vars

----------------------------------------------------------------------------
\* The TCAM's answer
HwHop(dest) ==
    LET i == Min({j \in 1..HwRows : Matches(hw[j], dest)})
    IN <<IF hw[i].gw = NoGw THEN dest ELSE hw[i].gw, hw[i].iface>>

(***************************************************************************)
(* The first matching row of the hardware and the longest match of the     *)
(* software choose the same next hop, for every destination the software   *)
(* has a route to, as long as the active routes fit (write_rtable_to_hw    *)
(* leaves out what does not; a destination without a route meets a row of  *)
(* zeros, which matches everything).                                       *)
(***************************************************************************)
HwAgrees ==
    Len(Active(rtable)) <= HwRows =>
        \A dest \in Addrs : NextHop(dest) # <<>> => HwHop(dest) = NextHop(dest)
=============================================================================
