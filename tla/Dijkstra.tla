------------------------------ MODULE Dijkstra ------------------------------
(***************************************************************************)
(* One router's dynamic routes (or_dijkstra.c).  Hellos, updates, timeouts *)
(* and commands change the list of routers, the neighbours and the         *)
(* interfaces; each marks the table dirty, and dijkstra_thread computes    *)
(* the routes of the list as it then is.                                   *)
(*                                                                         *)
(* prev_router is a pointer into the list that no run resets: it outlives  *)
(* the run that set it and may outlive the router it points to.            *)
(***************************************************************************)
EXTENDS RouterList, FiniteSets

CONSTANTS Self,     \* our router id
          Others,   \* the other routers
          Ifaces,   \* our interfaces, in the order of if_list, by their subnets
          Places,   \* <<subnet, id>>: where a neighbour may appear
          Reports   \* what a router may advertise: sequences, for each of Others

Null == "null"
Dangling == "dangling"

\* What the constants must be like.
DijkstraAssumption ==
    /\ Self \notin Others /\ NoRouter \notin Others \cup {Self} /\ IsFiniteSet(Others)
    /\ Places \subseteq Range(Ifaces) \X Others
    /\ DOMAIN Reports = Others

VARIABLES own,      \* what we advertise
          list,     \* the other routers: records [rid, advs]
          nbr,      \* nbr_routers of all interfaces: pairs <<subnet, id>>
          ifUp,     \* interfaces that are up
          links,    \* the advertisements with is_active set
          prev,     \* prev_router of each listed router
          dirty,    \* dijkstra_dirty
          routes,   \* the dynamic entries of the routing table
          status    \* "running", or how dijkstra_thread ended

vars == <<own, list, nbr, ifUp, links, prev, dirty, routes, status>>

Infinity == Cardinality(Others) + 2       \* 0xFFFFFFFF

Init ==
    /\ own = [i \in 1..Len(Ifaces) |-> <<Ifaces[i], NoRouter>>]
    /\ list = <<>> /\ nbr = {} /\ ifUp = Range(Ifaces) /\ links = {}
    /\ prev = [r \in {} |-> Null]
    /\ dirty = TRUE /\ routes = {} /\ status = "running"

----------------------------------------------------------------------------
\* The computation

All == <<[rid |-> Self, advs |-> own]>> \o list
Listed == {e.rid : e \in Range(All)}
AdvsOf(r) == (CHOOSE e \in Range(All) : e.rid = r).advs
Edge(w, v) == \E a \in Range(AdvsOf(w)) : a[2] = v /\ <<w, a>> \in links

\* get_shortest: the first of the nearest routers not yet settled.
GetShortest(found, dist) ==
    LET d(i) == dist[All[i].rid]
        open == {i \in 1..Len(All) : All[i].rid \notin found /\ d(i) < Infinity}
    IN IF open = {} THEN Null
       ELSE All[Min({i \in open : \A j \in open : d(i) <= d(j)})].rid

\* update_neighbor_distance for the router settled last
Update(st) ==
    LET found  == st.found \cup {st.cur}
        nearer == {v \in Listed \ found : Edge(st.cur, v) /\ st.dist[st.cur] + 1 < st.dist[v]}
        dist   == [v \in nearer |-> st.dist[st.cur] + 1] @@ st.dist
    IN [found |-> found, dist |-> dist, prev |-> [v \in nearer |-> st.cur] @@ st.prev,
        cur |-> GetShortest(found, dist)]

\* The loop of compute_rtable
Paths ==
    LET first == [found |-> {Self}, prev |-> prev, cur |-> Self,
                  dist |-> [v \in Listed |-> IF v = Self THEN 0 ELSE Infinity]]
        after[k \in 0..Len(All)] ==
            IF k = 0 THEN first
            ELSE LET st == after[k-1] IN IF st.cur = Null THEN st ELSE Update(st)
    IN after[Len(All)]

\* Mutant: the walk starts one router too late.
MutantFirstHop(p, r) == IF p[r] = Self THEN r ELSE p[r]

\* The walk in add_route_wrappers down to the router next to the source.
FirstHop(p, r) ==
    LET walk[k \in 0..Len(All)] ==
            IF k = 0 THEN r
            ELSE LET w == walk[k-1] IN
                 IF w = Dangling \/ p[w] = Self THEN w ELSE p[w]
    IN walk[Len(All)]

\* Where a subnet is learnt from: the first advertisement of the first of
\* the routers at the least distance.
Winner(dist, s) ==
    LET at(i) == \E a \in Range(All[i].advs) : a[1] = s
        d(i) == dist[All[i].rid]
        I == {i \in 1..Len(All) : at(i)}
    IN All[Min({i \in I : \A j \in I : d(i) <= d(j)})]

\* add_route_wrappers and build_route_wrapper_list
Wrapper(st, s) ==
    LET w == Winner(st.dist, s)
    IN [sub |-> s, direct |-> w.rid = Self,
        next |-> IF w.rid = Self \/ st.prev[w.rid] = Null THEN OnSubnet(w.advs, s)[1][2]
                 ELSE FirstHop(st.prev, w.rid)]

Wrappers(st) == {Wrapper(st, s) : s \in UNION {{a[1] : a \in Range(e.advs)} : e \in Range(All)}}

\* get_iface_by_rid, then get_iface_by_subnet_mask
IfaceFor(w) ==
    LET byRid == {i \in 1..Len(Ifaces) : <<Ifaces[i], w.next>> \in nbr}
    IN IF byRid # {} THEN Ifaces[Min(byRid)]
       ELSE IF w.sub \in Range(Ifaces) THEN w.sub ELSE Null

\* assert(nbr) of compute_rtable fails for this route.
NoNbr(w) == ~w.direct /\ IfaceFor(w) # Null /\ <<IfaceFor(w), w.next>> \notin nbr

Route(w) == [sub |-> w.sub, iface |-> IfaceFor(w), gw |-> IF w.direct THEN NoRouter ELSE w.next]

(***************************************************************************)
(* dijkstra_thread.  A pointer to a router that is gone is read freely;    *)
(* nothing is said of what follows.                                        *)
(***************************************************************************)
RunDijkstra ==
    LET st == Paths
        wrappers == Wrappers(st)
    IN /\ dirty /\ status = "running"
       /\ dirty' = FALSE /\ prev' = st.prev
       /\ \/ /\ \E w \in wrappers : w.next = Dangling
             /\ status' = "read freed router" /\ UNCHANGED routes
          \/ /\ \A w \in wrappers : w.next # Dangling
             /\ \E w \in wrappers : NoNbr(w)
             /\ status' = "assertion failed" /\ UNCHANGED routes
          \/ /\ \A w \in wrappers : w.next # Dangling /\ ~NoNbr(w)
             /\ routes' = {Route(w) : w \in {w \in wrappers : IfaceFor(w) # Null}}
             /\ UNCHANGED status
       /\ UNCHANGED <<own, list, nbr, ifUp, links>>

----------------------------------------------------------------------------
\* What changes the list; propagate_pwospf_changes ends each.

Changed ==
    /\ status = "running" /\ dirty' = TRUE
    /\ \E l \in {<<[rid |-> Self, advs |-> Range(own')]>>
                  \o [i \in 1..Len(list') |-> [rid |-> list'[i].rid, advs |-> Range(list'[i].advs)]]} :
         links' = Links(l)
    /\ UNCHANGED <<routes, status>>

\* A newer update with other contents, or the first of a router.
LsuArrives(q, advs) ==
    LET known == \E e \in Range(list) : e.rid = q
        e == [rid |-> q, advs |-> advs]
    IN /\ list' = IF known THEN [i \in 1..Len(list) |-> IF list[i].rid = q THEN e ELSE list[i]]
                           ELSE Append(list, e)
       /\ list' # list
       /\ prev' = IF known THEN prev ELSE (q :> Null) @@ prev
       /\ UNCHANGED <<own, nbr, ifUp>> /\ Changed

\* pwospf_lsu_timeout_thread frees a router; pointers to it stay.
RouterTimesOut(q) ==
    /\ \E e \in Range(list) : e.rid = q
    /\ list' = SelectSeq(list, LAMBDA e : e.rid # q)
    /\ prev' = [r \in DOMAIN prev \ {q} |-> IF prev[r] = q THEN Dangling ELSE prev[r]]
    /\ UNCHANGED <<own, nbr, ifUp>> /\ Changed

NbrAppears(n) ==
    /\ n \notin nbr /\ n[1] \in ifUp
    /\ nbr' = nbr \cup {n} /\ own' = Advertise(own, n)
    /\ UNCHANGED <<list, ifUp, prev>> /\ Changed

NbrTimesOut(n) ==
    /\ n \in nbr
    /\ nbr' = nbr \ {n} /\ own' = Withdraw(own, n)
    /\ UNCHANGED <<list, ifUp, prev>> /\ Changed

\* iface_down and iface_up, for an interface without neighbours.
IfaceDown(s) ==
    /\ s \in ifUp /\ ~\E n \in nbr : n[1] = s
    /\ ifUp' = ifUp \ {s} /\ own' = WithoutSubnet(own, s)
    /\ UNCHANGED <<list, nbr, prev>> /\ Changed

IfaceUp(s) ==
    /\ s \in Range(Ifaces) \ ifUp
    /\ ifUp' = ifUp \cup {s} /\ own' = WithSubnet(own, s)
    /\ UNCHANGED <<list, nbr, prev>> /\ Changed

Next ==
    \/ RunDijkstra
    \/ \E q \in Others : RouterTimesOut(q) \/ \E advs \in Reports[q] : LsuArrives(q, advs)
    \/ \E n \in Places : NbrAppears(n) \/ NbrTimesOut(n)
    \/ \E s \in Range(Ifaces) : IfaceDown(s) \/ IfaceUp(s)

Spec == Init /\ [][Next]_vars

----------------------------------------------------------------------------
\* Properties

\* The reference: the routers that k active advertisements lead to from one of
\* S, the least such k from us to a router, and the first steps on such ways.
Led(S, k) ==
    LET after[j \in 0..k] == IF j = 0 THEN S ELSE {v \in Listed : \E w \in after[j-1] : Edge(w, v)}
    IN after[k]
Reached == UNION {Led({Self}, k) : k \in 0..Len(list)}
Distances == [r \in Reached |-> Min({k \in 0..Len(list) : r \in Led({Self}, k)})]
FirstSteps(r, d) == {h \in Led({Self}, 1) : r \in Led({h}, d - 1)}

\* A neighbour is met on both interfaces.
Doubled(s, t) == \E v \in Others : {<<s, v>>, <<t, v>>} \subseteq nbr

(***************************************************************************)
(* After a run, a subnet advertised by a router we can reach has one       *)
(* route.  Its gateway is the first router of a shortest path to one of    *)
(* the nearest routers on the subnet, and is our neighbour on the          *)
(* interface of the route; our own subnets are direct, by their own        *)
(* interface or that of a neighbour there which is met on both (Doubled).  *)
(* This although prev_router keeps the values of earlier runs.             *)
(***************************************************************************)
RoutesShortest ==
    status = "running" /\ ~dirty =>
      LET far == Distances IN
        \A s \in UNION {{a[1] : a \in Range(e.advs)} : e \in Range(All)} :
            LET on   == {r \in DOMAIN far : \E a \in Range(AdvsOf(r)) : a[1] = s}
                near == {r \in on : \A q \in on : far[r] <= far[q]}
                hops == UNION {FirstSteps(r, far[r]) : r \in near \ {Self}}
            IN on # {} =>
               \E x \in routes :
                 /\ {y \in routes : y.sub = s} = {x}
                 /\ IF Self \in on THEN x.gw = NoRouter /\ (x.iface = s \/ Doubled(s, x.iface))
                    ELSE x.gw \in hops /\ <<x.iface, x.gw>> \in nbr

\* A route to one of our own subnets leaves by the interface there.  It fails:
\* get_iface_by_rid takes the first interface that knows the router id.
DirectHome ==
    status = "running" /\ ~dirty =>
        \A x \in routes : x.gw = NoRouter => x.iface = x.sub

\* "assert(nbr)" of compute_rtable: a route that is not direct has its gateway
\* among the neighbours of its interface.
NbrAsserted == status # "assertion failed"

\* "walk down until the next router is the source": the walk meets listed
\* routers only.
WalkStaysListed == status # "read freed router"
=============================================================================
