------------------------------ MODULE MCRouter ------------------------------
(***************************************************************************)
(* The routing side of scone for TLC, one part at a time:                  *)
(*   "threads"   all pairs of threads, and three sets of three;            *)
(*   "dijkstra"  four routers, with two ways to three of the subnets;      *)
(*   "rtable"    addresses of two bits, a TCAM one row short of the table; *)
(*   "tables"    tables of one row, two threads at a time at the indirect  *)
(*               registers.                                                *)
(* The variables of a part that is not in use are 0.                       *)
(***************************************************************************)
EXTENDS RouterThreads, TLC
CONSTANTS ra, rb, rc, rd, s1, s2, s3, s4, s5, none,
          Width, NoGateway, Statics, Dynamics, Interfaces, HwRows, MaxRoutes,
          Rows, MaxStarts, MaxBusy
VARIABLES unit, own, list, nbr, ifUp, links, prev, dirty, routes, status,
          rtable, hw, regs, table, want, starts, ops, calm

dijkstraVars == <<own, list, nbr, ifUp, links, prev, dirty, routes, status>>
rtableVars == <<rtable, hw>>
tablesVars == <<regs, table, want, starts, ops, calm>>

dijkstra == INSTANCE Dijkstra WITH
    Self <- ra, NoRouter <- none, Others <- {rb, rc, rd},
    Ifaces <- <<s1, s2>>, Places <- {<<s1, rb>>, <<s2, rb>>, <<s2, rc>>},
    Reports <- (rb :> {<<<<s1, ra>>, <<s2, ra>>, <<s3, rc>>>>})
            @@ (rc :> {<<<<s2, ra>>, <<s3, rb>>, <<s4, rd>>>>, <<<<s3, rb>>, <<s4, rd>>>>})
            @@ (rd :> {<<<<s4, rc>>, <<s5, none>>>>})
ASSUME RoutersAssumption == dijkstra!DijkstraAssumption

\* The routes TLC takes.
Route(ip, mask, gw, ifc) == [ip |-> ip, mask |-> mask, gw |-> gw, iface |-> ifc]
MCStatics == {Route(0, 0, 10, "e0"), Route(2, 1, NoGateway, "e1"), Route(1, 2, 10, "e1"), Route(2, 1, 11, "e0")}
MCDynamics == {{}, {Route(2, 1, 10, "e0"), Route(3, 2, NoGateway, "e0")}, {Route(0, 1, 11, "e1")}}

routing == INSTANCE Rtable WITH Bits <- Width, NoGw <- NoGateway, Ifaces <- Interfaces
ASSUME RoutesAssumption == routing!RtableAssumption

tables == INSTANCE HwTables
ASSUME TablesAssumption == tables!HwTablesAssumption

MCInit ==
    /\ unit \in {"threads", "dijkstra", "rtable", "tables"}
    /\ IF unit = "threads" THEN Init ELSE left = <<>> /\ held = <<>>
    /\ IF unit = "dijkstra" THEN dijkstra!Init
       ELSE /\ own = 0 /\ list = 0 /\ nbr = 0 /\ ifUp = 0 /\ links = 0
            /\ prev = 0 /\ dirty = 0 /\ routes = 0 /\ status = 0
    /\ IF unit = "rtable" THEN routing!Init ELSE rtable = 0 /\ hw = 0
    /\ IF unit = "tables" THEN tables!Init
       ELSE regs = 0 /\ table = 0 /\ want = 0 /\ starts = 0 /\ ops = 0 /\ calm = 0

MCNext ==
    /\ UNCHANGED unit
    /\ \/ unit = "threads" /\ Next /\ UNCHANGED <<dijkstraVars, rtableVars, tablesVars>>
       \/ unit = "dijkstra" /\ dijkstra!Next /\ UNCHANGED <<vars, rtableVars, tablesVars>>
       \/ unit = "rtable" /\ routing!Next /\ UNCHANGED <<vars, dijkstraVars, tablesVars>>
       \/ unit = "tables" /\ tables!Next /\ UNCHANGED <<vars, dijkstraVars, rtableVars>>

MCSpec == MCInit /\ [][MCNext]_<<unit, vars, dijkstraVars, rtableVars, tablesVars>>

\* The dynamic routes follow shortest paths to live neighbours (Dijkstra).
RoutesShortest == unit = "dijkstra" => dijkstra!RoutesShortest
\* write_rtable_to_hw: TCAM and software choose the same next hop (Rtable).
HwAgrees == unit = "rtable" => routing!HwAgrees
\* An undisturbed pass leaves no torn row in a hardware table (HwTables).
PassRepairs == unit = "tables" => tables!PassRepairs
=============================================================================
