------------------------------ MODULE HwTables ------------------------------
(***************************************************************************)
(* The tables of the hardware router behind their indirect registers.  A   *)
(* row is written by filling data registers, then the address register,    *)
(* then the command register; a read goes the same way and comes back in   *)
(* reply registers.  The routing table is written under its own lock, the  *)
(* ARP table under another, the commands that show or clear rows take      *)
(* none, and the configuration tool (sw/cli/cli.c) is another process:     *)
(* nothing keeps one writer's register accesses out of another's.          *)
(***************************************************************************)
EXTENDS Integers, Sequences, FiniteSets

CONSTANTS Rows,         \* rows of a table
          MaxStarts,    \* bound: passes and commands
          MaxBusy       \* bound: threads in the middle of their accesses

\* What the constants must be like.
HwTablesAssumption == Rows \in Nat \ {0} /\ MaxStarts \in Nat /\ MaxBusy \in Nat

VARIABLES regs,     \* the registers
          table,    \* the rows of the three tables
          want,     \* the contents the software last gave each row
          starts,   \* how many passes and commands began
          ops,      \* each thread's register accesses still to come
          calm      \* tables written from first to last row by one thread
                    \* with no access of another thread since its start

vars == <<regs, table, want, starts, ops, calm>>

Tables == {"route", "arp", "filter", "mac"}     \* the rows of "mac" are ports
Threads == {"route", "arp", "filter", "command", "tool"}
Data == {"A_HI", "A_LOW", "B_HI", "B_LOW"}
Registers == Data \cup {"ADDRESS"}

Zero == <<0, 0>>
Ones == <<-1, 0>>
Blank == [f \in Data |-> Zero]
FieldsOf(t) == CASE t = "route" -> Data
                 [] t = "arp" -> {"A_HI", "A_LOW", "B_LOW"}
                 [] t = "filter" -> {"B_LOW"}
                 [] t = "mac" -> {"A_HI", "A_LOW"}

\* A row of table t that holds d.
RowOf(t, d) == [f \in Data |-> IF f \in FieldsOf(t) THEN d ELSE Zero]

\* The accesses that put d in the registers order names.
Put(order, d) == [i \in 1..Len(order) |-> <<order[i], d>>]

\* What a write of row r of table t ends with.
Write(t, r) == <<<<"ADDRESS", <<t, r>>>>, <<"COMMAND", "write">>>>

\* Mutant: the mask of a route is not written.
MutantRouteRow(r, d) == Put(<<"A_HI", "A_LOW", "B_LOW">>, d) \o Write("route", r)

\* write_rtable_to_hw, a row
RouteRow(r, d) == Put(<<"A_HI", "B_HI", "A_LOW", "B_LOW">>, d) \o Write("route", r)

\* write_arp_cache_entry_to_hw
ArpRow(r, d) == Put(<<"A_HI", "A_LOW", "B_LOW">>, d) \o Write("arp", r)

\* trigger_local_ip_filters_change, a row
FilterRow(r, d) == Put(<<"B_LOW">>, d) \o Write("filter", r)

\* write_hw_iface_mac: the address of a port has two registers of its own.
MacRow(p, d) == <<<<"MAC_HI", <<p, d>>>>, <<"MAC_LOW", <<p, d>>>>>>

\* cli_nuke_hw_arp_cache_entry
NukeRow(r) == Put(<<"B_LOW", "A_HI", "A_LOW">>, Zero) \o Write("arp", r)

\* A row is read the same way; what the reply registers then show is left out.
ReadRow(t, r) == <<<<"ADDRESS", <<t, r>>>>, <<"COMMAND", "read">>>>

\* sprint_hw_rtable, sprint_hw_arp_cache and sprint_hw_local_ip_filter, a row
ShowRoute(r)  == ReadRow("route", r)
ShowArp(r)    == ReadRow("arp", r)
ShowFilter(r) == ReadRow("filter", r)

\* The tool: addip, addarp, addfilter, addmac.
AddIp(r, d)     == Put(<<"A_HI", "B_HI", "A_LOW", "B_LOW">>, d) \o Write("route", r)
AddArp(r, d)    == Put(<<"B_LOW", "A_HI", "A_LOW">>, d) \o Write("arp", r)
AddFilter(r, d) == Put(<<"A_HI", "B_HI", "A_LOW">>, Zero) \o Put(<<"B_LOW">>, d) \o Write("filter", r)
AddMac(p, d)    == MacRow(p, d)

\* A route is cleared with the mask of all ones, which listip calls invalid.
ClearedRoute == [Blank EXCEPT !["B_HI"] = Ones]
ClearIpRow(r) == Put(<<"A_HI">>, Zero) \o Put(<<"B_HI">>, Ones) \o Put(<<"A_LOW", "B_LOW">>, Zero) \o Write("route", r)

\* The accesses op[1], op[2], ... for all rows.
AllRows(op) ==
    LET upto[r \in 0..Rows] == IF r = 0 THEN <<>> ELSE upto[r - 1] \o op[r]
    IN upto[Rows]

----------------------------------------------------------------------------
Init ==
    /\ regs = [f \in Registers |-> IF f = "ADDRESS" THEN <<"route", 1>> ELSE Zero]
    /\ table = [t \in Tables |-> [r \in 1..Rows |-> Blank]]
    /\ want = table
    /\ starts = 0
    /\ ops = [w \in Threads |-> <<>>]
    /\ calm = Tables

Idle == \A w \in Threads : ops[w] = <<>>
Version(r) == <<starts + 1, r>>      \* what the next command gives row r

\* Thread w sets out on the accesses l.
Begin(w, l) ==
    /\ ops[w] = <<>> /\ Cardinality({u \in Threads : ops[u] # <<>>}) < MaxBusy
    /\ starts < MaxStarts /\ starts' = starts + 1
    /\ ops' = [ops EXCEPT ![w] = l] /\ UNCHANGED <<regs, table>>

\* A table is written out whole, some of its rows only, or read.
WholeTable(w, t, l) ==
    /\ want' = [want EXCEPT ![t] = [r \in 1..Rows |-> RowOf(t, Version(r))]]
    /\ calm' = IF Idle THEN calm \cup {t} ELSE {}
    /\ Begin(w, l)

OneRow(w, t, r, row, l) ==
    /\ want' = [want EXCEPT ![t][r] = row]
    /\ calm' = IF Idle THEN calm ELSE {}
    /\ Begin(w, l)

Reading(w, l) ==
    /\ calm' = IF Idle THEN calm ELSE {}
    /\ Begin(w, l) /\ UNCHANGED want

\* The router's threads write a table out when it changed.  The filters are
\* set up by sr_init, before the threads and the command line exist.
Up == starts > 0 /\ ops["filter"] = <<>>
RewriteFilters == starts = 0 /\ WholeTable("filter", "filter", AllRows([r \in 1..Rows |-> FilterRow(r, Version(r))]))
RewriteRoutes == Up /\ WholeTable("route", "route", AllRows([r \in 1..Rows |-> RouteRow(r, Version(r))]))
RewriteArp == Up /\ WholeTable("arp", "arp", AllRows([r \in 1..Rows |-> ArpRow(r, Version(r))]))

\* The router's command line.
Nuke(r) == Up /\ OneRow("command", "arp", r, Blank, NukeRow(r))
Show(row) == Up /\ Reading("command", row)
HwInterfaceAdd(p) == Up /\ OneRow("command", "mac", p, RowOf("mac", Version(p)), MacRow(p, Version(p)))
HwInterfaceDel(p) == Up /\ OneRow("command", "mac", p, Blank, MacRow(p, Zero))

\* The tool's commands.  set* refuse an entry out of range; load* and clear*
\* do not look, and are given entries of the table here.  A file names all rows.
SetIp(r)     == Up /\ OneRow("tool", "route", r, RowOf("route", Version(r)), AddIp(r, Version(r)))
SetArp(r)    == Up /\ OneRow("tool", "arp", r, RowOf("arp", Version(r)), AddArp(r, Version(r)))
SetFilter(r) == Up /\ OneRow("tool", "filter", r, RowOf("filter", Version(r)), AddFilter(r, Version(r)))
SetMac(p)    == Up /\ OneRow("tool", "mac", p, RowOf("mac", Version(p)), AddMac(p, Version(p)))

LoadIp     == Up /\ WholeTable("tool", "route", AllRows([r \in 1..Rows |-> AddIp(r, Version(r))]))
LoadArp    == Up /\ WholeTable("tool", "arp", AllRows([r \in 1..Rows |-> AddArp(r, Version(r))]))
LoadFilter == Up /\ WholeTable("tool", "filter", AllRows([r \in 1..Rows |-> AddFilter(r, Version(r))]))
LoadMac    == Up /\ WholeTable("tool", "mac", AllRows([r \in 1..Rows |-> AddMac(r, Version(r))]))

ClearIp(r)     == Up /\ OneRow("tool", "route", r, ClearedRoute, ClearIpRow(r))
ClearArp(r)    == Up /\ OneRow("tool", "arp", r, Blank, AddArp(r, Zero))
ClearFilter(r) == Up /\ OneRow("tool", "filter", r, Blank, AddFilter(r, Zero))

ListIp     == Up /\ Reading("tool", AllRows([r \in 1..Rows |-> ReadRow("route", r)]))
ListArp    == Up /\ Reading("tool", AllRows([r \in 1..Rows |-> ReadRow("arp", r)]))
ListFilter == Up /\ Reading("tool", AllRows([r \in 1..Rows |-> ReadRow("filter", r)]))

\* The registers and the tables after the access e.  The command register
\* acts on the row the address register names, with the data registers.
RegsAfter(e, g) == IF e[1] \in Registers THEN [g EXCEPT ![e[1]] = e[2]] ELSE g
TableAfter(e, g, tb) ==
    LET t == g["ADDRESS"][1]
        r == g["ADDRESS"][2]
    IN IF e[1] = "COMMAND" THEN
           IF e[2] = "read" THEN tb
           ELSE [tb EXCEPT ![t][r] = [f \in Data |-> IF f \in FieldsOf(t) THEN g[f] ELSE @[f]]]
       ELSE IF e[1] \in {"MAC_HI", "MAC_LOW"} THEN
           [tb EXCEPT !["mac"][e[2][1]][IF e[1] = "MAC_HI" THEN "A_HI" ELSE "A_LOW"] = e[2][2]]
       ELSE tb

\* regwrite, one access: it goes through the driver's ioctl
Access(w) ==
    /\ ops[w] # <<>>
    /\ regs' = RegsAfter(Head(ops[w]), regs)
    /\ table' = TableAfter(Head(ops[w]), regs, table)
    /\ ops' = [ops EXCEPT ![w] = Tail(@)]
    /\ UNCHANGED <<want, starts, calm>>

Router ==
    \/ RewriteFilters \/ RewriteRoutes \/ RewriteArp
    \/ \E r \in 1..Rows : \/ Nuke(r) \/ HwInterfaceAdd(r) \/ HwInterfaceDel(r)
                          \/ Show(ShowRoute(r)) \/ Show(ShowArp(r)) \/ Show(ShowFilter(r))

\* prompt: the command the operator types
Prompt ==
    \/ LoadIp \/ LoadArp \/ LoadFilter \/ LoadMac \/ ListIp \/ ListArp \/ ListFilter
    \/ \E r \in 1..Rows : \/ SetIp(r) \/ SetArp(r) \/ SetFilter(r) \/ SetMac(r)
                          \/ ClearIp(r) \/ ClearArp(r) \/ ClearFilter(r)

Next == Router \/ Prompt \/ \E w \in Threads : Access(w)

Spec == Init /\ [][Next]_vars

----------------------------------------------------------------------------
(***************************************************************************)
(* A table written from first to last row without another thread in        *)
(* between holds what the software wants, whatever accesses mixed before:  *)
(* every row write sets all the registers its table takes, so torn rows    *)
(* last until the next undisturbed pass and no longer.                     *)
(***************************************************************************)
PassRepairs == Idle => \A t \in calm : table[t] = want[t]

\* A row holds fields of one writer: what two writers at once break.
RowsWhole == Idle => \A t \in Tables : table[t] = want[t]
=============================================================================
