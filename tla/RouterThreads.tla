--------------------------- MODULE RouterThreads ---------------------------
(***************************************************************************)
(* The threads of scone and the locks they share.                          *)
(*                                                                         *)
(* A path is what a thread does from one rest to the next, reduced to the  *)
(* locks it takes and gives back and to the shared data it reads and       *)
(* writes under them; every branch of a handler is a path of its own.      *)
(* Sets of paths are joined with **.  A state is the rest of the path of   *)
(* each thread and the locks it holds.  What the threads compute is in the *)
(* modules of the components.                                              *)
(*                                                                         *)
(* Any Crowd of the threads runs; the others are at rest.                  *)
(***************************************************************************)
EXTENDS Naturals, Sequences, FiniteSets

CONSTANTS Crowd,      \* how many threads run
          Larger,     \* larger sets of threads that run as well
          Masks,      \* neighbours may announce another mask than ours
          Unrouted,   \* the TCP stack may answer a host without a route
          Pings       \* the command sping is used

VARIABLES left,   \* of each running thread, what is left of its path
          held    \* the locks it holds, and how

vars == <<left, held>>

P ** Q == {p \o q : p \in P, q \in Q}
Nothing == {<<>>}
Maybe(P) == P \cup Nothing

Rd(l) == {<<<<"rd", l>>>>}   \* pthread_rwlock_rdlock
Wr(l) == {<<<<"wr", l>>>>}   \* pthread_rwlock_wrlock, pthread_mutex_lock
Un(l) == {<<<<"un", l>>>>}
Reads(x) == {<<<<"read", x>>>>}
Writes(x) == {<<<<"write", x>>>>}

Reading(l, P) == Rd(l) ** P ** Un(l)
Writing(l, P) == Wr(l) ** P ** Un(l)

----------------------------------------------------------------------------
\* Sending

\* The four locks of whoever may send: the packet may have to wait for an
\* address, and an error for a packet that waited in vain needs a route.
SendLocks == Rd("arp_cache") ** Wr("arp_queue") ** Rd("if_list") ** Rd("rtable")
\* Mutant: the queue is not given back.
MutantSendUnlocks == Un("rtable") ** Un("if_list") ** Un("arp_cache")
SendUnlocks == Un("rtable") ** Un("if_list") ** Un("arp_queue") ** Un("arp_cache")

\* send_packet and netfpga_output
SendPacket == Writing("write", Writing("log", Nothing))

\* arp_queue_add and send_arp_request
ArpQueueAdd == Writes("arp_queue") ** Reads("if_list") ** SendPacket

SendIp == Reads("arp_cache") ** (SendPacket \cup ArpQueueAdd)

\* send_icmp_packet
SendIcmp == Reads("rtable") ** Maybe(Reads("if_list") ** SendIp)

----------------------------------------------------------------------------
\* PWOSPF

\* broadcast_pwospf_lsu_packet: interfaces are read without their lock.
BroadcastLsu == Reads("if_list") ** Maybe(Writing("lsu_queue", Writes("lsu_queue")))

\* start_lsu_bcast_flood
Flood == Maybe(Reads("routers") ** BroadcastLsu ** Writes("routers"))

\* propagate_pwospf_changes
Propagate == Writes("routers") ** Flood

\* process_pwospf_hello_packet, which the IP handler calls with four locks:
\* the interfaces are given back and taken again to be written.
Upgrade == Un("rtable") ** Un("if_list")

Hello ==
    Maybe(Upgrade ** Wr("if_list") ** Rd("rtable") ** Wr("routers") ** Reads("if_list")
          ** (   (IF Masks THEN Nothing ELSE {})                  \* returns with the lock
              \cup Un("routers")                                   \* known: its time is noted
              \cup (Writes("if_list") ** Writes("routers") ** Propagate ** Un("routers"))))

\* process_pwospf_lsu_packet
Lsu ==
    Maybe(Un("rtable") ** Wr("rtable") ** Wr("routers") ** Reads("routers")
          ** Maybe(Writes("routers") ** Maybe(BroadcastLsu) ** Maybe(Propagate))
          ** Un("routers"))

----------------------------------------------------------------------------
\* Packets: process_packet, process_ip_packet and process_arp_packet

EchoReply == Writing("sping", Writes("sping"))

Translate == Writing("nat", Writes("nat"))

ForwardIp == Reads("rtable")
             ** (SendIcmp \cup (Maybe(Reads("if_list") ** Translate) ** (SendIcmp \cup SendIp)))

IpPacket == SendLocks ** Maybe(Translate) ** Reads("if_list")
            ** (Nothing \cup SendIcmp \cup EchoReply \cup Hello \cup Lsu \cup ForwardIp)
            ** SendUnlocks

ArpRequest == Reading("if_list", Reads("if_list") ** Maybe(SendPacket))

ArpReply == Writing("arp_cache", Writes("arp_cache"))
            ** Reading("arp_cache", Writing("arp_queue", Maybe(Writes("arp_queue") ** SendIp)))

IsActive == Reading("if_list", Reads("if_list"))

Packets == Writing("log", Nothing) ** IsActive ** Maybe(IpPacket \cup ArpRequest \cup ArpReply)

\* send_ip_packet, without a route it returns with its locks; find_srcip
SendIpPacket == SendLocks ** Reads("rtable")
                ** ((Reads("if_list") ** SendIp ** SendUnlocks) \cup (IF Unrouted THEN Nothing ELSE {}))
FindSrcIp == Reading("if_list", Reading("rtable", Reads("rtable") ** Maybe(Reads("if_list"))))

----------------------------------------------------------------------------
\* The threads with a clock

ArpThread ==
    Writing("arp_cache", Writes("arp_cache"))
    ** SendLocks ** Reads("arp_queue")
    ** Maybe(Writes("arp_queue") ** (SendPacket \cup SendIcmp)) ** SendUnlocks

\* pwospf_hello_thread: the hellos, with the neighbours that timed out
HelloThread ==
    Writing("if_list", Reads("if_list") ** Maybe(SendPacket)
        ** Maybe(Writing("routers", Writes("if_list") ** Writes("routers"))
                 ** Writing("routers", Propagate)))

LsuThread == Writing("routers", Reads("routers")) ** Reads("routers") ** Maybe(Writing("routers", Flood))

TimeoutThread == Writing("routers", Reads("routers") ** Maybe(Writes("routers") ** Propagate))

\* pwospf_lsu_bcast_thread, from its wake-up to its next wait
BroadcastThread ==
    Writing("lsu_bcast", Writing("lsu_queue", Writes("lsu_queue"))
        ** SendLocks ** Maybe(Reads("rtable") ** Maybe(SendIp)) ** SendUnlocks)

DijkstraThread ==
    Writing("dijkstra", Reading("if_list", Writing("rtable", Writing("routers",
        Reads("routers") ** Reads("if_list") ** Writes("rtable")))))

SpingCleanup == Writing("sping", Writes("sping"))

StatsThread == Writing("stats", Writes("stats"))

----------------------------------------------------------------------------
\* Commands, of the command line or of a web page

\* iface_up and iface_down: the neighbours and our own entry in the list of
\* routers are changed before the lock of that list is taken.
UpDown == Writing("if_list", Writing("rtable",
              Reads("if_list")
              ** Maybe(Writes("if_list") ** Writes("rtable") ** Writes("routers")
                       ** Writing("routers", Propagate))))

InterfaceSet == Writing("if_list", Writes("if_list"))
\* Mutant: a route is added under the lock for readers.
MutantRouteCommand == Reading("rtable", Writes("rtable"))
\* cli_ip_route_add and cli_ip_route_del
RouteCommand == Writing("rtable", Writes("rtable"))
ArpCommand   == Writing("arp_cache", Writes("arp_cache"))
\* What the commands that show something read under the lock of their caller:
\* sprint_arp_cache, sprint_if_list, sprint_pwospf_if_list,
\* sprint_pwospf_router_list and sprint_rtable.
SprintArpCache   == Reads("arp_cache")
SprintIfList     == Reads("if_list")
SprintNeighbours == Reads("if_list")
SprintRouterList == Reads("routers")
SprintRtable     == Reads("rtable")

ShowArp        == Reading("arp_cache", SprintArpCache)
ShowInterfaces == Reading("if_list", SprintIfList)
ShowNeighbours == Reading("if_list", SprintNeighbours)
ShowRouters    == Writing("routers", SprintRouterList)
ShowRoutes     == Reading("rtable", SprintRtable)
\* sprint_hw_stats has a lock of its own.
ShowStats      == Writing("stats", Reads("stats"))
ShowPwospf     == ShowRouters ** ShowNeighbours
ShowCommand    == ShowArp \cup ShowInterfaces \cup ShowNeighbours \cup ShowRouters \cup ShowRoutes
                  \cup ShowStats \cup ShowPwospf
SendHello == HelloThread
SendLsu   == Writing("routers", Flood)

\* cli_sping: the request is sent without a lock, then the reply is waited
\* for.
Sping == IF Pings THEN Reads("if_list") ** SendIcmp ** Writing("sping", Writes("sping")) ELSE {}

Command == UpDown \cup InterfaceSet \cup RouteCommand \cup ArpCommand \cup ShowCommand
           \cup SendHello \cup SendLsu \cup Sping

\* service_request; process_client_request takes no lock of its own.
WebCommand == Reading("commands", Command)

----------------------------------------------------------------------------
PathsOf ==
    [input |-> Packets, transport |-> SendIpPacket \cup FindSrcIp, cli |-> Command,
     www |-> WebCommand, arp |-> ArpThread, hello |-> HelloThread, lsu |-> LsuThread,
     timeout |-> TimeoutThread, bcast |-> BroadcastThread, dijkstra |-> DijkstraThread,
     cleanup |-> SpingCleanup, stats |-> StatsThread]

Threads == DOMAIN PathsOf
Running == DOMAIN left

Init ==
    /\ \E S \in {X \in SUBSET Threads : Cardinality(X) = Crowd} \cup Larger :
         left = [t \in S |-> <<>>]
    /\ held = [t \in Running |-> {}]

Op(t) == Head(left[t])[1]
On(t) == Head(left[t])[2]

\* t cannot take the lock it wants as long as u, which may be t, holds it so.
StopsAt(t, u) ==
    \/ Op(t) = "rd" /\ <<"wr", On(t)>> \in held[u]
    \/ Op(t) = "wr" /\ ({"rd", "wr"} \X {On(t)}) \cap held[u] # {}

Start(t) == /\ left[t] = <<>>
            /\ \E p \in PathsOf[t] : left' = [left EXCEPT ![t] = p]
            /\ UNCHANGED held

Take(t) == /\ left[t] # <<>> /\ Op(t) \in {"rd", "wr"}
           /\ \A u \in Running : ~StopsAt(t, u)
           /\ held' = [held EXCEPT ![t] = @ \cup {Head(left[t])}]
           /\ left' = [left EXCEPT ![t] = Tail(@)]

Give(t) == /\ left[t] # <<>> /\ Op(t) = "un"
           /\ held' = [held EXCEPT ![t] = @ \ ({"rd", "wr"} \X {On(t)})]
           /\ left' = [left EXCEPT ![t] = Tail(@)]

Touch(t) == /\ left[t] # <<>> /\ Op(t) \in {"read", "write"}
            /\ left' = [left EXCEPT ![t] = Tail(@)]
            /\ UNCHANGED held

Next == \E t \in Running : Start(t) \/ Take(t) \/ Give(t) \/ Touch(t)

Spec == Init /\ [][Next]_vars

----------------------------------------------------------------------------
\* Properties

\* There is no set of threads each of which waits for a lock that one of
\* them holds.
NoDeadlock ==
    \A S \in (SUBSET Running) \ {{}} :
        \E t \in S : left[t] = <<>> \/ \A u \in S : ~StopsAt(t, u)

\* A thread at rest holds nothing.
NothingHeld == \A t \in Running : left[t] = <<>> => held[t] = {}

\* The locks of the router's threads are taken in an order that never closes a
\* circle, and every path of every handler gives back what it took.
LocksSound == NoDeadlock /\ NothingHeld

Conflict(t, u) ==
    /\ left[t] # <<>> /\ left[u] # <<>> /\ On(t) = On(u)
    /\ Op(t) = "write" /\ Op(u) \in {"read", "write"}

\* The routes, the ARP tables, the queue of LSUs, the pings and the counters
\* are never written by one thread while another is at them.
NoRaces ==
    \A t, u \in Running :
        t # u /\ Conflict(t, u) => On(t) \in {"if_list", "routers"}

\* It fails for the interfaces, which floods read without their lock, and
\* for the routers, which commands change without theirs.
NoRacesAtAll == \A t, u \in Running : t # u => ~Conflict(t, u)
=============================================================================
