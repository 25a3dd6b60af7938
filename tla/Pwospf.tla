------------------------------- MODULE Pwospf -------------------------------
(***************************************************************************)
(* PWOSPF as scone runs it (or_pwospf.c, iface_up and iface_down of        *)
(* or_iface.c): several routers on shared subnets find each other by hello *)
(* packets, flood link state updates (LSUs) and keep a list of all         *)
(* routers with what each advertises.                                      *)
(*                                                                         *)
(* An action is one region under if_list_lock or pwospf_router_list_lock.  *)
(* The packet thread checks the interface, releases the lock and takes it  *)
(* again: a packet may pass the check just before the interface goes down  *)
(* (IfaceDown, then Late).  The thread that sends LSUs waits on a condition *)
(* that is signalled without its mutex (Grab, then SendLsus).              *)
(*                                                                         *)
(* Time is in rounds of the hello thread.  A packet arrives within the     *)
(* round it is sent in, in any order, or is lost.                          *)
(***************************************************************************)
EXTENDS RouterList, FiniteSets

CONSTANTS Routers,      \* router ids
          Strangers,    \* routers of another make, of which only packets are seen
          Subnets,
          Attached,     \* the routers with an interface on a subnet
          NbrTimeout,   \* three hello intervals, in rounds
          LsuInterval,  \* pwospf_lsu_interval, in rounds
          SeqSpan,      \* 2^16
          FirstSeq,     \* the updates sent so far by a router that is alone at first
          InitTtl,      \* 64
          MaxTime,      \* bound: rounds
          MaxFaults,    \* bound: lost packets, cut wires, crashes and commands
          LastFault,    \* bound: their last round; repairs end one later
          Commands,     \* what the operator may do
          Settling      \* rounds after which all is known again

ASSUME PwospfAssumption ==
    /\ NoRouter \notin Routers \cup Strangers /\ Routers \cap Strangers = {}
    /\ Attached \in [Subnets -> SUBSET Routers]
    /\ {NbrTimeout, LsuInterval, MaxTime, MaxFaults, LastFault, Settling} \subseteq Nat
    /\ SeqSpan \in Nat \ {0} /\ InitTtl \in Nat \ {0} /\ FirstSeq \in 0..SeqSpan-1
    /\ Commands \subseteq {"up", "down", "lsu on", "lsu off", "send hello", "send lsu"}

VARIABLES rtr,      \* the state of each router
          up,       \* the routers whose process runs
          wire,     \* the subnets whose cable is in order
          net,      \* packets on the wires
          todo,     \* the routers whose hello thread has yet to run in this round
          now,      \* rounds passed
          faults,   \* faults and commands used up
          quiet,    \* rounds since the last of them
          version   \* history: how often a router's own advertisements changed

vars == <<rtr, up, wire, net, todo, now, faults, quiet, version>>

Idle == [kind |-> "none"]
Mine(r) == {s \in Subnets : r \in Attached[s]}
Peers(r, s) == Attached[s] \ {r}
Rounds == LsuInterval + 1        \* an older flood is no different

\* What init_ospf and init_router_list set up.
InitRouter(r) ==
    [ active |-> Mine(r),           \* interfaces that are up
      nbr    |-> <<>>,              \* nbr_routers: <<subnet, id>> to rounds since its hello
      own    |-> SetToSeq({<<s, NoRouter>> : s \in Mine(r)}),
                                    \* our router's interface_list
      seq    |-> 0, flood |-> 0,    \* its seq and the rounds since last_update
      db     |-> <<>>,              \* the other routers of pwospf_router_list, in order
      links  |-> {},                \* the advertisements with is_active set
      lsuOn  |-> TRUE,              \* pwospf_lsu_broadcast
      queue  |-> {},                \* pwospf_lsu_queue
      batch  |-> {},                \* the queue pwospf_lsu_bcast_thread took
      bcast  |-> "waiting",         \* where that thread stands
      proc   |-> Idle ]             \* a packet past the check of its interface

Init ==
    /\ rtr = [r \in Routers |-> [InitRouter(r) EXCEPT !.seq = FirstSeq]]
    /\ up = Routers /\ wire = Subnets
    /\ net = {} /\ todo = Routers
    /\ now = 0 /\ faults = 0 /\ quiet = 0
    /\ version = [r \in Routers |-> [life |-> 0, change |-> 0]]

----------------------------------------------------------------------------
\* The list of routers: ours first, then the others as they were heard of.

Entries(r, st) == <<[rid |-> r, advs |-> Range(st.own)]>>
                      \o [i \in 1..Len(st.db) |-> [rid |-> st.db[i].rid, advs |-> st.db[i].advs]]
Known(st) == {e.rid : e \in Range(st.db)}
Entry(st, q) == CHOOSE e \in Range(st.db) : e.rid = q

\* broadcast_pwospf_lsu_packet: a copy for every neighbour on an active
\* interface, except the one it came from.
Enqueue(st, r, lsu, except) ==
    [st EXCEPT !.queue = @ \cup
        {[kind |-> "lsu", from |-> r, sub |-> n[1], to |-> n[2], lsu |-> lsu] :
            n \in {n \in DOMAIN st.nbr : n[1] \in st.active /\ n # except}}]

\* start_lsu_bcast_flood with construct_pwospf_lsu_packet: nothing is sent,
\* and last_update not renewed, while broadcasting is off.
Flood(st, r, ver) ==
    LET lsu == [rid |-> r, seq |-> st.seq, advs |-> Range(st.own), ttl |-> InitTtl, ver |-> ver]
    IN IF ~st.lsuOn THEN st
       ELSE [Enqueue(st, r, lsu, <<>>) EXCEPT !.seq = (@ + 1) % SeqSpan, !.flood = 0]

\* propagate_pwospf_changes
Propagate(st, r, ver) == Flood([st EXCEPT !.links = Links(Entries(r, st))], r, ver)

\* pthread_cond_signal on pwospf_lsu_bcast_cond: lost unless the thread waits.
Signal(st) == [st EXCEPT !.bcast = IF @ = "waiting" THEN "woken" ELSE @]

\* A change of our own advertisements, or of what we know, and its flood.
Changed(r, st, ver) == Signal(Propagate(st, r, ver))

----------------------------------------------------------------------------
TimedOut(st) == {n \in DOMAIN st.nbr : n[1] \in st.active /\ st.nbr[n] > NbrTimeout}
Without(f, S) == [x \in DOMAIN f \ S |-> f[x]]

Next1(v) == [v EXCEPT !.change = @ + 1]
RouterBecomes(r, st) == rtr' = [rtr EXCEPT ![r] = st]
Renew(r) == version' = [version EXCEPT ![r] = Next1(@)]

----------------------------------------------------------------------------
\* The threads.

\* broadcast_pwospf_hello_packet
HelloRound(r) ==
    LET st   == rtr[r]
        late == TimedOut(st)
        gone == [st EXCEPT !.nbr = Without(@, late),
                           !.own = FoldLeft(Withdraw, @, SetToSeq(late))]
    IN /\ net' = net \cup {[kind |-> "hello", from |-> r, sub |-> s, to |-> q] :
                              <<s, q>> \in {x \in st.active \X Routers : x[2] \in Peers(r, x[1])}}
       /\ IF late = {} THEN UNCHANGED <<rtr, version>>
          ELSE RouterBecomes(r, Changed(r, gone, Next1(version[r]))) /\ Renew(r)

\* pwospf_hello_thread
HelloThread(r) ==
    /\ now < MaxTime /\ r \in up \cap todo /\ todo' = todo \ {r} /\ HelloRound(r)
    /\ UNCHANGED <<up, wire, now, faults, quiet>>

\* pwospf_lsu_thread polls several times a round; so does the next.
LsuDue(r) == now < MaxTime /\ r \in up /\ todo \cap up = {} /\ rtr[r].flood > LsuInterval

LsuThread(r) ==
    /\ LsuDue(r)
    /\ RouterBecomes(r, Signal(Flood(rtr[r], r, version[r])))
    /\ UNCHANGED <<up, wire, net, todo, now, faults, quiet, version>>

\* Mutant: a router is kept for ever.
MutantAlive(st) == st.db

\* The routers heard of within three intervals.
Alive(st) == SelectSeq(st.db, LAMBDA e : e.age <= 3 * LsuInterval)
TimeoutDue(r) == now < MaxTime /\ r \in up /\ todo \cap up = {} /\ Alive(rtr[r]) # rtr[r].db

\* Mutant: a router is dropped without telling anybody.
MutantTimeoutThread(r) ==
    /\ TimeoutDue(r)
    /\ RouterBecomes(r, [rtr[r] EXCEPT !.db = Alive(rtr[r])])
    /\ UNCHANGED <<up, wire, net, todo, now, faults, quiet, version>>

\* pwospf_lsu_timeout_thread
TimeoutThread(r) ==
    /\ TimeoutDue(r)
    /\ RouterBecomes(r, Changed(r, [rtr[r] EXCEPT !.db = Alive(rtr[r])], version[r]))
    /\ UNCHANGED <<up, wire, net, todo, now, faults, quiet, version>>

\* pwospf_lsu_bcast_thread, woken: it takes the queue ...
Grab(r) ==
    /\ r \in up /\ rtr[r].bcast = "woken"
    /\ RouterBecomes(r, [rtr[r] EXCEPT !.bcast = "sending", !.batch = rtr[r].queue, !.queue = {}])
    /\ UNCHANGED <<up, wire, net, todo, now, faults, quiet, version>>

\* ... and sends it; a packet for a subnet that has no active interface any
\* more has no route.
SendLsus(r) ==
    /\ r \in up /\ rtr[r].bcast = "sending"
    /\ net' = net \cup {m \in rtr[r].batch : m.sub \in rtr[r].active /\ m.to \in Routers}
    /\ RouterBecomes(r, [rtr[r] EXCEPT !.bcast = "waiting", !.batch = {}])
    /\ UNCHANGED <<up, wire, todo, now, faults, quiet, version>>

----------------------------------------------------------------------------
\* Packets.

(***************************************************************************)
(* process_pwospf_hello_packet, for routers that agree on mask and         *)
(* interval: the first hello of a neighbour changes what we advertise.     *)
(***************************************************************************)
ProcessHello(r, m) ==
    LET n == <<m.sub, m.from>>
        heard == [rtr[r] EXCEPT !.proc = Idle, !.nbr = (n :> 0) @@ @]
    IN IF n \in DOMAIN rtr[r].nbr THEN RouterBecomes(r, heard) /\ UNCHANGED version
       ELSE /\ Renew(r)
            /\ RouterBecomes(r, Changed(r, [heard EXCEPT !.own = Advertise(@, n)],
                                        Next1(version[r])))

\* Mutant: any sequence number that differs is accepted.
MutantNewer(e, lsu) == lsu.seq # e.seq

\* Is an update newer than what is stored?
Newer(e, lsu) == lsu.seq # e.seq /\ lsu.seq > e.seq

\* add_new_router_neighbor
AddNew(db, e) == Append(db, e)

\* populate_pwospf_router_interface_list: the advertisements of a known
\* router become those of the update; did they change?
Populate(db, e) == [i \in 1..Len(db) |-> IF db[i].rid = e.rid THEN e ELSE db[i]]
Differs(st, lsu) == Entry(st, lsu.rid).advs # lsu.advs

(***************************************************************************)
(* process_pwospf_lsu_packet: our own update is dropped, a newer one       *)
(* stored and passed on, and only a change of its contents makes us flood  *)
(* our own.                                                                *)
(***************************************************************************)
ProcessLsu(r, m) ==
    LET lsu == m.lsu
        st == [rtr[r] EXCEPT !.proc = Idle]
        new == lsu.rid \notin Known(st)
        accepted == new \/ Newer(Entry(st, lsu.rid), lsu)
        changed == new \/ Differs(st, lsu)
        e == [rid |-> lsu.rid, seq |-> lsu.seq, advs |-> lsu.advs, age |-> 0, ver |-> lsu.ver]
        stored == [st EXCEPT !.db = IF new THEN AddNew(@, e) ELSE Populate(@, e)]
        live == lsu.ttl - 1 > 0
        passed == IF live THEN Enqueue(stored, r, [lsu EXCEPT !.ttl = @ - 1], <<m.sub, m.from>>)
                          ELSE stored
    IN /\ RouterBecomes(r, IF lsu.rid = r \/ ~accepted THEN st
                           ELSE IF changed THEN Changed(r, passed, version[r])
                           ELSE IF live THEN Signal(passed) ELSE passed)
       /\ UNCHANGED version

Process(r, m) == IF m.kind = "hello" THEN ProcessHello(r, m) ELSE ProcessLsu(r, m)

\* process_packet: a packet for an interface that is down is dropped.
Receive(m) ==
    LET st == rtr[m.to]
        ok == m.to \in up /\ m.sub \in wire /\ m.sub \in st.active
    IN /\ m \in net /\ net' = net \ {m}
       /\ st.proc = Idle
       /\ IF ok THEN Process(m.to, m) ELSE UNCHANGED <<rtr, version>>
       /\ UNCHANGED <<up, wire, todo, now, faults, quiet>>

\* A packet that had passed the check when the interface went down.
Late(r) ==
    /\ r \in up /\ rtr[r].proc # Idle /\ Process(r, rtr[r].proc)
    /\ UNCHANGED <<up, wire, net, todo, now, faults, quiet>>

----------------------------------------------------------------------------
\* The command line.  A fault uses up one of a few; a repair undoes one.

Fault == faults < MaxFaults /\ now <= LastFault /\ faults' = faults + 1 /\ quiet' = 0
Repair == now <= LastFault + 1 /\ quiet' = 0 /\ UNCHANGED faults

HasNbr(st, s) == \E n \in DOMAIN st.nbr : n[1] = s
Die(r) == up' = up \ {r} /\ RouterBecomes(r, InitRouter(r)) /\ UNCHANGED version

(***************************************************************************)
(* iface_down.  Its loop over the neighbours never leaves the node it has  *)
(* just freed, so that with a neighbour present the process aborts.        *)
(***************************************************************************)
IfaceDown(r, s, m) ==
    LET st == rtr[r]
        bare == [st EXCEPT !.active = @ \ {s}, !.own = WithoutSubnet(@, s),
                           !.proc = m]
    IN /\ "down" \in Commands /\ Fault
       /\ r \in up /\ s \in st.active /\ st.proc = Idle
       /\ m # Idle => m.to = r /\ m.sub = s /\ s \in wire
       /\ IF HasNbr(st, s) THEN Die(r)
          ELSE /\ RouterBecomes(r, Changed(r, bare, Next1(version[r])))
               /\ Renew(r) /\ UNCHANGED up
       /\ net' = net \ {m}
       /\ UNCHANGED <<wire, todo, now>>

\* iface_up, with the same loop.
IfaceUp(r, s) ==
    LET st == rtr[r]
        lit == [st EXCEPT !.active = @ \cup {s}, !.own = WithSubnet(@, s)]
    IN /\ "up" \in Commands /\ Repair
       /\ r \in up /\ s \in Mine(r) \ st.active
       /\ IF HasNbr(st, s) THEN Die(r)
          ELSE /\ RouterBecomes(r, Changed(r, lit, Next1(version[r])))
               /\ Renew(r) /\ UNCHANGED up
       /\ UNCHANGED <<wire, net, todo, now>>

\* cli_pwospf_set_lsu_broadcast
SetLsuBroadcast(r, on) ==
    /\ \/ on /\ "lsu on" \in Commands /\ Repair
       \/ ~on /\ "lsu off" \in Commands /\ Fault
    /\ r \in up /\ rtr[r].lsuOn # on
    /\ RouterBecomes(r, [rtr[r] EXCEPT !.lsuOn = on])
    /\ UNCHANGED <<up, wire, net, todo, now, version>>

\* cli_pwospf_send_hello
SendHello(r) ==
    /\ "send hello" \in Commands /\ Fault /\ r \in up /\ HelloRound(r)
    /\ UNCHANGED <<up, wire, todo, now>>

\* cli_pwospf_send_lsu
SendLsu(r) ==
    /\ "send lsu" \in Commands /\ Fault /\ r \in up
    /\ RouterBecomes(r, Signal(Flood(rtr[r], r, version[r])))
    /\ UNCHANGED <<up, wire, net, todo, now, version>>

----------------------------------------------------------------------------
\* The surroundings: lost packets, cables, crashes, and time.

Lose(m) ==
    /\ m \in net /\ net' = net \ {m} /\ Fault
    /\ UNCHANGED <<rtr, up, wire, todo, now, version>>

Cut(s) ==
    /\ s \in wire /\ wire' = wire \ {s} /\ Fault
    /\ UNCHANGED <<rtr, up, net, todo, now, version>>

Mend(s) ==
    /\ s \notin wire /\ wire' = wire \cup {s} /\ Repair
    /\ UNCHANGED <<rtr, up, net, todo, now, version>>

\* A hello or an update from a router of which nothing else is heard.
StrangerHello(q, r, s) ==
    /\ r \in up /\ s \in Mine(r) /\ Fault
    /\ net' = net \cup {[kind |-> "hello", from |-> q, sub |-> s, to |-> r]}
    /\ UNCHANGED <<rtr, up, wire, todo, now, version>>

StrangerLsu(q, r, s) ==
    /\ r \in up /\ s \in Mine(r) /\ Fault
    /\ \E n \in 1..2 :
         net' = net \cup {[kind |-> "lsu", from |-> q, sub |-> s, to |-> r,
                           lsu |-> [rid |-> q, seq |-> n, advs |-> {<<s, r>>}, ttl |-> n,
                                    ver |-> [life |-> 0, change |-> n]]]}
    /\ UNCHANGED <<rtr, up, wire, todo, now, version>>

Crash(r) ==
    /\ r \in up /\ Die(r) /\ Fault
    /\ UNCHANGED <<wire, net, todo, now>>

\* A new process knows nothing, its sequence number included.
Restart(r) ==
    /\ r \notin up /\ up' = up \cup {r} /\ Repair
    /\ version' = [version EXCEPT ![r] = [life |-> @.life + 1, change |-> 0]]
    /\ UNCHANGED <<rtr, wire, net, todo, now>>

Older(st) ==
    [st EXCEPT !.nbr = [n \in DOMAIN @ |-> IF n[1] \in st.active THEN @[n] + 1 ELSE @[n]],
               !.db = [i \in 1..Len(@) |-> [@[i] EXCEPT !.age = @ + 1]],
               !.flood = IF @ < Rounds THEN @ + 1 ELSE @]

\* The next round, once all the work of this one is done.  Updates still in a
\* queue are those whose signal was lost.
Tick ==
    /\ now < MaxTime
    /\ net = {} /\ todo \cap up = {}
    /\ \A r \in up : /\ rtr[r].bcast = "waiting" /\ rtr[r].proc = Idle
                      /\ ~(LsuDue(r) /\ rtr[r].lsuOn) /\ ~TimeoutDue(r)
    /\ now' = now + 1
    /\ todo' = Routers
    /\ rtr' = [r \in Routers |-> IF r \in up THEN Older(rtr[r]) ELSE rtr[r]]
    /\ quiet' = IF \E r \in up : rtr[r].queue # {} THEN 0
                ELSE IF quiet <= Settling THEN quiet + 1 ELSE quiet
    /\ UNCHANGED <<up, wire, net, faults, version>>

Next ==
    \/ \E r \in Routers : \/ HelloThread(r) \/ LsuThread(r) \/ TimeoutThread(r)
                          \/ Grab(r) \/ SendLsus(r)
                          \/ Late(r)
                          \/ SendHello(r) \/ SendLsu(r)
                          \/ \E on \in BOOLEAN : SetLsuBroadcast(r, on)
                          \/ \E s \in Subnets : 
                               IfaceUp(r, s) \/ \E m \in net \cup {Idle} : IfaceDown(r, s, m)
                          \/ Crash(r) \/ Restart(r)
    \/ \E m \in net : Receive(m) \/ Lose(m)
    \/ \E s \in Subnets : \/ Cut(s) \/ Mend(s)
                          \/ \E q \in Strangers, r \in Routers :
                               StrangerHello(q, r, s) \/ StrangerLsu(q, r, s)
    \/ Tick

Spec == Init /\ [][Next]_vars

----------------------------------------------------------------------------
\* Properties

(***************************************************************************)
(* What we advertise is what hello packets told us.  On a subnet there is  *)
(* one advertisement for each neighbour, one blank one if there is none    *)
(* and the interface is up, and nothing else.  The two lists are kept by   *)
(* different handlers (hello, timeout, interface up and down).             *)
(***************************************************************************)
AdvertsMatchNeighbours ==
    \A r \in up : \A s \in Mine(r) :
        LET st   == rtr[r]
            here == {n \in DOMAIN st.nbr : n[1] = s}
            advs == OnSubnet(st.own, s)
        IN IF here = {} THEN advs = IF s \in st.active THEN <<<<s, NoRouter>>>> ELSE <<>>
           ELSE Range(advs) = here /\ Len(advs) = Cardinality(here)

\* The is_active flags Dijkstra goes by are those of the present list: every
\* handler that changes an advertisement has them determined again.
FlagsCurrent == \A r \in up : rtr[r].links = Links(Entries(r, rtr[r]))

\* The lists that the handlers keep apart from each other agree.
ListsAgree == AdvertsMatchNeighbours /\ FlagsCurrent

\* Every process runs, every cable is plugged and every interface is on.
Settled == up = Routers /\ wire = Subnets
               /\ \A r \in Routers : rtr[r].active = Mine(r) /\ rtr[r].lsuOn

(***************************************************************************)
(* Once packets have not been lost, nor a signal for them, nor anything    *)
(* else disturbed, for Settling rounds, every router lists all others with *)
(* what they advertise at present, from an update of the process that runs *)
(* now, even after a restart that began at sequence number 0.              *)
(***************************************************************************)
Converges ==
    Settled /\ quiet > Settling =>
        \A r, q \in Routers : r # q =>
            /\ q \in Known(rtr[r])
            /\ Entry(rtr[r], q).advs = Range(rtr[q].own)
            /\ Entry(rtr[r], q).ver.life = version[q].life

\* What a router knows of another is never replaced by something that the
\* same process sent earlier, however updates overtake each other.
NeverOlder ==
    [][\A r, q \in Routers :
         q \in Known(rtr[r]) /\ q \in Known(rtr'[r]) =>
            LET old == Entry(rtr[r], q).ver  new == Entry(rtr'[r], q).ver
            IN new.life = old.life => new.change >= old.change]_vars

\* An interface that was brought down has no neighbours and is not advertised.
DownIsForgotten ==
    \A r \in up : \A s \in Mine(r) \ rtr[r].active :
        OnSubnet(rtr[r].own, s) = <<>> /\ \A n \in DOMAIN rtr[r].nbr : n[1] # s
=============================================================================
