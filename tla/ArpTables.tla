----------------------------- MODULE ArpTables -----------------------------
(***************************************************************************)
(* The ARP tables of scone, the router's control software: the cache of    *)
(* link addresses, its copy in the rows of the hardware table, and the     *)
(* queue of packets that wait for an address (or_arp.c, send_ip of         *)
(* or_main.c).                                                             *)
(*                                                                         *)
(* An action is one region under the cache and queue locks.  A reply is    *)
(* two of them, with the locks released in between (Reply, Flush), and so  *)
(* is a round of arp_thread (Expire, ProcessQueue).                        *)
(***************************************************************************)
EXTENDS Integers, FiniteSets, SequencesExt

CONSTANTS Hops,       \* addresses of next hops
          Macs,       \* link addresses
          Packets,    \* packets that send_ip is called with, each once
          Loud,       \* those an ICMP error may be sent for
          Back,       \* the next hop to a packet's source, or NoRoute
          NoRoute,    \* no route to the source
          Ttls,       \* lifetimes the command line may set, in seconds
          HwRows,     \* rows of the hardware table, 16 in the code
          MaxRequests \* requests per queue entry, 5 in the code

ASSUME ArpAssumption ==
    /\ Loud \subseteq Packets /\ NoRoute \notin Hops
    /\ Back \in [Packets -> Hops \cup {NoRoute}]
    /\ Ttls \subseteq Nat /\ Ttls # {} /\ IsFiniteSet(Ttls)
    /\ HwRows \in Nat \ {0} /\ MaxRequests \in Nat \ {0}

None == "none"
AgeCap == Max(Ttls) + 1                 \* older is no different
WaitCap == 2

\* A packet is a message handed to send_ip, or the host-unreachable error
\* made for one.
Messages == Packets \X {"data", "error"}

VARIABLES cache,      \* arp_cache, a list of entries
          queue,      \* arp_queue, a list of entries that hold packets
          hw,         \* the rows of the hardware table
          ttl,        \* arp_ttl
          pending,    \* the hop process_arp_reply is about to flush
          thread,     \* where arp_thread stands
          stuck,      \* send_queued_packets loops with the locks held
          sent,       \* history: how often each message went out
          freed,      \* history: how often it was freed unsent
          nuked       \* history: rows zeroed from the command line

vars == <<cache, queue, hw, ttl, pending, thread, stuck, sent, freed, nuked>>
tables == <<cache, hw, nuked>>
traffic == <<queue, sent, freed>>

----------------------------------------------------------------------------
\* Lists keyed by the address of the next hop.

Find(list, h) == SelectSeq(list, LAMBDA e : e.hop = h)
Has(list, h) == \E i \in 1..Len(list) : list[i].hop = h
Without(list, h) == SelectSeq(list, LAMBDA e : e.hop # h)
Replace(list, e) == [i \in 1..Len(list) |-> IF list[i].hop = e.hop THEN e ELSE list[i]]
Hop(list) == [i \in 1..Len(list) |-> list[i].hop]

NoRow == [hop |-> None, mac |-> None]

(***************************************************************************)
(* write_arp_cache_to_hw: static entries first, then the others as far as  *)
(* the rows go; the rest is zeroed.                                        *)
(***************************************************************************)
HwImage(c) ==
    LET ordered == SelectSeq(c, LAMBDA e : e.static) \o SelectSeq(c, LAMBDA e : ~e.static)
    IN [r \in 1..HwRows |-> IF r <= Len(ordered)
                               THEN [hop |-> ordered[r].hop, mac |-> ordered[r].mac]
                               ELSE NoRow]

\* Mutant: the rows are written before the cache is changed.
MutantCacheBecomes(c) == cache' = c /\ hw' = HwImage(cache) /\ nuked' = {}

\* A change of the cache that trigger_arp_cache_modified ends.
CacheBecomes(c) == cache' = c /\ hw' = HwImage(c) /\ nuked' = {}

\* Mutant: the entry is always new.
MutantUpdateArpCache(h, m, s) ==
    Append(cache, [hop |-> h, mac |-> m, static |-> s, age |-> 0])

\* update_arp_cache
UpdateArpCache(h, m, s) ==
    LET e == [hop |-> h, mac |-> m, static |-> s, age |-> 0]
    IN IF Has(cache, h) THEN Replace(cache, e) ELSE Append(cache, e)

----------------------------------------------------------------------------
\* The traffic as one value, for the loops over it.

Traffic == [queue |-> queue, sent |-> sent, freed |-> freed]
TrafficBecomes(t) == queue' = t.queue /\ sent' = t.sent /\ freed' = t.freed

(***************************************************************************)
(* arp_queue_add: a new entry starts with its first request sent; a packet *)
(* for an address already asked for joins the entry.                       *)
(***************************************************************************)
ArpQueueAdd(t, p, h) ==
    IF Has(t.queue, h)
      THEN LET e == Find(t.queue, h)[1]
           IN [t EXCEPT !.queue = Replace(@, [e EXCEPT !.packets = Append(@, p)])]
      ELSE [t EXCEPT !.queue = Append(@, [hop |-> h, requests |-> 1, wait |-> 0,
                                          packets |-> <<p>>])]

\* send_ip: out at once if the address is known.
SendIp(t, p, h) == IF Has(cache, h) THEN [t EXCEPT !.sent[p] = @ + 1]
                                    ELSE ArpQueueAdd(t, p, h)

Free(t, p) == [t EXCEPT !.freed[p] = @ + 1]

(***************************************************************************)
(* Giving up on one packet: host unreachable goes back to its source if it *)
(* is a packet errors are sent for and the source has a route; the packet  *)
(* is freed.                                                               *)
(***************************************************************************)
ReturnPacket(t, p) ==
    LET route == Back[p[1]]
        answered == p[2] = "data" /\ p[1] \in Loud /\ route \in Hops
    IN Free(IF answered THEN SendIp(t, <<p[1], "error">>, route) ELSE t, p)

(***************************************************************************)
(* An entry that is given up.  An error may go to the very address that is *)
(* given up and so join the list being walked; it is reached by the walk   *)
(* and freed, since no error is sent for an error.                         *)
(***************************************************************************)
GiveUp(t, e) ==
    LET walked == FoldLeft(ReturnPacket, t, e.packets)
        joined == SubSeq(Find(walked.queue, e.hop)[1].packets,
                         Len(e.packets) + 1, Len(Find(walked.queue, e.hop)[1].packets))
        all    == FoldLeft(Free, walked, joined)
    IN [all EXCEPT !.queue = Without(@, e.hop)]

\* Mutant: the number of requests is not counted up.
MutantProcessEntry(t, h) ==
    LET e == Find(t.queue, h)[1]
    IN IF e.wait <= 1 THEN t
       ELSE IF e.requests < MaxRequests
         THEN [t EXCEPT !.queue = Replace(@, [e EXCEPT !.wait = 0])]
         ELSE GiveUp(t, e)

\* One entry in process_arp_queue: ask again after more than a second, at
\* most MaxRequests times in all.
ProcessEntry(t, h) ==
    LET e == Find(t.queue, h)[1]
    IN IF e.wait <= 1 THEN t
       ELSE IF e.requests < MaxRequests
         THEN [t EXCEPT !.queue = Replace(@, [e EXCEPT !.requests = @ + 1, !.wait = 0])]
         ELSE GiveUp(t, e)

----------------------------------------------------------------------------
Init ==
    /\ cache = <<>> /\ queue = <<>>
    /\ hw = HwImage(<<>>)
    /\ ttl = Max(Ttls)
    /\ pending = None /\ thread = "expire" /\ stuck = FALSE
    /\ sent = [p \in Messages |-> 0]
    /\ freed = [p \in Messages |-> 0]
    /\ nuked = {}

Known(p) == sent[p] + freed[p] > 0 \/ \E i \in 1..Len(queue) : p \in ToSet(queue[i].packets)

(***************************************************************************)
(* process_ip_packet for a packet that is forwarded, or send_ip_packet for *)
(* one of the router's own, with a route to its destination, down to       *)
(* send_ip, under the cache's read lock and the queue's write lock.        *)
(***************************************************************************)
Send(p, h) ==
    /\ ~stuck /\ ~Known(<<p, "data">>)
    /\ TrafficBecomes(SendIp(Traffic, <<p, "data">>, h))
    /\ UNCHANGED <<tables, ttl, pending, thread, stuck>>

\* Mutant: the queued packets are not sent.
MutantReply(h, m) ==
    /\ ~stuck /\ pending = None
    /\ CacheBecomes(UpdateArpCache(h, m, FALSE))
    /\ UNCHANGED <<traffic, ttl, pending, thread, stuck>>

\* The first half of process_arp_reply, under the cache's write lock.
Reply(h, m) ==
    /\ ~stuck /\ pending = None
    /\ CacheBecomes(UpdateArpCache(h, m, FALSE))
    /\ pending' = h
    /\ UNCHANGED <<traffic, ttl, thread, stuck>>

\* Mutant: the entry stays in the queue after its packets were sent.
MutantFlush ==
    /\ ~stuck /\ pending # None
    /\ pending' = None
    /\ IF Has(queue, pending) /\ Has(cache, pending)
         THEN TrafficBecomes(FoldLeft(LAMBDA t, p : SendIp(t, p, pending), Traffic,
                                      Find(queue, pending)[1].packets))
         ELSE UNCHANGED traffic
    /\ UNCHANGED <<tables, ttl, thread, stuck>>

(***************************************************************************)
(* The second half: send_queued_packets calls send_ip for every packet.    *)
(* When the address has left the cache since the first half, send_ip puts  *)
(* the packet back at the end of the list being walked: a single packet    *)
(* goes down with its entry, two or more keep the loop going for ever.     *)
(***************************************************************************)
Flush ==
    /\ ~stuck /\ pending # None
    /\ pending' = None
    /\ \/ Has(queue, pending) /\ Has(cache, pending)
          /\ LET out == FoldLeft(LAMBDA t, p : SendIp(t, p, pending), Traffic,
                                 Find(queue, pending)[1].packets)
             IN TrafficBecomes([out EXCEPT !.queue = Without(@, pending)])
          /\ stuck' = stuck
       \/ Has(queue, pending) /\ ~Has(cache, pending)
          /\ LET looping == Len(Find(queue, pending)[1].packets) > 1
             IN /\ stuck' = looping
                /\ queue' = IF looping THEN queue ELSE Without(queue, pending)
          /\ UNCHANGED <<sent, freed>>
       \/ ~Has(queue, pending) /\ UNCHANGED <<traffic, stuck>>
    /\ UNCHANGED <<tables, ttl, thread>>

\* Mutant: the test for a static entry is the wrong way round.
MutantLives(e) == ~e.static \/ e.age <= ttl

\* An entry that expire_arp_cache keeps.
Lives(e) == e.static \/ e.age <= ttl

\* arp_thread, first region: expire_arp_cache.
Expire ==
    /\ ~stuck /\ thread = "expire"
    /\ thread' = "queue"
    /\ LET kept == SelectSeq(cache, Lives)
       IN IF kept # cache THEN CacheBecomes(kept) ELSE UNCHANGED tables
    /\ UNCHANGED <<traffic, ttl, pending, stuck>>

\* arp_thread, second region: process_arp_queue, then sleep(1).
ProcessQueue ==
    /\ ~stuck /\ thread = "queue"
    /\ thread' = "sleep"
    /\ TrafficBecomes(FoldLeft(ProcessEntry, Traffic, Hop(queue)))
    /\ UNCHANGED <<tables, ttl, pending, stuck>>

\* A second passes; arp_thread sleeps through at least one.
Tick ==
    /\ cache' = [i \in 1..Len(cache) |->
                   [cache[i] EXCEPT !.age = IF cache[i].static THEN 0 ELSE Min({@ + 1, AgeCap})]]
    /\ queue' = [i \in 1..Len(queue) |-> [queue[i] EXCEPT !.wait = Min({@ + 1, WaitCap})]]
    /\ thread' = IF thread = "sleep" THEN "expire" ELSE thread
    /\ UNCHANGED <<hw, nuked, ttl, pending, stuck, sent, freed>>

----------------------------------------------------------------------------
\* The command line: "ip arp add", "ip arp del", "nuke arp", "nuke hw arp"
\* and "ip arp set ttl".

CliAdd(h, m) ==
    /\ ~stuck /\ CacheBecomes(UpdateArpCache(h, m, TRUE))
    /\ UNCHANGED <<traffic, ttl, pending, thread, stuck>>

CliDel(h) ==
    /\ ~stuck /\ Has(cache, h)
    /\ CacheBecomes(Without(cache, h))
    /\ UNCHANGED <<traffic, ttl, pending, thread, stuck>>

CliNuke ==
    /\ ~stuck /\ CacheBecomes(<<>>)
    /\ UNCHANGED <<traffic, ttl, pending, thread, stuck>>

\* Without a lock, and the cache is not looked at.
CliNukeHw(r) ==
    /\ hw' = [hw EXCEPT ![r] = NoRow] /\ nuked' = nuked \cup {r}
    /\ UNCHANGED <<cache, traffic, ttl, pending, thread, stuck>>

CliSetTtl(s) ==
    /\ ttl' = s
    /\ UNCHANGED <<tables, traffic, pending, thread, stuck>>

Next ==
    \/ \E p \in Packets, h \in Hops : Send(p, h)
    \/ \E h \in Hops, m \in Macs : Reply(h, m) \/ CliAdd(h, m)
    \/ Flush \/ Expire \/ ProcessQueue \/ Tick
    \/ \E h \in Hops : CliDel(h)
    \/ CliNuke
    \/ \E r \in 1..HwRows : CliNukeHw(r)
    \/ \E s \in Ttls : CliSetTtl(s)

Spec == Init /\ [][Next]_vars

(***************************************************************************)
(* Time passes, and threads that no lock holds up do run: weak fairness of *)
(* Expire, ProcessQueue and Flush, said without ENABLED.  Each is the only *)
(* action that leaves its place, and is possible there unless stuck.       *)
(***************************************************************************)
FairSpec ==
    /\ Spec /\ WF_vars(Tick)
    /\ []<>(stuck \/ thread # "expire")
    /\ []<>(stuck \/ thread # "queue")
    /\ []<>(stuck \/ pending = None)

----------------------------------------------------------------------------
Distinct(list) == \A i, j \in 1..Len(list) : list[i].hop = list[j].hop => i = j

Entry == [hop : Hops, mac : Macs, static : BOOLEAN, age : 0..AgeCap]
Waiting == [hop : Hops, requests : 1..MaxRequests, wait : 0..WaitCap, packets : Seq(Messages)]

\* An address has at most one cache entry and at most one queue entry,
\* whatever replies, commands and expiry do (update_arp_cache and
\* arp_queue_add look before they add), and a queue entry is never empty.
TablesConsistent ==
    /\ cache \in Seq(Entry) /\ Distinct(cache)
    /\ queue \in Seq(Waiting) /\ Distinct(queue)
    /\ \A i \in 1..Len(queue) : queue[i].packets # <<>>
    /\ pending \in Hops \cup {None} /\ thread \in {"expire", "queue", "sleep"}

Count(p) == Cardinality({<<i, j>> \in (1..Len(queue)) \X (1..Cardinality(Messages)) :
                           j <= Len(queue[i].packets) /\ queue[i].packets[j] = p})
Copies(p) == sent[p] + freed[p] + Count(p)

\* No message is duplicated: it is in the queue once, was sent once or freed
\* once; and an error exists only for a packet that was given up
\* (process_arp_queue frees what it answers).
NoDuplicates ==
    \A p \in Packets : /\ Copies(<<p, "data">>) <= 1
                       /\ Copies(<<p, "error">>) <= freed[<<p, "data">>]

\* A packet waits for an address that is in the cache only while the reply
\* is about to flush it, or because the entry was put in from the command
\* line, which flushes nothing (process_arp_reply, cli_ip_arp_add).
KnownIsFlushed ==
    \A i \in 1..Len(cache) :
        Has(queue, cache[i].hop) => cache[i].static \/ pending = cache[i].hop \/ stuck

\* The hardware rows are the image of the cache after every update, expiry
\* and command, but for rows zeroed from the command line since.
HwMirrors == \A r \in 1..HwRows :
    hw[r] = IF r \in nuked THEN NoRow ELSE HwImage(cache)[r]

\* What the two lists and the hardware say of an address and of a packet agrees
\* after every reply, time-out and command.
TablesAgree == TablesConsistent /\ NoDuplicates /\ HwMirrors

\* No packet waits for ever: an entry is flushed or given up, whatever
\* joins it meanwhile (process_arp_queue).
QueueDrains == \A h \in Hops : Has(queue, h) ~> (~Has(queue, h) \/ stuck)

\* No dynamic entry outlives its time without a new reply (expire_arp_cache).
EntriesExpire ==
    \A h \in Hops : []<>(\/ stuck
                         \/ \A i \in 1..Len(cache) :
                              cache[i].hop = h => cache[i].static \/ cache[i].age = 0)

\* "arp queue add adds the packet to the queue, will free later"
\* (or_main.c:805): a packet handed to send_ip is queued until it is sent or
\* freed.
WillFreeLater ==
    [][\A p \in Packets : Copies(<<p, "data">>) = 1 => Copies(<<p, "data">>)' = 1]_vars
=============================================================================
