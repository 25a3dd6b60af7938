------------------------ MODULE RouterProofs ------------------------
(***************************************************************************)
(* The routing side of scone: the locks, the TCAM and the hardware tables. *)
(*                                                                         *)
(* The locks, for any number of threads at a time.                         *)
(* TLC runs them in pairs.  Here every path of every handler is shown to   *)
(* take its locks in one order, Rank, to touch what a lock guards only     *)
(* while it holds that lock, and to end with nothing held.  From that it   *)
(* follows, whatever the threads do at the same time, that no set of them  *)
(* waits in a circle and that no guarded data is written while another     *)
(* thread is at it.                                                        *)
(***************************************************************************)
EXTENDS MCRouter, CommonLemmas, FiniteSetTheorems

\* The order in which the locks are taken.
Rank == [commands |-> 1, lsu_bcast |-> 2, dijkstra |-> 3, arp_cache |-> 4, arp_queue |-> 5,
         if_list |-> 6, rtable |-> 7, routers |-> 8, lsu_queue |-> 9, nat |-> 10, sping |-> 11,
         stats |-> 12, write |-> 13, log |-> 14]
Locks == DOMAIN Rank

\* What is touched without its lock as well (see NoRacesAtAll).
Open == {"if_list", "routers"}

LEMMA Ranks ==
    /\ \A l \in Locks : Rank[l] \in 1 .. 14
    /\ Rank["commands"] = 1 /\ Rank["lsu_bcast"] = 2 /\ Rank["dijkstra"] = 3
    /\ Rank["arp_cache"] = 4 /\ Rank["arp_queue"] = 5 /\ Rank["if_list"] = 6
    /\ Rank["rtable"] = 7 /\ Rank["routers"] = 8 /\ Rank["lsu_queue"] = 9
    /\ Rank["nat"] = 10 /\ Rank["sping"] = 11 /\ Rank["stats"] = 12
    /\ Rank["write"] = 13 /\ Rank["log"] = 14
    /\ Locks = {"commands", "lsu_bcast", "dijkstra", "arp_cache", "arp_queue", "if_list",
                "rtable", "routers", "lsu_queue", "nat", "sping", "stats", "write", "log"}
  BY DEF Rank, Locks

Modes == {"rd", "wr"}
Holding == Modes \X Locks
LockStep == {"rd", "wr", "un", "read", "write"} \X Locks

Below(h, r) == \A x \in h : Rank[x[2]] < r
Holds(h, l) == <<"rd", l>> \in h \/ <<"wr", l>> \in h

\* A step of a path as it should be, from the locks h to the locks k.
LockSound(e, h, k) ==
    \/ e[1] \in Modes /\ Below(h, Rank[e[2]]) /\ k = h \cup {e}
    \/ e[1] = "un" /\ k = h \ (Modes \X {e[2]})
    \/ e[1] = "read" /\ (e[2] \in Open \/ Holds(h, e[2])) /\ k = h
    \/ e[1] = "write" /\ (e[2] \in Open \/ <<"wr", e[2]>> \in h) /\ k = h

LockSteps == {x \in LockStep \X (SUBSET Holding) \X (SUBSET Holding) : LockSound(x[1], x[2], x[3])}

\* The path p leads from h to k by such steps.
Runs(p, h, k) == Trace(LockSteps, SUBSET Holding, p, h, k)

\* Every path of P does.
Leads(P, h, k) ==
    /\ h \in SUBSET Holding /\ k \in SUBSET Holding
    /\ \A p \in P : p \in Seq(LockStep) /\ Runs(p, h, k)
-----------------------------------------------------------------------------
(* Paths                                                                   *)

LEMMA RunsNothing ==
    ASSUME NEW h \in SUBSET Holding
    PROVE  Runs(<<>>, h, h)
  BY TraceNothing DEF Runs

LEMMA RunsOne ==
    ASSUME NEW h \in SUBSET Holding, NEW k \in SUBSET Holding, NEW e \in LockStep, LockSound(e, h, k)
    PROVE  Runs(<<e>>, h, k)
<1>1. <<e, h, k>> \in LockSteps
  BY DEF LockSteps
<1> QED BY <1>1, TraceOne DEF Runs

LEMMA RunsJoin ==
    ASSUME NEW p \in Seq(LockStep), NEW q \in Seq(LockStep), NEW h, NEW j, NEW k,
           Runs(p, h, j), Runs(q, j, k)
    PROVE  Runs(p \o q, h, k)
  BY TraceJoin DEF Runs

\* The first step of a path, and what is left of it.
LEMMA RunsStep ==
    ASSUME NEW p \in Seq(LockStep), p # <<>>, NEW h, NEW k, Runs(p, h, k)
    PROVE  /\ Head(p) \in LockStep /\ Tail(p) \in Seq(LockStep)
           /\ \E j \in SUBSET Holding : LockSound(Head(p), h, j) /\ Runs(Tail(p), j, k)
<1>1. Head(p) \in LockStep /\ Tail(p) \in Seq(LockStep)
  OBVIOUS
<1>2. PICK j \in SUBSET Holding : <<Head(p), h, j>> \in LockSteps /\ Runs(Tail(p), j, k)
  BY TraceStep DEF Runs
<1>3. LockSound(Head(p), h, j)
  BY <1>2 DEF LockSteps
<1> QED BY <1>1, <1>2, <1>3

LEMMA RunsEnd ==
    ASSUME NEW h, NEW k, Runs(<<>>, h, k)
    PROVE  h = k
  BY TraceEnd DEF Runs
-----------------------------------------------------------------------------
(* Sets of paths                                                           *)

LEMMA LeadsNothing ==
    ASSUME NEW h \in SUBSET Holding
    PROVE  Leads(Nothing, h, h)
  BY RunsNothing DEF Leads, Nothing

LEMMA InJoin ==
    ASSUME NEW P, NEW Q
    PROVE  \A x : x \in P ** Q <=> \E p \in P : \E q \in Q : x = p \o q
  BY DEF **

LEMMA InJoinTwice ==
    ASSUME NEW P, NEW Q, NEW R
    PROVE  \A x \in (P ** Q) ** R : \E p \in P : \E q \in Q : \E r \in R : x = (p \o q) \o r
<1>1. \A y \in P ** Q : \E p \in P : \E q \in Q : y = p \o q
  BY InJoin
<1>2. \A x \in (P ** Q) ** R : \E y \in P ** Q : \E r \in R : x = y \o r
  BY InJoin
<1>3. ASSUME NEW x \in (P ** Q) ** R
      PROVE  \E p \in P : \E q \in Q : \E r \in R : x = (p \o q) \o r
  <2>1. PICK y \in P ** Q : \E r \in R : x = y \o r
    BY <1>2
  <2>2. PICK r \in R : x = y \o r
    BY <2>1
  <2>3. PICK p \in P : \E q \in Q : y = p \o q
    BY <1>1
  <2>4. PICK q \in Q : y = p \o q
    BY <2>3
  <2> QED BY <2>2, <2>4
<1> QED BY <1>3

LEMMA LeadsJoin ==
    ASSUME NEW P, NEW Q, NEW h, NEW j, NEW k, Leads(P, h, j), Leads(Q, j, k)
    PROVE  Leads(P ** Q, h, k)
<1>1. ASSUME NEW p \in P, NEW q \in Q PROVE p \o q \in Seq(LockStep) /\ Runs(p \o q, h, k)
  <2>1. p \in Seq(LockStep) /\ q \in Seq(LockStep) /\ Runs(p, h, j) /\ Runs(q, j, k)
    BY DEF Leads
  <2>2. Runs(p \o q, h, k)
    BY <2>1, RunsJoin, Zenon
  <2> QED BY <2>1, <2>2
<1>2. ASSUME NEW x \in P ** Q PROVE x \in Seq(LockStep) /\ Runs(x, h, k)
  <2>1. PICK p \in P : \E q \in Q : x = p \o q
    BY InJoin
  <2>2. PICK q \in Q : x = p \o q
    BY <2>1
  <2> QED BY <1>1, <2>2
<1> QED BY <1>2 DEF Leads

LEMMA LeadsPaths ==
    ASSUME NEW P, NEW h, NEW k, Leads(P, h, k)
    PROVE  P \subseteq Seq(LockStep) /\ P \cup Nothing \subseteq Seq(LockStep)
<1>1. Nothing \subseteq Seq(LockStep)
  BY DEF Nothing
<1>2. P \subseteq Seq(LockStep)
  BY DEF Leads
<1> QED BY <1>1, <1>2

LEMMA LeadsEither ==
    ASSUME NEW P, NEW Q, NEW h, NEW k, Leads(P, h, k), Leads(Q, h, k)
    PROVE  Leads(P \cup Q, h, k)
  BY DEF Leads

LEMMA LeadsMaybe ==
    ASSUME NEW P, NEW h, Leads(P, h, h)
    PROVE  Leads(Maybe(P), h, h)
  BY LeadsNothing DEF Leads, Maybe

LEMMA LeadsNone ==
    ASSUME NEW h \in SUBSET Holding, NEW k \in SUBSET Holding
    PROVE  Leads({}, h, k)
  BY DEF Leads

LEMMA LeadsOne ==
    ASSUME NEW e \in LockStep, NEW h \in SUBSET Holding, NEW k \in SUBSET Holding, LockSound(e, h, k)
    PROVE  Leads({<<e>>}, h, k)
<1>1. <<e>> \in Seq(LockStep) /\ Runs(<<e>>, h, k)
  BY RunsOne
<1> QED BY <1>1 DEF Leads

\* A branch at which paths part and after which they do the same.
LEMMA LeadsFork ==
    ASSUME NEW P, NEW Q, NEW R, NEW h, NEW k, Leads(P ** R, h, k), Leads(Q ** R, h, k)
    PROVE  Leads((P \cup Q) ** R, h, k)
<1>1. (P \cup Q) ** R = (P ** R) \cup (Q ** R)
  <2>1. \A x : x \in (P \cup Q) ** R <=> \E p \in P \cup Q : \E q \in R : x = p \o q
    BY InJoin
  <2>2. \A x : x \in P ** R <=> \E p \in P : \E q \in R : x = p \o q
    BY InJoin
  <2>3. \A x : x \in Q ** R <=> \E p \in Q : \E q \in R : x = p \o q
    BY InJoin
  <2> QED BY <2>1, <2>2, <2>3, Zenon
<1> QED BY <1>1, LeadsEither

LEMMA LeadsNothingFirst ==
    ASSUME NEW R, NEW h, NEW k, Leads(R, h, k)
    PROVE  Leads(Nothing ** R, h, k)
  BY LeadsNothing, LeadsJoin DEF Leads

LEMMA LeadsAfter ==
    ASSUME NEW P, NEW Q, NEW R, NEW h, NEW j, NEW k, Leads(P, h, j), Leads(Q ** R, j, k),
           Q \subseteq Seq(LockStep), R \subseteq Seq(LockStep)
    PROVE  Leads((P ** Q) ** R, h, k)
<1>1. ASSUME NEW p \in P, NEW q \in Q, NEW r \in R
      PROVE  (p \o q) \o r \in Seq(LockStep) /\ Runs((p \o q) \o r, h, k)
  <2>1. p \in Seq(LockStep) /\ q \in Seq(LockStep) /\ r \in Seq(LockStep) /\ Runs(p, h, j)
    BY DEF Leads
  <2>2. q \o r \in Seq(LockStep) /\ Runs(q \o r, j, k)
    <3>1. q \o r \in Q ** R
      BY InJoin
    <3> QED BY <3>1 DEF Leads
  <2>3. Runs(p \o (q \o r), h, k)
    BY <2>1, <2>2, RunsJoin, Zenon
  <2>4. (p \o q) \o r = p \o (q \o r)
    BY <2>1
  <2> QED BY <2>1, <2>2, <2>3, <2>4
<1>2. ASSUME NEW x \in (P ** Q) ** R PROVE x \in Seq(LockStep) /\ Runs(x, h, k)
  <2>1. PICK p \in P : \E q \in Q : \E r \in R : x = (p \o q) \o r
    BY InJoinTwice
  <2>2. PICK q \in Q : \E r \in R : x = (p \o q) \o r
    BY <2>1
  <2>3. PICK r \in R : x = (p \o q) \o r
    BY <2>2
  <2> QED BY <1>1, <2>3
<1> QED BY <1>2 DEF Leads
-----------------------------------------------------------------------------
(* Locks                                                                   *)

\* With one more lock.
LEMMA TakenBelow ==
    ASSUME NEW h \in SUBSET Holding, NEW m \in Modes, NEW l \in Locks, NEW r \in Nat,
           NEW q \in Nat, Below(h, q), q = Rank[l], q < r
    PROVE  h \cup {<<m, l>>} \in SUBSET Holding /\ Below(h \cup {<<m, l>>}, r)
<1>1. \A x \in h : Rank[x[2]] \in Int /\ Rank[x[2]] < Rank[l]
  BY Ranks DEF Below, Holding
<1>2. Rank[l] \in Int
  BY Ranks
<1> QED BY <1>1, <1>2 DEF Below, Holding

\* What is below a rank is below a higher one.
LEMMA StillBelow ==
    ASSUME NEW h \in SUBSET Holding, NEW q \in Nat, NEW r \in Nat, Below(h, q), q <= r
    PROVE  Below(h, r)
<1>1. \A x \in h : Rank[x[2]] \in Int
  BY Ranks DEF Holding
<1> QED BY <1>1 DEF Below

LEMMA LeadsRd ==
    ASSUME NEW h \in SUBSET Holding, NEW l \in Locks, Below(h, Rank[l])
    PROVE  Leads(Rd(l), h, h \cup {<<"rd", l>>})
<1>1. h \cup {<<"rd", l>>} \in SUBSET Holding /\ <<"rd", l>> \in LockStep
  BY DEF Holding, Modes, LockStep
<1>2. LockSound(<<"rd", l>>, h, h \cup {<<"rd", l>>})
  BY DEF LockSound, Modes
<1> QED BY <1>1, <1>2, LeadsOne DEF Rd

LEMMA LeadsWr ==
    ASSUME NEW h \in SUBSET Holding, NEW l \in Locks, Below(h, Rank[l])
    PROVE  Leads(Wr(l), h, h \cup {<<"wr", l>>})
<1>1. h \cup {<<"wr", l>>} \in SUBSET Holding /\ <<"wr", l>> \in LockStep
  BY DEF Holding, Modes, LockStep
<1>2. LockSound(<<"wr", l>>, h, h \cup {<<"wr", l>>})
  BY DEF LockSound, Modes
<1> QED BY <1>1, <1>2, LeadsOne DEF Wr

\* The lock that was taken last is given back.
LEMMA LeadsUn ==
    ASSUME NEW h \in SUBSET Holding, NEW m \in Modes, NEW l \in Locks, Below(h, Rank[l])
    PROVE  Leads(Un(l), h \cup {<<m, l>>}, h)
<1>1. h \cup {<<m, l>>} \in SUBSET Holding /\ <<"un", l>> \in LockStep
  BY DEF Holding, Modes, LockStep
<1>2. h = (h \cup {<<m, l>>}) \ (Modes \X {l})
  <2>1. \A x \in h : x \notin Modes \X {l}
    <3>1. Rank[l] \in Int
      BY Ranks
    <3> QED BY <3>1 DEF Below
  <2> QED BY <2>1
<1>3. LockSound(<<"un", l>>, h \cup {<<m, l>>}, h)
  BY <1>2 DEF LockSound
<1> QED BY <1>1, <1>3, LeadsOne DEF Un

LEMMA LeadsReads ==
    ASSUME NEW h \in SUBSET Holding, NEW l \in Locks, l \in Open \/ Holds(h, l)
    PROVE  Leads(Reads(l), h, h)
<1>1. <<"read", l>> \in LockStep /\ LockSound(<<"read", l>>, h, h)
  BY DEF LockStep, LockSound
<1> QED BY <1>1, LeadsOne DEF Reads

LEMMA LeadsWrites ==
    ASSUME NEW h \in SUBSET Holding, NEW l \in Locks, l \in Open \/ <<"wr", l>> \in h
    PROVE  Leads(Writes(l), h, h)
<1>1. <<"write", l>> \in LockStep /\ LockSound(<<"write", l>>, h, h)
  BY DEF LockStep, LockSound
<1> QED BY <1>1, LeadsOne DEF Writes

LEMMA LeadsReading ==
    ASSUME NEW h \in SUBSET Holding, NEW l \in Locks, Below(h, Rank[l]), NEW P,
           Leads(P, h \cup {<<"rd", l>>}, h \cup {<<"rd", l>>})
    PROVE  Leads(Reading(l, P), h, h)
<1>1. Leads(Rd(l), h, h \cup {<<"rd", l>>})
  BY LeadsRd
<1>2. Leads(Rd(l) ** P, h, h \cup {<<"rd", l>>})
  BY <1>1, LeadsJoin
<1>3. Leads(Un(l), h \cup {<<"rd", l>>}, h)
  BY LeadsUn DEF Modes
<1> QED BY <1>2, <1>3, LeadsJoin DEF Reading

LEMMA LeadsWriting ==
    ASSUME NEW h \in SUBSET Holding, NEW l \in Locks, Below(h, Rank[l]), NEW P,
           Leads(P, h \cup {<<"wr", l>>}, h \cup {<<"wr", l>>})
    PROVE  Leads(Writing(l, P), h, h)
<1>1. Leads(Wr(l), h, h \cup {<<"wr", l>>})
  BY LeadsWr
<1>2. Leads(Wr(l) ** P, h, h \cup {<<"wr", l>>})
  BY <1>1, LeadsJoin
<1>3. Leads(Un(l), h \cup {<<"wr", l>>}, h)
  BY LeadsUn DEF Modes
<1> QED BY <1>2, <1>3, LeadsJoin DEF Writing
-----------------------------------------------------------------------------
(* Sending                                                                 *)

\* Where packets are sent from, and where errors are.
CanSend(h) == /\ h \in SUBSET Holding /\ Below(h, 9)
              /\ Holds(h, "arp_cache") /\ <<"wr", "arp_queue">> \in h
CanRoute(h) == CanSend(h) /\ Holds(h, "rtable")

LEMMA SendPacketLeads ==
    ASSUME NEW h \in SUBSET Holding, Below(h, 13)
    PROVE  Leads(SendPacket, h, h)
<1> DEFINE w == h \cup {<<"wr", "write">>}
           l == w \cup {<<"wr", "log">>}
<1>1. "write" \in Locks /\ "log" \in Locks /\ "wr" \in Modes
      /\ Rank["write"] = 13 /\ Rank["log"] = 14
  BY Ranks DEF Modes
<1>2. w \in SUBSET Holding /\ Below(w, 14)
  BY <1>1, TakenBelow
<1>3. l \in SUBSET Holding
  BY <1>1, <1>2 DEF Holding
<1> HIDE DEF l
<1>4. Leads(Nothing, l, l)
  BY <1>3, LeadsNothing
<1>5. Leads(Writing("log", Nothing), w, w)
  <2> HIDE DEF w
  <2> QED BY <1>1, <1>2, <1>4, Ranks, LeadsWriting DEF l
<1>6. Leads(Writing("write", Writing("log", Nothing)), h, h)
  BY <1>1, <1>5, Ranks, LeadsWriting
<1> QED BY <1>6 DEF SendPacket

LEMMA ArpQueueAddLeads ==
    ASSUME NEW h, CanSend(h)
    PROVE  Leads(ArpQueueAdd, h, h)
<1>1. h \in SUBSET Holding /\ "arp_queue" \in Locks /\ "if_list" \in Locks /\ "if_list" \in Open
  BY Ranks DEF CanSend, Open
<1>2. Leads(Writes("arp_queue"), h, h)
  BY <1>1, LeadsWrites DEF CanSend
<1>3. Leads(Reads("if_list"), h, h)
  BY <1>1, LeadsReads
<1>4. Leads(SendPacket, h, h)
  BY <1>1, StillBelow, SendPacketLeads DEF CanSend
<1>5. Leads(Writes("arp_queue") ** Reads("if_list"), h, h)
  BY <1>2, <1>3, LeadsJoin
<1> QED BY <1>4, <1>5, LeadsJoin DEF ArpQueueAdd

LEMMA SendIpLeads ==
    ASSUME NEW h, CanSend(h)
    PROVE  Leads(SendIp, h, h)
<1>1. h \in SUBSET Holding /\ "arp_cache" \in Locks
  BY Ranks DEF CanSend
<1>2. Leads(Reads("arp_cache"), h, h)
  BY <1>1, LeadsReads DEF CanSend
<1>3. Leads(SendPacket, h, h)
  BY <1>1, StillBelow, SendPacketLeads DEF CanSend
<1>4. Leads(SendPacket \cup ArpQueueAdd, h, h)
  BY <1>3, ArpQueueAddLeads, LeadsEither
<1> QED BY <1>2, <1>4, LeadsJoin DEF SendIp

LEMMA SendIcmpLeads ==
    ASSUME NEW h, CanRoute(h)
    PROVE  Leads(SendIcmp, h, h)
<1>1. h \in SUBSET Holding /\ "rtable" \in Locks /\ "if_list" \in Locks /\ "if_list" \in Open
      /\ CanSend(h)
  BY Ranks DEF CanRoute, CanSend, Open
<1>2. Leads(Reads("rtable"), h, h)
  BY <1>1, LeadsReads DEF CanRoute
<1>3. Leads(Reads("if_list"), h, h)
  BY <1>1, LeadsReads
<1>4. Leads(SendIp, h, h)
  BY <1>1, SendIpLeads
<1>5. Leads(Maybe(Reads("if_list") ** SendIp), h, h)
  BY <1>3, <1>4, LeadsJoin, LeadsMaybe
<1> QED BY <1>2, <1>5, LeadsJoin DEF SendIcmp

\* What is held with the two tables of ARP, and with all four locks of a sender; the
\* interfaces and the routes are held as m and n say.
Two(h) == (h \cup {<<"rd", "arp_cache">>}) \cup {<<"wr", "arp_queue">>}
Three(h, m) == Two(h) \cup {<<m, "if_list">>}
Four(h, m, n) == Three(h, m) \cup {<<n, "rtable">>}

LEMMA SendersHold ==
    ASSUME NEW h \in SUBSET Holding, Below(h, 4), NEW m \in Modes, NEW n \in Modes
    PROVE  /\ h \cup {<<"rd", "arp_cache">>} \in SUBSET Holding /\ Below(h \cup {<<"rd", "arp_cache">>}, 5)
           /\ Two(h) \in SUBSET Holding /\ Below(Two(h), 6)
           /\ Three(h, m) \in SUBSET Holding /\ Below(Three(h, m), 7)
           /\ Four(h, m, n) \in SUBSET Holding /\ Below(Four(h, m, n), 8)
           /\ CanSend(Two(h)) /\ CanRoute(Four(h, m, n))
<1>1. "rd" \in Modes /\ "wr" \in Modes /\ "arp_cache" \in Locks /\ "arp_queue" \in Locks
      /\ "if_list" \in Locks /\ "rtable" \in Locks
      /\ Rank["arp_cache"] = 4 /\ Rank["arp_queue"] = 5 /\ Rank["if_list"] = 6 /\ Rank["rtable"] = 7
  BY Ranks DEF Modes
<1> DEFINE one == h \cup {<<"rd", "arp_cache">>}
<1>2. one \in SUBSET Holding /\ Below(one, 5)
  <2>1. one \in SUBSET Holding
    BY <1>1 DEF Holding
  <2>2. Below(one, 5)
    BY <1>1, TakenBelow
  <2> QED BY <2>1, <2>2
<1>3. Two(h) \in SUBSET Holding /\ Below(Two(h), 6)
  <2> HIDE DEF one
  <2>1. one \cup {<<"wr", "arp_queue">>} \in SUBSET Holding /\ Below(one \cup {<<"wr", "arp_queue">>}, 6)
    BY <1>1, <1>2, TakenBelow
  <2> QED BY <2>1 DEF Two, one
<1>4. Three(h, m) \in SUBSET Holding /\ Below(Three(h, m), 7)
  BY <1>1, <1>3, TakenBelow DEF Three
<1>5. Four(h, m, n) \in SUBSET Holding /\ Below(Four(h, m, n), 8)
  BY <1>1, <1>4, TakenBelow DEF Four
<1>6. <<"rd", "arp_cache">> \in Two(h) /\ <<"wr", "arp_queue">> \in Two(h)
  BY DEF Two
<1>7. Two(h) \subseteq Four(h, m, n) /\ <<n, "rtable">> \in Four(h, m, n)
  BY DEF Four, Three
<1>8. Below(Two(h), 9) /\ Below(Four(h, m, n), 9)
  BY <1>3, <1>5, StillBelow
<1>9. CanSend(Two(h))
  BY <1>3, <1>6, <1>8 DEF CanSend, Holds
<1>10. CanRoute(Four(h, m, n))
  BY <1>5, <1>6, <1>7, <1>8 DEF CanRoute, CanSend, Holds, Modes
<1> QED BY <1>2, <1>3, <1>4, <1>5, <1>9, <1>10

LEMMA SendLocksLeads ==
    ASSUME NEW h \in SUBSET Holding, Below(h, 4)
    PROVE  Leads(SendLocks, h, Four(h, "rd", "rd"))
<1>1. "rd" \in Modes /\ "wr" \in Modes /\ "arp_cache" \in Locks /\ "arp_queue" \in Locks
      /\ "if_list" \in Locks /\ "rtable" \in Locks
  BY Ranks DEF Modes
<1> DEFINE one == h \cup {<<"rd", "arp_cache">>}
<1>2. Leads(Rd("arp_cache"), h, one)
  BY <1>1, Ranks, LeadsRd
<1> HIDE DEF one
<1>3. Leads(Wr("arp_queue"), one, Two(h))
  BY <1>1, SendersHold, Ranks, LeadsWr DEF Two, one
<1>4. Leads(Rd("if_list"), Two(h), Three(h, "rd"))
  BY <1>1, SendersHold, Ranks, LeadsRd DEF Three
<1>5. Leads(Rd("rtable"), Three(h, "rd"), Four(h, "rd", "rd"))
  BY <1>1, SendersHold, Ranks, LeadsRd DEF Four
<1>6. Leads(Rd("arp_cache") ** Wr("arp_queue"), h, Two(h))
  BY <1>2, <1>3, LeadsJoin
<1>7. Leads(Rd("arp_cache") ** Wr("arp_queue") ** Rd("if_list"), h, Three(h, "rd"))
  BY <1>4, <1>6, LeadsJoin
<1> QED BY <1>5, <1>7, LeadsJoin DEF SendLocks

LEMMA SendUnlocksLeads ==
    ASSUME NEW h \in SUBSET Holding, Below(h, 4), NEW m \in Modes, NEW n \in Modes
    PROVE  Leads(SendUnlocks, Four(h, m, n), h)
<1>1. "rd" \in Modes /\ "wr" \in Modes /\ "arp_cache" \in Locks /\ "arp_queue" \in Locks
      /\ "if_list" \in Locks /\ "rtable" \in Locks
  BY Ranks DEF Modes
<1> DEFINE one == h \cup {<<"rd", "arp_cache">>}
<1>2. Leads(Un("arp_cache"), one, h)
  BY <1>1, Ranks, LeadsUn
<1> HIDE DEF one
<1>3. Leads(Un("arp_queue"), Two(h), one)
  BY <1>1, SendersHold, Ranks, LeadsUn DEF Two, one
<1>4. Leads(Un("if_list"), Three(h, m), Two(h))
  BY <1>1, SendersHold, Ranks, LeadsUn DEF Three
<1>5. Leads(Un("rtable"), Four(h, m, n), Three(h, m))
  BY <1>1, SendersHold, Ranks, LeadsUn DEF Four
<1>6. Leads(Un("rtable") ** Un("if_list"), Four(h, m, n), Two(h))
  BY <1>4, <1>5, LeadsJoin
<1>7. Leads(Un("rtable") ** Un("if_list") ** Un("arp_queue"), Four(h, m, n), one)
  BY <1>3, <1>6, LeadsJoin
<1> QED BY <1>2, <1>7, LeadsJoin DEF SendUnlocks
-----------------------------------------------------------------------------
(* PWOSPF                                                                  *)

\* A lock that is taken to read or to write what it guards.
LEMMA LeadsReadingIt ==
    ASSUME NEW h \in SUBSET Holding, NEW l \in Locks, Below(h, Rank[l])
    PROVE  Leads(Reading(l, Reads(l)), h, h)
<1> DEFINE k == h \cup {<<"rd", l>>}
<1>1. k \in SUBSET Holding /\ Holds(k, l)
  BY DEF Holding, Modes, Holds
<1>2. Leads(Reads(l), k, k)
  BY <1>1, LeadsReads
<1> QED BY <1>2, LeadsReading

LEMMA LeadsWritingIt ==
    ASSUME NEW h \in SUBSET Holding, NEW l \in Locks, Below(h, Rank[l])
    PROVE  Leads(Writing(l, Writes(l)), h, h)
<1> DEFINE k == h \cup {<<"wr", l>>}
<1>1. k \in SUBSET Holding /\ <<"wr", l>> \in k
  BY DEF Holding, Modes
<1>2. Leads(Writes(l), k, k)
  BY <1>1, LeadsWrites
<1> QED BY <1>2, LeadsWriting

LEMMA OpenLeads ==
    ASSUME NEW h \in SUBSET Holding
    PROVE  /\ Leads(Reads("if_list"), h, h) /\ Leads(Writes("if_list"), h, h)
           /\ Leads(Reads("routers"), h, h) /\ Leads(Writes("routers"), h, h)
<1>1. "if_list" \in Locks /\ "routers" \in Locks /\ "if_list" \in Open /\ "routers" \in Open
  BY Ranks DEF Open
<1> QED BY <1>1, LeadsReads, LeadsWrites

LEMMA BroadcastLsuLeads ==
    ASSUME NEW h \in SUBSET Holding, Below(h, 9)
    PROVE  Leads(BroadcastLsu, h, h)
<1>1. "lsu_queue" \in Locks /\ Rank["lsu_queue"] = 9
  BY Ranks
<1>2. Leads(Maybe(Writing("lsu_queue", Writes("lsu_queue"))), h, h)
  BY <1>1, LeadsWritingIt, LeadsMaybe
<1> QED BY <1>2, OpenLeads, LeadsJoin DEF BroadcastLsu

LEMMA FloodLeads ==
    ASSUME NEW h \in SUBSET Holding, Below(h, 9)
    PROVE  Leads(Flood, h, h)
<1>1. Leads(Reads("routers") ** BroadcastLsu, h, h)
  BY OpenLeads, BroadcastLsuLeads, LeadsJoin
<1>2. Leads(Reads("routers") ** BroadcastLsu ** Writes("routers"), h, h)
  BY <1>1, OpenLeads, LeadsJoin
<1> QED BY <1>2, LeadsMaybe DEF Flood

LEMMA PropagateLeads ==
    ASSUME NEW h \in SUBSET Holding, Below(h, 9)
    PROVE  Leads(Propagate, h, h)
  BY OpenLeads, FloodLeads, LeadsJoin DEF Propagate

\* The lock of the routers, taken by one who may hold the four of a sender.
LEMMA RoutersTaken ==
    ASSUME NEW h \in SUBSET Holding, Below(h, 8)
    PROVE  LET k == h \cup {<<"wr", "routers">>}
           IN  /\ k \in SUBSET Holding /\ Below(k, 9)
               /\ Leads(Wr("routers"), h, k) /\ Leads(Un("routers"), k, h)
<1>1. "routers" \in Locks /\ "wr" \in Modes /\ Rank["routers"] = 8
  BY Ranks DEF Modes
<1>2. h \cup {<<"wr", "routers">>} \in SUBSET Holding
  BY <1>1 DEF Holding
<1>3. Below(h \cup {<<"wr", "routers">>}, 9)
  BY <1>1, TakenBelow
<1>4. Leads(Wr("routers"), h, h \cup {<<"wr", "routers">>})
  BY <1>1, LeadsWr
<1>5. Leads(Un("routers"), h \cup {<<"wr", "routers">>}, h)
  BY <1>1, LeadsUn
<1> QED BY <1>2, <1>3, <1>4, <1>5

\* process_pwospf_hello_packet changes its lock on the interfaces.
LEMMA HelloLeads ==
    ASSUME NEW h \in SUBSET Holding, Below(h, 4), ~Masks
    PROVE  /\ Leads(Hello ** SendUnlocks, Four(h, "rd", "rd"), h)
           /\ Hello \subseteq Seq(LockStep)
<1>1. "rd" \in Modes /\ "wr" \in Modes /\ "if_list" \in Locks /\ "rtable" \in Locks
      /\ Rank["if_list"] = 6 /\ Rank["rtable"] = 7
  BY Ranks DEF Modes
<1> DEFINE r == Four(h, "rd", "rd")
           w == Four(h, "wr", "rd")
           k == w \cup {<<"wr", "routers">>}
           U1 == Upgrade ** Wr("if_list")
           U2 == U1 ** Rd("rtable")
           U3 == U2 ** Wr("routers")
           U4 == U3 ** Reads("if_list")
           A1 == Writes("if_list") ** Writes("routers")
           A2 == A1 ** Propagate
           A3 == A2 ** Un("routers")
           B == (IF Masks THEN Nothing ELSE {}) \cup Un("routers") \cup A3
<1>2. r \in SUBSET Holding /\ w \in SUBSET Holding /\ Below(w, 8)
  BY <1>1, SendersHold
<1>3. /\ k \in SUBSET Holding /\ Below(k, 9)
      /\ Leads(Wr("routers"), w, k) /\ Leads(Un("routers"), k, w)
  <2> HIDE DEF w
  <2> QED BY <1>2, RoutersTaken
<1>4. Leads(Upgrade, r, Two(h))
  <2>1. Leads(Un("rtable"), r, Three(h, "rd"))
    BY <1>1, SendersHold, LeadsUn DEF Four
  <2>2. Leads(Un("if_list"), Three(h, "rd"), Two(h))
    BY <1>1, SendersHold, LeadsUn DEF Three
  <2> QED BY <2>1, <2>2, LeadsJoin DEF Upgrade
<1>5. Leads(Wr("if_list"), Two(h), Three(h, "wr"))
  BY <1>1, SendersHold, LeadsWr DEF Three
<1>6. Leads(Rd("rtable"), Three(h, "wr"), w)
  BY <1>1, SendersHold, LeadsRd DEF Four
<1> HIDE DEF r, w, k
<1>7. Leads(U4, r, k)
  <2>1. Leads(U1, r, Three(h, "wr"))
    BY <1>4, <1>5, LeadsJoin
  <2>2. Leads(U2, r, w)
    BY <1>6, <2>1, LeadsJoin
  <2>3. Leads(U3, r, k)
    BY <1>3, <2>2, LeadsJoin
  <2>4. Leads(Reads("if_list"), k, k)
    BY <1>3, OpenLeads
  <2> QED BY <2>3, <2>4, LeadsJoin
<1>8. Leads(A3, k, w)
  <2>1. Leads(A1, k, k)
    BY <1>3, OpenLeads, LeadsJoin
  <2>2. Leads(A2, k, k)
    BY <1>3, <2>1, PropagateLeads, LeadsJoin
  <2> QED BY <1>3, <2>2, LeadsJoin
<1>9. Leads(B, k, w)
  <2>1. Leads({} \cup Un("routers"), k, w)
    BY <1>2, <1>3, LeadsNone, LeadsEither
  <2> HIDE DEF A3
  <2>2. Leads(({} \cup Un("routers")) \cup A3, k, w)
    BY <1>8, <2>1, LeadsEither
  <2> QED BY <2>2
<1> DEFINE body == U4 ** B
<1>10. Leads(body, r, w)
  <2> HIDE DEF U4, B
  <2> QED BY <1>7, <1>9, LeadsJoin
<1>11. Hello = body \cup Nothing
  BY DEF Hello, Maybe
<1> HIDE DEF body
<1>12. Leads(SendUnlocks, w, h) /\ Leads(SendUnlocks, r, h)
  BY <1>1, SendUnlocksLeads DEF w, r
<1>13. Leads(body ** SendUnlocks, r, h) /\ Leads(Nothing ** SendUnlocks, r, h)
  BY <1>10, <1>12, LeadsJoin, LeadsNothingFirst
<1>14. Leads((body \cup Nothing) ** SendUnlocks, r, h)
  BY <1>13, LeadsFork
<1>15. body \cup Nothing \subseteq Seq(LockStep)
  BY <1>10, LeadsPaths
<1> QED BY <1>11, <1>14, <1>15 DEF r

\* process_pwospf_lsu_packet changes its lock on the routes.
LEMMA LsuLeads ==
    ASSUME NEW h \in SUBSET Holding, Below(h, 4)
    PROVE  /\ Leads(Lsu ** SendUnlocks, Four(h, "rd", "rd"), h)
           /\ Lsu \subseteq Seq(LockStep)
<1>1. "rd" \in Modes /\ "wr" \in Modes /\ "rtable" \in Locks /\ Rank["rtable"] = 7
  BY Ranks DEF Modes
<1> DEFINE r == Four(h, "rd", "rd")
           w == Four(h, "rd", "wr")
           k == w \cup {<<"wr", "routers">>}
           U1 == Un("rtable") ** Wr("rtable")
           U2 == U1 ** Wr("routers")
           U3 == U2 ** Reads("routers")
           A1 == Writes("routers") ** Maybe(BroadcastLsu)
           A2 == A1 ** Maybe(Propagate)
           U4 == U3 ** Maybe(A2)
           body == U4 ** Un("routers")
<1>2. r \in SUBSET Holding /\ w \in SUBSET Holding /\ Below(w, 8)
  BY <1>1, SendersHold
<1>3. /\ k \in SUBSET Holding /\ Below(k, 9)
      /\ Leads(Wr("routers"), w, k) /\ Leads(Un("routers"), k, w)
  <2> HIDE DEF w
  <2> QED BY <1>2, RoutersTaken
<1>4. Leads(Un("rtable"), r, Three(h, "rd"))
  BY <1>1, SendersHold, LeadsUn DEF Four
<1>5. Leads(Wr("rtable"), Three(h, "rd"), w)
  BY <1>1, SendersHold, LeadsWr DEF Four
<1> HIDE DEF r, w, k
<1>6. Leads(U3, r, k)
  <2>1. Leads(U1, r, w)
    BY <1>4, <1>5, LeadsJoin
  <2>2. Leads(U2, r, k)
    BY <1>3, <2>1, LeadsJoin
  <2>3. Leads(Reads("routers"), k, k)
    BY <1>3, OpenLeads
  <2> QED BY <2>2, <2>3, LeadsJoin
<1>7. Leads(Maybe(A2), k, k)
  <2>1. Leads(Maybe(BroadcastLsu), k, k) /\ Leads(Maybe(Propagate), k, k)
    BY <1>3, BroadcastLsuLeads, PropagateLeads, LeadsMaybe
  <2>2. Leads(A1, k, k)
    BY <1>3, <2>1, OpenLeads, LeadsJoin
  <2>3. Leads(A2, k, k)
    BY <2>1, <2>2, LeadsJoin
  <2> QED BY <2>3, LeadsMaybe
<1>8. Leads(body, r, w)
  <2> HIDE DEF U3, A2
  <2>1. Leads(U4, r, k)
    BY <1>6, <1>7, LeadsJoin
  <2> QED BY <1>3, <2>1, LeadsJoin
<1>9. Lsu = body \cup Nothing
  BY DEF Lsu, Maybe
<1> HIDE DEF body
<1>10. Leads(SendUnlocks, w, h) /\ Leads(SendUnlocks, r, h)
  BY <1>1, SendUnlocksLeads DEF w, r
<1>11. Leads(body ** SendUnlocks, r, h) /\ Leads(Nothing ** SendUnlocks, r, h)
  BY <1>8, <1>10, LeadsJoin, LeadsNothingFirst
<1>12. Leads((body \cup Nothing) ** SendUnlocks, r, h)
  BY <1>11, LeadsFork
<1>13. body \cup Nothing \subseteq Seq(LockStep)
  BY <1>8, LeadsPaths
<1> QED BY <1>9, <1>12, <1>13 DEF r
-----------------------------------------------------------------------------
(* Packets                                                                 *)

LEMMA TranslateLeads ==
    ASSUME NEW h \in SUBSET Holding, Below(h, 9)
    PROVE  Leads(Translate, h, h) /\ Leads(EchoReply, h, h)
<1>1. "nat" \in Locks /\ Rank["nat"] = 10 /\ "sping" \in Locks /\ Rank["sping"] = 11
  BY Ranks
<1>2. Below(h, 10) /\ Below(h, 11)
  BY StillBelow
<1> QED BY <1>1, <1>2, LeadsWritingIt DEF Translate, EchoReply

LEMMA ForwardIpLeads ==
    ASSUME NEW h, CanRoute(h)
    PROVE  Leads(ForwardIp, h, h)
<1>1. h \in SUBSET Holding /\ Below(h, 9) /\ CanSend(h) /\ "rtable" \in Locks /\ Holds(h, "rtable")
  BY Ranks DEF CanRoute, CanSend
<1>2. Leads(SendIcmp, h, h) /\ Leads(SendIp, h, h) /\ Leads(Translate, h, h)
  BY <1>1, SendIcmpLeads, SendIpLeads, TranslateLeads
<1>3. Leads(Reads("if_list") ** Translate, h, h)
  BY <1>1, <1>2, OpenLeads, LeadsJoin
<1>4. Leads(Maybe(Reads("if_list") ** Translate), h, h) /\ Leads(SendIcmp \cup SendIp, h, h)
  BY <1>2, <1>3, LeadsMaybe, LeadsEither
<1>5. Leads(Maybe(Reads("if_list") ** Translate) ** (SendIcmp \cup SendIp), h, h)
  BY <1>4, LeadsJoin
<1>6. Leads(SendIcmp \cup (Maybe(Reads("if_list") ** Translate) ** (SendIcmp \cup SendIp)), h, h)
  BY <1>2, <1>5, LeadsEither
<1>7. Leads(Reads("rtable"), h, h)
  BY <1>1, LeadsReads
<1> QED BY <1>6, <1>7, LeadsJoin DEF ForwardIp

LEMMA IpPacketLeads ==
    ASSUME NEW h \in SUBSET Holding, Below(h, 4), ~Masks
    PROVE  Leads(IpPacket, h, h)
<1> DEFINE f == Four(h, "rd", "rd")
           U1 == SendLocks ** Maybe(Translate)
           U2 == U1 ** Reads("if_list")
           D1 == Nothing \cup SendIcmp
           D2 == D1 \cup EchoReply
           D3 == D2 \cup Hello
           D4 == D3 \cup Lsu
           D5 == D4 \cup ForwardIp
<1>1. CanRoute(f) /\ f \in SUBSET Holding /\ Below(f, 9) /\ Leads(SendUnlocks, f, h)
  <2>1. "rd" \in Modes
    BY DEF Modes
  <2>2. CanRoute(f) /\ Leads(SendUnlocks, f, h)
    BY <2>1, SendersHold, SendUnlocksLeads
  <2> QED BY <2>2 DEF CanRoute, CanSend
<1>2. Leads(SendLocks, h, f)
  BY SendLocksLeads
<1>3. /\ Leads(Hello ** SendUnlocks, f, h) /\ Hello \subseteq Seq(LockStep)
      /\ Leads(Lsu ** SendUnlocks, f, h) /\ Lsu \subseteq Seq(LockStep)
  BY HelloLeads, LsuLeads
<1> HIDE DEF f
<1>4. Leads(U2, h, f)
  <2>1. Leads(Maybe(Translate), f, f)
    BY <1>1, TranslateLeads, LeadsMaybe
  <2>2. Leads(U1, h, f)
    BY <1>2, <2>1, LeadsJoin
  <2>3. Leads(Reads("if_list"), f, f)
    BY <1>1, OpenLeads
  <2> QED BY <2>2, <2>3, LeadsJoin
<1>5. /\ Leads(SendIcmp, f, f) /\ Leads(EchoReply, f, f) /\ Leads(ForwardIp, f, f)
      /\ Leads(Nothing, f, f)
  BY <1>1, SendIcmpLeads, TranslateLeads, ForwardIpLeads, LeadsNothing
<1>6. Leads(D2, f, f)
  <2>1. Leads(D1, f, f)
    BY <1>5, LeadsEither
  <2> QED BY <1>5, <2>1, LeadsEither
<1> HIDE DEF D2
<1>7. Leads(D2 ** SendUnlocks, f, h) /\ Leads(ForwardIp ** SendUnlocks, f, h)
  BY <1>1, <1>5, <1>6, LeadsJoin
<1>8. Leads(D3 ** SendUnlocks, f, h)
  BY <1>3, <1>7, LeadsFork
<1> HIDE DEF D3
<1>9. Leads(D4 ** SendUnlocks, f, h)
  BY <1>3, <1>8, LeadsFork
<1> HIDE DEF D4
<1>10. Leads(D5 ** SendUnlocks, f, h)
  BY <1>7, <1>9, LeadsFork
<1>11. D5 \subseteq Seq(LockStep) /\ SendUnlocks \subseteq Seq(LockStep)
  <2>1. D2 \subseteq Seq(LockStep) /\ ForwardIp \subseteq Seq(LockStep) /\ SendUnlocks \subseteq Seq(LockStep)
    BY <1>1, <1>5, <1>6, LeadsPaths
  <2> QED BY <1>3, <2>1 DEF D4, D3
<1> HIDE DEF U2, D5
<1>12. Leads((U2 ** D5) ** SendUnlocks, h, h)
  BY <1>4, <1>10, <1>11, LeadsAfter
<1> QED BY <1>12 DEF IpPacket, U2, D5, D4, D3, D2

LEMMA ArpRequestLeads ==
    ASSUME NEW h \in SUBSET Holding, Below(h, 4)
    PROVE  Leads(ArpRequest, h, h)
<1> DEFINE k == h \cup {<<"rd", "if_list">>}
<1>1. "if_list" \in Locks /\ Rank["if_list"] = 6 /\ "rd" \in Modes
  BY Ranks DEF Modes
<1>2. Below(h, 6)
  BY StillBelow
<1>3. k \in SUBSET Holding
  BY <1>1 DEF Holding
<1>4. Below(k, 7)
  BY <1>1, <1>2, TakenBelow
<1> HIDE DEF k
<1>5. Leads(Reads("if_list"), k, k) /\ Leads(Maybe(SendPacket), k, k)
  BY <1>3, <1>4, StillBelow, OpenLeads, SendPacketLeads, LeadsMaybe
<1>6. Leads(Reads("if_list") ** Maybe(SendPacket), k, k)
  BY <1>5, LeadsJoin
<1> QED BY <1>1, <1>2, <1>6, LeadsReading DEF ArpRequest, k

LEMMA ArpReplyLeads ==
    ASSUME NEW h \in SUBSET Holding, Below(h, 4)
    PROVE  Leads(ArpReply, h, h)
<1> DEFINE one == h \cup {<<"rd", "arp_cache">>}
           two == Two(h)
           Q == Writes("arp_queue") ** SendIp
<1>1. "arp_cache" \in Locks /\ Rank["arp_cache"] = 4 /\ "arp_queue" \in Locks /\ Rank["arp_queue"] = 5
      /\ "rd" \in Modes
  BY Ranks DEF Modes
<1>2. one \in SUBSET Holding /\ Below(one, 5) /\ two \in SUBSET Holding /\ CanSend(two)
  BY <1>1, SendersHold
<1>3. two = one \cup {<<"wr", "arp_queue">>}
  BY DEF Two
<1> HIDE DEF one, two
<1>4. Leads(Writes("arp_queue"), two, two)
  BY <1>1, <1>2, LeadsWrites DEF CanSend
<1>5. Leads(Q, two, two)
  BY <1>2, <1>4, SendIpLeads, LeadsJoin
<1>6. Leads(Maybe(Q), two, two)
  BY <1>5, LeadsMaybe
<1>7. Leads(Writing("arp_queue", Maybe(Q)), one, one)
  BY <1>1, <1>2, <1>3, <1>6, LeadsWriting
<1>8. Leads(Reading("arp_cache", Writing("arp_queue", Maybe(Q))), h, h)
  BY <1>1, <1>7, LeadsReading DEF one
<1>9. Leads(Writing("arp_cache", Writes("arp_cache")), h, h)
  BY <1>1, LeadsWritingIt
<1> QED BY <1>8, <1>9, LeadsJoin DEF ArpReply

LEMMA PacketsLead ==
    ASSUME ~Masks
    PROVE  Leads(Packets, {}, {})
<1> DEFINE h == {}
           l == h \cup {<<"wr", "log">>}
<1>1. "log" \in Locks /\ "if_list" \in Locks /\ "wr" \in Modes
  BY Ranks DEF Modes
<1>2. h \in SUBSET Holding /\ \A r : Below(h, r)
  BY DEF Below
<1>3. l \in SUBSET Holding
  BY <1>1 DEF Holding
<1> HIDE DEF h
<1>4. Leads(Writing("log", Nothing), h, h)
  BY <1>1, <1>2, <1>3, LeadsNothing, LeadsWriting
<1>5. Leads(IsActive, h, h)
  BY <1>1, <1>2, LeadsReadingIt DEF IsActive
<1>6. Leads(IpPacket \cup ArpRequest \cup ArpReply, h, h)
  BY <1>2, IpPacketLeads, ArpRequestLeads, ArpReplyLeads, LeadsEither
<1>7. Leads(Writing("log", Nothing) ** IsActive, h, h)
  BY <1>4, <1>5, LeadsJoin
<1>8. Leads(Packets, h, h)
  BY <1>6, <1>7, LeadsMaybe, LeadsJoin DEF Packets
<1> QED BY <1>8 DEF h

LEMMA TransportLeads ==
    ASSUME ~Unrouted
    PROVE  Leads(SendIpPacket \cup FindSrcIp, {}, {})
<1> DEFINE h == {}
           f == Four(h, "rd", "rd")
           S == Reads("if_list") ** SendIp ** SendUnlocks
           i == h \cup {<<"rd", "if_list">>}
           j == i \cup {<<"rd", "rtable">>}
           R == Reads("rtable") ** Maybe(Reads("if_list"))
<1>1. "rd" \in Modes /\ "if_list" \in Locks /\ "rtable" \in Locks
      /\ Rank["if_list"] = 6 /\ Rank["rtable"] = 7
  BY Ranks DEF Modes
<1>2. h \in SUBSET Holding /\ \A r : Below(h, r)
  BY DEF Below
<1> HIDE DEF h
<1>3. CanRoute(f) /\ CanSend(f) /\ f \in SUBSET Holding /\ Holds(f, "rtable")
      /\ Leads(SendUnlocks, f, h) /\ Leads(SendLocks, h, f)
  BY <1>1, <1>2, SendersHold, SendLocksLeads, SendUnlocksLeads DEF CanRoute
<1>4. i \in SUBSET Holding /\ j \in SUBSET Holding /\ Holds(j, "rtable")
  BY <1>1, <1>2 DEF Holding, Holds
<1>5. Below(i, 7)
  BY <1>1, <1>2, TakenBelow
<1> HIDE DEF f, i
<1>6. Leads(SendIpPacket, h, h)
  <2>1. Leads(Reads("rtable"), f, f) /\ Leads(Reads("if_list"), f, f) /\ Leads(SendIp, f, f)
    BY <1>1, <1>3, LeadsReads, OpenLeads, SendIpLeads
  <2>2. Leads(Reads("if_list") ** SendIp, f, f)
    BY <2>1, LeadsJoin
  <2>3. Leads(S, f, h)
    BY <1>3, <2>2, LeadsJoin
  <2>4. Leads(SendLocks ** Reads("rtable"), h, f)
    BY <1>3, <2>1, LeadsJoin
  <2> HIDE DEF S
  <2>5. Leads(S \cup {}, f, h)
    BY <1>2, <1>3, <2>3, LeadsNone, LeadsEither
  <2>6. Leads(SendLocks ** Reads("rtable") ** (S \cup {}), h, h)
    BY <2>4, <2>5, LeadsJoin
  <2> QED BY <2>6 DEF SendIpPacket, S
<1>7. Leads(FindSrcIp, h, h)
  <2> HIDE DEF j
  <2>1. Leads(Reads("rtable"), j, j) /\ Leads(Maybe(Reads("if_list")), j, j)
    BY <1>1, <1>4, LeadsReads, OpenLeads, LeadsMaybe
  <2>2. Leads(R, j, j)
    BY <2>1, LeadsJoin
  <2> HIDE DEF R
  <2>3. Leads(Reading("rtable", R), i, i)
    BY <1>1, <1>4, <1>5, <2>2, LeadsReading DEF j
  <2>4. Leads(Reading("if_list", Reading("rtable", R)), h, h)
    BY <1>1, <1>2, <2>3, LeadsReading DEF i
  <2> QED BY <2>4 DEF FindSrcIp, R
<1>8. Leads(SendIpPacket \cup FindSrcIp, h, h)
  BY <1>6, <1>7, LeadsEither
<1> QED BY <1>8 DEF h
-----------------------------------------------------------------------------
(* The threads with a clock                                                *)

\* What is done under the lock of the routers.
LEMMA RoutersLead ==
    ASSUME NEW h \in SUBSET Holding, Below(h, 8)
    PROVE  /\ Leads(Writing("routers", Flood), h, h)
           /\ Leads(Writing("routers", Propagate), h, h)
           /\ Leads(Writing("routers", Reads("routers")), h, h)
           /\ Leads(Writing("routers", Writes("if_list") ** Writes("routers")), h, h)
           /\ Leads(Writing("routers", Reads("routers") ** Maybe(Writes("routers") ** Propagate)), h, h)
<1> DEFINE k == h \cup {<<"wr", "routers">>}
<1>1. "routers" \in Locks /\ Rank["routers"] = 8
  BY Ranks
<1>2. k \in SUBSET Holding /\ Below(k, 9)
  BY RoutersTaken
<1>3. \A P : Leads(P, k, k) => Leads(Writing("routers", P), h, h)
  BY <1>1, LeadsWriting
<1> HIDE DEF k
<1>4. Leads(Flood, k, k) /\ Leads(Propagate, k, k) /\ Leads(Reads("routers"), k, k)
      /\ Leads(Writes("routers"), k, k) /\ Leads(Writes("if_list"), k, k)
  BY <1>2, FloodLeads, PropagateLeads, OpenLeads
<1>5. Leads(Writes("if_list") ** Writes("routers"), k, k) /\ Leads(Writes("routers") ** Propagate, k, k)
  BY <1>4, LeadsJoin
<1>6. Leads(Reads("routers") ** Maybe(Writes("routers") ** Propagate), k, k)
  BY <1>4, <1>5, LeadsMaybe, LeadsJoin
<1> QED BY <1>3, <1>4, <1>5, <1>6

LEMMA ArpThreadLeads == Leads(ArpThread, {}, {})
<1> DEFINE h == {}
           f == Four(h, "rd", "rd")
           M == Writes("arp_queue") ** (SendPacket \cup SendIcmp)
           W == Writing("arp_cache", Writes("arp_cache"))
<1>1. "rd" \in Modes /\ "arp_cache" \in Locks /\ "arp_queue" \in Locks
  BY Ranks DEF Modes
<1>2. h \in SUBSET Holding /\ \A r : Below(h, r)
  BY DEF Below
<1> HIDE DEF h
<1>3. CanRoute(f) /\ Leads(SendUnlocks, f, h) /\ Leads(SendLocks, h, f)
  BY <1>1, <1>2, SendersHold, SendLocksLeads, SendUnlocksLeads
<1> HIDE DEF f
<1>4. f \in SUBSET Holding /\ Below(f, 9) /\ <<"wr", "arp_queue">> \in f
  BY <1>3 DEF CanRoute, CanSend
<1>5. Leads(SendPacket \cup SendIcmp, f, f)
  BY <1>3, <1>4, StillBelow, SendPacketLeads, SendIcmpLeads, LeadsEither
<1>6. Leads(Writes("arp_queue"), f, f) /\ Leads(Reads("arp_queue"), f, f)
  BY <1>1, <1>4, LeadsWrites, LeadsReads DEF Holds
<1>7. Leads(Maybe(M), f, f)
  BY <1>5, <1>6, LeadsJoin, LeadsMaybe
<1> HIDE DEF M
<1>8. Leads(W, h, h)
  BY <1>1, <1>2, LeadsWritingIt
<1> HIDE DEF W
<1>9. Leads(W ** SendLocks, h, f)
  BY <1>3, <1>8, LeadsJoin
<1>10. Leads(W ** SendLocks ** Reads("arp_queue"), h, f)
  BY <1>6, <1>9, LeadsJoin
<1>11. Leads(W ** SendLocks ** Reads("arp_queue") ** Maybe(M), h, f)
  BY <1>7, <1>10, LeadsJoin
<1>12. Leads(W ** SendLocks ** Reads("arp_queue") ** Maybe(M) ** SendUnlocks, h, h)
  BY <1>3, <1>11, LeadsJoin
<1> QED BY <1>12 DEF ArpThread, W, M, h

LEMMA HelloThreadLeads ==
    ASSUME NEW h \in SUBSET Holding, Below(h, 6)
    PROVE  Leads(HelloThread, h, h)
<1> DEFINE i == h \cup {<<"wr", "if_list">>}
           V == Writing("routers", Writes("if_list") ** Writes("routers"))
           P == Writing("routers", Propagate)
<1>1. "wr" \in Modes /\ "if_list" \in Locks /\ Rank["if_list"] = 6
  BY Ranks DEF Modes
<1>2. i \in SUBSET Holding
  BY <1>1 DEF Holding
<1>3. Below(i, 8)
  BY <1>1, TakenBelow
<1> HIDE DEF i
<1>4. Leads(V, i, i) /\ Leads(P, i, i)
  BY <1>2, <1>3, RoutersLead
<1>5. Leads(Reads("if_list"), i, i) /\ Leads(Maybe(SendPacket), i, i)
  BY <1>2, <1>3, StillBelow, OpenLeads, SendPacketLeads, LeadsMaybe
<1> HIDE DEF V, P
<1>6. Leads(Maybe(V ** P), i, i)
  BY <1>4, LeadsJoin, LeadsMaybe
<1>7. Leads(Reads("if_list") ** Maybe(SendPacket), i, i)
  BY <1>5, LeadsJoin
<1>8. Leads(Reads("if_list") ** Maybe(SendPacket) ** Maybe(V ** P), i, i)
  BY <1>6, <1>7, LeadsJoin
<1>9. Leads(Writing("if_list", Reads("if_list") ** Maybe(SendPacket) ** Maybe(V ** P)), h, h)
  BY <1>1, <1>8, LeadsWriting DEF i
<1> QED BY <1>9 DEF HelloThread, V, P

LEMMA LsuThreadLeads ==
    ASSUME NEW h \in SUBSET Holding, Below(h, 8)
    PROVE  Leads(LsuThread, h, h) /\ Leads(TimeoutThread, h, h)
<1> DEFINE R == Writing("routers", Reads("routers"))
           F == Writing("routers", Flood)
<1>1. Leads(R, h, h) /\ Leads(F, h, h) /\ Leads(Reads("routers"), h, h)
  BY RoutersLead, OpenLeads
<1> HIDE DEF R, F
<1>2. Leads(R ** Reads("routers"), h, h) /\ Leads(Maybe(F), h, h)
  BY <1>1, LeadsJoin, LeadsMaybe
<1>3. Leads(R ** Reads("routers") ** Maybe(F), h, h)
  BY <1>2, LeadsJoin
<1>4. Leads(TimeoutThread, h, h)
  BY RoutersLead DEF TimeoutThread
<1> QED BY <1>3, <1>4 DEF LsuThread, R, F

LEMMA BroadcastThreadLeads == Leads(BroadcastThread, {}, {})
<1> DEFINE h == {}
           b == h \cup {<<"wr", "lsu_bcast">>}
           f == Four(b, "rd", "rd")
           W == Writing("lsu_queue", Writes("lsu_queue"))
           M == Reads("rtable") ** Maybe(SendIp)
<1>1. "rd" \in Modes /\ "wr" \in Modes /\ "lsu_bcast" \in Locks /\ Rank["lsu_bcast"] = 2
      /\ "lsu_queue" \in Locks /\ Rank["lsu_queue"] = 9 /\ "rtable" \in Locks
  BY Ranks DEF Modes
<1>2. h \in SUBSET Holding /\ \A r : Below(h, r)
  BY DEF Below
<1>3. b \in SUBSET Holding
  BY <1>1 DEF Holding
<1> HIDE DEF h
<1>4. Below(b, 4)
  BY <1>1, <1>2, TakenBelow
<1> HIDE DEF b
<1>5. CanRoute(f) /\ Leads(SendUnlocks, f, b) /\ Leads(SendLocks, b, f)
  BY <1>1, <1>3, <1>4, SendersHold, SendLocksLeads, SendUnlocksLeads
<1> HIDE DEF f
<1>6. Leads(Reads("rtable"), f, f) /\ Leads(Maybe(SendIp), f, f)
  BY <1>1, <1>5, LeadsReads, SendIpLeads, LeadsMaybe DEF CanRoute, CanSend
<1>7. Leads(Maybe(M), f, f)
  BY <1>6, LeadsJoin, LeadsMaybe
<1>8. Leads(W, b, b)
  <2>1. Below(b, 9)
    BY <1>3, <1>4, StillBelow
  <2> QED BY <1>1, <1>3, <2>1, LeadsWritingIt
<1> HIDE DEF W, M
<1>9. Leads(W ** SendLocks, b, f)
  BY <1>5, <1>8, LeadsJoin
<1>10. Leads(W ** SendLocks ** Maybe(M), b, f)
  BY <1>7, <1>9, LeadsJoin
<1>11. Leads(W ** SendLocks ** Maybe(M) ** SendUnlocks, b, b)
  BY <1>5, <1>10, LeadsJoin
<1>12. Leads(Writing("lsu_bcast", W ** SendLocks ** Maybe(M) ** SendUnlocks), h, h)
  BY <1>1, <1>2, <1>11, LeadsWriting DEF b
<1> QED BY <1>12 DEF BroadcastThread, W, M, h

LEMMA DijkstraThreadLeads == Leads(DijkstraThread, {}, {})
<1> DEFINE h == {}
           d == h \cup {<<"wr", "dijkstra">>}
           i == d \cup {<<"rd", "if_list">>}
           r == i \cup {<<"wr", "rtable">>}
           k == r \cup {<<"wr", "routers">>}
           R == Reads("routers") ** Reads("if_list") ** Writes("rtable")
<1>1. "rd" \in Modes /\ "wr" \in Modes /\ "dijkstra" \in Locks /\ Rank["dijkstra"] = 3
      /\ "if_list" \in Locks /\ Rank["if_list"] = 6 /\ "rtable" \in Locks /\ Rank["rtable"] = 7
      /\ "routers" \in Locks /\ Rank["routers"] = 8
  BY Ranks DEF Modes
<1>2. h \in SUBSET Holding /\ \A n : Below(h, n)
  BY DEF Below
<1>3. d \in SUBSET Holding /\ i \in SUBSET Holding /\ r \in SUBSET Holding /\ k \in SUBSET Holding
      /\ <<"wr", "rtable">> \in k
  BY <1>1 DEF Holding
<1> HIDE DEF h
<1>4. Below(d, 6)
  BY <1>1, <1>2, TakenBelow, SMTT(60)
<1> HIDE DEF d
<1>5. Below(i, 7)
  BY <1>1, <1>3, <1>4, TakenBelow
<1> HIDE DEF i
<1>6. Below(r, 8)
  BY <1>1, <1>3, <1>5, TakenBelow
<1> HIDE DEF r, k
<1>7. Leads(R, k, k)
  <2>1. Leads(Reads("routers") ** Reads("if_list"), k, k)
    BY <1>3, OpenLeads, LeadsJoin
  <2>2. Leads(Writes("rtable"), k, k)
    BY <1>1, <1>3, LeadsWrites
  <2> QED BY <2>1, <2>2, LeadsJoin
<1> HIDE DEF R
<1>8. Leads(Writing("routers", R), r, r)
  BY <1>1, <1>3, <1>6, <1>7, LeadsWriting DEF k
<1>9. Leads(Writing("rtable", Writing("routers", R)), i, i)
  BY <1>1, <1>3, <1>5, <1>8, LeadsWriting DEF r
<1>10. Leads(Reading("if_list", Writing("rtable", Writing("routers", R))), d, d)
  BY <1>1, <1>3, <1>4, <1>9, LeadsReading DEF i
<1>11. Leads(Writing("dijkstra", Reading("if_list", Writing("rtable", Writing("routers", R)))), h, h)
  BY <1>1, <1>2, <1>10, LeadsWriting DEF d
<1> QED BY <1>11 DEF DijkstraThread, R, h
-----------------------------------------------------------------------------
(* Commands                                                                *)

LEMMA UpDownLeads ==
    ASSUME NEW h \in SUBSET Holding, Below(h, 2)
    PROVE  Leads(UpDown, h, h)
<1> DEFINE i == h \cup {<<"wr", "if_list">>}
           r == i \cup {<<"wr", "rtable">>}
           P == Writing("routers", Propagate)
           M == Writes("if_list") ** Writes("rtable") ** Writes("routers") ** P
           R == Reads("if_list") ** Maybe(M)
<1>1. "wr" \in Modes /\ "if_list" \in Locks /\ Rank["if_list"] = 6
      /\ "rtable" \in Locks /\ Rank["rtable"] = 7
  BY Ranks DEF Modes
<1>2. Below(h, 6)
  BY StillBelow
<1>3. i \in SUBSET Holding /\ r \in SUBSET Holding /\ <<"wr", "rtable">> \in r
  BY <1>1 DEF Holding
<1>4. Below(i, 7)
  BY <1>1, <1>2, TakenBelow
<1> HIDE DEF i
<1>5. Below(r, 8)
  BY <1>1, <1>3, <1>4, TakenBelow
<1> HIDE DEF r
<1>6. Leads(M, r, r)
  <2>1. Leads(Writes("rtable"), r, r) /\ Leads(P, r, r)
    BY <1>1, <1>3, <1>5, LeadsWrites, RoutersLead
  <2> HIDE DEF P
  <2>2. Leads(Writes("if_list") ** Writes("rtable"), r, r)
    BY <1>3, <2>1, OpenLeads, LeadsJoin
  <2>3. Leads(Writes("if_list") ** Writes("rtable") ** Writes("routers"), r, r)
    BY <1>3, <2>2, OpenLeads, LeadsJoin
  <2> QED BY <2>1, <2>3, LeadsJoin
<1> HIDE DEF M
<1>7. Leads(R, r, r)
  BY <1>3, <1>6, OpenLeads, LeadsMaybe, LeadsJoin
<1> HIDE DEF R
<1>8. Leads(Writing("rtable", R), i, i)
  BY <1>1, <1>3, <1>4, <1>7, LeadsWriting DEF r
<1>9. Leads(Writing("if_list", Writing("rtable", R)), h, h)
  BY <1>1, <1>2, <1>8, LeadsWriting DEF i
<1> QED BY <1>9 DEF UpDown, R, M

LEMMA ShowLeads ==
    ASSUME NEW h \in SUBSET Holding, Below(h, 2)
    PROVE  Leads(ShowCommand, h, h)
<1> DEFINE s == h \cup {<<"wr", "stats">>}
<1>1. "arp_cache" \in Locks /\ Rank["arp_cache"] = 4 /\ "if_list" \in Locks /\ Rank["if_list"] = 6
      /\ "rtable" \in Locks /\ Rank["rtable"] = 7 /\ "stats" \in Locks /\ Rank["stats"] = 12
      /\ "wr" \in Modes
  BY Ranks DEF Modes
<1>2. Below(h, 4) /\ Below(h, 6) /\ Below(h, 7) /\ Below(h, 8) /\ Below(h, 12)
  BY StillBelow
<1>3. Leads(ShowArp, h, h)
  BY <1>1, <1>2, LeadsReadingIt DEF ShowArp, SprintArpCache
<1>4. Leads(ShowInterfaces, h, h) /\ Leads(ShowNeighbours, h, h)
  BY <1>1, <1>2, LeadsReadingIt DEF ShowInterfaces, SprintIfList, ShowNeighbours, SprintNeighbours
<1>5. Leads(ShowRouters, h, h)
  BY <1>2, RoutersLead DEF ShowRouters, SprintRouterList
<1>6. Leads(ShowRoutes, h, h)
  BY <1>1, <1>2, LeadsReadingIt DEF ShowRoutes, SprintRtable
<1>7. Leads(ShowStats, h, h)
  <2>1. s \in SUBSET Holding /\ Holds(s, "stats")
    BY <1>1 DEF Holding, Holds
  <2>2. Leads(Reads("stats"), s, s)
    BY <1>1, <2>1, LeadsReads
  <2> QED BY <1>1, <1>2, <2>2, LeadsWriting DEF ShowStats
<1>8. Leads(ShowPwospf, h, h)
  BY <1>4, <1>5, LeadsJoin DEF ShowPwospf
<1> DEFINE S1 == ShowArp \cup ShowInterfaces
           S2 == S1 \cup ShowNeighbours
           S3 == S2 \cup ShowRouters
           S4 == S3 \cup ShowRoutes
           S5 == S4 \cup ShowStats
<1>9. Leads(S1, h, h) /\ Leads(S2, h, h) /\ Leads(S3, h, h)
  BY <1>3, <1>4, <1>5, LeadsEither
<1> HIDE DEF S3
<1>10. Leads(S5, h, h)
  BY <1>6, <1>7, <1>9, LeadsEither
<1> HIDE DEF S5
<1>11. Leads(S5 \cup ShowPwospf, h, h)
  BY <1>8, <1>10, LeadsEither
<1> QED BY <1>11 DEF ShowCommand, S5, S3

LEMMA CommandLeads ==
    ASSUME NEW h \in SUBSET Holding, Below(h, 2), ~Pings
    PROVE  Leads(Command, h, h)
<1>1. "arp_cache" \in Locks /\ Rank["arp_cache"] = 4 /\ "if_list" \in Locks /\ Rank["if_list"] = 6
      /\ "rtable" \in Locks /\ Rank["rtable"] = 7
  BY Ranks
<1>2. Below(h, 4) /\ Below(h, 6) /\ Below(h, 7) /\ Below(h, 8)
  BY StillBelow
<1>3. Leads(InterfaceSet, h, h) /\ Leads(RouteCommand, h, h) /\ Leads(ArpCommand, h, h)
  BY <1>1, <1>2, LeadsWritingIt DEF InterfaceSet, RouteCommand, ArpCommand
<1>4. Leads(SendHello, h, h) /\ Leads(SendLsu, h, h)
  BY <1>2, HelloThreadLeads, RoutersLead DEF SendHello, SendLsu
<1>5. Leads(Sping, h, h)
  BY LeadsNone DEF Sping
<1>6. Leads(UpDown, h, h) /\ Leads(ShowCommand, h, h)
  BY UpDownLeads, ShowLeads
<1> DEFINE C1 == UpDown \cup InterfaceSet
           C2 == C1 \cup RouteCommand
           C3 == C2 \cup ArpCommand
           C4 == C3 \cup ShowCommand
           C5 == C4 \cup SendHello
           C6 == C5 \cup SendLsu
<1>7. Leads(C1, h, h) /\ Leads(C2, h, h) /\ Leads(C3, h, h)
  BY <1>3, <1>6, LeadsEither
<1> HIDE DEF C3
<1>8. Leads(C4, h, h) /\ Leads(C5, h, h)
  BY <1>4, <1>6, <1>7, LeadsEither
<1> HIDE DEF C5
<1>9. Leads(C6 \cup Sping, h, h)
  BY <1>4, <1>5, <1>8, LeadsEither
<1> QED BY <1>9 DEF Command, C5, C3

LEMMA WebCommandLeads ==
    ASSUME ~Pings
    PROVE  Leads(Command, {}, {}) /\ Leads(WebCommand, {}, {})
<1> DEFINE h == {}
           k == h \cup {<<"rd", "commands">>}
<1>1. "commands" \in Locks /\ Rank["commands"] = 1 /\ "rd" \in Modes
  BY Ranks DEF Modes
<1>2. h \in SUBSET Holding /\ \A n : Below(h, n)
  BY DEF Below
<1>3. k \in SUBSET Holding
  BY <1>1 DEF Holding
<1> HIDE DEF h
<1>4. Below(k, 2)
  BY <1>1, <1>2, TakenBelow
<1> HIDE DEF k
<1>5. Leads(Command, k, k) /\ Leads(Command, h, h)
  BY <1>2, <1>3, <1>4, CommandLeads
<1>6. Leads(WebCommand, h, h)
  BY <1>1, <1>2, <1>5, LeadsReading DEF WebCommand, k
<1> QED BY <1>5, <1>6 DEF h
-----------------------------------------------------------------------------
(* Every path of every thread keeps the order and ends with nothing held. *)

LEMMA EveryPathLeads ==
    ASSUME ~Masks, ~Unrouted, ~Pings
    PROVE  \A t \in Threads : Leads(PathsOf[t], {}, {})
<1>1. {} \in SUBSET Holding /\ Below({}, 8) /\ Below({}, 6) /\ Below({}, 11) /\ Below({}, 12)
  BY DEF Below
<1>2. "sping" \in Locks /\ Rank["sping"] = 11 /\ "stats" \in Locks /\ Rank["stats"] = 12
  BY Ranks
<1>3. Leads(HelloThread, {}, {}) /\ Leads(LsuThread, {}, {}) /\ Leads(TimeoutThread, {}, {})
  BY <1>1, HelloThreadLeads, LsuThreadLeads
<1>4. Leads(SpingCleanup, {}, {}) /\ Leads(StatsThread, {}, {})
  BY <1>1, <1>2, LeadsWritingIt DEF SpingCleanup, StatsThread
<1>5. Leads(Packets, {}, {}) /\ Leads(SendIpPacket \cup FindSrcIp, {}, {})
      /\ Leads(Command, {}, {}) /\ Leads(WebCommand, {}, {}) /\ Leads(ArpThread, {}, {})
      /\ Leads(BroadcastThread, {}, {}) /\ Leads(DijkstraThread, {}, {})
  BY PacketsLead, TransportLeads, WebCommandLeads, ArpThreadLeads, BroadcastThreadLeads,
     DijkstraThreadLeads
<1>6. Threads = {"input", "transport", "cli", "www", "arp", "hello", "lsu", "timeout", "bcast",
                  "dijkstra", "cleanup", "stats"}
  BY DEF Threads, PathsOf
<1>7. /\ Leads(PathsOf["input"], {}, {}) /\ Leads(PathsOf["transport"], {}, {})
      /\ Leads(PathsOf["cli"], {}, {}) /\ Leads(PathsOf["www"], {}, {})
      /\ Leads(PathsOf["arp"], {}, {}) /\ Leads(PathsOf["bcast"], {}, {})
      /\ Leads(PathsOf["dijkstra"], {}, {})
  BY <1>5 DEF PathsOf
<1>8. /\ Leads(PathsOf["hello"], {}, {}) /\ Leads(PathsOf["lsu"], {}, {})
      /\ Leads(PathsOf["timeout"], {}, {})
  BY <1>3 DEF PathsOf
<1>9. Leads(PathsOf["cleanup"], {}, {}) /\ Leads(PathsOf["stats"], {}, {})
  BY <1>4 DEF PathsOf
<1> QED BY <1>6, <1>7, <1>8, <1>9
-----------------------------------------------------------------------------
(* The threads                                                             *)

\* Who holds a lock for writing is alone with it.
Exclusive ==
    \A t, u \in Running : \A l \in Locks :
        t # u /\ <<"wr", l>> \in held[t] => ~Holds(held[u], l)

\* Every thread is on the rest of a path that keeps the order and gives all back.
OnPath(t) == left[t] \in Seq(LockStep) /\ held[t] \in SUBSET Holding /\ Runs(left[t], held[t], {})

TypeOK == /\ Running \subseteq Threads
          /\ left = [t \in Running |-> left[t]] /\ held = [t \in Running |-> held[t]]

Inv == TypeOK /\ (\A t \in Running : OnPath(t)) /\ Exclusive

LEMMA InitInv ==
    ASSUME Larger \subseteq SUBSET Threads, Init
    PROVE  Inv
<1>1. PICK S \in SUBSET Threads : left = [t \in S |-> <<>>]
  BY DEF Init
<1>2. Running = S /\ held = [t \in S |-> {}]
  BY <1>1 DEF Init, Running
<1>3. Runs(<<>>, {}, {})
  BY RunsNothing
<1>4. \A t \in Running : OnPath(t)
  BY <1>1, <1>2, <1>3 DEF OnPath
<1>5. TypeOK
  BY <1>1, <1>2 DEF TypeOK
<1>6. Exclusive
  BY <1>2 DEF Exclusive
<1> QED BY <1>4, <1>5, <1>6 DEF Inv

LEMMA StartInv ==
    ASSUME ~Masks, ~Unrouted, ~Pings, Inv, NEW t \in Running, Start(t)
    PROVE  Inv'
<1>1. PICK p \in PathsOf[t] : left' = [left EXCEPT ![t] = p] /\ UNCHANGED held
  BY DEF Start
<1>2. Running' = Running /\ t \in Threads
  BY <1>1 DEF Running, Inv, TypeOK
<1>3. TypeOK'
  BY <1>1, <1>2 DEF Inv, TypeOK, Running
<1>4. ASSUME NEW u \in Running PROVE OnPath(u)'
  <2>1. CASE u = t
    <3>1. p \in Seq(LockStep) /\ Runs(p, {}, {})
      BY <1>2, EveryPathLeads DEF Leads
    <3>2. left[t] = <<>> /\ Runs(left[t], held[t], {}) /\ held[t] \in SUBSET Holding
      BY DEF Start, Inv, OnPath
    <3>3. held[t] = {}
      BY <3>2, RunsEnd
    <3>4. left'[t] = p /\ held'[t] = {}
      BY <1>1, <3>3 DEF Inv, TypeOK, Running
    <3> QED BY <2>1, <3>1, <3>2, <3>3, <3>4 DEF OnPath
  <2>2. CASE u # t
    <3>1. left'[u] = left[u] /\ held'[u] = held[u] /\ OnPath(u)
      BY <1>1, <2>2 DEF Inv, TypeOK, Running
    <3> QED BY <3>1 DEF OnPath
  <2> QED BY <2>1, <2>2
<1>5. Exclusive'
  BY <1>1, <1>2 DEF Inv, Exclusive
<1> QED BY <1>2, <1>3, <1>4, <1>5 DEF Inv

\* What a thread has before it when it is under way.
LEMMA NextStep ==
    ASSUME Inv, NEW t \in Running, left[t] # <<>>
    PROVE  /\ Head(left[t]) \in LockStep /\ Tail(left[t]) \in Seq(LockStep)
           /\ Op(t) \in {"rd", "wr", "un", "read", "write"} /\ On(t) \in Locks
           /\ Head(left[t]) = <<Op(t), On(t)>>
           /\ \E j \in SUBSET Holding :
                 LockSound(<<Op(t), On(t)>>, held[t], j) /\ Runs(Tail(left[t]), j, {})
<1>1. left[t] \in Seq(LockStep) /\ Runs(left[t], held[t], {})
  BY DEF Inv, OnPath
<1>2. /\ Head(left[t]) \in LockStep /\ Tail(left[t]) \in Seq(LockStep)
      /\ \E j \in SUBSET Holding : LockSound(Head(left[t]), held[t], j) /\ Runs(Tail(left[t]), j, {})
  BY <1>1, RunsStep
<1>3. Op(t) \in {"rd", "wr", "un", "read", "write"} /\ On(t) \in Locks
      /\ Head(left[t]) = <<Op(t), On(t)>>
  BY <1>2 DEF Op, On, LockStep
<1> QED BY <1>2, <1>3

\* A step of t that changes what t has left and holds, and nothing else.
LEMMA MoveInv ==
    ASSUME Inv, NEW t \in Running, NEW p \in Seq(LockStep), NEW k \in SUBSET Holding, Runs(p, k, {}),
           left' = [left EXCEPT ![t] = p], held' = [held EXCEPT ![t] = k],
           \A u \in Running : \A l \in Locks : u # t =>
               /\ <<"wr", l>> \in k => ~Holds(held[u], l)
               /\ <<"wr", l>> \in held[u] => ~Holds(k, l)
    PROVE  Inv'
<1>1. Running' = Running /\ left'[t] = p /\ held'[t] = k
      /\ \A u \in Running : u # t => left'[u] = left[u] /\ held'[u] = held[u]
  BY DEF Inv, TypeOK, Running
<1>2. TypeOK'
  BY <1>1 DEF Inv, TypeOK, Running
<1>3. ASSUME NEW u \in Running PROVE OnPath(u)'
  <2>1. CASE u = t
    BY <1>1, <2>1 DEF OnPath
  <2>2. CASE u # t
    BY <1>1, <2>2 DEF Inv, OnPath
  <2> QED BY <2>1, <2>2
<1>4. Exclusive'
  <2> SUFFICES ASSUME NEW u \in Running, NEW v \in Running, NEW l \in Locks, u # v,
                      <<"wr", l>> \in held'[u]
               PROVE  ~Holds(held'[v], l)
    BY <1>1 DEF Exclusive
  <2>1. CASE u = t
    BY <1>1, <2>1
  <2>2. CASE v = t
    BY <1>1, <2>2
  <2>3. CASE u # t /\ v # t
    BY <1>1, <2>3 DEF Inv, Exclusive
  <2> QED BY <2>1, <2>2, <2>3
<1> QED BY <1>1, <1>2, <1>3, <1>4 DEF Inv

LEMMA TakeInv ==
    ASSUME Inv, NEW t \in Running, Take(t)
    PROVE  Inv'
<1>1. left[t] # <<>> /\ Op(t) \in Modes
  BY DEF Take, Modes
<1> DEFINE k == held[t] \cup {<<Op(t), On(t)>>}
<1>2. /\ Tail(left[t]) \in Seq(LockStep) /\ On(t) \in Locks /\ Head(left[t]) = <<Op(t), On(t)>>
      /\ Runs(Tail(left[t]), k, {}) /\ k \in SUBSET Holding
  <2>1. PICK j \in SUBSET Holding :
            LockSound(<<Op(t), On(t)>>, held[t], j) /\ Runs(Tail(left[t]), j, {})
    BY <1>1, NextStep
  <2>2. j = k
    BY <1>1, <2>1 DEF LockSound, Modes
  <2> QED BY <1>1, <2>1, <2>2, NextStep
<1>3. left' = [left EXCEPT ![t] = Tail(left[t])] /\ held' = [held EXCEPT ![t] = k]
  BY <1>2 DEF Take
<1>4. ASSUME NEW u \in Running, NEW l \in Locks, u # t
      PROVE  /\ <<"wr", l>> \in k => ~Holds(held[u], l)
             /\ <<"wr", l>> \in held[u] => ~Holds(k, l)
  <2>1. ~StopsAt(t, u)
    BY DEF Take
  <2>2. /\ <<"wr", l>> \in held[t] => ~Holds(held[u], l)
        /\ <<"wr", l>> \in held[u] => ~Holds(held[t], l)
    BY <1>4 DEF Inv, Exclusive
  <2>3. CASE l # On(t)
    BY <2>2, <2>3 DEF Holds
  <2>4. CASE l = On(t) /\ Op(t) = "rd"
    BY <2>1, <2>2, <2>4 DEF Holds, StopsAt
  <2>5. CASE l = On(t) /\ Op(t) = "wr"
    <3>1. {"rd", "wr"} \X {On(t)} \cap held[u] = {}
      BY <2>1, <2>5 DEF StopsAt
    <3>2. <<"rd", l>> \in {"rd", "wr"} \X {On(t)} /\ <<"wr", l>> \in {"rd", "wr"} \X {On(t)}
      BY <2>5
    <3> QED BY <3>1, <3>2 DEF Holds
  <2> QED BY <1>1, <2>3, <2>4, <2>5 DEF Modes
<1> HIDE DEF k
<1> QED BY <1>2, <1>3, <1>4, MoveInv

LEMMA GiveInv ==
    ASSUME Inv, NEW t \in Running, Give(t)
    PROVE  Inv'
<1>1. left[t] # <<>> /\ Op(t) = "un"
  BY DEF Give
<1> DEFINE k == held[t] \ ({"rd", "wr"} \X {On(t)})
<1>2. Tail(left[t]) \in Seq(LockStep) /\ Runs(Tail(left[t]), k, {}) /\ k \in SUBSET Holding
  <2>1. PICK j \in SUBSET Holding :
            LockSound(<<Op(t), On(t)>>, held[t], j) /\ Runs(Tail(left[t]), j, {})
    BY <1>1, NextStep
  <2>2. j = k
    BY <1>1, <2>1 DEF LockSound, Modes
  <2> QED BY <1>1, <2>1, <2>2, NextStep
<1>3. left' = [left EXCEPT ![t] = Tail(left[t])] /\ held' = [held EXCEPT ![t] = k]
  BY DEF Give
<1>4. ASSUME NEW u \in Running, NEW l \in Locks, u # t
      PROVE  /\ <<"wr", l>> \in k => ~Holds(held[u], l)
             /\ <<"wr", l>> \in held[u] => ~Holds(k, l)
  BY <1>4 DEF Inv, Exclusive, Holds
<1> HIDE DEF k
<1> QED BY <1>2, <1>3, <1>4, MoveInv

LEMMA TouchInv ==
    ASSUME Inv, NEW t \in Running, Touch(t)
    PROVE  Inv'
<1>1. left[t] # <<>> /\ Op(t) \in {"read", "write"}
  BY DEF Touch
<1>2. Tail(left[t]) \in Seq(LockStep) /\ Runs(Tail(left[t]), held[t], {}) /\ held[t] \in SUBSET Holding
  <2>1. PICK j \in SUBSET Holding :
            LockSound(<<Op(t), On(t)>>, held[t], j) /\ Runs(Tail(left[t]), j, {})
    BY <1>1, NextStep
  <2>2. j = held[t]
    BY <1>1, <2>1 DEF LockSound, Modes
  <2> QED BY <1>1, <2>1, <2>2, NextStep
<1>3. left' = [left EXCEPT ![t] = Tail(left[t])] /\ held' = [held EXCEPT ![t] = held[t]]
  BY DEF Touch, Inv, TypeOK
<1>4. ASSUME NEW u \in Running, NEW l \in Locks, u # t
      PROVE  /\ <<"wr", l>> \in held[t] => ~Holds(held[u], l)
             /\ <<"wr", l>> \in held[u] => ~Holds(held[t], l)
  BY <1>4 DEF Inv, Exclusive
<1> QED BY <1>2, <1>3, <1>4, MoveInv

LEMMA NextInv ==
    ASSUME ~Masks, ~Unrouted, ~Pings, Inv, [Next]_vars
    PROVE  Inv'
<1>1. CASE UNCHANGED vars
  BY <1>1 DEF vars, Inv, TypeOK, OnPath, Exclusive, Running
<1>2. CASE Next
  BY <1>2, StartInv, TakeInv, GiveInv, TouchInv DEF Next
<1> QED BY <1>1, <1>2
-----------------------------------------------------------------------------
(* What follows                                                            *)

\* Of some threads, the one that waits for the last lock in the order.
LEMMA LastWaits ==
    ASSUME NEW S, S # {}, NEW rank \in [S -> 1 .. 14]
    PROVE  \E t \in S : \A u \in S : rank[u] <= rank[t]
<1> DEFINE T == {n \in Nat : \E t \in S : n = 14 - rank[t]}
           R == OpToRel(<, Nat)
<1>1. T \subseteq Nat /\ T # {}
  <2>1. PICK t \in S : TRUE
    OBVIOUS
  <2>2. 14 - rank[t] \in Nat
    OBVIOUS
  <2> QED BY <2>1, <2>2
<1>2. PICK n \in T : \A m \in T : ~(<<m, n>> \in R)
  BY <1>1, NatLessThanWellFounded, WFMin
<1>3. PICK t \in S : n = 14 - rank[t]
  OBVIOUS
<1>4. ASSUME NEW u \in S PROVE rank[u] <= rank[t]
  <2>1. 14 - rank[u] \in T
    OBVIOUS
  <2>2. ~(14 - rank[u] < 14 - rank[t])
    BY <1>2, <1>3, <2>1 DEF OpToRel
  <2> QED BY <2>2
<1> QED BY <1>4

LEMMA Deadlocks ==
    ASSUME Inv
    PROVE  NoDeadlock
<1> SUFFICES ASSUME NEW S \in (SUBSET Running) \ {{}},
                    \A t \in S : left[t] # <<>> /\ \E u \in S : StopsAt(t, u)
             PROVE  FALSE
  BY DEF NoDeadlock
<1>1. \A t \in S : /\ Op(t) \in Modes /\ On(t) \in Locks /\ Rank[On(t)] \in 1 .. 14
                   /\ Below(held[t], Rank[On(t)])
  <2> SUFFICES ASSUME NEW t \in S
               PROVE  Op(t) \in Modes /\ On(t) \in Locks /\ Below(held[t], Rank[On(t)])
    BY Ranks
  <2>1. Op(t) \in Modes /\ left[t] # <<>> /\ t \in Running
    BY DEF StopsAt, Modes
  <2>2. PICK j \in SUBSET Holding : LockSound(<<Op(t), On(t)>>, held[t], j)
    BY <2>1, NextStep
  <2> QED BY <2>1, <2>2, NextStep DEF LockSound, Modes
<1> DEFINE rank == [t \in S |-> Rank[On(t)]]
<1>2. rank \in [S -> 1 .. 14]
  BY <1>1
<1>n. S # {}
  OBVIOUS
<1> HIDE DEF rank
<1>3. PICK t \in S : \A u \in S : rank[u] <= rank[t]
  BY <1>2, <1>n, LastWaits
<1>4. PICK u \in S : StopsAt(t, u)
  OBVIOUS
<1>5. PICK x \in held[u] : x[2] = On(t)
  BY <1>4 DEF StopsAt
<1>6. Rank[On(t)] < Rank[On(u)]
  BY <1>1, <1>5 DEF Below
<1>7. Rank[On(u)] <= Rank[On(t)]
  BY <1>3 DEF rank
<1>8. Rank[On(u)] \in Int /\ Rank[On(t)] \in Int
  BY <1>1
<1> QED BY <1>6, <1>7, <1>8

LEMMA Rests ==
    ASSUME Inv
    PROVE  NothingHeld
<1> SUFFICES ASSUME NEW t \in Running, left[t] = <<>>
             PROVE  held[t] = {}
  BY DEF NothingHeld
<1>1. Runs(<<>>, held[t], {})
  BY DEF Inv, OnPath
<1> QED BY <1>1, RunsEnd

LEMMA Races ==
    ASSUME Inv
    PROVE  NoRaces
<1> SUFFICES ASSUME NEW t \in Running, NEW u \in Running, t # u, Conflict(t, u), On(t) \notin Open
             PROVE  FALSE
  BY DEF NoRaces, Open
<1>1. /\ left[t] # <<>> /\ left[u] # <<>> /\ On(t) = On(u)
      /\ Op(t) = "write" /\ Op(u) \in {"read", "write"}
  BY DEF Conflict
<1>2. On(t) \in Locks /\ <<"wr", On(t)>> \in held[t]
  <2>1. PICK j \in SUBSET Holding : LockSound(<<Op(t), On(t)>>, held[t], j)
    BY <1>1, NextStep
  <2> QED BY <1>1, <2>1, NextStep DEF LockSound, Modes
<1>3. Holds(held[u], On(u))
  <2>1. PICK j \in SUBSET Holding : LockSound(<<Op(u), On(u)>>, held[u], j)
    BY <1>1, NextStep
  <2> QED BY <1>1, <2>1 DEF LockSound, Modes, Holds
<1> QED BY <1>1, <1>2, <1>3 DEF Inv, Exclusive

\* The locks of scone's threads (or_main.c and the handlers of the packets, commands and
\* timers) for any number of them: taken in one order, given back by every path, so that no
\* set of threads waits in a circle.  The three paths that break the order are left out:
\* process_pwospf_hello_packet with another mask, send_ip_packet without a route, and sping.
THEOREM LocksStaySound ==
    ASSUME Larger \subseteq SUBSET Threads, ~Masks, ~Unrouted, ~Pings
    PROVE  Spec => []LocksSound
<1>1. Init => Inv
  BY InitInv
<1>2. Inv /\ [Next]_vars => Inv'
  BY NextInv
<1>3. Inv => LocksSound
  BY Deadlocks, Rests DEF LocksSound
<1> QED BY <1>1, <1>2, <1>3, PTL DEF Spec

\* Routes, ARP tables, the queue of LSUs, pings and counters are never written by one thread
\* while another reads or writes them, with any number of threads and on the same paths.
THEOREM GuardedDataStaysApart ==
    ASSUME Larger \subseteq SUBSET Threads, ~Masks, ~Unrouted, ~Pings
    PROVE  Spec => []NoRaces
<1>1. Init => Inv
  BY InitInv
<1>2. Inv /\ [Next]_vars => Inv'
  BY NextInv
<1>3. Inv => NoRaces
  BY Races
<1> QED BY <1>1, <1>2, <1>3, PTL DEF Spec

-----------------------------------------------------------------------------
(* Ordered lists *)

\* The instance has the operators of FiniteSets under names of its own.
LEMMA Sizes == \A S : routing!Cardinality(S) = Cardinality(S) /\ routing!IsFiniteSet(S) = IsFiniteSet(S)
  BY DEF Cardinality, routing!Cardinality, IsFiniteSet, routing!IsFiniteSet

\* R is a strict order of S.
Orders(R, S) ==
    /\ \A i \in S : <<i, i>> \notin R
    /\ \A i, j \in S : i # j => <<i, j>> \in R \/ <<j, i>> \in R
    /\ \A i, j, k \in S : <<i, j>> \in R /\ <<j, k>> \in R => <<i, k>> \in R

\* The list o of length n has the members of S, each once, in that order.
Lists(o, n, S, R) ==
    /\ n \in Nat /\ o \in [1 .. n -> S]
    /\ \A i \in S : \E k \in 1 .. n : o[k] = i
    /\ \A k, m \in 1 .. n : k < m => <<o[k], o[m]>> \in R

\* A strict order of a finite set lists its members, each once, along the order.
LEMMA OrderedLists ==
    ASSUME NEW S, IsFiniteSet(S), NEW R, Orders(R, S)
    PROVE  Lists(routing!Ordered(S, R), Cardinality(S), S, R)
<1> DEFINE n == Cardinality(S)
           ahead(i) == {j \in S : <<j, i>> \in R}
           rank == [i \in S |-> Cardinality(ahead(i)) + 1]
           o == routing!Ordered(S, R)
<1>1. n \in Nat
  BY FS_CardinalityType
<1>d. /\ \A i \in S : <<i, i>> \notin R
      /\ \A i, j \in S : i # j => <<i, j>> \in R \/ <<j, i>> \in R
      /\ \A i, j, k \in S : <<i, j>> \in R /\ <<j, k>> \in R => <<i, k>> \in R
  BY DEF Orders
<1>a. \A i \in S : ahead(i) \in SUBSET S /\ \A j \in S : j \in ahead(i) <=> <<j, i>> \in R
  OBVIOUS
<1>b. o = [k \in 1 .. n |-> CHOOSE i \in S : routing!Cardinality(ahead(i)) = k - 1]
  BY Sizes DEF routing!Ordered
<1>c. \A k \in 1 .. n : o[k] = CHOOSE i \in S : Cardinality(ahead(i)) = k - 1
  BY Sizes DEF routing!Ordered
<1> HIDE DEF ahead, n, o
<1>2. ASSUME NEW i \in S PROVE IsFiniteSet(ahead(i)) /\ Cardinality(ahead(i)) \in 0 .. n - 1
  <2>1. IsFiniteSet(S \ {i}) /\ Cardinality(S \ {i}) = n - 1
    BY FS_RemoveElement DEF n
  <2>2. ahead(i) \in SUBSET (S \ {i})
    BY <1>a, <1>d
  <2>3. IsFiniteSet(ahead(i)) /\ Cardinality(ahead(i)) <= Cardinality(S \ {i})
    BY <2>1, <2>2, FS_Subset, Zenon
  <2>4. Cardinality(ahead(i)) \in Nat
    BY <2>3, FS_CardinalityType, Zenon
  <2> QED BY <1>1, <2>1, <2>3, <2>4
<1>3. ASSUME NEW i \in S, NEW j \in S, <<i, j>> \in R
      PROVE  Cardinality(ahead(i)) < Cardinality(ahead(j))
  <2>0. i \in ahead(j) /\ IsFiniteSet(ahead(j))
    BY <1>2, <1>3, <1>a
  <2>1. IsFiniteSet(ahead(j) \ {i}) /\ Cardinality(ahead(j) \ {i}) = Cardinality(ahead(j)) - 1
    BY <2>0, FS_RemoveElement
  <2>2. ahead(i) \in SUBSET (ahead(j) \ {i})
    BY <1>3, <1>a, <1>d
  <2>3. Cardinality(ahead(i)) <= Cardinality(ahead(j) \ {i})
    BY <2>1, <2>2, FS_Subset, Zenon
  <2> QED BY <1>1, <1>2, <2>1, <2>3
<1>4. rank \in [S -> 1 .. n] /\ \A i \in S : Cardinality(ahead(i)) = rank[i] - 1
  BY <1>1, <1>2
<1>5. \A i, j \in S : <<i, j>> \in R => rank[i] < rank[j]
  BY <1>1, <1>3, <1>4
<1> HIDE DEF rank
<1>6. ASSUME NEW i \in S, NEW j \in S, rank[i] = rank[j] PROVE i = j
  <2>1. ~(rank[i] < rank[j]) /\ ~(rank[j] < rank[i])
    BY <1>1, <1>4, <1>6
  <2> QED BY <1>5, <1>d, <2>1
<1>7. \A k \in 1 .. n : \E i \in S : rank[i] = k
  <2>1. rank \in Injection(S, 1 .. n)
    BY <1>4, <1>6 DEF Injection, IsInjective
  <2>2. IsFiniteSet(1 .. n) /\ Cardinality(1 .. n) = n
    BY <1>1, FS_Interval
  <2>3. rank \in Surjection(S, 1 .. n)
    BY <2>1, <2>2, FS_Injection DEF n
  <2> QED BY <2>3 DEF Surjection
<1>8. ASSUME NEW k \in 1 .. n PROVE o[k] \in S /\ rank[o[k]] = k
  <2>1. PICK i \in S : rank[i] = k
    BY <1>7
  <2>2. Cardinality(ahead(i)) = k - 1
    BY <1>4, <2>1
  <2>3. o[k] \in S /\ Cardinality(ahead(o[k])) = k - 1
    BY <1>c, <2>2
  <2> QED BY <1>4, <2>3
<1>9. o \in [1 .. n -> S]
  BY <1>8, <1>b
<1>10. \A i \in S : \E k \in 1 .. n : o[k] = i
  BY <1>4, <1>6, <1>8
<1>11. ASSUME NEW k \in 1 .. n, NEW m \in 1 .. n, k < m PROVE <<o[k], o[m]>> \in R
  <2>1. o[k] \in S /\ o[m] \in S /\ rank[o[k]] < rank[o[m]]
    BY <1>8, <1>11
  <2>2. o[k] # o[m] /\ ~(<<o[m], o[k]>> \in R)
    BY <1>1, <1>4, <1>5, <2>1
  <2> QED BY <2>1, <2>2, <1>d
<1> QED BY <1>1, <1>9, <1>10, <1>11 DEF n, o, Lists

\* The entries at S, in the order of the list.
LEMMA KeptLists ==
    ASSUME NEW T, NEW l \in Seq(T), NEW S \in SUBSET (1 .. Len(l))
    PROVE  /\ Cardinality(S) \in Nat
           /\ routing!Kept(l, S) \in Seq(T)
           /\ Len(routing!Kept(l, S)) = Cardinality(S)
           /\ \E f \in [1 .. Cardinality(S) -> S] :
                /\ \A k \in 1 .. Cardinality(S) : routing!Kept(l, S)[k] = l[f[k]]
                /\ \A i \in S : \E k \in 1 .. Cardinality(S) : f[k] = i
                /\ \A k, m \in 1 .. Cardinality(S) : k < m => f[k] < f[m]
<1> DEFINE R == {p \in S \X S : p[1] < p[2]}
           o == routing!Ordered(S, R)
           n == Cardinality(S)
<1>1. IsFiniteSet(S)
  <2>1. IsFiniteSet(1 .. Len(l))
    BY FS_Interval, Len(l) \in Nat
  <2> QED BY <2>1, FS_Subset, Zenon
<1>2. S \subseteq Int
  OBVIOUS
<1>3. \A i, j \in S : <<i, j>> \in R <=> i < j
  OBVIOUS
<1> HIDE DEF R
<1>4. /\ n \in Nat /\ o \in [1 .. n -> S]
      /\ \A i \in S : \E k \in 1 .. n : o[k] = i
      /\ \A k, m \in 1 .. n : k < m => <<o[k], o[m]>> \in R
  <2>1. Orders(R, S)
    BY <1>2, <1>3 DEF Orders
  <2>2. Lists(o, n, S, R)
    BY <1>1, <2>1, OrderedLists
  <2> QED BY <2>2 DEF Lists
<1> HIDE DEF o, n
<1>5. routing!Kept(l, S) = [k \in 1 .. n |-> l[o[k]]]
  BY Sizes DEF routing!Kept, R, o, n
<1>6. \A k \in 1 .. n : o[k] \in 1 .. Len(l) /\ l[o[k]] \in T
  <2>1. \A i \in 1 .. Len(l) : l[i] \in T
    OBVIOUS
  <2>2. \A k \in 1 .. n : o[k] \in S
    BY <1>4
  <2> QED BY <2>1, <2>2
<1>7. routing!Kept(l, S) \in Seq(T) /\ Len(routing!Kept(l, S)) = n
  BY <1>4, <1>5, <1>6
<1>8. \A k, m \in 1 .. n : k < m => o[k] < o[m]
  BY <1>3, <1>4
<1> QED BY <1>4, <1>5, <1>7, <1>8 DEF n
-----------------------------------------------------------------------------
(* The table and its image *)

Entries == [ip : routing!Addrs, mask : 0 .. Width, gw : Nat, iface : STRING,
            active : BOOLEAN, static : BOOLEAN]

\* A list with its longest masks first.
Descending(l) == \A k, m \in 1 .. Len(l) : k < m => l[m].mask <= l[k].mask

\* trigger_rtable_modified: the sort leaves entries, longest masks first.
LEMMA SortedDescends ==
    ASSUME NEW l \in Seq(Entries)
    PROVE  routing!Sorted(l) \in Seq(Entries) /\ Descending(routing!Sorted(l))
<1> DEFINE D == 1 .. Len(l)
           R == {p \in D \X D : routing!Ahead(l, p[1], p[2])}
           o == routing!Ordered(D, R)
           n == Len(l)
<1>1. n \in Nat /\ IsFiniteSet(D) /\ Cardinality(D) = n
  <2>1. n \in Nat
    OBVIOUS
  <2> QED BY <2>1, FS_Interval
<1>2. \A i \in D : l[i].mask \in Int /\ l[i].ip \in Int /\ l[i].static \in BOOLEAN
  <2>1. \A i \in D : l[i] \in Entries
    OBVIOUS
  <2>2. \A e \in Entries : e.mask \in 0 .. Width /\ e.ip \in routing!Addrs /\ e.static \in BOOLEAN
    BY DEF Entries
  <2>3. 0 .. Width \subseteq Int /\ routing!Addrs \subseteq Int
    BY DEF routing!Addrs
  <2> QED BY <2>1, <2>2, <2>3
<1>3. \A i, j \in D : <<i, j>> \in R <=> routing!Ahead(l, i, j)
  OBVIOUS
<1>4. Orders(R, D)
  <2> HIDE DEF R
  <2>1. \A i \in D : ~routing!Ahead(l, i, i)
    BY <1>1, <1>2 DEF routing!Ahead, routing!Below
  <2>2. \A i, j \in D : i # j => routing!Ahead(l, i, j) \/ routing!Ahead(l, j, i)
    BY <1>1, <1>2 DEF routing!Ahead, routing!Below
  <2>3. ASSUME NEW i \in D, NEW j \in D, NEW k \in D, routing!Ahead(l, i, j), routing!Ahead(l, j, k)
        PROVE  routing!Ahead(l, i, k)
    BY <1>1, <1>2, <2>3 DEF routing!Ahead, routing!Below
  <2> HIDE DEF D
  <2> QED BY <1>3, <2>1, <2>2, <2>3 DEF Orders
<1>5. Lists(o, n, D, R)
  <2> HIDE DEF R, D
  <2>1. Lists(o, Cardinality(D), D, R)
    BY <1>1, <1>4, OrderedLists
  <2> QED BY <1>1, <2>1
<1>6. routing!Sorted(l) = [k \in 1 .. n |-> l[o[k]]]
  BY DEF routing!Sorted
<1> HIDE DEF o, R, n
<1>7. /\ \A k \in 1 .. n : o[k] \in D /\ l[o[k]] \in Entries
      /\ \A k, m \in 1 .. n : k < m => routing!Ahead(l, o[k], o[m])
  <2>1. \A k \in 1 .. n : o[k] \in D
    BY <1>5 DEF Lists
  <2>2. \A i \in D : l[i] \in Entries
    OBVIOUS
  <2>3. \A k, m \in 1 .. n : k < m => <<o[k], o[m]>> \in R
    BY <1>5 DEF Lists
  <2> QED BY <1>3, <2>1, <2>2, <2>3
<1>8. routing!Sorted(l) \in Seq(Entries) /\ Len(routing!Sorted(l)) = n
  BY <1>1, <1>6, <1>7
<1>9. \A i, j \in D : routing!Ahead(l, i, j) => l[j].mask <= l[i].mask
  BY <1>2 DEF routing!Ahead, routing!Below
<1>10. \A k, m \in 1 .. n : k < m => l[o[m]].mask <= l[o[k]].mask
  BY <1>7, <1>9
<1>11. \A k \in 1 .. n : routing!Sorted(l)[k] = l[o[k]]
  BY <1>6
<1> QED BY <1>8, <1>10, <1>11 DEF Descending

\* The table is sorted and the hardware has its image.
RtableInv ==
    /\ rtable \in Seq(Entries)
    /\ Descending(rtable)
    /\ hw = routing!HwImage(rtable)

LEMMA ModifiedKeeps ==
    ASSUME NEW l \in Seq(Entries), routing!Modified(l)
    PROVE  RtableInv'
  BY SortedDescends DEF routing!Modified, RtableInv, Descending

LEMMA EntryOf ==
    ASSUME NEW r \in [ip : routing!Addrs, mask : 0 .. Width, gw : Nat, iface : STRING],
           NEW b \in BOOLEAN
    PROVE  routing!Entry(r, b) \in Entries
  BY DEF routing!Entry, Entries

LEMMA FlaggedEntry ==
    ASSUME NEW e \in Entries, NEW b \in BOOLEAN
    PROVE  [e EXCEPT !.active = b] \in Entries
  BY DEF Entries

LEMMA RoutesTyped ==
    /\ Width \in Nat /\ HwRows \in Nat /\ MaxRoutes \in Nat /\ NoGateway \in Nat
    /\ Statics \subseteq routing!Routes
    /\ \A D \in Dynamics : D \subseteq routing!Routes /\ IsFiniteSet(D)
  BY RoutesAssumption, Sizes DEF routing!RtableAssumption

\* SetToSeq lists a finite set.
LEMMA SetListed ==
    ASSUME NEW T, NEW S \in SUBSET T, IsFiniteSet(S)
    PROVE  routing!SetToSeq(S) \in Seq(T)
<1>1. Cardinality(S) \in Nat /\ ExistsBijection(1 .. Cardinality(S), S)
  BY FS_CardinalityType
<1>2. PICK f \in [1 .. Cardinality(S) -> S] : routing!IsInjective(f)
  BY <1>1 DEF ExistsBijection, Bijection, Injection, IsInjective, routing!IsInjective
<1>3. routing!SetToSeq(S) \in [1 .. Cardinality(S) -> S]
  BY <1>2, Sizes DEF routing!SetToSeq
<1> QED BY <1>1, <1>3

LEMMA RtableStep ==
    ASSUME RtableInv, routing!Next PROVE RtableInv'
<1>0. rtable \in Seq(Entries)
  BY DEF RtableInv
<1>1. ASSUME NEW r \in Statics, routing!RouteAdd(r) PROVE RtableInv'
  <2> DEFINE e == routing!Entry(r, TRUE)
  <2>1. e \in Entries
    BY RoutesTyped, EntryOf DEF routing!Routes
  <2>2. Append(rtable, e) \in Seq(Entries)
    <3> HIDE DEF e
    <3> QED BY <1>0, <2>1
  <2> QED BY <1>1, <2>2, ModifiedKeeps DEF routing!RouteAdd
<1>2. ASSUME NEW ip, NEW mask, routing!RouteDel(ip, mask) PROVE RtableInv'
  BY <1>0, <1>2, KeptLists, ModifiedKeeps DEF routing!RouteDel
<1>3. ASSUME NEW ifc, routing!Deactivate(ifc) PROVE RtableInv'
  <2> DEFINE S == {i \in 1 .. Len(rtable) : rtable[i].iface # ifc \/ rtable[i].static}
             kept == routing!Kept(rtable, S)
             l == [i \in 1 .. Len(kept) |-> [kept[i] EXCEPT !.active = @ /\ kept[i].iface # ifc]]
  <2>1. kept \in Seq(Entries)
    BY <1>0, KeptLists
  <2>2. routing!Modified(l)
    BY <1>3 DEF routing!Deactivate
  <2> HIDE DEF kept
  <2>3. \A i \in 1 .. Len(kept) : l[i] \in Entries
    <3> SUFFICES ASSUME NEW i \in 1 .. Len(kept) PROVE l[i] \in Entries
      OBVIOUS
    <3>1. kept[i] \in Entries
      BY <2>1
    <3>2. (kept[i].active /\ kept[i].iface # ifc) \in BOOLEAN
      OBVIOUS
    <3>3. l[i] = [kept[i] EXCEPT !.active = kept[i].active /\ kept[i].iface # ifc]
      OBVIOUS
    <3> HIDE DEF l
    <3> QED BY <3>1, <3>2, <3>3, FlaggedEntry
  <2>4. l \in Seq(Entries)
    BY <2>1, <2>3
  <2> HIDE DEF l
  <2> QED BY <2>2, <2>4, ModifiedKeeps
<1>4. ASSUME NEW ifc, routing!Activate(ifc) PROVE RtableInv'
  <2> DEFINE l == [i \in 1 .. Len(rtable) |-> [rtable[i] EXCEPT !.active = @ \/ rtable[i].iface = ifc]]
  <2>2. routing!Modified(l)
    BY <1>4 DEF routing!Activate
  <2>3. \A i \in 1 .. Len(rtable) : l[i] \in Entries
    <3> SUFFICES ASSUME NEW i \in 1 .. Len(rtable) PROVE l[i] \in Entries
      OBVIOUS
    <3>1. rtable[i] \in Entries
      BY <1>0
    <3>2. (rtable[i].active \/ rtable[i].iface = ifc) \in BOOLEAN
      OBVIOUS
    <3>3. l[i] = [rtable[i] EXCEPT !.active = rtable[i].active \/ rtable[i].iface = ifc]
      OBVIOUS
    <3> HIDE DEF l
    <3> QED BY <3>1, <3>2, <3>3, FlaggedEntry
  <2>4. l \in Seq(Entries)
    BY <1>0, <2>3
  <2> HIDE DEF l
  <2> QED BY <2>2, <2>4, ModifiedKeeps
<1>5. ASSUME NEW C \in Dynamics, routing!InstallDynamic(C) PROVE RtableInv'
  <2> DEFINE static == routing!Kept(rtable, {i \in 1 .. Len(rtable) : rtable[i].static})
             S == routing!SetToSeq(C)
             l == [i \in 1 .. Len(S) |-> routing!Entry(S[i], FALSE)]
  <2>1. static \in Seq(Entries)
    BY <1>0, KeptLists
  <2>2. S \in Seq(routing!Routes)
    BY RoutesTyped, SetListed
  <2>3. routing!Modified(static \o l)
    BY <1>5 DEF routing!InstallDynamic
  <2> HIDE DEF S, static
  <2>4. \A i \in 1 .. Len(S) : l[i] \in Entries
    <3>1. \A i \in 1 .. Len(S) : S[i] \in routing!Routes
      BY <2>2
    <3> QED BY <3>1, EntryOf DEF routing!Routes
  <2>5. l \in Seq(Entries)
    <3>1. Len(S) \in Nat
      BY <2>2
    <3>2. l = [i \in 1 .. Len(S) |-> l[i]]
      OBVIOUS
    <3> HIDE DEF l
    <3> QED BY <2>4, <3>1, <3>2
  <2> HIDE DEF l
  <2>6. static \o l \in Seq(Entries)
    BY <2>1, <2>5
  <2> QED BY <2>3, <2>6, ModifiedKeeps
<1> QED BY <1>1, <1>2, <1>3, <1>4, <1>5 DEF routing!Next

LEMMA RtableStart ==
    ASSUME routing!Init PROVE RtableInv
<1>1. rtable = << >> /\ hw = [i \in 1 .. HwRows |-> routing!Zero]
  BY DEF routing!Init
<1>2. rtable \in Seq(Entries) /\ Descending(rtable)
  BY <1>1 DEF Descending
<1>3. {i \in 1 .. Len(rtable) : rtable[i].active} = {}
  BY <1>1
<1>4. Len(routing!Active(rtable)) = 0
  <2>1. Len(routing!Kept(rtable, {})) = Cardinality({})
    BY <1>2, KeptLists
  <2> QED BY <1>3, <2>1, FS_EmptySet DEF routing!Active
<1>5. routing!HwImage(rtable) = [i \in 1 .. HwRows |-> routing!Zero]
  BY <1>4, RoutesTyped DEF routing!HwImage
<1> QED BY <1>1, <1>2, <1>5 DEF RtableInv

\* The least member of a set of numbers is its minimum.
LEMMA LeastNumber ==
    ASSUME NEW S \in SUBSET Nat, NEW x \in S, \A y \in S : x <= y
    PROVE  routing!Min(S) = x
<1>1. routing!Min(S) \in S /\ \A y \in S : routing!Min(S) <= y
  BY DEF routing!Min
<1>2. routing!Min(S) \in Nat /\ x \in Nat /\ routing!Min(S) <= x /\ x <= routing!Min(S)
  BY <1>1
<1> QED BY <1>2

\* write_rtable_to_hw and the order of the table: the first row that matches is that of
\* the longest match.
LEMMA ImageAgrees ==
    ASSUME RtableInv PROVE routing!HwAgrees
<1> DEFINE A == {i \in 1 .. Len(rtable) : rtable[i].active}
           active == routing!Active(rtable)
           n == Cardinality(A)
<1>1. rtable \in Seq(Entries) /\ Len(rtable) \in Nat /\ HwRows \in Nat
  BY RoutesTyped DEF RtableInv
<1>2. /\ n \in Nat /\ Len(active) = n
      /\ \E f \in [1 .. n -> A] :
            /\ \A k \in 1 .. n : active[k] = rtable[f[k]]
            /\ \A i \in A : \E k \in 1 .. n : f[k] = i
            /\ \A k, m \in 1 .. n : k < m => f[k] < f[m]
  <2>1. A \in SUBSET (1 .. Len(rtable)) /\ active = routing!Kept(rtable, A)
    BY DEF routing!Active
  <2> HIDE DEF A, active
  <2> QED BY <1>1, <2>1, KeptLists
<1> HIDE DEF n
<1>3. PICK f \in [1 .. n -> A] :
            /\ \A k \in 1 .. n : active[k] = rtable[f[k]]
            /\ \A i \in A : \E k \in 1 .. n : f[k] = i
            /\ \A k, m \in 1 .. n : k < m => f[k] < f[m]
  BY <1>2
<1>4. SUFFICES ASSUME n <= HwRows, NEW dest, routing!NextHop(dest) # << >>
               PROVE  routing!HwHop(dest) = routing!NextHop(dest)
  BY <1>2 DEF routing!HwAgrees
<1> DEFINE M == {i \in 1 .. Len(rtable) : rtable[i].active /\ routing!Matches(rtable[i], dest)}
           B == {i \in M : \A j \in M : rtable[j].mask <= rtable[i].mask}
           H == {j \in 1 .. HwRows : routing!Matches(hw[j], dest)}
<1>5. M # {}
  BY <1>4 DEF routing!NextHop
<1>6. PICK i \in M : \A j \in M : i <= j
  <2>1. M \in SUBSET Nat
    BY <1>1
  <2> HIDE DEF M
  <2> QED BY <1>5, <2>1, Least
<1>7. routing!Min(B) = i
  <2>1. \A j \in M : rtable[j].mask \in Int
    <3>1. \A j \in M : rtable[j] \in Entries
      BY <1>1
    <3>2. \A e \in Entries : e.mask \in 0 .. Width
      BY DEF Entries
    <3>3. 0 .. Width \subseteq Int
      OBVIOUS
    <3> QED BY <3>1, <3>2, <3>3
  <2>2. \A j \in M : rtable[j].mask <= rtable[i].mask
    BY <1>1, <1>6, <2>1 DEF RtableInv, Descending
  <2>3. i \in B /\ B \in SUBSET Nat /\ \A j \in B : i <= j
    BY <1>1, <1>6, <2>2
  <2> QED BY <2>3, LeastNumber
<1>8. PICK k \in 1 .. n : f[k] = i
  BY <1>3, <1>6
<1>9. \A m \in 1 .. n : hw[m] = routing!Row(rtable[f[m]])
  <2>1. hw = [m \in 1 .. HwRows |-> IF m <= n THEN routing!Row(active[m]) ELSE routing!Zero]
    BY <1>2 DEF RtableInv, routing!HwImage
  <2> QED BY <1>1, <1>2, <1>3, <1>4, <2>1
<1>10. \A m \in 1 .. n : m \in H <=> f[m] \in M
  <2>1. \A e : routing!Matches(routing!Row(e), dest) <=> routing!Matches(e, dest)
    BY DEF routing!Matches, routing!Row
  <2> SUFFICES ASSUME NEW m \in 1 .. n PROVE m \in H <=> f[m] \in M
    OBVIOUS
  <2>2. m \in 1 .. HwRows
    BY <1>1, <1>2, <1>4
  <2>3. f[m] \in 1 .. Len(rtable) /\ rtable[f[m]].active
    BY <1>3
  <2>4. routing!Matches(hw[m], dest) <=> routing!Matches(rtable[f[m]], dest)
    BY <1>9, <2>1
  <2> QED BY <2>2, <2>3, <2>4
<1>11. routing!Min(H) = k
  <2>1. k \in H
    BY <1>6, <1>8, <1>10
  <2>2. ASSUME NEW m \in H, m < k PROVE FALSE
    <3>1. m \in 1 .. n /\ f[m] \in M
      BY <1>1, <1>2, <1>10, <2>2
    <3>2. f[m] < i
      BY <1>3, <1>8, <2>2, <3>1
    <3> QED BY <1>1, <1>6, <3>1, <3>2
  <2>3. H \in SUBSET Nat
    BY <1>1
  <2>4. \A m \in H : k <= m
    BY <1>2, <2>2, <2>3
  <2> HIDE DEF H
  <2> QED BY <2>1, <2>3, <2>4, LeastNumber
<1>12. hw[k] = routing!Row(rtable[i])
  BY <1>8, <1>9
<1>13. routing!NextHop(dest) =
            <<IF rtable[i].gw = NoGateway THEN dest ELSE rtable[i].gw, rtable[i].iface>>
  BY <1>5, <1>7 DEF routing!NextHop
<1>14. routing!HwHop(dest) = <<IF hw[k].gw = NoGateway THEN dest ELSE hw[k].gw, hw[k].iface>>
  BY <1>11 DEF routing!HwHop
<1>15. hw[k].gw = rtable[i].gw /\ hw[k].iface = rtable[i].iface
  BY <1>12 DEF routing!Row
<1> QED BY <1>13, <1>14, <1>15

(***************************************************************************)
(* write_rtable_to_hw, get_next_hop: TCAM and software choose the same     *)
(* next hop, whatever routes are added, removed, switched off and on and   *)
(* computed, for addresses of any width and any number of rows.            *)
(***************************************************************************)
THEOREM TcamAgrees == MCSpec => []HwAgrees
<1> DEFINE MCInv == unit = "rtable" => RtableInv
<1>1. MCInit => MCInv
  BY RtableStart DEF MCInit
<1>2. MCInv /\ [MCNext]_<<unit, vars, dijkstraVars, rtableVars, tablesVars>> => MCInv'
  <2> SUFFICES ASSUME MCInv, [MCNext]_<<unit, vars, dijkstraVars, rtableVars, tablesVars>>,
                      unit' = "rtable"
               PROVE  RtableInv'
    OBVIOUS
  <2>1. unit = "rtable" /\ RtableInv
    BY DEF MCNext
  <2>2. CASE UNCHANGED rtableVars
    BY <2>1, <2>2 DEF RtableInv, Descending, routing!HwImage, routing!Active, routing!Kept,
       routing!Ordered, rtableVars
  <2>3. CASE routing!Next
    BY <2>1, <2>3, RtableStep
  <2> QED BY <2>1, <2>2, <2>3 DEF MCNext
<1>3. MCInv => HwAgrees
  BY ImageAgrees DEF HwAgrees
<1> QED BY <1>1, <1>2, <1>3, PTL DEF MCSpec

-----------------------------------------------------------------------------
(* Register accesses *)

Val == Int \X Int
RegSet == {g \in [tables!Registers -> Val \cup (tables!Tables \X (1 .. Rows))] :
              /\ \A f \in tables!Data : g[f] \in Val
              /\ g["ADDRESS"] \in tables!Tables \X (1 .. Rows)}
RowSet(t) == {row \in [tables!Data -> Val] :
                 \A f \in tables!Data \ tables!FieldsOf(t) : row[f] = tables!Zero}
TabSet == {tb \in [tables!Tables -> [1 .. Rows -> [tables!Data -> Val]]] :
              \A t \in tables!Tables : \A r \in 1 .. Rows : tb[t][r] \in RowSet(t)}
States == RegSet \X TabSet

Accesses == (tables!Data \X Val) \cup ({"ADDRESS"} \X (tables!Tables \X (1 .. Rows)))
            \cup ({"COMMAND"} \X {"read", "write"})
            \cup ({"MAC_HI", "MAC_LOW"} \X ((1 .. Rows) \X Val))

\* What the access e makes of a state of the card.
After(e, s) == <<tables!RegsAfter(e, s[1]), tables!TableAfter(e, s[1], s[2])>>
AccessSteps == {x \in Accesses \X States \X States : x[3] = After(x[1], x[2])}

\* The accesses l lead from s to z.
Goes(l, s, z) == Trace(AccessSteps, States, l, s, z)

LEMMA TablesTyped ==
    /\ Rows \in Nat \ {0} /\ 1 \in 1 .. Rows
    /\ tables!Data = {"A_HI", "A_LOW", "B_HI", "B_LOW"}
    /\ tables!Tables = {"route", "arp", "filter", "mac"}
    /\ tables!Registers = {"A_HI", "A_LOW", "B_HI", "B_LOW", "ADDRESS"}
    /\ tables!Zero \in Val /\ tables!Ones \in Val
    /\ tables!FieldsOf("route") = {"A_HI", "A_LOW", "B_HI", "B_LOW"}
    /\ tables!FieldsOf("arp") = {"A_HI", "A_LOW", "B_LOW"}
    /\ tables!FieldsOf("filter") = {"B_LOW"}
    /\ tables!FieldsOf("mac") = {"A_HI", "A_LOW"}
<1>1. Rows \in Nat \ {0}
  BY TablesAssumption DEF tables!HwTablesAssumption
<1>2. tables!Zero \in Val /\ tables!Ones \in Val
  BY DEF tables!Zero, tables!Ones, Val
<1>3. tables!Data = {"A_HI", "A_LOW", "B_HI", "B_LOW"}
  BY DEF tables!Data
<1>4. tables!Registers = {"A_HI", "A_LOW", "B_HI", "B_LOW", "ADDRESS"}
  BY DEF tables!Data, tables!Registers
<1>5. /\ tables!FieldsOf("route") = {"A_HI", "A_LOW", "B_HI", "B_LOW"}
      /\ tables!FieldsOf("arp") = {"A_HI", "A_LOW", "B_LOW"}
      /\ tables!FieldsOf("filter") = {"B_LOW"}
      /\ tables!FieldsOf("mac") = {"A_HI", "A_LOW"}
  BY DEF tables!Data, tables!FieldsOf
<1> QED BY <1>1, <1>2, <1>3, <1>4, <1>5 DEF tables!Tables

\* The four kinds of access.
LEMMA DataAccess ==
    ASSUME NEW f \in tables!Data, NEW d \in Val, NEW g \in RegSet, NEW tb \in TabSet
    PROVE  /\ <<f, d>> \in Accesses
           /\ [g EXCEPT ![f] = d] \in RegSet
           /\ After(<<f, d>>, <<g, tb>>) = <<[g EXCEPT ![f] = d], tb>>
<1>1. f \in tables!Registers /\ f # "ADDRESS" /\ f # "COMMAND" /\ f \notin {"MAC_HI", "MAC_LOW"}
  BY TablesTyped
<1>2. <<f, d>> \in Accesses
  BY DEF Accesses
<1>3. [g EXCEPT ![f] = d] \in RegSet
  <2> DEFINE W == Val \cup (tables!Tables \X (1 .. Rows))
             h == [g EXCEPT ![f] = d]
  <2>1. g \in [tables!Registers -> W] /\ g["ADDRESS"] \in tables!Tables \X (1 .. Rows)
        /\ \A x \in tables!Data : g[x] \in Val
    BY DEF RegSet
  <2>2. d \in W /\ tables!Data \subseteq tables!Registers
    BY TablesTyped
  <2>3. h \in [tables!Registers -> W]
    <3> HIDE DEF W
    <3> QED BY <2>1, <2>2
  <2>4. \A x \in tables!Data : h[x] \in Val
    BY <2>1, <2>2
  <2>5. h["ADDRESS"] = g["ADDRESS"]
    BY <1>1, <2>1, TablesTyped
  <2> HIDE DEF h
  <2>6. h \in RegSet
    BY <2>1, <2>3, <2>4, <2>5 DEF RegSet
  <2> QED BY <2>6 DEF h
<1>4. tables!RegsAfter(<<f, d>>, g) = [g EXCEPT ![f] = d]
  BY <1>1 DEF tables!RegsAfter
<1>5. tables!TableAfter(<<f, d>>, g, tb) = tb
  BY <1>1 DEF tables!TableAfter
<1> QED BY <1>2, <1>3, <1>4, <1>5 DEF After

LEMMA AddressAccess ==
    ASSUME NEW t \in tables!Tables, NEW r \in 1 .. Rows, NEW g \in RegSet, NEW tb \in TabSet
    PROVE  /\ <<"ADDRESS", <<t, r>>>> \in Accesses
           /\ [g EXCEPT !["ADDRESS"] = <<t, r>>] \in RegSet
           /\ After(<<"ADDRESS", <<t, r>>>>, <<g, tb>>) = <<[g EXCEPT !["ADDRESS"] = <<t, r>>], tb>>
<1>1. "ADDRESS" \in tables!Registers /\ "ADDRESS" \notin tables!Data
  BY TablesTyped
<1>2. <<"ADDRESS", <<t, r>>>> \in Accesses
  BY DEF Accesses
<1>3. [g EXCEPT !["ADDRESS"] = <<t, r>>] \in RegSet
  <2> DEFINE W == Val \cup (tables!Tables \X (1 .. Rows))
             h == [g EXCEPT !["ADDRESS"] = <<t, r>>]
  <2>1. g \in [tables!Registers -> W] /\ \A x \in tables!Data : g[x] \in Val
    BY DEF RegSet
  <2>2. <<t, r>> \in W /\ tables!Data \subseteq tables!Registers
    BY TablesTyped
  <2>3. h \in [tables!Registers -> W]
    <3> HIDE DEF W
    <3> QED BY <2>1, <2>2
  <2>4. \A x \in tables!Data : h[x] \in Val
    BY <1>1, <2>1, <2>2
  <2>5. h["ADDRESS"] = <<t, r>>
    BY <1>1, <2>1
  <2> HIDE DEF h
  <2>6. h \in RegSet
    BY <2>3, <2>4, <2>5 DEF RegSet
  <2> QED BY <2>6 DEF h
<1>4. tables!RegsAfter(<<"ADDRESS", <<t, r>>>>, g) = [g EXCEPT !["ADDRESS"] = <<t, r>>]
  BY <1>1 DEF tables!RegsAfter
<1>5. tables!TableAfter(<<"ADDRESS", <<t, r>>>>, g, tb) = tb
  BY DEF tables!TableAfter
<1> QED BY <1>2, <1>3, <1>4, <1>5 DEF After

WithRow(tb, t, r, row) == [tb EXCEPT ![t][r] = row]

LEMMA RowIn ==
    ASSUME NEW tb \in TabSet, NEW t \in tables!Tables, NEW r \in 1 .. Rows, NEW row \in RowSet(t)
    PROVE  /\ WithRow(tb, t, r, row) \in TabSet
           /\ \A u \in tables!Tables : \A k \in 1 .. Rows :
                WithRow(tb, t, r, row)[u][k] = IF u = t /\ k = r THEN row ELSE tb[u][k]
<1> DEFINE tc == [tb EXCEPT ![t][r] = row]
<1>1. row \in [tables!Data -> Val]
  BY DEF RowSet
<1>2. tc \in [tables!Tables -> [1 .. Rows -> [tables!Data -> Val]]]
  BY <1>1 DEF TabSet
<1>3. ASSUME NEW u \in tables!Tables, NEW k \in 1 .. Rows
      PROVE  tc[u][k] \in RowSet(u) /\ tc[u][k] = IF u = t /\ k = r THEN row ELSE tb[u][k]
  <2>1. tb[u][k] \in RowSet(u) /\ tb \in [tables!Tables -> [1 .. Rows -> [tables!Data -> Val]]]
    BY DEF TabSet
  <2>2. tc[u][k] = IF u = t /\ k = r THEN row ELSE tb[u][k]
    BY <2>1
  <2> QED BY <2>1, <2>2
<1> HIDE DEF tc
<1>4. tc \in TabSet
  BY <1>2, <1>3 DEF TabSet
<1> QED BY <1>3, <1>4 DEF tc, WithRow

LEMMA ReadAccess ==
    ASSUME NEW g \in RegSet, NEW tb \in TabSet
    PROVE  <<"COMMAND", "read">> \in Accesses /\ After(<<"COMMAND", "read">>, <<g, tb>>) = <<g, tb>>
<1>1. "COMMAND" \notin tables!Registers
  BY TablesTyped
<1>2. tables!RegsAfter(<<"COMMAND", "read">>, g) = g
  BY <1>1 DEF tables!RegsAfter
<1>3. tables!TableAfter(<<"COMMAND", "read">>, g, tb) = tb
  BY DEF tables!TableAfter
<1> QED BY <1>2, <1>3 DEF After, Accesses

LEMMA WriteAccess ==
    ASSUME NEW g \in RegSet, NEW tb \in TabSet, NEW t \in tables!Tables, NEW r \in 1 .. Rows,
           g["ADDRESS"] = <<t, r>>
    PROVE  /\ <<"COMMAND", "write">> \in Accesses
           /\ \E row \in RowSet(t) :
                /\ \A f \in tables!FieldsOf(t) : row[f] = g[f]
                /\ After(<<"COMMAND", "write">>, <<g, tb>>) = <<g, WithRow(tb, t, r, row)>>
<1> DEFINE row == [f \in tables!Data |-> IF f \in tables!FieldsOf(t) THEN g[f] ELSE tb[t][r][f]]
<1>1. "COMMAND" \notin tables!Registers
  BY TablesTyped
<1>2. <<"COMMAND", "write">> \in Accesses
  BY DEF Accesses
<1>3. row \in RowSet(t)
  BY DEF RowSet, RegSet, TabSet
<1>4. tables!FieldsOf(t) \subseteq tables!Data
  BY TablesTyped
<1>5. \A f \in tables!FieldsOf(t) : row[f] = g[f]
  BY <1>4
<1>6. tables!RegsAfter(<<"COMMAND", "write">>, g) = g
  BY <1>1 DEF tables!RegsAfter
<1>7. tables!TableAfter(<<"COMMAND", "write">>, g, tb) = WithRow(tb, t, r, row)
  BY DEF tables!TableAfter, WithRow
<1> HIDE DEF row
<1> QED BY <1>2, <1>3, <1>5, <1>6, <1>7 DEF After

LEMMA MacAccess ==
    ASSUME NEW f \in {"MAC_HI", "MAC_LOW"}, NEW p \in 1 .. Rows, NEW d \in Val,
           NEW g \in RegSet, NEW tb \in TabSet
    PROVE  /\ <<f, <<p, d>>>> \in Accesses
           /\ [tb["mac"][p] EXCEPT ![IF f = "MAC_HI" THEN "A_HI" ELSE "A_LOW"] = d] \in RowSet("mac")
           /\ After(<<f, <<p, d>>>>, <<g, tb>>) =
                <<g, WithRow(tb, "mac", p,
                             [tb["mac"][p] EXCEPT ![IF f = "MAC_HI" THEN "A_HI" ELSE "A_LOW"] = d])>>
<1>1. f \notin tables!Registers /\ f # "COMMAND"
  BY TablesTyped
<1>2. <<f, <<p, d>>>> \in Accesses
  BY DEF Accesses
<1>3. "mac" \in tables!Tables /\ tb["mac"][p] \in RowSet("mac")
  BY TablesTyped DEF TabSet
<1>4. [tb["mac"][p] EXCEPT ![IF f = "MAC_HI" THEN "A_HI" ELSE "A_LOW"] = d] \in RowSet("mac")
  BY <1>3, TablesTyped DEF RowSet
<1>5. tables!RegsAfter(<<f, <<p, d>>>>, g) = g
  BY <1>1 DEF tables!RegsAfter
<1>6. tables!TableAfter(<<f, <<p, d>>>>, g, tb) =
          [tb EXCEPT !["mac"][p][IF f = "MAC_HI" THEN "A_HI" ELSE "A_LOW"] = d]
  BY <1>1 DEF tables!TableAfter
<1>7. [tb EXCEPT !["mac"][p][IF f = "MAC_HI" THEN "A_HI" ELSE "A_LOW"] = d] =
      WithRow(tb, "mac", p, [tb["mac"][p] EXCEPT ![IF f = "MAC_HI" THEN "A_HI" ELSE "A_LOW"] = d])
  BY DEF WithRow
<1> QED BY <1>2, <1>4, <1>5, <1>6, <1>7 DEF After

LEMMA Pairs == \A g \in RegSet : \A tb \in TabSet : <<g, tb>> \in States
  BY DEF States

\* Every access keeps the state of the card one.
LEMMA AccessTyped ==
    ASSUME NEW e \in Accesses, NEW s \in States
    PROVE  After(e, s) \in States
<1>1. PICK g \in RegSet, tb \in TabSet : s = <<g, tb>>
  BY DEF States
<1>2. ASSUME NEW f \in tables!Data, NEW d \in Val, e = <<f, d>> PROVE After(e, s) \in States
  <2>1. After(e, s) = <<[g EXCEPT ![f] = d], tb>> /\ [g EXCEPT ![f] = d] \in RegSet
    BY <1>1, <1>2, DataAccess
  <2> QED BY <2>1, Pairs
<1>3. ASSUME NEW t \in tables!Tables, NEW r \in 1 .. Rows, e = <<"ADDRESS", <<t, r>>>>
      PROVE  After(e, s) \in States
  <2>1. After(e, s) = <<[g EXCEPT !["ADDRESS"] = <<t, r>>], tb>>
        /\ [g EXCEPT !["ADDRESS"] = <<t, r>>] \in RegSet
    BY <1>1, <1>3, AddressAccess
  <2> QED BY <2>1, Pairs
<1>4. ASSUME NEW c \in {"read", "write"}, e = <<"COMMAND", c>> PROVE After(e, s) \in States
  <2>1. PICK t \in tables!Tables, r \in 1 .. Rows : g["ADDRESS"] = <<t, r>>
    BY DEF RegSet
  <2>2. CASE c = "read"
    BY <1>1, <1>4, <2>2, ReadAccess, Pairs
  <2>3. CASE c = "write"
    <3>1. PICK row \in RowSet(t) :
              After(<<"COMMAND", "write">>, <<g, tb>>) = <<g, WithRow(tb, t, r, row)>>
      BY <2>1, WriteAccess
    <3>2. WithRow(tb, t, r, row) \in TabSet
      BY RowIn
    <3>3. <<g, WithRow(tb, t, r, row)>> \in States
      BY <3>2, Pairs
    <3>4. e = <<"COMMAND", "write">> /\ s = <<g, tb>>
      BY <1>1, <1>4, <2>3
    <3> QED BY <3>1, <3>3, <3>4
  <2> QED BY <2>2, <2>3
<1>5. ASSUME NEW f \in {"MAC_HI", "MAC_LOW"}, NEW p \in 1 .. Rows, NEW d \in Val, e = <<f, <<p, d>>>>
      PROVE  After(e, s) \in States
  <2> DEFINE row == [tb["mac"][p] EXCEPT ![IF f = "MAC_HI" THEN "A_HI" ELSE "A_LOW"] = d]
  <2>1. After(e, s) = <<g, WithRow(tb, "mac", p, row)>> /\ row \in RowSet("mac")
    BY <1>1, <1>5, MacAccess
  <2> HIDE DEF row
  <2>2. WithRow(tb, "mac", p, row) \in TabSet
    BY <2>1, TablesTyped, RowIn
  <2> QED BY <2>1, <2>2, Pairs
<1> QED BY <1>2, <1>3, <1>4, <1>5 DEF Accesses

-----------------------------------------------------------------------------
(* Sequences of accesses *)

LEMMA GoesOne ==
    ASSUME NEW e \in Accesses, NEW s \in States, NEW z \in States, z = After(e, s)
    PROVE  Goes(<<e>>, s, z)
<1>1. <<e, s, z>> \in AccessSteps
  BY DEF AccessSteps
<1> QED BY <1>1, TraceOne DEF Goes

LEMMA GoesOn ==
    ASSUME NEW p \in Seq(Accesses), NEW q \in Seq(Accesses), NEW s, NEW u, NEW z,
           Goes(p, s, u), Goes(q, u, z)
    PROVE  Goes(p \o q, s, z)
  BY TraceJoin DEF Goes

\* The accesses p leave the fields F of row in the data registers and change nothing else.
Fills(p, F, row) ==
    /\ p \in Seq(Accesses)
    /\ \A g \in RegSet : \A tb \in TabSet : \E h \in RegSet :
          /\ Goes(p, <<g, tb>>, <<h, tb>>)
          /\ \A f \in tables!Data : h[f] = IF f \in F THEN row[f] ELSE g[f]

LEMMA PutFills ==
    ASSUME NEW order \in Seq(tables!Data), NEW d \in Val, NEW row,
           \A i \in 1 .. Len(order) : row[order[i]] = d
    PROVE  Fills(tables!Put(order, d), {order[i] : i \in 1 .. Len(order)}, row)
<1> DEFINE p == tables!Put(order, d)
           n == Len(order)
           F == {order[i] : i \in 1 .. n}
<1>1. n \in Nat /\ p = [i \in 1 .. n |-> <<order[i], d>>]
  BY DEF tables!Put
<1>2. \A i \in 1 .. n : order[i] \in tables!Data /\ <<order[i], d>> \in Accesses
  BY DEF Accesses
<1>3. p \in Seq(Accesses) /\ Len(p) = n /\ \A i \in 1 .. n : p[i] = <<order[i], d>>
  BY <1>1, <1>2
<1> HIDE DEF p, n
<1>4. ASSUME NEW g \in RegSet, NEW tb \in TabSet
      PROVE  \E h \in RegSet : /\ Goes(p, <<g, tb>>, <<h, tb>>)
                               /\ \A f \in tables!Data : h[f] = IF f \in F THEN d ELSE g[f]
  <2> DEFINE step == [i \in 1 .. n |-> [h \in RegSet |-> [h EXCEPT ![order[i]] = d]]]
  <2>1. step \in [1 .. n -> [RegSet -> RegSet]]
    <3>1. \A i \in 1 .. n : \A h \in RegSet : [h EXCEPT ![order[i]] = d] \in RegSet
      BY <1>2, DataAccess
    <3> QED BY <3>1
  <2>2. PICK k : Follows(k, RegSet, g, step, n)
    <3> HIDE DEF step
    <3> QED BY <1>1, <2>1, Recursion
  <2>3. /\ k \in [0 .. n -> RegSet] /\ k[0] = g
        /\ \A i \in 1 .. n : k[i - 1] \in RegSet /\ k[i] = [k[i - 1] EXCEPT ![order[i]] = d]
    <3>1. k \in [0 .. n -> RegSet] /\ k[0] = g /\ \A i \in 1 .. n : k[i] = step[i][k[i - 1]]
      BY <2>2 DEF Follows
    <3>2. \A i \in 1 .. n : i - 1 \in 0 .. n
      BY <1>1
    <3> QED BY <3>1, <3>2
  <2> HIDE DEF step
  <2>4. Goes(p, <<g, tb>>, <<k[n], tb>>)
    <3> DEFINE s == [i \in 0 .. n |-> <<k[i], tb>>]
    <3>1. s \in [0 .. n -> States] /\ s[0] = <<g, tb>> /\ s[n] = <<k[n], tb>>
      BY <1>1, <2>3, Pairs
    <3>2. ASSUME NEW i \in 1 .. n PROVE <<p[i], s[i - 1], s[i]>> \in AccessSteps
      <4>1. i - 1 \in 0 .. n /\ i \in 0 .. n /\ k[i - 1] \in RegSet
        BY <1>1, <2>3
      <4>2. After(<<order[i], d>>, <<k[i - 1], tb>>) = <<k[i], tb>>
        <5>1. \A h \in RegSet : After(<<order[i], d>>, <<h, tb>>) = <<[h EXCEPT ![order[i]] = d], tb>>
          BY <1>2, DataAccess
        <5>2. k[i] = [k[i - 1] EXCEPT ![order[i]] = d]
          BY <2>3
        <5> QED BY <4>1, <5>1, <5>2
      <4>3. s[i] = <<k[i], tb>> /\ s[i - 1] = <<k[i - 1], tb>> /\ s[i] \in States /\ s[i - 1] \in States
        BY <3>1, <4>1
      <4> HIDE DEF s
      <4> QED BY <1>2, <1>3, <4>2, <4>3 DEF AccessSteps
    <3> HIDE DEF s
    <3> QED BY <1>3, <3>1, <3>2 DEF Goes, Trace
  <2>5. \A m \in Nat : m <= n => \A f \in tables!Data :
            k[m][f] = IF \E i \in 1 .. m : order[i] = f THEN d ELSE g[f]
    <3> DEFINE T == {m \in Nat : m <= n => \A f \in tables!Data :
            k[m][f] = IF \E i \in 1 .. m : order[i] = f THEN d ELSE g[f]}
    <3>1. 0 \in T
      BY <2>3
    <3>2. ASSUME NEW m \in T PROVE m + 1 \in T
      <4> SUFFICES ASSUME m + 1 <= n, NEW f \in tables!Data
                   PROVE  k[m + 1][f] = IF \E i \in 1 .. m + 1 : order[i] = f THEN d ELSE g[f]
        OBVIOUS
      <4>1. m \in Nat /\ m <= n /\ m + 1 \in 1 .. n
        BY <1>1
      <4>2. k[m + 1] = [k[m] EXCEPT ![order[m + 1]] = d] /\ k[m] \in RegSet
        <5>1. (m + 1) - 1 = m
          BY <4>1
        <5> QED BY <2>3, <4>1, <5>1
      <4>3. k[m + 1][f] = IF order[m + 1] = f THEN d ELSE k[m][f]
        BY <4>2, TablesTyped DEF RegSet
      <4>4. k[m][f] = IF \E i \in 1 .. m : order[i] = f THEN d ELSE g[f]
        BY <4>1
      <4>5. (\E i \in 1 .. m + 1 : order[i] = f) <=> (order[m + 1] = f \/ \E i \in 1 .. m : order[i] = f)
        BY <4>1
      <4> QED BY <4>3, <4>4, <4>5
    <3>3. T = Nat
      <4> HIDE DEF T
      <4> QED BY <3>1, <3>2, Induction DEF T
    <3> QED BY <3>3
  <2>6. k[n] \in RegSet /\ \A f \in tables!Data : k[n][f] = IF f \in F THEN d ELSE g[f]
    BY <1>1, <2>3, <2>5
  <2> QED BY <2>4, <2>6
<1>5. Fills(p, F, row)
  <2>1. \A f \in F : row[f] = d
    BY DEF n
  <2> HIDE DEF F
  <2>2. ASSUME NEW g \in RegSet, NEW tb \in TabSet
        PROVE  \E h \in RegSet : /\ Goes(p, <<g, tb>>, <<h, tb>>)
                                 /\ \A f \in tables!Data : h[f] = IF f \in F THEN row[f] ELSE g[f]
    <3>1. PICK h \in RegSet : /\ Goes(p, <<g, tb>>, <<h, tb>>)
                              /\ \A f \in tables!Data : h[f] = IF f \in F THEN d ELSE g[f]
      BY <1>4
    <3>2. \A f \in tables!Data : h[f] = IF f \in F THEN row[f] ELSE g[f]
      BY <2>1, <3>1
    <3> QED BY <3>1, <3>2
  <2> QED BY <1>3, <2>2 DEF Fills
<1> QED BY <1>5 DEF p, n

-----------------------------------------------------------------------------
(* What the rows' accesses make of a table *)

\* tb with the rows rs of the table t as new has them.
Over(tb, t, rs, new) ==
    [tb EXCEPT ![t] = [r \in 1 .. Rows |-> IF r \in rs THEN new[r] ELSE tb[t][r]]]

Contents(t) == [1 .. Rows -> RowSet(t)]

LEMMA OverAt ==
    ASSUME NEW tb \in TabSet, NEW t \in tables!Tables, NEW rs, NEW new \in Contents(t)
    PROVE  /\ Over(tb, t, rs, new) \in TabSet
           /\ \A u \in tables!Tables : \A r \in 1 .. Rows :
                Over(tb, t, rs, new)[u][r] = IF u = t /\ r \in rs THEN new[r] ELSE tb[u][r]
<1> DEFINE tc == Over(tb, t, rs, new)
<1>1. tb \in [tables!Tables -> [1 .. Rows -> [tables!Data -> Val]]]
      /\ \A u \in tables!Tables : \A r \in 1 .. Rows : tb[u][r] \in RowSet(u)
  BY DEF TabSet
<1>2. \A r \in 1 .. Rows : new[r] \in RowSet(t) /\ new[r] \in [tables!Data -> Val]
  BY DEF Contents, RowSet
<1>3. tc \in [tables!Tables -> [1 .. Rows -> [tables!Data -> Val]]]
  <2> DEFINE c == [r \in 1 .. Rows |-> IF r \in rs THEN new[r] ELSE tb[t][r]]
  <2>1. c \in [1 .. Rows -> [tables!Data -> Val]]
    BY <1>1, <1>2
  <2>2. tc = [tb EXCEPT ![t] = c]
    BY DEF Over
  <2> HIDE DEF c, tc
  <2> QED BY <1>1, <2>1, <2>2
<1>4. \A u \in tables!Tables : \A r \in 1 .. Rows :
          tc[u][r] = IF u = t /\ r \in rs THEN new[r] ELSE tb[u][r]
  BY <1>1 DEF Over
<1> HIDE DEF tc
<1>5. tc \in TabSet
  BY <1>1, <1>2, <1>3, <1>4 DEF TabSet
<1> QED BY <1>4, <1>5 DEF tc

\* Tables with the same rows are the same.
LEMMA SameTables ==
    ASSUME NEW tb \in TabSet, NEW tc \in TabSet,
           \A u \in tables!Tables : \A r \in 1 .. Rows : tb[u][r] = tc[u][r]
    PROVE  tb = tc
<1>1. /\ tb \in [tables!Tables -> [1 .. Rows -> [tables!Data -> Val]]]
      /\ tc \in [tables!Tables -> [1 .. Rows -> [tables!Data -> Val]]]
  BY DEF TabSet
<1>2. ASSUME NEW u \in tables!Tables PROVE tb[u] = tc[u]
  <2>1. tb[u] = [r \in 1 .. Rows |-> tb[u][r]] /\ tc[u] = [r \in 1 .. Rows |-> tc[u][r]]
    BY <1>1
  <2> QED BY <2>1
<1> QED BY <1>1, <1>2

LEMMA SameRows ==
    ASSUME NEW t, NEW a \in RowSet(t), NEW b \in RowSet(t),
           \A f \in tables!FieldsOf(t) : a[f] = b[f]
    PROVE  a = b
  BY DEF RowSet

\* The accesses l write the rows rs of the table t as new has them, and no other row.
Makes(l, t, rs, new) ==
    /\ l \in Seq(Accesses)
    /\ \A g \in RegSet : \A tb \in TabSet : \E h \in RegSet :
          Goes(l, <<g, tb>>, <<h, Over(tb, t, rs, new)>>)

LEMMA MakesJoin ==
    ASSUME NEW t \in tables!Tables, NEW new \in Contents(t), NEW p, NEW q, NEW a, NEW b,
           Makes(p, t, a, new), Makes(q, t, b, new)
    PROVE  Makes(p \o q, t, a \cup b, new)
<1>1. p \in Seq(Accesses) /\ q \in Seq(Accesses) /\ p \o q \in Seq(Accesses)
  BY DEF Makes
<1>2. ASSUME NEW g \in RegSet, NEW tb \in TabSet
      PROVE  \E k \in RegSet : Goes(p \o q, <<g, tb>>, <<k, Over(tb, t, a \cup b, new)>>)
  <2> DEFINE tc == Over(tb, t, a, new)
  <2>1. PICK h \in RegSet : Goes(p, <<g, tb>>, <<h, tc>>)
    BY DEF Makes
  <2>2. tc \in TabSet
    BY OverAt
  <2>3. Over(tc, t, b, new) = Over(tb, t, a \cup b, new)
    <3>1. Over(tc, t, b, new) \in TabSet /\ Over(tb, t, a \cup b, new) \in TabSet
      BY <2>2, OverAt
    <3>2. ASSUME NEW u \in tables!Tables, NEW r \in 1 .. Rows
          PROVE  Over(tc, t, b, new)[u][r] = Over(tb, t, a \cup b, new)[u][r]
      <4>1. tc[u][r] = IF u = t /\ r \in a THEN new[r] ELSE tb[u][r]
        BY OverAt
      <4>2. Over(tb, t, a \cup b, new)[u][r] = IF u = t /\ r \in a \cup b THEN new[r] ELSE tb[u][r]
        BY OverAt
      <4> HIDE DEF tc
      <4>3. Over(tc, t, b, new)[u][r] = IF u = t /\ r \in b THEN new[r] ELSE tc[u][r]
        BY <2>2, OverAt
      <4> QED BY <4>1, <4>2, <4>3
    <3> HIDE DEF tc
    <3> QED BY <3>1, <3>2, SameTables
  <2> HIDE DEF tc
  <2>4. PICK k \in RegSet : Goes(q, <<h, tc>>, <<k, Over(tc, t, b, new)>>)
    BY <2>2 DEF Makes
  <2>5. Goes(p \o q, <<g, tb>>, <<k, Over(tc, t, b, new)>>)
    BY <1>1, <2>1, <2>4, GoesOn
  <2> QED BY <2>3, <2>5
<1> QED BY <1>1, <1>2 DEF Makes

LEMMA MakesNothing ==
    ASSUME NEW t \in tables!Tables, NEW new \in Contents(t)
    PROVE  Makes(<<>>, t, {}, new)
<1>1. ASSUME NEW g \in RegSet, NEW tb \in TabSet
      PROVE  Goes(<<>>, <<g, tb>>, <<g, Over(tb, t, {}, new)>>)
  <2>1. Over(tb, t, {}, new) = tb
    BY OverAt, SameTables
  <2>2. <<g, tb>> \in States
    BY Pairs
  <2>3. Goes(<<>>, <<g, tb>>, <<g, tb>>)
    BY <2>2, TraceNothing DEF Goes
  <2> QED BY <2>1, <2>3
<1> QED BY <1>1 DEF Makes

\* AllRows: the rows one after the other; X is the set of those that are written.
LEMMA AllRowsMakes ==
    ASSUME NEW t \in tables!Tables, NEW new \in Contents(t), NEW X \in SUBSET (1 .. Rows),
           NEW op, \A r \in 1 .. Rows : Makes(op[r], t, {r} \cap X, new)
    PROVE  Makes(tables!AllRows(op), t, X, new)
<1> DEFINE step == [r \in 1 .. Rows |-> [s \in Seq(Accesses) |-> s \o op[r]]]
           Def(h) == h = [r \in 0 .. Rows |-> IF r = 0 THEN <<>> ELSE h[r - 1] \o op[r]]
           upto == CHOOSE h : Def(h)
<1>1. Rows \in Nat /\ \A r \in 1 .. Rows : op[r] \in Seq(Accesses)
  BY TablesTyped DEF Makes
<1>2. Def(upto)
  <2>1. step \in [1 .. Rows -> [Seq(Accesses) -> Seq(Accesses)]]
    <3>1. \A r \in 1 .. Rows : \A s \in Seq(Accesses) : s \o op[r] \in Seq(Accesses)
      BY <1>1
    <3> QED BY <3>1
  <2>2. PICK h : Follows(h, Seq(Accesses), <<>>, step, Rows)
    <3>1. <<>> \in Seq(Accesses)
      OBVIOUS
    <3> HIDE DEF step
    <3> QED BY <1>1, <2>1, <3>1, Recursion
  <2>3. /\ h \in [0 .. Rows -> Seq(Accesses)] /\ h[0] = <<>>
        /\ \A r \in 1 .. Rows : h[r] = h[r - 1] \o op[r]
    <3>1. /\ h \in [0 .. Rows -> Seq(Accesses)] /\ h[0] = <<>>
          /\ \A r \in 1 .. Rows : h[r] = step[r][h[r - 1]]
      BY <2>2 DEF Follows
    <3>2. \A r \in 1 .. Rows : r - 1 \in 0 .. Rows
      BY <1>1
    <3> QED BY <3>1, <3>2
  <2>4. \A r \in 0 .. Rows : h[r] = IF r = 0 THEN <<>> ELSE h[r - 1] \o op[r]
    <3>1. \A r \in 0 .. Rows : r # 0 => r \in 1 .. Rows
      BY <1>1
    <3> QED BY <2>3, <3>1
  <2>5. Def(h)
    BY <2>3, <2>4
  <2> HIDE DEF Def
  <2> QED BY <2>5
<1>3. tables!AllRows(op) = upto[Rows]
  BY DEF tables!AllRows
<1> HIDE DEF upto
<1>4. upto[0] = <<>> /\ \A r \in 1 .. Rows : upto[r] = upto[r - 1] \o op[r]
  <2>1. upto = [r \in 0 .. Rows |-> IF r = 0 THEN <<>> ELSE upto[r - 1] \o op[r]]
    BY <1>2
  <2>2. \A r \in 0 .. Rows : upto[r] = IF r = 0 THEN <<>> ELSE upto[r - 1] \o op[r]
    BY <2>1
  <2>3. 0 \in 0 .. Rows /\ \A r \in 1 .. Rows : r \in 0 .. Rows /\ r # 0
    BY <1>1
  <2> QED BY <2>2, <2>3
<1> DEFINE T == {m \in Nat : m <= Rows => Makes(upto[m], t, (1 .. m) \cap X, new)}
<1>5. 0 \in T
  <2>1. (1 .. 0) \cap X = {}
    OBVIOUS
  <2> QED BY <1>4, <2>1, MakesNothing
<1>6. ASSUME NEW m \in T PROVE m + 1 \in T
  <2> SUFFICES ASSUME m + 1 <= Rows PROVE Makes(upto[m + 1], t, (1 .. m + 1) \cap X, new)
    OBVIOUS
  <2>1. m \in Nat /\ m <= Rows /\ m + 1 \in 1 .. Rows /\ (m + 1) - 1 = m
    BY <1>1
  <2>2. Makes(upto[m], t, (1 .. m) \cap X, new)
    BY <2>1
  <2>3. Makes(op[m + 1], t, {m + 1} \cap X, new)
    BY <2>1
  <2>4. Makes(upto[m] \o op[m + 1], t, ((1 .. m) \cap X) \cup ({m + 1} \cap X), new)
    BY <2>2, <2>3, MakesJoin
  <2>5. ((1 .. m) \cap X) \cup ({m + 1} \cap X) = (1 .. m + 1) \cap X
    BY <2>1
  <2>6. upto[m + 1] = upto[m] \o op[m + 1]
    BY <1>4, <2>1
  <2> QED BY <2>4, <2>5, <2>6
<1>7. T = Nat
  <2> HIDE DEF T
  <2> QED BY <1>5, <1>6, Induction DEF T
<1>8. Makes(upto[Rows], t, (1 .. Rows) \cap X, new)
  <2>1. Rows \in Nat /\ Rows <= Rows
    BY <1>1
  <2>2. Rows \in T
    <3> HIDE DEF T
    <3> QED BY <1>7, <2>1
  <2>3. Rows <= Rows => Makes(upto[Rows], t, (1 .. Rows) \cap X, new)
    BY <2>2, Zenon
  <2> QED BY <2>1, <2>3, Zenon
<1>9. (1 .. Rows) \cap X = X
  OBVIOUS
<1> QED BY <1>3, <1>8, <1>9

LEMMA FillsJoin ==
    ASSUME NEW p, NEW q, NEW F, NEW G, NEW row, Fills(p, F, row), Fills(q, G, row)
    PROVE  Fills(p \o q, F \cup G, row)
<1>1. p \in Seq(Accesses) /\ q \in Seq(Accesses) /\ p \o q \in Seq(Accesses)
  BY DEF Fills
<1>2. ASSUME NEW g \in RegSet, NEW tb \in TabSet
      PROVE  \E k \in RegSet :
                /\ Goes(p \o q, <<g, tb>>, <<k, tb>>)
                /\ \A f \in tables!Data : k[f] = IF f \in F \cup G THEN row[f] ELSE g[f]
  <2>1. PICK h \in RegSet : /\ Goes(p, <<g, tb>>, <<h, tb>>)
                            /\ \A f \in tables!Data : h[f] = IF f \in F THEN row[f] ELSE g[f]
    BY DEF Fills
  <2>2. PICK k \in RegSet : /\ Goes(q, <<h, tb>>, <<k, tb>>)
                            /\ \A f \in tables!Data : k[f] = IF f \in G THEN row[f] ELSE h[f]
    BY DEF Fills
  <2>3. Goes(p \o q, <<g, tb>>, <<k, tb>>)
    BY <1>1, <2>1, <2>2, GoesOn
  <2> QED BY <2>1, <2>2, <2>3
<1> QED BY <1>1, <1>2 DEF Fills

\* A row is written when all registers its table takes were filled before.
LEMMA WriteMakes ==
    ASSUME NEW t \in tables!Tables, NEW new \in Contents(t), NEW r \in 1 .. Rows, NEW p, NEW F,
           Fills(p, F, new[r]), tables!FieldsOf(t) \subseteq F
    PROVE  Makes(p \o tables!Write(t, r), t, {r}, new)
<1> DEFINE a == <<"ADDRESS", <<t, r>>>>
           c == <<"COMMAND", "write">>
           l == p \o tables!Write(t, r)
<1>0. "ADDRESS" \notin tables!Data /\ tables!FieldsOf(t) \subseteq tables!Data /\ new[r] \in RowSet(t)
  BY TablesTyped DEF Contents
<1>1. tables!Write(t, r) = <<a>> \o <<c>>
  BY DEF tables!Write
<1>2. a \in Accesses /\ c \in Accesses
  BY DEF Accesses
<1> HIDE DEF a, c
<1>3. /\ p \in Seq(Accesses) /\ <<a>> \in Seq(Accesses) /\ <<c>> \in Seq(Accesses)
      /\ <<a>> \o <<c>> \in Seq(Accesses) /\ p \o (<<a>> \o <<c>>) \in Seq(Accesses)
  BY <1>2 DEF Fills
<1>4. ASSUME NEW g \in RegSet, NEW tb \in TabSet
      PROVE  \E h \in RegSet : Goes(p \o (<<a>> \o <<c>>), <<g, tb>>, <<h, Over(tb, t, {r}, new)>>)
  <2>1. PICK h \in RegSet : /\ Goes(p, <<g, tb>>, <<h, tb>>)
                            /\ \A f \in tables!Data : h[f] = IF f \in F THEN new[r][f] ELSE g[f]
    BY DEF Fills
  <2> DEFINE k == [h EXCEPT !["ADDRESS"] = <<t, r>>]
  <2>2. k \in RegSet /\ After(a, <<h, tb>>) = <<k, tb>>
    BY AddressAccess DEF a
  <2>3. k["ADDRESS"] = <<t, r>> /\ \A f \in tables!Data : k[f] = h[f]
    BY <1>0, TablesTyped DEF RegSet
  <2> HIDE DEF k
  <2>4. Goes(<<a>>, <<h, tb>>, <<k, tb>>)
    BY <1>2, <2>2, Pairs, GoesOne
  <2>5. PICK row \in RowSet(t) : /\ \A f \in tables!FieldsOf(t) : row[f] = k[f]
                                 /\ After(c, <<k, tb>>) = <<k, WithRow(tb, t, r, row)>>
    BY <2>2, <2>3, WriteAccess DEF c
  <2>6. row = new[r]
    BY <1>0, <2>1, <2>3, <2>5, SameRows
  <2>7. WithRow(tb, t, r, new[r]) = Over(tb, t, {r}, new)
    <3>1. WithRow(tb, t, r, new[r]) \in TabSet /\ Over(tb, t, {r}, new) \in TabSet
      BY <1>0, RowIn, OverAt
    <3>2. ASSUME NEW u \in tables!Tables, NEW m \in 1 .. Rows
          PROVE  WithRow(tb, t, r, new[r])[u][m] = Over(tb, t, {r}, new)[u][m]
      <4>1. Over(tb, t, {r}, new)[u][m] = IF u = t /\ m \in {r} THEN new[m] ELSE tb[u][m]
        BY OverAt
      <4>2. WithRow(tb, t, r, new[r])[u][m] = IF u = t /\ m = r THEN new[r] ELSE tb[u][m]
        BY <1>0, RowIn
      <4> QED BY <4>1, <4>2
    <3> QED BY <3>1, <3>2, SameTables
  <2>8. Goes(<<c>>, <<k, tb>>, <<k, Over(tb, t, {r}, new)>>)
    <3>1. After(c, <<k, tb>>) = <<k, Over(tb, t, {r}, new)>> /\ Over(tb, t, {r}, new) \in TabSet
      BY <2>5, <2>6, <2>7, OverAt
    <3> QED BY <1>2, <2>2, <3>1, Pairs, GoesOne
  <2>9. Goes(<<a>> \o <<c>>, <<h, tb>>, <<k, Over(tb, t, {r}, new)>>)
    BY <1>3, <2>4, <2>8, GoesOn
  <2>10. Goes(p \o (<<a>> \o <<c>>), <<g, tb>>, <<k, Over(tb, t, {r}, new)>>)
    BY <1>3, <2>1, <2>9, GoesOn
  <2> QED BY <2>2, <2>10
<1>5. Makes(p \o (<<a>> \o <<c>>), t, {r}, new)
  BY <1>3, <1>4 DEF Makes
<1> QED BY <1>1, <1>5

\* write_hw_iface_mac: two registers for a port.
LEMMA MacMakes ==
    ASSUME NEW new \in Contents("mac"), NEW p \in 1 .. Rows, NEW d \in Val,
           new[p]["A_HI"] = d, new[p]["A_LOW"] = d
    PROVE  Makes(tables!MacRow(p, d), "mac", {p}, new)
<1> DEFINE a == <<"MAC_HI", <<p, d>>>>
           c == <<"MAC_LOW", <<p, d>>>>
<1>0. "mac" \in tables!Tables /\ new[p] \in RowSet("mac") /\ tables!Data = {"A_HI", "A_LOW", "B_HI", "B_LOW"}
  BY TablesTyped DEF Contents
<1>1. tables!MacRow(p, d) = <<a>> \o <<c>>
  BY DEF tables!MacRow
<1>2. a \in Accesses /\ c \in Accesses
  BY DEF Accesses
<1> HIDE DEF a, c
<1>3. <<a>> \in Seq(Accesses) /\ <<c>> \in Seq(Accesses) /\ <<a>> \o <<c>> \in Seq(Accesses)
  BY <1>2
<1>4. ASSUME NEW g \in RegSet, NEW tb \in TabSet
      PROVE  Goes(<<a>> \o <<c>>, <<g, tb>>, <<g, Over(tb, "mac", {p}, new)>>)
  <2> DEFINE row == [tb["mac"][p] EXCEPT !["A_HI"] = d]
             tc == WithRow(tb, "mac", p, row)
             last == [tc["mac"][p] EXCEPT !["A_LOW"] = d]
             td == WithRow(tc, "mac", p, last)
  <2>1. tb["mac"][p] \in RowSet("mac")
    BY <1>0 DEF TabSet
  <2>2. row \in RowSet("mac") /\ After(a, <<g, tb>>) = <<g, tc>>
    BY MacAccess DEF a
  <2>3. \A f \in tables!Data : row[f] = IF f = "A_HI" THEN d ELSE tb["mac"][p][f]
    BY <2>1 DEF RowSet
  <2> HIDE DEF row
  <2>4. tc \in TabSet /\ tc["mac"][p] = row
    BY <1>0, <2>2, RowIn
  <2>5. \A u \in tables!Tables : \A m \in 1 .. Rows : ~(u = "mac" /\ m = p) => tc[u][m] = tb[u][m]
    BY <1>0, <2>2, RowIn
  <2> HIDE DEF tc
  <2>6. last \in RowSet("mac") /\ After(c, <<g, tc>>) = <<g, td>>
    BY <2>4, MacAccess DEF c
  <2>7. \A f \in tables!Data : last[f] = IF f = "A_LOW" THEN d ELSE row[f]
    BY <2>2, <2>4 DEF RowSet
  <2> HIDE DEF last
  <2>8. last = new[p]
    BY <1>0, <2>3, <2>6, <2>7, SameRows, TablesTyped
  <2>9. td \in TabSet /\ td["mac"][p] = last
    BY <1>0, <2>4, <2>6, RowIn
  <2>10. \A u \in tables!Tables : \A m \in 1 .. Rows : ~(u = "mac" /\ m = p) => td[u][m] = tc[u][m]
    BY <1>0, <2>4, <2>6, RowIn
  <2> HIDE DEF td
  <2>11. td = Over(tb, "mac", {p}, new)
    <3>1. Over(tb, "mac", {p}, new) \in TabSet
          /\ \A u \in tables!Tables : \A m \in 1 .. Rows :
                Over(tb, "mac", {p}, new)[u][m] = IF u = "mac" /\ m \in {p} THEN new[m] ELSE tb[u][m]
      BY <1>0, OverAt
    <3>2. \A u \in tables!Tables : \A m \in 1 .. Rows : td[u][m] = Over(tb, "mac", {p}, new)[u][m]
      BY <2>5, <2>8, <2>9, <2>10, <3>1
    <3> QED BY <2>9, <3>1, <3>2, SameTables
  <2>12. Goes(<<a>>, <<g, tb>>, <<g, tc>>)
    BY <1>2, <2>2, <2>4, Pairs, GoesOne
  <2>13. Goes(<<c>>, <<g, tc>>, <<g, td>>)
    BY <1>2, <2>4, <2>6, <2>9, Pairs, GoesOne
  <2>14. Goes(<<a>> \o <<c>>, <<g, tb>>, <<g, td>>)
    BY <1>3, <2>12, <2>13, GoesOn
  <2> QED BY <2>11, <2>14
<1>5. Makes(<<a>> \o <<c>>, "mac", {p}, new)
  BY <1>3, <1>4 DEF Makes
<1> QED BY <1>1, <1>5

\* A row that is read leaves the tables as they are.
LEMMA ReadMakes ==
    ASSUME NEW t \in tables!Tables, NEW r \in 1 .. Rows, NEW u \in tables!Tables, NEW new \in Contents(u)
    PROVE  Makes(tables!ReadRow(t, r), u, {}, new)
<1> DEFINE a == <<"ADDRESS", <<t, r>>>>
           c == <<"COMMAND", "read">>
<1>1. tables!ReadRow(t, r) = <<a>> \o <<c>>
  BY DEF tables!ReadRow
<1>2. a \in Accesses /\ c \in Accesses
  BY DEF Accesses
<1> HIDE DEF a, c
<1>3. <<a>> \in Seq(Accesses) /\ <<c>> \in Seq(Accesses) /\ <<a>> \o <<c>> \in Seq(Accesses)
  BY <1>2
<1>4. ASSUME NEW g \in RegSet, NEW tb \in TabSet
      PROVE  \E h \in RegSet : Goes(<<a>> \o <<c>>, <<g, tb>>, <<h, Over(tb, u, {}, new)>>)
  <2> DEFINE k == [g EXCEPT !["ADDRESS"] = <<t, r>>]
  <2>1. k \in RegSet /\ After(a, <<g, tb>>) = <<k, tb>>
    BY AddressAccess DEF a
  <2> HIDE DEF k
  <2>2. After(c, <<k, tb>>) = <<k, tb>>
    BY <2>1, ReadAccess DEF c
  <2>3. Goes(<<a>>, <<g, tb>>, <<k, tb>>) /\ Goes(<<c>>, <<k, tb>>, <<k, tb>>)
    BY <1>2, <2>1, <2>2, Pairs, GoesOne
  <2>4. Goes(<<a>> \o <<c>>, <<g, tb>>, <<k, tb>>)
    BY <1>3, <2>3, GoesOn
  <2>5. Over(tb, u, {}, new) = tb
    BY OverAt, SameTables
  <2> QED BY <2>1, <2>4, <2>5
<1>5. Makes(<<a>> \o <<c>>, u, {}, new)
  BY <1>3, <1>4 DEF Makes
<1> QED BY <1>1, <1>5

-----------------------------------------------------------------------------
(* The rows of the code *)

LEMMA PutOne ==
    ASSUME NEW a \in tables!Data, NEW d \in Val, NEW row, row[a] = d
    PROVE  Fills(tables!Put(<<a>>, d), {a}, row)
<1> DEFINE o == <<a>>
<1>1. o \in Seq(tables!Data) /\ Len(o) = 1 /\ o[1] = a
  OBVIOUS
<1>2. {o[i] : i \in 1 .. Len(o)} = {a} /\ \A i \in 1 .. Len(o) : row[o[i]] = d
  BY <1>1
<1> HIDE DEF o
<1>3. Fills(tables!Put(o, d), {a}, row)
  BY <1>1, <1>2, PutFills
<1> QED BY <1>3 DEF o

LEMMA PutTwo ==
    ASSUME NEW a \in tables!Data, NEW b \in tables!Data, NEW d \in Val, NEW row,
           row[a] = d, row[b] = d
    PROVE  Fills(tables!Put(<<a, b>>, d), {a, b}, row)
<1> DEFINE o == <<a, b>>
<1>1. o \in Seq(tables!Data) /\ Len(o) = 2 /\ o[1] = a /\ o[2] = b
  OBVIOUS
<1> HIDE DEF o
<1>2. {o[i] : i \in 1 .. Len(o)} = {a, b} /\ \A i \in 1 .. Len(o) : row[o[i]] = d
  BY <1>1
<1>3. Fills(tables!Put(o, d), {a, b}, row)
  BY <1>1, <1>2, PutFills
<1> QED BY <1>3 DEF o

LEMMA PutThree ==
    ASSUME NEW a \in tables!Data, NEW b \in tables!Data, NEW c \in tables!Data, NEW d \in Val, NEW row,
           row[a] = d, row[b] = d, row[c] = d
    PROVE  Fills(tables!Put(<<a, b, c>>, d), {a, b, c}, row)
<1> DEFINE o == <<a, b, c>>
<1>1. o \in Seq(tables!Data) /\ Len(o) = 3 /\ o[1] = a /\ o[2] = b /\ o[3] = c
  OBVIOUS
<1> HIDE DEF o
<1>2. {o[i] : i \in 1 .. Len(o)} = {a, b, c} /\ \A i \in 1 .. Len(o) : row[o[i]] = d
  BY <1>1
<1>3. Fills(tables!Put(o, d), {a, b, c}, row)
  BY <1>1, <1>2, PutFills
<1> QED BY <1>3 DEF o

LEMMA PutFour ==
    ASSUME NEW a \in tables!Data, NEW b \in tables!Data, NEW c \in tables!Data, NEW e \in tables!Data,
           NEW d \in Val, NEW row, row[a] = d, row[b] = d, row[c] = d, row[e] = d
    PROVE  Fills(tables!Put(<<a, b, c, e>>, d), {a, b, c, e}, row)
<1> DEFINE o == <<a, b, c, e>>
<1>1. o \in Seq(tables!Data) /\ Len(o) = 4 /\ o[1] = a /\ o[2] = b /\ o[3] = c /\ o[4] = e
  OBVIOUS
<1> HIDE DEF o
<1>2. {o[i] : i \in 1 .. Len(o)} = {a, b, c, e} /\ \A i \in 1 .. Len(o) : row[o[i]] = d
  BY <1>1
<1>3. Fills(tables!Put(o, d), {a, b, c, e}, row)
  BY <1>1, <1>2, PutFills
<1> QED BY <1>3 DEF o

LEMMA RowOfTyped ==
    ASSUME NEW t \in tables!Tables, NEW d \in Val
    PROVE  /\ tables!RowOf(t, d) \in RowSet(t)
           /\ \A f \in tables!FieldsOf(t) : tables!RowOf(t, d)[f] = d
           /\ \A f \in tables!Data \ tables!FieldsOf(t) : tables!RowOf(t, d)[f] = tables!Zero
  BY TablesTyped DEF tables!RowOf, RowSet

\* What write_rtable_to_hw and the tool do for a route, and for the rows of the other tables.
LEMMA RouteMakes ==
    ASSUME NEW r \in 1 .. Rows, NEW d \in Val, NEW new \in Contents("route"),
           new[r] = tables!RowOf("route", d)
    PROVE  /\ Makes(tables!RouteRow(r, d), "route", {r}, new)
           /\ Makes(tables!AddIp(r, d), "route", {r}, new)
<1>1. "route" \in tables!Tables /\ \A f \in tables!FieldsOf("route") : new[r][f] = d
  BY TablesTyped, RowOfTyped
<1> DEFINE p == tables!Put(<<"A_HI", "B_HI", "A_LOW", "B_LOW">>, d)
           F == {"A_HI", "B_HI", "A_LOW", "B_LOW"}
           row == new[r]
<1>2. Fills(p, F, row)
  <2>1. \A f \in tables!Data : row[f] = d
    BY <1>1, TablesTyped
  <2>2. /\ "A_HI" \in tables!Data /\ "B_HI" \in tables!Data
        /\ "A_LOW" \in tables!Data /\ "B_LOW" \in tables!Data
    BY TablesTyped
  <2> HIDE DEF row
  <2> QED BY <2>1, <2>2, PutFour
<1>3. tables!FieldsOf("route") \subseteq F
  BY TablesTyped
<1> HIDE DEF p, F
<1>4. Makes(p \o tables!Write("route", r), "route", {r}, new)
  BY <1>1, <1>2, <1>3, WriteMakes
<1> QED BY <1>4 DEF p, tables!RouteRow, tables!AddIp

LEMMA ArpMakes ==
    ASSUME NEW r \in 1 .. Rows, NEW d \in Val, NEW new \in Contents("arp"),
           new[r] = tables!RowOf("arp", d)
    PROVE  /\ Makes(tables!ArpRow(r, d), "arp", {r}, new)
           /\ Makes(tables!AddArp(r, d), "arp", {r}, new)
           /\ d = tables!Zero => Makes(tables!NukeRow(r), "arp", {r}, new)
<1>1. "arp" \in tables!Tables /\ \A f \in tables!FieldsOf("arp") : new[r][f] = d
  BY TablesTyped, RowOfTyped
<1>2. Fills(tables!Put(<<"A_HI", "A_LOW", "B_LOW">>, d), {"A_HI", "A_LOW", "B_LOW"}, new[r])
  BY <1>1, TablesTyped, PutThree
<1>3. Fills(tables!Put(<<"B_LOW", "A_HI", "A_LOW">>, d), {"B_LOW", "A_HI", "A_LOW"}, new[r])
  BY <1>1, TablesTyped, PutThree
<1>4. /\ tables!FieldsOf("arp") \subseteq {"A_HI", "A_LOW", "B_LOW"}
      /\ tables!FieldsOf("arp") \subseteq {"B_LOW", "A_HI", "A_LOW"}
  BY TablesTyped
<1>5. Makes(tables!ArpRow(r, d), "arp", {r}, new)
  BY <1>1, <1>2, <1>4, WriteMakes DEF tables!ArpRow
<1>6. Makes(tables!AddArp(r, d), "arp", {r}, new)
  BY <1>1, <1>3, <1>4, WriteMakes DEF tables!AddArp
<1>7. d = tables!Zero => Makes(tables!NukeRow(r), "arp", {r}, new)
  BY <1>1, <1>3, <1>4, WriteMakes DEF tables!NukeRow
<1> QED BY <1>5, <1>6, <1>7

LEMMA FilterMakes ==
    ASSUME NEW r \in 1 .. Rows, NEW d \in Val, NEW new \in Contents("filter"),
           new[r] = tables!RowOf("filter", d)
    PROVE  /\ Makes(tables!FilterRow(r, d), "filter", {r}, new)
           /\ Makes(tables!AddFilter(r, d), "filter", {r}, new)
<1>1. /\ "filter" \in tables!Tables /\ new[r]["B_LOW"] = d
      /\ \A f \in {"A_HI", "B_HI", "A_LOW"} : new[r][f] = tables!Zero
  BY TablesTyped, RowOfTyped
<1>2. Fills(tables!Put(<<"B_LOW">>, d), {"B_LOW"}, new[r])
  BY <1>1, TablesTyped, PutOne
<1>3. Fills(tables!Put(<<"A_HI", "B_HI", "A_LOW">>, tables!Zero), {"A_HI", "B_HI", "A_LOW"}, new[r])
  BY <1>1, TablesTyped, PutThree
<1>4. Fills(tables!Put(<<"A_HI", "B_HI", "A_LOW">>, tables!Zero) \o tables!Put(<<"B_LOW">>, d),
            {"A_HI", "B_HI", "A_LOW"} \cup {"B_LOW"}, new[r])
  BY <1>2, <1>3, FillsJoin
<1>5. tables!FieldsOf("filter") \subseteq {"B_LOW"}
      /\ tables!FieldsOf("filter") \subseteq {"A_HI", "B_HI", "A_LOW"} \cup {"B_LOW"}
  BY TablesTyped
<1>6. Makes(tables!FilterRow(r, d), "filter", {r}, new)
  BY <1>1, <1>2, <1>5, WriteMakes DEF tables!FilterRow
<1>7. Makes(tables!AddFilter(r, d), "filter", {r}, new)
  BY <1>1, <1>4, <1>5, WriteMakes DEF tables!AddFilter
<1> QED BY <1>6, <1>7

LEMMA PortMakes ==
    ASSUME NEW r \in 1 .. Rows, NEW d \in Val, NEW new \in Contents("mac"),
           new[r] = tables!RowOf("mac", d)
    PROVE  Makes(tables!MacRow(r, d), "mac", {r}, new) /\ Makes(tables!AddMac(r, d), "mac", {r}, new)
<1>1. new[r]["A_HI"] = d /\ new[r]["A_LOW"] = d
  BY TablesTyped, RowOfTyped
<1> QED BY <1>1, MacMakes DEF tables!AddMac

LEMMA ClearMakes ==
    ASSUME NEW r \in 1 .. Rows, NEW new \in Contents("route"), new[r] = tables!ClearedRoute
    PROVE  Makes(tables!ClearIpRow(r), "route", {r}, new)
<1>1. /\ "route" \in tables!Tables /\ new[r]["B_HI"] = tables!Ones
      /\ \A f \in {"A_HI", "A_LOW", "B_LOW"} : new[r][f] = tables!Zero
  BY TablesTyped DEF tables!ClearedRoute, tables!Blank
<1>2. Fills(tables!Put(<<"A_HI">>, tables!Zero), {"A_HI"}, new[r])
  BY <1>1, TablesTyped, PutOne
<1>3. Fills(tables!Put(<<"B_HI">>, tables!Ones), {"B_HI"}, new[r])
  BY <1>1, TablesTyped, PutOne
<1>4. Fills(tables!Put(<<"A_LOW", "B_LOW">>, tables!Zero), {"A_LOW", "B_LOW"}, new[r])
  BY <1>1, TablesTyped, PutTwo
<1>5. Fills(tables!Put(<<"A_HI">>, tables!Zero) \o tables!Put(<<"B_HI">>, tables!Ones),
            {"A_HI"} \cup {"B_HI"}, new[r])
  BY <1>2, <1>3, FillsJoin
<1>6. Fills(tables!Put(<<"A_HI">>, tables!Zero) \o tables!Put(<<"B_HI">>, tables!Ones)
                \o tables!Put(<<"A_LOW", "B_LOW">>, tables!Zero),
            ({"A_HI"} \cup {"B_HI"}) \cup {"A_LOW", "B_LOW"}, new[r])
  BY <1>4, <1>5, FillsJoin
<1>7. tables!FieldsOf("route") \subseteq ({"A_HI"} \cup {"B_HI"}) \cup {"A_LOW", "B_LOW"}
  BY TablesTyped
<1> QED BY <1>1, <1>6, <1>7, WriteMakes DEF tables!ClearIpRow

-----------------------------------------------------------------------------
(* The invariant of the tables *)

\* The accesses thread w has left bring the row contents of t to what is wanted.
Repairs(w, t) == \E s \in States : Goes(ops[w], <<regs, table>>, s) /\ s[2][t] = want[t]
Alone(w) == \A u \in tables!Threads \ {w} : ops[u] = <<>>

TablesInv ==
    /\ regs \in RegSet /\ table \in TabSet /\ want \in TabSet /\ starts \in Nat
    /\ calm \in SUBSET tables!Tables
    /\ ops \in [tables!Threads -> Seq(Accesses)]
    /\ \A t \in calm : \E w \in tables!Threads : Alone(w) /\ Repairs(w, t)

LEMMA IdleRepaired ==
    ASSUME TablesInv, tables!Idle, NEW t \in calm
    PROVE  table[t] = want[t]
<1>1. PICK w \in tables!Threads : Repairs(w, t)
  BY DEF TablesInv
<1>2. ops[w] = <<>>
  BY DEF tables!Idle
<1>3. PICK s \in States : Goes(<<>>, <<regs, table>>, s) /\ s[2][t] = want[t]
  BY <1>1, <1>2 DEF Repairs
<1>4. <<regs, table>> = s
  BY <1>3, TraceEnd DEF Goes
<1> QED BY <1>3, <1>4

LEMMA TablesStart ==
    ASSUME tables!Init
    PROVE  TablesInv
<1>1. regs \in RegSet
  <2>1. <<"route", 1>> \in tables!Tables \X (1 .. Rows)
    BY TablesTyped
  <2> QED BY <2>1, TablesTyped DEF tables!Init, RegSet
<1>2. table \in TabSet
  <2>1. tables!Blank \in [tables!Data -> Val] /\ \A f \in tables!Data : tables!Blank[f] = tables!Zero
    BY TablesTyped DEF tables!Blank
  <2>2. \A t \in tables!Tables : tables!Blank \in RowSet(t)
    BY <2>1 DEF RowSet
  <2>3. table = [t \in tables!Tables |-> [r \in 1 .. Rows |-> tables!Blank]]
    BY DEF tables!Init
  <2> QED BY <2>1, <2>2, <2>3 DEF TabSet
<1>3. want = table /\ starts = 0 /\ calm = tables!Tables /\ ops = [w \in tables!Threads |-> <<>>]
  BY DEF tables!Init
<1>4. ops \in [tables!Threads -> Seq(Accesses)]
  <2>1. <<>> \in Seq(Accesses)
    OBVIOUS
  <2> QED BY <1>3, <2>1
<1>5. ASSUME NEW t \in calm PROVE \E w \in tables!Threads : Alone(w) /\ Repairs(w, t)
  <2>1. "tool" \in tables!Threads /\ \A w \in tables!Threads : ops[w] = <<>>
    BY <1>3 DEF tables!Threads
  <2>2. <<regs, table>> \in States
    BY <1>1, <1>2, Pairs
  <2>3. Goes(ops["tool"], <<regs, table>>, <<regs, table>>)
    BY <2>1, <2>2, TraceNothing DEF Goes
  <2>4. Repairs("tool", t)
    BY <1>3, <2>2, <2>3 DEF Repairs
  <2> QED BY <2>1, <2>4 DEF Alone
<1> QED BY <1>1, <1>2, <1>3, <1>4, <1>5 DEF TablesInv

\* One access more is made: the thread that is alone follows its trace.
LEMMA AccessKeeps ==
    ASSUME TablesInv, NEW w \in tables!Threads, tables!Access(w)
    PROVE  TablesInv'
<1> DEFINE e == Head(ops[w])
           l == Tail(ops[w])
<1>1. /\ regs \in RegSet /\ table \in TabSet /\ want \in TabSet /\ starts \in Nat
      /\ calm \in SUBSET tables!Tables
      /\ ops \in [tables!Threads -> Seq(Accesses)]
  BY DEF TablesInv
<1>2. /\ ops[w] # <<>> /\ regs' = tables!RegsAfter(e, regs) /\ table' = tables!TableAfter(e, regs, table)
      /\ ops' = [ops EXCEPT ![w] = l] /\ want' = want /\ starts' = starts /\ calm' = calm
  BY DEF tables!Access
<1>3. e \in Accesses /\ l \in Seq(Accesses)
  BY <1>1, <1>2
<1>4. After(e, <<regs, table>>) = <<regs', table'>>
  BY <1>2 DEF After
<1>5. <<regs', table'>> \in States
  BY <1>1, <1>3, <1>4, AccessTyped, Pairs
<1>6. regs' \in RegSet /\ table' \in TabSet
  BY <1>5 DEF States
<1>7. ops' \in [tables!Threads -> Seq(Accesses)] /\ ops'[w] = l
      /\ \A u \in tables!Threads \ {w} : ops'[u] = ops[u]
  <2> HIDE DEF l
  <2> QED BY <1>1, <1>2, <1>3
<1>8. ASSUME NEW t \in calm PROVE \E x \in tables!Threads : (Alone(x) /\ Repairs(x, t))'
  <2>1. PICK x \in tables!Threads : Alone(x) /\ Repairs(x, t)
    BY DEF TablesInv
  <2>2. x = w
    BY <1>2, <2>1 DEF Alone
  <2>3. PICK s \in States : Goes(ops[w], <<regs, table>>, s) /\ s[2][t] = want[t]
    BY <2>1, <2>2 DEF Repairs
  <2>4. PICK z \in States : <<e, <<regs, table>>, z>> \in AccessSteps /\ Goes(l, z, s)
    BY <1>1, <1>2, <2>3, TraceStep DEF Goes
  <2>5. z = <<regs', table'>>
    BY <1>4, <2>4 DEF AccessSteps
  <2>6. Repairs(w, t)'
    <3> HIDE DEF l
    <3> QED BY <1>2, <1>7, <2>3, <2>4, <2>5 DEF Repairs
  <2>7. Alone(w)'
    BY <1>7, <2>1, <2>2 DEF Alone
  <2> QED BY <2>6, <2>7
<1> HIDE DEF l, e
<1> QED BY <1>1, <1>2, <1>6, <1>7, <1>8 DEF TablesInv

LEMMA SameFunctions ==
    ASSUME NEW S, NEW T, NEW a \in [S -> T], NEW b \in [S -> T], \A r \in S : a[r] = b[r]
    PROVE  a = b
  OBVIOUS

\* A thread sets out to write the rows rs of t: if it is alone, and rs are all
\* rows that are wanted otherwise than before, the calm tables stay so.
LEMMA BeginKeeps ==
    ASSUME TablesInv, NEW w \in tables!Threads, NEW l, tables!Begin(w, l),
           NEW t \in tables!Tables, NEW rs \in SUBSET (1 .. Rows), NEW new \in Contents(t),
           Makes(l, t, rs, new), want' = [want EXCEPT ![t] = new],
           ~tables!Idle => calm' = {},
           tables!Idle => \/ calm' = calm /\ \A r \in (1 .. Rows) \ rs : new[r] = want[t][r]
                          \/ calm' = calm \cup {t} /\ rs = 1 .. Rows
    PROVE  TablesInv'
<1>1. /\ regs \in RegSet /\ table \in TabSet /\ want \in TabSet /\ starts \in Nat
      /\ calm \in SUBSET tables!Tables
      /\ ops \in [tables!Threads -> Seq(Accesses)]
  BY DEF TablesInv
<1>2. /\ ops[w] = <<>> /\ regs' = regs /\ table' = table /\ starts' = starts + 1
      /\ ops' = [ops EXCEPT ![w] = l]
  BY DEF tables!Begin
<1>3. l \in Seq(Accesses)
  BY DEF Makes
<1>4. ops' \in [tables!Threads -> Seq(Accesses)] /\ ops'[w] = l
      /\ \A u \in tables!Threads \ {w} : ops'[u] = ops[u]
  BY <1>1, <1>2, <1>3
<1>5. want' \in TabSet /\ want'[t] = new /\ \A u \in tables!Tables \ {t} : want'[u] = want[u]
  <2>1. want' = Over(want, t, 1 .. Rows, new)
    <3>1. new = [r \in 1 .. Rows |-> new[r]]
      BY DEF Contents
    <3>2. [r \in 1 .. Rows |-> IF r \in 1 .. Rows THEN new[r] ELSE want[t][r]] = [r \in 1 .. Rows |-> new[r]]
      OBVIOUS
    <3> QED BY <3>1, <3>2 DEF Over
  <2> DEFINE all == 1 .. Rows
  <2> HIDE DEF all
  <2>2. Over(want, t, all, new) \in TabSet
    BY <1>1, OverAt
  <2>3. want' \in TabSet
    BY <2>1, <2>2 DEF all
  <2>4. want \in [tables!Tables -> [1 .. Rows -> [tables!Data -> Val]]]
    BY <1>1 DEF TabSet
  <2> QED BY <2>3, <2>4
<1>6. calm' \in SUBSET tables!Tables
  BY <1>1
<1>7. ASSUME NEW u \in calm' PROVE (Alone(w) /\ Repairs(w, u))'
  <2>1. tables!Idle
    OBVIOUS
  <2>2. \A x \in tables!Threads : ops[x] = <<>>
    BY <2>1 DEF tables!Idle
  <2>3. Alone(w)'
    BY <1>4, <2>2 DEF Alone
  <2>4. PICK h \in RegSet : Goes(l, <<regs, table>>, <<h, Over(table, t, rs, new)>>)
    BY <1>1 DEF Makes
  <2> DEFINE tb == Over(table, t, rs, new)
  <2>5. tb \in TabSet /\ \A x \in tables!Tables : \A r \in 1 .. Rows :
            tb[x][r] = IF x = t /\ r \in rs THEN new[r] ELSE table[x][r]
    BY <1>1, OverAt
  <2> HIDE DEF tb
  <2>6. u \in tables!Tables
    BY <1>6
  <2>7. ASSUME NEW r \in 1 .. Rows PROVE tb[u][r] = want'[u][r]
    <3>1. CASE u \in calm /\ \A k \in (1 .. Rows) \ rs : new[k] = want[t][k]
      <4>1. table[u] = want[u]
        BY <2>1, <3>1, IdleRepaired
      <4> QED BY <1>5, <2>5, <2>6, <3>1, <4>1
    <3>2. CASE u \in calm \cup {t} /\ rs = 1 .. Rows
      <4>1. u # t => table[u] = want[u]
        BY <2>1, <3>2, IdleRepaired
      <4> QED BY <1>5, <2>5, <2>6, <3>2, <4>1
    <3> QED BY <2>1, <3>1, <3>2
  <2>8. tb[u] = want'[u]
    <3>1. /\ tb[u] \in [1 .. Rows -> [tables!Data -> Val]]
          /\ want'[u] \in [1 .. Rows -> [tables!Data -> Val]]
      BY <1>5, <2>5, <2>6 DEF TabSet
    <3> DEFINE a == tb[u]
               b == want'[u]
               S == 1 .. Rows
               T == [tables!Data -> Val]
    <3>2. a \in [S -> T] /\ b \in [S -> T]
      BY <3>1
    <3>3. \A r \in S : a[r] = b[r]
      BY <2>7
    <3> HIDE DEF a, b, S, T
    <3>4. a = b
      BY <3>2, <3>3, SameFunctions
    <3> QED BY <3>4 DEF a, b
  <2>9. <<h, tb>> \in States
    BY <2>5, Pairs
  <2>10. Repairs(w, u)'
    BY <1>2, <1>4, <2>4, <2>8, <2>9 DEF Repairs, tb
  <2> QED BY <2>3, <2>10
<1> QED BY <1>1, <1>2, <1>4, <1>5, <1>6, <1>7 DEF TablesInv

-----------------------------------------------------------------------------
(* The passes and commands *)

LEMMA Versions ==
    ASSUME TablesInv
    PROVE  \A r \in 1 .. Rows : tables!Version(r) \in Val
<1>1. starts + 1 \in Int
  BY DEF TablesInv
<1> QED BY <1>1 DEF tables!Version, Val

LEMMA WholeKeeps ==
    ASSUME TablesInv, NEW w \in tables!Threads, NEW t \in tables!Tables, NEW op,
           tables!WholeTable(w, t, tables!AllRows(op)),
           \A new \in Contents(t) : \A r \in 1 .. Rows :
                new[r] = tables!RowOf(t, tables!Version(r)) => Makes(op[r], t, {r}, new)
    PROVE  TablesInv'
<1> DEFINE new == [r \in 1 .. Rows |-> tables!RowOf(t, tables!Version(r))]
<1>1. new \in Contents(t)
  BY Versions, RowOfTyped DEF Contents
<1>2. \A r \in 1 .. Rows : new[r] = tables!RowOf(t, tables!Version(r))
  OBVIOUS
<1>3. /\ want' = [want EXCEPT ![t] = new]
      /\ calm' = IF tables!Idle THEN calm \cup {t} ELSE {}
      /\ tables!Begin(w, tables!AllRows(op))
  BY DEF tables!WholeTable
<1> HIDE DEF new
<1>4. \A r \in 1 .. Rows : Makes(op[r], t, {r} \cap (1 .. Rows), new)
  <2>1. \A r \in 1 .. Rows : {r} \cap (1 .. Rows) = {r}
    OBVIOUS
  <2> QED BY <1>1, <1>2, <2>1
<1>5. Makes(tables!AllRows(op), t, 1 .. Rows, new)
  BY <1>1, <1>4, AllRowsMakes
<1> QED BY <1>1, <1>3, <1>5, BeginKeeps

LEMMA OneKeeps ==
    ASSUME TablesInv, NEW w \in tables!Threads, NEW t \in tables!Tables, NEW r \in 1 .. Rows,
           NEW row \in RowSet(t), NEW l, tables!OneRow(w, t, r, row, l),
           \A new \in Contents(t) : new[r] = row => Makes(l, t, {r}, new)
    PROVE  TablesInv'
<1> DEFINE new == [want[t] EXCEPT ![r] = row]
<1>1. want[t] \in Contents(t)
  <2>1. /\ want[t] \in [1 .. Rows -> [tables!Data -> Val]]
        /\ \A k \in 1 .. Rows : want[t][k] \in RowSet(t)
    BY DEF TablesInv, TabSet
  <2> QED BY <2>1 DEF Contents
<1>2. new \in Contents(t) /\ new[r] = row /\ \A k \in (1 .. Rows) \ {r} : new[k] = want[t][k]
  BY <1>1 DEF Contents
<1>3. /\ want' = [want EXCEPT ![t] = new]
      /\ calm' = IF tables!Idle THEN calm ELSE {}
      /\ tables!Begin(w, l)
  BY DEF tables!OneRow
<1> HIDE DEF new
<1>4. Makes(l, t, {r}, new)
  BY <1>2
<1>5. {r} \in SUBSET (1 .. Rows)
  OBVIOUS
<1> QED BY <1>2, <1>3, <1>4, <1>5, BeginKeeps

LEMMA ReadingKeeps ==
    ASSUME TablesInv, NEW w \in tables!Threads, NEW l, tables!Reading(w, l),
           \A new \in Contents("route") : Makes(l, "route", {}, new)
    PROVE  TablesInv'
<1> DEFINE new == want["route"]
<1>1. want \in [tables!Tables -> [1 .. Rows -> [tables!Data -> Val]]] /\ "route" \in tables!Tables
      /\ \A k \in 1 .. Rows : new[k] \in RowSet("route")
  BY TablesTyped DEF TablesInv, TabSet
<1>2. new \in Contents("route")
  BY <1>1 DEF Contents
<1>3. /\ want' = [want EXCEPT !["route"] = new]
      /\ calm' = IF tables!Idle THEN calm ELSE {}
      /\ tables!Begin(w, l)
  BY <1>1 DEF tables!Reading
<1>4. \A k \in (1 .. Rows) \ {} : new[k] = want["route"][k]
  OBVIOUS
<1> HIDE DEF new
<1>5. Makes(l, "route", {}, new)
  BY <1>2
<1>6. {} \in SUBSET (1 .. Rows)
  OBVIOUS
<1> QED BY <1>1, <1>2, <1>3, <1>4, <1>5, <1>6, BeginKeeps

LEMMA ListKeeps ==
    ASSUME TablesInv, NEW t \in tables!Tables,
           tables!Reading("tool", tables!AllRows([r \in 1 .. Rows |-> tables!ReadRow(t, r)]))
    PROVE  TablesInv'
<1> DEFINE op == [r \in 1 .. Rows |-> tables!ReadRow(t, r)]
<1>1. "tool" \in tables!Threads /\ "route" \in tables!Tables
  BY TablesTyped DEF tables!Threads
<1>2. ASSUME NEW new \in Contents("route") PROVE Makes(tables!AllRows(op), "route", {}, new)
  <2>1. \A r \in 1 .. Rows : op[r] = tables!ReadRow(t, r) /\ {r} \cap {} = {}
    OBVIOUS
  <2> HIDE DEF op
  <2>2. \A r \in 1 .. Rows : Makes(op[r], "route", {r} \cap {}, new)
    BY <1>1, <2>1, ReadMakes
  <2> QED BY <1>1, <2>2, AllRowsMakes
<1> HIDE DEF op
<1>3. tables!Reading("tool", tables!AllRows(op))
  BY DEF op
<1> QED BY <1>1, <1>2, <1>3, ReadingKeeps

LEMMA ShowKeeps ==
    ASSUME TablesInv, NEW t \in tables!Tables, NEW r \in 1 .. Rows,
           tables!Reading("command", tables!ReadRow(t, r))
    PROVE  TablesInv'
<1>1. "command" \in tables!Threads /\ "route" \in tables!Tables
  BY TablesTyped DEF tables!Threads
<1>2. \A new \in Contents("route") : Makes(tables!ReadRow(t, r), "route", {}, new)
  BY <1>1, ReadMakes
<1> QED BY <1>1, <1>2, ReadingKeeps

LEMMA BlankRows ==
    /\ \A t \in tables!Tables : tables!Blank \in RowSet(t)
    /\ \A t \in tables!Tables : tables!Blank = tables!RowOf(t, tables!Zero)
    /\ tables!ClearedRoute \in RowSet("route")
  BY TablesTyped DEF tables!Blank, tables!RowOf, tables!ClearedRoute, RowSet

LEMMA RouterKeeps ==
    ASSUME TablesInv, tables!Router
    PROVE  TablesInv'
<1>0. /\ \A w \in {"route", "arp", "filter", "command"} : w \in tables!Threads
      /\ \A t \in {"route", "arp", "filter", "mac"} : t \in tables!Tables
      /\ tables!Zero \in Val
      /\ \A r \in 1 .. Rows : tables!Version(r) \in Val
  BY TablesTyped, Versions DEF tables!Threads
<1>1. CASE tables!RewriteFilters
  <2> DEFINE op == [r \in 1 .. Rows |-> tables!FilterRow(r, tables!Version(r))]
  <2>1. tables!WholeTable("filter", "filter", tables!AllRows(op))
    BY <1>1 DEF tables!RewriteFilters
  <2>2. \A r \in 1 .. Rows : op[r] = tables!FilterRow(r, tables!Version(r))
    OBVIOUS
  <2> HIDE DEF op
  <2>3. \A new \in Contents("filter") : \A r \in 1 .. Rows :
            new[r] = tables!RowOf("filter", tables!Version(r)) => Makes(op[r], "filter", {r}, new)
    BY <1>0, <2>2, FilterMakes
  <2> QED BY <1>0, <2>1, <2>3, WholeKeeps
<1>2. CASE tables!RewriteRoutes
  <2> DEFINE op == [r \in 1 .. Rows |-> tables!RouteRow(r, tables!Version(r))]
  <2>1. tables!WholeTable("route", "route", tables!AllRows(op))
    BY <1>2 DEF tables!RewriteRoutes
  <2>2. \A r \in 1 .. Rows : op[r] = tables!RouteRow(r, tables!Version(r))
    OBVIOUS
  <2> HIDE DEF op
  <2>3. \A new \in Contents("route") : \A r \in 1 .. Rows :
            new[r] = tables!RowOf("route", tables!Version(r)) => Makes(op[r], "route", {r}, new)
    BY <1>0, <2>2, RouteMakes
  <2> QED BY <1>0, <2>1, <2>3, WholeKeeps
<1>3. CASE tables!RewriteArp
  <2> DEFINE op == [r \in 1 .. Rows |-> tables!ArpRow(r, tables!Version(r))]
  <2>1. tables!WholeTable("arp", "arp", tables!AllRows(op))
    BY <1>3 DEF tables!RewriteArp
  <2>2. \A r \in 1 .. Rows : op[r] = tables!ArpRow(r, tables!Version(r))
    OBVIOUS
  <2> HIDE DEF op
  <2>3. \A new \in Contents("arp") : \A r \in 1 .. Rows :
            new[r] = tables!RowOf("arp", tables!Version(r)) => Makes(op[r], "arp", {r}, new)
    BY <1>0, <2>2, ArpMakes
  <2> QED BY <1>0, <2>1, <2>3, WholeKeeps
<1>4. ASSUME NEW r \in 1 .. Rows, tables!Nuke(r) PROVE TablesInv'
  <2>1. tables!OneRow("command", "arp", r, tables!Blank, tables!NukeRow(r))
    BY <1>4 DEF tables!Nuke
  <2>2. \A new \in Contents("arp") : new[r] = tables!Blank => Makes(tables!NukeRow(r), "arp", {r}, new)
    BY <1>0, BlankRows, ArpMakes
  <2> QED BY <1>0, <2>1, <2>2, BlankRows, OneKeeps
<1>5. ASSUME NEW r \in 1 .. Rows, tables!HwInterfaceAdd(r) PROVE TablesInv'
  <2>1. tables!OneRow("command", "mac", r, tables!RowOf("mac", tables!Version(r)),
                      tables!MacRow(r, tables!Version(r)))
    BY <1>5 DEF tables!HwInterfaceAdd
  <2>2. \A new \in Contents("mac") : new[r] = tables!RowOf("mac", tables!Version(r))
            => Makes(tables!MacRow(r, tables!Version(r)), "mac", {r}, new)
    BY <1>0, PortMakes
  <2> QED BY <1>0, <2>1, <2>2, RowOfTyped, OneKeeps
<1>6. ASSUME NEW r \in 1 .. Rows, tables!HwInterfaceDel(r) PROVE TablesInv'
  <2>1. tables!OneRow("command", "mac", r, tables!Blank, tables!MacRow(r, tables!Zero))
    BY <1>6 DEF tables!HwInterfaceDel
  <2>2. \A new \in Contents("mac") : new[r] = tables!Blank
            => Makes(tables!MacRow(r, tables!Zero), "mac", {r}, new)
    BY <1>0, BlankRows, PortMakes
  <2> QED BY <1>0, <2>1, <2>2, BlankRows, OneKeeps
<1>7. ASSUME NEW r \in 1 .. Rows,
             \/ tables!Show(tables!ShowRoute(r)) \/ tables!Show(tables!ShowArp(r))
             \/ tables!Show(tables!ShowFilter(r))
      PROVE  TablesInv'
  <2>1. \E t \in {"route", "arp", "filter"} : tables!Reading("command", tables!ReadRow(t, r))
    BY <1>7 DEF tables!Show, tables!ShowRoute, tables!ShowArp, tables!ShowFilter
  <2> QED BY <1>0, <2>1, ShowKeeps
<1> QED BY <1>1, <1>2, <1>3, <1>4, <1>5, <1>6, <1>7 DEF tables!Router

LEMMA PromptKeeps ==
    ASSUME TablesInv, tables!Prompt
    PROVE  TablesInv'
<1>0. /\ "tool" \in tables!Threads
      /\ \A t \in {"route", "arp", "filter", "mac"} : t \in tables!Tables
      /\ tables!Zero \in Val
      /\ \A r \in 1 .. Rows : tables!Version(r) \in Val
  BY TablesTyped, Versions DEF tables!Threads
<1>1. CASE tables!LoadIp
  <2> DEFINE op == [r \in 1 .. Rows |-> tables!AddIp(r, tables!Version(r))]
  <2>1. tables!WholeTable("tool", "route", tables!AllRows(op))
    BY <1>1 DEF tables!LoadIp
  <2>2. \A r \in 1 .. Rows : op[r] = tables!AddIp(r, tables!Version(r))
    OBVIOUS
  <2> HIDE DEF op
  <2>3. \A new \in Contents("route") : \A r \in 1 .. Rows :
            new[r] = tables!RowOf("route", tables!Version(r)) => Makes(op[r], "route", {r}, new)
    BY <1>0, <2>2, RouteMakes
  <2> QED BY <1>0, <2>1, <2>3, WholeKeeps
<1>2. CASE tables!LoadArp
  <2> DEFINE op == [r \in 1 .. Rows |-> tables!AddArp(r, tables!Version(r))]
  <2>1. tables!WholeTable("tool", "arp", tables!AllRows(op))
    BY <1>2 DEF tables!LoadArp
  <2>2. \A r \in 1 .. Rows : op[r] = tables!AddArp(r, tables!Version(r))
    OBVIOUS
  <2> HIDE DEF op
  <2>3. \A new \in Contents("arp") : \A r \in 1 .. Rows :
            new[r] = tables!RowOf("arp", tables!Version(r)) => Makes(op[r], "arp", {r}, new)
    BY <1>0, <2>2, ArpMakes
  <2> QED BY <1>0, <2>1, <2>3, WholeKeeps
<1>3. CASE tables!LoadFilter
  <2> DEFINE op == [r \in 1 .. Rows |-> tables!AddFilter(r, tables!Version(r))]
  <2>1. tables!WholeTable("tool", "filter", tables!AllRows(op))
    BY <1>3 DEF tables!LoadFilter
  <2>2. \A r \in 1 .. Rows : op[r] = tables!AddFilter(r, tables!Version(r))
    OBVIOUS
  <2> HIDE DEF op
  <2>3. \A new \in Contents("filter") : \A r \in 1 .. Rows :
            new[r] = tables!RowOf("filter", tables!Version(r)) => Makes(op[r], "filter", {r}, new)
    BY <1>0, <2>2, FilterMakes
  <2> QED BY <1>0, <2>1, <2>3, WholeKeeps
<1>4. CASE tables!LoadMac
  <2> DEFINE op == [r \in 1 .. Rows |-> tables!AddMac(r, tables!Version(r))]
  <2>1. tables!WholeTable("tool", "mac", tables!AllRows(op))
    BY <1>4 DEF tables!LoadMac
  <2>2. \A r \in 1 .. Rows : op[r] = tables!AddMac(r, tables!Version(r))
    OBVIOUS
  <2> HIDE DEF op
  <2>3. \A new \in Contents("mac") : \A r \in 1 .. Rows :
            new[r] = tables!RowOf("mac", tables!Version(r)) => Makes(op[r], "mac", {r}, new)
    BY <1>0, <2>2, PortMakes
  <2> QED BY <1>0, <2>1, <2>3, WholeKeeps
<1>5. CASE tables!ListIp \/ tables!ListArp \/ tables!ListFilter
  <2>1. \E t \in {"route", "arp", "filter"} :
            tables!Reading("tool", tables!AllRows([r \in 1 .. Rows |-> tables!ReadRow(t, r)]))
    BY <1>5 DEF tables!ListIp, tables!ListArp, tables!ListFilter
  <2> QED BY <1>0, <2>1, ListKeeps
<1>6. ASSUME NEW r \in 1 .. Rows, tables!SetIp(r) PROVE TablesInv'
  <2>1. tables!OneRow("tool", "route", r, tables!RowOf("route", tables!Version(r)),
                      tables!AddIp(r, tables!Version(r)))
    BY <1>6 DEF tables!SetIp
  <2>2. \A new \in Contents("route") : new[r] = tables!RowOf("route", tables!Version(r))
            => Makes(tables!AddIp(r, tables!Version(r)), "route", {r}, new)
    BY <1>0, RouteMakes
  <2> QED BY <1>0, <2>1, <2>2, RowOfTyped, OneKeeps
<1>7. ASSUME NEW r \in 1 .. Rows, tables!SetArp(r) PROVE TablesInv'
  <2>1. tables!OneRow("tool", "arp", r, tables!RowOf("arp", tables!Version(r)),
                      tables!AddArp(r, tables!Version(r)))
    BY <1>7 DEF tables!SetArp
  <2>2. \A new \in Contents("arp") : new[r] = tables!RowOf("arp", tables!Version(r))
            => Makes(tables!AddArp(r, tables!Version(r)), "arp", {r}, new)
    BY <1>0, ArpMakes
  <2> QED BY <1>0, <2>1, <2>2, RowOfTyped, OneKeeps
<1>8. ASSUME NEW r \in 1 .. Rows, tables!SetFilter(r) PROVE TablesInv'
  <2>1. tables!OneRow("tool", "filter", r, tables!RowOf("filter", tables!Version(r)),
                      tables!AddFilter(r, tables!Version(r)))
    BY <1>8 DEF tables!SetFilter
  <2>2. \A new \in Contents("filter") : new[r] = tables!RowOf("filter", tables!Version(r))
            => Makes(tables!AddFilter(r, tables!Version(r)), "filter", {r}, new)
    BY <1>0, FilterMakes
  <2> QED BY <1>0, <2>1, <2>2, RowOfTyped, OneKeeps
<1>9. ASSUME NEW r \in 1 .. Rows, tables!SetMac(r) PROVE TablesInv'
  <2>1. tables!OneRow("tool", "mac", r, tables!RowOf("mac", tables!Version(r)),
                      tables!AddMac(r, tables!Version(r)))
    BY <1>9 DEF tables!SetMac
  <2>2. \A new \in Contents("mac") : new[r] = tables!RowOf("mac", tables!Version(r))
            => Makes(tables!AddMac(r, tables!Version(r)), "mac", {r}, new)
    BY <1>0, PortMakes
  <2> QED BY <1>0, <2>1, <2>2, RowOfTyped, OneKeeps
<1>10. ASSUME NEW r \in 1 .. Rows, tables!ClearIp(r) PROVE TablesInv'
  <2>1. tables!OneRow("tool", "route", r, tables!ClearedRoute, tables!ClearIpRow(r))
    BY <1>10 DEF tables!ClearIp
  <2>2. \A new \in Contents("route") : new[r] = tables!ClearedRoute
            => Makes(tables!ClearIpRow(r), "route", {r}, new)
    BY ClearMakes
  <2> QED BY <1>0, <2>1, <2>2, BlankRows, OneKeeps
<1>11. ASSUME NEW r \in 1 .. Rows, tables!ClearArp(r) PROVE TablesInv'
  <2>1. tables!OneRow("tool", "arp", r, tables!Blank, tables!AddArp(r, tables!Zero))
    BY <1>11 DEF tables!ClearArp
  <2>2. \A new \in Contents("arp") : new[r] = tables!Blank
            => Makes(tables!AddArp(r, tables!Zero), "arp", {r}, new)
    BY <1>0, BlankRows, ArpMakes
  <2> QED BY <1>0, <2>1, <2>2, BlankRows, OneKeeps
<1>12. ASSUME NEW r \in 1 .. Rows, tables!ClearFilter(r) PROVE TablesInv'
  <2>1. tables!OneRow("tool", "filter", r, tables!Blank, tables!AddFilter(r, tables!Zero))
    BY <1>12 DEF tables!ClearFilter
  <2>2. \A new \in Contents("filter") : new[r] = tables!Blank
            => Makes(tables!AddFilter(r, tables!Zero), "filter", {r}, new)
    BY <1>0, BlankRows, FilterMakes
  <2> QED BY <1>0, <2>1, <2>2, BlankRows, OneKeeps
<1>13. CASE tables!LoadIp \/ tables!LoadArp \/ tables!LoadFilter \/ tables!LoadMac
            \/ tables!ListIp \/ tables!ListArp \/ tables!ListFilter
  BY <1>1, <1>2, <1>3, <1>4, <1>5, <1>13
<1>14. CASE \E r \in 1 .. Rows :
                \/ tables!SetIp(r) \/ tables!SetArp(r) \/ tables!SetFilter(r) \/ tables!SetMac(r)
                \/ tables!ClearIp(r) \/ tables!ClearArp(r) \/ tables!ClearFilter(r)
  BY <1>6, <1>7, <1>8, <1>9, <1>10, <1>11, <1>12, <1>14
<1> QED BY <1>13, <1>14 DEF tables!Prompt

(***************************************************************************)
(* The indirect registers: whatever accesses mixed before, a table that    *)
(* one thread writes from first to last row with no access of another in   *)
(* between holds what was meant, for tables of any size and any number of  *)
(* threads at a time.                                                      *)
(***************************************************************************)
THEOREM UndisturbedPassRepairs == MCSpec => []PassRepairs
<1> DEFINE MCInv == unit = "tables" => TablesInv
<1>1. MCInit => MCInv
  BY TablesStart DEF MCInit
<1>2. MCInv /\ [MCNext]_<<unit, vars, dijkstraVars, rtableVars, tablesVars>> => MCInv'
  <2> SUFFICES ASSUME MCInv, [MCNext]_<<unit, vars, dijkstraVars, rtableVars, tablesVars>>,
                      unit' = "tables"
               PROVE  TablesInv'
    OBVIOUS
  <2>1. unit = "tables" /\ TablesInv
    BY DEF MCNext
  <2>2. CASE UNCHANGED tablesVars
    BY <2>1, <2>2 DEF TablesInv, Alone, Repairs, tablesVars
  <2>3. CASE tables!Next
    <3>1. CASE tables!Router
      BY <2>1, <3>1, RouterKeeps
    <3>2. CASE tables!Prompt
      BY <2>1, <3>2, PromptKeeps
    <3>3. ASSUME NEW w \in tables!Threads, tables!Access(w) PROVE TablesInv'
      BY <2>1, <3>3, AccessKeeps
    <3> QED BY <2>3, <3>1, <3>2, <3>3 DEF tables!Next
  <2> QED BY <2>1, <2>2, <2>3 DEF MCNext
<1>3. MCInv => PassRepairs
  BY IdleRepaired DEF PassRepairs, tables!PassRepairs
<1> QED BY <1>1, <1>2, <1>3, PTL DEF MCSpec
=============================================================================
