------------------------------ MODULE Mailbox ------------------------------
(***************************************************************************)
(* sys_arch.c and sys.c under transport_subsys.c: the mailbox of the       *)
(* transport thread, or of an application thread, with any number of       *)
(* threads posting to it, and the list of time-outs that the transport     *)
(* thread serves while it waits for mail.                                  *)
(*                                                                         *)
(* A semaphore is a count that never exceeds one; its own mutex and        *)
(* condition make a wait and a signal atomic.                              *)
(***************************************************************************)
EXTENDS Integers, Sequences, SequencesExt, FiniteSets, FiniteSetsExt, Sums

CONSTANTS Senders,        \* threads that post
          SYS_MBOX_SIZE,  \* slots of the ring, 100 in the build
          MaxPosts,       \* bound: messages in a behaviour
          Periods,        \* msecs of the timers; one per timer
          MaxWait         \* bound: msecs that one wait counts

\* What the constants must be like.
MailboxAssumption ==
    /\ "reader" \notin Senders /\ SYS_MBOX_SIZE \in Nat \ {0}
    /\ Periods \in Seq(Nat) /\ MaxWait \in Nat

VARIABLES ring,    \* struct sys_mbox: [first, last, msgs]
          mutex, mail,   \* its two semaphores
          at,      \* where each thread is in its call
          time,    \* what the fetch will report as waited
          posted,  \* messages in the order they entered the ring
          taken,   \* messages in the order they left it
          peak,    \* most messages that were ever in the ring
          timeouts,  \* delta list: sequence of [time, h]
          due      \* what each timer has left to wait, counted apart

box == <<ring, mutex, mail, posted, taken, peak>>
vars == <<ring, mutex, mail, at, time, posted, taken, peak, timeouts, due>>

Timers == DOMAIN Periods

----------------------------------------------------------------------------
\* sys_timeout: a delta list; equal times keep the order of their calls.

Times(s) == [i \in DOMAIN s |-> s[i].time]
Abs(s, i) == SumOf(Times(SubSeq(s, 1, i)))

\* How many entries a new one goes behind
Ahead(s, msecs) == Cardinality({i \in DOMAIN s : Abs(s, i) <= msecs})

\* Mutant: the entry behind the new one keeps its distance from the one before.
MutantSysTimeout(s, msecs, h) ==
    LET k == Ahead(s, msecs)
        t == msecs - Abs(s, k)
    IN SubSeq(s, 1, k) \o <<[time |-> t, h |-> h]>> \o SubSeq(s, k + 1, Len(s))

SysTimeout(s, msecs, h) ==
    LET k == Ahead(s, msecs)
        t == msecs - Abs(s, k)
        rest == SubSeq(s, k + 1, Len(s))
    IN SubSeq(s, 1, k) \o <<[time |-> t, h |-> h]>>
       \o IF rest = <<>> THEN <<>>
          ELSE <<[Head(rest) EXCEPT !.time = @ - t]>> \o Tail(rest)

\* After a wait: the head loses what was waited, down to zero.
Waited(s, d) ==
    IF s = <<>> THEN s
    ELSE [s EXCEPT ![1].time = IF d <= @ THEN @ - d ELSE 0]

\* The timers, set one after the other.
Started[n \in 0 .. Len(Periods)] ==
    IF n = 0 THEN <<>> ELSE SysTimeout(Started[n - 1], Periods[n], n)

\* transport_subsys_init and the start of transport_thread; the mailboxes of
\* an application are read by a thread without timers.
Init ==
    /\ ring = [first |-> 0, last |-> 0, msgs |-> [i \in 0..SYS_MBOX_SIZE-1 |-> 0]]
    /\ mutex = 1 /\ mail = 0
    /\ at = [t \in Senders \cup {"reader"} |-> "idle"]
    /\ time = 0
    /\ posted = <<>> /\ taken = <<>> /\ peak = 0
    /\ timeouts \in {<<>>, Started[Len(Periods)]}
    /\ due = Periods

----------------------------------------------------------------------------
\* sys_mbox_post

Goes(t, pc) == at' = [at EXCEPT ![t] = pc]
Next1(i) == (i + 1) % SYS_MBOX_SIZE
InRing == Len(posted) - Len(taken)

\* Mutant: the mutex is not taken.
MutantPostEnter(t) ==
    /\ at[t] = "idle"
    /\ Len(posted) + Cardinality({u \in Senders : at[u] # "idle"}) < MaxPosts
    /\ Goes(t, "put")
    /\ UNCHANGED <<ring, mutex, mail, time, posted, taken, peak, timeouts, due>>

PostEnter(t) ==
    /\ at[t] = "idle" /\ mutex = 1
    /\ Len(posted) + Cardinality({u \in Senders : at[u] # "idle"}) < MaxPosts
    /\ mutex' = 0 /\ Goes(t, "put")
    /\ UNCHANGED <<ring, mail, time, posted, taken, peak, timeouts, due>>

\* Mutant: the ring is looked at after the message is in.
MutantWasEmpty == Next1(ring.last) = ring.first
WasEmpty == ring.last = ring.first

\* The store, the test and the new index are one step to those who take the
\* mutex; the index is not, to those who do not.
PostStore(t) ==
    /\ at[t] = "put"
    /\ ring' = [ring EXCEPT !.msgs[ring.last] = Len(posted) + 1]
    /\ posted' = Append(posted, Len(posted) + 1)
    /\ peak' = IF InRing + 1 > peak THEN InRing + 1 ELSE peak
    /\ Goes(t, IF WasEmpty THEN "first" ELSE "more")
    /\ UNCHANGED <<mutex, mail, time, taken, timeouts, due>>

PostLeave(t) ==
    /\ at[t] \in {"first", "more"}
    /\ ring' = [ring EXCEPT !.last = Next1(@)]
    /\ mail' = IF at[t] = "first" THEN 1 ELSE mail
    /\ mutex' = 1 /\ Goes(t, "idle")
    /\ UNCHANGED <<time, posted, taken, peak, timeouts, due>>

----------------------------------------------------------------------------
\* sys_mbox_fetch of the transport thread and, below, sys_arch_mbox_fetch

\* A timer that is due is served first; its handler sets it again.
\* transport_tcp_timer.
Fire ==
    /\ timeouts # <<>>
    /\ LET h == Head(timeouts).h IN
       /\ timeouts' = SysTimeout(Tail(timeouts), Periods[h], h)
       /\ due' = [due EXCEPT ![h] = Periods[h]]

Due == IF timeouts = <<>> THEN FALSE ELSE Head(timeouts).time = 0

FetchTimer ==
    /\ at["reader"] = "idle" /\ Due
    /\ Fire /\ UNCHANGED <<at, time, box>>

FetchEnter ==
    /\ at["reader"] = "idle" /\ ~Due
    /\ mutex = 1 /\ mutex' = 0 /\ time' = 1
    /\ Goes("reader", "look")
    /\ UNCHANGED <<ring, mail, posted, taken, peak, timeouts, due>>

\* The mutex is given up before the wait for mail.
FetchEmpty ==
    /\ at["reader"] = "look" /\ ring.first = ring.last
    /\ mutex' = 1 /\ Goes("reader", "wait")
    /\ UNCHANGED <<ring, mail, time, posted, taken, peak, timeouts, due>>

\* Mail: the time counted is at least one and that of the last wait only.
FetchMail ==
    /\ at["reader"] = "wait" /\ mail = 1
    /\ mail' = 0 /\ Goes("reader", "again")
    /\ time' \in 1..MaxWait
    /\ UNCHANGED <<ring, mutex, posted, taken, peak, timeouts, due>>

FetchAgain ==
    /\ at["reader"] = "again" /\ mutex = 1
    /\ mutex' = 0 /\ Goes("reader", "look")
    /\ UNCHANGED <<ring, mail, time, posted, taken, peak, timeouts, due>>

\* No mail in time: what the head still had to wait has passed.
FetchTimedOut ==
    /\ at["reader"] = "wait" /\ mail = 0 /\ timeouts # <<>>
    /\ LET h == Head(timeouts).h
           d == Head(timeouts).time
           s == Tail(timeouts)
       IN /\ timeouts' = SysTimeout(s, Periods[h], h)
          /\ due' = [u \in Timers |-> IF u = h THEN Periods[h] ELSE due[u] - d]
    /\ Goes("reader", "idle") /\ UNCHANGED <<time, box>>

FetchTake ==
    /\ at["reader"] = "look" /\ ring.first # ring.last
    /\ taken' = Append(taken, ring.msgs[ring.first])
    /\ ring' = [ring EXCEPT !.first = Next1(@)]
    /\ mutex' = 1 /\ Goes("reader", "idle")
    /\ timeouts' = Waited(timeouts, time)
    /\ due' = IF timeouts = <<>> THEN due
              ELSE [u \in Timers |-> due[u] - Min({time, Head(timeouts).time})]
    /\ UNCHANGED <<mail, time, posted, peak>>

Post(t) == PostEnter(t) \/ PostStore(t) \/ PostLeave(t)
Fetch == FetchTimer \/ FetchEnter \/ FetchEmpty \/ FetchMail \/ FetchAgain \/ FetchTimedOut \/ FetchTake
Next == Fetch \/ \E t \in Senders : Post(t)

\* The transport thread runs, and a thread that has begun to post goes on.
Fairness ==
    /\ WF_vars(Fetch) /\ SF_vars(FetchAgain) /\ SF_vars(FetchEnter)
    /\ \A t \in Senders : WF_vars(PostStore(t)) /\ WF_vars(PostLeave(t))
Spec == Init /\ [][Next]_vars /\ Fairness

----------------------------------------------------------------------------
\* Properties

\* While the ring was never full, messages leave it in the order in which
\* they entered it, each once: what concurrent senders and the reader do to
\* the two indices never mixes them up.
InOrder == peak < SYS_MBOX_SIZE => IsPrefix(taken, posted)

\* While the ring was never full, every message is fetched: a signal that is
\* given only for the first message of an empty ring, on a semaphore that
\* does not count, is never missed and never forgotten.
AllFetched ==
    \A n \in 1..MaxPosts :
        Len(posted) >= n ~> (Len(taken) >= n \/ peak >= SYS_MBOX_SIZE)

\* The delta list says of each timer what the timer, counted on its own,
\* has left: whatever is set, fired and waited in between.
DeltasExact ==
    /\ {timeouts[i].h : i \in DOMAIN timeouts} \in {{}, Timers}
    /\ \A i \in DOMAIN timeouts : Abs(timeouts, i) = due[timeouts[i].h]

\* Messages and timers come out of their queues as they were put in.
QueuesExact == InOrder /\ DeltasExact

\* What a mailbox is for: nothing posted is lost.  The ring has no test for
\* being full: the message that fills it makes it empty.
NothingLost == Len(posted) - Len(taken) >= 0 /\ (ring.first = ring.last /\ mutex = 1 => taken = posted)
=============================================================================
