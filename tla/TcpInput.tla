------------------------------ MODULE TcpInput ------------------------------
(***************************************************************************)
(* tcp_input.c: what a segment s from the peer does to the control block.  *)
(* s.seq, s.len, s.fl, s.ack and s.wnd are its fields; byte n of the       *)
(* peer's stream has sequence number n.                                    *)
(***************************************************************************)
EXTENDS TcpOutput

CONSTANTS TCP_WND

Bytes(s) == [i \in 1..s.len |-> s.seq + i - 1]
UMax(x, y) == IF x < y THEN y ELSE x

----------------------------------------------------------------------------
\* tcp_receive: the acknowledgement

UpdateWindow(c, s) ==
    IF c.wl1 < s.seq \/ (c.wl1 = s.seq /\ c.wl2 < s.ack) \/ (c.wl2 = s.ack /\ s.wnd > c.snd_wnd)
    THEN [c EXCEPT !.snd_wnd = s.wnd, !.wl1 = s.seq, !.wl2 = s.ack] ELSE c

\* The third duplicate starts a fast retransmit, later ones inflate cwnd.
FastRexmit(c, half) ==
    [Rexmit(c) EXCEPT !.ssthresh = half, !.cwnd = half + 3 * TCP_MSS, !.infr = TRUE]

Duplicated(c) ==
    IF c.dupacks < 3 \/ c.unacked = <<>> THEN c
    ELSE IF c.infr THEN [c EXCEPT !.cwnd = @ + TCP_MSS]
    ELSE FastRexmit(c, UMax((c.snd_max - c.lastack) \div 2, 2 * TCP_MSS))

DuplicateAck(c) == Duplicated([c EXCEPT !.dupacks = IF @ < 3 THEN @ + 1 ELSE @])

Acked(s, ack) == s.seq + TcpLen(s) <= ack
Buffers(q) == FoldLeft(LAMBDA n, s : n + s.pbufs, 0, q)

\* The acknowledged segments at the front of a queue are freed.
DropAcked(q, ack) ==
    LET n == CHOOSE n \in 0..Len(q) : /\ \A i \in 1..n : Acked(q[i], ack)
                                      /\ n < Len(q) => ~Acked(q[n+1], ack)
    IN SubSeq(q, n + 1, Len(q))

Grown(c, cwnd) == cwnd + IF cwnd < c.ssthresh THEN TCP_MSS ELSE (TCP_MSS * TCP_MSS) \div cwnd

\* un, una: what is left of the two queues
Advanced(c, ack, un, una) ==
    [c EXCEPT !.infr = FALSE, !.nrtx = 0, !.dupacks = 0,
              !.acked = ack - c.lastack, !.snd_buf = @ + ack - c.lastack,
              !.lastack = ack, !.cwnd = Grown(c, IF c.infr THEN c.ssthresh ELSE @),
              !.unsent = un, !.unacked = una,
              !.qlen = @ - Buffers(c.unsent \o c.unacked) + Buffers(un \o una),
              !.snd_nxt = IF un # c.unsent /\ un # <<>> THEN un[1].seq ELSE @]

NewAck(c, ack) == Advanced(c, ack, DropAcked(c.unsent, ack), DropAcked(c.unacked, ack))

AckOf(c, s) ==
    IF c.lastack = s.ack THEN DuplicateAck(c)
    ELSE IF c.lastack < s.ack /\ s.ack <= c.snd_max THEN NewAck(c, s.ack)
    ELSE c

ReceiveAck(c, s) == IF "ACK" \in s.fl THEN AckOf(UpdateWindow(c, s), s) ELSE c

----------------------------------------------------------------------------
\* tcp_receive: the data

\* The first edge is trimmed to rcv_nxt.
TrimFront(c, s) ==
    IF s.seq < c.rcv_nxt /\ c.rcv_nxt < s.seq + s.len
    THEN [s EXCEPT !.seq = c.rcv_nxt, !.len = @ - (c.rcv_nxt - s.seq)] ELSE s

\* A length that would be negative is a 16-bit number near 2^16.
Shorten(s, len) == [s EXCEPT !.len = IF len < 0 THEN 65536 + len ELSE len]

TrimBack(c, s) ==
    IF c.ooseq # <<>> /\ c.ooseq[1].seq <= s.seq + s.len THEN Shorten(s, c.ooseq[1].seq - s.seq) ELSE s

\* rcv_nxt, our window and the data for the application advance over s.
Advance(c, s) ==
    [c EXCEPT !.rcv_nxt = @ + TcpLen(s),
              !.rcv_wnd = IF @ < TcpLen(s) THEN 0 ELSE @ - TcpLen(s),
              !.recvData = @ \o IF s.len > 1000 THEN <<-1>> ELSE Bytes(s)]

\* Mutant: the first queued segment is taken without a look at its number.
MutantFollows(c) == c.ooseq # <<>>

Follows(c) == c.ooseq # <<>> /\ c.ooseq[1].seq = c.rcv_nxt

\* Queued segments that are now in sequence.  The FIN looked at is that of
\* the arriving segment s, not of the queued one.
TakeQueued(c, s) ==
    IF Follows(c)
    THEN [Advance(c, c.ooseq[1]) EXCEPT !.ooseq = Tail(@), !.gotFin = @ \/ "FIN" \in s.fl]
    ELSE c

Take(c, s) ==
    LET after[k \in 0..Len(c.ooseq)] ==
            IF k = 0 THEN [Advance(c, s) EXCEPT !.gotFin = @ \/ "FIN" \in s.fl]
            ELSE TakeQueued(after[k-1], s)
    IN after[Len(c.ooseq)]

\* A segment t with a FIN has lost bytes before the FIN, which still counts.
FinCut(s, t) == "FIN" \in s.fl /\ t.seq = s.seq /\ t.len < s.len

\* c.torn remembers that a FIN was cut so, here or on the queue.
InSequence(c, s) ==
    [Ack(Take(c, TrimBack(c, s))) EXCEPT !.torn = @ \/ FinCut(s, TrimBack(c, s))]

InsertTrimmed(q, s, at) ==
    LET t == IF at < Len(q) /\ s.seq + s.len > q[at+1].seq THEN Shorten(s, q[at+1].seq - s.seq) ELSE s
        cut == IF at > 0 /\ q[at].seq + q[at].len > s.seq
               THEN [q EXCEPT ![at] = Shorten(@, s.seq - @.seq)] ELSE q
    IN InsertAt(cut, at + 1, t)

\* The place of a segment on the ooseq queue; its neighbours are trimmed,
\* but a longer segment that replaces one with its number is not.
QueueOoseq(q, s) ==
    IF \E i \in 1..Len(q) : q[i].seq = s.seq
    THEN [i \in 1..Len(q) |-> IF q[i].seq = s.seq /\ s.len > q[i].len THEN s ELSE q[i]]
    ELSE InsertTrimmed(q, s, Cardinality({i \in 1..Len(q) : q[i].seq < s.seq}))

\* A queued segment reaches past the number of the next one.
Overlap(q) == \E i \in 1..Len(q)-1 : q[i].seq + q[i].len > q[i+1].seq

\* An early segment s was put on the queue, which is now q.  c.torn remembers
\* an overlap as well.
Queued(c, s, q) ==
    [AckNow(c) EXCEPT !.ooseq = q,
         !.torn = @ \/ Overlap(q) \/ \E i \in DOMAIN q : \E t \in {s} \cup ToSet(c.ooseq) : FinCut(t, q[i])]

InWindow(c, s) == c.rcv_nxt <= s.seq /\ s.seq < c.rcv_nxt + c.rcv_wnd

ReceiveData(c, s) ==
    IF TcpLen(s) = 0 THEN IF InWindow(c, s) THEN c ELSE AckNow(c)
    ELSE IF ~InWindow(c, s) THEN c
    ELSE IF s.seq = c.rcv_nxt THEN InSequence(c, s)
    ELSE Queued(c, s, QueueOoseq(c.ooseq, [seq |-> s.seq, len |-> s.len, fl |-> s.fl]))

ReceiveTrimmed(c, s) == ReceiveData(c, TrimFront(c, s))
Receive(c, s) == ReceiveTrimmed(ReceiveAck(c, s), s)

----------------------------------------------------------------------------
\* tcp_process

Purge(c) == [c EXCEPT !.unsent = <<>>, !.unacked = <<>>, !.ooseq = <<>>]

\* tcp_pcb_remove and memp_free
Free(c) ==
    [(IF c.st \in {"TIME_WAIT", "LISTEN"} THEN c
      ELSE IF c.ackDelay THEN AckNow(Purge(c)) ELSE Purge(c)) EXCEPT !.st = "FREED"]

\* tcp_abort
Abort(c) ==
    IF c.st \in {"TIME_WAIT", "LISTEN"} THEN Free(c)
    ELSE Rst([Free(c) EXCEPT !.err = TRUE], c.snd_nxt, c.rcv_nxt)

ToTimeWait(c) == [Purge(AckNow(c)) EXCEPT !.st = "TIME_WAIT"]

\* An incoming RST
ProcessRst(c, s) ==
    LET ok == IF c.st = "SYN_SENT" THEN s.ack = c.snd_nxt
              ELSE c.st # "LISTEN" /\ c.rcv_nxt <= s.seq /\ s.seq <= c.rcv_nxt + c.rcv_wnd
    IN IF ok THEN [c EXCEPT !.reset = TRUE, !.ackDelay = FALSE] ELSE c

\* A SYN for a listening port: the block stands for the new connection.
ProcessListen(c, s) ==
    IF "ACK" \in s.fl THEN Rst(c, s.ack + 1, s.seq + TcpLen(s))
    ELSE IF "SYN" \notin s.fl THEN c
    ELSE Output(Enqueue([c EXCEPT !.st = "SYN_RCVD", !.rcv_nxt = s.seq + 1, !.snd_wnd = s.wnd,
                                  !.ssthresh = s.wnd, !.wl1 = s.seq], 0, {"SYN", "ACK"}))

ProcessSynSent(c, s) ==
    IF {"SYN", "ACK"} \subseteq s.fl /\ s.ack = c.unacked[1].seq + 1
    THEN Ack([c EXCEPT !.st = "ESTABLISHED", !.rcv_nxt = s.seq + 1, !.lastack = s.ack,
                       !.rcv_wnd = s.wnd, !.cwnd = TCP_MSS, !.qlen = @ - 1,
                       !.unacked = Tail(@), !.app = TRUE])
    ELSE c

\* An acceptable ACK in SYN_RCVD
AcksSyn(c, s) == "ACK" \in s.fl /\ c.lastack < s.ack /\ s.ack <= c.snd_nxt
Establish(c) == IF c.st = "SYN_RCVD" THEN [c EXCEPT !.st = "ESTABLISHED", !.app = TRUE] ELSE c

OurFinAcked(c, s) == "ACK" \in s.fl /\ s.ack = c.snd_nxt

\* The state after s, for which c became d
StateAfter(c, d, s) ==
    LET fin == "FIN" \in s.fl
        done == OurFinAcked(d, s)
    IN CASE c.st = "SYN_RCVD" -> [d EXCEPT !.cwnd = TCP_MSS]
         [] c.st \in {"ESTABLISHED", "CLOSE_WAIT"} ->
              IF fin THEN [AckNow(d) EXCEPT !.st = "CLOSE_WAIT"] ELSE d
         [] c.st = "FIN_WAIT_1" /\ fin ->
              IF done THEN ToTimeWait(d) ELSE [AckNow(d) EXCEPT !.st = "CLOSING"]
         [] c.st = "FIN_WAIT_1" /\ ~fin -> IF done THEN [d EXCEPT !.st = "FIN_WAIT_2"] ELSE d
         [] c.st = "FIN_WAIT_2" -> IF fin THEN ToTimeWait(d) ELSE d
         [] c.st = "CLOSING" -> IF done THEN ToTimeWait(d) ELSE d
         [] c.st = "LAST_ACK" -> IF done THEN [d EXCEPT !.st = "CLOSED", !.closed = TRUE] ELSE d

ProcessOpen(c, s) == StateAfter(c, Receive(Establish(c), s), s)

ProcessTimeWait(c, s) ==
    LET d == [c EXCEPT !.rcv_nxt = UMax(@, s.seq + TcpLen(s))]
    IN IF TcpLen(s) > 0 THEN AckNow(d) ELSE d

\* ok: what the accept function returns.  After tcp_abort the block is free.
Process(c, s, ok) ==
    CASE "RST" \in s.fl -> ProcessRst(c, s)
      [] "RST" \notin s.fl /\ c.st = "LISTEN" -> ProcessListen(c, s)
      [] "RST" \notin s.fl /\ c.st = "SYN_SENT" -> ProcessSynSent(c, s)
      [] "RST" \notin s.fl /\ c.st = "SYN_RCVD" /\ ~AcksSyn(c, s) -> c
      [] "RST" \notin s.fl /\ c.st = "SYN_RCVD" /\ AcksSyn(c, s) /\ ~ok ->
           Abort([c EXCEPT !.st = "ESTABLISHED"])
      [] "RST" \notin s.fl /\ c.st = "TIME_WAIT" -> ProcessTimeWait(c, s)
      [] OTHER -> ProcessOpen(c, s)
=============================================================================
