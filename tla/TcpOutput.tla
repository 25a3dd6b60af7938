----------------------------- MODULE TcpOutput -----------------------------
(***************************************************************************)
(* tcp_output.c: a control block c is a record; a function of the code is  *)
(* a function from c to c.  What is handed to IP is gathered in c.tx.      *)
(* Sequence numbers are not reduced modulo 2^32.                           *)
(***************************************************************************)
EXTENDS Integers, Sequences, SequencesExt, FiniteSetsExt

CONSTANTS TCP_MSS, TCP_SND_BUF, TCP_SND_QUEUELEN

\* A segment as queued: pbufs counts the buffers of its chain (pbuf_clen).
Seg(seq, len, fl) == [seq |-> seq, len |-> len, fl |-> fl, pbufs |-> 1]
TcpLen(s) == s.len + IF s.fl \cap {"SYN", "FIN"} # {} THEN 1 ELSE 0
Wnd(c) == IF c.snd_wnd < c.cwnd THEN c.snd_wnd ELSE c.cwnd
Last0(q) == q[Len(q)]

Emit(c, seq, len, fl) ==
    [c EXCEPT !.tx = @ \cup {[seq |-> seq, len |-> len, fl |-> fl, ack |-> c.rcv_nxt]}]

\* tcp_output_segment; the local address is known, the window is left out.
OutputSegment(c, s) == Emit(c, s.seq, s.len, s.fl)

\* tcp_rst
Rst(c, seq, ack) ==
    [c EXCEPT !.tx = @ \cup {[seq |-> seq, len |-> 0, fl |-> {"RST", "ACK"}, ack |-> ack]}]

Fits(c, s) == s.seq - c.lastack + s.len <= Wnd(c)

Stamped(c, s) == [s EXCEPT !.fl = IF c.st = "SYN_SENT" THEN @ ELSE @ \cup {"ACK"}]

Sent(c, s, nxt) ==
    [OutputSegment(c, s) EXCEPT
        !.unsent = Tail(@), !.ackDelay = @ /\ c.st = "SYN_SENT",
        !.snd_nxt = nxt, !.snd_max = IF @ < nxt THEN nxt ELSE @,
        !.unacked = IF nxt > s.seq THEN Append(@, s) ELSE @]

\* The loop of tcp_output, one segment
SendSegment(c, s) == Sent(c, Stamped(c, s), s.seq + TcpLen(s))
SendIfFits(c) ==
    IF c.unsent # <<>> /\ Fits(c, Head(c.unsent)) THEN SendSegment(c, Head(c.unsent)) ELSE c

\* tcp_output without TF_ACK_NOW: with the flag only a bare ACK goes out,
\* and nothing of the queue.
Output(c) ==
    LET after[k \in 0..Len(c.unsent)] ==
            IF k = 0 THEN c ELSE SendIfFits(after[k-1])
    IN after[Len(c.unsent)]

\* tcp_ack_now: TF_ACK_NOW and tcp_output
AckNow(c) == Emit([c EXCEPT !.ackDelay = FALSE], c.snd_nxt, 0, {"ACK"})

\* tcp_ack: every other acknowledgement is delayed.
Ack(c) == IF c.ackDelay THEN AckNow(c) ELSE [c EXCEPT !.ackDelay = TRUE]

\* The segments of tcp_enqueue: at most mss bytes each, at least one.
Cut(seq, len, fl) ==
    LET n == IF len = 0 THEN 1 ELSE (len + TCP_MSS - 1) \div TCP_MSS
        piece(i) == IF i < n THEN TCP_MSS ELSE len - (n - 1) * TCP_MSS
    IN [i \in 1..n |-> Seg(seq + (i - 1) * TCP_MSS, piece(i), fl)]

CanEnqueue(c, len, fl) ==
    /\ len <= c.snd_buf
    /\ c.qlen < TCP_SND_QUEUELEN
    /\ c.qlen + Len(Cut(c.snd_lbb, len, fl)) <= TCP_SND_QUEUELEN

\* There is room for s in the last segment of the unsent queue.
Chains(c, s) ==
    /\ c.unsent # <<>>
    /\ TcpLen(Last0(c.unsent)) # 0
    /\ (Last0(c.unsent).fl \cup s.fl) \cap {"SYN", "FIN"} = {}
    /\ Last0(c.unsent).len + s.len <= TCP_MSS

\* tcp_enqueue, when CanEnqueue; else it returns ERR_MEM and changes nothing.
Enqueued(c, new, taken) ==
    LET chained == [c.unsent EXCEPT ![Len(c.unsent)] =
                      [@ EXCEPT !.len = @ + new[1].len, !.pbufs = @ + 1]]
    IN [c EXCEPT !.unsent = IF Chains(c, new[1]) THEN chained \o Tail(new) ELSE @ \o new,
                 !.snd_lbb = @ + taken,
                 !.snd_buf = @ - taken,
                 !.qlen = @ + Len(new)]

Enqueue(c, len, fl) ==
    Enqueued(c, Cut(c.snd_lbb, len, fl), TcpLen([len |-> len, fl |-> fl]))

\* tcp_rexmit_seg of the first unacknowledged segment
Rexmit(c) ==
    LET s == Head(c.unacked) IN
    IF ~Fits(c, s) THEN c
    ELSE Emit([c EXCEPT !.nrtx = @ + 1], s.seq, s.len, s.fl)
=============================================================================
