-------------------------------- MODULE Tcp --------------------------------
(***************************************************************************)
(* A connection of the router's TCP, from tcp_new to memp_free, under the  *)
(* application, the timers of tcp.c and a peer behind a network that       *)
(* loses, repeats and reorders.  The peer may cut its stream in other      *)
(* places when it sends it again.                                          *)
(*                                                                         *)
(* The values of timers and of the round-trip estimate are left out: a     *)
(* timer that runs may fire at any tick.                                   *)
(***************************************************************************)
EXTENDS TcpInput, FiniteSets

CONSTANTS TCP_MAXRTX, TCP_SYNMAXRTX,
          Writes,      \* lengths the application writes
          MaxWritten,  \* bound: bytes it writes
          PeerBytes,   \* length of the peer's stream
          PeerCuts,    \* <<seq, len>>: the pieces the peer may send
          PeerWnds,    \* windows the peer advertises
          MaxIn        \* bound: segments that reach us

VARIABLES c,     \* the control block, and what the application saw of it
          wire,  \* what we sent and the peer lacks: [seq, len]
          peer   \* the peer: nxt and the earlier values of nxt, arrivals at us

vars == <<c, wire, peer>>

States == {"CLOSED", "LISTEN", "SYN_SENT", "SYN_RCVD", "ESTABLISHED", "FIN_WAIT_1", "FIN_WAIT_2",
           "CLOSE_WAIT", "CLOSING", "LAST_ACK", "TIME_WAIT", "FREED"}
Active == States \ {"CLOSED", "LISTEN", "TIME_WAIT", "FREED"}

\* tcp_new
New == [st |-> "CLOSED",
        snd_nxt |-> 0, snd_max |-> 0, lastack |-> 0, snd_lbb |-> 0, snd_wnd |-> 0,
        wl1 |-> 0, wl2 |-> 0, cwnd |-> 1, ssthresh |-> 0, dupacks |-> 0, infr |-> FALSE,
        nrtx |-> 0, acked |-> 0, snd_buf |-> TCP_SND_BUF, qlen |-> 0,
        unsent |-> <<>>, unacked |-> <<>>, ooseq |-> <<>>,
        rcv_nxt |-> 0, rcv_wnd |-> TCP_WND, ackDelay |-> FALSE,
        reset |-> FALSE, closed |-> FALSE, gotFin |-> FALSE, recvData |-> <<>>,
        app |-> FALSE, got |-> <<>>, held |-> 0, eof |-> FALSE, err |-> FALSE,
        uaf |-> FALSE, torn |-> FALSE, tx |-> {}]

Init == c = New /\ wire = {} /\ peer = [nxt |-> 0, acks |-> {}, in |-> 0]

\* A handler ran: d is the block, d.tx goes on the wire.
Becomes(d) ==
    /\ c' = [d EXCEPT !.tx = {}]
    /\ wire' = {s \in wire \cup {[seq |-> t.seq, len |-> TcpLen(t)] : t \in d.tx} :
                    s.len > 0 /\ s.seq + s.len > peer'.nxt}

----------------------------------------------------------------------------
\* The application (the calls of api_msg.c)

Listen == c.st = "CLOSED" /\ UNCHANGED peer /\ Becomes([c EXCEPT !.st = "LISTEN"])

\* tcp_connect
Connect ==
    /\ c.st = "CLOSED" /\ UNCHANGED peer
    /\ Becomes(Output(Enqueue([c EXCEPT !.st = "SYN_SENT", !.snd_nxt = 1, !.snd_wnd = TCP_WND,
                                        !.ssthresh = TCP_MSS * 10], 0, {"SYN"})))

\* tcp_write, and tcp_output of do_write
Write(len) ==
    /\ c.st \in {"SYN_SENT", "SYN_RCVD", "ESTABLISHED", "CLOSE_WAIT"} /\ c.app
    /\ CanEnqueue(c, len, {}) /\ c.snd_lbb + len <= MaxWritten + 1
    /\ UNCHANGED peer /\ Becomes(Output(Enqueue(c, len, {})))

CloseSt == [s \in {"SYN_RCVD", "ESTABLISHED", "CLOSE_WAIT"} |->
              IF s = "CLOSE_WAIT" THEN "LAST_ACK" ELSE "FIN_WAIT_1"]

\* tcp_close of block d; it fails when the FIN cannot be queued.
CloseFails(d) == d.st \in DOMAIN CloseSt /\ ~CanEnqueue(d, 0, {"FIN"})
CloseOf(d) ==
    CASE d.st \in {"LISTEN", "SYN_SENT"} -> Free(d)
      [] d.st \in DOMAIN CloseSt /\ CanEnqueue(d, 0, {"FIN"}) ->
           Output([Enqueue(d, 0, {"FIN"}) EXCEPT !.st = CloseSt[d.st]])
      [] OTHER -> d

Close ==
    /\ c.st \in {"LISTEN", "SYN_SENT"} \/ (c.st \in DOMAIN CloseSt /\ c.app /\ ~CloseFails(c))
    /\ UNCHANGED peer /\ Becomes(CloseOf(c))

\* do_delconn: no callbacks any more, then close or abort.
Delete ==
    /\ c.st \in Active /\ c.app
    /\ LET d == [c EXCEPT !.app = FALSE]
       IN UNCHANGED peer /\ Becomes(IF CloseFails(d) THEN Abort(d) ELSE CloseOf(d))

\* tcp_recved
Recved ==
    /\ c.st \in Active /\ c.app /\ c.held > 0
    /\ LET w == c.rcv_wnd + c.held
       IN UNCHANGED peer
          /\ Becomes(Ack([c EXCEPT !.held = 0, !.rcv_wnd = IF w > TCP_WND THEN TCP_WND ELSE w]))

----------------------------------------------------------------------------
\* Timers

\* Mutant: the other unacknowledged segments are not put back.
MutantRequeue(d) == [d EXCEPT !.unacked = <<Head(@)>>]

\* A retransmission timeout puts all but the first segment back on unsent.
Requeue(d) ==
    LET rest == Tail(d.unacked) IN
    IF rest = <<>> THEN d
    ELSE [d EXCEPT !.unsent = rest \o @, !.unacked = <<Head(@)>>, !.snd_nxt = rest[1].seq]

Timeout(d) ==
    LET half == Wnd(d) \div 2
    IN [Rexmit(Requeue(d)) EXCEPT !.ssthresh = IF half < TCP_MSS THEN TCP_MSS * 2 ELSE half,
                                  !.cwnd = TCP_MSS]

GivesUp(d) == d.nrtx = TCP_MAXRTX \/ (d.st = "SYN_SENT" /\ d.nrtx = TCP_SYNMAXRTX)

DropOld(d, old) == IF old THEN [d EXCEPT !.ooseq = <<>>] ELSE d

\* remove: the block is given up; else the poll function and tcp_output
AfterTick(d, remove, poll) ==
    IF remove THEN [Purge(d) EXCEPT !.st = "FREED", !.err = TRUE]
    ELSE IF poll THEN Output(d) ELSE d

\* tcp_slowtmr.  fire: the retransmission timer has run out; old: so has the
\* one for the state or for out-of-sequence data; poll: the poll function is due.
\* Past TCP_MAXRTX the index of tcp_backoff may leave the array, and nothing is
\* said.
Slowtmr(fire, old, poll) ==
    /\ UNCHANGED peer
    /\ \/ /\ c.st \in Active
          /\ c.nrtx <= TCP_MAXRTX
          /\ fire => c.unacked # <<>>
          /\ poll => c.app
          /\ fire \/ old \/ poll \/ GivesUp(c)
          /\ Becomes(AfterTick(DropOld(IF fire /\ ~GivesUp(c) THEN Timeout(c) ELSE c, old),
                               GivesUp(c) \/ (old /\ c.st \in {"FIN_WAIT_2", "SYN_RCVD"}), poll))
       \/ c.st = "TIME_WAIT" /\ old /\ ~fire /\ ~poll /\ Becomes([c EXCEPT !.st = "FREED"])

\* tcp_fasttmr
Fasttmr == c.st \in Active /\ c.ackDelay /\ UNCHANGED peer /\ Becomes(AckNow(c))

----------------------------------------------------------------------------
\* tcp_input after tcp_process.  ok: the application's callbacks succeed.
Handed(d) ==
    IF d.app THEN [d EXCEPT !.got = @ \o d.recvData, !.held = @ + Len(d.recvData), !.eof = @ \/ d.gotFin]
    ELSE IF d.gotFin THEN CloseOf(d) ELSE d

Deliver(d, ok) == IF ok THEN Output(Handed(d)) ELSE Handed(d)

Processed(d, ok) ==
    IF c.st = "SYN_RCVD" /\ d.st = "FREED" THEN [d EXCEPT !.uaf = TRUE]
    ELSE IF c.st # "FREED" /\ d.st = "LISTEN" THEN d
    ELSE IF d.reset THEN [Free(d) EXCEPT !.err = TRUE]
    ELSE IF d.closed THEN Free(d)
    ELSE IF d.st = "TIME_WAIT" THEN Output(d)
    ELSE Deliver(d, ok)

Input(s, ok) == [Processed(Process(c, s, ok), ok) EXCEPT !.recvData = <<>>]

\* No block is found for a segment.
NoPcb(s) == IF "RST" \in s.fl THEN c ELSE Rst(c, s.ack, s.seq + TcpLen(s))

In(s) ==
    /\ peer.in < MaxIn
    /\ peer' = [peer EXCEPT !.in = @ + 1]
    /\ IF c.st \in {"CLOSED", "FREED"} THEN Becomes(NoPcb(s))
       ELSE \E ok \in BOOLEAN : Becomes(Input(s, ok))

P(seq, len, fl, ack, wnd) == [seq |-> seq, len |-> len, fl |-> fl, ack |-> ack, wnd |-> wnd]

\* What the peer may have sent: its SYN, then pieces of its stream with any
\* acknowledgement it ever was ready to give, the last with or without FIN.
PeerSegments ==
    LET data(fin) == {x \in PeerCuts : fin => x[1] + x[2] = PeerBytes + 1}
        pieces(fin) == {P(x[1], x[2], IF fin THEN {"ACK", "FIN"} ELSE {"ACK"}, a, w) :
                            x \in data(fin), a \in peer.acks, w \in PeerWnds}
        synack == IF peer.acks = {} THEN {} ELSE {P(0, 0, {"SYN", "ACK"}, 1, w) : w \in PeerWnds}
    IN {P(0, 0, {"SYN"}, 0, w) : w \in PeerWnds} \cup synack
       \cup pieces(FALSE) \cup pieces(TRUE)
       \cup {P(x[1], 0, {"RST"}, peer.nxt, 0) : x \in PeerCuts}

\* The peer gets what it waits for.
PeerGets(s) ==
    /\ s.seq = peer.nxt
    /\ peer' = [peer EXCEPT !.nxt = @ + s.len, !.acks = @ \cup {peer.nxt + s.len}]
    /\ wire' = {t \in wire : t.seq + t.len > peer'.nxt}
    /\ UNCHANGED c

Next ==
    \/ Listen \/ Connect \/ Close \/ Delete \/ Recved \/ Fasttmr
    \/ \E len \in Writes : Write(len)
    \/ \E fire, old, poll \in BOOLEAN : Slowtmr(fire, old, poll)
    \/ \E s \in PeerSegments : In(s)
    \/ \E s \in wire : PeerGets(s)

Spec == Init /\ [][Next]_vars

----------------------------------------------------------------------------
\* Properties

InOrder ==
    /\ c.got = [i \in 1..Len(c.got) |-> i]
    /\ c.st \in {"ESTABLISHED", "CLOSE_WAIT"} /\ c.app =>
         c.rcv_nxt = 1 + Len(c.got) + IF c.rcv_nxt = PeerBytes + 2 THEN 1 ELSE 0

\* The application gets the peer's stream from its first byte, each byte once
\* and in order, and until it closes it gets every byte that is acknowledged
\* (tcp_receive and its queue of early segments), however the peer cuts its
\* stream, unless two queued segments overlapped or a FIN lost bytes (c.torn).
StreamIntact == ~c.torn => InOrder

\* The same without that exception.  It fails twice: a longer segment that
\* replaces a queued one is not trimmed, rcv_nxt passes the one behind it, and
\* the trim to that one then gives a length of -1; and a FIN whose segment is
\* trimmed to a queued one is taken for the byte behind what is left.
StreamAlwaysIntact == InOrder

(***************************************************************************)
(* The two queues hold, one after the other and without a gap, every       *)
(* number from the first unacknowledged one to the last written, through   *)
(* timeouts, fast retransmits and late acknowledgements.  snd_queuelen is  *)
(* the number of their buffers; snd_buf is what TCP_SND_BUF leaves beside  *)
(* the numbers not acknowledged, less one for ever after an active open,   *)
(* whose SYN tcp_process frees without giving its place back.              *)
(***************************************************************************)
QueuesComplete ==
    c.st \in Active \ {"SYN_SENT"} /\ c.lastack > 0 =>
        LET q == c.unacked \o c.unsent
        IN /\ \A i \in 1..Len(q)-1 : q[i+1].seq = q[i].seq + TcpLen(q[i])
           /\ IF q = <<>> THEN c.lastack = c.snd_lbb
              ELSE /\ q[1].seq <= c.lastack
                   /\ q[Len(q)].seq + TcpLen(q[Len(q)]) = c.snd_lbb
           /\ c.qlen = Buffers(q)
           /\ TCP_SND_BUF - (c.snd_buf + (c.snd_lbb - c.lastack)) \in 0..1

\* "A return value of ERR_ABRT means that tcp_abort() was called and that the
\* pcb has been freed": it is not used afterwards.
NoUseAfterFree == ~c.uaf

\* "TF_GOT_FIN ... will be used to indicate to the application that the remote
\* side has closed its end of the connection."
EofTold == c.st \in {"ESTABLISHED", "CLOSE_WAIT"} /\ c.app /\ c.rcv_nxt = PeerBytes + 2 => c.eof
=============================================================================
