------------------------------ MODULE Netconn ------------------------------
(***************************************************************************)
(* api_lib.c and api_msg.c: the calls of an application thread on one      *)
(* accepted connection, and the transport thread that serves them.  They   *)
(* share the netconn record, its mailboxes and its semaphore, and nothing  *)
(* but the order of their steps protects it.                               *)
(*                                                                         *)
(* A step of the transport thread ends where it may meet the application:  *)
(* todo holds what is left of the handler that runs.                       *)
(***************************************************************************)
EXTENDS Integers, Sequences

CONSTANTS TCP_SND_BUF,   \* units of send buffer
          TcpMsgs,       \* size of the pool MEMP_TCP_MSG
          MaxIn,         \* bound: data segments from the peer
          MaxWrite,      \* bound: units a write sends
          MaxCalls,      \* bound: calls of the application
          MaxErrs,       \* bound: 0 or 1, resets and time-outs
          MaxFins        \* bound: segments from the peer's FIN on

ASSUME NetconnAssumption ==
    TCP_SND_BUF \in Nat /\ TcpMsgs \in Nat /\ {MaxIn, MaxWrite, MaxCalls, MaxErrs, MaxFins} \subseteq Nat

VARIABLES conn,   \* struct netconn
          box,    \* the mailboxes recvmbox and mbox: [ptr, live, q]
          sem,    \* conn->sem: [ptr, live, c]
          tq,     \* mailbox of the transport thread
          todo,   \* rest of the handler in the transport thread
          tcp,    \* the control block: sndbuf, callbacks, counts
          app,    \* the application: pc, units left, calls, acknowledged units
          bad     \* what went wrong: "", "assert", "null" or "lost"

vars == <<conn, box, sem, tq, todo, tcp, app, bad>>

NULL == 0   \* a message that is a null pointer

Init ==
    /\ conn = [live |-> TRUE, pcb |-> TRUE, err |-> "ok", state |-> "none"]
    /\ box = [b \in {"recv", "mbox"} |-> [ptr |-> TRUE, live |-> TRUE, q |-> <<>>]]
    /\ sem = [ptr |-> TRUE, live |-> TRUE, c |-> 0]
    /\ tq = <<>> /\ todo = <<>>
    /\ tcp = [cb |-> TRUE, sndbuf |-> TCP_SND_BUF, queued |-> 0, out |-> 0, in |-> 0, unread |-> 0,
              fins |-> 0, errs |-> 0, cleared |-> FALSE]
    /\ app = [pc |-> "idle", left |-> 0, len |-> 0, calls |-> 0, done |-> 0, got |-> 0]
    /\ bad = ""

----------------------------------------------------------------------------
\* The transport thread

Post(b, v)   == [op |-> "post", b |-> b, v |-> v]
IfPost(b, v) == [op |-> "ifpost", b |-> b, v |-> v]
IfSignal     == [op |-> "ifsig", b |-> "mbox", v |-> NULL]
Signal       == [op |-> "sig", b |-> "mbox", v |-> NULL]
SetErr       == [op |-> "err", b |-> "mbox", v |-> NULL]

Idle == todo = <<>> /\ bad = ""

\* One step of the handler that runs: a test of a pointer and the use of
\* what it points to are two steps.
Doing(ops) == todo # <<>> /\ bad = "" /\ Head(todo).op \in ops

TestPtr ==
    /\ Doing({"ifpost", "ifsig"})
    /\ LET t == Head(todo) IN
       todo' = (IF t.op = "ifpost" /\ box[t.b].ptr THEN <<Post(t.b, t.v)>>
                ELSE IF t.op = "ifsig" /\ sem.ptr THEN <<Signal>> ELSE <<>>) \o Tail(todo)
    /\ UNCHANGED <<conn, box, sem, bad>>

PostMbox ==
    /\ Doing({"post"}) /\ todo' = Tail(todo)
    /\ LET t == Head(todo) IN
       IF box[t.b].ptr /\ box[t.b].live
       THEN box' = [box EXCEPT ![t.b].q = Append(@, t.v)] /\ UNCHANGED bad
       ELSE bad' = "assert" /\ UNCHANGED box
    /\ UNCHANGED <<conn, sem>>

SignalSem ==
    /\ Doing({"sig"}) /\ todo' = Tail(todo)
    /\ IF sem.live THEN sem' = [sem EXCEPT !.c = 1] /\ UNCHANGED bad
       ELSE bad' = "assert" /\ UNCHANGED sem
    /\ UNCHANGED <<conn, box>>

SetConnErr ==
    /\ Doing({"err"}) /\ todo' = Tail(todo)
    /\ conn' = [conn EXCEPT !.err = "rst"] /\ UNCHANGED <<box, sem, bad>>

Continue == (TestPtr \/ PostMbox \/ SignalSem \/ SetConnErr) /\ UNCHANGED <<tq, tcp, app>>

\* do_recv
DoRecv(m) ==
    /\ tcp' = [tcp EXCEPT !.unread = IF conn.pcb THEN @ - m.len ELSE @]
    /\ todo' = <<Post("mbox", NULL)>> /\ UNCHANGED conn

\* do_write: tcp_write queues all of it or, for want of segments, nothing.
DoWrite(m) ==
    /\ todo' = <<Post("mbox", NULL)>>
    /\ \/ ~conn.pcb /\ UNCHANGED <<conn, tcp>>
       \/ /\ conn.pcb /\ m.len <= tcp.sndbuf
          /\ conn' = [conn EXCEPT !.err = "ok"]
          /\ tcp' = [tcp EXCEPT !.sndbuf = @ - m.len, !.queued = @ + m.len, !.out = @ + m.len]
       \/ conn.pcb /\ tcp.out > 0 /\ conn' = [conn EXCEPT !.err = "mem"] /\ UNCHANGED tcp

\* do_delconn: no callbacks, then tcp_close or tcp_abort.
DoDelconn(m) ==
    /\ tcp' = [tcp EXCEPT !.cb = FALSE]
    /\ todo' = <<IfPost("mbox", NULL)>> /\ UNCHANGED conn

\* api_msg_input, and tcp_input for a segment of another connection
Take(ops) == /\ Idle /\ tq # <<>> /\ tq' = Tail(tq) /\ Head(tq).op \in ops

OtherInput == Take({"net"}) /\ UNCHANGED <<conn, todo, tcp, bad>>

ApiMsgInput ==
    /\ Take({"recv", "write", "del"})
    /\ LET m == Head(tq) IN
       \/ ~conn.live /\ bad' = "assert" /\ UNCHANGED <<conn, todo, tcp>>
       \/ /\ conn.live /\ UNCHANGED bad
          /\ \/ m.op = "recv" /\ DoRecv(m)
             \/ m.op = "write" /\ DoWrite(m)
             \/ m.op = "del" /\ DoDelconn(m)

Message == (OtherInput \/ ApiMsgInput) /\ UNCHANGED <<box, sem, app>>

\* recv_tcp: conn->err becomes ERR_OK, also when it holds the answer to a
\* write that the application has yet to read (cleared).
Receives(v) ==
    /\ conn' = IF box["recv"].ptr THEN [conn EXCEPT !.err = "ok"] ELSE conn
    /\ todo' = IF box["recv"].ptr THEN <<Post("recv", v)>> ELSE <<>>
Cleared == [tcp EXCEPT !.cleared = @ \/ (box["recv"].ptr /\ conn.err # "ok")]

\* A segment: it is kept, though nobody will read it, when the
\* mailbox is gone.
RecvTcp ==
    /\ Idle /\ tcp.cb /\ tcp.fins = 0 /\ tcp.in < MaxIn
    /\ tcp' = [Cleared EXCEPT !.in = @ + 1, !.unread = @ + 1]
    /\ Receives(1)
    /\ UNCHANGED <<box, sem, tq, app, bad>>

\* A null segment: the peer has closed.  TF_GOT_FIN is never cleared, and
\* tcp_input hands up the end again with every later segment.
RecvFin ==
    /\ Idle /\ tcp.cb /\ tcp.fins < MaxFins
    /\ tcp' = [Cleared EXCEPT !.fins = @ + 1]
    /\ Receives(NULL)
    /\ UNCHANGED <<box, sem, tq, app, bad>>

\* sent_tcp: the peer has acknowledged what was out.
SentTcp ==
    /\ Idle /\ tcp.cb /\ tcp.out > 0
    /\ tcp' = [tcp EXCEPT !.sndbuf = @ + tcp.out, !.out = 0]
    /\ todo' = <<IfSignal>>
    /\ UNCHANGED <<conn, box, sem, tq, app, bad>>

\* poll_tcp
PollTcp ==
    /\ Idle /\ tcp.cb /\ conn.state = "write" /\ sem.ptr /\ sem.c = 0
    /\ todo' = <<Signal>>
    /\ UNCHANGED <<conn, box, sem, tq, tcp, app, bad>>

\* Mutant: a reset does not wake the writer.
MutantErrTcp ==
    /\ Idle /\ tcp.cb /\ tcp.errs < MaxErrs
    /\ tcp' = [tcp EXCEPT !.cb = FALSE, !.errs = @ + 1]
    /\ conn' = [conn EXCEPT !.pcb = FALSE]
    /\ todo' = <<SetErr, IfPost("recv", NULL), IfPost("mbox", NULL)>>
    /\ UNCHANGED <<box, sem, tq, app, bad>>

\* err_tcp: a reset, or the connection has timed out.
ErrTcp ==
    /\ Idle /\ tcp.cb /\ tcp.errs < MaxErrs
    /\ tcp' = [tcp EXCEPT !.cb = FALSE, !.errs = @ + 1]
    /\ conn' = [conn EXCEPT !.pcb = FALSE]
    /\ todo' = <<SetErr, IfPost("recv", NULL), IfPost("mbox", NULL), IfSignal>>
    /\ UNCHANGED <<box, sem, tq, app, bad>>

\* tcp_msg_input: a segment of another connection takes a message.
Segment ==
    /\ bad = "" /\ Len(tq) < TcpMsgs
    /\ tq' = Append(tq, [op |-> "net", len |-> 0])
    /\ UNCHANGED <<conn, box, sem, todo, tcp, app, bad>>

----------------------------------------------------------------------------
\* The application

Goes(pc) == app' = [app EXCEPT !.pc = pc]
At(pc) == app.pc = pc /\ bad = ""
Crash == bad' = "null" /\ UNCHANGED <<conn, box, sem, tq, app>>

\* transport_apimsg: without a message the request is gone and nobody answers.
Request(op, len, pc) ==
    /\ Goes(pc)
    /\ IF Len(tq) < TcpMsgs THEN tq' = Append(tq, [op |-> op, len |-> len]) /\ UNCHANGED bad
       ELSE bad' = "lost" /\ UNCHANGED tq

\* sys_mbox_fetch of conn->mbox
Reply(pc) ==
    /\ box["mbox"].q # <<>>
    /\ box' = [box EXCEPT !["mbox"].q = Tail(@)]
    /\ Goes(pc)

Call ==
    /\ At("idle") /\ conn.live /\ app.calls < MaxCalls
    /\ \/ app' = [app EXCEPT !.pc = "recv", !.calls = @ + 1]
       \/ \E n \in 1..MaxWrite : app' = [app EXCEPT !.pc = "write", !.left = n, !.calls = @ + 1]
       \/ app' = [app EXCEPT !.pc = "del", !.calls = MaxCalls]
    /\ UNCHANGED <<conn, box, sem, tq, todo, tcp, bad>>

\* netconn_recv
RecvBegin ==
    /\ At("recv")
    /\ IF ~box["recv"].ptr THEN Goes("idle") /\ conn' = [conn EXCEPT !.err = "conn"]
       ELSE Goes(IF conn.err # "ok" THEN "idle" ELSE "recvState") /\ UNCHANGED conn
    /\ UNCHANGED <<box, sem, tq, bad>>

RecvState ==   \* conn->pcb.tcp->state
    /\ At("recvState")
    /\ \/ conn.pcb /\ Goes("recvWait") /\ UNCHANGED <<conn, box, sem, tq, bad>>
       \/ ~conn.pcb /\ Crash

RecvWait ==
    /\ At("recvWait") /\ box["recv"].q # <<>>
    /\ box' = [box EXCEPT !["recv"].q = Tail(@)]
    /\ IF Head(box["recv"].q) = NULL THEN Goes("recvFree")
       ELSE app' = [app EXCEPT !.pc = "recvTell", !.got = @ + 1]
    /\ UNCHANGED <<conn, sem, tq, bad>>

RecvFree ==    \* sys_mbox_free, then the pointer
    /\ At("recvFree") /\ box' = [box EXCEPT !["recv"].live = FALSE]
    /\ Goes("recvNull") /\ UNCHANGED <<conn, sem, tq, bad>>

RecvNull ==
    /\ At("recvNull") /\ box' = [box EXCEPT !["recv"].ptr = FALSE]
    /\ Goes("idle") /\ UNCHANGED <<conn, sem, tq, bad>>

RecvTell == At("recvTell") /\ Request("recv", 1, "recvReply") /\ UNCHANGED <<conn, box, sem>>
RecvReply == At("recvReply") /\ Reply("idle") /\ UNCHANGED <<conn, sem, tq, bad>>

Recv == RecvBegin \/ RecvState \/ RecvWait \/ RecvFree \/ RecvNull \/ RecvTell \/ RecvReply

\* Mutant: a write without segments is taken for done.
MutantWritten(err) == err \in {"ok", "mem"}

Written(err) == err = "ok"

\* netconn_write
WriteRefused ==
    At("write") /\ conn.err # "ok" /\ Goes("idle") /\ UNCHANGED <<conn, box, sem, tq, bad>>

WriteBegin ==
    /\ At("write") /\ conn.err = "ok"
    /\ IF sem.ptr THEN UNCHANGED sem ELSE sem' = [ptr |-> TRUE, live |-> TRUE, c |-> 0]
    /\ conn' = [conn EXCEPT !.state = "write"]
    /\ Goes("writeLoop") /\ UNCHANGED <<box, tq, bad>>

WriteLoop ==
    /\ At("writeLoop")
    /\ Goes(IF conn.err = "ok" /\ app.left > 0 THEN "writeBuf" ELSE "idle")
    /\ UNCHANGED <<conn, box, sem, tq, bad>>

WriteBuf ==    \* tcp_sndbuf(conn->pcb.tcp)
    /\ At("writeBuf")
    /\ \/ ~conn.pcb /\ Crash
       \/ /\ conn.pcb /\ Goes(IF tcp.sndbuf = 0 THEN "writeFull" ELSE "writeSend")
          /\ UNCHANGED <<conn, box, sem, tq, bad>>

WriteFull ==
    /\ At("writeFull") /\ sem.c = 1
    /\ sem' = [sem EXCEPT !.c = 0]
    /\ Goes(IF conn.err = "ok" THEN "writeSend" ELSE "writeFail") /\ UNCHANGED <<conn, box, tq, bad>>

WriteSend ==
    /\ At("writeSend")
    /\ \/ ~conn.pcb /\ Crash
       \/ /\ conn.pcb
          /\ LET len == IF app.left > tcp.sndbuf THEN tcp.sndbuf ELSE app.left
             IN /\ app' = [app EXCEPT !.pc = "writeReply", !.len = len]
                /\ IF Len(tq) < TcpMsgs THEN tq' = Append(tq, [op |-> "write", len |-> len]) /\ UNCHANGED bad
                   ELSE bad' = "lost" /\ UNCHANGED tq
          /\ UNCHANGED <<conn, box, sem>>

WriteReply == At("writeReply") /\ Reply("writeErr") /\ UNCHANGED <<conn, sem, tq, bad>>

WriteErr ==
    /\ At("writeErr")
    /\ \/ /\ Written(conn.err)
          /\ app' = [app EXCEPT !.pc = "writeLoop", !.left = @ - app.len, !.done = @ + app.len]
       \/ ~Written(conn.err) /\ conn.err = "mem" /\ Goes("writeMem")
       \/ ~Written(conn.err) /\ conn.err # "mem" /\ Goes("writeFail")
    /\ UNCHANGED <<conn, box, sem, tq, bad>>

WriteMem ==    \* conn->err = ERR_OK, whatever it is by now
    /\ At("writeMem") /\ conn' = [conn EXCEPT !.err = "ok"]
    /\ Goes("writeAgain") /\ UNCHANGED <<box, sem, tq, bad>>

WriteAgain ==
    /\ At("writeAgain") /\ sem.c = 1 /\ sem' = [sem EXCEPT !.c = 0]
    /\ Goes("writeLoop") /\ UNCHANGED <<conn, box, tq, bad>>

WriteFail ==
    /\ At("writeFail") /\ conn' = [conn EXCEPT !.state = "none"]
    /\ sem' = [sem EXCEPT !.live = FALSE] /\ Goes("writeNull") /\ UNCHANGED <<box, tq, bad>>

WriteNull ==
    /\ At("writeNull") /\ sem' = [sem EXCEPT !.ptr = FALSE]
    /\ Goes("idle") /\ UNCHANGED <<conn, box, tq, bad>>

Write == \/ WriteRefused \/ WriteBegin \/ WriteLoop \/ WriteBuf \/ WriteFull \/ WriteSend
         \/ WriteReply \/ WriteErr \/ WriteMem \/ WriteAgain \/ WriteFail \/ WriteNull

\* Mutant: the record is taken apart without waiting for the answer.
MutantDelAnswered == TRUE

DelAnswered == box["mbox"].q # <<>>

\* netconn_delete
DelRequest == At("del") /\ Request("del", 0, "delReply") /\ UNCHANGED <<conn, box, sem>>

DelReply == At("delReply") /\ DelAnswered /\ Goes("delRecv") /\ UNCHANGED <<conn, box, sem, tq, bad>>

DelRecv ==     \* drained and freed
    /\ At("delRecv")
    /\ box' = [box EXCEPT !["recv"] = [ptr |-> FALSE, live |-> FALSE, q |-> <<>>]]
    /\ Goes("delFree") /\ UNCHANGED <<conn, sem, tq, bad>>

DelFree ==
    /\ At("delFree")
    /\ box' = [box EXCEPT !["mbox"] = [ptr |-> FALSE, live |-> FALSE, q |-> <<>>]]
    /\ sem' = [sem EXCEPT !.live = FALSE]
    /\ conn' = [conn EXCEPT !.live = FALSE]
    /\ Goes("idle") /\ UNCHANGED <<tq, bad>>

Delete == DelRequest \/ DelReply \/ DelRecv \/ DelFree

App == (Recv \/ Write \/ Delete) /\ UNCHANGED <<todo, tcp>>
Transport == Continue \/ Message \/ SentTcp \/ PollTcp
Next == Call \/ App \/ Transport \/ RecvTcp \/ RecvFin \/ ErrTcp \/ Segment

\* The threads run; the peer acknowledges, or the connection times out.
Fairness ==
    /\ WF_vars(App) /\ WF_vars(Continue) /\ WF_vars(Message) /\ WF_vars(PollTcp)
    /\ SF_vars(SentTcp)
Spec == Init /\ [][Next]_vars /\ Fairness

----------------------------------------------------------------------------
\* Properties

\* Without a reset or time-out no call follows a null control block, and as
\* long as the end of the stream is handed up once no handler touches a
\* mailbox, semaphore or record the application has freed, whatever closes
\* when: after the answer to its request for deletion the transport thread
\* knows nothing of it.
SafeUnlessReset ==
    tcp.errs = 0 => bad # "null" /\ (tcp.fins <= 1 => bad # "assert")

\* The same for any number of segments after the FIN.  It fails: recv_tcp
\* tests recvmbox, netconn_recv frees it for the first null, recv_tcp posts.
SafeAfterFin == tcp.errs = 0 => bad # "assert"

\* What calls of netconn_write report as written is what TCP has queued, once,
\* through full buffers, retries and resets; only the last piece of a write
\* may be queued and not reported.  (It fails when recv_tcp clears an answer.)
WriteExact ==
    ~tcp.cleared =>
    /\ app.done <= tcp.queued
    /\ tcp.queued <= app.done + IF app.pc \in {"writeReply", "writeErr"} \/ tcp.errs > 0 THEN app.len ELSE 0

\* What an application may rely on in its calls, whatever the peer and the
\* timers do meanwhile.
CallsSound == SafeUnlessReset /\ WriteExact

\* A write that has begun comes back: it is woken when the send buffer drains
\* and when the connection is reset.
WritesReturn == app.pc = "write" ~> (app.pc = "idle" \/ bad # "")

\* "assert(sem)" (sys_sem_wait): a semaphore that is waited for exists.
AssertSem == bad # "assert"
=============================================================================
