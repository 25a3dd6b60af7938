--------------------------- MODULE TransportProofs ---------------------------
(***************************************************************************)
(* The threads of scone's TCP stack.                                       *)
(*                                                                         *)
(* An application thread and the transport thread share a netconn and its  *)
(* mailboxes without a lock.  Proved for buffers, message pools and        *)
(* numbers of calls of every size: until a reset no step of either thread  *)
(* meets something freed, and what netconn_write reports is what TCP has   *)
(* queued.  Before a reset the two threads take turns: the application     *)
(* waits for one answer at a time, which is a request, a handler under way *)
(* or a message in conn->mbox.  A reset breaks this order, by an answer    *)
(* that nobody asked for; from then on nothing more is queued.             *)
(*                                                                         *)
(* The mailboxes of sys_arch.c and the time-outs of sys.c, for every size  *)
(* of the ring, any number of threads that post, and any timers: while the *)
(* ring was never full, messages leave it in the order in which they       *)
(* entered it, each once; and the delta list says of each timer what it    *)
(* has left to wait.                                                       *)
(*                                                                         *)
(* The command line and the web server on the table of sockets.c, for any  *)
(* clients, workers and size of the table: a number that was handed out is *)
(* used for its client alone and comes back, unless connections arrive at  *)
(* both servers at a time.  A job is what travels from a server through    *)
(* the queue to a worker; there is one at a time for each client.          *)
(***************************************************************************)
EXTENDS MCTransport, CommonLemmas, SequenceTheorems, FiniteSetTheorems

Pc == {"idle", "recv", "recvState", "recvWait", "recvFree", "recvNull", "recvTell", "recvReply",
       "write", "writeLoop", "writeBuf", "writeFull", "writeSend", "writeReply", "writeErr",
       "writeMem", "writeAgain", "writeFail", "writeNull", "del", "delReply", "delRecv", "delFree"}

Bits == {0, 1}
Msg == [op : {"net", "recv", "write", "del"}, len : Nat]
Act == [op : {"post", "ifpost", "ifsig", "sig", "err"}, b : {"recv", "mbox"}, v : Bits]
Box == [ptr : BOOLEAN, live : BOOLEAN, q : Seq(Bits)]

ConnOK == conn \in [live : BOOLEAN, pcb : BOOLEAN, err : {"ok", "mem", "rst", "conn"},
                    state : {"none", "write"}]
BoxOK == box \in [{"recv", "mbox"} -> Box]
SemOK == sem \in [ptr : BOOLEAN, live : BOOLEAN, c : {0, 1}]
TcpOK == tcp \in [cb : BOOLEAN, sndbuf : Nat, queued : Nat, out : Nat, in : Nat, unread : Int,
                  fins : Nat, errs : Nat, cleared : BOOLEAN]
AppOK == /\ app \in [pc : Pc, left : Int, len : Nat, calls : Nat, done : Nat, got : Nat]
         /\ app.pc \in {"writeBuf", "writeFull", "writeSend"} => app.left > 0
BadOK == bad \in {"", "assert", "null", "lost"}

TypeOK == /\ ConnOK /\ BoxOK /\ SemOK /\ TcpOK /\ AppOK /\ BadOK
          /\ tq \in Seq(Msg) /\ todo \in Seq(Act)

\* The three forms of an answer that is awaited.
IsRequest(m) == m.op # "net"
Asked == \E i \in 1 .. Len(tq) : IsRequest(tq[i])
Answering == todo # << >> /\ todo[1].op \in {"post", "ifpost"} /\ todo[1].b = "mbox"
Answered == box["mbox"].q # << >>

PostsRecv == todo # << >> /\ todo[1].op = "post" /\ todo[1].b = "recv"
Waiting == app.pc \in {"recvReply", "writeReply", "delReply"}
Gone == app.pc \in {"delRecv", "delFree"} \/ ~conn.live

\* Without a reset a handler has one more step at most.
OneHandler == todo # << >> => /\ Len(todo) = 1 /\ todo[1].op # "err"
                              /\ todo[1].op = "ifpost" => todo[1].b = "mbox"

\* The request that the application waits for.
Expected(m) == \/ app.pc = "recvReply" /\ m.op = "recv"
               \/ app.pc = "writeReply" /\ m.op = "write" /\ m.len = app.len
               \/ app.pc = "delReply" /\ m.op = "del"

Requests == /\ \A i, j \in 1 .. Len(tq) : IsRequest(tq[i]) /\ IsRequest(tq[j]) => i = j
            /\ \A i \in 1 .. Len(tq) : IsRequest(tq[i]) => Expected(tq[i])

\* There is one request, handler or answer at a time.
OneAnswer == /\ Asked => ~Answering /\ ~Answered
             /\ Answering => Waiting /\ ~Answered
             /\ Answered => Waiting \/ app.pc \in {"delRecv", "delFree"}
             /\ Len(box["mbox"].q) <= 1

\* When the deletion is answered the transport thread has done with the connection.
Closing == /\ ~conn.live => app.pc = "idle"
           /\ app.pc = "delReply" /\ ~Asked => ~tcp.cb /\ (todo = << >> \/ Answering)
           /\ Gone => ~tcp.cb /\ todo = << >> /\ ~Asked

Data(q) == \A i \in 1 .. Len(q) : q[i] = 1

\* What exists: recvmbox may go when the end has been handed up, the others with the record.
Exists ==
    /\ conn.live => box["mbox"].ptr /\ box["mbox"].live /\ sem.ptr /\ sem.live
    /\ PostsRecv => (todo[1].v = 0 <=> tcp.fins # 0)
    /\ ~Gone /\ (tcp.fins = 0 \/ (PostsRecv /\ tcp.fins = 1)) =>
          /\ box["recv"].ptr /\ box["recv"].live
          /\ app.pc \notin {"recvFree", "recvNull"}
          /\ Data(box["recv"].q)

Errors ==
    /\ conn.pcb /\ conn.err # "rst"
    /\ app.pc \in {"writeLoop", "writeBuf", "writeFull", "writeSend", "writeAgain"} => conn.err = "ok"
    /\ app.pc = "writeReply" /\ Asked => conn.err = "ok"
    /\ app.pc \in {"writeReply", "writeErr", "writeMem"} => conn.err \in {"ok", "mem"}
    /\ app.pc \notin {"writeFail", "writeNull"}

\* What is queued and not yet reported is the piece whose answer is awaited.
Exact ==
    ~tcp.cleared =>
        IF app.pc = "writeErr" \/ (app.pc = "writeReply" /\ ~Asked)
        THEN tcp.queued = IF conn.err = "ok" THEN app.done + app.len ELSE app.done
        ELSE tcp.queued = app.done

Before == /\ OneHandler /\ Requests /\ OneAnswer /\ Closing /\ Exists /\ Errors /\ Exact

\* err_tcp has run, and has yet to set conn->err.
Pending == todo # << >> /\ todo[1].op = "err"

After ==
    /\ ~conn.pcb /\ ~tcp.cb
    /\ \A i \in 1 .. Len(todo) : todo[i].op = "err" => i = 1
    /\ ~tcp.cleared =>
        /\ app.done <= tcp.queued /\ tcp.queued <= app.done + app.len
        /\ Pending /\ conn.err = "ok" /\ (app.pc = "writeErr" \/ (app.pc = "writeReply" /\ Answered))
              => tcp.queued = app.done + app.len
        /\ ~Pending /\ app.pc \in {"writeReply", "writeErr"} => conn.err # "ok"

Inv == /\ TypeOK /\ CallsSound
       /\ bad = "" => IF tcp.errs = 0 THEN Before ELSE After
-----------------------------------------------------------------------------
(* The types *)

LEMMA BoxFields ==
    ASSUME BoxOK, NEW b \in {"recv", "mbox"}
    PROVE  /\ box[b] \in Box /\ box[b].q \in Seq(Bits)
           /\ box[b].q # << >> => Head(box[b].q) \in Bits /\ Tail(box[b].q) \in Seq(Bits)
<1>1. box[b] \in Box
  BY DEF BoxOK
<1>2. box[b].q \in Seq(Bits)
  BY <1>1 DEF Box
<1> QED BY <1>1, <1>2, HeadTailProperties

LEMMA AppFields ==
    ASSUME AppOK
    PROVE  /\ app.left \in Int /\ {app.len, app.calls, app.done, app.got} \subseteq Nat
           /\ app.left - app.len \in Int /\ {app.done + app.len, app.got + 1, app.calls + 1} \subseteq Nat
           /\ app.left > 0 => app.left \in Nat
<1>1. app.left \in Int /\ {app.len, app.calls, app.done, app.got} \subseteq Nat
  BY DEF AppOK
<1> QED BY <1>1

LEMMA GoesTyped ==
    ASSUME AppOK, NEW pc \in Pc, Goes(pc), pc \in {"writeBuf", "writeFull", "writeSend"} => app.left > 0
    PROVE  AppOK'
<1>1. app' \in [pc : Pc, left : Int, len : Nat, calls : Nat, done : Nat, got : Nat]
  BY DEF AppOK, Goes
<1>2. app'.pc = pc /\ app'.left = app.left
  BY DEF AppOK, Goes
<1> QED BY <1>1, <1>2 DEF AppOK

LEMMA TcpFields ==
    ASSUME TcpOK
    PROVE  /\ {tcp.sndbuf, tcp.queued, tcp.out, tcp.in, tcp.errs} \subseteq Nat /\ tcp.unread \in Int
           /\ {tcp.sndbuf + tcp.out, tcp.in + 1, tcp.errs + 1} \subseteq Nat /\ tcp.unread + 1 \in Int
           /\ \A n \in Nat : tcp.unread - n \in Int
<1>1. {tcp.sndbuf, tcp.queued, tcp.out, tcp.in, tcp.errs} \subseteq Nat /\ tcp.unread \in Int
  BY DEF TcpOK
<1> QED BY <1>1

LEMMA QueueGrows ==
    ASSUME tq \in Seq(Msg), NEW op \in {"net", "recv", "write", "del"}, NEW len \in Nat
    PROVE  Append(tq, [op |-> op, len |-> len]) \in Seq(Msg)
<1>1. [op |-> op, len |-> len] \in Msg
  BY DEF Msg
<1> QED BY <1>1, AppendProperties

LEMMA RecvTypes ==
    ASSUME TypeOK, Recv
    PROVE  ConnOK' /\ BoxOK' /\ SemOK' /\ AppOK' /\ BadOK' /\ tq' \in Seq(Msg)
<1> USE DEF TypeOK, ConnOK, SemOK, AppOK, BadOK, At, Goes
<1>1. CASE RecvBegin
  <2>1. conn' \in [live : BOOLEAN, pcb : BOOLEAN, err : {"ok", "mem", "rst", "conn"},
                    state : {"none", "write"}]
    BY <1>1 DEF RecvBegin
  <2>2. AppOK'
    <3> HIDE DEF Goes, AppOK
    <3>1. \E pc \in {"idle", "recvState"} : Goes(pc)
      BY <1>1 DEF RecvBegin
    <3>2. AppOK /\ \A pc \in {"idle", "recvState"} : pc \in Pc /\ pc \notin {"writeBuf", "writeFull", "writeSend"}
      BY DEF Pc
    <3> QED BY <3>1, <3>2, GoesTyped
  <2> QED BY <1>1, <2>1, <2>2 DEF RecvBegin, BoxOK
<1>2. CASE RecvState
  <2>1. AppOK'
    BY <1>2 DEF RecvState, Crash, Pc
  <2> QED BY <1>2, <2>1 DEF RecvState, Crash, BoxOK
<1>3. CASE RecvWait
  <2>1. box["recv"] \in Box /\ Tail(box["recv"].q) \in Seq(Bits)
    BY <1>3, BoxFields DEF RecvWait
  <2>2. BoxOK'
    BY <1>3, <2>1 DEF RecvWait, BoxOK, Box
  <2>3. AppOK'
    <3>1. app' = [app EXCEPT !.pc = "recvFree"] \/ app' = [app EXCEPT !.pc = "recvTell", !.got = app.got + 1]
      BY <1>3 DEF RecvWait
    <3> QED BY <3>1, AppFields DEF Pc
  <2> QED BY <1>3, <2>2, <2>3 DEF RecvWait
<1>4. CASE RecvFree
  <2>1. BoxOK'
    BY <1>4 DEF RecvFree, BoxOK, Box
  <2>2. AppOK'
    BY <1>4 DEF RecvFree, Pc
  <2> QED BY <1>4, <2>1, <2>2 DEF RecvFree
<1>5. CASE RecvNull
  <2>1. BoxOK'
    BY <1>5 DEF RecvNull, BoxOK, Box
  <2>2. AppOK'
    BY <1>5 DEF RecvNull, Pc
  <2> QED BY <1>5, <2>1, <2>2 DEF RecvNull
<1>6. CASE RecvTell
  <2>1. Append(tq, [op |-> "recv", len |-> 1]) \in Seq(Msg)
    BY QueueGrows
  <2>2. tq' \in Seq(Msg)
    BY <1>6, <2>1 DEF RecvTell, Request
  <2>3. AppOK'
    BY <1>6 DEF RecvTell, Request, Pc
  <2> QED BY <1>6, <2>2, <2>3 DEF RecvTell, Request, BoxOK
<1>7. CASE RecvReply
  <2>1. box["mbox"] \in Box /\ Tail(box["mbox"].q) \in Seq(Bits)
    BY <1>7, BoxFields DEF RecvReply, Reply
  <2>2. BoxOK'
    BY <1>7, <2>1 DEF RecvReply, Reply, BoxOK, Box
  <2>3. AppOK'
    BY <1>7 DEF RecvReply, Reply, Pc
  <2> QED BY <1>7, <2>2, <2>3 DEF RecvReply, Reply
<1> QED BY <1>1, <1>2, <1>3, <1>4, <1>5, <1>6, <1>7 DEF Recv

LEMMA WriteTypes ==
    ASSUME TypeOK, Write
    PROVE  ConnOK' /\ BoxOK' /\ SemOK' /\ AppOK' /\ BadOK' /\ tq' \in Seq(Msg)
<1> USE DEF TypeOK, ConnOK, SemOK, AppOK, BadOK, At, Goes
<1>1. CASE WriteRefused
  BY <1>1 DEF WriteRefused, Pc, BoxOK
<1>2. CASE WriteBegin
  <2>1. ConnOK'
    BY <1>2 DEF WriteBegin
  <2>2. SemOK'
    <3>1. sem' = sem \/ sem' = [ptr |-> TRUE, live |-> TRUE, c |-> 0]
      BY <1>2 DEF WriteBegin
    <3>2. SemOK
      OBVIOUS
    <3> HIDE DEF TypeOK, ConnOK, AppOK, BadOK, At, Goes
    <3>3. CASE sem' = sem
      BY <3>2, <3>3
    <3>4. CASE sem' = [ptr |-> TRUE, live |-> TRUE, c |-> 0]
      BY <3>4
    <3> QED BY <3>1, <3>3, <3>4
  <2>3. AppOK'
    BY <1>2 DEF WriteBegin, Pc
  <2> QED BY <1>2, <2>1, <2>2, <2>3 DEF WriteBegin, BoxOK
<1>3. CASE WriteLoop
  <2> HIDE DEF Goes, AppOK
  <2>1. \E pc \in {"idle", "writeBuf"} : Goes(pc) /\ (pc = "writeBuf" => app.left > 0)
    BY <1>3 DEF WriteLoop
  <2>2. AppOK /\ \A pc \in {"idle", "writeBuf"} :
            pc \in Pc /\ (pc = "idle" => pc \notin {"writeBuf", "writeFull", "writeSend"})
    BY DEF Pc
  <2>3. AppOK'
    BY <2>1, <2>2, GoesTyped
  <2> QED BY <1>3, <2>3 DEF WriteLoop, BoxOK
<1>4. CASE WriteBuf
  <2>1. CASE Crash
    BY <2>1, <1>4 DEF WriteBuf, Crash, BoxOK
  <2>2. CASE UNCHANGED <<conn, box, sem, tq, bad>> /\ \E pc \in {"writeFull", "writeSend"} : Goes(pc)
    <3>1. app.left > 0
      BY <1>4 DEF WriteBuf
    <3> HIDE DEF Goes, AppOK
    <3>2. AppOK /\ \A pc \in {"writeFull", "writeSend"} : pc \in Pc
      BY DEF Pc
    <3>3. AppOK'
      BY <2>2, <3>1, <3>2, GoesTyped
    <3> QED BY <2>2, <3>3 DEF BoxOK
  <2>3. Crash \/ (UNCHANGED <<conn, box, sem, tq, bad>> /\ \E pc \in {"writeFull", "writeSend"} : Goes(pc))
    <3> HIDE DEF Goes, AppOK
    <3> QED BY <1>4 DEF WriteBuf
  <2> QED BY <2>1, <2>2, <2>3
<1>5. CASE WriteFull
  BY <1>5 DEF WriteFull, Pc, BoxOK
<1>6. CASE WriteSend
  <2>1. CASE ~conn.pcb /\ Crash
    BY <1>6, <2>1 DEF WriteSend, Crash, BoxOK
  <2>2. CASE conn.pcb
    <3> DEFINE len == IF app.left > tcp.sndbuf THEN tcp.sndbuf ELSE app.left
    <3>1. tcp.sndbuf \in Nat /\ app.left \in Nat
      <4>1. app.left > 0
        BY <1>6 DEF WriteSend
      <4>2. app.left \in Nat
        BY <4>1, AppFields
      <4> QED BY <4>2, TcpFields
    <3>2. len \in Nat
      BY <3>1
    <3>3. /\ app' = [app EXCEPT !.pc = "writeReply", !.len = len]
          /\ \/ tq' = tq \/ tq' = Append(tq, [op |-> "write", len |-> len])
          /\ BadOK' /\ UNCHANGED <<conn, box, sem>>
      BY <1>6, <2>2 DEF WriteSend, Crash
    <3> HIDE DEF len
    <3>4. AppOK'
      BY <3>2, <3>3 DEF Pc
    <3>5. Append(tq, [op |-> "write", len |-> len]) \in Seq(Msg)
      BY <3>2, QueueGrows
    <3>6. tq' \in Seq(Msg)
      BY <3>3, <3>5
    <3> QED BY <3>3, <3>4, <3>6 DEF BoxOK
  <2> QED BY <1>6, <2>1, <2>2 DEF WriteSend
<1>7. CASE WriteReply
  <2>1. box["mbox"] \in Box /\ Tail(box["mbox"].q) \in Seq(Bits)
    BY <1>7, BoxFields DEF WriteReply, Reply
  <2>2. BoxOK'
    BY <1>7, <2>1 DEF WriteReply, Reply, BoxOK, Box
  <2>3. AppOK'
    BY <1>7 DEF WriteReply, Reply, Pc
  <2> QED BY <1>7, <2>2, <2>3 DEF WriteReply, Reply
<1>8. CASE WriteErr
  <2>2. AppOK'
    <3>1. \/ app' = [app EXCEPT !.pc = "writeLoop", !.left = app.left - app.len, !.done = app.done + app.len]
          \/ app' = [app EXCEPT !.pc = "writeMem"]
          \/ app' = [app EXCEPT !.pc = "writeFail"]
      BY <1>8 DEF WriteErr
    <3>2. app.left - app.len \in Int /\ app.done + app.len \in Nat
      BY AppFields
    <3>3. CASE app' = [app EXCEPT !.pc = "writeLoop", !.left = app.left - app.len, !.done = app.done + app.len]
      BY <3>2, <3>3 DEF Pc
    <3>4. CASE app' = [app EXCEPT !.pc = "writeMem"]
      BY <3>4 DEF Pc
    <3>5. CASE app' = [app EXCEPT !.pc = "writeFail"]
      BY <3>5 DEF Pc
    <3> QED BY <3>1, <3>3, <3>4, <3>5
  <2> QED BY <1>8, <2>2 DEF WriteErr, BoxOK
<1>9. CASE WriteMem
  BY <1>9 DEF WriteMem, Pc, BoxOK
<1>10. CASE WriteAgain
  BY <1>10 DEF WriteAgain, Pc, BoxOK
<1>11. CASE WriteFail
  BY <1>11 DEF WriteFail, Pc, BoxOK
<1>12. CASE WriteNull
  BY <1>12 DEF WriteNull, Pc, BoxOK
<1> QED BY <1>1, <1>2, <1>3, <1>4, <1>5, <1>6, <1>7, <1>8, <1>9, <1>10, <1>11, <1>12 DEF Write

LEMMA DeleteTypes ==
    ASSUME TypeOK, Delete
    PROVE  ConnOK' /\ BoxOK' /\ SemOK' /\ AppOK' /\ BadOK' /\ tq' \in Seq(Msg)
<1> USE DEF TypeOK, ConnOK, SemOK, AppOK, BadOK, At, Goes
<1>0. [ptr |-> FALSE, live |-> FALSE, q |-> << >>] \in Box
  <2>1. << >> \in Seq(Bits)
    BY EmptySeq
  <2> QED BY <2>1 DEF Box
<1>1. CASE DelRequest
  <2>1. Append(tq, [op |-> "del", len |-> 0]) \in Seq(Msg)
    BY QueueGrows
  <2>2. tq' \in Seq(Msg)
    BY <1>1, <2>1 DEF DelRequest, Request
  <2>3. AppOK'
    BY <1>1 DEF DelRequest, Request, Pc
  <2> QED BY <1>1, <2>2, <2>3 DEF DelRequest, Request, BoxOK
<1>2. CASE DelReply
  <2>1. AppOK'
    BY <1>2 DEF DelReply, Pc
  <2> QED BY <1>2, <2>1 DEF DelReply, BoxOK
<1>3. CASE DelRecv
  <2>1. BoxOK'
    BY <1>3, <1>0 DEF DelRecv, BoxOK
  <2>2. AppOK'
    BY <1>3 DEF DelRecv, Pc
  <2> QED BY <1>3, <2>1, <2>2 DEF DelRecv
<1>4. CASE DelFree
  <2>1. BoxOK'
    BY <1>4, <1>0 DEF DelFree, BoxOK
  <2>2. AppOK'
    BY <1>4 DEF DelFree, Pc
  <2> QED BY <1>4, <2>1, <2>2 DEF DelFree
<1> QED BY <1>1, <1>2, <1>3, <1>4 DEF Delete

LEMMA TodoFields ==
    ASSUME todo \in Seq(Act), todo # << >>
    PROVE  /\ Head(todo) = todo[1] /\ todo[1] \in Act /\ Tail(todo) \in Seq(Act)
           /\ todo[1].b \in {"recv", "mbox"} /\ todo[1].v \in Bits
           /\ Len(Tail(todo)) = Len(todo) - 1 /\ Len(todo) \in Nat \ {0}
           /\ \A i \in 1 .. Len(Tail(todo)) : Tail(todo)[i] = todo[i + 1]
<1>1. todo[1] \in Act /\ Head(todo) = todo[1] /\ Len(todo) \in Nat \ {0}
  OBVIOUS
<1> QED BY <1>1, HeadTailProperties DEF Act

\* What a handler does when it finds what it tests.
Found(t) == IF t.op = "ifpost" /\ box[t.b].ptr THEN <<Post(t.b, t.v)>>
            ELSE IF t.op = "ifsig" /\ sem.ptr THEN <<Signal>> ELSE << >>

LEMMA Acts ==
    /\ NULL \in Bits /\ 1 \in Bits
    /\ \A b \in {"recv", "mbox"}, v \in Bits : Post(b, v) \in Act /\ IfPost(b, v) \in Act
    /\ {IfSignal, Signal, SetErr} \subseteq Act
<1>1. NULL \in Bits /\ 1 \in Bits
  BY DEF NULL, Bits
<1> QED BY <1>1 DEF Post, IfPost, IfSignal, Signal, SetErr, Act

LEMMA Handlers ==
    /\ {<<Post("mbox", NULL)>>, <<IfPost("mbox", NULL)>>, <<Post("recv", 1)>>, <<Post("recv", NULL)>>,
        <<Signal>>, <<IfSignal>>, << >>} \subseteq Seq(Act)
    /\ <<SetErr, IfPost("recv", NULL), IfPost("mbox", NULL), IfSignal>> \in Seq(Act)
<1>1. /\ Post("mbox", NULL) \in Act /\ IfPost("mbox", NULL) \in Act /\ IfPost("recv", NULL) \in Act
      /\ Post("recv", 1) \in Act /\ Post("recv", NULL) \in Act
      /\ Signal \in Act /\ IfSignal \in Act /\ SetErr \in Act
  BY Acts
<1> QED BY <1>1

LEMMA TodoTypes ==
    ASSUME TypeOK, Transport \/ RecvTcp \/ RecvFin \/ ErrTcp
    PROVE  todo' \in Seq(Act)
<1> USE DEF TypeOK
<1>1. CASE TestPtr
  <2>1. todo # << >>
    BY <1>1 DEF TestPtr, Doing
  <2>2. Found(todo[1]) \in Seq(Act) /\ Tail(todo) \in Seq(Act)
    <3>1. todo[1].b \in {"recv", "mbox"} /\ todo[1].v \in Bits /\ Tail(todo) \in Seq(Act)
      BY <2>1, TodoFields
    <3>2. Post(todo[1].b, todo[1].v) \in Act /\ Signal \in Act
      BY <3>1, Acts
    <3> QED BY <3>1, <3>2 DEF Found
  <2>3. todo' = Found(todo[1]) \o Tail(todo)
    BY <1>1, <2>1, TodoFields DEF TestPtr, Found
  <2> QED BY <2>2, <2>3, ConcatProperties
<1>2. CASE PostMbox \/ SignalSem \/ SetConnErr
  BY <1>2, TodoFields DEF PostMbox, SignalSem, SetConnErr, Doing
<1>3. CASE OtherInput
  BY <1>3 DEF OtherInput
<1>4. CASE ApiMsgInput
  BY <1>4, Handlers DEF ApiMsgInput, DoRecv, DoWrite, DoDelconn
<1>5. CASE SentTcp \/ PollTcp
  BY <1>5, Handlers DEF SentTcp, PollTcp
<1>6. CASE RecvTcp \/ RecvFin
  BY <1>6, Handlers DEF RecvTcp, RecvFin, Receives
<1>7. CASE ErrTcp
  BY <1>7, Handlers DEF ErrTcp
<1> QED BY <1>1, <1>2, <1>3, <1>4, <1>5, <1>6, <1>7 DEF Transport, Continue, Message

LEMMA ContinueTypes ==
    ASSUME TypeOK, Continue
    PROVE  ConnOK' /\ BoxOK' /\ SemOK' /\ BadOK'
<1> USE DEF TypeOK, ConnOK, SemOK, BadOK
<1>1. CASE TestPtr
  BY <1>1 DEF TestPtr, BoxOK
<1>2. CASE PostMbox
  <2>1. todo # << >>
    BY <1>2 DEF PostMbox, Doing
  <2> DEFINE b == todo[1].b
             v == todo[1].v
  <2>2. b \in {"recv", "mbox"} /\ v \in Bits /\ Head(todo) = todo[1]
    BY <2>1, TodoFields
  <2>3. box' = box \/ box' = [box EXCEPT ![b].q = Append(@, v)]
    BY <1>2, <2>2 DEF PostMbox
  <2>4. BadOK' /\ UNCHANGED <<conn, sem>>
    BY <1>2 DEF PostMbox
  <2> HIDE DEF b, v
  <2>5. box[b] \in Box /\ Append(box[b].q, v) \in Seq(Bits)
    BY <2>2, BoxFields, AppendProperties
  <2>6. [box[b] EXCEPT !.q = Append(@, v)] \in Box
    BY <2>5 DEF Box
  <2>7. box' = box \/ box' = [box EXCEPT ![b] = [box[b] EXCEPT !.q = Append(@, v)]]
    BY <2>3
  <2>8. BoxOK'
    BY <2>2, <2>6, <2>7 DEF BoxOK
  <2> QED BY <2>4, <2>8
<1>3. CASE SignalSem
  BY <1>3 DEF SignalSem, BoxOK
<1>4. CASE SetConnErr
  BY <1>4 DEF SetConnErr, BoxOK
<1> QED BY <1>1, <1>2, <1>3, <1>4 DEF Continue

LEMMA MessageTypes ==
    ASSUME TypeOK, Message
    PROVE  ConnOK' /\ TcpOK' /\ BadOK' /\ tq' \in Seq(Msg)
<1> USE DEF TypeOK, ConnOK, BadOK
<1>1. /\ tq # << >> /\ tq' = Tail(tq)
  BY DEF Message, OtherInput, ApiMsgInput, Take
<1>2. Head(tq) \in Msg /\ tq' \in Seq(Msg)
  BY <1>1, HeadTailProperties
<1> DEFINE m == Head(tq)
<1>3. m.len \in Nat
  BY <1>2 DEF Msg
<1>4. CASE OtherInput
  BY <1>2, <1>4 DEF OtherInput, TcpOK
<1> HIDE DEF TypeOK
<1>6. TypeOK
  OBVIOUS
<1>7. TcpOK /\ tq \in Seq(Msg)
  BY <1>6 DEF TypeOK
<1>8. ConnOK /\ BadOK
  BY <1>6 DEF TypeOK
<1>5. CASE ApiMsgInput
  <2> HIDE DEF m
  <2>1. CASE ~conn.live
    BY <1>2, <1>5, <1>7, <1>8, <2>1 DEF ApiMsgInput, TcpOK
  <2>2. CASE conn.live /\ m.op = "recv" /\ DoRecv(m)
    <3>1. tcp' = [tcp EXCEPT !.unread = tcp.unread - m.len] \/ tcp' = tcp
      BY <1>7, <2>2 DEF DoRecv, TcpOK
    <3>2. tcp.unread - m.len \in Int
      BY <1>3, <1>7, TcpFields
    <3>3. TcpOK'
      BY <1>7, <3>1, <3>2 DEF TcpOK
    <3> QED BY <1>2, <1>5, <1>8, <2>2, <3>3 DEF ApiMsgInput, DoRecv
  <2>3. CASE conn.live /\ m.op = "write" /\ DoWrite(m)
    <3>1. \/ tcp' = tcp
          \/ /\ m.len <= tcp.sndbuf
             /\ tcp' = [tcp EXCEPT !.sndbuf = tcp.sndbuf - m.len, !.queued = tcp.queued + m.len,
                                   !.out = tcp.out + m.len]
      BY <2>3 DEF DoWrite
    <3>4. TcpOK'
      <4>1. CASE tcp' = tcp
        BY <1>7, <4>1 DEF TcpOK
      <4>2. CASE /\ m.len <= tcp.sndbuf
                 /\ tcp' = [tcp EXCEPT !.sndbuf = tcp.sndbuf - m.len, !.queued = tcp.queued + m.len,
                                       !.out = tcp.out + m.len]
        <5>1. tcp.sndbuf \in Nat /\ tcp.queued \in Nat /\ tcp.out \in Nat
          BY <1>7, TcpFields
        <5>2. tcp.sndbuf - m.len \in Nat /\ tcp.queued + m.len \in Nat /\ tcp.out + m.len \in Nat
          BY <1>3, <4>2, <5>1
        <5> QED BY <1>7, <4>2, <5>2 DEF TcpOK
      <4> QED BY <3>1, <4>1, <4>2
    <3>5. ConnOK'
      BY <1>8, <2>3 DEF DoWrite
    <3> QED BY <1>2, <1>5, <1>8, <2>3, <3>4, <3>5 DEF ApiMsgInput
  <2>4. CASE conn.live /\ m.op = "del" /\ DoDelconn(m)
    BY <1>2, <1>5, <1>7, <1>8, <2>4 DEF ApiMsgInput, DoDelconn, TcpOK
  <2>5. \/ ~conn.live
        \/ conn.live /\ m.op = "recv" /\ DoRecv(m)
        \/ conn.live /\ m.op = "write" /\ DoWrite(m)
        \/ conn.live /\ m.op = "del" /\ DoDelconn(m)
    BY <1>5 DEF ApiMsgInput, m
  <2> QED BY <2>1, <2>2, <2>3, <2>4, <2>5
<1> QED BY <1>4, <1>5 DEF Message

LEMMA CallbackTypes ==
    ASSUME TypeOK, RecvTcp \/ RecvFin \/ SentTcp \/ PollTcp \/ ErrTcp
    PROVE  ConnOK' /\ TcpOK'
<1> USE DEF TypeOK, ConnOK
<1>1. Cleared \in [cb : BOOLEAN, sndbuf : Nat, queued : Nat, out : Nat, in : Nat, unread : Int,
                  fins : Nat, errs : Nat, cleared : BOOLEAN] /\ Cleared.in = tcp.in /\ Cleared.unread = tcp.unread
  BY DEF Cleared, TcpOK
<1>2. CASE RecvTcp
  <2>1. tcp' = [Cleared EXCEPT !.in = tcp.in + 1, !.unread = tcp.unread + 1]
    BY <1>1, <1>2 DEF RecvTcp
  <2>2. tcp.in + 1 \in Nat /\ tcp.unread + 1 \in Int
    BY TcpFields
  <2>3. TcpOK'
    BY <1>1, <2>1, <2>2 DEF TcpOK
  <2> QED BY <1>2, <2>3 DEF RecvTcp, Receives
<1>3. CASE RecvFin
  <2>1. tcp' = [Cleared EXCEPT !.fins = Cleared.fins + 1]
    BY <1>1, <1>3 DEF RecvFin
  <2>2. Cleared.fins + 1 \in Nat
    BY <1>1
  <2>3. TcpOK'
    BY <1>1, <2>1, <2>2 DEF TcpOK
  <2> QED BY <1>3, <2>3 DEF RecvFin, Receives
<1>4. CASE SentTcp
  <2>1. tcp' = [tcp EXCEPT !.sndbuf = tcp.sndbuf + tcp.out, !.out = 0] /\ conn' = conn
    BY <1>4 DEF SentTcp
  <2>2. tcp.sndbuf + tcp.out \in Nat
    BY TcpFields
  <2> QED BY <2>1, <2>2 DEF TcpOK
<1>5. CASE PollTcp
  BY <1>5 DEF PollTcp, TcpOK
<1>6. CASE ErrTcp
  <2>1. tcp' = [tcp EXCEPT !.cb = FALSE, !.errs = tcp.errs + 1] /\ conn' = [conn EXCEPT !.pcb = FALSE]
    BY <1>6 DEF ErrTcp
  <2>2. tcp.errs + 1 \in Nat
    BY TcpFields
  <2> QED BY <2>1, <2>2 DEF TcpOK
<1> QED BY <1>2, <1>3, <1>4, <1>5, <1>6

LEMMA SameTypes ==
    /\ ConnOK /\ conn' = conn => ConnOK'
    /\ BoxOK /\ box' = box => BoxOK'
    /\ SemOK /\ sem' = sem => SemOK'
    /\ TcpOK /\ tcp' = tcp => TcpOK'
    /\ AppOK /\ app' = app => AppOK'
    /\ BadOK /\ bad' = bad => BadOK'
<1>1. ConnOK /\ conn' = conn => ConnOK'
  BY DEF ConnOK
<1>2. BoxOK /\ box' = box => BoxOK'
  BY DEF BoxOK
<1>3. SemOK /\ sem' = sem => SemOK'
  BY DEF SemOK
<1>4. TcpOK /\ tcp' = tcp => TcpOK'
  BY DEF TcpOK
<1>5. AppOK /\ app' = app => AppOK'
  BY DEF AppOK
<1>6. BadOK /\ bad' = bad => BadOK'
  BY DEF BadOK
<1> QED BY <1>1, <1>2, <1>3, <1>4, <1>5, <1>6

LEMMA TypeInvariant ==
    ASSUME TypeOK, Next
    PROVE  TypeOK'
<1>1. CASE Call
  <2>1. MaxCalls \in Nat /\ MaxWrite \in Nat
    BY NetconnAssumption
  <2>2. app.calls + 1 \in Nat
    BY AppFields DEF TypeOK
  <2>3. \/ app' = [app EXCEPT !.pc = "recv", !.calls = app.calls + 1]
        \/ \E n \in 1 .. MaxWrite : app' = [app EXCEPT !.pc = "write", !.left = n, !.calls = app.calls + 1]
        \/ app' = [app EXCEPT !.pc = "del", !.calls = MaxCalls]
    BY <1>1 DEF Call
  <2>4. \A n \in 1 .. MaxWrite : n \in Int
    BY <2>1
  <2>5. AppOK'
    <3>1. AppOK
      BY DEF TypeOK
    <3>2. CASE app' = [app EXCEPT !.pc = "recv", !.calls = app.calls + 1]
      BY <2>2, <3>1, <3>2 DEF AppOK, Pc
    <3>3. CASE \E n \in 1 .. MaxWrite : app' = [app EXCEPT !.pc = "write", !.left = n, !.calls = app.calls + 1]
      BY <2>2, <2>4, <3>1, <3>3 DEF AppOK, Pc
    <3>4. CASE app' = [app EXCEPT !.pc = "del", !.calls = MaxCalls]
      BY <2>1, <3>1, <3>4 DEF AppOK, Pc
    <3> QED BY <2>3, <3>2, <3>3, <3>4
  <2>6. UNCHANGED <<conn, box, sem, tq, todo, tcp, bad>>
    BY <1>1 DEF Call
  <2> QED BY <2>5, <2>6, SameTypes DEF TypeOK
<1>2. CASE App
  BY <1>2, SameTypes, RecvTypes, WriteTypes, DeleteTypes DEF App, TypeOK
<1>3. CASE Continue
  BY <1>3, SameTypes, ContinueTypes, TodoTypes DEF Continue, Transport, TypeOK
<1>4. CASE Message
  BY <1>4, SameTypes, MessageTypes, TodoTypes DEF Message, Transport, TypeOK
<1>5. CASE SentTcp \/ PollTcp
  <2>1. UNCHANGED <<box, sem, tq, app, bad>>
    BY <1>5 DEF SentTcp, PollTcp
  <2> QED BY <1>5, <2>1, SameTypes, CallbackTypes, TodoTypes DEF Transport, TypeOK
<1>6. CASE RecvTcp \/ RecvFin \/ ErrTcp
  <2>1. UNCHANGED <<box, sem, tq, app, bad>>
    BY <1>6 DEF RecvTcp, RecvFin, ErrTcp
  <2> QED BY <1>6, <2>1, SameTypes, CallbackTypes, TodoTypes DEF TypeOK
<1>7. CASE Segment
  <2>1. tq' = Append(tq, [op |-> "net", len |-> 0]) /\ tq \in Seq(Msg)
    BY <1>7 DEF Segment, TypeOK
  <2>2. tq' \in Seq(Msg)
    BY <2>1, QueueGrows
  <2>3. UNCHANGED <<conn, box, sem, todo, tcp, app, bad>>
    BY <1>7 DEF Segment
  <2> QED BY <2>2, <2>3, SameTypes DEF TypeOK
<1> QED BY <1>1, <1>2, <1>3, <1>4, <1>5, <1>6, <1>7 DEF Next, Transport
-----------------------------------------------------------------------------
(* What a step leaves alone *)

LEMMA GoesFields ==
    ASSUME AppOK, NEW pc, Goes(pc)
    PROVE  app'.pc = pc /\ app'.left = app.left /\ app'.len = app.len /\ app'.done = app.done
BY DEF Goes, AppOK

LEMMA ConnErrSet ==
    ASSUME ConnOK, NEW e, conn' = [conn EXCEPT !.err = e]
    PROVE  conn'.err = e /\ conn'.live = conn.live /\ conn'.pcb = conn.pcb /\ conn'.state = conn.state
BY DEF ConnOK

LEMMA RecvBoxSet ==
    ASSUME BoxOK, NEW bx, box' = [box EXCEPT !["recv"] = bx]
    PROVE  box'["recv"] = bx /\ box'["mbox"] = box["mbox"]
BY DEF BoxOK

LEMMA MboxSet ==
    ASSUME BoxOK, NEW bx, box' = [box EXCEPT !["mbox"] = bx]
    PROVE  box'["mbox"] = bx /\ box'["recv"] = box["recv"]
BY DEF BoxOK

LEMMA QueueSet ==
    ASSUME NEW bx \in Box, NEW q
    PROVE  /\ [bx EXCEPT !.q = q].q = q /\ [bx EXCEPT !.q = q].ptr = bx.ptr
           /\ [bx EXCEPT !.q = q].live = bx.live
BY DEF Box

\* The queue of the transport thread.
LEMMA NoneAsked ==
    ASSUME ~Asked, tq' = tq
    PROVE  Requests' /\ ~Asked'
BY DEF Asked, Requests

LEMMA AskedSame ==
    ASSUME tq' = tq
    PROVE  (Asked' => Asked) /\ (Asked => Asked')
BY DEF Asked

LEMMA RequestsSame ==
    ASSUME Requests, tq' = tq, app'.pc = app.pc, app'.len = app.len
    PROVE  Requests'
BY DEF Requests, Expected

LEMMA QueueTaken ==
    ASSUME tq \in Seq(Msg), tq # << >>, tq' = Tail(tq), Requests, app' = app
    PROVE  /\ Requests'
           /\ IsRequest(Head(tq)) => Asked /\ ~Asked' /\ Expected(Head(tq))
           /\ ~IsRequest(Head(tq)) => (Asked' => Asked) /\ (Asked => Asked')
<1>1. /\ Len(tq) \in Nat \ {0} /\ Head(tq) = tq[1] /\ Len(tq') = Len(tq) - 1
      /\ \A i \in 1 .. Len(tq') : tq'[i] = tq[i + 1]
  BY HeadTailProperties
<1>2. \A i \in 1 .. Len(tq') : i + 1 \in 1 .. Len(tq) /\ i + 1 # 1
  BY <1>1
<1>3. \A i, j \in 1 .. Len(tq') : i + 1 = j + 1 => i = j
  BY <1>1
<1>4. \A m : Expected(m)' = Expected(m) /\ IsRequest(m)' = IsRequest(m)
  BY DEF Expected, IsRequest
<1>5. Requests'
  BY <1>1, <1>2, <1>3, <1>4 DEF Requests
<1>6. 1 \in 1 .. Len(tq)
  BY <1>1
<1>7. IsRequest(Head(tq)) => Asked /\ ~Asked' /\ Expected(Head(tq))
  BY <1>1, <1>2, <1>6 DEF Requests, Asked
<1>8. \A i \in 1 .. Len(tq) : i = 1 \/ (i - 1 \in 1 .. Len(tq') /\ (i - 1) + 1 = i)
  BY <1>1
<1>9. Asked' => Asked
  BY <1>1, <1>2 DEF Asked
<1>10. ~IsRequest(Head(tq)) /\ Asked => Asked'
  <2> SUFFICES ASSUME ~IsRequest(Head(tq)), Asked
               PROVE  Asked'
    OBVIOUS
  <2>1. PICK i \in 1 .. Len(tq) : IsRequest(tq[i])
    BY DEF Asked
  <2>2. i # 1
    BY <1>1, <2>1
  <2>3. i - 1 \in 1 .. Len(tq') /\ tq'[i - 1] = tq[i]
    BY <1>1, <1>8, <2>2
  <2> QED BY <2>1, <2>3 DEF Asked
<1> QED BY <1>5, <1>7, <1>9, <1>10

LEMMA QueueAdded ==
    ASSUME tq \in Seq(Msg), NEW m \in Msg, tq' = Append(tq, m)
    PROVE  /\ Requests /\ ~IsRequest(m) /\ app' = app => Requests' /\ (Asked' => Asked) /\ (Asked => Asked')
           /\ ~Asked /\ IsRequest(m) /\ Expected(m)' => Requests' /\ Asked'
<1>1. /\ Len(tq) \in Nat /\ Len(tq') = Len(tq) + 1 /\ tq'[Len(tq) + 1] = m
      /\ \A i \in 1 .. Len(tq) : tq'[i] = tq[i]
  BY AppendProperties
<1>2. \A i \in 1 .. Len(tq') : i \in 1 .. Len(tq) \/ i = Len(tq) + 1
  BY <1>1
<1>3. (\A i \in 1 .. Len(tq) : i \in 1 .. Len(tq')) /\ Len(tq) + 1 \in 1 .. Len(tq')
  BY <1>1
<1>4. app' = app => \A x : Expected(x)' = Expected(x)
  BY DEF Expected
<1>5. ASSUME Requests, ~IsRequest(m), app' = app
      PROVE  Requests' /\ (Asked' => Asked) /\ (Asked => Asked')
  <2>1. Requests'
    BY <1>1, <1>2, <1>3, <1>4, <1>5 DEF Requests
  <2>2. (Asked' => Asked) /\ (Asked => Asked')
    BY <1>1, <1>2, <1>3, <1>5 DEF Asked
  <2> QED BY <2>1, <2>2
<1>6. ASSUME ~Asked, IsRequest(m), Expected(m)'
      PROVE  Requests' /\ Asked'
  <2>1. \A i \in 1 .. Len(tq') : IsRequest(tq'[i]) => i = Len(tq) + 1
    BY <1>1, <1>2, <1>6 DEF Asked
  <2> QED BY <1>1, <1>3, <1>6, <2>1 DEF Requests, Asked
<1> QED BY <1>5, <1>6
-----------------------------------------------------------------------------
(* Before a reset: the steps of the application *)

LEMMA NotWaiting ==
    ASSUME Before, ~Waiting
    PROVE  ~Asked /\ ~Answering /\ (Answered => app.pc \in {"delRecv", "delFree"})
<1>1. ~Asked
  BY DEF Before, Requests, Asked, Expected, Waiting
<1> QED BY <1>1 DEF Before, OneAnswer

\* A step that neither asks nor takes an answer.
LEMMA Quiet ==
    ASSUME Before, ~Waiting, conn.live, app.pc \notin {"delRecv", "delFree"},
           app'.pc \notin {"recvReply", "writeReply", "delReply", "delRecv", "delFree"},
           conn'.live = conn.live, tq' = tq, todo' = todo, tcp' = tcp, box'["mbox"] = box["mbox"]
    PROVE  /\ OneHandler' /\ Requests' /\ OneAnswer' /\ Closing'
           /\ ~Gone /\ ~Gone' /\ ~Asked' /\ (PostsRecv' => PostsRecv) /\ (PostsRecv => PostsRecv')
<1>1. ~Asked /\ ~Answering /\ ~Answered
  BY NotWaiting
<1>2. Requests' /\ ~Asked'
  BY <1>1, NoneAsked
<1>3. ~Answering' /\ ~Answered' /\ Len(box'["mbox"].q) <= 1
  BY <1>1 DEF Answering, Answered, Before, OneAnswer
<1>4. ~Gone /\ ~Gone'
  BY DEF Gone
<1>5. OneHandler' /\ (PostsRecv' => PostsRecv) /\ (PostsRecv => PostsRecv')
  BY DEF Before, OneHandler, PostsRecv
<1>6. OneAnswer' /\ Closing'
  BY <1>2, <1>3, <1>4 DEF OneAnswer, Closing
<1> QED BY <1>2, <1>4, <1>5, <1>6

\* The part of a step in the boxes, the error and the counts.
Rest == Exists /\ Errors /\ Exact

LEMMA QuietRest ==
    ASSUME Before, ~Waiting, conn.live, app.pc \notin {"delRecv", "delFree"},
           app'.pc \notin {"recvReply", "writeReply", "delReply", "delRecv", "delFree"},
           conn'.live = conn.live, tq' = tq, todo' = todo, tcp' = tcp, box'["mbox"] = box["mbox"],
           Rest'
    PROVE  Before'
BY Quiet DEF Before, Rest

LEMMA CallKeeps ==
    ASSUME TypeOK, Before, Call
    PROVE  Before'
<1>1. /\ app.pc = "idle" /\ conn.live /\ app'.pc \in {"recv", "write", "del"} /\ app'.done = app.done
      /\ UNCHANGED <<conn, box, sem, tq, todo, tcp>>
  BY DEF Call, At, TypeOK, AppOK
<1>2. ~Waiting
  BY <1>1 DEF Waiting
<1>3. Exists'
  BY <1>1, <1>2, Quiet DEF Before, Exists, PostsRecv
<1>4. Errors' /\ Exact'
  BY <1>1, <1>2, Quiet DEF Before, Errors, Exact
<1> QED BY <1>1, <1>2, <1>3, <1>4, QuietRest DEF Rest

LEMMA RecvKeeps ==
    ASSUME TypeOK, Before, RecvBegin \/ RecvState \/ RecvWait \/ RecvFree \/ RecvNull,
           UNCHANGED <<todo, tcp>>
    PROVE  bad' = "" /\ Before'
<1>1. /\ app.pc \in {"recv", "recvState", "recvWait", "recvFree", "recvNull"} /\ bad = ""
      /\ tq' = tq
  BY DEF RecvBegin, RecvState, RecvWait, RecvFree, RecvNull, At, Crash
<1>2. ~Waiting /\ conn.live /\ ConnOK /\ BoxOK /\ AppOK
  BY <1>1 DEF Waiting, Before, Closing, TypeOK
<1>3. conn.pcb /\ conn.err # "rst" /\ (~tcp.cleared => tcp.queued = app.done)
  BY <1>1 DEF Before, Errors, Exact
<1>4. CASE RecvBegin
  <2>1. /\ app'.pc \in {"idle", "recvState"} /\ app'.done = app.done
        /\ conn' = conn \/ conn' = [conn EXCEPT !.err = "conn"]
        /\ UNCHANGED <<box, sem, bad>>
    BY <1>2, <1>4, GoesFields DEF RecvBegin
  <2>2. conn'.live = conn.live /\ conn'.pcb = conn.pcb /\ conn'.err # "rst"
    BY <1>2, <1>3, <2>1, ConnErrSet
  <2>3. Exists'
    BY <1>1, <1>2, <2>1, <2>2, Quiet DEF Before, Exists, PostsRecv
  <2>4. Errors' /\ Exact'
    BY <1>3, <2>1, <2>2 DEF Errors, Exact
  <2> QED BY <1>1, <1>2, <2>1, <2>2, <2>3, <2>4, QuietRest DEF Rest
<1>5. CASE RecvState
  <2>1. app'.pc = "recvWait" /\ app'.done = app.done /\ UNCHANGED <<conn, box, sem, bad>>
    BY <1>2, <1>3, <1>5, GoesFields DEF RecvState
  <2>2. Exists'
    BY <1>1, <1>2, <2>1, Quiet DEF Before, Exists, PostsRecv
  <2>3. Errors' /\ Exact'
    BY <1>3, <2>1 DEF Errors, Exact
  <2> QED BY <1>1, <1>2, <2>1, <2>2, <2>3, QuietRest DEF Rest
<1>6. CASE RecvWait
  <2> DEFINE q == box["recv"].q
             bx == [box["recv"] EXCEPT !.q = Tail(q)]
  <2>1. q # << >> /\ q \in Seq(Bits) /\ box["recv"] \in Box
    BY <1>2, <1>6, BoxFields DEF RecvWait
  <2>2. box' = [box EXCEPT !["recv"] = bx] /\ UNCHANGED <<conn, sem, bad>>
    BY <1>6 DEF RecvWait
  <2>3. bx.q = Tail(q) /\ bx.ptr = box["recv"].ptr /\ bx.live = box["recv"].live
    BY <2>1, QueueSet
  <2>4. box'["mbox"] = box["mbox"] /\ box'["recv"] = bx
    BY <1>2, <2>2, RecvBoxSet
  <2>5. Data(q) => Data(Tail(q)) /\ Head(q) = 1
    <3>1. /\ Len(q) \in Nat \ {0} /\ Len(Tail(q)) = Len(q) - 1 /\ Head(q) = q[1]
          /\ \A i \in 1 .. Len(Tail(q)) : Tail(q)[i] = q[i + 1]
      BY <2>1, HeadTailProperties
    <3>2. 1 \in 1 .. Len(q) /\ \A i \in 1 .. Len(Tail(q)) : i + 1 \in 1 .. Len(q)
      BY <3>1
    <3> QED BY <3>1, <3>2 DEF Data
  <2>6. /\ app'.pc \in {"recvFree", "recvTell"} /\ app'.done = app.done
        /\ Head(q) = 1 => app'.pc = "recvTell"
    <3>1. CASE Head(q) = 0
      BY <1>2, <1>6, <3>1, GoesFields DEF RecvWait, NULL
    <3>2. CASE Head(q) # 0
      <4>1. app' = [app EXCEPT !.pc = "recvTell", !.got = @ + 1]
        BY <1>6, <3>2 DEF RecvWait, NULL
      <4> QED BY <1>2, <4>1 DEF AppOK
    <3> QED BY <3>1, <3>2
  <2> HIDE DEF bx
  <2>7. /\ Data(box["recv"].q) => app'.pc = "recvTell" /\ Data(box'["recv"].q)
        /\ box'["recv"].ptr = box["recv"].ptr /\ box'["recv"].live = box["recv"].live
    BY <2>3, <2>4, <2>5, <2>6
  <2> HIDE DEF q
  <2>8. Exists'
    BY <1>1, <1>2, <2>2, <2>4, <2>6, <2>7, Quiet DEF Before, Exists, PostsRecv
  <2>9. Errors' /\ Exact'
    BY <1>3, <2>2, <2>6 DEF Errors, Exact
  <2> QED BY <1>1, <1>2, <2>2, <2>4, <2>6, <2>8, <2>9, QuietRest DEF Rest
<1>7. CASE RecvFree
  <2>1. /\ box' = [box EXCEPT !["recv"] = [box["recv"] EXCEPT !.live = FALSE]]
        /\ app'.pc = "recvNull" /\ app'.done = app.done /\ UNCHANGED <<conn, sem, bad>>
    BY <1>2, <1>7, GoesFields DEF RecvFree
  <2>2. box'["mbox"] = box["mbox"]
    BY <1>2, <2>1, RecvBoxSet
  <2>3. Exists'
    BY <1>1, <1>2, <1>7, <2>1, <2>2, Quiet DEF Before, Exists, PostsRecv, RecvFree, At
  <2>4. Errors' /\ Exact'
    BY <1>3, <2>1 DEF Errors, Exact
  <2> QED BY <1>1, <1>2, <2>1, <2>2, <2>3, <2>4, QuietRest DEF Rest
<1>8. CASE RecvNull
  <2>1. /\ box' = [box EXCEPT !["recv"] = [box["recv"] EXCEPT !.ptr = FALSE]]
        /\ app'.pc = "idle" /\ app'.done = app.done /\ UNCHANGED <<conn, sem, bad>>
    BY <1>2, <1>8, GoesFields DEF RecvNull
  <2>2. box'["mbox"] = box["mbox"]
    BY <1>2, <2>1, RecvBoxSet
  <2>3. Exists'
    BY <1>1, <1>2, <1>8, <2>1, <2>2, Quiet DEF Before, Exists, PostsRecv, RecvNull, At
  <2>4. Errors' /\ Exact'
    BY <1>3, <2>1 DEF Errors, Exact
  <2> QED BY <1>1, <1>2, <2>1, <2>2, <2>3, <2>4, QuietRest DEF Rest
<1> QED BY <1>4, <1>5, <1>6, <1>7, <1>8

LEMMA WriteKeeps ==
    ASSUME TypeOK, Before,
           \/ WriteRefused \/ WriteBegin \/ WriteLoop \/ WriteBuf \/ WriteFull \/ WriteErr \/ WriteMem
           \/ WriteAgain \/ WriteFail \/ WriteNull,
           UNCHANGED <<todo, tcp>>
    PROVE  bad' = "" /\ Before'
<1>1. /\ app.pc \in {"write", "writeLoop", "writeBuf", "writeFull", "writeErr", "writeMem", "writeAgain"}
      /\ bad = "" /\ tq' = tq /\ box' = box
  BY DEF WriteRefused, WriteBegin, WriteLoop, WriteBuf, WriteFull, WriteErr, WriteMem, WriteAgain, WriteFail,
         WriteNull, At, Crash, Before, Errors
<1>2. ~Waiting /\ conn.live /\ ConnOK /\ SemOK /\ AppOK /\ TcpOK
  BY <1>1 DEF Waiting, Before, Closing, TypeOK
<1>3. conn.pcb /\ conn.err # "rst" /\ sem.ptr /\ sem.live
  BY <1>2 DEF Before, Errors, Exists
<1>4. ~tcp.cleared /\ app.pc # "writeErr" => tcp.queued = app.done
  BY <1>1 DEF Before, Exact
\* What is left to show of such a step.
<1>5. ASSUME app'.pc \in {"idle", "writeLoop", "writeBuf", "writeFull", "writeSend", "writeMem", "writeAgain"},
             conn'.live = conn.live, conn'.pcb = conn.pcb, conn'.err # "rst", sem'.ptr, sem'.live, bad' = bad,
             app'.pc \notin {"idle", "writeMem"} => conn'.err = "ok",
             app'.pc = "writeMem" => conn'.err = "mem",
             ~tcp.cleared => tcp.queued = app'.done
      PROVE  bad' = "" /\ Before'
  <2>1. Exists'
    BY <1>1, <1>2, <1>5, Quiet DEF Before, Exists, PostsRecv
  <2>2. Errors' /\ Exact'
    BY <1>3, <1>5 DEF Errors, Exact
  <2> QED BY <1>1, <1>2, <1>5, <2>1, <2>2, QuietRest DEF Rest
<1>6. CASE WriteRefused
  <2>1. app'.pc = "idle" /\ app'.done = app.done /\ UNCHANGED <<conn, sem, bad>> /\ app.pc = "write"
    BY <1>2, <1>6, GoesFields DEF WriteRefused, At
  <2> QED BY <1>3, <1>4, <1>5, <2>1
<1>7. CASE WriteBegin
  <2>1. /\ app'.pc = "writeLoop" /\ app'.done = app.done /\ UNCHANGED <<sem, bad>> /\ app.pc = "write"
        /\ conn.err = "ok" /\ conn' = [conn EXCEPT !.state = "write"]
    BY <1>2, <1>3, <1>7, GoesFields DEF WriteBegin, At
  <2>2. conn'.live = conn.live /\ conn'.pcb = conn.pcb /\ conn'.err = "ok"
    BY <1>2, <2>1 DEF ConnOK
  <2> QED BY <1>3, <1>4, <1>5, <2>1, <2>2
<1>8. CASE WriteLoop
  <2>1. /\ app'.pc \in {"writeBuf", "idle"} /\ (app'.pc = "writeBuf" => conn.err = "ok")
        /\ app'.done = app.done /\ UNCHANGED <<conn, sem, bad>> /\ app.pc = "writeLoop"
    <3>1. CASE conn.err = "ok" /\ app.left > 0
      BY <1>2, <1>8, <3>1, GoesFields DEF WriteLoop, At
    <3>2. CASE ~(conn.err = "ok" /\ app.left > 0)
      <4>1. Goes("idle") /\ app.pc = "writeLoop" /\ UNCHANGED <<conn, sem, bad>>
        BY <1>8, <3>2 DEF WriteLoop, At
      <4> QED BY <1>2, <4>1, GoesFields
    <3> QED BY <3>1, <3>2
  <2> QED BY <1>3, <1>4, <1>5, <2>1
<1>9. CASE WriteBuf
  <2>1. /\ app'.pc \in {"writeFull", "writeSend"} /\ app.pc = "writeBuf"
        /\ app'.done = app.done /\ UNCHANGED <<conn, sem, bad>>
    BY <1>2, <1>3, <1>9, GoesFields DEF WriteBuf, At
  <2>2. conn.err = "ok"
    BY <2>1 DEF Before, Errors
  <2> QED BY <1>3, <1>4, <1>5, <2>1, <2>2
<1>10. CASE WriteFull
  <2>1. app.pc = "writeFull" /\ conn.err = "ok"
    BY <1>10 DEF WriteFull, At, Before, Errors
  <2>2. /\ app'.pc = "writeSend" /\ app'.done = app.done /\ UNCHANGED <<conn, bad>>
        /\ sem' = [sem EXCEPT !.c = 0]
    BY <1>2, <1>10, <2>1, GoesFields DEF WriteFull
  <2>3. sem'.ptr /\ sem'.live
    BY <1>2, <1>3, <2>2 DEF SemOK
  <2> QED BY <1>3, <1>4, <1>5, <2>1, <2>2, <2>3
<1>11. CASE WriteErr
  <2>1. /\ app.pc = "writeErr" /\ conn.err \in {"ok", "mem"} /\ UNCHANGED <<conn, sem, bad>>
        /\ ~tcp.cleared => tcp.queued = IF conn.err = "ok" THEN app.done + app.len ELSE app.done
    BY <1>11 DEF WriteErr, At, Before, Errors, Exact
  <2>2. CASE conn.err = "ok"
    <3>1. app' = [app EXCEPT !.pc = "writeLoop", !.left = app.left - app.len, !.done = app.done + app.len]
      BY <1>11, <2>2 DEF WriteErr, Written
    <3>2. app'.pc = "writeLoop" /\ app'.done = app.done + app.len
      BY <1>2, <3>1 DEF AppOK
    <3> QED BY <1>3, <1>5, <2>1, <2>2, <3>2
  <2>3. CASE conn.err = "mem"
    <3>1. app'.pc = "writeMem" /\ app'.done = app.done
      BY <1>2, <1>11, <2>3, GoesFields DEF WriteErr, Written
    <3> QED BY <1>3, <1>5, <2>1, <2>3, <3>1
  <2> QED BY <2>1, <2>2, <2>3
<1>12. CASE WriteMem
  <2>1. /\ app'.pc = "writeAgain" /\ app'.done = app.done /\ UNCHANGED <<sem, bad>> /\ app.pc = "writeMem"
        /\ conn' = [conn EXCEPT !.err = "ok"]
    BY <1>2, <1>12, GoesFields DEF WriteMem, At
  <2>2. conn'.live = conn.live /\ conn'.pcb = conn.pcb /\ conn'.err = "ok"
    BY <1>2, <2>1, ConnErrSet
  <2> QED BY <1>3, <1>4, <1>5, <2>1, <2>2
<1>13. CASE WriteAgain
  <2>1. app.pc = "writeAgain" /\ conn.err = "ok"
    BY <1>13 DEF WriteAgain, At, Before, Errors
  <2>2. /\ app'.pc = "writeLoop" /\ app'.done = app.done /\ UNCHANGED <<conn, bad>>
        /\ sem' = [sem EXCEPT !.c = 0]
    BY <1>2, <1>13, <2>1, GoesFields DEF WriteAgain
  <2>3. sem'.ptr /\ sem'.live
    BY <1>2, <1>3, <2>2 DEF SemOK
  <2> QED BY <1>3, <1>4, <1>5, <2>1, <2>2, <2>3
<1>14. ~WriteFail /\ ~WriteNull
  BY <1>1 DEF WriteFail, WriteNull, At
<1> QED BY <1>6, <1>7, <1>8, <1>9, <1>10, <1>11, <1>12, <1>13, <1>14

\* Asking: the request is the one answer under way, or it is lost.
LEMMA AskKeeps ==
    ASSUME TypeOK, TypeOK', Before, RecvTell \/ WriteSend \/ DelRequest, UNCHANGED <<todo, tcp>>
    PROVE  /\ bad' = "" => Before'
           /\ bad' \in {"", "lost"} /\ (~tcp.cleared => tcp'.queued = app'.done)
<1>1. /\ app.pc \in {"recvTell", "writeSend", "del"} /\ bad = ""
  BY DEF RecvTell, WriteSend, DelRequest, At
<1>2. ~Waiting /\ conn.live /\ AppOK
  BY <1>1 DEF Waiting, Before, Closing, TypeOK
<1>3. /\ conn.pcb /\ conn.err # "rst" /\ (~tcp.cleared => tcp.queued = app.done)
      /\ app.pc = "writeSend" => conn.err = "ok"
  BY <1>1 DEF Before, Errors, Exact
<1>4. ~Asked /\ ~Answering /\ ~Answered
  BY <1>1, <1>2, NotWaiting
\* The request m, and the wait for its answer.
<1>5. \E m \in Msg :
         /\ IsRequest(m) /\ Expected(m)' /\ app'.pc \in {"recvReply", "writeReply", "delReply"}
         /\ app'.pc = "writeReply" => app.pc = "writeSend"
         /\ app'.done = app.done /\ UNCHANGED <<conn, box, sem>>
         /\ (tq' = Append(tq, m) /\ bad' = bad) \/ bad' = "lost"
  <2>1. CASE RecvTell
    <3>1. [op |-> "recv", len |-> 1] \in Msg
      BY DEF Msg
    <3>2. app'.pc = "recvReply" /\ app'.done = app.done
      BY <1>2, <2>1, GoesFields DEF RecvTell, Request
    <3>3. Expected([op |-> "recv", len |-> 1])' /\ IsRequest([op |-> "recv", len |-> 1])
      BY <3>2 DEF Expected, IsRequest
    <3> QED BY <2>1, <3>1, <3>2, <3>3 DEF RecvTell, Request
  <2>2. CASE DelRequest
    <3>1. [op |-> "del", len |-> 0] \in Msg
      BY DEF Msg
    <3>2. app'.pc = "delReply" /\ app'.done = app.done
      BY <1>2, <2>2, GoesFields DEF DelRequest, Request
    <3>3. Expected([op |-> "del", len |-> 0])' /\ IsRequest([op |-> "del", len |-> 0])
      BY <3>2 DEF Expected, IsRequest
    <3> QED BY <2>2, <3>1, <3>2, <3>3 DEF DelRequest, Request
  <2>3. CASE WriteSend
    <3>1. PICK n : /\ app' = [app EXCEPT !.pc = "writeReply", !.len = n] /\ app.pc = "writeSend"
                   /\ UNCHANGED <<conn, box, sem>>
                   /\ (tq' = Append(tq, [op |-> "write", len |-> n]) /\ bad' = bad) \/ bad' = "lost"
      BY <1>3, <2>3 DEF WriteSend, At, Crash
    <3>2. app'.pc = "writeReply" /\ app'.len = n /\ app'.done = app.done
      BY <1>2, <3>1 DEF AppOK
    <3>3. n \in Nat
      BY <3>2 DEF TypeOK, AppOK
    <3>4. [op |-> "write", len |-> n] \in Msg
      BY <3>3 DEF Msg
    <3>5. Expected([op |-> "write", len |-> n])' /\ IsRequest([op |-> "write", len |-> n])
      BY <3>2 DEF Expected, IsRequest
    <3> QED BY <3>1, <3>2, <3>4, <3>5
  <2> QED BY <2>1, <2>2, <2>3
<1>6. PICK m \in Msg :
         /\ IsRequest(m) /\ Expected(m)' /\ app'.pc \in {"recvReply", "writeReply", "delReply"}
         /\ app'.pc = "writeReply" => app.pc = "writeSend"
         /\ app'.done = app.done /\ UNCHANGED <<conn, box, sem>>
         /\ (tq' = Append(tq, m) /\ bad' = bad) \/ bad' = "lost"
  BY <1>5
<1>7. ASSUME bad' = ""
      PROVE  Before'
  <2>1. tq' = Append(tq, m)
    BY <1>6, <1>7
  <2>2. Requests' /\ Asked'
    BY <1>4, <1>6, <2>1, QueueAdded DEF TypeOK
  <2>3. ~Answering' /\ ~Answered' /\ Len(box'["mbox"].q) <= 1 /\ OneHandler'
        /\ (PostsRecv' => PostsRecv)
    BY <1>4, <1>6 DEF Answering, Answered, Before, OneAnswer, OneHandler, PostsRecv
  <2>4. OneAnswer' /\ Closing'
    BY <1>2, <1>6, <2>2, <2>3 DEF OneAnswer, Closing, Waiting, Gone
  <2>5. Exists'
    BY <1>1, <1>2, <1>6, <2>3 DEF Before, Exists, Gone
  <2>6. Errors' /\ Exact'
    BY <1>3, <1>6, <2>2 DEF Errors, Exact
  <2> QED BY <2>2, <2>3, <2>4, <2>5, <2>6 DEF Before
<1> QED BY <1>1, <1>3, <1>6, <1>7

LEMMA ReplyKeeps ==
    ASSUME TypeOK, Before, RecvReply \/ WriteReply, UNCHANGED <<todo, tcp>>
    PROVE  bad' = "" /\ Before'
<1> DEFINE q == box["mbox"].q
           bx == [box["mbox"] EXCEPT !.q = Tail(q)]
<1>1. /\ app.pc \in {"recvReply", "writeReply"} /\ bad = "" /\ bad' = "" /\ Answered
      /\ box' = [box EXCEPT !["mbox"] = bx] /\ UNCHANGED <<conn, sem, tq>>
  BY DEF RecvReply, WriteReply, At, Reply, Answered
<1>2. conn.live /\ AppOK /\ BoxOK
  BY <1>1 DEF Before, Closing, TypeOK
<1>3. /\ app'.pc = IF app.pc = "recvReply" THEN "idle" ELSE "writeErr"
      /\ app'.done = app.done /\ app'.len = app.len
  BY <1>2, GoesFields DEF RecvReply, WriteReply, At, Reply
<1>4. q \in Seq(Bits) /\ q # << >> /\ box["mbox"] \in Box /\ Len(q) <= 1
  BY <1>1, <1>2, BoxFields DEF Answered, Before, OneAnswer
<1>5. Tail(q) = << >>
  BY <1>4
<1>6. bx.q = Tail(q) /\ bx.ptr = box["mbox"].ptr /\ bx.live = box["mbox"].live
  BY <1>4, QueueSet
<1>7. box'["mbox"] = bx /\ box'["recv"] = box["recv"]
  BY <1>1, <1>2, MboxSet
<1> HIDE DEF bx
<1>8. box'["mbox"].q = << >> /\ box'["mbox"].ptr = box["mbox"].ptr /\ box'["mbox"].live = box["mbox"].live
  BY <1>5, <1>6, <1>7
<1>9. ~Asked /\ ~Answering
  BY <1>1 DEF Before, OneAnswer
<1>10. Requests' /\ ~Asked'
  BY <1>1, <1>9, NoneAsked
<1>11. /\ ~Answering' /\ ~Answered' /\ Len(box'["mbox"].q) <= 1 /\ OneHandler'
       /\ PostsRecv' => PostsRecv
  <2>1. ~Answering' /\ (PostsRecv' => PostsRecv)
    BY <1>9 DEF Answering, PostsRecv
  <2>2. ~Answered' /\ Len(box'["mbox"].q) <= 1
    BY <1>8 DEF Answered
  <2>3. OneHandler'
    BY DEF Before, OneHandler
  <2> QED BY <2>1, <2>2, <2>3
<1>12. OneAnswer' /\ Closing'
  BY <1>1, <1>2, <1>3, <1>10, <1>11 DEF OneAnswer, Closing, Gone
<1>13. Exists'
  BY <1>1, <1>2, <1>3, <1>7, <1>8, <1>11 DEF Before, Exists, Gone
<1>14. Errors' /\ Exact'
  BY <1>1, <1>3, <1>9 DEF Before, Errors, Exact
<1> QED BY <1>1, <1>10, <1>11, <1>12, <1>13, <1>14 DEF Before

LEMMA DeleteKeeps ==
    ASSUME TypeOK, Before, DelReply \/ DelRecv \/ DelFree, UNCHANGED <<todo, tcp>>
    PROVE  bad' = "" /\ Before'
<1>1. /\ app.pc \in {"delReply", "delRecv", "delFree"} /\ bad = "" /\ bad' = "" /\ tq' = tq
  BY DEF DelReply, DelRecv, DelFree, At
<1>2. conn.live /\ AppOK /\ BoxOK /\ ConnOK
  BY <1>1 DEF Before, Closing, TypeOK
<1>3. ~Asked
  <2>1. DelReply => Answered
    BY DEF DelReply, DelAnswered, Answered
  <2>2. ~DelReply => Gone
    BY DEF DelRecv, DelFree, At, Gone
  <2> QED BY <2>1, <2>2 DEF Before, Closing, OneAnswer
<1>4. Requests' /\ ~Asked'
  BY <1>1, <1>3, NoneAsked
<1>5. ~tcp.cb /\ todo = << >>
  <2>1. CASE app.pc = "delReply"
    <3>1. Answered
      BY <2>1 DEF DelReply, DelRecv, DelFree, DelAnswered, Answered, At
    <3> QED BY <1>3, <2>1, <3>1 DEF Before, Closing, OneAnswer
  <2>2. CASE app.pc # "delReply"
    BY <1>1, <2>2 DEF Before, Closing, Gone
  <2> QED BY <2>1, <2>2
<1>6. /\ OneHandler' /\ ~Answering' /\ ~PostsRecv'
  BY <1>5 DEF OneHandler, Answering, PostsRecv
<1>7. conn.pcb /\ conn.err # "rst" /\ (~tcp.cleared => tcp.queued = app.done)
  BY <1>1 DEF Before, Errors, Exact
<1>8. CASE DelReply
  <2>1. app'.pc = "delRecv" /\ app'.done = app.done /\ UNCHANGED <<conn, box, sem>>
    BY <1>2, <1>8, GoesFields DEF DelReply
  <2>2. OneAnswer' /\ Closing'
    BY <1>2, <1>4, <1>5, <1>6, <2>1 DEF OneAnswer, Closing, Gone, Answered, Before
  <2>3. Exists' /\ Errors' /\ Exact'
    BY <1>2, <1>6, <1>7, <2>1 DEF Exists, Errors, Exact, Gone, Before
  <2> QED BY <1>1, <1>4, <1>6, <2>2, <2>3 DEF Before
<1>9. CASE DelRecv
  <2>1. /\ box' = [box EXCEPT !["recv"] = [ptr |-> FALSE, live |-> FALSE, q |-> << >>]]
        /\ app'.pc = "delFree" /\ app'.done = app.done /\ UNCHANGED <<conn, sem>> /\ app.pc = "delRecv"
    BY <1>2, <1>9, GoesFields DEF DelRecv, At
  <2>2. box'["mbox"] = box["mbox"]
    BY <1>2, <2>1, RecvBoxSet
  <2>3. OneAnswer' /\ Closing'
    BY <1>2, <1>4, <1>5, <1>6, <2>1, <2>2 DEF OneAnswer, Closing, Gone, Answered, Before
  <2>4. Exists' /\ Errors' /\ Exact'
    BY <1>2, <1>6, <1>7, <2>1, <2>2 DEF Exists, Errors, Exact, Gone, Before
  <2> QED BY <1>1, <1>4, <1>6, <2>3, <2>4 DEF Before
<1>10. CASE DelFree
  <2>1. /\ box' = [box EXCEPT !["mbox"] = [ptr |-> FALSE, live |-> FALSE, q |-> << >>]]
        /\ conn' = [conn EXCEPT !.live = FALSE]
        /\ app'.pc = "idle" /\ app'.done = app.done
    BY <1>2, <1>10, GoesFields DEF DelFree
  <2>2. box'["mbox"].q = << >>
    BY <1>2, <2>1, MboxSet
  <2>3. ~conn'.live /\ conn'.pcb = conn.pcb /\ conn'.err = conn.err
    BY <1>2, <2>1 DEF ConnOK
  <2>4. OneAnswer' /\ Closing'
    BY <1>4, <1>5, <1>6, <2>1, <2>2 DEF OneAnswer, Closing, Gone, Answered
  <2>5. Exists' /\ Errors' /\ Exact'
    BY <1>6, <1>7, <2>1, <2>3 DEF Exists, Errors, Exact, Gone
  <2> QED BY <1>1, <1>4, <1>6, <2>4, <2>5 DEF Before
<1> QED BY <1>8, <1>9, <1>10
-----------------------------------------------------------------------------
(* Before a reset: the steps of the transport thread *)

LEMMA OneLeft ==
    ASSUME TypeOK, Before, todo # << >>
    PROVE  /\ Tail(todo) = << >> /\ Head(todo) = todo[1] /\ todo[1] \in Act
           /\ ~Gone /\ conn.live
           /\ box["mbox"].ptr /\ box["mbox"].live /\ sem.ptr /\ sem.live
<1>1. Len(todo) = 1 /\ todo \in Seq(Act)
  BY DEF Before, OneHandler, TypeOK
<1>2. Tail(todo) = << >> /\ Head(todo) = todo[1] /\ todo[1] \in Act
  <2>1. Head(todo) = todo[1] /\ todo[1] \in Act /\ Tail(todo) \in Seq(Act) /\ Len(Tail(todo)) = 0
    BY <1>1, TodoFields
  <2> QED BY <2>1, EmptySeq
<1>3. ~Gone /\ conn.live
  BY DEF Before, Closing, Gone
<1> QED BY <1>2, <1>3 DEF Before, Exists

LEMMA TestPtrKeeps ==
    ASSUME TypeOK, Before, TestPtr, UNCHANGED <<tq, tcp, app>>
    PROVE  bad' = "" /\ Before'
<1>1. todo # << >> /\ todo[1].op \in {"ifpost", "ifsig"} /\ bad' = "" /\ UNCHANGED <<conn, box, sem>>
  BY OneLeft, ZenonT(60) DEF TestPtr, Doing
<1>2. todo' = Found(todo[1]) \o << >>
  BY <1>1, OneLeft DEF TestPtr, Found
<1>3. todo' = IF todo[1].op = "ifpost" THEN <<Post("mbox", todo[1].v)>> ELSE <<Signal>>
  <2>1. todo[1].op = "ifpost" => todo[1].b = "mbox"
    BY <1>1 DEF Before, OneHandler
  <2>2. Found(todo[1]) = IF todo[1].op = "ifpost" THEN <<Post("mbox", todo[1].v)>> ELSE <<Signal>>
    BY <1>1, <2>1, OneLeft DEF Found
  <2>3. Found(todo[1]) \o << >> = Found(todo[1])
    BY <2>2
  <2> QED BY <1>2, <2>2, <2>3
<1>4. /\ OneHandler' /\ ~PostsRecv' /\ todo' # << >>
      /\ (Answering' => Answering) /\ (Answering => Answering')
  <2>1. CASE todo[1].op = "ifpost"
    BY <1>1, <1>3, <2>1 DEF Post, OneHandler, PostsRecv, Answering, Before
  <2>2. CASE todo[1].op = "ifsig"
    BY <1>1, <1>3, <2>2 DEF Signal, OneHandler, PostsRecv, Answering
  <2> QED BY <1>1, <2>1, <2>2
<1>5. Requests' /\ (Asked' => Asked) /\ (Asked => Asked')
  BY RequestsSame, AskedSame DEF Before
<1>6. ~Gone /\ ~Gone'
  BY <1>1, OneLeft DEF Gone
<1>7. OneAnswer' /\ Closing'
  BY <1>1, <1>4, <1>5, <1>6 DEF Before, OneAnswer, Closing, Answered, Waiting
<1>8. Exists' /\ Errors' /\ Exact'
  BY <1>1, <1>4, <1>5, <1>6 DEF Before, Exists, Errors, Exact
<1> QED BY <1>1, <1>4, <1>5, <1>7, <1>8 DEF Before

LEMMA PostMboxKeeps ==
    ASSUME TypeOK, Before, PostMbox, UNCHANGED <<tq, tcp, app>>
    PROVE  \/ bad' = "" /\ Before'
           \/ bad' = "assert" /\ tcp.fins \notin {0, 1} /\ Exact'
<1>1. todo # << >> /\ todo[1].op = "post" /\ todo' = << >> /\ bad = "" /\ UNCHANGED <<conn, sem>>
  BY OneLeft DEF PostMbox, Doing
<1> DEFINE b == todo[1].b
           v == todo[1].v
           q == Append(box[b].q, v)
           bx == [box[b] EXCEPT !.q = q]
<1>2. b \in {"recv", "mbox"} /\ v \in Bits /\ BoxOK
  BY <1>1, TodoFields DEF TypeOK
<1>3. box[b] \in Box /\ box[b].q \in Seq(Bits)
  BY <1>2, BoxFields
<1>0. Requests' /\ (Asked' => Asked) /\ (Asked => Asked')
  BY RequestsSame, AskedSame DEF Before
<1>4. CASE ~(box[b].ptr /\ box[b].live)
  <2>1. bad' = "assert"
    BY <1>1, <1>4, OneLeft DEF PostMbox
  <2>2. tcp.fins \notin {0, 1}
    BY <1>1, <1>2, <1>4, OneLeft DEF PostsRecv, Before, Exists
  <2>3. Exact'
    BY <1>0, <1>1 DEF Before, Exact
  <2> QED BY <2>1, <2>2, <2>3
<1>5. CASE box[b].ptr /\ box[b].live
  <2>5. box' = [box EXCEPT ![b] = bx] /\ bad' = ""
    BY <1>1, <1>5, OneLeft DEF PostMbox
  <2>6. bx.q = q /\ bx.ptr /\ bx.live
    BY <1>3, <1>5, QueueSet
  <2>7. Len(q) = Len(box[b].q) + 1 /\ Len(box[b].q) \in Nat /\ q # << >> /\ q[Len(box[b].q) + 1] = v
        /\ \A i \in 1 .. Len(box[b].q) : q[i] = box[b].q[i]
    <3> HIDE DEF b, v
    <3>1. Len(q) = Len(box[b].q) + 1 /\ q # << >> /\ q[Len(box[b].q) + 1] = v
          /\ \A i \in 1 .. Len(box[b].q) : q[i] = box[b].q[i]
      BY <1>2, <1>3, AppendProperties
    <3> QED BY <1>3, <3>1
  <2>9. ~Gone /\ ~Gone' /\ OneHandler' /\ ~Answering' /\ ~PostsRecv'
    BY <1>1, OneLeft DEF Gone, OneHandler, Answering, PostsRecv
  <2>10. CASE b = "mbox"
    <3>1. Answering /\ Waiting /\ ~Answered /\ ~Asked
      BY <1>1, <2>10 DEF Answering, Before, OneAnswer
    <3>2. box'["mbox"] = bx /\ box'["recv"] = box["recv"]
      BY <1>2, <2>5, <2>10, MboxSet
    <3>3. Len(box[b].q) = 0
      <4>1. box["mbox"].q = << >>
        BY <3>1 DEF Answered
      <4> QED BY <2>10, <4>1, EmptySeq
    <3>4. Len(box'["mbox"].q) <= 1 /\ box'["mbox"].ptr /\ box'["mbox"].live
      <4>1. Len(q) <= 1
        BY <2>7, <3>3
      <4> HIDE DEF bx, q
      <4> QED BY <2>6, <3>2, <4>1
    <3>5. OneAnswer'
      BY <1>0, <2>9, <3>1, <3>4 DEF OneAnswer, Waiting
    <3>6. Closing'
      BY <1>1, <1>0, <2>9, <3>1 DEF Closing, Before, Gone
    <3>7. ~PostsRecv
      BY <2>10 DEF PostsRecv
    <3>8. Exists' /\ Errors' /\ Exact'
      BY <1>1, <1>0, <2>9, <3>2, <3>4, <3>7 DEF Before, Exists, Errors, Exact
    <3> QED BY <2>5, <1>0, <2>9, <3>5, <3>6, <3>8 DEF Before
  <2>11. CASE b = "recv"
    <3>1. ~Answering /\ PostsRecv
      BY <1>1, <2>11 DEF Answering, PostsRecv
    <3>2. box'["recv"] = bx /\ box'["mbox"] = box["mbox"]
      BY <1>2, <2>5, <2>11, RecvBoxSet
    <3>3. OneAnswer' /\ Closing'
      BY <1>1, <1>0, <2>9, <3>1, <3>2 DEF OneAnswer, Closing, Before, Answered, Waiting, Gone
    <3>4. tcp.fins = 0 => Data(box[b].q) /\ v = 1 /\ app.pc \notin {"recvFree", "recvNull"}
      BY <1>2, <2>9, <2>11, <3>1, SMTT(30) DEF Before, Exists, Bits
    <3>5. tcp.fins = 0 => Data(q)
      <4>1. \A i \in 1 .. Len(q) : i \in 1 .. Len(box[b].q) \/ i = Len(box[b].q) + 1
        <5>1. Len(q) = Len(box[b].q) + 1 /\ Len(box[b].q) \in Nat
          BY <2>7
        <5> HIDE DEF q
        <5> QED BY <5>1
      <4> QED BY <2>7, <3>4, <4>1 DEF Data
    <3> HIDE DEF bx, q
    <3>6. Exists'
      BY <1>1, <2>6, <2>9, <3>2, <3>4, <3>5 DEF Before, Exists
    <3>7. Errors' /\ Exact'
      BY <1>1, <1>0 DEF Before, Errors, Exact
    <3> QED BY <2>5, <1>0, <2>9, <3>3, <3>6, <3>7 DEF Before
  <2> QED BY <1>2, <2>10, <2>11
<1> QED BY <1>4, <1>5

LEMMA SignalSemKeeps ==
    ASSUME TypeOK, Before, SignalSem, UNCHANGED <<tq, tcp, app>>
    PROVE  bad' = "" /\ Before'
<1>1. /\ todo # << >> /\ todo[1].op = "sig" /\ todo' = << >> /\ bad' = "" /\ UNCHANGED <<conn, box>>
      /\ sem' = [sem EXCEPT !.c = 1]
  BY OneLeft DEF SignalSem, Doing
<1>2. sem'.ptr /\ sem'.live
  BY <1>1, OneLeft DEF TypeOK, SemOK
<1>3. Requests' /\ (Asked' => Asked) /\ (Asked => Asked')
  BY RequestsSame, AskedSame DEF Before
<1>4. ~Gone /\ ~Gone' /\ OneHandler' /\ ~Answering' /\ ~PostsRecv' /\ ~Answering /\ ~PostsRecv
  BY <1>1, OneLeft DEF Gone, OneHandler, Answering, PostsRecv
<1>5. OneAnswer' /\ Closing'
  BY <1>1, <1>3, <1>4 DEF OneAnswer, Closing, Before, Answered, Waiting, Gone
<1>6. Exists' /\ Errors' /\ Exact'
  BY <1>1, <1>2, <1>3, <1>4 DEF Before, Exists, Errors, Exact
<1> QED BY <1>1, <1>3, <1>4, <1>5, <1>6 DEF Before

\* Nothing sets conn->err before a reset but recv_tcp and do_write.
LEMMA NoConnErr ==
    ASSUME TypeOK, Before
    PROVE  ~SetConnErr
BY OneLeft DEF SetConnErr, Doing, Before, OneHandler

LEMMA OtherKeeps ==
    ASSUME TypeOK, Before, (OtherInput /\ UNCHANGED <<box, sem, app>>) \/ Segment
    PROVE  bad' = "" /\ Before'
<1>1. /\ bad = "" /\ bad' = "" /\ UNCHANGED <<conn, box, sem, todo, tcp, app>>
  BY DEF OtherInput, Segment, Take, Idle
<1>2. Requests' /\ (Asked' => Asked) /\ (Asked => Asked')
  <2>1. CASE OtherInput
    <3>1. tq # << >> /\ tq' = Tail(tq) /\ ~IsRequest(Head(tq))
      BY <2>1 DEF OtherInput, Take, IsRequest
    <3> QED BY <1>1, <3>1, QueueTaken DEF TypeOK, Before
  <2>2. CASE Segment
    <3>1. PICK m : m = [op |-> "net", len |-> 0]
      OBVIOUS
    <3>2. m \in Msg /\ ~IsRequest(m) /\ tq' = Append(tq, m)
      BY <2>2, <3>1 DEF Msg, IsRequest, Segment
    <3> QED BY <1>1, <3>2, QueueAdded DEF TypeOK, Before
  <2> QED BY <2>1, <2>2
<1>3. OneHandler' /\ (Answering' => Answering) /\ (Answering => Answering')
  BY <1>1 DEF Before, OneHandler, Answering
<1>4. OneAnswer' /\ Closing'
  BY <1>1, <1>2, <1>3 DEF Before, OneAnswer, Closing, Answered, Waiting, Gone
<1>5. Exists' /\ Errors' /\ Exact'
  BY <1>1, <1>2 DEF Before, Exists, Errors, Exact, PostsRecv, Gone
<1> QED BY <1>1, <1>2, <1>3, <1>4, <1>5 DEF Before

LEMMA ApiMsgKeeps ==
    ASSUME TypeOK, Before, ApiMsgInput, UNCHANGED <<box, sem, app>>
    PROVE  bad' = "" /\ tcp'.errs = tcp.errs /\ Before'
<1>1. PICK m \in Msg : /\ m = Head(tq) /\ IsRequest(m) /\ tq # << >> /\ tq' = Tail(tq)
                       /\ m.op \in {"recv", "write", "del"} /\ todo = << >> /\ bad = ""
  BY HeadTailProperties DEF ApiMsgInput, Take, IsRequest, Idle, TypeOK
<1>2. Requests' /\ Asked /\ ~Asked' /\ Expected(m)
  BY <1>1, QueueTaken DEF TypeOK, Before
<1>3. ~Answered /\ ~Gone /\ conn.live
  BY <1>2 DEF Before, OneAnswer, Closing, Gone
<1>4. Waiting /\ ConnOK /\ TcpOK /\ m.len \in Nat
  BY <1>2 DEF Expected, Waiting, TypeOK, Msg
<1>5. bad' = "" /\ \/ m.op = "recv" /\ DoRecv(m)
                   \/ m.op = "write" /\ DoWrite(m)
                   \/ m.op = "del" /\ DoDelconn(m)
  BY <1>1, <1>3 DEF ApiMsgInput
<1>6. todo' = <<Post("mbox", NULL)>> \/ todo' = <<IfPost("mbox", NULL)>>
  BY <1>5 DEF DoRecv, DoWrite, DoDelconn
<1>7. OneHandler' /\ Answering' /\ ~PostsRecv' /\ ~PostsRecv
  <2>1. CASE todo' = <<Post("mbox", NULL)>>
    BY <1>1, <2>1 DEF Post, OneHandler, Answering, PostsRecv
  <2>2. CASE todo' = <<IfPost("mbox", NULL)>>
    BY <1>1, <2>2 DEF IfPost, OneHandler, Answering, PostsRecv
  <2> QED BY <1>6, <2>1, <2>2
\* What is left to show of a handler.
<1>8. ASSUME conn'.live = conn.live, conn'.pcb = conn.pcb, tcp'.fins = tcp.fins, tcp'.errs = tcp.errs,
             m.op = "del" => ~tcp'.cb,
             conn'.err # "rst", app.pc = "writeReply" => conn'.err \in {"ok", "mem"},
             Exact'
      PROVE  bad' = "" /\ tcp'.errs = tcp.errs /\ Before'
  <2>1. OneAnswer' /\ Closing'
    BY <1>2, <1>3, <1>4, <1>7, <1>8 DEF OneAnswer, Closing, Answered, Waiting, Gone, Expected
  <2>2. Exists'
    BY <1>3, <1>7, <1>8 DEF Before, Exists, Gone
  <2>3. Errors'
    BY <1>2, <1>4, <1>8 DEF Before, Errors, Waiting
  <2> QED BY <1>2, <1>5, <1>7, <1>8, <2>1, <2>2, <2>3 DEF Before
<1>9. CASE m.op = "recv" /\ DoRecv(m)
  <2>1. tcp' = [tcp EXCEPT !.unread = tcp.unread - m.len] \/ tcp' = tcp
    BY <1>4, <1>9 DEF DoRecv, TcpOK
  <2>2. /\ tcp'.fins = tcp.fins /\ tcp'.errs = tcp.errs /\ tcp'.cleared = tcp.cleared
        /\ tcp'.queued = tcp.queued
    BY <1>4, <2>1 DEF TcpOK
  <2>3. conn' = conn /\ app.pc = "recvReply"
    BY <1>2, <1>9 DEF DoRecv, Expected
  <2>4. Exact' /\ conn.err # "rst"
    BY <2>2, <2>3 DEF Before, Exact, Errors
  <2> QED BY <1>8, <1>9, <2>2, <2>3, <2>4
<1>10. CASE m.op = "del" /\ DoDelconn(m)
  <2>1. /\ tcp'.fins = tcp.fins /\ tcp'.errs = tcp.errs /\ tcp'.cleared = tcp.cleared
        /\ tcp'.queued = tcp.queued /\ ~tcp'.cb
    BY <1>4, <1>10 DEF DoDelconn, TcpOK
  <2>2. conn' = conn /\ app.pc = "delReply"
    BY <1>2, <1>10 DEF DoDelconn, Expected
  <2>3. Exact' /\ conn.err # "rst"
    BY <2>1, <2>2 DEF Before, Exact, Errors
  <2> QED BY <1>8, <1>10, <2>1, <2>2, <2>3
<1>11. CASE m.op = "write" /\ DoWrite(m)
  <2>1. app.pc = "writeReply" /\ m.len = app.len
    BY <1>2, <1>11 DEF Expected
  <2>2. conn.pcb /\ conn.err = "ok" /\ (~tcp.cleared => tcp.queued = app.done)
    BY <1>2, <2>1 DEF Before, Errors, Exact
  <2>3. CASE conn' = [conn EXCEPT !.err = "mem"] /\ tcp' = tcp
    <3>1. conn'.err = "mem" /\ conn'.live = conn.live /\ conn'.pcb = conn.pcb
      BY <1>4, <2>3, ConnErrSet
    <3>2. Exact'
      BY <1>2, <2>1, <2>2, <2>3, <3>1 DEF Exact
    <3> QED BY <1>8, <1>11, <2>3, <3>1, <3>2
  <2>4. CASE /\ conn' = [conn EXCEPT !.err = "ok"]
             /\ tcp' = [tcp EXCEPT !.sndbuf = @ - m.len, !.queued = @ + m.len, !.out = @ + m.len]
    <3>1. conn'.err = "ok" /\ conn'.live = conn.live /\ conn'.pcb = conn.pcb
      BY <1>4, <2>4, ConnErrSet
    <3>2. /\ tcp'.fins = tcp.fins /\ tcp'.errs = tcp.errs /\ tcp'.cleared = tcp.cleared
          /\ tcp'.queued = tcp.queued + m.len
      BY <1>4, <2>4 DEF TcpOK
    <3>3. Exact'
      BY <1>2, <2>1, <2>2, <3>1, <3>2 DEF Exact
    <3> QED BY <1>8, <1>11, <3>1, <3>2, <3>3
  <2> QED BY <1>11, <2>2, <2>3, <2>4 DEF DoWrite
<1> QED BY <1>5, <1>9, <1>10, <1>11

\* The callbacks of TCP, while it has them.
LEMMA Callback ==
    ASSUME TypeOK, Before, tcp.cb, todo = << >>
    PROVE  /\ ~Gone /\ conn.live /\ ~Answering /\ ~PostsRecv
           /\ app.pc = "delReply" => Asked
BY DEF Before, Closing, Gone, Answering, PostsRecv

LEMMA SignalsKeep ==
    ASSUME TypeOK, Before, SentTcp \/ PollTcp
    PROVE  bad' = "" /\ tcp'.errs = tcp.errs /\ Before'
<1>1. /\ tcp.cb /\ todo = << >> /\ bad' = "" /\ todo' \in {<<IfSignal>>, <<Signal>>}
      /\ UNCHANGED <<conn, box, sem, tq, app>>
  BY DEF SentTcp, PollTcp, Idle
<1>2. /\ tcp'.errs = tcp.errs /\ tcp'.fins = tcp.fins /\ tcp'.cleared = tcp.cleared /\ tcp'.queued = tcp.queued
  BY DEF SentTcp, PollTcp, TypeOK, TcpOK
<1>3. Requests' /\ (Asked' => Asked) /\ (Asked => Asked')
  BY <1>1, RequestsSame, AskedSame DEF Before
<1>4. OneHandler' /\ ~Answering' /\ ~PostsRecv'
  <2>1. CASE todo' = <<IfSignal>>
    BY <2>1 DEF IfSignal, OneHandler, Answering, PostsRecv
  <2>2. CASE todo' = <<Signal>>
    BY <2>2 DEF Signal, OneHandler, Answering, PostsRecv
  <2> QED BY <1>1, <2>1, <2>2
<1>5. ~Gone'
  BY <1>1, Callback DEF Gone
<1>6. OneAnswer' /\ Closing'
  BY <1>1, <1>3, <1>4, <1>5, Callback DEF Before, OneAnswer, Closing, Answered, Waiting, Gone
<1>7. Exists' /\ Errors' /\ Exact'
  BY <1>1, <1>2, <1>3, <1>4, <1>5, Callback DEF Before, Exists, Errors, Exact
<1> QED BY <1>1, <1>2, <1>3, <1>4, <1>6, <1>7 DEF Before

\* A segment, or the first null one.
LEMMA RecvTcpKeeps ==
    ASSUME TypeOK, Before, RecvTcp \/ RecvFin, tcp.fins = 0
    PROVE  bad' = "" /\ tcp'.errs = tcp.errs /\ Before'
<1>1. /\ tcp.cb /\ todo = << >> /\ bad' = "" /\ UNCHANGED <<box, sem, tq, app>>
  BY DEF RecvTcp, RecvFin, Idle
<1>2. /\ box["recv"].ptr /\ box["recv"].live /\ app.pc \notin {"recvFree", "recvNull"}
      /\ Data(box["recv"].q)
  BY <1>1, Callback DEF Before, Exists
<1>3. conn' = [conn EXCEPT !.err = "ok"]
  BY <1>2 DEF RecvTcp, RecvFin, Receives
<1>4. conn'.err = "ok" /\ conn'.live = conn.live /\ conn'.pcb = conn.pcb
  BY <1>3, ConnErrSet DEF TypeOK
<1>5. \/ todo' = <<Post("recv", 1)>> /\ tcp'.fins = 0
      \/ todo' = <<Post("recv", 0)>> /\ tcp'.fins = 1
  <2>1. CASE RecvTcp
    <3>1. todo' = <<Post("recv", 1)>>
      BY <1>2, <2>1 DEF RecvTcp, Receives
    <3>2. tcp'.fins = 0
      BY <2>1 DEF RecvTcp, Cleared, TypeOK, TcpOK
    <3> QED BY <3>1, <3>2
  <2>2. CASE RecvFin
    <3>1. todo' = <<Post("recv", 0)>>
      BY <1>2, <2>2 DEF RecvFin, Receives, NULL
    <3>2. tcp'.fins = 1
      BY <2>2 DEF RecvFin, Cleared, TypeOK, TcpOK
    <3> QED BY <3>1, <3>2
  <2> QED BY <2>1, <2>2
<1>6. /\ tcp'.errs = tcp.errs /\ tcp'.queued = tcp.queued
      /\ ~tcp'.cleared => ~tcp.cleared /\ conn.err = "ok"
  BY <1>2 DEF RecvTcp, RecvFin, Cleared, TypeOK, TcpOK
<1>7. Requests' /\ (Asked' => Asked) /\ (Asked => Asked')
  BY <1>1, RequestsSame, AskedSame DEF Before
<1>8. OneHandler' /\ ~Answering' /\ PostsRecv' /\ (todo'[1].v = 0 <=> tcp'.fins # 0)
  BY <1>5 DEF Post, OneHandler, Answering, PostsRecv
<1>9. ~Gone'
  BY <1>1, <1>4, Callback DEF Gone
<1>10. OneAnswer' /\ Closing'
  BY <1>1, <1>4, <1>7, <1>8, <1>9, Callback DEF Before, OneAnswer, Closing, Answered, Waiting, Gone
<1>11. Exists'
  BY <1>1, <1>2, <1>4, <1>8, <1>9, Callback DEF Before, Exists
<1>12. Errors'
  BY <1>1, <1>4, <1>7 DEF Before, Errors
<1>13. Exact'
  BY <1>1, <1>4, <1>6, <1>7 DEF Before, Exact
<1> QED BY <1>1, <1>6, <1>7, <1>8, <1>10, <1>11, <1>12, <1>13 DEF Before

\* Another null segment, when recvmbox may be gone.
LEMMA RecvFinKeeps ==
    ASSUME TypeOK, Before, RecvFin, tcp.fins # 0
    PROVE  bad' = "" /\ tcp'.errs = tcp.errs /\ Before'
<1>1. /\ tcp.cb /\ todo = << >> /\ bad' = "" /\ UNCHANGED <<box, sem, tq, app>>
      /\ tcp' = [Cleared EXCEPT !.fins = tcp.fins + 1] /\ Receives(NULL)
  BY DEF RecvFin, Idle, Cleared, TypeOK, TcpOK
<1>2. tcp.fins \in Nat /\ tcp.fins + 1 \notin {0, 1}
  <2>1. tcp.fins \in Nat
    BY DEF TypeOK, TcpOK
  <2> QED BY <2>1
<1>3. /\ tcp'.fins = tcp.fins + 1 /\ tcp'.errs = tcp.errs /\ tcp'.queued = tcp.queued
      /\ tcp'.cleared = (tcp.cleared \/ (box["recv"].ptr /\ conn.err # "ok"))
      /\ tcp'.cb = tcp.cb
  BY <1>1 DEF Cleared, TypeOK, TcpOK
<1>4. tcp'.fins \notin {0, 1}
  BY <1>2, <1>3
<1>5. \/ conn' = conn /\ ~box["recv"].ptr
      \/ conn' = [conn EXCEPT !.err = "ok"] /\ box["recv"].ptr
  BY <1>1 DEF Receives
<1>6. /\ conn'.live = conn.live /\ conn'.pcb = conn.pcb
      /\ conn'.err \in {conn.err, "ok"}
      /\ box["recv"].ptr => conn'.err = "ok"
      /\ ~box["recv"].ptr => conn'.err = conn.err
  BY <1>5, ConnErrSet DEF TypeOK
<1>7. todo' = << >> \/ todo' = <<Post("recv", 0)>>
  BY <1>1 DEF Receives, NULL
<1>8. Requests' /\ (Asked' => Asked) /\ (Asked => Asked')
  BY <1>1, RequestsSame, AskedSame DEF Before
<1>9. OneHandler' /\ ~Answering' /\ (PostsRecv' => todo'[1].v = 0)
  <2>1. CASE todo' = << >>
    BY <2>1 DEF OneHandler, Answering, PostsRecv
  <2>2. CASE todo' = <<Post("recv", 0)>>
    BY <2>2 DEF Post, OneHandler, Answering, PostsRecv
  <2> QED BY <1>7, <2>1, <2>2
<1>10. ~Gone'
  BY <1>1, <1>6, Callback DEF Gone
<1>11. OneAnswer' /\ Closing'
  BY <1>1, <1>6, <1>8, <1>9, <1>10, Callback DEF Before, OneAnswer, Closing, Answered, Waiting, Gone
<1>12. Exists'
  BY <1>1, <1>4, <1>6, <1>9, <1>10, Callback DEF Before, Exists
<1>13. Errors'
  BY <1>1, <1>6, <1>8 DEF Before, Errors
<1>14. Exact'
  <2>1. ~tcp'.cleared => ~tcp.cleared /\ conn'.err = conn.err
    BY <1>3, <1>6
  <2> QED BY <1>1, <1>3, <1>8, <2>1 DEF Before, Exact
<1> QED BY <1>1, <1>3, <1>8, <1>9, <1>11, <1>12, <1>13, <1>14 DEF Before

LEMMA ResetComes ==
    ASSUME TypeOK, Before, ErrTcp
    PROVE  bad' = "" /\ tcp'.errs # 0 /\ After'
<1>1. /\ bad' = "" /\ tcp' = [tcp EXCEPT !.cb = FALSE, !.errs = tcp.errs + 1]
      /\ conn' = [conn EXCEPT !.pcb = FALSE] /\ UNCHANGED <<box, sem, tq, app>>
      /\ todo' = <<SetErr, IfPost("recv", NULL), IfPost("mbox", NULL), IfSignal>>
  BY DEF ErrTcp, Idle
<1>2. tcp.errs + 1 # 0
  BY DEF TypeOK, TcpOK
<1>3. tcp'.errs # 0 /\ ~tcp'.cb /\ tcp'.queued = tcp.queued /\ tcp'.cleared = tcp.cleared
  BY <1>1, <1>2 DEF TypeOK, TcpOK
<1>4. ~conn'.pcb /\ conn'.err = conn.err
  BY <1>1 DEF TypeOK, ConnOK
<1>5. Pending' /\ \A i \in 1 .. Len(todo') : todo'[i].op = "err" => i = 1
  <2>1. /\ Len(todo') = 4 /\ todo'[1] = SetErr /\ todo'[2] = IfPost("recv", NULL)
        /\ todo'[3] = IfPost("mbox", NULL) /\ todo'[4] = IfSignal
    BY <1>1
  <2>2. \A i \in 1 .. 4 : i = 1 \/ i = 2 \/ i = 3 \/ i = 4
    OBVIOUS
  <2>3. /\ SetErr.op = "err" /\ IfPost("recv", NULL).op = "ifpost" /\ IfPost("mbox", NULL).op = "ifpost"
        /\ IfSignal.op = "ifsig"
    BY DEF SetErr, IfPost, IfSignal
  <2>4. todo' # << >>
    BY <1>1
  <2> QED BY <2>1, <2>2, <2>3, <2>4 DEF Pending
<1>6. app.len \in Nat /\ app.done \in Nat
  BY AppFields DEF TypeOK
<1>7. ~tcp.cleared => /\ tcp.queued = app.done \/ tcp.queued = app.done + app.len
                      /\ conn.err = "ok" /\ (app.pc = "writeErr" \/ (app.pc = "writeReply" /\ ~Asked))
                            => tcp.queued = app.done + app.len
  BY DEF Before, Exact
<1>8. ~tcp.cleared => app.done <= tcp.queued /\ tcp.queued <= app.done + app.len
  BY <1>6, <1>7
<1>9. Answered' => ~Asked
  BY <1>1 DEF Before, OneAnswer, Answered
<1> QED BY <1>1, <1>3, <1>4, <1>5, <1>7, <1>8, <1>9 DEF After
-----------------------------------------------------------------------------
(* After a reset *)

\* A step of the application that neither awaits nor reads the answer to a write.
LEMMA AfterQuiet ==
    ASSUME After, tcp' = tcp, todo' = todo, conn'.pcb = conn.pcb,
           app'.done = app.done, app'.len = app.len, app'.pc \notin {"writeReply", "writeErr"}
    PROVE  After'
BY DEF After, Pending

LEMMA AfterCrash ==
    ASSUME After, Crash, UNCHANGED <<todo, tcp>>
    PROVE  After'
BY DEF After, Pending, Crash, Answered

LEMMA AfterRecv ==
    ASSUME TypeOK, After, Recv, UNCHANGED <<todo, tcp>>
    PROVE  After'
<1>1. ConnOK /\ AppOK /\ ~conn.pcb
  BY DEF TypeOK, After
<1>2. CASE RecvState
  BY <1>1, <1>2, AfterCrash DEF RecvState
<1>3. CASE RecvBegin
  <2>1. /\ \E pc \in {"idle", "recvState"} : Goes(pc)
        /\ conn' = conn \/ conn' = [conn EXCEPT !.err = "conn"]
    BY <1>3 DEF RecvBegin
  <2>2. /\ app'.pc \in {"idle", "recvState"} /\ app'.done = app.done /\ app'.len = app.len
        /\ conn'.pcb = conn.pcb
    BY <1>1, <2>1, GoesFields, ConnErrSet
  <2> QED BY <2>2, AfterQuiet
<1>4. CASE RecvWait
  <2>1. (\E pc \in {"recvFree"} : Goes(pc)) \/ app' = [app EXCEPT !.pc = "recvTell", !.got = @ + 1]
    BY <1>4 DEF RecvWait
  <2>2. app'.pc \in {"recvFree", "recvTell"} /\ app'.done = app.done /\ app'.len = app.len
    <3>1. CASE Goes("recvFree")
      BY <1>1, <3>1, GoesFields
    <3>2. CASE app' = [app EXCEPT !.pc = "recvTell", !.got = @ + 1]
      BY <1>1, <3>2 DEF AppOK
    <3> QED BY <2>1, <3>1, <3>2
  <2> QED BY <1>4, <2>2, AfterQuiet DEF RecvWait
<1>5. CASE RecvFree \/ RecvNull \/ RecvTell \/ RecvReply
  <2>1. conn' = conn /\ \E pc \in {"recvNull", "idle", "recvReply"} : Goes(pc)
    BY <1>5 DEF RecvFree, RecvNull, RecvTell, Request, RecvReply, Reply
  <2>2. app'.pc \in {"recvNull", "idle", "recvReply"} /\ app'.done = app.done /\ app'.len = app.len
    BY <1>1, <2>1, GoesFields
  <2> QED BY <2>1, <2>2, AfterQuiet
<1> QED BY <1>2, <1>3, <1>4, <1>5 DEF Recv

LEMMA AfterWrite ==
    ASSUME TypeOK, After, Write, UNCHANGED <<todo, tcp>>
    PROVE  After'
<1>1. ConnOK /\ AppOK /\ ~conn.pcb
  BY DEF TypeOK, After
<1>2. CASE WriteBuf \/ WriteSend
  BY <1>1, <1>2, AfterCrash DEF WriteBuf, WriteSend
<1>3. CASE WriteReply
  <2>1. app.pc = "writeReply" /\ Answered /\ conn' = conn /\ Goes("writeErr")
    BY <1>3 DEF WriteReply, At, Reply, Answered
  <2>2. app'.pc = "writeErr" /\ app'.done = app.done /\ app'.len = app.len
    BY <1>1, <2>1, GoesFields
  <2> QED BY <2>1, <2>2 DEF After, Pending
<1>4. CASE WriteErr /\ conn.err = "ok"
  <2>1. /\ app.pc = "writeErr" /\ conn' = conn
        /\ app' = [app EXCEPT !.pc = "writeLoop", !.left = app.left - app.len, !.done = app.done + app.len]
    BY <1>4 DEF WriteErr, At, Written
  <2>2. app'.pc = "writeLoop" /\ app'.done = app.done + app.len /\ app'.len = app.len
    BY <1>1, <2>1 DEF AppOK
  <2>3. ~tcp.cleared => tcp.queued = app'.done
    BY <1>4, <2>1, <2>2 DEF After
  <2>4. app'.done \in Nat /\ app'.len \in Nat
    BY <1>1, <2>2, AppFields
  <2>5. ~tcp.cleared => app'.done <= tcp.queued /\ tcp.queued <= app'.done + app'.len
    BY <2>3, <2>4
  <2> QED BY <2>1, <2>2, <2>5 DEF After
<1>5. CASE \/ WriteRefused \/ WriteBegin \/ WriteLoop \/ WriteFull \/ (WriteErr /\ conn.err # "ok")
           \/ WriteMem \/ WriteAgain \/ WriteFail \/ WriteNull
  <2>1. \E pc \in {"idle", "writeLoop", "writeBuf", "writeSend", "writeFail", "writeMem", "writeAgain",
                   "writeNull"} : Goes(pc)
    BY <1>5 DEF WriteRefused, WriteBegin, WriteLoop, WriteFull, WriteErr, Written, WriteMem, WriteAgain,
                WriteFail, WriteNull
  <2>2. /\ app'.pc \notin {"writeReply", "writeErr"} /\ app'.done = app.done /\ app'.len = app.len
    BY <1>1, <2>1, GoesFields
  <2>3. conn'.pcb = conn.pcb
    BY <1>1, <1>5 DEF WriteRefused, WriteBegin, WriteLoop, WriteFull, WriteErr, WriteMem, WriteAgain,
                      WriteFail, WriteNull, ConnOK
  <2> QED BY <2>2, <2>3, AfterQuiet
<1> QED BY <1>2, <1>3, <1>4, <1>5 DEF Write

LEMMA AfterDelete ==
    ASSUME TypeOK, After, Delete, UNCHANGED <<todo, tcp>>
    PROVE  After'
<1>1. ConnOK /\ AppOK
  BY DEF TypeOK
<1>2. \E pc \in {"delReply", "delRecv", "delFree", "idle"} : Goes(pc)
  BY DEF Delete, DelRequest, Request, DelReply, DelRecv, DelFree
<1>3. /\ app'.pc \notin {"writeReply", "writeErr"} /\ app'.done = app.done /\ app'.len = app.len
  BY <1>1, <1>2, GoesFields
<1>4. conn'.pcb = conn.pcb
  BY <1>1 DEF Delete, DelRequest, DelReply, DelRecv, DelFree, ConnOK
<1> QED BY <1>3, <1>4, AfterQuiet

LEMMA AfterContinue ==
    ASSUME TypeOK, TypeOK', After, Continue
    PROVE  After'
<1>1. todo # << >> /\ UNCHANGED <<tq, tcp, app>>
  BY DEF Continue, TestPtr, PostMbox, SignalSem, SetConnErr, Doing
<1>2. /\ Head(todo) = todo[1] /\ todo[1] \in Act /\ Tail(todo) \in Seq(Act) /\ Len(todo) \in Nat \ {0}
      /\ Len(Tail(todo)) = Len(todo) - 1
      /\ \A i \in 1 .. Len(Tail(todo)) : Tail(todo)[i] = todo[i + 1]
  BY <1>1, TodoFields DEF TypeOK
<1>3. \A i \in 1 .. Len(Tail(todo)) : i + 1 \in 1 .. Len(todo) /\ i + 1 # 1
  BY <1>2
<1>4. \A i \in 1 .. Len(Tail(todo)) : Tail(todo)[i].op # "err"
  BY <1>2, <1>3 DEF After
<1>5. \A i \in 1 .. Len(todo') : todo'[i].op # "err"
  <2>1. CASE TestPtr
    <3>1. todo' = Found(todo[1]) \o Tail(todo)
      BY <1>2, <2>1 DEF TestPtr, Found
    <3>2. Found(todo[1]) = << >> \/ \E a \in Act : Found(todo[1]) = <<a>> /\ a.op # "err"
      <4>1. Post(todo[1].b, todo[1].v) \in Act /\ Signal \in Act
        BY <1>1, TodoFields, Acts DEF TypeOK
      <4>2. Post(todo[1].b, todo[1].v).op = "post" /\ Signal.op = "sig"
        BY DEF Post, Signal
      <4> QED BY <4>1, <4>2 DEF Found
    <3>3. CASE Found(todo[1]) = << >>
      BY <1>2, <1>4, <3>1, <3>3, ConcatEmptySeq
    <3>4. ASSUME NEW a \in Act, Found(todo[1]) = <<a>>, a.op # "err"
          PROVE  \A i \in 1 .. Len(todo') : todo'[i].op # "err"
      <4>1. <<a>> \in Seq(Act) /\ Len(<<a>>) = 1 /\ <<a>>[1] = a
        OBVIOUS
      <4>2. /\ Len(todo') = 1 + Len(Tail(todo))
            /\ \A i \in 1 .. 1 + Len(Tail(todo)) :
                  todo'[i] = IF i <= 1 THEN <<a>>[i] ELSE Tail(todo)[i - 1]
        BY <1>2, <3>1, <3>4, <4>1, ConcatProperties
      <4>3. \A i \in 1 .. 1 + Len(Tail(todo)) : i = 1 \/ (~(i <= 1) /\ i - 1 \in 1 .. Len(Tail(todo)))
        BY <1>2
      <4> QED BY <1>4, <3>4, <4>1, <4>2, <4>3
    <3> QED BY <3>2, <3>3, <3>4
  <2>2. CASE PostMbox \/ SignalSem \/ SetConnErr
    BY <1>4, <2>2 DEF PostMbox, SignalSem, SetConnErr
  <2> QED BY <2>1, <2>2 DEF Continue
<1>6. ~Pending'
  <2> SUFFICES ASSUME Pending'
               PROVE  FALSE
    OBVIOUS
  <2>1. todo' # << >> /\ todo' \in Seq(Act) /\ todo'[1].op = "err"
    BY DEF Pending, TypeOK
  <2>2. 1 \in 1 .. Len(todo')
    BY <2>1
  <2> QED BY <1>5, <2>1, <2>2
<1>7. CASE Pending
  <2>1. conn' = [conn EXCEPT !.err = "rst"]
    BY <1>2, <1>7 DEF Pending, Continue, TestPtr, PostMbox, SignalSem, SetConnErr, Doing
  <2>2. conn'.err = "rst" /\ conn'.pcb = conn.pcb
    BY <2>1, ConnErrSet DEF TypeOK
  <2> QED BY <1>1, <1>5, <1>6, <2>2 DEF After
<1>8. CASE ~Pending
  <2>1. conn' = conn
    BY <1>1, <1>2, <1>8 DEF Pending, Continue, TestPtr, PostMbox, SignalSem, SetConnErr, Doing
  <2> QED BY <1>1, <1>5, <1>6, <1>8, <2>1 DEF After
<1> QED BY <1>7, <1>8

LEMMA AfterMessage ==
    ASSUME TypeOK, After, Message
    PROVE  tcp'.errs = tcp.errs /\ After'
<1>1. todo = << >> /\ ~Pending /\ app' = app /\ box' = box /\ ~conn.pcb /\ TcpOK
  BY DEF Message, OtherInput, ApiMsgInput, Take, Idle, Pending, After, TypeOK
<1>2. /\ conn' = conn
      /\ todo' \in {<< >>, <<Post("mbox", NULL)>>, <<IfPost("mbox", NULL)>>}
      /\ tcp' = tcp \/ tcp' = [tcp EXCEPT !.cb = FALSE]
  <2>1. CASE OtherInput
    BY <1>1, <2>1 DEF OtherInput
  <2>2. CASE ApiMsgInput
    BY <1>1, <2>2 DEF ApiMsgInput, DoRecv, DoWrite, DoDelconn, TcpOK
  <2> QED BY <2>1, <2>2 DEF Message
<1>3. /\ tcp'.errs = tcp.errs /\ tcp'.queued = tcp.queued /\ tcp'.cleared = tcp.cleared /\ ~tcp'.cb
  BY <1>1, <1>2 DEF After, TcpOK
<1>4. ~Pending' /\ \A i \in 1 .. Len(todo') : todo'[i].op # "err"
  <2>1. CASE todo' = << >>
    BY <2>1 DEF Pending
  <2>2. CASE todo' = <<Post("mbox", NULL)>>
    BY <2>2 DEF Pending, Post
  <2>3. CASE todo' = <<IfPost("mbox", NULL)>>
    BY <2>3 DEF Pending, IfPost
  <2> QED BY <1>2, <2>1, <2>2, <2>3
<1> QED BY <1>1, <1>2, <1>3, <1>4 DEF After

LEMMA AfterKeeps ==
    ASSUME TypeOK, TypeOK', After, Next
    PROVE  tcp'.errs = tcp.errs /\ After'
<1>1. CASE Call
  <2>1. /\ app'.pc \in {"recv", "write", "del"} /\ app'.done = app.done /\ app'.len = app.len
        /\ UNCHANGED <<conn, todo, tcp>>
    BY <1>1 DEF Call, TypeOK, AppOK
  <2> QED BY <2>1, AfterQuiet
<1>2. CASE App
  BY <1>2, AfterRecv, AfterWrite, AfterDelete DEF App
<1>3. CASE Continue
  BY <1>3, AfterContinue DEF Continue
<1>4. CASE Message
  BY <1>4, AfterMessage
<1>5. CASE Segment
  BY <1>5 DEF Segment, After, Pending, Answered
<1>6. ~RecvTcp /\ ~RecvFin /\ ~SentTcp /\ ~PollTcp /\ ~ErrTcp
  BY DEF RecvTcp, RecvFin, SentTcp, PollTcp, ErrTcp, After
<1> QED BY <1>1, <1>2, <1>3, <1>4, <1>5, <1>6 DEF Next, Transport
-----------------------------------------------------------------------------
(* The invariant *)

LEMMA BeforeKeeps ==
    ASSUME TypeOK, TypeOK', Before, tcp.errs = 0, Next
    PROVE  \/ bad' = "" /\ tcp'.errs = 0 /\ Before'
           \/ bad' = "" /\ tcp'.errs # 0 /\ After'
           \/ bad' = "lost" /\ tcp'.errs = 0 /\ (~tcp'.cleared => tcp'.queued = app'.done)
           \/ bad' = "assert" /\ tcp'.errs = 0 /\ tcp'.fins \notin {0, 1} /\ Exact'
<1>1. CASE Call
  BY <1>1, CallKeeps DEF Call, At
<1>2. CASE App
  <2>1. tcp' = tcp /\ todo' = todo
    BY <1>2 DEF App
  <2>2. CASE RecvBegin \/ RecvState \/ RecvWait \/ RecvFree \/ RecvNull
    BY <2>1, <2>2, RecvKeeps
  <2>3. CASE \/ WriteRefused \/ WriteBegin \/ WriteLoop \/ WriteBuf \/ WriteFull \/ WriteErr \/ WriteMem
             \/ WriteAgain \/ WriteFail \/ WriteNull
    BY <2>1, <2>3, WriteKeeps
  <2>4. CASE RecvTell \/ WriteSend \/ DelRequest
    BY <2>1, <2>4, AskKeeps
  <2>5. CASE RecvReply \/ WriteReply
    BY <2>1, <2>5, ReplyKeeps
  <2>6. CASE DelReply \/ DelRecv \/ DelFree
    BY <2>1, <2>6, DeleteKeeps
  <2> QED BY <1>2, <2>2, <2>3, <2>4, <2>5, <2>6 DEF App, Recv, Write, Delete
<1>3. CASE Continue
  BY <1>3, TestPtrKeeps, PostMboxKeeps, SignalSemKeeps, NoConnErr DEF Continue
<1>4. CASE Message
  BY <1>4, OtherKeeps, ApiMsgKeeps DEF Message, OtherInput
<1>5. CASE SentTcp \/ PollTcp
  BY <1>5, SignalsKeep
<1>6. CASE RecvTcp \/ RecvFin
  <2>1. RecvTcp => tcp.fins = 0
    BY DEF RecvTcp
  <2> QED BY <1>6, <2>1, RecvTcpKeeps, RecvFinKeeps
<1>7. CASE ErrTcp
  BY <1>7, ResetComes
<1>8. CASE Segment
  BY <1>8, OtherKeeps DEF Segment
<1> QED BY <1>1, <1>2, <1>3, <1>4, <1>5, <1>6, <1>7, <1>8 DEF Next, Transport

LEMMA InitInv ==
    ASSUME Init
    PROVE  Inv
<1>1. TypeOK
  <2>1. << >> \in Seq(Bits) /\ << >> \in Seq(Msg) /\ << >> \in Seq(Act)
    BY EmptySeq
  <2>2. BoxOK
    BY <2>1 DEF Init, BoxOK, Box
  <2>3. ConnOK /\ SemOK /\ BadOK
    BY DEF Init, ConnOK, SemOK, BadOK
  <2>4. TcpOK
    <3>1. TCP_SND_BUF \in Nat
      BY NetconnAssumption
    <3>2. tcp = [cb |-> TRUE, sndbuf |-> TCP_SND_BUF, queued |-> 0, out |-> 0, in |-> 0, unread |-> 0,
                 fins |-> 0, errs |-> 0, cleared |-> FALSE]
      BY DEF Init
    <3> QED BY <3>1, <3>2 DEF TcpOK
  <2>5. AppOK
    <3>1. app = [pc |-> "idle", left |-> 0, len |-> 0, calls |-> 0, done |-> 0, got |-> 0]
      BY DEF Init
    <3> QED BY <3>1 DEF AppOK, Pc
  <2> QED BY <2>1, <2>2, <2>3, <2>4, <2>5 DEF Init, TypeOK
<1>2. /\ app.pc = "idle" /\ app.done = 0 /\ conn.live /\ conn.pcb /\ conn.err = "ok"
      /\ tcp.queued = 0 /\ tcp.errs = 0 /\ bad = "" /\ tq = << >> /\ todo = << >>
      /\ sem.ptr /\ sem.live
  BY DEF Init
<1>3. \A b \in {"recv", "mbox"} : box[b].ptr /\ box[b].live /\ box[b].q = << >>
  BY DEF Init
<1>4. ~Asked /\ Requests
  <2>0. Len(tq) = 0
    BY <1>2, EmptySeq
  <2>1. \A i \in 1 .. Len(tq) : FALSE
    BY <2>0
  <2> QED BY <2>1 DEF Asked, Requests
<1>5. ~Answering /\ ~PostsRecv /\ OneHandler
  BY <1>2 DEF Answering, PostsRecv, OneHandler
<1>6. ~Answered /\ Len(box["mbox"].q) <= 1
  BY <1>3 DEF Answered
<1>7. OneAnswer /\ Closing
  BY <1>2, <1>4, <1>5, <1>6 DEF OneAnswer, Closing, Gone
<1>8. Data(box["recv"].q)
  BY <1>3 DEF Data
<1>9. Exists
  BY <1>2, <1>3, <1>5, <1>8 DEF Exists
<1>10. Errors /\ Exact
  BY <1>2 DEF Errors, Exact
<1>11. CallsSound
  <2>1. SafeUnlessReset
    BY <1>2 DEF SafeUnlessReset
  <2>2. tcp.queued = 0 /\ app.done = 0 /\ tcp.errs = 0 /\ app.pc = "idle"
    BY <1>2
  <2>3. ~(tcp.errs > 0) /\ app.done <= tcp.queued /\ tcp.queued <= app.done + 0
    BY <2>2
  <2>4. WriteExact
    BY <2>2, <2>3 DEF WriteExact
  <2> QED BY <2>1, <2>4 DEF CallsSound
<1> QED BY <1>1, <1>2, <1>4, <1>5, <1>7, <1>9, <1>10, <1>11 DEF Inv, Before

LEMMA NextInv ==
    ASSUME Inv, Next
    PROVE  Inv'
<1>1. bad = "" /\ TypeOK
  BY DEF Inv, Next, Call, App, Recv, RecvBegin, RecvState, RecvWait, RecvFree, RecvNull, RecvTell, RecvReply,
         Write, WriteRefused, WriteBegin, WriteLoop, WriteBuf, WriteFull, WriteSend, WriteReply, WriteErr,
         WriteMem, WriteAgain, WriteFail, WriteNull, Delete, DelRequest, DelReply, DelRecv, DelFree, At,
         Transport, Continue, TestPtr, PostMbox, SignalSem, SetConnErr, Doing, Message, OtherInput,
         ApiMsgInput, Take, SentTcp, PollTcp, RecvTcp, RecvFin, ErrTcp, Segment, Idle
<1>2. TypeOK'
  BY <1>1, TypeInvariant
<1>0. app'.len \in Nat /\ app'.done \in Nat /\ tcp'.errs \in Nat /\ tcp'.fins \in Nat
  BY <1>2 DEF TypeOK, AppOK, TcpOK
<1>3. CASE tcp.errs = 0
  <2>1. CASE bad' = "" /\ tcp'.errs = 0 /\ Before'
    <3>1. Exact'
      BY <2>1 DEF Before
    <3>2. WriteExact'
      BY <1>0, <3>1 DEF Exact, WriteExact
    <3> QED BY <1>2, <2>1, <3>2 DEF Inv, CallsSound, SafeUnlessReset
  <2>2. CASE bad' = "" /\ tcp'.errs # 0 /\ After'
    <3>0. tcp'.errs > 0
      <4>1. tcp'.errs \in Nat /\ tcp'.errs # 0
        BY <1>0, <2>2
      <4> QED BY <4>1
    <3>1. WriteExact'
      BY <2>2, <3>0 DEF After, WriteExact
    <3> QED BY <1>2, <2>2, <3>1 DEF Inv, CallsSound, SafeUnlessReset
  <2>3. CASE bad' = "lost" /\ tcp'.errs = 0 /\ (~tcp'.cleared => tcp'.queued = app'.done)
    <3>1. WriteExact'
      BY <1>0, <2>3 DEF WriteExact
    <3> QED BY <1>2, <2>3, <3>1 DEF Inv, CallsSound, SafeUnlessReset
  <2>4. CASE bad' = "assert" /\ tcp'.errs = 0 /\ tcp'.fins \notin {0, 1} /\ Exact'
    <3>1. WriteExact'
      BY <1>0, <2>4 DEF Exact, WriteExact
    <3>2. ~(tcp'.fins <= 1)
      BY <1>0, <2>4
    <3> QED BY <1>2, <2>4, <3>1, <3>2 DEF Inv, CallsSound, SafeUnlessReset
  <2> QED BY <1>1, <1>2, <1>3, <2>1, <2>2, <2>3, <2>4, BeforeKeeps DEF Inv
<1>4. CASE tcp.errs # 0
  <2>1. tcp'.errs # 0 /\ After'
    BY <1>1, <1>2, <1>4, AfterKeeps DEF Inv
  <2>0. tcp'.errs > 0
    BY <1>0, <2>1
  <2>2. WriteExact'
    BY <2>0, <2>1 DEF After, WriteExact
  <2> QED BY <1>2, <2>1, <2>2 DEF Inv, CallsSound, SafeUnlessReset
<1> QED BY <1>3, <1>4

LEMMA StutterInv ==
    ASSUME Inv, UNCHANGED vars
    PROVE  Inv'
<1>1. /\ conn' = conn /\ box' = box /\ sem' = sem /\ tq' = tq /\ todo' = todo
      /\ tcp' = tcp /\ app' = app /\ bad' = bad
  BY DEF vars
<1>2. TypeOK'
  <2>1. TypeOK
    BY DEF Inv
  <2> QED BY <1>1, <2>1, SameTypes DEF TypeOK
<1>3. CallsSound'
  BY <1>1 DEF Inv, CallsSound, SafeUnlessReset, WriteExact
<1>4. Before => Before'
  <2> SUFFICES ASSUME Before
               PROVE  Before'
    OBVIOUS
  <2>1. Requests' /\ (Asked' => Asked) /\ (Asked => Asked')
    BY <1>1, RequestsSame, AskedSame DEF Before
  <2>2. OneHandler' /\ (Answering' => Answering) /\ (Answering => Answering')
    BY <1>1 DEF Before, OneHandler, Answering
  <2>3. OneAnswer' /\ Closing'
    BY <1>1, <2>1, <2>2 DEF Before, OneAnswer, Closing, Answered, Waiting, Gone
  <2>4. Exists' /\ Errors' /\ Exact'
    BY <1>1, <2>1 DEF Before, Exists, Errors, Exact, PostsRecv, Gone
  <2> QED BY <2>1, <2>2, <2>3, <2>4 DEF Before
<1>5. After => After'
  BY <1>1 DEF After, Pending, Answered
<1> QED BY <1>1, <1>2, <1>3, <1>4, <1>5 DEF Inv

\* CallsSound, for send buffers, pools of messages and numbers of calls and segments of every
\* size: without a reset or time-out no call (api_lib.c) follows a null control block, and no
\* handler of the transport thread (api_msg.c) touches what a call has freed unless tcp_input
\* hands up the end of the stream again; what netconn_write reports is what tcp_write queued.
THEOREM CallsAreSound == Spec => []CallsSound
<1>1. Inv /\ [Next]_vars => Inv'
  BY NextInv, StutterInv
<1>2. Inv => CallsSound
  BY DEF Inv
<1> QED BY InitInv, <1>1, <1>2, PTL DEF Spec
-----------------------------------------------------------------------------
(* Mailboxes and timers                                                    *)

Timer == mailbox!Timers
Entry == [time : Int, h : Timer]

LEMMA Constants ==
    /\ "reader" \notin Senders /\ SYS_MBOX_SIZE \in Nat \ {0}
    /\ Periods \in Seq(Nat) /\ MaxWait \in Nat
    /\ Timer = 1 .. Len(Periods) /\ \A h \in Timer : Periods[h] \in Nat
  BY TransportAssumption DEF mailbox!MailboxAssumption, Timer, mailbox!Timers

LEMMA EntryFields == \A e \in Entry : e.time \in Int /\ e.h \in Timer
  BY DEF Entry
-----------------------------------------------------------------------------
(* Times of a delta list                                                   *)

Abs(s, i) == mailbox!Abs(s, i)

\* The time of an entry is that of the one before and its own difference.
LEMMA AbsFacts ==
    ASSUME NEW s \in Seq(Entry)
    PROVE  /\ Abs(s, 0) = 0
           /\ \A i \in 0 .. Len(s) : Abs(s, i) \in Int
           /\ \A i \in 1 .. Len(s) : Abs(s, i) = Abs(s, i - 1) + s[i].time
<1> DEFINE sub(i) == SubSeq(s, 1, i)
           times(i) == mailbox!Times(sub(i))
<1>1. \A t : mailbox!SumOf(t) = SumOf(t)
  BY DEF mailbox!SumOf, SumOf
<1>2. \A i \in 1 .. Len(s) : s[i] \in Entry
  OBVIOUS
<1>3. \A i \in 1 .. Len(s) : s[i].time \in Int
  BY <1>2, EntryFields
<1>4. Len(s) \in Nat /\ \A i \in 0 .. Len(s) : Len(sub(i)) = i /\ \A j \in 1 .. i : sub(i)[j] = s[j]
  OBVIOUS
<1>5. \A i \in 0 .. Len(s) : times(i) = [j \in 1 .. i |-> s[j].time]
  <2> TAKE i \in 0 .. Len(s)
  <2>1. sub(i) \in Seq(Entry)
    BY <1>2
  <2>2. DOMAIN sub(i) = 1 .. i
    BY <1>4, <2>1
  <2> HIDE DEF sub
  <2> QED BY <1>4, <2>2 DEF mailbox!Times
<1>6. \A i \in 0 .. Len(s) : times(i) \in Seq(Int) /\ Len(times(i)) = i
  <2> TAKE i \in 0 .. Len(s)
  <2>1. [j \in 1 .. i |-> s[j].time] \in Seq(Int) /\ Len([j \in 1 .. i |-> s[j].time]) = i
    BY <1>3
  <2> QED BY <1>5, <2>1
<1>7. \A i \in 0 .. Len(s) : Abs(s, i) = SumOf(times(i))
  BY <1>1 DEF Abs, mailbox!Abs
<1>8. \A i \in 1 .. Len(s) : times(i) = Append(times(i - 1), s[i].time)
  <2> TAKE i \in 1 .. Len(s)
  <2>1. i - 1 \in 0 .. Len(s) /\ i \in 0 .. Len(s)
    BY <1>4
  <2>2. times(i) = [j \in 1 .. i |-> s[j].time] /\ times(i - 1) = [j \in 1 .. i - 1 |-> s[j].time]
    BY <1>5, <2>1
  <2>3. [j \in 1 .. i |-> s[j].time] = Append([j \in 1 .. i - 1 |-> s[j].time], s[i].time)
    BY <1>4
  <2> QED BY <2>2, <2>3
<1> HIDE DEF times
<1>9. Abs(s, 0) = 0
  <2>1. times(0) = << >>
    BY <1>4, <1>6
  <2> QED BY <1>4, <1>7, <2>1, SumEmpty
<1>10. \A i \in 0 .. Len(s) : Abs(s, i) \in Int
  BY <1>6, <1>7, SumType
<1>11. ASSUME NEW i \in 1 .. Len(s) PROVE Abs(s, i) = Abs(s, i - 1) + s[i].time
  <2>1. i - 1 \in 0 .. Len(s) /\ i \in 0 .. Len(s)
    BY <1>4
  <2>2. SumOf(Append(times(i - 1), s[i].time)) = SumOf(times(i - 1)) + s[i].time
    BY <1>3, <1>6, <2>1, SumAppend
  <2> QED BY <1>7, <1>8, <2>1, <2>2
<1> QED BY <1>9, <1>10, <1>11

\* The n entries behind the first a of s have the differences of those behind the first b of t.
Alike(s, a, t, b, n) ==
    /\ a \in Nat /\ b \in Nat /\ n \in Nat /\ a + n <= Len(s) /\ b + n <= Len(t)
    /\ \A i \in 1 .. n : s[a + i].time = t[b + i].time

\* Two lists that go on with the same differences stay as far apart as they are.
LEMMA SameSteps ==
    ASSUME NEW s \in Seq(Entry), NEW t \in Seq(Entry), NEW a, NEW b, NEW n, Alike(s, a, t, b, n)
    PROVE  \A i \in 0 .. n : Abs(s, a + i) = Abs(t, b + i) + (Abs(s, a) - Abs(t, b))
<1> USE DEF Alike
<1> DEFINE c == Abs(s, a) - Abs(t, b)
           T == {m \in Nat : m <= n => Abs(s, a + m) = Abs(t, b + m) + c}
<1>0. Abs(s, a) \in Int /\ Abs(t, b) \in Int /\ a + 0 = a /\ b + 0 = b
  <2>1. a \in 0 .. Len(s) /\ b \in 0 .. Len(t)
    OBVIOUS
  <2> QED BY <2>1, AbsFacts
<1>1. 0 \in T
  BY <1>0
<1>a. c \in Int
  BY <1>0
<1> HIDE DEF c
<1>2. ASSUME NEW m \in T, m + 1 <= n PROVE Abs(s, a + (m + 1)) = Abs(t, b + (m + 1)) + c
  <2>1. /\ a + (m + 1) \in 1 .. Len(s) /\ b + (m + 1) \in 1 .. Len(t)
        /\ (a + (m + 1)) - 1 = a + m /\ (b + (m + 1)) - 1 = b + m
        /\ a + m \in 0 .. Len(s) /\ b + m \in 0 .. Len(t) /\ m + 1 \in 1 .. n
    BY <1>2
  <2>2. Abs(s, a + (m + 1)) = Abs(s, a + m) + s[a + (m + 1)].time
    BY <2>1, AbsFacts
  <2>3. Abs(t, b + (m + 1)) = Abs(t, b + m) + t[b + (m + 1)].time
    BY <2>1, AbsFacts
  <2>4. Abs(s, a + m) \in Int /\ Abs(t, b + m) \in Int
    BY <2>1, AbsFacts
  <2>5. s[a + (m + 1)].time = t[b + (m + 1)].time /\ t[b + (m + 1)] \in Entry
    <3>1. m + 1 \in 1 .. n
      BY <2>1
    <3>2. s[a + (m + 1)].time = t[b + (m + 1)].time
      BY <3>1, Zenon
    <3>3. \A i \in 1 .. Len(t) : t[i] \in Entry
      OBVIOUS
    <3> QED BY <2>1, <3>2, <3>3
  <2>6. Abs(s, a + m) = Abs(t, b + m) + c
    BY <1>2
  <2>7. t[b + (m + 1)].time \in Int
    BY <2>5, EntryFields
  <2> QED BY <1>a, <2>2, <2>3, <2>4, <2>5, <2>6, <2>7
<1>3. \A m \in T : m + 1 \in T
  BY <1>2
<1>4. T = Nat
  <2> HIDE DEF T
  <2> QED BY <1>1, <1>3, Induction DEF T
<1> SUFFICES ASSUME NEW i \in 0 .. n PROVE Abs(s, a + i) = Abs(t, b + i) + c
  BY DEF c
<1>5. i \in T /\ i <= n
  <2> HIDE DEF T
  <2> QED BY <1>4
<1> QED BY <1>5

\* sys_timeout: the new entry comes behind the first k, and the next one gives up what the
\* new one waits.
Inserted(s, m, h, r, k) ==
    LET t == m - Abs(s, k)
    IN  /\ Len(r) = Len(s) + 1
        /\ \A i \in 1 .. k : r[i] = s[i]
        /\ r[k + 1].time = t /\ r[k + 1].h = h
        /\ k < Len(s) => r[k + 2].time = s[k + 1].time - t /\ r[k + 2].h = s[k + 1].h
        /\ \A i \in k + 2 .. Len(s) : r[i + 1] = s[i]

LEMMA SysTimeoutInserts ==
    ASSUME NEW s \in Seq(Entry), NEW m \in Int, NEW h \in Timer
    PROVE  LET r == mailbox!SysTimeout(s, m, h)
           IN  r \in Seq(Entry) /\ \E k \in 0 .. Len(s) : Inserted(s, m, h, r, k)
<1> DEFINE n == Len(s)
           k == mailbox!Ahead(s, m)
           t == m - Abs(s, k)
           e == [time |-> t, h |-> h]
           A == SubSeq(s, 1, k)
           rest == SubSeq(s, k + 1, Len(s))
           f == [Head(rest) EXCEPT !.time = @ - t]
           B == IF rest = << >> THEN << >> ELSE <<f>> \o Tail(rest)
           r == A \o <<e>> \o B
<1>0. mailbox!SysTimeout(s, m, h) = r
  BY DEF mailbox!SysTimeout, Abs
<1>1. n \in Nat /\ k \in 0 .. n
  <2> DEFINE S == {i \in DOMAIN s : mailbox!Abs(s, i) <= m}
  <2>a. DOMAIN s = 1 .. n /\ n \in Nat
    OBVIOUS
  <2>b. \A X : mailbox!Cardinality(X) = Cardinality(X)
    BY DEF mailbox!Cardinality, Cardinality
  <2>c. k = Cardinality(S)
    BY <2>b DEF mailbox!Ahead
  <2>1. S \subseteq 1 .. n /\ k = Cardinality(S) /\ n \in Nat
    BY <2>a, <2>c
  <2> HIDE DEF S, k, n
  <2>2. IsFiniteSet(1 .. n) /\ Cardinality(1 .. n) = n
    <3>1. 1 \in Int /\ n \in Int
      BY <2>1
    <3>2. IsFiniteSet(1 .. n) /\ Cardinality(1 .. n) = IF 1 > n THEN 0 ELSE n - 1 + 1
      BY <3>1, FS_Interval
    <3> QED BY <2>1, <3>2
  <2>3. IsFiniteSet(S) /\ Cardinality(S) <= Cardinality(1 .. n)
    BY <2>1, <2>2, FS_Subset
  <2>4. Cardinality(S) \in Nat
    BY <2>3, FS_CardinalityType
  <2> QED BY <2>1, <2>2, <2>3, <2>4
<1>2. \A i \in 1 .. n : s[i] \in Entry
  OBVIOUS
<1>3. t \in Int
  <2> HIDE DEF k
  <2> QED BY <1>1, AbsFacts
<1>4. e \in Entry
  BY <1>3 DEF Entry
<1> HIDE DEF k, t
<1>5. A \in Seq(Entry) /\ Len(A) = k /\ \A i \in 1 .. k : A[i] = s[i]
  BY <1>1
<1>6. rest \in Seq(Entry) /\ Len(rest) = n - k /\ \A i \in 1 .. n - k : rest[i] = s[k + i]
  <2>1. \A a \in 1 .. n + 1 : SubSeq(s, a, n) \in Seq(Entry) /\ Len(SubSeq(s, a, n)) = n - a + 1
                              /\ \A i \in 1 .. n - a + 1 : SubSeq(s, a, n)[i] = s[a + i - 1]
    BY <1>2
  <2>2. k + 1 \in 1 .. n + 1 /\ n - (k + 1) + 1 = n - k /\ \A i \in 1 .. n - k : (k + 1) + i - 1 = k + i
    BY <1>1
  <2> QED BY <2>1, <2>2
<1> HIDE DEF A, rest, e, n
<1>7. /\ B \in Seq(Entry) /\ Len(B) = n - k
      /\ k < n => B[1].time = s[k + 1].time - t /\ B[1].h = s[k + 1].h
      /\ \A i \in 2 .. n - k : B[i] = s[k + i]
  <2>1. CASE k = n
    <3>1. rest = << >>
      BY <1>1, <1>6, <2>1
    <3>2. B = << >> /\ << >> \in Seq(Entry) /\ Len(<< >>) = 0
      BY <3>1
    <3> QED BY <1>1, <2>1, <3>2
  <2>2. CASE k < n
    <3>1. rest # << >> /\ Head(rest) = rest[1] /\ 1 \in 1 .. n - k
      BY <1>1, <1>6, <2>2
    <3>2. rest[1] = s[k + 1] /\ s[k + 1] \in Entry
      BY <1>1, <1>2, <1>6, <2>2, <3>1
    <3>3. /\ f \in Entry /\ f.time = s[k + 1].time - t /\ f.h = s[k + 1].h
      BY <1>3, <3>1, <3>2 DEF Entry
    <3>4. /\ Tail(rest) \in Seq(Entry) /\ Len(Tail(rest)) = Len(rest) - 1
          /\ \A i \in 1 .. Len(rest) - 1 : Tail(rest)[i] = rest[i + 1]
      BY <1>6, <3>1
    <3> DEFINE T == Tail(rest)
    <3>5. B = <<f>> \o T
      BY <3>1
    <3> HIDE DEF f, T, B
    <3>6. /\ T \in Seq(Entry) /\ Len(T) = n - k - 1 /\ n - k - 1 \in Nat
          /\ \A i \in 1 .. n - k - 1 : T[i] = s[k + (i + 1)]
      <4>1. \A i \in 1 .. n - k - 1 : i + 1 \in 1 .. n - k
        BY <1>1
      <4> QED BY <1>1, <1>6, <2>2, <3>4, <4>1 DEF T
    <3>7. /\ <<f>> \o T \in Seq(Entry) /\ Len(<<f>> \o T) = Len(T) + 1
          /\ (<<f>> \o T)[1] = f /\ \A i \in 2 .. Len(T) + 1 : (<<f>> \o T)[i] = T[i - 1]
      BY <3>3, <3>6
    <3>8. ASSUME NEW i \in 2 .. n - k PROVE B[i] = s[k + i]
      <4>1. i - 1 \in 1 .. n - k - 1 /\ (i - 1) + 1 = i
        BY <1>1
      <4>2. T[i - 1] = s[k + i]
        BY <3>6, <4>1
      <4> QED BY <1>1, <3>5, <3>6, <3>7, <4>2
    <3> QED BY <1>1, <2>2, <3>3, <3>5, <3>6, <3>7, <3>8
  <2> QED BY <1>1, <2>1, <2>2
<1> HIDE DEF B
<1>8. /\ A \o <<e>> \in Seq(Entry) /\ Len(A \o <<e>>) = k + 1
      /\ (A \o <<e>>)[k + 1] = e /\ \A i \in 1 .. k : (A \o <<e>>)[i] = A[i]
  <2>1. \A X \in Seq(Entry) : /\ X \o <<e>> \in Seq(Entry) /\ Len(X \o <<e>>) = Len(X) + 1
      /\ (X \o <<e>>)[Len(X) + 1] = e /\ \A i \in 1 .. Len(X) : (X \o <<e>>)[i] = X[i]
    BY <1>4
  <2> QED BY <1>5, <2>1
<1>9. \A X, Y \in Seq(Entry) : /\ X \o Y \in Seq(Entry) /\ Len(X \o Y) = Len(X) + Len(Y)
                               /\ \A i \in 1 .. Len(X) : (X \o Y)[i] = X[i]
                               /\ \A i \in 1 .. Len(Y) : (X \o Y)[Len(X) + i] = Y[i]
  OBVIOUS
<1> DEFINE C == A \o <<e>>
<1>10. r = C \o B
  OBVIOUS
<1> HIDE DEF C
<1>11. /\ r \in Seq(Entry) /\ Len(r) = k + 1 + (n - k)
       /\ \A i \in 1 .. k + 1 : r[i] = C[i]
       /\ \A i \in 1 .. n - k : r[k + 1 + i] = B[i]
  <2>1. C \in Seq(Entry) /\ Len(C) = k + 1 /\ B \in Seq(Entry) /\ Len(B) = n - k
    BY <1>7, <1>8 DEF C
  <2>2. /\ C \o B \in Seq(Entry) /\ Len(C \o B) = Len(C) + Len(B)
        /\ \A i \in 1 .. Len(C) : (C \o B)[i] = C[i]
        /\ \A i \in 1 .. Len(B) : (C \o B)[Len(C) + i] = B[i]
    BY <1>9, <2>1, Zenon
  <2> HIDE DEF r
  <2> QED BY <1>10, <2>1, <2>2
<1> HIDE DEF r
<1>12. Len(r) = n + 1 /\ \A i \in 1 .. k : r[i] = s[i]
  BY <1>1, <1>5, <1>8, <1>11 DEF C
<1>13. r[k + 1].time = t /\ r[k + 1].h = h
  <2>1. r[k + 1] = e
    BY <1>1, <1>8, <1>11 DEF C
  <2> QED BY <2>1 DEF e
<1>14. k < n => r[k + 2].time = s[k + 1].time - t /\ r[k + 2].h = s[k + 1].h
  <2> SUFFICES ASSUME k < n PROVE r[k + 2].time = s[k + 1].time - t /\ r[k + 2].h = s[k + 1].h
    OBVIOUS
  <2>1. 1 \in 1 .. n - k /\ k + 1 + 1 = k + 2
    BY <1>1
  <2>2. r[k + 2] = B[1]
    BY <1>11, <2>1
  <2> QED BY <1>7, <2>2
<1>15. ASSUME NEW i \in k + 2 .. n PROVE r[i + 1] = s[i]
  <2>1. i - k \in 2 .. n - k /\ k + 1 + (i - k) = i + 1 /\ k + (i - k) = i
    BY <1>1
  <2>2. r[k + 1 + (i - k)] = B[i - k] /\ B[i - k] = s[k + (i - k)]
    BY <1>7, <1>11, <2>1
  <2> QED BY <2>1, <2>2
<1>16. Inserted(s, m, h, r, k)
  BY <1>12, <1>13, <1>14, <1>15 DEF Inserted, n, t
<1> QED BY <1>0, <1>1, <1>11, <1>16 DEF n

\* What the entries of the longer list are: those of the shorter one, which keep their
\* times, and the new one.
LEMMA InsertedTimes ==
    ASSUME NEW s \in Seq(Entry), NEW r \in Seq(Entry), NEW m \in Int, NEW h \in Timer,
           NEW k \in 0 .. Len(s), Inserted(s, m, h, r, k)
    PROVE  /\ \A i \in 1 .. k : r[i].h = s[i].h /\ Abs(r, i) = Abs(s, i)
           /\ r[k + 1].h = h /\ Abs(r, k + 1) = m
           /\ \A i \in k + 1 .. Len(s) : r[i + 1].h = s[i].h /\ Abs(r, i + 1) = Abs(s, i)
<1>1. /\ Len(s) \in Nat /\ k \in Nat /\ k <= Len(s) /\ Len(r) = Len(s) + 1
      /\ \A i \in 1 .. k : r[i] = s[i]
      /\ r[k + 1].time = m - Abs(s, k) /\ r[k + 1].h = h
      /\ k < Len(s) => r[k + 2].time = s[k + 1].time - (m - Abs(s, k)) /\ r[k + 2].h = s[k + 1].h
      /\ \A i \in k + 2 .. Len(s) : r[i + 1] = s[i]
  <2>1. Len(s) \in Nat
    OBVIOUS
  <2> QED BY <2>1 DEF Inserted
<1>2. Abs(s, 0) = 0 /\ Abs(r, 0) = 0 /\ Abs(s, k) \in Int
  BY AbsFacts
<1>3. \A i \in 0 .. k : Abs(r, 0 + i) = Abs(s, 0 + i) + (Abs(r, 0) - Abs(s, 0))
  <2>1. /\ 0 \in Nat /\ 0 + k <= Len(r) /\ 0 + k <= Len(s)
        /\ \A i \in 1 .. k : r[0 + i].time = s[0 + i].time
    BY <1>1, <1>2
  <2>2. Alike(r, 0, s, 0, k)
    BY <1>1, <2>1 DEF Alike
  <2> QED BY <2>2, SameSteps
<1>4. \A i \in 0 .. k : Abs(r, i) = Abs(s, i)
  <2> TAKE i \in 0 .. k
  <2>1. 0 + i = i /\ i \in 0 .. Len(s)
    BY <1>1
  <2>2. Abs(s, i) \in Int
    BY <2>1, AbsFacts
  <2>3. Abs(r, 0 + i) = Abs(s, 0 + i) + (Abs(r, 0) - Abs(s, 0))
    BY <1>3
  <2> QED BY <1>2, <2>1, <2>2, <2>3
<1>5. Abs(r, k + 1) = m
  <2>1. k + 1 \in 1 .. Len(r) /\ (k + 1) - 1 = k /\ k \in 0 .. k
    BY <1>1
  <2>2. Abs(r, k + 1) = Abs(r, k) + r[k + 1].time
    BY <2>1, AbsFacts
  <2> QED BY <1>1, <1>2, <1>4, <2>1, <2>2
<1>6. ASSUME NEW i \in k + 1 .. Len(s) PROVE r[i + 1].h = s[i].h /\ Abs(r, i + 1) = Abs(s, i)
  <2>1. k < Len(s)
    BY <1>1
  <2>2. Abs(r, k + 2) = Abs(s, k + 1)
    <3>1. /\ k + 2 \in 1 .. Len(r) /\ (k + 2) - 1 = k + 1
          /\ k + 1 \in 1 .. Len(s) /\ (k + 1) - 1 = k
      BY <1>1, <2>1
    <3>2. Abs(r, k + 2) = Abs(r, k + 1) + r[k + 2].time
      BY <3>1, AbsFacts
    <3>3. Abs(s, k + 1) = Abs(s, k) + s[k + 1].time
      BY <3>1, AbsFacts
    <3>4. s[k + 1].time \in Int
      <4>1. \A j \in 1 .. Len(s) : s[j] \in Entry
        OBVIOUS
      <4> QED BY <3>1, <4>1, EntryFields
    <3> QED BY <1>1, <1>2, <1>5, <2>1, <3>2, <3>3, <3>4
  <2> DEFINE n == Len(s) - (k + 1)
  <2>3. \A j \in 0 .. n : Abs(r, (k + 2) + j) = Abs(s, (k + 1) + j) + (Abs(r, k + 2) - Abs(s, k + 1))
    <3>1. \A j \in 1 .. n : r[(k + 2) + j].time = s[(k + 1) + j].time
      <4> TAKE j \in 1 .. n
      <4>1. (k + 1) + j \in k + 2 .. Len(s) /\ ((k + 1) + j) + 1 = (k + 2) + j
        BY <1>1
      <4> QED BY <1>1, <4>1
    <3>3. /\ k + 2 \in Nat /\ k + 1 \in Nat /\ n \in Nat /\ (k + 2) + n <= Len(r) /\ (k + 1) + n <= Len(s)
      BY <1>1, <2>1, SMTT(60)
    <3> DEFINE a == k + 2
               b == k + 1
    <3>4. \A j \in 1 .. n : r[a + j].time = s[b + j].time
      BY <3>1
    <3>5. a \in Nat /\ b \in Nat /\ n \in Nat /\ a + n <= Len(r) /\ b + n <= Len(s)
      BY <3>3
    <3> HIDE DEF n, a, b
    <3>6. Alike(r, a, s, b, n)
      BY <3>4, <3>5 DEF Alike
    <3>7. \A j \in 0 .. n : Abs(r, a + j) = Abs(s, b + j) + (Abs(r, a) - Abs(s, b))
      BY <3>6, SameSteps
    <3> QED BY <3>7 DEF a, b
  <2>4. i - (k + 1) \in 0 .. n /\ (k + 2) + (i - (k + 1)) = i + 1 /\ (k + 1) + (i - (k + 1)) = i
        /\ i \in 0 .. Len(s) /\ k + 1 \in 0 .. Len(s)
    BY <1>1, <2>1
  <2> HIDE DEF n
  <2>5. Abs(r, i + 1) = Abs(s, i)
    <3>1. Abs(r, i + 1) = Abs(s, i) + (Abs(r, k + 2) - Abs(s, k + 1))
      BY <2>3, <2>4
    <3>2. Abs(s, i) \in Int /\ Abs(s, k + 1) \in Int
      BY <2>4, AbsFacts
    <3> QED BY <2>2, <3>1, <3>2
  <2>6. r[i + 1].h = s[i].h
    <3>1. CASE i = k + 1
      <4>1. i + 1 = k + 2
        BY <1>1, <3>1
      <4> QED BY <1>1, <2>1, <3>1, <4>1
    <3>2. CASE i # k + 1
      <4>1. i \in k + 2 .. Len(s)
        BY <1>1, <3>2
      <4> QED BY <1>1, <4>1
    <3> QED BY <3>1, <3>2
  <2> QED BY <2>5, <2>6
<1>7. \A i \in 1 .. k : r[i].h = s[i].h
  BY <1>1
<1> QED BY <1>1, <1>4, <1>5, <1>6, <1>7

\* Each timer of H is in list s, once, and no other.
Listed(s, H) ==
    /\ \A i \in 1 .. Len(s) : s[i].h \in H
    /\ \A u \in H : \E i \in 1 .. Len(s) : s[i].h = u
    /\ \A i, j \in 1 .. Len(s) : s[i].h = s[j].h => i = j

\* The list says what each of its timers has left.
ExactTimes(s, left) == \A i \in 1 .. Len(s) : Abs(s, i) = left[s[i].h]

\* A timer that is set joins the list, and the others keep what they have left.
LEMMA SetTimer ==
    ASSUME NEW s \in Seq(Entry), NEW H \in SUBSET Timer, Listed(s, H), NEW m \in Int,
           NEW h \in Timer, h \notin H, NEW left, ExactTimes(s, left), left[h] = m,
           NEW r, r = mailbox!SysTimeout(s, m, h)
    PROVE  r \in Seq(Entry) /\ Listed(r, H \cup {h}) /\ ExactTimes(r, left)
<1>1. r \in Seq(Entry) /\ \E k \in 0 .. Len(s) : Inserted(s, m, h, r, k)
  BY SysTimeoutInserts
<1>2. PICK k \in 0 .. Len(s) : Inserted(s, m, h, r, k)
  BY <1>1
<1> DEFINE n == Len(s)
<1>3. n \in Nat /\ k \in 0 .. n /\ Len(r) = n + 1
  BY <1>2 DEF Inserted
<1>4. /\ \A i \in 1 .. k : r[i].h = s[i].h /\ Abs(r, i) = Abs(s, i)
      /\ r[k + 1].h = h /\ Abs(r, k + 1) = m
      /\ \A i \in k + 1 .. n : r[i + 1].h = s[i].h /\ Abs(r, i + 1) = Abs(s, i)
  BY <1>1, <1>2, InsertedTimes
<1>5. /\ \A i \in 1 .. n : s[i].h \in H /\ Abs(s, i) = left[s[i].h]
      /\ \A u \in H : \E i \in 1 .. n : s[i].h = u
      /\ \A i, j \in 1 .. n : s[i].h = s[j].h => i = j
  BY DEF Listed, ExactTimes
<1> HIDE DEF n
<1> DEFINE old(i) == IF i <= k THEN i ELSE i - 1
<1>6. \A i \in 1 .. n + 1 : i # k + 1 =>
          old(i) \in 1 .. n /\ r[i].h = s[old(i)].h /\ Abs(r, i) = Abs(s, old(i))
  <2> SUFFICES ASSUME NEW i \in 1 .. n + 1, i # k + 1
               PROVE  old(i) \in 1 .. n /\ r[i].h = s[old(i)].h /\ Abs(r, i) = Abs(s, old(i))
    OBVIOUS
  <2>1. CASE i <= k
    <3>1. i \in 1 .. k /\ i \in 1 .. n /\ old(i) = i
      BY <1>3, <2>1
    <3> QED BY <1>4, <3>1
  <2>2. CASE ~(i <= k)
    <3>1. i - 1 \in k + 1 .. n /\ i - 1 \in 1 .. n /\ (i - 1) + 1 = i /\ old(i) = i - 1
      BY <1>3, <2>2
    <3> QED BY <1>4, <3>1
  <2> QED BY <2>1, <2>2
<1>7. \A i, j \in 1 .. n + 1 : i # k + 1 /\ j # k + 1 /\ old(i) = old(j) => i = j
  BY <1>3
<1>8. \A i \in 1 .. n : \E j \in 1 .. n + 1 : j # k + 1 /\ old(j) = i
  <2> TAKE i \in 1 .. n
  <2>1. CASE i <= k
    <3>1. i \in 1 .. n + 1 /\ i # k + 1 /\ old(i) = i
      BY <1>3, <2>1
    <3> QED BY <3>1
  <2>2. CASE ~(i <= k)
    <3>1. i + 1 \in 1 .. n + 1 /\ i + 1 # k + 1 /\ old(i + 1) = i
      BY <1>3, <2>2
    <3> QED BY <3>1
  <2> QED BY <2>1, <2>2
<1> HIDE DEF old
<1>9. k + 1 \in 1 .. n + 1
  BY <1>3
<1>10. \A i \in 1 .. n + 1 : i # k + 1 => r[i].h \in H
  BY <1>5, <1>6
<1>11. Listed(r, H \cup {h})
  <2>1. \A i \in 1 .. n + 1 : r[i].h \in H \cup {h}
    BY <1>4, <1>10
  <2>2. ASSUME NEW u \in H \cup {h} PROVE \E i \in 1 .. n + 1 : r[i].h = u
    <3>1. CASE u = h
      BY <1>4, <1>9, <3>1
    <3>2. CASE u \in H
      <4>1. PICK i \in 1 .. n : s[i].h = u
        BY <1>5, <3>2
      <4>2. PICK j \in 1 .. n + 1 : j # k + 1 /\ old(j) = i
        BY <1>8
      <4>3. r[j].h = s[old(j)].h
        BY <1>6, <4>2
      <4> QED BY <4>1, <4>2, <4>3
    <3> QED BY <3>1, <3>2
  <2>3. ASSUME NEW i \in 1 .. n + 1, NEW j \in 1 .. n + 1, r[i].h = r[j].h PROVE i = j
    <3>1. CASE i = k + 1 \/ j = k + 1
      BY <1>4, <1>10, <2>3, <3>1
    <3>2. CASE i # k + 1 /\ j # k + 1
      <4>1. /\ old(i) \in 1 .. n /\ r[i].h = s[old(i)].h
            /\ old(j) \in 1 .. n /\ r[j].h = s[old(j)].h
        BY <1>6, <3>2
      <4>2. old(i) = old(j)
        BY <1>5, <2>3, <4>1
      <4> QED BY <1>7, <3>2, <4>2
    <3> QED BY <3>1, <3>2
  <2> QED BY <1>3, <2>1, <2>2, <2>3 DEF Listed
<1>12. ExactTimes(r, left)
  <2>1. ASSUME NEW i \in 1 .. n + 1 PROVE Abs(r, i) = left[r[i].h]
    <3>1. CASE i = k + 1
      BY <1>4, <3>1
    <3>2. CASE i # k + 1
      BY <1>5, <1>6, <3>2
    <3> QED BY <3>1, <3>2
  <2> QED BY <1>3, <2>1 DEF ExactTimes
<1> QED BY <1>1, <1>11, <1>12

\* The list without its head.
LEMMA TailFacts ==
    ASSUME NEW s \in Seq(Entry), s # << >>
    PROVE  /\ Tail(s) \in Seq(Entry) /\ Len(Tail(s)) = Len(s) - 1 /\ Len(s) \in Nat \ {0}
           /\ Head(s) = s[1] /\ s[1] \in Entry /\ Abs(s, 1) = s[1].time
           /\ \A i \in 1 .. Len(s) - 1 : Tail(s)[i] = s[i + 1] /\ Abs(Tail(s), i) = Abs(s, i + 1) - s[1].time
<1> DEFINE T == Tail(s)
           n == Len(s) - 1
<1>1. /\ T \in Seq(Entry) /\ Len(T) = n /\ Len(s) \in Nat \ {0} /\ n \in Nat
      /\ Head(s) = s[1] /\ s[1] \in Entry /\ \A i \in 1 .. n : T[i] = s[i + 1]
  OBVIOUS
<1> HIDE DEF T
<1>2. Abs(s, 0) = 0 /\ Abs(T, 0) = 0 /\ s[1].time \in Int
  BY <1>1, AbsFacts, EntryFields
<1>3. Abs(s, 1) = s[1].time
  <2>1. 1 \in 1 .. Len(s) /\ 1 - 1 = 0
    BY <1>1
  <2>2. Abs(s, 1) = Abs(s, 1 - 1) + s[1].time
    BY <2>1, AbsFacts
  <2> QED BY <1>2, <2>1, <2>2
<1>4. Alike(T, 0, s, 1, n)
  <2>1. \A i \in 1 .. n : T[0 + i].time = s[1 + i].time
    BY <1>1
  <2> QED BY <1>1, <2>1 DEF Alike
<1>5. \A i \in 0 .. n : Abs(T, 0 + i) = Abs(s, 1 + i) + (Abs(T, 0) - Abs(s, 1))
  BY <1>1, <1>4, SameSteps
<1>6. ASSUME NEW i \in 1 .. n PROVE Abs(T, i) = Abs(s, i + 1) - s[1].time
  <2>1. i \in 0 .. n /\ 0 + i = i /\ 1 + i = i + 1 /\ i + 1 \in 0 .. Len(s)
    BY <1>1
  <2>2. Abs(T, i) = Abs(s, i + 1) + (Abs(T, 0) - Abs(s, 1)) /\ Abs(s, i + 1) \in Int
    BY <1>5, <2>1, AbsFacts
  <2> QED BY <1>2, <1>3, <2>2
<1> QED BY <1>1, <1>3, <1>6 DEF T

\* When the head is taken, the others have what they had, less its time.
LEMMA TakeHead ==
    ASSUME NEW s \in Seq(Entry), s # << >>, Listed(s, Timer), NEW left, ExactTimes(s, left),
           NEW left2, \A u \in Timer \ {Head(s).h} : left2[u] = left[u] - Head(s).time
    PROVE  /\ Tail(s) \in Seq(Entry) /\ Listed(Tail(s), Timer \ {Head(s).h}) /\ ExactTimes(Tail(s), left2)
           /\ Head(s).h \in Timer /\ Head(s).time \in Int
<1> DEFINE T == Tail(s)
           n == Len(s) - 1
           h == Head(s).h
<1>1. /\ T \in Seq(Entry) /\ Len(T) = n /\ Len(s) = n + 1 /\ n \in Nat
      /\ Head(s) = s[1] /\ s[1] \in Entry /\ Abs(s, 1) = s[1].time
      /\ \A i \in 1 .. n : T[i] = s[i + 1] /\ Abs(T, i) = Abs(s, i + 1) - s[1].time
  BY TailFacts
<1>2. /\ \A i \in 1 .. Len(s) : s[i].h \in Timer /\ Abs(s, i) = left[s[i].h]
      /\ \A u \in Timer : \E i \in 1 .. Len(s) : s[i].h = u
      /\ \A i, j \in 1 .. Len(s) : s[i].h = s[j].h => i = j
  BY DEF Listed, ExactTimes
<1>3. h \in Timer /\ h = s[1].h /\ Head(s).time = s[1].time /\ s[1].time \in Int
  BY <1>1, EntryFields
<1> HIDE DEF T, n, h
<1>4. \A i \in 1 .. n : i + 1 \in 1 .. Len(s) /\ i + 1 # 1 /\ 1 \in 1 .. Len(s)
  BY <1>1
<1>5. \A i \in 1 .. n : T[i].h \in Timer \ {h}
  BY <1>1, <1>2, <1>3, <1>4
<1>6. ASSUME NEW u \in Timer \ {h} PROVE \E i \in 1 .. n : T[i].h = u
  <2>1. PICK i \in 1 .. Len(s) : s[i].h = u
    BY <1>2
  <2>2. i # 1
    BY <1>3, <2>1
  <2>3. i - 1 \in 1 .. n /\ (i - 1) + 1 = i
    BY <1>1, <2>2
  <2> QED BY <1>1, <2>1, <2>3
<1>7. ASSUME NEW i \in 1 .. n, NEW j \in 1 .. n, T[i].h = T[j].h PROVE i = j
  <2>1. i + 1 = j + 1
    BY <1>1, <1>2, <1>4, <1>7
  <2> QED BY <1>1, <2>1
<1>8. ASSUME NEW i \in 1 .. n PROVE Abs(T, i) = left2[T[i].h]
  <2>1. Abs(T, i) = left[T[i].h] - s[1].time
    BY <1>1, <1>2, <1>4
  <2>2. left2[T[i].h] = left[T[i].h] - s[1].time
    BY <1>3, <1>5 DEF h
  <2> QED BY <2>1, <2>2
<1>9. Listed(T, Timer \ {h}) /\ ExactTimes(T, left2)
  BY <1>1, <1>5, <1>6, <1>7, <1>8 DEF Listed, ExactTimes
<1> QED BY <1>1, <1>3, <1>9 DEF T, h

\* Min of sys_arch_mbox_fetch's two times.
LEMMA LesserOfTwo ==
    ASSUME NEW d \in Int, NEW a \in Int
    PROVE  mailbox!Min({d, a}) = (IF d <= a THEN d ELSE a) /\ mailbox!Min({d, a}) \in Int
<1> DEFINE x == mailbox!Min({d, a})
<1>1. x = CHOOSE y \in {d, a} : \A z \in {d, a} : y <= z
  BY DEF mailbox!Min
<1>2. \E y \in {d, a} : \A z \in {d, a} : y <= z
  OBVIOUS
<1>3. x \in {d, a} /\ \A z \in {d, a} : x <= z
  BY <1>1, <1>2
<1> HIDE DEF x
<1>4. x = (IF d <= a THEN d ELSE a) /\ x \in Int
  BY <1>3
<1> QED BY <1>4 DEF x

\* After a wait the head, and with it every timer, has less to wait.
LEMMA WaitedTimes ==
    ASSUME NEW s \in Seq(Entry), s # << >>, Listed(s, Timer), NEW left, ExactTimes(s, left),
           NEW d \in Int, NEW left2,
           \A u \in Timer : left2[u] = left[u] - mailbox!Min({d, Head(s).time})
    PROVE  LET r == mailbox!Waited(s, d)
           IN  r \in Seq(Entry) /\ Listed(r, Timer) /\ ExactTimes(r, left2)
<1> DEFINE r == mailbox!Waited(s, d)
           t == IF d <= s[1].time THEN s[1].time - d ELSE 0
           x == mailbox!Min({d, Head(s).time})
           n == Len(s) - 1
<1>1. /\ Len(s) = n + 1 /\ n \in Nat /\ Head(s) = s[1] /\ s[1] \in Entry /\ Abs(s, 1) = s[1].time
  BY TailFacts
<1>2. s[1].time \in Int
  BY <1>1, EntryFields
<1>3. t = s[1].time - x /\ t \in Int
  <2>1. x = IF d <= s[1].time THEN d ELSE s[1].time
    BY <1>1, <1>2, LesserOfTwo
  <2> HIDE DEF x
  <2> QED BY <1>2, <2>1
<1>4. r = [s EXCEPT ![1] = [s[1] EXCEPT !.time = t]]
  BY DEF mailbox!Waited
<1> HIDE DEF t, x
<1>5. [s[1] EXCEPT !.time = t] \in Entry /\ [s[1] EXCEPT !.time = t].time = t
      /\ [s[1] EXCEPT !.time = t].h = s[1].h
  BY <1>1, <1>3 DEF Entry
<1> DEFINE e == [s[1] EXCEPT !.time = t]
<1>6. /\ r \in Seq(Entry) /\ Len(r) = Len(s) /\ r[1] = e
      /\ \A i \in 2 .. Len(s) : r[i] = s[i]
  <2>1. r = [s EXCEPT ![1] = e] /\ e \in Entry
    BY <1>4, <1>5
  <2> HIDE DEF e, r, n
  <2> QED BY <1>1, <2>1
<1> HIDE DEF r
<1>7. r[1].time = t /\ \A i \in 1 .. Len(s) : r[i].h = s[i].h
  <2>1. r[1].time = t /\ r[1].h = s[1].h
    BY <1>5, <1>6
  <2>2. \A i \in 1 .. Len(s) : i = 1 \/ i \in 2 .. Len(s)
    BY <1>1
  <2> QED BY <1>6, <2>1, <2>2
<1> HIDE DEF e, n
<1>8. Abs(r, 1) = t
  <2>1. 1 \in 1 .. Len(r) /\ 1 - 1 = 0
    BY <1>1, <1>6
  <2>2. Abs(r, 1) = Abs(r, 1 - 1) + r[1].time /\ Abs(r, 0) = 0
    BY <1>6, <2>1, AbsFacts
  <2> QED BY <1>3, <1>7, <2>1, <2>2
<1>9. Alike(r, 1, s, 1, n)
  <2>1. \A i \in 1 .. n : 1 + i \in 2 .. Len(s)
    BY <1>1
  <2>2. 1 + n <= Len(r) /\ 1 + n <= Len(s) /\ 1 \in Nat
    BY <1>1, <1>6
  <2>3. \A i \in 1 .. n : r[1 + i].time = s[1 + i].time
    BY <1>6, <2>1
  <2> QED BY <1>1, <2>2, <2>3 DEF Alike
<1>10. \A i \in 0 .. n : Abs(r, 1 + i) = Abs(s, 1 + i) + (Abs(r, 1) - Abs(s, 1))
  BY <1>6, <1>9, SameSteps
<1>11. x \in Int
  BY <1>1, <1>2, LesserOfTwo DEF x
<1>12. ASSUME NEW i \in 1 .. Len(s) PROVE Abs(r, i) = left2[r[i].h]
  <2>1. i - 1 \in 0 .. n /\ 1 + (i - 1) = i /\ i \in 0 .. Len(s)
    BY <1>1
  <2>2. Abs(r, i) = Abs(s, i) + (t - s[1].time)
    BY <1>1, <1>8, <1>10, <2>1
  <2>3. Abs(s, i) \in Int
    BY <2>1, AbsFacts
  <2>4. Abs(s, i) = left[s[i].h] /\ s[i].h \in Timer
    BY DEF ExactTimes, Listed
  <2>5. left2[s[i].h] = left[s[i].h] - x
    BY <2>4 DEF x
  <2>6. r[i].h = s[i].h
    BY <1>7
  <2>7. Abs(r, i) = Abs(s, i) - x
    BY <1>2, <1>3, <1>11, <2>2, <2>3
  <2> QED BY <2>4, <2>5, <2>6, <2>7
<1>13. Listed(r, Timer)
  BY <1>6, <1>7 DEF Listed
<1>14. ExactTimes(r, left2)
  BY <1>6, <1>12 DEF ExactTimes
<1> QED BY <1>6, <1>13, <1>14 DEF r

\* The list that transport_subsys_init and transport_thread make: the timers are set one
\* after the other.
LEMMA StartedExact ==
    LET s == mailbox!Started[Len(Periods)]
    IN  s \in Seq(Entry) /\ Listed(s, Timer) /\ ExactTimes(s, Periods)
<1> DEFINE N == Len(Periods)
           S == Seq(Entry)
           F == mailbox!Started
           Solves(g) == g = [n \in 0 .. N |-> IF n = 0 THEN << >>
                                             ELSE mailbox!SysTimeout(g[n - 1], Periods[n], n)]
           step == [n \in 1 .. N |-> [s \in S |-> mailbox!SysTimeout(s, Periods[n], n)]]
<1>1. N \in Nat /\ Timer = 1 .. N /\ \A n \in 1 .. N : Periods[n] \in Int
  <2>1. N \in Nat
    BY Constants
  <2> QED BY <2>1, Constants
<1>2. \A n \in 1 .. N, s \in S : mailbox!SysTimeout(s, Periods[n], n) \in S
  BY <1>1, SysTimeoutInserts
<1>3. step \in [1 .. N -> [S -> S]]
  BY <1>2
<1>4. \A n \in 1 .. N, s \in S : step[n][s] = mailbox!SysTimeout(s, Periods[n], n)
  OBVIOUS
<1>5. << >> \in S
  OBVIOUS
<1>6. F = CHOOSE g : Solves(g)
  BY DEF mailbox!Started
<1> HIDE DEF N, S, F, step
<1>7. PICK f : Follows(f, S, << >>, step, N)
  BY <1>1, <1>3, <1>5, Recursion
<1>8. f \in [0 .. N -> S] /\ f[0] = << >> /\ \A n \in 1 .. N : f[n] = step[n][f[n - 1]]
  BY <1>7 DEF Follows
<1>9. Solves(f)
  <2>1. ASSUME NEW n \in 1 .. N PROVE f[n] = mailbox!SysTimeout(f[n - 1], Periods[n], n)
    <3>1. n - 1 \in 0 .. N
      BY <1>1
    <3>2. f[n - 1] \in S
      BY <1>8, <3>1
    <3> QED BY <1>4, <1>8, <3>2
  <2>2. \A n \in 0 .. N : n # 0 => n \in 1 .. N
    BY <1>1
  <2> DEFINE G == [n \in 0 .. N |-> IF n = 0 THEN << >> ELSE mailbox!SysTimeout(f[n - 1], Periods[n], n)]
  <2>3. \A n \in 0 .. N : f[n] = G[n]
    BY <1>8, <2>1, <2>2
  <2>4. DOMAIN f = 0 .. N /\ DOMAIN G = 0 .. N /\ f = [n \in 0 .. N |-> f[n]]
    BY <1>8
  <2> QED BY <2>3, <2>4
<1>10. Solves(F)
  <2> HIDE DEF Solves
  <2> QED BY <1>6, <1>9
<1>11. F[0] = << >> /\ \A n \in 1 .. N : F[n] = mailbox!SysTimeout(F[n - 1], Periods[n], n)
  <2>1. 0 \in 0 .. N /\ \A n \in 1 .. N : n \in 0 .. N /\ n # 0
    BY <1>1
  <2> QED BY <1>10, <2>1
<1> HIDE DEF Solves
<1> DEFINE T == {n \in Nat : n <= N => F[n] \in Seq(Entry) /\ Listed(F[n], 1 .. n) /\ ExactTimes(F[n], Periods)}
<1>12. 0 \in T
  <2>1. 1 .. Len(<< >>) = {} /\ 1 .. 0 = {} /\ << >> \in Seq(Entry)
    OBVIOUS
  <2> QED BY <1>11, <2>1 DEF Listed, ExactTimes
<1>13. ASSUME NEW n \in T PROVE n + 1 \in T
  <2>1. CASE n + 1 <= N
    <3>1. F[n] \in Seq(Entry) /\ Listed(F[n], 1 .. n) /\ ExactTimes(F[n], Periods) /\ n \in Nat
      BY <1>1, <2>1
    <3>2. /\ n + 1 \in 1 .. N /\ (n + 1) - 1 = n /\ 1 .. n \in SUBSET Timer /\ n + 1 \notin 1 .. n
          /\ (1 .. n) \cup {n + 1} = 1 .. (n + 1)
      BY <1>1, <2>1, <3>1
    <3>3. Periods[n + 1] \in Int /\ n + 1 \in Timer
      BY <1>1, <3>2
    <3>4. F[n + 1] = mailbox!SysTimeout(F[n], Periods[n + 1], n + 1)
      BY <1>11, <3>2
    <3>5. F[n + 1] \in Seq(Entry) /\ Listed(F[n + 1], (1 .. n) \cup {n + 1}) /\ ExactTimes(F[n + 1], Periods)
      BY <3>1, <3>2, <3>3, <3>4, SetTimer
    <3>6. n + 1 \in Nat
      BY <3>1
    <3> QED BY <3>2, <3>5, <3>6
  <2>2. CASE ~(n + 1 <= N)
    BY <2>2
  <2> QED BY <2>1, <2>2
<1>14. T = Nat
  <2> HIDE DEF T
  <2> QED BY <1>12, <1>13, Induction DEF T
<1>15. N \in T /\ N <= N
  <2> HIDE DEF T
  <2> QED BY <1>1, <1>14
<1> QED BY <1>1, <1>15 DEF F, N

\* The list is empty, as that of an application thread, or has every timer.
DeltaInv ==
    /\ timeouts \in Seq(Entry) /\ due \in [Timer -> Int] /\ time \in Int
    /\ timeouts # << >> => Listed(timeouts, Timer)
    /\ ExactTimes(timeouts, due)

LEMMA DeltaInvInit == mailbox!Init => DeltaInv
<1> SUFFICES ASSUME mailbox!Init PROVE DeltaInv
  OBVIOUS
<1>1. due = Periods /\ time = 0 /\ (timeouts = << >> \/ timeouts = mailbox!Started[Len(Periods)])
  BY DEF mailbox!Init
<1>2. << >> \in Seq(Entry) /\ 1 .. Len(<< >>) = {}
  OBVIOUS
<1>a. due \in [Timer -> Int] /\ time \in Int
  <2>1. Periods \in [1 .. Len(Periods) -> Nat] /\ Timer = 1 .. Len(Periods)
    BY Constants
  <2> QED BY <1>1, <2>1
<1>3. CASE timeouts = << >>
  BY <1>2, <1>3, <1>a DEF DeltaInv, ExactTimes
<1>4. CASE timeouts = mailbox!Started[Len(Periods)]
  BY <1>1, <1>4, <1>a, StartedExact DEF DeltaInv
<1> QED BY <1>1, <1>3, <1>4

LEMMA DeltaInvNext == DeltaInv /\ [mailbox!Next]_mailboxVars => DeltaInv'
<1> SUFFICES ASSUME DeltaInv, [mailbox!Next]_mailboxVars PROVE DeltaInv'
  OBVIOUS
<1>1. ASSUME UNCHANGED <<timeouts, due>>, time' \in Int PROVE DeltaInv'
  BY <1>1 DEF DeltaInv, Listed, ExactTimes, Abs, mailbox!Abs
<1>2. timeouts \in Seq(Entry) /\ due \in [Timer -> Int] /\ time \in Int /\ (timeouts # << >> => Listed(timeouts, Timer)) /\ ExactTimes(timeouts, due)
  BY DEF DeltaInv
<1> DEFINE h == Head(timeouts).h
           d == Head(timeouts).time
\* The head is taken, and set again.
<1>3. ASSUME timeouts # << >>, timeouts' = mailbox!SysTimeout(Tail(timeouts), Periods[h], h),
             due' \in [Timer -> Int], time' \in Int,
             \A u \in Timer : due'[u] = IF u = h THEN Periods[h] ELSE due[u] - d
      PROVE  DeltaInv'
  <2>1. \A u \in Timer \ {h} : due'[u] = due[u] - d
    BY <1>3
  <2>2. /\ Tail(timeouts) \in Seq(Entry) /\ Listed(Tail(timeouts), Timer \ {h}) /\ ExactTimes(Tail(timeouts), due')
        /\ h \in Timer
    BY <1>2, <1>3, <2>1, TakeHead, ZenonT(60)
  <2>3. due'[h] = Periods[h] /\ Periods[h] \in Int
    BY <1>3, <2>2, Constants
  <2>4. Timer \ {h} \in SUBSET Timer /\ h \notin Timer \ {h} /\ (Timer \ {h}) \cup {h} = Timer
    BY <2>2
  <2> DEFINE s == Tail(timeouts)
             H == Timer \ {h}
             m == Periods[h]
  <2>a. /\ s \in Seq(Entry) /\ H \in SUBSET Timer /\ Listed(s, H) /\ m \in Int /\ h \in Timer
        /\ h \notin H /\ ExactTimes(s, due') /\ due'[h] = m /\ timeouts' = mailbox!SysTimeout(s, m, h)
        /\ H \cup {h} = Timer
    BY <1>3, <2>2, <2>3, <2>4
  <2> HIDE DEF h, s, H, m
  <2>b. timeouts' \in Seq(Entry) /\ Listed(timeouts', H \cup {h}) /\ ExactTimes(timeouts', due')
    BY <2>a, SetTimer
  <2>5. timeouts' \in Seq(Entry) /\ Listed(timeouts', Timer) /\ ExactTimes(timeouts', due')
    BY <2>a, <2>b
  <2> QED BY <1>3, <2>5 DEF DeltaInv, Listed, ExactTimes, Abs, mailbox!Abs
<1>a. timeouts # << >> => h \in Timer /\ d \in Int /\ Periods[h] \in Int
  <2> SUFFICES ASSUME timeouts # << >> PROVE h \in Timer /\ d \in Int /\ Periods[h] \in Int
    OBVIOUS
  <2>1. Head(timeouts) \in Entry
    BY <1>2, TailFacts
  <2>2. h \in Timer /\ d \in Int
    BY <2>1, EntryFields
  <2> QED BY <2>2, Constants
<1>4. CASE mailbox!FetchTimer
  <2>1. /\ timeouts # << >> /\ d = 0 /\ timeouts' = mailbox!SysTimeout(Tail(timeouts), Periods[h], h)
        /\ due' = [due EXCEPT ![h] = Periods[h]] /\ time' = time
    BY <1>4 DEF mailbox!FetchTimer, mailbox!Fire, mailbox!Due
  <2> HIDE DEF h, d
  <2>2. due' \in [Timer -> Int] /\ \A u \in Timer : due'[u] = IF u = h THEN Periods[h] ELSE due[u] - d
    BY <1>2, <1>a, <2>1
  <2> QED BY <1>2, <1>3, <2>1, <2>2
<1>5. CASE mailbox!FetchTimedOut
  <2>1. /\ timeouts # << >> /\ timeouts' = mailbox!SysTimeout(Tail(timeouts), Periods[h], h)
        /\ due' = [u \in Timer |-> IF u = h THEN Periods[h] ELSE due[u] - d] /\ time' = time
    BY <1>5 DEF mailbox!FetchTimedOut, Timer
  <2> HIDE DEF h, d
  <2>2. due' \in [Timer -> Int] /\ \A u \in Timer : due'[u] = IF u = h THEN Periods[h] ELSE due[u] - d
    BY <1>2, <1>a, <2>1
  <2> QED BY <1>2, <1>3, <2>1, <2>2
<1>6. CASE mailbox!FetchTake
  <2> DEFINE x == mailbox!Min({time, Head(timeouts).time})
  <2>1. /\ timeouts' = mailbox!Waited(timeouts, time) /\ time' = time
        /\ due' = IF timeouts = << >> THEN due ELSE [u \in Timer |-> due[u] - x]
    BY <1>6 DEF mailbox!FetchTake, Timer
  <2>2. CASE timeouts = << >>
    <3>1. timeouts' = timeouts /\ due' = due
      BY <2>1, <2>2 DEF mailbox!Waited
    <3> QED BY <1>1, <1>2, <2>1, <3>1
  <2>3. CASE timeouts # << >>
    <3>1. x \in Int
      BY <1>2, <1>a, <2>3, LesserOfTwo
    <3>2. due' = [u \in Timer |-> due[u] - x]
      BY <2>1, <2>3
    <3>3. due' \in [Timer -> Int] /\ \A u \in Timer : due'[u] = due[u] - x
      <4> HIDE DEF x
      <4> QED BY <1>2, <3>1, <3>2
    <3>4. timeouts' \in Seq(Entry) /\ Listed(timeouts', Timer) /\ ExactTimes(timeouts', due')
      BY <1>2, <2>1, <2>3, <3>3, WaitedTimes
    <3> QED BY <1>2, <2>1, <3>3, <3>4 DEF DeltaInv, Listed, ExactTimes, Abs, mailbox!Abs
  <2> QED BY <2>2, <2>3
<1>7. CASE UNCHANGED mailboxVars
  BY <1>1, <1>2, <1>7 DEF mailboxVars
<1>8. CASE \E t \in Senders : mailbox!Post(t)
  BY <1>1, <1>2, <1>8 DEF mailbox!Post, mailbox!PostEnter, mailbox!PostStore, mailbox!PostLeave
<1>9. CASE mailbox!FetchEnter \/ mailbox!FetchEmpty \/ mailbox!FetchMail \/ mailbox!FetchAgain
  <2>1. UNCHANGED <<timeouts, due>> /\ time' \in {time, 1} \cup 1 .. MaxWait
    BY <1>9 DEF mailbox!FetchEnter, mailbox!FetchEmpty, mailbox!FetchMail, mailbox!FetchAgain
  <2>2. time' \in Int
    BY <1>2, <2>1, Constants
  <2> QED BY <1>1, <2>1, <2>2
<1> QED BY <1>4, <1>5, <1>6, <1>7, <1>8, <1>9 DEF mailbox!Next, mailbox!Fetch
-----------------------------------------------------------------------------
(* The ring                                                                *)

Thread == Senders \cup {"reader"}
Slot == 0 .. SYS_MBOX_SIZE - 1
Where == {"idle", "put", "first", "more", "look", "wait", "again"}

\* The slot j places behind slot f.
Behind(f, j) == IF f + j < SYS_MBOX_SIZE THEN f + j ELSE f + j - SYS_MBOX_SIZE

\* A thread that holds the mutex, and one that has stored a message but has not moved
\* last yet.
Inside(t) == at[t] \in {"put", "first", "more", "look"}
Leaving == \E t \in Thread : at[t] \in {"first", "more"}

RingShape ==
    /\ ring \in [first : Slot, last : Slot, msgs : [Slot -> Nat]]
    /\ mutex \in {0, 1} /\ at \in [Thread -> Where]
    /\ posted \in Seq(Nat) /\ taken \in Seq(Nat) /\ peak \in Int
    /\ \A i \in 1 .. Len(posted) : posted[i] = i

\* One thread at a time is between taking and giving the mutex.
OneInside ==
    /\ \A t, u \in Thread : Inside(t) /\ Inside(u) => t = u
    /\ mutex = 1 => \A t \in Thread : ~Inside(t)

\* The ring holds the messages that were posted and not taken, in their order.
Holds(f, l, msgs, n, k, leaving) ==
    /\ 0 <= n /\ n < SYS_MBOX_SIZE
    /\ \A j \in 0 .. n - 1 : msgs[Behind(f, j)] = k + 1 + j
    /\ IF leaving THEN n >= 1 /\ l = Behind(f, n - 1) ELSE l = Behind(f, n)

RingOrder ==
    peak < SYS_MBOX_SIZE =>
        LET n == Len(posted) - Len(taken)
        IN  /\ n <= peak /\ Holds(ring.first, ring.last, ring.msgs, n, Len(taken), Leaving)
            /\ \A k \in 1 .. Len(taken) : taken[k] = k

RingInv == RingShape /\ OneInside /\ RingOrder

LEMMA BehindFacts ==
    ASSUME NEW f \in Slot
    PROVE  /\ Behind(f, 0) = f
           /\ \A j \in 0 .. SYS_MBOX_SIZE - 1 : Behind(f, j) \in Slot
           /\ \A i, j \in 0 .. SYS_MBOX_SIZE - 1 : Behind(f, i) = Behind(f, j) => i = j
           /\ mailbox!Next1(f) \in Slot /\ mailbox!Next1(f) = IF f + 1 = SYS_MBOX_SIZE THEN 0 ELSE f + 1
           /\ \A j \in 0 .. SYS_MBOX_SIZE - 2 : /\ mailbox!Next1(Behind(f, j)) = Behind(f, j + 1)
                                                /\ Behind(mailbox!Next1(f), j) = Behind(f, j + 1)
<1>1. SYS_MBOX_SIZE \in Nat \ {0} /\ f \in Nat /\ f < SYS_MBOX_SIZE
  BY Constants DEF Slot
<1>2. ASSUME NEW g \in Slot PROVE mailbox!Next1(g) = IF g + 1 = SYS_MBOX_SIZE THEN 0 ELSE g + 1
  BY <1>1 DEF Slot, mailbox!Next1
<1>3. Behind(f, 0) = f /\ \A j \in 0 .. SYS_MBOX_SIZE - 1 : Behind(f, j) \in Slot
  BY <1>1 DEF Behind, Slot
<1>4. \A i, j \in 0 .. SYS_MBOX_SIZE - 1 : Behind(f, i) = Behind(f, j) => i = j
  BY <1>1 DEF Behind
<1>5. mailbox!Next1(f) \in Slot
  BY <1>1, <1>2 DEF Slot
<1>6. ASSUME NEW j \in 0 .. SYS_MBOX_SIZE - 2
      PROVE  mailbox!Next1(Behind(f, j)) = Behind(f, j + 1) /\ Behind(mailbox!Next1(f), j) = Behind(f, j + 1)
  <2>1. Behind(f, j) \in Slot
    BY <1>1, <1>3
  <2>2. mailbox!Next1(Behind(f, j)) = IF Behind(f, j) + 1 = SYS_MBOX_SIZE THEN 0 ELSE Behind(f, j) + 1
    BY <1>2, <2>1
  <2>3. mailbox!Next1(Behind(f, j)) = Behind(f, j + 1)
    BY <1>1, <2>2 DEF Behind
  <2>4. mailbox!Next1(f) = IF f + 1 = SYS_MBOX_SIZE THEN 0 ELSE f + 1
    BY <1>2
  <2>5. Behind(mailbox!Next1(f), j) = Behind(f, j + 1)
    BY <1>1, <2>4 DEF Behind
  <2> QED BY <2>3, <2>5
<1> QED BY <1>2, <1>3, <1>4, <1>5, <1>6

\* sys_mbox_post puts a message into the slot of last, and moves last later;
\* sys_arch_mbox_fetch takes the one in the slot of first.
LEMMA HoldsStored ==
    ASSUME NEW f \in Slot, NEW l, NEW msgs \in [Slot -> Nat], NEW n \in Int, NEW k \in Nat,
           Holds(f, l, msgs, n, k, FALSE), n + 1 < SYS_MBOX_SIZE
    PROVE  Holds(f, l, [msgs EXCEPT ![l] = k + n + 1], n + 1, k, TRUE)
<1> DEFINE m == [msgs EXCEPT ![l] = k + n + 1]
<1>1. /\ 0 <= n /\ n < SYS_MBOX_SIZE /\ l = Behind(f, n)
      /\ \A j \in 0 .. n - 1 : msgs[Behind(f, j)] = k + 1 + j
  BY DEF Holds
<1>2. SYS_MBOX_SIZE \in Nat \ {0}
  BY Constants
<1>3. l \in Slot
  BY <1>1, <1>2, BehindFacts
<1>4. m[l] = k + n + 1 /\ \A s \in Slot : s # l => m[s] = msgs[s]
  BY <1>3
<1> HIDE DEF m
<1>5. ASSUME NEW j \in 0 .. (n + 1) - 1 PROVE m[Behind(f, j)] = k + 1 + j
  <2>1. j \in 0 .. SYS_MBOX_SIZE - 1 /\ n \in 0 .. SYS_MBOX_SIZE - 1 /\ (j = n \/ j \in 0 .. n - 1)
    BY <1>1, <1>2
  <2>2. CASE j = n
    BY <1>1, <1>4, <2>2
  <2>3. CASE j \in 0 .. n - 1
    <3>1. Behind(f, j) \in Slot /\ Behind(f, j) # l
      <4>1. j # n
        BY <1>1, <2>3
      <4> QED BY <1>1, <2>1, <4>1, BehindFacts
    <3> QED BY <1>1, <1>4, <2>3, <3>1
  <2> QED BY <2>1, <2>2, <2>3
<1>6. 0 <= n + 1 /\ n + 1 >= 1 /\ l = Behind(f, (n + 1) - 1)
  <2>1. (n + 1) - 1 = n
    OBVIOUS
  <2> QED BY <1>1, <2>1
<1>7. Holds(f, l, m, n + 1, k, TRUE)
  BY <1>5, <1>6 DEF Holds
<1> QED BY <1>7 DEF m

LEMMA HoldsMoved ==
    ASSUME NEW f \in Slot, NEW l, NEW msgs, NEW n \in Int, NEW k \in Nat,
           Holds(f, l, msgs, n, k, TRUE)
    PROVE  Holds(f, mailbox!Next1(l), msgs, n, k, FALSE)
<1>1. /\ 0 <= n /\ n < SYS_MBOX_SIZE /\ n >= 1 /\ l = Behind(f, n - 1)
      /\ \A j \in 0 .. n - 1 : msgs[Behind(f, j)] = k + 1 + j
  BY DEF Holds
<1>2. n - 1 \in 0 .. SYS_MBOX_SIZE - 2 /\ (n - 1) + 1 = n
  BY <1>1, Constants
<1>3. mailbox!Next1(l) = Behind(f, n)
  BY <1>1, <1>2, BehindFacts
<1> QED BY <1>1, <1>3 DEF Holds

LEMMA HoldsTaken ==
    ASSUME NEW f \in Slot, NEW l, NEW msgs, NEW n \in Int, NEW k \in Nat,
           Holds(f, l, msgs, n, k, FALSE), f # l
    PROVE  msgs[f] = k + 1 /\ Holds(mailbox!Next1(f), l, msgs, n - 1, k + 1, FALSE)
<1>1. /\ 0 <= n /\ n < SYS_MBOX_SIZE /\ l = Behind(f, n)
      /\ \A j \in 0 .. n - 1 : msgs[Behind(f, j)] = k + 1 + j
  BY DEF Holds
<1>2. SYS_MBOX_SIZE \in Nat \ {0}
  BY Constants
<1>3. n # 0
  BY <1>1, BehindFacts
<1>4. n >= 1 /\ 0 \in 0 .. n - 1 /\ k + 1 + 0 = k + 1
  BY <1>1, <1>3
<1>5. msgs[f] = k + 1
  <2>1. Behind(f, 0) = f
    BY BehindFacts
  <2> QED BY <1>1, <1>4, <2>1
<1>6. ASSUME NEW j \in 0 .. (n - 1) - 1 PROVE msgs[Behind(mailbox!Next1(f), j)] = (k + 1) + 1 + j
  <2>1. j \in 0 .. SYS_MBOX_SIZE - 2 /\ j + 1 \in 0 .. n - 1 /\ k + 1 + (j + 1) = (k + 1) + 1 + j
    BY <1>1, <1>2
  <2>2. Behind(mailbox!Next1(f), j) = Behind(f, j + 1)
    BY <2>1, BehindFacts
  <2>3. msgs[Behind(f, j + 1)] = k + 1 + (j + 1)
    BY <1>1, <2>1
  <2> QED BY <2>1, <2>2, <2>3
<1>7. l = Behind(mailbox!Next1(f), n - 1)
  <2>1. n - 1 \in 0 .. SYS_MBOX_SIZE - 2 /\ (n - 1) + 1 = n
    BY <1>1, <1>2, <1>4
  <2>2. Behind(mailbox!Next1(f), n - 1) = Behind(f, (n - 1) + 1)
    BY <2>1, BehindFacts
  <2> QED BY <1>1, <2>1, <2>2
<1>8. 0 <= n - 1 /\ n - 1 < SYS_MBOX_SIZE
  BY <1>1, <1>2, <1>4
<1> QED BY <1>5, <1>6, <1>7, <1>8 DEF Holds

LEMMA RingInvInit == mailbox!Init => RingInv
<1> SUFFICES ASSUME mailbox!Init PROVE RingInv
  OBVIOUS
<1>1. /\ ring = [first |-> 0, last |-> 0, msgs |-> [i \in Slot |-> 0]]
      /\ mutex = 1 /\ at = [t \in Thread |-> "idle"]
      /\ posted = << >> /\ taken = << >> /\ peak = 0
  BY DEF mailbox!Init, Slot, Thread
<1>2. SYS_MBOX_SIZE \in Nat \ {0} /\ 0 \in Slot
  BY Constants DEF Slot
<1>3. \A t \in Thread : at[t] = "idle"
  BY <1>1
<1>4. << >> \in Seq(Nat) /\ Len(<< >>) = 0 /\ 1 .. 0 = {} /\ 0 .. 0 - 0 - 1 = {}
  OBVIOUS
<1>5. RingShape
  BY <1>1, <1>2, <1>4 DEF RingShape, Where
<1>6. OneInside /\ ~Leaving
  BY <1>3 DEF OneInside, Inside, Leaving
<1>7. Behind(0, 0) = 0
  BY <1>2, BehindFacts
<1>a. ring.first = 0 /\ ring.last = 0 /\ Len(posted) = 0 /\ Len(taken) = 0
  BY <1>1, <1>4
<1>8. Holds(ring.first, ring.last, ring.msgs, Len(posted) - Len(taken), Len(taken), Leaving)
  BY <1>2, <1>4, <1>6, <1>7, <1>a DEF Holds
<1>9. RingOrder
  BY <1>1, <1>4, <1>8, <1>a DEF RingOrder
<1> QED BY <1>5, <1>6, <1>9 DEF RingInv

\* A thread that goes from one place to another; the others stay.
Moves(t, pc) == t \in Thread /\ pc \in Where /\ mailbox!Goes(t, pc)

LEMMA MovesFacts ==
    ASSUME at \in [Thread -> Where], NEW t, NEW pc, Moves(t, pc)
    PROVE  /\ at' \in [Thread -> Where] /\ at'[t] = pc
           /\ \A u \in Thread : u # t => at'[u] = at[u]
  BY DEF Moves, mailbox!Goes

\* A thread takes the mutex, or gives it, or keeps it.
LEMMA OneInsideKept ==
    ASSUME RingShape, OneInside, NEW t, NEW pc, Moves(t, pc),
           \/ mutex = 1 /\ mutex' = 0
           \/ pc \notin {"put", "first", "more", "look"} /\ Inside(t) /\ mutex' = 1
           \/ pc \in {"put", "first", "more", "look"} /\ Inside(t) /\ mutex' = mutex
           \/ pc \notin {"put", "first", "more", "look"} /\ mutex' = mutex
    PROVE  OneInside'
<1>1. /\ at' \in [Thread -> Where] /\ at'[t] = pc /\ t \in Thread
      /\ \A u \in Thread : u # t => at'[u] = at[u]
  BY MovesFacts DEF RingShape, Moves
<1>2. \A u \in Thread : u # t => (Inside(u)' <=> Inside(u))
  BY <1>1 DEF Inside
<1>3. Inside(t)' <=> pc \in {"put", "first", "more", "look"}
  BY <1>1 DEF Inside
<1>4. \A u, v \in Thread : Inside(u) /\ Inside(v) => u = v
  BY DEF OneInside
<1>5. mutex = 1 => \A u \in Thread : ~Inside(u)
  BY DEF OneInside
<1> DEFINE in(u) == Inside(u)
           in2(u) == Inside(u)'
<1>6. /\ \A u \in Thread : u # t => (in2(u) <=> in(u))
      /\ \A u, v \in Thread : in(u) /\ in(v) => u = v
      /\ mutex = 1 => \A u \in Thread : ~in(u)
      /\ in2(t) <=> pc \in {"put", "first", "more", "look"}
  BY <1>2, <1>3, <1>4, <1>5
<1>7. \/ mutex = 1 /\ mutex' = 0
      \/ ~in2(t) /\ in(t) /\ mutex' = 1
      \/ in2(t) /\ in(t) /\ mutex' = mutex
      \/ ~in2(t) /\ mutex' = mutex
  BY <1>3
<1> HIDE DEF in, in2
<1>8. /\ \A u, v \in Thread : in2(u) /\ in2(v) => u = v
      /\ mutex' = 1 => \A u \in Thread : ~in2(u)
  BY <1>1, <1>6, <1>7
<1>9. /\ \A u, v \in Thread : Inside(u)' /\ Inside(v)' => u = v
      /\ mutex' = 1 => \A u \in Thread : ~Inside(u)'
  BY <1>8 DEF in2
<1> QED BY <1>9 DEF OneInside

\* What one that is inside leaves to the others.
LEMMA LeavingOf ==
    ASSUME RingShape, OneInside, NEW t, NEW pc, Moves(t, pc)
    PROVE  /\ Inside(t) => (Leaving <=> at[t] \in {"first", "more"})
           /\ Inside(t) => (Leaving' <=> pc \in {"first", "more"})
           /\ mutex = 1 => ~Leaving
           /\ at[t] \notin {"first", "more"} /\ pc \notin {"first", "more"} => (Leaving' <=> Leaving)
<1>1. /\ at' \in [Thread -> Where] /\ at'[t] = pc /\ t \in Thread
      /\ \A u \in Thread : u # t => at'[u] = at[u]
  BY MovesFacts DEF RingShape, Moves
<1>2. \A u, v \in Thread : Inside(u) /\ Inside(v) => u = v
  BY DEF OneInside
<1>3. mutex = 1 => \A u \in Thread : ~Inside(u)
  BY DEF OneInside
<1>4. \A u \in Thread : at[u] \in {"first", "more"} => Inside(u)
  BY DEF Inside
<1>5. Leaving <=> \E u \in Thread : at[u] \in {"first", "more"}
  BY DEF Leaving
<1>6. Leaving' <=> \E u \in Thread : at'[u] \in {"first", "more"}
  BY DEF Leaving
<1>7. mutex = 1 => ~Leaving
  BY <1>3, <1>4, <1>5
<1>8. Inside(t) => (Leaving <=> at[t] \in {"first", "more"})
  BY <1>1, <1>2, <1>4, <1>5
<1>9. Inside(t) => (Leaving' <=> pc \in {"first", "more"})
  BY <1>1, <1>2, <1>4, <1>6
<1>10. at[t] \notin {"first", "more"} /\ pc \notin {"first", "more"} => (Leaving' <=> Leaving)
  BY <1>1, <1>5, <1>6
<1> QED BY <1>7, <1>8, <1>9, <1>10

\* A step that only moves a thread.
LEMMA RingKept ==
    ASSUME RingInv, UNCHANGED <<ring, posted, taken, peak>>, mutex' \in {0, 1}, at' \in [Thread -> Where],
           OneInside', Leaving' <=> Leaving
    PROVE  RingInv'
<1>1. RingShape'
  BY DEF RingInv, RingShape
<1>2. RingOrder'
  <2> DEFINE H(x) == Holds(ring.first, ring.last, ring.msgs, Len(posted) - Len(taken), Len(taken), x)
  <2>1. H(Leaving') <=> H(Leaving)
    BY DEF Holds
  <2> QED BY <2>1 DEF RingInv, RingOrder
<1> QED BY <1>1, <1>2 DEF RingInv

\* sys_mbox_post: the message goes into the slot of last.
LEMMA PostStoreKeeps ==
    ASSUME RingInv, NEW t \in Senders, mailbox!PostStore(t)
    PROVE  RingInv'
<1> DEFINE n == Len(posted) - Len(taken)
           k == Len(taken)
           pc == IF mailbox!WasEmpty THEN "first" ELSE "more"
<1>1. /\ RingShape /\ OneInside /\ RingOrder
      /\ at[t] = "put" /\ mailbox!Goes(t, pc) /\ mutex' = mutex /\ taken' = taken
      /\ posted' = Append(posted, Len(posted) + 1)
      /\ ring' = [ring EXCEPT !.msgs[ring.last] = Len(posted) + 1]
      /\ peak' = IF n + 1 > peak THEN n + 1 ELSE peak
  BY DEF RingInv, mailbox!PostStore, mailbox!InRing
<1>2. Moves(t, pc) /\ Inside(t) /\ pc \in {"first", "more"}
  BY <1>1 DEF Moves, Thread, Where, Inside
<1> HIDE DEF pc
<1>3. OneInside'
  BY <1>1, <1>2, OneInsideKept
<1>4. ~Leaving /\ Leaving'
  BY <1>1, <1>2, LeavingOf
<1>5. at' \in [Thread -> Where]
  BY <1>1, <1>2, MovesFacts DEF RingShape
<1>6. /\ ring \in [first : Slot, last : Slot, msgs : [Slot -> Nat]]
      /\ ring.first \in Slot /\ ring.last \in Slot /\ ring.msgs \in [Slot -> Nat]
      /\ posted \in Seq(Nat) /\ taken \in Seq(Nat) /\ peak \in Int /\ mutex \in {0, 1}
      /\ Len(posted) \in Nat /\ k \in Nat /\ n \in Int /\ Len(posted) = k + n
      /\ \A i \in 1 .. Len(posted) : posted[i] = i
  BY <1>1 DEF RingShape
<1>7. /\ posted' \in Seq(Nat) /\ Len(posted') = Len(posted) + 1
      /\ \A i \in 1 .. Len(posted) : posted'[i] = posted[i]
      /\ posted'[Len(posted) + 1] = Len(posted) + 1
  <2>1. \A s \in Seq(Nat), x \in Nat : /\ Append(s, x) \in Seq(Nat) /\ Len(Append(s, x)) = Len(s) + 1
                                       /\ \A i \in 1 .. Len(s) : Append(s, x)[i] = s[i]
                                       /\ Append(s, x)[Len(s) + 1] = x
    OBVIOUS
  <2>2. Len(posted) + 1 \in Nat
    BY <1>6
  <2> QED BY <1>1, <1>6, <2>1, <2>2
<1>8. \A i \in 1 .. Len(posted') : posted'[i] = i
  <2>1. \A i \in 1 .. Len(posted) + 1 : i = Len(posted) + 1 \/ i \in 1 .. Len(posted)
    BY <1>6
  <2> QED BY <1>6, <1>7, <2>1
<1>9. ring' \in [first : Slot, last : Slot, msgs : [Slot -> Nat]]
      /\ ring'.first = ring.first /\ ring'.last = ring.last
      /\ ring'.msgs = [ring.msgs EXCEPT ![ring.last] = k + n + 1]
  <2> DEFINE m == [ring.msgs EXCEPT ![ring.last] = Len(posted) + 1]
  <2>1. ring' = [ring EXCEPT !.msgs = m]
    BY <1>1
  <2>2. m \in [Slot -> Nat]
    BY <1>6
  <2>3. m = [ring.msgs EXCEPT ![ring.last] = k + n + 1]
    BY <1>6
  <2> HIDE DEF m, n, k
  <2> QED BY <1>6, <2>1, <2>2, <2>3
<1>10. peak' \in Int /\ n + 1 <= peak' /\ peak <= peak'
  <2> HIDE DEF n
  <2> QED BY <1>1, <1>6
<1>11. RingShape'
  BY <1>1, <1>5, <1>6, <1>7, <1>8, <1>9, <1>10 DEF RingShape
<1>12. ASSUME peak' < SYS_MBOX_SIZE
       PROVE  /\ Holds(ring.first, ring.last, [ring.msgs EXCEPT ![ring.last] = k + n + 1], n + 1, k, TRUE)
              /\ \A i \in 1 .. k : taken[i] = i
  <2>1. SYS_MBOX_SIZE \in Nat
    BY Constants
  <2>2. peak < SYS_MBOX_SIZE /\ n + 1 < SYS_MBOX_SIZE
    <3> HIDE DEF n
    <3> QED BY <1>6, <1>10, <1>12, <2>1
  <2>3. /\ Holds(ring.first, ring.last, ring.msgs, n, k, Leaving)
        /\ \A i \in 1 .. k : taken[i] = i
    BY <1>1, <2>2 DEF RingOrder
  <2>4. Holds(ring.first, ring.last, ring.msgs, n, k, FALSE)
    BY <1>4, <2>3 DEF Holds
  <2> HIDE DEF n, k
  <2> QED BY <1>6, <2>2, <2>3, <2>4, HoldsStored
<1>13. Len(posted') - Len(taken') = n + 1 /\ Len(taken') = k
  BY <1>1, <1>6, <1>7
<1>14. RingOrder'
  <2> DEFINE N == Len(posted') - Len(taken')
             K == Len(taken')
  <2>1. N = n + 1 /\ K = k
    BY <1>13
  <2> SUFFICES ASSUME peak' < SYS_MBOX_SIZE
               PROVE  /\ N <= peak' /\ Holds(ring'.first, ring'.last, ring'.msgs, N, K, Leaving')
                      /\ \A i \in 1 .. K : taken'[i] = i
    BY DEF RingOrder
  <2>2. N <= peak' /\ \A i \in 1 .. K : taken'[i] = i
    BY <1>1, <1>10, <1>12, <2>1
  <2>3. Holds(ring'.first, ring'.last, ring'.msgs, N, K, TRUE)
    <3> HIDE DEF N, K, n, k
    <3> QED BY <1>9, <1>12, <2>1
  <2>4. Holds(ring'.first, ring'.last, ring'.msgs, N, K, Leaving')
    BY <1>4, <2>3 DEF Holds
  <2> QED BY <2>2, <2>4
<1> QED BY <1>3, <1>11, <1>14 DEF RingInv

\* sys_mbox_post: last moves on, and the mutex is given.
LEMMA PostLeaveKeeps ==
    ASSUME RingInv, NEW t \in Senders, mailbox!PostLeave(t)
    PROVE  RingInv'
<1> DEFINE n == Len(posted) - Len(taken)
           k == Len(taken)
<1>1. /\ RingShape /\ OneInside /\ RingOrder
      /\ at[t] \in {"first", "more"} /\ mailbox!Goes(t, "idle") /\ mutex' = 1
      /\ ring' = [ring EXCEPT !.last = mailbox!Next1(@)]
      /\ UNCHANGED <<posted, taken, peak>>
  BY DEF RingInv, mailbox!PostLeave
<1>2. Moves(t, "idle") /\ Inside(t)
  BY <1>1 DEF Moves, Thread, Where, Inside
<1>3. OneInside'
  BY <1>1, <1>2, OneInsideKept
<1>4. Leaving /\ ~Leaving'
  BY <1>1, <1>2, LeavingOf
<1>5. at' \in [Thread -> Where]
  BY <1>1, <1>2, MovesFacts DEF RingShape
<1>6. /\ ring \in [first : Slot, last : Slot, msgs : [Slot -> Nat]]
      /\ ring.first \in Slot /\ ring.last \in Slot
      /\ posted \in Seq(Nat) /\ taken \in Seq(Nat) /\ k \in Nat /\ n \in Int
  BY <1>1 DEF RingShape
<1>7. mailbox!Next1(ring.last) \in Slot
  BY <1>6, BehindFacts
<1>8. /\ ring' \in [first : Slot, last : Slot, msgs : [Slot -> Nat]]
      /\ ring'.first = ring.first /\ ring'.msgs = ring.msgs /\ ring'.last = mailbox!Next1(ring.last)
  BY <1>1, <1>6, <1>7
<1>9. RingShape'
  BY <1>1, <1>5, <1>8 DEF RingShape
<1>10. RingOrder'
  <2> SUFFICES ASSUME peak < SYS_MBOX_SIZE
               PROVE  /\ n <= peak /\ Holds(ring'.first, ring'.last, ring'.msgs, n, k, Leaving')
                      /\ \A i \in 1 .. k : taken[i] = i
    BY <1>1 DEF RingOrder
  <2>1. /\ n <= peak /\ Holds(ring.first, ring.last, ring.msgs, n, k, Leaving)
        /\ \A i \in 1 .. k : taken[i] = i
    BY <1>1 DEF RingOrder
  <2>2. Holds(ring.first, ring.last, ring.msgs, n, k, TRUE)
    BY <1>4, <2>1 DEF Holds
  <2>3. Holds(ring'.first, ring'.last, ring'.msgs, n, k, FALSE)
    <3> HIDE DEF n, k
    <3> QED BY <1>6, <1>8, <2>2, HoldsMoved
  <2>4. Holds(ring'.first, ring'.last, ring'.msgs, n, k, Leaving')
    BY <1>4, <2>3 DEF Holds
  <2> QED BY <2>1, <2>4
<1> QED BY <1>3, <1>9, <1>10 DEF RingInv

\* sys_arch_mbox_fetch: the message in the slot of first is taken.
LEMMA FetchTakeKeeps ==
    ASSUME RingInv, mailbox!FetchTake
    PROVE  RingInv'
<1> DEFINE n == Len(posted) - Len(taken)
           k == Len(taken)
           t == "reader"
<1>1. /\ RingShape /\ OneInside /\ RingOrder
      /\ at[t] = "look" /\ mailbox!Goes(t, "idle") /\ mutex' = 1 /\ ring.first # ring.last
      /\ taken' = Append(taken, ring.msgs[ring.first])
      /\ ring' = [ring EXCEPT !.first = mailbox!Next1(@)]
      /\ UNCHANGED <<posted, peak>>
  BY DEF RingInv, mailbox!FetchTake
<1>2. Moves(t, "idle") /\ Inside(t)
  BY <1>1 DEF Moves, Thread, Where, Inside
<1>3. OneInside'
  BY <1>1, <1>2, OneInsideKept
<1>4. ~Leaving /\ ~Leaving'
  BY <1>1, <1>2, LeavingOf
<1>5. at' \in [Thread -> Where]
  BY <1>1, <1>2, MovesFacts DEF RingShape
<1>6. /\ ring \in [first : Slot, last : Slot, msgs : [Slot -> Nat]]
      /\ ring.first \in Slot /\ ring.last \in Slot /\ ring.msgs \in [Slot -> Nat]
      /\ posted \in Seq(Nat) /\ taken \in Seq(Nat) /\ k \in Nat /\ n \in Int /\ peak \in Int
  BY <1>1 DEF RingShape
<1>7. mailbox!Next1(ring.first) \in Slot /\ ring.msgs[ring.first] \in Nat
  BY <1>6, BehindFacts
<1>8. /\ ring' \in [first : Slot, last : Slot, msgs : [Slot -> Nat]]
      /\ ring'.first = mailbox!Next1(ring.first) /\ ring'.msgs = ring.msgs /\ ring'.last = ring.last
  BY <1>1, <1>6, <1>7
<1>9. /\ taken' \in Seq(Nat) /\ Len(taken') = k + 1
      /\ \A i \in 1 .. k : taken'[i] = taken[i]
      /\ taken'[k + 1] = ring.msgs[ring.first]
  <2>1. \A s \in Seq(Nat), x \in Nat : /\ Append(s, x) \in Seq(Nat) /\ Len(Append(s, x)) = Len(s) + 1
                                       /\ \A i \in 1 .. Len(s) : Append(s, x)[i] = s[i]
                                       /\ Append(s, x)[Len(s) + 1] = x
    OBVIOUS
  <2> QED BY <1>1, <1>6, <1>7, <2>1
<1>10. RingShape'
  BY <1>1, <1>5, <1>8, <1>9 DEF RingShape
<1>11. Len(posted') - Len(taken') = n - 1
  <2>1. Len(posted) \in Nat
    BY <1>6
  <2> QED BY <1>1, <1>6, <1>9, <2>1
<1>12. RingOrder'
  <2> DEFINE N == Len(posted') - Len(taken')
             K == Len(taken')
  <2>1. N = n - 1 /\ K = k + 1
    BY <1>9, <1>11
  <2> SUFFICES ASSUME peak < SYS_MBOX_SIZE
               PROVE  /\ N <= peak /\ Holds(ring'.first, ring'.last, ring'.msgs, N, K, Leaving')
                      /\ \A i \in 1 .. K : taken'[i] = i
    BY <1>1 DEF RingOrder
  <2>2. /\ n <= peak /\ Holds(ring.first, ring.last, ring.msgs, n, k, Leaving)
        /\ \A i \in 1 .. k : taken[i] = i
    BY <1>1 DEF RingOrder
  <2>3. Holds(ring.first, ring.last, ring.msgs, n, k, FALSE)
    BY <1>4, <2>2 DEF Holds
  <2> HIDE DEF N, K, n, k
  <2>4. ring.msgs[ring.first] = k + 1
        /\ Holds(mailbox!Next1(ring.first), ring.last, ring.msgs, n - 1, k + 1, FALSE)
    BY <1>1, <1>6, <2>3, HoldsTaken
  <2>5. Holds(ring'.first, ring'.last, ring'.msgs, N, K, FALSE)
    BY <1>8, <2>1, <2>4
  <2>6. Holds(ring'.first, ring'.last, ring'.msgs, N, K, Leaving')
    BY <1>4, <2>5 DEF Holds
  <2>7. N <= peak
    BY <1>6, <2>1, <2>2
  <2>8. \A i \in 1 .. K : taken'[i] = i
    <3>1. \A i \in 1 .. K : i = k + 1 \/ i \in 1 .. k
      BY <1>6, <2>1
    <3> QED BY <1>9, <2>2, <2>4, <3>1
  <2> QED BY <2>6, <2>7, <2>8
<1> QED BY <1>3, <1>10, <1>12 DEF RingInv

\* A step that moves a thread and leaves the ring alone.
LEMMA MoveKeeps ==
    ASSUME RingInv, UNCHANGED <<ring, posted, taken, peak>>, mutex' \in {0, 1}, NEW t, NEW pc,
           Moves(t, pc), at[t] \notin {"first", "more"}, pc \notin {"first", "more"},
           \/ mutex = 1 /\ mutex' = 0
           \/ pc \notin {"put", "first", "more", "look"} /\ Inside(t) /\ mutex' = 1
           \/ pc \notin {"put", "first", "more", "look"} /\ mutex' = mutex
    PROVE  RingInv'
<1>1. RingShape /\ OneInside
  BY DEF RingInv
<1>2. OneInside'
  BY <1>1, OneInsideKept
<1>3. Leaving' <=> Leaving
  BY <1>1, LeavingOf
<1>4. at' \in [Thread -> Where]
  BY <1>1, MovesFacts DEF RingShape
<1> QED BY <1>2, <1>3, <1>4, RingKept

LEMMA RingInvNext == RingInv /\ [mailbox!Next]_mailboxVars => RingInv'
<1> SUFFICES ASSUME RingInv, [mailbox!Next]_mailboxVars PROVE RingInv'
  OBVIOUS
<1>1. ASSUME UNCHANGED <<ring, mutex, at, posted, taken, peak>> PROVE RingInv'
  <2>1. RingShape' /\ OneInside' /\ Leaving' = Leaving
    BY <1>1 DEF RingInv, RingShape, OneInside, Inside, Leaving
  <2> QED BY <1>1, <2>1 DEF RingInv, RingOrder
<1>2. "reader" \in Thread /\ Senders \subseteq Thread /\ mutex \in {0, 1}
  BY DEF Thread, RingInv, RingShape
<1>3. ASSUME NEW t \in Senders, mailbox!PostEnter(t) PROVE RingInv'
  <2>1. Moves(t, "put") /\ at[t] = "idle" /\ mutex = 1 /\ mutex' = 0
        /\ UNCHANGED <<ring, posted, taken, peak>>
    BY <1>2, <1>3 DEF mailbox!PostEnter, Moves, Where
  <2> QED BY <2>1, MoveKeeps
<1>4. CASE mailbox!FetchEnter \/ mailbox!FetchAgain
  <2>1. Moves("reader", "look") /\ at["reader"] \in {"idle", "again"} /\ mutex = 1 /\ mutex' = 0
        /\ UNCHANGED <<ring, posted, taken, peak>>
    BY <1>2, <1>4 DEF mailbox!FetchEnter, mailbox!FetchAgain, Moves, Where
  <2> QED BY <2>1, MoveKeeps
<1>5. CASE mailbox!FetchEmpty
  <2>1. Moves("reader", "wait") /\ at["reader"] = "look" /\ Inside("reader") /\ mutex' = 1
        /\ UNCHANGED <<ring, posted, taken, peak>>
    BY <1>2, <1>5 DEF mailbox!FetchEmpty, Moves, Where, Inside
  <2> QED BY <2>1, MoveKeeps
<1>6. CASE mailbox!FetchMail
  <2>1. Moves("reader", "again") /\ at["reader"] = "wait" /\ mutex' = mutex
        /\ UNCHANGED <<ring, posted, taken, peak>>
    BY <1>2, <1>6 DEF mailbox!FetchMail, Moves, Where
  <2> QED BY <1>2, <2>1, MoveKeeps
<1>7. CASE mailbox!FetchTimedOut
  <2>1. Moves("reader", "idle") /\ at["reader"] = "wait" /\ mutex' = mutex
        /\ UNCHANGED <<ring, posted, taken, peak>>
    BY <1>2, <1>7 DEF mailbox!FetchTimedOut, mailbox!box, Moves, Where
  <2> QED BY <1>2, <2>1, MoveKeeps
<1>8. CASE mailbox!FetchTimer
  BY <1>1, <1>8 DEF mailbox!FetchTimer, mailbox!box
<1>9. CASE UNCHANGED mailboxVars
  BY <1>1, <1>9 DEF mailboxVars
<1> QED BY <1>3, <1>4, <1>5, <1>6, <1>7, <1>8, <1>9, FetchTakeKeeps, PostStoreKeeps, PostLeaveKeeps
           DEF mailbox!Next, mailbox!Fetch, mailbox!Post
-----------------------------------------------------------------------------
(* The theorem                                                             *)

LEMMA RingInOrder == RingInv => mailbox!InOrder
<1> SUFFICES ASSUME RingInv, peak < SYS_MBOX_SIZE PROVE mailbox!IsPrefix(taken, posted)
  BY DEF mailbox!InOrder
<1> DEFINE k == Len(taken)
<1>1. /\ posted \in Seq(Nat) /\ taken \in Seq(Nat) /\ k \in Nat /\ Len(posted) \in Nat
      /\ \A i \in 1 .. Len(posted) : posted[i] = i
      /\ \A i \in 1 .. k : taken[i] = i
      /\ 0 <= Len(posted) - k
  BY SMTT(60) DEF RingInv, RingShape, RingOrder, Holds
<1>2. \A s \in Seq(Nat) : \A m \in 0 .. Len(s) : SubSeq(s, 1, m) = [i \in 1 .. m |-> s[i]]
  OBVIOUS
<1>3. k <= Len(posted) /\ k \in 0 .. Len(taken) /\ k \in 0 .. Len(posted)
  BY <1>1
<1>4. SubSeq(taken, 1, k) = [i \in 1 .. k |-> taken[i]] /\ SubSeq(posted, 1, k) = [i \in 1 .. k |-> posted[i]]
  <2> HIDE DEF k
  <2> QED BY <1>1, <1>2, <1>3
<1>5. \A i \in 1 .. k : taken[i] = posted[i]
  BY <1>1, <1>3
<1>6. SubSeq(taken, 1, k) = SubSeq(posted, 1, k)
  BY <1>4, <1>5
<1> QED BY <1>3, <1>6 DEF mailbox!IsPrefix

LEMMA DeltaExact == DeltaInv => mailbox!DeltasExact
<1> SUFFICES ASSUME DeltaInv PROVE mailbox!DeltasExact
  OBVIOUS
<1>1. /\ timeouts \in Seq(Entry) /\ (timeouts # << >> => Listed(timeouts, Timer))
      /\ ExactTimes(timeouts, due) /\ DOMAIN timeouts = 1 .. Len(timeouts)
  BY DEF DeltaInv
<1> DEFINE handlers == {timeouts[i].h : i \in DOMAIN timeouts}
<1>2. CASE timeouts = << >>
  <2>1. DOMAIN timeouts = {}
    BY <1>2
  <2>2. handlers = {}
    BY <2>1
  <2> QED BY <2>1, <2>2 DEF mailbox!DeltasExact
<1>3. CASE timeouts # << >>
  <2>1. handlers = Timer
    BY <1>1, <1>3 DEF Listed
  <2>2. \A i \in DOMAIN timeouts : mailbox!Abs(timeouts, i) = due[timeouts[i].h]
    BY <1>1 DEF ExactTimes, Abs
  <2> QED BY <2>1, <2>2 DEF mailbox!DeltasExact, Timer
<1> QED BY <1>2, <1>3

\* sys_arch.c and sys.c, whatever the number of threads that post, the size of the ring and
\* the periods of the timers: while the ring was never full, messages leave a mailbox in
\* the order in which they entered it, and the delta list says of each timer what it has
\* left to wait.
THEOREM QueuesStayExact == MCSpec => []QueuesExact
<1>1. MCInit => RingInv /\ DeltaInv
  BY RingInvInit, DeltaInvInit DEF MCInit
<1>2. RingInv /\ DeltaInv /\ [MCNext]_<<unit, vars, mailboxVars, serversVars>> => (RingInv /\ DeltaInv)'
  <2> SUFFICES ASSUME RingInv /\ DeltaInv, [MCNext]_<<unit, vars, mailboxVars, serversVars>> PROVE (RingInv /\ DeltaInv)'
    OBVIOUS
  <2>1. [mailbox!Next]_mailboxVars
    BY DEF MCNext
  <2> QED BY <2>1, RingInvNext, DeltaInvNext
<1>3. RingInv /\ DeltaInv => QueuesExact
  BY RingInOrder, DeltaExact DEF QueuesExact, mailbox!QueuesExact
<1> QED BY <1>1, <1>2, <1>3, PTL DEF MCSpec
-----------------------------------------------------------------------------
(* The sockets of the two servers                                          *)

Number == 0 .. NUM_SOCKETS - 1
Everyone == CliClients \cup WebClients
Served == {"open", "deleted"}
ClientPc == {"new", "arrived", "open", "deleted"}
Meaning == {"cli", "www", "none"} \cup Everyone

JobOf(pcs) == [pc : pcs, fd : Number \cup {-1}, for : Everyone \cup {"none"}]

SocketTypes ==
    /\ sockets \in [Number -> Meaning]
    /\ client \in [Everyone -> ClientPc]
    /\ server \in [{"cli", "www"} -> JobOf({"idle", "alloc", "hand"})]
    /\ queue \in Seq(JobOf({"hand"}))
    /\ worker \in [Workers -> JobOf({"idle", "asleep", "recv", "close", "clear"})]
    /\ thread \in [CliClients -> JobOf({"idle", "recv", "close"})]

\* The two servers are not engaged at the same time.
Arriving(C) == \E c \in C : client[c] = "arrived"
OneServer == ~ /\ server["cli"].pc # "idle" \/ Arriving(CliClients)
               /\ server["www"].pc # "idle" \/ Arriving(WebClients)

\* A job has a client that is being served, and its number stands for that client.
Stands(j) == j.for \in Everyone /\ client[j.for] \in Served /\ (j.fd # -1 => sockets[j.fd] = j.for)

\* Before alloc_socket has taken the number, it stands for nobody.
Finds(j) == j.for \in Everyone /\ client[j.for] = "arrived" /\ (j.fd # -1 => sockets[j.fd] = "none")

ServerJobs ==
    \A s \in {"cli", "www"} :
        /\ server[s].pc # "idle" => server[s].for \in (IF s = "cli" THEN CliClients ELSE WebClients)
        /\ server[s].pc = "alloc" => Finds(server[s])
        /\ server[s].pc = "hand" => Stands(server[s])

QueueJobs ==
    /\ \A k \in 1 .. Len(queue) : queue[k].for \in WebClients /\ Stands(queue[k])
    /\ \A k, l \in 1 .. Len(queue) : k # l => queue[k].for # queue[l].for

Works(w) == worker[w].pc \in {"recv", "close", "clear"}

WorkerJobs ==
    /\ \A w \in Workers : Works(w) =>
         /\ worker[w].for \in WebClients /\ Stands(worker[w])
         /\ worker[w].pc # "recv" => worker[w].fd # -1
    /\ \A v, w \in Workers : v # w /\ Works(v) /\ Works(w) => worker[v].for # worker[w].for

ThreadJobs ==
    \A t \in CliClients : thread[t].pc # "idle" =>
        /\ thread[t].for = t /\ Stands(thread[t])
        /\ thread[t].pc = "close" => thread[t].fd # -1

\* The jobs of a server, of the queue, of the workers and threads are for different clients.
JobsApart ==
    /\ \A k \in 1 .. Len(queue) : \A w \in Workers : Works(w) => queue[k].for # worker[w].for
    /\ server["www"].pc # "idle" =>
         /\ \A k \in 1 .. Len(queue) : queue[k].for # server["www"].for
         /\ \A w \in Workers : Works(w) => worker[w].for # server["www"].for
    /\ server["cli"].pc # "idle" => thread[server["cli"].for].pc = "idle"

Owned(i) == \/ server["www"].pc = "hand" /\ server["www"].fd = i
            \/ \E k \in 1 .. Len(queue) : queue[k].fd = i
            \/ \E w \in Workers : Works(w) /\ worker[w].fd = i

NoneLost == \A i \in Number : sockets[i] \in WebClients => Owned(i)

SocketInv == /\ SocketTypes /\ OneServer /\ ServerJobs /\ QueueJobs
             /\ WorkerJobs /\ ThreadJobs /\ JobsApart /\ NoneLost

LEMMA Names ==
    /\ NUM_SOCKETS \in Nat /\ NUM_SOCKETS > 1 /\ -1 \notin Number
    /\ \A c \in CliClients : c \notin WebClients
    /\ \A c \in Everyone : c \notin {"none", "wild", "cli", "www"}
    /\ servers!Clients = Everyone /\ servers!Servers = {"cli", "www"}
    /\ servers!None = "none"
    /\ servers!Of("cli") = CliClients /\ servers!Of("www") = WebClients
    /\ CliClients \subseteq Everyone /\ WebClients \subseteq Everyone
  BY TransportAssumption DEF servers!ServersAssumption, Number, Everyone, servers!Clients, servers!Of,
     servers!Servers, servers!None

LEMMA QueueTypes ==
    ASSUME SocketTypes
    PROVE  \A k \in 1 .. Len(queue) :
             queue[k] \in JobOf({"hand"}) /\ queue[k].fd \in Number \cup {-1}
<1>1. \A k \in 1 .. Len(queue) : queue[k] \in JobOf({"hand"})
  BY DEF SocketTypes, ClientPc, Meaning
<1> QED BY <1>1 DEF JobOf

\* Nobody's job changes.
LEMMA SaysKeeps ==
    ASSUME SocketInv, UNCHANGED <<sockets, client, server, queue, worker, thread>>
    PROVE  SocketInv'
  BY DEF SocketInv, SocketTypes, ClientPc, Meaning, OneServer, ServerJobs, QueueJobs, WorkerJobs, ThreadJobs, JobsApart,
     NoneLost, Owned, Works, Stands, Finds, Arriving

LEMMA ConnectKeeps ==
    ASSUME SocketInv, ~Together, NEW c \in Everyone, servers!Connect(c)
    PROVE  SocketInv'
<1> USE DEF SocketInv
<1>1. SocketTypes'
  BY DEF SocketTypes, ClientPc, Meaning, servers!Connect
<1>2. OneServer'
  BY Names DEF SocketTypes, ClientPc, Meaning, servers!Connect, OneServer, Arriving, Everyone
<1>3. ServerJobs'
  BY DEF SocketTypes, ClientPc, Meaning, servers!Connect, ServerJobs, Stands, Finds, Served
<1>4. QueueJobs'
  BY DEF SocketTypes, ClientPc, Meaning, servers!Connect, QueueJobs, Stands, Served
<1>5. WorkerJobs'
  BY DEF SocketTypes, ClientPc, Meaning, servers!Connect, WorkerJobs, Works, Stands, Served
<1>6. ThreadJobs'
  BY DEF SocketTypes, ClientPc, Meaning, servers!Connect, ThreadJobs, Stands, Served
<1>7. JobsApart' /\ NoneLost'
  BY DEF servers!Connect, JobsApart, NoneLost, Owned, Works
<1> QED BY <1>1, <1>2, <1>3, <1>4, <1>5, <1>6, <1>7

\* A client whose connection arrived has no job yet.
LEMMA ArrivedIdle ==
    ASSUME SocketInv, NEW c \in Everyone, client[c] = "arrived"
    PROVE  /\ \A k \in 1 .. Len(queue) : queue[k].for # c
           /\ \A w \in Workers : Works(w) => worker[w].for # c
           /\ c \in CliClients => thread[c].pc = "idle"
  BY DEF SocketInv, QueueJobs, WorkerJobs, ThreadJobs, Stands, Served

LEMMA FreeFound ==
    ASSUME SocketTypes
    PROVE  servers!Free \in Number \cup {-1} /\ (servers!Free # -1 => sockets[servers!Free] = "none")
<1> DEFINE I == {i \in DOMAIN sockets : sockets[i] = "none"}
<1>1. I \in SUBSET Nat /\ I \subseteq Number
  BY Names DEF SocketTypes, ClientPc, Meaning, Number
<1>2. servers!Free = IF I = {} THEN -1 ELSE servers!Min(I)
  BY Names DEF servers!Free
<1>3. ASSUME I # {} PROVE servers!Min(I) \in I
  <2>1. \E x \in I : \A y \in I : x <= y
    <3> HIDE DEF I
    <3> QED BY <1>1, <1>3, Least
  <2> QED BY <2>1 DEF servers!Min
<1> QED BY <1>1, <1>2, <1>3

LEMMA AcceptKeeps ==
    ASSUME SocketInv, NEW s \in {"cli", "www"}, servers!Accept(s)
    PROVE  SocketInv'
<1> USE DEF SocketInv
<1>1. PICK c \in servers!Of(s) :
        /\ server[s].pc = "idle" /\ client[c] = "arrived"
        /\ server' = [server EXCEPT ![s] = servers!Job("alloc", servers!Free, c)]
        /\ UNCHANGED <<sockets, client, inbox, queue, worker, thread, wild>>
  BY DEF servers!Accept
<1> DEFINE fd == servers!Free
<1>2. /\ c \in Everyone /\ (s = "cli" => c \in CliClients) /\ (s = "www" => c \in WebClients)
      /\ fd \in Number \cup {-1} /\ (fd # -1 => sockets[fd] = "none")
      /\ server' = [server EXCEPT ![s] = [pc |-> "alloc", fd |-> fd, for |-> c]]
  BY <1>1, Names, FreeFound DEF servers!Job
<1> HIDE DEF fd
<1>3. SocketTypes'
  BY <1>1, <1>2 DEF SocketTypes, ClientPc, Meaning, JobOf
<1>4. OneServer'
  BY <1>1, <1>2 DEF OneServer, Arriving, SocketTypes, ClientPc, Meaning
<1>5. ServerJobs'
  BY <1>1, <1>2 DEF ServerJobs, Stands, Finds, SocketTypes, ClientPc, Meaning
<1>6. QueueJobs' /\ WorkerJobs' /\ ThreadJobs'
  BY <1>1 DEF QueueJobs, WorkerJobs, ThreadJobs, Works, Stands
<1>7. JobsApart'
  BY <1>1, <1>2, ArrivedIdle DEF JobsApart, Works, SocketTypes, ClientPc, Meaning
<1>8. NoneLost'
  BY <1>1, <1>2 DEF NoneLost, Owned, Works, SocketTypes, ClientPc, Meaning
<1> QED BY <1>3, <1>4, <1>5, <1>6, <1>7, <1>8

LEMMA AllocKeeps ==
    ASSUME SocketInv, NEW s \in {"cli", "www"}, servers!Alloc(s)
    PROVE  SocketInv'
<1> USE DEF SocketInv
<1> DEFINE j == server[s]
<1>1. /\ j.pc = "alloc" /\ j.for \in Everyone /\ client[j.for] = "arrived"
      /\ j.fd \in Number \cup {-1} /\ (j.fd # -1 => sockets[j.fd] = "none")
      /\ (s = "cli" => j.for \in CliClients) /\ (s = "www" => j.for \in WebClients)
  BY DEF servers!Alloc, ServerJobs, Finds, SocketTypes, ClientPc, Meaning, JobOf
<1>2. /\ client' = [client EXCEPT ![j.for] = IF j.fd = -1 THEN "deleted" ELSE "open"]
      /\ sockets' = IF j.fd = -1 THEN sockets ELSE [sockets EXCEPT ![j.fd] = j.for]
      /\ server' = [server EXCEPT ![s].pc = "hand"]
      /\ UNCHANGED <<queue, worker, thread>>
  BY DEF servers!Alloc, servers!DeleteConn
<1>3. SocketTypes'
  BY <1>1, <1>2 DEF SocketTypes, ClientPc, Meaning, JobOf, Served
<1>4. OneServer'
  BY <1>1, <1>2, Names DEF OneServer, Arriving, SocketTypes, ClientPc, Meaning
\* What stood for a client before still does.
<1>5. \A c \in Everyone : client[c] \in Served => client'[c] \in Served
  BY <1>1, <1>2 DEF SocketTypes, ClientPc, Meaning, Served
<1>6. \A i \in Number : sockets[i] \in Everyone => sockets'[i] = sockets[i]
  BY <1>1, <1>2, Names DEF SocketTypes, ClientPc, Meaning
<1>7. ASSUME NEW job, job.fd \in Number \cup {-1}, Stands(job)
      PROVE  Stands(job)'
  BY <1>5, <1>6, <1>7 DEF Stands
<1>8. ServerJobs'
  <2>1. Stands(server[s])' /\ server'[s].pc = "hand" /\ server'[s].for = j.for
    BY <1>1, <1>2 DEF Stands, SocketTypes, ClientPc, Meaning, Served
  <2>2. \A u \in {"cli", "www"} : u # s => server'[u].pc = "idle"
    BY <1>1, <1>2 DEF OneServer, SocketTypes, ClientPc, Meaning
  <2> QED BY <1>1, <2>1, <2>2 DEF ServerJobs
<1>9. QueueJobs'
  <2>1. \A k \in 1 .. Len(queue) : queue[k].fd \in Number \cup {-1}
    BY QueueTypes
  <2>2. \A k \in 1 .. Len(queue) : Stands(queue[k]) => Stands(queue[k])'
    BY <1>2, <1>5, <1>6, <2>1 DEF Stands
  <2> QED BY <1>2, <2>2 DEF QueueJobs
<1>10. WorkerJobs'
  BY <1>2, <1>7 DEF WorkerJobs, SocketTypes, ClientPc, Meaning, JobOf, Works
<1>11. ThreadJobs'
  BY <1>2, <1>7 DEF ThreadJobs, SocketTypes, ClientPc, Meaning, JobOf
<1>12. JobsApart'
  BY <1>1, <1>2 DEF JobsApart, Works, SocketTypes, ClientPc, Meaning
<1>13. NoneLost'
  BY <1>1, <1>2, Names DEF NoneLost, Owned, Works, SocketTypes, ClientPc, Meaning
<1> QED BY <1>3, <1>4, <1>8, <1>9, <1>10, <1>11, <1>12, <1>13

LEMMA SpawnKeeps ==
    ASSUME SocketInv, servers!Spawn
    PROVE  SocketInv'
<1> USE DEF SocketInv
<1> DEFINE j == server["cli"]
<1>1. /\ j.pc = "hand" /\ j.for \in CliClients /\ Stands(j) /\ j.fd \in Number \cup {-1}
      /\ thread' = [thread EXCEPT ![j.for] = [pc |-> "recv", fd |-> j.fd, for |-> j.for]]
      /\ server' = [server EXCEPT !["cli"] = [pc |-> "idle", fd |-> -1, for |-> "none"]]
      /\ UNCHANGED <<sockets, client, queue, worker>>
  BY DEF servers!Spawn, servers!Job, servers!Idle, servers!None, ServerJobs, SocketTypes, ClientPc, Meaning, JobOf
<1>3. SocketTypes'
  BY <1>1, Names DEF SocketTypes, ClientPc, Meaning, JobOf
<1>4. OneServer'
  BY <1>1 DEF OneServer, Arriving, SocketTypes, ClientPc, Meaning
<1>5. ServerJobs'
  BY <1>1 DEF ServerJobs, Stands, Finds, SocketTypes, ClientPc, Meaning
<1>6. QueueJobs' /\ WorkerJobs'
  BY <1>1 DEF QueueJobs, WorkerJobs, Works, Stands
<1>7. ThreadJobs'
  BY <1>1 DEF ThreadJobs, Stands, SocketTypes, ClientPc, Meaning
<1>8. JobsApart'
  BY <1>1 DEF JobsApart, Works, SocketTypes, ClientPc, Meaning
<1>9. NoneLost'
  BY <1>1 DEF NoneLost, Owned, Works, SocketTypes, ClientPc, Meaning
<1> QED BY <1>3, <1>4, <1>5, <1>6, <1>7, <1>8, <1>9

LEMMA PushKeeps ==
    ASSUME SocketInv, servers!Push
    PROVE  SocketInv'
<1> USE DEF SocketInv
<1> DEFINE j == server["www"]
           n == Len(queue)
<1>1. /\ j.pc = "hand" /\ j.for \in WebClients /\ Stands(j) /\ j.fd \in Number \cup {-1}
      /\ queue' = Append(queue, j) /\ j \in JobOf({"hand"})
      /\ worker' = [w \in Workers |-> IF worker[w].pc = "asleep"
                                        THEN [pc |-> "idle", fd |-> -1, for |-> "none"] ELSE worker[w]]
      /\ server' = [server EXCEPT !["www"] = [pc |-> "idle", fd |-> -1, for |-> "none"]]
      /\ UNCHANGED <<sockets, client, thread>>
  BY DEF servers!Push, servers!Idle, servers!None, ServerJobs, SocketTypes, ClientPc, Meaning, JobOf
<1>2. /\ n \in Nat /\ Len(queue') = n + 1 /\ queue'[n + 1] = j
      /\ \A k \in 1 .. n : queue'[k] = queue[k]
      /\ \A k \in 1 .. n + 1 : k \in 1 .. n \/ k = n + 1
  BY <1>1 DEF SocketTypes, ClientPc, Meaning
<1>3. SocketTypes'
  BY <1>1 DEF SocketTypes, ClientPc, Meaning, JobOf
<1>a. \A w \in Workers : Works(w)' <=> Works(w)
  BY <1>1 DEF Works
<1>b. \A w \in Workers : Works(w) => worker'[w] = worker[w]
  BY <1>1 DEF Works
<1>4. OneServer'
  BY <1>1 DEF OneServer, Arriving, SocketTypes, ClientPc, Meaning
<1>5. ServerJobs'
  BY <1>1 DEF ServerJobs, Stands, Finds, SocketTypes, ClientPc, Meaning
<1> HIDE DEF n, j
<1>6. QueueJobs'
  BY <1>1, <1>2 DEF QueueJobs, JobsApart, Stands, j
<1>7. WorkerJobs' /\ ThreadJobs'
  BY <1>1, <1>a, <1>b DEF WorkerJobs, ThreadJobs, Stands
<1>8. JobsApart'
  BY <1>1, <1>2, <1>a, <1>b DEF JobsApart, SocketTypes, ClientPc, Meaning, j, n
<1>9. NoneLost'
  <2> SUFFICES ASSUME NEW i \in Number, sockets[i] \in WebClients
               PROVE  Owned(i)'
    BY <1>1 DEF NoneLost
  <2>1. CASE j.fd = i
    BY <1>1, <1>2, <2>1 DEF Owned
  <2>2. CASE \E k \in 1 .. n : queue[k].fd = i
    BY <1>2, <2>2 DEF Owned
  <2>3. CASE \E w \in Workers : Works(w) /\ worker[w].fd = i
    BY <1>a, <1>b, <2>3 DEF Owned
  <2> QED BY <2>1, <2>2, <2>3 DEF NoneLost, Owned, j, n
<1> QED BY <1>3, <1>4, <1>5, <1>6, <1>7, <1>8, <1>9

WorkerPc == {"idle", "asleep", "recv", "close", "clear"}
ThreadPc == {"idle", "recv", "close"}
NoJob == [pc |-> "idle", fd |-> -1, for |-> "none"]

\* A step of one worker.
LEMMA WorkerMoves ==
    ASSUME SocketTypes, NEW w \in Workers, NEW j \in JobOf(WorkerPc), worker' = [worker EXCEPT ![w] = j]
    PROVE  /\ worker' \in [Workers -> JobOf(WorkerPc)]
           /\ worker'[w] = j /\ (Works(w)' <=> j.pc \in {"recv", "close", "clear"})
           /\ \A v \in Workers : v # w => worker'[v] = worker[v] /\ (Works(v)' <=> Works(v))
<1>1. /\ worker \in [Workers -> JobOf(WorkerPc)] /\ worker'[w] = j
      /\ \A v \in Workers : v # w => worker'[v] = worker[v]
  BY DEF SocketTypes, ClientPc, Meaning, WorkerPc
<1>2. worker' \in [Workers -> JobOf(WorkerPc)]
  BY <1>1
<1> QED BY <1>1, <1>2 DEF Works

LEMMA PcMoves ==
    ASSUME SocketTypes, NEW w \in Workers, NEW p \in WorkerPc, worker' = [worker EXCEPT ![w].pc = p]
    PROVE  /\ worker' = [worker EXCEPT ![w] = [pc |-> p, fd |-> worker[w].fd, for |-> worker[w].for]]
           /\ [pc |-> p, fd |-> worker[w].fd, for |-> worker[w].for] \in JobOf(WorkerPc)
<1>1. worker[w] \in JobOf(WorkerPc)
  BY DEF SocketTypes, ClientPc, Meaning, WorkerPc
<1>2. [worker[w] EXCEPT !.pc = p] = [pc |-> p, fd |-> worker[w].fd, for |-> worker[w].for]
  BY <1>1 DEF JobOf
<1>3. worker' = [worker EXCEPT ![w] = [worker[w] EXCEPT !.pc = p]]
  OBVIOUS
<1>4. [pc |-> p, fd |-> worker[w].fd, for |-> worker[w].for] \in JobOf(WorkerPc)
  BY <1>1 DEF JobOf
<1> QED BY <1>2, <1>3, <1>4

LEMMA NoJobIsOne == NoJob \in JobOf(WorkerPc) /\ NoJob \in JobOf(ThreadPc) /\ NoJob.pc = "idle"
  BY DEF NoJob, JobOf, WorkerPc, ThreadPc

LEMMA RestKeeps ==
    ASSUME SocketInv, NEW w \in Workers, servers!Rest(w)
    PROVE  SocketInv'
<1> USE DEF SocketInv
<1>1. /\ worker[w].pc \in {"idle", "asleep"}
      /\ \/ worker' = [worker EXCEPT ![w].pc = "asleep"]
         \/ worker' = [worker EXCEPT ![w] = NoJob]
      /\ UNCHANGED <<sockets, client, server, queue, thread>>
  BY DEF servers!Rest, servers!Sleep, servers!WakeUp, servers!Idle, servers!None, NoJob
<1>2. PICK j \in JobOf(WorkerPc) : worker' = [worker EXCEPT ![w] = j] /\ j.pc \in {"idle", "asleep"}
  <2>1. CASE worker' = [worker EXCEPT ![w].pc = "asleep"]
    BY <2>1, PcMoves DEF WorkerPc
  <2>2. CASE worker' = [worker EXCEPT ![w] = NoJob]
    BY <2>2, NoJobIsOne
  <2> QED BY <1>1, <2>1, <2>2
<1>3. /\ worker' \in [Workers -> JobOf(WorkerPc)]
      /\ \A v \in Workers : Works(v)' <=> Works(v)
      /\ \A v \in Workers : Works(v) => worker'[v] = worker[v]
  BY <1>1, <1>2, WorkerMoves DEF Works
<1>a. SocketTypes'
  BY <1>1, <1>3 DEF SocketTypes, ClientPc, Meaning, WorkerPc
<1>4. OneServer' /\ ServerJobs' /\ QueueJobs' /\ ThreadJobs'
  BY <1>1 DEF OneServer, Arriving, ServerJobs, Stands, Finds, QueueJobs, ThreadJobs
<1>5. WorkerJobs'
  BY <1>1, <1>3 DEF WorkerJobs, Stands
<1>6. JobsApart' /\ NoneLost'
  BY <1>1, <1>3 DEF JobsApart, NoneLost, Owned
<1> QED BY <1>a, <1>4, <1>5, <1>6

LEMMA TakeKeeps ==
    ASSUME SocketInv, NEW w \in Workers, servers!Take(w)
    PROVE  SocketInv'
<1> USE DEF SocketInv
<1> DEFINE n == Len(queue)
           j == queue[1]
<1>1. /\ worker[w].pc = "idle" /\ n \in Nat /\ n > 0
      /\ worker' = [worker EXCEPT ![w] = [pc |-> "recv", fd |-> j.fd, for |-> j.for]]
      /\ queue' = Tail(queue)
      /\ UNCHANGED <<sockets, client, server, thread>>
  <2>1. queue \in Seq(JobOf({"hand"})) /\ queue # <<>>
    BY DEF servers!Take, SocketTypes, ClientPc, Meaning
  <2>2. n \in Nat /\ n > 0 /\ Head(queue) = j
    BY <2>1
  <2> QED BY <2>2 DEF servers!Take, servers!Job, servers!Pop
<1>2. /\ queue' \in Seq(JobOf({"hand"})) /\ Len(queue') = n - 1
      /\ \A k \in 1 .. n - 1 : queue'[k] = queue[k + 1]
  BY <1>1 DEF SocketTypes, ClientPc, Meaning
<1>3. /\ j \in JobOf({"hand"}) /\ j.fd \in Number \cup {-1} /\ j.for \in WebClients /\ Stands(j)
      /\ 1 \in 1 .. n /\ \A k \in 1 .. n - 1 : k + 1 \in 1 .. n /\ k + 1 # 1
      /\ \A k \in 1 .. n : k # 1 => k - 1 \in 1 .. n - 1 /\ (k - 1) + 1 = k
  BY <1>1, QueueTypes DEF QueueJobs
<1>4. /\ worker' \in [Workers -> JobOf(WorkerPc)]
      /\ worker'[w] = [pc |-> "recv", fd |-> j.fd, for |-> j.for] /\ Works(w)' /\ ~Works(w)
      /\ \A v \in Workers : v # w => worker'[v] = worker[v] /\ (Works(v)' <=> Works(v))
  <2> DEFINE i == [pc |-> "recv", fd |-> j.fd, for |-> j.for]
  <2>1. i \in JobOf(WorkerPc) /\ i.pc = "recv"
    BY <1>3 DEF JobOf, WorkerPc
  <2>2. worker' = [worker EXCEPT ![w] = i]
    BY <1>1
  <2>3. ~Works(w)
    BY <1>1 DEF Works
  <2> HIDE DEF i
  <2>4. /\ worker' \in [Workers -> JobOf(WorkerPc)]
        /\ worker'[w] = i /\ Works(w)'
        /\ \A v \in Workers : v # w => worker'[v] = worker[v] /\ (Works(v)' <=> Works(v))
    BY <2>1, <2>2, WorkerMoves
  <2> QED BY <2>3, <2>4 DEF i
<1> HIDE DEF n, j
<1>6. SocketTypes'
  BY <1>1, <1>2, <1>4 DEF SocketTypes, ClientPc, Meaning, WorkerPc
<1>7. OneServer' /\ ServerJobs' /\ ThreadJobs'
  BY <1>1 DEF OneServer, Arriving, ServerJobs, Stands, Finds, ThreadJobs
<1>8. QueueJobs'
  BY <1>1, <1>2, <1>3 DEF QueueJobs, Stands, n
<1>9. WorkerJobs'
  BY <1>1, <1>3, <1>4 DEF WorkerJobs, JobsApart, Stands, j, n
<1>10. JobsApart'
  BY <1>1, <1>2, <1>3, <1>4 DEF JobsApart, QueueJobs, j, n
<1>11. NoneLost'
  <2> SUFFICES ASSUME NEW i \in Number, sockets[i] \in WebClients
               PROVE  Owned(i)'
    BY <1>1 DEF NoneLost
  <2>1. CASE server["www"].pc = "hand" /\ server["www"].fd = i
    BY <1>1, <2>1 DEF Owned
  <2>2. CASE \E k \in 1 .. n : queue[k].fd = i
    <3>1. PICK k \in 1 .. n : queue[k].fd = i
      BY <2>2
    <3>2. CASE k = 1
      BY <1>4, <3>1, <3>2 DEF Owned, j
    <3>3. CASE k # 1
      BY <1>2, <1>3, <3>1, <3>3 DEF Owned
    <3> QED BY <3>2, <3>3
  <2>3. CASE \E v \in Workers : Works(v) /\ worker[v].fd = i
    BY <1>4, <2>3 DEF Owned
  <2> QED BY <2>1, <2>2, <2>3 DEF NoneLost, Owned, n
<1> QED BY <1>6, <1>7, <1>8, <1>9, <1>10, <1>11

\* The number of a job: it is its client's, or it was refused.
LEMMA NumberGot ==
    ASSUME SocketInv, NEW job \in JobOf({"recv", "close", "clear"}), Stands(job)
    PROVE  /\ job.fd # -1 => servers!GetSocket(job.fd) = {job.for}
           /\ job.fd = -1 => \A c \in servers!GetSocket(job.fd) : c \notin Everyone
           /\ job.for \in Everyone
<1>1. job.fd # -1 => job.fd >= 0
  BY Names DEF JobOf, Number
<1>2. job.fd = -1 => ~(job.fd >= 0)
  OBVIOUS
<1> QED BY <1>1, <1>2, Names DEF servers!GetSocket, Stands

LEMMA ServeKeeps ==
    ASSUME SocketInv, NEW w \in Workers, servers!Serve(w)
    PROVE  SocketInv'
<1> USE DEF SocketInv
<1> DEFINE j == worker[w]
<1>1. PICK c \in servers!GetSocket(j.fd) :
        \/ /\ c \in Everyone
           /\ \E pc \in {"recv", "close"} : worker' = [worker EXCEPT ![w].pc = pc]
        \/ /\ c \notin Everyone
           /\ worker' = [worker EXCEPT ![w] = NoJob]
  BY Names DEF servers!Serve, servers!CanRecv, servers!Idle, NoJob
<1>2. j.pc = "recv" /\ UNCHANGED <<sockets, client, server, queue, thread>>
  BY DEF servers!Serve
<1>3. /\ Works(w) /\ j \in JobOf({"recv", "close", "clear"}) /\ Stands(j) /\ j.for \in WebClients
  BY <1>2 DEF Works, WorkerJobs, SocketTypes, ClientPc, Meaning, JobOf
<1>4. /\ j.fd = -1 => c \notin Everyone
      /\ j.fd # -1 => c \in Everyone
  BY <1>1, <1>3, NumberGot
<1>a. PICK i \in JobOf(WorkerPc) :
        /\ worker' = [worker EXCEPT ![w] = i]
        /\ i.pc \in {"recv", "close"} => i.fd = j.fd /\ i.for = j.for /\ j.fd # -1
        /\ j.fd # -1 => i.pc \in {"recv", "close"}
        /\ i.pc # "clear"
  <2>1. ASSUME NEW pc \in {"recv", "close"}, c \in Everyone, worker' = [worker EXCEPT ![w].pc = pc]
        PROVE  [pc |-> pc, fd |-> j.fd, for |-> j.for] \in JobOf(WorkerPc)
               /\ worker' = [worker EXCEPT ![w] = [pc |-> pc, fd |-> j.fd, for |-> j.for]]
    BY <2>1, PcMoves DEF WorkerPc
  <2>2. CASE c \in Everyone
    BY <1>1, <1>4, <2>1, <2>2
  <2>3. CASE c \notin Everyone
    BY <1>1, <1>4, <2>3, NoJobIsOne
  <2> QED BY <2>2, <2>3
<1>5. /\ worker' \in [Workers -> JobOf(WorkerPc)]
      /\ \A v \in Workers : v # w => worker'[v] = worker[v] /\ (Works(v)' <=> Works(v))
      /\ Works(w)' => worker'[w].fd = j.fd /\ worker'[w].for = j.for /\ j.fd # -1
      /\ j.fd # -1 => Works(w)'
  BY <1>a, WorkerMoves
<1>6. SocketTypes'
  BY <1>2, <1>5 DEF SocketTypes, ClientPc, Meaning, WorkerPc
<1>7. OneServer' /\ ServerJobs' /\ ThreadJobs' /\ QueueJobs'
  BY <1>2 DEF OneServer, Arriving, ServerJobs, Stands, Finds, ThreadJobs, QueueJobs
<1>8. WorkerJobs'
  BY <1>2, <1>3, <1>5 DEF WorkerJobs, Stands
<1>9. JobsApart'
  BY <1>2, <1>3, <1>5 DEF JobsApart
<1>10. NoneLost'
  BY <1>2, <1>3, <1>5, Names DEF NoneLost, Owned
<1> QED BY <1>6, <1>7, <1>8, <1>9, <1>10

\* netconn_delete of a client that is being served.
LEMMA ClientDeleted ==
    ASSUME SocketTypes, NEW c \in Everyone, client[c] \in Served, servers!DeleteConn(c)
    PROVE  /\ client' \in [Everyone -> ClientPc]
           /\ \A d \in Everyone : client[d] = "arrived" => client'[d] = "arrived"
           /\ \A d \in Everyone : client[d] \in Served => client'[d] \in Served
           /\ Arriving(CliClients)' => Arriving(CliClients)
           /\ Arriving(WebClients)' => Arriving(WebClients)
<1>1. client' = [client EXCEPT ![c] = "deleted"]
  BY DEF servers!DeleteConn
<1>2. /\ client' \in [Everyone -> ClientPc] /\ client'[c] = "deleted"
      /\ \A d \in Everyone : d # c => client'[d] = client[d]
  BY <1>1 DEF SocketTypes, ClientPc
<1>3. \A d \in Everyone : /\ client[d] = "arrived" => client'[d] = "arrived"
                          /\ client[d] \in Served => client'[d] \in Served
                          /\ client'[d] = "arrived" => client[d] = "arrived"
  BY <1>2 DEF Served
<1>4. CliClients \subseteq Everyone /\ WebClients \subseteq Everyone
  BY DEF Everyone
<1>5. Arriving(CliClients)' => Arriving(CliClients)
  BY <1>3, <1>4 DEF Arriving
<1>6. Arriving(WebClients)' => Arriving(WebClients)
  BY <1>3, <1>4 DEF Arriving
<1> QED BY <1>2, <1>3, <1>5, <1>6

LEMMA DeleteOneKeeps ==
    ASSUME SocketInv, NEW w \in Workers, servers!Delete(w)
    PROVE  SocketInv'
<1> USE DEF SocketInv
<1> DEFINE j == worker[w]
           i == [pc |-> "clear", fd |-> j.fd, for |-> j.for]
<1>1. /\ j.pc = "close" /\ Works(w) /\ j.fd # -1 /\ Stands(j) /\ j.for \in WebClients
  BY DEF servers!Delete, Works, WorkerJobs
<1>2. /\ UNCHANGED <<sockets, server, queue, thread>> /\ servers!DeleteConn(j.for)
      /\ worker' = [worker EXCEPT ![w].pc = "clear"]
  BY <1>1 DEF servers!Delete, Stands
<1>3. i \in JobOf(WorkerPc) /\ worker' = [worker EXCEPT ![w] = i]
  BY <1>2, PcMoves DEF WorkerPc
<1>4. /\ worker' \in [Workers -> JobOf(WorkerPc)]
      /\ worker'[w] = i /\ Works(w)'
      /\ \A v \in Workers : v # w => worker'[v] = worker[v] /\ (Works(v)' <=> Works(v))
  BY <1>3, WorkerMoves
<1>5. /\ client' \in [Everyone -> ClientPc]
      /\ \A d \in Everyone : client[d] = "arrived" => client'[d] = "arrived"
      /\ \A d \in Everyone : client[d] \in Served => client'[d] \in Served
      /\ Arriving(CliClients)' => Arriving(CliClients)
      /\ Arriving(WebClients)' => Arriving(WebClients)
  BY <1>1, <1>2, ClientDeleted DEF Stands
<1>6. \A v \in Workers : Works(v)' <=> Works(v)
  BY <1>1, <1>4
<1>7. \A v \in Workers : worker'[v].fd = worker[v].fd /\ worker'[v].for = worker[v].for
  BY <1>4
<1>8. SocketTypes'
  BY <1>2, <1>4, <1>5 DEF SocketTypes, WorkerPc
<1>9. OneServer'
  BY <1>2, <1>5 DEF OneServer
<1>10. ServerJobs' /\ QueueJobs' /\ ThreadJobs'
  BY <1>2, <1>5 DEF ServerJobs, QueueJobs, ThreadJobs, Stands, Finds
<1>11. WorkerJobs'
  BY <1>1, <1>2, <1>4, <1>5, <1>6, <1>7 DEF WorkerJobs, Stands
<1>12. JobsApart' /\ NoneLost'
  BY <1>2, <1>6, <1>7 DEF JobsApart, NoneLost, Owned
<1> QED BY <1>8, <1>9, <1>10, <1>11, <1>12

\* lwip_close frees a number: the other jobs keep theirs.
LEMMA NumberFreed ==
    ASSUME SocketTypes, NEW fd \in Number, NEW c \in Everyone, sockets[fd] = c, servers!Clear(fd),
           \A d \in Everyone : client[d] \in Served => client'[d] \in Served
    PROVE  /\ sockets' \in [Number -> Meaning]
           /\ sockets'[fd] = "none" /\ \A i \in Number : i # fd => sockets'[i] = sockets[i]
<1>1. sockets' = [sockets EXCEPT ![fd] = "none"]
  BY DEF servers!Clear, servers!None
<1> QED BY <1>1 DEF SocketTypes, ClientPc, Meaning

LEMMA ClearNumberKeeps ==
    ASSUME SocketInv, NEW w \in Workers, servers!ClearNumber(w)
    PROVE  SocketInv'
<1> USE DEF SocketInv
<1> DEFINE j == worker[w]
<1>1. /\ Works(w) /\ j.fd # -1 /\ Stands(j) /\ j.for \in WebClients /\ j.for \in Everyone
      /\ sockets[j.fd] = j.for /\ j.fd \in Number
  BY DEF servers!ClearNumber, Works, WorkerJobs, Stands, SocketTypes, ClientPc, Meaning, JobOf
<1>2. /\ UNCHANGED <<client, server, queue, thread>> /\ servers!Clear(j.fd)
      /\ worker' = [worker EXCEPT ![w] = NoJob]
  BY DEF servers!ClearNumber, servers!Idle, servers!None, NoJob
<1>3. /\ worker' \in [Workers -> JobOf(WorkerPc)] /\ ~Works(w)'
      /\ \A v \in Workers : v # w => worker'[v] = worker[v] /\ (Works(v)' <=> Works(v))
  BY <1>2, WorkerMoves, NoJobIsOne
<1>4. /\ sockets' \in [Number -> Meaning]
      /\ sockets'[j.fd] = "none" /\ \A i \in Number : i # j.fd => sockets'[i] = sockets[i]
  BY <1>1, <1>2, NumberFreed
<1> HIDE DEF j
<1>5. SocketTypes'
  BY <1>2, <1>3, <1>4 DEF SocketTypes, WorkerPc
<1>6. OneServer'
  BY <1>2 DEF OneServer, Arriving
<1>7. ServerJobs'
  <2>1. \A s \in {"cli", "www"} : server[s].pc = "hand" => server[s].for # j.for
    BY <1>1, Names DEF ServerJobs, JobsApart, j
  <2>2. \A s \in {"cli", "www"} : server[s].fd \in Number \cup {-1}
    BY DEF SocketTypes, ClientPc, Meaning, JobOf
  <2>3. \A s \in {"cli", "www"} : server[s].pc = "hand" => Stands(server[s])'
    BY <1>1, <1>2, <1>4, <2>1, <2>2 DEF ServerJobs, Stands
  <2>4. \A s \in {"cli", "www"} : server[s].pc = "alloc" => Finds(server[s])'
    BY <1>2, <1>4, <2>2 DEF ServerJobs, Finds
  <2> QED BY <1>2, <2>3, <2>4 DEF ServerJobs
<1>8. QueueJobs'
  <2>1. \A k \in 1 .. Len(queue) : queue[k].for # j.for /\ queue[k].fd \in Number \cup {-1}
    BY <1>1, QueueTypes DEF JobsApart, j
  <2> QED BY <1>1, <1>2, <1>4, <2>1 DEF QueueJobs, Stands
<1>9. WorkerJobs'
  <2>1. \A v \in Workers : worker[v].fd \in Number \cup {-1}
    BY DEF SocketTypes, ClientPc, Meaning, JobOf
  <2>2. \A v \in Workers : v # w /\ Works(v) => worker[v].for # j.for
    BY <1>1 DEF WorkerJobs, j
  <2> QED BY <1>1, <1>2, <1>3, <1>4, <2>1, <2>2 DEF WorkerJobs, Stands
<1>10. ThreadJobs'
  <2>1. \A t \in CliClients : thread[t].fd \in Number \cup {-1} /\ t # j.for
    BY <1>1, Names DEF SocketTypes, ClientPc, Meaning, JobOf
  <2> QED BY <1>1, <1>2, <1>4, <2>1 DEF ThreadJobs, Stands
<1>11. JobsApart'
  BY <1>2, <1>3 DEF JobsApart
<1>12. NoneLost'
  <2> SUFFICES ASSUME NEW i \in Number, sockets'[i] \in WebClients
               PROVE  Owned(i)'
    BY DEF NoneLost
  <2>1. i # j.fd /\ sockets[i] \in WebClients
    BY <1>4, Names
  <2> QED BY <1>2, <1>3, <2>1 DEF NoneLost, Owned, j
<1> QED BY <1>5, <1>6, <1>7, <1>8, <1>9, <1>10, <1>11, <1>12

\* A step of one thread of the command line.
LEMMA ThreadMoves ==
    ASSUME SocketTypes, NEW t \in CliClients, NEW i \in JobOf(ThreadPc), thread' = [thread EXCEPT ![t] = i]
    PROVE  /\ thread' \in [CliClients -> JobOf(ThreadPc)]
           /\ thread'[t] = i /\ \A u \in CliClients : u # t => thread'[u] = thread[u]
  BY DEF SocketTypes, ThreadPc

LEMMA ThreadPcMoves ==
    ASSUME SocketTypes, NEW t \in CliClients, NEW p \in ThreadPc, thread' = [thread EXCEPT ![t].pc = p]
    PROVE  /\ thread' = [thread EXCEPT ![t] = [pc |-> p, fd |-> thread[t].fd, for |-> thread[t].for]]
           /\ [pc |-> p, fd |-> thread[t].fd, for |-> thread[t].for] \in JobOf(ThreadPc)
<1>1. thread[t] \in JobOf(ThreadPc)
  BY DEF SocketTypes, ThreadPc
<1>2. [thread[t] EXCEPT !.pc = p] = [pc |-> p, fd |-> thread[t].fd, for |-> thread[t].for]
  BY <1>1 DEF JobOf
<1>3. thread' = [thread EXCEPT ![t] = [thread[t] EXCEPT !.pc = p]]
  OBVIOUS
<1>4. [pc |-> p, fd |-> thread[t].fd, for |-> thread[t].for] \in JobOf(ThreadPc)
  BY <1>1 DEF JobOf
<1> QED BY <1>2, <1>3, <1>4

LEMMA CommandKeeps ==
    ASSUME SocketInv, NEW t \in CliClients, servers!Command(t)
    PROVE  SocketInv'
<1> USE DEF SocketInv
<1> DEFINE j == thread[t]
<1>1. PICK c \in servers!GetSocket(j.fd) :
        \/ /\ c \in Everyone
           /\ \E pc \in {"recv", "close"} : thread' = [thread EXCEPT ![t].pc = pc]
        \/ /\ c \notin Everyone
           /\ thread' = [thread EXCEPT ![t] = NoJob]
  BY Names DEF servers!Command, servers!CanRecv, servers!Idle, NoJob
<1>2. j.pc = "recv" /\ UNCHANGED <<sockets, client, server, queue, worker>>
  BY DEF servers!Command
<1>3. j \in JobOf({"recv", "close", "clear"}) /\ Stands(j) /\ j.for = t
  BY <1>2 DEF ThreadJobs, SocketTypes, ClientPc, Meaning, JobOf
<1>4. j.fd = -1 => c \notin Everyone
  BY <1>1, <1>3, NumberGot
<1>5. PICK i \in JobOf(ThreadPc) : /\ thread' = [thread EXCEPT ![t] = i]
                                   /\ i.pc # "idle" => i.fd = j.fd /\ i.for = t /\ j.fd # -1
  <2>1. CASE c \in Everyone
    <3>1. PICK p \in {"recv", "close"} : thread' = [thread EXCEPT ![t].pc = p]
      BY <1>1, <2>1
    <3>2. p \in ThreadPc /\ j.fd # -1
      BY <1>4, <2>1 DEF ThreadPc
    <3> DEFINE i == [pc |-> p, fd |-> j.fd, for |-> j.for]
    <3>3. i \in JobOf(ThreadPc) /\ thread' = [thread EXCEPT ![t] = i]
      BY <3>1, <3>2, ThreadPcMoves
    <3> QED BY <1>3, <3>2, <3>3
  <2>2. CASE c \notin Everyone
    <3>1. NoJob \in JobOf(ThreadPc) /\ NoJob.pc = "idle" /\ thread' = [thread EXCEPT ![t] = NoJob]
      BY <1>1, <2>2, NoJobIsOne
    <3> QED BY <3>1
  <2> QED BY <2>1, <2>2
<1>6. /\ thread' \in [CliClients -> JobOf(ThreadPc)]
      /\ thread'[t] = i /\ \A u \in CliClients : u # t => thread'[u] = thread[u]
  <2>0. SocketTypes
    OBVIOUS
  <2>1. thread' = [thread EXCEPT ![t] = i]
    BY <1>5, Zenon
  <2> QED BY <2>0, <2>1, ThreadMoves
<1>7. SocketTypes'
  BY <1>2, <1>6 DEF SocketTypes, ClientPc, Meaning, ThreadPc
<1>8. OneServer' /\ ServerJobs'
  BY <1>2 DEF OneServer, Arriving, ServerJobs, Stands, Finds
<1>a. QueueJobs' /\ WorkerJobs' /\ NoneLost'
  BY <1>2 DEF QueueJobs, WorkerJobs, Works, Stands, NoneLost, Owned
<1>9. ThreadJobs'
  <2> SUFFICES ASSUME NEW u \in CliClients, thread'[u].pc # "idle"
               PROVE  /\ thread'[u].for = u /\ Stands(thread'[u])
                      /\ thread'[u].pc = "close" => thread'[u].fd # -1
    BY <1>2 DEF ThreadJobs, Stands
  <2>1. CASE u = t
    BY <1>3, <1>5, <1>6, <2>1 DEF Stands
  <2>2. CASE u # t
    BY <1>6, <2>2 DEF ThreadJobs
  <2> QED BY <2>1, <2>2
<1>10. JobsApart'
  <2>1. server["cli"].pc # "idle" => server["cli"].for \in CliClients /\ server["cli"].for # t
    BY <1>2 DEF ServerJobs, JobsApart
  <2> QED BY <1>2, <1>6, <2>1 DEF JobsApart, Works
<1> QED BY <1>7, <1>8, <1>a, <1>9, <1>10

LEMMA ExitKeeps ==
    ASSUME SocketInv, NEW t \in CliClients, servers!Exit(t)
    PROVE  SocketInv'
<1> USE DEF SocketInv
<1> DEFINE fd == thread[t].fd
<1>1. /\ thread[t].pc = "close" /\ fd \in Number /\ sockets[fd] = t /\ client[t] \in Served
      /\ t \in Everyone
  BY DEF servers!Exit, ThreadJobs, Stands, SocketTypes, ClientPc, Meaning, JobOf
<1>2. /\ UNCHANGED <<server, queue, worker>> /\ servers!Clear(fd) /\ servers!DeleteConn(t)
      /\ thread' = [thread EXCEPT ![t] = NoJob]
  BY <1>1 DEF servers!Exit, servers!Idle, servers!None, NoJob
<1>3. /\ thread' \in [CliClients -> JobOf(ThreadPc)]
      /\ thread'[t] = NoJob /\ \A u \in CliClients : u # t => thread'[u] = thread[u]
  BY <1>2, ThreadMoves, NoJobIsOne
<1>4. /\ client' \in [Everyone -> ClientPc]
      /\ \A d \in Everyone : client[d] = "arrived" => client'[d] = "arrived"
      /\ \A d \in Everyone : client[d] \in Served => client'[d] \in Served
      /\ Arriving(CliClients)' => Arriving(CliClients)
      /\ Arriving(WebClients)' => Arriving(WebClients)
  BY <1>1, <1>2, ClientDeleted
<1>5. /\ sockets' \in [Number -> Meaning]
      /\ sockets'[fd] = "none" /\ \A i \in Number : i # fd => sockets'[i] = sockets[i]
  BY <1>1, <1>2, <1>4, NumberFreed
\* The number of another client is another number.
<1>6. ASSUME NEW job, job.fd \in Number \cup {-1}, Stands(job), job.for # t
      PROVE  job.for \in Everyone /\ client'[job.for] \in Served
             /\ (job.fd # -1 => sockets'[job.fd] = job.for)
  BY <1>1, <1>4, <1>5, <1>6 DEF Stands
<1> HIDE DEF fd
<1>7. SocketTypes'
  BY <1>2, <1>3, <1>4, <1>5 DEF SocketTypes, ThreadPc
<1>8. OneServer'
  BY <1>2, <1>4 DEF OneServer
<1>9. ServerJobs'
  <2>1. \A s \in {"cli", "www"} : server[s].fd \in Number \cup {-1}
    BY DEF SocketTypes, ClientPc, Meaning, JobOf
  <2>2. \A s \in {"cli", "www"} : server[s].pc # "idle" => server[s].for # t
    BY <1>1, Names DEF ServerJobs, JobsApart
  <2>3. \A s \in {"cli", "www"} : server[s].pc = "hand" => Stands(server[s])'
    <3> SUFFICES ASSUME NEW s \in {"cli", "www"}, server[s].pc = "hand" PROVE Stands(server[s])'
      OBVIOUS
    <3>1. Stands(server[s]) /\ server[s].for # t /\ server[s].fd \in Number \cup {-1}
      BY <2>1, <2>2 DEF ServerJobs
    <3> QED BY <1>2, <1>6, <3>1 DEF Stands
  <2>4. \A s \in {"cli", "www"} : server[s].pc = "alloc" => Finds(server[s])'
    BY <1>2, <1>4, <1>5, <2>1 DEF ServerJobs, Finds
  <2> QED BY <1>2, <2>3, <2>4 DEF ServerJobs
<1>10. QueueJobs'
  <2>1. \A k \in 1 .. Len(queue) : queue[k].for # t /\ queue[k].fd \in Number \cup {-1}
    BY QueueTypes, Names DEF QueueJobs
  <2>2. \A k \in 1 .. Len(queue) : Stands(queue[k])'
    BY <1>2, <1>6, <2>1 DEF QueueJobs, Stands
  <2> QED BY <1>2, <2>2 DEF QueueJobs
<1>11. WorkerJobs'
  <2>1. \A v \in Workers : worker[v].fd \in Number \cup {-1}
    BY DEF SocketTypes, ClientPc, Meaning, JobOf
  <2>2. \A v \in Workers : Works(v) => Stands(worker[v])'
    BY <1>2, <1>6, <2>1, Names DEF WorkerJobs, Stands
  <2> QED BY <1>2, <2>2 DEF WorkerJobs, Works
<1>12. ThreadJobs'
  <2>1. \A u \in CliClients : thread[u].fd \in Number \cup {-1}
    BY DEF SocketTypes, ClientPc, Meaning, JobOf
  <2>2. \A u \in CliClients : u # t /\ thread[u].pc # "idle" => Stands(thread[u])'
    BY <1>3, <1>6, <2>1 DEF ThreadJobs, Stands
  <2> QED BY <1>3, <2>2 DEF ThreadJobs, NoJob, Stands
<1>13. JobsApart'
  BY <1>2, <1>3 DEF JobsApart, Works, ServerJobs, NoJob
<1>14. NoneLost'
  <2> SUFFICES ASSUME NEW i \in Number, sockets'[i] \in WebClients
               PROVE  Owned(i)'
    BY DEF NoneLost
  <2>1. sockets[i] \in WebClients
    BY <1>5, Names
  <2> QED BY <1>2, <2>1 DEF NoneLost, Owned, Works
<1> QED BY <1>7, <1>8, <1>9, <1>10, <1>11, <1>12, <1>13, <1>14

LEMMA SocketsInit == servers!Init => SocketInv
<1> SUFFICES ASSUME servers!Init PROVE SocketInv
  OBVIOUS
<1>1. /\ client = [c \in Everyone |-> "new"] /\ server = [s \in {"cli", "www"} |-> NoJob]
      /\ queue = <<>> /\ worker = [w \in Workers |-> NoJob] /\ thread = [t \in CliClients |-> NoJob]
      /\ sockets = [i \in Number |-> CASE i = 0 -> "cli" [] i = 1 -> "www" [] OTHER -> "none"]
  BY Names DEF servers!Init, servers!Idle, servers!None, NoJob, Number
<1>2. NoJob.pc = "idle" /\ \A pcs : "idle" \in pcs => NoJob \in JobOf(pcs)
  BY DEF NoJob, JobOf
<1>3. sockets \in [Number -> Meaning] /\ \A i \in Number : sockets[i] \notin WebClients
  BY <1>1, Names DEF Meaning
<1>4. SocketTypes
  BY <1>1, <1>2, <1>3 DEF SocketTypes, ClientPc
<1>5. OneServer
  <2>1. ~Arriving(CliClients)
    BY <1>1, Names DEF Arriving
  <2> QED BY <1>1, <1>2, <2>1 DEF OneServer
<1>6. Len(queue) = 0 /\ 1 .. 0 = {}
  BY <1>1
<1>7. ServerJobs /\ QueueJobs /\ ThreadJobs
  BY <1>1, <1>2, <1>6 DEF ServerJobs, QueueJobs, ThreadJobs
<1>8. WorkerJobs /\ JobsApart
  BY <1>1, <1>2, <1>6 DEF WorkerJobs, JobsApart, Works
<1>9. NoneLost
  BY <1>3 DEF NoneLost
<1> QED BY <1>4, <1>5, <1>7, <1>8, <1>9 DEF SocketInv

LEMMA SocketsNext ==
    ASSUME SocketInv, ~Together, [servers!Next]_serversVars
    PROVE  SocketInv'
<1>1. CASE UNCHANGED serversVars
  BY <1>1, SaysKeeps DEF serversVars
<1>2. ASSUME NEW c, NEW what, servers!Says(c, what) PROVE SocketInv'
  BY <1>2, SaysKeeps DEF servers!Says
<1>3. ASSUME NEW c \in servers!Clients, servers!Connect(c) PROVE SocketInv'
  BY <1>3, ConnectKeeps, Names
<1>4. ASSUME NEW s \in servers!Servers, servers!ServerStep(s) PROVE SocketInv'
  BY <1>4, AcceptKeeps, AllocKeeps, Names DEF servers!ServerStep
<1>5. ASSUME servers!Spawn \/ servers!Push PROVE SocketInv'
  BY <1>5, SpawnKeeps, PushKeeps
<1>6. ASSUME NEW w \in Workers, servers!Work(w) \/ servers!Rest(w) PROVE SocketInv'
  BY <1>6, TakeKeeps, ServeKeeps, DeleteOneKeeps, ClearNumberKeeps, RestKeeps DEF servers!Work
<1>7. ASSUME NEW t \in CliClients, servers!Command(t) \/ servers!Exit(t) PROVE SocketInv'
  BY <1>7, CommandKeeps, ExitKeeps
<1> QED BY <1>1, <1>2, <1>3, <1>4, <1>5, <1>6, <1>7 DEF servers!Next

\* Two jobs with one number would be for one client, which has one job only.
LEMMA OneOwner ==
    ASSUME SocketInv, NEW i \in Number, sockets[i] \in WebClients
    PROVE  Cardinality(servers!Owners(i)) = 1
<1> USE DEF SocketInv
<1> DEFINE c == sockets[i]
           S == IF server["www"].pc = "hand" /\ server["www"].fd = i THEN {<<"server">>} ELSE {}
           Q == {<<"queue", k>> : k \in {k \in DOMAIN queue : queue[k].fd = i}}
           W == {<<"worker", w>> : w \in {w \in Workers : worker[w].pc \notin {"idle", "asleep"}
                                                         /\ worker[w].fd = i}}
<1>1. servers!Owners(i) = S \cup Q \cup W
  BY DEF servers!Owners
<1>2. i # -1 /\ DOMAIN queue = 1 .. Len(queue)
  BY Names DEF SocketTypes
<1>3. \A w \in Workers : Works(w) <=> worker[w].pc \notin {"idle", "asleep"}
  BY DEF Works, SocketTypes, JobOf
\* Whoever has the number has the client.
<1>4. /\ server["www"].pc = "hand" /\ server["www"].fd = i => server["www"].for = c
      /\ \A k \in 1 .. Len(queue) : queue[k].fd = i => queue[k].for = c
      /\ \A w \in Workers : Works(w) /\ worker[w].fd = i => worker[w].for = c
  BY <1>2 DEF ServerJobs, QueueJobs, WorkerJobs, Stands
<1>5. \E x : servers!Owners(i) = {x}
  <2>1. CASE server["www"].pc = "hand" /\ server["www"].fd = i
    <3>1. \A k \in 1 .. Len(queue) : queue[k].fd # i
      BY <1>4, <2>1 DEF JobsApart
    <3>2. \A w \in Workers : Works(w) => worker[w].fd # i
      BY <1>4, <2>1 DEF JobsApart
    <3>3. S = {<<"server">>} /\ Q = {} /\ W = {}
      BY <1>2, <1>3, <2>1, <3>1, <3>2
    <3> HIDE DEF S, Q, W
    <3> QED BY <1>1, <3>3
  <2>2. CASE \E k \in 1 .. Len(queue) : queue[k].fd = i
    <3>1. PICK k \in 1 .. Len(queue) : queue[k].fd = i
      BY <2>2
    <3>2. ~(server["www"].pc = "hand" /\ server["www"].fd = i)
      BY <1>4, <3>1 DEF JobsApart
    <3>3. \A l \in 1 .. Len(queue) : queue[l].fd = i => l = k
      BY <1>4, <3>1 DEF QueueJobs
    <3>4. \A w \in Workers : Works(w) => worker[w].fd # i
      BY <1>4, <3>1 DEF JobsApart
    <3>5. S = {} /\ Q = {<<"queue", k>>} /\ W = {}
      BY <1>2, <1>3, <3>1, <3>2, <3>3, <3>4
    <3> HIDE DEF S, Q, W
    <3> QED BY <1>1, <3>5
  <2>3. CASE \E w \in Workers : Works(w) /\ worker[w].fd = i
    <3>1. PICK w \in Workers : Works(w) /\ worker[w].fd = i
      BY <2>3
    <3>2. ~(server["www"].pc = "hand" /\ server["www"].fd = i)
      BY <1>4, <3>1 DEF JobsApart
    <3>3. \A k \in 1 .. Len(queue) : queue[k].fd # i
      BY <1>4, <3>1 DEF JobsApart
    <3>4. \A v \in Workers : Works(v) /\ worker[v].fd = i => v = w
      BY <1>4, <3>1 DEF WorkerJobs
    <3>5. S = {} /\ Q = {} /\ W = {<<"worker", w>>}
      BY <1>2, <1>3, <3>1, <3>2, <3>3, <3>4
    <3> HIDE DEF S, Q, W
    <3> QED BY <1>1, <3>5
  <2> QED BY <2>1, <2>2, <2>3 DEF NoneLost, Owned
<1> QED BY <1>5, FS_Singleton

LEMMA InvOwned == SocketInv => servers!SocketsOwned
<1> SUFFICES ASSUME SocketInv PROVE servers!OwnClient /\ servers!NumbersOwned
  BY DEF servers!SocketsOwned
<1>1. servers!OwnClient
  BY DEF SocketInv, servers!OwnClient, WorkerJobs, ThreadJobs, Works, Stands
<1>2. servers!NumbersOwned
  <2>1. DOMAIN sockets = Number
    BY DEF SocketInv, SocketTypes
  <2>2. \A X : servers!Cardinality(X) = Cardinality(X)
    BY DEF servers!Cardinality, Cardinality
  <2> QED BY <2>1, <2>2, OneOwner DEF servers!NumbersOwned
<1> QED BY <1>1, <1>2

\* or_cli.c, or_www.c and sockets.c, for any clients, workers and size of the table, as long
\* as connections come to one server at a time: whoever is given a number of the table speaks
\* to the client it was given for, and each number of the web server is in one hand, that of
\* www_main, of the queue or of a worker, until lwip_close has freed it.
THEOREM SocketsStayOwned == ~Together => (MCSpec => []SocketsOwned)
<1>1. MCInit => SocketInv
  BY SocketsInit DEF MCInit
<1>2. ~Together /\ SocketInv /\ [MCNext]_<<unit, vars, mailboxVars, serversVars>> => SocketInv'
  <2> SUFFICES ASSUME ~Together, SocketInv, [MCNext]_<<unit, vars, mailboxVars, serversVars>> PROVE SocketInv'
    OBVIOUS
  <2>1. [servers!Next]_serversVars
    BY DEF MCNext
  <2> QED BY <2>1, SocketsNext
<1>3. SocketInv => SocketsOwned
  BY InvOwned DEF SocketsOwned
<1>4. ASSUME ~Together PROVE MCSpec => []SocketsOwned
  <2>1. SocketInv /\ [MCNext]_<<unit, vars, mailboxVars, serversVars>> => SocketInv'
    BY <1>2, <1>4
  <2> QED BY <1>1, <1>3, <2>1, PTL DEF MCSpec
<1> QED BY <1>4
=============================================================================
