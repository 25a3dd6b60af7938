------------------------------ MODULE Servers ------------------------------
(***************************************************************************)
(* The command line and the web server of scone on the socket layer of its *)
(* TCP stack: or_cli.c, or_www.c and lwtcp/sockets.c.                      *)
(*                                                                         *)
(* Each server accepts connections and gives each a number of the table    *)
(* sockets; the web server queues the number for one of its workers, the   *)
(* command line starts a thread for it.  A connection is named by its      *)
(* client.  netconn_* calls are one step each (see Netconn for theirs).    *)
(***************************************************************************)
EXTENDS Integers, Sequences, FiniteSets, FiniteSetsExt

CONSTANTS NUM_SOCKETS,
          CliClients, WebClients,   \* who connects to which server
          Workers,                  \* threads of the web server
          Together,                 \* both servers may get connections at a time
          MaxCommands               \* bound: commands of a client

None == "none"
Clients == CliClients \cup WebClients
Servers == {"cli", "www"}
Of(s) == IF s = "cli" THEN CliClients ELSE WebClients

\* The numbers of the two listening sockets are in the table; names stand for one thing each.
ServersAssumption ==
    /\ NUM_SOCKETS \in Nat /\ NUM_SOCKETS > 1
    /\ CliClients \cap WebClients = {}
    /\ {None, "wild", "cli", "www"} \cap Clients = {}

VARIABLES sockets,   \* the netconn of each number
          conn,      \* of each client: where its connection is
          inbox,     \* of each client: what it sent and nobody read
          server,    \* of each server: what its thread is at
          queue,     \* www_request_queue
          worker,    \* of each worker: what it is at
          thread,    \* of each client of the command line: what its thread is at
          wild       \* memory outside the table was taken for a socket

vars == <<sockets, conn, inbox, server, queue, worker, thread, wild>>

Idle == [pc |-> "idle", fd |-> -1, for |-> None]
Job(pc, fd, c) == [pc |-> pc, fd |-> fd, for |-> c]

\* cli_main and www_main up to their first accept: a listening socket each.
Init ==
    /\ sockets = [i \in 0..NUM_SOCKETS-1 |-> CASE i = 0 -> "cli" [] i = 1 -> "www" [] OTHER -> None]
    /\ conn = [c \in Clients |-> "new"]
    /\ inbox = [c \in Clients |-> <<>>]
    /\ server = [s \in Servers |-> Idle]
    /\ queue = <<>>
    /\ worker = [w \in Workers |-> Idle]
    /\ thread = [c \in CliClients |-> Idle]
    /\ wild = FALSE

----------------------------------------------------------------------------
\* The clients

Connect(c) ==
    /\ conn[c] = "new"
    /\ Together \/ \A s \in Servers : c \notin Of(s) =>
                     server[s].pc = "idle" /\ \A d \in Of(s) : conn[d] # "arrived"
    /\ conn' = [conn EXCEPT ![c] = "arrived"]
    /\ UNCHANGED <<sockets, inbox, server, queue, worker, thread, wild>>

\* A command, the word exit, a request or a part of one; the last thing a
\* client sends is its end.
Says(c, what) ==
    /\ conn[c] \in {"arrived", "open"}
    /\ \A i \in DOMAIN inbox[c] : inbox[c][i] # "end"
    /\ what # "end" => Len(inbox[c]) < MaxCommands
    /\ inbox' = [inbox EXCEPT ![c] = Append(@, what)]
    /\ UNCHANGED <<sockets, conn, server, queue, worker, thread, wild>>

----------------------------------------------------------------------------
\* sockets.c

\* The search of alloc_socket
Free == LET I == {i \in DOMAIN sockets : sockets[i] = None} IN IF I = {} THEN -1 ELSE Min(I)

\* get_socket: the number is only compared with the end of the table.
\* What stands before the table may look like a socket.
GetSocket(fd) == IF fd >= 0 THEN {sockets[fd]} ELSE {None, "wild"}

\* lwip_recvfrom of a client's connection: it waits for something.  Once the
\* client has ended, every call returns 0 at once.
CanRecv(c) == c \in Clients /\ inbox[c] # <<>>
Read(c) == inbox' = [inbox EXCEPT ![c] = IF Head(@) = "end" THEN @ ELSE Tail(@)]

\* netconn_delete: what was not read is gone.
DeleteConn(c) == conn' = [conn EXCEPT ![c] = "deleted"] /\ inbox' = [inbox EXCEPT ![c] = <<>>]

\* Mutant: the number stays taken.
MutantClear(fd) == UNCHANGED sockets
\* The end of lwip_close
Clear(fd) == sockets' = [sockets EXCEPT ![fd] = None]

----------------------------------------------------------------------------
\* The two servers: lwip_accept with alloc_socket, which has no lock

Accept(s) ==
    \E c \in Of(s) :
        /\ server[s].pc = "idle" /\ conn[c] = "arrived"
        /\ server' = [server EXCEPT ![s] = Job("alloc", Free, c)]
        /\ UNCHANGED <<sockets, conn, inbox, queue, worker, thread, wild>>

\* The number is taken; without one the connection is deleted.
Alloc(s) ==
    LET j == server[s] IN
    /\ j.pc = "alloc"
    /\ IF j.fd = -1 THEN DeleteConn(j.for) /\ UNCHANGED sockets
       ELSE /\ conn' = [conn EXCEPT ![j.for] = "open"] /\ UNCHANGED inbox
            /\ sockets' = [sockets EXCEPT ![j.fd] = j.for]
    /\ server' = [server EXCEPT ![s].pc = "hand"]
    /\ UNCHANGED <<queue, worker, thread, wild>>

\* cli_main: a thread for the number, whatever it is
Spawn ==
    LET j == server["cli"] IN
    /\ j.pc = "hand"
    /\ thread' = [thread EXCEPT ![j.for] = Job("recv", j.fd, j.for)]
    /\ server' = [server EXCEPT !["cli"] = Idle]
    /\ UNCHANGED <<sockets, conn, inbox, queue, worker, wild>>

\* www_main: the queue, and a wake-up for all workers
Push ==
    LET j == server["www"] IN
    /\ j.pc = "hand"
    /\ queue' = Append(queue, j)
    /\ worker' = [w \in Workers |-> IF worker[w].pc = "asleep" THEN Idle ELSE worker[w]]
    /\ server' = [server EXCEPT !["www"] = Idle]
    /\ UNCHANGED <<sockets, conn, inbox, thread, wild>>

----------------------------------------------------------------------------
\* www_client_thread

Sleep(w) ==
    /\ worker[w].pc = "idle" /\ queue = <<>>
    /\ worker' = [worker EXCEPT ![w].pc = "asleep"]
    /\ UNCHANGED <<sockets, conn, inbox, server, queue, thread, wild>>

WakeUp(w) ==
    /\ worker[w].pc = "asleep"
    /\ worker' = [worker EXCEPT ![w] = Idle]
    /\ UNCHANGED <<sockets, conn, inbox, server, queue, thread, wild>>

\* Mutant: the head of the queue is left in it.
MutantPop(q) == IF Len(q) > 1 THEN Tail(q) ELSE q
Pop(q) == Tail(q)

Take(w) ==
    /\ worker[w].pc = "idle" /\ queue # <<>>
    /\ worker' = [worker EXCEPT ![w] = Job("recv", Head(queue).fd, Head(queue).for)]
    /\ queue' = Pop(queue)
    /\ UNCHANGED <<sockets, conn, inbox, server, thread, wild>>

\* service_request reads until the request is whole; an end or an error
\* closes the socket without an answer.
Serve(w) ==
    /\ worker[w].pc = "recv"
    /\ \E c \in GetSocket(worker[w].fd) :
         \/ /\ CanRecv(c) /\ Read(c) /\ UNCHANGED wild
            /\ worker' = [worker EXCEPT ![w].pc = IF Head(inbox[c]) = "part" THEN "recv" ELSE "close"]
         \/ /\ c \notin Clients
            /\ wild' = (wild \/ c = "wild") /\ UNCHANGED inbox
            /\ worker' = [worker EXCEPT ![w] = Idle]
    /\ UNCHANGED <<sockets, conn, server, queue, thread>>

\* lwip_close: netconn_delete, then the number is free
Delete(w) ==
    /\ worker[w].pc = "close"
    /\ DeleteConn(sockets[worker[w].fd])
    /\ worker' = [worker EXCEPT ![w].pc = "clear"]
    /\ UNCHANGED <<sockets, server, queue, thread, wild>>

ClearNumber(w) ==
    /\ worker[w].pc = "clear"
    /\ Clear(worker[w].fd)
    /\ worker' = [worker EXCEPT ![w] = Idle]
    /\ UNCHANGED <<conn, inbox, server, queue, thread, wild>>

----------------------------------------------------------------------------
\* process_client_request: an end is read again and again, an error ends
\* the thread and keeps the socket, only the word exit closes it.
Command(t) ==
    /\ thread[t].pc = "recv"
    /\ \E c \in GetSocket(thread[t].fd) :
         \/ /\ CanRecv(c) /\ Read(c) /\ UNCHANGED wild
            /\ thread' = [thread EXCEPT ![t].pc = IF Head(inbox[c]) = "exit" THEN "close" ELSE "recv"]
         \/ /\ c \notin Clients
            /\ wild' = (wild \/ c = "wild") /\ UNCHANGED inbox
            /\ thread' = [thread EXCEPT ![t] = Idle]
    /\ UNCHANGED <<sockets, conn, server, queue, worker>>

Exit(t) ==
    /\ thread[t].pc = "close"
    /\ DeleteConn(sockets[thread[t].fd])
    /\ Clear(thread[t].fd)
    /\ thread' = [thread EXCEPT ![t] = Idle]
    /\ UNCHANGED <<server, queue, worker, wild>>

----------------------------------------------------------------------------
ServerStep(s) == Accept(s) \/ Alloc(s)
Work(w) == Take(w) \/ Serve(w) \/ Delete(w) \/ ClearNumber(w)
Rest(w) == Sleep(w) \/ WakeUp(w)

Next ==
    \/ \E c \in Clients : Connect(c)
    \/ \E c \in CliClients : Says(c, "show") \/ Says(c, "exit") \/ Says(c, "end")
    \/ \E c \in WebClients : Says(c, "part") \/ Says(c, "request") \/ Says(c, "end")
    \/ \E s \in Servers : ServerStep(s)
    \/ Spawn \/ Push
    \/ \E w \in Workers : Work(w) \/ Rest(w)
    \/ \E t \in CliClients : Command(t) \/ Exit(t)

Spec == Init /\ [][Next]_vars

----------------------------------------------------------------------------
\* Properties

\* A thread that was given the connection of a client speaks to that client
\* and to nobody else, until it has closed the socket (alloc_socket,
\* lwip_close).
OwnClient ==
    /\ \A w \in Workers : worker[w].pc \in {"recv", "close"} /\ worker[w].fd # -1 =>
         sockets[worker[w].fd] = worker[w].for
    /\ \A t \in CliClients : thread[t].pc \in {"recv", "close"} /\ thread[t].fd # -1 =>
         sockets[thread[t].fd] = t

Owners(i) ==
    (IF server["www"].pc = "hand" /\ server["www"].fd = i THEN {<<"server">>} ELSE {})
    \cup {<<"queue", k>> : k \in {k \in DOMAIN queue : queue[k].fd = i}}
    \cup {<<"worker", w>> : w \in {w \in Workers : worker[w].pc \notin {"idle", "asleep"} /\ worker[w].fd = i}}

\* A number of the table that stands for a connection of the web server is in
\* one hand at any time, www_main's, the queue's or a worker's, until it is
\* free again: none is closed twice and none is left over.
NumbersOwned ==
    \A i \in DOMAIN sockets : sockets[i] \in WebClients => Cardinality(Owners(i)) = 1

\* Both together: a number that was handed out is used for its client alone,
\* by one thread, and comes back.
SocketsOwned == OwnClient /\ NumbersOwned

\* A number that is no socket is refused.
InTable == ~wild
=============================================================================
