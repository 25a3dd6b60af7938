----------------------------- MODULE MCTransport -----------------------------
(***************************************************************************)
(* The threads of scone's TCP stack for TLC, one part at a time:           *)
(*   "netconn"  an application and the transport thread on one connection, *)
(*              two calls, a segment, its end up to twice, maybe a reset;  *)
(*   "mailbox"  two senders and a ring of three slots, with the timers     *)
(*              that its fetches wait for;                                 *)
(*   "servers"  the command line and the web server on the table of        *)
(*              sockets, one client of the one and two of the other.       *)
(***************************************************************************)
EXTENDS Netconn
CONSTANTS Senders, SYS_MBOX_SIZE, MaxPosts, Periods, MaxWait    \* of the mailbox
CONSTANTS NUM_SOCKETS, CliClients, WebClients, Workers, Together, MaxCommands    \* of the servers
VARIABLES unit,
    ring, mutex, mail, at, time, posted, taken, peak, timeouts, due,
    sockets, client, inbox, server, queue, worker, thread, wild

mailboxVars == <<ring, mutex, mail, at, time, posted, taken, peak, timeouts, due>>
serversVars == <<sockets, client, inbox, server, queue, worker, thread, wild>>

mailbox == INSTANCE Mailbox
servers == INSTANCE Servers WITH conn <- client

ASSUME TransportAssumption == mailbox!MailboxAssumption /\ servers!ServersAssumption

MCPeriods == <<2, 3>>

MCInit == /\ unit \in {"netconn", "mailbox", "servers"}
          /\ Init /\ mailbox!Init /\ servers!Init
          /\ unit # "mailbox" => timeouts = <<>>

MCNext ==
    /\ UNCHANGED unit
    /\ \/ unit = "netconn" /\ Next /\ UNCHANGED <<mailboxVars, serversVars>>
       \/ unit = "mailbox" /\ mailbox!Next /\ UNCHANGED <<vars, serversVars>>
       \/ unit = "servers" /\ servers!Next /\ UNCHANGED <<vars, mailboxVars>>

\* The fairness of the two modules, each while its part runs.
NetconnFair ==
    /\ WF_vars(unit = "netconn" /\ App)
    /\ WF_vars(unit = "netconn" /\ Continue)
    /\ WF_vars(unit = "netconn" /\ Message)
    /\ WF_vars(unit = "netconn" /\ PollTcp)
    /\ SF_vars(unit = "netconn" /\ SentTcp)
MailboxFair ==
    /\ WF_mailboxVars(unit = "mailbox" /\ mailbox!Fetch)
    /\ SF_mailboxVars(unit = "mailbox" /\ mailbox!FetchAgain)
    /\ SF_mailboxVars(unit = "mailbox" /\ mailbox!FetchEnter)
    /\ \A t \in Senders : /\ WF_mailboxVars(unit = "mailbox" /\ mailbox!PostStore(t))
                          /\ WF_mailboxVars(unit = "mailbox" /\ mailbox!PostLeave(t))

MCSpec == /\ MCInit /\ [][MCNext]_<<unit, vars, mailboxVars, serversVars>>
          /\ NetconnFair /\ MailboxFair

\* sys_mbox_post, sys_arch_mbox_fetch, sys_timeout: messages keep their order and
\* timers their times (Mailbox).
QueuesExact == mailbox!QueuesExact
\* Every message posted is fetched (Mailbox).
AllFetched == mailbox!AllFetched
\* A socket number is its client's alone, in one hand, and comes back (Servers).
SocketsOwned == servers!SocketsOwned
=============================================================================
