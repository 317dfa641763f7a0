------------------------------- MODULE Socket -------------------------------
(***************************************************************************)
(* socket/: clients hand an open file to a server over a Unix socket       *)
(* (SCM_RIGHTS); the server prints the file.  Messages stay with the       *)
(* connection when their sender ends; a client may end at any point, the   *)
(* server when a call fails or at a message of an unexpected size.         *)
(***************************************************************************)
EXTENDS Integers, FiniteSets, Sequences

CONSTANTS
  Clients,
  FdLimit,    \* RLIMIT_NOFILE of the server, less the standard streams
  Backlog     \* of listen()

VARIABLES
  server,     \* "start", "waiting", "accepted", "received" or "exited"
  fds,        \* descriptors the server has open
  backlog,    \* connections not yet accepted, in order
  peer,       \* the client the server has accepted
  recv_fd,    \* does the server hold a received file
  client,     \* where each client is: "start", "connected", "sent", "gone"
  sent,       \* the clients whose message is on its connection
  served      \* how the server was done with each client: in order, with its file or without

vars == <<server, fds, backlog, peer, recv_fd, client, sent, served>>

Nobody == "nobody"

Init ==
  /\ server = "start" /\ fds = 0
  /\ backlog = <<>> /\ peer = Nobody /\ recv_fd = FALSE
  /\ client = [c \in Clients |-> "start"]
  /\ sent = {} /\ served = <<>>

-----------------------------------------------------------------------------
(* client.c *)

\* open(), socket(), connect(): refused when nobody listens; it waits when the
\* backlog is full.
connect(c) ==
  /\ client[c] = "start"
  /\ \/ /\ server \notin {"start", "exited"} /\ Len(backlog) <= Backlog
        /\ backlog' = Append(backlog, c)
        /\ client' = [client EXCEPT ![c] = "connected"]
     \/ /\ server \in {"start", "exited"}
        /\ client' = [client EXCEPT ![c] = "gone"]
        /\ UNCHANGED backlog
  /\ UNCHANGED <<server, fds, peer, recv_fd, sent, served>>

\* sendmsg(): fails when the server is gone.
sendmsg(c) ==
  /\ client[c] = "connected"
  /\ client' = [client EXCEPT ![c] = IF server = "exited" THEN "gone" ELSE "sent"]
  /\ sent' = IF server = "exited" THEN sent ELSE sent \cup {c}
  /\ UNCHANGED <<server, fds, backlog, peer, recv_fd, served>>

exit(c) ==
  /\ client[c] = "sent"
  /\ client' = [client EXCEPT ![c] = "gone"]
  /\ UNCHANGED <<server, fds, backlog, peer, recv_fd, sent, served>>

\* A client dies before it has sent.
die(c) ==
  /\ client[c] \in {"start", "connected"}
  /\ client' = [client EXCEPT ![c] = "gone"]
  /\ UNCHANGED <<server, fds, backlog, peer, recv_fd, sent, served>>

-----------------------------------------------------------------------------
(* server.c *)

Stop == server' = "exited" /\ fds' = 0 /\ UNCHANGED <<backlog, peer, recv_fd, sent, served>>

\* socket(), unlink(), bind(), listen()
setup ==
  /\ server = "start"
  /\ server' = "waiting" /\ fds' = 1
  /\ UNCHANGED <<backlog, peer, recv_fd, sent, served, client>>

\* accept() needs a descriptor, which is never closed.
accept ==
  /\ server = "waiting" /\ backlog # <<>>
  /\ \/ /\ fds < FdLimit
        /\ server' = "accepted" /\ fds' = fds + 1
        /\ peer' = Head(backlog) /\ backlog' = Tail(backlog)
        /\ UNCHANGED <<recv_fd, sent, served>>
     \/ fds = FdLimit /\ Stop
  /\ UNCHANGED client

\* A plausible slip: the end of a connection is not told from silence.
has_input_blind(c) == c \in sent
has_input(c) == c \in sent \/ client[c] = "gone"

\* recvmsg() waits for a message or the end of the connection.  The file needs a
\* descriptor; without one the message comes without it.  The size of nothing is
\* not that of a message.
recvmsg ==
  /\ server = "accepted" /\ has_input(peer)
  /\ \/ /\ peer \in sent
        /\ recv_fd' = (fds < FdLimit)
        /\ fds' = IF fds < FdLimit THEN fds + 1 ELSE fds
        /\ server' = "received"
        /\ UNCHANGED <<backlog, peer, sent, served>>
     \/ peer \notin sent /\ Stop
  /\ UNCHANGED client

\* A plausible slip: the received file is not closed.
output_file_open == fds
output_file == IF recv_fd THEN fds - 1 ELSE fds

\* The file is printed and closed; without a file: "<no fd>".
output ==
  /\ server = "received"
  /\ fds' = output_file
  /\ served' = Append(served, <<peer, recv_fd>>)
  /\ recv_fd' = FALSE /\ peer' = Nobody
  /\ server' = "waiting"
  /\ UNCHANGED <<backlog, sent, client>>

ServerNext == setup \/ accept \/ recvmsg \/ output
ClientNext(c) == connect(c) \/ sendmsg(c) \/ exit(c)
Next == ServerNext \/ \E c \in Clients : ClientNext(c) \/ die(c)

\* Every process runs on; death is not owed to anybody.
Fairness == WF_vars(ServerNext) /\ \A c \in Clients : WF_vars(ClientNext(c))

-----------------------------------------------------------------------------
(* Properties *)

\* A client that has sent its file is served, or the server ends: no order in
\* which the others connect, stall or die leaves the server waiting for ever.
SentIsServed ==
  \A c \in Clients :
    (c \in sent) ~> (server = "exited" \/ \E i \in DOMAIN served : served[i][1] = c)

\* The server has one descriptor for its socket and one for each connection it
\* ever accepted, and none for the files it has printed, so it can serve
\* FdLimit - 1 clients, the last of them without its file.
OnlyConnectionsLeak ==
  server \notin {"start", "exited"} =>
    /\ fds = 1 + Len(served) + (IF peer = Nobody THEN 0 ELSE 1) + (IF recv_fd THEN 1 ELSE 0)
    /\ \A i \in DOMAIN served : served[i][2] <=> i < FdLimit - 1
=============================================================================
