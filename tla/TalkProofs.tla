----------------------------- MODULE TalkProofs -----------------------------
(***************************************************************************)
(* Theorems about the programs that talk to another process or thread, for *)
(* any number of users and clients, any lengths, limits and rounds.        *)
(***************************************************************************)
EXTENDS MCTalk, Sequences, TLAPS

\* A step of the whole is a step of each program, or leaves it alone.
LEMMA StepOfEach ==
  [Next]_vars => /\ [Q!Next]_qvars
                 /\ [S!Next]_svars
                 /\ [M!Next]_mvars
  BY DEF Next, vars, query, socket, shmem, userfaultfd

-----------------------------------------------------------------------------
(* Socket: the server's descriptors *)

Entries == Clients \X BOOLEAN

SocketTypes ==
  /\ server \in {"start", "waiting", "accepted", "received", "exited"}
  /\ fds \in Nat
  /\ backlog \in Seq(Clients)
  /\ peer \in Clients \cup {"nobody"}
  /\ served \in Seq(Entries)

\* What the server holds at each of its steps.
Holds ==
  /\ server = "start" => served = <<>>
  /\ server \in {"start", "waiting"} => peer = "nobody"
  /\ server \in {"accepted", "received"} => peer # "nobody"
  /\ server \in {"start", "waiting", "accepted"} => ~recv_fd

\* The descriptors are within the limit, and whether the file of the current
\* client fits is settled by how many clients there were before it.
WithinLimit ==
  /\ server \notin {"start", "exited"} => fds <= FdLimit
  /\ server = "received" => (recv_fd <=> Len(served) + 1 < FdLimit - 1)

HasFile == recv_fd \in BOOLEAN

SocketInv == SocketTypes /\ HasFile /\ Holds /\ WithinLimit /\ S!OnlyConnectionsLeak

LEMMA SocketInit == Init => SocketInv
<1> SUFFICES ASSUME Init PROVE SocketInv
  OBVIOUS
<1>1. HasFile
  BY Zenon DEF Init, S!Init, HasFile
<1>2. SocketTypes /\ Holds /\ WithinLimit /\ S!OnlyConnectionsLeak
  BY DEF Init, S!Init, S!Nobody, SocketTypes, Holds, WithinLimit, S!OnlyConnectionsLeak
<1> QED
  BY <1>1, <1>2 DEF SocketInv

\* The server's steps, and what they do to recv_fd.
LEMMA HasFileStep == HasFile /\ [S!Next]_svars => HasFile'
<1> SUFFICES ASSUME HasFile, [S!Next]_svars PROVE HasFile'
  OBVIOUS
<1>1. CASE UNCHANGED recv_fd
  BY <1>1 DEF HasFile
<1>2. CASE S!recvmsg
  <2>1. CASE S!Stop
    BY <1>1, <2>1 DEF S!Stop
  <2>2. CASE recv_fd' = (fds < FdLimit)
    <3>1. (fds < FdLimit) \in BOOLEAN
      OBVIOUS
    <3> QED
      BY <2>2, <3>1 DEF HasFile
  <2> QED
    BY <1>2, <2>1, <2>2 DEF S!recvmsg
<1>3. CASE S!output
  BY <1>3, Zenon DEF S!output, HasFile
<1>4. [S!Next]_svars => UNCHANGED recv_fd \/ S!recvmsg \/ S!output
  BY DEF S!Next, S!ServerNext, S!ClientNext, S!connect, S!sendmsg, S!exit, S!die, S!setup, S!accept,
     S!Stop, svars
<1> QED
  BY <1>1, <1>2, <1>3, <1>4

LEMMA SocketStep == SocketInv /\ [S!Next]_svars => SocketInv'
<1> SUFFICES ASSUME SocketInv, [S!Next]_svars PROVE SocketInv'
  OBVIOUS
<1>0. HasFile'
  BY HasFileStep DEF SocketInv
<1> DEFINE Rest == SocketTypes /\ Holds /\ WithinLimit /\ S!OnlyConnectionsLeak
<1> SUFFICES Rest'
  BY <1>0 DEF SocketInv
<1> USE ClientsAssumption, FdLimitAssumption
<1> USE DEF SocketInv, SocketTypes, Holds, WithinLimit, S!OnlyConnectionsLeak, S!Nobody
<1>1. ASSUME NEW c \in Clients, S!ClientNext(c) \/ S!die(c) PROVE Rest'
  <2>1. backlog' \in Seq(Clients)
    BY <1>1 DEF S!ClientNext, S!connect, S!sendmsg, S!exit, S!die
  <2>2. UNCHANGED <<server, fds, peer, recv_fd, served>>
    BY <1>1 DEF S!ClientNext, S!connect, S!sendmsg, S!exit, S!die
  <2> QED
    BY <2>1, <2>2
<1>2. CASE S!setup
  BY <1>2 DEF S!setup
<1>3. CASE S!accept
  <2>1. CASE S!Stop
    BY <1>3, <2>1 DEF S!accept, S!Stop
  <2>2. CASE fds < FdLimit /\ server' = "accepted" /\ fds' = fds + 1
             /\ peer' = Head(backlog) /\ backlog' = Tail(backlog)
             /\ UNCHANGED <<recv_fd, sent, served>>
    <3>1. backlog # <<>> /\ server = "waiting"
      BY <1>3 DEF S!accept
    <3>2. Head(backlog) \in Clients /\ Tail(backlog) \in Seq(Clients)
      BY <3>1
    <3> QED
      BY <2>2, <3>1, <3>2
  <2> QED
    BY <1>3, <2>1, <2>2 DEF S!accept
<1>4. CASE S!recvmsg
  <2>1. CASE S!Stop
    BY <2>1 DEF S!Stop
  <2>2. CASE /\ recv_fd' = (fds < FdLimit)
             /\ fds' = IF fds < FdLimit THEN fds + 1 ELSE fds
             /\ server' = "received"
             /\ UNCHANGED <<backlog, peer, sent, served>>
    <3>1. server = "accepted"
      BY <1>4 DEF S!recvmsg
    <3>0. server' = "received" /\ UNCHANGED <<backlog, peer, served>>
      BY <2>2
    <3>2. CASE fds < FdLimit
      <4>1. recv_fd' /\ fds' = fds + 1
        BY <2>2, <3>2
      <4> QED
        BY <3>0, <3>1, <3>2, <4>1
    <3>3. CASE ~(fds < FdLimit)
      <4>1. ~recv_fd' /\ fds' = fds
        BY <2>2, <3>3
      <4> QED
        BY <3>0, <3>1, <3>3, <4>1
    <3> QED
      BY <3>2, <3>3
  <2> QED
    BY <1>4, <2>1, <2>2 DEF S!recvmsg
<1>5. CASE S!output
  <2>0. <<peer, recv_fd>> \in Entries
    BY <1>5, ClientsAssumption, Zenon DEF S!output, Entries, HasFile
  <2>1. served' \in Seq(Entries) /\ Len(served') = Len(served) + 1
    BY <1>5, <2>0 DEF S!output
  <2>2. ASSUME NEW k \in DOMAIN served' PROVE served'[k][2] <=> k < FdLimit - 1
    <3>1. CASE k \in DOMAIN served
      BY <1>5, <2>1, <3>1 DEF S!output
    <3>2. CASE k = Len(served) + 1
      BY <1>5, <2>1, <3>2 DEF S!output
    <3> QED
      BY <2>1, <2>2, <3>1, <3>2
  <2> QED
    BY <1>5, <2>1, <2>2 DEF S!output, S!output_file
<1>6. CASE UNCHANGED svars
  BY <1>6 DEF svars
<1> QED
  BY <1>1, <1>2, <1>3, <1>4, <1>5, <1>6 DEF S!Next, S!ServerNext

\* socket/server.c:74: however clients connect, send and die, the server leaks one
\* descriptor per connection and none per file, so that it serves FdLimit - 1 clients,
\* each but the last with its file.
THEOREM ConnectionsLeak == Spec => []OnlyConnectionsLeak
<1>1. SocketInv => OnlyConnectionsLeak
  BY DEF SocketInv, OnlyConnectionsLeak
<1> QED
  BY <1>1, SocketInit, SocketStep, StepOfEach, PTL DEF Spec

-----------------------------------------------------------------------------
(* Shmem: the letters of the client *)

ShmemTypes ==
  /\ variant \in {"fork", "memfd", "posix", "sysv"}
  /\ byte \in Nat \X Nat
  /\ pc \in [{"server", "client"} -> Nat]
  /\ i \in [{"server", "client"} -> Nat]

\* The client of a memfd is not started before the memory is cleared (call 5) and
\* announced (call 6), and stores nothing before it is started.
StartedAfterClear ==
  /\ variant = "memfd" /\ pc["server"] <= 6 => pc["client"] = 0
  /\ variant \in {"fork", "memfd"} /\ pc["client"] = 0 => i["client"] = 0

ShmemInv == ShmemTypes /\ StartedAfterClear /\ M!LettersStay

LEMMA ShmemInit == Init => ShmemInv
  BY LoopsAssumption DEF Init, M!Init, M!Roles, ShmemInv, ShmemTypes, StartedAfterClear, M!LettersStay

\* Ends of processes do not disturb the letters.
LEMMA ShmemStays == ShmemInv /\ UNCHANGED <<variant, byte, pc, i>> => ShmemInv'
  BY DEF ShmemInv, ShmemTypes, StartedAfterClear, M!LettersStay

LEMMA ShmemStep == ShmemInv /\ [M!Next]_mvars => ShmemInv'
<1> SUFFICES ASSUME ShmemInv, [M!Next]_mvars PROVE ShmemInv'
  OBVIOUS
<1>0. CASE UNCHANGED <<variant, byte, pc, i>>
  BY <1>0, ShmemStays
<1> USE LoopsAssumption DEF ShmemInv, ShmemTypes, StartedAfterClear, M!LettersStay
<1>1. ASSUME NEW r \in {"server", "client"}, M!Process(r) PROVE ShmemInv'
  <2> USE DEF M!At, M!Step, M!Quit
  <2>1. CASE M!create(r) \/ M!allocate(r) \/ M!attach(r) \/ M!wait(r) \/ M!shm_unlink(r)
    <3>1. pc' = [pc EXCEPT ![r] = @ + 1] /\ UNCHANGED <<byte, i, variant>>
      BY ONLY <2>1 DEF M!create, M!allocate, M!attach, M!wait, M!shm_unlink, M!Step
    <3>2. r = "client" => pc["client"] > 0
      BY <2>1 DEF M!create, M!allocate, M!attach, M!wait, M!shm_unlink
    <3>3. variant = "memfd" /\ pc["server"] <= 6 => r = "server"
      BY <2>1 DEF M!create, M!allocate, M!attach, M!wait, M!shm_unlink
    <3> QED
      BY <3>1, <3>2, <3>3
  <2>2. CASE M!memset(r)
    <3>0. pc[r] \in Nat /\ pc[r] > 0 /\ pc[r] <= Len(M!Program(r)) /\ M!Program(r)[pc[r]] = "memset"
      BY <2>2 DEF M!memset
    <3>0a. variant # "fork"
      BY <3>0 DEF M!Program, M!fork_parent, M!fork_child
    <3>0b. variant = "memfd" => r = "server"
      BY <3>0 DEF M!Program, M!memfd_client
    <3>0c. variant = "memfd" => pc["server"] <= 6
      BY <3>0, <3>0b DEF M!Program, M!memfd_server
    <3>1. i["client"] = 0 \/ variant \notin {"fork", "memfd"}
      BY <3>0a, <3>0b, <3>0c
    <3>2. byte' = <<0, 0>> /\ pc' = [pc EXCEPT ![r] = @ + 1] /\ UNCHANGED <<variant, i>>
      BY <2>2 DEF M!memset
    <3>3. r = "client" => variant \notin {"fork", "memfd"} \/ pc["client"] > 0
      BY <2>2 DEF M!memset
    <3> QED
      BY <3>1, <3>2, <3>3
  <2>3. CASE M!start_client(r)
    <3>1. UNCHANGED <<variant, byte, i>> /\ pc' = [pc EXCEPT ![r] = @ + 1, !["client"] = 1]
      BY <2>3 DEF M!start_client, M!StepAndStart
    <3>2. variant = "memfd" => pc["server"] >= 6 /\ r = "server"
      BY <2>3 DEF M!start_client, M!Program, M!memfd_server, M!memfd_client
    <3> QED
      BY <3>1, <3>2
  <2>4. CASE M!open(r)
    <3>1. UNCHANGED <<byte, i, variant>> /\ (pc' = pc \/ pc' = [pc EXCEPT ![r] = @ + 1])
      BY ONLY <2>4 DEF M!open, M!Step, M!Quit
    <3>2. r = "client" => pc["client"] > 0
      BY <2>4 DEF M!open
    <3> QED
      BY <3>1, <3>2
  <2>5. CASE M!loop(r)
    <3>1. \/ M!Quit(r, "killed")
          \/ /\ i[r] < NUM_LOOPS
             /\ byte' = [byte EXCEPT ![IF r = "server" THEN 1 ELSE 2] = i[r] + 1]
             /\ i' = [i EXCEPT ![r] = @ + 1]
             /\ UNCHANGED <<variant, pc>>
          \/ M!Step(r) /\ UNCHANGED <<byte, i>>
      BY ONLY <2>5 DEF M!loop
    <3>2. CASE M!Quit(r, "killed")
      <4>1. UNCHANGED <<variant, byte, pc, i>>
        BY ONLY <3>2 DEF M!Quit
      <4> QED
        BY <1>0, <4>1
    <3>3. CASE /\ i[r] < NUM_LOOPS
               /\ byte' = [byte EXCEPT ![IF r = "server" THEN 1 ELSE 2] = i[r] + 1]
               /\ i' = [i EXCEPT ![r] = @ + 1]
               /\ UNCHANGED <<variant, pc>>
      <4>1. variant \in {"fork", "memfd"} /\ r = "client" => pc["client"] > 0
        BY <2>5 DEF M!loop
      <4> QED
        BY <3>3, <4>1
    <3>4. CASE M!Step(r) /\ UNCHANGED <<byte, i>>
      <4>1. pc' = [pc EXCEPT ![r] = @ + 1] /\ UNCHANGED <<variant, byte, i>>
        BY ONLY <3>4 DEF M!Step
      <4>2. r = "client" => pc["client"] > 0
        BY <2>5 DEF M!loop
      <4> QED
        BY <4>1, <4>2
    <3> QED
      BY <3>1, <3>2, <3>3, <3>4
  <2>6. CASE M!finish(r)
    <3>1. UNCHANGED <<variant, byte, pc, i>>
      BY ONLY <2>6 DEF M!finish, M!Quit
    <3> QED
      BY <1>0, <3>1
  <2> QED
    BY <1>1, <2>1, <2>2, <2>3, <2>4, <2>5, <2>6 DEF M!Process
<1>2. CASE UNCHANGED mvars
  BY <1>2 DEF mvars
<1> QED
  BY <1>1, <1>2 DEF M!Next, M!Roles

\* shmem/fork and shmem/memfd: no store of the client is cleared behind it, in any
\* interleaving and for any number of letters.
THEOREM ClientLettersStay == Spec => []LettersStay
<1>1. ShmemInv => LettersStay
  BY DEF ShmemInv, LettersStay
<1> QED
  BY <1>1, ShmemInit, ShmemStep, StepOfEach, PTL DEF Spec

-----------------------------------------------------------------------------
(* QueryDevice: whose answer a user reads *)

Texts == [id : Nat, seen : Nat, len : Nat]
Vmas == {"vmaflags", "vmainfo"}
Devs == {"refcount", "pagebuffers"} \cup Vmas

\* A user with a question, in the handler and after it.
InHandler == {"texting", "sizing"}
AfterText == {"sizing", "written", "closed", "reopened"}
AfterSize == {"written", "closed", "reopened"}
Asking == InHandler \cup AfterSize

QueryTypes ==
  /\ loaded \subseteq Devs
  /\ asked \in Nat
  /\ text \in [Devs -> Texts]
  /\ size \in [Devs -> Nat]
  /\ at \in [Users -> Asking \cup {"idle", "opened", "answered", "crashed"}]
  /\ dev \in [Users -> Devs]
  /\ DOMAIN ask = Users /\ \A u \in Users : ask[u].id \in Nat /\ ask[u].len \in Nat
  /\ got \in [Users -> Texts]
  /\ DOMAIN over = Users

\* Time: no question and no text is from the future, and the text a user is about
\* to read was written after its question.
InTime ==
  /\ \A d \in Devs : text[d].seen <= asked
  /\ \A u \in Users : at[u] \in Asking => ask[u].id <= asked
  /\ \A u \in Users :
       (\/ at[u] \in Asking /\ dev[u] \in Vmas
        \/ at[u] \in AfterText /\ ~ask[u].refused) => text[dev[u]].seen >= ask[u].id

\* A user whose device was neither written by another nor loaded since its question
\* has the device to itself.
Undisturbed(u) == at[u] \in Asking /\ ~over[u]
Alone ==
  \A u \in Users : Undisturbed(u) =>
    \A v \in Users : v # u /\ dev[v] = dev[u] => at[v] \notin InHandler

\* Then the buffer holds as much of its answer as the handler has stored.
Buffered ==
  \A u \in Users : Undisturbed(u) =>
    /\ at[u] \in InHandler /\ dev[u] \in Vmas => size[dev[u]] = 1
    /\ at[u] \in AfterText /\ ~ask[u].refused =>
         text[dev[u]].id = ask[u].id /\ text[dev[u]].len = ask[u].len
    /\ at[u] \in AfterSize /\ ~ask[u].refused => size[dev[u]] >= ask[u].len

QueryInv == QueryTypes /\ InTime /\ Alone /\ Buffered /\ Q!NeverStale /\ Q!OwnAnswer

LEMMA QueryInit == Init => QueryInv
<1> SUFFICES ASSUME Q!Init PROVE QueryInv
  BY DEF Init
<1> USE DEF Q!Init, Texts, Vmas, Devs, InHandler, AfterText, AfterSize, Asking, Q!Devices, Q!Exper,
        Q!refcount_buf, Q!pagebuffers_buf, Q!output_buf, Q!initial_text, Q!NoAnswer, Q!NoQuestion
<1>1. text \in [Devs -> Texts] /\ \A d \in Devs : text[d].seen = 0
  OBVIOUS
<1>2. size \in [Devs -> Nat]
  BY <1>1
<1>3. QueryTypes
  BY <1>1, <1>2 DEF QueryTypes
<1>4. InTime /\ Alone /\ Buffered /\ Q!NeverStale /\ Q!OwnAnswer
  BY <1>1 DEF InTime, Alone, Buffered, Undisturbed, Q!NeverStale, Q!OwnAnswer
<1> QED
  BY <1>3, <1>4 DEF QueryInv

\* Steps that only move a user on, outside its questions, or unload a module.
Quiet ==
  /\ UNCHANGED <<asked, text, size, dev, ask, got, over>>
  /\ loaded' \subseteq Devs
  /\ at' \in [Users -> Asking \cup {"idle", "opened", "answered", "crashed"}]
  /\ \A v \in Users : \/ at'[v] = at[v]
                      \/ at[v] \in AfterSize /\ at'[v] \in AfterSize
                      \/ at'[v] \in {"idle", "opened", "crashed"}

LEMMA QuietStep == QueryInv /\ Quiet => QueryInv'
<1> SUFFICES ASSUME QueryInv, Quiet PROVE QueryInv'
  OBVIOUS
<1> USE DEF QueryInv, Quiet, InHandler, AfterText, AfterSize, Asking
<1>1. QueryTypes'
  BY DEF QueryTypes
<1>2. InTime'
  BY DEF InTime
<1>3. Alone' /\ Buffered'
  BY DEF Alone, Buffered, Undisturbed
<1>4. Q!NeverStale' /\ Q!OwnAnswer'
  BY DEF Q!NeverStale, Q!OwnAnswer
<1> QED
  BY <1>1, <1>2, <1>3, <1>4

\* A load of a module: its devices begin anew, and their users are disturbed.
LEMMA LoadStep ==
  ASSUME QueryInv, NEW devices, devices \subseteq Devs, Q!load(devices), loaded' \subseteq Devs
  PROVE  QueryInv'
<1> USE DEF QueryInv, QueryTypes, InHandler, AfterText, AfterSize, Asking
<1>1. UNCHANGED <<asked, at, dev, ask, got>>
  BY DEF Q!load
<1>2. /\ text' \in [Devs -> Texts] /\ size' \in [Devs -> Nat]
      /\ \A d \in devices : text'[d].seen = asked
      /\ \A d \in Devs \ devices : text'[d] = text[d] /\ size'[d] = size[d]
  <2>1. ASSUME NEW d \in Devs
        PROVE  Q!initial_text(d, asked) \in Texts /\ Q!initial_text(d, asked).seen = asked
    BY DEF Q!initial_text, Q!refcount_buf, Q!pagebuffers_buf, Q!output_buf, Texts
  <2>2. /\ text' = [d \in Devs |-> IF d \in devices THEN Q!initial_text(d, asked) ELSE text[d]]
        /\ size' = [d \in Devs |-> IF d \in devices THEN Q!initial_text(d, asked).len + 1 ELSE size[d]]
    BY DEF Q!load, Q!Devices, Q!Exper, Devs, Vmas
  <2>3. \A d \in Devs : Q!initial_text(d, asked).len + 1 \in Nat
    BY <2>1 DEF Texts
  <2> QED
    BY <2>1, <2>2, <2>3
<1>3. /\ DOMAIN over' = Users
      /\ \A v \in Users : ~over'[v] => ~over[v] /\ (at[v] \in Asking => dev[v] \notin devices)
  <2>1. over' = [v \in Users |-> over[v] \/ (Q!Awaits(v) /\ dev[v] \in devices)]
    BY DEF Q!load
  <2> QED
    BY <2>1 DEF Q!Awaits
<1>4. QueryTypes'
  BY <1>1, <1>2, <1>3
<1>5. InTime'
  <2>1. ASSUME NEW d \in Devs PROVE text'[d].seen <= asked /\ text'[d].seen >= text[d].seen
    <3>1. text[d].seen <= asked /\ text[d].seen \in Nat
      BY DEF InTime, Texts
    <3> QED
      BY <1>2, <3>1
  <2>2. ASSUME NEW v \in Users,
               \/ at[v] \in Asking /\ dev[v] \in Vmas
               \/ at[v] \in AfterText /\ ~ask[v].refused
        PROVE  text'[dev[v]].seen >= ask[v].id
    <3>1. text[dev[v]].seen >= ask[v].id /\ dev[v] \in Devs /\ ask[v].id \in Nat
      BY <2>2 DEF InTime
    <3>2. text'[dev[v]].seen >= text[dev[v]].seen /\ text'[dev[v]].seen \in Nat /\ text[dev[v]].seen \in Nat
      BY <1>2, <2>1, <3>1 DEF Texts
    <3> QED
      BY <3>1, <3>2
  <2>3. \A v \in Users : at[v] \in Asking => ask[v].id <= asked
    BY DEF InTime
  <2> QED
    BY <1>1, <2>1, <2>2, <2>3 DEF InTime
<1>6. Alone' /\ Buffered'
  <2>1. \A v \in Users : Undisturbed(v)' => Undisturbed(v) /\ dev[v] \in Devs \ devices
    BY <1>1, <1>3 DEF Undisturbed
  <2>2. Alone'
    BY <1>1, <2>1 DEF Alone
  <2>3. Buffered'
    BY <1>1, <1>2, <2>1 DEF Buffered
  <2> QED
    BY <2>2, <2>3
<1>7. Q!NeverStale' /\ Q!OwnAnswer'
  BY <1>1, <1>3 DEF Q!NeverStale, Q!OwnAnswer
<1> QED
  BY <1>4, <1>5, <1>6, <1>7

LEMMA OpenStep == ASSUME QueryInv, NEW u \in Users, Q!open(u) PROVE QueryInv'
<1> USE DEF QueryInv, QueryTypes, InHandler, AfterText, AfterSize, Asking
<1>1. PICK d \in loaded : dev' = [dev EXCEPT ![u] = d]
  BY DEF Q!open
<1>2. UNCHANGED <<loaded, asked, text, size, ask, got, over>>
  BY DEF Q!open
<1>3. at[u] = "idle" /\ \E p \in {"crashed", "opened"} : at' = [at EXCEPT ![u] = p]
  BY DEF Q!open, Q!Goto
<1>4. QueryTypes'
  BY <1>1, <1>2, <1>3
<1>5. InTime'
  BY <1>1, <1>2, <1>3 DEF InTime
<1>6. Alone' /\ Buffered'
  BY <1>1, <1>2, <1>3 DEF Alone, Buffered, Undisturbed
<1>7. Q!NeverStale' /\ Q!OwnAnswer'
  BY <1>1, <1>2, <1>3 DEF Q!NeverStale, Q!OwnAnswer
<1> QED
  BY <1>4, <1>5, <1>6, <1>7

\* Every write begins with a question.
LEMMA WriteAsks ==
  ASSUME NEW u \in Users, Q!write(u)
  PROVE  \E len \in Nat, bare \in BOOLEAN, refused \in BOOLEAN : Q!write_begin(u, len, bare, refused)
<1>1. PICK refused \in BOOLEAN : Q!asks(u, refused)
  BY DEF Q!write, Q!get_refcount, Q!print_page_buffers, Q!lookup_vma_flags, Q!shell
<1>2. CASE \E len \in Lengths : Q!write_begin(u, len, FALSE, refused)
  BY <1>2, LengthsAssumption
<1>3. CASE Q!write_begin(u, Q!pagebuffers_buf(0).len, TRUE, refused)
  <2>1. Q!pagebuffers_buf(0).len \in Nat
    BY DEF Q!pagebuffers_buf
  <2> QED
    BY <1>3, <2>1
<1> QED
  BY <1>1, <1>2, <1>3 DEF Q!asks

\* What the beginning of a write does: the question gets the next number, a VMA
\* device is emptied, the others on the device are disturbed.
LEMMA WriteBegins ==
  ASSUME QueryTypes, NEW u \in Users, Q!write(u)
  PROVE  LET d == dev[u] IN
         /\ UNCHANGED <<loaded, dev, got>> /\ asked' = asked + 1 /\ at[u] = "opened"
         /\ DOMAIN ask' = Users /\ ask'[u].id = asked + 1 /\ ask'[u].len \in Nat
         /\ \A v \in Users \ {u} : ask'[v] = ask[v]
         /\ \/ at' = [at EXCEPT ![u] = "written"] /\ ask'[u].refused
            \/ at' = [at EXCEPT ![u] = "texting"] /\ ~ask'[u].refused
         /\ text' \in [Devs -> Texts] /\ size' \in [Devs -> Nat]
         /\ \A e \in Devs \ {d} : text'[e] = text[e] /\ size'[e] = size[e]
         /\ IF d \in Vmas THEN text'[d].seen = asked + 1 /\ size'[d] = 1
            ELSE text'[d] = text[d] /\ size'[d] = size[d]
<1> DEFINE d == dev[u]
<1>1. PICK len \in Nat, bare \in BOOLEAN, refused \in BOOLEAN : Q!write_begin(u, len, bare, refused)
  BY WriteAsks
<1>2. UNCHANGED <<loaded, dev, got>> /\ at[u] = "opened" /\ asked' = asked + 1
  BY <1>1 DEF Q!write, Q!write_begin
<1>3. ask' = [ask EXCEPT ![u] = [id |-> asked + 1, len |-> len, refused |-> refused, bare |-> bare]]
  BY <1>1 DEF Q!write_begin
<1>4. /\ DOMAIN ask' = Users /\ ask'[u].id = asked + 1 /\ ask'[u].len \in Nat
      /\ \A v \in Users \ {u} : ask'[v] = ask[v]
  BY <1>3 DEF QueryTypes
<1>5. ask'[u].refused = refused
  BY <1>3 DEF QueryTypes
<1>6. \/ at' = [at EXCEPT ![u] = "written"] /\ ask'[u].refused
      \/ at' = [at EXCEPT ![u] = "texting"] /\ ~ask'[u].refused
  BY <1>1, <1>5 DEF Q!write_begin, Q!Goto
<1>7. CASE d \in Vmas
  <2>1. /\ text' = [text EXCEPT ![d] = [id |-> 0, seen |-> asked + 1, len |-> 0]]
        /\ size' = [size EXCEPT ![d] = 1]
    BY <1>1, <1>7 DEF Q!write_begin, Q!vmaflags_reset, Q!vmainfo_reset, Q!output_buf, Vmas
  <2> QED
    BY <1>2, <1>4, <1>6, <1>7, <2>1 DEF QueryTypes, Texts, Devs
<1>8. CASE d \notin Vmas
  <2>1. UNCHANGED <<text, size>>
    BY <1>1, <1>8 DEF Q!write_begin, Vmas, QueryTypes
  <2> QED
    BY <1>2, <1>4, <1>6, <1>8, <2>1 DEF QueryTypes
<1> QED
  BY <1>7, <1>8

\* And what it does to the record of disturbances.
LEMMA WriteDisturbs ==
  ASSUME QueryTypes, NEW u \in Users, Q!write(u)
  PROVE  /\ DOMAIN over' = Users
         /\ ~over'[u] => \A v \in Users : v # u /\ dev[v] = dev[u] => at[v] \notin InHandler
         /\ \A v \in Users : v # u /\ ~over'[v] =>
              ~over[v] /\ (at[v] \in Asking => dev[v] # dev[u])
<1>1. PICK len \in Nat, bare \in BOOLEAN, refused \in BOOLEAN : Q!write_begin(u, len, bare, refused)
  BY WriteAsks
<1>2. over' = [v \in Users |-> IF v = u THEN \E x \in Q!Others(u) : at[x] \in {"texting", "sizing"}
                               ELSE over[v] \/ (Q!Awaits(v) /\ v \in Q!Others(u))]
  BY <1>1 DEF Q!write_begin
<1>3. DOMAIN over' = Users
  BY <1>2
<1>4. over'[u] = (\E x \in Q!Others(u) : at[x] \in {"texting", "sizing"})
  BY <1>2
<1>5. \A v \in Users : v # u => over'[v] = (over[v] \/ (Q!Awaits(v) /\ v \in Q!Others(u)))
  BY <1>2
<1> QED
  BY <1>3, <1>4, <1>5 DEF Q!Others, Q!Awaits, InHandler, AfterSize, Asking

LEMMA WriteStep == ASSUME QueryInv, NEW u \in Users, Q!write(u) PROVE QueryInv'
<1> DEFINE d == dev[u]
<1>1. /\ UNCHANGED <<loaded, dev, got>> /\ asked' = asked + 1 /\ at[u] = "opened"
      /\ DOMAIN ask' = Users /\ ask'[u].id = asked + 1 /\ ask'[u].len \in Nat
      /\ \A v \in Users \ {u} : ask'[v] = ask[v]
      /\ \/ at' = [at EXCEPT ![u] = "written"] /\ ask'[u].refused
         \/ at' = [at EXCEPT ![u] = "texting"] /\ ~ask'[u].refused
      /\ text' \in [Devs -> Texts] /\ size' \in [Devs -> Nat]
      /\ \A e \in Devs \ {d} : text'[e] = text[e] /\ size'[e] = size[e]
      /\ IF d \in Vmas THEN text'[d].seen = asked + 1 /\ size'[d] = 1
         ELSE text'[d] = text[d] /\ size'[d] = size[d]
  BY WriteBegins DEF QueryInv
<1>2. /\ DOMAIN over' = Users
      /\ ~over'[u] => \A v \in Users : v # u /\ dev[v] = dev[u] => at[v] \notin InHandler
      /\ \A v \in Users : v # u /\ ~over'[v] =>
           ~over[v] /\ (at[v] \in Asking => dev[v] # dev[u])
  BY WriteDisturbs DEF QueryInv
<1> USE DEF QueryInv, QueryTypes, Texts, InHandler, AfterText, AfterSize, Asking
<1>0. /\ at' \in [Users -> Asking \cup {"idle", "opened", "answered", "crashed"}]
      /\ at'[u] \in {"written", "texting"} /\ (at'[u] = "written" => ask'[u].refused)
      /\ \A v \in Users \ {u} : at'[v] = at[v]
  <2>1. \E p \in {"written", "texting"} : at' = [at EXCEPT ![u] = p]
    BY <1>1
  <2>2. /\ at' \in [Users -> Asking \cup {"idle", "opened", "answered", "crashed"}]
        /\ at'[u] \in {"written", "texting"}
        /\ \A v \in Users \ {u} : at'[v] = at[v]
    BY <2>1
  <2>3. ASSUME at'[u] = "written" PROVE ask'[u].refused
    <3>1. CASE at' = [at EXCEPT ![u] = "texting"]
      BY <2>3, <3>1
    <3> QED
      BY <1>1, <3>1
  <2> QED
    BY <2>2, <2>3
<1>3. QueryTypes'
  <2>1. \A v \in Users : ask'[v].id \in Nat /\ ask'[v].len \in Nat
    BY <1>1
  <2> QED
    BY <1>0, <1>1, <1>2, <2>1
<1>4. InTime'
  <2>1. ASSUME NEW e \in Devs PROVE text'[e].seen <= asked' /\ text'[e].seen >= text[e].seen
    BY <1>1 DEF InTime
  <2>2. ASSUME NEW v \in Users, at'[v] \in Asking PROVE ask'[v].id <= asked'
    <3>1. CASE v = u
      BY <1>1, <3>1
    <3>2. CASE v # u
      <4>1. ask'[v] = ask[v] /\ at[v] \in Asking
        BY <1>0, <1>1, <2>2, <3>2
      <4>2. ask[v].id <= asked /\ ask[v].id \in Nat
        BY <4>1 DEF InTime
      <4> QED
        BY <1>1, <4>1, <4>2
    <3> QED
      BY <3>1, <3>2
  <2>3. ASSUME NEW v \in Users,
               \/ at'[v] \in Asking /\ dev'[v] \in Vmas
               \/ at'[v] \in AfterText /\ ~ask'[v].refused
        PROVE  text'[dev'[v]].seen >= ask'[v].id
    <3>1. CASE v = u
      BY <1>0, <1>1, <2>3, <3>1
    <3>2. CASE v # u
      <4>1. text[dev[v]].seen >= ask[v].id /\ dev[v] \in Devs
        BY <1>0, <1>1, <2>3, <3>2 DEF InTime
      <4>2. ask'[v] = ask[v] /\ dev' = dev /\ text'[dev[v]].seen \in Nat /\ text[dev[v]].seen \in Nat
        BY <1>1, <3>2, <4>1
      <4>3. text'[dev[v]].seen >= text[dev[v]].seen
        BY <2>1, <4>1
      <4> QED
        BY <4>1, <4>2, <4>3
    <3> QED
      BY <3>1, <3>2
  <2> QED
    BY <2>1, <2>2, <2>3 DEF InTime
<1>5. Alone'
  BY <1>0, <1>1, <1>2 DEF Alone, Undisturbed
<1>6. Buffered'
  <2> SUFFICES ASSUME NEW v \in Users, Undisturbed(v)'
      PROVE (/\ at[v] \in InHandler /\ dev[v] \in Vmas => size[dev[v]] = 1
             /\ at[v] \in AfterText /\ ~ask[v].refused =>
                  text[dev[v]].id = ask[v].id /\ text[dev[v]].len = ask[v].len
             /\ at[v] \in AfterSize /\ ~ask[v].refused => size[dev[v]] >= ask[v].len)'
    BY DEF Buffered
  <2>1. CASE v = u
    BY <1>1, <2>1
  <2>2. CASE v # u
    <3>1. Undisturbed(v) /\ dev[v] \in Devs \ {d}
      BY <1>0, <1>1, <1>2, <2>2 DEF Undisturbed
    <3> QED
      BY <1>1, <2>2, <3>1 DEF Buffered
  <2> QED
    BY <2>1, <2>2
<1>7. Q!NeverStale' /\ Q!OwnAnswer'
  <2>1. \A v \in Users : at'[v] = "answered" => v # u /\ at[v] = "answered"
    BY <1>1
  <2> QED
    BY <1>1, <1>2, <2>1 DEF Q!NeverStale, Q!OwnAnswer
<1> QED
  BY <1>3, <1>4, <1>5, <1>6, <1>7

LEMMA TextStep == ASSUME QueryInv, NEW u \in Users, Q!write_text(u) PROVE QueryInv'
<1> DEFINE d == dev[u]
<1> USE DEF QueryInv, QueryTypes, InHandler, AfterText, AfterSize, Asking
<1>1. /\ at[u] = "texting" /\ at' = [at EXCEPT ![u] = "sizing"]
      /\ UNCHANGED <<loaded, asked, size, dev, ask, got, over>> /\ d \in Devs
  BY DEF Q!write_text, Q!Goto
<1>2. text' = [text EXCEPT ![d] = [id |-> ask[u].id, seen |-> asked, len |-> ask[u].len]]
  BY <1>1 DEF Q!write_text, Q!refcount_text, Q!read_buffer_head, Q!vmaflags_text, Q!vmainfo_text,
     Q!Answer, Devs, Vmas
<1>3. /\ text' \in [Devs -> Texts]
      /\ text'[d].id = ask[u].id /\ text'[d].seen = asked /\ text'[d].len = ask[u].len
      /\ \A e \in Devs \ {d} : text'[e] = text[e]
  BY <1>1, <1>2 DEF Texts
<1>4. QueryTypes'
  BY <1>1, <1>3
<1>5. InTime'
  <2>1. \A e \in Devs : text'[e].seen <= asked
    BY <1>1, <1>3 DEF InTime
  <2>2. ASSUME NEW v \in Users, at'[v] \in Asking PROVE ask'[v].id <= asked'
    BY <1>1, <2>2 DEF InTime
  <2>3. ASSUME NEW v \in Users,
               \/ at'[v] \in Asking /\ dev'[v] \in Vmas
               \/ at'[v] \in AfterText /\ ~ask'[v].refused
        PROVE  text'[dev'[v]].seen >= ask'[v].id
    <3>1. CASE dev[v] = d
      BY <1>1, <1>3, <2>2, <2>3, <3>1
    <3>2. CASE dev[v] # d
      BY <1>1, <1>3, <2>3, <3>2 DEF InTime
    <3> QED
      BY <3>1, <3>2
  <2> QED
    BY <1>1, <2>1, <2>2, <2>3 DEF InTime
<1>6. Alone'
  BY <1>1 DEF Alone, Undisturbed
<1>7. Buffered'
  <2> SUFFICES ASSUME NEW v \in Users, Undisturbed(v)'
      PROVE (/\ at[v] \in InHandler /\ dev[v] \in Vmas => size[dev[v]] = 1
             /\ at[v] \in AfterText /\ ~ask[v].refused =>
                  text[dev[v]].id = ask[v].id /\ text[dev[v]].len = ask[v].len
             /\ at[v] \in AfterSize /\ ~ask[v].refused => size[dev[v]] >= ask[v].len)'
    BY DEF Buffered
  <2>1. CASE v = u
    BY <1>1, <1>3, <2>1 DEF Buffered, Undisturbed
  <2>2. CASE v # u
    <3>1. Undisturbed(v) /\ dev[v] \in Devs \ {d}
      BY <1>1, <2>2 DEF Alone, Undisturbed
    <3> QED
      BY <1>1, <1>3, <2>2, <3>1 DEF Buffered
  <2> QED
    BY <2>1, <2>2
<1>8. Q!NeverStale' /\ Q!OwnAnswer'
  BY <1>1 DEF Q!NeverStale, Q!OwnAnswer
<1> QED
  BY <1>4, <1>5, <1>6, <1>7, <1>8

LEMMA SizeStep == ASSUME QueryInv, NEW u \in Users, Q!write_size(u) PROVE QueryInv'
<1> DEFINE d == dev[u]
<1> USE DEF QueryInv, QueryTypes, InHandler, AfterText, AfterSize, Asking
<1>1. /\ at[u] = "sizing" /\ at' = [at EXCEPT ![u] = "written"]
      /\ UNCHANGED <<loaded, asked, text, dev, ask, got, over>> /\ d \in Devs
  BY DEF Q!write_size, Q!Goto
<1>2. size[d] \in Nat /\ ask[u].len \in Nat
  BY <1>1
<1>2a. PICK n \in Nat : size' = [size EXCEPT ![d] = n] /\ n >= ask[u].len
  <2>1. CASE d \in Vmas
    <3>1. size' = [size EXCEPT ![d] = size[d] + ask[u].len]
      BY <2>1 DEF Q!write_size, Q!vmaflags_write_, Q!vmainfo_write_, Vmas
    <3>2. size[d] + ask[u].len \in Nat /\ size[d] + ask[u].len >= ask[u].len
      BY <1>2
    <3> QED
      BY <3>1, <3>2
  <2>2. CASE d = "refcount"
    <3>1. size' = [size EXCEPT ![d] = ask[u].len + 1]
      BY <2>2 DEF Q!write_size, Q!refcount_write_
    <3>2. ask[u].len + 1 \in Nat /\ ask[u].len + 1 >= ask[u].len
      BY <1>2
    <3> QED
      BY <3>1, <3>2
  <2>3. CASE d = "pagebuffers"
    <3>1. size' = [size EXCEPT ![d] = Q!pagebuffers_write_(d, ask[u].len, ask[u].bare)]
      BY <2>3 DEF Q!write_size
    <3>2. PICK n : n = Q!pagebuffers_write_(d, ask[u].len, ask[u].bare)
      OBVIOUS
    <3>3. n = ask[u].len + 1 \/ n = ask[u].len
      BY <3>2 DEF Q!pagebuffers_write_
    <3>4. n \in Nat /\ n >= ask[u].len
      BY <1>2, <3>3
    <3> QED
      BY <3>1, <3>2, <3>4
  <2> QED
    BY <1>1, <2>1, <2>2, <2>3 DEF Devs
<1>3. /\ size' \in [Devs -> Nat] /\ size'[d] >= ask[u].len
      /\ \A e \in Devs \ {d} : size'[e] = size[e]
  BY <1>1, <1>2a
<1>4. QueryTypes'
  BY <1>1, <1>3
<1>5. InTime'
  BY <1>1 DEF InTime
<1>6. Alone'
  BY <1>1 DEF Alone, Undisturbed
<1>7. Buffered'
  <2> SUFFICES ASSUME NEW v \in Users, Undisturbed(v)'
      PROVE (/\ at[v] \in InHandler /\ dev[v] \in Vmas => size[dev[v]] = 1
             /\ at[v] \in AfterText /\ ~ask[v].refused =>
                  text[dev[v]].id = ask[v].id /\ text[dev[v]].len = ask[v].len
             /\ at[v] \in AfterSize /\ ~ask[v].refused => size[dev[v]] >= ask[v].len)'
    BY DEF Buffered
  <2>1. CASE v = u
    BY <1>1, <1>3, <2>1 DEF Buffered, Undisturbed
  <2>2. CASE v # u
    <3>1. Undisturbed(v) /\ dev[v] \in Devs \ {d}
      BY <1>1, <2>2 DEF Alone, Undisturbed
    <3> QED
      BY <1>1, <1>3, <2>2, <3>1 DEF Buffered
  <2> QED
    BY <2>1, <2>2
<1>8. Q!NeverStale' /\ Q!OwnAnswer'
  BY <1>1 DEF Q!NeverStale, Q!OwnAnswer
<1> QED
  BY <1>4, <1>5, <1>6, <1>7, <1>8

\* The reader takes what is buffered.
LEMMA ReadStep == ASSUME QueryInv, NEW u \in Users, Q!read(u) PROVE QueryInv'
<1> DEFINE d == dev[u]
           n == IF size[d] < text[d].len THEN size[d] ELSE text[d].len
<1> USE DEF QueryInv, QueryTypes, InHandler, AfterText, AfterSize, Asking
<1>1. /\ at[u] = "reopened" /\ at' = [at EXCEPT ![u] = "answered"]
      /\ UNCHANGED <<loaded, asked, text, size, dev, ask, over>> /\ d \in Devs
  BY DEF Q!read, Q!Goto
<1>2. got' = [got EXCEPT ![u] = Q!Readable(d)]
  BY <1>1 DEF Q!read, Q!refcount_read_, Q!pagebuffers_read_, Q!vmaflags_read_, Q!vmainfo_read_, Devs, Vmas
<1>3. Q!Readable(d) = [id |-> text[d].id, seen |-> text[d].seen, len |-> n]
  BY <1>1 DEF Q!Readable, Texts
<1>4. /\ got' \in [Users -> Texts]
      /\ got'[u].id = text[d].id /\ got'[u].seen = text[d].seen /\ got'[u].len = n
      /\ \A v \in Users \ {u} : got'[v] = got[v]
  BY <1>1, <1>2, <1>3 DEF Texts
<1>5. QueryTypes'
  BY <1>1, <1>4
<1>6. InTime'
  BY <1>1 DEF InTime
<1>7. Alone' /\ Buffered'
  BY <1>1 DEF Alone, Buffered, Undisturbed
<1>8. Q!NeverStale'
  BY <1>1, <1>4 DEF Q!NeverStale, InTime, Vmas
<1>9. Q!OwnAnswer'
  <2> SUFFICES ASSUME NEW v \in Users, (at[v] = "answered" /\ ~ask[v].refused /\ ~over[v])'
      PROVE (got[v].id = ask[v].id /\ got[v].len = ask[v].len)'
    BY DEF Q!OwnAnswer
  <2>1. CASE v = u
    <3>1. text[d].id = ask[u].id /\ text[d].len = ask[u].len /\ size[d] >= ask[u].len
      BY <1>1, <2>1 DEF Buffered, Undisturbed
    <3>2. n = ask[u].len
      BY <1>1, <3>1
    <3> QED
      BY <1>1, <1>4, <2>1, <3>1, <3>2
  <2>2. CASE v # u
    BY <1>1, <1>4, <2>2 DEF Q!OwnAnswer
  <2> QED
    BY <2>1, <2>2
<1> QED
  BY <1>5, <1>6, <1>7, <1>8, <1>9

LEMMA AgainStep == ASSUME QueryInv, NEW u \in Users, Q!again(u) PROVE QueryInv'
<1> USE DEF QueryInv, QueryTypes, InHandler, AfterText, AfterSize, Asking
<1>1. /\ at[u] = "answered" /\ at' = [at EXCEPT ![u] = "idle"]
      /\ UNCHANGED <<loaded, asked, text, size, dev>>
      /\ ask' = [ask EXCEPT ![u] = Q!NoQuestion]
      /\ got' = [got EXCEPT ![u] = Q!NoAnswer]
  BY DEF Q!again, Q!Goto
<1>2. DOMAIN over' = Users /\ \A v \in Users \ {u} : over'[v] = over[v]
  BY DEF Q!again
<1>3. /\ at'[u] = "idle"
      /\ \A v \in Users \ {u} : at'[v] = at[v] /\ ask'[v] = ask[v] /\ got'[v] = got[v]
  BY <1>1
<1>4. QueryTypes'
  BY <1>1, <1>2 DEF Q!NoQuestion, Q!NoAnswer, Q!output_buf, Texts
<1>5. InTime'
  BY <1>1, <1>3 DEF InTime
<1>6. Alone' /\ Buffered'
  BY <1>1, <1>2, <1>3 DEF Alone, Buffered, Undisturbed
<1>7. Q!NeverStale' /\ Q!OwnAnswer'
  BY <1>1, <1>2, <1>3 DEF Q!NeverStale, Q!OwnAnswer
<1> QED
  BY <1>4, <1>5, <1>6, <1>7

LEMMA QueryStep == QueryInv /\ [Q!Next]_qvars => QueryInv'
<1> SUFFICES ASSUME QueryInv, [Q!Next]_qvars PROVE QueryInv'
  OBVIOUS
<1> USE DEF AfterSize
<1>0. loaded \subseteq Devs /\ at \in [Users -> Asking \cup {"idle", "opened", "answered", "crashed"}]
  BY DEF QueryInv, QueryTypes
<1>1. CASE Q!exper_exit \/ Q!vmaflags_exit \/ Q!vmainfo_exit \/ UNCHANGED qvars
  <2>1. UNCHANGED <<at, asked, text, size, dev, ask, got, over>>
    BY <1>1 DEF Q!exper_exit, Q!vmaflags_exit, Q!vmainfo_exit, qvars
  <2>2. loaded' \subseteq Devs
    BY <1>0, <1>1 DEF Q!exper_exit, Q!vmaflags_exit, Q!vmainfo_exit, qvars
  <2>3. Quiet
    BY <1>0, <2>1, <2>2 DEF Quiet
  <2> QED
    BY <2>3, QuietStep
<1>1a. CASE Q!exper_init \/ Q!vmaflags_init \/ Q!vmainfo_init
  <2>1. CASE Q!exper_init
    <3>1. Q!load(Q!Exper) /\ loaded' \subseteq Devs /\ Q!Exper \subseteq Devs
      BY <1>0, <2>1 DEF Q!exper_init, Q!Exper, Devs
    <3> QED
      BY <3>1, LoadStep
  <2>2. CASE Q!vmaflags_init
    <3>1. Q!load({"vmaflags"}) /\ loaded' \subseteq Devs /\ {"vmaflags"} \subseteq Devs
      BY <1>0, <2>2 DEF Q!vmaflags_init, Devs, Vmas
    <3> QED
      BY <3>1, LoadStep
  <2>3. CASE Q!vmainfo_init
    <3>1. Q!load({"vmainfo"}) /\ loaded' \subseteq Devs /\ {"vmainfo"} \subseteq Devs
      BY <1>0, <2>3 DEF Q!vmainfo_init, Devs, Vmas
    <3> QED
      BY <3>1, LoadStep
  <2> QED
    BY <1>1a, <2>1, <2>2, <2>3
<1>2. ASSUME NEW u \in Users, Q!close(u) \/ Q!reopen(u) PROVE QueryInv'
  <2>1. UNCHANGED <<loaded, asked, text, size, dev, ask, got, over>>
    BY <1>2 DEF Q!close, Q!reopen
  <2>2. PICK p \in {"closed", "idle", "reopened", "crashed"} :
           /\ at' = [at EXCEPT ![u] = p]
           /\ p \in {"closed", "reopened"} => at[u] \in AfterSize
    <3>1. CASE Q!close(u)
      <4>1. /\ at[u] \in {"written", "opened"}
            /\ at' = [at EXCEPT ![u] = IF at[u] = "written" THEN "closed" ELSE "idle"]
        BY <3>1 DEF Q!close, Q!Goto
      <4> QED
        BY <4>1
    <3>2. CASE Q!reopen(u)
      <4>1. at[u] = "closed" /\ at' = [at EXCEPT ![u] = IF dev[u] \in loaded /\ loaded # {"refcount"} THEN "reopened" ELSE "crashed"]
        BY <3>2 DEF Q!reopen, Q!Goto
      <4> QED
        BY <4>1
    <3> QED
      BY <1>2, <3>1, <3>2
  <2>3. at' \in [Users -> Asking \cup {"idle", "opened", "answered", "crashed"}]
    BY <1>0, <2>2 DEF Asking
  <2>4. \A v \in Users : \/ at'[v] = at[v]
                         \/ at[v] \in AfterSize /\ at'[v] \in AfterSize
                         \/ at'[v] \in {"idle", "opened", "crashed"}
    BY <1>0, <2>2
  <2>5. UNCHANGED <<asked, text, size, dev, ask, got, over>>
    BY <2>1
  <2>6. loaded' \subseteq Devs
    BY <1>0, <2>1
  <2> QED
    <3>1. Quiet
      BY <2>3, <2>4, <2>5, <2>6 DEF Quiet
    <3> QED
      BY <3>1, QuietStep
<1> QED
  BY <1>1, <1>1a, <1>2, OpenStep, WriteStep, TextStep, SizeStep, ReadStep, AgainStep DEF Q!Next

\* kernel/exper/exper.c:131, kernel/vmaflags/vmaflags.c:35: for any number of users,
\* questions, loads and unloads of a module, nobody takes for its answer what the buffer
\* held before the question; on the VMA devices not even when the question is refused.
THEOREM AnswersFresh == Spec => []NeverStale
<1>1. QueryInv => NeverStale
  BY DEF QueryInv, NeverStale
<1> QED
  BY <1>1, QueryInit, QueryStep, StepOfEach, PTL DEF Spec

\* kernel/exper/exper.c:68-122: a user whose device is neither written by another nor
\* loaded anew between its question and its read gets its own answer, whole, although text
\* and size are stored apart and each branch sets the size in its own way.
THEOREM AnswersOwn == Spec => []OwnAnswer
<1>1. QueryInv => OwnAnswer
  BY DEF QueryInv, OwnAnswer
<1> QED
  BY <1>1, QueryInit, QueryStep, StepOfEach, PTL DEF Spec
=============================================================================
