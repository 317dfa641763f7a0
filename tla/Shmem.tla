-------------------------------- MODULE Shmem --------------------------------
(***************************************************************************)
(* shmem/: two processes that share two bytes, by fork(), memfd, POSIX or  *)
(* System V shared memory.  The server (the parent) stores letters in the  *)
(* first byte, the client (the child) in the second, and some wait for a   *)
(* letter of the other.  A program is its sequence of calls; a letter is   *)
(* its number, 0 stands for '\0'.                                          *)
(***************************************************************************)
EXTENDS Integers, Sequences

CONSTANT NUM_LOOPS

VARIABLES
  variant,    \* "fork", "memfd", "posix" or "sysv"
  segment,    \* "none", "empty" (no pages) or "sized"
  byte,       \* the two shared bytes
  pc,         \* the next call of "server" and "client"; 0: not started
  i,          \* letters each has stored
  end         \* how each ended: "running", "done", "failed" or "killed" (SIGBUS)

vars == <<variant, segment, byte, pc, i, end>>

Roles == {"server", "client"}

fork_parent == <<"mmap_anon", "fork", "loop", "waitpid">>
fork_child == <<"loop">>

\* A plausible slip: the path is printed before the memory is cleared.
memfd_server_early ==
  <<"create", "ftruncate", "seal", "mmap", "announce", "memset", "wait_client", "loop">>
memfd_server ==
  <<"create", "ftruncate", "seal", "mmap", "memset", "announce", "wait_client", "loop">>
memfd_client == <<"open", "mmap", "close", "loop">>

posix_server == <<"create", "ftruncate", "mmap", "memset", "loop", "wait_last", "shm_unlink">>
posix_client == <<"open", "mmap", "loop">>

sysv_server == <<"shmget", "shmat", "memset", "loop">>
sysv_client == <<"open", "shmat", "loop">>

Program(r) ==
  CASE variant = "fork" -> IF r = "server" THEN fork_parent ELSE fork_child
    [] variant = "memfd" -> IF r = "server" THEN memfd_server ELSE memfd_client
    [] variant = "posix" -> IF r = "server" THEN posix_server ELSE posix_client
    [] variant = "sysv" -> IF r = "server" THEN sysv_server ELSE sysv_client

\* A POSIX segment whose server was killed, and every System V segment, is still
\* there with its last letters when the programs run again.  The child and the
\* client of a memfd start when the server lets them.
Init ==
  /\ variant \in {"fork", "memfd", "posix", "sysv"}
  /\ segment \in IF variant \in {"posix", "sysv"} THEN {"none", "sized"} ELSE {"none"}
  /\ byte = IF segment = "sized" THEN <<NUM_LOOPS, NUM_LOOPS>> ELSE <<0, 0>>
  /\ pc = [server |-> 1, client |-> IF variant \in {"posix", "sysv"} THEN 1 ELSE 0]
  /\ i = [r \in Roles |-> 0]
  /\ end = [r \in Roles |-> "running"]

At(r, call) == end[r] = "running" /\ pc[r] > 0 /\ pc[r] <= Len(Program(r)) /\ Program(r)[pc[r]] = call
Step(r) == pc' = [pc EXCEPT ![r] = @ + 1] /\ UNCHANGED <<variant, end>>
StepAndStart(r, other) == pc' = [pc EXCEPT ![r] = @ + 1, ![other] = 1] /\ UNCHANGED <<variant, end>>
Quit(r, why) == end' = [end EXCEPT ![r] = why] /\ UNCHANGED <<variant, pc, segment, byte, i>>

\* memfd_create(), shm_open(O_CREAT): an existing segment is kept as it is.
create(r) ==
  /\ At(r, "create")
  /\ segment' = IF segment = "none" THEN "empty" ELSE segment
  /\ Step(r) /\ UNCHANGED <<byte, i>>

\* ftruncate(), shmget(IPC_CREAT) and mmap(MAP_ANON) give it its pages.
allocate(r) ==
  /\ At(r, "ftruncate") \/ At(r, "shmget") \/ At(r, "mmap_anon")
  /\ segment' = "sized"
  /\ Step(r) /\ UNCHANGED <<byte, i>>

\* Calls that change nothing here: mapping is possible before there are pages.
attach(r) ==
  /\ At(r, "seal") \/ At(r, "mmap") \/ At(r, "shmat") \/ At(r, "close")
  /\ Step(r) /\ UNCHANGED <<segment, byte, i>>

\* memset(ptr, 0, SIZE)
memset(r) ==
  /\ At(r, "memset")
  /\ byte' = <<0, 0>>
  /\ Step(r) /\ UNCHANGED <<segment, i>>

\* fork(), and the printed path by which a client finds the memfd.
start_client(r) ==
  /\ At(r, "fork") \/ At(r, "announce")
  /\ StepAndStart(r, "client") /\ UNCHANGED <<segment, byte, i>>

\* open(), shm_open() and shmget() of a client.
open(r) ==
  /\ At(r, "open")
  /\ \/ segment # "none" /\ Step(r) /\ UNCHANGED <<segment, byte, i>>
     \/ segment = "none" /\ Quit(r, "failed")

\* One round of the loop: a store behind the end of the segment is fatal.
loop(r) ==
  /\ At(r, "loop")
  /\ \/ /\ segment = "empty"
        /\ Quit(r, "killed")
     \/ /\ segment # "empty" /\ i[r] < NUM_LOOPS
        /\ byte' = [byte EXCEPT ![IF r = "server" THEN 1 ELSE 2] = i[r] + 1]
        /\ i' = [i EXCEPT ![r] = @ + 1]
        /\ UNCHANGED <<variant, segment, pc, end>>
     \/ i[r] = NUM_LOOPS /\ Step(r) /\ UNCHANGED <<segment, byte, i>>

\* A plausible slip: one letter too far.
last_letter_off == NUM_LOOPS + 1
last_letter == NUM_LOOPS

\* while (...) sleep(1), and waitpid().
wait(r) ==
  /\ \/ At(r, "wait_client") /\ byte[2] >= 1
     \/ At(r, "wait_last") /\ byte[2] = last_letter
     \/ At(r, "waitpid") /\ end["client"] # "running"
  /\ Step(r) /\ UNCHANGED <<segment, byte, i>>

\* shm_unlink(): who has mapped it keeps it.
shm_unlink(r) ==
  /\ At(r, "shm_unlink")
  /\ segment' = IF pc["client"] = 1 THEN "none" ELSE segment
  /\ Step(r) /\ UNCHANGED <<byte, i>>

finish(r) ==
  /\ end[r] = "running" /\ pc[r] > Len(Program(r))
  /\ Quit(r, "done")

Process(r) ==
  \/ create(r) \/ allocate(r) \/ attach(r) \/ memset(r) \/ start_client(r) \/ open(r)
  \/ loop(r) \/ wait(r) \/ shm_unlink(r) \/ finish(r)

Next == \E r \in Roles : Process(r)
Fairness == \A r \in Roles : WF_vars(Process(r))

-----------------------------------------------------------------------------
(* Properties *)

\* With fork() and memfd the client cannot come before the memory is cleared: what
\* it has stored stays.  (POSIX and System V clients may lose letters to memset().)
LettersStay ==
  variant \in {"fork", "memfd"} /\ i["client"] > 0 => byte[2] = i["client"]

\* A server whose memory is cleared while its client has letters to store does not
\* wait for ever: the letter it waits for comes and is still there when it looks.
ServerEnds ==
  (/\ \E k \in 1 .. pc["server"] - 1 : Program("server")[k] = "memset"
   /\ end["client"] = "running" /\ i["client"] < NUM_LOOPS)
     ~> (end["server"] = "done")
=============================================================================
