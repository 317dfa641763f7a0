------------------------------- MODULE MCTalk --------------------------------
(***************************************************************************)
(* Model-checking instance of the programs that talk to another process or *)
(* thread.  They have nothing in common, so a behaviour runs one of them:  *)
(* the others stay in their initial states.                                *)
(***************************************************************************)
EXTENDS Integers

CONSTANTS Users, Lengths, MaxAsked, Clients, FdLimit, Backlog, NUM_LOOPS, PAGE_SIZE

\* The server's own socket has a descriptor; "nobody" is the peer of no connection.
ASSUME LengthsAssumption == Lengths \subseteq Nat
ASSUME ClientsAssumption == "nobody" \notin Clients
ASSUME FdLimitAssumption == FdLimit \in Nat \ {0}
ASSUME LoopsAssumption == NUM_LOOPS \in Nat

VARIABLES
  scenario,
  module, loaded, asked, text, size, at, dev, ask, got, over,
  server, fds, backlog, peer, recv_fd, client, sent, served,
  variant, segment, byte, pc, i, end,
  main_pc, fault, events, registered, present, listener, msg, leaked

Q == INSTANCE QueryDevice
S == INSTANCE Socket
M == INSTANCE Shmem
U == INSTANCE Userfaultfd

qvars == <<module, loaded, asked, text, size, at, dev, ask, got, over>>
svars == <<server, fds, backlog, peer, recv_fd, client, sent, served>>
mvars == <<variant, segment, byte, pc, i, end>>
uvars == <<main_pc, fault, events, registered, present, listener, msg, leaked>>
vars == <<scenario, qvars, svars, mvars, uvars>>

\* The programs that do not run stay in one of their initial states.
Init ==
  /\ scenario \in {"query", "socket", "shmem", "userfaultfd"}
  /\ Q!Init /\ (scenario # "query" => module = "exper")
  /\ S!Init
  /\ M!Init /\ (scenario # "shmem" => variant = "fork")
  /\ U!Init

query(A) == scenario = "query" /\ A /\ UNCHANGED <<scenario, svars, mvars, uvars>>
socket(A) == scenario = "socket" /\ A /\ UNCHANGED <<scenario, qvars, mvars, uvars>>
shmem(A) == scenario = "shmem" /\ A /\ UNCHANGED <<scenario, qvars, svars, uvars>>
userfaultfd(A) == scenario = "userfaultfd" /\ A /\ UNCHANGED <<scenario, qvars, svars, mvars>>

Next == query(Q!Next) \/ socket(S!Next) \/ shmem(M!Next) \/ userfaultfd(U!Next)

\* Processes and threads are not starved; see the Fairness of each module.
Fairness ==
  /\ WF_vars(socket(S!ServerNext)) /\ \A c \in Clients : WF_vars(socket(S!ClientNext(c)))
  /\ \A r \in M!Roles : WF_vars(shmem(M!Process(r)))
  /\ WF_vars(userfaultfd(U!Main)) /\ WF_vars(userfaultfd(U!Listener))

Spec == Init /\ [][Next]_vars /\ Fairness

-----------------------------------------------------------------------------
(* The properties of the modules. *)

\* QueryDevice: nobody takes for its answer what was in the buffer before it asked.
NeverStale == Q!NeverStale
\* QueryDevice: a user whose device nobody else writes or loads gets its own answer,
\* all of it.
OwnAnswer == Q!OwnAnswer
\* Socket: the server keeps one descriptor for each connection and none for files.
OnlyConnectionsLeak == S!OnlyConnectionsLeak
\* Socket: a client that has sent its file is served, or the server ends.
SentIsServed == S!SentIsServed
\* Shmem: what the client has stored is not cleared behind it.
LettersStay == M!LettersStay
\* Shmem: the server's waits end.
ServerEnds == M!ServerEnds
\* Userfaultfd: the fault of the main thread is answered with its page.
FaultAnswered == U!FaultAnswered
=============================================================================
