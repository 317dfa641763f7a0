----------------------------- MODULE Userfaultfd -----------------------------
(***************************************************************************)
(* userfaultfd/: simple.c registers three pages with a userfaultfd and     *)
(* touches one of them; its own listener thread must supply the page while *)
(* the main thread is stopped in the fault.  The second store comes after  *)
(* mprotect(PROT_NONE) and ends the process, so what follows it in main()  *)
(* (fork, wait, pthread_join) is never reached.                            *)
(*                                                                         *)
(* The kernel's side (the queue of messages, the stopped thread, the copy  *)
(* that wakes it) is modelled from how the program uses it.                *)
(***************************************************************************)
EXTENDS Integers, Sequences, FiniteSets

CONSTANT PAGE_SIZE    \* bytes of a page

VARIABLES
  main_pc,      \* "init", "thread", "register", "store", "stopped", "again" or "killed";
                \* "failed" when a call failed
  fault,        \* the address the main thread is stopped at, -1 if none
  events,       \* messages of the userfaultfd, oldest first
  registered,   \* registered pages
  present,      \* pages that are there
  listener,     \* "none", "poll", "handle" or "copy"
  msg,          \* the message the listener has read
  leaked        \* pages map_page() made and nobody unmaps

vars == <<main_pc, fault, events, registered, present, listener, msg, leaked>>

Base == 10                       \* the page mmap() returns
NumPages == 3
PageOf(addr) == addr \div PAGE_SIZE
Alive == main_pc \notin {"killed", "failed"}

\* A plausible slip: rounding up.
PAGE_ALIGN_up(addr) == ((addr + PAGE_SIZE) \div PAGE_SIZE) * PAGE_SIZE
PAGE_ALIGN(addr) == (addr \div PAGE_SIZE) * PAGE_SIZE

Init ==
  /\ main_pc = "init" /\ fault = -1 /\ events = <<>>
  /\ registered = {} /\ present = {}
  /\ listener = "none" /\ msg = -1 /\ leaked = 0

-----------------------------------------------------------------------------
(* The main thread *)

\* make_handler(): the system call or the API handshake may be refused.
make_handler ==
  /\ main_pc = "init"
  /\ main_pc' \in {"thread", "failed"}
  /\ UNCHANGED <<fault, events, registered, present, listener, msg, leaked>>

pthread_create ==
  /\ main_pc = "thread"
  /\ \/ main_pc' = "register" /\ listener' = "poll"
     \/ main_pc' = "failed" /\ UNCHANGED listener
  /\ UNCHANGED <<fault, events, registered, present, msg, leaked>>

\* register_page_range(uffd, ptr, 3)
register_range(addr, len) == {PageOf(addr) + k : k \in 0 .. len \div PAGE_SIZE - 1}
register_page_range ==
  /\ main_pc = "register"
  /\ registered' = register_range(PAGE_ALIGN(Base * PAGE_SIZE), NumPages * PAGE_SIZE)
  /\ main_pc' \in {"store", "failed"}
  /\ UNCHANGED <<fault, events, present, listener, msg, leaked>>

\* ptr[2*4096] = 'x': the kernel may report any address of the page.
store ==
  /\ main_pc = "store"
  /\ \E addr \in (Base + 2) * PAGE_SIZE .. (Base + 3) * PAGE_SIZE - 1 :
       /\ PageOf(addr) \in registered \ present
       /\ fault' = addr /\ events' = Append(events, addr) /\ main_pc' = "stopped"
  /\ UNCHANGED <<registered, present, listener, msg, leaked>>

\* The page has come and the store is done; mprotect(PROT_NONE), which may be refused.
resume ==
  /\ main_pc = "stopped" /\ PageOf(fault) \in present
  /\ fault' = -1 /\ main_pc' \in {"again", "failed"}
  /\ UNCHANGED <<events, registered, present, listener, msg, leaked>>

\* The second store: SIGSEGV.
store_again ==
  /\ main_pc = "again"
  /\ main_pc' = "killed" /\ listener' = "none"
  /\ UNCHANGED <<fault, events, registered, present, msg, leaked>>

-----------------------------------------------------------------------------
(* The listener thread *)

poll_read ==
  /\ Alive /\ listener = "poll" /\ events # <<>>
  /\ msg' = Head(events) /\ events' = Tail(events)
  /\ listener' = "handle"
  /\ UNCHANGED <<main_pc, fault, registered, present, leaked>>

\* handle_event(): the only event this program makes is a fault, for which a page
\* of zeroes is mapped, and left mapped.  That mmap() is not refused here.
handle_event ==
  /\ Alive /\ listener = "handle"
  /\ leaked' = leaked + 1
  /\ listener' = "copy"
  /\ UNCHANGED <<main_pc, fault, events, registered, present, msg>>

\* UFFDIO_COPY: into a page that is registered and not there, or the program ends.
handle_fault ==
  /\ Alive /\ listener = "copy"
  /\ LET page == PageOf(PAGE_ALIGN(msg))
     IN  IF page \in registered \ present
         THEN present' = present \cup {page} /\ listener' = "poll" /\ UNCHANGED main_pc
         ELSE main_pc' = "failed" /\ listener' = "none" /\ UNCHANGED present
  /\ UNCHANGED <<fault, events, registered, msg, leaked>>

Main == make_handler \/ pthread_create \/ register_page_range \/ store \/ resume \/ store_again
Listener == poll_read \/ handle_event \/ handle_fault
Next == Main \/ Listener
Fairness == WF_vars(Main) /\ WF_vars(Listener)

\* The main thread's fault is answered with the page it stopped at, wherever in the
\* page it was: the store is made, once, and never waits for ever.
FaultAnswered ==
  (main_pc = "stopped") ~> (fault = -1 /\ present = {Base + 2} /\ leaked = 1)
=============================================================================
