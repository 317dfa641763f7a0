----------------------------- MODULE GupDevice -----------------------------
(***************************************************************************)
(* The GUP pin experiment: the kernel module mad/kernel/mad.c, with its    *)
(* two devices /dev/gup_uaddr and /dev/gup_event and the one pin it keeps  *)
(* in curr_page, and the program mad/mad.c that drives it.  Every run of   *)
(* the program maps the same page of test.txt.                             *)
(*                                                                         *)
(* No handler takes a lock, so the test of curr_page at the top of a       *)
(* handler and the use of curr_page further down are separate steps.  The  *)
(* address of curr_page is passed to the kernel, so the compiler reloads   *)
(* it after every call.                                                    *)
(***************************************************************************)
EXTENDS Integers, FiniteSets

CONSTANTS
  Clients,      \* processes that run mad/mad.c
  MaxRuns,      \* bound: runs of the program, over all clients
  MaxLoads      \* bound: insmod calls

ASSUME ClientsAssumption == IsFiniteSet(Clients)
ASSUME RunsAssumption == MaxRuns \in Nat /\ MaxLoads \in Nat

VARIABLES
  module,       \* "out"; "in"; "half": mad_init() failed at its second device
  curr_page,    \* is the static pointer curr_page set
  pins,         \* GUP pins held on the page
  dirty,        \* is the page marked dirty
  unsynced,     \* does the page hold bytes written since the last msync()
  pc,           \* where each client is
  runs, loads,  \* counters for the bounds
  oops          \* the kernel's fatal error: "none", "null_page", "stale_fops"

vars == <<module, curr_page, pins, dirty, unsynced, pc, runs, loads, oops>>
page == <<curr_page, pins, dirty, unsynced>>

\* In the program, and inside a handler of the module (with its file open).
UserPCs == {"gup", "write", "clean", "event1", "event0"}
HandlerPCs == {"pin", "poke", "mark", "unpin", "clear"}

Running == oops = "none"
At(c, l) == Running /\ pc[c] = l
Goto(c, l) == pc' = [pc EXCEPT ![c] = l]
Crash(c, why) == Goto(c, "dead") /\ oops' = why

\* A fopen() of a device that is not there.
NoDevice(dev) == module = "out" \/ (module = "half" /\ dev = "gup_event")

-----------------------------------------------------------------------------
(* mad.c and the handlers it calls *)

\* main(): map the page and msync() it; a run that fails here does nothing.
start(c) ==
  /\ Running
  /\ pc[c] \in {"out", "killed"}
  /\ runs < MaxRuns
  /\ runs' = runs + 1
  /\ dirty' = FALSE
  /\ unsynced' = FALSE
  /\ Goto(c, "gup")
  /\ UNCHANGED <<module, curr_page, pins, loads, oops>>

\* Faulty variant, a test of the properties: curr_page is not tested.
gup_unchecked(c) ==
  /\ At(c, "gup")
  /\ \/ NoDevice("gup_uaddr") /\ Goto(c, "out") /\ UNCHANGED oops
     \/ module = "half" /\ Crash(c, "stale_fops")
     \/ module = "in" /\ Goto(c, "pin") /\ UNCHANGED oops
  /\ UNCHANGED <<module, page, runs, loads>>

\* gup_page() up to the test of curr_page in gup_uaddr_write().  stdio writes
\* the address in fclose(), whose result is ignored: once the device is open
\* the program goes on as if the page were pinned, even if the handler refuses.
gup_page(c) ==
  /\ At(c, "gup")
  /\ \/ NoDevice("gup_uaddr") /\ Goto(c, "out") /\ UNCHANGED oops
     \/ module = "half" /\ Crash(c, "stale_fops")
     \/ module = "in" /\ curr_page /\ Goto(c, "write") /\ UNCHANGED oops
     \/ module = "in" /\ ~curr_page /\ Goto(c, "pin") /\ UNCHANGED oops
  /\ UNCHANGED <<module, page, runs, loads>>

\* The rest of gup_uaddr_write(): pin_user_pages_unlocked() for writing, which
\* faults the page in writable and dirty, or fails and pins nothing.
gup_uaddr_write(c) ==
  /\ At(c, "pin")
  /\ \/ curr_page' = TRUE /\ pins' = pins + 1 /\ dirty' = TRUE
     \/ UNCHANGED <<curr_page, pins, dirty>>
  /\ Goto(c, "write")
  /\ UNCHANGED <<module, unsynced, runs, loads, oops>>

\* ptr[0] = 'x': the write fault marks the page dirty.
write(c) ==
  /\ At(c, "write")
  /\ dirty' = TRUE
  /\ unsynced' = TRUE
  /\ Goto(c, "clean")
  /\ UNCHANGED <<module, curr_page, pins, runs, loads, oops>>

\* Faulty variant, a test of the properties: a failed msync() just stops.
clean_pinned(c) ==
  /\ At(c, "clean")
  /\ \/ dirty' = FALSE /\ unsynced' = FALSE /\ Goto(c, "event1")
     \/ Goto(c, "out") /\ UNCHANGED <<dirty, unsynced>>
  /\ UNCHANGED <<module, curr_page, pins, runs, loads, oops>>

\* do_sync(): if msync() fails, the program unpins and stops.
clean(c) ==
  /\ At(c, "clean")
  /\ \/ dirty' = FALSE /\ unsynced' = FALSE /\ Goto(c, "event1")
     \/ Goto(c, "event0") /\ UNCHANGED <<dirty, unsynced>>
  /\ UNCHANGED <<module, curr_page, pins, runs, loads, oops>>

\* gup_write_dirty() up to the test of curr_page in gup_event_write().  If the
\* device cannot be opened the program tries gup_unpin() and stops; if the
\* handler refuses, it goes on to gup_unpin() all the same.
gup_write_dirty(c) ==
  /\ At(c, "event1")
  /\ IF NoDevice("gup_event") \/ ~curr_page THEN Goto(c, "event0") ELSE Goto(c, "poke")
  /\ UNCHANGED <<module, page, runs, loads, oops>>

\* write_dirty(): the byte is stored through page_to_virt(curr_page) ...
write_dirty(c) ==
  /\ At(c, "poke")
  /\ \/ curr_page /\ unsynced' = TRUE /\ Goto(c, "mark") /\ UNCHANGED oops
     \/ ~curr_page /\ Crash(c, "null_page") /\ UNCHANGED unsynced
  /\ UNCHANGED <<module, curr_page, pins, dirty, runs, loads>>

\* Faulty variant, a test of the properties: set_page_dirty() is not called.
unmarked(c) ==
  /\ At(c, "mark")
  /\ curr_page /\ Goto(c, "event0") /\ UNCHANGED <<dirty, oops>>
  /\ UNCHANGED <<module, curr_page, pins, unsynced, runs, loads>>

\* ... and then set_page_dirty(curr_page).
set_page_dirty(c) ==
  /\ At(c, "mark")
  /\ \/ curr_page /\ dirty' = TRUE /\ Goto(c, "event0") /\ UNCHANGED oops
     \/ ~curr_page /\ Crash(c, "null_page") /\ UNCHANGED dirty
  /\ UNCHANGED <<module, curr_page, pins, unsynced, runs, loads>>

\* Faulty variant, a test of the properties: curr_page is not tested.
gup_unpin_unchecked(c) ==
  /\ At(c, "event0")
  /\ IF NoDevice("gup_event") THEN Goto(c, "out") ELSE Goto(c, "unpin")
  /\ UNCHANGED <<module, page, runs, loads, oops>>

\* gup_unpin() up to the test of curr_page in gup_event_write().
gup_unpin(c) ==
  /\ At(c, "event0")
  /\ IF NoDevice("gup_event") \/ ~curr_page THEN Goto(c, "out") ELSE Goto(c, "unpin")
  /\ UNCHANGED <<module, page, runs, loads, oops>>

\* unpin_curr_page(): unpin_user_pages_dirty_lock(&curr_page, 1, true) ...
unpin_curr_page(c) ==
  /\ At(c, "unpin")
  /\ \/ curr_page /\ pins' = pins - 1 /\ dirty' = TRUE /\ Goto(c, "clear")
        /\ UNCHANGED oops
     \/ ~curr_page /\ Crash(c, "null_page") /\ UNCHANGED <<pins, dirty>>
  /\ UNCHANGED <<module, curr_page, unsynced, runs, loads>>

\* Faulty variant, a test of the properties: curr_page is not reset.
stale_curr_page(c) ==
  /\ At(c, "clear")
  /\ Goto(c, "out")
  /\ UNCHANGED <<module, page, runs, loads, oops>>

\* ... and then curr_page = NULL.
clear_curr_page(c) ==
  /\ At(c, "clear")
  /\ curr_page' = FALSE
  /\ Goto(c, "out")
  /\ UNCHANGED <<module, pins, dirty, unsynced, runs, loads, oops>>

\* The process dies between two calls; the page it pinned stays pinned.
kill(c) ==
  /\ Running
  /\ pc[c] \in UserPCs
  /\ Goto(c, "killed")
  /\ UNCHANGED <<module, page, runs, loads, oops>>

-----------------------------------------------------------------------------
(* Loading and unloading the module *)

\* insmod.  If the second misc_register() fails, mad_init() returns the error
\* without deregistering the first device, whose fops are then freed memory.
mad_init ==
  /\ Running
  /\ module = "out"
  /\ loads < MaxLoads
  /\ loads' = loads + 1
  /\ module' \in {"in", "half"}
  /\ UNCHANGED <<page, pc, runs, oops>>

\* Faulty variant, a test of the properties: the pin is left behind.
mad_exit_pinned ==
  /\ Running
  /\ module = "in"
  /\ \A c \in Clients : pc[c] \notin HandlerPCs
  /\ module' = "out"
  /\ curr_page' = FALSE
  /\ UNCHANGED <<pins, dirty, unsynced, pc, runs, loads, oops>>

\* rmmod: refused while a device file is open (the fops name their owner).
mad_exit ==
  /\ Running
  /\ module = "in"
  /\ \A c \in Clients : pc[c] \notin HandlerPCs
  /\ module' = "out"
  /\ \/ curr_page /\ pins' = pins - 1 /\ dirty' = TRUE /\ curr_page' = FALSE
     \/ ~curr_page /\ UNCHANGED <<pins, dirty, curr_page>>
  /\ UNCHANGED <<unsynced, pc, runs, loads, oops>>

Init ==
  /\ module = "out"
  /\ curr_page = FALSE
  /\ pins = 0
  /\ dirty = FALSE
  /\ unsynced = FALSE
  /\ pc = [c \in Clients |-> "out"]
  /\ runs = 0
  /\ loads = 0
  /\ oops = "none"

\* What a run of the program does once it has started.
step(c) ==
  \/ gup_page(c) \/ gup_uaddr_write(c) \/ write(c) \/ clean(c)
  \/ gup_write_dirty(c) \/ write_dirty(c) \/ set_page_dirty(c)
  \/ gup_unpin(c) \/ unpin_curr_page(c) \/ clear_curr_page(c)

Next ==
  \/ mad_init
  \/ mad_exit
  \/ \E c \in Clients : start(c) \/ step(c) \/ kill(c)

Spec == Init /\ [][Next]_vars

\* A run that has started is scheduled, and its system calls return; nobody is
\* obliged to start, kill, load or unload anything.
FairSpec == Spec /\ \A c \in Clients : WF_vars(step(c))

-----------------------------------------------------------------------------
(* Properties *)

\* Types of the state; pins is the page's pin count, which must not underflow.
TypeOK ==
  /\ module \in {"out", "in", "half"}
  /\ curr_page \in BOOLEAN /\ dirty \in BOOLEAN /\ unsynced \in BOOLEAN
  /\ pins \in Nat
  /\ pc \in [Clients -> UserPCs \cup HandlerPCs \cup {"out", "killed", "dead"}]
  /\ runs \in 0..MaxRuns /\ loads \in 0..MaxLoads
  /\ oops \in {"none", "null_page", "stale_fops"}

\* curr_page remembers every pin, through kills, refused and failed pins and
\* reloads: the module holds one pin while curr_page is set and none otherwise.
PinBalanced ==
  (\A c \in Clients : pc[c] # "clear") => pins = IF curr_page THEN 1 ELSE 0

\* No handler works on a NULL curr_page, although the program runs both events
\* whether or not its page was pinned.
NoNullPage == oops # "null_page"

\* An unloaded module leaves no page pinned, even if the process that pinned
\* it died before it could unpin.
UnloadReleases == module = "out" => pins = 0

\* Every way out of main() releases the pin: a run that got past gup_page() ends
\* with no page pinned, unless it is killed or the kernel failed.
Released ==
  \A c \in Clients : pc[c] = "write" ~> ~curr_page \/ pc[c] = "killed" \/ ~Running

\* Bytes the module stores behind the file system's back are written to disk by
\* a later msync(): the page is marked dirty whenever it holds unsynced bytes,
\* except while a handler is between its store and set_page_dirty(), whatever
\* other clients sync meanwhile.
WritesTracked ==
  Running /\ unsynced => dirty \/ \E c \in Clients : pc[c] = "mark"

\* "To unpin gup mapping, echo 0 > /dev/gup_event": when the loaded module has
\* no page to operate on and no handler is at work, no pin is left that an echo
\* 0 could not drop.
EchoZeroUnpins ==
  /\ Running /\ module = "in" /\ ~curr_page
  /\ \A c \in Clients : pc[c] \notin HandlerPCs
  => pins = 0

=============================================================================
