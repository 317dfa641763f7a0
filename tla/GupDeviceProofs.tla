-------------------------- MODULE GupDeviceProofs ---------------------------
(***************************************************************************)
(* Theorems about the GUP pin device, for any bounds on runs and loads.    *)
(* With one user at a time the pin is balanced, never used when it is      *)
(* absent and released on unload; with any number of users, the bytes the  *)
(* module stores are tracked.                                              *)
(***************************************************************************)
EXTENDS GupDevice, TLAPS

\* One process runs mad.c at a time, as it is meant to be used.
OneUser == \A c, d \in Clients : c = d

\* Types, without the claim that the pin count cannot underflow.
Counters == pins \in Int /\ runs \in 0..MaxRuns /\ loads \in 0..MaxLoads
Flags ==
  /\ module \in {"out", "in", "half"}
  /\ curr_page \in BOOLEAN /\ dirty \in BOOLEAN /\ unsynced \in BOOLEAN
  /\ oops \in {"none", "null_page", "stale_fops"}
Places == pc \in [Clients -> UserPCs \cup HandlerPCs \cup {"out", "killed", "dead"}]
Types == Counters /\ Flags /\ Places

\* What a handler knows of curr_page at each of its steps, while nobody interferes.
HandlerKnows ==
  \A c \in Clients :
    /\ pc[c] = "pin" => ~curr_page
    /\ pc[c] \in {"poke", "mark", "unpin", "clear"} => curr_page
    /\ pc[c] = "clear" => pins = 0
    /\ pc[c] \in HandlerPCs => module = "in"

\* The pin is held by a loaded module.
HeldByModule == curr_page => module = "in"

\* The inductive invariant for one user: each conjunct of the properties needs
\* HandlerKnows, since the tests of curr_page were made steps ago.
Inv == Types /\ HandlerKnows /\ HeldByModule /\ PinBalanced /\ NoNullPage

-----------------------------------------------------------------------------

LEMMA InitTypes == Init => Types
<1> SUFFICES ASSUME Init PROVE Types
  OBVIOUS
<1>1. Counters
  BY RunsAssumption DEF Init, Counters
<1>2. Flags
  BY Zenon DEF Init, Flags
<1>3. Places
  BY DEF Init, Places
<1> QED
  BY <1>1, <1>2, <1>3 DEF Types

\* Every step of every user keeps the types.
LEMMA NextTypes == Types /\ [Next]_vars => Types'
<1> SUFFICES ASSUME Types, [Next]_vars PROVE Types'
  OBVIOUS
<1> USE DEF Types, Goto, Crash, At, Running, page
<1>1. CASE mad_init
  <2>1. Counters'
    BY <1>1, RunsAssumption DEF mad_init, Counters
  <2>2. Flags'
    BY <1>1, Zenon DEF mad_init, Flags
  <2>3. Places'
    BY <1>1 DEF mad_init, Places, UserPCs, HandlerPCs
  <2> QED
    BY <2>1, <2>2, <2>3
<1>2. CASE mad_exit
  <2>1. Counters'
    BY <1>2, RunsAssumption DEF mad_exit, Counters
  <2>2. Flags'
    BY <1>2, Zenon DEF mad_exit, Flags
  <2>3. Places'
    BY <1>2 DEF mad_exit, Places, UserPCs, HandlerPCs
  <2> QED
    BY <2>1, <2>2, <2>3
<1>3. ASSUME NEW c \in Clients, start(c) PROVE Types'
  <2>1. Counters'
    BY <1>3, RunsAssumption DEF start, Counters
  <2>2. Flags'
    BY <1>3, Zenon DEF start, Flags
  <2>3. Places'
    BY <1>3 DEF start, Places, UserPCs, HandlerPCs
  <2> QED
    BY <2>1, <2>2, <2>3
<1>4. ASSUME NEW c \in Clients, kill(c) PROVE Types'
  <2>1. Counters'
    BY <1>4, RunsAssumption DEF kill, Counters
  <2>2. Flags'
    BY <1>4, Zenon DEF kill, Flags
  <2>3. Places'
    BY <1>4 DEF kill, Places, UserPCs, HandlerPCs
  <2> QED
    BY <2>1, <2>2, <2>3
<1>5. ASSUME NEW c \in Clients, step(c) PROVE Types'
  <2>1. CASE gup_page(c)
    <3>1. Counters'
      BY <2>1, RunsAssumption DEF gup_page, Counters
    <3>2. Flags'
      BY <2>1, Zenon DEF gup_page, Flags
    <3>3. Places'
      BY <2>1 DEF gup_page, Places, UserPCs, HandlerPCs
    <3> QED
      BY <3>1, <3>2, <3>3
  <2>2. CASE gup_uaddr_write(c)
    <3>1. Counters'
      BY <2>2, RunsAssumption DEF gup_uaddr_write, Counters
    <3>2. Flags'
      BY <2>2, Zenon DEF gup_uaddr_write, Flags
    <3>3. Places'
      BY <2>2 DEF gup_uaddr_write, Places, UserPCs, HandlerPCs
    <3> QED
      BY <3>1, <3>2, <3>3
  <2>3. CASE write(c)
    <3>1. Counters'
      BY <2>3, RunsAssumption DEF write, Counters
    <3>2. Flags'
      BY <2>3, Zenon DEF write, Flags
    <3>3. Places'
      BY <2>3 DEF write, Places, UserPCs, HandlerPCs
    <3> QED
      BY <3>1, <3>2, <3>3
  <2>4. CASE clean(c)
    <3>1. Counters'
      BY <2>4, RunsAssumption DEF clean, Counters
    <3>2. Flags'
      BY <2>4, Zenon DEF clean, Flags
    <3>3. Places'
      BY <2>4 DEF clean, Places, UserPCs, HandlerPCs
    <3> QED
      BY <3>1, <3>2, <3>3
  <2>5. CASE gup_write_dirty(c)
    <3>1. Counters'
      BY <2>5, RunsAssumption DEF gup_write_dirty, Counters
    <3>2. Flags'
      BY <2>5, Zenon DEF gup_write_dirty, Flags
    <3>3. Places'
      BY <2>5 DEF gup_write_dirty, Places, UserPCs, HandlerPCs
    <3> QED
      BY <3>1, <3>2, <3>3
  <2>6. CASE write_dirty(c)
    <3>1. Counters'
      BY <2>6, RunsAssumption DEF write_dirty, Counters
    <3>2. Flags'
      BY <2>6, Zenon DEF write_dirty, Flags
    <3>3. Places'
      BY <2>6 DEF write_dirty, Places, UserPCs, HandlerPCs
    <3> QED
      BY <3>1, <3>2, <3>3
  <2>7. CASE set_page_dirty(c)
    <3>1. Counters'
      BY <2>7, RunsAssumption DEF set_page_dirty, Counters
    <3>2. Flags'
      BY <2>7, Zenon DEF set_page_dirty, Flags
    <3>3. Places'
      BY <2>7 DEF set_page_dirty, Places, UserPCs, HandlerPCs
    <3> QED
      BY <3>1, <3>2, <3>3
  <2>8. CASE gup_unpin(c)
    <3>1. Counters'
      BY <2>8, RunsAssumption DEF gup_unpin, Counters
    <3>2. Flags'
      BY <2>8, Zenon DEF gup_unpin, Flags
    <3>3. Places'
      BY <2>8 DEF gup_unpin, Places, UserPCs, HandlerPCs
    <3> QED
      BY <3>1, <3>2, <3>3
  <2>9. CASE unpin_curr_page(c)
    <3>1. Counters'
      BY <2>9, RunsAssumption DEF unpin_curr_page, Counters
    <3>2. Flags'
      BY <2>9, Zenon DEF unpin_curr_page, Flags
    <3>3. Places'
      BY <2>9 DEF unpin_curr_page, Places, UserPCs, HandlerPCs
    <3> QED
      BY <3>1, <3>2, <3>3
  <2>10. CASE clear_curr_page(c)
    <3>1. Counters'
      BY <2>10, RunsAssumption DEF clear_curr_page, Counters
    <3>2. Flags'
      BY <2>10, Zenon DEF clear_curr_page, Flags
    <3>3. Places'
      BY <2>10 DEF clear_curr_page, Places, UserPCs, HandlerPCs
    <3> QED
      BY <3>1, <3>2, <3>3
  <2> QED
    BY <1>5, <2>1, <2>2, <2>3, <2>4, <2>5, <2>6, <2>7, <2>8, <2>9, <2>10 DEF step
<1>6. CASE UNCHANGED vars
  <2>1. Counters'
    BY <1>6, RunsAssumption DEF vars, Counters
  <2>2. Flags'
    BY <1>6, Zenon DEF vars, Flags
  <2>3. Places'
    BY <1>6 DEF vars, Places, UserPCs, HandlerPCs
  <2> QED
    BY <2>1, <2>2, <2>3
<1> QED
  BY <1>1, <1>2, <1>3, <1>4, <1>5, <1>6 DEF Next

-----------------------------------------------------------------------------
(* One user *)

LEMMA InitInv == Init => Inv
<1> SUFFICES ASSUME Init PROVE Inv
  OBVIOUS
<1>1. Types
  BY InitTypes
<1>2. HandlerKnows /\ HeldByModule /\ PinBalanced /\ NoNullPage
  BY DEF Init, HandlerKnows, HeldByModule, PinBalanced, NoNullPage, HandlerPCs
<1> QED
  BY <1>1, <1>2 DEF Inv

\* One step per action; each has the types from NextTypes.
LEMMA NextInv == ASSUME OneUser PROVE Inv /\ [Next]_vars => Inv'
<1> SUFFICES ASSUME Inv, [Next]_vars PROVE Inv'
  OBVIOUS
<1>0. Types'
  BY NextTypes DEF Inv
<1> DEFINE Rest == HandlerKnows /\ HeldByModule /\ PinBalanced /\ NoNullPage
<1> SUFFICES Rest'
  BY <1>0 DEF Inv
<1> USE OneUser, <1>0 DEF OneUser, Inv, Types, Counters, Flags, Places, HandlerKnows, HeldByModule,
        PinBalanced, NoNullPage,        Goto, Crash, At, Running, page, UserPCs, HandlerPCs
<1>1. CASE mad_init
  BY <1>1 DEF mad_init
<1>2. CASE mad_exit
  BY <1>2 DEF mad_exit
<1>3. ASSUME NEW c \in Clients, start(c) PROVE Rest'
  BY <1>3 DEF start
<1>4. ASSUME NEW c \in Clients, kill(c) PROVE Rest'
  BY <1>4 DEF kill
<1>5. ASSUME NEW c \in Clients, step(c) PROVE Rest'
  <2>1. CASE gup_page(c)
    BY <2>1 DEF gup_page
  <2>2. CASE gup_uaddr_write(c)
    BY <2>2 DEF gup_uaddr_write
  <2>3. CASE write(c)
    BY <2>3 DEF write
  <2>4. CASE clean(c)
    BY <2>4 DEF clean
  <2>5. CASE gup_write_dirty(c)
    BY <2>5 DEF gup_write_dirty, NoDevice
  <2>6. CASE write_dirty(c)
    BY <2>6 DEF write_dirty
  <2>7. CASE set_page_dirty(c)
    BY <2>7 DEF set_page_dirty
  <2>8. CASE gup_unpin(c)
    BY <2>8 DEF gup_unpin, NoDevice
  <2>9. CASE unpin_curr_page(c)
    BY <2>9 DEF unpin_curr_page
  <2>10. CASE clear_curr_page(c)
    BY <2>10 DEF clear_curr_page
  <2> QED
    BY <1>5, <2>1, <2>2, <2>3, <2>4, <2>5, <2>6, <2>7, <2>8, <2>9, <2>10 DEF step
<1>6. CASE UNCHANGED vars
  BY <1>6 DEF vars
<1> QED
  BY <1>1, <1>2, <1>3, <1>4, <1>5, <1>6 DEF Next

LEMMA Invariance == ASSUME OneUser PROVE Spec => []Inv
  BY InitInv, NextInv, PTL DEF Spec

\* mad.c and mad/kernel/mad.c, one user: the state is of its types and the page's
\* pin count never underflows, whatever is killed or reloaded.
THEOREM GupTypeCorrect == ASSUME OneUser PROVE Spec => []TypeOK
<1>1. Inv => TypeOK
  BY DEF Inv, Types, Counters, Flags, Places, TypeOK, HandlerKnows, PinBalanced
<1> QED
  BY <1>1, Invariance, PTL

\* One user: unless a handler is just between unpin and reset, the module holds one
\* pin if curr_page is set and none otherwise (mad.c:40, :94, :113).
THEOREM PinsBalance == ASSUME OneUser PROVE Spec => []PinBalanced
<1>1. Inv => PinBalanced
  BY DEF Inv
<1> QED
  BY <1>1, Invariance, PTL

\* One user: no handler dereferences a NULL curr_page, although its test was made
\* earlier (mad.c:94) and the program runs the events on pages it never pinned.
THEOREM NoNullDereference == ASSUME OneUser PROVE Spec => []NoNullPage
<1>1. Inv => NoNullPage
  BY DEF Inv
<1> QED
  BY <1>1, Invariance, PTL

\* One user: after rmmod no page is pinned, even if the process that pinned it was
\* killed (mad_exit()).
THEOREM UnloadUnpins == ASSUME OneUser PROVE Spec => []UnloadReleases
<1>1. Inv => UnloadReleases
  BY DEF Inv, UnloadReleases, HeldByModule, PinBalanced, HandlerKnows, HandlerPCs
<1> QED
  BY <1>1, Invariance, PTL

\* One user: what mad.c:27 says of echo 0 is so; the run gup_race shows that two
\* users break it.
THEOREM EchoZeroSuffices == ASSUME OneUser PROVE Spec => []EchoZeroUnpins
<1>1. Inv => EchoZeroUnpins
  BY DEF Inv, EchoZeroUnpins, PinBalanced, HandlerPCs
<1> QED
  BY <1>1, Invariance, PTL

-----------------------------------------------------------------------------
(* Any number of users *)

\* The module's stores are never left in a page marked clean (mad.c:101), whatever
\* the others pin, sync, unpin or unload between the store and set_page_dirty().
THEOREM StoresTracked == Spec => []WritesTracked
<1> DEFINE Tracked == Types /\ WritesTracked
<1>1. Init => Tracked
  BY InitTypes DEF Init, WritesTracked
<1>2. Tracked /\ [Next]_vars => Tracked'
  <2> SUFFICES ASSUME Tracked, [Next]_vars PROVE WritesTracked'
    BY NextTypes
  <2> USE DEF Types, Counters, Flags, Places, WritesTracked, Goto, Crash, At, Running, page, UserPCs
  <2>1. CASE mad_init
    BY <2>1 DEF mad_init
  <2>2. CASE mad_exit
    BY <2>2 DEF mad_exit
  <2>3. ASSUME NEW c \in Clients, start(c) PROVE WritesTracked'
    BY <2>3 DEF start
  <2>4. ASSUME NEW c \in Clients, kill(c) PROVE WritesTracked'
    BY <2>4 DEF kill
  <2>5. ASSUME NEW c \in Clients, step(c) PROVE WritesTracked'
    <3>1. CASE gup_page(c)
      BY <3>1 DEF gup_page
    <3>2. CASE gup_uaddr_write(c)
      BY <3>2 DEF gup_uaddr_write
    <3>3. CASE write(c)
      BY <3>3 DEF write
    <3>4. CASE clean(c)
      BY <3>4 DEF clean
    <3>5. CASE gup_write_dirty(c)
      BY <3>5 DEF gup_write_dirty
    <3>6. CASE write_dirty(c)
      BY <3>6 DEF write_dirty
    <3>7. CASE set_page_dirty(c)
      BY <3>7 DEF set_page_dirty
    <3>8. CASE gup_unpin(c)
      BY <3>8 DEF gup_unpin
    <3>9. CASE unpin_curr_page(c)
      BY <3>9 DEF unpin_curr_page
    <3>10. CASE clear_curr_page(c)
      BY <3>10 DEF clear_curr_page
    <3> QED
      BY <2>5, <3>1, <3>2, <3>3, <3>4, <3>5, <3>6, <3>7, <3>8, <3>9, <3>10 DEF step
  <2>6. CASE UNCHANGED vars
    BY <2>6 DEF vars
  <2> QED
    BY <2>1, <2>2, <2>3, <2>4, <2>5, <2>6 DEF Next
<1> QED
  BY <1>1, <1>2, PTL DEF Spec
=============================================================================
