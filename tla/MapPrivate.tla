----------------------------- MODULE MapPrivate -----------------------------
(***************************************************************************)
(* src/read-pageflags/map-private.cc: one thread maps a file shared and    *)
(* keeps storing to its first byte; another maps it private, reads it, now *)
(* and then stores to its second byte, and both print the state of their   *)
(* page when it changes.  The kernel may reclaim a page at any time.       *)
(***************************************************************************)
EXTENDS ReadPageflags

CONSTANTS
  WriteEvery,    \* 10 in the code: the private thread stores every so many rounds
  MaxReclaims,   \* bound: pages the kernel reclaims in a behaviour
  MaxFailures    \* bound: reads of /proc that fail in a behaviour

VARIABLES
  w,          \* the kernel's pages
  at,         \* the next step of each thread
  stage,      \* the file its page_state is to be read from next
  state,      \* that page_state so far
  count,      \* rounds of the private thread, modulo WriteEvery
  prev,       \* the last state each thread has printed
  said,       \* the PFN of the last line of the private thread
  reclaims,   \* pages reclaimed so far
  failures    \* reads failed so far

vars == <<w, at, stage, state, count, prev, said, reclaims, failures>>

\* Each thread has one mapping, named as the thread.
Threads == {"shared", "private"}
P == "parent"

NoState == [pagemap |-> INVALID_VALUE, pfn |-> INVALID_VALUE, kpageflags |-> {}, mapcount |-> 0]

\* Which letter a thread stores (next_char()) matters to nothing.
Letter == "a"

\* The file exists (setup_file()) and main() runs as root.
Init ==
  /\ w = Fresh
  /\ at = [t \in Threads |-> "map"]
  /\ stage = [t \in Threads |-> "pagemap"] /\ state = [t \in Threads |-> NoState]
  /\ prev = [t \in Threads |-> NoState] /\ said = INVALID_VALUE /\ count = 0
  /\ reclaims = 0 /\ failures = 0

Go(t, where) == at' = [at EXCEPT ![t] = where]
\* An exception or exit() in one thread ends the process, and what it kept is gone.
Die ==
  /\ at' = [t \in Threads |-> "dead"]
  /\ w' = Exited(w, P)
  /\ prev' = [t \in Threads |-> NoState] /\ said' = INVALID_VALUE /\ count' = 0

-----------------------------------------------------------------------------
(* The constructor of page_state: three files are read one after the other,  *)
(* the last two by the PFN that the first one gave, and each may fail.  (It  *)
(* reads the maps line too, which no comparison looks at.)  The thread uses  *)
(* the state in the step of the last read: it is its own.                    *)

report_late(old, curr) == <<curr, curr # curr>>

\* The new prev, and whether it is printed.
report(old, curr) == IF old # curr THEN <<curr, TRUE>> ELSE <<old, FALSE>>

\* A line with a PFN and flags asks for the reference count and the buffers, which
\* may end the program.
PrintMayEnd(s) == s.pfn # INVALID_VALUE /\ s.kpageflags # INVALID_VALUE

\* The state s is the first one, or is compared with the last one that was printed
\* (a line of the private thread is kept as `said').
first_prev(t, s) ==
  /\ at[t] = "prev"
  /\ prev' = [prev EXCEPT ![t] = s] /\ Go(t, "loop") /\ UNCHANGED <<w, count, said>>
compare(t, s) ==
  /\ at[t] = "curr"
  /\ LET r == report(prev[t], s)
     IN  \/ /\ prev' = [prev EXCEPT ![t] = r[1]]
            /\ said' = IF t = "private" /\ r[2] THEN s.pfn ELSE said
            /\ Go(t, IF t = "private" THEN "wait" ELSE "loop")
            /\ UNCHANGED <<w, count>>
         \/ r[2] /\ PrintMayEnd(s) /\ Die

\* The file `of' gives its value or fails: the state is new(answer), and the
\* file to be read next is then(answer), or "none".
read_file(t, of, value, new(_), then(_)) ==
  /\ at[t] \in {"prev", "curr"} /\ stage[t] = of
  /\ \E x \in {value} \cup (IF failures < MaxFailures THEN {INVALID_VALUE} ELSE {}) :
       /\ failures' = failures + (IF x = INVALID_VALUE THEN 1 ELSE 0)
       /\ IF then(x) = "none"
          THEN /\ first_prev(t, new(x)) \/ compare(t, new(x))
               /\ stage' = [stage EXCEPT ![t] = "pagemap"]
               /\ state' = [state EXCEPT ![t] = NoState]
          ELSE /\ stage' = [stage EXCEPT ![t] = then(x)]
               /\ state' = [state EXCEPT ![t] = new(x)]
               /\ UNCHANGED <<w, at, count, prev, said>>
  /\ UNCHANGED reclaims

read_pagemap(t) ==
  read_file(t, "pagemap", Pagemap(w, P, t, 0, TRUE),
            LAMBDA x : [NoState EXCEPT !.pagemap = x, !.pfn = extract_pfn(x)],
            LAMBDA x : IF extract_pfn(x) = INVALID_VALUE THEN "none" ELSE "kpageflags")

\* Only masked states are compared, so the flags are masked when they are read.
masked(flags) ==
  IF flags = INVALID_VALUE THEN flags
  ELSE flags \ {"DIRTY", "ACTIVE", "REFERENCED", "WRITEBACK", "LRU"}

read_kpageflags(t) ==
  read_file(t, "kpageflags", Kpageflags(w, state[t].pfn),
            LAMBDA x : [state[t] EXCEPT !.kpageflags = masked(x)], LAMBDA x : "mapcount")

read_mapcount(t) ==
  read_file(t, "mapcount", Mapcount(w, state[t].pfn),
            LAMBDA x : [state[t] EXCEPT !.mapcount = x], LAMBDA x : "none")

page_state(t) == read_pagemap(t) \/ read_kpageflags(t) \/ read_mapcount(t)

-----------------------------------------------------------------------------
(* The shared thread *)

\* map_shared(true).  A mapping that fails throws.
map_shared ==
  /\ at["shared"] = "map"
  /\ \/ /\ w' = ReadFault(Mmap(w, P, "shared", "file", TRUE, 1), P, "shared", 0)
        /\ Go("shared", "first")
        /\ UNCHANGED <<stage, state, count, prev, said, reclaims, failures>>
     \/ Die /\ UNCHANGED <<stage, state, reclaims, failures>>

\* print_flags_virt(ptr, "... first ptr")
first_ptr(t) ==
  /\ at[t] = "first"
  /\ \/ Go(t, "prev") /\ UNCHANGED <<w, stage, state, count, prev, said, reclaims, failures>>
     \/ Pte(w, P, t, 0) > 0 /\ Die /\ UNCHANGED <<stage, state, reclaims, failures>>

store_shared ==
  /\ at["shared"] = "loop"
  /\ w' = Store(w, P, "shared", 0, 1, Letter)
  /\ Go("shared", "curr")
  /\ UNCHANGED <<stage, state, count, prev, said, reclaims, failures>>

-----------------------------------------------------------------------------
(* The private thread *)

\* main() gives the first thread 100 ms, which orders nothing for certain.
map_private ==
  /\ at["private"] = "map"
  /\ \/ /\ w' = Mmap(w, P, "private", "file", FALSE, 1)
        /\ Go("private", "first")
        /\ UNCHANGED <<stage, state, count, prev, said, reclaims, failures>>
     \/ Die /\ UNCHANGED <<stage, state, reclaims, failures>>

\* (pre_read_fault, the state before, only decides whether "PRIVATE read" is printed.)
read_fault ==
  /\ at["private"] = "loop"
  /\ w' = ReadFault(w, P, "private", 0)
  /\ Go("private", "curr")
  /\ UNCHANGED <<stage, state, count, prev, said, reclaims, failures>>

\* After the delay: count, and every WriteEvery rounds advance the second byte.
store_private ==
  /\ at["private"] = "wait"
  /\ count' = (count + 1) % WriteEvery
  /\ w' = IF count' = 0 THEN Store(w, P, "private", 0, 2, Letter) ELSE w
  /\ Go("private", "loop")
  /\ UNCHANGED <<stage, state, prev, said, reclaims, failures>>

-----------------------------------------------------------------------------

\* The kernel (external).
reclaim ==
  /\ reclaims < MaxReclaims
  /\ \E m \in Threads : LET f == Pte(w, P, m, 0) IN f > 0 /\ w' = Reclaim(w, f)
  /\ reclaims' = reclaims + 1
  /\ UNCHANGED <<at, stage, state, count, prev, said, failures>>

Shared == map_shared \/ first_ptr("shared") \/ page_state("shared") \/ store_shared
Private ==
  \/ map_private \/ first_ptr("private") \/ page_state("private")
  \/ read_fault \/ store_private

Next == Shared \/ Private \/ reclaim

Fairness == WF_vars(Private)

Spec == Init /\ [][Next]_vars /\ Fairness

-----------------------------------------------------------------------------

\* When the frame behind the private page has been replaced (the read fault that
\* maps the file's page, the store that copies it, a fault after a reclaim), the
\* thread sooner or later prints the new one, although the three files are read one
\* after the other and may fail, unless the page is gone again or the program has
\* ended.  Frame 2 is the file's page, 3 the copy.
ChangeSeen ==
  \A f \in 2 .. 3 :
    Pte(w, P, "private", 0) = f ~>
      (said = f \/ Pte(w, P, "private", 0) # f \/ at["private"] = "dead")
=============================================================================
