------------------------------- MODULE MCPages -------------------------------
(***************************************************************************)
(* Model-checking instance of the programs about pages: the page           *)
(* experiments, the private mapping experiment and the fault-around        *)
(* comparison.  A behaviour runs one of them; the others stay in their     *)
(* initial states.                                                         *)
(***************************************************************************)
EXTENDS Integers, Sequences

CONSTANTS
  INVALID_VALUE, NR_PAGES, WriteEvery, MaxReclaims, MaxFailures,
  Cpus, PTRS_PER_PTE, Word, Starts, Sizes, Offsets

Pointers == {"ptr", "ptr2", "ptr3", "ptr4", "ptr4b", "ptr4c", "ptr5", "ptr6", "ptr7", "ptr8", "huge",
             "shared", "private", "base", "before", "after", "buf"}

Processes == {"parent", "child", "child2"}
Files == {"file", "ro", "memfd", "shm1", "shm2"}

VARIABLES
  scenario,
  prog, root, tw, pc, status, last, line,
  pw, at, stage, state, count, prev, said, reclaims, failures,
  started, assigned, worker, vmf, nr_pages, mismatch

T == INSTANCE PageTour WITH w <- tw, Procs <- Processes,
       Mappings <- Pointers, Objects <- Files, MaxPages <- NR_PAGES + 1
P == INSTANCE MapPrivate WITH w <- pw, Procs <- {"parent"}, Mappings <- {"shared", "private"},
       Objects <- {"file"}, MaxPages <- 1
F == INSTANCE FaultAround

\* A page table has a power of two of entries; addresses and file pages stay a page
\* table's length below the end of the word.
ASSUME CpusAssumption == Cpus \in Nat
ASSUME TableAssumption == PTRS_PER_PTE \in Nat /\ \E k \in 0 .. PTRS_PER_PTE : PTRS_PER_PTE = 2 ^ k
ASSUME WordAssumption ==
  /\ Word \in Nat /\ Starts \subseteq Nat /\ Sizes \subseteq Nat /\ Offsets \subseteq Nat
  /\ \A x \in Starts \cup Offsets, size \in Sizes : x + size + PTRS_PER_PTE <= Word

\* ~0 is no PFN or count, no word of pagemap and no set of page flags.
ASSUME InvalidAssumption ==
  /\ INVALID_VALUE \notin Int
  /\ INVALID_VALUE \notin [present : BOOLEAN, swapped : BOOLEAN, file : BOOLEAN, exclusive : BOOLEAN,
                           pfn : Int]
  /\ \A flags \in SUBSET {"ZERO_PAGE", "LRU", "ANON", "SWAPBACKED", "DIRTY", "MMAP", "MAPPEDTODISK"} :
       flags # INVALID_VALUE

\* A step of a program names processes, mappings, files and pages that there are;
\* only a file is truncated or written.
WellFormed(s) ==
  /\ s.m \in Pointers /\ s.q \in Processes
  /\ s.i \in 0 .. NR_PAGES /\ s.n \in 0 .. NR_PAGES + 1
  /\ s.o \in Files \cup {"anon"}
  /\ s.op \in {"ftruncate", "pwrite"} => s.o \in Files
ASSUME ProgramsAssumption ==
  /\ NR_PAGES \in Nat \ {0}
  /\ \A x \in DOMAIN T!programs, p \in Processes :
       /\ Len(T!programs[x][p]) \in Nat
       /\ \A k \in 1 .. Len(T!programs[x][p]) : WellFormed(T!programs[x][p][k])

tvars == <<prog, root, tw, pc, status, last, line>>
pvars == <<pw, at, stage, state, count, prev, said, reclaims, failures>>
fvars == <<started, assigned, worker, vmf, nr_pages, mismatch>>
vars == <<scenario, tvars, pvars, fvars>>

Init ==
  /\ scenario \in {"tour", "private", "around"}
  /\ T!Init /\ (scenario # "tour" => prog = "read" /\ root)
  /\ P!Init
  /\ F!Init

tour(A) == scenario = "tour" /\ A /\ UNCHANGED <<scenario, pvars, fvars>>
private(A) == scenario = "private" /\ A /\ UNCHANGED <<scenario, tvars, fvars>>
around(A) == scenario = "around" /\ A /\ UNCHANGED <<scenario, tvars, pvars>>

Next == tour(T!Next) \/ private(P!Next) \/ around(F!Next)

\* The private thread is not starved.
Spec == Init /\ [][Next]_vars /\ WF_vars(private(P!Private))

-----------------------------------------------------------------------------
(* The properties of the modules. *)

\* PageTour: a page is what the program says of it where it is printed.
AsDescribed == scenario = "tour" => T!AsDescribed
\* PageTour: a printed line tells the page's state, or which file was unreadable.
PrintsWhatIs == scenario = "tour" => T!PrintsWhatIs
\* MapPrivate: a replaced frame is printed.
ChangeSeen == P!ChangeSeen
\* FaultAround: all versions give the reference's window.
SameWindow == scenario = "around" => F!SameWindow
=============================================================================
