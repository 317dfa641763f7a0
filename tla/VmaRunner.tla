----------------------------- MODULE VmaRunner ------------------------------
(***************************************************************************)
(* Runs the mapping experiments: one program, one system call a step, on   *)
(* an address space that already holds the mappings of the C library.      *)
(***************************************************************************)
EXTENDS Procmap

CONSTANTS
  Programs,     \* the names of the experiments to run
  RandomPages   \* the size in pages of the area random_unmap.c works on

TARGET_PTR == 1000

Library == {Vma(TOP - 20, TOP - 10, "r", {}, 1), Vma(TOP - 10, TOP - 4, "w", {"noreserve"}, 0)}

ASSUME RandomPagesAssumption == RandomPages \in Nat \ {0}

main == [merge_cases |-> merge_cases, mremap_unmap |-> mremap_unmap, mergey |-> mergey,
         merge_split |-> merge_split, split_vma |-> split_vma,
         mprotect_twice |-> mprotect_twice, mprotect_shrinking |-> mprotect_shrinking,
         mremap |-> mremap_main, rss |-> rss, mmap |-> mmap_main, mmap_simple |-> mmap_simple,
         mmap_simple_fixed |-> mmap_simple_fixed, mprotect |-> mprotect_main,
         munmap |-> munmap_main, remap |-> remap_main, mlock |-> mlock_main,
         vma_merge_repro |-> vma_merge_repro, vma |-> vma_main,
         procmap |-> procmap_plain \o procmap_relocate,
         random_unmap |-> <<mmap("ptr", NULL, RandomPages, "w", {})>>]

VARIABLES
  prog,     \* the experiment
  pc,       \* its next step
  mm,       \* the address space
  reg,      \* its pointer variables
  status    \* "running", "failed" (a call failed: exit), "killed" (SIGSEGV)

vars == <<prog, pc, mm, reg, status>>

Registers == {"NULL", "TARGET_PTR", "base", "rebase", "ptr", "ptr1", "ptr2", "ptr3", "before",
              "after", "buf", "join", "span", "tmp", "addr", ""}

\* The steps are calls the programs can make: non-empty ranges at pointers they have.
Place(at) == at[1] \in Registers /\ at[2] \in Int
Call(st) ==
  /\ Place(st.at) /\ st.n \in Nat \ {0}
  /\ st.op = "mmap" => st.r \in Registers
  /\ st.op = "mremap" => st.r \in Registers /\ Place(st.to) /\ st.m \in Nat
ASSUME ProgramsAssumption ==
  \A p \in Programs :
    /\ Len(main[p]) \in Nat /\ DOMAIN main[p] = 1 .. Len(main[p])
    /\ \A i \in DOMAIN main[p] : Call(main[p][i])

Init ==
  /\ prog \in Programs
  /\ pc = 1
  /\ mm = Library
  /\ reg = [r \in Registers |-> IF r = "TARGET_PTR" THEN TARGET_PTR ELSE 0]
  /\ status = "running"

Addr(at) == reg[at[1]] + at[2]
Ready(op) == status = "running" /\ pc <= Len(main[prog]) /\ main[prog][pc].op = op
Step == main[prog][pc]
From == Addr(Step.at)
To == From + Step.n

\* Bound: TOP leaves the programs room for what they map.
Room(n) == Free(mm, n) # {}

Done(next) == mm' = next /\ pc' = pc + 1 /\ UNCHANGED <<prog, status>>
Exit(why) == status' = why /\ UNCHANGED <<prog, pc, reg>>

\* mmap(), at a hint when that is free; MAP_POPULATE faults the range in; what a VMA keeps of the flags is
\* MAP_NORESERVE, and a new object when it is shared.
do_mmap ==
  /\ Ready("mmap")
  /\ Room(Step.n)
  /\ LET hint == Step.at # NULL /\ Overlapping(mm, From, To) = {}
         s == IF "fixed" \in Step.flags \/ hint THEN From ELSE Gap(mm, Step.n)
         obj == IF "shared" \in Step.flags
                THEN CHOOSE i \in 1 .. Cardinality(mm) + 1 : \A v \in mm : v.obj # i ELSE 0
         new == Mmap(mm, s, Step.n, Step.prot, Step.flags \cap {"noreserve"}, obj)
     IN  /\ Done(IF "populate" \in Step.flags THEN Fault(new, s) ELSE new)
         /\ reg' = [reg EXCEPT ![Step.r] = s]

do_munmap == Ready("munmap") /\ Done(Unmap(mm, From, To)) /\ UNCHANGED reg

\* mprotect() changes what is mapped of the range and fails if not all of it is.
do_mprotect ==
  /\ Ready("mprotect")
  /\ LET new == Mprotect(mm, From, To, Step.prot)
     IN  \/ Covered(mm, From, To) /\ Done(new) /\ UNCHANGED reg
         \/ ~Covered(mm, From, To) /\ mm' = new /\ Exit("failed")

\* A store through a pointer.
do_touch ==
  /\ Ready("touch")
  /\ LET ok == \E v \in mm : v.start <= From /\ From < v.end /\ v.prot \in {"w", "x"}
     IN  \/ ok /\ Done(Fault(mm, From)) /\ UNCHANGED reg
         \/ ~ok /\ mm' = mm /\ Exit("killed")

\* mremap(): in place when no flag lets it move, else to the given or a free place.
do_mremap ==
  /\ Ready("mremap") /\ Room(Step.n)
  /\ LET inside == \E v \in mm : v.start <= From /\ To <= v.end
         room == Overlapping(mm, To, From + Step.m) = {}
         to == IF Step.to = NULL THEN Gap(mm, Step.n) ELSE Addr(Step.to)
         new == IF Step.m > Step.n THEN Grow(mm, From, Step.n, Step.m)
                ELSE Move(mm, From, Step.n, to, "dontunmap" \in Step.flags, "relocate" \in Step.flags)
         ok == inside /\ (Step.m > Step.n => room)
     IN  \/ ok /\ Done(new) /\ reg' = [reg EXCEPT ![Step.r] = to]
         \/ ~ok /\ mm' = mm /\ Exit("failed")

\* mlock(), munlock() and the userfaultfd registrations set or clear a VMA flag.
do_flag ==
  /\ \/ Ready("setflag") /\ Done(SetFlag(mm, From, To, Step.f))
     \/ Ready("clearflag") /\ Done(ClearFlag(mm, From, To, Step.f))
  /\ UNCHANGED reg

\* The points of a program where it, or its comments, look at the address space.
look ==
  /\ Ready("see") \/ Ready("placed") \/ Ready("query")
  /\ Done(mm)
  /\ UNCHANGED reg

\* random_unmap.c: any part of the area is unmapped, or mapped again, any number
\* of times.
random_unmap ==
  /\ prog = "random_unmap" /\ pc > 1 /\ status = "running"
  /\ \E offset \in 0 .. RandomPages - 1 : \E size \in 1 .. RandomPages - offset :
       LET s == reg["ptr"] + offset
       IN  mm' \in {Unmap(mm, s, s + size), Mmap(mm, s, size, "w", {}, 0)}
  /\ UNCHANGED <<prog, pc, reg, status>>

\* return EXIT_SUCCESS.
exit ==
  /\ status = "running" /\ pc > Len(main[prog])
  /\ status' = "done"
  /\ UNCHANGED <<prog, pc, mm, reg>>

Ended == status # "running" /\ UNCHANGED vars

Next ==
  \/ do_mmap \/ do_munmap \/ do_mprotect \/ do_touch \/ do_mremap \/ do_flag \/ look
  \/ random_unmap \/ exit \/ Ended

Spec == Init /\ [][Next]_vars

-----------------------------------------------------------------------------
(* Properties *)

\* The address space is a set of non-empty VMAs of which no two overlap.
TypeOK ==
  /\ prog \in Programs /\ pc \in 1 .. Len(main[prog]) + 1
  /\ status \in {"running", "done", "failed", "killed"}
  /\ \A v \in mm : v.start < v.end /\ Overlapping(mm, v.start, v.end) = {v}

\* Every comment that draws or counts the mappings at a point of a program
\* (merge_cases.c, mergey.c, split_vma.c, mprotect_twice.c, mprotect_shrinking.c,
\* mremap_unmap.c) is right, whatever the cases before it left behind.
AsPictured ==
  Ready("see") =>
    Extents(mm, From, To) = {<<From + x[1], From + x[2], x[3]>> : x \in Step.shown}

\* No experiment dies on the way: each call finds the mappings, and the holes, that
\* the earlier ones were to leave it.  The one call that is meant to fail is the
\* mprotect() over a hole in mprotect.c.
NoCallFails ==
  status \in {"failed", "killed"} => prog = "mprotect"

\* The fixed addresses the experiments map over, and the ranges they unmap, never
\* reach the mappings that were there before them.
OthersUntouched ==
  \A v \in Library : \E u \in mm : u.start <= v.start /\ v.end <= u.end
                                   /\ u.prot = v.prot /\ u.obj = v.obj

\* The programs that clean up behind themselves leave the address space as they
\* found it, although the pointers they unmap have moved in between.
SpaceReturned ==
  (status = "done" /\ prog \in {"mremap_unmap", "rss", "mmap", "mmap_simple", "mmap_simple_fixed"})
    => mm = Library

\* What query_ptr() concludes from one VMA's bounds is what the three pages show,
\* with the leftovers of all the earlier configurations around it.
QueryExact ==
  Ready("query") =>
    LET one == {o \in 0 .. 2 : \E v \in mm : v.start <= From + 1 /\ From + 1 < v.end
                                             /\ v.start <= From + o /\ From + o < v.end}
    IN  Joined(query_ptr(mm, From)) = one

\* Left and right of the primary, the VMAs are in the states that the
\* configuration names and the program prints.
StatesAsConfigured ==
  Ready("placed") => /\ InState(mm, From, 0, Step.conf.states[1])
                     /\ InState(mm, From, 2, Step.conf.states[2])
=============================================================================
