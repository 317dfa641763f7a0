------------------------------ MODULE PageTour ------------------------------
(***************************************************************************)
(* Runs the page experiments: the processes of one program interleave, a   *)
(* system call, an access or a printed line a step.  sleep() orders        *)
(* nothing here, as it orders nothing for certain there.                   *)
(***************************************************************************)
EXTENDS PagePrograms

VARIABLES
  prog,     \* the program
  root,     \* whether it runs as root
  w,        \* the kernel's pages
  pc,       \* the next step of each process
  status,   \* "none" (not forked), "running", "exited", "failed" or "killed"
  last,     \* the step just done and its process
  line      \* the line it has printed

vars == <<prog, root, w, pc, status, last, line>>

Failures == {{}, {"maps"}, {"pagemap"}, {"kpageflags"}, {"kpagecount"}}
NoLine == Line("", TRUE)
Nothing == [p |-> "parent", step |-> op("none"), fails |-> {}]

Init ==
  /\ prog \in DOMAIN programs
  /\ root \in BOOLEAN
  /\ w = Fresh
  /\ pc = [p \in Procs |-> 1]
  /\ status = [p \in Procs |-> IF p = "parent" THEN "running" ELSE "none"]
  /\ last = Nothing /\ line = NoLine

Script(p) == programs[prog][p]
Step(p) == Script(p)[pc[p]]
Ready(p, name) == status[p] = "running" /\ pc[p] <= Len(Script(p)) /\ Step(p).op = name

Said(p, fails, what) == last' = [p |-> p, step |-> Step(p), fails |-> fails] /\ line' = what
Done(p) == pc' = [pc EXCEPT ![p] = @ + 1] /\ UNCHANGED <<prog, root>>
Next_(p) == Done(p) /\ UNCHANGED status /\ Said(p, {}, NoLine)

\* The process ends and its mappings go.
End(p, how) ==
  /\ status' = [status EXCEPT ![p] = how]
  /\ w' = Exited(w, p)
  /\ last' = Nothing /\ line' = NoLine
  /\ UNCHANGED <<prog, root, pc>>

-----------------------------------------------------------------------------

do_mmap(p) ==
  /\ Ready(p, "mmap")
  /\ \/ w' = Mmap(w, p, Step(p).m, Step(p).o, Step(p).shared, Step(p).n) /\ Next_(p)
     \/ End(p, IF Step(p).late THEN "killed" ELSE "failed")

do_munmap(p) ==
  /\ Ready(p, "munmap")
  /\ w' = Munmap(w, p, Step(p).m)
  /\ Next_(p)

do_open(p) ==
  /\ Ready(p, "open")
  /\ \/ Next_(p) /\ UNCHANGED w
     \/ End(p, "failed")

do_read(p) ==
  /\ Ready(p, "read") /\ Accessible(w, p, Step(p).m, Step(p).i)
  /\ w' = ReadFault(w, p, Step(p).m, Step(p).i)
  /\ Next_(p)

do_write(p) ==
  /\ Ready(p, "write") /\ Accessible(w, p, Step(p).m, Step(p).i)
  /\ w' = Store(w, p, Step(p).m, Step(p).i, Step(p).b, Step(p).c)
  /\ Next_(p)

do_dontneed(p) ==
  /\ Ready(p, "dontneed")
  /\ w' = Dontneed(w, p, Step(p).m)
  /\ Next_(p)

do_ftruncate(p) ==
  /\ Ready(p, "ftruncate")
  /\ w' = Truncate(w, Step(p).o, Step(p).n)
  /\ Next_(p)

do_pwrite(p) ==
  /\ Ready(p, "pwrite")
  /\ w' = Pwrite(w, Step(p).o, Step(p).c, Step(p).n)
  /\ Next_(p)

\* read.c goes on without its child when fork() fails; the others end.
do_fork(p) ==
  /\ Ready(p, "fork")
  /\ \/ /\ w' = Forked(w, p, Step(p).q)
        /\ status' = [status EXCEPT ![Step(p).q] = "running"]
        /\ Done(p) /\ Said(p, {}, NoLine)
     \/ prog = "read" /\ Next_(p) /\ UNCHANGED w
     \/ prog # "read" /\ End(p, "failed")

do_wait(p) ==
  /\ Ready(p, "wait") /\ status[Step(p).q] # "running"
  /\ Next_(p) /\ UNCHANGED w

\* getuid() != 0
do_root(p) ==
  /\ Ready(p, "root")
  /\ \/ root /\ Next_(p) /\ UNCHANGED w
     \/ ~root /\ End(p, "failed")

check_hugetlb(p) ==
  /\ Ready(p, "hugetlb")
  /\ \/ Next_(p) /\ UNCHANGED w
     \/ End(p, "exited")

\* A line with a PFN and flags also asks /dev/refcount and /dev/pagebuffers: a device
\* that fails between the question and the answer ends the program, with an error or
\* at a stream that is NULL.
do_print(p) ==
  /\ Ready(p, "print")
  /\ \E fails \in Failures :
       LET l == print_flags_virt(w, p, Step(p).m, Step(p).i, root, fails)
       IN  \/ /\ Step(p).exits => l.ok
              /\ Done(p) /\ Said(p, fails, l) /\ UNCHANGED <<w, status>>
           \/ Step(p).exits /\ ~l.ok /\ End(p, "failed")
           \/ l.says = "page" /\ \E how \in {"failed", "killed"} : End(p, how)

\* random/shared.c: the device must be there, twice, and answer.
lookup_vma_flags(p) ==
  /\ Ready(p, "lookup")
  /\ \/ Next_(p) /\ UNCHANGED w
     \/ \E how \in {"failed", "killed"} : End(p, how)

\* The files are opened O_RDWR, which only root may do, and any failure ends the
\* program.
describe_addr(p) ==
  /\ Ready(p, "describe")
  /\ \/ root /\ Next_(p) /\ UNCHANGED w
     \/ End(p, "failed")

do_see(p) == Ready(p, "see") /\ Next_(p) /\ UNCHANGED w

\* The pages of the mapping have been read.  As many as the file has are, be the
\* mapping shorter or not: what is past it may not be readable.
do_print_buf(p) ==
  /\ Ready(p, "print_buf")
  /\ \/ Next_(p) /\ UNCHANGED w
     \/ w.len["file"] > NR_PAGES /\ End(p, "killed")

\* The child of forky2.c ends in a loop.
do_exit(p) ==
  /\ status[p] = "running" /\ pc[p] > Len(Script(p))
  /\ prog = "forky2" => p = "parent"
  /\ End(p, "exited")

Next ==
  \E p \in Procs :
    \/ do_mmap(p) \/ do_munmap(p) \/ do_open(p) \/ do_read(p) \/ do_write(p) \/ do_dontneed(p)
    \/ do_ftruncate(p) \/ do_pwrite(p) \/ do_fork(p) \/ do_wait(p) \/ do_root(p)
    \/ check_hugetlb(p) \/ do_print(p) \/ lookup_vma_flags(p) \/ describe_addr(p) \/ do_see(p) \/ do_print_buf(p)
    \/ do_exit(p)

Spec == Init /\ [][Next]_vars

-----------------------------------------------------------------------------

\* What the programs' words for a page mean.
Is(p, m, i, word) ==
  LET f == Pte(w, p, m, i)
  IN  CASE word = "absent" -> f = None
        [] word = "anon" -> f \in w.anon
        [] word = "file" -> f > ZeroFrame /\ f \notin w.anon
        [] word = "dirty" -> f \in w.dirty
        [] word = "own" -> f \in w.anon /\ Mapcount(w, f) = 1
        [] word = "shared" -> f \in w.anon /\ Mapcount(w, f) > 1

\* Wherever a program prints a page or comments on it, the page is as the `is' of the
\* step says, whatever the other process has done; and no access is a signal.  What
\* PagePrograms puts there is what the label or comment says of the page ("Won't be
\* present yet.", "Trigger CoW", "truncated DOWN then back up again") and, for the
\* pages of private2.c, the letters its functions are named to put there.  Two texts that the
\* code itself contradicts are left out: read.c:160 calls a page "not populated" that
\* read.c:136 has stored to, and private2.c:53 calls the half it stores to the second.
AsDescribed ==
  /\ LET s == last.step
         q == last.p
     IN  /\ s.op \in {"print", "see", "describe"} => \A word \in s.is : Is(q, s.m, s.i, word)
         /\ s.op = "print_buf" => \A j \in 1 .. NR_PAGES : Load(w, q, s.m, j - 1)[1] = s.is[j]
  /\ \A p \in Procs : Ready(p, "read") \/ Ready(p, "write") => Accessible(w, p, Step(p).m, Step(p).i)

\* A printed line tells the page's frame, kind and map count, or which of the files
\* could not be read; it says "not present" of no page that is.
PrintsWhatIs ==
  line # NoLine =>
    LET f == Pte(w, last.p, last.step.m, last.step.i)
        readable == root /\ last.fails \cap {"pagemap", "kpageflags"} = {}
    IN  /\ line.says = "not present" <=> f <= 0 /\ "pagemap" \notin last.fails
        /\ line.says = "page" <=> f > 0 /\ readable
        /\ line.says = "page" =>
             /\ line.pfn = f
             /\ line.mapcount = IF "kpagecount" \in last.fails THEN INVALID_VALUE ELSE Mapcount(w, f)
             /\ "ANON_EXCLUSIVE" \in line.flags <=> Is(last.p, last.step.m, last.step.i, "own")
=============================================================================
