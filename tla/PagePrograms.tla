---------------------------- MODULE PagePrograms ----------------------------
(***************************************************************************)
(* The page experiments as the steps of their processes: read.c,           *)
(* pagemap_tour.c, map_shared.c, private2.c, fork_shared_anon.c, uncow.c,  *)
(* forky2.c and shared_rss.c.  A page buffer is scaled down: one page      *)
(* stays one page, and the ten pages of private2.c and uncow.c are         *)
(* NR_PAGES.  Each place where a program prints a page carries what its    *)
(* label or the comment beside it says of that page.                       *)
(***************************************************************************)
EXTENDS ReadPageflags

CONSTANT NR_PAGES   \* 10 in private2.c and uncow.c, here even and small

op(name) == [op |-> name, m |-> "ptr", i |-> 0, b |-> 1, c |-> "x", o |-> "anon", shared |-> FALSE,
             n |-> 1, q |-> "parent", is |-> {}, exits |-> FALSE, late |-> FALSE]

\* mmap(); late: the pointer is used before it is compared with MAP_FAILED.
mmap(m, o, shared, n) == [op("mmap") EXCEPT !.m = m, !.o = o, !.shared = shared, !.n = n]
mmap_late(m, o, shared, n) == [mmap(m, o, shared, n) EXCEPT !.late = TRUE]
munmap(m) == [op("munmap") EXCEPT !.m = m]
open(o) == [op("open") EXCEPT !.o = o]
read(m, i) == [op("read") EXCEPT !.m = m, !.i = i]
write(m, i, b, c) == [op("write") EXCEPT !.m = m, !.i = i, !.b = b, !.c = c]
dontneed(m) == [op("dontneed") EXCEPT !.m = m]
ftruncate(o, n) == [op("ftruncate") EXCEPT !.o = o, !.n = n]
pwrite(o, c, n) == [op("pwrite") EXCEPT !.o = o, !.c = c, !.n = n]
fork(q) == [op("fork") EXCEPT !.q = q]
wait(q) == [op("wait") EXCEPT !.q = q]
need_root == op("root")
hugetlb == op("hugetlb")
\* A page is printed and said to be `is'; check: the program ends if that fails.
print(m, i, is) == [op("print") EXCEPT !.m = m, !.i = i, !.is = is]
check(m, is) == [print(m, 0, is) EXCEPT !.exits = TRUE]
\* A comment says so, or a command run by the program shows it.
see(m, i, is) == [print(m, i, is) EXCEPT !.op = "see"]
\* pagemap_tour.c reads /proc on its own and exits if it cannot.
describe(m, is) == [op("describe") EXCEPT !.m = m, !.is = is]

\* lookup_vma_flags() of random/shared.c
lookup == op("lookup")

program(parent, child) == [parent |-> parent, child |-> child, child2 |-> <<>>]

\* A loop over the pages 0 .. n - 1 of a mapping.
each(n, Op(_)) == [k \in 1 .. n |-> Op(k - 1)]

\* private2.c prints the first byte of each page of a mapping.
print_buf(m, is) ==
  each(NR_PAGES, LAMBDA k : read(m, k)) \o <<[op("print_buf") EXCEPT !.m = m, !.is = is]>>

-----------------------------------------------------------------------------
(* src/random/pagemap_tour.c *)

pagemap_tour == program(
  << mmap("ptr", "anon", FALSE, 1), describe("ptr", {"absent"}), write("ptr", 0, 1, "x"),
     describe("ptr", {"anon"}),
     open("file"), mmap("ptr2", "file", TRUE, 1), describe("ptr2", {"absent"}),
     read("ptr2", 0), describe("ptr2", {"file"}),
     write("ptr2", 0, 1, "x"), describe("ptr2", {"file", "dirty"}) >>, <<>>)

-----------------------------------------------------------------------------
(* src/random/map_shared.c *)

analyse(m) == << lookup, print(m, 0, {"absent"}), read(m, 0), lookup, print(m, 0, {"file"}),
                 write(m, 0, 1, "x"), lookup, print(m, 0, {"file", "dirty"}) >>

map_shared_main == program(
  <<mmap("ptr", "shm1", TRUE, 1)>> \o analyse("ptr")
    \o <<mmap("ptr2", "shm2", TRUE, 1)>> \o analyse("ptr2"), <<>>)

-----------------------------------------------------------------------------
(* src/random/private2.c *)

half == NR_PAGES \div 2
filled(c, n, d, k) == [j \in 1 .. n + k |-> IF j <= n THEN c ELSE d]

get_fd == <<open("file"), ftruncate("file", NR_PAGES)>>
reset_buffer == each(NR_PAGES, LAMBDA k : write("shared", k, 1, "x"))
do_overwrite == <<pwrite("file", "z", NR_PAGES)>>

\* A plausible slip: i for i * page_size, so that all stores are to the first page.
copy_first_half_unscaled == each(half, LAMBDA k : write("private", 0, IF k = 0 THEN 1 ELSE 2, "y"))

\* The comment in the loop's place says "2nd half"; the loop and the name say the first.
copy_first_half == each(half, LAMBDA k : write("private", k, 1, "y"))

PRINT(shared, private) == print_buf("shared", shared) \o print_buf("private", private)

private2 == program(
  get_fd \o <<mmap("shared", "file", TRUE, NR_PAGES)>> \o reset_buffer
    \o <<mmap("private", "file", FALSE, NR_PAGES)>>
    \o PRINT(filled("x", half, "x", half), filled("x", half, "x", half))
    \o copy_first_half
    \o PRINT(filled("x", half, "x", half), filled("y", half, "x", half))
    \o <<ftruncate("file", NR_PAGES + 1)>>
    \o PRINT(filled("x", half, "x", half), filled("y", half, "x", half))
    \o <<ftruncate("file", half), ftruncate("file", NR_PAGES)>>
    \o PRINT(filled("x", half, "0", half), filled("y", half, "0", half))
    \o reset_buffer \o copy_first_half \o do_overwrite
    \o PRINT(filled("z", half, "z", half), filled("y", half, "z", half)), <<>>)

-----------------------------------------------------------------------------
(* src/random/fork_shared_anon.c, uncow.c, forky2.c, shared_rss.c *)

fork_shared_anon == program(
  << mmap("shared", "shm1", TRUE, 1), mmap("private", "anon", FALSE, 1), write("private", 0, 1, "x"),
     fork("child"), read("shared", 0), read("private", 0), wait("child") >>,
  << write("shared", 0, 1, "x"), write("private", 0, 1, "x"), see("private", 0, {"own"}) >>)

uncow == program(
  << mmap("base", "anon", FALSE, NR_PAGES + 1), mmap("ptr", "anon", FALSE, NR_PAGES),
     write("ptr", 0, 1, "x"), fork("child"), wait("child") >>,
  each(NR_PAGES, LAMBDA k : write("ptr", k, 1, "y")) \o <<dontneed("ptr"), see("ptr", 0, {"absent"})>>)

ensure_space == << mmap("before", "anon", FALSE, 1), mmap("after", "anon", FALSE, 1),
                   munmap("before"), munmap("after") >>

\* MAP_POPULATE: the kernel faults the page in for writing.
forky2 == program(
  ensure_space \o << mmap("ptr", "anon", FALSE, 1), write("ptr", 0, 1, "0"), fork("child") >>,
  << write("ptr", 0, 1, "x"), see("ptr", 0, {"own"}) >>)

\* The resident set, page by page.
shared_rss == program(
  << ftruncate("memfd", 2), fork("child"), mmap("buf", "memfd", TRUE, 2), wait("child"),
     see("buf", 0, {"absent"}), see("buf", 1, {"absent"}), read("buf", 0), read("buf", 1),
     see("buf", 0, {"file"}), see("buf", 1, {"file"}) >>,
  << mmap("buf", "memfd", TRUE, 2), write("buf", 0, 1, "x"), write("buf", 1, 1, "x"),
     see("buf", 0, {"file", "dirty"}), see("buf", 1, {"file", "dirty"}) >>)

-----------------------------------------------------------------------------
(* src/read-pageflags/read.c *)

\* The child's ptr4c is called "not populated" in its label: it holds the store that the
\* parent made before the fork.
read_child ==
  << print("ptr4", 0, {"shared"}), write("ptr4", 0, 1, "y"), print("ptr4", 0, {"own"}),
     print("ptr4", 0, {"own"}), print("ptr4b", 0, {"shared"}), write("ptr4b", 0, 2, "x"),
     print("ptr4b", 0, {"own"}), read("ptr4", 0), write("ptr4", 0, 1, "x"),
     write("ptr4c", 0, 2, "x"), print("ptr4c", 0, {"own"}), print("ptr4", 0, {"own"}),
     print("ptr4b", 0, {"own"}) >>

read_single ==
  << need_root, mmap_late("ptr", "anon", FALSE, 1), write("ptr", 0, 1, "x"), check("ptr", {"anon"}),
     write("ptr", 0, 2, "x"), check("ptr", {"anon", "own"}), munmap("ptr"),
     mmap("ptr2", "anon", FALSE, 1), check("ptr2", {}), write("ptr2", 0, 1, "x"), check("ptr2", {"own"}),
     open("file"), mmap("ptr3", "file", TRUE, 1), read("ptr3", 0), check("ptr3", {"file"}),
     write("ptr3", 0, 1, "Z"), check("ptr3", {"file", "dirty"}), check("ptr3", {"file"}),
     munmap("ptr3") >>

read_forked ==
  << mmap("ptr4", "anon", FALSE, 1), write("ptr4", 0, 1, "x"), print("ptr4", 0, {"own"}),
     open("file"), mmap("ptr4b", "file", FALSE, 1), write("ptr4b", 0, 1, "x"),
     mmap("ptr4c", "file", FALSE, 1), write("ptr4c", 0, 1, "x"), print("ptr4b", 0, {"own"}),
     fork("child"), wait("child"),
     open("file"), mmap_late("ptr5", "file", TRUE, 2), write("ptr5", 0, 1, "x"),
     print("ptr5", 0, {"file"}), print("ptr5", 1, {}),
     mmap_late("ptr6", "shm1", TRUE, 1), write("ptr6", 0, 1, "x"), print("ptr6", 0, {"file"}),
     fork("child2"), wait("child2"), print("ptr6", 0, {"file"}), munmap("ptr6") >>

read_last ==
  << mmap_late("ptr7", "anon", FALSE, 1), write("ptr7", 0, 1, "x"), print("ptr7", 0, {"anon"}),
     open("ro"), mmap("ptr8", "ro", TRUE, 1), read("ptr8", 0), print("ptr8", 0, {"file"}),
     hugetlb, mmap_late("huge", "anon", FALSE, 1), write("huge", 0, 1, "x"),
     print("huge", 0, {"anon"}), write("huge", 0, 2, "z"), print("huge", 0, {"anon"}),
     print("huge", 0, {"anon"}) >>

read_main == [program(read_single \o read_forked \o read_last, read_child)
                EXCEPT !.child2 = <<write("ptr6", 0, 1, "x"), print("ptr6", 0, {"file"})>>]

programs == [read |-> read_main, pagemap_tour |-> pagemap_tour, map_shared |-> map_shared_main,
             private2 |-> private2, fork_shared_anon |-> fork_shared_anon, uncow |-> uncow,
             forky2 |-> forky2, shared_rss |-> shared_rss]
=============================================================================
