--------------------------- MODULE VmaExperiments ---------------------------
(***************************************************************************)
(* The mapping experiments of random/, each main() the sequence of system  *)
(* calls it makes.  A step names its addresses by the pointer variable     *)
(* that holds them and an offset in pages.  A comment of the source that   *)
(* says what memory looks like at a point is a see() step there.           *)
(***************************************************************************)
EXTENDS VmaSpace

-----------------------------------------------------------------------------
(* Steps *)

NULL == <<"NULL", 0>>
Ptr(r, o) == <<r, o>>

mmap(r, at, n, prot, flags) ==
  [op |-> "mmap", r |-> r, at |-> at, n |-> n, prot |-> prot, flags |-> flags]
munmap(at, n) == [op |-> "munmap", at |-> at, n |-> n]
mprotect(at, n, prot) == [op |-> "mprotect", at |-> at, n |-> n, prot |-> prot]
touch(at) == [op |-> "touch", at |-> at, n |-> 1]
mremap(r, at, n, m, to, flags) ==
  [op |-> "mremap", r |-> r, at |-> at, n |-> n, m |-> m, to |-> to, flags |-> flags]
setflag(op, at, n, f) == [op |-> op, at |-> at, n |-> n, f |-> f]
see(at, n, shown) == [op |-> "see", at |-> at, n |-> n, shown |-> shown]

\* A picture such as "x.x": page by page, runs of a letter being one VMA.
Pictured(toks) ==
  {<<r[1] - 1, r[2], toks[r[1]]>> : r \in
     {w \in (1 .. Len(toks)) \X (1 .. Len(toks)) :
        /\ w[1] <= w[2]
        /\ \A k \in w[1] .. w[2] : toks[k] = toks[w[1]] /\ toks[k] # "."
        /\ w[1] = 1 \/ toks[w[1] - 1] # toks[w[1]]
        /\ w[2] = Len(toks) \/ toks[w[2] + 1] # toks[w[1]]}}

W == {"fixed"}          \* MAP_ANON | MAP_PRIVATE is implied
P == {"fixed", "populate"}

-----------------------------------------------------------------------------
(* merge_cases.c *)

map(o, n) == <<mmap("", Ptr("base", o), n, "w", W)>>
map_ro(o, n) == <<mmap("", Ptr("base", o), n, "r", W)>>
remap(o, n, ro) ==
  <<mremap("", Ptr("base", o), n, n, Ptr("rebase", ro), {"fixed", "dontunmap"})>>
remap_expand(o, n, m) == <<mremap("", Ptr("base", o), n, m, NULL, {})>>
unmap(o, n) == <<munmap(Ptr("base", o), n)>>
\* A plausible slip: the wrong one of the two areas.
reunmap_base(o, n) == <<munmap(Ptr("base", o), n)>>
reunmap(o, n) == <<munmap(Ptr("rebase", o), n)>>
mprotect_none(o, n) == <<mprotect(Ptr("base", o), n, "n")>>
mprotect_ro(o, n) == <<mprotect(Ptr("base", o), n, "r")>>
mprotect_rw(o, n) == <<mprotect(Ptr("base", o), n, "w")>>

pic(toks) == <<see(Ptr("base", 0), Len(toks), Pictured(toks))>>
repic(toks) == <<see(Ptr("rebase", 0), Len(toks), Pictured(toks))>>

\* A plausible slip: a page of the first pass is not given back.
mmap_cases_leak ==
  map(0, 1) \o map(2, 1) \o map(1, 1) \o unmap(2, 1)

mmap_cases ==
  map(0, 1) \o map(2, 1) \o pic(<<"w", ".", "w">>)
  \o map(1, 1) \o pic(<<"w", "w", "w">>)
  \o unmap(1, 1) \o pic(<<"w", ".", "w">>) \o unmap(2, 1)
  \o map(1, 1) \o pic(<<"w", "w", ".">>)
  \o unmap(1, 1) \o unmap(0, 1) \o pic(<<".", ".", ".">>) \o map(2, 1)
  \o map(1, 1) \o pic(<<".", "w", "w">>)
  \o unmap(1, 1) \o unmap(2, 1) \o pic(<<".", ".", ".">>)

mremap_cases ==
  map(0, 1) \o map(2, 1) \o map(4, 1) \o pic(<<"w", ".", "w", ".", "w">>)
  \o remap(0, 1, 0) \o remap(2, 1, 2) \o repic(<<"w", ".", "w">>)
  \o remap(4, 1, 1) \o repic(<<"w", "w", "w">>)
  \o reunmap(1, 1) \o reunmap(2, 1) \o repic(<<"w", ".", ".">>)
  \o remap(2, 1, 1) \o repic(<<"w", "w", ".">>)
  \o reunmap(0, 1) \o reunmap(1, 1) \o remap(2, 1, 2) \o repic(<<".", ".", "w">>)
  \o remap(4, 1, 1) \o repic(<<".", "w", "w">>) \o pic(<<"w", ".", "w", ".", "w">>)
  \o reunmap(1, 1) \o reunmap(2, 1) \o unmap(0, 1) \o unmap(2, 1) \o unmap(4, 1)
  \o repic(<<".", ".", ".">>) \o pic(<<".", ".", ".", ".", ".">>)

mremap_expand_cases ==
  map(0, 1) \o map(2, 1) \o remap_expand(0, 1, 2) \o pic(<<"w", "w", "w">>)
  \o unmap(0, 3) \o map(0, 1) \o remap_expand(0, 1, 2) \o pic(<<"w", "w", ".">>)

mprotect_cases ==
  map(0, 2) \o map_ro(2, 1) \o pic(<<"w", "w", "r">>)
  \o mprotect_ro(1, 1) \o pic(<<"w", "r", "r">>)
  \o mprotect_rw(1, 1) \o pic(<<"w", "w", "r">>)
  \o unmap(0, 3) \o map(0, 1) \o map_ro(1, 1) \o map(2, 1) \o pic(<<"w", "r", "w">>)
  \o mprotect_rw(1, 1) \o pic(<<"w", "w", "w">>)
  \o mprotect_none(1, 1) \o unmap(2, 1) \o pic(<<"w", ".", ".">>)
  \o mprotect_rw(1, 1) \o pic(<<"w", "w", ".">>)
  \o mprotect_ro(0, 1) \o pic(<<"r", "w", ".">>)
  \o mprotect_rw(0, 1) \o pic(<<"w", "w", ".">>)

reserve(r) == <<mmap(r, NULL, 10, "n", {})>>

merge_cases ==
  reserve("base") \o reserve("rebase")
  \o mmap_cases \o mremap_cases \o mremap_expand_cases \o mprotect_cases

-----------------------------------------------------------------------------
(* mremap_unmap.c, built with DO_FORCE *)

sys_mremap(r, at, n, to) == <<mremap(r, at, n, n, to, {"fixed", "relocate"})>>
When(b, steps) == IF b THEN steps ELSE <<>>

\* A plausible slip: fewer pages than the tests spread over.
region_small == <<mmap("ptr", NULL, 40, "n", {}), munmap(Ptr("ptr", 0), 40)>>

\* The PROT_NONE region both tests reserve, and give back, to work in.
region == <<mmap("ptr", NULL, 100, "n", {}), munmap(Ptr("ptr", 0), 100)>>

\* A plausible slip: the second half is unmapped at the address it was moved from.
do_move_leak(touch_a_first, touch_a_afterwards, touch_b) ==
  region \o <<mmap("ptr", Ptr("ptr", 0), 10, "w", W)>>
  \o sys_mremap("ptr2", Ptr("ptr", 5), 5, Ptr("ptr", 15))
  \o <<munmap(Ptr("ptr", 0), 5), munmap(Ptr("ptr", 5), 5)>>

do_move(touch_a_first, touch_a_afterwards, touch_b) ==
  region
  \o <<mmap("ptr", Ptr("ptr", 0), 10, "w", W)>>
  \o When(touch_a_first, <<touch(Ptr("ptr", 0))>>)
  \o <<see(Ptr("ptr", 0), 20, {<<0, 10, "w">>})>>
  \o sys_mremap("ptr2", Ptr("ptr", 5), 5, Ptr("ptr", 15))
  \o When(touch_a_afterwards, <<touch(Ptr("ptr", 0))>>)
  \o <<see(Ptr("ptr", 0), 20, {<<0, 5, "w">>, <<15, 20, "w">>})>>
  \o When(touch_b, <<touch(Ptr("ptr2", 0))>>)
  \o sys_mremap("ptr2", Ptr("ptr", 15), 5, Ptr("ptr", 5))
  \o <<munmap(Ptr("ptr", 0), 5), munmap(Ptr("ptr2", 0), 5)>>

do_mremap_mprotect ==
  region
  \o <<mmap("ptr", Ptr("ptr", 0), 10, "w", W), mmap("ptr2", Ptr("ptr", 50), 10, "w", W),
       touch(Ptr("ptr2", 0)), mprotect(Ptr("ptr2", 0), 10, "r"), touch(Ptr("ptr", 5))>>
  \o sys_mremap("ptr3", Ptr("ptr", 5), 5, Ptr("ptr", 60))
  \o <<mprotect(Ptr("ptr2", 0), 10, "w"),
       munmap(Ptr("ptr", 0), 5), munmap(Ptr("ptr2", 0), 10), munmap(Ptr("ptr3", 0), 10)>>

bit(i, b) == (i \div b) % 2 = 1

mremap_unmap ==
  FlattenSeq([i \in 1 .. 8 |-> do_move(bit(i - 1, 1), bit(i - 1, 2), bit(i - 1, 4))])
  \o do_mremap_mprotect

-----------------------------------------------------------------------------
(* The experiments at a fixed address, TARGET_PTR *)

T(o) == Ptr("TARGET_PTR", o)

\* Room on both sides of n pages: map a neighbour page each and unmap it.
ensure_space(n) ==
  <<mmap("before", T(-1), 1, "w", W), mmap("after", T(n), 1, "w", W),
    munmap(Ptr("before", 0), 1), munmap(Ptr("after", 0), 1)>>

\* mergey.c
register_range(o, n) == setflag("setflag", Ptr("buf", o), n, "uffd")
unregister_range(o, n) == setflag("clearflag", Ptr("buf", o), n, "uffd")

mergey ==
  <<mmap("buf", T(0), 20, "w", P), register_range(0, 10),
    see(T(0), 20, {<<0, 10, "w">>, <<10, 20, "w">>}),
    unregister_range(5, 5),
    see(T(0), 20, {<<0, 5, "w">>, <<5, 20, "w">>})>>

\* merge_split.c: 50 and 49 pages, then the page between them.  The populated
\* blocks have anon_vmas of their own, so the page joins the first one only.
merge_split ==
  ensure_space(100)
  \o <<mmap("ptr1", T(0), 50, "w", P), mmap("ptr2", T(51), 49, "w", P),
       mmap("ptr3", T(50), 1, "w", P)>>

\* split_vma.c: a page out of the middle of 100, and back.
split_vma ==
  ensure_space(100)
  \o <<mmap("ptr", T(0), 100, "w", P),
       munmap(Ptr("ptr", 50), 1), see(T(0), 100, {<<0, 50, "w">>, <<51, 100, "w">>}),
       mmap("join", Ptr("ptr", 50), 1, "w", P), see(T(0), 100, {<<0, 100, "w">>})>>

\* mprotect_twice.c
mprotect_twice ==
  <<mmap("ptr", T(0), 4, "r", {}), mprotect(Ptr("ptr", 1), 1, "w"),
    see(T(0), 4, Pictured(<<"r", "w", "r", "r">>)),
    mprotect(Ptr("ptr", 1), 1, "r"), see(T(0), 4, {<<0, 4, "r">>})>>

\* mprotect_shrinking.c
mprotect_shrinking ==
  <<mmap("ptr", NULL, 12, "n", {}), mmap("ptr", Ptr("ptr", 1), 10, "w", W \cup {"noreserve"}),
    mprotect(Ptr("ptr", 0), 5, "r"), touch(Ptr("ptr", 5)), mprotect(Ptr("ptr", 5), 5, "r"),
    see(Ptr("ptr", 0), 10, {<<0, 10, "r">>})>>

\* mremap.c: two moves that leave the old mapping behind, empty.
mremap_main ==
  <<mmap("ptr", T(0), 1, "w", P), touch(Ptr("ptr", 0)),
    mremap("ptr2", Ptr("ptr", 0), 1, 1, NULL, {"dontunmap"}), touch(Ptr("ptr2", 0)),
    mremap("ptr3", Ptr("ptr2", 0), 1, 1, NULL, {"dontunmap"}), touch(Ptr("ptr3", 0))>>

\* rss.c
rss ==
  <<mmap("ptr", T(0), 1, "w", P), touch(Ptr("ptr", 0)), munmap(Ptr("ptr", 0), 1)>>

-----------------------------------------------------------------------------
(* The experiments wherever the kernel puts them *)

\* mmap.c
mmap_main ==
  <<mmap("ptr", NULL, 4, "w", {"populate"}), touch(Ptr("ptr", 0)),
    mmap("ptr2", Ptr("ptr", 0), 1, "w", P), munmap(Ptr("ptr", 0), 4)>>

\* mmap_simple.c
mmap_simple ==
  <<mmap("ptr", NULL, 1, "w", {}), touch(Ptr("ptr", 0)), munmap(Ptr("ptr", 0), 1)>>

\* mmap_simple_fixed.c: a span (SPAN pages here) filled by allocations (of one
\* page) that replace it from the bottom.
SPAN == 6
MAX_ALLOCS == 3
mmap_simple_fixed ==
  <<mmap("span", NULL, SPAN, "n", {})>>
  \o [i \in 1 .. MAX_ALLOCS |-> mmap("ptr", Ptr("span", i - 1), 1, "w", W)]
  \o <<munmap(Ptr("span", 0), SPAN)>>

\* mprotect.c: one page mapped, four protected; the call fails.
mprotect_main ==
  <<mmap("ptr", T(0), 1, "r", {}), mprotect(Ptr("ptr", 0), 4, "w")>>

\* munmap.c: nothing is mapped there, twice.
munmap_main == <<munmap(T(0), 4), munmap(T(0), 4)>>

\* remap.c: a shared page moved over a private one, the old mapping kept.
remap_main ==
  <<mmap("ptr", NULL, 1, "w", {"shared"}), mmap("ptr2", Ptr("ptr", 0), 1, "w", {"fixed", "shared"}),
    mmap("tmp", NULL, 1, "w", {}),
    mremap("ptr2", Ptr("ptr2", 0), 1, 1, Ptr("tmp", 0), {"fixed", "dontunmap"}),
    touch(Ptr("ptr", 0))>>

\* mlock.c
mlock_main ==
  <<mmap("ptr", NULL, 3, "w", {}), setflag("setflag", Ptr("ptr", 0), 1, "locked"),
    touch(Ptr("ptr", 0)), setflag("setflag", Ptr("ptr", 1), 1, "locked"), touch(Ptr("ptr", 1))>>

\* vma_merge_repro.c: 2 pages registered 16 pages into 4096.
vma_merge_repro ==
  <<mmap("addr", NULL, 4096, "w", {}), setflag("setflag", Ptr("addr", 16), 2, "uffd")>>

\* vma.c: nine mappings, all leaked, the last two partly locked.
vma_main ==
  [i \in 1 .. 5 |-> mmap("ptr", NULL, 1, <<"n", "r", "w", "x", "x">>[i],
                         IF i = 5 THEN {"populate"} ELSE {})]
  \o <<mmap("ptr", NULL, 1, "x", {"shared"}), mmap("ptr", NULL, 1, "w", {"shared"}),
       mmap("ptr", NULL, 3, "w", {"populate"}), setflag("setflag", Ptr("ptr", 0), 1, "onfault"),
       mmap("ptr", NULL, 3, "w", {}),
       setflag("setflag", Ptr("ptr", 0), 1, "locked"), touch(Ptr("ptr", 0)),
       setflag("setflag", Ptr("ptr", 2), 1, "locked"), touch(Ptr("ptr", 2)),
       setflag("clearflag", Ptr("ptr", 0), 1, "locked")>>
=============================================================================
