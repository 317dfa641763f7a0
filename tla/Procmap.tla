------------------------------ MODULE Procmap -------------------------------
(***************************************************************************)
(* random/procmap.c: build every configuration of a left, a middle and a   *)
(* right VMA, move the middle one into place with mremap() and ask         *)
(* PROCMAP_QUERY what it merged with.  The regions of earlier              *)
(* configurations stay mapped, just above the new one.                     *)
(***************************************************************************)
EXTENDS VmaExperiments

\* enum vma_state, in the order iterate_cases() goes through it.
vma_state == <<"NO_VMA", "EMPTY", "SAME", "DIFFERENT", "DIFFERENT2">>

is_none(conf, ind) == conf.states[ind + 1] = "NO_VMA"
is_same(conf, ind) == conf.states[ind + 1] = "SAME"
is_diff(conf, ind) == conf.states[ind + 1] \in {"DIFFERENT", "DIFFERENT2"}

mremap_move(conf, src, tgt, n) ==
  <<mremap("", Ptr("ptr", src), n, n, Ptr("ptr", tgt),
           {"fixed"} \cup IF conf.relocate_anon THEN {"relocate"} ELSE {})>>

write(o) == <<touch(Ptr("ptr", o))>>

\* The primary goes to index 9, its neighbours to 0 and 2.
init_mappings(conf) ==
  <<mmap("", Ptr("ptr", 0), 3, "w", W)>> \o
  IF is_same(conf, 0) /\ is_same(conf, 1) /\ conf.primary_populated
  THEN write(0) \o mremap_move(conf, 1, 9, 1)
  ELSE mremap_move(conf, 1, 4, 2)
       \o When(is_same(conf, 1), write(4))
       \o mremap_move(conf, 4, 1, 1)
       \o When(is_same(conf, 0), write(0))
       \o mremap_move(conf, 1, 3, 1)
       \o When(conf.primary_populated, write(3))
       \o When(is_diff(conf, 0) /\ is_diff(conf, 1) /\ conf.states[1] # conf.states[2],
               write(0) \o write(5))
       \o mremap_move(conf, 5, 1, 1)
       \o When(is_diff(conf, 0) /\ is_diff(conf, 1), write(0))
       \o mremap_move(conf, 3, 9, 1)
       \o mremap_move(conf, 1, 2, 1)
       \o When(is_none(conf, 0), <<munmap(Ptr("ptr", 0), 1)>>)
       \o When(is_none(conf, 1), <<munmap(Ptr("ptr", 2), 1)>>)

\* __try_mremap(); "placed" marks the point where the three VMAs are as
\* init_mappings() left them.
try_the_move(conf) ==
  <<mmap("ptr", NULL, 10, "n", {})>>
  \o init_mappings(conf)
  \o <<[op |-> "placed", at |-> Ptr("ptr", 0), n |-> 10, conf |-> conf]>>
  \o mremap_move(conf, 9, 1, 1)
  \o <<[op |-> "query", at |-> Ptr("ptr", 0), n |-> 3, conf |-> conf]>>

\* Trivial and invalid configurations are passed over.
bypass(conf) ==
  \/ is_none(conf, 0) /\ is_none(conf, 1)
  \/ ~conf.primary_populated /\ (is_same(conf, 0) \/ is_same(conf, 1))

try_mremap(conf) == When(~bypass(conf), try_the_move(conf))

\* do_mremap_mprotect()
mremap_mprotect(conf) ==
  region
  \o <<mmap("ptr", Ptr("ptr", 0), 10, "w", W \cup {"noreserve"}),
       mmap("ptr2", Ptr("ptr", 50), 10, "w", W \cup {"noreserve"}),
       touch(Ptr("ptr2", 0)), mprotect(Ptr("ptr2", 0), 10, "r"), touch(Ptr("ptr", 5))>>
  \o mremap_move(conf, 5, 60, 5)
  \o <<mprotect(Ptr("ptr2", 0), 10, "w"),
       munmap(Ptr("ptr", 0), 5), munmap(Ptr("ptr2", 0), 10), munmap(Ptr("ptr", 60), 10)>>

\* primary_populated is set after the first attempt and stays set: `populated' is
\* its value when the loop starts.
iterate_cases(populated, relocate_anon) ==
  LET conf(i, j, pop) == [states |-> <<vma_state[i], vma_state[j]>>,
                          primary_populated |-> pop, relocate_anon |-> relocate_anon]
      pair(k) == LET i == ((k - 1) \div 5) + 1
                     j == ((k - 1) % 5) + 1
                 IN  try_mremap(conf(i, j, populated \/ k > 1)) \o try_mremap(conf(i, j, TRUE))
  IN  FlattenSeq([k \in 1 .. 25 |-> pair(k)]) \o mremap_mprotect(conf(5, 5, TRUE))

procmap_plain == iterate_cases(FALSE, FALSE)
procmap_relocate == iterate_cases(TRUE, TRUE)

-----------------------------------------------------------------------------
(* What the program asks and what is the case *)

\* A plausible slip: a VMA of two pages is taken for one that did not merge.
query_ptr_short(mm, ptr) ==
  LET v == At(mm, ptr + 1)
      len == v.end - v.start
  IN  IF len <= 2 THEN "NO_MERGE" ELSE IF len = 3 THEN "MERGE_ALL"
      ELSE IF v.start = ptr THEN "MERGE_0_1" ELSE "MERGE_1_2"

query_ptr(mm, ptr) ==
  LET v == At(mm, ptr + 1)
      len == v.end - v.start
  IN  IF len <= 1 THEN "NO_MERGE"
      ELSE IF len = 3 THEN "MERGE_ALL"
      ELSE IF v.start = ptr THEN "MERGE_0_1"
      ELSE IF v.start = ptr + 1 THEN "MERGE_1_2"
      ELSE "MERGE_UNKNOWN"

\* The pages of the configuration that a result says are one VMA.
Joined(result) ==
  CASE result = "NO_MERGE" -> {1}
    [] result = "MERGE_0_1" -> {0, 1}
    [] result = "MERGE_1_2" -> {1, 2}
    [] result = "MERGE_ALL" -> {0, 1, 2}
    [] OTHER -> {}

\* Is the VMA of page o in the state that conf names for that side, the primary
\* being at index 9?
InState(mm, ptr, o, st) ==
  LET here == {v \in mm : v.start <= ptr + o /\ ptr + o < v.end /\ v.prot = "w"}
      primary == At(mm, ptr + 9).av
  IN  CASE st = "NO_VMA" -> here = {}
        [] st = "EMPTY" -> \E v \in here : v.av = 0
        [] st = "SAME" -> \E v \in here : v.av = primary /\ v.av # 0
        [] OTHER -> \E v \in here : v.av # 0 /\ v.av # primary
=============================================================================
