------------------------------ MODULE Pagestat ------------------------------
(***************************************************************************)
(* pagestat/: snapshots of a process's mappings, read from /proc while the *)
(* process goes on, printed (pagestat-cmd.c) or compared with the previous *)
(* snapshot (watch-cmd.c); and pagestat_snapshot(vaddr), which looks for   *)
(* one mapping.                                                            *)
(*                                                                         *)
(* A world is what /proc shows of the target at one moment: its mappings   *)
(* in address order, each with its smaps fields and its pages.  The target *)
(* may move to another world between any two reads.  A mapping's header    *)
(* and fields come from one read; its pages are read later.                *)
(***************************************************************************)
EXTENDS Integers, FiniteSets, SequencesExt

CONSTANTS
  Worlds,       \* sequences of mappings
  MaxChanges,   \* bound: how often the target changes
  FdLimit,      \* RLIMIT_NOFILE, less what is open at the start
  MAX_MAPS,     \* the length of a list of snapshots
  NULL,         \* no mapping, no list
  Addresses     \* arguments of pagestat_snapshot()

\* What /proc shows of a page and of a mapping: as many pages as the range has, and
\* mappings in address order.
Pages == [present : BOOLEAN, swapped : BOOLEAN, pfn : Nat, kcount : Int, kflags : Int]
Mappings ==
  [start : Nat, end : Nat, name : STRING, attr : Int, rss : Int, ref : Int, pages : Seq(Pages)]
ASSUME WorldsAssumption ==
  \A w \in Worlds :
    /\ w \in Seq(Mappings)
    /\ \A i \in DOMAIN w : w[i].start < w[i].end /\ Len(w[i].pages) = w[i].end - w[i].start
    /\ \A i, j \in DOMAIN w : i < j => w[i].end <= w[j].start
ASSUME NullAssumption ==
  /\ NULL \notin Mappings
  /\ NULL \notin [start : Nat, end : Nat, name : STRING, attr : Int, rss : Int, ref : Int,
                   rss_counted : BOOLEAN, pages : Seq(Pages)]
ASSUME BoundsAssumption == MAX_MAPS \in Nat \ {0} /\ Addresses \subseteq Nat
\* A snapshot needs two descriptors at once: smaps and, for its pages, pagemap.
ASSUME FdLimitAssumption == FdLimit \in Nat /\ FdLimit >= 2

VARIABLES
  world,        \* the target
  changes,      \* counts its changes
  mode,         \* "snapshot", "cmd" or "watch"
  vaddr,        \* the argument in mode "snapshot"
  pc,           \* "open", "header", "pagemap", "use", "done" or "crashed"
  fp,           \* address up to which smaps has been read; -1: fopen() failed
  cur,          \* the mapping being read, NULL when none
  pss_curr,     \* the snapshot being taken, NULL when there are too many mappings
  pss,          \* the previous one, in mode "watch"
  fds,          \* streams open and never closed
  printer,      \* the static state of the printer, and what it has printed
  updated,      \* what the last pagestat_print_diff_all() returned
  then,         \* aux: the target while the snapshot was taken, NULL if it changed
  before        \* aux: the same for the previous snapshot

vars == <<world, changes, mode, vaddr, pc, fp, cur, pss_curr, pss, fds, printer, updated, then, before>>

INVALID == -1

-----------------------------------------------------------------------------
(* Page table entries: present and swapped bits, the frame (the swap offset  *)
(* when swapped), the frame's map count and flags.                           *)

Absent == [present |-> FALSE, swapped |-> FALSE, pfn |-> 0, kcount |-> 0, kflags |-> 0]

has_pfn(val) == ~val.swapped /\ val.present
get_pfn(val) == IF has_pfn(val) THEN val.pfn ELSE INVALID
flag_bits(val) == <<val.present, val.swapped>>

\* What pagemap and, for the frames it names, kpagecount and kpageflags say.
entry(val) == IF has_pfn(val) THEN val ELSE [val EXCEPT !.kcount = 0, !.kflags = 0]

count_virt_pages(ps) == ps.end - ps.start

\* Count the present pages ourselves: smaps may be behind.
tweak_counts(ps) ==
  LET n == Cardinality({i \in DOMAIN ps.pages : has_pfn(ps.pages[i])})
  IN  [ps EXCEPT !.rss = n, !.rss_counted = n # ps.rss]

\* get_pagetable_fields(): the range the header gave, as it is mapped now.
get_pagetable_fields(ps) ==
  LET page(a) == LET m == {i \in DOMAIN world : world[i].start <= a /\ a < world[i].end}
                 IN  IF m = {} THEN Absent
                     ELSE LET w == world[CHOOSE i \in m : TRUE] IN w.pages[a - w.start + 1]
      read == [i \in 1 .. count_virt_pages(ps) |-> entry(page(ps.start + i - 1))]
  IN  tweak_counts([ps EXCEPT !.pages = read])

\* A new struct pagestat: the header line (range, name) and the lines after it.
header(m) == [start |-> m.start, end |-> m.end, name |-> m.name, attr |-> m.attr]
other_fields(m) == [rss |-> m.rss, ref |-> m.ref]
new_pagestat(m) ==
  [start |-> header(m).start, end |-> header(m).end, name |-> header(m).name,
   attr |-> header(m).attr, rss |-> other_fields(m).rss, ref |-> other_fields(m).ref,
   rss_counted |-> FALSE, pages |-> <<>>]

-----------------------------------------------------------------------------
(* Printing.  p is the printer's static state and its output: a line shows   *)
(* one page, a repetition line stands for some number of them.               *)

ignored_ps(ps) == ps.name = "ignored"

\* last_seen_map is INVALID_VALUE: no entry's flags.
NoMap == <<>>
Fresh == [map |-> NoMap, pfn |-> 0, addr |-> 0, index |-> 0, count |-> 0, lines |-> <<>>]

\* The index may be that of a page of another, longer mapping (INVALID: whatever
\* lies behind the array).
do_print_mapping(p, addr, ps, index, val) ==
  [p EXCEPT !.lines = Append(@, [addr |-> addr, pages |-> 1, present |-> val.present,
                                 swapped |-> val.swapped, pfn |-> val.pfn,
                                 kflags |-> IF ~has_pfn(val) THEN 0
                                            ELSE IF index <= Len(ps.pages) THEN ps.pages[index].kflags
                                            ELSE INVALID])]

print_abbrev(p, ps) ==
  IF p.map = NoMap \/ p.count < 2 THEN p
  ELSE IF p.count > 2
  THEN [p EXCEPT !.lines = Append(@, [addr |-> p.addr, pages |-> p.count - 1])]
  ELSE do_print_mapping(p, p.addr, ps, p.index,
         [present |-> p.map[1], swapped |-> p.map[2],
          pfn |-> IF p.pfn = INVALID THEN 0 ELSE p.pfn])

\* A plausible slip: the length of the run before is kept.
flush_stale(p, ps) == print_abbrev(p, ps)
flush(p, ps) == [print_abbrev(p, ps) EXCEPT !.count = 0]

print_mapping(p, addr, ps, index, abbrev) ==
  LET val == ps.pages[index]
      new_val == flag_bits(val) # p.map \/ get_pfn(val) \notin {p.pfn, p.pfn + 1}
      q == IF abbrev /\ new_val THEN flush(p, ps) ELSE p
      r == [map |-> flag_bits(val), pfn |-> get_pfn(val), addr |-> addr, index |-> index,
            count |-> q.count + 1, lines |-> q.lines]
  IN  IF abbrev /\ ~new_val THEN r ELSE do_print_mapping(r, addr, ps, index, val)

print_mapping_terminate(p, ps) ==
  [Fresh EXCEPT !.lines = print_abbrev(p, ps).lines, !.addr = p.addr]

\* after[i]: the printer after i pages, and after i mappings.
pagestat_print(p, ps) ==
  LET after[i \in 0 .. count_virt_pages(ps)] ==
        IF i = 0 THEN p ELSE print_mapping(after[i - 1], ps.start + i - 1, ps, i, TRUE)
  IN  IF ignored_ps(ps) THEN p ELSE print_mapping_terminate(after[count_virt_pages(ps)], ps)

pagestat_print_all(p, list) ==
  LET after[i \in 0 .. Len(list)] == IF i = 0 THEN p ELSE pagestat_print(after[i - 1], list[i])
  IN  after[Len(list)]

-----------------------------------------------------------------------------
(* Comparing *)

\* A plausible slip: only the page table entries are compared, not the frames.
page_differs_pfn(a, b) == <<flag_bits(a), a.pfn>> # <<flag_bits(b), b.pfn>>
page_differs(a, b) == a # b

\* Page by page, old and new, through the same static state, which is left so.
print_pages(p, ps_a, ps_b, differing) ==
  FoldLeft(LAMBDA q, i : print_mapping(print_mapping(q, ps_a.start + i - 1, ps_a, i, FALSE),
                                       INVALID, ps_b, i, FALSE),
           p, SetToSortSeq(differing, <))

\* pagestat_print_diff(): differences of the smaps fields and attributes are
\* printed, but they do not count in the result.
pagestat_print_diff(p, ps_a, ps_b) ==
  IF ps_a = NULL /\ ps_b = NULL THEN [p |-> p, seen |-> FALSE]
  ELSE IF ps_a = NULL THEN [p |-> pagestat_print(p, ps_b), seen |-> ~ignored_ps(ps_b)]
  ELSE IF ps_b = NULL THEN [p |-> pagestat_print(p, ps_a), seen |-> ~ignored_ps(ps_a)]
  ELSE IF <<ps_a.start, ps_a.end>> # <<ps_b.start, ps_b.end>>
  THEN IF ignored_ps(ps_a) THEN [p |-> p, seen |-> FALSE]
       ELSE [p |-> pagestat_print(pagestat_print(p, ps_a), ps_b), seen |-> TRUE]
  ELSE LET differing == {i \in 1 .. count_virt_pages(ps_a) :
                           page_differs(ps_a.pages[i], ps_b.pages[i])}
       IN  [p |-> print_pages(p, ps_a, ps_b, differing), seen |-> differing # {}]

Nth(list, i) == IF i <= Len(list) THEN list[i] ELSE NULL

\* What a comparison returns does not depend on what was printed before it.
pagestat_print_diff_all(p, a, b) ==
  [p |-> FoldLeft(LAMBDA q, i : pagestat_print_diff(q, Nth(a, i), Nth(b, i)).p, p,
                  [i \in 1 .. MAX_MAPS |-> i]),
   seen |-> \E i \in 1 .. MAX_MAPS : pagestat_print_diff(p, Nth(a, i), Nth(b, i)).seen]

-----------------------------------------------------------------------------
(* Reading *)

\* The next mapping smaps shows after address a, NULL at the end of the file.
next_header(a) ==
  LET m == {i \in DOMAIN world : world[i].end > a}
  IN  IF m = {} THEN NULL ELSE world[CHOOSE i \in m : \A j \in m : i <= j]

\* open_smaps(); pagestat_snapshot() closes the stream at the end,
\* pagestat_snapshot_all() never does.
open_smaps ==
  /\ pc = "open"
  /\ fp' = IF fds < FdLimit THEN 0 ELSE -1
  /\ fds' = IF fds < FdLimit THEN fds + 1 ELSE fds
  /\ pss_curr' = <<>>
  /\ then' = world
  /\ pc' = "header"
  /\ UNCHANGED <<world, changes, mode, vaddr, cur, pss, printer, updated, before>>

\* A plausible slip: the end of a mapping counts as inside, its start does not.
wanted_off(m) == mode # "snapshot" \/ (vaddr > m.start /\ vaddr <= m.end)
wanted(m) == mode # "snapshot" \/ (vaddr >= m.start /\ vaddr < m.end)

\* The lines of a mapping are read up to the header of the next one, which is
\* consumed to see where they end.
consumed(m) == LET after == next_header(m.end) IN IF after = NULL THEN m.end ELSE after.start + 1

\* get_pagestat_snapshot(), up to and with the smaps fields.
find_header ==
  /\ pc = "header" /\ fp # -1 /\ next_header(fp) # NULL
  /\ LET m == next_header(fp)
     IN  IF fp > m.start \/ ~wanted(m)      \* its header is gone, or of no interest
         THEN fp' = m.end /\ UNCHANGED <<cur, pc>>
         ELSE fp' = consumed(m) /\ cur' = new_pagestat(m) /\ pc' = "pagemap"
  /\ UNCHANGED <<world, changes, mode, vaddr, pss_curr, pss, fds, printer, updated, then, before>>

\* ... and its pages: that needs a descriptor for a moment, and without one the
\* list ends here.  A list that fills up is thrown away.
read_pagemap ==
  /\ pc = "pagemap"
  /\ cur' = NULL
  /\ LET list == Append(pss_curr, get_pagetable_fields(cur))
     IN  IF fds = FdLimit THEN pc' = "use" /\ UNCHANGED pss_curr
         ELSE IF mode = "snapshot" THEN pc' = "use" /\ pss_curr' = list
         ELSE IF Len(list) = MAX_MAPS THEN pc' = "use" /\ pss_curr' = NULL
         ELSE pc' = "header" /\ pss_curr' = list
  /\ UNCHANGED <<world, changes, mode, vaddr, fp, pss, fds, printer, updated, then, before>>

\* Nothing more to find: no such mapping, or the end of the list.
end_of_smaps ==
  /\ pc = "header"
  /\ fp = -1 \/ next_header(fp) = NULL
  /\ pc' = "use"
  /\ UNCHANGED <<world, changes, mode, vaddr, fp, cur, pss_curr, pss, fds, printer, updated, then, before>>

\* pagestat_snapshot() returns; main() of pagestat-cmd.c prints everything, if it
\* got a list.
use ==
  /\ pc = "use"
  /\ mode # "watch"
  /\ fds' = IF mode = "snapshot" THEN fds - 1 ELSE fds
  /\ printer' = IF mode = "cmd" /\ pss_curr # NULL THEN pagestat_print_all(printer, pss_curr)
                ELSE printer
  /\ pc' = "done"
  /\ UNCHANGED <<world, changes, mode, vaddr, fp, cur, pss_curr, pss, updated, then, before>>

\* A plausible slip: the wrong list of the two is freed.
keep_first(old, new) == old
keep(old, new) == new

\* The loop of watch-cmd.c: compare, free the older list and keep the newer.  Only
\* the first list is checked for NULL.
watch ==
  /\ pc = "use"
  /\ mode = "watch"
  /\ LET d == pagestat_print_diff_all([printer EXCEPT !.lines = <<>>], pss, pss_curr)
     IN  IF pss = NULL
         THEN /\ pc' = IF pss_curr = NULL THEN "done" ELSE "open"
              /\ pss' = pss_curr
              /\ UNCHANGED <<printer, updated>>
         ELSE /\ pc' = IF pss_curr = NULL THEN "crashed" ELSE "open"
              /\ pss' = IF pss_curr = NULL THEN pss ELSE keep(pss, pss_curr)
              /\ printer' = IF pss_curr = NULL THEN printer ELSE d.p
              /\ updated' = IF pss_curr = NULL THEN updated ELSE d.seen
  /\ pss_curr' = <<>>
  /\ before' = then
  /\ UNCHANGED <<world, changes, mode, vaddr, fp, cur, fds, then>>

\* The target maps, unmaps, faults or swaps.
change ==
  /\ changes < MaxChanges
  /\ pc \notin {"done", "crashed"}
  /\ world' \in Worlds \ {world}
  /\ changes' = changes + 1
  /\ then' = IF pc = "open" THEN then ELSE NULL
  /\ UNCHANGED <<mode, vaddr, pc, fp, cur, pss_curr, pss, fds, printer, updated, before>>

Finished == pc \in {"done", "crashed"} /\ UNCHANGED vars

Init ==
  /\ world \in Worlds
  /\ changes = 0
  /\ mode \in {"snapshot", "cmd", "watch"}
  /\ vaddr \in IF mode = "snapshot" THEN Addresses ELSE {INVALID}
  /\ pc = "open" /\ fp = 0 /\ cur = NULL
  /\ pss_curr = <<>> /\ pss = NULL
  /\ fds = 0
  /\ printer = Fresh
  /\ updated = FALSE
  /\ then = NULL /\ before = NULL

Tool == open_smaps \/ find_header \/ read_pagemap \/ end_of_smaps \/ use \/ watch
Next == Tool \/ change \/ Finished
Spec == Init /\ [][Next]_vars

-----------------------------------------------------------------------------
(* Properties *)

Steady == then # NULL /\ fds < FdLimit

\* The pages a line of the output stands for: a repetition line gives the last.
Stands(l) == l.addr - l.pages + 1 .. l.addr

\* What line k tells is so: a page has the frame and flags its line gives it, and
\* the pages of a repetition line have the bits of the one shown on the line above.
LineTrue(lines, k, ps) ==
  LET l == lines[k]
      page(a) == ps.pages[a - ps.start + 1]
  IN  /\ Stands(l) \subseteq ps.start .. ps.end - 1
      /\ l.pages = 1 =>
           /\ flag_bits(l) = flag_bits(page(l.addr))
           /\ has_pfn(page(l.addr)) => l.pfn = page(l.addr).pfn /\ l.kflags = page(l.addr).kflags
      /\ l.pages # 1 =>
           /\ k > 1 /\ lines[k - 1].pages = 1
           /\ \A a \in Stands(l) : flag_bits(page(a)) = flag_bits(lines[k - 1])

\* pagestat_snapshot(vaddr) on a target that keeps still returns NULL only if no
\* mapping holds vaddr, and otherwise that mapping, with its pages as they are
\* and the resident pages counted from them, however far behind smaps is.
FoundIfThere ==
  (pc = "done" /\ mode = "snapshot" /\ Steady) =>
    LET holds == {i \in DOMAIN world : world[i].start <= vaddr /\ vaddr < world[i].end}
    IN  /\ (pss_curr = <<>>) <=> (holds = {})
        /\ \A i \in holds :
             LET ps == pss_curr[1]
                 present == {j \in DOMAIN world[i].pages : has_pfn(world[i].pages[j])}
             IN  /\ <<ps.start, ps.end>> = <<world[i].start, world[i].end>>
                 /\ \A j \in DOMAIN ps.pages : ps.pages[j].pfn = world[i].pages[j].pfn
                 /\ ps.rss = Cardinality(present)

\* A full print accounts for every page of the mappings it shows on exactly one
\* line, and for no other page, with its own frame and flags where it gives the page
\* a line and as a repetition only of what it does repeat, although runs are folded
\* through state that is kept from one mapping to the next.
PrintedOnce ==
  (pc = "done" /\ mode = "cmd" /\ pss_curr # NULL) =>
    LET lines == printer.lines
        shown == {i \in DOMAIN pss_curr : ~ignored_ps(pss_curr[i])}
    IN  /\ \A k \in DOMAIN lines : \E i \in shown : LineTrue(lines, k, pss_curr[i])
        /\ \A i \in shown : \A a \in pss_curr[i].start .. pss_curr[i].end - 1 :
             \E k \in DOMAIN lines :
               \A m \in DOMAIN lines : a \in Stands(lines[m]) <=> m = k

\* watch reports nothing when the target is in the same state at both snapshots,
\* however many comparisons and reports there were before.
NoFalseAlarm ==
  [][(watch /\ pss # NULL /\ Steady /\ before = then) => ~updated']_vars

\* And it reports a page of a mapping it reads (every other one) that was faulted
\* in, swapped, remapped, or whose frame changed its flags or count.
ChangeReported ==
  [][(/\ watch /\ pss # NULL /\ pss_curr # NULL /\ Steady /\ before # NULL
      /\ \E i \in DOMAIN then \cap DOMAIN before :
           /\ i % 2 = 1
           /\ <<then[i].start, then[i].end>> = <<before[i].start, before[i].end>>
           /\ \E j \in DOMAIN then[i].pages : entry(then[i].pages[j]) # entry(before[i].pages[j]))
     => updated']_vars

\* "Grab snapshot of all memory mappings" (pagestat.h): a snapshot of a target that
\* keeps still has an entry for each of its mappings.
AllMappings ==
  (pc = "done" /\ mode = "cmd" /\ Steady /\ pss_curr # NULL) => Len(pss_curr) = Len(world)
=============================================================================
