------------------------------ MODULE VmaSpace ------------------------------
(***************************************************************************)
(* The kernel side of the mapping experiments: an address space is a set   *)
(* of VMAs, and each system call maps such a set to the next.  This is     *)
(* Linux as the programs of random/ use it; none of it is code of the      *)
(* repository.  Addresses are page numbers.                                *)
(***************************************************************************)
EXTENDS Integers, FiniteSets, SequencesExt

CONSTANT
  TOP       \* the first address above the area mmap() allocates from

ASSUME TopAssumption == TOP \in Nat

\* prot "n" none, "r" read, "w" read and write, "x" read, write and execute;
\* av the anon_vma, 0 before the first write fault; flags are the VM_ bits that
\* keep VMAs apart; obj the shared object a VMA maps, 0 for private memory.
Vma(s, e, prot, flags, obj) ==
  [start |-> s, end |-> e, prot |-> prot, pgoff |-> IF obj = 0 THEN s ELSE 0,
   av |-> 0, flags |-> flags, obj |-> obj]

Overlapping(mm, s, e) == {v \in mm : v.start < e /\ s < v.end}

Clip(v, s, e) ==
  LET b == IF s > v.start THEN s ELSE v.start
  IN  [v EXCEPT !.start = b, !.end = IF e < @ THEN e ELSE @, !.pgoff = @ + b - v.start]

\* munmap(): what the range cuts off the VMAs at its ends stays.
Unmap(mm, s, e) ==
  LET hit == Overlapping(mm, s, e)
  IN  (mm \ hit) \cup {Clip(v, v.start, s) : v \in {h \in hit : h.start < s}}
                 \cup {Clip(v, e, v.end) : v \in {h \in hit : h.end > e}}

Linear(a, b) ==
  /\ a.end = b.start
  /\ a.pgoff + a.end - a.start = b.pgoff
  /\ a.obj = b.obj
  /\ a.flags = b.flags

SameAnon(a, b) == a.av = b.av \/ 0 \in {a.av, b.av}

Mergeable(a, b) == Linear(a, b) /\ a.prot = b.prot /\ SameAnon(a, b)

\* One VMA from the lowest to the highest, with the first anon_vma of the three.
Merge(low, v, high) ==
  [low EXCEPT !.end = high.end, !.av = IF @ # 0 THEN @ ELSE IF v.av # 0 THEN v.av ELSE high.av]

\* Put v into mm and merge it with the VMA before and the VMA after it; when
\* the two have different anon_vmas only the one before is taken.
Insert(mm, v) ==
  LET prev == {p \in mm : Mergeable(p, v)}
      next == {n \in mm : Mergeable(v, n) /\ \A p \in prev : SameAnon(p, n)}
      low == CHOOSE a \in prev \cup {v} : \A b \in prev \cup {v} : a.start <= b.start
      high == CHOOSE a \in next \cup {v} : \A b \in next \cup {v} : a.start >= b.start
  IN  (mm \ (prev \cup next)) \cup {Merge(low, v, high)}

\* A VMA with another protection (KEEP: the same) and with flags set and cleared.
KEEP == "keep"
Change(v, prot, set, clear) ==
  [v EXCEPT !.prot = IF prot = KEEP THEN @ ELSE prot, !.flags = (@ \cup set) \ clear]

\* The VMAs of a range, each clipped to it and changed, in address order: upto[p] is
\* the address space when those that begin below p are done.
Modify(mm, s, e, prot, set, clear) ==
  LET hit(p) == {v \in Overlapping(mm, s, e) : Clip(v, s, e).start = p /\ Change(v, prot, set, clear) # v}
      upto[p \in s .. e] ==
        IF p = s THEN mm ELSE IF hit(p - 1) = {} THEN upto[p - 1]
        ELSE LET c == Clip(CHOOSE v \in hit(p - 1) : TRUE, s, e)
             IN  Insert(Unmap(upto[p - 1], c.start, c.end), Change(c, prot, set, clear))
  IN  upto[e]

Covered(mm, s, e) == \A p \in s .. e - 1 : \E v \in mm : v.start <= p /\ p < v.end

Mprotect(mm, s, e, prot) == Modify(mm, s, e, prot, {}, {})
SetFlag(mm, s, e, f) == Modify(mm, s, e, KEEP, {f}, {})
ClearFlag(mm, s, e, f) == Modify(mm, s, e, KEEP, {}, {f})

At(mm, p) == CHOOSE v \in mm : v.start <= p /\ p < v.end

\* The first write to private memory: the VMA takes the anon_vma of the VMA
\* after or before it when the two could be one but for their protection.
Fault(mm, p) ==
  LET v == At(mm, p)
      near == {n \in mm : n.av # 0 /\ Linear(v, n)}
      prior == {n \in mm : n.av # 0 /\ Linear(n, v)}
      used == {n.av : n \in mm}
      av == IF near # {} THEN (CHOOSE n \in near : TRUE).av
            ELSE IF prior # {} THEN (CHOOSE n \in prior : TRUE).av
            ELSE CHOOSE i \in 1 .. Cardinality(mm) + 1 : i \notin used
  IN  IF v.av # 0 \/ v.obj # 0 THEN mm ELSE (mm \ {v}) \cup {[v EXCEPT !.av = av]}

\* Where mmap(NULL) puts n pages: as high as they fit.
Free(mm, n) ==
  {s \in {TOP - n} \cup {v.start - n : v \in mm} :
     s \in 0 .. TOP - n /\ Overlapping(mm, s, s + n) = {}}
Gap(mm, n) == CHOOSE s \in Free(mm, n) : \A t \in Free(mm, n) : t <= s

\* A plausible slip: the mappings below are left.
Mmap_over(mm, s, n, prot, flags, obj) == Insert(mm, Vma(s, s + n, prot, flags, obj))

\* A mapping placed over whatever is there.
Mmap(mm, s, n, prot, flags, obj) == Insert(Unmap(mm, s, s + n), Vma(s, s + n, prot, flags, obj))

\* mremap() of a part of one VMA to a new place.  An anonymous VMA that has not
\* been written to is given the offset of its new place, and so is one moved with
\* MREMAP_RELOCATE_ANON.  MREMAP_DONTUNMAP leaves the old VMA, emptied.
Move(mm, s, n, to, dontunmap, relocate) ==
  LET v == At(mm, s)
      fresh == v.obj = 0 /\ (v.av = 0 \/ relocate)
      moved == [Clip(v, s, s + n) EXCEPT !.start = to, !.end = to + n,
                  !.pgoff = IF fresh THEN to ELSE @, !.av = IF fresh THEN 0 ELSE @]
      placed == Insert(Unmap(mm, to, to + n), moved)
      anchored == IF fresh /\ v.av # 0 THEN Fault(placed, to) ELSE placed
  IN  IF ~dontunmap THEN Unmap(anchored, s, s + n)
      ELSE IF s = v.start /\ s + n = v.end
           THEN {IF u = v THEN [u EXCEPT !.av = 0] ELSE u : u \in anchored}
           ELSE anchored

\* mremap() that grows a mapping where it stands.
Grow(mm, s, n, m) ==
  LET v == At(mm, s)
  IN  Insert(mm, [v EXCEPT !.start = s + n, !.end = s + m, !.pgoff = @ + s + n - v.start])

\* What /proc/self/maps shows of a range, the inaccessible mappings left out.
Extents(mm, s, e) == {<<v.start, v.end, v.prot>> : v \in {u \in Overlapping(mm, s, e) : u.prot # "n"}}
=============================================================================
