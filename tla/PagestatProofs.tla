--------------------------- MODULE PagestatProofs ---------------------------
(***************************************************************************)
(* Theorems about pagestat, for any targets and any changes of them: what  *)
(* a snapshot of a target that keeps still contains, what the watch loop   *)
(* makes of two of them, and what a print of one tells.                    *)
(***************************************************************************)
EXTENDS Pagestat, InductionProofs, FiniteSetTheorems, TLAPS

\* The struct pagestat of a snapshot.
Lists ==
  [start : Nat, end : Nat, name : STRING, attr : Int, rss : Int, ref : Int, rss_counted : BOOLEAN,
   pages : Seq(Pages)]

-----------------------------------------------------------------------------
(* Worlds *)

\* What WorldsAssumption says of a mapping.
LEMMA MappingFacts ==
  ASSUME NEW w \in Worlds, NEW i \in 1 .. Len(w)
  PROVE  /\ w[i] \in Mappings /\ w[i] # NULL
         /\ w[i].start \in Nat /\ w[i].end \in Nat /\ w[i].start < w[i].end
         /\ w[i].pages \in Seq(Pages) /\ Len(w[i].pages) = w[i].end - w[i].start
<1>1. w \in Seq(Mappings) /\ i \in DOMAIN w
  BY WorldsAssumption
<1>2. w[i] \in Mappings
  BY <1>1
<1>3. w[i] # NULL
  BY <1>2, NullAssumption
<1>4. w[i].start < w[i].end /\ Len(w[i].pages) = w[i].end - w[i].start
  BY <1>1, WorldsAssumption
<1> QED
  BY <1>2, <1>3, <1>4 DEF Mappings

LEMMA WorldFacts ==
  ASSUME NEW w \in Worlds
  PROVE  Len(w) \in Nat /\ DOMAIN w = 1 .. Len(w)
BY WorldsAssumption

LEMMA InOrder ==
  ASSUME NEW w \in Worlds, NEW i \in 1 .. Len(w), NEW j \in 1 .. Len(w), i < j
  PROVE  w[i].end <= w[j].start /\ w[i].end < w[j].end
BY WorldsAssumption, MappingFacts, WorldFacts

\* An address is in at most one mapping.
LEMMA OneMapping ==
  ASSUME NEW w \in Worlds, NEW i \in 1 .. Len(w), NEW a \in Int, w[i].start <= a, a < w[i].end
  PROVE  {j \in DOMAIN w : w[j].start <= a /\ a < w[j].end} = {i}
<1>1. ASSUME NEW j \in 1 .. Len(w), w[j].start <= a, a < w[j].end PROVE j = i
  <2>1. /\ w[j].start \in Nat /\ w[j].end \in Nat /\ w[i].start \in Nat /\ w[i].end \in Nat
        /\ Len(w) \in Nat
    BY MappingFacts, WorldFacts
  <2>2. ~(i < j)
    BY <1>1, <2>1, InOrder
  <2>3. ~(j < i)
    BY <1>1, <2>1, InOrder
  <2> QED
    BY <2>1, <2>2, <2>3
<1> QED
  BY <1>1, WorldFacts

\* The first mapping that ends above an address.
LEMMA NextHeader ==
  ASSUME world \in Worlds, NEW a \in Int, NEW k \in 0 .. Len(world),
         \A i \in 1 .. k : world[i].end <= a,
         k < Len(world) => world[k + 1].end > a
  PROVE  /\ k = Len(world) => next_header(a) = NULL
         /\ k < Len(world) => next_header(a) = world[k + 1] /\ next_header(a) # NULL
<1> DEFINE m == {i \in DOMAIN world : world[i].end > a}
<1>0. Len(world) \in Nat /\ DOMAIN world = 1 .. Len(world) /\ k \in Nat
  BY WorldFacts
<1>1. ASSUME NEW i \in m PROVE i \in 1 .. Len(world) /\ k + 1 <= i
  <2>1. i \in 1 .. Len(world) /\ world[i].end > a /\ world[i].end \in Nat
    BY <1>0, MappingFacts
  <2>2. i \notin 1 .. k
    BY <2>1
  <2> QED
    BY <1>0, <2>1, <2>2
<1>2. next_header(a) = IF m = {} THEN NULL ELSE world[CHOOSE i \in m : \A j \in m : i <= j]
  BY DEF next_header
<1>3. CASE k = Len(world)
  <2>1. m = {}
    BY <1>0, <1>1, <1>3
  <2> QED
    BY <1>0, <1>2, <1>3, <2>1
<1>4. CASE k < Len(world)
  <2>1. k + 1 \in m
    BY <1>0, <1>4
  <2> HIDE DEF m
  <2>2. \A j \in m : j \in Int /\ k + 1 <= j
    BY <1>0, <1>1
  <2>3. PICK c : c = CHOOSE i \in m : \A j \in m : i <= j
    OBVIOUS
  <2>4. c \in m /\ \A j \in m : c <= j
    BY <2>1, <2>2, <2>3
  <2>5. c = k + 1
    BY <1>0, <2>1, <2>2, <2>4
  <2>6. next_header(a) = world[k + 1]
    BY <1>2, <2>1, <2>3, <2>5
  <2>7. k + 1 \in 1 .. Len(world)
    BY <1>0, <1>4
  <2>8. world[k + 1] # NULL
    BY <2>7, MappingFacts
  <2>9. k # Len(world)
    <3>1. PICK n : n = Len(world)
      OBVIOUS
    <3>2. n \in Nat /\ k \in Nat /\ k < n
      BY <1>0, <1>4, <3>1
    <3> QED
      BY <3>1, <3>2
  <2> QED
    BY <2>6, <2>8, <2>9, Zenon
<1> QED
  BY <1>0, <1>3, <1>4

-----------------------------------------------------------------------------
(* Snapshots *)

Entries(m) == [i \in 1 .. Len(m.pages) |-> entry(m.pages[i])]

\* What a snapshot has of a mapping.
Shot(m) == tweak_counts([new_pagestat(m) EXCEPT !.pages = Entries(m)])

LEMMA EntryIs ==
  ASSUME NEW v \in Pages
  PROVE  entry(v) \in Pages /\ entry(v).pfn = v.pfn /\ (has_pfn(entry(v)) <=> has_pfn(v))
<1>1. CASE has_pfn(v)
  BY <1>1 DEF entry
<1>2. CASE ~has_pfn(v)
  <2>1. entry(v) = [v EXCEPT !.kcount = 0, !.kflags = 0]
    BY <1>2 DEF entry
  <2>2. PICK x \in BOOLEAN, y \in BOOLEAN, f \in Nat, c \in Int, g \in Int :
          v = [present |-> x, swapped |-> y, pfn |-> f, kcount |-> c, kflags |-> g]
    BY Zenon DEF Pages
  <2>3. entry(v) = [present |-> x, swapped |-> y, pfn |-> f, kcount |-> 0, kflags |-> 0]
    BY <2>2, <2>1
  <2>4. entry(v) \in Pages /\ entry(v).pfn = v.pfn
    BY <2>2, <2>3 DEF Pages
  <2>5. (entry(v).present <=> v.present) /\ (entry(v).swapped <=> v.swapped)
    BY <2>2, <2>3
  <2> QED
    BY <2>4, <2>5, Zenon DEF has_pfn
<1> QED
  BY <1>1, <1>2

\* Reading the pages of a mapping of the world gives its pages.
LEMMA PagesRead ==
  ASSUME world \in Worlds, NEW i \in 1 .. Len(world)
  PROVE  get_pagetable_fields(new_pagestat(world[i])) = Shot(world[i])
<1> DEFINE page(a) == LET m == {j \in DOMAIN world : world[j].start <= a /\ a < world[j].end}
                      IN  IF m = {} THEN Absent
                          ELSE LET w == world[CHOOSE j \in m : TRUE] IN w.pages[a - w.start + 1]
<1>1. PICK ps : ps = new_pagestat(world[i])
  OBVIOUS
<1>2. ps.start = world[i].start /\ ps.end = world[i].end
  BY <1>1 DEF new_pagestat, header
<1>3. /\ world[i].start \in Nat /\ world[i].end \in Nat /\ world[i].start < world[i].end
      /\ Len(world[i].pages) = world[i].end - world[i].start
  BY MappingFacts
<1>4. ASSUME NEW k \in 1 .. Len(world[i].pages) PROVE page(ps.start + k - 1) = world[i].pages[k]
  <2>1. PICK a : a = ps.start + k - 1
    OBVIOUS
  <2>2. a \in Int /\ world[i].start <= a /\ a < world[i].end /\ a - world[i].start + 1 = k
    BY <1>2, <1>3, <2>1
  <2>3. {j \in DOMAIN world : world[j].start <= a /\ a < world[j].end} = {i}
    BY <2>2, OneMapping
  <2>4. (CHOOSE j \in {i} : TRUE) = i
    OBVIOUS
  <2>5. page(a) = world[i].pages[a - world[i].start + 1]
    BY <2>3, <2>4
  <2> HIDE DEF page
  <2> QED
    BY <2>1, <2>2, <2>5
<1>5. get_pagetable_fields(ps) =
        tweak_counts([ps EXCEPT !.pages = [k \in 1 .. count_virt_pages(ps) |-> entry(page(ps.start + k - 1))]])
  BY DEF get_pagetable_fields
<1> HIDE DEF page
<1>6. count_virt_pages(ps) = Len(world[i].pages)
  BY <1>2, <1>3 DEF count_virt_pages
<1>7. [k \in 1 .. count_virt_pages(ps) |-> entry(page(ps.start + k - 1))] = Entries(world[i])
  BY <1>4, <1>6 DEF Entries
<1> QED
  BY <1>1, <1>5, <1>7 DEF Shot

\* The range, the frames and the count of resident pages are the mapping's.
LEMMA ShotIs ==
  ASSUME NEW m \in Mappings
  PROVE  LET ps == Shot(m)
         IN  /\ ps.start = m.start /\ ps.end = m.end
             /\ ps.pages = Entries(m) /\ DOMAIN ps.pages = 1 .. Len(m.pages)
             /\ \A j \in 1 .. Len(m.pages) : ps.pages[j] = entry(m.pages[j]) /\ ps.pages[j].pfn = m.pages[j].pfn
             /\ ps.rss = Cardinality({j \in DOMAIN m.pages : has_pfn(m.pages[j])})
             /\ ps # NULL
<1>1. PICK r : r = [new_pagestat(m) EXCEPT !.pages = Entries(m)]
  OBVIOUS
<1>2. PICK q : q = new_pagestat(m)
  OBVIOUS
<1>3. /\ m.pages \in Seq(Pages) /\ Len(m.pages) \in Nat /\ DOMAIN m.pages = 1 .. Len(m.pages)
      /\ \A j \in 1 .. Len(m.pages) : m.pages[j] \in Pages
  BY DEF Mappings
<1>4. /\ DOMAIN Entries(m) = 1 .. Len(m.pages)
      /\ \A j \in 1 .. Len(m.pages) : Entries(m)[j] = entry(m.pages[j]) /\ Entries(m)[j] \in Pages
      /\ Entries(m) \in Seq(Pages)
  BY <1>3, EntryIs DEF Entries
<1>5. /\ r.start = m.start /\ r.end = m.end /\ r.pages = Entries(m)
      /\ r \in Lists
  BY <1>1, <1>4 DEF new_pagestat, header, other_fields, Lists, Mappings
<1>6. PICK n : n = Cardinality({j \in DOMAIN r.pages : has_pfn(r.pages[j])})
  OBVIOUS
<1>7. Shot(m) = [r EXCEPT !.rss = n, !.rss_counted = n # r.rss]
  BY <1>1, <1>6 DEF Shot, tweak_counts
<1>8. {j \in DOMAIN r.pages : has_pfn(r.pages[j])} = {j \in DOMAIN m.pages : has_pfn(m.pages[j])}
  BY <1>3, <1>4, <1>5, EntryIs
<1>9. PICK ps : ps = Shot(m)
  OBVIOUS
<1>10. ps.start = m.start /\ ps.end = m.end /\ ps.pages = Entries(m) /\ ps.rss = n
  BY <1>5, <1>7, <1>9 DEF Lists
<1>11. n \in Nat
  <2>1. IsFiniteSet(1 .. Len(m.pages))
    BY <1>3, FS_Interval
  <2>2. {j \in DOMAIN r.pages : has_pfn(r.pages[j])} \subseteq 1 .. Len(m.pages)
    BY <1>4, <1>5
  <2> QED
    BY <1>6, <2>1, <2>2, FS_Subset, FS_CardinalityType
<1>12. ps # NULL
  <2>1. PICK b \in BOOLEAN : ps = [r EXCEPT !.rss = n, !.rss_counted = b]
    BY <1>7, <1>9, Zenon
  <2>2. r = [start |-> m.start, end |-> m.end, name |-> m.name, attr |-> m.attr, rss |-> m.rss,
             ref |-> m.ref, rss_counted |-> FALSE, pages |-> Entries(m)]
    BY <1>1 DEF new_pagestat, header, other_fields
  <2>3. ps = [start |-> m.start, end |-> m.end, name |-> m.name, attr |-> m.attr, rss |-> n,
              ref |-> m.ref, rss_counted |-> b, pages |-> Entries(m)]
    BY <2>1, <2>2
  <2>4. m.start \in Nat /\ m.end \in Nat /\ m.name \in STRING /\ m.attr \in Int /\ m.ref \in Int
    BY DEF Mappings
  <2>5. ps \in Lists
    BY <1>4, <1>11, <2>3, <2>4 DEF Lists
  <2> QED
    BY <2>5, NullAssumption DEF Lists
<1>13. \A j \in 1 .. Len(m.pages) : ps.pages[j] = entry(m.pages[j]) /\ ps.pages[j].pfn = m.pages[j].pfn
  BY <1>3, <1>4, <1>10, EntryIs
<1>14. DOMAIN ps.pages = 1 .. Len(m.pages) /\ ps.rss = Cardinality({j \in DOMAIN m.pages : has_pfn(m.pages[j])})
  BY <1>4, <1>6, <1>8, <1>10
<1> QED
  BY <1>9, <1>10, <1>12, <1>13, <1>14

-----------------------------------------------------------------------------
(* pagestat_snapshot() *)

Holds(m) == vaddr >= m.start /\ vaddr < m.end

\* The mappings up to the reader's place do not hold the address.
Passed ==
  \E k \in 0 .. Len(world) :
    /\ fp = IF k = 0 THEN 0 ELSE world[k].end
    /\ \A i \in 1 .. k : ~Holds(world[i])

Found ==
  \/ pss_curr = <<>> /\ \A i \in 1 .. Len(world) : ~Holds(world[i])
  \/ \E i \in 1 .. Len(world) : Holds(world[i]) /\ pss_curr = <<Shot(world[i])>>

\* A snapshot taken of a target that has kept still is of the target as it is.
Kept ==
  /\ world \in Worlds /\ fds \in Int
  /\ pc # "open" /\ then # NULL => then = world

SnapshotInv ==
  mode = "snapshot" =>
    /\ vaddr \in Int
    /\ pc = "open" => fds = 0
    /\ pc \in {"header", "pagemap", "use"} => fds = 1
    /\ then # NULL =>
         /\ pc = "header" => pss_curr = <<>> /\ Passed
         /\ pc = "pagemap" =>
              pss_curr = <<>> /\ \E i \in 1 .. Len(world) : Holds(world[i]) /\ cur = new_pagestat(world[i])
         /\ pc \in {"use", "done"} => Found

LEMMA KeptInit == Init => Kept
BY DEF Init, Kept

LEMMA KeptStep == Kept /\ [Next]_vars => Kept'
<1> SUFFICES ASSUME Kept, [Next]_vars PROVE Kept'
  OBVIOUS
<1> USE DEF Kept
<1>1. CASE open_smaps
  BY <1>1, FdLimitAssumption DEF open_smaps
<1>2. CASE find_header
  BY <1>2 DEF find_header
<1>3. CASE read_pagemap
  BY <1>3 DEF read_pagemap
<1>4. CASE end_of_smaps
  BY <1>4 DEF end_of_smaps
<1>5. CASE use
  BY <1>5 DEF use
<1>6. CASE watch
  BY <1>6 DEF watch
<1>7. CASE change
  BY <1>7 DEF change
<1>8. CASE UNCHANGED vars
  BY <1>8 DEF vars
<1> QED
  BY <1>1, <1>2, <1>3, <1>4, <1>5, <1>6, <1>7, <1>8 DEF Next, Tool, Finished

\* The place between two mappings, and the mapping that comes next.
LEMMA PassedNext ==
  ASSUME world \in Worlds, NEW k \in 0 .. Len(world), fp = IF k = 0 THEN 0 ELSE world[k].end
  PROVE  /\ fp \in Int
         /\ k = Len(world) => next_header(fp) = NULL
         /\ k < Len(world) => /\ next_header(fp) = world[k + 1] /\ next_header(fp) # NULL
                              /\ fp <= world[k + 1].start
<1>0. PICK n : n = Len(world)
  OBVIOUS
<1>1. n \in Nat /\ k \in Nat /\ k <= n
  BY <1>0, WorldFacts
<1>2. fp \in Int
  <2>1. CASE k = 0
    BY <2>1
  <2>2. CASE k # 0
    <3>1. k \in 1 .. Len(world)
      BY <1>0, <1>1, <2>2
    <3> QED
      BY <2>2, <3>1, MappingFacts
  <2> QED
    BY <2>1, <2>2
<1>3. ASSUME NEW i \in 1 .. k PROVE world[i].end <= fp
  <2>1. k # 0 /\ k \in 1 .. Len(world) /\ i \in 1 .. Len(world)
    BY <1>0, <1>1
  <2>2. CASE i = k
    <3>1. world[k].end \in Nat
      BY <2>1, MappingFacts
    <3> QED
      BY <2>1, <2>2, <3>1
  <2>3. CASE i < k
    <3>1. world[i].end < world[k].end /\ world[k].end \in Nat /\ world[i].end \in Nat
      BY <2>1, <2>3, InOrder, MappingFacts
    <3> QED
      BY <2>1, <3>1
  <2> QED
    BY <1>1, <2>2, <2>3
<1>4. CASE k < n
  <2>1. k + 1 \in 1 .. Len(world)
    BY <1>0, <1>1, <1>4
  <2>2. world[k + 1].start \in Nat /\ world[k + 1].end \in Nat /\ world[k + 1].start < world[k + 1].end
    BY <2>1, MappingFacts
  <2>3. fp <= world[k + 1].start
    <3>1. CASE k = 0
      BY <2>2, <3>1
    <3>2. CASE k # 0
      <4>1. k \in 1 .. Len(world) /\ k < k + 1
        BY <1>0, <1>1, <3>2
      <4> QED
        BY <2>1, <3>2, <4>1, InOrder
    <3> QED
      BY <3>1, <3>2
  <2>4. world[k + 1].end > fp
    BY <1>2, <2>2, <2>3
  <2>5. next_header(fp) = world[k + 1] /\ next_header(fp) # NULL
    BY <1>0, <1>2, <1>3, <1>4, <2>4, NextHeader
  <2> QED
    BY <1>0, <1>1, <1>4, <2>3, <2>5, <1>2
<1>5. CASE k = n
  <2>1. ~(k < Len(world))
    BY <1>0, <1>1, <1>5
  <2>2. next_header(fp) = NULL
    BY <1>0, <1>2, <1>3, <1>5, <2>1, NextHeader
  <2> QED
    BY <1>2, <2>1, <2>2
<1> QED
  BY <1>1, <1>4, <1>5

LEMMA SnapshotInit == Init => SnapshotInv
BY BoundsAssumption DEF Init, SnapshotInv

LEMMA SnapshotHeader == ASSUME Kept, SnapshotInv, mode = "snapshot", find_header PROVE SnapshotInv'
<1>1. /\ pc = "header" /\ UNCHANGED <<world, mode, vaddr, pss_curr, fds, then>> /\ next_header(fp) # NULL
      /\ \/ fp > next_header(fp).start \/ ~wanted(next_header(fp))
         \/ /\ cur' = new_pagestat(next_header(fp)) /\ pc' = "pagemap"
            /\ wanted(next_header(fp))
      /\ fp > next_header(fp).start \/ ~wanted(next_header(fp)) =>
           fp' = next_header(fp).end /\ pc' = pc /\ cur' = cur
  BY DEF find_header
<1>2. vaddr' \in Int /\ fds' = 1 /\ pc' \in {"header", "pagemap"}
  BY <1>1 DEF SnapshotInv
<1>3. SUFFICES ASSUME then # NULL
               PROVE  /\ pc' = "header" => pss_curr' = <<>> /\ Passed'
                      /\ pc' = "pagemap" => pss_curr' = <<>> /\ \E i \in 1 .. Len(world) :
                           Holds(world[i]) /\ cur' = new_pagestat(world[i])
  BY <1>1, <1>2 DEF SnapshotInv, Holds
<1>4. pss_curr = <<>> /\ Passed /\ world \in Worlds
  BY <1>1, <1>3 DEF SnapshotInv, Kept
<1>5. PICK k \in 0 .. Len(world) :
        /\ fp = IF k = 0 THEN 0 ELSE world[k].end
        /\ \A i \in 1 .. k : ~Holds(world[i])
  BY <1>4 DEF Passed
<1>6. PICK n : n = Len(world)
  OBVIOUS
<1>7. n \in Nat /\ k \in Nat /\ k < n
  BY <1>1, <1>4, <1>5, <1>6, PassedNext, WorldFacts
<1>8. PICK m : m = world[k + 1]
  OBVIOUS
<1>9. next_header(fp) = m /\ fp \in Int /\ fp <= m.start /\ k + 1 \in 1 .. Len(world)
  BY <1>4, <1>5, <1>6, <1>7, <1>8, PassedNext
<1>10. m.start \in Nat
  BY <1>4, <1>8, <1>9, MappingFacts
<1>11. ~(fp > next_header(fp).start) /\ (wanted(next_header(fp)) <=> Holds(m))
  BY <1>9, <1>10 DEF wanted, Holds
<1>12. CASE Holds(m)
  BY <1>1, <1>4, <1>8, <1>9, <1>11, <1>12
<1>13. CASE ~Holds(m)
  <2>1. pc' = "header" /\ fp' = world[k + 1].end /\ world' = world /\ vaddr' = vaddr
    BY <1>1, <1>8, <1>9, <1>11, <1>13
  <2>2. \A i \in 1 .. k + 1 : ~Holds(world[i])
    BY <1>5, <1>7, <1>8, <1>13
  <2>3. k + 1 \in 0 .. Len(world) /\ k + 1 # 0
    BY <1>6, <1>7
  <2>4. Passed'
    BY <2>1, <2>2, <2>3 DEF Passed, Holds
  <2> QED
    BY <1>1, <1>4, <2>1, <2>4
<1> QED
  BY <1>12, <1>13

LEMMA SnapshotPages == ASSUME Kept, SnapshotInv, mode = "snapshot", read_pagemap PROVE SnapshotInv'
<1>1. pc = "pagemap" /\ UNCHANGED <<world, mode, vaddr, fds, then>> /\ fds = 1 /\ fds # FdLimit
  BY FdLimitAssumption DEF read_pagemap, SnapshotInv
<1>2. pc' = "use" /\ pss_curr' = Append(pss_curr, get_pagetable_fields(cur))
  BY <1>1 DEF read_pagemap
<1>3. ASSUME then # NULL PROVE Found'
  <2>1. pss_curr = <<>> /\ world \in Worlds
    BY <1>1, <1>3 DEF SnapshotInv, Kept
  <2>2. PICK i \in 1 .. Len(world) : Holds(world[i]) /\ cur = new_pagestat(world[i])
    BY <1>1, <1>3 DEF SnapshotInv
  <2>3. get_pagetable_fields(cur) = Shot(world[i])
    BY <2>1, <2>2, PagesRead
  <2>4. PICK x : x = Shot(world[i])
    OBVIOUS
  <2>5. pss_curr' = <<x>>
    BY <1>2, <2>1, <2>3, <2>4
  <2>6. Shot(world'[i]) = x /\ Holds(world[i])' /\ i \in 1 .. Len(world')
    BY <1>1, <2>2, <2>4 DEF Holds
  <2> QED
    BY <2>5, <2>6 DEF Found
<1> QED
  BY <1>1, <1>2, <1>3 DEF SnapshotInv

LEMMA SnapshotEnd == ASSUME Kept, SnapshotInv, mode = "snapshot", end_of_smaps PROVE SnapshotInv'
<1>1. pc = "header" /\ pc' = "use" /\ UNCHANGED <<world, mode, vaddr, fds, then, pss_curr, fp>>
  BY DEF end_of_smaps
<1>2. ASSUME then # NULL PROVE Found'
  <2>1. pss_curr = <<>> /\ Passed /\ world \in Worlds
    BY <1>1, <1>2 DEF SnapshotInv, Kept
  <2>2. PICK k \in 0 .. Len(world) :
          /\ fp = IF k = 0 THEN 0 ELSE world[k].end
          /\ \A i \in 1 .. k : ~Holds(world[i])
    BY <2>1 DEF Passed
  <2>3. PICK n : n = Len(world)
    OBVIOUS
  <2>4. n \in Nat /\ k \in Nat /\ k <= n
    BY <2>1, <2>3, WorldFacts
  <2>5. fp >= 0 /\ fp \in Int
    <3>1. CASE k = 0
      BY <2>2, <3>1
    <3>2. CASE k # 0
      <4>1. k \in 1 .. Len(world)
        BY <2>3, <2>4, <3>2
      <4> QED
        BY <2>1, <2>2, <3>2, <4>1, MappingFacts
    <3> QED
      BY <3>1, <3>2
  <2>6. next_header(fp) = NULL
    BY <2>5 DEF end_of_smaps
  <2>7. ~(k < n)
    BY <2>1, <2>2, <2>3, <2>6, PassedNext
  <2>8. k = n
    BY <2>4, <2>7
  <2>9. \A i \in 1 .. Len(world) : ~Holds(world[i])
    BY <2>2, <2>3, <2>8
  <2> QED
    BY <1>1, <2>1, <2>9 DEF Found, Holds
<1> QED
  BY <1>1, <1>2 DEF SnapshotInv

LEMMA SnapshotStep == Kept /\ SnapshotInv /\ [Next]_vars => SnapshotInv'
<1> SUFFICES ASSUME Kept, SnapshotInv, [Next]_vars PROVE SnapshotInv'
  OBVIOUS
<1>0. CASE mode # "snapshot"
  <2>1. mode' = mode
    BY DEF Next, Tool, Finished, vars, open_smaps, find_header, read_pagemap, end_of_smaps, use, watch, change
  <2> QED
    BY <1>0, <2>1 DEF SnapshotInv
<1> SUFFICES ASSUME mode = "snapshot" PROVE SnapshotInv'
  BY <1>0
<1>1. CASE open_smaps
  <2>1. /\ pc = "open" /\ pc' = "header" /\ pss_curr' = <<>> /\ UNCHANGED <<world, mode, vaddr>>
        /\ fp' = 0 /\ fds' = 1
    BY <1>1, FdLimitAssumption DEF open_smaps, SnapshotInv
  <2>2. Passed'
    <3>1. 0 \in 0 .. Len(world) /\ \A i \in 1 .. 0 : FALSE
      BY WorldFacts DEF Kept
    <3> QED
      BY <2>1, <3>1 DEF Passed
  <2> QED
    BY <2>1, <2>2 DEF SnapshotInv
<1>2. CASE find_header
  BY <1>2, SnapshotHeader
<1>3. CASE read_pagemap
  BY <1>3, SnapshotPages
<1>4. CASE end_of_smaps
  BY <1>4, SnapshotEnd
<1>5. CASE use
  <2>1. pc = "use" /\ pc' = "done" /\ UNCHANGED <<world, mode, vaddr, then, pss_curr>>
    BY <1>5 DEF use
  <2> QED
    BY <2>1 DEF SnapshotInv, Found, Holds
<1>6. CASE watch
  BY <1>6 DEF watch
<1>7. CASE change
  <2>1. /\ UNCHANGED <<mode, vaddr, pc, fds, pss_curr>> /\ pc \notin {"done", "crashed"}
        /\ pc # "open" => then' = NULL
    BY <1>7 DEF change
  <2> QED
    BY <2>1 DEF SnapshotInv
<1>8. CASE UNCHANGED vars
  <2>1. UNCHANGED <<world, mode, vaddr, pc, fp, cur, pss_curr, fds, then>>
    BY <1>8 DEF vars
  <2> QED
    BY <2>1 DEF SnapshotInv, Found, Passed, Holds
<1> QED
  BY <1>1, <1>2, <1>3, <1>4, <1>5, <1>6, <1>7, <1>8 DEF Next, Tool, Finished

\* pagestat.c:770-835: on a target that keeps still, pagestat_snapshot() returns NULL
\* just when no mapping holds the address, and otherwise that mapping with its pages
\* and their count, whatever the target and however far behind smaps is.
THEOREM SnapshotFinds == Spec => []FoundIfThere
<1>1. Init => Kept /\ SnapshotInv
  BY KeptInit, SnapshotInit
<1>2. Kept /\ SnapshotInv /\ [Next]_vars => Kept' /\ SnapshotInv'
  BY KeptStep, SnapshotStep
<1>3. Kept /\ SnapshotInv => FoundIfThere
  <2> SUFFICES ASSUME Kept, SnapshotInv, pc = "done", mode = "snapshot", Steady PROVE FoundIfThere
    BY DEF FoundIfThere
  <2>1. Found /\ world \in Worlds /\ vaddr \in Int
    BY DEF SnapshotInv, Kept, Steady
  <2>2. PICK holds : holds = {i \in DOMAIN world : world[i].start <= vaddr /\ vaddr < world[i].end}
    OBVIOUS
  <2>3. CASE pss_curr = <<>> /\ \A i \in 1 .. Len(world) : ~Holds(world[i])
    <3>1. holds = {}
      <4> SUFFICES ASSUME NEW i \in 1 .. Len(world), world[i].start <= vaddr, vaddr < world[i].end PROVE FALSE
        BY <2>1, <2>2, WorldFacts
      <4>1. world[i].start \in Nat
        BY <2>1, MappingFacts
      <4> QED
        BY <2>1, <2>3, <4>1 DEF Holds
    <3> QED
      BY <2>2, <2>3, <3>1 DEF FoundIfThere
  <2>4. CASE \E i \in 1 .. Len(world) : Holds(world[i]) /\ pss_curr = <<Shot(world[i])>>
    <3>1. PICK i \in 1 .. Len(world) : Holds(world[i]) /\ pss_curr = <<Shot(world[i])>>
      BY <2>4
    <3>2. PICK m, ps : m = world[i] /\ ps = Shot(m)
      OBVIOUS
    <3>3. m \in Mappings /\ m.start \in Nat
      BY <2>1, <3>2, MappingFacts
    <3>4. holds = {i}
      <4>1. m.start <= vaddr /\ vaddr < m.end
        BY <2>1, <3>1, <3>2, <3>3 DEF Holds
      <4> QED
        BY <2>1, <2>2, <3>2, <4>1, OneMapping
    <3>5. pss_curr = <<ps>> /\ pss_curr # <<>> /\ pss_curr[1] = ps
      BY <3>1, <3>2
    <3>6. /\ ps.start = m.start /\ ps.end = m.end
          /\ \A j \in DOMAIN ps.pages : ps.pages[j].pfn = m.pages[j].pfn
          /\ ps.rss = Cardinality({j \in DOMAIN m.pages : has_pfn(m.pages[j])})
      BY <3>2, <3>3, ShotIs
    <3> QED
      BY <2>2, <3>2, <3>4, <3>5, <3>6 DEF FoundIfThere
  <2> QED
    BY <2>1, <2>3, <2>4 DEF Found
<1> QED
  BY <1>1, <1>2, <1>3, PTL DEF Spec

-----------------------------------------------------------------------------
(* The watch loop *)

\* What a snapshot of a whole target has: every other mapping.
Taken(w, n) == [j \in 1 .. n |-> Shot(w[2 * j - 1])]
Half(w) == (Len(w) + 1) \div 2
Expected(w) == IF Half(w) >= MAX_MAPS THEN NULL ELSE Taken(w, Half(w))

\* Where the reader is when it has taken n mappings: after the header of the
\* mapping behind the last one, after that mapping, or at the end of the file.
At(n) ==
  \/ 2 * n <= Len(world) /\ fp = IF 2 * n = 0 THEN 0 ELSE world[2 * n].end
  \/ n > 0 /\ 2 * n <= Len(world) /\ fp = world[2 * n].start + 1
  \/ n > 0 /\ 2 * n - 1 = Len(world) /\ fp = world[2 * n - 1].end

Taking == \E n \in Nat : n < MAX_MAPS /\ pss_curr = Taken(world, n) /\ At(n)

Reading ==
  \E n \in Nat : /\ n < MAX_MAPS /\ pss_curr = Taken(world, n)
                 /\ 2 * n + 1 <= Len(world) /\ cur = new_pagestat(world[2 * n + 1])
                 /\ At(n + 1)

\* A list that was taken of a target that kept still is the one expected of it.
WatchInv ==
  mode = "watch" =>
    /\ fds < FdLimit /\ then # NULL =>
         /\ pc = "header" => Taking
         /\ pc = "pagemap" => Reading
         /\ pc = "use" => pss_curr = Expected(world)
    /\ fds < FdLimit /\ before # NULL /\ pss # NULL /\ pc \notin {"done", "crashed"} =>
         before \in Worlds /\ pss = Expected(before)

\* From where the reader is, the file ends or the next mapping to take comes, at once or
\* after the one whose header is gone.
LEMMA AtNext ==
  ASSUME world \in Worlds, NEW n \in Nat, At(n)
  PROVE  /\ fp \in Int /\ fp >= 0
         /\ \/ next_header(fp) = NULL /\ Half(world) = n
            \/ /\ next_header(fp) = world[2 * n + 1] /\ next_header(fp) # NULL
               /\ 2 * n + 1 <= Len(world) /\ fp <= world[2 * n + 1].start
            \/ /\ next_header(fp) = world[2 * n] /\ next_header(fp) # NULL
               /\ n > 0 /\ 2 * n <= Len(world) /\ fp > world[2 * n].start
<1>0. PICK l : l = Len(world)
  OBVIOUS
<1>1. l \in Nat
  BY <1>0, WorldFacts
<1>2. CASE 2 * n <= Len(world) /\ fp = IF 2 * n = 0 THEN 0 ELSE world[2 * n].end
  <2>1. PICK k : k = 2 * n
    OBVIOUS
  <2>2. k \in 0 .. Len(world) /\ k \in Nat /\ fp = IF k = 0 THEN 0 ELSE world[k].end
    BY <1>0, <1>1, <1>2, <2>1
  <2>3. fp \in Int /\ fp >= 0
    <3>1. CASE k = 0
      BY <2>2, <3>1
    <3>2. CASE k # 0
      <4>1. k \in 1 .. Len(world)
        BY <1>0, <1>1, <2>2, <3>2
      <4> QED
        BY <2>2, <3>2, <4>1, MappingFacts
    <3> QED
      BY <3>1, <3>2
  <2>4. CASE k = l
    <3>1. next_header(fp) = NULL
      BY <1>0, <2>2, <2>4, PassedNext
    <3>2. Half(world) = n
      BY <1>0, <1>1, <2>1, <2>4 DEF Half
    <3> QED
      BY <2>3, <3>1, <3>2
  <2>5. CASE k < l
    <3>1. next_header(fp) = world[k + 1] /\ next_header(fp) # NULL /\ fp <= world[k + 1].start
      BY <1>0, <2>2, <2>5, PassedNext
    <3>2. 2 * n + 1 <= Len(world) /\ k + 1 = 2 * n + 1
      BY <1>0, <1>1, <2>1, <2>5
    <3> QED
      BY <2>1, <2>3, <3>1, <3>2
  <2> QED
    BY <1>0, <1>1, <2>2, <2>4, <2>5
<1>3. CASE n > 0 /\ 2 * n - 1 = Len(world) /\ fp = world[2 * n - 1].end
  <2>1. PICK k : k = 2 * n - 1
    OBVIOUS
  <2>2. k \in 0 .. Len(world) /\ k \in 1 .. Len(world) /\ k # 0 /\ k = l
    BY <1>0, <1>1, <1>3, <2>1
  <2>3. fp = world[k].end /\ fp \in Nat
    BY <1>3, <2>1, <2>2, MappingFacts
  <2>4. next_header(fp) = NULL
    BY <1>0, <2>2, <2>3, PassedNext
  <2>5. Half(world) = n
    BY <1>0, <1>1, <2>1, <2>2 DEF Half
  <2> QED
    BY <2>3, <2>4, <2>5
<1>4. CASE n > 0 /\ 2 * n <= Len(world) /\ fp = world[2 * n].start + 1
  <2>1. PICK k : k = 2 * n
    OBVIOUS
  <2>2. k \in 1 .. Len(world) /\ k - 1 \in 0 .. Len(world) /\ k - 1 < Len(world) /\ k - 1 + 1 = k
    BY <1>0, <1>1, <1>4, <2>1
  <2>3. PICK s, t : s = world[k].start /\ t = world[k].end
    OBVIOUS
  <2>4. s \in Nat /\ t \in Nat /\ s < t /\ fp = s + 1
    BY <1>4, <2>1, <2>2, <2>3, MappingFacts
  <2>5. CASE t = fp
    BY <1>2, <1>4, <2>1, <2>2, <2>3, <2>5
  <2>6. CASE t > fp
    <3>1. ASSUME NEW i \in 1 .. k - 1 PROVE world[i].end <= fp
      <4>1. i \in 1 .. Len(world) /\ i < k
        BY <1>0, <1>1, <2>2
      <4>2. world[i].end <= world[k].start /\ world[i].end \in Nat
        BY <2>2, <4>1, InOrder, MappingFacts
      <4> QED
        BY <2>3, <2>4, <4>2
    <3>2. next_header(fp) = world[k] /\ next_header(fp) # NULL
      <4>1. PICK q : q = k - 1
        OBVIOUS
      <4>2. /\ q \in 0 .. Len(world) /\ q < Len(world) /\ q + 1 = k
            /\ \A i \in 1 .. q : world[i].end <= fp
        BY <2>2, <3>1, <4>1
      <4>3. fp \in Int /\ world[q + 1].end > fp
        BY <2>3, <2>4, <2>6, <4>2
      <4>4. next_header(fp) = world[q + 1] /\ next_header(fp) # NULL
        BY <4>2, <4>3, NextHeader
      <4> QED
        BY <4>2, <4>4
    <3> QED
      BY <1>4, <2>1, <2>3, <2>4, <3>2
  <2> QED
    BY <2>4, <2>5, <2>6
<1> QED
  BY <1>2, <1>3, <1>4 DEF At

\* Reading the lines of a mapping leaves the reader behind the header of the next.
LEMMA ConsumedIs ==
  ASSUME world \in Worlds, NEW k \in 1 .. Len(world)
  PROVE  consumed(world[k]) = IF k = Len(world) THEN world[k].end ELSE world[k + 1].start + 1
<1>0. PICK l : l = Len(world)
  OBVIOUS
<1>1. l \in Nat /\ k \in Nat /\ k > 0 /\ k <= l
  BY <1>0, WorldFacts
<1>2. PICK a : a = world[k].end
  OBVIOUS
<1>3. a \in Nat
  BY <1>2, MappingFacts
<1>4. ASSUME NEW i \in 1 .. k PROVE world[i].end <= a
  <2>1. CASE i = k
    BY <1>2, <1>3, <2>1
  <2>2. CASE i < k
    <3>1. i \in 1 .. Len(world)
      BY <1>0, <1>1
    <3>2. world[i].end < world[k].end /\ world[i].end \in Nat
      BY <2>2, <3>1, InOrder, MappingFacts
    <3> QED
      BY <1>2, <1>3, <3>2
  <2> QED
    BY <1>1, <2>1, <2>2
<1>5. k \in 0 .. Len(world)
  BY <1>0, <1>1
<1>6. CASE k = l
  <2>1. next_header(a) = NULL
    BY <1>0, <1>1, <1>3, <1>4, <1>5, <1>6, NextHeader
  <2> QED
    BY <1>0, <1>2, <1>6, <2>1 DEF consumed
<1>7. CASE k < l
  <2>1. k + 1 \in 1 .. Len(world) /\ k < k + 1
    BY <1>0, <1>1, <1>7
  <2>2. world[k + 1].end > a
    <3>1. world[k].end < world[k + 1].end /\ world[k + 1].end \in Nat
      BY <2>1, InOrder, MappingFacts
    <3> QED
      BY <1>2, <1>3, <3>1
  <2>3. next_header(a) = world[k + 1] /\ next_header(a) # NULL
    BY <1>0, <1>3, <1>4, <1>5, <1>7, <2>2, NextHeader
  <2>4. k # Len(world)
    BY <1>0, <1>1, <1>7
  <2> QED
    BY <1>2, <2>3, <2>4 DEF consumed
<1> QED
  BY <1>1, <1>6, <1>7

\* One more mapping.
LEMMA TakenNext ==
  ASSUME NEW w, NEW n \in Nat
  PROVE  /\ Len(Taken(w, n)) = n
         /\ Append(Taken(w, n), Shot(w[2 * n + 1])) = Taken(w, n + 1)
<1>1. PICK f : f = Taken(w, n)
  OBVIOUS
<1>2. PICK g : g = Taken(w, n + 1)
  OBVIOUS
<1>3. f = [j \in 1 .. n |-> Shot(w[2 * j - 1])] /\ g = [j \in 1 .. n + 1 |-> Shot(w[2 * j - 1])]
  BY <1>1, <1>2 DEF Taken
<1>4. PICK S : S = {Shot(w[2 * j - 1]) : j \in 1 .. n + 1}
  OBVIOUS
<1>5. f \in Seq(S) /\ Len(f) = n /\ g \in Seq(S) /\ Len(g) = n + 1
  BY <1>3, <1>4
<1>6. Shot(w[2 * n + 1]) = g[n + 1] /\ g[n + 1] \in S /\ \A j \in 1 .. n : f[j] = g[j]
  <2>1. n + 1 \in 1 .. n + 1 /\ 2 * (n + 1) - 1 = 2 * n + 1 /\ \A j \in 1 .. n : j \in 1 .. n + 1
    OBVIOUS
  <2> QED
    BY <1>3, <1>4, <2>1
<1>7. PICK x : x = g[n + 1]
  OBVIOUS
<1>8. Append(f, x) = g
  BY <1>5, <1>6, <1>7
<1> QED
  BY <1>1, <1>2, <1>5, <1>6, <1>7, <1>8

LEMMA WatchInit == Init => WatchInv
BY DEF Init, WatchInv

LEMMA WatchHeader ==
  ASSUME Kept, WatchInv, mode = "watch", then # NULL, fds < FdLimit, find_header
  PROVE  (pc' = "header" => Taking') /\ (pc' = "pagemap" => Reading') /\ pc' # "use"
<1>1. /\ pc = "header" /\ UNCHANGED <<world, mode, pss_curr, fds, then>> /\ next_header(fp) # NULL
      /\ ~(fp > next_header(fp).start) =>
           /\ cur' = new_pagestat(next_header(fp)) /\ pc' = "pagemap"
           /\ fp' = consumed(next_header(fp))
      /\ fp > next_header(fp).start =>
           fp' = next_header(fp).end /\ pc' = pc /\ cur' = cur
  BY DEF find_header, wanted
<1>2. Taking /\ world \in Worlds
  BY <1>1 DEF WatchInv, Kept
<1>3. PICK n \in Nat : n < MAX_MAPS /\ pss_curr = Taken(world, n) /\ At(n)
  BY <1>2 DEF Taking
<1>4. PICK l : l = Len(world)
  OBVIOUS
<1>5. l \in Nat
  BY <1>2, <1>4, WorldFacts
<1>6. CASE /\ next_header(fp) = world[2 * n + 1]
           /\ 2 * n + 1 <= Len(world) /\ fp <= world[2 * n + 1].start
  <2>1. PICK k : k = 2 * n + 1
    OBVIOUS
  <2>2. k \in 1 .. Len(world)
    BY <1>4, <1>5, <1>6, <2>1
  <2>3. world[k].start \in Nat /\ fp \in Int
    BY <1>2, <1>3, <2>2, MappingFacts, AtNext
  <2>4. ~(fp > next_header(fp).start)
    BY <1>6, <2>1, <2>3
  <2>5. pc' = "pagemap" /\ cur' = new_pagestat(world[k]) /\ fp' = consumed(world[k])
    BY <1>1, <1>6, <2>1, <2>4
  <2>6. fp' = IF k = Len(world) THEN world[k].end ELSE world[k + 1].start + 1
    BY <1>2, <2>2, <2>5, ConsumedIs
  <2>7. At(n + 1)'
    <3>1. k = 2 * (n + 1) - 1 /\ k + 1 = 2 * (n + 1) /\ n + 1 > 0
      BY <2>1
    <3>2. CASE k = l
      BY <1>1, <1>4, <2>6, <3>1, <3>2 DEF At
    <3>3. CASE k # l
      <4>1. 2 * (n + 1) <= l
        BY <1>4, <1>5, <2>1, <2>2, <3>3
      <4>2. fp' = world[2 * (n + 1)].start + 1
        BY <1>4, <2>6, <3>1, <3>3
      <4> QED
        BY <1>1, <1>4, <3>1, <4>1, <4>2 DEF At
    <3> QED
      BY <3>2, <3>3
  <2>8. Reading'
    BY <1>1, <1>3, <1>6, <2>1, <2>5, <2>7 DEF Reading
  <2> QED
    BY <2>5, <2>8
<1>7. CASE /\ next_header(fp) = world[2 * n]
           /\ n > 0 /\ 2 * n <= Len(world) /\ fp > world[2 * n].start
  <2>1. pc' = "header" /\ fp' = world[2 * n].end
    BY <1>1, <1>7
  <2>2. At(n)'
    <3>1. 2 * n # 0
      BY <1>7
    <3> QED
      BY <1>1, <1>7, <2>1, <3>1 DEF At
  <2>3. Taking'
    BY <1>1, <1>3, <2>2 DEF Taking
  <2> QED
    BY <2>1, <2>3
<1> QED
  BY <1>1, <1>2, <1>3, <1>6, <1>7, AtNext

LEMMA WatchPages ==
  ASSUME Kept, WatchInv, mode = "watch", then # NULL, fds < FdLimit, read_pagemap
  PROVE  (pc' = "header" => Taking') /\ pc' # "pagemap" /\ (pc' = "use" => pss_curr' = Expected(world'))
<1>1. pc = "pagemap" /\ UNCHANGED <<world, mode, fds, then, fp>> /\ fds # FdLimit
  BY FdLimitAssumption DEF read_pagemap, Kept
<1>2. PICK list : list = Append(pss_curr, get_pagetable_fields(cur))
  OBVIOUS
<1>3. IF Len(list) = MAX_MAPS THEN pc' = "use" /\ pss_curr' = NULL
      ELSE pc' = "header" /\ pss_curr' = list
  BY <1>1, <1>2 DEF read_pagemap
<1>4. Reading /\ world \in Worlds
  BY <1>1 DEF WatchInv, Kept
<1>5. PICK n \in Nat : /\ n < MAX_MAPS /\ pss_curr = Taken(world, n)
                      /\ 2 * n + 1 <= Len(world) /\ cur = new_pagestat(world[2 * n + 1])
                      /\ At(n + 1)
  BY <1>4 DEF Reading
<1>6. PICK l : l = Len(world)
  OBVIOUS
<1>7. l \in Nat /\ 2 * n + 1 <= l
  BY <1>4, <1>5, <1>6, WorldFacts
<1>8. get_pagetable_fields(cur) = Shot(world[2 * n + 1])
  <2>1. 2 * n + 1 \in 1 .. Len(world)
    BY <1>6, <1>7
  <2> QED
    BY <1>4, <1>5, <2>1, PagesRead
<1>9. list = Taken(world, n + 1) /\ Len(list) = n + 1
  <2>1. list = Taken(world, n + 1)
    BY <1>2, <1>5, <1>8, TakenNext
  <2>2. Len(Taken(world, n + 1)) = n + 1
    <3>1. n + 1 \in Nat
      OBVIOUS
    <3> QED
      BY <3>1, TakenNext
  <2> QED
    BY <2>1, <2>2
<1>10. CASE n + 1 = MAX_MAPS
  <2>1. Half(world) >= n + 1
    BY <1>6, <1>7 DEF Half
  <2> QED
    BY <1>1, <1>3, <1>9, <1>10, <2>1, BoundsAssumption DEF Expected
<1>11. CASE n + 1 # MAX_MAPS
  <2>1. n + 1 \in Nat /\ n + 1 < MAX_MAPS /\ At(n + 1)'
    BY <1>1, <1>5, <1>11, BoundsAssumption DEF At
  <2>2. pc' = "header" /\ pss_curr' = Taken(world', n + 1)
    BY <1>1, <1>3, <1>9, <1>11
  <2> QED
    BY <2>1, <2>2 DEF Taking
<1> QED
  BY <1>10, <1>11

LEMMA WatchEnd ==
  ASSUME Kept, WatchInv, mode = "watch", then # NULL, fds < FdLimit, end_of_smaps
  PROVE  pc' = "use" /\ pss_curr' = Expected(world')
<1>1. pc = "header" /\ pc' = "use" /\ UNCHANGED <<world, pss_curr>> /\ (fp = -1 \/ next_header(fp) = NULL)
  BY DEF end_of_smaps
<1>2. Taking /\ world \in Worlds
  BY <1>1 DEF WatchInv, Kept
<1>3. PICK n \in Nat : n < MAX_MAPS /\ pss_curr = Taken(world, n) /\ At(n)
  BY <1>2 DEF Taking
<1>4. fp \in Int /\ fp >= 0
  BY <1>2, <1>3, AtNext
<1>5. next_header(fp) = NULL
  BY <1>1, <1>4
<1>6. Half(world) = n
  BY <1>2, <1>3, <1>5, AtNext
<1> QED
  BY <1>1, <1>3, <1>6, BoundsAssumption DEF Expected

LEMMA WatchStep == Kept /\ WatchInv /\ [Next]_vars => WatchInv'
<1> SUFFICES ASSUME Kept, WatchInv, [Next]_vars PROVE WatchInv'
  OBVIOUS
<1>0. mode' = mode
  BY DEF Next, Tool, Finished, vars, open_smaps, find_header, read_pagemap, end_of_smaps, use, watch, change
<1> SUFFICES ASSUME mode = "watch" PROVE WatchInv'
  BY <1>0 DEF WatchInv
<1> DEFINE Current == then # NULL /\ fds < FdLimit =>
                        /\ pc = "header" => Taking
                        /\ pc = "pagemap" => Reading
                        /\ pc = "use" => pss_curr = Expected(world)
           Previous == fds < FdLimit /\ before # NULL /\ pss # NULL /\ pc \notin {"done", "crashed"} =>
                         before \in Worlds /\ pss = Expected(before)
<1>1. Current /\ Previous
  BY DEF WatchInv
<1>2. SUFFICES Current' /\ Previous'
  BY <1>0 DEF WatchInv
<1>3. CASE open_smaps
  <2>1. /\ pc = "open" /\ pc' = "header" /\ pss_curr' = <<>> /\ UNCHANGED <<world, pss, before>>
        /\ fds' < FdLimit => fp' = 0 /\ fds < FdLimit
    BY <1>3, FdLimitAssumption DEF open_smaps, Kept
  <2>2. ASSUME fds' < FdLimit PROVE Taking'
    <3>1. 0 < MAX_MAPS /\ Taken(world', 0) = <<>>
      BY BoundsAssumption DEF Taken
    <3>2. At(0)'
      BY <2>1, <2>2, WorldFacts DEF At, Kept
    <3> QED
      BY <2>1, <3>1, <3>2 DEF Taking
  <2>3. Current'
    BY <2>1, <2>2
  <2>4. Previous'
    BY <1>1, <2>1
  <2> QED
    BY <2>3, <2>4
<1>4. CASE find_header \/ read_pagemap \/ end_of_smaps
  <2>1. UNCHANGED <<fds, then, pss, before>> /\ pc \notin {"done", "crashed"}
    BY <1>4 DEF find_header, read_pagemap, end_of_smaps
  <2>2. Previous'
    BY <1>1, <2>1
  <2>3. Current'
    BY <1>4, <2>1, WatchHeader, WatchPages, WatchEnd
  <2> QED
    BY <2>2, <2>3
<1>5. CASE use
  BY <1>5 DEF use
<1>6. CASE watch
  <2>1. /\ pc = "use" /\ UNCHANGED <<world, fds>> /\ before' = then
        /\ pc' \in {"done", "crashed", "open"}
        /\ pc' = "open" => pss' = pss_curr
    BY <1>6 DEF watch, keep
  <2>2. ASSUME fds < FdLimit, then # NULL, pc' = "open" PROVE then \in Worlds /\ pss' = Expected(then)
    BY <1>1, <2>1, <2>2 DEF Kept
  <2>3. Previous'
    BY <2>1, <2>2
  <2>4. Current'
    BY <2>1
  <2> QED
    BY <2>3, <2>4
<1>7. CASE change
  <2>1. /\ UNCHANGED <<pc, pss, fds, before>>
        /\ pc # "open" => then' = NULL
    BY <1>7 DEF change
  <2> QED
    BY <1>1, <2>1
<1>8. CASE UNCHANGED vars
  <2>1. UNCHANGED <<world, mode, pc, fp, cur, pss_curr, pss, fds, then, before>>
    BY <1>8 DEF vars
  <2>2. (Taking' <=> Taking) /\ (Reading' <=> Reading)
    BY <2>1 DEF Taking, Reading, At
  <2> QED
    BY <1>1, <2>1, <2>2
<1> QED
  BY <1>3, <1>4, <1>5, <1>6, <1>7, <1>8 DEF Next, Tool, Finished

\* Two entries of the same range are told apart by their pages.
LEMMA SeenIs ==
  ASSUME NEW p, NEW x, NEW y, x # NULL, y # NULL, x.start = y.start, x.end = y.end
  PROVE  pagestat_print_diff(p, x, y).seen =
           ({i \in 1 .. count_virt_pages(x) : page_differs(x.pages[i], y.pages[i])} # {})
<1> DEFINE differing == {i \in 1 .. count_virt_pages(x) : page_differs(x.pages[i], y.pages[i])}
           compared == [p |-> print_pages(p, x, y, differing), seen |-> differing # {}]
           others == IF ignored_ps(x) THEN [p |-> p, seen |-> FALSE]
                     ELSE [p |-> pagestat_print(pagestat_print(p, x), y), seen |-> TRUE]
<1>1. pagestat_print_diff(p, x, y) =
        IF x = NULL /\ y = NULL THEN [p |-> p, seen |-> FALSE]
        ELSE IF x = NULL THEN [p |-> pagestat_print(p, y), seen |-> ~ignored_ps(y)]
        ELSE IF y = NULL THEN [p |-> pagestat_print(p, x), seen |-> ~ignored_ps(x)]
        ELSE IF <<x.start, x.end>> # <<y.start, y.end>> THEN others ELSE compared
  BY Zenon DEF pagestat_print_diff
<1>2. compared.seen = (differing # {})
  BY Zenon
<1> HIDE DEF differing, compared, others
<1>3. <<x.start, x.end>> = <<y.start, y.end>>
  OBVIOUS
<1>4. pagestat_print_diff(p, x, y) = compared
  BY <1>1, <1>3, Zenon
<1> QED
  BY <1>2, <1>4, Zenon DEF differing

\* Nothing differs between an entry and itself.
LEMMA SameSeen ==
  ASSUME NEW p, NEW x
  PROVE  ~pagestat_print_diff(p, x, x).seen
<1>1. CASE x = NULL
  BY <1>1 DEF pagestat_print_diff
<1>2. CASE x # NULL
  <2>1. PICK S : S = {i \in 1 .. count_virt_pages(x) : page_differs(x.pages[i], x.pages[i])}
    OBVIOUS
  <2>2. S = {}
    BY <2>1 DEF page_differs
  <2>3. pagestat_print_diff(p, x, x).seen = (S # {})
    BY <1>2, <2>1, SeenIs, Zenon
  <2> QED
    BY <2>2, <2>3, Zenon
<1> QED
  BY <1>1, <1>2

\* What watch sets updated to.
LEMMA UpdatedIs ==
  ASSUME watch, pss # NULL, pss_curr # NULL
  PROVE  \E p : updated' = \E i \in 1 .. MAX_MAPS : pagestat_print_diff(p, Nth(pss, i), Nth(pss_curr, i)).seen
<1>1. PICK p : p = [printer EXCEPT !.lines = <<>>]
  OBVIOUS
<1>2. PICK d : d = pagestat_print_diff_all(p, pss, pss_curr)
  OBVIOUS
<1>3. updated' = d.seen
  BY <1>1, <1>2 DEF watch
<1>4. d.seen = \E i \in 1 .. MAX_MAPS : pagestat_print_diff(p, Nth(pss, i), Nth(pss_curr, i)).seen
  BY <1>2, Zenon DEF pagestat_print_diff_all
<1> QED
  BY <1>3, <1>4, Zenon

LEMMA WatchAlways == Spec => [](Kept /\ WatchInv)
BY KeptInit, KeptStep, WatchInit, WatchStep, PTL DEF Spec

\* The two lists that watch compares.
LEMMA WatchLists ==
  ASSUME Kept, WatchInv, watch, pss # NULL, Steady, before # NULL
  PROVE  before \in Worlds /\ then \in Worlds /\ pss = Expected(before) /\ pss_curr = Expected(then)
BY DEF Kept, WatchInv, watch, Steady

\* watch-cmd.c:42-56: two snapshots of the same state of the target are never reported as
\* different, whatever was compared and printed before.
THEOREM WatchIsQuiet == Spec => NoFalseAlarm
<1>1. Kept /\ WatchInv => ((watch /\ pss # NULL /\ Steady /\ before = then) => ~updated')
  <2> SUFFICES ASSUME Kept, WatchInv, watch, pss # NULL, Steady, before = then PROVE ~updated'
    OBVIOUS
  <2>1. before # NULL
    BY DEF Steady
  <2>2. pss = pss_curr
    BY <2>1, WatchLists
  <2>3. PICK p : updated' = \E i \in 1 .. MAX_MAPS : pagestat_print_diff(p, Nth(pss, i), Nth(pss_curr, i)).seen
    BY <2>2, UpdatedIs
  <2>4. \A i \in 1 .. MAX_MAPS : ~pagestat_print_diff(p, Nth(pss, i), Nth(pss_curr, i)).seen
    BY <2>2, SameSeen
  <2> QED
    BY <2>3, <2>4, Zenon
<1> QED
  BY <1>1, WatchAlways, PTL DEF NoFalseAlarm

\* The entry of a mapping in the list that is expected of its target.
LEMMA NthIs ==
  ASSUME NEW w \in Worlds, NEW k \in Nat, k > 0, 2 * k - 1 <= Len(w), Expected(w) # NULL
  PROVE  k \in 1 .. MAX_MAPS /\ Nth(Expected(w), k) = Shot(w[2 * k - 1])
<1>1. PICK l, h : l = Len(w) /\ h = Half(w)
  OBVIOUS
<1>2. l \in Nat /\ h \in Nat /\ k <= h
  BY <1>1, WorldFacts DEF Half
<1>3. h < MAX_MAPS /\ Expected(w) = Taken(w, h)
  BY <1>1, <1>2, BoundsAssumption DEF Expected
<1>4. Len(Taken(w, h)) = h
  BY <1>2, TakenNext
<1>5. Taken(w, h)[k] = Shot(w[2 * k - 1])
  BY <1>2 DEF Taken
<1> QED
  BY <1>2, <1>3, <1>4, <1>5, BoundsAssumption DEF Nth

\* A page that two entries of the same range differ in is seen.
LEMMA PageSeen ==
  ASSUME NEW p, NEW a \in Mappings, NEW b \in Mappings, a.start = b.start, a.end = b.end,
         Len(a.pages) = a.end - a.start, NEW j \in 1 .. Len(a.pages), j \in 1 .. Len(b.pages),
         entry(a.pages[j]) # entry(b.pages[j])
  PROVE  pagestat_print_diff(p, Shot(a), Shot(b)).seen = TRUE
<1>1. PICK x, y : x = Shot(a) /\ y = Shot(b)
  OBVIOUS
<1>2. /\ x # NULL /\ x.start = a.start /\ x.end = a.end /\ x.pages[j] = entry(a.pages[j])
      /\ y # NULL /\ y.start = b.start /\ y.end = b.end /\ y.pages[j] = entry(b.pages[j])
  BY <1>1, ShotIs
<1>3. PICK S : S = {i \in 1 .. count_virt_pages(x) : page_differs(x.pages[i], y.pages[i])}
  OBVIOUS
<1>4. j \in S
  BY <1>2, <1>3 DEF count_virt_pages, page_differs
<1>5. pagestat_print_diff(p, x, y).seen = (S # {})
  BY <1>2, <1>3, SeenIs, Zenon
<1> QED
  BY <1>1, <1>4, <1>5, Zenon

\* watch-cmd.c:42-56, pagestat.c:693-726: a page of a mapping that is read both times, and
\* whose entry or whose frame's flags or count differ, makes the comparison report.
THEOREM WatchReports == Spec => ChangeReported
<1> DEFINE Changed == \E i \in DOMAIN then \cap DOMAIN before :
             /\ i % 2 = 1
             /\ <<then[i].start, then[i].end>> = <<before[i].start, before[i].end>>
             /\ \E j \in DOMAIN then[i].pages : entry(then[i].pages[j]) # entry(before[i].pages[j])
<1>1. Kept /\ WatchInv => ((/\ watch /\ pss # NULL /\ pss_curr # NULL /\ Steady /\ before # NULL
                            /\ Changed) => updated')
  <2> SUFFICES ASSUME Kept, WatchInv, watch, pss # NULL, pss_curr # NULL, Steady, before # NULL, Changed
               PROVE  updated'
    OBVIOUS
  <2>1. before \in Worlds /\ then \in Worlds /\ pss = Expected(before) /\ pss_curr = Expected(then)
    BY WatchLists
  <2>2. PICK i \in DOMAIN then \cap DOMAIN before :
          /\ i % 2 = 1
          /\ <<then[i].start, then[i].end>> = <<before[i].start, before[i].end>>
          /\ \E j \in DOMAIN then[i].pages : entry(then[i].pages[j]) # entry(before[i].pages[j])
    OBVIOUS
  <2>3. PICK a, b : a = before[i] /\ b = then[i]
    OBVIOUS
  <2>4. i \in 1 .. Len(then) /\ i \in 1 .. Len(before) /\ Len(then) \in Nat /\ Len(before) \in Nat
    BY <2>1, WorldFacts
  <2>5. /\ a \in Mappings /\ a.pages \in Seq(Pages) /\ Len(a.pages) = a.end - a.start
        /\ b \in Mappings /\ b.pages \in Seq(Pages) /\ Len(b.pages) = b.end - b.start
    BY <2>1, <2>3, <2>4, MappingFacts
  <2>6. a.start = b.start /\ a.end = b.end
    BY <2>2, <2>3
  <2>7. PICK j \in 1 .. Len(a.pages) : j \in 1 .. Len(b.pages) /\ entry(a.pages[j]) # entry(b.pages[j])
    BY <2>2, <2>3, <2>5, <2>6
  <2>8. PICK k \in Nat : k > 0 /\ 2 * k - 1 = i
    <3>1. i \in Nat /\ i > 0 /\ i % 2 = 1
      BY <2>2, <2>4
    <3>2. PICK q : q = i \div 2
      OBVIOUS
    <3>3. q \in Nat /\ i = 2 * q + 1
      BY <3>1, <3>2
    <3> QED
      BY <3>3
  <2>9. k \in 1 .. MAX_MAPS /\ Nth(pss, k) = Shot(a) /\ Nth(pss_curr, k) = Shot(b)
    <3>1. 2 * k - 1 <= Len(before) /\ 2 * k - 1 <= Len(then)
      BY <2>4, <2>8
    <3>2. k \in 1 .. MAX_MAPS /\ Nth(pss, k) = Shot(before[2 * k - 1])
      BY <2>1, <2>8, <3>1, NthIs
    <3>3. Nth(pss_curr, k) = Shot(then[2 * k - 1])
      BY <2>1, <2>8, <3>1, NthIs
    <3> QED
      BY <2>3, <2>8, <3>2, <3>3
  <2>10. PICK p : updated' = \E n \in 1 .. MAX_MAPS : pagestat_print_diff(p, Nth(pss, n), Nth(pss_curr, n)).seen
    BY UpdatedIs
  <2>11. pagestat_print_diff(p, Nth(pss, k), Nth(pss_curr, k)).seen = TRUE
    BY <2>5, <2>6, <2>7, <2>9, PageSeen
  <2> QED
    BY <2>9, <2>10, <2>11, Zenon
<1> QED
  BY <1>1, WatchAlways, PTL DEF ChangeReported

-----------------------------------------------------------------------------
(* Printing *)

Lines ==
  [addr : Int, pages : Nat] \cup
  [addr : Int, pages : Nat, present : BOOLEAN, swapped : BOOLEAN, pfn : Int, kflags : Int]
Maps == {NoMap} \cup (BOOLEAN \X BOOLEAN)
Printers ==
  [map : Maps, pfn : Int, addr : Int, index : Nat, count : Nat, lines : Seq(Lines)]

Shown(list) == {i \in DOMAIN list : ~ignored_ps(list[i])}
Span(ps) == ps.start .. ps.end - 1

\* The lines account for the pages of A, each on one line, and what they tell is so.
Accounts(lines, list, A) ==
  /\ lines \in Seq(Lines)
  /\ \A k \in 1 .. Len(lines) : Stands(lines[k]) \subseteq A
  /\ \A k \in 1 .. Len(lines) : \E i \in Shown(list) : LineTrue(lines, k, list[i])
  /\ \A a \in A : \E k \in 1 .. Len(lines) : \A m \in 1 .. Len(lines) : a \in Stands(lines[m]) <=> m = k

\* An entry of a list, whatever the target did while it was read.
WellFormed(ps) ==
  /\ ps.start \in Nat /\ ps.end \in Nat /\ ps.start < ps.end
  /\ ps.pages \in Seq(Pages) /\ Len(ps.pages) = ps.end - ps.start

LEMMA LineTrueAppend ==
  ASSUME NEW lines \in Seq(Lines), NEW l \in Lines, NEW k \in 1 .. Len(lines), NEW ps,
         LineTrue(lines, k, ps)
  PROVE  LineTrue(Append(lines, l), k, ps)
<1>1. PICK m : m = Append(lines, l)
  OBVIOUS
<1>3. m[k] = lines[k]
  BY <1>1
<1>4. k > 1 => m[k - 1] = lines[k - 1]
  BY <1>1
<1>5. LineTrue(m, k, ps)
  BY <1>3, <1>4, Zenon DEF LineTrue
<1> QED
  BY <1>1, <1>5

\* One more line, for pages that were not accounted for.
LEMMA AccountsMore ==
  ASSUME NEW lines, NEW list, NEW A, NEW B, NEW l, NEW i, Accounts(lines, list, A),
         l \in Lines, i \in Shown(list),
         LineTrue(Append(lines, l), Len(lines) + 1, list[i]),
         A \cap Stands(l) = {}, B = A \cup Stands(l)
  PROVE  Accounts(Append(lines, l), list, B)
<1>1. PICK m, n : m = Append(lines, l) /\ n = Len(lines)
  OBVIOUS
<1>2. /\ lines \in Seq(Lines) /\ m \in Seq(Lines) /\ n \in Nat /\ Len(m) = n + 1
      /\ m[n + 1] = l /\ \A k \in 1 .. n : m[k] = lines[k]
  BY <1>1 DEF Accounts
<1>3. \A k \in 1 .. n : Stands(m[k]) \subseteq A
  BY <1>1, <1>2 DEF Accounts
<1>4. \A k \in 1 .. n + 1 : Stands(m[k]) \subseteq B
  BY <1>2, <1>3
<1>5. ASSUME NEW k \in 1 .. n + 1 PROVE \E j \in Shown(list) : LineTrue(m, k, list[j])
  <2>1. CASE k = n + 1
    BY <1>1, <2>1
  <2>2. CASE k \in 1 .. n
    <3>1. PICK j \in Shown(list) : LineTrue(lines, k, list[j])
      BY <1>1, <2>2 DEF Accounts
    <3>2. LineTrue(m, k, list[j])
      BY <1>1, <1>2, <2>2, <3>1, LineTrueAppend
    <3> QED
      BY <3>2
  <2> QED
    BY <1>2, <2>1, <2>2
<1>6. ASSUME NEW a \in B
      PROVE  \E k \in 1 .. n + 1 : \A j \in 1 .. n + 1 : a \in Stands(m[j]) <=> j = k
  <2>1. CASE a \in A
    <3>1. PICK k \in 1 .. n : \A j \in 1 .. n : a \in Stands(lines[j]) <=> j = k
      BY <1>1, <2>1 DEF Accounts
    <3>2. a \notin Stands(m[n + 1])
      BY <1>2, <2>1
    <3>3. \A j \in 1 .. n + 1 : j \in 1 .. n \/ j = n + 1
      BY <1>2
    <3>4. k \in 1 .. n + 1 /\ k # n + 1
      BY <1>2
    <3>5. \A j \in 1 .. n + 1 : a \in Stands(m[j]) <=> j = k
      BY <1>2, <3>1, <3>2, <3>3, <3>4, Zenon
    <3> QED
      BY <3>4, <3>5
  <2>2. CASE a \notin A
    <3>1. a \in Stands(m[n + 1])
      BY <1>2, <2>2
    <3>2. \A j \in 1 .. n : a \notin Stands(m[j])
      BY <1>3, <2>2
    <3>3. \A j \in 1 .. n + 1 : (j \in 1 .. n /\ j # n + 1) \/ j = n + 1
      BY <1>2
    <3>4. n + 1 \in 1 .. n + 1
      BY <1>2
    <3>5. \A j \in 1 .. n + 1 : a \in Stands(m[j]) <=> j = n + 1
      BY <3>1, <3>2, <3>3, Zenon
    <3> QED
      BY <3>4, <3>5
  <2> QED
    BY <2>1, <2>2
<1>7. \A k \in 1 .. Len(m) : Stands(m[k]) \subseteq B
  BY <1>2, <1>4
<1>8. \A k \in 1 .. Len(m) : \E j \in Shown(list) : LineTrue(m, k, list[j])
  BY <1>2, <1>5
<1>9. \A a \in B : \E k \in 1 .. Len(m) : \A j \in 1 .. Len(m) : a \in Stands(m[j]) <=> j = k
  <2>1. PICK z : z = 1 .. n + 1
    OBVIOUS
  <2>2. 1 .. Len(m) = z
    BY <1>2, <2>1
  <2>3. \A a \in B : \E k \in z : \A j \in z : a \in Stands(m[j]) <=> j = k
    BY <1>6, <2>1, Zenon
  <2> QED
    BY <2>2, <2>3, Zenon
<1>10. Accounts(m, list, B)
  BY <1>2, <1>7, <1>8, <1>9, Zenon DEF Accounts
<1> QED
  BY <1>1, <1>10

\* The line do_print_mapping() adds.
PageLine(addr, ps, index, val) ==
  [addr |-> addr, pages |-> 1, present |-> val.present, swapped |-> val.swapped, pfn |-> val.pfn,
   kflags |-> IF ~has_pfn(val) THEN 0
              ELSE IF index <= Len(ps.pages) THEN ps.pages[index].kflags ELSE INVALID]

LEMMA PageFacts ==
  ASSUME NEW ps, NEW n, WellFormed(ps), n \in 1 .. Len(ps.pages)
  PROVE  /\ ps.pages[n] \in Pages
         /\ ps.pages[n].present \in BOOLEAN /\ ps.pages[n].swapped \in BOOLEAN
         /\ ps.pages[n].pfn \in Nat /\ ps.pages[n].kflags \in Int
<1>1. ps.pages[n] \in Pages
  BY DEF WellFormed
<1> QED
  BY <1>1 DEF Pages

Matches(val, v) ==
  /\ val.present = v.present /\ val.swapped = v.swapped
  /\ val.pfn \in Int
  /\ has_pfn(v) => val.pfn = v.pfn

\* The line of page n, from a value that matches it.
LineOf(l, ps, n, val) ==
  /\ n \in 1 .. Len(ps.pages) /\ Matches(val, ps.pages[n])
  /\ l = PageLine(ps.start + n - 1, ps, n, val)

TrueLine(l, lines, ps, n) ==
  /\ l \in Lines /\ l.pages = 1 /\ Stands(l) = {ps.start + n - 1}
  /\ flag_bits(l) = flag_bits(ps.pages[n])
  /\ LineTrue(Append(lines, l), Len(lines) + 1, ps)

\* A page's line is true when the value it is made of is the page's.
LEMMA PageLineTrue ==
  ASSUME NEW lines, NEW ps, NEW n, NEW val, NEW l, WellFormed(ps), LineOf(l, ps, n, val),
         lines \in Seq(Lines)
  PROVE  TrueLine(l, lines, ps, n)
<1>0. PICK v, a : v = ps.pages[n] /\ a = ps.start + n - 1
  OBVIOUS
<1>1. n \in 1 .. Len(ps.pages) /\ l = PageLine(a, ps, n, val)
  BY <1>0 DEF LineOf
<1>a. Matches(val, v)
  BY <1>0 DEF LineOf
<1>2. /\ ps.start \in Nat /\ ps.end \in Nat /\ Len(ps.pages) = ps.end - ps.start /\ n \in Nat
      /\ a \in Int /\ a - ps.start + 1 = n /\ ps.start <= a /\ a <= ps.end - 1
  BY <1>0, <1>1 DEF WellFormed
<1>3. has_pfn(val) = has_pfn(v)
  BY <1>a, Zenon DEF has_pfn, Matches
<1>4. v.present \in BOOLEAN /\ v.swapped \in BOOLEAN /\ v.pfn \in Nat /\ v.kflags \in Int
  BY <1>0, <1>1, PageFacts
<1>5. PICK g : g = IF ~has_pfn(val) THEN 0
                   ELSE IF n <= Len(ps.pages) THEN ps.pages[n].kflags ELSE INVALID
  OBVIOUS
<1>6. g \in Int /\ (has_pfn(v) => g = v.kflags)
  <2>1. n <= Len(ps.pages)
    BY <1>1, <1>2
  <2> QED
    BY <1>0, <1>3, <1>4, <1>5, <2>1
<1>7. l = [addr |-> a, pages |-> 1, present |-> v.present, swapped |-> v.swapped, pfn |-> val.pfn,
           kflags |-> g]
  BY <1>1, <1>a, <1>5, Zenon DEF PageLine, Matches
<1>8. l \in Lines
  <2>1. val.pfn \in Int
    BY <1>a DEF Matches
  <2> QED
    BY ONLY <1>2, <1>4, <1>6, <1>7, <2>1 DEF Lines
<1>9. l.addr = a /\ l.pages = 1 /\ l.pfn = val.pfn /\ l.kflags = g
  BY <1>7
<1>10. Stands(l) = {a}
  BY <1>2, <1>9 DEF Stands
<1>11. flag_bits(l) = flag_bits(v)
  <2>1. l.present = v.present /\ l.swapped = v.swapped
    BY ONLY <1>7, Zenon
  <2> QED
    BY ONLY <2>1, Zenon DEF flag_bits
<1>12. PICK m, k : m = Append(lines, l) /\ k = Len(lines) + 1
  OBVIOUS
<1>13. m[k] = l
  BY <1>8, <1>12
<1>14. LineTrue(m, k, ps)
  <2>1. Stands(l) \subseteq ps.start .. ps.end - 1
    BY <1>2, <1>10
  <2>2. ps.pages[l.addr - ps.start + 1] = v
    BY <1>0, <1>2, <1>9
  <2>3. has_pfn(v) => l.pfn = v.pfn /\ l.kflags = v.kflags
    BY <1>a, <1>6, <1>9 DEF Matches
  <2> QED
    BY <1>9, <1>11, <1>13, <2>1, <2>2, <2>3, Zenon DEF LineTrue
<1> QED
  BY <1>0, <1>8, <1>9, <1>10, <1>11, <1>12, <1>14, Zenon DEF TrueLine

\* Interval after interval.
LEMMA Fill ==
  ASSUME NEW A, NEW x \in Int, NEW y \in Int, NEW z \in Int, NEW e \in Int,
         x <= y + 1, y <= z, z <= e, A \cap (x .. e) = {}
  PROVE  /\ (A \cup (x .. y)) \cap (y + 1 .. z) = {}
         /\ A \cup (x .. z) = (A \cup (x .. y)) \cup (y + 1 .. z)
<1>1. \A a \in y + 1 .. z : a \in x .. e /\ a \notin x .. y
  OBVIOUS
<1>2. (x .. z) = (x .. y) \cup (y + 1 .. z)
  OBVIOUS
<1>3. (A \cup (x .. y)) \cap (y + 1 .. z) = {}
  BY <1>1
<1> QED
  BY <1>2, <1>3

LEMMA FlagBits ==
  ASSUME NEW v
  PROVE  flag_bits(v) # NoMap /\ flag_bits(v)[1] = v.present /\ flag_bits(v)[2] = v.swapped
<1>1. flag_bits(v)[1] = v.present /\ flag_bits(v)[2] = v.swapped
  BY Zenon DEF flag_bits
<1>2. flag_bits(v) # NoMap
  BY DEF flag_bits, NoMap
<1> QED
  BY <1>1, <1>2, Zenon

\* The printer after n pages of an entry, which it began with the pages of A told: the
\* last run is not yet told, but for its first page.
Seen(q, ps, list, A, n) ==
  /\ q \in Printers
  /\ n = 0 => q.map = NoMap /\ q.count = 0 /\ Accounts(q.lines, list, A)
  /\ n > 0 =>
       /\ q.map = flag_bits(ps.pages[n]) /\ q.pfn = get_pfn(ps.pages[n])
       /\ q.index = n /\ q.addr = ps.start + n - 1
       /\ q.count \in 1 .. n
       /\ Accounts(q.lines, list, A \cup (ps.start .. ps.start + n - q.count))
       /\ Len(q.lines) > 0 /\ q.lines[Len(q.lines)].pages = 1
       /\ flag_bits(q.lines[Len(q.lines)]) = q.map
       /\ \A k \in n - q.count + 1 .. n : flag_bits(ps.pages[k]) = q.map

LEMMA AddLine ==
  ASSUME NEW q, NEW l, q \in Printers, l \in Lines
  PROVE  /\ [q EXCEPT !.lines = Append(@, l)] \in Printers
         /\ [q EXCEPT !.lines = Append(@, l)].lines = Append(q.lines, l)
BY DEF Printers

LEMMA PrintsLine ==
  ASSUME NEW q, NEW addr, NEW ps, NEW n, NEW val
  PROVE  do_print_mapping(q, addr, ps, n, val) = [q EXCEPT !.lines = Append(@, PageLine(addr, ps, n, val))]
BY Zenon DEF do_print_mapping, PageLine

LEMMA Typed ==
  ASSUME NEW a \in Maps, NEW b \in Int, NEW c \in Int, NEW d \in Nat, NEW n \in Nat, NEW l \in Seq(Lines)
  PROVE  [map |-> a, pfn |-> b, addr |-> c, index |-> d, count |-> n, lines |-> l] \in Printers
BY DEF Printers

\* What print_abbrev() does once the last run has to be told.
LEMMA Flushed ==
  ASSUME NEW q, NEW ps, NEW list, NEW A, NEW n, NEW i, WellFormed(ps), n \in 0 .. Len(ps.pages),
         Seen(q, ps, list, A, n), i \in Shown(list), ps = list[i], A \cap Span(ps) = {}
  PROVE  /\ print_abbrev(q, ps) \in Printers
         /\ Accounts(print_abbrev(q, ps).lines, list, A \cup (ps.start .. ps.start + n - 1))
<1>0. /\ q \in Printers /\ q.count \in Nat /\ q.lines \in Seq(Lines) /\ n \in Nat
      /\ ps.start \in Nat /\ ps.end \in Nat /\ Len(ps.pages) = ps.end - ps.start
  BY DEF Seen, Printers, WellFormed
<1>1. CASE n = 0
  <2>1. print_abbrev(q, ps) = q /\ Accounts(q.lines, list, A)
    BY <1>1 DEF Seen, print_abbrev
  <2>2. A \cup (ps.start .. ps.start + n - 1) = A
    BY <1>0, <1>1
  <2> QED
    BY <1>0, <2>1, <2>2, Zenon
<1>2. CASE n > 0
  <2>0. PICK c, L, B, s, v : c = q.count /\ L = q.lines /\ B = A \cup (s .. s + n - c) /\ s = ps.start /\ v = ps.pages[n]
    OBVIOUS
  <2>1. /\ q.map = flag_bits(v) /\ q.pfn = get_pfn(v) /\ q.index = n /\ q.addr = s + n - 1
        /\ c \in 1 .. n /\ Accounts(L, list, B)
        /\ Len(L) > 0 /\ L[Len(L)].pages = 1 /\ flag_bits(L[Len(L)]) = q.map
        /\ \A k \in n - c + 1 .. n : flag_bits(ps.pages[k]) = q.map
    BY <1>2, <2>0 DEF Seen
  <2>2. q.map # NoMap
    BY <2>1, FlagBits
  <2>3. /\ s \in Nat /\ n \in 1 .. Len(ps.pages) /\ n <= ps.end - s
    BY <1>0, <1>2, <2>0
  <2>4. Span(ps) = s .. ps.end - 1
    BY <2>0 DEF Span
  <2>5. CASE c = 1
    <3>1. print_abbrev(q, ps) = q
      BY <2>0, <2>5 DEF print_abbrev
    <3>2. A \cup (s .. s + n - 1) = B
      BY <2>0, <2>5
    <3> QED
      BY <1>0, <2>0, <2>1, <3>1, <3>2, Zenon
  <2>6. CASE c = 2
    <3>1. PICK val, l : /\ val = [present |-> q.map[1], swapped |-> q.map[2],
                                  pfn |-> IF q.pfn = INVALID THEN 0 ELSE q.pfn]
                        /\ l = PageLine(s + n - 1, ps, n, val)
      OBVIOUS
    <3>2. print_abbrev(q, ps) = do_print_mapping(q, q.addr, ps, q.index, val)
      BY <2>0, <2>2, <2>6, <3>1 DEF print_abbrev
    <3>3. print_abbrev(q, ps) = [q EXCEPT !.lines = Append(@, l)]
      BY <2>1, <3>1, <3>2, PrintsLine, Zenon
    <3>4. val.present = v.present /\ val.swapped = v.swapped
      BY <2>1, <3>1, FlagBits, Zenon
    <3>5. v.pfn \in Nat
      BY <2>0, <2>3, PageFacts
    <3>6. val.pfn = IF q.pfn = INVALID THEN 0 ELSE q.pfn
      BY <3>1
    <3>7. val.pfn \in Int /\ has_pfn(v) => val.pfn = v.pfn
      BY <2>1, <3>5, <3>6 DEF get_pfn, INVALID
    <3>8. val.pfn \in Int
      BY <2>1, <3>5, <3>6 DEF get_pfn, INVALID
    <3>9. has_pfn(v) => val.pfn = v.pfn
      BY <3>7, <3>8
    <3>10. l \in Lines /\ Stands(l) = {s + n - 1} /\ LineTrue(Append(L, l), Len(L) + 1, ps)
      <4>1. Matches(val, v)
        BY <3>4, <3>8, <3>9, Zenon DEF Matches
      <4>2. LineOf(l, ps, n, val)
        BY <2>0, <2>3, <3>1, <4>1 DEF LineOf
      <4>3. TrueLine(l, L, ps, n)
        BY <1>0, <2>0, <4>2, PageLineTrue
      <4> QED
        BY <2>0, <4>3 DEF TrueLine
    <3>11. B \cap Stands(l) = {} /\ A \cup (s .. s + n - 1) = B \cup Stands(l)
      <4>1. PICK y, z, e : y = s + n - c /\ z = s + n - 1 /\ e = ps.end - 1
        OBVIOUS
      <4>2. /\ y \in Int /\ z \in Int /\ e \in Int /\ s \in Int /\ s <= y + 1 /\ y <= z /\ z <= e
            /\ A \cap (s .. e) = {} /\ Stands(l) = y + 1 .. z /\ B = A \cup (s .. y)
        <5>1. /\ y \in Int /\ z \in Int /\ e \in Int /\ s \in Int /\ s <= y + 1 /\ y <= z /\ z <= e
              /\ y + 1 .. z = s + n - c + 1 .. s + n - 1
          BY ONLY <1>0, <2>1, <2>3, <4>1
        <5>2. A \cap (s .. e) = {}
          BY <2>4, <4>1
        <5>3. Stands(l) = y + 1 .. z
          BY ONLY <2>6, <3>10, <4>1, <1>0, <2>1, <2>3
        <5>4. B = A \cup (s .. y)
          BY ONLY <2>0, <4>1
        <5> QED
          BY ONLY <5>1, <5>2, <5>3, <5>4
      <4>3. (A \cup (s .. y)) \cap (y + 1 .. z) = {} /\ A \cup (s .. z) = (A \cup (s .. y)) \cup (y + 1 .. z)
        BY ONLY <4>2, Fill
      <4> QED
        BY ONLY <4>1, <4>2, <4>3
    <3>12. Accounts(Append(L, l), list, A \cup (s .. s + n - 1))
      BY <2>1, <3>10, <3>11, AccountsMore
    <3> QED
      BY <1>0, <2>0, <3>3, <3>10, <3>12, AddLine
  <2>7. CASE c > 2
    <3>1. PICK l, m, k : l = [addr |-> s + n - 1, pages |-> c - 1] /\ m = Append(L, l) /\ k = Len(L) + 1
      OBVIOUS
    <3>2. print_abbrev(q, ps) = [q EXCEPT !.lines = Append(@, l)]
      BY <2>0, <2>1, <2>2, <2>7, <3>1 DEF print_abbrev
    <3>3. l \in Lines /\ l.addr = s + n - 1 /\ l.pages = c - 1 /\ c - 1 # 1
      BY <2>1, <2>3, <2>7, <3>1 DEF Lines
    <3>4. Stands(l) = s + n - c + 1 .. s + n - 1
      BY <2>1, <2>3, <3>3 DEF Stands
    <3>5. m[k] = l /\ m[k - 1] = L[Len(L)] /\ k > 1
      BY <1>0, <2>0, <2>1, <3>1, <3>3
    <3>6. ASSUME NEW a \in Stands(l) PROVE flag_bits(ps.pages[a - s + 1]) = flag_bits(m[k - 1])
      <4>1. a - s + 1 \in n - c + 1 .. n
        BY <2>1, <2>3, <3>4
      <4> QED
        BY <2>1, <3>5, <4>1
    <3>7. Stands(l) \subseteq s .. ps.end - 1
      BY <1>0, <2>1, <2>3, <3>4
    <3>8. LineTrue(m, k, ps)
      BY <2>0, <2>1, <3>3, <3>5, <3>6, <3>7, Zenon DEF LineTrue
    <3>9. B \cap Stands(l) = {} /\ A \cup (s .. s + n - 1) = B \cup Stands(l)
      <4>1. PICK y, z, e : y = s + n - c /\ z = s + n - 1 /\ e = ps.end - 1
        OBVIOUS
      <4>2. /\ y \in Int /\ z \in Int /\ e \in Int /\ s \in Int /\ s <= y + 1 /\ y <= z /\ z <= e
            /\ A \cap (s .. e) = {} /\ Stands(l) = y + 1 .. z /\ B = A \cup (s .. y)
        <5>1. /\ y \in Int /\ z \in Int /\ e \in Int /\ s \in Int /\ s <= y + 1 /\ y <= z /\ z <= e
              /\ y + 1 .. z = s + n - c + 1 .. s + n - 1
          BY ONLY <1>0, <2>1, <2>3, <4>1
        <5>2. A \cap (s .. e) = {}
          BY <2>4, <4>1
        <5>3. Stands(l) = y + 1 .. z
          BY ONLY <3>4, <4>1, <1>0, <2>1, <2>3
        <5>4. B = A \cup (s .. y)
          BY ONLY <2>0, <4>1
        <5> QED
          BY ONLY <5>1, <5>2, <5>3, <5>4
      <4>3. (A \cup (s .. y)) \cap (y + 1 .. z) = {} /\ A \cup (s .. z) = (A \cup (s .. y)) \cup (y + 1 .. z)
        BY ONLY <4>2, Fill
      <4> QED
        BY ONLY <4>1, <4>2, <4>3
    <3>10. Accounts(m, list, A \cup (s .. s + n - 1))
      BY <2>1, <3>1, <3>3, <3>8, <3>9, AccountsMore
    <3> QED
      BY <1>0, <2>0, <3>1, <3>2, <3>3, <3>10, AddLine
  <2> QED
    BY <2>1, <2>3, <2>5, <2>6, <2>7
<1> QED
  BY <1>0, <1>1, <1>2

\* One page more.
LEMMA SeenNext ==
  ASSUME NEW q, NEW ps, NEW list, NEW A, NEW n, NEW i, WellFormed(ps), n \in 0 .. Len(ps.pages) - 1,
         Seen(q, ps, list, A, n), i \in Shown(list), ps = list[i], A \cap Span(ps) = {}
  PROVE  Seen(print_mapping(q, ps.start + (n + 1) - 1, ps, n + 1, TRUE), ps, list, A, n + 1)
<1>a. PICK s, addr, e : s = ps.start /\ addr = ps.start + (n + 1) - 1 /\ e = n + 1
  OBVIOUS
<1>b. PICK v, r : v = ps.pages[e] /\ r = print_mapping(q, addr, ps, e, TRUE)
  OBVIOUS
<1>0. /\ s = ps.start /\ addr = ps.start + (n + 1) - 1 /\ e = n + 1
      /\ v = ps.pages[e] /\ r = print_mapping(q, addr, ps, e, TRUE)
  BY <1>a, <1>b
<1> DEFINE b == flag_bits(v) # q.map \/ get_pfn(v) \notin {q.pfn, q.pfn + 1}
<1>1. /\ q \in Printers /\ q.count \in Nat /\ q.lines \in Seq(Lines) /\ n \in Nat
      /\ s \in Nat /\ ps.end \in Nat /\ Len(ps.pages) = ps.end - s
      /\ e \in 1 .. Len(ps.pages) /\ n \in 0 .. Len(ps.pages) /\ addr = s + n /\ addr \in Int /\ e > 0
      /\ addr = s + e - 1 /\ e = n + 1
  <2>1. q \in Printers /\ q.count \in Nat /\ q.lines \in Seq(Lines)
    BY DEF Seen, Printers
  <2>2. s \in Nat /\ ps.end \in Nat /\ Len(ps.pages) = ps.end - s /\ Len(ps.pages) \in Nat
    BY <1>0 DEF WellFormed
  <2> QED
    BY <1>0, <2>1, <2>2
<1>2. flag_bits(v) \in Maps /\ get_pfn(v) \in Int /\ v.pfn \in Int
  <2>1. v.present \in BOOLEAN /\ v.swapped \in BOOLEAN /\ v.pfn \in Nat
    BY <1>0, <1>1, PageFacts
  <2>2. flag_bits(v) \in BOOLEAN \X BOOLEAN
    BY <2>1, Zenon DEF flag_bits
  <2>3. get_pfn(v) \in Int
    BY <2>1 DEF get_pfn, INVALID
  <2> QED
    BY <2>1, <2>2, <2>3 DEF Maps
<1>3. CASE b
  <2>1. PICK f, t, l : /\ f = print_abbrev(q, ps) /\ l = PageLine(addr, ps, e, v)
                       /\ t = [map |-> flag_bits(v), pfn |-> get_pfn(v), addr |-> addr, index |-> e,
                               count |-> flush(q, ps).count + 1, lines |-> flush(q, ps).lines]
    OBVIOUS
  <2>2. f \in Printers /\ Accounts(f.lines, list, A \cup (s .. s + n - 1))
    BY <1>0, <1>1, <2>1, Flushed
  <2>3. r = do_print_mapping(t, addr, ps, e, v)
    BY <1>0, <1>3, <2>1, Zenon DEF print_mapping
  <2>5. /\ t \in Printers /\ t.lines = f.lines /\ f.lines \in Seq(Lines) /\ t.map = flag_bits(v)
        /\ t.pfn = get_pfn(v) /\ t.addr = addr /\ t.index = e /\ t.count = 1
    <3>1. PICK g, x, y, L, c : /\ g = [f EXCEPT !.count = 0] /\ x = flag_bits(v) /\ y = get_pfn(v)
                               /\ L = g.lines /\ c = g.count + 1
      OBVIOUS
    <3>2. g \in Printers /\ c = 1 /\ L = f.lines /\ L \in Seq(Lines)
      BY ONLY <2>2, <3>1 DEF Printers
    <3>3. flush(q, ps) = g
      BY <2>1, <3>1 DEF flush
    <3>4. t = [map |-> x, pfn |-> y, addr |-> addr, index |-> e, count |-> c, lines |-> L]
      BY ONLY <2>1, <3>1, <3>3, Zenon
    <3>5. x \in Maps /\ y \in Int /\ addr \in Int /\ e \in Nat /\ c \in Nat
      BY <1>1, <1>2, <3>1, <3>2
    <3>6. t \in Printers
      BY ONLY <3>2, <3>4, <3>5, Typed
    <3> QED
      BY ONLY <3>1, <3>2, <3>4, <3>5, <3>6
  <2>6. r = [t EXCEPT !.lines = Append(@, l)]
    BY <2>1, <2>3, PrintsLine, Zenon
  <2>7. /\ l \in Lines /\ l.pages = 1 /\ Stands(l) = {addr} /\ flag_bits(l) = flag_bits(v)
        /\ LineTrue(Append(f.lines, l), Len(f.lines) + 1, ps)
    <3>1. Matches(v, v)
      BY <1>2 DEF Matches
    <3>2. addr = ps.start + e - 1
      BY <1>0, <1>1
    <3>3. LineOf(l, ps, e, v)
      BY <1>0, <1>1, <2>1, <3>1, <3>2 DEF LineOf
    <3>4. PICK L : L = f.lines
      OBVIOUS
    <3>5. TrueLine(l, L, ps, e)
      BY <2>5, <3>3, <3>4, PageLineTrue
    <3> QED
      BY <1>0, <3>2, <3>4, <3>5 DEF TrueLine
  <2>8. /\ (A \cup (s .. s + n - 1)) \cap Stands(l) = {}
        /\ A \cup (s .. s + e - 1) = (A \cup (s .. s + n - 1)) \cup Stands(l)
    <3>1. PICK y, z : y = s + n - 1 /\ z = ps.end - 1
      OBVIOUS
    <3>2. /\ y \in Int /\ z \in Int /\ addr \in Int /\ s \in Int /\ s <= y + 1 /\ y <= addr /\ addr <= z
          /\ A \cap (s .. z) = {} /\ Stands(l) = y + 1 .. addr /\ s + e - 1 = addr
      <4>1. A \cap (s .. z) = {}
        BY <1>0, <3>1 DEF Span
      <4> QED
        BY ONLY <1>1, <2>7, <3>1, <4>1
    <3>3. /\ (A \cup (s .. y)) \cap (y + 1 .. addr) = {}
          /\ A \cup (s .. addr) = (A \cup (s .. y)) \cup (y + 1 .. addr)
      BY ONLY <3>2, Fill
    <3> QED
      BY ONLY <3>1, <3>2, <3>3
  <2>9. Accounts(Append(f.lines, l), list, A \cup (s .. s + e - 1))
    BY <2>2, <2>7, <2>8, AccountsMore
  <2>10. /\ r \in Printers /\ r.lines = Append(f.lines, l) /\ r.map = flag_bits(v) /\ r.pfn = get_pfn(v)
         /\ r.index = e /\ r.addr = s + e - 1 /\ r.count = 1
    <3>1. r \in Printers /\ r.lines = Append(f.lines, l)
      BY <2>5, <2>6, <2>7, AddLine
    <3>2. r.map = t.map /\ r.pfn = t.pfn /\ r.addr = t.addr /\ r.index = t.index /\ r.count = t.count
      BY ONLY <2>5, <2>6 DEF Printers
    <3> QED
      BY ONLY <1>1, <2>5, <3>1, <3>2
  <2>11. PICK m : m = r.lines
    OBVIOUS
  <2>12. Len(m) > 0 /\ m[Len(m)] = l
    BY <2>5, <2>7, <2>10, <2>11
  <2>13. \A k \in e - 1 + 1 .. e : k = e
    BY <1>1
  <2>14. Seen(r, ps, list, A, e)
    <3>1. Accounts(r.lines, list, A \cup (ps.start .. ps.start + e - r.count)) /\ r.count \in 1 .. e
      <4>1. r.count \in 1 .. e /\ s + e - r.count = s + e - 1
        BY ONLY <1>1, <2>10
      <4> QED
        BY ONLY <1>a, <2>9, <2>10, <4>1
    <3>2. \A k \in e - r.count + 1 .. e : flag_bits(ps.pages[k]) = r.map
      BY <1>0, <2>10, <2>13
    <3>3. /\ Len(r.lines) > 0 /\ r.lines[Len(r.lines)].pages = 1
          /\ flag_bits(r.lines[Len(r.lines)]) = r.map
      BY <2>7, <2>10, <2>11, <2>12
    <3>4. e # 0
      BY <1>1
    <3> QED
      BY <1>0, <2>10, <3>1, <3>2, <3>3, <3>4, Zenon DEF Seen
  <2> QED
    BY <1>0, <2>14
<1>4. CASE ~b
  <2>1. flag_bits(v) = q.map /\ n # 0
    BY <1>0, <1>4, FlagBits DEF Seen
  <2>2. r = [map |-> flag_bits(v), pfn |-> get_pfn(v), addr |-> addr, index |-> e,
             count |-> q.count + 1, lines |-> q.lines]
    BY <1>0, <1>4, Zenon DEF print_mapping
  <2>3. /\ r \in Printers /\ r.lines = q.lines /\ r.map = flag_bits(v) /\ r.pfn = get_pfn(v)
        /\ r.index = e /\ r.addr = addr /\ r.count = q.count + 1
    <3>1. PICK x, y, L, c : x = flag_bits(v) /\ y = get_pfn(v) /\ L = q.lines /\ c = q.count + 1
      OBVIOUS
    <3>2. r = [map |-> x, pfn |-> y, addr |-> addr, index |-> e, count |-> c, lines |-> L]
      BY ONLY <2>2, <3>1, Zenon
    <3>3. x \in Maps /\ y \in Int /\ addr \in Int /\ e \in Nat /\ c \in Nat /\ L \in Seq(Lines)
      BY <1>1, <1>2, <3>1
    <3>4. r \in Printers
      BY ONLY <3>2, <3>3, Typed
    <3> QED
      BY ONLY <3>1, <3>2, <3>4
  <2>4. /\ q.count \in 1 .. n
        /\ Accounts(q.lines, list, A \cup (ps.start .. ps.start + n - q.count))
        /\ Len(q.lines) > 0 /\ q.lines[Len(q.lines)].pages = 1
        /\ flag_bits(q.lines[Len(q.lines)]) = q.map
        /\ \A k \in n - q.count + 1 .. n : flag_bits(ps.pages[k]) = q.map
    BY <1>1, <2>1 DEF Seen
  <2>5. /\ r.count \in 1 .. e /\ ps.start + n - q.count = ps.start + e - r.count
        /\ addr = ps.start + e - 1
    <3>1. PICK c, d : c = q.count /\ d = r.count
      OBVIOUS
    <3>2. c \in 1 .. n /\ d = c + 1
      BY ONLY <2>3, <2>4, <3>1
    <3>3. d \in 1 .. e /\ s + n - c = s + e - d /\ addr = s + e - 1
      BY ONLY <1>1, <3>2
    <3> QED
      BY ONLY <1>a, <3>1, <3>3
  <2>6. ASSUME NEW k \in e - r.count + 1 .. e PROVE flag_bits(ps.pages[k]) = r.map
    <3>1. k = e \/ k \in n - q.count + 1 .. n
      BY ONLY <1>1, <2>3, <2>4, <2>6
    <3> QED
      BY <1>0, <2>1, <2>3, <2>4, <3>1
  <2>7. Seen(r, ps, list, A, e)
    <3>1. Accounts(r.lines, list, A \cup (ps.start .. ps.start + e - r.count))
      BY <2>3, <2>4, <2>5
    <3>2. e # 0 /\ ps.start + e - 1 = addr
      BY <1>1, <2>5
    <3>3. /\ Len(r.lines) > 0 /\ r.lines[Len(r.lines)].pages = 1
          /\ flag_bits(r.lines[Len(r.lines)]) = r.map
      BY <2>1, <2>3, <2>4
    <3> QED
      BY <1>0, <2>3, <2>5, <2>6, <3>1, <3>2, <3>3, Zenon DEF Seen
  <2> QED
    BY <1>0, <2>7
<1> QED
  BY <1>3, <1>4

\* The loop of pagestat_print() over the first m pages.
PageLoop(f, p, ps, m) ==
  f = [k \in 0 .. m |-> IF k = 0 THEN p ELSE print_mapping(f[k - 1], ps.start + k - 1, ps, k, TRUE)]

LEMMA PageLoopExists ==
  ASSUME NEW p, NEW ps, NEW m \in Nat
  PROVE  \E f : PageLoop(f, p, ps, m)
<1> DEFINE N == {n \in Nat : \E f : PageLoop(f, p, ps, n)}
<1>1. 0 \in N
  <2> DEFINE f == [k \in 0 .. 0 |-> p]
  <2>1. \A k \in 0 .. 0 : k = 0
    OBVIOUS
  <2>2. f = [k \in 0 .. 0 |-> IF k = 0 THEN p ELSE print_mapping(f[k - 1], ps.start + k - 1, ps, k, TRUE)]
    BY <2>1
  <2>3. PageLoop(f, p, ps, 0)
    BY <2>2, Zenon DEF PageLoop
  <2> QED
    BY <2>3
<1>2. ASSUME NEW n \in Nat, n \in N PROVE n + 1 \in N
  <2>1. PICK f : PageLoop(f, p, ps, n)
    BY <1>2
  <2> DEFINE last == print_mapping(f[n], ps.start + (n + 1) - 1, ps, n + 1, TRUE)
             g == [k \in 0 .. n + 1 |-> IF k = n + 1 THEN last ELSE f[k]]
             step(h, k) == IF k = 0 THEN p ELSE print_mapping(h[k - 1], ps.start + k - 1, ps, k, TRUE)
  <2>2. ASSUME NEW k \in 0 .. n + 1 PROVE g[k] = step(g, k)
    <3>1. CASE k = n + 1
      <4>1. k - 1 \in 0 .. n + 1 /\ k - 1 # n + 1 /\ k - 1 = n /\ k # 0
        BY <3>1
      <4>2. g[k - 1] = f[n]
        BY <4>1
      <4>3. g[k] = last
        BY <3>1
      <4> HIDE DEF g
      <4> QED
        BY <3>1, <4>1, <4>2, <4>3
    <3>2. CASE k # n + 1
      <4>1. k \in 0 .. n /\ (k # 0 => k - 1 \in 0 .. n + 1 /\ k - 1 # n + 1)
        BY <3>2
      <4>2. g[k] = f[k] /\ (k # 0 => g[k - 1] = f[k - 1])
        BY <3>2, <4>1
      <4>3. f[k] = step(f, k)
        BY <2>1, <4>1 DEF PageLoop
      <4> HIDE DEF g
      <4> QED
        BY <4>2, <4>3, Zenon
    <3> QED
      BY <3>1, <3>2
  <2>3. g = [k \in 0 .. n + 1 |-> g[k]]
    OBVIOUS
  <2> HIDE DEF g
  <2>4. g = [k \in 0 .. n + 1 |-> step(g, k)]
    BY <2>2, <2>3
  <2>5. PageLoop(g, p, ps, n + 1)
    BY <2>4, Zenon DEF PageLoop
  <2> QED
    BY <2>5
<1> HIDE DEF N
<1>3. Nat \subseteq N
  BY <1>1, <1>2, Induction
<1> QED
  BY <1>3 DEF N

\* Between two entries nothing is left to tell.
Between(q, list, A) ==
  /\ q \in Printers /\ q.map = NoMap /\ q.count = 0
  /\ Accounts(q.lines, list, A)

LEMMA PrintOne ==
  ASSUME NEW p, NEW ps, NEW list, NEW A, NEW i, WellFormed(ps), i \in Shown(list), ps = list[i],
         A \cap Span(ps) = {}, Between(p, list, A)
  PROVE  Between(pagestat_print(p, ps), list, A \cup Span(ps))
<1>0. PICK m, f : /\ m = count_virt_pages(ps)
                  /\ f = CHOOSE h : h = [k \in 0 .. m |-> IF k = 0 THEN p
                           ELSE print_mapping(h[k - 1], ps.start + k - 1, ps, k, TRUE)]
  OBVIOUS
<1>1. m \in Nat /\ m = Len(ps.pages) /\ m = ps.end - ps.start /\ ps.start \in Nat /\ ps.end \in Nat
  BY <1>0 DEF count_virt_pages, WellFormed
<1>2. PageLoop(f, p, ps, m)
  <2>1. \E g : PageLoop(g, p, ps, m)
    BY <1>1, PageLoopExists
  <2> QED
    BY <1>0, <2>1, Zenon DEF PageLoop
<1>3. pagestat_print(p, ps) = print_mapping_terminate(f[m], ps)
  BY <1>0, Zenon DEF pagestat_print, Shown
<1> DEFINE N == {n \in Nat : n <= m => Seen(f[n], ps, list, A, n)}
<1>4. 0 \in N
  <2>1. f[0] = p
    BY <1>1, <1>2 DEF PageLoop
  <2>2. Seen(p, ps, list, A, 0)
    BY DEF Seen, Between
  <2> QED
    BY <2>1, <2>2
<1>5. ASSUME NEW n \in Nat, n \in N PROVE n + 1 \in N
  <2> SUFFICES ASSUME n + 1 <= m PROVE Seen(f[n + 1], ps, list, A, n + 1)
    OBVIOUS
  <2>1. Seen(f[n], ps, list, A, n) /\ n \in 0 .. Len(ps.pages) - 1
    BY <1>1, <1>5
  <2>2. n + 1 \in 0 .. m /\ n + 1 # 0 /\ (n + 1) - 1 = n
    BY <1>1
  <2>3. f[n + 1] = print_mapping(f[n], ps.start + (n + 1) - 1, ps, n + 1, TRUE)
    BY <1>2, <2>2 DEF PageLoop
  <2>4. PICK q : q = f[n]
    OBVIOUS
  <2>5. Seen(print_mapping(q, ps.start + (n + 1) - 1, ps, n + 1, TRUE), ps, list, A, n + 1)
    BY <2>1, <2>4, SeenNext
  <2> QED
    BY <2>3, <2>4, <2>5, Zenon
<1> HIDE DEF N
<1>6. Nat \subseteq N
  BY <1>4, <1>5, Induction
<1>7. Seen(f[m], ps, list, A, m)
  BY <1>1, <1>6 DEF N
<1>8. PICK q, r, L : q = f[m] /\ L = print_abbrev(q, ps).lines /\ r = [Fresh EXCEPT !.lines = L, !.addr = q.addr]
  OBVIOUS
<1>9. print_abbrev(q, ps) \in Printers /\ Accounts(L, list, A \cup (ps.start .. ps.start + m - 1))
  <2>1. m \in 0 .. Len(ps.pages) /\ Seen(q, ps, list, A, m)
    BY <1>1, <1>7, <1>8
  <2> QED
    BY <1>8, <2>1, Flushed
<1>10. ps.start .. ps.start + m - 1 = Span(ps)
  BY <1>1 DEF Span
<1>11. pagestat_print(p, ps) = r
  BY <1>3, <1>8 DEF print_mapping_terminate
<1>12. q.addr \in Int /\ L \in Seq(Lines)
  BY <1>7, <1>8, <1>9 DEF Seen, Printers, Accounts
<1>13. r = [map |-> NoMap, pfn |-> 0, addr |-> q.addr, index |-> 0, count |-> 0, lines |-> L]
  BY <1>8 DEF Fresh
<1>14. r \in Printers
  <2>1. PICK x : x = NoMap
    OBVIOUS
  <2>2. x \in Maps
    BY <2>1 DEF Maps
  <2> QED
    BY ONLY <1>12, <1>13, <2>1, <2>2 DEF Printers
<1>15. r.map = NoMap /\ r.count = 0 /\ r.lines = L
  BY <1>13
<1> QED
  BY <1>9, <1>10, <1>11, <1>14, <1>15 DEF Between

\* The loop of pagestat_print_all() over the first m entries.
EntryLoop(f, p, list, m) == f = [k \in 0 .. m |-> IF k = 0 THEN p ELSE pagestat_print(f[k - 1], list[k])]

LEMMA EntryLoopExists ==
  ASSUME NEW p, NEW list, NEW m \in Nat
  PROVE  \E f : EntryLoop(f, p, list, m)
<1> DEFINE N == {n \in Nat : \E f : EntryLoop(f, p, list, n)}
<1>1. 0 \in N
  <2> DEFINE f == [k \in 0 .. 0 |-> p]
  <2>1. \A k \in 0 .. 0 : k = 0
    OBVIOUS
  <2>2. f = [k \in 0 .. 0 |-> IF k = 0 THEN p ELSE pagestat_print(f[k - 1], list[k])]
    BY <2>1
  <2>3. EntryLoop(f, p, list, 0)
    BY <2>2, Zenon DEF EntryLoop
  <2> QED
    BY <2>3
<1>2. ASSUME NEW n \in Nat, n \in N PROVE n + 1 \in N
  <2>1. PICK f : EntryLoop(f, p, list, n)
    BY <1>2
  <2> DEFINE last == pagestat_print(f[n], list[n + 1])
             g == [k \in 0 .. n + 1 |-> IF k = n + 1 THEN last ELSE f[k]]
             step(h, k) == IF k = 0 THEN p ELSE pagestat_print(h[k - 1], list[k])
  <2>2. ASSUME NEW k \in 0 .. n + 1 PROVE g[k] = step(g, k)
    <3>1. CASE k = n + 1
      <4>1. k - 1 \in 0 .. n + 1 /\ k - 1 # n + 1 /\ k - 1 = n /\ k # 0
        BY <3>1
      <4>2. g[k - 1] = f[n]
        BY <4>1
      <4>3. g[k] = last
        BY <3>1
      <4> HIDE DEF g
      <4> QED
        BY <3>1, <4>1, <4>2, <4>3
    <3>2. CASE k # n + 1
      <4>1. k \in 0 .. n /\ (k # 0 => k - 1 \in 0 .. n + 1 /\ k - 1 # n + 1)
        BY <3>2
      <4>2. g[k] = f[k] /\ (k # 0 => g[k - 1] = f[k - 1])
        BY <3>2, <4>1
      <4>3. f[k] = step(f, k)
        BY <2>1, <4>1 DEF EntryLoop
      <4> HIDE DEF g
      <4> QED
        BY <4>2, <4>3, Zenon
    <3> QED
      BY <3>1, <3>2
  <2>3. g = [k \in 0 .. n + 1 |-> g[k]]
    OBVIOUS
  <2> HIDE DEF g
  <2>4. g = [k \in 0 .. n + 1 |-> step(g, k)]
    BY <2>2, <2>3
  <2>5. EntryLoop(g, p, list, n + 1)
    BY <2>4, Zenon DEF EntryLoop
  <2> QED
    BY <2>5
<1> HIDE DEF N
<1>3. Nat \subseteq N
  BY <1>1, <1>2, Induction
<1> QED
  BY <1>3 DEF N

\* A list of entries in address order.
InOrderList(list) ==
  /\ list \in Seq(Lists) /\ Len(list) \in Nat /\ DOMAIN list = 1 .. Len(list)
  /\ \A k \in 1 .. Len(list) : WellFormed(list[k])
  /\ \A j, k \in 1 .. Len(list) : j < k => list[j].end <= list[k].start

\* The pages of the entries shown up to the n-th.
Told(list, n) == UNION {Span(list[j]) : j \in {k \in Shown(list) : k <= n}}

LEMMA PrintAll ==
  ASSUME NEW list, InOrderList(list)
  PROVE  Accounts(pagestat_print_all(Fresh, list).lines, list, Told(list, Len(list)))
<1>0. PICK m, f : m = Len(list) /\ f = CHOOSE h : h = [k \in 0 .. m |-> IF k = 0 THEN Fresh
                                                     ELSE pagestat_print(h[k - 1], list[k])]
  OBVIOUS
<1>1. m \in Nat /\ DOMAIN list = 1 .. m
  BY <1>0 DEF InOrderList
<1>2. EntryLoop(f, Fresh, list, m)
  <2>1. \E g : EntryLoop(g, Fresh, list, m)
    BY <1>1, EntryLoopExists
  <2> QED
    BY <1>0, <2>1, Zenon DEF EntryLoop
<1>3. pagestat_print_all(Fresh, list) = f[m]
  BY <1>0, Zenon DEF pagestat_print_all
<1> DEFINE N == {n \in Nat : n <= m => Between(f[n], list, Told(list, n))}
<1>4. 0 \in N
  <2>1. f[0] = Fresh
    BY <1>1, <1>2 DEF EntryLoop
  <2>2. Told(list, 0) = {}
    BY <1>1 DEF Told, Shown
  <2>3. Fresh \in Printers /\ Fresh.map = NoMap /\ Fresh.count = 0 /\ Fresh.lines = <<>>
    <3>1. NoMap \in Maps /\ <<>> \in Seq(Lines)
      BY DEF Maps
    <3>2. PICK x, l : x = NoMap /\ l = <<>>
      OBVIOUS
    <3>3. Fresh = [map |-> x, pfn |-> 0, addr |-> 0, index |-> 0, count |-> 0, lines |-> l]
      BY <3>2, Zenon DEF Fresh
    <3>4. x \in Maps /\ l \in Seq(Lines)
      BY <3>1, <3>2
    <3>5. Fresh \in Printers
      BY ONLY <3>3, <3>4 DEF Printers
    <3> QED
      BY ONLY <3>2, <3>3, <3>5
  <2>4. Accounts(<<>>, list, {})
    BY DEF Accounts
  <2> QED
    BY <2>1, <2>2, <2>3, <2>4 DEF Between
<1>5. ASSUME NEW n \in Nat, n \in N PROVE n + 1 \in N
  <2> SUFFICES ASSUME n + 1 <= m PROVE Between(f[n + 1], list, Told(list, n + 1))
    OBVIOUS
  <2>1. PICK q, ps, A : q = f[n] /\ ps = list[n + 1] /\ A = Told(list, n)
    OBVIOUS
  <2>2. Between(q, list, A) /\ n + 1 \in 1 .. m /\ n + 1 \in 0 .. m /\ n + 1 # 0 /\ (n + 1) - 1 = n
    BY <1>1, <1>5, <2>1
  <2>3. f[n + 1] = pagestat_print(q, ps)
    BY <1>2, <2>1, <2>2 DEF EntryLoop
  <2>4. CASE ignored_ps(ps)
    <3>1. pagestat_print(q, ps) = q
      BY <2>4, Zenon DEF pagestat_print
    <3>2. {k \in Shown(list) : k <= n + 1} = {k \in Shown(list) : k <= n}
      BY <1>1, <2>1, <2>4 DEF Shown
    <3>3. Told(list, n + 1) = A
      BY <2>1, <3>2, Zenon DEF Told
    <3> QED
      BY <2>2, <2>3, <3>1, <3>3, Zenon
  <2>5. CASE ~ignored_ps(ps)
    <3>1. n + 1 \in Shown(list)
      BY <1>1, <2>1, <2>2, <2>5 DEF Shown
    <3>2. {k \in Shown(list) : k <= n + 1} = {k \in Shown(list) : k <= n} \cup {n + 1}
      BY <1>1, <3>1 DEF Shown
    <3>3. Told(list, n + 1) = A \cup Span(ps)
      BY <2>1, <3>2 DEF Told
    <3>4. WellFormed(ps)
      BY <1>0, <2>1, <2>2 DEF InOrderList
    <3>5. ASSUME NEW j \in {k \in Shown(list) : k <= n} PROVE Span(list[j]) \cap Span(ps) = {}
      <4>1. j \in 1 .. m /\ j < n + 1
        BY <1>1 DEF Shown
      <4>2. list[j].end <= ps.start
        BY <1>0, <2>1, <2>2, <4>1 DEF InOrderList
      <4>3. WellFormed(list[j])
        BY <1>0, <4>1 DEF InOrderList
      <4> QED
        BY <3>4, <4>2, <4>3 DEF Span, WellFormed
    <3>6. A \cap Span(ps) = {}
      BY <2>1, <3>5 DEF Told
    <3>7. Between(pagestat_print(q, ps), list, A \cup Span(ps))
      BY <2>1, <2>2, <3>1, <3>4, <3>6, PrintOne
    <3> QED
      BY <2>3, <3>3, <3>7, Zenon
  <2> QED
    BY <2>4, <2>5
<1> HIDE DEF N
<1>6. Nat \subseteq N
  BY <1>4, <1>5, Induction
<1>7. Between(f[m], list, Told(list, m))
  BY <1>1, <1>6 DEF N
<1> QED
  BY <1>0, <1>3, <1>7 DEF Between

-----------------------------------------------------------------------------
(* The list that is printed *)

LEMMA NextIs ==
  ASSUME world \in Worlds, NEW a \in Int, next_header(a) # NULL
  PROVE  \E c \in 1 .. Len(world) : next_header(a) = world[c] /\ world[c].end > a
<1>1. PICK m : m = {i \in DOMAIN world : world[i].end > a}
  OBVIOUS
<1>2. next_header(a) = IF m = {} THEN NULL ELSE world[CHOOSE i \in m : \A j \in m : i <= j]
  BY <1>1 DEF next_header
<1>3. m \in SUBSET Nat /\ m # {} /\ DOMAIN world = 1 .. Len(world)
  <2>1. m # {}
    BY <1>2, Zenon
  <2>2. DOMAIN world = 1 .. Len(world)
    BY WorldFacts
  <2> QED
    BY <1>1, <2>1, <2>2
<1>4. \E i \in m : \A j \in m : i <= j
  BY <1>3, Least
<1>5. PICK c : c = CHOOSE i \in m : \A j \in m : i <= j
  OBVIOUS
<1>6. c \in m
  BY <1>4, <1>5, Zenon
<1>7. next_header(a) = world[c]
  BY <1>2, <1>3, <1>5, Zenon
<1>8. c \in 1 .. Len(world) /\ world[c].end > a
  BY <1>1, <1>3, <1>6
<1> QED
  BY <1>7, <1>8

\* The reader does not go back behind the end of the mapping it has read.
LEMMA ConsumedPast ==
  ASSUME world \in Worlds, NEW c \in 1 .. Len(world)
  PROVE  consumed(world[c]) \in Int /\ consumed(world[c]) >= world[c].end
<1>1. PICK m, e, x : m = world[c] /\ e = m.end /\ x = next_header(e)
  OBVIOUS
<1>2. e \in Nat
  BY <1>1, MappingFacts
<1>3. consumed(m) = IF x = NULL THEN e ELSE x.start + 1
  BY <1>1 DEF consumed
<1>4. CASE x = NULL
  BY <1>1, <1>2, <1>3, <1>4
<1>5. CASE x # NULL
  <2>1. PICK d \in 1 .. Len(world) : x = world[d] /\ world[d].end > e
    BY <1>1, <1>2, <1>5, NextIs
  <2>2. x.start \in Nat /\ x.end \in Nat /\ Len(world) \in Nat /\ x.start < x.end
    BY <2>1, MappingFacts, WorldFacts
  <2>3. d # c
    BY <1>1, <1>2, <2>1
  <2>4. ~(d < c)
    <3> SUFFICES ASSUME d < c PROVE FALSE
      OBVIOUS
    <3>1. world[d].end < world[c].end
      BY InOrder
    <3> QED
      BY <1>1, <1>2, <2>1, <2>2, <3>1
  <2>5. c < d
    BY <2>2, <2>3, <2>4
  <2>6. e <= x.start
    BY <1>1, <2>1, <2>5, InOrder
  <2> QED
    BY <1>1, <1>2, <1>3, <1>5, <2>2, <2>6
<1> QED
  BY <1>4, <1>5

LEMMA AbsentIs == entry(Absent) \in Pages
<1>1. Absent \in Pages
  BY DEF Absent, Pages
<1> QED
  BY <1>1, EntryIs

\* What is read of a range, whatever is mapped there by then.
LEMMA ReadWell ==
  ASSUME world \in Worlds, NEW ps, ps \in Lists, ps.start < ps.end
  PROVE  LET g == get_pagetable_fields(ps)
         IN  g \in Lists /\ WellFormed(g) /\ g.start = ps.start /\ g.end = ps.end
<1> DEFINE page(a) == LET m == {j \in DOMAIN world : world[j].start <= a /\ a < world[j].end}
                      IN  IF m = {} THEN Absent
                          ELSE LET w == world[CHOOSE j \in m : TRUE] IN w.pages[a - w.start + 1]
<1>1. ASSUME NEW a \in Int PROVE entry(page(a)) \in Pages
  <2>1. PICK m : m = {j \in DOMAIN world : world[j].start <= a /\ a < world[j].end}
    OBVIOUS
  <2>2. CASE m = {}
    BY <2>1, <2>2, AbsentIs
  <2>3. CASE m # {}
    <3>1. PICK c : c = CHOOSE j \in m : TRUE
      OBVIOUS
    <3>2. c \in m
      BY <2>3, <3>1
    <3>3. c \in 1 .. Len(world) /\ world[c].start <= a /\ a < world[c].end
      BY <2>1, <3>2, WorldFacts
    <3>4. PICK w : w = world[c]
      OBVIOUS
    <3>5. /\ w.start \in Nat /\ w.end \in Nat /\ w.pages \in Seq(Pages)
          /\ Len(w.pages) = w.end - w.start
      BY <3>3, <3>4, MappingFacts
    <3>6. a - w.start + 1 \in 1 .. Len(w.pages)
      BY <3>3, <3>4, <3>5
    <3>7. w.pages[a - w.start + 1] \in Pages
      BY <3>5, <3>6
    <3>8. page(a) = w.pages[a - w.start + 1]
      BY <2>1, <2>3, <3>1, <3>4
    <3> QED
      BY <3>7, <3>8, EntryIs
  <2> QED
    BY <2>2, <2>3
<1> HIDE DEF page
<1>2. PICK n, s, e : n = count_virt_pages(ps) /\ s = ps.start /\ e = ps.end
  OBVIOUS
<1>3. n \in Nat /\ s \in Nat /\ e \in Nat /\ n = e - s /\ s < e
  BY <1>2 DEF count_virt_pages, Lists
<1>4. PICK read, r : read = [k \in 1 .. n |-> entry(page(s + k - 1))] /\ r = [ps EXCEPT !.pages = read]
  OBVIOUS
<1>5. \A k \in 1 .. n : s + k - 1 \in Int
  BY <1>3
<1>6. \A k \in 1 .. n : entry(page(s + k - 1)) \in Pages
  BY <1>1, <1>5
<1>7. read \in Seq(Pages) /\ Len(read) = n /\ DOMAIN read = 1 .. n
  BY <1>3, <1>4, <1>6
<1>8. get_pagetable_fields(ps) = tweak_counts(r)
  BY <1>2, <1>4 DEF get_pagetable_fields, page
<1>9. r \in Lists /\ r.start = s /\ r.end = e /\ r.pages = read
  BY <1>2, <1>4, <1>7 DEF Lists
<1>10. PICK c, g : c = Cardinality({j \in DOMAIN r.pages : has_pfn(r.pages[j])}) /\ g = tweak_counts(r)
  OBVIOUS
<1>11. c \in Nat
  <2>1. IsFiniteSet(1 .. n)
    BY <1>3, FS_Interval
  <2>2. {j \in DOMAIN r.pages : has_pfn(r.pages[j])} \subseteq 1 .. n
    BY <1>7, <1>9
  <2> QED
    BY <1>10, <2>1, <2>2, FS_Subset, FS_CardinalityType
<1>12. PICK b \in BOOLEAN : g = [r EXCEPT !.rss = c, !.rss_counted = b]
  BY <1>10, Zenon DEF tweak_counts
<1>13. g \in Lists /\ g.start = s /\ g.end = e /\ g.pages = read
  <2>1. PICK n1 \in STRING, a1 \in Int, r1 \in Int, f1 \in Int, c1 \in BOOLEAN :
          r = [start |-> s, end |-> e, name |-> n1, attr |-> a1, rss |-> r1, ref |-> f1,
               rss_counted |-> c1, pages |-> read]
    BY <1>9, Zenon DEF Lists
  <2>2. g = [start |-> s, end |-> e, name |-> n1, attr |-> a1, rss |-> c, ref |-> f1,
             rss_counted |-> b, pages |-> read]
    BY ONLY <1>12, <2>1
  <2> QED
    BY ONLY <1>3, <1>7, <1>11, <2>1, <2>2, b \in BOOLEAN DEF Lists
<1>14. WellFormed(g)
  BY <1>3, <1>7, <1>13 DEF WellFormed
<1> QED
  BY <1>2, <1>8, <1>10, <1>13, <1>14

\* The entries end below an address.
Below(list, a) == \A k \in 1 .. Len(list) : list[k].end <= a

LEMMA ListMore ==
  ASSUME NEW list, NEW g, NEW a \in Int, InOrderList(list), g \in Lists, WellFormed(g),
         Below(list, g.start), g.end <= a
  PROVE  InOrderList(Append(list, g)) /\ Below(Append(list, g), a)
<1>1. PICK l, n : l = Append(list, g) /\ n = Len(list)
  OBVIOUS
<1>2. /\ l \in Seq(Lists) /\ n \in Nat /\ Len(l) = n + 1 /\ DOMAIN l = 1 .. n + 1
      /\ l[n + 1] = g /\ \A k \in 1 .. n : l[k] = list[k]
  BY <1>1 DEF InOrderList
<1>3. g.start \in Nat /\ g.end \in Nat /\ g.start < g.end
  BY DEF WellFormed
<1>4. \A k \in 1 .. n : WellFormed(list[k]) /\ list[k].end <= g.start /\ list[k].end \in Nat
  BY <1>1 DEF InOrderList, Below, WellFormed
<1>5. \A k \in 1 .. n + 1 : k \in 1 .. n \/ k = n + 1
  BY <1>2
<1>6. \A k \in 1 .. n + 1 : WellFormed(l[k])
  BY <1>2, <1>4, <1>5
<1>7. ASSUME NEW j \in 1 .. n + 1, NEW k \in 1 .. n + 1, j < k PROVE l[j].end <= l[k].start
  <2>1. j \in 1 .. n
    BY <1>2, <1>7
  <2>2. CASE k = n + 1
    BY <1>2, <1>4, <2>1, <2>2
  <2>3. CASE k \in 1 .. n
    <3>1. list[j].end <= list[k].start
      BY <1>1, <1>7, <2>1, <2>3 DEF InOrderList
    <3> QED
      BY <1>2, <2>1, <2>3, <3>1
  <2> QED
    BY <1>5, <2>2, <2>3
<1>8. \A k \in 1 .. n + 1 : l[k].end <= a
  BY <1>2, <1>3, <1>4, <1>5
<1>9. InOrderList(l)
  BY <1>2, <1>6, <1>7 DEF InOrderList
<1>10. Below(l, a)
  BY <1>2, <1>8 DEF Below
<1> QED
  BY <1>1, <1>9, <1>10

\* pagestat-cmd.c up to its end: the list is in address order, and what is printed is
\* what printing it from the start prints.
PrintInv ==
  mode = "cmd" =>
    /\ pc \in {"open", "header", "pagemap", "use", "done"}
    /\ pc # "done" => printer = Fresh
    /\ fp \in Int
    /\ pc = "header" => InOrderList(pss_curr) /\ Below(pss_curr, fp)
    /\ pc = "pagemap" =>
         /\ InOrderList(pss_curr) /\ Below(pss_curr, cur.start)
         /\ cur \in Lists /\ cur.start < cur.end /\ cur.end <= fp
    /\ pc = "use" /\ pss_curr # NULL => InOrderList(pss_curr)
    /\ pc = "done" /\ pss_curr # NULL =>
         InOrderList(pss_curr) /\ printer = pagestat_print_all(Fresh, pss_curr)

LEMMA PrintInit == Init => PrintInv
BY DEF Init, PrintInv

LEMMA EmptyList == InOrderList(<<>>) /\ \A a : Below(<<>>, a)
BY DEF InOrderList, Below

LEMMA PrintHeader == ASSUME Kept, PrintInv, mode = "cmd", find_header PROVE PrintInv'
<1>1. PICK m, x, a : m = next_header(fp) /\ x = pss_curr /\ a = fp
  OBVIOUS
<1>2. /\ pc = "header" /\ m # NULL /\ UNCHANGED <<mode, pss_curr, printer>>
      /\ \/ fp' = m.end /\ pc' = "header"
         \/ ~(fp > m.start) /\ fp' = consumed(m) /\ cur' = new_pagestat(m) /\ pc' = "pagemap"
  BY <1>1 DEF find_header
<1>3. InOrderList(x) /\ Below(x, a) /\ a \in Int /\ printer = Fresh /\ world \in Worlds
  BY <1>1, <1>2 DEF PrintInv, Kept
<1>4. PICK c \in 1 .. Len(world) : m = world[c] /\ world[c].end > a
  BY <1>1, <1>2, <1>3, NextIs
<1>5. m \in Mappings /\ m.start \in Nat /\ m.end \in Nat /\ m.start < m.end /\ m.end > a
  BY <1>3, <1>4, MappingFacts
<1>6. \A k \in 1 .. Len(x) : x[k].end \in Nat /\ x[k].end <= a
  BY <1>3 DEF InOrderList, WellFormed, Below
<1>7. CASE fp' = m.end /\ pc' = "header"
  <2>1. Below(x, m.end)
    BY <1>3, <1>5, <1>6 DEF Below
  <2> QED
    BY <1>1, <1>2, <1>3, <1>5, <1>7, <2>1 DEF PrintInv
<1>8. CASE ~(fp > m.start) /\ fp' = consumed(m) /\ cur' = new_pagestat(m) /\ pc' = "pagemap"
  <2>1. Below(x, m.start)
    BY <1>1, <1>3, <1>5, <1>6, <1>8 DEF Below
  <2>2. cur' \in Lists /\ cur'.start = m.start /\ cur'.end = m.end
    BY <1>5, <1>8 DEF new_pagestat, header, other_fields, Lists, Mappings
  <2>3. fp' \in Int /\ fp' >= m.end
    BY <1>3, <1>4, <1>8, ConsumedPast
  <2>4. cur'.start < cur'.end /\ cur'.end <= fp'
    BY <1>5, <2>2, <2>3
  <2> QED
    BY <1>1, <1>2, <1>3, <1>8, <2>1, <2>2, <2>3, <2>4 DEF PrintInv
<1> QED
  BY <1>2, <1>7, <1>8

LEMMA PrintRead == ASSUME Kept, PrintInv, mode = "cmd", read_pagemap PROVE PrintInv'
<1>1. PICK g, x, a, l : g = get_pagetable_fields(cur) /\ x = pss_curr /\ a = fp /\ l = Append(x, g)
  OBVIOUS
<1>2. /\ pc = "pagemap" /\ UNCHANGED <<mode, fp, printer>>
      /\ \/ pc' = "use" /\ pss_curr' = x
         \/ pc' = "use" /\ pss_curr' = NULL
         \/ pc' = "header" /\ pss_curr' = l
  BY <1>1 DEF read_pagemap
<1>3. /\ InOrderList(x) /\ Below(x, cur.start) /\ cur \in Lists /\ cur.start < cur.end
      /\ cur.end <= a /\ a \in Int /\ printer = Fresh /\ world \in Worlds
  BY <1>1, <1>2 DEF PrintInv, Kept
<1>4. g \in Lists /\ WellFormed(g) /\ g.start = cur.start /\ g.end = cur.end
  BY <1>1, <1>3, ReadWell
<1>5. InOrderList(l) /\ Below(l, a)
  BY <1>1, <1>3, <1>4, ListMore
<1> QED
  BY <1>1, <1>2, <1>3, <1>5 DEF PrintInv

LEMMA PrintStep == Kept /\ PrintInv /\ [Next]_vars => PrintInv'
<1> SUFFICES ASSUME Kept, PrintInv, [Next]_vars PROVE PrintInv'
  OBVIOUS
<1>0. mode' = mode
  BY DEF Next, Tool, Finished, vars, open_smaps, find_header, read_pagemap, end_of_smaps, use, watch, change
<1> SUFFICES ASSUME mode = "cmd" PROVE PrintInv'
  BY <1>0 DEF PrintInv
<1>1. CASE open_smaps
  <2>1. /\ pc = "open" /\ pc' = "header" /\ pss_curr' = <<>> /\ fp' \in Int
        /\ UNCHANGED <<mode, printer>>
    BY <1>1 DEF open_smaps
  <2>2. InOrderList(pss_curr') /\ Below(pss_curr', fp')
    BY <2>1, EmptyList
  <2> QED
    BY <2>1, <2>2 DEF PrintInv
<1>2. CASE find_header
  BY <1>2, PrintHeader
<1>3. CASE read_pagemap
  BY <1>3, PrintRead
<1>4. CASE end_of_smaps
  BY <1>4 DEF end_of_smaps, PrintInv
<1>5. CASE use
  <2>1. /\ pc = "use" /\ pc' = "done" /\ UNCHANGED <<mode, pss_curr, fp>>
        /\ pss_curr # NULL => printer' = pagestat_print_all(printer, pss_curr)
    BY <1>5 DEF use
  <2> QED
    BY <2>1 DEF PrintInv
<1>6. CASE watch
  BY <1>6 DEF watch
<1>7. CASE change
  BY <1>7 DEF change, PrintInv
<1>8. CASE UNCHANGED vars
  BY <1>8 DEF vars, PrintInv
<1> QED
  BY <1>1, <1>2, <1>3, <1>4, <1>5, <1>6, <1>7, <1>8 DEF Next, Tool, Finished

LEMMA ImpliesPrinted == PrintInv => PrintedOnce
<1> SUFFICES ASSUME PrintInv, pc = "done", mode = "cmd", pss_curr # NULL PROVE PrintedOnce
  BY DEF PrintedOnce
<1> DEFINE list == pss_curr
           lines == printer.lines
           A == Told(list, Len(list))
<1>2. InOrderList(list) /\ Accounts(lines, list, A)
  BY PrintAll DEF PrintInv
<1> HIDE DEF list, lines, A
<1>3. lines \in Seq(Lines) /\ DOMAIN lines = 1 .. Len(lines)
  BY <1>2 DEF Accounts
<1>4. ASSUME NEW i \in Shown(list), NEW a \in list[i].start .. list[i].end - 1 PROVE a \in A
  <2>1. i \in 1 .. Len(list) /\ i <= Len(list)
    BY <1>2 DEF InOrderList, Shown
  <2>2. a \in Span(list[i])
    BY DEF Span
  <2> QED
    BY <2>1, <2>2 DEF Told, A
<1>5. \A k \in DOMAIN lines : \E i \in Shown(list) : LineTrue(lines, k, list[i])
  BY <1>2, <1>3, Zenon DEF Accounts
<1>6. \A a \in A : \E k \in DOMAIN lines : \A m \in DOMAIN lines : a \in Stands(lines[m]) <=> m = k
  <2>1. PICK z : z = 1 .. Len(lines)
    OBVIOUS
  <2>2. \A a \in A : \E k \in z : \A m \in z : a \in Stands(lines[m]) <=> m = k
    BY <1>2, <2>1, Zenon DEF Accounts
  <2>3. DOMAIN lines = z
    BY <1>3, <2>1
  <2> QED
    BY <2>2, <2>3, Zenon
<1>7. \A i \in Shown(list) : \A a \in list[i].start .. list[i].end - 1 :
        \E k \in DOMAIN lines : \A m \in DOMAIN lines : a \in Stands(lines[m]) <=> m = k
  BY <1>4, <1>6, Zenon
<1> QED
  BY <1>5, <1>7, Zenon DEF PrintedOnce, Shown, list, lines

\* pagestat.c:480-610: printed from a list that was read while the target changed, every
\* page of a mapping that is shown is on exactly one line, with its own frame and flags
\* or as a repetition of the page above it, for every target and every length of run.
THEOREM PrintsOnce == Spec => []PrintedOnce
<1>1. Spec => []Kept
  BY KeptInit, KeptStep, PTL DEF Spec
<1>2. Spec => []PrintInv
  BY <1>1, PrintInit, PrintStep, PTL DEF Spec
<1> QED
  BY <1>2, ImpliesPrinted, PTL
=============================================================================
