----------------------------- MODULE PageWorld ------------------------------
(***************************************************************************)
(* The kernel's pages as the page experiments use them (external): page    *)
(* frames, the page cache of each object (a file, a memfd, a shared        *)
(* anonymous mapping), and page tables, with faults, copy-on-write, fork,  *)
(* truncation and discarding.  A page holds two bytes: the experiments     *)
(* write to at most two places of one.                                     *)
(***************************************************************************)
EXTENDS Integers, Sequences, FiniteSets

CONSTANTS
  Procs,      \* the processes
  Mappings,   \* the names of the mappings (the pointer variables)
  Objects,    \* files, memfds and shared anonymous memory
  MaxPages    \* no mapping or object is longer

Pages == 0 .. MaxPages - 1
None == 0          \* no frame; -f is frame f swapped out
ZeroFrame == 1     \* the kernel's page of zeroes
PageOf(c) == [b \in 1 .. 2 |-> c]
Zero == PageOf("0")

NoMapping == [obj |-> "none", shared |-> FALSE, n |-> 0]

\* data[f]: the contents of frame f; anon: the frames that are anonymous copies;
\* dirty: the frames of the cache that differ from their file.
Fresh == [data |-> <<Zero>>, anon |-> {}, dirty |-> {},
          len |-> [o \in Objects |-> 1],
          cache |-> [o \in Objects |-> [i \in Pages |-> None]],
          map |-> [p \in Procs |-> [m \in Mappings |-> NoMapping]],
          pte |-> [p \in Procs |-> [m \in Mappings |-> [i \in Pages |-> None]]]]

Vma(w, p, m) == w.map[p][m]
Pte(w, p, m, i) == w.pte[p][m][i]
Mapcount(w, f) ==
  Cardinality({a \in Procs \X Mappings \X Pages : Pte(w, a[1], a[2], a[3]) = f})
Sharers(w, f) == {a \in Procs \X Mappings \X Pages : Pte(w, a[1], a[2], a[3]) \in {f, -f}}

\* The page of an object, brought into the cache when it is not there.
Cached(w, o, i) ==
  IF o = "anon" \/ w.cache[o][i] # None THEN w
  ELSE [w EXCEPT !.data = Append(@, Zero), !.cache[o][i] = Len(w.data) + 1]
CacheFrame(w, o, i) == IF o = "anon" THEN ZeroFrame ELSE w.cache[o][i]

\* An access to a page that is not mapped, or past the end of its object, is a signal.
Accessible(w, p, m, i) ==
  /\ i < Vma(w, p, m).n
  /\ Vma(w, p, m).obj # "anon" => i < w.len[Vma(w, p, m).obj]

ReadFault(w, p, m, i) ==
  LET c == Cached(w, Vma(w, p, m).obj, i)
  IN  CASE Pte(w, p, m, i) > 0 -> w
        [] Pte(w, p, m, i) < 0 -> [w EXCEPT !.pte[p][m][i] = -@]
        [] OTHER -> [c EXCEPT !.pte[p][m][i] = CacheFrame(c, Vma(w, p, m).obj, i)]

\* A private page is copied unless it is already a copy that nobody else maps or
\* has swapped out.
WriteFault(w, p, m, i) ==
  LET r == ReadFault(w, p, m, i)
      f == Pte(r, p, m, i)
  IN  CASE Vma(w, p, m).shared -> [r EXCEPT !.dirty = @ \cup {f}]
        [] ~Vma(w, p, m).shared /\ f \in r.anon /\ Sharers(r, f) = {<<p, m, i>>} -> r
        [] OTHER -> [r EXCEPT !.data = Append(@, @[f]), !.anon = @ \cup {Len(r.data) + 1},
                              !.pte[p][m][i] = Len(r.data) + 1]

\* A store of c to byte b \in {1, 2} of a page.
Store(w, p, m, i, b, c) ==
  LET f == WriteFault(w, p, m, i) IN [f EXCEPT !.data[Pte(f, p, m, i)][b] = c]

Load(w, p, m, i) == LET r == ReadFault(w, p, m, i) IN r.data[Pte(r, p, m, i)]

NoPages == [i \in Pages |-> None]

Mmap(w, p, m, o, shared, n) ==
  [w EXCEPT !.map[p][m] = [obj |-> o, shared |-> shared, n |-> n], !.pte[p][m] = NoPages]
Munmap(w, p, m) == [w EXCEPT !.map[p][m] = NoMapping, !.pte[p][m] = NoPages]
Dontneed(w, p, m) == [w EXCEPT !.pte[p][m] = NoPages]

\* fork() copies the page tables of the mappings that hold private copies, swapped
\* out or not; the others are faulted in again.
Forked(w, p, q) ==
  [w EXCEPT !.map[q] = w.map[p],
            !.pte[q] = [m \in Mappings |->
               IF \E i \in Pages : {Pte(w, p, m, i), -Pte(w, p, m, i)} \cap w.anon # {}
               THEN w.pte[p][m] ELSE NoPages]]

Exited(w, p) == [w EXCEPT !.map[p] = Fresh.map[p], !.pte[p] = Fresh.pte[p]]

\* Truncation takes the pages past the end from the cache and from every mapping
\* of the object, private copies included.
Truncate(w, o, n) ==
  [w EXCEPT !.len[o] = n,
            !.cache[o] = [i \in Pages |-> IF i >= n THEN None ELSE @[i]],
            !.pte = [p \in Procs |-> [m \in Mappings |-> [i \in Pages |->
               IF i >= n /\ Vma(w, p, m).obj = o THEN None ELSE @[p][m][i]]]]]

\* The kernel reclaims a frame: a page of the cache is unmapped everywhere and an
\* anonymous page is swapped out.
Reclaim(w, f) ==
  [w EXCEPT !.pte = [p \in Procs |-> [m \in Mappings |-> [i \in Pages |->
     IF @[p][m][i] # f THEN @[p][m][i] ELSE IF f \in w.anon THEN -f ELSE None]]]]

\* pwrite() of c over the first n pages: a new frame is at hand for each, and used
\* for those that are not in the cache.
Pwrite(w, o, c, n) ==
  LET frame == [i \in 0 .. n - 1 |-> IF w.cache[o][i] = None THEN Len(w.data) + i + 1 ELSE w.cache[o][i]]
      written == {frame[i] : i \in 0 .. n - 1}
  IN  [w EXCEPT !.data = [f \in 1 .. Len(w.data) + n |->
                            IF f \in written \/ f > Len(w.data) THEN PageOf(c) ELSE w.data[f]],
                !.cache[o] = [i \in Pages |-> IF i < n THEN frame[i] ELSE w.cache[o][i]],
                !.dirty = @ \cup written]
=============================================================================
