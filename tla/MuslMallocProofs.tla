-------------------------- MODULE MuslMallocProofs --------------------------
(***************************************************************************)
(* Proofs about MuslMalloc, for every set of requests, every bound and     *)
(* every placement of the heap and of the mappings.                        *)
(***************************************************************************)
EXTENDS MuslMalloc, InductionProofs, NaturalsInduction

-----------------------------------------------------------------------------
(* What the search of musl_malloc() relies on: every chunk kept in a bin at  *)
(* or above bin_index_up(n) is at least n bytes long.  Proved for every      *)
(* chunk size, from the table bin_tab[] of musl/oldmalloc.c.                 *)

\* A chunk size: at least one unit of SIZE_ALIGN bytes, and a multiple of it.
ChunkSize(s) == s \in Nat /\ s >= SIZE_ALIGN /\ s % SIZE_ALIGN = 0

\* The value that bin_index() and bin_index_up() start from.
Units(s) == (s \div SIZE_ALIGN) - 1

\* The table has sixty entries between 32 and 47.
LEMMA TabType == \A a \in 1..60 : bin_tab[a] \in 32..47
  BY SMTT(60) DEF bin_tab

\* The table never decreases.
LEMMA TabMonotonic == \A a, b \in 1..60 : a <= b => bin_tab[a] <= bin_tab[b]
  BY SMTT(60) DEF bin_tab

\* The table reaches 47 only at the entry for the largest bin.
LEMMA TabTop == \A a \in 1..52 : bin_tab[a] <= 46
  BY SMTT(60) DEF bin_tab

\* The number of units determines the size.
LEMMA UnitsType ==
  ASSUME NEW s, ChunkSize(s)
  PROVE  Units(s) \in Nat /\ s = 32 * (Units(s) + 1)
  BY DEF ChunkSize, Units, SIZE_ALIGN

\* bin_index() and bin_index_up() as functions of the number of units.
LEMMA IndexOfUnits ==
  ASSUME NEW s, ChunkSize(s)
  PROVE  /\ Units(s) <= 32 => bin_index(s) = Units(s)
         /\ Units(s) > 32 /\ Units(s) < 512
              => bin_index(s) = bin_tab[(Units(s) \div 8) - 3]
         /\ Units(s) > 7168 => bin_index(s) = 63
         /\ Units(s) >= 512 /\ Units(s) <= 7168
              => bin_index(s) = bin_tab[(Units(s) \div 128) - 3] + 16
         /\ Units(s) <= 32 => bin_index_up(s) = Units(s)
         /\ Units(s) > 32 /\ Units(s) <= 512
              => bin_index_up(s) = bin_tab[((Units(s) - 1) \div 8) - 3] + 1
         /\ Units(s) > 512
              => bin_index_up(s) = bin_tab[((Units(s) - 1) \div 128) - 3] + 17
  <1> DEFINE x == Units(s)
  <1>0. x \in Nat
    BY UnitsType
  <1>1. (x \div 8) - 4 + 1 = (x \div 8) - 3 /\ (x \div 128) - 4 + 1 = (x \div 128) - 3
    BY <1>0
  <1>2. ((x - 1) \div 8) - 4 + 1 = ((x - 1) \div 8) - 3
        /\ ((x - 1) \div 128) - 4 + 1 = ((x - 1) \div 128) - 3
    BY <1>0
  <1>3. bin_index(s) = IF x <= 32 THEN x
                       ELSE IF x < 512 THEN bin_tab[(x \div 8) - 4 + 1]
                       ELSE IF x > 7168 THEN 63
                       ELSE bin_tab[(x \div 128) - 4 + 1] + 16
    BY DEF bin_index, Units
  <1>4. bin_index_up(s) = IF x <= 32 THEN x
                          ELSE IF x - 1 < 512 THEN bin_tab[((x - 1) \div 8) - 4 + 1] + 1
                          ELSE bin_tab[((x - 1) \div 128) - 4 + 1] + 17
    BY DEF bin_index_up, Units
  <1> HIDE DEF x
  <1>5. QED
    BY <1>0, <1>1, <1>2, <1>3, <1>4 DEF x

\* Every chunk has a bin.
LEMMA BinIndexType ==
  ASSUME NEW s, ChunkSize(s)
  PROVE  bin_index(s) \in Bins
  <1> DEFINE x == Units(s)
  <1>0. x \in Nat
    BY UnitsType
  <1> HIDE DEF x
  <1>1. CASE x <= 32
    BY <1>0, <1>1, IndexOfUnits DEF x, Bins
  <1>2. CASE x > 32 /\ x < 512
    <2>1. (x \div 8) - 3 \in 1..60
      BY <1>0, <1>2
    <2>2. bin_tab[(x \div 8) - 3] \in 32..47
      BY <2>1, TabType
    <2>3. QED
      BY <1>2, <2>2, IndexOfUnits DEF x, Bins
  <1>3. CASE x > 7168
    BY <1>0, <1>3, IndexOfUnits DEF x, Bins
  <1>4. CASE x >= 512 /\ x <= 7168
    <2>1. (x \div 128) - 3 \in 1..60
      BY <1>0, <1>4
    <2>2. bin_tab[(x \div 128) - 3] \in 32..47
      BY <2>1, TabType
    <2>3. QED
      BY <1>4, <2>2, IndexOfUnits DEF x, Bins
  <1>5. QED
    BY <1>0, <1>1, <1>2, <1>3, <1>4

\* A request that is not mapped starts its search in one of the 64 bins, so
\* mask_high_bits() never shifts by 64.
THEOREM BinIndexUpType ==
  ASSUME NEW n, ChunkSize(n), n <= MMAP_THRESHOLD
  PROVE  bin_index_up(n) \in Bins
  <1> DEFINE x == Units(n)
  <1>0. x \in Nat /\ x < 7168
    BY UnitsType DEF MMAP_THRESHOLD, SIZE_ALIGN, ChunkSize
  <1> HIDE DEF x
  <1>1. CASE x <= 32
    BY <1>0, <1>1, IndexOfUnits DEF x, Bins
  <1>2. CASE x > 32 /\ x <= 512
    <2>1. ((x - 1) \div 8) - 3 \in 1..60
      BY <1>0, <1>2
    <2>2. bin_tab[((x - 1) \div 8) - 3] \in 32..47
      BY <2>1, TabType
    <2>3. QED
      BY <1>2, <2>2, IndexOfUnits DEF x, Bins
  <1>3. CASE x > 512
    <2>1. ((x - 1) \div 128) - 3 \in 1..52
      BY <1>0, <1>3
    <2>2. bin_tab[((x - 1) \div 128) - 3] \in 32..46
      BY <2>1, TabType, TabTop
    <2>3. QED
      BY <1>3, <2>2, IndexOfUnits DEF x, Bins
  <1>4. QED
    BY <1>0, <1>1, <1>2, <1>3

\* A chunk from a bin at or above bin_index_up(n) has room for n bytes: the
\* search of musl_malloc() never compares sizes before it takes a chunk.
THEOREM BinFits ==
  ASSUME NEW s, ChunkSize(s), NEW n, ChunkSize(n), n <= MMAP_THRESHOLD,
         bin_index_up(n) <= bin_index(s)
  PROVE  n <= s
  <1> DEFINE x == Units(s)
             y == Units(n)
  <1>0. x \in Nat /\ y \in Nat /\ y < 7168 /\ s = 32 * (x + 1) /\ n = 32 * (y + 1)
    BY UnitsType DEF MMAP_THRESHOLD, SIZE_ALIGN, ChunkSize
  <1>1. SUFFICES ASSUME x < y PROVE FALSE
    BY <1>0
  <1>2. bin_index(s) \in Bins /\ bin_index_up(n) \in Bins
    BY BinIndexType, BinIndexUpType
  <1> HIDE DEF x, y
  <1>3. CASE y <= 32
    BY <1>0, <1>1, <1>3, IndexOfUnits DEF x, y
  <1>4. CASE y > 32 /\ y <= 512
    <2> DEFINE q == ((y - 1) \div 8) - 3
    <2>1. q \in 1..60
      BY <1>0, <1>4
    <2>2. bin_index_up(n) = bin_tab[q] + 1 /\ bin_tab[q] \in 32..47
      BY <2>1, <1>4, TabType, IndexOfUnits DEF y
    <2>3. CASE x <= 32
      BY <1>0, <1>2, <2>2, <2>3, IndexOfUnits DEF x
    <2>4. CASE x > 32
      <3>1. (x \div 8) - 3 \in 1..60 /\ (x \div 8) - 3 <= q
        BY <1>0, <1>1, <1>4, <2>4
      <3>2. bin_tab[(x \div 8) - 3] <= bin_tab[q]
        BY <3>1, <2>1, TabMonotonic
      <3>3. bin_index(s) = bin_tab[(x \div 8) - 3]
        BY <1>0, <1>1, <1>4, <2>4, IndexOfUnits DEF x
      <3>4. bin_tab[(x \div 8) - 3] \in 32..47
        BY <3>1, TabType
      <3>5. QED
        BY <2>2, <3>2, <3>3, <3>4
    <2>5. QED
      BY <1>0, <2>3, <2>4
  <1>5. CASE y > 512
    <2> DEFINE q == ((y - 1) \div 128) - 3
    <2>1. q \in 1..52
      BY <1>0, <1>5
    <2>2. bin_index_up(n) = bin_tab[q] + 17 /\ bin_tab[q] \in 32..47
      BY <2>1, <1>5, TabType, IndexOfUnits DEF y
    <2>3. CASE x < 512
      <3>1. CASE x <= 32
        BY <1>0, <2>2, <3>1, IndexOfUnits DEF x
      <3>2. CASE x > 32
        <4>1. (x \div 8) - 3 \in 1..60
          BY <1>0, <2>3, <3>2
        <4>2. bin_index(s) \in 32..47
          BY <4>1, <2>3, <3>2, TabType, IndexOfUnits DEF x
        <4>3. QED
          BY <2>2, <4>2
      <3>3. QED
        BY <1>0, <3>1, <3>2
    <2>4. CASE x >= 512
      <3>1. (x \div 128) - 3 \in 1..60 /\ (x \div 128) - 3 <= q
        BY <1>0, <1>1, <1>5, <2>4
      <3>2. bin_tab[(x \div 128) - 3] <= bin_tab[q]
        <4> DEFINE p == (x \div 128) - 3
        <4>1. p \in 1..60 /\ q \in 1..60 /\ p <= q
          BY <3>1, <2>1
        <4> HIDE DEF p, q
        <4>2. bin_tab[p] <= bin_tab[q]
          BY <4>1, TabMonotonic
        <4>3. QED
          BY <4>2 DEF p
      <3>3. bin_index(s) = bin_tab[(x \div 128) - 3] + 16
        BY <1>0, <1>1, <2>4, IndexOfUnits DEF x
      <3>4. bin_tab[(x \div 128) - 3] \in 32..47
        BY <3>1, TabType
      <3>5. QED
        BY <2>2, <3>2, <3>3, <3>4
    <2>5. QED
      BY <1>0, <2>3, <2>4
  <1>6. QED
    BY <1>0, <1>3, <1>4, <1>5

-----------------------------------------------------------------------------
(* Lists *)

\* What RemoveAt of SequencesExt returns.
LEMMA RemoveAtFacts ==
  ASSUME NEW S, NEW s \in Seq(S), NEW k \in 1..Len(s)
  PROVE  /\ RemoveAt(s, k) \in Seq(S)
         /\ Len(RemoveAt(s, k)) = Len(s) - 1
         /\ \A j \in 1..(Len(s) - 1) :
              RemoveAt(s, k)[j] = IF j < k THEN s[j] ELSE s[j + 1]
  <1> DEFINE u == SubSeq(s, 1, k - 1)
             v == SubSeq(s, k + 1, Len(s))
  <1>1. u \in Seq(S) /\ Len(u) = k - 1 /\ \A j \in 1..(k - 1) : u[j] = s[j]
    OBVIOUS
  <1>2. v \in Seq(S) /\ Len(v) = Len(s) - k /\ \A j \in 1..(Len(s) - k) : v[j] = s[k + j]
    OBVIOUS
  <1> HIDE DEF u, v
  <1>3. u \o v \in Seq(S) /\ Len(u \o v) = Len(s) - 1
    BY <1>1, <1>2
  <1>4. ASSUME NEW j \in 1..(Len(s) - 1)
        PROVE  (u \o v)[j] = IF j < k THEN s[j] ELSE s[j + 1]
    <2>1. CASE j < k
      BY <1>1, <1>2, <2>1
    <2>2. CASE ~(j < k)
      <3>1. (u \o v)[j] = v[j - (k - 1)] /\ j - (k - 1) \in 1..(Len(s) - k)
        BY <1>1, <1>2, <2>2
      <3>2. QED
        BY <1>2, <3>1, <2>2
    <2>3. QED
      BY <2>1, <2>2
  <1>5. QED
    BY <1>3, <1>4 DEF RemoveAt, u, v

\* Unlink takes exactly one element out of a list without repetitions.
LEMMA UnlinkFacts ==
  ASSUME NEW S, NEW s \in Seq(S), NEW c, IsInjective(s)
  PROVE  /\ Unlink(s, c) \in Seq(S)
         /\ IsInjective(Unlink(s, c))
         /\ Range(Unlink(s, c)) = Range(s) \ {c}
         /\ Unlink(s, c) = <<>> <=> s = <<>> \/ s = <<c>>
  <1>1. CASE ~ \E k \in DOMAIN s : s[k] = c
    BY <1>1 DEF Unlink, Range
  <1>2. CASE \E k \in DOMAIN s : s[k] = c
    <2> DEFINE k == CHOOSE k \in DOMAIN s : s[k] = c
               t == RemoveAt(s, k)
    <2>1. k \in 1..Len(s) /\ s[k] = c
      BY <1>2
    <2>2. Unlink(s, c) = t
      BY <1>2 DEF Unlink
    <2> HIDE DEF k
    <2>3. /\ t \in Seq(S)
          /\ Len(t) = Len(s) - 1
          /\ \A j \in 1..(Len(s) - 1) : t[j] = IF j < k THEN s[j] ELSE s[j + 1]
      BY <2>1, RemoveAtFacts
    <2> HIDE DEF t
    <2>4. IsInjective(t)
      <3> SUFFICES ASSUME NEW i \in 1..(Len(s) - 1), NEW j \in 1..(Len(s) - 1), t[i] = t[j]
                   PROVE  i = j
        BY <2>3 DEF IsInjective
      <3>1. \A a, b \in 1..Len(s) : s[a] = s[b] => a = b
        BY DEF IsInjective
      <3>2. (IF i < k THEN i ELSE i + 1) = (IF j < k THEN j ELSE j + 1)
        BY <2>1, <2>3, <3>1
      <3>3. QED
        BY <2>1, <3>2
    <2>5. Range(t) = Range(s) \ {c}
      <3>1. ASSUME NEW x \in Range(t) PROVE x \in Range(s) \ {c}
        BY <2>1, <2>3, <3>1 DEF Range, IsInjective
      <3>2. ASSUME NEW x \in Range(s) \ {c} PROVE x \in Range(t)
        <4>1. PICK j \in 1..Len(s) : s[j] = x
          BY <3>2 DEF Range
        <4>2. j # k
          BY <2>1, <3>2, <4>1
        <4>3. CASE j < k
          <5>1. j \in 1..(Len(s) - 1) /\ t[j] = x
            BY <2>1, <2>3, <4>1, <4>3
          <5>2. QED
            BY <5>1, <2>3 DEF Range
        <4>4. CASE j > k
          <5>1. j - 1 \in 1..(Len(s) - 1) /\ t[j - 1] = x
            BY <2>1, <2>3, <4>1, <4>4
          <5>2. QED
            BY <5>1, <2>3 DEF Range
        <4>5. QED
          BY <2>1, <4>1, <4>2, <4>3, <4>4
      <3>3. QED
        BY <3>1, <3>2
    <2>6. t = <<>> <=> s = <<c>>
      BY <2>1, <2>3
    <2>7. s # <<>>
      BY <2>1
    <2>8. QED
      BY <2>2, <2>3, <2>4, <2>5, <2>6, <2>7
  <1>3. QED
    BY <1>1, <1>2

\* Append adds one element at the end.
LEMMA AppendFacts ==
  ASSUME NEW S, NEW s \in Seq(S), NEW c \in S, IsInjective(s), c \notin Range(s)
  PROVE  /\ Append(s, c) \in Seq(S)
         /\ IsInjective(Append(s, c))
         /\ Range(Append(s, c)) = Range(s) \cup {c}
         /\ Append(s, c) # <<>>
  <1> DEFINE t == Append(s, c)
  <1>1. /\ t \in Seq(S) /\ Len(t) = Len(s) + 1 /\ t[Len(s) + 1] = c
        /\ \A j \in 1..Len(s) : t[j] = s[j]
    OBVIOUS
  <1> HIDE DEF t
  <1>2. IsInjective(t)
    BY <1>1 DEF IsInjective, Range
  <1>3. Range(t) = Range(s) \cup {c}
    <2>1. ASSUME NEW x \in Range(t) PROVE x \in Range(s) \cup {c}
      BY <1>1, <2>1 DEF Range
    <2>2. ASSUME NEW x \in Range(s) \cup {c} PROVE x \in Range(t)
      BY <1>1, <2>2 DEF Range
    <2>3. QED
      BY <2>1, <2>2
  <1>4. t # <<>>
    BY <1>1
  <1>5. QED
    BY <1>1, <1>2, <1>3, <1>4 DEF t

-----------------------------------------------------------------------------
(* Well-formed heaps.  The parts of the invariant are stated of any heap hp, *)
(* because musl_malloc() and musl_free() go through several heaps in a call: *)
(* s is the first chunk, f the footer, X the chunks whose successor has an   *)
(* outdated psize word, Y the free chunks that are not in their bin yet.     *)

Hdrs(hp) == DOMAIN hp.csize

HeapType(hp) ==
  hp \in [psize : [DOMAIN hp.csize -> Nat], csize : [DOMAIN hp.csize -> Nat],
         pused : SUBSET DOMAIN hp.csize, cused : SUBSET DOMAIN hp.csize,
         bins : [Bins -> Seq(DOMAIN hp.csize)], binmap : SUBSET Bins,
         free_bytes : Int]

Tiled(hp, s, f) ==
  /\ s \in Hdrs(hp) /\ f \in Hdrs(hp) /\ hp.csize[f] = 0
  /\ s \in Nat /\ f \in Nat /\ s < f
  /\ \A a \in Hdrs(hp) \ {f} :
       /\ a \in Nat /\ s <= a /\ a < f
       /\ ChunkSize(hp.csize[a])
       /\ a + hp.csize[a] \in Hdrs(hp)
       /\ \A b \in Hdrs(hp) : b <= a \/ a + hp.csize[a] <= b
  /\ \A b \in Hdrs(hp) \ {s} : \E a \in Hdrs(hp) \ {f} : a + hp.csize[a] = b

Tagged(hp, s, f, X) ==
  /\ s \in hp.pused /\ f \in hp.cused
  /\ \A a \in Hdrs(hp) \ {f} :
       /\ a \notin X => hp.psize[a + hp.csize[a]] = hp.csize[a]
       /\ a + hp.csize[a] \in hp.pused <=> a \in hp.cused

Coal(hp, f) ==
  \A a \in Hdrs(hp) \ {f} : a \notin hp.cused => a + hp.csize[a] \in hp.cused

Binned(hp, f, Y) ==
  /\ hp.binmap = {i \in Bins : hp.bins[i] # <<>>}
  /\ \A i \in Bins :
       /\ IsInjective(hp.bins[i])
       /\ Range(hp.bins[i]) =
            {a \in (Hdrs(hp) \ {f}) \ (hp.cused \cup Y) : bin_index(hp.csize[a]) = i}

\* stats.free_bytes is the sum of the sizes of the free chunks.
Frees(hp, f) == (Hdrs(hp) \ {f}) \ hp.cused

Counted(hp, f) == hp.free_bytes = Total(hp.csize, Frees(hp, f))

WF(hp, s, f, X) ==
  /\ HeapType(hp) /\ Tiled(hp, s, f) /\ Tagged(hp, s, f, X) /\ Coal(hp, f)
  /\ Binned(hp, f, {}) /\ Counted(hp, f)

\* There are finitely many chunks, and each has a size.
LEMMA FreesFinite ==
  ASSUME NEW hp, NEW s, NEW f, HeapType(hp), Tiled(hp, s, f)
  PROVE  /\ IsFiniteSet(Hdrs(hp)) /\ IsFiniteSet(Frees(hp, f))
         /\ \A a \in Hdrs(hp) : hp.csize[a] \in Int
  <1>1. Hdrs(hp) \in SUBSET Nat /\ f \in Nat /\ \A a \in Hdrs(hp) : a <= f
    <2>1. f \in Nat /\ \A a \in Hdrs(hp) \ {f} : a \in Nat /\ a < f
      BY Zenon DEF Tiled
    <2>2. ASSUME NEW a \in Hdrs(hp) PROVE a \in Nat /\ a <= f
      <3>1. CASE a = f
        BY <2>1, <3>1
      <3>2. CASE a # f
        BY <2>1, <3>2
      <3>3. QED
        BY <3>1, <3>2
    <2>3. QED
      BY <2>1, <2>2
  <1>2. IsFiniteSet(Hdrs(hp))
    BY <1>1, FS_BoundedSetOfNaturals
  <1>3. Frees(hp, f) \in SUBSET Hdrs(hp)
    BY DEF Frees
  <1>4. IsFiniteSet(Frees(hp, f))
    BY <1>2, <1>3, FS_Subset
  <1>5. \A a \in Hdrs(hp) : hp.csize[a] \in Int
    BY DEF HeapType, Hdrs
  <1>6. QED
    BY <1>2, <1>4, <1>5

\* The count after a change that leaves the free chunks alone.
LEMMA CountSame ==
  ASSUME NEW hp, NEW s, NEW f, HeapType(hp), Tiled(hp, s, f), Counted(hp, f),
         NEW g, NEW e, Frees(g, e) = Frees(hp, f), g.free_bytes = hp.free_bytes,
         \A a \in Frees(hp, f) : g.csize[a] = hp.csize[a]
  PROVE  Counted(g, e)
  <1>1. IsFiniteSet(Frees(hp, f))
    BY FreesFinite
  <1>2. Total(hp.csize, Frees(hp, f)) = Total(g.csize, Frees(hp, f))
    BY <1>1, TotalSame
  <1>3. QED
    BY <1>2 DEF Counted

\* The count after a free chunk was taken.
LEMMA CountLess ==
  ASSUME NEW hp, NEW s, NEW f, HeapType(hp), Tiled(hp, s, f), Counted(hp, f),
         NEW g, NEW c \in Frees(hp, f), Frees(g, f) = Frees(hp, f) \ {c},
         g.csize = hp.csize, g.free_bytes = hp.free_bytes - hp.csize[c]
  PROVE  Counted(g, f)
  <1>1. IsFiniteSet(Frees(hp, f)) /\ \A a \in Frees(hp, f) : hp.csize[a] \in Int
    BY FreesFinite DEF Frees
  <1>2. Total(hp.csize, Frees(hp, f) \ {c}) = Total(hp.csize, Frees(hp, f)) - hp.csize[c]
    <2>1. PICK S, z : S = Frees(hp, f) /\ z = hp.csize
      OBVIOUS
    <2>2. IsFiniteSet(S) /\ IsFiniteSet(S \ {c}) /\ c \in S /\ \A y \in S : z[y] \in Int
      BY <1>1, <2>1, FS_RemoveElement
    <2>3. Total(z, S) = z[c] + Total(z, S \ {c}) /\ Total(z, S \ {c}) \in Int
      BY <2>2, TotalRemove, TotalType
    <2>4. Total(z, S \ {c}) = Total(z, S) - z[c]
      BY <2>2, <2>3
    <2>5. QED
      BY <2>1, <2>4
  <1>3. QED
    BY <1>2 DEF Counted

\* The count after a chunk became free.
LEMMA CountMore ==
  ASSUME NEW hp, NEW s, NEW f, HeapType(hp), Tiled(hp, s, f), Counted(hp, f),
         NEW g, NEW c, c \notin Frees(hp, f), Frees(g, f) = Frees(hp, f) \cup {c},
         \A a \in Frees(hp, f) : g.csize[a] = hp.csize[a],
         g.csize[c] \in Int, g.free_bytes = hp.free_bytes + g.csize[c]
  PROVE  Counted(g, f)
  <1>1. IsFiniteSet(Frees(hp, f)) /\ \A a \in Frees(hp, f) : hp.csize[a] \in Int
    BY FreesFinite DEF Frees
  <1>2. Total(g.csize, Frees(hp, f) \cup {c}) = Total(hp.csize, Frees(hp, f)) + g.csize[c]
    <2>1. PICK S, z, w : S = Frees(hp, f) /\ z = hp.csize /\ w = g.csize
      OBVIOUS
    <2>2. IsFiniteSet(S) /\ c \notin S /\ w[c] \in Int /\ Ints(z, S) /\ Agree(z, w, S)
      BY <1>1, <2>1 DEF Ints, Agree
    <2>3. Total(w, S \cup {c}) = Total(z, S) + w[c]
      BY <2>2, TotalMore
    <2>4. QED
      BY <2>1, <2>3
  <1>3. QED
    BY <1>2 DEF Counted

\* No two chunks have the same successor.
LEMMA OnePredecessor ==
  ASSUME NEW hp, NEW s, NEW f, Tiled(hp, s, f), NEW c \in Hdrs(hp) \ {f}
  PROVE  \A a \in Hdrs(hp) \ {f} : a + hp.csize[a] = c + hp.csize[c] => a = c
  <1> SUFFICES ASSUME NEW a \in Hdrs(hp) \ {f}, a + hp.csize[a] = c + hp.csize[c]
               PROVE  a = c
    OBVIOUS
  <1>1. /\ a \in Nat /\ c \in Nat /\ ChunkSize(hp.csize[a]) /\ ChunkSize(hp.csize[c])
        /\ c <= a \/ a + hp.csize[a] <= c
        /\ a <= c \/ c + hp.csize[c] <= a
    BY DEF Tiled
  <1>2. QED
    BY <1>1 DEF ChunkSize, SIZE_ALIGN

\* A chunk taken out of its bin is in use, and the heap is well formed again.
LEMMA UnbinWF ==
  ASSUME NEW hp, NEW s, NEW f, NEW X, WF(hp, s, f, X),
         NEW c \in Hdrs(hp) \ {f}, c \notin hp.cused
  PROVE  LET g == unbin(hp, c, bin_index(hp.csize[c]))
         IN  /\ WF(g, s, f, X)
             /\ g.csize = hp.csize /\ g.psize = hp.psize
             /\ g.cused = hp.cused \cup {c}
             /\ g.pused = hp.pused \cup {c + hp.csize[c]}
  <1> DEFINE g == unbin(hp, c, bin_index(hp.csize[c]))
             i == bin_index(hp.csize[c])
  <1>0. HeapType(hp) /\ Tiled(hp, s, f) /\ Tagged(hp, s, f, X) /\ Coal(hp, f) /\ Binned(hp, f, {})
        /\ Counted(hp, f)
    BY DEF WF
  <1>1. ChunkSize(hp.csize[c]) /\ i \in Bins
    BY <1>0, BinIndexType DEF Tiled
  <1> DEFINE bm == IF \E k \in Bins : hp.bins[k] = <<c>> THEN hp.binmap \ {i} ELSE hp.binmap
             bs == [k \in Bins |-> Unlink(hp.bins[k], c)]
             cu == hp.cused \cup {c}
             pu == hp.pused \cup {c + hp.csize[c]}
             fb == hp.free_bytes - hp.csize[c]
  <1>a. g = [hp EXCEPT !.binmap = bm, !.bins = bs, !.cused = cu, !.pused = pu, !.free_bytes = fb]
    BY DEF unbin, NEXT_CHUNK
  <1> HIDE DEF bm, bs, cu, pu, fb, g, i
  <1>b. /\ g.csize = hp.csize /\ g.psize = hp.psize /\ g.cused = cu /\ g.pused = pu
        /\ g.bins = bs /\ g.binmap = bm /\ g.free_bytes = fb
    BY <1>0, <1>a DEF HeapType
  <1>2. /\ g.csize = hp.csize /\ g.psize = hp.psize
        /\ g.cused = hp.cused \cup {c}
        /\ g.pused = hp.pused \cup {c + hp.csize[c]}
        /\ g.bins = [k \in Bins |-> Unlink(hp.bins[k], c)]
        /\ g.binmap = IF \E k \in Bins : hp.bins[k] = <<c>> THEN hp.binmap \ {i} ELSE hp.binmap
        /\ g.free_bytes = hp.free_bytes - hp.csize[c]
    BY <1>b DEF bm, bs, cu, pu, fb
  <1>3. \A k \in Bins : /\ Unlink(hp.bins[k], c) \in Seq(Hdrs(hp))
                        /\ IsInjective(Unlink(hp.bins[k], c))
                        /\ Range(Unlink(hp.bins[k], c)) = Range(hp.bins[k]) \ {c}
                        /\ Unlink(hp.bins[k], c) = <<>>
                             <=> hp.bins[k] = <<>> \/ hp.bins[k] = <<c>>
    <2> TAKE k \in Bins
    <2>1. hp.bins[k] \in Seq(Hdrs(hp)) /\ IsInjective(hp.bins[k])
      BY <1>0 DEF HeapType, Binned, Hdrs
    <2>2. QED
      BY <2>1, UnlinkFacts
  <1>4. HeapType(g)
    <2>1. fb \in Int
      BY <1>0, <1>1 DEF HeapType, ChunkSize, fb
    <2>2. bs \in [Bins -> Seq(DOMAIN hp.csize)]
      BY <1>3 DEF Hdrs, bs
    <2>3. bm \in SUBSET Bins
      BY <1>0 DEF HeapType, bm
    <2>4. cu \in SUBSET DOMAIN hp.csize /\ pu \in SUBSET DOMAIN hp.csize
      BY <1>0 DEF HeapType, Hdrs, Tiled, cu, pu
    <2>5. QED
      BY <1>0, <1>a, <1>b, <2>1, <2>2, <2>3, <2>4 DEF HeapType
  <1>5. Tiled(g, s, f)
    BY <1>0, <1>2 DEF Tiled, Hdrs
  <1>6. Tagged(g, s, f, X)
    <2>1. \A a \in Hdrs(hp) \ {f} : a + hp.csize[a] = c + hp.csize[c] => a = c
      BY <1>0, OnePredecessor
    <2>2. QED
      BY <1>0, <1>2, <2>1 DEF Tagged, Hdrs
  <1>7. Coal(g, f)
    BY <1>0, <1>2 DEF Coal, Hdrs
  <1>8. Binned(g, f, {})
    <2>1. \A k \in Bins : c \in Range(hp.bins[k]) <=> k = i
      BY <1>0, <1>1 DEF Binned, i
    <2>2. \A k \in Bins : hp.bins[k] = <<c>> => k = i
      <3> TAKE k \in Bins
      <3>1. hp.bins[k] = <<c>> => c \in Range(hp.bins[k])
        BY DEF Range
      <3>2. QED
        BY <2>1, <3>1
    <2>3. g.binmap = {k \in Bins : g.bins[k] # <<>>}
      <3>1. ASSUME NEW k \in Bins PROVE k \in g.binmap <=> g.bins[k] # <<>>
        <4>1. k \in hp.binmap <=> hp.bins[k] # <<>>
          BY <1>0 DEF Binned
        <4>2. g.bins[k] = <<>> <=> hp.bins[k] = <<>> \/ hp.bins[k] = <<c>>
          BY <1>2, <1>3
        <4>3. CASE k = i
          BY <1>2, <2>2, <4>1, <4>2, <4>3
        <4>4. CASE k # i
          BY <1>2, <2>2, <4>1, <4>2, <4>4
        <4>5. QED
          BY <4>3, <4>4
      <3>2. g.binmap \subseteq Bins
        BY <1>4 DEF HeapType
      <3>3. QED
        BY <3>1, <3>2
    <2>4. ASSUME NEW k \in Bins
          PROVE  /\ IsInjective(g.bins[k])
                 /\ Range(g.bins[k]) =
                      {a \in (Hdrs(g) \ {f}) \ (g.cused \cup {}) : bin_index(g.csize[a]) = k}
      <3>1. Range(hp.bins[k]) =
              {a \in (Hdrs(hp) \ {f}) \ (hp.cused \cup {}) : bin_index(hp.csize[a]) = k}
        BY <1>0 DEF Binned
      <3>2. Range(g.bins[k]) = Range(hp.bins[k]) \ {c}
        BY <1>2, <1>3
      <3>3. QED
        BY <1>2, <1>3, <3>1, <3>2 DEF Hdrs
    <2>5. QED
      BY <2>3, <2>4 DEF Binned
  <1>9. Counted(g, f)
    <2>1. c \in Frees(hp, f) /\ Frees(g, f) = Frees(hp, f) \ {c}
      BY <1>2 DEF Frees, Hdrs
    <2>2. QED
      BY <1>0, <1>2, <2>1, CountLess
  <1>10. QED
    BY <1>2, <1>4, <1>5, <1>6, <1>7, <1>8, <1>9 DEF WF, g

\* A list belongs to every set that holds its elements.
LEMMA SeqRange ==
  ASSUME NEW S, NEW T, NEW q \in Seq(S), Range(q) \subseteq T
  PROVE  q \in Seq(T)
  <1>1. Len(q) \in Nat /\ DOMAIN q = 1..Len(q)
    OBVIOUS
  <1>2. \A k \in 1..Len(q) : q[k] \in T
    BY <1>1 DEF Range
  <1>3. q = [k \in 1..Len(q) |-> q[k]]
    OBVIOUS
  <1>4. QED
    BY <1>1, <1>2, <1>3

\* bin_chunk() completes the bins of a heap whose chunk c is free but in no bin.
LEMMA BinChunk ==
  ASSUME NEW hp, NEW f, HeapType(hp), NEW c \in Hdrs(hp) \ {f}, c \notin hp.cused,
         ChunkSize(hp.csize[c]), Binned(hp, f, {c})
  PROVE  LET g == bin_chunk(hp, c, bin_index(hp.csize[c]))
         IN  /\ HeapType(g) /\ Binned(g, f, {})
             /\ g.csize = hp.csize /\ g.psize = hp.psize
             /\ g.cused = hp.cused /\ g.pused = hp.pused
             /\ g.free_bytes = hp.free_bytes + hp.csize[c]
  <1> DEFINE i == bin_index(hp.csize[c])
             g == bin_chunk(hp, c, i)
             bm == IF hp.bins[i] = <<>> THEN hp.binmap \cup {i} ELSE hp.binmap
             bs == [hp.bins EXCEPT ![i] = Append(hp.bins[i], c)]
             fb == hp.free_bytes + hp.csize[c]
  <1>1. i \in Bins
    BY BinIndexType
  <1>a. g = [hp EXCEPT !.bins = bs, !.binmap = bm, !.free_bytes = fb]
    BY DEF bin_chunk
  <1> HIDE DEF bm, bs, fb, g, i
  <1>b. /\ g.csize = hp.csize /\ g.psize = hp.psize /\ g.cused = hp.cused
        /\ g.pused = hp.pused /\ g.bins = bs /\ g.binmap = bm /\ g.free_bytes = fb
    BY <1>a DEF HeapType
  <1>2. hp.bins[i] \in Seq(Hdrs(hp)) /\ IsInjective(hp.bins[i]) /\ c \notin Range(hp.bins[i])
    BY <1>1 DEF HeapType, Binned, Hdrs
  <1>3. /\ Append(hp.bins[i], c) \in Seq(Hdrs(hp))
        /\ IsInjective(Append(hp.bins[i], c))
        /\ Range(Append(hp.bins[i], c)) = Range(hp.bins[i]) \cup {c}
        /\ Append(hp.bins[i], c) # <<>>
    BY <1>2, AppendFacts
  <1>4. \A k \in Bins : bs[k] = IF k = i THEN Append(hp.bins[i], c) ELSE hp.bins[k]
    BY <1>1 DEF HeapType, bs
  <1>5. HeapType(g)
    <2>1. fb \in Int
      BY DEF HeapType, ChunkSize, fb
    <2>2. bs \in [Bins -> Seq(DOMAIN hp.csize)]
      BY <1>1, <1>3 DEF HeapType, Hdrs, bs
    <2>3. bm \in SUBSET Bins
      BY <1>1 DEF HeapType, bm
    <2>4. QED
      BY <1>a, <1>b, <2>1, <2>2, <2>3 DEF HeapType
  <1>6. bm = {k \in Bins : bs[k] # <<>>}
    <2>1. ASSUME NEW k \in Bins PROVE k \in bm <=> bs[k] # <<>>
      <3>1. k \in hp.binmap <=> hp.bins[k] # <<>>
        BY DEF Binned
      <3>2. CASE k = i
        BY <1>3, <1>4, <3>1, <3>2 DEF bm
      <3>3. CASE k # i
        BY <1>4, <3>1, <3>3 DEF bm
      <3>4. QED
        BY <3>2, <3>3
    <2>2. bm \subseteq Bins
      BY <1>1 DEF HeapType, bm
    <2>3. QED
      BY <2>1, <2>2
  <1>7. ASSUME NEW k \in Bins
        PROVE  /\ IsInjective(bs[k])
               /\ Range(bs[k]) =
                    {a \in (Hdrs(hp) \ {f}) \ (hp.cused \cup {}) : bin_index(hp.csize[a]) = k}
    <2>1. /\ IsInjective(hp.bins[k])
          /\ Range(hp.bins[k]) =
               {a \in (Hdrs(hp) \ {f}) \ (hp.cused \cup {c}) : bin_index(hp.csize[a]) = k}
      BY DEF Binned
    <2>2. CASE k = i
      <3>1. bs[k] = Append(hp.bins[i], c) /\ IsInjective(bs[k])
        BY <1>3, <1>4, <2>2
      <3>2. Range(bs[k]) = Range(hp.bins[k]) \cup {c}
        BY <1>3, <2>2, <3>1
      <3>3. bin_index(hp.csize[c]) = k
        BY <2>2 DEF i
      <3>4. QED
        BY <2>1, <3>1, <3>2, <3>3
    <2>3. CASE k # i
      <3>1. bs[k] = hp.bins[k]
        BY <1>4, <2>3
      <3>2. bin_index(hp.csize[c]) # k
        BY <2>3 DEF i
      <3>3. QED
        BY <2>1, <3>1, <3>2
    <2>4. QED
      BY <2>2, <2>3
  <1>8. Binned(g, f, {})
    BY <1>b, <1>6, <1>7 DEF Binned, Hdrs
  <1>9. QED
    BY <1>b, <1>5, <1>8 DEF g, i, fb

\* What absorb() changes.
LEMMA AbsorbFrame ==
  ASSUME NEW hp, HeapType(hp), NEW p \in Hdrs(hp), NEW c \in Hdrs(hp), p # c
  PROVE  LET g == absorb(hp, p, c)
         IN  /\ Hdrs(g) = Hdrs(hp) \ {c}
             /\ g.csize[p] = hp.csize[p] + hp.csize[c]
             /\ \A a \in Hdrs(g) : a # p => g.csize[a] = hp.csize[a]
             /\ g.cused = hp.cused \ {c}
             /\ g.pused = hp.pused \ {c}
  <1> DEFINE g == absorb(hp, p, c)
             cs == Drop([hp.csize EXCEPT ![p] = hp.csize[p] + hp.csize[c]], c)
             ps == Drop(hp.psize, c)
  <1>1. g = [hp EXCEPT !.csize = cs, !.psize = ps, !.cused = hp.cused \ {c},
                       !.pused = hp.pused \ {c}]
    BY DEF absorb
  <1> HIDE DEF g, cs, ps
  <1>2. g.csize = cs /\ g.cused = hp.cused \ {c} /\ g.pused = hp.pused \ {c}
    BY <1>1 DEF HeapType
  <1>3. cs = [a \in Hdrs(hp) \ {c} |-> IF a = p THEN hp.csize[p] + hp.csize[c] ELSE hp.csize[a]]
    BY DEF cs, Drop, HeapType, Hdrs
  <1>4. QED
    BY <1>2, <1>3 DEF g, Hdrs

\* Absorbing a used neighbour leaves a well-formed heap, but for the psize word
\* behind the chunk that grew.
LEMMA AbsorbWF ==
  ASSUME NEW hp, NEW s, NEW f, NEW X, WF(hp, s, f, X),
         NEW p \in Hdrs(hp) \ {f}, NEW c, c = p + hp.csize[p], c # f,
         p \in hp.cused, c \in hp.cused
  PROVE  LET g == absorb(hp, p, c)
         IN  WF(g, s, f, X \cup {p})
  <1> DEFINE g == absorb(hp, p, c)
             cs == Drop([hp.csize EXCEPT ![p] = hp.csize[p] + hp.csize[c]], c)
             ps == Drop(hp.psize, c)
             cu == hp.cused \ {c}
             pu == hp.pused \ {c}
  <1>0. HeapType(hp) /\ Tiled(hp, s, f) /\ Tagged(hp, s, f, X) /\ Coal(hp, f) /\ Binned(hp, f, {})
        /\ Counted(hp, f)
    BY DEF WF
  <1>a. g = [hp EXCEPT !.csize = cs, !.psize = ps, !.cused = cu, !.pused = pu]
    BY DEF absorb
  <1> HIDE DEF g, cs, ps, cu, pu
  <1>b. /\ g.csize = cs /\ g.psize = ps /\ g.cused = cu /\ g.pused = pu
        /\ g.bins = hp.bins /\ g.binmap = hp.binmap /\ g.free_bytes = hp.free_bytes
    BY <1>0, <1>a DEF HeapType
  <1>1. c \in Hdrs(hp) \ {f} /\ p < c /\ p \in Nat /\ c \in Nat /\ s <= p
        /\ ChunkSize(hp.csize[p]) /\ ChunkSize(hp.csize[c])
    <2>1. c \in Hdrs(hp) \ {f} /\ p \in Nat /\ s <= p /\ ChunkSize(hp.csize[p])
      BY <1>0 DEF Tiled
    <2>2. c \in Nat /\ ChunkSize(hp.csize[c])
      BY <1>0, <2>1 DEF Tiled
    <2>3. p < c
      BY <2>1 DEF ChunkSize, SIZE_ALIGN
    <2>4. QED
      BY <2>1, <2>2, <2>3
  <1>2. cs = [a \in Hdrs(hp) \ {c} |-> IF a = p THEN hp.csize[p] + hp.csize[c] ELSE hp.csize[a]]
    BY <1>0, <1>1 DEF cs, Drop, HeapType, Hdrs
  <1>3. ps = [a \in Hdrs(hp) \ {c} |-> hp.psize[a]]
    BY <1>0, <1>1 DEF ps, Drop, HeapType, Hdrs
  <1>4. /\ Hdrs(g) = Hdrs(hp) \ {c} /\ p \in Hdrs(g)
        /\ g.csize[p] = hp.csize[p] + hp.csize[c]
        /\ \A a \in Hdrs(g) : a # p => g.csize[a] = hp.csize[a]
        /\ \A a \in Hdrs(g) : g.psize[a] = hp.psize[a]
    BY <1>b, <1>1, <1>2, <1>3 DEF Hdrs
  <1>5. \A a \in Hdrs(hp) \ {f} : a + hp.csize[a] = c => a = p
    BY <1>0, OnePredecessor
  <1>6. HeapType(g)
    <2>1. DOMAIN cs = Hdrs(hp) \ {c}
      BY <1>2
    <2>2. cs \in [Hdrs(hp) \ {c} -> Nat] /\ ps \in [Hdrs(hp) \ {c} -> Nat]
      BY <1>0, <1>1, <1>2, <1>3 DEF HeapType, Hdrs
    <2>3. cu \in SUBSET (Hdrs(hp) \ {c}) /\ pu \in SUBSET (Hdrs(hp) \ {c})
      BY <1>0 DEF HeapType, Hdrs, cu, pu
    <2>4. hp.bins \in [Bins -> Seq(Hdrs(hp) \ {c})]
      <3>1. ASSUME NEW k \in Bins PROVE hp.bins[k] \in Seq(Hdrs(hp) \ {c})
        <4>1. hp.bins[k] \in Seq(Hdrs(hp)) /\ Range(hp.bins[k]) \subseteq Hdrs(hp) \ {c}
          BY <1>0 DEF HeapType, Binned, Hdrs
        <4>2. QED
          BY <4>1, SeqRange
      <3>2. QED
        BY <1>0, <3>1 DEF HeapType
    <2>5. QED
      BY <1>0, <1>a, <1>b, <2>1, <2>2, <2>3, <2>4 DEF HeapType
  <1>7. Tiled(g, s, f)
    <2>1. s \in Hdrs(g) /\ f \in Hdrs(g) /\ g.csize[f] = 0
      BY <1>0, <1>1, <1>4 DEF Tiled
    <2>2. ASSUME NEW a \in Hdrs(g) \ {f}
          PROVE  /\ a \in Nat /\ s <= a /\ a < f
                 /\ ChunkSize(g.csize[a])
                 /\ a + g.csize[a] \in Hdrs(g)
                 /\ \A b \in Hdrs(g) : b <= a \/ a + g.csize[a] <= b
      <3>1. CASE a = p
        <4>1. ChunkSize(g.csize[p])
          BY <1>1, <1>4 DEF ChunkSize, SIZE_ALIGN
        <4>2. a + g.csize[a] = c + hp.csize[c]
          BY <1>1, <1>4, <3>1 DEF ChunkSize
        <4>3. c + hp.csize[c] \in Hdrs(hp) /\ c + hp.csize[c] # c
          BY <1>0, <1>1 DEF Tiled, ChunkSize, SIZE_ALIGN
        <4>4. ASSUME NEW b \in Hdrs(g) PROVE b <= a \/ c + hp.csize[c] <= b
          <5>1. (b <= p \/ c <= b) /\ (b <= c \/ c + hp.csize[c] <= b) /\ b # c /\ b \in Nat
            BY <1>0, <1>1, <1>4 DEF Tiled
          <5>2. QED
            BY <1>1, <3>1, <5>1
        <4>5. QED
          BY <1>0, <1>4, <3>1, <4>1, <4>2, <4>3, <4>4 DEF Tiled
      <3>2. CASE a # p
        BY <1>0, <1>4, <1>5, <3>2 DEF Tiled
      <3>3. QED
        BY <3>1, <3>2
    <2>3. ASSUME NEW b \in Hdrs(g) \ {s}
          PROVE  \E a \in Hdrs(g) \ {f} : a + g.csize[a] = b
      <3>1. PICK a \in Hdrs(hp) \ {f} : a + hp.csize[a] = b
        BY <1>0, <1>4 DEF Tiled
      <3>2. CASE a = c
        <4>1. p + g.csize[p] = b
          BY <1>1, <1>4, <3>1, <3>2 DEF ChunkSize
        <4>2. QED
          BY <1>4, <4>1
      <3>3. CASE a # c
        <4>1. a # p
          BY <1>4, <3>1
        <4>2. QED
          BY <1>4, <3>1, <3>3, <4>1
      <3>4. QED
        BY <3>2, <3>3
    <2>4. QED
      BY <1>0, <2>1, <2>2, <2>3 DEF Tiled
  <1>8. Tagged(g, s, f, X \cup {p})
    <2>1. s \in g.pused /\ f \in g.cused
      BY <1>0, <1>1, <1>b DEF Tagged, cu, pu
    <2>2. ASSUME NEW a \in Hdrs(g) \ {f}
          PROVE  /\ a \notin X \cup {p} => g.psize[a + g.csize[a]] = g.csize[a]
                 /\ a + g.csize[a] \in g.pused <=> a \in g.cused
      <3>0. a + g.csize[a] \in Hdrs(g)
        BY <1>7 DEF Tiled
      <3>1. CASE a = p
        <4>1. a + g.csize[a] = c + hp.csize[c]
          BY <1>1, <1>4, <3>1 DEF ChunkSize
        <4>2. c + hp.csize[c] # c
          BY <1>1 DEF ChunkSize, SIZE_ALIGN
        <4>3. QED
          BY <1>0, <1>1, <1>b, <3>1, <4>1, <4>2 DEF Tagged, cu, pu
      <3>2. CASE a # p
        <4>1. a + g.csize[a] = a + hp.csize[a] /\ a + hp.csize[a] # c /\ a \in Hdrs(hp) \ {f} /\ a # c
          BY <1>4, <1>5, <3>2
        <4>2. QED
          BY <1>0, <1>4, <1>b, <3>0, <3>2, <4>1 DEF Tagged, cu, pu
      <3>3. QED
        BY <3>1, <3>2
    <2>3. QED
      BY <2>1, <2>2 DEF Tagged
  <1>9. Coal(g, f)
    <2>1. ASSUME NEW a \in Hdrs(g) \ {f}, a \notin g.cused
          PROVE  a + g.csize[a] \in g.cused
      <3>1. a # p /\ a \notin hp.cused /\ a \in Hdrs(hp) \ {f} /\ g.csize[a] = hp.csize[a]
        BY <1>1, <1>4, <1>b, <2>1 DEF cu
      <3>2. a + hp.csize[a] \in hp.cused /\ a + hp.csize[a] # c
        BY <1>0, <1>5, <3>1 DEF Coal
      <3>3. QED
        BY <1>b, <3>1, <3>2 DEF cu
    <2>2. QED
      BY <2>1 DEF Coal
  <1>10. Binned(g, f, {})
    <2>1. ASSUME NEW k \in Bins
          PROVE  {a \in (Hdrs(g) \ {f}) \ (g.cused \cup {}) : bin_index(g.csize[a]) = k}
                 = {a \in (Hdrs(hp) \ {f}) \ (hp.cused \cup {}) : bin_index(hp.csize[a]) = k}
      BY <1>1, <1>4, <1>b DEF cu
    <2>2. QED
      BY <1>0, <1>b, <2>1 DEF Binned
  <1>11. Counted(g, f)
    <2>1. Frees(g, f) = Frees(hp, f) /\ \A a \in Frees(hp, f) : g.csize[a] = hp.csize[a]
      BY <1>b, <1>1, <1>4 DEF Frees, cu
    <2>2. QED
      BY <1>0, <1>b, <2>1, CountSame
  <1>12. QED
    BY <1>b, <1>4, <1>6, <1>7, <1>8, <1>9, <1>10, <1>11 DEF WF, g, cu, pu

\* A used chunk between two used neighbours can be released.
LEMMA ReleaseWF ==
  ASSUME NEW hp, NEW s, NEW f, NEW c \in Hdrs(hp) \ {f}, WF(hp, s, f, {c}),
         c \in hp.cused, c \in hp.pused, c + hp.csize[c] \in hp.cused
  PROVE  LET g == release(hp, c)
         IN  /\ WF(g, s, f, {})
             /\ g.csize = hp.csize
             /\ g.cused = hp.cused \ {c}
  <1> DEFINE x == c + hp.csize[c]
             cu == hp.cused \ {c}
             pu == hp.pused \ {x}
             ps == [hp.psize EXCEPT ![x] = hp.csize[c]]
             g0 == [hp EXCEPT !.cused = cu, !.pused = pu, !.psize = ps]
             g  == release(hp, c)
  <1>0. HeapType(hp) /\ Tiled(hp, s, f) /\ Tagged(hp, s, f, {c}) /\ Coal(hp, f) /\ Binned(hp, f, {})
        /\ Counted(hp, f)
    BY DEF WF
  <1>1. x \in Hdrs(hp) /\ ChunkSize(hp.csize[c]) /\ c \in Nat /\ s <= c
    BY <1>0 DEF Tiled
  <1>2. c < x
    BY <1>1 DEF ChunkSize, SIZE_ALIGN
  <1>3. \A a \in Hdrs(hp) \ {f} : a + hp.csize[a] = x => a = c
    BY <1>0, OnePredecessor
  <1>4. g = bin_chunk(g0, c, bin_index(hp.csize[c]))
    BY DEF release, NEXT_CHUNK
  <1> HIDE DEF x, cu, pu, ps, g0, g
  <1>5. /\ g0.csize = hp.csize /\ g0.psize = ps /\ g0.cused = cu /\ g0.pused = pu
        /\ g0.bins = hp.bins /\ g0.binmap = hp.binmap /\ g0.free_bytes = hp.free_bytes
        /\ Hdrs(g0) = Hdrs(hp)
    BY <1>0 DEF HeapType, g0, Hdrs
  <1>6. ps \in [Hdrs(hp) -> Nat] /\ \A a \in Hdrs(hp) : ps[a] = IF a = x THEN hp.csize[c] ELSE hp.psize[a]
    BY <1>0, <1>1 DEF HeapType, Hdrs, ps, ChunkSize
  <1>7. HeapType(g0)
    <2>1. cu \in SUBSET Hdrs(hp) /\ pu \in SUBSET Hdrs(hp)
      BY <1>0 DEF HeapType, Hdrs, cu, pu
    <2>2. QED
      BY <1>0, <1>5, <1>6, <2>1 DEF HeapType, Hdrs, g0
  <1>8. Tiled(g0, s, f)
    BY <1>0, <1>5 DEF Tiled
  <1>9. Tagged(g0, s, f, {})
    <2>1. s \in pu /\ f \in cu
      BY <1>0, <1>1, <1>2 DEF Tagged, Tiled, pu, cu
    <2>2. ASSUME NEW a \in Hdrs(hp) \ {f}
          PROVE  /\ ps[a + hp.csize[a]] = hp.csize[a]
                 /\ a + hp.csize[a] \in pu <=> a \in cu
      <3>1. CASE a = c
        BY <1>1, <1>6, <3>1 DEF x, pu, cu
      <3>2. CASE a # c
        <4>1. a + hp.csize[a] # x /\ a + hp.csize[a] \in Hdrs(hp)
          BY <1>0, <1>3, <3>2 DEF Tiled
        <4>2. QED
          BY <1>0, <1>6, <3>2, <4>1 DEF Tagged, pu, cu
      <3>3. QED
        BY <3>1, <3>2
    <2>3. QED
      BY <1>5, <2>1, <2>2 DEF Tagged
  <1>10. Coal(g0, f)
    <2>1. ASSUME NEW a \in Hdrs(hp) \ {f}, a \notin cu
          PROVE  a + hp.csize[a] \in cu
      <3>1. CASE a = c
        BY <1>1, <1>2, <3>1 DEF x, cu
      <3>2. CASE a # c
        <4>1. a \notin hp.cused /\ a + hp.csize[a] \in hp.cused
          BY <1>0, <2>1, <3>2 DEF Coal, cu
        <4>2. a + hp.csize[a] # c
          BY <1>0, <4>1 DEF Tagged
        <4>3. QED
          BY <4>1, <4>2 DEF cu
      <3>3. QED
        BY <3>1, <3>2
    <2>2. QED
      BY <1>5, <2>1 DEF Coal
  <1>11. Binned(g0, f, {c})
    <2>1. (Hdrs(g0) \ {f}) \ (g0.cused \cup {c}) = (Hdrs(hp) \ {f}) \ (hp.cused \cup {})
      BY <1>5 DEF cu
    <2>2. QED
      BY <1>0, <1>5, <2>1 DEF Binned
  <1>12. /\ HeapType(g) /\ Binned(g, f, {})
         /\ g.csize = g0.csize /\ g.psize = g0.psize
         /\ g.cused = g0.cused /\ g.pused = g0.pused
         /\ g.free_bytes = g0.free_bytes + g0.csize[c]
    <2>1. c \in Hdrs(g0) \ {f} /\ c \notin g0.cused /\ ChunkSize(g0.csize[c])
      BY <1>1, <1>5 DEF cu
    <2>2. QED
      BY <1>4, <1>5, <1>7, <1>11, <2>1, BinChunk
  <1>13. Tiled(g, s, f) /\ Tagged(g, s, f, {}) /\ Coal(g, f)
    BY <1>8, <1>9, <1>10, <1>12 DEF Tiled, Tagged, Coal, Hdrs
  <1>14. Counted(g, f)
    <2>1. /\ c \notin Frees(hp, f) /\ Frees(g, f) = Frees(hp, f) \cup {c}
          /\ \A a \in Frees(hp, f) : g.csize[a] = hp.csize[a]
      BY <1>5, <1>12 DEF Frees, Hdrs, cu
    <2>2. g.csize[c] \in Int /\ g.free_bytes = hp.free_bytes + g.csize[c]
      BY <1>1, <1>5, <1>12 DEF ChunkSize
    <2>3. QED
      BY <1>0, <2>1, <2>2, CountMore
  <1>15. QED
    BY <1>5, <1>12, <1>13, <1>14 DEF WF, g, cu

\* A used chunk that is cut in two, the rest of which is binned.
LEMMA SplitWF ==
  ASSUME NEW hp, NEW s, NEW f, NEW c \in Hdrs(hp) \ {f}, WF(hp, s, f, {}),
         c \in hp.cused, c + hp.csize[c] \in hp.cused,
         NEW n, ChunkSize(n), ChunkSize(hp.csize[c] - n)
  PROVE  LET g == bin_chunk(split(hp, c, n), c + n, bin_index(hp.csize[c] - n))
         IN  /\ WF(g, s, f, {})
             /\ Hdrs(g) = Hdrs(hp) \cup {c + n}
             /\ g.csize[c] = n
             /\ \A a \in Hdrs(hp) : a # c => g.csize[a] = hp.csize[a]
             /\ g.cused = hp.cused
             /\ c + n \notin Hdrs(hp)
  <1> DEFINE n1 == hp.csize[c]
             x  == c + n1
             d  == c + n
             cs == Put([hp.csize EXCEPT ![c] = n], d, n1 - n)
             ps == Put([hp.psize EXCEPT ![x] = n1 - n], d, n)
             cu == (hp.cused \cup {c}) \ {d}
             pu == (hp.pused \cup {d}) \ {x}
             g0 == [hp EXCEPT !.psize = ps, !.csize = cs, !.pused = pu, !.cused = cu]
             g  == bin_chunk(split(hp, c, n), c + n, bin_index(hp.csize[c] - n))
  <1>0. HeapType(hp) /\ Tiled(hp, s, f) /\ Tagged(hp, s, f, {}) /\ Coal(hp, f) /\ Binned(hp, f, {})
        /\ Counted(hp, f)
    BY DEF WF
  <1>1. x \in Hdrs(hp) /\ ChunkSize(n1) /\ c \in Nat /\ s <= c /\ c < f
        /\ \A b \in Hdrs(hp) : b <= c \/ x <= b
    BY <1>0 DEF Tiled
  <1>2. n \in Nat /\ n1 \in Nat /\ n1 - n \in Nat /\ d \in Nat /\ x \in Nat /\ c < d /\ d < x /\ x = d + (n1 - n)
    BY <1>1 DEF ChunkSize, SIZE_ALIGN
  <1>3. d \notin Hdrs(hp)
    BY <1>1, <1>2
  <1>4. \A a \in Hdrs(hp) \ {f} : a + hp.csize[a] = x => a = c
    BY <1>0, OnePredecessor
  <1>5. \A b \in Hdrs(hp) : b \in Nat
    BY <1>0 DEF Tiled
  <1>6. g = bin_chunk(g0, d, bin_index(n1 - n))
    BY DEF split, NEXT_CHUNK
  <1> HIDE DEF n1, x, d, cs, ps, cu, pu, g0, g
  <1>7. /\ g0.csize = cs /\ g0.psize = ps /\ g0.cused = cu /\ g0.pused = pu
        /\ g0.bins = hp.bins /\ g0.binmap = hp.binmap /\ g0.free_bytes = hp.free_bytes
    BY <1>0 DEF HeapType, g0
  <1>8. /\ cs \in [Hdrs(hp) \cup {d} -> Nat] /\ cs[d] = n1 - n /\ cs[c] = n
        /\ \A a \in Hdrs(hp) : a # c => cs[a] = hp.csize[a]
    BY <1>0, <1>1, <1>2, <1>3 DEF HeapType, Hdrs, cs, Put
  <1>9. /\ ps \in [Hdrs(hp) \cup {d} -> Nat] /\ ps[d] = n /\ ps[x] = n1 - n
        /\ \A a \in Hdrs(hp) : a # x => ps[a] = hp.psize[a]
    BY <1>0, <1>1, <1>2, <1>3 DEF HeapType, Hdrs, ps, Put
  <1>10. Hdrs(g0) = Hdrs(hp) \cup {d}
    BY <1>7, <1>8 DEF Hdrs
  <1>11. HeapType(g0)
    <2>1. cu \in SUBSET (Hdrs(hp) \cup {d}) /\ pu \in SUBSET (Hdrs(hp) \cup {d})
      BY <1>0 DEF HeapType, Hdrs, cu, pu
    <2>2. hp.bins \in [Bins -> Seq(Hdrs(hp) \cup {d})]
      <3>1. ASSUME NEW k \in Bins PROVE hp.bins[k] \in Seq(Hdrs(hp) \cup {d})
        <4>1. hp.bins[k] \in Seq(Hdrs(hp)) /\ Range(hp.bins[k]) \subseteq Hdrs(hp) \cup {d}
          BY <1>0 DEF HeapType, Binned, Hdrs
        <4>2. QED
          BY <4>1, SeqRange
      <3>2. QED
        BY <1>0, <3>1 DEF HeapType
    <2>3. DOMAIN cs = Hdrs(hp) \cup {d}
      BY <1>8
    <2>4. QED
      BY <1>0, <1>7, <1>8, <1>9, <2>1, <2>2, <2>3 DEF HeapType, g0
  <1>12. Tiled(g0, s, f)
    <2>1. s \in Hdrs(g0) /\ f \in Hdrs(g0) /\ g0.csize[f] = 0
      BY <1>0, <1>7, <1>8, <1>10 DEF Tiled
    <2>2. ASSUME NEW a \in Hdrs(g0) \ {f}
          PROVE  /\ a \in Nat /\ s <= a /\ a < f
                 /\ ChunkSize(cs[a])
                 /\ a + cs[a] \in Hdrs(g0)
                 /\ \A b \in Hdrs(g0) : b <= a \/ a + cs[a] <= b
      <3>1. CASE a = c
        <4>1. a + cs[a] = d
          BY <1>8, <3>1 DEF d
        <4>2. QED
          BY <1>0, <1>1, <1>2, <1>5, <1>8, <1>10, <3>1, <4>1 DEF Tiled
      <3>2. CASE a = d
        <4>1. a + cs[a] = x /\ ChunkSize(cs[a])
          BY <1>2, <1>8, <3>2 DEF n1
        <4>2. d < f /\ s <= d
          BY <1>0, <1>1, <1>2 DEF Tiled
        <4>3. QED
          BY <1>1, <1>2, <1>5, <1>10, <3>2, <4>1, <4>2
      <3>3. CASE a # c /\ a # d
        <4>1. a \in Hdrs(hp) \ {f} /\ cs[a] = hp.csize[a]
          BY <1>8, <1>10, <3>3
        <4>2. d <= a \/ a + cs[a] <= d
          <5>1. a <= c \/ x <= a
            BY <1>1, <4>1
          <5>2. c <= a \/ a + cs[a] <= c
            BY <1>0, <4>1 DEF Tiled
          <5>3. a \in Nat /\ cs[a] \in Nat
            BY <1>5, <1>8, <4>1
          <5>4. QED
            BY <1>2, <1>1, <3>3, <5>1, <5>2, <5>3
        <4>3. QED
          BY <1>0, <1>10, <4>1, <4>2 DEF Tiled
      <3>4. QED
        BY <3>1, <3>2, <3>3
    <2>3. ASSUME NEW b \in Hdrs(g0) \ {s}
          PROVE  \E a \in Hdrs(g0) \ {f} : a + cs[a] = b
      <3>1. CASE b = d
        BY <1>8, <1>10, <3>1 DEF d
      <3>2. CASE b = x
        <4>1. d + cs[d] = x /\ d # f
          BY <1>0, <1>2, <1>3, <1>8 DEF Tiled
        <4>2. QED
          BY <1>10, <3>2, <4>1
      <3>3. CASE b # d /\ b # x
        <4>1. PICK a \in Hdrs(hp) \ {f} : a + hp.csize[a] = b
          BY <1>0, <1>10, <3>3 DEF Tiled
        <4>2. a # c
          BY <3>3, <4>1 DEF x, n1
        <4>3. QED
          BY <1>8, <1>10, <4>1, <4>2
      <3>4. QED
        BY <3>1, <3>2, <3>3
    <2>4. QED
      BY <1>0, <1>7, <2>1, <2>2, <2>3 DEF Tiled
  <1>13. Tagged(g0, s, f, {})
    <2>1. s \in pu /\ f \in cu
      BY <1>0, <1>1, <1>2, <1>3 DEF Tagged, Tiled, pu, cu
    <2>2. ASSUME NEW a \in Hdrs(g0) \ {f}
          PROVE  /\ ps[a + cs[a]] = cs[a]
                 /\ a + cs[a] \in pu <=> a \in cu
      <3>1. CASE a = c
        <4>1. a + cs[a] = d
          BY <1>8, <3>1 DEF d
        <4>2. QED
          BY <1>2, <1>8, <1>9, <3>1, <4>1 DEF pu, cu
      <3>2. CASE a = d
        <4>1. a + cs[a] = x
          BY <1>2, <1>8, <3>2
        <4>2. QED
          BY <1>2, <1>8, <1>9, <3>2, <4>1 DEF pu, cu
      <3>3. CASE a # c /\ a # d
        <4>1. a \in Hdrs(hp) \ {f} /\ cs[a] = hp.csize[a]
          BY <1>8, <1>10, <3>3
        <4>2. a + cs[a] \in Hdrs(hp) /\ a + cs[a] # x /\ a + cs[a] # d
          <5>1. a + cs[a] \in Hdrs(hp)
            BY <1>0, <4>1 DEF Tiled
          <5>2. QED
            BY <1>3, <1>4, <3>3, <4>1, <5>1
        <4>3. ps[a + cs[a]] = cs[a]
          BY <1>0, <1>9, <4>1, <4>2 DEF Tagged
        <4>4. a + cs[a] \in pu <=> a \in cu
          BY <1>0, <3>3, <4>1, <4>2 DEF Tagged, pu, cu
        <4>5. QED
          BY <4>3, <4>4
      <3>4. QED
        BY <3>1, <3>2, <3>3
    <2>3. QED
      BY <1>7, <2>1, <2>2 DEF Tagged
  <1>14. Coal(g0, f)
    <2>1. ASSUME NEW a \in Hdrs(g0) \ {f}, a \notin cu
          PROVE  a + cs[a] \in cu
      <3>1. CASE a = d
        <4>1. a + cs[a] = x
          BY <1>2, <1>8, <3>1
        <4>2. x \in hp.cused /\ x # d
          BY <1>2 DEF x, n1
        <4>3. QED
          BY <4>1, <4>2 DEF cu
      <3>2. CASE a # d
        <4>1. a \in Hdrs(hp) \ {f} /\ a # c /\ a \notin hp.cused /\ cs[a] = hp.csize[a]
          BY <1>8, <1>10, <2>1, <3>2, <1>3 DEF cu
        <4>2. a + cs[a] \in hp.cused
          BY <1>0, <4>1 DEF Coal
        <4>3. a + cs[a] # d
          BY <1>0, <1>3, <4>1 DEF Tiled
        <4>4. QED
          BY <4>2, <4>3 DEF cu
      <3>3. QED
        BY <3>1, <3>2
    <2>2. QED
      BY <1>7, <2>1 DEF Coal
  <1>15. Binned(g0, f, {d})
    <2>1. cu = hp.cused
      BY <1>0, <1>3 DEF cu, HeapType, Hdrs
    <2>2. ASSUME NEW k \in Bins
          PROVE  {a \in (Hdrs(g0) \ {f}) \ (g0.cused \cup {d}) : bin_index(g0.csize[a]) = k}
                 = {a \in (Hdrs(hp) \ {f}) \ (hp.cused \cup {}) : bin_index(hp.csize[a]) = k}
      BY <1>3, <1>7, <1>8, <1>10, <2>1
    <2>3. QED
      BY <1>0, <1>7, <2>2 DEF Binned
  <1>16. /\ HeapType(g) /\ Binned(g, f, {})
         /\ g.csize = g0.csize /\ g.psize = g0.psize
         /\ g.cused = g0.cused /\ g.pused = g0.pused
         /\ g.free_bytes = g0.free_bytes + g0.csize[d]
    <2>1. d \in Hdrs(g0) \ {f} /\ d \notin g0.cused /\ g0.csize[d] = n1 - n
      BY <1>0, <1>3, <1>7, <1>8, <1>10 DEF cu, Tiled
    <2>2. ChunkSize(n1 - n)
      BY DEF n1
    <2>3. QED
      BY <1>6, <1>11, <1>15, <2>1, <2>2, BinChunk
  <1>17. Tiled(g, s, f) /\ Tagged(g, s, f, {}) /\ Coal(g, f)
    BY <1>12, <1>13, <1>14, <1>16 DEF Tiled, Tagged, Coal, Hdrs
  <1>18. g.cused = hp.cused
    BY <1>0, <1>3, <1>7, <1>16 DEF cu, HeapType, Hdrs
  <1>19. Counted(g, f)
    <2>0. Hdrs(g) = Hdrs(hp) \cup {d} /\ d # f
      BY <1>0, <1>3, <1>10, <1>16 DEF Hdrs, Tiled
    <2>1. /\ d \notin Frees(hp, f) /\ Frees(g, f) = Frees(hp, f) \cup {d}
          /\ \A a \in Frees(hp, f) : g.csize[a] = hp.csize[a]
      <3>1. d \notin hp.cused
        BY <1>0, <1>3 DEF HeapType, Hdrs
      <3>2. QED
        BY <1>3, <1>7, <1>8, <1>16, <1>18, <2>0, <3>1 DEF Frees
    <2>2. g.csize[d] \in Int /\ g.free_bytes = hp.free_bytes + g.csize[d]
      BY <1>2, <1>7, <1>8, <1>16
    <2>3. QED
      BY <1>0, <2>1, <2>2, CountMore
  <1>20. QED
    BY <1>3, <1>7, <1>8, <1>10, <1>16, <1>17, <1>18, <1>19 DEF WF, g, d, Hdrs

\* trim() leaves a used chunk of at least n bytes and changes no other chunk.
LEMMA TrimWF ==
  ASSUME NEW hp, NEW s, NEW f, NEW c \in Hdrs(hp) \ {f}, WF(hp, s, f, {}),
         c \in hp.cused, c + hp.csize[c] \in hp.cused,
         NEW n, ChunkSize(n), n <= hp.csize[c]
  PROVE  LET g == trim(hp, c, n)
         IN  /\ WF(g, s, f, {})
             /\ g.cused = hp.cused
             /\ n <= g.csize[c]
             /\ \A a \in Hdrs(hp) : a # c => g.csize[a] = hp.csize[a]
  <1> DEFINE rest == hp.csize[c] - n
  <1>1. ChunkSize(hp.csize[c])
    BY DEF WF, Tiled
  <1>2. CASE rest \in 0..DONTCARE
    BY <1>2, <1>1 DEF trim, ChunkSize
  <1>3. CASE rest \notin 0..DONTCARE
    <2>1. ChunkSize(rest)
      BY <1>1, <1>3 DEF ChunkSize, SIZE_ALIGN, DONTCARE
    <2>2. trim(hp, c, n) = bin_chunk(split(hp, c, n), c + n, bin_index(hp.csize[c] - n))
      BY <1>3 DEF trim
    <2>3. n \in Nat
      BY DEF ChunkSize
    <2>4. QED
      BY <2>1, <2>2, <2>3, SplitWF
  <1>4. QED
    BY <1>2, <1>3

\* A heap before its first expansion.
Empty(hp) ==
  /\ HeapType(hp) /\ DOMAIN hp.csize = {} /\ hp.binmap = {} /\ hp.bins = [i \in Bins |-> <<>>]
  /\ hp.free_bytes = 0

\* The first expansion makes a heap of one used chunk.
LEMMA GrowFresh ==
  ASSUME NEW hp, Empty(hp), NEW w \in Nat, NEW e \in Nat, ChunkSize(e - w)
  PROVE  LET g == grow(sentinel(hp, w), w, e)
         IN  WF(g, w, e, {}) /\ Hdrs(g) = {w, e} /\ g.cused = {w, e} /\ g.csize[w] = e - w
  <1> DEFINE g == grow(sentinel(hp, w), w, e)
             ps == Put(Put(hp.psize, w, 0), e, e - w)
             cs == Put(Put(hp.csize, e, 0), w, e - w)
             pu == (hp.pused \cup {w}) \cup {e}
             cu == hp.cused \cup {e, w}
  <1>0. HeapType(hp) /\ DOMAIN hp.csize = {}
    BY DEF Empty
  <1>1. g = [hp EXCEPT !.psize = ps, !.pused = pu, !.csize = cs, !.cused = cu]
    BY <1>0 DEF grow, sentinel, HeapType
  <1> HIDE DEF g, ps, cs, pu, cu
  <1>2. /\ g.csize = cs /\ g.psize = ps /\ g.cused = cu /\ g.pused = pu
        /\ g.bins = hp.bins /\ g.binmap = hp.binmap /\ g.free_bytes = hp.free_bytes
    BY <1>0, <1>1 DEF HeapType
  <1>3. w < e /\ w # e /\ w + (e - w) = e
    BY DEF ChunkSize, SIZE_ALIGN
  <1>4. cs \in [{w, e} -> Nat] /\ cs[w] = e - w /\ cs[e] = 0
    BY <1>0, <1>3 DEF cs, Put, ChunkSize
  <1>5. ps \in [{w, e} -> Nat] /\ ps[e] = e - w
    BY <1>0, <1>3 DEF ps, Put, ChunkSize, HeapType
  <1>6. cu = {w, e} /\ pu = {w, e}
    BY <1>0 DEF cu, pu, HeapType
  <1>7. Hdrs(g) = {w, e}
    BY <1>2, <1>4 DEF Hdrs
  <1>8. HeapType(g)
    <2>1. hp.bins \in [Bins -> Seq({w, e})] /\ hp.binmap \in SUBSET Bins
      BY DEF Empty
    <2>2. DOMAIN cs = {w, e}
      BY <1>4
    <2>3. cu \in SUBSET {w, e} /\ pu \in SUBSET {w, e}
      BY <1>6
    <2>4. QED
      BY <1>0, <1>1, <1>2, <1>4, <1>5, <2>1, <2>2, <2>3 DEF HeapType
  <1>9. Tiled(g, w, e)
    BY <1>2, <1>3, <1>4, <1>7 DEF Tiled
  <1>10. Tagged(g, w, e, {}) /\ Coal(g, e)
    BY <1>2, <1>3, <1>4, <1>5, <1>6, <1>7 DEF Tagged, Coal
  <1>11. Binned(g, e, {})
    <2>1. ASSUME NEW k \in Bins
          PROVE  /\ IsInjective(g.bins[k])
                 /\ Range(g.bins[k]) =
                     {a \in (Hdrs(g) \ {e}) \ (g.cused \cup {}) : bin_index(g.csize[a]) = k}
      <3>1. g.bins[k] = <<>>
        BY <1>2 DEF Empty
      <3>2. IsInjective(<<>>) /\ Range(<<>>) = {}
        BY DEF IsInjective, Range
      <3>3. (Hdrs(g) \ {e}) \ (g.cused \cup {}) = {}
        BY <1>2, <1>6, <1>7
      <3>4. QED
        BY <3>1, <3>2, <3>3
    <2>2. g.binmap = {k \in Bins : g.bins[k] # <<>>}
      BY <1>2 DEF Empty
    <2>3. QED
      BY <2>1, <2>2 DEF Binned
  <1>12. Counted(g, e)
    <2>1. Frees(g, e) = {} /\ g.free_bytes = 0
      BY <1>2, <1>6, <1>7 DEF Frees, Empty
    <2>2. QED
      BY <2>1, TotalEmpty DEF Counted
  <1>13. QED
    BY <1>2, <1>4, <1>6, <1>7, <1>8, <1>9, <1>10, <1>11, <1>12 DEF WF, g

\* Expanding in place turns the old footer into a used chunk.
LEMMA GrowInPlace ==
  ASSUME NEW hp, NEW s, NEW f, WF(hp, s, f, {}), NEW e \in Nat, ChunkSize(e - f)
  PROVE  LET g == grow(hp, f, e)
         IN  /\ WF(g, s, e, {}) /\ Hdrs(g) = Hdrs(hp) \cup {e} /\ e \notin Hdrs(hp)
             /\ g.cused = hp.cused \cup {e} /\ f \in g.cused /\ g.csize[f] = e - f
             /\ \A a \in Hdrs(hp) : a # f => g.csize[a] = hp.csize[a]
  <1> DEFINE g == grow(hp, f, e)
             ps == Put(hp.psize, e, e - f)
             cs == Put(Put(hp.csize, e, 0), f, e - f)
             pu == hp.pused \cup {e}
             cu == hp.cused \cup {e, f}
  <1>0. HeapType(hp) /\ Tiled(hp, s, f) /\ Tagged(hp, s, f, {}) /\ Coal(hp, f) /\ Binned(hp, f, {})
        /\ Counted(hp, f)
    BY DEF WF
  <1>1. g = [hp EXCEPT !.psize = ps, !.pused = pu, !.csize = cs, !.cused = cu]
    BY DEF grow
  <1> HIDE DEF g, ps, cs, pu, cu
  <1>2. /\ g.csize = cs /\ g.psize = ps /\ g.cused = cu /\ g.pused = pu
        /\ g.bins = hp.bins /\ g.binmap = hp.binmap /\ g.free_bytes = hp.free_bytes
    BY <1>0, <1>1 DEF HeapType
  <1>3. f \in Hdrs(hp) /\ f \in Nat /\ \A a \in Hdrs(hp) : a \in Nat /\ a <= f
    <2>1. f \in Hdrs(hp) /\ f \in Nat
      BY <1>0, Zenon DEF Tiled
    <2>2. ASSUME NEW a \in Hdrs(hp) \ {f} PROVE a \in Nat /\ a < f
      BY <1>0, Zenon DEF Tiled
    <2>3. ASSUME NEW a \in Hdrs(hp) PROVE a \in Nat /\ a <= f
      <3>1. CASE a = f
        BY <2>1, <3>1
      <3>2. CASE a # f
        BY <2>1, <2>2, <3>2
      <3>3. QED
        BY <3>1, <3>2
    <2>4. QED
      BY <2>1, <2>3
  <1>4. f < e /\ e \notin Hdrs(hp) /\ f + (e - f) = e
    BY <1>3 DEF ChunkSize, SIZE_ALIGN
  <1>5. /\ cs \in [Hdrs(hp) \cup {e} -> Nat] /\ cs[f] = e - f /\ cs[e] = 0
        /\ \A a \in Hdrs(hp) : a # f => cs[a] = hp.csize[a]
    BY <1>0, <1>3, <1>4 DEF cs, Put, ChunkSize, HeapType, Hdrs
  <1>6. /\ ps \in [Hdrs(hp) \cup {e} -> Nat] /\ ps[e] = e - f
        /\ \A a \in Hdrs(hp) : ps[a] = hp.psize[a]
    BY <1>0, <1>3, <1>4 DEF ps, Put, ChunkSize, HeapType, Hdrs
  <1>7. cu = hp.cused \cup {e} /\ f \in hp.cused
    BY <1>0 DEF cu, Tagged
  <1>8. Hdrs(g) = Hdrs(hp) \cup {e}
    BY <1>2, <1>5 DEF Hdrs
  <1>9. HeapType(g)
    <2>1. cu \in SUBSET (Hdrs(hp) \cup {e}) /\ pu \in SUBSET (Hdrs(hp) \cup {e})
      BY <1>0, <1>7 DEF HeapType, Hdrs, pu
    <2>2. hp.bins \in [Bins -> Seq(Hdrs(hp) \cup {e})]
      <3>1. ASSUME NEW k \in Bins PROVE hp.bins[k] \in Seq(Hdrs(hp) \cup {e})
        <4>1. hp.bins[k] \in Seq(Hdrs(hp)) /\ Range(hp.bins[k]) \subseteq Hdrs(hp) \cup {e}
          BY <1>0 DEF HeapType, Binned, Hdrs
        <4>2. QED
          BY <4>1, SeqRange
      <3>2. QED
        BY <1>0, <3>1 DEF HeapType
    <2>3. DOMAIN cs = Hdrs(hp) \cup {e}
      BY <1>5
    <2>4. QED
      BY <1>0, <1>1, <1>2, <1>5, <1>6, <2>1, <2>2, <2>3 DEF HeapType
  <1>10. Tiled(g, s, e)
    <2>1. ASSUME NEW a \in Hdrs(g) \ {e}
          PROVE  /\ a \in Nat /\ s <= a /\ a < e
                 /\ ChunkSize(cs[a])
                 /\ a + cs[a] \in Hdrs(g)
                 /\ \A b \in Hdrs(g) : b <= a \/ a + cs[a] <= b
      <3>1. CASE a = f
        BY <1>0, <1>3, <1>4, <1>5, <1>8, <3>1 DEF Tiled
      <3>2. CASE a # f
        <4>1. a \in Hdrs(hp) \ {f} /\ cs[a] = hp.csize[a]
          BY <1>5, <1>8, <3>2
        <4>2. a + cs[a] <= f
          BY <1>0, <1>3, <4>1 DEF Tiled
        <4>3. QED
          BY <1>0, <1>3, <1>4, <1>8, <4>1, <4>2 DEF Tiled, ChunkSize
      <3>3. QED
        BY <3>1, <3>2
    <2>2. ASSUME NEW b \in Hdrs(g) \ {s}
          PROVE  \E a \in Hdrs(g) \ {e} : a + cs[a] = b
      <3>1. CASE b = e
        BY <1>3, <1>4, <1>5, <1>8, <3>1
      <3>2. CASE b # e
        <4>1. PICK a \in Hdrs(hp) \ {f} : a + hp.csize[a] = b
          BY <1>0, <1>8, <3>2 DEF Tiled
        <4>2. QED
          BY <1>4, <1>5, <1>8, <4>1
      <3>3. QED
        BY <3>1, <3>2
    <2>3. QED
      BY <1>0, <1>2, <1>4, <1>5, <1>8, <2>1, <2>2 DEF Tiled
  <1>11. Tagged(g, s, e, {})
    <2>1. ASSUME NEW a \in Hdrs(g) \ {e}
          PROVE  /\ ps[a + cs[a]] = cs[a]
                 /\ a + cs[a] \in pu <=> a \in cu
      <3>1. CASE a = f
        BY <1>4, <1>5, <1>6, <1>7, <3>1 DEF pu
      <3>2. CASE a # f
        <4>1. a \in Hdrs(hp) \ {f} /\ cs[a] = hp.csize[a]
          BY <1>5, <1>8, <3>2
        <4>2. a + cs[a] \in Hdrs(hp) /\ a + cs[a] # e
          BY <1>0, <1>4, <4>1 DEF Tiled
        <4>3. QED
          BY <1>0, <1>4, <1>6, <1>7, <4>1, <4>2 DEF Tagged, pu
      <3>3. QED
        BY <3>1, <3>2
    <2>2. QED
      BY <1>0, <1>2, <1>7, <2>1 DEF Tagged, pu
  <1>12. Coal(g, e)
    BY <1>0, <1>2, <1>5, <1>7, <1>8 DEF Coal
  <1>13. Binned(g, e, {})
    <2>1. ASSUME NEW k \in Bins
          PROVE  {a \in (Hdrs(g) \ {e}) \ (g.cused \cup {}) : bin_index(g.csize[a]) = k}
                 = {a \in (Hdrs(hp) \ {f}) \ (hp.cused \cup {}) : bin_index(hp.csize[a]) = k}
      BY <1>2, <1>4, <1>5, <1>7, <1>8
    <2>2. QED
      BY <1>0, <1>2, <2>1 DEF Binned
  <1>14. Counted(g, e)
    <2>1. Frees(g, e) = Frees(hp, f) /\ \A a \in Frees(hp, f) : g.csize[a] = hp.csize[a]
      BY <1>2, <1>4, <1>5, <1>7, <1>8 DEF Frees
    <2>2. QED
      BY <1>0, <1>2, <2>1, CountSame
  <1>15. QED
    BY <1>2, <1>4, <1>5, <1>7, <1>8, <1>9, <1>10, <1>11, <1>12, <1>13, <1>14 DEF WF, g

\* The word psize leads to the previous chunk when that chunk is free.
LEMMA PrevChunk ==
  ASSUME NEW hp, NEW s, NEW f, WF(hp, s, f, {}), NEW c \in Hdrs(hp) \ {f}
  PROVE  /\ prev_free(hp, c) > 0 <=> c \notin hp.pused
         /\ c \notin hp.pused =>
              /\ PREV_CHUNK(hp, c) \in Hdrs(hp) \ {f}
              /\ PREV_CHUNK(hp, c) \notin hp.cused
              /\ PREV_CHUNK(hp, c) + hp.csize[PREV_CHUNK(hp, c)] = c
              /\ hp.psize[c] = hp.csize[PREV_CHUNK(hp, c)]
  <1>1. CASE c \in hp.pused
    BY <1>1 DEF prev_free
  <1>2. CASE c \notin hp.pused
    <2>1. c # s
      BY <1>2 DEF WF, Tagged
    <2>2. PICK a \in Hdrs(hp) \ {f} : a + hp.csize[a] = c
      BY <2>1 DEF WF, Tiled
    <2>3. hp.psize[c] = hp.csize[a] /\ a \notin hp.cused
      BY <1>2, <2>2 DEF WF, Tagged
    <2>4. a \in Nat /\ ChunkSize(hp.csize[a])
      BY DEF WF, Tiled
    <2>5. PREV_CHUNK(hp, c) = a
      BY <2>2, <2>3, <2>4 DEF PREV_CHUNK, ChunkSize
    <2>6. prev_free(hp, c) > 0
      BY <1>2, <2>3, <2>4 DEF prev_free, ChunkSize, SIZE_ALIGN
    <2>7. QED
      BY <1>2, <2>2, <2>3, <2>5, <2>6
  <1>3. QED
    BY <1>1, <1>2

\* Merging with the previous chunk, when it is free.
LEMMA MergePrevWF ==
  ASSUME NEW hp, NEW s, NEW f, WF(hp, s, f, {}), NEW c \in Hdrs(hp) \ {f},
         c \in hp.cused, c \notin hp.pused
  PROVE  LET g == merge_prev(hp, c)
             p == PREV_CHUNK(hp, c)
         IN  /\ WF(g, s, f, {p}) /\ p \in Hdrs(g) \ {f} /\ p \in g.cused /\ p \in g.pused
             /\ p \notin hp.cused /\ p + g.csize[p] = c + hp.csize[c]
             /\ Hdrs(g) = Hdrs(hp) \ {c}
             /\ g.cused = (hp.cused \ {c}) \cup {p}
             /\ \A a \in Hdrs(g) : a # p => g.csize[a] = hp.csize[a]
  <1> DEFINE p == PREV_CHUNK(hp, c)
             u == unbin(hp, p, bin_index(hp.csize[p]))
             g == absorb(u, p, c)
  <1>1. /\ p \in Hdrs(hp) \ {f} /\ p \notin hp.cused
        /\ p + hp.csize[p] = c /\ hp.psize[c] = hp.csize[p]
    BY PrevChunk
  <1>2. merge_prev(hp, c) = g
    BY <1>1 DEF merge_prev
  <1> HIDE DEF p
  <1>3. /\ WF(u, s, f, {}) /\ u.csize = hp.csize /\ u.psize = hp.psize
        /\ u.cused = hp.cused \cup {p} /\ u.pused = hp.pused \cup {c}
    BY <1>1, UnbinWF
  <1> HIDE DEF u
  <1>5. p \in Nat /\ c \in Nat /\ ChunkSize(hp.csize[p]) /\ ChunkSize(hp.csize[c])
    BY <1>1 DEF WF, Tiled
  <1>6. p # c
    BY <1>1, <1>5 DEF ChunkSize, SIZE_ALIGN
  <1> DEFINE N == {}
             P == N \cup {p}
  <1>n. WF(u, s, f, N)
    BY <1>3
  <1> HIDE DEF N, P
  <1>4. /\ WF(g, s, f, P)
        /\ Hdrs(g) = Hdrs(u) \ {c}
        /\ g.csize[p] = u.csize[p] + u.csize[c]
        /\ \A a \in Hdrs(g) : a # p => g.csize[a] = u.csize[a]
        /\ g.cused = u.cused \ {c} /\ g.pused = u.pused \ {c}
    <2>1. p \in Hdrs(u) \ {f} /\ c = p + u.csize[p] /\ c # f /\ p \in u.cused /\ c \in u.cused
      BY <1>1, <1>3 DEF Hdrs
    <2>2. WF(absorb(u, p, c), s, f, N \cup {p})
      BY <1>n, <2>1, AbsorbWF
    <2>3. HeapType(u) /\ p \in Hdrs(u) /\ c \in Hdrs(u) /\ p # c
      BY <1>1, <1>3, <1>6 DEF WF, Hdrs
    <2>4. QED
      BY <2>2, <2>3, AbsorbFrame DEF P
  <1> HIDE DEF g
  <1>7. p \in hp.pused
    <2>1. CASE p = s
      BY <2>1 DEF WF, Tagged
    <2>2. CASE p # s
      <3>1. PICK a \in Hdrs(hp) \ {f} : a + hp.csize[a] = p
        BY <1>1, <2>2 DEF WF, Tiled
      <3>2. a \in hp.cused
        BY <1>1, <3>1 DEF WF, Coal
      <3>3. QED
        BY <3>1, <3>2 DEF WF, Tagged
    <2>3. QED
      BY <2>1, <2>2
  <1>8. p + g.csize[p] = c + hp.csize[c]
    BY <1>1, <1>3, <1>4, <1>5, <1>6 DEF ChunkSize, Hdrs
  <1>9. Hdrs(g) = Hdrs(hp) \ {c} /\ \A a \in Hdrs(g) : a # p => g.csize[a] = hp.csize[a]
    BY <1>3, <1>4 DEF Hdrs
  <1>10. P = {p}
    BY DEF P, N
  <1>11. QED
    BY <1>1, <1>2, <1>3, <1>4, <1>6, <1>7, <1>8, <1>9, <1>10 DEF p

\* Merging with the next chunk, when it is free.
LEMMA MergeNextWF ==
  ASSUME NEW hp, NEW s, NEW f, NEW c \in Hdrs(hp) \ {f}, WF(hp, s, f, {c}),
         c \in hp.cused, c + hp.csize[c] \notin hp.cused
  PROVE  LET g == merge_next(hp, c)
         IN  /\ WF(g, s, f, {c}) /\ c \in Hdrs(g) \ {f} /\ c \in g.cused
             /\ (c \in hp.pused => c \in g.pused)
             /\ c + g.csize[c] \in g.cused
             /\ g.cused = hp.cused
             /\ \A a \in Hdrs(g) : a # c => g.csize[a] = hp.csize[a]
  <1> DEFINE x == c + hp.csize[c]
             u == unbin(hp, x, bin_index(hp.csize[x]))
             g == absorb(u, c, x)
  <1>1. x \in Hdrs(hp) \ {f} /\ x \notin hp.cused /\ c \in Nat /\ ChunkSize(hp.csize[c])
    BY DEF WF, Tiled, Tagged
  <1>2. merge_next(hp, c) = g
    BY DEF merge_next, NEXT_CHUNK
  <1>x. c + hp.csize[c] = x
    OBVIOUS
  <1> HIDE DEF x
  <1>3. /\ WF(u, s, f, {c}) /\ u.csize = hp.csize /\ u.psize = hp.psize
        /\ u.cused = hp.cused \cup {x} /\ u.pused = hp.pused \cup {x + hp.csize[x]}
    BY <1>1, UnbinWF
  <1> HIDE DEF u
  <1>5. x \in Nat /\ ChunkSize(hp.csize[x]) /\ x + hp.csize[x] \in hp.cused
    BY <1>1 DEF WF, Tiled, Coal
  <1>6. x # c /\ x + hp.csize[x] # x
    BY <1>1, <1>5, <1>x DEF ChunkSize, SIZE_ALIGN
  <1> DEFINE N == {c}
             P == N \cup {c}
  <1>n. WF(u, s, f, N)
    BY <1>3
  <1> HIDE DEF N, P
  <1>4. /\ WF(g, s, f, P)
        /\ Hdrs(g) = Hdrs(u) \ {x}
        /\ g.csize[c] = u.csize[c] + u.csize[x]
        /\ \A a \in Hdrs(g) : a # c => g.csize[a] = u.csize[a]
        /\ g.cused = u.cused \ {x} /\ g.pused = u.pused \ {x}
    <2>1. c \in Hdrs(u) \ {f} /\ x = c + u.csize[c] /\ x # f /\ c \in u.cused /\ x \in u.cused
      BY <1>1, <1>3, <1>x DEF Hdrs
    <2>2. WF(absorb(u, c, x), s, f, N \cup {c})
      BY <1>n, <2>1, AbsorbWF
    <2>3. HeapType(u) /\ c \in Hdrs(u) /\ x \in Hdrs(u) /\ c # x
      BY <1>1, <1>3, <1>6 DEF WF, Hdrs
    <2>4. QED
      BY <2>2, <2>3, AbsorbFrame DEF P
  <1> HIDE DEF g
  <1>7. c + g.csize[c] = x + hp.csize[x]
    BY <1>1, <1>3, <1>4, <1>5, <1>6, <1>x DEF ChunkSize, Hdrs
  <1>8. Hdrs(g) = Hdrs(hp) \ {x} /\ \A a \in Hdrs(g) : a # c => g.csize[a] = hp.csize[a]
    BY <1>3, <1>4 DEF Hdrs
  <1>9. g.cused = hp.cused
    BY <1>1, <1>3, <1>4
  <1>10. P = {c}
    BY DEF P, N
  <1>11. c \in hp.pused => c \in g.pused
    BY <1>3, <1>4, <1>6
  <1>12. QED
    BY <1>2, <1>4, <1>5, <1>6, <1>7, <1>8, <1>9, <1>10, <1>11 DEF x

\* next_free() finds the next chunk exactly when it is free.
LEMMA NextFree ==
  ASSUME NEW hp, NEW s, NEW f, WF(hp, s, f, {}), NEW c \in Hdrs(hp) \ {f}
  PROVE  next_free(hp, c) > 0 <=> c + hp.csize[c] \notin hp.cused
  <1> DEFINE x == c + hp.csize[c]
  <1>1. x \in Hdrs(hp)
    BY DEF WF, Tiled
  <1> HIDE DEF x
  <1>2. CASE x \in hp.cused
    BY <1>2 DEF next_free, NEXT_CHUNK, x
  <1>3. CASE x \notin hp.cused
    <2>1. x \in Hdrs(hp) \ {f}
      BY <1>1, <1>3 DEF WF, Tagged
    <2>2. ChunkSize(hp.csize[x])
      BY <2>1 DEF WF, Tiled
    <2>3. next_free(hp, c) = hp.csize[x]
      BY <1>3 DEF next_free, NEXT_CHUNK, x
    <2>4. QED
      BY <1>3, <2>2, <2>3 DEF ChunkSize, SIZE_ALIGN, x
  <1>4. QED
    BY <1>2, <1>3

\* __bin_chunk() on a used chunk: the heap is well formed, the chunk is no
\* longer in use, and the chunks in use are otherwise untouched.
LEMMA FreeWF ==
  ASSUME NEW hp, NEW s, NEW f, WF(hp, s, f, {}), NEW c \in Hdrs(hp) \ {f}, c \in hp.cused
  PROVE  LET g == release(coalesce(hp, c), freed_chunk(hp, c))
         IN  /\ WF(g, s, f, {})
             /\ g.cused = hp.cused \ {c}
             /\ \A a \in hp.cused \ {c} : g.csize[a] = hp.csize[a]
             /\ freed_chunk(hp, c) \in Hdrs(g) \ {f}
             /\ freed_chunk(hp, c) \notin g.cused
             /\ g.csize = coalesce(hp, c).csize
  <1> DEFINE q  == freed_chunk(hp, c)
             h1 == IF prev_free(hp, c) > 0 THEN merge_prev(hp, c) ELSE hp
             h2 == coalesce(hp, c)
             x  == c + hp.csize[c]
             g  == release(h2, q)
  <1>1. x \in Hdrs(hp) /\ c \in Nat /\ ChunkSize(hp.csize[c])
    BY DEF WF, Tiled
  <1>2. x # c
    BY <1>1 DEF ChunkSize, SIZE_ALIGN
  <1>3. h2 = IF next_free(hp, c) > 0 THEN merge_next(h1, q) ELSE h1
    BY DEF coalesce
  <1> HIDE DEF x, h2, g
  <1>4. /\ WF(h1, s, f, {q}) /\ q \in Hdrs(h1) \ {f} /\ q \in h1.cused /\ q \in h1.pused
        /\ q + h1.csize[q] = x
        /\ h1.cused = (hp.cused \ {c}) \cup {q} /\ q \notin hp.cused \ {c}
        /\ \A a \in Hdrs(h1) : a # q => h1.csize[a] = hp.csize[a]
        /\ Hdrs(h1) \subseteq Hdrs(hp) /\ Hdrs(hp) \subseteq Hdrs(h1) \cup {c}
    <2>1. CASE c \in hp.pused
      <3>1. ~(prev_free(hp, c) > 0)
        BY <2>1, PrevChunk
      <3>2. h1 = hp /\ q = c
        BY <3>1 DEF freed_chunk
      <3>3. WF(hp, s, f, {c})
        BY DEF WF, Tagged
      <3>4. QED
        BY <2>1, <3>2, <3>3 DEF x
    <2>2. CASE c \notin hp.pused
      <3>1. prev_free(hp, c) > 0
        BY <2>2, PrevChunk
      <3>2. h1 = merge_prev(hp, c) /\ q = PREV_CHUNK(hp, c)
        BY <3>1 DEF freed_chunk
      <3> HIDE DEF h1, q
      <3>3. QED
        BY <2>2, <3>2, MergePrevWF DEF x
    <2>3. QED
      BY <2>1, <2>2
  <1> HIDE DEF h1, q
  <1>5. x \in h1.cused <=> x \in hp.cused
    <2>1. x # q
      BY <1>4 DEF WF, Tiled, ChunkSize, SIZE_ALIGN
    <2>2. QED
      BY <1>2, <1>4, <2>1
  <1>6. /\ WF(h2, s, f, {q}) /\ q \in Hdrs(h2) \ {f} /\ q \in h2.cused /\ q \in h2.pused
        /\ q + h2.csize[q] \in h2.cused /\ h2.cused = h1.cused
        /\ \A a \in h2.cused : a # q => h2.csize[a] = h1.csize[a]
    <2>1. CASE x \in hp.cused
      <3>1. h2 = h1
        BY <1>3, <2>1, NextFree DEF x
      <3>2. QED
        BY <1>4, <1>5, <2>1, <3>1
    <2>2. CASE x \notin hp.cused
      <3>1. h2 = merge_next(h1, q)
        BY <1>3, <2>2, NextFree DEF x
      <3>2. q + h1.csize[q] \notin h1.cused
        BY <1>4, <1>5, <2>2
      <3>3. /\ WF(h2, s, f, {q}) /\ q \in Hdrs(h2) \ {f} /\ q \in h2.cused
            /\ q \in h2.pused /\ q + h2.csize[q] \in h2.cused
            /\ h2.cused = h1.cused
            /\ \A a \in Hdrs(h2) : a # q => h2.csize[a] = h1.csize[a]
        <4>1. WF(h1, s, f, {q}) /\ q \in Hdrs(h1) \ {f} /\ q \in h1.cused /\ q \in h1.pused
          BY <1>4
        <4> DEFINE m == merge_next(h1, q)
        <4>2. /\ WF(m, s, f, {q}) /\ q \in Hdrs(m) \ {f} /\ q \in m.cused
              /\ (q \in h1.pused => q \in m.pused)
              /\ q + m.csize[q] \in m.cused
              /\ m.cused = h1.cused
              /\ \A a \in Hdrs(m) : a # q => m.csize[a] = h1.csize[a]
          BY <4>1, <3>2, MergeNextWF, Zenon
        <4>3. h2 = m
          BY <3>1
        <4> HIDE DEF m
        <4>4. QED
          BY <4>1, <4>2, <4>3
      <3>4. h2.cused \subseteq Hdrs(h2)
        BY <3>3 DEF WF, HeapType, Hdrs
      <3>5. QED
        BY <3>3, <3>4
    <2>3. QED
      BY <2>1, <2>2
  <1>7. /\ WF(g, s, f, {}) /\ g.csize = h2.csize /\ g.cused = h2.cused \ {q}
    BY <1>6, ReleaseWF DEF g
  <1>8. g.cused = hp.cused \ {c}
    BY <1>4, <1>6, <1>7
  <1>9. h1.cused \subseteq Hdrs(h1)
    BY <1>4 DEF WF, HeapType, Hdrs
  <1>10. \A a \in hp.cused \ {c} : g.csize[a] = hp.csize[a]
    BY <1>4, <1>6, <1>7, <1>9
  <1>11. q \in Hdrs(g) \ {f} /\ q \notin g.cused
    BY <1>6, <1>7 DEF Hdrs
  <1>12. QED
    BY <1>7, <1>8, <1>10, <1>11 DEF g, h2, q

\* The chunks of a heap add up to its length: the sizes of the chunks below a
\* header lead from the first chunk to that header.
LEMMA HeapLength ==
  ASSUME NEW hp, NEW s, NEW f, NEW X, WF(hp, s, f, X)
  PROVE  Total(hp.csize, Hdrs(hp) \ {f}) = f - s
  <1> DEFINE Below(k) == {a \in Hdrs(hp) : a < k}
             Bad == {k \in Hdrs(hp) : Total(hp.csize, Below(k)) # k - s}
  <1>1. HeapType(hp) /\ Tiled(hp, s, f)
    BY DEF WF
  <1>2. IsFiniteSet(Hdrs(hp)) /\ \A a \in Hdrs(hp) : hp.csize[a] \in Int
    BY <1>1, FreesFinite
  <1>3. \A k \in Hdrs(hp) : k \in Nat /\ s <= k
    BY <1>1 DEF Tiled
  <1>4. Bad = {}
    <2> SUFFICES ASSUME Bad # {} PROVE FALSE
      OBVIOUS
    <2>1. Bad \in SUBSET Nat
      BY <1>3
    <2>2. PICK k \in Bad : \A j \in Bad : k <= j
      BY <2>1, Least
    <2>3. CASE k = s
      <3>1. Below(k) = {}
        BY <1>3, <2>3
      <3>2. Total(hp.csize, Below(k)) = 0
        BY <3>1, TotalEmpty
      <3>3. QED
        BY <1>3, <2>2, <2>3, <3>2
    <2>4. CASE k # s
      <3>1. PICK a \in Hdrs(hp) \ {f} : a + hp.csize[a] = k
        BY <1>1, <2>2, <2>4 DEF Tiled
      <3>2. /\ a \in Nat /\ ChunkSize(hp.csize[a])
            /\ \A b \in Hdrs(hp) : b <= a \/ k <= b
        BY <1>1, <3>1 DEF Tiled
      <3>3. a < k /\ a \notin Bad
        BY <1>3, <2>2, <3>1, <3>2 DEF ChunkSize, SIZE_ALIGN
      <3>4. Total(hp.csize, Below(a)) = a - s
        BY <3>1, <3>3
      <3>5. Below(k) = Below(a) \cup {a} /\ a \notin Below(a)
        <4>1. a \in Hdrs(hp) /\ a \in Nat /\ k \in Nat
          BY <1>3, <2>2, <3>1
        <4>2. ASSUME NEW b \in Hdrs(hp) PROVE b < k <=> b < a \/ b = a
          <5>1. b \in Nat /\ (b <= a \/ k <= b)
            BY <1>3, <3>2
          <5>2. QED
            BY <3>3, <4>1, <5>1
        <4>3. ~(a < a)
          BY <4>1
        <4>4. QED
          BY <4>1, <4>2, <4>3
      <3>6. Total(hp.csize, Below(k)) = Total(hp.csize, Below(a)) + hp.csize[a]
        <4>1. PICK S, z : S = Below(a) /\ z = hp.csize
          OBVIOUS
        <4>2. S \in SUBSET Hdrs(hp)
          BY <4>1
        <4>3. IsFiniteSet(S) /\ a \notin S /\ z[a] \in Int
              /\ (\A y \in S : z[y] \in Int)
          BY <1>2, <3>1, <3>5, <4>1, <4>2, FS_Subset
        <4>4. Total(z, S \cup {a}) = Total(z, S) + z[a]
          BY <4>3, TotalAdd
        <4>5. QED
          BY <3>5, <4>1, <4>4
      <3>7. s \in Nat /\ k \in Nat /\ hp.csize[a] \in Nat
        BY <1>1, <1>3, <2>2, <3>2 DEF Tiled, ChunkSize
      <3>8. Total(hp.csize, Below(k)) = k - s
        BY <3>1, <3>2, <3>4, <3>6, <3>7
      <3>9. QED
        BY <2>2, <3>8
    <2>5. QED
      BY <2>3, <2>4
  <1>5. f \in Hdrs(hp) /\ Below(f) = Hdrs(hp) \ {f}
    <2>1. f \in Hdrs(hp) /\ f \in Nat /\ \A a \in Hdrs(hp) \ {f} : a < f
      BY <1>1, Zenon DEF Tiled
    <2>2. ~(f < f)
      BY <2>1
    <2>3. QED
      BY <2>1, <2>2
  <1>6. Total(hp.csize, Below(f)) = f - s
    BY <1>4, <1>5
  <1>7. QED
    BY <1>5, <1>6

-----------------------------------------------------------------------------
(* The invariants of MuslMalloc as theorems.  The inductive invariant is the *)
(* well-formed heap and its relation with the blocks the program holds.      *)

\* The heap: nothing before the first expansion, well formed after it.
HeapInv ==
  /\ end \in Nat /\ stored_brk = end
  /\ end = 0 => Empty(h)
  /\ end # 0 => WF(h, FirstChunk, Footer, {}) /\ end <= BrkLimit

\* Blocks: mappings lie above the heap, and every block has its room.
LiveInv ==
  /\ mmaps \in [DOMAIN mmaps -> Nat]
  /\ \A m \in DOMAIN mmaps : m \in Nat /\ m > BrkLimit + OVERHEAD
  /\ live \in [DOMAIN live -> Requests]
  /\ DOMAIN live = (h.cused \ {Footer}) \cup DOMAIN mmaps
  /\ \A c \in DOMAIN mmaps : live[c] <= mmaps[c] - SIZE_ALIGN
  /\ \A c \in h.cused \ {Footer} : live[c] <= h.csize[c] - OVERHEAD

\* The rest: types, and the two ways for a call not to return.
RestInv ==
  /\ stats \in [allocated_bytes : Int, heap_bytes : Int, mmap_bytes : Int]
  /\ reclaim \in Nat \X Nat
  /\ status \in {"ok", "segv"}
  /\ ReclaimSafe

Inv == HeapInv /\ LiveInv /\ RestInv

-----------------------------------------------------------------------------
(* Sizes *)

\* adjust_size() makes room for the header and rounds to a chunk size.
LEMMA AdjustSize ==
  ASSUME NEW req \in Nat
  PROVE  ChunkSize(adjust_size(req)) /\ req + OVERHEAD <= adjust_size(req)
  <1>1. CASE req = 0
    BY <1>1 DEF adjust_size, ChunkSize, SIZE_ALIGN, OVERHEAD
  <1>2. CASE req # 0
    <2> DEFINE v == req + 16
    <2>1. v \in Nat /\ (-v) % 32 \in 0..31 /\ (v + ((-v) % 32)) % 32 = 0
      OBVIOUS
    <2>2. adjust_size(req) = v + ((-v) % 32)
      BY <1>2 DEF adjust_size, align64_up, SIZE_ALIGN, OVERHEAD
    <2>3. adjust_size(req) >= 17
      BY <1>2, <2>1, <2>2
    <2>4. QED
      BY <2>1, <2>2, <2>3 DEF ChunkSize, SIZE_ALIGN, OVERHEAD
  <1>3. QED
    BY <1>1, <1>2

\* Rounding to pages.
LEMMA PageUp ==
  ASSUME NEW v \in Nat
  PROVE  /\ align64_up(v, PAGE_SIZE) \in Nat
         /\ v <= align64_up(v, PAGE_SIZE) /\ align64_up(v, PAGE_SIZE) < v + PAGE_SIZE
         /\ align64_up(v, PAGE_SIZE) % 4096 = 0
  BY DEF align64_up, PAGE_SIZE

\* __expand_heap() asks for whole pages with room for the chunk and a sentinel.
LEMMA Expansion ==
  ASSUME NEW n, ChunkSize(n)
  PROVE  /\ ChunkSize(expansion(n)) /\ ChunkSize(expansion(n) - SIZE_ALIGN)
         /\ n <= expansion(n) - SIZE_ALIGN
  <1>1. n \in Nat /\ n >= 32 /\ n + 32 \in Nat
    BY DEF ChunkSize, SIZE_ALIGN
  <1> DEFINE m == expansion(n)
  <1>2. m \in Nat /\ n + 32 <= m /\ m % 4096 = 0
    BY <1>1, PageUp DEF expansion, SIZE_ALIGN
  <1> HIDE DEF m
  <1>3. m % 32 = 0 /\ (m - 32) % 32 = 0 /\ m - 32 >= 32
    BY <1>1, <1>2
  <1>4. QED
    BY <1>1, <1>2, <1>3 DEF ChunkSize, SIZE_ALIGN, m

\* A set of bins that is not empty has a first one.
LEMMA FirstSet ==
  ASSUME NEW S \in SUBSET Nat, S # {}
  PROVE  first_set(S) \in S
  <1> DEFINE R == {ss \in Nat \X Nat : ss[1] < ss[2]}
  <1>1. IsWellFoundedOn(R, Nat)
    BY NatLessThanWellFounded, Zenon DEF OpToRel
  <1> HIDE DEF R
  <1>2. PICK j \in S : \A k \in S : ~(<<k, j>> \in R)
    BY <1>1, WFMin
  <1>3. \A k \in S : j <= k
    <2>1. SUFFICES ASSUME NEW k \in S, k < j PROVE FALSE
      OBVIOUS
    <2> DEFINE ss == <<k, j>>
    <2>2. ss \in Nat \X Nat /\ ss[1] < ss[2]
      BY <2>1
    <2> HIDE DEF ss
    <2>3. ss \in R
      BY <2>2 DEF R
    <2>4. QED
      BY <1>2, <2>3 DEF ss
  <1>4. QED
    BY <1>3 DEF first_set

\* Headers lie between the first chunk and the footer.
LEMMA HeaderRange ==
  ASSUME HeapInv
  PROVE  /\ \A a \in Hdrs(h) : a \in Nat /\ FirstChunk <= a /\ a < BrkLimit
         /\ h.cused \subseteq Hdrs(h) /\ h.pused \subseteq Hdrs(h)
  <1>1. CASE end = 0
    BY <1>1 DEF HeapInv, Empty, Hdrs, HeapType
  <1>2. CASE end # 0
    <2>1. WF(h, FirstChunk, Footer, {}) /\ end <= BrkLimit /\ end \in Nat
      BY <1>2 DEF HeapInv
    <2>2. \A a \in Hdrs(h) : a \in Nat /\ FirstChunk <= a /\ a <= Footer
      BY <2>1 DEF WF, Tiled
    <2>3. Footer < BrkLimit /\ Footer \in Nat
      BY <2>1, BrkAssumption DEF Footer, OVERHEAD, WF, Tiled
    <2>4. FirstChunk \in Nat
      BY BrkAssumption DEF FirstChunk, OVERHEAD
    <2>5. \A a \in Hdrs(h) : a < BrkLimit
      BY <2>1, <2>2, <2>3, BrkAssumption
    <2>6. h.cused \subseteq Hdrs(h) /\ h.pused \subseteq Hdrs(h)
      BY <2>1 DEF WF, HeapType, Hdrs
    <2>7. QED
      BY <2>2, <2>5, <2>6
  <1>3. QED
    BY <1>1, <1>2

\* No header of the heap is a mapping.
LEMMA Apart ==
  ASSUME HeapInv, LiveInv
  PROVE  \A m \in DOMAIN mmaps : m \notin Hdrs(h)
  BY HeaderRange, BrkAssumption DEF LiveInv, OVERHEAD

\* A block given out of the heap: the chunk c, so far free or not there, is now
\* in use and large enough, and the other used chunks are as they were.
LEMMA HeapBlock ==
  ASSUME HeapInv, LiveInv, NEW req \in Requests, NEW c, c \notin DOMAIN mmaps,
         h'.cused \ {Footer'} = (h.cused \ {Footer}) \cup {c},
         \A a \in (h.cused \ {Footer}) \ {c} : h'.csize[a] = h.csize[a],
         req <= h'.csize[c] - OVERHEAD,
         mmaps' = mmaps, live' = Put(live, c, req)
  PROVE  LiveInv'
  <1> USE DEF LiveInv, Put
  <1>1. /\ mmaps' \in [DOMAIN mmaps' -> Nat]
        /\ \A m \in DOMAIN mmaps' : m \in Nat /\ m > BrkLimit + OVERHEAD
    OBVIOUS
  <1>2. DOMAIN live' = DOMAIN live \cup {c} /\ live' \in [DOMAIN live' -> Requests]
    OBVIOUS
  <1>3. live'[c] = req /\ \A a \in DOMAIN live \ {c} : live'[a] = live[a]
    OBVIOUS
  <1>4. DOMAIN live' = (h'.cused \ {Footer'}) \cup DOMAIN mmaps'
    BY <1>2
  <1>5. \A a \in DOMAIN mmaps' : live'[a] <= mmaps'[a] - SIZE_ALIGN
    BY <1>3
  <1>6. \A a \in h'.cused \ {Footer'} : live'[a] <= h'.csize[a] - OVERHEAD
    BY <1>3
  <1>7. QED
    BY <1>1, <1>2, <1>4, <1>5, <1>6

\* A request becomes a chunk size.
LEMMA Request ==
  ASSUME NEW req \in Requests
  PROVE  req \in Nat /\ ChunkSize(adjust_size(req)) /\ req + OVERHEAD <= adjust_size(req)
  BY AdjustSize, RequestsAssumption

\* The head of a bin is a free chunk of that bin.
LEMMA HeadOfBin ==
  ASSUME NEW s, NEW f, WF(h, s, f, {}), NEW i \in Bins, h.bins[i] # <<>>
  PROVE  LET c == Head(h.bins[i])
         IN  /\ c \in Hdrs(h) \ {f} /\ c \notin h.cused
             /\ ChunkSize(h.csize[c]) /\ bin_index(h.csize[c]) = i
             /\ c + h.csize[c] \in h.cused
  <1> DEFINE q == h.bins[i]
             c == Head(q)
  <1>1. q \in Seq(Hdrs(h)) /\ q # <<>>
    BY DEF WF, HeapType, Hdrs
  <1>2. Range(q) = {a \in (Hdrs(h) \ {f}) \ (h.cused \cup {}) : bin_index(h.csize[a]) = i}
    BY DEF WF, Binned
  <1> HIDE DEF q
  <1>3. c \in Range(q)
    <2>1. 1 \in DOMAIN q /\ c = q[1]
      BY <1>1
    <2>2. QED
      BY <2>1 DEF Range
  <1> HIDE DEF c
  <1>4. c \in Hdrs(h) \ {f} /\ c \notin h.cused /\ bin_index(h.csize[c]) = i
    BY <1>2, <1>3
  <1>5. ChunkSize(h.csize[c]) /\ c + h.csize[c] \in h.cused
    BY <1>4 DEF WF, Tiled, Coal
  <1>6. QED
    BY <1>4, <1>5 DEF c, q

-----------------------------------------------------------------------------
(* One lemma per action *)

\* A step that empties no pages.
LEMMA NoReclaim ==
  ASSUME reclaim' = NoRange
  PROVE  reclaim' \in Nat \X Nat /\ ReclaimSafe'
  BY DEF NoRange, ReclaimSafe

\* A call of musl_malloc() that takes a chunk of the heap which no block uses;
\* the chunks of the other blocks keep their sizes.
NewBlock(req) ==
  /\ mmaps' = mmaps
  /\ \E c \in Nat :
       /\ c \notin DOMAIN live /\ live' = Put(live, c, req) /\ h'.csize[c] \in Nat
       /\ stats'.allocated_bytes = stats.allocated_bytes + h'.csize[c]
  /\ \A a \in DOMAIN live \ DOMAIN mmaps : h'.csize[a] = h.csize[a]

\* A call of musl_free() on a chunk of the heap.
HeapFreed(c) ==
  /\ mmaps' = mmaps /\ c \notin DOMAIN mmaps /\ live' = Drop(live, c)
  /\ h.csize[c] \in Nat
  /\ stats'.allocated_bytes = stats.allocated_bytes - h.csize[c]
  /\ \A a \in (DOMAIN live \ DOMAIN mmaps) \ {c} : h'.csize[a] = h.csize[a]

LEMMA MmapStep ==
  ASSUME Inv, NEW req \in Requests, malloc_mmap(req)
  PROVE  Inv'
  <1> DEFINE n == adjust_size(req)
             len == align64_up(n + OVERHEAD, PAGE_SIZE)
  <1>1. PICK base \in MmapBases :
          /\ base > BrkLimit
          /\ mmaps' = Put(mmaps, base + SIZE_ALIGN - OVERHEAD, len)
          /\ live' = Put(live, base + SIZE_ALIGN - OVERHEAD, req)
          /\ stats' = [stats EXCEPT !.mmap_bytes = @ + len,
                                    !.allocated_bytes = @ + len - OVERHEAD]
    BY DEF malloc_mmap
  <1>2. reclaim' = NoRange /\ UNCHANGED <<h, end, stored_brk, status>>
    BY DEF malloc_mmap
  <1>3. req \in Nat /\ n \in Nat /\ n + OVERHEAD \in Nat /\ req + 16 <= n
    BY Request DEF ChunkSize, OVERHEAD
  <1>4. len \in Nat /\ req <= len - 32
    BY <1>3, PageUp DEF OVERHEAD
  <1> DEFINE c == base + 16
  <1>5. c \in Nat /\ c > BrkLimit + 16 /\ c = base + SIZE_ALIGN - OVERHEAD
    BY <1>1, MmapAssumption, BrkAssumption DEF SIZE_ALIGN, OVERHEAD
  <1> HIDE DEF n, len, c
  <1>6. HeapInv'
    BY <1>2 DEF Inv, HeapInv, Footer, Empty
  <1>7. c \notin h.cused
    BY <1>5, HeaderRange, BrkAssumption DEF Inv
  <1>8. mmaps' = Put(mmaps, c, len) /\ live' = Put(live, c, req)
    BY <1>1, <1>5
  <1>9. LiveInv'
    <2>1. /\ DOMAIN mmaps' = DOMAIN mmaps \cup {c} /\ DOMAIN live' = DOMAIN live \cup {c}
          /\ mmaps'[c] = len /\ live'[c] = req
          /\ \A a \in DOMAIN mmaps \ {c} : mmaps'[a] = mmaps[a]
          /\ \A a \in DOMAIN live \ {c} : live'[a] = live[a]
          /\ mmaps' \in [DOMAIN mmaps' -> Nat] /\ live' \in [DOMAIN live' -> Requests]
      BY <1>4, <1>8 DEF Put, Inv, LiveInv
    <2>2. Footer' = Footer /\ h' = h
      BY <1>2 DEF Footer
    <2>3. DOMAIN live' = (h'.cused \ {Footer'}) \cup DOMAIN mmaps'
      BY <2>1, <2>2 DEF Inv, LiveInv
    <2>4. \A m \in DOMAIN mmaps' : m \in Nat /\ m > BrkLimit + OVERHEAD
      BY <1>5, <2>1 DEF Inv, LiveInv, OVERHEAD
    <2>5. \A a \in DOMAIN mmaps' : live'[a] <= mmaps'[a] - SIZE_ALIGN
      BY <1>4, <2>1 DEF Inv, LiveInv, SIZE_ALIGN
    <2>6. \A a \in h'.cused \ {Footer'} : live'[a] <= h'.csize[a] - OVERHEAD
      BY <1>7, <2>1, <2>2 DEF Inv, LiveInv
    <2>7. QED
      BY <2>1, <2>3, <2>4, <2>5, <2>6 DEF LiveInv
  <1>10. stats' \in [allocated_bytes : Int, heap_bytes : Int, mmap_bytes : Int]
    <2> DEFINE T == [allocated_bytes : Int, heap_bytes : Int, mmap_bytes : Int]
    <2>1. stats \in T /\ stats.mmap_bytes + len \in Int
          /\ stats.allocated_bytes + len - OVERHEAD \in Int
      BY <1>4 DEF Inv, RestInv, OVERHEAD
    <2>2. \A v, w \in Int : [stats EXCEPT !.mmap_bytes = v, !.allocated_bytes = w] \in T
      BY <2>1
    <2>3. QED
      BY <1>1, <2>1, <2>2
  <1>11. QED
    BY <1>2, <1>6, <1>9, <1>10, NoReclaim DEF Inv, RestInv

LEMMA FastStep ==
  ASSUME Inv, NEW req \in Requests, malloc_fast(req)
  PROVE  Inv' /\ NewBlock(req)
  <1> DEFINE n == adjust_size(req)
             i == bin_index_up(n)
             c == Head(h.bins[i])
  <1>1. /\ n <= MMAP_THRESHOLD /\ FastFit(n)
        /\ h' = unbin(h, c, i)
        /\ live' = Put(live, c, req)
        /\ stats' = [stats EXCEPT !.allocated_bytes = @ + h.csize[c]]
        /\ reclaim' = NoRange
        /\ end' = end /\ stored_brk' = stored_brk /\ mmaps' = mmaps /\ status' = status
    BY DEF malloc_fast
  <1>2. req \in Nat /\ ChunkSize(n) /\ req + OVERHEAD <= n
    BY Request
  <1>3. i \in Bins
    BY <1>1, <1>2, BinIndexUpType
  <1>4. i \in h.binmap /\ h.bins[i] # <<>> /\ h.csize[c] - n \in 0..DONTCARE
    BY <1>1 DEF FastFit
  <1>5. end # 0 /\ WF(h, FirstChunk, Footer, {}) /\ end <= BrkLimit
    BY <1>4 DEF Inv, HeapInv, Empty
  <1>6. /\ c \in Hdrs(h) \ {Footer} /\ c \notin h.cused
        /\ ChunkSize(h.csize[c]) /\ bin_index(h.csize[c]) = i
    BY <1>3, <1>4, <1>5, HeadOfBin
  <1> HIDE DEF n, i, c
  <1>7. /\ WF(h', FirstChunk, Footer, {}) /\ h'.csize = h.csize
        /\ h'.cused = h.cused \cup {c}
    BY <1>1, <1>5, <1>6, UnbinWF
  <1>8. Footer' = Footer
    BY <1>1 DEF Footer
  <1>9. HeapInv'
    BY <1>1, <1>5, <1>7, <1>8 DEF Inv, HeapInv
  <1>10. c \notin DOMAIN mmaps
    BY <1>6, Apart DEF Inv
  <1>11. req <= h'.csize[c] - OVERHEAD
    <2>1. n \in Nat /\ h.csize[c] \in Nat
      BY <1>2, <1>6 DEF ChunkSize
    <2>2. \A d \in 0..DONTCARE : d >= 0
      BY DEF DONTCARE
    <2>3. h.csize[c] - n >= 0
      BY <1>4, <2>2, Zenon
    <2>4. req <= h.csize[c] - OVERHEAD
      BY <1>2, <2>1, <2>3 DEF OVERHEAD
    <2>5. QED
      BY <1>7, <2>4
  <1>12. h'.cused \ {Footer'} = (h.cused \ {Footer}) \cup {c}
    BY <1>6, <1>7, <1>8
  <1>13. LiveInv'
    BY <1>1, <1>7, <1>10, <1>11, <1>12, HeapBlock DEF Inv
  <1>14. stats' \in [allocated_bytes : Int, heap_bytes : Int, mmap_bytes : Int]
    BY <1>1, <1>6 DEF Inv, RestInv, ChunkSize
  <1>15. NewBlock(req)
    <2>1. stats'.allocated_bytes = stats.allocated_bytes + h'.csize[c] /\ h'.csize[c] \in Nat
      BY <1>1, <1>6, <1>7 DEF Inv, RestInv, ChunkSize
    <2>2. c \in Nat /\ c \notin DOMAIN live
      BY <1>6, <1>10, HeaderRange DEF Inv, LiveInv
    <2>3. QED
      BY <1>1, <1>7, <2>1, <2>2 DEF NewBlock
  <1>16. QED
    BY <1>1, <1>9, <1>13, <1>14, <1>15, NoReclaim DEF Inv, RestInv

LEMMA SlowStep ==
  ASSUME Inv, NEW req \in Requests, malloc_slow(req)
  PROVE  Inv' /\ NewBlock(req)
  <1> DEFINE n == adjust_size(req)
             j == first_set(mask(n))
             c == Head(h.bins[j])
             u == unbin(h, c, j)
             g == trim(u, c, n)
  <1>1. /\ n <= MMAP_THRESHOLD /\ mask(n) # {}
        /\ reclaim' = NoRange
        /\ end' = end /\ stored_brk' = stored_brk /\ mmaps' = mmaps
    BY DEF malloc_slow
  <1>2. h.bins[j] # <<>> =>
          /\ h' = g
          /\ live' = Put(live, c, req)
          /\ stats' = [stats EXCEPT !.allocated_bytes = @ + g.csize[c]]
          /\ status' = status
    BY DEF malloc_slow
  <1>3. req \in Nat /\ ChunkSize(n) /\ req + OVERHEAD <= n
    BY Request
  <1> HIDE DEF n
  <1>4. end # 0 /\ WF(h, FirstChunk, Footer, {}) /\ end <= BrkLimit
    BY <1>1 DEF Inv, HeapInv, Empty, mask
  <1>5. h.binmap \subseteq Bins /\ mask(n) \in SUBSET Nat
    <2>1. h.binmap \subseteq Bins
      BY <1>4 DEF WF, HeapType
    <2>2. QED
      BY <2>1 DEF Bins, mask
  <1>6. j \in h.binmap /\ j >= bin_index_up(n)
    BY <1>1, <1>5, FirstSet DEF mask
  <1>7. h.bins[j] # <<>> /\ j \in Bins
    BY <1>4, <1>5, <1>6 DEF WF, Binned
  <1>8. /\ c \in Hdrs(h) \ {Footer} /\ c \notin h.cused
        /\ ChunkSize(h.csize[c]) /\ bin_index(h.csize[c]) = j
        /\ c + h.csize[c] \in h.cused
    BY <1>4, <1>7, HeadOfBin
  <1>9. n <= h.csize[c]
    <2>1. bin_index_up(n) <= bin_index(h.csize[c])
      <3>1. bin_index_up(n) \in Bins
        BY <1>1, <1>3, BinIndexUpType
      <3>2. QED
        BY <1>6, <1>7, <1>8, <3>1 DEF Bins
    <2>2. QED
      BY <1>1, <1>3, <1>8, <2>1, BinFits
  <1> HIDE DEF j, c
  <1>10. /\ WF(u, FirstChunk, Footer, {}) /\ u.csize = h.csize
         /\ u.cused = h.cused \cup {c}
    BY <1>4, <1>8, UnbinWF
  <1> HIDE DEF u
  <1>11. /\ WF(g, FirstChunk, Footer, {}) /\ g.cused = u.cused /\ n <= g.csize[c]
         /\ \A a \in Hdrs(u) : a # c => g.csize[a] = u.csize[a]
    <2>1. c \in Hdrs(u) \ {Footer} /\ c \in u.cused /\ c + u.csize[c] \in u.cused
          /\ n <= u.csize[c]
      BY <1>8, <1>9, <1>10 DEF Hdrs
    <2>2. QED
      BY <1>3, <1>10, <2>1, TrimWF
  <1> HIDE DEF g
  <1>12. Footer' = Footer
    BY <1>1 DEF Footer
  <1>13. HeapInv'
    BY <1>1, <1>2, <1>4, <1>7, <1>11, <1>12 DEF Inv, HeapInv
  <1>14. c \notin DOMAIN mmaps
    BY <1>8, Apart DEF Inv
  <1>15. g.csize[c] \in Nat
    BY <1>8, <1>10, <1>11 DEF WF, HeapType
  <1>16. req <= g.csize[c] - OVERHEAD
    <2>1. n \in Nat
      BY <1>3 DEF ChunkSize
    <2>2. QED
      BY <1>3, <1>11, <1>15, <2>1 DEF OVERHEAD
  <1>17. h'.cused \ {Footer'} = (h.cused \ {Footer}) \cup {c}
    BY <1>2, <1>7, <1>8, <1>10, <1>11, <1>12
  <1>18. \A a \in (h.cused \ {Footer}) \ {c} : h'.csize[a] = h.csize[a]
    BY <1>2, <1>7, <1>10, <1>11, HeaderRange DEF Inv, Hdrs
  <1>19. LiveInv'
    BY <1>1, <1>2, <1>7, <1>14, <1>16, <1>17, <1>18, HeapBlock DEF Inv
  <1>20. stats' \in [allocated_bytes : Int, heap_bytes : Int, mmap_bytes : Int]
    BY <1>2, <1>7, <1>15 DEF Inv, RestInv
  <1>21. NewBlock(req)
    <2>1. stats'.allocated_bytes = stats.allocated_bytes + h'.csize[c] /\ h'.csize[c] \in Nat
      BY <1>2, <1>7, <1>15 DEF Inv, RestInv
    <2>2. c \in Nat /\ c \notin DOMAIN live
      BY <1>8, <1>14, HeaderRange DEF Inv, LiveInv
    <2>3. \A a \in DOMAIN live \ DOMAIN mmaps : h'.csize[a] = h.csize[a]
      BY <1>18, <2>2 DEF Inv, LiveInv
    <2>4. QED
      BY <1>1, <1>2, <1>7, <2>1, <2>2, <2>3 DEF NewBlock
  <1>22. QED
    BY <1>1, <1>2, <1>7, <1>13, <1>19, <1>20, <1>21, NoReclaim DEF Inv, RestInv

\* expand_heap() and the trim() that follows it.
LEMMA ExpandHeap ==
  ASSUME Inv, NEW n, ChunkSize(n), brk_now + expansion(n) <= BrkLimit,
         end' = brk_now + expansion(n)
  PROVE  LET g == trim(expand_heap(h, expansion(n)), expanded_chunk, n)
         IN  /\ WF(g, FirstChunk, Footer', {}) /\ end' # 0 /\ end' \in Nat
             /\ g.cused \ {Footer'} = (h.cused \ {Footer}) \cup {expanded_chunk}
             /\ expanded_chunk < BrkLimit /\ expanded_chunk \in Nat
             /\ expanded_chunk \notin h.cused \ {Footer}
             /\ n <= g.csize[expanded_chunk] /\ g.csize[expanded_chunk] \in Nat
             /\ \A a \in h.cused \ {Footer} : g.csize[a] = h.csize[a]
  <1> DEFINE m == expansion(n)
             w == expanded_chunk
             e == brk_now + m - 16
             k == expand_heap(h, m)
             g == trim(k, w, n)
  <1>1. /\ m \in Nat /\ m >= 32 /\ m - 32 \in Nat /\ n <= m - 32 /\ n \in Nat
        /\ ChunkSize(m) /\ ChunkSize(m - 32)
    BY Expansion DEF ChunkSize, SIZE_ALIGN
  <1> HIDE DEF m
  <1>2. brk_now \in Nat /\ brk_now > 0 /\ brk_now + m <= BrkLimit
    BY BrkAssumption DEF brk_now, Inv, HeapInv, m
  <1>3. e \in Nat /\ Footer' = e /\ end' \in Nat /\ end' # 0
    BY <1>1, <1>2 DEF Footer, OVERHEAD, m
  <1>4. /\ WF(k, FirstChunk, e, {}) /\ w \in Hdrs(k) \ {e} /\ w \in Nat
        /\ k.cused = (h.cused \ {Footer}) \cup {w, e} /\ e \notin h.cused
        /\ k.csize[w] >= m - 32 /\ w + k.csize[w] = e /\ k.csize[w] \in Nat
        /\ w \notin h.cused \ {Footer}
        /\ \A a \in h.cused \ {Footer} : k.csize[a] = h.csize[a]
        /\ h.cused \ {Footer} \subseteq Hdrs(k)
    <2>1. CASE end = 0
      <3>1. Empty(h) /\ brk_now = BrkStart /\ brk_now # end
        BY <1>2, <2>1 DEF Inv, HeapInv, brk_now
      <3>a. w = FirstChunk /\ w = brk_now + 16 /\ w \in Nat
        BY <3>1, <1>2 DEF expanded_chunk, FirstChunk, SIZE_ALIGN, OVERHEAD
      <3>b. k = grow(sentinel(h, w), w, e)
        BY <3>1 DEF expand_heap, OVERHEAD
      <3>2. w = FirstChunk /\ k = grow(sentinel(h, w), w, e) /\ w = brk_now + 16 /\ w \in Nat
        BY <3>a, <3>b
      <3>3. e - w = m - 32
        BY <1>1, <1>2, <3>2
      <3> HIDE DEF e, w, k
      <3>4. WF(k, w, e, {}) /\ Hdrs(k) = {w, e} /\ k.cused = {w, e} /\ k.csize[w] = e - w
        BY <1>1, <1>3, <3>1, <3>2, <3>3, GrowFresh
      <3>5. h.cused = {}
        BY <3>1 DEF Empty, HeapType
      <3>6. w # e /\ w + (e - w) = e
        BY <1>1, <1>3, <3>2, <3>3 DEF ChunkSize, SIZE_ALIGN
      <3>7. QED
        BY <1>1, <3>2, <3>3, <3>4, <3>5, <3>6
    <2>2. CASE end # 0
      <3>1. WF(h, FirstChunk, Footer, {}) /\ brk_now = end /\ end \in Nat
        BY <2>2 DEF Inv, HeapInv, brk_now
      <3>2. w = Footer /\ k = grow(h, w, e) /\ w \in Nat /\ w = end - 16
        BY <3>1 DEF expanded_chunk, expand_heap, Footer, OVERHEAD, WF, Tiled
      <3>3. e - w = m /\ w + m = e /\ w # e
        BY <1>1, <3>1, <3>2
      <3> HIDE DEF e, w, k
      <3>4. /\ WF(k, FirstChunk, e, {}) /\ Hdrs(k) = Hdrs(h) \cup {e} /\ e \notin Hdrs(h)
            /\ k.cused = h.cused \cup {e} /\ w \in k.cused /\ k.csize[w] = e - w
            /\ \A a \in Hdrs(h) : a # w => k.csize[a] = h.csize[a]
        BY <1>1, <1>3, <3>1, <3>2, <3>3, GrowInPlace
      <3>5. h.cused \subseteq Hdrs(h) /\ w \in Hdrs(h)
        BY <3>1, <3>2 DEF WF, HeapType, Hdrs, Tiled
      <3>6. k.cused = (h.cused \ {Footer}) \cup {w, e}
        BY <3>2, <3>4
      <3>7. k.csize[w] >= m - 32 /\ w + k.csize[w] = e /\ k.csize[w] \in Nat
        BY <1>1, <3>3, <3>4
      <3>8. QED
        BY <3>2, <3>3, <3>4, <3>5, <3>6, <3>7
    <2>3. QED
      BY <2>1, <2>2
  <1> HIDE DEF w, k, e
  <1>5. /\ WF(g, FirstChunk, e, {}) /\ g.cused = k.cused /\ n <= g.csize[w]
        /\ \A a \in Hdrs(k) : a # w => g.csize[a] = k.csize[a]
    <2>1. w \in k.cused /\ w + k.csize[w] \in k.cused /\ n <= k.csize[w]
      BY <1>1, <1>4
    <2>2. QED
      BY <1>4, <2>1, TrimWF
  <1> HIDE DEF g
  <1>6. g.csize[w] \in Nat
    BY <1>4, <1>5 DEF WF, HeapType
  <1>7. w < BrkLimit
    <2>1. w < e
      BY <1>4 DEF WF, Tiled
    <2>2. e < BrkLimit
      BY <1>1, <1>2, BrkAssumption DEF e
    <2>3. QED
      BY <1>3, <1>4, <2>1, <2>2, BrkAssumption
  <1>8. g.cused \ {Footer'} = (h.cused \ {Footer}) \cup {w}
    BY <1>3, <1>4, <1>5
  <1>9. \A a \in h.cused \ {Footer} : g.csize[a] = h.csize[a]
    BY <1>4, <1>5
  <1>10. QED
    BY <1>3, <1>4, <1>5, <1>6, <1>7, <1>8, <1>9 DEF g, k, w, m

LEMMA ExpandStep ==
  ASSUME Inv, NEW req \in Requests, malloc_expand(req)
  PROVE  Inv' /\ (NewBlock(req) \/ UNCHANGED <<h, live, stats>>)
  <1> DEFINE n == adjust_size(req)
             m == expansion(n)
             c == expanded_chunk
             g == trim(expand_heap(h, m), c, n)
  <1>1. req \in Nat /\ ChunkSize(n) /\ req + OVERHEAD <= n
    BY Request
  <1>2. reclaim' = NoRange /\ mmaps' = mmaps
    BY DEF malloc_expand
  <1>3. CASE /\ brk_now + m <= BrkLimit
             /\ h' = g /\ live' = Put(live, c, req)
             /\ stats' = [stats EXCEPT !.heap_bytes = @ + m,
                                       !.allocated_bytes = @ + g.csize[c]]
             /\ end' = brk_now + m /\ stored_brk' = brk_now + m /\ status' = status
    <2> HIDE DEF n
    <2>1. /\ WF(g, FirstChunk, Footer', {}) /\ end' # 0 /\ end' \in Nat
          /\ g.cused \ {Footer'} = (h.cused \ {Footer}) \cup {c}
          /\ c < BrkLimit /\ c \in Nat /\ c \notin h.cused \ {Footer}
          /\ n <= g.csize[c] /\ g.csize[c] \in Nat
          /\ \A a \in h.cused \ {Footer} : g.csize[a] = h.csize[a]
      BY <1>1, <1>3, ExpandHeap
    <2>2. m \in Nat
      BY <1>1, Expansion DEF ChunkSize
    <2> HIDE DEF m, g, c
    <2>3. HeapInv'
      BY <1>3, <2>1 DEF HeapInv
    <2>4. c \notin DOMAIN mmaps
      BY <2>1, BrkAssumption DEF Inv, LiveInv, OVERHEAD
    <2>5. req <= g.csize[c] - OVERHEAD
      <3>1. n \in Nat
        BY <1>1 DEF ChunkSize
      <3>2. QED
        BY <1>1, <2>1, <3>1 DEF OVERHEAD
    <2>6. LiveInv'
      BY <1>2, <1>3, <2>1, <2>4, <2>5, HeapBlock DEF Inv
    <2>7. stats' \in [allocated_bytes : Int, heap_bytes : Int, mmap_bytes : Int]
      <3> DEFINE T == [allocated_bytes : Int, heap_bytes : Int, mmap_bytes : Int]
      <3>1. stats \in T /\ stats.heap_bytes + m \in Int
            /\ stats.allocated_bytes + g.csize[c] \in Int
        BY <2>1, <2>2 DEF Inv, RestInv
      <3>2. \A v, x \in Int : [stats EXCEPT !.heap_bytes = v, !.allocated_bytes = x] \in T
        BY <3>1
      <3>3. QED
        BY <1>3, <3>1, <3>2
    <2>8. NewBlock(req)
      <3>1. stats'.allocated_bytes = stats.allocated_bytes + h'.csize[c] /\ h'.csize[c] \in Nat
        BY <1>3, <2>1 DEF Inv, RestInv
      <3>2. c \in Nat /\ c \notin DOMAIN live
        BY <2>1, <2>4 DEF Inv, LiveInv
      <3>3. \A a \in DOMAIN live \ DOMAIN mmaps : h'.csize[a] = h.csize[a]
        BY <1>3, <2>1 DEF Inv, LiveInv
      <3>4. QED
        BY <1>2, <1>3, <3>1, <3>2, <3>3 DEF NewBlock
    <2>9. QED
      BY <1>2, <1>3, <2>3, <2>6, <2>7, <2>8, NoReclaim DEF Inv, RestInv
  <1>4. CASE status' = "segv" /\ UNCHANGED <<h, live, stats, end, stored_brk>>
    BY <1>2, <1>4, NoReclaim DEF Inv, HeapInv, LiveInv, RestInv, Footer, Empty
  <1>5. QED
    BY <1>3, <1>4 DEF malloc_expand

LEMMA FreeHeapStep ==
  ASSUME Inv, NEW c \in DOMAIN live, free_heap(c)
  PROVE  Inv' /\ HeapFreed(c)
  <1> DEFINE x    == NEXT_CHUNK(h, c)
             self == freed_chunk(h, c)
             h1   == coalesce(h, c)
             size == h1.csize[self]
             g    == release(h1, self)
  <1>1. /\ c \in h.cused /\ live' = Drop(live, c)
        /\ stats' = [stats EXCEPT !.allocated_bytes = @ - h.csize[c]]
        /\ end' = end /\ stored_brk' = stored_brk /\ mmaps' = mmaps
    BY DEF free_heap
  <1>2. h.psize[x] = h.csize[c] /\ x \in h.pused =>
          /\ h' = g /\ reclaim' = reclaimed(self, size, h.csize[c]) /\ status' = status
    BY DEF free_heap
  <1>3. c \in Hdrs(h) /\ c \notin DOMAIN mmaps
    BY <1>1, HeaderRange, Apart DEF Inv
  <1>4. c # Footer
    BY <1>3 DEF Inv, LiveInv
  <1>5. end # 0 /\ WF(h, FirstChunk, Footer, {}) /\ end <= BrkLimit
    BY <1>3 DEF Inv, HeapInv, Empty, Hdrs
  <1>6. h.psize[x] = h.csize[c] /\ x \in h.pused
    BY <1>1, <1>3, <1>4, <1>5 DEF NEXT_CHUNK, WF, Tagged
  <1>7. /\ WF(g, FirstChunk, Footer, {}) /\ g.cused = h.cused \ {c}
        /\ \A a \in h.cused \ {c} : g.csize[a] = h.csize[a]
        /\ self \in Hdrs(g) \ {Footer} /\ self \notin g.cused /\ g.csize = h1.csize
    BY <1>1, <1>3, <1>4, <1>5, FreeWF
  <1>8. h.csize[c] \in Nat
    BY <1>3, <1>5 DEF WF, HeapType, Hdrs
  <1> HIDE DEF x, g, self, h1
  <1>9. h' = g /\ reclaim' = reclaimed(self, size, h.csize[c]) /\ status' = status
    BY <1>2, <1>6
  <1>10. Footer' = Footer
    BY <1>1 DEF Footer
  <1>11. HeapInv'
    BY <1>1, <1>5, <1>7, <1>9, <1>10 DEF HeapInv, Inv
  <1>12. LiveInv'
    <2>1. /\ DOMAIN live' = DOMAIN live \ {c} /\ live' \in [DOMAIN live' -> Requests]
          /\ \A a \in DOMAIN live' : live'[a] = live[a]
      BY <1>1 DEF Drop, Inv, LiveInv
    <2>2. DOMAIN live' = (h'.cused \ {Footer'}) \cup DOMAIN mmaps'
      BY <1>1, <1>3, <1>7, <1>9, <1>10, <2>1 DEF Inv, LiveInv
    <2>3. \A a \in DOMAIN mmaps' : live'[a] <= mmaps'[a] - SIZE_ALIGN
      BY <1>1, <2>1, <2>2 DEF Inv, LiveInv
    <2>4. \A a \in h'.cused \ {Footer'} : live'[a] <= h'.csize[a] - OVERHEAD
      BY <1>7, <1>9, <1>10, <2>1, <2>2 DEF Inv, LiveInv
    <2>5. QED
      BY <1>1, <2>1, <2>2, <2>3, <2>4 DEF Inv, LiveInv
  <1>13. stats' \in [allocated_bytes : Int, heap_bytes : Int, mmap_bytes : Int]
    BY <1>1, <1>8 DEF Inv, RestInv
  <1>14. reclaim' \in Nat \X Nat /\ ReclaimSafe'
    <2>1. CASE reclaim' = NoRange
      BY <2>1, NoReclaim
    <2>2. CASE reclaim' # NoRange
      <3> DEFINE a == align64_up(self + SIZE_ALIGN, PAGE_SIZE)
                 b == align64(self + size - SIZE_ALIGN, PAGE_SIZE)
      <3>1. size > RECLAIM /\ reclaim' = <<a, b>>
        BY <1>9, <2>2 DEF reclaimed
      <3>2. self \in Nat /\ size \in Nat /\ size = g.csize[self]
        BY <1>7 DEF WF, Tiled, ChunkSize, HeapType, Hdrs
      <3> HIDE DEF size
      <3>3. a \in Nat /\ self + 32 <= a /\ a < self + 32 + 4096
        BY <3>2, PageUp DEF SIZE_ALIGN, PAGE_SIZE
      <3>4. b \in Nat /\ b <= self + size /\ self + size - 32 - 4096 < b
        BY <3>1, <3>2 DEF align64, SIZE_ALIGN, PAGE_SIZE, RECLAIM
      <3> HIDE DEF a, b
      <3>5. a <= b
        BY <3>1, <3>2, <3>3, <3>4 DEF RECLAIM
      <3>6. self \in FreeChunks'
        BY <1>7, <1>9, <1>10 DEF FreeChunks, Chunks, Hdrs
      <3>7. h'.csize[self] = size
        BY <1>9, <3>2
      <3>8. reclaim'[1] = a /\ reclaim'[2] = b /\ reclaim' \in Nat \X Nat
        BY <3>1, <3>3, <3>4
      <3>9. QED
        BY <3>3, <3>4, <3>5, <3>6, <3>7, <3>8 DEF ReclaimSafe, NEXT_CHUNK, SIZE_ALIGN
    <2>3. QED
      BY <2>1, <2>2
  <1>15. HeapFreed(c)
    <2>1. stats'.allocated_bytes = stats.allocated_bytes - h.csize[c]
      BY <1>1 DEF Inv, RestInv
    <2>2. \A a \in (DOMAIN live \ DOMAIN mmaps) \ {c} : h'.csize[a] = h.csize[a]
      BY <1>7, <1>9 DEF Inv, LiveInv
    <2>3. QED
      BY <1>1, <1>3, <1>8, <2>1, <2>2 DEF HeapFreed
  <1>16. QED
    BY <1>9, <1>11, <1>12, <1>13, <1>14, <1>15 DEF Inv, RestInv

LEMMA FreeMmapStep ==
  ASSUME Inv, NEW c \in DOMAIN live, free_mmap(c)
  PROVE  Inv'
  <1>1. /\ c \notin h.cused /\ live' = Drop(live, c) /\ reclaim' = NoRange
        /\ end' = end /\ stored_brk' = stored_brk /\ h' = h
    BY DEF free_mmap
  <1>2. c \in DOMAIN mmaps
    BY <1>1 DEF Inv, LiveInv
  <1>3. c \notin h.pused
    BY <1>2, Apart, HeaderRange DEF Inv
  <1>4. /\ mmaps' = Drop(mmaps, c) /\ status' = status
        /\ stats' = [stats EXCEPT !.mmap_bytes = @ - mmaps[c],
                                  !.allocated_bytes = @ - (mmaps[c] - OVERHEAD)]
    BY <1>3 DEF free_mmap
  <1>5. Footer' = Footer
    BY <1>1 DEF Footer
  <1>6. HeapInv'
    BY <1>1, <1>5 DEF Inv, HeapInv, Empty
  <1>7. LiveInv'
    <2>1. /\ DOMAIN live' = DOMAIN live \ {c} /\ DOMAIN mmaps' = DOMAIN mmaps \ {c}
          /\ live' \in [DOMAIN live' -> Requests] /\ mmaps' \in [DOMAIN mmaps' -> Nat]
          /\ \A a \in DOMAIN live' : live'[a] = live[a]
          /\ \A a \in DOMAIN mmaps' : mmaps'[a] = mmaps[a]
      BY <1>1, <1>4 DEF Drop, Inv, LiveInv
    <2>2. DOMAIN live' = (h'.cused \ {Footer'}) \cup DOMAIN mmaps'
      BY <1>1, <1>2, <1>5, <2>1 DEF Inv, LiveInv
    <2>3. \A a \in DOMAIN mmaps' : live'[a] <= mmaps'[a] - SIZE_ALIGN
      BY <2>1, <2>2 DEF Inv, LiveInv
    <2>4. \A a \in h'.cused \ {Footer'} : live'[a] <= h'.csize[a] - OVERHEAD
      BY <1>1, <1>5, <2>1, <2>2 DEF Inv, LiveInv
    <2>5. QED
      BY <2>1, <2>2, <2>3, <2>4 DEF Inv, LiveInv
  <1>8. stats' \in [allocated_bytes : Int, heap_bytes : Int, mmap_bytes : Int]
    <2> DEFINE T == [allocated_bytes : Int, heap_bytes : Int, mmap_bytes : Int]
    <2>1. stats \in T /\ stats.mmap_bytes - mmaps[c] \in Int
          /\ stats.allocated_bytes - (mmaps[c] - OVERHEAD) \in Int
      BY <1>2 DEF Inv, RestInv, LiveInv, OVERHEAD
    <2>2. \A v, w \in Int : [stats EXCEPT !.mmap_bytes = v, !.allocated_bytes = w] \in T
      BY <2>1
    <2>3. QED
      BY <1>4, <2>1, <2>2
  <1>9. QED
    BY <1>1, <1>4, <1>6, <1>7, <1>8, NoReclaim DEF Inv, RestInv

-----------------------------------------------------------------------------
(* Theorems *)

LEMMA InitInv == Init => Inv
  <1> SUFFICES ASSUME Init PROVE Inv
    OBVIOUS
  <1>1. /\ h.psize = [a \in {} |-> 0] /\ h.csize = [a \in {} |-> 0] /\ h.pused = {}
        /\ h.cused = {} /\ h.bins = [i \in Bins |-> <<>>] /\ h.binmap = {}
        /\ h.free_bytes = 0
    BY DEF Init
  <1>2. HeapType(h)
    <2>1. DOMAIN h.csize = {}
      BY <1>1
    <2>2. \A S : <<>> \in Seq(S)
      OBVIOUS
    <2>3. h.bins \in [Bins -> Seq(DOMAIN h.csize)]
      BY <1>1, <2>2
    <2>4. h.psize \in [DOMAIN h.csize -> Nat] /\ h.csize \in [DOMAIN h.csize -> Nat]
      BY <1>1
    <2>5. QED
      BY <1>1, <2>3, <2>4 DEF HeapType, Init
  <1>3. HeapInv
    BY <1>1, <1>2 DEF HeapInv, Empty, Init
  <1>4. LiveInv
    BY <1>1 DEF LiveInv, Init
  <1>5. RestInv
    BY DEF RestInv, Init, NoRange, ReclaimSafe
  <1>6. QED
    BY <1>3, <1>4, <1>5 DEF Inv

LEMMA NextInv == Inv /\ [Next]_vars => Inv'
  <1> SUFFICES ASSUME Inv, [Next]_vars PROVE Inv'
    OBVIOUS
  <1>1. CASE UNCHANGED vars
    BY <1>1 DEF vars, Inv, HeapInv, LiveInv, RestInv, ReclaimSafe, FreeChunks, Chunks, Footer
  <1>2. CASE Next
    BY <1>2, MmapStep, FastStep, SlowStep, ExpandStep, FreeHeapStep, FreeMmapStep DEF Next
  <1>3. QED
    BY <1>1, <1>2

\* The invariant holds in every reachable state.
THEOREM Invariance == Spec => []Inv
  BY InitInv, NextInv, PTL DEF Spec

LEMMA EmptyHeap ==
  ASSUME Inv, end = 0
  PROVE  Chunks = {} /\ h.cused = {} /\ h.binmap = {} /\ h.bins = [i \in Bins |-> <<>>]
  BY DEF Inv, HeapInv, Empty, HeapType, Chunks

LEMMA ImpliesTypeOK == Inv => TypeOK
  <1> SUFFICES ASSUME Inv PROVE TypeOK
    OBVIOUS
  <1>1. HeapType(h)
    BY DEF Inv, HeapInv, Empty, WF
  <1>2. end = 0 <=> DOMAIN h.csize = {}
    BY DEF Inv, HeapInv, Empty, WF, Tiled, Hdrs
  <1>3. DOMAIN mmaps \subseteq Nat
    BY DEF Inv, LiveInv
  <1>4. QED
    BY <1>1, <1>2, <1>3 DEF TypeOK, HeapType, Inv, HeapInv, LiveInv, RestInv

LEMMA ImpliesHeapTiled == Inv => HeapTiled
  <1> SUFFICES ASSUME Inv, end # 0 PROVE HeapTiled
    BY DEF HeapTiled
  <1>1. Tiled(h, FirstChunk, Footer)
    BY DEF Inv, HeapInv, WF
  <1>2. QED
    BY <1>1 DEF Tiled, HeapTiled, Chunks, Hdrs, NEXT_CHUNK, ChunkSize

LEMMA ImpliesTagsAgree == Inv => TagsAgree
  <1> SUFFICES ASSUME Inv, end # 0 PROVE TagsAgree
    BY DEF TagsAgree
  <1>1. Tagged(h, FirstChunk, Footer, {})
    BY DEF Inv, HeapInv, WF
  <1>2. QED
    BY <1>1 DEF Tagged, TagsAgree, Chunks, Hdrs, NEXT_CHUNK

LEMMA ImpliesCoalesced == Inv => Coalesced
  <1> SUFFICES ASSUME Inv PROVE Coalesced
    OBVIOUS
  <1>1. CASE end = 0
    BY <1>1, EmptyHeap DEF Coalesced, FreeChunks
  <1>2. CASE end # 0
    BY <1>2 DEF Inv, HeapInv, WF, Coal, Coalesced, FreeChunks, Chunks, Hdrs, NEXT_CHUNK
  <1>3. QED
    BY <1>1, <1>2

LEMMA ImpliesBinsExact == Inv => BinsExact
  <1> SUFFICES ASSUME Inv PROVE BinsExact
    OBVIOUS
  <1>1. CASE end = 0
    <2>1. IsInjective(<<>>) /\ Range(<<>>) = {}
      BY DEF IsInjective, Range
    <2>2. QED
      BY <1>1, <2>1, EmptyHeap DEF BinsExact, FreeChunks
  <1>2. CASE end # 0
    <2>1. Binned(h, Footer, {})
      BY <1>2 DEF Inv, HeapInv, WF
    <2>2. \A i \in Bins :
            {a \in (Hdrs(h) \ {Footer}) \ (h.cused \cup {}) : bin_index(h.csize[a]) = i}
              = {a \in FreeChunks : bin_index(h.csize[a]) = i}
      BY DEF FreeChunks, Chunks, Hdrs
    <2>3. QED
      BY <2>1, <2>2 DEF Binned, BinsExact
  <1>3. QED
    BY <1>1, <1>2

LEMMA ImpliesLiveBacked == Inv => LiveBacked
  <1> SUFFICES ASSUME Inv PROVE LiveBacked
    OBVIOUS
  <1>1. LiveInv
    BY DEF Inv
  <1>2. QED
    BY <1>1 DEF LiveInv, LiveBacked

\* The headers, bins and blocks have their types (TypeOK of the runs).
THEOREM TypeCorrect == Spec => []TypeOK
  BY Invariance, ImpliesTypeOK, PTL

\* The chunks cover the heap without gap or overlap.
THEOREM Tiling == Spec => []HeapTiled
  BY Invariance, ImpliesHeapTiled, PTL

\* The boundary tags of neighbours agree.
THEOREM BoundaryTags == Spec => []TagsAgree
  BY Invariance, ImpliesTagsAgree, PTL

\* Free chunks are never neighbours.
THEOREM Coalescing == Spec => []Coalesced
  BY Invariance, ImpliesCoalesced, PTL

\* Bins and bitmap hold exactly the free chunks.
THEOREM BinsCorrect == Spec => []BinsExact
  BY Invariance, ImpliesBinsExact, PTL

\* Every block has the bytes that were asked for.
THEOREM RoomForRequests == Spec => []LiveBacked
  BY Invariance, ImpliesLiveBacked, PTL

\* No call ends in crash() or in an endless search.
THEOREM NoStuckCall == Spec => []NeverStuck
  <1>1. Inv => NeverStuck
    BY DEF Inv, RestInv, NeverStuck
  <1>2. QED
    BY <1>1, Invariance, PTL

\* madvise() only empties pages inside a free chunk.
THEOREM SafeReclaim == Spec => []ReclaimSafe
  <1>1. Inv => ReclaimSafe
    BY DEF Inv, RestInv
  <1>2. QED
    BY <1>1, Invariance, PTL

-----------------------------------------------------------------------------
(* The statistics.  WF counts the free chunks; the heap is as long as the    *)
(* expansions made it; mappings and blocks are counted when they come and go.*)

HeapBytes == stats.heap_bytes = IF end = 0 THEN 0 ELSE end - BrkStart

MmapBytes ==
  IsFiniteSet(DOMAIN mmaps) /\ stats.mmap_bytes = Total(mmaps, DOMAIN mmaps)

AllocatedBytes == stats.allocated_bytes = Total(BlockBytes, DOMAIN live)

SumInv == HeapBytes /\ MmapBytes /\ AllocatedBytes

\* The heap grows only with the break.
LEMMA HeapBytesStep ==
  ASSUME Inv, HeapBytes, Next
  PROVE  HeapBytes'
  <1>0. stats \in [allocated_bytes : Int, heap_bytes : Int, mmap_bytes : Int]
    BY DEF Inv, RestInv
  <1>1. CASE stats'.heap_bytes = stats.heap_bytes /\ end' = end
    BY <1>1 DEF HeapBytes
  <1>2. ASSUME NEW req \in Requests, malloc_mmap(req) PROVE HeapBytes'
    <2>1. PICK v, w : stats' = [stats EXCEPT !.mmap_bytes = w, !.allocated_bytes = v]
      BY <1>2 DEF malloc_mmap
    <2>2. QED
      BY <1>0, <1>1, <1>2, <2>1 DEF malloc_mmap
  <1>3. ASSUME NEW req \in Requests, malloc_fast(req) PROVE HeapBytes'
    <2>1. PICK v : stats' = [stats EXCEPT !.allocated_bytes = v]
      BY <1>3 DEF malloc_fast
    <2>2. QED
      BY <1>0, <1>1, <1>3, <2>1 DEF malloc_fast
  <1>4. ASSUME NEW req \in Requests, malloc_slow(req) PROVE HeapBytes'
    <2>1. stats' = stats \/ \E v : stats' = [stats EXCEPT !.allocated_bytes = v]
      BY <1>4 DEF malloc_slow
    <2>2. end' = end
      BY <1>4 DEF malloc_slow
    <2>3. stats'.heap_bytes = stats.heap_bytes
      BY <1>0, <2>1
    <2>4. QED
      BY <1>1, <2>2, <2>3
  <1>5. ASSUME NEW req \in Requests, malloc_expand(req) PROVE HeapBytes'
    <2> DEFINE m == expansion(adjust_size(req))
    <2>1. m \in Nat /\ m >= 32
      BY Request, Expansion DEF ChunkSize, SIZE_ALIGN
    <2> HIDE DEF m
    <2>2. CASE stats' = stats /\ end' = end
      BY <1>1, <2>2
    <2>3. CASE /\ \E v : stats' = [stats EXCEPT !.heap_bytes = @ + m, !.allocated_bytes = v]
               /\ end' = brk_now + m
      <3>1. stats'.heap_bytes = stats.heap_bytes + m
        BY <1>0, <2>3
      <3>2. end \in Nat /\ stored_brk = end /\ BrkStart \in Nat
        BY BrkAssumption DEF Inv, HeapInv
      <3>3. QED
        BY <1>0, <2>1, <2>3, <3>1, <3>2 DEF HeapBytes, brk_now
    <2>4. QED
      BY <1>5, <2>2, <2>3 DEF malloc_expand, m
  <1>6. ASSUME NEW c \in DOMAIN live, free_heap(c) PROVE HeapBytes'
    <2>1. PICK v : stats' = [stats EXCEPT !.allocated_bytes = v]
      BY <1>6 DEF free_heap
    <2>2. QED
      BY <1>0, <1>1, <1>6, <2>1 DEF free_heap
  <1>7. ASSUME NEW c \in DOMAIN live, free_mmap(c) PROVE HeapBytes'
    <2>1. stats' = stats \/ \E v, w : stats' = [stats EXCEPT !.mmap_bytes = w, !.allocated_bytes = v]
      BY <1>7 DEF free_mmap
    <2>2. end' = end
      BY <1>7 DEF free_mmap
    <2>3. stats'.heap_bytes = stats.heap_bytes
      BY <1>0, <2>1
    <2>4. QED
      BY <1>1, <2>2, <2>3
  <1>8. QED
    BY <1>2, <1>3, <1>4, <1>5, <1>6, <1>7 DEF Next

\* Blocks are finitely many, and each has a size.
LEMMA BlocksFinite ==
  ASSUME Inv, IsFiniteSet(DOMAIN mmaps)
  PROVE  /\ IsFiniteSet(DOMAIN live)
         /\ \A a \in DOMAIN live : BlockBytes[a] \in Int
         /\ \A a \in DOMAIN mmaps : mmaps[a] \in Nat /\ mmaps[a] >= 32
  <1>1. IsFiniteSet(Hdrs(h))
    <2>1. CASE end = 0
      BY <2>1, FS_EmptySet DEF Inv, HeapInv, Empty, Hdrs
    <2>2. CASE end # 0
      BY <2>2, FreesFinite DEF Inv, HeapInv, WF
    <2>3. QED
      BY <2>1, <2>2
  <1>2. h.cused \ {Footer} \in SUBSET Hdrs(h)
    BY HeaderRange DEF Inv
  <1>3. IsFiniteSet(h.cused \ {Footer})
    BY <1>1, <1>2, FS_Subset
  <1>4. IsFiniteSet(DOMAIN live)
    <2>1. IsFiniteSet((h.cused \ {Footer}) \cup DOMAIN mmaps)
      BY <1>3, FS_Union
    <2>2. QED
      BY <2>1 DEF Inv, LiveInv
  <1>5. \A a \in Hdrs(h) : h.csize[a] \in Int
    <2>1. HeapType(h)
      BY DEF Inv, HeapInv, Empty, WF
    <2>2. QED
      BY <2>1 DEF HeapType, Hdrs
  <1>6. \A a \in DOMAIN mmaps : mmaps[a] \in Nat /\ mmaps[a] >= 32
    <2>1. ASSUME NEW a \in DOMAIN mmaps PROVE mmaps[a] \in Nat /\ mmaps[a] >= 32
      <3>1. mmaps[a] \in Nat /\ a \in DOMAIN live /\ live[a] \in Requests
            /\ live[a] <= mmaps[a] - 32
        BY DEF Inv, LiveInv, SIZE_ALIGN
      <3>2. live[a] \in Nat
        BY <3>1, RequestsAssumption
      <3>3. QED
        BY <3>1, <3>2
    <2>2. QED
      BY <2>1
  <1>7. \A a \in DOMAIN live : BlockBytes[a] \in Int
    <2>1. ASSUME NEW a \in DOMAIN live PROVE BlockBytes[a] \in Int
      <3>1. CASE a \in DOMAIN mmaps
        BY <1>6, <3>1 DEF BlockBytes, OVERHEAD
      <3>2. CASE a \notin DOMAIN mmaps
        BY <1>2, <1>5, <3>2 DEF BlockBytes, Inv, LiveInv
      <3>3. QED
        BY <3>1, <3>2
    <2>2. QED
      BY <2>1
  <1>8. QED
    BY <1>4, <1>6, <1>7

\* A block more: the other blocks take what they took.
LEMMA BlockMore ==
  ASSUME Inv, SumInv, NEW c, c \notin DOMAIN live,
         DOMAIN live' = DOMAIN live \cup {c}, BlockBytes'[c] \in Int,
         \A a \in DOMAIN live : BlockBytes'[a] = BlockBytes[a],
         stats'.allocated_bytes = stats.allocated_bytes + BlockBytes'[c]
  PROVE  AllocatedBytes'
  <1>1. PICK S, y, z : S = DOMAIN live /\ y = BlockBytes /\ z = BlockBytes'
    OBVIOUS
  <1>2. IsFiniteSet(S) /\ c \notin S /\ z[c] \in Int /\ Ints(y, S) /\ Agree(y, z, S)
    <2>1. IsFiniteSet(S) /\ \A a \in S : y[a] \in Int
      BY <1>1, BlocksFinite DEF SumInv, MmapBytes
    <2>2. QED
      BY <1>1, <2>1 DEF Ints, Agree
  <1>3. Total(z, S \cup {c}) = Total(y, S) + z[c]
    BY ONLY <1>2, TotalMore
  <1>4. QED
    BY <1>1, <1>3 DEF AllocatedBytes, SumInv

\* A block less: the other blocks take what they took.
LEMMA BlockLess ==
  ASSUME Inv, SumInv, NEW c, c \in DOMAIN live,
         DOMAIN live' = DOMAIN live \ {c},
         \A a \in DOMAIN live \ {c} : BlockBytes'[a] = BlockBytes[a],
         stats'.allocated_bytes = stats.allocated_bytes - BlockBytes[c]
  PROVE  AllocatedBytes'
  <1>1. PICK S, y, z : S = DOMAIN live /\ y = BlockBytes /\ z = BlockBytes'
    OBVIOUS
  <1>2. IsFiniteSet(S) /\ c \in S /\ Ints(y, S) /\ Agree(y, z, S \ {c})
    <2>1. IsFiniteSet(S) /\ \A a \in S : y[a] \in Int
      BY <1>1, BlocksFinite DEF SumInv, MmapBytes
    <2>2. QED
      BY <1>1, <2>1 DEF Ints, Agree
  <1>3. Total(z, S \ {c}) = Total(y, S) - y[c]
    BY ONLY <1>2, TotalLess
  <1>4. QED
    BY <1>1, <1>3 DEF AllocatedBytes, SumInv

\* A block of the heap.
LEMMA NewBlockBytes ==
  ASSUME Inv, SumInv, NEW req \in Requests, NewBlock(req)
  PROVE  AllocatedBytes'
  <1>1. PICK c \in Nat :
          /\ c \notin DOMAIN live /\ live' = Put(live, c, req) /\ h'.csize[c] \in Nat
          /\ stats'.allocated_bytes = stats.allocated_bytes + h'.csize[c]
    BY DEF NewBlock
  <1>2. /\ mmaps' = mmaps /\ \A a \in DOMAIN live \ DOMAIN mmaps : h'.csize[a] = h.csize[a]
        /\ DOMAIN live' = DOMAIN live \cup {c} /\ c \notin DOMAIN mmaps
    BY <1>1 DEF NewBlock, Put, Inv, LiveInv
  <1>3. BlockBytes'[c] = h'.csize[c]
    BY <1>2 DEF BlockBytes
  <1>4. \A a \in DOMAIN live : BlockBytes'[a] = BlockBytes[a]
    BY <1>2 DEF BlockBytes
  <1>5. BlockBytes'[c] \in Int /\ stats'.allocated_bytes = stats.allocated_bytes + BlockBytes'[c]
    BY <1>1, <1>3
  <1>6. QED
    BY <1>1, <1>2, <1>4, <1>5, BlockMore

\* A mapping of its own.
LEMMA MmapSums ==
  ASSUME Inv, SumInv, NEW req \in Requests, malloc_mmap(req)
  PROVE  MmapBytes' /\ AllocatedBytes'
  <1> DEFINE n == adjust_size(req)
             len == align64_up(n + OVERHEAD, PAGE_SIZE)
  <1>1. PICK base \in MmapBases :
          /\ base > BrkLimit
          /\ \A m \in DOMAIN mmaps :
               base + len <= m - OVERHEAD \/ m - OVERHEAD + mmaps[m] <= base
          /\ mmaps' = Put(mmaps, base + SIZE_ALIGN - OVERHEAD, len)
          /\ live' = Put(live, base + SIZE_ALIGN - OVERHEAD, req)
          /\ stats' = [stats EXCEPT !.mmap_bytes = @ + len,
                                    !.allocated_bytes = @ + len - OVERHEAD]
    BY DEF malloc_mmap
  <1>2. h' = h
    BY DEF malloc_mmap
  <1>3. n \in Nat /\ n >= 32 /\ n + OVERHEAD \in Nat
    BY Request DEF ChunkSize, OVERHEAD, SIZE_ALIGN
  <1>4. len \in Nat /\ len >= 32
    BY <1>3, PageUp DEF OVERHEAD
  <1> DEFINE c == base + 16
  <1>5. base \in Nat /\ c \in Nat /\ c > BrkLimit + 16 /\ c = base + SIZE_ALIGN - OVERHEAD
    BY <1>1, MmapAssumption, BrkAssumption DEF SIZE_ALIGN, OVERHEAD
  <1> HIDE DEF n, len
  <1>6. IsFiniteSet(DOMAIN mmaps) /\ \A a \in DOMAIN mmaps : mmaps[a] \in Nat /\ mmaps[a] >= 32
    BY BlocksFinite DEF SumInv, MmapBytes
  <1>7. c \notin DOMAIN mmaps
    <2> SUFFICES ASSUME c \in DOMAIN mmaps PROVE FALSE
      OBVIOUS
    <2>1. base + len <= c - 16 \/ c - 16 + mmaps[c] <= base
      BY <1>1 DEF OVERHEAD
    <2>2. mmaps[c] \in Nat /\ mmaps[c] >= 32
      BY <1>6
    <2>3. QED
      BY <1>4, <1>5, <2>1, <2>2
  <1>8. c \notin DOMAIN live
    BY <1>5, <1>7, HeaderRange, BrkAssumption DEF Inv, LiveInv
  <1> HIDE DEF c
  <1>9. mmaps' = Put(mmaps, c, len) /\ live' = Put(live, c, req)
    BY <1>1, <1>5
  <1>10. /\ DOMAIN mmaps' = DOMAIN mmaps \cup {c} /\ DOMAIN live' = DOMAIN live \cup {c}
         /\ mmaps'[c] = len /\ \A a \in DOMAIN mmaps : mmaps'[a] = mmaps[a]
    BY <1>7, <1>9 DEF Put
  <1>11. /\ stats'.mmap_bytes = stats.mmap_bytes + len
         /\ stats'.allocated_bytes = stats.allocated_bytes + (len - OVERHEAD)
    BY <1>1, <1>4 DEF Inv, RestInv, OVERHEAD
  <1>12. MmapBytes'
    <2>1. PICK S, y, z : S = DOMAIN mmaps /\ y = mmaps /\ z = mmaps'
      OBVIOUS
    <2>2. IsFiniteSet(S) /\ c \notin S /\ z[c] \in Int /\ Ints(y, S) /\ Agree(y, z, S)
      BY <1>4, <1>6, <1>7, <1>10, <2>1 DEF Ints, Agree
    <2>3. Total(z, S \cup {c}) = Total(y, S) + z[c]
      BY <2>2, TotalMore
    <2>4. IsFiniteSet(S \cup {c})
      BY <2>2, FS_AddElement
    <2>5. QED
      BY <1>10, <1>11, <2>1, <2>3, <2>4 DEF MmapBytes, SumInv
  <1>13. BlockBytes'[c] = len - OVERHEAD
    BY <1>10 DEF BlockBytes
  <1>14. \A a \in DOMAIN live : BlockBytes'[a] = BlockBytes[a]
    BY <1>2, <1>8, <1>10 DEF BlockBytes
  <1>15. BlockBytes'[c] \in Int /\ stats'.allocated_bytes = stats.allocated_bytes + BlockBytes'[c]
    BY <1>4, <1>11, <1>13 DEF OVERHEAD
  <1>16. QED
    BY <1>8, <1>10, <1>12, <1>14, <1>15, BlockMore

\* A block of the heap is freed.
LEMMA HeapFreedBytes ==
  ASSUME Inv, SumInv, NEW c \in DOMAIN live, HeapFreed(c)
  PROVE  AllocatedBytes'
  <1>1. /\ mmaps' = mmaps /\ c \notin DOMAIN mmaps /\ DOMAIN live' = DOMAIN live \ {c}
        /\ stats'.allocated_bytes = stats.allocated_bytes - h.csize[c]
        /\ \A a \in (DOMAIN live \ DOMAIN mmaps) \ {c} : h'.csize[a] = h.csize[a]
    BY DEF HeapFreed, Drop
  <1>2. BlockBytes[c] = h.csize[c]
    BY <1>1 DEF BlockBytes
  <1>3. \A a \in DOMAIN live \ {c} : BlockBytes'[a] = BlockBytes[a]
    BY <1>1 DEF BlockBytes
  <1>4. QED
    BY <1>1, <1>2, <1>3, BlockLess

\* A mapping is given back.
LEMMA UnmapSums ==
  ASSUME Inv, SumInv, NEW c \in DOMAIN live, free_mmap(c)
  PROVE  MmapBytes' /\ AllocatedBytes'
  <1>1. c \notin h.cused /\ live' = Drop(live, c) /\ h' = h
    BY DEF free_mmap
  <1>2. c \in DOMAIN mmaps
    BY <1>1 DEF Inv, LiveInv
  <1>3. c \notin h.pused
    BY <1>2, Apart, HeaderRange DEF Inv
  <1>4. /\ mmaps' = Drop(mmaps, c)
        /\ stats' = [stats EXCEPT !.mmap_bytes = @ - mmaps[c],
                                  !.allocated_bytes = @ - (mmaps[c] - OVERHEAD)]
    BY <1>3 DEF free_mmap
  <1>5. IsFiniteSet(DOMAIN mmaps) /\ \A a \in DOMAIN mmaps : mmaps[a] \in Nat
    BY BlocksFinite DEF SumInv, MmapBytes
  <1>6. /\ stats'.mmap_bytes = stats.mmap_bytes - mmaps[c]
        /\ stats'.allocated_bytes = stats.allocated_bytes - (mmaps[c] - OVERHEAD)
    BY <1>2, <1>4, <1>5 DEF Inv, RestInv, OVERHEAD
  <1>7. /\ DOMAIN mmaps' = DOMAIN mmaps \ {c} /\ DOMAIN live' = DOMAIN live \ {c}
        /\ \A a \in DOMAIN mmaps \ {c} : mmaps'[a] = mmaps[a]
    BY <1>1, <1>4 DEF Drop
  <1>8. MmapBytes'
    <2>1. PICK S, y, z : S = DOMAIN mmaps /\ y = mmaps /\ z = mmaps'
      OBVIOUS
    <2>2. IsFiniteSet(S) /\ c \in S /\ Ints(y, S) /\ Agree(y, z, S \ {c})
      BY <1>2, <1>5, <1>7, <2>1 DEF Ints, Agree
    <2>3. Total(z, S \ {c}) = Total(y, S) - y[c]
      BY <2>2, TotalLess
    <2>4. IsFiniteSet(S \ {c})
      BY <2>2, FS_RemoveElement
    <2>5. QED
      BY <1>6, <1>7, <2>1, <2>3, <2>4 DEF MmapBytes, SumInv
  <1>9. BlockBytes[c] = mmaps[c] - OVERHEAD
    BY <1>2 DEF BlockBytes
  <1>10. \A a \in DOMAIN live \ {c} : BlockBytes'[a] = BlockBytes[a]
    BY <1>1, <1>7 DEF BlockBytes
  <1>11. stats'.allocated_bytes = stats.allocated_bytes - BlockBytes[c]
    BY <1>6, <1>9
  <1>12. QED
    BY <1>7, <1>8, <1>10, <1>11, BlockLess

\* Steps that neither map nor unmap.
LEMMA MmapBytesKept ==
  ASSUME Inv, SumInv, mmaps' = mmaps, stats'.mmap_bytes = stats.mmap_bytes
  PROVE  MmapBytes'
  BY DEF SumInv, MmapBytes

LEMMA SumStep ==
  ASSUME Inv, SumInv, Next
  PROVE  SumInv'
  <1>0. stats \in [allocated_bytes : Int, heap_bytes : Int, mmap_bytes : Int]
    BY DEF Inv, RestInv
  <1>1. HeapBytes'
    BY HeapBytesStep DEF SumInv
  <1>2. ASSUME NEW req \in Requests, malloc_mmap(req) PROVE MmapBytes' /\ AllocatedBytes'
    BY <1>2, MmapSums
  <1>3. ASSUME NEW req \in Requests, malloc_fast(req) PROVE MmapBytes' /\ AllocatedBytes'
    <2>1. PICK v : stats' = [stats EXCEPT !.allocated_bytes = v]
      BY <1>3 DEF malloc_fast
    <2>2. mmaps' = mmaps /\ NewBlock(req)
      BY <1>3, FastStep DEF malloc_fast
    <2>3. QED
      BY <1>0, <2>1, <2>2, MmapBytesKept, NewBlockBytes
  <1>4. ASSUME NEW req \in Requests, malloc_slow(req) PROVE MmapBytes' /\ AllocatedBytes'
    <2>1. stats' = stats \/ \E v : stats' = [stats EXCEPT !.allocated_bytes = v]
      BY <1>4 DEF malloc_slow
    <2>2. mmaps' = mmaps /\ NewBlock(req)
      BY <1>4, SlowStep DEF malloc_slow
    <2>3. stats'.mmap_bytes = stats.mmap_bytes
      BY <1>0, <2>1
    <2>4. QED
      BY <2>2, <2>3, MmapBytesKept, NewBlockBytes
  <1>5. ASSUME NEW req \in Requests, malloc_expand(req) PROVE MmapBytes' /\ AllocatedBytes'
    <2>1. mmaps' = mmaps
      BY <1>5 DEF malloc_expand
    <2>2. CASE UNCHANGED <<h, live, stats>>
      <3>1. BlockBytes' = BlockBytes
        BY <2>1, <2>2 DEF BlockBytes
      <3>2. QED
        BY <2>1, <2>2, <3>1 DEF SumInv, MmapBytes, AllocatedBytes
    <2>3. CASE NewBlock(req) /\ \E v, w : stats' = [stats EXCEPT !.heap_bytes = w, !.allocated_bytes = v]
      <3>1. stats'.mmap_bytes = stats.mmap_bytes
        BY <1>0, <2>3
      <3>2. QED
        BY <2>1, <2>3, <3>1, MmapBytesKept, NewBlockBytes
    <2>4. \/ UNCHANGED <<h, live, stats>>
          \/ \E v, w : stats' = [stats EXCEPT !.heap_bytes = w, !.allocated_bytes = v]
      BY <1>5 DEF malloc_expand
    <2>5. UNCHANGED <<h, live, stats>> \/ NewBlock(req)
      BY <1>5, ExpandStep
    <2>6. QED
      BY <2>2, <2>3, <2>4, <2>5
  <1>6. ASSUME NEW c \in DOMAIN live, free_heap(c) PROVE MmapBytes' /\ AllocatedBytes'
    <2>1. PICK v : stats' = [stats EXCEPT !.allocated_bytes = v]
      BY <1>6 DEF free_heap
    <2>2. mmaps' = mmaps /\ HeapFreed(c)
      BY <1>6, FreeHeapStep DEF free_heap
    <2>3. QED
      BY <1>0, <2>1, <2>2, MmapBytesKept, HeapFreedBytes
  <1>7. ASSUME NEW c \in DOMAIN live, free_mmap(c) PROVE MmapBytes' /\ AllocatedBytes'
    BY <1>7, UnmapSums
  <1>8. MmapBytes' /\ AllocatedBytes'
    BY <1>2, <1>3, <1>4, <1>5, <1>6, <1>7 DEF Next
  <1>9. QED
    BY <1>1, <1>8 DEF SumInv

LEMMA SumInit == Init => SumInv
  <1> SUFFICES ASSUME Init PROVE SumInv
    OBVIOUS
  <1>1. DOMAIN mmaps = {} /\ DOMAIN live = {} /\ end = 0
    BY DEF Init
  <1>2. stats.heap_bytes = 0 /\ stats.mmap_bytes = 0 /\ stats.allocated_bytes = 0
    BY DEF Init
  <1>3. QED
    BY <1>1, <1>2, TotalEmpty, FS_EmptySet DEF SumInv, HeapBytes, MmapBytes, AllocatedBytes

LEMMA SumNext == Inv /\ SumInv /\ [Next]_vars => SumInv'
  <1> SUFFICES ASSUME Inv, SumInv, [Next]_vars PROVE SumInv'
    OBVIOUS
  <1>1. CASE UNCHANGED vars
    <2>1. BlockBytes' = BlockBytes
      BY <1>1 DEF vars, BlockBytes
    <2>2. QED
      BY <1>1, <2>1 DEF vars, SumInv, HeapBytes, MmapBytes, AllocatedBytes
  <1>2. CASE Next
    BY <1>2, SumStep
  <1>3. QED
    BY <1>1, <1>2

LEMMA ImpliesStatsConserved == Inv /\ SumInv => StatsConserved
  <1> SUFFICES ASSUME Inv, SumInv PROVE StatsConserved
    OBVIOUS
  <1>1. h.free_bytes = Total(h.csize, FreeChunks)
    <2>1. CASE end = 0
      <3>1. FreeChunks = {} /\ h.free_bytes = 0
        BY <2>1, EmptyHeap DEF FreeChunks, Inv, HeapInv, Empty
      <3>2. QED
        BY <3>1, TotalEmpty
    <2>2. CASE end # 0
      BY <2>2 DEF Inv, HeapInv, WF, Counted, Frees, FreeChunks, Chunks, Hdrs
    <2>3. QED
      BY <2>1, <2>2
  <1>2. stats.heap_bytes = IF end = 0 THEN 0 ELSE Total(h.csize, Chunks) + SIZE_ALIGN
    <2>1. CASE end = 0
      BY <2>1 DEF SumInv, HeapBytes
    <2>2. CASE end # 0
      <3>1. Total(h.csize, Hdrs(h) \ {Footer}) = Footer - FirstChunk
        BY <2>2, HeapLength DEF Inv, HeapInv
      <3>2. Chunks = Hdrs(h) \ {Footer}
        BY DEF Chunks, Hdrs
      <3>3. end \in Nat /\ BrkStart \in Nat /\ stats.heap_bytes = end - BrkStart
        BY <2>2, BrkAssumption DEF Inv, HeapInv, SumInv, HeapBytes
      <3>4. Footer - FirstChunk + SIZE_ALIGN = end - BrkStart
        BY <3>3 DEF Footer, FirstChunk, OVERHEAD, SIZE_ALIGN
      <3>5. QED
        BY <2>2, <3>1, <3>2, <3>3, <3>4
    <2>3. QED
      BY <2>1, <2>2
  <1>3. /\ stats.mmap_bytes = Total(mmaps, DOMAIN mmaps)
        /\ stats.allocated_bytes = Total(BlockBytes, DOMAIN live)
    BY DEF SumInv, MmapBytes, AllocatedBytes
  <1>4. QED
    BY <1>1, <1>2, <1>3 DEF StatsConserved, Total

\* The statistics musl_dump_bins() prints are the sums of the sizes of the free
\* chunks, of all chunks, of the mappings and of the blocks in use.
THEOREM StatsAddUp == Spec => []StatsConserved
  <1>1. Spec => []SumInv
    BY Invariance, SumInit, SumNext, PTL DEF Spec
  <1>2. QED
    BY <1>1, Invariance, ImpliesStatsConserved, PTL

-----------------------------------------------------------------------------
(* Refinement: every call of musl_malloc() that returns a block is a Malloc  *)
(* step of AbstractAllocator, every call of musl_free() a Free step, and     *)
(* every other step leaves the blocks alone.                                 *)


\* Two blocks of which at least one is in the heap share no byte.
Disjoint ==
  \A a, b \in DOMAIN live :
    a # b /\ ~(a \in DOMAIN mmaps /\ b \in DOMAIN mmaps) =>
      ~Abstract!Overlap(a + OVERHEAD, live[a], b + OVERHEAD, live[b])

\* Addresses of blocks and sizes of requests are natural numbers.
LEMMA LiveTypes ==
  ASSUME Inv
  PROVE  \A a \in DOMAIN live : a \in Nat /\ live[a] \in Nat
  <1>1. \A a \in DOMAIN live : live[a] \in Nat
    BY RequestsAssumption DEF Inv, LiveInv
  <1>2. \A a \in DOMAIN live : a \in Nat
    BY HeaderRange DEF Inv, LiveInv
  <1>3. QED
    BY <1>1, <1>2

LEMMA InvDisjoint == Inv => Disjoint
  <1> SUFFICES ASSUME Inv, NEW a \in DOMAIN live, NEW b \in DOMAIN live, a # b,
                      ~(a \in DOMAIN mmaps /\ b \in DOMAIN mmaps),
                      a + OVERHEAD < b + OVERHEAD + live[b],
                      b + OVERHEAD < a + OVERHEAD + live[a]
               PROVE  FALSE
    BY DEF Disjoint, Abstract!Overlap
  <1>1. a \in Nat /\ live[a] \in Nat /\ b \in Nat /\ live[b] \in Nat
    BY LiveTypes
  <1>2. a < b + live[b] /\ b < a + live[a]
    BY <1>1 DEF OVERHEAD
  <1>3. end # 0 /\ Tiled(h, FirstChunk, Footer) /\ end <= BrkLimit /\ end \in Nat
    <2>1. h.cused # {}
      BY DEF Inv, LiveInv
    <2>2. QED
      BY <2>1 DEF Inv, HeapInv, Empty, HeapType, WF
  <1>4. ASSUME NEW c \in h.cused \ {Footer}
        PROVE  /\ c \in Hdrs(h) \ {Footer} /\ h.csize[c] \in Nat /\ c \in Nat
               /\ c + live[c] <= c + h.csize[c] /\ c + h.csize[c] <= Footer
               /\ live[c] \in Nat
    <2>1. c \in Hdrs(h) \ {Footer} /\ c \in DOMAIN live
      BY HeaderRange DEF Inv, LiveInv
    <2>2. c \in Nat /\ h.csize[c] \in Nat /\ c + h.csize[c] \in Hdrs(h) /\ c < Footer
          /\ Footer \in Nat
      BY <1>3, <2>1 DEF Tiled, ChunkSize
    <2>3. c + h.csize[c] <= Footer
      BY <1>3, <2>1, <2>2 DEF Tiled
    <2>4. live[c] \in Nat /\ live[c] <= h.csize[c] - OVERHEAD
      BY <2>1, LiveTypes DEF Inv, LiveInv
    <2>5. QED
      BY <2>1, <2>2, <2>3, <2>4 DEF OVERHEAD
  <1>5. Footer < BrkLimit /\ Footer \in Int
    BY <1>3, BrkAssumption DEF Footer, OVERHEAD
  <1>6. CASE a \in h.cused \ {Footer} /\ b \in h.cused \ {Footer}
    <2>1. /\ b <= a \/ a + h.csize[a] <= b
          /\ a <= b \/ b + h.csize[b] <= a
      BY <1>3, <1>4, <1>6 DEF Tiled
    <2>2. h.csize[a] \in Nat /\ h.csize[b] \in Nat
          /\ a + live[a] <= a + h.csize[a] /\ b + live[b] <= b + h.csize[b]
      BY <1>4, <1>6
    <2>3. QED
      BY <1>1, <1>2, <2>1, <2>2
  <1>7. CASE a \in h.cused \ {Footer} /\ b \in DOMAIN mmaps
    <2>1. a + live[a] <= a + h.csize[a] /\ a + h.csize[a] <= Footer /\ h.csize[a] \in Nat
      BY <1>4, <1>7
    <2>2. b > BrkLimit + OVERHEAD
      BY <1>7 DEF Inv, LiveInv
    <2>3. QED
      BY <1>1, <1>2, <1>5, <2>1, <2>2, BrkAssumption DEF OVERHEAD
  <1>8. CASE b \in h.cused \ {Footer} /\ a \in DOMAIN mmaps
    <2>1. b + live[b] <= b + h.csize[b] /\ b + h.csize[b] <= Footer /\ h.csize[b] \in Nat
      BY <1>4, <1>8
    <2>2. a > BrkLimit + OVERHEAD
      BY <1>8 DEF Inv, LiveInv
    <2>3. QED
      BY <1>1, <1>2, <1>5, <2>1, <2>2, BrkAssumption DEF OVERHEAD
  <1>9. QED
    BY <1>6, <1>7, <1>8 DEF Inv, LiveInv

\* A block at c is a Malloc step when it is clear of the others.
LEMMA MallocRefines ==
  ASSUME Inv, NEW req \in Nat, NEW c \in Nat, c \notin DOMAIN live,
         live' = Put(live, c, req),
         \A a \in DOMAIN live :
           ~Abstract!Overlap(c + OVERHEAD, req, a + OVERHEAD, live[a])
  PROVE  Abstract!Next
  <1> DEFINE p == c + OVERHEAD
  <1>1. p \in Nat /\ p - OVERHEAD = c
    BY DEF OVERHEAD
  <1>2. /\ DOMAIN Blocks = {a + OVERHEAD : a \in DOMAIN live}
        /\ \A a \in DOMAIN live : Blocks[a + OVERHEAD] = live[a]
    <2>1. \A a \in DOMAIN live : (a + OVERHEAD) - OVERHEAD = a
      BY LiveTypes DEF OVERHEAD
    <2>2. QED
      BY <2>1 DEF Blocks
  <1>3. /\ DOMAIN live' = DOMAIN live \cup {c} /\ live'[c] = req
        /\ \A a \in DOMAIN live : live'[a] = live[a]
    BY DEF Put
  <1>4. p \notin DOMAIN Blocks
    BY <1>1, <1>2, LiveTypes DEF OVERHEAD
  <1>5. \A q \in DOMAIN Blocks : ~Abstract!Overlap(p, req, q, Blocks[q])
    BY <1>2
  <1>6. Blocks' = [q \in DOMAIN Blocks \cup {p} |-> IF q = p THEN req ELSE Blocks[q]]
    <2>1. {a + OVERHEAD : a \in DOMAIN live'} = DOMAIN Blocks \cup {p}
      BY <1>2, <1>3
    <2>2. Blocks' = [q \in {a + OVERHEAD : a \in DOMAIN live'} |-> live'[q - OVERHEAD]]
      BY DEF Blocks
    <2>3. ASSUME NEW q \in DOMAIN Blocks \cup {p}
          PROVE  live'[q - OVERHEAD] = IF q = p THEN req ELSE Blocks[q]
      <3>1. CASE q = p
        BY <1>1, <1>3, <3>1
      <3>2. CASE q # p
        <4>1. PICK a \in DOMAIN live : q = a + OVERHEAD
          BY <1>2, <3>2
        <4>2. q - OVERHEAD = a
          BY <4>1, LiveTypes DEF OVERHEAD
        <4>3. QED
          BY <1>2, <1>3, <3>2, <4>1, <4>2
      <3>3. QED
        BY <3>1, <3>2
    <2>4. QED
      BY <2>1, <2>2, <2>3
  <1> HIDE DEF p
  <1>7. p \in DOMAIN Blocks' /\ Blocks'[p] = req
    BY <1>6
  <1>8. Abstract!Malloc(p, Blocks'[p])
    BY <1>4, <1>5, <1>6, <1>7 DEF Abstract!Malloc
  <1>9. QED
    BY <1>7, <1>8 DEF Abstract!Next

\* A call of musl_free() is a Free step.
LEMMA FreeRefines ==
  ASSUME Inv, NEW c \in DOMAIN live, live' = Drop(live, c)
  PROVE  Abstract!Next
  <1> DEFINE p == c + OVERHEAD
  <1>1. /\ DOMAIN Blocks = {a + OVERHEAD : a \in DOMAIN live}
        /\ \A a \in DOMAIN live : (a + OVERHEAD) - OVERHEAD = a /\ Blocks[a + OVERHEAD] = live[a]
    <2>1. \A a \in DOMAIN live : (a + OVERHEAD) - OVERHEAD = a
      BY LiveTypes DEF OVERHEAD
    <2>2. QED
      BY <2>1 DEF Blocks
  <1>2. p \in DOMAIN Blocks
    BY <1>1
  <1>3. DOMAIN live' = DOMAIN live \ {c} /\ \A a \in DOMAIN live' : live'[a] = live[a]
    BY DEF Drop
  <1>4. {a + OVERHEAD : a \in DOMAIN live'} = DOMAIN Blocks \ {p}
    BY <1>1, <1>3, LiveTypes DEF OVERHEAD
  <1>5. Blocks' = [q \in {a + OVERHEAD : a \in DOMAIN live'} |-> live'[q - OVERHEAD]]
    BY DEF Blocks
  <1>6. \A q \in DOMAIN Blocks \ {p} : live'[q - OVERHEAD] = Blocks[q]
    BY <1>1, <1>3, <1>4
  <1>7. Blocks' = [q \in DOMAIN Blocks \ {p} |-> Blocks[q]]
    BY <1>4, <1>5, <1>6
  <1> HIDE DEF p
  <1>8. Abstract!Free(p)
    BY <1>2, <1>7 DEF Abstract!Free
  <1>9. QED
    BY <1>2, <1>8 DEF Abstract!Next

\* A block out of the heap is clear of the others, because all blocks of the
\* next state are.
LEMMA HeapRefines ==
  ASSUME Inv, Disjoint', NEW req \in Requests, NewBlock(req)
  PROVE  Abstract!Next
  <1>1. PICK c \in Nat : c \notin DOMAIN live /\ live' = Put(live, c, req)
    BY DEF NewBlock
  <1>2. /\ DOMAIN live' = DOMAIN live \cup {c} /\ live'[c] = req
        /\ \A a \in DOMAIN live : live'[a] = live[a]
    BY <1>1 DEF Put
  <1>3. c \notin DOMAIN mmaps'
    BY <1>1 DEF NewBlock, Inv, LiveInv
  <1>4. \A a \in DOMAIN live :
          ~Abstract!Overlap(c + OVERHEAD, req, a + OVERHEAD, live[a])
    BY <1>1, <1>2, <1>3 DEF Disjoint, Abstract!Overlap
  <1>5. QED
    BY <1>1, <1>4, MallocRefines, RequestsAssumption

\* A new mapping is clear of the other mappings, by mmap(), and of the heap.
LEMMA MmapRefines ==
  ASSUME Inv, Disjoint', NEW req \in Requests, malloc_mmap(req)
  PROVE  Abstract!Next
  <1> DEFINE len == align64_up(adjust_size(req) + OVERHEAD, PAGE_SIZE)
  <1>1. PICK base \in MmapBases :
          /\ base > BrkLimit
          /\ \A m \in DOMAIN mmaps :
               base + len <= m - OVERHEAD \/ m - OVERHEAD + mmaps[m] <= base
          /\ live' = Put(live, base + SIZE_ALIGN - OVERHEAD, req)
          /\ mmaps' = Put(mmaps, base + SIZE_ALIGN - OVERHEAD, len)
    BY DEF malloc_mmap
  <1>2. base \in Nat /\ req \in Nat /\ len \in Nat /\ req <= len - 32
    <2>1. adjust_size(req) \in Nat /\ adjust_size(req) + 16 \in Nat /\ req \in Nat
          /\ req + 16 <= adjust_size(req)
      BY Request DEF ChunkSize, OVERHEAD
    <2>2. QED
      BY <2>1, PageUp, MmapAssumption DEF OVERHEAD
  <1> HIDE DEF len
  <1> DEFINE c == base + 16
  <1>3. c \in Nat /\ live' = Put(live, c, req) /\ mmaps' = Put(mmaps, c, len)
    BY <1>1, <1>2 DEF SIZE_ALIGN, OVERHEAD
  <1>4. \A m \in DOMAIN mmaps :
          /\ m \in Nat /\ mmaps[m] \in Nat /\ live[m] \in Nat /\ live[m] <= mmaps[m] - 32
          /\ m \in DOMAIN live
    BY LiveTypes DEF Inv, LiveInv, SIZE_ALIGN
  <1>5. ASSUME NEW m \in DOMAIN mmaps
        PROVE  c # m /\ ~Abstract!Overlap(c + OVERHEAD, req, m + OVERHEAD, live[m])
    <2>1. base + len <= m - 16 \/ m - 16 + mmaps[m] <= base
      BY <1>1 DEF OVERHEAD
    <2>2. c # m /\ ~(c + 16 < m + 16 + live[m] /\ m + 16 < c + 16 + req)
      BY <1>2, <1>4, <2>1
    <2>3. QED
      BY <2>2 DEF Abstract!Overlap, OVERHEAD
  <1>6. c \notin h.cused
    BY <1>1, <1>2, HeaderRange, BrkAssumption DEF Inv
  <1>7. c \notin DOMAIN live
    BY <1>5, <1>6 DEF Inv, LiveInv
  <1>8. /\ DOMAIN live' = DOMAIN live \cup {c} /\ live'[c] = req
        /\ \A a \in DOMAIN live : live'[a] = live[a]
        /\ DOMAIN mmaps' = DOMAIN mmaps \cup {c}
    BY <1>3, <1>7 DEF Put
  <1>9. ASSUME NEW a \in DOMAIN live, a \notin DOMAIN mmaps
        PROVE  ~Abstract!Overlap(c + OVERHEAD, req, a + OVERHEAD, live[a])
    BY <1>7, <1>8, <1>9 DEF Disjoint, Abstract!Overlap
  <1> HIDE DEF c
  <1>10. \A a \in DOMAIN live :
           ~Abstract!Overlap(c + OVERHEAD, req, a + OVERHEAD, live[a])
    BY <1>5, <1>9
  <1>11. QED
    BY <1>2, <1>3, <1>7, <1>10, MallocRefines

LEMMA StepRefines == Inv /\ Disjoint' /\ [Next]_vars => [Abstract!Next]_Blocks
  <1> SUFFICES ASSUME Inv, Disjoint', [Next]_vars, Blocks' # Blocks
               PROVE  Abstract!Next
    OBVIOUS
  <1>1. live' # live
    BY DEF Blocks
  <1>2. Next
    BY <1>1 DEF vars
  <1>3. ASSUME NEW req \in Requests, malloc_mmap(req) PROVE Abstract!Next
    BY <1>3, MmapRefines
  <1>4. ASSUME NEW req \in Requests, malloc_fast(req) PROVE Abstract!Next
    BY <1>4, FastStep, HeapRefines
  <1>5. ASSUME NEW req \in Requests, malloc_slow(req) PROVE Abstract!Next
    BY <1>5, SlowStep, HeapRefines
  <1>6. ASSUME NEW req \in Requests, malloc_expand(req) PROVE Abstract!Next
    BY <1>1, <1>6, ExpandStep, HeapRefines
  <1>7. ASSUME NEW c \in DOMAIN live, free_heap(c) PROVE Abstract!Next
    BY <1>7, FreeRefines DEF free_heap
  <1>8. ASSUME NEW c \in DOMAIN live, free_mmap(c) PROVE Abstract!Next
    BY <1>8, FreeRefines DEF free_mmap
  <1>9. QED
    BY <1>2, <1>3, <1>4, <1>5, <1>6, <1>7, <1>8 DEF Next

\* musl_malloc() and musl_free() keep the promises of an allocator: a block
\* has the bytes asked for, clear of all blocks held, and stays until freed.
THEOREM Refinement == Spec => Implements
  <1>1. Init => Abstract!Init
    <2>1. Init => DOMAIN live = {}
      BY DEF Init
    <2>2. DOMAIN live = {} => Blocks = [p \in {} |-> 0]
      BY DEF Blocks
    <2>3. QED
      BY <2>1, <2>2 DEF Abstract!Init
  <1>2. QED
    BY <1>1, Invariance, InvDisjoint, StepRefines, PTL DEF Spec, Implements, Abstract!Spec

=============================================================================
