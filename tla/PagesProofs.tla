----------------------------- MODULE PagesProofs ------------------------------
(***************************************************************************)
(* Theorems about the programs on pages: the windows of fault_around.cc    *)
(* agree, and what is printed of a page is so.                             *)
(***************************************************************************)
EXTENDS MCPages, InductionProofs, TLAPS

-----------------------------------------------------------------------------
(* fault_around.cc: division with remainder and words that wrap around *)

LEMMA ModRange == ASSUME NEW x \in Int, NEW n \in Nat \ {0}
                  PROVE  x % n \in 0 .. n - 1 /\ x \div n \in Int /\ x = n * (x \div n) + (x % n)
<1>1. x % n \in 0 .. n - 1
  OBVIOUS
<1>2. x \div n \in Int
  OBVIOUS
<1>3. \A y \in Int : \A m \in Int : m > 0 => y = m * (y \div m) + (y % m)
  BY Z3
<1>4. x = n * (x \div n) + (x % n)
  BY <1>3
<1> QED
  BY <1>1, <1>2, <1>4

\* A multiple is zero or at least as long as its factor.
LEMMA Multiple == ASSUME NEW n \in Nat \ {0}, NEW k \in Int, n * k < n, n * k > -n PROVE k = 0
<1>1. CASE k >= 1
  <2>1. n * k >= n * 1
    BY <1>1
  <2> QED
    BY <2>1
<1>2. CASE k <= -1
  <2>1. n * k <= n * (-1)
    BY <1>2
  <2> QED
    BY <2>1
<1> QED
  BY <1>1, <1>2

\* Quotient and remainder are the only ones.
LEMMA DivUnique == ASSUME NEW x \in Int, NEW n \in Nat \ {0}, NEW q \in Int, NEW r \in 0 .. n - 1,
                          x = n * q + r
                   PROVE  x % n = r /\ x \div n = q
<1> DEFINE d == x \div n
           m == x % n
<1>1. m \in 0 .. n - 1 /\ d \in Int /\ x = n * d + m
  BY ModRange
<1> HIDE DEF d, m
<1>2. n * (q - d) = n * q - n * d
  BY <1>1
<1>3. n * (q - d) = m - r
  BY <1>1, <1>2
<1>4. q - d = 0
  <2>1. n * (q - d) < n /\ n * (q - d) > -n
    BY <1>1, <1>3
  <2> QED
    BY <1>1, <2>1, Multiple
<1>5. q = d
  BY <1>1, <1>4
<1>6. m = r
  BY <1>1, <1>5
<1> QED
  BY <1>5, <1>6 DEF d, m

LEMMA TableIs == PTRS_PER_PTE \in Nat \ {0}
<1>1. PICK k \in Nat : PTRS_PER_PTE = 2 ^ k
  BY TableAssumption
<1> QED
  BY <1>1, PowerType

\* The windows rounddown_pow_of_two() gives divide the page table.
LEMMA RoundDown ==
  ASSUME NEW pages, pages \in 1 .. PTRS_PER_PTE - 1, NEW n, n = F!rounddown_pow_of_two(pages)
  PROVE  n \in 1 .. pages /\ PTRS_PER_PTE % n = 0
<1>1. PICK K \in Nat : PTRS_PER_PTE = 2 ^ K
  BY TableAssumption
<1>2. PTRS_PER_PTE \in Nat \ {0} /\ pages \in Nat /\ 1 <= pages /\ pages < PTRS_PER_PTE
  BY TableIs
<1>3. PICK A : A = {2 ^ k : k \in {j \in 0 .. pages : 2 ^ j <= pages}}
  OBVIOUS
<1>4. \A x \in A : x \in Nat \ {0} /\ x <= pages
  BY <1>2, <1>3, PowerType
<1>5. 1 \in A
  <2>1. 2 ^ 0 = 1 /\ 0 \in 0 .. pages
    BY <1>2
  <2> QED
    BY <1>2, <1>3, <2>1
<1>6. PICK D : D = {pages - x : x \in A}
  OBVIOUS
<1>7. D \in SUBSET Nat /\ D # {}
  BY <1>2, <1>4, <1>5, <1>6
<1>8. PICK d \in D : \A y \in D : d <= y
  BY <1>7, Least
<1>9. PICK x \in A : d = pages - x
  BY <1>6, <1>8
<1>10. \A y \in A : x >= y
  <2> SUFFICES ASSUME NEW y \in A PROVE x >= y
    OBVIOUS
  <2>1. d <= pages - y
    BY <1>6, <1>8
  <2> QED
    BY <1>2, <1>4, <1>9, <2>1
<1>11. n \in A
  BY <1>3, <1>10, Zenon DEF F!rounddown_pow_of_two, F!Max
<1>12. PICK k \in Nat : n = 2 ^ k
  BY <1>2, <1>3, <1>11
<1>13. n \in Nat \ {0} /\ n <= pages /\ n < PTRS_PER_PTE
  BY <1>2, <1>4, <1>11
<1>14. PICK q \in Nat : PTRS_PER_PTE = n * q
  BY <1>1, <1>12, <1>13, PowerDivides
<1>15. PTRS_PER_PTE = n * q + 0 /\ 0 \in 0 .. n - 1 /\ q \in Int
  BY <1>13, <1>14
<1>16. PTRS_PER_PTE % n = 0
  BY <1>2, <1>13, <1>15, DivUnique
<1> QED
  BY <1>2, <1>13, <1>16

\* A remainder by a multiple of n keeps the remainder by n.
LEMMA ModMod == ASSUME NEW x \in Int, NEW t \in Nat \ {0}, NEW n \in Nat \ {0}, t % n = 0
                PROVE  (x % t) % n = x % n
<1> DEFINE k == t \div n
           q == x \div t
           r == x % t
           s == r \div n
           m == r % n
<1>1. k \in Int /\ t = n * k
  BY ModRange
<1>2. q \in Int /\ r \in Int /\ x = t * q + r
  BY ModRange
<1>3. s \in Int /\ m \in 0 .. n - 1 /\ r = n * s + m
  BY <1>2, ModRange
<1> HIDE DEF k, q, r, s, m
<1>4. x = (n * k) * q + (n * s + m)
  BY <1>1, <1>2, <1>3
<1>5. n * (k * q + s) = (n * k) * q + n * s
  BY <1>1, <1>2, <1>3
<1>6. x = n * (k * q + s) + m /\ k * q + s \in Int
  BY <1>1, <1>2, <1>3, <1>4, <1>5
<1>7. x % n = m
  BY <1>3, <1>6, DivUnique
<1> QED
  BY <1>7 DEF m, r

\* The block of a page: the pages with its quotient are the n pages from its first.
LEMMA Block == ASSUME NEW x \in Int, NEW a \in Int, NEW n \in Nat \ {0}
               PROVE  a \div n = x \div n <=> x - (x % n) <= a /\ a < x - (x % n) + n
<1> DEFINE q == x \div n
           r == x % n
<1>1. q \in Int /\ r \in 0 .. n - 1 /\ x = n * q + r
  BY ModRange
<1>2. a % n \in 0 .. n - 1 /\ a \div n \in Int /\ a = n * (a \div n) + (a % n)
  BY ModRange
<1> HIDE DEF q, r
<1>3. ASSUME a \div n = q PROVE x - r <= a /\ a < x - r + n
  BY <1>1, <1>2, <1>3
<1>4. ASSUME x - r <= a, a < x - r + n PROVE a \div n = q
  <2>1. a - n * q \in 0 .. n - 1 /\ a = n * q + (a - n * q)
    BY <1>1, <1>4
  <2> QED
    BY <1>1, <2>1, DivUnique
<1> QED
  BY <1>3, <1>4 DEF q, r

LEMMA RemBelow == ASSUME NEW x \in Nat, NEW n \in Nat \ {0} PROVE x % n <= x
<1>1. CASE x < n
  <2>1. x = n * 0 + x /\ x \in 0 .. n - 1
    BY <1>1
  <2> QED
    BY <2>1, DivUnique
<1>2. CASE x >= n
  BY <1>2, ModRange
<1> QED
  BY <1>1, <1>2

-----------------------------------------------------------------------------
(* FaultAround: every version of the window is the reference's *)

\* In the word, arithmetic is exact; below zero it wraps once.
LEMMA WordExact == ASSUME NEW x \in Int, x >= 0, x < Word PROVE F!U(x) = x
<1>1. x = Word * 0 + x /\ Word \in Nat \ {0} /\ x \in 0 .. Word - 1
  BY WordAssumption
<1> QED
  BY <1>1, DivUnique DEF F!U

LEMMA WordWraps == ASSUME NEW x \in Int, x < 0, x >= -Word PROVE F!U(x) = x + Word
<1>1. x = Word * (-1) + (x + Word) /\ Word \in Nat \ {0} /\ x + Word \in 0 .. Word - 1
  BY WordAssumption
<1> QED
  BY <1>1, DivUnique DEF F!U

LEMMA WordOver == ASSUME NEW x \in Int, x >= Word, x < Word + Word PROVE F!U(x) = x - Word
<1>1. x = Word * 1 + (x - Word) /\ Word \in Nat \ {0} /\ x - Word \in 0 .. Word - 1
  BY WordAssumption
<1> QED
  BY <1>1, DivUnique DEF F!U

\* ALIGN_DOWN() goes below zero and comes back.
LEMMA AlignDown == ASSUME NEW x \in Nat, x < Word, NEW n \in Nat \ {0}, n < Word
                   PROVE  F!ALIGN_DOWN(x, n) = x - (x % n)
<1>1. Word \in Nat
  BY WordAssumption
<1>2. F!U(F!U(x - (n - 1)) + (n - 1)) = x
  <2>1. CASE x >= n - 1
    <3>1. F!U(x - (n - 1)) = x - (n - 1)
      BY <1>1, <2>1, WordExact
    <3>2. F!U(x - (n - 1)) + (n - 1) = x
      BY <3>1
    <3> QED
      BY <1>1, <3>2, WordExact
  <2>2. CASE x < n - 1
    <3>1. F!U(x - (n - 1)) = x - (n - 1) + Word
      BY <1>1, <2>2, WordWraps
    <3>2. F!U(x - (n - 1)) + (n - 1) = x + Word
      BY <1>1, <3>1
    <3>3. F!U(x + Word) = (x + Word) - Word
      BY <1>1, WordOver
    <3> QED
      BY <1>1, <3>2, <3>3
  <2> QED
    BY <1>1, <2>1, <2>2
<1> QED
  BY <1>2 DEF F!ALIGN_DOWN

\* A fault on page a of a VMA of z pages from s that maps a file from page o, and a
\* window of n pages: what gen_vmf() and do_test() choose.
Fault(s, z, o, a) ==
  [address |-> a, pgoff |-> o + (a - s),
   vma |-> [vm_start |-> s, vm_end |-> s + z, vm_pgoff |-> o]]

Placed(s, z, o, a, n) ==
  /\ s \in Nat /\ z \in Nat /\ o \in Nat /\ a \in Nat /\ n \in Nat \ {0}
  /\ s <= a /\ a < s + z
  /\ s + z + PTRS_PER_PTE <= Word /\ o + z + PTRS_PER_PTE <= Word
  /\ n < PTRS_PER_PTE /\ PTRS_PER_PTE % n = 0

\* The first page of a's page table, of its aligned block, and of its window; the
\* last page of the window.
Table(a) == a - (a % PTRS_PER_PTE)
Aligned(a, n) == a - (a % n)
First(s, a, n) == IF Aligned(a, n) > s THEN Aligned(a, n) ELSE s
Last(s, z, a, n) ==
  F!min3(Table(a) + PTRS_PER_PTE - 1, s + z - 1, First(s, a, n) + n - 1)

LEMMA Places ==
  ASSUME NEW s, NEW z, NEW o, NEW a, NEW n, Placed(s, z, o, a, n)
  PROVE  /\ Table(a) \in Nat /\ Aligned(a, n) \in Nat
         /\ Table(a) <= Aligned(a, n) /\ Aligned(a, n) <= a /\ a < Aligned(a, n) + n
         /\ a < Table(a) + PTRS_PER_PTE
         /\ a % PTRS_PER_PTE = a - Table(a)
         /\ (a % PTRS_PER_PTE) % n = a - Aligned(a, n)
<1>1. PTRS_PER_PTE \in Nat \ {0} /\ a \in Nat /\ n \in Nat \ {0} /\ PTRS_PER_PTE % n = 0
  BY TableIs DEF Placed
<1>2. a \in Int
  BY <1>1
<1>2a. a % PTRS_PER_PTE \in 0 .. PTRS_PER_PTE - 1 /\ a % n \in 0 .. n - 1
  BY <1>1, <1>2, ModRange, Zenon
<1>3. (a % PTRS_PER_PTE) % n = a % n
  BY <1>1, <1>2, ModMod, Zenon
<1>4. a % n <= a % PTRS_PER_PTE
  <2>1. a % PTRS_PER_PTE \in Nat
    BY <1>1, <1>2a
  <2>2. (a % PTRS_PER_PTE) % n <= a % PTRS_PER_PTE
    BY <1>1, <2>1, RemBelow, Zenon
  <2> QED
    BY <1>3, <2>2
<1>5. a % PTRS_PER_PTE <= a
  BY <1>1, RemBelow, Zenon
<1> QED
  BY <1>1, <1>2a, <1>3, <1>4, <1>5 DEF Table, Aligned

LEMMA Ends ==
  ASSUME NEW s, NEW z, NEW o, NEW a, NEW n, Placed(s, z, o, a, n)
  PROVE  /\ First(s, a, n) \in Nat /\ Last(s, z, a, n) \in Nat
         /\ s <= First(s, a, n) /\ First(s, a, n) <= a /\ a <= Last(s, z, a, n)
         /\ Table(a) <= First(s, a, n) /\ Last(s, z, a, n) < s + z
         /\ First(s, a, n) < Table(a) + PTRS_PER_PTE
         /\ a < First(s, a, n) + n
<1> DEFINE t == Table(a)
           b == Aligned(a, n)
           f == First(s, a, n)
<1>1. PTRS_PER_PTE \in Nat \ {0}
  BY TableIs
<1>2. /\ s \in Nat /\ z \in Nat /\ a \in Nat /\ n \in Nat \ {0} /\ s <= a /\ a < s + z
  BY DEF Placed
<1>3. /\ t \in Nat /\ b \in Nat /\ t <= b /\ b <= a /\ a < b + n /\ a < t + PTRS_PER_PTE
  BY Places, Zenon
<1>4. f = IF b > s THEN b ELSE s
  BY DEF First
<1>5. Last(s, z, a, n) = F!min3(t + PTRS_PER_PTE - 1, s + z - 1, f + n - 1)
  BY DEF Last
<1> HIDE DEF t, b, f
<1>6. f \in Nat /\ s <= f /\ f <= a /\ t <= f /\ f < t + PTRS_PER_PTE /\ a < f + n
  BY <1>1, <1>2, <1>3, <1>4
<1>7. Last(s, z, a, n) \in Nat /\ a <= Last(s, z, a, n) /\ Last(s, z, a, n) < s + z
  BY <1>1, <1>2, <1>3, <1>5, <1>6 DEF F!min3, F!min
<1> QED
  BY <1>6, <1>7 DEF t, b, f

LEMMA RemSmall == ASSUME NEW x \in Int, NEW n \in Nat \ {0}, x >= 0, x < n PROVE x % n = x
<1>1. x = n * 0 + x /\ x \in 0 .. n - 1
  OBVIOUS
<1> QED
  BY <1>1, DivUnique

\* Where a page of the same page table is in it.
LEMMA Index ==
  ASSUME NEW a \in Int, NEW x \in Int, Table(a) <= x, x < Table(a) + PTRS_PER_PTE
  PROVE  x % PTRS_PER_PTE = x - Table(a)
<1>1. PTRS_PER_PTE \in Nat \ {0}
  BY TableIs
<1>2. a % PTRS_PER_PTE \in 0 .. PTRS_PER_PTE - 1 /\ a \div PTRS_PER_PTE \in Int
      /\ a = PTRS_PER_PTE * (a \div PTRS_PER_PTE) + (a % PTRS_PER_PTE)
  BY <1>1, ModRange, Zenon
<1>3. PTRS_PER_PTE * (a \div PTRS_PER_PTE) \in Int /\ Table(a) = PTRS_PER_PTE * (a \div PTRS_PER_PTE)
  BY <1>1, <1>2 DEF Table
<1>4. x = PTRS_PER_PTE * (a \div PTRS_PER_PTE) + (x - Table(a)) /\ x - Table(a) \in 0 .. PTRS_PER_PTE - 1
  BY <1>1, <1>3
<1> QED
  BY <1>1, <1>2, <1>4, DivUnique

Answer(s, z, o, a, n) == <<o + First(s, a, n) - s, o + Last(s, z, a, n) - s>>

LEMMA Original ==
  ASSUME NEW s, NEW z, NEW o, NEW a, NEW n, Placed(s, z, o, a, n)
  PROVE  F!original_fault_around(Fault(s, z, o, a), n) = Answer(s, z, o, a, n)
<1> DEFINE f == First(s, a, n)
           t == Table(a)
           start == o + f - s
<1>1. PTRS_PER_PTE \in Nat \ {0} /\ Word \in Nat
  BY TableIs, WordAssumption
<1>2. /\ s \in Nat /\ z \in Nat /\ o \in Nat /\ a \in Nat /\ n \in Nat \ {0} /\ s <= a /\ a < s + z
      /\ s + z + PTRS_PER_PTE <= Word /\ o + z + PTRS_PER_PTE <= Word /\ n < PTRS_PER_PTE
  BY DEF Placed
<1>3. /\ t \in Nat /\ a < t + PTRS_PER_PTE
  BY Places, Zenon
<1>4. /\ f \in Nat /\ s <= f /\ f <= a /\ t <= f /\ f < t + PTRS_PER_PTE /\ a < f + n
  BY Ends, Zenon
<1>5. F!max(a - (a % n), s) = f
  BY DEF F!max, First, Aligned
<1>6. Last(s, z, a, n) = F!min3(t + PTRS_PER_PTE - 1, s + z - 1, f + n - 1)
  BY DEF Last
<1> HIDE DEF f, t
<1>7. F!U(a - f) % PTRS_PER_PTE = a - f
  <2>1. F!U(a - f) = a - f
    BY <1>1, <1>2, <1>4, WordExact
  <2> QED
    BY <1>1, <1>2, <1>4, <2>1, RemSmall
<1>8. F!U(o + (a - s) - (a - f)) = start
  <2>1. o + (a - s) - (a - f) = start /\ start \in Int /\ start >= 0 /\ start < Word
    BY <1>1, <1>2, <1>4
  <2> QED
    BY <2>1, WordExact
<1>9. F!pte_index(f) = f - t
  BY <1>1, <1>2, <1>3, <1>4, Index DEF F!pte_index, t
<1>10. F!U(start - (f - t) + PTRS_PER_PTE - 1) = o - s + t + PTRS_PER_PTE - 1
  <2> DEFINE x == start - (f - t) + PTRS_PER_PTE - 1
  <2>1. x \in Int /\ x >= 0 /\ x < Word /\ x = o - s + t + PTRS_PER_PTE - 1
    BY <1>1, <1>2, <1>3, <1>4
  <2>2. F!U(x) = x
    BY <2>1, WordExact
  <2> QED
    BY <2>1, <2>2
<1>11. F!vma_pages(Fault(s, z, o, a).vma) = z
  <2>1. s + z - s = z /\ z \in Int /\ z >= 0 /\ z < Word
    BY <1>1, <1>2
  <2>2. F!vma_pages(Fault(s, z, o, a).vma) = F!U(s + z - s)
    BY <1>2 DEF F!vma_pages, Fault
  <2>3. F!U(z) = z
    BY <2>1, WordExact
  <2> QED
    BY <2>1, <2>2, <2>3
<1>12. F!U(z + o - 1) = z + o - 1
  BY <1>1, <1>2, WordExact
<1>13. F!U(start + n - 1) = start + n - 1
  BY <1>1, <1>2, <1>4, WordExact
<1>14. F!min3(o - s + t + PTRS_PER_PTE - 1, z + o - 1, start + n - 1) = o + Last(s, z, a, n) - s
  BY <1>1, <1>2, <1>3, <1>4, <1>6 DEF F!min3, F!min
<1>15. F!original_fault_around(Fault(s, z, o, a), n)
         = <<start, F!min3(o - s + t + PTRS_PER_PTE - 1, z + o - 1, start + n - 1)>>
  <2> DEFINE v == Fault(s, z, o, a)
  <2>1. v.address = a /\ v.pgoff = o + (a - s) /\ v.vma.vm_start = s /\ v.vma.vm_pgoff = o
    BY DEF Fault
  <2>2. F!vma_pages(v.vma) = z
    BY <1>11
  <2> HIDE DEF v
  <2>3. F!max(v.address - (v.address % n), v.vma.vm_start) = f
    BY <1>5, <2>1
  <2>4. F!U(v.address - f) % PTRS_PER_PTE = a - f
    BY <1>2, <1>4, <1>7, <2>1
  <2>5. F!U(v.pgoff - (a - f)) = start
    <3>1. v.pgoff = o + (a - s)
      BY <2>1
    <3> QED
      BY <1>2, <1>4, <1>8, <3>1
  <2>6. F!U(F!vma_pages(v.vma) + v.vma.vm_pgoff - 1) = z + o - 1
    BY <1>12, <2>1, <2>2
  <2>7. F!U(start - F!pte_index(f) + PTRS_PER_PTE - 1) = o - s + t + PTRS_PER_PTE - 1
    BY <1>9, <1>10
  <2> HIDE DEF start
  <2>8. F!original_fault_around(v, n)
          = <<start, F!min3(F!U(start - F!pte_index(f) + PTRS_PER_PTE - 1),
                            F!U(F!vma_pages(v.vma) + v.vma.vm_pgoff - 1), F!U(start + n - 1))>>
    BY <2>3, <2>4, <2>5 DEF F!original_fault_around
  <2> QED
    BY <1>13, <2>6, <2>7, <2>8 DEF v, start
<1> QED
  BY <1>14, <1>15 DEF Answer, f

\* What all versions compute from: the numbers of a placed fault.
LEMMA Numbers ==
  ASSUME NEW s, NEW z, NEW o, NEW a, NEW n, Placed(s, z, o, a, n)
  PROVE  /\ PTRS_PER_PTE \in Nat \ {0} /\ Word \in Nat
         /\ s \in Nat /\ z \in Nat /\ o \in Nat /\ a \in Nat /\ n \in Nat \ {0} /\ s <= a /\ a < s + z
         /\ s + z + PTRS_PER_PTE <= Word /\ o + z + PTRS_PER_PTE <= Word /\ n < PTRS_PER_PTE
         /\ Fault(s, z, o, a).address = a /\ Fault(s, z, o, a).pgoff = o + (a - s)
         /\ Fault(s, z, o, a).vma.vm_start = s /\ Fault(s, z, o, a).vma.vm_end = s + z
         /\ Fault(s, z, o, a).vma.vm_pgoff = o
BY TableIs, WordAssumption DEF Placed, Fault

LEMMA Take1 ==
  ASSUME NEW s, NEW z, NEW o, NEW a, NEW n, Placed(s, z, o, a, n)
  PROVE  F!do_fault_around_take1(Fault(s, z, o, a), n) = Answer(s, z, o, a, n)
<1> DEFINE f == First(s, a, n)
           l == Last(s, z, a, n)
           t == Table(a)
           b == Aligned(a, n)
           v == Fault(s, z, o, a)
<1>1. /\ PTRS_PER_PTE \in Nat \ {0} /\ Word \in Nat
      /\ s \in Nat /\ z \in Nat /\ o \in Nat /\ a \in Nat /\ n \in Nat \ {0} /\ s <= a /\ a < s + z
      /\ s + z + PTRS_PER_PTE <= Word /\ o + z + PTRS_PER_PTE <= Word /\ n < PTRS_PER_PTE
      /\ v.address = a /\ v.pgoff = o + (a - s) /\ v.vma.vm_start = s /\ v.vma.vm_end = s + z
  BY Numbers
<1>2. t \in Nat /\ b \in Nat /\ t <= b /\ a % PTRS_PER_PTE = a - t
  BY Places, Zenon
<1>3. /\ f \in Nat /\ s <= f /\ f <= a /\ l \in Nat /\ a <= l /\ l < s + z
  BY Ends, Zenon
<1>4. f = (IF b > s THEN b ELSE s) /\ l = F!min3(t + PTRS_PER_PTE - 1, s + z - 1, f + n - 1)
  BY DEF First, Last
<1>5. F!ALIGN_DOWN(a, n) = b
  BY <1>1, AlignDown DEF Aligned
<1> HIDE DEF f, l, t, b, v
<1>6. a - F!pte_index(a) = t
  BY <1>1, <1>2 DEF F!pte_index
<1>7. F!max(F!max(t, s), b) = f
  BY <1>1, <1>2, <1>4 DEF F!max
<1>8. F!U(o + (a - s) + f - a) = o + f - s
  <2> DEFINE x == o + (a - s) + f - a
  <2>1. x = o + f - s /\ x \in Int /\ x >= 0 /\ x < Word
    BY <1>1, <1>3
  <2>2. F!U(x) = x
    BY <2>1, WordExact
  <2> QED
    BY <2>1, <2>2
<1>9. F!U(o + (a - s) + l - a) = o + l - s
  <2> DEFINE x == o + (a - s) + l - a
  <2>1. x = o + l - s /\ x \in Int /\ x >= 0 /\ x < Word
    BY <1>1, <1>3
  <2>2. F!U(x) = x
    BY <2>1, WordExact
  <2> QED
    BY <2>1, <2>2
<1>10. v.address - F!pte_index(v.address) = t
  BY <1>1, <1>6
<1>11. F!max(F!max(t, v.vma.vm_start), F!ALIGN_DOWN(v.address, n)) = f
  BY <1>1, <1>5, <1>7
<1>12. F!min3(t + PTRS_PER_PTE - 1, v.vma.vm_end - 1, f + n - 1) = l
  BY <1>1, <1>4
<1>13. F!U(v.pgoff + f - v.address) = o + f - s
  BY <1>1, <1>8
<1>14. F!U(v.pgoff + l - v.address) = o + l - s
  BY <1>1, <1>9
<1>15. F!do_fault_around_take1(v, n) = <<F!U(v.pgoff + f - v.address), F!U(v.pgoff + l - v.address)>>
  BY <1>10, <1>11, <1>12 DEF F!do_fault_around_take1
<1> QED
  BY <1>13, <1>14, <1>15 DEF Answer, f, l, v

LEMMA Take2 ==
  ASSUME NEW s, NEW z, NEW o, NEW a, NEW n, Placed(s, z, o, a, n)
  PROVE  F!do_fault_around_take2(Fault(s, z, o, a), n) = Answer(s, z, o, a, n)
<1> DEFINE f == First(s, a, n)
           l == Last(s, z, a, n)
           t == Table(a)
           b == Aligned(a, n)
           v == Fault(s, z, o, a)
           i == a - t
<1>1. /\ PTRS_PER_PTE \in Nat \ {0} /\ Word \in Nat
      /\ s \in Nat /\ z \in Nat /\ o \in Nat /\ a \in Nat /\ n \in Nat \ {0} /\ s <= a /\ a < s + z
      /\ s + z + PTRS_PER_PTE <= Word /\ o + z + PTRS_PER_PTE <= Word /\ n < PTRS_PER_PTE
      /\ v.address = a /\ v.pgoff = o + (a - s) /\ v.vma.vm_start = s /\ v.vma.vm_end = s + z
      /\ v.vma.vm_pgoff = o
  BY Numbers
<1>2. /\ t \in Nat /\ b \in Nat /\ t <= b /\ b <= a /\ a < t + PTRS_PER_PTE
      /\ a % PTRS_PER_PTE = a - t /\ (a % PTRS_PER_PTE) % n = a - b
  BY Places
<1>3. /\ f \in Nat /\ s <= f /\ f <= a /\ l \in Nat /\ a <= l /\ l < s + z
  BY Ends, Zenon
<1>4. f = (IF b > s THEN b ELSE s) /\ l = F!min3(t + PTRS_PER_PTE - 1, s + z - 1, f + n - 1)
  BY DEF First, Last
<1> HIDE DEF f, l, t, b, v
<1>5. F!pte_index(v.address) = i
  BY <1>1, <1>2 DEF F!pte_index
<1>6. F!U(v.pgoff - v.vma.vm_pgoff) = a - s
  <2>1. v.pgoff - v.vma.vm_pgoff = a - s /\ a - s \in Int /\ a - s >= 0 /\ a - s < Word
    BY <1>1
  <2>2. F!U(a - s) = a - s
    BY <2>1, WordExact
  <2> QED
    BY <2>1, <2>2
<1>7. F!ALIGN_DOWN(i, n) = b - t
  <2>1. i \in Nat /\ i < Word /\ n < Word
    BY <1>1, <1>2
  <2>2. F!ALIGN_DOWN(i, n) = i - (i % n)
    BY <1>1, <2>1, AlignDown
  <2>3. i % n = a - b
    BY <1>2
  <2> QED
    BY <1>1, <1>2, <2>2, <2>3
<1>8. F!max(b - t, i - F!min(i, a - s)) = f - t
  BY <1>1, <1>2, <1>4 DEF F!max, F!min
<1>9. F!U(i + F!vma_pages(v.vma) - (a - s)) = s + z - t
  <2>1. s + z - s = z /\ z \in Int /\ z >= 0 /\ z < Word
    BY <1>1
  <2>2. F!vma_pages(v.vma) = F!U(s + z - s)
    BY <1>1 DEF F!vma_pages
  <2>3. F!U(z) = z
    BY <2>1, WordExact
  <2>4. F!vma_pages(v.vma) = z
    BY <2>1, <2>2, <2>3
  <2> DEFINE x == i + z - (a - s)
  <2>5. x = s + z - t /\ x \in Int /\ x >= 0 /\ x < Word
    BY <1>1, <1>2
  <2>6. F!U(x) = x
    BY <2>5, WordExact
  <2> QED
    BY <2>4, <2>5, <2>6
<1>10. F!min3(f - t + n, PTRS_PER_PTE, s + z - t) - 1 = l - t
  BY <1>1, <1>2, <1>3, <1>4 DEF F!min3, F!min
<1>11. F!U(v.pgoff + (f - t) - i) = o + f - s
  <2> DEFINE x == v.pgoff + (f - t) - i
  <2>1. x = o + f - s /\ x \in Int /\ x >= 0 /\ x < Word
    BY <1>1, <1>2, <1>3
  <2>2. F!U(x) = x
    BY <2>1, WordExact
  <2> QED
    BY <2>1, <2>2
<1>12. F!U(v.pgoff + (l - t) - i) = o + l - s
  <2> DEFINE x == v.pgoff + (l - t) - i
  <2>1. x = o + l - s /\ x \in Int /\ x >= 0 /\ x < Word
    BY <1>1, <1>2, <1>3
  <2>2. F!U(x) = x
    BY <2>1, WordExact
  <2> QED
    BY <2>1, <2>2
<1> HIDE DEF i
<1>13. F!do_fault_around_take2(v, n) = <<F!U(v.pgoff + (f - t) - i), F!U(v.pgoff + (l - t) - i)>>
  BY <1>5, <1>6, <1>7, <1>8, <1>9, <1>10 DEF F!do_fault_around_take2
<1> QED
  BY <1>11, <1>12, <1>13 DEF Answer, f, l, v

LEMMA Final ==
  ASSUME NEW s, NEW z, NEW o, NEW a, NEW n, Placed(s, z, o, a, n)
  PROVE  F!do_fault_around(Fault(s, z, o, a), n) = Answer(s, z, o, a, n)
<1>1. F!do_fault_around(Fault(s, z, o, a), n) = F!do_fault_around_take2(Fault(s, z, o, a), n)
  BY DEF F!do_fault_around, F!do_fault_around_take2
<1> QED
  BY <1>1, Take2

\* The window as a set of file pages.
LEMMA WindowIs ==
  ASSUME NEW s, NEW z, NEW o, NEW a, NEW n, Placed(s, z, o, a, n)
  PROVE  F!Window(Fault(s, z, o, a), n) = (o + First(s, a, n) - s) .. (o + Last(s, z, a, n) - s)
<1> DEFINE f == First(s, a, n)
           l == Last(s, z, a, n)
           t == Table(a)
           b == Aligned(a, n)
           v == Fault(s, z, o, a)
           mine == {x \in s .. s + z - 1 : x \div PTRS_PER_PTE = a \div PTRS_PER_PTE}
           block == {x \in mine : x \div n = a \div n}
<1>1. /\ PTRS_PER_PTE \in Nat \ {0}
      /\ s \in Nat /\ z \in Nat /\ o \in Nat /\ a \in Nat /\ n \in Nat \ {0} /\ s <= a /\ a < s + z
      /\ v.address = a /\ v.vma.vm_start = s /\ v.vma.vm_end = s + z /\ v.vma.vm_pgoff = o
  BY Numbers
<1>2. /\ t \in Nat /\ b \in Nat /\ t <= b /\ b <= a /\ a < b + n /\ a < t + PTRS_PER_PTE
  BY Places
<1>3. /\ f \in Nat /\ s <= f /\ f <= a /\ l \in Nat /\ a <= l /\ l < s + z
  BY Ends, Zenon
<1>4. f = (IF b > s THEN b ELSE s) /\ l = F!min3(t + PTRS_PER_PTE - 1, s + z - 1, f + n - 1)
  BY DEF First, Last
<1>5. \A x \in Int : x \div PTRS_PER_PTE = a \div PTRS_PER_PTE <=> t <= x /\ x < t + PTRS_PER_PTE
  <2>1. a \in Int /\ PTRS_PER_PTE \in Nat \ {0}
    BY <1>1
  <2> QED
    BY <2>1, Block, Zenon DEF Table
<1>6. \A x \in Int : x \div n = a \div n <=> b <= x /\ x < b + n
  <2>1. a \in Int /\ n \in Nat \ {0}
    BY <1>1
  <2> QED
    BY <2>1, Block, Zenon DEF Aligned
<1> HIDE DEF f, l, t, b, v
<1>7. mine = {x \in s .. s + z - 1 : t <= x /\ x < t + PTRS_PER_PTE}
  <2>1. \A x \in s .. s + z - 1 : x \in Int
    BY <1>1
  <2> QED
    BY <1>5, <2>1, Zenon
<1>8. block = {x \in s .. s + z - 1 : t <= x /\ x < t + PTRS_PER_PTE /\ b <= x /\ x < b + n}
  <2>1. \A x \in s .. s + z - 1 : x \in Int
    BY <1>1
  <2>2. block = {x \in mine : b <= x /\ x < b + n}
    BY <1>6, <2>1, Zenon
  <2> HIDE DEF mine, block
  <2> QED
    BY <1>7, <2>2
<1>9. F!Min(block) = f
  <2> HIDE DEF block
  <2>1. f \in block /\ \A x \in block : f <= x
    BY <1>1, <1>2, <1>3, <1>4, <1>8
  <2>2. \A x \in block : x \in Int
    BY <1>1, <1>8
  <2>3. \A y \in block : (\A x \in block : y <= x) => y = f
    BY <1>3, <2>1, <2>2
  <2> QED
    BY <2>1, <2>3 DEF F!Min
<1>10. F!Window(v, n) = {x - s + o : x \in {y \in mine : y >= f /\ y < f + n}}
  <2>1. mine = {x \in v.vma.vm_start .. v.vma.vm_end - 1 : x \div PTRS_PER_PTE = v.address \div PTRS_PER_PTE}
    BY <1>1
  <2>2. block = {x \in mine : x \div n = v.address \div n}
    BY <1>1
  <2> HIDE DEF mine, block
  <2> QED
    BY <1>1, <1>9, <2>1, <2>2 DEF F!Window
<1>11. {y \in mine : y >= f /\ y < f + n} = f .. l
  BY <1>1, <1>2, <1>3, <1>4, <1>7 DEF F!min3, F!min
<1>12. {x - s + o : x \in f .. l} = (o + f - s) .. (o + l - s)
  <2>1. ASSUME NEW y \in {x - s + o : x \in f .. l} PROVE y \in (o + f - s) .. (o + l - s)
    BY <1>1, <1>3
  <2>2. ASSUME NEW y \in (o + f - s) .. (o + l - s) PROVE y \in {x - s + o : x \in f .. l}
    <3>1. y - o + s \in f .. l /\ (y - o + s) - s + o = y
      BY <1>1, <1>3
    <3> QED
      BY <3>1
  <2> QED
    BY <2>1, <2>2
<1> QED
  BY <1>10, <1>11, <1>12 DEF f, l, v

\* A thread that has tested has tested a placed fault.
Tested(v, n) ==
  \E s \in Starts, z \in Sizes, o \in Offsets, a \in Nat : Placed(s, z, o, a, n) /\ v = Fault(s, z, o, a)

AroundInv ==
  /\ worker \in [1 .. Cpus -> {"none", "starting", "testing", "tested", "dead"}]
  /\ DOMAIN vmf = 1 .. Cpus /\ DOMAIN nr_pages = 1 .. Cpus
  /\ started \in 0 .. Cpus /\ mismatch = {}
  /\ \A c \in 1 .. Cpus : worker[c] = "tested" => Tested(vmf[c], nr_pages[c])

LEMMA AroundInit == F!Init => AroundInv
BY CpusAssumption DEF F!Init, AroundInv

LEMMA TestStep == ASSUME AroundInv, NEW c \in 1 .. Cpus, F!do_test(c) PROVE AroundInv'
<1> USE DEF AroundInv
<1>1. worker' = [worker EXCEPT ![c] = "tested"] /\ UNCHANGED started
  BY DEF F!do_test
<1>2. PICK s \in Starts, z \in Sizes, o \in Offsets : \E a \in s .. s + z - 1 :
        vmf' = [vmf EXCEPT ![c] = Fault(s, z, o, a)]
  BY DEF F!do_test, F!gen_vmf, Fault
<1>3. PICK a \in s .. s + z - 1 : vmf' = [vmf EXCEPT ![c] = Fault(s, z, o, a)]
  BY <1>2
<1>4. PICK pages \in 1 .. PTRS_PER_PTE - 1 :
        nr_pages' = [nr_pages EXCEPT ![c] = F!rounddown_pow_of_two(pages)]
  BY DEF F!do_test
<1> DEFINE n == F!rounddown_pow_of_two(pages)
<1>5. n \in 1 .. pages /\ PTRS_PER_PTE % n = 0 /\ PTRS_PER_PTE \in Nat \ {0}
  BY RoundDown, TableIs
<1>6. s \in Nat /\ z \in Nat /\ o \in Nat /\ s + z + PTRS_PER_PTE <= Word /\ o + z + PTRS_PER_PTE <= Word
  BY WordAssumption
<1> HIDE DEF n
<1>7. a \in Nat /\ Placed(s, z, o, a, n)
  BY <1>5, <1>6 DEF Placed
<1>8. vmf'[c] = Fault(s, z, o, a) /\ nr_pages'[c] = n
  BY <1>3, <1>4 DEF n
<1>9. mismatch' = {}
  <2>1. F!original_fault_around(vmf'[c], nr_pages'[c]) = F!do_fault_around(vmf'[c], nr_pages'[c])
    BY <1>7, <1>8, Original, Final
  <2> QED
    BY <2>1 DEF F!do_test
<1>10. Tested(vmf'[c], nr_pages'[c])
  BY <1>7, <1>8 DEF Tested
<1>11. \A d \in 1 .. Cpus : d # c => worker'[d] = worker[d] /\ vmf'[d] = vmf[d] /\ nr_pages'[d] = nr_pages[d]
  BY <1>1, <1>3, <1>4
<1>12. \A d \in 1 .. Cpus : worker'[d] = "tested" => Tested(vmf'[d], nr_pages'[d])
  BY <1>10, <1>11
<1>13. DOMAIN vmf' = 1 .. Cpus /\ DOMAIN nr_pages' = 1 .. Cpus
  BY <1>3, <1>4
<1>14. worker' \in [1 .. Cpus -> {"none", "starting", "testing", "tested", "dead"}]
  BY <1>1
<1>15. (\A d \in 1 .. Cpus : worker[d] = "tested" => Tested(vmf[d], nr_pages[d]))'
  BY <1>12 DEF Tested
<1> QED
  BY <1>1, <1>9, <1>13, <1>14, <1>15

LEMMA AroundStep == AroundInv /\ [F!Next]_fvars => AroundInv'
<1> SUFFICES ASSUME AroundInv, [F!Next]_fvars PROVE AroundInv'
  OBVIOUS
<1>1. CASE F!create
  <2>1. /\ worker' = [worker EXCEPT ![started + 1] = "starting"]
        /\ UNCHANGED <<vmf, nr_pages, mismatch>> /\ started' = started + 1 /\ started < Cpus
    BY <1>1 DEF F!create
  <2> QED
    BY <2>1, CpusAssumption DEF AroundInv, Tested
<1>2. CASE F!assign \/ UNCHANGED fvars
  BY <1>2 DEF F!assign, fvars, AroundInv, Tested
<1>3. ASSUME NEW c \in 1 .. Cpus, F!setaffinity(c) PROVE AroundInv'
  <2>1. /\ UNCHANGED <<started, vmf, nr_pages, mismatch>>
        /\ \/ worker' = [worker EXCEPT ![c] = "testing"]
           \/ worker' = [d \in 1 .. Cpus |-> "dead"]
    BY <1>3 DEF F!setaffinity
  <2>2. worker' \in [1 .. Cpus -> {"none", "starting", "testing", "tested", "dead"}]
    BY <2>1 DEF AroundInv
  <2>3. \A d \in 1 .. Cpus : worker'[d] = "tested" => worker[d] = "tested"
    BY <2>1 DEF AroundInv
  <2> QED
    BY <2>1, <2>2, <2>3 DEF AroundInv, Tested
<1> QED
  BY <1>1, <1>2, <1>3, TestStep DEF F!Next

\* src/concepts/fault_around: for any number of threads, any power of two of page
\* table entries and every VMA, fault and window the program may draw, the four
\* versions compute one window and it is the reference's, so that no thread ever
\* prints a mismatch.
THEOREM WindowsAgree == Spec => []SameWindow
<1>1. Init => AroundInv
  BY AroundInit DEF Init
<1>2. AroundInv /\ [Next]_vars => AroundInv'
  <2>1. [Next]_vars => [F!Next]_fvars
    <3>1. Next => F!Next \/ UNCHANGED fvars
      BY Zenon DEF Next, tour, private, around
    <3>2. UNCHANGED vars => UNCHANGED fvars
      BY DEF vars, fvars
    <3> QED
      BY <3>1, <3>2, Zenon
  <2> QED
    BY <2>1, AroundStep
<1>3. AroundInv => SameWindow
  <2> SUFFICES ASSUME AroundInv, NEW c \in 1 .. Cpus, worker[c] = "tested"
      PROVE  LET got == F!original_fault_around(vmf[c], nr_pages[c])
             IN  /\ F!do_fault_around_take1(vmf[c], nr_pages[c]) = got
                 /\ F!do_fault_around_take2(vmf[c], nr_pages[c]) = got
                 /\ got[1] .. got[2] = F!Window(vmf[c], nr_pages[c])
    BY DEF SameWindow, F!SameWindow, AroundInv
  <2>1. PICK s \in Starts, z \in Sizes, o \in Offsets, a \in Nat :
          Placed(s, z, o, a, nr_pages[c]) /\ vmf[c] = Fault(s, z, o, a)
    BY DEF AroundInv, Tested
  <2>2. /\ F!original_fault_around(vmf[c], nr_pages[c]) = Answer(s, z, o, a, nr_pages[c])
        /\ F!do_fault_around_take1(vmf[c], nr_pages[c]) = Answer(s, z, o, a, nr_pages[c])
        /\ F!do_fault_around_take2(vmf[c], nr_pages[c]) = Answer(s, z, o, a, nr_pages[c])
    BY <2>1, Original, Take1, Take2
  <2>3. Answer(s, z, o, a, nr_pages[c])[1] .. Answer(s, z, o, a, nr_pages[c])[2]
          = F!Window(vmf[c], nr_pages[c])
    BY <2>1, WindowIs DEF Answer
  <2> QED
    BY <2>2, <2>3
<1> QED
  BY <1>1, <1>2, <1>3, PTL DEF Spec

-----------------------------------------------------------------------------
(* The kernel's pages keep their shape *)

\* A mapping that can be accessed is of something; a page table entry is a number.
Maps(v) ==
  \A p \in Processes, m \in Pointers : v.map[p][m].obj \in Files \cup {"anon"} \/ v.map[p][m].n = 0

Shape(v) ==
  /\ DOMAIN v = {"data", "anon", "dirty", "len", "cache", "map", "pte"}
  /\ \E S : v.data \in Seq(S)
  /\ v.cache \in [Files -> [T!Pages -> Int]]
  /\ DOMAIN v.map = Processes /\ \A p \in Processes : DOMAIN v.map[p] = Pointers
  /\ Maps(v)
  /\ v.pte \in [Processes -> [Pointers -> [T!Pages -> Int]]]

LEMMA FreshShape == Shape(T!Fresh)
<1>1. /\ DOMAIN T!Fresh = {"data", "anon", "dirty", "len", "cache", "map", "pte"}
      /\ T!Fresh.data = <<T!Zero>>
      /\ T!Fresh.cache = [o \in Files |-> [i \in T!Pages |-> 0]]
      /\ T!Fresh.map = [p \in Processes |-> [m \in Pointers |-> T!NoMapping]]
      /\ T!Fresh.pte = [p \in Processes |-> [m \in Pointers |-> [i \in T!Pages |-> 0]]]
  BY DEF T!Fresh, T!None
<1>2. \E S : T!Fresh.data \in Seq(S)
  <2>1. <<T!Zero>> \in Seq({T!Zero})
    OBVIOUS
  <2> QED
    BY <1>1, <2>1, Zenon
<1>3. T!NoMapping.n = 0
  BY DEF T!NoMapping
<1>4. Maps(T!Fresh)
  BY <1>1, <1>3 DEF Maps
<1> QED
  BY <1>1, <1>2, <1>4 DEF Shape

\* One page table entry is set.
WithPte(v, p, m, i, f) == [v EXCEPT !.pte[p][m][i] = f]

LEMMA SetPte ==
  ASSUME NEW v, Shape(v), NEW p \in Processes, NEW m \in Pointers, NEW i \in T!Pages, NEW f \in Int,
         NEW u, u = WithPte(v, p, m, i, f)
  PROVE  Shape(u)
<1>1. v.pte \in [Processes -> [Pointers -> [T!Pages -> Int]]]
  BY DEF Shape
<1>2. /\ DOMAIN u = DOMAIN v /\ u.data = v.data /\ u.cache = v.cache
      /\ u.map = v.map /\ u.pte = [v.pte EXCEPT ![p][m][i] = f]
  BY DEF Shape, WithPte
<1>3. u.pte = [v.pte EXCEPT ![p] = [v.pte[p] EXCEPT ![m] = [v.pte[p][m] EXCEPT ![i] = f]]]
  BY <1>1, <1>2
<1>4. [v.pte[p][m] EXCEPT ![i] = f] \in [T!Pages -> Int]
  BY <1>1
<1>5. [v.pte[p] EXCEPT ![m] = [v.pte[p][m] EXCEPT ![i] = f]] \in [Pointers -> [T!Pages -> Int]]
  BY <1>1, <1>4
<1>6. u.pte \in [Processes -> [Pointers -> [T!Pages -> Int]]]
  BY <1>1, <1>3, <1>5
<1> QED
  BY <1>2, <1>6 DEF Shape, Maps

\* A page of a file is brought in.
LEMMA CachedShape ==
  ASSUME NEW v, Shape(v), NEW o \in Files \cup {"anon"}, NEW i \in T!Pages,
         NEW u, u = T!Cached(v, o, i)
  PROVE  Shape(u) /\ T!CacheFrame(u, o, i) \in Int
<1>1. CASE o = "anon"
  BY <1>1 DEF T!Cached, T!CacheFrame, T!ZeroFrame
<1>2. CASE o \in Files /\ v.cache[o][i] # 0
  BY <1>2 DEF T!Cached, T!CacheFrame, Shape, T!None, Files
<1>3. CASE o \in Files /\ v.cache[o][i] = 0
  <2> DEFINE k == Len(v.data) + 1
  <2>1. u = [v EXCEPT !.data = Append(@, T!Zero), !.cache[o][i] = k]
    BY <1>3 DEF T!Cached, T!None, Files
  <2>2. /\ DOMAIN u = DOMAIN v /\ u.data = Append(v.data, T!Zero) /\ u.cache = [v.cache EXCEPT ![o][i] = k]
        /\ u.map = v.map /\ u.pte = v.pte
    BY <2>1 DEF Shape
  <2>3. PICK S : v.data \in Seq(S)
    BY DEF Shape
  <2>4. k \in Int /\ u.data \in Seq(S \cup {T!Zero})
    BY <2>2, <2>3
  <2>5. \E R : u.data \in Seq(R)
    BY <2>4, Zenon
  <2>6. v.cache \in [Files -> [T!Pages -> Int]]
    BY DEF Shape
  <2> HIDE DEF k
  <2>7. u.cache = [v.cache EXCEPT ![o] = [v.cache[o] EXCEPT ![i] = k]]
    BY <2>2, <2>6
  <2>8. [v.cache[o] EXCEPT ![i] = k] \in [T!Pages -> Int]
    BY <1>3, <2>4, <2>6
  <2>9. u.cache \in [Files -> [T!Pages -> Int]]
    BY <1>3, <2>6, <2>7, <2>8
  <2>10. Shape(u)
    BY <2>2, <2>5, <2>9 DEF Shape, Maps
  <2>11. T!CacheFrame(u, o, i) \in Int
    BY <1>3, <2>9 DEF T!CacheFrame, Files
  <2> QED
    BY <2>10, <2>11
<1> QED
  BY <1>1, <1>2, <1>3 DEF T!None

\* A page that can be accessed belongs to a mapping.
LEMMA Mapped ==
  ASSUME NEW v, Shape(v), NEW p \in Processes, NEW m \in Pointers, NEW i \in T!Pages,
         T!Accessible(v, p, m, i)
  PROVE  v.map[p][m].obj \in Files \cup {"anon"}
<1>1. i \in Nat /\ i < v.map[p][m].n
  BY ProgramsAssumption DEF T!Pages, T!Accessible, T!Vma
<1> QED
  BY <1>1 DEF Shape, Maps

LEMMA ReadShape ==
  ASSUME NEW v, Shape(v), NEW p \in Processes, NEW m \in Pointers, NEW i \in T!Pages,
         v.map[p][m].obj \in Files \cup {"anon"}, NEW r, r = T!ReadFault(v, p, m, i)
  PROVE  Shape(r)
<1>1. PICK f, o : f = v.pte[p][m][i] /\ o = v.map[p][m].obj
  OBVIOUS
<1>2. f \in Int /\ o \in Files \cup {"anon"}
  BY <1>1 DEF Shape
<1>3. CASE f > 0
  <2>1. T!Pte(v, p, m, i) > 0 /\ ~(T!Pte(v, p, m, i) < 0)
    BY <1>1, <1>2, <1>3 DEF T!Pte
  <2>2. r = v
    BY <2>1 DEF T!ReadFault
  <2> QED
    BY <2>2
<1>4. CASE f < 0
  <2>1. r = [v EXCEPT !.pte[p][m][i] = -v.pte[p][m][i]]
    BY <1>1, <1>2, <1>4 DEF T!ReadFault, T!Pte
  <2>2. r = WithPte(v, p, m, i, -f) /\ -f \in Int
    BY <1>1, <1>2, <2>1 DEF WithPte
  <2> QED
    BY <2>2, SetPte
<1>5. CASE f = 0
  <2>1. PICK c : c = T!Cached(v, o, i)
    OBVIOUS
  <2>2. PICK k : k = T!CacheFrame(c, o, i)
    OBVIOUS
  <2>3. r = WithPte(c, p, m, i, k)
    <3>1. r = [T!Cached(v, v.map[p][m].obj, i) EXCEPT
                 !.pte[p][m][i] = T!CacheFrame(T!Cached(v, v.map[p][m].obj, i), v.map[p][m].obj, i)]
      BY <1>1, <1>5 DEF T!ReadFault, T!Pte, T!Vma
    <3> QED
      BY <1>1, <2>1, <2>2, <3>1, Zenon DEF WithPte
  <2>4. Shape(c) /\ k \in Int
    BY <1>2, <2>1, <2>2, CachedShape
  <2> QED
    BY <2>3, <2>4, SetPte
<1> QED
  BY <1>2, <1>3, <1>4, <1>5

WithByte(v, f, b, c) == [v EXCEPT !.data[f][b] = c]
WithDirty(v, d) == [v EXCEPT !.dirty = d]
WithCopy(v, p, m, i, f, k) ==
  [v EXCEPT !.data = Append(@, @[f]), !.anon = @ \cup {k}, !.pte[p][m][i] = k]

LEMMA SetByte ==
  ASSUME NEW v, Shape(v), NEW f, NEW b, NEW c, NEW u, u = WithByte(v, f, b, c)
  PROVE  Shape(u)
<1>1. PICK S : v.data \in Seq(S)
  BY DEF Shape
<1>2. /\ DOMAIN u = DOMAIN v /\ u.cache = v.cache /\ u.map = v.map /\ u.pte = v.pte
      /\ u.data = [v.data EXCEPT ![f][b] = c]
  BY DEF WithByte, Shape
<1>3. PICK x : x = [v.data[f] EXCEPT ![b] = c]
  OBVIOUS
<1>4. u.data = [v.data EXCEPT ![f] = x]
  BY <1>2, <1>3
<1>5. u.data \in Seq(S \cup {x})
  <2>1. /\ Len(v.data) \in Nat /\ DOMAIN v.data = 1 .. Len(v.data)
        /\ \A j \in 1 .. Len(v.data) : v.data[j] \in S
    BY <1>1
  <2>2. /\ DOMAIN u.data = 1 .. Len(v.data) /\ u.data = [j \in 1 .. Len(v.data) |-> u.data[j]]
        /\ \A j \in 1 .. Len(v.data) : u.data[j] = v.data[j] \/ u.data[j] = x
    BY <1>4, <2>1
  <2>3. u.data \in [1 .. Len(v.data) -> S \cup {x}]
    BY <2>1, <2>2
  <2> QED
    BY <2>1, <2>3
<1>6. \E R : u.data \in Seq(R)
  BY <1>5, Zenon
<1> QED
  BY <1>2, <1>6 DEF Shape, Maps

LEMMA SetDirty ==
  ASSUME NEW v, Shape(v), NEW d, NEW u, u = WithDirty(v, d)
  PROVE  Shape(u)
<1>1. /\ DOMAIN u = DOMAIN v /\ u.data = v.data /\ u.cache = v.cache /\ u.map = v.map /\ u.pte = v.pte
  BY DEF WithDirty, Shape
<1> QED
  BY <1>1 DEF Shape, Maps

LEMMA SetCopy ==
  ASSUME NEW v, Shape(v), NEW p \in Processes, NEW m \in Pointers, NEW i \in T!Pages, NEW f,
         NEW k, k = Len(v.data) + 1, NEW u, u = WithCopy(v, p, m, i, f, k)
  PROVE  Shape(u)
<1>1. PICK S : v.data \in Seq(S)
  BY DEF Shape
<1>2. k \in Int
  BY <1>1
<1>0. PICK x : x = v.data[f]
  OBVIOUS
<1>3. /\ DOMAIN u = DOMAIN v /\ u.data = Append(v.data, x)
      /\ u.cache = v.cache /\ u.map = v.map /\ u.pte = [v.pte EXCEPT ![p][m][i] = k]
  BY <1>0 DEF WithCopy, Shape
<1>4. u.data \in Seq(S \cup {x})
  <2>1. v.data \in Seq(S \cup {x}) /\ x \in S \cup {x}
    BY <1>1
  <2> QED
    BY <1>3, <2>1
<1>5. \E R : u.data \in Seq(R)
  BY <1>4, Zenon
<1>6. PICK z : z = WithPte(v, p, m, i, k)
  OBVIOUS
<1>7. Shape(z)
  BY <1>2, <1>6, SetPte
<1>8. z.pte = u.pte
  BY <1>3, <1>6 DEF WithPte, Shape
<1>9. u.pte \in [Processes -> [Pointers -> [T!Pages -> Int]]]
  BY <1>7, <1>8 DEF Shape
<1>10. Maps(u)
  BY <1>3 DEF Shape, Maps
<1> QED
  BY <1>3, <1>5, <1>9, <1>10 DEF Shape

LEMMA StoreShape ==
  ASSUME NEW v, Shape(v), NEW p \in Processes, NEW m \in Pointers, NEW i \in T!Pages,
         v.map[p][m].obj \in Files \cup {"anon"}, NEW b, NEW c, NEW u, u = T!Store(v, p, m, i, b, c)
  PROVE  Shape(u)
<1>1. PICK r : r = T!ReadFault(v, p, m, i)
  OBVIOUS
<1>2. Shape(r)
  BY <1>1, ReadShape
<1>3. PICK f, k, d : f = r.pte[p][m][i] /\ k = Len(r.data) + 1 /\ d = r.dirty \cup {f}
  OBVIOUS
<1>4. PICK t : t = T!WriteFault(v, p, m, i)
  OBVIOUS
<1>5. t = r \/ t = WithDirty(r, d) \/ t = WithCopy(r, p, m, i, f, k)
  <2>1. CASE v.map[p][m].shared
    BY <1>1, <1>3, <1>4, <2>1 DEF T!WriteFault, WithDirty, T!Pte, T!Vma
  <2>2. CASE ~v.map[p][m].shared /\ f \in r.anon /\ T!Sharers(r, f) = {<<p, m, i>>}
    BY <1>1, <1>3, <1>4, <2>2 DEF T!WriteFault, T!Pte, T!Vma
  <2>3. CASE ~v.map[p][m].shared /\ ~(f \in r.anon /\ T!Sharers(r, f) = {<<p, m, i>>})
    BY <1>1, <1>3, <1>4, <2>3 DEF T!WriteFault, WithCopy, T!Pte, T!Vma
  <2> QED
    BY <2>1, <2>2, <2>3
<1>6. Shape(t)
  BY <1>2, <1>3, <1>5, SetDirty, SetCopy
<1>7. PICK g : g = t.pte[p][m][i]
  OBVIOUS
<1>8. u = WithByte(t, g, b, c)
  BY <1>4, <1>7 DEF T!Store, WithByte, T!Pte
<1> QED
  BY <1>6, <1>8, SetByte

\* A mapping and its page table are replaced.
WithMapping(v, p, m, a) == [v EXCEPT !.map[p][m] = a, !.pte[p][m] = T!NoPages]

LEMMA SetMapping ==
  ASSUME NEW v, Shape(v), NEW p \in Processes, NEW m \in Pointers,
         NEW a, a.obj \in Files \cup {"anon"} \/ a.n = 0, NEW u, u = WithMapping(v, p, m, a)
  PROVE  Shape(u)
<1>1. /\ DOMAIN u = DOMAIN v /\ u.data = v.data /\ u.cache = v.cache
      /\ u.map = [v.map EXCEPT ![p] = [v.map[p] EXCEPT ![m] = a]]
      /\ u.pte = [v.pte EXCEPT ![p][m] = T!NoPages]
  BY DEF WithMapping, Shape
<1>2. /\ DOMAIN u.map = Processes /\ \A q \in Processes : DOMAIN u.map[q] = Pointers
      /\ u.map[p][m] = a
      /\ \A q \in Processes, k \in Pointers : (q # p \/ k # m) => u.map[q][k] = v.map[q][k]
  BY <1>1 DEF Shape
<1>3. Maps(u)
  <2> SUFFICES ASSUME NEW q \in Processes, NEW k \in Pointers
      PROVE u.map[q][k].obj \in Files \cup {"anon"} \/ u.map[q][k].n = 0
    BY DEF Maps
  <2>1. u.map[q][k] = a \/ u.map[q][k] = v.map[q][k]
    BY <1>2
  <2>2. v.map[q][k].obj \in Files \cup {"anon"} \/ v.map[q][k].n = 0
    BY DEF Shape, Maps
  <2> QED
    BY <2>1, <2>2
<1>4. v.pte \in [Processes -> [Pointers -> [T!Pages -> Int]]] /\ T!NoPages \in [T!Pages -> Int]
  BY DEF Shape, T!NoPages, T!None
<1>5. u.pte \in [Processes -> [Pointers -> [T!Pages -> Int]]]
  BY <1>1, <1>4
<1> QED
  BY <1>1, <1>2, <1>3, <1>5 DEF Shape

LEMMA DontneedShape ==
  ASSUME NEW v, Shape(v), NEW p \in Processes, NEW m \in Pointers, NEW u, u = T!Dontneed(v, p, m)
  PROVE  Shape(u)
<1>1. /\ DOMAIN u = DOMAIN v /\ u.data = v.data /\ u.cache = v.cache /\ u.map = v.map
      /\ u.pte = [v.pte EXCEPT ![p][m] = T!NoPages]
  BY DEF T!Dontneed, Shape
<1>2. v.pte \in [Processes -> [Pointers -> [T!Pages -> Int]]] /\ T!NoPages \in [T!Pages -> Int]
  BY DEF Shape, T!NoPages, T!None
<1>3. u.pte \in [Processes -> [Pointers -> [T!Pages -> Int]]]
  BY <1>1, <1>2
<1> QED
  BY <1>1, <1>3 DEF Shape, Maps

\* The mappings and page tables of a process are replaced.
WithProcess(v, q, maps, t) == [v EXCEPT !.map[q] = maps, !.pte[q] = t]

LEMMA SetProcess ==
  ASSUME NEW v, Shape(v), NEW q \in Processes, NEW maps, DOMAIN maps = Pointers,
         \A m \in Pointers : maps[m].obj \in Files \cup {"anon"} \/ maps[m].n = 0,
         NEW t \in [Pointers -> [T!Pages -> Int]], NEW u, u = WithProcess(v, q, maps, t)
  PROVE  Shape(u)
<1>1. /\ DOMAIN u = DOMAIN v /\ u.data = v.data /\ u.cache = v.cache
      /\ u.map = [v.map EXCEPT ![q] = maps] /\ u.pte = [v.pte EXCEPT ![q] = t]
  BY DEF Shape, WithProcess
<1>2. u.pte \in [Processes -> [Pointers -> [T!Pages -> Int]]]
  BY <1>1 DEF Shape
<1>3. DOMAIN u.map = Processes /\ u.map[q] = maps /\ \A p \in Processes : p # q => u.map[p] = v.map[p]
  BY <1>1 DEF Shape
<1>4. Maps(u)
  <2> SUFFICES ASSUME NEW p \in Processes, NEW k \in Pointers
      PROVE u.map[p][k].obj \in Files \cup {"anon"} \/ u.map[p][k].n = 0
    BY DEF Maps
  <2>1. u.map[p][k] = maps[k] \/ u.map[p][k] = v.map[p][k]
    BY <1>3
  <2>2. v.map[p][k].obj \in Files \cup {"anon"} \/ v.map[p][k].n = 0
    BY DEF Shape, Maps
  <2> QED
    BY <2>1, <2>2
<1> QED
  BY <1>1, <1>2, <1>3, <1>4 DEF Shape

LEMMA ForkShape ==
  ASSUME NEW v, Shape(v), NEW p \in Processes, NEW q \in Processes, NEW u, u = T!Forked(v, p, q)
  PROVE  Shape(u)
<1> DEFINE copies(m) == \E i \in T!Pages : {T!Pte(v, p, m, i), -T!Pte(v, p, m, i)} \cap v.anon # {}
           t == [m \in Pointers |-> IF copies(m) THEN v.pte[p][m] ELSE T!NoPages]
<1>1. t \in [Pointers -> [T!Pages -> Int]]
  BY DEF Shape, T!NoPages, T!None
<1>2. u = WithProcess(v, q, v.map[p], t)
  BY DEF T!Forked, WithProcess
<1> HIDE DEF t
<1>3. /\ DOMAIN v.map[p] = Pointers
      /\ \A m \in Pointers : v.map[p][m].obj \in Files \cup {"anon"} \/ v.map[p][m].n = 0
  BY DEF Shape, Maps
<1>4. PICK maps : maps = v.map[p]
  OBVIOUS
<1> QED
  BY <1>1, <1>2, <1>3, <1>4, SetProcess

LEMMA ExitShape ==
  ASSUME NEW v, Shape(v), NEW p \in Processes, NEW u, u = T!Exited(v, p)
  PROVE  Shape(u)
<1>1. PICK maps, t : maps = [m \in Pointers |-> T!NoMapping] /\ t = [m \in Pointers |-> [i \in T!Pages |-> 0]]
  OBVIOUS
<1>2. T!Fresh.map[p] = maps /\ T!Fresh.pte[p] = t
  BY <1>1 DEF T!Fresh, T!None
<1>3. u = WithProcess(v, p, maps, t)
  BY <1>2 DEF T!Exited, WithProcess
<1>4. t \in [Pointers -> [T!Pages -> Int]] /\ DOMAIN maps = Pointers
      /\ \A m \in Pointers : maps[m].n = 0
  BY <1>1 DEF T!NoMapping
<1> QED
  BY <1>3, <1>4, SetProcess

LEMMA TruncateShape ==
  ASSUME NEW v, Shape(v), NEW o \in Files, NEW n, NEW u, u = T!Truncate(v, o, n)
  PROVE  Shape(u)
<1> DEFINE pages == [i \in T!Pages |-> IF i >= n THEN 0 ELSE v.cache[o][i]]
           t == [p \in Processes |-> [m \in Pointers |-> [i \in T!Pages |->
                  IF i >= n /\ v.map[p][m].obj = o THEN 0 ELSE v.pte[p][m][i]]]]
<1>1. /\ v.cache \in [Files -> [T!Pages -> Int]]
      /\ v.pte \in [Processes -> [Pointers -> [T!Pages -> Int]]]
  BY DEF Shape
<1>2. u = [v EXCEPT !.len[o] = n, !.cache[o] = pages, !.pte = t]
  BY DEF T!Truncate, T!Vma, T!None
<1>3. pages \in [T!Pages -> Int]
  BY <1>1
<1>4. t \in [Processes -> [Pointers -> [T!Pages -> Int]]]
  BY <1>1
<1> HIDE DEF pages, t
<1>5. /\ DOMAIN u = DOMAIN v /\ u.data = v.data /\ u.map = v.map
      /\ u.cache = [v.cache EXCEPT ![o] = pages] /\ u.pte = t
  BY <1>2 DEF Shape
<1>6. u.cache \in [Files -> [T!Pages -> Int]]
  BY <1>1, <1>3, <1>5
<1> QED
  BY <1>4, <1>5, <1>6 DEF Shape, Maps

LEMMA PwriteShape ==
  ASSUME NEW v, Shape(v), NEW o \in Files, NEW c, NEW n \in Nat, NEW u, u = T!Pwrite(v, o, c, n)
  PROVE  Shape(u)
<1> DEFINE L == Len(v.data)
           frame == [i \in 0 .. n - 1 |-> IF v.cache[o][i] = 0 THEN L + i + 1 ELSE v.cache[o][i]]
           written == {frame[i] : i \in 0 .. n - 1}
           x(f) == IF f \in written \/ f > L THEN T!PageOf(c) ELSE v.data[f]
           d == [f \in 1 .. L + n |-> x(f)]
           pages == [i \in T!Pages |-> IF i < n THEN frame[i] ELSE v.cache[o][i]]
<1>1. v.cache \in [Files -> [T!Pages -> Int]]
  BY DEF Shape
<1>2. L \in Nat
  <2>1. PICK S : v.data \in Seq(S)
    BY DEF Shape
  <2> QED
    BY <2>1
<1>3. u = [v EXCEPT !.data = d, !.cache[o] = pages, !.dirty = @ \cup written]
  BY DEF T!Pwrite, T!None
<1>4. \A i \in T!Pages : i \in Nat
  BY ProgramsAssumption DEF T!Pages
<1>5. pages \in [T!Pages -> Int]
  <2> SUFFICES ASSUME NEW i \in T!Pages PROVE pages[i] \in Int
    OBVIOUS
  <2>1. CASE i < n
    <3>1. i \in 0 .. n - 1 /\ v.cache[o][i] \in Int
      BY <1>1, <1>4, <2>1
    <3>2. frame[i] = IF v.cache[o][i] = 0 THEN L + i + 1 ELSE v.cache[o][i]
      BY <3>1
    <3>3. frame[i] \in Int
      BY <1>2, <3>1, <3>2
    <3> QED
      BY <2>1, <3>3
  <2>2. CASE ~(i < n)
    BY <1>1, <2>2
  <2> QED
    BY <2>1, <2>2
<1> HIDE DEF frame, written, pages
<1>6. \E S : d \in Seq(S)
  <2>1. PICK X : X = {x(f) : f \in 1 .. L + n}
    OBVIOUS
  <2>2. \A f \in 1 .. L + n : x(f) \in X
    BY <2>1
  <2> HIDE DEF x
  <2>3. d \in [1 .. L + n -> X] /\ L + n \in Nat
    BY <1>2, <2>2
  <2>4. d \in Seq(X)
    <3> HIDE DEF d
    <3> QED
      BY <2>3
  <2> QED
    BY <2>4, Zenon
<1> HIDE DEF d
<1>7. /\ DOMAIN u = DOMAIN v /\ u.data = d /\ u.map = v.map /\ u.pte = v.pte
      /\ u.cache = [v.cache EXCEPT ![o] = pages]
  BY <1>3 DEF Shape
<1>8. u.cache \in [Files -> [T!Pages -> Int]]
  BY <1>1, <1>5, <1>7
<1> QED
  BY <1>6, <1>7, <1>8 DEF Shape, Maps

-----------------------------------------------------------------------------
(* The page experiments *)

TourInv ==
  /\ prog \in DOMAIN T!programs
  /\ pc \in [Processes -> Nat \ {0}]
  /\ Shape(tw)

LEMMA TourInit == T!Init => TourInv
BY FreshShape DEF T!Init, TourInv

\* The step a process is to do is one of its program.
LEMMA StepFormed ==
  ASSUME TourInv, NEW p \in Processes, pc[p] <= Len(T!programs[prog][p])
  PROVE  WellFormed(T!Step(p))
<1>1. pc[p] \in Nat \ {0} /\ prog \in DOMAIN T!programs
  BY DEF TourInv
<1>2. PICK k : k = pc[p]
  OBVIOUS
<1>3. PICK s : s = T!programs[prog][p]
  OBVIOUS
<1>4. Len(s) \in Nat
  BY <1>1, <1>3, ProgramsAssumption
<1>5. k \in 1 .. Len(s)
  BY <1>1, <1>2, <1>3, <1>4
<1> QED
  BY <1>1, <1>2, <1>3, <1>5, ProgramsAssumption DEF T!Step, T!Script

LEMMA ReadyFormed ==
  ASSUME TourInv, NEW p \in Processes, NEW name, T!Ready(p, name)
  PROVE  /\ WellFormed(T!Step(p)) /\ T!Step(p).op = name
<1>1. pc[p] <= Len(T!programs[prog][p]) /\ T!Step(p).op = name
  BY DEF T!Ready, T!Script
<1> QED
  BY <1>1, StepFormed

\* A process goes on, and the pages keep their shape.
LEMMA DoneInv ==
  ASSUME TourInv, NEW p \in Processes, T!Done(p), Shape(tw')
  PROVE  TourInv'
<1>1. prog' = prog /\ pc' = [pc EXCEPT ![p] = @ + 1]
  BY DEF T!Done
<1>2. pc' \in [Processes -> Nat \ {0}]
  BY <1>1 DEF TourInv
<1> QED
  BY <1>1, <1>2 DEF TourInv

LEMMA EndInv ==
  ASSUME TourInv, NEW p \in Processes, NEW how, T!End(p, how)
  PROVE  TourInv'
<1>1. tw' = T!Exited(tw, p) /\ prog' = prog /\ pc' = pc
  BY DEF T!End
<1>2. Shape(tw')
  BY <1>1, ExitShape DEF TourInv
<1> QED
  BY <1>1, <1>2 DEF TourInv

LEMMA QuietInv ==
  ASSUME TourInv, NEW p \in Processes, T!Done(p), UNCHANGED tw
  PROVE  TourInv'
BY DoneInv DEF TourInv

\* What WellFormed says of a step, in the words of the lemmas.
LEMMA StepParts ==
  ASSUME NEW s, WellFormed(s)
  PROVE  /\ s.m \in Pointers /\ s.q \in Processes /\ s.i \in T!Pages /\ s.n \in Nat
         /\ s.o \in Files \cup {"anon"}
         /\ s.op \in {"ftruncate", "pwrite"} => s.o \in Files
BY ProgramsAssumption DEF WellFormed, T!Pages

LEMMA MmapInv == ASSUME TourInv, NEW p \in Processes, T!do_mmap(p) PROVE TourInv'
<1>1. CASE T!End(p, IF T!Step(p).late THEN "killed" ELSE "failed")
  BY <1>1, EndInv
<1>2. CASE /\ tw' = T!Mmap(tw, p, T!Step(p).m, T!Step(p).o, T!Step(p).shared, T!Step(p).n)
           /\ T!Next_(p)
  <2>1. PICK s : s = T!Step(p)
    OBVIOUS
  <2>2. s.m \in Pointers /\ s.o \in Files \cup {"anon"}
    BY <2>1, ReadyFormed, StepParts DEF T!do_mmap
  <2>3. PICK a : a = [obj |-> s.o, shared |-> s.shared, n |-> s.n]
    OBVIOUS
  <2>4. tw' = WithMapping(tw, p, s.m, a) /\ a.obj = s.o
    BY <1>2, <2>1, <2>3 DEF T!Mmap, WithMapping
  <2>5. Shape(tw')
    BY <2>2, <2>4, SetMapping DEF TourInv
  <2> QED
    BY <1>2, <2>5, DoneInv DEF T!Next_
<1> QED
  BY <1>1, <1>2 DEF T!do_mmap

LEMMA MunmapInv == ASSUME TourInv, NEW p \in Processes, T!do_munmap(p) PROVE TourInv'
<1>1. PICK m, a : m = T!Step(p).m /\ a = T!NoMapping
  OBVIOUS
<1>2. m \in Pointers
  BY <1>1, ReadyFormed, StepParts DEF T!do_munmap
<1>3. tw' = WithMapping(tw, p, m, a) /\ T!Done(p)
  BY <1>1 DEF T!do_munmap, T!Next_, T!Munmap, WithMapping
<1>4. a.n = 0
  BY <1>1 DEF T!NoMapping
<1>5. Shape(tw')
  BY <1>2, <1>3, <1>4, SetMapping DEF TourInv
<1> QED
  BY <1>3, <1>5, DoneInv

LEMMA DontneedInv == ASSUME TourInv, NEW p \in Processes, T!do_dontneed(p) PROVE TourInv'
<1>1. PICK m : m = T!Step(p).m
  OBVIOUS
<1>2. m \in Pointers
  BY <1>1, ReadyFormed, StepParts DEF T!do_dontneed
<1>3. tw' = T!Dontneed(tw, p, m) /\ T!Done(p)
  BY <1>1 DEF T!do_dontneed, T!Next_
<1>4. Shape(tw')
  BY <1>2, <1>3, DontneedShape DEF TourInv
<1> QED
  BY <1>3, <1>4, DoneInv

LEMMA ReadInv == ASSUME TourInv, NEW p \in Processes, T!do_read(p) PROVE TourInv'
<1>1. PICK m, i : m = T!Step(p).m /\ i = T!Step(p).i
  OBVIOUS
<1>2. m \in Pointers /\ i \in T!Pages
  BY <1>1, ReadyFormed, StepParts DEF T!do_read
<1>3. tw' = T!ReadFault(tw, p, m, i) /\ T!Done(p) /\ T!Accessible(tw, p, m, i)
  BY <1>1 DEF T!do_read, T!Next_
<1>4. Shape(tw')
  BY <1>2, <1>3, Mapped, ReadShape DEF TourInv
<1> QED
  BY <1>3, <1>4, DoneInv

LEMMA WriteInv == ASSUME TourInv, NEW p \in Processes, T!do_write(p) PROVE TourInv'
<1>1. PICK m, i, b, c : m = T!Step(p).m /\ i = T!Step(p).i /\ b = T!Step(p).b /\ c = T!Step(p).c
  OBVIOUS
<1>2. m \in Pointers /\ i \in T!Pages
  BY <1>1, ReadyFormed, StepParts DEF T!do_write
<1>3. tw' = T!Store(tw, p, m, i, b, c) /\ T!Done(p) /\ T!Accessible(tw, p, m, i)
  BY <1>1 DEF T!do_write, T!Next_
<1>4. Shape(tw')
  BY <1>2, <1>3, Mapped, StoreShape DEF TourInv
<1> QED
  BY <1>3, <1>4, DoneInv

LEMMA FtruncateInv == ASSUME TourInv, NEW p \in Processes, T!do_ftruncate(p) PROVE TourInv'
<1>1. PICK o, n : o = T!Step(p).o /\ n = T!Step(p).n
  OBVIOUS
<1>2. o \in Files
  BY <1>1, ReadyFormed, StepParts DEF T!do_ftruncate
<1>3. tw' = T!Truncate(tw, o, n) /\ T!Done(p)
  BY <1>1 DEF T!do_ftruncate, T!Next_
<1>4. Shape(tw')
  BY <1>2, <1>3, TruncateShape DEF TourInv
<1> QED
  BY <1>3, <1>4, DoneInv

LEMMA PwriteInv == ASSUME TourInv, NEW p \in Processes, T!do_pwrite(p) PROVE TourInv'
<1>1. PICK o, c, n : o = T!Step(p).o /\ c = T!Step(p).c /\ n = T!Step(p).n
  OBVIOUS
<1>2. o \in Files /\ n \in Nat
  BY <1>1, ReadyFormed, StepParts DEF T!do_pwrite
<1>3. tw' = T!Pwrite(tw, o, c, n) /\ T!Done(p)
  BY <1>1 DEF T!do_pwrite, T!Next_
<1>4. Shape(tw')
  BY <1>2, <1>3, PwriteShape DEF TourInv
<1> QED
  BY <1>3, <1>4, DoneInv

LEMMA ForkInv == ASSUME TourInv, NEW p \in Processes, T!do_fork(p) PROVE TourInv'
<1>1. CASE prog # "read" /\ T!End(p, "failed")
  BY <1>1, EndInv
<1>2. CASE prog = "read" /\ T!Next_(p) /\ UNCHANGED tw
  BY <1>2, QuietInv DEF T!Next_
<1>3. CASE tw' = T!Forked(tw, p, T!Step(p).q) /\ T!Done(p)
  <2>1. PICK q : q = T!Step(p).q
    OBVIOUS
  <2>2. q \in Processes
    BY <2>1, ReadyFormed, StepParts DEF T!do_fork
  <2>3. Shape(tw')
    BY <1>3, <2>1, <2>2, ForkShape DEF TourInv
  <2> QED
    BY <1>3, <2>3, DoneInv
<1> QED
  BY <1>1, <1>2, <1>3 DEF T!do_fork

LEMMA TourStep == TourInv /\ [T!Next]_tvars => TourInv'
<1> SUFFICES ASSUME TourInv, [T!Next]_tvars PROVE TourInv'
  OBVIOUS
<1>1. CASE UNCHANGED tvars
  BY <1>1 DEF tvars, TourInv
<1>2. ASSUME NEW p \in Processes,
             \/ T!do_open(p) \/ T!do_wait(p) \/ T!do_root(p) \/ T!check_hugetlb(p) \/ T!lookup_vma_flags(p)
             \/ T!describe_addr(p) \/ T!do_see(p) \/ T!do_print_buf(p) \/ T!do_exit(p)
      PROVE  TourInv'
  <2>1. \/ T!Done(p) /\ UNCHANGED tw
        \/ \E how \in {"failed", "exited", "killed"} : T!End(p, how)
    BY <1>2 DEF T!do_open, T!do_wait, T!do_root, T!check_hugetlb, T!lookup_vma_flags, T!describe_addr,
                T!do_see, T!do_print_buf, T!do_exit, T!Next_
  <2> QED
    BY <2>1, QuietInv, EndInv
<1>3. ASSUME NEW p \in Processes, T!do_print(p) PROVE TourInv'
  <2>1. (T!Done(p) /\ UNCHANGED tw) \/ \E how \in {"failed", "killed"} : T!End(p, how)
    BY <1>3 DEF T!do_print
  <2> QED
    BY <2>1, QuietInv, EndInv
<1> QED
  BY <1>1, <1>2, <1>3, MmapInv, MunmapInv, DontneedInv, ReadInv, WriteInv, FtruncateInv, PwriteInv, ForkInv
     DEF T!Next

-----------------------------------------------------------------------------
(* What is printed of a page *)

\* The words of pagemap and kpageflags are read as they are.
LEMMA WordsValid ==
  ASSUME NEW v, NEW p, NEW m, NEW i, T!Pte(v, p, m, i) \in Int, NEW r \in BOOLEAN, NEW f
  PROVE  /\ T!Pagemap(v, p, m, i, r) # INVALID_VALUE
         /\ T!Kpageflags(v, f) # INVALID_VALUE
<1>1. T!Pagemap(v, p, m, i, r) \in
        [present : BOOLEAN, swapped : BOOLEAN, file : BOOLEAN, exclusive : BOOLEAN, pfn : Int]
  BY DEF T!Pagemap
<1>2. T!Kpageflags(v, f) \in SUBSET {"ZERO_PAGE", "LRU", "ANON", "SWAPBACKED", "DIRTY", "MMAP", "MAPPEDTODISK"}
  BY DEF T!Kpageflags
<1> QED
  BY <1>1, <1>2, InvalidAssumption

LEMMA ExclusiveIs ==
  ASSUME NEW v, NEW f
  PROVE  "ANON_EXCLUSIVE" \in T!print_kpageflags(T!Kpageflags(v, f))
           <=> f \in v.anon /\ T!Mapcount(v, f) = 1
<1>1. "ANON_EXCLUSIVE" \notin T!Kpageflags(v, f)
  BY DEF T!Kpageflags
<1>2. "ANON" \in T!Kpageflags(v, f) <=> f \in v.anon
  BY DEF T!Kpageflags
<1>3. "MAPPEDTODISK" \in T!Kpageflags(v, f) <=> (f \in v.anon => T!Mapcount(v, f) = 1)
  BY DEF T!Kpageflags
<1> QED
  BY <1>1, <1>2, <1>3 DEF T!print_kpageflags

\* The line for each combination of what could be read.
LineFor(l, val, pfn, flags, n) ==
  /\ val = INVALID_VALUE /\ pfn = INVALID_VALUE => l.says = "invalid pagemap"
  /\ val # INVALID_VALUE /\ pfn = INVALID_VALUE => l.says = "not present"
  /\ val # INVALID_VALUE /\ pfn = 0 => l.says = "cannot retrieve PFN"
  /\ val # INVALID_VALUE /\ pfn \notin {INVALID_VALUE, 0} /\ flags = INVALID_VALUE =>
       l.says = "cannot retrieve kpageflags"
  /\ val # INVALID_VALUE /\ pfn \notin {INVALID_VALUE, 0} /\ flags # INVALID_VALUE =>
       l.says = "page" /\ l.pfn = pfn /\ l.mapcount = n /\ l.flags = T!print_kpageflags(flags)

LEMMA LineIs ==
  ASSUME NEW val, NEW pfn, NEW flags, NEW n, NEW perms,
         NEW l, l = T!print_flags_virt_precalc(val, pfn, flags, n, perms)
  PROVE  LineFor(l, val, pfn, flags, n)
<1>0. INVALID_VALUE # 0
  BY InvalidAssumption
<1>1. CASE val = INVALID_VALUE /\ pfn = INVALID_VALUE
  BY <1>0, <1>1 DEF T!print_flags_virt_precalc, T!Line, LineFor
<1>2. CASE val # INVALID_VALUE /\ pfn = INVALID_VALUE
  BY <1>0, <1>2 DEF T!print_flags_virt_precalc, T!Line, LineFor
<1>3. CASE val # INVALID_VALUE /\ pfn = 0
  BY <1>0, <1>3 DEF T!print_flags_virt_precalc, T!Line, LineFor
<1>4. CASE val # INVALID_VALUE /\ pfn \notin {INVALID_VALUE, 0} /\ flags = INVALID_VALUE
  BY <1>0, <1>4 DEF T!print_flags_virt_precalc, T!Line, LineFor
<1>5. CASE val # INVALID_VALUE /\ pfn \notin {INVALID_VALUE, 0} /\ flags # INVALID_VALUE
  BY <1>0, <1>5 DEF T!print_flags_virt_precalc, T!Line, LineFor
<1>6. CASE val = INVALID_VALUE /\ pfn # INVALID_VALUE
  BY <1>6 DEF LineFor
<1> QED
  BY <1>1, <1>2, <1>3, <1>4, <1>5, <1>6

\* A line is of a page without a frame (absent), of one with frame f that n page
\* tables map and that one process owns alone (own), or of neither.
Told(l, absent, full, f, n, own) ==
  /\ l.says = "not present" <=> absent
  /\ l.says = "page" <=> full
  /\ full => l.pfn = f /\ l.mapcount = n /\ ("ANON_EXCLUSIVE" \in l.flags <=> own)

\* print_flags_virt() tells a page's state from what it could read of it.
LEMMA PrintsRight ==
  ASSUME NEW v, NEW p, NEW m, NEW i, NEW f \in Int, f = T!Pte(v, p, m, i), NEW r \in BOOLEAN, NEW fails,
         NEW l, l = T!print_flags_virt(v, p, m, i, r, fails)
  PROVE  Told(l, f <= 0 /\ "pagemap" \notin fails,
              f > 0 /\ r /\ "pagemap" \notin fails /\ "kpageflags" \notin fails,
              f, IF "kpagecount" \in fails THEN INVALID_VALUE ELSE T!Mapcount(v, f),
              f \in v.anon /\ T!Mapcount(v, f) = 1)
<1>1. PICK val : val = T!read_u64(fails, "pagemap", T!Pagemap(v, p, m, i, r))
  OBVIOUS
<1>2. PICK pfn : pfn = T!extract_pfn(val)
  OBVIOUS
<1>3. PICK flags : flags = IF pfn \in {INVALID_VALUE, 0} THEN INVALID_VALUE
                           ELSE T!read_u64(fails, "kpageflags", T!Kpageflags(v, pfn))
  OBVIOUS
<1>4. PICK n : n = IF flags = INVALID_VALUE THEN INVALID_VALUE
                   ELSE T!read_u64(fails, "kpagecount", T!Mapcount(v, pfn))
  OBVIOUS
<1>5. LineFor(l, val, pfn, flags, n)
  <2>1. PICK perms : l = T!print_flags_virt_precalc(val, pfn, flags, n, perms)
    BY <1>1, <1>2, <1>3, <1>4 DEF T!print_flags_virt
  <2> QED
    BY <2>1, LineIs
<1>6. T!Pagemap(v, p, m, i, r) # INVALID_VALUE /\ T!Kpageflags(v, f) # INVALID_VALUE
  BY WordsValid
<1>7. CASE "pagemap" \in fails
  <2>1. val = INVALID_VALUE /\ pfn = INVALID_VALUE
    BY <1>1, <1>2, <1>7 DEF T!read_u64, T!extract_pfn
  <2>2. l.says = "invalid pagemap"
    BY <1>5, <2>1, Zenon DEF LineFor
  <2> QED
    BY <1>7, <2>2 DEF Told
<1>8. CASE "pagemap" \notin fails
  <2>1. val = T!Pagemap(v, p, m, i, r) /\ val # INVALID_VALUE
    BY <1>1, <1>6, <1>8 DEF T!read_u64
  <2>2. /\ val.present <=> f > 0
        /\ val.swapped <=> f < 0
        /\ r /\ f > 0 => val.pfn = f
        /\ ~r => val.pfn = 0
    BY <2>1 DEF T!Pagemap
  <2>3. CASE f <= 0
    <3>1. pfn = INVALID_VALUE
      BY <1>2, <2>2, <2>3 DEF T!extract_pfn
    <3>2. l.says = "not present"
      BY <1>5, <2>1, <3>1, Zenon DEF LineFor
    <3>3. ~(f > 0)
      BY <2>3
    <3> QED
      BY <1>8, <2>3, <3>2, <3>3 DEF Told
  <2>4. CASE f > 0
    <3>0. ~(f <= 0) /\ ~(f < 0) /\ f # 0
      BY <2>4
    <3>1. pfn = val.pfn
      BY <1>2, <2>1, <2>2, <2>4, <3>0, Zenon DEF T!extract_pfn
    <3>2. CASE ~r
      <4>1. l.says = "cannot retrieve PFN"
        BY <1>5, <2>1, <2>2, <3>1, <3>2, Zenon DEF LineFor
      <4> QED
        BY <3>0, <3>2, <4>1 DEF Told
    <3>3. CASE r
      <4>1. pfn = f
        BY <2>2, <2>4, <3>1, <3>3, Zenon
      <4>2. pfn \notin {INVALID_VALUE, 0}
        BY <3>0, <4>1, InvalidAssumption
      <4>3. CASE "kpageflags" \in fails
        <5>1. flags = INVALID_VALUE
          BY <1>3, <4>3 DEF T!read_u64
        <5>2. l.says = "cannot retrieve kpageflags"
          BY <1>5, <2>1, <4>2, <5>1, Zenon DEF LineFor
        <5> QED
          BY <3>0, <4>3, <5>2 DEF Told
      <4>4. CASE "kpageflags" \notin fails
        <5>1. flags = T!Kpageflags(v, f)
          BY <1>3, <4>1, <4>2, <4>4 DEF T!read_u64
        <5>2. flags # INVALID_VALUE
          BY <1>6, <5>1
        <5>3. n = IF "kpagecount" \in fails THEN INVALID_VALUE ELSE T!Mapcount(v, f)
          BY <1>4, <4>1, <5>2 DEF T!read_u64
        <5>4. l.says = "page" /\ l.pfn = pfn /\ l.mapcount = n /\ l.flags = T!print_kpageflags(flags)
          BY <1>5, <2>1, <4>2, <5>2, Zenon DEF LineFor
        <5>5. "ANON_EXCLUSIVE" \in l.flags <=> f \in v.anon /\ T!Mapcount(v, f) = 1
          BY <5>1, <5>4, ExclusiveIs
        <5>6. l.says # "not present"
          BY <5>4
        <5> QED
          BY <1>8, <2>4, <3>0, <3>3, <4>1, <4>4, <5>3, <5>4, <5>5, <5>6, Zenon DEF Told
      <4> QED
        BY <4>3, <4>4
    <3> QED
      BY <3>2, <3>3
  <2> QED
    BY <2>3, <2>4
<1> QED
  BY <1>7, <1>8

\* A line on the screen is of the page as it still is.
PrintInv ==
  /\ root \in BOOLEAN
  /\ line # T!NoLine =>
       /\ last.p \in Processes /\ last.step.m \in Pointers /\ last.step.i \in T!Pages
       /\ line = T!print_flags_virt(tw, last.p, last.step.m, last.step.i, root, last.fails)

LEMMA PrintStep == TourInv /\ PrintInv /\ [T!Next]_tvars => PrintInv'
<1> SUFFICES ASSUME TourInv, PrintInv, [T!Next]_tvars PROVE PrintInv'
  OBVIOUS
<1>1. CASE UNCHANGED tvars
  <2>1. tw' = tw /\ last' = last /\ line' = line /\ root' = root
    BY <1>1 DEF tvars
  <2> QED
    BY <2>1 DEF PrintInv
<1>2. ASSUME NEW p \in Processes, T!do_print(p) PROVE PrintInv'
  <2>1. CASE T!End(p, "failed") \/ T!End(p, "killed")
    BY <2>1 DEF T!End, PrintInv
  <2>2. CASE ~(T!End(p, "failed") \/ T!End(p, "killed"))
    <3>1. PICK s : s = T!Step(p)
      OBVIOUS
    <3>2. s.m \in Pointers /\ s.i \in T!Pages
      BY <1>2, <3>1, ReadyFormed, StepParts DEF T!do_print
    <3>3. PICK fails : /\ last' = [p |-> p, step |-> s, fails |-> fails]
                       /\ line' = T!print_flags_virt(tw, p, s.m, s.i, root, fails)
                       /\ tw' = tw /\ root' = root
      BY <1>2, <2>2, <3>1 DEF T!do_print, T!Said, T!Done
    <3>4. last'.p = p /\ last'.step = s /\ last'.fails = fails
      BY <3>3
    <3> QED
      BY <3>2, <3>3, <3>4 DEF PrintInv
  <2> QED
    BY <2>1, <2>2
<1>3. ASSUME NEW p \in Processes,
             \/ T!do_mmap(p) \/ T!do_munmap(p) \/ T!do_open(p) \/ T!do_read(p) \/ T!do_write(p)
             \/ T!do_dontneed(p) \/ T!do_ftruncate(p) \/ T!do_pwrite(p) \/ T!do_fork(p) \/ T!do_wait(p)
             \/ T!do_root(p) \/ T!check_hugetlb(p) \/ T!lookup_vma_flags(p) \/ T!describe_addr(p)
             \/ T!do_see(p) \/ T!do_print_buf(p) \/ T!do_exit(p)
      PROVE  PrintInv'
  <2>1. line' = T!NoLine /\ root' = root
    BY <1>3 DEF T!do_mmap, T!do_munmap, T!do_open, T!do_read, T!do_write, T!do_dontneed, T!do_ftruncate,
       T!do_pwrite, T!do_fork, T!do_wait, T!do_root, T!check_hugetlb, T!lookup_vma_flags, T!describe_addr,
       T!do_see, T!do_print_buf, T!do_exit, T!Next_, T!Done, T!Said, T!End
  <2> QED
    BY <2>1 DEF PrintInv
<1> QED
  BY <1>1, <1>2, <1>3 DEF T!Next

\* src/read-pageflags: for any size of the buffers, whoever runs the programs and
\* whichever of the files of /proc cannot be read, print_flags_virt() says
\* "not present" of exactly the pages without a frame, and a full line gives the
\* frame, the map count and the exclusive flag that the page really has.
THEOREM LinesTellTheTruth == Spec => []PrintsWhatIs
<1>1. Init => TourInv /\ PrintInv
  BY TourInit DEF Init, PrintInv, T!Init
<1>2. TourInv /\ PrintInv /\ [Next]_vars => TourInv' /\ PrintInv'
  <2>1. [Next]_vars => [T!Next]_tvars
    <3>1. Next => T!Next \/ UNCHANGED tvars
      BY Zenon DEF Next, tour, private, around
    <3>2. UNCHANGED vars => UNCHANGED tvars
      BY DEF vars
    <3> QED
      BY <3>1, <3>2, Zenon
  <2> QED
    BY <2>1, TourStep, PrintStep
<1>3. TourInv /\ PrintInv => PrintsWhatIs
  <2> SUFFICES ASSUME TourInv, PrintInv, line # T!NoLine PROVE T!PrintsWhatIs
    BY DEF PrintsWhatIs, T!PrintsWhatIs
  <2>1. PICK p, m, i, fails : p = last.p /\ m = last.step.m /\ i = last.step.i /\ fails = last.fails
    OBVIOUS
  <2>2. /\ p \in Processes /\ m \in Pointers /\ i \in T!Pages /\ root \in BOOLEAN
        /\ line = T!print_flags_virt(tw, p, m, i, root, fails)
    BY <2>1 DEF PrintInv
  <2>3. PICK f : f = T!Pte(tw, p, m, i)
    OBVIOUS
  <2>4. f \in Int
    BY <2>2, <2>3 DEF TourInv, Shape, T!Pte
  <2>5. Told(line, f <= 0 /\ "pagemap" \notin fails,
             f > 0 /\ root /\ "pagemap" \notin fails /\ "kpageflags" \notin fails,
             f, IF "kpagecount" \in fails THEN INVALID_VALUE ELSE T!Mapcount(tw, f),
             f \in tw.anon /\ T!Mapcount(tw, f) = 1)
    BY <2>2, <2>3, <2>4, PrintsRight
  <2>6. T!Is(p, m, i, "own") <=> f \in tw.anon /\ T!Mapcount(tw, f) = 1
    BY <2>3 DEF T!Is
  <2>7. fails \cap {"pagemap", "kpageflags"} = {} <=> "pagemap" \notin fails /\ "kpageflags" \notin fails
    OBVIOUS
  <2> QED
    BY <2>1, <2>3, <2>5, <2>6, <2>7, Zenon DEF T!PrintsWhatIs, Told
<1> QED
  BY <1>1, <1>2, <1>3, PTL DEF Spec
=============================================================================
