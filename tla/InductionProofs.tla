--------------------------- MODULE InductionProofs ---------------------------
(***************************************************************************)
(* Induction over the natural numbers, stated of sets instead of           *)
(* predicates, and what it gives for the recursive functions of the        *)
(* project: sums over finite sets, as FiniteSetsExt!MapThenSumSet computes *)
(* them, and powers of two.                                                *)
(***************************************************************************)
EXTENDS Integers, FiniteSets, FiniteSetsExt, WellFoundedInduction,
        FiniteSetTheorems, TLAPS

\* A set of natural numbers that is not empty has a least element.
LEMMA Least ==
  ASSUME NEW T \in SUBSET Nat, T # {}
  PROVE  \E x \in T : \A y \in T : x <= y
  <1>1. PICK R : R = OpToRel(<, Nat)
    OBVIOUS
  <1>2. IsWellFoundedOn(R, Nat)
    BY <1>1, NatLessThanWellFounded
  <1>3. PICK x \in T : \A y \in T : ~(<<y, x>> \in R)
    BY <1>2, WFMin
  <1>4. \A y \in T : y < x => <<y, x>> \in R
    BY <1>1 DEF OpToRel
  <1>5. \A y \in T : y \in Int /\ x \in Int
    OBVIOUS
  <1>6. \A y \in T : ~(y < x)
    BY <1>3, <1>4, Zenon
  <1>7. \A y \in T : x <= y
    BY <1>5, <1>6
  <1>8. QED
    BY <1>7

\* A set that holds 0 and the successor of each of its numbers holds them all.
LEMMA Induction ==
  ASSUME NEW S, 0 \in S, \A n \in Nat : n \in S => n + 1 \in S
  PROVE  Nat \subseteq S
  <1> SUFFICES ASSUME Nat \ S # {} PROVE FALSE
    OBVIOUS
  <1>1. PICK x \in Nat \ S : \A y \in Nat \ S : x <= y
    BY Least
  <1>2. QED
    BY <1>1

-----------------------------------------------------------------------------
(* Sums *)

\* The sum of f[a] over the elements a of S.
Total(f, S) == MapThenSumSet(LAMBDA a : f[a], S)

\* The element a sum takes next.
Pick(s) == CHOOSE x \in s : TRUE

\* The partial sums over the sets of D, as the fold computes them.
Summing(it, f, D) ==
  it = [s \in D |-> IF s = {} THEN 0 ELSE f[Pick(s)] + it[s \ {Pick(s)}]]

\* The subsets of S of at most n elements.
UpTo(S, n) == {s \in SUBSET S : Cardinality(s) <= n}

LEMMA PickIn ==
  ASSUME NEW s, s # {}
  PROVE  Pick(s) \in s
  BY DEF Pick

\* The parts of a finite set, with and without one element.
LEMMA Parts ==
  ASSUME NEW S, IsFiniteSet(S), NEW s \in SUBSET S
  PROVE  /\ IsFiniteSet(s) /\ Cardinality(s) \in Nat
         /\ Cardinality(s) <= Cardinality(S)
         /\ Cardinality(s) = 0 <=> s = {}
         /\ \A x \in s : Cardinality(s \ {x}) = Cardinality(s) - 1
  BY FS_Subset, FS_CardinalityType, FS_EmptySet, FS_RemoveElement

\* The recursion of the sum has a solution.
LEMMA SummingExists ==
  ASSUME NEW f, NEW S, IsFiniteSet(S)
  PROVE  \E it : Summing(it, f, SUBSET S)
  <1> DEFINE N == {n \in Nat : \E it : Summing(it, f, UpTo(S, n))}
  <1>1. 0 \in N
    <2> DEFINE it == [s \in UpTo(S, 0) |-> 0]
    <2>1. \A s \in UpTo(S, 0) : s = {}
      BY Parts DEF UpTo
    <2>2. Summing(it, f, UpTo(S, 0))
      BY <2>1 DEF Summing
    <2>3. QED
      BY <2>2
  <1>2. ASSUME NEW n \in Nat, n \in N PROVE n + 1 \in N
    <2>1. PICK it : Summing(it, f, UpTo(S, n))
      BY <1>2
    <2> DEFINE jt == [s \in UpTo(S, n + 1) |->
                        IF s = {} THEN 0 ELSE f[Pick(s)] + it[s \ {Pick(s)}]]
    <2>2. ASSUME NEW s \in UpTo(S, n)
          PROVE  s \in UpTo(S, n + 1) /\ jt[s] = it[s]
      <3>1. s \in UpTo(S, n + 1)
        BY Parts DEF UpTo
      <3>2. it[s] = IF s = {} THEN 0 ELSE f[Pick(s)] + it[s \ {Pick(s)}]
        BY <2>1 DEF Summing
      <3>3. QED
        BY <3>1, <3>2
    <2>3. ASSUME NEW s \in UpTo(S, n + 1), s # {}
          PROVE  s \ {Pick(s)} \in UpTo(S, n)
      <3>1. s \in SUBSET S /\ Cardinality(s) <= n + 1 /\ Pick(s) \in s
        BY <2>3, PickIn DEF UpTo
      <3>2. Cardinality(s) \in Nat /\ Cardinality(s \ {Pick(s)}) = Cardinality(s) - 1
        BY <3>1, Parts
      <3>3. QED
        BY <3>1, <3>2 DEF UpTo
    <2>4. \A s \in UpTo(S, n + 1) :
            jt[s] = IF s = {} THEN 0 ELSE f[Pick(s)] + jt[s \ {Pick(s)}]
      <3> SUFFICES ASSUME NEW s \in UpTo(S, n + 1), s # {}
                   PROVE  jt[s] = f[Pick(s)] + jt[s \ {Pick(s)}]
        OBVIOUS
      <3>1. jt[s] = f[Pick(s)] + it[s \ {Pick(s)}]
        OBVIOUS
      <3>2. it[s \ {Pick(s)}] = jt[s \ {Pick(s)}]
        BY <2>2, <2>3
      <3>3. QED
        BY <3>1, <3>2
    <2>5. jt = [s \in UpTo(S, n + 1) |-> jt[s]]
      OBVIOUS
    <2> HIDE DEF jt
    <2>6. Summing(jt, f, UpTo(S, n + 1))
      BY <2>4, <2>5 DEF Summing
    <2>7. QED
      BY <2>6
  <1> HIDE DEF N
  <1>3. Nat \subseteq N
    BY <1>1, <1>2, Induction
  <1>4. Cardinality(S) \in Nat
    BY FS_CardinalityType
  <1>5. PICK it : Summing(it, f, UpTo(S, Cardinality(S)))
    BY <1>3, <1>4 DEF N
  <1>6. UpTo(S, Cardinality(S)) = SUBSET S
    BY Parts DEF UpTo
  <1>7. QED
    BY <1>5, <1>6

\* Two functions have the same values on T.
Agree(f, g, T) == \A x \in T : f[x] = g[x]

\* A function has integer values on T.
Ints(f, T) == \A x \in T : f[x] \in Int

\* Solutions for two functions that agree on T agree on the parts of T.
LEMMA SummingUnique ==
  ASSUME NEW f, NEW g, NEW S, NEW T, NEW it, NEW jt, IsFiniteSet(T),
         T \subseteq S, Agree(f, g, T), Summing(it, f, SUBSET S), Summing(jt, g, SUBSET T)
  PROVE  it[T] = jt[T]
  <1> DEFINE N == {n \in Nat : \A s \in SUBSET T : Cardinality(s) = n => it[s] = jt[s]}
  <1>0. \A s \in SUBSET T :
          /\ it[s] = IF s = {} THEN 0 ELSE f[Pick(s)] + it[s \ {Pick(s)}]
          /\ jt[s] = IF s = {} THEN 0 ELSE g[Pick(s)] + jt[s \ {Pick(s)}]
    <2> SUFFICES ASSUME NEW s \in SUBSET T
                 PROVE  /\ it[s] = IF s = {} THEN 0 ELSE f[Pick(s)] + it[s \ {Pick(s)}]
                        /\ jt[s] = IF s = {} THEN 0 ELSE g[Pick(s)] + jt[s \ {Pick(s)}]
      OBVIOUS
    <2>1. s \in SUBSET S
      OBVIOUS
    <2>2. QED
      BY <2>1 DEF Summing
  <1>1. 0 \in N
    BY <1>0, Parts
  <1>2. ASSUME NEW n \in Nat, n \in N PROVE n + 1 \in N
    <2> SUFFICES ASSUME NEW s \in SUBSET T, Cardinality(s) = n + 1 PROVE it[s] = jt[s]
      OBVIOUS
    <2>1. s # {} /\ \A x \in s : Cardinality(s \ {x}) = n
      BY Parts
    <2>2. Pick(s) \in s
      BY <2>1, PickIn
    <2>3. it[s \ {Pick(s)}] = jt[s \ {Pick(s)}]
      BY <1>2, <2>1, <2>2
    <2>4. f[Pick(s)] = g[Pick(s)]
      BY <2>2 DEF Agree
    <2>5. QED
      BY <1>0, <2>1, <2>3, <2>4
  <1> HIDE DEF N
  <1>3. Nat \subseteq N
    BY <1>1, <1>2, Induction
  <1>4. Cardinality(T) \in N
    BY <1>3, FS_CardinalityType
  <1>5. QED
    BY <1>4 DEF N

\* The sum is the last partial sum.
LEMMA TotalIs ==
  ASSUME NEW f, NEW S, IsFiniteSet(S)
  PROVE  \E it : Summing(it, f, SUBSET S) /\ Total(f, S) = it[S]
  <1> DEFINE it == CHOOSE it : Summing(it, f, SUBSET S)
  <1>1. Summing(it, f, SUBSET S)
    BY SummingExists
  <1>2. Total(f, S) = it[S]
    BY DEF Total, MapThenSumSet, MapThenFoldSet, Summing, Pick
  <1>3. QED
    BY <1>1, <1>2

\* Nothing adds up to zero.
LEMMA TotalEmpty == \A f : Total(f, {}) = 0
  <1> SUFFICES ASSUME NEW f PROVE Total(f, {}) = 0
    OBVIOUS
  <1>1. PICK it : Summing(it, f, SUBSET {}) /\ Total(f, {}) = it[{}]
    BY TotalIs, FS_EmptySet
  <1>2. {} \in SUBSET {}
    OBVIOUS
  <1>3. QED
    BY <1>1, <1>2 DEF Summing

\* Functions that agree on a set have the same sum over it.
LEMMA TotalSame ==
  ASSUME NEW f, NEW g, NEW S, IsFiniteSet(S), \A x \in S : f[x] = g[x]
  PROVE  Total(f, S) = Total(g, S)
  <1>1. PICK it : Summing(it, f, SUBSET S) /\ Total(f, S) = it[S]
    BY TotalIs
  <1>2. PICK jt : Summing(jt, g, SUBSET S) /\ Total(g, S) = jt[S]
    BY TotalIs
  <1>3. S \subseteq S /\ Agree(f, g, S)
    BY DEF Agree
  <1>4. it[S] = jt[S]
    BY <1>1, <1>2, <1>3, SummingUnique
  <1>5. QED
    BY <1>1, <1>2, <1>4

\* The sum without the element it takes first.
LEMMA TotalPick ==
  ASSUME NEW f, NEW S, IsFiniteSet(S), S # {}
  PROVE  Total(f, S) = f[Pick(S)] + Total(f, S \ {Pick(S)})
  <1> DEFINE T == S \ {Pick(S)}
  <1>1. IsFiniteSet(T) /\ T \in SUBSET S
    BY FS_RemoveElement
  <1>2. PICK it : Summing(it, f, SUBSET S) /\ Total(f, S) = it[S]
    BY TotalIs
  <1>3. PICK jt : Summing(jt, f, SUBSET T) /\ Total(f, T) = jt[T]
    BY <1>1, TotalIs
  <1>4. it[T] = jt[T]
    <2>1. T \subseteq S /\ Agree(f, f, T)
      BY <1>1 DEF Agree
    <2> HIDE DEF T
    <2>2. QED
      BY <1>1, <1>2, <1>3, <2>1, SummingUnique
  <1>5. it[S] = f[Pick(S)] + it[T]
    BY <1>2 DEF Summing
  <1>6. QED
    BY <1>2, <1>3, <1>4, <1>5

\* A sum of integers is an integer.
LEMMA TotalType ==
  ASSUME NEW f, NEW S, IsFiniteSet(S), \A x \in S : f[x] \in Int
  PROVE  Total(f, S) \in Int
  <1> DEFINE N == {n \in Nat : \A s \in SUBSET S : Cardinality(s) = n => Total(f, s) \in Int}
  <1>1. 0 \in N
    <2>1. \A s \in SUBSET S : Cardinality(s) = 0 => s = {}
      BY Parts
    <2>2. QED
      BY <2>1, TotalEmpty
  <1>2. ASSUME NEW n \in Nat, n \in N PROVE n + 1 \in N
    <2> SUFFICES ASSUME NEW s \in SUBSET S, Cardinality(s) = n + 1 PROVE Total(f, s) \in Int
      OBVIOUS
    <2>1. /\ s # {} /\ IsFiniteSet(s)
          /\ \A x \in s : Cardinality(s \ {x}) = n
      BY Parts
    <2>2. PICK p \in s : Total(f, s) = f[p] + Total(f, s \ {p})
      BY <2>1, PickIn, TotalPick
    <2>3. Total(f, s \ {p}) \in Int /\ f[p] \in Int
      BY <1>2, <2>1
    <2>4. QED
      BY <2>2, <2>3
  <1> HIDE DEF N
  <1>3. Nat \subseteq N
    BY <1>1, <1>2, Induction
  <1>4. Cardinality(S) \in N
    BY <1>3, FS_CardinalityType
  <1>5. QED
    BY <1>4 DEF N

\* Any element may be taken out of a sum of integers.
LEMMA TotalRemove ==
  ASSUME NEW f, NEW S, IsFiniteSet(S), \A x \in S : f[x] \in Int
  PROVE  \A x \in S : Total(f, S) = f[x] + Total(f, S \ {x})
  <1> DEFINE Good(s) == \A x \in s : Total(f, s) = f[x] + Total(f, s \ {x})
             N == {n \in Nat : \A s \in SUBSET S : Cardinality(s) = n => Good(s)}
  <1>0. \A s \in SUBSET S : Total(f, s) \in Int
    BY TotalType, Parts
  <1>1. 0 \in N
    BY Parts
  <1>2. ASSUME NEW n \in Nat, n \in N PROVE n + 1 \in N
    <2> SUFFICES ASSUME NEW s \in SUBSET S, Cardinality(s) = n + 1 PROVE Good(s)
      OBVIOUS
    <2>1. /\ s # {} /\ IsFiniteSet(s)
          /\ \A x \in s : Cardinality(s \ {x}) = n
      BY Parts
    <2>2. \A x \in s : Good(s \ {x})
      BY <1>2, <2>1
    <2>3. PICK p \in s : Total(f, s) = f[p] + Total(f, s \ {p})
      BY <2>1, PickIn, TotalPick
    <2> SUFFICES ASSUME NEW x \in s, x # p
                 PROVE  Total(f, s) = f[x] + Total(f, s \ {x})
      BY <2>3
    <2> DEFINE r == (s \ {p}) \ {x}
    <2>4. r = (s \ {x}) \ {p} /\ x \in s \ {p} /\ p \in s \ {x} /\ r \in SUBSET S
      OBVIOUS
    <2>5. Total(f, s \ {p}) = f[x] + Total(f, r)
      BY <2>2, <2>4
    <2>6. Total(f, s \ {x}) = f[p] + Total(f, r)
      <3>1. Total(f, s \ {x}) = f[p] + Total(f, (s \ {x}) \ {p})
        BY <2>2, <2>4
      <3>2. QED
        BY <2>4, <3>1
    <2>7. f[x] \in Int /\ f[p] \in Int /\ Total(f, r) \in Int
      BY <1>0, <2>4
    <2>8. QED
      BY <2>3, <2>5, <2>6, <2>7
  <1> HIDE DEF N, Good
  <1>3. Nat \subseteq N
    BY <1>1, <1>2, Induction
  <1>4. Cardinality(S) \in N
    BY <1>3, FS_CardinalityType
  <1>5. QED
    BY <1>4 DEF N, Good

\* One element more.
LEMMA TotalAdd ==
  ASSUME NEW f, NEW S, NEW x, IsFiniteSet(S), x \notin S, f[x] \in Int,
         \A y \in S : f[y] \in Int
  PROVE  Total(f, S \cup {x}) = Total(f, S) + f[x] /\ Total(f, S) \in Int
  <1> DEFINE T == S \cup {x}
  <1>1. IsFiniteSet(T) /\ T \ {x} = S /\ x \in T
    BY FS_AddElement
  <1>2. \A y \in T : f[y] \in Int
    OBVIOUS
  <1> HIDE DEF T
  <1>3. Total(f, T) = f[x] + Total(f, S)
    <2>1. Total(f, T) = f[x] + Total(f, T \ {x})
      BY <1>1, <1>2, TotalRemove
    <2>2. QED
      BY <1>1, <2>1
  <1>4. Total(f, S) \in Int
    BY TotalType
  <1>5. Total(f, T) = Total(f, S) + f[x]
    BY <1>3, <1>4
  <1>6. QED
    BY <1>4, <1>5 DEF T

\* One element more: the other values are as they were.
LEMMA TotalMore ==
  ASSUME NEW f, NEW g, NEW S, NEW x, IsFiniteSet(S), x \notin S, g[x] \in Int,
         Ints(f, S), Agree(f, g, S)
  PROVE  Total(g, S \cup {x}) = Total(f, S) + g[x]
  <1>1. (\A y \in S : g[y] \in Int) /\ \A y \in S : f[y] = g[y]
    BY DEF Ints, Agree
  <1>2. Total(g, S \cup {x}) = Total(g, S) + g[x]
    BY <1>1, TotalAdd
  <1>3. Total(g, S) = Total(f, S)
    BY <1>1, TotalSame
  <1>4. QED
    BY <1>2, <1>3

\* One element less: the other values are as they were.
LEMMA TotalLess ==
  ASSUME NEW f, NEW g, NEW S, NEW x, IsFiniteSet(S), x \in S,
         Ints(f, S), Agree(f, g, S \ {x})
  PROVE  Total(g, S \ {x}) = Total(f, S) - f[x]
  <1> DEFINE T == S \ {x}
  <1>1. IsFiniteSet(T)
    BY FS_RemoveElement
  <1>2. Total(f, S) = f[x] + Total(f, T) /\ f[x] \in Int
    BY TotalRemove DEF Ints
  <1>3. (\A y \in T : f[y] \in Int) /\ \A y \in T : f[y] = g[y]
    BY DEF Ints, Agree
  <1> HIDE DEF T
  <1>4. Total(f, T) = Total(g, T) /\ Total(f, T) \in Int
    BY <1>1, <1>3, TotalSame, TotalType
  <1>5. Total(g, T) = Total(f, S) - f[x]
    BY <1>2, <1>4
  <1>6. QED
    BY <1>5 DEF T

-----------------------------------------------------------------------------
(* Powers of two, as the number of subsets *)

LEMMA Subsets ==
  ASSUME NEW k \in Nat
  PROVE  /\ IsFiniteSet(SUBSET (1 .. k)) /\ 2 ^ k \in Nat
         /\ Cardinality(SUBSET (1 .. k)) = 2 ^ k
  <1>1. IsFiniteSet(1 .. k) /\ Cardinality(1 .. k) = k
    BY FS_Interval
  <1>2. IsFiniteSet(SUBSET (1 .. k)) /\ Cardinality(SUBSET (1 .. k)) = 2 ^ k
    BY <1>1, FS_SUBSET
  <1>3. QED
    BY <1>2, FS_CardinalityType

\* A new element doubles them.
LEMMA PowerNext ==
  ASSUME NEW k \in Nat
  PROVE  2 ^ (k + 1) = 2 * 2 ^ k
  <1> DEFINE A == SUBSET (1 .. k)
             B == {s \cup {k + 1} : s \in A}
             f == [s \in A |-> s \cup {k + 1}]
  <1>1. \A s \in A : k + 1 \notin s
    OBVIOUS
  <1>2. f \in Bijection(A, B)
    <2>1. f \in [A -> B]
      OBVIOUS
    <2>2. \A s, t \in A : f[s] = f[t] => s = t
      <3> SUFFICES ASSUME NEW s \in A, NEW t \in A, s \cup {k + 1} = t \cup {k + 1} PROVE s = t
        OBVIOUS
      <3>1. k + 1 \notin s /\ k + 1 \notin t
        BY <1>1
      <3> HIDE DEF A
      <3>2. QED
        BY <3>1
    <2>3. \A b \in B : \E s \in A : f[s] = b
      OBVIOUS
    <2> HIDE DEF A, B, f
    <2>4. QED
      BY <2>1, <2>2, <2>3 DEF Bijection, Injection, Surjection, IsInjective
  <1>3. 1 .. k + 1 = (1 .. k) \cup {k + 1}
    OBVIOUS
  <1>4. SUBSET (1 .. k + 1) = A \cup B
    <2>1. ASSUME NEW s \in SUBSET (1 .. k + 1) PROVE s \in A \cup B
      <3>1. CASE k + 1 \notin s
        BY <1>3, <3>1
      <3>2. CASE k + 1 \in s
        <4>1. s \ {k + 1} \in A /\ s = (s \ {k + 1}) \cup {k + 1}
          BY <1>3, <3>2
        <4>2. QED
          BY <4>1
      <3>3. QED
        BY <3>1, <3>2
    <2>2. A \cup B \subseteq SUBSET (1 .. k + 1)
      BY <1>3
    <2>3. QED
      BY <2>1, <2>2
  <1>5. A \cap B = {}
    BY <1>1
  <1>6. IsFiniteSet(A) /\ Cardinality(A) = 2 ^ k /\ 2 ^ k \in Nat
    BY Subsets
  <1>7. IsFiniteSet(SUBSET (1 .. k + 1)) /\ Cardinality(SUBSET (1 .. k + 1)) = 2 ^ (k + 1)
    BY Subsets
  <1> HIDE DEF A, B, f
  <1>8. IsFiniteSet(B) /\ Cardinality(B) = Cardinality(A)
    BY <1>2, <1>6, FS_Bijection DEF ExistsBijection
  <1>9. Cardinality(A \cup B) = Cardinality(A) + Cardinality(B) - 0
    BY <1>5, <1>6, <1>8, FS_Union, FS_EmptySet
  <1>10. PICK p, q : p = 2 ^ k /\ q = 2 ^ (k + 1)
    OBVIOUS
  <1>11. p \in Nat /\ q = p + p - 0
    BY <1>4, <1>6, <1>7, <1>8, <1>9, <1>10
  <1>12. q = 2 * p
    BY ONLY <1>11
  <1>13. QED
    BY <1>10, <1>12

LEMMA PowerType ==
  ASSUME NEW k \in Nat
  PROVE  2 ^ k \in Nat \ {0}
  <1> DEFINE N == {n \in Nat : 2 ^ n \in Nat \ {0}}
  <1>1. 0 \in N
    <2>1. 2 ^ 0 = 1
      OBVIOUS
    <2>2. QED
      BY <2>1
  <1>2. ASSUME NEW n \in Nat, n \in N PROVE n + 1 \in N
    <2>1. PICK p : p = 2 ^ n
      OBVIOUS
    <2>2. p \in Nat \ {0} /\ 2 ^ (n + 1) = 2 * p
      BY <1>2, <2>1, PowerNext
    <2>3. 2 ^ (n + 1) \in Nat \ {0}
      BY <2>2
    <2>4. QED
      BY <2>3
  <1> HIDE DEF N
  <1>3. k \in N
    BY <1>1, <1>2, Induction
  <1>4. QED
    BY <1>3 DEF N

LEMMA PowerSum ==
  ASSUME NEW k \in Nat, NEW d \in Nat
  PROVE  2 ^ (k + d) = 2 ^ k * 2 ^ d
  <1> DEFINE N == {n \in Nat : 2 ^ (k + n) = 2 ^ k * 2 ^ n}
  <1>0. PICK a : a = 2 ^ k
    OBVIOUS
  <1>0a. a \in Nat
    BY <1>0, PowerType
  <1>1. 0 \in N
    <2>1. 2 ^ 0 = 1 /\ k + 0 = k
      OBVIOUS
    <2>2. a = a * 1
      BY <1>0a
    <2>3. QED
      BY <1>0, <2>1, <2>2
  <1>2. ASSUME NEW n \in Nat, n \in N PROVE n + 1 \in N
    <2>1. PICK b, c : b = 2 ^ n /\ c = 2 ^ (k + n)
      OBVIOUS
    <2>2. b \in Nat /\ c = a * b
      BY <1>0, <1>2, <2>1, PowerType
    <2>3. k + n \in Nat /\ k + (n + 1) = (k + n) + 1
      OBVIOUS
    <2>4. 2 ^ (k + (n + 1)) = 2 * c
      BY <2>1, <2>3, PowerNext
    <2>5. 2 ^ (n + 1) = 2 * b
      BY <2>1, PowerNext
    <2>6. 2 * (a * b) = a * (2 * b)
      BY <1>0a, <2>2
    <2>7. 2 ^ (k + (n + 1)) = 2 ^ k * 2 ^ (n + 1)
      BY <1>0, <2>2, <2>4, <2>5, <2>6
    <2>8. QED
      BY <2>7
  <1> HIDE DEF N
  <1>3. d \in N
    BY <1>1, <1>2, Induction
  <1>4. QED
    BY <1>3 DEF N

\* A smaller power of two divides a larger one.
LEMMA PowerDivides ==
  ASSUME NEW k \in Nat, NEW j \in Nat, 2 ^ k < 2 ^ j
  PROVE  \E q \in Nat : 2 ^ j = 2 ^ k * q
  <1>1. CASE k <= j
    <2>1. PICK d \in Nat : j = k + d
      <3>1. j - k \in Nat /\ j = k + (j - k)
        BY <1>1
      <3>2. QED
        BY <3>1
    <2>2. 2 ^ j = 2 ^ k * 2 ^ d /\ 2 ^ d \in Nat
      BY <2>1, PowerSum, PowerType
    <2>3. QED
      BY <2>2
  <1>2. CASE ~(k <= j)
    <2>1. PICK d \in Nat : k = j + d
      <3>1. k - j \in Nat /\ k = j + (k - j)
        BY <1>2
      <3>2. QED
        BY <3>1
    <2>2. PICK a, b, c : a = 2 ^ j /\ b = 2 ^ d /\ c = 2 ^ k
      OBVIOUS
    <2>3. a \in Nat \ {0} /\ b \in Nat \ {0} /\ c = a * b /\ c < a
      BY <2>1, <2>2, PowerSum, PowerType
    <2>4. a * b >= a
      BY <2>3
    <2>5. QED
      BY <2>3, <2>4
  <1>3. QED
    BY <1>1, <1>2

=============================================================================
