----------------------------- MODULE VmaProofs ------------------------------
(***************************************************************************)
(* Theorems about the mapping experiments, for any programs of such calls  *)
(* and any size of the address space: no two VMAs ever overlap,            *)
(* random_unmap.c, whatever it draws, leaves the other mappings alone, and *)
(* procmap.c draws the right conclusion from the VMA it asks for.          *)
(***************************************************************************)
EXTENDS VmaRunner, InductionProofs, TLAPS

-----------------------------------------------------------------------------
(* VMAs *)

\* A VMA that is not empty.
Shaped(v) ==
  \E s, e \in Int : \E prot, off, av, fl, obj :
    /\ s < e
    /\ v = [start |-> s, end |-> e, prot |-> prot, pgoff |-> off, av |-> av, flags |-> fl, obj |-> obj]

Apart(u, v) == u.end <= v.start \/ v.end <= u.start

Space(m) == (\A v \in m : Shaped(v)) /\ (\A u, v \in m : u # v => Apart(u, v))

\* v is in u, which is alike.
In(v, u) == u.start <= v.start /\ v.end <= u.end /\ u.prot = v.prot /\ u.obj = v.obj

LEMMA Fields ==
  ASSUME NEW v, Shaped(v)
  PROVE  v.start \in Int /\ v.end \in Int /\ v.start < v.end
BY DEF Shaped

\* The same VMA over another range.
Sized(v, s, e, o) == [v EXCEPT !.start = s, !.end = e, !.pgoff = o]

LEMMA Resized ==
  ASSUME NEW v, NEW s, NEW e, NEW o, NEW u, Shaped(v), s \in Int, e \in Int, s < e,
         u = Sized(v, s, e, o)
  PROVE  Shaped(u) /\ u.start = s /\ u.end = e /\ u.prot = v.prot /\ u.obj = v.obj
<1>1. PICK prot, av, fl, obj, s1, e1, o1 :
        v = [start |-> s1, end |-> e1, prot |-> prot, pgoff |-> o1, av |-> av, flags |-> fl, obj |-> obj]
  BY DEF Shaped
<1>2. u = [start |-> s, end |-> e, prot |-> prot, pgoff |-> o, av |-> av, flags |-> fl, obj |-> obj]
  BY <1>1 DEF Sized
<1>3. Shaped(u)
  BY <1>2, Zenon DEF Shaped
<1>4. u.start = s /\ u.end = e /\ u.prot = v.prot /\ u.obj = v.obj
  BY ONLY <1>1, <1>2
<1> QED
  BY <1>3, <1>4

LEMMA ClipIs ==
  ASSUME NEW v, NEW s, NEW e, Shaped(v), s \in Int, e \in Int, s < v.end, v.start < e, s < e
  PROVE  /\ Shaped(Clip(v, s, e))
         /\ Clip(v, s, e).prot = v.prot /\ Clip(v, s, e).obj = v.obj
         /\ Clip(v, s, e).start = (IF s > v.start THEN s ELSE v.start)
         /\ Clip(v, s, e).end = (IF e < v.end THEN e ELSE v.end)
<1>0. v.start \in Int /\ v.end \in Int /\ v.start < v.end
  BY Fields
<1>1. PICK b, x, o : /\ b = (IF s > v.start THEN s ELSE v.start) /\ x = (IF e < v.end THEN e ELSE v.end)
                     /\ o = v.pgoff + b - v.start
  OBVIOUS
<1>2. b \in Int /\ x \in Int /\ b < x
  BY <1>0, <1>1
<1>3. PICK u : u = Sized(v, b, x, o)
  OBVIOUS
<1>4. Clip(v, s, e) = u
  BY <1>1, <1>3, Zenon DEF Clip, Sized
<1>5. Shaped(u) /\ u.start = b /\ u.end = x /\ u.prot = v.prot /\ u.obj = v.obj
  BY <1>2, <1>3, Resized
<1> QED
  BY <1>1, <1>4, <1>5, Zenon

-----------------------------------------------------------------------------
(* munmap() *)

\* What is left of v on either side of a range.
LowPart(v, s, e) == IF v.start < e /\ s < v.end THEN Clip(v, v.start, s) ELSE v
HighPart(v, s, e) == IF v.start < e /\ s < v.end THEN Clip(v, e, v.end) ELSE v

PartOf(u, v, s, e) ==
  /\ Shaped(u) /\ v.start <= u.start /\ u.end <= v.end /\ u.prot = v.prot /\ u.obj = v.obj
  /\ \/ u.end <= s /\ u = LowPart(v, s, e)
     \/ e <= u.start /\ u = HighPart(v, s, e)

LEMMA LowPartIs ==
  ASSUME NEW v, NEW s, NEW e, Shaped(v), s \in Int, e \in Int, s < e, v.start < s
  PROVE  PartOf(LowPart(v, s, e), v, s, e) /\ LowPart(v, s, e).start = v.start
         /\ LowPart(v, s, e).end = (IF s < v.end THEN s ELSE v.end)
<1>1. PICK u, a, b : u = LowPart(v, s, e) /\ a = v.start /\ b = v.end
  OBVIOUS
<1>2. a \in Int /\ b \in Int /\ a < b /\ a < s
  BY <1>1, Fields
<1>3. CASE s < b
  <2>1. u = Clip(v, a, s)
    BY <1>1, <1>2, <1>3 DEF LowPart
  <2>2. /\ Shaped(u) /\ u.prot = v.prot /\ u.obj = v.obj
        /\ u.start = (IF a > a THEN a ELSE a) /\ u.end = (IF s < b THEN s ELSE b)
    BY <1>1, <1>2, <1>3, <2>1, ClipIs
  <2>3. u.start = a /\ u.end = s
    BY <1>2, <1>3, <2>2
  <2> QED
    BY <1>1, <1>2, <1>3, <2>2, <2>3 DEF PartOf
<1>4. CASE ~(s < b)
  <2>1. u = v
    BY <1>1, <1>4 DEF LowPart
  <2> QED
    BY <1>1, <1>2, <1>4, <2>1 DEF PartOf
<1> QED
  BY <1>3, <1>4

LEMMA HighPartIs ==
  ASSUME NEW v, NEW s, NEW e, Shaped(v), s \in Int, e \in Int, s < e, e < v.end
  PROVE  PartOf(HighPart(v, s, e), v, s, e) /\ HighPart(v, s, e).end = v.end
         /\ HighPart(v, s, e).start = (IF v.start < e THEN e ELSE v.start)
<1>1. PICK u, a, b : u = HighPart(v, s, e) /\ a = v.start /\ b = v.end
  OBVIOUS
<1>2. a \in Int /\ b \in Int /\ a < b /\ e < b
  BY <1>1, Fields
<1>3. CASE a < e
  <2>1. u = Clip(v, e, b)
    BY <1>1, <1>2, <1>3 DEF HighPart
  <2>2. /\ Shaped(u) /\ u.prot = v.prot /\ u.obj = v.obj
        /\ u.start = (IF e > a THEN e ELSE a) /\ u.end = (IF b < b THEN b ELSE b)
    BY <1>1, <1>2, <1>3, <2>1, ClipIs
  <2>3. u.start = e /\ u.end = b
    BY <1>2, <1>3, <2>2
  <2> QED
    BY <1>1, <1>2, <1>3, <2>2, <2>3 DEF PartOf
<1>4. CASE ~(a < e)
  <2>1. u = v
    BY <1>1, <1>4 DEF HighPart
  <2> QED
    BY <1>1, <1>2, <1>4, <2>1 DEF PartOf
<1> QED
  BY <1>3, <1>4

\* What munmap() leaves are parts of what was there.
LEMMA UnmapParts ==
  ASSUME NEW m, NEW s, NEW e, NEW u, Space(m), s \in Int, e \in Int, s < e, u \in Unmap(m, s, e)
  PROVE  \E v \in m : PartOf(u, v, s, e)
<1>1. PICK hit : hit = Overlapping(m, s, e)
  OBVIOUS
<1>2. \/ u \in m /\ u \notin hit
      \/ \E v \in hit : v.start < s /\ u = Clip(v, v.start, s)
      \/ \E v \in hit : v.end > e /\ u = Clip(v, e, v.end)
  BY <1>1 DEF Unmap
<1>3. \A v : v \in hit <=> v \in m /\ v.start < e /\ s < v.end
  BY <1>1 DEF Overlapping
<1>4. CASE u \in m /\ u \notin hit
  <2>1. Shaped(u) /\ ~(u.start < e /\ s < u.end)
    BY <1>3, <1>4 DEF Space
  <2>2. u.start \in Int /\ u.end \in Int /\ u.start < u.end
    BY <2>1, Fields
  <2>3. LowPart(u, s, e) = u /\ HighPart(u, s, e) = u
    BY <2>1, Zenon DEF LowPart, HighPart
  <2>4. PartOf(u, u, s, e)
    BY <2>1, <2>2, <2>3 DEF PartOf
  <2> QED
    BY <1>4, <2>4
<1>5. CASE \E v \in hit : v.start < s /\ u = Clip(v, v.start, s)
  <2>1. PICK v \in hit : v.start < s /\ u = Clip(v, v.start, s)
    BY <1>5
  <2>2. v \in m /\ Shaped(v) /\ v.start < e /\ s < v.end
    BY <1>3, <2>1 DEF Space
  <2>3. u = LowPart(v, s, e)
    BY <2>1, <2>2, Zenon DEF LowPart
  <2>4. PartOf(LowPart(v, s, e), v, s, e)
    BY <2>1, <2>2, LowPartIs
  <2> QED
    BY <2>2, <2>3, <2>4
<1>6. CASE \E v \in hit : v.end > e /\ u = Clip(v, e, v.end)
  <2>1. PICK v \in hit : v.end > e /\ u = Clip(v, e, v.end)
    BY <1>6
  <2>2. v \in m /\ Shaped(v) /\ v.start < e /\ s < v.end
    BY <1>3, <2>1 DEF Space
  <2>3. e < v.end
    BY <2>1, <2>2, Fields
  <2>4. u = HighPart(v, s, e)
    BY <2>1, <2>2, Zenon DEF HighPart
  <2>5. PartOf(HighPart(v, s, e), v, s, e)
    BY <2>2, <2>3, HighPartIs
  <2> QED
    BY <2>2, <2>4, <2>5
<1> QED
  BY <1>2, <1>4, <1>5, <1>6

LEMMA UnmapSpace ==
  ASSUME NEW m, NEW s, NEW e, Space(m), s \in Int, e \in Int, s < e
  PROVE  Space(Unmap(m, s, e)) /\ Overlapping(Unmap(m, s, e), s, e) = {}
<1>1. PICK n : n = Unmap(m, s, e)
  OBVIOUS
<1>2. \A u \in n : \E v \in m : PartOf(u, v, s, e)
  BY <1>1, UnmapParts
<1>3. \A u \in n : Shaped(u)
  BY <1>2 DEF PartOf
<1>4. ASSUME NEW u \in n, NEW w \in n, u # w PROVE Apart(u, w)
  <2>1. PICK x \in m : PartOf(u, x, s, e)
    BY <1>2
  <2>2. PICK y \in m : PartOf(w, y, s, e)
    BY <1>2
  <2>3. /\ u.start \in Int /\ u.end \in Int /\ w.start \in Int /\ w.end \in Int
        /\ u.start < u.end /\ w.start < w.end
    BY <1>3, Fields
  <2>4. /\ x.start <= u.start /\ u.end <= x.end /\ y.start <= w.start /\ w.end <= y.end
        /\ (u.end <= s /\ u = LowPart(x, s, e)) \/ (e <= u.start /\ u = HighPart(x, s, e))
        /\ (w.end <= s /\ w = LowPart(y, s, e)) \/ (e <= w.start /\ w = HighPart(y, s, e))
    BY <2>1, <2>2 DEF PartOf
  <2>5. CASE x = y
    <3>1. (u.end <= s /\ e <= w.start) \/ (w.end <= s /\ e <= u.start)
      BY <1>4, <2>4, <2>5, Zenon
    <3> QED
      BY <2>3, <3>1 DEF Apart
  <2>6. CASE x # y
    <3>1. Apart(x, y) /\ Shaped(x) /\ Shaped(y)
      BY <2>6 DEF Space
    <3>2. x.start \in Int /\ x.end \in Int /\ y.start \in Int /\ y.end \in Int
      BY <3>1, Fields
    <3> QED
      BY <2>3, <2>4, <3>1, <3>2 DEF Apart
  <2> QED
    BY <2>5, <2>6
<1>5. ASSUME NEW u \in n PROVE ~(u.start < e /\ s < u.end)
  <2>1. u.end <= s \/ e <= u.start
    BY <1>2 DEF PartOf
  <2>2. u.start \in Int /\ u.end \in Int
    BY <1>3, Fields
  <2> QED
    BY <2>1, <2>2
<1> QED
  BY <1>1, <1>3, <1>4, <1>5 DEF Space, Overlapping

\* A mapping outside of the range stays.
LEMMA UnmapKeeps ==
  ASSUME NEW m, NEW s, NEW e, NEW l, NEW u, Space(m), s \in Int, e \in Int, s < e, Shaped(l),
         u \in m, In(l, u), l.end <= s \/ e <= l.start
  PROVE  \E w \in Unmap(m, s, e) : In(l, w)
<1>1. /\ l.start \in Int /\ l.end \in Int /\ l.start < l.end /\ Shaped(u)
      /\ u.start \in Int /\ u.end \in Int /\ u.start < u.end
  BY Fields DEF Space
<1>2. u.start <= l.start /\ l.end <= u.end /\ u.prot = l.prot /\ u.obj = l.obj
  BY DEF In
<1>3. CASE ~(u.start < e /\ s < u.end)
  <2>1. u \in Unmap(m, s, e)
    BY <1>3 DEF Unmap, Overlapping
  <2> QED
    BY <2>1
<1>4. CASE u.start < e /\ s < u.end /\ l.end <= s
  <2>1. PICK w : w = LowPart(u, s, e)
    OBVIOUS
  <2>2. u.start < s
    BY <1>1, <1>2, <1>4
  <2>3. PartOf(w, u, s, e) /\ w.start = u.start /\ w.end = (IF s < u.end THEN s ELSE u.end)
    BY <1>1, <2>1, <2>2, LowPartIs
  <2>4. w.start <= l.start /\ l.end <= w.end
    BY <1>1, <1>2, <1>4, <2>3
  <2>5. In(l, w)
    BY <1>2, <2>3, <2>4 DEF In, PartOf
  <2>6. w = Clip(u, u.start, s)
    BY <1>4, <2>1, Zenon DEF LowPart
  <2>7. w \in Unmap(m, s, e)
    BY <1>4, <2>2, <2>6 DEF Unmap, Overlapping
  <2> QED
    BY <2>5, <2>7
<1>5. CASE u.start < e /\ s < u.end /\ e <= l.start
  <2>1. PICK w : w = HighPart(u, s, e)
    OBVIOUS
  <2>2. e < u.end /\ u.end > e
    BY <1>1, <1>2, <1>5
  <2>3. PartOf(w, u, s, e) /\ w.end = u.end /\ w.start = (IF u.start < e THEN e ELSE u.start)
    BY <1>1, <2>1, <2>2, HighPartIs
  <2>4. w.start <= l.start /\ l.end <= w.end
    BY <1>1, <1>2, <1>5, <2>3
  <2>5. In(l, w)
    BY <1>2, <2>3, <2>4 DEF In, PartOf
  <2>6. w = Clip(u, e, u.end)
    BY <1>5, <2>1, Zenon DEF HighPart
  <2>7. w \in Unmap(m, s, e)
    BY <1>5, <2>2, <2>6 DEF Unmap, Overlapping
  <2> QED
    BY <2>5, <2>7
<1> QED
  BY <1>3, <1>4, <1>5

-----------------------------------------------------------------------------
(* Merging *)

\* The VMAs before and after a place are one each, if any.
LEMMA OneBefore ==
  ASSUME NEW m, NEW a, NEW p, NEW q, Space(m), p \in m, q \in m, p.end = a, q.end = a
  PROVE  p = q
<1>1. /\ p.start \in Int /\ p.end \in Int /\ p.start < p.end
      /\ q.start \in Int /\ q.end \in Int /\ q.start < q.end
  BY Fields DEF Space
<1> QED
  BY <1>1 DEF Space, Apart

LEMMA OneAfter ==
  ASSUME NEW m, NEW a, NEW p, NEW q, Space(m), p \in m, q \in m, p.start = a, q.start = a
  PROVE  p = q
<1>1. /\ p.start \in Int /\ p.end \in Int /\ p.start < p.end
      /\ q.start \in Int /\ q.end \in Int /\ q.start < q.end
  BY Fields DEF Space
<1> QED
  BY <1>1 DEF Space, Apart

\* The lowest of v and what is merged before it.
LEMMA LowIs ==
  ASSUME NEW m, NEW v, NEW D, NEW low, Space(m), Shaped(v), D \subseteq m,
         \A p \in D : p.end = v.start,
         low = CHOOSE a \in D \cup {v} : \A b \in D \cup {v} : a.start <= b.start
  PROVE  \/ D = {} /\ low = v
         \/ D = {low} /\ low.end = v.start
<1>0. v.start \in Int /\ v.end \in Int
  BY Fields
<1>1. CASE D = {}
  <2>1. \A b \in D \cup {v} : b = v
    BY <1>1
  <2>2. v.start <= v.start
    BY <1>0
  <2>3. v \in D \cup {v} /\ \A b \in D \cup {v} : v.start <= b.start
    BY <2>1, <2>2
  <2>4. low \in D \cup {v}
    BY <2>3, Zenon
  <2> QED
    BY <1>1, <2>1, <2>4
<1>2. CASE D # {}
  <2>1. PICK p \in D : TRUE
    BY <1>2
  <2>2. D = {p}
    BY <2>1, OneBefore
  <2>3. p.start \in Int /\ p.end \in Int /\ p.start < p.end /\ p.end = v.start
    BY <2>1, Fields DEF Space
  <2>4. p \in D \cup {v} /\ \A b \in D \cup {v} : p.start <= b.start
    BY <1>0, <2>2, <2>3
  <2>5. low \in D \cup {v} /\ \A b \in D \cup {v} : low.start <= b.start
    BY <2>4, Zenon
  <2>6. low.start <= p.start
    BY <2>4, <2>5
  <2>7. low = p \/ low = v
    BY <2>2, <2>5
  <2>8. ASSUME low = v PROVE FALSE
    <3>1. v.start <= p.start
      BY <2>6, <2>8, Zenon
    <3> QED
      BY ONLY <1>0, <2>3, <3>1
  <2> QED
    BY <2>2, <2>3, <2>7, <2>8
<1> QED
  BY <1>1, <1>2

LEMMA HighIs ==
  ASSUME NEW m, NEW v, NEW D, NEW high, Space(m), Shaped(v), D \subseteq m,
         \A p \in D : p.start = v.end,
         high = CHOOSE a \in D \cup {v} : \A b \in D \cup {v} : a.start >= b.start
  PROVE  \/ D = {} /\ high = v
         \/ D = {high} /\ high.start = v.end
<1>0. v.start \in Int /\ v.end \in Int /\ v.start < v.end
  BY Fields
<1>1. CASE D = {}
  <2>1. \A b \in D \cup {v} : b = v
    BY <1>1
  <2>2. v.start >= v.start
    BY <1>0
  <2>3. v \in D \cup {v} /\ \A b \in D \cup {v} : v.start >= b.start
    BY <2>1, <2>2
  <2>4. high \in D \cup {v}
    BY <2>3, Zenon
  <2> QED
    BY <1>1, <2>1, <2>4
<1>2. CASE D # {}
  <2>1. PICK p \in D : TRUE
    BY <1>2
  <2>2. D = {p}
    BY <2>1, OneAfter
  <2>3. p.start \in Int /\ p.start = v.end
    BY <2>1, Fields DEF Space
  <2>4. p \in D \cup {v} /\ \A b \in D \cup {v} : p.start >= b.start
    BY <1>0, <2>2, <2>3
  <2>5. high \in D \cup {v} /\ \A b \in D \cup {v} : high.start >= b.start
    BY <2>4, Zenon
  <2>6. high.start >= p.start
    BY <2>4, <2>5
  <2>7. high = p \/ high = v
    BY <2>2, <2>5
  <2>8. ASSUME high = v PROVE FALSE
    BY <1>0, <2>3, <2>6, <2>8
  <2> QED
    BY <2>2, <2>3, <2>7, <2>8
<1> QED
  BY <1>1, <1>2

LEMMA MergedIs ==
  ASSUME NEW low, NEW v, NEW high, NEW u, Shaped(low), high.end \in Int, low.start < high.end,
         u = Merge(low, v, high)
  PROVE  /\ Shaped(u) /\ u.start = low.start /\ u.end = high.end
         /\ u.prot = low.prot /\ u.obj = low.obj
<1>1. PICK s1, e1, prot, o1, av1, fl, obj :
        /\ s1 \in Int
        /\ low = [start |-> s1, end |-> e1, prot |-> prot, pgoff |-> o1, av |-> av1, flags |-> fl, obj |-> obj]
  BY DEF Shaped
<1>2. PICK e, av : e = high.end /\ av = (IF low.av # 0 THEN low.av ELSE IF v.av # 0 THEN v.av ELSE high.av)
  OBVIOUS
<1>3. u = [low EXCEPT !.end = e, !.av = av]
  BY <1>2, Zenon DEF Merge
<1>4. u = [start |-> s1, end |-> e, prot |-> prot, pgoff |-> o1, av |-> av, flags |-> fl, obj |-> obj]
  BY ONLY <1>1, <1>3
<1>5. s1 < e /\ e \in Int
  BY <1>1, <1>2
<1>6. Shaped(u)
  BY <1>1, <1>4, <1>5, Zenon DEF Shaped
<1>7. u.start = low.start /\ u.end = e /\ u.prot = low.prot /\ u.obj = low.obj
  BY ONLY <1>1, <1>4
<1> QED
  BY <1>2, <1>6, <1>7

\* A VMA put where nothing is: it is part of one VMA, and so is everything that was
\* there before.
LEMMA InsertSpace ==
  ASSUME NEW m, NEW v, Space(m), Shaped(v), Overlapping(m, v.start, v.end) = {}
  PROVE  /\ Space(Insert(m, v))
         /\ \E u \in Insert(m, v) : In(v, u)
         /\ \A w \in m : \E u \in Insert(m, v) : In(w, u)
<1>0. PICK D, E, low, high :
        /\ D = {p \in m : Mergeable(p, v)}
        /\ E = {n \in m : Mergeable(v, n) /\ \A p \in D : SameAnon(p, n)}
        /\ low = CHOOSE a \in D \cup {v} : \A b \in D \cup {v} : a.start <= b.start
        /\ high = CHOOSE a \in E \cup {v} : \A b \in E \cup {v} : a.start >= b.start
  OBVIOUS
<1>1. PICK u : u = Merge(low, v, high)
  OBVIOUS
<1>2. Insert(m, v) = (m \ (D \cup E)) \cup {u}
  BY <1>0, <1>1, Zenon DEF Insert
<1>3. /\ D \subseteq m /\ E \subseteq m
      /\ \A p \in D : p.end = v.start /\ p.prot = v.prot /\ p.obj = v.obj
      /\ \A n \in E : n.start = v.end /\ n.prot = v.prot /\ n.obj = v.obj
  BY <1>0 DEF Mergeable, Linear
<1>4. (D = {} /\ low = v) \/ (D = {low} /\ low.end = v.start)
  BY <1>0, <1>3, LowIs
<1>5. (E = {} /\ high = v) \/ (E = {high} /\ high.start = v.end)
  BY <1>0, <1>3, HighIs
<1>6. Shaped(low) /\ Shaped(high) /\ low.prot = v.prot /\ low.obj = v.obj
  BY <1>3, <1>4, <1>5 DEF Space
<1>7. /\ v.start \in Int /\ v.end \in Int /\ v.start < v.end
      /\ low.start \in Int /\ low.end \in Int /\ low.start < low.end
      /\ high.start \in Int /\ high.end \in Int /\ high.start < high.end
  BY <1>6, Fields
<1>8. low.start <= v.start /\ v.end <= high.end /\ low.start < high.end
  BY <1>1, <1>4, <1>5, <1>7
<1>9. Shaped(u) /\ u.start = low.start /\ u.end = high.end /\ u.prot = v.prot /\ u.obj = v.obj
  BY <1>1, <1>6, <1>7, <1>8, MergedIs
<1>10. In(v, u)
  BY <1>8, <1>9 DEF In
<1>11. ASSUME NEW w \in m PROVE \E x \in Insert(m, v) : In(w, x)
  <2>0. w.start \in Int /\ w.end \in Int
    BY Fields DEF Space
  <2>1. CASE w \in D
    <3>1. w = low
      BY <1>4, <2>1
    <3>2. w.prot = v.prot /\ w.obj = v.obj /\ w.end = v.start
      BY <1>3, <2>1
    <3>3. In(w, u)
      BY <1>7, <1>8, <1>9, <3>1, <3>2 DEF In
    <3> QED
      BY <1>2, <3>3
  <2>2. CASE w \in E
    <3>1. w = high
      BY <1>5, <2>2
    <3>2. w.prot = v.prot /\ w.obj = v.obj /\ w.start = v.end
      BY <1>3, <2>2
    <3>3. In(w, u)
      BY <1>7, <1>8, <1>9, <3>1, <3>2 DEF In
    <3> QED
      BY <1>2, <3>3
  <2>3. CASE w \notin D \cup E
    <3>1. In(w, w)
      BY <2>0 DEF In
    <3> QED
      BY <1>2, <2>3, <3>1
  <2> QED
    BY <2>1, <2>2, <2>3
<1>12. ASSUME NEW w \in m \ (D \cup E) PROVE Apart(w, u) /\ Apart(u, w)
  <2>1. Shaped(w) /\ w \in m
    BY DEF Space
  <2>2. w.start \in Int /\ w.end \in Int /\ w.start < w.end
    BY <2>1, Fields
  <2>3. ~(w.start < v.end /\ v.start < w.end)
    BY <2>1 DEF Overlapping
  <2>4. D # {} => w.end <= low.start \/ low.end <= w.start
    <3> SUFFICES ASSUME D # {} PROVE w.end <= low.start \/ low.end <= w.start
      OBVIOUS
    <3>1. low \in m /\ low # w
      BY <1>3, <1>4
    <3> QED
      BY <2>1, <3>1 DEF Space, Apart
  <2>5. E # {} => w.end <= high.start \/ high.end <= w.start
    <3> SUFFICES ASSUME E # {} PROVE w.end <= high.start \/ high.end <= w.start
      OBVIOUS
    <3>1. high \in m /\ high # w
      BY <1>3, <1>5
    <3> QED
      BY <2>1, <3>1 DEF Space, Apart
  <2>6. w.end <= v.start => w.end <= low.start
    BY <1>4, <1>7, <2>2, <2>4
  <2>7. v.end <= w.start => high.end <= w.start
    BY <1>5, <1>7, <2>2, <2>5
  <2>8. w.end <= v.start \/ v.end <= w.start
    BY <1>7, <2>2, <2>3
  <2> QED
    BY <1>9, <2>6, <2>7, <2>8 DEF Apart
<1>13. Space(Insert(m, v))
  <2>1. \A x \in Insert(m, v) : Shaped(x)
    BY <1>2, <1>9 DEF Space
  <2>2. ASSUME NEW x \in Insert(m, v), NEW y \in Insert(m, v), x # y PROVE Apart(x, y)
    <3>1. CASE x = u
      BY <1>2, <1>12, <2>2, <3>1
    <3>2. CASE x # u /\ y = u
      BY <1>2, <1>12, <3>2
    <3>3. CASE x # u /\ y # u
      <4>1. x \in m /\ y \in m
        BY <1>2, <3>3
      <4> QED
        BY <2>2, <4>1 DEF Space
    <3> QED
      BY <3>1, <3>2, <3>3
  <2> QED
    BY <2>1, <2>2 DEF Space
<1> QED
  BY <1>2, <1>10, <1>11, <1>13

LEMMA InTrans ==
  ASSUME NEW l, NEW w, NEW u, Shaped(l), Shaped(w), Shaped(u), In(l, w), In(w, u)
  PROVE  In(l, u)
<1>1. /\ l.start \in Int /\ l.end \in Int /\ w.start \in Int /\ w.end \in Int
      /\ u.start \in Int /\ u.end \in Int
  BY Fields
<1> QED
  BY <1>1 DEF In

\* A VMA put in the place of what is there.
LEMMA PutSpace ==
  ASSUME NEW m, NEW s, NEW e, NEW c, NEW n, Space(m), Shaped(c), c.start = s, c.end = e,
         n = Insert(Unmap(m, s, e), c)
  PROVE  Space(n) /\ \E u \in n : In(c, u)
<1>1. s \in Int /\ e \in Int /\ s < e
  BY Fields
<1>2. PICK k : k = Unmap(m, s, e)
  OBVIOUS
<1>3. Space(k) /\ Overlapping(k, c.start, c.end) = {}
  BY <1>1, <1>2, UnmapSpace
<1>4. n = Insert(k, c)
  BY <1>2
<1> QED
  BY <1>3, <1>4, InsertSpace

\* Other mappings stay, alone or as a part of a larger one.
LEMMA PutKeeps ==
  ASSUME NEW m, NEW s, NEW e, NEW c, NEW n, NEW l, NEW u, Space(m), Shaped(c), c.start = s,
         c.end = e, n = Insert(Unmap(m, s, e), c), Shaped(l), u \in m, In(l, u),
         l.end <= s \/ e <= l.start
  PROVE  \E w \in n : In(l, w)
<1>1. s \in Int /\ e \in Int /\ s < e
  BY Fields
<1>2. PICK k : k = Unmap(m, s, e)
  OBVIOUS
<1>3. Space(k) /\ Overlapping(k, c.start, c.end) = {}
  BY <1>1, <1>2, UnmapSpace
<1>4. n = Insert(k, c)
  BY <1>2
<1>5. PICK w \in k : In(l, w)
  BY <1>1, <1>2, UnmapKeeps
<1>6. Space(n) /\ \E x \in n : In(w, x)
  BY <1>3, <1>4, InsertSpace
<1>7. PICK x \in n : In(w, x)
  BY <1>6
<1>8. Shaped(w) /\ Shaped(x)
  BY <1>3, <1>6 DEF Space
<1>9. In(l, x)
  BY <1>5, <1>7, <1>8, InTrans
<1> QED
  BY <1>9

\* A VMA changed where it stands.
LEMMA ReplaceSpace ==
  ASSUME NEW m, NEW v, NEW x, NEW n, Space(m), v \in m, Shaped(x), x.start = v.start, x.end = v.end,
         n = (m \ {v}) \cup {x}
  PROVE  Space(n)
<1>1. \A u \in n : Shaped(u)
  BY DEF Space
<1>2. ASSUME NEW u \in n, NEW w \in n, u # w PROVE Apart(u, w)
  <2>1. CASE u = x
    <3>1. w \in m /\ w # v
      BY <1>2, <2>1
    <3>2. Apart(v, w)
      BY <3>1 DEF Space
    <3> QED
      BY <2>1, <3>2 DEF Apart
  <2>2. CASE u # x /\ w = x
    <3>1. u \in m /\ u # v
      BY <2>2
    <3>2. Apart(u, v)
      BY <3>1 DEF Space
    <3> QED
      BY <2>2, <3>2 DEF Apart
  <2>3. CASE u # x /\ w # x
    BY <1>2, <2>3 DEF Space
  <2> QED
    BY <2>1, <2>2, <2>3
<1> QED
  BY <1>1, <1>2 DEF Space

\* A VMA at another place, with another anon_vma.
Moved(c, s, e, o, a) == [c EXCEPT !.start = s, !.end = e, !.pgoff = o, !.av = a]

LEMMA MovedIs ==
  ASSUME NEW c, NEW s, NEW e, NEW o, NEW a, NEW u, Shaped(c), s \in Int, e \in Int, s < e,
         u = Moved(c, s, e, o, a)
  PROVE  Shaped(u) /\ u.start = s /\ u.end = e /\ u.prot = c.prot /\ u.obj = c.obj
<1>1. PICK prot, av, fl, obj, s1, e1, o1 :
        c = [start |-> s1, end |-> e1, prot |-> prot, pgoff |-> o1, av |-> av, flags |-> fl, obj |-> obj]
  BY DEF Shaped
<1>2. u = [start |-> s, end |-> e, prot |-> prot, pgoff |-> o, av |-> a, flags |-> fl, obj |-> obj]
  BY <1>1 DEF Moved
<1>3. Shaped(u)
  BY <1>2, Zenon DEF Shaped
<1>4. u.start = s /\ u.end = e /\ u.prot = c.prot /\ u.obj = c.obj
  BY ONLY <1>1, <1>2
<1> QED
  BY <1>3, <1>4

Anchored(v, a) == [v EXCEPT !.av = a]

LEMMA AnchoredIs ==
  ASSUME NEW v, NEW a, NEW u, Shaped(v), u = Anchored(v, a)
  PROVE  Shaped(u) /\ u.start = v.start /\ u.end = v.end
<1>1. PICK prot, av, fl, obj, s1, e1, o1 :
        /\ s1 \in Int /\ e1 \in Int /\ s1 < e1
        /\ v = [start |-> s1, end |-> e1, prot |-> prot, pgoff |-> o1, av |-> av, flags |-> fl, obj |-> obj]
  BY DEF Shaped
<1>2. u = [start |-> s1, end |-> e1, prot |-> prot, pgoff |-> o1, av |-> a, flags |-> fl, obj |-> obj]
  BY <1>1 DEF Anchored
<1>3. Shaped(u)
  <2>1. s1 \in Int /\ e1 \in Int /\ s1 < e1
    BY <1>1
  <2> QED
    BY <1>2, <2>1, Zenon DEF Shaped
<1>4. u.start = v.start /\ u.end = v.end
  BY ONLY <1>1, <1>2
<1> QED
  BY <1>3, <1>4

LEMMA ChangeIs ==
  ASSUME NEW v, NEW prot, NEW set, NEW clear, NEW u, Shaped(v), u = Change(v, prot, set, clear)
  PROVE  Shaped(u) /\ u.start = v.start /\ u.end = v.end
<1>1. PICK pr, av, fl, obj, s1, e1, o1 :
        /\ s1 \in Int /\ e1 \in Int /\ s1 < e1
        /\ v = [start |-> s1, end |-> e1, prot |-> pr, pgoff |-> o1, av |-> av, flags |-> fl, obj |-> obj]
  BY DEF Shaped
<1>2. PICK p, f : p = (IF prot = KEEP THEN v.prot ELSE prot) /\ f = (v.flags \cup set) \ clear
  OBVIOUS
<1>3. u = [v EXCEPT !.prot = p, !.flags = f]
  BY <1>2, Zenon DEF Change
<1>4. u = [start |-> s1, end |-> e1, prot |-> p, pgoff |-> o1, av |-> av, flags |-> f, obj |-> obj]
  BY ONLY <1>1, <1>3
<1>5. Shaped(u)
  BY <1>1, <1>4, Zenon DEF Shaped
<1>6. u.start = v.start /\ u.end = v.end
  BY ONLY <1>1, <1>4
<1> QED
  BY <1>5, <1>6

-----------------------------------------------------------------------------
(* The system calls *)

LEMMA FaultSpace ==
  ASSUME NEW m, NEW p, Space(m), \E v \in m : v.start <= p /\ p < v.end
  PROVE  Space(Fault(m, p))
<1>1. PICK v : v = At(m, p)
  OBVIOUS
<1>2. v \in m
  BY <1>1, Zenon DEF At
<1>3. PICK a : \/ Fault(m, p) = m
               \/ Fault(m, p) = (m \ {v}) \cup {Anchored(v, a)}
  BY <1>1, Zenon DEF Fault, Anchored
<1>4. PICK x : x = Anchored(v, a)
  OBVIOUS
<1>5. Shaped(x) /\ x.start = v.start /\ x.end = v.end
  BY <1>2, <1>4, AnchoredIs DEF Space
<1>6. Space((m \ {v}) \cup {x})
  BY <1>2, <1>5, ReplaceSpace
<1> QED
  BY <1>3, <1>4, <1>6

LEMMA VmaIs ==
  ASSUME NEW s, NEW e, NEW prot, NEW flags, NEW obj, s \in Int, e \in Int, s < e
  PROVE  /\ Shaped(Vma(s, e, prot, flags, obj))
         /\ Vma(s, e, prot, flags, obj).start = s /\ Vma(s, e, prot, flags, obj).end = e
         /\ Vma(s, e, prot, flags, obj).prot = prot /\ Vma(s, e, prot, flags, obj).obj = obj
<1>1. PICK o, u : /\ o = (IF obj = 0 THEN s ELSE 0)
                  /\ u = [start |-> s, end |-> e, prot |-> prot, pgoff |-> o, av |-> 0, flags |-> flags, obj |-> obj]
  OBVIOUS
<1>2. Vma(s, e, prot, flags, obj) = u
  BY <1>1, Zenon DEF Vma
<1>3. Shaped(u)
  BY <1>1, Zenon DEF Shaped
<1>4. u.start = s /\ u.end = e /\ u.prot = prot /\ u.obj = obj
  BY ONLY <1>1
<1> QED
  BY <1>2, <1>3, <1>4

LEMMA MmapSpace ==
  ASSUME NEW m, NEW s, NEW n, NEW prot, NEW flags, NEW obj, NEW new,
         Space(m), s \in Int, n \in Nat \ {0}, new = Mmap(m, s, n, prot, flags, obj)
  PROVE  Space(new) /\ \E u \in new : u.start <= s /\ s < u.end
<1>1. PICK e, c : e = s + n /\ c = Vma(s, e, prot, flags, obj)
  OBVIOUS
<1>2. e \in Int /\ s < e
  BY <1>1
<1>3. Shaped(c) /\ c.start = s /\ c.end = e
  BY <1>1, <1>2, VmaIs
<1>4. new = Insert(Unmap(m, s, e), c)
  BY <1>1, Zenon DEF Mmap
<1>5. Space(new) /\ \E u \in new : In(c, u)
  BY <1>3, <1>4, PutSpace
<1>6. PICK u \in new : In(c, u)
  BY <1>5
<1>7. u.start \in Int /\ u.end \in Int
  BY <1>5, Fields DEF Space
<1>8. u.start <= s /\ s < u.end
  BY <1>2, <1>3, <1>6, <1>7 DEF In
<1> QED
  BY <1>5, <1>8

LEMMA GrowSpace ==
  ASSUME NEW m, NEW s, NEW n, NEW k, Space(m), s \in Int, n \in Nat \ {0}, k \in Nat, k > n,
         \E v \in m : v.start <= s /\ s + n <= v.end, Overlapping(m, s + n, s + k) = {}
  PROVE  Space(Grow(m, s, n, k))
<1>1. PICK v, a, b, o, u : /\ v = At(m, s) /\ a = s + n /\ b = s + k /\ o = v.pgoff + s + n - v.start
                           /\ u = Sized(v, a, b, o)
  OBVIOUS
<1>2. \E w \in m : w.start <= s /\ s < w.end
  <2>1. PICK w \in m : w.start <= s /\ s + n <= w.end
    OBVIOUS
  <2>2. w.start \in Int /\ w.end \in Int
    BY Fields DEF Space
  <2> QED
    BY <2>1, <2>2
<1>3. v \in m
  BY <1>1, <1>2, Zenon DEF At
<1>4. a \in Int /\ b \in Int /\ a < b
  BY <1>1
<1>5. Shaped(u) /\ u.start = a /\ u.end = b
  BY <1>1, <1>3, <1>4, Resized DEF Space
<1>6. Grow(m, s, n, k) = Insert(m, u)
  BY <1>1, Zenon DEF Grow, Sized
<1>7. Overlapping(m, u.start, u.end) = {}
  BY <1>1, <1>5
<1> QED
  BY <1>5, <1>6, <1>7, InsertSpace

LEMMA MoveSpace ==
  ASSUME NEW m, NEW s, NEW n, NEW to, NEW dont, NEW rel, Space(m), s \in Int, n \in Nat \ {0},
         to \in Int, \E v \in m : v.start <= s /\ s + n <= v.end
  PROVE  Space(Move(m, s, n, to, dont, rel))
<1>1. PICK v, e, te, c : v = At(m, s) /\ e = s + n /\ te = to + n /\ c = Clip(v, s, e)
  OBVIOUS
<1>2. e \in Int /\ te \in Int /\ s < e /\ to < te
  BY <1>1
<1>3. \E w \in m : w.start <= s /\ s < w.end
  <2>1. PICK w \in m : w.start <= s /\ s + n <= w.end
    OBVIOUS
  <2>2. w.start \in Int /\ w.end \in Int
    BY Fields DEF Space
  <2> QED
    BY <2>1, <2>2
<1>4. v \in m /\ v.start <= s /\ s < v.end
  BY <1>1, <1>3, Zenon DEF At
<1>5. Shaped(v) /\ v.start < e
  BY <1>2, <1>4, Fields DEF Space
<1>6. Shaped(c)
  BY <1>1, <1>2, <1>4, <1>5, ClipIs
<1>7. PICK fresh, o, a, moved :
        /\ fresh = (v.obj = 0 /\ (v.av = 0 \/ rel))
        /\ o = (IF fresh THEN to ELSE c.pgoff) /\ a = (IF fresh THEN 0 ELSE c.av)
        /\ moved = Moved(c, to, te, o, a)
  OBVIOUS
<1>8. Shaped(moved) /\ moved.start = to /\ moved.end = te
  BY <1>2, <1>6, <1>7, MovedIs
<1>9. PICK placed, x : placed = Insert(Unmap(m, to, te), moved) /\ x = Fault(placed, to)
  OBVIOUS
<1>10. Space(placed) /\ \E u \in placed : In(moved, u)
  BY <1>8, <1>9, PutSpace
<1>11. \E u \in placed : u.start <= to /\ to < u.end
  <2>1. PICK u \in placed : In(moved, u)
    BY <1>10
  <2>2. u.start \in Int /\ u.end \in Int
    BY <1>10, Fields DEF Space
  <2> QED
    BY <1>2, <1>8, <2>1, <2>2 DEF In
<1>12. Space(x)
  BY <1>9, <1>10, <1>11, FaultSpace
<1>13. PICK y : y = (IF fresh /\ v.av # 0 THEN x ELSE placed)
  OBVIOUS
<1>14. Space(y)
  BY <1>10, <1>12, <1>13, Zenon
<1>15. PICK z : z = {IF u = v THEN Anchored(u, 0) ELSE u : u \in y}
  OBVIOUS
<1>16. Space(z)
  <2>1. CASE v \in y
    <3>1. z = (y \ {v}) \cup {Anchored(v, 0)}
      BY <1>15, <2>1
    <3>2. PICK w : w = Anchored(v, 0)
      OBVIOUS
    <3>3. Shaped(w) /\ w.start = v.start /\ w.end = v.end
      BY <1>5, <3>2, AnchoredIs
    <3> QED
      BY <1>14, <2>1, <3>1, <3>2, <3>3, ReplaceSpace
  <2>2. CASE v \notin y
    <3>1. z = y
      BY <1>15, <2>2
    <3> QED
      BY <1>14, <3>1
  <2> QED
    BY <2>1, <2>2
<1>17. Space(Unmap(y, s, e))
  BY <1>2, <1>14, UnmapSpace
<1>18. Move(m, s, n, to, dont, rel) \in {Unmap(y, s, e), z, y}
  <2> DEFINE V == At(m, s)
             Fr == V.obj = 0 /\ (V.av = 0 \/ rel)
             M == [Clip(V, s, s + n) EXCEPT !.start = to, !.end = to + n,
                     !.pgoff = IF Fr THEN to ELSE @, !.av = IF Fr THEN 0 ELSE @]
             L == Insert(Unmap(m, to, to + n), M)
             A == IF Fr /\ V.av # 0 THEN Fault(L, to) ELSE L
             Z == {IF u = V THEN [u EXCEPT !.av = 0] ELSE u : u \in A}
  <2>1. Move(m, s, n, to, dont, rel) =
          IF ~dont THEN Unmap(A, s, s + n) ELSE IF s = V.start /\ s + n = V.end THEN Z ELSE A
    BY DEF Move
  <2>2. V = v /\ Fr = fresh
    BY <1>1, <1>7, Zenon
  <2>3. M = moved
    BY <1>1, <1>7, <2>2, Zenon DEF Moved
  <2>4. L = placed
    BY <1>1, <1>9, <2>3, Zenon
  <2> HIDE DEF L, M, Fr, V
  <2>5. A = y
    BY <1>9, <1>13, <2>2, <2>4, Zenon
  <2> HIDE DEF A
  <2>6. Z = z
    BY <1>15, <2>2, <2>5, Zenon DEF Anchored
  <2> HIDE DEF Z
  <2> QED
    BY <1>1, <2>1, <2>5, <2>6, Zenon
<1> QED
  BY <1>14, <1>16, <1>17, <1>18

\* Where mmap(NULL) puts a mapping, nothing is.
LEMMA GapIs ==
  ASSUME NEW m, NEW n, n \in Nat, Free(m, n) # {}
  PROVE  Gap(m, n) \in Int /\ Overlapping(m, Gap(m, n), Gap(m, n) + n) = {}
<1>1. PICK F : F = Free(m, n)
  OBVIOUS
<1>2. \A t \in F : t \in 0 .. TOP - n /\ Overlapping(m, t, t + n) = {}
  BY <1>1 DEF Free
<1>3. PICK Below : Below = {TOP - n - t : t \in F}
  OBVIOUS
<1>4. Below \in SUBSET Nat /\ Below # {}
  BY <1>1, <1>2, <1>3, TopAssumption
<1>5. PICK x \in Below : \A y \in Below : x <= y
  BY <1>4, Least
<1>6. PICK g \in F : x = TOP - n - g
  BY <1>3, <1>5
<1>7. ASSUME NEW t \in F PROVE t <= g
  <2>1. x <= TOP - n - t
    BY <1>3, <1>5
  <2>2. t \in Int /\ g \in Int /\ TOP \in Int /\ n \in Int
    BY <1>2, TopAssumption
  <2> QED
    BY <1>6, <2>1, <2>2
<1>8. Gap(m, n) \in F
  BY <1>1, <1>7, Zenon DEF Gap
<1> QED
  BY <1>2, <1>8

-----------------------------------------------------------------------------
(* mprotect(), mlock(): the VMAs of a range one after the other *)

\* The VMA to change that begins, clipped to the range, at p.
Hit(m, s, e, prot, set, clear, p) ==
  {v \in Overlapping(m, s, e) : Clip(v, s, e).start = p /\ Change(v, prot, set, clear) # v}

\* One step of the loop, from the address space k.
ModifyOne(k, m, s, e, prot, set, clear, p) ==
  IF Hit(m, s, e, prot, set, clear, p) = {} THEN k
  ELSE LET c == Clip(CHOOSE v \in Hit(m, s, e, prot, set, clear, p) : TRUE, s, e)
       IN  Insert(Unmap(k, c.start, c.end), Change(c, prot, set, clear))

ModifyLoop(f, m, s, e, prot, set, clear, b) ==
  f = [p \in s .. b |-> IF p = s THEN m ELSE ModifyOne(f[p - 1], m, s, e, prot, set, clear, p - 1)]

LEMMA ModifyOneSpace ==
  ASSUME NEW k, NEW m, NEW s, NEW e, NEW prot, NEW set, NEW clear, NEW p, Space(k), Space(m),
         s \in Int, e \in Int, s < e
  PROVE  Space(ModifyOne(k, m, s, e, prot, set, clear, p))
<1>1. PICK H : H = Hit(m, s, e, prot, set, clear, p)
  OBVIOUS
<1>2. CASE H = {}
  BY <1>1, <1>2 DEF ModifyOne
<1>3. CASE H # {}
  <2>1. PICK v : v = CHOOSE w \in H : TRUE
    OBVIOUS
  <2>2. v \in H
    BY <1>3, <2>1, Zenon
  <2>3. v \in m /\ v.start < e /\ s < v.end
    BY <1>1, <2>2 DEF Hit, Overlapping
  <2>4. PICK c, x, n : c = Clip(v, s, e) /\ x = Change(c, prot, set, clear)
                       /\ n = Insert(Unmap(k, c.start, c.end), x)
    OBVIOUS
  <2>5. Shaped(v)
    BY <2>3 DEF Space
  <2>6. Shaped(c)
    BY <2>3, <2>4, <2>5, ClipIs
  <2>7. Shaped(x) /\ x.start = c.start /\ x.end = c.end
    BY <2>4, <2>6, ChangeIs
  <2>8. PICK a, b : a = c.start /\ b = c.end
    OBVIOUS
  <2>9. n = Insert(Unmap(k, a, b), x) /\ x.start = a /\ x.end = b
    BY <2>4, <2>7, <2>8
  <2>10. Space(n)
    BY <2>7, <2>9, PutSpace
  <2>11. ModifyOne(k, m, s, e, prot, set, clear, p) = n
    BY <1>1, <1>3, <2>1, <2>4, Zenon DEF ModifyOne
  <2> QED
    BY <2>10, <2>11
<1> QED
  BY <1>2, <1>3

\* The loop's recursion has a solution, and every address space on the way is one.
LEMMA ModifyLoopExists ==
  ASSUME NEW m, NEW s, NEW e, NEW prot, NEW set, NEW clear, NEW b \in Nat, Space(m),
         s \in Int, e \in Int, s < e
  PROVE  \E f : ModifyLoop(f, m, s, e, prot, set, clear, s + b)
<1> DEFINE Loop(f, n) == ModifyLoop(f, m, s, e, prot, set, clear, s + n)
           One(k, p) == ModifyOne(k, m, s, e, prot, set, clear, p)
           N == {n \in Nat : \E f : Loop(f, n)}
           step(h, p) == IF p = s THEN m ELSE One(h[p - 1], p - 1)
<1>1. 0 \in N
  <2> DEFINE f == [p \in s .. s + 0 |-> m]
  <2>1. \A p \in s .. s + 0 : p = s
    OBVIOUS
  <2>2. f = [p \in s .. s + 0 |-> step(f, p)]
    BY <2>1
  <2>3. Loop(f, 0)
    BY <2>2, Zenon DEF ModifyLoop
  <2> QED
    BY <2>3
<1>2. ASSUME NEW n \in Nat, n \in N PROVE n + 1 \in N
  <2>1. PICK f : Loop(f, n)
    BY <1>2
  <2>2. f = [p \in s .. s + n |-> step(f, p)]
    BY <2>1, Zenon DEF ModifyLoop
  <2> HIDE DEF One
  <2> DEFINE last == One(f[s + n], s + n)
             g == [p \in s .. s + (n + 1) |-> IF p = s + (n + 1) THEN last ELSE f[p]]
  <2>3. ASSUME NEW p \in s .. s + (n + 1) PROVE g[p] = step(g, p)
    <3>1. CASE p = s + (n + 1)
      <4>1. p - 1 \in s .. s + (n + 1) /\ p - 1 # s + (n + 1) /\ p - 1 = s + n /\ p # s
        BY <3>1
      <4>2. g[p - 1] = f[s + n]
        BY <4>1
      <4>3. g[p] = last
        BY <3>1
      <4> HIDE DEF g
      <4> QED
        BY <3>1, <4>1, <4>2, <4>3
    <3>2. CASE p # s + (n + 1)
      <4>1. p \in s .. s + n /\ (p # s => p - 1 \in s .. s + (n + 1) /\ p - 1 # s + (n + 1))
        BY <3>2
      <4>2. g[p] = f[p] /\ (p # s => g[p - 1] = f[p - 1])
        BY <3>2, <4>1
      <4>3. f[p] = step(f, p)
        BY <2>2, <4>1
      <4> HIDE DEF g
      <4> QED
        BY <4>2, <4>3, Zenon
    <3> QED
      BY <3>1, <3>2
  <2>4. g = [p \in s .. s + (n + 1) |-> g[p]]
    OBVIOUS
  <2> HIDE DEF g
  <2>5. g = [p \in s .. s + (n + 1) |-> step(g, p)]
    BY <2>3, <2>4
  <2>6. Loop(g, n + 1)
    BY <2>5, Zenon DEF ModifyLoop, One
  <2> QED
    BY <2>6
<1> HIDE DEF N
<1>3. Nat \subseteq N
  BY <1>1, <1>2, Induction
<1> QED
  BY <1>3 DEF N

LEMMA ModifySpace ==
  ASSUME NEW m, NEW s, NEW e, NEW prot, NEW set, NEW clear, Space(m), s \in Int, e \in Int, s < e
  PROVE  Space(Modify(m, s, e, prot, set, clear))
<1> DEFINE One(k, p) == ModifyOne(k, m, s, e, prot, set, clear, p)
<1>1. PICK f : f = CHOOSE g : ModifyLoop(g, m, s, e, prot, set, clear, e)
  OBVIOUS
<1>2. ModifyLoop(f, m, s, e, prot, set, clear, e)
  <2>1. PICK b \in Nat : s + b = e
    <3>1. e - s \in Nat /\ s + (e - s) = e
      OBVIOUS
    <3> QED
      BY <3>1
  <2>2. \E g : ModifyLoop(g, m, s, e, prot, set, clear, e)
    BY <2>1, ModifyLoopExists
  <2> QED
    BY <1>1, <2>2, Zenon
<1>3. Modify(m, s, e, prot, set, clear) = f[e]
  BY <1>1, Zenon DEF Modify, ModifyLoop, ModifyOne, Hit
<1>4. f = [p \in s .. e |-> IF p = s THEN m ELSE One(f[p - 1], p - 1)]
  BY <1>2, Zenon DEF ModifyLoop
<1>5. \A k, p : Space(k) => Space(One(k, p))
  BY ModifyOneSpace
<1> HIDE DEF One
<1> DEFINE N == {n \in Nat : s + n <= e => Space(f[s + n])}
<1>6. 0 \in N
  <2>1. f[s] = m /\ s + 0 = s
    BY <1>4
  <2> QED
    BY <2>1
<1>7. ASSUME NEW n \in Nat, n \in N PROVE n + 1 \in N
  <2> SUFFICES ASSUME s + (n + 1) <= e PROVE Space(f[s + (n + 1)])
    OBVIOUS
  <2>1. PICK p : p = s + (n + 1)
    OBVIOUS
  <2>2. p \in s .. e /\ p # s /\ p - 1 = s + n /\ s + n <= e
    BY <2>1
  <2>3. Space(f[p - 1])
    BY <1>7, <2>2
  <2>4. f[p] = One(f[p - 1], p - 1)
    BY <1>4, <2>2
  <2> QED
    BY <1>5, <2>1, <2>3, <2>4
<1> HIDE DEF N
<1>8. Nat \subseteq N
  BY <1>6, <1>7, Induction
<1>9. e - s \in N /\ s + (e - s) = e /\ e <= e
  BY <1>8
<1> QED
  BY <1>3, <1>9 DEF N

-----------------------------------------------------------------------------
(* The programs *)

\* The pointers are addresses and the address space is one.
SpaceInv ==
  /\ prog \in Programs /\ pc \in 1 .. Len(main[prog]) + 1
  /\ status \in {"running", "done", "failed", "killed"}
  /\ reg \in [Registers -> Int]
  /\ Space(mm)

LEMMA LibrarySpace == Space(Library) /\ \A l \in Library : Shaped(l)
<1>1. PICK a, b, c : a = TOP - 20 /\ b = TOP - 10 /\ c = TOP - 4
  OBVIOUS
<1>2. a \in Int /\ b \in Int /\ c \in Int /\ a < b /\ b < c
  BY <1>1, TopAssumption
<1>3. PICK u, v : u = Vma(a, b, "r", {}, 1) /\ v = Vma(b, c, "w", {"noreserve"}, 0)
  OBVIOUS
<1>4. Shaped(u) /\ u.start = a /\ u.end = b /\ Shaped(v) /\ v.start = b /\ v.end = c
  BY <1>2, <1>3, VmaIs
<1>5. Library = {u, v}
  BY <1>1, <1>3, Zenon DEF Library
<1>6. Apart(u, v) /\ Apart(v, u)
  BY <1>2, <1>4 DEF Apart
<1> QED
  BY <1>4, <1>5, <1>6 DEF Space

LEMMA SpaceInit == Init => SpaceInv
<1> SUFFICES ASSUME Init PROVE SpaceInv
  OBVIOUS
<1>1. prog \in Programs /\ pc = 1 /\ mm = Library /\ status = "running"
      /\ reg = [r \in Registers |-> IF r = "TARGET_PTR" THEN TARGET_PTR ELSE 0]
  BY DEF Init
<1>2. reg \in [Registers -> Int]
  BY <1>1 DEF TARGET_PTR
<1>3. Len(main[prog]) \in Nat
  BY <1>1, ProgramsAssumption
<1>4. pc \in 1 .. Len(main[prog]) + 1
  BY <1>1, <1>3
<1> QED
  BY <1>1, <1>2, <1>4, LibrarySpace DEF SpaceInv

\* The step a program is at is a call.
LEMMA AtCall ==
  ASSUME SpaceInv, NEW op, Ready(op)
  PROVE  /\ Call(Step) /\ Step.op = op /\ From \in Int /\ To \in Int /\ From < To /\ To = From + Step.n
         /\ Step.n \in Nat \ {0} /\ pc + 1 \in 1 .. Len(main[prog]) + 1 /\ status = "running"
<1>1. pc <= Len(main[prog]) /\ pc \in 1 .. Len(main[prog]) + 1 /\ prog \in Programs /\ reg \in [Registers -> Int]
      /\ status = "running"
  BY DEF Ready, SpaceInv
<1>2. /\ Len(main[prog]) \in Nat /\ DOMAIN main[prog] = 1 .. Len(main[prog])
      /\ \A i \in DOMAIN main[prog] : Call(main[prog][i])
  BY <1>1, ProgramsAssumption
<1>3. PICK k : k = Len(main[prog])
  OBVIOUS
<1>4. pc \in 1 .. k /\ pc + 1 \in 1 .. k + 1
  BY <1>1, <1>2, <1>3
<1>5. Call(Step)
  BY <1>2, <1>3, <1>4 DEF Step
<1>6. Step.op = op
  BY DEF Ready, Step
<1>7. Place(Step.at) /\ Step.n \in Nat \ {0}
  BY <1>5 DEF Call
<1>8. PICK r, o : r = Step.at[1] /\ o = Step.at[2]
  OBVIOUS
<1>9. r \in Registers /\ o \in Int
  BY <1>7, <1>8 DEF Place
<1>10. From = reg[r] + o
  BY <1>8 DEF From, Addr
<1>11. From \in Int
  BY <1>1, <1>9, <1>10
<1>12. To = From + Step.n
  BY DEF To
<1>13. To \in Int /\ From < To
  BY <1>7, <1>11, <1>12
<1> QED
  BY <1>1, <1>3, <1>4, <1>5, <1>6, <1>7, <1>11, <1>12, <1>13

\* A call that went through.
LEMMA DoneInv ==
  ASSUME SpaceInv, NEW op, Ready(op), NEW next, Space(next), Done(next), reg' \in [Registers -> Int]
  PROVE  SpaceInv'
<1>1. mm' = next /\ pc' = pc + 1 /\ prog' = prog /\ status' = status
  BY DEF Done
<1>2. pc + 1 \in 1 .. Len(main[prog]) + 1
  BY AtCall
<1>3. pc' \in 1 .. Len(main[prog']) + 1
  BY <1>1, <1>2
<1> QED
  BY <1>1, <1>3 DEF SpaceInv

\* A call that ended the program.
LEMMA ExitInv ==
  ASSUME SpaceInv, NEW why, why \in {"failed", "killed"}, Space(mm'), Exit(why)
  PROVE  SpaceInv'
<1>1. status' = why /\ prog' = prog /\ pc' = pc /\ reg' = reg
  BY DEF Exit
<1> QED
  BY <1>1 DEF SpaceInv

LEMMA MmapInv == SpaceInv /\ do_mmap => SpaceInv'
<1> SUFFICES ASSUME SpaceInv, do_mmap PROVE SpaceInv'
  OBVIOUS
<1>1. Ready("mmap") /\ Free(mm, Step.n) # {}
  BY DEF do_mmap, Room
<1>2. /\ Call(Step) /\ Step.op = "mmap" /\ From \in Int /\ Step.n \in Nat \ {0}
  BY <1>1, AtCall
<1>3. Step.r \in Registers
  BY <1>2 DEF Call
<1>4. Gap(mm, Step.n) \in Int
  BY <1>1, <1>2, GapIs
<1>5. PICK s, obj, prot, fl, new :
        /\ s = (IF "fixed" \in Step.flags \/ (Step.at # NULL /\ Overlapping(mm, From, To) = {})
                THEN From ELSE Gap(mm, Step.n))
        /\ new = Mmap(mm, s, Step.n, prot, fl, obj)
        /\ Done(IF "populate" \in Step.flags THEN Fault(new, s) ELSE new)
        /\ reg' = [reg EXCEPT ![Step.r] = s]
  BY Zenon DEF do_mmap
<1>6. s \in Int
  BY <1>2, <1>4, <1>5, Zenon
<1>7. Space(mm) /\ reg \in [Registers -> Int]
  BY DEF SpaceInv
<1>8. PICK n : n = Step.n
  OBVIOUS
<1>9. Space(new) /\ \E u \in new : u.start <= s /\ s < u.end
  BY <1>2, <1>5, <1>6, <1>7, <1>8, MmapSpace
<1>10. Space(Fault(new, s))
  BY <1>9, FaultSpace
<1>11. reg' \in [Registers -> Int]
  BY <1>3, <1>5, <1>6, <1>7
<1>12. PICK k : k = (IF "populate" \in Step.flags THEN Fault(new, s) ELSE new)
  OBVIOUS
<1>13. Space(k) /\ Done(k)
  BY <1>5, <1>9, <1>10, <1>12, Zenon
<1> QED
  BY <1>1, <1>11, <1>13, DoneInv

LEMMA MremapInv == SpaceInv /\ do_mremap => SpaceInv'
<1> SUFFICES ASSUME SpaceInv, do_mremap PROVE SpaceInv'
  OBVIOUS
<1>1. Ready("mremap") /\ Free(mm, Step.n) # {}
  BY DEF do_mremap, Room
<1>2. /\ Call(Step) /\ Step.op = "mremap" /\ From \in Int /\ Step.n \in Nat \ {0} /\ To = From + Step.n
  BY <1>1, AtCall
<1>3. Step.r \in Registers /\ Place(Step.to) /\ Step.m \in Nat
  BY <1>2 DEF Call
<1>4. Gap(mm, Step.n) \in Int
  BY <1>1, <1>2, GapIs
<1>5. Space(mm) /\ reg \in [Registers -> Int]
  BY DEF SpaceInv
<1>6. Addr(Step.to) \in Int
  <2>1. PICK r, o : r = Step.to[1] /\ o = Step.to[2]
    OBVIOUS
  <2>2. r \in Registers /\ o \in Int
    BY <1>3, <2>1 DEF Place
  <2>3. Addr(Step.to) = reg[r] + o
    BY <2>1 DEF Addr
  <2> QED
    BY <1>5, <2>2, <2>3
<1>7. PICK to, dont, rel :
        \/ /\ \E v \in mm : v.start <= From /\ To <= v.end
           /\ Step.m > Step.n => Overlapping(mm, To, From + Step.m) = {}
           /\ to = (IF Step.to = NULL THEN Gap(mm, Step.n) ELSE Addr(Step.to))
           /\ Done(IF Step.m > Step.n THEN Grow(mm, From, Step.n, Step.m) ELSE Move(mm, From, Step.n, to, dont, rel))
           /\ reg' = [reg EXCEPT ![Step.r] = to]
        \/ mm' = mm /\ Exit("failed")
  BY Zenon DEF do_mremap
<1>8. CASE mm' = mm /\ Exit("failed")
  BY <1>5, <1>8, ExitInv
<1>9. CASE /\ \E v \in mm : v.start <= From /\ To <= v.end
           /\ Step.m > Step.n => Overlapping(mm, To, From + Step.m) = {}
           /\ to = (IF Step.to = NULL THEN Gap(mm, Step.n) ELSE Addr(Step.to))
           /\ Done(IF Step.m > Step.n THEN Grow(mm, From, Step.n, Step.m) ELSE Move(mm, From, Step.n, to, dont, rel))
           /\ reg' = [reg EXCEPT ![Step.r] = to]
  <2>1. to \in Int
    BY <1>4, <1>6, <1>9, Zenon
  <2>2. reg' \in [Registers -> Int]
    BY <1>3, <1>5, <1>9, <2>1
  <2>3. PICK n, k, s : n = Step.n /\ k = Step.m /\ s = From
    OBVIOUS
  <2>4. n \in Nat \ {0} /\ k \in Nat /\ s \in Int /\ \E v \in mm : v.start <= s /\ s + n <= v.end
    BY <1>2, <1>3, <1>9, <2>3, Zenon
  <2>5. CASE k > n
    <3>1. Overlapping(mm, s + n, s + k) = {}
      BY <1>2, <1>9, <2>3, <2>5, Zenon
    <3>2. Space(Grow(mm, s, n, k))
      BY <1>5, <2>4, <2>5, <3>1, GrowSpace
    <3>3. Done(Grow(mm, s, n, k))
      BY <1>9, <2>3, <2>5, Zenon
    <3> QED
      BY <1>1, <2>2, <3>2, <3>3, DoneInv
  <2>6. CASE ~(k > n)
    <3>1. Space(Move(mm, s, n, to, dont, rel))
      BY <1>5, <2>1, <2>4, MoveSpace
    <3>2. Done(Move(mm, s, n, to, dont, rel))
      BY <1>9, <2>3, <2>6, Zenon
    <3> QED
      BY <1>1, <2>2, <3>1, <3>2, DoneInv
  <2> QED
    BY <2>5, <2>6
<1> QED
  BY <1>7, <1>8, <1>9

LEMMA SpaceNext == SpaceInv /\ [Next]_vars => SpaceInv'
<1> SUFFICES ASSUME SpaceInv, [Next]_vars PROVE SpaceInv'
  OBVIOUS
<1>0. Space(mm) /\ reg \in [Registers -> Int]
  BY DEF SpaceInv
<1>1. CASE do_mmap
  BY <1>1, MmapInv
<1>2. CASE do_munmap
  <2>1. Ready("munmap") /\ Done(Unmap(mm, From, To)) /\ reg' = reg
    BY <1>2 DEF do_munmap
  <2>2. From \in Int /\ To \in Int /\ From < To
    BY <2>1, AtCall
  <2>3. Space(Unmap(mm, From, To))
    BY <1>0, <2>2, UnmapSpace
  <2> QED
    BY <1>0, <2>1, <2>3, DoneInv
<1>3. CASE do_mprotect
  <2>1. PICK new : /\ Ready("mprotect") /\ new = Mprotect(mm, From, To, Step.prot)
                   /\ (Done(new) /\ reg' = reg) \/ (mm' = new /\ Exit("failed"))
    BY <1>3 DEF do_mprotect
  <2>2. From \in Int /\ To \in Int /\ From < To
    BY <2>1, AtCall
  <2>3. Space(new)
    BY <1>0, <2>1, <2>2, ModifySpace DEF Mprotect
  <2>4. CASE Done(new) /\ reg' = reg
    BY <1>0, <2>1, <2>3, <2>4, DoneInv
  <2>5. CASE mm' = new /\ Exit("failed")
    BY <2>3, <2>5, ExitInv
  <2> QED
    BY <2>1, <2>4, <2>5
<1>4. CASE do_touch
  <2>1. /\ Ready("touch")
        /\ \/ /\ \E v \in mm : v.start <= From /\ From < v.end
              /\ Done(Fault(mm, From)) /\ reg' = reg
           \/ mm' = mm /\ Exit("killed")
    BY <1>4 DEF do_touch
  <2>2. CASE (\E v \in mm : v.start <= From /\ From < v.end) /\ Done(Fault(mm, From)) /\ reg' = reg
    <3>1. Space(Fault(mm, From))
      BY <1>0, <2>2, FaultSpace
    <3> QED
      BY <1>0, <2>1, <2>2, <3>1, DoneInv
  <2>3. CASE mm' = mm /\ Exit("killed")
    BY <1>0, <2>3, ExitInv
  <2> QED
    BY <2>1, <2>2, <2>3
<1>5. CASE do_mremap
  BY <1>5, MremapInv
<1>6. CASE do_flag
  <2>1. PICK op, set, clear, next :
          /\ Ready(op) /\ Done(next) /\ reg' = reg
          /\ next = Modify(mm, From, To, KEEP, set, clear)
    BY <1>6, Zenon DEF do_flag, SetFlag, ClearFlag
  <2>2. From \in Int /\ To \in Int /\ From < To
    BY <2>1, AtCall
  <2>3. Space(next)
    BY <1>0, <2>1, <2>2, ModifySpace
  <2> QED
    BY <1>0, <2>1, <2>3, DoneInv
<1>7. CASE look
  <2>1. PICK op : Ready(op) /\ Done(mm) /\ reg' = reg
    BY <1>7 DEF look
  <2> QED
    BY <1>0, <2>1, DoneInv
<1>8. CASE random_unmap
  <2>1. PICK offset \in 0 .. RandomPages - 1 : \E size \in 1 .. RandomPages - offset :
          mm' \in {Unmap(mm, reg["ptr"] + offset, reg["ptr"] + offset + size),
                   Mmap(mm, reg["ptr"] + offset, size, "w", {}, 0)}
    BY <1>8 DEF random_unmap
  <2>0. PICK size \in 1 .. RandomPages - offset :
          mm' \in {Unmap(mm, reg["ptr"] + offset, reg["ptr"] + offset + size),
                   Mmap(mm, reg["ptr"] + offset, size, "w", {}, 0)}
    BY <2>1
  <2>2. prog' = prog /\ pc' = pc /\ reg' = reg /\ status' = status
    BY <1>8 DEF random_unmap
  <2>3. reg["ptr"] \in Int
    BY <1>0 DEF Registers
  <2>4. PICK s : s = reg["ptr"] + offset
    OBVIOUS
  <2>5. s \in Int /\ size \in Nat \ {0} /\ s + size \in Int /\ s < s + size
    BY <2>3, <2>4, RandomPagesAssumption
  <2>6. Space(Unmap(mm, s, s + size))
    BY <1>0, <2>5, UnmapSpace
  <2>7. Space(Mmap(mm, s, size, "w", {}, 0))
    BY <1>0, <2>5, MmapSpace
  <2>8. Space(mm')
    BY <2>0, <2>4, <2>6, <2>7
  <2> QED
    BY <2>2, <2>8 DEF SpaceInv
<1>9. CASE exit
  BY <1>9 DEF exit, SpaceInv
<1>10. CASE Ended \/ UNCHANGED vars
  <2>1. prog' = prog /\ pc' = pc /\ reg' = reg /\ status' = status /\ mm' = mm
    BY <1>10 DEF Ended, vars
  <2> QED
    BY <2>1 DEF SpaceInv
<1> QED
  BY <1>1, <1>2, <1>3, <1>4, <1>5, <1>6, <1>7, <1>8, <1>9, <1>10 DEF Next

LEMMA SpaceTyped == SpaceInv => TypeOK
<1> SUFFICES ASSUME SpaceInv PROVE TypeOK
  OBVIOUS
<1>1. ASSUME NEW v \in mm PROVE v.start < v.end /\ Overlapping(mm, v.start, v.end) = {v}
  <2>1. v.start \in Int /\ v.end \in Int /\ v.start < v.end
    BY Fields DEF SpaceInv, Space
  <2>2. ASSUME NEW u \in mm, u.start < v.end, v.start < u.end PROVE u = v
    <3>1. u.start \in Int /\ u.end \in Int
      BY Fields DEF SpaceInv, Space
    <3>2. ~Apart(u, v)
      BY <2>1, <2>2, <3>1 DEF Apart
    <3> QED
      BY <3>2 DEF SpaceInv, Space
  <2> QED
    BY <2>1, <2>2 DEF Overlapping
<1> QED
  BY <1>1 DEF TypeOK, SpaceInv

LEMMA SpaceAlways == Spec => []SpaceInv
BY SpaceInit, SpaceNext, PTL DEF Spec

\* Whatever the programs map, unmap, split, merge, move and grow, and wherever, the
\* address space stays a set of non-empty VMAs of which no two overlap.
THEOREM NoTwoOverlap == Spec => []TypeOK
BY SpaceAlways, SpaceTyped, PTL

-----------------------------------------------------------------------------
(* random_unmap.c *)

\* The area it works on is clear of the other mappings, which are there still.
Clear(l) == l.end <= reg["ptr"] \/ reg["ptr"] + RandomPages <= l.start

AreaInv ==
  prog = "random_unmap" =>
    /\ OthersUntouched
    /\ pc = 1 => mm = Library
    /\ pc > 1 => \A l \in Library : Clear(l)

LEMMA OneCall ==
  /\ Len(main["random_unmap"]) = 1
  /\ main["random_unmap"][1] = mmap("ptr", NULL, RandomPages, "w", {})
<1>1. main["random_unmap"] = <<mmap("ptr", NULL, RandomPages, "w", {})>>
  BY DEF main
<1>2. PICK c : c = mmap("ptr", NULL, RandomPages, "w", {})
  OBVIOUS
<1>3. Len(<<c>>) = 1 /\ <<c>>[1] = c
  OBVIOUS
<1> QED
  BY <1>1, <1>2, <1>3

LEMMA OthersAre == OthersUntouched <=> \A l \in Library : \E u \in mm : In(l, u)
BY DEF OthersUntouched, In

LEMMA AreaInit == Init => AreaInv
<1> SUFFICES ASSUME Init PROVE AreaInv
  OBVIOUS
<1>1. pc = 1 /\ mm = Library
  BY DEF Init
<1>2. ASSUME NEW l \in Library PROVE In(l, l)
  <2>1. l.start \in Int /\ l.end \in Int
    BY LibrarySpace, Fields
  <2> QED
    BY <2>1 DEF In
<1>3. OthersUntouched
  BY <1>1, <1>2, OthersAre
<1> QED
  BY <1>1, <1>3 DEF AreaInv

\* A mapping of the area, or a part of it, leaves what is clear of it.
LEMMA MmapKeeps ==
  ASSUME NEW m, NEW s, NEW n, NEW l, NEW u, NEW new, Space(m), s \in Int, n \in Nat \ {0},
         new = Mmap(m, s, n, "w", {}, 0), Shaped(l), u \in m, In(l, u), l.end <= s \/ s + n <= l.start
  PROVE  \E w \in new : In(l, w)
<1>1. PICK e, c : e = s + n /\ c = Vma(s, e, "w", {}, 0)
  OBVIOUS
<1>2. e \in Int /\ s < e
  BY <1>1
<1>3. Shaped(c) /\ c.start = s /\ c.end = e
  BY <1>1, <1>2, VmaIs
<1>4. new = Insert(Unmap(m, s, e), c)
  BY <1>1, Zenon DEF Mmap
<1>5. l.end <= s \/ e <= l.start
  BY <1>1
<1> QED
  BY <1>3, <1>4, <1>5, PutKeeps

\* The first call: the area goes where nothing is.
LEMMA AreaMapped ==
  ASSUME SpaceInv, AreaInv, prog = "random_unmap", do_mmap
  PROVE  AreaInv'
<1>1. Ready("mmap") /\ Free(mm, Step.n) # {}
  BY DEF do_mmap, Room
<1>2. pc = 1
  <2>1. pc <= 1 /\ pc \in 1 .. 1 + 1
    BY <1>1, OneCall DEF Ready, SpaceInv
  <2> QED
    BY <2>1
<1>3. Step = mmap("ptr", NULL, RandomPages, "w", {})
  BY <1>2, OneCall DEF Step
<1>4. /\ Step.r = "ptr" /\ Step.at = NULL /\ Step.n = RandomPages /\ Step.prot = "w" /\ Step.flags = {}
  BY <1>3 DEF mmap
<1>5. PICK s : s = Gap(mm, Step.n)
  OBVIOUS
<1>6. s \in Int /\ Overlapping(mm, s, s + RandomPages) = {} /\ RandomPages \in Nat \ {0}
  BY <1>1, <1>4, <1>5, GapIs, RandomPagesAssumption
<1> DEFINE hint == Step.at # NULL /\ Overlapping(mm, From, To) = {}
           place == IF "fixed" \in Step.flags \/ hint THEN From ELSE Gap(mm, Step.n)
           obj == IF "shared" \in Step.flags
                  THEN CHOOSE i \in 1 .. Cardinality(mm) + 1 : \A v \in mm : v.obj # i ELSE 0
           fl == Step.flags \cap {"noreserve"}
           new == Mmap(mm, place, Step.n, Step.prot, fl, obj)
<1>7. /\ Done(IF "populate" \in Step.flags THEN Fault(new, place) ELSE new)
      /\ reg' = [reg EXCEPT ![Step.r] = place]
  BY DEF do_mmap
<1>8. /\ obj = 0 /\ fl = {} /\ place = s /\ "populate" \notin Step.flags
  BY <1>4, <1>5
<1> HIDE DEF obj, fl, place
<1>9. /\ new = Mmap(mm, s, RandomPages, "w", {}, 0) /\ Done(new) /\ reg' = [reg EXCEPT !["ptr"] = s]
  BY <1>4, <1>7, <1>8, Zenon
<1> HIDE DEF new, hint
<1>10. reg'["ptr"] = s
  <2>1. reg \in [Registers -> Int] /\ "ptr" \in Registers
    BY DEF SpaceInv, Registers
  <2> QED
    BY <1>9, <2>1
<1>11. mm = Library /\ Space(mm)
  BY <1>2 DEF AreaInv, SpaceInv
<1>12. ASSUME NEW l \in Library PROVE (l.end <= s \/ s + RandomPages <= l.start) /\ Shaped(l)
  <2>1. Shaped(l) /\ l.start \in Int /\ l.end \in Int
    BY LibrarySpace, Fields
  <2>2. ~(l.start < s + RandomPages /\ s < l.end)
    BY <1>6, <1>11 DEF Overlapping
  <2> QED
    BY <1>6, <2>1, <2>2
<1>13. mm' = new /\ pc' = pc + 1 /\ prog' = prog
  BY <1>9 DEF Done
<1>14. ASSUME NEW l \in Library PROVE \E u \in mm' : In(l, u)
  <2>1. PICK u \in mm : In(l, u)
    BY OthersAre DEF AreaInv
  <2> QED
    BY <1>6, <1>9, <1>11, <1>12, <1>13, <2>1, MmapKeeps
<1>15. OthersUntouched'
  BY <1>14 DEF OthersUntouched, In
<1>16. pc' = 2
  BY <1>2, <1>13
<1>17. ASSUME NEW l \in Library PROVE Clear(l)'
  BY <1>10, <1>12 DEF Clear
<1> QED
  BY <1>15, <1>16, <1>17 DEF AreaInv

\* A part of the area goes, or comes back.
LEMMA AreaDrawn ==
  ASSUME SpaceInv, AreaInv, random_unmap
  PROVE  AreaInv'
<1>1. prog = "random_unmap" /\ pc > 1 /\ prog' = prog /\ pc' = pc /\ reg' = reg
  BY DEF random_unmap
<1>2. PICK offset \in 0 .. RandomPages - 1 : \E size \in 1 .. RandomPages - offset :
        mm' \in {Unmap(mm, reg["ptr"] + offset, reg["ptr"] + offset + size),
                 Mmap(mm, reg["ptr"] + offset, size, "w", {}, 0)}
  BY DEF random_unmap
<1>3. PICK size \in 1 .. RandomPages - offset :
        mm' \in {Unmap(mm, reg["ptr"] + offset, reg["ptr"] + offset + size),
                 Mmap(mm, reg["ptr"] + offset, size, "w", {}, 0)}
  BY <1>2
<1>4. PICK s, e : s = reg["ptr"] + offset /\ e = s + size
  OBVIOUS
<1>5. reg["ptr"] \in Int
  BY DEF SpaceInv, Registers
<1>6. /\ s \in Int /\ e \in Int /\ s < e /\ size \in Nat \ {0}
      /\ reg["ptr"] <= s /\ e <= reg["ptr"] + RandomPages /\ RandomPages \in Nat
  BY <1>4, <1>5, RandomPagesAssumption
<1>7. Space(mm)
  BY DEF SpaceInv
<1>8. ASSUME NEW l \in Library PROVE \E w \in mm' : In(l, w)
  <2>1. PICK u \in mm : In(l, u)
    BY <1>1, OthersAre DEF AreaInv
  <2>2. Shaped(l) /\ l.start \in Int /\ l.end \in Int
    BY LibrarySpace, Fields
  <2>3. Clear(l)
    BY <1>1 DEF AreaInv
  <2>4. l.end <= s \/ e <= l.start
    BY <1>5, <1>6, <2>2, <2>3 DEF Clear
  <2>5. CASE mm' = Unmap(mm, s, e)
    BY <1>6, <1>7, <2>1, <2>2, <2>4, <2>5, UnmapKeeps
  <2>6. CASE mm' = Mmap(mm, s, size, "w", {}, 0)
    BY <1>4, <1>6, <1>7, <2>1, <2>2, <2>4, <2>6, MmapKeeps
  <2> QED
    BY <1>3, <1>4, <2>5, <2>6
<1>9. OthersUntouched'
  BY <1>8 DEF OthersUntouched, In
<1> QED
  BY <1>1, <1>9 DEF AreaInv, Clear

LEMMA AreaNext == SpaceInv /\ AreaInv /\ [Next]_vars => AreaInv'
<1> SUFFICES ASSUME SpaceInv, AreaInv, [Next]_vars PROVE AreaInv'
  OBVIOUS
<1>1. prog' = prog
  BY DEF Next, vars, do_mmap, do_munmap, do_mprotect, do_touch, do_mremap, do_flag, look,
         random_unmap, exit, Ended, Done, Exit
<1>2. CASE prog # "random_unmap"
  BY <1>1, <1>2 DEF AreaInv
<1>3. CASE prog = "random_unmap"
  <2>1. ASSUME NEW op, Ready(op) PROVE op = "mmap"
    <3>1. pc <= 1 /\ pc \in 1 .. 1 + 1 /\ main[prog][pc].op = op
      BY <1>3, <2>1, OneCall DEF Ready, SpaceInv
    <3>2. pc = 1
      BY <3>1
    <3>3. mmap("ptr", NULL, RandomPages, "w", {}).op = op
      BY <1>3, <3>1, <3>2, OneCall
    <3> QED
      BY <3>3 DEF mmap
  <2>2. do_mmap \/ random_unmap \/ (mm' = mm /\ pc' = pc /\ reg' = reg)
    BY <2>1 DEF Next, vars, do_munmap, do_mprotect, do_touch, do_mremap, do_flag, look, exit, Ended
  <2>3. CASE do_mmap
    BY <1>3, <2>3, AreaMapped
  <2>4. CASE random_unmap
    BY <2>4, AreaDrawn
  <2>5. CASE mm' = mm /\ pc' = pc /\ reg' = reg
    BY <1>1, <2>5 DEF AreaInv, OthersUntouched, Clear
  <2> QED
    BY <2>2, <2>3, <2>4, <2>5
<1> QED
  BY <1>2, <1>3

LEMMA AreaOthers == AreaInv => (prog = "random_unmap" => OthersUntouched)
BY DEF AreaInv

\* random_unmap.c draws ranges of its area at random and unmaps them or maps them
\* again; however it draws, and however large the area, the mappings of the C
\* library stay, whole and with their protection.
THEOREM RandomUnmapKeepsOthers == Spec => [](prog = "random_unmap" => OthersUntouched)
<1>1. Spec => []AreaInv
  BY AreaInit, AreaNext, SpaceAlways, PTL DEF Spec
<1> QED
  BY <1>1, AreaOthers, PTL

-----------------------------------------------------------------------------
(* procmap.c *)

\* The VMA of the middle one of three pages does not reach beyond them.
Bounded(m, p) ==
  \E v \in m : p <= v.start /\ v.start <= p + 1 /\ p + 1 < v.end /\ v.end <= p + 3

LEMMA QueryRight ==
  ASSUME NEW m, NEW p, Space(m), p \in Int, Bounded(m, p)
  PROVE  Joined(query_ptr(m, p)) =
           {o \in 0 .. 2 : \E v \in m : v.start <= p + 1 /\ p + 1 < v.end
                                        /\ v.start <= p + o /\ p + o < v.end}
<1>1. PICK w \in m : p <= w.start /\ w.start <= p + 1 /\ p + 1 < w.end /\ w.end <= p + 3
  BY DEF Bounded
<1>2. PICK s, e : s = w.start /\ e = w.end
  OBVIOUS
<1>3. s \in Int /\ e \in Int
  BY <1>2, Fields DEF Space
<1>4. ASSUME NEW v \in m, v.start <= p + 1, p + 1 < v.end PROVE v = w
  <2>1. v.start \in Int /\ v.end \in Int
    BY Fields DEF Space
  <2>2. ~Apart(v, w)
    BY <1>1, <1>2, <1>3, <1>4, <2>1 DEF Apart
  <2> QED
    BY <2>2 DEF Space
<1>5. At(m, p + 1) = w
  <2>1. At(m, p + 1) \in m /\ At(m, p + 1).start <= p + 1 /\ p + 1 < At(m, p + 1).end
    BY <1>1, Zenon DEF At
  <2> QED
    BY <1>4, <2>1
<1>6. PICK one : one = {o \in 0 .. 2 : \E v \in m : v.start <= p + 1 /\ p + 1 < v.end
                                                    /\ v.start <= p + o /\ p + o < v.end}
  OBVIOUS
<1>7. one = {o \in 0 .. 2 : s <= p + o /\ p + o < e}
  BY <1>1, <1>2, <1>4, <1>6
<1>8. (s = p \/ s = p + 1) /\ (e = p + 2 \/ e = p + 3)
  BY <1>1, <1>2, <1>3
<1>9. PICK len : len = e - s
  OBVIOUS
<1>10. query_ptr(m, p) = IF len <= 1 THEN "NO_MERGE" ELSE IF len = 3 THEN "MERGE_ALL"
                         ELSE IF s = p THEN "MERGE_0_1" ELSE IF s = p + 1 THEN "MERGE_1_2"
                         ELSE "MERGE_UNKNOWN"
  BY <1>2, <1>5, <1>9, Zenon DEF query_ptr
<1>11. CASE s = p /\ e = p + 2
  <2>1. len = 2 /\ one = {0, 1}
    BY <1>7, <1>9, <1>11
  <2>2. query_ptr(m, p) = "MERGE_0_1"
    BY <1>10, <1>11, <2>1
  <2> QED
    BY <1>6, <2>1, <2>2 DEF Joined
<1>12. CASE s = p /\ e = p + 3
  <2>1. len = 3 /\ one = {0, 1, 2}
    BY <1>7, <1>9, <1>12
  <2>2. query_ptr(m, p) = "MERGE_ALL"
    BY <1>10, <2>1
  <2> QED
    BY <1>6, <2>1, <2>2 DEF Joined
<1>13. CASE s = p + 1 /\ e = p + 2
  <2>1. len = 1 /\ one = {1}
    BY <1>7, <1>9, <1>13
  <2>2. query_ptr(m, p) = "NO_MERGE"
    BY <1>10, <2>1
  <2> QED
    BY <1>6, <2>1, <2>2 DEF Joined
<1>14. CASE s = p + 1 /\ e = p + 3
  <2>1. len = 2 /\ one = {1, 2} /\ s # p
    BY <1>7, <1>9, <1>14
  <2>2. query_ptr(m, p) = "MERGE_1_2"
    BY <1>10, <1>14, <2>1
  <2> QED
    BY <1>6, <2>1, <2>2 DEF Joined
<1> QED
  BY <1>8, <1>11, <1>12, <1>13, <1>14

LEMMA QueryStep == SpaceInv => (Bounded(mm, From) => QueryExact)
<1> SUFFICES ASSUME SpaceInv, Bounded(mm, From), Ready("query")
             PROVE  Joined(query_ptr(mm, From)) =
                      {o \in 0 .. 2 : \E v \in mm : v.start <= From + 1 /\ From + 1 < v.end
                                                    /\ v.start <= From + o /\ From + o < v.end}
  BY DEF QueryExact
<1>1. From \in Int /\ Space(mm)
  BY AtCall DEF SpaceInv
<1>2. PICK p : p = From
  OBVIOUS
<1> QED
  BY <1>1, <1>2, QueryRight

\* query_ptr() sees one VMA's bounds.  Whatever the calls before have done, what it
\* concludes of the three pages is the case as long as that VMA lies within them:
\* above is the inaccessible rest of the region, below is what was free.
THEOREM QueriesRight == Spec => [](Bounded(mm, From) => QueryExact)
BY SpaceAlways, QueryStep, PTL
=============================================================================
