------------------------- MODULE FreeSpaceMapProofs -------------------------
(***************************************************************************)
(* Theorems about space::FreeSpaceMap, for every number of pages and every *)
(* sequence of marks.  First what markAllocated, markFree and the searches *)
(* do to any map, which the proofs about SpaceManager use too, then what   *)
(* holds of the maps that can be reached.                                  *)
(***************************************************************************)
EXTENDS FreeSpaceMap, FiniteSetTheorems, WellFoundedInduction, TLAPS

USE SpaceAssumption

\* The invariant of a map: its extents lie in the managed pages and no two of
\* them touch, which is what validate() looks at.
Sound(E) == E \in SUBSET Extents /\ Validate(E)

\* A gap of at least a page is between e and f.
Apart(e, f) == EndPage(e) < f.start \/ EndPage(f) < e.start

\* Every set of naturals has a least member.
LEMMA LeastNat ==
    ASSUME NEW S \in SUBSET Nat, S # {}
    PROVE  \E m \in S : \A n \in S : m <= n
<1>. DEFINE R == {ss \in Nat \X Nat : ss[1] < ss[2]}
<1>1. IsWellFoundedOn(R, Nat)
  BY NatLessThanWellFounded DEF OpToRel
<1>. HIDE DEF R
<1>2. PICK m \in S : \A n \in S : ~ (<<n, m>> \in R)
  BY <1>1, WFMin
<1>3. ASSUME NEW n \in S PROVE m <= n
  <2>1. m \in Nat /\ n \in Nat
    OBVIOUS
  <2>2. ~ (<<n, m>> \in R)
    BY <1>2
  <2>3. <<n, m>> \in Nat \X Nat /\ <<n, m>>[1] = n /\ <<n, m>>[2] = m
    BY <2>1
  <2>4. ~ (n < m)
    BY <2>2, <2>3 DEF R
  <2>. QED  BY <2>1, <2>4
<1>. QED  BY <1>3

\* The fields of an extent.
LEMMA ExtentFields ==
    ASSUME NEW e \in Extents
    PROVE  /\ e.start \in Nat /\ e.length \in Nat /\ e.length >= 1
           /\ e.start >= FirstDataPageId
           /\ e.start + e.length <= MaxPageId + 1
           /\ EndPage(e) = e.start + e.length
           /\ IsValid(e)
<1>1. e \in [start : Pages, length : 1 .. MaxPageId + 1 - FirstDataPageId]
      /\ e.start + e.length <= MaxPageId + 1
  BY DEF Extents
<1>2. e.start \in Pages /\ e.length \in 1 .. MaxPageId + 1 - FirstDataPageId
  BY <1>1
<1>3. e.start \in Nat /\ e.length \in Nat /\ e.length >= 1 /\ e.start >= FirstDataPageId
      /\ e.start <= MaxPageId
  BY <1>2 DEF Pages
<1>. QED  BY <1>1, <1>3 DEF EndPage, IsValid

\* An extent of managed pages.
LEMMA ExtentMade ==
    ASSUME NEW a \in Nat, NEW n \in Nat, n >= 1, a >= FirstDataPageId,
           a + n <= MaxPageId + 1
    PROVE  /\ Extent(a, n) \in Extents
           /\ Extent(a, n).start = a /\ Extent(a, n).length = n
           /\ EndPage(Extent(a, n)) = a + n
<1>1. a \in Pages /\ n \in 1 .. MaxPageId + 1 - FirstDataPageId
  BY DEF Pages
<1>. QED  BY <1>1 DEF Extent, Extents, EndPage

\* Two extents are merged unless there is a gap between them.
LEMMA MergeOrApart ==
    ASSUME NEW e \in Extents, NEW f \in Extents
    PROVE  CanMerge(e, f) <=> ~ Apart(e, f)
BY ExtentFields DEF CanMerge, Intersects, AdjacentTo, Apart

\* Two extents of a sound map are the same or apart.
LEMMA SoundApart ==
    ASSUME NEW E, Sound(E), NEW e \in E, NEW f \in E
    PROVE  e \in Extents /\ f \in Extents /\ (e = f \/ Apart(e, f))
BY MergeOrApart DEF Sound, Validate

\* A set of extents of which any two are apart is a sound map.
LEMMA ApartSound ==
    ASSUME NEW E \in SUBSET Extents, \A e, f \in E : e = f \/ Apart(e, f)
    PROVE  Sound(E)
<1>1. \A e \in E : IsValid(e)
  BY ExtentFields
<1>2. \A e, f \in E : e # f => ~ CanMerge(e, f)
  BY MergeOrApart
<1>. QED  BY <1>1, <1>2 DEF Sound, Validate

\* The pages of an extent.
LEMMA InPagesOf ==
    ASSUME NEW e \in Extents, NEW p
    PROVE  p \in PagesOf(e) <=> p \in Nat /\ e.start <= p /\ p < EndPage(e)
BY ExtentFields DEF PagesOf

\* The pages of a map are managed pages.
LEMMA InPagesIn ==
    ASSUME NEW E \in SUBSET Extents, NEW p
    PROVE  /\ p \in PagesIn(E) <=> \E e \in E : p \in PagesOf(e)
           /\ p \in PagesIn(E) => p \in Pages
<1>1. p \in PagesIn(E) <=> \E e \in E : p \in PagesOf(e)
  BY DEF PagesIn
<1>2. ASSUME NEW e \in E, p \in PagesOf(e) PROVE p \in Pages
  <2>1. p \in Nat /\ e.start <= p /\ p < EndPage(e)
    BY <1>2, InPagesOf
  <2>. QED  BY <2>1, ExtentFields DEF Pages
<1>. QED  BY <1>1, <1>2

-----------------------------------------------------------------------------
(***************************************************************************)
(* markAllocated.                                                          *)
(***************************************************************************)
\* What Trim leaves of an extent e: extents within e, apart from each other, that
\* have every page of e that is not in the range.
LEMMA TrimSound ==
    ASSUME NEW e \in Extents, NEW r \in Extents
    PROVE  /\ \A x \in Trim(e, r) : /\ x \in Extents
                                    /\ e.start <= x.start /\ EndPage(x) <= EndPage(e)
           /\ \A x, y \in Trim(e, r) : x = y \/ Apart(x, y)
           /\ \A p \in PagesOf(e) \ PagesOf(r) : \E x \in Trim(e, r) : p \in PagesOf(x)
<1>1. /\ e.start \in Nat /\ e.length \in Nat /\ e.length >= 1
      /\ e.start >= FirstDataPageId /\ EndPage(e) \in Nat
      /\ EndPage(e) <= MaxPageId + 1 /\ EndPage(e) = e.start + e.length
  BY ExtentFields
<1>2. /\ r.start \in Nat /\ r.length \in Nat /\ r.length >= 1
      /\ r.start >= FirstDataPageId /\ EndPage(r) \in Nat
      /\ EndPage(r) <= MaxPageId + 1 /\ EndPage(r) = r.start + r.length
  BY ExtentFields
<1>3. CASE Trim(e, r) = {e}
  BY <1>1, <1>3
<1>4. CASE Trim(e, r) # {e}
  <2>. DEFINE a == Extent(e.start, r.start - e.start)
              b == Extent(EndPage(r), EndPage(e) - EndPage(r))
  <2>1. Intersects(e, r) /\ Trim(e, r) = {x \in {a, b} : x.length > 0}
    BY <1>4 DEF Trim
  <2>2. e.start < EndPage(r) /\ r.start < EndPage(e)
    BY <2>1 DEF Intersects
  <2>3. a.length = r.start - e.start /\ b.length = EndPage(e) - EndPage(r)
    BY DEF Extent
  <2>4. ASSUME a.length > 0
        PROVE  /\ a \in Extents /\ a.start = e.start /\ EndPage(a) = r.start
    <3>1. r.start - e.start \in Nat /\ r.start - e.start >= 1
      BY <1>1, <1>2, <2>3, <2>4
    <3>. QED  BY <1>1, <1>2, <3>1, ExtentMade
  <2>5. ASSUME b.length > 0
        PROVE  /\ b \in Extents /\ b.start = EndPage(r) /\ EndPage(b) = EndPage(e)
    <3>1. EndPage(e) - EndPage(r) \in Nat /\ EndPage(e) - EndPage(r) >= 1
      BY <1>1, <1>2, <2>3, <2>5
    <3>2. EndPage(r) >= FirstDataPageId
      BY <1>2
    <3>. QED  BY <1>1, <1>2, <3>1, <3>2, ExtentMade
  <2>. HIDE DEF a, b
  <2>6. ASSUME NEW x \in Trim(e, r)
        PROVE  /\ x.length > 0 /\ (x = a \/ x = b)
               /\ x \in Extents /\ e.start <= x.start /\ EndPage(x) <= EndPage(e)
    <3>1. x.length > 0 /\ (x = a \/ x = b)
      BY <2>1
    <3>. QED  BY <1>1, <1>2, <2>2, <2>4, <2>5, <3>1
  <2>7. ASSUME NEW x \in Trim(e, r), NEW y \in Trim(e, r) PROVE x = y \/ Apart(x, y)
    <3>1. a.length > 0 /\ b.length > 0 => Apart(a, b) /\ Apart(b, a)
      BY <1>1, <1>2, <2>4, <2>5 DEF Apart
    <3>. QED  BY <2>6, <3>1
  <2>8. ASSUME NEW p \in PagesOf(e) \ PagesOf(r)
        PROVE  \E x \in Trim(e, r) : p \in PagesOf(x)
    <3>1. p \in Nat /\ e.start <= p /\ p < EndPage(e) /\ (p < r.start \/ EndPage(r) <= p)
      BY <1>1, <1>2, InPagesOf
    <3>2. CASE p < r.start
      <4>1. a.length > 0
        BY <1>1, <1>2, <2>3, <3>1, <3>2
      <4>2. p \in PagesOf(a) /\ a \in Trim(e, r)
        BY <2>1, <2>4, <3>1, <3>2, <4>1, InPagesOf
      <4>. QED  BY <4>2
    <3>3. CASE EndPage(r) <= p
      <4>1. b.length > 0
        BY <1>1, <1>2, <2>3, <3>1, <3>3
      <4>2. p \in PagesOf(b) /\ b \in Trim(e, r)
        BY <2>1, <2>5, <3>1, <3>3, <4>1, InPagesOf
      <4>. QED  BY <4>2
    <3>. QED  BY <3>1, <3>2, <3>3
  <2>. QED  BY <2>6, <2>7, <2>8
<1>. QED  BY <1>3, <1>4

\* Parts of extents that are apart are apart.
LEMMA PartsApart ==
    ASSUME NEW e \in Extents, NEW f \in Extents, Apart(e, f),
           NEW x \in Extents, e.start <= x.start, EndPage(x) <= EndPage(e),
           NEW y \in Extents, f.start <= y.start, EndPage(y) <= EndPage(f)
    PROVE  Apart(x, y)
BY ExtentFields DEF Apart

\* markAllocated(r) keeps the map sound, adds no page and takes none outside r.
LEMMA MarkAllocatedSound ==
    ASSUME NEW E, Sound(E), NEW r \in Extents
    PROVE  /\ Sound(AfterMarkAllocated(E, r))
           /\ PagesIn(AfterMarkAllocated(E, r)) \subseteq PagesIn(E)
           /\ PagesIn(E) \ PagesOf(r) \subseteq PagesIn(AfterMarkAllocated(E, r))
<1>. DEFINE F == UNION {Trim(e, r) : e \in E}
<1>1. E \in SUBSET Extents
  BY DEF Sound
<1>2. \A x \in F : \E e \in E : x \in Trim(e, r)
  OBVIOUS
<1>3. F \in SUBSET Extents
  BY <1>1, <1>2, TrimSound
<1>4. Sound(F)
  <2>. SUFFICES ASSUME NEW x \in F, NEW y \in F PROVE x = y \/ Apart(x, y)
    BY <1>3, ApartSound
  <2>1. PICK e \in E : x \in Trim(e, r)
    BY <1>2
  <2>2. PICK f \in E : y \in Trim(f, r)
    BY <1>2
  <2>3. /\ e \in Extents /\ x \in Extents /\ e.start <= x.start /\ EndPage(x) <= EndPage(e)
        /\ f \in Extents /\ y \in Extents /\ f.start <= y.start /\ EndPage(y) <= EndPage(f)
    BY <1>1, <2>1, <2>2, TrimSound
  <2>4. CASE e = f
    BY <2>1, <2>2, <2>3, <2>4, TrimSound
  <2>5. CASE e # f
    <3>1. Apart(e, f)
      BY <2>5, SoundApart
    <3>. QED  BY <2>3, <3>1, PartsApart
  <2>. QED  BY <2>4, <2>5
<1>5. ASSUME NEW p \in PagesIn(F) PROVE p \in PagesIn(E)
  <2>1. PICK x \in F : p \in PagesOf(x)
    BY <1>3, InPagesIn
  <2>2. PICK e \in E : x \in Trim(e, r)
    BY <1>2
  <2>3. e \in Extents /\ x \in Extents /\ e.start <= x.start /\ EndPage(x) <= EndPage(e)
    BY <1>1, <2>2, TrimSound
  <2>4. p \in PagesOf(e)
    BY <2>1, <2>3, InPagesOf, ExtentFields
  <2>. QED  BY <1>1, <2>4, InPagesIn
<1>6. ASSUME NEW p \in PagesIn(E) \ PagesOf(r) PROVE p \in PagesIn(F)
  <2>1. PICK e \in E : p \in PagesOf(e)
    BY <1>1, InPagesIn
  <2>2. PICK x \in Trim(e, r) : p \in PagesOf(x)
    BY <1>1, <2>1, TrimSound
  <2>3. x \in F
    BY <2>1, <2>2
  <2>. QED  BY <1>3, <2>2, <2>3, InPagesIn
<1>. HIDE DEF F
<1>7. AfterMarkAllocated(E, r) = F \/ AfterMarkAllocated(E, r) = E
  BY DEF AfterMarkAllocated, F
<1>. QED  BY <1>4, <1>5, <1>6, <1>7

-----------------------------------------------------------------------------
(***************************************************************************)
(* markFree.                                                               *)
(***************************************************************************)
\* Where the hull of r and the extents it absorbs begins and ends: with r, or with
\* the one absorbed extent that reaches beyond it.
LEMMA HullBounds ==
    ASSUME NEW E, Sound(E), NEW r \in Extents
    PROVE  LET A == Absorbed(E, r)
               h == Hull(A, r)
           IN  /\ h \in Extents
               /\ h.start <= r.start /\ EndPage(r) <= EndPage(h)
               /\ \A e \in A : h.start <= e.start /\ EndPage(e) <= EndPage(h)
               /\ h.start = r.start \/ \E e \in A : h.start = e.start /\ EndPage(e) >= r.start
               /\ EndPage(h) = EndPage(r)
                  \/ \E e \in A : EndPage(h) = EndPage(e) /\ e.start <= EndPage(r)
<1>. DEFINE A == Absorbed(E, r)
            h == Hull(A, r)
            left == {e \in A : e.start < r.start}
            right == {e \in A : EndPage(e) > EndPage(r)}
            from == IF left = {} THEN r.start ELSE (CHOOSE e \in left : TRUE).start
            to == IF right = {} THEN EndPage(r) ELSE EndPage(CHOOSE e \in right : TRUE)
<1>1. A \in SUBSET E /\ E \in SUBSET Extents
  BY DEF Absorbed, Sound
<1>2. \A e \in Extents : /\ e.start \in Nat /\ EndPage(e) \in Nat /\ e.start < EndPage(e)
                         /\ e.start >= FirstDataPageId /\ EndPage(e) <= MaxPageId + 1
  BY ExtentFields
<1>3. \A e \in A : e.start <= EndPage(r) /\ EndPage(e) >= r.start
  <2>. SUFFICES ASSUME NEW e \in A PROVE e.start <= EndPage(r) /\ EndPage(e) >= r.start
    OBVIOUS
  <2>1. ~ Apart(e, r)
    BY <1>1, MergeOrApart DEF Absorbed
  <2>. QED  BY <1>1, <1>2, <2>1 DEF Apart
<1>4. \A e, f \in A : e = f \/ Apart(e, f)
  BY <1>1, SoundApart
<1>5. h = Extent(from, to - from)
  BY DEF Hull
<1>. HIDE DEF A, h
<1>6. \A e, f \in left : e = f
  BY <1>1, <1>2, <1>3, <1>4 DEF Apart
<1>7. \A e, f \in right : e = f
  BY <1>1, <1>2, <1>3, <1>4 DEF Apart
<1>8. /\ from <= r.start /\ from \in Nat /\ from >= FirstDataPageId
      /\ \A e \in A : from <= e.start
      /\ from = r.start \/ \E e \in A : from = e.start /\ EndPage(e) >= r.start
  <2>1. CASE left = {}
    <3>1. from = r.start
      BY <2>1
    <3>2. \A e \in A : ~ (e.start < r.start)
      BY <2>1
    <3>. HIDE DEF from, left
    <3>. QED  BY <1>1, <1>2, <3>1, <3>2
  <2>2. CASE left # {}
    <3>1. PICK l \in left : from = l.start
      BY <2>2
    <3>2. l \in A /\ l.start < r.start
      OBVIOUS
    <3>3. \A e \in A : e.start < r.start => e = l
      BY <1>6
    <3>. HIDE DEF from, left
    <3>. QED  BY <1>1, <1>2, <1>3, <3>1, <3>2, <3>3
  <2>. QED  BY <2>1, <2>2
<1>9. /\ to >= EndPage(r) /\ to \in Nat /\ to <= MaxPageId + 1
      /\ \A e \in A : EndPage(e) <= to
      /\ to = EndPage(r) \/ \E e \in A : to = EndPage(e) /\ e.start <= EndPage(r)
  <2>1. CASE right = {}
    <3>1. to = EndPage(r)
      BY <2>1
    <3>2. \A e \in A : ~ (EndPage(e) > EndPage(r))
      BY <2>1
    <3>. HIDE DEF to, right
    <3>. QED  BY <1>1, <1>2, <3>1, <3>2
  <2>2. CASE right # {}
    <3>1. PICK l \in right : to = EndPage(l)
      BY <2>2
    <3>2. l \in A /\ EndPage(l) > EndPage(r)
      OBVIOUS
    <3>3. \A e \in A : EndPage(e) > EndPage(r) => e = l
      BY <1>7
    <3>. HIDE DEF to, right
    <3>. QED  BY <1>1, <1>2, <1>3, <3>1, <3>2, <3>3
  <2>. QED  BY <2>1, <2>2
<1>. HIDE DEF from, to
<1>10. h \in Extents /\ h.start = from /\ EndPage(h) = to
  <2>1. to - from \in Nat /\ to - from >= 1 /\ from + (to - from) = to
    BY <1>2, <1>8, <1>9
  <2>. QED  BY <1>5, <1>8, <1>9, <2>1, ExtentMade
<1>. QED  BY <1>8, <1>9, <1>10 DEF A, h

\* markFree(r) keeps the map sound, and adds the pages of r and no other.
LEMMA MarkFreeSound ==
    ASSUME NEW E, Sound(E), NEW r \in Extents
    PROVE  /\ Sound(AfterMarkFree(E, r))
           /\ PagesIn(AfterMarkFree(E, r)) = PagesIn(E) \cup PagesOf(r)
<1>. DEFINE A == Absorbed(E, r)
            h == Hull(A, r)
            F == (E \ A) \cup {h}
<1>1. A \in SUBSET E /\ E \in SUBSET Extents
  BY DEF Absorbed, Sound
<1>2. \A e \in Extents : /\ e.start \in Nat /\ EndPage(e) \in Nat /\ e.start < EndPage(e)
  BY ExtentFields
<1>3. /\ h \in Extents
      /\ h.start <= r.start /\ EndPage(r) <= EndPage(h)
      /\ \A e \in A : h.start <= e.start /\ EndPage(e) <= EndPage(h)
      /\ h.start = r.start \/ \E e \in A : h.start = e.start /\ EndPage(e) >= r.start
      /\ EndPage(h) = EndPage(r)
         \/ \E e \in A : EndPage(h) = EndPage(e) /\ e.start <= EndPage(r)
  BY HullBounds
<1>4. \A e \in E \ A : Apart(e, r)
  BY <1>1, MergeOrApart DEF Absorbed
<1>5. \A e \in E \ A, f \in A : Apart(e, f)
  BY <1>1, SoundApart
<1>6. AfterMarkFree(E, r) = F
  BY ExtentFields DEF AfterMarkFree
<1>. HIDE DEF A, h
<1>7. ASSUME NEW e \in E \ A PROVE Apart(e, h) /\ Apart(h, e)
  <2>1. Apart(e, r) /\ e \in Extents
    BY <1>1, <1>4
  <2>2. CASE EndPage(e) < r.start
    <3>1. EndPage(e) < h.start
      <4>1. CASE h.start = r.start
        BY <2>2, <4>1
      <4>2. ASSUME NEW f \in A, h.start = f.start, EndPage(f) >= r.start
            PROVE  EndPage(e) < h.start
        <5>1. Apart(e, f) /\ f \in Extents
          BY <1>1, <1>5
        <5>. QED  BY <1>2, <2>1, <2>2, <4>2, <5>1 DEF Apart
      <4>. QED  BY <1>3, <4>1, <4>2
    <3>. QED  BY <3>1 DEF Apart
  <2>3. CASE EndPage(r) < e.start
    <3>1. EndPage(h) < e.start
      <4>1. CASE EndPage(h) = EndPage(r)
        BY <2>3, <4>1
      <4>2. ASSUME NEW f \in A, EndPage(h) = EndPage(f), f.start <= EndPage(r)
            PROVE  EndPage(h) < e.start
        <5>1. Apart(e, f) /\ f \in Extents
          BY <1>1, <1>5
        <5>. QED  BY <1>2, <2>1, <2>3, <4>2, <5>1 DEF Apart
      <4>. QED  BY <1>3, <4>1, <4>2
    <3>. QED  BY <3>1 DEF Apart
  <2>. QED  BY <2>1, <2>2, <2>3 DEF Apart
<1>8. F \in SUBSET Extents
  BY <1>1, <1>3
<1>9. Sound(F)
  <2>1. \A e, f \in E : e = f \/ Apart(e, f)
    BY SoundApart
  <2>2. \A e, f \in F : e = f \/ Apart(e, f)
    BY <1>7, <2>1
  <2>. QED  BY <1>8, <2>2, ApartSound
<1>10. ASSUME NEW p \in PagesIn(F) PROVE p \in PagesIn(E) \cup PagesOf(r)
  <2>1. PICK e \in F : p \in PagesOf(e)
    BY <1>8, InPagesIn
  <2>2. CASE e \in E
    BY <1>1, <2>1, <2>2, InPagesIn
  <2>3. CASE e = h
    <3>1. p \in Nat /\ h.start <= p /\ p < EndPage(h)
      BY <1>3, <2>1, <2>3, InPagesOf
    <3>2. CASE r.start <= p /\ p < EndPage(r)
      BY <3>1, <3>2, InPagesOf
    <3>3. ASSUME NEW f \in A, f.start <= p, p < EndPage(f) PROVE p \in PagesIn(E)
      <4>1. f \in E /\ f \in Extents /\ p \in PagesOf(f)
        BY <1>1, <3>1, <3>3, InPagesOf
      <4>. QED  BY <1>1, <4>1, InPagesIn
    <3>4. CASE p < r.start
      <4>1. PICK f \in A : h.start = f.start /\ EndPage(f) >= r.start
        BY <1>2, <1>3, <3>1, <3>4
      <4>2. f.start <= p /\ p < EndPage(f)
        BY <1>1, <1>2, <3>1, <3>4, <4>1
      <4>. QED  BY <3>3, <4>2
    <3>5. CASE EndPage(r) <= p
      <4>1. PICK f \in A : EndPage(h) = EndPage(f) /\ f.start <= EndPage(r)
        BY <1>2, <1>3, <3>1, <3>5
      <4>2. f.start <= p /\ p < EndPage(f)
        BY <1>1, <1>2, <3>1, <3>5, <4>1
      <4>. QED  BY <3>3, <4>2
    <3>. QED  BY <1>2, <3>1, <3>2, <3>4, <3>5
  <2>. QED  BY <2>2, <2>3
<1>11. ASSUME NEW p \in PagesIn(E) \cup PagesOf(r) PROVE p \in PagesIn(F)
  <2>1. CASE p \in PagesOf(h)
    BY <1>8, <2>1, InPagesIn
  <2>2. CASE p \in PagesOf(r)
    <3>1. p \in PagesOf(h)
      BY <1>2, <1>3, <2>2, InPagesOf
    <3>. QED  BY <2>1, <3>1
  <2>3. ASSUME NEW e \in E, p \in PagesOf(e) PROVE p \in PagesIn(F)
    <3>1. CASE e \in A
      <4>1. p \in PagesOf(h)
        BY <1>1, <1>2, <1>3, <2>3, <3>1, InPagesOf
      <4>. QED  BY <2>1, <4>1
    <3>2. CASE e \notin A
      BY <1>8, <2>3, <3>2, InPagesIn
    <3>. QED  BY <3>1, <3>2
  <2>. QED  BY <1>1, <2>2, <2>3, InPagesIn
<1>. HIDE DEF F
<1>. QED  BY <1>6, <1>9, <1>10, <1>11

-----------------------------------------------------------------------------
(***************************************************************************)
(* The searches.                                                           *)
(***************************************************************************)
\* The first and the last extent of a set that has any.
LEMMA FirstAndLast ==
    ASSUME NEW S \in SUBSET Extents, S # {}
    PROVE  /\ First(S) \in S
           /\ LastOf(S) \in S /\ \A f \in S : f.start <= LastOf(S).start
<1>1. \A e \in S : e.start \in Nat /\ e.start <= MaxPageId + 1
  BY ExtentFields
<1>2. \E e \in S : \A f \in S : e.start <= f.start
  <2>. DEFINE T == {e.start : e \in S}
  <2>1. T \in SUBSET Nat /\ T # {}
    BY <1>1
  <2>. HIDE DEF T
  <2>2. PICK m \in T : \A n \in T : m <= n
    BY <2>1, LeastNat
  <2>. QED  BY <2>2 DEF T
<1>3. \E e \in S : \A f \in S : e.start >= f.start
  <2>. DEFINE T == {MaxPageId + 1 - e.start : e \in S}
  <2>1. T \in SUBSET Nat /\ T # {}
    BY <1>1
  <2>. HIDE DEF T
  <2>2. PICK m \in T : \A n \in T : m <= n
    BY <2>1, LeastNat
  <2>3. PICK e \in S : m = MaxPageId + 1 - e.start
    BY <2>2 DEF T
  <2>4. ASSUME NEW f \in S PROVE e.start >= f.start
    <3>1. m <= MaxPageId + 1 - f.start
      BY <2>2 DEF T
    <3>. QED  BY <1>1, <2>3, <3>1
  <2>. QED  BY <2>4
<1>4. First(S) \in S
  BY <1>2 DEF First
<1>5. LastOf(S) \in S /\ \A f \in S : LastOf(S).start >= f.start
  BY <1>3 DEF LastOf
<1>. QED  BY <1>1, <1>4, <1>5

\* The extent that stands for "none" is not one of the managed pages.
LEMMA NoneIsNone == NoExtent \notin Extents
BY ExtentFields DEF NoExtent, Extent

\* x is a run of n pages within an extent of E.
RunOf(E, n, x) ==
    /\ x \in Extents /\ x.length = n
    /\ \E e \in E : e.start <= x.start /\ EndPage(x) <= EndPage(e)

\* A run within an extent of the map has pages of the map only.
LEMMA RunIsFree ==
    ASSUME NEW E \in SUBSET Extents, NEW n, NEW x, RunOf(E, n, x)
    PROVE  PagesOf(x) \subseteq PagesIn(E) /\ MayAllocate(E, x)
<1>1. PICK e \in E : e.start <= x.start /\ EndPage(x) <= EndPage(e)
  BY DEF RunOf
<1>2. x \in Extents
  BY DEF RunOf
<1>3. ASSUME NEW p \in PagesOf(x) PROVE p \in PagesIn(E)
  <2>1. p \in PagesOf(e)
    BY <1>1, <1>2, InPagesOf, ExtentFields
  <2>. QED  BY <2>1, InPagesIn
<1>4. Intersects(e, x) /\ IsValid(x)
  BY <1>1, <1>2, ExtentFields DEF Intersects
<1>. QED  BY <1>3, <1>4 DEF MayAllocate

\* The run of n pages at the start of an extent that is long enough, and the one
\* at its end.
LEMMA RunsAtEnds ==
    ASSUME NEW E \in SUBSET Extents, NEW e \in E, NEW n \in Nat, n >= 1, e.length >= n
    PROVE  RunOf(E, n, Extent(e.start, n)) /\ RunOf(E, n, Extent(EndPage(e) - n, n))
<1>1. /\ e.start \in Nat /\ e.length \in Nat /\ e.start >= FirstDataPageId
      /\ EndPage(e) = e.start + e.length /\ EndPage(e) <= MaxPageId + 1
  BY ExtentFields
<1>2. /\ Extent(e.start, n) \in Extents /\ Extent(e.start, n).length = n
      /\ Extent(e.start, n).start = e.start /\ EndPage(Extent(e.start, n)) = e.start + n
  BY <1>1, ExtentMade
<1>3. EndPage(e) - n \in Nat /\ EndPage(e) - n >= e.start /\ EndPage(e) - n + n = EndPage(e)
  BY <1>1
<1>4. /\ Extent(EndPage(e) - n, n) \in Extents /\ Extent(EndPage(e) - n, n).length = n
      /\ Extent(EndPage(e) - n, n).start = EndPage(e) - n
      /\ EndPage(Extent(EndPage(e) - n, n)) = EndPage(e) - n + n
  <2>1. EndPage(e) - n >= FirstDataPageId /\ EndPage(e) - n + n <= MaxPageId + 1
    BY <1>1, <1>3
  <2>. QED  BY <1>3, <2>1, ExtentMade
<1>5. RunOf(E, n, Extent(e.start, n))
  BY <1>1, <1>2 DEF RunOf
<1>6. RunOf(E, n, Extent(EndPage(e) - n, n))
  BY <1>1, <1>3, <1>4 DEF RunOf
<1>. QED  BY <1>5, <1>6

\* findFreeRange and findBestRange return a run of the length asked for if any
\* extent is long enough, and nothing otherwise.
LEMMA FindSound ==
    ASSUME NEW E \in SUBSET Extents, NEW n \in Nat, n >= 1,
           NEW x \in {FindFreeRange(E, n, TRUE), FindFreeRange(E, n, FALSE),
                      FindBestRange(E, n)}
    PROVE  IF \E e \in E : e.length >= n THEN RunOf(E, n, x) ELSE x = NoExtent
<1>. DEFINE fits == {e \in E : e.length >= n}
            best == {e \in fits : \A f \in fits : e.length <= f.length}
<1>1. CASE fits = {}
  <2>1. x = NoExtent
    BY <1>1 DEF FindFreeRange, FindBestRange
  <2>2. ~ \E e \in E : e.length >= n
    BY <1>1
  <2>. QED  BY <2>1, <2>2
<1>2. CASE fits # {}
  <2>1. fits \in SUBSET E /\ fits \in SUBSET Extents /\ best \in SUBSET fits
    OBVIOUS
  <2>2. First(fits) \in fits /\ LastOf(fits) \in fits
    BY <1>2, <2>1, FirstAndLast
  <2>3. best # {}
    <3>. DEFINE T == {e.length : e \in fits}
    <3>1. T \in SUBSET Nat /\ T # {}
      BY <1>2, <2>1, ExtentFields
    <3>. HIDE DEF T
    <3>2. PICK m \in T : \A k \in T : m <= k
      BY <3>1, LeastNat
    <3>3. PICK e \in fits : m = e.length
      BY <3>2 DEF T
    <3>4. \A f \in fits : e.length <= f.length
      BY <3>2, <3>3 DEF T
    <3>. QED  BY <3>3, <3>4
  <2>4. First(best) \in fits
    <3>1. best \in SUBSET Extents
      BY <2>1
    <3>. HIDE DEF best, fits
    <3>. QED  BY <2>1, <2>3, <3>1, FirstAndLast
  <2>5. /\ FindFreeRange(E, n, TRUE) = Extent(First(fits).start, n)
        /\ FindFreeRange(E, n, FALSE) = Extent(EndPage(LastOf(fits)) - n, n)
        /\ FindBestRange(E, n) = Extent(First(best).start, n)
    BY <1>2 DEF FindFreeRange, FindBestRange
  <2>6. \A e \in fits : e \in E /\ e.length >= n
    OBVIOUS
  <2>. HIDE DEF fits, best
  <2>7. RunOf(E, n, x)
    BY <2>2, <2>4, <2>5, <2>6, RunsAtEnds
  <2>. QED  BY <1>2, <2>6, <2>7
<1>. QED  BY <1>1, <1>2

\* findExactRange returns an extent of exactly the length asked for if there is
\* any, and nothing otherwise.
LEMMA FindExactSound ==
    ASSUME NEW E \in SUBSET Extents, NEW n \in Nat, n >= 1
    PROVE  IF \E e \in E : e.length = n THEN RunOf(E, n, FindExactRange(E, n))
           ELSE FindExactRange(E, n) = NoExtent
<1>. DEFINE fits == {e \in E : e.length = n}
<1>1. CASE fits = {}
  BY <1>1 DEF FindExactRange
<1>2. CASE fits # {}
  <2>1. fits \in SUBSET Extents
    OBVIOUS
  <2>2. First(fits) \in fits
    BY <1>2, <2>1, FirstAndLast
  <2>3. FindExactRange(E, n) = First(fits)
    BY <1>2 DEF FindExactRange
  <2>4. First(fits) \in E /\ First(fits).length = n
    BY <2>2
  <2>. HIDE DEF fits
  <2>5. RunOf(E, n, First(fits))
    BY <2>4, ExtentFields DEF RunOf
  <2>. QED  BY <2>3, <2>4, <2>5
<1>. QED  BY <1>1, <1>2

\* A run of free pages lies within one extent: extents that touched would have
\* been merged.
LEMMA RunInExtent ==
    ASSUME NEW E, Sound(E), NEW p \in Nat, NEW n \in Nat, n >= 1,
           p .. p + n - 1 \subseteq PagesIn(E)
    PROVE  \E e \in E : e.start <= p /\ p + n <= EndPage(e) /\ e.length >= n
<1>1. E \in SUBSET Extents
  BY DEF Sound
<1>2. p \in p .. p + n - 1
  OBVIOUS
<1>3. PICK e \in E : p \in PagesOf(e)
  BY <1>1, <1>2, InPagesIn
<1>4. /\ e.start \in Nat /\ EndPage(e) \in Nat /\ e.length \in Nat
      /\ EndPage(e) = e.start + e.length /\ e.start <= p /\ p < EndPage(e)
  BY <1>1, <1>3, ExtentFields, InPagesOf
<1>5. CASE p + n <= EndPage(e)
  BY <1>4, <1>5
<1>6. CASE p + n > EndPage(e)
  <2>1. EndPage(e) \in p .. p + n - 1
    BY <1>4, <1>6
  <2>2. PICK f \in E : EndPage(e) \in PagesOf(f)
    BY <1>1, <2>1, InPagesIn
  <2>3. f.start <= EndPage(e) /\ EndPage(e) < EndPage(f) /\ f.start \in Nat
    BY <1>1, <2>2, ExtentFields, InPagesOf
  <2>4. e = f \/ Apart(e, f)
    BY SoundApart
  <2>. QED  BY <1>1, <1>4, <2>3, <2>4, ExtentFields DEF Apart
<1>. QED  BY <1>4, <1>5, <1>6

\* contains(page), which looks only at the extent that starts at the page and at
\* the one before it, is exact.
LEMMA ContainsSound ==
    ASSUME NEW E, Sound(E), NEW p \in Nat
    PROVE  ContainsPage(E, p) <=> p \in PagesIn(E)
<1>1. E \in SUBSET Extents
  BY DEF Sound
<1>. DEFINE before == {e \in E : e.start < p}
<1>2. ContainsPage(E, p) <=> \/ \E e \in E : e.start = p
                             \/ before # {} /\ p \in PagesOf(LastOf(before))
  BY DEF ContainsPage
<1>3. before # {} => /\ LastOf(before) \in before
                     /\ \A f \in before : f.start <= LastOf(before).start
  <2>1. before \in SUBSET Extents
    BY <1>1
  <2>. HIDE DEF before
  <2>. QED  BY <2>1, FirstAndLast
<1>4. ASSUME ContainsPage(E, p) PROVE p \in PagesIn(E)
  <2>1. ASSUME NEW e \in E, e.start = p PROVE p \in PagesIn(E)
    <3>1. p \in PagesOf(e)
      BY <1>1, <2>1, ExtentFields, InPagesOf
    <3>. QED  BY <1>1, <3>1, InPagesIn
  <2>2. CASE before # {} /\ p \in PagesOf(LastOf(before))
    <3>1. LastOf(before) \in E
      BY <1>3, <2>2
    <3>. QED  BY <1>1, <2>2, <3>1, InPagesIn
  <2>. QED  BY <1>2, <1>4, <2>1, <2>2
<1>5. ASSUME p \in PagesIn(E) PROVE ContainsPage(E, p)
  <2>1. PICK e \in E : p \in PagesOf(e)
    BY <1>1, <1>5, InPagesIn
  <2>2. /\ e.start \in Nat /\ EndPage(e) \in Nat /\ e.start <= p /\ p < EndPage(e)
    BY <1>1, <2>1, ExtentFields, InPagesOf
  <2>3. CASE e.start = p
    BY <1>2, <2>3
  <2>4. CASE e.start < p
    <3>. DEFINE l == LastOf(before)
    <3>1. before # {} /\ e \in before
      BY <2>4
    <3>2. l \in before /\ e.start <= l.start
      BY <1>3, <3>1
    <3>3. l \in E /\ l.start < p
      BY <3>2
    <3>. HIDE DEF l, before
    <3>4. l.start \in Nat /\ EndPage(l) \in Nat /\ l.start < EndPage(l)
      BY <1>1, <3>3, ExtentFields
    <3>5. e = l \/ Apart(e, l)
      BY <3>3, SoundApart
    <3>6. e = l
      BY <2>2, <3>2, <3>3, <3>4, <3>5 DEF Apart
    <3>7. p \in PagesOf(l)
      BY <2>1, <3>6
    <3>. QED  BY <1>2, <3>1, <3>7 DEF l
  <2>. QED  BY <2>2, <2>3, <2>4
<1>. QED  BY <1>4, <1>5

\* The map that initialize() makes is sound and has every managed page.
LEMMA InitializeSound == Sound(Initialize) /\ PagesIn(Initialize) = Pages
<1>. DEFINE e == Extent(FirstDataPageId, MaxPageId - FirstDataPageId + 1)
<1>1. /\ e \in Extents /\ e.start = FirstDataPageId /\ EndPage(e) = MaxPageId + 1
  <2>1. /\ MaxPageId - FirstDataPageId + 1 \in Nat /\ MaxPageId - FirstDataPageId + 1 >= 1
        /\ FirstDataPageId + (MaxPageId - FirstDataPageId + 1) = MaxPageId + 1
    OBVIOUS
  <2>. QED  BY <2>1, ExtentMade
<1>2. Initialize = {e}
  BY DEF Initialize
<1>. HIDE DEF e
<1>3. Sound(Initialize)
  BY <1>1, <1>2, ApartSound
<1>4. PagesOf(e) = Pages
  BY <1>1 DEF PagesOf, Pages
<1>5. PagesIn(Initialize) = Pages
  BY <1>2, <1>4 DEF PagesIn
<1>. QED  BY <1>3, <1>5

-----------------------------------------------------------------------------
(***************************************************************************)
(* countFree and the report of FragmentationAnalyzer.  The number of pages *)
(* in each set of extents is a solution of the equation by which the sum   *)
(* of the lengths is defined, and a smallest set of extents for which the  *)
(* sum were something else cannot exist.                                   *)
(***************************************************************************)
\* The turns of the sum of the lengths of E's extents: h(s) is the sum over s.
SumTurns(E, h) ==
    h = [s \in SUBSET E |->
            IF s = {} THEN 0
            ELSE (CHOOSE e \in s : TRUE).length + h[s \ {CHOOSE e \in s : TRUE}]]

\* countFree() adds up the lengths one extent after the other.
LEMMA CountIsSum ==
    ASSUME NEW E
    PROVE  CountFree(E) = (CHOOSE h : SumTurns(E, h))[E]
BY DEF CountFree, MapThenSumSet, MapThenFoldSet, SumTurns

\* The pages of an extent are as many as its length.
LEMMA PagesOfCount ==
    ASSUME NEW e \in Extents
    PROVE  IsFiniteSet(PagesOf(e)) /\ Cardinality(PagesOf(e)) = e.length
<1>1. /\ e.start \in Int /\ EndPage(e) - 1 \in Int /\ e.start <= EndPage(e) - 1
      /\ (EndPage(e) - 1) - e.start + 1 = e.length
  BY ExtentFields
<1>. QED  BY <1>1, FS_Interval DEF PagesOf

\* The managed pages are finite, and so is every part of them.
LEMMA PagesInFinite ==
    ASSUME NEW E \in SUBSET Extents
    PROVE  /\ IsFiniteSet(PagesIn(E)) /\ Cardinality(PagesIn(E)) \in Nat
           /\ PagesIn(E) \in SUBSET Pages
           /\ IsFiniteSet(Pages) /\ Cardinality(Pages) = MaxPageId - FirstDataPageId + 1
<1>1. IsFiniteSet(Pages) /\ Cardinality(Pages) = MaxPageId - FirstDataPageId + 1
  <2>1. FirstDataPageId \in Int /\ MaxPageId \in Int
    OBVIOUS
  <2>. QED  BY <2>1, FS_Interval DEF Pages
<1>2. PagesIn(E) \in SUBSET Pages
  BY InPagesIn
<1>. QED  BY <1>1, <1>2, FS_Subset, FS_CardinalityType

\* A part of a sound map is sound.
LEMMA SoundPart ==
    ASSUME NEW E, Sound(E), NEW s \in SUBSET E
    PROVE  Sound(s)
BY DEF Sound, Validate

\* Taking an extent from a sound map takes its pages and no other.
LEMMA PagesWithout ==
    ASSUME NEW E, Sound(E), NEW e \in E
    PROVE  Cardinality(PagesIn(E)) = e.length + Cardinality(PagesIn(E \ {e}))
<1>1. E \in SUBSET Extents /\ E \ {e} \in SUBSET Extents /\ e \in Extents
  BY DEF Sound
<1>2. PagesIn(E) = PagesOf(e) \cup PagesIn(E \ {e})
  BY DEF PagesIn
<1>3. ASSUME NEW p \in PagesOf(e), p \in PagesIn(E \ {e}) PROVE FALSE
  <2>1. PICK f \in E \ {e} : p \in PagesOf(f)
    BY <1>1, <1>3, InPagesIn
  <2>2. Apart(e, f)
    BY SoundApart
  <2>3. /\ p \in Nat /\ e.start <= p /\ p < EndPage(e)
        /\ f.start <= p /\ p < EndPage(f)
    BY <1>1, <2>1, InPagesOf
  <2>. QED  BY <1>1, <2>2, <2>3, ExtentFields DEF Apart
<1>4. PagesOf(e) \cap PagesIn(E \ {e}) = {}
  BY <1>3
<1>5. /\ IsFiniteSet(PagesOf(e)) /\ Cardinality(PagesOf(e)) = e.length
      /\ IsFiniteSet(PagesIn(E \ {e})) /\ Cardinality(PagesIn(E \ {e})) \in Nat
  BY <1>1, PagesOfCount, PagesInFinite
<1>6. Cardinality(PagesIn(E))
        = Cardinality(PagesOf(e)) + Cardinality(PagesIn(E \ {e})) - Cardinality({})
  <2>. DEFINE A == PagesOf(e)
              B == PagesIn(E \ {e})
  <2>. HIDE DEF A, B
  <2>1. IsFiniteSet(A) /\ IsFiniteSet(B) /\ A \cap B = {}
    BY <1>4, <1>5 DEF A, B
  <2>2. Cardinality(A \cup B) = Cardinality(A) + Cardinality(B) - Cardinality(A \cap B)
    BY <2>1, FS_Union
  <2>. QED  BY <1>2, <2>1, <2>2 DEF A, B
<1>7. e.length \in Nat
  BY <1>1, ExtentFields
<1>. QED  BY <1>5, <1>6, <1>7, FS_EmptySet

\* The extents of a sound map are finitely many: each starts at a page of its own.
LEMMA SoundFinite ==
    ASSUME NEW E, Sound(E)
    PROVE  /\ IsFiniteSet(E) /\ Cardinality(E) \in Nat
           /\ Cardinality({e.start : e \in E}) = Cardinality(E)
<1>. DEFINE T == {e.start : e \in E}
            start == [e \in E |-> e.start]
<1>1. E \in SUBSET Extents
  BY DEF Sound
<1>2. ASSUME NEW e \in E, NEW f \in E, e.start = f.start PROVE e = f
  BY <1>1, <1>2, SoundApart, ExtentFields DEF Apart
<1>3. start \in Injection(E, T) /\ start \in Surjection(E, T)
  <2>1. start \in [E -> T]
    OBVIOUS
  <2>2. \A e, f \in E : start[e] = start[f] => e = f
    BY <1>2
  <2>3. \A t \in T : \E e \in E : start[e] = t
    OBVIOUS
  <2>. QED  BY <2>1, <2>2, <2>3 DEF Injection, Surjection, IsInjective
<1>4. T \in SUBSET Pages
  <2>1. ASSUME NEW e \in E PROVE e.start \in Pages
    BY <1>1 DEF Extents
  <2>. QED  BY <2>1
<1>5. IsFiniteSet(Pages)
  BY <1>1, PagesInFinite
<1>. HIDE DEF T, start
<1>6. IsFiniteSet(T)
  BY <1>4, <1>5, FS_Subset
<1>7. IsFiniteSet(E) /\ Cardinality(E) = Cardinality(T)
  BY <1>3, <1>6, FS_Injection
<1>. QED  BY <1>7, FS_CardinalityType DEF T

\* countFree() is the number of pages in the map.
LEMMA CountIsExact ==
    ASSUME NEW E, Sound(E)
    PROVE  CountFree(E) = Cardinality(PagesIn(E))
<1>. DEFINE g == [s \in SUBSET E |-> Cardinality(PagesIn(s))]
            h == CHOOSE k : SumTurns(E, k)
            wrong == {s \in SUBSET E : h[s] # g[s]}
            sizes == {Cardinality(s) : s \in wrong}
<1>1. E \in SUBSET Extents /\ IsFiniteSet(E)
  BY SoundFinite DEF Sound
<1>2. Cardinality(PagesIn({})) = 0
  <2>1. PagesIn({}) = {}
    BY DEF PagesIn
  <2>. QED  BY <2>1, FS_EmptySet
<1>3. ASSUME NEW s \in SUBSET E, s # {}
      PROVE  LET e == CHOOSE x \in s : TRUE
             IN  /\ e \in s /\ s \ {e} \in SUBSET E
                 /\ Cardinality(PagesIn(s)) = e.length + Cardinality(PagesIn(s \ {e}))
  <2>1. (CHOOSE x \in s : TRUE) \in s
    BY <1>3
  <2>. DEFINE e == CHOOSE x \in s : TRUE
  <2>. HIDE DEF e
  <2>2. e \in s
    BY <2>1 DEF e
  <2>3. Sound(s)
    BY SoundPart
  <2>4. Cardinality(PagesIn(s)) = e.length + Cardinality(PagesIn(s \ {e}))
    BY <2>2, <2>3, PagesWithout
  <2>. QED  BY <2>2, <2>4 DEF e
<1>4. SumTurns(E, g)
  <2>1. ASSUME NEW s \in SUBSET E
        PROVE  g[s] = IF s = {} THEN 0
                      ELSE (CHOOSE e \in s : TRUE).length + g[s \ {CHOOSE e \in s : TRUE}]
    BY <1>2, <1>3
  <2>. QED  BY <2>1 DEF SumTurns
<1>5. SumTurns(E, h)
  <2>. HIDE DEF g
  <2>. QED  BY <1>4
<1>. HIDE DEF g, h
<1>6. ASSUME NEW s \in SUBSET E
      PROVE  h[s] = IF s = {} THEN 0
                    ELSE (CHOOSE e \in s : TRUE).length + h[s \ {CHOOSE e \in s : TRUE}]
  BY <1>5 DEF SumTurns
<1>7. ASSUME wrong # {} PROVE FALSE
  <2>1. \A s \in wrong : IsFiniteSet(s) /\ Cardinality(s) \in Nat
    BY <1>1, FS_Subset, FS_CardinalityType
  <2>2. sizes \in SUBSET Nat /\ sizes # {}
    BY <1>7, <2>1
  <2>. HIDE DEF sizes
  <2>3. PICK n \in sizes : \A m \in sizes : n <= m
    BY <2>2, LeastNat
  <2>. USE DEF sizes
  <2>4. PICK s \in wrong : n = Cardinality(s)
    OBVIOUS
  <2>. DEFINE e == CHOOSE x \in s : TRUE
  <2>5. s # {}
    BY <1>2, <1>6, <2>4 DEF g
  <2>6. /\ e \in s /\ s \ {e} \in SUBSET E
        /\ Cardinality(PagesIn(s)) = e.length + Cardinality(PagesIn(s \ {e}))
        /\ h[s] = e.length + h[s \ {e}]
    BY <1>3, <1>6, <2>5
  <2>. HIDE DEF e
  <2>7. s \ {e} \in wrong
    BY <2>6 DEF g
  <2>8. Cardinality(s \ {e}) = n - 1
    BY <2>1, <2>4, <2>6, FS_RemoveElement
  <2>9. n <= n - 1 /\ n \in Nat
    BY <2>2, <2>3, <2>7, <2>8
  <2>. QED  BY <2>9
<1>8. h[E] = g[E]
  BY <1>7
<1>9. CountFree(E) = h[E]
  BY CountIsSum DEF h
<1>. QED  BY <1>8, <1>9 DEF g

\* The free pages that begin a run are the pages that begin an extent.
LEMMA StartsAreStarts ==
    ASSUME NEW E, Sound(E)
    PROVE  {p \in PagesIn(E) : p - 1 \notin PagesIn(E)} = {e.start : e \in E}
<1>1. E \in SUBSET Extents
  BY DEF Sound
<1>2. ASSUME NEW e \in E PROVE e.start \in PagesIn(E) /\ e.start - 1 \notin PagesIn(E)
  <2>1. e.start \in PagesOf(e)
    BY <1>1, ExtentFields, InPagesOf
  <2>2. ASSUME NEW f \in E, e.start - 1 \in PagesOf(f) PROVE FALSE
    <3>1. e.start - 1 \in Nat /\ f.start <= e.start - 1 /\ e.start - 1 < EndPage(f)
      BY <1>1, <2>2, InPagesOf
    <3>2. e = f \/ Apart(e, f)
      BY SoundApart
    <3>. QED  BY <1>1, <3>1, <3>2, ExtentFields DEF Apart
  <2>. QED  BY <1>1, <2>1, <2>2, InPagesIn
<1>3. ASSUME NEW p \in PagesIn(E), p - 1 \notin PagesIn(E) PROVE \E e \in E : p = e.start
  <2>1. PICK e \in E : p \in PagesOf(e)
    BY <1>1, InPagesIn
  <2>2. p \in Nat /\ e.start \in Nat /\ e.start <= p /\ p < EndPage(e) /\ EndPage(e) \in Nat
    BY <1>1, <2>1, InPagesOf, ExtentFields
  <2>3. CASE e.start < p
    <3>1. p - 1 \in PagesOf(e)
      BY <1>1, <2>2, <2>3, InPagesOf
    <3>. QED  BY <1>1, <1>3, <3>1, InPagesIn
  <2>. QED  BY <2>2, <2>3
<1>. QED  BY <1>2, <1>3

\* The longest run of free pages from the start of an extent is the extent.
LEMMA RunFromStart ==
    ASSUME NEW E, Sound(E), NEW e \in E, NEW total, total = Cardinality(Pages)
    PROVE  Max({n \in 1 .. total : e.start .. e.start + n - 1 \subseteq PagesIn(E)}) = e.length
<1>. DEFINE S == {n \in 1 .. total : e.start .. e.start + n - 1 \subseteq PagesIn(E)}
<1>1. E \in SUBSET Extents /\ e \in Extents
  BY DEF Sound
<1>2. total = MaxPageId - FirstDataPageId + 1
  BY <1>1, PagesInFinite
<1>3. /\ e.start \in Nat /\ e.length \in Nat /\ e.length >= 1 /\ e.length <= total
      /\ EndPage(e) = e.start + e.length
  BY <1>1, <1>2, ExtentFields
<1>4. e.length \in S
  <2>1. e.start .. e.start + e.length - 1 = PagesOf(e)
    BY <1>3 DEF PagesOf
  <2>2. PagesOf(e) \subseteq PagesIn(E)
    BY DEF PagesIn
  <2>. QED  BY <1>2, <1>3, <2>1, <2>2
<1>5. ASSUME NEW n \in S PROVE n <= e.length
  <2>1. n \in Nat /\ n >= 1 /\ e.start .. e.start + n - 1 \subseteq PagesIn(E)
    BY <1>2
  <2>2. PICK f \in E : f.start <= e.start /\ e.start + n <= EndPage(f)
    BY <1>3, <2>1, RunInExtent
  <2>3. e = f \/ Apart(e, f)
    BY SoundApart
  <2>. QED  BY <1>1, <1>3, <2>1, <2>2, <2>3, ExtentFields DEF Apart
<1>6. S \in SUBSET Nat
  BY <1>2
<1>. HIDE DEF S
<1>7. Max(S) = e.length
  <2>1. \A n \in S : e.length >= n
    BY <1>3, <1>5, <1>6
  <2>2. Max(S) \in S /\ \A n \in S : Max(S) >= n
    BY <1>4, <2>1 DEF Max
  <2>3. Max(S) \in Nat /\ Max(S) <= e.length /\ Max(S) >= e.length
    BY <1>4, <1>5, <1>6, <2>2
  <2>. QED  BY <1>3, <2>3
<1>. QED  BY <1>7 DEF S

\* The lengths of the runs of pages in F, each taken from the page that begins it.
RunsIn(F, total) ==
    {Max({n \in 1 .. total : p .. p + n - 1 \subseteq F}) : p \in {q \in F : q - 1 \notin F}}

\* The lengths of the runs of free pages are the lengths of the extents.
LEMMA RunsAreLengths ==
    ASSUME NEW E, Sound(E)
    PROVE  RunsIn(PagesIn(E), Cardinality(Pages)) = {e.length : e \in E}
<1>. DEFINE F == PagesIn(E)
            total == Cardinality(Pages)
<1>. DEFINE run(p) == Max({n \in 1 .. total : p .. p + n - 1 \subseteq F})
<1>1. {q \in F : q - 1 \notin F} = {e.start : e \in E}
  BY StartsAreStarts
<1>2. \A e \in E : run(e.start) = e.length
  BY RunFromStart
<1>. HIDE DEF run
<1>3. {run(p) : p \in {e.start : e \in E}} = {e.length : e \in E}
  BY <1>2
<1>. QED  BY <1>1, <1>3 DEF run, RunsIn

\* The largest extent of a map that has one is as long as one of its extents, and
\* none is longer.
LEMMA LargestIs ==
    ASSUME NEW E \in SUBSET Extents
    PROVE  /\ LargestFreeExtent(E) \in Nat
           /\ \A e \in E : e.length <= LargestFreeExtent(E)
           /\ E # {} => \E e \in E : e.length = LargestFreeExtent(E)
<1>. DEFINE S == {0} \cup {e.length : e \in E}
            T == {MaxPageId + 1 - n : n \in S}
<1>1. \A e \in E : e.length \in Nat /\ e.length >= 1 /\ e.length <= MaxPageId + 1
  BY ExtentFields
<1>2. \A n \in S : n \in Nat /\ n <= MaxPageId + 1
  BY <1>1
<1>3. \E m \in S : \A n \in S : m >= n
  <2>1. T \in SUBSET Nat /\ T # {}
    BY <1>2
  <2>. HIDE DEF T
  <2>2. PICK k \in T : \A j \in T : k <= j
    BY <2>1, LeastNat
  <2>3. PICK m \in S : k = MaxPageId + 1 - m
    BY <2>2 DEF T
  <2>4. ASSUME NEW n \in S PROVE m >= n
    <3>1. k <= MaxPageId + 1 - n
      BY <2>2 DEF T
    <3>. HIDE DEF S
    <3>. QED  BY <1>2, <2>3, <3>1
  <2>. QED  BY <2>4
<1>4. LargestFreeExtent(E) \in S /\ \A n \in S : LargestFreeExtent(E) >= n
  BY <1>3 DEF LargestFreeExtent, Max
<1>5. \A e \in E : e.length <= LargestFreeExtent(E)
  BY <1>1, <1>2, <1>4
<1>6. ASSUME E # {} PROVE \E e \in E : e.length = LargestFreeExtent(E)
  BY <1>1, <1>2, <1>4, <1>5, <1>6
<1>. QED  BY <1>2, <1>4, <1>5, <1>6

\* The free pages that are not in the largest extent: none with at most one extent,
\* some with two.
LEMMA OutsideLargest ==
    ASSUME NEW E, Sound(E)
    PROVE  /\ CountFree(E) \in Nat
           /\ E = {} => CountFree(E) = 0
           /\ Cardinality(E) = 1 => CountFree(E) = LargestFreeExtent(E)
           /\ Cardinality(E) > 1 => CountFree(E) > LargestFreeExtent(E)
<1>1. /\ E \in SUBSET Extents /\ IsFiniteSet(E) /\ Cardinality(E) \in Nat
  BY SoundFinite DEF Sound
<1>2. CountFree(E) = Cardinality(PagesIn(E)) /\ CountFree(E) \in Nat
  BY <1>1, CountIsExact, PagesInFinite
<1>3. PagesIn({}) = {} /\ Cardinality({}) = 0
  BY FS_EmptySet DEF PagesIn
<1>4. ASSUME NEW e \in E, e.length = LargestFreeExtent(E)
      PROVE  /\ CountFree(E) = LargestFreeExtent(E) + Cardinality(PagesIn(E \ {e}))
             /\ Cardinality(PagesIn(E \ {e})) \in Nat
             /\ E = {e} \/ Cardinality(PagesIn(E \ {e})) > 0
  <2>1. E \ {e} \in SUBSET Extents /\ Sound(E \ {e})
    BY <1>1, SoundPart
  <2>2. Cardinality(PagesIn(E \ {e})) \in Nat
    BY <2>1, PagesInFinite
  <2>3. ASSUME NEW f \in E \ {e} PROVE Cardinality(PagesIn(E \ {e})) > 0
    <3>. DEFINE D == E \ {e}
    <3>. HIDE DEF D
    <3>1. f \in D /\ Sound(D) /\ D \in SUBSET Extents /\ D \ {f} \in SUBSET Extents
      BY <2>1 DEF D
    <3>2. Cardinality(PagesIn(D)) = f.length + Cardinality(PagesIn(D \ {f}))
      BY <3>1, PagesWithout
    <3>3. Cardinality(PagesIn(D \ {f})) \in Nat /\ f.length \in Nat /\ f.length >= 1
      BY <3>1, PagesInFinite, ExtentFields
    <3>. QED  BY <3>2, <3>3 DEF D
  <2>. QED  BY <1>2, <1>4, <2>2, <2>3, PagesWithout
<1>5. LargestFreeExtent(E) \in Nat /\ (E # {} => \E e \in E : e.length = LargestFreeExtent(E))
  BY <1>1, LargestIs
<1>6. ASSUME Cardinality(E) = 1 PROVE CountFree(E) = LargestFreeExtent(E)
  <2>1. PICK x : E = {x}
    BY <1>1, <1>6, FS_Singleton
  <2>2. x \in E /\ x.length = LargestFreeExtent(E) /\ E \ {x} = {}
    BY <1>5, <2>1
  <2>. QED  BY <1>3, <1>4, <1>5, <2>2
<1>7. ASSUME Cardinality(E) > 1 PROVE CountFree(E) > LargestFreeExtent(E)
  <2>1. E # {} /\ \A x : E # {x}
    BY <1>3, <1>7, FS_Singleton
  <2>2. PICK e \in E : e.length = LargestFreeExtent(E)
    BY <1>5, <2>1
  <2>3. /\ CountFree(E) = LargestFreeExtent(E) + Cardinality(PagesIn(E \ {e}))
        /\ Cardinality(PagesIn(E \ {e})) \in Nat /\ Cardinality(PagesIn(E \ {e})) > 0
    BY <1>4, <2>1, <2>2
  <2>. QED  BY <1>5, <2>3
<1>. QED  BY <1>2, <1>3, <1>6, <1>7

\* The figures of the fragmentation report.
LEMMA ReportIs ==
    ASSUME NEW E, Sound(E), NEW total \in Nat
    PROVE  LET report == Analyze(E, total)
           IN  /\ report.fragmentation[1] > 0 <=> Cardinality(E) > 1
               /\ report.recommendation = "defragment"
                    <=> E # {} /\ \A e \in E : 2 * e.length < CountFree(E)
<1>. DEFINE frag == CalculateFragmentation(E)
            all == CountFree(E)
            most == LargestFreeExtent(E)
            size == Cardinality(E)
<1>1. /\ E \in SUBSET Extents /\ size \in Nat /\ (size = 0 <=> E = {})
  BY SoundFinite, FS_EmptySet DEF Sound
<1>2. /\ most \in Nat /\ (\A e \in E : e.length <= most)
      /\ E # {} => \E e \in E : e.length = most
  BY <1>1, LargestIs
<1>3. /\ all \in Nat /\ (E = {} => all = 0) /\ (size = 1 => all = most)
      /\ size > 1 => all > most
  BY OutsideLargest
<1>4. \A e \in E : e.length \in Nat /\ e.length >= 1
  BY <1>1, ExtentFields
<1>5. frag = IF size <= 1 THEN <<0, 1>> ELSE <<all - most, all>>
  BY DEF CalculateFragmentation
<1>6. /\ Analyze(E, total).fragmentation = frag
      /\ Analyze(E, total).recommendation = "defragment" <=> MorePercent(frag, 50)
  BY DEF Analyze
<1>. HIDE DEF frag, all, most, size
<1>7. frag[1] > 0 <=> size > 1
  BY <1>1, <1>2, <1>3, <1>5
<1>8. MorePercent(frag, 50) <=> size > 1 /\ 2 * most < all
  BY <1>1, <1>2, <1>3, <1>5 DEF MorePercent
<1>9. size > 1 /\ 2 * most < all <=> E # {} /\ \A e \in E : 2 * e.length < all
  <2>1. ASSUME size > 1, 2 * most < all PROVE E # {} /\ \A e \in E : 2 * e.length < all
    BY <1>1, <1>2, <1>3, <1>4, <2>1
  <2>2. ASSUME E # {}, \A e \in E : 2 * e.length < all PROVE size > 1 /\ 2 * most < all
    <3>1. 2 * most < all
      BY <1>2, <2>2
    <3>2. size # 0 /\ size # 1
      BY <1>1, <1>2, <1>3, <2>2, <3>1
    <3>. QED  BY <1>1, <3>1, <3>2
  <2>. QED  BY <2>1, <2>2
<1>. QED  BY <1>6, <1>7, <1>8, <1>9 DEF all, size

-----------------------------------------------------------------------------
(***************************************************************************)
(* The maps that can be reached.                                           *)
(***************************************************************************)
\* The inductive invariant: the map is sound, and no page that the calls left free
\* is missing.  Without soundness merging could lose the pages of an extent that
\* overlaps another one.
MapInv == Sound(map) /\ free \subseteq MapPages

\* markAllocated preserves the invariant.
LEMMA MarkAllocatedInv ==
    ASSUME MapInv, NEW r \in Extents, MarkAllocated(r) PROVE MapInv'
<1>1. /\ Sound(AfterMarkAllocated(map, r))
      /\ PagesIn(map) \ PagesOf(r) \subseteq PagesIn(AfterMarkAllocated(map, r))
  BY MarkAllocatedSound DEF MapInv
<1>2. ~ MayAllocate(map, r) => AfterMarkAllocated(map, r) = map
  BY DEF AfterMarkAllocated
<1>. QED  BY <1>1, <1>2 DEF MapInv, MarkAllocated, MapPages

\* markFree preserves the invariant.
LEMMA MarkFreeInv ==
    ASSUME MapInv, NEW r \in Extents, MarkFree(r) PROVE MapInv'
<1>1. /\ Sound(AfterMarkFree(map, r))
      /\ PagesIn(AfterMarkFree(map, r)) = PagesIn(map) \cup PagesOf(r)
  BY MarkFreeSound DEF MapInv
<1>. QED  BY <1>1 DEF MapInv, MarkFree, MapPages

\* Every step preserves the invariant.
LEMMA NextMapInv == MapInv /\ [MapNext]_mapVars => MapInv'
<1>. SUFFICES ASSUME MapInv, [MapNext]_mapVars PROVE MapInv'
  OBVIOUS
<1>1. CASE UNCHANGED mapVars
  BY <1>1 DEF mapVars, MapInv, MapPages
<1>2. CASE Clear
  <2>1. Sound({})
    BY ApartSound
  <2>. QED  BY <1>2, <2>1 DEF Clear, MapInv
<1>. QED  BY <1>1, <1>2, MarkAllocatedInv, MarkFreeInv DEF MapNext

\* In every reachable state of the map the inductive invariant holds.
THEOREM MapInvariance == MapSpec => []MapInv
<1>1. MapInit => MapInv
  BY InitializeSound DEF MapInit, MapInv, MapPages
<1>. QED  BY <1>1, NextMapInv, PTL DEF MapSpec

\* No sequence of FreeSpaceMap::markAllocated, markFree and clear forgets a free
\* page, for any number of pages and however the ranges overlap.
THEOREM PagesAreKept == MapSpec => []NeverLosesPages
<1>1. MapInv => NeverLosesPages
  BY DEF MapInv, NeverLosesPages
<1>. QED  BY <1>1, MapInvariance, PTL

\* FreeSpaceMap::validate() accepts every map that the class can produce: its
\* extents are valid, disjoint and never adjacent.
THEOREM MapValidates == MapSpec => []Validate(map)
<1>1. MapInv => Validate(map)
  BY DEF MapInv, Sound
<1>. QED  BY <1>1, MapInvariance, PTL

\* FreeSpaceMap::contains, a binary search that looks at two extents, is exact for
\* every page.
THEOREM ContainsIsExact == MapSpec => []ContainsExact
<1>1. MapInv => ContainsExact
  BY ContainsSound DEF MapInv, ContainsExact, MapPages, Pages
<1>. QED  BY <1>1, MapInvariance, PTL

\* FreeSpaceMap::findFreeRange (from the front and from the back) and findBestRange
\* return a free run of the length asked for exactly if there is one.
THEOREM FindsAreExact == MapSpec => []FindsExact
<1>1. ASSUME MapInv PROVE FindsExact
  <2>. SUFFICES ASSUME NEW n \in 1 .. MaxPageId + 1 - FirstDataPageId,
                       NEW x \in {FindFreeRange(map, n, TRUE),
                                  FindFreeRange(map, n, FALSE),
                                  FindBestRange(map, n)}
                PROVE  /\ x # NoExtent <=> \E p \in Pages : p .. p + n - 1 \subseteq MapPages
                       /\ x # NoExtent => x.length = n /\ PagesOf(x) \subseteq MapPages
    BY DEF FindsExact
  <2>1. map \in SUBSET Extents /\ n \in Nat /\ n >= 1
    BY <1>1 DEF MapInv, Sound
  <2>2. IF \E e \in map : e.length >= n THEN RunOf(map, n, x) ELSE x = NoExtent
    BY <2>1, FindSound
  <2>3. ASSUME RunOf(map, n, x)
        PROVE  /\ x # NoExtent /\ x.length = n /\ PagesOf(x) \subseteq MapPages
               /\ \E p \in Pages : p .. p + n - 1 \subseteq MapPages
    <3>1. x \in Extents /\ x.length = n
      BY <2>3 DEF RunOf
    <3>2. x # NoExtent
      BY <3>1, NoneIsNone
    <3>3. PagesOf(x) \subseteq MapPages
      BY <2>1, <2>3, RunIsFree DEF MapPages
    <3>4. x.start \in Pages /\ PagesOf(x) = x.start .. x.start + n - 1
      BY <3>1, ExtentFields DEF PagesOf, Pages
    <3>. QED  BY <3>1, <3>2, <3>3, <3>4
  <2>4. ASSUME NEW p \in Pages, p .. p + n - 1 \subseteq MapPages
        PROVE  \E e \in map : e.length >= n
    <3>1. p \in Nat /\ Sound(map)
      BY <1>1 DEF Pages, MapInv
    <3>. QED  BY <2>1, <2>4, <3>1, RunInExtent DEF MapPages
  <2>. QED  BY <2>2, <2>3, <2>4
<1>. QED  BY <1>1, MapInvariance, PTL

\* The report of FragmentationAnalyzer is exact: the number of extents and of free
\* pages, the largest and the smallest extent, the density and the recommendation
\* are what the free pages alone say.
THEOREM ReportIsExact == MapSpec => []ReportExact
<1>1. ASSUME MapInv PROVE ReportExact
  <2>. DEFINE total  == Cardinality(Pages)
              report == Analyze(map, total)
              starts == {p \in MapPages : p - 1 \notin MapPages}
              runs   == {Max({n \in 1 .. total : p .. p + n - 1 \subseteq MapPages}) : p \in starts}
  <2>1. /\ Sound(map) /\ map \in SUBSET Extents /\ Validate(map)
        /\ MapPages = PagesIn(map)
    BY <1>1 DEF MapInv, Sound, MapPages
  <2>2. /\ IsFiniteSet(Pages) /\ total \in Nat /\ total > 0
        /\ MapPages \in SUBSET Pages
    <3>1. IsFiniteSet(Pages) /\ total = MaxPageId - FirstDataPageId + 1
          /\ MapPages \in SUBSET Pages
      BY <2>1, PagesInFinite
    <3>. QED  BY <3>1, SpaceAssumption
  <2>3. starts = {e.start : e \in map}
    BY <2>1, StartsAreStarts
  <2>4. runs = {e.length : e \in map}
    <3>1. runs = RunsIn(MapPages, total)
      BY DEF RunsIn
    <3>. HIDE DEF runs
    <3>. QED  BY <2>1, <3>1, RunsAreLengths
  <2>5. Cardinality(starts) = Cardinality(map)
    BY <2>1, <2>3, SoundFinite
  <2>6. CountFree(map) = Cardinality(MapPages)
    BY <2>1, CountIsExact
  <2>. HIDE DEF total, starts, runs
  <2>7. /\ report.extentCount = Cardinality(map)
        /\ report.totalFreePages = CountFree(map)
        /\ report.largest = LargestFreeExtent(map)
        /\ report.smallest = IF map = {} THEN 0 ELSE Min({e.length : e \in map})
        /\ report.density = AllocationDensity(map, total)
    BY DEF Analyze
  <2>8. AllocationDensity(map, total) = <<Cardinality(Pages \ MapPages), total>>
    <3>1. Cardinality(Pages \ MapPages) = Cardinality(Pages) - Cardinality(Pages \cap MapPages)
      BY <2>2, FS_Difference
    <3>2. Pages \cap MapPages = MapPages
      BY <2>2
    <3>3. Cardinality(Pages \ MapPages) = total - CountFree(map)
      BY <2>6, <3>1, <3>2 DEF total
    <3>. QED  BY <2>2, <3>3 DEF AllocationDensity
  <2>9. /\ report.fragmentation[1] > 0 <=> Cardinality(map) > 1
        /\ report.recommendation = "defragment"
             <=> map # {} /\ \A e \in map : 2 * e.length < CountFree(map)
    BY <2>1, <2>2, ReportIs
  <2>. HIDE DEF report
  <2>10. runs = {} <=> map = {}
    BY <2>4
  <2>11. report.largest = Max({0} \cup runs)
    BY <2>4, <2>7 DEF LargestFreeExtent
  <2>12. report.smallest = IF runs = {} THEN 0 ELSE Min(runs)
    BY <2>4, <2>7, <2>10
  <2>13. report.recommendation = "defragment"
           <=> runs # {} /\ \A n \in runs : 2 * n < Cardinality(MapPages)
    BY <2>4, <2>6, <2>9, <2>10
  <2>. QED
    BY <2>1, <2>5, <2>6, <2>7, <2>8, <2>9, <2>11, <2>12, <2>13
    DEF ReportExact, total, report, starts, runs
<1>. QED  BY <1>1, MapInvariance, PTL

\* contains, the searches for a run and the report say exactly what the free pages
\* say, in every state that the map can reach and for any number of pages.
THEOREM SearchesAreSound == MapSpec => []SearchesSound
BY ContainsIsExact, FindsAreExact, ReportIsExact, PTL DEF SearchesSound
=============================================================================
