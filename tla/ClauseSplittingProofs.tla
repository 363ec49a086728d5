------------------------ MODULE ClauseSplittingProofs ------------------------
(***************************************************************************)
(* Theorems about ClauseSplitting, for every text, every answer of the     *)
(* model and any limits: what the cleaner cut is what it reports           *)
(* (CleanedIsCut), no text of a segment is lost or doubled on its way into *)
(* the clauses (SegmentsOnce), and a clause is located where its text was  *)
(* (LocatorsCover).                                                        *)
(***************************************************************************)
EXTENDS ClauseSplitting, FiniteSetTheorems, WellFoundedInduction, TLAPS

-----------------------------------------------------------------------------
(* Numbers: the least, the greatest, the ones in order *)

LEMMA LeastNat ==
  ASSUME NEW T \in SUBSET Nat, T # {}
  PROVE  \E x \in T : \A y \in T : x <= y
<1>1. PICK x \in T : \A y \in T : ~ (<<y, x>> \in OpToRel(<, Nat))
  BY NatLessThanWellFounded, WFMin, Zenon
<1>2. \A y \in T : ~ (y < x)
  BY <1>1 DEF OpToRel
<1> QED
  BY <1>2

LEMMA GreatestNat ==
  ASSUME NEW n \in Nat, NEW T \in SUBSET (0 .. n), T # {}
  PROVE  \E x \in T : \A y \in T : y <= x
<1> DEFINE D == {n - x : x \in T}
<1>1. D \in SUBSET Nat
  <2>1. \A x \in T : n - x \in Nat
    OBVIOUS
  <2> QED
    BY <2>1
<1>2. D # {}
  BY <1>1
<1>3. PICK d \in D : \A e \in D : d <= e
  <2> HIDE DEF D
  <2> QED
    BY <1>1, <1>2, LeastNat
<1>4. PICK x \in T : d = n - x
  BY <1>3
<1>5. ASSUME NEW y \in T PROVE y <= x
  <2>1. n - y \in D
    OBVIOUS
  <2> QED
    BY <1>3, <1>4, <2>1
<1> QED
  BY <1>5

(* How many of S are no greater than x.                                    *)
UpTo(S, x) == {y \in S : y <= x}
Rank(S, x) == Cardinality(UpTo(S, x))

LEMMA RankRises ==
  ASSUME NEW S \in SUBSET Nat, IsFiniteSet(S), NEW x \in S, NEW y \in S
  PROVE  /\ Rank(S, x) \in 1 .. Cardinality(S)
         /\ x < y => Rank(S, x) < Rank(S, y)
         /\ Rank(S, x) = Rank(S, y) => x = y
<1>1. ASSUME NEW z \in S
      PROVE  /\ UpTo(S, z) \in SUBSET S /\ IsFiniteSet(UpTo(S, z))
             /\ Rank(S, z) \in Nat /\ Rank(S, z) <= Cardinality(S) /\ Rank(S, z) # 0
  <2>1. UpTo(S, z) \in SUBSET S /\ z \in UpTo(S, z)
    BY DEF UpTo
  <2>2. IsFiniteSet(UpTo(S, z)) /\ Rank(S, z) <= Cardinality(S)
    BY <2>1, FS_Subset DEF Rank
  <2>3. Rank(S, z) \in Nat
    BY <2>2, FS_CardinalityType DEF Rank
  <2>4. Rank(S, z) # 0
    BY <2>1, <2>2, FS_EmptySet DEF Rank
  <2> QED
    BY <2>1, <2>2, <2>3, <2>4
<1>2. Cardinality(S) \in Nat
  BY FS_CardinalityType
<1>3. ASSUME NEW a \in S, NEW b \in S, a < b PROVE Rank(S, a) < Rank(S, b)
  <2>0. a \in Nat /\ b \in Nat /\ \A z \in S : z \in Nat
    OBVIOUS
  <2>1. UpTo(S, a) \in SUBSET UpTo(S, b) /\ b \in UpTo(S, b) /\ b \notin UpTo(S, a)
    <3>1. \A z \in UpTo(S, a) : z \in UpTo(S, b)
      BY <1>3, <2>0 DEF UpTo
    <3>2. b \in UpTo(S, b) /\ b \notin UpTo(S, a)
      BY <1>3, <2>0 DEF UpTo
    <3> QED
      BY <3>1, <3>2
  <2>2. Rank(S, a) <= Rank(S, b) /\ Rank(S, a) # Rank(S, b)
    BY <1>1, <2>1, FS_Subset DEF Rank
  <2> QED
    BY <1>1, <2>2
<1>4. Rank(S, x) = Rank(S, y) => x = y
  <2>1. x < y \/ y < x \/ x = y
    OBVIOUS
  <2>2. Rank(S, x) \in Nat /\ Rank(S, y) \in Nat
    BY <1>1
  <2> QED
    BY <1>3, <2>1, <2>2
<1> QED
  BY <1>1, <1>2, <1>3, <1>4

(* Sorted lists a finite set once, from the least number on.               *)
LEMMA SortedIs ==
  ASSUME NEW S \in SUBSET Nat, IsFiniteSet(S)
  PROVE  /\ Cardinality(S) \in Nat
         /\ Sorted(S) \in [1 .. Cardinality(S) -> S]
         /\ \A x \in S : \E k \in 1 .. Cardinality(S) : Sorted(S)[k] = x
         /\ \A j, k \in 1 .. Cardinality(S) : j < k => Sorted(S)[j] < Sorted(S)[k]
         /\ \A k \in 1 .. Cardinality(S) : Rank(S, Sorted(S)[k]) = k
<1>1. PICK n \in Nat : n = Cardinality(S)
  BY FS_CardinalityType
<1>2. PICK f : f = [x \in S |-> Rank(S, x)]
  OBVIOUS
<1>3. f \in [S -> 1 .. n] /\ \A x, y \in S : f[x] = f[y] => x = y
  BY <1>1, <1>2, RankRises
<1>4. f \in Injection(S, 1 .. n)
  BY <1>3 DEF Injection, IsInjective
<1>5. IsFiniteSet(1 .. n) /\ Cardinality(1 .. n) = n
  BY FS_Interval
<1>6. f \in Surjection(S, 1 .. n)
  BY <1>1, <1>4, <1>5, FS_Injection
<1>7. \A k \in 1 .. n : \E x \in S : Rank(S, x) = k
  BY <1>2, <1>6 DEF Surjection
<1>8. ASSUME NEW k \in 1 .. n
      PROVE  Sorted(S)[k] \in S /\ Rank(S, Sorted(S)[k]) = k
  <2>1. Sorted(S)[k] = CHOOSE x \in S : Cardinality({y \in S : y <= x}) = k
    BY <1>1 DEF Sorted
  <2>2. \E x \in S : Cardinality({y \in S : y <= x}) = k
    BY <1>7 DEF Rank, UpTo
  <2> QED
    BY <2>1, <2>2 DEF Rank, UpTo
<1>9. Sorted(S) \in [1 .. n -> S]
  <2>1. DOMAIN Sorted(S) = 1 .. n /\ Sorted(S) = [k \in 1 .. n |-> Sorted(S)[k]]
    BY <1>1 DEF Sorted
  <2> QED
    BY <1>8, <2>1
<1>10. ASSUME NEW x \in S PROVE \E k \in 1 .. n : Sorted(S)[k] = x
  <2>1. Rank(S, x) \in 1 .. n
    BY <1>1, RankRises
  <2>2. Sorted(S)[Rank(S, x)] \in S /\ Rank(S, Sorted(S)[Rank(S, x)]) = Rank(S, x)
    BY <1>8, <2>1
  <2>3. Sorted(S)[Rank(S, x)] = x
    BY <2>2, RankRises
  <2> QED
    BY <2>1, <2>3
<1>11. ASSUME NEW j \in 1 .. n, NEW k \in 1 .. n, j < k
       PROVE  Sorted(S)[j] < Sorted(S)[k]
  <2>1. PICK a \in S, b \in S : a = Sorted(S)[j] /\ b = Sorted(S)[k]
    BY <1>8
  <2>2. Rank(S, a) = j /\ Rank(S, b) = k
    BY <1>8, <2>1
  <2>3. ~(b < a) /\ a # b
    BY <1>11, <2>2, RankRises
  <2> QED
    BY <2>1, <2>3
<1> QED
  BY <1>1, <1>8, <1>9, <1>10, <1>11

-----------------------------------------------------------------------------
(* Lines *)

LEMMA LineEndIs ==
  ASSUME NEW t \in Seq(Letters), NEW p \in 1 .. Len(t) + 1
  PROVE  /\ LineEnd(t, p) \in p .. Len(t) + 1
         /\ LineEnd(t, p) = Len(t) + 1 \/ t[LineEnd(t, p)] = "/"
         /\ \A q \in p .. LineEnd(t, p) - 1 : t[q] # "/"
<1>0. PICK n \in Nat : n = Len(t)
  OBVIOUS
<1>1. PICK S \in SUBSET Nat : S = {e \in p .. n + 1 : e = n + 1 \/ t[e] = "/"}
  <2>1. {e \in p .. n + 1 : e = n + 1 \/ t[e] = "/"} \in SUBSET Nat
    BY <1>0
  <2> QED
    BY <2>1
<1>2. n + 1 \in S
  BY <1>0, <1>1
<1>3. PICK e \in S : \A x \in S : e <= x
  BY <1>2, LeastNat
<1>4. e \in p .. n + 1 /\ (e = n + 1 \/ t[e] = "/")
  BY <1>1, <1>3
<1>5. \A q \in p .. e - 1 : t[q] # "/"
  <2>1. \A q \in p .. e - 1 : q \in p .. n + 1 /\ q < e /\ q \in Nat
    BY <1>0, <1>4
  <2> QED
    BY <1>1, <1>3, <2>1
<1>6. \E x \in p .. Len(t) + 1 :
        (x = Len(t) + 1 \/ t[x] = "/") /\ \A q \in p .. x - 1 : t[q] # "/"
  BY <1>0, <1>4, <1>5
<1> QED
  BY <1>6 DEF LineEnd

(* Each position is on one line; the break that ends a line is on it.      *)
OnLine(t, p, q) == p <= q /\ q <= LineEnd(t, p)

LEMMA OnSomeLine ==
  ASSUME NEW t \in Seq(Letters), NEW q \in 1 .. Len(t)
  PROVE  \E p \in LineStarts(t) : OnLine(t, p, q)
<1>0. PICK n \in Nat : n = Len(t)
  OBVIOUS
<1>1. PICK S \in SUBSET (0 .. q) : S = {p \in LineStarts(t) : p <= q}
  <2>1. {p \in LineStarts(t) : p <= q} \in SUBSET (0 .. q)
    BY <1>0 DEF LineStarts
  <2> QED
    BY <2>1
<1>2. 1 \in S
  BY <1>0, <1>1 DEF LineStarts
<1>3. PICK p \in S : \A x \in S : x <= p
  <2>1. q \in Nat /\ S # {}
    BY <1>0, <1>2
  <2> QED
    BY <2>1, GreatestNat
<1>4. p \in LineStarts(t) /\ p \in 1 .. n + 1 /\ p <= q
  BY <1>0, <1>1, <1>3 DEF LineStarts
<1>5. PICK e \in p .. n + 1 : e = LineEnd(t, p) /\ (e = n + 1 \/ t[e] = "/")
  BY <1>0, <1>4, LineEndIs
<1>6. SUFFICES ASSUME e < q PROVE FALSE
  BY <1>4, <1>5 DEF OnLine
<1>7. e + 1 \in 1 .. n + 1 /\ t[e + 1 - 1] = "/" /\ e + 1 <= q
  BY <1>0, <1>4, <1>5, <1>6
<1>8. e + 1 \in S
  BY <1>0, <1>1, <1>7 DEF LineStarts
<1> QED
  BY <1>3, <1>4, <1>5, <1>8

LEMMA LinesApart ==
  ASSUME NEW t \in Seq(Letters), NEW a \in LineStarts(t), NEW b \in LineStarts(t), a < b
  PROVE  LineEnd(t, a) < b
<1>0. PICK n \in Nat : n = Len(t)
  OBVIOUS
<1>1. a \in 1 .. n + 1 /\ b \in 1 .. n + 1 /\ b # 1 /\ t[b - 1] = "/"
  BY <1>0 DEF LineStarts
<1>2. PICK e \in a .. n + 1 : e = LineEnd(t, a) /\ \A x \in a .. e - 1 : t[x] # "/"
  BY <1>0, <1>1, LineEndIs
<1>3. b - 1 \notin a .. e - 1
  BY <1>1, <1>2
<1> QED
  BY <1>1, <1>2, <1>3

LEMMA OneLine ==
  ASSUME NEW t \in Seq(Letters), NEW p \in LineStarts(t), NEW r \in LineStarts(t), NEW q \in Nat,
         OnLine(t, p, q), OnLine(t, r, q)
  PROVE  p = r
<1>0. PICK n \in Nat : n = Len(t)
  OBVIOUS
<1>1. p \in 1 .. n + 1 /\ r \in 1 .. n + 1
  BY <1>0 DEF LineStarts
<1>2. LineEnd(t, p) \in Nat /\ LineEnd(t, r) \in Nat
  BY <1>0, <1>1, LineEndIs
<1>3. ~(p < r)
  BY <1>1, <1>2, LinesApart DEF OnLine
<1>4. ~(r < p)
  BY <1>1, <1>2, LinesApart DEF OnLine
<1> QED
  BY <1>1, <1>3, <1>4

-----------------------------------------------------------------------------
(* The cleaner *)

LEMMA FooterOnLine ==
  ASSUME NEW t \in Seq(Letters), NEW p \in LineStarts(t), NEW f \in Footers(t, p)
  PROVE  /\ f \in Nat /\ p <= f /\ f + 2 < LineEnd(t, p)
         /\ OnLine(t, p, f) /\ OnLine(t, p, f + 1) /\ OnLine(t, p, f + 2)
<1>0. PICK n \in Nat : n = Len(t)
  OBVIOUS
<1>1. p \in 1 .. n + 1
  BY <1>0 DEF LineStarts
<1>2. PICK e \in p .. n + 1 : e = LineEnd(t, p)
  BY <1>0, <1>1, LineEndIs
<1>3. f \in p .. e - 3
  BY <1>2 DEF Footers
<1> QED
  BY <1>1, <1>2, <1>3 DEF OnLine

(* In a text that ends with a break, a line that goes has one.             *)
LEMMA DroppedEnds ==
  ASSUME NEW t \in Seq(Letters), Ended(t), NEW p \in LineStarts(t),
         LineEnd(t, p) = Len(t) + 1
  PROVE  p = Len(t) + 1 /\ ~Dropped(t, p)
<1>0. PICK n \in Nat : n = Len(t)
  OBVIOUS
<1>1. p \in 1 .. n + 1
  BY <1>0 DEF LineStarts
<1>2. \A q \in p .. n : t[q] # "/"
  BY <1>0, <1>1, LineEndIs
<1>3. p = n + 1
  <2>1. SUFFICES ASSUME p <= n PROVE FALSE
    BY <1>1
  <2>2. n # 0 /\ n \in p .. n
    BY <1>1, <2>1
  <2>3. t # << >>
    BY <1>0, <2>2
  <2> QED
    BY <1>0, <1>2, <2>2, <2>3 DEF Ended
<1>4. Footers(t, p) = {} /\ LineEnd(t, p) # p + 1
  BY <1>0, <1>3 DEF Footers
<1> QED
  BY <1>0, <1>3, <1>4 DEF Dropped

(* What the cleaner keeps and what its ranges leave, as sets of positions. *)
KeptLines(t) == {p \in LineStarts(t) : ~Dropped(t, p)}
KeptCuts(t)  == UNION {Footers(t, p) : p \in KeptLines(t)}
KeptInk(t)   == UNION {{q \in p .. LineEnd(t, p) - 1 :
                          /\ q \notin KeptCuts(t) /\ q - 1 \notin KeptCuts(t)
                          /\ q - 2 \notin KeptCuts(t)} : p \in KeptLines(t)}
KeptEnds(t)  == {LineEnd(t, p) : p \in {l \in KeptLines(t) : \E m \in KeptLines(t) : m > l}}

Uncut(t) == {q \in 1 .. Len(t) : \A d \in Deletions(t) : ~(d[1] <= q /\ q < d[2])}

LEMMA KeptIs == ASSUME NEW t PROVE Kept(t) = Sorted(KeptInk(t) \cup KeptEnds(t))
  BY DEF Kept, KeptInk, KeptEnds, KeptCuts, KeptLines

(* A position is cut if it is on a line that is dropped, or in a footer on *)
(* its line.                                                               *)
LEMMA CutWhere ==
  ASSUME NEW t \in Seq(Letters), Ended(t), NEW q \in 1 .. Len(t), NEW p \in LineStarts(t),
         OnLine(t, p, q)
  PROVE  q \in Uncut(t) <=> ~Dropped(t, p) /\ q \notin Footers(t, p) /\ q - 1 \notin Footers(t, p)
                 /\ q - 2 \notin Footers(t, p)
<1>0. PICK n \in Nat : n = Len(t)
  OBVIOUS
<1> DEFINE lines   == {r \in LineStarts(t) : Dropped(t, r)}
           whole(r) == IF LineEnd(t, r) <= Len(t) THEN <<r, LineEnd(t, r) + 1>>
                       ELSE <<IF r = 1 THEN 1 ELSE r - 1, LineEnd(t, r)>>
<1>1. Deletions(t) = {whole(r) : r \in lines}
                       \cup UNION {{<<f, f + 3>> : f \in Footers(t, r)} :
                                      r \in LineStarts(t) \ lines}
  BY DEF Deletions
<1>2. ASSUME NEW r \in lines
      PROVE  whole(r) = <<r, LineEnd(t, r) + 1>> /\ r \in Nat /\ LineEnd(t, r) \in Nat
  <2>1. r \in LineStarts(t) /\ Dropped(t, r)
    OBVIOUS
  <2>2. r \in 1 .. n + 1
    BY <1>0, <2>1 DEF LineStarts
  <2>3. LineEnd(t, r) \in r .. n + 1
    BY <1>0, <2>2, LineEndIs
  <2>4. LineEnd(t, r) # n + 1
    BY <1>0, <2>1, DroppedEnds
  <2> QED
    BY <1>0, <2>2, <2>3, <2>4
<1>3. ASSUME Dropped(t, p) PROVE q \notin Uncut(t)
  <2>1. p \in lines /\ whole(p) \in Deletions(t)
    BY <1>1, <1>3
  <2>2. whole(p)[1] <= q /\ q < whole(p)[2]
    BY <1>0, <1>2, <2>1 DEF OnLine
  <2> QED
    BY <2>1, <2>2 DEF Uncut
<1>4. ASSUME ~Dropped(t, p), NEW f \in Footers(t, p), q = f \/ q - 1 = f \/ q - 2 = f
      PROVE  q \notin Uncut(t)
  <2>1. <<f, f + 3>> \in Deletions(t)
    BY <1>1, <1>4
  <2>2. f \in Nat
    BY FooterOnLine
  <2>3. f <= q /\ q < f + 3
    BY <1>0, <1>4, <2>2
  <2> QED
    BY <2>1, <2>3 DEF Uncut
<1>5. ASSUME ~Dropped(t, p), q \notin Footers(t, p), q - 1 \notin Footers(t, p),
             q - 2 \notin Footers(t, p)
      PROVE  q \in Uncut(t)
  <2>1. SUFFICES ASSUME NEW d \in Deletions(t), d[1] <= q, q < d[2] PROVE FALSE
    BY DEF Uncut
  <2>2. q \in Nat
    BY <1>0
  <2>3. CASE \E r \in lines : d = whole(r)
    <3>1. PICK r \in lines : d = whole(r)
      BY <2>3
    <3>2. OnLine(t, r, q)
      BY <1>2, <2>1, <2>2, <3>1 DEF OnLine
    <3> QED
      BY <1>5, <2>2, <3>2, OneLine
  <2>4. CASE \E r \in LineStarts(t) \ lines : \E f \in Footers(t, r) : d = <<f, f + 3>>
    <3>0. PICK r \in LineStarts(t) : \E f \in Footers(t, r) : d = <<f, f + 3>>
      BY <2>4
    <3>1. PICK f \in Footers(t, r) : d = <<f, f + 3>>
      BY <3>0
    <3>2. f \in Nat /\ OnLine(t, r, f) /\ OnLine(t, r, f + 1) /\ OnLine(t, r, f + 2)
      BY <3>1, FooterOnLine
    <3>3. q = f \/ q = f + 1 \/ q = f + 2
      BY <2>1, <2>2, <3>1, <3>2
    <3>4. r = p
      BY <2>2, <3>2, <3>3, OneLine
    <3>5. q - 1 = f \/ q = f \/ q - 2 = f
      BY <2>2, <3>2, <3>3
    <3> QED
      BY <1>5, <3>1, <3>4, <3>5
  <2>5. (\E r \in lines : d = whole(r))
          \/ \E r \in LineStarts(t) \ lines : \E f \in Footers(t, r) : d = <<f, f + 3>>
    BY <1>1, <2>1
  <2> QED
    BY <2>3, <2>4, <2>5
<1> QED
  BY <1>3, <1>4, <1>5

LEMMA KeptWhere ==
  ASSUME NEW t \in Seq(Letters), Ended(t), NEW q \in 1 .. Len(t), NEW p \in LineStarts(t),
         OnLine(t, p, q)
  PROVE  q \in KeptInk(t) \cup KeptEnds(t)
           <=> ~Dropped(t, p) /\ q \notin Footers(t, p) /\ q - 1 \notin Footers(t, p)
                 /\ q - 2 \notin Footers(t, p)
<1>0. PICK n \in Nat : n = Len(t)
  OBVIOUS
<1>1. q \in Nat /\ q <= n /\ p \in 1 .. n + 1 /\ LineEnd(t, p) \in p .. n + 1
  BY <1>0, LineEndIs DEF LineStarts
<1>2. ASSUME NEW r \in KeptLines(t), NEW x \in r .. LineEnd(t, r), x = q
      PROVE  r = p
  <2>1. r \in LineStarts(t) /\ r \in 1 .. n + 1 /\ LineEnd(t, r) \in r .. n + 1
    BY <1>0, LineEndIs DEF LineStarts, KeptLines
  <2>2. OnLine(t, r, q)
    BY <1>2, <2>1 DEF OnLine
  <2> QED
    BY <1>1, <2>1, <2>2, OneLine
<1>3. ASSUME NEW x \in {q, q - 1, q - 2}
      PROVE  (p \in KeptLines(t) /\ x \in KeptCuts(t)
                => x \in Footers(t, p))
  <2>1. SUFFICES ASSUME p \in KeptLines(t), NEW r \in KeptLines(t), x \in Footers(t, r)
                 PROVE  r = p
    BY DEF KeptCuts
  <2>2. r \in LineStarts(t) /\ r \in 1 .. n + 1 /\ LineEnd(t, r) \in r .. n + 1
    BY <1>0, LineEndIs DEF LineStarts, KeptLines
  <2>3. x \in Nat /\ OnLine(t, r, x) /\ OnLine(t, r, x + 1) /\ OnLine(t, r, x + 2)
    BY <2>1, <2>2, FooterOnLine
  <2>4. q = x \/ q = x + 1 \/ q = x + 2
    BY <1>1, <2>3
  <2>5. OnLine(t, r, q)
    BY <2>3, <2>4
  <2> QED
    BY <1>1, <2>2, <2>5, OneLine
<1>4. ASSUME q \in KeptInk(t) \cup KeptEnds(t)
      PROVE  ~Dropped(t, p) /\ q \notin Footers(t, p) /\ q - 1 \notin Footers(t, p)
                 /\ q - 2 \notin Footers(t, p)
  <2>1. CASE q \in KeptInk(t)
    <3>1. PICK r \in KeptLines(t) : /\ q \in r .. LineEnd(t, r) - 1
                                    /\ q \notin KeptCuts(t) /\ q - 1 \notin KeptCuts(t)
                                    /\ q - 2 \notin KeptCuts(t)
      BY <2>1 DEF KeptInk
    <3>2. r \in 1 .. n + 1 /\ LineEnd(t, r) \in r .. n + 1
      BY <1>0, LineEndIs DEF LineStarts, KeptLines
    <3>3. r = p
      BY <1>2, <3>1, <3>2
    <3> QED
      BY <3>1, <3>3 DEF KeptCuts, KeptLines
  <2>2. CASE q \in KeptEnds(t)
    <3>1. PICK r \in KeptLines(t) : q = LineEnd(t, r)
      BY <2>2 DEF KeptEnds
    <3>2. r \in 1 .. n + 1 /\ LineEnd(t, r) \in r .. n + 1
      BY <1>0, LineEndIs DEF LineStarts, KeptLines
    <3>3. r = p
      BY <1>2, <3>1, <3>2
    <3>4. \A f \in Footers(t, p) : f \in Nat /\ f + 2 < q
      BY <3>1, <3>3, FooterOnLine
    <3> QED
      BY <1>1, <3>3, <3>4 DEF KeptLines
  <2> QED
    BY <1>4, <2>1, <2>2
<1>5. ASSUME ~Dropped(t, p), q \notin Footers(t, p), q - 1 \notin Footers(t, p),
             q - 2 \notin Footers(t, p)
      PROVE  q \in KeptInk(t) \cup KeptEnds(t)
  <2>1. p \in KeptLines(t) /\ p <= q /\ q <= LineEnd(t, p)
    BY <1>5 DEF KeptLines, OnLine
  <2>2. CASE q = LineEnd(t, p)
    <3>1. PICK m \in KeptLines(t) : m > p
      <4>1. PICK m \in LineStarts(t) : m = n + 1 /\ LineEnd(t, m) = n + 1
        <5>1. n # 0 /\ t # << >> /\ t[n] = "/"
          BY <1>0, <1>1 DEF Ended
        <5>2. n + 1 \in LineStarts(t) /\ n + 1 \in 1 .. n + 1
          BY <1>0, <5>1 DEF LineStarts
        <5>3. LineEnd(t, n + 1) \in n + 1 .. n + 1
          BY <1>0, <5>2, LineEndIs
        <5> QED
          BY <5>2, <5>3
      <4>2. m \in KeptLines(t)
        BY <1>0, <4>1, DroppedEnds DEF KeptLines
      <4> QED
        BY <1>1, <2>1, <4>1, <4>2
    <3> QED
      BY <2>1, <2>2, <3>1 DEF KeptEnds
  <2>3. CASE q # LineEnd(t, p)
    <3>1. q \in p .. LineEnd(t, p) - 1
      BY <1>1, <2>1, <2>3
    <3>2. q \notin KeptCuts(t) /\ q - 1 \notin KeptCuts(t) /\ q - 2 \notin KeptCuts(t)
      BY <1>1, <1>3, <1>5, <2>1, <3>1
    <3> QED
      BY <2>1, <3>1, <3>2 DEF KeptInk
  <2> QED
    BY <2>2, <2>3
<1> QED
  BY <1>4, <1>5

LEMMA KeptPositions ==
  ASSUME NEW t \in Seq(Letters)
  PROVE  KeptInk(t) \cup KeptEnds(t) \in SUBSET (1 .. Len(t))
<1>0. PICK n \in Nat : n = Len(t)
  OBVIOUS
<1>1. ASSUME NEW r \in KeptLines(t)
      PROVE  r \in LineStarts(t) /\ r \in 1 .. n + 1 /\ LineEnd(t, r) \in r .. n + 1
  BY <1>0, LineEndIs DEF LineStarts, KeptLines
<1>2. ASSUME NEW q \in KeptInk(t) PROVE q \in 1 .. n
  <2>1. PICK r \in KeptLines(t) : q \in r .. LineEnd(t, r) - 1
    BY DEF KeptInk
  <2> QED
    BY <1>1, <2>1
<1>3. ASSUME NEW q \in KeptEnds(t) PROVE q \in 1 .. n
  <2>1. PICK r \in KeptLines(t), m \in KeptLines(t) : q = LineEnd(t, r) /\ m > r
    BY DEF KeptEnds
  <2>2. r < m
    BY <1>1, <2>1
  <2>3. q < m
    BY <1>1, <2>1, <2>2, LinesApart
  <2> QED
    BY <1>1, <2>1, <2>3
<1> QED
  BY <1>0, <1>2, <1>3

LEMMA CleanedIs ==
  ASSUME NEW t \in Seq(Letters)
  PROVE  Cleaned(t) \in Seq(Letters)
<1>0. PICK n \in Nat : n = Len(t)
  OBVIOUS
<1>1. PICK P \in SUBSET (1 .. n) : P = KeptInk(t) \cup KeptEnds(t)
  BY <1>0, KeptPositions
<1>2. P \in SUBSET Nat /\ IsFiniteSet(P)
  <2>1. IsFiniteSet(1 .. n) /\ 1 .. n \in SUBSET Nat
    BY FS_Interval
  <2> QED
    BY <1>1, <2>1, FS_Subset
<1>3. PICK c \in Nat : Kept(t) \in [1 .. c -> P]
  BY <1>1, <1>2, KeptIs, SortedIs
<1>4. \A k \in 1 .. c : t[Kept(t)[k]] \in Letters
  BY <1>0, <1>1, <1>3
<1>5. Cleaned(t) \in [1 .. c -> Letters]
  BY <1>3, <1>4 DEF Cleaned
<1> QED
  BY <1>5

(* The text the cleaner returns is what its ranges leave.                  *)
LEMMA KeptIsUncut ==
  ASSUME NEW t \in Seq(Letters), Ended(t)
  PROVE  Kept(t) = Sorted(Uncut(t))
<1>0. PICK n \in Nat : n = Len(t)
  OBVIOUS
<1>1. ASSUME NEW q \in 1 .. n
      PROVE  q \in KeptInk(t) \cup KeptEnds(t) <=> q \in Uncut(t)
  <2>1. PICK p \in LineStarts(t) : OnLine(t, p, q)
    BY <1>0, OnSomeLine
  <2> QED
    BY <1>0, <2>1, CutWhere, KeptWhere
<1>2. KeptInk(t) \cup KeptEnds(t) \in SUBSET (1 .. n)
  BY <1>0, KeptPositions
<1>3. Uncut(t) \in SUBSET (1 .. n)
  BY <1>0 DEF Uncut
<1>4. KeptInk(t) \cup KeptEnds(t) = Uncut(t)
  BY <1>1, <1>2, <1>3
<1> QED
  BY <1>4, KeptIs

-----------------------------------------------------------------------------
(* Ranges that are cut out *)

(* On a line that is dropped, the line with its break; on another one a    *)
(* footer.                                                                 *)
CutAt(t, l, d) ==
  \/ Dropped(t, l) /\ d = <<l, LineEnd(t, l) + 1>>
  \/ ~Dropped(t, l) /\ \E f \in Footers(t, l) : d = <<f, f + 3>>

LEMMA DeletionsAre ==
  ASSUME NEW t \in Seq(Letters), Ended(t)
  PROVE  \A d : d \in Deletions(t) <=> \E l \in LineStarts(t) : CutAt(t, l, d)
<1> DEFINE lines   == {r \in LineStarts(t) : Dropped(t, r)}
           whole(r) == IF LineEnd(t, r) <= Len(t) THEN <<r, LineEnd(t, r) + 1>>
                       ELSE <<IF r = 1 THEN 1 ELSE r - 1, LineEnd(t, r)>>
<1>1. Deletions(t) = {whole(r) : r \in lines}
                       \cup UNION {{<<f, f + 3>> : f \in Footers(t, r)} :
                                      r \in LineStarts(t) \ lines}
  BY DEF Deletions
<1>2. ASSUME NEW r \in lines PROVE whole(r) = <<r, LineEnd(t, r) + 1>>
  <2>0. PICK n \in Nat : n = Len(t)
    OBVIOUS
  <2>1. r \in LineStarts(t) /\ Dropped(t, r) /\ r \in 1 .. n + 1
    BY <2>0 DEF LineStarts
  <2>2. LineEnd(t, r) \in r .. n + 1 /\ LineEnd(t, r) # n + 1
    BY <2>0, <2>1, LineEndIs, DroppedEnds
  <2>3. LineEnd(t, r) <= n
    BY <2>0, <2>1, <2>2
  <2> QED
    BY <2>0, <2>3
<1>3. SUFFICES ASSUME NEW d
               PROVE  d \in Deletions(t) <=> \E l \in LineStarts(t) : CutAt(t, l, d)
  OBVIOUS
<1>4. d \in Deletions(t) <=>
        \/ \E r \in lines : d = whole(r)
        \/ \E r \in LineStarts(t) \ lines : \E f \in Footers(t, r) : d = <<f, f + 3>>
  <2> HIDE DEF whole, lines
  <2> QED
    BY <1>1
<1>5. (\E r \in lines : d = whole(r)) <=>
        \E l \in LineStarts(t) : Dropped(t, l) /\ d = <<l, LineEnd(t, l) + 1>>
  <2>1. \A r : r \in lines <=> r \in LineStarts(t) /\ Dropped(t, r)
    OBVIOUS
  <2> HIDE DEF whole, lines
  <2> QED
    BY <1>2, <2>1
<1>6. (\E r \in LineStarts(t) \ lines : \E f \in Footers(t, r) : d = <<f, f + 3>>) <=>
        \E l \in LineStarts(t) : ~Dropped(t, l) /\ \E f \in Footers(t, l) : d = <<f, f + 3>>
  OBVIOUS
<1> HIDE DEF whole, lines
<1> QED
  BY <1>4, <1>5, <1>6 DEF CutAt

(* A deletion is a range of one line.                                      *)
LEMMA CutIs ==
  ASSUME NEW t \in Seq(Letters), Ended(t), NEW l \in LineStarts(t), NEW d, CutAt(t, l, d)
  PROVE  /\ d = <<d[1], d[2]>> /\ d[1] \in 1 .. Len(t) /\ d[2] \in 1 .. Len(t) + 1
         /\ d[1] < d[2]
         /\ \A q \in Nat : d[1] <= q /\ q < d[2] => OnLine(t, l, q)
<1>0. PICK n \in Nat : n = Len(t)
  OBVIOUS
<1>1. l \in 1 .. n + 1
  BY <1>0 DEF LineStarts
<1>2. PICK e \in l .. n + 1 : e = LineEnd(t, l)
  BY <1>0, <1>1, LineEndIs
<1>3. CASE Dropped(t, l) /\ d = <<l, LineEnd(t, l) + 1>>
  <2>1. e # n + 1
    BY <1>0, <1>2, <1>3, DroppedEnds
  <2>2. d[1] = l /\ d[2] = e + 1 /\ e \in 1 .. n /\ l \in 1 .. n
    BY <1>1, <1>2, <1>3, <2>1
  <2>3. \A q \in Nat : d[1] <= q /\ q < d[2] => OnLine(t, l, q)
    BY <1>1, <1>2, <2>2 DEF OnLine
  <2> QED
    BY <1>0, <1>2, <1>3, <2>2, <2>3
<1>4. CASE ~Dropped(t, l) /\ \E f \in Footers(t, l) : d = <<f, f + 3>>
  <2>1. PICK f \in Footers(t, l) : d = <<f, f + 3>>
    BY <1>4
  <2>2. f \in Nat /\ l <= f /\ f + 2 < e
    BY <1>2, <2>1, FooterOnLine
  <2>3. d[1] = f /\ d[2] = f + 3 /\ f \in 1 .. n /\ f + 3 \in 1 .. n + 1
    BY <1>1, <1>2, <2>1, <2>2
  <2>4. \A q \in Nat : d[1] <= q /\ q < d[2] => OnLine(t, l, q)
    BY <1>1, <1>2, <2>2, <2>3 DEF OnLine
  <2> QED
    BY <1>0, <2>1, <2>3, <2>4
<1> QED
  BY <1>3, <1>4 DEF CutAt

LEMMA DeletionIs ==
  ASSUME NEW t \in Seq(Letters), Ended(t), NEW d \in Deletions(t)
  PROVE  /\ d = <<d[1], d[2]>> /\ d[1] \in 1 .. Len(t) /\ d[2] \in 1 .. Len(t) + 1
         /\ d[1] < d[2]
  BY DeletionsAre, CutIs

LEMMA DeletionsApart ==
  ASSUME NEW t \in Seq(Letters), Ended(t), NEW d \in Deletions(t), NEW e \in Deletions(t),
         NEW q \in Nat, d[1] <= q, q < d[2], e[1] <= q, q < e[2]
  PROVE  d = e
<1>1. PICK l \in LineStarts(t) : CutAt(t, l, d)
  BY DeletionsAre
<1>2. PICK m \in LineStarts(t) : CutAt(t, m, e)
  BY DeletionsAre
<1>3. l = m
  <2>1. OnLine(t, l, q) /\ OnLine(t, m, q)
    BY <1>1, <1>2, CutIs
  <2> QED
    BY <2>1, OneLine
<1>4. CASE Dropped(t, l)
  BY <1>1, <1>2, <1>3, <1>4 DEF CutAt
<1>5. CASE ~Dropped(t, l)
  <2>1. PICK f \in Footers(t, l) : d = <<f, f + 3>>
    BY <1>1, <1>5 DEF CutAt
  <2>2. PICK g \in Footers(t, l) : e = <<g, g + 3>>
    BY <1>2, <1>3, <1>5 DEF CutAt
  <2>3. /\ f \in Nat /\ t[f] = "f" /\ t[f + 1] = "g"
        /\ t[f + 2] = "g"
        /\ g \in Nat /\ t[g] = "f" /\ t[g + 1] = "g" /\ t[g + 2] = "g"
    BY <2>1, <2>2, FooterOnLine DEF Footers
  <2>4. f = g \/ g = f + 1 \/ f = g + 1 \/ g = f + 2 \/ f = g + 2
    BY <2>1, <2>2, <2>3
  <2> QED
    BY <2>1, <2>2, <2>3, <2>4
<1> QED
  BY <1>4, <1>5

(* A place that is in no deletion, or at the beginning of one.             *)
Edge(t, a) ==
  a \in 1 .. Len(t) + 1 /\ \A d \in Deletions(t) : ~(d[1] < a /\ a < d[2])

(* What was deleted before a place.                                        *)
Gone(t, a) == {q \in 1 .. Len(t) : q < a /\ q \notin Uncut(t)}

(* By how much remap_spans moves what starts at a place.                   *)
Counted(D, a) == UNION {{<<d, n>> : n \in 1 .. d[2] - d[1]} : d \in {d \in D : d[2] <= a}}
Moved(D, a)   == Cardinality(Counted(D, a))

LEMMA RemapIs ==
  ASSUME NEW sp, NEW D
  PROVE  Remap(sp, D) =
           {[s EXCEPT !.at = <<s.at[1] - Moved(D, s.at[1]), s.at[2] - Moved(D, s.at[1])>>] :
              s \in {s \in sp : \A d \in D : ~Within(s.at, d)}}
  BY DEF Remap, SumOf, Moved, Counted

LEMMA GoneIs ==
  ASSUME NEW t \in Seq(Letters), NEW a \in 1 .. Len(t) + 1
  PROVE  /\ Gone(t, a) \in SUBSET (1 .. Len(t)) /\ IsFiniteSet(Gone(t, a))
         /\ Cardinality(Gone(t, a)) \in Nat
<1>1. Gone(t, a) \in SUBSET (1 .. Len(t))
  BY DEF Gone
<1>2. IsFiniteSet(1 .. Len(t))
  BY FS_Interval
<1> QED
  BY <1>1, <1>2, FS_Subset, FS_CardinalityType

(* Deletions do not overlap: their lengths add up to what is gone.         *)
LEMMA MovedIsGone ==
  ASSUME NEW t \in Seq(Letters), Ended(t), NEW a, Edge(t, a)
  PROVE  Moved(Deletions(t), a) = Cardinality(Gone(t, a))
<1>0. PICK n \in Nat : n = Len(t)
  OBVIOUS
<1>1. a \in 1 .. n + 1 /\ \A d \in Deletions(t) : ~(d[1] < a /\ a < d[2])
  BY <1>0 DEF Edge
<1> DEFINE P == Counted(Deletions(t), a)
           pos(x) == x[1][1] + x[2] - 1
<1>2. ASSUME NEW x \in P
      PROVE  /\ x = <<x[1], x[2]>> /\ x[1] \in Deletions(t) /\ x[1][2] <= a
             /\ x[1][1] \in 1 .. n /\ x[1][2] \in 1 .. n + 1
             /\ x[2] \in 1 .. x[1][2] - x[1][1]
             /\ pos(x) \in 1 .. n /\ x[1][1] <= pos(x) /\ pos(x) < x[1][2]
  <2>0. PICK d \in Deletions(t) : d[2] <= a /\ \E k \in 1 .. d[2] - d[1] : x = <<d, k>>
    BY DEF Counted
  <2>1. PICK k \in 1 .. d[2] - d[1] : d[2] <= a /\ x = <<d, k>>
    BY <2>0
  <2>2. d[1] \in 1 .. n /\ d[2] \in 1 .. n + 1
    BY <1>0, DeletionIs
  <2> QED
    BY <1>0, <2>1, <2>2
<1>3. ASSUME NEW d \in Deletions(t), d[2] <= a, NEW k \in 1 .. d[2] - d[1]
      PROVE  <<d, k>> \in P
  BY <1>3 DEF Counted
<1>4. PICK f : f = [x \in P |-> pos(x)]
  OBVIOUS
<1>5. f \in [P -> Gone(t, a)]
  <2>1. ASSUME NEW x \in P PROVE pos(x) \in Gone(t, a)
    <3>1. pos(x) \notin Uncut(t)
      BY <1>2 DEF Uncut
    <3>2. pos(x) \in 1 .. n /\ pos(x) < a
      BY <1>1, <1>2
    <3> QED
      BY <1>0, <3>1, <3>2 DEF Gone
  <2> HIDE DEF P, pos
  <2> QED
    BY <1>4, <2>1
<1>6. ASSUME NEW x \in P, NEW y \in P, f[x] = f[y] PROVE x = y
  <2>1. pos(x) = pos(y)
    <3> HIDE DEF P, pos
    <3> QED
      BY <1>4, <1>6
  <2>2. x[1] = y[1]
    <3>1. pos(x) \in Nat
      BY <1>2
    <3>2. /\ x[1] \in Deletions(t) /\ x[1][1] <= pos(x) /\ pos(x) < x[1][2]
          /\ y[1] \in Deletions(t) /\ y[1][1] <= pos(x) /\ pos(x) < y[1][2]
      BY <1>2, <2>1
    <3> HIDE DEF P, pos
    <3> QED
      BY <3>1, <3>2, DeletionsApart
  <2>3. x[2] = y[2]
    <3>1. x[1][1] \in Nat /\ x[2] \in Nat /\ y[2] \in Nat
      BY <1>2
    <3> QED
      BY <2>1, <2>2, <3>1
  <2>4. x = <<x[1], x[2]>> /\ y = <<y[1], y[2]>>
    BY <1>2
  <2> HIDE DEF P, pos
  <2> QED
    BY <2>2, <2>3, <2>4
<1>7. f \in Injection(P, Gone(t, a))
  <2> HIDE DEF P, pos
  <2> QED
    BY <1>5, <1>6 DEF Injection, IsInjective
<1>8. ASSUME NEW q \in Gone(t, a) PROVE \E x \in P : f[x] = q
  <2>1. q \in 1 .. n /\ q < a /\ q \notin Uncut(t)
    BY <1>0 DEF Gone
  <2>2. PICK d \in Deletions(t) : d[1] <= q /\ q < d[2]
    BY <1>0, <2>1 DEF Uncut
  <2>3. d[1] \in 1 .. n /\ d[2] \in 1 .. n + 1
    BY <1>0, DeletionIs
  <2>4. d[2] <= a
    BY <1>1, <2>1, <2>2, <2>3
  <2>5. PICK k \in 1 .. d[2] - d[1] : k = q - d[1] + 1
    BY <2>1, <2>2, <2>3
  <2>6. <<d, k>> \in P
    BY <1>3, <2>4
  <2>7. pos(<<d, k>>) = q
    BY <2>1, <2>3, <2>5
  <2> HIDE DEF P, pos
  <2> QED
    BY <1>4, <2>6, <2>7
<1>9. f \in Surjection(P, Gone(t, a))
  <2> HIDE DEF P, pos
  <2> QED
    BY <1>5, <1>8 DEF Surjection
<1>10. IsFiniteSet(Gone(t, a))
  BY <1>0, <1>1, GoneIs
<1>11. Cardinality(P) = Cardinality(Gone(t, a))
  <2> HIDE DEF P, pos
  <2> QED
    BY <1>7, <1>9, <1>10, FS_Injection
<1> QED
  BY <1>11 DEF Moved

LEMMA GoneGrows ==
  ASSUME NEW t \in Seq(Letters), NEW a \in 1 .. Len(t) + 1, NEW p \in 1 .. Len(t) + 1, a <= p
  PROVE  /\ Cardinality(Gone(t, a)) <= Cardinality(Gone(t, p))
         /\ Cardinality(Gone(t, p)) <= Cardinality(Gone(t, a)) + (p - a)
         /\ (\A q \in a .. p - 1 : q \in Uncut(t)) => Gone(t, p) = Gone(t, a)
<1>0. PICK n \in Nat : n = Len(t) /\ a \in 1 .. n + 1 /\ p \in 1 .. n + 1
  OBVIOUS
<1>1. IsFiniteSet(Gone(t, a)) /\ Cardinality(Gone(t, a)) \in Nat /\ IsFiniteSet(Gone(t, p))
  BY GoneIs
<1>2. Gone(t, a) \in SUBSET Gone(t, p)
  BY <1>0 DEF Gone
<1>3. Cardinality(Gone(t, a)) <= Cardinality(Gone(t, p))
  BY <1>1, <1>2, FS_Subset
<1>4. IsFiniteSet(a .. p - 1) /\ Cardinality(a .. p - 1) = p - a
  <2>1. a \in Int /\ p - 1 \in Int /\ (a > p - 1 => p = a)
    BY <1>0
  <2>2. /\ IsFiniteSet(a .. p - 1)
        /\ Cardinality(a .. p - 1) = IF a > p - 1 THEN 0 ELSE p - 1 - a + 1
    BY <2>1, FS_Interval
  <2>3. (IF a > p - 1 THEN 0 ELSE p - 1 - a + 1) = p - a
    BY <1>0, <2>1
  <2> QED
    BY <2>2, <2>3
<1>5. Gone(t, p) \in SUBSET (Gone(t, a) \cup a .. p - 1)
  BY <1>0 DEF Gone
<1>6. Cardinality(Gone(t, p)) <= Cardinality(Gone(t, a)) + (p - a)
  <2>1. PICK A, B : A = Gone(t, a) /\ B = a .. p - 1
    OBVIOUS
  <2>2. IsFiniteSet(A \cap B) /\ Cardinality(A \cap B) \in Nat
    <3>1. A \cap B \in SUBSET A
      OBVIOUS
    <3> QED
      BY <1>1, <2>1, <3>1, FS_Subset, FS_CardinalityType
  <2>3. /\ IsFiniteSet(A \cup B)
        /\ Cardinality(A \cup B) = Cardinality(A) + Cardinality(B) - Cardinality(A \cap B)
    BY <1>1, <1>4, <2>1, FS_Union
  <2>4. Cardinality(Gone(t, p)) <= Cardinality(A \cup B)
    BY <1>5, <2>1, <2>3, FS_Subset
  <2>5. Cardinality(Gone(t, p)) \in Nat
    BY <1>1, FS_CardinalityType
  <2>6. Cardinality(A) \in Nat /\ Cardinality(B) = p - a
    BY <1>1, <1>4, <2>1
  <2> QED
    BY <1>0, <2>1, <2>2, <2>3, <2>4, <2>5, <2>6
<1>7. ASSUME \A q \in a .. p - 1 : q \in Uncut(t) PROVE Gone(t, p) = Gone(t, a)
  <2>1. \A q \in Gone(t, p) : q \notin a .. p - 1
    BY <1>7 DEF Gone
  <2> QED
    BY <1>2, <1>5, <2>1
<1> QED
  BY <1>3, <1>6, <1>7

(* A letter that is kept moves by what is gone before it.                  *)
LEMMA KeptAt ==
  ASSUME NEW t \in Seq(Letters), Ended(t)
  PROVE  /\ DOMAIN Kept(t) \in SUBSET (1 .. Len(t))
         /\ \A k \in DOMAIN Kept(t) :
              /\ Kept(t)[k] \in Uncut(t) /\ Kept(t)[k] \in 1 .. Len(t)
              /\ k = Kept(t)[k] - Cardinality(Gone(t, Kept(t)[k]))
         /\ \A p \in Uncut(t) : \E k \in DOMAIN Kept(t) : Kept(t)[k] = p
<1>0. PICK n \in Nat : n = Len(t)
  OBVIOUS
<1>1. PICK U \in SUBSET (1 .. n) : U = Uncut(t)
  BY <1>0 DEF Uncut
<1>2. IsFiniteSet(1 .. n) /\ Cardinality(1 .. n) = n /\ U \in SUBSET Nat
  <2>1. IsFiniteSet(1 .. n) /\ Cardinality(1 .. n) = n
    BY FS_Interval
  <2> QED
    BY <1>1, <2>1
<1>3. IsFiniteSet(U) /\ Cardinality(U) <= n
  BY <1>1, <1>2, FS_Subset
<1>4. PICK c \in Nat :
        /\ c = Cardinality(U) /\ Sorted(U) \in [1 .. c -> U]
        /\ \A x \in U : \E k \in 1 .. c : Sorted(U)[k] = x
        /\ \A k \in 1 .. c : Rank(U, Sorted(U)[k]) = k
  BY <1>2, <1>3, SortedIs
<1>5. PICK K : K = Kept(t) /\ K = Sorted(U) /\ DOMAIN K = 1 .. c
  BY <1>1, <1>4, KeptIsUncut
<1>6. 1 .. c \in SUBSET (1 .. n)
  BY <1>3, <1>4
<1>7. ASSUME NEW k \in 1 .. c
      PROVE  K[k] \in U /\ K[k] \in 1 .. n /\ k = K[k] - Cardinality(Gone(t, K[k]))
  <2>1. PICK p \in 1 .. n : p = K[k] /\ p \in U /\ Rank(U, p) = k
    BY <1>1, <1>4, <1>5
  <2>2. PICK A : A = UpTo(U, p) /\ Cardinality(A) = k
    BY <2>1 DEF Rank
  <2>3. PICK B : B = Gone(t, p)
    OBVIOUS
  <2>4. IsFiniteSet(B) /\ Cardinality(B) \in Nat
    BY <1>0, <2>3, GoneIs
  <2>5. A \in SUBSET U
    BY <2>2 DEF UpTo
  <2>6. IsFiniteSet(A)
    BY <1>3, <2>5, FS_Subset
  <2>7. A \cup B = 1 .. p
    <3>1. ASSUME NEW q \in 1 .. p PROVE q \in A \/ q \in B
      BY <1>0, <1>1, <2>1, <2>2, <2>3 DEF UpTo, Gone
    <3>2. ASSUME NEW q \in A PROVE q \in 1 .. p
      BY <1>1, <2>1, <2>2 DEF UpTo
    <3>3. ASSUME NEW q \in B PROVE q \in 1 .. p
      BY <1>0, <2>1, <2>3 DEF Gone
    <3> QED
      BY <3>1, <3>2, <3>3
  <2>8. A \cap B = {}
    BY <1>1, <2>2, <2>3 DEF UpTo, Gone
  <2>9. Cardinality(A \cup B) = Cardinality(A) + Cardinality(B) - Cardinality(A \cap B)
    BY <2>4, <2>6, FS_Union
  <2>10. Cardinality(1 .. p) = p
    BY FS_Interval
  <2>11. Cardinality(A \cap B) = 0
    BY <2>8, FS_EmptySet
  <2>12. p = k + Cardinality(B)
    <3>1. p = Cardinality(A) + Cardinality(B) - 0
      BY <2>7, <2>9, <2>10, <2>11
    <3> QED
      BY <2>2, <2>4, <3>1
  <2> QED
    BY <2>1, <2>3, <2>4, <2>12
<1>8. DOMAIN K \in SUBSET (1 .. Len(t))
  BY <1>0, <1>5, <1>6
<1>9. \A p \in Uncut(t) : \E k \in DOMAIN K : K[k] = p
  BY <1>1, <1>4, <1>5
<1>10. \A k \in DOMAIN K : /\ K[k] \in Uncut(t) /\ K[k] \in 1 .. Len(t)
                           /\ k = K[k] - Cardinality(Gone(t, K[k]))
  BY <1>0, <1>1, <1>5, <1>7
<1>11. K = Kept(t)
  BY <1>5
<1> QED
  BY <1>8, <1>9, <1>10, <1>11

-----------------------------------------------------------------------------
(* Spans and where they go *)

Ends(t, cuts, p)   == {LineEnd(t, p)} \cup {c \in cuts : p < c /\ c < LineEnd(t, p)}
Firsts(t, cuts, p) == {p} \cup (Ends(t, cuts, p) \ {LineEnd(t, p)})
SpanStop(t, cuts, p, s) ==
  CHOOSE e \in Ends(t, cuts, p) : s < e /\ \A x \in Ends(t, cuts, p) : x > s => e <= x
SpanFrom(d, p, s) == [id |-> s, at |-> <<s, SpanStop(d.text, d.cuts, p, s)>>,
                      page |-> IF s < d.page2 THEN 1 ELSE 2]

Spans(d) == PageSpans(d.text, d.cuts, d.page2)
Moves(d) == Remap(Spans(d), Deletions(d.text))

LEMMA SpansAre ==
  ASSUME NEW d
  PROVE  Spans(d) = UNION {{SpanFrom(d, p, s) : s \in Firsts(d.text, d.cuts, p)} :
                             p \in {l \in LineStarts(d.text) : ~Blank(d.text, l)}}
  BY DEF Spans, PageSpans, SpanFrom, SpanStop, Firsts, Ends

(* A document whose lines end, without a span that begins inside a footer. *)
Mapped(d) ==
  d.text \in Seq(Letters) /\ Ended(d.text) /\ d.cuts \in SUBSET Nat /\ FootersWhole(d)

(* A span is a part of a line, up to the next cut or the end of the line.  *)
OfLine(t, cuts, p, a, b) ==
  /\ p \in LineStarts(t) /\ p \in Nat /\ LineEnd(t, p) \in Nat /\ p < LineEnd(t, p)
  /\ a \in Nat /\ p <= a /\ (a = p \/ a \in Ends(t, cuts, p) \cap cuts)
  /\ b \in Nat /\ a < b /\ b <= LineEnd(t, p)
  /\ b \in Ends(t, cuts, p) /\ \A x \in Ends(t, cuts, p) : x > a => b <= x

LEMMA SpanFromIs ==
  ASSUME NEW t \in Seq(Letters), NEW cuts \in SUBSET Nat, NEW p \in LineStarts(t), ~Blank(t, p),
         NEW s \in Firsts(t, cuts, p)
  PROVE  OfLine(t, cuts, p, s, SpanStop(t, cuts, p, s))
<1>0. PICK n \in Nat : n = Len(t)
  OBVIOUS
<1>1. p \in 1 .. n + 1
  BY <1>0 DEF LineStarts
<1>2. PICK e \in p .. n + 1 : e = LineEnd(t, p)
  BY <1>0, <1>1, LineEndIs
<1>3. p \in Nat /\ e \in Nat /\ p < e
  BY <1>1, <1>2 DEF Blank
<1>4. PICK E \in SUBSET Nat :
        E = Ends(t, cuts, p) /\ e \in E /\ \A x \in E : x <= e /\ (x = e \/ (x \in cuts /\ p < x))
  <2>1. \A x \in Ends(t, cuts, p) : x \in Nat /\ x <= e /\ (x = e \/ (x \in cuts /\ p < x))
    BY <1>2, <1>3 DEF Ends
  <2>2. e \in Ends(t, cuts, p)
    BY <1>2 DEF Ends
  <2> QED
    BY <2>1, <2>2
<1>5. s \in Nat /\ p <= s /\ s < e /\ (s = p \/ s \in E \cap cuts)
  <2>1. s = p \/ (s \in E /\ s # e)
    BY <1>2, <1>4 DEF Firsts
  <2> QED
    BY <1>3, <1>4, <2>1
<1>6. \E b \in E : s < b /\ \A x \in E : x > s => b <= x
  <2> DEFINE T == {b \in E : s < b}
  <2>1. T \in SUBSET Nat /\ e \in T
    BY <1>4, <1>5
  <2>2. PICK b \in T : \A x \in T : b <= x
    <3> HIDE DEF T
    <3> QED
      BY <2>1, LeastNat
  <2> QED
    BY <1>4, <1>5, <2>2
<1>7. PICK b \in E : b = SpanStop(t, cuts, p, s) /\ s < b /\ \A x \in E : x > s => b <= x
  <2>1. SpanStop(t, cuts, p, s) = CHOOSE b \in E : s < b /\ \A x \in E : x > s => b <= x
    BY <1>4 DEF SpanStop
  <2> QED
    BY <1>6, <2>1
<1>8. b \in Nat /\ b <= e
  BY <1>4, <1>7
<1>9. p \in LineStarts(t) /\ p \in Nat /\ LineEnd(t, p) \in Nat /\ p < LineEnd(t, p)
  BY <1>2, <1>3
<1>10. s \in Nat /\ p <= s /\ (s = p \/ s \in Ends(t, cuts, p) \cap cuts)
  BY <1>4, <1>5
<1>11. /\ b \in Nat /\ s < b /\ b <= LineEnd(t, p)
       /\ b \in Ends(t, cuts, p) /\ \A x \in Ends(t, cuts, p) : x > s => b <= x
  BY <1>2, <1>4, <1>7, <1>8
<1> QED
  BY <1>7, <1>9, <1>10, <1>11 DEF OfLine

LEMMA SpanIs ==
  ASSUME NEW d, d.text \in Seq(Letters), d.cuts \in SUBSET Nat, NEW s \in Spans(d)
  PROVE  \E p \in LineStarts(d.text) :
           /\ OfLine(d.text, d.cuts, p, s.at[1], s.at[2])
           /\ s = SpanFrom(d, p, s.at[1]) /\ s.id = s.at[1]
<1>1. PICK p \in LineStarts(d.text) :
        ~Blank(d.text, p) /\ \E a \in Firsts(d.text, d.cuts, p) : s = SpanFrom(d, p, a)
  BY SpansAre
<1>2. PICK a \in Firsts(d.text, d.cuts, p) : s = SpanFrom(d, p, a)
  BY <1>1
<1>3. OfLine(d.text, d.cuts, p, a, SpanStop(d.text, d.cuts, p, a))
  BY <1>1, SpanFromIs
<1>4. s.at[1] = a /\ s.at[2] = SpanStop(d.text, d.cuts, p, a) /\ s.id = a
  BY <1>2 DEF SpanFrom
<1> QED
  BY <1>2, <1>3, <1>4

(* Each letter of a line is in a span of it, and in one only.              *)
LEMMA InSomeSpan ==
  ASSUME NEW d, d.text \in Seq(Letters), d.cuts \in SUBSET Nat, NEW p \in LineStarts(d.text),
         NEW x \in Nat, p <= x, x < LineEnd(d.text, p)
  PROVE  \E s \in Spans(d) : s.at[1] <= x /\ x < s.at[2]
<1>0. PICK t, cuts : t = d.text /\ cuts = d.cuts
  OBVIOUS
<1>1. p \in Nat /\ LineEnd(t, p) \in Nat /\ ~Blank(t, p)
  <2>1. Len(t) \in Nat /\ p \in 1 .. Len(t) + 1
    BY <1>0 DEF LineStarts
  <2>2. LineEnd(t, p) \in p .. Len(t) + 1
    BY <1>0, <2>1, LineEndIs
  <2>3. p \in Nat /\ LineEnd(t, p) \in Nat
    BY <2>1, <2>2
  <2>4. LineEnd(t, p) # p
    BY <1>0, <2>3
  <2> QED
    BY <2>3, <2>4 DEF Blank
<1> DEFINE T == {s \in Firsts(t, cuts, p) : s <= x}
<1>2. T \in SUBSET (0 .. x) /\ p \in T
  <2>1. \A s \in Firsts(t, cuts, p) : s \in Nat
    BY <1>0, <1>1, SpanFromIs DEF OfLine
  <2>2. p \in Firsts(t, cuts, p)
    BY DEF Firsts
  <2> QED
    BY <2>1, <2>2
<1>3. PICK a \in T : \A y \in T : y <= a
  <2> HIDE DEF T
  <2> QED
    BY <1>2, GreatestNat
<1>4. a \in Firsts(t, cuts, p) /\ a <= x
  BY <1>3
<1>5. PICK b : b = SpanStop(t, cuts, p, a) /\ OfLine(t, cuts, p, a, b)
  BY <1>0, <1>1, <1>4, SpanFromIs
<1>6. b \in Ends(t, cuts, p)
  BY <1>5 DEF OfLine
<1>7. x < b
  <2>1. SUFFICES ASSUME b <= x PROVE FALSE
    BY <1>5 DEF OfLine
  <2>2. b \in Nat /\ b # LineEnd(t, p)
    BY <1>0, <1>1, <1>5, <2>1 DEF OfLine
  <2>3. b \in T
    BY <1>6, <2>1, <2>2 DEF Firsts
  <2>4. a < b /\ a \in Nat
    BY <1>5 DEF OfLine
  <2> QED
    BY <1>3, <2>2, <2>3, <2>4
<1>8. SpanFrom(d, p, a) \in Spans(d)
  BY <1>0, <1>1, <1>4, SpansAre
<1>9. SpanFrom(d, p, a).at[1] = a /\ SpanFrom(d, p, a).at[2] = b
  BY <1>0, <1>5 DEF SpanFrom
<1> QED
  BY <1>4, <1>7, <1>8, <1>9

LEMMA InOneSpan ==
  ASSUME NEW d, d.text \in Seq(Letters), d.cuts \in SUBSET Nat, NEW x \in Nat,
         NEW r \in Spans(d), r.at[1] <= x, x < r.at[2],
         NEW s \in Spans(d), s.at[1] <= x, x < s.at[2]
  PROVE  r = s
<1>0. PICK t, cuts : t = d.text /\ cuts = d.cuts
  OBVIOUS
<1>1. PICK p \in LineStarts(t) :
        OfLine(t, cuts, p, r.at[1], r.at[2]) /\ r = SpanFrom(d, p, r.at[1])
  BY <1>0, SpanIs
<1>2. PICK q \in LineStarts(t) :
        OfLine(t, cuts, q, s.at[1], s.at[2]) /\ s = SpanFrom(d, q, s.at[1])
  BY <1>0, SpanIs
<1>3. PICK a, b, v, w : a = r.at[1] /\ b = r.at[2] /\ v = s.at[1] /\ w = s.at[2]
  OBVIOUS
<1>4. p = q
  <2>1. OnLine(t, p, x)
    BY <1>1 DEF OfLine, OnLine
  <2>2. OnLine(t, q, x)
    BY <1>2 DEF OfLine, OnLine
  <2> QED
    BY <1>0, <2>1, <2>2, OneLine
<1>5. a \in Nat /\ b \in Nat /\ v \in Nat /\ w \in Nat
  BY <1>1, <1>2, <1>3 DEF OfLine
<1>6. ~(a < v)
  <2>1. SUFFICES ASSUME a < v PROVE FALSE
    OBVIOUS
  <2>2. v # p /\ v \in Ends(t, cuts, p)
    BY <1>1, <1>2, <1>3, <1>4, <1>5, <2>1 DEF OfLine
  <2>3. b <= v
    BY <1>1, <1>3, <1>5, <2>1, <2>2 DEF OfLine
  <2> QED
    BY <1>3, <1>5, <2>3
<1>7. ~(v < a)
  <2>1. SUFFICES ASSUME v < a PROVE FALSE
    OBVIOUS
  <2>2. a # p /\ a \in Ends(t, cuts, p)
    BY <1>1, <1>2, <1>3, <1>4, <1>5, <2>1 DEF OfLine
  <2>3. w <= a
    BY <1>2, <1>3, <1>4, <1>5, <2>1, <2>2 DEF OfLine
  <2> QED
    BY <1>3, <1>5, <2>3
<1>8. a = v
  BY <1>5, <1>6, <1>7
<1> QED
  BY <1>1, <1>2, <1>3, <1>4, <1>8

(* No deletion reaches over the beginning of a span that keeps a letter.   *)
LEMMA SpanKept ==
  ASSUME NEW d, Mapped(d), NEW s \in Spans(d),
         NEW x \in Uncut(d.text), s.at[1] <= x, x < s.at[2]
  PROVE  Edge(d.text, s.at[1]) /\ \A c \in Deletions(d.text) : ~Within(s.at, c)
<1>0. PICK t, cuts : t = d.text /\ cuts = d.cuts
  OBVIOUS
<1>1. t \in Seq(Letters) /\ Ended(t) /\ cuts \in SUBSET Nat /\ Len(t) \in Nat
  BY <1>0 DEF Mapped
<1>2. PICK p \in LineStarts(t) : OfLine(t, cuts, p, s.at[1], s.at[2])
  BY <1>0, <1>1, SpanIs
<1>3. PICK a \in Nat, b \in Nat : a = s.at[1] /\ b = s.at[2]
  BY <1>2 DEF OfLine
<1>4. /\ p \in Nat /\ p <= a /\ a < b /\ b <= LineEnd(t, p) /\ LineEnd(t, p) \in Nat
      /\ (a = p \/ a \in cuts) /\ a <= x /\ x < b
  BY <1>2, <1>3 DEF OfLine
<1>5. x \in Uncut(t) /\ x \in 1 .. Len(t)
  BY <1>0 DEF Uncut
<1>6. p \in 1 .. Len(t) + 1 /\ LineEnd(t, p) \in p .. Len(t) + 1
  <2>1. p \in 1 .. Len(t) + 1
    BY <1>1 DEF LineStarts
  <2> QED
    BY <1>1, <2>1, LineEndIs
<1>7. ~Dropped(t, p)
  <2>1. OnLine(t, p, x)
    BY <1>4, <1>5 DEF OnLine
  <2> QED
    BY <1>1, <1>5, <2>1, CutWhere
<1>8. ASSUME NEW c \in Deletions(t) PROVE ~Within(s.at, c)
  <2>1. c[1] \in Nat /\ c[2] \in Nat
    BY <1>1, DeletionIs
  <2>2. ~(c[1] <= x /\ x < c[2])
    BY <1>5 DEF Uncut
  <2> QED
    BY <1>3, <1>4, <1>5, <2>1, <2>2 DEF Within
<1>9. ASSUME NEW c \in Deletions(t), c[1] < a, a < c[2] PROVE FALSE
  <2>1. PICK m \in LineStarts(t) : CutAt(t, m, c)
    BY <1>1, DeletionsAre
  <2>2. /\ c[1] \in Nat /\ c[2] \in Nat
        /\ \A q \in Nat : c[1] <= q /\ q < c[2] => OnLine(t, m, q)
    BY <1>1, <2>1, CutIs
  <2>3. OnLine(t, m, a) /\ OnLine(t, p, a)
    BY <1>4, <1>9, <2>2 DEF OnLine
  <2>4. m = p
    BY <1>1, <1>4, <2>3, OneLine
  <2>5. PICK f \in Footers(t, p) : c = <<f, f + 3>>
    BY <1>7, <2>1, <2>4 DEF CutAt
  <2>6. f \in Nat /\ p <= f
    BY <1>1, <2>5, FooterOnLine
  <2>7. f < a /\ a < f + 3 /\ a # p
    BY <1>4, <1>9, <2>5, <2>6
  <2>8. a \in cuts
    BY <1>4, <2>6, <2>7
  <2> QED
    BY <1>0, <2>6, <2>7, <2>8 DEF Mapped, FootersWhole
<1>10. a \in 1 .. Len(t) + 1
  BY <1>4, <1>5, <1>6
<1>11. Edge(t, a)
  BY <1>9, <1>10 DEF Edge
<1> QED
  BY <1>0, <1>3, <1>8, <1>11

(* Where a span that keeps a letter goes.                                  *)
Shifted(s, g) == [s EXCEPT !.at = <<s.at[1] - g, s.at[2] - g>>]

LEMMA SpanMoves ==
  ASSUME NEW d, Mapped(d), NEW s \in Spans(d),
         NEW x \in Uncut(d.text), s.at[1] <= x, x < s.at[2]
  PROVE  /\ Shifted(s, Cardinality(Gone(d.text, s.at[1]))) \in Moves(d)
         /\ Moved(Deletions(d.text), s.at[1]) = Cardinality(Gone(d.text, s.at[1]))
<1>1. Edge(d.text, s.at[1]) /\ \A c \in Deletions(d.text) : ~Within(s.at, c)
  BY SpanKept
<1>2. Moved(Deletions(d.text), s.at[1]) = Cardinality(Gone(d.text, s.at[1]))
  BY <1>1, MovedIsGone DEF Mapped
<1>3. Shifted(s, Moved(Deletions(d.text), s.at[1])) \in Moves(d)
  BY <1>1, RemapIs DEF Shifted, Moves
<1> QED
  BY <1>2, <1>3

LEMMA ShiftedIs ==
  ASSUME NEW d, d.text \in Seq(Letters), d.cuts \in SUBSET Nat, NEW s \in Spans(d), NEW g \in Nat
  PROVE  /\ Shifted(s, g).id = s.id /\ Shifted(s, g).page = s.page
         /\ Shifted(s, g).at[1] = s.at[1] - g /\ Shifted(s, g).at[2] = s.at[2] - g
<1>1. PICK p, a : s = SpanFrom(d, p, a)
  BY SpanIs
<1> QED
  BY <1>1 DEF SpanFrom, Shifted

(* A letter that is kept stays in its span.                                *)
LEMMA StaysInSpan ==
  ASSUME NEW d, Mapped(d), NEW q \in DOMAIN Kept(d.text),
         NEW s \in Spans(d), s.at[1] <= Kept(d.text)[q], Kept(d.text)[q] < s.at[2]
  PROVE  \E r \in Moves(d) :
           /\ r.id = s.id /\ r.page = s.page
           /\ r.at[1] \in Int /\ r.at[2] \in Int /\ r.at[1] <= q /\ q < r.at[2]
<1>0. PICK t : /\ t = d.text /\ t \in Seq(Letters) /\ Ended(t) /\ d.cuts \in SUBSET Nat
               /\ Len(t) \in Nat
  BY DEF Mapped
<1>1. PICK x \in Uncut(t) :
        /\ x = Kept(t)[q] /\ x \in 1 .. Len(t) /\ q = x - Cardinality(Gone(t, x))
        /\ q \in Nat
  BY <1>0, KeptAt
<1>2. PICK a \in Nat, b \in Nat : a = s.at[1] /\ b = s.at[2]
  BY <1>0, SpanIs DEF OfLine
<1>3. a \in 1 .. Len(t) + 1 /\ x \in 1 .. Len(t) + 1 /\ a <= x /\ x < b
  <2>1. Edge(t, a)
    BY <1>0, <1>1, <1>2, SpanKept
  <2> QED
    BY <1>0, <1>1, <1>2, <2>1 DEF Edge
<1>4. PICK g \in Nat, h \in Nat : g = Cardinality(Gone(t, a)) /\ h = Cardinality(Gone(t, x))
  BY <1>0, <1>3, GoneIs
<1>5. g <= h /\ h <= g + (x - a)
  BY <1>0, <1>3, <1>4, GoneGrows
<1>6. Shifted(s, g) \in Moves(d)
  BY <1>0, <1>1, <1>2, <1>3, <1>4, SpanMoves
<1>7. /\ Shifted(s, g).id = s.id /\ Shifted(s, g).page = s.page
      /\ Shifted(s, g).at[1] = a - g /\ Shifted(s, g).at[2] = b - g
  BY <1>0, <1>2, ShiftedIs
<1>8. a - g <= q /\ q < b - g /\ a - g \in Int /\ b - g \in Int
  <2>1. x \in Nat
    BY <1>0, <1>1
  <2>2. q = x - Cardinality(Gone(t, x))
    BY <1>1
  <2>3. q = x - h
    BY <1>4, <2>2
  <2> QED
    BY <1>3, <1>5, <2>1, <2>3
<1> QED
  BY <1>6, <1>7, <1>8

(* Where no footer was cut out of a line, a span that is left holds no     *)
(* other letters.                                                          *)
LEMMA OnlyItsLetters ==
  ASSUME NEW d, Mapped(d), NEW r \in Moves(d),
         \A p \in LineStarts(d.text) : Footers(d.text, p) = {} \/ Dropped(d.text, p)
  PROVE  \E s \in Spans(d) :
           /\ r.id = s.id /\ r.page = s.page
           /\ r.at[1] \in Int /\ r.at[2] \in Int /\ r.at[1] < r.at[2]
           /\ \A q \in Int : r.at[1] <= q /\ q < r.at[2] =>
                /\ q \in DOMAIN Kept(d.text)
                /\ s.at[1] <= Kept(d.text)[q] /\ Kept(d.text)[q] < s.at[2]
                /\ d.text[Kept(d.text)[q]] # "/"
<1>0. PICK t, D : /\ t = d.text /\ t \in Seq(Letters) /\ Ended(t) /\ d.cuts \in SUBSET Nat
                  /\ D = Deletions(t) /\ Len(t) \in Nat
  BY DEF Mapped
<1>1. PICK s \in Spans(d) :
        (\A c \in D : ~Within(s.at, c)) /\ r = Shifted(s, Moved(D, s.at[1]))
  BY <1>0, RemapIs DEF Moves, Shifted
<1>2. PICK p \in LineStarts(t) : OfLine(t, d.cuts, p, s.at[1], s.at[2])
  BY <1>0, SpanIs
<1>3. PICK a \in Nat, b \in Nat : a = s.at[1] /\ b = s.at[2]
  BY <1>2 DEF OfLine
<1>4. p \in Nat /\ p <= a /\ a < b /\ b <= LineEnd(t, p) /\ LineEnd(t, p) \in Nat
  BY <1>2, <1>3 DEF OfLine
<1>5. p \in 1 .. Len(t) + 1 /\ LineEnd(t, p) \in p .. Len(t) + 1
      /\ \A x \in p .. LineEnd(t, p) - 1 : t[x] # "/"
  <2>1. p \in 1 .. Len(t) + 1
    BY <1>0 DEF LineStarts
  <2> QED
    BY <1>0, <2>1, LineEndIs
<1>6. ~Dropped(t, p)
  <2>1. SUFFICES ASSUME Dropped(t, p) PROVE FALSE
    OBVIOUS
  <2>2. PICK c : c = <<p, LineEnd(t, p) + 1>>
    OBVIOUS
  <2>3. c \in D
    BY <1>0, <2>1, <2>2, DeletionsAre DEF CutAt
  <2>4. Within(s.at, c)
    BY <1>3, <1>4, <2>2 DEF Within
  <2> QED
    BY <1>1, <2>3, <2>4
<1>7. Footers(t, p) = {}
  BY <1>0, <1>6
<1>8. ASSUME NEW x \in Nat, a <= x, x < b
      PROVE  x \in Uncut(t) /\ x \in 1 .. Len(t) /\ t[x] # "/"
  <2>1. x \in 1 .. Len(t) /\ x \in p .. LineEnd(t, p) - 1
    BY <1>0, <1>4, <1>5, <1>8
  <2>2. OnLine(t, p, x)
    BY <1>4, <2>1 DEF OnLine
  <2> QED
    BY <1>0, <1>5, <1>6, <1>7, <2>1, <2>2, CutWhere
<1>9. a \in Uncut(t) /\ a \in 1 .. Len(t) + 1
  BY <1>0, <1>4, <1>8
<1>10. PICK g \in Nat : g = Cardinality(Gone(t, a)) /\ g = Moved(D, a)
  <2>1. Moved(D, a) = Cardinality(Gone(t, a))
    BY <1>0, <1>3, <1>4, <1>9, SpanMoves
  <2> QED
    BY <1>0, <1>9, <2>1, GoneIs
<1>11. r.id = s.id /\ r.page = s.page /\ r.at[1] = a - g /\ r.at[2] = b - g
  <2>1. r = Shifted(s, g)
    BY <1>1, <1>3, <1>10
  <2>2. /\ Shifted(s, g).id = s.id /\ Shifted(s, g).page = s.page
        /\ Shifted(s, g).at[1] = a - g /\ Shifted(s, g).at[2] = b - g
    BY <1>0, <1>3, ShiftedIs
  <2> QED
    BY <2>1, <2>2
<1>12. ASSUME NEW q \in Int, a - g <= q, q < b - g
       PROVE  q \in DOMAIN Kept(t) /\ Kept(t)[q] = q + g
  <2>1. PICK x \in Nat : x = q + g /\ a <= x /\ x < b
    BY <1>12
  <2>2. x \in Uncut(t) /\ x \in 1 .. Len(t) + 1
    BY <1>0, <1>8, <2>1
  <2>3. PICK k \in DOMAIN Kept(t) : Kept(t)[k] = x /\ k = x - Cardinality(Gone(t, x))
    BY <1>0, <2>2, KeptAt
  <2>4. \A y \in a .. x - 1 : y \in Uncut(t)
    <3>1. \A y \in a .. x - 1 : y \in Nat /\ a <= y /\ y < b
      BY <2>1
    <3> QED
      BY <1>8, <3>1
  <2>5. Gone(t, x) = Gone(t, a)
    BY <1>0, <1>9, <2>1, <2>2, <2>4, GoneGrows
  <2>6. k = q
    <3>1. k = x - g
      BY <1>10, <2>3, <2>5
    <3> QED
      BY <2>1, <3>1
  <2> QED
    BY <2>1, <2>3, <2>6
<1>13. ASSUME NEW q \in Int, r.at[1] <= q, q < r.at[2]
       PROVE  /\ q \in DOMAIN Kept(t) /\ s.at[1] <= Kept(t)[q] /\ Kept(t)[q] < s.at[2]
              /\ t[Kept(t)[q]] # "/"
  <2>1. a - g <= q /\ q < b - g
    BY <1>11, <1>13
  <2>2. PICK x \in Nat : x = q + g /\ a <= x /\ x < b
    BY <2>1
  <2> QED
    BY <1>3, <1>8, <1>12, <2>1, <2>2
<1>14. r.at[1] \in Int /\ r.at[2] \in Int /\ r.at[1] < r.at[2]
  BY <1>4, <1>11
<1> QED
  BY <1>0, <1>11, <1>13, <1>14

-----------------------------------------------------------------------------
(* The segments *)

LEMMA StartsIs ==
  ASSUME NEW t \in Seq(Letters), NEW sub \in BOOLEAN
  PROVE  /\ Starts(t, sub) \in SUBSET (1 .. Len(t) + 1)
         /\ \/ 1 \in Starts(t, sub)
            \/ \A s \in Starts(t, sub) : s \in LineStarts(t) /\ Marker(t, s, sub)
<1>0. PICK n \in Nat : n = Len(t)
  OBVIOUS
<1> DEFINE marks == {p \in LineStarts(t) : Marker(t, p, sub)}
           paras == {p \in LineStarts(t) : ~Blank(t, p) /\ p > 2 /\ t[p - 2] = "/"}
<1>1. Starts(t, sub) = IF marks # {} THEN marks ELSE {1} \cup paras
  BY DEF Starts
<1>2. LineStarts(t) \in SUBSET (1 .. n + 1) /\ 1 \in 1 .. n + 1
  BY <1>0 DEF LineStarts
<1>3. Starts(t, sub) \in SUBSET (1 .. n + 1)
  BY <1>1, <1>2
<1> QED
  BY <1>0, <1>1, <1>3

(* A segment ends where the next start is.                                 *)
StopOf(t, sub, s) ==
  CHOOSE e \in Starts(t, sub) \cup {Len(t) + 1} :
    s < e /\ \A x \in Starts(t, sub) : x > s => e <= x

LEMMA StopIs ==
  ASSUME NEW t \in Seq(Letters), NEW sub \in BOOLEAN, NEW s \in 1 .. Len(t)
  PROVE  /\ StopOf(t, sub, s) \in 1 .. Len(t) + 1 /\ s < StopOf(t, sub, s)
         /\ StopOf(t, sub, s) \in Starts(t, sub) \cup {Len(t) + 1}
         /\ \A x \in Starts(t, sub) : x > s => StopOf(t, sub, s) <= x
<1>0. PICK n \in Nat : n = Len(t)
  OBVIOUS
<1>1. Starts(t, sub) \in SUBSET (1 .. n + 1)
  BY <1>0, StartsIs
<1> DEFINE T == {e \in Starts(t, sub) \cup {n + 1} : s < e}
<1>2. T \in SUBSET Nat
  <2>1. \A e \in T : e \in Nat
    BY <1>1
  <2> QED
    BY <2>1
<1>3. n + 1 \in T
  BY <1>0
<1>4. PICK e \in T : \A x \in T : e <= x
  <2> HIDE DEF T
  <2> QED
    BY <1>2, <1>3, LeastNat
<1>5. /\ e \in Starts(t, sub) \cup {Len(t) + 1} /\ s < e
      /\ \A x \in Starts(t, sub) : x > s => e <= x
  BY <1>0, <1>1, <1>4
<1>6. /\ StopOf(t, sub, s) \in Starts(t, sub) \cup {Len(t) + 1}
      /\ s < StopOf(t, sub, s)
      /\ \A x \in Starts(t, sub) : x > s => StopOf(t, sub, s) <= x
  BY <1>5 DEF StopOf
<1>7. StopOf(t, sub, s) \in 1 .. n + 1
  BY <1>0, <1>1, <1>6
<1> QED
  BY <1>0, <1>6, <1>7

(* Where a text's segments are, and that a letter is in one, or before all *)
(* starts.                                                                 *)
Laid(t, sub, m, S, E) ==
  /\ Segments(t, sub) = [k \in 1 .. m |-> <<S[k], E[k]>>]
  /\ \A k \in 1 .. m : S[k] \in Starts(t, sub) /\ S[k] < E[k]
  /\ \A j, k \in 1 .. m : j < k => S[j] < S[k] /\ E[j] <= S[k]
  /\ \A q \in 1 .. Len(t) : t[q] # "/" =>
       \/ \E k \in 1 .. m : S[k] <= q /\ q < E[k]
       \/ \A s \in Starts(t, sub) : q < s

LEMMA SegmentsLaid ==
  ASSUME NEW t \in Seq(Letters), NEW sub \in BOOLEAN
  PROVE  \E m \in Nat : \E S, E \in [1 .. m -> 1 .. Len(t) + 1] : Laid(t, sub, m, S, E)
<1>0. PICK n \in Nat : n = Len(t)
  OBVIOUS
<1> DEFINE stop(s) == StopOf(t, sub, s)
           seg     == {s \in Starts(t, sub) : s <= Len(t) /\ Ink(t, <<s, stop(s)>>) # {}}
<1>1. Segments(t, sub) =
        [k \in 1 .. Cardinality(seg) |-> <<Sorted(seg)[k], stop(Sorted(seg)[k])>>]
  BY DEF Segments, StopOf
<1>2. Starts(t, sub) \in SUBSET (1 .. n + 1)
  BY <1>0, StartsIs
<1>3. seg \in SUBSET (1 .. n)
  <2>1. \A s \in seg : s \in 1 .. n + 1 /\ s <= n
    BY <1>0, <1>2
  <2>2. \A s \in seg : s \in 1 .. n
    BY <2>1
  <2> QED
    BY <2>2
<1>4. IsFiniteSet(seg) /\ seg \in SUBSET Nat
  <2>1. IsFiniteSet(1 .. n) /\ 1 .. n \in SUBSET Nat
    BY FS_Interval
  <2> HIDE DEF seg
  <2> QED
    BY <1>3, <2>1, FS_Subset
<1>5. PICK m \in Nat : m = Cardinality(seg)
  <2> HIDE DEF seg
  <2> QED
    BY <1>4, SortedIs
<1>6. PICK S \in [1 .. m -> seg] :
        /\ m = Cardinality(seg) /\ S = Sorted(seg)
        /\ \A x \in seg : \E k \in 1 .. m : S[k] = x
        /\ \A j, k \in 1 .. m : j < k => S[j] < S[k]
  <2> HIDE DEF seg
  <2> QED
    BY <1>4, <1>5, SortedIs
<1>7. PICK E : E = [k \in 1 .. m |-> stop(S[k])]
  OBVIOUS
<1>8. ASSUME NEW k \in 1 .. m
      PROVE  /\ S[k] \in seg /\ S[k] \in 1 .. n /\ S[k] \in Starts(t, sub) /\ E[k] = stop(S[k])
             /\ E[k] \in 1 .. n + 1 /\ S[k] < E[k]
             /\ \A x \in Starts(t, sub) : x > S[k] => E[k] <= x
  <2>1. S[k] \in seg /\ S[k] \in 1 .. n /\ E[k] = stop(S[k])
    BY <1>3, <1>6, <1>7
  <2> QED
    BY <1>0, <2>1, StopIs
<1>9. S \in [1 .. m -> 1 .. n + 1] /\ E \in [1 .. m -> 1 .. n + 1]
  <2>0. 1 .. n \in SUBSET (1 .. n + 1)
    BY <1>0
  <2>1. \A k \in 1 .. m : S[k] \in 1 .. n + 1 /\ E[k] \in 1 .. n + 1
    <3> HIDE DEF seg
    <3> QED
      BY <1>8, <2>0
  <2>2. E = [k \in 1 .. m |-> E[k]] /\ S = [k \in 1 .. m |-> S[k]]
    BY <1>6, <1>7
  <2> QED
    BY <2>1, <2>2
<1>10. Segments(t, sub) = [k \in 1 .. m |-> <<S[k], E[k]>>]
  BY <1>1, <1>6, <1>7
<1>11. \A j, k \in 1 .. m : j < k => S[j] < S[k] /\ E[j] <= S[k]
  BY <1>6, <1>8
<1>12. ASSUME NEW q \in 1 .. n, t[q] # "/", NEW s \in Starts(t, sub), ~(q < s)
       PROVE  \E k \in 1 .. m : S[k] <= q /\ q < E[k]
  <2> DEFINE T == {x \in Starts(t, sub) : x <= q}
  <2>1. T \in SUBSET (0 .. q) /\ T # {} /\ q \in Nat
    <3>1. \A x \in T : x \in 0 .. q
      BY <1>2
    <3>2. s \in T
      BY <1>2, <1>12
    <3> QED
      BY <3>1, <3>2
  <2>2. PICK x \in T : \A y \in T : y <= x
    <3> HIDE DEF T
    <3> QED
      BY <2>1, GreatestNat
  <2>3. x \in Starts(t, sub) /\ x \in 1 .. n /\ x <= q
    BY <1>2, <2>2
  <2>4. PICK e \in 1 .. n + 1 :
          e = stop(x) /\ x < e /\ e \in Starts(t, sub) \cup {n + 1}
    BY <1>0, <2>3, StopIs
  <2>5. q < e
    <3>1. SUFFICES ASSUME e <= q PROVE FALSE
      BY <2>4
    <3>2. e \in Starts(t, sub)
      BY <2>4, <3>1
    <3> QED
      BY <2>2, <2>4, <3>1, <3>2
  <2>6. q \in Ink(t, <<x, e>>)
    BY <1>12, <2>3, <2>5 DEF Ink
  <2>7. x \in seg
    BY <1>0, <2>3, <2>4, <2>6
  <2>8. PICK k \in 1 .. m : S[k] = x
    BY <1>6, <2>7
  <2> QED
    BY <1>8, <2>3, <2>4, <2>5, <2>8
<1>13. Laid(t, sub, m, S, E)
  BY <1>0, <1>8, <1>10, <1>11, <1>12 DEF Laid
<1> QED
  BY <1>0, <1>9, <1>13

(* The beginning of a sequence of m.                                       *)
Begins(s, n, m, l) ==
  /\ FirstOf(s, n) = [k \in 1 .. l |-> s[k]] /\ Len(FirstOf(s, n)) = l
  /\ l <= n /\ (l < m => l = n)

LEMMA FirstOfIs ==
  ASSUME NEW n \in Nat, NEW m \in Nat, NEW s, s = [k \in 1 .. m |-> s[k]]
  PROVE  \E l \in 0 .. m : Begins(s, n, m, l)
<1>1. Len(s) = m /\ DOMAIN s = 1 .. m
  OBVIOUS
<1>2. CASE m > n
  <2>1. SubSeq(s, 1, n) = [k \in 1 .. n |-> s[k]]
    OBVIOUS
  <2>2. FirstOf(s, n) = [k \in 1 .. n |-> s[k]]
    BY <1>1, <1>2, <2>1 DEF FirstOf
  <2>3. Len([k \in 1 .. n |-> s[k]]) = n
    OBVIOUS
  <2>4. PICK l \in 0 .. m : l = n
    BY <1>2
  <2>5. FirstOf(s, n) = [k \in 1 .. l |-> s[k]] /\ Len(FirstOf(s, n)) = l
    BY <2>2, <2>3, <2>4
  <2>6. l <= n /\ (l < m => l = n)
    BY <2>4
  <2> QED
    BY <2>5, <2>6 DEF Begins
<1>3. CASE ~(m > n)
  <2>1. FirstOf(s, n) = [k \in 1 .. m |-> s[k]] /\ Len(FirstOf(s, n)) = m
    BY <1>1, <1>3 DEF FirstOf
  <2>2. m \in 0 .. m /\ m <= n
    BY <1>3
  <2>3. Begins(s, n, m, m)
    BY <2>1, <2>2 DEF Begins
  <2> QED
    BY <2>2, <2>3
<1> QED
  BY <1>2, <1>3

(* The third part of SegmentsOnce.                                         *)
Covers(ss, t, sub) ==
  \A q \in Ink(t, <<1, Len(t) + 1>>) :
    \/ Cardinality({i \in 1 .. Len(ss) : q \in Ink(t, ss[i])}) = 1
    \/ q < ss[1][1] /\ \E p \in LineStarts(t) : p > q /\ Marker(t, p, sub)
    \/ q >= ss[Len(ss)][2] /\ Len(ss) = MaxClauses

LEMMA OneOf ==
  ASSUME NEW T, NEW x, T = {x}
  PROVE  Cardinality(T) = 1
  BY FS_Singleton

LEMMA SegmentsCover ==
  ASSUME NEW t \in Seq(Letters), NEW sub \in BOOLEAN,
         NEW ss, ss = FirstOf(Segments(t, sub), MaxClauses)
  PROVE  /\ Len(ss) \in Nat /\ Len(ss) <= MaxClauses
         /\ Len(ss) # 0 => Covers(ss, t, sub)
<1>0. PICK n \in Nat : n = Len(t)
  OBVIOUS
<1>1. PICK m \in Nat : \E S, E \in [1 .. m -> 1 .. n + 1] : Laid(t, sub, m, S, E)
  BY <1>0, SegmentsLaid
<1>2. PICK S \in [1 .. m -> 1 .. n + 1], E \in [1 .. m -> 1 .. n + 1] : Laid(t, sub, m, S, E)
  BY <1>1
<1>3. PICK all : all = Segments(t, sub) /\ all = [k \in 1 .. m |-> <<S[k], E[k]>>]
  BY <1>2 DEF Laid
<1>4. PICK l \in 0 .. m : /\ ss = [k \in 1 .. l |-> all[k]] /\ Len(ss) = l
                          /\ l <= MaxClauses /\ (l < m => l = MaxClauses)
  <2>1. all = [k \in 1 .. m |-> all[k]]
    BY <1>3
  <2>2. MaxClauses \in Nat
    BY SplittingAssumption
  <2>3. PICK l \in 0 .. m : Begins(all, MaxClauses, m, l)
    BY <2>1, <2>2, FirstOfIs
  <2>4. ss = [k \in 1 .. l |-> all[k]] /\ Len(ss) = l
    BY <1>3, <2>3 DEF Begins
  <2>5. l <= MaxClauses /\ (l < m => l = MaxClauses)
    BY <2>3 DEF Begins
  <2> QED
    BY <2>4, <2>5
<1>5. l <= m /\ l \in Nat /\ 1 .. l \in SUBSET (1 .. m)
  BY <1>4
<1>6. ASSUME NEW k \in 1 .. l PROVE k \in 1 .. m /\ ss[k] = <<S[k], E[k]>>
  <2>1. ss[k] = all[k] /\ k \in 1 .. m
    BY <1>4, <1>5
  <2>2. all[k] = <<S[k], E[k]>>
    BY <1>3, <2>1
  <2> QED
    BY <2>1, <2>2
<1>7. SUFFICES ASSUME l # 0, NEW q \in Ink(t, <<1, n + 1>>)
               PROVE  \/ Cardinality({i \in 1 .. l : q \in Ink(t, ss[i])}) = 1
                      \/ q < ss[1][1] /\ \E p \in LineStarts(t) : p > q /\ Marker(t, p, sub)
                      \/ q >= ss[l][2] /\ l = MaxClauses
  <2>1. Len(ss) = l /\ l \in Nat /\ l <= MaxClauses /\ Len(t) = n
    BY <1>0, <1>4, <1>5
  <2> QED
    BY <2>1 DEF Covers
<1>8. q \in 1 .. n /\ t[q] # "/" /\ 1 \in 1 .. l /\ l \in 1 .. l
  BY <1>4, <1>7 DEF Ink
<1>9. CASE \A s \in Starts(t, sub) : q < s
  <2>0. 1 \in 1 .. m /\ ss[1] = <<S[1], E[1]>>
    BY <1>6, <1>8
  <2>1. S[1] \in Starts(t, sub) /\ ss[1][1] = S[1]
    BY <1>2, <2>0 DEF Laid
  <2>2. 1 \notin Starts(t, sub)
    BY <1>8, <1>9
  <2>3. S[1] \in LineStarts(t) /\ Marker(t, S[1], sub)
    BY <2>1, <2>2, StartsIs
  <2>4. S[1] \in Nat /\ q < S[1]
    BY <1>9, <2>0, <2>1
  <2> QED
    BY <2>1, <2>3, <2>4
<1>10. CASE \E k \in 1 .. m : S[k] <= q /\ q < E[k]
  <2>1. PICK k \in 1 .. m : S[k] <= q /\ q < E[k]
    BY <1>10
  <2>2. \A i \in 1 .. m : S[i] \in Nat /\ E[i] \in Nat
    OBVIOUS
  <2>3. \A i, j \in 1 .. m : i < j => E[i] <= S[j]
    BY <1>2 DEF Laid
  <2>4. CASE k \in 1 .. l
    <3>1. ASSUME NEW i \in 1 .. l PROVE q \in Ink(t, ss[i]) <=> i = k
      <4>1. ss[i] = <<S[i], E[i]>> /\ i \in 1 .. m
        BY <1>6
      <4>2. q \in Ink(t, ss[i]) <=> S[i] <= q /\ q < E[i]
        BY <1>8, <2>2, <4>1 DEF Ink
      <4>3. i < k \/ k < i \/ i = k
        OBVIOUS
      <4> QED
        BY <1>8, <2>1, <2>2, <2>3, <4>1, <4>2, <4>3
    <3>2. {i \in 1 .. l : q \in Ink(t, ss[i])} = {k}
      BY <2>4, <3>1
    <3> QED
      BY <3>2, OneOf
  <2>5. CASE k \notin 1 .. l
    <3>1. l < k /\ l < m /\ l \in 1 .. m
      BY <1>4, <1>8, <2>5
    <3>2. E[l] <= S[k] /\ ss[l] = <<S[l], E[l]>>
      BY <1>6, <1>8, <2>3, <3>1
    <3>3. S[k] \in Nat /\ E[l] \in Nat /\ q \in Nat
      BY <1>8, <2>2, <3>1
    <3>4. q >= E[l]
      BY <2>1, <3>2, <3>3
    <3>5. ss[l][2] = E[l]
      BY <3>2
    <3>6. l = MaxClauses
      BY <1>4, <3>1
    <3> QED
      BY <3>4, <3>5, <3>6
  <2> QED
    BY <2>4, <2>5
<1> QED
  BY <1>0, <1>2, <1>8, <1>9, <1>10 DEF Laid

LEMMA WholeCovers ==
  ASSUME NEW t \in Seq(Letters), NEW sub, NEW ss, ss = << <<1, Len(t) + 1>> >>
  PROVE  Len(ss) = 1 /\ Covers(ss, t, sub)
<1>1. Len(ss) = 1 /\ ss[1] = <<1, Len(t) + 1>>
  OBVIOUS
<1>2. ASSUME NEW q \in Ink(t, <<1, Len(t) + 1>>)
      PROVE  Cardinality({i \in 1 .. Len(ss) : q \in Ink(t, ss[i])}) = 1
  <2>1. {i \in 1 .. Len(ss) : q \in Ink(t, ss[i])} = {1}
    BY <1>1, <1>2
  <2> QED
    BY <2>1, OneOf
<1> QED
  BY <1>1, <1>2 DEF Covers

(* Segments do not overlap, and between two of them all letters are in     *)
(* some.                                                                   *)
Lie(ss, t) ==
  /\ \A i \in 1 .. Len(ss) : /\ ss[i][1] \in 1 .. Len(t) + 1 /\ ss[i][2] \in 1 .. Len(t) + 1
                             /\ ss[i][1] < ss[i][2]
  /\ \A i, j \in 1 .. Len(ss) : \A q \in Ink(t, <<ss[i][1], ss[j][2]>>) :
       \E k \in i .. j : q \in Ink(t, ss[k])

LEMMA SegmentsLie ==
  ASSUME NEW t \in Seq(Letters), NEW sub \in BOOLEAN,
         NEW ss, ss = FirstOf(Segments(t, sub), MaxClauses)
  PROVE  Lie(ss, t)
<1>0. PICK n \in Nat : n = Len(t)
  OBVIOUS
<1>1. PICK m \in Nat : \E S, E \in [1 .. m -> 1 .. n + 1] : Laid(t, sub, m, S, E)
  BY <1>0, SegmentsLaid
<1>2. PICK S \in [1 .. m -> 1 .. n + 1], E \in [1 .. m -> 1 .. n + 1] : Laid(t, sub, m, S, E)
  BY <1>1
<1>3. PICK all : all = Segments(t, sub) /\ all = [k \in 1 .. m |-> <<S[k], E[k]>>]
  BY <1>2 DEF Laid
<1>4. PICK l \in 0 .. m : ss = [k \in 1 .. l |-> all[k]] /\ Len(ss) = l
  <2>1. all = [k \in 1 .. m |-> all[k]]
    BY <1>3
  <2>2. MaxClauses \in Nat
    BY SplittingAssumption
  <2>3. PICK l \in 0 .. m : Begins(all, MaxClauses, m, l)
    BY <2>1, <2>2, FirstOfIs
  <2> QED
    BY <1>3, <2>3 DEF Begins
<1>5. ASSUME NEW k \in 1 .. l PROVE k \in 1 .. m /\ ss[k] = <<S[k], E[k]>>
  <2>1. ss[k] = all[k] /\ k \in 1 .. m
    BY <1>4
  <2>2. all[k] = <<S[k], E[k]>>
    BY <1>3, <2>1
  <2> QED
    BY <2>1, <2>2
<1>6. \A k \in 1 .. m : /\ S[k] \in 1 .. n + 1 /\ E[k] \in 1 .. n + 1 /\ S[k] < E[k]
                        /\ S[k] \in Starts(t, sub)
  BY <1>2 DEF Laid
<1>7. \A j, k \in 1 .. m : j < k => E[j] <= S[k]
  BY <1>2 DEF Laid
<1>8. ASSUME NEW i \in 1 .. l, NEW j \in 1 .. l, NEW q \in Ink(t, <<S[i], E[j]>>)
      PROVE  \E k \in i .. j : q \in Ink(t, ss[k])
  <2>1. i \in 1 .. m /\ j \in 1 .. m
    BY <1>5
  <2>2. q \in 1 .. n /\ t[q] # "/" /\ S[i] <= q /\ q < E[j]
    BY <1>6, <2>1 DEF Ink
  <2>3. ~ \A s \in Starts(t, sub) : q < s
    BY <1>6, <2>1, <2>2
  <2>4. PICK k \in 1 .. m : S[k] <= q /\ q < E[k]
    BY <1>0, <1>2, <2>2, <2>3 DEF Laid
  <2>5. ~(k < i) /\ ~(j < k)
    BY <1>6, <1>7, <2>1, <2>2, <2>4
  <2>6. k \in i .. j /\ k \in 1 .. l
    BY <2>4, <2>5
  <2>7. q \in Ink(t, <<S[k], E[k]>>)
    BY <1>6, <2>2, <2>4 DEF Ink
  <2> QED
    BY <1>5, <2>6, <2>7
<1>9. ASSUME NEW i \in 1 .. l
      PROVE  ss[i][1] = S[i] /\ ss[i][2] = E[i] /\ i \in 1 .. m
  BY <1>5
<1>10. /\ \A i \in 1 .. l : /\ ss[i][1] \in 1 .. n + 1 /\ ss[i][2] \in 1 .. n + 1
                            /\ ss[i][1] < ss[i][2]
       /\ \A i, j \in 1 .. l : \A q \in Ink(t, <<ss[i][1], ss[j][2]>>) :
            \E k \in i .. j : q \in Ink(t, ss[k])
  BY <1>6, <1>8, <1>9
<1> QED
  BY <1>0, <1>4, <1>10 DEF Lie

LEMMA WholeLies ==
  ASSUME NEW t \in Seq(Letters), t # << >>, NEW ss, ss = << <<1, Len(t) + 1>> >>
  PROVE  Lie(ss, t)
<1>1. Len(ss) = 1 /\ ss[1] = <<1, Len(t) + 1>> /\ Len(t) \in Nat /\ Len(t) # 0
  OBVIOUS
<1>2. \A i, j \in 1 .. 1 : i = 1 /\ j = 1 /\ 1 \in i .. j
  OBVIOUS
<1>3. \A i \in 1 .. 1 : /\ ss[i][1] \in 1 .. Len(t) + 1 /\ ss[i][2] \in 1 .. Len(t) + 1
                        /\ ss[i][1] < ss[i][2]
  BY <1>1
<1>4. \A i, j \in 1 .. 1 : \A q \in Ink(t, <<ss[i][1], ss[j][2]>>) :
        \E k \in i .. j : q \in Ink(t, ss[k])
  BY <1>1, <1>2
<1> QED
  BY <1>1, <1>3, <1>4 DEF Lie

-----------------------------------------------------------------------------
(* The groups *)

Groups(n) == [idx : SUBSET (0 .. n), size : Nat, type : Types \cup {"any"}]

(* Texts of the model's own.                                               *)
Unnumbered(gs) == \A k \in 1 .. Len(gs) : gs[k].idx = {}

(* Tolerant: what is claimed is in one group.                              *)
Claimed(gs, cl, n) ==
  /\ \A k \in 1 .. Len(gs) : gs[k].idx # {} /\ gs[k].idx \in SUBSET (1 .. n)
  /\ \A j, k \in 1 .. Len(gs) : j # k => gs[j].idx \cap gs[k].idx = {}
  /\ \A i \in 1 .. n : i \in cl <=> \E k \in 1 .. Len(gs) : i \in gs[k].idx

(* Strict: the numbers of the answer are those of its groups, one after    *)
(* another.                                                                *)
Dealt(gs, m, fl, l, o) ==
  /\ \A a, b \in 1 .. l : a < b => o[a] <= o[b]
  /\ \A i \in 1 .. l : fl[i] \in gs[o[i]].idx
  /\ \A k \in 1 .. m :
       gs[k].idx # {} /\ \A x \in gs[k].idx : \E i \in 1 .. l : o[i] = k /\ fl[i] = x
Answered(gs, fl, n) ==
  /\ fl \in Seq(0 .. n)
  /\ \E o \in [1 .. Len(fl) -> 1 .. Len(gs)] : Dealt(gs, Len(gs), fl, Len(fl), o)

(* Each of 1 .. n in one group, in the order of the first ones.            *)
Tiled(gs, n, tolerant) ==
  /\ \A k \in 1 .. Len(gs) : gs[k].idx # {} /\ gs[k].idx \in SUBSET (1 .. n)
  /\ \A i \in 1 .. n : \E k \in 1 .. Len(gs) : i \in gs[k].idx
  /\ \A j, k \in 1 .. Len(gs) : j # k => gs[j].idx \cap gs[k].idx = {}
  /\ \A j, k \in 1 .. Len(gs) : j < k =>
       /\ Before(gs[j], gs[k])
       /\ ~tolerant => \A a \in gs[j].idx, b \in gs[k].idx : a < b

LEMMA AloneTiled ==
  ASSUME NEW n \in Nat, NEW tolerant
  PROVE  Alone(n) \in Seq(Groups(n)) /\ Tiled(Alone(n), n, tolerant)
<1>1. \A k \in 1 .. n : Group({k}, 0, "none") \in Groups(n) /\ Group({k}, 0, "none").idx = {k}
  BY DEF Group, Groups, Types
<1>2. Alone(n) \in [1 .. n -> Groups(n)]
  BY <1>1 DEF Alone
<1>3. PICK gs \in Seq(Groups(n)) : gs = Alone(n) /\ Len(gs) = n
  BY <1>2
<1>4. \A k \in 1 .. n : gs[k].idx = {k}
  BY <1>1, <1>3 DEF Alone
<1>5. \A j, k \in 1 .. n : j < k => Before(gs[j], gs[k])
  BY <1>4 DEF Before
<1>6. \A k \in 1 .. n : k \in 1 .. n /\ gs[k].idx # {} /\ gs[k].idx \in SUBSET (1 .. n)
  BY <1>4
<1>7. \A j, k \in 1 .. n : j # k => gs[j].idx \cap gs[k].idx = {}
  BY <1>4
<1>8. \A j, k \in 1 .. n : j < k => \A a \in gs[j].idx, b \in gs[k].idx : a < b
  BY <1>4
<1>9. \A i \in 1 .. n : \E k \in 1 .. n : i \in gs[k].idx
  BY <1>4
<1> QED
  BY <1>3, <1>5, <1>6, <1>7, <1>8, <1>9 DEF Tiled

(* There are no more groups than segments, so none is beyond the limit.    *)
LEMMA FewTiles ==
  ASSUME NEW n \in Nat, NEW gs \in Seq(Groups(n)), NEW tolerant, Tiled(gs, n, tolerant)
  PROVE  Len(gs) <= n
<1>0. PICK m \in Nat : m = Len(gs)
  OBVIOUS
<1>1. PICK f : f = [k \in 1 .. m |-> CHOOSE i \in gs[k].idx : TRUE]
  OBVIOUS
<1>2. \A k \in 1 .. m : f[k] \in gs[k].idx /\ f[k] \in 1 .. n
  BY <1>0, <1>1 DEF Tiled
<1>3. f \in [1 .. m -> 1 .. n]
  BY <1>1, <1>2
<1>4. \A j, k \in 1 .. m : f[j] = f[k] => j = k
  BY <1>0, <1>2 DEF Tiled
<1>5. f \in Injection(1 .. m, 1 .. n)
  BY <1>3, <1>4 DEF Injection, IsInjective
<1>6. /\ IsFiniteSet(1 .. m) /\ Cardinality(1 .. m) = m
      /\ IsFiniteSet(1 .. n) /\ Cardinality(1 .. n) = n
  BY FS_Interval
<1>7. Cardinality(1 .. m) <= Cardinality(1 .. n)
  BY <1>5, <1>6, FS_Injection
<1> QED
  BY <1>0, <1>6, <1>7

LEMMA GroupIs ==
  ASSUME NEW n \in Nat, NEW idx \in SUBSET (0 .. n), NEW size \in Nat,
         NEW type \in Types \cup {"any"}
  PROVE  Group(idx, size, type) \in Groups(n) /\ Group(idx, size, type).idx = idx
  BY DEF Group, Groups

LEMMA Appended ==
  ASSUME NEW G, NEW gs \in Seq(G), NEW g \in G
  PROVE  /\ Append(gs, g) \in Seq(G) /\ Len(Append(gs, g)) = Len(gs) + 1
         /\ Append(gs, g)[Len(gs) + 1] = g
         /\ \A k \in 1 .. Len(gs) : Append(gs, g)[k] = gs[k]
  OBVIOUS

LEMMA ClaimStays ==
  ASSUME NEW n \in Nat, NEW gs \in Seq(Groups(n)), NEW cl, Claimed(gs, cl, n),
         NEW numbers \in SUBSET (0 .. n + 1), NEW type \in Types,
         NEW keep, keep = (numbers \cap 1 .. n) \ cl, keep # {}
  PROVE  /\ Append(gs, Group(keep, 0, type)) \in Seq(Groups(n))
         /\ Claimed(Append(gs, Group(keep, 0, type)), cl \cup keep, n)
<1>0. PICK m \in Nat : m = Len(gs)
  OBVIOUS
<1>1. keep \in SUBSET (1 .. n) /\ keep \in SUBSET (0 .. n)
  OBVIOUS
<1>2. PICK g : g = Group(keep, 0, type)
  OBVIOUS
<1>3. g \in Groups(n) /\ g.idx = keep
  <2>1. 0 \in Nat /\ type \in Types \cup {"any"}
    OBVIOUS
  <2> QED
    BY <1>1, <1>2, <2>1, GroupIs
<1>4. PICK hs : hs = Append(gs, g)
  OBVIOUS
<1>5. /\ hs \in Seq(Groups(n)) /\ Len(hs) = m + 1 /\ hs[m + 1] = g
      /\ \A k \in 1 .. m : hs[k] = gs[k]
  BY <1>0, <1>3, <1>4, Appended
<1>6. /\ Len(hs) = m + 1 /\ hs[m + 1].idx = keep
      /\ \A k \in 1 .. m : hs[k] = gs[k] /\ hs[k].idx = gs[k].idx
      /\ \A k \in 1 .. m + 1 : k \in 1 .. m \/ k = m + 1
  BY <1>0, <1>3, <1>5
<1>7. \A k \in 1 .. m : keep \cap gs[k].idx = {} /\ gs[k].idx # {} /\ gs[k].idx \in SUBSET (1 .. n)
  BY <1>0 DEF Claimed
<1>8. \A k \in 1 .. m + 1 : hs[k].idx # {} /\ hs[k].idx \in SUBSET (1 .. n)
  BY <1>1, <1>6, <1>7
<1>9. ASSUME NEW j \in 1 .. m + 1, NEW k \in 1 .. m + 1, j # k
      PROVE  hs[j].idx \cap hs[k].idx = {}
  <2>1. CASE j \in 1 .. m /\ k \in 1 .. m
    BY <1>0, <1>6, <1>9, <2>1 DEF Claimed
  <2>2. CASE j = m + 1 /\ k \in 1 .. m
    BY <1>6, <1>7, <2>2
  <2>3. CASE j \in 1 .. m /\ k = m + 1
    BY <1>6, <1>7, <2>3
  <2> QED
    BY <1>6, <1>9, <2>1, <2>2, <2>3
<1>10. ASSUME NEW i \in 1 .. n
      PROVE  i \in cl \cup keep <=> \E k \in 1 .. m + 1 : i \in hs[k].idx
  <2>1. i \in cl <=> \E k \in 1 .. m : i \in gs[k].idx
    BY <1>0 DEF Claimed
  <2>2. m + 1 \in 1 .. m + 1 /\ \A k \in 1 .. m : k \in 1 .. m + 1
    OBVIOUS
  <2> QED
    BY <1>6, <2>1, <2>2
<1>11. Claimed(hs, cl \cup keep, n)
  BY <1>6, <1>8, <1>9, <1>10 DEF Claimed
<1> QED
  BY <1>2, <1>4, <1>5, <1>11

(* The groups and the segments nobody claimed, in the order of the first   *)
(* ones.                                                                   *)
Everything(gs, cl, n) ==
  {gs[k] : k \in DOMAIN gs} \cup {Group({i}, 0, "none") : i \in 1 .. n \ cl}

LEMMA EverythingIs ==
  ASSUME NEW n \in Nat, NEW gs \in Seq(Groups(n)), NEW cl, Claimed(gs, cl, n)
  PROVE  /\ IsFiniteSet(Everything(gs, cl, n))
         /\ \A g \in Everything(gs, cl, n) :
              g \in Groups(n) /\ g.idx # {} /\ g.idx \in SUBSET (1 .. n)
         /\ \A i \in 1 .. n : \E g \in Everything(gs, cl, n) : i \in g.idx
         /\ \A g, h \in Everything(gs, cl, n) : g # h => g.idx \cap h.idx = {}
<1>0. PICK m \in Nat : m = Len(gs) /\ DOMAIN gs = 1 .. m
  OBVIOUS
<1> DEFINE old  == {gs[k] : k \in 1 .. m}
           rest == 1 .. n \ cl
           one(i) == Group({i}, 0, "none")
           new  == {one(i) : i \in rest}
<1>1. Everything(gs, cl, n) = old \cup new
  BY <1>0 DEF Everything
<1>2. IsFiniteSet(old)
  <2>1. PICK f : f = [k \in 1 .. m |-> gs[k]]
    OBVIOUS
  <2>2. f \in Surjection(1 .. m, old)
    BY <2>1 DEF Surjection
  <2>3. IsFiniteSet(1 .. m)
    BY FS_Interval
  <2> QED
    BY <2>2, <2>3, FS_Surjection
<1>3. IsFiniteSet(new)
  <2>1. PICK f : f = [i \in rest |-> one(i)]
    OBVIOUS
  <2>2. f \in Surjection(rest, new)
    BY <2>1 DEF Surjection
  <2>3. IsFiniteSet(1 .. n) /\ rest \in SUBSET (1 .. n)
    BY FS_Interval
  <2>4. IsFiniteSet(rest)
    BY <2>3, FS_Subset
  <2> QED
    BY <2>2, <2>4, FS_Surjection
<1>4. IsFiniteSet(Everything(gs, cl, n))
  BY <1>1, <1>2, <1>3, FS_Union
<1>5. ASSUME NEW k \in 1 .. m
      PROVE  gs[k] \in Groups(n) /\ gs[k].idx # {} /\ gs[k].idx \in SUBSET (1 .. n)
  BY <1>0 DEF Claimed
<1>6. ASSUME NEW i \in rest
      PROVE  one(i) \in Groups(n) /\ one(i).idx = {i} /\ {i} \in SUBSET (1 .. n)
  <2>1. {i} \in SUBSET (0 .. n) /\ {i} \in SUBSET (1 .. n) /\ 0 \in Nat
        /\ "none" \in Types \cup {"any"}
    BY DEF Types
  <2> QED
    BY <2>1, GroupIs
<1>7. ASSUME NEW g \in Everything(gs, cl, n)
      PROVE  g \in Groups(n) /\ g.idx # {} /\ g.idx \in SUBSET (1 .. n)
  <2>1. CASE g \in old
    BY <1>5, <2>1
  <2>2. CASE g \in new
    <3>1. PICK i \in rest : g = one(i)
      BY <2>2
    <3>2. g.idx = {i} /\ g \in Groups(n) /\ {i} \in SUBSET (1 .. n)
      BY <1>6, <3>1
    <3> QED
      BY <3>2
  <2> QED
    BY <1>1, <1>7, <2>1, <2>2
<1>8. ASSUME NEW i \in 1 .. n PROVE \E g \in Everything(gs, cl, n) : i \in g.idx
  <2>1. CASE i \in cl
    <3>1. PICK k \in 1 .. m : i \in gs[k].idx
      BY <1>0, <2>1 DEF Claimed
    <3>2. gs[k] \in Everything(gs, cl, n)
      BY <1>1
    <3> QED
      BY <3>1, <3>2
  <2>2. CASE i \notin cl
    <3>1. one(i) \in Everything(gs, cl, n) /\ one(i).idx = {i}
      BY <1>1, <1>6, <2>2
    <3> QED
      BY <3>1
  <2> QED
    BY <2>1, <2>2
<1>9. ASSUME NEW g \in Everything(gs, cl, n), NEW h \in Everything(gs, cl, n), g # h
      PROVE  g.idx \cap h.idx = {}
  <2>1. ASSUME NEW x \in old, NEW y \in old, x # y PROVE x.idx \cap y.idx = {}
    <3>1. PICK j \in 1 .. m : x = gs[j]
      OBVIOUS
    <3>2. PICK k \in 1 .. m : y = gs[k]
      OBVIOUS
    <3> QED
      BY <1>0, <2>1, <3>1, <3>2 DEF Claimed
  <2>2. ASSUME NEW x \in old, NEW y \in new PROVE x.idx \cap y.idx = {}
    <3>1. PICK k \in 1 .. m : x = gs[k]
      OBVIOUS
    <3>2. PICK i \in rest : y = one(i)
      OBVIOUS
    <3>3. y.idx = {i} /\ i \in 1 .. n /\ i \notin cl
      BY <1>6, <3>2
    <3>4. i \notin gs[k].idx
      BY <1>0, <3>3 DEF Claimed
    <3> QED
      BY <3>1, <3>3, <3>4
  <2>3. ASSUME NEW x \in new, NEW y \in new, x # y PROVE x.idx \cap y.idx = {}
    <3>1. PICK i \in rest : x = one(i)
      OBVIOUS
    <3>2. PICK j \in rest : y = one(j)
      OBVIOUS
    <3>3. i # j /\ x.idx = {i} /\ y.idx = {j}
      BY <1>6, <2>3, <3>1, <3>2
    <3> QED
      BY <3>3
  <2> HIDE DEF old, new
  <2> QED
    BY <1>1, <1>9, <2>1, <2>2, <2>3
<1> QED
  BY <1>4, <1>7, <1>8, <1>9

LEMMA CompleteTiles ==
  ASSUME NEW n \in Nat, NEW gs \in Seq(Groups(n)), NEW cl, Claimed(gs, cl, n),
         NEW all, all = Everything(gs, cl, n),
         NEW s \in [1 .. Cardinality(all) -> all],
         \A j, k \in DOMAIN s : j < k => Before(s[j], s[k])
  PROVE  s \in Seq(Groups(n)) /\ Tiled(s, n, TRUE)
<1>1. /\ IsFiniteSet(all)
      /\ \A g \in all : g \in Groups(n) /\ g.idx # {} /\ g.idx \in SUBSET (1 .. n)
      /\ \A i \in 1 .. n : \E g \in all : i \in g.idx
      /\ \A g, h \in all : g # h => g.idx \cap h.idx = {}
  BY EverythingIs
<1>2. PICK c \in Nat : c = Cardinality(all)
  BY <1>1, FS_CardinalityType
<1>3. /\ s \in Seq(Groups(n)) /\ Len(s) = c /\ s \in [1 .. c -> all]
      /\ \A k \in 1 .. c : s[k] \in all
  <2>1. s \in [1 .. c -> all]
    BY <1>2
  <2>2. s \in [1 .. c -> Groups(n)]
    BY <1>1, <2>1
  <2>3. s \in Seq(Groups(n)) /\ Len(s) = c
    BY <2>2
  <2> QED
    BY <2>1, <2>3
<1>4. \A j, k \in 1 .. c : j < k => Before(s[j], s[k])
  BY <1>2
<1>5. ASSUME NEW j \in 1 .. c, NEW k \in 1 .. c, j < k PROVE s[j] # s[k]
  <2>1. PICK i \in s[j].idx : \A x \in s[k].idx : i < x
    BY <1>4, <1>5 DEF Before
  <2>2. i \in Nat
    BY <1>1, <1>3, <2>1
  <2> QED
    BY <2>1, <2>2
<1>6. \A j, k \in 1 .. c : j # k => s[j] # s[k]
  <2>1. \A j, k \in 1 .. c : j # k => j < k \/ k < j
    OBVIOUS
  <2> QED
    BY <1>5, <2>1
<1>7. s \in Injection(1 .. c, all)
  BY <1>3, <1>6 DEF Injection, IsInjective
<1>8. IsFiniteSet(1 .. c) /\ Cardinality(1 .. c) = c
  BY FS_Interval
<1>9. s \in Surjection(1 .. c, all)
  BY <1>1, <1>2, <1>7, <1>8, FS_Injection
<1>10. \A g \in all : \E k \in 1 .. c : s[k] = g
  BY <1>9 DEF Surjection
<1>11. \A k \in 1 .. c : s[k].idx # {} /\ s[k].idx \in SUBSET (1 .. n)
  BY <1>1, <1>3
<1>12. ASSUME NEW i \in 1 .. n PROVE \E k \in 1 .. c : i \in s[k].idx
  <2>1. PICK g \in all : i \in g.idx
    BY <1>1
  <2>2. PICK k \in 1 .. c : s[k] = g
    BY <1>10
  <2> QED
    BY <2>1, <2>2
<1>13. \A j, k \in 1 .. c : j # k => s[j].idx \cap s[k].idx = {}
  BY <1>1, <1>3, <1>6
<1> QED
  BY <1>3, <1>4, <1>11, <1>12, <1>13 DEF Tiled

LEMMA EntryStays ==
  ASSUME NEW n \in Nat, NEW gs \in Seq(Groups(n)), NEW fl, Answered(gs, fl, n),
         NEW len \in Nat \ {0}, NEW numbers \in [1 .. len -> 0 .. n], NEW type \in Types,
         NEW g, g = Group({numbers[k] : k \in 1 .. len}, 0, type)
  PROVE  Append(gs, g) \in Seq(Groups(n)) /\ Answered(Append(gs, g), fl \o numbers, n)
<1>0. PICK m \in Nat : m = Len(gs)
  OBVIOUS
<1>1. PICK l \in Nat : l = Len(fl) /\ fl \in Seq(0 .. n)
  BY DEF Answered
<1>2. PICK o \in [1 .. l -> 1 .. m] : Dealt(gs, m, fl, l, o)
  BY <1>0, <1>1 DEF Answered
<1>3. \A i \in 1 .. l : o[i] \in 1 .. m /\ fl[i] \in gs[o[i]].idx
  BY <1>2 DEF Dealt
<1>4. g \in Groups(n) /\ g.idx = {numbers[k] : k \in 1 .. len}
  <2>1. {numbers[k] : k \in 1 .. len} \in SUBSET (0 .. n)
    OBVIOUS
  <2>2. 0 \in Nat /\ type \in Types \cup {"any"}
    OBVIOUS
  <2> QED
    BY <2>1, <2>2, GroupIs
<1>5. PICK hs : hs = Append(gs, g)
  OBVIOUS
<1>6. /\ hs \in Seq(Groups(n)) /\ Len(hs) = m + 1 /\ hs[m + 1] = g
      /\ \A k \in 1 .. m : hs[k] = gs[k]
  BY <1>0, <1>4, <1>5, Appended
<1>7. PICK fm : fm = fl \o numbers
  OBVIOUS
<1>8. /\ fm \in Seq(0 .. n) /\ Len(fm) = l + len
      /\ \A i \in 1 .. l : fm[i] = fl[i]
      /\ \A i \in 1 .. len : fm[l + i] = numbers[i]
  <2>1. numbers \in Seq(0 .. n) /\ Len(numbers) = len
    OBVIOUS
  <2>2. /\ fm \in Seq(0 .. n) /\ Len(fm) = Len(fl) + Len(numbers)
        /\ \A i \in 1 .. Len(fl) : fm[i] = fl[i]
        /\ \A i \in 1 .. Len(numbers) : fm[Len(fl) + i] = numbers[i]
    <3>1. PICK G : G = 0 .. n
      OBVIOUS
    <3>2. fl \in Seq(G) /\ numbers \in Seq(G)
      BY <1>1, <2>1, <3>1
    <3>3. fm \in Seq(G) /\ Len(fm) = Len(fl) + Len(numbers)
      BY <1>7, <3>2
    <3>4. \A i \in 1 .. Len(fl) : fm[i] = fl[i]
      BY <1>7, <3>2
    <3>5. \A i \in 1 .. Len(numbers) : fm[Len(fl) + i] = numbers[i]
      BY <1>7, <3>2
    <3> QED
      BY <3>1, <3>3, <3>4, <3>5
  <2> QED
    BY <1>1, <2>1, <2>2
<1>9. PICK w : w = [i \in 1 .. l + len |-> IF i <= l THEN o[i] ELSE m + 1]
  OBVIOUS
<1>10. ASSUME NEW i \in 1 .. l + len
      PROVE  \/ i \in 1 .. l /\ i <= l /\ w[i] = o[i] /\ o[i] \in 1 .. m
             \/ i > l /\ i - l \in 1 .. len /\ i = l + (i - l) /\ w[i] = m + 1
  <2>1. CASE i <= l
    <3>1. i \in 1 .. l
      BY <2>1
    <3> QED
      BY <1>9, <2>1, <3>1
  <2>2. CASE ~(i <= l)
    <3>1. i > l /\ i - l \in 1 .. len /\ i = l + (i - l)
      BY <2>2
    <3> QED
      BY <1>9, <2>2, <3>1
  <2> QED
    BY <2>1, <2>2
<1>11. w \in [1 .. l + len -> 1 .. m + 1]
  <2>1. \A i \in 1 .. l + len : w[i] \in 1 .. m + 1
    BY <1>10
  <2> QED
    BY <1>9, <2>1
<1>12. ASSUME NEW a \in 1 .. l + len, NEW b \in 1 .. l + len, a < b PROVE w[a] <= w[b]
  <2>1. CASE b <= l
    <3>1. a \in 1 .. l /\ b \in 1 .. l /\ w[a] = o[a] /\ w[b] = o[b]
      BY <1>10, <1>12, <2>1
    <3> QED
      BY <1>2, <1>12, <3>1 DEF Dealt
  <2>2. CASE ~(b <= l)
    <3>1. w[b] = m + 1 /\ w[a] \in 1 .. m + 1
      BY <1>10, <1>11, <2>2
    <3> QED
      BY <3>1
  <2> QED
    BY <2>1, <2>2
<1>13. ASSUME NEW i \in 1 .. l + len PROVE fm[i] \in hs[w[i]].idx
  <2>1. CASE i \in 1 .. l /\ w[i] = o[i] /\ o[i] \in 1 .. m
    <3>1. fm[i] = fl[i] /\ hs[o[i]] = gs[o[i]] /\ fl[i] \in gs[o[i]].idx
      BY <1>3, <1>6, <1>8, <2>1
    <3> QED
      BY <2>1, <3>1
  <2>2. CASE i - l \in 1 .. len /\ i = l + (i - l) /\ w[i] = m + 1
    <3>1. fm[i] = numbers[i - l]
      BY <1>8, <2>2
    <3> QED
      BY <1>4, <1>6, <2>2, <3>1
  <2> QED
    BY <1>10, <2>1, <2>2
<1>14. ASSUME NEW k \in 1 .. m + 1
       PROVE  /\ hs[k].idx # {}
              /\ \A x \in hs[k].idx : \E i \in 1 .. l + len : w[i] = k /\ fm[i] = x
  <2>1. CASE k \in 1 .. m
    <3>1. hs[k].idx # {} /\ \A x \in hs[k].idx : \E i \in 1 .. l : o[i] = k /\ fl[i] = x
      <4>1. hs[k] = gs[k]
        BY <1>6, <2>1
      <4>2. gs[k].idx # {} /\ \A x \in gs[k].idx : \E i \in 1 .. l : o[i] = k /\ fl[i] = x
        BY <1>2, <2>1, Zenon DEF Dealt
      <4> QED
        BY <4>1, <4>2, Zenon
    <3>2. ASSUME NEW i \in 1 .. l PROVE i \in 1 .. l + len /\ w[i] = o[i] /\ fm[i] = fl[i]
      <4>1. i \in 1 .. l + len /\ ~(i > l)
        OBVIOUS
      <4> QED
        BY <1>8, <1>10, <4>1
    <3> QED
      BY <3>1, <3>2
  <2>2. CASE k = m + 1
    <3>1. hs[k].idx = {numbers[i] : i \in 1 .. len}
      BY <1>4, <1>6, <2>2
    <3>2. ASSUME NEW i \in 1 .. len
          PROVE  l + i \in 1 .. l + len /\ w[l + i] = k /\ fm[l + i] = numbers[i]
      <4>1. l + i \in 1 .. l + len /\ ~(l + i <= l)
        OBVIOUS
      <4> QED
        BY <1>8, <1>10, <2>2, <4>1
    <3>3. numbers[1] \in hs[k].idx
      BY <3>1
    <3>4. ASSUME NEW x \in hs[k].idx PROVE \E i \in 1 .. l + len : w[i] = k /\ fm[i] = x
      <4>1. PICK i \in 1 .. len : x = numbers[i]
        BY <3>1
      <4> QED
        BY <3>2, <4>1
    <3> QED
      BY <3>3, <3>4
  <2> QED
    BY <2>1, <2>2
<1>15. Dealt(hs, m + 1, fm, l + len, w)
  BY <1>12, <1>13, <1>14 DEF Dealt
<1>16. Answered(hs, fm, n)
  BY <1>6, <1>8, <1>11, <1>15 DEF Answered
<1> QED
  BY <1>5, <1>6, <1>7, <1>16

LEMMA PartitionTiles ==
  ASSUME NEW n \in Nat, NEW gs \in Seq(Groups(n)), NEW fl, Answered(gs, fl, n),
         fl = [k \in 1 .. n |-> k], NEW tolerant
  PROVE  Tiled(gs, n, tolerant)
<1>0. PICK m \in Nat : m = Len(gs)
  OBVIOUS
<1>1. Len(fl) = n /\ \A i \in 1 .. n : fl[i] = i
  OBVIOUS
<1>2. PICK o \in [1 .. n -> 1 .. m] : Dealt(gs, m, fl, n, o)
  BY <1>0, <1>1 DEF Answered
<1>3. ASSUME NEW k \in 1 .. m
      PROVE  /\ gs[k].idx # {} /\ gs[k].idx \in SUBSET (1 .. n)
             /\ \A i \in 1 .. n : i \in gs[k].idx <=> o[i] = k
  <2>1. gs[k].idx # {} /\ \A x \in gs[k].idx : \E i \in 1 .. n : o[i] = k /\ fl[i] = x
    BY <1>2 DEF Dealt
  <2>2. \A i \in 1 .. n : i \in gs[o[i]].idx
    BY <1>1, <1>2 DEF Dealt
  <2>3. \A x \in gs[k].idx : x \in 1 .. n /\ o[x] = k
    BY <1>1, <2>1
  <2> QED
    BY <2>1, <2>2, <2>3
<1>4. \A i \in 1 .. n : o[i] \in 1 .. m /\ i \in gs[o[i]].idx
  BY <1>3
<1>5. \A j, k \in 1 .. m : j # k => gs[j].idx \cap gs[k].idx = {}
  BY <1>3
<1>6. ASSUME NEW j \in 1 .. m, NEW k \in 1 .. m, j < k,
             NEW a \in gs[j].idx, NEW b \in gs[k].idx
      PROVE  a < b
  <2>1. a \in 1 .. n /\ b \in 1 .. n /\ o[a] = j /\ o[b] = k
    BY <1>3
  <2>2. b < a => o[b] <= o[a]
    BY <1>2, <2>1 DEF Dealt
  <2> QED
    BY <1>6, <2>1, <2>2
<1>7. ASSUME NEW j \in 1 .. m, NEW k \in 1 .. m, j < k PROVE Before(gs[j], gs[k])
  <2>1. PICK a \in gs[j].idx : TRUE
    BY <1>3
  <2> QED
    BY <1>6, <1>7 DEF Before
<1> QED
  BY <1>0, <1>3, <1>4, <1>5, <1>6, <1>7 DEF Tiled

-----------------------------------------------------------------------------
(* The states *)

(* The segments hold the text.                                             *)
SegmentsHold == Len(segs) \in Nat /\ N <= MaxClauses /\ (N # 0 => Covers(segs, text, mode.sublist))

(* What the answer named so far.                                           *)
Answering ==
  /\ groups \in Seq(Groups(N))
  /\ mode.emit => Unnumbered(groups)
  /\ ~mode.emit /\ mode.tolerant => Claimed(groups, claimed, N)
  /\ ~mode.emit /\ ~mode.tolerant => Answered(groups, flat, N)

Grouping ==
  groups \in Seq(Groups(N)) /\ (Unnumbered(groups) \/ Tiled(groups, N, mode.tolerant))

SplitInv ==
  /\ doc \in Texts /\ mode \in Modes /\ (mode.map => Ended(doc.text))
  /\ at \in {"ingest", "split"} => claimed = {} /\ flat = << >> /\ groups = << >>
  /\ at # "done" => clauses = << >>
  /\ at = "split" => text = Cleaned(doc.text)
  /\ at \in {"refine", "build"} => SegmentsHold
  /\ at = "refine" => Answering
  /\ at = "build" => Grouping
  /\ at = "done" => SegmentsOnce

LEMMA ModesAre ==
  ASSUME SplitInv
  PROVE  /\ doc.text \in Seq(Letters)
         /\ mode.emit \in BOOLEAN /\ mode.tolerant \in BOOLEAN
         /\ mode.sublist \in BOOLEAN /\ mode.map \in BOOLEAN
<1>1. doc.text \in Seq(Letters)
  BY SplittingAssumption DEF SplitInv
<1>2. mode \in [emit : BOOLEAN, tolerant : BOOLEAN, sublist : BOOLEAN, map : BOOLEAN]
  BY SplittingAssumption DEF SplitInv
<1> QED
  BY <1>1, <1>2

(* Nothing is named yet.                                                   *)
LEMMA NothingNamed ==
  ASSUME NEW n \in Nat
  PROVE  /\ << >> \in Seq(Groups(n)) /\ Unnumbered(<< >>)
         /\ Claimed(<< >>, {}, n) /\ Answered(<< >>, << >>, n)
<1>1. << >> \in Seq(Groups(n)) /\ Len(<< >>) = 0 /\ 1 .. 0 = {}
  OBVIOUS
<1>2. Unnumbered(<< >>)
  BY <1>1 DEF Unnumbered
<1>3. Claimed(<< >>, {}, n)
  BY <1>1 DEF Claimed
<1>4. PICK o : o = [i \in 1 .. 0 |-> i]
  OBVIOUS
<1>5. o \in [1 .. 0 -> 1 .. 0] /\ Dealt(<< >>, 0, << >>, 0, o)
  BY <1>1, <1>4 DEF Dealt
<1>6. Answered(<< >>, << >>, n)
  <2>1. << >> \in Seq(0 .. n)
    OBVIOUS
  <2>2. \E w \in [1 .. Len(<< >>) -> 1 .. Len(<< >>)] :
          Dealt(<< >>, Len(<< >>), << >>, Len(<< >>), w)
    BY <1>1, <1>5, Zenon
  <2> QED
    BY <2>1, <2>2 DEF Answered
<1> QED
  BY <1>1, <1>2, <1>3, <1>6

LEMMA NoClauses == ASSUME clauses = << >> PROVE SegmentsOnce
  BY DEF SegmentsOnce, Grouped

THEOREM SplitInit == Init => SplitInv
  BY DEF Init, SplitInv

(* Up to the segments.                                                     *)
LEMMA RefuseStep == SplitInv /\ Refuse => SplitInv'
<1> SUFFICES ASSUME SplitInv, Refuse PROVE SplitInv'
  OBVIOUS
<1>1. clauses' = << >> /\ at' = "done"
  BY DEF SplitInv, Refuse
<1>2. SegmentsOnce'
  BY <1>1 DEF SegmentsOnce, Grouped
<1> QED
  BY <1>1, <1>2 DEF SplitInv, Refuse

LEMMA EmptyStep == SplitInv /\ Empty => SplitInv'
<1> SUFFICES ASSUME SplitInv, Empty PROVE SplitInv'
  OBVIOUS
<1>1. clauses' = << >> /\ at' = "done"
  BY DEF SplitInv, Empty
<1>2. SegmentsOnce'
  BY <1>1 DEF SegmentsOnce, Grouped
<1> QED
  BY <1>1, <1>2 DEF SplitInv, Empty

LEMMA IngestStep == SplitInv /\ Ingest => SplitInv'
  BY DEF SplitInv, Ingest

(* The texts that have segments.                                           *)
LEMMA Refining ==
  ASSUME SplitInv, at = "split", UNCHANGED <<doc, mode, text, claimed, flat, groups, clauses>>,
         at' = "refine", SegmentsHold'
  PROVE  SplitInv'
<1>1. claimed' = {} /\ flat' = << >> /\ groups' = << >> /\ clauses' = << >>
  BY DEF SplitInv
<1>2. N' \in Nat
  BY DEF SegmentsHold, N
<1>3. /\ << >> \in Seq(Groups(N')) /\ Unnumbered(<< >>)
      /\ Claimed(<< >>, {}, N') /\ Answered(<< >>, << >>, N')
  BY <1>2, NothingNamed
<1>4. Answering'
  BY <1>1, <1>3 DEF Answering
<1> QED
  BY <1>1, <1>4 DEF SplitInv

LEMMA ShortStep == SplitInv /\ Short => SplitInv'
<1> SUFFICES ASSUME SplitInv, Short PROVE SplitInv'
  OBVIOUS
<1>1. text \in Seq(Letters)
  BY ModesAre, CleanedIs DEF SplitInv, Short
<1>2. segs' = << <<1, Len(text) + 1>> >> /\ text' = text /\ mode' = mode
  BY DEF Short
<1>3. Len(segs') = 1 /\ Covers(segs', text, mode.sublist)
  BY <1>1, <1>2, WholeCovers
<1>4. SegmentsHold'
  BY <1>2, <1>3, SplittingAssumption DEF SegmentsHold, N
<1> QED
  BY <1>4, Refining DEF Short

LEMMA SplitStep == SplitInv /\ Split => SplitInv'
<1> SUFFICES ASSUME SplitInv, Split PROVE SplitInv'
  OBVIOUS
<1>1. text \in Seq(Letters) /\ mode.sublist \in BOOLEAN
  BY ModesAre, CleanedIs DEF SplitInv, Split
<1>2. segs' = FirstOf(Segments(text, mode.sublist), MaxClauses) /\ text' = text /\ mode' = mode
  BY DEF Split
<1>3. /\ Len(segs') \in Nat /\ Len(segs') <= MaxClauses
      /\ Len(segs') # 0 => Covers(segs', text, mode.sublist)
  BY <1>1, <1>2, SegmentsCover
<1>4. SegmentsHold'
  BY <1>2, <1>3 DEF SegmentsHold, N
<1>5. CASE at' = "refine" /\ UNCHANGED groups
  BY <1>4, <1>5, Refining DEF Split
<1>6. CASE at' = "build" /\ groups' = Alone(Len(segs'))
  <2>1. groups' \in Seq(Groups(Len(segs'))) /\ Tiled(groups', Len(segs'), mode'.tolerant)
    BY <1>3, <1>6, AloneTiled
  <2>2. Grouping'
    BY <2>1 DEF Grouping, N
  <2> QED
    BY <1>4, <1>6, <2>2 DEF SplitInv, Split
<1> QED
  BY <1>5, <1>6 DEF Split

(* The answer.                                                             *)
LEMMA NHere == ASSUME SplitInv, at \in {"refine", "build"} PROVE N \in Nat /\ SegmentsHold
  BY DEF SplitInv, SegmentsHold, N

LEMMA StillHold ==
  ASSUME SplitInv, at \in {"refine", "build"}, UNCHANGED <<segs, text, mode>>
  PROVE  SegmentsHold' /\ N' = N
  BY DEF SplitInv, SegmentsHold, N

LEMMA FallbackStep == SplitInv /\ Fallback => SplitInv'
<1> SUFFICES ASSUME SplitInv, Fallback PROVE SplitInv'
  OBVIOUS
<1>1. at = "refine" /\ at' = "build" /\ groups' = Alone(N) /\ UNCHANGED <<segs, text, mode>>
  BY DEF Fallback
<1>2. N \in Nat /\ N' = N /\ SegmentsHold'
  BY <1>1, NHere, StillHold
<1>3. groups' \in Seq(Groups(N)) /\ Tiled(groups', N, mode'.tolerant)
  BY <1>1, <1>2, AloneTiled
<1>4. Grouping'
  BY <1>2, <1>3 DEF Grouping
<1> QED
  BY <1>1, <1>2, <1>4 DEF SplitInv, Fallback

LEMMA ClaimStep == SplitInv /\ Claim => SplitInv'
<1> SUFFICES ASSUME SplitInv, Claim PROVE SplitInv'
  OBVIOUS
<1>1. /\ at = "refine" /\ at' = "refine" /\ UNCHANGED <<segs, text, mode>>
      /\ ~mode.emit /\ mode.tolerant
  BY DEF Claim
<1>2. N \in Nat /\ N' = N /\ SegmentsHold'
  BY <1>1, NHere, StillHold
<1>3. groups \in Seq(Groups(N)) /\ Claimed(groups, claimed, N)
  BY <1>1 DEF SplitInv, Answering
<1>4. PICK numbers \in SUBSET (0 .. N + 1), type \in Types :
        /\ (numbers \cap 1 .. N) \ claimed # {}
        /\ claimed' = claimed \cup ((numbers \cap 1 .. N) \ claimed)
        /\ groups' = Append(groups, Group((numbers \cap 1 .. N) \ claimed, 0, type))
  BY DEF Claim
<1>5. PICK keep : keep = (numbers \cap 1 .. N) \ claimed
  OBVIOUS
<1>6. groups' \in Seq(Groups(N)) /\ Claimed(groups', claimed', N)
  BY <1>2, <1>3, <1>4, <1>5, ClaimStays
<1>7. Answering'
  BY <1>1, <1>2, <1>6 DEF Answering
<1> QED
  BY <1>1, <1>2, <1>7 DEF SplitInv, Claim

LEMMA CompleteStep == SplitInv /\ Complete => SplitInv'
<1> SUFFICES ASSUME SplitInv, Complete PROVE SplitInv'
  OBVIOUS
<1>1. /\ at = "refine" /\ at' = "build" /\ UNCHANGED <<segs, text, mode>>
      /\ ~mode.emit /\ mode.tolerant
  BY DEF Complete
<1>2. N \in Nat /\ N' = N /\ SegmentsHold'
  BY <1>1, NHere, StillHold
<1>3. groups \in Seq(Groups(N)) /\ Claimed(groups, claimed, N)
  BY <1>1 DEF SplitInv, Answering
<1>4. PICK all : all = Everything(groups, claimed, N)
  OBVIOUS
<1>5. PICK s \in [1 .. Cardinality(all) -> all] :
        (\A j, k \in DOMAIN s : j < k => Before(s[j], s[k])) /\ groups' = s
  BY <1>4 DEF Complete, Everything
<1>6. groups' \in Seq(Groups(N)) /\ Tiled(groups', N, TRUE)
  BY <1>2, <1>3, <1>4, <1>5, CompleteTiles
<1>7. mode'.tolerant = TRUE
  BY <1>1, ModesAre
<1>8. Grouping'
  BY <1>2, <1>6, <1>7 DEF Grouping
<1> QED
  BY <1>1, <1>2, <1>8 DEF SplitInv, Complete

LEMMA EntryStep == SplitInv /\ Entry => SplitInv'
<1> SUFFICES ASSUME SplitInv, Entry PROVE SplitInv'
  OBVIOUS
<1>1. /\ at = "refine" /\ at' = "refine" /\ UNCHANGED <<segs, text, mode>>
      /\ ~mode.emit /\ ~mode.tolerant
  BY DEF Entry
<1>2. N \in Nat /\ N' = N /\ SegmentsHold'
  BY <1>1, NHere, StillHold
<1>3. groups \in Seq(Groups(N)) /\ Answered(groups, flat, N)
  BY <1>1 DEF SplitInv, Answering
<1>4. PICK len \in 1 .. N - Len(flat), type \in Types : \E numbers \in [1 .. len -> 0 .. N] :
        /\ flat' = flat \o numbers
        /\ groups' = Append(groups, Group({numbers[k] : k \in 1 .. len}, 0, type))
  BY DEF Entry
<1>5. PICK numbers \in [1 .. len -> 0 .. N] :
        /\ flat' = flat \o numbers
        /\ groups' = Append(groups, Group({numbers[k] : k \in 1 .. len}, 0, type))
  BY <1>4
<1>6. len \in Nat \ {0}
  <2>1. Len(flat) \in Nat
    BY <1>3 DEF Answered
  <2> QED
    BY <1>2, <2>1
<1>7. groups' \in Seq(Groups(N)) /\ Answered(groups', flat', N)
  BY <1>2, <1>3, <1>5, <1>6, EntryStays
<1>8. Answering'
  BY <1>1, <1>2, <1>7 DEF Answering
<1> QED
  BY <1>1, <1>2, <1>8 DEF SplitInv, Entry

LEMMA PartitionStep == SplitInv /\ Partition => SplitInv'
<1> SUFFICES ASSUME SplitInv, Partition PROVE SplitInv'
  OBVIOUS
<1>1. /\ at = "refine" /\ at' = "build" /\ UNCHANGED <<segs, text, mode, groups>>
      /\ ~mode.emit /\ ~mode.tolerant /\ flat = [k \in 1 .. N |-> k]
  BY DEF Partition, Fits
<1>2. N \in Nat /\ N' = N /\ SegmentsHold'
  BY <1>1, NHere, StillHold
<1>3. groups \in Seq(Groups(N)) /\ Answered(groups, flat, N)
  BY <1>1 DEF SplitInv, Answering
<1>4. Tiled(groups, N, mode.tolerant)
  BY <1>1, <1>2, <1>3, PartitionTiles
<1>5. Grouping'
  BY <1>1, <1>2, <1>3, <1>4 DEF Grouping
<1> QED
  BY <1>1, <1>2, <1>5 DEF SplitInv, Partition

LEMMA EmitStep == SplitInv /\ Emit => SplitInv'
<1> SUFFICES ASSUME SplitInv, Emit PROVE SplitInv'
  OBVIOUS
<1>1. at = "refine" /\ at' = "refine" /\ UNCHANGED <<segs, text, mode>> /\ mode.emit
  BY DEF Emit
<1>2. N \in Nat /\ N' = N /\ SegmentsHold'
  BY <1>1, NHere, StillHold
<1>3. groups \in Seq(Groups(N)) /\ Unnumbered(groups)
  BY <1>1 DEF SplitInv, Answering
<1>4. PICK size \in 1 .. 2 : groups' = Append(groups, Group({}, size, "any"))
  BY DEF Emit
<1>5. PICK g : g = Group({}, size, "any")
  OBVIOUS
<1>6. g \in Groups(N) /\ g.idx = {}
  <2>1. {} \in SUBSET (0 .. N) /\ size \in Nat /\ "any" \in Types \cup {"any"}
    OBVIOUS
  <2> QED
    BY <1>2, <1>5, <2>1, GroupIs
<1>7. /\ groups' \in Seq(Groups(N)) /\ Len(groups') = Len(groups) + 1
      /\ groups'[Len(groups) + 1] = g
      /\ \A k \in 1 .. Len(groups) : groups'[k] = groups[k]
  BY <1>3, <1>4, <1>5, <1>6, Appended
<1>8. Unnumbered(groups')
  <2>1. \A k \in 1 .. Len(groups') : k \in 1 .. Len(groups) \/ k = Len(groups) + 1
    BY <1>3, <1>7
  <2> QED
    BY <1>3, <1>6, <1>7, <2>1 DEF Unnumbered
<1>9. Answering'
  BY <1>1, <1>2, <1>7, <1>8 DEF Answering
<1> QED
  BY <1>1, <1>2, <1>9 DEF SplitInv, Emit

LEMMA EmittedStep == SplitInv /\ Emitted => SplitInv'
<1> SUFFICES ASSUME SplitInv, Emitted PROVE SplitInv'
  OBVIOUS
<1>1. at = "refine" /\ at' = "build" /\ UNCHANGED <<segs, text, mode, groups>> /\ mode.emit
  BY DEF Emitted
<1>2. N \in Nat /\ N' = N /\ SegmentsHold'
  BY <1>1, NHere, StillHold
<1>3. groups \in Seq(Groups(N)) /\ Unnumbered(groups)
  BY <1>1 DEF SplitInv, Answering
<1>4. Grouping'
  BY <1>1, <1>2, <1>3 DEF Grouping
<1> QED
  BY <1>1, <1>2, <1>4 DEF SplitInv, Emitted

(* The clauses.  What the model wrote itself names no segment; groups of   *)
(* segments are no more than these, so the limit takes none of them away.  *)
LEMMA BuildStep == SplitInv /\ Build => SplitInv'
<1> SUFFICES ASSUME SplitInv, Build PROVE SplitInv'
  OBVIOUS
<1>1. at = "build" /\ at' = "done" /\ UNCHANGED <<segs, text, mode>>
  BY DEF Build
<1>2. N \in Nat /\ N' = N /\ SegmentsHold
  BY <1>1, NHere, StillHold
<1>3. groups \in Seq(Groups(N)) /\ (Unnumbered(groups) \/ Tiled(groups, N, mode.tolerant))
  BY <1>1 DEF SplitInv, Grouping
<1>4. MaxClauses \in Nat
  BY SplittingAssumption
<1>5. PICK refined :
        /\ refined = IF Len(text) < MinLength THEN groups ELSE FirstOf(groups, MaxClauses)
        /\ clauses' = [k \in DOMAIN refined |-> Clause(refined[k])]
  BY DEF Build
<1>6. PICK m \in Nat : m = Len(groups) /\ groups = [k \in 1 .. m |-> groups[k]]
  BY <1>3
<1>7. PICK l \in 0 .. m : refined = [k \in 1 .. l |-> groups[k]] /\ (m <= MaxClauses => l = m)
  <2>1. CASE Len(text) < MinLength
    <3>1. refined = [k \in 1 .. m |-> groups[k]] /\ m \in 0 .. m
      BY <1>5, <1>6, <2>1
    <3> QED
      BY <3>1
  <2>2. CASE ~(Len(text) < MinLength)
    <3>1. PICK gs : gs = groups
      OBVIOUS
    <3>2. gs = [k \in 1 .. m |-> gs[k]]
      BY <1>6, <3>1
    <3>3. PICK l \in 0 .. m : Begins(gs, MaxClauses, m, l)
      BY <1>4, <3>2, FirstOfIs
    <3>4. refined = [k \in 1 .. l |-> groups[k]]
      BY <1>5, <2>2, <3>1, <3>3 DEF Begins
    <3>5. m <= MaxClauses => l = m
      BY <1>4, <3>3 DEF Begins
    <3> QED
      BY <3>4, <3>5
  <2> QED
    BY <2>1, <2>2
<1>8. /\ DOMAIN clauses' = 1 .. l
      /\ \A k \in 1 .. l : clauses'[k].idx = groups[k].idx /\ k \in 1 .. m
  BY <1>5, <1>7 DEF Clause
<1>9. CASE Unnumbered(groups)
  <2>1. \A k \in DOMAIN clauses' : clauses'[k].idx = {}
    BY <1>6, <1>8, <1>9 DEF Unnumbered
  <2>2. SegmentsOnce'
    BY <2>1 DEF SegmentsOnce, Grouped
  <2> QED
    BY <1>1, <2>2 DEF SplitInv, Build
<1>10. CASE Tiled(groups, N, mode.tolerant)
  <2>1. l = m
    <3>1. Len(groups) <= N
      BY <1>2, <1>3, <1>10, FewTiles
    <3>2. N <= MaxClauses
      BY <1>2 DEF SegmentsHold
    <3> QED
      BY <1>2, <1>4, <1>6, <1>7, <3>1, <3>2
  <2>2. DOMAIN clauses' = 1 .. m /\ \A k \in 1 .. m : clauses'[k].idx = groups[k].idx
    BY <1>8, <2>1
  <2>3. ASSUME NEW i \in 1 .. N
        PROVE  Cardinality({k \in DOMAIN clauses' : i \in clauses'[k].idx}) = 1
    <3>1. PICK k \in 1 .. m : i \in groups[k].idx
      BY <1>6, <1>10 DEF Tiled
    <3>2. \A j \in 1 .. m : i \in groups[j].idx => j = k
      BY <1>6, <1>10, <3>1 DEF Tiled
    <3>3. {j \in DOMAIN clauses' : i \in clauses'[j].idx} = {k}
      BY <2>2, <3>1, <3>2
    <3> QED
      BY <3>3, OneOf
  <2>4. ASSUME NEW j \in DOMAIN clauses', NEW k \in DOMAIN clauses', j < k
        PROVE  /\ Before(clauses'[j], clauses'[k])
               /\ ~mode.tolerant => \A a \in clauses'[j].idx, b \in clauses'[k].idx : a < b
    <3>1. /\ Before(groups[j], groups[k])
          /\ ~mode.tolerant => \A a \in groups[j].idx, b \in groups[k].idx : a < b
      BY <1>6, <1>10, <2>2, <2>4 DEF Tiled
    <3> QED
      BY <2>2, <3>1 DEF Before
  <2>5. ASSUME Grouped' PROVE N # 0
    <3>1. PICK k \in 1 .. m : clauses'[k].idx # {}
      BY <2>2, <2>5 DEF Grouped
    <3>2. groups[k].idx # {} /\ groups[k].idx \in SUBSET (1 .. N)
      BY <1>6, <1>10 DEF Tiled
    <3> QED
      BY <1>2, <3>2
  <2>6. ASSUME Grouped'
        PROVE  Covers(segs, text, mode.sublist)
    BY <1>2, <2>5, <2>6 DEF SegmentsHold
  <2>7. SegmentsOnce'
    BY <1>1, <1>2, <2>3, <2>4, <2>6 DEF SegmentsOnce, Covers, N
  <2> QED
    BY <1>1, <2>7 DEF SplitInv, Build
<1> QED
  BY <1>3, <1>9, <1>10

LEMMA SplitStutter == SplitInv /\ UNCHANGED vars => SplitInv'
<1> SUFFICES ASSUME SplitInv, UNCHANGED vars PROVE SplitInv'
  OBVIOUS
<1>1. /\ doc' = doc /\ mode' = mode /\ at' = at /\ text' = text /\ segs' = segs
      /\ claimed' = claimed /\ flat' = flat /\ groups' = groups /\ clauses' = clauses
  BY DEF vars
<1>2. (SegmentsHold' <=> SegmentsHold) /\ (Answering' <=> Answering)
      /\ (Grouping' <=> Grouping) /\ (SegmentsOnce' <=> SegmentsOnce)
  BY <1>1 DEF SegmentsHold, Answering, Grouping, SegmentsOnce, Grouped, N
<1> QED
  BY <1>1, <1>2 DEF SplitInv

THEOREM SplitNext == SplitInv /\ [Next]_vars => SplitInv'
  BY RefuseStep, IngestStep, EmptyStep, ShortStep, SplitStep, FallbackStep, ClaimStep,
     CompleteStep, EntryStep, PartitionStep, EmitStep, EmittedStep, BuildStep, SplitStutter
     DEF Next

(* The cleaned text of a document with a map to its pages is the document  *)
(* without the ranges the cleaner reports, for every text that ends its    *)
(* lines (strip_document_chrome_tracked).                                  *)
THEOREM CleanedIsCutHolds == Spec => []CleanedIsCut
<1>1. ASSUME SplitInv PROVE CleanedIsCut
  <2>1. SUFFICES ASSUME at = "split", mode.map
                 PROVE  text = [k \in DOMAIN Sorted(Uncut(doc.text)) |->
                                  doc.text[Sorted(Uncut(doc.text))[k]]]
    BY DEF CleanedIsCut, Uncut
  <2>2. doc.text \in Seq(Letters) /\ Ended(doc.text) /\ text = Cleaned(doc.text)
    BY <1>1, <2>1, ModesAre DEF SplitInv
  <2>3. Kept(doc.text) = Sorted(Uncut(doc.text))
    BY <2>2, KeptIsUncut
  <2> QED
    BY <2>2, <2>3 DEF Cleaned
<1> QED
  BY <1>1, SplitInit, SplitNext, PTL DEF Spec

(* Whatever the model answers, or if it does not, no text of a segment is  *)
(* lost or doubled on its way into the clauses, and their order is that of *)
(* the document (_parse_grouping_response, _parse_grouping_strict,         *)
(* split_by_regex).                                                        *)
THEOREM SegmentsOnceHolds == Spec => []SegmentsOnce
<1>1. ASSUME SplitInv PROVE SegmentsOnce
  BY <1>1 DEF SplitInv, SegmentsOnce, Grouped
<1> QED
  BY <1>1, SplitInit, SplitNext, PTL DEF Spec

-----------------------------------------------------------------------------
(* Where a clause is located *)

(* The spans have moved with the text, and the segments lie in it.         *)
Followed ==
  /\ Mapped(doc) /\ text = Cleaned(doc.text) /\ spans = Moves(doc)
  /\ N \in Nat /\ Lie(segs, text)

LEMMA LetterIs ==
  ASSUME Mapped(doc), text = Cleaned(doc.text), NEW q \in DOMAIN text
  PROVE  q \in DOMAIN Kept(doc.text) /\ text[q] = doc.text[Kept(doc.text)[q]]
         /\ Kept(doc.text)[q] \in 1 .. Len(doc.text)
<1>1. q \in DOMAIN Kept(doc.text) /\ text[q] = doc.text[Kept(doc.text)[q]]
  BY DEF Cleaned
<1> QED
  BY <1>1, KeptAt DEF Mapped

(* Each letter of the text has one span of the document.                   *)
LEMMA HeldIs ==
  ASSUME Mapped(doc), text = Cleaned(doc.text), NEW q \in DOMAIN text, text[q] # "/"
  PROVE  /\ held(q) \in Spans(doc)
         /\ held(q).at[1] <= Kept(doc.text)[q] /\ Kept(doc.text)[q] < held(q).at[2]
<1>0. PICK t : t = doc.text /\ t \in Seq(Letters) /\ doc.cuts \in SUBSET Nat /\ Len(t) \in Nat
  BY DEF Mapped
<1>1. PICK x \in 1 .. Len(t) : x = Kept(t)[q] /\ t[x] # "/"
  BY <1>0, LetterIs
<1>2. PICK p \in LineStarts(t) : OnLine(t, p, x)
  BY <1>0, OnSomeLine
<1>3. p \in 1 .. Len(t) + 1
  BY <1>0 DEF LineStarts
<1>4. LineEnd(t, p) \in p .. Len(t) + 1 /\ (LineEnd(t, p) = Len(t) + 1 \/ t[LineEnd(t, p)] = "/")
  BY <1>0, <1>3, LineEndIs
<1>5. x \in Nat /\ p <= x /\ x < LineEnd(t, p)
  <2>1. x # LineEnd(t, p)
    BY <1>0, <1>1, <1>4
  <2> QED
    BY <1>0, <1>2, <1>3, <1>4, <2>1 DEF OnLine
<1>6. \E s \in Spans(doc) : s.at[1] <= x /\ x < s.at[2]
  BY <1>0, <1>5, InSomeSpan
<1> QED
  BY <1>0, <1>1, <1>6 DEF held, Spans

LEMMA HeldOnly ==
  ASSUME Mapped(doc), text = Cleaned(doc.text), NEW q \in DOMAIN text, text[q] # "/",
         NEW s \in Spans(doc), s.at[1] <= Kept(doc.text)[q], Kept(doc.text)[q] < s.at[2]
  PROVE  held(q) = s
<1>1. Kept(doc.text)[q] \in Nat
  BY LetterIs DEF Mapped
<1> QED
  BY <1>1, HeldIs, InOneSpan DEF Mapped

(* The range of a clause is from its first segment to its last.            *)
LEMMA RangeIs ==
  ASSUME N \in Nat, Lie(segs, text), Len(text) \in Nat,
         NEW g, g.idx \in SUBSET (1 .. N), g.idx # {}
  PROVE  \E i, j \in g.idx :
           /\ RangeOf(g) = <<segs[i][1], segs[j][2]>>
           /\ \A k \in g.idx : segs[i][1] <= segs[k][1] /\ segs[k][2] <= segs[j][2]
<1>1. \A k \in g.idx : segs[k][1] \in Nat /\ segs[k][2] \in 0 .. Len(text) + 1
  BY DEF Lie, N
<1> DEFINE los == {segs[k][1] : k \in g.idx}
           his == {segs[k][2] : k \in g.idx}
<1>2. \E i \in g.idx : \A k \in g.idx : segs[i][1] <= segs[k][1]
  <2>1. los \in SUBSET Nat /\ los # {}
    BY <1>1
  <2>2. PICK x \in los : \A y \in los : x <= y
    <3> HIDE DEF los
    <3> QED
      BY <2>1, LeastNat
  <2> QED
    BY <2>2
<1>3. \E j \in g.idx : \A k \in g.idx : segs[k][2] <= segs[j][2]
  <2>1. his \in SUBSET (0 .. Len(text) + 1) /\ his # {} /\ Len(text) + 1 \in Nat
    BY <1>1
  <2>2. PICK x \in his : \A y \in his : y <= x
    <3> HIDE DEF his
    <3> QED
      BY <2>1, GreatestNat
  <2> QED
    BY <2>2
<1>4. PICK i \in g.idx : /\ i = CHOOSE a \in g.idx : \A k \in g.idx : segs[a][1] <= segs[k][1]
                         /\ \A k \in g.idx : segs[i][1] <= segs[k][1]
  BY <1>2
<1>5. PICK j \in g.idx : /\ j = CHOOSE a \in g.idx : \A k \in g.idx : segs[k][2] <= segs[a][2]
                         /\ \A k \in g.idx : segs[k][2] <= segs[j][2]
  BY <1>3
<1>6. RangeOf(g) = <<segs[i][1], segs[j][2]>>
  BY <1>4, <1>5 DEF RangeOf
<1> QED
  BY <1>4, <1>5, <1>6

Place(s) == <<s.id, s.page>>
Places(g) == {Place(s) : s \in Located(RangeOf(g), spans)}
Owned(idx) == UNION {Ink(text, segs[i]) : i \in idx}
Own(idx) == {Place(held(q)) : q \in Owned(idx)}

LEMMA TextIs ==
  ASSUME Followed
  PROVE  text \in Seq(Letters) /\ Len(text) \in Nat /\ DOMAIN text = 1 .. Len(text)
<1>1. text \in Seq(Letters)
  BY CleanedIs DEF Followed, Mapped
<1> QED
  BY <1>1

LEMMA OwnedIs ==
  ASSUME Followed, NEW i \in 1 .. N, NEW q \in Ink(text, segs[i])
  PROVE  q \in DOMAIN text /\ text[q] # "/" /\ segs[i][1] <= q /\ q < segs[i][2]
<1>1. /\ segs[i][1] \in 1 .. Len(text) + 1 /\ segs[i][2] \in 1 .. Len(text) + 1
  BY DEF Followed, Lie, N
<1> QED
  BY <1>1, TextIs DEF Ink

LEMMA OwnLocated ==
  ASSUME Followed, NEW g, g.idx \in SUBSET (1 .. N), NEW i \in g.idx, NEW q \in Ink(text, segs[i])
  PROVE  Place(held(q)) \in Places(g)
<1>0. i \in 1 .. N /\ Len(text) \in Nat /\ Mapped(doc) /\ text = Cleaned(doc.text)
  BY TextIs DEF Followed
<1>1. q \in DOMAIN text /\ text[q] # "/" /\ segs[i][1] <= q /\ q < segs[i][2]
  BY <1>0, OwnedIs
<1>2. q \in DOMAIN Kept(doc.text)
  BY <1>0, <1>1, LetterIs
<1>3. PICK s : /\ s = held(q) /\ s \in Spans(doc)
               /\ s.at[1] <= Kept(doc.text)[q] /\ Kept(doc.text)[q] < s.at[2]
  BY <1>0, <1>1, HeldIs
<1>4. PICK r \in Moves(doc) :
        /\ r.id = s.id /\ r.page = s.page
        /\ r.at[1] \in Int /\ r.at[2] \in Int /\ r.at[1] <= q /\ q < r.at[2]
  BY <1>0, <1>2, <1>3, StaysInSpan
<1>5. PICK a \in g.idx, b \in g.idx :
        /\ RangeOf(g) = <<segs[a][1], segs[b][2]>>
        /\ segs[a][1] <= segs[i][1] /\ segs[i][2] <= segs[b][2]
  BY <1>0, RangeIs DEF Followed
<1>6. \A k \in g.idx : segs[k][1] \in Nat /\ segs[k][2] \in Nat
  BY <1>0 DEF Followed, Lie, N
<1>7. q \in Nat
  BY <1>0, <1>1, TextIs
<1>8. r.at[1] < segs[b][2] /\ segs[a][1] < r.at[2]
  BY <1>1, <1>4, <1>5, <1>6, <1>7
<1>9. Meet(r.at, RangeOf(g))
  BY <1>5, <1>8 DEF Meet
<1>10. r \in Located(RangeOf(g), spans)
  BY <1>4, <1>9 DEF Located, Followed
<1>11. Place(r) = Place(held(q))
  BY <1>3, <1>4 DEF Place
<1> QED
  BY <1>10, <1>11 DEF Places

LEMMA LocatedOwns ==
  ASSUME Followed, ~glued, NEW g, g.idx \in SUBSET (1 .. N), g.idx # {},
         \A i, j \in g.idx, m \in 1 .. N : i < m /\ m < j => m \in g.idx,
         NEW r \in Located(RangeOf(g), spans)
  PROVE  \E i \in g.idx : \E q \in Ink(text, segs[i]) : Place(r) = Place(held(q))
<1>0. /\ N \in Nat /\ N = Len(segs) /\ Len(text) \in Nat /\ DOMAIN text = 1 .. Len(text)
      /\ Mapped(doc) /\ text = Cleaned(doc.text) /\ Lie(segs, text)
  BY TextIs DEF Followed, N
<1>1. PICK a \in g.idx, b \in g.idx :
        /\ RangeOf(g) = <<segs[a][1], segs[b][2]>>
        /\ \A k \in g.idx : segs[a][1] <= segs[k][1] /\ segs[k][2] <= segs[b][2]
  BY <1>0, RangeIs
<1>2. a \in 1 .. N /\ b \in 1 .. N
  OBVIOUS
<1>3. PICK lo \in Nat, hi \in Nat : lo = segs[a][1] /\ hi = segs[b][2] /\ lo < hi
  <2>1. /\ segs[a][1] \in Nat /\ segs[a][2] \in Nat /\ segs[b][2] \in Nat
        /\ segs[a][1] < segs[a][2]
    BY <1>0, <1>2 DEF Lie
  <2>2. segs[a][2] <= segs[b][2]
    BY <1>1
  <2> QED
    BY <2>1, <2>2
<1>4. r \in Moves(doc) /\ r.at[1] < hi /\ lo < r.at[2]
  BY <1>1, <1>3 DEF Located, Meet, Followed
<1>5. \A p \in LineStarts(doc.text) : Footers(doc.text, p) = {} \/ Dropped(doc.text, p)
  BY DEF glued
<1>6. PICK s \in Spans(doc) :
        /\ r.id = s.id /\ r.page = s.page
        /\ r.at[1] \in Int /\ r.at[2] \in Int /\ r.at[1] < r.at[2]
        /\ \A q \in Int : r.at[1] <= q /\ q < r.at[2] =>
             /\ q \in DOMAIN Kept(doc.text)
             /\ s.at[1] <= Kept(doc.text)[q] /\ Kept(doc.text)[q] < s.at[2]
             /\ doc.text[Kept(doc.text)[q]] # "/"
  BY <1>0, <1>4, <1>5, OnlyItsLetters
<1>7. PICK q \in Int : r.at[1] <= q /\ q < r.at[2] /\ lo <= q /\ q < hi
  <2>1. CASE r.at[1] <= lo
    BY <1>3, <1>4, <2>1
  <2>2. CASE lo < r.at[1]
    BY <1>3, <1>4, <1>6, <2>2
  <2> QED
    BY <1>3, <1>6, <2>1, <2>2
<1>8. /\ q \in DOMAIN Kept(doc.text)
      /\ s.at[1] <= Kept(doc.text)[q] /\ Kept(doc.text)[q] < s.at[2]
      /\ doc.text[Kept(doc.text)[q]] # "/"
  BY <1>6, <1>7
<1>9. q \in DOMAIN text /\ text[q] # "/"
  BY <1>0, <1>8 DEF Cleaned
<1>10. q \in Ink(text, <<segs[a][1], segs[b][2]>>)
  BY <1>3, <1>7, <1>9 DEF Ink
<1>11. PICK k \in a .. b : q \in Ink(text, segs[k])
  BY <1>0, <1>2, <1>10 DEF Lie
<1>12. k \in g.idx
  <2>1. k = a \/ k = b \/ (a < k /\ k < b)
    BY <1>2
  <2>2. k \in 1 .. N
    BY <1>0, <1>2
  <2> QED
    BY <1>1, <2>1, <2>2
<1>13. held(q) = s
  BY <1>0, <1>8, <1>9, HeldOnly
<1>14. Place(r) = Place(held(q))
  BY <1>6, <1>13 DEF Place
<1> QED
  BY <1>11, <1>12, <1>14

(* The two halves of LocatorsCover, for one clause.                        *)
Consecutive(idx) == \A i, j \in idx, m \in 1 .. N : i < m /\ m < j => m \in idx
Covered(c) ==
  /\ Own(c.idx) \subseteq c.locator
  /\ ~glued /\ Consecutive(c.idx) => c.locator = Own(c.idx)

LEMMA ClauseCovered ==
  ASSUME Followed, NEW g, g.idx \in SUBSET (1 .. N)
  PROVE  Covered(Clause(g))
<1>1. Clause(g).idx = g.idx /\ Clause(g).locator = IF g.idx = {} THEN {} ELSE Places(g)
  BY DEF Clause, Places, Place
<1>2. CASE g.idx = {}
  <2>1. Own(g.idx) = {}
    BY <1>2 DEF Own, Owned
  <2> QED
    BY <1>1, <1>2, <2>1 DEF Covered
<1>3. CASE g.idx # {}
  <2>1. Own(g.idx) \subseteq Places(g)
    <3>1. ASSUME NEW x \in Own(g.idx) PROVE x \in Places(g)
      <4>1. PICK q \in Owned(g.idx) : x = Place(held(q))
        BY DEF Own
      <4>2. PICK i \in g.idx : q \in Ink(text, segs[i])
        BY DEF Owned
      <4> QED
        BY <4>1, <4>2, OwnLocated
    <3> QED
      BY <3>1
  <2>2. ASSUME ~glued, Consecutive(g.idx) PROVE Places(g) \subseteq Own(g.idx)
    <3>1. ASSUME NEW x \in Places(g) PROVE x \in Own(g.idx)
      <4>1. PICK r \in Located(RangeOf(g), spans) : x = Place(r)
        BY DEF Places
      <4>2. PICK i \in g.idx : \E q \in Ink(text, segs[i]) : Place(r) = Place(held(q))
        BY <1>3, <2>2, LocatedOwns DEF Consecutive
      <4>3. PICK q \in Ink(text, segs[i]) : Place(r) = Place(held(q))
        BY <4>2
      <4>4. q \in Owned(g.idx)
        BY DEF Owned
      <4> QED
        BY <4>1, <4>3, <4>4 DEF Own
    <3> QED
      BY <3>1
  <2>3. PICK c : c = Clause(g)
    OBVIOUS
  <2>4. c.idx = g.idx /\ c.locator = Places(g)
    BY <1>1, <1>3, <2>3
  <2>5. ASSUME ~glued, Consecutive(c.idx) PROVE c.locator = Own(c.idx)
    <3>1. Consecutive(g.idx)
      BY <2>4, <2>5, Zenon
    <3>2. Places(g) \subseteq Own(g.idx)
      BY <2>2, <2>5, <3>1
    <3>3. Places(g) = Own(g.idx)
      BY <2>1, <3>2, Zenon
    <3> QED
      BY <2>4, <3>3, Zenon
  <2> QED
    BY <2>1, <2>3, <2>4, <2>5 DEF Covered
<1> QED
  BY <1>2, <1>3

LocatedInv ==
  /\ at \in {"split", "refine", "build"} =>
       text = Cleaned(doc.text) /\ (mode.map => spans = Moves(doc))
  /\ at \in {"refine", "build"} => Lie(segs, text)
  /\ at = "done" => LocatorsCover

LEMMA LocatedSame ==
  ASSUME LocatedInv, at \in {"split", "refine", "build"}, at' \in {"split", "refine", "build"},
         UNCHANGED <<doc, mode, text, spans>>, at' \in {"refine", "build"} => Lie(segs', text)
  PROVE  LocatedInv'
<1>1. text' = Cleaned(doc'.text) /\ (mode'.map => spans' = Moves(doc)')
  <2>1. Moves(doc)' = Moves(doc)
    BY DEF Moves, Spans
  <2> QED
    BY <2>1 DEF LocatedInv
<1> QED
  BY <1>1 DEF LocatedInv

LEMMA LocatedBuild ==
  ASSUME SplitInv, LocatedInv, Build
  PROVE  LocatedInv'
<1>1. /\ at = "build" /\ at' = "done" /\ UNCHANGED <<doc, mode, text, spans, segs>>
  BY DEF Build
<1>2. groups \in Seq(Groups(N)) /\ (Unnumbered(groups) \/ Tiled(groups, N, mode.tolerant))
  BY <1>1 DEF SplitInv, Grouping
<1>3. ASSUME NEW k \in 1 .. Len(groups) PROVE groups[k].idx \in SUBSET (1 .. N)
  BY <1>2 DEF Unnumbered, Tiled
<1>4. PICK refined :
        /\ refined = IF Len(text) < MinLength THEN groups ELSE FirstOf(groups, MaxClauses)
        /\ clauses' = [k \in DOMAIN refined |-> Clause(refined[k])]
  BY DEF Build
<1>5. ASSUME NEW k \in DOMAIN refined PROVE k \in 1 .. Len(groups) /\ refined[k] = groups[k]
  <2>0. PICK gs : gs = groups
    OBVIOUS
  <2>1. PICK m \in Nat : gs = groups /\ m = Len(gs) /\ gs = [i \in 1 .. m |-> gs[i]]
    BY <1>2, <2>0
  <2>2. CASE refined = gs
    BY <2>1, <2>2
  <2>3. CASE refined = FirstOf(gs, MaxClauses)
    <3>1. PICK l \in 0 .. m : Begins(gs, MaxClauses, m, l)
      BY <2>1, FirstOfIs, SplittingAssumption
    <3>2. refined = [i \in 1 .. l |-> gs[i]] /\ 1 .. l \in SUBSET (1 .. m)
      BY <2>1, <2>3, <3>1 DEF Begins
    <3> QED
      BY <2>1, <3>2
  <2> QED
    BY <1>4, <2>1, <2>2, <2>3
<1>6. ASSUME mode.map, FootersWhole(doc) PROVE Followed
  <2>1. Mapped(doc)
    BY <1>6, SplittingAssumption DEF SplitInv, Mapped
  <2>2. N \in Nat
    BY <1>1, NHere
  <2> QED
    BY <1>1, <1>6, <2>1, <2>2 DEF Followed, LocatedInv
<1>7. ASSUME mode.map, FootersWhole(doc), NEW k \in DOMAIN clauses'
      PROVE  Covered(clauses'[k])
  <2>1. k \in DOMAIN refined /\ clauses'[k] = Clause(refined[k])
    BY <1>4
  <2>2. refined[k].idx \in SUBSET (1 .. N)
    BY <1>3, <1>5, <2>1
  <2> QED
    BY <1>6, <1>7, <2>1, <2>2, ClauseCovered
<1>8. LocatorsCover'
  <2>1. mode' = mode /\ doc' = doc /\ text' = text /\ segs' = segs
    BY <1>1
  <2>2. LocatorsCover' <=>
          (Grouped' /\ mode.map /\ FootersWhole(doc)
             => \A k \in DOMAIN clauses' : Covered(clauses'[k]))
    BY <2>1 DEF LocatorsCover, Covered, Consecutive, Own, Owned, Place, held, glued, N,
                FootersWhole
  <2> QED
    BY <1>7, <2>2
<1> QED
  BY <1>1, <1>8 DEF LocatedInv

LEMMA LocatedNext == SplitInv /\ LocatedInv /\ [Next]_vars => LocatedInv'
<1> SUFFICES ASSUME SplitInv, LocatedInv, [Next]_vars PROVE LocatedInv'
  OBVIOUS
<1>1. CASE Refuse \/ Empty
  <2>1. at' = "done" /\ clauses' = << >>
    BY <1>1 DEF SplitInv, Refuse, Empty
  <2>2. LocatorsCover'
    BY <2>1 DEF LocatorsCover, Grouped
  <2> QED
    BY <2>1, <2>2 DEF LocatedInv
<1>2. CASE Ingest
  <2>1. /\ at' = "split" /\ doc' = doc /\ mode' = mode /\ text' = Cleaned(doc.text)
        /\ mode.map => spans' = Moves(doc)
    BY <1>2 DEF Ingest, Moves, Spans
  <2>2. Moves(doc)' = Moves(doc)
    BY <2>1 DEF Moves, Spans
  <2> QED
    BY <2>1, <2>2 DEF LocatedInv
<1>3. CASE Short
  <2>1. /\ at = "split" /\ at' = "refine" /\ text # << >> /\ UNCHANGED <<doc, mode, text, spans>>
        /\ segs' = << <<1, Len(text) + 1>> >>
    BY <1>3 DEF Short
  <2>2. text \in Seq(Letters)
    BY <2>1, ModesAre, CleanedIs DEF SplitInv
  <2>3. Lie(segs', text)
    BY <2>1, <2>2, WholeLies
  <2> QED
    BY <2>1, <2>3, LocatedSame
<1>4. CASE Split
  <2>1. /\ at = "split" /\ at' \in {"refine", "build"} /\ UNCHANGED <<doc, mode, text, spans>>
        /\ segs' = FirstOf(Segments(text, mode.sublist), MaxClauses)
    BY <1>4 DEF Split
  <2>2. text \in Seq(Letters) /\ mode.sublist \in BOOLEAN
    BY <2>1, ModesAre, CleanedIs DEF SplitInv
  <2>3. Lie(segs', text)
    BY <2>1, <2>2, SegmentsLie
  <2> QED
    BY <2>1, <2>3, LocatedSame
<1>5. CASE Fallback \/ Claim \/ Complete \/ Entry \/ Partition \/ Emit \/ Emitted
  <2>1. /\ at = "refine" /\ at' \in {"refine", "build"}
        /\ UNCHANGED <<doc, mode, text, spans, segs>>
    BY <1>5 DEF Fallback, Claim, Complete, Entry, Partition, Emit, Emitted
  <2>2. Lie(segs', text)
    BY <2>1 DEF LocatedInv
  <2> QED
    BY <2>1, <2>2, LocatedSame
<1>6. CASE Build
  BY <1>6, LocatedBuild
<1>7. CASE UNCHANGED vars
  <2>1. /\ doc' = doc /\ mode' = mode /\ at' = at /\ text' = text /\ spans' = spans
        /\ segs' = segs /\ clauses' = clauses
    BY <1>7 DEF vars
  <2>2. (LocatorsCover' <=> LocatorsCover) /\ Moves(doc)' = Moves(doc)
    BY <2>1 DEF LocatorsCover, FootersWhole, Grouped, held, glued, N, Moves, Spans
  <2> QED
    BY <2>1, <2>2 DEF LocatedInv
<1> QED
  BY <1>1, <1>2, <1>3, <1>4, <1>5, <1>6, <1>7 DEF Next

(* Every clause is located at every place its text was taken from and, but *)
(* for footers cut out of a line and groups with gaps, nowhere else - for  *)
(* every document, whatever its lines and footers and wherever the type    *)
(* face changes, except within a footer (remap_spans, locator_from_range,  *)
(* _build_grouped_clause).                                                 *)
THEOREM LocatorsCoverHolds == Spec => []LocatorsCover
<1>1. Init => LocatedInv
  BY DEF Init, LocatedInv
<1>2. SplitInv /\ LocatedInv => LocatorsCover
  BY DEF SplitInv, LocatedInv, LocatorsCover, Grouped
<1>3. SplitInv /\ LocatedInv /\ [Next]_vars => LocatedInv'
  BY LocatedNext
<1> QED
  BY <1>1, <1>2, <1>3, SplitInit, SplitNext, PTL DEF Spec
=============================================================================
