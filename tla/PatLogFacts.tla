---------------------------- MODULE PatLogFacts -----------------------------
(* What the operators of PatLog return, for every page size, every number of  *)
(* pages and every content of the flash: where a placement may land, what a   *)
(* scan finds, and that a compaction has a plan, whatever is pinned.          *)
EXTENDS PatLog, FiniteSetTheorems, WellFoundedInduction, TLAPS

-----------------------------------------------------------------------------
(* Least and greatest elements.                                               *)

\* A nonempty set of naturals has a least element, and Min is it.
LEMMA MinExists ==
    ASSUME NEW S \in SUBSET Nat, S # {}
    PROVE  Min(S) \in S /\ \A y \in S : Min(S) <= y
<1>1. IsWellFoundedOn(OpToRel(<, Nat), Nat)
  BY NatLessThanWellFounded
<1>2. PICK x \in S : \A y \in S : <<y, x>> \notin OpToRel(<, Nat)
  BY <1>1, WFMin, Zenon
<1>3. \A y \in S : ~(y < x)
  BY <1>2, Zenon DEF OpToRel
<1>4. \A y \in S : x <= y
  BY <1>3
<1>. QED
  BY <1>4, Zenon DEF Min

\* A nonempty finite set of naturals has a greatest element: else there would be
\* a smallest size of such a set without one, and taking an element away from a
\* set of that size leaves a set that has one.
LEMMA MaxExists ==
    ASSUME NEW S \in SUBSET Nat, IsFiniteSet(S), S # {}
    PROVE  Max(S) \in S /\ \A y \in S : y <= Max(S)
<1>. DEFINE HasMax(R) == \E x \in R : \A y \in R : y <= x
            Bad == { n \in Nat : \E R \in SUBSET S : R # {} /\ Cardinality(R) = n /\ ~HasMax(R) }
<1>1. Bad = {}
  <2>. SUFFICES ASSUME Bad # {} PROVE FALSE
    OBVIOUS
  <2>. DEFINE n == Min(Bad)
  <2>1. n \in Bad /\ \A m \in Bad : n <= m
    BY MinExists, Bad \in SUBSET Nat
  <2>. HIDE DEF n
  <2>2. PICK R \in SUBSET S : R # {} /\ Cardinality(R) = n /\ ~HasMax(R)
    BY <2>1
  <2>3. PICK a \in R : TRUE
    BY <2>2
  <2>4. /\ IsFiniteSet(R) /\ IsFiniteSet(R \ {a})
        /\ Cardinality(R \ {a}) = n - 1 /\ n \in Nat
    BY <2>1, <2>2, <2>3, FS_Subset, FS_RemoveElement
  <2>5. Cardinality(R \ {a}) \in Nat
    BY <2>4, FS_CardinalityType
  <2>6. CASE R \ {a} = {}
    <3>1. \A y \in R : y <= a
      BY <2>3, <2>6
    <3>. QED
      BY <2>2, <2>3, <3>1
  <2>7. CASE R \ {a} # {}
    <3>1. HasMax(R \ {a})
      <4>. SUFFICES ASSUME ~HasMax(R \ {a}) PROVE FALSE
        OBVIOUS
      <4>1. n - 1 \in Bad
        BY <2>4, <2>5, <2>7
      <4>. QED
        BY <2>1, <2>4, <4>1
    <3>2. PICK m \in R \ {a} : \A y \in R \ {a} : y <= m
      BY <3>1
    <3>3. HasMax(R)
      <4>1. CASE a <= m
        BY <3>2, <4>1
      <4>2. CASE m <= a
        <5>1. \A y \in R : y <= a
          BY <3>2, <4>2, <2>2, <2>3
        <5>. QED
          BY <5>1, <2>3
      <4>3. a \in Nat /\ m \in Nat
        BY <2>3, <3>2
      <4>. QED
        BY <4>1, <4>2, <4>3
    <3>. QED
      BY <3>3, <2>2
  <2>. QED
    BY <2>6, <2>7
<1>2. Cardinality(S) \in Nat
  BY FS_CardinalityType
<1>3. HasMax(S)
  BY <1>1, <1>2
<1>4. PICK x \in S : \A y \in S : y <= x
  BY <1>3
<1>5. \A y \in S : x >= y
  BY <1>4
<1>6. Max(S) \in S /\ \A y \in S : Max(S) >= y
  BY <1>5, Zenon DEF Max
<1>. QED
  BY <1>6

-----------------------------------------------------------------------------
(* Geometry.                                                                  *)

\* A unit lies on the page PageOf names.
LEMMA OnItsPage ==
    ASSUME NEW u \in Nat
    PROVE  /\ PageOf(u) \in Nat
           /\ PageOf(u) * PageSize <= u /\ u < PageOf(u) * PageSize + PageSize
BY GeometryAssumption DEF PageOf

\* ... and on no other.
LEMMA OnOnePage ==
    ASSUME NEW u \in Nat, NEW p \in Nat,
           p * PageSize <= u, u < p * PageSize + PageSize
    PROVE  PageOf(u) = p
BY GeometryAssumption DEF PageOf

\* Pages are laid out in order.
LEMMA PagesInOrder ==
    ASSUME NEW p \in Nat, NEW q \in Nat
    PROVE  /\ p <= q => p * PageSize <= q * PageSize
           /\ p < q => p * PageSize + PageSize <= q * PageSize
           /\ p * PageSize \in Nat
<1>1. PageSize \in Nat \ {0}
  BY GeometryAssumption
<1>2. p * PageSize \in Nat /\ q * PageSize \in Nat
  BY <1>1
<1>3. ASSUME p <= q PROVE p * PageSize <= q * PageSize
  BY <1>1, <1>3
<1>4. ASSUME p < q PROVE p * PageSize + PageSize <= q * PageSize
  <2>1. (p + 1) * PageSize <= q * PageSize
    BY <1>1, <1>4
  <2>2. (p + 1) * PageSize = p * PageSize + PageSize
    BY <1>1
  <2>. QED
    BY <2>1, <2>2
<1>. QED
  BY <1>2, <1>3, <1>4

\* The log's length and its units.
LEMMA LogFacts ==
    /\ LogLen \in Nat \ {0} /\ Units \subseteq Nat /\ NoPlace \in Nat /\ NoPlace \notin Units
    /\ \A u : u \in Units <=> u \in Nat /\ u < LogLen
<1>1. LogLen \in Nat \ {0}
  BY GeometryAssumption DEF LogLen
<1>. QED
  BY <1>1 DEF Units, NoPlace

\* AlignPage rounds up to the start of a page.
LEMMA AlignUp ==
    ASSUME NEW at \in Nat
    PROVE  /\ AlignPage(at) \in Nat /\ at <= AlignPage(at) /\ AlignPage(at) < at + PageSize
           /\ \E k \in Nat : AlignPage(at) = k * PageSize /\ AlignPage(at) \div PageSize = k
<1>. DEFINE k == (at + PageSize - 1) \div PageSize
<1>1. PageSize \in Nat \ {0}
  BY GeometryAssumption
<1>2. /\ k \in Nat /\ k * PageSize <= at + PageSize - 1
      /\ at + PageSize - 1 < k * PageSize + PageSize
  BY <1>1
<1>3. (k * PageSize) \div PageSize = k
  BY <1>1, <1>2
<1>. QED
  BY <1>1, <1>2, <1>3 DEF AlignPage

-----------------------------------------------------------------------------
(* Placement.                                                                 *)

\* The tail placement lies within the log.
LEMMA PlaceFits ==
    ASSUME NEW fl, NEW cursor \in Nat, NEW size \in Nat \ {0},
           Place(fl, cursor, size) # NoPlace
    PROVE  Place(fl, cursor, size) \in Units /\ Place(fl, cursor, size) + size <= LogLen
<1>. DEFINE up == AlignPage(cursor)
            at == Place(fl, cursor, size)
<1>1. up \in Nat
  BY AlignUp
<1>2. \/ cursor + size <= LogLen /\ at = cursor
      \/ up + size <= LogLen /\ at = up
  BY LogFacts DEF Place
<1>. QED
  BY <1>1, <1>2, LogFacts

\* So does one below the cursor.
LEMMA PlaceFreeFits ==
    ASSUME NEW fl, NEW hint \in Nat, NEW size \in Nat \ {0},
           PlaceFree(fl, hint, size) # NoPlace
    PROVE  PlaceFree(fl, hint, size) \in Units /\ PlaceFree(fl, hint, size) + size <= LogLen
<1>. DEFINE pages == AlignPage(size) \div PageSize
            runs == { p \in Pages : /\ p + pages <= NumPages
                                    /\ \A q \in p .. p + pages - 1 : PageErased(fl, q) }
            at == PlaceFree(fl, hint, size)
<1>1. \/ at = hint /\ hint + size <= LogLen
      \/ runs # {} /\ at = Min(runs) * PageSize
  <2>1. CASE hint + size <= LogLen /\ ErasedRange(fl, Cleared(hint, size))
    BY <2>1 DEF PlaceFree
  <2>2. CASE ~(hint + size <= LogLen /\ ErasedRange(fl, Cleared(hint, size)))
    <3>1. at = IF runs # {} THEN Min(runs) * PageSize ELSE NoPlace
      BY <2>2 DEF PlaceFree
    <3>. QED
      BY <3>1
  <2>. QED
    BY <2>1, <2>2
<1>2. CASE at = hint /\ hint + size <= LogLen
  BY <1>2, LogFacts
<1>3. CASE runs # {} /\ at = Min(runs) * PageSize
  <2>1. runs \in SUBSET Nat
    BY GeometryAssumption DEF Pages
  <2>2. Min(runs) \in runs
    BY <1>3, <2>1, MinExists
  <2>. DEFINE p == Min(runs)
  <2>3. p \in Nat /\ p + pages <= NumPages
    BY <2>1, <2>2
  <2>4. PICK k \in Nat : AlignPage(size) = k * PageSize /\ pages = k /\ size <= AlignPage(size)
    BY AlignUp
  <2>. HIDE DEF p, pages
  <2>5. (p + k) * PageSize <= NumPages * PageSize
    BY <2>3, <2>4, GeometryAssumption
  <2>6. (p + k) * PageSize = p * PageSize + k * PageSize
    BY <2>3, <2>4, GeometryAssumption
  <2>7. p * PageSize \in Nat
    BY <2>3, GeometryAssumption
  <2>8. p * PageSize + size <= LogLen
    BY <2>4, <2>5, <2>6, <2>7, GeometryAssumption DEF LogLen
  <2>9. at = p * PageSize
    BY <1>3 DEF p
  <2>. QED
    BY <2>7, <2>8, <2>9, LogFacts
<1>. QED
  BY <1>1, <1>2, <1>3

\* The tail placement lies at or above the cursor, on an erased unit or at the
\* start of a page.
LEMMA PlaceAbove ==
    ASSUME NEW fl, NEW cursor \in Nat, NEW size \in Nat \ {0},
           Place(fl, cursor, size) # NoPlace
    PROVE  /\ cursor <= Place(fl, cursor, size)
           /\ \/ fl[Place(fl, cursor, size)] = Erased
              \/ \E k \in Nat : Place(fl, cursor, size) = k * PageSize
<1>. DEFINE up == AlignPage(cursor)
            head == cursor .. Min({cursor + size, up}) - 1
            at == Place(fl, cursor, size)
<1>1. up \in Nat /\ cursor <= up /\ \E k \in Nat : up = k * PageSize
  BY AlignUp
<1>2. \/ at = cursor /\ (cursor = up \/ ErasedRange(fl, head))
      \/ at = up
  BY DEF Place
<1>. HIDE DEF up, at
<1>3. ASSUME cursor # up, ErasedRange(fl, head)
      PROVE  fl[cursor] = Erased
  <2>1. Min({cursor + size, up}) \in {cursor + size, up}
    BY <1>1, MinExists
  <2>2. cursor \in head
    BY <1>1, <1>3, <2>1
  <2>. QED
    BY <1>3, <2>2 DEF ErasedRange
<1>4. cursor <= at /\ (fl[at] = Erased \/ \E k \in Nat : at = k * PageSize)
  BY <1>1, <1>2, <1>3
<1>. QED
  BY <1>4 DEF at

\* A placement below the cursor clears erased units only.
LEMMA PlaceFreeErased ==
    ASSUME NEW fl, NEW hint \in Nat, NEW size \in Nat \ {0},
           PlaceFree(fl, hint, size) # NoPlace
    PROVE  ErasedRange(fl, Cleared(PlaceFree(fl, hint, size), size))
<1>. DEFINE pages == AlignPage(size) \div PageSize
            runs == { p \in Pages : /\ p + pages <= NumPages
                                    /\ \A q \in p .. p + pages - 1 : PageErased(fl, q) }
            at == PlaceFree(fl, hint, size)
<1>1. \/ at = hint /\ ErasedRange(fl, Cleared(hint, size))
      \/ runs # {} /\ at = Min(runs) * PageSize
  <2>1. CASE hint + size <= LogLen /\ ErasedRange(fl, Cleared(hint, size))
    BY <2>1 DEF PlaceFree
  <2>2. CASE ~(hint + size <= LogLen /\ ErasedRange(fl, Cleared(hint, size)))
    <3>1. at = IF runs # {} THEN Min(runs) * PageSize ELSE NoPlace
      BY <2>2 DEF PlaceFree
    <3>. QED
      BY <3>1
  <2>. QED
    BY <2>1, <2>2
<1>2. CASE at = hint /\ ErasedRange(fl, Cleared(hint, size))
  BY <1>2
<1>3. CASE runs # {} /\ at = Min(runs) * PageSize
  <2>1. runs \in SUBSET Nat
    BY GeometryAssumption DEF Pages
  <2>2. Min(runs) \in runs
    BY <1>3, <2>1, MinExists
  <2>. DEFINE p == Min(runs)
  <2>3. /\ p \in Nat /\ p + pages <= NumPages
        /\ \A q \in p .. p + pages - 1 : PageErased(fl, q)
    BY <2>1, <2>2
  <2>4. PICK k \in Nat : AlignPage(size) = k * PageSize /\ pages = k /\ size <= AlignPage(size)
    BY AlignUp
  <2>5. at = p * PageSize
    BY <1>3
  <2>. HIDE DEF p, pages, at
  <2>. DEFINE start == p * PageSize
  <2>6. /\ start \in Nat /\ start = p * PageSize
        /\ k * PageSize \in Nat /\ (p + k) * PageSize = start + k * PageSize
    BY <2>3, GeometryAssumption
  <2>. HIDE DEF start
  <2>7. AlignPage(start + size) <= (p + k) * PageSize
    <3>1. PICK j \in Nat : AlignPage(start + size) = j * PageSize
      BY <2>6, AlignUp
    <3>2. j * PageSize < start + size + PageSize
      BY <2>6, <3>1, AlignUp
    <3>3. j * PageSize < (p + k) * PageSize + PageSize
      BY <2>4, <2>6, <3>2, GeometryAssumption
    <3>4. ~(p + k < j)
      BY <2>3, <3>3, PagesInOrder, p + k \in Nat, GeometryAssumption
    <3>5. j <= p + k
      BY <2>3, <3>4
    <3>. QED
      BY <2>3, <3>1, <3>5, PagesInOrder, p + k \in Nat
  <2>8. ASSUME NEW u \in start .. AlignPage(start + size) - 1
        PROVE  u \in Units /\ fl[u] = Erased
    <3>1. u \in Nat /\ start <= u /\ u < (p + k) * PageSize
      <4>1. AlignPage(start + size) \in Nat /\ (p + k) * PageSize \in Nat
        BY <2>4, <2>6, AlignUp
      <4>. QED
        BY <2>6, <2>7, <4>1
    <3>2. (p + k) * PageSize <= NumPages * PageSize
      BY <2>3, <2>4, PagesInOrder, p + k \in Nat, GeometryAssumption
    <3>3. u \in Units
      BY <2>3, <3>1, <3>2, LogFacts, GeometryAssumption DEF LogLen
    <3>. DEFINE q == PageOf(u)
    <3>4. q \in Nat /\ q * PageSize <= u /\ u < q * PageSize + PageSize
      BY <3>1, OnItsPage
    <3>. HIDE DEF q
    <3>5. q < p + k
      <4>1. ~(p + k <= q)
        BY <2>3, <3>1, <3>4, PagesInOrder, p + k \in Nat, GeometryAssumption
      <4>. QED
        BY <2>3, <3>4, <4>1
    <3>6. p <= q
      <4>1. ~(q < p)
        BY <2>3, <2>6, <3>1, <3>4, PagesInOrder, GeometryAssumption
      <4>. QED
        BY <2>3, <3>4, <4>1
    <3>7. PageErased(fl, q)
      BY <2>3, <2>4, <3>4, <3>5, <3>6
    <3>. QED
      BY <3>3, <3>7 DEF PageErased, ErasedRange, PageUnits, q
  <2>9. ErasedRange(fl, Cleared(start, size))
    BY <2>8 DEF ErasedRange, Cleared
  <2>. QED
    BY <2>5, <2>6, <2>9 DEF at
<1>. QED
  BY <1>1, <1>2, <1>3

-----------------------------------------------------------------------------
(* The scan.                                                                  *)

\* The scan emits finitely many records.
LEMMA EmittedFinite ==
    ASSUME NEW fl
    PROVE  IsFiniteSet(Scan(fl)) /\ IsFiniteSet(Emitted(fl))
<1>1. IsFiniteSet(Units)
  BY LogFacts, FS_Interval DEF Units
<1>2. IsFiniteSet(Scan(fl))
  BY <1>1, FS_Subset DEF Scan
<1>. DEFINE f == [at \in Scan(fl) |-> [fl[at].rec EXCEPT !.dead = fl[at].dead]]
<1>3. f \in Surjection(Scan(fl), Emitted(fl))
  BY DEF Surjection, Emitted
<1>. QED
  BY <1>2, <1>3, FS_Surjection

\* A counter that is past every record is a natural number.
LEMMA NextCounter ==
    ASSUME NEW S, IsFiniteSet(S), NEW f \in [S -> Nat], NEW n \in Nat
    PROVE  Max({n} \cup { f[x] + 1 : x \in S }) \in Nat
<1>. DEFINE g == [x \in S |-> f[x] + 1]
            T == { f[x] + 1 : x \in S }
<1>1. g \in Surjection(S, T)
  BY DEF Surjection
<1>2. IsFiniteSet(T)
  BY <1>1, FS_Surjection
<1>3. IsFiniteSet(T \cup {n}) /\ T \cup {n} = {n} \cup T
  BY <1>2, FS_AddElement
<1>4. {n} \cup T \in SUBSET Nat
  OBVIOUS
<1>. QED
  BY <1>3, <1>4, MaxExists

-----------------------------------------------------------------------------
(* Compaction.                                                                *)

\* The files before r, and the last of them.
Earlier(keep, r) == { k \in keep : k.off < r.off }
LastEarlier(keep, r) ==
    CHOOSE k \in Earlier(keep, r) : \A j \in Earlier(keep, r) : j.off <= k.off

\* Where plan means to put r, and where it puts it, given the places of the files
\* before it.
Meant(keep, to, r) ==
    IF Earlier(keep, r) = {} THEN 0
    ELSE to[LastEarlier(keep, r)] + Size(LastEarlier(keep, r))
NewPlaceOf(keep, pinned, to, r) ==
    IF r.seq \in pinned THEN r.off
    ELSE NeverUp(StepOver(keep, pinned, Meant(keep, to, r), Size(r)), r.off)

\* Files with an offset, a length and a sequence number, one after the other.
InALine(keep) ==
    /\ \A r \in keep : /\ r.off \in Nat /\ r.len \in Nat
                       /\ Size(r) \in Nat \ {0} /\ End(r) = r.off + Size(r) /\ End(r) <= LogLen
    /\ \A r, k \in keep : r.off < k.off => End(r) <= k.off
    /\ \A r, k \in keep : r.off = k.off => r = k

\* If there is a file before r, there is a last one.
LEMMA LastEarlierIs ==
    ASSUME NEW keep, \A k \in keep : k.off \in Nat, NEW r \in keep, Earlier(keep, r) # {}
    PROVE  /\ LastEarlier(keep, r) \in keep /\ LastEarlier(keep, r).off < r.off
           /\ \A j \in keep : j.off < r.off => j.off <= LastEarlier(keep, r).off
<1>. DEFINE offs == { k.off : k \in Earlier(keep, r) }
<1>1. \A n \in offs : n \in Nat /\ n <= r.off
  BY DEF Earlier
<1>2. IsFiniteSet(offs) /\ offs \in SUBSET Nat /\ offs # {}
  <2>1. offs # {}
    OBVIOUS
  <2>. HIDE DEF offs
  <2>2. r.off \in Nat
    OBVIOUS
  <2>. QED
    BY <1>1, <2>1, <2>2, FS_BoundedSetOfNaturals
<1>3. Max(offs) \in offs /\ \A n \in offs : n <= Max(offs)
  BY <1>2, MaxExists
<1>4. PICK k \in Earlier(keep, r) : \A j \in Earlier(keep, r) : j.off <= k.off
  BY <1>3
<1>5. /\ LastEarlier(keep, r) \in Earlier(keep, r)
      /\ \A j \in Earlier(keep, r) : j.off <= LastEarlier(keep, r).off
  BY <1>4, Zenon DEF LastEarlier
<1>. QED
  BY <1>5 DEF Earlier

\* Where plan puts a file depends on the places of the files before it only.
LEMMA OnlyEarlierMatter ==
    ASSUME NEW keep, \A k \in keep : k.off \in Nat, NEW pinned, NEW r \in keep, NEW f, NEW g,
           \A k \in keep : k.off < r.off => f[k] = g[k]
    PROVE  NewPlaceOf(keep, pinned, f, r) = NewPlaceOf(keep, pinned, g, r)
<1>1. Meant(keep, f, r) = Meant(keep, g, r)
  BY LastEarlierIs DEF Meant
<1>. QED
  BY <1>1 DEF NewPlaceOf

\* The recursion of plan has a solution: one that is right up to an offset can
\* be made right at that offset.
LEMMA PlanSolves ==
    ASSUME NEW keep, \A k \in keep : k.off \in Units, NEW pinned
    PROVE  \E to : to = [r \in keep |-> NewPlaceOf(keep, pinned, to, r)]
<1>. DEFINE Right(f, n) == f = [r \in keep |-> IF r.off < n THEN NewPlaceOf(keep, pinned, f, r) ELSE 0]
            Bad == { n \in Nat : ~\E f : Right(f, n) }
<1>1. \A k \in keep : k.off \in Nat /\ k.off < LogLen
  BY LogFacts
<1>2. Bad = {}
  <2>. SUFFICES ASSUME Bad # {} PROVE FALSE
    OBVIOUS
  <2>. DEFINE n == Min(Bad)
  <2>1. n \in Bad /\ \A m \in Bad : n <= m
    BY MinExists, Bad \in SUBSET Nat
  <2>. HIDE DEF n
  <2>2. CASE n = 0
    <3>1. Right([r \in keep |-> 0], 0)
      BY <1>1
    <3>. QED
      BY <2>1, <2>2, <3>1
  <2>3. CASE n # 0
    <3>1. n \in Nat /\ n - 1 \in Nat /\ n - 1 \notin Bad
      BY <2>1, <2>3
    <3>2. PICK f : Right(f, n - 1)
      BY <3>1
    <3>. DEFINE g == [r \in keep |-> IF r.off = n - 1 THEN NewPlaceOf(keep, pinned, f, r) ELSE f[r]]
    <3>3. ASSUME NEW r \in keep
          PROVE  g[r] = IF r.off < n THEN NewPlaceOf(keep, pinned, g, r) ELSE 0
      <4>1. r.off < n => NewPlaceOf(keep, pinned, f, r) = NewPlaceOf(keep, pinned, g, r)
        <5>. SUFFICES ASSUME r.off < n
                      PROVE  NewPlaceOf(keep, pinned, f, r) = NewPlaceOf(keep, pinned, g, r)
          OBVIOUS
        <5>1. \A k \in keep : k.off < r.off => f[k] = g[k]
          BY <1>1, <3>1
        <5>. HIDE DEF g
        <5>. QED
          BY <1>1, <5>1, OnlyEarlierMatter
      <4>2. f[r] = IF r.off < n - 1 THEN NewPlaceOf(keep, pinned, f, r) ELSE 0
        BY <3>2
      <4>3. g[r] = IF r.off = n - 1 THEN NewPlaceOf(keep, pinned, f, r) ELSE f[r]
        OBVIOUS
      <4>. HIDE DEF g
      <4>. QED
        BY <1>1, <3>1, <4>1, <4>2, <4>3
    <3>4. g = [r \in keep |-> g[r]]
      OBVIOUS
    <3>. HIDE DEF g
    <3>5. Right(g, n)
      BY <3>3, <3>4
    <3>. QED
      BY <2>1, <3>5
  <2>. QED
    BY <2>2, <2>3
<1>3. PICK f : Right(f, LogLen)
  BY <1>2, LogFacts
<1>4. f = [r \in keep |-> NewPlaceOf(keep, pinned, f, r)]
  <2>1. [r \in keep |-> IF r.off < LogLen THEN NewPlaceOf(keep, pinned, f, r) ELSE 0]
          = [r \in keep |-> NewPlaceOf(keep, pinned, f, r)]
    BY <1>1
  <2>. QED
    BY <1>3, <2>1
<1>. QED
  BY <1>4

\* So Plan is that solution.
LEMMA PlanUnfolds ==
    ASSUME NEW keep, \A k \in keep : k.off \in Units, NEW pinned, NEW r \in keep
    PROVE  Plan(keep, pinned)[r] = NewPlaceOf(keep, pinned, Plan(keep, pinned), r)
<1>. DEFINE F(to) == [x \in keep |-> NewPlaceOf(keep, pinned, to, x)]
<1>1. Plan(keep, pinned) = CHOOSE to : to = F(to)
  BY DEF Plan, NewPlaceOf, Meant, LastEarlier, Earlier
<1>2. \E to : to = F(to)
  BY PlanSolves
<1>. HIDE DEF F
<1>3. Plan(keep, pinned) = F(Plan(keep, pinned))
  BY <1>1, <1>2
<1>4. F(Plan(keep, pinned))[r] = NewPlaceOf(keep, pinned, Plan(keep, pinned), r)
  BY DEF F
<1>. QED
  BY <1>3, <1>4

\* The places StepOver chooses from are at or above the one meant, and it finds
\* one among them or none.
LEMMA StepOverGoesUp ==
    ASSUME NEW keep, InALine(keep), NEW pinned, NEW dst \in Nat, NEW size
    PROVE  \/ StepOver(keep, pinned, dst, size) = NoPlace
           \/ /\ StepOver(keep, pinned, dst, size) \in Nat
              /\ dst <= StepOver(keep, pinned, dst, size)
              /\ ~HitsFrozen(keep, pinned, StepOver(keep, pinned, dst, size), size)
<1>. DEFINE starts == {dst} \cup { AlignPage(End(r)) : r \in { k \in keep : k.seq \in pinned } }
            free == { t \in starts : t >= dst /\ ~HitsFrozen(keep, pinned, t, size) }
<1>1. starts \subseteq Nat
  <2>1. \A r \in keep : AlignPage(End(r)) \in Nat
    <3>. SUFFICES ASSUME NEW r \in keep PROVE AlignPage(End(r)) \in Nat
      OBVIOUS
    <3>1. End(r) \in Nat
      BY DEF InALine
    <3>. QED
      BY <3>1, AlignUp
  <2>. QED
    BY <2>1
<1>2. StepOver(keep, pinned, dst, size) = IF free = {} THEN NoPlace ELSE Min(free)
  BY DEF StepOver
<1>. HIDE DEF starts
<1>3. free \in SUBSET Nat /\ \A t \in free : dst <= t /\ ~HitsFrozen(keep, pinned, t, size)
  BY <1>1
<1>. HIDE DEF free
<1>4. CASE free = {}
  BY <1>2, <1>4
<1>5. CASE free # {}
  <2>1. Min(free) \in free
    BY <1>3, <1>5, MinExists
  <2>. QED
    BY <1>2, <1>3, <1>5, <2>1
<1>. QED
  BY <1>4, <1>5

\* One file's part of what plan answers for.
Placed(keep, pinned, to, r) ==
    /\ to[r] \in Nat /\ to[r] <= r.off
    /\ \A k \in keep : k.off < r.off => to[k] + Size(k) <= to[r]
    /\ r.seq \in pinned => to[r] = r.off
    /\ to[r] # r.off => ~HitsFrozen(keep, pinned, to[r], Size(r))

\* A file is well placed when those before it are.
LEMMA NextIsPlaced ==
    ASSUME NEW keep, InALine(keep), NEW pinned, NEW to, NEW r \in keep,
           to[r] = NewPlaceOf(keep, pinned, to, r),
           \A k \in keep : k.off < r.off => Placed(keep, pinned, to, k)
    PROVE  Placed(keep, pinned, to, r)
<1>1. /\ r.off \in Nat /\ End(r) <= LogLen /\ End(r) = r.off + Size(r) /\ Size(r) \in Nat \ {0}
      /\ \A k \in keep : k.off \in Nat /\ Size(k) \in Nat /\ End(k) = k.off + Size(k)
      /\ \A k \in keep : k.off < r.off => End(k) <= r.off
  BY DEF InALine
<1>2. \A k \in keep : k.off < r.off => to[k] \in Nat /\ to[k] <= k.off
  BY DEF Placed
<1>3. CASE r.seq \in pinned
  <2>1. to[r] = r.off
    BY <1>3 DEF NewPlaceOf
  <2>2. \A k \in keep : k.off < r.off => to[k] + Size(k) <= to[r]
    BY <1>1, <1>2, <2>1
  <2>. QED
    BY <1>1, <2>1, <2>2 DEF Placed
<1>4. CASE r.seq \notin pinned
  <2>. DEFINE dst == Meant(keep, to, r)
              t == StepOver(keep, pinned, dst, Size(r))
  <2>1. /\ dst \in Nat /\ dst <= r.off
        /\ \A k \in keep : k.off < r.off => to[k] + Size(k) <= dst
    <3>1. CASE Earlier(keep, r) = {}
      <4>1. dst = 0 /\ \A k \in keep : ~(k.off < r.off)
        BY <3>1 DEF Meant, Earlier
      <4>. QED
        BY <1>1, <4>1
    <3>2. CASE Earlier(keep, r) # {}
      <4>. DEFINE p == LastEarlier(keep, r)
      <4>1. dst = to[p] + Size(p)
        BY <3>2 DEF Meant
      <4>2. p \in keep /\ p.off < r.off /\ \A j \in keep : j.off < r.off => j.off <= p.off
        BY <1>1, <3>2, LastEarlierIs
      <4>. HIDE DEF p, dst
      <4>3. to[p] \in Nat /\ to[p] <= p.off /\ Size(p) \in Nat /\ p.off + Size(p) <= r.off
        BY <1>1, <1>2, <4>2
      <4>4. ASSUME NEW k \in keep, k.off < r.off
            PROVE  to[k] + Size(k) <= dst
        <5>1. CASE k = p
          BY <4>1, <4>3, <5>1
        <5>2. CASE k # p
          <6>1. k.off < p.off
            <7>1. k.off # p.off
              BY <4>2, <5>2 DEF InALine
            <7>. QED
              BY <1>1, <4>2, <4>4, <7>1
          <6>2. to[k] + Size(k) <= to[p]
            BY <4>2, <6>1 DEF Placed
          <6>3. to[k] \in Nat /\ Size(k) \in Nat
            BY <1>1, <1>2, <4>4
          <6>. QED
            BY <4>1, <4>3, <6>2, <6>3
        <5>. QED
          BY <5>1, <5>2
      <4>5. dst \in Nat /\ dst <= r.off
        BY <1>1, <4>1, <4>2, <4>3
      <4>. QED
        BY <4>4, <4>5
    <3>. QED
      BY <3>1, <3>2
  <2>2. to[r] = NeverUp(t, r.off)
    BY <1>4 DEF NewPlaceOf
  <2>3. t = NoPlace \/ (t \in Nat /\ dst <= t /\ ~HitsFrozen(keep, pinned, t, Size(r)))
    <3>. HIDE DEF dst
    <3>. QED
      BY <2>1, StepOverGoesUp, Zenon
  <2>. HIDE DEF dst, t
  <2>4. t \in Nat /\ r.off < NoPlace
    BY <1>1, <2>3, LogFacts DEF NoPlace
  <2>5. to[r] \in {t, r.off} /\ to[r] <= t /\ to[r] <= r.off
    BY <1>1, <2>2, <2>4, MinExists DEF NeverUp
  <2>6. dst <= t
    BY <1>1, <2>1, <2>3, <2>4
  <2>7. dst <= to[r] /\ to[r] \in Nat
    BY <1>1, <2>1, <2>4, <2>5, <2>6
  <2>8. \A k \in keep : k.off < r.off => to[k] + Size(k) <= to[r]
    BY <1>1, <1>2, <2>1, <2>7
  <2>9. to[r] # r.off => ~HitsFrozen(keep, pinned, to[r], Size(r))
    BY <1>1, <2>3, <2>4, <2>5
  <2>. QED
    BY <1>4, <2>5, <2>7, <2>8, <2>9 DEF Placed
<1>. QED
  BY <1>3, <1>4

\* Files that lie one after the other always have a plan, whatever is pinned:
\* else there would be a first file it places badly.
LEMMA PlanAlwaysHolds ==
    ASSUME NEW keep, InALine(keep), NEW pinned
    PROVE  PlanHolds(keep, pinned, Plan(keep, pinned))
<1>. DEFINE to == Plan(keep, pinned)
            Bad == { r.off : r \in { k \in keep : ~Placed(keep, pinned, to, k) } }
<1>1. /\ \A r \in keep : r.off \in Nat /\ r.off \in Units
      /\ \A r \in keep : to[r] = NewPlaceOf(keep, pinned, to, r)
  <2>1. \A r \in keep : r.off \in Nat /\ r.off \in Units
    BY LogFacts DEF InALine
  <2>. QED
    BY <2>1, PlanUnfolds
<1>. HIDE DEF to
<1>2. \A r \in keep : Placed(keep, pinned, to, r)
  <2>. SUFFICES ASSUME Bad # {} PROVE FALSE
    OBVIOUS
  <2>1. Min(Bad) \in Bad /\ \A n \in Bad : Min(Bad) <= n
    BY <1>1, MinExists, Bad \in SUBSET Nat
  <2>2. PICK r \in keep : ~Placed(keep, pinned, to, r) /\ r.off = Min(Bad)
    BY <2>1
  <2>3. \A k \in keep : k.off < r.off => Placed(keep, pinned, to, k)
    <3>. SUFFICES ASSUME NEW k \in keep, k.off < r.off, ~Placed(keep, pinned, to, k) PROVE FALSE
      OBVIOUS
    <3>1. k.off \in Bad
      OBVIOUS
    <3>. HIDE DEF Bad
    <3>. QED
      BY <1>1, <2>1, <2>2, <3>1
  <2>. QED
    BY <1>1, <2>2, <2>3, NextIsPlaced
<1>3. \A r \in keep : to[r] \in Units
  <2>. SUFFICES ASSUME NEW r \in keep PROVE to[r] \in Units
    OBVIOUS
  <2>1. to[r] \in Nat /\ to[r] <= r.off /\ r.off \in Nat /\ r.off < LogLen
    BY <1>1, <1>2, LogFacts DEF Placed
  <2>. QED
    BY <2>1, LogFacts
<1>4. PlanHolds(keep, pinned, to)
  BY <1>2, <1>3 DEF PlanHolds, Placed
<1>. QED
  BY <1>4 DEF to

\* The packed log ends where the last new place does.
LEMMA PackedIs ==
    ASSUME NEW keep, NEW to, \A r \in keep : to[r] + Size(r) \in Nat /\ to[r] + Size(r) <= LogLen
    PROVE  /\ Packed(keep, to) \in Nat /\ Packed(keep, to) <= LogLen
           /\ \A r \in keep : to[r] + Size(r) <= Packed(keep, to)
           /\ keep # {} => \E r \in keep : to[r] + Size(r) = Packed(keep, to)
<1>. DEFINE ends == { to[r] + Size(r) : r \in keep }
<1>1. \A e \in ends : e \in Nat /\ e <= LogLen
  OBVIOUS
<1>2. ends = {} <=> keep = {}
  OBVIOUS
<1>3. Packed(keep, to) = IF keep = {} THEN 0 ELSE Max(ends)
  BY DEF Packed
<1>4. \A r \in keep : to[r] + Size(r) \in ends
  OBVIOUS
<1>5. \A e \in ends : \E r \in keep : e = to[r] + Size(r)
  OBVIOUS
<1>. HIDE DEF ends
<1>6. IsFiniteSet(ends) /\ ends \in SUBSET Nat
  BY <1>1, LogFacts, FS_BoundedSetOfNaturals
<1>7. CASE keep = {}
  BY <1>3, <1>7, LogFacts
<1>8. CASE keep # {}
  <2>1. Max(ends) \in ends /\ \A e \in ends : e <= Max(ends)
    BY <1>2, <1>6, <1>8, MaxExists
  <2>. QED
    BY <1>1, <1>3, <1>4, <1>5, <1>8, <2>1
<1>. QED
  BY <1>7, <1>8
=============================================================================
