---------------------------- MODULE PatLogProofs ----------------------------
(* The bench of PatLogCheck, for every geometry of the log, every number of   *)
(* files and every length: scan and plan compute what PatLog says they do; a  *)
(* compaction always has a plan and a finished one holds every file it had to *)
(* keep; and the room that is promised, or handed out, is there.              *)
EXTENDS PatLogCheck, PatLogFacts

-----------------------------------------------------------------------------
(* What every state of the bench looks like.                                  *)

BenchFile == [ off : Nat, name : Seqs, seq : Seqs, stamp : Nat, ver : Nat,
               len : Lens, dead : BOOLEAN ]

OldExtent(r) == Extent(r.off, Size(r))
NewExtent(r) == Extent(to[r], Size(r))

\* Unit u of file r where it was written, and where the plan puts it.
OldCell(r, u) == IF u = r.off THEN Header([r EXCEPT !.dead = FALSE], TRUE, r.dead)
                 ELSE Data(r.ver, u - r.off)
NewCell(r, u) == IF u = to[r] THEN HeaderAnew(r, to[r]) ELSE Data(r.ver, u - to[r])

\* A unit the repack has not touched: part of a file, or a gap below the end.
AsWritten(u) ==
    /\ \A r \in keep : u \in OldExtent(r) => flash[u] = OldCell(r, u)
    /\ (\A r \in keep : u \notin OldExtent(r)) =>
         \/ flash[u] = Erased
         \/ flash[u] = Junk /\ u < Filled

\* A unit the repack is done with: part of a file at its new place, or erased.
AsPlanned(u) ==
    /\ \A r \in keep : u \in NewExtent(r) => flash[u] = NewCell(r, u)
    /\ (\A r \in keep : u \notin NewExtent(r)) => flash[u] = Erased

Frozen(p) == p \in FrozenPages(keep, pinned)

\* The repack goes up page by page and leaves out the frozen ones.
PagesAsDue == \A u \in Units :
    IF PageOf(u) < page /\ ~Frozen(PageOf(u)) THEN AsPlanned(u) ELSE AsWritten(u)

BenchType ==
    /\ keep \subseteq BenchFile /\ IsFiniteSet(keep) /\ InALine(keep)
    /\ page \in Nat /\ phase \in {"fill", "repack", "done"}
    /\ phase = "fill" => page = 0
    /\ phase = "done" => page = NumPages

BenchInv == BenchType /\ PagesAsDue

-----------------------------------------------------------------------------
(* Facts of a state.                                                          *)

\* A file of the bench has an offset, a length and a place in the log.
LEMMA BenchFacts ==
    ASSUME BenchType, NEW r \in keep
    PROVE  /\ r \in BenchFile /\ r.off \in Nat /\ r.len \in Nat /\ Size(r) = 1 + r.len
           /\ End(r) = r.off + 1 + r.len /\ End(r) <= LogLen
BY BenchAssumption DEF BenchType, BenchFile, InALine, Size

\* Filled is where the last file ends.
LEMMA FilledIs ==
    ASSUME BenchType
    PROVE  /\ Filled \in Nat /\ Filled <= LogLen /\ \A r \in keep : End(r) <= Filled
           /\ keep # {} => \E r \in keep : End(r) = Filled
           /\ keep = {} => Filled = 0
<1>. DEFINE at == [r \in keep |-> r.off]
<1>1. \A r \in keep : at[r] + Size(r) \in Nat /\ at[r] + Size(r) <= LogLen
                      /\ at[r] + Size(r) = End(r)
  BY BenchFacts
<1>2. { at[r] + Size(r) : r \in keep } = { End(r) : r \in keep }
  BY <1>1
<1>3. Packed(keep, at) = Filled
  BY <1>2 DEF Packed, Filled
<1>4. keep = {} => Filled = 0
  BY DEF Filled
<1>. HIDE DEF at
<1>. QED
  BY <1>1, <1>3, <1>4, PackedIs

\* The plan of the bench's files holds.
LEMMA PlanFacts ==
    ASSUME BenchType
    PROVE  /\ PlanHolds(keep, pinned, to)
           /\ \A r \in keep : /\ to[r] \in Nat /\ to[r] \in Units /\ to[r] <= r.off
                              /\ to[r] + Size(r) \in Nat /\ to[r] + Size(r) <= LogLen
<1>1. PlanHolds(keep, pinned, to)
  BY PlanAlwaysHolds DEF BenchType, to
<1>2. ASSUME NEW r \in keep
      PROVE  /\ to[r] \in Nat /\ to[r] \in Units /\ to[r] <= r.off
             /\ to[r] + Size(r) \in Nat /\ to[r] + Size(r) <= LogLen
  <2>1. to[r] \in Units /\ to[r] <= r.off
    BY <1>1 DEF PlanHolds
  <2>. QED
    BY <2>1, BenchFacts, LogFacts
<1>. QED
  BY <1>1, <1>2

\* A unit of a new place, and where its content comes from.
LEMMA NewUnit ==
    ASSUME BenchType, NEW r \in keep, NEW u \in NewExtent(r)
    PROVE  /\ u \in Nat /\ u \in Units /\ to[r] <= u /\ u < to[r] + Size(r)
           /\ u - to[r] + r.off \in Units /\ u <= u - to[r] + r.off
           /\ u - to[r] + r.off \in OldExtent(r)
<1>1. /\ to[r] \in Nat /\ to[r] <= r.off /\ r.off \in Nat /\ Size(r) = 1 + r.len /\ r.len \in Nat
      /\ r.off + 1 + r.len <= LogLen
  BY PlanFacts, BenchFacts
<1>2. u \in to[r] .. to[r] + Size(r) - 1
  BY DEF NewExtent, Extent
<1>3. /\ u \in Nat /\ to[r] <= u /\ u < to[r] + Size(r) /\ u < LogLen
      /\ u - to[r] + r.off \in Nat /\ u - to[r] + r.off < LogLen /\ u <= u - to[r] + r.off
      /\ u - to[r] + r.off \in r.off .. r.off + Size(r) - 1
  BY <1>1, <1>2, LogFacts
<1>. QED
  BY <1>3, LogFacts DEF OldExtent, Extent

\* Two files have no unit in common, neither where they were written ...
LEMMA OldApart ==
    ASSUME BenchType, NEW r \in keep, NEW k \in keep, NEW u \in OldExtent(r), u \in OldExtent(k)
    PROVE  r = k
<1>1. /\ r.off \in Nat /\ k.off \in Nat /\ Size(r) \in Nat /\ Size(k) \in Nat
      /\ End(r) = r.off + Size(r) /\ End(k) = k.off + Size(k)
  BY BenchFacts DEF BenchType, InALine
<1>2. r.off <= u /\ u < End(r) /\ k.off <= u /\ u < End(k) /\ u \in Int
  BY <1>1 DEF OldExtent, Extent
<1>3. (r.off < k.off => End(r) <= k.off) /\ (k.off < r.off => End(k) <= r.off)
  BY DEF BenchType, InALine
<1>4. r.off = k.off
  BY <1>1, <1>2, <1>3
<1>. QED
  BY <1>4 DEF BenchType, InALine

\* ... nor where the plan puts them.
LEMMA NewApart ==
    ASSUME BenchType, NEW r \in keep, NEW k \in keep, NEW u \in NewExtent(r), u \in NewExtent(k)
    PROVE  r = k
<1>1. /\ r.off \in Nat /\ k.off \in Nat /\ Size(r) \in Nat /\ Size(k) \in Nat
      /\ to[r] \in Nat /\ to[k] \in Nat
  BY BenchFacts, PlanFacts
<1>2. to[r] <= u /\ u < to[r] + Size(r) /\ to[k] <= u /\ u < to[k] + Size(k) /\ u \in Nat
  BY NewUnit
<1>3. /\ r.off < k.off => to[r] + Size(r) <= to[k]
      /\ k.off < r.off => to[k] + Size(k) <= to[r]
  BY PlanFacts DEF PlanHolds
<1>4. r.off = k.off
  BY <1>1, <1>2, <1>3
<1>. QED
  BY <1>4 DEF BenchType, InALine

-----------------------------------------------------------------------------
(* Every step keeps the invariant.                                            *)

\* An empty log.
LEMMA BenchInit == Init => BenchInv
<1>. SUFFICES ASSUME Init PROVE BenchInv
  OBVIOUS
<1>1. keep = {} /\ page = 0 /\ phase = "fill" /\ \A u \in Units : flash[u] = Erased
  BY DEF Init
<1>2. BenchType
  BY <1>1, FS_EmptySet DEF BenchType, InALine
<1>3. ASSUME NEW u \in Units PROVE ~(PageOf(u) < page) /\ AsWritten(u)
  <2>1. PageOf(u) \in Nat
    BY LogFacts, OnItsPage
  <2>. QED
    BY <1>1, <2>1 DEF AsWritten
<1>. QED
  BY <1>2, <1>3 DEF BenchInv, PagesAsDue

\* A file is added behind the ones there are.
LEMMA WriteStep ==
    ASSUME BenchInv, Write
    PROVE  BenchInv'
<1>. DEFINE wrote(gap, len, seq, dead, junk) ==
              LET rec == NextFile(gap, len, seq)
              IN  /\ phase = "fill" /\ Cardinality(keep) < MaxFiles /\ End(rec) <= LogLen
                  /\ junk => gap > 0
                  /\ flash' = LogWith(rec, dead, junk)
                  /\ keep' = keep \cup {[rec EXCEPT !.dead = dead]}
                  /\ UNCHANGED <<pinned, page, phase>>
<1>0. \E gap \in 0 .. MaxGap, len \in Lens, seq \in Seqs, dead, junk \in BOOLEAN :
        wrote(gap, len, seq, dead, junk)
  BY DEF Write
<1>. HIDE DEF wrote
<1>1. PICK gap \in 0 .. MaxGap, len \in Lens, seq \in Seqs, dead \in BOOLEAN, junk \in BOOLEAN :
        wrote(gap, len, seq, dead, junk)
  BY <1>0
<1>. USE DEF wrote
<1>. DEFINE rec == NextFile(gap, len, seq)
            new == [rec EXCEPT !.dead = dead]
<1>2. /\ phase = "fill" /\ phase' = "fill" /\ page' = page /\ page = 0
      /\ keep' = keep \cup {new} /\ End(rec) <= LogLen
      /\ flash' = LogWith(rec, dead, junk)
  BY <1>1 DEF BenchInv, BenchType
<1>4. BenchType /\ Filled \in Nat /\ Cardinality(keep) \in Nat /\ gap \in Nat /\ len \in Nat
  BY FilledIs, FS_CardinalityType, BenchAssumption DEF BenchInv, BenchType
<1>5. /\ new.off = Filled + gap /\ rec.off = Filled + gap /\ rec.len = len /\ new.len = len
      /\ new \in BenchFile /\ rec \in BenchFile /\ new.ver = rec.ver /\ new.dead = dead
      /\ [new EXCEPT !.dead = FALSE] = rec
  <2>1. /\ rec.off = Filled + gap /\ rec.len = len /\ rec.ver = Cardinality(keep) + 1 /\ rec.dead = FALSE
        /\ rec \in BenchFile
    BY <1>4 DEF BenchFile, NextFile
  <2>. HIDE DEF rec
  <2>. QED
    BY <2>1 DEF BenchFile
<1>. HIDE DEF rec, new
<1>6. /\ new.off \in Nat /\ rec.off = new.off /\ Filled <= new.off
      /\ Size(new) = 1 + len /\ End(new) = new.off + 1 + len /\ End(rec) = End(new)
      /\ End(new) <= LogLen /\ End(new) \in Nat
  BY <1>2, <1>4, <1>5 DEF End, Size
<1>7. \A r \in keep : /\ r.off \in Nat /\ r.len \in Nat /\ Size(r) = 1 + r.len
                      /\ End(r) = r.off + Size(r) /\ End(r) <= LogLen
                      /\ End(r) <= Filled /\ r.off < new.off
  BY <1>4, <1>6, FilledIs, BenchFacts
<1>8. InALine(keep')
  <2>1. \A r \in keep' : /\ r.off \in Nat /\ r.len \in Nat
                         /\ Size(r) \in Nat \ {0} /\ End(r) = r.off + Size(r) /\ End(r) <= LogLen
    BY <1>2, <1>4, <1>5, <1>6, <1>7
  <2>2. \A r, k \in keep' : r.off < k.off => End(r) <= k.off
    <3>. SUFFICES ASSUME NEW r \in keep', NEW k \in keep', r.off < k.off PROVE End(r) <= k.off
      OBVIOUS
    <3>1. CASE r \in keep /\ k \in keep
      BY <1>4, <3>1 DEF BenchType, InALine
    <3>2. CASE r \in keep /\ k = new
      BY <1>4, <1>6, <1>7, <3>2
    <3>3. CASE r = new
      BY <1>2, <1>6, <1>7, <3>3
    <3>. QED
      BY <1>2, <3>1, <3>2, <3>3
  <2>3. \A r, k \in keep' : r.off = k.off => r = k
    <3>1. \A r, k \in keep : r.off = k.off => r = k
      BY <1>4 DEF BenchType, InALine
    <3>. QED
      BY <1>2, <1>6, <1>7, <3>1
  <2>. QED
    BY <2>1, <2>2, <2>3 DEF InALine
<1>9. BenchType'
  <2>1. keep' \subseteq BenchFile /\ IsFiniteSet(keep')
    BY <1>2, <1>4, <1>5, FS_AddElement DEF BenchType
  <2>. QED
    BY <1>2, <1>8, <2>1 DEF BenchType
<1>10. Filled' \in Nat /\ End(new) <= Filled' /\ Filled <= Filled'
  <2>1. Filled' \in Nat /\ \A r \in keep' : End(r) <= Filled'
    <3>1. BenchType => Filled \in Nat /\ \A r \in keep : End(r) <= Filled
      BY FilledIs
    <3>2. (BenchType => Filled \in Nat /\ \A r \in keep : End(r) <= Filled)'
      BY FilledIs, <3>1, PTL
    <3>. QED
      BY <1>9, <3>2
  <2>. QED
    BY <1>2, <1>4, <1>6, <1>7, <2>1
<1>11. ASSUME NEW u \in Units
       PROVE  AsWritten(u)'
  <2>1. u \in Nat /\ PageOf(u) \in Nat
    BY LogFacts, OnItsPage
  <2>2. AsWritten(u)
    BY <1>2, <2>1 DEF BenchInv, PagesAsDue
  <2>. DEFINE inFile == u \in rec.off + 1 .. End(rec) - 1
              inGap == u \in Filled .. rec.off - 1
  <2>3. /\ u = rec.off => flash'[u] = Header(rec, TRUE, dead)
        /\ u # rec.off /\ inFile => flash'[u] = Data(rec.ver, u - rec.off)
        /\ u # rec.off /\ ~inFile /\ inGap => flash'[u] \in {Erased, Junk}
        /\ u # rec.off /\ ~inFile /\ ~inGap => flash'[u] = flash[u]
    <3>1. flash'[u] = CASE u = rec.off -> Header(rec, TRUE, dead)
                        [] inFile      -> Data(rec.ver, u - rec.off)
                        [] inGap       -> IF junk THEN Junk ELSE Erased
                        [] OTHER       -> flash[u]
      BY <1>2 DEF LogWith
    <3>2. ~(u = rec.off /\ inFile) /\ ~(u = rec.off /\ inGap) /\ ~(inFile /\ inGap)
      BY <1>4, <1>5, <1>6
    <3>. HIDE DEF inFile, inGap
    <3>. QED
      BY <3>1, <3>2
  <2>4. u \in OldExtent(new) <=> new.off <= u /\ u < End(new)
    <3>1. OldExtent(new) = new.off .. new.off + (1 + len) - 1
      BY <1>6 DEF OldExtent, Extent
    <3>. QED
      BY <1>4, <1>6, <2>1, <3>1
  <2>5. CASE u \in OldExtent(new)
    <3>1. flash'[u] = OldCell(new, u)
      <4>1. CASE u = new.off
        <5>1. flash'[u] = Header(rec, TRUE, dead)
          BY <1>6, <2>3, <4>1
        <5>2. OldCell(new, u) = Header([new EXCEPT !.dead = FALSE], TRUE, new.dead)
          BY <4>1 DEF OldCell
        <5>. QED
          BY <1>5, <5>1, <5>2, Zenon
      <4>2. CASE u # new.off
        <5>1. u # rec.off /\ inFile
          BY <1>6, <2>1, <2>4, <2>5, <4>2
        <5>2. flash'[u] = Data(rec.ver, u - rec.off)
          BY <2>3, <5>1
        <5>3. OldCell(new, u) = Data(new.ver, u - new.off)
          BY <4>2 DEF OldCell
        <5>. QED
          BY <1>5, <1>6, <5>2, <5>3
      <4>. QED
        BY <4>1, <4>2
    <3>2. \A r \in keep : u \notin OldExtent(r)
      <4>. SUFFICES ASSUME NEW r \in keep, u \in OldExtent(r) PROVE FALSE
        OBVIOUS
      <4>1. r.off <= u /\ u < End(r)
        BY <1>7, <2>1 DEF OldExtent, Extent
      <4>. QED
        BY <1>4, <1>6, <1>7, <2>1, <2>4, <2>5, <4>1
    <3>. QED
      BY <1>2, <2>5, <3>1, <3>2 DEF AsWritten
  <2>6. CASE u \notin OldExtent(new) /\ ~(Filled <= u /\ u < new.off)
    <3>1. flash'[u] = flash[u]
      <4>1. u # rec.off /\ ~inFile /\ ~inGap
        BY <1>4, <1>6, <2>1, <2>4, <2>6
      <4>. QED
        BY <2>3, <4>1
    <3>2. /\ \A r \in keep' : u \in OldExtent(r) => r \in keep
          /\ u < Filled => u < Filled'
      BY <1>2, <1>4, <1>10, <2>1, <2>6
    <3>. QED
      BY <1>2, <2>2, <3>1, <3>2 DEF AsWritten
  <2>7. CASE Filled <= u /\ u < new.off
    <3>1. flash'[u] \in {Erased, Junk}
      <4>1. u # rec.off /\ ~inFile /\ inGap
        BY <1>4, <1>6, <2>1, <2>7
      <4>. QED
        BY <2>3, <4>1
    <3>2. \A r \in keep' : u \notin OldExtent(r)
      <4>. SUFFICES ASSUME NEW r \in keep', u \in OldExtent(r) PROVE FALSE
        OBVIOUS
      <4>1. r \in keep
        BY <1>2, <1>6, <2>1, <2>4, <2>7
      <4>2. r.off <= u /\ u < End(r) /\ End(r) <= Filled
        BY <1>7, <2>1, <4>1 DEF OldExtent, Extent
      <4>3. End(r) \in Nat
        BY <1>7, <4>1
      <4>. QED
        BY <1>4, <2>1, <2>7, <4>2, <4>3
    <3>3. u < Filled'
      BY <1>4, <1>6, <1>10, <2>1, <2>7
    <3>. QED
      BY <3>1, <3>2, <3>3 DEF AsWritten
  <2>. QED
    BY <2>5, <2>6, <2>7
<1>12. \A u \in Units : ~(PageOf(u) < page')
  <2>. SUFFICES ASSUME NEW u \in Units PROVE ~(PageOf(u) < page')
    OBVIOUS
  <2>1. PageOf(u) \in Nat
    BY LogFacts, OnItsPage
  <2>. QED
    BY <1>2, <2>1
<1>. QED
  BY <1>9, <1>11, <1>12 DEF BenchInv, PagesAsDue

\* The pinned set is chosen before any page is rewritten.
LEMMA StartStep ==
    ASSUME BenchInv, Start
    PROVE  BenchInv'
<1>1. /\ phase = "fill" /\ phase' = "repack" /\ page = 0
      /\ UNCHANGED <<flash, keep, page>>
  BY DEF Start, BenchInv, BenchType
<1>2. BenchType'
  BY <1>1 DEF BenchInv, BenchType
<1>3. Filled' = Filled
  BY <1>1 DEF Filled
<1>4. ASSUME NEW u \in Units
      PROVE  ~(PageOf(u) < page') /\ AsWritten(u)'
  <2>1. ~(PageOf(u) < page) /\ ~(PageOf(u) < page')
    BY <1>1, LogFacts, OnItsPage
  <2>2. AsWritten(u)
    BY <2>1 DEF BenchInv, PagesAsDue
  <2>. QED
    BY <1>1, <1>3, <2>1, <2>2 DEF AsWritten
<1>. QED
  BY <1>2, <1>4 DEF BenchInv, PagesAsDue

\* A page comes out of BuildPage as planned, as long as nothing above it has
\* been touched: no file moves up.
LEMMA BuiltAsPlanned ==
    ASSUME BenchInv, NEW u \in PageUnits(page)
    PROVE  LET cell == BuildPage(flash, keep, to, page)[u]
           IN  /\ \A r \in keep : u \in NewExtent(r) => cell = NewCell(r, u)
               /\ (\A r \in keep : u \notin NewExtent(r)) => cell = Erased
<1>. DEFINE owners == { r \in keep : u \in Extent(to[r], Size(r)) }
            own == CHOOSE k \in owners : TRUE
            cell == BuildPage(flash, keep, to, page)[u]
<1>1. cell = IF owners = {} THEN Erased
             ELSE IF u = to[own] THEN HeaderAnew(own, to[own])
             ELSE flash[u - to[own] + own.off]
  BY DEF BuildPage
<1>2. u \in Units /\ PageOf(u) = page /\ u \in Nat /\ page \in Nat /\ BenchType
  BY LogFacts DEF PageUnits, BenchInv, BenchType
<1>3. ASSUME NEW r \in keep, u \in NewExtent(r)
      PROVE  cell = NewCell(r, u)
  <2>1. own \in owners
    BY <1>3 DEF NewExtent
  <2>2. own = r
    BY <1>2, <1>3, <2>1, NewApart DEF NewExtent
  <2>3. owners # {}
    BY <2>1
  <2>. HIDE DEF own, owners, cell
  <2>4. cell = IF u = to[r] THEN HeaderAnew(r, to[r]) ELSE flash[u - to[r] + r.off]
    BY <1>1, <2>2, <2>3
  <2>5. CASE u = to[r]
    BY <2>4, <2>5 DEF NewCell
  <2>6. CASE u # to[r]
    <3>. DEFINE from == u - to[r] + r.off
    <3>1. from \in Units /\ u <= from /\ from \in OldExtent(r)
      BY <1>2, <1>3, NewUnit
    <3>2. r.off \in Nat /\ to[r] \in Nat /\ from \in Nat
      BY <1>2, <3>1, BenchFacts, PlanFacts, LogFacts
    <3>3. from # r.off /\ from - r.off = u - to[r]
      <4>. DEFINE t == to[r]
                  o == r.off
      <4>1. u \in Nat /\ t \in Nat /\ o \in Nat /\ u # t
        BY <1>2, <2>6, <3>2
      <4>. HIDE DEF t, o
      <4>2. u - t + o # o /\ (u - t + o) - o = u - t
        BY <4>1
      <4>. QED
        BY <4>2 DEF t, o
    <3>. HIDE DEF from
    <3>4. ~(PageOf(from) < page)
      <4>. DEFINE p == PageOf(from)
      <4>1. p \in Nat /\ from < p * PageSize + PageSize
        BY <3>2, OnItsPage
      <4>2. page * PageSize <= u /\ page * PageSize \in Nat
        BY <1>2, OnItsPage, PagesInOrder
      <4>. HIDE DEF p
      <4>3. ~(p * PageSize + PageSize <= page * PageSize)
        BY <1>2, <3>1, <3>2, <4>1, <4>2, PagesInOrder, GeometryAssumption
      <4>4. ~(p < page)
        BY <1>2, <4>1, <4>3, PagesInOrder
      <4>. QED
        BY <4>4 DEF p
    <3>5. AsWritten(from)
      BY <3>1, <3>4 DEF BenchInv, PagesAsDue
    <3>6. flash[from] = Data(r.ver, from - r.off)
      BY <3>1, <3>3, <3>5 DEF AsWritten, OldCell
    <3>. QED
      BY <2>4, <2>6, <3>3, <3>6 DEF NewCell, from
  <2>. QED
    BY <2>5, <2>6
<1>4. (\A r \in keep : u \notin NewExtent(r)) => cell = Erased
  BY <1>1 DEF NewExtent
<1>. QED
  BY <1>3, <1>4

\* What a plan says of its packed end.
LEMMA PackedFacts ==
    ASSUME BenchType
    PROVE  /\ Packed(keep, to) \in Nat /\ Packed(keep, to) <= LogLen
           /\ \A r \in keep : to[r] + Size(r) <= Packed(keep, to)
           /\ keep # {} => \E r \in keep : to[r] + Size(r) = Packed(keep, to)
BY PlanFacts, PackedIs

\* The page whose turn it is comes out as planned, unless it is frozen.
LEMMA PageAsPlanned ==
    ASSUME BenchInv, Repack, ~Frozen(page), NEW u \in PageUnits(page)
    PROVE  AsPlanned(u)'
<1>1. /\ u \in Units /\ PageOf(u) = page /\ u \in Nat /\ page \in Nat /\ page \in Pages /\ BenchType
      /\ flash'[u] = IF page * PageSize < Packed(keep, to) THEN BuildPage(flash, keep, to, page)[u]
                     ELSE IF page \in SweepPages(keep, to, Filled) THEN Erased ELSE flash[u]
      /\ UNCHANGED <<keep, pinned>>
  <2>1. u \in Units /\ PageOf(u) = page /\ page \in Nat /\ page < NumPages /\ BenchType
    BY DEF PageUnits, Repack, BenchInv, BenchType
  <2>2. page \in Pages
    BY <2>1, GeometryAssumption DEF Pages
  <2>3. u \in Nat
    BY <2>1, LogFacts
  <2>4. flash'[u] = IF page * PageSize < Packed(keep, to) THEN BuildPage(flash, keep, to, page)[u]
                    ELSE IF page \in SweepPages(keep, to, Filled) THEN Erased ELSE flash[u]
    BY <2>1 DEF Repack, Frozen
  <2>. QED
    BY <2>1, <2>2, <2>3, <2>4 DEF Repack
<1>2. to' = to /\ \A r \in keep : NewExtent(r)' = NewExtent(r) /\ NewCell(r, u)' = NewCell(r, u)
  BY <1>1 DEF to, NewExtent, NewCell
<1>3. SUFFICES /\ \A r \in keep : u \in NewExtent(r) => flash'[u] = NewCell(r, u)
               /\ (\A r \in keep : u \notin NewExtent(r)) => flash'[u] = Erased
  BY <1>1, <1>2 DEF AsPlanned
<1>4. CASE page * PageSize < Packed(keep, to)
  BY <1>1, <1>4, BuiltAsPlanned
<1>5. CASE ~(page * PageSize < Packed(keep, to))
  <2>1. page * PageSize \in Nat /\ page * PageSize <= u
    BY <1>1, OnItsPage, PagesInOrder
  <2>2. Packed(keep, to) \in Nat /\ \A r \in keep : to[r] + Size(r) <= Packed(keep, to)
    BY <1>1, PackedFacts
  <2>3. \A r \in keep : to[r] + Size(r) \in Nat /\ to[r] + Size(r) <= page * PageSize
    BY <1>1, <1>5, <2>1, <2>2, PlanFacts
  <2>4. \A r \in keep : u \notin NewExtent(r)
    <3>. SUFFICES ASSUME NEW r \in keep, u \in NewExtent(r) PROVE FALSE
      OBVIOUS
    <3>1. u < to[r] + Size(r)
      BY <1>1, NewUnit
    <3>. QED
      BY <1>1, <2>1, <2>3, <3>1
  <2>5. flash'[u] = Erased
    <3>1. CASE page \in SweepPages(keep, to, Filled)
      BY <1>1, <1>5, <3>1
    <3>2. CASE page \notin SweepPages(keep, to, Filled)
      <4>1. Filled <= page * PageSize
        <5>1. ~(page * PageSize < Filled)
          BY <1>1, <2>3, <3>2 DEF SweepPages
        <5>. QED
          BY <1>1, <2>1, <5>1, FilledIs
      <4>2. flash'[u] = flash[u] /\ AsWritten(u)
        BY <1>1, <1>5, <3>2 DEF BenchInv, PagesAsDue
      <4>3. ~(u < Filled)
        BY <1>1, <2>1, <4>1, FilledIs
      <4>4. \A r \in keep : u \notin OldExtent(r)
        <5>. SUFFICES ASSUME NEW r \in keep, u \in OldExtent(r) PROVE FALSE
          OBVIOUS
        <5>1. r.off \in Nat /\ r.len \in Nat /\ Size(r) = 1 + r.len /\ End(r) = r.off + 1 + r.len
              /\ End(r) <= Filled
          BY <1>1, BenchFacts, FilledIs
        <5>2. u < End(r)
          BY <1>1, <5>1 DEF OldExtent, Extent
        <5>. QED
          BY <1>1, <4>3, <5>1, <5>2, FilledIs
      <4>. QED
        BY <4>2, <4>3, <4>4 DEF AsWritten
    <3>. QED
      BY <3>1, <3>2
  <2>. QED
    BY <2>4, <2>5
<1>. QED
  BY <1>4, <1>5

\* A page of the repack.
LEMMA RepackStep ==
    ASSUME BenchInv, Repack
    PROVE  BenchInv'
<1>1. /\ BenchType /\ page \in Nat /\ page' = page + 1 /\ phase = "repack" /\ phase' = "repack"
      /\ UNCHANGED <<keep, pinned>>
  BY DEF Repack, BenchInv, BenchType
<1>2. BenchType'
  BY <1>1 DEF BenchType
<1>3. to' = to /\ Filled' = Filled /\ \A p : Frozen(p)' = Frozen(p)
  BY <1>1 DEF to, Filled, Frozen
<1>4. ASSUME NEW u \in Units
      PROVE  IF PageOf(u) < page' /\ ~Frozen(PageOf(u)) THEN AsPlanned(u)' ELSE AsWritten(u)'
  <2>1. PageOf(u) \in Nat
    BY LogFacts, OnItsPage
  <2>2. ASSUME PageOf(u) # page \/ Frozen(page)
        PROVE  flash'[u] = flash[u]
    BY <2>2 DEF Repack, PageUnits, Frozen
  <2>3. CASE PageOf(u) # page \/ Frozen(page)
    <3>1. (PageOf(u) < page' /\ ~Frozen(PageOf(u))) <=> (PageOf(u) < page /\ ~Frozen(PageOf(u)))
      BY <1>1, <2>1, <2>3
    <3>2. AsPlanned(u)' <=> AsPlanned(u)
      BY <1>1, <1>3, <2>2, <2>3 DEF AsPlanned, NewExtent, NewCell
    <3>3. AsWritten(u)' <=> AsWritten(u)
      BY <1>1, <1>3, <2>2, <2>3 DEF AsWritten
    <3>. QED
      BY <3>1, <3>2, <3>3 DEF BenchInv, PagesAsDue
  <2>4. CASE PageOf(u) = page /\ ~Frozen(page)
    <3>1. PageOf(u) < page' /\ u \in PageUnits(page)
      BY <1>1, <2>4 DEF PageUnits
    <3>. QED
      BY <2>4, <3>1, PageAsPlanned
  <2>. QED
    BY <2>3, <2>4
<1>. QED
  BY <1>2, <1>3, <1>4 DEF BenchInv, PagesAsDue

\* Nothing but the phase changes at the end, or when nothing happens.
LEMMA BenchStutters ==
    ASSUME BenchInv, UNCHANGED <<flash, keep, pinned, page>>,
           phase' = phase \/ (phase' = "done" /\ page = NumPages)
    PROVE  BenchInv'
<1>1. BenchType'
  BY DEF BenchInv, BenchType
<1>2. to' = to /\ Filled' = Filled /\ \A p : Frozen(p)' = Frozen(p)
  BY DEF to, Filled, Frozen
<1>3. \A u : AsPlanned(u)' = AsPlanned(u) /\ AsWritten(u)' = AsWritten(u)
  BY <1>2 DEF AsPlanned, NewExtent, NewCell, AsWritten
<1>. QED
  BY <1>1, <1>2, <1>3 DEF BenchInv, PagesAsDue

\* Every step of the bench keeps it.
LEMMA BenchStep == BenchInv /\ [Next]_vars => BenchInv'
<1>. SUFFICES ASSUME BenchInv, [Next]_vars PROVE BenchInv'
  OBVIOUS
<1>1. CASE Write
  BY <1>1, WriteStep
<1>2. CASE Start
  BY <1>2, StartStep
<1>3. CASE Repack
  BY <1>3, RepackStep
<1>4. CASE Finish
  BY <1>4, BenchStutters DEF Finish
<1>5. CASE UNCHANGED vars
  BY <1>5, BenchStutters DEF vars
<1>. QED
  BY <1>1, <1>2, <1>3, <1>4, <1>5 DEF Next

\* Files lie in a line, and each page is as written or as planned, at any time.
THEOREM BenchInvariant == Spec => []BenchInv
<1>1. Init => BenchInv
  BY BenchInit
<1>2. BenchInv /\ [Next]_vars => BenchInv'
  BY BenchStep
<1>. QED
  BY <1>1, <1>2, PTL DEF Spec

-----------------------------------------------------------------------------
(* The walk of scan.                                                          *)

\* What a header belongs to: on a page the repack is done with, a file at its new
\* place, elsewhere a file where it was written.
LEMMA HeaderOfFile ==
    ASSUME BenchInv, NEW u \in Units, flash[u].kind = "header"
    PROVE  \E r \in keep :
             /\ flash[u] = Header([r EXCEPT !.off = u, !.dead = FALSE], TRUE, r.dead)
             /\ IF PageOf(u) < page /\ ~Frozen(PageOf(u)) THEN u = to[r] ELSE u = r.off
<1>1. BenchType /\ flash[u] # Erased /\ flash[u] # Junk
  BY DEF BenchInv, Erased, Junk
<1>2. CASE PageOf(u) < page /\ ~Frozen(PageOf(u))
  <2>1. AsPlanned(u)
    BY <1>2 DEF BenchInv, PagesAsDue
  <2>2. PICK r \in keep : u \in NewExtent(r) /\ flash[u] = NewCell(r, u)
    BY <1>1, <2>1 DEF AsPlanned
  <2>3. u = to[r]
    <3>. SUFFICES ASSUME u # to[r] PROVE FALSE
      OBVIOUS
    <3>1. flash[u] = Data(r.ver, u - to[r])
      BY <2>2 DEF NewCell
    <3>. QED
      BY <3>1 DEF Data
  <2>4. flash[u] = HeaderAnew(r, to[r])
    BY <2>2, <2>3 DEF NewCell
  <2>. QED
    BY <1>2, <2>3, <2>4 DEF HeaderAnew
<1>3. CASE ~(PageOf(u) < page /\ ~Frozen(PageOf(u)))
  <2>1. AsWritten(u)
    BY <1>3 DEF BenchInv, PagesAsDue
  <2>2. PICK r \in keep : u \in OldExtent(r) /\ flash[u] = OldCell(r, u)
    BY <1>1, <2>1 DEF AsWritten
  <2>3. u = r.off
    <3>. SUFFICES ASSUME u # r.off PROVE FALSE
      OBVIOUS
    <3>1. flash[u] = Data(r.ver, u - r.off)
      BY <2>2 DEF OldCell
    <3>. QED
      BY <3>1 DEF Data
  <2>4. flash[u] = Header([r EXCEPT !.dead = FALSE], TRUE, r.dead)
    BY <2>2, <2>3 DEF OldCell
  <2>5. [r EXCEPT !.dead = FALSE] = [r EXCEPT !.off = u, !.dead = FALSE]
    BY <1>1, <2>3, BenchFacts DEF BenchFile
  <2>. QED
    BY <1>3, <2>3, <2>4, <2>5
<1>. QED
  BY <1>2, <1>3

\* What the scan accepts has an end in the log, and no header before that.
LEMMA ScanFacts ==
    ASSUME BenchInv, NEW at \in Scan(flash)
    PROVE  /\ at \in Nat /\ End(flash[at].rec) \in Nat
           /\ at < End(flash[at].rec) /\ End(flash[at].rec) <= LogLen
           /\ \A x \in Scan(flash) : ~(at < x /\ x < End(flash[at].rec))
<1>1. at \in Units /\ at \in Nat /\ flash[at].kind = "header" /\ PayloadWhole(flash, flash[at].rec)
      /\ flash[at].rec.off = at
  BY LogFacts DEF Scan, Accepts, HeaderAt
<1>2. PICK r \in keep : flash[at] = Header([r EXCEPT !.off = at, !.dead = FALSE], TRUE, r.dead)
  BY <1>1, HeaderOfFile
<1>3. r \in BenchFile /\ r.len \in Nat
  BY BenchFacts DEF BenchInv
<1>4. flash[at].rec = [r EXCEPT !.off = at, !.dead = FALSE]
  BY <1>2 DEF Header
<1>5. flash[at].rec.len = r.len
  BY <1>3, <1>4 DEF BenchFile
<1>6. End(flash[at].rec) = at + 1 + r.len
  BY <1>1, <1>3, <1>5 DEF End, Size
<1>7. ASSUME NEW x \in Scan(flash), at < x, x < End(flash[at].rec)
      PROVE  FALSE
  <2>1. x \in Nat /\ flash[x].kind = "header"
    BY LogFacts DEF Scan, Accepts, HeaderAt
  <2>2. x - at \in 1 .. r.len /\ x = at + (x - at)
    BY <1>1, <1>3, <1>6, <1>7, <2>1
  <2>3. flash[x] = Data(flash[at].rec.ver, x - at)
    BY <1>1, <1>5, <2>2 DEF PayloadWhole
  <2>. QED
    BY <2>1, <2>3 DEF Data
<1>8. End(flash[at].rec) <= LogLen
  BY <1>1 DEF PayloadWhole
<1>. QED
  BY <1>1, <1>3, <1>6, <1>7, <1>8

\* One step of the walk, given what it finds further on.
WalkStep(w, at) == IF at >= LogLen THEN {}
                   ELSE IF Accepts(flash, at) THEN {at} \cup w[End(flash[at].rec)]
                   ELSE w[at + 1]

From(at) == { x \in Scan(flash) : at <= x }

\* To find all there is from a place on is to take that step and do the same.
LEMMA FromSteps ==
    ASSUME BenchInv, NEW at \in 0 .. LogLen, NEW w,
           \A x \in 0 .. LogLen : at < x => w[x] = From(x)
    PROVE  From(at) = WalkStep(w, at)
<1>1. at \in Nat /\ LogLen \in Nat /\ \A x \in Scan(flash) : x \in Nat /\ x < LogLen
  BY LogFacts DEF Scan
<1>2. CASE at = LogLen
  BY <1>1, <1>2 DEF From, WalkStep
<1>3. CASE at < LogLen /\ Accepts(flash, at)
  <2>1. at \in Scan(flash)
    BY <1>1, <1>3, LogFacts DEF Scan
  <2>. DEFINE end == End(flash[at].rec)
  <2>2. /\ end \in Nat /\ at < end /\ end <= LogLen
        /\ \A x \in Scan(flash) : ~(at < x /\ x < end)
    BY <2>1, ScanFacts
  <2>3. WalkStep(w, at) = {at} \cup w[end]
    BY <1>1, <1>3 DEF WalkStep
  <2>. HIDE DEF end
  <2>4. w[end] = From(end)
    BY <1>1, <2>2
  <2>5. \A x \in Scan(flash) : at <= x <=> x = at \/ end <= x
    BY <1>1, <2>2
  <2>. QED
    BY <2>1, <2>3, <2>4, <2>5 DEF From
<1>4. CASE at < LogLen /\ ~Accepts(flash, at)
  <2>1. at \notin Scan(flash)
    BY <1>4 DEF Scan
  <2>2. WalkStep(w, at) = w[at + 1] /\ w[at + 1] = From(at + 1)
    BY <1>1, <1>4 DEF WalkStep
  <2>3. \A x \in Scan(flash) : at <= x <=> at + 1 <= x
    BY <1>1, <2>1
  <2>. QED
    BY <2>2, <2>3 DEF From
<1>. QED
  BY <1>1, <1>2, <1>3, <1>4

\* The walk is well defined, and it finds what the scan accepts: the last place
\* where it would find something else has none behind it where it does.
LEMMA ScanWalks == BenchInv => ScanIsTheWalk
<1>. SUFFICES ASSUME BenchInv PROVE Scan(flash) = Walk
  BY DEF ScanIsTheWalk
<1>. DEFINE F(w) == [at \in 0 .. LogLen |-> WalkStep(w, at)]
            walk == CHOOSE w : w = F(w)
<1>1. Walk = walk[0]
  BY DEF Walk, WalkStep
<1>2. LogLen \in Nat /\ \A at \in 0 .. LogLen : at \in Nat
  BY LogFacts
<1>3. \E w : w = F(w)
  <2>. DEFINE g == [at \in 0 .. LogLen |-> From(at)]
  <2>1. \A x \in 0 .. LogLen : g[x] = From(x)
    OBVIOUS
  <2>. HIDE DEF g
  <2>2. \A at \in 0 .. LogLen : From(at) = WalkStep(g, at)
    BY <2>1, FromSteps
  <2>3. g = F(g)
    BY <2>2 DEF g
  <2>. QED
    BY <2>3
<1>4. walk = F(walk)
  <2>. HIDE DEF F
  <2>. QED
    BY <1>3
<1>5. \A at \in 0 .. LogLen : walk[at] = WalkStep(walk, at)
  <2>1. \A at \in 0 .. LogLen : F(walk)[at] = WalkStep(walk, at)
    BY DEF F
  <2>. HIDE DEF F, walk
  <2>. QED
    BY <1>4, <2>1
<1>. HIDE DEF F, walk
<1>. DEFINE Bad == { n \in 0 .. LogLen : walk[LogLen - n] # From(LogLen - n) }
<1>6. Bad = {}
  <2>. SUFFICES ASSUME Bad # {} PROVE FALSE
    OBVIOUS
  <2>1. Bad \in SUBSET Nat
    BY <1>2
  <2>. DEFINE n == Min(Bad)
  <2>2. n \in Bad /\ \A m \in Bad : n <= m
    BY <2>1, MinExists
  <2>. HIDE DEF n
  <2>. DEFINE at == LogLen - n
  <2>3. n \in Nat /\ at \in 0 .. LogLen /\ walk[at] # From(at)
    BY <1>2, <2>2
  <2>4. ASSUME NEW x \in 0 .. LogLen, at < x PROVE walk[x] = From(x)
    <3>. SUFFICES ASSUME walk[x] # From(x) PROVE FALSE
      OBVIOUS
    <3>1. LogLen - x \in 0 .. LogLen /\ LogLen - (LogLen - x) = x /\ LogLen - x < n
      BY <1>2, <2>3, <2>4
    <3>2. LogLen - x \in Bad
      BY <3>1
    <3>. QED
      BY <2>2, <2>3, <3>1, <3>2, <1>2
  <2>. HIDE DEF at
  <2>5. From(at) = WalkStep(walk, at)
    BY <2>3, <2>4, FromSteps
  <2>. QED
    BY <1>5, <2>3, <2>5
<1>7. walk[0] = From(0)
  <2>1. LogLen \in 0 .. LogLen /\ LogLen - LogLen = 0
    BY <1>2
  <2>2. LogLen \notin Bad
    BY <1>6
  <2>. QED
    BY <2>1, <2>2
<1>8. From(0) = Scan(flash)
  BY LogFacts DEF From, Scan
<1>. QED
  BY <1>1, <1>7, <1>8

-----------------------------------------------------------------------------
(* The loop of plan.                                                          *)

\* Two places that share a page share it with every place in between that is not
\* past the page.
LEMMA SharedPage ==
    ASSUME NEW off \in Nat, NEW size \in Nat \ {0}, NEW t \in Nat, NEW run \in Nat \ {0},
           PagesOf(off, size) \cap PagesOf(t, run) # {}
    PROVE  /\ t < AlignPage(off + size)
           /\ \A s \in Nat : t <= s /\ s < AlignPage(off + size) =>
                PagesOf(off, size) \cap PagesOf(s, run) # {}
<1>1. PICK u \in Extent(off, size), v \in Extent(t, run) : PageOf(u) = PageOf(v)
  BY DEF PagesOf
<1>2. /\ u \in Nat /\ off <= u /\ u < off + size
      /\ v \in Nat /\ t <= v /\ v < t + run
  BY DEF Extent
<1>3. PICK k \in Nat : AlignPage(off + size) = k * PageSize /\ off + size <= k * PageSize
                       /\ k * PageSize < off + size + PageSize
  BY AlignUp, off + size \in Nat
<1>. DEFINE q == PageOf(u)
<1>4. /\ q \in Nat /\ q * PageSize <= u /\ q * PageSize <= v
      /\ u < q * PageSize + PageSize /\ v < q * PageSize + PageSize
      /\ q * PageSize \in Nat /\ k * PageSize \in Nat /\ PageSize \in Nat
  BY <1>1, <1>2, OnItsPage, PagesInOrder, GeometryAssumption
<1>5. PageOf(u) = q /\ PageOf(v) = q
  BY <1>1
<1>. HIDE DEF q
<1>6. q * PageSize + PageSize <= k * PageSize
  <2>1. ~(k * PageSize <= q * PageSize)
    BY <1>2, <1>3, <1>4
  <2>2. q < k
    BY <1>3, <1>4, <2>1, PagesInOrder
  <2>. QED
    BY <1>3, <1>4, <2>2, PagesInOrder
<1>7. t < k * PageSize
  <2>. DEFINE a == q * PageSize
              b == k * PageSize
  <2>1. a \in Nat /\ b \in Nat /\ PageSize \in Nat /\ v < a + PageSize /\ a + PageSize <= b
    BY <1>4, <1>6
  <2>. HIDE DEF a, b
  <2>2. t < b
    BY <1>2, <2>1
  <2>. QED
    BY <2>2 DEF b
<1>8. ASSUME NEW s \in Nat, t <= s, s < k * PageSize
      PROVE  PagesOf(off, size) \cap PagesOf(s, run) # {}
  <2>. DEFINE p == PageOf(s)
  <2>1. p \in Nat /\ p * PageSize <= s /\ s < p * PageSize + PageSize /\ p * PageSize \in Nat
    BY OnItsPage, PagesInOrder
  <2>2. PageOf(s) = p /\ s \in Extent(s, run)
    BY DEF Extent
  <2>. HIDE DEF p
  <2>3. CASE p < q
    <3>1. s < v
      <4>1. p * PageSize + PageSize <= q * PageSize
        BY <1>4, <2>1, <2>3, PagesInOrder
      <4>. DEFINE a == q * PageSize
                  b == p * PageSize
      <4>2. a \in Nat /\ b \in Nat /\ PageSize \in Nat /\ a <= v /\ s < b + PageSize /\ b + PageSize <= a
        BY <1>4, <2>1, <4>1
      <4>. HIDE DEF a, b
      <4>. QED
        BY <1>2, <4>2
    <3>2. v \in Extent(s, run)
      BY <1>2, <1>8, <3>1 DEF Extent
    <3>. QED
      BY <1>1, <3>2 DEF PagesOf
  <2>4. CASE p = q
    BY <1>5, <2>2, <2>4 DEF PagesOf
  <2>5. CASE q < p
    <3>. DEFINE w == p * PageSize
    <3>1. w \in Nat /\ u < w /\ off <= w
      <4>1. q * PageSize + PageSize <= p * PageSize
        BY <1>4, <2>1, <2>5, PagesInOrder
      <4>. DEFINE a == q * PageSize
      <4>2. a \in Nat /\ w \in Nat /\ PageSize \in Nat /\ u < a + PageSize /\ a + PageSize <= w
        BY <1>4, <2>1, <4>1
      <4>. HIDE DEF a, w
      <4>. QED
        BY <1>2, <4>2
    <3>2. w < off + size
      <4>1. ~(k * PageSize <= p * PageSize)
        BY <1>4, <1>8, <2>1
      <4>2. p * PageSize + PageSize <= k * PageSize
        BY <1>3, <2>1, <4>1, PagesInOrder
      <4>. DEFINE b == k * PageSize
      <4>3. b \in Nat /\ w \in Nat /\ PageSize \in Nat /\ w + PageSize <= b /\ b < off + size + PageSize
        BY <1>3, <1>4, <2>1, <4>2
      <4>. HIDE DEF b, w
      <4>. QED
        BY <4>3
    <3>3. PageOf(w) = p
      BY <2>1, <3>1, OnOnePage, GeometryAssumption
    <3>4. w \in Extent(off, size)
      <4>. HIDE DEF w
      <4>. QED
        BY <3>1, <3>2 DEF Extent
    <3>. QED
      BY <2>2, <3>3, <3>4 DEF PagesOf
  <2>. QED
    BY <1>4, <2>1, <2>3, <2>4, <2>5
<1>. QED
  BY <1>3, <1>7, <1>8

\* The pinned files in the way of a place, the first of them, and the step over it.
InTheWay(t, size) ==
    { r \in keep : r.seq \in pinned /\ PagesOf(r.off, Size(r)) \cap PagesOf(t, size) # {} }
FirstInTheWay(t, size) ==
    CHOOSE r \in InTheWay(t, size) : \A k \in InTheWay(t, size) : r.off <= k.off
Over(t, size) == AlignPage(End(FirstInTheWay(t, size)))
OneStep(t, size) == IF InTheWay(t, size) # {} /\ Over(t, size) > t THEN Over(t, size) ELSE t

\* A frozen page is in the way when a pinned file is.
LEMMA WayIsFrozen ==
    ASSUME NEW t, NEW size
    PROVE  HitsFrozen(keep, pinned, t, size) <=> InTheWay(t, size) # {}
BY DEF HitsFrozen, FrozenPages, InTheWay

\* A step goes up, to the end of a file in the way, and passes no free place.
LEMMA StepUp ==
    ASSUME BenchType, NEW t \in Nat, NEW size \in Nat \ {0}, InTheWay(t, size) # {}
    PROVE  \E r \in keep :
             /\ r.seq \in pinned /\ OneStep(t, size) = AlignPage(End(r))
             /\ t < OneStep(t, size) /\ OneStep(t, size) \in Nat
             /\ \A s \in Nat : t <= s /\ s < OneStep(t, size) => InTheWay(s, size) # {}
<1>. DEFINE r == FirstInTheWay(t, size)
<1>1. r \in InTheWay(t, size)
  <2>. DEFINE offs == { k.off : k \in InTheWay(t, size) }
  <2>1. \A k \in InTheWay(t, size) : k.off \in Nat
    BY BenchFacts DEF InTheWay
  <2>2. Min(offs) \in offs /\ \A n \in offs : Min(offs) <= n
    <3>1. offs \in SUBSET Nat /\ offs # {}
      BY <2>1
    <3>. HIDE DEF offs
    <3>. QED
      BY <3>1, MinExists
  <2>3. PICK x \in InTheWay(t, size) : \A k \in InTheWay(t, size) : x.off <= k.off
    BY <2>2
  <2>. QED
    BY <2>3, Zenon DEF FirstInTheWay
<1>. HIDE DEF r
<1>2. r \in keep /\ r.seq \in pinned /\ PagesOf(r.off, Size(r)) \cap PagesOf(t, size) # {}
  BY <1>1 DEF InTheWay
<1>3. r.off \in Nat /\ Size(r) \in Nat \ {0} /\ End(r) = r.off + Size(r)
  BY <1>2 DEF BenchType, InALine
<1>4. /\ t < AlignPage(End(r))
      /\ \A s \in Nat : t <= s /\ s < AlignPage(End(r)) =>
           PagesOf(r.off, Size(r)) \cap PagesOf(s, size) # {}
  BY <1>2, <1>3, SharedPage
<1>5. AlignPage(End(r)) \in Nat
  BY <1>3, AlignUp, r.off + Size(r) \in Nat
<1>6. OneStep(t, size) = AlignPage(End(r))
  BY <1>4, <1>5 DEF OneStep, Over, r
<1>7. \A s \in Nat : t <= s /\ s < AlignPage(End(r)) => InTheWay(s, size) # {}
  BY <1>2, <1>4 DEF InTheWay
<1>. QED
  BY <1>2, <1>4, <1>5, <1>6, <1>7

Steps == 0 .. Cardinality(keep) + 1
Looping(l, dst, size) == [n \in Steps |-> IF n = 0 THEN dst ELSE OneStep(l[n - 1], size)]

\* The loop is well defined: a run of it that is right up to a step can be made
\* right at the next.
LEMMA LoopSolves ==
    ASSUME BenchType, NEW dst, NEW size
    PROVE  \E l : l = Looping(l, dst, size)
<1>. DEFINE N == Cardinality(keep) + 1
            Right(l, m) == l = [n \in Steps |-> IF n = 0 THEN dst
                                                ELSE IF n <= m THEN OneStep(l[n - 1], size) ELSE 0]
            Bad == { m \in Nat : ~\E l : Right(l, m) }
<1>1. N \in Nat /\ Steps = 0 .. N
  BY FS_CardinalityType DEF BenchType, Steps
<1>. HIDE DEF N
<1>2. Bad = {}
  <2>. SUFFICES ASSUME Bad # {} PROVE FALSE
    OBVIOUS
  <2>. DEFINE m == Min(Bad)
  <2>1. m \in Bad /\ \A k \in Bad : m <= k
    BY MinExists, Bad \in SUBSET Nat
  <2>. HIDE DEF m
  <2>2. CASE m = 0
    <3>. DEFINE f == [n \in Steps |-> IF n = 0 THEN dst ELSE 0]
    <3>1. \A n \in Steps : (n <= 0 => n = 0) /\ n \in Nat
      BY <1>1
    <3>2. f = [n \in Steps |-> IF n = 0 THEN dst ELSE IF n <= 0 THEN OneStep(f[n - 1], size) ELSE 0]
      BY <3>1
    <3>. HIDE DEF f
    <3>3. Right(f, 0)
      BY <3>2
    <3>. QED
      BY <2>1, <2>2, <3>3
  <2>3. CASE m # 0
    <3>1. m \in Nat /\ m - 1 \in Nat /\ m - 1 \notin Bad
      BY <2>1, <2>3
    <3>2. PICK f : Right(f, m - 1)
      BY <3>1
    <3>. DEFINE g == [n \in Steps |-> IF n = m THEN OneStep(f[m - 1], size) ELSE f[n]]
    <3>3. ASSUME NEW n \in Steps
          PROVE  g[n] = IF n = 0 THEN dst ELSE IF n <= m THEN OneStep(g[n - 1], size) ELSE 0
      <4>1. /\ f[n] = IF n = 0 THEN dst ELSE IF n <= m - 1 THEN OneStep(f[n - 1], size) ELSE 0
            /\ g[n] = IF n = m THEN OneStep(f[m - 1], size) ELSE f[n]
        BY <3>2
      <4>2. n \in Nat /\ (n # 0 => n - 1 \in Steps)
        BY <1>1
      <4>3. n # 0 /\ n <= m => g[n - 1] = f[n - 1]
        BY <3>1, <4>2
      <4>. HIDE DEF g
      <4>4. CASE n = m
        BY <2>3, <3>1, <4>1, <4>2, <4>3, <4>4
      <4>5. CASE n # m
        BY <3>1, <4>1, <4>2, <4>3, <4>5
      <4>. QED
        BY <4>4, <4>5
    <3>4. g = [n \in Steps |-> g[n]]
      OBVIOUS
    <3>. HIDE DEF g
    <3>5. Right(g, m)
      BY <3>3, <3>4
    <3>. QED
      BY <2>1, <3>5
  <2>. QED
    BY <2>2, <2>3
<1>3. PICK l : Right(l, N)
  BY <1>1, <1>2
<1>4. [n \in Steps |-> IF n = 0 THEN dst ELSE IF n <= N THEN OneStep(l[n - 1], size) ELSE 0]
        = Looping(l, dst, size)
  BY <1>1 DEF Looping
<1>. QED
  BY <1>3, <1>4

\* So the loop of plan is that recursion.
LEMMA SteppedIs ==
    ASSUME BenchType, NEW dst, NEW size
    PROVE  \E l : /\ Stepped(dst, size) = l[Cardinality(keep) + 1]
                  /\ \A n \in Steps : l[n] = IF n = 0 THEN dst ELSE OneStep(l[n - 1], size)
<1>. DEFINE l == CHOOSE f : f = Looping(f, dst, size)
<1>1. Stepped(dst, size) = l[Cardinality(keep) + 1]
  BY DEF Stepped, Looping, Steps, OneStep, Over, FirstInTheWay, InTheWay
<1>2. l = Looping(l, dst, size)
  BY LoopSolves
<1>. HIDE DEF l
<1>3. \A n \in Steps : Looping(l, dst, size)[n] = IF n = 0 THEN dst ELSE OneStep(l[n - 1], size)
  BY DEF Looping
<1>. QED
  BY <1>1, <1>2, <1>3

\* The files whose end a place is not past yet.
Ahead(t) == { r \in keep : t < AlignPage(End(r)) }
Starts(dst) == {dst} \cup { AlignPage(End(r)) : r \in { k \in keep : k.seq \in pinned } }

\* How far n steps have come.
Come(t, n, dst, size) ==
    /\ t \in Nat /\ dst <= t /\ t \in Starts(dst)
    /\ \A s \in Nat : dst <= s /\ s < t => InTheWay(s, size) # {}
    /\ InTheWay(t, size) = {} \/ Cardinality(Ahead(t)) + n <= Cardinality(keep)

\* One more comes further, or stays where nothing is in the way.
LEMMA ComeFurther ==
    ASSUME BenchType, NEW dst \in Nat, NEW size \in Nat \ {0}, NEW n \in Nat, NEW t,
           Come(t, n, dst, size)
    PROVE  Come(OneStep(t, size), n + 1, dst, size)
<1>1. t \in Nat
  BY DEF Come
<1>2. CASE InTheWay(t, size) = {}
  <2>1. OneStep(t, size) = t
    BY <1>2 DEF OneStep
  <2>. QED
    BY <1>2, <2>1 DEF Come
<1>3. CASE InTheWay(t, size) # {}
  <2>. DEFINE next == OneStep(t, size)
  <2>1. PICK r \in keep :
          /\ r.seq \in pinned /\ next = AlignPage(End(r))
          /\ t < next /\ next \in Nat
          /\ \A s \in Nat : t <= s /\ s < next => InTheWay(s, size) # {}
    BY <1>1, <1>3, StepUp
  <2>. HIDE DEF next
  <2>2. next \in Starts(dst) /\ dst <= next
    BY <1>1, <2>1 DEF Starts, Come
  <2>3. \A s \in Nat : dst <= s /\ s < next => InTheWay(s, size) # {}
    BY <1>1, <2>1 DEF Come
  <2>4. Cardinality(Ahead(next)) + (n + 1) <= Cardinality(keep)
    <3>1. IsFiniteSet(keep) /\ \A k \in keep : AlignPage(End(k)) \in Nat
      <4>1. \A k \in keep : End(k) \in Nat
        BY BenchFacts
      <4>. QED
        BY <4>1, AlignUp DEF BenchType
    <3>2. r \in Ahead(t) /\ Ahead(next) \subseteq Ahead(t) \ {r}
      BY <1>1, <2>1, <3>1 DEF Ahead
    <3>3. IsFiniteSet(Ahead(t)) /\ IsFiniteSet(Ahead(t) \ {r})
      BY <3>1, FS_Subset DEF Ahead
    <3>4. /\ Cardinality(Ahead(t) \ {r}) = Cardinality(Ahead(t)) - 1
          /\ Cardinality(Ahead(next)) <= Cardinality(Ahead(t) \ {r})
          /\ IsFiniteSet(Ahead(next))
      BY <3>2, <3>3, FS_RemoveElement, FS_Subset
    <3>5. /\ Cardinality(Ahead(t)) \in Nat /\ Cardinality(Ahead(next)) \in Nat
          /\ Cardinality(keep) \in Nat
      BY <3>1, <3>3, <3>4, FS_CardinalityType
    <3>6. Cardinality(Ahead(t)) + n <= Cardinality(keep)
      BY <1>3 DEF Come
    <3>. QED
      BY <3>4, <3>5, <3>6
  <2>5. Come(next, n + 1, dst, size)
    BY <2>1, <2>2, <2>3, <2>4 DEF Come
  <2>. QED
    BY <2>5 DEF next
<1>. QED
  BY <1>2, <1>3

\* With as many steps as there are files, and one, the loop ends at the lowest
\* place that has no frozen page.
LEMMA StepOverLoops ==
    ASSUME BenchType, NEW dst \in Nat, NEW size \in Nat \ {0}
    PROVE  StepOver(keep, pinned, dst, size) = Stepped(dst, size)
<1>. DEFINE N == Cardinality(keep) + 1
<1>1. N \in Nat /\ Steps = 0 .. N /\ Cardinality(keep) \in Nat /\ IsFiniteSet(keep)
  BY FS_CardinalityType DEF BenchType, Steps
<1>2. PICK l : /\ Stepped(dst, size) = l[N]
               /\ \A n \in Steps : l[n] = IF n = 0 THEN dst ELSE OneStep(l[n - 1], size)
  BY SteppedIs
<1>. HIDE DEF N
<1>. DEFINE Bad == { n \in Steps : ~Come(l[n], n, dst, size) }
<1>3. Bad = {}
  <2>. SUFFICES ASSUME Bad # {} PROVE FALSE
    OBVIOUS
  <2>. DEFINE n == Min(Bad)
  <2>1. n \in Bad /\ \A m \in Bad : n <= m
    BY <1>1, MinExists, Bad \in SUBSET Nat
  <2>. HIDE DEF n
  <2>2. n \in Steps /\ n \in Nat /\ ~Come(l[n], n, dst, size)
    BY <1>1, <2>1
  <2>3. CASE n = 0
    <3>1. l[n] = dst
      BY <1>2, <2>2, <2>3
    <3>2. Cardinality(Ahead(dst)) <= Cardinality(keep) /\ Cardinality(Ahead(dst)) \in Nat
      BY <1>1, FS_Subset, FS_CardinalityType DEF Ahead
    <3>3. Come(dst, 0, dst, size)
      BY <1>1, <3>2 DEF Come, Starts
    <3>. QED
      BY <2>2, <2>3, <3>1, <3>3
  <2>4. CASE n # 0
    <3>1. n - 1 \in Steps /\ n - 1 \in Nat /\ n - 1 \notin Bad
      BY <1>1, <2>1, <2>2, <2>4
    <3>2. Come(l[n - 1], n - 1, dst, size)
      BY <3>1
    <3>3. Come(OneStep(l[n - 1], size), (n - 1) + 1, dst, size)
      BY <3>1, <3>2, ComeFurther
    <3>4. l[n] = OneStep(l[n - 1], size) /\ (n - 1) + 1 = n
      BY <1>2, <2>2, <2>4
    <3>. QED
      BY <2>2, <3>3, <3>4
  <2>. QED
    BY <2>3, <2>4
<1>. DEFINE t == l[N]
<1>4. Come(t, N, dst, size)
  BY <1>1, <1>3
<1>. HIDE DEF t, Bad
<1>5. t \in Nat /\ InTheWay(t, size) = {}
  <2>1. t \in Nat /\ IsFiniteSet(Ahead(t))
    BY <1>1, <1>4, FS_Subset DEF Come, Ahead
  <2>2. Cardinality(Ahead(t)) \in Nat
    BY <2>1, FS_CardinalityType
  <2>. QED
    BY <1>1, <1>4, <2>1, <2>2 DEF Come, N
<1>. DEFINE free == { s \in Starts(dst) : s >= dst /\ ~HitsFrozen(keep, pinned, s, size) }
<1>6. t \in free /\ free \in SUBSET Nat
  <2>1. Starts(dst) \subseteq Nat
    <3>1. \A k \in keep : AlignPage(End(k)) \in Nat
      <4>1. \A k \in keep : End(k) \in Nat
        BY BenchFacts
      <4>. QED
        BY <4>1, AlignUp
    <3>. QED
      BY <3>1 DEF Starts
  <2>2. t \in free
    BY <1>4, <1>5, WayIsFrozen DEF Come
  <2>. QED
    BY <2>1, <2>2
<1>7. \A s \in free : s \in Nat /\ t <= s
  BY <1>4, <1>5, <1>6, WayIsFrozen DEF Come
<1>8. StepOver(keep, pinned, dst, size) = IF free = {} THEN NoPlace ELSE Min(free)
  BY DEF StepOver, Starts
<1>. HIDE DEF free
<1>9. Min(free) \in free /\ Min(free) <= t
  BY <1>6, MinExists
<1>10. Min(free) = t
  BY <1>5, <1>7, <1>9
<1>. QED
  BY <1>2, <1>6, <1>8, <1>10 DEF t

\* What the store model takes for scan and plan is what their loops compute, on
\* every log, half repacked ones included.
THEOREM LoopsAreTheOperators == Spec => []OperatorsAreTheLoops
<1>1. BenchInv => OperatorsAreTheLoops
  <2>. SUFFICES ASSUME BenchInv PROVE OperatorsAreTheLoops
    OBVIOUS
  <2>1. ScanIsTheWalk
    BY ScanWalks
  <2>2. StepOverIsTheLoop
    <3>. SUFFICES ASSUME NEW dst \in Units, NEW size \in { 1 + l : l \in Lens }
                  PROVE  StepOver(keep, pinned, dst, size) = Stepped(dst, size)
      BY DEF StepOverIsTheLoop
    <3>1. dst \in Nat /\ size \in Nat \ {0}
      BY LogFacts, BenchAssumption
    <3>. QED
      BY <3>1, StepOverLoops DEF BenchInv
  <2>. QED
    BY <2>1, <2>2 DEF OperatorsAreTheLoops
<1>. QED
  BY <1>1, BenchInvariant, PTL

-----------------------------------------------------------------------------
(* Compaction.                                                                *)

\* The pages to sweep are those between the packed end and the old one.
LEMMA SweepIsTheGap ==
    ASSUME BenchType, NEW p
    PROVE  p \in SweepPages(keep, to, Filled) <=>
           p \in AlignPage(Packed(keep, to)) \div PageSize .. AlignPage(Filled) \div PageSize - 1
<1>. DEFINE end == Packed(keep, to)
<1>1. /\ end \in Nat /\ end <= LogLen /\ \A r \in keep : to[r] + Size(r) <= end
      /\ keep # {} => \E r \in keep : to[r] + Size(r) = end
      /\ keep = {} => end = 0
  BY PackedFacts DEF Packed
<1>2. Filled \in Nat /\ Filled <= LogLen
  BY FilledIs
<1>. HIDE DEF end
<1>3. PICK a \in Nat : /\ AlignPage(end) = a * PageSize /\ AlignPage(end) \div PageSize = a
                       /\ end <= a * PageSize /\ a * PageSize < end + PageSize
  BY <1>1, AlignUp
<1>4. PICK b \in Nat : /\ AlignPage(Filled) = b * PageSize /\ AlignPage(Filled) \div PageSize = b
                       /\ Filled <= b * PageSize /\ b * PageSize < Filled + PageSize
  BY <1>2, AlignUp
<1>5. \A r \in keep : to[r] + Size(r) \in Nat
  BY PlanFacts
<1>6. ASSUME p \in Nat
      PROVE  /\ end <= p * PageSize <=> a <= p
             /\ p * PageSize < Filled <=> p < b
             /\ p * PageSize \in Nat
  <2>. DEFINE x == p * PageSize
              A == a * PageSize
              B == b * PageSize
  <2>1. x \in Nat /\ A \in Nat /\ B \in Nat /\ PageSize \in Nat
    BY <1>6, PagesInOrder, GeometryAssumption
  <2>2. /\ a <= p => A <= x
        /\ p < a => x + PageSize <= A
        /\ p < b => x + PageSize <= B
        /\ b <= p => B <= x
    BY <1>6, PagesInOrder
  <2>3. end <= A /\ A < end + PageSize /\ Filled <= B /\ B < Filled + PageSize
    BY <1>3, <1>4
  <2>. HIDE DEF x, A, B
  <2>4. /\ end <= x <=> a <= p
        /\ x < Filled <=> p < b
    BY <1>1, <1>2, <1>6, <2>1, <2>2, <2>3
  <2>. QED
    BY <2>1, <2>4 DEF x
<1>7. ASSUME p \in Nat
      PROVE  (\A r \in keep : to[r] + Size(r) <= p * PageSize) <=> end <= p * PageSize
  BY <1>1, <1>5, <1>6, <1>7
<1>8. ASSUME p \in Nat, p < b PROVE p < NumPages
  <2>1. p * PageSize < LogLen /\ p * PageSize \in Nat
    BY <1>2, <1>6, <1>8, LogFacts
  <2>2. ~(NumPages <= p)
    BY <1>8, <2>1, PagesInOrder, GeometryAssumption DEF LogLen
  <2>. QED
    BY <1>8, <2>2, GeometryAssumption
<1>9. p \in SweepPages(keep, to, Filled) <=> p \in Nat /\ a <= p /\ p < b
  <2>1. p \in Pages <=> p \in Nat /\ p < NumPages
    BY GeometryAssumption DEF Pages
  <2>2. p \in SweepPages(keep, to, Filled) <=>
          /\ p \in Pages /\ p * PageSize < Filled
          /\ \A r \in keep : to[r] + Size(r) <= p * PageSize
    BY DEF SweepPages
  <2>. QED
    BY <1>6, <1>7, <1>8, <2>1, <2>2
<1>10. p \in a .. b - 1 <=> p \in Nat /\ a <= p /\ p < b
  OBVIOUS
<1>11. AlignPage(Packed(keep, to)) \div PageSize = a /\ AlignPage(Filled) \div PageSize = b
  BY <1>3, <1>4 DEF end
<1>. QED
  BY <1>9, <1>10, <1>11

\* So every log has a plan.
LEMMA AlwaysPlanned == BenchType => PlanIsTotal
<1>. SUFFICES ASSUME BenchType PROVE PlanIsTotal
  OBVIOUS
<1>1. PlanHolds(keep, pinned, to) /\ \A r \in keep : to[r] <= r.off
  BY PlanFacts
<1>2. SweepPages(keep, to, Filled)
        = AlignPage(Packed(keep, to)) \div PageSize .. AlignPage(Filled) \div PageSize - 1
  BY SweepIsTheGap
<1>. QED
  BY <1>1, <1>2 DEF PlanIsTotal

\* A file stays where it is when its new place has a unit on a frozen page.
LEMMA FrozenStays ==
    ASSUME BenchType, NEW r \in keep, NEW u \in NewExtent(r), Frozen(PageOf(u))
    PROVE  to[r] = r.off
<1>1. PageOf(u) \in PagesOf(to[r], Size(r))
  BY DEF PagesOf, NewExtent
<1>2. HitsFrozen(keep, pinned, to[r], Size(r))
  BY <1>1 DEF HitsFrozen, Frozen
<1>. QED
  BY <1>2, PlanFacts DEF PlanHolds

\* In the end every unit of a new place holds what the plan puts there, frozen
\* pages included.
LEMMA DoneAsPlanned ==
    ASSUME BenchInv, phase = "done", NEW r \in keep, NEW u \in NewExtent(r)
    PROVE  flash[u] = NewCell(r, u)
<1>1. u \in Units /\ u \in Nat /\ u < LogLen /\ PageOf(u) \in Nat /\ page = NumPages /\ BenchType
  BY NewUnit, OnItsPage, LogFacts DEF BenchInv, BenchType
<1>2. PageOf(u) < page
  <2>. DEFINE q == PageOf(u)
  <2>1. q \in Nat /\ q * PageSize <= u /\ q * PageSize \in Nat
    BY <1>1, OnItsPage, PagesInOrder
  <2>. HIDE DEF q
  <2>2. ~(NumPages <= q)
    BY <1>1, <2>1, PagesInOrder, LogFacts, GeometryAssumption DEF LogLen
  <2>3. q < NumPages
    BY <2>1, <2>2, GeometryAssumption
  <2>. QED
    BY <1>1, <2>3 DEF q
<1>3. CASE ~Frozen(PageOf(u))
  BY <1>1, <1>2, <1>3 DEF BenchInv, PagesAsDue, AsPlanned
<1>4. CASE Frozen(PageOf(u))
  <2>1. to[r] = r.off
    BY <1>1, <1>4, FrozenStays
  <2>2. AsWritten(u) /\ u \in OldExtent(r)
    BY <1>1, <1>4, <2>1 DEF BenchInv, PagesAsDue, OldExtent, NewExtent
  <2>3. flash[u] = OldCell(r, u)
    BY <2>2 DEF AsWritten
  <2>4. [r EXCEPT !.dead = FALSE] = [r EXCEPT !.off = to[r], !.dead = FALSE]
    BY <1>1, <2>1, BenchFacts DEF BenchFile
  <2>. QED
    BY <2>1, <2>3, <2>4 DEF OldCell, NewCell, HeaderAnew
<1>. QED
  BY <1>3, <1>4

\* A finished repack holds what it had to keep; what else it holds are old copies
\* on frozen pages.
LEMMA RepackKeeps == BenchInv => RepackKeepsAll
<1>. SUFFICES ASSUME BenchInv, phase = "done" PROVE RepackKeepsAll
  BY DEF RepackKeepsAll
<1>. DEFINE wanted == { [r EXCEPT !.off = to[r]] : r \in keep }
<1>1. BenchType /\ page = NumPages
  BY DEF BenchInv, BenchType
<1>2. ASSUME NEW r \in keep
      PROVE  [r EXCEPT !.off = to[r]] \in Emitted(flash)
  <2>. DEFINE at == to[r]
              rec == [r EXCEPT !.off = at, !.dead = FALSE]
  <2>1. /\ r \in BenchFile /\ r.len \in Nat /\ Size(r) = 1 + r.len
        /\ at \in Nat /\ at \in Units /\ at + Size(r) <= LogLen
    BY <1>1, BenchFacts, PlanFacts
  <2>2. /\ rec.off = at /\ rec.len = r.len /\ rec.ver = r.ver
        /\ [rec EXCEPT !.dead = r.dead] = [r EXCEPT !.off = at]
    BY <2>1 DEF BenchFile
  <2>3. NewExtent(r) = at .. at + (1 + r.len) - 1
    BY <2>1 DEF NewExtent, Extent
  <2>. HIDE DEF at
  <2>4. at \in NewExtent(r) /\ \A i \in 1 .. r.len : at + i \in NewExtent(r) /\ at + i # at
    BY <2>1, <2>3
  <2>5. flash[at] = Header(rec, TRUE, r.dead)
    <3>1. flash[at] = NewCell(r, at)
      BY <2>4, DoneAsPlanned
    <3>. QED
      BY <3>1 DEF NewCell, HeaderAnew, at
  <2>6. ASSUME NEW i \in 1 .. r.len
        PROVE  flash[at + i] = Data(r.ver, i)
    <3>1. flash[at + i] = NewCell(r, at + i)
      BY <2>4, DoneAsPlanned
    <3>2. (at + i) - at = i
      BY <2>1
    <3>3. NewCell(r, at + i) = Data(r.ver, (at + i) - at)
      BY <2>4 DEF NewCell, at
    <3>. QED
      BY <3>1, <3>2, <3>3
  <2>. HIDE DEF rec
  <2>7. flash[at].kind = "header" /\ flash[at].rec = rec /\ flash[at].commit /\ flash[at].dead = r.dead
    BY <2>5 DEF Header
  <2>8. Accepts(flash, at)
    <3>1. End(rec) <= LogLen
      BY <2>1, <2>2 DEF End, Size
    <3>2. \A i \in 1 .. rec.len : flash[rec.off + i] = Data(rec.ver, i)
      BY <2>2, <2>6
    <3>. QED
      BY <2>2, <2>7, <3>1, <3>2 DEF Accepts, HeaderAt, PayloadWhole
  <2>9. at \in Scan(flash)
    BY <2>1, <2>8 DEF Scan
  <2>10. [rec EXCEPT !.dead = r.dead] \in Emitted(flash)
    BY <2>7, <2>9 DEF Emitted
  <2>. QED
    BY <2>2, <2>10 DEF at
<1>3. ASSUME NEW e \in Emitted(flash), e \notin wanted
      PROVE  e \in keep /\ HitsFrozen(keep, pinned, e.off, Size(e))
  <2>1. PICK at \in Scan(flash) : e = [flash[at].rec EXCEPT !.dead = flash[at].dead]
    BY DEF Emitted
  <2>2. at \in Units /\ flash[at].kind = "header"
    BY DEF Scan, Accepts, HeaderAt
  <2>3. PICK r \in keep :
          /\ flash[at] = Header([r EXCEPT !.off = at, !.dead = FALSE], TRUE, r.dead)
          /\ IF PageOf(at) < page /\ ~Frozen(PageOf(at)) THEN at = to[r] ELSE at = r.off
    BY <2>2, HeaderOfFile
  <2>4. flash[at].rec = [r EXCEPT !.off = at, !.dead = FALSE] /\ flash[at].dead = r.dead
    BY <2>3 DEF Header
  <2>5. r \in BenchFile /\ r.off \in Nat /\ Size(r) \in Nat /\ Size(r) > 0
    BY <1>1, BenchFacts
  <2>6. e = [r EXCEPT !.off = at]
    <3>1. e = [[r EXCEPT !.off = at, !.dead = FALSE] EXCEPT !.dead = r.dead]
      BY <2>1, <2>4
    <3>. QED
      BY <2>5, <3>1 DEF BenchFile
  <2>7. at # to[r]
    BY <1>3, <2>6
  <2>8. at = r.off /\ ~(PageOf(at) < page /\ ~Frozen(PageOf(at)))
    BY <2>3, <2>7
  <2>9. e = r
    BY <2>5, <2>6, <2>8 DEF BenchFile
  <2>10. PageOf(at) < page
    <3>. DEFINE q == PageOf(at)
    <3>1. q \in Nat /\ q * PageSize <= at /\ q * PageSize \in Nat /\ at \in Nat /\ at < LogLen
      BY <2>2, OnItsPage, PagesInOrder, LogFacts
    <3>. HIDE DEF q
    <3>2. ~(NumPages <= q)
      BY <3>1, PagesInOrder, LogFacts, GeometryAssumption DEF LogLen
    <3>3. q < NumPages
      BY <3>1, <3>2, GeometryAssumption
    <3>. QED
      BY <1>1, <3>3 DEF q
  <2>11. PageOf(at) \in PagesOf(r.off, Size(r))
    <3>1. at \in Extent(r.off, Size(r))
      BY <2>5, <2>8 DEF Extent
    <3>. QED
      BY <3>1 DEF PagesOf
  <2>. QED
    BY <2>8, <2>9, <2>10, <2>11 DEF HitsFrozen, Frozen
<1>. QED
  BY <1>2, <1>3 DEF RepackKeepsAll

\* A compaction is a total function of the log, and keeps every file, whatever is
\* pinned, and whatever lies in the gaps.
THEOREM CompactionKeepsEveryFile == Spec => []CompactionIsSound
<1>1. BenchInv => CompactionIsSound
  BY AlwaysPlanned, RepackKeeps DEF CompactionIsSound, BenchInv
<1>. QED
  BY <1>1, BenchInvariant, PTL

-----------------------------------------------------------------------------
(* Room.                                                                      *)

\* In the end a page is erased exactly when no new place reaches it.
LEMMA ErasedIsUncovered ==
    ASSUME BenchInv, phase = "done", NEW q \in Pages
    PROVE  PageErased(flash, q) <=> q \notin Covered(keep, to)
<1>1. BenchType /\ page = NumPages /\ q \in Nat /\ q < NumPages
  BY GeometryAssumption DEF BenchInv, BenchType, Pages
<1>2. ASSUME q \in Covered(keep, to)
      PROVE  ~PageErased(flash, q)
  <2>1. PICK r \in keep : q \in PagesOf(to[r], Size(r))
    BY <1>2 DEF Covered
  <2>2. PICK u \in NewExtent(r) : PageOf(u) = q
    BY <2>1 DEF PagesOf, NewExtent
  <2>3. u \in PageUnits(q)
    BY <1>1, <2>2, NewUnit DEF PageUnits
  <2>4. flash[u] = NewCell(r, u)
    BY DoneAsPlanned
  <2>5. NewCell(r, u) # Erased
    BY DEF NewCell, HeaderAnew, Header, Data, Erased
  <2>. QED
    BY <2>3, <2>4, <2>5 DEF PageErased, ErasedRange
<1>3. ASSUME q \notin Covered(keep, to)
      PROVE  PageErased(flash, q)
  <2>1. ~Frozen(q)
    <3>. SUFFICES ASSUME Frozen(q) PROVE FALSE
      OBVIOUS
    <3>1. PICK r \in keep : r.seq \in pinned /\ q \in PagesOf(r.off, Size(r))
      BY DEF Frozen, FrozenPages
    <3>2. to[r] = r.off
      BY <1>1, <3>1, PlanFacts DEF PlanHolds
    <3>. QED
      BY <1>3, <3>1, <3>2 DEF Covered
  <2>2. ASSUME NEW u \in PageUnits(q)
        PROVE  u \in Units /\ flash[u] = Erased
    <3>1. u \in Units /\ PageOf(u) = q
      BY DEF PageUnits
    <3>2. AsPlanned(u)
      BY <1>1, <2>1, <3>1 DEF BenchInv, PagesAsDue
    <3>3. \A r \in keep : u \notin NewExtent(r)
      BY <1>3, <3>1 DEF Covered, PagesOf, NewExtent
    <3>. QED
      BY <3>1, <3>2, <3>3 DEF AsPlanned
  <2>. QED
    BY <2>2 DEF PageErased, ErasedRange
<1>. QED
  BY <1>2, <1>3

\* So the free run that is promised is the one that comes of it.
LEMMA FreeRunComes == BenchInv => FreeRunIsExact
<1>. SUFFICES ASSUME BenchInv, phase = "done" PROVE FreeRunIsExact
  BY DEF FreeRunIsExact
<1>. DEFINE left == { n \in 0 .. NumPages : \E p \in 0 .. NumPages :
                        p + n <= NumPages /\ \A q \in p .. p + n - 1 : PageErased(flash, q) }
            said == { n \in 0 .. NumPages : \E p \in 0 .. NumPages :
                        p + n <= NumPages /\ (p .. p + n - 1) \cap Covered(keep, to) = {} }
<1>1. ASSUME NEW n \in 0 .. NumPages, NEW p \in 0 .. NumPages, p + n <= NumPages
      PROVE  (\A q \in p .. p + n - 1 : PageErased(flash, q))
               <=> (p .. p + n - 1) \cap Covered(keep, to) = {}
  <2>1. \A q \in p .. p + n - 1 : q \in Pages
    BY <1>1, GeometryAssumption DEF Pages
  <2>2. \A q \in p .. p + n - 1 : PageErased(flash, q) <=> q \notin Covered(keep, to)
    BY <2>1, ErasedIsUncovered
  <2>. QED
    BY <2>2
<1>2. left = said
  BY <1>1
<1>3. FreeRunAfter(keep, to) = Max(said) * PageSize
  BY DEF FreeRunAfter
<1>. QED
  BY <1>2, <1>3 DEF FreeRunIsExact

\* The cursor is past every file the scan finds.
LEMMA CursorPast ==
    ASSUME BenchInv
    PROVE  /\ ScanCursor(flash) \in Nat
           /\ \A r \in Emitted(flash) : /\ r.off \in Nat /\ Size(r) \in Nat
                                        /\ r.off + Size(r) <= ScanCursor(flash)
<1>. DEFINE ends == { End(flash[at].rec) : at \in Scan(flash) }
<1>1. \A e \in ends : e \in Nat /\ e <= LogLen
  BY ScanFacts
<1>2. ScanCursor(flash) = IF ends = {} THEN 0 ELSE Max(ends)
  BY DEF ScanCursor
<1>3. \A at \in Scan(flash) : End(flash[at].rec) \in ends
  OBVIOUS
<1>. HIDE DEF ends
<1>4. ScanCursor(flash) \in Nat /\ \A e \in ends : e <= ScanCursor(flash)
  <2>1. IsFiniteSet(ends) /\ ends \in SUBSET Nat
    BY <1>1, LogFacts, FS_BoundedSetOfNaturals
  <2>2. CASE ends = {}
    BY <1>2, <2>2
  <2>3. CASE ends # {}
    <3>1. Max(ends) \in ends /\ \A e \in ends : e <= Max(ends)
      BY <2>1, <2>3, MaxExists
    <3>2. ScanCursor(flash) = Max(ends)
      BY <1>2, <2>3
    <3>. QED
      BY <2>1, <3>1, <3>2
  <2>. QED
    BY <2>2, <2>3
<1>5. ASSUME NEW at \in Scan(flash)
      PROVE  LET r == [flash[at].rec EXCEPT !.dead = flash[at].dead]
             IN  r.off \in Nat /\ Size(r) \in Nat /\ r.off + Size(r) <= ScanCursor(flash)
  <2>1. at \in Units /\ at \in Nat /\ flash[at].kind = "header"
    BY LogFacts DEF Scan, Accepts, HeaderAt
  <2>2. PICK r \in keep : flash[at] = Header([r EXCEPT !.off = at, !.dead = FALSE], TRUE, r.dead)
    BY <2>1, HeaderOfFile
  <2>3. r \in BenchFile /\ r.len \in Nat
    BY BenchFacts DEF BenchInv
  <2>4. flash[at].rec = [r EXCEPT !.off = at, !.dead = FALSE] /\ flash[at].dead = r.dead
    BY <2>2 DEF Header
  <2>. DEFINE e == [flash[at].rec EXCEPT !.dead = flash[at].dead]
  <2>5. /\ e.off = at /\ e.len = r.len
        /\ flash[at].rec.off = at /\ flash[at].rec.len = r.len
    BY <2>3, <2>4 DEF BenchFile
  <2>. HIDE DEF e
  <2>6. Size(e) = 1 + r.len /\ End(flash[at].rec) = at + (1 + r.len)
    BY <2>5 DEF Size, End
  <2>7. End(flash[at].rec) <= ScanCursor(flash)
    BY <1>3, <1>4
  <2>8. e.off \in Nat /\ Size(e) \in Nat /\ e.off + Size(e) <= ScanCursor(flash)
    BY <2>1, <2>3, <2>5, <2>6, <2>7
  <2>. QED
    BY <2>8 DEF e
<1>. QED
  BY <1>4, <1>5 DEF Emitted

\* A placement touches no file, and one below the cursor only erased units.
LEMMA PlacesAreFree == BenchInv => PlacementIsSafe
<1>. SUFFICES ASSUME BenchInv, NEW size \in { 1 + l : l \in Lens }
              PROVE  LET tail == Place(flash, ScanCursor(flash), size)
                         Touched(at) == at .. AlignPage(at + size) - 1
                         Held == UNION { Extent(r.off, Size(r)) : r \in Emitted(flash) }
                     IN  /\ tail # NoPlace => Touched(tail) \subseteq Units \ Held
                         /\ \A hint \in 0 .. LogLen :
                              LET at == PlaceFree(flash, hint, size)
                              IN  at # NoPlace => ErasedRange(flash, Touched(at))
  BY DEF PlacementIsSafe
<1>. DEFINE cursor == ScanCursor(flash)
            tail == Place(flash, cursor, size)
<1>1. size \in Nat \ {0}
  BY BenchAssumption
<1>2. /\ cursor \in Nat
      /\ \A r \in Emitted(flash) : r.off \in Nat /\ Size(r) \in Nat /\ r.off + Size(r) <= cursor
  BY CursorPast
<1>3. ASSUME tail # NoPlace, NEW u \in tail .. AlignPage(tail + size) - 1
      PROVE  u \in Units /\ \A r \in Emitted(flash) : u \notin Extent(r.off, Size(r))
  <2>. HIDE DEF cursor
  <2>1. tail \in Units /\ tail + size <= LogLen /\ cursor <= tail
    BY <1>1, <1>2, <1>3, PlaceFits, PlaceAbove
  <2>. HIDE DEF tail
  <2>2. tail \in Nat /\ tail + size \in Nat
    BY <1>1, <2>1, LogFacts
  <2>3. PICK k \in Nat : /\ AlignPage(tail + size) = k * PageSize
                         /\ k * PageSize < tail + size + PageSize /\ k * PageSize \in Nat
    BY <2>2, AlignUp
  <2>4. k * PageSize <= LogLen
    <3>1. NumPages \in Nat /\ PageSize \in Nat /\ LogLen = NumPages * PageSize /\ LogLen \in Nat
      BY LogFacts, GeometryAssumption DEF LogLen
    <3>2. ~(NumPages * PageSize + PageSize <= k * PageSize)
      BY <1>1, <2>1, <2>2, <2>3, <3>1
    <3>3. ~(NumPages < k)
      BY <3>1, <3>2, PagesInOrder
    <3>. QED
      BY <3>1, <3>3, PagesInOrder
  <2>5. u \in Nat /\ tail <= u /\ u < k * PageSize
    BY <1>3, <2>2, <2>3
  <2>6. u \in Units
    BY <2>3, <2>4, <2>5, LogFacts
  <2>7. ASSUME NEW r \in Emitted(flash), u \in Extent(r.off, Size(r))
        PROVE  FALSE
    <3>1. u < r.off + Size(r)
      BY <1>2, <2>5, <2>7 DEF Extent
    <3>. QED
      BY <1>2, <2>1, <2>2, <2>5, <3>1
  <2>. QED
    BY <2>6, <2>7
<1>4. ASSUME NEW hint \in 0 .. LogLen, PlaceFree(flash, hint, size) # NoPlace
      PROVE  ErasedRange(flash, Cleared(PlaceFree(flash, hint, size), size))
  <2>1. hint \in Nat
    BY LogFacts
  <2>. QED
    BY <1>1, <1>4, <2>1, PlaceFreeErased
<1>5. tail # NoPlace =>
        tail .. AlignPage(tail + size) - 1
          \subseteq Units \ UNION { Extent(r.off, Size(r)) : r \in Emitted(flash) }
  BY <1>3
<1>. QED
  BY <1>4, <1>5 DEF Cleared

\* Room is what it is said to be, whatever the log holds.
THEOREM RoomIsThere == Spec => []RoomIsReal
<1>1. BenchInv => RoomIsReal
  BY FreeRunComes, PlacesAreFree DEF RoomIsReal
<1>. QED
  BY <1>1, BenchInvariant, PTL
=============================================================================
