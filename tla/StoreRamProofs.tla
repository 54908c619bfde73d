--------------------------- MODULE StoreRamProofs ---------------------------
(* What the pattern store's RAM state and its flash have to do with each      *)
(* other, for every geometry, every set of clients, names and lengths, while  *)
(* no operation is refused and no update begins: what a reload makes of the   *)
(* flash, what the index knows of it, what a reboot at any instant would      *)
(* find, that it is what the clients were told, and that outside of           *)
(* compactions the store implements DurableStore.                             *)
EXTENDS PatternStoreProofs, StoreRefinement

-----------------------------------------------------------------------------
(* What a reload makes of the records on flash.                               *)

\* The record the scan emits at a place it accepts.
RecordAt(fl, at) == [fl[at].rec EXCEPT !.dead = fl[at].dead]

\* The records that are not dead.
Live(fl) == { e \in Emitted(fl) : ~e.dead }

\* Of two records of one seq, the first is the one a reload prefers.
Precedes(r, e) == e.stamp < r.stamp \/ (e.stamp = r.stamp /\ r.off <= e.off)

\* At every place the scan accepts there is a record, and it is of that place.
LEMMA EmittedAt ==
    ASSUME NEW fl \in [Units -> Cell], NEW at \in Scan(fl)
    PROVE  /\ RecordAt(fl, at) \in Emitted(fl) /\ RecordAt(fl, at) \in File
           /\ RecordAt(fl, at).off = at /\ RecordAt(fl, at).dead = fl[at].dead
           /\ SameFile(RecordAt(fl, at), fl[at].rec)
<1>1. at \in Units /\ HeaderAt(fl, at)
  BY DEF Scan, Accepts
<1>2. fl[at].rec \in Rec /\ fl[at].dead \in BOOLEAN /\ fl[at].rec.off = at
  BY <1>1, HeaderCell DEF HeaderAt
<1>3. RecordAt(fl, at) \in Emitted(fl)
  BY DEF Emitted, RecordAt
<1>. QED
  BY <1>2, <1>3, EmittedFiles DEF RecordAt, SameFile, Rec

\* Every record of the scan is the one of the place it names.
LEMMA EmittedFrom ==
    ASSUME NEW fl \in [Units -> Cell], NEW e \in Emitted(fl)
    PROVE  /\ e.off \in Scan(fl) /\ e = RecordAt(fl, e.off) /\ e \in File /\ e \in Rec
           /\ e.dead = fl[e.off].dead /\ SameFile(e, fl[e.off].rec)
           /\ e.off \in Nat /\ e.stamp \in Nat /\ e.seq \in Nat /\ e.dead \in BOOLEAN
<1>1. PICK at \in Scan(fl) : e = RecordAt(fl, at)
  BY DEF Emitted, RecordAt
<1>2. e.off = at /\ e \in File
  BY <1>1, EmittedAt
<1>3. e \in Rec
  BY <1>2 DEF File
<1>. QED
  BY <1>1, <1>2, <1>3, EmittedAt, RecFacts DEF Rec

\* Of the records of a seq one is preferred to all, and one is the lowest.
LEMMA SeqHasCurrent ==
    ASSUME NEW fl \in [Units -> Cell], NEW e \in Live(fl)
    PROVE  /\ \E r \in Live(fl) : r.seq = e.seq
                 /\ \A k \in Live(fl) : k.seq = r.seq => Precedes(r, k)
           /\ \E f \in Live(fl) : f.seq = e.seq
                 /\ \A k \in Live(fl) : k.seq = f.seq => f.off <= k.off
<1>. DEFINE same == { k \in Live(fl) : k.seq = e.seq }
            stamps == { k.stamp : k \in same }
            Offs(S) == { k.off : k \in S }
<1>1. IsFiniteSet(same) /\ e \in same /\ same \subseteq Emitted(fl)
  BY EmittedFinite, FS_Subset DEF Live
<1>2. \A k \in same : k.off \in Nat /\ k.stamp \in Nat
  BY <1>1, EmittedFrom
<1>3. IsFiniteSet(stamps) /\ stamps \in SUBSET Nat /\ stamps # {}
  <2>. DEFINE f == [k \in same |-> k.stamp]
  <2>1. f \in Surjection(same, stamps)
    BY DEF Surjection
  <2>2. IsFiniteSet(stamps)
    BY <1>1, <2>1, FS_Surjection
  <2>. QED
    BY <1>1, <1>2, <2>2
<1>4. Max(stamps) \in stamps /\ \A s \in stamps : s <= Max(stamps)
  BY <1>3, MaxExists
<1>. DEFINE newest == { k \in same : k.stamp = Max(stamps) }
<1>5. PICK r \in newest : \A k \in newest : r.off <= k.off
  <2>1. newest # {}
    BY <1>4
  <2>2. Offs(newest) \in SUBSET Nat /\ Offs(newest) # {}
    BY <1>2, <2>1
  <2>3. Min(Offs(newest)) \in Offs(newest) /\ \A o \in Offs(newest) : Min(Offs(newest)) <= o
    BY <2>2, MinExists
  <2>. QED
    BY <2>3
<1>6. \A k \in same : Precedes(r, k)
  <2>. SUFFICES ASSUME NEW k \in same PROVE Precedes(r, k)
    OBVIOUS
  <2>1. k.stamp \in stamps /\ r.stamp = Max(stamps) /\ r \in same
    BY <1>5
  <2>2. k.stamp <= r.stamp /\ k.stamp \in Nat /\ r.stamp \in Nat
    BY <1>2, <1>4, <2>1
  <2>3. CASE k.stamp = r.stamp
    <3>1. k \in newest
      BY <2>1, <2>3
    <3>. QED
      BY <1>5, <2>3, <3>1 DEF Precedes
  <2>. QED
    BY <2>2, <2>3 DEF Precedes
<1>7. PICK f \in same : \A k \in same : f.off <= k.off
  <2>1. Offs(same) \in SUBSET Nat /\ Offs(same) # {}
    BY <1>1, <1>2
  <2>2. Min(Offs(same)) \in Offs(same) /\ \A o \in Offs(same) : Min(Offs(same)) <= o
    BY <2>1, MinExists
  <2>. QED
    BY <2>2
<1>. QED
  BY <1>5, <1>6, <1>7

\* While the seqs of the live records number at most MaxRecs, a reload indexes
\* the preferred record of each.
LEMMA ReloadIndexesAll ==
    ASSUME NEW fl \in [Units -> Cell], NEW S, IsFiniteSet(S), Cardinality(S) <= MaxRecs,
           \A e \in Live(fl) : e.seq \in S
    PROVE  ReloadOf(fl).index =
               { r \in Live(fl) : \A k \in Live(fl) : k.seq = r.seq => Precedes(r, k) }
<1>. DEFINE live == Live(fl)
            firsts == { r \in live : \A k \in live : k.seq = r.seq => r.off <= k.off }
            Counted(seq) == \E f \in firsts :
                f.seq = seq /\ Cardinality({ g \in firsts : g.off < f.off }) < MaxRecs
            current == { r \in live : \A k \in live : k.seq = r.seq => Precedes(r, k) }
<1>1. ReloadOf(fl).index = { r \in current : Counted(r.seq) }
  BY DEF ReloadOf, Live, Precedes
<1>2. live \subseteq Emitted(fl)
  BY DEF Live
<1>3. ASSUME NEW f \in firsts
      PROVE  Cardinality({ g \in firsts : g.off < f.off }) < MaxRecs
  <2>. DEFINE below == { g \in firsts : g.off < f.off }
              others == S \ {f.seq}
              seqOf == [g \in below |-> g.seq]
  <2>1. IsFiniteSet(others) /\ Cardinality(others) = Cardinality(S) - 1 /\ Cardinality(S) \in Nat
    BY FS_RemoveElement, FS_CardinalityType
  <2>2. \A g \in below : g.seq \in others
    <3>. SUFFICES ASSUME NEW g \in below, g.seq = f.seq PROVE FALSE
      OBVIOUS
    <3>1. f.off <= g.off /\ g.off < f.off /\ g.off \in Nat /\ f.off \in Nat
      BY <1>2, EmittedFrom
    <3>. QED
      BY <3>1
  <2>3. \A g, h \in below : g.seq = h.seq => g = h
    <3>. SUFFICES ASSUME NEW g \in below, NEW h \in below, g.seq = h.seq PROVE g = h
      OBVIOUS
    <3>1. g.off <= h.off /\ h.off <= g.off /\ g.off \in Nat /\ h.off \in Nat
      BY <1>2, EmittedFrom
    <3>2. g.off = h.off
      BY <3>1
    <3>. QED
      BY <1>2, <3>2, EmittedFrom
  <2>. HIDE DEF others, below
  <2>4. seqOf \in Injection(below, others)
    BY <2>2, <2>3 DEF Injection, IsInjective
  <2>5. IsFiniteSet(below) /\ Cardinality(below) <= Cardinality(others)
    BY <2>1, <2>4, FS_Injection
  <2>6. Cardinality(below) \in Nat /\ MaxRecs \in Nat
    BY <2>5, FS_CardinalityType, StoreAssumption
  <2>. QED
    BY <2>1, <2>5, <2>6 DEF below
<1>4. ASSUME NEW r \in current
      PROVE  Counted(r.seq)
  <2>1. PICK f \in firsts : f.seq = r.seq
    BY SeqHasCurrent
  <2>. QED
    BY <1>3, <2>1
<1>. HIDE DEF Counted, current
<1>5. { r \in current : Counted(r.seq) } = current
  BY <1>4
<1>. QED
  BY <1>1, <1>5 DEF current

\* The files of an index with one file per seq are as many as their seqs.
LEMMA IndexCounts ==
    ASSUME NEW index, NEW S, IsFiniteSet(S),
           \A r \in index : r.seq \in S,
           \A r, k \in index : r.seq = k.seq => r = k
    PROVE  IsFiniteSet(index) /\ Cardinality(index) <= Cardinality(S)
<1>. DEFINE seqOf == [r \in index |-> r.seq]
<1>1. seqOf \in Injection(index, S)
  BY DEF Injection, IsInjective
<1>. QED
  BY <1>1, FS_Injection

\* The seqs of an index are at most as many as its files.
LEMMA SeqsCount ==
    ASSUME NEW index, IsFiniteSet(index)
    PROVE  LET seqs == { r.seq : r \in index }
           IN  /\ IsFiniteSet(seqs) /\ Cardinality(seqs) <= Cardinality(index)
               /\ Cardinality(seqs) \in Nat /\ Cardinality(index) \in Nat
<1>. DEFINE seqs == { r.seq : r \in index }
            seqOf == [r \in index |-> r.seq]
<1>1. seqOf \in Surjection(index, seqs)
  BY DEF Surjection
<1>2. IsFiniteSet(seqs) /\ Cardinality(seqs) <= Cardinality(index)
  BY <1>1, FS_Surjection
<1>. QED
  BY <1>2, FS_CardinalityType

-----------------------------------------------------------------------------
(* What the scan accepts after an operation that got as far as it got.        *)

\* Every unit is as it was, half written, or as the operation makes it.
PartlyWritten(fl) ==
    \A u \in Units : \/ fl[u] = flash[u] \/ fl[u] = Junk
                     \/ u \in DOMAIN Written /\ fl[u] = Written[u]

\* A place the operation does not make acceptable was acceptable before.
KnownPlace(fl, at) ==
    /\ at \in Scan(flash) /\ flash[at].rec = fl[at].rec
    /\ \/ fl[at].dead = flash[at].dead
       \/ phase \in {"retire", "delete"} /\ at = The(job.old).off /\ fl[at].dead

\* A place where a page of the repack put the header of a file.
MovedPlace(fl, at) ==
    phase = "rewrite" /\ \E r \in plan.keep :
        at = plan.to[r] /\ SameFile(fl[at].rec, [r EXCEPT !.off = at])

\* A rewritten page makes acceptable only the new places of the files it keeps.
LEMMA RewrittenPlaces ==
    ASSUME StoreInv, RepackInv, phase = "rewrite",
           NEW fl \in [Units -> Cell], PartlyWritten(fl), NEW at \in Scan(fl)
    PROVE  KnownPlace(fl, at) \/ MovedPlace(fl, at)
<1>1. at \in Units /\ HeaderAt(fl, at) /\ PayloadWhole(fl, fl[at].rec)
  BY DEF Scan, Accepts
<1>2. fl[at].kind = "header" /\ fl[at].rec \in Rec /\ fl[at].rec.off = at
  BY <1>1, HeaderCell DEF HeaderAt
<1>. DEFINE e == fl[at].rec
<1>3. /\ PlanSound(plan) /\ OffsDiffer(plan) /\ page \in Nat
      /\ Repacked(flash, plan, page) /\ \A u \in PageUnits(page) : Due(buf[u], plan, u)
      /\ flash \in [Units -> Cell]
  BY GeometryAssumption DEF StoreInv, CompactionSound, Compacting, RepackInv, TypeOK, WorldType, Pages
<1>4. ASSUME NEW u \in Units
      PROVE  fl[u] = flash[u] \/ fl[u] = Junk \/ (u \in PageUnits(page) /\ fl[u] = buf[u])
  <2>1. Written = [v \in PageUnits(page) |-> Program(flash[v], buf[v])]
    BY DEF Written
  <2>2. u \in PageUnits(page) => flash[u] = Erased
    BY DEF RepackInv, PageErased, ErasedRange
  <2>3. u \in PageUnits(page) => Written[u] = buf[u]
    BY <2>1, <2>2 DEF Program
  <2>. QED
    BY <2>1, <2>3 DEF PartlyWritten
<1>5. CASE fl[at] # flash[at]
  <2>1. at \in PageUnits(page) /\ fl[at] = buf[at]
    BY <1>1, <1>2, <1>4, <1>5 DEF Junk
  <2>2. Due(fl[at], plan, at)
    BY <1>3, <2>1
  <2>3. PICK r \in plan.keep : at \in NewExtent(plan, r)
    BY <1>2, <2>2 DEF Due, Erased
  <2>4. IsDue(fl[at], plan, r, at)
    BY <2>2, <2>3 DEF Due, FilesDue
  <2>5. at = plan.to[r]
    BY <1>2, <2>4 DEF IsDue, Data
  <2>. QED
    BY <2>3, <2>4, <2>5 DEF IsDue, MovedPlace
<1>6. CASE fl[at] = flash[at] /\ \A i \in 1 .. e.len : fl[at + i] = flash[at + i]
  <2>1. PayloadWhole(flash, e)
    BY <1>1, <1>2, <1>6 DEF PayloadWhole
  <2>. QED
    BY <1>1, <1>6, <2>1 DEF KnownPlace, Scan, Accepts, HeaderAt
<1>7. CASE fl[at] = flash[at] /\ \E i \in 1 .. e.len : fl[at + i] # flash[at + i]
  <2>1. PICK i \in 1 .. e.len : fl[at + i] # flash[at + i]
    BY <1>7
  <2>. DEFINE u == at + i
  <2>2. /\ at \in Nat /\ e.len \in Nat /\ i \in Nat /\ i >= 1 /\ u \in Units /\ u \in Nat
        /\ fl[u] = Data(e.ver, i)
    <3>1. at \in Nat /\ e.len \in Nat /\ End(e) = at + (1 + e.len) /\ End(e) <= LogLen
      BY <1>1, <1>2, RecFacts DEF End, Size, PayloadWhole
    <3>2. fl[e.off + i] = Data(e.ver, i)
      BY <1>1 DEF PayloadWhole
    <3>. QED
      BY <1>2, <3>1, <3>2, LogFacts
  <2>3. u \in PageUnits(page) /\ fl[u] = buf[u]
    BY <1>4, <2>1, <2>2 DEF Data, Junk
  <2>. HIDE DEF u
  <2>4. Due(Data(e.ver, i), plan, u)
    BY <1>3, <2>2, <2>3
  <2>5. PICK r \in plan.keep : u \in NewExtent(plan, r)
    BY <2>4 DEF Due, Erased, Data
  <2>6. IsDue(Data(e.ver, i), plan, r, u)
    BY <2>4, <2>5 DEF Due, FilesDue
  <2>7. i = u - plan.to[r]
    BY <2>6 DEF IsDue, Data
  <2>8. plan.to[r] \in Nat /\ r \in Rec
    BY <1>3, <2>5, NewPlace
  <2>9. at = plan.to[r]
    BY <2>2, <2>7, <2>8 DEF u
  <2>10. at \in NewExtent(plan, r)
    <3>1. Size(r) \in Nat \ {0}
      BY <2>8, RecFacts
    <3>. QED
      BY <2>2, <2>8, <2>9, <3>1 DEF NewExtent, Extent
  <2>11. CASE at \in PageUnits(page) /\ fl[at] = buf[at]
    <3>1. Due(fl[at], plan, at)
      BY <1>3, <2>11
    <3>2. IsDue(fl[at], plan, r, at)
      BY <2>10, <3>1 DEF Due, FilesDue
    <3>. QED
      BY <2>9, <3>2 DEF IsDue, MovedPlace
  <2>12. CASE at \in PageUnits(page) /\ fl[at] # buf[at]
    <3>1. flash[at] = Erased
      BY <2>12 DEF RepackInv, PageErased, ErasedRange
    <3>. QED
      BY <1>2, <1>7, <3>1 DEF Erased
  <2>13. CASE at \notin PageUnits(page)
    <3>1. PageOf(u) = page /\ PageOf(at) # page /\ at < u
      BY <1>1, <2>2, <2>3, <2>13 DEF PageUnits, u
    <3>. DEFINE p == PageOf(at)
    <3>2. p \in Nat /\ p * PageSize <= at /\ page * PageSize <= u /\ u < page * PageSize + PageSize
      BY <2>2, <3>1, OnItsPage
    <3>. HIDE DEF p
    <3>3. p * PageSize \in Nat /\ (page < p => page * PageSize + PageSize <= p * PageSize)
      BY <1>3, <3>2, PagesInOrder
    <3>4. page * PageSize \in Nat /\ PageSize \in Nat
      BY <1>3, GeometryAssumption, PagesInOrder
    <3>5. PageOf(at) < page
      <4>1. ~(page < p)
        BY <2>2, <3>1, <3>2, <3>3, <3>4
      <4>. QED
        BY <1>3, <3>1, <3>2, <4>1 DEF p
    <3>6. PageOf(at) \in RepackPages(plan) \/ PageOf(at) \in FrozenPages(plan.keep, plan.pinned)
      BY <1>3, <2>10, NewPagesKnown
    <3>7. IsDue(flash[at], plan, r, at)
      BY <1>1, <1>3, <2>10, <3>5, <3>6 DEF Repacked, Due, FilesDue
    <3>. QED
      BY <1>7, <2>9, <3>7 DEF IsDue, MovedPlace
  <2>. QED
    BY <2>11, <2>12, <2>13
<1>. QED
  BY <1>5, <1>6, <1>7

\* The one place an operation may make acceptable beside those of a repack: the
\* file whose commit word it writes.
CommittedPlace(fl, at) ==
    phase = "commit" /\ at = job.rec.off /\ fl[at] = Header(job.rec, TRUE, FALSE)

\* However far an operation gets, the scan accepts afterwards what it accepted
\* before, new places of a repack and the file being committed.
LEMMA PartlyPlaces ==
    ASSUME StoreInv, VersInv, FilesInv, RepackInv, RoomInv,
           NEW fl \in [Units -> Cell], PartlyWritten(fl), NEW at \in Scan(fl)
    PROVE  KnownPlace(fl, at) \/ MovedPlace(fl, at) \/ CommittedPlace(fl, at)
<1>1. at \in Units /\ fl[at].kind = "header" /\ fl[at].commit
  BY DEF Scan, Accepts, HeaderAt
<1>2. flash \in [Units -> Cell] /\ phase \in Phases
  BY DEF StoreInv, TypeOK, WorldType, TaskType
<1>. DEFINE off == job.rec.off
<1>3. ASSUME fl[at] = flash[at],
             \A u \in Units : fl[u] = flash[u] \/ ~(fl[u].kind = "data" /\ fl[u].ver = fl[at].rec.ver)
      PROVE  KnownPlace(fl, at)
  <2>1. at \in Scan(flash)
    BY <1>2, <1>3, ScanKept
  <2>. QED
    BY <1>3, <2>1 DEF KnownPlace
<1>4. CASE phase \in {"none", "publish", "reload", "erase", "vacate", "sweep"}
  <2>1. \A u \in DOMAIN Written : Written[u] = Erased
    <3>1. CASE phase \in {"erase", "vacate", "sweep"}
      <4>1. Written = [u \in PageUnits(page) |-> Erased]
        BY <3>1 DEF Written
      <4>. QED
        BY <4>1
    <3>2. CASE phase \in {"none", "publish", "reload"}
      <4>1. Written = [u \in {} |-> Erased]
        BY <3>2 DEF Written
      <4>. QED
        BY <4>1
    <3>. QED
      BY <1>4, <3>1, <3>2
  <2>2. \A u \in Units : fl[u] = flash[u] \/ fl[u].kind \in {"erased", "junk"}
    BY <2>1 DEF PartlyWritten, Erased, Junk
  <2>. QED
    BY <1>1, <1>3, <2>2
<1>5. CASE phase = "header"
  <2>1. Written = [u \in {off} |-> Program(flash[u], Header(job.rec, FALSE, FALSE))]
    BY <1>5 DEF Written
  <2>2. flash[off] = Erased
    BY <1>5 DEF FilesInv, HeaderIsDue
  <2>3. \A u \in Units : \/ fl[u] = flash[u] \/ fl[u] = Junk
                         \/ fl[u] = Header(job.rec, FALSE, FALSE)
    BY <2>1, <2>2 DEF PartlyWritten, Program
  <2>4. \A u \in Units : fl[u] = flash[u] \/ fl[u].kind # "data"
    BY <2>3 DEF Junk, Header
  <2>5. fl[at] = flash[at]
    BY <1>1, <2>3 DEF Junk, Header
  <2>. QED
    BY <1>3, <2>4, <2>5
<1>6. CASE phase = "payload"
  <2>1. Written = [u \in PayloadUnits(job.rec) \cap PageUnits(page) |->
                       Program(flash[u], Body(job.rec, u))]
    BY <1>6 DEF Written
  <2>2. ASSUME NEW u \in Units
        PROVE  \/ fl[u] = flash[u]
               \/ fl[u].kind = "data" /\ fl[u].ver = job.rec.ver
               \/ fl[u].kind = "junk"
    <3>1. \A old, new : Program(old, new) \in {old, new, Junk}
      BY DEF Program
    <3>2. u \in DOMAIN Written => Written[u] = Program(flash[u], Body(job.rec, u))
      BY <2>1
    <3>3. fl[u] \in {flash[u], Body(job.rec, u), Junk}
      BY <3>1, <3>2 DEF PartlyWritten
    <3>. QED
      BY <3>3 DEF Body, Data, Junk
  <2>3. fl[at] = flash[at]
    BY <1>1, <2>2
  <2>4. fl[at].rec.ver # job.rec.ver
    <3>. SUFFICES ASSUME fl[at].rec.ver = job.rec.ver PROVE FALSE
      OBVIOUS
    <3>1. at = off
      BY <1>1, <1>6, <2>3 DEF RoomInv, JobHeaderAlone
    <3>2. flash[off] = Header(job.rec, FALSE, FALSE)
      BY <1>6 DEF FilesInv, HeaderIsDue
    <3>. QED
      BY <1>1, <2>3, <3>1, <3>2 DEF Header
  <2>. QED
    BY <1>3, <2>2, <2>3, <2>4
<1>7. CASE phase = "commit"
  <2>1. Written = [u \in {off} |-> SetCommit(flash[u])]
    BY <1>7 DEF Written
  <2>2. flash[off] = Header(job.rec, FALSE, FALSE)
    BY <1>7 DEF FilesInv, HeaderIsDue
  <2>3. SetCommit(Header(job.rec, FALSE, FALSE)) = Header(job.rec, TRUE, FALSE)
    BY DEF SetCommit, Header
  <2>4. \A u \in Units : \/ fl[u] = flash[u] \/ fl[u] = Junk
                         \/ u = off /\ fl[u] = Header(job.rec, TRUE, FALSE)
    BY <2>1, <2>2, <2>3 DEF PartlyWritten
  <2>5. \A u \in Units : fl[u] = flash[u] \/ fl[u].kind # "data"
    BY <2>4 DEF Junk, Header
  <2>6. fl[at] = flash[at] \/ CommittedPlace(fl, at)
    <3>1. fl[at] # Junk
      BY <1>1 DEF Junk
    <3>2. fl[at] = flash[at] \/ (at = off /\ fl[at] = Header(job.rec, TRUE, FALSE))
      BY <1>1, <2>4, <3>1
    <3>. QED
      BY <1>7, <3>2 DEF CommittedPlace
  <2>. QED
    BY <1>3, <2>5, <2>6
<1>8. CASE phase \in {"retire", "delete"}
  <2>. DEFINE x == The(job.old).off
  <2>1. Written = [u \in {x} |-> SetDead(flash[u])]
    BY <1>8 DEF Written
  <2>2. flash[x].kind = "header"
    BY <1>8, DeadWordHits DEF HeaderAt
  <2>. HIDE DEF x
  <2>3. SetDead(flash[x]).kind = "header" /\ (x \in Units => SetDead(flash[x]).dead)
    <3>1. x \in Units => flash[x] \in [kind : {"header"}, rec : Rec, commit : BOOLEAN, dead : BOOLEAN]
      BY <1>2, <2>2, HeaderCell
    <3>. QED
      BY <2>2, <3>1 DEF SetDead
  <2>4. \A u \in Units : \/ fl[u] = flash[u] \/ fl[u] = Junk
                         \/ u = x /\ fl[u] = SetDead(flash[u])
    BY <2>1 DEF PartlyWritten
  <2>5. \A u \in Units : fl[u] = flash[u] \/ fl[u].kind # "data"
    BY <2>3, <2>4 DEF Junk
  <2>6. CASE fl[at] = flash[at]
    BY <1>3, <2>5, <2>6
  <2>7. CASE fl[at] # flash[at]
    <3>1. at = x /\ fl[at] = SetDead(flash[at]) /\ flash[at].kind = "header"
      BY <1>1, <2>2, <2>4, <2>7 DEF Junk
    <3>2. at \in Scan(flash) /\ flash[at].rec = fl[at].rec
      BY <1>2, <2>5, <3>1, ScanKept
    <3>. QED
      BY <1>8, <1>1, <2>3, <3>1, <3>2 DEF KnownPlace, x
  <2>. QED
    BY <2>6, <2>7
<1>9. CASE phase = "rewrite"
  BY <1>9, RewrittenPlaces
<1>. QED
  BY <1>2, <1>4, <1>5, <1>6, <1>7, <1>8, <1>9 DEF Phases

\* Whatever a power cut leaves, and whatever an operation does, is partly written.
LEMMA PartlyTorn ==
    /\ \A fl \in Torn : PartlyWritten(fl)
    /\ \A lost : Operate(lost) => PartlyWritten(flash')
<1>1. ASSUME NEW at, NEW junk \in BOOLEAN
      PROVE  PartlyWritten(Upto(at, junk))
  BY DEF PartlyWritten, Upto
<1>2. ASSUME NEW fl \in Torn
      PROVE  PartlyWritten(fl)
  BY <1>1 DEF Torn
<1>3. ASSUME NEW lost, Operate(lost)
      PROVE  PartlyWritten(flash')
  <2>1. flash' = flash \/ flash' = Upto(LogLen, FALSE)
    BY <1>3 DEF Operate
  <2>2. PartlyWritten(Upto(LogLen, FALSE)) /\ PartlyWritten(flash)
    BY <1>1 DEF PartlyWritten
  <2>. QED
    BY <2>1, <2>2 DEF PartlyWritten
<1>. QED
  BY <1>2, <1>3

-----------------------------------------------------------------------------
(* What a reload tells of the flash.                                          *)

\* The highest of a number and of a finite set of numbers.
LEMMA CounterPast ==
    ASSUME NEW T \in SUBSET Nat, IsFiniteSet(T), NEW n \in Nat
    PROVE  /\ Max({n} \cup T) \in Nat /\ n <= Max({n} \cup T)
           /\ \A y \in T : y <= Max({n} \cup T)
           /\ \A m \in Nat : n <= m /\ (\A y \in T : y <= m) => Max({n} \cup T) <= m
<1>1. IsFiniteSet({n} \cup T) /\ {n} \cup T \in SUBSET Nat /\ {n} \cup T # {}
  <2>1. IsFiniteSet(T \cup {n}) /\ T \cup {n} = {n} \cup T
    BY FS_AddElement
  <2>. QED
    BY <2>1
<1>. DEFINE all == {n} \cup T
<1>2. Max(all) \in all /\ \A y \in all : y <= Max(all)
  <2>. HIDE DEF all
  <2>. QED
    BY <1>1, MaxExists DEF all
<1>. QED
  BY <1>2

\* The cursor of a scan that accepts something is the end of a record.
LEMMA CursorIsAnEnd ==
    ASSUME NEW fl \in [Units -> Cell]
    PROVE  \/ ScanCursor(fl) = 0
           \/ \E at \in Scan(fl) : End(fl[at].rec) = ScanCursor(fl)
<1>. DEFINE ends == { End(fl[at].rec) : at \in Scan(fl) }
            f == [at \in Scan(fl) |-> End(fl[at].rec)]
<1>1. CASE ends = {}
  BY <1>1 DEF ScanCursor
<1>2. CASE ends # {}
  <2>1. f \in Surjection(Scan(fl), ends)
    BY DEF Surjection
  <2>2. IsFiniteSet(ends)
    BY <2>1, EmittedFinite, FS_Surjection
  <2>3. ends \in SUBSET Nat
    BY ScanEnds
  <2>4. Max(ends) \in ends
    BY <1>2, <2>2, <2>3, MaxExists
  <2>5. ScanCursor(fl) = Max(ends)
    BY <1>2 DEF ScanCursor
  <2>. QED
    BY <2>4, <2>5
<1>. QED
  BY <1>1, <1>2

\* What a reload builds of a flash whose live seqs are at most MaxRecs.
LEMMA ReloadTells ==
    ASSUME NEW fl \in [Units -> Cell], NEW S, IsFiniteSet(S), Cardinality(S) <= MaxRecs,
           \A e \in Live(fl) : e.seq \in S
    PROVE  LET r == ReloadOf(fl)
           IN  /\ r.index \subseteq Live(fl) /\ r \in Ram /\ r.nextStamp >= 1
               /\ \A e \in Live(fl) : \E k \in r.index : k.seq = e.seq /\ Precedes(k, e)
               /\ \A k, j \in r.index : k.seq = j.seq => k = j
               /\ \A e \in Live(fl) : (\A k \in Live(fl) : k.seq = e.seq => k = e) => e \in r.index
               /\ \A e \in Emitted(fl) : e.seq < r.nextSeq /\ e.stamp < r.nextStamp
               /\ \A n \in Nat : (\A e \in Emitted(fl) : e.seq < n) => r.nextSeq <= n
               /\ \A n \in Nat : 1 <= n /\ (\A e \in Emitted(fl) : e.stamp < n) => r.nextStamp <= n
               /\ \/ r.cursor = 0
                  \/ \E at \in Scan(fl) : End(fl[at].rec) = r.cursor
               /\ IsFiniteSet(r.index) /\ Cardinality(r.index) <= Cardinality(S)
<1>. DEFINE r == ReloadOf(fl)
            all == Emitted(fl)
            seqs == { e.seq + 1 : e \in all }
            stamps == { e.stamp + 1 : e \in all }
<1>1. r.index = { k \in Live(fl) : \A e \in Live(fl) : e.seq = k.seq => Precedes(k, e) }
  BY ReloadIndexesAll
<1>2. IsFiniteSet(all) /\ \A e \in all : e.seq \in Nat /\ e.stamp \in Nat
  BY EmittedFinite, EmittedFrom
<1>3. IsFiniteSet(seqs) /\ seqs \in SUBSET Nat
  <2>. DEFINE f == [e \in all |-> e.seq + 1]
  <2>1. f \in Surjection(all, seqs)
    BY DEF Surjection
  <2>. QED
    BY <1>2, <2>1, FS_Surjection
<1>4. IsFiniteSet(stamps) /\ stamps \in SUBSET Nat
  <2>. DEFINE f == [e \in all |-> e.stamp + 1]
  <2>1. f \in Surjection(all, stamps)
    BY DEF Surjection
  <2>. QED
    BY <1>2, <2>1, FS_Surjection
<1>5. /\ r.nextSeq = Max({0} \cup seqs) /\ r.nextStamp = Max({1} \cup stamps)
      /\ r.cursor = ScanCursor(fl)
  BY DEF ReloadOf
<1>. HIDE DEF r, seqs, stamps
<1>6. /\ r.nextSeq \in Nat /\ r.nextStamp \in Nat
      /\ \A y \in seqs : y <= r.nextSeq
      /\ \A n \in Nat : (\A y \in seqs : y <= n) => r.nextSeq <= n
      /\ \A y \in stamps : y <= r.nextStamp
      /\ 1 <= r.nextStamp
      /\ \A n \in Nat : 1 <= n /\ (\A y \in stamps : y <= n) => r.nextStamp <= n
  <2>1. /\ Max({0} \cup seqs) \in Nat /\ \A y \in seqs : y <= Max({0} \cup seqs)
        /\ \A n \in Nat : 0 <= n /\ (\A y \in seqs : y <= n) => Max({0} \cup seqs) <= n
    BY <1>3, CounterPast
  <2>2. /\ Max({1} \cup stamps) \in Nat /\ \A y \in stamps : y <= Max({1} \cup stamps)
        /\ 1 <= Max({1} \cup stamps)
        /\ \A n \in Nat : 1 <= n /\ (\A y \in stamps : y <= n) => Max({1} \cup stamps) <= n
    BY <1>4, CounterPast
  <2>3. \A n \in Nat : 0 <= n
    OBVIOUS
  <2>. QED
    BY <1>5, <2>1, <2>2, <2>3
<1>7. /\ \A e \in all : e.seq < r.nextSeq /\ e.stamp < r.nextStamp
      /\ \A n \in Nat : (\A e \in all : e.seq < n) => r.nextSeq <= n
      /\ \A n \in Nat : 1 <= n /\ (\A e \in all : e.stamp < n) => r.nextStamp <= n
  <2>1. ASSUME NEW e \in all PROVE e.seq < r.nextSeq /\ e.stamp < r.nextStamp
    <3>1. e.seq + 1 \in seqs /\ e.stamp + 1 \in stamps
      BY DEF seqs, stamps
    <3>. QED
      BY <1>2, <1>6, <3>1
  <2>2. ASSUME NEW n \in Nat, \A e \in all : e.seq < n PROVE r.nextSeq <= n
    <3>1. \A y \in seqs : y <= n
      BY <1>2, <2>2 DEF seqs
    <3>. QED
      BY <1>6, <3>1
  <2>3. ASSUME NEW n \in Nat, 1 <= n, \A e \in all : e.stamp < n PROVE r.nextStamp <= n
    <3>1. \A y \in stamps : y <= n
      BY <1>2, <2>3 DEF stamps
    <3>. QED
      BY <1>6, <2>3, <3>1
  <2>. QED
    BY <2>1, <2>2, <2>3
<1>8. \A e \in Live(fl) : \E k \in r.index : k.seq = e.seq /\ Precedes(k, e)
  <2>. SUFFICES ASSUME NEW e \in Live(fl)
                PROVE  \E k \in r.index : k.seq = e.seq /\ Precedes(k, e)
    OBVIOUS
  <2>1. PICK k \in Live(fl) : k.seq = e.seq /\ \A j \in Live(fl) : j.seq = k.seq => Precedes(k, j)
    BY SeqHasCurrent
  <2>. QED
    BY <1>1, <2>1
<1>9. \A k, j \in r.index : k.seq = j.seq => k = j
  BY ReloadStands DEF r
<1>10. IsFiniteSet(r.index) /\ Cardinality(r.index) <= Cardinality(S)
  <2>1. \A k \in r.index : k.seq \in S
    BY <1>1
  <2>. QED
    BY <1>9, <2>1, IndexCounts
<1>11. \A e \in Live(fl) : (\A k \in Live(fl) : k.seq = e.seq => k = e) => e \in r.index
  <2>. SUFFICES ASSUME NEW e \in Live(fl), \A k \in Live(fl) : k.seq = e.seq => k = e
                PROVE  e \in r.index
    OBVIOUS
  <2>1. e \in Emitted(fl)
    BY DEF Live
  <2>2. Precedes(e, e)
    BY <2>1, EmittedFrom DEF Precedes
  <2>. QED
    BY <1>1, <2>2
<1>12. \/ r.cursor = 0
       \/ \E at \in Scan(fl) : End(fl[at].rec) = r.cursor
  BY <1>5, CursorIsAnEnd
<1>13. r.index \subseteq Live(fl) /\ r \in Ram
  BY <1>1, ReloadType DEF r
<1>. QED
  BY <1>6, <1>7, <1>8, <1>9, <1>10, <1>11, <1>12, <1>13 DEF r

-----------------------------------------------------------------------------
(* What the RAM state knows of the flash, while no operation is refused and no *)
(* file is executed.                                                           *)

\* The append's commit word is down, its index entry is not: the file at "at".
Unpublished(at) == phase = "publish" /\ at = job.rec.off

\* What is live on flash is in the index, with a record that is no older or,
\* outside of a compaction, with one a reload prefers.
LiveKnown ==
    \A e \in Live(flash) :
        \/ Unpublished(e.off)
        \/ \E r \in ram.index : /\ r.seq = e.seq /\ e.stamp <= r.stamp
                                /\ ~Compacting => Precedes(r, e)

\* Outside of a compaction the index is on flash and live.
IndexLive ==
    /\ \A r \in ram.index : ~r.dead
    /\ ~Compacting => ram.index \subseteq Live(flash)

\* Without cuts nothing else is live but the version about to be retired.
LiveOnce ==
    MaxCuts = 0 /\ ~Compacting => \A e \in Live(flash) :
        \/ Unpublished(e.off) \/ e \in ram.index
        \/ phase = "retire" /\ e.off = The(job.old).off

\* The counters are past everything on flash, of which the stamps tell the versions.
CountersAhead ==
    /\ ram.nextStamp >= 1
    /\ \A e \in Emitted(flash) \cup ram.index :
          Unpublished(e.off) \/ (e.seq < ram.nextSeq /\ e.stamp < ram.nextStamp)
StampsTell ==
    \A r, k \in Emitted(flash) \cup ram.index :
        r.seq = k.seq /\ r.stamp = k.stamp => r.ver = k.ver

\* The cursor is the end of a record.
CursorTold ==
    ~Compacting => \/ ram.cursor = 0
                   \/ \E at \in Scan(flash) : ~Unpublished(at) /\ End(flash[at].rec) = ram.cursor

RecordsKnown ==
    LiveKnown /\ IndexLive /\ LiveOnce /\ CountersAhead /\ StampsTell /\ CursorTold

\* The file of the job and the index.
JobIsKnown ==
    /\ phase # "none" => ~job.rec.dead
    /\ phase = "publish" => ~flash[job.rec.off].dead
    /\ phase = "retire" => job.rec \in ram.index
    /\ Appending => job.rec.stamp = ram.nextStamp
    /\ Appending \/ Compacting =>
         /\ job.existed <=> job.old # NoRec
         /\ IF job.existed THEN \E r \in ram.index : r.seq = job.rec.seq
            ELSE job.rec.seq >= ram.nextSeq
    /\ Compacting => plan.keep = ram.index

\* Deletes are asked for only where the bound allows any.
DeletesAllowed == \A c \in Clients : req[c].op = "delete" => MaxDeletes # 0

RoomInIndex ==
    /\ IsFiniteSet(ram.index) /\ Cardinality(ram.index) <= MaxRecs
    /\ (Appending \/ Compacting) /\ ~job.existed => Cardinality(ram.index) < MaxRecs

\* An append touches no record of the scan, dead ones included.
ScanApart ==
    phase \in {"erase", "header", "payload", "commit"} =>
        \A at \in Scan(flash) :
            Extent(at, Size(flash[at].rec)) \cap Cleared(job.rec.off, Size(job.rec)) = {}

\* In a compaction the copies made are live, and the sources above still stand.
CopyLive(r) ==
    /\ PageOf(plan.to[r]) < page => ~flash[plan.to[r]].dead
    /\ PageOf(plan.to[r]) = page => ~buf[plan.to[r]].dead
    /\ page < PageOf(r.off) => Stands(flash, r) /\ ~flash[r.off].dead
CopiesLive ==
    /\ phase \in {"vacate", "rewrite"} => \A r \in plan.keep : CopyLive(r)
    /\ phase \in {"sweep", "reload"} => \A r \in plan.keep : ~flash[plan.to[r]].dead

AgreeInv ==
    /\ RecordsKnown /\ JobIsKnown /\ DeletesAllowed /\ RoomInIndex /\ ScanApart /\ CopiesLive

BaseInv ==
    StoreInv /\ VersInv /\ FilesInv /\ RepackInv /\ RoomInv /\ NothingPinned

\* The phases before the commit word is down and after the compaction is over.
Quiet == phase \in {"none", "erase", "header", "payload", "commit", "delete"}

\* Where neither the flash nor the RAM state changes, what is known stays so.
LEMMA RecordsStay ==
    ASSUME RecordsKnown, UNCHANGED <<flash, ram>>, Quiet, Quiet'
    PROVE  RecordsKnown'
<1>1. /\ ~Compacting /\ ~Compacting' /\ phase # "publish" /\ phase' # "publish"
      /\ phase # "retire" /\ phase' # "retire" /\ flash' = flash /\ ram' = ram
  BY DEF Quiet, Compacting
<1>2. /\ \A at : ~Unpublished(at) /\ ~Unpublished(at)'
  BY <1>1 DEF Unpublished
<1>3. LiveKnown'
  BY <1>1, <1>2 DEF RecordsKnown, LiveKnown
<1>4. IndexLive' /\ StampsTell'
  BY <1>1 DEF RecordsKnown, IndexLive, StampsTell
<1>5. LiveOnce'
  BY <1>1, <1>2 DEF RecordsKnown, LiveOnce
<1>6. CountersAhead' /\ CursorTold'
  BY <1>1, <1>2 DEF RecordsKnown, CountersAhead, CursorTold
<1>. QED
  BY <1>3, <1>4, <1>5, <1>6 DEF RecordsKnown

\* Where nothing changes but the requests, they may not ask for deletes.
LEMMA AgreeAside ==
    ASSUME AgreeInv, UNCHANGED <<flash, ram>>, UNCHANGED locals, DeletesAllowed'
    PROVE  AgreeInv'
<1>1. /\ flash' = flash /\ ram' = ram /\ phase' = phase /\ job' = job /\ plan' = plan
      /\ page' = page /\ buf' = buf
  BY DEF locals
<1>2. Compacting' = Compacting /\ Appending' = Appending /\ \A at : Unpublished(at)' = Unpublished(at)
  BY <1>1 DEF Compacting, Appending, Unpublished
<1>3. LiveKnown' /\ IndexLive'
  BY <1>1, <1>2 DEF AgreeInv, RecordsKnown, LiveKnown, IndexLive
<1>4. LiveOnce' /\ CountersAhead'
  BY <1>1, <1>2 DEF AgreeInv, RecordsKnown, LiveOnce, CountersAhead
<1>5. StampsTell' /\ CursorTold'
  BY <1>1, <1>2 DEF AgreeInv, RecordsKnown, StampsTell, CursorTold
<1>6. JobIsKnown' /\ RoomInIndex'
  BY <1>1, <1>2 DEF AgreeInv, JobIsKnown, RoomInIndex
<1>7. ScanApart'
  BY <1>1 DEF AgreeInv, ScanApart
<1>8. CopiesLive'
  BY <1>1 DEF AgreeInv, CopiesLive, CopyLive
<1>. QED
  BY <1>3, <1>4, <1>5, <1>6, <1>7, <1>8 DEF AgreeInv, RecordsKnown

\* The file of a finished append is on flash, live, and is the one of its place.
LEMMA PublishedLive ==
    ASSUME StoreInv, FilesInv, JobIsKnown, phase = "publish"
    PROVE  /\ job.rec \in Live(flash) /\ job.rec.off \in Scan(flash)
           /\ \A e \in Emitted(flash) : Unpublished(e.off) => e = job.rec
           /\ \A r \in ram.index : ~Unpublished(r.off)
<1>1. /\ flash \in [Units -> Cell] /\ job.rec \in File /\ job.rec \in Rec /\ ~job.rec.dead
      /\ Stands(flash, job.rec) /\ ~flash[job.rec.off].dead
  BY DEF StoreInv, TypeOK, WorldType, TaskType, FilesInv, HeaderIsDue, JobIsKnown, Appending, File
<1>2. job.rec.off \in Scan(flash)
  BY <1>1, StandsScanned
<1>. DEFINE e == RecordAt(flash, job.rec.off)
<1>3. /\ e \in Emitted(flash) /\ e \in File /\ e.off = job.rec.off /\ e.dead = flash[job.rec.off].dead
      /\ SameFile(e, flash[job.rec.off].rec)
  BY <1>1, <1>2, EmittedAt
<1>4. e = job.rec
  <2>1. SameFile(e, job.rec) /\ e \in Rec /\ e.dead \in BOOLEAN
    BY <1>1, <1>3 DEF SameFile, Stands, File, Rec
  <2>2. e.dead = FALSE /\ job.rec.dead = FALSE
    BY <1>1, <1>3, <2>1 DEF Rec
  <2>. HIDE DEF e
  <2>. QED
    BY <1>1, <2>1, <2>2 DEF SameFile, Rec
<1>5. job.rec \in Live(flash)
  BY <1>1, <1>3, <1>4 DEF Live
<1>6. \A k \in Emitted(flash) : Unpublished(k.off) => k = job.rec
  BY <1>1, <1>4, EmittedFrom DEF Unpublished
<1>7. ASSUME NEW r \in ram.index
      PROVE  r.off # job.rec.off
  <2>1. /\ r \in File /\ r \in Held /\ r.off \in Nat /\ Size(r) \in Nat \ {0}
        /\ job.rec.off \in Nat /\ Size(job.rec) \in Nat \ {0}
    BY <1>1, HeldFiles, RecFacts DEF File
  <2>2. Extent(r.off, Size(r)) \cap Cleared(job.rec.off, Size(job.rec)) = {}
    BY <2>1 DEF FilesInv, PlaceIsFree, Appending
  <2>3. r.off \in Extent(r.off, Size(r))
    BY <2>1 DEF Extent
  <2>4. job.rec.off \in Cleared(job.rec.off, Size(job.rec))
    <3>1. job.rec.off + Size(job.rec) \in Nat
      BY <2>1
    <3>2. job.rec.off + Size(job.rec) <= AlignPage(job.rec.off + Size(job.rec))
            /\ AlignPage(job.rec.off + Size(job.rec)) \in Nat
      BY <3>1, AlignUp
    <3>. QED
      BY <2>1, <3>2 DEF Cleared
  <2>. QED
    BY <2>2, <2>3, <2>4
<1>. QED
  BY <1>2, <1>5, <1>6, <1>7 DEF Unpublished

\* The seqs a reload may find live: those of the index and the one of an append.
KnownSeqs ==
    { r.seq : r \in ram.index } \cup (IF Appending THEN {job.rec.seq} ELSE {})

LEMMA KnownSeqsFit ==
    ASSUME JobIsKnown, RoomInIndex
    PROVE  IsFiniteSet(KnownSeqs) /\ Cardinality(KnownSeqs) <= MaxRecs
<1>. DEFINE seqs == { r.seq : r \in ram.index }
<1>1. /\ IsFiniteSet(seqs) /\ Cardinality(seqs) <= Cardinality(ram.index)
      /\ Cardinality(seqs) \in Nat /\ Cardinality(ram.index) \in Nat /\ MaxRecs \in Nat
  BY SeqsCount, StoreAssumption DEF RoomInIndex
<1>2. CASE Appending /\ ~job.existed
  <2>1. KnownSeqs = seqs \cup {job.rec.seq} /\ Cardinality(ram.index) < MaxRecs
    BY <1>2 DEF KnownSeqs, RoomInIndex
  <2>. HIDE DEF seqs
  <2>2. /\ IsFiniteSet(seqs \cup {job.rec.seq})
        /\ Cardinality(seqs \cup {job.rec.seq}) \in {Cardinality(seqs), Cardinality(seqs) + 1}
    BY <1>1, FS_AddElement
  <2>. QED
    BY <1>1, <2>1, <2>2
<1>3. CASE ~(Appending /\ ~job.existed)
  <2>1. Appending => job.rec.seq \in seqs
    BY <1>3 DEF JobIsKnown
  <2>2. KnownSeqs = seqs
    BY <2>1 DEF KnownSeqs
  <2>. QED
    BY <1>1, <2>2 DEF RoomInIndex
<1>. QED
  BY <1>2, <1>3

-----------------------------------------------------------------------------
(* Whatever an operation does to the flash, what is on it then is known.       *)

\* A record of which another one tells what it is, and that it is live.
Tells(k, e) ==
    /\ k.seq = e.seq /\ k.name = e.name /\ k.stamp = e.stamp /\ k.ver = e.ver
    /\ k.dead => e.dead

\* A partly written flash has no record but those that were there, those of the
\* index, and the file being committed.
LEMMA PartlyEmitted ==
    ASSUME BaseInv, AgreeInv,
           NEW fl \in [Units -> Cell], PartlyWritten(fl), NEW e \in Emitted(fl)
    PROVE  \/ \E k \in Emitted(flash) : Tells(k, e) /\ SameFile(k, e)
           \/ phase = "rewrite" /\ \E r \in ram.index : Tells(r, e)
           \/ phase = "commit" /\ SameFile(e, job.rec)
<1>1. flash \in [Units -> Cell]
  BY DEF BaseInv, StoreInv, TypeOK, WorldType
<1>2. /\ e.off \in Scan(fl) /\ e.dead = fl[e.off].dead /\ SameFile(e, fl[e.off].rec)
  BY EmittedFrom
<1>. DEFINE at == e.off
<1>3. KnownPlace(fl, at) \/ MovedPlace(fl, at) \/ CommittedPlace(fl, at)
  BY <1>2, PartlyPlaces DEF BaseInv
<1>4. CASE KnownPlace(fl, at)
  <2>. DEFINE k == RecordAt(flash, at)
  <2>1. at \in Scan(flash) /\ flash[at].rec = fl[at].rec /\ (fl[at].dead = flash[at].dead \/ fl[at].dead)
    BY <1>4 DEF KnownPlace
  <2>2. k \in Emitted(flash) /\ k.dead = flash[at].dead /\ SameFile(k, flash[at].rec)
    BY <1>1, <2>1, EmittedAt
  <2>. HIDE DEF k
  <2>3. SameFile(k, e) /\ (k.dead => e.dead)
    BY <1>2, <2>1, <2>2 DEF SameFile
  <2>. QED
    BY <2>2, <2>3 DEF Tells, SameFile
<1>5. CASE MovedPlace(fl, at)
  <2>1. PICK r \in plan.keep : SameFile(fl[at].rec, [r EXCEPT !.off = at])
    BY <1>5 DEF MovedPlace
  <2>2. phase = "rewrite" /\ r \in ram.index /\ ~r.dead
    BY <1>5, <2>1 DEF MovedPlace, Compacting, AgreeInv, JobIsKnown, RecordsKnown, IndexLive
  <2>3. r \in Rec
    BY <2>2 DEF BaseInv, StoreInv, TypeOK, WorldType, Ram, File
  <2>4. r.seq = e.seq /\ r.name = e.name /\ r.stamp = e.stamp /\ r.ver = e.ver
    BY <1>2, <2>1, <2>3 DEF SameFile, Rec
  <2>. QED
    BY <2>2, <2>4 DEF Tells
<1>6. CASE CommittedPlace(fl, at)
  BY <1>2, <1>6 DEF CommittedPlace, Header, SameFile
<1>. QED
  BY <1>3, <1>4, <1>5, <1>6

\* Its live records have known seqs, its counters and its stamps tell what they told.
LEMMA PartlyKnown ==
    ASSUME BaseInv, AgreeInv, NEW fl \in [Units -> Cell], PartlyWritten(fl)
    PROVE  /\ \A e \in Live(fl) : e.seq \in KnownSeqs
           /\ \A r, k \in Emitted(fl) \cup ram.index :
                 r.seq = k.seq /\ r.stamp = k.stamp => r.ver = k.ver
<1>1. /\ flash \in [Units -> Cell] /\ RecordsKnown /\ JobIsKnown
      /\ StoreInv /\ FilesInv
  BY DEF BaseInv, StoreInv, TypeOK, WorldType, AgreeInv
<1>2. ASSUME NEW e \in Live(fl) PROVE e.seq \in KnownSeqs
  <2>1. e \in Emitted(fl) /\ ~e.dead
    BY DEF Live
  <2>2. CASE \E k \in Emitted(flash) : Tells(k, e)
    <3>1. PICK k \in Live(flash) : k.seq = e.seq
      BY <2>1, <2>2 DEF Live, Tells
    <3>2. CASE Unpublished(k.off)
      <4>1. phase = "publish" /\ k = job.rec
        BY <1>1, <3>2, PublishedLive DEF Unpublished, Live
      <4>. QED
        BY <3>1, <4>1 DEF KnownSeqs, Appending
    <3>3. CASE ~Unpublished(k.off)
      <4>1. \E r \in ram.index : r.seq = k.seq
        BY <1>1, <3>3 DEF RecordsKnown, LiveKnown
      <4>. QED
        BY <3>1, <4>1 DEF KnownSeqs
    <3>. QED
      BY <3>2, <3>3
  <2>3. CASE \E r \in ram.index : Tells(r, e)
    BY <2>3 DEF Tells, KnownSeqs
  <2>4. CASE phase = "commit" /\ SameFile(e, job.rec)
    BY <2>4 DEF SameFile, KnownSeqs, Appending
  <2>. QED
    BY <2>1, <2>2, <2>3, <2>4, PartlyEmitted
<1>. DEFINE old == Emitted(flash) \cup ram.index
            new == Emitted(fl) \cup ram.index
<1>3. ASSUME NEW e \in new
      PROVE  \/ \E k \in old : Tells(k, e)
             \/ phase = "commit" /\ SameFile(e, job.rec)
  <2>1. CASE e \in ram.index
    BY <2>1 DEF Tells
  <2>2. CASE e \in Emitted(fl)
    BY <2>2, PartlyEmitted
  <2>. QED
    BY <2>1, <2>2
<1>4. ASSUME phase = "commit", NEW k \in old
      PROVE  k.stamp # job.rec.stamp
  <2>1. k.stamp < ram.nextStamp
    BY <1>1, <1>4 DEF RecordsKnown, CountersAhead, Unpublished
  <2>2. job.rec.stamp = ram.nextStamp
    BY <1>1, <1>4 DEF JobIsKnown, Appending
  <2>3. k.stamp \in Nat /\ ram.nextStamp \in Nat
    <3>1. k \in ram.index => k \in Rec
      BY <1>1 DEF StoreInv, TypeOK, WorldType, Ram, File
    <3>2. k \in Emitted(flash) => k \in Rec
      BY <1>1, EmittedFrom
    <3>3. ram.nextStamp \in Nat
      BY <1>1 DEF StoreInv, TypeOK, WorldType, Ram
    <3>. QED
      BY <3>1, <3>2, <3>3 DEF Rec
  <2>. QED
    BY <2>1, <2>2, <2>3
<1>5. ASSUME NEW r \in new, NEW k \in new, r.seq = k.seq, r.stamp = k.stamp
      PROVE  r.ver = k.ver
  <2>1. CASE (\E x \in old : Tells(x, r)) /\ (\E y \in old : Tells(y, k))
    <3>1. PICK x \in old, y \in old : Tells(x, r) /\ Tells(y, k)
      BY <2>1
    <3>2. x.seq = y.seq /\ x.stamp = y.stamp
      BY <1>5, <3>1 DEF Tells
    <3>3. x.ver = y.ver
      BY <1>1, <3>2 DEF RecordsKnown, StampsTell
    <3>. QED
      BY <3>1, <3>3 DEF Tells
  <2>2. CASE phase = "commit" /\ SameFile(r, job.rec) /\ SameFile(k, job.rec)
    BY <2>2 DEF SameFile
  <2>3. CASE phase = "commit" /\ SameFile(r, job.rec) /\ \E y \in old : Tells(y, k)
    BY <1>4, <1>5, <2>3 DEF SameFile, Tells
  <2>4. CASE phase = "commit" /\ SameFile(k, job.rec) /\ \E x \in old : Tells(x, r)
    BY <1>4, <1>5, <2>4 DEF SameFile, Tells
  <2>. QED
    BY <1>3, <2>1, <2>2, <2>3, <2>4
<1>. QED
  BY <1>2, <1>5

\* What a reload of a flash with known live seqs tells.
LEMMA RecordsReloaded ==
    ASSUME flash' \in [Units -> Cell], ram' = ReloadOf(flash'),
           NEW S, IsFiniteSet(S), Cardinality(S) <= MaxRecs,
           \A e \in Live(flash') : e.seq \in S,
           \A r, k \in Emitted(flash') : r.seq = k.seq /\ r.stamp = k.stamp => r.ver = k.ver,
           Quiet', LiveOnce'
    PROVE  /\ RecordsKnown'
           /\ IsFiniteSet(ram'.index) /\ Cardinality(ram'.index) <= Cardinality(S)
<1>. DEFINE fl == flash'
            r == ReloadOf(fl)
<1>1. /\ r.index \subseteq Live(fl) /\ r \in Ram /\ r.nextStamp >= 1
      /\ \A e \in Live(fl) : \E k \in r.index : k.seq = e.seq /\ Precedes(k, e)
      /\ \A e \in Emitted(fl) : e.seq < r.nextSeq /\ e.stamp < r.nextStamp
      /\ r.cursor = 0 \/ \E at \in Scan(fl) : End(fl[at].rec) = r.cursor
      /\ IsFiniteSet(r.index) /\ Cardinality(r.index) <= Cardinality(S)
  BY ReloadTells
<1>2. ~Compacting' /\ \A at : ~Unpublished(at)'
  BY DEF Quiet, Compacting, Unpublished
<1>3. LiveKnown'
  <2>1. ASSUME NEW e \in Live(fl)
        PROVE  \E k \in r.index : k.seq = e.seq /\ e.stamp <= k.stamp /\ Precedes(k, e)
    <3>1. PICK k \in r.index : k.seq = e.seq /\ Precedes(k, e)
      BY <1>1
    <3>2. k.stamp \in Nat /\ e.stamp \in Nat
      BY <1>1, EmittedFrom DEF Live
    <3>. QED
      BY <3>1, <3>2 DEF Precedes
  <2>. QED
    BY <2>1 DEF LiveKnown
<1>4. IndexLive' /\ CountersAhead' /\ StampsTell'
  BY <1>1, <1>2 DEF IndexLive, CountersAhead, StampsTell, Live
<1>5. CursorTold'
  BY <1>1, <1>2 DEF CursorTold
<1>. QED
  BY <1>1, <1>3, <1>4, <1>5 DEF RecordsKnown

-----------------------------------------------------------------------------
(* A save and a delete begin.                                                 *)

\* An append starts clear of every record, with the stamp that is due.
LEMMA AppendStartsClear ==
    ASSUME NEW fl \in [Units -> Cell], NEW r \in Ram, NEW rec \in Rec, ~rec.dead,
           NEW old, NEW existed, FindPlace(fl, r, Size(rec)) # NoPlace,
           GoAppend(fl, r, rec, old, existed, FindPlace(fl, r, Size(rec))),
           flash' = fl, \A at \in Scan(fl) : End(fl[at].rec) <= r.cursor
    PROVE  /\ phase' \in {"erase", "header"} /\ ScanApart'
           /\ job'.old = old /\ job'.existed = existed /\ ~job'.rec.dead
           /\ job'.rec.seq = rec.seq /\ job'.rec.stamp = r.nextStamp
<1>1. ASSUME NEW x \in Emitted(fl)
      PROVE  Stands(fl, x) /\ End(x) <= r.cursor
  <2>1. Stands(fl, x) /\ x.off \in Scan(fl) /\ SameFile(x, fl[x.off].rec)
    BY EmittedStands, EmittedFrom
  <2>2. End(x) = End(fl[x.off].rec)
    BY <2>1 DEF SameFile, End, Size
  <2>. QED
    BY <2>1, <2>2
<1>2. Emitted(fl) \in SUBSET File
  BY EmittedFiles
<1>3. /\ phase' \in {"erase", "header"}
      /\ \A x \in Emitted(fl) :
            Extent(x.off, Size(x)) \cap Cleared(job'.rec.off, Size(job'.rec)) = {}
  BY <1>1, <1>2, AppendBegins
<1>4. ScanApart'
  <2>1. ASSUME NEW at \in Scan(fl)
        PROVE  Extent(at, Size(fl[at].rec)) \cap Cleared(job'.rec.off, Size(job'.rec)) = {}
    <3>. DEFINE x == RecordAt(fl, at)
    <3>1. x \in Emitted(fl) /\ x.off = at /\ SameFile(x, fl[at].rec)
      BY EmittedAt
    <3>. HIDE DEF x
    <3>2. Size(x) = Size(fl[at].rec)
      BY <3>1 DEF SameFile, Size
    <3>. QED
      BY <1>3, <3>1, <3>2
  <2>. QED
    BY <2>1 DEF ScanApart
<1>5. /\ job'.old = old /\ job'.existed = existed /\ ~job'.rec.dead
      /\ job'.rec.seq = rec.seq /\ job'.rec.stamp = r.nextStamp
  <2>1. job' = [rec |-> [rec EXCEPT !.off = FindPlace(fl, r, Size(rec)), !.stamp = r.nextStamp],
                old |-> old, existed |-> existed]
    BY DEF GoAppend
  <2>. QED
    BY <2>1 DEF Rec
<1>. QED
  BY <1>3, <1>4, <1>5

\* The header of a copy is as live as the file it is a copy of.
LEMMA BuiltHeader ==
    ASSUME NEW fl, NEW pl, PlanSound(pl), OffsDiffer(pl), NEW r \in pl.keep
    PROVE  /\ pl.to[r] \in NewExtent(pl, r) /\ pl.to[r] \in PageUnits(PageOf(pl.to[r]))
           /\ BuildPage(fl, pl.keep, pl.to, PageOf(pl.to[r]))[pl.to[r]] = HeaderAnew(r, pl.to[r])
<1>. DEFINE u == pl.to[r]
            owners == { k \in pl.keep : u \in Extent(pl.to[k], Size(k)) }
            own == CHOOSE k \in owners : TRUE
<1>1. r \in Rec /\ u \in Units /\ u \in Nat
  BY LogFacts DEF PlanSound, PlanHolds, File
<1>2. u \in NewExtent(pl, r) /\ u \in PageUnits(PageOf(u))
  BY <1>1, RecFacts DEF NewExtent, Extent, PageUnits
<1>3. own \in owners /\ owners # {}
  BY <1>2 DEF NewExtent
<1>4. own = r
  BY <1>2, <1>3, NewPlacesApart DEF NewExtent
<1>5. BuildPage(fl, pl.keep, pl.to, PageOf(u))[u] =
         IF owners = {} THEN Erased
         ELSE IF u = pl.to[own] THEN HeaderAnew(own, pl.to[own])
         ELSE fl[u - pl.to[own] + own.off]
  BY <1>2 DEF BuildPage
<1>. HIDE DEF own, owners
<1>6. BuildPage(fl, pl.keep, pl.to, PageOf(u))[u] = HeaderAnew(r, u)
  BY <1>3, <1>4, <1>5
<1>. QED
  BY <1>2, <1>6

\* From page f on, a repack of live files makes live copies.
LEMMA CopiesGoOn ==
    ASSUME NEW fl, NEW pl, PlanSound(pl), OffsDiffer(pl), pl.pinned = {}, NEW f \in Nat,
           plan' = pl, flash' = fl, GoCompact(fl, pl, f),
           \A r \in pl.keep : /\ ~r.dead
                              /\ PageOf(pl.to[r]) < f => ~fl[pl.to[r]].dead
                              /\ f <= PageOf(r.off) => Stands(fl, r) /\ ~fl[r.off].dead
    PROVE  CopiesLive'
<1>. DEFINE Built(p) == BuildPage(fl, pl.keep, pl.to, p)
            todo == { p \in RepackPages(pl) :
                        p >= f /\ \E u \in PageUnits(p) : Built(p)[u] # fl[u] }
<1>1. todo \in SUBSET Nat
  BY GeometryAssumption DEF Pages, RepackPages
<1>2. ASSUME NEW r \in pl.keep
      PROVE  /\ PageOf(pl.to[r]) \in RepackPages(pl) /\ PageOf(pl.to[r]) \in Nat
             /\ PageOf(r.off) \in Nat
             /\ pl.to[r] \in PageUnits(PageOf(pl.to[r]))
             /\ Built(PageOf(pl.to[r]))[pl.to[r]] = HeaderAnew(r, pl.to[r])
             /\ ~HeaderAnew(r, pl.to[r]).dead
  <2>1. pl.to[r] \in NewExtent(pl, r)
    BY BuiltHeader
  <2>2. FrozenPages(pl.keep, pl.pinned) = {}
    BY DEF FrozenPages
  <2>3. r.off \in Nat /\ PageOf(r.off) \in Nat
    BY RecFacts, OnItsPage DEF PlanSound, File
  <2>4. PageOf(pl.to[r]) \in RepackPages(pl)
    BY <2>1, <2>2, NewPagesKnown
  <2>5. PageOf(pl.to[r]) \in Nat /\ pl.to[r] \in PageUnits(PageOf(pl.to[r]))
    BY <2>1, NewPlace
  <2>6. Built(PageOf(pl.to[r]))[pl.to[r]] = HeaderAnew(r, pl.to[r])
    BY BuiltHeader
  <2>7. ~HeaderAnew(r, pl.to[r]).dead
    BY DEF HeaderAnew, Header
  <2>. QED
    BY <2>3, <2>4, <2>5, <2>6, <2>7
<1>3. ASSUME NEW r \in pl.keep, PageOf(pl.to[r]) \notin todo
      PROVE  ~fl[pl.to[r]].dead
  <2>1. CASE PageOf(pl.to[r]) < f
    BY <2>1
  <2>2. CASE PageOf(pl.to[r]) >= f
    <3>1. Built(PageOf(pl.to[r]))[pl.to[r]] = fl[pl.to[r]]
      BY <1>2, <1>3, <2>2
    <3>. QED
      BY <1>2, <3>1
  <2>. QED
    BY <1>2, <2>1, <2>2
<1>4. CASE todo = {}
  <2>1. GoSweep(fl, pl)
    BY <1>4 DEF GoCompact
  <2>2. phase' \in {"sweep", "reload"}
    BY <2>1 DEF GoSweep
  <2>. QED
    BY <1>3, <1>4, <2>2 DEF CopiesLive
<1>5. CASE todo # {}
  <2>. DEFINE p == Min(todo)
  <2>1. page' = p /\ buf' = Built(p) /\ phase' \in {"vacate", "rewrite"}
    BY <1>5 DEF GoCompact
  <2>2. p \in todo /\ \A q \in todo : p <= q
    BY <1>1, <1>5, MinExists
  <2>3. p \in Nat /\ f <= p
    BY <1>1, <2>2
  <2>. HIDE DEF p
  <2>4. ASSUME NEW r \in pl.keep
        PROVE  /\ PageOf(pl.to[r]) < p => ~fl[pl.to[r]].dead
               /\ PageOf(pl.to[r]) = p => ~buf'[pl.to[r]].dead
               /\ p < PageOf(r.off) => Stands(fl, r) /\ ~fl[r.off].dead
    <3>1. PageOf(pl.to[r]) < p => PageOf(pl.to[r]) \notin todo
      BY <1>1, <2>2, <2>3
    <3>2. p < PageOf(r.off) => f <= PageOf(r.off)
      BY <1>2, <2>3
    <3>3. PageOf(pl.to[r]) = p => ~buf'[pl.to[r]].dead
      <4>. HIDE DEF todo
      <4>. QED
        BY <1>2, <2>1
    <3>. QED
      BY <1>3, <3>1, <3>2, <3>3
  <2>. QED
    BY <2>1, <2>4 DEF CopiesLive, CopyLive
<1>. QED
  BY <1>4, <1>5

\* In a compaction the records are known by their stamps alone.
LEMMA RecordsOfIndex ==
    ASSUME RecordsKnown, StoreInv, UNCHANGED <<flash, ram>>, Quiet, Compacting'
    PROVE  RecordsKnown'
<1>1. \A at : ~Unpublished(at) /\ ~Unpublished(at)'
  BY DEF Quiet, Compacting, Unpublished
<1>2. LiveKnown' /\ IndexLive'
  BY <1>1 DEF RecordsKnown, LiveKnown, IndexLive
<1>3. LiveOnce' /\ CursorTold'
  BY DEF LiveOnce, CursorTold
<1>4. CountersAhead' /\ StampsTell'
  BY <1>1 DEF RecordsKnown, CountersAhead, StampsTell
<1>. QED
  BY <1>2, <1>3, <1>4 DEF RecordsKnown

\* A request that ends or stays asks for no new delete.
LEMMA DeletesStay ==
    ASSUME StoreInv, DeletesAllowed, req' = req \/ \E c \in Clients : req' = [req EXCEPT ![c] = Idle]
    PROVE  DeletesAllowed'
<1>1. req \in [Clients -> Requests]
  BY DEF StoreInv, TypeOK, TaskType
<1>2. ASSUME NEW d \in Clients, req'[d].op = "delete"
      PROVE  req[d].op = "delete"
  BY <1>1, <1>2 DEF Idle
<1>. QED
  BY <1>2 DEF DeletesAllowed

\* A save begins with a file the index knows, or with a seq and room for it.
LEMMA BeginSaveAgrees ==
    ASSUME BaseInv, AgreeInv, NEW c \in Clients, BeginSave(c)
    PROVE  AgreeInv'
<1>. DEFINE q == req[c]
            old == RecByName(q.name)
            seq == IF old = NoRec THEN ram.nextSeq ELSE The(old).seq
            off == FindPlace(flash, ram, 1 + q.len)
            pl == CompactionPlan
            rec == [ off |-> 0, name |-> q.name, seq |-> seq, stamp |-> 0,
                     ver |-> q.ver, len |-> q.len, dead |-> FALSE ]
<1>1. /\ q.op = "save" /\ holder = NoClient /\ phase = "none"
      /\ flash' = flash /\ ram' = ram /\ UNCHANGED <<flash, ram, ota, pins>>
  BY SaveBegins DEF BeginSave, BaseInv
<1>2. q.name \in Names /\ q.len \in Lens /\ q.ver \in Versions
  BY <1>1 DEF BaseInv, StoreInv, TypeOK, TaskType, Requests, Idle
<1>3. /\ flash \in [Units -> Cell] /\ ram \in Ram /\ ram.index \subseteq File
      /\ StoreInv /\ FilesInv /\ RoomInv /\ RecordsKnown /\ RoomInIndex
  BY DEF BaseInv, StoreInv, TypeOK, WorldType, Ram, AgreeInv
<1>4. \A at \in Scan(flash) : End(flash[at].rec) <= ram.cursor
  BY <1>1, <1>3 DEF RoomInv, KnownBelow, Compacting
<1>5. old \subseteq ram.index /\ (old # NoRec => The(old) \in ram.index /\ seq = The(old).seq) /\ seq \in Nat
  <2>1. old \subseteq ram.index
    BY DEF RecByName
  <2>2. old # NoRec => The(old) \in old
    BY Zenon DEF The, NoRec
  <2>. HIDE DEF old
  <2>. QED
    BY <2>1, <2>2, <1>3 DEF Ram, File, Rec
<1>6. rec \in Rec /\ Size(rec) = 1 + q.len /\ ~rec.dead /\ rec.seq = seq
  <2>. HIDE DEF seq, q
  <2>. QED
    BY <1>2, <1>5, LogFacts DEF Rec, Size
<1>7. DeletesAllowed'
  <2>1. req' = req \/ req' = [req EXCEPT ![c] = Idle]
    BY DEF BeginSave
  <2>. QED
    BY <1>3, <2>1, DeletesStay DEF AgreeInv
<1>8. \/ UNCHANGED <<holder, locals>>
      \/ /\ old = NoRec => ~(Cardinality(ram.index) >= MaxRecs)
         /\ \/ off # NoPlace /\ GoAppend(flash, ram, rec, old, old # NoRec, off)
            \/ /\ off = NoPlace /\ ~Refused(pl, 1 + q.len)
               /\ job' = [rec |-> rec, old |-> old, existed |-> old # NoRec]
               /\ plan' = pl /\ GoCompact(flash, pl, 0)
  BY DEF BeginSave
<1>9. CASE UNCHANGED <<holder, locals>>
  BY <1>1, <1>7, <1>9, AgreeAside
<1>10. ASSUME old = NoRec => ~(Cardinality(ram.index) >= MaxRecs),
              job'.old = old, job'.existed = (old # NoRec), ~job'.rec.dead, job'.rec.seq = seq,
              phase' \in {"erase", "header"} => job'.rec.stamp = ram.nextStamp,
              phase' \in {"erase", "header"} \/ (Compacting' /\ plan'.keep = ram.index)
       PROVE  JobIsKnown' /\ RoomInIndex'
  <2>1. Appending' => phase' \in {"erase", "header"}
    BY <1>10 DEF Appending, Compacting
  <2>2. phase' # "publish" /\ phase' # "retire"
    BY <1>10 DEF Compacting
  <2>3. old = NoRec => Cardinality(ram.index) < MaxRecs
    BY <1>3, <1>10, FS_CardinalityType, StoreAssumption DEF RoomInIndex
  <2>4. old = NoRec => seq >= ram.nextSeq
    BY <1>3 DEF Ram
  <2>. HIDE DEF old, seq
  <2>5. Compacting' => plan'.keep = ram.index
    BY <1>10 DEF Compacting
  <2>6. JobIsKnown'
    BY <1>1, <1>5, <1>10, <2>1, <2>2, <2>4, <2>5 DEF JobIsKnown
  <2>7. RoomInIndex'
    BY <1>1, <1>3, <1>10, <2>3 DEF RoomInIndex
  <2>. QED
    BY <2>6, <2>7
<1>11. CASE /\ old = NoRec => ~(Cardinality(ram.index) >= MaxRecs)
            /\ off # NoPlace /\ GoAppend(flash, ram, rec, old, old # NoRec, off)
  <2>1. /\ phase' \in {"erase", "header"} /\ ScanApart'
        /\ job'.old = old /\ job'.existed = (old # NoRec) /\ ~job'.rec.dead
        /\ job'.rec.seq = seq /\ job'.rec.stamp = ram.nextStamp
    <3>. DEFINE existed == old # NoRec
    <3>1. GoAppend(flash, ram, rec, old, existed, FindPlace(flash, ram, Size(rec)))
            /\ FindPlace(flash, ram, Size(rec)) # NoPlace
      BY <1>6, <1>11
    <3>. HIDE DEF rec, old, existed
    <3>2. /\ phase' \in {"erase", "header"} /\ ScanApart'
          /\ job'.old = old /\ job'.existed = existed /\ ~job'.rec.dead
          /\ job'.rec.seq = rec.seq /\ job'.rec.stamp = ram.nextStamp
      BY <1>1, <1>3, <1>4, <1>6, <3>1, AppendStartsClear
    <3>. QED
      BY <1>6, <3>2 DEF existed
  <2>2. JobIsKnown' /\ RoomInIndex'
    BY <1>10, <1>11, <2>1
  <2>3. Quiet /\ Quiet'
    BY <1>1, <2>1 DEF Quiet
  <2>4. RecordsKnown'
    BY <1>1, <1>3, <2>3, RecordsStay
  <2>5. CopiesLive'
    BY <2>1 DEF CopiesLive
  <2>. QED
    BY <1>7, <2>1, <2>2, <2>4, <2>5 DEF AgreeInv
<1>12. CASE /\ old = NoRec => ~(Cardinality(ram.index) >= MaxRecs)
            /\ ~Refused(pl, 1 + q.len) /\ job' = [rec |-> rec, old |-> old, existed |-> old # NoRec]
            /\ plan' = pl /\ GoCompact(flash, pl, 0)
  <2>1. phase' \in {"vacate", "rewrite", "sweep", "reload"}
    BY <1>12 DEF GoCompact, GoSweep
  <2>2. pl.pinned = {} /\ pl.keep = ram.index
    BY DEF CompactionPlan, Pinned, BaseInv, NothingPinned
  <2>3. PlanSound(pl)
    BY <1>3, <1>12, <2>2 DEF Refused, PlanSound
  <2>4. (\A r \in pl.keep : Stands(flash, r)) /\ OffsDiffer(pl)
    BY <1>1, <1>3, PlannedFiles DEF Compacting
  <2>5. ASSUME NEW r \in pl.keep
        PROVE  ~r.dead /\ ~flash[r.off].dead /\ PageOf(pl.to[r]) \in Nat
    <3>1. r \in Emitted(flash) /\ ~r.dead
      BY <1>1, <1>3, <2>2 DEF RecordsKnown, IndexLive, Compacting, Live
    <3>2. r.dead = flash[r.off].dead
      BY <1>3, <3>1, EmittedFrom
    <3>3. PageOf(pl.to[r]) \in Nat
      BY <2>3, LogFacts, OnItsPage DEF PlanSound, PlanHolds
    <3>. QED
      BY <3>1, <3>2, <3>3
  <2>6. JobIsKnown' /\ RoomInIndex'
    <3>1. Compacting' /\ plan'.keep = ram.index
      BY <1>12, <2>1, <2>2 DEF Compacting
    <3>2. /\ job'.old = old /\ job'.existed = (old # NoRec) /\ ~job'.rec.dead
          /\ job'.rec.seq = seq
      BY <1>12
    <3>. QED
      BY <1>10, <1>12, <2>1, <3>1, <3>2
  <2>. HIDE DEF pl
  <2>7. CopiesLive'
    BY <1>1, <1>12, <2>2, <2>3, <2>4, <2>5, CopiesGoOn
  <2>8. RecordsKnown'
    BY <1>1, <1>3, <2>1, RecordsOfIndex DEF Quiet, Compacting
  <2>9. ScanApart'
    BY <2>1 DEF ScanApart
  <2>. QED
    BY <1>7, <2>6, <2>7, <2>8, <2>9 DEF AgreeInv
<1>. QED
  BY <1>8, <1>9, <1>11, <1>12

\* A delete begins with a live file of the index.
LEMMA BeginDeleteAgrees ==
    ASSUME BaseInv, AgreeInv, ~StaleLookups, NEW c \in Clients, BeginDelete(c)
    PROVE  AgreeInv'
<1>1. /\ phase = "none" /\ phase' = "delete" /\ flash' = flash /\ ram' = ram /\ req' = req
      /\ job'.rec \in ram.index
  BY DEF BeginDelete, GuardFree, Fresh, BaseInv, StoreInv, TypeOK, TaskType
<1>2. Quiet /\ Quiet' /\ ~Appending' /\ ~Compacting'
  BY <1>1 DEF Quiet, Appending, Compacting
<1>3. RecordsKnown'
  BY <1>1, <1>2, RecordsStay DEF AgreeInv
<1>4. JobIsKnown' /\ DeletesAllowed'
  BY <1>1, <1>2 DEF JobIsKnown, DeletesAllowed, AgreeInv, RecordsKnown, IndexLive
<1>5. RoomInIndex' /\ ScanApart' /\ CopiesLive'
  BY <1>1, <1>2 DEF RoomInIndex, ScanApart, CopiesLive, AgreeInv
<1>. QED
  BY <1>3, <1>4, <1>5 DEF AgreeInv

-----------------------------------------------------------------------------
(* A compaction, and the reload after it.                                     *)

\* Within a compaction an operation brings up nothing unknown.
LEMMA CompactionKnows ==
    ASSUME BaseInv, AgreeInv, Compacting, Compacting', flash' \in [Units -> Cell],
           NEW lost, Operate(lost), UNCHANGED ram
    PROVE  RecordsKnown'
<1>1. /\ PartlyWritten(flash') /\ RecordsKnown /\ ram' = ram
      /\ phase # "commit" /\ phase # "publish" /\ phase' # "publish"
  BY PartlyTorn DEF AgreeInv, Compacting
<1>2. \A at : ~Unpublished(at) /\ ~Unpublished(at)'
  BY <1>1 DEF Unpublished
<1>. DEFINE old == Emitted(flash) \cup ram.index
<1>3. ASSUME NEW e \in Emitted(flash')
      PROVE  \E k \in old : Tells(k, e)
  BY <1>1, PartlyEmitted
<1>4. LiveKnown'
  <2>1. ASSUME NEW e \in Live(flash')
        PROVE  \E r \in ram.index : r.seq = e.seq /\ e.stamp <= r.stamp
    <3>1. PICK k \in old : Tells(k, e)
      BY <1>3 DEF Live
    <3>2. CASE k \in ram.index
      <4>1. k.stamp = e.stamp /\ k.stamp \in Nat /\ k.seq = e.seq
        BY <3>1, <3>2 DEF Tells, BaseInv, StoreInv, TypeOK, WorldType, Ram, File, Rec
      <4>. QED
        BY <3>2, <4>1
    <3>3. CASE k \in Emitted(flash)
      <4>1. k \in Live(flash) /\ k.seq = e.seq /\ k.stamp = e.stamp
        BY <3>1, <3>3 DEF Live, Tells
      <4>. QED
        BY <1>1, <1>2, <4>1 DEF RecordsKnown, LiveKnown
    <3>. QED
      BY <3>2, <3>3
  <2>. QED
    BY <1>1, <2>1 DEF LiveKnown
<1>5. IndexLive' /\ LiveOnce' /\ CursorTold'
  BY <1>1 DEF RecordsKnown, IndexLive, LiveOnce, CursorTold
<1>6. CountersAhead'
  <2>1. ASSUME NEW e \in Emitted(flash') \cup ram.index
        PROVE  e.seq < ram.nextSeq /\ e.stamp < ram.nextStamp
    <3>1. \E k \in old : Tells(k, e)
      BY <1>3 DEF Tells
    <3>. QED
      BY <1>1, <1>2, <3>1 DEF RecordsKnown, CountersAhead, Tells
  <2>. QED
    BY <1>1, <2>1 DEF RecordsKnown, CountersAhead
<1>7. StampsTell'
  BY <1>1, PartlyKnown DEF StampsTell
<1>. QED
  BY <1>4, <1>5, <1>6, <1>7 DEF RecordsKnown

\* The rest of what is known, but for the copies, does not look at the flash.
LEMMA CompactionAgrees ==
    ASSUME BaseInv, AgreeInv, Compacting, Compacting', flash' \in [Units -> Cell],
           NEW lost, Operate(lost), UNCHANGED <<ram, job, plan, req>>, CopiesLive'
    PROVE  AgreeInv'
<1>1. ram' = ram /\ job' = job /\ plan' = plan /\ req' = req
  OBVIOUS
<1>2. RecordsKnown'
  BY <1>1, CompactionKnows
<1>3. phase # "none" /\ phase' \notin {"publish", "retire"} /\ ~Appending'
  BY DEF Compacting, Appending
<1>4. JobIsKnown'
  BY <1>1, <1>3 DEF AgreeInv, JobIsKnown
<1>5. RoomInIndex' /\ DeletesAllowed'
  BY <1>1, <1>3 DEF AgreeInv, RoomInIndex, DeletesAllowed
<1>6. ScanApart'
  BY DEF ScanApart, Compacting
<1>. QED
  BY <1>2, <1>4, <1>5, <1>6 DEF AgreeInv

\* What an operation of a compaction does: one page, and the plan still holds.
LEMMA CompactionPage ==
    ASSUME BaseInv, AgreeInv, MaxLeases = 0, phase \in {"vacate", "rewrite", "sweep"},
           NEW lost \in BOOLEAN, Operate(lost)
    PROVE  /\ Succeeded(lost) /\ PlanSound(plan) /\ OffsDiffer(plan) /\ plan.pinned = {}
           /\ page \in Nat /\ page \notin FrozenPages(plan.keep, plan.pinned)
           /\ \A u \in Units : u \notin PageUnits(page) => flash'[u] = flash[u]
           /\ phase = "rewrite" => \A u \in PageUnits(page) : flash'[u] = buf[u]
           /\ \A r \in plan.keep : /\ r \in File /\ ~r.dead /\ plan.to[r] \in Units
                                   /\ PageOf(plan.to[r]) \in Nat /\ plan.to[r] <= r.off
<1>1. /\ StoreInv /\ RepackInv /\ ~ota /\ Compacting
  BY DEF BaseInv, RepackInv, Compacting
<1>2. /\ PlanSound(plan) /\ OffsDiffer(plan) /\ plan.pinned = {} /\ page \in Nat
      /\ page \notin FrozenPages(plan.keep, plan.pinned)
  BY <1>1, GeometryAssumption
     DEF StoreInv, CompactionSound, RepackInv, BaseInv, NothingPinned, Pages, SweepPages, FrozenPages
<1>3. Succeeded(lost) /\ \A u \in Units : flash'[u] = IF u \in DOMAIN Written THEN Written[u] ELSE flash[u]
  BY <1>1, Performed
<1>4. DOMAIN Written = PageUnits(page)
  <2>1. CASE phase = "rewrite"
    <3>1. Written = [u \in PageUnits(page) |-> Program(flash[u], buf[u])]
      BY <2>1 DEF Written
    <3>. QED
      BY <3>1
  <2>2. CASE phase \in {"vacate", "sweep"}
    <3>1. Written = [u \in PageUnits(page) |-> Erased]
      BY <2>2 DEF Written
    <3>. QED
      BY <3>1
  <2>. QED
    BY <2>1, <2>2
<1>5. ASSUME phase = "rewrite", NEW u \in PageUnits(page)
      PROVE  flash'[u] = buf[u]
  <2>1. Written = [v \in PageUnits(page) |-> Program(flash[v], buf[v])]
    BY <1>5 DEF Written
  <2>2. flash[u] = Erased /\ u \in Units
    BY <1>1, <1>5 DEF RepackInv, PageErased, ErasedRange, PageUnits
  <2>. QED
    BY <1>3, <1>5, <2>1, <2>2 DEF Program
<1>6. ASSUME NEW r \in plan.keep
      PROVE  /\ r \in File /\ ~r.dead /\ plan.to[r] \in Units
             /\ PageOf(plan.to[r]) \in Nat /\ plan.to[r] <= r.off
  <2>1. r \in File /\ plan.to[r] \in Units /\ plan.to[r] <= r.off
    BY <1>2 DEF PlanSound, PlanHolds
  <2>2. ~r.dead
    BY <1>1 DEF AgreeInv, JobIsKnown, RecordsKnown, IndexLive
  <2>. QED
    BY <2>1, <2>2, LogFacts, OnItsPage
<1>. QED
  BY <1>2, <1>3, <1>4, <1>5, <1>6

\* A file that stands above the page of an operation still does.
LEMMA StandsAbove ==
    ASSUME NEW fl \in [Units -> Cell], NEW gl, NEW p \in Nat, NEW r \in File, Stands(fl, r), p < PageOf(r.off),
           \A u \in Units : u \notin PageUnits(p) => gl[u] = fl[u]
    PROVE  Stands(gl, r) /\ gl[r.off] = fl[r.off]
<1>1. /\ r.off \in Nat /\ Size(r) \in Nat \ {0} /\ r.off \in Extent(r.off, Size(r))
      /\ PageOf(r.off) \in Nat /\ PageOf(r.off) * PageSize <= r.off
  BY RecFacts, OnItsPage DEF File, Extent
<1>2. /\ p * PageSize + PageSize <= PageOf(r.off) * PageSize
      /\ p * PageSize \in Nat /\ PageOf(r.off) * PageSize \in Nat
  BY <1>1, PagesInOrder
<1>3. ASSUME NEW u \in Extent(r.off, Size(r))
      PROVE  gl[u] = fl[u]
  <2>1. u \in Units /\ u \in Nat /\ r.off <= u
    BY <1>1, <1>3, StandsFacts DEF Extent
  <2>2. PageOf(u) # p
    <3>1. u < PageOf(u) * PageSize + PageSize
      BY <2>1, OnItsPage
    <3>. QED
      BY <1>1, <1>2, <2>1, <3>1, GeometryAssumption
  <2>. QED
    BY <2>1, <2>2 DEF PageUnits
<1>. QED
  BY <1>1, <1>3, StandsOn

\* The page in hand is erased, and its content is in the buffer.
LEMMA VacateAgrees ==
    ASSUME BaseInv, StoreInv', AgreeInv, MaxLeases = 0,
           NEW c \in Clients, NEW lost \in BOOLEAN, VacateOp(c, lost)
    PROVE  AgreeInv'
<1>1. /\ phase = "vacate" /\ Operate(lost) /\ UNCHANGED <<ram, job, plan, req>> /\ plan' = plan
      /\ flash \in [Units -> Cell] /\ flash' \in [Units -> Cell]
  BY DEF VacateOp, BaseInv, StoreInv, TypeOK, WorldType
<1>2. /\ Succeeded(lost) /\ page \in Nat
      /\ \A u \in Units : u \notin PageUnits(page) => flash'[u] = flash[u]
      /\ \A r \in plan.keep : r \in File /\ plan.to[r] \in Units
  BY <1>1, CompactionPage
<1>3. phase' = "rewrite" /\ page' = page /\ buf' = buf
  BY <1>2 DEF VacateOp
<1>4. ASSUME NEW r \in plan.keep
      PROVE  CopyLive(r)'
  <2>1. CopyLive(r)
    BY <1>1 DEF AgreeInv, CopiesLive
  <2>2. PageOf(plan.to[r]) < page => flash'[plan.to[r]] = flash[plan.to[r]]
    BY <1>2 DEF PageUnits
  <2>3. page < PageOf(r.off) => Stands(flash', r) /\ ~flash'[r.off].dead
    BY <1>1, <1>2, <2>1, StandsAbove DEF CopyLive
  <2>. QED
    BY <1>1, <1>3, <2>1, <2>2, <2>3 DEF CopyLive
<1>5. CopiesLive'
  BY <1>1, <1>3, <1>4 DEF CopiesLive
<1>. QED
  BY <1>1, <1>3, <1>5, CompactionAgrees DEF Compacting

\* The buffer is written: the copies on one page more are live.
LEMMA RewriteAgrees ==
    ASSUME BaseInv, StoreInv', AgreeInv, MaxLeases = 0,
           NEW c \in Clients, NEW lost \in BOOLEAN, RewriteOp(c, lost)
    PROVE  AgreeInv'
<1>1. /\ phase = "rewrite" /\ Operate(lost) /\ UNCHANGED <<ram, job, plan, req>> /\ plan' = plan
      /\ flash \in [Units -> Cell] /\ flash' \in [Units -> Cell]
  BY DEF RewriteOp, BaseInv, StoreInv, TypeOK, WorldType
<1>2. /\ Succeeded(lost) /\ page \in Nat /\ PlanSound(plan) /\ OffsDiffer(plan) /\ plan.pinned = {}
      /\ \A u \in Units : u \notin PageUnits(page) => flash'[u] = flash[u]
      /\ \A u \in PageUnits(page) : flash'[u] = buf[u]
      /\ \A r \in plan.keep : /\ r \in File /\ ~r.dead /\ plan.to[r] \in Units
                              /\ PageOf(plan.to[r]) \in Nat
  BY <1>1, CompactionPage
<1>3. GoCompact(flash', plan, page + 1) /\ page + 1 \in Nat
  BY <1>2 DEF RewriteOp
<1>4. ASSUME NEW r \in plan.keep
      PROVE  /\ ~r.dead
             /\ PageOf(plan.to[r]) < page + 1 => ~flash'[plan.to[r]].dead
             /\ page + 1 <= PageOf(r.off) => Stands(flash', r) /\ ~flash'[r.off].dead
  <2>1. CopyLive(r)
    BY <1>1 DEF AgreeInv, CopiesLive
  <2>2. PageOf(plan.to[r]) = page => ~flash'[plan.to[r]].dead
    <3>1. PageOf(plan.to[r]) = page => flash'[plan.to[r]] = buf[plan.to[r]]
      BY <1>2 DEF PageUnits
    <3>. QED
      BY <2>1, <3>1 DEF CopyLive
  <2>3. PageOf(plan.to[r]) < page => ~flash'[plan.to[r]].dead
    <3>1. PageOf(plan.to[r]) < page => flash'[plan.to[r]] = flash[plan.to[r]]
      BY <1>2 DEF PageUnits
    <3>. QED
      BY <2>1, <3>1 DEF CopyLive
  <2>4. PageOf(plan.to[r]) < page + 1 => PageOf(plan.to[r]) < page \/ PageOf(plan.to[r]) = page
    BY <1>2
  <2>5. PageOf(plan.to[r]) < page + 1 => ~flash'[plan.to[r]].dead
    BY <2>2, <2>3, <2>4
  <2>6. PageOf(r.off) \in Nat
    BY <1>2, RecFacts, OnItsPage DEF File
  <2>7. page + 1 <= PageOf(r.off) => Stands(flash', r) /\ ~flash'[r.off].dead
    <3>1. page + 1 <= PageOf(r.off) => page < PageOf(r.off)
      BY <1>2, <2>6
    <3>. QED
      BY <1>1, <1>2, <2>1, <3>1, StandsAbove DEF CopyLive
  <2>. QED
    BY <1>2, <2>5, <2>7
<1>5. CopiesLive'
  BY <1>1, <1>2, <1>3, <1>4, CopiesGoOn
<1>6. phase' \in {"vacate", "rewrite", "sweep", "reload"}
  BY <1>3 DEF GoCompact, GoSweep
<1>. QED
  BY <1>1, <1>5, <1>6, CompactionAgrees DEF Compacting

\* A page above all copies is erased.
LEMMA SweepAgrees ==
    ASSUME BaseInv, StoreInv', AgreeInv, MaxLeases = 0,
           NEW c \in Clients, NEW lost \in BOOLEAN, SweepOp(c, lost)
    PROVE  AgreeInv'
<1>1. /\ phase = "sweep" /\ Operate(lost) /\ UNCHANGED <<ram, job, plan, req>> /\ plan' = plan
      /\ flash \in [Units -> Cell] /\ flash' \in [Units -> Cell]
  BY DEF SweepOp, BaseInv, StoreInv, TypeOK, WorldType
<1>2. /\ Succeeded(lost) /\ page \in Nat
      /\ \A u \in Units : u \notin PageUnits(page) => flash'[u] = flash[u]
      /\ \A r \in plan.keep : r \in File /\ plan.to[r] \in Units
  BY <1>1, CompactionPage
<1>3. phase' \in {"sweep", "reload"}
  BY <1>2 DEF SweepOp, GoSweep
<1>4. ASSUME NEW r \in plan.keep
      PROVE  ~flash'[plan.to[r]].dead
  <2>1. ~flash[plan.to[r]].dead
    BY <1>1 DEF AgreeInv, CopiesLive
  <2>2. plan.to[r] + Size(r) <= page * PageSize
    BY <1>1 DEF BaseInv, StoreInv, CompactionSound, SweepPages
  <2>3. plan.to[r] \in Nat /\ Size(r) \in Nat \ {0} /\ page * PageSize \in Nat
    BY <1>2, LogFacts, RecFacts, PagesInOrder DEF File
  <2>4. plan.to[r] \notin PageUnits(page)
    <3>1. PageOf(plan.to[r]) * PageSize <= plan.to[r]
      BY <2>3, OnItsPage
    <3>2. PageOf(plan.to[r]) # page
      BY <2>2, <2>3, <3>1
    <3>. QED
      BY <3>2 DEF PageUnits
  <2>. QED
    BY <1>2, <2>1, <2>4
<1>5. CopiesLive'
  BY <1>1, <1>3, <1>4 DEF CopiesLive
<1>. QED
  BY <1>1, <1>3, <1>5, CompactionAgrees DEF Compacting

\* A flash a compaction has delivered holds no record but the copies.
LEMMA DeliveredCopies ==
    ASSUME NEW fl \in [Units -> Cell], NEW pl, Delivered(fl, pl), NEW e \in Emitted(fl)
    PROVE  \E r \in pl.keep : /\ e.off = pl.to[r] /\ e.seq = r.seq /\ e.name = r.name
                              /\ e.stamp = r.stamp /\ e.ver = r.ver
<1>. DEFINE at == e.off
<1>1. /\ at \in Units /\ at \in Scan(fl) /\ fl[at].kind = "header" /\ SameFile(e, fl[at].rec)
  BY EmittedFrom DEF Scan, Accepts, HeaderAt
<1>2. fl[at] # Erased /\ PageOf(at) * PageSize < pl.oldEnd
  BY <1>1 DEF Erased, Delivered
<1>3. /\ Packed(pl.keep, pl.to) \in Nat /\ PageOf(at) * PageSize \in Nat
  BY <1>1, PackedEnds, LogFacts, OnItsPage, PagesInOrder DEF Delivered
<1>4. PageOf(at) * PageSize < Packed(pl.keep, pl.to)
  <2>. SUFFICES ASSUME Packed(pl.keep, pl.to) <= PageOf(at) * PageSize PROVE FALSE
    BY <1>3
  <2>. QED
    BY <1>1, <1>2, AboveErased
<1>5. Due(fl[at], pl, at)
  BY <1>1, <1>4, PackedUnits
<1>6. PICK r \in pl.keep : at \in NewExtent(pl, r)
  BY <1>2, <1>5 DEF Due
<1>7. IsDue(fl[at], pl, r, at)
  BY <1>5, <1>6 DEF Due, FilesDue
<1>8. at = pl.to[r] /\ SameFile(fl[at].rec, [r EXCEPT !.off = at])
  BY <1>1, <1>7 DEF IsDue, Data
<1>9. r \in Rec
  BY <1>6, NewPlace DEF Delivered
<1>. QED
  BY <1>1, <1>8, <1>9 DEF SameFile, Rec

\* A copy of every kept file is on flash when the compaction is over, and live.
LEMMA CopiesStand ==
    ASSUME BaseInv, AgreeInv, phase \in {"sweep", "reload"}, NEW r \in ram.index
    PROVE  \E e \in Live(flash) : e.seq = r.seq /\ e.stamp = r.stamp /\ e.ver = r.ver
<1>1. /\ PlanSound(plan) /\ Repacked(flash, plan, NumPages) /\ r \in plan.keep
      /\ flash \in [Units -> Cell] /\ ~flash[plan.to[r]].dead
  BY DEF BaseInv, StoreInv, CompactionSound, Compacting, RepackInv, AgreeInv, JobIsKnown, CopiesLive,
         TypeOK, WorldType
<1>2. Accepts(flash, plan.to[r]) /\ SameFile(flash[plan.to[r]].rec, [r EXCEPT !.off = plan.to[r]])
  BY <1>1, RepackedStands
<1>3. plan.to[r] \in Scan(flash) /\ r \in Rec
  BY <1>1, <1>2 DEF PlanSound, PlanHolds, Scan, File
<1>. DEFINE e == RecordAt(flash, plan.to[r])
<1>4. e \in Emitted(flash) /\ e.dead = flash[plan.to[r]].dead /\ SameFile(e, flash[plan.to[r]].rec)
  BY <1>1, <1>3, EmittedAt
<1>. HIDE DEF e
<1>5. e \in Live(flash)
  BY <1>1, <1>4 DEF Live
<1>6. e.seq = r.seq /\ e.stamp = r.stamp /\ e.ver = r.ver
  BY <1>2, <1>3, <1>4 DEF SameFile, Rec
<1>. QED
  BY <1>5, <1>6

\* After a compaction a reload finds the index again, at the new places.
LEMMA ReloadAgrees ==
    ASSUME BaseInv, AgreeInv, NEW c \in Clients, Reload(c)
    PROVE  AgreeInv'
<1>. DEFINE S == { r.seq : r \in ram.index }
            old == OldVersion(ram'.index)
            off == FindPlace(flash, ram', Size(job.rec))
<1>1. /\ phase = "reload" /\ Compacting /\ ~Appending /\ ram' = ReloadOf(flash) /\ flash' = flash
      /\ phase # "publish"
  BY DEF Reload, Compacting, Appending
<1>2. /\ flash \in [Units -> Cell] /\ ram \in Ram /\ job.rec \in Rec /\ ~job.rec.dead
      /\ RecordsKnown /\ JobIsKnown /\ RoomInIndex /\ StoreInv /\ OneOfASeq /\ plan.keep = ram.index
  BY <1>1 DEF BaseInv, StoreInv, TypeOK, WorldType, TaskType, AgreeInv, JobIsKnown, FilesInv
<1>3. Delivered(flash, plan)
  BY <1>1 DEF BaseInv, StoreInv, CompactionSound, RepackInv, RoomInv, RoomPlanned, SweptBelow,
              NothingPinned, Delivered
<1>4. /\ IsFiniteSet(S) /\ Cardinality(S) <= Cardinality(ram.index) /\ Cardinality(S) <= MaxRecs
      /\ Cardinality(ram.index) \in Nat /\ Cardinality(S) \in Nat /\ MaxRecs \in Nat
  <2>1. IsFiniteSet(ram.index) /\ Cardinality(ram.index) <= MaxRecs /\ MaxRecs \in Nat
    BY <1>2, StoreAssumption DEF RoomInIndex
  <2>2. /\ IsFiniteSet(S) /\ Cardinality(S) <= Cardinality(ram.index)
        /\ Cardinality(S) \in Nat /\ Cardinality(ram.index) \in Nat
    BY <2>1, SeqsCount
  <2>. HIDE DEF S
  <2>. QED
    BY <2>1, <2>2
<1>5. \A e \in Live(flash) : e.seq \in S
  BY <1>1, <1>2 DEF RecordsKnown, LiveKnown, Unpublished
<1>6. ASSUME NEW e \in Live(flash), NEW k \in Live(flash), k.seq = e.seq
      PROVE  k = e
  <2>1. PICK r \in ram.index : e.off = plan.to[r] /\ e.seq = r.seq
    BY <1>2, <1>3, DeliveredCopies DEF Live
  <2>2. PICK s \in ram.index : k.off = plan.to[s] /\ k.seq = s.seq
    BY <1>2, <1>3, DeliveredCopies DEF Live
  <2>3. r = s
    BY <1>2, <1>6, <2>1, <2>2 DEF OneOfASeq
  <2>. QED
    BY <1>2, <2>1, <2>2, <2>3, EmittedFrom DEF Live
<1>. HIDE DEF S
<1>7. /\ ram' \in Ram
      /\ \A e \in Live(flash) : e \in ram'.index
      /\ \A n \in Nat : (\A e \in Emitted(flash) : e.seq < n) => ram'.nextSeq <= n
  BY <1>1, <1>2, <1>4, <1>5, <1>6, ReloadTells
<1>8. ram'.nextSeq <= ram.nextSeq
  <2>1. \A e \in Emitted(flash) : e.seq < ram.nextSeq
    BY <1>1, <1>2 DEF RecordsKnown, CountersAhead, Unpublished
  <2>. QED
    BY <1>2, <1>7, <2>1 DEF Ram
<1>9. off # NoPlace
  BY <1>1, <1>2, UnpinnedMakesRoom DEF BaseInv, NothingPinned
<1>10. GoAppend(flash, ram', job.rec, old, job.existed, off) /\ req' = req
  BY <1>9 DEF Reload
<1>11. \A at \in Scan(flash) : End(flash[at].rec) <= ram'.cursor
  BY <1>1, <1>2, ScanEnds, ReloadStands
<1>12. /\ phase' \in {"erase", "header"} /\ ScanApart'
       /\ job'.old = old /\ job'.existed = job.existed /\ ~job'.rec.dead
       /\ job'.rec.seq = job.rec.seq /\ job'.rec.stamp = ram'.nextStamp
  <2>. HIDE DEF old
  <2>. QED
    BY <1>1, <1>2, <1>7, <1>9, <1>10, <1>11, AppendStartsClear
<1>13. LiveOnce'
  BY <1>1, <1>7 DEF LiveOnce
<1>14. RecordsKnown' /\ IsFiniteSet(ram'.index) /\ Cardinality(ram'.index) <= Cardinality(S)
  <2>1. \A r, k \in Emitted(flash) : r.seq = k.seq /\ r.stamp = k.stamp => r.ver = k.ver
    BY <1>2 DEF RecordsKnown, StampsTell
  <2>2. Quiet'
    BY <1>12 DEF Quiet
  <2>. QED
    BY <1>1, <1>2, <1>4, <1>5, <1>13, <2>1, <2>2, RecordsReloaded
<1>15. RoomInIndex'
  <2>1. Cardinality(ram'.index) \in Nat
    BY <1>14, FS_CardinalityType
  <2>2. ~job.existed => Cardinality(ram.index) < MaxRecs
    BY <1>1, <1>2 DEF RoomInIndex
  <2>. QED
    BY <1>4, <1>12, <1>14, <2>1, <2>2 DEF RoomInIndex
<1>16. job.existed => \E r \in ram'.index : r.seq = job.rec.seq
  <2>. SUFFICES ASSUME job.existed PROVE \E r \in ram'.index : r.seq = job.rec.seq
    OBVIOUS
  <2>1. PICK r \in ram.index : r.seq = job.rec.seq
    BY <1>1, <1>2 DEF JobIsKnown
  <2>2. PICK e \in Live(flash) : e.seq = r.seq
    BY <1>1, CopiesStand
  <2>. QED
    BY <1>7, <2>1, <2>2
<1>17. job.existed <=> old # NoRec
  <2>1. job.existed <=> job.old # NoRec
    BY <1>1, <1>2 DEF JobIsKnown
  <2>2. job.existed => RecBySeq(ram'.index, job.rec.seq) # NoRec
    BY <1>16 DEF RecBySeq, NoRec
  <2>. QED
    BY <2>1, <2>2 DEF OldVersion
<1>18. JobIsKnown'
  <2>1. ~job.existed => job.rec.seq >= ram'.nextSeq
    <3>1. ~job.existed => job.rec.seq >= ram.nextSeq
      BY <1>1, <1>2 DEF JobIsKnown
    <3>2. job.rec.seq \in Nat /\ ram.nextSeq \in Nat /\ ram'.nextSeq \in Nat
      BY <1>2, <1>7 DEF Rec, Ram
    <3>. QED
      BY <1>8, <3>1, <3>2
  <2>2. ~Compacting' /\ phase' # "publish" /\ phase' # "retire"
    BY <1>12 DEF Compacting
  <2>. HIDE DEF old
  <2>. QED
    BY <1>12, <1>16, <1>17, <2>1, <2>2 DEF JobIsKnown
<1>19. DeletesAllowed' /\ CopiesLive'
  BY <1>10, <1>12 DEF AgreeInv, DeletesAllowed, CopiesLive
<1>. QED
  BY <1>12, <1>14, <1>15, <1>18, <1>19 DEF AgreeInv

-----------------------------------------------------------------------------
(* An append.                                                                 *)

\* A write of an append leaves every record of the scan as it was.
LEMMA ScanKeeps ==
    ASSUME BaseInv, AgreeInv, phase \in {"erase", "header", "payload", "commit"},
           flash' \in [Units -> Cell], NEW lost \in BOOLEAN, Operate(lost) \/ flash' = flash,
           NEW at \in Scan(flash)
    PROVE  /\ at \in Scan(flash') /\ flash'[at] = flash[at] /\ at # job.rec.off
           /\ RecordAt(flash', at) = RecordAt(flash, at)
<1>1. /\ StoreInv /\ HeaderIsDue /\ flash \in [Units -> Cell] /\ job.rec \in Rec
      /\ Extent(at, Size(flash[at].rec)) \cap Cleared(job.rec.off, Size(job.rec)) = {}
  BY DEF BaseInv, FilesInv, AgreeInv, ScanApart, StoreInv, TypeOK, WorldType, TaskType, Appending, File
<1>2. /\ at \in Units /\ at \in Nat /\ HeaderAt(flash, at) /\ PayloadWhole(flash, flash[at].rec)
      /\ flash[at].rec \in Rec /\ flash[at].rec.off = at
  BY <1>1, LogFacts, HeaderCell DEF Scan, Accepts, HeaderAt
<1>. DEFINE e == flash[at].rec
<1>3. /\ Size(e) = 1 + e.len /\ e.len \in Nat \ {0} /\ End(e) = at + Size(e) /\ End(e) <= LogLen
  BY <1>2, RecFacts DEF Size, PayloadWhole
<1>. HIDE DEF e
<1>4. ASSUME NEW u \in Units, u \in Extent(at, Size(e))
      PROVE  flash'[u] = flash[u]
  <2>1. u \notin Cleared(job.rec.off, Size(job.rec))
    BY <1>1, <1>4 DEF e
  <2>2. u \notin DOMAIN Written
    BY <1>1, <2>1, AppendInside
  <2>. QED
    BY <1>1, <2>2, OperateWrites
<1>5. flash'[at] = flash[at]
  BY <1>2, <1>3, <1>4 DEF Extent
<1>6. ASSUME NEW i \in 1 .. e.len
      PROVE  flash'[at + i] = flash[at + i]
  BY <1>2, <1>3, <1>4, LogFacts DEF Extent
<1>7. at \in Scan(flash')
  BY <1>2, <1>5, <1>6 DEF Scan, Accepts, HeaderAt, PayloadWhole, e
<1>8. at # job.rec.off
  <2>1. job.rec.off \in Nat /\ Size(job.rec) \in Nat \ {0}
    BY <1>1, RecFacts
  <2>2. /\ job.rec.off + Size(job.rec) <= AlignPage(job.rec.off + Size(job.rec))
        /\ AlignPage(job.rec.off + Size(job.rec)) \in Nat
    BY <2>1, AlignUp
  <2>3. job.rec.off \in Cleared(job.rec.off, Size(job.rec))
    BY <2>1, <2>2 DEF Cleared
  <2>4. at \in Extent(at, Size(e))
    BY <1>2, <1>3 DEF Extent
  <2>. QED
    BY <1>1, <2>3, <2>4 DEF e
<1>. QED
  BY <1>5, <1>7, <1>8 DEF RecordAt

\* An append brings up one record, when its commit word is down.
LEMMA AppendAgrees ==
    ASSUME BaseInv, StoreInv', AgreeInv, MaxLeases = 0,
           NEW c \in Clients, NEW lost \in BOOLEAN, AppendOp(c, lost)
    PROVE  AgreeInv'
<1>1. /\ phase \in {"erase", "header", "payload", "commit"} /\ ram' = ram
      /\ flash \in [Units -> Cell] /\ flash' \in [Units -> Cell]
      /\ RecordsKnown /\ JobIsKnown /\ RoomInIndex /\ DeletesAllowed /\ StoreInv
      /\ ~Compacting /\ Appending /\ \A at : ~Unpublished(at)
  BY DEF AppendOp, Appending, Compacting, Unpublished, BaseInv, StoreInv, TypeOK, WorldType, AgreeInv
<1>2. \/ Operate(lost) /\ Succeeded(lost) /\ NextStep /\ UNCHANGED <<req, job>>
      \/ Answer(c) /\ flash' = flash
  <2>1. Operate(lost) => Succeeded(lost)
    BY <1>1, Performed DEF BaseInv, RepackInv
  <2>. QED
    BY <2>1 DEF AppendOp
<1>3. CASE Answer(c) /\ flash' = flash
  <2>1. phase' = "none" /\ req' = [req EXCEPT ![c] = Idle]
    BY <1>3 DEF Answer
  <2>2. RecordsKnown'
    BY <1>1, <1>3, <2>1, RecordsStay DEF Quiet
  <2>3. DeletesAllowed'
    BY <1>1, <2>1, DeletesStay
  <2>4. JobIsKnown' /\ RoomInIndex' /\ ScanApart' /\ CopiesLive'
    BY <1>1, <2>1 DEF JobIsKnown, RoomInIndex, ScanApart, CopiesLive, Appending, Compacting
  <2>. QED
    BY <2>2, <2>3, <2>4 DEF AgreeInv
<1>4. CASE Operate(lost) /\ Succeeded(lost) /\ NextStep /\ UNCHANGED <<req, job>>
  <2>1. /\ phase = "commit" => phase' = "publish"
        /\ phase # "commit" => phase' \in {"erase", "header", "payload", "commit"}
        /\ job' = job /\ req' = req
    BY <1>1, <1>4 DEF NextStep, GoErase
  <2>2. ~Compacting' /\ Appending'
    BY <1>1, <2>1 DEF Compacting, Appending
  <2>3. \A at \in Scan(flash) : /\ at \in Scan(flash') /\ flash'[at] = flash[at] /\ at # job.rec.off
                                /\ RecordAt(flash', at) = RecordAt(flash, at)
    BY <1>1, <1>4, ScanKeeps
  <2>4. ASSUME NEW e \in Emitted(flash')
        PROVE  \/ e \in Emitted(flash) /\ ~Unpublished(e.off)'
               \/ Unpublished(e.off)'
    <3>1. PartlyWritten(flash')
      BY <1>4, PartlyTorn
    <3>2. CASE \E k \in Emitted(flash) : SameFile(k, e)
      <4>1. PICK k \in Emitted(flash) : SameFile(k, e)
        BY <3>2
      <4>2. k.off = e.off /\ k = RecordAt(flash, k.off) /\ k.off \in Scan(flash)
        BY <1>1, <4>1, EmittedFrom DEF SameFile
      <4>3. e = RecordAt(flash', e.off)
        BY <1>1, EmittedFrom
      <4>4. e = k
        BY <2>3, <4>2, <4>3
      <4>. QED
        BY <4>4
    <3>3. CASE phase = "commit" /\ SameFile(e, job.rec)
      BY <2>1, <3>3 DEF SameFile, Unpublished
    <3>4. phase # "rewrite"
      BY <1>1
    <3>. QED
      BY <1>1, <3>1, <3>2, <3>3, <3>4, PartlyEmitted
  <2>5. ASSUME NEW e \in Emitted(flash)
        PROVE  e \in Emitted(flash') /\ ~Unpublished(e.off)'
    <3>1. e.off \in Scan(flash) /\ e = RecordAt(flash, e.off)
      BY <1>1, EmittedFrom
    <3>2. e = RecordAt(flash', e.off) /\ e.off \in Scan(flash') /\ e.off # job.rec.off
      BY <2>3, <3>1
    <3>. QED
      BY <1>1, <2>1, <3>2, EmittedAt DEF Unpublished
  <2>6. LiveKnown'
    BY <1>1, <2>2, <2>4 DEF LiveKnown, RecordsKnown, Live
  <2>7. IndexLive'
    BY <1>1, <2>2, <2>5 DEF IndexLive, RecordsKnown, Live
  <2>8. LiveOnce'
    BY <1>1, <2>2, <2>4 DEF LiveOnce, RecordsKnown, Live
  <2>9. CountersAhead'
    <3>1. \A e \in Emitted(flash) \cup ram.index : e.seq < ram.nextSeq /\ e.stamp < ram.nextStamp
      BY <1>1 DEF RecordsKnown, CountersAhead
    <3>. QED
      BY <1>1, <2>4, <3>1 DEF CountersAhead, RecordsKnown
  <2>10. StampsTell'
    <3>1. PartlyWritten(flash')
      BY <1>4, PartlyTorn
    <3>. QED
      BY <1>1, <3>1, PartlyKnown DEF StampsTell
  <2>11. CursorTold'
    <3>1. \A at \in Scan(flash) : ~Unpublished(at)'
      BY <2>1, <2>3 DEF Unpublished
    <3>. QED
      BY <1>1, <2>3, <3>1 DEF CursorTold, RecordsKnown
  <2>12. JobIsKnown'
    <3>1. ASSUME phase = "commit"
          PROVE  ~flash'[job.rec.off].dead
      <4>1. flash[job.rec.off] = Header(job.rec, FALSE, FALSE) /\ job.rec.off \in Units
        BY <1>1, <3>1 DEF BaseInv, FilesInv, HeaderIsDue, StoreInv, TypeOK, TaskType, Appending, File, Rec
      <4>2. Written = [u \in {job.rec.off} |-> SetCommit(flash[u])]
        BY <3>1 DEF Written
      <4>3. flash'[job.rec.off] = SetCommit(flash[job.rec.off])
        BY <1>1, <1>4, <4>1, <4>2, Performed DEF BaseInv, RepackInv
      <4>. QED
        BY <4>1, <4>3 DEF SetCommit, Header
    <3>. QED
      BY <1>1, <2>1, <2>2, <3>1 DEF JobIsKnown
  <2>13. RoomInIndex' /\ DeletesAllowed' /\ CopiesLive'
    BY <1>1, <2>1, <2>2 DEF RoomInIndex, DeletesAllowed, CopiesLive
  <2>14. ScanApart'
    <3>. SUFFICES ASSUME phase' \in {"erase", "header", "payload", "commit"}, NEW at \in Scan(flash')
                  PROVE  Extent(at, Size(flash'[at].rec)) \cap Cleared(job.rec.off, Size(job.rec)) = {}
      BY <2>1 DEF ScanApart
    <3>. DEFINE e == RecordAt(flash', at)
    <3>1. e \in Emitted(flash') /\ e.off = at
      BY <1>1, EmittedAt
    <3>2. e \in Emitted(flash)
      BY <2>4, <3>1 DEF Unpublished
    <3>. HIDE DEF e
    <3>3. at \in Scan(flash) /\ flash'[at] = flash[at]
      BY <1>1, <2>3, <3>1, <3>2, EmittedFrom
    <3>. QED
      BY <1>1, <3>3 DEF AgreeInv, ScanApart
  <2>. QED
    BY <2>6, <2>7, <2>8, <2>9, <2>10, <2>11, <2>12, <2>13, <2>14 DEF AgreeInv, RecordsKnown
<1>. QED
  BY <1>2, <1>3, <1>4

\* The index moves to the file the append has committed.
LEMMA PublishAgrees ==
    ASSUME BaseInv, AgreeInv, NEW c \in Clients, Publish(c)
    PROVE  AgreeInv'
<1>. DEFINE rec == job.rec
<1>1. /\ phase = "publish" /\ flash' = flash /\ phase' \in {"none", "retire"}
      /\ ~Compacting /\ ~Compacting' /\ Appending /\ ~Appending'
      /\ phase' = "retire" => job' = job /\ req' = req /\ job.old # NoRec
      /\ phase' = "none" => req' = [req EXCEPT ![c] = Idle] /\ job.old = NoRec
  BY DEF Publish, Answer, Compacting, Appending
<1>2. /\ flash \in [Units -> Cell] /\ ram \in Ram /\ rec \in File /\ rec \in Rec /\ ~rec.dead
      /\ RecordsKnown /\ JobIsKnown /\ RoomInIndex /\ DeletesAllowed /\ StoreInv /\ FilesInv
      /\ rec.stamp = ram.nextStamp /\ ram.nextStamp \in Nat /\ ram.nextSeq \in Nat /\ rec.seq \in Nat
      /\ ram.cursor \in Nat
  BY <1>1, LogFacts DEF BaseInv, StoreInv, TypeOK, WorldType, TaskType, AgreeInv, JobIsKnown, File, Rec, Ram
<1>3. /\ ram'.index = Replaced(ram.index, rec) /\ ram'.nextStamp = rec.stamp + 1
      /\ ram'.nextSeq = IF job.existed THEN ram.nextSeq ELSE rec.seq + 1
      /\ ram'.cursor = IF ram.cursor < End(rec) THEN End(rec) ELSE ram.cursor
  BY <1>2 DEF Publish, StampAfter, Ram
<1>4. /\ rec \in Live(flash) /\ rec.off \in Scan(flash)
      /\ \A e \in Emitted(flash) : Unpublished(e.off) => e = rec
      /\ \A r \in ram.index : ~Unpublished(r.off)
  BY <1>1, <1>2, PublishedLive
<1>5. \A at : ~Unpublished(at)'
  BY <1>1 DEF Unpublished
<1>6. \A r \in ram'.index : r = rec \/ (r \in ram.index /\ r.seq # rec.seq)
  BY <1>3 DEF Replaced
<1>7. rec \in ram'.index /\ \A r \in ram.index : r.seq # rec.seq => r \in ram'.index
  BY <1>3 DEF Replaced
<1>8. ASSUME NEW e \in Emitted(flash) \cup ram.index
      PROVE  \/ e = rec
             \/ /\ ~Unpublished(e.off) /\ e.seq < ram.nextSeq /\ e.stamp < ram.nextStamp
                /\ e.seq \in Nat /\ e.stamp \in Nat
  <2>1. e.seq \in Nat /\ e.stamp \in Nat
    <3>1. e \in ram.index => e \in Rec
      BY <1>2 DEF Ram, File
    <3>2. e \in Emitted(flash) => e \in Rec
      BY <1>2, EmittedFrom
    <3>. QED
      BY <3>1, <3>2 DEF Rec
  <2>. QED
    BY <1>2, <1>4, <2>1 DEF RecordsKnown, CountersAhead
<1>9. LiveKnown'
  <2>1. ASSUME NEW e \in Live(flash)
        PROVE  \E r \in ram'.index : r.seq = e.seq /\ e.stamp <= r.stamp /\ Precedes(r, e)
    <3>1. e.stamp \in Nat /\ e.off \in Nat
      BY <1>2, EmittedFrom DEF Live
    <3>2. CASE e = rec
      BY <1>7, <3>1, <3>2 DEF Precedes
    <3>3. CASE e # rec
      <4>1. ~Unpublished(e.off) /\ e.stamp < ram.nextStamp
        BY <1>8, <3>3 DEF Live
      <4>2. PICK r \in ram.index : r.seq = e.seq /\ e.stamp <= r.stamp /\ Precedes(r, e)
        BY <1>1, <1>2, <4>1 DEF RecordsKnown, LiveKnown
      <4>3. CASE r.seq = rec.seq
        BY <1>2, <1>7, <3>1, <4>1, <4>2, <4>3 DEF Precedes
      <4>4. CASE r.seq # rec.seq
        BY <1>7, <4>2, <4>4
      <4>. QED
        BY <4>3, <4>4
    <3>. QED
      BY <3>2, <3>3
  <2>. QED
    BY <1>1, <2>1 DEF LiveKnown
<1>10. IndexLive'
  BY <1>1, <1>2, <1>4, <1>6 DEF RecordsKnown, IndexLive
<1>11. LiveOnce'
  <2>. SUFFICES ASSUME MaxCuts = 0, NEW e \in Live(flash)
                PROVE  e \in ram'.index \/ (phase' = "retire" /\ e.off = The(job'.old).off)
    BY <1>1 DEF LiveOnce
  <2>1. CASE e = rec
    BY <1>7, <2>1
  <2>2. CASE e # rec
    <3>1. ~Unpublished(e.off) /\ e.seq < ram.nextSeq /\ e.seq \in Nat
      BY <1>8, <2>2 DEF Live
    <3>2. e \in ram.index
      BY <1>1, <1>2, <3>1 DEF RecordsKnown, LiveOnce
    <3>3. CASE e.seq = rec.seq
      <4>1. job.existed
        BY <1>1, <1>2, <3>1, <3>3 DEF JobIsKnown
      <4>2. job.old # NoRec
        BY <1>1, <1>2, <4>1 DEF JobIsKnown
      <4>3. The(job.old) \in ram.index /\ The(job.old).seq = rec.seq
        BY <1>1, <1>2, <4>2 DEF FilesInv, OldIsMeant
      <4>4. e = The(job.old)
        BY <1>2, <3>2, <3>3, <4>3 DEF FilesInv, OneOfASeq
      <4>. QED
        BY <1>1, <4>2, <4>4
    <3>4. CASE e.seq # rec.seq
      BY <1>7, <3>2, <3>4
    <3>. QED
      BY <3>3, <3>4
  <2>. QED
    BY <2>1, <2>2
<1>12. CountersAhead'
  <2>1. rec.seq < ram'.nextSeq /\ ram.nextSeq <= ram'.nextSeq
    <3>1. CASE job.existed
      <4>1. PICK r \in ram.index : r.seq = rec.seq
        BY <1>1, <1>2, <3>1 DEF JobIsKnown
      <4>2. rec.seq < ram.nextSeq
        BY <1>2, <1>4, <4>1 DEF RecordsKnown, CountersAhead
      <4>. QED
        BY <1>2, <1>3, <3>1, <4>2
    <3>2. CASE ~job.existed
      <4>1. rec.seq >= ram.nextSeq
        BY <1>1, <1>2, <3>2 DEF JobIsKnown
      <4>. QED
        BY <1>2, <1>3, <3>2, <4>1
    <3>. QED
      BY <3>1, <3>2
  <2>2. ram'.nextSeq \in Nat /\ ram'.nextStamp \in Nat
    BY <1>2, <1>3
  <2>3. ASSUME NEW e \in Emitted(flash) \cup ram'.index
        PROVE  e.seq < ram'.nextSeq /\ e.stamp < ram'.nextStamp
    <3>1. e = rec \/ e \in Emitted(flash) \cup ram.index
      BY <1>6
    <3>2. CASE e = rec
      BY <1>2, <1>3, <2>1, <3>2
    <3>3. CASE e # rec
      <4>1. e.seq < ram.nextSeq /\ e.stamp < ram.nextStamp /\ e.seq \in Nat /\ e.stamp \in Nat
        BY <1>8, <3>1, <3>3
      <4>. QED
        BY <1>2, <1>3, <2>1, <2>2, <4>1
    <3>. QED
      BY <3>2, <3>3
  <2>4. ram'.nextStamp >= 1
    BY <1>2, <1>3
  <2>. QED
    BY <1>1, <2>3, <2>4 DEF CountersAhead
<1>13. StampsTell'
  <2>1. Emitted(flash) \cup ram'.index \subseteq Emitted(flash) \cup ram.index
    BY <1>4, <1>6 DEF Live
  <2>. QED
    BY <1>1, <1>2, <2>1 DEF RecordsKnown, StampsTell
<1>14. CursorTold'
  <2>1. CASE ram.cursor < End(rec)
    <3>1. End(flash[rec.off].rec) = End(rec)
      BY <1>1, <1>2, StandsScanned DEF FilesInv, HeaderIsDue
    <3>. QED
      BY <1>1, <1>3, <1>4, <1>5, <2>1, <3>1 DEF CursorTold
  <2>2. CASE ~(ram.cursor < End(rec))
    BY <1>1, <1>2, <1>3, <1>5, <2>2 DEF CursorTold, RecordsKnown
  <2>. QED
    BY <2>1, <2>2
<1>15. JobIsKnown'
  BY <1>1, <1>2, <1>7 DEF JobIsKnown
<1>16. RoomInIndex'
  <2>1. IsFiniteSet(KnownSeqs) /\ Cardinality(KnownSeqs) <= MaxRecs
    BY <1>2, KnownSeqsFit
  <2>2. \A r \in ram'.index : r.seq \in KnownSeqs
    BY <1>1, <1>6 DEF KnownSeqs
  <2>3. \A r, k \in ram'.index : r.seq = k.seq => r = k
    BY <1>2, <1>6 DEF FilesInv, OneOfASeq
  <2>4. IsFiniteSet(ram'.index) /\ Cardinality(ram'.index) <= Cardinality(KnownSeqs)
    BY <2>1, <2>2, <2>3, IndexCounts
  <2>5. Cardinality(ram'.index) \in Nat /\ Cardinality(KnownSeqs) \in Nat /\ MaxRecs \in Nat
    BY <2>1, <2>4, FS_CardinalityType, StoreAssumption
  <2>. QED
    BY <1>1, <2>1, <2>4, <2>5 DEF RoomInIndex
<1>17. DeletesAllowed'
  BY <1>1, <1>2, DeletesStay
<1>18. ScanApart' /\ CopiesLive'
  BY <1>1 DEF ScanApart, CopiesLive
<1>. QED
  BY <1>9, <1>10, <1>11, <1>12, <1>13, <1>14, <1>15, <1>16, <1>17, <1>18 DEF AgreeInv, RecordsKnown

-----------------------------------------------------------------------------
(* A dead word, a power cut, and every step.                                  *)

\* A dead word takes the file at its address from the live ones, and no other.
LEMMA DeadWordTakes ==
    ASSUME BaseInv, AgreeInv, phase \in {"retire", "delete"}, flash' \in [Units -> Cell],
           NEW lost \in BOOLEAN, Operate(lost), Succeeded(lost)
    PROVE  /\ \A e \in Live(flash') : e \in Live(flash) /\ e.off # The(job.old).off
           /\ \A e \in Live(flash) : e.off # The(job.old).off => e \in Live(flash')
           /\ \A e \in Emitted(flash') : \E k \in Emitted(flash) : Tells(k, e)
           /\ \A at \in Scan(flash) : at \in Scan(flash') /\ flash'[at].rec = flash[at].rec
<1>. DEFINE x == The(job.old).off
<1>1. /\ StoreInv /\ FilesInv /\ flash \in [Units -> Cell]
      /\ phase # "rewrite" /\ phase # "commit"
  BY DEF BaseInv, StoreInv, TypeOK, WorldType
<1>2. HeaderAt(flash, x)
  BY <1>1, DeadWordHits
<1>3. \A u \in Units : flash'[u] = IF u = x THEN SetDead(flash[u]) ELSE flash[u]
  <2>1. Written = [u \in {x} |-> SetDead(flash[u])]
    BY DEF Written
  <2>2. DOMAIN Written = {x} /\ (x \in Units => Written[x] = SetDead(flash[x]))
    BY <2>1
  <2>3. ~lost
    BY DEF Succeeded
  <2>. HIDE DEF x
  <2>. QED
    BY <1>1, <2>2, <2>3, OperateWrites
<1>. HIDE DEF x
<1>4. ASSUME x \in Units
      PROVE  /\ flash'[x].kind = "header" /\ flash'[x].rec = flash[x].rec
             /\ flash'[x].commit /\ flash'[x].dead = TRUE
  <2>1. flash[x] \in [kind : {"header"}, rec : Rec, commit : BOOLEAN, dead : BOOLEAN] /\ flash[x].commit
    BY <1>1, <1>2, <1>4, HeaderCell DEF HeaderAt
  <2>. QED
    BY <1>3, <1>4, <2>1 DEF SetDead
<1>5. ASSUME NEW at \in Scan(flash)
      PROVE  /\ at \in Scan(flash') /\ flash'[at].rec = flash[at].rec
             /\ at # x => RecordAt(flash', at) = RecordAt(flash, at)
  <2>1. at \in Units /\ HeaderAt(flash, at) /\ PayloadWhole(flash, flash[at].rec)
    BY DEF Scan, Accepts
  <2>2. /\ flash'[at].rec = flash[at].rec /\ HeaderAt(flash', at)
        /\ at # x => flash'[at] = flash[at]
    BY <1>3, <1>4, <2>1 DEF HeaderAt
  <2>3. ASSUME NEW i \in 1 .. flash[at].rec.len
        PROVE  flash'[at + i] = Data(flash[at].rec.ver, i)
    <3>1. flash[at + i] = Data(flash[at].rec.ver, i) /\ at + i \in Units
      <4>1. flash[at].rec \in Rec /\ flash[at].rec.off = at
        BY <1>1, <2>1, HeaderCell DEF HeaderAt
      <4>2. /\ at \in Nat /\ flash[at].rec.len \in Nat
            /\ End(flash[at].rec) = at + (1 + flash[at].rec.len) /\ End(flash[at].rec) <= LogLen
        BY <2>1, <4>1, RecFacts DEF End, Size, PayloadWhole
      <4>3. at + i \in Units
        BY <4>2, LogFacts
      <4>. QED
        BY <2>1, <4>1, <4>3 DEF PayloadWhole
    <3>2. at + i # x
      BY <1>2, <3>1 DEF HeaderAt, Data
    <3>. QED
      BY <1>3, <3>1, <3>2
  <2>4. PayloadWhole(flash', flash'[at].rec)
    BY <2>1, <2>2, <2>3 DEF PayloadWhole, HeaderAt
  <2>. QED
    BY <2>1, <2>2, <2>4 DEF Scan, Accepts, RecordAt
<1>6. ASSUME NEW e \in Emitted(flash')
      PROVE  \E k \in Emitted(flash) : Tells(k, e) /\ SameFile(k, e)
  BY <1>1, PartlyTorn, PartlyEmitted
<1>7. ASSUME NEW e \in Live(flash')
      PROVE  e \in Live(flash) /\ e.off # x
  <2>1. /\ e \in Emitted(flash') /\ ~e.dead /\ e = RecordAt(flash', e.off)
        /\ e.dead = flash'[e.off].dead /\ e.off \in Units
    BY EmittedFrom DEF Live, Scan
  <2>2. e.off # x
    BY <1>4, <2>1
  <2>3. PICK k \in Emitted(flash) : SameFile(k, e)
    BY <1>6, <2>1
  <2>4. k.off = e.off /\ k.off \in Scan(flash) /\ k = RecordAt(flash, k.off)
    BY <1>1, <2>3, EmittedFrom DEF SameFile
  <2>5. e = k
    BY <1>5, <2>1, <2>2, <2>4
  <2>. QED
    BY <2>1, <2>2, <2>5 DEF Live
<1>8. ASSUME NEW e \in Live(flash), e.off # x
      PROVE  e \in Live(flash')
  <2>1. e \in Emitted(flash) /\ ~e.dead /\ e.off \in Scan(flash) /\ e = RecordAt(flash, e.off)
    BY <1>1, EmittedFrom DEF Live
  <2>2. e = RecordAt(flash', e.off) /\ e.off \in Scan(flash')
    BY <1>5, <1>8, <2>1
  <2>. QED
    BY <2>1, <2>2, EmittedAt DEF Live
<1>. QED
  BY <1>5, <1>6, <1>7, <1>8 DEF x

\* What is known of the flash survives a dead word in a file that is known.
LEMMA DeadWordAgrees ==
    ASSUME BaseInv, StoreInv', AgreeInv, MaxLeases = 0, MaxDeletes = 0 \/ MaxCuts = 0,
           NEW c \in Clients, holder = c, NEW lost \in BOOLEAN,
           RetireOp(c, lost) \/ DeleteOp(c, lost)
    PROVE  AgreeInv'
<1>. DEFINE x == The(job.old).off
<1>1. /\ flash \in [Units -> Cell] /\ flash' \in [Units -> Cell] /\ ram \in Ram
      /\ RecordsKnown /\ JobIsKnown /\ RoomInIndex /\ DeletesAllowed /\ StoreInv /\ FilesInv
  BY DEF BaseInv, StoreInv, TypeOK, WorldType, AgreeInv
<1>2. /\ phase \in {"retire", "delete"} /\ Operate(lost) /\ Answer(c)
      /\ phase' = "none" /\ req' = [req EXCEPT ![c] = Idle]
  BY DEF RetireOp, DeleteOp, Answer
<1>3. Succeeded(lost)
  BY <1>1, <1>2, Performed DEF BaseInv, RepackInv
<1>4. /\ ~Compacting /\ ~Compacting' /\ ~Appending' /\ \A at : ~Unpublished(at) /\ ~Unpublished(at)'
  BY <1>2 DEF Compacting, Appending, Unpublished
<1>5. /\ \A e \in Live(flash') : e \in Live(flash) /\ e.off # x
      /\ \A e \in Live(flash) : e.off # x => e \in Live(flash')
      /\ \A e \in Emitted(flash') : \E k \in Emitted(flash) : Tells(k, e)
      /\ \A at \in Scan(flash) : at \in Scan(flash') /\ flash'[at].rec = flash[at].rec
  BY <1>1, <1>2, <1>3, DeadWordTakes
<1>6. /\ ram'.index \subseteq ram.index /\ ram'.nextSeq = ram.nextSeq
      /\ ram'.nextStamp = ram.nextStamp /\ ram'.cursor = ram.cursor
  BY <1>1 DEF RetireOp, DeleteOp, Removed, Ram
<1>. HIDE DEF x
<1>7. \A r \in ram'.index : r.off # x
  <2>1. CASE phase = "retire"
    <3>1. /\ ram' = ram /\ job.rec \in ram.index /\ HeaderAt(flash, x)
          /\ flash[x].rec.seq = job.rec.seq /\ flash[x].rec.ver # job.rec.ver
      BY <1>1, <2>1 DEF RetireOp, DeleteOp, JobIsKnown, FilesInv, OldIsMeant, x
    <3>2. ASSUME NEW r \in ram.index, r.off = x
          PROVE  FALSE
      <4>1. r \in Live(flash)
        BY <1>1, <1>4, <3>2 DEF RecordsKnown, IndexLive
      <4>2. r.seq = job.rec.seq /\ r.ver # job.rec.ver
        BY <1>1, <3>1, <3>2, <4>1, EmittedFrom DEF Live, SameFile
      <4>. QED
        BY <1>1, <3>1, <3>2, <4>2 DEF FilesInv, OneOfASeq
    <3>. QED
      BY <3>1, <3>2
  <2>2. CASE phase = "delete"
    <3>1. job.rec \in ram.index /\ job.old = {job.rec} /\ x = job.rec.off
          /\ ram'.index = Removed(ram.index, job.rec.seq)
      <4>1. job.rec \in ram.index /\ job.old = {job.rec}
        BY <1>1, <2>2 DEF FilesInv, OldIsMeant
      <4>2. The({job.rec}) = job.rec
        BY DEF The
      <4>3. ram'.index = Removed(ram.index, job.rec.seq)
        BY <1>1, <1>3, <2>2 DEF RetireOp, DeleteOp, Ram
      <4>. QED
        BY <4>1, <4>2, <4>3 DEF x
    <3>2. ASSUME NEW r \in ram'.index, r.off = x
          PROVE  FALSE
      <4>1. r \in ram.index /\ r.seq # job.rec.seq
        BY <3>1, <3>2 DEF Removed
      <4>2. r \in Emitted(flash) /\ job.rec \in Emitted(flash)
        BY <1>1, <1>4, <3>1, <4>1 DEF RecordsKnown, IndexLive, Live
      <4>3. r = job.rec
        BY <1>1, <3>1, <3>2, <4>2, EmittedFrom
      <4>. QED
        BY <4>1, <4>3
    <3>. QED
      BY <3>2
  <2>. QED
    BY <1>2, <2>1, <2>2
<1>8. phase = "delete" => MaxCuts = 0
  <2>1. phase = "delete" => req[c].op = "delete"
    BY <1>1, <1>2 DEF StoreInv, TypeOK, TaskType
  <2>. QED
    BY <1>1, <2>1 DEF DeletesAllowed
<1>9. ASSUME NEW e \in Live(flash'), MaxCuts = 0
      PROVE  e \in ram'.index
  <2>1. e \in Live(flash) /\ e.off # x
    BY <1>5, <1>9
  <2>2. e \in ram.index
    BY <1>1, <1>4, <1>9, <2>1 DEF RecordsKnown, LiveOnce, x
  <2>3. CASE phase = "retire"
    BY <2>2, <2>3 DEF RetireOp, DeleteOp
  <2>4. CASE phase = "delete"
    <3>1. job.rec \in ram.index /\ job.old = {job.rec} /\ The({job.rec}) = job.rec
      BY <1>1, <2>4 DEF FilesInv, OldIsMeant, The
    <3>2. e.seq # job.rec.seq
      BY <1>1, <2>1, <2>2, <3>1 DEF FilesInv, OneOfASeq, x
    <3>3. ram'.index = Removed(ram.index, job.rec.seq)
      BY <1>1, <1>3, <2>4 DEF RetireOp, DeleteOp, Ram
    <3>. QED
      BY <2>2, <3>2, <3>3 DEF Removed
  <2>. QED
    BY <1>2, <2>3, <2>4
<1>10. LiveKnown'
  <2>1. ASSUME NEW e \in Live(flash')
        PROVE  \E r \in ram'.index : r.seq = e.seq /\ e.stamp <= r.stamp /\ Precedes(r, e)
    <3>1. CASE phase = "retire"
      <4>1. e \in Live(flash) /\ ram' = ram
        BY <1>5, <3>1 DEF RetireOp, DeleteOp
      <4>. QED
        BY <1>1, <1>4, <4>1 DEF RecordsKnown, LiveKnown
    <3>2. CASE phase = "delete"
      <4>1. e \in ram'.index /\ e.stamp \in Nat /\ e.off \in Nat
        BY <1>1, <1>8, <1>9, <3>2, EmittedFrom DEF Live
      <4>. QED
        BY <4>1 DEF Precedes
    <3>. QED
      BY <1>2, <3>1, <3>2
  <2>. QED
    BY <1>4, <2>1 DEF LiveKnown
<1>11. IndexLive'
  BY <1>1, <1>4, <1>5, <1>6, <1>7 DEF IndexLive, RecordsKnown
<1>12. LiveOnce'
  BY <1>9 DEF LiveOnce
<1>13. CountersAhead'
  <2>1. ASSUME NEW e \in Emitted(flash') \cup ram'.index
        PROVE  e.seq < ram.nextSeq /\ e.stamp < ram.nextStamp
    <3>1. \E k \in Emitted(flash) \cup ram.index : Tells(k, e)
      BY <1>5, <1>6 DEF Tells
    <3>. QED
      BY <1>1, <1>4, <3>1 DEF RecordsKnown, CountersAhead, Tells
  <2>. QED
    BY <1>1, <1>6, <2>1 DEF RecordsKnown, CountersAhead
<1>14. StampsTell'
  <2>1. \A r, k \in Emitted(flash') \cup ram.index : r.seq = k.seq /\ r.stamp = k.stamp => r.ver = k.ver
    BY <1>1, <1>2, PartlyTorn, PartlyKnown
  <2>. QED
    BY <1>6, <2>1 DEF StampsTell
<1>15. CursorTold'
  BY <1>1, <1>4, <1>5, <1>6 DEF CursorTold, RecordsKnown
<1>16. RoomInIndex'
  <2>1. /\ IsFiniteSet(ram'.index) /\ Cardinality(ram'.index) <= Cardinality(ram.index)
        /\ Cardinality(ram'.index) \in Nat /\ Cardinality(ram.index) \in Nat /\ MaxRecs \in Nat
    BY <1>1, <1>6, FS_Subset, FS_CardinalityType, StoreAssumption DEF RoomInIndex
  <2>. QED
    BY <1>1, <1>4, <2>1 DEF RoomInIndex
<1>17. JobIsKnown' /\ ScanApart' /\ CopiesLive'
  BY <1>2, <1>4 DEF JobIsKnown, ScanApart, CopiesLive
<1>18. DeletesAllowed'
  BY <1>1, <1>2, DeletesStay
<1>. QED
  BY <1>10, <1>11, <1>12, <1>13, <1>14, <1>15, <1>16, <1>17, <1>18 DEF AgreeInv, RecordsKnown

-----------------------------------------------------------------------------
(* At first, after a power cut, and in every step.                            *)

\* Between two transactions what is known of the flash is all there is to know.
LEMMA AgreeAtRest ==
    ASSUME phase' = "none", RecordsKnown', DeletesAllowed',
           IsFiniteSet(ram'.index), Cardinality(ram'.index) <= MaxRecs
    PROVE  AgreeInv'
BY DEF AgreeInv, JobIsKnown, RoomInIndex, ScanApart, CopiesLive, Appending, Compacting

\* Wherever a flash operation is cut, the reload of the boot knows what is left.
LEMMA PowerCutAgrees ==
    ASSUME BaseInv, StoreInv', AgreeInv, PowerCut
    PROVE  AgreeInv'
<1>1. /\ flash' \in Torn /\ ram' = ReloadOf(flash') /\ req' = [c \in Clients |-> Idle]
      /\ phase' = "none" /\ used.cuts < MaxCuts
  BY DEF PowerCut, Boot
<1>2. /\ flash' \in [Units -> Cell] /\ used.cuts \in Nat /\ MaxCuts \in Nat /\ MaxRecs \in Nat
      /\ JobIsKnown /\ RoomInIndex
  BY StoreAssumption DEF BaseInv, StoreInv, TypeOK, WorldType, Used, AgreeInv
<1>3. PartlyWritten(flash')
  BY <1>1, PartlyTorn
<1>. DEFINE fl == flash'
<1>4. /\ \A e \in Live(fl) : e.seq \in KnownSeqs
      /\ \A r, k \in Emitted(fl) \cup ram.index :
            r.seq = k.seq /\ r.stamp = k.stamp => r.ver = k.ver
  <2>. HIDE DEF fl
  <2>. QED
    BY <1>2, <1>3, PartlyKnown DEF fl
<1>5. IsFiniteSet(KnownSeqs) /\ Cardinality(KnownSeqs) <= MaxRecs /\ Cardinality(KnownSeqs) \in Nat
  BY <1>2, KnownSeqsFit, FS_CardinalityType
<1>6. Quiet' /\ LiveOnce'
  BY <1>1, <1>2 DEF Quiet, LiveOnce
<1>7. /\ RecordsKnown'
      /\ IsFiniteSet(ram'.index) /\ Cardinality(ram'.index) <= Cardinality(KnownSeqs)
  <2>. DEFINE S == KnownSeqs
  <2>1. /\ IsFiniteSet(S) /\ Cardinality(S) <= MaxRecs /\ \A e \in Live(fl) : e.seq \in S
        /\ \A r, k \in Emitted(fl) : r.seq = k.seq /\ r.stamp = k.stamp => r.ver = k.ver
    BY <1>4, <1>5
  <2>. HIDE DEF S
  <2>2. /\ RecordsKnown'
        /\ IsFiniteSet(ram'.index) /\ Cardinality(ram'.index) <= Cardinality(S)
    BY <1>1, <1>2, <1>6, <2>1, RecordsReloaded
  <2>. QED
    BY <2>2 DEF S
<1>8. Cardinality(ram'.index) <= MaxRecs
  BY <1>2, <1>5, <1>7, FS_CardinalityType
<1>9. DeletesAllowed'
  BY <1>1 DEF DeletesAllowed, Idle
<1>. QED
  BY <1>1, <1>7, <1>8, <1>9, AgreeAtRest

\* At first there is nothing to know.
LEMMA AgreeInit == Init => AgreeInv
<1>. SUFFICES ASSUME Init PROVE AgreeInv
  OBVIOUS
<1>1. /\ flash = [u \in Units |-> Erased] /\ ram = ReloadOf(flash) /\ phase = "none"
      /\ req = [c \in Clients |-> Idle]
  BY DEF Init
<1>2. flash \in [Units -> Cell]
  BY <1>1, CellFacts
<1>3. Emitted(flash) = {} /\ Live(flash) = {} /\ Scan(flash) = {}
  <2>1. \A at \in Units : ~HeaderAt(flash, at)
    BY <1>1 DEF HeaderAt, Erased
  <2>2. Scan(flash) = {}
    BY <2>1 DEF Scan, Accepts
  <2>. QED
    BY <2>2 DEF Emitted, Live
<1>4. IsFiniteSet({}) /\ Cardinality({}) = 0 /\ MaxRecs \in Nat
  BY FS_EmptySet, StoreAssumption
<1>5. /\ ram.index \subseteq Live(flash) /\ ram.nextStamp >= 1 /\ ram.cursor = 0
  BY <1>1, <1>2, <1>3, <1>4, ReloadTells
<1>6. ram.index = {}
  BY <1>3, <1>5
<1>7. ~Compacting /\ ~Appending
  BY <1>1 DEF Compacting, Appending
<1>8. RecordsKnown
  BY <1>3, <1>5, <1>6 DEF RecordsKnown, LiveKnown, IndexLive, LiveOnce, CountersAhead, StampsTell,
                          CursorTold
<1>9. JobIsKnown /\ ScanApart /\ CopiesLive /\ RoomInIndex
  BY <1>1, <1>4, <1>6, <1>7 DEF JobIsKnown, ScanApart, CopiesLive, RoomInIndex
<1>10. DeletesAllowed
  BY <1>1 DEF DeletesAllowed, Idle
<1>. QED
  BY <1>8, <1>9, <1>10 DEF AgreeInv

\* Every step keeps what the RAM state knows of the flash.
LEMMA AgreeStep ==
    ASSUME ~StaleLookups, MaxLeases = 0, MaxOtas = 0, MaxDeletes = 0 \/ MaxCuts = 0,
           BaseInv, StoreInv', AgreeInv, [Next]_vars
    PROVE  AgreeInv'
<1>0. /\ StoreInv /\ DeletesAllowed /\ req \in [Clients -> Requests]
      /\ used.deletes \in Nat /\ MaxDeletes \in Nat
  BY StoreAssumption DEF BaseInv, StoreInv, TypeOK, TaskType, WorldType, Used, AgreeInv
<1>1. ASSUME NEW c \in Clients, Serve(c)
      PROVE  AgreeInv'
  <2>1. CASE GiveUp(c) \/ GetCopy(c)
    <3>1. UNCHANGED <<flash, ram>> /\ UNCHANGED locals /\ req' = [req EXCEPT ![c] = Idle]
      BY <2>1 DEF GiveUp, GetCopy
    <3>2. DeletesAllowed'
      BY <1>0, <3>1, DeletesStay
    <3>. QED
      BY <3>1, <3>2, AgreeAside
  <2>2. CASE BeginSave(c)
    BY <2>2, BeginSaveAgrees
  <2>3. CASE Reload(c)
    BY <2>3, ReloadAgrees
  <2>4. CASE Publish(c)
    BY <2>4, PublishAgrees
  <2>5. CASE BeginDelete(c)
    BY <2>5, BeginDeleteAgrees
  <2>6. ASSUME NEW lost \in BOOLEAN, VacateOp(c, lost) \/ RewriteOp(c, lost) \/ SweepOp(c, lost)
        PROVE  AgreeInv'
    BY <2>6, VacateAgrees, RewriteAgrees, SweepAgrees
  <2>7. ASSUME NEW lost \in BOOLEAN, AppendOp(c, lost)
        PROVE  AgreeInv'
    BY <2>7, AppendAgrees
  <2>8. ASSUME NEW lost \in BOOLEAN, RetireOp(c, lost) \/ DeleteOp(c, lost)
        PROVE  AgreeInv'
    <3>1. holder = c
      BY <2>8 DEF RetireOp, DeleteOp
    <3>. QED
      BY <2>8, <3>1, DeadWordAgrees
  <2>. QED
    BY <1>1, <2>1, <2>2, <2>3, <2>4, <2>5, <2>6, <2>7, <2>8 DEF Serve
<1>2. ASSUME NEW c \in Clients, Request(c)
      PROVE  AgreeInv'
  <2>1. UNCHANGED <<flash, ram>> /\ UNCHANGED locals
    BY <1>2 DEF Request, RequestSave, RequestDelete, RequestGet
  <2>2. ASSUME NEW d \in Clients, req'[d].op = "delete"
        PROVE  req[d].op = "delete" \/ MaxDeletes # 0
    BY <1>0, <1>2, <2>2 DEF Request, RequestSave, RequestDelete, RequestGet
  <2>3. DeletesAllowed'
    BY <1>0, <2>2 DEF DeletesAllowed
  <2>. QED
    BY <2>1, <2>3, AgreeAside
<1>3. CASE Render \/ OtaBegin \/ OtaEnd \/ UNCHANGED vars
  <2>1. UNCHANGED <<flash, ram>> /\ UNCHANGED locals /\ req' = req
    BY <1>3 DEF Render, SwapPin, SwapDecode, SwapInstall, FadeEnd, OtaBegin, OtaEnd, vars
  <2>2. DeletesAllowed'
    BY <1>0, <2>1, DeletesStay
  <2>. QED
    BY <2>1, <2>2, AgreeAside
<1>4. CASE PowerCut
  BY <1>4, PowerCutAgrees
<1>. QED
  BY <1>1, <1>2, <1>3, <1>4 DEF Next

\* While no operation is refused, no update begins and nothing is swapped in, the
\* invariants of the store hold together.
LEMMA BaseStep ==
    ASSUME ~StaleLookups, MaxLeases = 0, MaxOtas = 0, MaxSwaps = 0, BaseInv, [Next]_vars
    PROVE  BaseInv'
<1>1. StoreInv'
  BY StoreStep DEF BaseInv
<1>2. VersInv'
  BY VersStep DEF BaseInv
<1>3. FilesInv'
  BY <1>1, FilesStep DEF BaseInv
<1>4. RepackInv'
  BY RepackStep DEF BaseInv
<1>5. RoomInv'
  BY <1>1, RoomStep DEF BaseInv
<1>6. NothingPinned'
  BY NothingPinnedStep DEF BaseInv
<1>. QED
  BY <1>1, <1>2, <1>3, <1>4, <1>5, <1>6 DEF BaseInv

-----------------------------------------------------------------------------
(* What follows for every instant, whatever the schedule and the cuts.        *)

\* While no operation is refused, no update begins and nothing is swapped in, the
\* RAM state knows the flash in every state.  The hypotheses leave out what the
\* code is known to get wrong: lookups that go stale before the guard, and
\* versions that come back when a cut tears the retirement of one deleted later.
THEOREM AgreeInvariant ==
    ~StaleLookups /\ MaxLeases = 0 /\ MaxOtas = 0 /\ MaxSwaps = 0 /\ (MaxDeletes = 0 \/ MaxCuts = 0) =>
        (Spec => [](BaseInv /\ AgreeInv))
<1>. SUFFICES ASSUME ~StaleLookups, MaxLeases = 0, MaxOtas = 0, MaxSwaps = 0,
                     MaxDeletes = 0 \/ MaxCuts = 0
              PROVE  Spec => [](BaseInv /\ AgreeInv)
  OBVIOUS
<1>1. Init => BaseInv /\ AgreeInv
  <2>. SUFFICES ASSUME Init PROVE BaseInv /\ AgreeInv
    OBVIOUS
  <2>1. NothingPinned
    BY DEF Init, NothingPinned, NoPlan
  <2>. QED
    BY <2>1, StoreInit, VersInit, FilesInit, RepackInit, RoomInit, AgreeInit DEF BaseInv
<1>2. BaseInv /\ AgreeInv /\ [Next]_vars => (BaseInv /\ AgreeInv)'
  <2>. SUFFICES ASSUME BaseInv, AgreeInv, [Next]_vars PROVE BaseInv' /\ AgreeInv'
    OBVIOUS
  <2>1. BaseInv'
    BY BaseStep
  <2>2. StoreInv'
    BY <2>1 DEF BaseInv
  <2>. QED
    BY <2>1, <2>2, AgreeStep
<1>. QED
  BY <1>1, <1>2, PTL DEF Spec

\* What a reload would make of the flash as it is.
LEMMA ReloadNow ==
    ASSUME BaseInv, AgreeInv
    PROVE  LET r == ReloadOf(flash)
           IN  /\ r.index \subseteq Live(flash)
               /\ \A e \in Live(flash) : \E k \in r.index : k.seq = e.seq /\ Precedes(k, e)
               /\ \A k, j \in r.index : k.seq = j.seq => k = j
               /\ \A n \in Nat : (\A e \in Emitted(flash) : e.seq < n) => r.nextSeq <= n
               /\ \A n \in Nat : 1 <= n /\ (\A e \in Emitted(flash) : e.stamp < n) => r.nextStamp <= n
               /\ \/ r.cursor = 0
                  \/ \E at \in Scan(flash) : End(flash[at].rec) = r.cursor
<1>. DEFINE S == KnownSeqs
<1>1. flash \in [Units -> Cell] /\ JobIsKnown /\ RoomInIndex
  BY DEF BaseInv, StoreInv, TypeOK, WorldType, AgreeInv
<1>2. PartlyWritten(flash)
  BY DEF PartlyWritten
<1>3. IsFiniteSet(S) /\ Cardinality(S) <= MaxRecs /\ \A e \in Live(flash) : e.seq \in S
  BY <1>1, <1>2, KnownSeqsFit, PartlyKnown
<1>. HIDE DEF S
<1>. QED
  BY <1>1, <1>3, ReloadTells

\* Between two transactions a reload would find the very index, and the cursor.
LEMMA RamAgreesNow ==
    ASSUME BaseInv, AgreeInv
    PROVE  RamAgrees
<1>. SUFFICES ASSUME holder = NoClient
              PROVE  LET r == ReloadOf(flash)
                     IN  /\ ram.index = r.index /\ ram.cursor = r.cursor
                         /\ ram.nextSeq >= r.nextSeq /\ ram.nextStamp >= r.nextStamp
  BY DEF RamAgrees
<1>. DEFINE r == ReloadOf(flash)
<1>1. /\ r.index \subseteq Live(flash)
      /\ \A e \in Live(flash) : \E k \in r.index : k.seq = e.seq /\ Precedes(k, e)
      /\ \A k, j \in r.index : k.seq = j.seq => k = j
      /\ \A n \in Nat : (\A e \in Emitted(flash) : e.seq < n) => r.nextSeq <= n
      /\ \A n \in Nat : 1 <= n /\ (\A e \in Emitted(flash) : e.stamp < n) => r.nextStamp <= n
      /\ \/ r.cursor = 0
         \/ \E at \in Scan(flash) : End(flash[at].rec) = r.cursor
  BY ReloadNow
<1>2. /\ phase = "none" /\ ~Compacting /\ \A at : ~Unpublished(at)
      /\ flash \in [Units -> Cell] /\ ram \in Ram /\ OneOfASeq /\ RecordsKnown /\ KnownBelow
  BY DEF BaseInv, StoreInv, TypeOK, TaskType, WorldType, Compacting, Unpublished, AgreeInv,
         FilesInv, RoomInv
<1>3. r.cursor = ScanCursor(flash)
  BY DEF ReloadOf
<1>. HIDE DEF r
<1>4. ASSUME NEW x \in Live(flash), NEW y \in Live(flash), x.seq = y.seq, Precedes(x, y), Precedes(y, x)
      PROVE  x = y
  <2>1. /\ x.off \in Nat /\ y.off \in Nat /\ x.stamp \in Nat /\ y.stamp \in Nat
        /\ x = RecordAt(flash, x.off) /\ y = RecordAt(flash, y.off)
    BY <1>2, EmittedFrom DEF Live
  <2>2. x.off = y.off
    BY <1>4, <2>1 DEF Precedes
  <2>. QED
    BY <2>1, <2>2
<1>5. ASSUME NEW k \in r.index
      PROVE  \E y \in ram.index : y.seq = k.seq /\ Precedes(y, k)
  BY <1>1, <1>2, <1>5 DEF RecordsKnown, LiveKnown
<1>6. ASSUME NEW x \in ram.index
      PROVE  x \in r.index
  <2>1. x \in Live(flash)
    BY <1>2, <1>6 DEF RecordsKnown, IndexLive
  <2>2. PICK k \in r.index : k.seq = x.seq /\ Precedes(k, x)
    BY <1>1, <2>1
  <2>3. PICK y \in ram.index : y.seq = k.seq /\ Precedes(y, k)
    BY <1>5, <2>2
  <2>4. y = x
    BY <1>2, <2>2, <2>3 DEF OneOfASeq
  <2>5. x = k
    BY <1>1, <1>4, <2>1, <2>2, <2>3, <2>4
  <2>. QED
    BY <2>2, <2>5
<1>7. ASSUME NEW k \in r.index
      PROVE  k \in ram.index
  <2>1. PICK y \in ram.index : y.seq = k.seq
    BY <1>5, <1>7
  <2>. QED
    BY <1>1, <1>6, <1>7, <2>1
<1>8. ram.cursor = r.cursor
  <2>1. \A at \in Scan(flash) : End(flash[at].rec) \in Nat /\ at < End(flash[at].rec) /\ at \in Nat
                                /\ End(flash[at].rec) <= r.cursor /\ End(flash[at].rec) <= ram.cursor
    BY <1>2, <1>3, ScanEnds DEF KnownBelow
  <2>2. ram.cursor = 0 \/ \E at \in Scan(flash) : End(flash[at].rec) = ram.cursor
    BY <1>2 DEF RecordsKnown, CursorTold
  <2>3. ram.cursor \in Nat
    BY <1>2, LogFacts DEF Ram
  <2>4. r.cursor = 0 \/ \E at \in Scan(flash) : End(flash[at].rec) = r.cursor
    BY <1>1
  <2>. QED
    BY <2>1, <2>2, <2>3, <2>4
<1>9. ram.nextSeq \in Nat /\ ram.nextStamp \in Nat /\ ram.nextStamp >= 1
      /\ \A e \in Emitted(flash) : e.seq < ram.nextSeq /\ e.stamp < ram.nextStamp
  BY <1>2 DEF Ram, RecordsKnown, CountersAhead
<1>10. r.nextSeq <= ram.nextSeq /\ r.nextStamp <= ram.nextStamp /\ r.nextSeq \in Int /\ r.nextStamp \in Int
  <2>1. r \in Ram
    BY <1>2, ReloadType DEF r
  <2>. QED
    BY <1>1, <1>9, <2>1 DEF Ram
<1>11. ram.nextSeq >= r.nextSeq /\ ram.nextStamp >= r.nextStamp
  BY <1>9, <1>10
<1>. QED
  BY <1>6, <1>7, <1>8, <1>11 DEF r

\* "What the device believes is always exactly what the flash says" (patterns.rs):
\* between two transactions a reboot would rebuild the index and the cursor the
\* device has, and no counter would go back.
THEOREM DeviceBelievesFlash ==
    ~StaleLookups /\ MaxLeases = 0 /\ MaxOtas = 0 /\ MaxSwaps = 0 /\ (MaxDeletes = 0 \/ MaxCuts = 0) =>
        (Spec => []RamAgrees)
BY AgreeInvariant, RamAgreesNow, PTL

\* At most MaxRecs files are indexed, one per seq and apart from each other, and
\* of two files of one seq on flash the stamps tell which is current (find_current
\* and reload, patterns.rs): the id a client holds names one version.
THEOREM VersionsAreTold ==
    ~StaleLookups /\ MaxLeases = 0 /\ MaxOtas = 0 /\ MaxSwaps = 0 /\ (MaxDeletes = 0 \/ MaxCuts = 0) =>
        (Spec => []VersionsTold)
<1>1. BaseInv /\ AgreeInv /\ FilesApart => VersionsTold
  BY DEF AgreeInv, RoomInIndex, RecordsKnown, StampsTell, VersionsTold, IndexSound, StampsNameVersions
<1>. QED
  BY <1>1, AgreeInvariant, FilesStayApart, PTL

\* A file survives a reload of a flash that has it live, unless it is replaced.
LEMMA LiveSurvives ==
    ASSUME BaseInv, AgreeInv, NEW r \in ram.index,
           NEW e \in Live(flash), e.seq = r.seq, e.stamp = r.stamp, e.ver = r.ver
    PROVE  \/ Survives(r, ReloadOf(flash).index)
           \/ Appending /\ r.seq = job.rec.seq
<1>. DEFINE after == ReloadOf(flash).index
<1>1. PICK k \in after : k.seq = e.seq /\ Precedes(k, e)
  BY ReloadNow
<1>2. k \in Live(flash)
  BY ReloadNow
<1>3. /\ flash \in [Units -> Cell] /\ OneOfASeq /\ RecordsKnown /\ JobIsKnown /\ StoreInv /\ FilesInv
  BY DEF BaseInv, StoreInv, TypeOK, WorldType, AgreeInv, FilesInv
<1>4. CASE Unpublished(k.off)
  <2>1. phase = "publish" /\ k = job.rec
    BY <1>2, <1>3, <1>4, PublishedLive DEF Unpublished, Live
  <2>. QED
    BY <1>1, <2>1 DEF Appending
<1>5. CASE ~Unpublished(k.off)
  <2>1. PICK y \in ram.index : y.seq = k.seq /\ k.stamp <= y.stamp
    BY <1>2, <1>3, <1>5 DEF RecordsKnown, LiveKnown
  <2>2. y = r
    BY <1>1, <1>3, <2>1 DEF OneOfASeq
  <2>3. k.stamp \in Nat /\ e.stamp \in Nat
    BY <1>2, <1>3, EmittedFrom DEF Live
  <2>4. k.stamp = e.stamp
    BY <1>1, <2>1, <2>2, <2>3 DEF Precedes
  <2>5. k.ver = e.ver
    BY <1>1, <1>2, <1>3, <2>4 DEF RecordsKnown, StampsTell, Live
  <2>. QED
    BY <1>1, <2>5 DEF Survives
<1>. QED
  BY <1>4, <1>5

\* A file whose new place lies on both sides of a page touches it.
LEMMA NewPlaceTouches ==
    ASSUME NEW pl, PlanSound(pl), NEW r \in pl.keep, NEW p \in Nat,
           p \notin PagesOf(pl.to[r], Size(r)), NEW u \in NewExtent(pl, r), ~(PageOf(u) < p)
    PROVE  p < PageOf(r.off)
<1>. DEFINE at == pl.to[r]
            v == p * PageSize
<1>1. /\ r \in Rec /\ at \in Nat /\ u \in Nat /\ at <= u /\ u < at + Size(r)
      /\ r.off \in Nat /\ Size(r) \in Nat \ {0} /\ at <= r.off
  BY NewPlace, RecFacts DEF PlanSound, PlanHolds
<1>2. \A x \in Nat : at <= x /\ x <= u => x \in Extent(at, Size(r)) /\ PageOf(x) # p
  BY <1>1 DEF Extent, PagesOf
<1>. HIDE DEF at
<1>3. /\ PageOf(at) \in Nat /\ PageOf(u) \in Nat /\ PageOf(r.off) \in Nat /\ v \in Nat
      /\ PageOf(at) * PageSize <= at /\ at < PageOf(at) * PageSize + PageSize
      /\ PageOf(u) * PageSize <= u
      /\ PageOf(r.off) * PageSize <= r.off /\ r.off < PageOf(r.off) * PageSize + PageSize
      /\ PageSize \in Nat \ {0}
  BY <1>1, OnItsPage, PagesInOrder, GeometryAssumption
<1>4. PageOf(at) # p /\ PageOf(u) # p
  BY <1>1, <1>2
<1>5. v <= u
  <2>1. p < PageOf(u)
    BY <1>3, <1>4
  <2>2. v + PageSize <= PageOf(u) * PageSize /\ PageOf(u) * PageSize \in Nat
    BY <1>3, <2>1, PagesInOrder
  <2>. HIDE DEF v
  <2>. QED
    BY <1>1, <1>3, <2>2
<1>6. PageOf(v) = p
  BY <1>3, OnOnePage
<1>7. ~(at <= v)
  BY <1>2, <1>3, <1>5, <1>6
<1>8. ~(PageOf(r.off) <= p)
  <2>. SUFFICES ASSUME PageOf(r.off) <= p PROVE FALSE
    OBVIOUS
  <2>1. CASE PageOf(r.off) = p
    <3>1. at < v + PageSize
      <4>. HIDE DEF v
      <4>1. PageOf(r.off) * PageSize = v
        BY <2>1 DEF v
      <4>. QED
        BY <1>1, <1>3, <4>1
    <3>2. PageOf(at) = p
      <4>. HIDE DEF v
      <4>1. v <= at
        BY <1>1, <1>3, <1>7
      <4>. QED
        BY <1>1, <3>1, <4>1, OnOnePage DEF v
    <3>. QED
      BY <1>4, <3>2
  <2>2. CASE PageOf(r.off) < p
    <3>1. PageOf(r.off) * PageSize + PageSize <= v /\ PageOf(r.off) * PageSize \in Nat
      BY <1>3, <2>2, PagesInOrder
    <3>. HIDE DEF v
    <3>. QED
      BY <1>1, <1>3, <1>7, <3>1
  <2>3. PageOf(r.off) \in Nat /\ p \in Nat
    BY <1>3
  <2>4. PageOf(r.off) = p \/ PageOf(r.off) < p
    BY <2>3
  <2>. QED
    BY <2>1, <2>2, <2>4
<1>. QED
  BY <1>3, <1>8

\* While a page is being rewritten every kept file not about to occupy it is live
\* on flash: at its old place above the page, or at its new one.
LEMMA UnexposedLive ==
    ASSUME BaseInv, AgreeInv, phase \in {"vacate", "rewrite"}, NEW r \in ram.index, r \notin Exposed
    PROVE  \E e \in Live(flash) : e.seq = r.seq /\ e.stamp = r.stamp /\ e.ver = r.ver
<1>1. /\ PlanSound(plan) /\ Repacked(flash, plan, page) /\ r \in plan.keep /\ CopyLive(r)
      /\ flash \in [Units -> Cell] /\ page \in Nat /\ r \in File /\ r \in Rec
  BY GeometryAssumption
  DEF BaseInv, StoreInv, CompactionSound, Compacting, RepackInv, AgreeInv, JobIsKnown, CopiesLive,
      TypeOK, WorldType, Pages, PlanSound, File
<1>2. page \notin PagesOf(plan.to[r], Size(r))
  BY <1>1 DEF Exposed
<1>3. CASE \A u \in NewExtent(plan, r) : PageOf(u) < page
  <2>. DEFINE at == plan.to[r]
  <2>1. Accepts(flash, at) /\ SameFile(flash[at].rec, [r EXCEPT !.off = at])
    BY <1>1, <1>3, CopiedStands
  <2>2. at \in Scan(flash) /\ at \in NewExtent(plan, r)
    <3>1. at \in Units /\ at \in Nat /\ Size(r) \in Nat \ {0}
      BY <1>1, RecFacts, LogFacts DEF PlanSound, PlanHolds
    <3>. QED
      BY <2>1, <3>1 DEF Scan, NewExtent, Extent
  <2>3. ~flash[at].dead
    BY <1>1, <1>3, <2>2 DEF CopyLive
  <2>. DEFINE e == RecordAt(flash, at)
  <2>4. e \in Emitted(flash) /\ e.dead = flash[at].dead /\ SameFile(e, flash[at].rec)
    BY <1>1, <2>2, EmittedAt
  <2>. HIDE DEF e
  <2>5. e \in Live(flash)
    BY <2>3, <2>4 DEF Live
  <2>6. e.seq = r.seq /\ e.stamp = r.stamp /\ e.ver = r.ver
    BY <1>1, <2>1, <2>4 DEF SameFile, Rec
  <2>. QED
    BY <2>5, <2>6
<1>4. CASE \E u \in NewExtent(plan, r) : ~(PageOf(u) < page)
  <2>1. page < PageOf(r.off)
    BY <1>1, <1>2, <1>4, NewPlaceTouches
  <2>2. Stands(flash, r) /\ ~flash[r.off].dead
    BY <1>1, <2>1 DEF CopyLive
  <2>3. r.off \in Scan(flash)
    BY <1>1, <2>2, StandsScanned
  <2>. DEFINE e == RecordAt(flash, r.off)
  <2>4. e \in Emitted(flash) /\ e.dead = flash[r.off].dead /\ SameFile(e, flash[r.off].rec)
    BY <1>1, <2>3, EmittedAt
  <2>. HIDE DEF e
  <2>5. e \in Live(flash) /\ e.seq = r.seq /\ e.stamp = r.stamp /\ e.ver = r.ver
    BY <2>2, <2>4 DEF Live, Stands, SameFile
  <2>. QED
    BY <2>5
<1>. QED
  BY <1>3, <1>4

\* At this instant a power cut loses no indexed file, but ...
LEMMA LossBoundedNow ==
    ASSUME BaseInv, AgreeInv
    PROVE  LossBounded
<1>. SUFFICES ASSUME NEW r \in ram.index, r \notin Exposed
              PROVE  \/ Survives(r, ReloadOf(flash).index)
                     \/ Appending /\ r.seq = job.rec.seq
  BY DEF LossBounded
<1>1. \E e \in Live(flash) : e.seq = r.seq /\ e.stamp = r.stamp /\ e.ver = r.ver
  <2>1. CASE ~Compacting
    BY <2>1 DEF AgreeInv, RecordsKnown, IndexLive
  <2>2. CASE phase \in {"vacate", "rewrite"}
    BY <2>2, UnexposedLive
  <2>3. CASE phase \in {"sweep", "reload"}
    BY <2>3, CopiesStand
  <2>. QED
    BY <2>1, <2>2, <2>3 DEF Compacting
<1>. QED
  BY <1>1, LiveSurvives

\* Inside every transaction, between any two flash operations, each indexed file
\* is what a reboot would find, but for one a newer version is replacing and, in a
\* compaction, those that will occupy the page being rewritten (append_plan and
\* compact, patterns.rs).
THEOREM FilesSurvive ==
    ~StaleLookups /\ MaxLeases = 0 /\ MaxOtas = 0 /\ MaxSwaps = 0 /\ (MaxDeletes = 0 \/ MaxCuts = 0) =>
        (Spec => []LossBounded)
BY AgreeInvariant, LossBoundedNow, PTL

-----------------------------------------------------------------------------
(* What clients were told, and what a reboot finds under their names.         *)

\* The records of a seq, indexed or on flash, have one name, and the indexed
\* files have names of their own.
NamesTell ==
    \A x, y \in Emitted(flash) \cup ram.index : x.seq = y.seq => x.name = y.name
NamesApart == \A r, k \in ram.index : r.name = k.name => r = k

\* The file of the job has the name of its seq, and the seq of its name.
JobNamed ==
    Appending \/ Compacting =>
        /\ \A x \in Emitted(flash) \cup ram.index : x.seq = job.rec.seq => x.name = job.rec.name
        /\ \A r \in ram.index : r.name = job.rec.name => r.seq = job.rec.seq

\* What is indexed was promised, but for the file whose save is being answered,
\* and where nothing is, nothing was.
PromiseKept ==
    /\ \A r \in ram.index : r.ver \in promise[r.name] \/ (phase = "retire" /\ r = job.rec)
    /\ \A n \in Names : (\A r \in ram.index : r.name # n) => 0 \in promise[n]

PromiseInv == NamesTell /\ NamesApart /\ JobNamed /\ PromiseKept

\* A file that stands, not marked dead, is one a reload sees.
LEMMA StandsLive ==
    ASSUME NEW fl \in [Units -> Cell], NEW r \in File, Stands(fl, r), ~fl[r.off].dead
    PROVE  \E e \in Live(fl) : e.seq = r.seq /\ e.stamp = r.stamp /\ e.ver = r.ver
<1>1. r.off \in Scan(fl)
  BY StandsScanned
<1>. DEFINE e == RecordAt(fl, r.off)
<1>2. e \in Emitted(fl) /\ e.dead = fl[r.off].dead /\ SameFile(e, fl[r.off].rec)
  BY <1>1, EmittedAt
<1>. HIDE DEF e
<1>. QED
  BY <1>2 DEF Live, Stands, SameFile

\* The copy of a kept file, once every page of its new place is done.
LEMMA CopyStands ==
    ASSUME NEW fl, NEW pl, PlanSound(pl), NEW f, Repacked(fl, pl, f), NEW r \in pl.keep,
           \A u \in NewExtent(pl, r) : PageOf(u) < f
    PROVE  LET k == [r EXCEPT !.off = pl.to[r]]
           IN  k \in File /\ Stands(fl, k) /\ SameFile(k, [r EXCEPT !.off = pl.to[r]])
<1>. DEFINE at == pl.to[r]
            k == [r EXCEPT !.off = at]
<1>1. Accepts(fl, at) /\ SameFile(fl[at].rec, k)
  BY CopiedStands
<1>2. r \in Rec /\ at \in Units /\ at \in Nat /\ at <= r.off /\ End(r) <= LogLen
  BY LogFacts DEF PlanSound, PlanHolds, File
<1>3. k \in Rec /\ k.off = at /\ k.len = r.len
  BY <1>2 DEF Rec
<1>4. End(k) <= LogLen
  BY <1>2, <1>3, RecFacts, LogFacts DEF End, Size
<1>5. HeaderAt(fl, at) /\ PayloadWhole(fl, fl[at].rec)
  BY <1>1 DEF Accepts
<1>6. PayloadWhole(fl, k)
  BY <1>1, <1>5 DEF PayloadWhole, SameFile, End, Size
<1>. QED
  BY <1>1, <1>3, <1>4, <1>5, <1>6 DEF Stands, File, SameFile

\* A file that stands where the operation in flight writes nothing.
Spared(k) ==
    /\ k \in File /\ Stands(flash, k) /\ ~flash[k.off].dead
    /\ \A u \in Extent(k.off, Size(k)) : u \notin DOMAIN Written

\* Neither an append nor a dead word touches an indexed file, but for the version
\* the dead word is meant for.
LEMMA IndexSpared ==
    ASSUME BaseInv, AgreeInv, ~Compacting, phase # "delete", NEW r \in ram.index
    PROVE  Spared(r)
<1>1. /\ flash \in [Units -> Cell] /\ StoreInv /\ FilesInv /\ RecordsKnown /\ r \in File /\ r \in Held
  BY HeldFiles DEF BaseInv, StoreInv, TypeOK, WorldType, AgreeInv
<1>2. Stands(flash, r)
  BY <1>1 DEF FilesInv, AllStand
<1>3. ~flash[r.off].dead
  <2>1. r \in Live(flash)
    BY <1>1 DEF RecordsKnown, IndexLive
  <2>. QED
    BY <1>1, <2>1, EmittedFrom DEF Live
<1>4. CASE phase \in {"erase", "header", "payload", "commit"}
  <2>1. Extent(r.off, Size(r)) \cap Cleared(job.rec.off, Size(job.rec)) = {}
    BY <1>1, <1>4 DEF FilesInv, PlaceIsFree, Appending
  <2>2. \A u \in DOMAIN Written : u \in Cleared(job.rec.off, Size(job.rec))
    BY <1>1, <1>4, AppendInside DEF FilesInv
  <2>. QED
    BY <1>1, <1>2, <1>3, <2>1, <2>2 DEF Spared
<1>5. CASE phase = "retire"
  <2>. DEFINE x == The(job.old).off
  <2>1. /\ HeaderAt(flash, x) /\ flash[x].rec.seq = job.rec.seq /\ flash[x].rec.ver # job.rec.ver
    BY <1>1, <1>5 DEF FilesInv, OldIsMeant
  <2>2. DOMAIN Written = {x}
    BY <1>5 DEF Written
  <2>. HIDE DEF x
  <2>3. /\ SameFile(flash[r.off].rec, r)
        /\ \A u \in Extent(r.off, Size(r)) : u # r.off => flash[u] = Data(r.ver, u - r.off)
    BY <1>1, <1>2, StandsFacts DEF Stands
  <2>4. x # r.off
    <3>. SUFFICES ASSUME x = r.off PROVE FALSE
      OBVIOUS
    <3>1. r.seq = job.rec.seq /\ r.ver # job.rec.ver
      BY <2>1, <2>3 DEF SameFile
    <3>2. job.rec \in ram.index /\ OneOfASeq
      BY <1>1, <1>5 DEF AgreeInv, JobIsKnown, FilesInv
    <3>. QED
      BY <3>1, <3>2 DEF OneOfASeq
  <2>5. x \notin Extent(r.off, Size(r))
    <3>. SUFFICES ASSUME x \in Extent(r.off, Size(r)) PROVE FALSE
      OBVIOUS
    <3>1. flash[x] = Data(r.ver, x - r.off)
      BY <2>3, <2>4
    <3>2. flash[x].kind = "data"
      BY <3>1 DEF Data
    <3>. QED
      BY <2>1, <3>2 DEF HeaderAt
  <2>. QED
    BY <1>1, <1>2, <1>3, <2>2, <2>5 DEF Spared
<1>6. CASE phase \in {"none", "publish"}
  <2>1. DOMAIN Written = {}
    BY <1>6 DEF Written
  <2>. QED
    BY <1>1, <1>2, <1>3, <2>1 DEF Spared
<1>7. phase \in Phases
  BY <1>1 DEF StoreInv, TypeOK, TaskType
<1>. QED
  BY <1>4, <1>5, <1>6, <1>7 DEF Phases, Compacting

\* A compaction keeps every file it does not expose out of the page in hand: at its
\* old place above the page, or at its new one below it or, in the sweep, anywhere.
LEMMA KeptSpared ==
    ASSUME BaseInv, AgreeInv, Compacting, NEW r \in ram.index, r \notin Exposed
    PROVE  \E k : Spared(k) /\ k.seq = r.seq /\ k.stamp = r.stamp /\ k.ver = r.ver
<1>1. /\ PlanSound(plan) /\ r \in plan.keep /\ r \in File /\ r \in Rec /\ flash \in [Units -> Cell]
  BY DEF BaseInv, StoreInv, CompactionSound, AgreeInv, JobIsKnown, TypeOK, WorldType, PlanSound, File
<1>. DEFINE at == plan.to[r]
            k == [r EXCEPT !.off = at]
<1>2. /\ at \in Nat /\ at \in Units /\ k.off = at /\ Size(k) = Size(r) /\ at \in NewExtent(plan, r)
      /\ k.seq = r.seq /\ k.stamp = r.stamp /\ k.ver = r.ver
  <2>1. at \in Units /\ at \in Nat /\ r.len \in Nat /\ Size(r) = 1 + r.len
    BY <1>1, RecFacts, LogFacts DEF PlanSound, PlanHolds, Size
  <2>2. /\ k.off = at /\ k.len = r.len /\ k.seq = r.seq /\ k.stamp = r.stamp /\ k.ver = r.ver
    <3>. HIDE DEF at
    <3>. QED
      BY <1>1 DEF Rec
  <2>. HIDE DEF k, at
  <2>3. at \in Extent(at, Size(r))
    BY <2>1 DEF Extent
  <2>. QED
    BY <2>1, <2>2, <2>3 DEF NewExtent, Size, at
<1>3. Extent(k.off, Size(k)) = NewExtent(plan, r)
  BY <1>2 DEF NewExtent
<1>. HIDE DEF k, at
<1>4. CASE phase = "reload"
  <2>1. DOMAIN Written = {}
    BY <1>4 DEF Written
  <2>2. Repacked(flash, plan, NumPages) /\ ~flash[at].dead
    BY <1>1, <1>4 DEF BaseInv, RepackInv, AgreeInv, CopiesLive, at
  <2>3. \A u \in NewExtent(plan, r) : PageOf(u) < NumPages
    <3>1. \A u \in NewExtent(plan, r) : PageOf(u) \in Pages
      BY <1>1, NewPagesKnown
    <3>. QED
      BY <3>1, GeometryAssumption DEF Pages
  <2>4. k \in File /\ Stands(flash, k)
    BY <1>1, <2>2, <2>3, CopyStands DEF k, at
  <2>. QED
    BY <1>2, <2>1, <2>2, <2>4 DEF Spared
<1>5. CASE phase = "sweep"
  <2>1. DOMAIN Written = PageUnits(page) /\ page \in SweepPages(plan.keep, plan.to, plan.oldEnd)
    BY <1>5 DEF Written, BaseInv, StoreInv, CompactionSound
  <2>2. Repacked(flash, plan, NumPages) /\ ~flash[at].dead
    BY <1>1, <1>5 DEF BaseInv, RepackInv, AgreeInv, CopiesLive, at
  <2>3. \A u \in NewExtent(plan, r) : PageOf(u) < NumPages
    <3>1. \A u \in NewExtent(plan, r) : PageOf(u) \in Pages
      BY <1>1, NewPagesKnown
    <3>. QED
      BY <3>1, GeometryAssumption DEF Pages
  <2>4. k \in File /\ Stands(flash, k)
    BY <1>1, <2>2, <2>3, CopyStands DEF k, at
  <2>5. ASSUME NEW u \in NewExtent(plan, r)
        PROVE  u \notin PageUnits(page)
    <3>1. at + Size(r) <= page * PageSize /\ page \in Nat
      BY <1>1, <2>1, LogFacts DEF SweepPages, Pages, at
    <3>2. u \in Nat /\ u < at + Size(r) /\ Size(r) \in Nat
      BY <1>1, <1>2, RecFacts, NewPlace DEF NewExtent, Extent, at
    <3>3. PageOf(u) * PageSize <= u /\ PageOf(u) \in Nat /\ PageOf(u) * PageSize \in Nat
      BY <3>2, OnItsPage, PagesInOrder
    <3>4. page * PageSize \in Nat
      BY <3>1, PagesInOrder
    <3>5. PageOf(u) # page
      <4>. SUFFICES ASSUME PageOf(u) = page PROVE FALSE
        OBVIOUS
      <4>1. PageOf(u) * PageSize = page * PageSize
        OBVIOUS
      <4>. QED
        BY <1>2, <3>1, <3>2, <3>3, <3>4, <4>1
    <3>. QED
      BY <3>5 DEF PageUnits
  <2>. QED
    BY <1>2, <1>3, <2>1, <2>2, <2>4, <2>5 DEF Spared
<1>6. CASE phase \in {"vacate", "rewrite"}
  <2>1. /\ DOMAIN Written = PageUnits(page) /\ Repacked(flash, plan, page) /\ CopyLive(r)
        /\ page \in Nat /\ page \notin PagesOf(at, Size(r))
    BY <1>1, <1>6, LogFacts
    DEF Written, BaseInv, StoreInv, CompactionSound, RepackInv, AgreeInv, CopiesLive, Pages, Exposed, at
  <2>2. CASE \A u \in NewExtent(plan, r) : PageOf(u) < page
    <3>1. k \in File /\ Stands(flash, k)
      BY <1>1, <2>1, <2>2, CopyStands DEF k, at
    <3>2. ~flash[at].dead
      BY <1>2, <2>1, <2>2 DEF CopyLive, at
    <3>3. \A u \in NewExtent(plan, r) : u \notin PageUnits(page)
      BY <2>1, <2>2 DEF PageUnits
    <3>. QED
      BY <1>2, <1>3, <2>1, <3>1, <3>2, <3>3 DEF Spared
  <2>3. CASE \E u \in NewExtent(plan, r) : ~(PageOf(u) < page)
    <3>1. page < PageOf(r.off)
      BY <1>1, <2>1, <2>3, NewPlaceTouches DEF at
    <3>2. Stands(flash, r) /\ ~flash[r.off].dead
      BY <2>1, <3>1 DEF CopyLive
    <3>3. \A u \in Extent(r.off, Size(r)) : u \notin PageUnits(page)
      <4>1. /\ r.off \in Nat /\ Size(r) \in Nat \ {0} /\ PageOf(r.off) \in Nat
            /\ PageOf(r.off) * PageSize <= r.off
        BY <1>1, RecFacts, OnItsPage
      <4>2. /\ page * PageSize + PageSize <= PageOf(r.off) * PageSize
            /\ page * PageSize \in Nat /\ PageOf(r.off) * PageSize \in Nat
        BY <2>1, <3>1, <4>1, PagesInOrder
      <4>3. ASSUME NEW u \in Extent(r.off, Size(r)), PageOf(u) = page
            PROVE  FALSE
        <5>1. u \in Nat /\ r.off <= u
          BY <4>1, <4>3 DEF Extent
        <5>2. u < PageOf(u) * PageSize + PageSize
          BY <5>1, OnItsPage
        <5>3. PageOf(u) * PageSize = page * PageSize
          BY <4>3
        <5>. QED
          BY <4>1, <4>2, <5>1, <5>2, <5>3, GeometryAssumption
      <4>. QED
        BY <4>3 DEF PageUnits
    <3>. QED
      BY <1>1, <2>1, <3>2, <3>3 DEF Spared
  <2>. QED
    BY <2>2, <2>3
<1>. QED
  BY <1>4, <1>5, <1>6 DEF Compacting

\* So however far an operation gets, a reboot finds every indexed file that it does
\* not expose.
LEMMA TornKeeps ==
    ASSUME BaseInv, AgreeInv, phase # "delete", NEW r \in ram.index, r \notin Exposed,
           NEW fl \in Torn, fl \in [Units -> Cell]
    PROVE  \E e \in Live(fl) : e.seq = r.seq /\ e.stamp = r.stamp /\ e.ver = r.ver
<1>1. PICK k : Spared(k) /\ k.seq = r.seq /\ k.stamp = r.stamp /\ k.ver = r.ver
  BY IndexSpared, KeptSpared
<1>2. k \in File /\ Stands(flash, k) /\ ~flash[k.off].dead /\ flash \in [Units -> Cell]
  BY <1>1 DEF Spared, BaseInv, StoreInv, TypeOK, WorldType
<1>3. \A u \in Extent(k.off, Size(k)) : u \in Units /\ fl[u] = flash[u]
  BY <1>1, <1>2, StandsFacts, UntouchedStays DEF Spared
<1>4. Stands(fl, k)
  BY <1>2, <1>3, StandsOn
<1>5. ~fl[k.off].dead
  BY <1>2, <1>3, RecFacts DEF File, Extent
<1>. QED
  BY <1>1, <1>2, <1>4, <1>5, StandsLive

-----------------------------------------------------------------------------

\* However far an operation gets, names and seqs go together.
LEMMA PartlyNamed ==
    ASSUME BaseInv, AgreeInv, NamesTell, JobNamed, NEW fl \in [Units -> Cell], PartlyWritten(fl)
    PROVE  /\ \A x, y \in Emitted(fl) \cup ram.index : x.seq = y.seq => x.name = y.name
           /\ Appending \/ Compacting =>
                \A x \in Emitted(fl) \cup ram.index : x.seq = job.rec.seq => x.name = job.rec.name
<1>. DEFINE old == Emitted(flash) \cup ram.index
            new == Emitted(fl) \cup ram.index
<1>1. ASSUME NEW x \in new
      PROVE  \/ \E k \in old : k.seq = x.seq /\ k.name = x.name
             \/ Appending /\ x.seq = job.rec.seq /\ x.name = job.rec.name
  <2>1. CASE x \in ram.index
    BY <2>1
  <2>2. CASE x \in Emitted(fl)
    BY <2>2, PartlyEmitted DEF Tells, SameFile, Appending
  <2>. QED
    BY <2>1, <2>2
<1>2. \A k \in old : (Appending \/ Compacting) /\ k.seq = job.rec.seq => k.name = job.rec.name
  BY DEF JobNamed
<1>3. ASSUME NEW x \in new, NEW y \in new, x.seq = y.seq
      PROVE  x.name = y.name
  <2>1. \A k, j \in old : k.seq = j.seq => k.name = j.name
    BY DEF NamesTell
  <2>. HIDE DEF old, new
  <2>. QED
    BY <1>1, <1>2, <1>3, <2>1
<1>4. ASSUME Appending \/ Compacting, NEW x \in new, x.seq = job.rec.seq
      PROVE  x.name = job.rec.name
  <2>. HIDE DEF old, new
  <2>. QED
    BY <1>1, <1>2, <1>4
<1>. QED
  BY <1>3, <1>4

\* A flash operation of a transaction that goes on with its file, or ends, leaves
\* the names as they are.
LEMMA StillNamed ==
    ASSUME BaseInv, AgreeInv, PromiseInv, flash' \in [Units -> Cell], PartlyWritten(flash'),
           ram' = ram, (Appending \/ Compacting)' => (Appending \/ Compacting) /\ job'.rec = job.rec
    PROVE  NamesTell' /\ NamesApart' /\ JobNamed'
<1>1. /\ \A x, y \in Emitted(flash') \cup ram.index : x.seq = y.seq => x.name = y.name
      /\ Appending \/ Compacting =>
            \A x \in Emitted(flash') \cup ram.index : x.seq = job.rec.seq => x.name = job.rec.name
  BY PartlyNamed DEF PromiseInv
<1>2. NamesTell'
  BY <1>1 DEF NamesTell
<1>3. NamesApart'
  BY DEF PromiseInv, NamesApart
<1>4. JobNamed'
  BY <1>1 DEF PromiseInv, JobNamed
<1>. QED
  BY <1>2, <1>3, <1>4

\* Promises that only grow are kept while the index stays.
LEMMA StillKept ==
    ASSUME PromiseKept, phase # "retire", ram' = ram,
           \A n \in Names : promise[n] \subseteq promise'[n], ram \in Ram
    PROVE  PromiseKept'
<1>1. \A r \in ram.index : r.name \in Names
  BY DEF Ram, File, Rec
<1>. QED
  BY <1>1 DEF PromiseKept

\* A boot, wherever an operation is cut, finds what was promised.
LEMMA PowerCutPromises ==
    ASSUME BaseInv, BaseInv', AgreeInv, AgreeInv', MaxDeletes = 0 \/ MaxCuts = 0, PromiseInv, PowerCut
    PROVE  PromiseInv'
<1>. DEFINE fl == flash'
            index == ram'.index
<1>1. /\ fl \in Torn /\ phase' = "none" /\ used.cuts < MaxCuts
      /\ promise' = [ n \in Names |->
           promise[n]
             \cup (IF n \in { r.name : r \in Exposed } THEN Versions ELSE {})
             \cup (IF (Appending \/ phase = "retire") /\ n = job.rec.name
                   THEN {job.rec.ver} ELSE {})
             \cup (IF phase = "delete" /\ n = job.rec.name THEN {0} ELSE {}) ]
  BY DEF PowerCut, Boot
<1>2. /\ flash \in [Units -> Cell] /\ fl \in [Units -> Cell] /\ used.cuts \in Nat /\ MaxCuts \in Nat
      /\ ram \in Ram /\ ram' \in Ram
      /\ NamesTell /\ NamesApart /\ JobNamed /\ PromiseKept /\ RecordsKnown /\ JobIsKnown
      /\ RecordsKnown' /\ StoreInv /\ FilesInv
  BY StoreAssumption DEF BaseInv, StoreInv, TypeOK, WorldType, Used, AgreeInv, PromiseInv
<1>3. phase # "delete"
  <2>1. phase = "delete" => holder \in Clients /\ req[holder].op = "delete"
    BY <1>2 DEF StoreInv, TypeOK, TaskType
  <2>2. MaxDeletes = 0
    BY <1>1, <1>2
  <2>. QED
    BY <2>1, <2>2 DEF AgreeInv, DeletesAllowed
<1>4. /\ index \subseteq Live(fl)
      /\ \A e \in Live(fl) : \E k \in index : k.seq = e.seq /\ Precedes(k, e)
      /\ \A k, j \in index : k.seq = j.seq => k = j
      /\ \A k, j \in Live(fl) : k.seq = j.seq /\ k.stamp = j.stamp => k.ver = j.ver
  <2>1. ~Compacting' /\ \A at : ~Unpublished(at)'
    BY <1>1 DEF Compacting, Unpublished
  <2>2. OneOfASeq'
    BY DEF BaseInv, FilesInv
  <2>. QED
    BY <1>2, <2>1, <2>2 DEF RecordsKnown, IndexLive, LiveKnown, OneOfASeq, StampsTell, Live
<1>5. \A r \in ram.index : r \in Rec /\ r.name \in Names
  BY <1>2 DEF Ram, File, Rec
<1>6. \A e \in Emitted(fl) : e \in Rec /\ e.name \in Names /\ e.ver \in Versions /\ e.stamp \in Nat
  BY <1>2, EmittedFrom DEF Rec
<1>7. PartlyWritten(fl)
  BY <1>1, PartlyTorn
<1>8. \A r \in ram.index : r \notin Exposed =>
          \E e \in Live(fl) : e.seq = r.seq /\ e.stamp = r.stamp /\ e.ver = r.ver
  <2>. HIDE DEF fl
  <2>. QED
    BY <1>1, <1>2, <1>3, TornKeeps
<1>9. /\ \A x, y \in Emitted(fl) \cup ram.index : x.seq = y.seq => x.name = y.name
      /\ Appending => \A x \in Emitted(fl) \cup ram.index :
                          x.seq = job.rec.seq => x.name = job.rec.name
      /\ \A e \in Live(fl) : e.seq \in KnownSeqs
      /\ \A e \in Emitted(fl) :
           \/ \E k \in Emitted(flash) : Tells(k, e) /\ SameFile(k, e)
           \/ phase = "rewrite" /\ \E r \in ram.index : Tells(r, e)
           \/ phase = "commit" /\ SameFile(e, job.rec)
  <2>. HIDE DEF fl
  <2>. QED
    BY <1>2, <1>7, PartlyNamed, PartlyKnown, PartlyEmitted
<1>. HIDE DEF fl, index
<1>10. /\ \A n \in Names : promise[n] \subseteq promise'[n]
       /\ \A r \in Exposed : r.name \in Names => Versions \subseteq promise'[r.name]
       /\ Appending \/ phase = "retire" =>
            (job.rec.name \in Names => job.rec.ver \in promise'[job.rec.name])
  BY <1>1
<1>11. NamesTell'
  BY <1>4, <1>9 DEF NamesTell, fl, index, Live
<1>12. NamesApart'
  <2>. SUFFICES ASSUME NEW k \in index, NEW j \in index, k.name = j.name
                PROVE  k.seq = j.seq
    BY <1>4 DEF NamesApart, index
  <2>1. /\ k \in Emitted(fl) /\ j \in Emitted(fl) /\ k.seq \in KnownSeqs /\ j.seq \in KnownSeqs
    BY <1>4, <1>9 DEF Live
  <2>2. ASSUME NEW x \in Emitted(fl), NEW y \in Emitted(fl), x.name = y.name,
               NEW r \in ram.index, x.seq = r.seq, y.seq \in KnownSeqs
        PROVE  x.seq = y.seq
    <3>1. r.name = x.name
      BY <1>9, <2>2
    <3>2. CASE \E s \in ram.index : y.seq = s.seq
      <4>1. PICK s \in ram.index : y.seq = s.seq
        BY <3>2
      <4>2. s.name = y.name
        BY <1>9, <4>1
      <4>. QED
        BY <1>2, <2>2, <3>1, <4>1, <4>2 DEF NamesApart
    <3>3. CASE Appending /\ y.seq = job.rec.seq
      <4>1. y.name = job.rec.name
        BY <1>9, <3>3
      <4>. QED
        BY <1>2, <2>2, <3>1, <3>3, <4>1 DEF JobNamed
    <3>. QED
      BY <2>2, <3>2, <3>3 DEF KnownSeqs
  <2>3. CASE \E r \in ram.index : k.seq = r.seq
    BY <2>1, <2>2, <2>3
  <2>4. CASE \E r \in ram.index : j.seq = r.seq
    BY <2>1, <2>2, <2>4
  <2>. QED
    BY <2>1, <2>3, <2>4 DEF KnownSeqs
<1>13. JobNamed'
  BY <1>1 DEF JobNamed, Appending, Compacting
<1>14. ASSUME NEW k \in index
       PROVE  k.ver \in promise'[k.name]
  <2>1. k \in Live(fl) /\ k \in Emitted(fl) /\ ~k.dead /\ k.name \in Names /\ k.ver \in Versions
    BY <1>4, <1>6 DEF Live
  <2>2. CASE phase = "commit" /\ SameFile(k, job.rec)
    BY <1>10, <2>1, <2>2 DEF SameFile, Appending
  <2>3. CASE phase = "rewrite" /\ \E r \in ram.index : Tells(r, k)
    <3>1. PICK r \in ram.index : r.name = k.name /\ r.ver = k.ver
      BY <2>3 DEF Tells
    <3>. QED
      BY <1>2, <1>10, <2>1, <2>3, <3>1 DEF PromiseKept
  <2>4. CASE \E x \in Emitted(flash) : Tells(x, k) /\ SameFile(x, k)
    <3>1. PICK x \in Live(flash) : SameFile(x, k)
      BY <2>1, <2>4 DEF Live, Tells
    <3>2. CASE Unpublished(x.off)
      <4>1. phase = "publish" /\ x = job.rec
        BY <1>2, <3>1, <3>2, PublishedLive DEF Unpublished, Live
      <4>. QED
        BY <1>10, <2>1, <3>1, <4>1 DEF SameFile, Appending
    <3>3. CASE ~Unpublished(x.off)
      <4>1. PICK r \in ram.index : r.seq = k.seq /\ k.stamp <= r.stamp
        BY <1>2, <3>1, <3>3 DEF RecordsKnown, LiveKnown, SameFile
      <4>2. r.name = k.name
        BY <1>9, <2>1, <4>1
      <4>3. CASE r \in Exposed
        BY <1>10, <2>1, <4>2, <4>3
      <4>4. CASE r \notin Exposed
        <5>1. PICK e \in Live(fl) : e.seq = r.seq /\ e.stamp = r.stamp /\ e.ver = r.ver
          BY <1>8, <4>4
        <5>2. Precedes(k, e)
          BY <1>4, <4>1, <5>1
        <5>3. e.stamp = k.stamp
          <6>1. e.stamp \in Nat /\ k.stamp \in Nat
            BY <1>6, <2>1 DEF Live
          <6>. QED
            BY <4>1, <5>1, <5>2, <6>1 DEF Precedes
        <5>4. k.ver = r.ver
          BY <1>4, <2>1, <4>1, <5>1, <5>3
        <5>5. r.ver \in promise[r.name] \/ (phase = "retire" /\ r = job.rec)
          BY <1>2 DEF PromiseKept
        <5>. QED
          BY <1>10, <2>1, <4>2, <5>4, <5>5
      <4>. QED
        BY <4>3, <4>4
    <3>. QED
      BY <3>2, <3>3
  <2>. QED
    BY <1>9, <2>1, <2>2, <2>3, <2>4
<1>15. ASSUME NEW n \in Names, \A k \in index : k.name # n
       PROVE  0 \in promise'[n]
  <2>1. CASE \A r \in ram.index : r.name # n
    BY <1>2, <1>10, <2>1 DEF PromiseKept
  <2>2. CASE \E r \in ram.index : r.name = n
    <3>1. PICK r \in ram.index : r.name = n
      BY <2>2
    <3>2. r \in Exposed
      <4>. SUFFICES ASSUME r \notin Exposed PROVE FALSE
        OBVIOUS
      <4>1. PICK e \in Live(fl) : e.seq = r.seq
        BY <1>8
      <4>2. PICK k \in index : k.seq = r.seq
        BY <1>4, <4>1
      <4>3. k.name = r.name
        BY <1>4, <1>9, <4>2 DEF Live
      <4>. QED
        BY <1>15, <3>1, <4>2, <4>3
    <3>3. 0 \in Versions
      BY StoreAssumption DEF Versions
    <3>. QED
      BY <1>10, <3>1, <3>2, <3>3
  <2>. QED
    BY <2>1, <2>2
<1>16. PromiseKept'
  BY <1>14, <1>15 DEF PromiseKept, index
<1>. QED
  BY <1>11, <1>12, <1>13, <1>16 DEF PromiseInv

\* The save looks the name up among the files that stand: the one it finds is the
\* one of that name, and where it finds none there is none.
LEMMA NameFound ==
    ASSUME StoreInv, FilesInv, ~Compacting, NEW name
    PROVE  /\ RecByName(name) # NoRec => The(RecByName(name)) \in ram.index
                                         /\ The(RecByName(name)).name = name
           /\ RecByName(name) = NoRec => \A r \in ram.index : r.name # name
<1>. DEFINE hits == { r \in ram.index : /\ flash[r.off].kind = "header"
                                        /\ flash[r.off].rec.name = name }
<1>1. ASSUME NEW r \in ram.index
      PROVE  /\ flash[r.off].kind = "header" /\ flash[r.off].rec.name = r.name
             /\ r.off \in Nat
  <2>1. Stands(flash, r) /\ r \in File
    BY HeldFiles DEF FilesInv, AllStand
  <2>. QED
    BY <2>1, RecFacts DEF Stands, HeaderAt, SameFile, File
<1>2. RecByName(name) = { r \in hits : \A k \in hits : r.off <= k.off }
  BY DEF RecByName
<1>3. \A r \in hits : r \in ram.index /\ r.name = name
  BY <1>1
<1>4. \A r \in ram.index : r.name = name => r \in hits
  BY <1>1
<1>. HIDE DEF hits
<1>5. hits # {} => RecByName(name) # {}
  <2>. SUFFICES ASSUME hits # {} PROVE \E r \in hits : \A k \in hits : r.off <= k.off
    BY <1>2
  <2>. DEFINE offs == { r.off : r \in hits }
  <2>1. offs \in SUBSET Nat /\ offs # {}
    BY <1>1, <1>3
  <2>2. Min(offs) \in offs /\ \A y \in offs : Min(offs) <= y
    BY <2>1, MinExists
  <2>. QED
    BY <2>2
<1>6. RecByName(name) # NoRec => The(RecByName(name)) \in RecByName(name)
  BY Zenon DEF The, NoRec
<1>. QED
  BY <1>2, <1>3, <1>4, <1>5, <1>6 DEF NoRec

LEMMA BeginSavePromises ==
    ASSUME BaseInv, AgreeInv, PromiseInv, NEW c \in Clients, BeginSave(c)
    PROVE  PromiseInv'
<1>. DEFINE q == req[c]
            old == RecByName(q.name)
            seq == IF old = NoRec THEN ram.nextSeq ELSE The(old).seq
            off == FindPlace(flash, ram, 1 + q.len)
            rec == [ off |-> 0, name |-> q.name, seq |-> seq, stamp |-> 0,
                     ver |-> q.ver, len |-> q.len, dead |-> FALSE ]
<1>1. /\ phase = "none" /\ flash' = flash /\ ram' = ram /\ promise' = promise
      /\ ~Compacting /\ ~Appending
  BY SaveBegins DEF BeginSave, BaseInv, rest, Compacting, Appending
<1>2. /\ StoreInv /\ FilesInv /\ RecordsKnown /\ ram \in Ram /\ flash \in [Units -> Cell]
      /\ NamesTell /\ NamesApart /\ PromiseKept
  BY DEF BaseInv, AgreeInv, StoreInv, TypeOK, WorldType, PromiseInv
<1>3. /\ old # NoRec => The(old) \in ram.index /\ The(old).name = q.name
      /\ old = NoRec => \A r \in ram.index : r.name # q.name
  BY <1>1, <1>2, NameFound
<1>4. /\ \A x \in Emitted(flash) \cup ram.index : x.seq = seq => x.name = q.name
      /\ \A r \in ram.index : r.name = q.name => r.seq = seq
  <2>1. CASE old # NoRec
    BY <1>2, <1>3, <2>1 DEF NamesTell, NamesApart
  <2>2. CASE old = NoRec
    <3>1. ASSUME NEW x \in Emitted(flash) \cup ram.index
          PROVE  x.seq # ram.nextSeq
      <4>1. x.seq < ram.nextSeq
        BY <1>1, <1>2 DEF RecordsKnown, CountersAhead, Unpublished
      <4>. QED
        BY <1>2, <4>1 DEF Ram
    <3>. QED
      BY <1>3, <2>2, <3>1
  <2>. QED
    BY <2>1, <2>2
<1>5. \/ phase' = phase
      \/ job'.rec.name = q.name /\ job'.rec.seq = seq
  <2>1. \/ UNCHANGED <<holder, locals>>
        \/ GoAppend(flash, ram, rec, old, old # NoRec, off)
        \/ job' = [rec |-> rec, old |-> old, existed |-> old # NoRec]
    BY DEF BeginSave
  <2>. HIDE DEF old, off, seq, q
  <2>2. ASSUME GoAppend(flash, ram, rec, old, old # NoRec, off)
        PROVE  job'.rec.name = q.name /\ job'.rec.seq = seq
    BY <2>2 DEF GoAppend
  <2>3. ASSUME job' = [rec |-> rec, old |-> old, existed |-> old # NoRec]
        PROVE  job'.rec.name = q.name /\ job'.rec.seq = seq
    BY <2>3
  <2>. HIDE DEF rec
  <2>. QED
    BY <2>1, <2>2, <2>3 DEF locals
<1>. HIDE DEF seq, q
<1>6. NamesTell' /\ NamesApart'
  BY <1>1, <1>2 DEF NamesTell, NamesApart
<1>7. JobNamed'
  <2>1. CASE phase' = phase
    BY <1>1, <2>1 DEF JobNamed, Appending, Compacting
  <2>2. CASE job'.rec.name = q.name /\ job'.rec.seq = seq
    BY <1>1, <1>4, <2>2 DEF JobNamed
  <2>. QED
    BY <1>5, <2>1, <2>2
<1>8. PromiseKept'
  BY <1>1, <1>2, StillKept
<1>. QED
  BY <1>6, <1>7, <1>8 DEF PromiseInv

\* An operation of a compaction changes no name and no promise.
LEMMA CompactionPromises ==
    ASSUME BaseInv, BaseInv', AgreeInv, PromiseInv, NEW c \in Clients, NEW lost \in BOOLEAN,
           VacateOp(c, lost) \/ RewriteOp(c, lost) \/ SweepOp(c, lost)
    PROVE  PromiseInv'
<1>1. /\ Operate(lost) /\ Compacting /\ phase # "retire" /\ ram' = ram /\ job' = job /\ promise' = promise
  BY DEF VacateOp, RewriteOp, SweepOp, Compacting
<1>2. /\ flash' \in [Units -> Cell] /\ ram \in Ram
  BY DEF BaseInv, StoreInv, TypeOK, WorldType
<1>3. NamesTell' /\ NamesApart' /\ JobNamed'
  BY <1>1, <1>2, PartlyTorn, StillNamed
<1>4. PromiseKept'
  BY <1>1, <1>2, StillKept DEF PromiseInv
<1>. QED
  BY <1>3, <1>4 DEF PromiseInv

\* After a compaction the files are found again under their names.
LEMMA ReloadPromises ==
    ASSUME BaseInv, BaseInv', AgreeInv, AgreeInv', PromiseInv, NEW c \in Clients, Reload(c)
    PROVE  PromiseInv'
<1>1. /\ phase = "reload" /\ Compacting /\ ram' = ReloadOf(flash) /\ flash' = flash
      /\ promise' = promise
  BY DEF Reload, Compacting, rest
<1>2. /\ flash \in [Units -> Cell] /\ job.rec \in Rec /\ JobIsKnown /\ StoreInv /\ plan.keep = ram.index
      /\ NamesTell /\ NamesApart /\ JobNamed /\ PromiseKept
  BY <1>1 DEF BaseInv, StoreInv, TypeOK, WorldType, TaskType, AgreeInv, JobIsKnown, PromiseInv
<1>3. Delivered(flash, plan)
  BY <1>1 DEF BaseInv, StoreInv, CompactionSound, RepackInv, RoomInv, RoomPlanned, SweptBelow,
              NothingPinned, Delivered
<1>4. FindPlace(flash, ram', Size(job.rec)) # NoPlace
  BY <1>1, <1>2, UnpinnedMakesRoom DEF BaseInv, NothingPinned
<1>5. job'.rec.name = job.rec.name /\ job'.rec.seq = job.rec.seq /\ phase' \in {"erase", "header"}
  <2>1. job'.rec = [[job.rec EXCEPT !.off = FindPlace(flash, ram', Size(job.rec))]
                       EXCEPT !.stamp = ram'.nextStamp]
    BY <1>4 DEF Reload, GoAppend
  <2>2. \A n, s : /\ [[job.rec EXCEPT !.off = n] EXCEPT !.stamp = s].name = job.rec.name
                  /\ [[job.rec EXCEPT !.off = n] EXCEPT !.stamp = s].seq = job.rec.seq
    BY <1>2 DEF Rec
  <2>3. phase' \in {"erase", "header"}
    BY <1>4 DEF Reload, GoAppend, GoErase
  <2>. QED
    BY <2>1, <2>2, <2>3
<1>6. /\ ram'.index \subseteq Live(flash)
      /\ \A e \in Live(flash) : \E k \in ram'.index : k.seq = e.seq
      /\ \A k, j \in ram'.index : k.seq = j.seq => k = j
  BY <1>1, ReloadNow
<1>7. ASSUME NEW e \in Emitted(flash)
      PROVE  \E r \in ram.index : e.seq = r.seq /\ e.name = r.name /\ e.ver = r.ver
  BY <1>2, <1>3, DeliveredCopies
<1>8. NamesTell'
  BY <1>1, <1>2, <1>6 DEF NamesTell, Live
<1>9. NamesApart'
  <2>. SUFFICES ASSUME NEW k \in ram'.index, NEW j \in ram'.index, k.name = j.name
                PROVE  k.seq = j.seq
    BY <1>6 DEF NamesApart
  <2>. QED
    BY <1>2, <1>6, <1>7 DEF NamesApart, Live
<1>10. JobNamed'
  BY <1>1, <1>2, <1>5, <1>6, <1>7 DEF JobNamed, Live
<1>11. ASSUME NEW k \in ram'.index
       PROVE  k.ver \in promise[k.name]
  BY <1>1, <1>2, <1>6, <1>7 DEF PromiseKept, Live
<1>12. ASSUME NEW n \in Names, \A k \in ram'.index : k.name # n
       PROVE  0 \in promise[n]
  <2>1. ASSUME NEW r \in ram.index, r.name = n
        PROVE  FALSE
    <3>1. PICK e \in Live(flash) : e.seq = r.seq
      BY <1>1, CopiesStand
    <3>2. PICK k \in ram'.index : k.seq = r.seq
      BY <1>6, <3>1
    <3>3. k.name = r.name
      BY <1>2, <1>6, <3>2 DEF NamesTell, Live
    <3>. QED
      BY <1>12, <2>1, <3>2, <3>3
  <2>. QED
    BY <1>2, <2>1 DEF PromiseKept
<1>13. PromiseKept'
  BY <1>1, <1>11, <1>12 DEF PromiseKept
<1>. QED
  BY <1>8, <1>9, <1>10, <1>13 DEF PromiseInv

\* An append that fails leaves the client to expect the file done or not done.
LEMMA AppendPromises ==
    ASSUME BaseInv, BaseInv', AgreeInv, PromiseInv, NEW c \in Clients, NEW lost \in BOOLEAN,
           AppendOp(c, lost)
    PROVE  PromiseInv'
<1>1. /\ Appending /\ phase # "retire" /\ phase # "publish" /\ ram' = ram
      /\ Operate(lost) \/ flash' = flash
  BY DEF AppendOp, Appending
<1>2. /\ flash' \in [Units -> Cell] /\ ram \in Ram /\ promise \in [Names -> SUBSET Versions]
  BY DEF BaseInv, StoreInv, TypeOK, WorldType
<1>3. PartlyWritten(flash')
  BY <1>1, PartlyTorn DEF PartlyWritten
<1>4. \/ job' = job /\ promise' = promise
      \/ phase' = "none" /\ promise' = [promise EXCEPT ![job.rec.name] = @ \cup {job.rec.ver}]
  BY DEF AppendOp, Answer, Allow
<1>5. (Appending \/ Compacting)' => job' = job
  BY <1>4 DEF Appending, Compacting
<1>6. NamesTell' /\ NamesApart' /\ JobNamed'
  BY <1>1, <1>2, <1>3, <1>5, StillNamed
<1>7. PromiseKept'
  <2>1. \A n \in Names : promise[n] \subseteq promise'[n]
    BY <1>2, <1>4
  <2>. QED
    BY <1>1, <1>2, <2>1, StillKept DEF PromiseInv
<1>. QED
  BY <1>6, <1>7 DEF PromiseInv

\* The index moves to the new file, of which the client is told at once or, if an
\* old version is to be retired, after that.
LEMMA PublishPromises ==
    ASSUME BaseInv, AgreeInv, PromiseInv, NEW c \in Clients, Publish(c)
    PROVE  PromiseInv'
<1>1. /\ phase = "publish" /\ Appending /\ flash' = flash /\ ram'.index = Replaced(ram.index, job.rec)
      /\ \/ job.old = NoRec /\ phase' = "none" /\ promise' = [promise EXCEPT ![job.rec.name] = {job.rec.ver}]
         \/ job.old # NoRec /\ phase' = "retire" /\ job' = job /\ promise' = promise
  <2>1. ram'.index = Replaced(ram.index, job.rec)
    BY DEF Publish, BaseInv, StoreInv, TypeOK, WorldType, Ram
  <2>. QED
    BY <2>1 DEF Publish, Answer, Settle, Appending
<1>2. /\ StoreInv /\ FilesInv /\ JobIsKnown /\ RecordsKnown /\ ram \in Ram /\ job.rec \in Rec
      /\ promise \in [Names -> SUBSET Versions]
      /\ NamesTell /\ NamesApart /\ JobNamed /\ PromiseKept
  BY <1>1 DEF BaseInv, StoreInv, TypeOK, WorldType, TaskType, AgreeInv, PromiseInv
<1>3. job.rec \in Emitted(flash)
  BY <1>1, <1>2, PublishedLive DEF Live
<1>4. /\ \A r \in ram'.index : r = job.rec \/ (r \in ram.index /\ r.seq # job.rec.seq)
      /\ \A r \in ram.index : r.seq # job.rec.seq => r \in ram'.index
      /\ job.rec \in ram'.index
  BY <1>1 DEF Replaced
<1>5. NamesTell'
  BY <1>1, <1>2, <1>3, <1>4 DEF NamesTell
<1>6. NamesApart'
  BY <1>1, <1>2, <1>4 DEF NamesApart, JobNamed
<1>7. JobNamed'
  BY <1>1 DEF JobNamed, Appending, Compacting
<1>8. ASSUME NEW r \in ram'.index
      PROVE  r.ver \in promise'[r.name] \/ (phase' = "retire" /\ r = job'.rec)
  <2>0. job.rec.name \in Names /\ \A k \in ram.index : k.name \in Names
    BY <1>2 DEF Rec, Ram, File
  <2>1. CASE r = job.rec
    BY <1>1, <1>2, <2>0, <2>1
  <2>2. CASE r \in ram.index /\ r.seq # job.rec.seq
    <3>1. r.name # job.rec.name
      BY <1>1, <1>2, <2>2 DEF JobNamed
    <3>2. r.ver \in promise[r.name]
      BY <1>1, <1>2, <2>2 DEF PromiseKept
    <3>. QED
      BY <1>1, <1>2, <2>0, <2>2, <3>1, <3>2
  <2>. QED
    BY <1>4, <2>1, <2>2
<1>9. ASSUME NEW n \in Names, \A r \in ram'.index : r.name # n
      PROVE  0 \in promise'[n]
  <2>1. n # job.rec.name
    BY <1>4, <1>9
  <2>2. ASSUME NEW r \in ram.index
        PROVE  r.name # n
    <3>1. r.seq = job.rec.seq => r.name = job.rec.name
      BY <1>1, <1>2 DEF JobNamed
    <3>. QED
      BY <1>4, <1>9, <2>1, <3>1
  <2>3. 0 \in promise[n]
    BY <1>2, <2>2 DEF PromiseKept
  <2>. QED
    BY <1>1, <1>2, <2>1, <2>3
<1>10. PromiseKept'
  BY <1>8, <1>9 DEF PromiseKept
<1>. QED
  BY <1>5, <1>6, <1>7, <1>10 DEF PromiseInv

\* The dead word is down: the client is told of the save, or of the delete.
LEMMA DeadWordPromises ==
    ASSUME BaseInv, BaseInv', AgreeInv, PromiseInv, MaxLeases = 0,
           NEW c \in Clients, NEW lost \in BOOLEAN, RetireOp(c, lost) \/ DeleteOp(c, lost)
    PROVE  PromiseInv'
<1>1. /\ phase \in {"retire", "delete"} /\ Operate(lost) /\ phase' = "none"
  BY DEF RetireOp, DeleteOp, Answer
<1>2. /\ StoreInv /\ FilesInv /\ JobIsKnown /\ ram \in Ram
      /\ flash' \in [Units -> Cell] /\ promise \in [Names -> SUBSET Versions]
      /\ NamesTell /\ NamesApart /\ JobNamed /\ PromiseKept /\ OneOfASeq
  BY DEF BaseInv, StoreInv, TypeOK, WorldType, AgreeInv, PromiseInv, FilesInv
<1>3. Succeeded(lost)
  BY <1>1, <1>2, Performed DEF BaseInv, RepackInv
<1>4. job.rec \in ram.index
  BY <1>1, <1>2 DEF JobIsKnown, FilesInv, OldIsMeant
<1>5. ~(Appending \/ Compacting)'
  BY <1>1 DEF Appending, Compacting
<1>6. \A k \in ram.index : k.name \in Names
  BY <1>2 DEF Ram, File, Rec
<1>7. \A x, y \in Emitted(flash') \cup ram.index : x.seq = y.seq => x.name = y.name
  BY <1>1, <1>2, PartlyTorn, PartlyNamed
<1>8. CASE RetireOp(c, lost)
  <2>1. ram' = ram /\ phase = "retire" /\ promise' = [promise EXCEPT ![job.rec.name] = {job.rec.ver}]
    BY <1>8 DEF RetireOp, Settle
  <2>2. ASSUME NEW r \in ram.index
        PROVE  r.ver \in promise'[r.name]
    <3>1. CASE r = job.rec
      BY <1>2, <1>6, <2>1, <3>1
    <3>2. CASE r # job.rec
      <4>1. r.name # job.rec.name
        BY <1>2, <1>4, <3>2 DEF NamesApart
      <4>2. r.ver \in promise[r.name]
        BY <1>2, <3>2 DEF PromiseKept
      <4>. QED
        BY <1>2, <1>6, <2>1, <4>1, <4>2
    <3>. QED
      BY <3>1, <3>2
  <2>3. ASSUME NEW n \in Names, \A r \in ram.index : r.name # n
        PROVE  0 \in promise'[n]
    <3>1. n # job.rec.name /\ 0 \in promise[n]
      BY <1>2, <1>4, <2>3 DEF PromiseKept
    <3>. QED
      BY <1>2, <2>1, <3>1
  <2>. QED
    BY <1>2, <1>5, <1>7, <2>1, <2>2, <2>3
    DEF PromiseInv, NamesTell, NamesApart, JobNamed, PromiseKept
<1>9. CASE DeleteOp(c, lost)
  <2>1. /\ phase = "delete" /\ ram'.index = Removed(ram.index, job.rec.seq)
        /\ promise' = [promise EXCEPT ![job.rec.name] = {0}]
    <3>1. ram' = [ram EXCEPT !.index = Removed(@, job.rec.seq)] /\ Settle(job.rec.name, 0)
      BY <1>3, <1>9 DEF DeleteOp
    <3>. QED
      BY <1>2, <1>9, <3>1 DEF DeleteOp, Settle, Ram
  <2>2. ram'.index = { r \in ram.index : r.seq # job.rec.seq }
    BY <2>1 DEF Removed
  <2>3. ASSUME NEW r \in ram'.index
        PROVE  r.ver \in promise'[r.name]
    <3>1. r \in ram.index /\ r.name # job.rec.name
      BY <1>2, <1>4, <2>2 DEF NamesApart
    <3>2. r.ver \in promise[r.name]
      BY <1>2, <2>1, <3>1 DEF PromiseKept
    <3>. QED
      BY <1>2, <1>6, <2>1, <3>1, <3>2
  <2>4. ASSUME NEW n \in Names, \A r \in ram'.index : r.name # n
        PROVE  0 \in promise'[n]
    <3>1. CASE n = job.rec.name
      BY <1>2, <2>1, <3>1
    <3>2. CASE n # job.rec.name
      <4>1. \A r \in ram.index : r.seq = job.rec.seq => r = job.rec
        BY <1>2, <1>4 DEF OneOfASeq
      <4>2. 0 \in promise[n]
        BY <1>2, <2>2, <2>4, <3>2, <4>1 DEF PromiseKept
      <4>. QED
        BY <1>2, <2>1, <3>2, <4>2
    <3>. QED
      BY <3>1, <3>2
  <2>. QED
    BY <1>2, <1>5, <1>7, <2>2, <2>3, <2>4
    DEF PromiseInv, NamesTell, NamesApart, JobNamed, PromiseKept
<1>. QED
  BY <1>8, <1>9

\* At first nothing is stored and nothing is promised.
LEMMA PromiseInit == Init => PromiseInv
<1>. SUFFICES ASSUME Init PROVE PromiseInv
  OBVIOUS
<1>1. /\ flash = [u \in Units |-> Erased] /\ phase = "none" /\ promise = [n \in Names |-> {0}]
  BY DEF Init
<1>2. Emitted(flash) = {}
  <2>1. \A at \in Units : ~HeaderAt(flash, at)
    BY <1>1 DEF HeaderAt, Erased
  <2>. QED
    BY <2>1 DEF Emitted, Scan, Accepts
<1>3. ram.index = {}
  <2>1. ~Compacting
    BY <1>1 DEF Compacting
  <2>. QED
    BY <1>2, <2>1, AgreeInit DEF AgreeInv, RecordsKnown, IndexLive, Live
<1>. QED
  BY <1>1, <1>2, <1>3
  DEF PromiseInv, NamesTell, NamesApart, JobNamed, PromiseKept, Appending, Compacting

\* Every step keeps the promises.
LEMMA PromiseStep ==
    ASSUME MaxLeases = 0, MaxDeletes = 0 \/ MaxCuts = 0,
           BaseInv, BaseInv', AgreeInv, AgreeInv', PromiseInv, [Next]_vars
    PROVE  PromiseInv'
<1>1. ASSUME UNCHANGED <<flash, ram, promise>>, UNCHANGED locals
      PROVE  PromiseInv'
  BY <1>1 DEF PromiseInv, NamesTell, NamesApart, JobNamed, PromiseKept, Appending, Compacting, locals
<1>2. ASSUME NEW c \in Clients, Serve(c)
      PROVE  PromiseInv'
  <2>1. CASE GiveUp(c) \/ GetCopy(c)
    BY <1>1, <2>1 DEF GiveUp, GetCopy, rest
  <2>2. CASE BeginSave(c)
    BY <2>2, BeginSavePromises
  <2>3. CASE Reload(c)
    BY <2>3, ReloadPromises
  <2>4. CASE Publish(c)
    BY <2>4, PublishPromises
  <2>5. CASE BeginDelete(c)
    <3>1. /\ phase' = "delete" /\ phase = "none" /\ UNCHANGED <<flash, ram, promise>>
      BY <2>5 DEF BeginDelete, GuardFree, rest, BaseInv, StoreInv, TypeOK, TaskType
    <3>2. ram \in Ram
      BY DEF BaseInv, StoreInv, TypeOK, WorldType
    <3>3. PromiseKept'
      BY <3>1, <3>2, StillKept DEF PromiseInv
    <3>. QED
      BY <3>1, <3>3 DEF PromiseInv, NamesTell, NamesApart, JobNamed, Appending, Compacting
  <2>6. ASSUME NEW lost \in BOOLEAN, VacateOp(c, lost) \/ RewriteOp(c, lost) \/ SweepOp(c, lost)
        PROVE  PromiseInv'
    BY <2>6, CompactionPromises
  <2>7. ASSUME NEW lost \in BOOLEAN, AppendOp(c, lost)
        PROVE  PromiseInv'
    BY <2>7, AppendPromises
  <2>8. ASSUME NEW lost \in BOOLEAN, RetireOp(c, lost) \/ DeleteOp(c, lost)
        PROVE  PromiseInv'
    BY <2>8, DeadWordPromises
  <2>. QED
    BY <1>2, <2>1, <2>2, <2>3, <2>4, <2>5, <2>6, <2>7, <2>8 DEF Serve
<1>3. ASSUME NEW c \in Clients, Request(c)
      PROVE  PromiseInv'
  BY <1>1, <1>3 DEF Request, RequestSave, RequestDelete, RequestGet
<1>4. CASE Render \/ OtaBegin \/ OtaEnd \/ UNCHANGED vars
  BY <1>1, <1>4 DEF Render, SwapPin, SwapDecode, SwapInstall, FadeEnd, OtaBegin, OtaEnd, vars, rest
<1>5. CASE PowerCut
  BY <1>5, PowerCutPromises
<1>. QED
  BY <1>2, <1>3, <1>4, <1>5 DEF Next

\* Between two transactions a reboot finds under every name what its clients were
\* told (save_kind, delete_kind and reload, patterns.rs): the version acknowledged,
\* nothing after a delete, and a save that was answered with an error or cut short
\* either done or not done.
THEOREM PromisesOutliveReboots ==
    ~StaleLookups /\ MaxLeases = 0 /\ MaxOtas = 0 /\ MaxSwaps = 0 /\ (MaxDeletes = 0 \/ MaxCuts = 0) =>
        (Spec => []RebootKeepsPromises)
<1>. SUFFICES ASSUME ~StaleLookups, MaxLeases = 0, MaxOtas = 0, MaxSwaps = 0,
                     MaxDeletes = 0 \/ MaxCuts = 0
              PROVE  Spec => []RebootKeepsPromises
  OBVIOUS
<1>1. Init => PromiseInv
  BY PromiseInit
<1>2. /\ BaseInv /\ AgreeInv /\ PromiseInv /\ [Next]_vars /\ (BaseInv /\ AgreeInv)'
      => PromiseInv'
  BY PromiseStep
<1>3. BaseInv /\ AgreeInv /\ PromiseInv => RebootKeepsPromises
  <2>. SUFFICES ASSUME BaseInv, AgreeInv, PromiseInv, holder = NoClient, NEW n \in Names
                PROVE  LET index == ReloadOf(flash).index
                       IN  IF Stored(index, n) = {} THEN 0 \in promise[n]
                           ELSE Stored(index, n) \subseteq promise[n]
    BY DEF RebootKeepsPromises
  <2>1. ReloadOf(flash).index = ram.index
    BY RamAgreesNow DEF RamAgrees
  <2>2. phase = "none"
    BY DEF BaseInv, StoreInv, TypeOK, TaskType
  <2>3. Stored(ram.index, n) \subseteq promise[n]
    BY <2>2 DEF PromiseInv, PromiseKept, Stored
  <2>4. Stored(ram.index, n) = {} => 0 \in promise[n]
    BY DEF PromiseInv, PromiseKept, Stored
  <2>. QED
    BY <2>1, <2>3, <2>4
<1>. QED
  BY <1>1, <1>2, <1>3, AgreeInvariant, PTL DEF Spec

-----------------------------------------------------------------------------
(* Outside of compactions the store does what DurableStore promises.          *)

\* What a reload would index: the index, with the file whose commit word is down.
View == IF phase = "publish" THEN Replaced(ram.index, job.rec) ELSE ram.index

\* Of the live records of a flash there is one set with one per seq, the preferred.
LEMMA PreferredSame ==
    ASSUME NEW fl \in [Units -> Cell], NEW A \in SUBSET Live(fl), NEW B \in SUBSET Live(fl),
           \A e \in Live(fl) : \E k \in A : k.seq = e.seq /\ Precedes(k, e),
           \A e \in Live(fl) : \E k \in B : k.seq = e.seq /\ Precedes(k, e),
           \A k, j \in A : k.seq = j.seq => k = j,
           \A k, j \in B : k.seq = j.seq => k = j
    PROVE  A = B
<1>1. ASSUME NEW x \in Live(fl), NEW y \in Live(fl), Precedes(x, y), Precedes(y, x)
      PROVE  x = y
  <2>1. /\ x.off \in Nat /\ y.off \in Nat /\ x.stamp \in Nat /\ y.stamp \in Nat
        /\ x = RecordAt(fl, x.off) /\ y = RecordAt(fl, y.off)
    BY EmittedFrom DEF Live
  <2>2. x.off = y.off
    BY <1>1, <2>1 DEF Precedes
  <2>. QED
    BY <2>1, <2>2
<1>2. ASSUME NEW x \in A
      PROVE  x \in B
  <2>1. PICK k \in B : k.seq = x.seq /\ Precedes(k, x)
    OBVIOUS
  <2>2. PICK y \in A : y.seq = k.seq /\ Precedes(y, k)
    OBVIOUS
  <2>3. y = x
    BY <2>1, <2>2
  <2>. QED
    BY <1>1, <2>1, <2>2, <2>3
<1>3. ASSUME NEW k \in B
      PROVE  k \in A
  <2>1. PICK y \in A : y.seq = k.seq
    OBVIOUS
  <2>2. y \in B
    BY <1>2
  <2>. QED
    BY <2>1, <2>2
<1>. QED
  BY <1>2, <1>3

LEMMA ViewNow ==
    ASSUME BaseInv, AgreeInv, ~Compacting
    PROVE  ReloadOf(flash).index = View
<1>. DEFINE index == ReloadOf(flash).index
<1>1. /\ index \subseteq Live(flash)
      /\ \A e \in Live(flash) : \E k \in index : k.seq = e.seq /\ Precedes(k, e)
      /\ \A k, j \in index : k.seq = j.seq => k = j
  BY ReloadNow
<1>2. /\ flash \in [Units -> Cell] /\ ram \in Ram /\ OneOfASeq /\ RecordsKnown /\ JobIsKnown
      /\ StoreInv /\ FilesInv
  BY DEF BaseInv, StoreInv, TypeOK, WorldType, AgreeInv, FilesInv
<1>3. ram.index \subseteq Live(flash)
  BY <1>2 DEF RecordsKnown, IndexLive
<1>. HIDE DEF index
<1>4. CASE phase # "publish"
  <2>1. \A e \in Live(flash) : \E k \in ram.index : k.seq = e.seq /\ Precedes(k, e)
    BY <1>2, <1>4 DEF RecordsKnown, LiveKnown, Unpublished
  <2>2. \A k, j \in ram.index : k.seq = j.seq => k = j
    BY <1>2 DEF OneOfASeq
  <2>. DEFINE old == ram.index
  <2>3. /\ old \subseteq Live(flash) /\ \A k, j \in old : k.seq = j.seq => k = j
        /\ \A e \in Live(flash) : \E k \in old : k.seq = e.seq /\ Precedes(k, e)
    BY <1>3, <2>1, <2>2
  <2>. HIDE DEF old
  <2>4. index = old
    BY <1>1, <1>2, <2>3, PreferredSame
  <2>. QED
    BY <1>4, <2>4 DEF View, index, old
<1>5. CASE phase = "publish"
  <2>. DEFINE rec == job.rec
              new == Replaced(ram.index, rec)
  <2>1. /\ rec \in Live(flash) /\ \A e \in Emitted(flash) : Unpublished(e.off) => e = rec
        /\ rec.stamp = ram.nextStamp
    BY <1>2, <1>5, PublishedLive DEF JobIsKnown, Appending
  <2>2. new \subseteq Live(flash) /\ \A k, j \in new : k.seq = j.seq => k = j
    <3>1. \A k \in new : k = rec \/ (k \in ram.index /\ k.seq # rec.seq)
      BY DEF Replaced
    <3>. HIDE DEF new, rec
    <3>. QED
      BY <1>2, <1>3, <2>1, <3>1 DEF OneOfASeq
  <2>3. ASSUME NEW e \in Live(flash)
        PROVE  \E k \in new : k.seq = e.seq /\ Precedes(k, e)
    <3>1. e \in Emitted(flash) /\ e.off \in Nat /\ e.stamp \in Nat /\ rec.off \in Nat /\ rec \in new
      BY <1>2, <2>1, EmittedFrom DEF Live, Replaced
    <3>2. CASE Unpublished(e.off)
      BY <2>1, <3>1, <3>2 DEF Precedes
    <3>3. CASE ~Unpublished(e.off)
      <4>1. PICK r \in ram.index : r.seq = e.seq /\ Precedes(r, e)
        BY <1>2, <1>5, <3>3 DEF RecordsKnown, LiveKnown
      <4>2. e.stamp < rec.stamp
        BY <1>2, <2>1, <3>1, <3>3 DEF RecordsKnown, CountersAhead
      <4>3. CASE r.seq # rec.seq
        BY <4>1, <4>3 DEF Replaced
      <4>4. CASE r.seq = rec.seq
        BY <3>1, <4>1, <4>2, <4>4 DEF Precedes
      <4>. QED
        BY <4>3, <4>4
    <3>. QED
      BY <3>2, <3>3
  <2>. HIDE DEF new
  <2>4. index = new
    BY <1>1, <1>2, <2>2, <2>3, PreferredSame
  <2>. QED
    BY <1>5, <2>4 DEF View, index, new
<1>. QED
  BY <1>4, <1>5

\* The version stored under a name, or 0.
Told(versions) == IF versions = {} THEN 0 ELSE CHOOSE v \in versions : TRUE

LEMMA OnFlashTells ==
    /\ OnFlash = [n \in Names |-> Told(Stored(ReloadOf(flash).index, n))]
    /\ \A v : Told({v}) = v
    /\ Told({}) = 0
BY DEF OnFlash, Told

LEMMA NothingTold ==
    ASSUME \A n \in Names : Stored(ReloadOf(flash).index, n)' = Stored(ReloadOf(flash).index, n)
    PROVE  OnFlash' = OnFlash
<1>. DEFINE now(n) == Stored(ReloadOf(flash).index, n)
<1>1. OnFlash = [n \in Names |-> Told(now(n))]
  BY OnFlashTells
<1>2. OnFlash' = [n \in Names |-> Told(now(n)')]
  BY DEF OnFlash, Told
<1>. QED
  BY <1>1, <1>2

LEMMA OneTold ==
    ASSUME NEW name \in Names, NEW ver,
           \/ Stored(ReloadOf(flash).index, name)' = {ver}
           \/ Stored(ReloadOf(flash).index, name)' = {} /\ ver = 0,
           \A n \in Names \ {name} :
               Stored(ReloadOf(flash).index, n)' = Stored(ReloadOf(flash).index, n)
    PROVE  OnFlash' = [OnFlash EXCEPT ![name] = ver]
<1>. DEFINE now(n) == Stored(ReloadOf(flash).index, n)
<1>1. OnFlash = [n \in Names |-> Told(now(n))]
  BY OnFlashTells
<1>2. OnFlash' = [n \in Names |-> Told(now(n)')]
  BY DEF OnFlash, Told
<1>3. Told(now(name)') = ver
  BY OnFlashTells
<1>4. \A n \in Names \ {name} : now(n)' = now(n)
  OBVIOUS
<1>. HIDE DEF now
<1>. QED
  BY <1>1, <1>2, <1>3, <1>4

\* The transaction in flight is about the request its client made.
ServedInv ==
    /\ phase \notin {"none", "delete"} => job.rec.name = req[holder].name
    /\ phase = "delete" => job.rec = req[holder].rec

LEMMA ServedInit == Init => ServedInv
BY DEF Init, ServedInv

LEMMA ServedStep == StoreInv /\ ServedInv /\ [Next]_vars => ServedInv'
<1>. SUFFICES ASSUME StoreInv, ServedInv, [Next]_vars PROVE ServedInv'
  OBVIOUS
<1>0. /\ req \in [Clients -> Requests] /\ holder = NoClient <=> phase = "none"
      /\ phase # "none" => job.rec \in Rec /\ holder \in Clients /\ req[holder].op \in {"save", "delete"}
  BY DEF StoreInv, TypeOK, TaskType
<1>1. ASSUME UNCHANGED <<phase, job, holder>>,
             phase # "none" => req'[holder] = req[holder]
      PROVE  ServedInv'
  BY <1>1 DEF ServedInv
<1>2. ASSUME NEW c \in Clients, Serve(c)
      PROVE  ServedInv'
  <2>1. CASE GiveUp(c) \/ GetCopy(c)
    <3>1. UNCHANGED <<phase, job, holder>> /\ req' = [req EXCEPT ![c] = Idle]
      BY <2>1 DEF GiveUp, GetCopy, locals
    <3>2. phase # "none" => c # holder
      BY <1>0, <2>1 DEF GiveUp, GetCopy, GuardFree
    <3>. QED
      BY <1>0, <1>1, <3>1, <3>2
  <2>2. CASE BeginSave(c)
    <3>. DEFINE q == req[c]
                old == RecByName(q.name)
                seq == IF old = NoRec THEN ram.nextSeq ELSE The(old).seq
                off == FindPlace(flash, ram, 1 + q.len)
                rec == [ off |-> 0, name |-> q.name, seq |-> seq, stamp |-> 0,
                         ver |-> q.ver, len |-> q.len, dead |-> FALSE ]
    <3>1. phase = "none"
      BY <2>2, SaveBegins
    <3>2. \/ phase' = phase /\ UNCHANGED <<holder, locals>>
          \/ /\ holder' = c /\ req' = req
             /\ GoAppend(flash, ram, rec, old, old # NoRec, off)
          \/ /\ holder' = c /\ req' = req
             /\ job' = [rec |-> rec, old |-> old, existed |-> old # NoRec] /\ GoCompact(flash, CompactionPlan, 0)
      BY <2>2 DEF BeginSave, locals
    <3>. HIDE DEF old, seq, off
    <3>3. ASSUME GoAppend(flash, ram, rec, old, old # NoRec, off)
          PROVE  job'.rec.name = q.name /\ phase' # "delete"
      BY <3>3 DEF GoAppend, GoErase
    <3>4. ASSUME job' = [rec |-> rec, old |-> old, existed |-> old # NoRec],
                 GoCompact(flash, CompactionPlan, 0)
          PROVE  job'.rec.name = q.name /\ phase' # "delete"
      BY <3>4 DEF GoCompact, GoSweep
    <3>. HIDE DEF rec, q
    <3>. QED
      BY <3>1, <3>2, <3>3, <3>4 DEF ServedInv, q
  <2>3. CASE Reload(c)
    <3>. DEFINE off == FindPlace(flash, ram', Size(job.rec))
    <3>1. \/ phase' = "none"
          \/ /\ phase = "reload" /\ holder' = holder /\ req' = req /\ phase' \in {"erase", "header"}
             /\ job'.rec = [[job.rec EXCEPT !.off = off] EXCEPT !.stamp = ram'.nextStamp]
      <4>. HIDE DEF off
      <4>1. \/ Answer(c)
            \/ /\ phase = "reload" /\ holder' = holder /\ req' = req
               /\ GoAppend(flash, ram', job.rec, OldVersion(ram'.index), job.existed, off)
        BY <2>3 DEF Reload, off
      <4>2. CASE Answer(c)
        BY <4>2 DEF Answer
      <4>3. ASSUME GoAppend(flash, ram', job.rec, OldVersion(ram'.index), job.existed, off)
            PROVE  /\ phase' \in {"erase", "header"}
                   /\ job'.rec = [[job.rec EXCEPT !.off = off] EXCEPT !.stamp = ram'.nextStamp]
        <5>1. phase' \in {"erase", "header"}
          BY <4>3 DEF GoAppend, GoErase
        <5>2. job'.rec = [[job.rec EXCEPT !.off = off] EXCEPT !.stamp = ram'.nextStamp]
          BY <4>3 DEF GoAppend
        <5>. QED
          BY <5>1, <5>2
      <4>. QED
        BY <4>1, <4>2, <4>3
    <3>2. phase = "reload" => \A n, s :
             [[job.rec EXCEPT !.off = n] EXCEPT !.stamp = s].name = job.rec.name
      BY <1>0 DEF Rec
    <3>. HIDE DEF off
    <3>3. CASE phase' = "none"
      BY <3>3 DEF ServedInv
    <3>4. CASE phase' # "none"
      <4>1. job'.rec.name = job.rec.name
        <5>1. /\ phase = "reload"
              /\ job'.rec = [[job.rec EXCEPT !.off = off] EXCEPT !.stamp = ram'.nextStamp]
          BY <3>1, <3>4
        <5>2. \A n, s : [[job.rec EXCEPT !.off = n] EXCEPT !.stamp = s].name = job.rec.name
          BY <3>2, <5>1
        <5>. QED
          BY <5>1, <5>2
      <4>. QED
        BY <3>1, <3>4, <4>1 DEF ServedInv
    <3>. QED
      BY <3>3, <3>4
  <2>4. CASE BeginDelete(c)
    BY <2>4 DEF BeginDelete, ServedInv
  <2>5. CASE Publish(c)
    <3>1. \/ phase' = "none"
          \/ phase = "publish" /\ phase' = "retire" /\ UNCHANGED <<job, holder, req>>
      BY <2>5 DEF Publish, Answer
    <3>. QED
      BY <3>1 DEF ServedInv
  <2>6. ASSUME NEW lost \in BOOLEAN, VacateOp(c, lost) \/ RewriteOp(c, lost) \/ SweepOp(c, lost)
        PROVE  ServedInv'
    <3>1. /\ Compacting /\ phase' # "delete" /\ phase' # "none" /\ UNCHANGED <<job, holder, req>>
      BY <2>6 DEF VacateOp, RewriteOp, SweepOp, GoSweep, GoCompact, Compacting
    <3>. QED
      BY <3>1 DEF ServedInv, Compacting
  <2>7. ASSUME NEW lost \in BOOLEAN, AppendOp(c, lost)
        PROVE  ServedInv'
    <3>1. \/ phase' = "none"
          \/ Appending /\ phase' \notin {"none", "delete"} /\ UNCHANGED <<job, holder, req>>
      BY <2>7 DEF AppendOp, Answer, NextStep, GoErase, Appending
    <3>. QED
      BY <3>1 DEF ServedInv, Appending
  <2>8. ASSUME NEW lost \in BOOLEAN, RetireOp(c, lost) \/ DeleteOp(c, lost)
        PROVE  ServedInv'
    BY <2>8 DEF RetireOp, DeleteOp, Answer, ServedInv
  <2>. QED
    BY <1>2, <2>1, <2>2, <2>3, <2>4, <2>5, <2>6, <2>7, <2>8 DEF Serve
<1>3. ASSUME NEW c \in Clients, Request(c)
      PROVE  ServedInv'
  <2>1. /\ req[c] = Idle /\ UNCHANGED <<phase, job, holder>>
        /\ \E q : req' = [req EXCEPT ![c] = q]
    BY <1>3 DEF Request, RequestSave, RequestDelete, RequestGet, locals
  <2>2. phase # "none" => c # holder
    BY <1>0, <2>1 DEF Idle
  <2>3. \A d \in Clients : d # c => req'[d] = req[d]
    BY <1>0, <2>1
  <2>. QED
    BY <1>0, <1>1, <2>1, <2>2, <2>3
<1>4. CASE Render \/ OtaBegin \/ OtaEnd \/ UNCHANGED vars
  <2>1. UNCHANGED <<phase, job, holder, req>>
    BY <1>4 DEF Render, SwapPin, SwapDecode, SwapInstall, FadeEnd, OtaBegin, OtaEnd, vars, locals
  <2>. QED
    BY <1>1, <2>1
<1>5. CASE PowerCut
  BY <1>5 DEF PowerCut, Boot, ServedInv
<1>. QED
  BY <1>2, <1>3, <1>4, <1>5 DEF Next

-----------------------------------------------------------------------------

\* Outside of a compaction what a reload would index is known.
Shown == ~Compacting => ReloadOf(flash).index = View

RefineInv == BaseInv /\ AgreeInv /\ PromiseInv /\ ServedInv /\ Shown

\* Two sets of files with the same names and versions store the same.
LEMMA SameStored ==
    ASSUME NEW A, NEW B,
           \A r \in A : \E k \in B : k.name = r.name /\ k.ver = r.ver,
           \A k \in B : \E r \in A : r.name = k.name /\ r.ver = k.ver
    PROVE  \A n : Stored(A, n) = Stored(B, n)
<1>. SUFFICES ASSUME NEW n PROVE Stored(A, n) = Stored(B, n)
  OBVIOUS
<1>1. ASSUME NEW v \in Stored(A, n)
      PROVE  v \in Stored(B, n)
  <2>1. PICK r \in A : r.name = n /\ r.ver = v
    BY <1>1 DEF Stored
  <2>2. PICK k \in B : k.name = r.name /\ k.ver = r.ver
    OBVIOUS
  <2>. QED
    BY <2>1, <2>2 DEF Stored
<1>2. ASSUME NEW v \in Stored(B, n)
      PROVE  v \in Stored(A, n)
  <2>1. PICK r \in B : r.name = n /\ r.ver = v
    BY <1>2 DEF Stored
  <2>2. PICK k \in A : k.name = r.name /\ k.ver = r.ver
    OBVIOUS
  <2>. QED
    BY <2>1, <2>2 DEF Stored
<1>. QED
  BY <1>1, <1>2

\* Where the view stays so does what is stored, and where the flash does.
LEMMA ViewStays ==
    ASSUME Shown, Shown', ~Compacting, ~Compacting', View' = View
    PROVE  OnFlash' = OnFlash
<1>1. ReloadOf(flash).index' = ReloadOf(flash).index
  BY DEF Shown
<1>2. \A n \in Names : Stored(ReloadOf(flash).index, n)' = Stored(ReloadOf(flash).index, n)
  BY <1>1 DEF Stored
<1>. QED
  BY <1>2, NothingTold

LEMMA FlashStays ==
    ASSUME flash' = flash
    PROVE  OnFlash' = OnFlash
BY DEF OnFlash

LEMMA ViewSame ==
    ASSUME Shown, Shown', ~Compacting, ~Compacting', \A n : Stored(View', n) = Stored(View, n)
    PROVE  OnFlash' = OnFlash
<1>1. /\ \A n : Stored(ReloadOf(flash).index, n) = Stored(View, n)
      /\ \A n : Stored(ReloadOf(flash).index, n)' = Stored(View', n)
  BY DEF Shown, Stored
<1>. QED
  BY <1>1, NothingTold

\* One file of the view makes room for another one, or is gone.
LEMMA ViewTells ==
    ASSUME Shown, Shown', ~Compacting, ~Compacting', NEW name \in Names, NEW ver,
           \/ Stored(View', name) = {ver}
           \/ Stored(View', name) = {} /\ ver = 0,
           \A n \in Names \ {name} : Stored(View', n) = Stored(View, n)
    PROVE  OnFlash' = [OnFlash EXCEPT ![name] = ver]
<1>1. /\ \A n : Stored(ReloadOf(flash).index, n) = Stored(View, n)
      /\ \A n : Stored(ReloadOf(flash).index, n)' = Stored(View', n)
  BY DEF Shown, Stored
<1>. QED
  BY <1>1, OneTold

\* What is pending: requests that end leave the others.
LEMMA RequestsEnd ==
    ASSUME req \in [Clients -> Requests],
           req' = req \/ (\E c \in Clients : req' = [req EXCEPT ![c] = Idle])
                      \/ req' = [c \in Clients |-> Idle]
    PROVE  InFlight' \subseteq InFlight
<1>1. \A d \in Clients : req'[d] = req[d] \/ req'[d] = Idle
  OBVIOUS
<1>2. Idle.op # "save" /\ Idle.op # "delete"
  BY DEF Idle
<1>3. ASSUME NEW d \in Clients, req'[d].op \in {"save", "delete"}
      PROVE  req'[d] = req[d]
  BY <1>1, <1>2, <1>3
<1>4. ASSUME NEW p \in InFlight'
      PROVE  p \in InFlight
  <2>1. \/ \E d \in Clients : req'[d].op = "save" /\ p = [name |-> req'[d].name, ver |-> req'[d].ver]
        \/ \E d \in Clients : req'[d].op = "delete" /\ p = [name |-> req'[d].rec.name, ver |-> 0]
    BY <1>4 DEF InFlight
  <2>2. CASE \E d \in Clients : req'[d].op = "save" /\ p = [name |-> req'[d].name, ver |-> req'[d].ver]
    BY <1>3, <2>2 DEF InFlight
  <2>3. CASE \E d \in Clients : req'[d].op = "delete" /\ p = [name |-> req'[d].rec.name, ver |-> 0]
    BY <1>3, <2>3 DEF InFlight
  <2>. QED
    BY <2>1, <2>2, <2>3
<1>. QED
  BY <1>4

\* The request of the transaction in flight is pending.
LEMMA JobPending ==
    ASSUME BaseInv, ServedInv, phase # "none"
    PROVE  [name |-> job.rec.name, ver |-> IF phase = "delete" THEN 0 ELSE job.rec.ver] \in InFlight
<1>1. /\ holder \in Clients
      /\ phase = "delete" => req[holder].op = "delete"
      /\ phase # "delete" => req[holder].op = "save" /\ job.rec.ver = req[holder].ver
  BY DEF BaseInv, StoreInv, TypeOK, TaskType, VersInv, JobIsTheRequest
<1>2. CASE phase = "delete"
  BY <1>1, <1>2 DEF ServedInv, InFlight
<1>3. CASE phase # "delete"
  BY <1>1, <1>3 DEF ServedInv, InFlight
<1>. QED
  BY <1>2, <1>3

-----------------------------------------------------------------------------
(* Each step of the store is one of DurableStore's, or none.                  *)

\* The file whose commit word the operation in flight has written.
Took(k) == phase = "commit" /\ SameFile(k, job.rec)

\* However far an append or a retirement gets, a reload finds every indexed file
\* again, but for one that the file being committed replaces, and no other file.
LEMMA TornTells ==
    ASSUME BaseInv, AgreeInv, NamesTell, JobNamed, ~Compacting,
           phase \notin {"none", "publish", "delete"},
           NEW fl \in Torn, fl \in [Units -> Cell], NEW index \in SUBSET Live(fl),
           \A e \in Live(fl) : \E k \in index : k.seq = e.seq /\ Precedes(k, e)
    PROVE  /\ \A r \in ram.index : \E k \in index :
                k.seq = r.seq /\ k.name = r.name /\ (Took(k) \/ k.ver = r.ver)
           /\ \A k \in index :
                Took(k) \/ \E r \in ram.index : r.seq = k.seq /\ r.name = k.name
<1>1. /\ flash \in [Units -> Cell] /\ RecordsKnown /\ phase # "rewrite" /\ Exposed = {}
  BY DEF BaseInv, StoreInv, TypeOK, WorldType, AgreeInv, Compacting, Exposed
<1>2. /\ PartlyWritten(fl)
      /\ \A x, y \in Emitted(fl) \cup ram.index : x.seq = y.seq => x.name = y.name
      /\ \A x, y \in Emitted(fl) \cup ram.index : x.seq = y.seq /\ x.stamp = y.stamp => x.ver = y.ver
  BY PartlyTorn, PartlyNamed, PartlyKnown
<1>3. \A e \in Emitted(fl) : e \in Rec /\ e.stamp \in Nat
  BY EmittedFrom DEF Rec
<1>4. \A r \in ram.index : r.stamp \in Nat
  BY DEF BaseInv, StoreInv, TypeOK, WorldType, Ram, File, Rec
<1>5. ASSUME NEW k \in index, ~Took(k)
      PROVE  \E r \in ram.index : r.seq = k.seq /\ r.name = k.name /\ k.stamp <= r.stamp
  <2>1. k \in Emitted(fl) /\ ~k.dead
    BY DEF Live
  <2>2. PICK x \in Emitted(flash) : Tells(x, k) /\ SameFile(x, k)
    BY <1>1, <1>2, <1>5, <2>1, PartlyEmitted DEF Took
  <2>3. x \in Live(flash) /\ ~Unpublished(x.off)
    BY <2>1, <2>2 DEF Tells, Live, Unpublished
  <2>4. PICK r \in ram.index : r.seq = x.seq /\ x.stamp <= r.stamp
    BY <1>1, <2>3 DEF RecordsKnown, LiveKnown
  <2>5. r.seq = k.seq /\ k.stamp <= r.stamp
    BY <2>2, <2>4 DEF Tells
  <2>. QED
    BY <1>2, <2>1, <2>5
<1>6. ASSUME NEW r \in ram.index
      PROVE  \E k \in index : k.seq = r.seq /\ k.name = r.name /\ (Took(k) \/ k.ver = r.ver)
  <2>1. PICK e \in Live(fl) : e.seq = r.seq /\ e.stamp = r.stamp /\ e.ver = r.ver
    BY <1>1, TornKeeps
  <2>2. PICK k \in index : k.seq = e.seq /\ Precedes(k, e)
    OBVIOUS
  <2>3. /\ k \in Emitted(fl) /\ e \in Emitted(fl) /\ k.stamp \in Nat /\ e.stamp \in Nat
        /\ k.name = r.name
    BY <1>2, <1>3, <2>1, <2>2 DEF Live
  <2>4. CASE ~Took(k)
    <3>1. PICK s \in ram.index : s.seq = k.seq /\ k.stamp <= s.stamp
      BY <1>5, <2>4
    <3>2. s = r
      BY <2>1, <2>2, <3>1 DEF BaseInv, FilesInv, OneOfASeq
    <3>3. k.stamp = e.stamp
      BY <2>1, <2>2, <2>3, <3>1, <3>2 DEF Precedes
    <3>4. k.ver = e.ver
      BY <1>2, <2>2, <2>3, <3>3
    <3>. QED
      BY <2>1, <2>2, <2>3, <3>4
  <2>. QED
    BY <2>1, <2>2, <2>3, <2>4
<1>. QED
  BY <1>5, <1>6

\* What may be told of an instant: nothing new, or one pending request, as a whole.
OneEffect ==
    \/ OnFlash' = OnFlash
    \/ \E p \in InFlight : OnFlash' = [OnFlash EXCEPT ![p.name] = p.ver]

\* A power cut completes the request in flight or forgets it.
LEMMA PowerCutTells ==
    ASSUME BaseInv, BaseInv', AgreeInv, AgreeInv', PromiseInv, ServedInv, Shown, Shown',
           MaxDeletes = 0 \/ MaxCuts = 0, ~Compacting, PowerCut
    PROVE  OneEffect
<1>. DEFINE fl == flash'
            index == ram'.index
<1>1. fl \in Torn /\ phase' = "none" /\ used.cuts < MaxCuts
  BY DEF PowerCut, Boot
<1>2. /\ flash \in [Units -> Cell] /\ fl \in [Units -> Cell] /\ used.cuts \in Nat /\ MaxCuts \in Nat
      /\ StoreInv /\ NamesTell /\ JobNamed /\ phase \in Phases
  BY StoreAssumption DEF BaseInv, StoreInv, TypeOK, WorldType, TaskType, Used, PromiseInv
<1>3. phase # "delete"
  <2>1. phase = "delete" => holder \in Clients /\ req[holder].op = "delete"
    BY <1>2 DEF StoreInv, TypeOK, TaskType
  <2>2. MaxDeletes = 0
    BY <1>1, <1>2
  <2>. QED
    BY <2>1, <2>2 DEF AgreeInv, DeletesAllowed
<1>4. CASE phase \in {"none", "publish"}
  <2>1. PartlyWritten(fl) /\ DOMAIN Written = {}
    BY <1>1, <1>4, PartlyTorn DEF Written
  <2>2. \A u \in Units : fl[u] = flash[u]
    BY <1>1, <1>2, <2>1, UntouchedStays
  <2>3. fl = flash
    BY <1>2, <2>2
  <2>. QED
    BY <2>3, FlashStays DEF OneEffect
<1>5. CASE phase \notin {"none", "publish"}
  <2>1. ~Compacting' /\ View' = index /\ View = ram.index
    BY <1>1, <1>5 DEF Compacting, View
  <2>2. index \in SUBSET Live(fl) /\ \A e \in Live(fl) : \E k \in index : k.seq = e.seq /\ Precedes(k, e)
    <3>1. \A at : ~Unpublished(at)'
      BY <1>1 DEF Unpublished
    <3>. QED
      BY <2>1, <3>1 DEF AgreeInv, RecordsKnown, IndexLive, LiveKnown
  <2>3. \A k, j \in index : k.seq = j.seq => k = j
    BY DEF BaseInv, FilesInv, OneOfASeq
  <2>. HIDE DEF fl, index
  <2>4. /\ \A r \in ram.index : \E k \in index :
             k.seq = r.seq /\ k.name = r.name /\ (Took(k) \/ k.ver = r.ver)
        /\ \A k \in index : Took(k) \/ \E r \in ram.index : r.seq = k.seq /\ r.name = k.name
    BY <1>1, <1>2, <1>3, <1>5, <2>2, TornTells
  <2>5. ASSUME NEW k \in index, ~Took(k)
        PROVE  \E r \in ram.index : r.name = k.name /\ r.ver = k.ver
    <3>1. PICK r \in ram.index : r.seq = k.seq /\ r.name = k.name
      BY <2>4, <2>5
    <3>2. PICK j \in index : j.seq = r.seq /\ (Took(j) \/ j.ver = r.ver)
      BY <2>4
    <3>3. j = k
      BY <2>3, <3>1, <3>2
    <3>. QED
      BY <2>5, <3>1, <3>2, <3>3
  <2>6. CASE \A k \in index : ~Took(k)
    <3>1. \A n : Stored(ram.index, n) = Stored(index, n)
      <4>1. \A r \in ram.index : \E k \in index : k.name = r.name /\ k.ver = r.ver
        BY <2>4, <2>6
      <4>2. \A k \in index : \E r \in ram.index : r.name = k.name /\ r.ver = k.ver
        BY <2>5, <2>6
      <4>. QED
        BY <4>1, <4>2, SameStored
    <3>. QED
      BY <2>1, <3>1, ViewSame DEF OneEffect
  <2>7. CASE \E k \in index : Took(k)
    <3>. DEFINE name == job.rec.name
                ver == job.rec.ver
    <3>1. PICK k \in index : Took(k)
      BY <2>7
    <3>2. phase = "commit" /\ k.seq = job.rec.seq /\ k.name = name /\ k.ver = ver
      BY <3>1 DEF Took, SameFile
    <3>3. name \in Names
      BY <1>2, <3>2 DEF StoreInv, TypeOK, TaskType, Rec
    <3>4. ASSUME NEW j \in index, j.name = name
          PROVE  j.ver = ver
      <4>1. CASE Took(j)
        BY <4>1 DEF Took, SameFile
      <4>2. CASE ~Took(j)
        <5>1. PICK r \in ram.index : r.seq = j.seq /\ r.name = j.name
          BY <2>4, <4>2
        <5>2. r.seq = job.rec.seq
          BY <1>2, <3>2, <3>4, <5>1 DEF JobNamed, Appending
        <5>3. j = k
          BY <2>3, <3>2, <5>1, <5>2
        <5>. QED
          BY <3>2, <5>3
      <4>. QED
        BY <4>1, <4>2
    <3>5. Stored(index, name) = {ver}
      BY <3>1, <3>2, <3>4 DEF Stored
    <3>6. ASSUME NEW n \in Names, n # name
          PROVE  Stored(index, n) = Stored(ram.index, n)
      <4>1. \A j \in index : j.name = n => ~Took(j)
        BY <3>6 DEF Took, SameFile
      <4>2. \A v : v \in Stored(index, n) => v \in Stored(ram.index, n)
        BY <2>5, <4>1 DEF Stored
      <4>3. \A v : v \in Stored(ram.index, n) => v \in Stored(index, n)
        <5>. SUFFICES ASSUME NEW r \in ram.index, r.name = n PROVE \E j \in index : j.name = n /\ j.ver = r.ver
          BY DEF Stored
        <5>. QED
          BY <2>4, <4>1
      <4>. QED
        BY <4>2, <4>3
    <3>7. [name |-> name, ver |-> ver] \in InFlight
      BY <3>2, JobPending
    <3>8. OnFlash' = [OnFlash EXCEPT ![name] = ver]
      <4>. HIDE DEF name, ver
      <4>. QED
        BY <2>1, <3>3, <3>5, <3>6, ViewTells
    <3>. QED
      BY <3>7, <3>8 DEF OneEffect
  <2>. QED
    BY <2>6, <2>7
<1>. QED
  BY <1>4, <1>5

\* The commit word of an append is what stores its file.
LEMMA AppendTells ==
    ASSUME BaseInv, AgreeInv, PromiseInv, ServedInv, Shown, Shown', ~Compacting, ~Compacting',
           NEW c \in Clients, NEW lost \in BOOLEAN, AppendOp(c, lost)
    PROVE  OneEffect /\ (req' = req \/ req' = [req EXCEPT ![c] = Idle])
<1>1. /\ Appending /\ phase # "publish" /\ ram' = ram
      /\ phase' # "publish" \/ (phase' = "publish" /\ job' = job)
      /\ req' = req \/ req' = [req EXCEPT ![c] = Idle]
  BY DEF AppendOp, Answer
<1>2. CASE phase' # "publish"
  <2>1. View' = View
    BY <1>1, <1>2 DEF View
  <2>. QED
    BY <1>1, <2>1, ViewStays DEF OneEffect
<1>3. CASE phase' = "publish"
  <2>. DEFINE name == job.rec.name
              ver == job.rec.ver
  <2>1. View = ram.index /\ View' = Replaced(ram.index, job.rec)
    BY <1>1, <1>3 DEF View
  <2>2. name \in Names /\ JobNamed
    BY <1>1 DEF BaseInv, StoreInv, TypeOK, TaskType, Rec, Appending, PromiseInv
  <2>3. \A r \in View' : r = job.rec \/ (r \in ram.index /\ r.seq # job.rec.seq)
    BY <2>1 DEF Replaced
  <2>4. /\ job.rec \in View'
        /\ \A r \in ram.index : r.seq # job.rec.seq => r \in View'
    BY <2>1 DEF Replaced
  <2>5. \A r \in ram.index : r.name = name <=> r.seq = job.rec.seq
    BY <1>1, <2>2 DEF JobNamed
  <2>6. Stored(View', name) = {ver}
    BY <2>3, <2>4, <2>5 DEF Stored
  <2>7. \A n \in Names \ {name} : Stored(View', n) = Stored(View, n)
    BY <2>1, <2>3, <2>4, <2>5 DEF Stored
  <2>8. [name |-> name, ver |-> ver] \in InFlight
    BY <1>1, JobPending DEF Appending
  <2>9. OnFlash' = [OnFlash EXCEPT ![name] = ver]
    <3>. HIDE DEF name, ver
    <3>. QED
      BY <2>2, <2>6, <2>7, ViewTells
  <2>. QED
    BY <1>1, <2>8, <2>9 DEF OneEffect
<1>. QED
  BY <1>2, <1>3

\* The dead word of a delete takes its file away, that of a retirement none.
LEMMA DeadWordTells ==
    ASSUME BaseInv, AgreeInv, PromiseInv, ServedInv, Shown, Shown', ~Compacting, ~Compacting',
           MaxLeases = 0, NEW c \in Clients, NEW lost \in BOOLEAN, RetireOp(c, lost) \/ DeleteOp(c, lost)
    PROVE  OneEffect /\ req' = [req EXCEPT ![c] = Idle]
<1>1. /\ phase \in {"retire", "delete"} /\ Operate(lost) /\ phase' = "none"
      /\ req' = [req EXCEPT ![c] = Idle]
      /\ View = ram.index /\ View' = ram'.index
  BY DEF RetireOp, DeleteOp, Answer, View
<1>2. CASE RetireOp(c, lost)
  <2>1. View' = View
    BY <1>1, <1>2 DEF RetireOp
  <2>. QED
    BY <1>1, <2>1, ViewStays DEF OneEffect
<1>3. CASE DeleteOp(c, lost)
  <2>. DEFINE name == job.rec.name
  <2>1. /\ phase = "delete" /\ job.rec \in ram.index /\ ram \in Ram /\ OneOfASeq /\ NamesApart
        /\ job.rec \in File
    BY <1>3 DEF DeleteOp, BaseInv, FilesInv, OldIsMeant, StoreInv, TypeOK, WorldType, Ram, PromiseInv
  <2>2. Succeeded(lost)
    BY <1>1, <2>1, Performed DEF BaseInv, RepackInv
  <2>3. View' = { r \in ram.index : r.seq # job.rec.seq }
    BY <1>1, <1>3, <2>1, <2>2 DEF DeleteOp, Removed, Ram
  <2>4. \A r \in ram.index : r.name = name <=> r.seq = job.rec.seq
    BY <2>1 DEF OneOfASeq, NamesApart
  <2>5. Stored(View', name) = {} /\ \A n \in Names \ {name} : Stored(View', n) = Stored(View, n)
    BY <1>1, <2>3, <2>4 DEF Stored
  <2>6. name \in Names
    BY <2>1 DEF File, Rec
  <2>7. [name |-> name, ver |-> 0] \in InFlight
    BY <2>1, JobPending
  <2>8. OnFlash' = [OnFlash EXCEPT ![name] = 0]
    <3>. HIDE DEF name
    <3>. QED
      BY <2>5, <2>6, ViewTells
  <2>. QED
    BY <1>1, <2>7, <2>8 DEF OneEffect
<1>. QED
  BY <1>2, <1>3

\* A request adds what it asks for to what is pending, a read asks for nothing.
LEMMA AskTells ==
    ASSUME StoreInv, NEW c \in Clients, Request(c)
    PROVE  Durable!Ask \/ Durable!Forget
<1>1. /\ flash' = flash /\ req[c] = Idle /\ req \in [Clients -> Requests]
      /\ ram.index \in SUBSET File /\ used.saves \in Versions
  BY DEF Request, RequestSave, RequestDelete, RequestGet, StoreInv, TypeOK, WorldType, TaskType, Ram, Used
<1>2. OnFlash' = OnFlash
  BY <1>1, FlashStays
<1>3. Idle.op # "save" /\ Idle.op # "delete"
  BY DEF Idle
<1>4. ASSUME NEW q, req' = [req EXCEPT ![c] = q],
             NEW p, q.op = "save" => p = [name |-> q.name, ver |-> q.ver],
             q.op = "delete" => p = [name |-> q.rec.name, ver |-> 0],
             q.op \in {"save", "delete"}
      PROVE  InFlight' = InFlight \cup {p}
  <2>1. req'[c] = q /\ \A d \in Clients : d # c => req'[d] = req[d]
    BY <1>1, <1>4
  <2>2. ASSUME NEW x \in InFlight'
        PROVE  x \in InFlight \cup {p}
    <3>1. PICK d \in Clients :
             \/ req'[d].op = "save" /\ x = [name |-> req'[d].name, ver |-> req'[d].ver]
             \/ req'[d].op = "delete" /\ x = [name |-> req'[d].rec.name, ver |-> 0]
      BY <2>2 DEF InFlight
    <3>2. CASE d = c
      BY <1>4, <2>1, <3>1, <3>2
    <3>3. CASE d # c
      BY <2>1, <3>1, <3>3 DEF InFlight
    <3>. QED
      BY <3>2, <3>3
  <2>3. ASSUME NEW x \in InFlight
        PROVE  x \in InFlight'
    <3>1. PICK d \in Clients :
             \/ req[d].op = "save" /\ x = [name |-> req[d].name, ver |-> req[d].ver]
             \/ req[d].op = "delete" /\ x = [name |-> req[d].rec.name, ver |-> 0]
      BY <2>3 DEF InFlight
    <3>2. req'[d] = req[d]
      BY <1>1, <1>3, <2>1, <3>1
    <3>. QED
      BY <3>1, <3>2 DEF InFlight
  <2>4. p \in InFlight'
    BY <1>4, <2>1 DEF InFlight
  <2>. QED
    BY <2>2, <2>3, <2>4
<1>5. CASE RequestSave(c)
  <2>1. PICK name \in Names, len \in Lens :
           /\ req' = [req EXCEPT ![c] = [op |-> "save", name |-> name, len |-> len,
                                         ver |-> used.saves + 1]]
           /\ used.saves < MaxSaves
    BY <1>5 DEF RequestSave
  <2>. DEFINE q == [op |-> "save", name |-> name, len |-> len, ver |-> used.saves + 1]
              p == [name |-> name, ver |-> used.saves + 1]
  <2>2. used.saves + 1 \in Versions
    BY <1>1, <2>1, StoreAssumption DEF Versions
  <2>3. InFlight' = InFlight \cup {p}
    <3>1. /\ req' = [req EXCEPT ![c] = q] /\ q.op # "delete" /\ q.op \in {"save", "delete"}
          /\ p = [name |-> q.name, ver |-> q.ver]
      BY <2>1
    <3>. HIDE DEF p, q
    <3>. QED
      BY <1>4, <3>1
  <2>. QED
    BY <1>2, <2>2, <2>3 DEF Durable!Ask, Durable!Request
<1>6. CASE RequestDelete(c)
  <2>1. PICK r \in ram.index : req' = [req EXCEPT ![c] = [op |-> "delete", rec |-> r]]
    BY <1>6 DEF RequestDelete
  <2>. DEFINE q == [op |-> "delete", rec |-> r]
              p == [name |-> r.name, ver |-> 0]
  <2>2. r.name \in Names /\ 0 \in Versions
    BY <1>1, StoreAssumption DEF File, Rec, Versions
  <2>3. InFlight' = InFlight \cup {p}
    <3>1. /\ req' = [req EXCEPT ![c] = q] /\ q.op = "delete"
          /\ p = [name |-> q.rec.name, ver |-> 0]
      BY <2>1
    <3>. HIDE DEF p, q
    <3>. QED
      BY <1>4, <3>1
  <2>. QED
    BY <1>2, <2>2, <2>3 DEF Durable!Ask, Durable!Request
<1>7. CASE RequestGet(c)
  <2>1. PICK r \in ram.index : req' = [req EXCEPT ![c] = [op |-> "get", rec |-> r]]
    BY <1>7 DEF RequestGet
  <2>2. \A d \in Clients : req'[d].op \in {"save", "delete"} => req'[d] = req[d]
    BY <1>1, <2>1
  <2>3. InFlight' \subseteq InFlight
    <3>. SUFFICES ASSUME NEW x \in InFlight' PROVE x \in InFlight
      OBVIOUS
    <3>1. PICK d \in Clients :
             \/ req'[d].op = "save" /\ x = [name |-> req'[d].name, ver |-> req'[d].ver]
             \/ req'[d].op = "delete" /\ x = [name |-> req'[d].rec.name, ver |-> 0]
      BY DEF InFlight
    <3>. QED
      BY <2>2, <3>1 DEF InFlight
  <2>. QED
    BY <1>2, <2>3 DEF Durable!Forget
<1>. QED
  BY <1>5, <1>6, <1>7 DEF Request

\* Every step with no compaction before or after it is one of DurableStore.
LEMMA DurableStep ==
    ASSUME MaxLeases = 0, MaxDeletes = 0 \/ MaxCuts = 0,
           BaseInv, BaseInv', AgreeInv, AgreeInv', PromiseInv, ServedInv, Shown, Shown',
           ~Compacting, ~Compacting', [Next]_vars
    PROVE  Durable!Next \/ UNCHANGED <<OnFlash, InFlight>>
<1>1. req \in [Clients -> Requests] /\ StoreInv
  BY DEF BaseInv, StoreInv, TypeOK, TaskType
<1>2. ASSUME OneEffect, InFlight' \subseteq InFlight
      PROVE  Durable!Next
  BY <1>2 DEF OneEffect, Durable!Next, Durable!Effect, Durable!Forget
<1>3. ASSUME flash' = flash, req' = req \/ \E c \in Clients : req' = [req EXCEPT ![c] = Idle]
      PROVE  Durable!Next
  BY <1>1, <1>2, <1>3, FlashStays, RequestsEnd DEF OneEffect
<1>4. ASSUME NEW c \in Clients, Serve(c)
      PROVE  Durable!Next
  <2>1. CASE GiveUp(c) \/ GetCopy(c) \/ BeginSave(c) \/ Publish(c) \/ BeginDelete(c)
    <3>1. flash' = flash /\ (req' = req \/ req' = [req EXCEPT ![c] = Idle])
      BY <2>1 DEF GiveUp, GetCopy, BeginSave, Publish, BeginDelete, Answer
    <3>. QED
      BY <1>3, <3>1
  <2>2. ASSUME NEW lost \in BOOLEAN, AppendOp(c, lost)
        PROVE  Durable!Next
    BY <1>1, <1>2, <2>2, AppendTells, RequestsEnd
  <2>3. ASSUME NEW lost \in BOOLEAN, RetireOp(c, lost) \/ DeleteOp(c, lost)
        PROVE  Durable!Next
    BY <1>1, <1>2, <2>3, DeadWordTells, RequestsEnd
  <2>4. ~(Reload(c) \/ \E lost \in BOOLEAN : VacateOp(c, lost) \/ RewriteOp(c, lost) \/ SweepOp(c, lost))
    BY DEF Reload, VacateOp, RewriteOp, SweepOp, Compacting
  <2>. QED
    BY <1>4, <2>1, <2>2, <2>3, <2>4 DEF Serve
<1>5. ASSUME NEW c \in Clients, Request(c)
      PROVE  Durable!Next
  BY <1>1, <1>5, AskTells DEF Durable!Next
<1>6. CASE Render \/ OtaBegin \/ OtaEnd \/ UNCHANGED vars
  <2>1. flash' = flash /\ req' = req
    BY <1>6 DEF Render, SwapPin, SwapDecode, SwapInstall, FadeEnd, OtaBegin, OtaEnd, vars
  <2>. QED
    BY <1>3, <2>1
<1>7. CASE PowerCut
  <2>1. OneEffect
    BY <1>7, PowerCutTells
  <2>2. req' = [c \in Clients |-> Idle]
    BY <1>7 DEF PowerCut, Boot
  <2>. QED
    BY <1>1, <1>2, <2>1, <2>2, RequestsEnd
<1>. QED
  BY <1>4, <1>5, <1>6, <1>7 DEF Next

\* At first nothing is stored and nothing pending.
LEMMA DurableInit == Init => Durable!Init
<1>. SUFFICES ASSUME Init PROVE Durable!Init
  OBVIOUS
<1>1. InFlight = {}
  <2>1. \A c \in Clients : req[c] = Idle
    BY DEF Init
  <2>. QED
    BY <2>1 DEF InFlight, Idle
<1>2. /\ BaseInv /\ AgreeInv /\ ~Compacting /\ phase = "none"
  <2>1. NothingPinned /\ ~Compacting /\ phase = "none"
    BY DEF Init, NothingPinned, NoPlan, Compacting
  <2>. QED
    BY <2>1, StoreInit, VersInit, FilesInit, RepackInit, RoomInit, AgreeInit DEF BaseInv
<1>3. ReloadOf(flash).index = {}
  <2>1. ReloadOf(flash).index = ram.index
    BY <1>2, ViewNow DEF View
  <2>2. \A at \in Units : ~HeaderAt(flash, at)
    BY DEF Init, HeaderAt, Erased
  <2>3. Live(flash) = {}
    BY <2>2 DEF Live, Emitted, Scan, Accepts
  <2>. QED
    BY <1>2, <2>1, <2>3 DEF AgreeInv, RecordsKnown, IndexLive
<1>4. OnFlash = [n \in Names |-> 0]
  <2>1. \A n : Stored(ReloadOf(flash).index, n) = {}
    BY <1>3 DEF Stored
  <2>. QED
    BY <2>1 DEF OnFlash
<1>. QED
  BY <1>1, <1>4 DEF Durable!Init

\* As long as the log has room, what a reboot at any instant would find under the
\* names is a DurableStore (save_kind and delete_kind, patterns.rs): each request
\* takes effect at one flash operation or not at all, a save when its commit word is
\* down, and a power cut inside any operation completes or forgets it.
THEOREM StoreIsDurable ==
    ~StaleLookups /\ MaxLeases = 0 /\ MaxOtas = 0 /\ MaxSwaps = 0 /\ (MaxDeletes = 0 \/ MaxCuts = 0) =>
        (Spec /\ []~Compacting => ImplementsDurableStore)
<1>. SUFFICES ASSUME ~StaleLookups, MaxLeases = 0, MaxOtas = 0, MaxSwaps = 0,
                     MaxDeletes = 0 \/ MaxCuts = 0
              PROVE  Spec /\ []~Compacting => ImplementsDurableStore
  OBVIOUS
<1>1. Init => PromiseInv /\ ServedInv /\ Durable!Init
  BY PromiseInit, ServedInit, DurableInit
<1>2. BaseInv /\ AgreeInv /\ PromiseInv /\ [Next]_vars /\ (BaseInv /\ AgreeInv)'
      => PromiseInv'
  BY PromiseStep
<1>3. BaseInv /\ ServedInv /\ [Next]_vars => ServedInv'
  BY ServedStep DEF BaseInv
<1>4. BaseInv /\ AgreeInv => Shown
  BY ViewNow DEF Shown
<1>5. /\ BaseInv /\ AgreeInv /\ PromiseInv /\ ServedInv /\ Shown /\ ~Compacting
      /\ (BaseInv /\ AgreeInv /\ Shown /\ ~Compacting)' /\ [Next]_vars
      => [Durable!Next]_<<OnFlash, InFlight>>
  BY DurableStep
<1>. QED
  BY <1>1, <1>2, <1>3, <1>4, <1>5, AgreeInvariant, PTL
  DEF Spec, ImplementsDurableStore, Durable!Spec
=============================================================================
