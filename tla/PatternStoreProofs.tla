------------------------- MODULE PatternStoreProofs -------------------------
(* The pattern store, for every page size, every number of pages and every    *)
(* content of the flash: it keeps its types, and a compaction never touches a *)
(* page of a file it saw pinned, for every set of clients, names and lengths, *)
(* and every bound.                                                           *)
(*                                                                            *)
(* Then what it keeps standing.  Every file the index names, and every file   *)
(* an engine executes in place, is committed and whole on flash where its     *)
(* record says; an append goes where none of them is; a dead word lands in    *)
(* the version it is meant for; with any number of power cuts, refused        *)
(* operations, updates, swaps and deletes.                                    *)
(*                                                                            *)
(* Last what a compaction delivers: it never lacks a plan, and as long as no  *)
(* operation is refused and no update begins, it erases no source             *)
(* before its copy is whole, and it makes the room it was started for.        *)
EXTENDS PatternStore, PatLogFacts

-----------------------------------------------------------------------------
(* The invariant of the store.                                                *)
StoreInv == TypeOK /\ CompactionSound

-----------------------------------------------------------------------------
(* What the scan and the rebuilt RAM state contain.                           *)

\* A header cell holds a record.
LEMMA HeaderCell ==
    ASSUME NEW cell \in Cell, cell.kind = "header"
    PROVE  /\ cell \in [kind : {"header"}, rec : Rec, commit : BOOLEAN, dead : BOOLEAN]
           /\ cell.rec \in Rec /\ cell.dead \in BOOLEAN
BY DEF Cell, Erased, Junk

\* A record's size and end.
LEMMA RecFacts ==
    ASSUME NEW r \in Rec
    PROVE  /\ r.off \in Nat /\ r.len \in Nat \ {0} /\ Size(r) \in Nat \ {0}
           /\ End(r) = r.off + Size(r) /\ End(r) \in Nat
<1>1. r.off \in Units /\ r.len \in Lens
  BY DEF Rec
<1>2. r.off \in Nat /\ r.len \in Nat \ {0}
  BY <1>1, LogFacts, StoreAssumption
<1>. QED
  BY <1>2 DEF Size, End

\* Whatever the scan emits is a file of the log.
LEMMA EmittedFiles ==
    ASSUME NEW fl \in [Units -> Cell]
    PROVE  Emitted(fl) \subseteq File
<1>. SUFFICES ASSUME NEW at \in Scan(fl)
              PROVE  [fl[at].rec EXCEPT !.dead = fl[at].dead] \in File
  BY DEF Emitted
<1>. DEFINE r == fl[at].rec
<1>1. at \in Units /\ fl[at].kind = "header" /\ End(r) <= LogLen
  BY DEF Scan, Accepts, HeaderAt, PayloadWhole
<1>2. r \in Rec /\ fl[at].dead \in BOOLEAN
  BY <1>1, HeaderCell
<1>. HIDE DEF r
<1>3. [r EXCEPT !.dead = fl[at].dead] \in Rec
  BY <1>2 DEF Rec
<1>4. End([r EXCEPT !.dead = fl[at].dead]) = End(r)
  BY <1>2 DEF Rec, End, Size
<1>. QED
  BY <1>1, <1>3, <1>4 DEF File, r

\* reload produces a well-formed RAM state.
LEMMA ReloadType ==
    ASSUME NEW fl \in [Units -> Cell]
    PROVE  ReloadOf(fl) \in Ram
<1>. DEFINE all == Emitted(fl)
            seqOf == [r \in all |-> r.seq]
            stampOf == [r \in all |-> r.stamp]
<1>1. all \subseteq File /\ IsFiniteSet(all)
  BY EmittedFiles, EmittedFinite
<1>2. seqOf \in [all -> Nat] /\ stampOf \in [all -> Nat]
  BY <1>1 DEF File, Rec
<1>3. { seqOf[r] + 1 : r \in all } = { r.seq + 1 : r \in all }
      /\ { stampOf[r] + 1 : r \in all } = { r.stamp + 1 : r \in all }
  OBVIOUS
<1>. HIDE DEF seqOf, stampOf
<1>4. Max({0} \cup { r.seq + 1 : r \in all }) \in Nat
  <2>. HIDE DEF all
  <2>1. Max({0} \cup { seqOf[r] + 1 : r \in all }) \in Nat
    BY <1>1, <1>2, NextCounter
  <2>. QED
    BY <2>1, <1>3
<1>5. Max({1} \cup { r.stamp + 1 : r \in all }) \in Nat
  <2>. HIDE DEF all
  <2>1. Max({1} \cup { stampOf[r] + 1 : r \in all }) \in Nat
    BY <1>1, <1>2, NextCounter
  <2>. QED
    BY <2>1, <1>3
<1>6. ScanCursor(fl) \in 0 .. LogLen
  <2>. DEFINE ends == { End(fl[at].rec) : at \in Scan(fl) }
  <2>1. \A e \in ends : e \in Nat /\ e <= LogLen
    <3>. SUFFICES ASSUME NEW at \in Scan(fl)
                  PROVE  End(fl[at].rec) \in Nat /\ End(fl[at].rec) <= LogLen
      OBVIOUS
    <3>1. at \in Units /\ fl[at].kind = "header" /\ End(fl[at].rec) <= LogLen
      BY DEF Scan, Accepts, HeaderAt, PayloadWhole
    <3>. QED
      BY <3>1, HeaderCell, RecFacts
  <2>. HIDE DEF ends
  <2>2. CASE ends = {}
    BY <2>2, LogFacts DEF ScanCursor, ends
  <2>3. CASE ends # {}
    <3>1. IsFiniteSet(ends) /\ ends \in SUBSET Nat
      BY <2>1, LogFacts, FS_BoundedSetOfNaturals
    <3>2. Max(ends) \in ends
      BY <3>1, <2>3, MaxExists
    <3>3. ScanCursor(fl) = Max(ends)
      BY <2>3 DEF ScanCursor, ends
    <3>. QED
      BY <2>1, <3>2, <3>3, LogFacts
  <2>. QED
    BY <2>2, <2>3
<1>7. 0 \in 0 .. LogLen
  BY LogFacts
<1>. QED
  BY <1>1, <1>4, <1>5, <1>6, <1>7 DEF ReloadOf, Ram

\* A placement the store finds lies within the log.
LEMMA FindPlaceFits ==
    ASSUME NEW fl, NEW r \in Ram, NEW size \in Nat \ {0},
           FindPlace(fl, r, size) # NoPlace
    PROVE  FindPlace(fl, r, size) \in Units /\ FindPlace(fl, r, size) + size <= LogLen
<1>1. r.cursor \in Nat /\ r.freeHint \in Nat
  BY LogFacts DEF Ram
<1>. QED
  BY <1>1, PlaceFits, PlaceFreeFits DEF FindPlace

\* The lowest record of a set of files.
LEMMA TheOld ==
    ASSUME NEW old \in SUBSET File, old # NoRec
    PROVE  The(old) \in File
BY Zenon DEF The, NoRec

-----------------------------------------------------------------------------
(* What a flash operation leaves.                                             *)

\* Every way of writing a cell produces a cell.
LEMMA CellFacts ==
    /\ Erased \in Cell /\ Junk \in Cell
    /\ \A old, new \in Cell : Program(old, new) \in Cell
    /\ \A cell \in Cell : SetCommit(cell) \in Cell /\ SetDead(cell) \in Cell
    /\ \A r \in Rec, commit, dead \in BOOLEAN : Header(r, commit, dead) \in Cell
    /\ \A ver \in Versions, i \in Nat : Data(ver, i) \in Cell
<1>1. Erased \in Cell /\ Junk \in Cell
  BY DEF Cell
<1>2. ASSUME NEW old \in Cell, NEW new \in Cell
      PROVE  Program(old, new) \in Cell
  <2>. HIDE DEF Cell, Erased, Junk
  <2>. QED
    BY <1>1, <1>2 DEF Program
<1>3. ASSUME NEW cell \in Cell
      PROVE  SetCommit(cell) \in Cell /\ SetDead(cell) \in Cell
  <2>1. CASE cell.kind = "header"
    <3>1. cell \in [kind : {"header"}, rec : Rec, commit : BOOLEAN, dead : BOOLEAN]
      BY <2>1, HeaderCell
    <3>2. /\ [cell EXCEPT !.commit = TRUE] \in [kind : {"header"}, rec : Rec, commit : BOOLEAN, dead : BOOLEAN]
          /\ [cell EXCEPT !.dead = TRUE] \in [kind : {"header"}, rec : Rec, commit : BOOLEAN, dead : BOOLEAN]
      BY <3>1
    <3>. QED
      BY <2>1, <3>2 DEF SetCommit, SetDead, Cell
  <2>2. CASE cell.kind # "header"
    BY <1>1, <2>2 DEF SetCommit, SetDead
  <2>. QED
    BY <2>1, <2>2
<1>4. ASSUME NEW r \in Rec, NEW commit \in BOOLEAN, NEW dead \in BOOLEAN
      PROVE  Header(r, commit, dead) \in Cell
  BY DEF Header, Cell
<1>5. ASSUME NEW ver \in Versions, NEW i \in Nat
      PROVE  Data(ver, i) \in Cell
  BY DEF Data, Cell
<1>. QED
  BY <1>1, <1>2, <1>3, <1>4, <1>5

\* Every unit the operation of this phase touches becomes a cell.
LEMMA WrittenType ==
    ASSUME StoreInv, phase # "none", NEW u \in DOMAIN Written, u \in Units
    PROVE  Written[u] \in Cell
<1>. USE DEF StoreInv
<1>1. flash[u] \in Cell /\ phase \in Phases
  BY DEF TypeOK, WorldType, TaskType
<1>2. CASE phase \in {"erase", "vacate", "sweep"}
  <2>1. Written = [v \in PageUnits(page) |-> Erased]
    BY <1>2 DEF Written
  <2>. QED
    BY <2>1, CellFacts
<1>3. CASE phase = "rewrite"
  <2>1. Written = [v \in PageUnits(page) |-> Program(flash[v], buf[v])]
    BY <1>3 DEF Written
  <2>2. buf[u] \in Cell
    BY <1>3, <2>1 DEF CompactionSound
  <2>. QED
    BY <1>1, <2>1, <2>2, CellFacts
<1>4. CASE phase = "header"
  <2>1. Written = [v \in {job.rec.off} |-> Program(flash[v], Header(job.rec, FALSE, FALSE))]
    BY <1>4 DEF Written
  <2>2. job.rec \in Rec
    BY <1>4 DEF TypeOK, WorldType, TaskType
  <2>. QED
    BY <1>1, <2>1, <2>2, CellFacts
<1>5. CASE phase = "payload"
  <2>1. Written = [v \in PayloadUnits(job.rec) \cap PageUnits(page) |->
                       Program(flash[v], Body(job.rec, v))]
    BY <1>5 DEF Written
  <2>2. job.rec \in Rec
    BY <1>5 DEF TypeOK, WorldType, TaskType
  <2>3. u - job.rec.off \in Nat /\ job.rec.ver \in Versions
    <3>1. u \in Extent(job.rec.off + 1, job.rec.len)
      BY <2>1 DEF PayloadUnits
    <3>. QED
      BY <2>2, <3>1, RecFacts DEF Extent, Rec
  <2>. QED
    BY <1>1, <2>1, <2>3, CellFacts DEF Body
<1>6. CASE phase = "commit"
  <2>1. Written = [v \in {job.rec.off} |-> SetCommit(flash[v])]
    BY <1>6 DEF Written
  <2>. QED
    BY <1>1, <2>1, CellFacts
<1>7. CASE phase \in {"retire", "delete"}
  <2>1. Written = [v \in {The(job.old).off} |-> SetDead(flash[v])]
    BY <1>7 DEF Written
  <2>. QED
    BY <1>1, <2>1, CellFacts
<1>8. CASE phase \in {"publish", "reload"}
  <2>1. Written = [v \in {} |-> Erased]
    BY <1>8 DEF Written
  <2>. QED
    BY <2>1
<1>. QED
  BY <1>1, <1>2, <1>3, <1>4, <1>5, <1>6, <1>7, <1>8 DEF Phases

\* The flash keeps its type, however far the operation gets.
LEMMA UptoType ==
    ASSUME StoreInv, phase # "none", NEW at, NEW junk \in BOOLEAN
    PROVE  Upto(at, junk) \in [Units -> Cell]
<1>. SUFFICES ASSUME NEW u \in Units
              PROVE  Upto(at, junk)[u] \in Cell
  BY DEF Upto
<1>1. flash[u] \in Cell
  BY DEF StoreInv, TypeOK, WorldType
<1>2. u \in DOMAIN Written => Written[u] \in Cell
  BY WrittenType
<1>. QED
  BY <1>1, <1>2, CellFacts DEF Upto

\* A page built for a plan that holds is made of cells: what it copies lies in
\* the old extents of the files.
LEMMA BuildPageType ==
    ASSUME NEW fl \in [Units -> Cell], NEW pl, PlanSound(pl), NEW p
    PROVE  BuildPage(fl, pl.keep, pl.to, p) \in [PageUnits(p) -> Cell]
<1>. DEFINE keep == pl.keep
            to == pl.to
<1>. SUFFICES ASSUME NEW u \in PageUnits(p)
              PROVE  BuildPage(fl, keep, to, p)[u] \in Cell
  BY DEF BuildPage
<1>. DEFINE owners == { r \in keep : u \in Extent(to[r], Size(r)) }
            r == CHOOSE k \in owners : TRUE
<1>1. BuildPage(fl, keep, to, p)[u] =
         IF owners = {} THEN Erased
         ELSE IF u = to[r] THEN HeaderAnew(r, to[r])
         ELSE fl[u - to[r] + r.off]
  BY DEF BuildPage
<1>2. CASE owners = {}
  BY <1>1, <1>2, CellFacts
<1>3. CASE owners # {}
  <2>1. r \in owners
    BY <1>3
  <2>. HIDE DEF r
  <2>2. r \in File /\ to[r] \in Units /\ u \in Extent(to[r], Size(r))
    BY <2>1 DEF PlanSound, PlanHolds
  <2>3. r \in Rec /\ End(r) <= LogLen
    BY <2>2 DEF File
  <2>4. CASE u = to[r]
    <3>1. [r EXCEPT !.off = to[r], !.dead = FALSE] \in Rec /\ r.dead \in BOOLEAN
      BY <2>2, <2>3 DEF Rec
    <3>. QED
      BY <1>1, <1>3, <2>4, <3>1, CellFacts DEF HeaderAnew
  <2>5. CASE u # to[r]
    <3>1. u - to[r] + r.off \in Units
      BY <2>2, <2>3, RecFacts, LogFacts DEF Extent
    <3>. QED
      BY <1>1, <1>3, <2>5, <3>1
  <2>. QED
    BY <2>4, <2>5
<1>. QED
  BY <1>2, <1>3

-----------------------------------------------------------------------------
(* Where a transaction goes next.                                             *)

\* Nothing is compacting: there is nothing to be sound about.
LEMMA NotCompacting ==
    ASSUME phase \notin {"vacate", "rewrite", "sweep", "reload"}
    PROVE  CompactionSound
BY DEF CompactionSound, Compacting

\* The sweep goes to a page it may erase, or to the reload.
LEMMA SweepNext ==
    ASSUME NEW fl, NEW pl, PlanSound(pl), plan' = pl, GoSweep(fl, pl)
    PROVE  phase' \in {"sweep", "reload"} /\ CompactionSound'
<1>. DEFINE todo == { p \in SweepPages(pl.keep, pl.to, pl.oldEnd) : ~PageErased(fl, p) }
<1>1. /\ phase' = IF todo = {} THEN "reload" ELSE "sweep"
      /\ page' = IF todo = {} THEN 0 ELSE Min(todo)
  BY DEF GoSweep
<1>2. todo \in SUBSET Nat
  BY GeometryAssumption DEF SweepPages, Pages
<1>3. todo # {} => Min(todo) \in SweepPages(pl.keep, pl.to, pl.oldEnd)
  BY <1>2, MinExists
<1>. HIDE DEF todo
<1>4. PlanSound(plan')
  OBVIOUS
<1>. QED
  BY <1>1, <1>3, <1>4 DEF CompactionSound, PlanSound

\* The repack goes to a page that is not frozen, and builds it first.
LEMMA CompactNext ==
    ASSUME NEW fl \in [Units -> Cell], NEW pl, PlanSound(pl), plan' = pl,
           NEW from, GoCompact(fl, pl, from)
    PROVE  phase' \in {"vacate", "rewrite", "sweep", "reload"} /\ CompactionSound'
<1>. DEFINE Built(p) == BuildPage(fl, pl.keep, pl.to, p)
            todo == { p \in RepackPages(pl) :
                        p >= from /\ \E u \in PageUnits(p) : Built(p)[u] # fl[u] }
<1>1. CASE todo = {}
  <2>1. GoSweep(fl, pl)
    BY <1>1 DEF GoCompact
  <2>. QED
    BY <2>1, SweepNext
<1>2. CASE todo # {}
  <2>1. /\ page' = Min(todo) /\ buf' = Built(Min(todo))
        /\ phase' = IF PageErased(fl, Min(todo)) THEN "rewrite" ELSE "vacate"
    BY <1>2 DEF GoCompact
  <2>2. todo \in SUBSET Nat
    BY GeometryAssumption DEF Pages, RepackPages
  <2>3. Min(todo) \in Pages \ FrozenPages(pl.keep, pl.pinned)
    BY <1>2, <2>2, MinExists DEF RepackPages
  <2>. HIDE DEF todo
  <2>4. buf' \in [PageUnits(page') -> Cell]
    BY <2>1, BuildPageType
  <2>. QED
    BY <2>1, <2>3, <2>4 DEF CompactionSound, PlanSound, PageUnits
<1>. QED
  BY <1>1, <1>2

\* An append is of a file that lies within the log.
LEMMA AppendNext ==
    ASSUME NEW fl, NEW r \in Ram, NEW rec \in Rec, NEW old \in SUBSET File,
           NEW existed \in BOOLEAN, NEW off \in Units, off + Size(rec) <= LogLen,
           GoAppend(fl, r, rec, old, existed, off)
    PROVE  /\ job' \in [rec : Rec, old : SUBSET File, existed : BOOLEAN]
           /\ job'.rec \in File /\ phase' \in {"erase", "header"}
<1>. DEFINE placed == [rec EXCEPT !.off = off, !.stamp = r.nextStamp]
<1>1. job' = [rec |-> placed, old |-> old, existed |-> existed] /\ GoErase(fl, placed, 0)
  BY DEF GoAppend
<1>2. placed \in Rec
  BY DEF Rec, Ram
<1>3. End(placed) = off + Size(rec)
  BY DEF Rec, End, Size
<1>4. phase' \in {"erase", "header"}
  BY <1>1 DEF GoErase
<1>. QED
  BY <1>1, <1>2, <1>3, <1>4 DEF File

-----------------------------------------------------------------------------
(* The invariant holds initially and every action preserves it.               *)

\* A flash operation, lost or not, keeps the types of what it changes.
LEMMA OperateType ==
    ASSUME StoreInv, phase # "none", NEW lost \in BOOLEAN, Operate(lost)
    PROVE  flash' \in [Units -> Cell] /\ used' \in Used
<1>1. flash \in [Units -> Cell] /\ used \in Used
  BY DEF StoreInv, TypeOK, WorldType
<1>2. Upto(LogLen, FALSE) \in [Units -> Cell]
  BY UptoType
<1>3. flash' = (IF lost THEN flash ELSE Upto(LogLen, FALSE))
  BY DEF Operate
<1>4. used' = (IF lost THEN [used EXCEPT !.leases = @ + 1] ELSE used)
  BY DEF Operate
<1>5. [used EXCEPT !.leases = @ + 1] \in Used
  BY <1>1 DEF Used
<1>. QED
  BY <1>1, <1>2, <1>3, <1>4, <1>5

\* A promise that is widened or settled stays one.
LEMMA PromiseType ==
    ASSUME promise \in [Names -> SUBSET Versions], NEW n \in Names, NEW v \in Versions,
           Allow(n, {v}) \/ Settle(n, v)
    PROVE  promise' \in [Names -> SUBSET Versions]
BY DEF Allow, Settle

\* A task that answers leaves nothing behind.
LEMMA AnswerStep ==
    ASSUME StoreInv, NEW c \in Clients, Answer(c), WorldType'
    PROVE  StoreInv'
<1>1. /\ holder' = NoClient /\ phase' = "none"
      /\ req' = [req EXCEPT ![c] = Idle]
  BY DEF Answer
<1>2. req' \in [Clients -> Requests]
  BY <1>1 DEF StoreInv, TypeOK, TaskType, Requests
<1>3. TaskType'
  BY <1>1, <1>2 DEF TaskType, Phases, Appending
<1>4. CompactionSound'
  BY <1>1 DEF CompactionSound, Compacting
<1>. QED
  BY <1>3, <1>4 DEF StoreInv, TypeOK

\* A task that goes on with its save keeps its types.
LEMMA GoOnStep ==
    ASSUME StoreInv, WorldType', CompactionSound',
           holder' = holder, req' = req, phase \notin {"none", "delete"},
           phase' \in Phases \ {"none", "delete"},
           job' \in [rec : Rec, old : SUBSET File, existed : BOOLEAN],
           phase' \in {"erase", "header", "payload", "commit", "publish", "retire"} => job'.rec \in File,
           phase' = "retire" => job'.old # NoRec
    PROVE  StoreInv'
<1>1. TaskType'
  BY DEF StoreInv, TypeOK, TaskType, Appending
<1>. QED
  BY <1>1 DEF StoreInv, TypeOK

\* The store starts empty.
LEMMA StoreInit == Init => StoreInv
<1>. SUFFICES ASSUME Init PROVE StoreInv
  OBVIOUS
<1>1. flash \in [Units -> Cell]
  BY CellFacts DEF Init
<1>2. ram \in Ram
  BY <1>1, ReloadType DEF Init
<1>3. engine \in Engines /\ pins \in PinSlots /\ ota \in BOOLEAN
  BY DEF Init, Engines, PinSlots
<1>4. promise \in [Names -> SUBSET Versions] /\ used \in Used
  BY StoreAssumption DEF Init, Used, Versions
<1>5. TaskType
  BY DEF Init, TaskType, Requests, Phases, Appending
<1>6. CompactionSound
  BY NotCompacting DEF Init
<1>. QED
  BY <1>1, <1>2, <1>3, <1>4, <1>5, <1>6 DEF StoreInv, TypeOK, WorldType

\* A request of a task that has none.
LEMMA AskStep ==
    ASSUME StoreInv, NEW c \in Clients, Request(c)
    PROVE  StoreInv'
<1>. USE DEF StoreInv, TypeOK
<1>1. /\ UNCHANGED <<flash, ram, ota, holder, engine, pins, promise>>
      /\ UNCHANGED locals /\ req[c] = Idle
  BY DEF Request, RequestSave, RequestDelete, RequestGet
<1>2. \E q \in Requests : req' = [req EXCEPT ![c] = q]
  <2>1. CASE RequestSave(c)
    <3>1. PICK name \in Names, len \in Lens :
             /\ used.saves < MaxSaves
             /\ req' = [req EXCEPT ![c] = [op |-> "save", name |-> name, len |-> len,
                                          ver |-> used.saves + 1]]
      BY <2>1 DEF RequestSave
    <3>2. used.saves + 1 \in Versions
      BY <3>1, StoreAssumption DEF WorldType, Used, Versions
    <3>. QED
      BY <3>1, <3>2 DEF Requests
  <2>2. CASE RequestDelete(c) \/ RequestGet(c)
    <3>1. PICK r \in ram.index : \E op \in {"delete", "get"} :
             req' = [req EXCEPT ![c] = [op |-> op, rec |-> r]]
      BY <2>2 DEF RequestDelete, RequestGet
    <3>2. r \in File
      BY DEF WorldType, Ram
    <3>. QED
      BY <3>1, <3>2 DEF Requests
  <2>. QED
    BY <2>1, <2>2 DEF Request
<1>3. used' \in Used
  BY StoreAssumption DEF Request, RequestSave, RequestDelete, RequestGet, WorldType, Used, Versions
<1>4. WorldType'
  BY <1>1, <1>3 DEF WorldType
<1>5. TaskType'
  <2>1. req' \in [Clients -> Requests] /\ \A d \in Clients \ {c} : req'[d] = req[d]
    BY <1>2 DEF TaskType
  <2>2. phase # "none" => holder # c /\ holder \in Clients
    BY <1>1 DEF TaskType, Idle
  <2>. QED
    BY <1>1, <2>1, <2>2 DEF TaskType, Appending, locals
<1>6. CompactionSound'
  BY <1>1 DEF locals, CompactionSound, Compacting, PlanSound
<1>. QED
  BY <1>4, <1>5, <1>6

\* A task that is answered without the guard.
LEMMA TurnedAwayStep ==
    ASSUME StoreInv, NEW c \in Clients, GiveUp(c) \/ GetCopy(c)
    PROVE  StoreInv'
<1>. USE DEF StoreInv, TypeOK
<1>1. /\ UNCHANGED <<flash, ram, ota, holder, engine, pins, promise, used>>
      /\ UNCHANGED locals
      /\ holder # c /\ req' = [req EXCEPT ![c] = Idle]
  BY StoreAssumption DEF GiveUp, GetCopy, GuardFree, rest
<1>2. WorldType'
  BY <1>1 DEF WorldType
<1>3. TaskType'
  <2>1. req' \in [Clients -> Requests] /\ \A d \in Clients \ {c} : req'[d] = req[d]
    BY <1>1 DEF TaskType, Requests
  <2>. QED
    BY <1>1, <2>1 DEF TaskType, Appending, locals
<1>4. CompactionSound'
  BY <1>1 DEF locals, CompactionSound, Compacting, PlanSound
<1>. QED
  BY <1>2, <1>3, <1>4

\* The render task moves engines and pins only.
LEMMA RenderStep ==
    ASSUME StoreInv, Render
    PROVE  StoreInv'
<1>. USE DEF StoreInv, TypeOK
<1>1. UNCHANGED <<flash, ram, ota, req, holder, promise>> /\ UNCHANGED locals
  BY DEF Render, SwapPin, SwapDecode, SwapInstall, FadeEnd
<1>2. ram.index \subseteq File /\ \A r \in File : r.seq \in Nat
  BY DEF WorldType, Ram, File, Rec
<1>3. engine \in Engines /\ pins \in PinSlots /\ used \in Used
  BY DEF WorldType
<1>4. engine' \in Engines /\ pins' \in PinSlots /\ used' \in Used
  <2>1. CASE SwapPin
    <3>1. PICK r \in ram.index, fade \in BOOLEAN :
             /\ pins' = [pins EXCEPT !.code = {r.seq},
                            !.prev = IF fade /\ engine.run # {} THEN pins.running ELSE {}]
             /\ engine' = [engine EXCEPT !.prev = {}, !.run = IF fade THEN @ ELSE {}]
             /\ used' = [used EXCEPT !.swaps = @ + 1]
      BY <2>1 DEF SwapPin
    <3>2. r.seq \in Nat
      BY <1>2
    <3>. QED
      <4>. DEFINE run == IF fade THEN engine.run ELSE {}
                  prev == IF fade /\ engine.run # {} THEN pins.running ELSE {}
      <4>1. run \in SUBSET File /\ prev \in SUBSET Nat /\ {r.seq} \in SUBSET Nat
        BY <1>3, <3>2 DEF Engines, PinSlots
      <4>2. /\ pins' = [pins EXCEPT !.code = {r.seq}, !.prev = prev]
            /\ engine' = [engine EXCEPT !.prev = {}, !.run = run]
        BY <1>3, <3>1 DEF Engines
      <4>. HIDE DEF run, prev
      <4>3. pins' \in PinSlots
        BY <1>3, <4>1, <4>2 DEF PinSlots
      <4>4. engine' \in Engines
        BY <1>3, <4>1, <4>2 DEF Engines
      <4>. QED
        BY <1>3, <3>1, <4>3, <4>4 DEF Used
  <2>2. CASE SwapDecode
    <3>. DEFINE seq == The(pins.code)
                found == RecBySeq(ram.index, seq)
    <3>1. pins.code # {} /\ used' = used
      BY <2>2 DEF SwapDecode, Swapping
    <3>2. seq \in Nat
      <4>1. The(pins.code) \in pins.code
        BY <3>1, Zenon DEF The
      <4>. QED
        BY <1>3, <4>1 DEF PinSlots
    <3>3. found \subseteq File
      BY <1>2 DEF RecBySeq
    <3>. HIDE DEF seq, found
    <3>4. \/ pins' = [pins EXCEPT !.code = {}, !.prev = {}] /\ engine' = engine
          \/ engine' = [engine EXCEPT !.decoding = found] /\ pins' = [pins EXCEPT !.current = {seq}]
      BY <2>2 DEF SwapDecode, seq, found
    <3>5. {} \in SUBSET Nat /\ {seq} \in SUBSET Nat /\ found \in SUBSET File
      BY <3>2, <3>3
    <3>6. pins' \in PinSlots
      BY <1>3, <3>4, <3>5 DEF PinSlots
    <3>7. engine' \in Engines
      BY <1>3, <3>4, <3>5 DEF Engines
    <3>. QED
      BY <1>3, <3>1, <3>6, <3>7
  <2>3. CASE SwapInstall
    BY <1>3, <2>3 DEF SwapInstall, Engines, PinSlots
  <2>4. CASE FadeEnd
    BY <1>3, <2>4 DEF FadeEnd, Engines, PinSlots
  <2>. QED
    BY <2>1, <2>2, <2>3, <2>4 DEF Render
<1>5. WorldType'
  BY <1>1, <1>4 DEF WorldType
<1>6. TaskType'
  BY <1>1 DEF TaskType, Appending, locals
<1>7. CompactionSound'
  BY <1>1 DEF locals, CompactionSound, Compacting, PlanSound
<1>. QED
  BY <1>5, <1>6, <1>7

\* An update begins or fails.
LEMMA OtaStep ==
    ASSUME StoreInv, OtaBegin \/ OtaEnd
    PROVE  StoreInv'
<1>. USE DEF StoreInv, TypeOK
<1>1. UNCHANGED <<flash, ram, req, holder, promise, engine, pins>> /\ UNCHANGED locals
  BY DEF OtaBegin, OtaEnd, rest
<1>2. ota' \in BOOLEAN /\ used' \in Used
  <2>1. used \in Used
    BY DEF WorldType
  <2>2. CASE OtaBegin
    BY <2>1, <2>2 DEF OtaBegin, Used
  <2>3. CASE OtaEnd
    BY <2>1, <2>3 DEF OtaEnd, rest
  <2>. QED
    BY <2>2, <2>3
<1>3. WorldType'
  BY <1>1, <1>2 DEF WorldType
<1>4. TaskType'
  BY <1>1 DEF TaskType, Appending, locals
<1>5. CompactionSound'
  BY <1>1 DEF locals, CompactionSound, Compacting, PlanSound
<1>. QED
  BY <1>3, <1>4, <1>5

\* The power fails and the device boots from what the flash holds.
LEMMA PowerCutStep ==
    ASSUME StoreInv, PowerCut
    PROVE  StoreInv'
<1>. USE DEF StoreInv, TypeOK
<1>1. PICK fl \in Torn : Boot(fl)
  BY DEF PowerCut
<1>2. fl \in [Units -> Cell]
  <2>1. \E at : fl = Upto(at, FALSE) \/ fl = Upto(at, TRUE)
    BY <1>1, Zenon DEF Torn
  <2>2. CASE phase # "none"
    <3>1. \A at : Upto(at, FALSE) \in [Units -> Cell] /\ Upto(at, TRUE) \in [Units -> Cell]
      BY <2>2, UptoType
    <3>. QED
      BY <2>1, <3>1
  <2>3. CASE phase = "none"
    <3>1. Written = [u \in {} |-> Erased]
      BY <2>3 DEF Written
    <3>2. flash \in [Units -> Cell] /\ Junk \in Cell
      BY CellFacts DEF WorldType
    <3>. QED
      BY <2>1, <3>1, <3>2 DEF Upto
  <2>. QED
    BY <2>2, <2>3
<1>3. /\ flash' = fl /\ ram' = ReloadOf(fl) /\ ota' = FALSE
      /\ req' = [c \in Clients |-> Idle] /\ holder' = NoClient /\ phase' = "none"
      /\ engine' = [run |-> {}, prev |-> {}, decoding |-> {}]
      /\ pins' = [code |-> {}, running |-> {}, prev |-> {}, current |-> {}]
  BY <1>1 DEF Boot
<1>4. ram' \in Ram
  BY <1>2, <1>3, ReloadType
<1>5. used' \in Used
  BY DEF PowerCut, WorldType, Used
<1>6. promise' \in [Names -> SUBSET Versions]
  <2>. DEFINE Lost(n) == IF n \in { r.name : r \in Exposed } THEN Versions ELSE {}
              Saved(n) == IF (Appending \/ phase = "retire") /\ n = job.rec.name
                          THEN {job.rec.ver} ELSE {}
              Gone(n) == IF phase = "delete" /\ n = job.rec.name THEN {0} ELSE {}
  <2>1. promise' = [n \in Names |-> promise[n] \cup Lost(n) \cup Saved(n) \cup Gone(n)]
    BY DEF PowerCut
  <2>2. \A n \in Names : Lost(n) \subseteq Versions /\ Gone(n) \subseteq Versions
    BY StoreAssumption DEF Versions
  <2>3. \A n \in Names : Saved(n) \subseteq Versions
    BY DEF TaskType, Appending, File, Rec
  <2>4. promise \in [Names -> SUBSET Versions]
    BY DEF WorldType
  <2>. HIDE DEF Lost, Saved, Gone
  <2>. QED
    BY <2>1, <2>2, <2>3, <2>4
<1>7. WorldType'
  BY <1>2, <1>3, <1>4, <1>5, <1>6 DEF WorldType, Engines, PinSlots
<1>8. TaskType'
  BY <1>3 DEF TaskType, Requests, Phases, Appending
<1>9. CompactionSound'
  BY <1>3 DEF CompactionSound, Compacting
<1>. QED
  BY <1>7, <1>8, <1>9

\* The guard is taken for a save: an append begins, or a compaction, or neither.
LEMMA BeginSaveStep ==
    ASSUME StoreInv, NEW c \in Clients, BeginSave(c)
    PROVE  StoreInv'
<1>. USE DEF StoreInv, TypeOK
<1>. DEFINE q == req[c]
            old == RecByName(q.name)
            seq == IF old = NoRec THEN ram.nextSeq ELSE The(old).seq
            off == FindPlace(flash, ram, 1 + q.len)
            pl == CompactionPlan
            rec == [ off |-> 0, name |-> q.name, seq |-> seq, stamp |-> 0,
                     ver |-> q.ver, len |-> q.len, dead |-> FALSE ]
<1>1. /\ q.op = "save" /\ holder = NoClient
      /\ UNCHANGED <<flash, ram, ota, engine, pins, promise, used>>
  BY DEF BeginSave, GuardFree, rest
<1>2. q.name \in Names /\ q.len \in Lens /\ q.ver \in Versions
  BY <1>1 DEF TaskType, Requests, Idle
<1>3. WorldType' /\ flash \in [Units -> Cell] /\ ram \in Ram /\ ram.index \subseteq File
  BY <1>1 DEF WorldType, Ram
<1>4. old \in SUBSET File /\ seq \in Nat
  <2>1. old \in SUBSET File
    BY <1>3 DEF RecByName
  <2>. HIDE DEF old
  <2>. QED
    BY <2>1, <1>3, TheOld DEF Ram, File, Rec
<1>5. rec \in Rec /\ Size(rec) = 1 + q.len /\ 1 + q.len \in Nat \ {0}
  <2>. HIDE DEF seq
  <2>. HIDE DEF q
  <2>1. \A n \in Lens : n \in Nat /\ 1 + n \in Nat \ {0}
    BY StoreAssumption
  <2>. QED
    BY <2>1, <1>2, <1>4, LogFacts DEF Rec, Size
<1>6. \/ req' = [req EXCEPT ![c] = Idle] /\ UNCHANGED <<holder, locals>>
      \/ /\ off # NoPlace /\ holder' = c /\ req' = req
         /\ GoAppend(flash, ram, rec, old, old # NoRec, off)
      \/ /\ ~Refused(pl, 1 + q.len) /\ holder' = c /\ req' = req
         /\ job' = [rec |-> rec, old |-> old, existed |-> old # NoRec]
         /\ plan' = pl /\ GoCompact(flash, pl, 0)
  BY DEF BeginSave
<1>. HIDE DEF old, seq, off, pl, rec
<1>7. CASE req' = [req EXCEPT ![c] = Idle] /\ UNCHANGED <<holder, locals>>
  <2>1. TaskType'
    BY <1>1, <1>7 DEF TaskType, Requests, locals, Appending
  <2>2. CompactionSound'
    BY <1>7 DEF locals, CompactionSound, Compacting, PlanSound
  <2>. QED
    BY <1>3, <2>1, <2>2
<1>8. CASE /\ off # NoPlace /\ holder' = c /\ req' = req
           /\ GoAppend(flash, ram, rec, old, old # NoRec, off)
  <2>1. off \in Units /\ off + Size(rec) <= LogLen
    BY <1>3, <1>5, <1>8, FindPlaceFits DEF off
  <2>2. (old # NoRec) \in BOOLEAN
    OBVIOUS
  <2>3. /\ job' \in [rec : Rec, old : SUBSET File, existed : BOOLEAN]
        /\ job'.rec \in File /\ phase' \in {"erase", "header"}
    BY <1>3, <1>4, <1>5, <1>8, <2>1, <2>2, AppendNext
  <2>4. TaskType'
    BY <1>1, <1>8, <2>3, StoreAssumption DEF TaskType, Appending, Phases, q
  <2>5. CompactionSound'
    BY <2>3 DEF CompactionSound, Compacting
  <2>. QED
    BY <1>3, <2>4, <2>5
<1>9. CASE /\ ~Refused(pl, 1 + q.len) /\ holder' = c /\ req' = req
           /\ job' = [rec |-> rec, old |-> old, existed |-> old # NoRec]
           /\ plan' = pl /\ GoCompact(flash, pl, 0)
  <2>1. PlanSound(pl)
    <3>1. pl.keep \subseteq File
      BY <1>3, EmittedFiles DEF pl, CompactionPlan
    <3>. QED
      BY <1>9, <3>1 DEF Refused, PlanSound
  <2>2. phase' \in {"vacate", "rewrite", "sweep", "reload"} /\ CompactionSound'
    BY <1>3, <1>9, <2>1, CompactNext
  <2>3. job' \in [rec : Rec, old : SUBSET File, existed : BOOLEAN]
    BY <1>4, <1>5, <1>9
  <2>4. TaskType'
    BY <1>1, <1>9, <2>2, <2>3, StoreAssumption DEF TaskType, Appending, Phases, q
  <2>. QED
    BY <1>3, <2>2, <2>4
<1>. QED
  BY <1>6, <1>7, <1>8, <1>9

\* One flash operation of a compaction.
LEMMA CompactionStep ==
    ASSUME StoreInv, NEW c \in Clients, NEW lost \in BOOLEAN,
           VacateOp(c, lost) \/ RewriteOp(c, lost) \/ SweepOp(c, lost)
    PROVE  StoreInv'
<1>. USE DEF StoreInv, TypeOK
<1>1. /\ phase \in {"vacate", "rewrite", "sweep"} /\ Operate(lost)
      /\ UNCHANGED <<ram, ota, req, holder, job, plan, engine, pins, promise>>
  BY DEF VacateOp, RewriteOp, SweepOp
<1>2. flash' \in [Units -> Cell] /\ used' \in Used
  BY <1>1, OperateType
<1>3. WorldType'
  BY <1>1, <1>2 DEF WorldType
<1>4. PlanSound(plan) /\ plan' = plan
  BY <1>1 DEF CompactionSound, Compacting
<1>5. phase' \in {"vacate", "rewrite", "sweep", "reload"} /\ CompactionSound'
  <2>1. CASE GoSweep(flash', plan)
    BY <1>4, <2>1, SweepNext
  <2>2. CASE GoCompact(flash', plan, page + 1)
    BY <1>2, <1>4, <2>2, CompactNext
  <2>3. CASE phase = "vacate" /\ phase' = "rewrite" /\ UNCHANGED <<page, buf>>
    <3>1. buf \in [PageUnits(page) -> Cell] /\ page \in Pages \ FrozenPages(plan.keep, plan.pinned)
      BY <2>3 DEF CompactionSound
    <3>. QED
      BY <1>4, <2>3, <3>1 DEF CompactionSound, PlanSound, PageUnits
  <2>4. CASE phase' = "reload"
    BY <1>4, <2>4 DEF CompactionSound, PlanSound
  <2>. QED
    BY <2>1, <2>2, <2>3, <2>4 DEF VacateOp, RewriteOp, SweepOp
<1>6. job' \in [rec : Rec, old : SUBSET File, existed : BOOLEAN]
  BY <1>1 DEF TaskType
<1>. QED
  BY <1>1, <1>3, <1>5, <1>6, GoOnStep DEF Phases

\* The RAM state is rebuilt and the append begins, or the save is answered.
LEMMA ReloadStep ==
    ASSUME StoreInv, NEW c \in Clients, Reload(c)
    PROVE  StoreInv'
<1>. USE DEF StoreInv, TypeOK
<1>. DEFINE off == FindPlace(flash, ram', Size(job.rec))
            old == OldVersion(ram'.index)
<1>1. /\ phase = "reload" /\ ram' = ReloadOf(flash)
      /\ UNCHANGED <<flash, ota, engine, pins, promise, used>>
  BY DEF Reload, rest
<1>2. ram' \in Ram
  BY <1>1, ReloadType DEF WorldType
<1>3. WorldType'
  BY <1>1, <1>2 DEF WorldType
<1>4. \/ Answer(c)
      \/ /\ off # NoPlace /\ UNCHANGED <<holder, req>>
         /\ GoAppend(flash, ram', job.rec, old, job.existed, off)
  BY DEF Reload
<1>5. CASE Answer(c)
  BY <1>3, <1>5, AnswerStep
<1>6. CASE /\ off # NoPlace /\ UNCHANGED <<holder, req>>
           /\ GoAppend(flash, ram', job.rec, old, job.existed, off)
  <2>1. job.rec \in Rec /\ job.old \in SUBSET File /\ job.existed \in BOOLEAN
    BY <1>1 DEF TaskType
  <2>2. old \in SUBSET File
    BY <1>2 DEF Ram, OldVersion, RecBySeq, NoRec
  <2>3. Size(job.rec) \in Nat \ {0}
    BY <2>1, RecFacts
  <2>4. off \in Units /\ off + Size(job.rec) <= LogLen
    BY <1>2, <1>6, <2>3, FindPlaceFits
  <2>. HIDE DEF off, old
  <2>5. /\ job' \in [rec : Rec, old : SUBSET File, existed : BOOLEAN]
        /\ job'.rec \in File /\ phase' \in {"erase", "header"}
    BY <1>2, <1>6, <2>1, <2>2, <2>4, AppendNext
  <2>6. CompactionSound'
    BY <2>5 DEF CompactionSound, Compacting
  <2>. QED
    BY <1>1, <1>3, <1>6, <2>5, <2>6, GoOnStep DEF Phases
<1>. QED
  BY <1>4, <1>5, <1>6

\* One write of an append.
LEMMA AppendStep ==
    ASSUME StoreInv, NEW c \in Clients, NEW lost \in BOOLEAN, AppendOp(c, lost)
    PROVE  StoreInv'
<1>. USE DEF StoreInv, TypeOK
<1>1. /\ phase \in {"erase", "header", "payload", "commit"}
      /\ UNCHANGED <<ram, ota, engine, pins>>
  BY DEF AppendOp, Appending
<1>2. job \in [rec : Rec, old : SUBSET File, existed : BOOLEAN] /\ job.rec \in File
  BY <1>1 DEF TaskType, Appending
<1>3. job.rec.name \in Names /\ job.rec.ver \in Versions
  BY <1>2 DEF Rec
<1>4. flash' \in [Units -> Cell] /\ used' \in Used
  <2>1. Operate(lost) \/ UNCHANGED <<flash, used>>
    BY DEF AppendOp
  <2>2. UNCHANGED <<flash, used>> => flash' \in [Units -> Cell] /\ used' \in Used
    BY DEF WorldType
  <2>. QED
    BY <1>1, <2>1, <2>2, OperateType
<1>5. \/ Answer(c) /\ Allow(job.rec.name, {job.rec.ver})
      \/ NextStep /\ UNCHANGED <<req, holder, job, plan, buf, promise>>
  BY DEF AppendOp
<1>6. CASE Answer(c) /\ Allow(job.rec.name, {job.rec.ver})
  <2>1. promise' \in [Names -> SUBSET Versions]
    BY <1>3, <1>6, PromiseType DEF WorldType
  <2>2. WorldType'
    BY <1>1, <1>4, <2>1 DEF WorldType
  <2>. QED
    BY <1>6, <2>2, AnswerStep
<1>7. CASE NextStep /\ UNCHANGED <<req, holder, job, plan, buf, promise>>
  <2>1. phase' \in {"erase", "header", "payload", "commit", "publish"}
    BY <1>1, <1>7 DEF NextStep, GoErase
  <2>2. WorldType'
    BY <1>1, <1>4, <1>7 DEF WorldType
  <2>3. CompactionSound'
    BY <2>1 DEF CompactionSound, Compacting
  <2>. QED
    BY <1>1, <1>2, <1>7, <2>1, <2>2, <2>3, GoOnStep DEF Phases
<1>. QED
  BY <1>5, <1>6, <1>7

\* The index moves to the new file.
LEMMA PublishStep ==
    ASSUME StoreInv, NEW c \in Clients, Publish(c)
    PROVE  StoreInv'
<1>. USE DEF StoreInv, TypeOK
<1>. DEFINE rec == job.rec
            index == Replaced(ram.index, rec)
            cursor == IF ram.cursor < End(rec) THEN End(rec) ELSE ram.cursor
            hint == IF End(rec) <= ram.cursor THEN End(rec) ELSE ram.freeHint
            next == IF job.existed THEN ram.nextSeq ELSE rec.seq + 1
<1>1. phase = "publish" /\ UNCHANGED <<flash, ota, engine, pins, used>>
  BY DEF Publish
<1>2. job \in [rec : Rec, old : SUBSET File, existed : BOOLEAN] /\ rec \in File /\ ram \in Ram
  BY <1>1 DEF TaskType, WorldType, Appending
<1>3. rec.name \in Names /\ rec.ver \in Versions /\ rec.seq \in Nat /\ rec.stamp \in Nat
  BY <1>2 DEF File, Rec
<1>4. ram' = [ram EXCEPT !.index = index, !.cursor = cursor, !.freeHint = hint,
                         !.nextStamp = StampAfter(rec), !.nextSeq = next]
  BY <1>2 DEF Publish, Ram
<1>5. ram' \in Ram
  <2>1. index \in SUBSET File /\ StampAfter(rec) \in Nat
    BY <1>2, <1>3 DEF Ram, Replaced, StampAfter
  <2>2. End(rec) \in 0 .. LogLen
    BY <1>2, RecFacts, LogFacts DEF File
  <2>3. cursor \in 0 .. LogLen /\ hint \in 0 .. LogLen
    <3>1. ram.cursor \in 0 .. LogLen /\ ram.freeHint \in 0 .. LogLen
      BY <1>2 DEF Ram
    <3>. QED
      BY <2>2, <3>1
  <2>4. next \in Nat
    BY <1>2, <1>3 DEF Ram
  <2>. HIDE DEF rec, index, cursor, hint, next
  <2>. QED
    BY <1>2, <1>4, <2>1, <2>3, <2>4 DEF Ram
<1>6. \/ Answer(c) /\ Settle(rec.name, rec.ver)
      \/ /\ job.old # NoRec /\ phase' = "retire"
         /\ UNCHANGED <<req, holder, job, plan, page, buf, promise>>
  BY DEF Publish
<1>7. CASE Answer(c) /\ Settle(rec.name, rec.ver)
  <2>1. promise' \in [Names -> SUBSET Versions]
    BY <1>3, <1>7, PromiseType DEF WorldType
  <2>2. WorldType'
    BY <1>1, <1>5, <2>1 DEF WorldType
  <2>. QED
    BY <1>7, <2>2, AnswerStep
<1>8. CASE /\ job.old # NoRec /\ phase' = "retire"
           /\ UNCHANGED <<req, holder, job, plan, page, buf, promise>>
  <2>1. WorldType'
    BY <1>1, <1>5, <1>8 DEF WorldType
  <2>2. CompactionSound'
    BY <1>8 DEF CompactionSound, Compacting
  <2>. QED
    BY <1>1, <1>2, <1>8, <2>1, <2>2, GoOnStep DEF Phases
<1>. QED
  BY <1>6, <1>7, <1>8

\* A delete takes the guard.
LEMMA BeginDeleteStep ==
    ASSUME StoreInv, NEW c \in Clients, BeginDelete(c)
    PROVE  StoreInv'
<1>. USE DEF StoreInv, TypeOK
<1>1. /\ req[c].op = "delete" /\ holder' = c /\ phase' = "delete"
      /\ job' = [rec |-> req[c].rec, old |-> {req[c].rec}, existed |-> TRUE]
      /\ UNCHANGED <<flash, ram, ota, req, plan, page, buf, engine, pins, promise, used>>
  BY DEF BeginDelete, rest
<1>2. req[c].rec \in File
  BY <1>1 DEF TaskType, Requests, Idle
<1>3. WorldType'
  BY <1>1 DEF WorldType
<1>4. job' \in [rec : Rec, old : SUBSET File, existed : BOOLEAN] /\ job'.old # NoRec
  BY <1>1, <1>2 DEF File, NoRec
<1>5. TaskType'
  BY <1>1, <1>4, StoreAssumption DEF TaskType, Phases, Appending
<1>6. CompactionSound'
  BY <1>1 DEF CompactionSound, Compacting
<1>. QED
  BY <1>3, <1>5, <1>6

\* A dead word is written, and the request it belongs to is answered.
LEMMA DeadWordStep ==
    ASSUME StoreInv, NEW c \in Clients, NEW lost \in BOOLEAN,
           RetireOp(c, lost) \/ DeleteOp(c, lost)
    PROVE  StoreInv'
<1>. USE DEF StoreInv, TypeOK
<1>1. /\ phase \in {"retire", "delete"} /\ Operate(lost) /\ Answer(c)
      /\ UNCHANGED <<ota, engine, pins>>
  BY DEF RetireOp, DeleteOp
<1>2. flash' \in [Units -> Cell] /\ used' \in Used
  BY <1>1, OperateType
<1>3. job.rec.name \in Names /\ job.rec.ver \in Versions /\ 0 \in Versions
  BY <1>1, StoreAssumption DEF TaskType, Rec, Versions
<1>4. promise' \in [Names -> SUBSET Versions]
  <2>1. \E v \in Versions : Allow(job.rec.name, {v}) \/ Settle(job.rec.name, v)
    BY <1>3 DEF RetireOp, DeleteOp
  <2>. QED
    BY <1>3, <2>1, PromiseType DEF WorldType
<1>5. ram' \in Ram
  <2>1. ram \in Ram
    BY DEF WorldType
  <2>2. \/ ram' = ram
        \/ ram' = [ram EXCEPT !.index = Removed(@, job.rec.seq)]
    BY DEF RetireOp, DeleteOp
  <2>. QED
    BY <2>1, <2>2 DEF Ram, Removed
<1>6. WorldType'
  BY <1>1, <1>2, <1>4, <1>5 DEF WorldType
<1>. QED
  BY <1>1, <1>6, AnswerStep

\* Every step preserves the invariant.
LEMMA StoreStep == StoreInv /\ [Next]_vars => StoreInv'
<1>. SUFFICES ASSUME StoreInv, [Next]_vars
              PROVE  StoreInv'
  OBVIOUS
<1>1. ASSUME NEW c \in Clients, Request(c)
      PROVE  StoreInv'
  BY <1>1, AskStep
<1>2. ASSUME NEW c \in Clients, Serve(c)
      PROVE  StoreInv'
  <2>1. CASE GiveUp(c) \/ GetCopy(c)
    BY <2>1, TurnedAwayStep
  <2>2. CASE BeginSave(c)
    BY <2>2, BeginSaveStep
  <2>3. CASE Reload(c)
    BY <2>3, ReloadStep
  <2>4. CASE Publish(c)
    BY <2>4, PublishStep
  <2>5. CASE BeginDelete(c)
    BY <2>5, BeginDeleteStep
  <2>6. ASSUME NEW lost \in BOOLEAN, VacateOp(c, lost) \/ RewriteOp(c, lost) \/ SweepOp(c, lost)
        PROVE  StoreInv'
    BY <2>6, CompactionStep
  <2>7. ASSUME NEW lost \in BOOLEAN, AppendOp(c, lost)
        PROVE  StoreInv'
    BY <2>7, AppendStep
  <2>8. ASSUME NEW lost \in BOOLEAN, RetireOp(c, lost) \/ DeleteOp(c, lost)
        PROVE  StoreInv'
    BY <2>8, DeadWordStep
  <2>. QED
    BY <1>2, <2>1, <2>2, <2>3, <2>4, <2>5, <2>6, <2>7, <2>8 DEF Serve
<1>3. CASE Render
  BY <1>3, RenderStep
<1>4. CASE OtaBegin \/ OtaEnd
  BY <1>4, OtaStep
<1>5. CASE PowerCut
  BY <1>5, PowerCutStep
<1>6. CASE UNCHANGED vars
  <2>1. UNCHANGED <<flash, ram, ota, req, holder, engine, pins, promise, used>> /\ UNCHANGED locals
    BY <1>6 DEF vars, rest
  <2>. QED
    BY <2>1 DEF StoreInv, TypeOK, WorldType, TaskType, Appending, locals,
                CompactionSound, Compacting, PlanSound
<1>. QED
  BY <1>1, <1>2, <1>3, <1>4, <1>5, <1>6 DEF Next

\* The inductive invariant of the store holds in every state.
THEOREM StoreInvariant == Spec => []StoreInv
<1>. QED
  BY StoreInit, StoreStep, PTL DEF Spec

\* In every state the RAM state, the flash and the locals of the transaction
\* have their types, and no file reaches past the end of the log.
THEOREM StoreTypes == Spec => []TypeOK
<1>1. StoreInv => TypeOK
  BY DEF StoreInv
<1>. QED
  BY <1>1, StoreInvariant, PTL

\* In every state the plan of a compaction under way still holds, and the page
\* it is about is neither frozen nor needed.
THEOREM StoreCompactionSound == Spec => []CompactionSound
<1>1. StoreInv => CompactionSound
  BY DEF StoreInv
<1>. QED
  BY <1>1, StoreInvariant, PTL

-----------------------------------------------------------------------------
(* A compaction leaves the pages of the files it saw pinned alone.            *)

\* The flash operation due in a compaction writes no unit of a frozen page: a
\* repacked page is not frozen, and a swept one lies above every file that stays.
LEMMA NothingFrozenWritten ==
    ASSUME StoreInv, Compacting,
           NEW p \in FrozenPages(plan.keep, plan.pinned), NEW u \in PageUnits(p)
    PROVE  u \notin DOMAIN Written
<1>1. u \in Units /\ PageOf(u) = p
  BY DEF PageUnits
<1>2. CASE phase \in {"vacate", "rewrite"}
  <2>1. page \notin FrozenPages(plan.keep, plan.pinned)
    BY <1>2 DEF StoreInv, CompactionSound
  <2>2. DOMAIN Written = PageUnits(page)
    BY <1>2 DEF Written
  <2>. QED
    BY <1>1, <2>1, <2>2 DEF PageUnits
<1>3. CASE phase = "sweep"
  <2>1. page \in SweepPages(plan.keep, plan.to, plan.oldEnd) /\ PlanSound(plan)
    BY <1>3 DEF StoreInv, CompactionSound
  <2>2. DOMAIN Written = PageUnits(page)
    BY <1>3 DEF Written
  <2>3. PICK r \in plan.keep : r.seq \in plan.pinned /\ p \in PagesOf(r.off, Size(r))
    BY DEF FrozenPages
  <2>4. PICK v \in Extent(r.off, Size(r)) : p = PageOf(v)
    BY <2>3 DEF PagesOf
  <2>5. r.off \in Nat /\ Size(r) \in Nat
    BY <2>1, RecFacts DEF PlanSound, File
  <2>6. plan.to[r] = r.off
    BY <2>1, <2>3 DEF PlanSound, PlanHolds
  <2>7. r.off + Size(r) <= page * PageSize /\ page \in Nat
    BY <2>1, <2>6, LogFacts DEF SweepPages, Pages
  <2>8. v \in Nat /\ v < r.off + Size(r)
    BY <2>4, <2>5 DEF Extent
  <2>9. p \in Nat /\ p * PageSize <= v
    BY <2>4, <2>8, OnItsPage
  <2>10. page # p
    <3>. SUFFICES ASSUME page = p PROVE FALSE
      OBVIOUS
    <3>. DEFINE start == p * PageSize
    <3>1. start \in Nat
      BY <2>9, GeometryAssumption
    <3>2. r.off + Size(r) <= start /\ start <= v
      BY <2>7, <2>9
    <3>. HIDE DEF start
    <3>. QED
      BY <2>5, <2>8, <3>1, <3>2
  <2>. QED
    BY <1>1, <2>2, <2>10 DEF PageUnits
<1>4. CASE phase = "reload"
  BY <1>4 DEF Written
<1>. QED
  BY <1>2, <1>3, <1>4 DEF Compacting

\* What is not written stays, whether the operation completes or is cut short.
LEMMA UntouchedStays ==
    ASSUME NEW u \in Units, u \notin DOMAIN Written
    PROVE  /\ \A at : Upto(at, FALSE)[u] = flash[u]
           /\ \A fl \in Torn : fl[u] = flash[u]
<1>1. \A at : Upto(at, FALSE)[u] = flash[u]
  BY DEF Upto
<1>2. ASSUME NEW fl \in Torn
      PROVE  fl[u] = flash[u]
  <2>1. CASE \E at : fl = Upto(at, FALSE)
    BY <1>1, <2>1
  <2>2. CASE \E at \in DOMAIN Written : fl = Upto(at, TRUE)
    BY <2>2 DEF Upto
  <2>. QED
    BY <2>1, <2>2, Zenon DEF Torn
<1>. QED
  BY <1>1, <1>2

\* While a compaction runs, a step leaves the flash as it is, or carries out the
\* operation that is due, in part when the power fails.
LEMMA CompactingStep ==
    ASSUME StoreInv, Compacting, [Next]_vars
    PROVE  flash' = flash \/ flash' = Upto(LogLen, FALSE) \/ flash' \in Torn
<1>1. ASSUME NEW c \in Clients, Serve(c)
      PROVE  flash' = flash \/ flash' = Upto(LogLen, FALSE)
  <2>1. CASE GiveUp(c) \/ GetCopy(c) \/ BeginSave(c) \/ Reload(c) \/ Publish(c) \/ BeginDelete(c)
    BY <2>1 DEF GiveUp, GetCopy, BeginSave, Reload, Publish, BeginDelete
  <2>2. ASSUME NEW lost \in BOOLEAN,
               \/ VacateOp(c, lost) \/ RewriteOp(c, lost) \/ SweepOp(c, lost)
               \/ AppendOp(c, lost) \/ RetireOp(c, lost) \/ DeleteOp(c, lost)
        PROVE  flash' = flash \/ flash' = Upto(LogLen, FALSE)
    <3>1. Operate(lost) \/ flash' = flash
      <4>1. CASE VacateOp(c, lost) \/ RewriteOp(c, lost) \/ SweepOp(c, lost)
        BY <4>1 DEF VacateOp, RewriteOp, SweepOp
      <4>2. CASE AppendOp(c, lost)
        BY <4>2 DEF AppendOp
      <4>3. CASE RetireOp(c, lost) \/ DeleteOp(c, lost)
        BY <4>3 DEF RetireOp, DeleteOp
      <4>. QED
        BY <2>2, <4>1, <4>2, <4>3
    <3>. QED
      BY <3>1 DEF Operate
  <2>. QED
    BY <1>1, <2>1, <2>2 DEF Serve
<1>2. ASSUME NEW c \in Clients, Request(c)
      PROVE  flash' = flash
  BY <1>2 DEF Request, RequestSave, RequestDelete, RequestGet
<1>3. CASE Render
  BY <1>3 DEF Render, SwapPin, SwapDecode, SwapInstall, FadeEnd
<1>4. CASE OtaBegin \/ OtaEnd
  BY <1>4 DEF OtaBegin, OtaEnd
<1>5. CASE PowerCut
  BY <1>5 DEF PowerCut, Boot
<1>6. CASE UNCHANGED vars
  BY <1>6 DEF vars
<1>. QED
  BY <1>1, <1>2, <1>3, <1>4, <1>5, <1>6 DEF Next

\* From the moment a compaction has read the pins until it is over, no step, not
\* even a power cut inside a flash operation, changes a unit on a page of a file
\* that was pinned: an engine that executes one in place is not disturbed.
THEOREM FrozenStaysUntouched == Spec => FrozenPagesUntouched
<1>. DEFINE Untouched ==
              Compacting => \A p \in FrozenPages(plan.keep, plan.pinned) :
                              \A u \in PageUnits(p) : flash'[u] = flash[u]
<1>1. StoreInv /\ [Next]_vars => Untouched
  <2>. SUFFICES ASSUME StoreInv, [Next]_vars, Compacting,
                       NEW p \in FrozenPages(plan.keep, plan.pinned), NEW u \in PageUnits(p)
                PROVE  flash'[u] = flash[u]
    OBVIOUS
  <2>1. u \in Units /\ u \notin DOMAIN Written
    BY NothingFrozenWritten DEF PageUnits
  <2>2. flash' = flash \/ flash' = Upto(LogLen, FALSE) \/ flash' \in Torn
    BY CompactingStep
  <2>. QED
    BY <2>1, <2>2, UntouchedStays
<1>. QED
  BY <1>1, StoreInvariant, PTL DEF Spec, FrozenPagesUntouched

-----------------------------------------------------------------------------
(* Versions: what is on flash or in RAM was saved by an earlier request.      *)

\* No save under way, of those rq tells, writes the version; n are made so far.
Settled(v, rq, n) == v <= n /\ \A c \in Clients : rq[c].op = "save" => rq[c].ver # v

RequestsDiffer ==
    /\ \A c \in Clients : req[c].op = "save" => req[c].ver <= used.saves
    /\ \A c, d \in Clients :
         req[c].op = "save" /\ req[d].op = "save" /\ req[c].ver = req[d].ver => c = d

JobIsTheRequest == phase \notin {"none", "delete"} => job.rec.ver = req[holder].ver

FlashIsOld ==
    \A u \in Units : flash[u].kind = "header" =>
        \/ Settled(flash[u].rec.ver, req, used.saves)
        \/ /\ phase \in {"payload", "commit", "publish", "retire"}
           /\ flash[u].rec.ver = job.rec.ver

IndexIsOld ==
    \A r \in ram.index : \/ Settled(r.ver, req, used.saves)
                         \/ phase = "retire" /\ r.ver = job.rec.ver

PlanIsOld ==
    /\ Compacting => \A r \in plan.keep : Settled(r.ver, req, used.saves)
    /\ phase \in {"vacate", "rewrite"} =>
         \A u \in DOMAIN buf : buf[u].kind = "header" => Settled(buf[u].rec.ver, req, used.saves)

VersInv ==
    RequestsDiffer /\ JobIsTheRequest /\ FlashIsOld /\ IndexIsOld /\ PlanIsOld

\* The header an operation leaves in a unit is the one that was there, the one of
\* the file it writes, or one of the page it was built.
LEMMA HeaderWritten ==
    ASSUME StoreInv, phase # "none", NEW u \in DOMAIN Written, u \in Units,
           Written[u].kind = "header"
    PROVE  \/ flash[u].kind = "header" /\ Written[u].rec = flash[u].rec
           \/ phase = "header" /\ u = job.rec.off /\ Written[u].rec = job.rec
           \/ phase = "rewrite" /\ u \in DOMAIN buf /\ buf[u].kind = "header" /\ Written[u].rec = buf[u].rec
<1>1. flash[u] \in Cell /\ phase \in Phases
  BY DEF StoreInv, TypeOK, WorldType, TaskType
<1>2. \A old, new : Program(old, new).kind = "header" =>
          Program(old, new) = old \/ Program(old, new) = new
  BY DEF Program, Junk
<1>3. CASE phase \in {"erase", "vacate", "sweep"}
  <2>1. Written = [v \in PageUnits(page) |-> Erased]
    BY <1>3 DEF Written
  <2>. QED
    BY <2>1 DEF Erased
<1>4. CASE phase = "rewrite"
  <2>1. Written = [v \in PageUnits(page) |-> Program(flash[v], buf[v])]
    BY <1>4 DEF Written
  <2>2. buf \in [PageUnits(page) -> Cell]
    BY <1>4 DEF StoreInv, CompactionSound
  <2>. QED
    BY <1>2, <1>4, <2>1, <2>2
<1>5. CASE phase = "header"
  <2>1. Written = [v \in {job.rec.off} |-> Program(flash[v], Header(job.rec, FALSE, FALSE))]
    BY <1>5 DEF Written
  <2>2. Written[u] = Program(flash[u], Header(job.rec, FALSE, FALSE)) /\ u = job.rec.off
    BY <2>1
  <2>. QED
    BY <1>2, <1>5, <2>2 DEF Header
<1>6. CASE phase = "payload"
  <2>1. Written = [v \in PayloadUnits(job.rec) \cap PageUnits(page) |->
                       Program(flash[v], Body(job.rec, v))]
    BY <1>6 DEF Written
  <2>2. Written[u] = Program(flash[u], Body(job.rec, u))
    BY <2>1
  <2>. QED
    BY <1>2, <2>2 DEF Body, Data
<1>7. CASE phase = "commit"
  <2>1. Written = [v \in {job.rec.off} |-> SetCommit(flash[v])]
    BY <1>7 DEF Written
  <2>2. Written[u] = SetCommit(flash[u])
    BY <2>1
  <2>3. flash[u].kind = "header"
    BY <2>2 DEF SetCommit, Junk
  <2>4. flash[u] \in [kind : {"header"}, rec : Rec, commit : BOOLEAN, dead : BOOLEAN]
    BY <1>1, <2>3, HeaderCell
  <2>. QED
    BY <2>2, <2>3, <2>4 DEF SetCommit
<1>8. CASE phase \in {"retire", "delete"}
  <2>1. Written = [v \in {The(job.old).off} |-> SetDead(flash[v])]
    BY <1>8 DEF Written
  <2>2. Written[u] = SetDead(flash[u])
    BY <2>1
  <2>3. flash[u].kind = "header"
    BY <2>2 DEF SetDead, Junk
  <2>4. flash[u] \in [kind : {"header"}, rec : Rec, commit : BOOLEAN, dead : BOOLEAN]
    BY <1>1, <2>3, HeaderCell
  <2>. QED
    BY <2>2, <2>3, <2>4 DEF SetDead
<1>9. CASE phase \in {"publish", "reload"}
  <2>1. Written = [v \in {} |-> Erased]
    BY <1>9 DEF Written
  <2>. QED
    BY <2>1
<1>. QED
  BY <1>1, <1>3, <1>4, <1>5, <1>6, <1>7, <1>8, <1>9 DEF Phases

\* So after an operation, or a part of one.
LEMMA HeaderLeft ==
    ASSUME StoreInv, phase # "none", NEW at, NEW junk \in BOOLEAN, NEW u \in Units,
           Upto(at, junk)[u].kind = "header"
    PROVE  \/ flash[u].kind = "header" /\ Upto(at, junk)[u].rec = flash[u].rec
           \/ phase = "header" /\ u = job.rec.off /\ Upto(at, junk)[u].rec = job.rec
           \/ phase = "rewrite" /\ u \in DOMAIN buf /\ buf[u].kind = "header"
              /\ Upto(at, junk)[u].rec = buf[u].rec
<1>1. Upto(at, junk)[u] \in {flash[u], Junk} \/ (u \in DOMAIN Written /\ Upto(at, junk)[u] = Written[u])
  BY DEF Upto
<1>. QED
  BY <1>1, HeaderWritten DEF Junk

\* The version of the transaction under way, or one of a request answered before.
Known(v) == \/ Settled(v, req, used.saves)
            \/ phase \notin {"none", "delete"} /\ v = job.rec.ver

\* Ending a request settles the version it saves and unsettles none.
LEMMA EndedRequest ==
    ASSUME StoreInv, VersInv, NEW c \in Clients,
           req' = [req EXCEPT ![c] = Idle], used'.saves = used.saves
    PROVE  /\ RequestsDiffer'
           /\ \A v : Settled(v, req, used.saves) => Settled(v, req', used.saves)
           /\ req[c].op = "save" => Settled(req[c].ver, req', used.saves)
<1>1. /\ req'[c] = Idle /\ Idle.op # "save"
      /\ \A d \in Clients \ {c} : req'[d] = req[d]
  BY DEF StoreInv, TypeOK, TaskType, Idle
<1>2. \A d \in Clients : req'[d].op = "save" => d # c /\ req'[d] = req[d]
  BY <1>1
<1>. QED
  BY <1>2 DEF VersInv, RequestsDiffer, Settled

\* What the scan emits stands in the header at its offset.
LEMMA EmittedHeader ==
    ASSUME NEW fl, NEW r \in Emitted(fl)
    PROVE  \E at \in Units :
               fl[at].kind = "header" /\ r = [fl[at].rec EXCEPT !.dead = fl[at].dead]
<1>1. PICK at \in Scan(fl) : r = [fl[at].rec EXCEPT !.dead = fl[at].dead]
  BY DEF Emitted
<1>. QED
  BY <1>1 DEF Scan, Accepts, HeaderAt

\* ... so its version is one of a header.
LEMMA EmittedVersion ==
    ASSUME NEW fl \in [Units -> Cell], NEW r \in Emitted(fl)
    PROVE  \E at \in Units : fl[at].kind = "header" /\ r.ver = fl[at].rec.ver
<1>1. PICK at \in Units :
         fl[at].kind = "header" /\ r = [fl[at].rec EXCEPT !.dead = fl[at].dead]
  BY EmittedHeader
<1>2. fl[at].rec \in Rec
  BY <1>1, HeaderCell
<1>3. r.ver = fl[at].rec.ver
  BY <1>1, <1>2 DEF Rec
<1>. QED
  BY <1>1, <1>3

\* The headers a page is built with are those of the files kept or of the flash.
LEMMA BuiltVersion ==
    ASSUME NEW fl \in [Units -> Cell], NEW pl, PlanSound(pl), NEW p, NEW u \in PageUnits(p),
           BuildPage(fl, pl.keep, pl.to, p)[u].kind = "header"
    PROVE  \/ \E r \in pl.keep : BuildPage(fl, pl.keep, pl.to, p)[u].rec.ver = r.ver
           \/ \E v \in Units : fl[v].kind = "header"
                 /\ BuildPage(fl, pl.keep, pl.to, p)[u].rec.ver = fl[v].rec.ver
<1>. DEFINE keep == pl.keep
            to == pl.to
            owners == { r \in keep : u \in Extent(to[r], Size(r)) }
            r == CHOOSE k \in owners : TRUE
            cell == BuildPage(fl, keep, to, p)[u]
<1>1. cell =
         IF owners = {} THEN Erased
         ELSE IF u = to[r] THEN HeaderAnew(r, to[r])
         ELSE fl[u - to[r] + r.off]
  BY DEF BuildPage
<1>2. owners # {}
  BY <1>1 DEF Erased
<1>3. r \in owners
  BY <1>2
<1>. HIDE DEF r, cell
<1>4. r \in File /\ to[r] \in Units /\ u \in Extent(to[r], Size(r)) /\ r \in keep
  BY <1>3 DEF PlanSound, PlanHolds
<1>5. r \in Rec /\ End(r) <= LogLen
  BY <1>4 DEF File
<1>6. CASE u = to[r]
  <2>1. cell.rec = [r EXCEPT !.off = to[r], !.dead = FALSE]
    BY <1>1, <1>2, <1>6 DEF HeaderAnew, Header
  <2>2. cell.rec.ver = r.ver
    BY <1>5, <2>1 DEF Rec
  <2>. QED
    BY <1>4, <2>2 DEF cell
<1>7. CASE u # to[r]
  <2>1. u - to[r] + r.off \in Units
    BY <1>4, <1>5, RecFacts, LogFacts DEF Extent
  <2>2. cell = fl[u - to[r] + r.off]
    BY <1>1, <1>2, <1>7
  <2>3. cell.kind = "header"
    BY DEF cell
  <2>. QED
    BY <2>1, <2>2, <2>3 DEF cell
<1>. QED
  BY <1>6, <1>7

\* A flash operation leaves no version that is not known.
LEMMA OperateVersions ==
    ASSUME StoreInv, VersInv, phase # "none", NEW lost \in BOOLEAN,
           Operate(lost) \/ UNCHANGED <<flash, used>>
    PROVE  /\ used'.saves = used.saves
           /\ \A u \in Units : flash'[u].kind = "header" =>
                 /\ Known(flash'[u].rec.ver)
                 /\ phase \notin {"header", "payload", "commit", "publish", "retire"} =>
                        Settled(flash'[u].rec.ver, req, used.saves)
<1>1. used'.saves = used.saves
  <2>1. used \in Used
    BY DEF StoreInv, TypeOK, WorldType
  <2>. QED
    BY <2>1 DEF Operate, Used
<1>2. flash' = flash \/ flash' = Upto(LogLen, FALSE)
  BY DEF Operate
<1>. SUFFICES ASSUME NEW u \in Units, flash'[u].kind = "header"
              PROVE  /\ Known(flash'[u].rec.ver)
                     /\ phase \notin {"header", "payload", "commit", "publish", "retire"} =>
                            Settled(flash'[u].rec.ver, req, used.saves)
  BY <1>1
<1>3. CASE flash[u].kind = "header" /\ flash'[u].rec = flash[u].rec
  BY <1>3 DEF VersInv, FlashIsOld, Known
<1>4. CASE phase = "header" /\ flash'[u].rec = job.rec
  BY <1>4 DEF Known
<1>5. CASE phase = "rewrite" /\ u \in DOMAIN buf /\ buf[u].kind = "header" /\ flash'[u].rec = buf[u].rec
  BY <1>5 DEF VersInv, PlanIsOld, Known
<1>6. \/ flash[u].kind = "header" /\ flash'[u].rec = flash[u].rec
      \/ phase = "header" /\ flash'[u].rec = job.rec
      \/ phase = "rewrite" /\ u \in DOMAIN buf /\ buf[u].kind = "header" /\ flash'[u].rec = buf[u].rec
  <2>1. CASE flash' = flash
    BY <2>1
  <2>2. CASE flash' = Upto(LogLen, FALSE)
    <3>1. Upto(LogLen, FALSE)[u].kind = "header" /\ FALSE \in BOOLEAN
      BY <2>2
    <3>. QED
      BY <2>2, <3>1, HeaderLeft
  <2>. QED
    BY <1>2, <2>1, <2>2
<1>. QED
  BY <1>3, <1>4, <1>5, <1>6

\* When a transaction is answered, its version is settled with all the others.
LEMMA AnswerVersions ==
    ASSUME StoreInv, VersInv, NEW c \in Clients, holder = c, Answer(c),
           used'.saves = used.saves,
           \A u \in Units : flash'[u].kind = "header" => Known(flash'[u].rec.ver),
           \A r \in ram.index' : Known(r.ver)
    PROVE  VersInv'
<1>1. phase # "none" /\ phase' = "none" /\ req' = [req EXCEPT ![c] = Idle]
  BY StoreAssumption DEF Answer, StoreInv, TypeOK, TaskType
<1>2. \A v : Known(v) => Settled(v, req', used'.saves)
  <2>1. phase # "delete" => req[c].op = "save" /\ job.rec.ver = req[c].ver
    BY <1>1 DEF VersInv, JobIsTheRequest, StoreInv, TypeOK, TaskType
  <2>. QED
    BY <1>1, <2>1, EndedRequest DEF Known
<1>3. RequestsDiffer'
  BY <1>1, EndedRequest
<1>4. FlashIsOld' /\ IndexIsOld'
  BY <1>2 DEF FlashIsOld, IndexIsOld
<1>. QED
  BY <1>1, <1>3, <1>4 DEF VersInv, JobIsTheRequest, PlanIsOld, Compacting

\* A transaction that goes on keeps its request; what it learns and builds is old.
LEMMA GoOnVersions ==
    ASSUME StoreInv, VersInv, phase \notin {"none", "delete"},
           phase' \notin {"none", "delete"},
           UNCHANGED <<req, holder>>, used'.saves = used.saves, job'.rec.ver = job.rec.ver,
           \A u \in Units : flash'[u].kind = "header" =>
               \/ Settled(flash'[u].rec.ver, req, used.saves)
               \/ /\ phase' \in {"payload", "commit", "publish", "retire"}
                  /\ flash'[u].rec.ver = job.rec.ver,
           \A r \in ram.index' : \/ Settled(r.ver, req, used.saves)
                                 \/ phase' = "retire" /\ r.ver = job.rec.ver,
           PlanIsOld'
    PROVE  VersInv'
<1>1. RequestsDiffer'
  BY DEF VersInv, RequestsDiffer
<1>2. JobIsTheRequest'
  BY DEF VersInv, JobIsTheRequest
<1>3. FlashIsOld' /\ IndexIsOld'
  BY DEF FlashIsOld, IndexIsOld
<1>. QED
  BY <1>1, <1>2, <1>3 DEF VersInv

\* The page a compaction goes on to is built with old headers.
LEMMA CompactVersions ==
    ASSUME NEW fl \in [Units -> Cell], NEW pl, PlanSound(pl), plan' = pl,
           \A u \in Units : fl[u].kind = "header" => Settled(fl[u].rec.ver, req', used'.saves),
           \A r \in pl.keep : Settled(r.ver, req', used'.saves),
           \/ GoSweep(fl, pl)
           \/ \E from : GoCompact(fl, pl, from)
    PROVE  PlanIsOld'
<1>1. CASE phase' \in {"sweep", "reload"}
  BY <1>1 DEF PlanIsOld
<1>2. CASE phase' \notin {"sweep", "reload"}
  <2>1. PICK from : GoCompact(fl, pl, from)
    BY <1>2 DEF GoSweep
  <2>2. buf' = BuildPage(fl, pl.keep, pl.to, page')
    BY <1>2, <2>1 DEF GoCompact, GoSweep
  <2>3. DOMAIN buf' = PageUnits(page')
    BY <2>2 DEF BuildPage
  <2>4. \A u \in DOMAIN buf' : buf'[u].kind = "header" => Settled(buf'[u].rec.ver, req', used'.saves)
    BY <2>2, <2>3, BuiltVersion
  <2>. QED
    BY <2>4 DEF PlanIsOld
<1>. QED
  BY <1>1, <1>2

\* At first there is no version anywhere.
LEMMA VersInit == Init => VersInv
<1>. SUFFICES ASSUME Init PROVE VersInv
  OBVIOUS
<1>1. \A c \in Clients : req[c].op # "save"
  BY DEF Init, Idle
<1>2. \A u \in Units : flash[u].kind # "header"
  BY DEF Init, Erased
<1>3. ram.index = {}
  <2>1. flash \in [Units -> Cell]
    BY CellFacts DEF Init
  <2>2. Emitted(flash) = {}
    BY <1>2, EmittedHeader
  <2>. QED
    BY <2>2 DEF Init, ReloadOf
<1>. QED
  BY <1>1, <1>2, <1>3 DEF Init, VersInv, RequestsDiffer, JobIsTheRequest, FlashIsOld, IndexIsOld, PlanIsOld, Compacting

\* A request takes a version no other has had.
LEMMA AskVersions ==
    ASSUME StoreInv, VersInv, NEW c \in Clients, Request(c)
    PROVE  VersInv'
<1>1. /\ UNCHANGED <<flash, ram, holder>> /\ UNCHANGED locals /\ req[c] = Idle
  BY DEF Request, RequestSave, RequestDelete, RequestGet
<1>2. /\ req \in [Clients -> Requests] /\ used.saves \in Nat
      /\ phase # "none" => holder # c
  BY <1>1, StoreAssumption DEF StoreInv, TypeOK, WorldType, TaskType, Used, Versions, Idle
<1>3. /\ used'.saves \in Nat /\ used.saves <= used'.saves
      /\ req'[c].op = "save" => req'[c].ver = used'.saves /\ used.saves < used'.saves
      /\ \A d \in Clients \ {c} : req'[d] = req[d]
  <2>. USE <1>2
  <2>1. used \in Used
    BY DEF StoreInv, TypeOK, WorldType
  <2>2. CASE RequestSave(c)
    BY <2>1, <2>2, <1>2 DEF RequestSave, Used
  <2>3. CASE RequestDelete(c) \/ RequestGet(c)
    BY <2>1, <2>3, <1>2 DEF RequestDelete, RequestGet, Used
  <2>. QED
    BY <2>2, <2>3 DEF Request
<1>4. \A v \in Nat : Settled(v, req, used.saves) => Settled(v, req', used'.saves)
  BY <1>2, <1>3 DEF Settled
<1>5. RequestsDiffer'
  <2>1. \A d \in Clients : req[d].op = "save" => req[d].ver \in Nat /\ req[d].ver <= used.saves
    BY <1>2, StoreAssumption DEF VersInv, RequestsDiffer, Requests, Versions, Idle
  <2>. QED
    BY <1>2, <1>3, <2>1 DEF VersInv, RequestsDiffer
<1>6. JobIsTheRequest'
  <2>1. phase # "none" => holder \in Clients \ {c}
    BY <1>2 DEF StoreInv, TypeOK, TaskType
  <2>. QED
    BY <1>1, <1>3, <2>1 DEF VersInv, JobIsTheRequest, locals
<1>7. \A r \in Rec : r.ver \in Nat
  BY StoreAssumption DEF Rec, Versions
<1>8. FlashIsOld'
  <2>1. \A u \in Units : flash[u].kind = "header" => flash[u].rec.ver \in Nat
    BY <1>7, HeaderCell DEF StoreInv, TypeOK, WorldType
  <2>. QED
    BY <1>1, <1>4, <2>1 DEF VersInv, FlashIsOld, locals
<1>9. IndexIsOld'
  <2>1. \A r \in ram.index : r.ver \in Nat
    BY <1>7 DEF StoreInv, TypeOK, WorldType, Ram, File
  <2>. QED
    BY <1>1, <1>4, <2>1 DEF VersInv, IndexIsOld, locals
<1>10. PlanIsOld'
  <2>1. Compacting => \A r \in plan.keep : r.ver \in Nat
    BY <1>7 DEF StoreInv, CompactionSound, PlanSound, File
  <2>2. phase \in {"vacate", "rewrite"} =>
          \A u \in DOMAIN buf : buf[u].kind = "header" => buf[u].rec.ver \in Nat
    BY <1>7, HeaderCell DEF StoreInv, CompactionSound
  <2>. QED
    BY <1>1, <1>4, <2>1, <2>2 DEF VersInv, PlanIsOld, locals, Compacting
<1>. QED
  BY <1>5, <1>6, <1>8, <1>9, <1>10 DEF VersInv

\* A request is dropped, or answered without a transaction.
LEMMA TurnedAwayVersions ==
    ASSUME StoreInv, VersInv, NEW c \in Clients, c # holder,
           UNCHANGED <<flash, ram, holder, used>>, UNCHANGED locals,
           req' = [req EXCEPT ![c] = Idle]
    PROVE  VersInv'
<1>1. /\ RequestsDiffer'
      /\ \A v : Settled(v, req, used.saves) => Settled(v, req', used'.saves)
  BY EndedRequest
<1>2. JobIsTheRequest'
  <2>1. req'[holder] = req[holder] \/ phase = "none"
    BY DEF StoreInv, TypeOK, TaskType
  <2>. QED
    BY <2>1 DEF VersInv, JobIsTheRequest, locals
<1>3. FlashIsOld' /\ IndexIsOld' /\ PlanIsOld'
  BY <1>1 DEF VersInv, FlashIsOld, IndexIsOld, PlanIsOld, locals, Compacting
<1>. QED
  BY <1>1, <1>2, <1>3 DEF VersInv

\* A step that leaves flash, index, requests and the transaction alone.
LEMMA AsideVersions ==
    ASSUME StoreInv, VersInv, UNCHANGED <<flash, ram, req, holder>>, UNCHANGED locals,
           used'.saves = used.saves
    PROVE  VersInv'
BY DEF VersInv, RequestsDiffer, JobIsTheRequest, FlashIsOld, IndexIsOld, PlanIsOld, locals, Compacting

\* After a power cut nothing is under way and all that is left is old.
LEMMA PowerCutVersions ==
    ASSUME StoreInv, VersInv, PowerCut
    PROVE  VersInv'
<1>1. PICK fl \in Torn : Boot(fl)
  BY DEF PowerCut
<1>2. used'.saves = used.saves
  BY DEF PowerCut, StoreInv, TypeOK, WorldType, Used
<1>3. /\ flash' = fl /\ ram' = ReloadOf(fl) /\ req' = [c \in Clients |-> Idle]
      /\ phase' = "none"
  BY <1>1 DEF Boot
<1>4. \A c \in Clients : req'[c].op # "save"
  BY <1>3 DEF Idle
<1>5. fl \in [Units -> Cell]
  BY <1>3, PowerCutStep DEF StoreInv, TypeOK, WorldType
<1>6. ASSUME NEW u \in Units, fl[u].kind = "header"
      PROVE  fl[u].rec.ver <= used.saves
  <2>1. \A v : Known(v) => v <= used.saves
    <3>1. phase \notin {"none", "delete"} => job.rec.ver <= used.saves
      BY DEF VersInv, JobIsTheRequest, RequestsDiffer, StoreInv, TypeOK, TaskType
    <3>. QED
      BY <3>1 DEF Known, Settled
  <2>2. CASE flash[u].kind = "header" /\ fl[u].rec = flash[u].rec
    BY <2>1, <2>2 DEF VersInv, FlashIsOld, Known
  <2>3. CASE phase = "header" /\ fl[u].rec = job.rec
    BY <2>1, <2>3 DEF Known
  <2>4. CASE phase = "rewrite" /\ u \in DOMAIN buf /\ buf[u].kind = "header" /\ fl[u].rec = buf[u].rec
    BY <2>1, <2>4 DEF VersInv, PlanIsOld, Known
  <2>5. CASE phase = "none"
    <3>1. Written = [v \in {} |-> Erased]
      BY <2>5 DEF Written
    <3>2. fl[u] = flash[u]
      BY <3>1, UntouchedStays
    <3>. QED
      BY <1>6, <2>2, <3>2
  <2>6. CASE phase # "none"
    <3>1. PICK at : fl = Upto(at, FALSE) \/ fl = Upto(at, TRUE)
      BY Zenon DEF Torn
    <3>2. CASE fl = Upto(at, FALSE)
      <4>1. Upto(at, FALSE)[u].kind = "header" /\ FALSE \in BOOLEAN
        BY <1>6, <3>2
      <4>2. \/ flash[u].kind = "header" /\ Upto(at, FALSE)[u].rec = flash[u].rec
            \/ phase = "header" /\ u = job.rec.off /\ Upto(at, FALSE)[u].rec = job.rec
            \/ phase = "rewrite" /\ u \in DOMAIN buf /\ buf[u].kind = "header"
               /\ Upto(at, FALSE)[u].rec = buf[u].rec
        BY <2>6, <4>1, HeaderLeft
      <4>. QED
        BY <2>2, <2>3, <2>4, <3>2, <4>2
    <3>3. CASE fl = Upto(at, TRUE)
      <4>1. Upto(at, TRUE)[u].kind = "header" /\ TRUE \in BOOLEAN
        BY <1>6, <3>3
      <4>2. \/ flash[u].kind = "header" /\ Upto(at, TRUE)[u].rec = flash[u].rec
            \/ phase = "header" /\ u = job.rec.off /\ Upto(at, TRUE)[u].rec = job.rec
            \/ phase = "rewrite" /\ u \in DOMAIN buf /\ buf[u].kind = "header"
               /\ Upto(at, TRUE)[u].rec = buf[u].rec
        BY <2>6, <4>1, HeaderLeft
      <4>. QED
        BY <2>2, <2>3, <2>4, <3>3, <4>2
    <3>. QED
      BY <3>1, <3>2, <3>3
  <2>. QED
    BY <2>5, <2>6
<1>7. FlashIsOld'
  BY <1>2, <1>3, <1>4, <1>6 DEF FlashIsOld, Settled
<1>8. IndexIsOld'
  <2>1. \A r \in ram'.index : r.ver <= used.saves
    BY <1>3, <1>5, <1>6, EmittedVersion DEF ReloadOf
  <2>. QED
    BY <1>2, <1>4, <2>1 DEF IndexIsOld, Settled
<1>. QED
  BY <1>3, <1>4, <1>7, <1>8 DEF VersInv, RequestsDiffer, JobIsTheRequest, PlanIsOld, Compacting

\* A save finds old files only, in the index and on flash, and plans with them.
LEMMA BeginSaveVersions ==
    ASSUME StoreInv, VersInv, NEW c \in Clients, BeginSave(c)
    PROVE  VersInv'
<1>1. /\ req[c].op = "save" /\ holder = NoClient /\ phase = "none"
      /\ UNCHANGED <<flash, ram, used>>
  BY DEF BeginSave, GuardFree, rest, StoreInv, TypeOK, TaskType
<1>2. CASE req' = [req EXCEPT ![c] = Idle] /\ UNCHANGED <<holder, locals>>
  <2>1. c # holder
    BY <1>1, StoreAssumption
  <2>. QED
    BY <1>1, <1>2, <2>1, TurnedAwayVersions
<1>3. CASE /\ holder' = c /\ UNCHANGED req
           /\ job'.rec.ver = req[c].ver
           /\ \/ phase' \in {"erase", "header"}
              \/ /\ PlanSound(CompactionPlan) /\ plan' = CompactionPlan
                 /\ GoCompact(flash, CompactionPlan, 0)
  <2>1. /\ \A u \in Units : flash[u].kind = "header" => Settled(flash[u].rec.ver, req, used.saves)
        /\ \A r \in ram.index : Settled(r.ver, req, used.saves)
    BY <1>1 DEF VersInv, FlashIsOld, IndexIsOld
  <2>2. PlanIsOld'
    <3>1. CASE phase' \in {"erase", "header"}
      BY <3>1 DEF PlanIsOld, Compacting
    <3>2. CASE /\ PlanSound(CompactionPlan) /\ plan' = CompactionPlan
               /\ GoCompact(flash, CompactionPlan, 0)
      <4>1. flash \in [Units -> Cell]
        BY DEF StoreInv, TypeOK, WorldType
      <4>2. CompactionPlan.keep \subseteq ram.index \cup Emitted(flash)
        BY DEF CompactionPlan
      <4>3. \A r \in CompactionPlan.keep : Settled(r.ver, req', used'.saves)
        BY <1>1, <1>3, <2>1, <4>1, <4>2, EmittedVersion
      <4>. HIDE DEF CompactionPlan
      <4>. QED
        BY <1>1, <1>3, <2>1, <3>2, <4>1, <4>3, CompactVersions
    <3>. QED
      BY <1>3, <3>1, <3>2
  <2>3. RequestsDiffer' /\ JobIsTheRequest'
    BY <1>1, <1>3 DEF VersInv, RequestsDiffer, JobIsTheRequest
  <2>4. FlashIsOld' /\ IndexIsOld'
    BY <1>1, <1>3, <2>1 DEF FlashIsOld, IndexIsOld
  <2>. QED
    BY <2>2, <2>3, <2>4 DEF VersInv
<1>. DEFINE q == req[c]
            old == RecByName(q.name)
            seq == IF old = NoRec THEN ram.nextSeq ELSE The(old).seq
            off == FindPlace(flash, ram, 1 + q.len)
            rec == [ off |-> 0, name |-> q.name, seq |-> seq, stamp |-> 0,
                     ver |-> q.ver, len |-> q.len, dead |-> FALSE ]
<1>4. \/ req' = [req EXCEPT ![c] = Idle] /\ UNCHANGED <<holder, locals>>
      \/ /\ holder' = c /\ UNCHANGED req
         /\ GoAppend(flash, ram, rec, old, old # NoRec, off)
      \/ /\ ~Refused(CompactionPlan, 1 + q.len) /\ holder' = c /\ UNCHANGED req
         /\ job' = [rec |-> rec, old |-> old, existed |-> old # NoRec]
         /\ plan' = CompactionPlan /\ GoCompact(flash, CompactionPlan, 0)
  BY DEF BeginSave
<1>5. CASE /\ holder' = c /\ UNCHANGED req
           /\ GoAppend(flash, ram, rec, old, old # NoRec, off)
  <2>1. job'.rec = [rec EXCEPT !.off = off, !.stamp = ram.nextStamp]
    BY <1>5 DEF GoAppend
  <2>2. rec.ver = req[c].ver /\ job'.rec.ver = rec.ver
    BY <2>1
  <2>3. phase' \in {"erase", "header"}
    BY <1>5 DEF GoAppend, GoErase
  <2>. QED
    BY <1>3, <1>5, <2>2, <2>3
<1>6. CASE /\ ~Refused(CompactionPlan, 1 + q.len) /\ holder' = c /\ UNCHANGED req
           /\ job' = [rec |-> rec, old |-> old, existed |-> old # NoRec]
           /\ plan' = CompactionPlan /\ GoCompact(flash, CompactionPlan, 0)
  <2>1. PlanSound(CompactionPlan)
    <3>1. CompactionPlan.keep \subseteq File
      BY EmittedFiles DEF CompactionPlan, StoreInv, TypeOK, WorldType, Ram
    <3>. QED
      BY <1>6, <3>1 DEF Refused, PlanSound
  <2>. QED
    BY <1>3, <1>6, <2>1
<1>. QED
  BY <1>2, <1>4, <1>5, <1>6

\* A flash operation of a compaction copies old headers.
LEMMA CompactionVersions ==
    ASSUME StoreInv, VersInv, NEW c \in Clients, NEW lost \in BOOLEAN,
           VacateOp(c, lost) \/ RewriteOp(c, lost) \/ SweepOp(c, lost)
    PROVE  VersInv'
<1>1. /\ phase \in {"vacate", "rewrite", "sweep"} /\ Operate(lost)
      /\ UNCHANGED <<ram, req, holder, job, plan>>
  BY DEF VacateOp, RewriteOp, SweepOp
<1>2. /\ used'.saves = used.saves
      /\ \A u \in Units : flash'[u].kind = "header" => Settled(flash'[u].rec.ver, req, used.saves)
  BY <1>1, OperateVersions
<1>3. \A r \in ram.index : Settled(r.ver, req, used.saves)
  BY <1>1 DEF VersInv, IndexIsOld
<1>4. flash' \in [Units -> Cell] /\ PlanSound(plan)
  BY <1>1, OperateType DEF StoreInv, CompactionSound, Compacting
<1>5. \A r \in plan.keep : Settled(r.ver, req, used.saves)
  BY <1>1 DEF VersInv, PlanIsOld, Compacting
<1>6. CASE GoSweep(flash', plan) \/ GoCompact(flash', plan, page + 1)
  <2>1. PlanIsOld'
    BY <1>1, <1>2, <1>4, <1>5, <1>6, CompactVersions
  <2>2. phase' \in {"vacate", "rewrite", "sweep", "reload"}
    BY <1>6 DEF GoSweep, GoCompact
  <2>. QED
    BY <1>1, <1>2, <1>3, <2>1, <2>2, GoOnVersions
<1>7. CASE phase = "vacate" /\ phase' = "rewrite" /\ UNCHANGED <<page, buf>>
  <2>1. PlanIsOld'
    BY <1>1, <1>2, <1>5, <1>7 DEF VersInv, PlanIsOld, Compacting
  <2>. QED
    BY <1>1, <1>2, <1>3, <1>7, <2>1, GoOnVersions
<1>8. CASE phase = "sweep" /\ phase' = "reload"
  <2>1. PlanIsOld'
    BY <1>1, <1>2, <1>5, <1>8 DEF PlanIsOld
  <2>. QED
    BY <1>1, <1>2, <1>3, <1>8, <2>1, GoOnVersions
<1>. QED
  BY <1>6, <1>7, <1>8 DEF VacateOp, RewriteOp, SweepOp

\* The reload indexes what is on flash, which is old.
LEMMA ReloadVersions ==
    ASSUME StoreInv, VersInv, NEW c \in Clients, Reload(c)
    PROVE  VersInv'
<1>1. phase = "reload" /\ holder = c /\ ram' = ReloadOf(flash) /\ UNCHANGED <<flash, used>>
  BY DEF Reload, rest
<1>2. \A u \in Units : flash[u].kind = "header" => Settled(flash[u].rec.ver, req, used.saves)
  BY <1>1 DEF VersInv, FlashIsOld
<1>3. \A r \in ram.index' : Settled(r.ver, req, used.saves)
  <2>1. flash \in [Units -> Cell] /\ ram'.index \subseteq Emitted(flash)
    BY <1>1 DEF StoreInv, TypeOK, WorldType, ReloadOf
  <2>. QED
    BY <1>2, <2>1, EmittedVersion
<1>. DEFINE off == FindPlace(flash, ram', Size(job.rec))
            old == OldVersion(ram'.index)
<1>4. Answer(c) \/ (UNCHANGED <<holder, req>> /\ GoAppend(flash, ram', job.rec, old, job.existed, off))
  BY DEF Reload
<1>. HIDE DEF off, old
<1>5. CASE Answer(c)
  BY <1>1, <1>2, <1>3, <1>5, AnswerVersions DEF Known
<1>6. CASE UNCHANGED <<holder, req>> /\ GoAppend(flash, ram', job.rec, old, job.existed, off)
  <2>1. job.rec \in Rec
    BY <1>1 DEF StoreInv, TypeOK, TaskType
  <2>2. job'.rec = [job.rec EXCEPT !.off = off, !.stamp = ram'.nextStamp]
        /\ phase' \in {"erase", "header"}
    BY <1>6 DEF GoAppend, GoErase
  <2>3. job'.rec.ver = job.rec.ver
    BY <2>1, <2>2 DEF Rec
  <2>4. PlanIsOld'
    BY <2>2 DEF PlanIsOld, Compacting
  <2>. QED
    BY <1>1, <1>2, <1>3, <1>6, <2>2, <2>3, <2>4, GoOnVersions
<1>. QED
  BY <1>4, <1>5, <1>6

\* The header of the new file is on flash once it has been written.
LEMMA AppendVersions ==
    ASSUME StoreInv, VersInv, NEW c \in Clients, NEW lost \in BOOLEAN, AppendOp(c, lost)
    PROVE  VersInv'
<1>1. /\ phase \in {"erase", "header", "payload", "commit"} /\ holder = c
      /\ UNCHANGED <<ram, ota>>
      /\ Operate(lost) \/ UNCHANGED <<flash, used>>
  BY DEF AppendOp, Appending
<1>2. /\ used'.saves = used.saves
      /\ \A u \in Units : flash'[u].kind = "header" =>
            /\ Known(flash'[u].rec.ver)
            /\ phase = "erase" => Settled(flash'[u].rec.ver, req, used.saves)
  BY <1>1, OperateVersions
<1>3. \A r \in ram.index : Settled(r.ver, req, used.saves)
  BY <1>1 DEF VersInv, IndexIsOld
<1>4. Answer(c) \/ (NextStep /\ UNCHANGED <<req, holder, job, plan, buf>>)
  BY DEF AppendOp
<1>5. CASE Answer(c)
  BY <1>1, <1>2, <1>3, <1>5, AnswerVersions DEF Known
<1>6. CASE NextStep /\ UNCHANGED <<req, holder, job, plan, buf>>
  <2>1. /\ phase' \in {"erase", "header", "payload", "commit", "publish"}
        /\ phase # "erase" => phase' \in {"payload", "commit", "publish"}
    BY <1>1, <1>6 DEF NextStep, GoErase
  <2>2. PlanIsOld'
    BY <2>1 DEF PlanIsOld, Compacting
  <2>. QED
    BY <1>1, <1>2, <1>3, <1>6, <2>1, <2>2, GoOnVersions DEF Known
<1>. QED
  BY <1>4, <1>5, <1>6

\* The new file enters the index while its request is still under way.
LEMMA PublishVersions ==
    ASSUME StoreInv, VersInv, NEW c \in Clients, Publish(c)
    PROVE  VersInv'
<1>1. phase = "publish" /\ holder = c /\ UNCHANGED <<flash, used>>
  BY DEF Publish
<1>2. \A u \in Units : flash[u].kind = "header" =>
          Settled(flash[u].rec.ver, req, used.saves) \/ flash[u].rec.ver = job.rec.ver
  BY DEF VersInv, FlashIsOld
<1>3. \A r \in ram'.index : Settled(r.ver, req, used.saves) \/ r.ver = job.rec.ver
  <2>1. ram \in Ram
    BY DEF StoreInv, TypeOK, WorldType
  <2>2. ram'.index = Replaced(ram.index, job.rec)
    BY <2>1 DEF Publish, Ram
  <2>3. \A r \in ram.index : Settled(r.ver, req, used.saves)
    BY <1>1 DEF VersInv, IndexIsOld
  <2>. QED
    BY <2>2, <2>3 DEF Replaced
<1>4. CASE Answer(c)
  BY <1>1, <1>2, <1>3, <1>4, AnswerVersions DEF Known
<1>5. CASE phase' = "retire" /\ UNCHANGED <<req, holder, job, plan, page, buf, promise>>
  <2>1. PlanIsOld'
    BY <1>5 DEF PlanIsOld, Compacting
  <2>. QED
    BY <1>1, <1>2, <1>3, <1>5, <2>1, GoOnVersions
<1>. QED
  BY <1>4, <1>5 DEF Publish

\* A delete changes no version.
LEMMA BeginDeleteVersions ==
    ASSUME StoreInv, VersInv, NEW c \in Clients, BeginDelete(c)
    PROVE  VersInv'
<1>1. /\ phase = "none" /\ phase' = "delete" /\ UNCHANGED <<flash, ram, req, used>>
  BY DEF BeginDelete, GuardFree, rest, StoreInv, TypeOK, TaskType
<1>. QED
  BY <1>1 DEF VersInv, RequestsDiffer, JobIsTheRequest, FlashIsOld, IndexIsOld, PlanIsOld, Compacting

\* Nor does a dead word.
LEMMA DeadWordVersions ==
    ASSUME StoreInv, VersInv, NEW c \in Clients, NEW lost \in BOOLEAN,
           RetireOp(c, lost) \/ DeleteOp(c, lost)
    PROVE  VersInv'
<1>1. /\ phase \in {"retire", "delete"} /\ holder = c /\ Operate(lost) /\ Answer(c)
  BY DEF RetireOp, DeleteOp
<1>2. /\ used'.saves = used.saves
      /\ \A u \in Units : flash'[u].kind = "header" => Known(flash'[u].rec.ver)
  BY <1>1, OperateVersions
<1>3. \A r \in ram.index' : Known(r.ver)
  <2>1. ram'.index \subseteq ram.index
    BY DEF RetireOp, DeleteOp, StoreInv, TypeOK, WorldType, Ram, Removed
  <2>. QED
    BY <1>1, <2>1 DEF VersInv, IndexIsOld, Known
<1>. QED
  BY <1>1, <1>2, <1>3, AnswerVersions

\* Every step keeps versions known.
LEMMA VersStep == StoreInv /\ VersInv /\ [Next]_vars => VersInv'
<1>. SUFFICES ASSUME StoreInv, VersInv, [Next]_vars
              PROVE  VersInv'
  OBVIOUS
<1>1. ASSUME NEW c \in Clients, Serve(c)
      PROVE  VersInv'
  <2>1. CASE GiveUp(c) \/ GetCopy(c)
    <3>1. c # holder
      BY <2>1, StoreAssumption DEF GiveUp, GetCopy, GuardFree
    <3>. QED
      BY <2>1, <3>1, TurnedAwayVersions DEF GiveUp, GetCopy, rest
  <2>2. CASE BeginSave(c)
    BY <2>2, BeginSaveVersions
  <2>3. CASE Reload(c)
    BY <2>3, ReloadVersions
  <2>4. CASE Publish(c)
    BY <2>4, PublishVersions
  <2>5. CASE BeginDelete(c)
    BY <2>5, BeginDeleteVersions
  <2>6. ASSUME NEW lost \in BOOLEAN, VacateOp(c, lost) \/ RewriteOp(c, lost) \/ SweepOp(c, lost)
        PROVE  VersInv'
    BY <2>6, CompactionVersions
  <2>7. ASSUME NEW lost \in BOOLEAN, AppendOp(c, lost)
        PROVE  VersInv'
    BY <2>7, AppendVersions
  <2>8. ASSUME NEW lost \in BOOLEAN, RetireOp(c, lost) \/ DeleteOp(c, lost)
        PROVE  VersInv'
    BY <2>8, DeadWordVersions
  <2>. QED
    BY <1>1, <2>1, <2>2, <2>3, <2>4, <2>5, <2>6, <2>7, <2>8 DEF Serve
<1>2. ASSUME NEW c \in Clients, Request(c)
      PROVE  VersInv'
  BY <1>2, AskVersions
<1>3. CASE Render \/ OtaBegin \/ OtaEnd \/ UNCHANGED vars
  <2>1. used \in Used
    BY DEF StoreInv, TypeOK, WorldType
  <2>2. used'.saves = used.saves
    BY <1>3, <2>1 DEF Used, Render, SwapPin, SwapDecode, SwapInstall, FadeEnd, OtaBegin, OtaEnd, vars, rest
  <2>3. UNCHANGED <<flash, ram, req, holder>> /\ UNCHANGED locals
    BY <1>3 DEF Render, SwapPin, SwapDecode, SwapInstall, FadeEnd, OtaBegin, OtaEnd, vars, rest
  <2>. QED
    BY <2>2, <2>3, AsideVersions
<1>4. CASE PowerCut
  BY <1>4, PowerCutVersions
<1>. QED
  BY <1>1, <1>2, <1>3, <1>4 DEF Next

-----------------------------------------------------------------------------
(* Files: those indexed and those executed in place stand on flash.           *)

\* Two records tell of the same file at the same place; one may say it is dead.
SameFile(a, b) ==
    /\ a.off = b.off /\ a.name = b.name /\ a.seq = b.seq
    /\ a.stamp = b.stamp /\ a.ver = b.ver /\ a.len = b.len

\* The file is committed and whole where r says.
Stands(fl, r) ==
    /\ HeaderAt(fl, r.off) /\ SameFile(fl[r.off].rec, r)
    /\ PayloadWhole(fl, r)

Executed == engine.run \cup engine.prev \cup engine.decoding

\* The files that must stand: a swap inside a compaction is outside the argument.
Held == ram.index \cup (IF SwapInCompaction THEN {} ELSE Executed)

\* What is executed is pinned.
PinsHold ==
    /\ \A r \in engine.run : r.seq \in pins.running /\ (Swapping => r.seq \in pins.prev)
    /\ \A r \in engine.prev : r.seq \in pins.prev /\ ~Swapping
    /\ \A r \in engine.decoding : r.seq \in pins.code

\* Outside a compaction every such file stands, below the cursor.
AllStand == ~Compacting => \A r \in Held : Stands(flash, r) /\ End(r) <= ram.cursor

Frozen(r) == PagesOf(r.off, Size(r)) \subseteq FrozenPages(plan.keep, plan.pinned)

\* Inside one, those the plan saw pinned do, and what may be executed is pinned.
PinnedStand ==
    Compacting =>
        /\ ram.index \subseteq plan.keep
        /\ ~SwapInCompaction =>
             /\ pins.code \subseteq plan.pinned
             /\ \A r \in Held : r \in Executed \/ r.seq \in plan.pinned =>
                                    Stands(flash, r) /\ Frozen(r)

\* What an append erases and writes is apart from every such file.
PlaceIsFree ==
    Appending => \A r \in Held :
        Extent(r.off, Size(r)) \cap Cleared(job.rec.off, Size(job.rec)) = {}

\* The header of the new file goes onto an erased unit and is there from then on.
HeaderIsDue ==
    /\ phase = "erase" =>
         /\ page \in FreshPages(job.rec)
         /\ \A p \in FreshPages(job.rec) : p < page => PageErased(flash, p)
         /\ PageOf(job.rec.off) \in FreshPages(job.rec) \/ flash[job.rec.off] = Erased
    /\ phase = "header" => flash[job.rec.off] = Erased
    /\ phase \in {"payload", "commit"} => flash[job.rec.off] = Header(job.rec, FALSE, FALSE)
    /\ phase = "publish" => Stands(flash, job.rec)

\* The version a dead word is meant for is the one it replaces or removes.
OldIsMeant ==
    /\ Appending /\ job.old # NoRec =>
         The(job.old) \in ram.index /\ The(job.old).seq = job.rec.seq
    /\ phase = "retire" =>
         LET at == The(job.old).off
         IN  /\ HeaderAt(flash, at) /\ flash[at].rec.seq = job.rec.seq
             /\ flash[at].rec.ver # job.rec.ver
    /\ phase = "delete" => job.rec \in ram.index /\ job.old = {job.rec}

OneOfASeq == \A r, k \in ram.index : r.seq = k.seq => r = k

FilesInv ==
    /\ PinsHold /\ AllStand /\ PinnedStand
    /\ PlaceIsFree /\ HeaderIsDue /\ OldIsMeant /\ OneOfASeq

-----------------------------------------------------------------------------

\* The units of a file that stands.
LEMMA StandsFacts ==
    ASSUME NEW fl, NEW r \in File, Stands(fl, r)
    PROVE  /\ r.off \in Units /\ fl[r.off].kind = "header"
           /\ \A u \in Extent(r.off, Size(r)) :
                /\ u \in Units /\ fl[u] # Erased
                /\ u # r.off => fl[u] = Data(r.ver, u - r.off)
<1>1. /\ r \in Rec /\ r.off \in Units /\ r.off \in Nat /\ r.len \in Nat
      /\ Size(r) = 1 + r.len /\ r.off + 1 + r.len <= LogLen
  BY RecFacts DEF File, Rec, End, Size
<1>2. fl[r.off].kind = "header"
  BY DEF Stands, HeaderAt
<1>3. ASSUME NEW u \in Extent(r.off, Size(r)), u # r.off
      PROVE  fl[u] = Data(r.ver, u - r.off)
  <2>1. u - r.off \in 1 .. r.len /\ r.off + (u - r.off) = u
    BY <1>1, <1>3 DEF Extent
  <2>2. \A i \in 1 .. r.len : fl[r.off + i] = Data(r.ver, i)
    BY DEF Stands, PayloadWhole
  <2>3. fl[r.off + (u - r.off)] = Data(r.ver, u - r.off)
    BY <2>1, <2>2
  <2>. QED
    BY <2>1, <2>3
<1>4. \A u \in Extent(r.off, Size(r)) : u \in Units
  BY <1>1, LogFacts DEF Extent
<1>5. ASSUME NEW u \in Extent(r.off, Size(r))
      PROVE  fl[u] # Erased
  <2>1. fl[u].kind \in {"header", "data"}
    <3>1. CASE u = r.off
      BY <1>2, <3>1
    <3>2. CASE u # r.off
      <4>1. fl[u] = Data(r.ver, u - r.off)
        BY <1>3, <3>2
      <4>. QED
        BY <4>1 DEF Data
    <3>. QED
      BY <3>1, <3>2
  <2>2. Erased.kind = "erased"
    BY DEF Erased
  <2>. QED
    BY <2>1, <2>2
<1>. QED
  BY <1>1, <1>2, <1>3, <1>4, <1>5

\* A file stands on as long as nothing but a dead word falls into it.
LEMMA StandsOn ==
    ASSUME NEW fl \in [Units -> Cell], NEW gl, NEW r \in File, Stands(fl, r),
           \A u \in Extent(r.off, Size(r)) :
               gl[u] = fl[u] \/ (fl[u].kind = "header" /\ gl[u] = SetDead(fl[u]))
    PROVE  Stands(gl, r)
<1>1. /\ r.off \in Units /\ fl[r.off].kind = "header"
      /\ \A u \in Extent(r.off, Size(r)) : u # r.off => fl[u] = Data(r.ver, u - r.off)
  BY StandsFacts
<1>2. /\ r.off \in Nat /\ r.len \in Nat /\ r.off \in Extent(r.off, Size(r))
      /\ \A i \in 1 .. r.len : r.off + i \in Extent(r.off, Size(r)) /\ r.off + i # r.off
  BY RecFacts DEF File, Extent, Size
<1>3. \A i \in 1 .. r.len : gl[r.off + i] = fl[r.off + i]
  <2>. SUFFICES ASSUME NEW i \in 1 .. r.len
                PROVE  gl[r.off + i] = fl[r.off + i]
    OBVIOUS
  <2>1. fl[r.off + i] = Data(r.ver, (r.off + i) - r.off)
    BY <1>1, <1>2
  <2>2. fl[r.off + i].kind = "data"
    BY <2>1 DEF Data
  <2>. QED
    BY <1>2, <2>2
<1>4. gl[r.off].kind = "header" /\ gl[r.off].rec = fl[r.off].rec /\ gl[r.off].commit = fl[r.off].commit
  <2>1. fl[r.off] \in [kind : {"header"}, rec : Rec, commit : BOOLEAN, dead : BOOLEAN]
    BY <1>1, HeaderCell
  <2>. QED
    BY <1>1, <1>2, <2>1 DEF SetDead
<1>. QED
  BY <1>3, <1>4 DEF Stands, HeaderAt, PayloadWhole

\* What the scan emits stands, and the cursor is past it.
LEMMA EmittedStands ==
    ASSUME NEW fl \in [Units -> Cell], NEW r \in Emitted(fl)
    PROVE  Stands(fl, r)
<1>1. PICK at \in Scan(fl) : r = [fl[at].rec EXCEPT !.dead = fl[at].dead]
  BY DEF Emitted
<1>2. at \in Units /\ HeaderAt(fl, at) /\ PayloadWhole(fl, fl[at].rec) /\ fl[at].rec \in Rec
  BY <1>1, HeaderCell DEF Scan, Accepts, HeaderAt
<1>3. SameFile(fl[at].rec, r) /\ r.off = at
  BY <1>1, <1>2 DEF SameFile, HeaderAt, Rec
<1>. QED
  BY <1>2, <1>3 DEF Stands, SameFile, PayloadWhole, End, Size

\* What stands is found by the scan, in a record that says so.
LEMMA StandsEmitted ==
    ASSUME NEW fl \in [Units -> Cell], NEW r \in File, Stands(fl, r)
    PROVE  /\ \E e \in Emitted(fl) : SameFile(e, r)
           /\ End(r) <= ScanCursor(fl)
<1>1. r.off \in Units /\ HeaderAt(fl, r.off) /\ SameFile(fl[r.off].rec, r)
  BY StandsFacts DEF Stands
<1>2. PayloadWhole(fl, fl[r.off].rec) /\ End(fl[r.off].rec) = End(r)
  BY <1>1 DEF Stands, SameFile, PayloadWhole, End, Size
<1>3. r.off \in Scan(fl)
  BY <1>1, <1>2 DEF Scan, Accepts
<1>4. \E e \in Emitted(fl) : SameFile(e, r)
  <2>. DEFINE e == [fl[r.off].rec EXCEPT !.dead = fl[r.off].dead]
  <2>1. fl[r.off].rec \in Rec
    BY <1>1, HeaderCell DEF HeaderAt
  <2>2. e \in Emitted(fl) /\ SameFile(e, r)
    BY <1>1, <1>3, <2>1 DEF Emitted, SameFile, Rec
  <2>. QED
    BY <2>2
<1>5. End(r) <= ScanCursor(fl)
  <2>. DEFINE ends == { End(fl[at].rec) : at \in Scan(fl) }
  <2>1. End(r) \in ends
    BY <1>2, <1>3
  <2>2. \A e \in ends : e \in Nat /\ e <= LogLen
    <3>. SUFFICES ASSUME NEW at \in Scan(fl)
                  PROVE  End(fl[at].rec) \in Nat /\ End(fl[at].rec) <= LogLen
      OBVIOUS
    <3>1. at \in Units /\ fl[at].kind = "header" /\ End(fl[at].rec) <= LogLen
      BY DEF Scan, Accepts, HeaderAt, PayloadWhole
    <3>. QED
      BY <3>1, HeaderCell, RecFacts
  <2>3. ScanCursor(fl) = Max(ends)
    BY <2>1 DEF ScanCursor
  <2>. HIDE DEF ends
  <2>4. IsFiniteSet(ends) /\ ends \in SUBSET Nat /\ ends # {}
    BY <2>1, <2>2, LogFacts, FS_BoundedSetOfNaturals
  <2>. QED
    BY <2>1, <2>3, <2>4, MaxExists
<1>. QED
  BY <1>4, <1>5

\* After a reload every indexed file stands below the cursor, one of a seq.
LEMMA ReloadStands ==
    ASSUME NEW fl \in [Units -> Cell]
    PROVE  /\ ReloadOf(fl).cursor = ScanCursor(fl)
           /\ \A r \in ReloadOf(fl).index : Stands(fl, r) /\ End(r) <= ScanCursor(fl)
           /\ \A r, k \in ReloadOf(fl).index : r.seq = k.seq => r = k
<1>. DEFINE index == ReloadOf(fl).index
<1>1. /\ ReloadOf(fl).cursor = ScanCursor(fl) /\ index \subseteq Emitted(fl)
      /\ \A r \in index : ~r.dead
      /\ \A r, k \in index : k.seq = r.seq => k.stamp < r.stamp \/ (k.stamp = r.stamp /\ r.off <= k.off)
  BY DEF ReloadOf
<1>2. Emitted(fl) \subseteq File
  BY EmittedFiles
<1>. HIDE DEF index
<1>3. \A r \in index : Stands(fl, r) /\ End(r) <= ScanCursor(fl)
  BY <1>1, <1>2, EmittedStands, StandsEmitted
<1>4. ASSUME NEW r \in index, NEW k \in index, r.seq = k.seq
      PROVE  r = k
  <2>1. r \in Rec /\ k \in Rec
    BY <1>1, <1>2 DEF File
  <2>2. r.stamp \in Nat /\ k.stamp \in Nat /\ r.off \in Nat /\ k.off \in Nat
    BY <2>1, LogFacts DEF Rec
  <2>3. r.off = k.off
    <3>1. k.stamp < r.stamp \/ (k.stamp = r.stamp /\ r.off <= k.off)
      BY <1>1, <1>4
    <3>2. r.stamp < k.stamp \/ (r.stamp = k.stamp /\ k.off <= r.off)
      BY <1>1, <1>4
    <3>. QED
      BY <2>2, <3>1, <3>2
  <2>4. SameFile(fl[r.off].rec, r) /\ SameFile(fl[r.off].rec, k)
    BY <1>3, <2>3 DEF Stands
  <2>5. r.dead = FALSE /\ k.dead = FALSE
    BY <1>1, <2>1 DEF Rec
  <2>6. /\ r.name = k.name /\ r.seq = k.seq /\ r.stamp = k.stamp
        /\ r.ver = k.ver /\ r.len = k.len
    BY <2>4 DEF SameFile
  <2>. HIDE DEF Stands
  <2>. QED
    BY <2>1, <2>3, <2>5, <2>6 DEF Rec
<1>. QED
  BY <1>1, <1>3, <1>4 DEF index

-----------------------------------------------------------------------------
(* Where an append goes.                                                      *)

\* Wherever the store finds a place, what it clears there is erased already or
\* above the cursor, and the header gets an erased unit or the start of a page.
LEMMA FindPlaceFree ==
    ASSUME NEW fl, NEW r \in Ram, NEW size \in Nat \ {0},
           FindPlace(fl, r, size) # NoPlace
    PROVE  LET at == FindPlace(fl, r, size)
           IN  /\ r.cursor <= at \/ ErasedRange(fl, Cleared(at, size))
               /\ fl[at] = Erased \/ \E k \in Nat : at = k * PageSize
<1>. DEFINE at == FindPlace(fl, r, size)
<1>1. r.cursor \in Nat /\ r.freeHint \in Nat
  BY LogFacts DEF Ram
<1>2. CASE Place(fl, r.cursor, size) # NoPlace
  <2>1. at = Place(fl, r.cursor, size)
    BY <1>2 DEF FindPlace
  <2>2. /\ r.cursor <= Place(fl, r.cursor, size)
        /\ \/ fl[Place(fl, r.cursor, size)] = Erased
           \/ \E k \in Nat : Place(fl, r.cursor, size) = k * PageSize
    BY <1>1, <1>2, PlaceAbove
  <2>. QED
    BY <2>1, <2>2
<1>3. CASE Place(fl, r.cursor, size) = NoPlace
  <2>1. at = PlaceFree(fl, r.freeHint, size)
    BY <1>3 DEF FindPlace
  <2>2. ErasedRange(fl, Cleared(at, size))
    BY <1>1, <2>1, PlaceFreeErased
  <2>3. at \in Nat /\ at + size \in Nat
    BY FindPlaceFits, LogFacts
  <2>4. at \in Cleared(at, size)
    BY <2>3, AlignUp DEF Cleared
  <2>. QED
    BY <2>2, <2>4 DEF ErasedRange
<1>. QED
  BY <1>2, <1>3

\* So it is apart from every file that stands below the cursor.
LEMMA PlacedApart ==
    ASSUME NEW fl, NEW r \in File, Stands(fl, r), NEW cursor \in Nat, End(r) <= cursor,
           NEW at \in Nat, NEW size \in Nat \ {0},
           cursor <= at \/ ErasedRange(fl, Cleared(at, size))
    PROVE  Extent(r.off, Size(r)) \cap Cleared(at, size) = {}
<1>. SUFFICES ASSUME NEW u \in Extent(r.off, Size(r)), u \in Cleared(at, size)
              PROVE  FALSE
  OBVIOUS
<1>1. CASE cursor <= at
  <2>1. r.off \in Nat /\ Size(r) \in Nat /\ r.off + Size(r) <= cursor
    BY RecFacts DEF File
  <2>2. AlignPage(at + size) \in Nat
    BY AlignUp
  <2>3. u < r.off + Size(r) /\ at <= u
    BY <2>1, <2>2 DEF Extent, Cleared
  <2>. QED
    BY <1>1, <2>1, <2>3 DEF Extent
<1>2. CASE ErasedRange(fl, Cleared(at, size))
  BY <1>2, StandsFacts DEF ErasedRange
<1>. QED
  BY <1>1, <1>2

\* The page an append erases lies in what its placement clears.
LEMMA FreshInside ==
    ASSUME NEW rec \in Rec, NEW p \in FreshPages(rec), NEW u \in PageUnits(p)
    PROVE  u \in Cleared(rec.off, Size(rec)) /\ u \in Units
<1>1. /\ p \in Nat /\ AlignPage(rec.off) <= p * PageSize /\ p * PageSize < End(rec)
      /\ u \in Units /\ PageOf(u) = p
  BY GeometryAssumption DEF FreshPages, PageUnits, Pages
<1>2. /\ rec.off \in Nat /\ End(rec) = rec.off + Size(rec) /\ End(rec) \in Nat
      /\ u \in Nat
  BY <1>1, RecFacts, LogFacts
<1>3. /\ rec.off <= AlignPage(rec.off) /\ AlignPage(rec.off) \in Nat
  BY <1>2, AlignUp
<1>4. PICK k \in Nat : AlignPage(End(rec)) = k * PageSize /\ End(rec) <= k * PageSize
  BY <1>2, AlignUp
<1>5. /\ p * PageSize <= u /\ u < p * PageSize + PageSize
      /\ p * PageSize \in Nat /\ k * PageSize \in Nat
  BY <1>1, <1>2, <1>4, OnItsPage, PagesInOrder
<1>6. p < k
  <2>1. ~(k <= p)
    BY <1>1, <1>2, <1>4, <1>5, PagesInOrder
  <2>. QED
    BY <1>1, <1>4, <2>1
<1>7. p * PageSize + PageSize <= k * PageSize
  BY <1>1, <1>4, <1>6, PagesInOrder
<1>8. rec.off <= u /\ u < k * PageSize
  <2>. DEFINE start == p * PageSize
              end == k * PageSize
  <2>1. /\ start \in Nat /\ end \in Nat /\ PageSize \in Nat
        /\ AlignPage(rec.off) <= start /\ start <= u /\ u < start + PageSize /\ start + PageSize <= end
    BY <1>1, <1>5, <1>7, GeometryAssumption
  <2>. HIDE DEF start, end
  <2>2. rec.off <= u /\ u < end
    BY <1>2, <1>3, <2>1
  <2>. QED
    BY <2>2 DEF end
<1>9. AlignPage(rec.off + Size(rec)) = k * PageSize
  BY <1>2, <1>4
<1>. QED
  BY <1>1, <1>2, <1>5, <1>8, <1>9 DEF Cleared

\* Whatever an append writes lies in there too.
LEMMA AppendInside ==
    ASSUME StoreInv, HeaderIsDue, phase \in {"erase", "header", "payload", "commit"},
           NEW u \in DOMAIN Written
    PROVE  u \in Cleared(job.rec.off, Size(job.rec))
<1>1. job.rec \in File /\ job.rec \in Rec
  BY DEF StoreInv, TypeOK, TaskType, Appending, File
<1>2. /\ job.rec.off \in Nat /\ job.rec.len \in Nat /\ Size(job.rec) = 1 + job.rec.len
      /\ job.rec.off + Size(job.rec) \in Nat
  BY <1>1, RecFacts DEF Size
<1>3. AlignPage(job.rec.off + Size(job.rec)) \in Nat
      /\ job.rec.off + Size(job.rec) <= AlignPage(job.rec.off + Size(job.rec))
  BY <1>2, AlignUp
<1>4. CASE phase = "erase"
  <2>1. DOMAIN Written = PageUnits(page) /\ page \in FreshPages(job.rec)
    BY <1>4 DEF Written, HeaderIsDue
  <2>. QED
    BY <1>1, <2>1, FreshInside
<1>5. CASE phase \in {"header", "commit"}
  <2>1. u = job.rec.off
    BY <1>5 DEF Written
  <2>. QED
    BY <1>2, <1>3, <2>1 DEF Cleared
<1>6. CASE phase = "payload"
  <2>1. u \in PayloadUnits(job.rec)
    BY <1>6 DEF Written
  <2>2. u \in job.rec.off + 1 .. job.rec.off + 1 + job.rec.len - 1
    BY <2>1 DEF PayloadUnits, Extent
  <2>. QED
    BY <1>2, <1>3, <2>2 DEF Cleared
<1>. QED
  BY <1>4, <1>5, <1>6

\* An append goes for the first of its pages that is not erased yet; once there is
\* none, its header is due.
LEMMA EraseNext ==
    ASSUME NEW fl, NEW rec, NEW from \in Nat, GoErase(fl, rec, from),
           \A p \in FreshPages(rec) : p < from => PageErased(fl, p)
    PROVE  \/ /\ phase' = "erase" /\ page' \in FreshPages(rec)
              /\ \A p \in FreshPages(rec) : p < page' => PageErased(fl, p)
           \/ /\ phase' = "header"
              /\ \A p \in FreshPages(rec) : PageErased(fl, p)
<1>. DEFINE todo == { p \in FreshPages(rec) : p >= from /\ ~PageErased(fl, p) }
<1>1. /\ phase' = IF todo = {} THEN "header" ELSE "erase"
      /\ page' = IF todo = {} THEN 0 ELSE Min(todo)
  BY DEF GoErase
<1>2. FreshPages(rec) \subseteq Nat
  BY GeometryAssumption DEF FreshPages, Pages
<1>3. CASE todo = {}
  BY <1>1, <1>2, <1>3
<1>4. CASE todo # {}
  <2>1. page' = Min(todo) /\ phase' = "erase"
    BY <1>1, <1>4
  <2>2. Min(todo) \in todo /\ \A p \in todo : Min(todo) <= p
    BY <1>2, <1>4, MinExists, todo \in SUBSET Nat
  <2>3. PICK m \in todo : m = Min(todo) /\ \A p \in todo : m <= p
    BY <2>2
  <2>4. ASSUME NEW p \in FreshPages(rec), p < m
        PROVE  PageErased(fl, p)
    <3>1. p \in Nat /\ m \in Nat /\ p \notin todo
      BY <1>2, <2>3, <2>4
    <3>. QED
      BY <3>1
  <2>. QED
    BY <2>1, <2>3, <2>4
<1>. QED
  BY <1>3, <1>4

\* A header placed at the start of a page is on the first page it erases.
LEMMA AlignedIsFresh ==
    ASSUME NEW rec \in File, NEW k \in Nat, rec.off = k * PageSize
    PROVE  PageOf(rec.off) \in FreshPages(rec)
<1>1. /\ rec.off \in Nat /\ rec.off \in Units /\ Size(rec) \in Nat \ {0} /\ End(rec) = rec.off + Size(rec)
  BY RecFacts DEF File, Rec
<1>2. PageOf(rec.off) = k
  BY <1>1, OnOnePage, GeometryAssumption
<1>3. AlignPage(rec.off) = k * PageSize
  <2>1. PICK j \in Nat : AlignPage(rec.off) = j * PageSize
    BY <1>1, AlignUp
  <2>2. k * PageSize <= j * PageSize /\ j * PageSize < k * PageSize + PageSize
    BY <1>1, <2>1, AlignUp
  <2>3. PageOf(j * PageSize) = k /\ PageOf(j * PageSize) = j
    BY <2>2, OnOnePage, PagesInOrder, GeometryAssumption
  <2>. QED
    BY <2>1, <2>3
<1>4. k \in Pages
  <2>1. k * PageSize < NumPages * PageSize
    BY <1>1, LogFacts DEF LogLen
  <2>2. ~(NumPages <= k)
    BY <2>1, PagesInOrder, GeometryAssumption
  <2>. QED
    BY <2>2, GeometryAssumption DEF Pages
<1>. QED
  BY <1>1, <1>2, <1>3, <1>4 DEF FreshPages

\* What must stand are files of the log.
LEMMA HeldFiles ==
    ASSUME StoreInv
    PROVE  Held \subseteq File /\ ram.index \subseteq Held
BY DEF Held, Executed, StoreInv, TypeOK, WorldType, Ram, Engines

\* An append begins on a place that is free, with its header due.
LEMMA AppendBegins ==
    ASSUME NEW fl \in [Units -> Cell], NEW r \in Ram, NEW rec \in Rec, NEW old, NEW existed,
           FindPlace(fl, r, Size(rec)) # NoPlace,
           GoAppend(fl, r, rec, old, existed, FindPlace(fl, r, Size(rec))),
           flash' = fl, NEW S \in SUBSET File,
           \A x \in S : Stands(fl, x) /\ End(x) <= r.cursor
    PROVE  /\ phase' \in {"erase", "header"} /\ HeaderIsDue'
           /\ job'.old = old /\ job'.rec.seq = rec.seq
           /\ \A x \in S : Extent(x.off, Size(x)) \cap Cleared(job'.rec.off, Size(job'.rec)) = {}
<1>. DEFINE size == Size(rec)
            at == FindPlace(fl, r, size)
            placed == [rec EXCEPT !.off = at, !.stamp = r.nextStamp]
<1>1. size \in Nat \ {0} /\ r.cursor \in Nat
  BY RecFacts, LogFacts DEF Ram
<1>2. /\ at \in Units /\ at \in Nat /\ at + size <= LogLen
      /\ r.cursor <= at \/ ErasedRange(fl, Cleared(at, size))
      /\ fl[at] = Erased \/ \E k \in Nat : at = k * PageSize
  BY <1>1, FindPlaceFits, FindPlaceFree, LogFacts
<1>3. job' = [rec |-> placed, old |-> old, existed |-> existed] /\ GoErase(fl, placed, 0)
  BY DEF GoAppend
<1>. HIDE DEF at
<1>4. /\ placed \in Rec /\ placed.off = at /\ placed.seq = rec.seq /\ Size(placed) = size
      /\ placed \in File
  BY <1>2 DEF Rec, Ram, Size, File, End
<1>. HIDE DEF placed, size
<1>5. PageOf(at) \in FreshPages(placed) \/ fl[at] = Erased
  BY <1>2, <1>4, AlignedIsFresh
<1>6. \/ /\ phase' = "erase" /\ page' \in FreshPages(placed)
         /\ \A p \in FreshPages(placed) : p < page' => PageErased(fl, p)
      \/ /\ phase' = "header"
         /\ \A p \in FreshPages(placed) : PageErased(fl, p)
  <2>1. \A p \in FreshPages(placed) : p < 0 => PageErased(fl, p)
    BY GeometryAssumption DEF FreshPages, Pages
  <2>. QED
    BY <1>3, <2>1, EraseNext
<1>7. phase' = "header" => fl[at] = Erased
  <2>1. ASSUME PageErased(fl, PageOf(at))
        PROVE  fl[at] = Erased
    BY <1>2, <2>1 DEF PageErased, ErasedRange, PageUnits
  <2>. QED
    BY <1>5, <1>6, <2>1
<1>8. HeaderIsDue'
  BY <1>3, <1>4, <1>5, <1>6, <1>7 DEF HeaderIsDue
<1>9. \A x \in S : Extent(x.off, Size(x)) \cap Cleared(at, size) = {}
  BY <1>1, <1>2, PlacedApart
<1>. QED
  BY <1>3, <1>4, <1>6, <1>8, <1>9

\* Everything that is executed is pinned.
LEMMA ExecutedPinned ==
    ASSUME PinsHold, NEW r \in Executed
    PROVE  r.seq \in Pinned
BY DEF PinsHold, Executed, Pinned

\* A plan freezes the pages of every pinned file that stands.
LEMMA PlanFreezes ==
    ASSUME StoreInv, AllStand, ~Compacting, NEW r \in Held, r.seq \in Pinned
    PROVE  PagesOf(r.off, Size(r)) \subseteq FrozenPages(CompactionPlan.keep, CompactionPlan.pinned)
<1>. DEFINE keep == CompactionPlan.keep
<1>1. /\ keep = ram.index \cup { e \in Emitted(flash) :
                    e.seq \in Pinned /\ e.off \notin { l.off : l \in ram.index } }
      /\ CompactionPlan.pinned = Pinned
  BY DEF CompactionPlan
<1>2. /\ flash \in [Units -> Cell] /\ r \in File
      /\ \A k \in Held : Stands(flash, k) /\ k \in File
  BY HeldFiles DEF AllStand, StoreInv, TypeOK, WorldType
<1>3. PICK e \in Emitted(flash) : SameFile(e, r)
  BY <1>2, StandsEmitted
<1>4. \E k \in keep : k.seq \in Pinned /\ k.off = r.off /\ Size(k) = Size(r)
  <2>1. CASE e.off \notin { l.off : l \in ram.index }
    BY <1>1, <1>3, <2>1 DEF SameFile, Size
  <2>2. CASE e.off \in { l.off : l \in ram.index }
    <3>1. PICK l \in ram.index : l.off = r.off
      BY <1>3, <2>2 DEF SameFile
    <3>2. SameFile(flash[r.off].rec, r) /\ SameFile(flash[r.off].rec, l)
      BY <1>2, <3>1, HeldFiles DEF Stands
    <3>. QED
      BY <1>1, <3>1, <3>2 DEF SameFile, Size
  <2>. QED
    BY <2>1, <2>2
<1>. HIDE DEF keep
<1>5. PICK k \in keep : k.seq \in Pinned /\ k.off = r.off /\ Size(k) = Size(r)
  BY <1>4
<1>6. PagesOf(k.off, Size(k)) \subseteq FrozenPages(keep, Pinned)
  BY <1>5 DEF FrozenPages
<1>. QED
  BY <1>1, <1>5, <1>6 DEF keep

\* A file on frozen pages stands through any operation of a compaction.
LEMMA FrozenStands ==
    ASSUME StoreInv, Compacting, NEW r \in File, Stands(flash, r), Frozen(r),
           NEW fl, \A u \in Units : u \notin DOMAIN Written => fl[u] = flash[u]
    PROVE  Stands(fl, r)
<1>1. flash \in [Units -> Cell]
  BY DEF StoreInv, TypeOK, WorldType
<1>2. ASSUME NEW u \in Extent(r.off, Size(r))
      PROVE  fl[u] = flash[u]
  <2>1. u \in Units /\ PageOf(u) \in FrozenPages(plan.keep, plan.pinned)
    BY StandsFacts DEF Frozen, PagesOf
  <2>2. u \in PageUnits(PageOf(u))
    BY <2>1 DEF PageUnits
  <2>3. u \notin DOMAIN Written
    BY <2>1, <2>2, NothingFrozenWritten
  <2>. QED
    BY <2>1, <2>3
<1>. QED
  BY <1>1, <1>2, StandsOn

\* A flash operation writes the units it is about.
LEMMA OperateWrites ==
    ASSUME StoreInv, NEW lost, Operate(lost)
    PROVE  /\ \A u \in Units : u \notin DOMAIN Written => flash'[u] = flash[u]
           /\ ~lost => \A u \in Units : u \in DOMAIN Written => flash'[u] = Written[u]
           /\ \A u \in Units : flash'[u] = flash[u] \/ (u \in DOMAIN Written /\ flash'[u] = Written[u])
<1>1. \A u \in Units : u < LogLen /\ LogLen \in Nat /\ u # LogLen
  BY LogFacts
<1>2. \A u \in Units : Upto(LogLen, FALSE)[u] =
           IF u \in DOMAIN Written THEN Written[u] ELSE flash[u]
  BY <1>1 DEF Upto
<1>. QED
  BY <1>2 DEF Operate

-----------------------------------------------------------------------------

\* A step that leaves the files, the index and the transaction alone.
LEMMA AsideFiles ==
    ASSUME FilesInv, UNCHANGED <<flash, ram, engine, pins>>, UNCHANGED locals
    PROVE  FilesInv'
<1>1. UNCHANGED <<flash, ram, engine, pins, phase, job, plan, page, buf>>
  BY DEF locals
<1>2. Held' = Held /\ Executed' = Executed
  BY <1>1 DEF Held, Executed
<1>3. PinsHold' /\ AllStand' /\ OneOfASeq'
  BY <1>1, <1>2 DEF FilesInv, PinsHold, AllStand, OneOfASeq, Swapping, Compacting
<1>4. PinnedStand' /\ PlaceIsFree'
  BY <1>1, <1>2 DEF FilesInv, PinnedStand, PlaceIsFree, Compacting, Appending, Frozen
<1>5. HeaderIsDue'
  BY <1>1, Zenon DEF FilesInv, HeaderIsDue
<1>6. Appending' = Appending
  BY <1>1 DEF Appending
<1>7. OldIsMeant'
  <2>. OldIsMeant
    BY DEF FilesInv
  <2>. QED
    BY <1>1, <1>6 DEF OldIsMeant
<1>. QED
  BY <1>3, <1>4, <1>5, <1>7 DEF FilesInv

\* At first there is no file.
LEMMA FilesInit == Init => FilesInv
<1>. SUFFICES ASSUME Init PROVE FilesInv
  OBVIOUS
<1>1. flash \in [Units -> Cell] /\ ram = ReloadOf(flash) /\ phase = "none"
      /\ engine = [run |-> {}, prev |-> {}, decoding |-> {}]
  BY CellFacts DEF Init
<1>2. AllStand /\ OneOfASeq
  BY <1>1, ReloadStands DEF AllStand, OneOfASeq, Held, Executed
<1>3. PinsHold
  BY <1>1 DEF PinsHold
<1>. QED
  BY <1>1, <1>2, <1>3 DEF FilesInv, PinnedStand, PlaceIsFree, HeaderIsDue, OldIsMeant, Compacting, Appending

\* Boot: what a reload finds stands, and nothing is executed.
LEMMA PowerCutFiles ==
    ASSUME StoreInv', PowerCut
    PROVE  FilesInv'
<1>1. /\ ram' = ReloadOf(flash') /\ phase' = "none"
      /\ engine' = [run |-> {}, prev |-> {}, decoding |-> {}]
  BY DEF PowerCut, Boot
<1>2. flash' \in [Units -> Cell]
  BY DEF StoreInv, TypeOK, WorldType
<1>3. AllStand' /\ OneOfASeq'
  BY <1>1, <1>2, ReloadStands DEF AllStand, OneOfASeq, Held, Executed
<1>4. PinsHold'
  BY <1>1 DEF PinsHold
<1>. QED
  BY <1>1, <1>3, <1>4 DEF FilesInv, PinnedStand, PlaceIsFree, HeaderIsDue, OldIsMeant, Compacting, Appending

\* The render task executes what the index has, pinned before it is decoded.
LEMMA RenderFiles ==
    ASSUME StoreInv, FilesInv, Render
    PROVE  FilesInv'
<1>1. UNCHANGED <<flash, ram>> /\ UNCHANGED locals
  BY DEF Render, SwapPin, SwapDecode, SwapInstall, FadeEnd
<1>2. engine \in Engines /\ pins \in PinSlots
  BY DEF StoreInv, TypeOK, WorldType
<1>3. /\ PinsHold'
      /\ \A r \in Executed' : r \in Executed \/ (r \in ram.index /\ r.seq \in pins.code)
      /\ pins'.code \subseteq pins.code \/ (Compacting => SwapInCompaction)
  <2>1. CASE SwapPin
    <3>1. PICK r \in ram.index, fade \in BOOLEAN :
             /\ ~Swapping
             /\ pins' = [pins EXCEPT !.code = {r.seq},
                            !.prev = IF fade /\ engine.run # {} THEN pins.running ELSE {}]
             /\ engine' = [engine EXCEPT !.prev = {}, !.run = IF fade THEN @ ELSE {}]
      BY <2>1 DEF SwapPin
    <3>2. /\ engine'.run = (IF fade THEN engine.run ELSE {}) /\ engine'.prev = {}
          /\ engine'.decoding = engine.decoding
          /\ pins'.running = pins.running
          /\ pins'.prev = (IF fade /\ engine.run # {} THEN pins.running ELSE {})
      BY <1>2, <3>1 DEF Engines, PinSlots
    <3>3. engine.decoding = {}
      BY <3>1 DEF FilesInv, PinsHold, Swapping
    <3>4. PinsHold'
      BY <3>2, <3>3 DEF FilesInv, PinsHold
    <3>5. \A x \in Executed' : x \in Executed
      BY <3>2, <3>3 DEF Executed
    <3>. QED
      BY <2>1, <3>4, <3>5 DEF SwapPin
  <2>2. CASE SwapDecode
    <3>. DEFINE seq == The(pins.code)
                found == RecBySeq(ram.index, seq)
    <3>1. Swapping /\ engine.decoding = {}
      BY <2>2 DEF SwapDecode
    <3>2. seq \in pins.code
      BY <3>1, Zenon DEF Swapping, The
    <3>3. \A x \in found : x \in ram.index /\ x.seq = seq
      BY DEF RecBySeq
    <3>. HIDE DEF seq, found
    <3>4. \/ pins' = [pins EXCEPT !.code = {}, !.prev = {}] /\ engine' = engine
          \/ engine' = [engine EXCEPT !.decoding = found] /\ pins' = [pins EXCEPT !.current = {seq}]
      BY <2>2 DEF SwapDecode, seq, found
    <3>5. CASE pins' = [pins EXCEPT !.code = {}, !.prev = {}] /\ engine' = engine
      BY <1>2, <3>1, <3>5 DEF FilesInv, PinsHold, PinSlots, Executed, Swapping
    <3>6. CASE engine' = [engine EXCEPT !.decoding = found] /\ pins' = [pins EXCEPT !.current = {seq}]
      BY <1>2, <3>1, <3>2, <3>3, <3>6 DEF FilesInv, PinsHold, PinSlots, Engines, Executed, Swapping
    <3>. QED
      BY <3>4, <3>5, <3>6
  <2>3. CASE SwapInstall
    <3>1. /\ engine'.run = engine.decoding /\ engine'.prev = engine.run /\ engine'.decoding = {}
          /\ pins'.running = pins.code /\ pins'.code = {}
          /\ pins'.prev = IF engine.run = {} THEN {} ELSE pins.prev
      BY <1>2, <2>3 DEF SwapInstall, PinSlots
    <3>2. Swapping
      BY <2>3 DEF SwapInstall, FilesInv, PinsHold, Swapping
    <3>3. PinsHold'
      BY <3>1, <3>2 DEF FilesInv, PinsHold, Swapping
    <3>. QED
      BY <3>1, <3>3 DEF Executed
  <2>4. CASE FadeEnd
    BY <1>2, <2>4 DEF FadeEnd, FilesInv, PinsHold, PinSlots, Engines, Executed, Swapping
  <2>. QED
    BY <2>1, <2>2, <2>3, <2>4 DEF Render
<1>4. Held' \subseteq Held
  BY <1>1, <1>3 DEF Held
<1>5. AllStand' /\ PlaceIsFree'
  BY <1>1, <1>4 DEF FilesInv, AllStand, PlaceIsFree, Compacting, Appending, locals
<1>6. PinnedStand'
  BY <1>1, <1>3, <1>4, HeldFiles DEF FilesInv, PinnedStand, Compacting, Frozen, locals
<1>7. HeaderIsDue' /\ OldIsMeant' /\ OneOfASeq'
  BY <1>1 DEF FilesInv, HeaderIsDue, OldIsMeant, OneOfASeq, Appending, locals
<1>. QED
  BY <1>3, <1>5, <1>6, <1>7 DEF FilesInv

\* A transaction that ends leaves standing files behind.
LEMMA AnswerFiles ==
    ASSUME PinsHold, UNCHANGED <<engine, pins>>, phase' = "none",
           \A r \in Held' : Stands(flash', r) /\ End(r) <= ram'.cursor, OneOfASeq'
    PROVE  FilesInv'
<1>1. PinsHold'
  BY DEF PinsHold, Swapping
<1>2. AllStand'
  BY DEF AllStand
<1>. QED
  BY <1>1, <1>2 DEF FilesInv, PinnedStand, PlaceIsFree, HeaderIsDue, OldIsMeant, Compacting, Appending

\* A save begins: an append on a free place, or a compaction with the pins read.
LEMMA BeginSaveFiles ==
    ASSUME StoreInv, FilesInv, NEW c \in Clients, BeginSave(c)
    PROVE  FilesInv'
<1>. DEFINE q == req[c]
            old == RecByName(q.name)
            seq == IF old = NoRec THEN ram.nextSeq ELSE The(old).seq
            off == FindPlace(flash, ram, 1 + q.len)
            pl == CompactionPlan
            rec == [ off |-> 0, name |-> q.name, seq |-> seq, stamp |-> 0,
                     ver |-> q.ver, len |-> q.len, dead |-> FALSE ]
<1>1. /\ q.op = "save" /\ holder = NoClient /\ phase = "none"
      /\ UNCHANGED <<flash, ram, engine, pins>>
  BY DEF BeginSave, GuardFree, rest, StoreInv, TypeOK, TaskType
<1>2. q.name \in Names /\ q.len \in Lens /\ q.ver \in Versions
  BY <1>1 DEF StoreInv, TypeOK, TaskType, Requests, Idle
<1>3. flash \in [Units -> Cell] /\ ram \in Ram /\ ram.index \subseteq File
  BY DEF StoreInv, TypeOK, WorldType, Ram
<1>4. \A r \in Held : Stands(flash, r) /\ End(r) <= ram.cursor
  BY <1>1 DEF FilesInv, AllStand, Compacting
<1>5. Held' = Held
  BY <1>1 DEF Held, Executed
<1>6. old \subseteq ram.index /\ seq \in Nat
  <2>1. old \subseteq ram.index
    BY DEF RecByName
  <2>. HIDE DEF old
  <2>. QED
    BY <2>1, <1>3, TheOld DEF Ram, File, Rec
<1>7. rec \in Rec /\ Size(rec) = 1 + q.len /\ rec.seq = seq
  <2>. HIDE DEF seq, q
  <2>. QED
    BY <1>2, <1>6, LogFacts DEF Rec, Size
<1>8. \/ req' = [req EXCEPT ![c] = Idle] /\ UNCHANGED <<holder, locals>>
      \/ off # NoPlace /\ GoAppend(flash, ram, rec, old, old # NoRec, off)
      \/ plan' = pl /\ GoCompact(flash, pl, 0)
  BY DEF BeginSave
<1>9. PinsHold' /\ OneOfASeq'
  BY <1>1 DEF FilesInv, PinsHold, OneOfASeq, Swapping
<1>10. CASE UNCHANGED <<holder, locals>>
  <2>. HIDE DEF seq, rec, old
  <2>1. UNCHANGED <<flash, ram, engine, pins>> /\ UNCHANGED locals
    BY <1>1, <1>10
  <2>. QED
    BY <2>1, AsideFiles
<1>11. CASE off # NoPlace /\ GoAppend(flash, ram, rec, old, old # NoRec, off)
  <2>1. old # NoRec => The(old) \in old /\ seq = The(old).seq
    BY Zenon DEF The, NoRec
  <2>. HIDE DEF old, seq, rec
  <2>2. /\ phase' \in {"erase", "header"} /\ HeaderIsDue'
        /\ job'.old = old /\ job'.rec.seq = seq
        /\ \A x \in Held : Extent(x.off, Size(x)) \cap Cleared(job'.rec.off, Size(job'.rec)) = {}
    BY <1>1, <1>3, <1>4, <1>7, <1>11, HeldFiles, AppendBegins
  <2>3. OldIsMeant'
    BY <1>1, <1>6, <2>1, <2>2 DEF OldIsMeant
  <2>4. AllStand' /\ PlaceIsFree'
    BY <1>1, <1>4, <1>5, <2>2 DEF AllStand, PlaceIsFree
  <2>. QED
    BY <1>9, <2>2, <2>3, <2>4 DEF FilesInv, PinnedStand, Compacting
<1>12. CASE plan' = pl /\ GoCompact(flash, pl, 0)
  <2>1. phase' \in {"vacate", "rewrite", "sweep", "reload"}
    BY <1>12 DEF GoCompact, GoSweep
  <2>2. ram.index \subseteq pl.keep /\ pl.pinned = Pinned
    BY DEF CompactionPlan
  <2>3. ASSUME NEW r \in Held, r \in Executed \/ r.seq \in Pinned
        PROVE  PagesOf(r.off, Size(r)) \subseteq FrozenPages(pl.keep, pl.pinned)
    <3>1. r.seq \in Pinned
      BY <2>3, ExecutedPinned DEF FilesInv
    <3>. QED
      BY <1>1, <3>1, PlanFreezes DEF FilesInv, Compacting
  <2>4. pins.code \subseteq Pinned
    BY DEF Pinned
  <2>. HIDE DEF pl
  <2>5. PinnedStand'
    BY <1>1, <1>4, <1>5, <1>12, <2>2, <2>3, <2>4 DEF PinnedStand, Frozen, Executed
  <2>6. AllStand' /\ PlaceIsFree' /\ HeaderIsDue' /\ OldIsMeant'
    BY <2>1 DEF AllStand, PlaceIsFree, HeaderIsDue, OldIsMeant, Compacting, Appending
  <2>. QED
    BY <1>9, <2>5, <2>6 DEF FilesInv
<1>. QED
  BY <1>8, <1>10, <1>11, <1>12

\* A compaction leaves the pinned files standing.
LEMMA CompactionFiles ==
    ASSUME StoreInv, FilesInv, NEW c \in Clients, NEW lost \in BOOLEAN,
           VacateOp(c, lost) \/ RewriteOp(c, lost) \/ SweepOp(c, lost)
    PROVE  FilesInv'
<1>1. /\ Compacting /\ Operate(lost)
      /\ UNCHANGED <<ram, plan, engine, pins>>
  BY DEF VacateOp, RewriteOp, SweepOp, Compacting
<1>2. phase' \in {"vacate", "rewrite", "sweep", "reload"}
  BY DEF VacateOp, RewriteOp, SweepOp, GoCompact, GoSweep
<1>3. Held' = Held
  BY <1>1 DEF Held, Executed
<1>4. \A u \in Units : u \notin DOMAIN Written => flash'[u] = flash[u]
  BY <1>1, OperateWrites
<1>5. PinnedStand'
  <2>1. /\ ram.index \subseteq plan.keep
        /\ ~SwapInCompaction =>
             /\ pins.code \subseteq plan.pinned
             /\ \A r \in Held : r \in Executed \/ r.seq \in plan.pinned =>
                                    Stands(flash, r) /\ Frozen(r)
    BY <1>1 DEF FilesInv, PinnedStand
  <2>2. \A r \in Held : Stands(flash, r) /\ Frozen(r) => Stands(flash', r)
    BY <1>1, <1>4, HeldFiles, FrozenStands
  <2>. QED
    BY <1>1, <1>3, <2>1, <2>2 DEF PinnedStand, Frozen, Executed
<1>6. PinsHold' /\ OneOfASeq'
  BY <1>1 DEF FilesInv, PinsHold, OneOfASeq, Swapping
<1>7. AllStand' /\ PlaceIsFree' /\ HeaderIsDue' /\ OldIsMeant'
  BY <1>2 DEF AllStand, PlaceIsFree, HeaderIsDue, OldIsMeant, Compacting, Appending
<1>. QED
  BY <1>5, <1>6, <1>7 DEF FilesInv

\* After it the index is what stands on flash, and the append begins.
LEMMA ReloadFiles ==
    ASSUME StoreInv, StoreInv', FilesInv, NEW c \in Clients, Reload(c)
    PROVE  FilesInv'
<1>. DEFINE off == FindPlace(flash, ram', Size(job.rec))
            old == OldVersion(ram'.index)
<1>1. /\ phase = "reload" /\ Compacting /\ ram' = ReloadOf(flash)
      /\ UNCHANGED <<flash, engine, pins>>
  BY DEF Reload, rest, Compacting
<1>2. flash \in [Units -> Cell] /\ ram' \in Ram /\ job.rec \in Rec
  BY <1>1 DEF StoreInv, TypeOK, WorldType, TaskType
<1>3. OneOfASeq' /\ PinsHold'
  BY <1>1, <1>2, ReloadStands DEF FilesInv, OneOfASeq, PinsHold, Swapping
<1>4. \A r \in Held' : r \in File /\ Stands(flash, r) /\ End(r) <= ram'.cursor
  <2>. SUFFICES ASSUME NEW r \in Held'
                PROVE  r \in File /\ Stands(flash, r) /\ End(r) <= ram'.cursor
    OBVIOUS
  <2>1. CASE r \in ram'.index
    BY <1>1, <1>2, <2>1, ReloadStands DEF Ram
  <2>2. CASE ~SwapInCompaction /\ r \in Executed
    <3>1. r \in Held /\ r \in File
      BY <2>2, HeldFiles DEF Held
    <3>2. Stands(flash, r)
      BY <1>1, <2>2, <3>1 DEF FilesInv, PinnedStand
    <3>. QED
      BY <1>1, <1>2, <3>1, <3>2, StandsEmitted, ReloadStands
  <2>3. Executed' = Executed
    BY <1>1 DEF Executed
  <2>. QED
    BY <2>1, <2>2, <2>3 DEF Held
<1>5. Answer(c) \/ (off # NoPlace /\ GoAppend(flash, ram', job.rec, old, job.existed, off))
  BY DEF Reload
<1>6. CASE Answer(c)
  BY <1>1, <1>3, <1>4, <1>6, AnswerFiles DEF Answer, FilesInv
<1>7. CASE off # NoPlace /\ GoAppend(flash, ram', job.rec, old, job.existed, off)
  <2>1. Held' \in SUBSET File
    BY <1>4
  <2>2. old \subseteq ram'.index /\ \A x \in old : x.seq = job.rec.seq
    BY DEF OldVersion, RecBySeq, NoRec
  <2>3. old # NoRec => The(old) \in old
    BY Zenon DEF The, NoRec
  <2>. HIDE DEF old
  <2>4. /\ phase' \in {"erase", "header"} /\ HeaderIsDue'
        /\ job'.old = old /\ job'.rec.seq = job.rec.seq
        /\ \A x \in Held' : Extent(x.off, Size(x)) \cap Cleared(job'.rec.off, Size(job'.rec)) = {}
    BY <1>1, <1>2, <1>4, <1>7, <2>1, AppendBegins
  <2>5. OldIsMeant'
    BY <2>2, <2>3, <2>4 DEF OldIsMeant
  <2>6. AllStand' /\ PlaceIsFree'
    BY <1>1, <1>4, <2>4 DEF AllStand, PlaceIsFree
  <2>. QED
    BY <1>3, <2>4, <2>5, <2>6 DEF FilesInv, PinnedStand, Compacting
<1>. QED
  BY <1>5, <1>6, <1>7

\* A write of an append disturbs no file that stands.
LEMMA AppendLeaves ==
    ASSUME StoreInv, FilesInv, phase \in {"erase", "header", "payload", "commit"},
           NEW lost \in BOOLEAN, Operate(lost) \/ flash' = flash, NEW r \in Held
    PROVE  Stands(flash', r) /\ End(r) <= ram.cursor
<1>1. /\ Stands(flash, r) /\ End(r) <= ram.cursor
      /\ Extent(r.off, Size(r)) \cap Cleared(job.rec.off, Size(job.rec)) = {}
  BY DEF FilesInv, AllStand, PlaceIsFree, Compacting, Appending
<1>2. r \in File /\ flash \in [Units -> Cell]
  BY HeldFiles DEF StoreInv, TypeOK, WorldType
<1>3. CASE flash' = flash
  BY <1>1, <1>3
<1>4. CASE Operate(lost)
  <2>1. ASSUME NEW u \in Extent(r.off, Size(r))
        PROVE  flash'[u] = flash[u]
    <3>1. u \in Units
      BY <1>1, <1>2, StandsFacts
    <3>2. u \notin DOMAIN Written
      BY <1>1, AppendInside DEF FilesInv
    <3>. QED
      BY <1>4, <3>1, <3>2, OperateWrites
  <2>2. Stands(flash', r)
    BY <1>1, <1>2, <2>1, StandsOn
  <2>. QED
    BY <1>1, <2>2
<1>. QED
  BY <1>3, <1>4

\* The header goes down on an erased unit, then the payload beside it, then the
\* commit word in it.
LEMMA HeaderGoesOn ==
    ASSUME StoreInv, FilesInv, phase \in {"erase", "header", "payload", "commit"},
           phase = "commit" => PayloadWhole(flash, job.rec),
           Operate(FALSE), NextStep, UNCHANGED job
    PROVE  HeaderIsDue'
<1>. DEFINE rec == job.rec
            at == rec.off
<1>1. /\ rec \in File /\ rec \in Rec /\ at \in Units /\ at \in Nat /\ rec.len \in Nat
      /\ flash[at] \in Cell
  BY RecFacts DEF StoreInv, TypeOK, WorldType, TaskType, Appending, File, Rec
<1>2. \A u \in Units : flash'[u] = IF u \in DOMAIN Written THEN Written[u] ELSE flash[u]
  BY OperateWrites
<1>. HIDE DEF rec
<1>3. CASE phase = "erase"
  <2>1. /\ page \in FreshPages(rec) /\ page \in Nat
        /\ \A p \in FreshPages(rec) : p \in Nat /\ (p < page => PageErased(flash, p))
        /\ PageOf(at) \in FreshPages(rec) \/ flash[at] = Erased
    BY <1>3, GeometryAssumption DEF FilesInv, HeaderIsDue, FreshPages, Pages, rec
  <2>2. Written = [v \in PageUnits(page) |-> Erased]
    BY <1>3 DEF Written
  <2>3. /\ \A u \in Units : flash[u] = Erased => flash'[u] = Erased
        /\ \A u \in PageUnits(page) : flash'[u] = Erased
    BY <1>2, <2>2 DEF PageUnits
  <2>4. \A p \in FreshPages(rec) : p < page + 1 => PageErased(flash', p)
    <3>. SUFFICES ASSUME NEW p \in FreshPages(rec), p < page + 1
                  PROVE  PageErased(flash', p)
      OBVIOUS
    <3>1. CASE p = page
      BY <2>3, <3>1 DEF PageErased, ErasedRange, PageUnits
    <3>2. CASE p < page
      BY <2>1, <2>3, <3>2 DEF PageErased, ErasedRange
    <3>3. p \in Nat /\ page \in Nat
      BY <2>1
    <3>4. p = page \/ p < page
      BY <3>3
    <3>. QED
      BY <3>1, <3>2, <3>4
  <2>5. GoErase(flash', rec, page + 1) /\ page + 1 \in Nat
    BY <1>3, <2>1 DEF NextStep, rec
  <2>6. \/ /\ phase' = "erase" /\ page' \in FreshPages(rec)
           /\ \A p \in FreshPages(rec) : p < page' => PageErased(flash', p)
        \/ /\ phase' = "header"
           /\ \A p \in FreshPages(rec) : PageErased(flash', p)
    BY <2>4, <2>5, EraseNext
  <2>7. phase' = "header" => flash'[at] = Erased
    <3>1. ASSUME PageErased(flash', PageOf(at))
          PROVE  flash'[at] = Erased
      BY <1>1, <3>1 DEF PageErased, ErasedRange, PageUnits
    <3>. QED
      BY <1>1, <2>1, <2>3, <2>6, <3>1
  <2>8. PageOf(at) \in FreshPages(rec) \/ flash'[at] = Erased
    BY <1>1, <2>1, <2>3
  <2>. QED
    BY <2>6, <2>7, <2>8 DEF HeaderIsDue, rec
<1>4. CASE phase = "header"
  <2>1. Written = [v \in {at} |-> Program(flash[v], Header(rec, FALSE, FALSE))] /\ flash[at] = Erased
    BY <1>4 DEF Written, FilesInv, HeaderIsDue, rec
  <2>2. flash'[at] = Header(rec, FALSE, FALSE)
    BY <1>1, <1>2, <2>1 DEF Program
  <2>3. phase' = "payload"
    BY <1>4 DEF NextStep
  <2>. QED
    BY <2>2, <2>3 DEF HeaderIsDue, rec
<1>5. CASE phase = "payload"
  <2>1. at \notin DOMAIN Written
    <3>1. DOMAIN Written \subseteq PayloadUnits(rec)
      BY <1>5 DEF Written, rec
    <3>2. at \notin PayloadUnits(rec)
      BY <1>1 DEF PayloadUnits, Extent
    <3>. QED
      BY <3>1, <3>2
  <2>2. flash'[at] = Header(rec, FALSE, FALSE)
    BY <1>1, <1>2, <1>5, <2>1 DEF FilesInv, HeaderIsDue, rec
  <2>3. phase' \in {"payload", "commit"}
    BY <1>5 DEF NextStep
  <2>. QED
    BY <2>2, <2>3 DEF HeaderIsDue, rec
<1>6. CASE phase = "commit"
  <2>1. Written = [v \in {at} |-> SetCommit(flash[v])] /\ flash[at] = Header(rec, FALSE, FALSE)
    BY <1>6 DEF Written, FilesInv, HeaderIsDue, rec
  <2>2. flash'[at] = Header(rec, TRUE, FALSE)
    <3>1. SetCommit(Header(rec, FALSE, FALSE)) = Header(rec, TRUE, FALSE)
      BY DEF SetCommit, Header
    <3>. QED
      BY <1>1, <1>2, <2>1, <3>1
  <2>3. End(rec) <= LogLen /\ \A i \in 1 .. rec.len : flash[at + i] = Data(rec.ver, i)
    BY <1>6 DEF PayloadWhole, rec
  <2>4. \A i \in 1 .. rec.len : flash'[at + i] = Data(rec.ver, i)
    <3>1. \A i \in 1 .. rec.len : at + i \in Units /\ at + i # at
      BY <1>1, <2>3, LogFacts DEF End, Size
    <3>. QED
      BY <1>2, <2>1, <2>3, <3>1
  <2>5. Stands(flash', rec)
    BY <2>2, <2>3, <2>4 DEF Stands, HeaderAt, SameFile, PayloadWhole, Header
  <2>6. phase' = "publish"
    BY <1>6 DEF NextStep
  <2>. QED
    BY <2>5, <2>6 DEF HeaderIsDue, rec
<1>. QED
  BY <1>3, <1>4, <1>5, <1>6

\* An append goes on without touching a file that stands, until its own does.
LEMMA AppendFiles ==
    ASSUME StoreInv, FilesInv, NEW c \in Clients, NEW lost \in BOOLEAN, AppendOp(c, lost)
    PROVE  FilesInv'
<1>1. /\ phase \in {"erase", "header", "payload", "commit"}
      /\ UNCHANGED <<ram, engine, pins>>
      /\ Operate(lost) \/ flash' = flash
  BY DEF AppendOp, Appending
<1>2. Held' = Held
  BY <1>1 DEF Held, Executed
<1>3. \A r \in Held : Stands(flash', r) /\ End(r) <= ram.cursor
  BY <1>1, AppendLeaves
<1>4. OneOfASeq' /\ PinsHold'
  BY <1>1 DEF FilesInv, OneOfASeq, PinsHold, Swapping
<1>5. \/ Answer(c)
      \/ /\ NextStep /\ UNCHANGED <<req, holder, job, plan, buf>> /\ Operate(FALSE)
         /\ phase = "commit" => PayloadWhole(flash, job.rec)
  BY DEF AppendOp, Succeeded
<1>6. CASE Answer(c)
  BY <1>1, <1>2, <1>3, <1>4, <1>6, AnswerFiles DEF Answer, FilesInv
<1>7. CASE /\ NextStep /\ UNCHANGED <<req, holder, job, plan, buf>> /\ Operate(FALSE)
           /\ phase = "commit" => PayloadWhole(flash, job.rec)
  <2>1. phase' \in {"erase", "header", "payload", "commit", "publish"}
    BY <1>1, <1>7 DEF NextStep, GoErase
  <2>2. HeaderIsDue'
    BY <1>1, <1>7, HeaderGoesOn
  <2>3. AllStand' /\ PlaceIsFree' /\ OldIsMeant'
    BY <1>1, <1>2, <1>3, <1>7, <2>1 DEF FilesInv, AllStand, PlaceIsFree, OldIsMeant, Appending
  <2>. QED
    BY <1>4, <2>1, <2>2, <2>3 DEF FilesInv, PinnedStand, Compacting
<1>. QED
  BY <1>5, <1>6, <1>7

\* The new file enters the index standing, and what it replaces is named.
LEMMA PublishFiles ==
    ASSUME StoreInv, VersInv, FilesInv, NEW c \in Clients, Publish(c)
    PROVE  FilesInv'
<1>. DEFINE rec == job.rec
            index == Replaced(ram.index, rec)
            cursor == IF ram.cursor < End(rec) THEN End(rec) ELSE ram.cursor
<1>1. /\ phase = "publish" /\ Appending /\ holder = c
      /\ UNCHANGED <<flash, engine, pins>>
  BY DEF Publish, Appending
<1>2. /\ ram \in Ram /\ rec \in File /\ End(rec) \in Nat /\ ram.cursor \in Nat
      /\ Stands(flash, rec)
  BY <1>1, RecFacts, LogFacts
  DEF StoreInv, TypeOK, WorldType, TaskType, File, Ram, FilesInv, HeaderIsDue
<1>3. ram'.index = index /\ ram'.cursor = cursor
  BY <1>2 DEF Publish, Ram
<1>4. \A r \in Held : Stands(flash, r) /\ End(r) <= ram.cursor /\ End(r) \in Nat
  BY <1>1, HeldFiles, RecFacts DEF FilesInv, AllStand, Compacting, File
<1>5. \A r \in Held' : r \in Held \/ r = rec
  BY <1>1, <1>3 DEF Held, Executed, Replaced
<1>6. \A r \in Held' : Stands(flash, r) /\ End(r) <= cursor
  <2>. HIDE DEF rec
  <2>1. ram.cursor <= cursor /\ End(rec) <= cursor
    BY <1>2
  <2>. HIDE DEF cursor
  <2>2. cursor \in Nat
    BY <1>2 DEF cursor
  <2>. QED
    BY <1>2, <1>4, <1>5, <2>1, <2>2
<1>7. OneOfASeq' /\ PinsHold'
  BY <1>1, <1>3 DEF FilesInv, OneOfASeq, PinsHold, Swapping, Replaced
<1>8. CASE Answer(c)
  BY <1>1, <1>3, <1>6, <1>7, <1>8, AnswerFiles DEF Answer, FilesInv
<1>9. CASE job.old # NoRec /\ phase' = "retire" /\ UNCHANGED <<req, holder, job, plan, page, buf, promise>>
  <2>. DEFINE old == The(job.old)
  <2>1. old \in ram.index /\ old.seq = rec.seq
    BY <1>1, <1>9 DEF FilesInv, OldIsMeant
  <2>. HIDE DEF old
  <2>2. Stands(flash, old)
    BY <1>4, <2>1, HeldFiles
  <2>3. HeaderAt(flash, old.off) /\ flash[old.off].rec.seq = rec.seq /\ flash[old.off].rec.ver = old.ver
    BY <2>1, <2>2 DEF Stands, SameFile
  <2>4. old.ver # rec.ver
    <3>1. Settled(old.ver, req, used.saves)
      BY <1>1, <2>1 DEF VersInv, IndexIsOld
    <3>2. holder \in Clients /\ req[holder].op = "save" /\ rec.ver = req[holder].ver
      BY <1>1 DEF StoreInv, TypeOK, TaskType, VersInv, JobIsTheRequest
    <3>. QED
      BY <3>1, <3>2 DEF Settled
  <2>5. OldIsMeant'
    BY <1>1, <1>9, <2>3, <2>4 DEF OldIsMeant, Appending, old
  <2>6. AllStand'
    BY <1>1, <1>3, <1>6 DEF AllStand
  <2>. QED
    BY <1>7, <1>9, <2>5, <2>6 DEF FilesInv, PinnedStand, PlaceIsFree, HeaderIsDue, Compacting, Appending
<1>. QED
  BY <1>8, <1>9 DEF Publish

\* A delete takes the guard with a record the index still has.
LEMMA BeginDeleteFiles ==
    ASSUME StoreInv, FilesInv, ~StaleLookups, NEW c \in Clients, BeginDelete(c)
    PROVE  FilesInv'
<1>1. /\ phase = "none" /\ phase' = "delete" /\ UNCHANGED <<flash, ram, engine, pins>>
      /\ job' = [rec |-> req[c].rec, old |-> {req[c].rec}, existed |-> TRUE]
      /\ req[c].rec \in ram.index
  BY DEF BeginDelete, Fresh, GuardFree, rest, StoreInv, TypeOK, TaskType
<1>2. OldIsMeant'
  BY <1>1 DEF OldIsMeant, Appending
<1>3. AllStand' /\ PinsHold' /\ OneOfASeq'
  BY <1>1 DEF FilesInv, AllStand, PinsHold, OneOfASeq, Swapping, Compacting, Held, Executed
<1>. QED
  BY <1>1, <1>2, <1>3 DEF FilesInv, PinnedStand, PlaceIsFree, HeaderIsDue, Compacting, Appending

\* The dead word is written into the header it is meant for.
LEMMA DeadWordHits ==
    ASSUME StoreInv, FilesInv, phase \in {"retire", "delete"}
    PROVE  /\ HeaderAt(flash, The(job.old).off)
           /\ flash[The(job.old).off].rec.seq = job.rec.seq
           /\ phase = "delete" => /\ job.rec \in ram.index
                                  /\ flash[The(job.old).off].rec.ver = job.rec.ver
<1>1. CASE phase = "retire"
  BY <1>1 DEF FilesInv, OldIsMeant
<1>2. CASE phase = "delete"
  <2>1. job.rec \in ram.index /\ job.old = {job.rec}
    BY <1>2 DEF FilesInv, OldIsMeant
  <2>2. The(job.old) = job.rec
    BY <2>1 DEF The
  <2>3. Stands(flash, job.rec)
    BY <1>2, <2>1, HeldFiles DEF FilesInv, AllStand, Compacting
  <2>. QED
    BY <2>1, <2>2, <2>3 DEF Stands, SameFile
<1>. QED
  BY <1>1, <1>2

\* So every file stands on.
LEMMA DeadWordFiles ==
    ASSUME StoreInv, FilesInv, NEW c \in Clients, NEW lost \in BOOLEAN,
           RetireOp(c, lost) \/ DeleteOp(c, lost)
    PROVE  FilesInv'
<1>1. /\ phase \in {"retire", "delete"} /\ Operate(lost) /\ Answer(c)
      /\ UNCHANGED <<engine, pins>>
  BY DEF RetireOp, DeleteOp
<1>2. ram'.index \subseteq ram.index /\ ram'.cursor = ram.cursor
  <2>1. ram \in Ram
    BY DEF StoreInv, TypeOK, WorldType
  <2>. QED
    BY <2>1 DEF RetireOp, DeleteOp, Ram, Removed
<1>3. Held' \subseteq Held
  BY <1>1, <1>2 DEF Held, Executed
<1>4. \A u \in Units : flash'[u] = flash[u] \/ (flash[u].kind = "header" /\ flash'[u] = SetDead(flash[u]))
  <2>1. Written = [u \in {The(job.old).off} |-> SetDead(flash[u])]
    BY <1>1 DEF Written
  <2>2. flash[The(job.old).off].kind = "header"
    BY <1>1, DeadWordHits DEF HeaderAt
  <2>. QED
    BY <1>1, <2>1, <2>2, OperateWrites
<1>5. ASSUME NEW r \in Held
      PROVE  Stands(flash', r) /\ End(r) <= ram'.cursor
  <2>1. Stands(flash, r) /\ End(r) <= ram.cursor /\ r \in File /\ flash \in [Units -> Cell]
    BY <1>1, HeldFiles DEF FilesInv, AllStand, Compacting, StoreInv, TypeOK, WorldType
  <2>2. \A u \in Extent(r.off, Size(r)) : u \in Units
    BY <2>1, StandsFacts
  <2>. QED
    BY <1>2, <1>4, <2>1, <2>2, StandsOn
<1>6. OneOfASeq'
  BY <1>2 DEF FilesInv, OneOfASeq
<1>. QED
  BY <1>1, <1>3, <1>5, <1>6, AnswerFiles DEF Answer, FilesInv

\* Every step keeps what must stand standing, when lookups do not go stale.
LEMMA FilesStep ==
    ASSUME ~StaleLookups
    PROVE  StoreInv /\ StoreInv' /\ VersInv /\ FilesInv /\ [Next]_vars => FilesInv'
<1>. SUFFICES ASSUME StoreInv, StoreInv', VersInv, FilesInv, [Next]_vars
              PROVE  FilesInv'
  OBVIOUS
<1>1. ASSUME NEW c \in Clients, Serve(c)
      PROVE  FilesInv'
  <2>1. CASE GiveUp(c) \/ GetCopy(c)
    BY <2>1, AsideFiles DEF GiveUp, GetCopy, rest
  <2>2. CASE BeginSave(c)
    BY <2>2, BeginSaveFiles
  <2>3. CASE Reload(c)
    BY <2>3, ReloadFiles
  <2>4. CASE Publish(c)
    BY <2>4, PublishFiles
  <2>5. CASE BeginDelete(c)
    BY <2>5, BeginDeleteFiles
  <2>6. ASSUME NEW lost \in BOOLEAN, VacateOp(c, lost) \/ RewriteOp(c, lost) \/ SweepOp(c, lost)
        PROVE  FilesInv'
    BY <2>6, CompactionFiles
  <2>7. ASSUME NEW lost \in BOOLEAN, AppendOp(c, lost)
        PROVE  FilesInv'
    BY <2>7, AppendFiles
  <2>8. ASSUME NEW lost \in BOOLEAN, RetireOp(c, lost) \/ DeleteOp(c, lost)
        PROVE  FilesInv'
    BY <2>8, DeadWordFiles
  <2>. QED
    BY <1>1, <2>1, <2>2, <2>3, <2>4, <2>5, <2>6, <2>7, <2>8 DEF Serve
<1>2. CASE \/ \E c \in Clients : Request(c)
           \/ OtaBegin \/ OtaEnd \/ UNCHANGED vars
  <2>1. UNCHANGED <<flash, ram, engine, pins>> /\ UNCHANGED locals
    BY <1>2 DEF Request, RequestSave, RequestDelete, RequestGet, OtaBegin, OtaEnd, vars, rest
  <2>. QED
    BY <2>1, AsideFiles
<1>3. CASE Render
  BY <1>3, RenderFiles
<1>4. CASE PowerCut
  BY <1>4, PowerCutFiles
<1>. QED
  BY <1>1, <1>2, <1>3, <1>4 DEF Next

-----------------------------------------------------------------------------
(* What holds in every state.                                                 *)

\* Whatever is on flash, in the index or in the plan of a compaction was saved
\* by an earlier request than those under way: no two saves share a version
\* (every task of the web server writes a file of its own, save_rec).
THEOREM VersionsInvariant == Spec => []VersInv
<1>. QED
  BY StoreInvariant, VersInit, VersStep, PTL DEF Spec

\* FilesInv holds in every state, as long as no delete or read goes by a record
\* that was superseded or moved while it waited for the guard.
THEOREM FilesInvariant == ~StaleLookups => (Spec => []FilesInv)
<1>. SUFFICES ASSUME ~StaleLookups PROVE Spec => []FilesInv
  OBVIOUS
<1>1. StoreInv /\ StoreInv' /\ VersInv /\ FilesInv /\ [Next]_vars => FilesInv'
  BY FilesStep
<1>. QED
  BY <1>1, StoreInvariant, VersionsInvariant, FilesInit, PTL DEF Spec

\* A dead word (mark_dead) lands in a header of the file it is meant for: in an
\* older version when a save retires one, in the indexed one when it is deleted.
THEOREM DeadWordsHit == ~StaleLookups => (Spec => []DeadWordHitsItsFile)
<1>. SUFFICES ASSUME ~StaleLookups PROVE Spec => []DeadWordHitsItsFile
  OBVIOUS
<1>1. StoreInv /\ FilesInv => DeadWordHitsItsFile
  <2>. SUFFICES ASSUME StoreInv, FilesInv, phase \in {"retire", "delete"}
                PROVE  DeadWordHitsItsFile
    BY DEF DeadWordHitsItsFile
  <2>1. /\ HeaderAt(flash, The(job.old).off)
        /\ flash[The(job.old).off].rec.seq = job.rec.seq
        /\ phase = "delete" => /\ job.rec \in ram.index
                               /\ flash[The(job.old).off].rec.ver = job.rec.ver
    BY DeadWordHits
  <2>2. phase = "delete" => \A k \in RecBySeq(ram.index, job.rec.seq) : k = job.rec
    BY <2>1 DEF FilesInv, OneOfASeq, RecBySeq
  <2>3. phase = "retire" => flash[The(job.old).off].rec.ver # job.rec.ver
    BY DEF FilesInv, OldIsMeant
  <2>. QED
    BY <2>1, <2>2, <2>3 DEF DeadWordHitsItsFile, HeaderAt
<1>2. Spec => []FilesInv
  BY FilesInvariant
<1>. QED
  BY <1>1, <1>2, StoreInvariant, PTL

\* Every file the index hands out is on flash, whole, where the index says,
\* outside a compaction: whatever operation of an append, of a repack or of a
\* dead word was refused, was torn by a power cut, or was done and reported as
\* failed, in whatever order the tasks of the web server came.
THEOREM IndexedFilesStand == ~StaleLookups => (Spec => []IndexStands)
<1>. SUFFICES ASSUME ~StaleLookups PROVE Spec => []IndexStands
  OBVIOUS
<1>1. FilesInv => IndexStands
  <2>. SUFFICES ASSUME FilesInv, ~Compacting, NEW r \in ram.index
                PROVE  Intact(r)
    BY DEF IndexStands
  <2>1. Stands(flash, r)
    BY DEF FilesInv, AllStand, Held
  <2>. QED
    BY <2>1 DEF Intact, Stands, SameFile
<1>2. Spec => []FilesInv
  BY FilesInvariant
<1>. QED
  BY <1>1, <1>2, PTL

\* What an engine executes in place, through saves, deletes, compactions, power
\* cuts and updates, is byte for byte the file it decoded, as long as no swap
\* falls inside a compaction (compact reads the pins once).
THEOREM ExecutedStands ==
    ~StaleLookups /\ ~SwapInCompaction => (Spec => []ExecutedIntact)
<1>. SUFFICES ASSUME ~StaleLookups, ~SwapInCompaction PROVE Spec => []ExecutedIntact
  OBVIOUS
<1>1. FilesInv => ExecutedIntact
  <2>. SUFFICES ASSUME FilesInv, NEW r \in Executed
                PROVE  Intact(r)
    BY DEF ExecutedIntact, Executed
  <2>1. r \in Held
    BY DEF Held
  <2>2. Stands(flash, r)
    BY <2>1 DEF FilesInv, AllStand, PinnedStand
  <2>. QED
    BY <2>2 DEF Intact, Stands, SameFile
<1>2. Spec => []FilesInv
  BY FilesInvariant
<1>. QED
  BY <1>1, <1>2, PTL

\* Two files that stand on one flash at different places have no unit in common:
\* the payload of neither holds the header of the other.
LEMMA StandApart ==
    ASSUME NEW fl \in [Units -> Cell], NEW r \in File, NEW k \in File,
           Stands(fl, r), Stands(fl, k), r.off # k.off
    PROVE  Extent(r.off, Size(r)) \cap Extent(k.off, Size(k)) = {}
<1>1. /\ r.off \in Nat /\ k.off \in Nat /\ r.len \in Nat /\ k.len \in Nat
      /\ Size(r) = 1 + r.len /\ Size(k) = 1 + k.len
  BY RecFacts DEF File, Size
<1>2. fl[r.off].kind = "header" /\ fl[k.off].kind = "header"
  BY DEF Stands, HeaderAt
<1>3. ASSUME NEW i \in 1 .. r.len
      PROVE  k.off # r.off + i
  <2>1. fl[r.off + i] = Data(r.ver, i)
    BY DEF Stands, PayloadWhole
  <2>2. Data(r.ver, i).kind = "data"
    BY DEF Data
  <2>. QED
    BY <1>2, <2>1, <2>2
<1>4. ASSUME NEW i \in 1 .. k.len
      PROVE  r.off # k.off + i
  <2>1. fl[k.off + i] = Data(k.ver, i)
    BY DEF Stands, PayloadWhole
  <2>2. Data(k.ver, i).kind = "data"
    BY DEF Data
  <2>. QED
    BY <1>2, <2>1, <2>2
<1>5. ASSUME r.off < k.off
      PROVE  r.off + r.len < k.off
  <2>. SUFFICES ASSUME k.off <= r.off + r.len PROVE FALSE
    BY <1>1
  <2>1. k.off - r.off \in 1 .. r.len /\ k.off = r.off + (k.off - r.off)
    BY <1>1, <1>5
  <2>. QED
    BY <1>3, <2>1
<1>6. ASSUME k.off < r.off
      PROVE  k.off + k.len < r.off
  <2>. SUFFICES ASSUME r.off <= k.off + k.len PROVE FALSE
    BY <1>1
  <2>1. r.off - k.off \in 1 .. k.len /\ r.off = k.off + (r.off - k.off)
    BY <1>1, <1>6
  <2>. QED
    BY <1>4, <2>1
<1>. QED
  BY <1>1, <1>5, <1>6 DEF Extent

\* Between compactions the indexed files stand, so they are apart.
LEMMA IndexedApart ==
    ASSUME StoreInv, FilesInv, ~Compacting
    PROVE  FilesApart
<1>. SUFFICES ASSUME NEW r \in ram.index, NEW k \in ram.index, r # k
              PROVE  r.seq # k.seq /\ Extent(r.off, Size(r)) \cap Extent(k.off, Size(k)) = {}
  BY DEF FilesApart
<1>1. r \in File /\ k \in File /\ flash \in [Units -> Cell] /\ r \in Held /\ k \in Held
  BY HeldFiles DEF StoreInv, TypeOK, WorldType
<1>2. r.seq # k.seq
  BY DEF FilesInv, OneOfASeq
<1>3. Stands(flash, r) /\ Stands(flash, k)
  BY <1>1 DEF FilesInv, AllStand
<1>4. r.off # k.off
  BY <1>2, <1>3 DEF Stands, SameFile
<1>. QED
  BY <1>1, <1>2, <1>3, <1>4, StandApart

\* The index stays what it was on the way into and through a compaction.
LEMMA CompactingKeepsIndex == [Next]_vars /\ Compacting' => ram'.index = ram.index
<1>. SUFFICES ASSUME [Next]_vars, Compacting' PROVE ram'.index = ram.index
  OBVIOUS
<1>1. ASSUME NEW c \in Clients, Serve(c)
      PROVE  ram'.index = ram.index
  <2>1. CASE GiveUp(c) \/ GetCopy(c) \/ BeginSave(c) \/ BeginDelete(c)
    BY <2>1 DEF GiveUp, GetCopy, BeginSave, BeginDelete
  <2>2. CASE Reload(c)
    BY <2>2 DEF Reload, Answer, GoAppend, GoErase, Compacting
  <2>3. CASE Publish(c)
    BY <2>3 DEF Publish, Answer, Compacting
  <2>4. ASSUME NEW lost \in BOOLEAN,
               \/ VacateOp(c, lost) \/ RewriteOp(c, lost) \/ SweepOp(c, lost)
               \/ AppendOp(c, lost) \/ RetireOp(c, lost)
        PROVE  ram'.index = ram.index
    BY <2>4 DEF VacateOp, RewriteOp, SweepOp, AppendOp, RetireOp
  <2>5. ASSUME NEW lost \in BOOLEAN, DeleteOp(c, lost)
        PROVE  ram'.index = ram.index
    BY <2>5 DEF DeleteOp, Answer, Compacting
  <2>. QED
    BY <1>1, <2>1, <2>2, <2>3, <2>4, <2>5 DEF Serve
<1>2. ASSUME NEW c \in Clients, Request(c)
      PROVE  ram'.index = ram.index
  BY <1>2 DEF Request, RequestSave, RequestDelete, RequestGet
<1>3. CASE Render
  BY <1>3 DEF Render, SwapPin, SwapDecode, SwapInstall, FadeEnd
<1>4. CASE PowerCut
  BY <1>4 DEF PowerCut, Boot, Compacting
<1>5. CASE OtaBegin \/ OtaEnd \/ UNCHANGED vars
  BY <1>5 DEF OtaBegin, OtaEnd, vars
<1>. QED
  BY <1>1, <1>2, <1>3, <1>4, <1>5 DEF Next

\* No two indexed files have one seq, and none lies over another: whatever is
\* placed, compacted, lost in a cut or rebuilt, the index (INDEX of patterns.rs)
\* never leads two ids to the same bytes.
THEOREM FilesStayApart == ~StaleLookups => (Spec => []FilesApart)
<1>. SUFFICES ASSUME ~StaleLookups PROVE Spec => []FilesApart
  OBVIOUS
<1>1. Init => FilesApart
  <2>. SUFFICES ASSUME Init PROVE FilesApart
    OBVIOUS
  <2>1. StoreInv /\ FilesInv /\ ~Compacting
    BY StoreInit, FilesInit DEF Init, Compacting
  <2>. QED
    BY <2>1, IndexedApart
<1>2. StoreInv /\ FilesInv /\ ~Compacting => FilesApart
  BY IndexedApart
<1>3. [Next]_vars /\ Compacting' /\ FilesApart => FilesApart'
  BY CompactingKeepsIndex DEF FilesApart
<1>4. Spec => []FilesInv
  BY FilesInvariant
<1>. QED
  BY <1>1, <1>2, <1>3, <1>4, StoreInvariant, PTL DEF Spec

-----------------------------------------------------------------------------
(* A compaction nothing interrupts: what is on the pages it has done, what is *)
(* still to be copied, and what it leaves.                                    *)

\* The new place of a kept file.
NewExtent(pl, r) == Extent(pl.to[r], Size(r))

\* The cell a kept file needs in a unit of its new place.
IsDue(cell, pl, r, u) ==
    IF u = pl.to[r]
    THEN cell.kind = "header" /\ cell.commit /\ SameFile(cell.rec, [r EXCEPT !.off = u])
    ELSE cell = Data(r.ver, u - pl.to[r])

FilesDue(cell, pl, u) == \A r \in pl.keep : u \in NewExtent(pl, r) => IsDue(cell, pl, r, u)

\* ... or nothing, if the unit is to be in no file.
Due(cell, pl, u) ==
    /\ FilesDue(cell, pl, u)
    /\ (\A r \in pl.keep : u \notin NewExtent(pl, r)) => cell = Erased

\* The pages below f are what they should be; a frozen page always was.
Repacked(fl, pl, f) ==
    \A u \in Units :
        /\ PageOf(u) \in RepackPages(pl) /\ PageOf(u) < f => Due(fl[u], pl, u)
        /\ PageOf(u) \in FrozenPages(pl.keep, pl.pinned) => FilesDue(fl[u], pl, u)

\* What goes to page f and above is still where it comes from.
SourcesFrom(fl, pl, f) ==
    \A r \in pl.keep : \A u \in NewExtent(pl, r) :
        PageOf(u) >= f /\ u # pl.to[r] =>
            fl[u - pl.to[r] + r.off] = Data(r.ver, u - pl.to[r])

\* No two kept files have one address.
OffsDiffer(pl) == \A r, k \in pl.keep : r.off = k.off => r = k

\* No update stops a repack; page by page it turns what is due, built from sources
\* that still stand, into what is done.
RepackInv ==
    /\ ~ota
    /\ Compacting => OffsDiffer(plan)
    /\ phase \in {"vacate", "rewrite"} =>
         /\ Repacked(flash, plan, page) /\ SourcesFrom(flash, plan, page + 1)
         /\ \A u \in PageUnits(page) : Due(buf[u], plan, u)
    /\ phase = "rewrite" => PageErased(flash, page)
    /\ phase \in {"sweep", "reload"} => Repacked(flash, plan, NumPages)

-----------------------------------------------------------------------------

\* The units of a kept file's new place, and where each comes from.
LEMMA NewPlace ==
    ASSUME NEW pl, PlanSound(pl), NEW r \in pl.keep, NEW u \in NewExtent(pl, r)
    PROVE  /\ r \in Rec /\ r \in File /\ pl.to[r] \in Nat /\ u \in Units /\ u \in Nat
           /\ pl.to[r] <= u /\ u < pl.to[r] + Size(r)
           /\ u - pl.to[r] + r.off \in Units /\ u <= u - pl.to[r] + r.off
           /\ u # pl.to[r] => u - pl.to[r] \in 1 .. r.len
           /\ u \in PageUnits(PageOf(u)) /\ PageOf(u) \in Nat
<1>1. r \in File /\ pl.to[r] \in Units /\ pl.to[r] <= r.off
  BY DEF PlanSound, PlanHolds
<1>2. r \in Rec /\ End(r) <= LogLen
  BY <1>1 DEF File
<1>3. /\ r.off \in Nat /\ r.len \in Nat /\ Size(r) = 1 + r.len /\ End(r) = r.off + Size(r)
  BY <1>2, RecFacts DEF Size
<1>4. pl.to[r] \in Nat /\ LogLen \in Nat
  BY <1>1, LogFacts
<1>5. u \in Int /\ pl.to[r] <= u /\ u <= pl.to[r] + Size(r) - 1
  BY <1>3, <1>4 DEF NewExtent, Extent
<1>6. u \in Nat /\ u < LogLen /\ u - pl.to[r] + r.off \in Nat /\ u - pl.to[r] + r.off < LogLen
      /\ u <= u - pl.to[r] + r.off /\ (u # pl.to[r] => u - pl.to[r] \in 1 .. r.len)
  BY <1>1, <1>2, <1>3, <1>4, <1>5
<1>7. u \in Units /\ u - pl.to[r] + r.off \in Units
  BY <1>6, LogFacts
<1>8. u \in PageUnits(PageOf(u)) /\ PageOf(u) \in Nat
  BY <1>6, <1>7, OnItsPage DEF PageUnits
<1>. QED
  BY <1>1, <1>2, <1>3, <1>4, <1>5, <1>6, <1>7, <1>8

\* The new places of two kept files are apart.
LEMMA NewPlacesApart ==
    ASSUME NEW pl, PlanSound(pl), OffsDiffer(pl), NEW r \in pl.keep, NEW k \in pl.keep,
           NEW u \in NewExtent(pl, r), u \in NewExtent(pl, k)
    PROVE  r = k
<1>1. /\ pl.to[r] <= u /\ u < pl.to[r] + Size(r) /\ pl.to[k] <= u /\ u < pl.to[k] + Size(k)
      /\ u \in Nat /\ pl.to[r] \in Nat /\ pl.to[k] \in Nat
      /\ r \in Rec /\ k \in Rec
  BY NewPlace
<1>2. r.off \in Nat /\ k.off \in Nat /\ Size(r) \in Nat /\ Size(k) \in Nat
  BY <1>1, RecFacts
<1>3. /\ r.off < k.off => pl.to[r] + Size(r) <= pl.to[k]
      /\ k.off < r.off => pl.to[k] + Size(k) <= pl.to[r]
  BY DEF PlanSound, PlanHolds
<1>4. r.off = k.off
  BY <1>1, <1>2, <1>3
<1>. QED
  BY <1>4 DEF OffsDiffer

\* A page is built as it should be, as long as its sources stand.
LEMMA BuiltDue ==
    ASSUME NEW fl, NEW pl, PlanSound(pl), OffsDiffer(pl), NEW f \in Nat, SourcesFrom(fl, pl, f),
           NEW p \in Nat, f <= p, NEW u \in PageUnits(p)
    PROVE  Due(BuildPage(fl, pl.keep, pl.to, p)[u], pl, u)
<1>. DEFINE owners == { r \in pl.keep : u \in Extent(pl.to[r], Size(r)) }
            own == CHOOSE k \in owners : TRUE
            cell == BuildPage(fl, pl.keep, pl.to, p)[u]
<1>1. cell =
         IF owners = {} THEN Erased
         ELSE IF u = pl.to[own] THEN HeaderAnew(own, pl.to[own])
         ELSE fl[u - pl.to[own] + own.off]
  BY DEF BuildPage
<1>2. ASSUME NEW r \in pl.keep, u \in NewExtent(pl, r)
      PROVE  IsDue(cell, pl, r, u)
  <2>1. owners # {} /\ own \in owners
    BY <1>2 DEF NewExtent
  <2>2. own = r
    BY <1>2, <2>1, NewPlacesApart DEF NewExtent
  <2>3. PageOf(u) = p /\ r \in Rec
    BY <1>2, NewPlace DEF PageUnits
  <2>. HIDE DEF own, owners, cell
  <2>4. CASE u = pl.to[r]
    <3>1. cell = Header([r EXCEPT !.off = u, !.dead = FALSE], TRUE, r.dead)
      BY <1>1, <2>1, <2>2, <2>4 DEF HeaderAnew
    <3>2. SameFile([r EXCEPT !.off = u, !.dead = FALSE], [r EXCEPT !.off = u])
      BY <2>3 DEF SameFile, Rec
    <3>. QED
      BY <2>4, <3>1, <3>2 DEF IsDue, Header
  <2>5. CASE u # pl.to[r]
    <3>1. cell = fl[u - pl.to[r] + r.off]
      BY <1>1, <2>1, <2>2, <2>5
    <3>2. PageOf(u) >= f
      BY <2>3
    <3>3. fl[u - pl.to[r] + r.off] = Data(r.ver, u - pl.to[r])
      BY <1>2, <2>5, <3>2 DEF SourcesFrom
    <3>. QED
      BY <2>5, <3>1, <3>3 DEF IsDue
  <2>. QED
    BY <2>4, <2>5
<1>3. ASSUME \A r \in pl.keep : u \notin NewExtent(pl, r)
      PROVE  cell = Erased
  BY <1>1, <1>3 DEF NewExtent
<1>. QED
  BY <1>2, <1>3 DEF Due, FilesDue

\* The packed log ends where the last new place does.
LEMMA PackedEnds ==
    ASSUME NEW pl, PlanSound(pl)
    PROVE  /\ Packed(pl.keep, pl.to) \in Nat
           /\ \A r \in pl.keep : pl.to[r] + Size(r) <= Packed(pl.keep, pl.to)
           /\ pl.keep # {} => \E r \in pl.keep : pl.to[r] + Size(r) = Packed(pl.keep, pl.to)
<1>. DEFINE ends == { pl.to[r] + Size(r) : r \in pl.keep }
<1>1. ASSUME NEW r \in pl.keep
      PROVE  pl.to[r] + Size(r) \in Nat /\ pl.to[r] + Size(r) <= LogLen
  <2>1. r \in File /\ pl.to[r] \in Nat /\ pl.to[r] <= r.off
    BY LogFacts DEF PlanSound, PlanHolds
  <2>2. r \in Rec /\ End(r) <= LogLen
    BY <2>1 DEF File
  <2>. QED
    BY <2>1, <2>2, RecFacts, LogFacts
<1>2. \A e \in ends : e \in Nat /\ e <= LogLen
  BY <1>1
<1>. HIDE DEF ends
<1>3. IsFiniteSet(ends) /\ ends \in SUBSET Nat
  BY <1>2, LogFacts, FS_BoundedSetOfNaturals
<1>4. CASE pl.keep = {}
  BY <1>4 DEF Packed
<1>5. CASE pl.keep # {}
  <2>1. ends # {} /\ Packed(pl.keep, pl.to) = Max(ends)
    BY <1>5 DEF Packed, ends
  <2>2. Max(ends) \in ends /\ \A e \in ends : e <= Max(ends)
    BY <1>3, <2>1, MaxExists
  <2>. QED
    BY <1>3, <2>1, <2>2 DEF ends
<1>. QED
  BY <1>4, <1>5

\* Every unit of a new place is on a page of the repack or a frozen one.
LEMMA NewPagesKnown ==
    ASSUME NEW pl, PlanSound(pl), NEW r \in pl.keep, NEW u \in NewExtent(pl, r)
    PROVE  /\ PageOf(u) \in Pages
           /\ PageOf(u) \in RepackPages(pl) \/ PageOf(u) \in FrozenPages(pl.keep, pl.pinned)
<1>. DEFINE q == PageOf(u)
<1>1. u \in Nat /\ u < LogLen /\ pl.to[r] \in Nat /\ u < pl.to[r] + Size(r) /\ r \in Rec
  BY NewPlace, LogFacts
<1>2. q \in Nat /\ q * PageSize <= u
  BY <1>1, OnItsPage
<1>. HIDE DEF q
<1>3. q * PageSize \in Nat
  BY <1>2, PagesInOrder
<1>4. q * PageSize < Packed(pl.keep, pl.to)
  BY <1>1, <1>2, <1>3, RecFacts, PackedEnds
<1>5. q < NumPages
  <2>1. ~(NumPages <= q)
    BY <1>1, <1>2, <1>3, PagesInOrder, GeometryAssumption DEF LogLen
  <2>. QED
    BY <1>2, <2>1, GeometryAssumption
<1>6. q \in Pages
  BY <1>2, <1>5, GeometryAssumption DEF Pages
<1>. QED
  BY <1>4, <1>6 DEF RepackPages, q

\* Pages already as they should be are passed over.
LEMMA PassedOver ==
    ASSUME NEW fl, NEW pl, PlanSound(pl), OffsDiffer(pl), NEW f \in Nat, NEW g \in Nat,
           Repacked(fl, pl, f), SourcesFrom(fl, pl, f),
           \A p \in RepackPages(pl) : f <= p /\ p < g =>
               \A u \in PageUnits(p) : BuildPage(fl, pl.keep, pl.to, p)[u] = fl[u]
    PROVE  Repacked(fl, pl, g)
<1>. SUFFICES ASSUME NEW u \in Units, PageOf(u) \in RepackPages(pl), PageOf(u) < g
              PROVE  Due(fl[u], pl, u)
  BY DEF Repacked
<1>. DEFINE p == PageOf(u)
<1>1. p \in Nat /\ u \in PageUnits(p)
  BY LogFacts, OnItsPage DEF PageUnits
<1>2. CASE p < f
  BY <1>2 DEF Repacked
<1>3. CASE f <= p
  <2>1. BuildPage(fl, pl.keep, pl.to, p)[u] = fl[u]
    BY <1>1, <1>3
  <2>. HIDE DEF p
  <2>2. Due(BuildPage(fl, pl.keep, pl.to, p)[u], pl, u)
    BY <1>1, <1>3, BuiltDue
  <2>. QED
    BY <2>1, <2>2
<1>. QED
  BY <1>1, <1>2, <1>3

\* When the sweep comes every page of the repack is done.
LEMMA SweepGoes ==
    ASSUME NEW fl, NEW pl, OffsDiffer(pl), Repacked(fl, pl, NumPages),
           plan' = pl, flash' = fl, ~ota', GoSweep(fl, pl)
    PROVE  RepackInv'
<1>1. phase' \in {"sweep", "reload"}
  BY DEF GoSweep
<1>. QED
  BY <1>1 DEF RepackInv

\* The repack goes on to the first page that is not as it should be.
LEMMA RepackGoesOn ==
    ASSUME NEW fl, NEW pl, PlanSound(pl), OffsDiffer(pl), NEW f \in Nat,
           Repacked(fl, pl, f), SourcesFrom(fl, pl, f),
           plan' = pl, flash' = fl, ~ota', GoCompact(fl, pl, f)
    PROVE  RepackInv'
<1>. DEFINE Built(p) == BuildPage(fl, pl.keep, pl.to, p)
            todo == { p \in RepackPages(pl) :
                        p >= f /\ \E u \in PageUnits(p) : Built(p)[u] # fl[u] }
<1>1. todo \in SUBSET Nat /\ \A p \in RepackPages(pl) : p \in Nat
  BY GeometryAssumption DEF Pages, RepackPages
<1>2. CASE todo = {}
  <2>1. \A p \in RepackPages(pl) : f <= p /\ p < NumPages =>
            \A u \in PageUnits(p) : BuildPage(fl, pl.keep, pl.to, p)[u] = fl[u]
    BY <1>2
  <2>2. Repacked(fl, pl, NumPages)
    BY <2>1, PassedOver, GeometryAssumption
  <2>3. GoSweep(fl, pl)
    BY <1>2 DEF GoCompact
  <2>. QED
    BY <2>2, <2>3, SweepGoes
<1>3. CASE todo # {}
  <2>. DEFINE p == Min(todo)
  <2>1. /\ page' = p /\ buf' = Built(p)
        /\ phase' = IF PageErased(fl, p) THEN "rewrite" ELSE "vacate"
    BY <1>3 DEF GoCompact
  <2>2. p \in todo /\ \A q \in todo : p <= q
    BY <1>1, <1>3, MinExists
  <2>3. p \in Nat /\ f <= p
    BY <1>1, <2>2
  <2>4. \A q \in RepackPages(pl) : f <= q /\ q < p =>
            \A u \in PageUnits(q) : BuildPage(fl, pl.keep, pl.to, q)[u] = fl[u]
    BY <1>1, <2>2, <2>3
  <2>. HIDE DEF p, todo
  <2>5. Repacked(fl, pl, p)
    BY <2>3, <2>4, PassedOver
  <2>6. SourcesFrom(fl, pl, p + 1)
    <3>. SUFFICES ASSUME NEW r \in pl.keep, NEW u \in NewExtent(pl, r),
                         PageOf(u) >= p + 1, u # pl.to[r]
                  PROVE  fl[u - pl.to[r] + r.off] = Data(r.ver, u - pl.to[r])
      BY DEF SourcesFrom
    <3>1. PageOf(u) \in Nat
      BY NewPlace
    <3>2. PageOf(u) >= f
      BY <2>3, <3>1
    <3>. QED
      BY <3>2 DEF SourcesFrom
  <2>7. \A u \in PageUnits(p) : Due(buf'[u], pl, u)
    BY <2>1, <2>3, BuiltDue
  <2>8. phase' \in {"vacate", "rewrite"} /\ (phase' = "rewrite" => PageErased(fl, p))
    BY <2>1
  <2>9. /\ Repacked(flash', plan', page') /\ SourcesFrom(flash', plan', page' + 1)
        /\ \A u \in PageUnits(page') : Due(buf'[u], plan', u)
        /\ phase' = "rewrite" => PageErased(flash', page')
    BY <2>1, <2>5, <2>6, <2>7, <2>8
  <2>. QED
    BY <2>8, <2>9 DEF RepackInv
<1>. QED
  BY <1>2, <1>3

\* An operation on one page of the repack leaves the pages below, the frozen ones
\* and what is still to be copied to the pages above.
LEMMA PageLeaves ==
    ASSUME NEW fl, NEW gl, NEW pl, PlanSound(pl), NEW p \in Nat,
           p \notin FrozenPages(pl.keep, pl.pinned),
           \A u \in Units : u \notin PageUnits(p) => gl[u] = fl[u],
           Repacked(fl, pl, p), SourcesFrom(fl, pl, p + 1)
    PROVE  Repacked(gl, pl, p) /\ SourcesFrom(gl, pl, p + 1)
<1>1. Repacked(gl, pl, p)
  <2>1. \A u \in Units : PageOf(u) # p => gl[u] = fl[u]
    BY DEF PageUnits
  <2>2. \A u \in Units : PageOf(u) \in Nat
    BY LogFacts, OnItsPage
  <2>. QED
    BY <2>1, <2>2 DEF Repacked
<1>2. SourcesFrom(gl, pl, p + 1)
  <2>. SUFFICES ASSUME NEW r \in pl.keep, NEW u \in NewExtent(pl, r),
                       PageOf(u) >= p + 1, u # pl.to[r]
                PROVE  gl[u - pl.to[r] + r.off] = Data(r.ver, u - pl.to[r])
    BY DEF SourcesFrom
  <2>. DEFINE s == u - pl.to[r] + r.off
  <2>1. s \in Units /\ u <= s /\ u \in Nat /\ s \in Nat
    BY NewPlace, LogFacts
  <2>2. fl[s] = Data(r.ver, u - pl.to[r])
    BY DEF SourcesFrom
  <2>. HIDE DEF s
  <2>3. PageOf(s) # p
    <3>1. /\ PageOf(u) \in Nat /\ PageOf(u) * PageSize <= u
          /\ s < PageOf(s) * PageSize + PageSize
      BY <2>1, OnItsPage
    <3>2. p * PageSize + PageSize <= PageOf(u) * PageSize /\ p * PageSize \in Nat
          /\ PageOf(u) * PageSize \in Nat
      BY <3>1, PagesInOrder
    <3>. QED
      BY <2>1, <3>1, <3>2, GeometryAssumption
  <2>4. gl[s] = fl[s]
    BY <2>1, <2>3 DEF PageUnits
  <2>. QED
    BY <2>2, <2>4 DEF s
<1>. QED
  BY <1>1, <1>2

\* Nothing fails, so an operation is performed.
LEMMA Performed ==
    ASSUME StoreInv, MaxLeases = 0, ~ota, NEW lost \in BOOLEAN, Operate(lost)
    PROVE  /\ Succeeded(lost)
           /\ \A u \in Units : flash'[u] = IF u \in DOMAIN Written THEN Written[u] ELSE flash[u]
<1>1. used.leases \in Nat
  BY DEF StoreInv, TypeOK, WorldType, Used
<1>2. ~lost
  BY <1>1 DEF Operate
<1>. QED
  BY <1>2, OperateWrites DEF Succeeded

\* The page in hand is erased: all it was, the buffer has.
LEMMA VacateRepacks ==
    ASSUME StoreInv, RepackInv, MaxLeases = 0,
           NEW c \in Clients, NEW lost \in BOOLEAN, VacateOp(c, lost)
    PROVE  RepackInv'
<1>1. phase = "vacate" /\ Operate(lost) /\ UNCHANGED <<ota, plan>>
  BY DEF VacateOp
<1>2. Succeeded(lost)
  BY <1>1, Performed DEF RepackInv
<1>3. phase' = "rewrite" /\ UNCHANGED <<page, buf>>
  BY <1>2 DEF VacateOp
<1>4. Written = [u \in PageUnits(page) |-> Erased]
  BY <1>1 DEF Written
<1>5. \A u \in Units : flash'[u] = IF u \in PageUnits(page) THEN Erased ELSE flash[u]
  BY <1>1, <1>4, Performed DEF RepackInv
<1>6. page \in Nat /\ page \notin FrozenPages(plan.keep, plan.pinned) /\ PlanSound(plan)
  BY <1>1, GeometryAssumption DEF StoreInv, CompactionSound, Compacting, Pages
<1>7. Repacked(flash', plan, page) /\ SourcesFrom(flash', plan, page + 1)
  BY <1>1, <1>5, <1>6, PageLeaves DEF RepackInv
<1>8. PageErased(flash', page)
  BY <1>5 DEF PageErased, ErasedRange, PageUnits
<1>9. \A u \in PageUnits(page) : Due(buf[u], plan, u)
  BY <1>1 DEF RepackInv
<1>10. ~ota' /\ OffsDiffer(plan')
  BY <1>1 DEF RepackInv, Compacting
<1>11. /\ Repacked(flash', plan', page') /\ SourcesFrom(flash', plan', page' + 1)
       /\ \A u \in PageUnits(page') : Due(buf'[u], plan', u)
       /\ PageErased(flash', page')
  BY <1>1, <1>3, <1>7, <1>8, <1>9
<1>. QED
  BY <1>3, <1>10, <1>11 DEF RepackInv

\* It is written: one page more is as it is due.
LEMMA RewriteRepacks ==
    ASSUME StoreInv, RepackInv, MaxLeases = 0,
           NEW c \in Clients, NEW lost \in BOOLEAN, RewriteOp(c, lost)
    PROVE  RepackInv'
<1>1. phase = "rewrite" /\ Operate(lost) /\ UNCHANGED <<ota, plan>> /\ Compacting
  BY DEF RewriteOp, Compacting
<1>2. Succeeded(lost)
  BY <1>1, Performed DEF RepackInv
<1>3. GoCompact(flash', plan, page + 1)
  BY <1>2 DEF RewriteOp
<1>4. Written = [u \in PageUnits(page) |-> Program(flash[u], buf[u])]
  BY <1>1 DEF Written
<1>5. \A u \in Units : flash'[u] = IF u \in PageUnits(page) THEN buf[u] ELSE flash[u]
  <2>1. \A u \in PageUnits(page) : flash[u] = Erased
    BY <1>1 DEF RepackInv, PageErased, ErasedRange
  <2>2. \A u \in Units : flash'[u] = IF u \in DOMAIN Written THEN Written[u] ELSE flash[u]
    BY <1>1, Performed DEF RepackInv
  <2>. QED
    BY <1>4, <2>1, <2>2 DEF Program
<1>6. page \in Nat /\ page \notin FrozenPages(plan.keep, plan.pinned) /\ PlanSound(plan)
      /\ OffsDiffer(plan) /\ ~ota'
  BY <1>1, GeometryAssumption DEF StoreInv, CompactionSound, RepackInv, Pages
<1>7. Repacked(flash', plan, page) /\ SourcesFrom(flash', plan, page + 1)
  BY <1>1, <1>5, <1>6, PageLeaves DEF RepackInv
<1>8. Repacked(flash', plan, page + 1)
  <2>. SUFFICES ASSUME NEW u \in Units, PageOf(u) \in RepackPages(plan), PageOf(u) < page + 1
                PROVE  Due(flash'[u], plan, u)
    BY <1>7 DEF Repacked
  <2>1. PageOf(u) \in Nat
    BY LogFacts, OnItsPage
  <2>2. CASE PageOf(u) < page
    BY <1>7, <2>2 DEF Repacked
  <2>3. CASE PageOf(u) = page
    <3>1. u \in PageUnits(page) /\ flash'[u] = buf[u]
      BY <1>5, <2>3 DEF PageUnits
    <3>. QED
      BY <1>1, <3>1 DEF RepackInv
  <2>. QED
    BY <1>6, <2>1, <2>2, <2>3
<1>9. page + 1 \in Nat
  BY <1>6
<1>. QED
  BY <1>1, <1>3, <1>6, <1>7, <1>8, <1>9, RepackGoesOn

\* A page above the packed log is erased: no kept file is there any more.
LEMMA SweepRepacks ==
    ASSUME StoreInv, RepackInv, MaxLeases = 0,
           NEW c \in Clients, NEW lost \in BOOLEAN, SweepOp(c, lost)
    PROVE  RepackInv'
<1>1. phase = "sweep" /\ Operate(lost) /\ UNCHANGED <<ota, plan>> /\ Compacting
  BY DEF SweepOp, Compacting
<1>2. GoSweep(flash', plan)
  BY <1>1, Performed DEF RepackInv, SweepOp
<1>3. Written = [u \in PageUnits(page) |-> Erased]
  BY <1>1 DEF Written
<1>4. /\ page \in Nat /\ PlanSound(plan) /\ OffsDiffer(plan) /\ ~ota'
      /\ \A r \in plan.keep : plan.to[r] + Size(r) <= page * PageSize
  BY <1>1, GeometryAssumption DEF StoreInv, CompactionSound, RepackInv, SweepPages, Pages
<1>5. page * PageSize \in Nat
  BY <1>4, PagesInOrder
<1>6. \A u \in PageUnits(page) : u \in Nat /\ page * PageSize <= u
  BY LogFacts, OnItsPage DEF PageUnits
<1>7. ASSUME NEW u \in PageUnits(page), NEW r \in plan.keep
      PROVE  u \notin NewExtent(plan, r)
  <2>. SUFFICES ASSUME u \in NewExtent(plan, r) PROVE FALSE
    OBVIOUS
  <2>1. u < plan.to[r] + Size(r) /\ plan.to[r] \in Nat /\ r \in Rec
    BY <1>4, NewPlace
  <2>. QED
    BY <1>4, <1>5, <1>6, <2>1, RecFacts
<1>8. \A u \in Units : flash'[u] = IF u \in PageUnits(page) THEN Erased ELSE flash[u]
  BY <1>1, <1>3, Performed DEF RepackInv
<1>9. Repacked(flash', plan, NumPages)
  <2>1. Repacked(flash, plan, NumPages)
    BY <1>1 DEF RepackInv
  <2>2. \A u \in PageUnits(page) : Due(Erased, plan, u)
    BY <1>7 DEF Due, FilesDue
  <2>. QED
    BY <1>8, <2>1, <2>2 DEF Repacked, Due
<1>. QED
  BY <1>1, <1>2, <1>4, <1>9, SweepGoes

\* When the plan is made every file it keeps stands, and the frozen ones stay put.
LEMMA PlanStarts ==
    ASSUME NEW fl, NEW pl, PlanSound(pl), \A r \in pl.keep : Stands(fl, r)
    PROVE  Repacked(fl, pl, 0) /\ SourcesFrom(fl, pl, 0)
<1>1. ASSUME NEW r \in pl.keep, NEW u \in NewExtent(pl, r), u # pl.to[r]
      PROVE  fl[u - pl.to[r] + r.off] = Data(r.ver, u - pl.to[r])
  <2>1. u - pl.to[r] \in 1 .. r.len /\ r \in Rec /\ u \in Nat /\ pl.to[r] \in Nat
    BY <1>1, NewPlace
  <2>. DEFINE i == u - pl.to[r]
  <2>2. i \in 1 .. r.len /\ u - pl.to[r] + r.off = r.off + i
    BY <2>1, RecFacts
  <2>3. \A j \in 1 .. r.len : fl[r.off + j] = Data(r.ver, j)
    BY DEF Stands, PayloadWhole
  <2>4. fl[r.off + i] = Data(r.ver, i)
    BY <2>2, <2>3
  <2>. QED
    BY <2>2, <2>4
<1>2. ASSUME NEW r \in pl.keep, NEW u \in NewExtent(pl, r),
             PageOf(u) \in FrozenPages(pl.keep, pl.pinned)
      PROVE  IsDue(fl[u], pl, r, u)
  <2>1. HitsFrozen(pl.keep, pl.pinned, pl.to[r], Size(r))
    BY <1>2 DEF HitsFrozen, PagesOf, NewExtent
  <2>2. pl.to[r] = r.off /\ r \in Rec /\ u \in Nat /\ r.off \in Nat
    BY <2>1, NewPlace, RecFacts DEF PlanSound, PlanHolds
  <2>3. CASE u = pl.to[r]
    <3>1. [r EXCEPT !.off = u] = r
      BY <2>2, <2>3 DEF Rec
    <3>2. fl[u].kind = "header" /\ fl[u].commit /\ SameFile(fl[u].rec, r)
      BY <2>2, <2>3 DEF Stands, HeaderAt
    <3>. QED
      BY <2>3, <3>1, <3>2 DEF IsDue
  <2>4. CASE u # pl.to[r]
    <3>1. u - pl.to[r] + r.off = u
      BY <2>2
    <3>. QED
      BY <1>1, <2>4, <3>1 DEF IsDue
  <2>. QED
    BY <2>3, <2>4
<1>3. Repacked(fl, pl, 0)
  <2>1. \A u \in Units : ~(PageOf(u) < 0)
    BY LogFacts, OnItsPage
  <2>. QED
    BY <1>2, <2>1 DEF Repacked, FilesDue
<1>. QED
  BY <1>1, <1>3 DEF SourcesFrom

\* ... each at an address of its own.
LEMMA PlannedFiles ==
    ASSUME StoreInv, FilesInv, ~Compacting
    PROVE  /\ \A r \in CompactionPlan.keep : Stands(flash, r) /\ End(r) <= ScanCursor(flash)
           /\ OffsDiffer(CompactionPlan)
<1>. DEFINE others == { e \in Emitted(flash) :
                    e.seq \in Pinned /\ e.off \notin { l.off : l \in ram.index } }
<1>1. CompactionPlan.keep = ram.index \cup others
  BY DEF CompactionPlan
<1>2. flash \in [Units -> Cell] /\ Emitted(flash) \subseteq File
  BY EmittedFiles DEF StoreInv, TypeOK, WorldType
<1>3. \A r \in ram.index : Stands(flash, r) /\ r \in File /\ r \in Held
  BY HeldFiles DEF FilesInv, AllStand, Held
<1>4. \A r \in others : Stands(flash, r) /\ r \in File
  BY <1>2, EmittedStands
<1>5. \A r, k \in ram.index : r.off = k.off => r = k
  <2>. SUFFICES ASSUME NEW r \in ram.index, NEW k \in ram.index, r.off = k.off
                PROVE  r = k
    OBVIOUS
  <2>1. r.seq = k.seq
    BY <1>3 DEF Stands, SameFile
  <2>. QED
    BY <2>1 DEF FilesInv, OneOfASeq
<1>6. \A r, k \in others : r.off = k.off => r = k
  <2>. SUFFICES ASSUME NEW r \in Emitted(flash), NEW k \in Emitted(flash), r.off = k.off
                PROVE  r = k
    OBVIOUS
  <2>1. PICK a \in Scan(flash) : r = [flash[a].rec EXCEPT !.dead = flash[a].dead]
    BY DEF Emitted
  <2>2. PICK b \in Scan(flash) : k = [flash[b].rec EXCEPT !.dead = flash[b].dead]
    BY DEF Emitted
  <2>3. /\ a \in Units /\ flash[a].kind = "header" /\ flash[a].rec.off = a
        /\ b \in Units /\ flash[b].kind = "header" /\ flash[b].rec.off = b
    BY DEF Scan, Accepts, HeaderAt
  <2>4. flash[a].rec \in Rec /\ flash[b].rec \in Rec
    BY <1>2, <2>3, HeaderCell
  <2>5. r.off = a /\ k.off = b
    BY <2>1, <2>2, <2>3, <2>4 DEF Rec
  <2>. QED
    BY <2>1, <2>2, <2>5
<1>7. \A r \in ram.index, k \in others : r.off # k.off
  OBVIOUS
<1>. HIDE DEF others
<1>8. OffsDiffer(CompactionPlan)
  BY <1>1, <1>5, <1>6, <1>7 DEF OffsDiffer
<1>9. \A r \in CompactionPlan.keep : Stands(flash, r) /\ End(r) <= ScanCursor(flash)
  BY <1>1, <1>2, <1>3, <1>4, StandsEmitted
<1>. QED
  BY <1>8, <1>9

\* Whatever the log and the pins look like when a save finds no place, there is a
\* plan for the files it has to keep: a compaction is only ever refused for want
\* of room (the None of plan in patlog.rs is never what turns a save away).
CompactionHasAPlan ==
    ~Compacting => PlanHolds(CompactionPlan.keep, CompactionPlan.pinned, CompactionPlan.to)

THEOREM NoCompactionLacksAPlan == ~StaleLookups => (Spec => []CompactionHasAPlan)
<1>. SUFFICES ASSUME ~StaleLookups PROVE Spec => []CompactionHasAPlan
  OBVIOUS
<1>1. ASSUME StoreInv, FilesInv, ~Compacting
      PROVE  PlanHolds(CompactionPlan.keep, CompactionPlan.pinned, CompactionPlan.to)
  <2>. DEFINE keep == CompactionPlan.keep
  <2>1. /\ \A r \in keep : Stands(flash, r)
        /\ \A r, k \in keep : r.off = k.off => r = k
    BY <1>1, PlannedFiles DEF OffsDiffer
  <2>2. CompactionPlan.to = Plan(keep, CompactionPlan.pinned)
    BY DEF CompactionPlan
  <2>3. flash \in [Units -> Cell] /\ keep \subseteq File
    BY <1>1, EmittedFiles DEF CompactionPlan, StoreInv, TypeOK, WorldType, Ram
  <2>. HIDE DEF keep
  <2>4. \A r \in keep : /\ r.off \in Nat /\ r.len \in Nat
                        /\ Size(r) \in Nat \ {0} /\ End(r) = r.off + Size(r) /\ End(r) <= LogLen
    BY <2>3, RecFacts DEF File
  <2>5. ASSUME NEW r \in keep, NEW k \in keep, r.off < k.off
        PROVE  End(r) <= k.off
    <3>1. Extent(r.off, Size(r)) \cap Extent(k.off, Size(k)) = {}
      BY <2>1, <2>3, <2>4, <2>5, StandApart
    <3>2. k.off \in Extent(k.off, Size(k))
      BY <2>4 DEF Extent
    <3>3. k.off \notin Extent(r.off, Size(r))
      BY <3>1, <3>2
    <3>. QED
      BY <2>4, <2>5, <3>3 DEF Extent
  <2>6. InALine(keep)
    BY <2>1, <2>4, <2>5 DEF InALine
  <2>7. PlanHolds(keep, CompactionPlan.pinned, Plan(keep, CompactionPlan.pinned))
    BY <2>6, PlanAlwaysHolds
  <2>. QED
    BY <2>2, <2>7 DEF keep
<1>2. Spec => []FilesInv
  BY FilesInvariant
<1>. QED
  BY <1>1, <1>2, StoreInvariant, PTL DEF CompactionHasAPlan

\* What a save does with the guard: it is turned away, begins an append, or begins
\* a compaction whose plan holds and which was not refused.
LEMMA SaveBegins ==
    ASSUME StoreInv, NEW c \in Clients, BeginSave(c)
    PROVE  /\ phase = "none" /\ holder = NoClient /\ UNCHANGED <<flash, ram, ota, pins>>
           /\ \/ UNCHANGED <<holder, locals>>
              \/ phase' \in {"erase", "header"}
              \/ /\ holder' = c /\ PlanSound(CompactionPlan) /\ plan' = CompactionPlan
                 /\ ~Refused(CompactionPlan, Size(job'.rec))
                 /\ GoCompact(flash, CompactionPlan, 0)
<1>1. phase = "none" /\ holder = NoClient /\ UNCHANGED <<flash, ram, ota, pins>>
  BY DEF BeginSave, GuardFree, rest, StoreInv, TypeOK, TaskType
<1>. DEFINE q == req[c]
            old == RecByName(q.name)
            seq == IF old = NoRec THEN ram.nextSeq ELSE The(old).seq
            off == FindPlace(flash, ram, 1 + q.len)
            rec == [ off |-> 0, name |-> q.name, seq |-> seq, stamp |-> 0,
                     ver |-> q.ver, len |-> q.len, dead |-> FALSE ]
<1>2. \/ UNCHANGED <<holder, locals>>
      \/ GoAppend(flash, ram, rec, old, old # NoRec, off)
      \/ /\ ~Refused(CompactionPlan, 1 + q.len) /\ holder' = c
         /\ job' = [rec |-> rec, old |-> old, existed |-> old # NoRec]
         /\ plan' = CompactionPlan /\ GoCompact(flash, CompactionPlan, 0)
  BY DEF BeginSave
<1>3. GoAppend(flash, ram, rec, old, old # NoRec, off) => phase' \in {"erase", "header"}
  BY DEF GoAppend, GoErase
<1>4. job' = [rec |-> rec, old |-> old, existed |-> old # NoRec] => Size(job'.rec) = 1 + q.len
  BY DEF Size
<1>5. ~Refused(CompactionPlan, 1 + q.len) => PlanSound(CompactionPlan)
  <2>1. CompactionPlan.keep \subseteq File
    BY EmittedFiles DEF CompactionPlan, StoreInv, TypeOK, WorldType, Ram
  <2>. QED
    BY <2>1 DEF Refused, PlanSound
<1>. HIDE DEF q, old, seq, off, rec
<1>. QED
  BY <1>1, <1>2, <1>3, <1>4, <1>5

\* A compaction starts with all its sources standing.
LEMMA BeginSaveRepacks ==
    ASSUME StoreInv, FilesInv, RepackInv, NEW c \in Clients, BeginSave(c)
    PROVE  RepackInv'
<1>1. phase = "none" /\ ~ota' /\ UNCHANGED <<flash, ota>> /\ ~Compacting
  BY SaveBegins DEF RepackInv, Compacting
<1>2. CASE UNCHANGED <<holder, locals>> \/ phase' \in {"erase", "header"}
  <2>1. phase' \notin {"vacate", "rewrite", "sweep", "reload"}
    BY <1>1, <1>2 DEF locals
  <2>. QED
    BY <1>1, <2>1 DEF RepackInv, Compacting
<1>3. CASE /\ PlanSound(CompactionPlan) /\ plan' = CompactionPlan
           /\ GoCompact(flash, CompactionPlan, 0)
  <2>1. /\ \A r \in CompactionPlan.keep : Stands(flash, r)
        /\ OffsDiffer(CompactionPlan)
    BY <1>1, PlannedFiles
  <2>. HIDE DEF CompactionPlan
  <2>2. Repacked(flash, CompactionPlan, 0) /\ SourcesFrom(flash, CompactionPlan, 0)
    BY <1>3, <2>1, PlanStarts
  <2>. QED
    BY <1>1, <1>3, <2>1, <2>2, RepackGoesOn
<1>. QED
  BY <1>2, <1>3, SaveBegins

\* Every step keeps what is done of a repack, and what is still to be copied.
LEMMA RepackStep ==
    ASSUME MaxLeases = 0, MaxOtas = 0, StoreInv, FilesInv, RepackInv, [Next]_vars
    PROVE  RepackInv'
<1>1. ASSUME NEW c \in Clients, Serve(c)
      PROVE  RepackInv'
  <2>1. CASE GiveUp(c) \/ GetCopy(c)
    BY <2>1 DEF GiveUp, GetCopy, RepackInv, Compacting, locals
  <2>2. CASE BeginSave(c)
    BY <2>2, BeginSaveRepacks
  <2>3. CASE Reload(c)
    BY <2>3 DEF Reload, Answer, GoAppend, GoErase, RepackInv, Compacting
  <2>4. CASE Publish(c)
    BY <2>4 DEF Publish, Answer, RepackInv, Compacting
  <2>5. CASE BeginDelete(c)
    BY <2>5 DEF BeginDelete, RepackInv, Compacting
  <2>6. ASSUME NEW lost \in BOOLEAN, VacateOp(c, lost) \/ RewriteOp(c, lost) \/ SweepOp(c, lost)
        PROVE  RepackInv'
    BY <2>6, VacateRepacks, RewriteRepacks, SweepRepacks
  <2>7. ASSUME NEW lost \in BOOLEAN, AppendOp(c, lost)
        PROVE  RepackInv'
    <3>1. phase \in {"erase", "header", "payload", "commit"} /\ UNCHANGED ota
      BY <2>7 DEF AppendOp, Appending
    <3>2. Answer(c) \/ NextStep
      BY <2>7 DEF AppendOp
    <3>3. phase' \in {"none", "erase", "header", "payload", "commit", "publish"}
      BY <3>1, <3>2 DEF Answer, NextStep, GoErase
    <3>. QED
      BY <3>1, <3>3 DEF RepackInv, Compacting
  <2>8. ASSUME NEW lost \in BOOLEAN, RetireOp(c, lost) \/ DeleteOp(c, lost)
        PROVE  RepackInv'
    BY <2>8 DEF RetireOp, DeleteOp, Answer, RepackInv, Compacting
  <2>. QED
    BY <1>1, <2>1, <2>2, <2>3, <2>4, <2>5, <2>6, <2>7, <2>8 DEF Serve
<1>2. ASSUME NEW c \in Clients, Request(c)
      PROVE  RepackInv'
  BY <1>2 DEF Request, RequestSave, RequestDelete, RequestGet, RepackInv, Compacting, locals
<1>3. CASE Render
  <2>1. UNCHANGED <<flash, ota>> /\ UNCHANGED locals
    BY <1>3 DEF Render, SwapPin, SwapDecode, SwapInstall, FadeEnd
  <2>. QED
    BY <2>1 DEF RepackInv, Compacting, locals
<1>4. CASE PowerCut
  BY <1>4 DEF PowerCut, Boot, RepackInv, Compacting
<1>5. CASE OtaBegin
  <2>1. used.otas \in Nat
    BY DEF StoreInv, TypeOK, WorldType, Used
  <2>. QED
    BY <1>5, <2>1 DEF OtaBegin
<1>6. CASE OtaEnd \/ UNCHANGED vars
  BY <1>6 DEF OtaEnd, vars, RepackInv, Compacting, locals
<1>. QED
  BY <1>1, <1>2, <1>3, <1>4, <1>5, <1>6 DEF Next

\* At first there is no compaction.
LEMMA RepackInit == Init => RepackInv
BY DEF Init, RepackInv, Compacting

\* A file whose new place lies on pages already done is whole there.
LEMMA CopiedStands ==
    ASSUME NEW fl, NEW pl, PlanSound(pl), NEW f, Repacked(fl, pl, f), NEW r \in pl.keep,
           \A u \in NewExtent(pl, r) : PageOf(u) < f
    PROVE  Accepts(fl, pl.to[r]) /\ SameFile(fl[pl.to[r]].rec, [r EXCEPT !.off = pl.to[r]])
<1>1. r \in Rec /\ r \in File /\ pl.to[r] \in Nat /\ pl.to[r] <= r.off
  BY LogFacts DEF PlanSound, PlanHolds, File
<1>2. r.off \in Nat /\ r.len \in Nat /\ Size(r) = 1 + r.len /\ End(r) = r.off + 1 + r.len
      /\ End(r) <= LogLen /\ LogLen \in Nat
  BY <1>1, RecFacts, LogFacts DEF Size, File
<1>3. ASSUME NEW u \in NewExtent(pl, r)
      PROVE  IsDue(fl[u], pl, r, u)
  <2>1. u \in Units /\ PageOf(u) < f
    BY NewPlace
  <2>2. PageOf(u) \in RepackPages(pl) \/ PageOf(u) \in FrozenPages(pl.keep, pl.pinned)
    BY NewPagesKnown
  <2>. QED
    BY <2>1, <2>2 DEF Repacked, Due, FilesDue
<1>. DEFINE at == pl.to[r]
<1>4. /\ at \in NewExtent(pl, r)
      /\ \A i \in 1 .. r.len : at + i \in NewExtent(pl, r) /\ at + i # at /\ (at + i) - at = i
  BY <1>1, <1>2 DEF NewExtent, Extent
<1>5. fl[at].kind = "header" /\ fl[at].commit /\ SameFile(fl[at].rec, [r EXCEPT !.off = at])
  BY <1>3, <1>4 DEF IsDue
<1>6. fl[at].rec.off = at /\ fl[at].rec.len = r.len /\ fl[at].rec.ver = r.ver
  BY <1>1, <1>5 DEF SameFile, Rec
<1>7. \A i \in 1 .. r.len : fl[at + i] = Data(r.ver, i)
  <2>. SUFFICES ASSUME NEW i \in 1 .. r.len PROVE fl[at + i] = Data(r.ver, i)
    OBVIOUS
  <2>1. IsDue(fl[at + i], pl, r, at + i)
    BY <1>3, <1>4
  <2>. QED
    BY <1>4, <2>1 DEF IsDue
<1>8. at + 1 + r.len <= LogLen
  BY <1>1, <1>2
<1>. HIDE DEF at
<1>9. Accepts(fl, at)
  <2>1. HeaderAt(fl, at)
    BY <1>5, <1>6 DEF HeaderAt
  <2>2. End(fl[at].rec) = at + (1 + r.len)
    BY <1>6 DEF End, Size
  <2>3. End(fl[at].rec) <= LogLen
    BY <1>1, <1>2, <1>8, <2>2 DEF at
  <2>4. \A i \in 1 .. fl[at].rec.len : fl[fl[at].rec.off + i] = Data(fl[at].rec.ver, i)
    BY <1>6, <1>7
  <2>. QED
    BY <2>1, <2>3, <2>4 DEF Accepts, PayloadWhole
<1>. QED
  BY <1>5, <1>9 DEF at

\* A done repack has every kept file whole at its new place.
LEMMA RepackedStands ==
    ASSUME NEW fl, NEW pl, PlanSound(pl), Repacked(fl, pl, NumPages), NEW r \in pl.keep
    PROVE  Accepts(fl, pl.to[r]) /\ SameFile(fl[pl.to[r]].rec, [r EXCEPT !.off = pl.to[r]])
<1>1. ASSUME NEW u \in NewExtent(pl, r)
      PROVE  PageOf(u) < NumPages
  BY NewPagesKnown, GeometryAssumption DEF Pages
<1>. QED
  BY <1>1, CopiedStands

\* "This runs LAST" (sweep_pages, patlog.rs): when the sweep erases the pages a
\* compaction's sources were on, every file it keeps is whole at its new place,
\* pinned or moved; if no operation is refused and no update begins, for an
\* abandoned repack is swept all the same.
THEOREM SweepErasesNoSource ==
    ~StaleLookups /\ MaxLeases = 0 /\ MaxOtas = 0 => (Spec => []SweepRunsLast)
<1>. SUFFICES ASSUME ~StaleLookups, MaxLeases = 0, MaxOtas = 0
              PROVE  Spec => []SweepRunsLast
  OBVIOUS
<1>1. StoreInv /\ FilesInv /\ RepackInv /\ [Next]_vars => RepackInv'
  BY RepackStep
<1>2. StoreInv /\ RepackInv => SweepRunsLast
  <2>. SUFFICES ASSUME StoreInv, RepackInv, phase = "sweep", NEW r \in plan.keep
                PROVE  Accepts(flash, plan.to[r]) /\ flash[plan.to[r]].rec.ver = r.ver
    BY DEF SweepRunsLast
  <2>1. PlanSound(plan) /\ Repacked(flash, plan, NumPages)
    BY DEF StoreInv, CompactionSound, Compacting, RepackInv
  <2>2. Accepts(flash, plan.to[r])
        /\ SameFile(flash[plan.to[r]].rec, [r EXCEPT !.off = plan.to[r]])
    BY <2>1, RepackedStands
  <2>3. r \in Rec
    BY <2>1 DEF PlanSound, File
  <2>. QED
    BY <2>2, <2>3 DEF SameFile, Rec
<1>3. Spec => []FilesInv
  BY FilesInvariant
<1>. QED
  BY <1>1, <1>2, <1>3, RepackInit, StoreInvariant, PTL DEF Spec

-----------------------------------------------------------------------------
(* The room a compaction makes.                                               *)

\* The scan accepts nothing above the cursor, but for the file about to be published.
KnownBelow ==
    ~Compacting => \A at \in Scan(flash) :
        End(flash[at].rec) <= ram.cursor \/ (phase = "publish" /\ at = job.rec.off)

\* The header of an append is the only one of its version.
JobHeaderAlone ==
    phase \in {"payload", "commit", "publish"} =>
        \A u \in Units : flash[u].kind = "header" /\ flash[u].rec.ver = job.rec.ver => u = job.rec.off

\* A compaction works below the old cursor, and was not refused.
RoomPlanned ==
    Compacting =>
        /\ plan.oldEnd \in Nat
        /\ \A at \in Scan(flash) : PageOf(at) * PageSize < plan.oldEnd
        /\ \A r \in plan.keep : plan.to[r] + Size(r) <= plan.oldEnd
        /\ ~Refused(plan, Size(job.rec))
        /\ phase \in {"vacate", "rewrite"} => page * PageSize < plan.oldEnd

\* The stale pages below the one being swept are erased.
SweptBelow ==
    phase \in {"sweep", "reload"} =>
        \A p \in SweepPages(plan.keep, plan.to, plan.oldEnd) :
            phase = "reload" \/ p < page => PageErased(flash, p)

\* What makes the room a compaction was started for.
RoomInv == KnownBelow /\ JobHeaderAlone /\ RoomPlanned /\ SweptBelow

-----------------------------------------------------------------------------

\* What a scan accepts was accepted before, if nothing made its header or one of
\* its payload units.
LEMMA ScanKept ==
    ASSUME NEW fl \in [Units -> Cell], NEW gl \in [Units -> Cell], NEW at \in Scan(gl),
           \/ gl[at] = fl[at]
           \/ fl[at].kind = "header" /\ gl[at] = SetDead(fl[at]),
           \A u \in Units : u > at =>
               gl[u] = fl[u] \/ ~(gl[u].kind = "data" /\ gl[u].ver = gl[at].rec.ver)
    PROVE  at \in Scan(fl) /\ fl[at].rec = gl[at].rec
<1>1. at \in Units /\ HeaderAt(gl, at) /\ PayloadWhole(gl, gl[at].rec)
  BY DEF Scan, Accepts
<1>2. fl[at].kind = "header" /\ fl[at].rec = gl[at].rec /\ fl[at].commit = gl[at].commit
  <2>1. CASE gl[at] = fl[at]
    BY <1>1, <2>1 DEF HeaderAt
  <2>2. CASE fl[at].kind = "header" /\ gl[at] = SetDead(fl[at])
    <3>1. fl[at] \in [kind : {"header"}, rec : Rec, commit : BOOLEAN, dead : BOOLEAN]
      BY <1>1, <2>2, HeaderCell
    <3>. QED
      BY <2>2, <3>1 DEF SetDead
  <2>. QED
    BY <2>1, <2>2
<1>3. HeaderAt(fl, at)
  BY <1>1, <1>2 DEF HeaderAt
<1>. DEFINE rec == gl[at].rec
<1>4. rec \in Rec /\ rec.off = at /\ End(rec) <= LogLen
  BY <1>1, HeaderCell DEF HeaderAt, PayloadWhole
<1>5. at \in Nat /\ rec.len \in Nat /\ End(rec) = at + (1 + rec.len) /\ LogLen \in Nat
  BY <1>4, RecFacts, LogFacts DEF End, Size
<1>6. \A i \in 1 .. rec.len : gl[rec.off + i] = Data(rec.ver, i)
  BY <1>1 DEF PayloadWhole
<1>. HIDE DEF rec
<1>7. ASSUME NEW i \in 1 .. rec.len
      PROVE  fl[rec.off + i] = Data(rec.ver, i)
  <2>1. rec.off + i \in Nat /\ rec.off + i < LogLen /\ rec.off + i > at
    BY <1>4, <1>5
  <2>2. rec.off + i \in Units
    BY <2>1, LogFacts
  <2>3. gl[rec.off + i] = Data(rec.ver, i)
    BY <1>6
  <2>4. gl[rec.off + i].kind = "data" /\ gl[rec.off + i].ver = rec.ver
    BY <2>3 DEF Data
  <2>. QED
    BY <2>1, <2>2, <2>3, <2>4 DEF rec
<1>8. PayloadWhole(fl, fl[at].rec)
  BY <1>2, <1>4, <1>7 DEF PayloadWhole, rec
<1>. QED
  BY <1>1, <1>2, <1>3, <1>8 DEF Scan, Accepts

\* An accepted record ends above its start and not above the scan's cursor.
LEMMA ScanEnds ==
    ASSUME NEW fl \in [Units -> Cell], NEW at \in Scan(fl)
    PROVE  /\ at \in Units /\ at \in Nat /\ End(fl[at].rec) \in Nat /\ at < End(fl[at].rec)
           /\ End(fl[at].rec) <= ScanCursor(fl)
<1>1. at \in Units /\ HeaderAt(fl, at) /\ PayloadWhole(fl, fl[at].rec)
  BY DEF Scan, Accepts
<1>2. fl[at].rec \in Rec /\ fl[at].rec.off = at
  BY <1>1, HeaderCell DEF HeaderAt
<1>3. fl[at].rec \in File
  BY <1>1, <1>2 DEF File, PayloadWhole
<1>4. Stands(fl, fl[at].rec)
  BY <1>1, <1>2 DEF Stands, SameFile
<1>5. at \in Nat /\ End(fl[at].rec) \in Nat /\ at < End(fl[at].rec)
  BY <1>2, RecFacts
<1>. QED
  BY <1>1, <1>3, <1>4, <1>5, StandsEmitted

\* The sweep passes over pages that are erased.
LEMMA SweepGoesOver ==
    ASSUME NEW fl, NEW pl, plan' = pl, flash' = fl, GoSweep(fl, pl)
    PROVE  SweptBelow'
<1>. DEFINE todo == { p \in SweepPages(pl.keep, pl.to, pl.oldEnd) : ~PageErased(fl, p) }
<1>1. /\ phase' = IF todo = {} THEN "reload" ELSE "sweep"
      /\ page' = IF todo = {} THEN 0 ELSE Min(todo)
  BY DEF GoSweep
<1>2. todo \in SUBSET Nat /\ SweepPages(pl.keep, pl.to, pl.oldEnd) \subseteq Nat
  BY GeometryAssumption DEF SweepPages, Pages
<1>3. todo # {} => Min(todo) \in todo /\ \A p \in todo : Min(todo) <= p
  BY <1>2, MinExists
<1>4. ASSUME NEW p \in SweepPages(pl.keep, pl.to, pl.oldEnd), phase' = "reload" \/ p < page'
      PROVE  PageErased(fl, p)
  <2>. SUFFICES ASSUME p \in todo PROVE FALSE
    OBVIOUS
  <2>1. page' = Min(todo) /\ p < page' /\ Min(todo) <= p
    BY <1>1, <1>3, <1>4
  <2>. QED
    BY <1>2, <1>3, <2>1
<1>. QED
  BY <1>4 DEF SweptBelow

\* Where the repack goes: a page below the packed end, or the sweep.
LEMMA RepackGoesBelow ==
    ASSUME NEW fl, NEW pl, PlanSound(pl), NEW end \in Nat,
           \A r \in pl.keep : pl.to[r] + Size(r) <= end,
           plan' = pl, flash' = fl, NEW f, GoCompact(fl, pl, f)
    PROVE  /\ SweptBelow'
           /\ phase' \in {"vacate", "rewrite"} => page' * PageSize < end
<1>. DEFINE Built(p) == BuildPage(fl, pl.keep, pl.to, p)
            todo == { p \in RepackPages(pl) :
                        p >= f /\ \E u \in PageUnits(p) : Built(p)[u] # fl[u] }
<1>1. CASE todo = {}
  <2>1. GoSweep(fl, pl)
    BY <1>1 DEF GoCompact
  <2>2. phase' \in {"sweep", "reload"}
    BY <2>1 DEF GoSweep
  <2>. QED
    BY <2>1, <2>2, SweepGoesOver
<1>2. CASE todo # {}
  <2>1. page' = Min(todo) /\ phase' \in {"vacate", "rewrite"}
    BY <1>2 DEF GoCompact
  <2>2. todo \in SUBSET Nat /\ todo \subseteq RepackPages(pl)
    BY GeometryAssumption DEF Pages, RepackPages
  <2>3. page' \in todo
    BY <1>2, <2>1, <2>2, MinExists
  <2>. HIDE DEF todo
  <2>4. page' \in Nat /\ page' * PageSize < Packed(pl.keep, pl.to)
    BY <2>2, <2>3 DEF RepackPages
  <2>5. page' * PageSize \in Nat
    BY <2>4, PagesInOrder
  <2>6. Packed(pl.keep, pl.to) \in Nat /\ pl.keep # {}
    BY <2>4, <2>5, PackedEnds DEF Packed
  <2>7. Packed(pl.keep, pl.to) <= end
    BY <2>6, PackedEnds
  <2>8. SweptBelow'
    BY <2>1 DEF SweptBelow
  <2>. QED
    BY <2>4, <2>5, <2>6, <2>7, <2>8
<1>. QED
  BY <1>1, <1>2

\* A page of a compaction lies below the old cursor: above it nothing changes.
LEMMA PageBelow ==
    ASSUME NEW fl \in [Units -> Cell], NEW gl \in [Units -> Cell], NEW p \in Nat,
           NEW end \in Nat, p * PageSize < end,
           \A u \in Units : u \notin PageUnits(p) => gl[u] = fl[u],
           \A at \in Scan(fl) : PageOf(at) * PageSize < end
    PROVE  \A at \in Scan(gl) : PageOf(at) * PageSize < end
<1>. SUFFICES ASSUME NEW at \in Scan(gl), ~(PageOf(at) * PageSize < end) PROVE FALSE
  OBVIOUS
<1>1. at \in Units /\ at \in Nat
  BY ScanEnds
<1>2. PageOf(at) \in Nat /\ PageOf(at) * PageSize <= at
  BY <1>1, OnItsPage
<1>3. PageOf(at) * PageSize \in Nat /\ p * PageSize \in Nat
  BY <1>2, PagesInOrder
<1>4. p < PageOf(at)
  <2>1. ~(PageOf(at) <= p)
    BY <1>2, <1>3, PagesInOrder
  <2>. QED
    BY <1>2, <2>1
<1>5. p * PageSize + PageSize <= PageOf(at) * PageSize
  BY <1>2, <1>4, PagesInOrder
<1>6. ASSUME NEW u \in Units, u >= at
      PROVE  gl[u] = fl[u]
  <2>1. u \in Nat /\ u < PageOf(u) * PageSize + PageSize
    BY LogFacts, OnItsPage
  <2>2. PageOf(u) # p
    BY <1>1, <1>2, <1>3, <1>5, <1>6, <2>1, GeometryAssumption
  <2>. QED
    BY <2>2 DEF PageUnits
<1>7. at \in Scan(fl)
  <2>1. at >= at /\ \A u \in Units : u > at => u >= at
    BY <1>1, LogFacts
  <2>2. gl[at] = fl[at] /\ \A u \in Units : u > at => gl[u] = fl[u]
    BY <1>1, <1>6, <2>1
  <2>. QED
    BY <2>2, ScanKept
<1>. QED
  BY <1>7

\* What stands the scan accepts, with the same end.
LEMMA StandsScanned ==
    ASSUME NEW fl, NEW r \in File, Stands(fl, r)
    PROVE  r.off \in Scan(fl) /\ End(fl[r.off].rec) = End(r)
<1>1. r.off \in Units /\ HeaderAt(fl, r.off) /\ SameFile(fl[r.off].rec, r)
  BY StandsFacts DEF Stands
<1>2. PayloadWhole(fl, fl[r.off].rec) /\ End(fl[r.off].rec) = End(r)
  BY <1>1 DEF Stands, SameFile, PayloadWhole, End, Size
<1>. QED
  BY <1>1, <1>2 DEF Scan, Accepts

\* When nothing is under way but an append that has written nothing, only the
\* cursor matters.
LEMMA RoomCalm ==
    ASSUME phase' \in {"none", "erase", "header", "retire", "delete"},
           \A at \in Scan(flash') : End(flash'[at].rec) <= ram'.cursor
    PROVE  RoomInv'
<1>1. ~Compacting'
  BY DEF Compacting
<1>. QED
  BY <1>1 DEF RoomInv, KnownBelow, JobHeaderAlone, RoomPlanned, SweptBelow

\* A cursor rebuilt from flash is above all the scan accepts.
LEMMA RoomReloaded ==
    ASSUME NEW fl \in [Units -> Cell], flash' = fl, ram' = ReloadOf(fl),
           phase' \in {"none", "erase", "header"}
    PROVE  RoomInv'
<1>1. ram'.cursor = ScanCursor(fl)
  BY DEF ReloadOf
<1>2. \A at \in Scan(fl) : End(fl[at].rec) <= ScanCursor(fl)
  BY ScanEnds
<1>3. \A at \in Scan(flash') : End(flash'[at].rec) <= ram'.cursor
  BY <1>1, <1>2
<1>. QED
  BY <1>3, RoomCalm

\* At first nothing is on flash, and nothing under way.
LEMMA RoomInit == Init => RoomInv
<1>. SUFFICES ASSUME Init PROVE RoomInv
  OBVIOUS
<1>1. flash \in [Units -> Cell] /\ ram = ReloadOf(flash) /\ phase = "none"
  BY CellFacts DEF Init
<1>2. ram.cursor = ScanCursor(flash)
  BY <1>1 DEF ReloadOf
<1>3. KnownBelow
  BY <1>1, <1>2, ScanEnds DEF KnownBelow
<1>. QED
  BY <1>1, <1>3 DEF RoomInv, JobHeaderAlone, RoomPlanned, SweptBelow, Compacting

\* A step that leaves flash, cursor and transaction alone.
LEMMA RoomAside ==
    ASSUME RoomInv, UNCHANGED <<flash, ram>>, UNCHANGED locals
    PROVE  RoomInv'
BY DEF RoomInv, KnownBelow, JobHeaderAlone, RoomPlanned, SweptBelow, Compacting, locals

\* A compaction begins below the cursor, for nothing it keeps is above it.
LEMMA BeginSaveRooms ==
    ASSUME StoreInv, FilesInv, RoomInv, NEW c \in Clients, BeginSave(c)
    PROVE  RoomInv'
<1>1. phase = "none" /\ UNCHANGED <<flash, ram>> /\ ~Compacting
  BY SaveBegins DEF Compacting
<1>2. \A at \in Scan(flash) : End(flash[at].rec) <= ram.cursor
  BY <1>1 DEF RoomInv, KnownBelow
<1>3. CASE UNCHANGED <<holder, locals>>
  BY <1>1, <1>3, RoomAside
<1>4. CASE phase' \in {"erase", "header"}
  BY <1>1, <1>2, <1>4, RoomCalm
<1>5. CASE /\ PlanSound(CompactionPlan) /\ plan' = CompactionPlan
           /\ ~Refused(CompactionPlan, Size(job'.rec))
           /\ GoCompact(flash, CompactionPlan, 0)
  <2>1. CompactionPlan.oldEnd = ram.cursor /\ ram.cursor \in Nat
    BY LogFacts DEF CompactionPlan, StoreInv, TypeOK, WorldType, Ram
  <2>2. \A r \in CompactionPlan.keep : Stands(flash, r)
    BY <1>1, PlannedFiles
  <2>3. flash \in [Units -> Cell]
    BY DEF StoreInv, TypeOK, WorldType
  <2>. DEFINE pl == CompactionPlan
  <2>4. PlanSound(pl) /\ plan' = pl /\ ~Refused(pl, Size(job'.rec)) /\ GoCompact(flash, pl, 0)
        /\ pl.oldEnd = ram.cursor /\ \A r \in pl.keep : Stands(flash, r)
    BY <1>5, <2>1, <2>2
  <2>. HIDE DEF pl
  <2>5. ASSUME NEW r \in pl.keep
        PROVE  pl.to[r] + Size(r) <= ram.cursor
    <3>1. r \in File /\ pl.to[r] \in Nat /\ pl.to[r] <= r.off
      BY <2>4, LogFacts DEF PlanSound, PlanHolds
    <3>2. End(r) <= ram.cursor
      BY <1>2, <2>4, <3>1, StandsScanned
    <3>. QED
      BY <2>1, <3>1, <3>2, RecFacts DEF File
  <2>6. ASSUME NEW at \in Scan(flash)
        PROVE  PageOf(at) * PageSize < ram.cursor
    <3>1. at \in Nat /\ at < End(flash[at].rec) /\ End(flash[at].rec) \in Nat
      BY <2>3, ScanEnds
    <3>2. PageOf(at) \in Nat /\ PageOf(at) * PageSize <= at
      BY <3>1, OnItsPage
    <3>3. PageOf(at) * PageSize \in Nat
      BY <3>2, PagesInOrder
    <3>. QED
      BY <1>2, <2>1, <3>1, <3>2, <3>3
  <2>7. SweptBelow' /\ (phase' \in {"vacate", "rewrite"} => page' * PageSize < ram.cursor)
    BY <1>1, <2>1, <2>4, <2>5, RepackGoesBelow
  <2>8. phase' \in {"vacate", "rewrite", "sweep", "reload"}
    BY <2>4 DEF GoCompact, GoSweep
  <2>9. RoomPlanned'
    BY <1>1, <2>1, <2>4, <2>5, <2>6, <2>7 DEF RoomPlanned
  <2>10. KnownBelow' /\ JobHeaderAlone'
    BY <2>8 DEF KnownBelow, JobHeaderAlone, Compacting
  <2>. QED
    BY <2>7, <2>9, <2>10 DEF RoomInv
<1>. QED
  BY <1>3, <1>4, <1>5, SaveBegins

\* The operations of a compaction stay below the old cursor.
LEMMA CompactionRooms ==
    ASSUME StoreInv, StoreInv', RepackInv, RoomInv, MaxLeases = 0,
           NEW c \in Clients, NEW lost \in BOOLEAN,
           VacateOp(c, lost) \/ RewriteOp(c, lost) \/ SweepOp(c, lost)
    PROVE  RoomInv'
<1>1. /\ phase \in {"vacate", "rewrite", "sweep"} /\ Compacting /\ Operate(lost)
      /\ UNCHANGED <<ram, job, plan>>
  BY DEF VacateOp, RewriteOp, SweepOp, Compacting
<1>2. Succeeded(lost)
  BY <1>1, Performed DEF RepackInv
<1>3. DOMAIN Written = PageUnits(page)
  BY <1>1 DEF Written
<1>4. \A u \in Units : u \notin PageUnits(page) => flash'[u] = flash[u]
  BY <1>1, <1>3, OperateWrites
<1>5. PlanSound(plan) /\ page \in Nat /\ page * PageSize < plan.oldEnd /\ plan.oldEnd \in Nat
  <2>1. plan.oldEnd \in Nat /\ PlanSound(plan)
    BY <1>1 DEF RoomInv, RoomPlanned, StoreInv, CompactionSound
  <2>2. CASE phase \in {"vacate", "rewrite"}
    BY <1>1, <2>1, <2>2, GeometryAssumption
       DEF RoomInv, RoomPlanned, StoreInv, CompactionSound, Pages
  <2>3. CASE phase = "sweep"
    BY <2>1, <2>3, GeometryAssumption DEF StoreInv, CompactionSound, SweepPages, Pages
  <2>. QED
    BY <1>1, <2>1, <2>2, <2>3
<1>6. /\ \A at \in Scan(flash) : PageOf(at) * PageSize < plan.oldEnd
      /\ \A r \in plan.keep : plan.to[r] + Size(r) <= plan.oldEnd
      /\ ~Refused(plan, Size(job.rec))
  BY <1>1 DEF RoomInv, RoomPlanned
<1>7. flash \in [Units -> Cell] /\ flash' \in [Units -> Cell]
  BY DEF StoreInv, TypeOK, WorldType
<1>8. \A at \in Scan(flash') : PageOf(at) * PageSize < plan.oldEnd
  BY <1>4, <1>5, <1>6, <1>7, PageBelow
<1>9. \/ phase' = "rewrite" /\ page' = page
      \/ GoCompact(flash', plan, page + 1)
      \/ GoSweep(flash', plan)
  BY <1>2 DEF VacateOp, RewriteOp, SweepOp
<1>10. /\ phase' \in {"vacate", "rewrite", "sweep", "reload"} /\ SweptBelow'
       /\ phase' \in {"vacate", "rewrite"} => page' * PageSize < plan.oldEnd
  <2>1. CASE phase' = "rewrite" /\ page' = page
    BY <1>5, <2>1 DEF SweptBelow
  <2>2. CASE GoCompact(flash', plan, page + 1)
    <3>1. phase' \in {"vacate", "rewrite", "sweep", "reload"}
      BY <2>2 DEF GoCompact, GoSweep
    <3>. QED
      BY <1>1, <1>5, <1>6, <2>2, <3>1, RepackGoesBelow
  <2>3. CASE GoSweep(flash', plan)
    <3>1. phase' \in {"sweep", "reload"}
      BY <2>3 DEF GoSweep
    <3>. QED
      BY <1>1, <2>3, <3>1, SweepGoesOver
  <2>. QED
    BY <1>9, <2>1, <2>2, <2>3
<1>11. RoomPlanned'
  BY <1>1, <1>5, <1>6, <1>8, <1>10 DEF RoomPlanned
<1>12. KnownBelow' /\ JobHeaderAlone'
  BY <1>10 DEF KnownBelow, JobHeaderAlone, Compacting
<1>. QED
  BY <1>10, <1>11, <1>12 DEF RoomInv

\* A dead word makes no file.
LEMMA DeadWordRooms ==
    ASSUME StoreInv, StoreInv', RoomInv, NEW c \in Clients, NEW lost \in BOOLEAN,
           RetireOp(c, lost) \/ DeleteOp(c, lost)
    PROVE  RoomInv'
<1>1. phase \in {"retire", "delete"} /\ phase' = "none" /\ Operate(lost) /\ ~Compacting
  BY DEF RetireOp, DeleteOp, Answer, Compacting
<1>2. flash \in [Units -> Cell] /\ flash' \in [Units -> Cell] /\ ram'.cursor = ram.cursor
  BY DEF StoreInv, TypeOK, WorldType, Ram, RetireOp, DeleteOp
<1>3. \A at \in Scan(flash) : End(flash[at].rec) <= ram.cursor
  BY <1>1 DEF RoomInv, KnownBelow
<1>4. ASSUME NEW u \in Units
      PROVE  flash'[u] = flash[u] \/ flash'[u] = SetDead(flash[u])
  <2>1. Written = [v \in {The(job.old).off} |-> SetDead(flash[v])]
    BY <1>1 DEF Written
  <2>2. u \in DOMAIN Written => Written[u] = SetDead(flash[u])
    BY <2>1
  <2>. QED
    BY <1>1, <2>2, OperateWrites
<1>5. ASSUME NEW at \in Scan(flash')
      PROVE  at \in Scan(flash) /\ flash[at].rec = flash'[at].rec
  <2>1. at \in Units /\ flash'[at].kind = "header"
    BY DEF Scan, Accepts, HeaderAt
  <2>2. flash'[at] = flash[at] \/ (flash[at].kind = "header" /\ flash'[at] = SetDead(flash[at]))
    BY <1>4, <2>1 DEF SetDead, Junk
  <2>3. \A u \in Units : flash'[u] = flash[u] \/ flash'[u].kind # "data"
    <3>. SUFFICES ASSUME NEW u \in Units, flash'[u] = SetDead(flash[u])
                  PROVE  flash'[u].kind # "data"
      BY <1>4
    <3>1. CASE flash[u].kind = "header"
      <4>1. flash[u] \in [kind : {"header"}, rec : Rec, commit : BOOLEAN, dead : BOOLEAN]
        BY <1>2, <3>1, HeaderCell
      <4>. QED
        BY <3>1, <4>1 DEF SetDead
    <3>2. CASE flash[u].kind # "header"
      BY <3>2 DEF SetDead, Junk
    <3>. QED
      BY <3>1, <3>2
  <2>. QED
    BY <1>2, <2>2, <2>3, ScanKept
<1>6. \A at \in Scan(flash') : End(flash'[at].rec) <= ram'.cursor
  BY <1>2, <1>3, <1>5
<1>. QED
  BY <1>1, <1>6, RoomCalm

\* The new file is the only one an append adds to what the scan accepts.
LEMMA AppendRooms ==
    ASSUME StoreInv, StoreInv', VersInv, FilesInv, RepackInv, RoomInv, MaxLeases = 0,
           NEW c \in Clients, NEW lost \in BOOLEAN, AppendOp(c, lost)
    PROVE  RoomInv'
<1>1. /\ phase \in {"erase", "header", "payload", "commit"} /\ holder = c /\ ~Compacting
      /\ UNCHANGED ram
  BY DEF AppendOp, Appending, Compacting
<1>2. flash \in [Units -> Cell] /\ flash' \in [Units -> Cell]
  BY DEF StoreInv, TypeOK, WorldType
<1>3. \A at \in Scan(flash) : End(flash[at].rec) <= ram.cursor
  BY <1>1 DEF RoomInv, KnownBelow
<1>4. CASE phase' = "none" /\ UNCHANGED flash
  BY <1>1, <1>3, <1>4, RoomCalm
<1>5. CASE Operate(lost) /\ NextStep /\ UNCHANGED job
  <2>1. \A u \in Units : flash'[u] = IF u \in DOMAIN Written THEN Written[u] ELSE flash[u]
    BY <1>5, Performed DEF RepackInv
  <2>. DEFINE off == job.rec.off
  <2>2. CASE phase = "erase"
    <3>1. phase' \in {"erase", "header"}
      BY <1>5, <2>2 DEF NextStep, GoErase
    <3>2. Written = [u \in PageUnits(page) |-> Erased]
      BY <2>2 DEF Written
    <3>3. \A u \in Units : flash'[u] = flash[u] \/ flash'[u] = Erased
      BY <2>1, <3>2
    <3>4. ASSUME NEW at \in Scan(flash')
          PROVE  at \in Scan(flash) /\ flash[at].rec = flash'[at].rec
      <4>1. at \in Units /\ flash'[at].kind = "header"
        BY DEF Scan, Accepts, HeaderAt
      <4>2. flash'[at] = flash[at]
        BY <3>3, <4>1 DEF Erased
      <4>3. \A u \in Units : flash'[u] = flash[u] \/ flash'[u].kind # "data"
        BY <3>3 DEF Erased
      <4>. QED
        BY <1>2, <4>2, <4>3, ScanKept
    <3>5. \A at \in Scan(flash') : End(flash'[at].rec) <= ram'.cursor
      BY <1>1, <1>3, <3>4
    <3>. QED
      BY <3>1, <3>5, RoomCalm
  <2>3. CASE phase = "header"
    <3>1. phase' = "payload"
      BY <1>5, <2>3 DEF NextStep
    <3>2. Written = [u \in {off} |-> Program(flash[u], Header(job.rec, FALSE, FALSE))]
      BY <2>3 DEF Written
    <3>3. flash[off] = Erased
      BY <2>3 DEF FilesInv, HeaderIsDue
    <3>4. \A u \in Units : flash'[u] = IF u = off THEN Header(job.rec, FALSE, FALSE) ELSE flash[u]
      BY <2>1, <3>2, <3>3 DEF Program
    <3>5. ASSUME NEW at \in Scan(flash')
          PROVE  at \in Scan(flash) /\ flash[at].rec = flash'[at].rec
      <4>1. at \in Units /\ flash'[at].commit
        BY DEF Scan, Accepts, HeaderAt
      <4>2. at # off
        BY <3>4, <4>1 DEF Header
      <4>3. flash'[at] = flash[at]
        BY <3>4, <4>1, <4>2
      <4>4. \A u \in Units : flash'[u] = flash[u] \/ flash'[u].kind # "data"
        BY <3>4 DEF Header
      <4>. QED
        BY <1>2, <4>3, <4>4, ScanKept
    <3>6. KnownBelow'
      BY <1>1, <1>3, <3>5 DEF KnownBelow
    <3>7. JobHeaderAlone'
      <4>. SUFFICES ASSUME NEW u \in Units, flash'[u].kind = "header",
                           flash'[u].rec.ver = job.rec.ver, u # off
                    PROVE  FALSE
        BY <1>5 DEF JobHeaderAlone
      <4>1. flash[u].kind = "header" /\ flash[u].rec.ver = job.rec.ver
        BY <3>4
      <4>2. Settled(job.rec.ver, req, used.saves)
        BY <2>3, <4>1 DEF VersInv, FlashIsOld
      <4>3. req[c].op = "save" /\ job.rec.ver = req[c].ver
        BY <1>1, <2>3 DEF VersInv, JobIsTheRequest, StoreInv, TypeOK, TaskType
      <4>. QED
        BY <4>2, <4>3 DEF Settled
    <3>. QED
      BY <3>1, <3>6, <3>7 DEF RoomInv, RoomPlanned, SweptBelow, Compacting
  <2>4. CASE phase = "payload"
    <3>1. phase' \in {"payload", "commit"}
      BY <1>5, <2>4 DEF NextStep
    <3>2. Written = [u \in PayloadUnits(job.rec) \cap PageUnits(page) |->
                         Program(flash[u], Body(job.rec, u))]
      BY <2>4 DEF Written
    <3>3. ASSUME NEW u \in Units
          PROVE  \/ flash'[u] = flash[u]
                 \/ flash'[u].kind = "data" /\ flash'[u].ver = job.rec.ver
                 \/ flash'[u].kind = "junk"
      <4>1. \A old, new : Program(old, new) \in {old, new, Junk}
        BY DEF Program
      <4>2. u \in DOMAIN Written => Written[u] = Program(flash[u], Body(job.rec, u))
        BY <3>2
      <4>3. flash'[u] \in {flash[u], Body(job.rec, u), Junk}
        BY <2>1, <4>1, <4>2
      <4>. QED
        BY <4>3 DEF Body, Data, Junk
    <3>4. JobHeaderAlone'
      BY <1>5, <2>4, <3>3 DEF RoomInv, JobHeaderAlone
    <3>5. ASSUME NEW at \in Scan(flash')
          PROVE  at \in Scan(flash) /\ flash[at].rec = flash'[at].rec
      <4>1. at \in Units /\ flash'[at].kind = "header" /\ flash'[at].commit
        BY DEF Scan, Accepts, HeaderAt
      <4>2. flash'[at] = flash[at]
        BY <3>3, <4>1
      <4>3. flash'[at].rec.ver # job.rec.ver
        <5>. SUFFICES ASSUME flash'[at].rec.ver = job.rec.ver PROVE FALSE
          OBVIOUS
        <5>1. at = off
          BY <2>4, <4>1, <4>2 DEF RoomInv, JobHeaderAlone
        <5>2. flash[off] = Header(job.rec, FALSE, FALSE)
          BY <2>4 DEF FilesInv, HeaderIsDue
        <5>. QED
          BY <4>1, <4>2, <5>1, <5>2 DEF Header
      <4>4. \A u \in Units : flash'[u] = flash[u]
                             \/ ~(flash'[u].kind = "data" /\ flash'[u].ver = flash'[at].rec.ver)
        BY <3>3, <4>3
      <4>. QED
        BY <1>2, <4>2, <4>4, ScanKept
    <3>6. KnownBelow'
      BY <1>1, <1>3, <3>5 DEF KnownBelow
    <3>. QED
      BY <3>1, <3>4, <3>6 DEF RoomInv, RoomPlanned, SweptBelow, Compacting
  <2>5. CASE phase = "commit"
    <3>1. phase' = "publish"
      BY <1>5, <2>5 DEF NextStep
    <3>2. Written = [u \in {off} |-> SetCommit(flash[u])]
      BY <2>5 DEF Written
    <3>3. flash[off] = Header(job.rec, FALSE, FALSE)
      BY <2>5 DEF FilesInv, HeaderIsDue
    <3>4. \A u \in Units : flash'[u] = IF u = off THEN Header(job.rec, TRUE, FALSE) ELSE flash[u]
      <4>1. SetCommit(Header(job.rec, FALSE, FALSE)) = Header(job.rec, TRUE, FALSE)
        BY DEF SetCommit, Header
      <4>2. DOMAIN Written = {off} /\ Written[off] = Header(job.rec, TRUE, FALSE)
        BY <3>2, <3>3, <4>1
      <4>. QED
        BY <2>1, <4>2
    <3>5. ASSUME NEW at \in Scan(flash'), at # off
          PROVE  at \in Scan(flash) /\ flash[at].rec = flash'[at].rec
      <4>1. at \in Units
        BY DEF Scan
      <4>2. flash'[at] = flash[at]
        BY <3>4, <3>5, <4>1
      <4>3. \A u \in Units : flash'[u] = flash[u] \/ flash'[u].kind # "data"
        BY <3>4 DEF Header
      <4>. QED
        BY <1>2, <4>2, <4>3, ScanKept
    <3>6. KnownBelow'
      BY <1>1, <1>3, <1>5, <3>1, <3>5 DEF KnownBelow
    <3>7. JobHeaderAlone'
      BY <1>5, <2>5, <3>4 DEF RoomInv, JobHeaderAlone
    <3>. QED
      BY <3>1, <3>6, <3>7 DEF RoomInv, RoomPlanned, SweptBelow, Compacting
  <2>. QED
    BY <1>1, <2>2, <2>3, <2>4, <2>5
<1>6. \/ Answer(c) /\ UNCHANGED flash
      \/ Operate(lost) /\ NextStep /\ UNCHANGED job
  <2>1. Operate(lost) => Succeeded(lost)
    BY Performed DEF RepackInv
  <2>. QED
    BY <2>1 DEF AppendOp
<1>. QED
  BY <1>4, <1>5, <1>6 DEF Answer

\* Publishing takes the cursor past the new file.
LEMMA PublishRooms ==
    ASSUME StoreInv, FilesInv, RoomInv, NEW c \in Clients, Publish(c)
    PROVE  RoomInv'
<1>1. phase = "publish" /\ ~Compacting /\ UNCHANGED flash /\ phase' \in {"none", "retire"}
  BY DEF Publish, Answer, Compacting
<1>2. ram \in Ram /\ job.rec \in File /\ Stands(flash, job.rec)
  BY <1>1 DEF StoreInv, TypeOK, WorldType, TaskType, Appending, FilesInv, HeaderIsDue
<1>3. ram'.cursor = IF ram.cursor < End(job.rec) THEN End(job.rec) ELSE ram.cursor
  BY <1>2 DEF Publish, Ram
<1>4. ram.cursor \in Nat /\ End(job.rec) \in Nat
  BY <1>2, LogFacts, RecFacts DEF Ram, File
<1>5. End(flash[job.rec.off].rec) = End(job.rec)
  BY <1>2, StandsScanned
<1>6. flash \in [Units -> Cell]
  BY DEF StoreInv, TypeOK, WorldType
<1>7. ASSUME NEW at \in Scan(flash)
      PROVE  End(flash[at].rec) <= ram'.cursor
  <2>1. End(flash[at].rec) \in Nat
    BY <1>6, ScanEnds
  <2>2. End(flash[at].rec) <= ram.cursor \/ at = job.rec.off
    BY <1>1 DEF RoomInv, KnownBelow
  <2>. QED
    BY <1>3, <1>4, <1>5, <2>1, <2>2
<1>. QED
  BY <1>1, <1>7, RoomCalm

\* Every step keeps the room.
LEMMA RoomStep ==
    ASSUME MaxLeases = 0, MaxOtas = 0, StoreInv, StoreInv', VersInv, FilesInv, RepackInv, RoomInv,
           [Next]_vars
    PROVE  RoomInv'
<1>1. ASSUME NEW c \in Clients, Serve(c)
      PROVE  RoomInv'
  <2>1. CASE GiveUp(c) \/ GetCopy(c)
    BY <2>1, RoomAside DEF GiveUp, GetCopy
  <2>2. CASE BeginSave(c)
    BY <2>2, BeginSaveRooms
  <2>3. CASE Reload(c)
    <3>1. flash' = flash /\ ram' = ReloadOf(flash) /\ flash \in [Units -> Cell]
      BY <2>3 DEF Reload, StoreInv, TypeOK, WorldType
    <3>2. phase' \in {"none", "erase", "header"}
      BY <2>3 DEF Reload, Answer, GoAppend, GoErase
    <3>. QED
      BY <3>1, <3>2, RoomReloaded
  <2>4. CASE Publish(c)
    BY <2>4, PublishRooms
  <2>5. CASE BeginDelete(c)
    <3>1. /\ phase = "none" /\ phase' = "delete" /\ UNCHANGED <<flash, ram>>
      BY <2>5 DEF BeginDelete, GuardFree, StoreInv, TypeOK, TaskType
    <3>2. \A at \in Scan(flash) : End(flash[at].rec) <= ram.cursor
      BY <3>1 DEF RoomInv, KnownBelow, Compacting
    <3>. QED
      BY <3>1, <3>2, RoomCalm
  <2>6. ASSUME NEW lost \in BOOLEAN, VacateOp(c, lost) \/ RewriteOp(c, lost) \/ SweepOp(c, lost)
        PROVE  RoomInv'
    BY <2>6, CompactionRooms
  <2>7. ASSUME NEW lost \in BOOLEAN, AppendOp(c, lost)
        PROVE  RoomInv'
    BY <2>7, AppendRooms
  <2>8. ASSUME NEW lost \in BOOLEAN, RetireOp(c, lost) \/ DeleteOp(c, lost)
        PROVE  RoomInv'
    BY <2>8, DeadWordRooms
  <2>. QED
    BY <1>1, <2>1, <2>2, <2>3, <2>4, <2>5, <2>6, <2>7, <2>8 DEF Serve
<1>2. ASSUME NEW c \in Clients, Request(c)
      PROVE  RoomInv'
  BY <1>2, RoomAside DEF Request, RequestSave, RequestDelete, RequestGet
<1>3. CASE Render \/ OtaBegin \/ OtaEnd \/ UNCHANGED vars
  <2>1. UNCHANGED <<flash, ram>> /\ UNCHANGED locals
    BY <1>3 DEF Render, SwapPin, SwapDecode, SwapInstall, FadeEnd, OtaBegin, OtaEnd, vars
  <2>. QED
    BY <2>1, RoomAside
<1>4. CASE PowerCut
  <2>1. ram' = ReloadOf(flash') /\ phase' = "none"
    BY <1>4 DEF PowerCut, Boot
  <2>2. flash' \in [Units -> Cell]
    BY DEF StoreInv, TypeOK, WorldType
  <2>. DEFINE fl == flash'
  <2>. QED
    BY <2>1, <2>2, RoomReloaded
<1>. QED
  BY <1>1, <1>2, <1>3, <1>4 DEF Next

\* What a finished compaction has left on flash: below the packed end what is
\* due, above it, as far as the old log reached, nothing.
Delivered(fl, pl) ==
    /\ PlanSound(pl) /\ pl.pinned = {} /\ pl.oldEnd \in Nat
    /\ Repacked(fl, pl, NumPages)
    /\ \A p \in SweepPages(pl.keep, pl.to, pl.oldEnd) : PageErased(fl, p)
    /\ \A at \in Scan(fl) : PageOf(at) * PageSize < pl.oldEnd

\* Without pins every unit on a page of the packed log is as it is due, and one no
\* file covers is erased.
LEMMA PackedUnits ==
    ASSUME NEW fl, NEW pl, Delivered(fl, pl), NEW u \in Units,
           PageOf(u) * PageSize < Packed(pl.keep, pl.to)
    PROVE  Due(fl[u], pl, u)
<1>1. FrozenPages(pl.keep, pl.pinned) = {}
  BY DEF Delivered, FrozenPages
<1>2. u \in Nat /\ u < LogLen
  BY LogFacts
<1>3. PageOf(u) \in Nat /\ PageOf(u) * PageSize <= u /\ PageOf(u) * PageSize \in Nat
  BY <1>2, OnItsPage, PagesInOrder
<1>4. PageOf(u) < NumPages
  <2>1. ~(NumPages <= PageOf(u))
    BY <1>2, <1>3, PagesInOrder, GeometryAssumption DEF LogLen
  <2>. QED
    BY <1>3, <2>1, GeometryAssumption
<1>5. PageOf(u) \in Pages
  BY <1>3, <1>4, GeometryAssumption DEF Pages
<1>6. PageOf(u) \in RepackPages(pl)
  BY <1>1, <1>5 DEF RepackPages
<1>. QED
  BY <1>4, <1>6 DEF Delivered, Repacked

\* A unit at or above the packed end, on a page of the packed log or below the
\* end of the old one, is erased.
LEMMA AboveErased ==
    ASSUME NEW fl, NEW pl, Delivered(fl, pl), NEW u \in Units,
           \/ /\ PageOf(u) * PageSize < Packed(pl.keep, pl.to)
              /\ Packed(pl.keep, pl.to) <= u
           \/ /\ Packed(pl.keep, pl.to) <= PageOf(u) * PageSize
              /\ PageOf(u) * PageSize < pl.oldEnd
    PROVE  fl[u] = Erased
<1>. DEFINE end == Packed(pl.keep, pl.to)
            q == PageOf(u)
<1>1. /\ end \in Nat /\ PlanSound(pl)
      /\ \A r \in pl.keep : pl.to[r] + Size(r) <= end
  BY PackedEnds DEF Delivered
<1>2. u \in Nat /\ u < LogLen /\ q \in Nat /\ q * PageSize <= u /\ u \in PageUnits(q)
  BY LogFacts, OnItsPage DEF PageUnits
<1>3. q * PageSize \in Nat
  BY <1>2, PagesInOrder
<1>4. \A r \in pl.keep : pl.to[r] + Size(r) \in Nat
  <2>. SUFFICES ASSUME NEW r \in pl.keep PROVE pl.to[r] + Size(r) \in Nat
    OBVIOUS
  <2>1. r \in Rec /\ pl.to[r] \in Nat
    BY <1>1, LogFacts DEF PlanSound, PlanHolds, File
  <2>. QED
    BY <2>1, RecFacts
<1>. HIDE DEF end
<1>5. CASE q * PageSize < end /\ end <= u
  <2>1. Due(fl[u], pl, u)
    BY <1>5, PackedUnits DEF end
  <2>2. ASSUME NEW r \in pl.keep, u \in NewExtent(pl, r) PROVE FALSE
    <3>1. u < pl.to[r] + Size(r)
      BY <1>1, <2>2, NewPlace
    <3>. QED
      BY <1>1, <1>2, <1>4, <1>5, <3>1
  <2>. QED
    BY <2>1, <2>2 DEF Due
<1>6. CASE end <= q * PageSize /\ q * PageSize < pl.oldEnd
  <2>. HIDE DEF q
  <2>1. q < NumPages
    <3>1. ~(NumPages <= q)
      BY <1>2, <1>3, PagesInOrder, LogFacts, GeometryAssumption DEF LogLen
    <3>. QED
      BY <1>2, <3>1, GeometryAssumption
  <2>2. q \in Pages
    BY <1>2, <2>1, GeometryAssumption DEF Pages
  <2>3. \A r \in pl.keep : pl.to[r] + Size(r) <= q * PageSize
    BY <1>1, <1>3, <1>4, <1>6
  <2>4. q \in SweepPages(pl.keep, pl.to, pl.oldEnd)
    BY <1>6, <2>2, <2>3 DEF SweepPages
  <2>. QED
    BY <1>2, <2>4 DEF Delivered, PageErased, ErasedRange
<1>. QED
  BY <1>5, <1>6 DEF end, q

\* All the scan finds then are the files that were kept, at their new places.
LEMMA DeliveredScan ==
    ASSUME NEW fl \in [Units -> Cell], NEW pl, Delivered(fl, pl), NEW at \in Scan(fl)
    PROVE  End(fl[at].rec) <= Packed(pl.keep, pl.to)
<1>. DEFINE end == Packed(pl.keep, pl.to)
<1>1. at \in Units /\ fl[at].kind = "header" /\ PageOf(at) * PageSize < pl.oldEnd
  BY DEF Scan, Accepts, HeaderAt, Delivered
<1>2. fl[at] # Erased
  BY <1>1 DEF Erased
<1>3. end \in Nat /\ PlanSound(pl)
  BY PackedEnds DEF Delivered
<1>4. PageOf(at) \in Nat /\ PageOf(at) * PageSize \in Nat
  BY <1>1, LogFacts, OnItsPage, PagesInOrder
<1>5. PageOf(at) * PageSize < end
  <2>1. ~(end <= PageOf(at) * PageSize)
    BY <1>1, <1>2, AboveErased
  <2>. QED
    BY <1>3, <1>4, <2>1
<1>6. Due(fl[at], pl, at)
  BY <1>1, <1>5, PackedUnits
<1>7. PICK r \in pl.keep : at \in NewExtent(pl, r)
  BY <1>2, <1>6 DEF Due
<1>8. IsDue(fl[at], pl, r, at)
  BY <1>6, <1>7 DEF Due, FilesDue
<1>9. at = pl.to[r]
  BY <1>1, <1>8 DEF IsDue, Data
<1>10. SameFile(fl[at].rec, [r EXCEPT !.off = at]) /\ r \in Rec
  BY <1>3, <1>7, <1>8, <1>9, NewPlace DEF IsDue
<1>11. fl[at].rec.off = at /\ fl[at].rec.len = r.len
  BY <1>10 DEF SameFile, Rec
<1>12. End(fl[at].rec) = pl.to[r] + Size(r)
  BY <1>9, <1>11 DEF End, Size
<1>. QED
  BY <1>3, <1>12, PackedEnds

\* So the cursor comes to the packed end.
LEMMA DeliveredCursor ==
    ASSUME NEW fl \in [Units -> Cell], NEW pl, Delivered(fl, pl)
    PROVE  ScanCursor(fl) = Packed(pl.keep, pl.to)
<1>. DEFINE end == Packed(pl.keep, pl.to)
            ends == { End(fl[at].rec) : at \in Scan(fl) }
<1>1. end \in Nat /\ PlanSound(pl)
  BY PackedEnds DEF Delivered
<1>2. ScanCursor(fl) = IF ends = {} THEN 0 ELSE Max(ends)
  BY DEF ScanCursor
<1>3. \A e \in ends : e \in Nat /\ e <= end
  BY ScanEnds, DeliveredScan
<1>4. ScanCursor(fl) \in Nat /\ ScanCursor(fl) <= end
  <2>. HIDE DEF ends, end
  <2>1. CASE ends = {}
    BY <1>1, <1>2, <2>1
  <2>2. CASE ends # {}
    <3>1. ends \in SUBSET Nat /\ IsFiniteSet(ends)
      BY <1>1, <1>3, FS_BoundedSetOfNaturals
    <3>2. Max(ends) \in ends
      BY <2>2, <3>1, MaxExists
    <3>. QED
      BY <1>2, <1>3, <2>2, <3>2
  <2>. QED
    BY <2>1, <2>2
<1>5. end <= ScanCursor(fl)
  <2>1. CASE pl.keep = {}
    <3>1. end = 0
      BY <2>1 DEF Packed
    <3>. QED
      BY <1>4, <3>1
  <2>2. CASE pl.keep # {}
    <3>1. PICK r \in pl.keep : pl.to[r] + Size(r) = end
      BY <1>1, <2>2, PackedEnds
    <3>. DEFINE at == pl.to[r]
    <3>2. Accepts(fl, at) /\ SameFile(fl[at].rec, [r EXCEPT !.off = at])
      BY <1>1, RepackedStands DEF Delivered
    <3>3. at \in Units /\ r \in Rec
      BY <1>1 DEF PlanSound, PlanHolds, File
    <3>4. at \in Scan(fl)
      BY <3>2, <3>3 DEF Scan
    <3>. HIDE DEF at, end
    <3>5. fl[at].rec.off = at /\ fl[at].rec.len = r.len
      BY <3>2, <3>3 DEF SameFile, Rec
    <3>6. End(fl[at].rec) = end
      BY <3>1, <3>5 DEF End, Size, at
    <3>7. End(fl[at].rec) <= ScanCursor(fl)
      BY <3>4, ScanEnds
    <3>. QED
      BY <3>6, <3>7
  <2>. QED
    BY <2>1, <2>2
<1>. HIDE DEF end
<1>6. ScanCursor(fl) = end
  BY <1>1, <1>4, <1>5
<1>. QED
  BY <1>6 DEF end

\* The tail of the packed log takes whatever fits behind it.
LEMMA TailTakes ==
    ASSUME NEW fl, NEW pl, Delivered(fl, pl), NEW size \in Nat \ {0},
           Packed(pl.keep, pl.to) + size <= LogLen
    PROVE  Place(fl, Packed(pl.keep, pl.to), size) # NoPlace
<1>. DEFINE end == Packed(pl.keep, pl.to)
            up == AlignPage(end)
            head == end .. Min({end + size, up}) - 1
<1>1. end \in Nat
  BY PackedEnds DEF Delivered
<1>2. PICK k \in Nat : up = k * PageSize /\ end <= up /\ up < end + PageSize /\ up \in Nat
  BY <1>1, AlignUp
<1>3. end + size <= LogLen
  OBVIOUS
<1>. HIDE DEF end, up
<1>4. ASSUME NEW u \in head, end # up
      PROVE  u \in Units /\ fl[u] = Erased
  <2>1. {end + size, up} \in SUBSET Nat /\ {end + size, up} # {}
    BY <1>1, <1>2
  <2>2. /\ Min({end + size, up}) \in {end + size, up}
        /\ Min({end + size, up}) <= end + size /\ Min({end + size, up}) <= up
    BY <2>1, MinExists
  <2>3. u \in Nat /\ end <= u /\ u < end + size /\ u < up
    BY <1>1, <1>2, <2>2
  <2>4. u \in Units
    BY <1>1, <1>3, <2>3, LogFacts
  <2>. DEFINE q == PageOf(u)
  <2>5. q \in Nat /\ q * PageSize <= u /\ q * PageSize \in Nat
    BY <2>3, OnItsPage, PagesInOrder
  <2>. HIDE DEF q
  <2>6. q < k
    <3>1. ~(k <= q)
      BY <1>2, <2>3, <2>5, PagesInOrder
    <3>. QED
      BY <2>5, <3>1
  <2>7. q * PageSize + PageSize <= k * PageSize
    BY <2>5, <2>6, PagesInOrder
  <2>8. q * PageSize < end
    BY <1>1, <1>2, <2>5, <2>7, GeometryAssumption
  <2>9. fl[u] = Erased
    BY <2>3, <2>4, <2>8, AboveErased DEF q, end
  <2>. QED
    BY <2>4, <2>9
<1>5. end = up \/ ErasedRange(fl, head)
  BY <1>4 DEF ErasedRange
<1>6. Place(fl, end, size) = end
  <2>1. Place(fl, end, size) =
          IF end + size > LogLen THEN NoPlace
          ELSE IF end = up \/ ErasedRange(fl, head) THEN end
          ELSE IF up + size <= LogLen THEN up ELSE NoPlace
    BY DEF Place, up
  <2>. QED
    BY <1>1, <1>3, <1>5, <2>1, LogFacts
<1>7. end # NoPlace
  BY <1>1, <1>3, LogFacts DEF NoPlace
<1>. QED
  BY <1>6, <1>7 DEF end

\* The longest run a repack leaves uncovered is one.
LEMMA FreeRunIsThere ==
    ASSUME NEW keep, NEW to
    PROVE  \E n \in Nat, p \in Nat :
              /\ FreeRunAfter(keep, to) = n * PageSize /\ p + n <= NumPages
              /\ \A q \in Nat : p <= q /\ q < p + n => q \notin Covered(keep, to)
<1>. DEFINE covered == Covered(keep, to)
            runs == { n \in 0 .. NumPages :
                        \E p \in 0 .. NumPages : /\ p + n <= NumPages
                                                 /\ (p .. p + n - 1) \cap covered = {} }
<1>1. FreeRunAfter(keep, to) = Max(runs) * PageSize
  BY DEF FreeRunAfter
<1>2. runs \in SUBSET Nat /\ IsFiniteSet(runs)
  <2>1. \A n \in runs : n \in Nat /\ n <= NumPages
    BY GeometryAssumption
  <2>. HIDE DEF runs
  <2>. QED
    BY <2>1, GeometryAssumption, FS_BoundedSetOfNaturals
<1>3. 0 \in runs
  <2>1. 0 .. 0 + 0 - 1 = {}
    OBVIOUS
  <2>2. 0 \in 0 .. NumPages /\ 0 + 0 <= NumPages
    BY GeometryAssumption
  <2>. QED
    BY <2>1, <2>2
<1>. DEFINE n == Max(runs)
<1>4. n \in runs
  BY <1>2, <1>3, MaxExists
<1>5. PICK p \in 0 .. NumPages : p + n <= NumPages /\ (p .. p + n - 1) \cap covered = {}
  BY <1>4
<1>6. n \in Nat /\ p \in Nat
  BY <1>2, <1>4
<1>. HIDE DEF n, covered
<1>7. \A q \in Nat : p <= q /\ q < p + n => q \notin covered
  BY <1>5, <1>6
<1>. QED
  BY <1>1, <1>5, <1>6, <1>7 DEF n, covered

\* Any run of erased pages long enough is a place below the cursor.
LEMMA RunTakes ==
    ASSUME NEW fl, NEW size \in Nat \ {0}, NEW k \in Nat, AlignPage(size) \div PageSize = k,
           NEW p \in Pages, p + k <= NumPages,
           \A q \in p .. p + k - 1 : PageErased(fl, q)
    PROVE  PlaceFree(fl, 0, size) # NoPlace
<1>. DEFINE runs == { x \in Pages : /\ x + k <= NumPages
                                    /\ \A q \in x .. x + k - 1 : PageErased(fl, q) }
<1>1. PlaceFree(fl, 0, size) =
        IF 0 + size <= LogLen /\ ErasedRange(fl, Cleared(0, size)) THEN 0
        ELSE IF runs # {} THEN Min(runs) * PageSize ELSE NoPlace
  BY DEF PlaceFree
<1>2. p \in runs /\ runs \in SUBSET Nat /\ runs \subseteq Pages
  BY GeometryAssumption DEF Pages
<1>. HIDE DEF runs
<1>3. Min(runs) \in runs
  BY <1>2, MinExists
<1>4. Min(runs) \in Nat /\ Min(runs) < NumPages
  <2>1. \A q \in Pages : q \in Nat /\ q < NumPages
    BY GeometryAssumption DEF Pages
  <2>2. Min(runs) \in Pages
    BY <1>2, <1>3
  <2>. QED
    BY <2>1, <2>2
<1>5. Min(runs) * PageSize <= LogLen /\ Min(runs) * PageSize \in Nat
  BY <1>4, PagesInOrder, GeometryAssumption DEF LogLen
<1>6. 0 # NoPlace /\ Min(runs) * PageSize # NoPlace
  BY <1>5, LogFacts DEF NoPlace
<1>. QED
  BY <1>1, <1>2, <1>6

\* A run no file covers takes what does not fit behind the packed log.
LEMMA RunIsErased ==
    ASSUME NEW fl, NEW pl, Delivered(fl, pl), NEW size \in Nat \ {0},
           ~(Packed(pl.keep, pl.to) + size <= LogLen),
           FreeRunAfter(pl.keep, pl.to) >= AlignPage(size)
    PROVE  PlaceFree(fl, 0, size) # NoPlace
<1>. DEFINE end == Packed(pl.keep, pl.to)
            covered == Covered(pl.keep, pl.to)
<1>1. end \in Nat /\ PlanSound(pl)
  BY PackedEnds DEF Delivered
<1>2. PICK k \in Nat : /\ AlignPage(size) = k * PageSize /\ AlignPage(size) \div PageSize = k
                       /\ size <= k * PageSize
  BY AlignUp
<1>3. PICK n \in Nat, p \in Nat :
         /\ FreeRunAfter(pl.keep, pl.to) = n * PageSize /\ p + n <= NumPages
         /\ \A q \in Nat : p <= q /\ q < p + n => q \notin covered
  BY FreeRunIsThere
<1>4. k <= n
  <2>1. k * PageSize <= n * PageSize /\ n * PageSize \in Nat /\ k * PageSize \in Nat
    BY <1>2, <1>3, PagesInOrder
  <2>2. ~(n < k)
    BY <2>1, PagesInOrder, GeometryAssumption
  <2>. QED
    BY <2>2
<1>5. k # 0
  BY <1>2, GeometryAssumption
<1>6. p + k <= NumPages /\ p \in Pages
  BY <1>3, <1>4, <1>5, GeometryAssumption DEF Pages
<1>7. p * PageSize < end
  <2>. SUFFICES ASSUME ~(p * PageSize < end) PROVE FALSE
    OBVIOUS
  <2>1. p * PageSize \in Nat /\ k * PageSize \in Nat
    BY PagesInOrder
  <2>2. (p + k) * PageSize = p * PageSize + k * PageSize
    BY GeometryAssumption
  <2>3. (p + k) * PageSize <= LogLen
    BY <1>6, PagesInOrder, GeometryAssumption DEF LogLen
  <2>. DEFINE a == p * PageSize
              b == k * PageSize
  <2>4. a \in Nat /\ b \in Nat /\ a + b <= LogLen /\ size <= b /\ end <= a
    BY <1>1, <1>2, <2>1, <2>2, <2>3
  <2>5. ~(end + size <= LogLen) /\ LogLen \in Nat
    BY LogFacts
  <2>. HIDE DEF a, b, end
  <2>. QED
    BY <1>1, <2>4, <2>5
<1>8. pl.keep # {}
  <2>1. p * PageSize \in Nat
    BY PagesInOrder
  <2>. QED
    BY <1>1, <1>7, <2>1 DEF Packed
<1>9. PICK r \in pl.keep : pl.to[r] + Size(r) = end
  BY <1>1, <1>8, PackedEnds
<1>10. r \in Rec /\ pl.to[r] \in Nat /\ Size(r) \in Nat \ {0}
  BY <1>1, LogFacts, RecFacts DEF PlanSound, PlanHolds, File
<1>. DEFINE z == PageOf(end - 1)
<1>11. z \in covered
  <2>1. end - 1 \in Extent(pl.to[r], Size(r))
    BY <1>9, <1>10 DEF Extent
  <2>. QED
    BY <2>1 DEF Covered, PagesOf
<1>12. end - 1 \in Nat /\ z \in Nat /\ z * PageSize <= end - 1 /\ end - 1 < z * PageSize + PageSize
  <2>1. end - 1 \in Nat
    BY <1>9, <1>10
  <2>. QED
    BY <2>1, OnItsPage
<1>. HIDE DEF z, end, covered
<1>13. p <= z
  <2>1. p * PageSize \in Nat /\ z * PageSize \in Nat
    BY <1>12, PagesInOrder
  <2>2. ~(z < p)
    BY <1>1, <1>7, <1>12, <2>1, PagesInOrder, GeometryAssumption
  <2>. QED
    BY <1>12, <2>2
<1>14. p + n <= z
  BY <1>3, <1>11, <1>12, <1>13
<1>15. ASSUME NEW q \in p .. p + k - 1
       PROVE  PageErased(fl, q)
  <2>1. q \in Nat /\ q < z /\ q \notin covered
    BY <1>3, <1>4, <1>12, <1>14
  <2>2. q * PageSize < end
    <3>1. q * PageSize <= z * PageSize /\ q * PageSize \in Nat /\ z * PageSize \in Nat
      BY <1>12, <2>1, PagesInOrder
    <3>. QED
      BY <1>1, <1>12, <3>1
  <2>3. ASSUME NEW u \in PageUnits(q)
        PROVE  u \in Units /\ fl[u] = Erased
    <3>1. u \in Units /\ PageOf(u) = q
      BY DEF PageUnits
    <3>2. Due(fl[u], pl, u)
      BY <2>2, <3>1, PackedUnits DEF end
    <3>3. \A x \in pl.keep : u \notin NewExtent(pl, x)
      BY <2>1, <3>1 DEF covered, Covered, PagesOf, NewExtent
    <3>. QED
      BY <3>1, <3>2, <3>3 DEF Due
  <2>. QED
    BY <2>3 DEF PageErased, ErasedRange
<1>. QED
  BY <1>2, <1>6, <1>15, RunTakes

\* A compaction that saw nothing pinned and was not refused has made room.
LEMMA UnpinnedMakesRoom ==
    ASSUME StoreInv, RepackInv, RoomInv, phase = "reload", plan.pinned = {}
    PROVE  FindPlace(flash, ReloadOf(flash), Size(job.rec)) # NoPlace
<1>. DEFINE size == Size(job.rec)
            end == Packed(plan.keep, plan.to)
<1>1. flash \in [Units -> Cell] /\ job.rec \in Rec /\ size \in Nat \ {0}
  BY RecFacts DEF StoreInv, TypeOK, WorldType, TaskType
<1>2. Delivered(flash, plan) /\ ~Refused(plan, size)
  BY DEF StoreInv, CompactionSound, RepackInv, RoomInv, RoomPlanned, SweptBelow, Compacting, Delivered
<1>3. ScanCursor(flash) = end /\ ReloadOf(flash).cursor = ScanCursor(flash)
      /\ ReloadOf(flash).freeHint = 0
  BY <1>1, <1>2, DeliveredCursor DEF ReloadOf
<1>4. FindPlace(flash, ReloadOf(flash), size) =
        IF Place(flash, end, size) # NoPlace THEN Place(flash, end, size)
        ELSE PlaceFree(flash, 0, size)
  BY <1>3 DEF FindPlace
<1>5. CASE end + size <= LogLen
  BY <1>1, <1>2, <1>4, <1>5, TailTakes
<1>6. CASE ~(end + size <= LogLen)
  <2>1. end \in Nat /\ LogLen \in Nat
    BY <1>2, PackedEnds, LogFacts DEF Delivered
  <2>2. AlignPage(size) \in Nat /\ FreeRunAfter(plan.keep, plan.to) \in Nat
    <3>1. AlignPage(size) \in Nat
      BY <1>1, AlignUp
    <3>2. PICK n \in Nat : FreeRunAfter(plan.keep, plan.to) = n * PageSize
      BY FreeRunIsThere
    <3>3. n * PageSize \in Nat
      BY PagesInOrder
    <3>. QED
      BY <3>1, <3>2, <3>3
  <2>3. FreeRunAfter(plan.keep, plan.to) >= AlignPage(size)
    BY <1>1, <1>2, <1>6, <2>1, <2>2 DEF Refused
  <2>4. PlaceFree(flash, 0, size) # NoPlace
    BY <1>1, <1>2, <1>6, <2>3, RunIsErased
  <2>. QED
    BY <1>4, <2>4
<1>. QED
  BY <1>5, <1>6

\* What CompactionMakesRoom asks, of a compaction that saw nothing pinned.
RoomUnlessPinned == plan.pinned = {} => CompactionMakesRoom

\* "A compaction that was not refused makes the room it was started for" (the
\* estimate of room in compact, patterns.rs, against the placement that follows):
\* true of every compaction that finds nothing pinned, if no operation is refused
\* and no update begins.  With pins it is not (patterns.rs:2119).
THEOREM CompactionsMakeRoom ==
    ~StaleLookups /\ MaxLeases = 0 /\ MaxOtas = 0 => (Spec => []RoomUnlessPinned)
<1>. SUFFICES ASSUME ~StaleLookups, MaxLeases = 0, MaxOtas = 0
              PROVE  Spec => []RoomUnlessPinned
  OBVIOUS
<1>1. StoreInv /\ FilesInv /\ RepackInv /\ [Next]_vars => RepackInv'
  BY RepackStep
<1>2. StoreInv /\ StoreInv' /\ VersInv /\ FilesInv /\ RepackInv /\ RoomInv /\ [Next]_vars => RoomInv'
  BY RoomStep
<1>3. StoreInv /\ RepackInv /\ RoomInv => RoomUnlessPinned
  BY UnpinnedMakesRoom DEF RoomUnlessPinned, CompactionMakesRoom
<1>4. Spec => []FilesInv
  BY FilesInvariant
<1>5. StoreInv /\ VersInv /\ [Next]_vars => VersInv'
  BY VersStep
<1>. QED
  BY <1>1, <1>2, <1>3, <1>4, <1>5, RepackInit, RoomInit, VersInit, StoreInvariant, PTL DEF Spec

\* As long as no pattern has been swapped in, nothing is pinned.
NothingPinned ==
    /\ used.swaps = 0 /\ engine.decoding = {}
    /\ pins = [code |-> {}, running |-> {}, prev |-> {}, current |-> {}]
    /\ plan.pinned = {}

\* Nothing is pinned if no swap is ever made.
LEMMA NothingPinnedStep ==
    ASSUME StoreInv, NothingPinned, MaxSwaps = 0, [Next]_vars
    PROVE  NothingPinned'
<1>1. used \in Used
  BY DEF StoreInv, TypeOK, WorldType
<1>2. ~SwapPin /\ ~SwapDecode /\ ~SwapInstall
  BY DEF NothingPinned, SwapPin, SwapDecode, SwapInstall, Swapping
<1>3. CASE FadeEnd
  BY <1>3 DEF FadeEnd, NothingPinned, locals
<1>4. CASE PowerCut
  BY <1>1, <1>4 DEF PowerCut, Boot, NothingPinned, NoPlan, Used
<1>5. ASSUME NEW c \in Clients, Serve(c) \/ Request(c)
      PROVE  NothingPinned'
  <2>1. UNCHANGED <<engine, pins>>
    BY <1>5 DEF Serve, Request, GiveUp, GetCopy, BeginSave, Reload, Publish, BeginDelete,
                VacateOp, RewriteOp, SweepOp, AppendOp, RetireOp, DeleteOp,
                RequestSave, RequestDelete, RequestGet, rest
  <2>2. used'.swaps = used.swaps
    BY <1>1, <1>5 DEF Used, Operate, Serve, Request, GiveUp, GetCopy, BeginSave, Reload, Publish, BeginDelete,
                VacateOp, RewriteOp, SweepOp, AppendOp, RetireOp, DeleteOp,
                RequestSave, RequestDelete, RequestGet, rest
  <2>3. plan' \in {plan, NoPlan, CompactionPlan}
    <3>1. \A lost \in BOOLEAN : VacateOp(c, lost) \/ RewriteOp(c, lost) \/ SweepOp(c, lost) => plan' = plan
      BY DEF VacateOp, RewriteOp, SweepOp
    <3>2. \A lost \in BOOLEAN : AppendOp(c, lost) \/ RetireOp(c, lost) \/ DeleteOp(c, lost) => plan' \in {plan, NoPlan}
      BY DEF AppendOp, RetireOp, DeleteOp, Answer
    <3>3. BeginSave(c) => plan' \in {plan, NoPlan, CompactionPlan}
      BY DEF BeginSave, GoAppend, locals
    <3>4. Reload(c) => plan' \in {plan, NoPlan}
      BY DEF Reload, GoAppend, Answer
    <3>5. Publish(c) \/ BeginDelete(c) \/ GiveUp(c) \/ GetCopy(c) \/ Request(c) => plan' \in {plan, NoPlan}
      BY DEF Publish, BeginDelete, GiveUp, GetCopy, Request, RequestSave, RequestDelete, RequestGet, Answer, locals
    <3>. QED
      BY <1>5, <3>1, <3>2, <3>3, <3>4, <3>5 DEF Serve
  <2>4. CompactionPlan.pinned = {} /\ NoPlan.pinned = {}
    BY DEF CompactionPlan, NoPlan, Pinned, NothingPinned
  <2>. HIDE DEF CompactionPlan, NoPlan
  <2>. QED
    BY <2>1, <2>2, <2>3, <2>4 DEF NothingPinned
<1>6. CASE OtaBegin \/ OtaEnd \/ UNCHANGED vars
  BY <1>1, <1>6 DEF OtaBegin, OtaEnd, vars, rest, locals, NothingPinned, Used
<1>. QED
  BY <1>2, <1>3, <1>4, <1>5, <1>6 DEF Next, Render

\* "A compaction keeps its word" (compact, patterns.rs): it erases no source before
\* its copy is whole, and makes the room it was started for; if no operation is
\* refused, no update begins and the render task swaps nothing in.
THEOREM CompactionKeepsItsWord ==
    ~StaleLookups /\ MaxLeases = 0 /\ MaxOtas = 0 /\ MaxSwaps = 0 =>
        (Spec => []CompactionDelivers)
<1>. SUFFICES ASSUME ~StaleLookups, MaxLeases = 0, MaxOtas = 0, MaxSwaps = 0
              PROVE  Spec => []CompactionDelivers
  OBVIOUS
<1>1. Spec => []SweepRunsLast
  BY SweepErasesNoSource
<1>2. Spec => []RoomUnlessPinned
  BY CompactionsMakeRoom
<1>3. Init => NothingPinned
  BY DEF Init, NothingPinned, NoPlan
<1>4. StoreInv /\ NothingPinned /\ [Next]_vars => NothingPinned'
  BY NothingPinnedStep
<1>5. NothingPinned /\ SweepRunsLast /\ RoomUnlessPinned => CompactionDelivers
  BY DEF NothingPinned, RoomUnlessPinned, CompactionDelivers
<1>. QED
  BY <1>1, <1>2, <1>3, <1>4, <1>5, StoreInvariant, PTL DEF Spec
=============================================================================
