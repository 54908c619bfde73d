---------------------------- MODULE PatLogCheck -----------------------------
(* A test bench for the placement rules of PatLog, on every small log: it     *)
(* fills a log with files, gaps and garbage, repacks it page by page with the *)
(* power always on, and compares the definitions of PatLog with the loops of  *)
(* firmware/src/patlog.rs they stand for.                                     *)
EXTENDS PatLog

CONSTANTS
    MaxFiles,   \* files in a log
    MaxGap,     \* units between two of them
    Lens, Seqs

ASSUME BenchAssumption == MaxGap \in Nat /\ Lens \subseteq Nat

VARIABLES
    flash,
    keep,       \* the files to keep, ascending: all that were written
    pinned,
    page,       \* the next page to rewrite; NumPages once the repack is over
    phase       \* "fill", "repack", "done"

vars == <<flash, keep, pinned, page, phase>>

to == Plan(keep, pinned)
Filled == IF keep = {} THEN 0 ELSE Max({ End(r) : r \in keep })

Init ==
    /\ flash = [u \in Units |-> Erased]
    /\ keep = {} /\ pinned = {} /\ page = 0 /\ phase = "fill"

\* A file behind those there are, and the log with it: the gap before it is
\* erased or full of dead bytes.
NextFile(gap, len, seq) ==
    [ off |-> Filled + gap, name |-> seq, seq |-> seq, stamp |-> Cardinality(keep),
      ver |-> Cardinality(keep) + 1, len |-> len, dead |-> FALSE ]

LogWith(rec, dead, junk) ==
    [ u \in Units |->
        CASE u = rec.off                         -> Header(rec, TRUE, dead)
          [] u \in rec.off + 1 .. End(rec) - 1   -> Data(rec.ver, u - rec.off)
          [] u \in Filled .. rec.off - 1         -> IF junk THEN Junk ELSE Erased
          [] OTHER                               -> flash[u] ]

Write == \E gap \in 0 .. MaxGap, len \in Lens, seq \in Seqs, dead, junk \in BOOLEAN :
    LET rec == NextFile(gap, len, seq)
    IN  /\ phase = "fill" /\ Cardinality(keep) < MaxFiles /\ End(rec) <= LogLen
        /\ junk => gap > 0
        /\ flash' = LogWith(rec, dead, junk)
        /\ keep' = keep \cup {[rec EXCEPT !.dead = dead]}
        /\ UNCHANGED <<pinned, page, phase>>

Start == \E p \in SUBSET Seqs :
    /\ phase = "fill" /\ keep # {}
    /\ pinned' = p /\ phase' = "repack"
    /\ UNCHANGED <<flash, keep, page>>

\* One page of the repack, rewritten or swept.
Repack ==
    /\ phase = "repack" /\ page < NumPages
    /\ flash' = [ u \in Units |->
            IF u \notin PageUnits(page) \/ page \in FrozenPages(keep, pinned) THEN flash[u]
            ELSE IF page * PageSize < Packed(keep, to) THEN BuildPage(flash, keep, to, page)[u]
            ELSE IF page \in SweepPages(keep, to, Filled) THEN Erased ELSE flash[u] ]
    /\ page' = page + 1
    /\ UNCHANGED <<keep, pinned, phase>>

Finish ==
    /\ phase = "repack" /\ page = NumPages
    /\ phase' = "done"
    /\ UNCHANGED <<flash, keep, pinned, page>>

Next == Write \/ Start \/ Repack \/ Finish
Spec == Init /\ [][Next]_vars

-----------------------------------------------------------------------------

\* The walk of scan, step by step.
Walk ==
    LET walk[at \in 0 .. LogLen] ==
          IF at >= LogLen THEN {}
          ELSE IF Accepts(flash, at) THEN {at} \cup walk[End(flash[at].rec)]
          ELSE walk[at + 1]
    IN  walk[0]

\* In every state, half repacked ones included, the walk of scan, which steps
\* over what it accepts, finds every record that qualifies.
ScanIsTheWalk == Scan(flash) = Walk

\* The loop of plan that steps over frozen page ranges: to the end of the first
\* frozen record in the way, as often as there are records.
Stepped(dst, size) ==
    LET hit(t) == { r \in keep : r.seq \in pinned
                                   /\ PagesOf(r.off, Size(r)) \cap PagesOf(t, size) # {} }
        first(t) == CHOOSE r \in hit(t) : \A k \in hit(t) : r.off <= k.off
        after(t) == AlignPage(End(first(t)))
        loop[n \in 0 .. Cardinality(keep) + 1] ==
          IF n = 0 THEN dst
          ELSE LET t == loop[n - 1]
               IN  IF hit(t) # {} /\ after(t) > t THEN after(t) ELSE t
    IN  loop[Cardinality(keep) + 1]

\* StepOver is where that loop ends.
StepOverIsTheLoop ==
    phase = "repack" /\ page = 0 =>
        \A dst \in Units, size \in { 1 + l : l \in Lens } :
            StepOver(keep, pinned, dst, size) = Stepped(dst, size)

\* The declarative operators, which the store model and its proofs use, are the
\* loops of scan and plan.
OperatorsAreTheLoops == ScanIsTheWalk /\ StepOverIsTheLoop

\* A compaction is a total function: every log has a plan, nothing moves up, and
\* the pages to sweep are those between the packed end and the old one.
PlanIsTotal ==
    phase = "repack" /\ page = 0 =>
        /\ PlanHolds(keep, pinned, to)
        /\ \A r \in keep : to[r] <= r.off
        /\ SweepPages(keep, to, Filled) =
             AlignPage(Packed(keep, to)) \div PageSize .. AlignPage(Filled) \div PageSize - 1

\* A finished repack holds every file it had to keep, dead or live, whole at its
\* new place; all else it leaves are old copies that sit on a frozen page.
RepackKeepsAll ==
    phase = "done" =>
        LET wanted == { [r EXCEPT !.off = to[r]] : r \in keep }
        IN  /\ wanted \subseteq Emitted(flash)
            /\ \A r \in Emitted(flash) \ wanted :
                 r \in keep /\ HitsFrozen(keep, pinned, r.off, Size(r))

\* A compaction from its plan to its last page: it always can, and it keeps all.
CompactionIsSound == PlanIsTotal /\ RepackKeepsAll

\* free_run_after, consulted before anything is erased, is the room that the
\* repack leaves: whole erased pages in one run.
FreeRunIsExact ==
    phase = "done" =>
        LET runs == { n \in 0 .. NumPages : \E p \in 0 .. NumPages :
                        p + n <= NumPages /\ \A q \in p .. p + n - 1 : PageErased(flash, q) }
        IN  FreeRunAfter(keep, to) = Max(runs) * PageSize

\* No placement lands on a record, or has the append erase a page of one, at any
\* time; one below the cursor lands on erased units only.
PlacementIsSafe ==
    \A size \in { 1 + l : l \in Lens } :
        LET tail == Place(flash, ScanCursor(flash), size)
            Touched(at) == at .. AlignPage(at + size) - 1
            Held == UNION { Extent(r.off, Size(r)) : r \in Emitted(flash) }
        IN  /\ tail # NoPlace => Touched(tail) \subseteq Units \ Held
            /\ \A hint \in 0 .. LogLen :
                 LET at == PlaceFree(flash, hint, size)
                 IN  at # NoPlace => ErasedRange(flash, Touched(at))

\* Room is what it is said to be: the run promised before a compaction is the
\* one it leaves, and a place handed out holds no file.
RoomIsReal == FreeRunIsExact /\ PlacementIsSafe
=============================================================================
