------------------------------- MODULE PatLog -------------------------------
(* The pattern store's on-flash format and its pure placement rules           *)
(* (firmware/src/patlog.rs): what a scan of the log accepts, where an append  *)
(* may land, and where a compaction puts every file it must keep.            *)
(*                                                                            *)
(* The arena is an array of NumPages * PageSize units.  A file takes one unit *)
(* for its 48-byte header and "len" units for name + source + bytecode; the   *)
(* payload of content version v is Data(v, 1) .. Data(v, len).  A hash of the *)
(* payload is taken to identify the version: FNV collisions are not modelled. *)
(* A Rec is a record with the fields off, name, seq, stamp, ver, len and dead.*)
EXTENDS Naturals, FiniteSets, Sequences, FiniteSetsExt

CONSTANTS PageSize, NumPages

ASSUME GeometryAssumption == PageSize \in Nat \ {0} /\ NumPages \in Nat \ {0}

LogLen == NumPages * PageSize
Units == 0 .. LogLen - 1
Pages == 0 .. NumPages - 1

NoPlace == LogLen + 1          \* the None of a placement

-----------------------------------------------------------------------------
(* One unit of NOR flash.                                                     *)

Erased == [kind |-> "erased"]
Junk == [kind |-> "junk"]
Data(ver, i) == [kind |-> "data", ver |-> ver, i |-> i]

\* The header unit: the 40-byte prefix, then the commit and the dead word.
Header(rec, commit, dead) ==
    [kind |-> "header", rec |-> rec, commit |-> commit, dead |-> dead]

\* A program operation only clears bits: new bytes survive on erased flash, and
\* 0xFF (the erased pattern) leaves what is there; anything else is garbage.
Program(old, new) ==
    CASE old = Erased -> new
      [] new = Erased \/ new = old -> old
      [] OTHER -> Junk

\* The commit word and the dead word are 4-byte writes into a header unit; on
\* a unit that is not a header they hit somebody's bytes.
SetCommit(cell) == IF cell.kind = "header" THEN [cell EXCEPT !.commit = TRUE] ELSE Junk
SetDead(cell) == IF cell.kind = "header" THEN [cell EXCEPT !.dead = TRUE] ELSE Junk

-----------------------------------------------------------------------------
(* Geometry.                                                                  *)

Size(rec) == 1 + rec.len
End(rec) == rec.off + Size(rec)
PageOf(at) == at \div PageSize
AlignPage(at) == ((at + PageSize - 1) \div PageSize) * PageSize
PageUnits(p) == { u \in Units : PageOf(u) = p }
Extent(at, size) == at .. at + size - 1
PagesOf(at, size) == { PageOf(u) : u \in Extent(at, size) }

ErasedRange(fl, range) == \A u \in range : u \in Units /\ fl[u] = Erased
PageErased(fl, p) == ErasedRange(fl, PageUnits(p))

-----------------------------------------------------------------------------
(* The scan.                                                                  *)

\* hash_range over source and bytecode: every payload unit is the one written.
PayloadWhole(fl, rec) ==
    /\ End(rec) <= LogLen
    /\ \A i \in 1 .. rec.len : fl[rec.off + i] = Data(rec.ver, i)

\* parse_header: committed, and written for this very offset.
HeaderAt(fl, at) ==
    /\ fl[at].kind = "header"
    /\ fl[at].rec.off = at
    /\ fl[at].commit

Accepts(fl, at) == HeaderAt(fl, at) /\ PayloadWhole(fl, fl[at].rec)

\* The records the walk accepts.  It goes from header to header: whatever is not
\* a whole record, a torn one included, costs one step, and a whole one is
\* stepped over.  Its payload holds no header, so nothing is missed by that: the
\* walk accepts every place that qualifies (PatLogCheck compares the two).
Scan(fl) == { at \in Units : Accepts(fl, at) }

\* What the walk emits, and the end of the last record it accepts.
Emitted(fl) == { [fl[at].rec EXCEPT !.dead = fl[at].dead] : at \in Scan(fl) }
ScanCursor(fl) ==
    LET ends == { End(fl[at].rec) : at \in Scan(fl) }
    IN  IF ends = {} THEN 0 ELSE Max(ends)

-----------------------------------------------------------------------------
(* Where an append may start.                                                 *)

\* At the cursor when the rest of its page is still erased as far as the record
\* reaches, else at the next page boundary: pages above hold nothing live.
Place(fl, cursor, size) ==
    LET up == AlignPage(cursor)
        head == cursor .. Min({cursor + size, up}) - 1
    IN  IF cursor + size > LogLen THEN NoPlace
        ELSE IF cursor = up \/ ErasedRange(fl, head) THEN cursor
        ELSE IF up + size <= LogLen THEN up ELSE NoPlace

\* The erase of an append goes on to the end of the last page it touches.
ItsOwnUnits(at, size) == at .. at + size - 1    \* mutant
Cleared(at, size) == at .. AlignPage(at + size) - 1

\* Below the cursor: only onto erased units, up to the end of the last page the
\* record touches; right after the previous such file, else the lowest run.
PlaceFree(fl, hint, size) ==
    LET pages == AlignPage(size) \div PageSize
        runs == { p \in Pages : /\ p + pages <= NumPages
                                /\ \A q \in p .. p + pages - 1 : PageErased(fl, q) }
    IN  IF hint + size <= LogLen /\ ErasedRange(fl, Cleared(hint, size))
        THEN hint
        ELSE IF runs # {} THEN Min(runs) * PageSize ELSE NoPlace

-----------------------------------------------------------------------------
(* Compaction.                                                                *)

\* The pages of a pinned record: never erased, never written.
FrozenPages(keep, pinned) ==
    UNION { PagesOf(r.off, Size(r)) : r \in { k \in keep : k.seq \in pinned } }

HitsFrozen(keep, pinned, at, size) == PagesOf(at, size) \cap FrozenPages(keep, pinned) # {}

NeverStepsOver(keep, pinned, dst, size) == dst    \* mutant

\* The lowest place at or above dst whose pages are free of frozen ones, as the
\* loop that steps to the end of each frozen record in the way finds it.
StepOver(keep, pinned, dst, size) ==
    LET starts == {dst} \cup { AlignPage(End(r)) : r \in { k \in keep : k.seq \in pinned } }
        free == { t \in starts : t >= dst /\ ~HitsFrozen(keep, pinned, t, size) }
    IN  IF free = {} THEN NoPlace ELSE Min(free)

\* No record moves up.
NeverUp(at, off) == Min({at, off})

\* Keep sorted by offset, packed down one after the other; pinned records stay,
\* and so does one that cannot get below a frozen page.  A function from the
\* records to their new offsets.
Plan(keep, pinned) ==
    LET before(r) == { k \in keep : k.off < r.off }
        to[r \in keep] ==
            LET dst == IF before(r) = {} THEN 0
                       ELSE LET prev == CHOOSE k \in before(r) : \A j \in before(r) : j.off <= k.off
                            IN  to[prev] + Size(prev)
            IN  IF r.seq \in pinned THEN r.off
                ELSE NeverUp(StepOver(keep, pinned, dst, Size(r)), r.off)
    IN  to

\* What plan answers for: every record has a place in the log and none moves up,
\* in order, none over another, a pinned one at its own address, and a moved one
\* on no frozen page.
PlanHolds(keep, pinned, to) ==
    \A r \in keep :
        /\ to[r] \in Units /\ to[r] <= r.off
        /\ \A k \in keep : k.off < r.off => to[k] + Size(k) <= to[r]
        /\ r.seq \in pinned => to[r] = r.off
        /\ to[r] # r.off => ~HitsFrozen(keep, pinned, to[r], Size(r))

Packed(keep, to) == IF keep = {} THEN 0 ELSE Max({ to[r] + Size(r) : r \in keep })

\* The header of a file that moved: regenerated for the new offset.
HeaderCopied(r, at) == Header([r EXCEPT !.dead = FALSE], TRUE, r.dead)    \* mutant
HeaderAnew(r, at) == Header([r EXCEPT !.off = at, !.dead = FALSE], TRUE, r.dead)

\* The content of page p after the repack: headers regenerated, payload copied from the old one, everything else erased.
BuildPage(fl, keep, to, p) ==
    [ u \in PageUnits(p) |->
        LET owners == { r \in keep : u \in Extent(to[r], Size(r)) }
            r == CHOOSE k \in owners : TRUE
        IN  IF owners = {} THEN Erased
            ELSE IF u = to[r] THEN HeaderAnew(r, to[r])
            ELSE fl[u - to[r] + r.off] ]

\* The pages above every placement that the old log reached, erased last.
SweepPages(keep, to, oldEnd) ==
    { p \in Pages : /\ p * PageSize < oldEnd
                    /\ \A r \in keep : to[r] + Size(r) <= p * PageSize }

Covered(keep, to) == UNION { PagesOf(to[r], Size(r)) : r \in keep }

\* The largest run of units a completed repack leaves on pages no placement
\* covers.
FreeRunAfter(keep, to) ==
    LET covered == Covered(keep, to)
        runs == { n \in 0 .. NumPages :
                    \E p \in 0 .. NumPages : /\ p + n <= NumPages
                                             /\ (p .. p + n - 1) \cap covered = {} }
    IN  Max(runs) * PageSize
=============================================================================
