---------------------------- MODULE PatternStore ----------------------------
(* The pattern store's executor (firmware/src/patterns.rs) over the log of    *)
(* PatLog: web tasks that save, delete and read files, the write guard, the   *)
(* compaction, the render task that executes files in place, an update that   *)
(* begins at any moment, flash operations lost to a leased driver, and power  *)
(* cuts inside any flash operation.                                           *)
(*                                                                            *)
(* One action runs a task from one await to the next, which is at most one    *)
(* flash operation.  A name stands for a (kind, name) pair; every save writes *)
(* a fresh version, the number of the save.                                   *)
EXTENDS PatLog

CONSTANTS
    Clients,        \* web tasks
    Names,
    Lens,           \* payload lengths a save may have, in units
    MaxRecs,        \* MAX_RECS
    MaxSaves, MaxDeletes, MaxGets, MaxSwaps,    \* bounds on the requests,
    MaxLeases, MaxOtas, MaxCuts,                \* on the faults
    SwapInCompaction, \* are schedules explored in which the render task swaps
                      \* while a compaction runs,
    StaleLookups,     \* and those in which a record a delete or a read looked
                      \* up is superseded or moved before it has the guard?
    NoClient

ASSUME StoreAssumption ==
    /\ Lens \subseteq Nat \ {0}
    /\ NoClient \notin Clients
    /\ SwapInCompaction \in BOOLEAN /\ StaleLookups \in BOOLEAN
    /\ \A n \in {MaxRecs, MaxSaves, MaxDeletes, MaxGets, MaxSwaps,
                 MaxLeases, MaxOtas, MaxCuts} : n \in Nat

VARIABLES
    flash,      \* [Units -> cell], the log region
    ram,        \* INDEX, CURSOR, FREE_HINT, NEXT_SEQ, NEXT_STAMP, OVERFULL
    ota,        \* OTA_ACTIVE
    req,        \* per client: the request it is serving
    holder,     \* who holds StoreWrite; BUSY = WRITER iff somebody does
    phase,      \* where the transaction in flight is
    job,        \* the file it writes, and the one its dead word is meant for
    plan,       \* what a compaction has decided: keep, pinned, to, oldEnd
    page,       \* the page its next flash operation is about
    buf,        \* the RAM buffer a compaction builds that page in
    engine,     \* the files the render task's engines execute in place
    pins,       \* PINS[0..2] and the current pattern id
    promise,    \* per name: the versions (0 = absent) a client may expect
    used        \* how much of each bound is spent

locals == <<phase, job, plan, page, buf>>
rest == <<engine, pins, promise, used>>
vars == <<flash, ram, ota, req, holder, locals, rest>>

Versions == 0 .. MaxSaves
Rec == [off : Units, name : Names, seq : Nat, stamp : Nat,
        ver : Versions, len : Lens, dead : BOOLEAN]

NoRec == {}             \* Option<Rec> is a set of at most one record
The(option) == CHOOSE r \in option : TRUE
Idle == [op |-> "idle"]
NoJob == [rec |-> NoRec, old |-> NoRec, existed |-> FALSE]
NoPlan == [keep |-> {}, pinned |-> {}, to |-> <<>>, oldEnd |-> 0]
NoBuf == <<>>

Appending == phase \in {"erase", "header", "payload", "commit", "publish"}
Compacting == phase \in {"vacate", "rewrite", "sweep", "reload"}

-----------------------------------------------------------------------------
(* RAM state, rebuilt from flash.                                             *)

\* reload: one live record per seq, the highest stamp and on a tie the lowest
\* offset, of the first MaxRecs seqs in log order.
ReloadOf(fl) ==
    LET all == Emitted(fl)
        live == { r \in all : ~r.dead }
        Current(r) == \A k \in live : k.seq = r.seq =>
                          k.stamp < r.stamp \/ (k.stamp = r.stamp /\ r.off <= k.off)
        firsts == { r \in live : \A k \in live : k.seq = r.seq => r.off <= k.off }
        Counted(seq) == \E f \in firsts :
            f.seq = seq /\ Cardinality({ g \in firsts : g.off < f.off }) < MaxRecs
    IN  [ index     |-> { r \in live : Current(r) /\ Counted(r.seq) },
          cursor    |-> ScanCursor(fl),
          freeHint  |-> 0,
          nextSeq   |-> Max({0} \cup { r.seq + 1 : r \in all }),
          nextStamp |-> Max({1} \cup { r.stamp + 1 : r \in all }),
          overfull  |-> Cardinality(firsts) > MaxRecs ]

\* rec_by_name: the lowest record whose bytes, whatever they are by now, carry
\* that name.
RecByName(name) ==
    LET hits == { r \in ram.index : /\ flash[r.off].kind = "header"
                                    /\ flash[r.off].rec.name = name }
    IN  { r \in hits : \A k \in hits : r.off <= k.off }

RecBySeq(index, seq) == { r \in index : r.seq = seq }

-----------------------------------------------------------------------------
(* Flash operations.  No single one crosses a page boundary.                  *)

PayloadUnits(rec) == Extent(rec.off + 1, rec.len)
Body(rec, u) == Data(rec.ver, u - rec.off)

\* What the operation due in this phase makes of the units it touches.
Written ==
    CASE phase \in {"erase", "vacate", "sweep"} -> [u \in PageUnits(page) |-> Erased]
      [] phase = "rewrite" -> [u \in PageUnits(page) |-> Program(flash[u], buf[u])]
      [] phase = "header"  -> [u \in {job.rec.off} |-> Program(flash[u], Header(job.rec, FALSE, FALSE))]
      [] phase = "payload" -> [u \in PayloadUnits(job.rec) \cap PageUnits(page) |->
                                   Program(flash[u], Body(job.rec, u))]
      [] phase = "commit"  -> [u \in {job.rec.off} |-> SetCommit(flash[u])]
      [] phase \in {"retire", "delete"} -> [u \in {The(job.old).off} |-> SetDead(flash[u])]
      [] OTHER             -> [u \in {} |-> Erased]

\* The flash once the units before "at" are written and, when "junk", the unit at
\* "at" half written.
Upto(at, junk) ==
    [ u \in Units |-> IF u \in DOMAIN Written /\ u < at THEN Written[u]
                      ELSE IF u = at /\ junk THEN Junk ELSE flash[u] ]

\* What a power cut in the middle of the operation leaves: a word is there or
\* not, a longer write or an erase stops anywhere.
Torn ==
    { Upto(at, FALSE) : at \in DOMAIN Written \cup {LogLen} }
      \cup { Upto(at, TRUE) : at \in { u \in DOMAIN Written :
                 /\ phase \notin {"commit", "retire", "delete"}
                 /\ Written[u] # flash[u] } }

\* with_flash is refused while a key-area transaction leases the driver; the
\* caller also gives up, after the operation, when an update has begun.
Operate(lost) ==
    /\ lost => ~ota /\ used.leases < MaxLeases
    /\ flash' = IF lost THEN flash ELSE Upto(LogLen, FALSE)
    /\ used' = IF lost THEN [used EXCEPT !.leases = @ + 1] ELSE used
NeverRefused(lost) == TRUE    \* mutant
Succeeded(lost) == ~lost /\ ~ota

\* The transaction ends: the guard drops, the task is idle.
GuardLeaked(c) ==    \* mutant
    /\ phase' = "none" /\ job' = NoJob /\ plan' = NoPlan /\ page' = 0 /\ buf' = NoBuf
    /\ req' = [req EXCEPT ![c] = Idle]
    /\ UNCHANGED holder
Answer(c) ==
    /\ holder' = NoClient
    /\ phase' = "none" /\ job' = NoJob /\ plan' = NoPlan /\ page' = 0 /\ buf' = NoBuf
    /\ req' = [req EXCEPT ![c] = Idle]

\* StoreWrite and MapRead are refused while a writer holds the guard.
GuardFree == holder = NoClient

\* Nothing in the code checks this: StaleLookups = FALSE leaves the schedules out.
Fresh(c) == StaleLookups \/ req[c].rec \in ram.index

Allow(name, vs) == promise' = [promise EXCEPT ![name] = @ \cup vs]
Settle(name, v) == promise' = [promise EXCEPT ![name] = {v}]

-----------------------------------------------------------------------------
(* Requests: what a handler reads before it waits for the guard.              *)

RequestSave(c) == \E name \in Names, len \in Lens :
    /\ req[c] = Idle /\ ~ota /\ used.saves < MaxSaves
    /\ used' = [used EXCEPT !.saves = @ + 1]
    /\ req' = [req EXCEPT ![c] = [op |-> "save", name |-> name, len |-> len,
                                  ver |-> used.saves + 1]]
    /\ UNCHANGED <<flash, ram, ota, holder, locals, engine, pins, promise>>

\* delete_kind looks the record up before StoreWrite::acquire().await.
RequestDelete(c) == \E r \in ram.index :
    /\ req[c] = Idle /\ used.deletes < MaxDeletes
    /\ used' = [used EXCEPT !.deletes = @ + 1]
    /\ req' = [req EXCEPT ![c] = [op |-> "delete", rec |-> r]]
    /\ UNCHANGED <<flash, ram, ota, holder, locals, engine, pins, promise>>

\* get_json looks the record and its name up before MapRead::acquire().await.
RequestGet(c) == \E r \in ram.index :
    /\ req[c] = Idle /\ used.gets < MaxGets
    /\ used' = [used EXCEPT !.gets = @ + 1]
    /\ req' = [req EXCEPT ![c] = [op |-> "get", rec |-> r]]
    /\ UNCHANGED <<flash, ram, ota, holder, locals, engine, pins, promise>>

\* acquire ran out of tries while another task held the guard.
GiveUp(c) ==
    /\ req[c] # Idle /\ holder \notin {NoClient, c}
    /\ req' = [req EXCEPT ![c] = Idle]
    /\ UNCHANGED <<flash, ram, ota, holder, locals, rest>>

\* MapRead is held across the synchronous copy only.
GetCopy(c) ==
    /\ req[c].op = "get" /\ GuardFree /\ Fresh(c)
    /\ req' = [req EXCEPT ![c] = Idle]
    /\ UNCHANGED <<flash, ram, ota, holder, locals, rest>>

-----------------------------------------------------------------------------
(* Saving: identity, placement, append, publish, retire.                      *)

FindPlace(fl, r, size) ==
    LET tail == Place(fl, r.cursor, size)
    IN  IF tail # NoPlace THEN tail ELSE PlaceFree(fl, r.freeHint, size)

\* The pages an append erases first: all it touches but a first, partial one.
AllItsPages(rec) == PagesOf(rec.off, Size(rec))    \* mutant
FreshPages(rec) ==
    { p \in Pages : AlignPage(rec.off) <= p * PageSize /\ p * PageSize < End(rec) }

\* append_plan, from its first step: each of them, unless it is erased already.
GoErase(fl, rec, from) ==
    LET todo == { p \in FreshPages(rec) : p >= from /\ ~PageErased(fl, p) }
    IN  /\ phase' = IF todo = {} THEN "header" ELSE "erase"
        /\ page' = IF todo = {} THEN 0 ELSE Min(todo)

\* The append of the file at off, stamped as the RAM state r says.
GoAppend(fl, r, rec, old, existed, off) ==
    LET placed == [rec EXCEPT !.off = off, !.stamp = r.nextStamp]
    IN  /\ job' = [rec |-> placed, old |-> old, existed |-> existed]
        /\ GoErase(fl, placed, 0)
        /\ plan' = NoPlan /\ buf' = NoBuf

UnpinnedFade == pins.code \cup pins.running \cup pins.current  \* mutant
Pinned == pins.code \cup pins.running \cup pins.prev \cup pins.current

\* Everything that must survive a compaction, and where it goes.
CompactionPlan ==
    LET pinned == Pinned
        keep == ram.index \cup { r \in Emitted(flash) :
                    r.seq \in pinned /\ r.off \notin { l.off : l \in ram.index } }
    IN  [ keep |-> keep, pinned |-> pinned, to |-> Plan(keep, pinned), oldEnd |-> ram.cursor ]

\* Refused before anything is erased: no plan, or nothing to gain.
Refused(pl, size) ==
    \/ ~PlanHolds(pl.keep, pl.pinned, pl.to)
    \/ /\ Packed(pl.keep, pl.to) + size > LogLen
       /\ FreeRunAfter(pl.keep, pl.to) < AlignPage(size)

\* The next stale page above the repack, unless it is erased already; when there
\* is none, the RAM state is due.
GoSweep(fl, pl) ==
    LET todo == { p \in SweepPages(pl.keep, pl.to, pl.oldEnd) : ~PageErased(fl, p) }
    IN  /\ phase' = IF todo = {} THEN "reload" ELSE "sweep"
        /\ page' = IF todo = {} THEN 0 ELSE Min(todo)
        /\ buf' = NoBuf

\* The pages of the repack.
OnlyFullPages(pl) ==    \* mutant
    { p \in Pages : /\ (p + 1) * PageSize <= Packed(pl.keep, pl.to)
                    /\ p \notin FrozenPages(pl.keep, pl.pinned) }
FrozenToo(pl) == { p \in Pages : p * PageSize < Packed(pl.keep, pl.to) }  \* mutant
RepackPages(pl) ==
    { p \in Pages : /\ p * PageSize < Packed(pl.keep, pl.to)
                    /\ p \notin FrozenPages(pl.keep, pl.pinned) }

\* The next page of the repack whose content changes, built in RAM before it is
\* erased; when there is none, the sweep.
GoCompact(fl, pl, from) ==
    LET Built(p) == BuildPage(fl, pl.keep, pl.to, p)
        todo == { p \in RepackPages(pl) :
                    p >= from /\ \E u \in PageUnits(p) : Built(p)[u] # fl[u] }
    IN  IF todo = {} THEN GoSweep(fl, pl)
        ELSE /\ page' = Min(todo) /\ buf' = Built(Min(todo))
             /\ phase' = IF PageErased(fl, Min(todo)) THEN "rewrite" ELSE "vacate"

\* The guard is taken: who the file replaces, where it goes, or how to make room.
BeginSave(c) ==
    /\ req[c].op = "save" /\ GuardFree
    /\ LET q == req[c]
           old == RecByName(q.name)
           seq == IF old = NoRec THEN ram.nextSeq ELSE The(old).seq
           full == ram.overfull \/ (old = NoRec /\ Cardinality(ram.index) >= MaxRecs)
           off == FindPlace(flash, ram, 1 + q.len)
           rec == [ off |-> 0, name |-> q.name, seq |-> seq, stamp |-> 0,
                    ver |-> q.ver, len |-> q.len, dead |-> FALSE ]
       IN  \/ /\ full \/ (off = NoPlace /\ Refused(CompactionPlan, 1 + q.len))
              /\ req' = [req EXCEPT ![c] = Idle]
              /\ UNCHANGED <<holder, locals>>
           \/ /\ ~full /\ off # NoPlace
              /\ holder' = c
              /\ GoAppend(flash, ram, rec, old, old # NoRec, off)
              /\ UNCHANGED req
           \/ /\ ~full /\ off = NoPlace /\ ~Refused(CompactionPlan, 1 + q.len)
              /\ holder' = c
              /\ job' = [rec |-> rec, old |-> old, existed |-> old # NoRec]
              /\ plan' = CompactionPlan
              /\ GoCompact(flash, CompactionPlan, 0)
              /\ UNCHANGED req
    /\ UNCHANGED <<flash, ram, ota, rest>>

\* A page of the repack is erased; a failure abandons the repack and sweeps.
VacateOp(c, lost) ==
    /\ holder = c /\ phase = "vacate" /\ Operate(lost)
    /\ IF Succeeded(lost) THEN phase' = "rewrite" /\ UNCHANGED <<page, buf>>
       ELSE GoSweep(flash', plan)
    /\ UNCHANGED <<ram, ota, req, holder, job, plan, engine, pins, promise>>

\* ... and written; a failure abandons the repack and sweeps.
RewriteOp(c, lost) ==
    /\ holder = c /\ phase = "rewrite" /\ Operate(lost)
    /\ IF Succeeded(lost) THEN GoCompact(flash', plan, page + 1)
       ELSE GoSweep(flash', plan)
    /\ UNCHANGED <<ram, ota, req, holder, job, plan, engine, pins, promise>>

SweepOp(c, lost) ==
    /\ holder = c /\ phase = "sweep" /\ Operate(lost)
    /\ IF Succeeded(lost) THEN GoSweep(flash', plan)
       ELSE phase' = "reload" /\ page' = 0 /\ UNCHANGED buf
    /\ UNCHANGED <<ram, ota, req, holder, job, plan, engine, pins, promise>>

\* The old version is looked up again after a compaction, for it has moved.
NotLookedUpAgain(index) == job.old    \* mutant
OldVersion(index) == IF job.old = NoRec THEN NoRec ELSE RecBySeq(index, job.rec.seq)

\* After the repack: rebuild the RAM state and place again.
Reload(c) ==
    /\ holder = c /\ phase = "reload"
    /\ ram' = ReloadOf(flash)
    /\ LET off == FindPlace(flash, ram', Size(job.rec))
       IN  IF off = NoPlace THEN Answer(c)
           ELSE /\ GoAppend(flash, ram', job.rec, OldVersion(ram'.index), job.existed, off)
                /\ UNCHANGED <<holder, req>>
    /\ UNCHANGED <<flash, ota, rest>>

\* The step of append_plan that follows, given the flash as it is now.
NextStep ==
    LET more == { p \in PagesOf(job.rec.off + 1, job.rec.len) : p > page }
    IN  CASE phase = "erase"   -> GoErase(flash', job.rec, page + 1)
          [] phase = "header"  -> phase' = "payload" /\ page' = PageOf(job.rec.off + 1)
          [] phase = "payload" -> /\ phase' = IF more = {} THEN "commit" ELSE "payload"
                                  /\ page' = IF more = {} THEN 0 ELSE Min(more)
          [] phase = "commit"  -> phase' = "publish" /\ page' = 0

\* One write of the append.  The payload is hashed as the readers will see it
\* before the commit word goes down; any failure ends the save with an error.
AppendOp(c, lost) ==
    /\ holder = c /\ Appending /\ phase # "publish"
    /\ \/ /\ phase = "commit" => PayloadWhole(flash, job.rec)
          /\ Operate(lost)
          /\ IF Succeeded(lost) THEN NextStep /\ UNCHANGED <<req, holder, job, plan, buf, promise>>
             ELSE Answer(c) /\ Allow(job.rec.name, {job.rec.ver})
       \/ /\ phase = "commit" /\ ~PayloadWhole(flash, job.rec)
          /\ Answer(c) /\ Allow(job.rec.name, {job.rec.ver})
          /\ UNCHANGED <<flash, used>>
    /\ UNCHANGED <<ram, ota, engine, pins>>

\* The index with a file that replaces the one of its seq, and without a seq.
Replaced(index, rec) == { r \in index : r.seq # rec.seq } \cup {rec}
LeftThere(index, seq) == index    \* mutant
Removed(index, seq) == { r \in index : r.seq # seq }

StampSpentTwice(rec) == rec.stamp    \* mutant
StampAfter(rec) == rec.stamp + 1

\* The commit word is down: the index moves to the new file.
Publish(c) ==
    /\ holder = c /\ phase = "publish"
    /\ LET rec == job.rec
       IN  ram' = [ram EXCEPT
                !.index     = Replaced(@, rec),
                !.cursor    = IF @ < End(rec) THEN End(rec) ELSE @,
                !.freeHint  = IF End(rec) <= ram.cursor THEN End(rec) ELSE @,
                !.nextStamp = StampAfter(rec),
                !.nextSeq   = IF job.existed THEN @ ELSE rec.seq + 1 ]
    /\ IF job.old = NoRec
       THEN Answer(c) /\ Settle(job.rec.name, job.rec.ver)
       ELSE phase' = "retire" /\ UNCHANGED <<req, holder, job, plan, page, buf, promise>>
    /\ UNCHANGED <<flash, ota, engine, pins, used>>

\* The superseded version is marked dead; a failure is only logged.
RetireOp(c, lost) ==
    /\ holder = c /\ phase = "retire" /\ Operate(lost)
    /\ Answer(c) /\ Settle(job.rec.name, job.rec.ver)
    /\ UNCHANGED <<ram, ota, engine, pins>>

-----------------------------------------------------------------------------
(* Deleting: one dead word at the address looked up before the wait.          *)

BeginDelete(c) ==
    /\ req[c].op = "delete" /\ GuardFree /\ Fresh(c)
    /\ holder' = c /\ phase' = "delete"
    /\ job' = [rec |-> req[c].rec, old |-> {req[c].rec}, existed |-> TRUE]
    /\ UNCHANGED <<flash, ram, ota, req, plan, page, buf, rest>>

DeleteOp(c, lost) ==
    /\ holder = c /\ phase = "delete" /\ Operate(lost)
    /\ IF Succeeded(lost)
       THEN /\ ram' = [ram EXCEPT !.index = Removed(@, job.rec.seq)]
            /\ Settle(job.rec.name, 0)
       ELSE UNCHANGED ram /\ Allow(job.rec.name, {0})
    /\ Answer(c)
    /\ UNCHANGED <<ota, engine, pins>>

-----------------------------------------------------------------------------
(* The render task: it swaps to a stored pattern and executes it in place.    *)

Swapping == pins.code # {}

\* drop_prev, pin what keeps running through a crossfade, pin what is decoded.
SwapPin == \E r \in ram.index, fade \in BOOLEAN :
    /\ ~Swapping /\ used.swaps < MaxSwaps
    /\ Compacting => SwapInCompaction
    /\ pins' = [pins EXCEPT !.code = {r.seq},
                            !.prev = IF fade /\ engine.run # {} THEN pins.running ELSE {}]
    /\ engine' = [engine EXCEPT !.prev = {}, !.run = IF fade THEN @ ELSE {}]
    /\ used' = [used EXCEPT !.swaps = @ + 1]
    /\ UNCHANGED <<flash, ram, ota, req, holder, locals, promise>>

\* code_of: the record the index has now, borrowed in place.
SwapDecode ==
    /\ Swapping /\ engine.decoding = {}
    /\ LET seq == The(pins.code)
           found == RecBySeq(ram.index, seq)
       IN  IF found = {}
           THEN /\ pins' = [pins EXCEPT !.code = {}, !.prev = {}]
                /\ UNCHANGED engine
           ELSE /\ engine' = [engine EXCEPT !.decoding = found]
                /\ pins' = [pins EXCEPT !.current = {seq}]
    /\ UNCHANGED <<flash, ram, ota, req, holder, locals, promise, used>>

SwapInstall ==
    /\ engine.decoding # {}
    /\ engine' = [run |-> engine.decoding, prev |-> engine.run, decoding |-> {}]
    /\ pins' = [pins EXCEPT !.running = pins.code, !.code = {},
                            !.prev = IF engine.run = {} THEN {} ELSE @]
    /\ UNCHANGED <<flash, ram, ota, req, holder, locals, promise, used>>

FadeEnd ==
    /\ ~Swapping /\ engine.prev # {}
    /\ engine' = [engine EXCEPT !.prev = {}]
    /\ pins' = [pins EXCEPT !.prev = {}]
    /\ UNCHANGED <<flash, ram, ota, req, holder, locals, promise, used>>

-----------------------------------------------------------------------------
(* Faults.                                                                    *)

OtaBegin ==
    /\ ~ota /\ used.otas < MaxOtas
    /\ ota' = TRUE
    /\ used' = [used EXCEPT !.otas = @ + 1]
    /\ UNCHANGED <<flash, ram, req, holder, locals, engine, pins, promise>>

OtaEnd ==       \* the update failed and the device runs on
    /\ ota
    /\ ota' = FALSE
    /\ UNCHANGED <<flash, ram, req, holder, locals, rest>>

Boot(fl) ==
    /\ flash' = fl
    /\ ram' = ReloadOf(fl)
    /\ ota' = FALSE
    /\ req' = [c \in Clients |-> Idle]
    /\ holder' = NoClient
    /\ phase' = "none" /\ job' = NoJob /\ plan' = NoPlan /\ page' = 0 /\ buf' = NoBuf
    /\ engine' = [run |-> {}, prev |-> {}, decoding |-> {}]
    /\ pins' = [code |-> {}, running |-> {}, prev |-> {}, current |-> {}]

\* The files whose new extent touches the page being rewritten.
Exposed ==
    IF phase \notin {"vacate", "rewrite"} THEN {}
    ELSE { r \in plan.keep : page \in PagesOf(plan.to[r], Size(r)) }

\* The power fails, possibly inside the flash operation about to happen, and
\* the device boots.  A client may find the request in flight done or not done.
PowerCut ==
    /\ used.cuts < MaxCuts
    /\ used' = [used EXCEPT !.cuts = @ + 1]
    /\ \E fl \in Torn : Boot(fl)
    /\ promise' = [ n \in Names |->
         promise[n]
           \cup (IF n \in { r.name : r \in Exposed } THEN Versions ELSE {})
           \cup (IF (Appending \/ phase = "retire") /\ n = job.rec.name
                 THEN {job.rec.ver} ELSE {})
           \cup (IF phase = "delete" /\ n = job.rec.name THEN {0} ELSE {}) ]

-----------------------------------------------------------------------------

Init ==
    /\ flash = [u \in Units |-> Erased]
    /\ ram = ReloadOf(flash)
    /\ ota = FALSE
    /\ req = [c \in Clients |-> Idle]
    /\ holder = NoClient
    /\ phase = "none" /\ job = NoJob /\ plan = NoPlan /\ page = 0 /\ buf = NoBuf
    /\ engine = [run |-> {}, prev |-> {}, decoding |-> {}]
    /\ pins = [code |-> {}, running |-> {}, prev |-> {}, current |-> {}]
    /\ promise = [n \in Names |-> {0}]
    /\ used = [saves |-> 0, deletes |-> 0, gets |-> 0, swaps |-> 0,
               leases |-> 0, otas |-> 0, cuts |-> 0]

\* What a client's task does once its request is made.
Serve(c) ==
    \/ GiveUp(c) \/ GetCopy(c)
    \/ BeginSave(c) \/ Reload(c) \/ Publish(c) \/ BeginDelete(c)
    \/ \E lost \in BOOLEAN :
         \/ VacateOp(c, lost) \/ RewriteOp(c, lost) \/ SweepOp(c, lost)
         \/ AppendOp(c, lost) \/ RetireOp(c, lost) \/ DeleteOp(c, lost)

Request(c) == RequestSave(c) \/ RequestDelete(c) \/ RequestGet(c)

Render == SwapPin \/ SwapDecode \/ SwapInstall \/ FadeEnd

Next ==
    \/ \E c \in Clients : Request(c) \/ Serve(c)
    \/ Render
    \/ OtaBegin \/ OtaEnd \/ PowerCut

Spec == Init /\ [][Next]_vars

-----------------------------------------------------------------------------
(* Properties.                                                                *)

\* Files lie within the log.
File == { r \in Rec : End(r) <= LogLen }

Cell == {Erased, Junk}
          \cup [kind : {"data"}, ver : Versions, i : Nat]
          \cup [kind : {"header"}, rec : Rec, commit : BOOLEAN, dead : BOOLEAN]

Ram == [index : SUBSET File, cursor : 0 .. LogLen, freeHint : 0 .. LogLen,
        nextSeq : Nat, nextStamp : Nat, overfull : BOOLEAN]

Requests == {Idle}
              \cup [op : {"save"}, name : Names, len : Lens, ver : Versions]
              \cup [op : {"delete", "get"}, rec : File]

Phases == {"none", "erase", "header", "payload", "commit", "publish", "retire",
           "delete", "vacate", "rewrite", "sweep", "reload"}

Engines == [run : SUBSET File, prev : SUBSET File, decoding : SUBSET File]
PinSlots == [code : SUBSET Nat, running : SUBSET Nat, prev : SUBSET Nat, current : SUBSET Nat]
Used == [saves : Versions, deletes : Nat, gets : Nat, swaps : Nat,
         leases : Nat, otas : Nat, cuts : Nat]

WorldType ==
    /\ flash \in [Units -> Cell] /\ ram \in Ram /\ ota \in BOOLEAN
    /\ engine \in Engines /\ pins \in PinSlots
    /\ promise \in [Names -> SUBSET Versions] /\ used \in Used

TaskType ==
    /\ req \in [Clients -> Requests]
    /\ holder \in Clients \cup {NoClient}
    /\ phase \in Phases
    /\ holder = NoClient <=> phase = "none"
    /\ phase # "none" => /\ job \in [rec : Rec, old : SUBSET File, existed : BOOLEAN]
                         /\ req[holder].op = IF phase = "delete" THEN "delete" ELSE "save"
    /\ Appending \/ phase = "retire" => job.rec \in File
    /\ phase \in {"retire", "delete"} => job.old # NoRec

\* Every variable keeps its type, and the guard, the transaction and the request
\* it serves belong together (the StoreWrite guard of patterns.rs): no file of
\* the index or of a transaction reaches past the end of the log.
TypeOK == WorldType /\ TaskType

PlanSound(pl) == pl.keep \subseteq File /\ PlanHolds(pl.keep, pl.pinned, pl.to)

\* While a compaction is under way its plan still holds for the files it keeps,
\* and the page it is about is none it must not touch.
CompactionSound ==
    /\ Compacting => PlanSound(plan)
    /\ phase \in {"vacate", "rewrite"} => /\ page \in Pages \ FrozenPages(plan.keep, plan.pinned)
                                         /\ buf \in [PageUnits(page) -> Cell]
    /\ phase = "sweep" => page \in SweepPages(plan.keep, plan.to, plan.oldEnd)

\* No two indexed files have one seq or lie over one another.
FilesApart ==
    \A r, k \in ram.index : r # k =>
        r.seq # k.seq /\ Extent(r.off, Size(r)) \cap Extent(k.off, Size(k)) = {}

\* At most MaxRecs files are indexed, apart from each other.
IndexSound == Cardinality(ram.index) <= MaxRecs /\ FilesApart

\* "What the device believes is always exactly what the flash says": between
\* two transactions a reboot would rebuild the index and the cursor the device
\* has, and the counters are past everything on flash.
RamAgrees ==
    holder = NoClient =>
        LET r == ReloadOf(flash)
        IN  /\ ram.index = r.index /\ ram.cursor = r.cursor
            /\ ram.nextSeq >= r.nextSeq /\ ram.nextStamp >= r.nextStamp

Stored(index, name) == { r.ver : r \in { k \in index : k.name = name } }

\* Between two transactions, what a reboot would find under a name is what its
\* clients were told: the acknowledged version, nothing if it was deleted, or
\* the version of a save that was answered with an error or cut short.
RebootKeepsPromises ==
    holder = NoClient =>
        LET index == ReloadOf(flash).index
        IN  \A n \in Names :
              IF Stored(index, n) = {} THEN 0 \in promise[n]
              ELSE Stored(index, n) \subseteq promise[n]

\* The library as a reboot at this very moment would find it.
Survives(r, index) == \E k \in index : k.seq = r.seq /\ k.ver = r.ver

\* At every instant, inside every transaction, each indexed file survives a
\* power cut, but for a file a newer one is replacing and, in a compaction, the
\* files that will occupy the page being rewritten.
LossBounded ==
    LET after == ReloadOf(flash).index
    IN  \A r \in ram.index :
            \/ Survives(r, after)
            \/ r \in Exposed
            \/ (Appending \/ phase = "delete") /\ r.seq = job.rec.seq

\* The file of this record lies byte for byte where the record says.
Intact(r) ==
    /\ HeaderAt(flash, r.off) /\ flash[r.off].rec.ver = r.ver
    /\ PayloadWhole(flash, r)

\* Whatever was refused by a lease of the driver, or done and yet reported as
\* failed because an update had begun, in an append, in a repack that was
\* abandoned half-way or in a dead word: outside a compaction, every file the
\* index hands out (code_of, get_json) is on flash where the index says.
IndexStands == ~Compacting => \A r \in ram.index : Intact(r)

\* What an engine executes in place is, byte for byte, the file it decoded.
ExecutedIntact ==
    \A r \in engine.run \cup engine.prev \cup engine.decoding : Intact(r)

\* From the moment a compaction has read the pins until it is over, nothing on
\* the pages of a file it saw pinned is erased or written, not even by a cut.
FrozenPagesUntouched ==
    [][Compacting => \A p \in FrozenPages(plan.keep, plan.pinned) :
         \A u \in PageUnits(p) : flash'[u] = flash[u]]_vars

\* A dead word, whether it retires or deletes, lands in a header of the file it
\* is meant for, and only in the version it is meant for.
DeadWordHitsItsFile ==
    phase \in {"retire", "delete"} =>
        LET cell == flash[The(job.old).off]
        IN  /\ cell.kind = "header" /\ cell.rec.seq = job.rec.seq
            /\ IF phase = "delete" THEN \A k \in RecBySeq(ram.index, job.rec.seq) : cell.rec.ver = k.ver
               ELSE cell.rec.ver # job.rec.ver

\* The sweep runs last: by then every kept file is whole at its new place.
SweepRunsLast ==
    phase = "sweep" =>
        \A r \in plan.keep : Accepts(flash, plan.to[r]) /\ flash[plan.to[r]].rec.ver = r.ver

\* A compaction that was not refused makes the room it was started for.
CompactionMakesRoom ==
    phase = "reload" => FindPlace(flash, ReloadOf(flash), Size(job.rec)) # NoPlace

\* A compaction keeps its word (compact in patterns.rs): it erases no source
\* before its copy is whole, and it makes the room it was started for.
CompactionDelivers == SweepRunsLast /\ CompactionMakesRoom

\* Two whole records of one seq and one stamp are copies of one version, so the
\* highest stamp names the current one.
StampsNameVersions ==
    \A r, k \in Emitted(flash) : r.seq = k.seq /\ r.stamp = k.stamp => r.ver = k.ver

\* One seq, one stamp: the index has one file per seq, apart from all others,
\* and of two files of a seq on flash the stamps tell which is current.
VersionsTold == IndexSound /\ StampsNameVersions

\* A power cut at any instant costs at most one file.
AtMostOneLost ==
    LET after == ReloadOf(flash).index
    IN  Cardinality({ r \in ram.index : ~Survives(r, after) }) <= 1

\* A read serves the bytes of the record it looked up.  The code does not keep
\* this (StaleLookups = TRUE); without stale lookups it is Exclusion of StoreGuard.
GetServesItsFile ==
    [][\A c \in Clients : GetCopy(c) => PayloadWhole(flash, req[c].rec)]_vars
=============================================================================
